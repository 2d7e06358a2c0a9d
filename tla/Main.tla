-------------------------------- MODULE Main --------------------------------
(***************************************************************************)
(* src/main.c: options, the capture handle, the signal handlers and the    *)
(* loop.  The handle's capture_open, capture_next and capture_close, whose *)
(* signatures here no file of the repository has, are modelled from how    *)
(* main uses them: capture_next returns after a time-out, an error, or one *)
(* packet given to packet_handler.  Of the options only the count and the  *)
(* length decide anything; the filter is passed to capture_open.           *)
(***************************************************************************)
EXTENDS Integers

CONSTANTS Counts,     \* arguments of -c; 0 is unlimited, and atoi takes
                      \* negative ones
          Snaplens,   \* arguments of -s
          MaxPackets  \* bound on the packets before a signal, without a count

\* What the constants are.
MainAssumption == Counts \subseteq Int /\ Snaplens \subseteq Int

VARIABLES phase,     \* "options", "open", "signals", "loop", "next", "close"
                     \* or "done"
          count, snaplen, captured,
          running,   \* cleared by handle_sigint
          handle_open,
          status,    \* "success" or "failure", or the default action of a
                     \* signal: "killed"
          printed,   \* history: the packets packet_handler printed
          after,     \* history: of these, printed after a signal
          reason     \* history: why the loop ended

mainVars == <<phase, count, snaplen, captured, running, handle_open, status, printed,
              after, reason>>

Init == /\ phase = "options" /\ count = 0 /\ snaplen = 1514 /\ captured = 0
        /\ running = TRUE /\ handle_open = FALSE /\ status = "none"
        /\ printed = 0 /\ after = 0 /\ reason = "none"

Exit(how) == phase' = "done" /\ status' = how

\* -h, an option that does not exist, or a length out of bounds; or values.
Options == /\ phase = "options"
           /\ \/ /\ \E how \in {"success", "failure"} : Exit(how)
                 /\ UNCHANGED <<count, snaplen>>
              \/ /\ \E c \in Counts, s \in Snaplens :
                       /\ count' = c /\ snaplen' = s
                       /\ IF s < 64 \/ s > 65535 THEN Exit("failure")
                          ELSE phase' = "open" /\ UNCHANGED status
           /\ UNCHANGED <<captured, running, handle_open, printed, after, reason>>

OpenHandle == /\ phase = "open"
              /\ \/ Exit("failure") /\ UNCHANGED handle_open
                 \/ phase' = "signals" /\ handle_open' = TRUE /\ UNCHANGED status
              /\ UNCHANGED <<count, snaplen, captured, running, printed, after, reason>>

InstallHandlers == /\ phase = "signals" /\ phase' = "loop"
                   /\ UNCHANGED <<count, snaplen, captured, running, handle_open, status,
                                  printed, after, reason>>

\* Mutants of Goes: one packet too many; the flag only looked at with a count.
GoesOver == running /\ (count = 0 \/ captured <= count)
GoesUncounted == count = 0 \/ (running /\ captured < count)

Goes == running /\ (count = 0 \/ captured < count)

Loop == /\ phase = "loop"
        /\ phase' = IF Goes THEN "next" ELSE "close"
        /\ reason' = IF Goes THEN reason ELSE IF running THEN "count" ELSE "signal"
        /\ UNCHANGED <<count, snaplen, captured, running, handle_open, status, printed, after>>

\* capture_next gives packet_handler one packet, and returns 1.
Packet == /\ phase = "next"
          /\ ~running \/ count # 0 \/ captured < MaxPackets
          /\ phase' = "loop"
          /\ captured' = captured + 1 /\ printed' = printed + 1
          /\ after' = IF running THEN after ELSE after + 1
          /\ UNCHANGED <<count, snaplen, running, handle_open, status, reason>>

\* It returns 0, or -1.
NoPacket == /\ phase = "next"
            /\ \/ phase' = "loop" /\ UNCHANGED reason
               \/ phase' = "close" /\ reason' = "error"
            /\ UNCHANGED <<count, snaplen, captured, running, handle_open, status, printed, after>>

CloseHandle == /\ phase = "close"
               /\ handle_open' = FALSE /\ Exit("success")
               /\ UNCHANGED <<count, snaplen, captured, running, printed, after, reason>>

\* SIGINT or SIGTERM.
Signal == /\ phase # "done"
          /\ IF phase \in {"options", "open", "signals"}
             THEN Exit("killed") /\ UNCHANGED running
             ELSE running' = FALSE /\ UNCHANGED <<phase, status>>
          /\ UNCHANGED <<count, snaplen, captured, handle_open, printed, after, reason>>

Step == Options \/ OpenHandle \/ InstallHandlers \/ Loop \/ CloseHandle
Return == Packet \/ NoPacket

Next == Step \/ Return \/ Signal

-----------------------------------------------------------------------------
\* Every variable has its type.
TypeOK == /\ phase \in {"options", "open", "signals", "loop", "next", "close", "done"}
          /\ {count, snaplen} \subseteq Int /\ {captured, printed, after} \subseteq Nat
          /\ running \in BOOLEAN /\ handle_open \in BOOLEAN
          /\ status \in {"none", "success", "failure", "killed"}
          /\ reason \in {"none", "count", "signal", "error"}

\* Whatever ends the loop, the number reported is that of the packets printed,
\* no more of them than asked for with -c (usage: "Stop after capturing N
\* packets") and all of them if it was not a signal or an error; at most one
\* follows a signal; and the handle is closed by the time main returns
\* (main.c:98-114).
CaptureEnds ==
    /\ captured = printed
    /\ count > 0 => captured <= count
    /\ after <= 1
    /\ reason = "count" => count # 0 /\ captured = (IF count > 0 THEN count ELSE 0)
    /\ status = "success" \/ status = "failure" => ~handle_open

\* A signal caught ends the program, though packets keep coming
\* (main.c:20-25, 99), as long as capture_next returns.
SignalEnds == (phase # "done" /\ ~running) ~> (phase = "done")
=============================================================================
