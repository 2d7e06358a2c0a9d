------------------------------- MODULE Output -------------------------------
(***************************************************************************)
(* src/output.c: one global handle and format.  A record is one packet in  *)
(* the format then in force; how it is worded is left out, and so are NULL *)
(* packets, which change nothing.  Every record is flushed as it is        *)
(* written, so the disk has it at once.                                    *)
(***************************************************************************)
EXTENDS Integers, Sequences

CONSTANTS Paths,     \* the files written to
          MaxOpens,  \* bound: successful fopen
          MaxWrites  \* bound: output_write

VARIABLES format,  \* current_format
          out_fp,  \* out_fp: NULL, stdout or the number of a handle
          handles, \* history: every handle fopen gave: [path, open, from, upto]
          disk,    \* what is in the files
          written  \* history: the calls of output_write

Formats == {"text", "json"}
Null == 0
Stdout == -1
NoHandle == {Null, Stdout}

Init == /\ format = "text" /\ out_fp = Null
        /\ handles = <<>> /\ disk = [p \in Paths |-> <<>>] /\ written = 0

\* The handle in use has seen its last record.
Replaced == IF out_fp \in NoHandle THEN handles
            ELSE [handles EXCEPT ![out_fp].upto = written]

\* output_init: the handle before it is not closed, and "w" empties the file.
Open(fmt, path) ==
    /\ Len(handles) < MaxOpens
    /\ format' = fmt
    /\ handles' = Append(Replaced, [path |-> path, open |-> TRUE, from |-> written, upto |-> -1])
    /\ out_fp' = Len(handles) + 1
    /\ disk' = [disk EXCEPT ![path] = <<>>]
    /\ UNCHANGED written

\* output_init without a path, or with one that cannot be opened.
ToStdout(fmt) ==
    /\ format' = fmt /\ out_fp' = Stdout /\ handles' = Replaced
    /\ UNCHANGED <<disk, written>>

\* Mutant of Closed: output_close leaves out_fp at the handle it closed.
ClosedStays == out_fp

Closed == Null

Close ==
    /\ out_fp \notin NoHandle
    /\ handles' = [Replaced EXCEPT ![out_fp].open = FALSE]
    /\ out_fp' = Closed
    /\ UNCHANGED <<format, disk, written>>

\* output_write, with print_text or print_json and fflush.
Write ==
    /\ written < MaxWrites
    /\ written' = written + 1
    /\ disk' = IF out_fp \in NoHandle THEN disk
               ELSE [disk EXCEPT ![handles[out_fp].path] = Append(@, <<written', format>>)]
    /\ UNCHANGED <<format, out_fp, handles>>

SetFormat(fmt) == format' = fmt /\ UNCHANGED <<out_fp, handles, disk, written>>

Next == \/ \E fmt \in Formats : ToStdout(fmt) \/ SetFormat(fmt) \/ \E p \in Paths : Open(fmt, p)
        \/ Close \/ Write

-----------------------------------------------------------------------------
TypeOK == format \in Formats /\ out_fp \in NoHandle \cup DOMAIN handles

\* output.c:11-29, 68-73.  No record goes to a handle that was closed, a file
\* holds every packet written between its latest opening and the end of that
\* handle's use and no other, however often files are opened over each other.
OutputGoes ==
    /\ out_fp \notin NoHandle => handles[out_fp].open /\ handles[out_fp].upto = -1
    /\ \A h \in DOMAIN handles :
         (\A later \in DOMAIN handles : later > h => handles[later].path # handles[h].path) =>
             LET upto == IF handles[h].upto = -1 THEN written ELSE handles[h].upto
             IN [i \in DOMAIN disk[handles[h].path] |-> disk[handles[h].path][i][1]]
                  = [i \in 1 .. upto - handles[h].from |-> handles[h].from + i]
=============================================================================
