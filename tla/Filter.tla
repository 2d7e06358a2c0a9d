------------------------------ MODULE Filter ------------------------------
(***************************************************************************)
(* src/filter.c: filter_parse takes an expression token by token and adds  *)
(* what its primitives say to what the context says already.  The 256      *)
(* bytes an expression is cut to, NULL arguments and filter_print are left *)
(* out.                                                                    *)
(***************************************************************************)
EXTENDS Integers, Sequences, FiniteSets

CONSTANTS Tokens,           \* the tokens that expressions are made of
          Atoi, InetAddr,   \* what atoi and inet_addr make of a token
          Packets,          \* the packets matched: [proto, port, ip]
          MaxPrims          \* bound: primitives in force at once

\* What the constants are: any token may stand for a number or an address.
FilterAssumption == Atoi \in [Tokens -> Int]

VARIABLES ctx,    \* the filter's context: [proto, port, ip, flags]
          words,  \* the words read of a primitive that has begun
          ret,    \* what filter_parse returned last
          asked   \* history: the primitives read since filter_init

Sides == {"src", "dst"}
Protos == {"tcp", "udp", "icmp"}

PassAll == [proto |-> "any", port |-> [s \in Sides |-> 0], ip |-> [s \in Sides |-> 0],
            flags |-> {}]

\* The sides that the words before a number or an address name: none names both.
Of(prim) == IF Len(prim) = 2 THEN {prim[1]} ELSE Sides

\* Mutant of Flagged: the flags of earlier primitives are lost, = for |=.
FlaggedOnly(flags, new) == new

Flagged(flags, new) == flags \cup new

\* What a primitive of words and an argument makes of the context.
Assign(c, prim, tok) ==
    IF prim[Len(prim)] = "port"
    THEN [c EXCEPT !.port = [s \in Sides |-> IF s \in Of(prim) THEN Atoi[tok] % 65536 ELSE @[s]],
                   !.flags = Flagged(@, {prim})]
    ELSE [c EXCEPT !.ip = [s \in Sides |-> IF s \in Of(prim) THEN InetAddr[tok] ELSE @[s]],
                   !.flags = Flagged(@, {<<s, "host">> : s \in Of(prim)})]

Complete == words # <<>> /\ words[Len(words)] \in {"port", "host"}

\* A primitive is in force.
Add(prim, c) == /\ asked' = asked \cup {prim} /\ Cardinality(asked') <= MaxPrims
                /\ ctx' = c /\ words' = <<>> /\ UNCHANGED ret

\* One token: the argument of a primitive, a protocol, a word of a primitive, or an
\* unknown one, which is passed over, and src or dst with it.
Token(tok) ==
    \/ Complete /\ Add(Append(words, tok), Assign(ctx, words, tok))
    \/ words = <<>> /\ tok \in Protos /\ Add(<<tok>>, [ctx EXCEPT !.proto = tok])
    \/ /\ ~Complete /\ ~(words = <<>> /\ tok \in Protos)
       /\ words' = IF tok \in {"port", "host"} \/ (words = <<>> /\ tok \in Sides)
                   THEN Append(words, tok) ELSE <<>>
       /\ UNCHANGED <<ctx, ret, asked>>

\* filter_parse at the end of an expression: what came before an unfinished end stays in
\* the context although -1 is returned.
Return == /\ ret' = IF words = <<>> THEN 0 ELSE -1
          /\ words' = <<>> /\ UNCHANGED <<ctx, asked>>

Init == ctx = PassAll /\ words = <<>> /\ ret = 0 /\ asked = {}

FilterInit == words = <<>> /\ ctx' = PassAll /\ asked' = {} /\ UNCHANGED <<words, ret>>

Match(c, p) ==
    /\ c.proto \in {"any", p.proto}
    /\ \A s \in Sides : <<s, "host">> \in c.flags => c.ip[s] \in {0, p.ip[s]}
    /\ <<"port">> \in c.flags => \E s \in Sides : p.port[s] = c.port[s]
    /\ \A s \in Sides : <<s, "port">> \in c.flags => c.port[s] \in {0, p.port[s]}

Next == FilterInit \/ Return \/ \E tok \in Tokens : Token(tok)

-----------------------------------------------------------------------------
\* The words of a primitive, and the fields of the context that it sets.
Front(prim) == SubSeq(prim, 1, Len(prim) - 1)
Sets(prim) == IF Len(prim) = 1 THEN {<<"proto">>}
              ELSE {<<s, prim[Len(prim) - 1]>> : s \in Of(Front(prim))}

\* What a primitive asks of a packet; a host without a side is asked of both
\* addresses, a port without one of either.
Holds(prim, p) ==
    LET kind == prim[Len(prim) - 1]  arg == prim[Len(prim)]  sides == Of(Front(prim))
    IN CASE Len(prim) = 1 -> p.proto = prim[1]
         [] Len(prim) = 2 /\ kind = "port" -> \E s \in Sides : p.port[s] = Atoi[arg] % 65536
         [] Len(prim) = 3 /\ kind = "port" ->
              \A s \in sides : Atoi[arg] % 65536 \in {0, p.port[s]}
         [] OTHER -> \A s \in sides : InetAddr[arg] \in {0, p.ip[s]}

\* filter.c:48-154.  After any series of parses, also of expressions that are
\* refused half way, a filter keeps just the packets that fit every primitive it
\* was given, as long as no two of them were written to the same field.
FilterMeans ==
    (\A a, b \in asked : a # b => Sets(a) \cap Sets(b) = {}) =>
        \A pkt \in Packets : Match(ctx, pkt) <=> \A prim \in asked : Holds(prim, pkt)

TypeOK == /\ ctx.proto \in Protos \cup {"any"} /\ ret \in {-1, 0} /\ asked \subseteq Seq(Tokens)
          /\ words \in {<<>>} \cup {<<w>> : w \in Sides \cup {"port", "host"}} \cup (Sides \X {"port", "host"})
          /\ \A s \in Sides : 0 <= ctx.port[s] /\ ctx.port[s] < 65536
          /\ ctx.flags \subseteq {<<"port">>} \cup (Sides \X {"port", "host"})
=============================================================================
