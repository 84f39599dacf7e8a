------------------------------ MODULE PacketChannel ------------------------------
(***************************************************************************)
(* What a stream of packets promises: those it carries arrive in order, once   *)
(* each, and nothing else does.  A new connection may lose those under way,   *)
(* but never repeats one.  Where it begins within a packet all promises end,   *)
(* until there is a connection that does not.                               *)
(***************************************************************************)
EXTENDS Naturals, Sequences

CONSTANT
    TooLong   \* packets that are accepted for sending but not carried

VARIABLES
    sent,     \* how many packets were accepted for sending; they are numbered
    next,     \* the one to arrive next, or the first after it that is carried
    ragged,   \* the connection began within a packet
    got       \* what has arrived

vars == <<sent, next, ragged, got>>

Init == sent = 0 /\ next = 1 /\ ragged = FALSE /\ got = <<>>

Send == sent' = sent + 1 /\ UNCHANGED <<next, ragged, got>>

Deliver ==
    \E p \in next .. sent :
        /\ ~ragged /\ p \notin TooLong /\ next .. (p - 1) \subseteq TooLong
        /\ got' = Append(got, p) /\ next' = p + 1
        /\ UNCHANGED <<sent, ragged>>

\* Whatever was sent may arrive, any number of times, and what was not, which is 0.
Stray ==
    /\ ragged /\ \E p \in 0 .. sent : got' = Append(got, p)
    /\ UNCHANGED <<sent, next, ragged>>

Reconnect ==
    /\ next' \in next .. sent + 1 /\ ragged' \in BOOLEAN
    /\ UNCHANGED <<sent, got>>

Next == Send \/ Deliver \/ Stray \/ Reconnect

Spec == Init /\ [][Next]_vars
=============================================================================
