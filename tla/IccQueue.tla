---------------------------- MODULE IccQueue ----------------------------
(***************************************************************************)
(* What the inter-core injection channel promises to its two users: a      *)
(* bounded first-in first-out queue.  A record the producer was told is    *)
(* accepted is handed over at most once, whole, and in order.  The channel *)
(* promises nothing about a record it refuses.                             *)
(***************************************************************************)
EXTENDS Naturals, Sequences

CONSTANTS
    Record,     \* what a command can ask of the relay core
    Capacity    \* how many accepted records may be outstanding

VARIABLES
    sent,       \* every record accepted, oldest first
    got         \* every record handed to the relay core, oldest first

qvars == <<sent, got>>

Init ==
    /\ sent = <<>>
    /\ got = <<>>

\* The producer is told that r is accepted.
Accept(r) ==
    /\ Len(sent) - Len(got) < Capacity
    /\ sent' = Append(sent, r)
    /\ UNCHANGED got

\* The oldest outstanding record is handed over.
Deliver ==
    /\ Len(got) < Len(sent)
    /\ got' = Append(got, sent[Len(got) + 1])
    /\ UNCHANGED sent

Next == Deliver \/ \E r \in Record : Accept(r)

Spec == Init /\ [][Next]_qvars
=============================================================================
