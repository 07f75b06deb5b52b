------------------------------- MODULE MCIcc -------------------------------
(***************************************************************************)
(* The two channels between the cores, the injection mailbox (Icc) and the *)
(* display status (IccStatus).  They share no register and no variable, so *)
(* a behaviour exercises one of them, chosen at the start: interleaving    *)
(* them would add states and no behaviour of either.                       *)
(***************************************************************************)
EXTENDS Icc

CONSTANTS r1, r2, Fields, Payload, NoSignal, MaxChanges

\* There is a state field, and the payloads a boot leaves and the cleared register shows.
ASSUME StatusAssumption == Fields \in Nat \ {0} /\ {0, 1} \subseteq Payload

VARIABLES
    channel,    \* the channel this behaviour exercises
    st, sel, stSeq, lastState, stPc, word, sts, acc, lastSeq, advanced, was, changes

Status == INSTANCE IccStatus WITH seq <- stSeq, pc <- stPc

stvars == <<st, sel, stSeq, lastState, stPc, word, sts, acc, lastSeq, advanced, was, changes>>

MCRecord == {r1, r2}

MCInit == channel \in {"inject", "status"} /\ Init /\ Status!Init

MCNext ==
    /\ UNCHANGED channel
    /\ \/ channel = "inject" /\ Next /\ UNCHANGED stvars
       \/ channel = "status" /\ Status!Next /\ UNCHANGED vars

MCSpec ==
    /\ MCInit /\ [][MCNext]_<<channel, vars, stvars>>
    /\ channel = "inject" => Fairness
    /\ channel = "status" => Status!Fairness

\* Both channels keep the types of their registers and indexes (icc.c's statics).
TypesOK == TypeOK /\ Status!TypeOK

\* IccStatus: a half-written status register (icc.c:247-248) disturbs only the state.
OnlyStateDisturbed == Status!OnlyStateDisturbed

\* Every record accepted for V5F is delivered (icc.c:84-174), and every status field that
\* stops changing is shown by V3F in the end (icc.c:233-259).
EverythingArrives ==
    EveryRecordArrives /\ (channel = "status" => Status!EventuallyShown)
=============================================================================
