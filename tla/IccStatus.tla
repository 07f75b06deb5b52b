----------------------------- MODULE IccStatus -----------------------------
(***************************************************************************)
(* The V5F -> V3F status channel (icc.c, icc_status.c): V5F rotates the    *)
(* fields of its display status through one 16-bit register that it clears *)
(* and then sets; V3F reads the register whenever its loop comes round and *)
(* merges the field it finds into its own copy.                            *)
(***************************************************************************)
EXTENDS Naturals

CONSTANTS
    Fields,      \* ICC_ST_SEL__COUNT (12 in the code); field 0 is the state
    Payload,     \* payloads a field can carry, 0 and 1 among them
    NoSignal,    \* DISP_STATE_NOSIGNAL
    MaxChanges   \* bound: how often V5F's status changes

VARIABLES
    st,         \* V5F's display_status_t
    sel, seq,   \* s_sel, s_seq
    lastState,  \* s_last_state, NoSignal before the first publication
    pc,         \* "idle", or "set" between the CLR and the SET store
    word,       \* the word being published
    sts,        \* IPC->STS[31:16]
    acc,        \* V3F's g_disp
    lastSeq,    \* s_last_seq, 4 before the first poll
    advanced,   \* s_seen_advance
    was,        \* history: the payloads each field of st has had
    changes

pump == <<sel, seq, lastState, pc, word>>
v3 == <<acc, lastSeq, advanced>>
vars == <<st, pump, sts, v3, was, changes>>

Field == 0 .. Fields - 1

\* The cleared register decodes as field 0 with payload 0 and seq 0.
Cleared == [seq |-> 0, sel |-> 0, payload |-> 0]

\* Mutants: a rotation that does not wrap, one that stands still.
NextFieldNoWrap(f) == f + 1
NextFieldStuck(f) == f
NextField(f) == (f + 1) % Fields

\* Mutant: the payload is taken after the rotation advanced.
PackLate(f, s) == [seq |-> s, sel |-> f, payload |-> st[NextField(f)]]

\* icc_status_pack
Pack(f, s) == [seq |-> s, sel |-> f, payload |-> st[f]]

\* V5F leaves the state BOOT (0) before its first pump (main_v5f.c:259).
Init ==
    /\ st = [f \in Field |-> IF f = 0 THEN 1 ELSE 0]
    /\ sel = 0 /\ seq = 0 /\ lastState = NoSignal /\ pc = "idle" /\ word = Cleared
    /\ sts = Cleared
    /\ acc = [f \in Field |-> 0] /\ lastSeq = 4 /\ advanced = FALSE
    /\ was = [f \in Field |-> {st[f]}] /\ changes = 0

-----------------------------------------------------------------------------
\* V5F's relay updates its status between two pumps.
Change(f, p) ==
    /\ pc = "idle"
    /\ changes < MaxChanges
    /\ f = 0 => p # 0
    /\ changes' = changes + 1
    /\ st' = [st EXCEPT ![f] = p]
    /\ was' = [was EXCEPT ![f] = @ \cup {p}]
    /\ UNCHANGED <<pump, sts, v3>>

\* icc_status_pump_v5f up to its CLR store: a new state jumps the rotation, which
\* advances all the same.
PumpClear ==
    /\ pc = "idle"
    /\ word' = Pack(IF st[0] # lastState THEN 0 ELSE sel, (seq + 1) % 4)
    /\ lastState' = st[0]
    /\ sel' = NextField(sel)
    /\ seq' = (seq + 1) % 4
    /\ sts' = Cleared
    /\ pc' = "set"
    /\ UNCHANGED <<st, v3, was, changes>>

\* Its SET store.
PumpSet ==
    /\ pc = "set"
    /\ sts' = word
    /\ pc' = "idle"
    /\ UNCHANGED <<st, sel, seq, lastState, word, v3, was, changes>>

\* icc_status_poll_v3f
Poll ==
    /\ acc' = [acc EXCEPT ![sts.sel] = sts.payload]
    /\ advanced' = (advanced \/ sts.seq # lastSeq)
    /\ lastSeq' = sts.seq
    /\ UNCHANGED <<st, pump, sts, was, changes>>

\* Every 250 ms the V3F loop renders, after marking a dead V5F.
Render ==
    /\ acc' = IF ~advanced /\ acc[0] # 0 THEN [acc EXCEPT ![0] = NoSignal] ELSE acc
    /\ advanced' = FALSE
    /\ UNCHANGED <<st, pump, sts, lastSeq, was, changes>>

-----------------------------------------------------------------------------
Next ==
    \/ \E f \in Field, p \in Payload : Change(f, p)
    \/ PumpClear \/ PumpSet
    \/ Poll \/ Render

Spec == Init /\ [][Next]_vars

\* Both loops run for ever, and V3F polls again and again while each field is shown:
\* its loop is not in step with V5F's rotation.
Fairness ==
    /\ WF_vars(PumpClear) /\ WF_vars(PumpSet)
    /\ \A f \in Field : SF_vars(Poll /\ pc = "idle" /\ sts.sel = f)

-----------------------------------------------------------------------------
TypeOK ==
    /\ st \in [Field -> Payload] /\ sel \in Field /\ seq \in 0 .. 3
    /\ pc \in {"idle", "set"}
    /\ acc \in [Field -> Payload \cup {NoSignal}]
    /\ lastSeq \in 0 .. 4 /\ advanced \in BOOLEAN

\* The two-store update may be read half-way, but that only ever harms the state: every
\* other field V3F shows is a value the field really had.
OnlyStateDisturbed == \A f \in Field \ {0} : acc[f] \in was[f]

\* Once the status stops changing (MaxChanges makes it) every field is shown in the end
\* and stays shown, however the rotation, the jumps of the state and V3F's polls
\* interleave; the state is shown again and again.
EventuallyShown ==
    /\ \A f \in Field \ {0} : <>[](acc[f] = st[f])
    /\ []<>(acc[0] = st[0])
=============================================================================
