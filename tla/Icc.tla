------------------------------- MODULE Icc -------------------------------
(***************************************************************************)
(* The V3F -> V5F injection channel of src/src/icc.c, with the two loops   *)
(* that drive it: the V3F command loop (main_v3f.c) and the V5F relay loop *)
(* (main_v5f.c, usb_merge_drain_icc).                                      *)
(*                                                                         *)
(* A record goes: kmbox_cmd_inject_* -> V3F-local ring -> four IPC MSG     *)
(* registers -> V5F accumulators.  Each load and store of a register the   *)
(* other core can see is a step of its own; whatever touches only the      *)
(* private state of one core is folded into the step beside it.            *)
(*                                                                         *)
(* A behaviour starts where icc_init_v3f has returned and V3F has just     *)
(* released V5F (main_v3f.c:158-159).                                      *)
(***************************************************************************)
EXTENDS Naturals, Sequences

CONSTANTS
    Record,       \* the records the commands produce (8 significant bytes)
    Torn,         \* what the two words of two different records decode to
    Slots,        \* ICC_RING_SLOTS (256 in the code)
    SeqMod,       \* modulus of the seq and ack counters (2^32 in the code)
    MaxAccepted   \* bound: how many records a behaviour accepts

ASSUME SlotsAssumption == Slots \in Nat /\ Slots >= 2
ASSUME SeqModAssumption == SeqMod \in Nat /\ SeqMod >= 2
ASSUME MaxAcceptedAssumption == MaxAccepted \in Nat
ASSUME TornAssumption == Torn \notin Record

VARIABLES
    \* V3F only
    slot, head, tail,        \* g_icc.v3f_to_v5f
    pubSeq,                  \* s_v3f_pub_seq
    v3pc, rec,               \* where the V3F loop is; icc_pump_to_v5f's `rec`
    \* the IPC unit, seen by both cores
    msg0, msg1, msg2, msg3,  \* IPC->MSG[0..3]: payload words, seq, ack
    bell, itEn,              \* CH0 Bit0 status flag and its interrupt enable
    \* V5F only
    seenSeq,                 \* s_v5f_seen_seq
    v5pc, seq, w0, w1,       \* where the V5F loop is; icc_recv_from_v3f's locals
    \* history
    accepted,                \* records icc_send_to_v5f returned true for
    delivered                \* records icc_recv_from_v3f returned

ring == <<slot, head, tail>>
v3vars == <<pubSeq, v3pc, rec>>
payload == <<msg0, msg1>>
doorbell == <<bell, itEn>>
v5vars == <<seenSeq, v5pc, seq, w0, w1>>
vars == <<ring, v3vars, payload, msg2, msg3, doorbell, v5vars, accepted, delivered>>

V3Points == {"poll", "pump", "word0", "word1", "publish", "ring"}
V5Points == {"boot", "enable", "drain", "word0", "word1", "ack", "rearm",
             "work", "wfi", "asleep"}

\* (i + 1) & ICC_RING_MASK
NextSlot(i) == IF i = Slots - 1 THEN 0 ELSE i + 1

\* Mutant: a seq that never wraps.
NextSeqNoWrap(s) == s + 1

\* ++seq on an unsigned counter
NextSeq(s) == IF s = SeqMod - 1 THEN 0 ELSE s + 1

\* The record icc_recv_from_v3f rebuilds from the two payload words.
Join(a, b) == IF a = b THEN a ELSE Torn

Word == Record \cup {Torn}

\* Mutants: a push and a pop that check nothing, a pump that waits for no ack.
RingFullUnchecked == FALSE
RingEmptyUnchecked == FALSE
MailboxUnchecked == TRUE

RingFull == NextSlot(head) = tail
RingEmpty == head = tail
MailboxFree == msg3 = pubSeq

-----------------------------------------------------------------------------
\* icc_init_v3f has run on V3F; V5F has not run yet.
Init ==
    /\ slot = [i \in 0 .. Slots - 1 |-> Torn]
    /\ head = 0 /\ tail = 0
    /\ pubSeq = 0 /\ v3pc = "poll" /\ rec = Torn
    /\ msg0 = Torn /\ msg1 = Torn /\ msg2 = 0 /\ msg3 = 0
    /\ bell = FALSE /\ itEn = FALSE
    /\ seenSeq = 0 /\ v5pc = "boot" /\ seq = 0 /\ w0 = Torn /\ w1 = Torn
    /\ accepted = <<>> /\ delivered = <<>>

-----------------------------------------------------------------------------
\* V3F

\* A command enqueues a record while kmbox_cmd_poll (or the DEV_TEMP feed) runs.
\* A full ring refuses it, and every caller ignores the refusal.
Send(r) ==
    /\ v3pc = "poll"
    /\ Len(accepted) < MaxAccepted
    /\ IF RingFull
       THEN UNCHANGED <<ring, accepted>>
       ELSE /\ slot' = [slot EXCEPT ![head] = r]
            /\ head' = NextSlot(head)
            /\ accepted' = Append(accepted, r)
            /\ UNCHANGED tail
    /\ UNCHANGED <<v3vars, payload, msg2, msg3, doorbell, v5vars, delivered>>

\* The command half of the loop is over; `while (icc_pump_to_v5f())` begins.
StartPump ==
    /\ v3pc = "poll"
    /\ v3pc' = "pump"
    /\ UNCHANGED <<ring, pubSeq, rec, payload, msg2, msg3, doorbell, v5vars,
                   accepted, delivered>>

\* The mailbox is busy or the ring empty: the pump loop ends.
PumpIdle ==
    /\ v3pc = "pump"
    /\ ~MailboxFree \/ RingEmpty
    /\ v3pc' = "poll"
    /\ UNCHANGED <<ring, pubSeq, rec, payload, msg2, msg3, doorbell, v5vars,
                   accepted, delivered>>

\* The mailbox was seen free: pop the oldest record.
PumpPop ==
    /\ v3pc = "pump"
    /\ MailboxFree
    /\ ~RingEmpty
    /\ rec' = slot[tail]
    /\ tail' = NextSlot(tail)
    /\ v3pc' = "word0"
    /\ UNCHANGED <<slot, head, pubSeq, payload, msg2, msg3, doorbell, v5vars,
                   accepted, delivered>>

StoreWord0 ==
    /\ v3pc = "word0"
    /\ msg0' = rec
    /\ v3pc' = "word1"
    /\ UNCHANGED <<ring, pubSeq, rec, msg1, msg2, msg3, doorbell, v5vars,
                   accepted, delivered>>

StoreWord1 ==
    /\ v3pc = "word1"
    /\ msg1' = rec
    /\ v3pc' = "publish"
    /\ UNCHANGED <<ring, pubSeq, rec, msg0, msg2, msg3, doorbell, v5vars,
                   accepted, delivered>>

\* IPC->MSG[2] = ++s_v3f_pub_seq
Publish ==
    /\ v3pc = "publish"
    /\ pubSeq' = NextSeq(pubSeq)
    /\ msg2' = NextSeq(pubSeq)
    /\ v3pc' = "ring"
    /\ UNCHANGED <<ring, rec, payload, msg3, doorbell, v5vars, accepted, delivered>>

\* icc_ring_doorbell_v5f
RingDoorbell ==
    /\ v3pc = "ring"
    /\ bell' = TRUE
    /\ v3pc' = "pump"
    /\ UNCHANGED <<ring, pubSeq, rec, payload, msg2, msg3, itEn, v5vars,
                   accepted, delivered>>

-----------------------------------------------------------------------------
\* V5F

\* icc_init_v5f: whatever was published so far counts as consumed.
SyncSeen ==
    /\ v5pc = "boot"
    /\ seenSeq' = msg2
    /\ v5pc' = "enable"
    /\ UNCHANGED <<ring, v3vars, payload, msg2, msg3, doorbell, seq, w0, w1,
                   accepted, delivered>>

\* IPC_ITConfig(..., ENABLE), at boot and after each drain (icc_ipc_rearm_v5f).
EnableDoorbell ==
    /\ v5pc \in {"enable", "rearm"}
    /\ itEn' = TRUE
    /\ v5pc' = IF v5pc = "enable" THEN "drain" ELSE "work"
    /\ UNCHANGED <<ring, v3vars, payload, msg2, msg3, bell, seenSeq, seq, w0, w1,
                   accepted, delivered>>

\* icc_recv_from_v3f finds nothing new: the drain loop ends.
RecvNothing ==
    /\ v5pc = "drain"
    /\ msg2 = seenSeq
    /\ v5pc' = "rearm"
    /\ UNCHANGED <<ring, v3vars, payload, msg2, msg3, doorbell, seenSeq, seq, w0,
                   w1, accepted, delivered>>

\* icc_recv_from_v3f sees a new seq.
RecvSeq ==
    /\ v5pc = "drain"
    /\ msg2 # seenSeq
    /\ seq' = msg2
    /\ v5pc' = "word0"
    /\ UNCHANGED <<ring, v3vars, payload, msg2, msg3, doorbell, seenSeq, w0, w1,
                   accepted, delivered>>

LoadWord0 ==
    /\ v5pc = "word0"
    /\ w0' = msg0
    /\ v5pc' = "word1"
    /\ UNCHANGED <<ring, v3vars, payload, msg2, msg3, doorbell, seenSeq, seq, w1,
                   accepted, delivered>>

LoadWord1 ==
    /\ v5pc = "word1"
    /\ w1' = msg1
    /\ seenSeq' = seq
    /\ v5pc' = "ack"
    /\ UNCHANGED <<ring, v3vars, payload, msg2, msg3, doorbell, seq, w0,
                   accepted, delivered>>

\* Mutant: the record is taken and never acknowledged.
AckForgotten ==
    /\ v5pc = "ack"
    /\ delivered' = Append(delivered, Join(w0, w1))
    /\ v5pc' = "drain"
    /\ UNCHANGED <<ring, v3vars, payload, msg2, msg3, doorbell, seenSeq, seq, w0, w1,
                   accepted>>

\* The ack frees the mailbox and the record goes to usb_merge_apply_record.
Ack ==
    /\ v5pc = "ack"
    /\ msg3' = seq
    /\ delivered' = Append(delivered, Join(w0, w1))
    /\ v5pc' = "drain"
    /\ UNCHANGED <<ring, v3vars, payload, msg2, doorbell, seenSeq, seq, w0, w1,
                   accepted>>

\* The rest of one relay-loop pass; it ends in wfi unless it did some work.
Work ==
    /\ v5pc = "work"
    /\ v5pc' \in {"drain", "wfi"}
    /\ UNCHANGED <<ring, v3vars, payload, msg2, msg3, doorbell, seenSeq, seq, w0,
                   w1, accepted, delivered>>

\* wfi with an interrupt already pending is left again through DoorbellIsr.
Wfi ==
    /\ v5pc = "wfi"
    /\ v5pc' = "asleep"
    /\ UNCHANGED <<ring, v3vars, payload, msg2, msg3, doorbell, seenSeq, seq, w0,
                   w1, accepted, delivered>>

\* Mutant: no interrupt ends a wfi.
WakeNever(pc) == pc

Wake(pc) == IF pc = "asleep" THEN "drain" ELSE pc

\* IPC_CH0_Handler, between any two instructions of the V5F foreground.
DoorbellIsr ==
    /\ bell
    /\ itEn
    /\ bell' = FALSE
    /\ itEn' = FALSE
    /\ v5pc' = Wake(v5pc)
    /\ UNCHANGED <<ring, v3vars, payload, msg2, msg3, seenSeq, seq, w0, w1,
                   accepted, delivered>>

\* The 1 ms TIM4 interrupt ends a wfi.
Tick ==
    /\ v5pc = "asleep"
    /\ v5pc' = Wake(v5pc)
    /\ UNCHANGED <<ring, v3vars, payload, msg2, msg3, doorbell, seenSeq, seq, w0,
                   w1, accepted, delivered>>

\* AutoEN: the flag may rise again while a published record is not acknowledged
\* (the hardware behaviour IPC_CH0_Handler's comment describes).
Reassert ==
    /\ msg2 # msg3
    /\ ~bell
    /\ bell' = TRUE
    /\ UNCHANGED <<ring, v3vars, payload, msg2, msg3, itEn, v5vars, accepted,
                   delivered>>

-----------------------------------------------------------------------------
V3F == (\E r \in Record : Send(r)) \/ StartPump \/ PumpIdle \/ PumpPop
         \/ StoreWord0 \/ StoreWord1 \/ Publish \/ RingDoorbell

V5F == SyncSeen \/ EnableDoorbell \/ RecvNothing \/ RecvSeq \/ LoadWord0
         \/ LoadWord1 \/ Ack \/ Work \/ Wfi

Next == V3F \/ V5F \/ DoorbellIsr \/ Tick \/ Reassert

Spec == Init /\ [][Next]_vars

\* Both loops run for ever, a pending interrupt is taken and TIM4 keeps ticking.
Fairness == WF_vars(V3F) /\ WF_vars(V5F) /\ WF_vars(DoorbellIsr) /\ WF_vars(Tick)

-----------------------------------------------------------------------------
TypeOK ==
    /\ slot \in [0 .. Slots - 1 -> Word]
    /\ head \in 0 .. Slots - 1 /\ tail \in 0 .. Slots - 1
    /\ {pubSeq, msg2, msg3, seenSeq, seq} \subseteq 0 .. SeqMod - 1
    /\ {rec, msg0, msg1, w0, w1} \subseteq Word
    /\ v3pc \in V3Points /\ v5pc \in V5Points
    /\ bell \in BOOLEAN /\ itEn \in BOOLEAN
    /\ accepted \in Seq(Record) /\ delivered \in Seq(Word)

\* V5F receives the records V3F accepted, whole, in order, each once: what was
\* delivered is the beginning of what was accepted, although payload, seq and ack
\* are single registers the two cores read and write without a lock.
InOrderExactlyOnce ==
    /\ Len(delivered) <= Len(accepted)
    /\ \A i \in 1 .. Len(delivered) : delivered[i] = accepted[i]

\* The record V3F took from the ring and V5F has not acknowledged, if any.
InFlight == IF ~MailboxFree \/ v3pc \in {"word0", "word1", "publish"} THEN 1 ELSE 0

Popped == Len(delivered) + InFlight

\* How far the ring index i is ahead of the tail.
Distance(i) == IF i >= tail THEN i - tail ELSE i + Slots - tail

\* The ring holds exactly the accepted records not yet handed to the mailbox, in
\* order, so icc_send_to_v5f refuses only when Slots - 1 records really wait.
RingHoldsUnpublished ==
    /\ Len(accepted) = Popped + Distance(head)
    /\ \A i \in 0 .. Slots - 1 :
          Distance(i) < Distance(head) => slot[i] = accepted[Popped + Distance(i) + 1]

\* V5F's seen seq already equals the published seq of a record it has not read:
\* it will never read or acknowledge that record, and V3F never publishes again.
ChannelDead ==
    /\ v5pc \notin {"boot", "ack"}
    /\ ~MailboxFree
    /\ seenSeq = msg2

\* Once the boot synchronisation went well no interleaving can wedge the channel.
DeadOnlyFromBoot == [][ChannelDead' => ChannelDead \/ v5pc = "boot"]_vars

\* Every accepted record reaches the merge, however doorbell, wfi and tick
\* interleave, unless the boot synchronisation swallowed the first record.
EveryRecordArrives ==
    \A i \in 1 .. MaxAccepted :
        Len(accepted) >= i ~> (Len(delivered) >= i \/ ChannelDead)

\* The channel is the bounded queue its users think it is.
Queue == INSTANCE IccQueue WITH Capacity <- Slots, sent <- accepted, got <- delivered
RefinesQueue == Queue!Spec

-----------------------------------------------------------------------------
\* icc.c:79-80: "icc_init_v3f cleared MSG[2]=0 before the wake, so this is 0."
BootSyncSeesZero == v5pc = "enable" => seenSeq = 0
=============================================================================
