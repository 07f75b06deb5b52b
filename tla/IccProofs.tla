---------------------------- MODULE IccProofs ----------------------------
(***************************************************************************)
(* Proofs about the channels between the cores. Of Icc, the injection      *)
(* channel, for every number of slots, every width of the sequence counter *)
(* and every set of records; of IccStatus, the status register, for any    *)
(* fields and payloads.                                                    *)
(*                                                                         *)
(* InOrderExactlyOnce is not inductive.  What makes it so is who may write *)
(* which register when (Handshake), what the registers then hold           *)
(* (Custody), and what is still in the ring (RingHoldsUnpublished).        *)
(***************************************************************************)
EXTENDS MCIcc, TLAPS

\* V3F loads the payload registers only while the mailbox is free, V5F reads them
\* only while it is not, and between the two nobody writes seq.
Handshake ==
    /\ msg2 = pubSeq
    /\ v3pc \in {"word0", "word1", "publish"} => MailboxFree
    /\ v5pc \in {"word0", "word1", "ack"} => ~MailboxFree /\ seq = pubSeq
    /\ v5pc = "ack" => seenSeq = seq
    /\ v5pc \notin {"boot", "ack"} /\ MailboxFree => seenSeq = msg3

Oldest == accepted[Len(delivered) + 1]

\* Wherever the record in flight is, it is the oldest one not yet delivered.
Custody ==
    /\ v3pc \in {"word0", "word1", "publish"} => rec = Oldest
    /\ v3pc \in {"word1", "publish"} \/ ~MailboxFree => msg0 = Oldest
    /\ v3pc = "publish" \/ ~MailboxFree => msg1 = Oldest
    /\ v5pc \in {"word1", "ack"} => w0 = Oldest
    /\ v5pc = "ack" => w1 = Oldest

IInv ==
    /\ TypeOK
    /\ Handshake
    /\ RingHoldsUnpublished
    /\ Custody
    /\ InOrderExactlyOnce

-----------------------------------------------------------------------------
\* A ring index that advances stays inside the ring.
LEMMA NextSlotType == \A i \in 0 .. Slots - 1 : NextSlot(i) \in 0 .. Slots - 1
  BY SlotsAssumption DEF NextSlot

\* A sequence counter that advances keeps its width and changes: that is all a reader of
\* the mailbox relies on, so one bit would do.
LEMMA NextSeqType ==
    \A s \in 0 .. SeqMod - 1 : NextSeq(s) \in 0 .. SeqMod - 1 /\ NextSeq(s) # s
  BY SeqModAssumption DEF NextSeq

\* Two payload words make a record or something torn.
LEMMA JoinType == \A a, b \in Word : Join(a, b) \in Word
  BY DEF Join, Word

\* The state icc_init_v3f leaves satisfies the invariant.
LEMMA InitInv == Init => IInv
<1> SUFFICES ASSUME Init PROVE IInv
  OBVIOUS
<1> USE SlotsAssumption, SeqModAssumption DEF Init
<1>1. TypeOK
  <2>1. slot \in [0 .. Slots - 1 -> Word] /\ {rec, msg0, msg1, w0, w1} \subseteq Word
    BY DEF Word
  <2>2. {pubSeq, msg2, msg3, seenSeq, seq} \subseteq 0 .. SeqMod - 1
    OBVIOUS
  <2>3. accepted \in Seq(Record) /\ delivered \in Seq(Word)
    OBVIOUS
  <2>4. head \in 0 .. Slots - 1 /\ tail \in 0 .. Slots - 1
    OBVIOUS
  <2> QED
    BY <2>1, <2>2, <2>3, <2>4 DEF TypeOK, V3Points, V5Points
<1>2. Handshake
  BY DEF Handshake, MailboxFree
<1>3. RingHoldsUnpublished
  BY DEF RingHoldsUnpublished, Popped, InFlight, Distance, MailboxFree
<1>4. Custody
  BY DEF Custody, MailboxFree
<1>5. InOrderExactlyOnce
  BY DEF InOrderExactlyOnce
<1> QED
  BY <1>1, <1>2, <1>3, <1>4, <1>5 DEF IInv

-----------------------------------------------------------------------------
\* Every step of either core keeps the types.
LEMMA TypeStep == TypeOK /\ [Next]_vars => TypeOK'
<1> SUFFICES ASSUME TypeOK, [Next]_vars PROVE TypeOK'
  OBVIOUS
<1> USE DEF TypeOK, ring, v3vars, payload, doorbell, v5vars, V3Points, V5Points
<1>1. ASSUME NEW r \in Record, Send(r) PROVE TypeOK'
  <2>1. CASE RingFull
    BY <1>1, <2>1 DEF Send
  <2>2. CASE ~RingFull
    <3>1. slot' \in [0 .. Slots - 1 -> Word]
      BY <1>1, <2>2 DEF Send, Word
    <3>2. accepted' \in Seq(Record) /\ head' \in 0 .. Slots - 1
      <4>1. accepted' = Append(accepted, r) /\ head' = NextSlot(head)
        BY <1>1, <2>2 DEF Send
      <4> QED
        BY <4>1, <1>1, NextSlotType
    <3> QED
      BY <1>1, <2>2, <3>1, <3>2 DEF Send
  <2> QED
    BY <2>1, <2>2
<1>2. CASE StartPump
  BY <1>2 DEF StartPump
<1>3. CASE PumpIdle
  BY <1>3 DEF PumpIdle
<1>4. CASE PumpPop
  BY <1>4, NextSlotType DEF PumpPop
<1>5. CASE StoreWord0
  BY <1>5 DEF StoreWord0
<1>6. CASE StoreWord1
  BY <1>6 DEF StoreWord1
<1>7. CASE Publish
  BY <1>7, NextSeqType DEF Publish
<1>8. CASE RingDoorbell
  BY <1>8 DEF RingDoorbell
<1>9. CASE SyncSeen
  BY <1>9 DEF SyncSeen
<1>10. CASE EnableDoorbell
  BY <1>10 DEF EnableDoorbell
<1>11. CASE RecvNothing
  BY <1>11 DEF RecvNothing
<1>12. CASE RecvSeq
  BY <1>12 DEF RecvSeq
<1>13. CASE LoadWord0
  BY <1>13 DEF LoadWord0
<1>14. CASE LoadWord1
  BY <1>14 DEF LoadWord1
<1>15. CASE Ack
  BY <1>15, JoinType DEF Ack
<1>16. CASE Work
  BY <1>16 DEF Work
<1>17. CASE Wfi
  BY <1>17 DEF Wfi
<1>18. CASE DoorbellIsr
  BY <1>18 DEF DoorbellIsr, Wake
<1>19. CASE Tick
  BY <1>19 DEF Tick, Wake
<1>20. CASE Reassert
  BY <1>20 DEF Reassert
<1>21. CASE UNCHANGED vars
  BY <1>21 DEF vars
<1> QED
  BY <1>1, <1>2, <1>3, <1>4, <1>5, <1>6, <1>7, <1>8, <1>9, <1>10, <1>11, <1>12,
     <1>13, <1>14, <1>15, <1>16, <1>17, <1>18, <1>19, <1>20, <1>21
  DEF Next, V3F, V5F

\* Which core may touch the mailbox is decided by seq and ack alone.
LEMMA HandshakeStep == TypeOK /\ Handshake /\ [Next]_vars => Handshake'
<1> SUFFICES ASSUME TypeOK, Handshake, [Next]_vars PROVE Handshake'
  OBVIOUS
<1> USE DEF TypeOK, Handshake, MailboxFree, ring, v3vars, payload, doorbell, v5vars
<1>1. ASSUME NEW r \in Record, Send(r) PROVE Handshake'
  BY <1>1 DEF Send
<1>2. CASE StartPump
  BY <1>2 DEF StartPump
<1>3. CASE PumpIdle
  BY <1>3 DEF PumpIdle
<1>4. CASE PumpPop
  BY <1>4 DEF PumpPop
<1>5. CASE StoreWord0
  BY <1>5 DEF StoreWord0
<1>6. CASE StoreWord1
  BY <1>6 DEF StoreWord1
<1>7. CASE Publish
  BY <1>7, NextSeqType DEF Publish
<1>8. CASE RingDoorbell
  BY <1>8 DEF RingDoorbell
<1>9. CASE SyncSeen
  BY <1>9 DEF SyncSeen
<1>10. CASE EnableDoorbell
  BY <1>10 DEF EnableDoorbell
<1>11. CASE RecvNothing
  BY <1>11 DEF RecvNothing
<1>12. CASE RecvSeq
  BY <1>12 DEF RecvSeq
<1>13. CASE LoadWord0
  BY <1>13 DEF LoadWord0
<1>14. CASE LoadWord1
  BY <1>14 DEF LoadWord1
<1>15. CASE Ack
  BY <1>15 DEF Ack
<1>16. CASE Work
  BY <1>16 DEF Work
<1>17. CASE Wfi
  BY <1>17 DEF Wfi
<1>18. CASE DoorbellIsr
  BY <1>18 DEF DoorbellIsr, Wake
<1>19. CASE Tick
  BY <1>19 DEF Tick, Wake
<1>20. CASE Reassert
  BY <1>20 DEF Reassert
<1>21. CASE UNCHANGED vars
  BY <1>21 DEF vars
<1> QED
  BY <1>1, <1>2, <1>3, <1>4, <1>5, <1>6, <1>7, <1>8, <1>9, <1>10, <1>11, <1>12,
     <1>13, <1>14, <1>15, <1>16, <1>17, <1>18, <1>19, <1>20, <1>21
  DEF Next, V3F, V5F

-----------------------------------------------------------------------------
\* The ring hands out what was put in: pushing appends at the head, popping moves
\* the oldest record into V3F's hands, and an acknowledgement turns the record in
\* flight into a delivered one.
LEMMA RingStep ==
    TypeOK /\ Handshake /\ RingHoldsUnpublished /\ [Next]_vars => RingHoldsUnpublished'
<1> SUFFICES ASSUME TypeOK, Handshake, RingHoldsUnpublished, [Next]_vars
             PROVE RingHoldsUnpublished'
  OBVIOUS
<1> USE SlotsAssumption DEF RingHoldsUnpublished, Popped, InFlight
<1>a. Len(accepted) \in Nat /\ Len(delivered) \in Nat
      /\ head \in 0 .. Slots - 1 /\ tail \in 0 .. Slots - 1
  BY DEF TypeOK
<1>1. ASSUME NEW r \in Record, Send(r) PROVE RingHoldsUnpublished'
  <2>1. CASE RingFull
    BY <1>1, <2>1 DEF Send, Distance, MailboxFree, ring, v3vars, payload, v5vars
  <2>2. CASE ~RingFull
    <3>1. /\ slot' = [slot EXCEPT ![head] = r] /\ head' = NextSlot(head)
          /\ accepted' = Append(accepted, r) /\ Popped' = Popped /\ tail' = tail
      BY <1>1, <2>2 DEF Send, MailboxFree, v3vars, ring
    <3>2. /\ Distance(head)' = Distance(head) + 1
          /\ \A i \in 0 .. Slots - 1 : Distance(i)' = Distance(i)
          /\ \A i \in 0 .. Slots - 1 : Distance(i) = Distance(head) => i = head
      <4>1. Distance(head)' = Distance(head) + 1
        BY <1>a, <2>2, <3>1 DEF Distance, NextSlot, RingFull
      <4>2. \A i \in 0 .. Slots - 1 : Distance(i)' = Distance(i)
        BY <3>1 DEF Distance
      <4>3. \A i \in 0 .. Slots - 1 : Distance(i) = Distance(head) => i = head
        BY <1>a DEF Distance
      <4> QED BY <4>1, <4>2, <4>3
    <3>3. /\ Len(accepted') = Len(accepted) + 1
          /\ \A k \in 1 .. Len(accepted) : accepted'[k] = accepted[k]
          /\ accepted'[Len(accepted) + 1] = r
      BY <3>1 DEF TypeOK
    <3>4. \A i \in 0 .. Slots - 1 : Distance(i) \in Nat
      BY <1>a DEF Distance
    <3>5. Popped \in Nat
      BY <1>a
    <3> HIDE DEF Popped, InFlight
    <3>6. ASSUME NEW i \in 0 .. Slots - 1, Distance(i)' < Distance(head)'
          PROVE slot'[i] = accepted'[Popped' + Distance(i)' + 1]
      <4>1. CASE i = head
        <5>1. slot'[i] = r /\ Distance(i)' = Distance(head) /\ Popped' = Popped
          BY <3>1, <3>2, <4>1 DEF TypeOK
        <5>2. Popped' + Distance(i)' + 1 = Len(accepted) + 1
          BY <5>1, <3>4, <3>5, <1>a
        <5> QED
          BY <5>1, <5>2, <3>3
      <4>2. CASE i # head
        <5>1. Distance(i) < Distance(head)
          BY <3>2, <3>4, <3>6, <4>2, <1>a
        <5>2. Popped + Distance(i) + 1 \in 1 .. Len(accepted)
          BY <5>1, <3>4, <3>5, <1>a
        <5>3. slot'[i] = slot[i]
          BY <3>1, <4>2 DEF TypeOK
        <5> QED
          BY <5>1, <5>2, <5>3, <3>1, <3>2, <3>3
      <4> QED
        BY <4>1, <4>2
    <3>7. Len(accepted') = Popped' + Distance(head)'
      BY <3>1, <3>2, <3>3, <3>4, <3>5, <1>a
    <3> QED
      BY <3>6, <3>7
  <2> QED
    BY <2>1, <2>2
<1>2. CASE StartPump
  BY <1>2 DEF StartPump, Distance, MailboxFree, ring
<1>3. CASE PumpIdle
  BY <1>3 DEF PumpIdle, Distance, MailboxFree, ring
<1>4. CASE PumpPop
  <2>1. /\ head # tail /\ tail' = NextSlot(tail) /\ Popped' = Popped + 1
        /\ UNCHANGED <<slot, head, accepted>>
    BY <1>4, <1>a DEF PumpPop, RingEmpty, MailboxFree
  <2>2. /\ Distance(head)' = Distance(head) - 1
        /\ Distance(head) \in Nat /\ Popped \in Nat
        /\ \A i \in 0 .. Slots - 1 : Distance(i) \in Nat
        /\ \A i \in 0 .. Slots - 1 :
              IF i = tail THEN Distance(i)' = Slots - 1
                          ELSE Distance(i)' = Distance(i) - 1
    <3>1. Popped \in Nat
      BY <1>a DEF Popped, InFlight
    <3>2. Distance(head)' = Distance(head) - 1
      BY <1>a, <2>1 DEF Distance, NextSlot
    <3>3. \A i \in 0 .. Slots - 1 : Distance(i) \in Nat
      BY <1>a DEF Distance
    <3>4. \A i \in 0 .. Slots - 1 :
              IF i = tail THEN Distance(i)' = Slots - 1
                          ELSE Distance(i)' = Distance(i) - 1
      BY <1>a, <2>1 DEF Distance, NextSlot
    <3> QED BY <1>a, <3>1, <3>2, <3>3, <3>4
  <2> HIDE DEF Popped, InFlight
  <2>3. Distance(head) < Slots
    BY <1>a DEF Distance
  <2>4. Len(accepted') = Popped' + Distance(head)'
    <3>1. Len(accepted) = Popped + Distance(head)
      OBVIOUS
    <3> HIDE DEF RingHoldsUnpublished, Distance
    <3> QED BY <1>a, <2>1, <2>2, <3>1
  <2>5. ASSUME NEW i \in 0 .. Slots - 1, Distance(i)' < Distance(head)'
        PROVE slot'[i] = accepted'[Popped' + Distance(i)' + 1]
    <3>1. /\ Distance(i)' = Distance(i) - 1
          /\ Distance(i) < Distance(head)
      BY <1>a, <2>2, <2>3, <2>5
    <3>2. Popped' + Distance(i)' + 1 = Popped + Distance(i) + 1
      <4>1. Popped' = Popped + 1
        BY <2>1
      <4>2. Distance(i)' = Distance(i) - 1
        BY <3>1
      <4>3. Popped \in Nat /\ Distance(i) \in Nat
        BY <2>2
      <4> QED
        BY <4>1, <4>2, <4>3
    <3> QED
      BY <2>1, <3>1, <3>2
  <2> QED
    BY <2>4, <2>5
<1>5. CASE StoreWord0
  BY <1>5 DEF StoreWord0, Distance, MailboxFree, ring
<1>6. CASE StoreWord1
  BY <1>6 DEF StoreWord1, Distance, MailboxFree, ring
<1>7. CASE Publish
  BY <1>7, NextSeqType DEF Publish, Distance, MailboxFree, ring, Handshake, TypeOK
<1>8. CASE RingDoorbell
  BY <1>8 DEF RingDoorbell, Distance, MailboxFree, ring
<1>9. CASE SyncSeen
  BY <1>9 DEF SyncSeen, Distance, MailboxFree, ring, v3vars
<1>10. CASE EnableDoorbell
  BY <1>10 DEF EnableDoorbell, Distance, MailboxFree, ring, v3vars
<1>11. CASE RecvNothing
  BY <1>11 DEF RecvNothing, Distance, MailboxFree, ring, v3vars
<1>12. CASE RecvSeq
  BY <1>12 DEF RecvSeq, Distance, MailboxFree, ring, v3vars
<1>13. CASE LoadWord0
  BY <1>13 DEF LoadWord0, Distance, MailboxFree, ring, v3vars
<1>14. CASE LoadWord1
  BY <1>14 DEF LoadWord1, Distance, MailboxFree, ring, v3vars
<1>15. CASE Ack
  <2>1. ~MailboxFree /\ MailboxFree' /\ v3pc \notin {"word0", "word1", "publish"}
    BY <1>15 DEF Ack, Handshake, MailboxFree, v3vars
  <2>2. Len(delivered') = Len(delivered) + 1
    BY <1>15, JoinType DEF Ack, TypeOK
  <2>3. Popped' = Popped
    BY <1>15, <1>a, <2>1, <2>2 DEF Ack, v3vars
  <2> QED
    BY <1>15, <2>3 DEF Ack, Distance, ring
<1>16. CASE Work
  BY <1>16 DEF Work, Distance, MailboxFree, ring, v3vars
<1>17. CASE Wfi
  BY <1>17 DEF Wfi, Distance, MailboxFree, ring, v3vars
<1>18. CASE DoorbellIsr
  BY <1>18 DEF DoorbellIsr, Distance, MailboxFree, ring, v3vars
<1>19. CASE Tick
  BY <1>19 DEF Tick, Distance, MailboxFree, ring, v3vars
<1>20. CASE Reassert
  BY <1>20 DEF Reassert, Distance, MailboxFree, ring, v3vars
<1>21. CASE UNCHANGED vars
  BY <1>21 DEF vars, Distance, MailboxFree, ring, v3vars
<1> QED
  BY <1>1, <1>2, <1>3, <1>4, <1>5, <1>6, <1>7, <1>8, <1>9, <1>10, <1>11, <1>12,
     <1>13, <1>14, <1>15, <1>16, <1>17, <1>18, <1>19, <1>20, <1>21
  DEF Next, V3F, V5F

-----------------------------------------------------------------------------
\* A record in flight was accepted and is not yet delivered.
LEMMA InFlightIsAccepted ==
    TypeOK /\ RingHoldsUnpublished
        => Len(delivered) + InFlight <= Len(accepted) /\ InFlight \in {0, 1}
<1> SUFFICES ASSUME TypeOK, RingHoldsUnpublished
             PROVE  Len(delivered) + InFlight <= Len(accepted) /\ InFlight \in {0, 1}
  OBVIOUS
<1>1. InFlight \in {0, 1}
  BY DEF InFlight
<1>2. Distance(head) \in Nat /\ Len(accepted) \in Nat /\ Len(delivered) \in Nat
  BY SlotsAssumption DEF TypeOK, Distance
<1> QED
  BY <1>1, <1>2 DEF RingHoldsUnpublished, Popped

\* Accepting one more record changes none of the records accepted before.
LEMMA OldestStable ==
    ASSUME TypeOK, NEW r \in Record, accepted' = Append(accepted, r),
           delivered' = delivered, Len(delivered) < Len(accepted)
    PROVE  Oldest' = Oldest
BY DEF TypeOK, Oldest

\* The record in flight travels ring, rec, payload words, w0 and w1 without changing:
\* nobody overwrites a register that still holds it.
LEMMA CustodyStep ==
    TypeOK /\ Handshake /\ RingHoldsUnpublished /\ Custody /\ [Next]_vars => Custody'
<1> SUFFICES ASSUME TypeOK, Handshake, RingHoldsUnpublished, Custody, [Next]_vars
             PROVE Custody'
  OBVIOUS
<1> USE DEF Custody, Handshake, MailboxFree, ring, v3vars, payload, doorbell, v5vars
<1>a. InFlight = 1 => Len(delivered) < Len(accepted)
  BY InFlightIsAccepted DEF TypeOK
<1>1. ASSUME NEW r \in Record, Send(r) PROVE Custody'
  <2>1. CASE RingFull
    BY <1>1, <2>1 DEF Send, Oldest
  <2>2. CASE ~RingFull
    <3>1. CASE MailboxFree
      BY <1>1, <2>2, <3>1 DEF Send
    <3>2. CASE ~MailboxFree
      <4>1. Oldest' = Oldest
        BY <1>1, <1>a, <2>2, <3>2, OldestStable DEF Send, InFlight
      <4> QED
        BY <1>1, <4>1 DEF Send
    <3> QED
      BY <3>1, <3>2
  <2> QED
    BY <2>1, <2>2
<1>2. CASE StartPump
  BY <1>2 DEF StartPump, Oldest
<1>3. CASE PumpIdle
  BY <1>3 DEF PumpIdle, Oldest
<1>4. CASE PumpPop
  <2>1. slot[tail] = accepted[Len(delivered) + 1]
    <3>1. InFlight = 0 /\ head # tail
      BY <1>4 DEF PumpPop, InFlight, RingEmpty
    <3>2. Distance(tail) = 0 /\ Distance(head) > 0
      BY <3>1, SlotsAssumption DEF Distance, TypeOK
    <3> QED
      BY <3>1, <3>2 DEF RingHoldsUnpublished, Popped, TypeOK
  <2> QED
    BY <1>4, <2>1 DEF PumpPop, Oldest
<1>5. CASE StoreWord0
  BY <1>5 DEF StoreWord0, Oldest
<1>6. CASE StoreWord1
  BY <1>6 DEF StoreWord1, Oldest
<1>7. CASE Publish
  BY <1>7 DEF Publish, Oldest
<1>8. CASE RingDoorbell
  BY <1>8 DEF RingDoorbell, Oldest
<1>9. CASE SyncSeen
  BY <1>9 DEF SyncSeen, Oldest
<1>10. CASE EnableDoorbell
  BY <1>10 DEF EnableDoorbell, Oldest
<1>11. CASE RecvNothing
  BY <1>11 DEF RecvNothing, Oldest
<1>12. CASE RecvSeq
  BY <1>12 DEF RecvSeq, Oldest
<1>13. CASE LoadWord0
  BY <1>13 DEF LoadWord0, Oldest
<1>14. CASE LoadWord1
  BY <1>14 DEF LoadWord1, Oldest
<1>15. CASE Ack
  BY <1>15 DEF Ack, Oldest
<1>16. CASE Work
  BY <1>16 DEF Work, Oldest
<1>17. CASE Wfi
  BY <1>17 DEF Wfi, Oldest
<1>18. CASE DoorbellIsr
  BY <1>18 DEF DoorbellIsr, Wake, Oldest
<1>19. CASE Tick
  BY <1>19 DEF Tick, Wake, Oldest
<1>20. CASE Reassert
  BY <1>20 DEF Reassert, Oldest
<1>21. CASE UNCHANGED vars
  BY <1>21 DEF vars, Oldest
<1> QED
  BY <1>1, <1>2, <1>3, <1>4, <1>5, <1>6, <1>7, <1>8, <1>9, <1>10, <1>11, <1>12,
     <1>13, <1>14, <1>15, <1>16, <1>17, <1>18, <1>19, <1>20, <1>21
  DEF Next, V3F, V5F

\* An acknowledgement delivers the oldest record not yet delivered, whole.
LEMMA OrderStep ==
    TypeOK /\ Handshake /\ RingHoldsUnpublished /\ Custody /\ InOrderExactlyOnce
        /\ [Next]_vars => InOrderExactlyOnce'
<1> SUFFICES ASSUME TypeOK, Handshake, RingHoldsUnpublished, Custody,
                    InOrderExactlyOnce, [Next]_vars
             PROVE InOrderExactlyOnce'
  OBVIOUS
<1> USE DEF InOrderExactlyOnce
<1>1. ASSUME NEW r \in Record, Send(r) PROVE InOrderExactlyOnce'
  <2>1. accepted \in Seq(Record) /\ delivered \in Seq(Word) /\ delivered' = delivered
    BY <1>1 DEF Send, TypeOK
  <2>2. accepted' = accepted \/ accepted' = Append(accepted, r)
    BY <1>1 DEF Send
  <2>3. Len(accepted) <= Len(accepted')
    BY <2>1, <2>2
  <2>4. \A k \in 1 .. Len(accepted) : accepted'[k] = accepted[k]
    BY <2>1, <2>2
  <2> QED
    BY <2>1, <2>3, <2>4
<1>2. CASE StartPump
  BY <1>2 DEF StartPump
<1>3. CASE PumpIdle
  BY <1>3 DEF PumpIdle
<1>4. CASE PumpPop
  BY <1>4 DEF PumpPop
<1>5. CASE StoreWord0
  BY <1>5 DEF StoreWord0
<1>6. CASE StoreWord1
  BY <1>6 DEF StoreWord1
<1>7. CASE Publish
  BY <1>7 DEF Publish
<1>8. CASE RingDoorbell
  BY <1>8 DEF RingDoorbell
<1>9. CASE SyncSeen
  BY <1>9 DEF SyncSeen
<1>10. CASE EnableDoorbell
  BY <1>10 DEF EnableDoorbell
<1>11. CASE RecvNothing
  BY <1>11 DEF RecvNothing
<1>12. CASE RecvSeq
  BY <1>12 DEF RecvSeq
<1>13. CASE LoadWord0
  BY <1>13 DEF LoadWord0
<1>14. CASE LoadWord1
  BY <1>14 DEF LoadWord1
<1>15. CASE Ack
  <2>1. w0 = Oldest /\ w1 = Oldest
    BY <1>15 DEF Ack, Custody
  <2>2. Len(delivered) < Len(accepted)
    BY <1>15, InFlightIsAccepted DEF Ack, Handshake, InFlight, TypeOK
  <2>3. delivered' = Append(delivered, Oldest) /\ accepted' = accepted
    BY <1>15, <2>1 DEF Ack, Join
  <2>4. Oldest \in Word
    BY <2>2 DEF Oldest, Word, TypeOK
  <2> QED
    BY <2>2, <2>3, <2>4 DEF Oldest, TypeOK
<1>16. CASE Work
  BY <1>16 DEF Work
<1>17. CASE Wfi
  BY <1>17 DEF Wfi
<1>18. CASE DoorbellIsr
  BY <1>18 DEF DoorbellIsr, Wake
<1>19. CASE Tick
  BY <1>19 DEF Tick, Wake
<1>20. CASE Reassert
  BY <1>20 DEF Reassert
<1>21. CASE UNCHANGED vars
  BY <1>21 DEF vars
<1> QED
  BY <1>1, <1>2, <1>3, <1>4, <1>5, <1>6, <1>7, <1>8, <1>9, <1>10, <1>11, <1>12,
     <1>13, <1>14, <1>15, <1>16, <1>17, <1>18, <1>19, <1>20, <1>21
  DEF Next, V3F, V5F

-----------------------------------------------------------------------------
\* The strengthened invariant holds in every reachable state.
THEOREM Inductive == Spec => []IInv
<1>1. IInv /\ [Next]_vars => IInv'
  BY TypeStep, HandshakeStep, RingStep, CustodyStep, OrderStep DEF IInv
<1> QED
  BY InitInv, <1>1, PTL DEF Spec

\* Every variable of the channel keeps its type: ring indexes stay inside the
\* ring and sequence numbers inside their width.
THEOREM TypeCorrect == Spec => []TypeOK
<1>1. IInv => TypeOK
  BY DEF IInv
<1> QED
  BY Inductive, <1>1, PTL

\* V5F gets what V3F accepted, whole, in order and each record once, for every
\* interleaving of the two cores.
THEOREM DeliveryInOrder == Spec => []InOrderExactlyOnce
<1>1. IInv => InOrderExactlyOnce
  BY DEF IInv
<1> QED
  BY Inductive, <1>1, PTL

\* No accepted record leaves the ring except towards the mailbox, and the ring
\* refuses a record only when Slots - 1 others wait in it.
THEOREM RingFaithful == Spec => []RingHoldsUnpublished
<1>1. IInv => RingHoldsUnpublished
  BY DEF IInv
<1> QED
  BY Inductive, <1>1, PTL

-----------------------------------------------------------------------------
\* An interleaving never wedges the mailbox: only the boot synchronisation can.
THEOREM NeverWedged == Spec => DeadOnlyFromBoot
<1>1. TypeOK /\ Handshake /\ [Next]_vars
        => [ChannelDead' => ChannelDead \/ v5pc = "boot"]_vars
  <2> SUFFICES ASSUME TypeOK, Handshake, [Next]_vars, ChannelDead',
                      ~ChannelDead, v5pc # "boot"
               PROVE  FALSE
    OBVIOUS
  <2> USE DEF TypeOK, Handshake, ChannelDead, MailboxFree, v3vars, v5vars
  <2>1. CASE Publish
    BY <2>1, NextSeqType DEF Publish
  <2>2. CASE Ack
    BY <2>2 DEF Ack
  <2>3. CASE LoadWord1
    BY <2>3 DEF LoadWord1
  <2>4. CASE SyncSeen
    BY <2>4 DEF SyncSeen
  <2>5. CASE V3F /\ ~Publish
    BY <2>5 DEF V3F, Send, StartPump, PumpIdle, PumpPop, StoreWord0, StoreWord1,
                RingDoorbell
  <2>6. CASE EnableDoorbell \/ RecvNothing \/ RecvSeq \/ LoadWord0 \/ Work \/ Wfi
    BY <2>6 DEF EnableDoorbell, RecvNothing, RecvSeq, LoadWord0, Work, Wfi
  <2>7. CASE DoorbellIsr \/ Tick \/ Reassert
    BY <2>7 DEF DoorbellIsr, Tick, Reassert, Wake
  <2>8. CASE UNCHANGED vars
    BY <2>8 DEF vars
  <2> QED
    BY <2>1, <2>2, <2>3, <2>4, <2>5, <2>6, <2>7, <2>8 DEF Next, V5F
<1>2. IInv => TypeOK /\ Handshake
  BY DEF IInv
<1> QED
  BY Inductive, <1>1, <1>2, PTL DEF Spec, DeadOnlyFromBoot

-----------------------------------------------------------------------------
\* The ring, the registers and the two program counters together are a bounded
\* queue: ring slots kept open plus the record in flight make Slots places.
THEOREM Implements == Spec => RefinesQueue
<1> USE DEF RefinesQueue, Queue!Spec
<1>1. Init => Queue!Init
  BY DEF Init, Queue!Init
<1>2. IInv /\ [Next]_vars => [Queue!Next]_(Queue!qvars)
  <2> SUFFICES ASSUME IInv, [Next]_vars PROVE [Queue!Next]_(Queue!qvars)
    OBVIOUS
  <2> USE DEF Queue!Next, Queue!qvars
  <2>1. ASSUME NEW r \in Record, Send(r) PROVE [Queue!Next]_(Queue!qvars)
    <3>1. CASE RingFull
      BY <2>1, <3>1 DEF Send
    <3>2. CASE ~RingFull
      <4>1. Distance(head) < Slots - 1
        BY <3>2, SlotsAssumption DEF IInv, TypeOK, RingFull, NextSlot, Distance
      <4>2. Distance(head) \in Nat /\ Len(accepted) \in Nat /\ Len(delivered) \in Nat
        BY SlotsAssumption DEF IInv, TypeOK, Distance
      <4>3. Len(accepted) - Len(delivered) < Slots
        <5>1. InFlight \in {0, 1}
          BY DEF InFlight
        <5>2. Len(accepted) = Len(delivered) + InFlight + Distance(head)
          BY DEF IInv, RingHoldsUnpublished, Popped
        <5> QED
          BY <4>1, <4>2, <5>1, <5>2, SlotsAssumption
      <4>4. Queue!Accept(r)
        BY <2>1, <3>2, <4>3 DEF Send, Queue!Accept
      <4> QED
        BY <2>1, <4>4
    <3> QED
      BY <3>1, <3>2
  <2>2. CASE Ack
    <3>1. delivered' = Append(delivered, Oldest)
      BY <2>2 DEF Ack, IInv, Custody, Join
    <3>2. Len(delivered) < Len(accepted)
      BY <2>2, InFlightIsAccepted DEF Ack, IInv, Handshake, InFlight, TypeOK
    <3>3. Queue!Deliver
      BY <2>2, <3>1, <3>2 DEF Ack, Oldest, Queue!Deliver
    <3> QED
      BY <3>3
  <2>3. CASE StartPump \/ PumpIdle \/ PumpPop \/ StoreWord0 \/ StoreWord1
             \/ Publish \/ RingDoorbell
    BY <2>3 DEF StartPump, PumpIdle, PumpPop, StoreWord0, StoreWord1, Publish,
                RingDoorbell
  <2>4. CASE SyncSeen \/ EnableDoorbell \/ RecvNothing \/ RecvSeq \/ LoadWord0
             \/ LoadWord1 \/ Work \/ Wfi
    BY <2>4 DEF SyncSeen, EnableDoorbell, RecvNothing, RecvSeq, LoadWord0,
                LoadWord1, Work, Wfi
  <2>5. CASE DoorbellIsr \/ Tick \/ Reassert
    BY <2>5 DEF DoorbellIsr, Tick, Reassert
  <2>6. CASE UNCHANGED vars
    BY <2>6 DEF vars
  <2> QED
    BY <2>1, <2>2, <2>3, <2>4, <2>5, <2>6 DEF Next, V3F, V5F
<1> QED
  BY Inductive, <1>1, <1>2, PTL DEF Spec
-----------------------------------------------------------------------------
\* The status channel: the register, and the word on its way into it, hold a value the
\* field really had, or are cleared, and the cleared register reads as the state.
\* A function of the fields, whatever its values are.
OfFields(g) == g = [f \in Status!Field |-> g[f]]

\* A word that is not about the state carries a payload its field has had.
Honest(w) == w.sel \in Status!Field \ {0} => w.payload \in was[w.sel]

StatusInv ==
    /\ OfFields(st) /\ OfFields(was) /\ OfFields(acc)
    /\ \A f \in Status!Field : st[f] \in was[f]
    /\ Honest(word) /\ Honest(sts)
    /\ Status!OnlyStateDisturbed

\* Before V5F's first pump the register is clear, which decodes as the state.
LEMMA StatusInitInv == Status!Init => StatusInv
BY DEF Status!Init, StatusInv, OfFields, Honest, Status!OnlyStateDisturbed, Status!Cleared

\* A field's past only grows, so a word stays honest when V5F's status changes.
LEMMA ChangeKeeps ==
    ASSUME StatusInv, NEW f \in Status!Field, NEW p, Status!Change(f, p)
    PROVE  StatusInv'
<1>1. /\ OfFields(st) /\ OfFields(was)
      /\ st' = [st EXCEPT ![f] = p]
      /\ was' = [was EXCEPT ![f] = @ \cup {p}]
      /\ UNCHANGED <<word, sts, acc>>
  BY DEF StatusInv, Status!Change, Status!pump, Status!v3
<1>2. OfFields(st') /\ OfFields(was') /\ OfFields(acc')
  BY <1>1 DEF StatusInv, OfFields
<1>3. \A g \in Status!Field : was[g] \subseteq was'[g]
  BY <1>1 DEF OfFields
<1>4. \A g \in Status!Field : st'[g] \in was'[g]
  BY <1>1 DEF StatusInv, OfFields
<1>5. Honest(word)' /\ Honest(sts)' /\ Status!OnlyStateDisturbed'
  BY <1>1, <1>3 DEF StatusInv, Honest, Status!OnlyStateDisturbed
<1> QED BY <1>2, <1>4, <1>5 DEF StatusInv

\* V5F's pump publishes what a field holds at that moment (icc.c:233-259).
LEMMA PumpKeeps == ASSUME StatusInv, Status!PumpClear \/ Status!PumpSet PROVE StatusInv'
<1>1. CASE Status!PumpClear
  <2>1. UNCHANGED <<st, was, acc>>
    BY <1>1 DEF Status!PumpClear, Status!v3
  <2>2. Honest(word)'
    BY <1>1, <2>1 DEF Status!PumpClear, Status!Pack, Honest, StatusInv
  <2>3. Honest(sts)'
    BY <1>1 DEF Status!PumpClear, Status!Cleared, Honest
  <2> QED BY <2>1, <2>2, <2>3 DEF StatusInv, OfFields, Status!OnlyStateDisturbed
<1>2. CASE Status!PumpSet
  BY <1>2 DEF Status!PumpSet, Status!v3, StatusInv, OfFields, Honest, Status!OnlyStateDisturbed
<1> QED BY <1>1, <1>2

\* V3F takes over whatever it finds, and marks a dead V5F (icc.c:251-259,
\* main_v3f.c:235).
LEMMA ReaderKeeps == ASSUME StatusInv, Status!Poll \/ Status!Render PROVE StatusInv'
<1>1. UNCHANGED <<st, was, word, sts>>
  BY DEF Status!Poll, Status!Render, Status!pump
<1>2. OfFields(acc')
  BY DEF Status!Poll, Status!Render, StatusInv, OfFields
<1>3. Status!OnlyStateDisturbed'
  <2>1. CASE Status!Poll
    BY <1>1, <2>1 DEF Status!Poll, StatusInv, OfFields, Honest, Status!OnlyStateDisturbed
  <2>2. CASE Status!Render
    BY <1>1, <2>2 DEF Status!Render, StatusInv, OfFields, Status!OnlyStateDisturbed
  <2> QED BY <2>1, <2>2
<1> QED BY <1>1, <1>2, <1>3 DEF StatusInv, OfFields, Honest

LEMMA StatusStepKeeps == StatusInv /\ [Status!Next]_(Status!vars) => StatusInv'
<1> SUFFICES ASSUME StatusInv, [Status!Next]_(Status!vars) PROVE StatusInv'
  OBVIOUS
<1>1. CASE UNCHANGED Status!vars
  BY <1>1 DEF Status!vars, Status!pump, Status!v3, StatusInv, OfFields, Honest, Status!OnlyStateDisturbed
<1>2. CASE Status!Next
  BY <1>2, ChangeKeeps, PumpKeeps, ReaderKeeps DEF Status!Next
<1> QED BY <1>1, <1>2

-----------------------------------------------------------------------------
\* The types of the status channel, with those of the two words it moves.
StatusWord == [seq : 0 .. 3, sel : Status!Field, payload : Payload]
StatusTypes == Status!TypeOK /\ word \in StatusWord /\ sts \in StatusWord

LEMMA StatusTypesInit == Status!Init => StatusTypes
<1> SUFFICES ASSUME Status!Init PROVE StatusTypes
  OBVIOUS
<1>1. 0 \in Status!Field /\ {0, 1} \subseteq Payload
  BY StatusAssumption DEF Status!Field
<1>2. word \in StatusWord /\ sts \in StatusWord
  BY <1>1 DEF Status!Init, Status!Cleared, StatusWord
<1>3. st \in [Status!Field -> Payload]
  BY <1>1 DEF Status!Init
<1>4. acc \in [Status!Field -> Payload \cup {NoSignal}]
  BY <1>1 DEF Status!Init
<1>5. sel = 0 /\ stSeq = 0 /\ stPc = "idle" /\ lastSeq = 4 /\ advanced \in BOOLEAN
  BY DEF Status!Init
<1> QED
  BY <1>1, <1>2, <1>3, <1>4, <1>5 DEF StatusTypes, Status!TypeOK

LEMMA StatusTypesStep == StatusTypes /\ [Status!Next]_(Status!vars) => StatusTypes'
<1> SUFFICES ASSUME StatusTypes, [Status!Next]_(Status!vars) PROVE StatusTypes'
  OBVIOUS
<1> USE StatusAssumption DEF StatusTypes, StatusWord, Status!TypeOK
<1>1. ASSUME NEW f \in Status!Field, NEW p \in Payload, Status!Change(f, p)
      PROVE  StatusTypes'
  BY <1>1 DEF Status!Change, Status!pump, Status!v3
<1>2. CASE Status!PumpClear
  <2>1. \A f \in Status!Field : Status!NextField(f) \in Status!Field
    BY DEF Status!NextField, Status!Field
  <2>2. 0 \in Status!Field /\ (stSeq + 1) % 4 \in 0 .. 3
    BY DEF Status!Field
  <2>3. word' \in StatusWord /\ sts' \in StatusWord
    BY <1>2, <2>2 DEF Status!PumpClear, Status!Pack, Status!Cleared
  <2> QED
    BY <1>2, <2>1, <2>2, <2>3 DEF Status!PumpClear, Status!v3
<1>3. CASE Status!PumpSet
  BY <1>3 DEF Status!PumpSet, Status!v3
<1>4. CASE Status!Poll
  BY <1>4 DEF Status!Poll, Status!pump
<1>5. CASE Status!Render
  BY <1>5 DEF Status!Render, Status!pump, Status!Field
<1>6. CASE UNCHANGED Status!vars
  BY <1>6 DEF Status!vars, Status!pump, Status!v3
<1> QED
  BY <1>1, <1>2, <1>3, <1>4, <1>5, <1>6 DEF Status!Next

\* A step of the two channels is a step or a stutter of each.
LEMMA BothChannels ==
    ASSUME [MCNext]_<<channel, vars, stvars>>
    PROVE  [Next]_vars /\ [Status!Next]_(Status!vars)
<1>1. UNCHANGED stvars => UNCHANGED Status!vars
  BY DEF stvars, Status!vars, Status!pump, Status!v3
<1> QED
  BY <1>1 DEF MCNext

\* Every status field but the state that V3F shows is a value the field really had on
\* V5F, although the register is written in two halves and read at any time
\* (icc.c:247-248).
THEOREM Undisturbed == MCSpec => []OnlyStateDisturbed
<1>1. MCInit => StatusInv
  BY StatusInitInv DEF MCInit
<1>2. StatusInv /\ [MCNext]_<<channel, vars, stvars>> => StatusInv'
  BY BothChannels, StatusStepKeeps
<1>3. StatusInv => OnlyStateDisturbed
  BY DEF StatusInv, OnlyStateDisturbed
<1> QED
  BY <1>1, <1>2, <1>3, PTL DEF MCSpec

\* Both channels keep the types of their registers and indexes, whatever the number of
\* fields and the payloads (icc.c's statics).
THEOREM ChannelTypes == MCSpec => []TypesOK
<1>1. MCInit => TypeOK /\ StatusTypes
  BY InitInv, StatusTypesInit DEF MCInit, IInv
<1>2. TypeOK /\ StatusTypes /\ [MCNext]_<<channel, vars, stvars>>
        => (TypeOK /\ StatusTypes)'
  BY BothChannels, TypeStep, StatusTypesStep
<1>3. TypeOK /\ StatusTypes => TypesOK
  BY DEF TypesOK, StatusTypes
<1> QED
  BY <1>1, <1>2, <1>3, PTL DEF MCSpec
=============================================================================
