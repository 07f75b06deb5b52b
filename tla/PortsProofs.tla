---------------------------- MODULE PortsProofs ----------------------------
(***************************************************************************)
(* Proofs about the ports of MCPorts: what the command UART takes in and   *)
(* what it lets out, for rings of any size and any number of bytes, and    *)
(* the data stages of endpoint 0 on either controller, for packets and a   *)
(* capture buffer of any size and any number of lost acknowledgements,     *)
(* time-outs and resets; and the ranges all of their state keeps to.       *)
(***************************************************************************)
EXTENDS MCPorts, SequenceTheorems, TLAPS

-----------------------------------------------------------------------------
(***************************************************************************)
(* Receive.  Bytes are numbered, so a sequence of them has no hole when it *)
(* counts up to the byte before those that follow.  While nothing is lost, *)
(* parser, batch and ring count up to the last byte the interrupt took.    *)
(* A loss leaves the three as they are: the ring and the batch are then    *)
(* thrown away before anything new is stored, and the parser is reset      *)
(* before it is fed again.                                                 *)
(***************************************************************************)

\* The sequence s counts up to n.
UpTo(s, n) == \A i \in 1 .. Len(s) : s[i] = n - Len(s) + i

\* The last byte that has left the data register, and the batch on its way.
Taken == IF dr = Empty THEN sent ELSE dr.byte - 1
Batch == IF pc \in {"read", "rest"} THEN <<>> ELSE buf

Sound == (1 .. sent) \ mangled

RxTypes ==
    /\ sent \in 0 .. MaxBytes /\ mangled \subseteq 1 .. sent
    /\ {quiet, recovering} \subseteq BOOLEAN
    /\ epoch \in Nat /\ reported \in Nat /\ reported <= epoch
    /\ pc \in {"read", "copy", "check", "loss", "feed", "rest"}
    /\ parser \in Seq(Sound) /\ buf \in Seq(Sound) /\ ring \in Seq(Sound)
    /\ Len(ring) < RingBytes /\ Len(buf) <= BatchMax

RegisterInv ==
    dr # Empty => /\ dr \in [byte : 1 .. sent, bad : BOOLEAN, ore : BOOLEAN]
                  /\ dr.bad \/ dr.byte \in Sound
                  /\ ~dr.ore => dr.byte = sent

\* What the parser has been fed, and is about to be fed, has no hole.
FedInv ==
    /\ \E n \in Int : UpTo(parser, n)
    /\ pc = "feed" => \E n \in Int : UpTo(buf, n) /\ UpTo(parser, n - Len(buf))

\* Before a loss, after it, and between its end and its report
OrderInv ==
    /\ ~recovering => UpTo(ring, Taken)
    /\ ~recovering /\ epoch # reported => pc = "loss" /\ buf = <<>>
    /\ ~recovering /\ epoch = reported =>
          /\ UpTo(Batch, Taken - Len(ring))
          /\ UpTo(parser, Taken - Len(ring) - Len(Batch))
    /\ recovering /\ epoch = reported => parser = <<>> /\ Batch = <<>>

\* Until the first loss nothing is missing.
CountInv ==
    epoch = 0 => ~recovering /\ Len(parser) + Len(Batch) + Len(ring) = Taken

RxInv == RxTypes /\ RegisterInv /\ FedInv /\ OrderInv /\ CountInv

-----------------------------------------------------------------------------
\* Sequences that count

LEMMA UpToEmpty == ASSUME NEW n PROVE UpTo(<<>>, n)
BY DEF UpTo

LEMMA UpToAppend ==
    ASSUME NEW S, S \subseteq Int, NEW s \in Seq(S), NEW n \in Int, n + 1 \in S, UpTo(s, n)
    PROVE  UpTo(Append(s, n + 1), n + 1)
<1>1. /\ Len(Append(s, n + 1)) = Len(s) + 1 /\ Len(s) \in Nat
      /\ \A i \in 1 .. Len(s) : Append(s, n + 1)[i] = s[i]
      /\ Append(s, n + 1)[Len(s) + 1] = n + 1
  BY AppendProperties, LenProperties
<1> QED BY <1>1 DEF UpTo

LEMMA UpToTail ==
    ASSUME NEW S, S \subseteq Int, NEW s \in Seq(S), NEW n \in Int, s # <<>>, UpTo(s, n)
    PROVE  UpTo(Tail(s), n) /\ Head(s) = n - Len(s) + 1
<1>1. /\ Len(Tail(s)) = Len(s) - 1 /\ Len(s) \in Nat \ {0}
      /\ \A i \in 1 .. Len(Tail(s)) : Tail(s)[i] = s[i + 1]
  BY HeadTailProperties, LenProperties, EmptySeq
<1>2. Head(s) = s[1]
  OBVIOUS
<1> QED BY <1>1, <1>2 DEF UpTo

LEMMA UpToConcat ==
    ASSUME NEW S, S \subseteq Int, NEW s \in Seq(S), NEW t \in Seq(S), NEW n \in Int,
           UpTo(t, n), UpTo(s, n - Len(t))
    PROVE  UpTo(s \o t, n)
<1>1. /\ Len(s \o t) = Len(s) + Len(t) /\ Len(s) \in Nat /\ Len(t) \in Nat
      /\ \A i \in 1 .. Len(s) + Len(t) :
            (s \o t)[i] = IF i <= Len(s) THEN s[i] ELSE t[i - Len(s)]
  BY ConcatProperties, LenProperties
<1> SUFFICES ASSUME NEW i \in 1 .. Len(s \o t)
             PROVE  (s \o t)[i] = n - Len(s \o t) + i
  BY DEF UpTo
<1>2. CASE i <= Len(s)
  BY <1>1, <1>2 DEF UpTo
<1>3. CASE i > Len(s)
  <2>1. i - Len(s) \in 1 .. Len(t)
    BY <1>1, <1>3
  <2> QED BY <1>1, <1>3, <2>1 DEF UpTo
<1> QED BY <1>1, <1>2, <1>3

LEMMA UpToConsecutive ==
    ASSUME NEW S, NEW s \in Seq(S), NEW n \in Int, UpTo(s, n)
    PROVE  Consecutive(s)
BY LenProperties DEF UpTo, Consecutive

-----------------------------------------------------------------------------
LEMMA RxTyped ==
    ASSUME RxTypes, RegisterInv
    PROVE  /\ sent \in Nat /\ Sound \subseteq Int /\ Taken \in Nat /\ Taken <= sent
           /\ Len(ring) \in Nat /\ Len(buf) \in Nat /\ Len(parser) \in Nat
           /\ Batch \in Seq(Sound) /\ Len(Batch) \in Nat
<1>1. sent \in Nat /\ Sound \subseteq Int
  BY SizeAssumption DEF RxTypes, Sound
<1>2. Taken \in Nat /\ Taken <= sent
  BY <1>1 DEF RegisterInv, Taken
<1>3. Batch \in Seq(Sound)
  BY EmptySeq DEF RxTypes, Batch
<1> QED BY <1>1, <1>2, <1>3, LenProperties DEF RxTypes

LEMMA RxInit == Init => RxInv
<1> SUFFICES ASSUME Init PROVE RxInv
  OBVIOUS
<1>1. /\ parser = <<>> /\ buf = <<>> /\ ring = <<>> /\ dr = Empty /\ sent = 0
      /\ pc = "read" /\ epoch = 0 /\ reported = 0 /\ recovering = FALSE
      /\ mangled = {} /\ quiet = FALSE
  BY DEF Init
<1>2. Len(<<>>) = 0 /\ Batch = <<>> /\ Taken = 0
  BY <1>1, EmptySeq DEF Batch, Taken
<1>3. RxTypes
  <2>1. /\ 0 \in 0 .. MaxBytes /\ 0 < RingBytes /\ 0 <= BatchMax
    BY SizeAssumption
  <2>2. <<>> \in Seq(Sound)
    BY EmptySeq
  <2>3. {quiet, recovering} \subseteq BOOLEAN /\ mangled \subseteq 1 .. sent
    BY <1>1
  <2>4. reported <= epoch
    BY <1>1
  <2> QED BY <1>1, <1>2, <2>1, <2>2, <2>3, <2>4 DEF RxTypes
<1>4. FedInv
  BY <1>1, UpToEmpty DEF FedInv
<1> QED BY <1>1, <1>2, <1>3, <1>4, UpToEmpty DEF RxInv, RegisterInv, OrderInv, CountInv

\* A byte may grow sound bytes only.
LEMMA SoundGrows ==
    ASSUME RxTypes, NEW bad \in BOOLEAN, ByteArrives(bad)
    PROVE  /\ Sound \subseteq Sound' /\ sent' = sent + 1 /\ sent \in Nat
           /\ sent' \in 0 .. MaxBytes /\ mangled' \subseteq 1 .. sent'
           /\ ~bad => sent' \in Sound'
<1>1. sent \in Nat /\ sent' = sent + 1 /\ sent' \in 0 .. MaxBytes
  BY SizeAssumption DEF RxTypes, ByteArrives
<1>2. mangled' = IF bad THEN mangled \cup {sent'} ELSE mangled
  BY DEF ByteArrives
<1>3. mangled \subseteq 1 .. sent
  BY DEF RxTypes
<1> QED BY <1>1, <1>2, <1>3 DEF Sound

LEMMA ArrivalKeeps ==
    ASSUME RxInv, NEW bad \in BOOLEAN, ByteArrives(bad)
    PROVE  RxInv'
<1>1. RxTypes /\ RegisterInv /\ FedInv /\ OrderInv /\ CountInv
  BY DEF RxInv
<1>2. /\ UNCHANGED <<quiet, ring, recovering, epoch, pc, buf, reported, parser>>
      /\ dr' = IF dr = Empty THEN [byte |-> sent', bad |-> bad, ore |-> FALSE]
               ELSE [dr EXCEPT !.ore = TRUE]
  BY DEF ByteArrives, shared, fore
<1>3. /\ Sound \subseteq Sound' /\ sent' = sent + 1 /\ sent \in Nat
      /\ sent' \in 0 .. MaxBytes /\ mangled' \subseteq 1 .. sent'
      /\ ~bad => sent' \in Sound'
  BY <1>1, SoundGrows
<1>4. /\ parser' \in Seq(Sound') /\ buf' \in Seq(Sound') /\ ring' \in Seq(Sound')
  BY <1>1, <1>2, <1>3, SeqMonotonic DEF RxTypes
<1>5. RxTypes'
  BY <1>1, <1>2, <1>3, <1>4 DEF RxTypes
<1>6. RegisterInv' /\ dr' # Empty /\ Taken' = Taken
  <2>1. CASE dr = Empty
    <3>1. dr' = [byte |-> sent', bad |-> bad, ore |-> FALSE]
      BY <1>2, <2>1
    <3>2. dr'.byte = sent' /\ dr'.bad = bad /\ sent' # 0 /\ dr' # Empty
      BY <1>3, <3>1 DEF Empty
    <3> QED BY <1>3, <2>1, <3>1, <3>2 DEF RegisterInv, Taken
  <2>2. CASE dr # Empty
    <3>1. dr \in [byte : 1 .. sent, bad : BOOLEAN, ore : BOOLEAN]
          /\ (dr.bad \/ dr.byte \in Sound)
      BY <1>1, <2>2 DEF RegisterInv
    <3>2. dr' = [byte |-> dr.byte, bad |-> dr.bad, ore |-> TRUE]
      BY <1>2, <2>2, <3>1
    <3>3. dr'.byte = dr.byte /\ dr'.bad = dr.bad /\ dr'.ore /\ dr' # Empty
      BY <3>2 DEF Empty
    <3>4. dr' \in [byte : 1 .. sent', bad : BOOLEAN, ore : BOOLEAN]
      BY <1>3, <3>1, <3>2
    <3> QED BY <1>3, <2>2, <3>1, <3>3, <3>4 DEF RegisterInv, Taken
  <2> QED BY <2>1, <2>2
<1>7. FedInv' /\ OrderInv' /\ CountInv'
  BY <1>1, <1>2, <1>6 DEF FedInv, OrderInv, CountInv, Batch
<1> QED BY <1>5, <1>6, <1>7 DEF RxInv

LEMMA InterruptKeeps == ASSUME RxInv, RxInterrupt PROVE RxInv'
<1>1. RxTypes /\ RegisterInv /\ FedInv /\ OrderInv /\ CountInv
  BY DEF RxInv
<1> DEFINE errors == dr.ore \/ dr.bad
           stored == ~recovering /\ ~errors /\ RoomInRing
<1>2. /\ dr # Empty /\ dr' = Empty /\ quiet' = FALSE
      /\ ring' = IF stored THEN Append(ring, dr.byte) ELSE ring
      /\ recovering' = (recovering \/ Lost(errors))
      /\ epoch' = IF Lost(errors) /\ ~recovering THEN epoch + 1 ELSE epoch
      /\ UNCHANGED <<sent, pc, buf, reported, parser, mangled>>
  BY DEF RxInterrupt, fore
<1>3. /\ sent \in Nat /\ Sound \subseteq Int /\ Taken \in Nat
      /\ Len(ring) \in Nat /\ Sound' = Sound /\ Batch' = Batch
  BY <1>1, <1>2, RxTyped DEF Sound, Batch
<1>4. /\ dr.byte \in 1 .. sent /\ Taken = dr.byte - 1 /\ Taken' = sent
      /\ dr.bad \/ dr.byte \in Sound
      /\ ~dr.ore => dr.byte = sent
  BY <1>1, <1>2 DEF RegisterInv, Taken
<1>5. stored => ~recovering'
  BY <1>2 DEF Lost
<1>6. ~recovering' => ~recovering /\ stored /\ epoch' = epoch
  BY <1>2 DEF Lost
<1>7. stored => /\ ring' \in Seq(Sound) /\ Len(ring') = Len(ring) + 1
                /\ Len(ring') < RingBytes /\ Taken' = Taken + 1
                /\ UpTo(ring', Taken')
  <2> SUFFICES ASSUME stored
               PROVE  /\ ring' \in Seq(Sound) /\ Len(ring') = Len(ring) + 1
                      /\ Len(ring') < RingBytes /\ Taken' = Taken + 1
                      /\ UpTo(ring', Taken')
    OBVIOUS
  <2>1. dr.byte = sent /\ dr.byte \in Sound /\ ring' = Append(ring, Taken + 1)
    BY <1>2, <1>3, <1>4
  <2>2. ring' \in Seq(Sound) /\ Len(ring') = Len(ring) + 1
    BY <1>1, <1>2, <2>1, AppendProperties DEF RxTypes
  <2>3. Taken' = Taken + 1 /\ Taken + 1 \in Sound
    BY <1>3, <1>4, <2>1
  <2>4. UpTo(ring, Taken)
    BY <1>1 DEF OrderInv
  <2>5. UpTo(Append(ring, Taken + 1), Taken + 1)
    <3>1. ring \in Seq(Sound) /\ Sound \subseteq Int /\ Taken \in Int
      BY <1>1, <1>3 DEF RxTypes
    <3> QED BY <2>3, <2>4, <3>1, UpToAppend
  <2>6. Len(ring) + 1 < RingBytes
    BY <1>3, SizeAssumption DEF RoomInRing
  <2> QED BY <2>1, <2>2, <2>3, <2>5, <2>6
<1>8. ~stored => ring' = ring
  BY <1>2
<1>9. epoch' \in Nat /\ reported' <= epoch'
  BY <1>1, <1>2 DEF RxTypes
<1>10. RxTypes'
  <2>1. ring' \in Seq(Sound) /\ Len(ring') < RingBytes
    BY <1>1, <1>7, <1>8 DEF RxTypes
  <2>2. {quiet', recovering'} \subseteq BOOLEAN
    BY <1>2
  <2> QED BY <1>1, <1>2, <1>3, <1>9, <2>1, <2>2 DEF RxTypes
<1>11. RegisterInv' /\ FedInv'
  BY <1>1, <1>2 DEF RegisterInv, FedInv
<1>12. OrderInv'
  <2>1. CASE ~recovering'
    <3>1. /\ ~recovering /\ epoch' = epoch /\ Taken' - Len(ring') = Taken - Len(ring)
          /\ UpTo(ring', Taken')
      BY <1>3, <1>6, <1>7, <2>1
    <3> QED BY <1>1, <1>2, <1>3, <2>1, <3>1 DEF OrderInv
  <2>2. CASE recovering'
    <3>1. epoch' = reported' => recovering /\ epoch = reported
      BY <1>1, <1>2, <2>2 DEF RxTypes
    <3> QED BY <1>1, <1>2, <1>3, <2>2, <3>1 DEF OrderInv
  <2> QED BY <2>1, <2>2
<1>13. CountInv'
  <2> SUFFICES ASSUME epoch' = 0
               PROVE  ~recovering' /\ Len(parser') + Len(Batch') + Len(ring') = Taken'
    BY DEF CountInv
  <2>1. epoch = 0 /\ ~recovering
    BY <1>1, <1>2 DEF RxTypes, CountInv
  <2>2. ~Lost(errors)
    BY <1>1, <1>2, <2>1
  <2>3. stored /\ ~recovering'
    BY <1>2, <2>1, <2>2 DEF Lost
  <2>4. Len(parser) + Len(Batch) + Len(ring) = Taken
    BY <1>1, <2>1 DEF CountInv
  <2>5. Len(parser) \in Nat /\ Len(Batch) \in Nat
    BY <1>1, RxTyped
  <2> QED BY <1>2, <1>3, <1>7, <2>3, <2>4, <2>5
<1> QED BY <1>10, <1>11, <1>12, <1>13 DEF RxInv

\* The foreground leaves the wire alone.
LEMMA ForegroundSees ==
    ASSUME UNCHANGED <<sent, dr, mangled>>
    PROVE  Taken' = Taken /\ Sound' = Sound /\ (RegisterInv => RegisterInv')
BY DEF Taken, Sound, RegisterInv

LEMMA ReadKeeps == ASSUME RxInv, ReadRecovering \/ ReadStart PROVE RxInv'
<1>1. RxTypes /\ RegisterInv /\ FedInv /\ OrderInv /\ CountInv
  BY DEF RxInv
<1>2. /\ pc = "read" /\ buf' = <<>> /\ pc' \in {"loss", "copy"}
      /\ UNCHANGED <<sent, dr, quiet, mangled, epoch, reported, parser>>
  BY DEF ReadRecovering, ReadStart, wire, shared
<1>3. /\ Taken' = Taken /\ Sound' = Sound /\ RegisterInv'
      /\ Batch = <<>> /\ Batch' = <<>> /\ Len(<<>>) = 0 /\ Taken \in Nat
  BY <1>1, <1>2, ForegroundSees, RxTyped, EmptySeq DEF Batch
<1>4. CASE ReadRecovering
  <2>1. recovering /\ ring' = <<>> /\ pc' = "loss" /\ recovering' \in BOOLEAN
    BY <1>4 DEF ReadRecovering
  <2>2. RxTypes'
    <3>1. <<>> \in Seq(Sound) /\ 0 < RingBytes /\ 0 <= BatchMax
      BY EmptySeq, SizeAssumption
    <3> QED BY <1>1, <1>2, <1>3, <2>1, <3>1 DEF RxTypes
  <2>3. epoch = reported => parser = <<>>
    BY <1>1, <2>1 DEF OrderInv
  <2>4. OrderInv'
    BY <1>2, <1>3, <2>1, <2>3, UpToEmpty DEF OrderInv
  <2>5. FedInv' /\ CountInv'
    BY <1>1, <1>2, <2>1 DEF FedInv, CountInv
  <2> QED BY <1>3, <2>2, <2>4, <2>5 DEF RxInv
<1>5. CASE ReadStart
  <2>1. ~recovering /\ pc' = "copy" /\ UNCHANGED <<ring, recovering>>
    BY <1>5 DEF ReadStart, shared
  <2>2. epoch = reported
    BY <1>1, <1>2, <2>1 DEF OrderInv
  <2>3. RxTypes'
    <3>1. <<>> \in Seq(Sound) /\ 0 <= BatchMax
      BY EmptySeq, SizeAssumption
    <3> QED BY <1>1, <1>2, <1>3, <2>1, <3>1 DEF RxTypes
  <2>4. OrderInv'
    BY <1>1, <1>2, <1>3, <2>1, <2>2 DEF OrderInv
  <2>5. FedInv' /\ CountInv'
    BY <1>1, <1>2, <1>3, <2>1 DEF FedInv, CountInv
  <2> QED BY <1>3, <2>3, <2>4, <2>5 DEF RxInv
<1> QED BY <1>4, <1>5

LEMMA CopyKeeps == ASSUME RxInv, CopyByte PROVE RxInv'
<1>1. RxTypes /\ RegisterInv /\ FedInv /\ OrderInv /\ CountInv
  BY DEF RxInv
<1>2. /\ pc = "copy" /\ Len(buf) < BatchMax /\ ~recovering /\ ring # <<>>
      /\ buf' = Append(buf, Head(ring)) /\ ring' = Tail(ring)
      /\ UNCHANGED <<sent, dr, quiet, mangled, recovering, epoch, pc, reported, parser>>
  BY DEF CopyByte, CanCopy, wire
<1>3. /\ Taken' = Taken /\ Sound' = Sound /\ RegisterInv' /\ Sound \subseteq Int
      /\ Batch = buf /\ Batch' = buf' /\ Taken \in Nat /\ Len(buf) \in Nat
      /\ Len(ring) \in Nat /\ Len(parser) \in Nat
  BY <1>1, <1>2, ForegroundSees, RxTyped DEF Batch
<1>4. epoch = reported /\ UpTo(ring, Taken) /\ UpTo(buf, Taken - Len(ring))
      /\ UpTo(parser, Taken - Len(ring) - Len(buf))
  BY <1>1, <1>2, <1>3 DEF OrderInv
<1>5. /\ ring' \in Seq(Sound) /\ Head(ring) \in Sound /\ Len(ring') = Len(ring) - 1
      /\ UpTo(ring', Taken) /\ Head(ring) = Taken - Len(ring) + 1
  <2>1. ring \in Seq(Sound) /\ Sound \subseteq Int /\ Taken \in Int
    BY <1>1, <1>3 DEF RxTypes
  <2>2. UpTo(Tail(ring), Taken) /\ Head(ring) = Taken - Len(ring) + 1
    BY <1>2, <1>4, <2>1, UpToTail
  <2>3. /\ Head(ring) \in Sound /\ Tail(ring) \in Seq(Sound)
        /\ Len(Tail(ring)) = Len(ring) - 1
    BY <1>2, <2>1, HeadTailProperties
  <2> QED BY <1>2, <2>2, <2>3
<1>6. /\ buf' \in Seq(Sound) /\ Len(buf') = Len(buf) + 1
      /\ UpTo(buf', Taken - Len(ring) + 1)
  <2> DEFINE n == Taken - Len(ring)
  <2>1. n \in Int /\ buf \in Seq(Sound) /\ Sound \subseteq Int
    BY <1>1, <1>3 DEF RxTypes
  <2>2. UpTo(buf, n) /\ Head(ring) = n + 1 /\ n + 1 \in Sound
    BY <1>4, <1>5
  <2>3. buf' = Append(buf, n + 1)
    BY <1>2, <2>2
  <2> HIDE DEF n
  <2>4. UpTo(Append(buf, n + 1), n + 1)
    BY <2>1, <2>2, UpToAppend
  <2>5. buf' \in Seq(Sound) /\ Len(buf') = Len(buf) + 1
    BY <2>1, <2>2, <2>3, AppendProperties
  <2> QED BY <2>3, <2>4, <2>5 DEF n
<1>7. /\ Taken - Len(ring') = Taken - Len(ring) + 1
      /\ Taken - Len(ring') - Len(buf') = Taken - Len(ring) - Len(buf)
      /\ Len(parser) + Len(buf') + Len(ring') = Len(parser) + Len(buf) + Len(ring)
  BY <1>3, <1>5, <1>6
<1>8. RxTypes'
  <2>1. Len(ring') < RingBytes /\ Len(buf') <= BatchMax
    BY <1>1, <1>2, <1>3, <1>5, <1>6, SizeAssumption DEF RxTypes
  <2> QED BY <1>1, <1>2, <1>3, <1>5, <1>6, <2>1 DEF RxTypes
<1>9. OrderInv'
  BY <1>2, <1>3, <1>4, <1>5, <1>6, <1>7 DEF OrderInv
<1>10. FedInv' /\ CountInv'
  BY <1>1, <1>2, <1>3, <1>7 DEF FedInv, CountInv
<1> QED BY <1>3, <1>8, <1>9, <1>10 DEF RxInv

\* What keeps batch and ring as they are
LEMMA CopyDoneKeeps == ASSUME RxInv, CopyDone PROVE RxInv'
<1>1. RxTypes /\ RegisterInv /\ FedInv /\ OrderInv /\ CountInv
  BY DEF RxInv
<1>2. /\ pc = "copy" /\ pc' = "check"
      /\ UNCHANGED <<sent, dr, quiet, mangled, ring, recovering, epoch, buf, reported, parser>>
  BY DEF CopyDone, wire, shared
<1>3. Taken' = Taken /\ Sound' = Sound /\ RegisterInv' /\ Batch' = Batch
  BY <1>1, <1>2, ForegroundSees DEF Batch
<1>4. RxTypes' /\ FedInv'
  BY <1>1, <1>2, <1>3 DEF RxTypes, FedInv
<1>5. OrderInv' /\ CountInv'
  BY <1>1, <1>2, <1>3 DEF OrderInv, CountInv
<1> QED BY <1>3, <1>4, <1>5 DEF RxInv

LEMMA CheckKeeps == ASSUME RxInv, CheckBatch PROVE RxInv'
<1>1. RxTypes /\ RegisterInv /\ FedInv /\ OrderInv /\ CountInv
  BY DEF RxInv
<1>2. /\ pc = "check" /\ pc' = "loss" /\ buf' = IF recovering THEN <<>> ELSE buf
      /\ UNCHANGED <<sent, dr, quiet, mangled, ring, recovering, epoch, reported, parser>>
  BY DEF CheckBatch, wire, shared
<1>3. Taken' = Taken /\ Sound' = Sound /\ RegisterInv' /\ Batch = buf /\ Batch' = buf'
  BY <1>1, <1>2, ForegroundSees DEF Batch
<1>4. buf' \in Seq(Sound) /\ Len(buf') <= BatchMax
  BY <1>1, <1>2, EmptySeq, SizeAssumption DEF RxTypes
<1>5. RxTypes' /\ FedInv'
  BY <1>1, <1>2, <1>3, <1>4 DEF RxTypes, FedInv
<1>6. OrderInv'
  BY <1>1, <1>2, <1>3 DEF OrderInv
<1>7. CountInv'
  BY <1>1, <1>2, <1>3 DEF CountInv
<1> QED BY <1>3, <1>5, <1>6, <1>7 DEF RxInv

LEMMA TakeLossKeeps == ASSUME RxInv, TakeLoss PROVE RxInv'
<1>1. RxTypes /\ RegisterInv /\ FedInv /\ OrderInv /\ CountInv
  BY DEF RxInv
<1>2. /\ pc = "loss" /\ pc' = "feed" /\ reported' = epoch
      /\ UNCHANGED <<sent, dr, quiet, mangled, ring, recovering, epoch>>
  BY DEF TakeLoss, wire, shared
<1>3. /\ Taken' = Taken /\ Sound' = Sound /\ RegisterInv' /\ Batch = buf /\ Batch' = buf'
      /\ Taken \in Int /\ Len(ring) \in Int /\ Len(buf) \in Int
  BY <1>1, <1>2, ForegroundSees, RxTyped DEF Batch
<1>4. CASE epoch # reported
  <2>1. parser' = <<>> /\ buf' = <<>> /\ Len(<<>>) = 0
    BY <1>4, EmptySeq DEF TakeLoss
  <2>2. <<>> \in Seq(Sound) /\ 0 <= BatchMax
    BY EmptySeq, SizeAssumption
  <2>3. RxTypes'
    BY <1>1, <1>2, <1>3, <2>1, <2>2 DEF RxTypes
  <2>4. FedInv'
    BY <2>1, UpToEmpty DEF FedInv
  <2>5. OrderInv'
    BY <1>1, <1>2, <1>3, <2>1, UpToEmpty DEF OrderInv
  <2>6. CountInv'
    BY <1>1, <1>2, <1>4 DEF RxTypes, CountInv
  <2> QED BY <1>3, <2>3, <2>4, <2>5, <2>6 DEF RxInv
<1>5. CASE epoch = reported
  <2>1. parser' = parser /\ buf' = buf
    BY <1>5 DEF TakeLoss
  <2>2. \E n \in Int : UpTo(buf, n) /\ UpTo(parser, n - Len(buf))
    <3>1. CASE recovering
      <4>1. parser = <<>> /\ buf = <<>>
        BY <1>1, <1>3, <1>5, <3>1 DEF OrderInv
      <4>2. UpTo(buf, 0) /\ UpTo(parser, 0 - Len(buf))
        BY <4>1, UpToEmpty
      <4> QED BY <4>2
    <3>2. CASE ~recovering
      <4> DEFINE n == Taken - Len(ring)
      <4>1. n \in Int /\ UpTo(buf, n) /\ UpTo(parser, n - Len(buf))
        BY <1>1, <1>3, <1>5, <3>2 DEF OrderInv
      <4> HIDE DEF n
      <4> QED BY <4>1
    <3> QED BY <3>1, <3>2
  <2>3. RxTypes'
    BY <1>1, <1>2, <1>3, <2>1 DEF RxTypes
  <2>4. FedInv'
    BY <1>1, <2>1, <2>2 DEF FedInv
  <2>5. OrderInv' /\ CountInv'
    BY <1>1, <1>2, <1>3, <1>5, <2>1 DEF OrderInv, CountInv
  <2> QED BY <1>3, <2>3, <2>4, <2>5 DEF RxInv
<1> QED BY <1>4, <1>5

\* The parser is fed the batch.
LEMMA FeedKeeps == ASSUME RxInv, Feed PROVE RxInv'
<1>1. RxTypes /\ RegisterInv /\ FedInv /\ OrderInv /\ CountInv
  BY DEF RxInv
<1>2. /\ pc = "feed" /\ pc' \in {"read", "rest"} /\ parser' = parser \o buf
      /\ UNCHANGED <<sent, dr, quiet, mangled, ring, recovering, epoch, buf, reported>>
  BY DEF Feed, wire, shared
<1>3. /\ Taken' = Taken /\ Sound' = Sound /\ RegisterInv' /\ Batch = buf /\ Batch' = <<>>
      /\ Taken \in Int /\ Len(ring) \in Nat /\ Len(buf) \in Nat /\ Len(parser) \in Nat
      /\ Sound \subseteq Int /\ Len(<<>>) = 0
  BY <1>1, <1>2, ForegroundSees, RxTyped, EmptySeq DEF Batch
<1>4. /\ parser' \in Seq(Sound) /\ Len(parser') = Len(parser) + Len(buf)
      /\ parser \in Seq(Sound) /\ buf \in Seq(Sound)
  BY <1>1, <1>2, ConcatProperties DEF RxTypes
<1>5. ASSUME NEW n \in Int, UpTo(buf, n), UpTo(parser, n - Len(buf))
      PROVE  UpTo(parser', n)
  BY <1>2, <1>3, <1>4, <1>5, UpToConcat
<1>6. RxTypes'
  BY <1>1, <1>2, <1>3, <1>4 DEF RxTypes
<1>7. FedInv'
  <2>1. PICK n \in Int : UpTo(buf, n) /\ UpTo(parser, n - Len(buf))
    BY <1>1, <1>2 DEF FedInv
  <2>2. UpTo(parser', n)
    BY <1>5, <2>1
  <2> QED BY <1>2, <2>2 DEF FedInv
<1>8. OrderInv'
  <2>1. ~recovering /\ epoch # reported => FALSE
    BY <1>1, <1>2 DEF OrderInv
  <2>2. ASSUME ~recovering, epoch = reported PROVE UpTo(parser', Taken - Len(ring))
    <3> DEFINE n == Taken - Len(ring)
    <3>1. n \in Int /\ UpTo(buf, n) /\ UpTo(parser, n - Len(buf))
      BY <1>1, <1>3, <2>2 DEF OrderInv
    <3> HIDE DEF n
    <3>2. UpTo(parser', n)
      BY <1>5, <3>1
    <3> QED BY <3>2 DEF n
  <2>3. ~recovering => UpTo(ring, Taken)
    BY <1>1 DEF OrderInv
  <2>4. ASSUME recovering, epoch = reported PROVE parser' = <<>>
    <3>1. parser = <<>> /\ buf = <<>>
      BY <1>1, <1>3, <2>4 DEF OrderInv
    <3> QED BY <1>2, <1>4, <3>1, ConcatEmptySeq
  <2>5. Taken - Len(ring) - 0 = Taken - Len(ring)
    BY <1>3
  <2> QED BY <1>2, <1>3, <2>1, <2>2, <2>3, <2>4, <2>5, UpToEmpty DEF OrderInv
<1>9. CountInv'
  BY <1>1, <1>2, <1>3, <1>4 DEF CountInv
<1> QED BY <1>3, <1>6, <1>7, <1>8, <1>9 DEF RxInv

LEMMA RestKeeps == ASSUME RxInv, LineQuiet \/ Rest \/ UNCHANGED vars PROVE RxInv'
<1>1. RxTypes /\ RegisterInv /\ FedInv /\ OrderInv /\ CountInv
  BY DEF RxInv
<1>2. /\ pc' # pc => pc = "rest" /\ pc' = "read"
      /\ quiet' \in {quiet, TRUE}
      /\ UNCHANGED <<sent, dr, mangled, ring, recovering, epoch, buf, reported, parser>>
  BY DEF LineQuiet, Rest, vars, wire, shared, fore
<1>3. Taken' = Taken /\ Sound' = Sound /\ RegisterInv' /\ Batch' = Batch
  BY <1>1, <1>2, ForegroundSees DEF Batch
<1>4. RxTypes' /\ FedInv'
  BY <1>1, <1>2, <1>3 DEF RxTypes, FedInv
<1>5. OrderInv' /\ CountInv'
  BY <1>1, <1>2, <1>3 DEF OrderInv, CountInv
<1> QED BY <1>3, <1>4, <1>5 DEF RxInv

LEMMA RxKeeps == ASSUME RxInv, [Next]_vars PROVE RxInv'
BY ArrivalKeeps, InterruptKeeps, ReadKeeps, CopyKeeps, CopyDoneKeeps, CheckKeeps,
   TakeLossKeeps, FeedKeeps, RestKeeps DEF Next, Foreground

\* The inductive invariant of the receive half (uart.c:60-155, kmbox_cmd.c:48-84).
THEOREM RxInductive == MCSpec => []RxInv
<1>1. MCInit => RxInv
  BY RxInit DEF MCInit
<1>2. RxInv /\ [MCNext]_all => RxInv'
  BY RxKeeps DEF MCNext, InRx, InTx, InEp0, all
<1> QED BY <1>1, <1>2, PTL DEF MCSpec

\* The parser never reads across a hole, and a line without loss or error loses nothing:
\* for rings and batches of any size, wherever the interrupt falls (uart.c:60-155,
\* kmbox_cmd.c:48-84).
THEOREM NoHole == MCSpec => []ParserSeesNoHole
<1>1. ASSUME RxInv PROVE NoHoleInParser
  <2>1. parser \in Seq(Sound)
    BY <1>1 DEF RxInv, RxTypes
  <2>2. PICK n \in Int : UpTo(parser, n)
    BY <1>1 DEF RxInv, FedInv
  <2>3. DOMAIN parser = 1 .. Len(parser) /\ \A i \in 1 .. Len(parser) : parser[i] \in Sound
    BY <2>1, LenProperties, ElementOfSeq
  <2> QED BY <2>1, <2>2, <2>3, UpToConsecutive DEF NoHoleInParser, Sound
<1>2. ASSUME RxInv PROVE CleanLineLosesNothing
  <2> DEFINE held == parser \o Batch \o ring
  <2> SUFFICES ASSUME epoch = 0, ~dr.ore
               PROVE  /\ Consecutive(held)
                      /\ Len(held) + (IF dr = Empty THEN 0 ELSE 1) = sent
                      /\ held # <<>> => held[1] = 1
    BY DEF CleanLineLosesNothing, Batch
  <2>1. RxTypes /\ RegisterInv /\ OrderInv /\ CountInv
    BY <1>2 DEF RxInv
  <2>2. /\ ~recovering /\ epoch = reported
        /\ Len(parser) + Len(Batch) + Len(ring) = Taken
    BY <2>1 DEF RxTypes, CountInv
  <2>3. /\ parser \in Seq(Sound) /\ Batch \in Seq(Sound) /\ ring \in Seq(Sound)
        /\ Sound \subseteq Int /\ Taken \in Int /\ sent \in Nat
        /\ Len(ring) \in Nat /\ Len(Batch) \in Nat /\ Len(parser) \in Nat
    BY <2>1, RxTyped DEF RxTypes
  <2> DEFINE front == parser \o Batch
             n == Taken - Len(ring)
  <2>4. /\ front \in Seq(Sound) /\ Len(front) = Len(parser) + Len(Batch)
    BY <2>3, ConcatProperties
  <2>5. UpTo(front, n)
    <3>1. n \in Int /\ UpTo(Batch, n) /\ UpTo(parser, n - Len(Batch))
      BY <2>1, <2>2, <2>3 DEF OrderInv
    <3> HIDE DEF n
    <3> QED BY <2>3, <3>1, UpToConcat
  <2>6. UpTo(ring, Taken)
    BY <2>1, <2>2 DEF OrderInv
  <2> HIDE DEF front
  <2>7. held = front \o ring
    BY DEF front
  <2>8. /\ held \in Seq(Sound) /\ Len(held) = Len(front) + Len(ring)
    BY <2>3, <2>4, <2>7, ConcatProperties
  <2>9. UpTo(held, Taken)
    BY <2>3, <2>4, <2>5, <2>6, <2>7, UpToConcat
  <2> HIDE DEF held
  <2>10. Consecutive(held)
    BY <2>3, <2>8, <2>9, UpToConsecutive
  <2>11. Len(held) = Taken
    BY <2>2, <2>3, <2>4, <2>8
  <2>12. held # <<>> => held[1] = 1
    <3>1. held # <<>> => Len(held) \in Nat \ {0}
      BY <2>8, EmptySeq, LenProperties
    <3> QED BY <2>3, <2>9, <2>11, <3>1 DEF UpTo
  <2>13. Taken + (IF dr = Empty THEN 0 ELSE 1) = sent
    BY <2>1, <2>3 DEF RegisterInv, Taken
  <2> QED BY <2>10, <2>11, <2>12, <2>13
<1> QED BY <1>1, <1>2, RxInductive, PTL DEF ParserSeesNoHole

-----------------------------------------------------------------------------
(***************************************************************************)
(* Transmit.  The bytes of the admitted responses are, in order, on the    *)
(* line, in the shift register, in the data register, in the ring and in   *)
(* the response being published; a byte in the shift register was put      *)
(* there at the rate that still holds.                                     *)
(***************************************************************************)

Rate == Baud \cup {DefaultBaud}
Publishing == IF txPc = "publish" THEN Len(resp) ELSE 0

\* The sequence s is what was admitted after the first k bytes.
Here(s, k) == \A i \in 1 .. Len(s) : s[i] = admitted[k + i]

TxTypes ==
    /\ txPc \in {"run", "publish", "enable", "flush"}
    /\ admitted \in Seq(Nat) /\ resp \in Seq(Nat) /\ txRing \in Seq(Nat)
    /\ txDr \in Seq(Nat) /\ shift \in Seq([byte : Nat, baud : Rate])
    /\ line \in Seq([byte : Nat, from : Rate, to : Rate])
    /\ offered \in Nat /\ baud \in Rate /\ pending \in Rate
    /\ txeOn \in BOOLEAN /\ empty \in BOOLEAN

RoomInv ==
    /\ Len(txRing) + Publishing < TxRingBytes
    /\ Len(txDr) <= 1 /\ Len(shift) <= 1

PlacesInv ==
    /\ Len(admitted) = Len(line) + Len(shift) + Len(txDr) + Len(txRing) + Publishing
    /\ \A i \in 1 .. Len(line) : line[i].byte = admitted[i]
    /\ \A i \in 1 .. Len(shift) : shift[i].byte = admitted[Len(line) + i]
    /\ Here(txDr, Len(line) + Len(shift))
    /\ Here(txRing, Len(line) + Len(shift) + Len(txDr))
    /\ txPc = "publish" => Here(resp, Len(line) + Len(shift) + Len(txDr) + Len(txRing))

RateInv ==
    /\ \A i \in 1 .. Len(shift) : shift[i].baud = baud
    /\ \A i \in 1 .. Len(line) : line[i].from = line[i].to

TxInv == TxTypes /\ RoomInv /\ PlacesInv /\ RateInv

LEMMA TxLens ==
    ASSUME TxTypes
    PROVE  /\ Len(admitted) \in Nat /\ Len(resp) \in Nat /\ Len(txRing) \in Nat
           /\ Len(txDr) \in Nat /\ Len(shift) \in Nat /\ Len(line) \in Nat
           /\ Publishing \in Nat
BY LenProperties DEF TxTypes, Publishing

LEMMA Single ==
    ASSUME NEW S, NEW s \in Seq(S), s # <<>>, Len(s) <= 1
    PROVE  Len(s) = 1
<1>1. Len(s) \in Nat /\ Len(s) # 0
  BY LenProperties, EmptySeq
<1> QED BY <1>1

LEMMA TxInit == Tx!Init => TxInv
<1> SUFFICES ASSUME Tx!Init PROVE TxInv
  OBVIOUS
<1>1. /\ txPc = "run" /\ resp = <<>> /\ pending = DefaultBaud /\ empty = FALSE
      /\ txRing = <<>> /\ txeOn = FALSE /\ txDr = <<>> /\ shift = <<>>
      /\ baud = DefaultBaud /\ offered = 0 /\ admitted = <<>> /\ line = <<>>
  BY DEF Tx!Init, Tx!NoBaud
<1>2. Len(<<>>) = 0 /\ Publishing = 0
  BY <1>1, EmptySeq DEF Publishing
<1>3. TxTypes
  BY <1>1, EmptySeq DEF TxTypes, Rate
<1>4. RoomInv
  BY <1>1, <1>2, TxAssumption DEF RoomInv
<1>5. PlacesInv /\ RateInv
  BY <1>1, <1>2 DEF PlacesInv, RateInv, Here
<1> QED BY <1>3, <1>4, <1>5 DEF TxInv

\* A response that fits is admitted behind all others.
LEMMA WriteKeeps ==
    ASSUME TxInv, NEW n \in ResponseSizes, Tx!WriteStart(n)
    PROVE  TxInv'
<1>1. TxTypes /\ RoomInv /\ PlacesInv /\ RateInv
  BY DEF TxInv
<1>2. /\ txPc = "run" /\ offered' = offered + n
      /\ UNCHANGED <<pending, empty, txRing, txeOn, txDr, shift, baud, line>>
  BY DEF Tx!WriteStart, Tx!usart
<1>3. n \in Nat /\ offered \in Nat /\ Publishing = 0
  BY <1>1, <1>2, TxAssumption DEF TxTypes, Publishing
<1>4. CASE n > TxRingBytes - 1 - Len(txRing)
  <2>1. UNCHANGED <<txPc, resp, admitted>>
    BY <1>4 DEF Tx!WriteStart, Tx!Room
  <2>2. TxTypes' /\ RoomInv'
    BY <1>1, <1>2, <1>3, <2>1 DEF TxTypes, RoomInv, Publishing
  <2>3. PlacesInv' /\ RateInv'
    BY <1>1, <1>2, <2>1 DEF PlacesInv, RateInv, Here, Publishing
  <2> QED BY <2>2, <2>3 DEF TxInv
<1>5. CASE ~(n > TxRingBytes - 1 - Len(txRing))
  <2>1. /\ txPc' = "publish" /\ resp' = [i \in 1 .. n |-> offered + i]
        /\ admitted' = admitted \o resp'
    BY <1>5 DEF Tx!WriteStart, Tx!Room
  <2>2. resp' \in Seq(Nat) /\ Len(resp') = n
    BY <1>3, <2>1, IsASeq
  <2>3. /\ admitted' \in Seq(Nat) /\ Len(admitted') = Len(admitted) + n
        /\ \A i \in 1 .. Len(admitted) + n : admitted'[i] =
              IF i <= Len(admitted) THEN admitted[i] ELSE resp'[i - Len(admitted)]
    <3> DEFINE more == resp'
    <3>1. admitted \in Seq(Nat) /\ more \in Seq(Nat) /\ admitted' = admitted \o more
          /\ Len(more) = n
      BY <1>1, <2>1, <2>2 DEF TxTypes
    <3> HIDE DEF more
    <3>2. /\ admitted \o more \in Seq(Nat) /\ Len(admitted \o more) = Len(admitted) + Len(more)
          /\ \A i \in 1 .. Len(admitted) + Len(more) : (admitted \o more)[i] =
                IF i <= Len(admitted) THEN admitted[i] ELSE more[i - Len(admitted)]
      BY <3>1, ConcatProperties
    <3> QED BY <3>1, <3>2 DEF more
  <2>4. /\ Len(admitted) \in Nat /\ Len(txRing) \in Nat /\ Len(txDr) \in Nat
        /\ Len(shift) \in Nat /\ Len(line) \in Nat
    BY <1>1, TxLens
  <2>5. Len(admitted) = Len(line) + Len(shift) + Len(txDr) + Len(txRing)
    BY <1>1, <1>3, <2>4 DEF PlacesInv
  <2>6. TxTypes'
    BY <1>1, <1>2, <1>3, <2>1, <2>2, <2>3 DEF TxTypes
  <2>7. RoomInv'
    BY <1>1, <1>2, <1>3, <1>5, <2>1, <2>2, <2>4, TxAssumption DEF RoomInv, Publishing
  <2>8. \A i \in 1 .. Len(admitted) : admitted'[i] = admitted[i]
    BY <1>3, <2>3, <2>4
  <2>9. /\ \A i \in 1 .. Len(line) : i \in 1 .. Len(admitted)
        /\ \A i \in 1 .. Len(shift) : Len(line) + i \in 1 .. Len(admitted)
        /\ \A i \in 1 .. Len(txDr) : Len(line) + Len(shift) + i \in 1 .. Len(admitted)
        /\ \A i \in 1 .. Len(txRing) :
              Len(line) + Len(shift) + Len(txDr) + i \in 1 .. Len(admitted)
    BY <2>4, <2>5
  <2>10. \A i \in 1 .. n : admitted'[Len(admitted) + i] = resp'[i]
    <3> SUFFICES ASSUME NEW i \in 1 .. n
                 PROVE  admitted'[Len(admitted) + i] = resp'[i]
      OBVIOUS
    <3>1. /\ Len(admitted) + i \in 1 .. Len(admitted) + n /\ ~(Len(admitted) + i <= Len(admitted))
          /\ Len(admitted) + i - Len(admitted) = i
      BY <1>3, <2>4
    <3> QED BY <2>3, <3>1
  <2>11. PlacesInv'
    <3>1. Len(admitted') = Len(line') + Len(shift') + Len(txDr') + Len(txRing') + Publishing'
      BY <1>2, <2>1, <2>2, <2>3, <2>5 DEF Publishing
    <3>2. \A i \in 1 .. Len(line') : line'[i].byte = admitted'[i]
      BY <1>1, <1>2, <2>8, <2>9 DEF PlacesInv
    <3>3. \A i \in 1 .. Len(shift') : shift'[i].byte = admitted'[Len(line') + i]
      BY <1>1, <1>2, <2>8, <2>9 DEF PlacesInv
    <3>4. Here(txDr, Len(line) + Len(shift))'
      BY <1>1, <1>2, <2>8, <2>9 DEF PlacesInv, Here
    <3>5. Here(txRing, Len(line) + Len(shift) + Len(txDr))'
      BY <1>1, <1>2, <2>8, <2>9 DEF PlacesInv, Here
    <3>6. Here(resp, Len(line) + Len(shift) + Len(txDr) + Len(txRing))'
      BY <1>2, <2>2, <2>5, <2>10 DEF Here
    <3> QED BY <3>1, <3>2, <3>3, <3>4, <3>5, <3>6 DEF PlacesInv
  <2>12. RateInv'
    BY <1>1, <1>2 DEF RateInv
  <2> QED BY <2>6, <2>7, <2>11, <2>12 DEF TxInv
<1>6. TxRingBytes - 1 - Len(txRing) \in Int
  BY <1>1, TxLens, TxAssumption
<1> QED BY <1>3, <1>4, <1>5, <1>6

\* The ring takes it: it never overruns.
LEMMA PublishKeeps == ASSUME TxInv, Tx!PublishHead PROVE TxInv'
<1>1. TxTypes /\ RoomInv /\ PlacesInv /\ RateInv
  BY DEF TxInv
<1>2. /\ txPc = "publish" /\ txPc' = "enable" /\ txRing' = Tx!Visible(txRing \o resp)
      /\ UNCHANGED <<resp, pending, empty, txeOn, txDr, shift, baud, offered, admitted,
                     line>>
  BY DEF Tx!PublishHead, Tx!usart
<1>3. /\ txRing \o resp \in Seq(Nat) /\ Len(txRing \o resp) = Len(txRing) + Len(resp)
      /\ \A i \in 1 .. Len(txRing) + Len(resp) : (txRing \o resp)[i] =
            IF i <= Len(txRing) THEN txRing[i] ELSE resp[i - Len(txRing)]
  BY <1>1, ConcatProperties DEF TxTypes
<1>4. /\ Len(txRing) \in Nat /\ Len(resp) \in Nat /\ Len(txDr) \in Nat
      /\ Len(shift) \in Nat /\ Len(line) \in Nat
      /\ Publishing = Len(resp) /\ Publishing' = 0
  BY <1>1, <1>2, TxLens DEF Publishing
<1>5. txRing' = txRing \o resp
  BY <1>1, <1>2, <1>3, <1>4 DEF RoomInv, Tx!Visible
<1>6. TxTypes' /\ RoomInv'
  BY <1>1, <1>2, <1>3, <1>4, <1>5 DEF TxTypes, RoomInv
<1>7. Here(txRing', Len(line) + Len(shift) + Len(txDr))
  <2> DEFINE k == Len(line) + Len(shift) + Len(txDr)
  <2>1. /\ \A i \in 1 .. Len(txRing) : txRing[i] = admitted[k + i]
        /\ \A i \in 1 .. Len(resp) : resp[i] = admitted[k + Len(txRing) + i]
    BY <1>1, <1>2 DEF PlacesInv, Here
  <2>2. k \in Nat
    BY <1>4
  <2> HIDE DEF k
  <2> SUFFICES ASSUME NEW i \in 1 .. Len(txRing) + Len(resp)
               PROVE  txRing'[i] = admitted[k + i]
    BY <1>3, <1>5 DEF Here, k
  <2>3. CASE i <= Len(txRing)
    BY <1>3, <1>4, <1>5, <2>1, <2>3
  <2>4. CASE i > Len(txRing)
    <3>1. i - Len(txRing) \in 1 .. Len(resp) /\ k + Len(txRing) + (i - Len(txRing)) = k + i
      BY <1>4, <2>2, <2>4
    <3>2. resp[i - Len(txRing)] = admitted[k + Len(txRing) + (i - Len(txRing))]
      BY <2>1, <3>1
    <3> QED BY <1>3, <1>4, <1>5, <2>4, <3>1, <3>2
  <2> QED BY <1>4, <2>3, <2>4
<1>8. PlacesInv' /\ RateInv'
  BY <1>1, <1>2, <1>3, <1>4, <1>5, <1>7 DEF PlacesInv, RateInv, Here
<1> QED BY <1>6, <1>8 DEF TxInv

\* What the foreground does beside writing: of the bytes, nothing moves.  A rate is
\* changed with no byte in either register.
LEMMA FlushKeeps ==
    ASSUME TxInv, \/ Tx!EnableTxe \/ Tx!Flush \/ \E b \in Baud : Tx!SetBaud(b)
    PROVE  TxInv'
<1>1. TxTypes /\ RoomInv /\ PlacesInv /\ RateInv
  BY DEF TxInv
<1>2. /\ txPc # "publish" /\ txPc' \in {"run", "flush"}
      /\ resp' \in {resp, <<>>}
      /\ UNCHANGED <<txRing, txDr, shift, offered, admitted, line>>
  BY DEF Tx!EnableTxe, Tx!Flush, Tx!FlushStart, Tx!FlushEnd, Tx!SetBaud, Tx!usart
<1>3. /\ pending' \in Rate /\ baud' \in Rate
      /\ baud' # baud => shift = <<>>
      /\ txeOn' \in BOOLEAN /\ empty' \in BOOLEAN
  <2>1. CASE Tx!EnableTxe
    BY <1>1, <2>1 DEF Tx!EnableTxe, Tx!usart, TxTypes
  <2>2. CASE Tx!FlushStart
    BY <1>1, <2>2 DEF Tx!FlushStart, Tx!usart, TxTypes
  <2>3. CASE Tx!FlushEnd
    <3>1. /\ txeOn' = (txeOn \/ ~empty) /\ empty' = empty
          /\ \/ baud' = pending /\ pending' = DefaultBaud /\ shift = <<>>
             \/ baud' = baud /\ pending' = pending
      BY <2>3 DEF Tx!FlushEnd, Tx!TransmissionComplete, Tx!NoBaud
    <3> QED BY <1>1, <3>1 DEF TxTypes, Rate
  <2>4. ASSUME NEW b \in Baud, Tx!SetBaud(b)
        PROVE  /\ pending' \in Rate /\ baud' = baud
               /\ txeOn' \in BOOLEAN /\ empty' \in BOOLEAN
    BY <1>1, <2>4 DEF Tx!SetBaud, Tx!usart, TxTypes, Rate
  <2> QED BY <1>1, <2>1, <2>2, <2>3, <2>4 DEF Tx!Flush, TxTypes
<1>4. Publishing = 0 /\ Publishing' = 0
  BY <1>2 DEF Publishing
<1>5. TxTypes'
  <2>1. resp' \in Seq(Nat)
    BY <1>1, <1>2, EmptySeq DEF TxTypes
  <2> QED BY <1>1, <1>2, <1>3, <2>1 DEF TxTypes
<1>6. RoomInv' /\ PlacesInv'
  BY <1>1, <1>2, <1>4 DEF RoomInv, PlacesInv, Here
<1>7. RateInv'
  <2>1. CASE baud' = baud
    BY <1>1, <1>2, <2>1 DEF RateInv
  <2>2. CASE baud' # baud
    <3>1. shift' = <<>> /\ Len(<<>>) = 0
      BY <1>2, <1>3, <2>2, EmptySeq
    <3> QED BY <1>1, <1>2, <3>1 DEF RateInv
  <2> QED BY <2>1, <2>2
<1> QED BY <1>5, <1>6, <1>7 DEF TxInv

LEMMA TxInterruptKeeps == ASSUME TxInv, Tx!TxInterrupt PROVE TxInv'
<1>1. TxTypes /\ RoomInv /\ PlacesInv /\ RateInv
  BY DEF TxInv
<1>2. /\ txDr = <<>> /\ Len(<<>>) = 0
      /\ UNCHANGED <<txPc, resp, pending, empty, shift, baud, offered, admitted, line>>
  BY EmptySeq DEF Tx!TxInterrupt, Tx!fore
<1>3. /\ Len(txRing) \in Nat /\ Len(shift) \in Nat /\ Len(line) \in Nat
      /\ Publishing \in Nat /\ Publishing' = Publishing
  BY <1>1, <1>2, TxLens DEF Publishing
<1>4. CASE txRing # <<>>
  <2>1. txDr' = <<Head(txRing)>> /\ txRing' = Tail(txRing) /\ txeOn' = txeOn
    BY <1>4 DEF Tx!TxInterrupt
  <2>2. txRing \in Seq(Nat)
    BY <1>1 DEF TxTypes
  <2>3. /\ Head(txRing) \in Nat /\ txRing' \in Seq(Nat) /\ Len(txRing') = Len(txRing) - 1
        /\ \A i \in 1 .. Len(txRing') : txRing'[i] = txRing[i + 1]
        /\ Head(txRing) = txRing[1] /\ Len(txRing) \in Nat \ {0}
    BY <1>4, <2>1, <2>2, HeadTailProperties, EmptySeq, LenProperties
  <2>4. txDr' \in Seq(Nat) /\ Len(txDr') = 1 /\ txDr'[1] = txRing[1]
    BY <2>1, <2>3
  <2>5. TxTypes'
    BY <1>1, <1>2, <2>1, <2>3, <2>4 DEF TxTypes
  <2>6. RoomInv'
    BY <1>1, <1>2, <1>3, <2>3, <2>4, TxAssumption DEF RoomInv
  <2> DEFINE k == Len(line) + Len(shift)
  <2>7. k \in Nat /\ \A i \in 1 .. Len(txRing) : txRing[i] = admitted[k + i]
    <3>1. k \in Nat /\ k + Len(txDr) = k
      BY <1>2, <1>3
    <3> QED BY <1>1, <3>1 DEF PlacesInv, Here
  <2> HIDE DEF k
  <2>8. txDr'[1] = admitted[k + 1]
    BY <2>3, <2>4, <2>7
  <2>9. \A i \in 1 .. Len(txRing') : txRing'[i] = admitted[k + 1 + i]
    <3> SUFFICES ASSUME NEW i \in 1 .. Len(txRing') PROVE txRing'[i] = admitted[k + 1 + i]
      OBVIOUS
    <3>1. i + 1 \in 1 .. Len(txRing) /\ k + (i + 1) = k + 1 + i
      BY <2>3, <2>7
    <3> QED BY <2>3, <2>7, <3>1
  <2>10. PlacesInv'
    <3>1. Len(admitted') = Len(line') + Len(shift') + Len(txDr') + Len(txRing') + Publishing'
      <4>1. Len(txDr') + Len(txRing') = Len(txDr) + Len(txRing)
        BY <1>2, <1>3, <2>3, <2>4
      <4>2. Len(admitted) = Len(line) + Len(shift) + Len(txDr) + Len(txRing) + Publishing
        BY <1>1 DEF PlacesInv
      <4>3. /\ Len(txRing') \in Nat /\ Len(txDr') \in Nat /\ Len(txDr) \in Nat
            /\ UNCHANGED <<line, shift, admitted>>
        BY <1>2, <1>3, <2>3, <2>4
      <4> QED BY <1>3, <4>1, <4>2, <4>3
    <3>2. /\ \A i \in 1 .. Len(line') : line'[i].byte = admitted'[i]
          /\ \A i \in 1 .. Len(shift') : shift'[i].byte = admitted'[Len(line') + i]
      BY <1>1, <1>2 DEF PlacesInv
    <3>3. Here(txDr, Len(line) + Len(shift))'
      BY <1>2, <2>4, <2>8 DEF Here, k
    <3>4. Here(txRing, Len(line) + Len(shift) + Len(txDr))'
      BY <1>2, <2>4, <2>9 DEF Here, k
    <3>5. Len(line') + Len(shift') + Len(txDr') + Len(txRing')
            = Len(line) + Len(shift) + Len(txDr) + Len(txRing)
      BY <1>2, <1>3, <2>3, <2>4
    <3>6. txPc' = "publish" =>
            Here(resp, Len(line) + Len(shift) + Len(txDr) + Len(txRing))'
      BY <1>1, <1>2, <3>5 DEF PlacesInv, Here
    <3> QED BY <3>1, <3>2, <3>3, <3>4, <3>6 DEF PlacesInv
  <2>11. RateInv'
    BY <1>1, <1>2 DEF RateInv
  <2> QED BY <2>5, <2>6, <2>10, <2>11 DEF TxInv
<1>5. CASE txRing = <<>>
  <2>1. txeOn' = FALSE /\ UNCHANGED <<txDr, txRing>>
    BY <1>5 DEF Tx!TxInterrupt
  <2>2. TxTypes' /\ RoomInv'
    BY <1>1, <1>2, <1>3, <2>1 DEF TxTypes, RoomInv
  <2>3. PlacesInv' /\ RateInv'
    BY <1>1, <1>2, <1>3, <2>1 DEF PlacesInv, RateInv, Here
  <2> QED BY <2>2, <2>3 DEF TxInv
<1> QED BY <1>4, <1>5

LEMMA ShiftKeeps == ASSUME TxInv, Tx!Shift PROVE TxInv'
<1>1. TxTypes /\ RoomInv /\ PlacesInv /\ RateInv
  BY DEF TxInv
<1>2. /\ shift = <<>> /\ txDr # <<>> /\ txDr' = <<>> /\ Len(<<>>) = 0
      /\ shift' = <<[byte |-> txDr[1], baud |-> baud]>>
      /\ UNCHANGED <<txPc, resp, pending, empty, txRing, txeOn, baud, offered, admitted,
                     line>>
  BY EmptySeq DEF Tx!Shift, Tx!fore
<1>3. /\ Len(txRing) \in Nat /\ Len(line) \in Nat
      /\ Publishing \in Nat /\ Publishing' = Publishing
  BY <1>1, <1>2, TxLens DEF Publishing
<1>4. Len(txDr) = 1 /\ txDr[1] \in Nat
  <2>1. txDr \in Seq(Nat) /\ Len(txDr) <= 1
    BY <1>1 DEF TxTypes, RoomInv
  <2>2. Len(txDr) = 1
    BY <1>2, <2>1, Single
  <2>3. txDr[1] \in Nat
    <3>1. 1 \in 1 .. Len(txDr)
      BY <2>2
    <3> QED BY <2>1, <3>1, ElementOfSeq
  <2> QED BY <2>2, <2>3
<1>5. /\ Len(shift') = 1 /\ shift'[1].byte = txDr[1] /\ shift'[1].baud = baud
      /\ shift' \in Seq([byte : Nat, baud : Rate])
  <2>1. [byte |-> txDr[1], baud |-> baud] \in [byte : Nat, baud : Rate]
    BY <1>1, <1>4 DEF TxTypes
  <2> QED BY <1>2, <2>1
<1>6. TxTypes'
  BY <1>1, <1>2, <1>5, EmptySeq DEF TxTypes
<1>7. RoomInv'
  BY <1>1, <1>2, <1>3, <1>5 DEF RoomInv
<1>8. /\ Len(line') + Len(shift') = Len(line) + Len(shift) + Len(txDr)
      /\ Len(line') + Len(shift') + Len(txDr') = Len(line) + Len(shift) + Len(txDr)
      /\ Len(line) + Len(shift) = Len(line)
  BY <1>2, <1>3, <1>4, <1>5
<1>9. PlacesInv'
  <2>1. /\ Len(admitted') = Len(line') + Len(shift') + Len(txDr') + Len(txRing') + Publishing'
        /\ \A i \in 1 .. Len(line') : line'[i].byte = admitted'[i]
    BY <1>1, <1>2, <1>3, <1>8 DEF PlacesInv
  <2>2. \A i \in 1 .. Len(shift') : shift'[i].byte = admitted'[Len(line') + i]
    <3>1. txDr[1] = admitted[Len(line) + 1]
      BY <1>1, <1>4, <1>8 DEF PlacesInv, Here
    <3>2. shift'[1].byte = admitted'[Len(line') + 1]
      BY <1>2, <1>5, <3>1
    <3> QED BY <1>5, <3>2
  <2>3. Here(txDr, Len(line) + Len(shift))'
    <3>1. Len(txDr') = 0 /\ 1 .. 0 = {}
      BY <1>2
    <3> QED BY <3>1 DEF Here
  <2>4. /\ Len(line') + Len(shift') + Len(txDr') = Len(line) + Len(shift) + Len(txDr)
        /\ txRing' = txRing /\ resp' = resp /\ admitted' = admitted /\ txPc' = txPc
    BY <1>2, <1>8
  <2>5. Here(txRing, Len(line) + Len(shift) + Len(txDr))'
    <3>1. Here(txRing, Len(line) + Len(shift) + Len(txDr))
      BY <1>1 DEF PlacesInv
    <3> QED BY <2>4, <3>1 DEF Here
  <2>6. txPc' = "publish" => Here(resp, Len(line) + Len(shift) + Len(txDr) + Len(txRing))'
    <3>1. txPc = "publish" => Here(resp, Len(line) + Len(shift) + Len(txDr) + Len(txRing))
      BY <1>1 DEF PlacesInv
    <3> QED BY <2>4, <3>1 DEF Here
  <2> QED BY <2>1, <2>2, <2>3, <2>5, <2>6 DEF PlacesInv
<1>10. RateInv'
  BY <1>1, <1>2, <1>5 DEF RateInv
<1> QED BY <1>6, <1>7, <1>9, <1>10 DEF TxInv

LEMMA StopBitKeeps == ASSUME TxInv, Tx!StopBit PROVE TxInv'
<1>1. TxTypes /\ RoomInv /\ PlacesInv /\ RateInv
  BY DEF TxInv
<1> DEFINE last == [byte |-> shift[1].byte, from |-> shift[1].baud, to |-> baud]
<1>2. /\ shift # <<>> /\ shift' = <<>> /\ Len(<<>>) = 0
      /\ line' = Append(line, last)
      /\ UNCHANGED <<txPc, resp, pending, empty, txRing, txeOn, txDr, baud, offered, admitted>>
  BY EmptySeq DEF Tx!StopBit, Tx!fore
<1>3. /\ Len(txRing) \in Nat /\ Len(txDr) \in Nat /\ Len(line) \in Nat
      /\ Publishing \in Nat /\ Publishing' = Publishing
  BY <1>1, <1>2, TxLens DEF Publishing
<1>4. Len(shift) = 1 /\ shift[1] \in [byte : Nat, baud : Rate]
  <2>1. shift \in Seq([byte : Nat, baud : Rate]) /\ Len(shift) <= 1
    BY <1>1 DEF TxTypes, RoomInv
  <2>2. Len(shift) = 1
    BY <1>2, <2>1, Single
  <2>3. shift[1] \in [byte : Nat, baud : Rate]
    <3>1. 1 \in 1 .. Len(shift)
      BY <2>2
    <3> QED BY <2>1, <3>1, ElementOfSeq
  <2> QED BY <2>2, <2>3
<1>5. /\ last \in [byte : Nat, from : Rate, to : Rate]
      /\ last.byte = admitted[Len(line) + 1] /\ last.from = last.to
  BY <1>1, <1>4 DEF TxTypes, PlacesInv, RateInv
<1> HIDE DEF last
<1>6. /\ line' \in Seq([byte : Nat, from : Rate, to : Rate])
      /\ Len(line') = Len(line) + 1 /\ line'[Len(line) + 1] = last
      /\ \A i \in 1 .. Len(line) : line'[i] = line[i]
  BY <1>1, <1>2, <1>5, AppendProperties DEF TxTypes
<1>7. \A i \in 1 .. Len(line') : i \in 1 .. Len(line) \/ i = Len(line) + 1
  BY <1>3, <1>6
<1>8. TxTypes'
  BY <1>1, <1>2, <1>6, EmptySeq DEF TxTypes
<1>9. RoomInv'
  BY <1>1, <1>2, <1>3 DEF RoomInv
<1>10. /\ Len(line') + Len(shift') = Len(line) + Len(shift)
       /\ Len(line') + Len(shift') + Len(txDr') = Len(line) + Len(shift) + Len(txDr)
  BY <1>2, <1>3, <1>4, <1>6
<1>11. PlacesInv'
  <2>1. Len(admitted') = Len(line') + Len(shift') + Len(txDr') + Len(txRing') + Publishing'
    BY <1>1, <1>2, <1>3, <1>10 DEF PlacesInv
  <2>2. \A i \in 1 .. Len(line') : line'[i].byte = admitted'[i]
    BY <1>1, <1>2, <1>5, <1>6, <1>7 DEF PlacesInv
  <2>3. \A i \in 1 .. Len(shift') : shift'[i].byte = admitted'[Len(line') + i]
    BY <1>2
  <2>4. Here(txDr, Len(line) + Len(shift))'
    BY <1>1, <1>2, <1>10 DEF PlacesInv, Here
  <2>5. Here(txRing, Len(line) + Len(shift) + Len(txDr))'
    BY <1>1, <1>2, <1>10 DEF PlacesInv, Here
  <2>6. txPc' = "publish" => Here(resp, Len(line) + Len(shift) + Len(txDr) + Len(txRing))'
    BY <1>1, <1>2, <1>10 DEF PlacesInv, Here
  <2> QED BY <2>1, <2>2, <2>3, <2>4, <2>5, <2>6 DEF PlacesInv
<1>12. RateInv'
  BY <1>1, <1>2, <1>5, <1>6, <1>7 DEF RateInv
<1> QED BY <1>8, <1>9, <1>11, <1>12 DEF TxInv

LEMMA TxKeeps == ASSUME TxInv, Tx!Next \/ UNCHANGED txvars PROVE TxInv'
<1>1. CASE UNCHANGED txvars
  BY <1>1 DEF txvars, TxInv, TxTypes, RoomInv, PlacesInv, RateInv, Here, Publishing
<1> QED BY <1>1, WriteKeeps, PublishKeeps, FlushKeeps, TxInterruptKeeps, ShiftKeeps,
           StopBitKeeps DEF Tx!Next

\* The inductive invariant of the transmit half (uart.c:166-202, 242-249).
THEOREM TxInductive == MCSpec => []TxInv
<1>1. MCInit => TxInv
  BY TxInit DEF MCInit
<1>2. TxInv /\ [MCNext]_all => TxInv'
  BY TxKeeps DEF MCNext, InRx, InTx, InEp0, all
<1> QED BY <1>1, <1>2, PTL DEF MCSpec

\* Admitted responses leave whole and in order, and no byte is cut by a change of rate:
\* for any ring, responses and rates (uart.c:166-202, 242-249).
THEOREM LeaveWhole == MCSpec => []ResponsesLeaveWhole
<1>1. ASSUME TxInv PROVE ResponsesLeaveWhole
  <2>1. TxTypes /\ PlacesInv /\ RateInv
    BY <1>1 DEF TxInv
  <2>2. Len(line) <= Len(admitted)
    BY <2>1, TxLens DEF PlacesInv
  <2>3. DOMAIN line = 1 .. Len(line)
    BY <2>1, LenProperties DEF TxTypes
  <2> QED BY <2>1, <2>2, <2>3
          DEF PlacesInv, RateInv, ResponsesLeaveWhole, Tx!WholeResponses, Tx!NoByteCutByBaud
<1> QED BY <1>1, TxInductive, PTL
-----------------------------------------------------------------------------
(***************************************************************************)
(* Endpoint 0, on either controller.  What the PC has read is the first    *)
(* part of the descriptor, up to the packet that is armed or behind it, by *)
(* the toggles; the packets of a SET_REPORT the driver has counted are no  *)
(* more than the PC has written, and when they are as many they are all    *)
(* there.                                                                  *)
(***************************************************************************)

Octet == {"short", "even", "config", "byte"} \X Nat

LEMMA AskedRequests ==
    ASSUME NEW r \in Asked
    PROVE  /\ r.kind \in {"get", "set", "address", "plain", "bad"} /\ r.len \in Nat
           /\ r.kind \in {"get", "set"} =>
                /\ Sizes[r.item] \in Nat \ {0}
                /\ r.item \in {"short", "even", "config", "byte"}
           /\ r.kind = "set" => r.len = Sizes[r.item]
<1>1. /\ Sizes["short"] = 3 /\ Sizes["even"] = 4 /\ Sizes["config"] = 5 /\ Sizes["byte"] = 1
  BY DEF Sizes
<1> QED BY <1>1 DEF Asked, Ask

LEMMA WholeDescriptor ==
    ASSUME NEW item \in {"short", "even", "config", "byte"}, Sizes[item] \in Nat
    PROVE  Fs!Bytes(item) \in Seq(Octet) /\ Len(Fs!Bytes(item)) = Sizes[item]
BY DEF Fs!Bytes, Octet

LEMMA FirstOfProperties ==
    ASSUME NEW S, NEW s \in Seq(S), NEW n \in Nat
    PROVE  /\ Fs!FirstOf(n, s) \in Seq(S) /\ Len(Fs!FirstOf(n, s)) = Fs!Min2(n, Len(s))
           /\ \A i \in 1 .. Fs!Min2(n, Len(s)) : Fs!FirstOf(n, s)[i] = s[i]
<1> DEFINE m == Fs!Min2(n, Len(s))
<1>1. m \in Nat /\ m <= Len(s) /\ Len(s) \in Nat
  BY LenProperties DEF Fs!Min2
<1>2. Fs!FirstOf(n, s) = SubSeq(s, 1, m)
  BY DEF Fs!FirstOf
<1> HIDE DEF m
<1>3. \A i \in 1 .. m : s[i] \in S
  BY <1>1, ElementOfSeq
<1>4. 1 \in Int /\ m \in Int /\ m - 1 + 1 = m /\ (1 <= m \/ m = 0)
  BY <1>1
<1>5. /\ SubSeq(s, 1, m) \in Seq(S)
      /\ Len(SubSeq(s, 1, m)) = IF 1 <= m THEN m - 1 + 1 ELSE 0
      /\ \A i \in 1 .. m - 1 + 1 : SubSeq(s, 1, m)[i] = s[1 + i - 1]
  BY <1>3, <1>4, SubSeqProperties
<1>6. Len(SubSeq(s, 1, m)) = m
  BY <1>4, <1>5
<1>7. \A i \in 1 .. m : SubSeq(s, 1, m)[i] = s[i]
  <2>1. \A i \in 1 .. m : 1 + i - 1 = i
    BY <1>1
  <2> QED BY <1>4, <1>5, <2>1
<1> QED BY <1>2, <1>5, <1>6, <1>7 DEF m

\* A part of a sequence
LEMMA PartProperties ==
    ASSUME NEW S, NEW s \in Seq(S), NEW a \in Nat, NEW b \in Nat, a <= b, b <= Len(s)
    PROVE  /\ SubSeq(s, a + 1, b) \in Seq(S) /\ Len(SubSeq(s, a + 1, b)) = b - a
           /\ \A i \in 1 .. b - a : SubSeq(s, a + 1, b)[i] = s[a + i]
<1>1. \A i \in a + 1 .. b : s[i] \in S
  <2>1. \A i \in a + 1 .. b : i \in 1 .. Len(s)
    BY LenProperties
  <2> QED BY <2>1, ElementOfSeq
<1>2. a + 1 \in Int /\ b \in Int /\ b - (a + 1) + 1 = b - a /\ (a + 1 <= b \/ b - a = 0)
  OBVIOUS
<1>3. /\ SubSeq(s, a + 1, b) \in Seq(S)
      /\ Len(SubSeq(s, a + 1, b)) = IF a + 1 <= b THEN b - (a + 1) + 1 ELSE 0
      /\ \A i \in 1 .. b - (a + 1) + 1 : SubSeq(s, a + 1, b)[i] = s[(a + 1) + i - 1]
  BY <1>1, <1>2, SubSeqProperties
<1>4. Len(SubSeq(s, a + 1, b)) = b - a
  BY <1>2, <1>3
<1>5. \A i \in 1 .. b - a : SubSeq(s, a + 1, b)[i] = s[a + i]
  <2>1. \A i \in 1 .. b - a : (a + 1) + i - 1 = a + i
    OBVIOUS
  <2> QED BY <1>2, <1>3, <2>1
<1> QED BY <1>3, <1>4, <1>5

LEMMA BegunGrows ==
    ASSUME NEW S, NEW s \in Seq(S), NEW a \in Nat, NEW b \in Nat, a <= b, b <= Len(s)
    PROVE  Fs!FirstOf(a, s) \o SubSeq(s, a + 1, b) = Fs!FirstOf(b, s)
<1> DEFINE u == Fs!FirstOf(a, s)
           v == SubSeq(s, a + 1, b)
           w == Fs!FirstOf(b, s)
<1>1. Fs!Min2(a, Len(s)) = a /\ Fs!Min2(b, Len(s)) = b
  BY LenProperties DEF Fs!Min2
<1>2. u \in Seq(S) /\ Len(u) = a /\ \A i \in 1 .. a : u[i] = s[i]
  BY <1>1, FirstOfProperties
<1>3. w \in Seq(S) /\ Len(w) = b /\ \A i \in 1 .. b : w[i] = s[i]
  BY <1>1, FirstOfProperties
<1>4. v \in Seq(S) /\ Len(v) = b - a /\ \A i \in 1 .. b - a : v[i] = s[a + i]
  BY PartProperties
<1> HIDE DEF u, v, w
<1>5. /\ u \o v \in Seq(S) /\ Len(u \o v) = Len(u) + Len(v)
      /\ \A i \in 1 .. Len(u) + Len(v) :
            (u \o v)[i] = IF i <= Len(u) THEN u[i] ELSE v[i - Len(u)]
  BY <1>2, <1>4, ConcatProperties
<1>6. Len(u) + Len(v) = b
  BY <1>2, <1>4
<1>7. ASSUME NEW i \in 1 .. b PROVE (u \o v)[i] = w[i]
  <2>1. (u \o v)[i] = IF i <= a THEN u[i] ELSE v[i - a]
    BY <1>2, <1>5, <1>6
  <2>2. CASE i <= a
    BY <1>2, <1>3, <2>1, <2>2
  <2>3. CASE ~(i <= a)
    <3>1. i - a \in 1 .. b - a /\ a + (i - a) = i
      BY <2>3
    <3> QED BY <1>3, <1>4, <2>1, <2>3, <3>1
  <2> QED BY <2>2, <2>3
<1>8. u \o v = w
  BY <1>3, <1>5, <1>6, <1>7, SeqEqual
<1> QED BY <1>8 DEF u, v, w

LEMMA AfterProperties ==
    ASSUME NEW S, NEW s \in Seq(S), NEW k \in Nat, k <= Len(s), NEW n \in Nat
    PROVE  /\ Fs!After(k, s) \in Seq(S) /\ Len(Fs!After(k, s)) = Len(s) - k
           /\ n <= Len(s) - k =>
                /\ Fs!FirstOf(n, Fs!After(k, s)) = SubSeq(s, k + 1, k + n)
                /\ Fs!After(n, Fs!After(k, s)) = Fs!After(k + n, s)
<1> DEFINE t == Fs!After(k, s)
<1>1. Len(s) \in Nat
  BY LenProperties
<1>2. t \in Seq(S) /\ Len(t) = Len(s) - k /\ \A i \in 1 .. Len(s) - k : t[i] = s[k + i]
  BY <1>1, PartProperties DEF Fs!After
<1> HIDE DEF t
<1>3. ASSUME n <= Len(s) - k PROVE Fs!FirstOf(n, t) = SubSeq(s, k + 1, k + n)
  <2>0. /\ Len(t) \in Nat /\ n <= Len(t) /\ k + n \in Nat /\ k <= k + n
        /\ k + n <= Len(s) /\ (k + n) - k = n
    BY <1>1, <1>2, <1>3
  <2>1. Fs!Min2(n, Len(t)) = n
    BY <2>0 DEF Fs!Min2
  <2>2. /\ Fs!FirstOf(n, t) \in Seq(S) /\ Len(Fs!FirstOf(n, t)) = n
        /\ \A i \in 1 .. n : Fs!FirstOf(n, t)[i] = t[i]
    BY <1>2, <2>1, FirstOfProperties
  <2>3. /\ SubSeq(s, k + 1, k + n) \in Seq(S) /\ Len(SubSeq(s, k + 1, k + n)) = n
        /\ \A i \in 1 .. n : SubSeq(s, k + 1, k + n)[i] = s[k + i]
    BY <2>0, PartProperties
  <2>4. \A i \in 1 .. n : i \in 1 .. Len(s) - k
    BY <1>1, <1>3
  <2> QED BY <1>2, <2>2, <2>3, <2>4, SeqEqual
<1>4. ASSUME n <= Len(s) - k PROVE Fs!After(n, t) = Fs!After(k + n, s)
  <2>1. /\ n <= Len(t) /\ Len(t) \in Nat /\ Len(t) - n = Len(s) - (k + n)
        /\ k + n \in Nat /\ k + n <= Len(s)
    BY <1>1, <1>2, <1>4
  <2>2. /\ Fs!After(n, t) \in Seq(S) /\ Len(Fs!After(n, t)) = Len(t) - n
        /\ \A i \in 1 .. Len(t) - n : Fs!After(n, t)[i] = t[n + i]
    BY <1>2, <2>1, PartProperties DEF Fs!After
  <2>3. /\ Fs!After(k + n, s) \in Seq(S) /\ Len(Fs!After(k + n, s)) = Len(s) - (k + n)
        /\ \A i \in 1 .. Len(s) - (k + n) : Fs!After(k + n, s)[i] = s[(k + n) + i]
    BY <1>1, <2>1, PartProperties DEF Fs!After
  <2>4. \A i \in 1 .. Len(t) - n : n + i \in 1 .. Len(s) - k /\ k + (n + i) = (k + n) + i
    BY <1>1, <1>2, <2>1
  <2>5. \A i \in 1 .. Len(t) - n : Fs!After(n, t)[i] = Fs!After(k + n, s)[i]
    BY <1>2, <2>1, <2>2, <2>3, <2>4
  <2> QED BY <2>1, <2>2, <2>3, <2>5, SeqEqual
<1> QED BY <1>2, <1>3, <1>4 DEF t

\* What the capture buffer cannot hold is cut off, packet by packet or at once.
LEMMA CutConcat ==
    ASSUME NEW S, NEW s \in Seq(S), NEW t \in Seq(S), NEW m \in Nat
    PROVE  Fs!FirstOf(m, Fs!FirstOf(m, s) \o t) = Fs!FirstOf(m, s \o t)
<1> DEFINE f == Fs!FirstOf(m, s)
           x == f \o t
           y == s \o t
<1>1. Len(s) \in Nat /\ Len(t) \in Nat
  BY LenProperties
<1>2. f \in Seq(S) /\ Len(f) = Fs!Min2(m, Len(s)) /\ \A i \in 1 .. Len(f) : f[i] = s[i]
  BY FirstOfProperties
<1>3. Len(f) = (IF m < Len(s) THEN m ELSE Len(s)) /\ (Len(s) <= m => f = s)
  <2>1. Len(f) = (IF m < Len(s) THEN m ELSE Len(s))
    BY <1>2 DEF Fs!Min2
  <2>2. Len(s) <= m => Len(f) = Len(s)
    BY <1>1, <2>1
  <2> QED BY <1>2, <2>1, <2>2, SeqEqual
<1> HIDE DEF f
<1>4. CASE Len(s) <= m
  BY <1>3, <1>4 DEF f
<1>5. CASE ~(Len(s) <= m)
  <2>1. Len(f) = m /\ m < Len(s)
    BY <1>1, <1>3, <1>5
  <2>2. /\ x \in Seq(S) /\ Len(x) = m + Len(t) /\ \A i \in 1 .. m : x[i] = f[i]
    <3>1. \A i \in 1 .. m : i \in 1 .. Len(f) + Len(t) /\ i <= Len(f)
      BY <1>1, <2>1
    <3> QED BY <1>2, <2>1, <3>1, ConcatProperties
  <2>3. /\ y \in Seq(S) /\ Len(y) = Len(s) + Len(t) /\ \A i \in 1 .. m : y[i] = s[i]
    <3>1. \A i \in 1 .. m : i \in 1 .. Len(s) + Len(t) /\ i <= Len(s)
      BY <1>1, <2>1
    <3> QED BY <3>1, ConcatProperties
  <2> HIDE DEF x, y
  <2>4. Fs!Min2(m, Len(x)) = m /\ Fs!Min2(m, Len(y)) = m
    BY <1>1, <2>1, <2>2, <2>3 DEF Fs!Min2
  <2>5. /\ Fs!FirstOf(m, x) \in Seq(S) /\ Len(Fs!FirstOf(m, x)) = m
        /\ \A i \in 1 .. m : Fs!FirstOf(m, x)[i] = x[i]
    BY <2>2, <2>4, FirstOfProperties
  <2>6. /\ Fs!FirstOf(m, y) \in Seq(S) /\ Len(Fs!FirstOf(m, y)) = m
        /\ \A i \in 1 .. m : Fs!FirstOf(m, y)[i] = y[i]
    BY <2>3, <2>4, FirstOfProperties
  <2>7. \A i \in 1 .. m : x[i] = y[i]
    BY <1>2, <2>1, <2>2, <2>3
  <2>8. Fs!FirstOf(m, x) = Fs!FirstOf(m, y)
    BY <2>5, <2>6, <2>7, SeqEqual
  <2> QED BY <2>8 DEF x, y, f
<1> QED BY <1>1, <1>4, <1>5

\* The two drivers share the PC and the wire.
LEMMA SameWire ==
    /\ Hs!Pc <=> Fs!Pc
    /\ Hs!Release <=> Fs!Release
    /\ Hs!Reset <=> Fs!Reset
<1>1. \A r \in Asked : (Hs!Begin(r) <=> Fs!Begin(r)) /\ (Hs!TimeOut(r) <=> Fs!TimeOut(r))
  BY DEF Hs!Begin, Fs!Begin, Hs!TimeOut, Fs!TimeOut, Hs!Reached, Fs!Reached, Hs!Naked,
         Fs!Naked, Hs!wire, Fs!wire, Hs!driver, Fs!driver, Hs!capture, Fs!capture
<1>2. \A h \in BOOLEAN : Hs!Setup(h) <=> Fs!Setup(h)
  BY DEF Hs!Setup, Fs!Setup, Hs!Reached, Fs!Reached, Hs!Heard, Fs!Heard, Hs!DataStage,
         Fs!DataStage, Hs!driver, Fs!driver, Hs!capture, Fs!capture
<1>3. \A h \in BOOLEAN : Hs!In(h) <=> Fs!In(h)
  BY DEF Hs!In, Fs!In, Hs!Reached, Fs!Reached, Hs!Heard, Fs!Heard, Hs!driver, Fs!driver,
         Hs!capture, Fs!capture
<1>4. \A h \in BOOLEAN : Hs!Out(h) <=> Fs!Out(h)
  <2>1. \A n : Hs!WritePacket(n) = Fs!WritePacket(n)
    BY DEF Hs!WritePacket, Fs!WritePacket, Hs!FirstOf, Fs!FirstOf, Hs!After, Fs!After,
           Hs!Bytes, Fs!Bytes, Hs!Min2, Fs!Min2
  <2> QED BY <2>1 DEF Hs!Out, Fs!Out, Hs!Reached, Fs!Reached, Hs!Heard, Fs!Heard,
             Hs!driver, Fs!driver, Hs!capture, Fs!capture
<1>5. Hs!Refused <=> Fs!Refused
  BY DEF Hs!Refused, Fs!Refused, Hs!Reached, Fs!Reached, Hs!wire, Fs!wire, Hs!driver,
         Fs!driver, Hs!capture, Fs!capture
<1>6. Hs!Release <=> Fs!Release
  BY DEF Hs!Release, Fs!Release, Hs!pc, Fs!pc, Hs!wire, Fs!wire
<1>7. Hs!Reset <=> Fs!Reset
  BY DEF Hs!Reset, Fs!Reset, Hs!wire, Fs!wire
<1> QED BY <1>1, <1>2, <1>3, <1>4, <1>5, <1>6, <1>7 DEF Hs!Pc, Fs!Pc

\* The bytes of an item, those the PC is due of it, its first n
Whole(item) == Fs!Bytes(item)
Due == Fs!Min2(req.len, Sizes[req.item])
Begun(item, n) == Fs!FirstOf(n, Whole(item))

\* The packet the handler is about to see
Number == IF unheard = 0 THEN written ELSE written + 1

Ep0Types ==
    /\ stage \in {"idle", "setup", "in", "out", "statusIn", "statusOut"}
    /\ req \in Asked \cup {Fs!None} /\ (stage # "idle" => req \in Asked)
    /\ irq \in {"none", "setup", "in", "out"} /\ pcTog \in 0 .. 1
    /\ tx.tog \in 0 .. 1 /\ rx.tog \in 0 .. 1
    /\ written \in Nat /\ unheard \in Nat /\ repeated \in Nat /\ reqLen \in Nat
    /\ got \in Seq(Octet) /\ descr \in Seq(Octet) /\ captured \in Seq(Octet)
    /\ tx.data \in Seq(Octet)
    /\ capturing \in BOOLEAN /\ published \in BOOLEAN /\ ~(capturing /\ published)
    /\ excused \in BOOLEAN /\ togOk \in BOOLEAN

\* Once a SETUP is handled the driver knows the request of the transfer under way; what
\* else waits for the handler is of its data or status stage.
KnownInv ==
    /\ irq = "setup" =>
         /\ packet = req /\ stage \in {"setup", Fs!DataStage(req)} /\ got = <<>> /\ pcTog = 1
         /\ written = 0 /\ unheard = 0 /\ repeated = 0
    /\ stage \notin {"idle", "setup"} /\ irq # "setup" => setup = req
    /\ stage = "in" => req.kind = "get" /\ irq # "out"
    /\ stage = "statusOut" => req.kind = "get"
    /\ stage = "out" => req.kind = "set" /\ irq # "in"
    /\ irq = "out" /\ setup.kind = "set" =>
         stage = "out" \/ (stage = "statusIn" /\ unheard = 0)

\* Reading: an armed packet the PC does not have yet carries the toggle it expects.
ReadInv ==
    stage = "in" /\ irq # "setup" =>
        /\ reqLen \in 0 .. Due
        /\ descr = Fs!After(Due - reqLen, Whole(req.item))
        /\ Len(tx.data) \in 0 .. Due - reqLen
        /\ tx.data = SubSeq(Whole(req.item), Due - reqLen - Len(tx.data) + 1, Due - reqLen)
        /\ Len(tx.data) = Mps \/ (reqLen = 0 /\ Len(tx.data) < Mps)
        /\ got = Begun(req.item, Len(got))
        /\ Len(got) = IF irq = "none" /\ tx.tog = pcTog
                      THEN Due - reqLen - Len(tx.data) ELSE Due - reqLen
        /\ irq = "in" => tx.tog # pcTog

\* Writing: of s packets the driver has counted c.
Counted(c) == reqLen = Sizes[req.item] - c * Mps /\ reqLen > 0
Kept(c) == captured = Fs!FirstOf(BufMax, Begun(req.item, c * Mps))
CountedOf(s) == \E c \in 0 .. s : Counted(c) /\ (c = s => Kept(c))

WriteInv ==
    /\ stage = "out" => written * Mps < req.len
    /\ stage = "out" /\ irq # "setup" /\ capturing => value = req.item
    /\ irq = "out" /\ setup.kind = "set" =>
         /\ packet = Fs!WritePacket(Number) /\ Number >= 1 /\ (Number - 1) * Mps < req.len
         /\ capturing => value = req.item

\* Full Speed: the toggle tells the first repeat of a packet from a packet.
FsInv ==
    /\ stage = "out" /\ irq = "none" /\ capturing /\ repeated <= 1 /\ unheard <= 1 =>
         CountedOf(IF unheard = 1 /\ rx.tog # pcTog THEN written + 1 ELSE written)
    /\ irq = "out" /\ setup.kind = "set" /\ capturing /\ repeated <= 1 =>
         /\ togOk => CountedOf(Number - 1)
         /\ ~togOk /\ unheard <= 1 => CountedOf(written)
         /\ unheard > 0 => (togOk <=> rx.tog = pcTog)

\* High Speed: nothing tells them apart.
HsInv ==
    /\ stage = "out" /\ irq = "none" /\ capturing /\ repeated = 0 /\ unheard = 0 =>
         Counted(written) /\ Kept(written)
    /\ irq = "out" /\ setup.kind = "set" /\ capturing /\ repeated = 0 =>
         Counted(Number - 1) /\ Kept(Number - 1)

PublishedInv == published /\ ~excused => captured = Fs!FirstOf(BufMax, Whole(value))

Ep0Inv ==
    /\ Ep0Types /\ KnownInv /\ ReadInv /\ WriteInv /\ Fs!DescriptorWhole /\ PublishedInv
    /\ part = "fs" => FsInv
    /\ part = "hs" => HsInv

LEMMA InitEp0 == ASSUME Fs!Init PROVE Ep0Inv
<1>1. <<>> \in Seq(Octet)
  BY EmptySeq
<1>2. /\ stage = "idle" /\ req = Fs!None /\ got = <<>> /\ written = 0 /\ pcTog = 0
      /\ unheard = 0 /\ repeated = 0 /\ irq = "none" /\ togOk = FALSE
      /\ tx.tog = 0 /\ tx.data = <<>> /\ rx.tog = 0 /\ reqLen = 0 /\ descr = <<>>
      /\ capturing = FALSE /\ published = FALSE /\ captured = <<>> /\ excused = FALSE
  BY DEF Fs!Init, Fs!Idle, Fs!Answer
<1>3. Ep0Types
  <2>1. /\ capturing \in BOOLEAN /\ published \in BOOLEAN /\ ~(capturing /\ published)
        /\ excused \in BOOLEAN /\ togOk \in BOOLEAN
    BY <1>2
  <2>2. /\ stage \in {"idle", "setup", "in", "out", "statusIn", "statusOut"}
        /\ req \in Asked \cup {Fs!None} /\ (stage # "idle" => req \in Asked)
        /\ irq \in {"none", "setup", "in", "out"}
    BY <1>2
  <2>3. /\ pcTog \in 0 .. 1 /\ tx.tog \in 0 .. 1 /\ rx.tog \in 0 .. 1
        /\ written \in Nat /\ unheard \in Nat /\ repeated \in Nat /\ reqLen \in Nat
    BY <1>2
  <2> QED BY <1>1, <1>2, <2>1, <2>2, <2>3 DEF Ep0Types
<1> QED BY <1>2, <1>3 DEF Ep0Inv, KnownInv, ReadInv, WriteInv, Fs!DescriptorWhole,
           PublishedInv, FsInv, HsInv

\* The request of a transfer, and the bytes of its item
LEMMA TransferData ==
    ASSUME req \in Asked, req.kind \in {"get", "set"}
    PROVE  /\ Sizes[req.item] \in Nat \ {0} /\ req.len \in Nat
           /\ Whole(req.item) \in Seq(Octet) /\ Len(Whole(req.item)) = Sizes[req.item]
           /\ Due \in 0 .. Sizes[req.item] /\ Due <= req.len
           /\ Begun(req.item, req.len) = Begun(req.item, Due)
           /\ req.kind = "set" => req.len = Sizes[req.item]
<1>1. /\ Sizes[req.item] \in Nat \ {0} /\ req.len \in Nat
      /\ Whole(req.item) \in Seq(Octet) /\ Len(Whole(req.item)) = Sizes[req.item]
      /\ req.kind = "set" => req.len = Sizes[req.item]
  BY AskedRequests, WholeDescriptor DEF Whole
<1>2. Due \in 0 .. Sizes[req.item] /\ Due <= req.len
  BY <1>1 DEF Due, Fs!Min2
<1>3. Fs!Min2(Due, Sizes[req.item]) = Due
  BY <1>1, <1>2 DEF Fs!Min2
<1>4. Begun(req.item, req.len) = Begun(req.item, Due)
  BY <1>1, <1>3 DEF Begun, Fs!FirstOf, Due
<1> QED BY <1>1, <1>2, <1>4

-----------------------------------------------------------------------------
\* The PC begins, gives up or starts anew: nothing the driver holds counts until the
\* next SETUP.
LEMMA PcTurns ==
    ASSUME Ep0Inv, stage' \in {"setup", "idle"}, req' \in Asked \cup {Fs!None},
           stage' # "idle" => req' \in Asked, irq # "setup",
           ~(irq = "out" /\ setup.kind = "set"),
           UNCHANGED <<got, written, pcTog, unheard, repeated, irq, togOk, packet, tx, rx,
                       setup, reqLen, descr, capturing, published, captured, value,
                       excused>>
    PROVE  Ep0Inv'
<1>1. Ep0Types'
  BY DEF Ep0Inv, Ep0Types
<1>2. KnownInv' /\ ReadInv' /\ WriteInv' /\ FsInv' /\ HsInv'
  BY DEF KnownInv, ReadInv, WriteInv, FsInv, HsInv
<1>3. Fs!DescriptorWhole' /\ PublishedInv'
  BY DEF Ep0Inv, Fs!DescriptorWhole, PublishedInv
<1> QED BY <1>1, <1>2, <1>3 DEF Ep0Inv

LEMMA TurnKeeps ==
    ASSUME Ep0Inv,
           Fs!Refused \/ \E r \in Asked : Fs!Begin(r) \/ Fs!TimeOut(r)
    PROVE  Ep0Inv'
<1>1. Ep0Types /\ KnownInv
  BY DEF Ep0Inv
<1>2. CASE Fs!Refused
  <2>1. stage' = "idle" /\ req' = req /\ irq = "none"
        /\ UNCHANGED <<got, written, pcTog, unheard, repeated, irq, togOk, packet, tx, rx,
                       setup, reqLen, descr, capturing, published, captured, value, excused>>
    BY <1>2 DEF Fs!Refused, Fs!Reached, Fs!wire, Fs!driver, Fs!capture
  <2>2. req' \in Asked \cup {Fs!None}
    BY <1>1, <2>1 DEF Ep0Types
  <2> QED BY <2>1, <2>2, PcTurns
<1>3. ASSUME NEW r \in Asked, Fs!Begin(r) PROVE Ep0Inv'
  <2>1. stage = "idle" /\ stage' = "setup" /\ req' = r
        /\ UNCHANGED <<got, written, pcTog, unheard, repeated, irq, togOk, packet, tx, rx,
                       setup, reqLen, descr, capturing, published, captured, value, excused>>
    BY <1>3 DEF Fs!Begin, Fs!wire, Fs!driver, Fs!capture
  <2>2. irq # "setup" /\ ~(irq = "out" /\ setup.kind = "set")
    BY <1>1, <2>1 DEF KnownInv, Fs!DataStage
  <2> QED BY <2>1, <2>2, PcTurns
<1>4. ASSUME NEW r \in Asked, Fs!TimeOut(r) PROVE Ep0Inv'
  <2>1. stage' = "setup" /\ req' = r /\ irq = "none"
        /\ UNCHANGED <<got, written, pcTog, unheard, repeated, irq, togOk, packet, tx, rx,
                       setup, reqLen, descr, capturing, published, captured, value, excused>>
    BY <1>4 DEF Fs!TimeOut, Fs!Reached, Fs!wire, Fs!driver, Fs!capture
  <2> QED BY <2>1, PcTurns
<1> QED BY <1>2, <1>3, <1>4

LEMMA SetupKeeps == ASSUME Ep0Inv, NEW h \in BOOLEAN, Fs!Setup(h) PROVE Ep0Inv'
<1>1. Ep0Types /\ stage = "setup" /\ req \in Asked
  BY DEF Ep0Inv, Ep0Types, Fs!Setup
<1>2. /\ irq' = "setup" /\ packet' = req /\ req' = req /\ got' = <<>> /\ written' = 0
      /\ pcTog' = 1 /\ unheard' = 0 /\ repeated' = 0
      /\ stage' = IF h THEN Fs!DataStage(req) ELSE stage
      /\ UNCHANGED <<togOk, tx, rx, setup, reqLen, descr, capturing, published, captured,
                     value, excused>>
  BY DEF Fs!Setup, Fs!driver, Fs!capture
<1>3. /\ stage' \in {"setup", "in", "out", "statusIn"}
      /\ stage' = "in" => req.kind = "get"
      /\ stage' = "out" => req.kind = "set"
  BY <1>1, <1>2 DEF Fs!DataStage
<1>4. <<>> \in Seq(Octet)
  BY EmptySeq
<1>5. Ep0Types'
  BY <1>1, <1>2, <1>3, <1>4 DEF Ep0Types
<1>6. KnownInv'
  BY <1>1, <1>2, <1>3 DEF KnownInv, Fs!DataStage
<1>7. ReadInv' /\ FsInv' /\ HsInv' /\ Fs!DescriptorWhole'
  BY <1>2, <1>3 DEF ReadInv, FsInv, HsInv, Fs!DescriptorWhole
<1>8. WriteInv'
  <2>1. req.kind = "set" => 0 * Mps < req.len
    <3>1. 0 * Mps = 0
      BY PacketAssumption
    <3> QED BY <1>1, <3>1, AskedRequests
  <2> QED BY <1>2, <1>3, <2>1 DEF WriteInv
<1>9. PublishedInv'
  BY <1>2 DEF Ep0Inv, PublishedInv
<1> QED BY <1>5, <1>6, <1>7, <1>8, <1>9 DEF Ep0Inv

LEMMA InKeeps == ASSUME Ep0Inv, NEW h \in BOOLEAN, Fs!In(h) PROVE Ep0Inv'
<1>1. Ep0Types /\ KnownInv /\ stage \in {"in", "statusIn"} /\ irq = "none" /\ req \in Asked
  BY DEF Ep0Inv, Ep0Types, Fs!In, Fs!Reached
<1> DEFINE fresh == tx.tog = pcTog
           more == IF fresh THEN got \o tx.data ELSE got
           over == fresh /\ (Len(tx.data) < Mps \/ Len(more) >= req.len)
<1>2. /\ got' = more
      /\ stage' = IF stage = "in" THEN IF over THEN "statusOut" ELSE "in"
                  ELSE IF fresh THEN "idle" ELSE stage
      /\ pcTog' = IF over THEN 1 ELSE IF fresh THEN 1 - pcTog ELSE pcTog
      /\ irq' = IF h THEN "in" ELSE irq
      /\ UNCHANGED <<req, written, unheard, repeated, togOk, packet, tx, rx, setup, reqLen,
                     descr, capturing, published, captured, value, excused>>
  BY DEF Fs!In, Fs!driver, Fs!capture
<1> HIDE DEF more, over
<1>3. irq' \in {"none", "in"} /\ stage' \in {"in", "statusOut", "statusIn", "idle"}
  BY <1>1, <1>2
<1>4. pcTog' \in 0 .. 1 /\ (stage' = "in" => tx.tog # pcTog')
  BY <1>1, <1>2 DEF Ep0Types, over
<1>5. PublishedInv' /\ WriteInv' /\ FsInv' /\ HsInv'
  BY <1>2, <1>3 DEF Ep0Inv, PublishedInv, WriteInv, FsInv, HsInv
<1>6. CASE stage = "in"
  <2>1. /\ setup = req /\ req.kind = "get" /\ ReadInv
    BY <1>1, <1>6 DEF Ep0Inv, KnownInv
  <2> DEFINE B == Whole(req.item)
             b == Due - reqLen
  <2>2. /\ B \in Seq(Octet) /\ Due <= Len(B) /\ Due \in Nat /\ Due <= req.len
        /\ req.len \in Nat /\ Begun(req.item, req.len) = Begun(req.item, Due)
    BY <1>1, <2>1, TransferData
  <2>3. /\ b \in Nat /\ b <= Len(B) /\ Len(tx.data) \in 0 .. b /\ Len(B) \in Nat
        /\ reqLen \in 0 .. Due
    BY <1>1, <1>6, <2>1, <2>2, LenProperties DEF ReadInv
  <2>4. got' = Begun(req.item, b) /\ Len(got') = b
    <3>1. Fs!Min2(b, Len(B)) = b
      BY <2>3 DEF Fs!Min2
    <3>2. Len(Begun(req.item, b)) = b
      BY <2>2, <2>3, <3>1, FirstOfProperties DEF Begun
    <3>3. CASE fresh
      <4> DEFINE a == b - Len(tx.data)
      <4>1. a \in Nat /\ a <= b
        BY <2>3
      <4>2. got = Begun(req.item, a) /\ tx.data = SubSeq(B, a + 1, b)
        BY <1>1, <1>6, <2>1, <3>3 DEF ReadInv
      <4> HIDE DEF a, b, B
      <4>3. Fs!FirstOf(a, B) \o SubSeq(B, a + 1, b) = Fs!FirstOf(b, B)
        BY <2>2, <2>3, <4>1, BegunGrows
      <4>4. got \o tx.data = Begun(req.item, b)
        BY <4>2, <4>3 DEF Begun, B
      <4> QED BY <1>2, <3>2, <3>3, <4>4 DEF more
    <3>4. CASE ~fresh
      <4>1. got = Begun(req.item, b)
        BY <1>1, <1>6, <2>1, <3>4 DEF ReadInv
      <4> QED BY <1>2, <3>2, <3>4, <4>1 DEF more
    <3> QED BY <3>3, <3>4
  <2>5. got' \in Seq(Octet)
    BY <2>2, <2>3, <2>4, FirstOfProperties DEF Begun
  <2>6. over => reqLen = 0
    <3>1. ASSUME over, Len(tx.data) < Mps PROVE reqLen = 0
      BY <1>1, <1>6, <2>1, <3>1, PacketAssumption DEF ReadInv
    <3>2. ASSUME Len(more) >= req.len PROVE reqLen = 0
      BY <1>2, <2>2, <2>3, <2>4, <3>2
    <3> QED BY <3>1, <3>2 DEF over
  <2>7. Ep0Types'
    BY <1>1, <1>2, <1>3, <1>4, <2>5 DEF Ep0Types
  <2>8. KnownInv'
    BY <1>1, <1>2, <1>3, <1>6, <2>1 DEF KnownInv
  <2>9. Fs!DescriptorWhole'
    <3>1. reqLen = 0 => b = Due
      BY <2>2, <2>3
    <3>2. stage' = "statusOut" => over
      BY <1>2, <1>6
    <3> QED BY <1>2, <2>2, <2>4, <2>6, <3>1, <3>2 DEF Fs!DescriptorWhole, Begun, Whole
  <2>10. ReadInv'
    <3> SUFFICES ASSUME stage' = "in" PROVE ReadInv'
      BY DEF ReadInv
    <3>1. Due' = Due /\ \A n : Begun(req.item, n)' = Begun(req.item, n)
      BY <1>2 DEF Due, Begun, Whole
    <3>2. got' = Begun(req'.item, Len(got'))
      BY <1>2, <2>4
    <3>3. /\ reqLen' \in 0 .. Due'
          /\ descr' = Fs!After(Due' - reqLen', Whole(req'.item))
          /\ Len(tx'.data) \in 0 .. Due' - reqLen'
          /\ tx'.data = SubSeq(Whole(req'.item), Due' - reqLen' - Len(tx'.data) + 1,
                               Due' - reqLen')
          /\ Len(tx'.data) = Mps \/ (reqLen' = 0 /\ Len(tx'.data) < Mps)
      BY <1>1, <1>2, <1>6, <2>1, <3>1 DEF ReadInv
    <3>4. Len(got') = Due' - reqLen' /\ tx'.tog # pcTog'
      BY <1>2, <1>4, <2>4, <3>1
    <3> QED BY <3>2, <3>3, <3>4 DEF ReadInv, Begun, Whole
  <2> QED BY <1>5, <2>7, <2>8, <2>9, <2>10 DEF Ep0Inv
<1>7. CASE stage = "statusIn"
  <2>1. stage' \in {"statusIn", "idle"} /\ setup = req
    BY <1>1, <1>2, <1>7 DEF KnownInv
  <2>2. got' \in Seq(Octet)
    <3>1. tx.data \in Seq(Octet)
      BY DEF Ep0Inv, Ep0Types
    <3> QED BY <1>1, <1>2, <3>1, ConcatProperties DEF Ep0Types, more
  <2>3. Ep0Types'
    BY <1>1, <1>2, <1>3, <1>4, <2>2 DEF Ep0Types
  <2>4. KnownInv' /\ ReadInv' /\ Fs!DescriptorWhole'
    BY <1>2, <1>3, <2>1 DEF KnownInv, ReadInv, Fs!DescriptorWhole
  <2> QED BY <1>5, <2>3, <2>4 DEF Ep0Inv
<1> QED BY <1>1, <1>6, <1>7

LEMMA OutKeeps ==
    ASSUME Ep0Inv, NEW h \in BOOLEAN, Fs!Out(h), UNCHANGED part PROVE Ep0Inv'
<1>1. Ep0Types /\ KnownInv /\ stage \in {"out", "statusOut"} /\ irq = "none"
      /\ req \in Asked /\ setup = req
  BY DEF Ep0Inv, Ep0Types, KnownInv, Fs!Out, Fs!Reached
<1>2. /\ irq' = "out" /\ togOk' = (rx.tog = pcTog)
      /\ packet' = IF stage = "out" THEN Fs!WritePacket(written + 1) ELSE <<>>
      /\ repeated' = IF unheard > repeated THEN unheard ELSE repeated
      /\ UNCHANGED <<req, got, tx, rx, setup, reqLen, descr, capturing, published, captured,
                     value, excused>>
  BY DEF Fs!Out, Fs!driver, Fs!capture
<1>3. IF h THEN /\ written' = written + 1 /\ unheard' = 0
                /\ stage' = IF stage = "statusOut" THEN "idle"
                            ELSE IF (written + 1) * Mps >= req.len THEN "statusIn" ELSE "out"
                /\ pcTog' \in {1, 1 - pcTog}
           ELSE unheard' = unheard + 1 /\ UNCHANGED <<written, stage, pcTog>>
  BY DEF Fs!Out
<1>4. /\ stage' \in {"out", "statusOut", "statusIn", "idle"}
      /\ stage' \in {"out", "statusIn"} => stage = "out"
      /\ stage' = "statusOut" => stage = "statusOut"
      /\ stage = "out" => stage' \in {"out", "statusIn"} /\ (stage' = "statusIn" => unheard' = 0)
  BY <1>1, <1>3
<1>5. Ep0Types'
  <2>1. pcTog' \in 0 .. 1 /\ written' \in Nat /\ unheard' \in Nat /\ repeated' \in Nat
    BY <1>1, <1>2, <1>3 DEF Ep0Types
  <2>2. togOk' \in BOOLEAN
    BY <1>2
  <2> QED BY <1>1, <1>2, <1>4, <2>1, <2>2 DEF Ep0Types
<1>6. KnownInv'
  BY <1>1, <1>2, <1>4 DEF KnownInv
<1>7. ReadInv' /\ Fs!DescriptorWhole' /\ PublishedInv'
  BY <1>2, <1>4 DEF Ep0Inv, ReadInv, Fs!DescriptorWhole, PublishedInv
<1>8. CASE stage = "statusOut"
  <2>1. setup'.kind = "get" /\ stage' # "out" /\ irq' # "none"
    BY <1>1, <1>2, <1>4, <1>8 DEF KnownInv
  <2>2. WriteInv' /\ FsInv' /\ HsInv'
    BY <2>1 DEF WriteInv, FsInv, HsInv
  <2> QED BY <1>5, <1>6, <1>7, <2>2 DEF Ep0Inv
<1>9. CASE stage = "out"
  <2>1. written \in Nat /\ unheard \in Nat /\ repeated \in Nat /\ WriteInv
    BY <1>1 DEF Ep0Inv, Ep0Types
  <2>2. Number' = written + 1 /\ Number' - 1 = written
    BY <1>3, <2>1 DEF Number
  <2>3. WriteInv'
    <3>1. written * Mps < req.len /\ (capturing => value = req.item)
      BY <1>1, <1>9, <2>1 DEF WriteInv
    <3>2. stage' = "out" => written' * Mps < req.len
      <4>1. CASE h
        <5>1. (written + 1) * Mps \in Int /\ req.len \in Int
          BY <1>1, <2>1, AskedRequests, PacketAssumption
        <5> QED BY <1>3, <1>9, <4>1, <5>1
      <4>2. CASE ~h
        BY <1>3, <3>1, <4>2
      <4> QED BY <4>1, <4>2
    <3>3. Number' >= 1 /\ (Number' - 1) * Mps < req.len
          /\ packet' = Fs!WritePacket(Number')
      BY <1>2, <1>9, <2>1, <2>2, <3>1
    <3>4. packet' = Fs!WritePacket(Number)'
      BY <1>2, <3>3 DEF Fs!WritePacket
    <3> QED BY <1>2, <3>1, <3>2, <3>3, <3>4 DEF WriteInv
  <2>4. ASSUME FsInv PROVE FsInv'
    <3>1. SUFFICES ASSUME capturing, repeated' <= 1
                   PROVE  /\ togOk' => CountedOf(Number - 1)'
                          /\ ~togOk' /\ unheard' <= 1 => CountedOf(written)'
                          /\ unheard' > 0 => (togOk' <=> rx'.tog = pcTog')
      BY <1>2 DEF FsInv
    <3>2. repeated <= 1 /\ unheard <= 1
      BY <1>2, <2>1, <3>1
    <3> DEFINE s == IF unheard = 1 /\ rx.tog # pcTog THEN written + 1 ELSE written
    <3>3. CountedOf(s)
      BY <1>1, <1>9, <2>4, <3>1, <3>2 DEF FsInv
    <3>4. \A c : (Counted(c) <=> Counted(c)') /\ (Kept(c) <=> Kept(c)')
      BY <1>2 DEF Counted, Kept, Begun, Whole
    <3>5. \A n : CountedOf(n) => CountedOf(n)'
      BY <1>2 DEF CountedOf, Counted, Kept, Begun, Whole
    <3>6. ASSUME NEW n \in Nat, CountedOf(n) PROVE CountedOf(n + 1)
      <4>1. PICK c \in 0 .. n : Counted(c)
        BY <3>6 DEF CountedOf
      <4>2. c \in 0 .. n + 1 /\ c # n + 1
        BY <3>6
      <4> QED BY <4>1, <4>2 DEF CountedOf
    <3> HIDE DEF s
    <3>7. PICK w \in Nat : w = written
      BY <2>1
    <3>8. togOk' => CountedOf(w)'
      <4>1. togOk' => s = w
        BY <1>2, <3>7 DEF s
      <4> QED BY <3>3, <3>5, <4>1
    <3>9. ~togOk' /\ unheard' <= 1 => CountedOf(written')
      <4>1. SUFFICES ASSUME rx.tog # pcTog, unheard' <= 1 PROVE CountedOf(written')
        BY <1>2
      <4>2. CASE h
        <5>1. written' = written + 1
          BY <1>3, <4>2
        <5>2. CASE unheard = 1
          BY <3>3, <4>1, <5>1, <5>2 DEF s
        <5>3. CASE unheard # 1
          BY <2>1, <3>3, <3>6, <5>1, <5>3 DEF s
        <5> QED BY <5>2, <5>3
      <4>3. CASE ~h
        <5>1. written' = written /\ unheard # 1
          BY <1>3, <2>1, <4>1, <4>3
        <5> QED BY <3>3, <5>1 DEF s
      <4> QED BY <4>2, <4>3
    <3>10. CountedOf(written') => CountedOf(written)'
      BY <1>2 DEF CountedOf, Counted, Kept, Begun, Whole
    <3>11. unheard' > 0 => (togOk' <=> rx'.tog = pcTog')
      <4>1. unheard' > 0 => pcTog' = pcTog
        BY <1>3
      <4>2. rx'.tog = rx.tog
        BY <1>2
      <4> QED BY <1>2, <4>1, <4>2, Zenon
    <3>12. CountedOf(w)' => CountedOf(Number - 1)'
      <4>1. Number' - 1 = w
        BY <2>2, <3>7
      <4> QED BY <4>1 DEF CountedOf, Counted, Kept
    <3> QED BY <3>8, <3>9, <3>10, <3>11, <3>12
  <2>5. ASSUME HsInv PROVE HsInv'
    <3>1. SUFFICES ASSUME capturing, repeated' = 0
                   PROVE  Counted(Number - 1)' /\ Kept(Number - 1)'
      BY <1>2 DEF HsInv
    <3>2. repeated = 0 /\ unheard = 0
      BY <1>2, <2>1, <3>1
    <3>3. Counted(written) /\ Kept(written)
      BY <1>1, <1>9, <2>5, <3>1, <3>2 DEF HsInv
    <3> QED BY <1>2, <2>2, <3>3 DEF Counted, Kept, Begun, Whole
  <2>6. (part' = "fs" => FsInv') /\ (part' = "hs" => HsInv')
    BY <2>4, <2>5 DEF Ep0Inv
  <2> QED BY <1>5, <1>6, <1>7, <2>3, <2>6 DEF Ep0Inv
<1> QED BY <1>1, <1>8, <1>9

\* The relay releases the buffer, or the bus is reset.
LEMMA ReleaseKeeps == ASSUME Ep0Inv, Fs!Release, UNCHANGED part PROVE Ep0Inv'
<1>1. /\ published = TRUE /\ published' = FALSE /\ captured' = <<>>
      /\ UNCHANGED <<stage, req, got, written, pcTog, unheard, repeated, irq, togOk, packet,
                     tx, rx, setup, reqLen, descr, capturing, value, excused>>
  BY DEF Ep0Inv, Ep0Types, Fs!Release, Fs!pc, Fs!wire
<1>2. Ep0Types /\ capturing = FALSE /\ capturing' = FALSE
  BY <1>1 DEF Ep0Inv, Ep0Types
<1>3. <<>> \in Seq(Octet)
  BY EmptySeq
<1>4. Ep0Types'
  BY <1>1, <1>2, <1>3 DEF Ep0Types
<1>5. KnownInv' /\ Fs!DescriptorWhole'
  BY <1>1 DEF Ep0Inv, KnownInv, Fs!DescriptorWhole
<1>6. ReadInv'
  BY <1>1 DEF Ep0Inv, ReadInv, Due, Begun, Whole
<1>7. WriteInv'
  BY <1>1, <1>2 DEF Ep0Inv, WriteInv, Number, Fs!WritePacket
<1>8. FsInv' /\ HsInv' /\ PublishedInv'
  BY <1>1, <1>2 DEF FsInv, HsInv, PublishedInv
<1> QED BY <1>4, <1>5, <1>6, <1>7, <1>8 DEF Ep0Inv

LEMMA ResetKeeps == ASSUME Ep0Inv, Fs!BusReset \/ Hs!BusReset PROVE Ep0Inv'
<1>1. /\ irq = "none" /\ stage' \in {"setup", "idle"} /\ (stage' # "idle" => stage # "idle")
      /\ UNCHANGED <<req, got, written, pcTog, unheard, repeated, irq, togOk, packet, setup,
                     reqLen, descr, value>>
      /\ tx'.tog = 0 /\ tx'.data = <<>> /\ rx'.tog = 0
      /\ capturing' = FALSE /\ published' = FALSE /\ captured' = <<>> /\ excused' = FALSE
  BY SameWire DEF Fs!BusReset, Hs!BusReset, Fs!Reset, Fs!wire, Fs!Idle, Hs!Idle, Fs!Answer,
     Hs!Answer
<1>2. <<>> \in Seq(Octet)
  BY EmptySeq
<1>3. Ep0Types'
  <2>1. Ep0Types
    BY DEF Ep0Inv
  <2>2. /\ capturing' \in BOOLEAN /\ published' \in BOOLEAN /\ ~(capturing' /\ published')
        /\ excused' \in BOOLEAN
    BY <1>1
  <2>3. tx'.tog \in 0 .. 1 /\ rx'.tog \in 0 .. 1
    BY <1>1
  <2> QED BY <1>1, <1>2, <2>1, <2>2, <2>3 DEF Ep0Types
<1>4. KnownInv' /\ ReadInv' /\ WriteInv' /\ FsInv' /\ HsInv' /\ PublishedInv'
      /\ Fs!DescriptorWhole'
  BY <1>1 DEF KnownInv, ReadInv, WriteInv, FsInv, HsInv, PublishedInv, Fs!DescriptorWhole
<1> QED BY <1>3, <1>4 DEF Ep0Inv

-----------------------------------------------------------------------------
\* What the handlers of the two drivers have in common
SetupPlain ==
    /\ irq = "setup" /\ irq' = "none" /\ setup' = packet
    /\ tx'.tog \in 0 .. 1 /\ rx'.tog \in 0 .. 1 /\ tx'.data \in Seq(Octet)
    /\ reqLen' \in Nat /\ descr' \in Seq(Octet)
    /\ UNCHANGED <<stage, req, got, written, pcTog, unheard, repeated, togOk, packet, excused>>

SetupRead ==
    packet.kind = "get" =>
        LET n == Fs!Min2(Due, Mps)
            first == Fs!FirstOf(n, Whole(req.item))
        IN  /\ tx'.tog = 1 /\ tx'.data = first
            /\ reqLen' = Due - Len(first)
            /\ descr' = Fs!After(Len(first), Whole(req.item))

SetupCapture ==
    /\ \/ UNCHANGED <<capturing, published, captured, value>>
       \/ /\ packet.kind = "set" /\ published = FALSE /\ published' = FALSE
          /\ capturing' = TRUE /\ captured' = <<>> /\ value' = packet.item
    /\ packet.kind = "set" =>
         reqLen' = packet.len /\ (capturing' => captured' = <<>> /\ value' = packet.item)

SetupDone == SetupPlain /\ SetupRead /\ SetupCapture

LEMMA HsParts ==
    /\ \A a, b : Hs!Min2(a, b) = Fs!Min2(a, b)
    /\ \A n, s : Hs!FirstOf(n, s) = Fs!FirstOf(n, s) /\ Hs!After(n, s) = Fs!After(n, s)
    /\ \A i : Hs!Bytes(i) = Fs!Bytes(i)
BY DEF Hs!Min2, Fs!Min2, Hs!FirstOf, Fs!FirstOf, Hs!After, Fs!After, Hs!Bytes, Fs!Bytes

\* The first packet of a descriptor
LEMMA FirstPacket ==
    ASSUME Ep0Inv, req \in Asked, req.kind = "get"
    PROVE  LET n == Fs!Min2(Due, Mps)
               first == Fs!FirstOf(n, Whole(req.item))
           IN  /\ n \in Nat /\ Len(first) = n /\ first = SubSeq(Whole(req.item), 1, n)
               /\ n <= Due /\ n <= Mps /\ (n = Mps \/ n = Due)
               /\ first \in Seq(Octet) /\ Due - n \in Nat
               /\ Fs!After(n, Whole(req.item)) \in Seq(Octet)
<1> DEFINE n == Fs!Min2(Due, Mps)
           B == Whole(req.item)
<1>1. /\ B \in Seq(Octet) /\ Due \in 0 .. Len(B) /\ Len(B) \in Nat
  BY TransferData
<1>2. n \in Nat /\ n <= Due /\ n <= Mps /\ (n = Mps \/ n = Due) /\ n <= Len(B)
  BY <1>1, PacketAssumption DEF Fs!Min2
<1> HIDE DEF n, B
<1>3. Fs!Min2(n, Len(B)) = n
  BY <1>1, <1>2 DEF Fs!Min2
<1>4. /\ Fs!FirstOf(n, B) \in Seq(Octet) /\ Len(Fs!FirstOf(n, B)) = n
      /\ Fs!FirstOf(n, B) = SubSeq(B, 1, n)
  BY <1>1, <1>2, <1>3, FirstOfProperties DEF Fs!FirstOf
<1>5. Fs!After(n, B) \in Seq(Octet)
  BY <1>1, <1>2, AfterProperties
<1>6. Due - n \in Nat
  BY <1>1, <1>2
<1> QED BY <1>2, <1>4, <1>5, <1>6 DEF n, B

LEMMA FsSetup == ASSUME Ep0Inv, Fs!HandleSetup PROVE SetupDone
<1>1. Ep0Types /\ KnownInv /\ irq = "setup" /\ packet = req /\ req \in Asked
  <2>1. Ep0Types /\ KnownInv /\ irq = "setup"
    BY DEF Ep0Inv, Fs!HandleSetup
  <2> QED BY <2>1 DEF Ep0Types, KnownInv, Fs!DataStage
<1>2. /\ irq' = "none" /\ setup' = packet
      /\ UNCHANGED <<stage, req, got, written, pcTog, unheard, repeated, togOk, packet>>
      /\ Fs!GetDescriptor \/ Fs!SetReport \/ Fs!NoData \/ Fs!Unsupported
  BY DEF Fs!HandleSetup, Fs!pc
<1>3. req.len \in Nat /\ <<>> \in Seq(Octet)
  BY <1>1, AskedRequests, EmptySeq
<1>4. CASE Fs!GetDescriptor
  <2> DEFINE n == Fs!Min2(Due, Mps)
             first == Fs!FirstOf(n, Whole(req.item))
  <2>1. req.kind = "get" /\ UNCHANGED <<capturing, published, captured, value, excused>>
    BY <1>1, <1>4 DEF Fs!GetDescriptor, Fs!capture
  <2>2. /\ tx'.tog = 1 /\ tx'.data = first /\ rx'.tog = 1
        /\ reqLen' = Due - Len(first) /\ descr' = Fs!After(Len(first), Whole(req.item))
    BY <1>1, <1>4 DEF Fs!GetDescriptor, Fs!Arm, Fs!Answer, Fs!Clamp, Fs!Advanced, Due, Whole
  <2>3. first \in Seq(Octet) /\ Len(first) = n /\ Due - n \in Nat
        /\ Fs!After(n, Whole(req.item)) \in Seq(Octet)
    BY <1>1, <2>1, FirstPacket
  <2>4. reqLen' \in Nat /\ descr' \in Seq(Octet) /\ tx'.data \in Seq(Octet)
        /\ tx'.tog \in 0 .. 1 /\ rx'.tog \in 0 .. 1
    BY <2>2, <2>3
  <2> QED BY <1>1, <1>2, <2>1, <2>2, <2>4 DEF SetupDone, SetupPlain, SetupRead, SetupCapture
<1>5. CASE Fs!SetReport
  <2>1. /\ packet.kind = "set" /\ reqLen' = packet.len /\ tx'.tog = 1 /\ tx'.data = <<>>
        /\ rx'.tog = 1 /\ UNCHANGED <<descr, excused>>
    BY <1>5 DEF Fs!SetReport, Fs!Idle, Fs!Answer
  <2>2. CASE published
    <3>1. UNCHANGED <<capturing, published, captured, value>> /\ ~capturing'
      BY <1>1, <1>5, <2>2 DEF Fs!SetReport, Fs!capture, Ep0Types
    <3>2. /\ tx'.tog \in 0 .. 1 /\ rx'.tog \in 0 .. 1 /\ tx'.data \in Seq(Octet)
          /\ reqLen' \in Nat /\ descr' \in Seq(Octet)
      BY <1>1, <1>3, <2>1 DEF Ep0Types
    <3>3. SetupPlain
      BY <1>1, <1>2, <2>1, <3>2 DEF SetupPlain
    <3>4. SetupRead
      BY <2>1 DEF SetupRead
    <3>5. SetupCapture
      BY <2>1, <3>1 DEF SetupCapture
    <3> QED BY <3>3, <3>4, <3>5 DEF SetupDone
  <2>3. CASE ~published
    <3>1. /\ published = FALSE /\ published' = FALSE /\ capturing' = TRUE
          /\ captured' = <<>> /\ value' = packet.item
      BY <1>1, <1>5, <2>3 DEF Fs!SetReport, Ep0Types
    <3>2. SetupPlain
      BY <1>1, <1>2, <1>3, <2>1 DEF SetupPlain, Ep0Types
    <3>3. SetupRead
      BY <2>1 DEF SetupRead
    <3>4. SetupCapture
      BY <2>1, <3>1 DEF SetupCapture
    <3> QED BY <3>2, <3>3, <3>4 DEF SetupDone
  <2> QED BY <2>2, <2>3
<1>6. CASE Fs!NoData \/ Fs!Unsupported
  <2>1. /\ packet.kind \in {"address", "plain", "bad"} /\ reqLen' \in Nat
        /\ tx'.tog = 1 /\ tx'.data = <<>> /\ rx'.tog = 1
        /\ UNCHANGED <<descr, capturing, published, captured, value, excused>>
    BY <1>1, <1>3, <1>6 DEF Fs!NoData, Fs!Unsupported, Fs!ZeroLength, Fs!Arm, Fs!Idle,
       Fs!Answer, Fs!capture
  <2> QED BY <1>1, <1>2, <1>3, <2>1 DEF SetupDone, SetupPlain, SetupRead,
       SetupCapture, Ep0Types
<1> QED BY <1>2, <1>4, <1>5, <1>6

LEMMA HsSetup == ASSUME Ep0Inv, Hs!HandleSetup PROVE SetupDone
<1>1. Ep0Types /\ KnownInv /\ irq = "setup" /\ packet = req /\ req \in Asked
  <2>1. Ep0Types /\ KnownInv /\ irq = "setup"
    BY DEF Ep0Inv, Hs!HandleSetup
  <2> QED BY <2>1 DEF Ep0Types, KnownInv, Fs!DataStage
<1>2. /\ irq' = "none" /\ setup' = packet
      /\ UNCHANGED <<stage, req, got, written, pcTog, unheard, repeated, togOk, packet>>
      /\ Hs!GetDescriptor \/ Hs!SetReport \/ Hs!NoData \/ Hs!Unsupported
  BY DEF Hs!HandleSetup, Hs!pc
<1>3. req.len \in Nat /\ <<>> \in Seq(Octet)
  BY <1>1, AskedRequests, EmptySeq
<1>4. CASE Hs!GetDescriptor
  <2> DEFINE n == Fs!Min2(Due, Mps)
             first == Fs!FirstOf(n, Whole(req.item))
  <2>1. req.kind = "get" /\ UNCHANGED <<capturing, published, captured, value, excused>>
    BY <1>1, <1>4 DEF Hs!GetDescriptor, Hs!capture
  <2>2. /\ tx'.tog = 1 /\ tx'.data = first /\ rx'.tog = 0
        /\ reqLen' = Due - Len(first) /\ descr' = Fs!After(Len(first), Whole(req.item))
    BY <1>1, <1>4, HsParts DEF Hs!GetDescriptor, Hs!Arm, Hs!Answer, Hs!Clamp, Due, Whole
  <2>3. first \in Seq(Octet) /\ Len(first) = n /\ Due - n \in Nat
        /\ Fs!After(n, Whole(req.item)) \in Seq(Octet)
    BY <1>1, <2>1, FirstPacket
  <2>4. reqLen' \in Nat /\ descr' \in Seq(Octet) /\ tx'.data \in Seq(Octet)
        /\ tx'.tog \in 0 .. 1 /\ rx'.tog \in 0 .. 1
    BY <2>2, <2>3
  <2> QED BY <1>1, <1>2, <2>1, <2>2, <2>4 DEF SetupDone, SetupPlain, SetupRead, SetupCapture
<1>5. CASE Hs!SetReport
  <2>1. /\ packet.kind = "set" /\ reqLen' = packet.len /\ tx'.tog = 0 /\ tx'.data = <<>>
        /\ rx'.tog = 1 /\ UNCHANGED <<descr, excused>>
    BY <1>5 DEF Hs!SetReport, Hs!Idle, Hs!Answer
  <2>2. CASE published
    <3>1. UNCHANGED <<capturing, published, captured, value>> /\ ~capturing'
      BY <1>1, <1>5, <2>2 DEF Hs!SetReport, Hs!capture, Ep0Types
    <3>2. /\ tx'.tog \in 0 .. 1 /\ rx'.tog \in 0 .. 1 /\ tx'.data \in Seq(Octet)
          /\ reqLen' \in Nat /\ descr' \in Seq(Octet)
      BY <1>1, <1>3, <2>1 DEF Ep0Types
    <3>3. SetupPlain
      BY <1>1, <1>2, <2>1, <3>2 DEF SetupPlain
    <3>4. SetupRead
      BY <2>1 DEF SetupRead
    <3>5. SetupCapture
      BY <2>1, <3>1 DEF SetupCapture
    <3> QED BY <3>3, <3>4, <3>5 DEF SetupDone
  <2>3. CASE ~published
    <3>1. /\ published = FALSE /\ published' = FALSE /\ capturing' = TRUE
          /\ captured' = <<>> /\ value' = packet.item
      BY <1>1, <1>5, <2>3 DEF Hs!SetReport, Hs!CaptureStart, Ep0Types
    <3>2. SetupPlain
      BY <1>1, <1>2, <1>3, <2>1 DEF SetupPlain, Ep0Types
    <3>3. SetupRead
      BY <2>1 DEF SetupRead
    <3>4. SetupCapture
      BY <2>1, <3>1 DEF SetupCapture
    <3> QED BY <3>2, <3>3, <3>4 DEF SetupDone
  <2> QED BY <2>2, <2>3
<1>6. CASE Hs!NoData \/ Hs!Unsupported
  <2>1. /\ packet.kind \in {"address", "plain", "bad"} /\ reqLen' \in Nat
        /\ tx'.tog = 1 /\ tx'.data = <<>> /\ rx'.tog \in 0 .. 1
        /\ UNCHANGED <<descr, capturing, published, captured, value, excused>>
    BY <1>1, <1>3, <1>6 DEF Hs!NoData, Hs!Unsupported, Hs!ZeroLength, Hs!Arm, Hs!Idle,
       Hs!Answer, Hs!capture
  <2> QED BY <1>1, <1>2, <1>3, <2>1 DEF SetupDone, SetupPlain, SetupRead,
       SetupCapture, Ep0Types
<1> QED BY <1>2, <1>4, <1>5, <1>6

LEMMA NothingBegun ==
    /\ \A b \in Nat : Fs!FirstOf(b, <<>>) = <<>>
    /\ \A s \in Seq(Octet) : Fs!FirstOf(0, s) = <<>>
<1>1. \A s \in Seq(Octet) : Len(s) \in Nat
  BY LenProperties
<1>2. <<>> \in Seq(Octet) /\ Len(<<>>) = 0
  BY EmptySeq
<1>3. \A b \in Nat : Fs!Min2(b, 0) = 0 /\ Fs!Min2(0, b) = 0
  BY DEF Fs!Min2
<1>4. \A s \in Seq(Octet) : SubSeq(s, 1, 0) = <<>>
  BY SubSeqEmpty
<1> QED BY <1>1, <1>2, <1>3, <1>4 DEF Fs!FirstOf

LEMMA SetupDoneKeeps == ASSUME Ep0Inv, SetupDone, UNCHANGED part PROVE Ep0Inv'
<1>1. /\ Ep0Types /\ KnownInv /\ irq = "setup" /\ irq' = "none" /\ setup' = req
      /\ stage \in {"setup", Fs!DataStage(req)} /\ got = <<>> /\ pcTog = 1
      /\ written = 0 /\ unheard = 0 /\ repeated = 0 /\ packet = req
      /\ UNCHANGED <<stage, req, got, written, pcTog, unheard, repeated, togOk, packet, excused>>
  BY DEF Ep0Inv, KnownInv, SetupDone, SetupPlain
<1>2. req \in Asked /\ stage \in {"setup", "in", "out", "statusIn"}
      /\ (stage = "in" => req.kind = "get") /\ (stage = "out" => req.kind = "set")
  BY <1>1 DEF Ep0Types, Fs!DataStage
<1>3. Ep0Types'
  <2>1. /\ capturing' \in BOOLEAN /\ published' \in BOOLEAN /\ ~(capturing' /\ published')
        /\ captured' \in Seq(Octet)
    <3>1. <<>> \in Seq(Octet)
      BY EmptySeq
    <3>2. captured' \in Seq(Octet)
      BY <1>1, <3>1 DEF SetupDone, SetupCapture, Ep0Types
    <3>3. capturing' \in BOOLEAN /\ published' \in BOOLEAN /\ ~(capturing' /\ published')
      <4>1. CASE UNCHANGED <<capturing, published>>
        <5>1. /\ capturing \in BOOLEAN /\ published \in BOOLEAN /\ ~(capturing /\ published)
              /\ capturing' = capturing /\ published' = published
          BY <1>1, <4>1 DEF Ep0Types
        <5> QED BY <5>1, Zenon
      <4>2. CASE capturing' = TRUE /\ published' = FALSE
        BY <4>2
      <4> QED BY <4>1, <4>2 DEF SetupDone, SetupCapture
    <3> QED BY <3>2, <3>3
  <2>2. /\ tx'.tog \in 0 .. 1 /\ rx'.tog \in 0 .. 1 /\ tx'.data \in Seq(Octet)
        /\ reqLen' \in Nat /\ descr' \in Seq(Octet)
    BY DEF SetupDone, SetupPlain
  <2>3. excused' \in BOOLEAN /\ togOk' \in BOOLEAN
    BY <1>1 DEF Ep0Types
  <2>4. /\ stage' \in {"idle", "setup", "in", "out", "statusIn", "statusOut"}
        /\ req' \in Asked \cup {Fs!None} /\ (stage' # "idle" => req' \in Asked)
        /\ irq' \in {"none", "setup", "in", "out"} /\ pcTog' \in 0 .. 1
        /\ written' \in Nat /\ unheard' \in Nat /\ repeated' \in Nat /\ got' \in Seq(Octet)
    BY <1>1 DEF Ep0Types
  <2> QED BY <2>1, <2>2, <2>3, <2>4 DEF Ep0Types
<1>4. KnownInv'
  BY <1>1, <1>2 DEF KnownInv
<1>5. ReadInv'
  <2> SUFFICES ASSUME stage = "in" PROVE ReadInv'
    BY <1>1 DEF ReadInv
  <2> DEFINE n == Fs!Min2(Due, Mps)
             B == Whole(req.item)
  <2>1. /\ n \in Nat /\ Len(Fs!FirstOf(n, B)) = n /\ Fs!FirstOf(n, B) = SubSeq(B, 1, n)
        /\ n <= Due /\ n <= Mps /\ (n = Mps \/ n = Due)
    BY <1>2, FirstPacket
  <2>2. /\ tx'.tog = 1 /\ tx'.data = Fs!FirstOf(n, B) /\ reqLen' = Due - n
        /\ descr' = Fs!After(n, B)
    BY <1>1, <1>2, <2>1 DEF SetupDone, SetupRead
  <2>3. Due' = Due /\ Whole(req.item)' = B /\ Due \in Nat /\ B \in Seq(Octet)
    BY <1>1, <1>2, TransferData DEF Due, Whole
  <2>4. got' = Begun(req'.item, Len(got')) /\ Len(got') = 0
    <3>1. Len(<<>>) = 0
      BY EmptySeq
    <3> QED BY <1>1, <2>3, <3>1, NothingBegun DEF Begun
  <2> HIDE DEF n, B
  <2>5. /\ Due' - reqLen' = n /\ Len(tx'.data) = n /\ Due' - reqLen' - Len(tx'.data) + 1 = 1
        /\ Due' - reqLen' - Len(tx'.data) = 0 /\ reqLen' \in 0 .. Due'
        /\ (n = Mps \/ (reqLen' = 0 /\ n < Mps))
    BY <2>1, <2>2, <2>3, PacketAssumption
  <2>6. /\ descr' = Fs!After(Due' - reqLen', Whole(req'.item))
        /\ tx'.data = SubSeq(Whole(req'.item), Due' - reqLen' - Len(tx'.data) + 1,
                             Due' - reqLen')
    BY <2>1, <2>2, <2>3, <2>5
  <2>7. tx'.tog = pcTog' /\ irq' = "none" /\ Len(tx'.data) \in 0 .. Due' - reqLen'
    BY <1>1, <2>1, <2>2, <2>5
  <2> QED BY <2>4, <2>5, <2>6, <2>7 DEF ReadInv, Begun, Whole
<1>6. capturing' => stage # "out" \/ value' = req.item
  BY <1>1, <1>2 DEF SetupDone, SetupCapture
<1>7. WriteInv'
  BY <1>1, <1>6 DEF Ep0Inv, WriteInv
<1>8. ASSUME stage = "out", capturing' PROVE Counted(written)' /\ Kept(written)'
  <2>1. reqLen' = req.len /\ captured' = <<>>
    BY <1>1, <1>2, <1>8 DEF SetupDone, SetupCapture
  <2>2. req.len = Sizes[req.item] /\ req.len \in Nat \ {0} /\ Whole(req.item) \in Seq(Octet)
    BY <1>2, <1>8, TransferData
  <2>3. 0 * Mps = 0 /\ req.len - 0 = req.len
    BY <2>2, PacketAssumption
  <2>4. Counted(written)'
    BY <1>1, <2>1, <2>2, <2>3 DEF Counted
  <2>5. Fs!FirstOf(BufMax, Fs!FirstOf(0, Whole(req.item))) = <<>>
    BY <2>2, NothingBegun, PacketAssumption
  <2>6. Kept(written)'
    BY <1>1, <2>1, <2>3, <2>5 DEF Kept, Begun, Whole
  <2> QED BY <2>4, <2>6
<1>9. HsInv'
  BY <1>1, <1>8 DEF HsInv
<1>10. FsInv'
  <2> SUFFICES ASSUME stage = "out", capturing' PROVE CountedOf(written)'
    BY <1>1 DEF FsInv
  <2>1. written' \in 0 .. written' /\ written' = 0
    BY <1>1
  <2> QED BY <1>8, <2>1 DEF CountedOf, Counted, Kept
<1>11. PublishedInv' /\ Fs!DescriptorWhole'
  BY <1>1, <1>2 DEF Ep0Inv, PublishedInv, SetupDone, SetupCapture, Fs!DescriptorWhole
<1> QED BY <1>3, <1>4, <1>5, <1>7, <1>9, <1>10, <1>11 DEF Ep0Inv

-----------------------------------------------------------------------------
\* A data packet was taken
InDone ==
    /\ irq = "in" /\ irq' = "none" /\ rx'.tog \in 0 .. 1
    /\ UNCHANGED <<stage, req, got, written, pcTog, unheard, repeated, togOk, packet, setup,
                   capturing, published, captured, value, excused>>
    /\ IF setup.kind = "get"
       THEN LET next == Fs!FirstOf(Fs!Min2(reqLen, Mps), descr)
            IN  /\ tx'.tog = 1 - tx.tog /\ tx'.data = next
                /\ reqLen' = reqLen - Len(next) /\ descr' = Fs!After(Len(next), descr)
       ELSE UNCHANGED <<tx, reqLen, descr>>

LEMMA FsInDone == ASSUME Ep0Inv, Fs!HandleIn PROVE InDone
<1>1. rx.tog \in 0 .. 1
  BY DEF Ep0Inv, Ep0Types
<1>2. rx'.tog \in 0 .. 1
  BY <1>1 DEF Fs!HandleIn, Fs!OpenStatus, Fs!Answer
<1> QED BY <1>2 DEF InDone, Fs!HandleIn, Fs!Arm, Fs!Answer, Fs!Advanced, Fs!pc, Fs!capture

LEMMA HsInDone == ASSUME Ep0Inv, Hs!HandleIn PROVE InDone
<1>1. rx.tog \in 0 .. 1
  BY DEF Ep0Inv, Ep0Types
<1>2. rx'.tog \in 0 .. 1
  BY <1>1 DEF Hs!HandleIn, Hs!Answer
<1> QED BY <1>2, HsParts DEF InDone, Hs!HandleIn, Hs!Arm, Hs!Answer, Hs!NextToggle, Hs!pc,
           Hs!capture

LEMMA InDoneKeeps == ASSUME Ep0Inv, InDone, UNCHANGED part PROVE Ep0Inv'
<1> DEFINE n == Fs!Min2(reqLen, Mps)
           next == Fs!FirstOf(n, descr)
<1>1. /\ Ep0Types /\ KnownInv /\ irq = "in" /\ irq' = "none" /\ rx'.tog \in 0 .. 1
      /\ UNCHANGED <<stage, req, got, written, pcTog, unheard, repeated, togOk, packet,
                     setup, capturing, published, captured, value, excused>>
  BY DEF Ep0Inv, InDone
<1>2. setup.kind = "get" =>
        /\ tx'.tog = 1 - tx.tog /\ tx'.data = next
        /\ reqLen' = reqLen - Len(next) /\ descr' = Fs!After(Len(next), descr)
  BY DEF InDone
<1>3. setup.kind # "get" => UNCHANGED <<tx, reqLen, descr>>
  BY DEF InDone
<1>4. /\ reqLen \in Nat /\ descr \in Seq(Octet) /\ Len(descr) \in Nat /\ tx.tog \in 0 .. 1
  BY <1>1, LenProperties DEF Ep0Types
<1>5. n \in Nat /\ n <= reqLen /\ n <= Mps /\ (n = Mps \/ n = reqLen)
  BY <1>4, PacketAssumption DEF Fs!Min2
<1> HIDE DEF n
<1>6. /\ next \in Seq(Octet) /\ Len(next) \in Nat /\ Len(next) <= n
      /\ Len(next) <= Len(descr)
  <2>1. next \in Seq(Octet) /\ Len(next) = Fs!Min2(n, Len(descr))
    BY <1>4, <1>5, FirstOfProperties
  <2> QED BY <1>4, <1>5, <2>1 DEF Fs!Min2
<1> HIDE DEF next
<1>7. Fs!After(Len(next), descr) \in Seq(Octet)
  BY <1>4, <1>6, AfterProperties
<1>8. /\ reqLen' \in Nat /\ descr' \in Seq(Octet) /\ tx'.data \in Seq(Octet)
      /\ tx'.tog \in 0 .. 1
  <2>1. CASE setup.kind = "get"
    BY <1>2, <1>4, <1>5, <1>6, <1>7, <2>1
  <2>2. CASE setup.kind # "get"
    BY <1>1, <1>3, <2>2 DEF Ep0Types
  <2> QED BY <2>1, <2>2
<1>9. Ep0Types'
  <2>1. /\ capturing' \in BOOLEAN /\ published' \in BOOLEAN /\ ~(capturing' /\ published')
        /\ excused' \in BOOLEAN /\ togOk' \in BOOLEAN
    BY <1>1, Zenon DEF Ep0Types
  <2>2. /\ stage' \in {"idle", "setup", "in", "out", "statusIn", "statusOut"}
        /\ req' \in Asked \cup {Fs!None} /\ (stage' # "idle" => req' \in Asked)
        /\ pcTog' \in 0 .. 1 /\ written' \in Nat /\ unheard' \in Nat /\ repeated' \in Nat
        /\ got' \in Seq(Octet) /\ captured' \in Seq(Octet)
    BY <1>1 DEF Ep0Types
  <2> QED BY <1>1, <1>8, <2>1, <2>2 DEF Ep0Types
<1>10. KnownInv'
  BY <1>1 DEF KnownInv
<1>11. ReadInv'
  <2> SUFFICES ASSUME stage = "in" PROVE ReadInv'
    BY <1>1 DEF ReadInv
  <2> DEFINE B == Whole(req.item)
             b == Due - reqLen
  <2>1. ReadInv /\ setup = req /\ req.kind = "get" /\ req \in Asked
    BY <1>1 DEF Ep0Inv, KnownInv, Ep0Types
  <2>2. B \in Seq(Octet) /\ Due \in 0 .. Len(B) /\ Len(B) \in Nat
    BY <2>1, TransferData
  <2>3. /\ b \in Nat /\ reqLen \in 0 .. Due /\ descr = Fs!After(b, B)
        /\ got = Begun(req.item, Len(got)) /\ Len(got) = b /\ tx.tog # pcTog
    BY <1>1, <2>1, <2>2 DEF ReadInv
  <2>4. b <= Len(B) /\ n <= Len(B) - b /\ b + n <= Len(B)
    BY <1>4, <1>5, <2>2, <2>3
  <2>5. next = SubSeq(B, b + 1, b + n) /\ Fs!After(n, descr) = Fs!After(b + n, B)
    <3> HIDE DEF B, b
    <3>1. Fs!FirstOf(n, Fs!After(b, B)) = SubSeq(B, b + 1, b + n)
      BY <1>5, <2>2, <2>3, <2>4, AfterProperties
    <3>2. Fs!After(n, Fs!After(b, B)) = Fs!After(b + n, B)
      BY <1>5, <2>2, <2>3, <2>4, AfterProperties
    <3> QED BY <2>3, <3>1, <3>2 DEF next
  <2>6. Len(next) = n
    <3>1. (b + n) - b = n /\ b <= b + n /\ b + n \in Nat
      BY <1>5, <2>3
    <3> HIDE DEF B, b
    <3>2. Len(SubSeq(B, b + 1, b + n)) = (b + n) - b
      <4> DEFINE e == b + n
      <4>1. B \in Seq(Octet) /\ b \in Nat /\ e \in Nat /\ b <= e /\ e <= Len(B)
        BY <2>2, <2>3, <2>4, <3>1
      <4> HIDE DEF next, e
      <4>2. Len(SubSeq(B, b + 1, e)) = e - b
        BY <4>1, PartProperties
      <4> QED BY <4>2 DEF e
    <3> QED BY <2>5, <3>1, <3>2
  <2>7. /\ tx'.tog = pcTog /\ tx'.data = next /\ Len(tx'.data) = n
        /\ reqLen' = reqLen - n /\ descr' = Fs!After(b + n, B)
    <3>1. tx'.tog = 1 - tx.tog /\ pcTog \in 0 .. 1
      BY <1>1, <1>2, <2>1 DEF Ep0Types
    <3>2. tx'.tog = pcTog
      BY <1>4, <2>3, <3>1
    <3> QED BY <1>2, <2>1, <2>5, <2>6, <3>2
  <2>8. Due' = Due /\ Whole(req.item)' = B
    BY <1>1 DEF Due, Whole
  <2>9. /\ Due' - reqLen' = b + n /\ Due' - reqLen' - Len(tx'.data) = b
        /\ Due' - reqLen' - Len(tx'.data) + 1 = b + 1
        /\ reqLen' \in 0 .. Due' /\ Len(tx'.data) \in 0 .. Due' - reqLen'
        /\ Len(tx'.data) = Mps \/ (reqLen' = 0 /\ Len(tx'.data) < Mps)
    BY <1>4, <1>5, <2>2, <2>3, <2>7, <2>8, PacketAssumption
  <2> HIDE DEF B, b
  <2>10. /\ descr' = Fs!After(Due' - reqLen', Whole(req'.item))
         /\ tx'.data = SubSeq(Whole(req'.item), Due' - reqLen' - Len(tx'.data) + 1,
                              Due' - reqLen')
    BY <2>5, <2>7, <2>8, <2>9
  <2>11. got' = Begun(req'.item, Len(got')) /\ Len(got') = b /\ tx'.tog = pcTog'
    BY <1>1, <2>3, <2>7, <2>8 DEF Begun
  <2> QED BY <1>1, <2>9, <2>10, <2>11 DEF ReadInv, Begun, Whole
<1>12. WriteInv' /\ FsInv' /\ HsInv' /\ PublishedInv' /\ Fs!DescriptorWhole'
  BY <1>1 DEF Ep0Inv, KnownInv, WriteInv, FsInv, HsInv, PublishedInv, Fs!DescriptorWhole
<1> QED BY <1>9, <1>10, <1>11, <1>12 DEF Ep0Inv

-----------------------------------------------------------------------------
\* A packet of a SET_REPORT, and what the capture is with it
LEMMA NextPacket ==
    ASSUME req \in Asked, req.kind = "set", NEW c \in Nat, c * Mps < req.len
    PROVE  /\ Fs!WritePacket(c + 1) \in Seq(Octet)
           /\ c * Mps \in Nat /\ (c + 1) * Mps = c * Mps + Mps
           /\ Begun(req.item, c * Mps) \in Seq(Octet)
           /\ Begun(req.item, c * Mps) \o Fs!WritePacket(c + 1)
                = Begun(req.item, (c + 1) * Mps)
           /\ Sizes[req.item] <= (c + 1) * Mps =>
                Begun(req.item, (c + 1) * Mps) = Whole(req.item)
<1> DEFINE B == Whole(req.item)
           a == c * Mps
           t == Fs!After(a, B)
           p == Fs!FirstOf(Mps, t)
<1>1. /\ B \in Seq(Octet) /\ Len(B) = Sizes[req.item] /\ Len(B) \in Nat
      /\ req.len = Len(B)
  BY TransferData
<1>2. a \in Nat /\ a < Len(B) /\ (c + 1) * Mps = a + Mps
  BY <1>1, PacketAssumption
<1>3. c + 1 - 1 = c
  OBVIOUS
<1> HIDE DEF B, a
<1>4. \A n \in Nat : n >= Len(B) => Fs!FirstOf(n, B) = B
  <2> TAKE n \in Nat
  <2> HAVE n >= Len(B)
  <2>1. Fs!Min2(n, Len(B)) = Len(B)
    BY <1>1 DEF Fs!Min2
  <2>2. /\ Fs!FirstOf(n, B) \in Seq(Octet) /\ Len(Fs!FirstOf(n, B)) = Len(B)
        /\ \A i \in 1 .. Len(B) : Fs!FirstOf(n, B)[i] = B[i]
    <3>1. Fs!FirstOf(n, B) \in Seq(Octet) /\ Len(Fs!FirstOf(n, B)) = Len(B)
      BY <1>1, <2>1, FirstOfProperties
    <3>2. \A i \in 1 .. Fs!Min2(n, Len(B)) : Fs!FirstOf(n, B)[i] = B[i]
      BY <1>1, FirstOfProperties
    <3> QED BY <2>1, <3>1, <3>2
  <2> QED BY <1>1, <2>2, SeqEqual
<1>5. Fs!WritePacket(c + 1) = p
  <2>1. Fs!FirstOf(req.len, B) = B
    BY <1>1, <1>4
  <2> QED BY <1>3, <2>1 DEF Fs!WritePacket, B, a, Whole
<1>6. /\ t \in Seq(Octet) /\ Len(t) = Len(B) - a /\ Len(t) \in Nat
      /\ \A n \in Nat : n <= Len(B) - a => Fs!FirstOf(n, t) = SubSeq(B, a + 1, a + n)
  <2>1. a <= Len(B) /\ 0 \in Nat /\ Len(B) - a \in Nat
    BY <1>1, <1>2
  <2>2. t \in Seq(Octet) /\ Len(t) = Len(B) - a
    BY <1>1, <1>2, <2>1, AfterProperties
  <2>3. \A n \in Nat : n <= Len(B) - a => Fs!FirstOf(n, t) = SubSeq(B, a + 1, a + n)
    <3> TAKE n \in Nat
    <3> HAVE n <= Len(B) - a
    <3>1. Fs!FirstOf(n, Fs!After(a, B)) = SubSeq(B, a + 1, a + n)
      <4>1. B \in Seq(Octet) /\ a \in Nat /\ a <= Len(B)
        BY <1>1, <1>2, <2>1
      <4> HIDE DEF t
      <4> QED BY <4>1, AfterProperties
    <3> QED BY <3>1
  <2> QED BY <2>1, <2>2, <2>3
<1> HIDE DEF t
<1>7. p \in Seq(Octet)
  BY <1>6, FirstOfProperties, PacketAssumption
<1>8. Fs!FirstOf(a, B) \in Seq(Octet)
  BY <1>1, <1>2, FirstOfProperties
<1>9. Fs!FirstOf(a, B) \o p = Fs!FirstOf(a + Mps, B)
  <2>1. CASE Mps <= Len(B) - a
    <3>1. a + Mps \in Nat /\ a <= a + Mps /\ a + Mps <= Len(B) /\ Mps \in Nat
      BY <1>1, <1>2, <2>1, PacketAssumption
    <3>2. p = SubSeq(B, a + 1, a + Mps)
      BY <1>6, <2>1, <3>1
    <3> QED BY <1>1, <1>2, <3>1, <3>2, BegunGrows
  <2>2. CASE ~(Mps <= Len(B) - a)
    <3>0. Len(t) = Len(B) - a /\ Mps \in Nat
      BY <1>6, PacketAssumption
    <3>1. /\ a + Len(t) = Len(B) /\ Len(t) <= Len(B) - a /\ a <= Len(B)
          /\ a + Mps \in Nat /\ a + Mps >= Len(B) /\ Len(B) >= Len(B)
      BY <1>1, <1>2, <2>2, <3>0
    <3>2. Fs!Min2(Mps, Len(t)) = Len(t) /\ Fs!Min2(Len(t), Len(t)) = Len(t)
      BY <1>6, <2>2, PacketAssumption DEF Fs!Min2
    <3>3. p = Fs!FirstOf(Len(t), t)
      BY <3>2 DEF Fs!FirstOf
    <3>4. p = SubSeq(B, a + 1, Len(B))
      BY <1>6, <3>1, <3>3
    <3>5. Fs!FirstOf(a, B) \o SubSeq(B, a + 1, Len(B)) = Fs!FirstOf(Len(B), B)
      BY <1>1, <1>2, <3>1, BegunGrows
    <3> QED BY <1>1, <1>4, <3>1, <3>4, <3>5
  <2> QED BY <2>1, <2>2
<1>10. Len(B) <= a + Mps => Fs!FirstOf(a + Mps, B) = B
  BY <1>1, <1>2, <1>4, PacketAssumption
<1> HIDE DEF p
<1> QED BY <1>1, <1>2, <1>5, <1>7, <1>8, <1>9, <1>10 DEF Begun, B, a

LEMMA CountPacket ==
    ASSUME req \in Asked, req.kind = "set", NEW n \in Nat, n >= 1, (n - 1) * Mps < req.len,
           reqLen \in Nat, packet = Fs!WritePacket(n),
           NEW c \in 0 .. n - 1, Counted(c), c = n - 1 => Kept(c)
    PROVE  /\ reqLen > Mps =>
                /\ reqLen - Mps = Sizes[req.item] - (c + 1) * Mps /\ reqLen - Mps > 0
                /\ c = n - 1 =>
                     Fs!FirstOf(BufMax, captured \o packet)
                       = Fs!FirstOf(BufMax, Begun(req.item, (c + 1) * Mps))
           /\ reqLen <= Mps =>
                Fs!FirstOf(BufMax, captured \o packet) = Fs!FirstOf(BufMax, Whole(req.item))
<1>1. /\ Sizes[req.item] \in Nat /\ req.len = Sizes[req.item] /\ c \in Nat
      /\ reqLen = Sizes[req.item] - c * Mps /\ reqLen > 0 /\ Mps \in Nat \ {0}
  BY TransferData, PacketAssumption DEF Counted
<1>2. /\ c * Mps \in Nat /\ (n - 1) * Mps \in Nat /\ (c + 1) * Mps = c * Mps + Mps
      /\ c * Mps < req.len
  BY <1>1
<1>3. ASSUME reqLen <= Mps PROVE c = n - 1 /\ Sizes[req.item] <= (c + 1) * Mps
  <2>1. Sizes[req.item] <= (c + 1) * Mps
    BY <1>1, <1>2, <1>3
  <2>2. ASSUME c # n - 1 PROVE FALSE
    <3>1. PICK d \in Nat : n - 1 = c + 1 + d
      <4>1. n - 1 - (c + 1) \in Nat /\ n - 1 = c + 1 + (n - 1 - (c + 1))
        BY <2>2
      <4> QED BY <4>1
    <3>2. (n - 1) * Mps = (c + 1) * Mps + d * Mps /\ d * Mps \in Nat
      BY <1>1, <3>1
    <3> QED BY <1>1, <1>2, <2>1, <3>2
  <2> QED BY <2>1, <2>2
<1>4. ASSUME c = n - 1
      PROVE  Fs!FirstOf(BufMax, captured \o packet)
               = Fs!FirstOf(BufMax, Begun(req.item, (c + 1) * Mps))
  <2> DEFINE s == Begun(req.item, c * Mps)
  <2>1. /\ packet = Fs!WritePacket(c + 1) /\ captured = Fs!FirstOf(BufMax, s)
    <3>1. n = c + 1
      BY <1>4
    <3> QED BY <1>4, <3>1 DEF Kept
  <2>2. /\ s \in Seq(Octet) /\ packet \in Seq(Octet)
        /\ s \o packet = Begun(req.item, (c + 1) * Mps)
    BY <1>1, <1>2, <2>1, NextPacket
  <2> HIDE DEF s
  <2>3. Fs!FirstOf(BufMax, Fs!FirstOf(BufMax, s) \o packet)
          = Fs!FirstOf(BufMax, s \o packet)
    BY <2>2, CutConcat, PacketAssumption
  <2> QED BY <2>1, <2>2, <2>3
<1>5. ASSUME reqLen <= Mps
      PROVE  Fs!FirstOf(BufMax, captured \o packet) = Fs!FirstOf(BufMax, Whole(req.item))
  <2>1. Begun(req.item, (c + 1) * Mps) = Whole(req.item)
    BY <1>1, <1>2, <1>3, <1>5, NextPacket
  <2> QED BY <1>3, <1>4, <1>5, <2>1
<1>6. reqLen > Mps =>
        reqLen - Mps = Sizes[req.item] - (c + 1) * Mps /\ reqLen - Mps > 0
  BY <1>1, <1>2
<1> QED BY <1>4, <1>5, <1>6

\* An OUT packet has been dealt with: it counted, or it was skipped.
OutPlain ==
    /\ irq = "out" /\ irq' = "none"
    /\ UNCHANGED <<stage, req, got, written, pcTog, unheard, repeated, togOk, packet, setup,
                   descr, value>>
    /\ tx'.tog \in 0 .. 1 /\ tx'.data \in Seq(Octet) /\ rx'.tog \in 0 .. 1

OutSkipped == OutPlain /\ UNCHANGED <<reqLen, captured, excused, capturing, published>>

OutCounted(most) ==
    /\ OutPlain /\ setup.kind = "set"
    /\ reqLen' = IF reqLen > Mps THEN reqLen - Mps ELSE 0
    /\ IF capturing
       THEN /\ captured' = Fs!FirstOf(BufMax, captured \o packet)
            /\ excused' = (repeated > most)
            /\ capturing' = (reqLen' # 0) /\ published' = (reqLen' = 0)
       ELSE UNCHANGED <<captured, excused, capturing, published>>

\* The packet that waits is one the PC wrote.
LEMMA WaitingPacket ==
    ASSUME Ep0Inv, irq = "out", setup.kind = "set"
    PROVE  /\ setup = req /\ req \in Asked /\ packet \in Seq(Octet)
           /\ Number \in Nat /\ Number >= 1 /\ (Number - 1) * Mps < req.len
           /\ packet = Fs!WritePacket(Number) /\ (capturing => value = req.item)
           /\ stage \in {"out", "statusIn"} /\ (stage = "statusIn" => unheard = 0)
<1>1. /\ Ep0Types /\ KnownInv /\ WriteInv
  BY DEF Ep0Inv
<1>2. /\ setup = req /\ req \in Asked /\ stage \in {"out", "statusIn"}
      /\ stage = "statusIn" => unheard = 0
  BY <1>1 DEF Ep0Types, KnownInv
<1>3. Number \in Nat
  BY <1>1 DEF Ep0Types, Number
<1>4. /\ Number >= 1 /\ (Number - 1) * Mps < req.len /\ packet = Fs!WritePacket(Number)
      /\ capturing => value = req.item
  BY <1>1 DEF WriteInv
<1>5. packet \in Seq(Octet)
  <2>1. Number - 1 \in Nat /\ Number - 1 + 1 = Number
    BY <1>3, <1>4
  <2>2. Fs!WritePacket(Number - 1 + 1) \in Seq(Octet)
    BY <1>2, <1>4, <2>1, NextPacket
  <2> QED BY <1>4, <2>1, <2>2
<1> QED BY <1>2, <1>3, <1>4, <1>5

\* What does not depend on whether the packet counted
LEMMA OutRest ==
    ASSUME Ep0Inv, OutPlain, UNCHANGED part, reqLen' \in Nat, captured' \in Seq(Octet),
           capturing' \in BOOLEAN, published' \in BOOLEAN, excused' \in BOOLEAN,
           ~(capturing' /\ published'), capturing' => capturing
    PROVE  /\ Ep0Types' /\ KnownInv' /\ ReadInv' /\ WriteInv' /\ Fs!DescriptorWhole'
           /\ irq = "out" /\ irq' = "none"
           /\ UNCHANGED <<stage, req, got, written, pcTog, unheard, repeated, togOk, packet,
                          setup, descr, value>>
           /\ stage = "out" => setup.kind = "set"
<1>1. /\ Ep0Types /\ KnownInv /\ WriteInv /\ Fs!DescriptorWhole
      /\ irq = "out" /\ irq' = "none"
      /\ UNCHANGED <<stage, req, got, written, pcTog, unheard, repeated, togOk, packet,
                     setup, descr, value>>
      /\ tx'.tog \in 0 .. 1 /\ tx'.data \in Seq(Octet) /\ rx'.tog \in 0 .. 1
  BY DEF Ep0Inv, OutPlain
<1>2. Ep0Types'
  <2>1. /\ stage' \in {"idle", "setup", "in", "out", "statusIn", "statusOut"}
        /\ req' \in Asked \cup {Fs!None} /\ (stage' # "idle" => req' \in Asked)
        /\ pcTog' \in 0 .. 1 /\ written' \in Nat /\ unheard' \in Nat /\ repeated' \in Nat
        /\ got' \in Seq(Octet) /\ descr' \in Seq(Octet)
    BY <1>1 DEF Ep0Types
  <2>2. togOk' \in BOOLEAN
    BY <1>1 DEF Ep0Types
  <2>3. /\ capturing' \in BOOLEAN /\ published' \in BOOLEAN /\ ~(capturing' /\ published')
        /\ excused' \in BOOLEAN
    OBVIOUS
  <2> QED BY <1>1, <2>1, <2>2, <2>3 DEF Ep0Types
<1>3. KnownInv' /\ ReadInv' /\ Fs!DescriptorWhole'
  BY <1>1 DEF KnownInv, ReadInv, Fs!DescriptorWhole
<1>4. stage = "out" => setup.kind = "set"
  BY <1>1 DEF KnownInv
<1>5. WriteInv'
  <2>1. stage' = "out" => written' * Mps < req'.len
    BY <1>1 DEF WriteInv
  <2>2. stage' = "out" /\ capturing' => value' = req'.item
    BY <1>1, <1>4, WaitingPacket
  <2> QED BY <1>1, <2>1, <2>2 DEF WriteInv
<1> QED BY <1>1, <1>2, <1>3, <1>4, <1>5

\* A packet that did not count: High Speed skips only the status stage; at Full Speed
\* the toggle told that it was a repeat, or that the driver had lost count.
LEMMA SkippedKeeps ==
    ASSUME Ep0Inv, OutSkipped, UNCHANGED part,
           setup.kind # "set"
             \/ (part = "fs" /\ togOk = FALSE /\ (reqLen # 0 => rx'.tog = 1 - rx.tog))
    PROVE  Ep0Inv'
<1>1. Ep0Types /\ UNCHANGED <<reqLen, captured, excused, capturing, published>> /\ OutPlain
  BY DEF Ep0Inv, OutSkipped
<1>2. /\ Ep0Types' /\ KnownInv' /\ ReadInv' /\ WriteInv' /\ Fs!DescriptorWhole'
      /\ irq = "out" /\ irq' = "none"
      /\ UNCHANGED <<stage, req, got, written, pcTog, unheard, repeated, togOk, packet,
                     setup, descr, value>>
      /\ stage = "out" => setup.kind = "set"
  <2>1. capturing' \in BOOLEAN /\ published' \in BOOLEAN /\ ~(capturing' /\ published')
        /\ excused' \in BOOLEAN /\ (capturing' => capturing)
    <3>1. capturing \in BOOLEAN /\ published \in BOOLEAN /\ ~(capturing /\ published)
          /\ excused \in BOOLEAN
      BY <1>1 DEF Ep0Types
    <3> QED BY <1>1, <3>1, Zenon
  <2>2. reqLen' \in Nat /\ captured' \in Seq(Octet)
    BY <1>1 DEF Ep0Types
  <2> QED BY <1>1, <2>1, <2>2, OutRest
<1>3. PublishedInv'
  BY <1>1, <1>2 DEF Ep0Inv, PublishedInv
<1>4. CASE setup.kind # "set"
  <2>1. FsInv' /\ HsInv'
    BY <1>2, <1>4 DEF FsInv, HsInv
  <2> QED BY <1>2, <1>3, <2>1 DEF Ep0Inv
<1>5. CASE setup.kind = "set"
  <2>1. part = "fs" /\ togOk = FALSE /\ (reqLen # 0 => rx'.tog = 1 - rx.tog) /\ FsInv
    BY <1>5 DEF Ep0Inv
  <2>2. FsInv'
    <3> SUFFICES ASSUME stage = "out", capturing, repeated <= 1, unheard <= 1
                 PROVE  CountedOf(IF unheard = 1 /\ rx.tog # pcTog
                                  THEN written + 1 ELSE written)'
      BY <1>1, <1>2 DEF FsInv
    <3>1. CountedOf(written) /\ (unheard > 0 => rx.tog # pcTog)
      BY <1>2, <1>5, <2>1 DEF FsInv
    <3>2. unheard = 1 => rx'.tog = pcTog
      <4>1. reqLen # 0
        BY <3>1 DEF CountedOf, Counted
      <4> QED BY <1>1, <2>1, <3>1, <4>1 DEF Ep0Types
    <3>3. CountedOf(written)'
      BY <1>1, <1>2, <3>1 DEF CountedOf, Counted, Kept, Begun, Whole
    <3>4. unheard' = unheard /\ pcTog' = pcTog
      BY <1>2
    <3>5. ~(unheard' = 1 /\ rx'.tog # pcTog')
      BY <3>2, <3>4
    <3> QED BY <3>3, <3>5 DEF CountedOf, Counted, Kept
  <2> QED BY <1>2, <1>3, <2>1, <2>2 DEF Ep0Inv
<1> QED BY <1>4, <1>5

\* A packet that counted: of at most n packets written the driver has one more.
LEMMA CountedKeeps ==
    ASSUME Ep0Inv, NEW most \in 0 .. 1, OutCounted(most), UNCHANGED part,
           \/ part = "fs" /\ most = 1 /\ togOk = TRUE
              /\ (reqLen' # 0 => rx'.tog = 1 - rx.tog)
           \/ part = "hs" /\ most = 0
    PROVE  Ep0Inv'
<1>1. /\ Ep0Types /\ OutPlain /\ setup.kind = "set" /\ irq = "out"
      /\ reqLen' = (IF reqLen > Mps THEN reqLen - Mps ELSE 0)
      /\ reqLen \in Nat /\ captured \in Seq(Octet) /\ repeated \in Nat
      /\ written \in Nat /\ unheard \in Nat
  BY DEF Ep0Inv, Ep0Types, OutCounted, OutPlain
<1>2. /\ setup = req /\ req \in Asked /\ packet \in Seq(Octet)
      /\ Number \in Nat /\ Number >= 1 /\ (Number - 1) * Mps < req.len
      /\ packet = Fs!WritePacket(Number) /\ (capturing => value = req.item)
      /\ stage \in {"out", "statusIn"} /\ (stage = "statusIn" => unheard = 0)
  BY <1>1, WaitingPacket
<1>3. reqLen' \in Nat
  BY <1>1, PacketAssumption
<1>4. CASE ~capturing
  <2>1. UNCHANGED <<captured, excused, capturing, published>>
    BY <1>4 DEF OutCounted
  <2>2. /\ capturing' \in BOOLEAN /\ published' \in BOOLEAN /\ ~(capturing' /\ published')
        /\ excused' \in BOOLEAN /\ ~capturing'
    <3>1. capturing \in BOOLEAN /\ published \in BOOLEAN /\ ~(capturing /\ published)
          /\ excused \in BOOLEAN
      BY <1>1 DEF Ep0Types
    <3> QED BY <1>4, <2>1, <3>1, Zenon
  <2>3. captured' \in Seq(Octet) /\ (capturing' => capturing)
    BY <1>1, <2>1, <2>2
  <2>4. /\ Ep0Types' /\ KnownInv' /\ ReadInv' /\ WriteInv' /\ Fs!DescriptorWhole'
        /\ irq' = "none" /\ value' = value
    BY <1>1, <1>3, <2>2, <2>3, OutRest
  <2>5. PublishedInv' /\ FsInv' /\ HsInv'
    BY <2>1, <2>2, <2>4 DEF Ep0Inv, PublishedInv, FsInv, HsInv
  <2> QED BY <2>4, <2>5 DEF Ep0Inv
<1>5. CASE capturing
  <2>1. /\ captured' = Fs!FirstOf(BufMax, captured \o packet)
        /\ excused' = (repeated > most)
        /\ capturing' = (reqLen' # 0) /\ published' = (reqLen' = 0)
    BY <1>5 DEF OutCounted
  <2>2. captured' \in Seq(Octet)
    BY <1>1, <1>2, <2>1, ConcatProperties, FirstOfProperties, PacketAssumption
  <2>3. /\ capturing' \in BOOLEAN /\ published' \in BOOLEAN /\ excused' \in BOOLEAN
        /\ ~(capturing' /\ published')
    <3>1. capturing' \in BOOLEAN /\ published' \in BOOLEAN
      BY <2>1
    <3>2. excused' \in BOOLEAN
      BY <2>1
    <3>3. ~(capturing' /\ published')
      BY <2>1
    <3> QED BY <3>1, <3>2, <3>3
  <2>4. /\ Ep0Types' /\ KnownInv' /\ ReadInv' /\ WriteInv' /\ Fs!DescriptorWhole'
        /\ irq' = "none"
        /\ UNCHANGED <<stage, req, got, written, pcTog, unheard, repeated, togOk, packet,
                       setup, descr, value>>
    BY <1>1, <1>3, <1>5, <2>2, <2>3, OutRest
  <2>5. ASSUME repeated <= most PROVE CountedOf(Number - 1)
    <3>1. CASE part = "fs"
      BY <1>1, <1>5, <2>5, <3>1 DEF Ep0Inv, FsInv
    <3>2. CASE part = "hs"
      <4>1. Counted(Number - 1) /\ Kept(Number - 1)
        BY <1>1, <1>5, <2>5, <3>2 DEF Ep0Inv, HsInv
      <4>2. Number - 1 \in 0 .. Number - 1
        BY <1>2
      <4> QED BY <4>1, <4>2 DEF CountedOf
    <3> QED BY <3>1, <3>2
  \* One more of n packets, or all of them
  <2>6. ASSUME repeated <= most, NEW c \in 0 .. Number - 1, Counted(c),
               c = Number - 1 => Kept(c)
        PROVE  /\ reqLen' # 0 => Counted(c + 1)' /\ (c = Number - 1 => Kept(c + 1)')
               /\ reqLen' = 0 => captured' = Fs!FirstOf(BufMax, Whole(req.item))
    <3>1. /\ reqLen > Mps =>
               /\ reqLen - Mps = Sizes[req.item] - (c + 1) * Mps /\ reqLen - Mps > 0
               /\ c = Number - 1 =>
                    Fs!FirstOf(BufMax, captured \o packet)
                      = Fs!FirstOf(BufMax, Begun(req.item, (c + 1) * Mps))
          /\ reqLen <= Mps =>
               Fs!FirstOf(BufMax, captured \o packet) = Fs!FirstOf(BufMax, Whole(req.item))
      BY <1>1, <1>2, <2>6, CountPacket
    <3>2. ASSUME reqLen' # 0 PROVE reqLen > Mps /\ reqLen' = reqLen - Mps
      BY <1>1, <3>2
    <3>3. ASSUME reqLen' = 0 PROVE reqLen <= Mps
      BY <1>1, <3>3, PacketAssumption
    <3>4. reqLen' # 0 => Counted(c + 1)'
      BY <2>4, <3>1, <3>2 DEF Counted
    <3>5. reqLen' # 0 /\ c = Number - 1 => Kept(c + 1)'
      BY <2>1, <2>4, <3>1, <3>2 DEF Kept, Begun, Whole
    <3>6. reqLen' = 0 => captured' = Fs!FirstOf(BufMax, Whole(req.item))
      BY <2>1, <3>1, <3>3
    <3> QED BY <3>4, <3>5, <3>6
  <2>7. PublishedInv'
    <3>1. ASSUME reqLen' = 0, repeated <= most
          PROVE  captured' = Fs!FirstOf(BufMax, Whole(req.item))
      <4>1. PICK c \in 0 .. Number - 1 : Counted(c) /\ (c = Number - 1 => Kept(c))
        BY <2>5, <3>1 DEF CountedOf
      <4> QED BY <2>6, <3>1, <4>1
    <3>2. published' => reqLen' = 0
      BY <2>1
    <3>3. ~excused' => repeated <= most
      <4>1. ~(repeated > most) => repeated <= most
        BY <1>1
      <4> QED BY <2>1, <4>1
    <3>4. Whole(value)' = Whole(req.item)
      BY <1>2, <1>5, <2>4 DEF Whole
    <3> QED BY <3>1, <3>2, <3>3, <3>4 DEF PublishedInv
  <2>8. CASE part = "fs"
    <3>1. most = 1 /\ togOk = TRUE /\ (reqLen' # 0 => rx'.tog = 1 - rx.tog) /\ FsInv
      BY <2>8 DEF Ep0Inv
    <3>2. FsInv'
      <4> SUFFICES ASSUME stage = "out", reqLen' # 0, repeated <= 1, unheard <= 1
                   PROVE  CountedOf(IF unheard = 1 /\ rx.tog # pcTog
                                    THEN written + 1 ELSE written)'
        BY <2>1, <2>4 DEF FsInv
      <4>1. PICK c \in 0 .. Number - 1 : Counted(c) /\ (c = Number - 1 => Kept(c))
        BY <2>5, <3>1 DEF CountedOf
      <4>2. Counted(c + 1)' /\ (c = Number - 1 => Kept(c + 1)')
        BY <2>6, <3>1, <4>1
      <4>3. PICK n \in Nat : n = Number
        BY <1>2
      <4>4. c + 1 \in 0 .. n /\ (c + 1 = n => Kept(c + 1)')
        BY <4>1, <4>2, <4>3
      <4>5. CountedOf(n)'
        BY <4>2, <4>4 DEF CountedOf, Counted, Kept
      <4>6. unheard > 0 => rx'.tog # pcTog
        <5>1. unheard > 0 => rx.tog = pcTog
          BY <1>1, <1>5, <3>1 DEF FsInv
        <5> QED BY <1>1, <3>1, <5>1 DEF Ep0Types
      <4>7. n = IF unheard' = 1 /\ rx'.tog # pcTog' THEN written' + 1 ELSE written'
        BY <1>1, <2>4, <4>3, <4>6 DEF Number
      <4> QED BY <4>5, <4>7 DEF CountedOf, Counted, Kept
    <3> QED BY <2>4, <2>7, <2>8, <3>2 DEF Ep0Inv
  <2>9. CASE part = "hs"
    <3>1. most = 0 /\ HsInv
      BY <2>9 DEF Ep0Inv
    <3>2. HsInv'
      <4> SUFFICES ASSUME stage = "out", reqLen' # 0, repeated = 0, unheard = 0
                   PROVE  Counted(written)' /\ Kept(written)'
        BY <2>1, <2>4 DEF HsInv
      <4>1. Counted(Number - 1) /\ Kept(Number - 1)
        BY <1>1, <1>5, <3>1 DEF HsInv
      <4>2. PICK c \in Nat : c = Number - 1
        BY <1>2
      <4>3. c \in 0 .. Number - 1 /\ Counted(c) /\ Kept(c)
        BY <1>2, <4>1, <4>2
      <4>4. Counted(c + 1)' /\ Kept(c + 1)'
        BY <2>6, <3>1, <4>2, <4>3
      <4>5. written' = c + 1
        BY <1>1, <1>2, <2>4, <4>2 DEF Number
      <4> QED BY <4>4, <4>5 DEF Counted, Kept
    <3> QED BY <2>4, <2>7, <2>9, <3>2 DEF Ep0Inv
  <2> QED BY <2>8, <2>9
<1> QED BY <1>4, <1>5

LEMMA FsOutKeeps == ASSUME Ep0Inv, Fs!HandleOut, part = "fs", UNCHANGED part PROVE Ep0Inv'
<1>1. /\ rx.tog \in 0 .. 1 /\ tx.tog \in 0 .. 1 /\ tx.data \in Seq(Octet) /\ reqLen \in Nat
      /\ togOk \in BOOLEAN /\ <<>> \in Seq(Octet) /\ (capturing => ~published)
      /\ capturing \in BOOLEAN
  BY EmptySeq DEF Ep0Inv, Ep0Types
<1>2. OutPlain /\ (reqLen' # 0 => rx'.tog = 1 - rx.tog)
  <2>1. /\ irq = "out" /\ irq' = "none"
        /\ UNCHANGED <<stage, req, got, written, pcTog, unheard, repeated, togOk, packet,
                       setup, descr, value>>
    BY DEF Fs!HandleOut, Fs!pc
  <2>2. /\ tx'.tog \in 0 .. 1 /\ tx'.data \in Seq(Octet) /\ rx'.tog \in 0 .. 1
        /\ reqLen' # 0 => rx'.tog = 1 - rx.tog
    <3>0. IF reqLen' = 0 THEN tx' = Fs!ZeroLength /\ rx' = rx
          ELSE rx' = Fs!Answer("ACK", 1 - rx.tog) /\ tx' = tx
      BY DEF Fs!HandleOut
    <3>1. CASE reqLen' = 0
      <4>1. tx'.tog = 1 /\ tx'.data = <<>> /\ rx' = rx
        BY <3>0, <3>1 DEF Fs!ZeroLength, Fs!Arm
      <4> QED BY <1>1, <3>1, <4>1
    <3>2. CASE reqLen' # 0
      BY <1>1, <3>0, <3>2 DEF Fs!Answer
    <3> QED BY <3>1, <3>2
  <2> QED BY <2>1, <2>2 DEF OutPlain
<1>3. CASE togOk /\ setup.kind = "set"
  <2>1. reqLen' = IF reqLen > Mps THEN reqLen - Mps ELSE 0
    BY <1>3 DEF Fs!HandleOut, Fs!Counts
  <2>2. CASE capturing
    <3>1. /\ captured' = Fs!FirstOf(BufMax, captured \o packet)
          /\ excused' = (repeated > 1)
      BY <1>3, <2>2 DEF Fs!HandleOut, Fs!Counts
    <3>2. capturing' = (capturing /\ reqLen' # 0)
          /\ published' = (published \/ (capturing /\ reqLen' = 0))
      BY <1>3 DEF Fs!HandleOut, Fs!Counts
    <3>3. capturing' = (reqLen' # 0) /\ published' = (reqLen' = 0)
      BY <1>1, <2>2, <3>2
    <3> QED BY <1>1, <1>2, <1>3, <2>1, <2>2, <3>1, <3>3, CountedKeeps DEF OutCounted
  <2>3. CASE ~capturing
    <3>1. captured' = captured /\ excused' = excused
      BY <1>3, <2>3 DEF Fs!HandleOut, Fs!Counts
    <3>2. capturing' = (capturing /\ reqLen' # 0)
          /\ published' = (published \/ (capturing /\ reqLen' = 0))
      BY <1>3 DEF Fs!HandleOut, Fs!Counts
    <3>3. published \in BOOLEAN
      BY DEF Ep0Inv, Ep0Types
    <3>4. capturing' = capturing /\ published' = published
      BY <1>1, <2>3, <3>2, <3>3
    <3> QED BY <1>1, <1>2, <1>3, <2>1, <2>3, <3>1, <3>4, CountedKeeps DEF OutCounted
  <2> QED BY <2>2, <2>3
<1>4. CASE ~(togOk /\ setup.kind = "set")
  <2>1. UNCHANGED <<reqLen, captured, excused, capturing, published>>
    BY <1>4 DEF Fs!HandleOut, Fs!Counts
  <2>2. setup.kind # "set" \/ togOk = FALSE
    BY <1>1, <1>4
  <2> QED BY <1>1, <1>2, <2>1, <2>2, SkippedKeeps DEF OutSkipped
<1> QED BY <1>3, <1>4

LEMMA HsOutKeeps == ASSUME Ep0Inv, Hs!HandleOut, part = "hs", UNCHANGED part PROVE Ep0Inv'
<1>1. /\ rx.tog \in 0 .. 1 /\ tx.tog \in 0 .. 1 /\ tx.data \in Seq(Octet) /\ reqLen \in Nat
      /\ <<>> \in Seq(Octet) /\ (capturing => ~published)
      /\ capturing \in BOOLEAN
  BY EmptySeq DEF Ep0Inv, Ep0Types
<1>2. OutPlain
  <2>1. /\ irq = "out" /\ irq' = "none"
        /\ UNCHANGED <<stage, req, got, written, pcTog, unheard, repeated, togOk, packet,
                       setup, descr, value>>
    BY DEF Hs!HandleOut, Hs!pc
  <2>2. tx'.tog \in 0 .. 1 /\ tx'.data \in Seq(Octet) /\ rx'.tog \in 0 .. 1
    <3>0. IF reqLen' = 0 THEN tx' = Hs!ZeroLength /\ rx' = Hs!Answer("NAK", 0)
          ELSE rx' = Hs!MoreData /\ tx' = tx
      BY DEF Hs!HandleOut
    <3>1. CASE reqLen' = 0
      <4>1. tx'.tog = 1 /\ tx'.data = <<>> /\ rx'.tog = 0
        BY <3>0, <3>1 DEF Hs!ZeroLength, Hs!Arm, Hs!Answer
      <4> QED BY <1>1, <4>1
    <3>2. CASE reqLen' # 0
      BY <1>1, <3>0, <3>2 DEF Hs!Answer, Hs!MoreData
    <3> QED BY <3>1, <3>2
  <2> QED BY <2>1, <2>2 DEF OutPlain
<1>3. CASE setup.kind = "set"
  <2>1. reqLen' = IF reqLen > Mps THEN reqLen - Mps ELSE 0
    BY <1>3 DEF Hs!HandleOut
  <2>2. CASE capturing
    <3>1. /\ captured' = Fs!FirstOf(BufMax, captured \o packet)
          /\ excused' = (repeated > 0)
      BY <1>3, <2>2, HsParts DEF Hs!HandleOut
    <3>2. capturing' = (capturing /\ reqLen' # 0)
          /\ published' = (published \/ (capturing /\ reqLen' = 0))
      BY <1>3 DEF Hs!HandleOut
    <3>3. capturing' = (reqLen' # 0) /\ published' = (reqLen' = 0)
      BY <1>1, <2>2, <3>2
    <3> QED BY <1>1, <1>2, <1>3, <2>1, <2>2, <3>1, <3>3, CountedKeeps DEF OutCounted
  <2>3. CASE ~capturing
    <3>1. captured' = captured /\ excused' = excused
      BY <1>3, <2>3 DEF Hs!HandleOut
    <3>2. capturing' = (capturing /\ reqLen' # 0)
          /\ published' = (published \/ (capturing /\ reqLen' = 0))
      BY <1>3 DEF Hs!HandleOut
    <3>3. published \in BOOLEAN
      BY DEF Ep0Inv, Ep0Types
    <3>4. capturing' = capturing /\ published' = published
      BY <1>1, <2>3, <3>2, <3>3
    <3> QED BY <1>1, <1>2, <1>3, <2>1, <2>3, <3>1, <3>4, CountedKeeps DEF OutCounted
  <2> QED BY <2>2, <2>3
<1>4. CASE setup.kind # "set"
  <2>1. UNCHANGED <<reqLen, captured, excused, capturing, published>>
    BY <1>4 DEF Hs!HandleOut
  <2> QED BY <1>2, <1>4, <2>1, SkippedKeeps DEF OutSkipped
<1> QED BY <1>3, <1>4

-----------------------------------------------------------------------------
LEMMA PcKeeps == ASSUME Ep0Inv, Fs!Pc, UNCHANGED part PROVE Ep0Inv'
BY TurnKeeps, SetupKeeps, InKeeps, OutKeeps DEF Fs!Pc

LEMMA StepEp0 ==
    ASSUME Ep0Inv, \/ part = "fs" /\ Fs!Next
                   \/ part = "hs" /\ Hs!Next, UNCHANGED part
    PROVE  Ep0Inv'
<1>1. CASE part = "fs" /\ Fs!Next
  <2>1. CASE Fs!HandleSetup
    BY <2>1, FsSetup, SetupDoneKeeps
  <2>2. CASE Fs!HandleIn
    BY <2>2, FsInDone, InDoneKeeps
  <2>3. CASE Fs!HandleOut
    BY <1>1, <2>3, FsOutKeeps
  <2>4. CASE Fs!Pc \/ Fs!Release \/ Fs!BusReset
    BY <2>4, PcKeeps, ReleaseKeeps, ResetKeeps
  <2> QED BY <1>1, <2>1, <2>2, <2>3, <2>4 DEF Fs!Next, Fs!Handler
<1>2. CASE part = "hs" /\ Hs!Next
  <2>1. CASE Hs!HandleSetup
    BY <2>1, HsSetup, SetupDoneKeeps
  <2>2. CASE Hs!HandleIn
    BY <2>2, HsInDone, InDoneKeeps
  <2>3. CASE Hs!HandleOut
    BY <1>2, <2>3, HsOutKeeps
  <2>4. CASE Hs!Pc \/ Hs!Release \/ Hs!BusReset
    BY <2>4, PcKeeps, ReleaseKeeps, ResetKeeps, SameWire
  <2> QED BY <1>2, <2>1, <2>2, <2>3, <2>4 DEF Hs!Next, Hs!Handler
<1> QED BY <1>1, <1>2

LEMMA QuietEp0 == ASSUME Ep0Inv, UNCHANGED <<part, ep0vars>> PROVE Ep0Inv'
<1>1. UNCHANGED <<part, stage, req, got, written, pcTog, unheard, repeated, irq, togOk,
                  packet, tx, rx, setup, reqLen, descr, capturing, published, captured,
                  value, excused>>
  BY DEF ep0vars
<1>2. Ep0Types' /\ KnownInv'
  BY <1>1 DEF Ep0Inv, Ep0Types, KnownInv
<1>3. ReadInv' /\ WriteInv'
  BY <1>1 DEF Ep0Inv, ReadInv, WriteInv, Due, Begun, Whole, Number, Fs!WritePacket
<1>4. Fs!DescriptorWhole' /\ PublishedInv'
  BY <1>1 DEF Ep0Inv, Fs!DescriptorWhole, PublishedInv
<1>5. FsInv => FsInv'
  BY <1>1 DEF FsInv, CountedOf, Counted, Kept, Begun, Whole, Number
<1>6. HsInv => HsInv'
  BY <1>1 DEF HsInv, Counted, Kept, Begun, Whole, Number
<1> QED BY <1>1, <1>2, <1>3, <1>4, <1>5, <1>6 DEF Ep0Inv

\* The inductive invariant of endpoint 0 on both controllers.
THEOREM Ep0Inductive == MCSpec => []Ep0Inv
<1>1. MCInit => Ep0Inv
  BY InitEp0 DEF MCInit
<1>2. Ep0Inv /\ [MCNext]_all => Ep0Inv'
  <2>1. ASSUME Ep0Inv, MCNext PROVE Ep0Inv'
    <3>1. CASE InRx(Next) \/ InTx(Tx!Next)
      BY <2>1, <3>1, QuietEp0 DEF InRx, InTx
    <3>2. CASE InEp0(Fs!Next, Hs!Next)
      BY <2>1, <3>2, StepEp0 DEF InEp0
    <3> QED BY <2>1, <3>1, <3>2 DEF MCNext
  <2>2. ASSUME Ep0Inv, UNCHANGED all PROVE Ep0Inv'
    BY <2>2, QuietEp0 DEF all
  <2> QED BY <2>1, <2>2
<1> QED BY <1>1, <1>2, PTL DEF MCSpec

\* Whatever is lost, repeated or given up, a descriptor read to its end is the one asked
\* for, and what the relay is given is one whole SET_REPORT under its own value, unless
\* the PC repeated more than the driver can tell: for any packet size, buffer and number
\* of losses (usb_device_fs.c:434-466, 488-538, 719-728; usb_device_hs.c:589-622,
\* 796-805, 973-1013).
THEOREM StagesWhole == MCSpec => []DataStagesWhole
<1>1. ASSUME Ep0Inv PROVE DataStagesWhole
  <2>1. Fs!DescriptorWhole /\ PublishedInv
    BY <1>1 DEF Ep0Inv
  <2>2. Fs!PublishedWhole
    BY <2>1 DEF PublishedInv, Fs!PublishedWhole, Whole
  <2>3. Hs!PublishedWhole
    BY <2>1, HsParts DEF PublishedInv, Hs!PublishedWhole, Whole
  <2> QED BY <2>1, <2>2, <2>3 DEF DataStagesWhole
<1> QED BY <1>1, Ep0Inductive, PTL

-----------------------------------------------------------------------------
(***************************************************************************)
(* Types.  Of the receiver and the transmitter the invariants above hold   *)
(* them; of endpoint 0 there remain the handshakes in its registers, what  *)
(* fits a packet and the capture buffer, and the trouble there is.  The    *)
(* driver never asks the descriptor it reads for more than is left of it.  *)
(***************************************************************************)

Handshakes == {"ACK", "NAK", "STALL"}

PcLimits ==
    /\ requests \in 0 .. MaxRequests /\ lost \in 0 .. MaxLost /\ aborts \in 0 .. MaxAborts
    /\ unheard <= lost /\ repeated <= lost

DriverLimits ==
    /\ setup \in Asked \cup {Fs!None}
    /\ tx.resp \in Handshakes /\ rx.resp \in Handshakes
    /\ Len(tx.data) <= Mps /\ Len(captured) <= BufMax
    /\ setup.kind = "get" => reqLen <= Len(descr)

LEMMA NothingFits ==
    /\ Len(<<>>) = 0 /\ <<>> \in Seq(Octet) /\ 0 <= Mps /\ 0 <= BufMax
    /\ Fs!None.kind = "none"
BY PacketAssumption, EmptySeq DEF Fs!None

LEMMA LimitsInit == ASSUME Fs!Init PROVE PcLimits /\ DriverLimits
<1>1. PcLimits
  BY TroubleAssumption DEF Fs!Init, PcLimits
<1>2. setup = Fs!None /\ captured = <<>>
  BY DEF Fs!Init
<1>3. tx.resp = "NAK" /\ rx.resp = "ACK" /\ tx.data = <<>>
  BY DEF Fs!Init, Fs!Idle, Fs!Answer
<1> QED BY <1>1, <1>2, <1>3, NothingFits DEF DriverLimits, Handshakes

\* Every lost acknowledgement of a packet is one of those lost.
LEMMA PcStaysLimited ==
    ASSUME Ep0Inv, PcLimits, Fs!Pc
    PROVE  PcLimits' /\ UNCHANGED <<tx, rx, addr, setup, reqLen, descr, captured>>
<1>1. unheard \in Nat /\ repeated \in Nat /\ lost \in Nat
  BY DEF Ep0Inv, Ep0Types, PcLimits
<1>2. ASSUME NEW r \in Asked, Fs!Begin(r) \/ Fs!TimeOut(r)
      PROVE  PcLimits' /\ UNCHANGED <<tx, rx, addr, setup, reqLen, descr, captured>>
  <2>1. /\ UNCHANGED <<lost, unheard, repeated, tx, rx, addr, setup, reqLen, descr, captured>>
        /\ requests' = requests \/ (requests < MaxRequests /\ requests' = requests + 1)
        /\ aborts' = aborts \/ (aborts < MaxAborts /\ aborts' = aborts + 1)
    BY <1>2 DEF Fs!Begin, Fs!TimeOut, Fs!wire, Fs!driver, Fs!capture
  <2> QED BY <2>1, TroubleAssumption DEF PcLimits
<1>3. ASSUME NEW h \in BOOLEAN, Fs!Setup(h) \/ Fs!In(h) \/ Fs!Out(h)
      PROVE  PcLimits' /\ UNCHANGED <<tx, rx, addr, setup, reqLen, descr, captured>>
  <2>1. /\ UNCHANGED <<requests, aborts, tx, rx, addr, setup, reqLen, descr, captured>>
        /\ IF h THEN lost' = lost ELSE lost < MaxLost /\ lost' = lost + 1
    BY <1>3 DEF Fs!Setup, Fs!In, Fs!Out, Fs!Heard, Fs!driver, Fs!capture
  <2>2. \/ unheard' = 0 /\ repeated' = 0
        \/ unheard' = unheard /\ repeated' = repeated
        \/ /\ IF h THEN unheard' = 0 ELSE unheard' = unheard + 1
           /\ repeated' = IF unheard > repeated THEN unheard ELSE repeated
    BY <1>3 DEF Fs!Setup, Fs!In, Fs!Out
  <2>3. lost' \in 0 .. MaxLost /\ lost <= lost' /\ (~h => lost' = lost + 1)
    BY <1>1, <2>1, TroubleAssumption DEF PcLimits
  <2>4. unheard' <= lost' /\ repeated' <= lost'
    BY <1>1, <2>2, <2>3 DEF PcLimits
  <2> QED BY <2>1, <2>3, <2>4 DEF PcLimits
<1>4. CASE Fs!Refused
  <2>1. UNCHANGED <<requests, lost, aborts, unheard, repeated>>
        /\ UNCHANGED <<tx, rx, addr, setup, reqLen, descr, captured>>
    BY <1>4 DEF Fs!Refused, Fs!driver, Fs!capture
  <2> QED BY <2>1 DEF PcLimits
<1> QED BY <1>2, <1>3, <1>4 DEF Fs!Pc

LEMMA ResetLimits ==
    ASSUME PcLimits, DriverLimits, Fs!BusReset \/ Hs!BusReset
    PROVE  PcLimits' /\ DriverLimits'
<1>1. /\ UNCHANGED <<requests, lost, unheard, repeated, setup, reqLen, descr>>
      /\ aborts' = aborts \/ (aborts < MaxAborts /\ aborts' = aborts + 1)
  BY SameWire DEF Fs!BusReset, Hs!BusReset, Fs!Reset
<1>2. tx'.resp = "NAK" /\ rx'.resp = "ACK" /\ tx'.data = <<>> /\ captured' = <<>>
  BY DEF Fs!BusReset, Hs!BusReset, Fs!Idle, Hs!Idle, Fs!Answer, Hs!Answer
<1>3. PcLimits'
  BY <1>1, TroubleAssumption DEF PcLimits
<1> QED BY <1>1, <1>2, <1>3, NothingFits DEF DriverLimits, Handshakes

LEMMA SetupLimits ==
    ASSUME Ep0Inv, DriverLimits, Fs!HandleSetup \/ Hs!HandleSetup
    PROVE  DriverLimits'
<1>1. SetupDone
  BY FsSetup, HsSetup
<1>2. req \in Asked /\ packet = req /\ setup' = req
  <2>1. irq = "setup" /\ setup' = packet /\ Ep0Types /\ KnownInv
    BY <1>1 DEF SetupDone, SetupPlain, Ep0Inv
  <2> QED BY <2>1 DEF Ep0Types, KnownInv, Fs!DataStage
<1>3. Len(captured') <= BufMax
  BY <1>1, NothingFits DEF SetupDone, SetupCapture, DriverLimits
<1>4. tx'.resp \in Handshakes /\ rx'.resp \in Handshakes
  <2>1. CASE Fs!HandleSetup
    BY <2>1 DEF Fs!HandleSetup, Fs!GetDescriptor, Fs!SetReport, Fs!NoData, Fs!Unsupported,
       Fs!Arm, Fs!Answer, Fs!Idle, Fs!ZeroLength, Handshakes
  <2>2. CASE Hs!HandleSetup
    BY <2>2 DEF Hs!HandleSetup, Hs!GetDescriptor, Hs!SetReport, Hs!NoData, Hs!Unsupported,
       Hs!Arm, Hs!Answer, Hs!Idle, Hs!ZeroLength, Handshakes
  <2> QED BY <2>1, <2>2
<1>5. CASE packet.kind = "get"
  <2> DEFINE n == Fs!Min2(Due, Mps)
             first == Fs!FirstOf(n, Whole(req.item))
  <2>1. n \in Nat /\ Len(first) = n /\ n <= Due /\ n <= Mps
    BY <1>2, <1>5, FirstPacket
  <2>2. tx'.data = first /\ reqLen' = Due - n /\ descr' = Fs!After(n, Whole(req.item))
    BY <1>1, <1>5, <2>1 DEF SetupDone, SetupRead
  <2>3. Whole(req.item) \in Seq(Octet) /\ Len(Whole(req.item)) \in Nat
        /\ Due \in 0 .. Len(Whole(req.item))
    BY <1>2, <1>5, TransferData
  <2> HIDE DEF n
  <2>4. n <= Len(Whole(req.item))
    BY <2>1, <2>3
  <2>5. Len(descr') = Len(Whole(req.item)) - n
    BY <2>1, <2>2, <2>3, <2>4, AfterProperties
  <2>6. Len(tx'.data) <= Mps /\ reqLen' <= Len(descr')
    BY <2>1, <2>2, <2>3, <2>5
  <2> QED BY <1>2, <1>3, <1>4, <2>6 DEF DriverLimits
<1>6. CASE packet.kind # "get"
  <2>1. tx'.data = <<>>
    <3>1. CASE Fs!HandleSetup
      BY <1>6, <3>1 DEF Fs!HandleSetup, Fs!GetDescriptor, Fs!SetReport, Fs!NoData,
         Fs!Unsupported, Fs!Arm, Fs!Idle, Fs!ZeroLength
    <3>2. CASE Hs!HandleSetup
      BY <1>6, <3>2 DEF Hs!HandleSetup, Hs!GetDescriptor, Hs!SetReport, Hs!NoData,
         Hs!Unsupported, Hs!Arm, Hs!Idle, Hs!ZeroLength
    <3> QED BY <3>1, <3>2
  <2> QED BY <1>2, <1>3, <1>4, <1>6, <2>1, NothingFits DEF DriverLimits
<1> QED BY <1>5, <1>6

LEMMA InLimits ==
    ASSUME Ep0Inv, DriverLimits, Fs!HandleIn \/ Hs!HandleIn
    PROVE  DriverLimits'
<1>1. InDone
  BY FsInDone, HsInDone
<1>2. setup' = setup /\ captured' = captured
  BY <1>1 DEF InDone
<1>3. rx'.resp \in Handshakes
  BY DEF Fs!HandleIn, Hs!HandleIn, Fs!OpenStatus, Fs!Answer, Hs!Answer, Handshakes,
         DriverLimits
<1>4. tx'.resp \in Handshakes
  BY DEF Fs!HandleIn, Hs!HandleIn, Fs!Arm, Hs!Arm, Handshakes, DriverLimits
<1>5. CASE setup.kind = "get"
  <2> DEFINE n == Fs!Min2(reqLen, Mps)
             next == Fs!FirstOf(n, descr)
  <2>1. reqLen \in Nat /\ descr \in Seq(Octet) /\ Len(descr) \in Nat /\ reqLen <= Len(descr)
    BY <1>5, LenProperties DEF Ep0Inv, Ep0Types, DriverLimits
  <2>2. n \in Nat /\ n <= reqLen /\ n <= Mps
    BY <2>1, PacketAssumption DEF Fs!Min2
  <2>3. /\ tx'.data = next /\ reqLen' = reqLen - Len(next)
        /\ descr' = Fs!After(Len(next), descr)
    BY <1>1, <1>5 DEF InDone
  <2> HIDE DEF n
  <2>4. Fs!Min2(n, Len(descr)) = n /\ n <= Len(descr)
    BY <2>1, <2>2 DEF Fs!Min2
  <2>5. Len(next) = n
    BY <2>1, <2>2, <2>4, FirstOfProperties
  <2>6. Len(descr') = Len(descr) - n
    BY <2>1, <2>2, <2>3, <2>4, <2>5, AfterProperties
  <2>7. Len(tx'.data) <= Mps /\ reqLen' <= Len(descr')
    BY <2>1, <2>2, <2>3, <2>5, <2>6
  <2> QED BY <1>2, <1>3, <1>4, <2>7 DEF DriverLimits
<1>6. CASE setup.kind # "get"
  <2>1. tx' = tx
    BY <1>1, <1>6 DEF InDone
  <2> QED BY <1>2, <1>3, <1>4, <1>6, <2>1 DEF DriverLimits
<1> QED BY <1>5, <1>6

LEMMA OutLimits ==
    ASSUME Ep0Inv, DriverLimits, Fs!HandleOut \/ Hs!HandleOut
    PROVE  DriverLimits'
<1>1. setup' = setup /\ descr' = descr
  BY DEF Fs!HandleOut, Hs!HandleOut
<1>2. setup.kind = "get" => reqLen' = reqLen
  BY DEF Fs!HandleOut, Hs!HandleOut
<1>3. /\ tx'.resp \in Handshakes /\ rx'.resp \in Handshakes
      /\ tx'.data = tx.data \/ tx'.data = <<>>
  BY DEF Fs!HandleOut, Hs!HandleOut, Fs!ZeroLength, Hs!ZeroLength, Fs!Arm, Hs!Arm,
         Fs!Answer, Hs!Answer, Hs!MoreData, Handshakes, DriverLimits
<1>4. Len(captured') <= BufMax
  <2>1. \/ captured' = captured
        \/ irq = "out" /\ setup.kind = "set"
           /\ captured' = Fs!FirstOf(BufMax, captured \o packet)
    BY HsParts DEF Fs!HandleOut, Hs!HandleOut
  <2>2. ASSUME irq = "out", setup.kind = "set"
        PROVE  Len(Fs!FirstOf(BufMax, captured \o packet)) <= BufMax
    <3>1. packet \in Seq(Octet)
      BY <2>2, WaitingPacket
    <3>2. captured \o packet \in Seq(Octet)
      BY <3>1, ConcatProperties DEF Ep0Inv, Ep0Types
    <3>3. /\ Len(captured \o packet) \in Nat
          /\ Len(Fs!FirstOf(BufMax, captured \o packet))
               = Fs!Min2(BufMax, Len(captured \o packet))
      BY <3>2, LenProperties, FirstOfProperties, PacketAssumption
    <3> QED BY <3>3, PacketAssumption DEF Fs!Min2
  <2> QED BY <2>1, <2>2 DEF DriverLimits
<1> QED BY <1>1, <1>2, <1>3, <1>4, NothingFits DEF DriverLimits

LEMMA LimitsKept ==
    ASSUME Ep0Inv, PcLimits, DriverLimits, [MCNext]_all
    PROVE  PcLimits' /\ DriverLimits'
<1>1. CASE Fs!Pc \/ Hs!Pc
  <2>1. PcLimits' /\ UNCHANGED <<tx, rx, addr, setup, reqLen, descr, captured>>
    BY <1>1, PcStaysLimited, SameWire
  <2> QED BY <2>1 DEF DriverLimits
<1>2. CASE Fs!Release \/ Hs!Release
  <2>1. /\ UNCHANGED <<requests, lost, aborts, unheard, repeated>>
        /\ UNCHANGED <<tx, rx, setup, reqLen, descr>> /\ captured' = <<>>
    BY <1>2, SameWire DEF Fs!Release, Fs!pc
  <2> QED BY <2>1, NothingFits DEF PcLimits, DriverLimits
<1>3. CASE Fs!Handler \/ Hs!Handler
  <2>1. UNCHANGED <<requests, lost, aborts, unheard, repeated>>
    BY <1>3 DEF Fs!Handler, Hs!Handler, Fs!HandleSetup, Fs!HandleIn, Fs!HandleOut,
       Hs!HandleSetup, Hs!HandleIn, Hs!HandleOut, Fs!pc, Hs!pc
  <2>2. PcLimits'
    BY <2>1 DEF PcLimits
  <2> QED BY <1>3, <2>2, SetupLimits, InLimits, OutLimits DEF Fs!Handler, Hs!Handler
<1>4. CASE Fs!BusReset \/ Hs!BusReset
  BY <1>4, ResetLimits
<1>5. CASE UNCHANGED ep0vars
  <2>1. /\ UNCHANGED <<requests, lost, aborts, unheard, repeated>>
        /\ UNCHANGED <<tx, rx, setup, reqLen, descr, captured>>
    BY <1>5 DEF ep0vars
  <2> QED BY <2>1 DEF PcLimits, DriverLimits
<1>6. Fs!Next \/ Hs!Next \/ UNCHANGED ep0vars
  BY DEF MCNext, InRx, InTx, InEp0, all
<1> QED BY <1>1, <1>2, <1>3, <1>4, <1>5, <1>6 DEF Fs!Next, Hs!Next

LEMMA RxTypeOK == ASSUME RxInv PROVE TypeOK
<1>1. RxTypes /\ RegisterInv
  BY DEF RxInv
<1>2. dr.byte \in 0 .. sent
  <2>1. CASE dr = Empty
    BY <1>1, <2>1 DEF Empty, RxTypes
  <2>2. CASE dr # Empty
    BY <1>1, <2>2 DEF RegisterInv
  <2> QED BY <2>1, <2>2
<1> QED BY <1>1, <1>2 DEF RxTypes, TypeOK

LEMMA TxTypeOK == ASSUME TxInv PROVE Tx!TypeOK
BY DEF TxInv, TxTypes, RoomInv, Publishing, Rate, Tx!TypeOK

LEMMA Ep0TypeOK == ASSUME Ep0Inv, PcLimits, DriverLimits PROVE Fs!TypeOK
<1>1. Ep0Types
  BY DEF Ep0Inv
<1>2. /\ stage \in {"idle", "setup", "in", "out", "statusIn", "statusOut"}
      /\ req \in Asked \cup {Fs!None} /\ setup \in Asked \cup {Fs!None}
      /\ irq \in {"none", "setup", "in", "out"}
      /\ tx.resp \in {"ACK", "NAK", "STALL"} /\ rx.resp \in {"ACK", "NAK", "STALL"}
  BY <1>1 DEF Ep0Types, DriverLimits, Handshakes
<1>3. /\ requests <= MaxRequests /\ lost <= MaxLost /\ aborts <= MaxAborts
      /\ unheard <= lost /\ repeated <= lost /\ {tx.tog, rx.tog, pcTog} \subseteq {0, 1}
      /\ reqLen \in Nat
  BY <1>1, TroubleAssumption DEF Ep0Types, PcLimits
<1>4. Len(tx.data) <= Mps /\ Len(captured) <= BufMax
      /\ (setup.kind = "get" => reqLen <= Len(descr))
  BY DEF DriverLimits
<1>5. ~(capturing /\ published) /\ excused \in BOOLEAN /\ togOk \in BOOLEAN
  BY <1>1 DEF Ep0Types
<1> QED BY <1>2, <1>3, <1>4, <1>5 DEF Fs!TypeOK

\* Rings, registers, packets and counters of the three ports keep to their ranges, and a
\* descriptor is never asked for more than is left of it (MCPorts' TypesOK).
THEOREM PortsTyped == MCSpec => []TypesOK
<1>1. MCInit => PcLimits /\ DriverLimits
  BY LimitsInit DEF MCInit
<1>2. ASSUME RxInv, TxInv, Ep0Inv, PcLimits, DriverLimits PROVE TypesOK
  BY <1>2, RxTypeOK, TxTypeOK, Ep0TypeOK DEF TypesOK
<1> QED BY <1>1, <1>2, RxInductive, TxInductive, Ep0Inductive, LimitsKept, PTL DEF MCSpec
=============================================================================
