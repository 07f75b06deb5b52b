---------------------------- MODULE EdgesProofs ----------------------------
(***************************************************************************)
(* Proofs about the wires of the system, which MCEdges explores each       *)
(* beside the others: the SOF scanner, for any slot and ring size and set  *)
(* of bytes that look like a SOF; the capture, for every number of         *)
(* attempts, attachments and captures; the real device's interrupt         *)
(* endpoints and control transfers, for packets of any size and any        *)
(* losses; the command port, for rings and packets of any size; the return *)
(* slots, for slots of any length; the layout of the mouse's reports, for  *)
(* any descriptor; and, from UsbDeviceProofs, the device on either         *)
(* controller; and the ranges all of their state keeps to.  A step of      *)
(* MCEdges is a step of one of them or leaves its variables as they are.   *)
(***************************************************************************)
EXTENDS MCEdges, SequenceTheorems, FiniteSetTheorems, TLAPS

DeviceProofs == INSTANCE UsbDeviceProofs

-----------------------------------------------------------------------------
(***************************************************************************)
(* The byte stream into Board A.  The scanner forgets bytes for good; the  *)
(* invariant is that what it forgot cannot matter: the window is the end   *)
(* of the stream, and no slot that may still be whole began before it      *)
(* (Patient).                                                              *)
(***************************************************************************)

\* A byte on the wire; the first byte of a slot, unchanged, is a SOF.
Octet ==
    {b \in [slot : Nat, off : Nat, sof : BOOLEAN, ok : BOOLEAN] :
        b.ok /\ b.off = 0 => b.sof}

\* The j-th byte from the end
Back(s, j) == s[Len(s) - j]

\* The last k bytes are the first k of one slot.
StartsSlot(s, k) ==
    \A j \in 0 .. k - 1 :
        /\ Back(s, j).ok
        /\ Back(s, j).off = k - 1 - j
        /\ Back(s, j).slot = Back(s, k - 1).slot

\* s ends like r.
EndOf(s, r) ==
    /\ Len(s) <= Len(r)
    /\ \A j \in 0 .. Len(s) - 1 : Back(s, j) = Back(r, j)

\* No slot that may still be completed starts before the window.
Missed(w, r, k) == k > Len(w) /\ k <= Len(r) /\ StartsSlot(r, k)
Patient(w, r) == \A k \in 1 .. Size - 1 : ~Missed(w, r, k)

Stream == {s \in Seq(Octet) : Len(s) <= Size}

StreamInv ==
    /\ sent \in Nat /\ off \in Nat
    /\ ring \in Seq(Octet)
    /\ window \in Stream /\ Len(window) < Size
    /\ recent \in Stream
    /\ EndOf(window, recent)
    /\ Patient(window, recent)
    /\ OnlyHitSlotsLost

-----------------------------------------------------------------------------
\* The order of the naturals, as a relation a theorem can name
LEMMA LessWellFounded ==
    \E R : IsWellFoundedOn(R, Nat) /\ \A x, y \in Nat : y < x => <<y, x>> \in R
<1>1. \A x, y \in Nat : y < x => <<y, x>> \in OpToRel(<, Nat)
  BY DEF OpToRel
<1> QED BY <1>1, NatLessThanWellFounded, Zenon

LEMMA Least ==
    ASSUME NEW T, T \subseteq Nat, T # {}
    PROVE  \E x \in T : \A y \in T : x <= y
<1>1. PICK R : IsWellFoundedOn(R, Nat) /\ \A x, y \in Nat : y < x => <<y, x>> \in R
  BY LessWellFounded
<1>2. PICK x \in T : \A y \in T : <<y, x>> \notin R
  BY <1>1, WFMin
<1>3. \A y \in T : ~(y < x)
  BY <1>1, <1>2
<1> QED BY <1>3

\* What the last Size bytes are after one more: the new byte and what was there.
LEMMA RecallAppends ==
    ASSUME NEW r \in Stream, NEW b \in Octet
    PROVE  /\ Recall(r, b) \in Stream
           /\ Len(Recall(r, b)) \in 1 .. Len(r) + 1
           /\ Len(r) < Size => Len(Recall(r, b)) = Len(r) + 1
           /\ Len(r) = Size => Len(Recall(r, b)) = Size
           /\ Back(Recall(r, b), 0) = b
           /\ \A j \in 1 .. Len(Recall(r, b)) - 1 : Back(Recall(r, b), j) = Back(r, j - 1)
<1> USE SizeAssumption
<1> r \in Seq(Octet) /\ Len(r) \in Nat /\ Len(r) <= Size
  BY LenProperties DEF Stream
<1>1. CASE Len(r) < Size
  <2>1. Recall(r, b) = Append(r, b)
    BY <1>1 DEF Recall
  <2> QED BY <1>1, <2>1, AppendProperties DEF Stream, Back
<1>2. CASE Len(r) = Size
  <2>1. Recall(r, b) = Append(Tail(r), b)
    BY <1>2 DEF Recall
  <2>2. r # <<>>
    BY <1>2, EmptySeq
  <2>3. /\ Tail(r) \in Seq(Octet) /\ Len(Tail(r)) = Size - 1
        /\ \A i \in 1 .. Size - 1 : Tail(r)[i] = r[i + 1]
    BY <1>2, <2>2, HeadTailProperties
  <2>4. /\ Append(Tail(r), b) \in Seq(Octet)
        /\ Len(Append(Tail(r), b)) = Size
        /\ \A i \in 1 .. Size - 1 : Append(Tail(r), b)[i] = r[i + 1]
        /\ Append(Tail(r), b)[Size] = b
    BY <2>3, AppendProperties
  <2> QED BY <1>2, <2>1, <2>4 DEF Stream, Back
<1> QED BY <1>1, <1>2

\* A window that unpacks is the bytes of one slot from its start.
LEMMA UnpacksIsSlot ==
    ASSUME NEW s \in Stream
    PROVE  Unpacks(s) <=> Len(s) = Size /\ StartsSlot(s, Size)
<1> USE SizeAssumption
<1>1. ASSUME Len(s) = Size, Unpacks(s) PROVE StartsSlot(s, Size)
  BY <1>1 DEF Unpacks, StartsSlot, Back
<1>2. ASSUME Len(s) = Size, StartsSlot(s, Size) PROVE Unpacks(s)
  <2> SUFFICES ASSUME NEW i \in 1 .. Size
               PROVE  s[i].ok /\ s[i].off = i - 1 /\ s[i].slot = s[1].slot
    BY <1>2 DEF Unpacks
  <2>1. Size - i \in 0 .. Size - 1 /\ Back(s, Size - i) = s[i] /\ Back(s, Size - 1) = s[1]
    BY <1>2 DEF Back
  <2>2. s[i].off = Size - 1 - (Size - i)
    BY <1>2, <2>1 DEF StartsSlot
  <2> QED BY <1>2, <2>1, <2>2 DEF StartsSlot
<1> QED BY <1>1, <1>2 DEF Unpacks

\* A start of a slot was one before its last byte came.
LEMMA StartShrinks ==
    ASSUME NEW r \in Stream, NEW b \in Octet,
           NEW k \in 2 .. Size, k <= Len(Recall(r, b)), StartsSlot(Recall(r, b), k)
    PROVE  k - 1 <= Len(r) /\ StartsSlot(r, k - 1)
<1> DEFINE s == Recall(r, b)
<1>1. Len(s) \in Nat /\ Len(r) \in Nat /\ Len(s) <= Len(r) + 1
  BY RecallAppends, LenProperties, SizeAssumption DEF Stream
<1>2. \A j \in 1 .. k - 1 : Back(s, j) = Back(r, j - 1)
  BY <1>1, RecallAppends, SizeAssumption
<1> HIDE DEF s
<1>3. ASSUME NEW j \in 0 .. k - 2
      PROVE  /\ Back(r, j).ok /\ Back(r, j).off = k - 2 - j
             /\ Back(r, j).slot = Back(r, k - 2).slot
  <2>1. j + 1 \in 1 .. k - 1 /\ k - 1 \in 1 .. k - 1 /\ j + 1 \in 0 .. k - 1
    BY SizeAssumption
  <2>2. Back(s, j + 1) = Back(r, j) /\ Back(s, k - 1) = Back(r, k - 2)
    BY <1>2, <2>1
  <2>3. /\ Back(s, j + 1).ok /\ Back(s, j + 1).off = k - 1 - (j + 1)
        /\ Back(s, j + 1).slot = Back(s, k - 1).slot
    BY <2>1 DEF StartsSlot, s
  <2> QED BY <2>2, <2>3
<1> QED BY <1>1, <1>3, SizeAssumption DEF StartsSlot, s

\* A slot that starts with the byte just taken starts with a SOF.
LEMMA FirstIsSof ==
    ASSUME NEW r \in Stream, NEW b \in Octet, StartsSlot(Recall(r, b), 1)
    PROVE  b.sof
BY RecallAppends DEF StartsSlot, Octet

\* What starts no slot before the next byte starts none after it, and a byte that is no
\* SOF starts none itself.
LEMMA StillMissed ==
    ASSUME NEW r \in Stream, NEW w \in Stream, Patient(w, r), NEW b \in Octet,
           NEW k \in 1 .. Size, k > Len(w) + 1 \/ (k = 1 /\ ~b.sof),
           k <= Len(Recall(r, b))
    PROVE  ~StartsSlot(Recall(r, b), k)
<1> SUFFICES ASSUME StartsSlot(Recall(r, b), k) PROVE FALSE
  OBVIOUS
<1> Len(w) \in Nat
  BY LenProperties DEF Stream
<1>1. CASE k = 1 /\ ~b.sof
  BY <1>1, FirstIsSof
<1>2. CASE k > Len(w) + 1
  <2>1. k \in 2 .. Size
    BY <1>2, SizeAssumption
  <2>2. k - 1 <= Len(r) /\ StartsSlot(r, k - 1)
    BY <2>1, StartShrinks
  <2>3. k - 1 \in 1 .. Size - 1 /\ k - 1 > Len(w)
    BY <1>2, <2>1, SizeAssumption
  <2> QED BY <2>2, <2>3 DEF Patient, Missed
<1> QED BY <1>1, <1>2

-----------------------------------------------------------------------------
\* A byte outside a window that is no SOF is passed over, and rightly.
LEMMA SkipKeeps ==
    ASSUME NEW r \in Stream, Patient(<<>>, r), NEW b \in Octet, ~b.sof
    PROVE  Patient(<<>>, Recall(r, b)) /\ ~Unpacks(Recall(r, b))
<1>1. <<>> \in Stream /\ Len(<<>>) = 0
  BY EmptySeq, SizeAssumption DEF Stream
<1>2. Recall(r, b) \in Stream
  BY RecallAppends
<1>3. ASSUME NEW k \in 1 .. Size, k <= Len(Recall(r, b))
      PROVE  ~StartsSlot(Recall(r, b), k)
  <2>1. k > Len(<<>>) + 1 \/ (k = 1 /\ ~b.sof)
    BY <1>1, <1>3, SizeAssumption
  <2> QED BY <1>1, <1>3, <2>1, StillMissed
<1>4. Patient(<<>>, Recall(r, b))
  BY <1>3, SizeAssumption DEF Patient, Missed
<1>5. ~Unpacks(Recall(r, b))
  BY <1>2, <1>3, UnpacksIsSlot, SizeAssumption
<1> QED BY <1>4, <1>5

\* The window with the new byte is the end of the stream with it.
LEMMA WindowGrows ==
    ASSUME NEW r \in Stream, NEW w \in Stream, Len(w) < Size, EndOf(w, r), NEW b \in Octet
    PROVE  /\ Append(w, b) \in Stream /\ Len(Append(w, b)) = Len(w) + 1
           /\ EndOf(Append(w, b), Recall(r, b))
<1> DEFINE v == Append(w, b)
           s == Recall(r, b)
<1>1. Len(w) \in Nat /\ Len(r) \in Nat /\ Len(w) <= Len(r) /\ Len(r) <= Size
  BY LenProperties DEF Stream, EndOf
<1>2. /\ v \in Seq(Octet) /\ Len(v) = Len(w) + 1
      /\ \A i \in 1 .. Len(w) : v[i] = w[i]
      /\ v[Len(w) + 1] = b
  BY AppendProperties DEF Stream
<1>3. v \in Stream
  BY <1>1, <1>2, SizeAssumption DEF Stream
<1>4. /\ Len(s) = IF Len(r) < Size THEN Len(r) + 1 ELSE Size
      /\ Back(s, 0) = b
      /\ \A j \in 1 .. Len(s) - 1 : Back(s, j) = Back(r, j - 1)
  <2>1. /\ Len(r) < Size => Len(s) = Len(r) + 1
        /\ Len(r) = Size => Len(s) = Size
        /\ Back(s, 0) = b /\ \A j \in 1 .. Len(s) - 1 : Back(s, j) = Back(r, j - 1)
    BY RecallAppends
  <2> HIDE DEF s
  <2>2. Len(s) = IF Len(r) < Size THEN Len(r) + 1 ELSE Size
    BY <1>1, <2>1, SizeAssumption
  <2> QED BY <2>1, <2>2
<1> HIDE DEF v, s
<1>5. Len(v) <= Len(s)
  BY <1>1, <1>2, <1>4, SizeAssumption
<1>6. ASSUME NEW j \in 0 .. Len(v) - 1 PROVE Back(v, j) = Back(s, j)
  <2>1. CASE j = 0
    BY <1>1, <1>2, <1>4, <2>1 DEF Back
  <2>2. CASE j # 0
    <3>1. j \in 1 .. Len(s) - 1 /\ j - 1 \in 0 .. Len(w) - 1
      BY <1>1, <1>2, <1>4, <1>5, <2>2, SizeAssumption
    <3>2. Back(v, j) = Back(w, j - 1)
      BY <1>1, <1>2, <3>1 DEF Back
    <3>3. Back(w, j - 1) = Back(r, j - 1)
      BY <3>1 DEF EndOf
    <3> QED BY <1>4, <3>1, <3>2, <3>3
  <2> QED BY <2>1, <2>2
<1>7. EndOf(v, s)
  BY <1>5, <1>6 DEF EndOf
<1> QED BY <1>2, <1>3, <1>7 DEF v, s

\* A window that is not full waits, and no slot is complete yet.
LEMMA WaitKeeps ==
    ASSUME NEW r \in Stream, NEW w \in Stream, Len(w) + 1 < Size, EndOf(w, r),
           Patient(w, r), NEW b \in Octet
    PROVE  /\ Patient(Append(w, b), Recall(r, b))
           /\ ~Unpacks(Append(w, b)) /\ ~Unpacks(Recall(r, b))
<1>1. Len(w) \in Nat /\ Len(Append(w, b)) = Len(w) + 1
  BY LenProperties, WindowGrows, SizeAssumption DEF Stream
<1>2. Recall(r, b) \in Stream
  BY RecallAppends
<1>3. ASSUME NEW k \in 1 .. Size, k > Len(w) + 1, k <= Len(Recall(r, b))
      PROVE  ~StartsSlot(Recall(r, b), k)
  BY <1>3, StillMissed
<1>4. Patient(Append(w, b), Recall(r, b))
  BY <1>1, <1>3, SizeAssumption DEF Patient, Missed
<1>5. ~Unpacks(Append(w, b))
  BY <1>1, SizeAssumption DEF Unpacks
<1>6. ~Unpacks(Recall(r, b))
  BY <1>1, <1>2, <1>3, UnpacksIsSlot, SizeAssumption
<1> QED BY <1>4, <1>5, <1>6

\* A full window is the last Size bytes of the stream.
LEMMA FullIsRecent ==
    ASSUME NEW v \in Stream, NEW s \in Stream, Len(v) = Size, EndOf(v, s)
    PROVE  /\ Len(s) = Size
           /\ Unpacks(v) <=> Unpacks(s)
<1>1. Len(s) \in Nat /\ Len(s) = Size
  BY LenProperties, SizeAssumption DEF Stream, EndOf
<1>2. \A j \in 0 .. Size - 1 : Back(v, j) = Back(s, j)
  BY DEF EndOf
<1>3. StartsSlot(v, Size) <=> StartsSlot(s, Size)
  BY <1>2, SizeAssumption DEF StartsSlot
<1> QED BY <1>1, <1>3, UnpacksIsSlot

\* After a whole slot nothing is pending: none of its bytes but the first starts one.
LEMMA EmitKeeps ==
    ASSUME NEW s \in Stream, Unpacks(s)
    PROVE  Patient(<<>>, s)
<1>1. StartsSlot(s, Size)
  BY UnpacksIsSlot
<1>2. Back(s, 0).off = Size - 1
  BY <1>1, SizeAssumption DEF StartsSlot
<1>3. ASSUME NEW k \in 1 .. Size - 1, StartsSlot(s, k) PROVE FALSE
  <2>1. Back(s, 0).off = k - 1
    BY <1>3, SizeAssumption DEF StartsSlot
  <2> QED BY <1>2, <2>1, SizeAssumption
<1> QED BY <1>3 DEF Patient, Missed

\* The next SOF in a window, if there is one
LEMMA FirstSof ==
    ASSUME NEW v \in Stream, LaterSofs(v) # {}
    PROVE  \E i \in LaterSofs(v) :
              /\ \A j \in LaterSofs(v) : i <= j
              /\ Resync(v) = SubSeq(v, i, Len(v))
<1> DEFINE Least1(i) == \A j \in LaterSofs(v) : i <= j
           first == CHOOSE i \in LaterSofs(v) : Least1(i)
<1>1. LaterSofs(v) \subseteq Nat
  BY LenProperties DEF LaterSofs, Stream
<1>2. \E i \in LaterSofs(v) : Least1(i)
  BY <1>1, Least
<1>3. first \in LaterSofs(v) /\ Least1(first)
  BY <1>2
<1>4. Resync(v) = SubSeq(v, first, Len(v))
  BY DEF Resync
<1> QED BY <1>3, <1>4

\* Where a slot starts in a full window there is a SOF.
LEMMA StartHasSof ==
    ASSUME NEW v \in Stream, Len(v) = Size, NEW k \in 1 .. Size - 1, StartsSlot(v, k)
    PROVE  Size - k + 1 \in LaterSofs(v)
<1>1. v[Size - k + 1] = Back(v, k - 1) /\ Size - k + 1 \in 2 .. Len(v)
  BY SizeAssumption DEF Back
<1>2. v[Size - k + 1] \in Octet
  BY <1>1, ElementOfSeq, SizeAssumption DEF Stream
<1>3. Back(v, k - 1).ok /\ Back(v, k - 1).off = 0
  BY SizeAssumption DEF StartsSlot
<1> QED BY <1>1, <1>2, <1>3 DEF LaterSofs, Octet

\* A full window that does not unpack is cut at its next SOF, before which no slot starts.
LEMMA ResyncKeeps ==
    ASSUME NEW v \in Stream, Len(v) = Size
    PROVE  /\ Resync(v) \in Stream /\ Len(Resync(v)) < Size
           /\ EndOf(Resync(v), v) /\ Patient(Resync(v), v)
<1> USE SizeAssumption
<1>1. CASE LaterSofs(v) = {}
  <2>1. Resync(v) = <<>> /\ <<>> \in Stream /\ Len(<<>>) = 0
    BY <1>1, EmptySeq DEF Resync, Stream
  <2>2. Patient(<<>>, v)
    BY <1>1, StartHasSof DEF Patient, Missed
  <2> QED BY <2>1, <2>2 DEF EndOf
<1>2. CASE LaterSofs(v) # {}
  <2>1. PICK i \in LaterSofs(v) :
          /\ \A j \in LaterSofs(v) : i <= j
          /\ Resync(v) = SubSeq(v, i, Size)
    BY <1>2, FirstSof
  <2>2. i \in 2 .. Size
    BY DEF LaterSofs
  <2> DEFINE u == SubSeq(v, i, Size)
  <2>3. \A n \in i .. Size : v[n] \in Octet
    BY <2>2, ElementOfSeq DEF Stream
  <2>4. /\ u \in Seq(Octet) /\ Len(u) = Size - i + 1
        /\ \A n \in 1 .. Size - i + 1 : u[n] = v[i + n - 1]
    BY <2>2, <2>3, SubSeqProperties
  <2> HIDE DEF u
  <2>5. u \in Stream /\ Len(u) < Size
    BY <2>2, <2>4 DEF Stream
  <2>6. EndOf(u, v)
    BY <2>2, <2>4 DEF EndOf, Back
  <2>7. ASSUME NEW k \in 1 .. Size - 1, Missed(u, v, k) PROVE FALSE
    <3>1. Size - k + 1 \in LaterSofs(v)
      BY <2>7, StartHasSof DEF Missed
    <3>2. Size - k + 1 < i
      BY <2>2, <2>4, <2>7 DEF Missed
    <3> QED BY <2>1, <2>2, <3>1, <3>2
  <2> QED BY <2>1, <2>5, <2>6, <2>7 DEF Patient, u
<1> QED BY <1>1, <1>2

-----------------------------------------------------------------------------
LEMMA InitStream == Init => StreamInv
<1> SUFFICES ASSUME Init PROVE StreamInv
  OBVIOUS
<1> USE SizeAssumption DEF Init
<1>1. <<>> \in Stream /\ Len(<<>>) = 0 /\ <<>> \in Seq(Octet)
  BY EmptySeq DEF Stream
<1>2. EndOf(<<>>, <<>>) /\ Patient(<<>>, <<>>)
  BY <1>1 DEF EndOf, Patient, Missed
<1> QED BY <1>1, <1>2 DEF StreamInv, OnlyHitSlotsLost

\* The bytes of a slot, garbled or not, are bytes.
LEMMA BytesAreOctets ==
    ASSUME StreamInv, NEW o \in Nat
    PROVE  Byte(o) \in Octet /\ \A sof \in BOOLEAN : Garbled(o, sof) \in Octet
BY DEF StreamInv, Byte, Garbled, Octet

\* A full ring drops a byte and keeps the others (spi_link.c:484-489).
LEMMA PushKeeps ==
    ASSUME NEW r \in Seq(Octet), NEW b \in Octet
    PROVE  Push(r, b) \in Seq(Octet)
BY AppendProperties DEF Push

\* What the master and the interrupt do changes the ring only.
LEMMA ReceiveKeeps ==
    ASSUME StreamInv, NEW hi \in Octet, NEW lo \in Octet, RxWord(hi, lo)
    PROVE  StreamInv'
<1>1. ring' \in Seq(Octet)
  BY PushKeeps DEF RxWord, StreamInv
<1>2. off' \in Nat
  BY DEF RxWord, StreamInv
<1> QED BY <1>1, <1>2 DEF RxWord, StreamInv, OnlyHitSlotsLost

LEMMA MasterKeeps ==
    ASSUME StreamInv, (\E d \in Decoys : BeginSlot(d)) \/ ClockWord \/ GarbleWord \/ OverrunWord
    PROVE  StreamInv'
<1>1. CASE \E d \in Decoys : BeginSlot(d)
  BY <1>1 DEF BeginSlot, StreamInv, OnlyHitSlotsLost
<1>2. off \in Nat /\ off + 1 \in Nat
  BY DEF StreamInv
<1>3. CASE ClockWord
  BY <1>2, <1>3, BytesAreOctets, ReceiveKeeps DEF ClockWord
<1>4. CASE GarbleWord
  <2>1. PICK sof \in BOOLEAN : \/ RxWord(Garbled(off, sof), Byte(off + 1))
                               \/ RxWord(Byte(off), Garbled(off + 1, sof))
    BY <1>4 DEF GarbleWord
  <2> QED BY <1>2, <2>1, BytesAreOctets, ReceiveKeeps
<1>5. CASE OverrunWord
  BY <1>2, <1>5 DEF OverrunWord, StreamInv, OnlyHitSlotsLost
<1> QED BY <1>1, <1>3, <1>4, <1>5

\* The scanner's step keeps the window the patient end of the stream and returns a slot
\* exactly when the reference does.
LEMMA ScanKeeps ==
    ASSUME StreamInv, TakeByte
    PROVE  StreamInv'
<1> DEFINE b == Head(ring)
           v == Append(window, b)
           s == Recall(recent, b)
<1>1. /\ ring \in Seq(Octet) /\ ring # <<>> /\ window \in Stream /\ recent \in Stream
      /\ Len(window) \in Nat /\ Len(window) < Size
      /\ EndOf(window, recent) /\ Patient(window, recent)
  BY LenProperties DEF StreamInv, TakeByte, Stream
<1>2. b \in Octet /\ ring' \in Seq(Octet)
  BY <1>1, HeadTailProperties DEF TakeByte
<1>3. recent' = s /\ s \in Stream /\ Len(s) \in Nat
  BY <1>1, <1>2, RecallAppends, LenProperties DEF TakeByte, Stream
<1>4. sent' \in Nat /\ off' \in Nat
  BY DEF TakeByte, master, StreamInv
<1>5. intact' = IF Unpacks(s) THEN Append(intact, b.slot) ELSE intact
  BY <1>3 DEF TakeByte
<1>6. CASE window = <<>> /\ ~b.sof
  <2>1. window' = <<>> /\ emitted' = emitted
    BY <1>6 DEF TakeByte
  <2>2. Patient(<<>>, s) /\ ~Unpacks(s)
    BY <1>1, <1>2, <1>6, SkipKeeps
  <2>3. <<>> \in Stream /\ Len(<<>>) = 0 /\ EndOf(<<>>, s)
    BY <1>3, EmptySeq, SizeAssumption DEF Stream, EndOf
  <2> QED
    BY <1>2, <1>3, <1>4, <1>5, <2>1, <2>2, <2>3, SizeAssumption
    DEF StreamInv, OnlyHitSlotsLost
<1>7. CASE ~(window = <<>> /\ ~b.sof)
  <2>1. /\ window' = Scan(v)
        /\ emitted' = IF Unpacks(v) THEN Append(emitted, b.slot) ELSE emitted
    BY <1>7 DEF TakeByte
  <2>2. v \in Stream /\ Len(v) = Len(window) + 1 /\ EndOf(v, s)
    BY <1>1, <1>2, WindowGrows
  <2> HIDE DEF b, v, s
  <2>3. CASE Len(window) + 1 < Size
    <3>1. Patient(v, s) /\ ~Unpacks(v) /\ ~Unpacks(s)
      BY <1>1, <1>2, <2>3, WaitKeeps DEF v, s
    <3>2. window' = v
      BY <2>1, <2>2, <2>3 DEF Scan
    <3> QED
      BY <1>2, <1>3, <1>4, <1>5, <2>1, <2>2, <2>3, <3>1, <3>2
      DEF StreamInv, OnlyHitSlotsLost
  <2>4. CASE Len(window) + 1 = Size
    <3>1. Len(s) = Size /\ (Unpacks(v) <=> Unpacks(s))
      BY <1>3, <2>2, <2>4, FullIsRecent
    <3>2. emitted' = intact'
      BY <1>5, <2>1, <3>1 DEF StreamInv, OnlyHitSlotsLost
    <3>3. CASE Unpacks(v)
      <4>1. window' = <<>>
        BY <2>1, <2>2, <2>4, <3>3, SizeAssumption DEF Scan
      <4>2. Patient(<<>>, s)
        BY <1>3, <3>1, <3>3, EmitKeeps
      <4>3. <<>> \in Stream /\ Len(<<>>) = 0 /\ EndOf(<<>>, s)
        BY <1>3, EmptySeq, SizeAssumption DEF Stream, EndOf
      <4> QED BY <1>2, <1>3, <1>4, <3>2, <4>1, <4>2, <4>3, SizeAssumption
                 DEF StreamInv, OnlyHitSlotsLost
    <3>4. CASE ~Unpacks(v)
      <4>1. window' = Resync(v)
        BY <2>1, <2>2, <2>4, <3>4, SizeAssumption DEF Scan
      <4>2. /\ Resync(v) \in Stream /\ Len(Resync(v)) < Size
            /\ EndOf(Resync(v), v) /\ Patient(Resync(v), v)
        BY <2>2, <2>4, ResyncKeeps
      <4>3. \A j \in 0 .. Size - 1 : Back(v, j) = Back(s, j)
        BY <2>2, <2>4 DEF EndOf
      <4>4. EndOf(Resync(v), s)
        BY <2>2, <2>4, <3>1, <4>2, <4>3, LenProperties, SizeAssumption DEF EndOf, Stream
      <4>5. Patient(Resync(v), s)
        BY <2>2, <2>4, <3>1, <4>2, <4>3, SizeAssumption DEF Patient, Missed, StartsSlot
      <4> QED
        BY <1>2, <1>3, <1>4, <3>2, <4>1, <4>2, <4>4, <4>5
        DEF StreamInv, OnlyHitSlotsLost
    <3> QED BY <3>3, <3>4
  <2> QED BY <1>1, <2>3, <2>4, SizeAssumption
<1> QED BY <1>6, <1>7

LEMMA StepKeepsStream == StreamInv /\ [Next]_vars => StreamInv'
<1> SUFFICES ASSUME StreamInv, [Next]_vars PROVE StreamInv'
  OBVIOUS
<1>1. CASE UNCHANGED vars
  BY <1>1 DEF vars, master, StreamInv, OnlyHitSlotsLost
<1>2. CASE Next
  BY <1>2, MasterKeeps, ScanKeeps DEF Next
<1> QED BY <1>1, <1>2

\* The scanner returns exactly the slots whose bytes reached it in a row, although it
\* forgets bytes as it slides: for every slot size, ring size and set of bytes that look
\* like a SOF, and any loss, corruption or abort (spi_frame_stream.c, spi_link.c).
THEOREM NoSlotMissed == Spec => []OnlyHitSlotsLost
<1>1. StreamInv => OnlyHitSlotsLost
  BY DEF StreamInv
<1> QED BY InitStream, StepKeepsStream, <1>1, PTL DEF Spec

-----------------------------------------------------------------------------
(***************************************************************************)
(* The capture of the real device's descriptors.  A device that answers at *)
(* an address was reset on this attachment, and there is no reset between  *)
(* the first transfer of an attempt and its end: so whoever answers is the *)
(* device the first transfer found.                                        *)
(***************************************************************************)

\* The places of a capture past the success of a step of it.
Places == {"dev8", "set_address", "dev18", "config9", "config", "hid", "langid", "string",
           "set_config", "bos", "ms_os", "set_idle"}
PastConfigured == {"bos", "ms_os", "set_idle", "speed", "relay"}
PastConfig == {"hid", "langid", "string", "set_config"} \cup PastConfigured
PastConfig9 == {"config"} \cup PastConfig
PastDev18 == {"config9"} \cup PastConfig9
PastDev8 == {"set_address", "dev18"} \cup PastDev18

CaptureTypes ==
    /\ session \in Nat /\ plugged \in BOOLEAN
    /\ plugged => session > 0
    /\ address \in {"none", "default", "assigned"} /\ devConfigured \in BOOLEAN
    /\ step \in {"wait", "reset", "settle", "speed", "relay"} \cup Places
    /\ desc \in [Capture!Fields -> Nat] /\ \A p \in Capture!Fields : desc[p] <= session

\* The attempt's device: the one that answered its first transfer.
Found == desc["dev8"]

CaptureInv ==
    /\ CaptureTypes
    /\ step \in PastDev8 => Found > 0 /\ (plugged /\ address # "none" => session = Found)
    /\ step \in PastDev18 =>
         /\ desc["dev18"] = Found
         /\ plugged /\ session = Found => address = "assigned"
    /\ step \in PastConfig9 => desc["config9"] = Found
    /\ step \in PastConfig =>
         /\ desc["config"] = Found
         /\ \A p \in Capture!Optional : desc[p] \in {0, Found}
    /\ step \notin PastConfig \cup {"wait"} => \A p \in Capture!Optional : desc[p] = 0
    /\ step \in PastConfigured => (plugged /\ session = Found => devConfigured)

-----------------------------------------------------------------------------
LEMMA StepAfterPlace ==
    ASSUME NEW i \in DOMAIN Capture!Steps
    PROVE  /\ Capture!Steps[i] \in Places
           /\ Capture!StepAfter(Capture!Steps[i]) =
                IF i = 12 THEN "speed" ELSE Capture!Steps[i + 1]
<1>1. DOMAIN Capture!Steps = 1 .. 12 /\ Len(Capture!Steps) = 12
  BY DEF Capture!Steps
<1>2. \A j \in 1 .. 12 : Capture!Steps[j] = Capture!Steps[i] => j = i
  BY <1>1 DEF Capture!Steps
<1>3. (CHOOSE j \in DOMAIN Capture!Steps : Capture!Steps[j] = Capture!Steps[i]) = i
  BY <1>1, <1>2
<1>4. Capture!Steps[i] \in Places
  BY <1>1 DEF Capture!Steps, Places
<1>5. Capture!StepAfter(Capture!Steps[i]) =
        IF i = Len(Capture!Steps) THEN "speed" ELSE Capture!Steps[i + 1]
  BY <1>3, Zenon DEF Capture!StepAfter
<1> QED
  BY <1>1, <1>4, <1>5

\* The steps in order, by name.
LEMMA StepOrder ==
    /\ Capture!StepAfter("dev8") = "set_address"
    /\ Capture!StepAfter("set_address") = "dev18"
    /\ Capture!StepAfter("dev18") = "config9" /\ Capture!StepAfter("config9") = "config"
    /\ Capture!StepAfter("config") = "hid" /\ Capture!StepAfter("hid") = "langid"
    /\ Capture!StepAfter("langid") = "string" /\ Capture!StepAfter("string") = "set_config"
    /\ Capture!StepAfter("set_config") = "bos" /\ Capture!StepAfter("bos") = "ms_os"
    /\ Capture!StepAfter("ms_os") = "set_idle" /\ Capture!StepAfter("set_idle") = "speed"
<1>1. \A i \in 1 .. 12 :
        Capture!StepAfter(Capture!Steps[i]) =
          IF i = 12 THEN "speed" ELSE Capture!Steps[i + 1]
  <2>1. DOMAIN Capture!Steps = 1 .. 12
    BY DEF Capture!Steps
  <2> QED
    BY <2>1, StepAfterPlace
<1> QED
  BY <1>1 DEF Capture!Steps

\* A capture starts with nothing.
LEMMA NothingType ==
    /\ Capture!Nothing \in [Capture!Fields -> Nat]
    /\ \A p \in Capture!Fields : Capture!Nothing[p] = 0
    /\ Capture!Optional \subseteq Capture!Fields
    /\ Capture!Required \subseteq Capture!Fields
  BY DEF Capture!Nothing, Capture!Fields

LEMMA InitCapture == Capture!Init => CaptureInv
<1> SUFFICES ASSUME Capture!Init PROVE CaptureInv
  OBVIOUS
<1>1. CaptureTypes
  <2>1. \A p \in Capture!Fields : desc[p] <= session
    BY NothingType DEF Capture!Init
  <2> QED
    BY <2>1, NothingType DEF Capture!Init, CaptureTypes
<1>2. step = "wait"
  BY DEF Capture!Init
<1> QED
  BY <1>1, <1>2 DEF CaptureInv, PastDev8, PastDev18, PastConfig9, PastConfig, PastConfigured

\* A new device has no address, and is not the attempt's.
LEMMA PlugCapture ==
    ASSUME CaptureInv, Capture!Plug \/ Capture!Unplug
    PROVE  CaptureInv'
<1>1. CaptureTypes'
  <2>1. session' \in Nat /\ session' >= session /\ (plugged' => session' > 0)
    BY DEF CaptureInv, CaptureTypes, Capture!Plug, Capture!Unplug
  <2>2. plugged' \in BOOLEAN
    BY DEF Capture!Plug, Capture!Unplug
  <2>3. devConfigured' \in BOOLEAN
    BY DEF CaptureInv, CaptureTypes, Capture!Plug, Capture!Unplug
  <2>4. address' \in {"none", "default", "assigned"}
    BY DEF CaptureInv, CaptureTypes, Capture!Plug, Capture!Unplug
  <2>5. step' = step /\ desc' = desc
    BY DEF Capture!Plug, Capture!Unplug, Capture!capture
  <2>6. \A p \in Capture!Fields : desc[p] \in Nat /\ desc[p] <= session
    BY DEF CaptureInv, CaptureTypes
  <2>7. \A p \in Capture!Fields : desc[p] <= session'
    BY <2>1, <2>6 DEF CaptureInv, CaptureTypes
  <2> QED
    BY <2>1, <2>2, <2>3, <2>4, <2>5, <2>7 DEF CaptureInv, CaptureTypes
<1>2. UNCHANGED <<step, desc>> /\ Found <= session
  BY DEF Capture!Plug, Capture!Unplug, Capture!capture, CaptureInv, CaptureTypes,
         Capture!Fields, Capture!Required, Found
<1>3. CASE Capture!Plug
  BY <1>1, <1>2, <1>3 DEF CaptureInv, CaptureTypes, Capture!Plug, Found
<1>4. CASE Capture!Unplug
  BY <1>1, <1>2, <1>4 DEF CaptureInv, CaptureTypes, Capture!Unplug, Found
<1> QED
  BY <1>3, <1>4

\* Up to the first transfer only the optional parts matter, which are absent.
LEMMA BeforeCapture ==
    ASSUME CaptureInv, Capture!Begin \/ Capture!PortReset \/ Capture!Settle
    PROVE  CaptureInv'
<1>1. step' \in {"reset", "settle", "dev8", "wait"}
  BY DEF Capture!Begin, Capture!PortReset, Capture!Settle, Capture!Failed, Capture!FirstStep
<1>2. CaptureTypes'
  <2>1. /\ session' = session /\ plugged' = plugged /\ devConfigured' \in BOOLEAN
        /\ address' \in {"none", "default", "assigned"}
    BY DEF CaptureInv, CaptureTypes, Capture!Begin, Capture!PortReset, Capture!Settle,
           Capture!device
  <2>2. desc' = desc \/ desc' = Capture!Nothing
    BY DEF Capture!Begin, Capture!PortReset, Capture!Settle
  <2>3. desc' \in [Capture!Fields -> Nat] /\ \A p \in Capture!Fields : desc'[p] <= session'
    BY <2>1, <2>2, NothingType DEF CaptureInv, CaptureTypes
  <2> QED
    BY <1>1, <2>1, <2>3 DEF CaptureInv, CaptureTypes, Places
<1>3. \A p \in Capture!Optional : step' # "wait" => desc'[p] = 0
  BY DEF CaptureInv, Capture!Begin, Capture!PortReset, Capture!Settle, Capture!Nothing,
         Capture!Fields, Capture!Optional, PastConfig, PastConfigured
<1> QED
  BY <1>1, <1>2, <1>3
  DEF CaptureInv, PastDev8, PastDev18, PastConfig9, PastConfig, PastConfigured

\* What a device keeps and takes when it acts on a request.
LEMMA ActsKeep ==
    ASSUME CaptureTypes, NEW s \in Places, Capture!DeviceActs(s) \/ UNCHANGED Capture!device
    PROVE  /\ session' = session /\ plugged' = plugged
           /\ address' = address \/ (s = "set_address" /\ address' = "assigned")
           /\ address' \in {"none", "default", "assigned"} /\ devConfigured' \in BOOLEAN
           /\ devConfigured => devConfigured'
  BY DEF Capture!DeviceActs, Capture!device, CaptureTypes

\* A transfer that fails starts over, or leaves an optional part absent.
LEMMA FailCapture ==
    ASSUME CaptureInv, NEW s \in Places, Capture!Fail(s)
    PROVE  CaptureInv'
<1>1. /\ session' = session /\ plugged' = plugged /\ desc' = desc /\ step = s
      /\ address' = address
           \/ (s = "set_address" /\ address' = "assigned" /\ address = "default")
      /\ address' \in {"none", "default", "assigned"} /\ devConfigured' \in BOOLEAN
      /\ devConfigured => devConfigured'
  <2>1. Capture!DeviceActs(s) \/ UNCHANGED Capture!device
    BY DEF Capture!Fail
  <2>2. address' = address \/ (s = "set_address" /\ address' = "assigned" /\ address = "default")
    BY DEF Capture!Fail, Capture!Answers, Capture!Target, Capture!DeviceActs, Capture!device
  <2> QED
    BY <2>1, <2>2, ActsKeep DEF Capture!Fail, CaptureInv
<1>2. CASE s \in Capture!Enumerating
  <2>1. step' \in {"reset", "wait"}
    BY <1>2 DEF Capture!Fail, Capture!AfterFailure, Capture!Failed
  <2>2. CaptureTypes'
    BY <1>1, <2>1 DEF CaptureInv, CaptureTypes
  <2>3. \A p \in Capture!Optional : desc'[p] = 0
    BY <1>1, <1>2 DEF CaptureInv, Capture!Enumerating, PastConfig, PastConfigured
  <2> QED
    BY <2>1, <2>2, <2>3
    DEF CaptureInv, PastDev8, PastDev18, PastConfig9, PastConfig, PastConfigured
<1>3. CASE s \notin Capture!Enumerating
  <2>1. step' = IF s = "set_config" THEN "wait" ELSE Capture!StepAfter(s)
    BY <1>3 DEF Capture!Fail, Capture!AfterFailure
  <2>2. s \in PastConfig /\ s # "set_address"
    BY <1>3 DEF Capture!Enumerating, Places, PastConfig, PastConfigured
  <2>3. step' \in PastConfig \cup {"wait"} /\ step' \in Places \cup {"wait", "speed"}
        /\ (step' \in PastConfigured => step \in PastConfigured)
    BY <1>1, <2>1, <2>2, StepOrder DEF PastConfig, PastConfigured, Places
  <2>4. CaptureTypes'
    BY <1>1, <2>3 DEF CaptureInv, CaptureTypes
  <2>5. step \in PastDev8 /\ step \in PastDev18 /\ step \in PastConfig9 /\ step \in PastConfig
    BY <1>1, <2>2 DEF PastDev8, PastDev18, PastConfig9
  <2> QED
    BY <1>1, <2>2, <2>3, <2>4, <2>5 DEF CaptureInv, Found
<1> QED
  BY <1>2, <1>3

\* A transfer that succeeds was answered by the attempt's device.
LEMMA SucceedCapture ==
    ASSUME CaptureInv, NEW s \in Places, Capture!Succeed(s)
    PROVE  CaptureInv'
<1>1. /\ session' = session /\ plugged' = plugged /\ plugged /\ step = s
      /\ address = Capture!Target(s)
      /\ address' = address \/ (s = "set_address" /\ address' = "assigned")
      /\ address' \in {"none", "default", "assigned"} /\ devConfigured' \in BOOLEAN
      /\ devConfigured => devConfigured'
      /\ desc' = IF s \in Capture!Fields THEN [desc EXCEPT ![s] = session] ELSE desc
      /\ step' = Capture!StepAfter(s)
  BY ActsKeep DEF Capture!Succeed, CaptureInv, Capture!Answers, Capture!Store
<1>2. s = "set_config" => devConfigured'
  BY DEF Capture!Succeed, Capture!DeviceActs
<1>3. CaptureTypes' /\ session > 0
  <2>1. step' \in Places \cup {"speed"}
    BY <1>1, StepOrder DEF Places
  <2>2. desc' \in [Capture!Fields -> Nat] /\ \A p \in Capture!Fields : desc'[p] <= session
    BY <1>1 DEF CaptureInv, CaptureTypes
  <2> QED
    BY <1>1, <2>1, <2>2 DEF CaptureInv, CaptureTypes
<1>4. s # "dev8" => session = Found
  BY <1>1
  DEF CaptureInv, Capture!Target, PastDev8, PastDev18, PastConfig9, PastConfig,
      PastConfigured, Places
<1>5. CASE s \in {"dev8", "set_address"}
  <2>1. /\ step' \in {"set_address", "dev18"} /\ desc'["dev8"] = session
        /\ \A p \in Capture!Optional : desc'[p] = 0
    BY <1>1, <1>4, <1>5, StepOrder
    DEF CaptureInv, CaptureTypes, Capture!Fields, Capture!Required, Capture!Optional, Found,
        PastConfig, PastConfigured
  <2> QED
    BY <1>1, <1>3, <2>1
    DEF CaptureInv, Found, PastDev8, PastDev18, PastConfig9, PastConfig, PastConfigured
<1>6. CASE s \in {"dev18", "config9", "config"}
  <2>1. /\ desc' = [desc EXCEPT ![s] = Found] /\ address' = "assigned"
        /\ step' \in {"config9", "config", "hid"} /\ (step' = "config9" <=> s = "dev18")
        /\ (step' = "config" <=> s = "config9")
    BY <1>1, <1>4, <1>6, StepOrder DEF Capture!Fields, Capture!Required, Capture!Target
  <2>2. /\ desc'["dev8"] = Found /\ desc'[s] = Found
        /\ \A p \in {"dev18", "config9", "config"} \ {s} : desc'[p] = desc[p]
        /\ \A p \in Capture!Optional : desc'[p] = 0
    BY <1>1, <1>6, <2>1
    DEF CaptureInv, CaptureTypes, Capture!Fields, Capture!Required, Capture!Optional, Found,
        PastConfig, PastConfigured
  <2> QED
    BY <1>1, <1>3, <1>4, <1>6, <2>1, <2>2
    DEF CaptureInv, Found, PastDev8, PastDev18, PastConfig9, PastConfig, PastConfigured
<1>7. CASE s \notin Capture!Enumerating
  <2>1. s \in PastConfig /\ s # "dev8" /\ s \notin Capture!Required
    BY <1>7 DEF Capture!Enumerating, Places, PastConfig, PastConfigured, Capture!Required
  <2>2. /\ address' = "assigned" /\ step' \in PastConfig /\ s # "set_address"
        /\ (step' \in PastConfigured => s \in PastConfigured \/ s = "set_config")
    BY <1>1, <1>7, <2>1, StepOrder
    DEF Capture!Target, PastConfig, PastConfigured, Capture!Enumerating, Places
  <2>3. /\ \A p \in Capture!Required : desc'[p] = desc[p]
        /\ \A p \in Capture!Optional : desc'[p] \in {desc[p], Found}
    BY <1>1, <1>4, <2>1 DEF CaptureInv, CaptureTypes, Capture!Fields
  <2>4. step \in PastDev8 /\ step \in PastDev18 /\ step \in PastConfig9 /\ step \in PastConfig
    BY <1>1, <2>1 DEF PastDev8, PastDev18, PastConfig9
  <2>5. desc'["dev8"] = Found /\ desc'["dev18"] = Found /\ desc'["config9"] = Found
        /\ desc'["config"] = Found
    BY <2>3, <2>4 DEF CaptureInv, Capture!Required, Found
  <2> QED
    BY <1>1, <1>2, <1>3, <1>4, <2>2, <2>3, <2>4, <2>5 DEF CaptureInv, Found
<1> QED
  BY <1>5, <1>6, <1>7 DEF Capture!Enumerating

\* The speed is no part of what one device is held to.
LEMMA StampSpeedCapture ==
    ASSUME CaptureInv, Capture!StampSpeed
    PROVE  CaptureInv'
<1>1. /\ step' = "relay" /\ step = "speed" /\ UNCHANGED Capture!device
      /\ \A p \in Capture!Required \cup Capture!Optional : desc'[p] = desc[p]
      /\ desc' \in [Capture!Fields -> Nat] /\ \A p \in Capture!Fields : desc'[p] <= session
  BY DEF Capture!StampSpeed, CaptureInv, CaptureTypes, Capture!Fields, Capture!Required,
         Capture!Optional
<1>2. CaptureTypes'
  BY <1>1 DEF CaptureInv, CaptureTypes, Capture!device
<1> QED
  BY <1>1, <1>2
  DEF CaptureInv, Found, Capture!device, Capture!Required, PastDev8, PastDev18, PastConfig9,
      PastConfig, PastConfigured

LEMMA StepCapture ==
    ASSUME CaptureInv, [MCNext]_<<vars, returnvars, usbvars, part>>
    PROVE  CaptureInv'
<1>1. ASSUME NEW i \in DOMAIN Capture!Steps,
             Capture!Succeed(Capture!Steps[i]) \/ Capture!Fail(Capture!Steps[i])
      PROVE  CaptureInv'
  BY <1>1, StepAfterPlace, SucceedCapture, FailCapture
<1>2. CASE Capture!Loop \/ UNCHANGED capturevars
  BY <1>2
  DEF Capture!Loop, Capture!vars, Capture!device, Capture!capture, capturevars, CaptureInv,
      CaptureTypes, Found
<1>3. CASE Capture!Next
  BY <1>1, <1>2, <1>3, PlugCapture, BeforeCapture, StampSpeedCapture DEF Capture!Next
<1> QED
  BY <1>2, <1>3 DEF MCNext, Usb, Spi, usbvars

\* The inductive invariant: whoever answers in an attempt is the device its first
\* transfer found.
THEOREM CaptureInductive == MCSpec => []CaptureInv
<1>1. MCInit => CaptureInv
  BY InitCapture DEF MCInit
<1> QED
  BY <1>1, StepCapture, PTL DEF MCSpec

\* A capture that succeeds describes one device, which is addressed and configured if it
\* is still there, however often devices are swapped and however many attempts it takes
\* (desc_capture.c:239-468).
THEOREM OneDevice == MCSpec => []CloneOfOneDevice
<1>1. CaptureInv => CloneOfOneDevice
  BY DEF CaptureInv, CaptureTypes, CloneOfOneDevice, Capture!CloneOfOneDevice, Found,
         Capture!Required, PastDev8, PastDev18, PastConfig9, PastConfig, PastConfigured
<1> QED
  BY <1>1, CaptureInductive, PTL

-----------------------------------------------------------------------------
(***************************************************************************)
(* The device the PC sees.                                                 *)
(***************************************************************************)

LEMMA DeviceStep ==
    /\ Device!Next => DeviceProofs!Next
    /\ Device!HsNext => \/ DeviceProofs!Next /\ UNCHANGED kept
                        \/ /\ DeviceProofs!BusReset \/ DeviceProofs!TakeReport
                           /\ kept' = FALSE
                        \/ DeviceProofs!HsClearHaltIn
<1> USE DEF Device!device, Device!inEp, Device!outEp, Device!ep0, Device!relay,
        Device!history, Device!Forwarding, Device!Flip, Device!AfterOut,
        Device!MayCapture, Device!NoData, Device!ArmingOne, Device!Reopening,
        DeviceProofs!device, DeviceProofs!inEp, DeviceProofs!outEp, DeviceProofs!ep0,
        DeviceProofs!relay, DeviceProofs!history, DeviceProofs!Forwarding,
        DeviceProofs!Flip, DeviceProofs!AfterOut, DeviceProofs!MayCapture,
        DeviceProofs!NoData, DeviceProofs!ArmingOne, DeviceProofs!Reopening
<1>1. Device!BusReset => DeviceProofs!BusReset
  BY DEF Device!BusReset, DeviceProofs!BusReset
<1>2. Device!HaltIn => DeviceProofs!HaltIn
  BY DEF Device!HaltIn, DeviceProofs!HaltIn
<1>3. Device!HaltOut => DeviceProofs!HaltOut
  BY DEF Device!HaltOut, DeviceProofs!HaltOut
<1>4. Device!ClearHaltIn => DeviceProofs!ClearHaltIn
  BY DEF Device!ClearHaltIn, DeviceProofs!ClearHaltIn
<1>5. Device!ClearHaltOut => DeviceProofs!ClearHaltOut
  BY DEF Device!ClearHaltOut, DeviceProofs!ClearHaltOut
<1>6. Device!TakeReport => DeviceProofs!TakeReport
  BY DEF Device!TakeReport, DeviceProofs!TakeReport
<1>7. Device!OutPacket => DeviceProofs!OutPacket
  BY DEF Device!OutPacket, DeviceProofs!OutPacket
<1>8. Device!SetReport => DeviceProofs!SetReport
  BY DEF Device!SetReport, DeviceProofs!SetReport
<1>9. Device!ReportData => DeviceProofs!ReportData
  BY DEF Device!ReportData, DeviceProofs!ReportData
<1>10. Device!SendReport => DeviceProofs!SendReport
  BY DEF Device!SendReport, DeviceProofs!SendReport
<1>11. Device!ReadControl => DeviceProofs!ReadControl
  BY DEF Device!ReadControl, DeviceProofs!ReadControl
<1>12. Device!WriteControl => DeviceProofs!WriteControl
  BY DEF Device!WriteControl, DeviceProofs!WriteControl
<1>13. Device!PollOut => DeviceProofs!PollOut
  BY DEF Device!PollOut, DeviceProofs!PollOut
<1>22. Device!ReopenOut => DeviceProofs!ReopenOut
  BY DEF Device!ReopenOut, DeviceProofs!ReopenOut
<1>14. Device!ForwardOut => DeviceProofs!ForwardOut
  BY DEF Device!ForwardOut, DeviceProofs!ForwardOut
<1>15. Device!PollReport => DeviceProofs!PollReport
  BY DEF Device!PollReport, DeviceProofs!PollReport
<1>16. Device!ForwardPart => DeviceProofs!ForwardPart
  BY DEF Device!ForwardPart, DeviceProofs!ForwardPart
<1>17. Device!ReportDone => DeviceProofs!ReportDone
  BY DEF Device!ReportDone, DeviceProofs!ReportDone
<1>18. Device!HsClearHaltIn => DeviceProofs!HsClearHaltIn
  BY DEF Device!HsClearHaltIn, DeviceProofs!HsClearHaltIn
<1>19. ASSUME NEW on \in BOOLEAN
      PROVE  Device!SetConfiguration(on) => DeviceProofs!SetConfiguration(on)
  BY DEF Device!SetConfiguration, DeviceProofs!SetConfiguration
<1>20. Device!Next => DeviceProofs!Next
  BY <1>1, <1>2, <1>3, <1>4, <1>5, <1>6, <1>7, <1>8, <1>9, <1>10, <1>11, <1>12, <1>13,
     <1>14, <1>15, <1>16, <1>17, <1>18, <1>19, <1>22
  DEF Device!Next, Device!Handler, Device!Relay,
      DeviceProofs!Next, DeviceProofs!Handler, DeviceProofs!Relay
<1>21. Device!HsNext => \/ Device!Next /\ UNCHANGED kept
                        \/ (Device!BusReset \/ Device!TakeReport) /\ kept' = FALSE
                        \/ Device!HsClearHaltIn
  BY DEF Device!HsNext, Device!HsHandler, Device!HsBusReset, Device!HsSetConfiguration,
         Device!HsSetHalt, Device!HsClearHaltOut, Device!HsTakeReport, Device!HsOutPacket,
         Device!HsSetReport, Device!HsReportData, Device!HsSendReport, Device!HsArm,
         Device!HsPollOut, Device!HsPollReport, Device!HsReportDone, Device!AsFs,
         Device!Next, Device!Handler, Device!Relay
<1> QED BY <1>1, <1>6, <1>18, <1>20, <1>21

LEMMA ReportKept ==
    ASSUME DeviceProofs!ReportInv, Parts \in Nat \ {0},
           [MCNext]_<<vars, returnvars, usbvars, part>>
    PROVE  DeviceProofs!ReportInv'
<1>1. CASE Device!Next
  BY <1>1, DeviceStep, DeviceProofs!StepKeepsReport
<1>2. CASE Device!HsNext
  <2>1. DeviceProofs!Next \/ DeviceProofs!HsClearHaltIn
    BY <1>2, DeviceStep DEF DeviceProofs!Next, DeviceProofs!Handler
  <2> QED BY <2>1, DeviceProofs!StepKeepsReport, DeviceProofs!HsClearKeepsReport
<1>3. CASE UNCHANGED devicevars
  <2>1. UNCHANGED DeviceProofs!vars
    BY <1>3 DEF devicevars, DeviceProofs!vars, DeviceProofs!device, DeviceProofs!inEp,
            DeviceProofs!outEp, DeviceProofs!ep0, DeviceProofs!relay, DeviceProofs!history
  <2> QED BY <2>1, DeviceProofs!StepKeepsReport
<1> QED BY <1>1, <1>2, <1>3 DEF MCNext, Usb, Spi, usbvars, Device!AsFs

\* On either controller, beside the other wires, a SET_REPORT that is replayed on the real
\* device is a whole one (usb_device_fs.c, usb_device_hs.c, poll_ep0_report).
THEOREM ReplayAmongOthers == MCSpec => []SetReportIntact
<1>1. MCInit => DeviceProofs!ReportInv
  <2>1. Device!Init => DeviceProofs!Init
    BY DEF Device!Init, DeviceProofs!Init
  <2> QED BY <2>1, ReportAssumption, DeviceProofs!InitReport DEF MCInit, Device!HsInit
<1>2. DeviceProofs!ReportInv => SetReportIntact
  BY DEF SetReportIntact, Device!SetReportIntact, DeviceProofs!ReportInv,
         DeviceProofs!ReplayInStep, DeviceProofs!Forwarding, DeviceProofs!Segment
<1>3. DeviceProofs!ReportInv /\ [MCNext]_<<vars, returnvars, usbvars, part>>
        => DeviceProofs!ReportInv'
  BY ReportAssumption, ReportKept
<1> QED BY <1>1, <1>2, <1>3, PTL DEF MCSpec

\* What the two sides of the endpoints are held to: the toggles, and the OUT packets;
\* only the High-Speed controller keeps a toggle over a cleared halt.
EndpointInv ==
    /\ DeviceProofs!OutInv /\ DeviceProofs!ToggleInv
    /\ part # "hs" => ~kept

LEMMA EndpointsKept ==
    ASSUME EndpointInv, [MCNext]_<<vars, returnvars, usbvars, part>>
    PROVE  EndpointInv'
<1>0. kept \in BOOLEAN
  BY DEF EndpointInv, DeviceProofs!ToggleInv, DeviceProofs!ArmGuarded
<1>1. CASE Device!Next /\ UNCHANGED <<kept, part>>
  <2>1. DeviceProofs!Next
    BY <1>1, DeviceStep
  <2>2. DeviceProofs!OutInv'
    BY <2>1, DeviceProofs!StepKeepsOut DEF EndpointInv
  <2>3. DeviceProofs!ToggleInv'
    BY <1>1, <2>1, DeviceProofs!FsStepKeepsToggles DEF EndpointInv
  <2> QED BY <1>1, <2>2, <2>3 DEF EndpointInv
<1>2. CASE Device!HsNext /\ part = "hs" /\ UNCHANGED part
  <2>1. CASE DeviceProofs!Next /\ UNCHANGED kept
    <3>1. DeviceProofs!OutInv'
      BY <2>1, DeviceProofs!StepKeepsOut DEF EndpointInv
    <3>2. DeviceProofs!ToggleInv'
      BY <2>1, DeviceProofs!FsStepKeepsToggles DEF EndpointInv
    <3> QED BY <1>2, <3>1, <3>2 DEF EndpointInv
  <2>2. CASE (DeviceProofs!BusReset \/ DeviceProofs!TakeReport) /\ kept' = FALSE
    <3>1. DeviceProofs!OutInv'
      BY <2>2, DeviceProofs!StepKeepsOut
      DEF EndpointInv, DeviceProofs!Next, DeviceProofs!Handler
    <3>2. DeviceProofs!ToggleInv'
      BY <2>2, DeviceProofs!ResetEqualsToggles, DeviceProofs!TakingEqualsToggles
      DEF EndpointInv, DeviceProofs!ToggleInv
    <3> QED BY <1>2, <3>1, <3>2 DEF EndpointInv
  <2>3. CASE DeviceProofs!HsClearHaltIn
    <3>1. DeviceProofs!OutInv'
      BY <2>3, DeviceProofs!HsClearKeepsOut DEF EndpointInv
    <3>2. DeviceProofs!ToggleInv'
      BY <2>3, DeviceProofs!HsClearKeepsToggles DEF EndpointInv
    <3> QED BY <1>2, <3>1, <3>2 DEF EndpointInv
  <2> QED BY <1>2, <2>1, <2>2, <2>3, DeviceStep
<1>3. CASE UNCHANGED <<devicevars, part>>
  <2>1. UNCHANGED DeviceProofs!vars /\ UNCHANGED <<kept, part>>
    BY <1>3 DEF devicevars, DeviceProofs!vars, DeviceProofs!device, DeviceProofs!inEp,
            DeviceProofs!outEp, DeviceProofs!ep0, DeviceProofs!relay, DeviceProofs!history
  <2>2. DeviceProofs!OutInv'
    BY <2>1, DeviceProofs!StepKeepsOut DEF EndpointInv
  <2>3. DeviceProofs!ToggleInv'
    BY <2>1, DeviceProofs!FsStepKeepsToggles DEF EndpointInv
  <2> QED BY <2>1, <2>2, <2>3 DEF EndpointInv
<1> QED BY <1>1, <1>2, <1>3 DEF MCNext, Usb, Spi, usbvars, Device!AsFs

\* On either controller, beside the other wires: the toggle of the next report is the one
\* the PC expects, except, until the next report is taken, after a reset or a cleared halt
\* that hit the arming of one with DATA1, after a second configuration without a reset, and
\* on the High-Speed controller after any halt cleared over DATA1; and every OUT packet, a
\* repeated one like a new one, is handed over once, unless a reset or a cleared halt gave
\* it up (usb_device_fs.c, usb_device_hs.c: send_report, poll_out).
THEOREM EndpointsInStep == MCSpec => []EndpointsAgree
<1>1. MCInit => EndpointInv
  <2>1. Device!HsInit => DeviceProofs!HsInit /\ kept = FALSE
    BY DEF Device!HsInit, DeviceProofs!HsInit, Device!Init, DeviceProofs!Init
  <2> QED BY <2>1, DeviceProofs!InitOut, DeviceProofs!InitToggles
          DEF MCInit, EndpointInv, DeviceProofs!HsInit, DeviceProofs!ToggleInv
<1>2. EndpointInv => EndpointsAgree
  BY DEF EndpointInv, EndpointsAgree, DeviceProofs!OutInv, DeviceProofs!ToggleInv,
         DeviceProofs!TogglesEqual, DeviceProofs!OutHandedOnce, Device!OutHandedOnce,
         Device!ToggleAgrees, Device!HsToggleAgrees
<1> QED BY <1>1, <1>2, EndpointsKept, PTL DEF MCSpec

-----------------------------------------------------------------------------
(***************************************************************************)
(* The command port of Board B.  Bytes are numbered, so that bytes arrive  *)
(* once and in order is that their numbers rise.  The parser has, or will  *)
(* read from the ring, what came before the packet that waits in the       *)
(* endpoint's buffer; the PC has what left before the packet in flight,    *)
(* which left before what the transmit ring still holds.                   *)
(***************************************************************************)

Rising(s) == \A i, j \in 1 .. Len(s) : i < j => s[i] < s[j]
Below(s, t) == \A i \in 1 .. Len(s), j \in 1 .. Len(t) : s[i] < t[j]
UpTo(s, n) == \A i \in 1 .. Len(s) : 1 <= s[i] /\ s[i] <= n

Came == fed \o rxRing

PortTypes ==
    /\ cdcConfigured \in BOOLEAN /\ cdcOutPend \in BOOLEAN
    /\ reopened \in BOOLEAN /\ cdcSkewed \in BOOLEAN
    /\ {cdcOutResp, cdcInResp} \subseteq {"ACK", "NAK"}
    /\ {cdcInTog, cdcPcTog, cdcCtrl} \subseteq 0 .. 1
    /\ cdcAt \in {"read", "drain", "clear", "open", "load", "arm"}
    /\ cdcSent \in Nat /\ answered \in Nat
    /\ fed \in Seq(Nat) /\ rxRing \in Seq(Nat) /\ cdcOutBuf \in Seq(Nat)
    /\ got \in Seq(Nat) /\ txRing \in Seq(Nat) /\ inBuf \in Seq(Nat)
    /\ Len(rxRing) < RxRingBytes /\ Len(txRing) < TxRingBytes
    /\ Len(cdcOutBuf) <= Bulk /\ Len(inBuf) <= Bulk

\* While the PC opens nothing itself, the endpoint is shut from the arrival of a packet
\* until the loop has taken it, which it does into an empty ring.
CommandInv ==
    /\ Rising(Came) /\ UpTo(Came, cdcSent)
    /\ Rising(cdcOutBuf) /\ UpTo(cdcOutBuf, cdcSent)
    /\ cdcOutPend /\ cdcAt # "clear" => Below(Came, cdcOutBuf)
    /\ cdcAt = "drain" => rxRing = <<>>
    /\ ~reopened =>
         /\ cdcOutPend \/ cdcAt \in {"clear", "open"} => cdcOutResp = "NAK"
         /\ cdcAt = "clear" => cdcOutPend /\ Cdc!Items(cdcOutBuf) \subseteq Cdc!Items(Came)
         /\ cdcAt = "open" => ~cdcOutPend
    /\ 1 .. cdcSent \subseteq Cdc!Items(Came) \cup Cdc!Waiting \cup cdcExposed

\* A packet is armed over a closed endpoint only, under the toggle the PC expects unless
\* the PC restarted its own.
ResponseInv ==
    /\ Rising(got) /\ Rising(txRing) /\ Rising(inBuf)
    /\ UpTo(got, answered) /\ UpTo(txRing, answered) /\ UpTo(inBuf, answered)
    /\ Below(got, txRing) /\ Below(inBuf, txRing)
    /\ cdcInResp = "ACK" \/ cdcAt = "arm" => Below(got, inBuf)
    /\ cdcAt = "arm" => cdcInResp = "NAK"
    /\ ~cdcSkewed => cdcPcTog = IF cdcAt = "arm" THEN cdcCtrl ELSE cdcInTog
    /\ 1 .. answered \subseteq
         Cdc!Items(got) \cup Cdc!Items(txRing) \cup Cdc!InFlight \cup excused

PortInv == PortTypes /\ CommandInv /\ ResponseInv

-----------------------------------------------------------------------------
LEMMA ItemsOf ==
    ASSUME NEW s \in Seq(Nat)
    PROVE  Cdc!Items(s) = {s[i] : i \in 1 .. Len(s)}
BY LenProperties DEF Cdc!Items

LEMMA ItemsOfConcat ==
    ASSUME NEW s \in Seq(Nat), NEW t \in Seq(Nat)
    PROVE  Cdc!Items(s \o t) = Cdc!Items(s) \cup Cdc!Items(t)
<1>1. /\ s \o t \in Seq(Nat) /\ Len(s \o t) = Len(s) + Len(t)
      /\ \A i \in 1 .. Len(s) + Len(t) :
            (s \o t)[i] = IF i <= Len(s) THEN s[i] ELSE t[i - Len(s)]
  BY ConcatProperties
<1>2. Len(s) \in Nat /\ Len(t) \in Nat
  BY LenProperties
<1>3. Cdc!Items(s \o t) = {(s \o t)[i] : i \in 1 .. Len(s) + Len(t)}
  BY <1>1, ItemsOf
<1>4. ASSUME NEW i \in 1 .. Len(s) PROVE s[i] \in Cdc!Items(s \o t)
  <2>1. i \in 1 .. Len(s) + Len(t) /\ (s \o t)[i] = s[i]
    BY <1>1, <1>2
  <2> QED BY <1>3, <2>1
<1>5. ASSUME NEW i \in 1 .. Len(t) PROVE t[i] \in Cdc!Items(s \o t)
  <2>1. i + Len(s) \in 1 .. Len(s) + Len(t) /\ (s \o t)[i + Len(s)] = t[i]
    BY <1>1, <1>2
  <2> QED BY <1>3, <2>1
<1>6. ASSUME NEW i \in 1 .. Len(s) + Len(t)
      PROVE  (s \o t)[i] \in Cdc!Items(s) \cup Cdc!Items(t)
  <2>1. CASE i <= Len(s)
    BY <1>1, <1>2, <2>1, ItemsOf
  <2>2. CASE i > Len(s)
    <3>1. i - Len(s) \in 1 .. Len(t) /\ (s \o t)[i] = t[i - Len(s)]
      BY <1>1, <1>2, <2>2
    <3> QED BY <3>1, ItemsOf
  <2> QED BY <1>2, <2>1, <2>2
<1>7. Cdc!Items(s \o t) \subseteq Cdc!Items(s) \cup Cdc!Items(t)
  BY <1>3, <1>6
<1>8. Cdc!Items(s) \subseteq Cdc!Items(s \o t)
  BY <1>4, ItemsOf
<1>9. Cdc!Items(t) \subseteq Cdc!Items(s \o t)
  BY <1>5, ItemsOf
<1> QED BY <1>7, <1>8, <1>9

LEMMA Regrouped ==
    ASSUME NEW s \in Seq(Nat), NEW t \in Seq(Nat), NEW u \in Seq(Nat)
    PROVE  (s \o t) \o u = s \o (t \o u)
BY ConcatAssociative, SMTT(20)

LEMMA BelowConcat ==
    ASSUME NEW s \in Seq(Nat), NEW t \in Seq(Nat), NEW u \in Seq(Nat)
    PROVE  /\ Below(s \o t, u) <=> Below(s, u) /\ Below(t, u)
           /\ Below(u, s \o t) <=> Below(u, s) /\ Below(u, t)
<1>1. /\ Len(s \o t) = Len(s) + Len(t)
      /\ \A i \in 1 .. Len(s) + Len(t) :
            (s \o t)[i] = IF i <= Len(s) THEN s[i] ELSE t[i - Len(s)]
  BY ConcatProperties
<1>2. Len(s) \in Nat /\ Len(t) \in Nat
  BY LenProperties
<1>3. \A i \in 1 .. Len(s) : i \in 1 .. Len(s) + Len(t) /\ (s \o t)[i] = s[i]
  BY <1>1, <1>2
<1>4. \A i \in 1 .. Len(t) :
        i + Len(s) \in 1 .. Len(s) + Len(t) /\ (s \o t)[i + Len(s)] = t[i]
  BY <1>1, <1>2
<1>5. \A i \in 1 .. Len(s) + Len(t) :
        \/ i \in 1 .. Len(s) /\ (s \o t)[i] = s[i]
        \/ i - Len(s) \in 1 .. Len(t) /\ (s \o t)[i] = t[i - Len(s)]
  BY <1>1, <1>2
<1>6. Below(s \o t, u) => Below(s, u) /\ Below(t, u)
  BY <1>1, <1>3, <1>4 DEF Below
<1>7. Below(s, u) /\ Below(t, u) => Below(s \o t, u)
  BY <1>1, <1>5 DEF Below
<1>8. Below(u, s \o t) => Below(u, s) /\ Below(u, t)
  BY <1>1, <1>3, <1>4 DEF Below
<1>9. Below(u, s) /\ Below(u, t) => Below(u, s \o t)
  BY <1>1, <1>5 DEF Below
<1> QED BY <1>6, <1>7, <1>8, <1>9

LEMMA RisingConcat ==
    ASSUME NEW s \in Seq(Nat), NEW t \in Seq(Nat)
    PROVE  Rising(s \o t) <=> Rising(s) /\ Rising(t) /\ Below(s, t)
<1>1. /\ Len(s \o t) = Len(s) + Len(t)
      /\ \A i \in 1 .. Len(s) + Len(t) :
            (s \o t)[i] = IF i <= Len(s) THEN s[i] ELSE t[i - Len(s)]
  BY ConcatProperties
<1>2. Len(s) \in Nat /\ Len(t) \in Nat
  BY LenProperties
<1>3. \A i \in 1 .. Len(s) : i \in 1 .. Len(s) + Len(t) /\ (s \o t)[i] = s[i]
  BY <1>1, <1>2
<1>4. \A i \in 1 .. Len(t) :
        i + Len(s) \in 1 .. Len(s) + Len(t) /\ (s \o t)[i + Len(s)] = t[i]
  BY <1>1, <1>2
<1>5. \A i \in 1 .. Len(s) + Len(t) :
        \/ i \in 1 .. Len(s) /\ (s \o t)[i] = s[i]
        \/ i - Len(s) \in 1 .. Len(t) /\ (s \o t)[i] = t[i - Len(s)]
  BY <1>1, <1>2
<1>6. ASSUME Rising(s \o t) PROVE Rising(s) /\ Rising(t) /\ Below(s, t)
  <2>1. Rising(s)
    BY <1>1, <1>3, <1>6 DEF Rising
  <2>2. Rising(t)
    <3> SUFFICES ASSUME NEW i \in 1 .. Len(t), NEW j \in 1 .. Len(t), i < j
                 PROVE  t[i] < t[j]
      BY DEF Rising
    <3>1. i + Len(s) < j + Len(s)
      BY <1>2
    <3> QED BY <1>1, <1>4, <1>6, <3>1 DEF Rising
  <2>3. Below(s, t)
    <3> SUFFICES ASSUME NEW i \in 1 .. Len(s), NEW j \in 1 .. Len(t) PROVE s[i] < t[j]
      BY DEF Below
    <3>1. i < j + Len(s)
      BY <1>2
    <3> QED BY <1>1, <1>3, <1>4, <1>6, <3>1 DEF Rising
  <2> QED BY <2>1, <2>2, <2>3
<1>7. ASSUME Rising(s), Rising(t), Below(s, t) PROVE Rising(s \o t)
  <2> SUFFICES ASSUME NEW i \in 1 .. Len(s) + Len(t), NEW j \in 1 .. Len(s) + Len(t), i < j
               PROVE  (s \o t)[i] < (s \o t)[j]
    BY <1>1 DEF Rising
  <2>1. CASE j <= Len(s)
    BY <1>1, <1>2, <1>7, <2>1 DEF Rising
  <2>2. CASE i <= Len(s) /\ j > Len(s)
    BY <1>1, <1>2, <1>7, <2>2 DEF Below
  <2>3. CASE i > Len(s)
    <3>1. i - Len(s) \in 1 .. Len(t) /\ j - Len(s) \in 1 .. Len(t) /\ i - Len(s) < j - Len(s)
      BY <1>2, <2>3
    <3>2. (s \o t)[i] = t[i - Len(s)] /\ (s \o t)[j] = t[j - Len(s)]
      BY <1>1, <1>2, <2>3
    <3> QED BY <1>7, <3>1, <3>2 DEF Rising
  <2> QED BY <1>2, <2>1, <2>2, <2>3
<1> QED BY <1>6, <1>7

LEMMA UpToConcat ==
    ASSUME NEW s \in Seq(Nat), NEW t \in Seq(Nat), NEW n \in Nat
    PROVE  UpTo(s \o t, n) <=> UpTo(s, n) /\ UpTo(t, n)
<1>1. /\ Len(s \o t) = Len(s) + Len(t)
      /\ \A i \in 1 .. Len(s) + Len(t) :
            (s \o t)[i] = IF i <= Len(s) THEN s[i] ELSE t[i - Len(s)]
  BY ConcatProperties
<1>2. Len(s) \in Nat /\ Len(t) \in Nat
  BY LenProperties
<1>3. \A i \in 1 .. Len(s) : i \in 1 .. Len(s) + Len(t) /\ (s \o t)[i] = s[i]
  BY <1>1, <1>2
<1>4. \A i \in 1 .. Len(t) :
        i + Len(s) \in 1 .. Len(s) + Len(t) /\ (s \o t)[i + Len(s)] = t[i]
  BY <1>1, <1>2
<1>5. \A i \in 1 .. Len(s) + Len(t) :
        \/ i \in 1 .. Len(s) /\ (s \o t)[i] = s[i]
        \/ i - Len(s) \in 1 .. Len(t) /\ (s \o t)[i] = t[i - Len(s)]
  BY <1>1, <1>2
<1>6. UpTo(s \o t, n) => UpTo(s, n) /\ UpTo(t, n)
  BY <1>1, <1>3, <1>4 DEF UpTo
<1>7. UpTo(s, n) /\ UpTo(t, n) => UpTo(s \o t, n)
  BY <1>1, <1>5 DEF UpTo
<1> QED BY <1>6, <1>7

\* cdc_fs_rx_read, cdc_fs_poll: what is taken off the front, and what stays.
LEMMA FirstAndRest ==
    ASSUME NEW s \in Seq(Nat), NEW n \in Nat
    PROVE  /\ Cdc!First(s, n) \in Seq(Nat) /\ Len(Cdc!First(s, n)) = Cdc!Smaller(n, Len(s))
           /\ Cdc!Rest(s, Len(Cdc!First(s, n))) \in Seq(Nat)
           /\ Len(Cdc!Rest(s, Len(Cdc!First(s, n)))) <= Len(s)
           /\ Cdc!First(s, n) \o Cdc!Rest(s, Len(Cdc!First(s, n))) = s
           /\ Len(s) <= n => Cdc!First(s, n) = s
<1> DEFINE k == Cdc!Smaller(n, Len(s))
           a == SubSeq(s, 1, k)
           b == SubSeq(s, k + 1, Len(s))
<1>1. Len(s) \in Nat /\ \A i \in 1 .. Len(s) : s[i] \in Nat
  BY LenProperties, ElementOfSeq
<1>2. k \in 0 .. Len(s) /\ k <= n /\ (Len(s) <= n => k = Len(s))
  BY <1>1 DEF Cdc!Smaller
<1> HIDE DEF k
<1>3. a \in Seq(Nat) /\ Len(a) = k /\ \A i \in 1 .. k : a[i] = s[i]
  <2>1. \A i \in 1 .. k : s[i] \in Nat
    BY <1>1, <1>2
  <2>2. /\ SubSeq(s, 1, k) \in Seq(Nat)
        /\ Len(SubSeq(s, 1, k)) = IF 1 <= k THEN k - 1 + 1 ELSE 0
        /\ \A i \in 1 .. k - 1 + 1 : SubSeq(s, 1, k)[i] = s[1 + i - 1]
    BY <1>2, <2>1, SubSeqProperties
  <2> QED BY <1>2, <2>2
<1>4. b \in Seq(Nat) /\ Len(b) = Len(s) - k /\ \A i \in 1 .. Len(s) - k : b[i] = s[k + i]
  <2>1. \A i \in k + 1 .. Len(s) : s[i] \in Nat
    BY <1>1, <1>2
  <2>2. /\ SubSeq(s, k + 1, Len(s)) \in Seq(Nat)
        /\ Len(SubSeq(s, k + 1, Len(s))) =
              IF k + 1 <= Len(s) THEN Len(s) - (k + 1) + 1 ELSE 0
        /\ \A i \in 1 .. Len(s) - (k + 1) + 1 :
              SubSeq(s, k + 1, Len(s))[i] = s[k + 1 + i - 1]
    BY <1>1, <1>2, <2>1, SubSeqProperties
  <2> QED BY <1>1, <1>2, <2>2
<1> HIDE DEF a, b
<1>5. a \o b = s
  <2>0. Len(a) + Len(b) = Len(s)
    BY <1>1, <1>2, <1>3, <1>4
  <2>1. /\ a \o b \in Seq(Nat) /\ Len(a \o b) = Len(s)
        /\ \A i \in 1 .. Len(s) : (a \o b)[i] = IF i <= k THEN a[i] ELSE b[i - k]
    <3>1. /\ a \o b \in Seq(Nat) /\ Len(a \o b) = Len(a) + Len(b)
          /\ \A i \in 1 .. Len(a) + Len(b) :
                (a \o b)[i] = IF i <= Len(a) THEN a[i] ELSE b[i - Len(a)]
      BY <1>3, <1>4, ConcatProperties
    <3> QED BY <1>3, <2>0, <3>1
  <2>2. ASSUME NEW i \in 1 .. Len(s) PROVE (a \o b)[i] = s[i]
    <3>0. (a \o b)[i] = IF i <= k THEN a[i] ELSE b[i - k]
      BY <2>1
    <3>1. CASE i <= k
      <4>1. i \in 1 .. k
        BY <1>1, <1>2, <3>1
      <4> QED BY <1>3, <3>0, <3>1, <4>1
    <3>2. CASE i > k
      <4>1. i - k \in 1 .. Len(s) - k /\ k + (i - k) = i /\ ~(i <= k)
        BY <1>1, <1>2, <3>2
      <4>2. b[i - k] = s[k + (i - k)]
        BY <1>4, <4>1
      <4> QED BY <1>1, <1>2, <3>0, <3>2, <4>1, <4>2
    <3>3. i <= k \/ i > k
      BY <1>1, <1>2
    <3> QED BY <3>1, <3>2, <3>3
  <2> QED BY <2>1, <2>2, SeqEqual
<1>6. k = Len(s) => a = s
  BY SubSeqFull DEF a
<1>7. Cdc!First(s, n) = a /\ Cdc!Rest(s, k) = b
  BY DEF Cdc!First, Cdc!Rest, a, b, k
<1>8. Cdc!Rest(s, Len(Cdc!First(s, n))) = b /\ Len(Cdc!First(s, n)) = k
  BY <1>3, <1>7
<1>9. Len(b) <= Len(s)
  BY <1>1, <1>2, <1>4
<1>10. Cdc!Smaller(n, Len(s)) = k
  BY DEF k
<1>11. Len(s) <= n => a = s
  BY <1>2, <1>6
<1> QED BY <1>3, <1>4, <1>5, <1>7, <1>8, <1>9, <1>10, <1>11

LEMMA NumbersProperties ==
    ASSUME NEW from \in Nat, NEW n \in Nat
    PROVE  /\ Cdc!Numbers(from, n) \in Seq(Nat) /\ Len(Cdc!Numbers(from, n)) = n
           /\ \A i \in 1 .. n : Cdc!Numbers(from, n)[i] = from + i
           /\ Rising(Cdc!Numbers(from, n)) /\ UpTo(Cdc!Numbers(from, n), from + n)
           /\ Cdc!Items(Cdc!Numbers(from, n)) = from + 1 .. from + n
<1> DEFINE s == Cdc!Numbers(from, n)
<1>1. s \in Seq(Nat)
  <2>1. \A i \in 1 .. n : from + i \in Nat
    OBVIOUS
  <2> QED BY <2>1 DEF Cdc!Numbers
<1>2. Len(s) = n /\ \A i \in 1 .. n : s[i] = from + i
  BY DEF Cdc!Numbers
<1> HIDE DEF s
<1>3. Rising(s)
  BY <1>2 DEF Rising
<1>4. UpTo(s, from + n)
  BY <1>2 DEF UpTo
<1>5. Cdc!Items(s) = from + 1 .. from + n
  <2>1. Cdc!Items(s) = {from + i : i \in 1 .. n}
    BY <1>1, <1>2, ItemsOf
  <2>2. ASSUME NEW x \in from + 1 .. from + n PROVE x \in {from + i : i \in 1 .. n}
    <3>1. x - from \in 1 .. n /\ from + (x - from) = x
      OBVIOUS
    <3> QED BY <3>1
  <2> QED BY <2>1, <2>2
<1> QED BY <1>1, <1>2, <1>3, <1>4, <1>5 DEF s

LEMMA InitPort == ASSUME Cdc!Init PROVE PortInv
<1> USE DEF Cdc!Init
<1>1. PortTypes
  <2>1. <<>> \in Seq(Nat) /\ Len(<<>>) = 0
    BY EmptySeq
  <2>2. 0 < RxRingBytes /\ 0 < TxRingBytes /\ 0 <= Bulk
    BY PortAssumption
  <2>0. /\ cdcConfigured \in BOOLEAN /\ cdcOutPend \in BOOLEAN
        /\ reopened \in BOOLEAN /\ cdcSkewed \in BOOLEAN
    OBVIOUS
  <2>3. /\ {cdcOutResp, cdcInResp} \subseteq {"ACK", "NAK"}
        /\ {cdcInTog, cdcPcTog, cdcCtrl} \subseteq 0 .. 1
        /\ cdcAt \in {"read", "drain", "clear", "open", "load", "arm"}
        /\ cdcSent \in Nat /\ answered \in Nat
    OBVIOUS
  <2>4. /\ fed = <<>> /\ rxRing = <<>> /\ cdcOutBuf = <<>>
        /\ got = <<>> /\ txRing = <<>> /\ inBuf = <<>>
    OBVIOUS
  <2> QED BY <2>0, <2>1, <2>2, <2>3, <2>4 DEF PortTypes
<1>2. Came = <<>>
  BY EmptySeq, ConcatEmptySeq DEF Came
<1>3. /\ Rising(<<>>) /\ \A n : UpTo(<<>>, n) /\ \A s : Below(<<>>, s) /\ Below(s, <<>>)
  BY EmptySeq DEF Rising, UpTo, Below
<1>4. CommandInv
  BY <1>2, <1>3 DEF CommandInv
<1>5. ResponseInv
  BY <1>3 DEF ResponseInv
<1> QED BY <1>1, <1>4, <1>5 DEF PortInv

LEMMA ReadPort == ASSUME PortInv, Cdc!Read PROVE PortInv'
<1> DEFINE batch == Cdc!First(rxRing, Bulk)
<1>1. PortTypes /\ CommandInv /\ ResponseInv
  BY DEF PortInv
<1>2. /\ cdcAt = "read" /\ fed' = fed \o batch /\ rxRing' = Cdc!Rest(rxRing, Len(batch))
      /\ UNCHANGED <<cdcConfigured, cdcOutResp, cdcOutBuf, cdcOutPend, cdcInResp,
                     cdcInTog, inBuf, cdcCtrl, cdcAt, cdcSent, cdcPcTog, controls, got,
                     cdcExposed, reopened, excused, cdcSkewed>>
  BY DEF Cdc!Read, Cdc!outEp, Cdc!inEp, Cdc!pcSide
<1>3. PICK n \in CdcResponses :
        LET fits == Cdc!Smaller(n, Cdc!Room(txRing, TxRingBytes)) IN
            /\ txRing' = txRing \o Cdc!Numbers(answered, fits)
            /\ answered' = answered + fits
  BY DEF Cdc!Read
<1> DEFINE fits == Cdc!Smaller(n, Cdc!Room(txRing, TxRingBytes))
           new == Cdc!Numbers(answered, fits)
<1>4. /\ batch \in Seq(Nat) /\ rxRing' \in Seq(Nat) /\ Len(rxRing') <= Len(rxRing)
      /\ batch \o rxRing' = rxRing
  BY <1>1, <1>2, FirstAndRest, PortAssumption DEF PortTypes
<1> HIDE DEF batch
<1>5. fed' \in Seq(Nat) /\ Came' = Came
  <2>0. fed \in Seq(Nat)
    BY <1>1 DEF PortTypes
  <2>1. (fed \o batch) \o rxRing' = fed \o (batch \o rxRing')
    BY <1>4, <2>0, Regrouped
  <2> QED BY <1>1, <1>2, <1>4, <2>1, ConcatProperties DEF Came, PortTypes
<1>6. fits \in Nat /\ Len(txRing) + fits < TxRingBytes
  <2>1. Len(txRing) \in Nat /\ n \in Nat /\ TxRingBytes \in Nat /\ Len(txRing) < TxRingBytes
    BY <1>1, PortAssumption, LenProperties DEF PortTypes
  <2> QED BY <2>1 DEF Cdc!Smaller, Cdc!Room
<1>7. txRing' = txRing \o new /\ answered' = answered + fits
  BY <1>3
<1> HIDE DEF fits
<1>8. /\ new \in Seq(Nat) /\ Len(new) = fits /\ \A i \in 1 .. fits : new[i] = answered + i
      /\ Rising(new) /\ UpTo(new, answered + fits)
      /\ Cdc!Items(new) = answered + 1 .. answered + fits
  BY <1>1, <1>6, NumbersProperties DEF PortTypes
<1> HIDE DEF new
<1>9. /\ txRing' \in Seq(Nat) /\ Len(txRing') = Len(txRing) + fits
      /\ Cdc!Items(txRing') = Cdc!Items(txRing) \cup Cdc!Items(new)
  <2>1. txRing \in Seq(Nat) /\ new \in Seq(Nat)
    BY <1>1, <1>8 DEF PortTypes
  <2>2. txRing \o new \in Seq(Nat) /\ Len(txRing \o new) = Len(txRing) + fits
    BY <1>8, <2>1, ConcatProperties
  <2>3. Cdc!Items(txRing \o new) = Cdc!Items(txRing) \cup Cdc!Items(new)
    BY <2>1, ItemsOfConcat
  <2> QED BY <1>7, <2>2, <2>3
<1>10. PortTypes'
  <2>1. Len(rxRing') < RxRingBytes
    BY <1>1, <1>4, PortAssumption, LenProperties DEF PortTypes
  <2> QED BY <1>1, <1>2, <1>4, <1>5, <1>6, <1>7, <1>9, <2>1 DEF PortTypes
<1>11. CommandInv'
  BY <1>1, <1>2, <1>5 DEF CommandInv, Cdc!Waiting
<1>12. ResponseInv'
  <2>1. ASSUME NEW s \in Seq(Nat), UpTo(s, answered)
        PROVE  UpTo(s, answered + fits) /\ Below(s, new)
    <3>1. \A i \in 1 .. Len(s) : s[i] \in Nat
      BY ElementOfSeq
    <3>2. answered \in Nat /\ Len(s) \in Nat
      BY <1>1, LenProperties DEF PortTypes
    <3>3. \A i \in 1 .. Len(s) : 1 <= s[i] /\ s[i] <= answered
      BY <2>1 DEF UpTo
    <3>4. \A i \in 1 .. Len(s) : s[i] <= answered + fits
      BY <1>6, <3>1, <3>2, <3>3
    <3>5. \A i \in 1 .. Len(s), j \in 1 .. fits : s[i] < answered + j
      BY <1>6, <3>1, <3>2, <3>3
    <3> QED BY <1>8, <3>3, <3>4, <3>5 DEF UpTo, Below
  <2>2. /\ got \in Seq(Nat) /\ txRing \in Seq(Nat) /\ inBuf \in Seq(Nat)
        /\ answered \in Nat /\ answered + fits \in Nat
    BY <1>1, <1>6 DEF PortTypes
  <2>3. /\ UpTo(got, answered + fits) /\ Below(got, new) /\ UpTo(inBuf, answered + fits)
        /\ Below(inBuf, new) /\ UpTo(txRing, answered + fits) /\ Below(txRing, new)
    BY <1>1, <2>1, <2>2 DEF ResponseInv
  <2>4. Rising(txRing')
    BY <1>1, <1>7, <1>8, <2>2, <2>3, RisingConcat DEF ResponseInv
  <2>5. UpTo(txRing', answered')
    BY <1>7, <1>8, <2>2, <2>3, UpToConcat
  <2>6. Below(got, txRing') /\ Below(inBuf, txRing')
    BY <1>1, <1>7, <1>8, <2>2, <2>3, BelowConcat DEF ResponseInv
  <2>7. 1 .. answered + fits = (1 .. answered) \cup (answered + 1 .. answered + fits)
    BY <1>6, <2>2
  <2>8. Cdc!InFlight' = Cdc!InFlight
    BY <1>2 DEF Cdc!InFlight
  <2>9. 1 .. answered' \subseteq
          Cdc!Items(got) \cup Cdc!Items(txRing') \cup Cdc!InFlight \cup excused
    BY <1>1, <1>7, <1>8, <1>9, <2>7 DEF ResponseInv
  <2> QED BY <1>1, <1>2, <1>7, <2>3, <2>4, <2>5, <2>6, <2>8, <2>9 DEF ResponseInv
<1> QED BY <1>10, <1>11, <1>12 DEF PortInv

LEMMA DrainPort == ASSUME PortInv, Cdc!Drain PROVE PortInv'
<1>1. PortTypes /\ CommandInv /\ ResponseInv
  BY DEF PortInv
<1>2. /\ cdcAt = "drain" /\ rxRing = <<>> /\ Came = fed
      /\ UNCHANGED <<cdcConfigured, cdcOutResp, cdcOutBuf, cdcOutPend, cdcInResp,
                     cdcInTog, inBuf, cdcCtrl, cdcSent, cdcPcTog, controls, got, txRing,
                     fed, answered, cdcExposed, reopened, excused, cdcSkewed>>
  BY <1>1, ConcatEmptySeq
  DEF Cdc!Drain, Cdc!outEp, Cdc!inEp, Cdc!pcSide, Cdc!history, CommandInv, Came, PortTypes
<1>3. cdcAt' \in {"clear", "load"}
  BY DEF Cdc!Drain, Cdc!DrainOrder
<1>4. ResponseInv'
  BY <1>1, <1>2, <1>3 DEF ResponseInv, Cdc!InFlight
<1>5. CASE ~cdcOutPend
  <2>1. rxRing' = rxRing /\ cdcAt' = "load" /\ Came' = Came
    BY <1>2, <1>5 DEF Cdc!Drain, Came
  <2>2. PortTypes'
    BY <1>1, <1>2, <2>1 DEF PortTypes
  <2>3. CommandInv'
    BY <1>1, <1>2, <1>5, <2>1 DEF CommandInv, Cdc!Waiting
  <2> QED BY <1>4, <2>2, <2>3 DEF PortInv
<1>6. CASE cdcOutPend
  <2>1. rxRing' = cdcOutBuf /\ cdcAt' = "clear"
    <3>1. /\ rxRing' = <<>> \o Cdc!First(cdcOutBuf, Cdc!Room(<<>>, RxRingBytes))
          /\ cdcAt' = "clear"
      BY <1>2, <1>6 DEF Cdc!Drain, Cdc!DrainOrder
    <3>2. Cdc!Room(<<>>, RxRingBytes) = RxRingBytes - 1
      BY EmptySeq, PortAssumption DEF Cdc!Room
    <3>3. cdcOutBuf \in Seq(Nat) /\ Len(cdcOutBuf) \in Nat /\ Len(cdcOutBuf) <= Bulk
      BY <1>1, LenProperties DEF PortTypes
    <3>4. RxRingBytes - 1 \in Nat /\ Len(cdcOutBuf) <= RxRingBytes - 1
      BY <3>3, PortAssumption
    <3> QED BY <3>1, <3>2, <3>3, <3>4, FirstAndRest, ConcatEmptySeq
  <2>2. /\ Came' = Came \o cdcOutBuf
        /\ cdcOutBuf \in Seq(Nat) /\ Came \in Seq(Nat) /\ cdcSent \in Nat
    BY <1>1, <1>2, <2>1 DEF Came, PortTypes
  <2>3. PortTypes'
    <3>1. Len(cdcOutBuf) < RxRingBytes
      BY <1>1, PortAssumption, LenProperties DEF PortTypes
    <3> QED BY <1>1, <1>2, <2>1, <3>1 DEF PortTypes
  <2>4. Rising(Came') /\ UpTo(Came', cdcSent)
    BY <1>1, <1>2, <1>6, <2>2, RisingConcat, UpToConcat DEF CommandInv
  <2>5. Cdc!Items(Came') = Cdc!Items(Came) \cup Cdc!Items(cdcOutBuf)
    BY <2>2, ItemsOfConcat
  <2>6. CommandInv'
    BY <1>1, <1>2, <1>6, <2>1, <2>4, <2>5 DEF CommandInv, Cdc!Waiting
  <2> QED BY <1>4, <2>3, <2>6 DEF PortInv
<1> QED BY <1>5, <1>6

\* The loop's other steps
LEMMA LoopPort ==
    ASSUME PortInv, Cdc!ReadEmpty \/ Cdc!ClearPending \/ Cdc!OpenOut \/ Cdc!Arm
    PROVE  PortInv'
<1>1. PortTypes /\ CommandInv /\ ResponseInv
  BY DEF PortInv
<1>2. /\ UNCHANGED <<cdcConfigured, cdcOutBuf, inBuf, cdcCtrl, cdcSent, cdcPcTog, rxRing,
                     got, txRing, fed, answered, reopened, excused, cdcSkewed>>
      /\ Came' = Came
  BY DEF Cdc!ReadEmpty, Cdc!ClearPending, Cdc!OpenOut, Cdc!Arm, Cdc!outEp, Cdc!inEp,
         Cdc!pcSide, Cdc!history, Came
<1>3. CASE Cdc!ReadEmpty
  <2>1. /\ rxRing = <<>> /\ cdcAt = "read" /\ cdcAt' = "drain"
        /\ UNCHANGED <<cdcOutResp, cdcOutPend, cdcInResp, cdcInTog, cdcExposed>>
    BY <1>3 DEF Cdc!ReadEmpty, Cdc!outEp, Cdc!inEp, Cdc!history
  <2>2. PortTypes' /\ CommandInv' /\ ResponseInv'
    BY <1>1, <1>2, <2>1
    DEF PortTypes, CommandInv, ResponseInv, Cdc!Waiting, Cdc!InFlight
  <2> QED BY <2>2 DEF PortInv
<1>4. CASE Cdc!ClearPending
  <2>1. /\ cdcAt = "clear" /\ cdcAt' = "open" /\ cdcOutPend' = FALSE
        /\ cdcExposed' = IF reopened THEN cdcExposed \cup Cdc!Items(cdcOutBuf)
                         ELSE cdcExposed
        /\ UNCHANGED <<cdcOutResp, cdcInResp, cdcInTog>>
    BY <1>4 DEF Cdc!ClearPending, Cdc!inEp, Cdc!AfterDrain, Cdc!DrainOrder
  <2>2. PortTypes'
    BY <1>1, <1>2, <2>1 DEF PortTypes
  <2>3. 1 .. cdcSent \subseteq Cdc!Items(Came) \cup cdcExposed'
    BY <1>1, <2>1 DEF CommandInv, Cdc!Waiting
  <2>4. CommandInv'
    BY <1>1, <1>2, <2>1, <2>3 DEF CommandInv, Cdc!Waiting
  <2>5. ResponseInv'
    BY <1>1, <1>2, <2>1 DEF ResponseInv, Cdc!InFlight
  <2> QED BY <2>2, <2>4, <2>5 DEF PortInv
<1>5. CASE Cdc!OpenOut
  <2>1. /\ cdcAt = "open" /\ cdcAt' = "load" /\ cdcOutResp' = "ACK"
        /\ UNCHANGED <<cdcOutPend, cdcExposed, cdcInResp, cdcInTog>>
    BY <1>5 DEF Cdc!OpenOut, Cdc!inEp, Cdc!AfterDrain, Cdc!DrainOrder, Cdc!history
  <2>2. PortTypes' /\ CommandInv' /\ ResponseInv'
    BY <1>1, <1>2, <2>1
    DEF PortTypes, CommandInv, ResponseInv, Cdc!Waiting, Cdc!InFlight
  <2> QED BY <2>2 DEF PortInv
<1>6. CASE Cdc!Arm
  <2>1. /\ cdcAt = "arm" /\ cdcAt' = "read" /\ cdcInResp' = "ACK" /\ cdcInTog' = cdcCtrl
        /\ UNCHANGED <<cdcOutResp, cdcOutPend, cdcExposed>>
    BY <1>6 DEF Cdc!Arm, Cdc!outEp, Cdc!history
  <2>2. PortTypes' /\ CommandInv' /\ ResponseInv'
    BY <1>1, <1>2, <2>1
    DEF PortTypes, CommandInv, ResponseInv, Cdc!Waiting, Cdc!InFlight
  <2> QED BY <2>2 DEF PortInv
<1> QED BY <1>3, <1>4, <1>5, <1>6

LEMMA LoadPort == ASSUME PortInv, Cdc!Load PROVE PortInv'
<1>1. PortTypes /\ CommandInv /\ ResponseInv
  BY DEF PortInv
<1>2. /\ cdcAt = "load" /\ reopened' = (reopened /\ cdcOutPend)
      /\ UNCHANGED <<cdcConfigured, cdcOutResp, cdcOutBuf, cdcOutPend, cdcInResp, cdcInTog,
                     cdcSent, cdcPcTog, rxRing, got, fed, answered, cdcExposed, excused,
                     cdcSkewed>>
      /\ Came' = Came /\ reopened' \in BOOLEAN /\ cdcAt' \in {"arm", "read"}
  BY DEF Cdc!Load, Cdc!outEp, Cdc!pcSide, Came
<1>3. CommandInv'
  BY <1>1, <1>2 DEF CommandInv, Cdc!Waiting, PortTypes
<1>4. CASE ~Cdc!MayLoad
  <2>1. UNCHANGED <<inBuf, txRing, cdcCtrl>> /\ cdcAt' = "read"
    BY <1>4 DEF Cdc!Load
  <2>2. PortTypes' /\ ResponseInv'
    BY <1>1, <1>2, <2>1 DEF PortTypes, ResponseInv, Cdc!InFlight
  <2> QED BY <1>3, <2>2 DEF PortInv
<1>5. CASE Cdc!MayLoad
  <2>1. /\ inBuf' = Cdc!First(txRing, Bulk) /\ txRing' = Cdc!Rest(txRing, Len(inBuf'))
        /\ cdcCtrl' = cdcInTog /\ cdcAt' = "arm" /\ cdcInResp = "NAK"
    BY <1>5 DEF Cdc!Load, Cdc!MayLoad
  <2>2. /\ inBuf' \in Seq(Nat) /\ txRing' \in Seq(Nat) /\ inBuf' \o txRing' = txRing
        /\ Len(inBuf') = Cdc!Smaller(Bulk, Len(txRing)) /\ Len(txRing') <= Len(txRing)
    BY <1>1, <2>1, FirstAndRest, PortAssumption DEF PortTypes
  <2>3. Len(inBuf') <= Bulk /\ Len(txRing') < TxRingBytes
    <3>1. Len(txRing) \in Nat /\ Len(txRing) < TxRingBytes /\ txRing \in Seq(Nat)
      BY <1>1, LenProperties DEF PortTypes
    <3>2. Len(txRing') \in Nat
      BY <2>2, LenProperties
    <3>3. Len(inBuf') <= Bulk
      BY <2>2, <3>1, PortAssumption DEF Cdc!Smaller
    <3> QED BY <2>2, <3>1, <3>2, <3>3, PortAssumption
  <2>4. PortTypes'
    BY <1>1, <1>2, <2>1, <2>2, <2>3 DEF PortTypes
  <2>5. Rising(inBuf') /\ Rising(txRing') /\ Below(inBuf', txRing')
    BY <1>1, <2>2, RisingConcat DEF ResponseInv
  <2>6. UpTo(inBuf', answered) /\ UpTo(txRing', answered)
    BY <1>1, <2>2, UpToConcat DEF ResponseInv, PortTypes
  <2>7. Below(got, inBuf') /\ Below(got, txRing')
    BY <1>1, <2>2, BelowConcat DEF ResponseInv, PortTypes
  <2>8. 1 .. answered \subseteq
          Cdc!Items(got) \cup Cdc!Items(txRing') \cup Cdc!Items(inBuf') \cup excused
    <3>1. Cdc!InFlight = {}
      BY <1>2, <2>1 DEF Cdc!InFlight
    <3>2. Cdc!Items(txRing) = Cdc!Items(inBuf') \cup Cdc!Items(txRing')
      BY <2>2, ItemsOfConcat
    <3> QED BY <1>1, <3>1, <3>2 DEF ResponseInv
  <2>9. ResponseInv'
    BY <1>1, <1>2, <2>1, <2>5, <2>6, <2>7, <2>8 DEF ResponseInv, Cdc!InFlight
  <2> QED BY <1>3, <2>4, <2>9 DEF PortInv
<1> QED BY <1>4, <1>5

LEMMA CommandPort == ASSUME PortInv, Cdc!Command PROVE PortInv'
<1>1. PortTypes /\ CommandInv /\ ResponseInv
  BY DEF PortInv
<1>2. /\ cdcOutResp = "ACK" /\ cdcOutPend' = TRUE /\ cdcOutResp' = "NAK"
      /\ UNCHANGED <<cdcConfigured, rxRing, txRing, cdcInResp, cdcInTog, inBuf, cdcCtrl,
                     cdcAt, cdcPcTog, fed, answered, got, reopened, excused, cdcSkewed>>
      /\ Came' = Came
  BY DEF Cdc!Command, Cdc!inEp, Cdc!AfterOut, Came
<1>3. PICK n \in 1 .. Bulk :
        cdcSent' = cdcSent + n /\ cdcOutBuf' = Cdc!Numbers(cdcSent, n)
  BY DEF Cdc!Command
<1>4. n \in Nat /\ n <= Bulk /\ cdcSent \in Nat
  BY <1>1, PortAssumption DEF PortTypes
<1>5. /\ cdcOutBuf' \in Seq(Nat) /\ Len(cdcOutBuf') = n
      /\ \A i \in 1 .. n : cdcOutBuf'[i] = cdcSent + i
      /\ Rising(cdcOutBuf') /\ UpTo(cdcOutBuf', cdcSent')
      /\ Cdc!Items(cdcOutBuf') = cdcSent + 1 .. cdcSent'
  BY <1>3, <1>4, NumbersProperties
<1>6. PortTypes'
  BY <1>1, <1>2, <1>3, <1>4, <1>5 DEF PortTypes
<1>7. ResponseInv'
  BY <1>1, <1>2 DEF ResponseInv, Cdc!InFlight
<1>8. UpTo(Came, cdcSent') /\ Below(Came, cdcOutBuf')
  <2>1. Came \in Seq(Nat) /\ UpTo(Came, cdcSent)
    BY <1>1, ConcatProperties DEF Came, PortTypes, CommandInv
  <2>2. \A i \in 1 .. Len(Came) : Came[i] \in Nat
    BY <2>1, ElementOfSeq
  <2>3. UpTo(Came, cdcSent')
    BY <1>3, <1>4, <2>1, <2>2 DEF UpTo
  <2>4. Below(Came, cdcOutBuf')
    BY <1>3, <1>4, <1>5, <2>1, <2>2 DEF UpTo, Below
  <2> QED BY <2>3, <2>4
<1>9. Cdc!Waiting \subseteq cdcExposed' /\ cdcExposed \subseteq cdcExposed'
  <2>1. cdcOutPend => reopened
    BY <1>1, <1>2 DEF CommandInv
  <2> QED BY <2>1 DEF Cdc!Waiting, Cdc!Command
<1>10. 1 .. cdcSent' = (1 .. cdcSent) \cup (cdcSent + 1 .. cdcSent')
  BY <1>3, <1>4
<1>11. ~reopened => cdcAt \notin {"clear", "open"}
  BY <1>1, <1>2 DEF CommandInv
<1>12. Cdc!Waiting' = Cdc!Items(cdcOutBuf')
  BY <1>2 DEF Cdc!Waiting
<1>13. 1 .. cdcSent' \subseteq Cdc!Items(Came') \cup Cdc!Waiting' \cup cdcExposed'
  BY <1>1, <1>2, <1>5, <1>9, <1>10, <1>12 DEF CommandInv
<1>14. CommandInv'
  BY <1>1, <1>2, <1>5, <1>8, <1>11, <1>13 DEF CommandInv
<1> QED BY <1>6, <1>7, <1>14 DEF PortInv

LEMMA ResponsePort == ASSUME PortInv, Cdc!Response PROVE PortInv'
<1>1. PortTypes /\ CommandInv /\ ResponseInv
  BY DEF PortInv
<1>2. /\ cdcInResp = "ACK" /\ cdcInResp' = "NAK" /\ cdcInTog' = 1 - cdcInTog
      /\ cdcInTog' \in 0 .. 1 /\ 1 - cdcPcTog \in 0 .. 1
      /\ UNCHANGED <<cdcConfigured, cdcOutResp, cdcOutBuf, cdcOutPend, rxRing, txRing,
                     inBuf, cdcCtrl, cdcAt, cdcSent, fed, answered, cdcExposed, reopened>>
      /\ Came' = Came
  BY <1>1 DEF Cdc!Response, Cdc!outEp, Came, PortTypes
<1>3. cdcAt # "arm"
  BY <1>1, <1>2 DEF ResponseInv
<1>4. CommandInv'
  BY <1>1, <1>2 DEF CommandInv, Cdc!Waiting
<1>5. CASE cdcPcTog = cdcInTog
  <2>1. /\ got' = got \o inBuf /\ cdcPcTog' = 1 - cdcPcTog
        /\ UNCHANGED <<excused, cdcSkewed>>
    BY <1>5 DEF Cdc!Response
  <2>2. got \in Seq(Nat) /\ inBuf \in Seq(Nat) /\ txRing \in Seq(Nat) /\ answered \in Nat
    BY <1>1 DEF PortTypes
  <2>3. got' \in Seq(Nat) /\ Cdc!Items(got') = Cdc!Items(got) \cup Cdc!Items(inBuf)
    BY <2>1, <2>2, ConcatProperties, ItemsOfConcat
  <2>4. PortTypes'
    BY <1>1, <1>2, <2>1, <2>3 DEF PortTypes
  <2>5. Rising(got') /\ UpTo(got', answered) /\ Below(got', txRing)
    BY <1>1, <1>2, <2>1, <2>2, RisingConcat, UpToConcat, BelowConcat DEF ResponseInv
  <2>6. 1 .. answered \subseteq
          Cdc!Items(got') \cup Cdc!Items(txRing) \cup Cdc!InFlight' \cup excused
    BY <1>1, <1>2, <2>3 DEF ResponseInv, Cdc!InFlight
  <2>7. ResponseInv'
    BY <1>1, <1>2, <1>3, <1>5, <2>1, <2>5, <2>6 DEF ResponseInv
  <2> QED BY <1>4, <2>4, <2>7 DEF PortInv
<1>6. CASE cdcPcTog # cdcInTog
  <2>1. /\ excused' = IF cdcSkewed THEN excused \cup Cdc!Items(inBuf) ELSE excused
        /\ cdcSkewed' = FALSE /\ UNCHANGED <<got, cdcPcTog>>
    BY <1>6 DEF Cdc!Response
  <2>2. cdcSkewed /\ cdcInTog' = cdcPcTog
    BY <1>1, <1>2, <1>3, <1>6 DEF ResponseInv, PortTypes
  <2>3. PortTypes'
    BY <1>1, <1>2, <2>1 DEF PortTypes
  <2>4. 1 .. answered \subseteq
          Cdc!Items(got) \cup Cdc!Items(txRing) \cup Cdc!InFlight' \cup excused'
    BY <1>1, <1>2, <2>1, <2>2 DEF ResponseInv, Cdc!InFlight
  <2>5. ResponseInv'
    BY <1>1, <1>2, <1>3, <2>1, <2>2, <2>4 DEF ResponseInv
  <2> QED BY <1>4, <2>3, <2>5 DEF PortInv
<1> QED BY <1>5, <1>6

\* Resets, configurations and cleared halts of the PC: what they cost is exposed or
\* excused.
LEMMA ControlPort ==
    ASSUME PortInv,
           \/ Cdc!BusReset \/ Cdc!ClearHaltOut \/ Cdc!ClearHaltIn
           \/ \E on \in BOOLEAN : Cdc!SetConfiguration(on)
    PROVE  PortInv'
<1>1. PortTypes /\ CommandInv /\ ResponseInv
  BY DEF PortInv
<1>2. /\ UNCHANGED <<cdcOutBuf, rxRing, txRing, inBuf, cdcCtrl, cdcAt, cdcSent, fed,
                     answered, got>>
      /\ Came' = Came
  BY DEF Cdc!BusReset, Cdc!ClearHaltOut, Cdc!ClearHaltIn, Cdc!SetConfiguration, Cdc!outEp,
         Cdc!inEp, Came
<1> DEFINE outOpened ==
             /\ cdcOutResp' = "ACK"
             /\ cdcExposed' = cdcExposed \cup Cdc!Waiting
             /\ reopened' = (reopened \/ cdcOutPend \/ cdcAt \in {"clear", "open"})
           inClosed ==
             /\ cdcInResp' = "NAK" /\ cdcInTog' = 0 /\ cdcPcTog' = 0
             /\ excused' = excused \cup Cdc!InFlight
             /\ cdcSkewed' = (cdcAt = "arm")
<1>3. ASSUME outOpened, cdcOutPend' \in BOOLEAN, cdcOutPend' => cdcOutPend
      PROVE  CommandInv'
    BY <1>1, <1>2, <1>3 DEF CommandInv, Cdc!Waiting, PortTypes
<1>4. ASSUME UNCHANGED <<cdcOutResp, cdcOutPend, cdcExposed, reopened>>
      PROVE  CommandInv'
    BY <1>1, <1>2, <1>4 DEF CommandInv, Cdc!Waiting
<1>5. inClosed => ResponseInv'
    BY <1>1, <1>2 DEF ResponseInv, Cdc!InFlight
<1>6. CASE Cdc!BusReset
  <2>1. outOpened /\ inClosed /\ cdcOutPend' = FALSE /\ cdcConfigured' = FALSE
    BY <1>6 DEF Cdc!BusReset, Cdc!Reopen
  <2>2. /\ cdcConfigured' \in BOOLEAN /\ cdcOutPend' \in BOOLEAN /\ reopened' \in BOOLEAN
        /\ cdcSkewed' \in BOOLEAN
    BY <2>1
  <2>3. /\ cdcOutResp' = "ACK" /\ cdcInResp' = "NAK" /\ cdcInTog' = 0 /\ cdcPcTog' = 0
        /\ cdcCtrl' = cdcCtrl
    BY <1>2, <2>1
  <2>4. PortTypes'
    BY <1>1, <1>2, <2>2, <2>3 DEF PortTypes
  <2>5. CommandInv'
    BY <1>3, <2>1, <2>2
  <2> QED BY <1>5, <2>1, <2>4, <2>5 DEF PortInv
<1>7. CASE Cdc!ClearHaltOut
  <2>1. outOpened
    BY <1>7 DEF Cdc!ClearHaltOut, Cdc!Reopen
  <2>2. UNCHANGED <<cdcOutPend, cdcConfigured, cdcInResp, cdcInTog, cdcPcTog, excused,
                    cdcSkewed>>
    BY <1>7 DEF Cdc!ClearHaltOut, Cdc!inEp
  <2>3. cdcOutResp' = "ACK" /\ reopened' \in BOOLEAN /\ cdcOutPend \in BOOLEAN
    BY <1>1, <2>1 DEF PortTypes
  <2>4. PortTypes'
    BY <1>1, <1>2, <2>2, <2>3 DEF PortTypes
  <2>5. ResponseInv'
    BY <1>1, <1>2, <2>2 DEF ResponseInv, Cdc!InFlight
  <2> QED BY <1>3, <2>1, <2>2, <2>3, <2>4, <2>5 DEF PortInv
<1>8. CASE Cdc!ClearHaltIn
  <2>1. inClosed /\ UNCHANGED <<cdcOutResp, cdcOutPend, cdcExposed, reopened, cdcConfigured>>
    BY <1>8 DEF Cdc!ClearHaltIn, Cdc!outEp
  <2>2. PortTypes'
    BY <1>1, <1>2, <2>1 DEF PortTypes
  <2> QED BY <1>4, <1>5, <2>1, <2>2 DEF PortInv
<1>9. ASSUME NEW on \in BOOLEAN, Cdc!SetConfiguration(on) PROVE PortInv'
  <2>1. /\ cdcConfigured' \in BOOLEAN /\ cdcPcTog' = 0 /\ cdcSkewed' = TRUE
        /\ UNCHANGED <<cdcOutResp, cdcOutPend, cdcExposed, reopened, cdcInResp, cdcInTog,
                       excused>>
    BY <1>9 DEF Cdc!SetConfiguration, Cdc!outEp, Cdc!inEp
  <2>2. PortTypes'
    BY <1>1, <1>2, <2>1 DEF PortTypes
  <2>3. ResponseInv'
    BY <1>1, <1>2, <2>1 DEF ResponseInv, Cdc!InFlight
  <2> QED BY <1>4, <2>1, <2>2, <2>3 DEF PortInv
<1> QED BY <1>6, <1>7, <1>8, <1>9

LEMMA StepPort ==
    ASSUME PortInv, [MCNext]_<<vars, returnvars, usbvars, part>>
    PROVE  PortInv'
<1>1. CASE Cdc!Next
  BY <1>1, ReadPort, DrainPort, LoopPort, LoadPort, CommandPort, ResponsePort, ControlPort
  DEF Cdc!Next, Cdc!Handler
<1>2. CASE UNCHANGED cdcvars
  BY <1>2 DEF cdcvars, PortInv, PortTypes, CommandInv, ResponseInv, Came, Cdc!Waiting,
              Cdc!InFlight
<1> QED BY <1>1, <1>2 DEF MCNext, Usb, Spi, usbvars

LEMMA RisingIncreases ==
    ASSUME NEW s \in Seq(Nat)
    PROVE  Rising(s) <=> Cdc!Increasing(s)
BY LenProperties DEF Rising, Cdc!Increasing

\* The parser gets every command byte, and the PC every response byte, once and in order,
\* for rings and packets of any size a packet fits in, however the interrupt runs between
\* the loop's steps; but for what the PC's own resets cost (usb_cdc_fs.c, two_board.c).
THEOREM PortWhole == MCSpec => []PortIntact
<1>1. MCInit => PortInv
  BY InitPort DEF MCInit
<1>2. ASSUME PortInv PROVE PortIntact
  <2>1. PortTypes /\ CommandInv /\ ResponseInv
    BY <1>2 DEF PortInv
  <2>2. /\ Came \in Seq(Nat) /\ got \in Seq(Nat)
        /\ Cdc!Items(Came) = Cdc!Items(fed) \cup Cdc!Items(rxRing)
    BY <2>1, ConcatProperties, ItemsOfConcat DEF PortTypes, Came
  <2>3. Cdc!Increasing(Came) /\ Cdc!Increasing(got)
    BY <2>1, <2>2, RisingIncreases DEF CommandInv, ResponseInv
  <2>4. Cdc!CommandsArrive
    BY <2>1, <2>2, <2>3 DEF Cdc!CommandsArrive, CommandInv, Came
  <2>5. Cdc!ResponsesArrive
    BY <2>1, <2>3 DEF Cdc!ResponsesArrive, ResponseInv
  <2> QED BY <2>4, <2>5 DEF PortIntact, Cdc!PortIntact
<1> QED BY <1>1, <1>2, StepPort, PTL DEF MCSpec


-----------------------------------------------------------------------------
(***************************************************************************)
(* The real device's interrupt endpoints.  The toggles tell whether the    *)
(* host is behind the report the device holds; they can be wrong about it  *)
(* only after an answer the host threw away, once for each.                *)
(***************************************************************************)

\* The reports the host would not take any more, and the packets it is done with.
Passed == 1 .. IF devInTog = hostInTog THEN held - 1 ELSE held
Over == 1 .. IF pipe = "out" THEN outs - 1 ELSE outs

PipeInv ==
    /\ {hostInTog, hostOutTog, devInTog, devOutTog} \subseteq 0 .. 1
    /\ held \in Nat \ {0} /\ outs \in Nat /\ (pipe = "out" => outs > 0)
    /\ inUnheard \in Nat /\ outUnheard \in Nat
    /\ taken \in Seq(Passed) /\ Pipes!Increasing(taken)
    /\ Cardinality(Passed \ Pipes!Items(taken)) <= 2 * inUnheard
    /\ accepted \in Seq(Over) /\ Pipes!Increasing(accepted) /\ confirmed \subseteq Over
    /\ Cardinality(confirmed \ Pipes!Items(accepted))
         + (IF devOutTog = hostOutTog THEN 0 ELSE 1) <= outUnheard

LEMMA OneMore ==
    ASSUME NEW S, IsFiniteSet(S), NEW x, NEW T, T \subseteq S \cup {x}
    PROVE  IsFiniteSet(T) /\ Cardinality(T) \in Nat /\ Cardinality(T) <= Cardinality(S) + 1
<1>0. Cardinality(S) \in Nat
  BY FS_CardinalityType
<1>1. IsFiniteSet(S \cup {x}) /\ Cardinality(S \cup {x}) <= Cardinality(S) + 1
  <2>1. /\ IsFiniteSet(S \cup {x})
        /\ Cardinality(S \cup {x}) =
              IF x \in S THEN Cardinality(S) ELSE Cardinality(S) + 1
    BY FS_AddElement, Zenon
  <2> QED BY <1>0, <2>1
<1>2. IsFiniteSet(T) /\ Cardinality(T) <= Cardinality(S \cup {x})
  BY <1>1, FS_Subset
<1> QED BY <1>1, <1>2, FS_CardinalityType

LEMMA PipesCount == \A S : Pipes!Cardinality(S) = Cardinality(S)
BY DEF Pipes!Cardinality, Cardinality

LEMMA PipeSets ==
    ASSUME PipeInv
    PROVE  /\ IsFiniteSet(Passed \ Pipes!Items(taken)) /\ IsFiniteSet(confirmed)
           /\ Pipes!Items(taken) \subseteq Passed /\ Pipes!Items(accepted) \subseteq Over
<1>1. IsFiniteSet(Passed) /\ IsFiniteSet(Over)
  <2>1. (IF devInTog = hostInTog THEN held - 1 ELSE held) \in Int
    BY DEF PipeInv
  <2>2. (IF pipe = "out" THEN outs - 1 ELSE outs) \in Int
    BY DEF PipeInv
  <2> QED BY <2>1, <2>2, FS_Interval DEF Passed, Over
<1>2. Passed \ Pipes!Items(taken) \in SUBSET Passed /\ confirmed \in SUBSET Over
  BY DEF PipeInv
<1>3. Pipes!Items(taken) \subseteq Passed /\ Pipes!Items(accepted) \subseteq Over
  BY LenProperties, ElementOfSeq DEF PipeInv, Pipes!Items
<1> QED BY <1>1, <1>2, <1>3, FS_Subset

\* What is appended is larger than all the rest.
LEMMA OneAppended ==
    ASSUME NEW S, S \subseteq Nat, NEW s \in Seq(S), NEW n \in Nat,
           \A x \in S : x < n, Pipes!Increasing(s)
    PROVE  /\ Append(s, n) \in Seq(S \cup {n}) /\ Pipes!Increasing(Append(s, n))
           /\ Pipes!Items(Append(s, n)) = Pipes!Items(s) \cup {n}
<1>1. Len(s) \in Nat /\ DOMAIN s = 1 .. Len(s) /\ \A i \in 1 .. Len(s) : s[i] \in S
  BY LenProperties, ElementOfSeq
<1>2. Append(s, n) \in Seq(S \cup {n})
  <2>1. s \in Seq(S \cup {n})
    BY SeqMonotonic
  <2> QED BY <2>1, AppendProperties
<1>3. /\ DOMAIN Append(s, n) = 1 .. Len(s) + 1 /\ Append(s, n)[Len(s) + 1] = n
      /\ \A i \in 1 .. Len(s) : Append(s, n)[i] = s[i]
  <2>1. /\ Len(Append(s, n)) = Len(s) + 1 /\ Append(s, n)[Len(s) + 1] = n
        /\ \A i \in 1 .. Len(s) : Append(s, n)[i] = s[i]
    <3>1. s \in Seq(S \cup {n}) /\ n \in S \cup {n}
      BY SeqMonotonic
    <3> QED BY <3>1, AppendProperties
  <2> QED BY <1>2, <2>1, LenProperties
<1>4. Pipes!Increasing(Append(s, n))
  <2> SUFFICES ASSUME NEW i \in 1 .. Len(s) + 1, NEW j \in 1 .. Len(s) + 1, i < j
               PROVE  Append(s, n)[i] < Append(s, n)[j]
    BY <1>3 DEF Pipes!Increasing
  <2>1. i \in 1 .. Len(s) /\ (j \in 1 .. Len(s) \/ j = Len(s) + 1)
    BY <1>1
  <2> QED BY <1>1, <1>3, <2>1 DEF Pipes!Increasing
<1>5. 1 .. Len(s) + 1 = (1 .. Len(s)) \cup {Len(s) + 1}
  BY <1>1
<1>6. Pipes!Items(Append(s, n)) = Pipes!Items(s) \cup {n}
  <2>1. Pipes!Items(Append(s, n)) = {Append(s, n)[i] : i \in (1 .. Len(s)) \cup {Len(s) + 1}}
    BY <1>3, <1>5 DEF Pipes!Items
  <2>2. Pipes!Items(s) = {s[i] : i \in 1 .. Len(s)}
    BY <1>1 DEF Pipes!Items
  <2> QED BY <1>3, <2>1, <2>2
<1> QED BY <1>2, <1>4, <1>6

\* An answer of the device: a new report is taken; a repeat is not, nor is a new report
\* that follows one the host threw away.
LEMMA InDataPipes == ASSUME PipeInv, Pipes!InData PROVE PipeInv'
<1>1. /\ hostInTog \in 0 .. 1 /\ devInTog \in 0 .. 1 /\ held \in Nat \ {0}
      /\ hostInTog' \in 0 .. 1 /\ devInTog' \in 0 .. 1
      /\ \/ devInTog' = 1 - devInTog /\ held' = held + 1
         \/ devInTog' = devInTog /\ held' = held
      /\ UNCHANGED <<hostOutTog, outs, devOutTog, accepted, confirmed, inUnheard, outUnheard>>
  BY DEF PipeInv, Pipes!InData, Pipes!Done, Pipes!Lose, Pipes!dev, Pipes!Flip,
         Pipes!outHistory, Pipes!AfterIn
<1>2. pipe = "in" /\ pipe' \in {"idle", "in"} /\ Over' = Over
  BY <1>1 DEF Pipes!InData, Over
<1>3. CASE devInTog = hostInTog
  <2>1. taken' = Append(taken, held) /\ hostInTog' = 1 - hostInTog
    BY <1>3 DEF Pipes!InData, Pipes!Expected, Pipes!AfterIn, Pipes!Flip
  <2>2. Passed = 1 .. held - 1 /\ Passed' = 1 .. held
    BY <1>1, <1>3, <2>1 DEF Passed
  <2>3. /\ Passed' = Passed \cup {held} /\ Passed \subseteq Nat /\ \A x \in Passed : x < held
    BY <1>1, <2>2
  <2>4. /\ taken' \in Seq(Passed') /\ Pipes!Increasing(taken')
        /\ Pipes!Items(taken') = Pipes!Items(taken) \cup {held}
    <3>1. taken \in Seq(Passed) /\ Pipes!Increasing(taken) /\ held \in Nat
      BY DEF PipeInv
    <3>2. /\ Append(taken, held) \in Seq(Passed \cup {held})
          /\ Pipes!Increasing(Append(taken, held))
          /\ Pipes!Items(Append(taken, held)) = Pipes!Items(taken) \cup {held}
      BY <2>3, <3>1, OneAppended, ZenonT(20)
    <3> QED BY <2>1, <2>3, <3>2
  <2>5. Passed' \ Pipes!Items(taken') = Passed \ Pipes!Items(taken)
    <3>1. held \notin Passed
      BY <1>1, <2>2
    <3> QED BY <2>3, <2>4, <3>1
  <2>6. Cardinality(Passed' \ Pipes!Items(taken')) <= 2 * inUnheard'
    BY <1>1, <2>5 DEF PipeInv
  <2> QED BY <1>1, <1>2, <2>4, <2>6 DEF PipeInv
<1>4. CASE devInTog # hostInTog
  <2>1. taken' = taken /\ hostInTog' = hostInTog
    BY <1>4 DEF Pipes!InData, Pipes!Expected
  <2>2. Passed' = Passed
    BY <1>1, <1>4, <2>1 DEF Passed
  <2> QED BY <1>1, <1>2, <2>1, <2>2 DEF PipeInv
<1> QED BY <1>3, <1>4

LEMMA InGlitchPipes == ASSUME PipeInv, Pipes!InGlitch PROVE PipeInv'
<1>1. /\ hostInTog \in 0 .. 1 /\ devInTog \in 0 .. 1 /\ held \in Nat \ {0}
      /\ devInTog' = 1 - devInTog /\ held' = held + 1 /\ inUnheard \in Nat
      /\ inUnheard' = inUnheard + 1
      /\ UNCHANGED <<hostInTog, hostOutTog, outs, devOutTog, taken, accepted, confirmed,
                     outUnheard>>
  BY DEF PipeInv, Pipes!InGlitch, Pipes!Done, Pipes!Flip, Pipes!outHistory
<1>2. pipe = "in" /\ pipe' = "idle" /\ Over' = Over
  BY <1>1 DEF Pipes!InGlitch, Over
<1>3. Passed' \subseteq Passed \cup {held, held + 1} /\ Passed \subseteq Passed'
  BY <1>1 DEF Passed
<1> DEFINE missing == Passed \ Pipes!Items(taken)
           one == missing \cup {held}
<1>4. IsFiniteSet(missing) /\ Cardinality(missing) \in Nat
  BY PipeSets, FS_CardinalityType
<1>5. /\ IsFiniteSet(one) /\ Cardinality(one) \in Nat
      /\ Cardinality(one) <= Cardinality(missing) + 1
  BY <1>4, OneMore
<1>6. Passed' \ Pipes!Items(taken) \subseteq one \cup {held + 1}
  BY <1>3
<1> HIDE DEF one, missing
<1>7. /\ Cardinality(Passed' \ Pipes!Items(taken)) \in Nat
      /\ Cardinality(Passed' \ Pipes!Items(taken)) <= Cardinality(one) + 1
  BY <1>5, <1>6, OneMore
<1>8. Cardinality(missing) <= 2 * inUnheard
  BY DEF missing, PipeInv
<1>9. Cardinality(Passed' \ Pipes!Items(taken)) <= 2 * (inUnheard + 1)
  BY <1>1, <1>4, <1>5, <1>7, <1>8
<1>10. taken \in Seq(Passed')
  BY <1>3, SeqMonotonic DEF PipeInv
<1> QED BY <1>1, <1>2, <1>9, <1>10 DEF PipeInv

\* A packet to the device: it takes it unless it takes it for a repeat.
LEMMA OutDataPipes == ASSUME PipeInv, Pipes!OutData PROVE PipeInv'
<1>1. /\ hostOutTog \in 0 .. 1 /\ devOutTog \in 0 .. 1 /\ outs \in Nat \ {0}
      /\ pipe = "out" /\ pipe' = "idle" /\ outUnheard \in Nat
      /\ UNCHANGED <<hostInTog, outs, devInTog, held, taken, inUnheard>>
  BY DEF PipeInv, Pipes!OutData, Pipes!DeviceTakes, Pipes!inHistory
<1>2. /\ Over = 1 .. outs - 1 /\ Over' = Over \cup {outs} /\ Over \subseteq Nat
      /\ \A x \in Over : x < outs
  BY <1>1 DEF Over
<1>3. Passed' = Passed
  BY <1>1 DEF Passed
<1> DEFINE lost == confirmed \ Pipes!Items(accepted)
           unsure == IF devOutTog = hostOutTog THEN 0 ELSE 1
<1>4. /\ IsFiniteSet(lost) /\ Cardinality(lost) \in Nat /\ Cardinality(lost) + unsure <= outUnheard
  BY PipeSets, FS_Subset, FS_CardinalityType DEF PipeInv
<1>5. \/ /\ hostOutTog' = 1 - hostOutTog /\ confirmed' = confirmed \cup {outs}
         /\ outUnheard' = outUnheard
      \/ /\ outUnheard' = outUnheard + 1 /\ hostOutTog' = hostOutTog /\ confirmed' = confirmed
  BY DEF Pipes!OutData, Pipes!Flip
<1>6. confirmed' \subseteq Over' /\ confirmed' \subseteq confirmed \cup {outs}
  BY <1>2, <1>5 DEF PipeInv
<1>7. CASE devOutTog = hostOutTog
  <2>1. accepted' = Append(accepted, outs) /\ devOutTog' = 1 - devOutTog
    BY <1>7 DEF Pipes!OutData, Pipes!DeviceTakes, Pipes!Flip
  <2>2. /\ accepted' \in Seq(Over') /\ Pipes!Increasing(accepted')
        /\ Pipes!Items(accepted') = Pipes!Items(accepted) \cup {outs}
    <3>0. Over \subseteq Nat /\ \A x \in Over : x < outs
      BY <1>2
    <3>1. accepted \in Seq(Over) /\ Pipes!Increasing(accepted) /\ outs \in Nat
      BY DEF PipeInv
    <3>2. /\ Append(accepted, outs) \in Seq(Over \cup {outs})
          /\ Pipes!Increasing(Append(accepted, outs))
          /\ Pipes!Items(Append(accepted, outs)) = Pipes!Items(accepted) \cup {outs}
      BY <3>0, <3>1, OneAppended, ZenonT(20)
    <3> QED BY <1>2, <2>1, <3>2
  <2>3. confirmed' \ Pipes!Items(accepted') \in SUBSET lost
    BY <1>6, <2>2
  <2>4. /\ Cardinality(confirmed' \ Pipes!Items(accepted')) \in Nat
        /\ Cardinality(confirmed' \ Pipes!Items(accepted')) <= Cardinality(lost)
    BY <1>4, <2>3, FS_Subset, FS_CardinalityType
  <2>5. Cardinality(confirmed' \ Pipes!Items(accepted'))
          + (IF devOutTog' = hostOutTog' THEN 0 ELSE 1) <= outUnheard'
    BY <1>1, <1>4, <1>5, <1>7, <2>1, <2>4
  <2>6. outUnheard' \in Nat /\ hostOutTog' \in 0 .. 1 /\ devOutTog' \in 0 .. 1
    BY <1>1, <1>5, <2>1
  <2> QED BY <1>1, <1>3, <1>6, <2>2, <2>5, <2>6 DEF PipeInv
<1>8. CASE devOutTog # hostOutTog
  <2>1. accepted' = accepted /\ devOutTog' = devOutTog
    BY <1>8 DEF Pipes!OutData, Pipes!DeviceTakes
  <2>2. accepted' \in Seq(Over')
    <3>1. accepted \in Seq(Over) /\ Over \subseteq Over'
      BY <1>2 DEF PipeInv
    <3> QED BY <2>1, <3>1, SeqMonotonic
  <2>3. confirmed' \ Pipes!Items(accepted') \subseteq lost \cup {outs}
    BY <1>6, <2>1
  <2>4. /\ Cardinality(confirmed' \ Pipes!Items(accepted')) \in Nat
        /\ Cardinality(confirmed' \ Pipes!Items(accepted')) <= Cardinality(lost) + 1
        /\ confirmed' = confirmed =>
             Cardinality(confirmed' \ Pipes!Items(accepted')) = Cardinality(lost)
    BY <1>4, <2>1, <2>3, OneMore
  <2>5. Cardinality(confirmed' \ Pipes!Items(accepted'))
          + (IF devOutTog' = hostOutTog' THEN 0 ELSE 1) <= outUnheard'
    BY <1>1, <1>4, <1>5, <1>8, <2>1, <2>4
  <2>6. outUnheard' \in Nat /\ hostOutTog' \in 0 .. 1 /\ devOutTog' \in 0 .. 1
    BY <1>1, <1>5, <2>1
  <2> QED BY <1>1, <1>3, <1>6, <2>1, <2>2, <2>5, <2>6 DEF PipeInv
<1> QED BY <1>7, <1>8

LEMMA QuietPipes ==
    ASSUME PipeInv,
           \/ Pipes!PollIn \/ Pipes!InNak \/ Pipes!InLost \/ Pipes!SendOut
           \/ Pipes!OutNak \/ Pipes!OutLost \/ UNCHANGED pipevars
    PROVE  PipeInv'
<1>1. UNCHANGED <<hostInTog, hostOutTog, devInTog, devOutTog, held, taken, accepted,
                  confirmed, inUnheard, outUnheard>>
  BY DEF Pipes!PollIn, Pipes!InNak, Pipes!InLost, Pipes!SendOut, Pipes!OutNak,
         Pipes!OutLost, pipevars, Pipes!dev, Pipes!inHistory, Pipes!outHistory
<1>2. Passed' = Passed
  BY <1>1 DEF Passed
<1>3. /\ outs' \in Nat /\ (pipe' = "out" => outs' > 0)
      /\ Over \subseteq Over'
  BY DEF PipeInv, Over, Pipes!PollIn, Pipes!InNak, Pipes!InLost, Pipes!SendOut,
         Pipes!OutNak, Pipes!OutLost, pipevars
<1>4. accepted \in Seq(Over')
  BY <1>3, SeqMonotonic DEF PipeInv
<1> QED BY <1>1, <1>2, <1>3, <1>4 DEF PipeInv

LEMMA InitPipes == ASSUME Pipes!Init PROVE PipeInv
<1> USE DEF Pipes!Init
<1>1. /\ hostInTog = 0 /\ hostOutTog = 0 /\ devInTog = 0 /\ devOutTog = 0 /\ held = 1
      /\ outs = 0 /\ pipe = "idle" /\ inUnheard = 0 /\ outUnheard = 0
      /\ taken = <<>> /\ accepted = <<>> /\ confirmed = {}
  OBVIOUS
<1>2. Passed = {} /\ Over = {}
  BY <1>1 DEF Passed, Over
<1>3. <<>> \in Seq({}) /\ DOMAIN <<>> = {}
  BY EmptySeq
<1>4. Pipes!Increasing(<<>>)
  BY <1>3 DEF Pipes!Increasing
<1>5. Cardinality({}) = 0
  BY FS_EmptySet
<1>6. Passed \ Pipes!Items(taken) = {} /\ confirmed \ Pipes!Items(accepted) = {}
  BY <1>1, <1>2
<1> QED BY <1>1, <1>2, <1>3, <1>4, <1>5, <1>6 DEF PipeInv

LEMMA StepPipes ==
    ASSUME PipeInv, [MCNext]_<<vars, returnvars, usbvars, part>>
    PROVE  PipeInv'
<1>1. CASE Pipes!Next
  BY <1>1, InDataPipes, InGlitchPipes, OutDataPipes, QuietPipes DEF Pipes!Next
<1>2. CASE UNCHANGED pipevars
  BY <1>2, QuietPipes
<1> QED BY <1>1, <1>2 DEF MCNext, Usb, Spi, usbvars

-----------------------------------------------------------------------------
(***************************************************************************)
(* A control transfer with the real device.  In its data stage the host    *)
(* has what the device gave, or all of it and the packet once more if the  *)
(* device did not hear the acknowledgement; the stages of the two sides    *)
(* move together.                                                          *)
(***************************************************************************)

CtlDue == Control!Least(ctlReq.has, ctlReq.len)
CtlRead(k) == ctlGot = Control!Bytes(ctlNumber, 0, k)
CtlWrote(k) == written = Control!Bytes(ctlNumber, 0, k)

CtlTypes ==
    /\ ctlStage \in {"idle", "setup", "in", "out", "statusIn", "statusOut"}
    /\ ctlReq \in Asked \cup {Control!None} /\ ep0Req \in Asked \cup {Control!None}
    /\ ctlTog \in 0 .. 1 /\ ep0Tog \in 0 .. 1
    /\ ctlNumber \in Nat /\ ctlRem \in Nat /\ trouble \in Nat /\ given \in Nat
    /\ ctlResult \in {"none", "ok", "failed"}

\* While the host reads
ReadingInv ==
    ctlStage = "in" =>
        /\ ctlReq.kind = "in" /\ ep0Stage = "in" /\ acted = 1
        /\ Len(ctlGot) \in 0 .. CtlDue /\ CtlRead(Len(ctlGot))
        /\ ctlRem = ctlReq.len - Len(ctlGot)
        /\ given + (IF ctlTog = ep0Tog THEN 0 ELSE Len(Control!Packet)) = Len(ctlGot)

\* While it writes
WritingInv ==
    ctlStage = "out" =>
        /\ ctlReq.kind = "out" /\ ep0Stage = "out" /\ acted = 0 /\ ctlTog = ep0Tog
        /\ ctlRem <= ctlReq.len /\ CtlWrote(ctlReq.len - ctlRem)

\* At the status stage
StatusStageInv ==
    /\ ctlStage = "statusIn" =>
         /\ ep0Stage = "statusIn" /\ ep0Tog = 1 /\ ctlReq.kind # "in"
         /\ ctlReq.kind = "out" => CtlWrote(ctlReq.len)
         /\ acted = IF ctlReq.kind = "address" THEN 0 ELSE 1
    /\ ctlStage = "statusOut" => ctlReq.kind = "in" /\ CtlRead(CtlDue) /\ acted = 1

TransferInv ==
    /\ CtlTypes /\ ReadingInv /\ WritingInv /\ StatusStageInv
    /\ ctlStage # "idle" => ctlReq \in Asked /\ ctlResult = "none"
    /\ ctlStage = "setup" => ctlRem = ctlReq.len /\ ctlGot = <<>>
    /\ ctlStage \notin {"idle", "setup"} => ep0Req = ctlReq
    /\ Control!TransferWhole

LEMMA AskedFields ==
    ASSUME NEW r \in Asked
    PROVE  /\ r.kind \in {"in", "out", "plain", "address"} /\ r.has \in Nat /\ r.len \in Nat
           /\ Control!Least(r.has, r.len) \in 0 .. r.len
BY DEF Asked, Control!Least

LEMMA BytesJoin ==
    ASSUME NEW n \in Nat, NEW a \in Nat, NEW b \in Nat, a <= b
    PROVE  /\ Control!Bytes(n, 0, a) \o Control!Bytes(n, a, b) = Control!Bytes(n, 0, b)
           /\ Control!Bytes(n, a, b) \in Seq(Nat \X Nat) /\ Len(Control!Bytes(n, a, b)) = b - a
<1> DEFINE u == Control!Bytes(n, 0, a)
           v == Control!Bytes(n, a, b)
           w == Control!Bytes(n, 0, b)
<1>1. \A i \in Nat : <<n, 0 + i>> \in Nat \X Nat /\ <<n, a + i>> \in Nat \X Nat
  OBVIOUS
<1>2. a - 0 = a /\ b - 0 = b /\ b - a \in Nat
  OBVIOUS
<1>3. u \in Seq(Nat \X Nat) /\ Len(u) = a /\ \A i \in 1 .. a : u[i] = <<n, 0 + i>>
  BY <1>1, <1>2 DEF Control!Bytes
<1>4. v \in Seq(Nat \X Nat) /\ Len(v) = b - a /\ \A i \in 1 .. b - a : v[i] = <<n, a + i>>
  BY <1>1, <1>2 DEF Control!Bytes
<1>5. w \in Seq(Nat \X Nat) /\ Len(w) = b /\ \A i \in 1 .. b : w[i] = <<n, 0 + i>>
  BY <1>1, <1>2 DEF Control!Bytes
<1> HIDE DEF u, v, w
<1>6. /\ u \o v \in Seq(Nat \X Nat) /\ Len(u \o v) = Len(u) + Len(v)
      /\ \A i \in 1 .. Len(u) + Len(v) :
            (u \o v)[i] = IF i <= Len(u) THEN u[i] ELSE v[i - Len(u)]
  BY <1>3, <1>4, ConcatProperties
<1>7. Len(u) + Len(v) = b
  BY <1>2, <1>3, <1>4
<1>8. ASSUME NEW i \in 1 .. b PROVE (u \o v)[i] = w[i]
  <2>0. (u \o v)[i] = IF i <= a THEN u[i] ELSE v[i - a]
    BY <1>3, <1>6, <1>7
  <2>1. CASE i <= a
    BY <1>3, <1>5, <2>0, <2>1
  <2>2. CASE ~(i <= a)
    <3>1. i - a \in 1 .. b - a /\ a + (i - a) = 0 + i
      BY <2>2
    <3>2. v[i - a] = <<n, a + (i - a)>>
      BY <1>4, <3>1
    <3> QED BY <1>5, <2>0, <2>2, <3>1, <3>2
  <2> QED BY <2>1, <2>2
<1>9. u \o v = w
  BY <1>5, <1>6, <1>7, <1>8, SeqEqual
<1> QED BY <1>4, <1>9 DEF u, v, w

LEMMA NoBytes == \A n : Control!Bytes(n, 0, 0) = <<>>
<1>1. 0 - 0 = 0 /\ 1 .. 0 = {}
  OBVIOUS
<1> QED BY <1>1 DEF Control!Bytes

LEMMA BeginTransfer == ASSUME TransferInv, NEW r \in Asked, Control!Begin(r) PROVE TransferInv'
<1>1. /\ ctlStage' = "setup" /\ ctlReq' = r /\ ctlNumber' = ctlNumber + 1 /\ ctlRem' = r.len
      /\ ctlGot' = <<>> /\ ctlResult' = "none"
      /\ UNCHANGED <<ctlTog, ep0Stage, ep0Req, ep0Tog, given, written, acted, trouble>>
  BY DEF Control!Begin, Control!device
<1>2. CtlTypes'
  BY <1>1, AskedFields DEF TransferInv, CtlTypes
<1>3. ReadingInv' /\ WritingInv' /\ StatusStageInv'
  BY <1>1 DEF ReadingInv, WritingInv, StatusStageInv
<1>4. Control!TransferWhole'
  BY <1>1 DEF Control!TransferWhole
<1> QED BY <1>1, <1>2, <1>3, <1>4 DEF TransferInv

\* Whatever the device does about it, a transfer the host gives up promises nothing.
LEMMA GivenUp ==
    ASSUME TransferInv, Control!Abort, trouble' \in {trouble, trouble + 1},
           ep0Req' \in {ep0Req, ctlReq}, ep0Tog' \in 0 .. 1, given' \in Nat
    PROVE  TransferInv'
<1>1. /\ ctlStage' = "idle" /\ ctlResult' = "failed"
      /\ UNCHANGED <<ctlReq, ctlTog, ctlRem, ctlGot, ctlNumber>>
  BY DEF Control!Abort, Control!Return
<1>2. CtlTypes'
  BY <1>1 DEF TransferInv, CtlTypes
<1>3. ReadingInv' /\ WritingInv' /\ StatusStageInv'
  BY <1>1 DEF ReadingInv, WritingInv, StatusStageInv
<1>4. Control!TransferWhole'
  BY <1>1 DEF Control!TransferWhole
<1> QED BY <1>1, <1>2, <1>3, <1>4 DEF TransferInv

LEMMA SetupTransfer == ASSUME TransferInv, Control!Setup PROVE TransferInv'
<1>1. /\ ctlStage = "setup" /\ ctlReq \in Asked /\ ctlRem = ctlReq.len /\ ctlGot = <<>>
      /\ ctlResult = "none" /\ CtlTypes
  BY DEF TransferInv, Control!Setup
<1>2. /\ ep0Req' = ctlReq /\ ep0Tog' = 1 /\ given' = 0 /\ written' = <<>>
      /\ ep0Stage' = IF ctlReq.kind \in {"in", "out"} THEN ctlReq.kind ELSE "statusIn"
      /\ acted' = IF ctlReq.kind \in {"plain", "in"} THEN 1 ELSE 0
  BY DEF Control!Setup, Control!DeviceSetup
<1>3. CASE Control!Trouble /\ Control!Abort
  BY <1>2, <1>3, GivenUp DEF Control!Trouble
<1>4. CASE Control!Smooth /\ ctlTog' = Control!FirstToggle /\ ctlStage' = ep0Stage'
           /\ UNCHANGED <<ctlReq, ctlRem, ctlGot, ctlTries, ctlResult, ctlNumber>>
  <2>1. ctlTog' = 1 /\ trouble' = trouble
    BY <1>4 DEF Control!FirstToggle, Control!Smooth
  <2>2. /\ ctlReq.kind \in {"in", "out", "plain", "address"}
        /\ CtlDue \in 0 .. ctlReq.len /\ ctlReq.len \in Nat /\ CtlDue' = CtlDue
    BY <1>1, <1>4, AskedFields DEF CtlDue
  <2>3. CtlTypes'
    BY <1>1, <1>2, <1>4, <2>1, <2>2 DEF CtlTypes
  <2>4. CtlRead(0)' /\ CtlWrote(0)' /\ Len(ctlGot') = 0
    BY <1>1, <1>2, <1>4, NoBytes DEF CtlRead, CtlWrote
  <2>5. ReadingInv'
    BY <1>1, <1>2, <1>4, <2>1, <2>2, <2>4 DEF ReadingInv
  <2>6. WritingInv'
    <3>1. ctlReq'.len - ctlRem' = 0
      BY <1>1, <1>4, <2>2
    <3> QED BY <1>1, <1>2, <1>4, <2>1, <2>2, <2>4, <3>1 DEF WritingInv
  <2>7. StatusStageInv'
    BY <1>2, <1>4, <2>2 DEF StatusStageInv
  <2>8. Control!TransferWhole'
    BY <1>1, <1>4 DEF Control!TransferWhole
  <2> QED BY <1>1, <1>2, <1>4, <2>2, <2>3, <2>5, <2>6, <2>7, <2>8 DEF TransferInv
<1> QED BY <1>2, <1>3, <1>4 DEF Control!Setup

\* usb_host_control_transfer reads a packet, or the same one again.
LEMMA ReadTransfer == ASSUME TransferInv, Control!ReadPacket PROVE TransferInv'
<1> DEFINE p == Control!Packet
           g == Len(ctlGot)
<1>1. /\ ctlStage = "in" /\ ctlReq \in Asked /\ ep0Req = ctlReq /\ ctlResult = "none"
      /\ CtlTypes /\ ep0Stage = "in" /\ ctlReq.kind = "in" /\ acted = 1
      /\ g \in 0 .. CtlDue /\ CtlRead(g) /\ ctlRem = ctlReq.len - g
      /\ given + (IF ctlTog = ep0Tog THEN 0 ELSE Len(p)) = g
  BY DEF TransferInv, ReadingInv, Control!ReadPacket
<1>2. CtlDue \in 0 .. ctlReq.len /\ ctlReq.len \in Nat /\ ctlNumber \in Nat /\ given \in Nat
  BY <1>1, AskedFields DEF CtlDue, CtlTypes
<1> DEFINE to == Control!Least(given + Mps, CtlDue)
<1>3. p = Control!Bytes(ctlNumber, given, to)
  BY <1>1 DEF Control!Packet, Control!Due, CtlDue
<1>4. to \in Nat /\ given <= to /\ to <= CtlDue /\ to <= given + Mps
      /\ (to = given \/ to - given # Mps => to = CtlDue)
  <2>1. given <= g
    BY <1>1, <1>2, BytesJoin
  <2> QED BY <1>1, <1>2, <2>1, PacketAssumption DEF Control!Least
<1> HIDE DEF to
<1>5. p \in Seq(Nat \X Nat) /\ Len(p) = to - given
  BY <1>2, <1>3, <1>4, BytesJoin
<1>6. /\ UNCHANGED <<ctlReq, ctlNumber>> /\ CtlDue' = CtlDue /\ trouble' \in Nat
  BY <1>1 DEF Control!ReadPacket, Control!Repeat, CtlDue, CtlTypes, Control!Smooth,
              Control!Trouble
<1>7. /\ UNCHANGED <<ep0Stage, ep0Req, acted>>
      /\ \/ ep0Tog' = 1 - ep0Tog /\ given' = given + Len(p)
         \/ ep0Tog' = ep0Tog /\ given' = given
  BY <1>1 DEF Control!ReadPacket, Control!DeviceGoesOn, Control!device
<1>8. ep0Tog' \in 0 .. 1 /\ given' \in Nat
  <2>1. ep0Tog \in 0 .. 1
    BY <1>1 DEF CtlTypes
  <2>2. Len(p) \in Nat
    BY <1>4, <1>5, <1>2
  <2> QED BY <1>2, <1>7, <2>1, <2>2
<1>9. WritingInv' /\ (ctlResult' # "ok" => Control!TransferWhole')
  <2>1. ctlStage' # "out"
    BY <1>1 DEF Control!ReadPacket, Control!Repeat, Control!Return
  <2> QED BY <2>1 DEF WritingInv, Control!TransferWhole
<1>10. CASE ctlTog # ep0Tog
  <2>1. /\ \/ ctlStage' = "idle" /\ ctlResult' = "failed"
           \/ UNCHANGED <<ctlStage, ctlResult>>
        /\ UNCHANGED <<ctlTog, ctlRem, ctlGot>>
    BY <1>10 DEF Control!ReadPacket, Control!Repeat, Control!Return
  <2>2. CtlTypes'
    BY <1>1, <1>6, <1>7, <1>8, <2>1 DEF CtlTypes
  <2>3. p' = p \/ ctlTog' = ep0Tog'
    <3>1. CASE given' = given
      BY <1>1, <1>6, <1>7, <3>1 DEF Control!Packet, Control!Due
    <3>2. CASE ep0Tog' = 1 - ep0Tog
      BY <1>1, <1>10, <2>1, <3>2 DEF CtlTypes
    <3> QED BY <1>7, <3>1, <3>2
  <2>4. given' + (IF ctlTog' = ep0Tog' THEN 0 ELSE Len(p')) = g
    <3>1. ctlTog \in 0 .. 1 /\ ep0Tog \in 0 .. 1 /\ given + Len(p) = g /\ ctlTog' = ctlTog
      BY <1>1, <1>10, <2>1 DEF CtlTypes
    <3>2. CASE ep0Tog' = ep0Tog /\ given' = given
      <4>1. p' = p /\ ctlTog' # ep0Tog'
        BY <1>10, <2>3, <3>1, <3>2
      <4> QED BY <3>1, <3>2, <4>1
    <3>3. CASE ep0Tog' = 1 - ep0Tog /\ given' = given + Len(p)
      <4>1. ctlTog' = ep0Tog'
        BY <1>10, <3>1, <3>3
      <4> QED BY <1>2, <1>4, <1>5, <3>1, <3>3, <4>1
    <3> QED BY <1>7, <3>2, <3>3
  <2>5. ReadingInv'
    BY <1>1, <1>6, <1>7, <2>1, <2>4 DEF ReadingInv, CtlRead
  <2>6. StatusStageInv'
    BY <1>1, <2>1 DEF StatusStageInv
  <2> QED BY <1>1, <1>6, <1>7, <1>9, <2>1, <2>2, <2>5, <2>6 DEF TransferInv
<1>11. CASE ctlTog = ep0Tog
  <2>1. given = g
    BY <1>1, <1>2, <1>11
  <2>0. ctlRem = ctlReq.len - given /\ to <= ctlReq.len /\ ctlReq.len \in Nat
    BY <1>1, <1>2, <1>4, <2>1
  <2>2. Control!Least(Len(p), ctlRem) = Len(p)
    <3>1. to - given <= ctlReq.len - given /\ to - given \in Nat
          /\ ctlReq.len - given \in Nat
      BY <1>2, <1>4, <2>0
    <3>2. \A a \in Nat, b \in Nat : a <= b => Control!Least(a, b) = a
      BY DEF Control!Least
    <3> QED BY <1>5, <2>0, <3>1, <3>2
  <2>3. /\ ctlGot' = ctlGot \o SubSeq(p, 1, Len(p)) /\ ctlRem' = ctlRem - Len(p)
        /\ ctlTog' = 1 - ctlTog /\ ctlResult' = ctlResult
        /\ ctlStage' = IF ctlRem' = 0 \/ Control!Short(p) THEN "statusOut" ELSE "in"
    BY <1>11, <2>2 DEF Control!ReadPacket, Control!NextToggle
  <2>4. ctlGot' = Control!Bytes(ctlNumber, 0, to) /\ Len(ctlGot') = to
    <3>1. SubSeq(p, 1, Len(p)) = p
      BY <1>5, SubSeqFull
    <3>2. ctlGot = Control!Bytes(ctlNumber, 0, given)
      BY <1>1, <2>1 DEF CtlRead
    <3>3. Control!Bytes(ctlNumber, 0, given) \o p = Control!Bytes(ctlNumber, 0, to)
      BY <1>2, <1>3, <1>4, BytesJoin
    <3>4. 0 \in Nat /\ 0 <= to /\ to - 0 = to
      BY <1>4
    <3>5. Len(Control!Bytes(ctlNumber, 0, to)) = to
      <4>1. Len(Control!Bytes(ctlNumber, 0, to)) = to - 0
        BY <1>2, <1>4, <3>4, BytesJoin
      <4> QED BY <3>4, <4>1
    <3>6. ctlGot' = Control!Bytes(ctlNumber, 0, to)
      BY <2>3, <3>1, <3>2, <3>3
    <3> QED BY <3>5, <3>6
  <2>5. ctlRem' = ctlReq.len - to /\ ctlRem' \in Nat
    <3>1. (ctlReq.len - given) - (to - given) = ctlReq.len - to
      BY <1>2, <1>4, <2>0
    <3>2. ctlRem' = ctlReq.len - to
      BY <1>5, <2>0, <2>3, <3>1
    <3> QED BY <1>4, <2>0, <3>2
  <2>6. Control!Short(p) => to = CtlDue
    <3>1. Mps % Mps = 0
      BY PacketAssumption
    <3>2. Control!Short(p) => to - given = 0 \/ to - given # Mps
      BY <1>5, <3>1 DEF Control!Short
    <3>3. to - given = 0 => to = given
      BY <1>2, <1>4
    <3> QED BY <1>4, <3>2, <3>3
  <2>7. ctlRem' = 0 => to = CtlDue
    BY <1>2, <1>4, <2>5
  <2>8. CtlTypes'
    BY <1>1, <1>6, <1>7, <1>8, <2>3, <2>5 DEF CtlTypes
  <2>9. ReadingInv'
    <3>1. given' + (IF ctlTog' = ep0Tog' THEN 0 ELSE Len(p')) = to
      <4>1. CASE ep0Tog' = 1 - ep0Tog /\ given' = given + Len(p)
        BY <1>2, <1>4, <1>5, <1>11, <2>3, <4>1
      <4>2. CASE ep0Tog' = ep0Tog /\ given' = given
        <5>1. p' = p
          BY <1>1, <1>6, <1>7, <4>2 DEF Control!Packet, Control!Due
        <5>2. ctlTog' # ep0Tog'
          BY <1>1, <1>11, <2>3, <4>2 DEF CtlTypes
        <5> QED BY <1>2, <1>4, <1>5, <4>2, <5>1, <5>2
      <4> QED BY <1>7, <4>1, <4>2
    <3>2. Len(ctlGot') \in 0 .. CtlDue
      BY <1>2, <1>4, <2>4
    <3>3. ctlGot' = Control!Bytes(ctlNumber', 0, Len(ctlGot'))
      BY <1>6, <2>4
    <3> QED BY <1>1, <1>6, <1>7, <2>4, <2>5, <3>1, <3>2, <3>3 DEF ReadingInv, CtlRead
  <2>10. StatusStageInv'
    BY <1>1, <1>6, <1>7, <2>3, <2>4, <2>6, <2>7 DEF StatusStageInv, CtlRead
  <2> QED BY <1>1, <1>6, <1>7, <1>9, <2>3, <2>8, <2>9, <2>10 DEF TransferInv
<1> QED BY <1>10, <1>11

LEMMA PacketHasLength ==
    ASSUME CtlTypes PROVE Len(Control!Packet) \in Nat /\ (ep0Stage # "in" => Len(Control!Packet) = 0)
<1> DEFINE to == Control!Least(given + Mps, Control!Due)
<1>1. ep0Req.has \in Nat /\ ep0Req.len \in Nat /\ given \in Nat /\ ctlNumber \in Nat
  BY AskedFields DEF CtlTypes, Control!None
<1>2. to \in Nat
  BY <1>1, PacketAssumption DEF Control!Least, Control!Due
<1>3. <<>> \in Seq(Nat) /\ Len(<<>>) = 0
  BY EmptySeq
<1> HIDE DEF to
<1>4. CASE ep0Stage # "in"
  BY <1>3, <1>4 DEF Control!Packet, Control!Zero
<1>5. CASE ep0Stage = "in"
  <2>1. Control!Packet = Control!Bytes(ctlNumber, given, to)
    BY <1>5 DEF Control!Packet, to
  <2>2. CASE given <= to
    <3>1. Len(Control!Bytes(ctlNumber, given, to)) = to - given
      BY <1>1, <1>2, <2>2, BytesJoin
    <3>2. to - given \in Nat
      BY <1>1, <1>2, <2>2
    <3> QED BY <1>5, <2>1, <3>1, <3>2
  <2>3. CASE ~(given <= to)
    <3>1. 1 .. (to - given) = {}
      BY <1>1, <1>2, <2>3
    <3>2. Control!Bytes(ctlNumber, given, to) = <<>>
      BY <3>1 DEF Control!Bytes
    <3> QED BY <1>3, <1>5, <2>1, <3>2
  <2> QED BY <2>2, <2>3
<1> QED BY <1>4, <1>5

LEMMA WriteTransfer == ASSUME TransferInv, Control!WritePacket PROVE TransferInv'
<1> DEFINE from == ctlReq.len - ctlRem
           n == Control!Least(ctlRem, Mps)
           p == Control!Bytes(ctlNumber, from, from + n)
<1>1. /\ ctlStage = "out" /\ ctlReq \in Asked /\ ep0Req = ctlReq /\ ctlResult = "none"
      /\ CtlTypes /\ ep0Stage = "out" /\ ctlReq.kind = "out" /\ acted = 0
      /\ ctlTog = ep0Tog /\ ctlRem <= ctlReq.len /\ CtlWrote(from)
  BY DEF TransferInv, WritingInv, Control!WritePacket
<1>2. ctlReq.len \in Nat /\ ctlRem \in Nat /\ ctlNumber \in Nat /\ from \in Nat
  BY <1>1, AskedFields DEF CtlTypes
<1>3. n \in Nat /\ n <= ctlRem
  BY <1>2, PacketAssumption DEF Control!Least
<1>4. /\ Control!DeviceTakes(p, ctlTog)
      /\ \/ /\ Control!Smooth /\ ctlRem' = ctlRem - n /\ ctlTog' = Control!NextToggle
            /\ ctlStage' = IF ctlRem' = 0 THEN "statusIn" ELSE "out"
            /\ UNCHANGED <<ctlReq, ctlGot, ctlTries, ctlResult, ctlNumber>>
         \/ Control!Trouble /\ Control!Abort
  BY DEF Control!WritePacket
<1> HIDE DEF n
<1>5. from + n \in Nat /\ from <= from + n /\ 0 <= from
  BY <1>2, <1>3
<1>6. /\ (from + n < ctlReq.len) <=> (ctlRem - n # 0)
      /\ ctlRem - n \in Nat /\ ctlReq.len - (ctlRem - n) = from + n
      /\ ctlRem - n <= ctlReq.len
  BY <1>1, <1>2, <1>3
<1>7. (from + n < ctlReq.len) \/ from + n = ctlReq.len
  BY <1>1, <1>2, <1>3
<1> HIDE DEF from
<1>8. /\ written \o p = Control!Bytes(ctlNumber, 0, from + n)
      /\ Len(Control!Bytes(ctlNumber, 0, from + n)) = from + n
  <2>1. /\ Control!Bytes(ctlNumber, 0, from) \o p = Control!Bytes(ctlNumber, 0, from + n)
    BY <1>2, <1>5, BytesJoin
  <2>2. 0 \in Nat /\ 0 <= from + n /\ (from + n) - 0 = from + n
    BY <1>5
  <2>3. Len(Control!Bytes(ctlNumber, 0, from + n)) = (from + n) - 0
    BY <1>2, <1>5, <2>2, BytesJoin
  <2>4. written = Control!Bytes(ctlNumber, 0, from)
    BY <1>1 DEF CtlWrote
  <2> QED BY <2>1, <2>2, <2>3, <2>4
<1> HIDE DEF p
<1>9. /\ written' = Control!Bytes(ctlNumber, 0, from + n)
      /\ UNCHANGED <<ep0Req, given>>
      /\ from + n < ctlReq.len =>
           ep0Tog' = 1 - ep0Tog /\ ep0Stage' = "out" /\ acted' = 0
      /\ ~(from + n < ctlReq.len) =>
           ep0Tog' = 1 /\ ep0Stage' = "statusIn" /\ acted' = 1
  BY <1>1, <1>4, <1>8 DEF Control!DeviceTakes
<1>10. ep0Tog' \in 0 .. 1
  BY <1>1, <1>9 DEF CtlTypes
<1>11. CASE Control!Trouble /\ Control!Abort
  BY <1>1, <1>9, <1>10, <1>11, GivenUp DEF Control!Trouble, CtlTypes
<1>12. CASE /\ Control!Smooth /\ ctlRem' = ctlRem - n /\ ctlTog' = Control!NextToggle
            /\ ctlStage' = IF ctlRem' = 0 THEN "statusIn" ELSE "out"
            /\ UNCHANGED <<ctlReq, ctlGot, ctlTries, ctlResult, ctlNumber>>
  <2>1. ctlTog' = 1 - ctlTog /\ ctlTog' \in 0 .. 1 /\ trouble' = trouble
    BY <1>1, <1>12 DEF Control!NextToggle, Control!Smooth, CtlTypes
  <2>2. CtlTypes'
    BY <1>1, <1>6, <1>9, <1>10, <1>12, <2>1 DEF CtlTypes
  <2>3. ReadingInv' /\ Control!TransferWhole'
    BY <1>1, <1>12 DEF ReadingInv, Control!TransferWhole
  <2>4. ctlReq'.len - ctlRem' = from + n /\ ctlNumber' = ctlNumber
    BY <1>6, <1>12
  <2>5. WritingInv'
    <3>1. ctlStage' = "out" => from + n < ctlReq.len
      BY <1>6, <1>12
    <3>2. written' = Control!Bytes(ctlNumber', 0, ctlReq'.len - ctlRem')
      BY <1>9, <2>4
    <3> QED BY <1>1, <1>6, <1>9, <1>12, <2>1, <3>1, <3>2 DEF WritingInv, CtlWrote
  <2>6. StatusStageInv'
    <3>1. ctlStage' = "statusIn" => ~(from + n < ctlReq.len) /\ from + n = ctlReq.len
      BY <1>6, <1>7, <1>12
    <3>2. ctlStage' # "statusOut" /\ ctlReq' = ctlReq /\ ctlNumber' = ctlNumber
      BY <1>12
    <3>3. ctlStage' = "statusIn" => written' = Control!Bytes(ctlNumber', 0, ctlReq'.len)
      BY <1>9, <3>1, <3>2
    <3> QED BY <1>1, <1>9, <3>1, <3>2, <3>3 DEF StatusStageInv, CtlWrote
  <2>7. ctlStage' \in {"statusIn", "out"} /\ ctlReq' \in Asked /\ ctlResult' = "none"
        /\ ep0Req' = ctlReq'
    BY <1>1, <1>9, <1>12
  <2> QED BY <2>2, <2>3, <2>5, <2>6, <2>7 DEF TransferInv
<1> QED BY <1>4, <1>11, <1>12

\* The status stages.
LEMMA StatusTransfer ==
    ASSUME TransferInv, Control!StatusIn \/ Control!StatusOut PROVE TransferInv'
<1>1. CtlTypes /\ StatusStageInv /\ ctlReq \in Asked
  BY DEF TransferInv, Control!StatusIn, Control!StatusOut
<1>2. CASE Control!StatusIn
  <2>1. /\ ctlStage = "statusIn" /\ ep0Stage = "statusIn" /\ ep0Tog = 1
        /\ ctlReq.kind # "in" /\ ep0Req = ctlReq
        /\ ctlReq.kind = "out" => CtlWrote(ctlReq.len)
        /\ acted = IF ctlReq.kind = "address" THEN 0 ELSE 1
    BY <1>1, <1>2 DEF TransferInv, StatusStageInv, Control!StatusIn
  <2>2. /\ ctlStage' = "idle" /\ ctlResult' = "ok"
        /\ UNCHANGED <<ctlReq, ctlTog, ctlRem, ctlGot, ctlNumber>>
    BY <1>2, <2>1 DEF Control!StatusIn, Control!Return
  <2>3. Len(Control!Packet) = 0
    BY <1>1, <2>1, PacketHasLength
  <2>4. /\ ep0Req' = ep0Req /\ written' = written /\ ep0Tog' \in 0 .. 1 /\ given' \in Nat
        /\ trouble' \in Nat
    BY <1>1, <1>2, <2>1, <2>3 DEF Control!StatusIn, Control!DeviceGoesOn, Control!device,
       Control!Smooth, Control!Trouble, CtlTypes
  <2>5. acted' = 1 \/ (ctlReq.kind = "address" /\ acted' = 0 /\ trouble' > 0)
    <3>1. CASE Control!DeviceGoesOn
      BY <2>1, <3>1 DEF Control!DeviceGoesOn
    <3>2. CASE Control!Trouble /\ UNCHANGED Control!device
      BY <1>1, <2>1, <3>2 DEF Control!Trouble, Control!device, CtlTypes
    <3> QED BY <1>2, <3>1, <3>2 DEF Control!StatusIn
  <2>6. Control!TransferWhole'
    BY <2>1, <2>2, <2>4, <2>5 DEF Control!TransferWhole, CtlWrote
  <2>7. CtlTypes'
    BY <1>1, <2>2, <2>4 DEF CtlTypes
  <2>8. ReadingInv' /\ WritingInv' /\ StatusStageInv'
    BY <2>2 DEF ReadingInv, WritingInv, StatusStageInv
  <2> QED BY <2>2, <2>6, <2>7, <2>8 DEF TransferInv
<1>3. CASE Control!StatusOut
  <2>1. /\ ctlStage = "statusOut" /\ ctlReq.kind = "in" /\ CtlRead(CtlDue) /\ acted = 1
        /\ UNCHANGED <<ep0Req, ep0Tog, given, acted>>
    BY <1>1, <1>3 DEF StatusStageInv, Control!StatusOut
  <2>2. CASE Control!Trouble /\ Control!Abort
    BY <1>1, <2>1, <2>2, GivenUp DEF Control!Trouble, CtlTypes
  <2>3. CASE /\ Control!Smooth /\ Control!Return("ok")
             /\ UNCHANGED <<ctlReq, ctlTog, ctlRem, ctlGot, ctlTries, ctlNumber>>
    <3>1. ctlStage' = "idle" /\ ctlResult' = "ok" /\ trouble' = trouble
      BY <2>3 DEF Control!Return, Control!Smooth
    <3>2. Control!TransferWhole'
      BY <2>1, <2>3 DEF Control!TransferWhole, CtlRead, CtlDue
    <3>3. CtlTypes'
      BY <1>1, <2>1, <2>3, <3>1 DEF CtlTypes
    <3>4. ReadingInv' /\ WritingInv' /\ StatusStageInv'
      BY <3>1 DEF ReadingInv, WritingInv, StatusStageInv
    <3> QED BY <3>1, <3>2, <3>3, <3>4 DEF TransferInv
  <2> QED BY <1>3, <2>2, <2>3 DEF Control!StatusOut
<1> QED BY <1>2, <1>3

\* A transaction that fails, or whose answer the host throws away.
LEMMA FailedTransfer ==
    ASSUME TransferInv, Control!Nothing \/ Control!Refused \/ Control!Glitch
    PROVE  TransferInv'
<1>1. CtlTypes
  BY DEF TransferInv
<1>2. CASE Control!Nothing \/ Control!Refused
  BY <1>1, <1>2, GivenUp DEF Control!Nothing, Control!Refused, Control!Trouble,
     Control!Smooth, Control!device, CtlTypes
<1>3. CASE Control!Glitch
  <2>1. ep0Req' = ep0Req /\ ep0Tog' \in 0 .. 1 /\ given' \in Nat
    BY <1>1, <1>3, PacketHasLength DEF Control!Glitch, Control!DeviceGoesOn, CtlTypes
  <2> QED BY <1>3, <2>1, GivenUp DEF Control!Glitch, Control!Trouble
<1> QED BY <1>2, <1>3

LEMMA QuietTransfer == ASSUME TransferInv, UNCHANGED controlvars PROVE TransferInv'
<1>1. CtlTypes' /\ ReadingInv' /\ WritingInv' /\ StatusStageInv'
  BY DEF TransferInv, controlvars, CtlTypes, ReadingInv, WritingInv, StatusStageInv,
     CtlDue, CtlRead, CtlWrote, Control!Packet, Control!Due
<1>2. Control!TransferWhole'
  BY DEF TransferInv, controlvars, Control!TransferWhole
<1> QED BY <1>1, <1>2 DEF TransferInv, controlvars

LEMMA InitTransfer == ASSUME Control!Init PROVE TransferInv
<1>1. /\ ctlStage = "idle" /\ ctlReq = Control!None /\ ep0Req = Control!None
      /\ ctlTog = 0 /\ ep0Tog = 0 /\ ctlNumber = 0 /\ ctlRem = 0 /\ trouble = 0
      /\ given = 0 /\ ctlResult = "none"
  BY DEF Control!Init
<1>2. CtlTypes
  BY <1>1 DEF CtlTypes
<1> QED BY <1>1, <1>2 DEF TransferInv, ReadingInv, WritingInv, StatusStageInv,
     Control!TransferWhole

LEMMA StepTransfer ==
    ASSUME TransferInv, [MCNext]_<<vars, returnvars, usbvars, part>>
    PROVE  TransferInv'
<1>1. CASE Control!Next
  BY <1>1, BeginTransfer, SetupTransfer, ReadTransfer, WriteTransfer, StatusTransfer,
     FailedTransfer DEF Control!Next
<1>2. CASE UNCHANGED controlvars
  BY <1>2, QuietTransfer
<1> QED BY <1>1, <1>2 DEF MCNext, Usb, Spi, usbvars

\* Whatever the wire loses and whenever the port changes: the relay gets reports of the real
\* device at most once and in order, and lacks at most two for each answer it threw away at
\* a change of the port; of the packets it counts as sent at most one was not taken for each
\* acknowledgement it did not hear; and a control transfer that succeeds moved exactly the
\* bytes asked for and had its effect once, except that a SET_ADDRESS whose status stage was
\* not heard may have had none (usb_host.c:206-285, 433-662).
THEOREM TransfersWhole == MCSpec => []TransfersOnce
<1>1. MCInit => PipeInv /\ TransferInv
  BY InitPipes, InitTransfer DEF MCInit
<1>2. PipeInv /\ TransferInv /\ [MCNext]_<<vars, returnvars, usbvars, part>>
        => PipeInv' /\ TransferInv'
  BY StepPipes, StepTransfer
<1>3. ASSUME PipeInv, TransferInv PROVE TransfersOnce
  <2>1. Control!TransferWhole
    BY <1>3 DEF TransferInv
  <2>2. Pipes!Increasing(taken) /\ Pipes!Increasing(accepted)
    BY <1>3 DEF PipeInv
  <2>3. Cardinality((1 .. held - 1) \ Pipes!Items(taken)) <= 2 * inUnheard
    <3> DEFINE small == (1 .. held - 1) \ Pipes!Items(taken)
               large == Passed \ Pipes!Items(taken)
    <3>1. small \in SUBSET large
      BY <1>3 DEF PipeInv, Passed
    <3>2. IsFiniteSet(large) /\ Cardinality(large) <= 2 * inUnheard /\ inUnheard \in Nat
      BY <1>3, PipeSets DEF PipeInv
    <3> HIDE DEF small, large
    <3>3. IsFiniteSet(small) /\ Cardinality(small) <= Cardinality(large)
      BY <3>1, <3>2, FS_Subset
    <3>4. Cardinality(small) \in Nat /\ Cardinality(large) \in Nat
      BY <3>2, <3>3, FS_CardinalityType
    <3>5. Cardinality(small) <= 2 * inUnheard
      BY <3>2, <3>3, <3>4
    <3> QED BY <3>5 DEF small
  <2>4. Cardinality(confirmed \ Pipes!Items(accepted)) <= outUnheard
    <3> DEFINE lost == confirmed \ Pipes!Items(accepted)
    <3>1. lost \in SUBSET confirmed /\ IsFiniteSet(confirmed)
      BY <1>3, PipeSets
    <3>2. Cardinality(lost) + (IF devOutTog = hostOutTog THEN 0 ELSE 1) <= outUnheard
          /\ outUnheard \in Nat
      BY <1>3 DEF PipeInv
    <3> HIDE DEF lost
    <3>3. Cardinality(lost) \in Nat
      BY <3>1, FS_Subset, FS_CardinalityType
    <3>4. Cardinality(lost) <= outUnheard
      BY <3>2, <3>3
    <3> QED BY <3>4 DEF lost
  <2> QED
    BY <2>1, <2>2, <2>3, <2>4, PipesCount DEF TransfersOnce, Pipes!TransfersOnce
<1> QED BY <1>1, <1>2, <1>3, PTL DEF MCSpec

-----------------------------------------------------------------------------
(***************************************************************************)
(* The return slots.  Since the last publication or lost word, whatever    *)
(* the interrupt staged is of the slot published last, in its order.  The  *)
(* first return slot fed may have begun before that and ends with a word   *)
(* staged before it; the second holds one turn of the ring but for its     *)
(* first word; with the third, the words fed hold a whole slot.            *)
(***************************************************************************)

SlotWord == [pub : Nat, word : Nat]
FullSlot == {s \in Seq(SlotWord) : Len(s) = Words}

\* The n-th word from here, round and round
Turn(n) == IF n < Words THEN n ELSE IF n < 2 * Words THEN n - Words ELSE n - 2 * Words
Fresh(n) == [pub |-> shown, word |-> Turn(n)]

ReturnTypes ==
    /\ shown \in Nat /\ idx \in 0 .. Words - 1 /\ staged \in SlotWord /\ quiet \in Nat
    /\ kind \in {"none", "poll", "report", "other"} /\ (kind = "none" => rx = <<>>)
    /\ rx \in Seq(SlotWord) /\ Len(rx) <= Words
    /\ left \in [{"poll", "report"} -> FullSlot]
    /\ heard \in Seq(SlotWord) /\ Len(heard) <= Words /\ decoded \in Seq(Nat)

\* The exchange begins with word b of the slot.
BeginsAt(b) ==
    /\ idx = Turn(b + Len(rx) + 1)
    /\ Len(rx) > 0 \/ quiet >= 2 => staged = Fresh(b + Len(rx))
    /\ \A i \in 1 .. Len(rx) : i >= 2 \/ quiet >= 2 => rx[i] = Fresh(b + i - 1)
    /\ quiet >= 2 =>
         Len(heard) = Words /\ \A i \in 2 .. Words : heard[i] = Fresh(b + i - 1)

ReturnInv ==
    /\ ReturnTypes
    /\ quiet >= 1 /\ shown > 0 => \E b \in 0 .. Words - 1 : BeginsAt(b)
    /\ ThreeReturnsSuffice

LEMMA TurnProperties ==
    /\ \A n \in 0 .. Words - 1 : Turn(n) = n
    /\ \A n \in 0 .. 3 * Words - 1 : Turn(n) \in 0 .. Words - 1
    /\ \A n \in 0 .. 2 * Words - 1 : Turn(n + Words) = Turn(n)
    /\ \A n \in 0 .. 3 * Words - 2 : Return!NextWord(Turn(n)) = Turn(n + 1)
<1>1. Words \in Nat \ {0}
  BY SlotAssumption
<1>2. \A n \in 0 .. Words - 1 : Turn(n) = n
  BY <1>1 DEF Turn
<1>3. \A n \in 0 .. 3 * Words - 1 : Turn(n) \in 0 .. Words - 1
  BY <1>1 DEF Turn
<1>4. \A n \in 0 .. 2 * Words - 1 : Turn(n + Words) = Turn(n)
  BY <1>1 DEF Turn
<1>5. \A k \in 0 .. Words - 1 : (k + 1) % Words = IF k + 1 = Words THEN 0 ELSE k + 1
  <2>1. Words % Words = 0
    BY <1>1
  <2>2. \A k \in Nat : k < Words => k % Words = k
    BY <1>1
  <2> QED BY <1>1, <2>1, <2>2
<1>6. \A n \in 0 .. 3 * Words - 2 :
         Turn(n + 1) = IF Turn(n) + 1 = Words THEN 0 ELSE Turn(n) + 1
  BY <1>1 DEF Turn
<1>7. \A n \in 0 .. 3 * Words - 2 : Return!NextWord(Turn(n)) = Turn(n + 1)
  <2> TAKE n \in 0 .. 3 * Words - 2
  <2>1. Turn(n) \in 0 .. Words - 1
    BY <1>1, <1>3
  <2> QED BY <1>5, <1>6, <2>1 DEF Return!NextWord
<1> QED BY <1>2, <1>3, <1>4, <1>7

LEMMA InitReturn == ASSUME Return!Init PROVE ReturnInv
<1>1. Return!Junk \in SlotWord /\ Return!JunkWords \in FullSlot
  BY SlotAssumption DEF Return!Junk, Return!JunkWords, SlotWord, FullSlot
<1>2. /\ shown = 0 /\ idx = 0 /\ staged = Return!Junk /\ kind = "none" /\ rx = <<>>
      /\ left = [k \in {"poll", "report"} |-> Return!JunkWords]
      /\ heard = <<>> /\ decoded = <<>> /\ quiet = 0
  BY DEF Return!Init
<1>3. <<>> \in Seq(SlotWord) /\ <<>> \in Seq(Nat) /\ Len(<<>>) = 0
  BY EmptySeq
<1>4. ReturnTypes
  BY <1>1, <1>2, <1>3, SlotAssumption DEF ReturnTypes
<1> QED BY <1>2, <1>4 DEF ReturnInv, ThreeReturnsSuffice, Return!ThreeReturnsSuffice

\* Publications, lost words and timeouts begin a new count.
LEMMA DisturbReturn ==
    ASSUME ReturnInv, Return!Publish \/ Return!MissWord \/ Return!Abort PROVE ReturnInv'
<1>1. ReturnTypes
  BY DEF ReturnInv
<1>2. quiet' = 0
  BY DEF Return!Publish, Return!MissWord, Return!Abort
<1>3. CASE Return!Publish
  BY <1>1, <1>2, <1>3 DEF ReturnInv, ReturnTypes, ThreeReturnsSuffice,
     Return!ThreeReturnsSuffice, Return!Publish, Return!exchange, Return!host
<1>4. CASE Return!MissWord
  <2>1. rx' \in Seq(SlotWord) /\ Len(rx') = Len(rx) + 1 /\ Len(rx) < Words
    BY <1>1, <1>4, AppendProperties DEF ReturnTypes, Return!MissWord, Return!Clocking
  <2>2. Len(rx') <= Words
    BY <1>1, <2>1, LenProperties, SlotAssumption DEF ReturnTypes
  <2>3. kind' # "none" /\ UNCHANGED <<shown, idx, staged, kind, left, heard, decoded>>
    BY <1>4 DEF Return!MissWord, Return!Clocking, Return!boardA, Return!host
  <2>4. ReturnTypes'
    BY <1>1, <1>2, <2>1, <2>2, <2>3 DEF ReturnTypes
  <2> QED BY <1>2, <2>4 DEF ReturnInv, ThreeReturnsSuffice, Return!ThreeReturnsSuffice
<1>5. CASE Return!Abort
  <2>1. Return!JunkWords \in FullSlot
    BY SlotAssumption DEF Return!Junk, Return!JunkWords, SlotWord, FullSlot
  <2>2. PICK old \in {Return!JunkWords} \cup (IF kind = "other" THEN {} ELSE {left[kind]}) :
           rx' = rx \o SubSeq(old, Len(rx) + 1, Words)
    BY <1>5 DEF Return!Abort
  <2>3. kind # "none" /\ Len(rx) < Words /\ Len(rx) \in Nat
    BY <1>1, <1>5, LenProperties DEF Return!Abort, Return!Clocking, ReturnTypes
  <2>4. old \in Seq(SlotWord) /\ Len(old) = Words
    <3>1. kind # "other" => kind \in {"poll", "report"}
      BY <1>1, <2>3 DEF ReturnTypes
    <3>2. kind # "other" => left[kind] \in FullSlot
      BY <1>1, <3>1 DEF ReturnTypes
    <3>3. old \in FullSlot
      BY <2>1, <2>2, <3>2
    <3> QED BY <3>3 DEF FullSlot
  <2> DEFINE more == SubSeq(old, Len(rx) + 1, Words)
  <2>5. more \in Seq(SlotWord) /\ Len(more) = Words - Len(rx)
    <3>1. Len(rx) + 1 \in Int /\ Words \in Int /\ Words - (Len(rx) + 1) + 1 = Words - Len(rx)
          /\ Len(rx) + 1 <= Words
      BY <2>3, SlotAssumption
    <3>2. \A i \in Len(rx) + 1 .. Words : old[i] \in SlotWord
      BY <2>3, <2>4, ElementOfSeq, SlotAssumption
    <3> QED BY <3>1, <3>2, SubSeqProperties DEF more
  <2> HIDE DEF more
  <2>6. rx' \in Seq(SlotWord) /\ Len(rx') = Len(rx) + Len(more)
    BY <1>1, <2>2, <2>5, ConcatProperties DEF ReturnTypes, more
  <2>7. Len(rx') <= Words
    BY <2>3, <2>5, <2>6, SlotAssumption
  <2>8. kind' # "none" /\ UNCHANGED <<shown, idx, staged, kind, left, heard, decoded>>
    BY <1>5 DEF Return!Abort, Return!Clocking, Return!boardA, Return!host
  <2>9. ReturnTypes'
    BY <1>1, <1>2, <2>6, <2>7, <2>8 DEF ReturnTypes
  <2> QED BY <1>2, <2>9 DEF ReturnInv, ThreeReturnsSuffice, Return!ThreeReturnsSuffice
<1> QED BY <1>3, <1>4, <1>5

LEMMA ClockReturn == ASSUME ReturnInv, Return!ClockWord PROVE ReturnInv'
<1>1. ReturnTypes /\ Words \in Nat \ {0} /\ Len(rx) \in Nat
  BY SlotAssumption, LenProperties DEF ReturnInv, ReturnTypes
<1>2. /\ rx' = Append(rx, staged) /\ Len(rx) < Words /\ kind # "none"
      /\ UNCHANGED <<shown, kind, left, heard, decoded, quiet>>
  BY DEF Return!ClockWord, Return!Clocking, Return!host
<1>3. /\ rx' \in Seq(SlotWord) /\ Len(rx') = Len(rx) + 1
      /\ (\A i \in 1 .. Len(rx) : rx'[i] = rx[i]) /\ rx'[Len(rx) + 1] = staged
  BY <1>1, <1>2, AppendProperties DEF ReturnTypes
<1>4. /\ shown > 0 => staged' = [pub |-> shown, word |-> idx] /\ idx' = Return!NextWord(idx)
      /\ ~(shown > 0) => UNCHANGED <<staged, idx>>
  BY DEF Return!ClockWord
<1>5. Return!NextWord(idx) \in 0 .. Words - 1
  <2>1. idx \in 0 .. Words - 1 /\ Turn(idx) = idx
    BY <1>1, TurnProperties DEF ReturnTypes
  <2>2. idx \in 0 .. 3 * Words - 2 /\ idx + 1 \in 0 .. 3 * Words - 1
    BY <1>1, <2>1
  <2>3. Return!NextWord(idx) = Turn(idx + 1)
    BY <2>1, <2>2, TurnProperties
  <2> QED BY <2>2, <2>3, TurnProperties
<1>6. ReturnTypes'
  <2>1. staged' \in SlotWord /\ idx' \in 0 .. Words - 1
    BY <1>1, <1>4, <1>5 DEF ReturnTypes, SlotWord
  <2>2. Len(rx') <= Words
    BY <1>1, <1>2, <1>3
  <2> QED BY <1>1, <1>2, <1>3, <2>1, <2>2 DEF ReturnTypes
<1>7. ASSUME quiet >= 1, shown > 0 PROVE \E b \in 0 .. Words - 1 : BeginsAt(b)'
  <2>1. PICK b \in 0 .. Words - 1 : BeginsAt(b)
    BY <1>7 DEF ReturnInv
  <2>2. idx' = Turn(b + Len(rx') + 1)
    <3>1. b + Len(rx) + 1 \in 0 .. 3 * Words - 2 /\ b + Len(rx') + 1 = (b + Len(rx) + 1) + 1
      BY <1>1, <1>2, <1>3
    <3>2. idx = Turn(b + Len(rx) + 1) /\ idx' = Return!NextWord(idx)
      BY <1>4, <1>7, <2>1 DEF BeginsAt
    <3> QED BY <3>1, <3>2, TurnProperties
  <2>3. staged' = [pub |-> shown', word |-> Turn(b + Len(rx'))]
    <3>1. b + Len(rx') = b + Len(rx) + 1
      BY <1>1, <1>3
    <3> QED BY <1>2, <1>4, <1>7, <2>1, <3>1 DEF BeginsAt
  <2>4. ASSUME NEW i \in 1 .. Len(rx'), i >= 2 \/ quiet >= 2
        PROVE  rx'[i] = [pub |-> shown', word |-> Turn(b + i - 1)]
    <3>1. CASE i <= Len(rx)
      <4>1. i \in 1 .. Len(rx)
        BY <1>1, <3>1
      <4> QED BY <1>2, <1>3, <2>1, <2>4, <4>1 DEF BeginsAt, Fresh
    <3>2. CASE ~(i <= Len(rx))
      <4>1. i = Len(rx) + 1 /\ b + i - 1 = b + Len(rx)
        BY <1>1, <1>3, <3>2
      <4>2. Len(rx) > 0 \/ quiet >= 2
        BY <1>1, <2>4, <4>1
      <4> QED BY <1>2, <1>3, <2>1, <4>1, <4>2 DEF BeginsAt, Fresh
    <3> QED BY <3>1, <3>2
  <2>5. quiet >= 2 => Len(heard') = Words /\ \A i \in 2 .. Words :
                        heard'[i] = [pub |-> shown', word |-> Turn(b + i - 1)]
    BY <1>2, <2>1 DEF BeginsAt, Fresh
  <2>6. BeginsAt(b)'
    BY <1>2, <2>2, <2>3, <2>4, <2>5 DEF BeginsAt, Fresh
  <2> QED BY <2>6
<1>8. ThreeReturnsSuffice'
  BY <1>2 DEF ReturnInv, ThreeReturnsSuffice, Return!ThreeReturnsSuffice
<1> QED BY <1>2, <1>6, <1>7, <1>8 DEF ReturnInv

LEMMA BeginReturn ==
    ASSUME ReturnInv, Return!Poll \/ Return!OtherExchange PROVE ReturnInv'
<1>1. /\ kind' \in {"poll", "report", "other"}
      /\ UNCHANGED <<shown, idx, staged, rx, left, heard, decoded, quiet>>
  BY DEF Return!Poll, Return!OtherExchange, Return!boardA, Return!host
<1>2. ReturnTypes'
  BY <1>1 DEF ReturnInv, ReturnTypes
<1>3. \A b : BeginsAt(b)' <=> BeginsAt(b)
  BY <1>1 DEF BeginsAt, Fresh
<1>4. (\E b \in 0 .. Words - 1 : BeginsAt(b)) => \E b \in 0 .. Words - 1 : BeginsAt(b)'
  BY <1>3
<1> QED BY <1>1, <1>2, <1>4 DEF ReturnInv, ThreeReturnsSuffice, Return!ThreeReturnsSuffice

\* The scanner has been fed the end of what it heard and of the new words.
LEMMA FedWords ==
    ASSUME ReturnTypes, Len(rx) = Words, NEW k \in 1 .. Words
    PROVE  /\ Return!Fed(k) \in Seq(SlotWord) /\ Len(Return!Fed(k)) <= Words
           /\ Len(heard) = Words =>
                /\ Len(Return!Fed(k)) = Words
                /\ \A j \in 1 .. Words : Return!Fed(k)[j] =
                     IF k + j <= Words THEN heard[k + j] ELSE rx[k + j - Words]
           /\ k = Words => Return!Fed(k) = rx
<1> DEFINE head == SubSeq(rx, 1, k)
           all == heard \o head
           fed1 == SubSeq(all, Len(all) - Words + 1, Len(all))
<1>1. Words \in Nat \ {0} /\ rx \in Seq(SlotWord) /\ heard \in Seq(SlotWord)
      /\ Len(heard) \in Nat /\ Len(heard) <= Words
  BY SlotAssumption, LenProperties DEF ReturnTypes
<1>2. head \in Seq(SlotWord) /\ Len(head) = k /\ \A i \in 1 .. k : head[i] = rx[i]
  <2>1. 1 \in Int /\ k \in Int /\ 1 <= k /\ k - 1 + 1 = k
        /\ \A i \in 1 .. k : 1 + i - 1 = i
    BY <1>1
  <2>2. \A i \in 1 .. k : rx[i] \in SlotWord
    BY <1>1, ElementOfSeq
  <2> QED BY <2>1, <2>2, SubSeqProperties
<1> HIDE DEF head
<1>3. /\ all \in Seq(SlotWord) /\ Len(all) = Len(heard) + k
      /\ \A i \in 1 .. Len(heard) + k :
            all[i] = IF i <= Len(heard) THEN heard[i] ELSE head[i - Len(heard)]
  BY <1>1, <1>2, ConcatProperties
<1>4. Return!Fed(k) = IF Len(all) <= Words THEN all ELSE fed1
  BY DEF Return!Fed, head
<1> HIDE DEF all
<1>5. CASE Len(all) <= Words
  <2>1. Len(heard) # Words
    BY <1>1, <1>3, <1>5
  <2>2. k = Words => Len(heard) = 0
    BY <1>1, <1>3, <1>5
  <2>3. ASSUME k = Words PROVE Return!Fed(k) = rx
    <3>1. Len(all) = Words /\ \A i \in 1 .. Words : all[i] = rx[i]
      <4>1. \A i \in 1 .. Words : ~(i <= Len(heard)) /\ i - Len(heard) = i
        BY <1>1, <2>2, <2>3
      <4>2. Len(heard) + k = Words
        BY <1>1, <2>2, <2>3
      <4> QED BY <1>2, <1>3, <2>3, <4>1, <4>2
    <3>2. all = rx
      BY <1>1, <1>3, <3>1, SeqEqual
    <3> QED BY <1>4, <1>5, <3>2
  <2> QED BY <1>3, <1>4, <1>5, <2>1, <2>3
<1>6. CASE ~(Len(all) <= Words)
  <2>1. Len(all) - Words + 1 \in Nat /\ Len(all) \in Nat
        /\ Len(all) - (Len(all) - Words + 1) + 1 = Words /\ Len(all) - Words + 1 <= Len(all)
        /\ Len(all) - Words >= 1
    BY <1>1, <1>3, <1>6
  <2>2. \A i \in Len(all) - Words + 1 .. Len(all) : all[i] \in SlotWord
    <3> TAKE i \in Len(all) - Words + 1 .. Len(all)
    <3>1. i \in 1 .. Len(all)
      BY <2>1, SlotAssumption
    <3> QED BY <1>3, <3>1, ElementOfSeq
  <2>3. /\ fed1 \in Seq(SlotWord) /\ Len(fed1) = Words
        /\ \A i \in 1 .. Words : fed1[i] = all[(Len(all) - Words + 1) + i - 1]
    <3>1. /\ Len(all) - Words + 1 \in Int /\ Len(all) \in Int
      BY <2>1
    <3> QED BY <2>1, <2>2, <3>1, SubSeqProperties
  <2> HIDE DEF fed1
  <2>4. Return!Fed(k) = fed1
    BY <1>4, <1>6
  <2>5. ASSUME Len(heard) = Words, NEW j \in 1 .. Words
        PROVE  fed1[j] = IF k + j <= Words THEN heard[k + j] ELSE rx[k + j - Words]
    <3>1. (Len(all) - Words + 1) + j - 1 = k + j /\ k + j \in 1 .. Len(heard) + k
      BY <1>1, <1>3, <2>5
    <3>2. fed1[j] = all[k + j]
      BY <2>3, <3>1
    <3>3. all[k + j] = IF k + j <= Words THEN heard[k + j] ELSE head[k + j - Words]
      BY <1>3, <2>5, <3>1
    <3>4. ~(k + j <= Words) => k + j - Words \in 1 .. k
      BY <1>1
    <3> QED BY <1>2, <3>2, <3>3, <3>4
  <2>6. ASSUME k = Words PROVE fed1 = rx
    <3>1. \A i \in 1 .. Words : fed1[i] = rx[i]
      <4> TAKE i \in 1 .. Words
      <4>1. /\ (Len(all) - Words + 1) + i - 1 = Len(heard) + i
            /\ Len(heard) + i \in 1 .. Len(heard) + k
            /\ ~(Len(heard) + i <= Len(heard)) /\ Len(heard) + i - Len(heard) = i
        BY <1>1, <1>3, <2>6
      <4>2. fed1[i] = all[Len(heard) + i]
        BY <2>3, <4>1
      <4>3. all[Len(heard) + i] = head[i]
        BY <1>3, <4>1
      <4> QED BY <1>2, <2>6, <4>2, <4>3
    <3> QED BY <1>1, <2>3, <3>1, SeqEqual
  <2> QED BY <1>1, <2>3, <2>4, <2>5, <2>6
<1> QED BY <1>5, <1>6

\* With the third return slot the scanner has been fed a whole slot, the current one.
LEMMA SlotIsFound ==
    ASSUME ReturnTypes, Len(rx) = Words, quiet >= 2, shown > 0,
           NEW b \in 0 .. Words - 1, BeginsAt(b)
    PROVE  /\ Return!Found # {}
           /\ Return!Fed(CHOOSE i \in Return!Found : TRUE)[1].pub = shown
<1>1. Words \in Nat \ {0} /\ Len(heard) = Words
  BY SlotAssumption DEF BeginsAt
<1>2. ASSUME NEW k \in 1 .. Words, NEW j \in 1 .. Words
      PROVE  Return!Fed(k)[j] = Fresh(b + k + j - 1)
  <2>1. Return!Fed(k)[j] = IF k + j <= Words THEN heard[k + j] ELSE rx[k + j - Words]
    BY <1>1, FedWords
  <2>2. CASE k + j <= Words
    <3>1. k + j \in 2 .. Words /\ b + (k + j) - 1 = b + k + j - 1
      BY <1>1, <2>2
    <3>2. heard[k + j] = Fresh(b + (k + j) - 1)
      BY <3>1 DEF BeginsAt
    <3> QED BY <2>1, <2>2, <3>1, <3>2
  <2>3. CASE ~(k + j <= Words)
    <3> DEFINE i == k + j - Words
    <3>1. /\ i \in 1 .. Len(rx) /\ b + i - 1 \in 0 .. 2 * Words - 1
          /\ (b + i - 1) + Words = b + k + j - 1
      BY <1>1, <2>3
    <3>2. rx[i] = Fresh(b + i - 1)
      BY <3>1 DEF BeginsAt
    <3>3. Turn(b + k + j - 1) = Turn(b + i - 1)
      BY <3>1, TurnProperties
    <3> QED BY <2>1, <2>3, <3>2, <3>3 DEF Fresh
  <2> QED BY <2>2, <2>3
<1>3. Words - b \in 1 .. Words
  BY <1>1
<1>4. Return!IsSlot(Return!Fed(Words - b))
  <2> DEFINE k == Words - b
  <2>1. ASSUME NEW j \in 1 .. Words
        PROVE  Return!Fed(k)[j] = [pub |-> shown, word |-> j - 1]
    <3>1. b + k + j - 1 = (j - 1) + Words /\ j - 1 \in 0 .. Words - 1
          /\ j - 1 \in 0 .. 2 * Words - 1
      BY <1>1
    <3>2. Turn(b + k + j - 1) = j - 1
      BY <3>1, TurnProperties
    <3> QED BY <1>2, <1>3, <3>2 DEF Fresh
  <2>2. Len(Return!Fed(k)) = Words
    BY <1>1, <1>3, FedWords
  <2>3. 1 \in 1 .. Words
    BY <1>1
  <2> HIDE DEF k
  <2>4. Return!Fed(k)[1].pub = shown
    <3>1. Return!Fed(k)[1] = [pub |-> shown, word |-> 1 - 1]
      BY <2>1, <2>3
    <3>2. [pub |-> shown, word |-> 1 - 1].pub = shown
      OBVIOUS
    <3> QED BY <3>1, <3>2
  <2>5. Return!IsSlot(Return!Fed(k))
    BY <2>1, <2>2, <2>4 DEF Return!IsSlot
  <2> QED BY <2>5 DEF k
<1>5. Words - b \in Return!Found
  BY <1>3, <1>4 DEF Return!Found
<1>6. (CHOOSE i \in Return!Found : TRUE) \in Return!Found
  BY <1>5
<1>7. ASSUME NEW k \in Return!Found PROVE Return!Fed(k)[1].pub = shown
  <2>1. k \in 1 .. Words /\ 1 \in 1 .. Words
    BY <1>1, <1>7 DEF Return!Found
  <2>2. Return!Fed(k)[1] = Fresh(b + k + 1 - 1)
    BY <1>2, <2>1
  <2>3. Fresh(b + k + 1 - 1).pub = shown
    BY DEF Fresh
  <2> QED BY <2>2, <2>3
<1> QED BY <1>5, <1>6, <1>7

LEMMA EndReturn == ASSUME ReturnInv, Return!EndExchange PROVE ReturnInv'
<1>1. ReturnTypes /\ Words \in Nat \ {0}
  BY SlotAssumption DEF ReturnInv
<1>2. /\ kind # "none" /\ Len(rx) = Words /\ kind' = "none" /\ rx' = <<>>
      /\ UNCHANGED <<shown, idx, staged>>
  BY DEF Return!EndExchange, Return!boardA
<1>3. <<>> \in Seq(SlotWord) /\ Len(<<>>) = 0
  BY EmptySeq
\* The next exchange goes on where this one ends, a turn of the ring later.
<1>4. ASSUME NEW b \in 0 .. Words - 1, BeginsAt(b)
      PROVE  idx' = Turn(b + Len(rx') + 1) /\ staged' = [pub |-> shown', word |-> Turn(b)]
  <2>1. /\ b \in 0 .. 2 * Words - 1 /\ b + 1 \in 0 .. 2 * Words - 1
        /\ b + Words + 1 = (b + 1) + Words /\ b + Len(rx') + 1 = b + 1
        /\ Len(rx) > 0
    BY <1>1, <1>2, <1>3
  <2>2. Turn(b + Words + 1) = Turn(b + 1) /\ Turn(b + Words) = Turn(b)
    BY <2>1, TurnProperties
  <2> QED BY <1>2, <1>4, <2>1, <2>2 DEF BeginsAt, Fresh
<1>5. CASE kind = "other"
  <2>1. UNCHANGED <<left, heard, decoded, quiet>>
    BY <1>5 DEF Return!EndExchange, Return!host
  <2>2. ReturnTypes'
    BY <1>1, <1>2, <1>3, <2>1 DEF ReturnTypes
  <2>3. ASSUME quiet >= 1, shown > 0 PROVE \E b \in 0 .. Words - 1 : BeginsAt(b)'
    <3>1. PICK b \in 0 .. Words - 1 : BeginsAt(b)
      BY <2>3 DEF ReturnInv
    <3>2. b + Len(rx') = b
      BY <1>2, <1>3
    <3>3. quiet >= 2 => Len(heard') = Words /\ \A i \in 2 .. Words :
                          heard'[i] = [pub |-> shown', word |-> Turn(b + i - 1)]
      BY <1>2, <2>1, <3>1 DEF BeginsAt, Fresh
    <3>4. 1 .. Len(rx') = {}
      BY <1>2, <1>3
    <3>5. BeginsAt(b)'
      BY <1>4, <3>1, <3>2, <3>3, <3>4, <2>1 DEF BeginsAt, Fresh
    <3> QED BY <3>5
  <2>4. ThreeReturnsSuffice'
    BY <1>2, <2>1 DEF ReturnInv, ThreeReturnsSuffice, Return!ThreeReturnsSuffice
  <2> QED BY <1>2, <2>1, <2>2, <2>3, <2>4 DEF ReturnInv
<1>6. CASE kind # "other"
  <2>1. /\ left' = [left EXCEPT ![kind] = rx] /\ heard' = Return!Fed(Words)
        /\ quiet' = quiet + 1
        /\ decoded' = IF Return!Found = {} THEN decoded
                      ELSE Append(decoded, Return!Fed(CHOOSE i \in Return!Found : TRUE)[1].pub)
    BY <1>6 DEF Return!EndExchange
  <2>2. Words \in 1 .. Words
    BY <1>1
  <2>3. heard' = rx
    BY <1>1, <1>2, <2>1, <2>2, FedWords
  <2>4. ASSUME Return!Found # {}
        PROVE  Return!Fed(CHOOSE i \in Return!Found : TRUE)[1].pub \in Nat
    <3> DEFINE k == CHOOSE i \in Return!Found : TRUE
    <3>1. k \in Return!Found
      BY <2>4
    <3>2. k \in 1 .. Words /\ Return!IsSlot(Return!Fed(k))
      BY <3>1 DEF Return!Found
    <3> HIDE DEF k
    <3>3. Return!Fed(k) \in Seq(SlotWord)
      BY <1>1, <1>2, <3>2, FedWords
    <3>4. Len(Return!Fed(k)) = Words
      BY <3>2 DEF Return!IsSlot
    <3>5. 1 \in 1 .. Len(Return!Fed(k))
      BY <1>1, <3>4
    <3>6. Return!Fed(k)[1] \in SlotWord
      BY <3>3, <3>5, ElementOfSeq
    <3>7. Return!Fed(k)[1].pub \in Nat
      BY <3>6 DEF SlotWord
    <3> QED BY <3>7 DEF k
  <2>5. decoded' \in Seq(Nat)
    BY <1>1, <2>1, <2>4, AppendProperties DEF ReturnTypes
  <2>6. kind \in {"poll", "report"} /\ rx \in FullSlot
    BY <1>1, <1>2, <1>6 DEF ReturnTypes, FullSlot
  <2>7. ReturnTypes'
    <3>1. left' \in [{"poll", "report"} -> FullSlot]
      BY <1>1, <2>1, <2>6 DEF ReturnTypes
    <3>2. heard' \in Seq(SlotWord) /\ Len(heard') <= Words
      BY <1>1, <1>2, <2>3 DEF ReturnTypes
    <3> QED BY <1>1, <1>2, <1>3, <2>1, <2>5, <3>1, <3>2 DEF ReturnTypes
  <2>8. CASE quiet = 0
    <3>1. PICK b \in 0 .. Words - 1 : idx = Turn(b + 1)
      <4>1. idx \in 0 .. Words - 1
        BY <1>1 DEF ReturnTypes
      <4>2. CASE idx = 0
        <5>1. Words - 1 \in 0 .. Words - 1 /\ (Words - 1) + 1 = Words /\ Turn(Words) = 0
          BY <1>1 DEF Turn
        <5> QED BY <4>2, <5>1
      <4>3. CASE idx # 0
        <5>1. idx - 1 \in 0 .. Words - 1 /\ (idx - 1) + 1 = idx
          BY <1>1, <4>1, <4>3
        <5> QED BY <4>1, <5>1, TurnProperties
      <4> QED BY <4>2, <4>3
    <3>2. quiet' = 1 /\ ~(quiet' >= 2) /\ ~(quiet' >= 3)
      BY <2>1, <2>8
    <3>3. 1 .. Len(rx') = {} /\ ~(Len(rx') > 0) /\ b + Len(rx') + 1 = b + 1
      BY <1>2, <1>3
    <3>4. BeginsAt(b)'
      BY <1>2, <3>1, <3>2, <3>3 DEF BeginsAt
    <3> QED
      BY <2>7, <3>2, <3>4
      DEF ReturnInv, ThreeReturnsSuffice, Return!ThreeReturnsSuffice
  <2>9. CASE quiet # 0
    <3>1. quiet \in Nat /\ quiet >= 1 /\ quiet' >= 2
      BY <1>1, <2>1, <2>9 DEF ReturnTypes
    <3>2. ASSUME shown > 0 PROVE \E b \in 0 .. Words - 1 : BeginsAt(b)'
      <4>1. PICK b \in 0 .. Words - 1 : BeginsAt(b)
        BY <3>1, <3>2 DEF ReturnInv
      <4>2. b + Len(rx') = b /\ 1 .. Len(rx') = {}
        BY <1>2, <1>3
      <4>3. Len(heard') = Words /\ \A i \in 2 .. Words :
               heard'[i] = [pub |-> shown', word |-> Turn(b + i - 1)]
        <5>1. \A i \in 2 .. Words : i \in 1 .. Len(rx) /\ i >= 2
          BY <1>1, <1>2
        <5> QED BY <1>2, <2>3, <4>1, <5>1 DEF BeginsAt, Fresh
      <4>4. BeginsAt(b)'
        BY <1>4, <4>1, <4>2, <4>3 DEF BeginsAt, Fresh
      <4> QED BY <4>4
    <3>3. ThreeReturnsSuffice'
      <4>1. SUFFICES ASSUME quiet' >= 3, shown > 0
                     PROVE  decoded' # <<>> /\ decoded'[Len(decoded')] = shown
        BY <1>2 DEF ThreeReturnsSuffice, Return!ThreeReturnsSuffice
      <4>2. quiet >= 2
        BY <2>1, <3>1, <4>1
      <4>3. PICK b \in 0 .. Words - 1 : BeginsAt(b)
        BY <3>1, <4>1 DEF ReturnInv
      <4>4. decoded' = Append(decoded, shown)
        BY <1>1, <1>2, <2>1, <4>1, <4>2, <4>3, SlotIsFound
      <4> QED BY <1>1, <4>4, AppendProperties DEF ReturnTypes
    <3> QED BY <1>2, <2>7, <3>2, <3>3 DEF ReturnInv
  <2>10. quiet = 0 \/ quiet # 0
    OBVIOUS
  <2> QED BY <2>8, <2>9, <2>10
<1> QED BY <1>5, <1>6

LEMMA QuietReturn == ASSUME ReturnInv, UNCHANGED returnvars PROVE ReturnInv'
<1>1. ReturnTypes' /\ ThreeReturnsSuffice'
  BY DEF ReturnInv, returnvars, ReturnTypes, ThreeReturnsSuffice, Return!ThreeReturnsSuffice
<1>2. \A b : BeginsAt(b)' <=> BeginsAt(b)
  BY DEF returnvars, BeginsAt, Fresh
<1>3. (\E b \in 0 .. Words - 1 : BeginsAt(b)) => \E b \in 0 .. Words - 1 : BeginsAt(b)'
  BY <1>2
<1> QED BY <1>1, <1>3 DEF ReturnInv, returnvars

LEMMA StepReturn ==
    ASSUME ReturnInv, [MCNext]_<<vars, returnvars, usbvars, part>>
    PROVE  ReturnInv'
<1>1. CASE Return!Next
  BY <1>1, DisturbReturn, ClockReturn, BeginReturn, EndReturn DEF Return!Next
<1>2. CASE UNCHANGED returnvars
  BY <1>2, QuietReturn
<1> QED BY <1>1, <1>2 DEF MCNext, Usb, Spi

\* Board B's display shows what Board A published last once three return slots have been
\* fed to the scanner without a publication, a lost word or a timeout, for every number of
\* words in a slot, wherever the exchanges cut it and however many return slots in between
\* are dropped (spi_link.c:409-502, two_board.c:125-141, 721-737).
THEOREM DisplayCatchesUp == MCSpec => []ThreeReturnsSuffice
<1>1. MCInit => ReturnInv
  BY InitReturn DEF MCInit
<1>2. ReturnInv => ThreeReturnsSuffice
  BY DEF ReturnInv
<1> QED BY <1>1, <1>2, StepReturn, PTL DEF MCSpec

-----------------------------------------------------------------------------
(***************************************************************************)
(* Types.  The invariants above hold most of them.  What remains are the   *)
(* limits: a repeat is counted below the limit while its transaction is    *)
(* on, the master stands before a whole word, a window that waits begins   *)
(* with a SOF, and a transfer never reads beyond what it asked for.        *)
(***************************************************************************)

MCStep == [MCNext]_<<vars, returnvars, usbvars, part>>

\* The device: its types need no other fact, flags and values.
DeviceFlags ==
    /\ configured \in BOOLEAN /\ mapped \in BOOLEAN
    /\ outPend \in BOOLEAN /\ capturing \in BOOLEAN /\ pending \in BOOLEAN
    /\ fresh \in BOOLEAN /\ skewed \in BOOLEAN /\ cut \in BOOLEAN
    /\ exposed \in BOOLEAN

DeviceValues ==
    /\ inResp \in {"NAK", "ACK", "STALL"} /\ outResp \in {"NAK", "ACK", "STALL"}
    /\ inTog \in 0 .. 1 /\ pcTog \in 0 .. 1 /\ ctrl \in 0 .. 1
    /\ packets \in 0 .. MaxPackets /\ writes \in 0 .. MaxPackets
    /\ outBuf \in 0 .. packets /\ outTaken \in 0 .. packets
    /\ reqLeft \in 0 .. Parts /\ value \in 0 .. writes
    /\ captured \in Seq(Device!Piece)
    /\ at \in {"loop", "copied", "arm", "reopen", "out", "forward", "done"}
    /\ report \in [value : Nat, len : Nat, read : Seq(Device!Piece)]
    /\ handed \in Nat /\ flushed \in Nat

LEMMA DeviceTypes == Device!TypeOK <=> DeviceFlags /\ DeviceValues
BY DEF Device!TypeOK, DeviceFlags, DeviceValues

LEMMA FsFlags == ASSUME DeviceFlags, Device!Next PROVE DeviceFlags'
<1> USE DEF Device!device, Device!inEp, Device!outEp, Device!ep0, Device!relay,
        Device!history, Device!Forwarding, Device!Flip, Device!AfterOut,
        Device!MayCapture, Device!NoData, Device!ArmingOne, Device!Reopening
<1>0. ASSUME NEW on \in BOOLEAN, Device!SetConfiguration(on) PROVE DeviceFlags'
  BY <1>0, Zenon DEF Device!SetConfiguration, DeviceFlags
<1>1. CASE Device!BusReset
  BY <1>1, Zenon DEF Device!BusReset, DeviceFlags
<1>2. CASE Device!HaltIn
  BY <1>2, Zenon DEF Device!HaltIn, DeviceFlags
<1>3. CASE Device!HaltOut
  BY <1>3, Zenon DEF Device!HaltOut, DeviceFlags
<1>4. CASE Device!ClearHaltIn
  BY <1>4, Zenon DEF Device!ClearHaltIn, DeviceFlags
<1>5. CASE Device!ClearHaltOut
  BY <1>5, Zenon DEF Device!ClearHaltOut, DeviceFlags
<1>6. CASE Device!TakeReport
  BY <1>6, Zenon DEF Device!TakeReport, DeviceFlags
<1>7. CASE Device!OutPacket
  BY <1>7, Zenon DEF Device!OutPacket, DeviceFlags
<1>8. CASE Device!SetReport
  BY <1>8, Zenon DEF Device!SetReport, DeviceFlags
<1>9. CASE Device!ReportData
  BY <1>9, Zenon DEF Device!ReportData, DeviceFlags
<1>10. CASE Device!SendReport
  BY <1>10, Zenon DEF Device!SendReport, DeviceFlags
<1>11. CASE Device!ReadControl
  BY <1>11, Zenon DEF Device!ReadControl, DeviceFlags
<1>12. CASE Device!WriteControl
  BY <1>12, Zenon DEF Device!WriteControl, DeviceFlags
<1>13. CASE Device!PollOut
  BY <1>13, Zenon DEF Device!PollOut, DeviceFlags
<1>18. CASE Device!ReopenOut
  BY <1>18, Zenon DEF Device!ReopenOut, DeviceFlags
<1>14. CASE Device!ForwardOut
  BY <1>14, Zenon DEF Device!ForwardOut, DeviceFlags
<1>15. CASE Device!PollReport
  BY <1>15, Zenon DEF Device!PollReport, DeviceFlags
<1>16. CASE Device!ForwardPart
  BY <1>16, Zenon DEF Device!ForwardPart, DeviceFlags
<1>17. CASE Device!ReportDone
  BY <1>17, Zenon DEF Device!ReportDone, DeviceFlags
<1> QED
  BY <1>0, <1>1, <1>2, <1>3, <1>4, <1>5, <1>6, <1>7, <1>8, <1>9, <1>10, <1>11, <1>12, <1>13,
     <1>14, <1>15, <1>16, <1>17, <1>18
  DEF Device!Next, Device!Handler, Device!Relay

LEMMA FsValues == ASSUME DeviceValues, Device!Next PROVE DeviceValues'
<1> USE DEF Device!device, Device!inEp, Device!outEp, Device!ep0, Device!relay,
        Device!history, Device!Forwarding, Device!Flip, Device!AfterOut,
        Device!MayCapture, Device!NoData
<1>1. CASE Device!BusReset
  <2>1. /\ inResp' = "NAK" /\ inTog' = 0 /\ outResp' = "ACK" /\ captured' = <<>>
        /\ reqLeft' = 0 /\ pcTog' = 0 /\ flushed' \in {flushed, flushed + 1}
        /\ UNCHANGED <<outBuf, value, packets, writes, at, ctrl, outTaken, report, handed>>
    BY <1>1, Zenon DEF Device!BusReset
  <2> QED BY <2>1, ReportAssumption, EmptySeq DEF DeviceValues
<1>0. ASSUME inResp' \in {"NAK", "ACK", "STALL"}, outResp' \in {"NAK", "ACK", "STALL"},
              inTog' \in 0 .. 1, pcTog' \in 0 .. 1, reqLeft' = 0,
              UNCHANGED <<captured, value, outBuf, packets, writes, at, ctrl, outTaken,
                          report, handed, flushed>>
       PROVE  DeviceValues'
  BY <1>0, ReportAssumption DEF DeviceValues
<1>2. ASSUME NEW on \in BOOLEAN, Device!SetConfiguration(on) PROVE DeviceValues'
  <2>1. /\ UNCHANGED <<inResp, outResp, inTog>> /\ pcTog' = 0 /\ reqLeft' = 0
        /\ UNCHANGED <<captured, value, outBuf, packets, writes, at, ctrl, outTaken, report,
                       handed, flushed>>
    BY <1>2, Zenon DEF Device!SetConfiguration
  <2> QED BY <1>0, <2>1 DEF DeviceValues
<1>3. CASE Device!HaltIn \/ Device!HaltOut
  <2>1. /\ inResp' \in {inResp, "STALL"} /\ outResp' \in {outResp, "STALL"}
        /\ UNCHANGED <<inTog, pcTog>>
    BY <1>3, Zenon DEF Device!HaltIn, Device!HaltOut
  <2>2. /\ reqLeft' = 0
        /\ UNCHANGED <<captured, value, outBuf, packets, writes, at, ctrl, outTaken, report,
                       handed, flushed>>
    BY <1>3, Zenon DEF Device!HaltIn, Device!HaltOut
  <2> QED BY <1>0, <2>1, <2>2 DEF DeviceValues
<1>4. CASE Device!ClearHaltIn \/ Device!ClearHaltOut
  <2>1. /\ inResp' \in {inResp, "NAK"} /\ outResp' \in {outResp, "ACK"}
        /\ inTog' \in {inTog, 0} /\ pcTog' \in {pcTog, 0}
    BY <1>4, Zenon DEF Device!ClearHaltIn, Device!ClearHaltOut
  <2>2. /\ reqLeft' = 0
        /\ UNCHANGED <<captured, value, outBuf, packets, writes, at, ctrl, outTaken, report,
                       handed, flushed>>
    BY <1>4, Zenon DEF Device!ClearHaltIn, Device!ClearHaltOut
  <2> QED BY <1>0, <2>1, <2>2 DEF DeviceValues
<1>5. CASE Device!TakeReport
  BY <1>5 DEF Device!TakeReport, DeviceValues
<1>6. CASE Device!OutPacket
  <2>1. /\ packets < MaxPackets /\ packets' = packets + 1 /\ outBuf' = packets + 1
        /\ outResp' = "NAK" /\ flushed' \in {flushed, flushed + 1}
    BY <1>6, Zenon DEF Device!OutPacket
  <2>2. UNCHANGED <<inResp, inTog, reqLeft, captured, value, pcTog, writes, at, ctrl, outTaken,
                    report, handed>>
    BY <1>6, Zenon DEF Device!OutPacket
  <2>3. /\ packets' \in 0 .. MaxPackets /\ outBuf' \in 0 .. packets'
        /\ outTaken' \in 0 .. packets' /\ flushed' \in Nat
    BY <2>1, <2>2, BoundsAssumption, SMTT(20) DEF DeviceValues
  <2> QED BY <2>1, <2>2, <2>3 DEF DeviceValues
<1>7. CASE Device!SetReport
  <2>1. /\ writes < MaxPackets /\ writes' = writes + 1 /\ reqLeft' = Parts
        /\ UNCHANGED <<inResp, inTog, outResp, outBuf, pcTog, packets, at, ctrl, outTaken,
                       report, handed, flushed>>
    BY <1>7, Zenon DEF Device!SetReport
  <2>2. captured' \in {captured, <<>>} /\ value' \in {value, writes + 1}
    BY <1>7, Zenon DEF Device!SetReport
  <2>3. captured' \in Seq(Device!Piece)
    BY <2>2, EmptySeq DEF DeviceValues
  <2> QED BY <2>1, <2>2, <2>3, BoundsAssumption, ReportAssumption, SMTT(20)
      DEF DeviceValues
<1>8. CASE Device!ReportData
  <2>1. <<writes, Parts - reqLeft + 1>> \in Device!Piece /\ reqLeft - 1 \in 0 .. Parts
    BY <1>8, ReportAssumption DEF Device!ReportData, DeviceValues, Device!Piece
  <2>2. captured' \in Seq(Device!Piece)
    BY <1>8, <2>1, AppendProperties DEF Device!ReportData, DeviceValues
  <2>3. reqLeft' = reqLeft - 1
        /\ UNCHANGED <<inResp, inTog, outResp, outBuf, value, pcTog, packets, writes, at, ctrl,
                       outTaken, report, handed, flushed>>
    BY <1>8, Zenon DEF Device!ReportData
  <2>4. reqLeft' \in 0 .. Parts
    BY <2>1, <2>3
  <2> QED BY <2>2, <2>3, <2>4 DEF DeviceValues
<1>9. CASE Device!SendReport \/ Device!ReadControl \/ Device!WriteControl
  BY <1>9 DEF Device!SendReport, Device!ReadControl, Device!WriteControl, DeviceValues
<1>10. CASE Device!PollOut \/ Device!ReopenOut \/ Device!ForwardOut
  <2>1. /\ outResp' \in {outResp, "ACK"} /\ outTaken' \in {outTaken, outBuf}
        /\ handed' \in {handed, handed + 1} /\ at' \in {"reopen", "out", "loop"}
        /\ UNCHANGED <<inResp, inTog, outBuf>>
    BY <1>10, Zenon DEF Device!PollOut, Device!ReopenOut, Device!ForwardOut
  <2>2. UNCHANGED <<reqLeft, captured, value, pcTog, packets, writes, ctrl, report, flushed>>
    BY <1>10, Zenon DEF Device!PollOut, Device!ReopenOut, Device!ForwardOut
  <2> QED BY <2>1, <2>2, SMTT(20) DEF DeviceValues
<1>11. CASE Device!PollReport
  <2>1. report' \in [value : Nat, len : Nat, read : Seq(Device!Piece)]
    BY <1>11, EmptySeq, LenProperties DEF Device!PollReport, DeviceValues
  <2> QED BY <1>11, <2>1 DEF Device!PollReport, DeviceValues
<1>12. CASE Device!ForwardPart
  <2> DEFINE n == Len(report.read) + 1
             piece == IF n <= Len(captured) THEN captured[n] ELSE <<0, n>>
  <2>1. /\ n \in Nat \ {0}
        /\ report.read \in Seq(Device!Piece) /\ captured \in Seq(Device!Piece)
    BY LenProperties DEF DeviceValues
  <2>2. piece \in Device!Piece
    <3>1. CASE n <= Len(captured)
      BY <2>1, <3>1, ElementOfSeq, LenProperties
    <3>2. CASE ~(n <= Len(captured))
      BY <2>1, <3>2 DEF Device!Piece
    <3> QED BY <3>1, <3>2
  <2> HIDE DEF piece
  <2>3. Append(report.read, piece) \in Seq(Device!Piece)
    BY <2>1, <2>2, AppendProperties
  <2>4. report' = [report EXCEPT !.read = Append(@, piece)]
    BY <1>12 DEF Device!ForwardPart, piece
  <2>5. report' \in [value : Nat, len : Nat, read : Seq(Device!Piece)]
    BY <2>3, <2>4 DEF DeviceValues
  <2> QED BY <1>12, <2>5 DEF Device!ForwardPart, DeviceValues
<1>13. CASE Device!ReportDone
  BY <1>13, EmptySeq DEF Device!ReportDone, DeviceValues
<1> QED
  BY <1>1, <1>2, <1>3, <1>4, <1>5, <1>6, <1>7, <1>8, <1>9, <1>10, <1>11, <1>12, <1>13
  DEF Device!Next, Device!Handler, Device!Relay

LEMMA FsDeviceTyped == ASSUME Device!TypeOK, Device!Next PROVE Device!TypeOK'
<1>1. DeviceFlags /\ DeviceValues
  BY DeviceTypes
<1>2. DeviceFlags' /\ DeviceValues'
  BY <1>1, FsFlags, FsValues
<1>3. Device!TypeOK' <=> DeviceFlags' /\ DeviceValues'
  BY DEF Device!TypeOK, DeviceFlags, DeviceValues
<1> QED BY <1>2, <1>3

LEMMA DeviceTyped == ASSUME Device!TypeOK, MCStep PROVE Device!TypeOK'
<1>0. DeviceFlags /\ DeviceValues
  BY DeviceTypes
<1>1. CASE Device!Next
  BY <1>1, FsDeviceTyped
<1>2. CASE Device!HsNext
  <2>1. CASE Device!HsClearHaltIn
    <3> USE DEF Device!device, Device!outEp, Device!relay, Device!NoData
    <3>1. DeviceFlags'
      BY <1>0, <2>1, Zenon DEF Device!HsClearHaltIn, Device!ArmingOne, DeviceFlags
    <3>2. /\ inResp' = "NAK" /\ inTog' = inTog /\ pcTog' = 0 /\ reqLeft' = 0
          /\ UNCHANGED <<captured, value, outResp, outBuf, packets, writes, at, ctrl,
                         outTaken, report, handed, flushed>>
      BY <2>1, Zenon DEF Device!HsClearHaltIn
    <3>3. DeviceValues'
      BY <1>0, <3>2, ReportAssumption DEF DeviceValues
    <3> QED BY <3>1, <3>3 DEF Device!TypeOK, DeviceFlags, DeviceValues
  <2>2. CASE ~Device!HsClearHaltIn
    <3>1. Device!Next
      BY <1>2, <2>2
      DEF Device!HsNext, Device!HsHandler, Device!HsBusReset, Device!HsSetConfiguration,
          Device!HsSetHalt, Device!HsClearHaltOut, Device!HsTakeReport, Device!HsOutPacket,
          Device!HsSetReport, Device!HsReportData, Device!HsSendReport, Device!HsArm,
          Device!HsPollOut, Device!HsPollReport, Device!HsReportDone, Device!AsFs,
          Device!Next, Device!Handler, Device!Relay
    <3> QED BY <3>1, FsDeviceTyped
  <2> QED BY <2>1, <2>2
<1>3. CASE UNCHANGED devicevars
  BY <1>3 DEF devicevars, Device!TypeOK
<1> QED BY <1>1, <1>2, <1>3 DEF MCStep, MCNext, Usb, Spi, usbvars, Device!AsFs

-----------------------------------------------------------------------------
\* The interrupt endpoints of the real device
PipeLimits ==
    /\ pipe \in {"idle", "in", "out"} /\ tries \in 0 .. MaxTries
    /\ pipe # "idle" => tries < MaxTries
    /\ held <= MaxReports + 1 /\ outs <= MaxOuts

LEMMA PipeTyped == ASSUME PipeInv, PipeLimits, MCStep PROVE PipeLimits'
<1>1. /\ held \in Nat /\ outs \in Nat /\ MaxTries \in Nat \ {0}
      /\ MaxReports \in Nat /\ MaxOuts \in Nat
  BY BoundsAssumption, TriesAssumption DEF PipeInv
<1>2. CASE UNCHANGED pipevars
  BY <1>2 DEF pipevars, PipeLimits
<1>3. CASE Pipes!PollIn \/ Pipes!InNak \/ Pipes!InLost
  BY <1>1, <1>3 DEF PipeLimits, Pipes!PollIn, Pipes!InNak, Pipes!InLost, Pipes!dev
<1>4. CASE Pipes!InData
  <2>1. held' <= MaxReports + 1
    BY <1>1, <1>4 DEF PipeLimits, Pipes!InData, Pipes!Done, Pipes!dev
  <2>2. /\ pipe' \in {"idle", "in", "out"} /\ tries' \in 0 .. MaxTries
        /\ pipe' # "idle" => tries' < MaxTries
    BY <1>1, <1>4 DEF PipeLimits, Pipes!InData
  <2> QED BY <1>4, <2>1, <2>2 DEF PipeLimits, Pipes!InData
<1>5. CASE Pipes!InGlitch
  BY <1>1, <1>5 DEF PipeLimits, Pipes!InGlitch, Pipes!Done
<1>6. CASE Pipes!SendOut \/ Pipes!OutNak \/ Pipes!OutLost
  BY <1>1, <1>6 DEF PipeLimits, Pipes!SendOut, Pipes!OutNak, Pipes!OutLost, Pipes!dev
<1>7. CASE Pipes!OutData
  BY <1>1, <1>7 DEF PipeLimits, Pipes!OutData, Pipes!DeviceTakes
<1>8. CASE Pipes!Next
  BY <1>3, <1>4, <1>5, <1>6, <1>7, <1>8 DEF Pipes!Next
<1> QED BY <1>2, <1>8 DEF MCStep, MCNext, Usb, Spi, usbvars

LEMMA PipesTypeOK == ASSUME PipeInv, PipeLimits PROVE Pipes!TypeOK
BY BoundsAssumption DEF PipeInv, PipeLimits, Pipes!TypeOK

-----------------------------------------------------------------------------
\* The control transfers with it
CtlBytes == Seq(Nat \X Nat)
CtlLimits ==
    /\ ep0Stage \in {"none", "in", "out", "statusIn"}
    /\ ctlTries \in 0 .. MaxTries /\ (ctlStage # "idle" => ctlTries < MaxTries)
    /\ ctlNumber <= MaxTransfers
    /\ ctlGot \in CtlBytes /\ ctlRem + Len(ctlGot) <= ctlReq.len

LEMMA PacketBytes == ASSUME CtlTypes PROVE Control!Packet \in CtlBytes
<1> DEFINE to == Control!Least(given + Mps, Control!Due)
<1>1. ep0Req.has \in Nat /\ ep0Req.len \in Nat /\ given \in Nat /\ ctlNumber \in Nat
  BY AskedFields DEF CtlTypes, Control!None
<1>2. to \in Nat
  BY <1>1, PacketAssumption DEF Control!Least, Control!Due
<1>3. <<>> \in CtlBytes
  BY EmptySeq DEF CtlBytes
<1> HIDE DEF to
<1>4. CASE ep0Stage # "in"
  BY <1>3, <1>4 DEF Control!Packet, Control!Zero
<1>5. CASE ep0Stage = "in"
  <2>1. Control!Packet = Control!Bytes(ctlNumber, given, to)
    BY <1>5 DEF Control!Packet, to
  <2>2. CASE given <= to
    BY <1>1, <1>2, <2>1, <2>2, BytesJoin DEF CtlBytes
  <2>3. CASE ~(given <= to)
    <3>1. 1 .. (to - given) = {}
      BY <1>1, <1>2, <2>3
    <3>2. Control!Bytes(ctlNumber, given, to) = <<>>
      BY <3>1 DEF Control!Bytes
    <3> QED BY <1>3, <2>1, <3>2
  <2> QED BY <2>2, <2>3
<1> QED BY <1>4, <1>5

\* What a step leaves of the transfer when it reads nothing: the bytes are those it had.
LEMMA ReadingNothing ==
    ASSUME TransferInv, CtlLimits, UNCHANGED <<ctlReq, ctlGot, ctlNumber>>,
           ctlRem' \in Nat, ctlRem' <= ctlRem,
           ep0Stage' \in {"none", "in", "out", "statusIn"},
           ctlTries' \in 0 .. MaxTries, ctlStage' # "idle" => ctlTries' < MaxTries
    PROVE  CtlLimits'
<1>1. /\ ctlRem \in Nat /\ ctlReq.len \in Nat /\ Len(ctlGot) \in Nat
  BY AskedFields, LenProperties DEF TransferInv, CtlTypes, Control!None, CtlLimits, CtlBytes
<1>2. ctlRem' + Len(ctlGot') <= ctlReq'.len
  BY <1>1 DEF CtlLimits
<1> QED BY <1>2 DEF CtlLimits

LEMMA RepeatLimits ==
    ASSUME TransferInv, CtlLimits, ctlStage # "idle", Control!Repeat
    PROVE  /\ UNCHANGED <<ctlReq, ctlGot, ctlNumber, ctlRem>>
           /\ ctlTries' \in 0 .. MaxTries /\ (ctlStage' # "idle" => ctlTries' < MaxTries)
BY TriesAssumption DEF CtlLimits, Control!Repeat, Control!Return

LEMMA ReadLimits == ASSUME TransferInv, CtlLimits, Control!ReadPacket PROVE CtlLimits'
<1> DEFINE n == Control!Least(Len(Control!Packet), ctlRem)
<1>1. CtlTypes
  BY DEF TransferInv
<1>2. ep0Stage' \in {"none", "in", "out", "statusIn"} /\ ctlStage = "in"
  BY DEF Control!ReadPacket, Control!DeviceGoesOn, CtlLimits, Control!device
<1>3. CASE ep0Tog # ctlTog
  <2>1. Control!Repeat
    BY <1>3 DEF Control!ReadPacket
  <2> QED BY <1>1, <1>2, <2>1, RepeatLimits, ReadingNothing DEF CtlTypes
<1>4. CASE ep0Tog = ctlTog
  <2>1. Control!Packet \in CtlBytes /\ ctlGot \in CtlBytes /\ ctlRem \in Nat
        /\ ctlReq.len \in Nat /\ Len(Control!Packet) \in Nat /\ Len(ctlGot) \in Nat
    BY <1>1, PacketBytes, AskedFields, LenProperties
    DEF CtlTypes, Control!None, CtlLimits, CtlBytes
  <2>2. /\ ctlGot' = ctlGot \o SubSeq(Control!Packet, 1, n) /\ ctlRem' = ctlRem - n
        /\ ctlTries' = 0 /\ ctlReq' = ctlReq /\ ctlNumber' = ctlNumber
    BY <1>4 DEF Control!ReadPacket
  <2>3. n \in 0 .. Len(Control!Packet) /\ n <= ctlRem
    BY <2>1 DEF Control!Least
  <2> HIDE DEF n
  <2>4. SubSeq(Control!Packet, 1, n) \in CtlBytes /\ Len(SubSeq(Control!Packet, 1, n)) = n
    <3>1. CASE n = 0
      BY <2>1, <3>1, SubSeqProperties, EmptySeq DEF CtlBytes
    <3>2. CASE n # 0
      BY <2>1, <2>3, <3>2, SubSeqProperties DEF CtlBytes
    <3> QED BY <3>1, <3>2
  <2>5. ctlGot' \in CtlBytes /\ Len(ctlGot') = Len(ctlGot) + n
    BY <2>1, <2>2, <2>4, ConcatProperties DEF CtlBytes
  <2>6. ctlRem' + Len(ctlGot') <= ctlReq'.len
    BY <2>1, <2>2, <2>3, <2>5 DEF CtlLimits
  <2>7. ctlTries' \in 0 .. MaxTries /\ ctlTries' < MaxTries
    BY <2>2, TriesAssumption
  <2>8. ctlNumber' <= MaxTransfers
    BY <2>2 DEF CtlLimits
  <2>9. ctlGot' \in CtlBytes
    BY <2>5
  <2> QED BY <1>2, <2>6, <2>7, <2>8, <2>9 DEF CtlLimits
<1> QED BY <1>3, <1>4

LEMMA CtlTyped == ASSUME TransferInv, CtlLimits, MCStep PROVE CtlLimits'
<1>1. /\ CtlTypes /\ MaxTries \in Nat \ {0} /\ MaxTransfers \in Nat
  BY BoundsAssumption, TriesAssumption DEF TransferInv
<1>2. CASE UNCHANGED controlvars
  BY <1>2 DEF controlvars, CtlLimits
<1>3. ASSUME NEW r \in Asked, Control!Begin(r) PROVE CtlLimits'
  <2>1. <<>> \in CtlBytes /\ Len(<<>>) = 0 /\ r.len \in Nat
    BY AskedFields, EmptySeq DEF CtlBytes
  <2>2. /\ ctlGot' = <<>> /\ ctlRem' = r.len /\ ctlReq' = r /\ ctlTries' = 0
        /\ ctlNumber < MaxTransfers /\ ctlNumber' = ctlNumber + 1 /\ ep0Stage' = ep0Stage
    BY <1>3 DEF Control!Begin, Control!device
  <2>3. ctlRem' + Len(ctlGot') <= ctlReq'.len
    BY <2>1, <2>2
  <2> QED BY <1>1, <2>1, <2>2, <2>3 DEF CtlLimits, CtlTypes
<1>4. CASE Control!Setup
  <2>1. /\ UNCHANGED <<ctlReq, ctlGot, ctlNumber, ctlRem, ctlTries>>
        /\ ep0Stage' \in {"none", "in", "out", "statusIn"} /\ ctlStage = "setup"
    BY <1>4 DEF Control!Setup, Control!DeviceSetup, Control!Abort
  <2> QED BY <1>1, <2>1, ReadingNothing DEF CtlLimits, CtlTypes
<1>5. CASE Control!WritePacket
  <2> DEFINE n == Control!Least(ctlRem, Mps)
  <2>1. n \in 0 .. ctlRem /\ ctlRem \in Nat
    BY <1>1, PacketAssumption DEF CtlTypes, Control!Least
  <2>2. /\ UNCHANGED <<ctlReq, ctlGot, ctlNumber, ctlTries>> /\ ctlStage = "out"
        /\ ctlRem' = ctlRem - n \/ ctlRem' = ctlRem
    BY <1>5 DEF Control!WritePacket, Control!Abort
  <2>3. ep0Stage' \in {"none", "in", "out", "statusIn"}
    BY <1>5 DEF Control!WritePacket, Control!DeviceTakes, CtlLimits
  <2> HIDE DEF n
  <2>4. ctlRem' \in Nat /\ ctlRem' <= ctlRem
    BY <2>1, <2>2
  <2> QED BY <2>2, <2>3, <2>4, ReadingNothing DEF CtlLimits
<1>6. CASE Control!StatusIn
  <2>1. /\ ep0Stage' \in {"none", "in", "out", "statusIn"} /\ ctlStage = "statusIn"
    BY <1>6 DEF Control!StatusIn, Control!DeviceGoesOn, Control!device, CtlLimits
  <2>2. CASE Control!Repeat
    BY <1>1, <2>1, <2>2, RepeatLimits, ReadingNothing DEF CtlTypes
  <2>3. CASE UNCHANGED <<ctlReq, ctlTog, ctlRem, ctlGot, ctlTries, ctlNumber>>
    BY <1>1, <2>1, <2>3, ReadingNothing DEF CtlTypes, CtlLimits
  <2> QED BY <1>6, <2>2, <2>3 DEF Control!StatusIn
<1>7. CASE Control!StatusOut
  <2>1. /\ UNCHANGED <<ctlReq, ctlRem, ctlGot, ctlTries, ctlNumber>>
        /\ ep0Stage' = "none" /\ ctlStage = "statusOut"
    BY <1>7 DEF Control!StatusOut, Control!Abort
  <2> QED BY <1>1, <2>1, ReadingNothing DEF CtlTypes, CtlLimits
<1>8. CASE Control!Nothing \/ Control!Refused \/ Control!Glitch
  <2>1. /\ UNCHANGED <<ctlReq, ctlRem, ctlGot, ctlTries, ctlNumber>> /\ ctlStage' = "idle"
    BY <1>8
    DEF Control!Nothing, Control!Refused, Control!Glitch, Control!Abort, Control!Return
  <2>2. ep0Stage' \in {"none", "in", "out", "statusIn"}
    BY <1>8
    DEF Control!Nothing, Control!Refused, Control!Glitch, Control!DeviceGoesOn,
        Control!device, CtlLimits
  <2> QED BY <1>1, <2>1, <2>2, ReadingNothing DEF CtlTypes, CtlLimits
<1>9. CASE Control!Next
  BY <1>3, <1>4, <1>5, <1>6, <1>7, <1>8, <1>9, ReadLimits DEF Control!Next
<1> QED BY <1>2, <1>9 DEF MCStep, MCNext, Usb, Spi, usbvars

LEMMA ControlTypeOK == ASSUME TransferInv, CtlLimits PROVE Control!TypeOK
<1>1. /\ ctlReq.len \in Nat /\ ctlRem \in Nat /\ Len(ctlGot) \in Nat /\ Mps \in Nat
  BY AskedFields, LenProperties, PacketAssumption
  DEF TransferInv, CtlTypes, Control!None, CtlLimits, CtlBytes
<1>2. ctlRem + Len(ctlGot) <= ctlReq.len + Mps
  BY <1>1 DEF CtlLimits
<1> QED BY <1>2, BoundsAssumption DEF TransferInv, CtlTypes, CtlLimits, Control!TypeOK

-----------------------------------------------------------------------------
\* The capture
CaptureLimits ==
    /\ session <= MaxSessions /\ captures \in 0 .. MaxCaptures
    /\ attempt \in 0 .. Attempts /\ (step # "wait" => attempt < Attempts)

LEMMA CaptureTyped == ASSUME CaptureInv, CaptureLimits, MCStep PROVE CaptureLimits'
<1>1. /\ session \in Nat /\ MaxSessions \in Nat /\ MaxCaptures \in Nat
      /\ Attempts \in Nat \ {0}
  BY BoundsAssumption, TriesAssumption DEF CaptureInv, CaptureTypes
<1>2. CASE UNCHANGED capturevars \/ Capture!Loop
  BY <1>2
  DEF capturevars, Capture!Loop, Capture!vars, Capture!device, Capture!capture,
      CaptureLimits
<1>3. CASE Capture!Plug \/ Capture!Unplug
  BY <1>1, <1>3 DEF Capture!Plug, Capture!Unplug, Capture!capture, CaptureLimits
<1>4. CASE Capture!Begin \/ Capture!PortReset \/ Capture!StampSpeed
  BY <1>1, <1>4
  DEF Capture!Begin, Capture!PortReset, Capture!StampSpeed, Capture!device, CaptureLimits
<1>5. ASSUME Capture!Failed, step # "wait", UNCHANGED <<session, captures>>
      PROVE  CaptureLimits'
  BY <1>1, <1>5 DEF Capture!Failed, CaptureLimits
<1>6. CASE Capture!Settle
  BY <1>1, <1>5, <1>6 DEF Capture!Settle, Capture!device, CaptureLimits
<1>7. ASSUME NEW i \in DOMAIN Capture!Steps,
             Capture!Succeed(Capture!Steps[i]) \/ Capture!Fail(Capture!Steps[i])
      PROVE  CaptureLimits'
  <2>1. step \in Places /\ UNCHANGED <<session, captures>>
    BY <1>7, StepAfterPlace
    DEF Capture!Succeed, Capture!Fail, Capture!DeviceActs, Capture!device
  <2>2. step # "wait"
    BY <2>1 DEF Places
  <2>3. Capture!Failed \/ UNCHANGED attempt
    BY <1>7 DEF Capture!Succeed, Capture!Fail, Capture!AfterFailure
  <2> QED BY <1>5, <2>1, <2>2, <2>3 DEF CaptureLimits
<1>8. CASE Capture!Next
  BY <1>2, <1>3, <1>4, <1>6, <1>7, <1>8 DEF Capture!Next
<1> QED BY <1>2, <1>8 DEF MCStep, MCNext, Usb, Spi, usbvars

LEMMA CaptureTypeOK == ASSUME CaptureInv, CaptureLimits PROVE Capture!TypeOK
<1>1. CaptureTypes
  BY DEF CaptureInv
<1>2. desc \in [Capture!Fields -> 0 .. MaxSessions]
  <2>1. \A p \in Capture!Fields : desc[p] \in 0 .. MaxSessions
    BY <1>1, BoundsAssumption DEF CaptureTypes, CaptureLimits
  <2> QED BY <1>1, <2>1 DEF CaptureTypes
<1>3. Places \subseteq {Capture!Steps[i] : i \in DOMAIN Capture!Steps}
  <2>1. DOMAIN Capture!Steps = 1 .. 12
    BY DEF Capture!Steps
  <2>2. /\ Capture!Steps[1] = "dev8" /\ Capture!Steps[2] = "set_address"
        /\ Capture!Steps[3] = "dev18" /\ Capture!Steps[4] = "config9"
        /\ Capture!Steps[5] = "config" /\ Capture!Steps[6] = "hid"
        /\ Capture!Steps[7] = "langid" /\ Capture!Steps[8] = "string"
        /\ Capture!Steps[9] = "set_config" /\ Capture!Steps[10] = "bos"
        /\ Capture!Steps[11] = "ms_os" /\ Capture!Steps[12] = "set_idle"
    BY DEF Capture!Steps
  <2> QED BY <2>1, <2>2 DEF Places
<1>4. step \in {"wait", "reset", "settle", "speed", "relay"}
                 \cup {Capture!Steps[i] : i \in DOMAIN Capture!Steps}
  BY <1>1, <1>3 DEF CaptureTypes
<1> QED
  BY <1>1, <1>2, <1>4, BoundsAssumption
  DEF CaptureTypes, CaptureLimits, Capture!TypeOK

-----------------------------------------------------------------------------
\* The layout
LayoutTypes ==
    /\ rest \in Seq(LayoutItem) /\ pieces \in 0 .. MaxPieces
    /\ global \in [page : Nat, size : Nat, count : Nat]
    /\ bit \in Nat
    /\ usages \in Seq(Nat) /\ Len(usages) <= MaxUsages
    /\ DOMAIN layout = Hid!Axes

LEMMA LayoutTyped == ASSUME LayoutTypes, MCStep PROVE LayoutTypes'
<1>1. MaxPieces \in Nat /\ MaxUsages \in Nat
  BY BoundsAssumption
<1>2. CASE UNCHANGED hidvars
  BY <1>2 DEF hidvars, LayoutTypes
<1>3. CASE Hid!Read
  <2> DEFINE i == Head(rest)
  <2>1. i \in LayoutItem /\ rest' \in Seq(LayoutItem) /\ pieces' = pieces
    BY <1>3, HeadTailProperties DEF Hid!Read, LayoutTypes
  <2>2. i.val \in Nat
    BY <2>1 DEF LayoutItem
  <2> HIDE DEF i
  <2>3. CASE Hid!Global(i)
    <3>1. i.tag \in {"page", "size", "count"} /\ global' = [global EXCEPT ![i.tag] = i.val]
      BY <2>3 DEF Hid!Global
    <3>2. global' \in [page : Nat, size : Nat, count : Nat]
      BY <2>2, <3>1 DEF LayoutTypes
    <3> QED BY <2>1, <2>3, <3>2 DEF Hid!Global, LayoutTypes
  <2>4. CASE Hid!ReportId(i)
    BY <2>1, <2>4 DEF Hid!ReportId, Hid!StartOfReport, LayoutTypes
  <2>5. CASE Hid!Local(i)
    <3>1. usages' \in Seq(Nat) /\ Len(usages') <= MaxUsages
      BY <1>1, <2>2, <2>5, AppendProperties, LenProperties DEF Hid!Local, LayoutTypes
    <3> QED BY <2>1, <2>5, <3>1 DEF Hid!Local, LayoutTypes
  <2>6. CASE Hid!Input(i)
    <3>1. <<>> \in Seq(Nat) /\ Len(<<>>) = 0
      BY EmptySeq
    <3>2. usages' = <<>> /\ global' = global
      BY <2>6 DEF Hid!Input, Hid!ForgetLocals
    <3>3. DOMAIN layout' = Hid!Axes
      BY <2>6 DEF Hid!Input
    <3>4. \A c, s \in Nat : c * s \in Nat
      OBVIOUS
    <3>5. bit' \in Nat
      <4>1. bit' = bit + global.count * global.size
        BY <2>6 DEF Hid!Input
      <4> QED BY <3>4, <4>1 DEF LayoutTypes
    <3>6. usages' \in Seq(Nat) /\ Len(usages') <= MaxUsages
      BY <1>1, <3>1, <3>2
    <3>7. global' \in [page : Nat, size : Nat, count : Nat] /\ pieces' \in 0 .. MaxPieces
      BY <2>1, <3>2 DEF LayoutTypes
    <3> QED BY <2>1, <3>3, <3>5, <3>6, <3>7 DEF LayoutTypes
  <2>7. CASE Hid!Collection(i) \/ Hid!Skipped(i)
    <3>1. usages' \in {usages, <<>>} /\ UNCHANGED <<global, bit, layout>>
      BY <2>7, Zenon DEF Hid!Collection, Hid!Skipped
    <3>2. <<>> \in Seq(Nat) /\ Len(<<>>) <= MaxUsages
      BY <1>1, EmptySeq
    <3>3. usages' \in Seq(Nat) /\ Len(usages') <= MaxUsages
      BY <3>1, <3>2 DEF LayoutTypes
    <3> QED BY <2>1, <3>1, <3>3 DEF LayoutTypes
  <2> QED BY <1>3, <2>3, <2>4, <2>5, <2>6, <2>7 DEF Hid!Read, i
<1>4. ASSUME NEW p \in Pieces, Hid!GoesOn(p) PROVE LayoutTypes'
  BY <1>1, <1>4, PiecesAssumption DEF Hid!GoesOn, LayoutTypes
<1>5. CASE Hid!Next
  BY <1>2, <1>3, <1>4, <1>5 DEF Hid!Next, Hid!Done, Hid!vars, hidvars
<1> QED BY <1>2, <1>5 DEF MCStep, MCNext, Usb, Spi, usbvars

-----------------------------------------------------------------------------
\* The byte stream
StreamLimits ==
    /\ sent <= MaxSlots
    /\ off <= Size /\ off % 2 = 0
    /\ decoys \subseteq 1 .. Size - 1
    /\ Len(ring) < RingBytes
    /\ window # <<>> => window[1].sof

LEMMA PushLimit ==
    ASSUME NEW r \in Seq(Octet), NEW b \in Octet, Len(r) < RingBytes
    PROVE  Len(Push(r, b)) < RingBytes
BY RingAssumption, AppendProperties, LenProperties DEF Push

\* A window that waits begins with a SOF: with the byte that opened it, or the one it was
\* cut at.
LEMMA WindowBegins ==
    ASSUME StreamInv, StreamLimits, TakeByte PROVE window' # <<>> => window'[1].sof
<1> DEFINE b == Head(ring)
           w == Append(window, b)
<1>1. b \in Octet /\ window \in Seq(Octet) /\ Len(window) < Size /\ Len(window) \in Nat
  BY HeadTailProperties, LenProperties DEF TakeByte, StreamInv, Stream
<1>2. CASE window = <<>> /\ ~b.sof
  BY <1>2 DEF TakeByte, StreamLimits
<1>3. CASE ~(window = <<>> /\ ~b.sof)
  <2>1. window' = Scan(w)
    BY <1>3 DEF TakeByte
  <2>2. /\ w \in Stream /\ Len(w) = Len(window) + 1
        /\ w[1] = IF window = <<>> THEN b ELSE window[1]
    BY <1>1, SizeAssumption, AppendProperties, EmptySeq DEF Stream
  <2>3. w[1].sof
    BY <1>3, <2>2 DEF StreamLimits
  <2> HIDE DEF w
  <2>4. CASE Len(w) < Size \/ Unpacks(w)
    BY <2>1, <2>3, <2>4 DEF Scan
  <2>5. CASE ~(Len(w) < Size) /\ ~Unpacks(w)
    <3>1. window' = Resync(w)
      BY <2>1, <2>5 DEF Scan
    <3>2. CASE LaterSofs(w) = {}
      BY <3>1, <3>2 DEF Resync
    <3>3. CASE LaterSofs(w) # {}
      <4>1. PICK j \in LaterSofs(w) : Resync(w) = SubSeq(w, j, Len(w))
        BY <2>2, <3>3, FirstSof
      <4>2. j \in 2 .. Len(w) /\ w[j].sof /\ w \in Seq(Octet) /\ Len(w) \in Nat
        BY <2>2, <4>1, LenProperties DEF LaterSofs, Stream
      <4>3. SubSeq(w, j, Len(w))[1] = w[j]
        BY <4>2, SubSeqProperties
      <4> QED BY <3>1, <4>1, <4>2, <4>3
    <3> QED BY <3>2, <3>3
  <2> QED BY <2>4, <2>5
<1> QED BY <1>2, <1>3

LEMMA StreamTyped == ASSUME StreamInv, StreamLimits, MCStep PROVE StreamLimits'
<1>1. /\ sent \in Nat /\ off \in Nat /\ ring \in Seq(Octet) /\ Size \in Nat /\ Size % 2 = 0
      /\ MaxSlots \in Nat
  BY SizeAssumption, MaxSlotsAssumption DEF StreamInv
<1>2. CASE UNCHANGED vars
  BY <1>2 DEF vars, master, StreamLimits
<1>3. off < Size => off + 2 <= Size /\ (off + 2) % 2 = 0
  BY <1>1 DEF StreamLimits
<1>4. ASSUME NEW d \in Decoys, BeginSlot(d) PROVE StreamLimits'
  <2>1. d \subseteq 1 .. Size - 1
    BY DecoysAssumption
  <2> QED BY <1>1, <1>4, <2>1 DEF BeginSlot, StreamLimits
<1>5. ASSUME NEW hi \in Octet, NEW lo \in Octet, RxWord(hi, lo) PROVE StreamLimits'
  <2>1. Push(ring, hi) \in Seq(Octet) /\ Len(Push(ring, hi)) < RingBytes
    BY <1>1, PushKeeps, PushLimit DEF StreamLimits
  <2>2. Len(ring') < RingBytes
    BY <1>5, <2>1, PushLimit DEF RxWord
  <2> QED BY <1>3, <1>5, <2>2 DEF RxWord, StreamLimits
<1>6. CASE ClockWord
  BY <1>1, <1>5, <1>6, BytesAreOctets DEF ClockWord
<1>7. CASE GarbleWord
  <2>1. PICK sof \in BOOLEAN : \/ RxWord(Garbled(off, sof), Byte(off + 1))
                               \/ RxWord(Byte(off), Garbled(off + 1, sof))
    BY <1>7 DEF GarbleWord
  <2> QED BY <1>1, <1>5, <2>1, BytesAreOctets
<1>8. CASE OverrunWord
  BY <1>3, <1>8 DEF OverrunWord, StreamLimits
<1>9. CASE TakeByte
  <2>1. Len(ring') < RingBytes
    BY <1>1, <1>9, RingAssumption, HeadTailProperties, LenProperties
    DEF TakeByte, StreamLimits
  <2> QED BY <1>9, <2>1, WindowBegins DEF TakeByte, master, StreamLimits
<1>10. CASE Next
  BY <1>4, <1>6, <1>7, <1>8, <1>9, <1>10 DEF Next
<1> QED BY <1>2, <1>10 DEF MCStep, MCNext, Usb, Spi

-----------------------------------------------------------------------------
\* The return slots
LEMMA ReturnTyped ==
    ASSUME ReturnInv, shown <= MaxPublish, MCStep PROVE shown' <= MaxPublish
<1>1. shown \in Nat /\ MaxPublish \in Nat
  BY BoundsAssumption DEF ReturnInv, ReturnTypes
<1>2. CASE UNCHANGED returnvars
  BY <1>2 DEF returnvars
<1>3. CASE Return!Next
  BY <1>1, <1>3
  DEF Return!Next, Return!Publish, Return!Poll, Return!OtherExchange, Return!ClockWord,
      Return!MissWord, Return!Abort, Return!EndExchange, Return!boardA
<1> QED BY <1>2, <1>3 DEF MCStep, MCNext, Usb, Spi

\* Everything the parts keep to, with the invariants it rests on
TypedInv ==
    /\ PipeInv /\ TransferInv /\ CaptureInv /\ PortInv /\ StreamInv /\ ReturnInv
    /\ Device!TypeOK /\ PipeLimits /\ CtlLimits /\ CaptureLimits /\ LayoutTypes
    /\ StreamLimits /\ shown <= MaxPublish

LEMMA InitTyped == ASSUME MCInit PROVE TypedInv
<1>1. PipeInv /\ TransferInv /\ CaptureInv /\ PortInv /\ StreamInv /\ ReturnInv
  BY InitPipes, InitTransfer, InitCapture, InitPort, InitStream, InitReturn DEF MCInit
<1>2. <<>> \in Seq({}) /\ Len(<<>>) = 0
  BY EmptySeq
<1>3. Device!TypeOK
  <2>1. <<>> \in Seq(Device!Piece)
    BY EmptySeq
  <2>2. DeviceFlags
    BY DEF MCInit, Device!HsInit, Device!Init, DeviceFlags
  <2>3. DeviceValues
    BY <2>1, BoundsAssumption, ReportAssumption
    DEF MCInit, Device!HsInit, Device!Init, DeviceValues
  <2> QED BY <2>2, <2>3, DeviceTypes
<1>4. PipeLimits
  BY BoundsAssumption, TriesAssumption DEF MCInit, Pipes!Init, PipeLimits
<1>5. CtlLimits
  <2>1. <<>> \in CtlBytes
    BY EmptySeq DEF CtlBytes
  <2> QED BY <1>2, <2>1, BoundsAssumption, TriesAssumption
          DEF MCInit, Control!Init, Control!None, CtlLimits
<1>6. CaptureLimits
  BY BoundsAssumption, TriesAssumption DEF MCInit, Capture!Init, CaptureLimits
<1>7. LayoutTypes
  <2>1. <<>> \in Seq(LayoutItem) /\ <<>> \in Seq(Nat)
    BY EmptySeq
  <2> QED BY <1>2, <2>1, BoundsAssumption DEF MCInit, Hid!Init, LayoutTypes
<1>8. StreamLimits
  BY <1>2, SizeAssumption, RingAssumption, MaxSlotsAssumption DEF MCInit, Init, StreamLimits
<1>9. shown <= MaxPublish
  BY BoundsAssumption DEF MCInit, Return!Init
<1> QED BY <1>1, <1>3, <1>4, <1>5, <1>6, <1>7, <1>8, <1>9 DEF TypedInv

LEMMA StepTyped == ASSUME TypedInv, MCStep PROVE TypedInv'
<1>1. /\ PipeInv /\ TransferInv /\ CaptureInv /\ PortInv /\ StreamInv /\ ReturnInv
      /\ Device!TypeOK /\ PipeLimits /\ CtlLimits /\ CaptureLimits /\ LayoutTypes
      /\ StreamLimits /\ shown <= MaxPublish
  BY DEF TypedInv
<1>2. StreamInv'
  <2>1. [Next]_vars
    BY DEF MCStep, MCNext, Usb, Spi
  <2> QED BY <1>1, <2>1, StepKeepsStream
<1>3. PipeInv' /\ TransferInv' /\ CaptureInv' /\ PortInv' /\ ReturnInv'
  BY <1>1, StepPipes, StepTransfer, StepCapture, StepPort, StepReturn DEF MCStep
<1>4. Device!TypeOK' /\ PipeLimits' /\ CtlLimits' /\ CaptureLimits'
  BY <1>1, DeviceTyped, PipeTyped, CtlTyped, CaptureTyped
<1>5. LayoutTypes' /\ StreamLimits' /\ (shown <= MaxPublish)'
  BY <1>1, LayoutTyped, StreamTyped, ReturnTyped
<1> QED BY <1>2, <1>3, <1>4, <1>5 DEF TypedInv

\* Tables, registers, buffers and counters of every wire keep to their ranges: no more
\* repeats and port resets than allowed, no transfer beyond what it asks for, no ring or
\* window beyond its array (MCEdges' TypesOK).
THEOREM EdgesTyped == MCSpec => []TypesOK
<1>1. ASSUME TypedInv PROVE TypesOK
  <2>1. Device!TypeOK /\ Pipes!TypeOK /\ Control!TypeOK /\ Capture!TypeOK
    BY <1>1, PipesTypeOK, ControlTypeOK, CaptureTypeOK DEF TypedInv
  <2>2. Hid!TypeOK
    BY <1>1 DEF TypedInv, LayoutTypes, Hid!TypeOK
  <2>3. Cdc!TypeOK
    BY <1>1 DEF TypedInv, PortInv, PortTypes, Cdc!TypeOK
  <2>4. TypeOK
    BY <1>1 DEF TypedInv, StreamInv, StreamLimits, TypeOK, Stream
  <2>5. Return!TypeOK
    BY <1>1 DEF TypedInv, ReturnInv, ReturnTypes, Return!TypeOK
  <2> QED BY <2>1, <2>2, <2>3, <2>4, <2>5 DEF TypesOK
<1>2. TypedInv /\ MCStep => TypedInv'
  BY StepTyped
<1> QED BY <1>1, <1>2, InitTyped, PTL DEF MCSpec, MCStep

-----------------------------------------------------------------------------
(***************************************************************************)
(* The mouse's layout.  What the parser keeps is compared, after each      *)
(* item, with what the reference finds by looking back from the place of   *)
(* the next one; so the lemmas say of every operator of the reference that *)
(* an item more leaves it as it is up to that place, and what it is at the *)
(* place after it.                                                         *)
(***************************************************************************)

\* The greatest of a set of positions.
LEMMA MaxOfPart ==
    ASSUME NEW n \in Nat, NEW t \in SUBSET (1 .. n), t # {}
    PROVE  Hid!Max(t) \in t /\ \A y \in t : y <= Hid!Max(t)
<1> DEFINE U == {k \in Nat : \A y \in t : y <= k}
<1>1. n \in U
  OBVIOUS
<1>2. PICK k \in U : \A j \in U : k <= j
  BY <1>1, Least
<1>3. k \in t
  <2>1. SUFFICES ASSUME k \notin t PROVE FALSE
    OBVIOUS
  <2>2. \A y \in t : y <= k - 1
    BY <1>2, <2>1
  <2>3. k # 0
    <3>1. PICK y \in t : TRUE
      OBVIOUS
    <3>2. y \in 1 .. n /\ y <= k
      BY <1>2, <3>1
    <3> QED BY <3>2
  <2>4. k - 1 \in U
    BY <1>2, <2>2, <2>3
  <2> QED BY <1>2, <2>4
<1>4. \E x \in t : \A y \in t : x >= y
  BY <1>2, <1>3
<1>5. Hid!Max(t) \in t /\ \A y \in t : Hid!Max(t) >= y
  BY <1>4 DEF Hid!Max
<1> QED BY <1>5

LEMMA MaxIs ==
    ASSUME NEW n \in Nat, NEW t \in SUBSET (1 .. n), NEW x \in t, \A y \in t : y <= x
    PROVE  Hid!Max(t) = x
<1>1. Hid!Max(t) \in t /\ \A y \in t : y <= Hid!Max(t)
  BY MaxOfPart
<1>2. Hid!Max(t) \in 1 .. n /\ x <= Hid!Max(t) /\ Hid!Max(t) <= x /\ x \in 1 .. n
  BY <1>1
<1> HIDE DEF Hid!Max
<1> QED BY <1>2

\* A descriptor with an item more.
LEMMA ItemAppended ==
    ASSUME NEW d \in Seq(LayoutItem), NEW i \in LayoutItem
    PROVE  /\ Len(d) \in Nat /\ Len(Append(d, i)) = Len(d) + 1
           /\ Append(d, i) \in Seq(LayoutItem)
           /\ Append(d, i)[Len(d) + 1] = i
           /\ \A j \in 1 .. Len(d) : Append(d, i)[j] = d[j] /\ d[j] \in LayoutItem
BY AppendProperties, LenProperties, ElementOfSeq

\* The items before a place.
LEMMA BeforeGrows ==
    ASSUME NEW d \in Seq(LayoutItem), NEW i \in LayoutItem, NEW T
    PROVE  /\ \A k \in 1 .. Len(d) + 1 : Hid!Before(Append(d, i), k, T) = Hid!Before(d, k, T)
           /\ i.tag \in T => Hid!Before(Append(d, i), Len(d) + 2, T)
                               = Hid!Before(d, Len(d) + 1, T) \cup {Len(d) + 1}
           /\ i.tag \notin T => Hid!Before(Append(d, i), Len(d) + 2, T)
                                  = Hid!Before(d, Len(d) + 1, T)
           /\ \A k \in 1 .. Len(d) + 1 : Hid!Before(d, k, T) \subseteq 1 .. Len(d)
<1> DEFINE n == Len(d)
           m == Append(d, i)
<1>1. n \in Nat /\ m[n + 1] = i /\ \A j \in 1 .. n : m[j] = d[j]
  BY ItemAppended
<1> HIDE DEF n, m
<1>2. \A k \in 1 .. n + 1 : Hid!Before(m, k, T) = Hid!Before(d, k, T)
  <2>1. \A k \in 1 .. n + 1 : \A j \in 1 .. k - 1 : m[j] = d[j]
    BY <1>1
  <2> QED BY <2>1 DEF Hid!Before
<1>3. /\ i.tag \in T => Hid!Before(m, n + 2, T) = Hid!Before(d, n + 1, T) \cup {n + 1}
      /\ i.tag \notin T => Hid!Before(m, n + 2, T) = Hid!Before(d, n + 1, T)
  <2>1. 1 .. (n + 2) - 1 = (1 .. (n + 1) - 1) \cup {n + 1} /\ 1 .. (n + 1) - 1 = 1 .. n
    BY <1>1
  <2> QED BY <1>1, <2>1 DEF Hid!Before
<1>4. \A k \in 1 .. n + 1 : Hid!Before(d, k, T) \subseteq 1 .. n
  BY <1>1 DEF Hid!Before
<1> QED BY <1>2, <1>3, <1>4 DEF n, m

\* The value in force at a place.
LEMMA LastGrows ==
    ASSUME NEW d \in Seq(LayoutItem), NEW i \in LayoutItem, NEW tag
    PROVE  /\ \A k \in 1 .. Len(d) + 1 :
                /\ Hid!LastOf(Append(d, i), k, tag) = Hid!LastOf(d, k, tag)
                /\ Hid!LastOf(d, k, tag) \in Nat
           /\ Hid!LastOf(Append(d, i), Len(d) + 2, tag)
                = IF i.tag = tag THEN i.val ELSE Hid!LastOf(d, Len(d) + 1, tag)
<1> DEFINE n == Len(d)
           m == Append(d, i)
           B(k) == Hid!Before(d, k, {tag})
<1>1. n \in Nat /\ m[n + 1] = i /\ \A j \in 1 .. n : m[j] = d[j] /\ d[j] \in LayoutItem
  BY ItemAppended
<1>2. /\ \A k \in 1 .. n + 1 : Hid!Before(m, k, {tag}) = B(k) /\ B(k) \subseteq 1 .. n
      /\ i.tag = tag => Hid!Before(m, n + 2, {tag}) = B(n + 1) \cup {n + 1}
      /\ i.tag # tag => Hid!Before(m, n + 2, {tag}) = B(n + 1)
  <2>1. /\ \A k \in 1 .. n + 1 : Hid!Before(m, k, {tag}) = B(k)
        /\ i.tag \in {tag} => Hid!Before(m, n + 2, {tag}) = B(n + 1) \cup {n + 1}
        /\ i.tag \notin {tag} => Hid!Before(m, n + 2, {tag}) = B(n + 1)
        /\ \A k \in 1 .. n + 1 : B(k) \subseteq 1 .. n
    BY BeforeGrows
  <2> HIDE DEF n, m, B
  <2> QED BY <2>1
<1>3. \A k \in 1 .. n + 1 : B(k) # {} => Hid!Max(B(k)) \in 1 .. n
  <2>1. TAKE k \in 1 .. n + 1
  <2>2. HAVE B(k) # {}
  <2>3. B(k) \in SUBSET (1 .. n)
    BY <1>2
  <2> HIDE DEF n, B
  <2>4. Hid!Max(B(k)) \in B(k)
    BY <1>1, <2>2, <2>3, MaxOfPart
  <2> QED BY <2>3, <2>4
<1> HIDE DEF n, m, B
<1>4. \A k \in 1 .. n + 1 : Hid!LastOf(d, k, tag) = IF B(k) = {} THEN 0 ELSE d[Hid!Max(B(k))].val
  BY DEF Hid!LastOf, B
<1>5. \A k \in 1 .. n + 1 : Hid!LastOf(m, k, tag) = IF B(k) = {} THEN 0 ELSE m[Hid!Max(B(k))].val
  BY <1>2 DEF Hid!LastOf
<1>6. \A j \in 1 .. n : d[j].val \in Nat
  BY <1>1 DEF LayoutItem
<1>7. Hid!LastOf(m, n + 2, tag) = IF i.tag = tag THEN i.val ELSE Hid!LastOf(d, n + 1, tag)
  <2>1. CASE i.tag = tag
    <3>1. Hid!Before(m, n + 2, {tag}) = B(n + 1) \cup {n + 1}
      BY <1>2, <2>1
    <3>2. B(n + 1) \cup {n + 1} \in SUBSET (1 .. n + 1) /\ n + 1 \in B(n + 1) \cup {n + 1}
          /\ \A y \in B(n + 1) \cup {n + 1} : y <= n + 1
      BY <1>1, <1>2
    <3>3. n + 1 \in Nat
      BY <1>1
    <3>4. Hid!Max(B(n + 1) \cup {n + 1}) = n + 1
      BY <3>2, <3>3, MaxIs
    <3> QED BY <1>1, <2>1, <3>1, <3>4 DEF Hid!LastOf
  <2>2. CASE i.tag # tag
    <3>1. Hid!Before(m, n + 2, {tag}) = B(n + 1)
      BY <1>2, <2>2
    <3>2. n + 1 \in 1 .. n + 1
      BY <1>1
    <3> QED BY <1>1, <1>3, <1>4, <2>2, <3>1, <3>2 DEF Hid!LastOf
  <2> QED BY <2>1, <2>2
<1>8. \A k \in 1 .. n + 1 : Hid!LastOf(m, k, tag) = Hid!LastOf(d, k, tag)
  BY <1>1, <1>3, <1>4, <1>5
<1>9. \A k \in 1 .. n + 1 : Hid!LastOf(d, k, tag) \in Nat
  BY <1>3, <1>4, <1>6
<1> QED BY <1>7, <1>8, <1>9 DEF n, m

\* The local items of the next main item.
LEMMA OwnGrows ==
    ASSUME NEW d \in Seq(LayoutItem), NEW i \in LayoutItem, NEW tag, tag \notin Hid!Main
    PROVE  /\ \A k \in 1 .. Len(d) + 1 :
                /\ Hid!Own(Append(d, i), k, tag) = Hid!Own(d, k, tag)
                /\ Hid!Own(d, k, tag) \subseteq 1 .. Len(d)
           /\ i.tag \in Hid!Main => Hid!Own(Append(d, i), Len(d) + 2, tag) = {}
           /\ i.tag = tag => Hid!Own(Append(d, i), Len(d) + 2, tag)
                               = Hid!Own(d, Len(d) + 1, tag) \cup {Len(d) + 1}
           /\ i.tag \notin Hid!Main \cup {tag} =>
                Hid!Own(Append(d, i), Len(d) + 2, tag) = Hid!Own(d, Len(d) + 1, tag)
<1> DEFINE n == Len(d)
           m == Append(d, i)
           B(k) == Hid!Before(d, k, {tag})
           M(k) == Hid!Before(d, k, Hid!Main)
<1>1. n \in Nat
  BY ItemAppended
<1>2. /\ \A k \in 1 .. n + 1 : Hid!Before(m, k, {tag}) = B(k) /\ B(k) \subseteq 1 .. n
      /\ i.tag = tag => Hid!Before(m, n + 2, {tag}) = B(n + 1) \cup {n + 1}
      /\ i.tag # tag => Hid!Before(m, n + 2, {tag}) = B(n + 1)
  <2>1. /\ \A k \in 1 .. n + 1 : Hid!Before(m, k, {tag}) = B(k)
        /\ i.tag \in {tag} => Hid!Before(m, n + 2, {tag}) = B(n + 1) \cup {n + 1}
        /\ i.tag \notin {tag} => Hid!Before(m, n + 2, {tag}) = B(n + 1)
        /\ \A k \in 1 .. n + 1 : B(k) \subseteq 1 .. n
    BY BeforeGrows
  <2> HIDE DEF n, m, B
  <2> QED BY <2>1
<1>3. /\ \A k \in 1 .. n + 1 : Hid!Before(m, k, Hid!Main) = M(k) /\ M(k) \subseteq 1 .. n
      /\ i.tag \in Hid!Main => Hid!Before(m, n + 2, Hid!Main) = M(n + 1) \cup {n + 1}
      /\ i.tag \notin Hid!Main => Hid!Before(m, n + 2, Hid!Main) = M(n + 1)
  BY BeforeGrows
<1> HIDE DEF n, m, B, M
<1>4. \A k \in 1 .. n + 1 : Hid!Own(d, k, tag) = {j \in B(k) : \A x \in M(k) : x < j}
  BY DEF Hid!Own, B, M
<1>5. \A k \in 1 .. n + 1 : Hid!Own(m, k, tag) = {j \in B(k) : \A x \in M(k) : x < j}
  BY <1>2, <1>3 DEF Hid!Own
<1>6. n + 1 \in 1 .. n + 1
  BY <1>1
<1>7. CASE i.tag \in Hid!Main
  <2>1. Hid!Own(m, n + 2, tag) = {j \in B(n + 1) : \A x \in M(n + 1) \cup {n + 1} : x < j}
    BY <1>2, <1>3, <1>7 DEF Hid!Own
  <2>2. \A j \in B(n + 1) : ~(n + 1 < j)
    BY <1>1, <1>2, <1>6
  <2>3. Hid!Own(m, n + 2, tag) = {}
    BY <2>1, <2>2
  <2> QED BY <1>2, <1>4, <1>5, <1>7, <2>3 DEF n, m
<1>8. CASE i.tag = tag
  <2>1. Hid!Own(m, n + 2, tag) = {j \in B(n + 1) \cup {n + 1} : \A x \in M(n + 1) : x < j}
    BY <1>2, <1>3, <1>8 DEF Hid!Own
  <2>2. \A x \in M(n + 1) : x < n + 1
    BY <1>1, <1>3, <1>6
  <2>3. Hid!Own(m, n + 2, tag) = Hid!Own(d, n + 1, tag) \cup {n + 1}
    BY <1>4, <1>6, <2>1, <2>2
  <2> QED BY <1>2, <1>4, <1>5, <1>8, <2>3 DEF n, m
<1>9. CASE i.tag \notin Hid!Main \cup {tag}
  <2>1. Hid!Own(m, n + 2, tag) = Hid!Own(d, n + 1, tag)
    BY <1>2, <1>3, <1>4, <1>6, <1>9 DEF Hid!Own
  <2> QED BY <1>2, <1>4, <1>5, <1>9, <2>1 DEF n, m
<1> QED BY <1>7, <1>8, <1>9

\* HidLayout counts with its own instance of FiniteSets.
LEMMA CountsAlike == \A S : Hid!Cardinality(S) = Cardinality(S)
BY DEF Hid!Cardinality, Cardinality

LEMMA PositionsFinite ==
    ASSUME NEW m \in Nat, NEW S \in SUBSET (1 .. m)
    PROVE  IsFiniteSet(S) /\ Cardinality(S) \in Nat
<1>1. IsFiniteSet(1 .. m)
  BY FS_Interval
<1>2. IsFiniteSet(S)
  BY <1>1, FS_Subset
<1> QED BY <1>2, FS_CardinalityType

\* A finite set of positions has an n-th one for every n up to how many there are.
LEMMA Ranked ==
    ASSUME NEW m \in Nat, NEW S \in SUBSET (1 .. m), NEW r \in 1 .. Cardinality(S)
    PROVE  \E j \in S : Cardinality({x \in S : x <= j}) = r
<1> DEFINE Upto(j) == {x \in S : x <= j}
           Far == {j \in S : Cardinality(Upto(j)) >= r}
<1>1. IsFiniteSet(S) /\ Cardinality(S) \in Nat /\ S \subseteq Nat
  BY PositionsFinite
<1>2. \A j : IsFiniteSet(Upto(j)) /\ Cardinality(Upto(j)) \in Nat
  <2>1. TAKE j
  <2>2. Upto(j) \in SUBSET S
    OBVIOUS
  <2>3. IsFiniteSet(Upto(j))
    BY <1>1, <2>2, FS_Subset
  <2> QED BY <2>3, FS_CardinalityType
<1>3. S # {}
  BY <1>1, FS_EmptySet
<1>4. Hid!Max(S) \in S /\ \A y \in S : y <= Hid!Max(S)
  BY <1>3, MaxOfPart
<1>5. Upto(Hid!Max(S)) = S
  BY <1>4
<1>6. Hid!Max(S) \in Far
  BY <1>1, <1>4, <1>5
<1>7. Far \subseteq Nat /\ Far # {}
  BY <1>1, <1>6
<1>8. PICK j \in Far : \A k \in Far : j <= k
  BY <1>7, Least
<1>9. j \in S /\ Cardinality(Upto(j)) >= r
  BY <1>8
<1>10. Cardinality(Upto(j)) <= r
  <2>1. SUFFICES ASSUME Cardinality(Upto(j)) > r PROVE FALSE
    BY <1>2
  <2> DEFINE Less == Upto(j) \ {j}
  <2>2. j \in Upto(j) /\ IsFiniteSet(Upto(j)) /\ Cardinality(Upto(j)) \in Nat
    BY <1>1, <1>2, <1>9
  <2>3. IsFiniteSet(Less) /\ Cardinality(Less) = Cardinality(Upto(j)) - 1
    BY <2>2, FS_RemoveElement
  <2>4. Cardinality(Less) >= r /\ r >= 1
    BY <1>1, <2>1, <2>2, <2>3
  <2>5. Less # {}
    BY <2>4, FS_EmptySet
  <2>6. Less \in SUBSET (1 .. m)
    OBVIOUS
  <2> DEFINE k == Hid!Max(Less)
  <2>7. k \in Less /\ \A y \in Less : y <= k
    BY <2>5, <2>6, MaxOfPart
  <2> HIDE DEF k
  <2>8. k \in S /\ k < j
    <3>1. k \in S /\ k <= j /\ k # j
      BY <2>7
    <3> QED BY <1>1, <1>9, <3>1
  <2>9. Upto(k) = Less
    <3>1. \A x \in S : x <= k <=> x <= j /\ x # j
      <4>1. TAKE x \in S
      <4>2. x \in Nat /\ k \in Nat /\ j \in Nat
        BY <1>1, <1>9, <2>8
      <4>3. x <= j /\ x # j => x <= k
        BY <2>7
      <4> QED BY <2>8, <4>2, <4>3
    <3> QED BY <3>1
  <2>10. k \in Far
    BY <2>4, <2>8, <2>9
  <2> HIDE DEF Far
  <2> QED BY <1>1, <1>8, <1>9, <2>8, <2>10
<1> QED BY <1>1, <1>2, <1>9, <1>10

\* The usages that the items S of a descriptor name.
Naming(d, S) == [r \in 1 .. Cardinality(S) |-> d[Hid!Nth(S, r)].val]

LEMMA UsagesAre ==
    ASSUME NEW d, NEW k
    PROVE  Hid!Usages(d, k) =
             IF Hid!Own(d, k, "usage") # {} THEN Naming(d, Hid!Own(d, k, "usage"))
             ELSE IF Hid!Own(d, k, "min") = {} THEN <<>>
             ELSE [n \in 1 .. d[Hid!Max(Hid!Own(d, k, "max"))].val
                               - d[Hid!Max(Hid!Own(d, k, "min"))].val + 1 |->
                     d[Hid!Max(Hid!Own(d, k, "min"))].val + n - 1]
BY CountsAlike DEF Hid!Usages, Naming

LEMMA NthIsOne ==
    ASSUME NEW m \in Nat, NEW S \in SUBSET (1 .. m), NEW r \in 1 .. Cardinality(S)
    PROVE  Hid!Nth(S, r) \in S /\ Cardinality({x \in S : x <= Hid!Nth(S, r)}) = r
<1>1. \E j \in S : Cardinality({x \in S : x <= j}) = r
  BY Ranked
<1> QED BY <1>1, CountsAlike DEF Hid!Nth

\* An item more is not among those named before, and names one usage more.
LEMMA NamingKept ==
    ASSUME NEW d \in Seq(LayoutItem), NEW i \in LayoutItem, NEW S \in SUBSET (1 .. Len(d))
    PROVE  /\ Naming(Append(d, i), S) = Naming(d, S)
           /\ Naming(d, S) \in Seq(Nat) /\ Len(Naming(d, S)) = Cardinality(S)
           /\ Cardinality(S) \in Nat
<1>1. Len(d) \in Nat /\ \A j \in 1 .. Len(d) : Append(d, i)[j] = d[j] /\ d[j].val \in Nat
  BY ItemAppended DEF LayoutItem
<1>2. \A r \in 1 .. Cardinality(S) : Hid!Nth(S, r) \in 1 .. Len(d)
  BY <1>1, NthIsOne
<1>3. Cardinality(S) \in Nat
  BY <1>1, PositionsFinite
<1>4. Naming(d, S) \in [1 .. Cardinality(S) -> Nat]
  BY <1>1, <1>2 DEF Naming
<1>5. Naming(d, S) \in Seq(Nat) /\ Len(Naming(d, S)) = Cardinality(S)
  BY <1>3, <1>4, IsASeq, LenProperties
<1>6. Naming(Append(d, i), S) = Naming(d, S)
  BY <1>1, <1>2 DEF Naming
<1> QED BY <1>3, <1>5, <1>6

LEMMA NamingGrows ==
    ASSUME NEW d \in Seq(LayoutItem), NEW i \in LayoutItem, NEW S \in SUBSET (1 .. Len(d))
    PROVE  /\ Naming(Append(d, i), S \cup {Len(d) + 1}) = Append(Naming(d, S), i.val)
           /\ Cardinality(S \cup {Len(d) + 1}) = Cardinality(S) + 1
<1> DEFINE n == Len(d)
           m == Append(d, i)
           R == S \cup {n + 1}
           c == Cardinality(S)
<1>1. n \in Nat /\ m[n + 1] = i /\ i.val \in Nat
  BY ItemAppended DEF LayoutItem
<1>2. IsFiniteSet(S) /\ c \in Nat
  BY <1>1, PositionsFinite
<1>3. n + 1 \notin S /\ Cardinality(R) = c + 1 /\ R \in SUBSET (1 .. n + 1)
  <2>1. n + 1 \notin 1 .. n /\ 1 .. n \subseteq 1 .. n + 1 /\ n + 1 \in 1 .. n + 1
    BY <1>1
  <2>2. n + 1 \notin S
    BY <2>1
  <2> QED BY <1>2, <2>1, <2>2, FS_AddElement
<1> HIDE DEF R
<1>4. \A j \in S : {x \in R : x <= j} = {x \in S : x <= j}
  BY <1>1 DEF R
<1>5. {x \in R : x <= n + 1} = R
  <2>1. \A x \in R : x <= n + 1
    BY <1>1, <1>3
  <2> QED BY <2>1
<1>6. \A r \in 1 .. c : Hid!Nth(R, r) \in S /\ Hid!Nth(R, r) = Hid!Nth(S, r)
  <2>1. TAKE r \in 1 .. c
  <2>2. \A j : (j \in R /\ Cardinality({x \in R : x <= j}) = r)
                 <=> (j \in S /\ Cardinality({x \in S : x <= j}) = r)
    <3>1. TAKE j
    <3>2. CASE j \in S
      BY <1>4, <3>2 DEF R
    <3>3. CASE j = n + 1
      <4>1. Cardinality({x \in R : x <= j}) = Cardinality(R)
        BY <1>5, <3>3
      <4>2. c + 1 # r
        BY <1>2, <2>1
      <4> QED BY <1>3, <3>3, <4>1, <4>2
    <3>4. CASE j \notin R
      BY <3>4 DEF R
    <3> QED BY <3>2, <3>3, <3>4 DEF R
  <2>3. Hid!Nth(R, r) = Hid!Nth(S, r)
    BY <2>2, CountsAlike DEF Hid!Nth
  <2> QED BY <1>1, <2>3, NthIsOne
<1>7. Hid!Nth(R, c + 1) = n + 1
  <2>1. c + 1 \in 1 .. Cardinality(R) /\ n + 1 \in Nat
    BY <1>1, <1>2, <1>3
  <2>2. Hid!Nth(R, c + 1) \in R /\ Cardinality({x \in R : x <= Hid!Nth(R, c + 1)}) = c + 1
    BY <1>3, <2>1, NthIsOne
  <2>3. Hid!Nth(R, c + 1) \notin S
    <3>1. SUFFICES ASSUME Hid!Nth(R, c + 1) \in S PROVE FALSE
      OBVIOUS
    <3>2. Cardinality({x \in S : x <= Hid!Nth(R, c + 1)}) = c + 1
      BY <1>4, <2>2, <3>1
    <3>3. {x \in S : x <= Hid!Nth(R, c + 1)} \in SUBSET S
      OBVIOUS
    <3>4. Cardinality({x \in S : x <= Hid!Nth(R, c + 1)}) <= c
      BY <1>2, <3>3, FS_Subset
    <3> QED BY <1>2, <3>2, <3>4
  <2> QED BY <2>2, <2>3 DEF R
<1>8. Naming(d, S) \in Seq(Nat) /\ Len(Naming(d, S)) = c /\ Naming(m, S) = Naming(d, S)
  BY NamingKept
<1> DEFINE s == Append(Naming(d, S), i.val)
<1>9. s \in Seq(Nat) /\ Len(s) = c + 1 /\ s[c + 1] = i.val
      /\ \A r \in 1 .. c : s[r] = Naming(d, S)[r]
  BY <1>1, <1>8, AppendProperties
<1>10. Naming(m, R) = [r \in 1 .. c + 1 |-> m[Hid!Nth(R, r)].val]
  BY <1>3 DEF Naming
<1>11. \A r \in 1 .. c : s[r] = m[Hid!Nth(R, r)].val
  <2>1. TAKE r \in 1 .. c
  <2>2. Naming(m, S)[r] = m[Hid!Nth(S, r)].val
    BY DEF Naming
  <2> QED BY <1>6, <1>8, <1>9, <2>2
<1> HIDE DEF s, m, n, c
<1>12. \A r \in 1 .. c + 1 : s[r] = m[Hid!Nth(R, r)].val
  <2>1. \A r \in 1 .. c + 1 : r \in 1 .. c \/ r = c + 1
    BY <1>2
  <2> QED BY <1>1, <1>7, <1>9, <1>11, <2>1
<1>13. s = [r \in 1 .. c + 1 |-> s[r]]
  BY <1>9, LenProperties
<1>14. Naming(m, R) = s
  BY <1>10, <1>12, <1>13
<1> QED BY <1>3, <1>14 DEF s, m, n, c, R

LEMMA UsagesGrow ==
    ASSUME NEW d \in Seq(LayoutItem), NEW i \in LayoutItem, NEW k \in 1 .. Len(d) + 1,
           Hid!Plain(d, k)
    PROVE  Hid!Usages(Append(d, i), k) = Hid!Usages(d, k)
<1> DEFINE n == Len(d)
           m == Append(d, i)
<1>1. n \in Nat /\ \A j \in 1 .. n : m[j] = d[j]
  BY ItemAppended
<1>2. "usage" \notin Hid!Main /\ "min" \notin Hid!Main /\ "max" \notin Hid!Main
  BY DEF Hid!Main
<1>3. \A tag \in {"usage", "min", "max"} :
        Hid!Own(m, k, tag) = Hid!Own(d, k, tag) /\ Hid!Own(d, k, tag) \in SUBSET (1 .. n)
  BY <1>2, OwnGrows
<1>4. Naming(m, Hid!Own(d, k, "usage")) = Naming(d, Hid!Own(d, k, "usage"))
  BY <1>3, NamingKept
<1>5. Hid!Own(d, k, "min") # {} =>
        Hid!Max(Hid!Own(d, k, "min")) \in 1 .. n /\ Hid!Max(Hid!Own(d, k, "max")) \in 1 .. n
  <2>1. SUFFICES ASSUME Hid!Own(d, k, "min") # {} 
                 PROVE  Hid!Max(Hid!Own(d, k, "min")) \in 1 .. n /\ Hid!Max(Hid!Own(d, k, "max")) \in 1 .. n
    OBVIOUS
  <2>2. Hid!Own(d, k, "max") # {}
    BY <2>1 DEF Hid!Plain
  <2>3. Hid!Max(Hid!Own(d, k, "min")) \in Hid!Own(d, k, "min")
    BY <1>1, <1>3, <2>1, MaxOfPart
  <2>4. Hid!Max(Hid!Own(d, k, "max")) \in Hid!Own(d, k, "max")
    BY <1>1, <1>3, <2>2, MaxOfPart
  <2> QED BY <1>3, <2>3, <2>4
<1> HIDE DEF n, m
<1>6. Hid!Own(d, k, "min") # {} =>
        /\ m[Hid!Max(Hid!Own(d, k, "min"))] = d[Hid!Max(Hid!Own(d, k, "min"))]
        /\ m[Hid!Max(Hid!Own(d, k, "max"))] = d[Hid!Max(Hid!Own(d, k, "max"))]
  BY <1>1, <1>5
<1>7. Hid!Usages(m, k) = Hid!Usages(d, k)
  BY <1>3, <1>4, <1>6, UsagesAre
<1> QED BY <1>7 DEF m

\* g is the total of every part of the numbers w, taken from its last one down.
IsTotal(g, w) ==
    g = [t \in SUBSET DOMAIN w |->
           IF t = {} THEN 0 ELSE g[t \ {Hid!Max(t)}] + w[Hid!Max(t)]]
OneTotal(w) == \E g : IsTotal(g, w) /\ \A h : IsTotal(h, w) => h = g
TotalOf(w) == (CHOOSE g : IsTotal(g, w))[DOMAIN w]

LEMMA TotalStarts == ASSUME NEW w, DOMAIN w = {} PROVE OneTotal(w) /\ TotalOf(w) = 0
<1> DEFINE g == [t \in {{}} |-> 0]
<1>1. SUBSET {} = {{}}
  OBVIOUS
<1>2. ASSUME NEW k PROVE IsTotal(k, w) <=> k = g
  <2>1. IsTotal(k, w) <=>
          k = [t \in {{}} |-> IF t = {} THEN 0 ELSE k[t \ {Hid!Max(t)}] + w[Hid!Max(t)]]
    BY <1>1 DEF IsTotal
  <2> QED BY <2>1
<1> HIDE DEF g
<1>3. OneTotal(w)
  <2>1. IsTotal(g, w) /\ \A k : IsTotal(k, w) => k = g
    BY <1>2
  <2> QED BY <2>1, Zenon DEF OneTotal
<1>4. (CHOOSE k : IsTotal(k, w)) = g
  BY <1>2
<1>5. TotalOf(w) = g[{}]
  BY <1>4 DEF TotalOf
<1> QED BY <1>3, <1>5 DEF g

LEMMA TotalGrows ==
    ASSUME NEW m \in Nat, NEW S \in SUBSET (1 .. m), NEW w, NEW v,
           DOMAIN w = S, DOMAIN v = S \cup {m + 1}, \A j \in S : v[j] = w[j], OneTotal(w)
    PROVE  OneTotal(v) /\ TotalOf(v) = TotalOf(w) + v[m + 1]
<1> DEFINE x == m + 1
           R == S \cup {x}
<1>1. x \notin S /\ x \in Nat /\ R \in SUBSET (1 .. x)
  OBVIOUS
<1>2. PICK g : IsTotal(g, w) /\ \A h : IsTotal(h, w) => h = g
  BY DEF OneTotal
<1> DEFINE h == [t \in SUBSET R |-> IF x \in t THEN g[t \ {x}] + v[x] ELSE g[t]]
<1>3. \A t \in SUBSET S : x \notin t /\ t \in SUBSET R /\ \A y : t \ {y} \in SUBSET S
  <2>1. TAKE t \in SUBSET S
  <2>2. x \notin t /\ t \in SUBSET R
    BY <1>1
  <2>3. \A y : t \ {y} \in SUBSET S
    BY Zenon
  <2> QED BY <2>2, <2>3
<1>4. \A t \in SUBSET R :
        /\ x \in t => t \ {x} \in SUBSET S /\ Hid!Max(t) = x /\ t # {}
        /\ x \notin t => t \in SUBSET S
  <2>1. TAKE t \in SUBSET R
  <2>2. x \in t => Hid!Max(t) = x
    <3>1. t \in SUBSET (1 .. x) /\ \A y \in t : y <= x
      BY <1>1
    <3> QED BY <1>1, <3>1, MaxIs
  <2> QED BY <2>2
<1>5. \A t \in SUBSET S : t # {} => Hid!Max(t) \in S
  <2>1. TAKE t \in SUBSET S
  <2>2. t \in SUBSET (1 .. m)
    OBVIOUS
  <2>3. t # {} => Hid!Max(t) \in t
    BY <2>2, MaxOfPart
  <2> QED BY <2>3
<1> HIDE DEF x
<1>6. \A t \in SUBSET S :
        g[t] = IF t = {} THEN 0 ELSE g[t \ {Hid!Max(t)}] + w[Hid!Max(t)]
  BY <1>2 DEF IsTotal
<1>7. DOMAIN v = R
  BY DEF x
<1>8. IsTotal(h, v)
  <2>1. ASSUME NEW t \in SUBSET R
        PROVE  h[t] = IF t = {} THEN 0 ELSE h[t \ {Hid!Max(t)}] + v[Hid!Max(t)]
    <3>1. CASE x \in t
      <4>1. h[t] = g[t \ {x}] + v[x]
        BY <3>1
      <4>2. h[t \ {x}] = g[t \ {x}]
        BY <1>3, <1>4, <3>1
      <4> QED BY <1>4, <3>1, <4>1, <4>2
    <3>2. CASE x \notin t
      <4>1. t \in SUBSET S /\ h[t] = g[t]
        BY <1>4, <3>2
      <4>2. h[t \ {Hid!Max(t)}] = g[t \ {Hid!Max(t)}]
        BY <1>3, <4>1
      <4>3. t # {} => v[Hid!Max(t)] = w[Hid!Max(t)]
        BY <1>5, <4>1
      <4> QED BY <1>6, <4>1, <4>2, <4>3
    <3> QED BY <3>1, <3>2
  <2>2. h = [t \in SUBSET R |-> h[t]]
    OBVIOUS
  <2> HIDE DEF h
  <2> QED BY <1>7, <2>1, <2>2 DEF IsTotal
<1>9. ASSUME NEW k, IsTotal(k, v) PROVE k = h
  <2> DEFINE r == [t \in SUBSET S |-> k[t]]
  <2>1. /\ \A t \in SUBSET R :
             k[t] = IF t = {} THEN 0 ELSE k[t \ {Hid!Max(t)}] + v[Hid!Max(t)]
        /\ k = [t \in SUBSET R |-> k[t]]
    <3>1. k = [t \in SUBSET R |->
                 IF t = {} THEN 0 ELSE k[t \ {Hid!Max(t)}] + v[Hid!Max(t)]]
      BY <1>7, <1>9 DEF IsTotal
    <3>2. \A t \in SUBSET R :
             k[t] = IF t = {} THEN 0 ELSE k[t \ {Hid!Max(t)}] + v[Hid!Max(t)]
      BY <3>1
    <3> QED BY <3>1, <3>2
  <2>2. ASSUME NEW t \in SUBSET S
        PROVE  r[t] = IF t = {} THEN 0 ELSE r[t \ {Hid!Max(t)}] + w[Hid!Max(t)]
    <3>1. r[t] = k[t] /\ r[t \ {Hid!Max(t)}] = k[t \ {Hid!Max(t)}] /\ t \in SUBSET R
      BY <1>3
    <3>2. t # {} => v[Hid!Max(t)] = w[Hid!Max(t)]
      BY <1>5
    <3> HIDE DEF r
    <3> QED BY <2>1, <3>1, <3>2
  <2>3. r = [t \in SUBSET S |-> r[t]]
    OBVIOUS
  <2>4. IsTotal(r, w)
    <3> HIDE DEF r
    <3> QED BY <2>2, <2>3 DEF IsTotal
  <2>5. r = g
    BY <1>2, <2>4
  <2>6. \A t \in SUBSET S : k[t] = g[t]
    BY <2>5
  <2>7. ASSUME NEW t \in SUBSET R PROVE k[t] = h[t]
    <3>1. CASE x \in t
      <4>1. h[t] = g[t \ {x}] + v[x]
        BY <3>1
      <4>2. t \ {x} \in SUBSET S /\ Hid!Max(t) = x /\ t # {}
        BY <1>4, <3>1
      <4> HIDE DEF h
      <4>3. k[t] = k[t \ {x}] + v[x]
        BY <2>1, <4>2
      <4>4. k[t \ {x}] = g[t \ {x}]
        BY <2>6, <4>2
      <4> QED BY <4>1, <4>3, <4>4
    <3>2. CASE x \notin t
      <4>1. h[t] = g[t]
        BY <3>2
      <4>2. t \in SUBSET S
        BY <1>4, <3>2
      <4>3. k[t] = g[t]
        BY <2>6, <4>2
      <4> QED BY <4>1, <4>3
    <3> QED BY <3>1, <3>2
  <2>8. h = [t \in SUBSET R |-> h[t]]
    OBVIOUS
  <2> HIDE DEF h
  <2> QED BY <2>1, <2>7, <2>8
<1>10. OneTotal(v)
  BY <1>8, <1>9 DEF OneTotal
<1>11. TotalOf(w) = g[S]
  BY <1>2 DEF TotalOf
<1>12. TotalOf(v) = h[R]
  BY <1>7, <1>8, <1>9 DEF TotalOf
<1>13. h[R] = g[S] + v[x]
  <2>1. x \in R /\ R \ {x} = S
    BY <1>1
  <2> QED BY <2>1
<1> QED BY <1>10, <1>11, <1>12, <1>13 DEF x

\* The bits of the inputs before a place in its report; the reference adds them up.
Bits(d, k) ==
    [j \in Hid!SameReport(d, k) |-> Hid!LastOf(d, j, "size") * Hid!LastOf(d, j, "count")]

LEMMA StartAddsUp == ASSUME NEW d, NEW k, OneTotal(Bits(d, k)) PROVE Hid!Start(d, k) = TotalOf(Bits(d, k))
<1> DEFINE w == Bits(d, k)
           IsIt(g) == g = [t \in SUBSET DOMAIN w |->
                        IF t = {} THEN 0 ELSE g[t \ {Hid!Max(t)}] + w[Hid!Max(t)]]
<1>1. Hid!Start(d, k) = (CHOOSE g : IsIt(g))[DOMAIN w]
  BY DEF Hid!Start, Hid!MapThenFoldSet, Bits
<1>2. \A g : IsIt(g) <=> IsTotal(g, w)
  BY DEF IsTotal
<1> HIDE DEF IsIt, w
<1>3. PICK g : IsTotal(g, w) /\ \A h : IsTotal(h, w) => h = g
  BY DEF OneTotal, w
<1>4. (CHOOSE h : IsIt(h)) = g /\ (CHOOSE h : IsTotal(h, w)) = g
  BY <1>2, <1>3
<1> QED BY <1>1, <1>4 DEF TotalOf, w

LEMMA BitsGrow ==
    ASSUME NEW d \in Seq(LayoutItem), NEW i \in LayoutItem
    PROVE  /\ \A k \in 1 .. Len(d) + 1 :
                Bits(Append(d, i), k) = Bits(d, k) /\ DOMAIN Bits(d, k) \subseteq 1 .. Len(d)
           /\ i.tag \notin {"id", "input"} =>
                Bits(Append(d, i), Len(d) + 2) = Bits(d, Len(d) + 1)
           /\ i.tag = "input" /\ OneTotal(Bits(d, Len(d) + 1)) =>
                /\ OneTotal(Bits(Append(d, i), Len(d) + 2))
                /\ TotalOf(Bits(Append(d, i), Len(d) + 2))
                     = TotalOf(Bits(d, Len(d) + 1))
                       + Hid!LastOf(d, Len(d) + 1, "size") * Hid!LastOf(d, Len(d) + 1, "count")
           /\ i.tag = "id" /\ i.val # 0
              /\ (\A j \in Hid!Before(d, Len(d) + 1, {"id"}) : d[j].val # i.val) =>
                DOMAIN Bits(Append(d, i), Len(d) + 2) = {}
<1> DEFINE n == Len(d)
           m == Append(d, i)
           B(k) == Hid!Before(d, k, {"input"})
           L(j, tag) == Hid!LastOf(d, j, tag)
<1>1. n \in Nat /\ n + 1 \in 1 .. n + 1 /\ n + 2 = (n + 1) + 1
  BY ItemAppended
<1>2. /\ \A k \in 1 .. n + 1 : Hid!Before(m, k, {"input"}) = B(k) /\ B(k) \subseteq 1 .. n
      /\ i.tag = "input" => Hid!Before(m, n + 2, {"input"}) = B(n + 1) \cup {n + 1}
      /\ i.tag # "input" => Hid!Before(m, n + 2, {"input"}) = B(n + 1)
  <2>1. /\ \A k \in 1 .. n + 1 : Hid!Before(m, k, {"input"}) = B(k)
        /\ i.tag \in {"input"} => Hid!Before(m, n + 2, {"input"}) = B(n + 1) \cup {n + 1}
        /\ i.tag \notin {"input"} => Hid!Before(m, n + 2, {"input"}) = B(n + 1)
        /\ \A k \in 1 .. n + 1 : B(k) \subseteq 1 .. n
    BY BeforeGrows
  <2> HIDE DEF n, m, B
  <2> QED BY <2>1
<1>3. \A tag : /\ \A k \in 1 .. n + 1 : Hid!LastOf(m, k, tag) = L(k, tag) /\ L(k, tag) \in Nat
               /\ Hid!LastOf(m, n + 2, tag) = IF i.tag = tag THEN i.val ELSE L(n + 1, tag)
  BY LastGrows
<1>4. \A j \in 1 .. n : j \in 1 .. n + 1
  BY <1>1
<1> HIDE DEF n, m, B, L
<1>5. \A k : Hid!SameReport(d, k) = {j \in B(k) : L(j, "id") = L(k, "id")}
  BY DEF Hid!SameReport, B, L
<1>6. \A k \in 1 .. n + 1 : Hid!SameReport(m, k) = Hid!SameReport(d, k)
  BY <1>2, <1>3, <1>4, <1>5 DEF Hid!SameReport
<1>7. \A k \in 1 .. n + 1 : Hid!SameReport(d, k) \subseteq 1 .. n
  BY <1>2, <1>5
<1>8. \A k \in 1 .. n + 1 : Bits(m, k) = Bits(d, k) /\ DOMAIN Bits(d, k) \subseteq 1 .. n
  BY <1>3, <1>4, <1>6, <1>7 DEF Bits, L
<1>9. ASSUME i.tag \notin {"id", "input"} PROVE Bits(m, n + 2) = Bits(d, n + 1)
  <2>1. Hid!SameReport(m, n + 2) = Hid!SameReport(d, n + 1)
    BY <1>1, <1>2, <1>3, <1>4, <1>5, <1>9 DEF Hid!SameReport
  <2> QED BY <1>1, <1>3, <1>4, <1>7, <2>1 DEF Bits, L
<1>10. ASSUME i.tag = "input", OneTotal(Bits(d, n + 1))
       PROVE  /\ OneTotal(Bits(m, n + 2))
              /\ TotalOf(Bits(m, n + 2))
                   = TotalOf(Bits(d, n + 1)) + L(n + 1, "size") * L(n + 1, "count")
  <2> DEFINE S == Hid!SameReport(d, n + 1)
  <2>1. Hid!LastOf(m, n + 2, "id") = L(n + 1, "id") /\ Hid!LastOf(m, n + 1, "id") = L(n + 1, "id")
    BY <1>1, <1>3, <1>10
  <2>2. Hid!SameReport(m, n + 2)
          = {j \in B(n + 1) \cup {n + 1} : Hid!LastOf(m, j, "id") = L(n + 1, "id")}
    BY <1>2, <1>10, <2>1 DEF Hid!SameReport
  <2>3. \A j \in B(n + 1) : Hid!LastOf(m, j, "id") = L(j, "id")
    BY <1>1, <1>2, <1>3, <1>4
  <2>4. Hid!SameReport(m, n + 2) = S \cup {n + 1}
    BY <1>5, <2>1, <2>2, <2>3
  <2>5. S \in SUBSET (1 .. n)
    BY <1>1, <1>7
  <2> HIDE DEF S
  <2> DEFINE v == Bits(m, n + 2)
             w == Bits(d, n + 1)
  <2>6. DOMAIN v = S \cup {n + 1} /\ DOMAIN w = S
    BY <2>4 DEF Bits, S
  <2>7. \A j \in S : v[j] = w[j]
    <3>1. TAKE j \in S
    <3>2. v[j] = Hid!LastOf(m, j, "size") * Hid!LastOf(m, j, "count")
      BY <2>4 DEF Bits
    <3>3. w[j] = L(j, "size") * L(j, "count")
      BY DEF Bits, S, L
    <3>4. j \in 1 .. n + 1
      BY <1>4, <2>5
    <3> QED BY <1>3, <3>2, <3>3, <3>4
  <2>8. v[n + 1] = L(n + 1, "size") * L(n + 1, "count")
    <3>1. v[n + 1] = Hid!LastOf(m, n + 1, "size") * Hid!LastOf(m, n + 1, "count")
      BY <2>4 DEF Bits
    <3> QED BY <1>1, <1>3, <3>1
  <2> HIDE DEF v, w
  <2>9. OneTotal(w)
    BY <1>10 DEF w
  <2>10. OneTotal(v) /\ TotalOf(v) = TotalOf(w) + v[n + 1]
    <3>1. \A l \in Nat : \A P \in SUBSET (1 .. l) :
            DOMAIN w = P /\ DOMAIN v = P \cup {l + 1} /\ (\A j \in P : v[j] = w[j])
              => OneTotal(v) /\ TotalOf(v) = TotalOf(w) + v[l + 1]
      BY <2>9, TotalGrows, Zenon
    <3>2. n \in Nat
      BY <1>1
    <3> QED BY <2>5, <2>6, <2>7, <3>1, <3>2, Zenon
  <2> QED BY <2>8, <2>10 DEF v, w
<1>11. ASSUME i.tag = "id", i.val # 0, \A j \in Hid!Before(d, n + 1, {"id"}) : d[j].val # i.val
       PROVE  DOMAIN Bits(m, n + 2) = {}
  <2>1. Hid!LastOf(m, n + 2, "id") = i.val
    BY <1>3, <1>11
  <2>2. \A j \in B(n + 1) : Hid!LastOf(m, j, "id") # i.val
    <3>1. TAKE j \in B(n + 1)
    <3>2. j \in 1 .. n /\ Hid!LastOf(m, j, "id") = Hid!LastOf(d, j, "id")
      BY <1>1, <1>2, <1>3, <1>4 DEF L
    <3> DEFINE js == Hid!Before(d, j, {"id"})
    <3>3. CASE js = {}
      BY <1>11, <3>2, <3>3 DEF Hid!LastOf
    <3>4. CASE js # {}
      <4>1. js \in SUBSET (1 .. n)
        <5>1. j \in 1 .. n + 1
          BY <1>4, <3>2
        <5> QED BY <5>1, BeforeGrows DEF n
      <4>2. Hid!Max(js) \in js
        BY <1>1, <3>4, <4>1, MaxOfPart
      <4>3. js \subseteq Hid!Before(d, n + 1, {"id"})
        <5>1. 1 .. j - 1 \subseteq 1 .. (n + 1) - 1
          BY <1>1, <3>2
        <5> QED BY <5>1 DEF Hid!Before
      <4>4. Hid!LastOf(d, j, "id") = d[Hid!Max(js)].val
        BY <3>4 DEF Hid!LastOf
      <4> QED BY <1>11, <3>2, <4>2, <4>3, <4>4
    <3> QED BY <3>3, <3>4
  <2>3. Hid!Before(m, n + 2, {"input"}) = B(n + 1)
    BY <1>2, <1>11
  <2>4. Hid!SameReport(m, n + 2) = {}
    BY <2>1, <2>2, <2>3 DEF Hid!SameReport
  <2> QED BY <2>4 DEF Bits
<1> QED BY <1>8, <1>9, <1>10, <1>11 DEF n, m, L


LEMMA StartKept ==
    ASSUME NEW d, NEW e, NEW k, NEW l, Bits(d, k) = Bits(e, l)
    PROVE  Hid!Start(d, k) = Hid!Start(e, l)
<1> DEFINE StartOf(w) == (CHOOSE g : g = [t \in SUBSET DOMAIN w |->
                            IF t = {} THEN 0 ELSE g[t \ {Hid!Max(t)}] + w[Hid!Max(t)]])[DOMAIN w]
<1>1. Hid!Start(d, k) = StartOf(Bits(d, k))
  BY DEF Hid!Start, Hid!MapThenFoldSet, Bits
<1>2. Hid!Start(e, l) = StartOf(Bits(e, l))
  BY DEF Hid!Start, Hid!MapThenFoldSet, Bits
<1> HIDE DEF StartOf
<1> QED BY <1>1, <1>2

\* What the reference finds at an input stays as it is when the descriptor goes on.
LEMMA FieldsKept ==
    ASSUME NEW d \in Seq(LayoutItem), NEW i \in LayoutItem, NEW k \in 1 .. Len(d) + 1,
           Hid!Plain(d, k), NEW a
    PROVE  /\ Hid!FieldsOf(Append(d, i), k, a) = Hid!FieldsOf(d, k, a)
           /\ Hid!FieldsOf(d, k, a) \in SUBSET (1 .. Hid!LastOf(d, k, "count"))
           /\ Hid!LastOf(d, k, "count") \in Nat
<1>1. Hid!Usages(Append(d, i), k) = Hid!Usages(d, k)
  BY UsagesGrow
<1>2. \A tag : Hid!LastOf(Append(d, i), k, tag) = Hid!LastOf(d, k, tag)
               /\ Hid!LastOf(d, k, tag) \in Nat
  BY LastGrows
<1>3. Hid!FieldsOf(Append(d, i), k, a) = Hid!FieldsOf(d, k, a)
  BY <1>1, <1>2 DEF Hid!FieldsOf
<1>4. Hid!FieldsOf(d, k, a) \in SUBSET (1 .. Hid!LastOf(d, k, "count"))
  BY DEF Hid!FieldsOf
<1> QED BY <1>2, <1>3, <1>4

LEMMA FieldsAre ==
    ASSUME NEW d, NEW a
    PROVE  \A o : o \in Hid!Fields(d, a) <=>
                    \E k \in Hid!Before(d, Len(d) + 1, {"input"}) :
                        \E f \in Hid!FieldsOf(d, k, a) : o = <<k, f>>
<1>1. \A o, k : o \in {k} \X Hid!FieldsOf(d, k, a)
                  <=> \E f \in Hid!FieldsOf(d, k, a) : o = <<k, f>>
  OBVIOUS
<1>2. \A o : o \in Hid!Fields(d, a) <=>
               \E k \in Hid!Before(d, Len(d) + 1, {"input"}) :
                   o \in {k} \X Hid!FieldsOf(d, k, a)
  BY Zenon DEF Hid!Fields
<1> QED BY <1>1, <1>2

\* The inputs of d have usages or one range.
PlainInputs(d) == \A k \in Hid!Before(d, Len(d) + 1, {"input"}) : Hid!Plain(d, k)

LEMMA FieldsTyped ==
    ASSUME NEW d \in Seq(LayoutItem), NEW a, PlainInputs(d)
    PROVE  \A o \in Hid!Fields(d, a) :
             o = <<o[1], o[2]>> /\ o[1] \in 1 .. Len(d) /\ o[2] \in Nat
<1>1. TAKE o \in Hid!Fields(d, a)
<1>2. PICK k \in Hid!Before(d, Len(d) + 1, {"input"}) :
        \E f \in Hid!FieldsOf(d, k, a) : o = <<k, f>>
  BY FieldsAre
<1>3. PICK i : i \in LayoutItem
  <2>1. [tag |-> "page", val |-> 0] \in LayoutItem
    BY DEF LayoutItem, Tags
  <2> QED BY <2>1
<1>4. Len(d) \in Nat /\ Len(d) + 1 \in 1 .. Len(d) + 1
  BY ItemAppended, <1>3
<1>5. k \in 1 .. Len(d)
  BY <1>3, <1>4, BeforeGrows
<1>6. k \in 1 .. Len(d) + 1 /\ Hid!Plain(d, k)
  BY <1>4, <1>5 DEF PlainInputs
<1>7. Hid!FieldsOf(d, k, a) \in SUBSET (1 .. Hid!LastOf(d, k, "count"))
      /\ Hid!LastOf(d, k, "count") \in Nat
  BY <1>3, <1>6, FieldsKept
<1> QED BY <1>2, <1>5, <1>7

LEMMA FieldsGrow ==
    ASSUME NEW d \in Seq(LayoutItem), NEW i \in LayoutItem, NEW a, PlainInputs(d),
           i.tag = "input" => Hid!Plain(d, Len(d) + 1)
    PROVE  Hid!Fields(Append(d, i), a) =
             IF i.tag = "input"
             THEN Hid!Fields(d, a) \cup ({Len(d) + 1} \X Hid!FieldsOf(d, Len(d) + 1, a))
             ELSE Hid!Fields(d, a)
<1> DEFINE n == Len(d)
           m == Append(d, i)
           B == Hid!Before(d, n + 1, {"input"})
           New == {n + 1} \X Hid!FieldsOf(d, n + 1, a)
<1>1. n \in Nat /\ Len(m) = n + 1 /\ n + 1 \in 1 .. n + 1 /\ (n + 1) + 1 = n + 2
  BY ItemAppended
<1>2. /\ B \subseteq 1 .. n
      /\ i.tag = "input" => Hid!Before(m, n + 2, {"input"}) = B \cup {n + 1}
      /\ i.tag # "input" => Hid!Before(m, n + 2, {"input"}) = B
  <2>1. /\ B \subseteq 1 .. n
        /\ i.tag \in {"input"} => Hid!Before(m, n + 2, {"input"}) = B \cup {n + 1}
        /\ i.tag \notin {"input"} => Hid!Before(m, n + 2, {"input"}) = B
    BY <1>1, BeforeGrows
  <2> HIDE DEF n, m, B
  <2> QED BY <2>1
<1>3. \A k \in B : Hid!FieldsOf(m, k, a) = Hid!FieldsOf(d, k, a)
  <2>1. TAKE k \in B
  <2>2. k \in 1 .. n + 1 /\ Hid!Plain(d, k)
    BY <1>1, <1>2 DEF PlainInputs
  <2> QED BY <2>2, FieldsKept
<1>4. i.tag = "input" => Hid!FieldsOf(m, n + 1, a) = Hid!FieldsOf(d, n + 1, a)
  BY <1>1, FieldsKept
<1>5. \A o : o \in Hid!Fields(m, a) <=>
               \E k \in Hid!Before(m, n + 2, {"input"}) :
                   \E f \in Hid!FieldsOf(m, k, a) : o = <<k, f>>
  <2>1. Len(m) + 1 = n + 2
    BY <1>1
  <2> HIDE DEF m
  <2> QED BY <2>1, FieldsAre
<1>6. \A o : o \in Hid!Fields(d, a) <=> \E k \in B : \E f \in Hid!FieldsOf(d, k, a) : o = <<k, f>>
  BY FieldsAre
<1>7. \A o : o \in New <=> \E f \in Hid!FieldsOf(d, n + 1, a) : o = <<n + 1, f>>
  OBVIOUS
<1> HIDE DEF n, m, B, New
<1>8. CASE i.tag = "input"
  <2>1. \A o : o \in Hid!Fields(m, a) <=> o \in Hid!Fields(d, a) \/ o \in New
    BY <1>2, <1>3, <1>4, <1>5, <1>6, <1>7, <1>8
  <2> QED BY <1>8, <2>1 DEF n, m, New
<1>9. CASE i.tag # "input"
  <2>1. \A o : o \in Hid!Fields(m, a) <=> o \in Hid!Fields(d, a)
    BY <1>2, <1>3, <1>5, <1>6, <1>9
  <2> QED BY <1>9, <2>1 DEF n, m
<1> QED BY <1>8, <1>9

\* Of the fields of an axis one is the last.
IsTop(F, l) == l \in F /\ \A o \in F : o[1] < l[1] \/ (o[1] = l[1] /\ o[2] <= l[2])
HasTop(F) == F = {} \/ \E l : IsTop(F, l)

LEMMA ReferenceIs ==
    ASSUME NEW d, NEW a
    PROVE  Hid!Reference(d, a) =
             IF Hid!Fields(d, a) = {} THEN Hid!NoField
             ELSE LET l == CHOOSE l : IsTop(Hid!Fields(d, a), l)
                  IN  [bit |-> Hid!Start(d, l[1]) + (l[2] - 1) * Hid!LastOf(d, l[1], "size"),
                       size |-> Hid!LastOf(d, l[1], "size"), id |-> Hid!LastOf(d, l[1], "id")]
BY DEF Hid!Reference, IsTop

\* No new field of the axis: the reference stays.
LEMMA ReferenceStays ==
    ASSUME NEW d \in Seq(LayoutItem), NEW i \in LayoutItem, NEW a, PlainInputs(d),
           HasTop(Hid!Fields(d, a)), Hid!Fields(Append(d, i), a) = Hid!Fields(d, a)
    PROVE  Hid!Reference(Append(d, i), a) = Hid!Reference(d, a)
<1> DEFINE l == CHOOSE l : IsTop(Hid!Fields(d, a), l)
           m == Append(d, i)
<1>1. CASE Hid!Fields(d, a) = {}
  BY <1>1, ReferenceIs
<1>2. CASE Hid!Fields(d, a) # {}
  <2>1. l \in Hid!Fields(d, a)
    BY <1>2 DEF HasTop, IsTop
  <2>2. l[1] \in 1 .. Len(d)
    BY <2>1, FieldsTyped
  <2>3. l[1] \in 1 .. Len(d) + 1
    BY <2>2, ItemAppended
  <2>4. Bits(m, l[1]) = Bits(d, l[1])
    BY <2>3, BitsGrow
  <2>5. Hid!Start(m, l[1]) = Hid!Start(d, l[1])
    BY <2>4, StartKept
  <2>6. \A tag : Hid!LastOf(m, l[1], tag) = Hid!LastOf(d, l[1], tag)
    BY <2>3, LastGrows
  <2>7. l = CHOOSE x : IsTop(Hid!Fields(m, a), x)
    OBVIOUS
  <2> HIDE DEF l, m
  <2>8. Hid!Reference(m, a)
          = [bit |-> Hid!Start(m, l[1]) + (l[2] - 1) * Hid!LastOf(m, l[1], "size"),
             size |-> Hid!LastOf(m, l[1], "size"), id |-> Hid!LastOf(m, l[1], "id")]
    BY <1>2, <2>7, ReferenceIs DEF m
  <2>9. Hid!Reference(d, a)
          = [bit |-> Hid!Start(d, l[1]) + (l[2] - 1) * Hid!LastOf(d, l[1], "size"),
             size |-> Hid!LastOf(d, l[1], "size"), id |-> Hid!LastOf(d, l[1], "id")]
    BY <1>2, ReferenceIs DEF l
  <2> QED BY <2>5, <2>6, <2>8, <2>9 DEF m
<1> QED BY <1>1, <1>2

\* Fields of the axis in a new input: the last of them.
LEMMA ReferenceMoves ==
    ASSUME NEW d \in Seq(LayoutItem), NEW i \in LayoutItem, NEW a, PlainInputs(d),
           i.tag = "input", Hid!Plain(d, Len(d) + 1),
           Hid!FieldsOf(d, Len(d) + 1, a) # {}
    PROVE  /\ HasTop(Hid!Fields(Append(d, i), a))
           /\ Hid!Reference(Append(d, i), a) =
                [bit |-> Hid!Start(d, Len(d) + 1)
                           + (Hid!Max(Hid!FieldsOf(d, Len(d) + 1, a)) - 1)
                             * Hid!LastOf(d, Len(d) + 1, "size"),
                 size |-> Hid!LastOf(d, Len(d) + 1, "size"),
                 id |-> Hid!LastOf(d, Len(d) + 1, "id")]
<1> DEFINE n == Len(d)
           m == Append(d, i)
           f == Hid!FieldsOf(d, n + 1, a)
           top == <<n + 1, Hid!Max(f)>>
           F == Hid!Fields(m, a)
<1>1. n \in Nat /\ n + 1 \in 1 .. n + 1
  BY ItemAppended
<1>2. F = Hid!Fields(d, a) \cup ({n + 1} \X f)
  BY FieldsGrow
<1>3. f \in SUBSET (1 .. Hid!LastOf(d, n + 1, "count")) /\ Hid!LastOf(d, n + 1, "count") \in Nat
  BY <1>1, FieldsKept
<1>4. Hid!Max(f) \in f /\ \A y \in f : y <= Hid!Max(f)
  BY <1>3, MaxOfPart
<1>5. \A o \in Hid!Fields(d, a) : o[1] \in 1 .. n
  BY FieldsTyped
<1>6. top \in F /\ top[1] = n + 1 /\ top[2] = Hid!Max(f)
  BY <1>2, <1>4
<1> HIDE DEF f, F, n
<1>7. \A o \in F : o[1] < n + 1 \/ (\E y \in f : o = <<n + 1, y>>)
  <2>1. TAKE o \in F
  <2>2. CASE o \in Hid!Fields(d, a)
    BY <1>1, <1>5, <2>2
  <2>3. CASE o \in {n + 1} \X f
    BY <2>3
  <2> QED BY <1>2, <2>2, <2>3
<1>8. IsTop(F, top)
  <2>1. \A o \in F : o[1] < n + 1 \/ (o[1] = n + 1 /\ o[2] <= Hid!Max(f))
    BY <1>4, <1>7
  <2> QED BY <1>6, <2>1 DEF IsTop
<1>9. \A x : IsTop(F, x) => x = top
  <2>1. SUFFICES ASSUME NEW x, IsTop(F, x) PROVE x = top
    OBVIOUS
  <2>2. x \in F /\ \A o \in F : o[1] < x[1] \/ (o[1] = x[1] /\ o[2] <= x[2])
    BY <2>1 DEF IsTop
  <2>3. n + 1 < x[1] \/ (n + 1 = x[1] /\ Hid!Max(f) <= x[2])
    BY <1>6, <2>2
  <2>4. x[1] < n + 1 \/ \E y \in f : x = <<n + 1, y>>
    BY <1>7, <2>2
  <2>5. CASE \E y \in f : x = <<n + 1, y>>
    <3>1. PICK y \in f : x = <<n + 1, y>>
      BY <2>5
    <3>2. x[1] = n + 1 /\ x[2] = y
      BY <3>1
    <3>3. y <= Hid!Max(f) /\ Hid!Max(f) <= y
      <4>1. ~(n + 1 < x[1])
        BY <1>1, <3>2
      <4> QED BY <1>4, <2>3, <3>2, <4>1
    <3>4. y = Hid!Max(f)
      <4>1. f \subseteq Nat
        BY <1>3
      <4>2. y \in Nat /\ Hid!Max(f) \in Nat
        BY <1>4, <3>1, <4>1
      <4> QED BY <3>3, <4>2
    <3> QED BY <3>1, <3>4
  <2>6. CASE x[1] < n + 1
    <3>1. x \in Hid!Fields(d, a) \/ x \in {n + 1} \X f
      BY <1>2, <2>2
    <3>2. x[1] \in Nat
      <4>1. CASE x \in Hid!Fields(d, a)
        BY <1>1, <1>5, <4>1
      <4>2. CASE x \in {n + 1} \X f
        BY <1>1, <4>2
      <4> QED BY <3>1, <4>1, <4>2
    <3> QED BY <1>1, <2>3, <2>6, <3>2
  <2> QED BY <2>4, <2>5, <2>6
<1>10. F # {}
  BY <1>6
<1> HIDE DEF top
<1>11. (CHOOSE x : IsTop(F, x)) = top
  BY <1>8, <1>9
<1>12. Hid!Reference(m, a)
         = [bit |-> Hid!Start(m, n + 1) + (Hid!Max(f) - 1) * Hid!LastOf(m, n + 1, "size"),
            size |-> Hid!LastOf(m, n + 1, "size"), id |-> Hid!LastOf(m, n + 1, "id")]
  BY <1>6, <1>10, <1>11, ReferenceIs DEF F
<1>13. Bits(m, n + 1) = Bits(d, n + 1)
  BY <1>1, BitsGrow DEF n
<1>14. Hid!Start(m, n + 1) = Hid!Start(d, n + 1)
  BY <1>13, StartKept
<1>15. \A tag : Hid!LastOf(m, n + 1, tag) = Hid!LastOf(d, n + 1, tag)
  BY <1>1, LastGrows DEF n
<1>16. HasTop(F)
  BY <1>8 DEF HasTop
<1> QED BY <1>12, <1>14, <1>15, <1>16 DEF F, m, n, f

\* A descriptor the parser follows, it follows up to every item.
LEMMA FollowedSoFar ==
    ASSUME NEW d \in Seq(LayoutItem), NEW i \in LayoutItem, Hid!Followed(Append(d, i))
    PROVE  /\ Hid!Followed(d)
           /\ i.tag \in Hid!Main => Hid!Plain(d, Len(d) + 1)
           /\ i.tag \in {"output", "feature"} => Hid!Usages(d, Len(d) + 1) = <<>>
           /\ i.tag = "end" => Hid!Own(d, Len(d) + 1, "min") = {}
           /\ i.tag = "id" =>
                i.val # 0 /\ \A j \in Hid!Before(d, Len(d) + 1, {"id"}) : d[j].val # i.val
           /\ i.tag = "input" => Len(Hid!Usages(d, Len(d) + 1)) <= MaxUsages
<1> DEFINE n == Len(d)
           m == Append(d, i)
<1>1. n \in Nat /\ Len(m) = n + 1 /\ m[n + 1] = i /\ \A j \in 1 .. n : m[j] = d[j]
  BY ItemAppended
<1>2. \A k \in 1 .. n + 1 :
        /\ Hid!Own(m, k, "usage") = Hid!Own(d, k, "usage")
        /\ Hid!Own(m, k, "min") = Hid!Own(d, k, "min")
        /\ Hid!Own(m, k, "max") = Hid!Own(d, k, "max")
  <2>1. "usage" \notin Hid!Main /\ "min" \notin Hid!Main /\ "max" \notin Hid!Main
    BY DEF Hid!Main
  <2> QED BY <2>1, OwnGrows
<1>3. \A k \in 1 .. n + 1 : Hid!Plain(m, k) <=> Hid!Plain(d, k)
  BY <1>2 DEF Hid!Plain
<1>4. \A k \in 1 .. n + 1 : Hid!Plain(d, k) => Hid!Usages(m, k) = Hid!Usages(d, k)
  BY UsagesGrow
<1>5. \A k \in 1 .. n + 1 : Hid!Before(m, k, {"id"}) = Hid!Before(d, k, {"id"})
                            /\ Hid!Before(d, k, {"id"}) \subseteq 1 .. n
  BY BeforeGrows
<1> HIDE DEF n, m
<1>6. \A k \in 1 .. n + 1 :
        /\ m[k].tag \in Hid!Main => Hid!Plain(d, k)
        /\ m[k].tag \in {"output", "feature"} => Hid!Usages(m, k) = <<>>
        /\ m[k].tag = "end" => Hid!Own(d, k, "min") = {}
        /\ m[k].tag = "id" =>
             m[k].val # 0 /\ \A j \in Hid!Before(d, k, {"id"}) : m[j].val # m[k].val
        /\ m[k].tag = "input" => Len(Hid!Usages(m, k)) <= MaxUsages
  BY <1>1, <1>2, <1>3, <1>5 DEF Hid!Followed, m
<1>7. {"input", "output", "feature"} \subseteq Hid!Main
  BY DEF Hid!Main
<1>8. \A k \in 1 .. n + 1 :
        m[k].tag \in {"input", "output", "feature"} => Hid!Usages(m, k) = Hid!Usages(d, k)
  BY <1>4, <1>6, <1>7
<1>9. \A k \in 1 .. n + 1 :
        /\ m[k].tag \in {"output", "feature"} => Hid!Usages(d, k) = <<>>
        /\ m[k].tag = "input" => Len(Hid!Usages(d, k)) <= MaxUsages
  BY <1>6, <1>8
<1>10. \A k \in 1 .. n + 1 :
        m[k].tag = "id" =>
          m[k].val # 0 /\ \A j \in Hid!Before(d, k, {"id"}) : d[j].val # m[k].val
  BY <1>1, <1>5, <1>6
<1>11. Hid!Followed(d)
  <2>1. \A k \in 1 .. n : k \in 1 .. n + 1 /\ m[k] = d[k]
    BY <1>1
  <2> QED BY <1>6, <1>9, <1>10, <2>1 DEF Hid!Followed, n
<1>12. n + 1 \in 1 .. n + 1
  BY <1>1
<1> QED BY <1>1, <1>6, <1>9, <1>10, <1>11, <1>12 DEF n

LEMMA FollowedInputs ==
    ASSUME NEW d \in Seq(LayoutItem), Hid!Followed(d) PROVE PlainInputs(d)
<1>1. \A k \in Hid!Before(d, Len(d) + 1, {"input"}) :
        k \in 1 .. Len(d) /\ d[k].tag \in Hid!Main
  BY LenProperties DEF Hid!Before, Hid!Main
<1> QED BY <1>1 DEF PlainInputs, Hid!Followed

\* What the parser has read of a descriptor: the items in force, ...
GlobalsRead(d, g, x) ==
    /\ \A tag \in {"page", "size", "count"} : g[tag] = Hid!LastOf(d, Len(d) + 1, tag)
    /\ x = Hid!LastOf(d, Len(d) + 1, "id")

\* ... how far the report has come, ...
PositionRead(d, b) ==
    OneTotal(Bits(d, Len(d) + 1)) /\ b = TotalOf(Bits(d, Len(d) + 1))

\* ... the usages of the next main item, a range that names none being none, ...
LocalsRead(d, u, r) ==
    LET own(tag) == Hid!Own(d, Len(d) + 1, tag) IN
    /\ Cardinality(own("usage")) <= MaxUsages => u = Naming(d, own("usage"))
    /\ own("min") # {} => r.min = d[Hid!Max(own("min"))].val
    /\ own("max") # {} => r.max = d[Hid!Max(own("max"))].val
    /\ own("min") = {} /\ own("max") = {} => r.max < r.min \/ r = Hid!None

\* ... and the axes.
AxesRead(d, l) ==
    \A a \in Hid!Axes : HasTop(Hid!Fields(d, a)) /\ l[a] = Hid!Reference(d, a)

Globals == [page : Nat, size : Nat, count : Nat]

LEMMA GlobalsGrow ==
    ASSUME NEW d \in Seq(LayoutItem), NEW i \in LayoutItem, NEW g \in Globals, NEW x,
           GlobalsRead(d, g, x)
    PROVE  /\ i.tag \in {"page", "size", "count"} =>
                GlobalsRead(Append(d, i), [g EXCEPT ![i.tag] = i.val], x)
           /\ i.tag = "id" => GlobalsRead(Append(d, i), g, i.val)
           /\ i.tag \notin {"page", "size", "count", "id"} => GlobalsRead(Append(d, i), g, x)
<1> DEFINE n == Len(d)
           m == Append(d, i)
<1>1. n \in Nat /\ Len(m) = n + 1 /\ (n + 1) + 1 = n + 2
  BY ItemAppended
<1>2. \A tag : Hid!LastOf(m, n + 2, tag)
                 = IF i.tag = tag THEN i.val ELSE Hid!LastOf(d, n + 1, tag)
  BY LastGrows
<1>3. \A tag : Hid!LastOf(m, Len(m) + 1, tag)
                 = IF i.tag = tag THEN i.val ELSE Hid!LastOf(d, n + 1, tag)
  BY <1>1, <1>2
<1> HIDE DEF m, n
<1>4. /\ \A tag \in {"page", "size", "count"} : g[tag] = Hid!LastOf(d, n + 1, tag)
      /\ x = Hid!LastOf(d, n + 1, "id")
  BY DEF GlobalsRead, n
<1>5. ASSUME i.tag \in {"page", "size", "count"}
      PROVE  GlobalsRead(m, [g EXCEPT ![i.tag] = i.val], x)
  <2>1. \A tag \in {"page", "size", "count"} :
          [g EXCEPT ![i.tag] = i.val][tag] = IF i.tag = tag THEN i.val ELSE g[tag]
    BY DEF Globals
  <2>2. \A tag \in {"page", "size", "count"} :
          [g EXCEPT ![i.tag] = i.val][tag] = Hid!LastOf(m, Len(m) + 1, tag)
    BY <1>3, <1>4, <2>1
  <2>3. x = Hid!LastOf(m, Len(m) + 1, "id")
    BY <1>3, <1>4, <1>5
  <2> QED BY <2>2, <2>3 DEF GlobalsRead
<1>6. i.tag = "id" => GlobalsRead(m, g, i.val)
  BY <1>3, <1>4 DEF GlobalsRead
<1>7. i.tag \notin {"page", "size", "count", "id"} => GlobalsRead(m, g, x)
  BY <1>3, <1>4 DEF GlobalsRead
<1> QED BY <1>5, <1>6, <1>7 DEF m

LEMMA PositionGrows ==
    ASSUME NEW d \in Seq(LayoutItem), NEW i \in LayoutItem, NEW b, PositionRead(d, b)
    PROVE  /\ i.tag \notin {"id", "input"} => PositionRead(Append(d, i), b)
           /\ \A g \in Globals : \A x : i.tag = "input" /\ GlobalsRead(d, g, x) =>
                PositionRead(Append(d, i), b + g.count * g.size)
           /\ i.tag = "id" /\ i.val # 0
              /\ (\A j \in Hid!Before(d, Len(d) + 1, {"id"}) : d[j].val # i.val) =>
                PositionRead(Append(d, i), 0)
<1> DEFINE n == Len(d)
           m == Append(d, i)
<1>1. Len(m) + 1 = n + 2
  BY ItemAppended
<1>2. OneTotal(Bits(d, n + 1)) /\ b = TotalOf(Bits(d, n + 1))
  BY DEF PositionRead
<1>3. i.tag \notin {"id", "input"} => PositionRead(m, b)
  <2>1. i.tag \notin {"id", "input"} => Bits(m, n + 2) = Bits(d, n + 1)
    BY BitsGrow
  <2> HIDE DEF m, n
  <2> QED BY <1>1, <1>2, <2>1 DEF PositionRead
<1>4. ASSUME NEW g \in Globals, NEW x, i.tag = "input", GlobalsRead(d, g, x)
      PROVE  PositionRead(m, b + g.count * g.size)
  <2>1. OneTotal(Bits(m, n + 2))
        /\ TotalOf(Bits(m, n + 2))
             = TotalOf(Bits(d, n + 1))
               + Hid!LastOf(d, n + 1, "size") * Hid!LastOf(d, n + 1, "count")
    BY <1>2, <1>4, BitsGrow
  <2>2. g.size = Hid!LastOf(d, n + 1, "size") /\ g.count = Hid!LastOf(d, n + 1, "count")
        /\ g.size \in Nat /\ g.count \in Nat
    BY <1>4 DEF GlobalsRead, Globals
  <2>3. g.count * g.size = g.size * g.count
    BY <2>2
  <2> HIDE DEF m, n
  <2> QED BY <1>1, <1>2, <2>1, <2>2, <2>3 DEF PositionRead
<1>5. ASSUME i.tag = "id", i.val # 0,
             \A j \in Hid!Before(d, n + 1, {"id"}) : d[j].val # i.val
      PROVE  PositionRead(m, 0)
  <2>1. DOMAIN Bits(m, n + 2) = {}
    BY <1>5, BitsGrow
  <2> HIDE DEF m, n
  <2> QED BY <1>1, <2>1, TotalStarts DEF PositionRead
<1> QED BY <1>3, <1>4, <1>5

LEMMA NamingNone == ASSUME NEW d \in Seq(LayoutItem) PROVE Naming(d, {}) = <<>>
<1>1. Cardinality({}) = 0
  BY FS_EmptySet
<1>2. Naming(d, {}) = [r \in 1 .. 0 |-> d[Hid!Nth({}, r)].val]
  BY <1>1 DEF Naming
<1>3. 1 .. 0 = {}
  OBVIOUS
<1>4. Naming(d, {}) \in [1 .. 0 -> Nat]
  BY <1>2, <1>3
<1>5. Naming(d, {}) \in Seq(Nat) /\ Len(Naming(d, {})) = 0
  BY <1>4, IsASeq, LenProperties
<1> QED BY <1>5, EmptySeq

Ranges == [min : Nat, max : Nat]

\* After a main item nothing is left: the range is none or was none before.
LEMMA LocalsForgotten ==
    ASSUME NEW d \in Seq(LayoutItem), NEW i \in LayoutItem, NEW r \in Ranges,
           i.tag \in Hid!Main, r.max < r.min \/ r = Hid!None
    PROVE  LocalsRead(Append(d, i), <<>>, r)
<1> DEFINE m == Append(d, i)
<1>1. Len(m) + 1 = Len(d) + 2 /\ m \in Seq(LayoutItem)
  BY ItemAppended
<1>2. "usage" \notin Hid!Main /\ "min" \notin Hid!Main /\ "max" \notin Hid!Main
  BY DEF Hid!Main
<1>3. /\ Hid!Own(m, Len(d) + 2, "usage") = {} /\ Hid!Own(m, Len(d) + 2, "min") = {}
      /\ Hid!Own(m, Len(d) + 2, "max") = {}
  BY <1>2, OwnGrows
<1>4. Naming(m, {}) = <<>>
  BY <1>1, NamingNone
<1> HIDE DEF m
<1>5. /\ Hid!Own(m, Len(m) + 1, "usage") = {} /\ Hid!Own(m, Len(m) + 1, "min") = {}
      /\ Hid!Own(m, Len(m) + 1, "max") = {}
  BY <1>1, <1>3
<1>6. LocalsRead(m, <<>>, r)
  BY <1>4, <1>5 DEF LocalsRead
<1> QED BY <1>6 DEF m

LEMMA LocalsGrow ==
    ASSUME NEW d \in Seq(LayoutItem), NEW i \in LayoutItem, NEW u \in Seq(Nat), NEW r \in Ranges,
           LocalsRead(d, u, r)
    PROVE  /\ i.tag = "usage" =>
                LocalsRead(Append(d, i), IF Len(u) < MaxUsages THEN Append(u, i.val) ELSE u, r)
           /\ i.tag \in {"min", "max"} =>
                LocalsRead(Append(d, i), u, [r EXCEPT ![i.tag] = i.val])
           /\ i.tag \notin Hid!Main \cup {"usage", "min", "max"} =>
                LocalsRead(Append(d, i), u, r)
<1> DEFINE n == Len(d)
           m == Append(d, i)
           Own(tag) == Hid!Own(d, n + 1, tag)
           After(tag) == Hid!Own(m, n + 2, tag)
<1>1. n \in Nat /\ Len(m) + 1 = n + 2 /\ m[n + 1] = i /\ i.val \in Nat
      /\ \A j \in 1 .. n : m[j] = d[j]
  BY ItemAppended DEF LayoutItem
<1>2. ASSUME NEW tag \in {"usage", "min", "max"}
      PROVE  /\ Own(tag) \in SUBSET (1 .. n)
             /\ i.tag = tag => After(tag) = Own(tag) \cup {n + 1}
             /\ i.tag \notin Hid!Main \cup {tag} => After(tag) = Own(tag)
  <2>1. tag \notin Hid!Main
    BY DEF Hid!Main
  <2>2. n + 1 \in 1 .. n + 1
    BY <1>1
  <2> QED BY <2>1, <2>2, OwnGrows
<1>3. "usage" \notin Hid!Main /\ "min" \notin Hid!Main /\ "max" \notin Hid!Main
  BY DEF Hid!Main
<1>4. ASSUME NEW tag \in {"min", "max"}, Own(tag) # {}
      PROVE  m[Hid!Max(Own(tag))] = d[Hid!Max(Own(tag))]
  <2>1. Own(tag) \in SUBSET (1 .. n)
    BY <1>2
  <2> HIDE DEF Own
  <2>2. Hid!Max(Own(tag)) \in 1 .. n
    BY <1>1, <1>4, <2>1, MaxOfPart
  <2> QED BY <1>1, <2>2
<1>5. ASSUME NEW tag \in {"min", "max"}, i.tag = tag
      PROVE  After(tag) # {} /\ m[Hid!Max(After(tag))].val = i.val
  <2>1. After(tag) = Own(tag) \cup {n + 1} /\ Own(tag) \in SUBSET (1 .. n)
    BY <1>2, <1>5
  <2> HIDE DEF Own, After
  <2>2. After(tag) \in SUBSET (1 .. n + 1) /\ n + 1 \in After(tag)
        /\ (\A y \in After(tag) : y <= n + 1) /\ n + 1 \in Nat
    BY <1>1, <2>1
  <2>3. Hid!Max(After(tag)) = n + 1
    BY <2>2, MaxIs
  <2> QED BY <1>1, <2>2, <2>3
<1>6. Naming(m, Own("usage")) = Naming(d, Own("usage"))
      /\ Len(Naming(d, Own("usage"))) = Cardinality(Own("usage"))
      /\ Cardinality(Own("usage")) \in Nat
  BY <1>2, NamingKept
<1>7. i.tag = "usage" =>
        /\ Naming(m, After("usage")) = Append(Naming(d, Own("usage")), i.val)
        /\ Cardinality(After("usage")) = Cardinality(Own("usage")) + 1
  <2>1. Own("usage") \in SUBSET (1 .. n) /\ (i.tag = "usage" => After("usage") = Own("usage") \cup {n + 1})
    BY <1>2
  <2>2. /\ Naming(m, Own("usage") \cup {n + 1}) = Append(Naming(d, Own("usage")), i.val)
        /\ Cardinality(Own("usage") \cup {n + 1}) = Cardinality(Own("usage")) + 1
    BY <2>1, NamingGrows
  <2> HIDE DEF Own, After, m, n
  <2> QED BY <2>1, <2>2
<1>8. /\ Cardinality(Own("usage")) <= MaxUsages => u = Naming(d, Own("usage"))
      /\ Own("min") # {} => r.min = d[Hid!Max(Own("min"))].val
      /\ Own("max") # {} => r.max = d[Hid!Max(Own("max"))].val
      /\ Own("min") = {} /\ Own("max") = {} => r.max < r.min \/ r = Hid!None
  BY DEF LocalsRead
<1>9. ASSUME NEW v, NEW s,
             Cardinality(After("usage")) <= MaxUsages => v = Naming(m, After("usage")),
             After("min") # {} => s.min = m[Hid!Max(After("min"))].val,
             After("max") # {} => s.max = m[Hid!Max(After("max"))].val,
             After("min") = {} /\ After("max") = {} => s.max < s.min \/ s = Hid!None
      PROVE  LocalsRead(m, v, s)
  BY <1>1, <1>9 DEF LocalsRead
<1> HIDE DEF m, n, Own, After
<1>10. CASE i.tag = "usage"
  <2> DEFINE v == IF Len(u) < MaxUsages THEN Append(u, i.val) ELSE u
  <2>1. After("min") = Own("min") /\ After("max") = Own("max")
    BY <1>2, <1>3, <1>10
  <2>2. Cardinality(After("usage")) <= MaxUsages => v = Naming(m, After("usage"))
    BY <1>6, <1>7, <1>8, <1>10, BoundsAssumption
  <2>3. /\ After("min") # {} => r.min = m[Hid!Max(After("min"))].val
        /\ After("max") # {} => r.max = m[Hid!Max(After("max"))].val
    BY <1>4, <1>8, <2>1
  <2>4. After("min") = {} /\ After("max") = {} => r.max < r.min \/ r = Hid!None
    BY <1>8, <2>1
  <2> HIDE DEF v
  <2>5. LocalsRead(m, v, r)
    BY <1>9, <2>2, <2>3, <2>4
  <2> QED BY <1>10, <2>5 DEF m, v
<1>11. CASE i.tag \in {"min", "max"}
  <2> DEFINE s == [r EXCEPT ![i.tag] = i.val]
  <2>1. After("usage") = Own("usage")
    BY <1>2, <1>3, <1>11
  <2>2. \A tag \in {"min", "max"} : s[tag] = IF i.tag = tag THEN i.val ELSE r[tag]
    BY DEF Ranges
  <2>3. After(i.tag) # {} /\ m[Hid!Max(After(i.tag))].val = i.val
    BY <1>5, <1>11
  <2>4. \A tag \in {"min", "max"} : i.tag # tag => After(tag) = Own(tag)
    BY <1>2, <1>3, <1>11
  <2> HIDE DEF s
  <2>5. Cardinality(After("usage")) <= MaxUsages => u = Naming(m, After("usage"))
    BY <1>6, <1>8, <2>1
  <2>6. After("min") # {} => s.min = m[Hid!Max(After("min"))].val
    BY <1>4, <1>8, <2>2, <2>3, <2>4
  <2>7. After("max") # {} => s.max = m[Hid!Max(After("max"))].val
    BY <1>4, <1>8, <2>2, <2>3, <2>4
  <2>8. ~(After("min") = {} /\ After("max") = {})
    BY <1>11, <2>3
  <2>9. LocalsRead(m, u, s)
    BY <1>9, <2>5, <2>6, <2>7, <2>8
  <2>10. i.tag # "usage" /\ i.tag \notin {"input"}
    BY <1>11
  <2> QED BY <1>11, <2>9, <2>10 DEF m, s
<1>12. CASE i.tag \notin Hid!Main \cup {"usage", "min", "max"}
  <2>1. \A tag \in {"usage", "min", "max"} : After(tag) = Own(tag)
    BY <1>2, <1>12
  <2>2. Cardinality(After("usage")) <= MaxUsages => u = Naming(m, After("usage"))
    BY <1>6, <1>8, <2>1
  <2>3. /\ After("min") # {} => r.min = m[Hid!Max(After("min"))].val
        /\ After("max") # {} => r.max = m[Hid!Max(After("max"))].val
    BY <1>4, <1>8, <2>1
  <2>4. After("min") = {} /\ After("max") = {} => r.max < r.min \/ r = Hid!None
    BY <1>8, <2>1
  <2>5. LocalsRead(m, u, r)
    BY <1>9, <2>2, <2>3, <2>4
  <2> QED BY <1>12, <2>5 DEF m
<1> QED BY <1>10, <1>11, <1>12

\* The range of a main item the parser leaves it with names nothing.
LEMMA NothingLeft ==
    ASSUME NEW d \in Seq(LayoutItem), NEW u \in Seq(Nat), NEW r \in Ranges,
           LocalsRead(d, u, r), Hid!Plain(d, Len(d) + 1)
    PROVE  /\ Hid!Own(d, Len(d) + 1, "min") = {} => r.max < r.min \/ r = Hid!None
           /\ Hid!Usages(d, Len(d) + 1) = <<>> =>
                u = <<>> /\ (r.max < r.min \/ r = Hid!None)
           /\ Hid!Own(d, Len(d) + 1, "usage") = {} => u = <<>>
<1> DEFINE k == Len(d) + 1
           Own(tag) == Hid!Own(d, k, tag)
<1>1. /\ Cardinality(Own("usage")) <= MaxUsages => u = Naming(d, Own("usage"))
      /\ Own("min") # {} => r.min = d[Hid!Max(Own("min"))].val
      /\ Own("max") # {} => r.max = d[Hid!Max(Own("max"))].val
      /\ Own("min") = {} /\ Own("max") = {} => r.max < r.min \/ r = Hid!None
  BY DEF LocalsRead
<1>2. Own("min") = {} <=> Own("max") = {}
  BY DEF Hid!Plain
<1>3. PICK i : i \in LayoutItem
  <2>1. [tag |-> "page", val |-> 0] \in LayoutItem
    BY DEF LayoutItem, Tags
  <2> QED BY <2>1
<1>4. Own("usage") \in SUBSET (1 .. Len(d))
  <2>1. "usage" \notin Hid!Main /\ k \in 1 .. Len(d) + 1
    BY LenProperties DEF Hid!Main
  <2> QED BY <1>3, <2>1, OwnGrows
<1>5. Own("usage") = {} => u = <<>>
  <2>1. SUFFICES ASSUME Own("usage") = {} PROVE u = <<>>
    OBVIOUS
  <2> HIDE DEF Own
  <2>2. Cardinality(Own("usage")) = 0
    BY <2>1, FS_EmptySet
  <2>3. u = Naming(d, Own("usage"))
    BY <1>1, <2>2, BoundsAssumption
  <2>4. Naming(d, {}) = <<>>
    BY NamingNone
  <2> QED BY <2>1, <2>3, <2>4
<1>6. ASSUME Hid!Usages(d, k) = <<>> PROVE Own("usage") = {} /\ (r.max < r.min \/ r = Hid!None)
  <2>1. <<>> = IF Own("usage") # {} THEN Naming(d, Own("usage"))
               ELSE IF Own("min") = {} THEN <<>>
               ELSE [n \in 1 .. d[Hid!Max(Own("max"))].val - d[Hid!Max(Own("min"))].val + 1 |->
                       d[Hid!Max(Own("min"))].val + n - 1]
    BY <1>6, UsagesAre
  <2>2. Own("usage") # {} => Len(Naming(d, Own("usage"))) > 0
    <3>1. Len(Naming(d, Own("usage"))) = Cardinality(Own("usage"))
      BY <1>3, <1>4, NamingKept
    <3>2. IsFiniteSet(Own("usage")) /\ Cardinality(Own("usage")) \in Nat
      BY <1>4, PositionsFinite, LenProperties
    <3> HIDE DEF Own
    <3> QED BY <3>1, <3>2, FS_EmptySet
  <2> HIDE DEF Own
  <2>3. Own("usage") = {}
    BY <2>1, <2>2, EmptySeq
  <2>4. CASE Own("min") = {}
    BY <1>1, <1>2, <2>3, <2>4
  <2>5. CASE Own("min") # {}
    <3>1. <<>> = [n \in 1 .. r.max - r.min + 1 |-> r.min + n - 1]
      BY <1>1, <1>2, <2>1, <2>3, <2>5
    <3>2. DOMAIN <<>> = 1 .. r.max - r.min + 1
      BY <3>1
    <3>3. 1 .. r.max - r.min + 1 = {}
      BY <3>2
    <3>4. r.max \in Nat /\ r.min \in Nat
      BY DEF Ranges
    <3>5. r.max < r.min
      <4>1. ~(1 \in 1 .. r.max - r.min + 1)
        BY <3>3
      <4> QED BY <3>4, <4>1
    <3> QED BY <2>3, <3>5
  <2> QED BY <2>4, <2>5
<1> QED BY <1>1, <1>2, <1>5, <1>6

\* The usages the parser gives the fields of an input are the input's.
LEMMA UsagesRead ==
    ASSUME NEW d \in Seq(LayoutItem), usages \in Seq(Nat), range \in Ranges,
           LocalsRead(d, usages, range), Hid!Plain(d, Len(d) + 1),
           Len(Hid!Usages(d, Len(d) + 1)) <= MaxUsages,
           NEW f \in Nat \ {0}, NEW a \in Hid!Axes
    PROVE  LET u == Hid!Usages(d, Len(d) + 1) IN
           Hid!UsageAt(Hid!UsageOf(f)) = a
             <=> u # <<>> /\ Hid!UsageAt(u[IF f <= Len(u) THEN f ELSE Len(u)]) = a
<1> DEFINE u == Hid!Usages(d, Len(d) + 1)
           k == Len(d) + 1
           Own(tag) == Hid!Own(d, k, tag)
<1>1. /\ Cardinality(Own("usage")) <= MaxUsages => usages = Naming(d, Own("usage"))
      /\ Own("min") # {} => range.min = d[Hid!Max(Own("min"))].val
      /\ Own("max") # {} => range.max = d[Hid!Max(Own("max"))].val
      /\ Own("min") = {} /\ Own("max") = {} => range.max < range.min \/ range = Hid!None
  BY DEF LocalsRead
<1>2. /\ Own("min") = {} <=> Own("max") = {}
      /\ Own("usage") = {} \/ Own("min") = {}
  BY DEF Hid!Plain
<1>3. u = IF Own("usage") # {} THEN Naming(d, Own("usage"))
          ELSE IF Own("min") = {} THEN <<>>
          ELSE [n \in 1 .. d[Hid!Max(Own("max"))].val - d[Hid!Max(Own("min"))].val + 1 |->
                  d[Hid!Max(Own("min"))].val + n - 1]
  BY UsagesAre
<1>4. Own("usage") = {} => usages = <<>>
  BY NothingLeft
<1>5. Hid!UsageAt(0) # a
  BY DEF Hid!UsageAt, Hid!Usage, Hid!Axes
<1>6. PICK i : i \in LayoutItem
  <2>1. [tag |-> "page", val |-> 0] \in LayoutItem
    BY DEF LayoutItem, Tags
  <2> QED BY <2>1
<1>7. Own("usage") \in SUBSET (1 .. Len(d))
  <2>1. "usage" \notin Hid!Main /\ k \in 1 .. Len(d) + 1
    BY LenProperties DEF Hid!Main
  <2> QED BY <1>6, <2>1, OwnGrows
<1>8. Naming(d, Own("usage")) \in Seq(Nat)
      /\ Len(Naming(d, Own("usage"))) = Cardinality(Own("usage"))
  BY <1>6, <1>7, NamingKept
<1>9. range.min \in Nat /\ range.max \in Nat
  BY DEF Ranges
<1>10. Hid!UsageOf(f) = IF Hid!Named = <<>> THEN 0
                        ELSE Hid!Named[IF f <= Len(Hid!Named) THEN f ELSE Len(Hid!Named)]
  BY DEF Hid!UsageOf
<1>11. Len(u) <= MaxUsages
  OBVIOUS
<1> HIDE DEF Own, u
<1>12. ASSUME Hid!Named = u PROVE Hid!UsageAt(Hid!UsageOf(f)) = a
             <=> u # <<>> /\ Hid!UsageAt(u[IF f <= Len(u) THEN f ELSE Len(u)]) = a
  <2>1. CASE u = <<>>
    BY <1>5, <1>10, <1>12, <2>1
  <2>2. CASE u # <<>>
    BY <1>10, <1>12, <2>2
  <2> QED BY <2>1, <2>2
<1>13. ASSUME u = <<>>, Hid!UsageOf(f) = 0 PROVE Hid!UsageAt(Hid!UsageOf(f)) = a
             <=> u # <<>> /\ Hid!UsageAt(u[IF f <= Len(u) THEN f ELSE Len(u)]) = a
  BY <1>5, <1>13
<1>14. CASE Own("usage") # {}
  <2>1. u = Naming(d, Own("usage"))
    BY <1>3, <1>14
  <2>2. usages = u
    BY <1>1, <1>8, <1>11, <2>1
  <2>3. Own("usage") # {} => Cardinality(Own("usage")) # 0
    <3>1. IsFiniteSet(Own("usage"))
      BY <1>7, PositionsFinite, LenProperties
    <3> QED BY <3>1, FS_EmptySet
  <2>4. usages # <<>>
    BY <1>8, <1>14, <2>1, <2>2, <2>3, EmptySeq
  <2>5. Hid!Named = u
    BY <2>2, <2>4 DEF Hid!Named
  <2> QED BY <1>12, <2>5 DEF u
<1>15. CASE Own("usage") = {} /\ Own("min") = {}
  <2>1. u = <<>> /\ usages = <<>> /\ (range.max < range.min \/ range = Hid!None)
    BY <1>1, <1>2, <1>3, <1>4, <1>15
  <2>2. CASE range.max < range.min
    <3>1. Hid!Named = u
      BY <2>1, <2>2 DEF Hid!Named
    <3> QED BY <1>12, <3>1 DEF u
  <2>3. CASE ~(range.max < range.min)
    <3>1. range.min = 0 /\ range.max = 0
      BY <2>1, <2>3 DEF Hid!None
    <3>2. Hid!Named = [n \in 1 .. Hid!Min({0 - 0 + 1, MaxUsages}) |-> 0 + n - 1]
      BY <2>1, <2>3, <3>1 DEF Hid!Named
    <3>3. Hid!Min({0 - 0 + 1, MaxUsages}) = IF 1 <= MaxUsages THEN 1 ELSE MaxUsages
      <4>1. \A x, y \in Nat : Hid!Min({x, y}) = IF x <= y THEN x ELSE y
        BY DEF Hid!Min
      <4>2. 0 - 0 + 1 = 1
        OBVIOUS
      <4> QED BY <4>1, <4>2, BoundsAssumption
    <3>4. CASE MaxUsages = 0
      <4>1. Hid!Named = <<>>
        <5>1. Hid!Named \in [1 .. 0 -> Nat]
          BY <3>2, <3>3, <3>4
        <5>2. Hid!Named \in Seq(Nat) /\ Len(Hid!Named) = 0
          BY <5>1, IsASeq, LenProperties
        <5> QED BY <5>2, EmptySeq
      <4> QED BY <1>12, <2>1, <4>1 DEF u
    <3>5. CASE MaxUsages # 0
      <4>1. Hid!Named = [n \in 1 .. 1 |-> n - 1]
        BY <3>2, <3>3, <3>5, BoundsAssumption
      <4>2. Hid!Named \in Seq(Nat) /\ Len(Hid!Named) = 1 /\ Hid!Named[1] = 0
        <5>1. Hid!Named \in [1 .. 1 -> Nat]
          BY <4>1
        <5> QED BY <4>1, <5>1, IsASeq, LenProperties
      <4>3. Hid!UsageOf(f) = 0
        <5>1. f <= 1 => f = 1
          OBVIOUS
        <5> QED BY <1>10, <4>2, <5>1
      <4> QED BY <1>13, <2>1, <4>3 DEF u
    <3> QED BY <3>4, <3>5
  <2> QED BY <2>2, <2>3
<1>16. CASE Own("usage") = {} /\ Own("min") # {}
  <2>1. u = [n \in 1 .. range.max - range.min + 1 |-> range.min + n - 1]
    BY <1>1, <1>2, <1>3, <1>16
  <2>2. usages = <<>>
    BY <1>4, <1>16
  <2>3. CASE range.max < range.min
    <3>1. u \in [1 .. 0 -> Nat]
      <4>1. 1 .. range.max - range.min + 1 = {} /\ 1 .. 0 = {}
        BY <1>9, <2>3
      <4> QED BY <2>1, <4>1
    <3>2. u = <<>>
      <4>1. u \in Seq(Nat) /\ Len(u) = 0
        BY <3>1, IsASeq, LenProperties
      <4> QED BY <4>1, EmptySeq
    <3>3. Hid!Named = u
      BY <2>2, <2>3, <3>2 DEF Hid!Named
    <3> QED BY <1>12, <3>3 DEF u
  <2>4. CASE ~(range.max < range.min)
    <3> DEFINE c == range.max - range.min + 1
    <3>1. c \in Nat
      BY <1>9, <2>4
    <3>2. u \in [1 .. c -> Nat]
      BY <1>9, <2>1, <3>1
    <3>3. Len(u) = c
      <4> HIDE DEF c
      <4>1. u \in Seq(Nat)
        BY <3>1, <3>2, IsASeq
      <4> QED BY <3>1, <3>2, <4>1, LenProperties
    <3>4. Hid!Min({c, MaxUsages}) = c
      <4>1. \A x, y \in Nat : x <= y => Hid!Min({x, y}) = x
        BY DEF Hid!Min
      <4> HIDE DEF c
      <4> QED BY <1>11, <3>1, <3>3, <4>1, BoundsAssumption
    <3>5. Hid!Named = [n \in 1 .. Hid!Min({c, MaxUsages}) |-> range.min + n - 1]
      BY <2>2, <2>4 DEF Hid!Named
    <3>6. Hid!Named = u
      BY <2>1, <3>4, <3>5
    <3> QED BY <1>12, <3>6 DEF u
  <2> QED BY <2>3, <2>4
<1> QED BY <1>14, <1>15, <1>16

LEMMA AxesKept ==
    ASSUME NEW d \in Seq(LayoutItem), NEW i \in LayoutItem, NEW l,
           i.tag # "input", PlainInputs(d), AxesRead(d, l)
    PROVE  AxesRead(Append(d, i), l)
<1>1. SUFFICES ASSUME NEW a \in Hid!Axes
               PROVE  HasTop(Hid!Fields(Append(d, i), a)) /\ l[a] = Hid!Reference(Append(d, i), a)
  BY DEF AxesRead
<1>2. HasTop(Hid!Fields(d, a)) /\ l[a] = Hid!Reference(d, a)
  BY DEF AxesRead
<1>3. Hid!Fields(Append(d, i), a) = Hid!Fields(d, a)
  BY FieldsGrow
<1>4. Hid!Reference(Append(d, i), a) = Hid!Reference(d, a)
  BY <1>2, <1>3, ReferenceStays
<1> QED BY <1>2, <1>3, <1>4

LEMMA AxesMove ==
    ASSUME items \in Seq(LayoutItem), usages \in Seq(Nat), range \in Ranges, global \in Globals,
           NEW i \in LayoutItem, Hid!Input(i), PlainInputs(items),
           Hid!Plain(items, Len(items) + 1),
           Len(Hid!Usages(items, Len(items) + 1)) <= MaxUsages,
           GlobalsRead(items, global, id), PositionRead(items, bit),
           LocalsRead(items, usages, range), AxesRead(items, layout)
    PROVE  AxesRead(Append(items, i), layout')
<1> DEFINE n == Len(items)
           found(a) == {f \in 1 .. global.count :
                          global.page = Hid!Desktop /\ Hid!UsageAt(Hid!UsageOf(f)) = a}
<1>1. i.tag = "input"
  BY DEF Hid!Input
<1>2. \A a \in Hid!Axes :
        layout'[a] = IF found(a) = {} THEN layout[a]
                     ELSE [bit |-> bit + (Hid!Max(found(a)) - 1) * global.size,
                           size |-> global.size, id |-> id]
  BY DEF Hid!Input
<1>3. /\ global.page = Hid!LastOf(items, n + 1, "page")
      /\ global.size = Hid!LastOf(items, n + 1, "size")
      /\ global.count = Hid!LastOf(items, n + 1, "count")
      /\ id = Hid!LastOf(items, n + 1, "id")
      /\ global.count \in Nat
  BY DEF GlobalsRead, Globals
<1>4. ASSUME NEW a \in Hid!Axes PROVE found(a) = Hid!FieldsOf(items, n + 1, a)
  <2> DEFINE u == Hid!Usages(items, n + 1)
  <2>1. \A f \in 1 .. global.count :
          Hid!UsageAt(Hid!UsageOf(f)) = a
            <=> u # <<>> /\ Hid!UsageAt(u[IF f <= Len(u) THEN f ELSE Len(u)]) = a
    <3>1. TAKE f \in 1 .. global.count
    <3>2. f \in Nat \ {0}
      BY <1>3
    <3> QED BY <3>2, UsagesRead
  <2>2. Hid!FieldsOf(items, n + 1, a)
          = {f \in 1 .. global.count :
               /\ global.page = Hid!Desktop /\ u # <<>>
               /\ Hid!UsageAt(u[IF f <= Len(u) THEN f ELSE Len(u)]) = a}
    BY <1>3 DEF Hid!FieldsOf
  <2> HIDE DEF u
  <2> QED BY <2>1, <2>2
<1>5. bit = Hid!Start(items, n + 1)
  BY StartAddsUp DEF PositionRead
<1>6. SUFFICES ASSUME NEW a \in Hid!Axes
               PROVE  /\ HasTop(Hid!Fields(Append(items, i), a))
                      /\ layout'[a] = Hid!Reference(Append(items, i), a)
  BY DEF AxesRead
<1>7. HasTop(Hid!Fields(items, a)) /\ layout[a] = Hid!Reference(items, a)
  BY DEF AxesRead
<1> HIDE DEF found
<1>8. CASE found(a) = {}
  <2>1. Hid!FieldsOf(items, n + 1, a) = {}
    BY <1>4, <1>8
  <2>2. Hid!Fields(Append(items, i), a)
          = Hid!Fields(items, a) \cup ({n + 1} \X Hid!FieldsOf(items, n + 1, a))
    BY <1>1, FieldsGrow
  <2>3. Hid!Fields(Append(items, i), a) = Hid!Fields(items, a)
    BY <2>1, <2>2
  <2>4. Hid!Reference(Append(items, i), a) = Hid!Reference(items, a)
    BY <1>7, <2>3, ReferenceStays
  <2> QED BY <1>2, <1>7, <1>8, <2>3, <2>4
<1>9. CASE found(a) # {}
  <2>1. Hid!FieldsOf(items, n + 1, a) # {}
    BY <1>4, <1>9
  <2>2. /\ HasTop(Hid!Fields(Append(items, i), a))
        /\ Hid!Reference(Append(items, i), a) =
             [bit |-> Hid!Start(items, n + 1)
                        + (Hid!Max(Hid!FieldsOf(items, n + 1, a)) - 1)
                          * Hid!LastOf(items, n + 1, "size"),
              size |-> Hid!LastOf(items, n + 1, "size"),
              id |-> Hid!LastOf(items, n + 1, "id")]
    BY <1>1, <2>1, ReferenceMoves
  <2> QED BY <1>2, <1>3, <1>4, <1>5, <1>9, <2>2
<1> QED BY <1>8, <1>9

\* The state of the parser says all that counts of the items it has read, if it follows
\* them.
LayoutRead ==
    /\ items \in Seq(LayoutItem) /\ range \in Ranges
    /\ Hid!Followed(items) =>
         /\ GlobalsRead(items, global, id) /\ PositionRead(items, bit)
         /\ LocalsRead(items, usages, range) /\ AxesRead(items, layout)

LEMMA ReadsOn == ASSUME LayoutTypes, LayoutRead, Hid!Read PROVE LayoutRead'
<1> DEFINE i == Head(rest)
           n == Len(items)
<1>1. /\ i \in LayoutItem /\ items' = Append(items, i)
      /\ \/ Hid!Global(i) \/ Hid!ReportId(i) \/ Hid!Local(i)
         \/ Hid!Input(i) \/ Hid!Collection(i) \/ Hid!Skipped(i)
  BY HeadTailProperties DEF Hid!Read, LayoutTypes
<1> HIDE DEF i
<1>2. i.val \in Nat
  BY <1>1 DEF LayoutItem
<1>3. items \in Seq(LayoutItem) /\ range \in Ranges /\ usages \in Seq(Nat) /\ global \in Globals
  BY DEF LayoutRead, LayoutTypes, Globals
<1>4. items' \in Seq(LayoutItem)
  BY <1>1, <1>3, ItemAppended
<1>5. Hid!None \in Ranges
  BY DEF Hid!None, Ranges
<1>6. range' \in Ranges
  <2>1. CASE Hid!Local(i)
    <3>1. range' = range \/ (i.tag \in {"min", "max"} /\ range' = [range EXCEPT ![i.tag] = i.val])
      BY <2>1 DEF Hid!Local
    <3> QED BY <1>2, <1>3, <3>1 DEF Ranges
  <2>2. CASE Hid!Input(i)
    BY <1>5, <2>2 DEF Hid!Input, Hid!ForgetLocals
  <2>3. CASE Hid!Collection(i)
    BY <1>3, <1>5, <2>3 DEF Hid!Collection
  <2>4. CASE Hid!Global(i) \/ Hid!ReportId(i) \/ Hid!Skipped(i)
    BY <1>3, <2>4 DEF Hid!Global, Hid!ReportId, Hid!Skipped
  <2> QED BY <1>1, <2>1, <2>2, <2>3, <2>4
<1>7. SUFFICES ASSUME Hid!Followed(Append(items, i))
               PROVE  /\ GlobalsRead(Append(items, i), global', id')
                      /\ PositionRead(Append(items, i), bit')
                      /\ LocalsRead(Append(items, i), usages', range')
                      /\ AxesRead(Append(items, i), layout')
  BY <1>1, <1>4, <1>6 DEF LayoutRead
<1>8. /\ Hid!Followed(items)
      /\ i.tag \in Hid!Main => Hid!Plain(items, n + 1)
      /\ i.tag \in {"output", "feature"} => Hid!Usages(items, n + 1) = <<>>
      /\ i.tag = "end" => Hid!Own(items, n + 1, "min") = {}
      /\ i.tag = "id" =>
           i.val # 0 /\ \A j \in Hid!Before(items, n + 1, {"id"}) : items[j].val # i.val
      /\ i.tag = "input" => Len(Hid!Usages(items, n + 1)) <= MaxUsages
  BY <1>1, <1>3, <1>7, FollowedSoFar
<1>9. /\ GlobalsRead(items, global, id) /\ PositionRead(items, bit)
      /\ LocalsRead(items, usages, range) /\ AxesRead(items, layout)
  BY <1>8 DEF LayoutRead
<1>10. PlainInputs(items)
  BY <1>3, <1>8, FollowedInputs
<1>11. Hid!Main = {"input", "output", "feature", "collection", "end"}
  BY DEF Hid!Main
<1>12. CASE Hid!Global(i)
  <2>1. /\ i.tag \in {"page", "size", "count"} /\ global' = [global EXCEPT ![i.tag] = i.val]
        /\ UNCHANGED <<id, bit, usages, range, layout>>
    BY <1>12 DEF Hid!Global
  <2>2. GlobalsRead(Append(items, i), global', id')
    BY <1>1, <1>3, <1>9, <2>1, GlobalsGrow
  <2>3. PositionRead(Append(items, i), bit')
    BY <1>1, <1>3, <1>9, <2>1, PositionGrows
  <2>4. LocalsRead(Append(items, i), usages', range')
    <3>1. i.tag \notin Hid!Main \cup {"usage", "min", "max"}
      BY <1>11, <2>1
    <3> QED BY <1>1, <1>3, <1>9, <2>1, <3>1, LocalsGrow
  <2>5. AxesRead(Append(items, i), layout')
    BY <1>1, <1>3, <1>9, <1>10, <2>1, AxesKept
  <2> QED BY <2>2, <2>3, <2>4, <2>5
<1>13. CASE Hid!ReportId(i)
  <2>1. /\ i.tag = "id" /\ id' = i.val /\ bit' = 0
        /\ UNCHANGED <<global, usages, range, layout>>
    BY <1>13 DEF Hid!ReportId, Hid!StartOfReport
  <2>2. GlobalsRead(Append(items, i), global', id')
    BY <1>1, <1>3, <1>9, <2>1, GlobalsGrow
  <2>3. PositionRead(Append(items, i), bit')
    BY <1>1, <1>3, <1>8, <1>9, <2>1, PositionGrows
  <2>4. LocalsRead(Append(items, i), usages', range')
    <3>1. i.tag \notin Hid!Main \cup {"usage", "min", "max"}
      BY <1>11, <2>1
    <3> QED BY <1>1, <1>3, <1>9, <2>1, <3>1, LocalsGrow
  <2>5. AxesRead(Append(items, i), layout')
    BY <1>1, <1>3, <1>9, <1>10, <2>1, AxesKept
  <2> QED BY <2>2, <2>3, <2>4, <2>5
<1>14. CASE Hid!Local(i)
  <2>1. /\ i.tag \in {"usage", "min", "max"}
        /\ usages' = IF i.tag = "usage" /\ Len(usages) < MaxUsages
                     THEN Append(usages, i.val) ELSE usages
        /\ range' = IF i.tag = "usage" THEN range ELSE [range EXCEPT ![i.tag] = i.val]
        /\ UNCHANGED <<global, id, bit, layout>>
    BY <1>14 DEF Hid!Local
  <2>2. GlobalsRead(Append(items, i), global', id')
    BY <1>1, <1>3, <1>9, <2>1, GlobalsGrow
  <2>3. PositionRead(Append(items, i), bit')
    BY <1>1, <1>3, <1>9, <2>1, PositionGrows
  <2>4. LocalsRead(Append(items, i), usages', range')
    <3>1. CASE i.tag = "usage"
      <4>1. LocalsRead(Append(items, i),
                       IF Len(usages) < MaxUsages THEN Append(usages, i.val) ELSE usages, range)
        BY <1>1, <1>3, <1>9, <3>1, LocalsGrow
      <4> QED BY <2>1, <3>1, <4>1
    <3>2. CASE i.tag \in {"min", "max"}
      <4>1. LocalsRead(Append(items, i), usages, [range EXCEPT ![i.tag] = i.val])
        BY <1>1, <1>3, <1>9, <3>2, LocalsGrow
      <4>2. usages' = usages /\ range' = [range EXCEPT ![i.tag] = i.val]
        BY <2>1, <3>2
      <4> QED BY <4>1, <4>2
    <3> QED BY <2>1, <3>1, <3>2
  <2>5. AxesRead(Append(items, i), layout')
    BY <1>1, <1>3, <1>9, <1>10, <2>1, AxesKept
  <2> QED BY <2>2, <2>3, <2>4, <2>5
<1>15. CASE Hid!Input(i)
  <2>1. /\ i.tag = "input" /\ bit' = bit + global.count * global.size
        /\ usages' = <<>> /\ range' = Hid!None /\ UNCHANGED <<global, id>>
    BY <1>15 DEF Hid!Input, Hid!ForgetLocals
  <2>2. GlobalsRead(Append(items, i), global', id')
    BY <1>1, <1>3, <1>9, <2>1, GlobalsGrow
  <2>3. PositionRead(Append(items, i), bit')
    BY <1>1, <1>3, <1>9, <2>1, PositionGrows
  <2>4. LocalsRead(Append(items, i), usages', range')
    <3>1. i.tag \in Hid!Main
      BY <1>11, <2>1
    <3> QED BY <1>1, <1>3, <1>5, <2>1, <3>1, LocalsForgotten
  <2>5. AxesRead(Append(items, i), layout')
    BY <1>1, <1>3, <1>8, <1>9, <1>10, <1>11, <1>15, <2>1, AxesMove
  <2> QED BY <2>2, <2>3, <2>4, <2>5
<1>16. CASE Hid!Collection(i) \/ (Hid!Skipped(i) /\ i.tag \in {"output", "feature"})
  <2>1. /\ i.tag \in {"collection", "end", "output", "feature"}
        /\ UNCHANGED <<global, id, bit, layout>>
    BY <1>16 DEF Hid!Collection, Hid!Skipped
  <2>2. GlobalsRead(Append(items, i), global', id')
    BY <1>1, <1>3, <1>9, <2>1, GlobalsGrow
  <2>3. PositionRead(Append(items, i), bit')
    BY <1>1, <1>3, <1>9, <2>1, PositionGrows
  <2>4. i.tag \in Hid!Main /\ Hid!Plain(items, n + 1)
    BY <1>8, <1>11, <2>1
  <2>5. /\ Hid!Own(items, n + 1, "min") = {} => range.max < range.min \/ range = Hid!None
        /\ Hid!Usages(items, n + 1) = <<>> =>
             usages = <<>> /\ (range.max < range.min \/ range = Hid!None)
    BY <1>3, <1>9, <2>4, NothingLeft
  <2>6. usages' = <<>> /\ (range'.max < range'.min \/ range' = Hid!None)
    <3>1. CASE i.tag = "collection"
      BY <1>16, <3>1 DEF Hid!Collection
    <3>2. CASE i.tag = "end"
      BY <1>8, <1>16, <2>5, <3>2 DEF Hid!Collection
    <3>3. CASE i.tag \in {"output", "feature"}
      BY <1>8, <1>16, <2>5, <3>3 DEF Hid!Collection, Hid!Skipped
    <3> QED BY <2>1, <3>1, <3>2, <3>3
  <2>7. LocalsRead(Append(items, i), usages', range')
    BY <1>1, <1>3, <1>6, <2>4, <2>6, LocalsForgotten
  <2>8. AxesRead(Append(items, i), layout')
    BY <1>1, <1>3, <1>9, <1>10, <2>1, AxesKept
  <2> QED BY <2>2, <2>3, <2>7, <2>8
<1>17. CASE Hid!Skipped(i) /\ i.tag \in {"logical", "long"}
  <2>1. UNCHANGED <<global, id, bit, usages, range, layout>>
    BY <1>17 DEF Hid!Skipped
  <2>2. GlobalsRead(Append(items, i), global', id')
    BY <1>1, <1>3, <1>9, <1>17, <2>1, GlobalsGrow
  <2>3. PositionRead(Append(items, i), bit')
    BY <1>1, <1>3, <1>9, <1>17, <2>1, PositionGrows
  <2>4. LocalsRead(Append(items, i), usages', range')
    <3>1. i.tag \notin Hid!Main \cup {"usage", "min", "max"}
      BY <1>11, <1>17
    <3> QED BY <1>1, <1>3, <1>9, <2>1, <3>1, LocalsGrow
  <2>5. AxesRead(Append(items, i), layout')
    BY <1>1, <1>3, <1>9, <1>10, <1>17, <2>1, AxesKept
  <2> QED BY <2>2, <2>3, <2>4, <2>5
<1>18. Hid!Skipped(i) => i.tag \in {"output", "feature", "logical", "long"}
  BY DEF Hid!Skipped
<1> QED BY <1>1, <1>12, <1>13, <1>14, <1>15, <1>16, <1>17, <1>18

LEMMA NothingRead == ASSUME MCInit PROVE LayoutTypes /\ LayoutRead
<1>1. /\ rest = <<>> /\ pieces = 0 /\ items = <<>>
      /\ global = [page |-> 0, size |-> 0, count |-> 0] /\ id = 0 /\ bit = 0
      /\ usages = <<>> /\ range = Hid!None
      /\ layout = [a \in Hid!Axes |-> Hid!NoField]
  BY DEF MCInit, Hid!Init
<1>2. <<>> \in Seq(LayoutItem) /\ <<>> \in Seq(Nat) /\ Len(<<>>) = 0
  BY EmptySeq
<1>3. LayoutTypes
  BY <1>1, <1>2, BoundsAssumption DEF LayoutTypes
<1>4. range \in Ranges
  BY <1>1 DEF Hid!None, Ranges
<1>5. Len(items) + 1 = 1 /\ \A T : Hid!Before(items, 1, T) = {}
  BY <1>1, <1>2 DEF Hid!Before
<1>6. GlobalsRead(items, global, id)
  <2>1. \A tag : Hid!LastOf(items, 1, tag) = 0
    BY <1>5 DEF Hid!LastOf
  <2> QED BY <1>1, <1>5, <2>1 DEF GlobalsRead
<1>7. PositionRead(items, bit)
  <2>1. DOMAIN Bits(items, 1) = {}
    BY <1>5 DEF Bits, Hid!SameReport
  <2> QED BY <1>1, <1>5, <2>1, TotalStarts DEF PositionRead
<1>8. LocalsRead(items, usages, range)
  <2>1. \A tag : Hid!Own(items, 1, tag) = {}
    BY <1>5 DEF Hid!Own
  <2>2. Naming(items, {}) = <<>>
    BY <1>1, <1>2, NamingNone
  <2> QED BY <1>1, <1>5, <2>1, <2>2 DEF LocalsRead
<1>9. AxesRead(items, layout)
  <2>1. \A a : Hid!Fields(items, a) = {}
    BY <1>5, FieldsAre
  <2> QED BY <1>1, <2>1, ReferenceIs DEF AxesRead, HasTop
<1> QED BY <1>1, <1>2, <1>3, <1>4, <1>6, <1>7, <1>8, <1>9 DEF LayoutRead

LEMMA LayoutReadOn ==
    ASSUME LayoutTypes, LayoutRead, MCStep PROVE LayoutTypes' /\ LayoutRead'
<1>1. LayoutTypes'
  BY LayoutTyped
<1>2. CASE UNCHANGED <<items, global, id, bit, usages, range, layout>>
  <2>1. /\ GlobalsRead(items, global, id)' <=> GlobalsRead(items, global, id)
        /\ PositionRead(items, bit)' <=> PositionRead(items, bit)
        /\ LocalsRead(items, usages, range)' <=> LocalsRead(items, usages, range)
        /\ AxesRead(items, layout)' <=> AxesRead(items, layout)
        /\ Hid!Followed(items)' <=> Hid!Followed(items)
    BY <1>2
  <2>2. items' = items /\ range' = range
    BY <1>2
  <2> QED BY <1>1, <2>1, <2>2 DEF LayoutRead
<1>3. CASE Hid!Read
  BY <1>1, <1>3, ReadsOn
<1>4. Hid!Next => Hid!Read \/ UNCHANGED <<items, global, id, bit, usages, range, layout>>
  BY DEF Hid!Next, Hid!Done, Hid!GoesOn, Hid!vars
<1> QED BY <1>2, <1>3, <1>4 DEF MCStep, MCNext, Usb, Spi, usbvars, hidvars

\* Of every descriptor it follows, however long, made of whatever items in whatever order,
\* the parser finds for each axis the bit, the size and the report ID the HID
\* specification gives it, wherever the descriptor ends (MCEdges' LayoutFound).
THEOREM AxesFound == MCSpec => []LayoutFound
<1>1. LayoutRead => LayoutFound
  <2>1. SUFFICES ASSUME LayoutRead, Hid!Followed(items)
                 PROVE  \A a \in Hid!Axes : layout[a] = Hid!Reference(items, a)
    BY DEF LayoutFound, Hid!LayoutFound
  <2>2. AxesRead(items, layout)
    BY <2>1 DEF LayoutRead
  <2> QED BY <2>2 DEF AxesRead
<1>2. LayoutTypes /\ LayoutRead /\ MCStep => LayoutTypes' /\ LayoutRead'
  BY LayoutReadOn
<1> QED BY <1>1, <1>2, NothingRead, PTL DEF MCSpec, MCStep
=============================================================================
