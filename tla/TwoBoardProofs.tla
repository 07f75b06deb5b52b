-------------------------- MODULE TwoBoardProofs --------------------------
(***************************************************************************)
(* Proofs about the two-board relay (TwoBoard) for any devices, reports,   *)
(* ring and FIFO sizes, numbers of losses and restarts.                    *)
(*                                                                         *)
(* NoSplice is the hard one: nothing but the sequence number of a slot     *)
(* tells Board A that a fragment was lost.  Its invariant follows the      *)
(* chain of slots from the report being rebuilt, through the ring, to the  *)
(* slot Board B sends next (Chain).                                        *)
(***************************************************************************)
EXTENDS MCTwoBoard, SequenceTheorems, TLAPS

Ep == {s.ep : s \in Shape} \cup {0}

\* The bodies Board B packs: a chunk names its device and the blob's length.
Bodies == {b \in [type : {"REPORT", "DESC", "INJECT", "TELEM_REQ"}, item : Nat \cup Device,
                  idx : Nat, total : Nat, ep : Ep] :
             /\ b.type = "DESC" => b.item \in Device /\ b.total = Chunks[b.item]
             /\ b.type # "DESC" => b.item \in Nat}

Slots == [seq : 0 .. SeqMod - 1, body : Bodies]

\* A transfer context: as many parts as fragments accepted.
Transfer(ctx, Item) ==
    /\ DOMAIN ctx = {"active", "total", "ep", "next", "parts"}
    /\ ctx.total \in Nat /\ ctx.parts \in Seq(Item) /\ ctx.next = Len(ctx.parts)
    /\ ctx.active => ctx.next > 0 /\ ctx.next < ctx.total

Types ==
    /\ bpc \in {"top", "eps", "report", "blob", "cmd", "drain"}
    /\ device \in Device /\ bseq \in 0 .. SeqMod - 1
    /\ job \in Seq(Bodies) /\ (job # <<>> <=> bpc \in {"report", "blob"})
    /\ inject \in Seq(Nat) /\ Len(inject) < InjectDepth
    /\ ring \in Seq(Slots) /\ Len(ring) <= RingFrames /\ lostRun \in 0 .. MaxBurst
    /\ phase \in {"desc", "enum", "relay"} /\ prev \in 0 .. SeqMod
    /\ Transfer(desc, Device) /\ clone \in Seq(Device) /\ Transfer(report, Nat)
    /\ captured \in Nat /\ pushed \in Nat /\ resets \in Nat
    /\ forwarded \in Seq(Seq(Nat)) /\ applied \in Seq(Nat)

-----------------------------------------------------------------------------
\* What the parts of a step keep in their types.

LEMMA NextSeqType == \A s \in 0 .. SeqMod - 1 : NextSeq(s) \in 0 .. SeqMod - 1
  BY SizeAssumption DEF NextSeq

LEMMA IdleType == ASSUME NEW Item PROVE Transfer(Idle, Item)
  BY DEF Idle, Transfer

LEMMA FragmentsType ==
    ASSUME NEW n \in Nat, NEW s \in Shape
    PROVE  /\ ReportFragments(n, s) \in Seq(Bodies)
           /\ Len(ReportFragments(n, s)) = s.total
           /\ ReportFragments(n, s) # <<>>
<1>1. s.total \in Nat \ {0} /\ s.ep \in Ep
  BY ShapeAssumption DEF Ep
<1>2. \A i \in 1 .. s.total : Body("REPORT", n, i - 1, s.total, s.ep) \in Bodies
  BY <1>1 DEF Body, Bodies
<1> QED
  BY <1>1, <1>2 DEF ReportFragments

LEMMA ChunksType ==
    ASSUME NEW d \in Device
    PROVE  /\ BlobChunks(d) \in Seq(Bodies)
           /\ Len(BlobChunks(d)) = Chunks[d]
           /\ BlobChunks(d) # <<>>
<1>1. Chunks[d] \in Nat \ {0} /\ 0 \in Ep
  BY DeviceAssumption DEF Ep
<1>2. \A i \in 1 .. Chunks[d] : Body("DESC", d, i - 1, Chunks[d], 0) \in Bodies
  BY <1>1 DEF Body, Bodies
<1> QED
  BY <1>1, <1>2 DEF BlobChunks

\* A slot arrives at the end of the ring or is lost.
LEMMA ExchangeType ==
    ASSUME Types, NEW b \in Bodies, Exchange(b)
    PROVE  /\ bseq' \in 0 .. SeqMod - 1 /\ ring' \in Seq(Slots)
           /\ Len(ring') <= RingFrames /\ lostRun' \in 0 .. MaxBurst
<1>1. bseq' \in 0 .. SeqMod - 1
  BY NextSeqType DEF Exchange, Types
<1>2. CASE Arrive(b)
  <2>1. [seq |-> bseq, body |-> b] \in Slots
    BY DEF Types, Slots
  <2>2. /\ ring \in Seq(Slots) /\ Len(ring) < RingFrames /\ lostRun' = 0
        /\ ring' = Append(ring, [seq |-> bseq, body |-> b])
    BY <1>2 DEF Types, Arrive
  <2>3. RingFrames \in Nat /\ 0 \in 0 .. MaxBurst
    BY SizeAssumption
  <2>4. ring' \in Seq(Slots) /\ Len(ring') = Len(ring) + 1 /\ Len(ring) \in Nat
    BY <2>1, <2>2, AppendProperties
  <2> QED
    BY <1>1, <2>2, <2>3, <2>4
<1>3. CASE Lose
  BY <1>1, <1>3, SizeAssumption DEF Types, Lose
<1> QED
  BY <1>2, <1>3 DEF Exchange

\* What a transfer context becomes keeps as many parts as fragments accepted.
LEMMA AcceptType ==
    ASSUME NEW Item, NEW ctx, Transfer(ctx, Item), NEW b \in Bodies, b.item \in Item
    PROVE  Transfer(Accept(ctx, b), Item)
<1>1. b.item \in Item /\ b.total \in Nat /\ b.ep \in Ep /\ b.idx \in Nat
  BY DEF Bodies
<1>2. Transfer(Begin(b), Item)
  <2>1. <<b.item>> \in Seq(Item) /\ Len(<<b.item>>) = 1
    BY <1>1
  <2>2. /\ DOMAIN Begin(b) = {"active", "total", "ep", "next", "parts"}
        /\ Begin(b).total = b.total /\ Begin(b).parts = <<b.item>>
        /\ Begin(b).next = 1 /\ (Begin(b).active => b.total > 1)
    BY DEF Begin
  <2> QED
    BY <1>1, <2>1, <2>2 DEF Transfer
<1>3. ASSUME Fits(ctx, b) PROVE Transfer(Extend(ctx, b), Item)
  <2>1. /\ DOMAIN ctx = {"active", "total", "ep", "next", "parts"}
        /\ ctx.total \in Nat /\ ctx.parts \in Seq(Item)
        /\ b.idx = Len(ctx.parts) /\ ctx.total = b.total
    BY <1>3 DEF Fits, Transfer
  <2>2. /\ DOMAIN Extend(ctx, b) = {"active", "total", "ep", "next", "parts"}
        /\ Extend(ctx, b).total = ctx.total
        /\ Extend(ctx, b).parts = Append(ctx.parts, b.item)
        /\ Extend(ctx, b).next = b.idx + 1
        /\ Extend(ctx, b).active => b.idx + 1 < b.total
    BY <2>1 DEF Extend
  <2> QED
    BY <1>1, <2>1, <2>2 DEF Transfer
<1> QED
  BY <1>2, <1>3, IdleType DEF Accept

-----------------------------------------------------------------------------
LEMMA TypesInit == Init => Types
<1> SUFFICES ASSUME Init PROVE Types
  OBVIOUS
<1>1. job \in Seq(Bodies) /\ job # <<>> /\ device \in Device
  BY ChunksType DEF Init
<1>2. Transfer(desc, Device) /\ Transfer(report, Nat)
  BY IdleType DEF Init
<1> QED
  BY <1>1, <1>2, SizeAssumption DEF Init, Types, NoSeq

LEMMA TypesBoardB == Types /\ (StepB \/ ResetB) => Types'
<1> SUFFICES ASSUME Types, StepB \/ ResetB PROVE Types'
  OBVIOUS
<1> USE DEF boardA, history
<1>1. CASE StartBlob
  BY <1>1, ChunksType DEF StartBlob, Types
<1>2. CASE SkipBlob
  BY <1>2 DEF SkipBlob, Types
<1>3. ASSUME NEW s \in Shape, CaptureReport(s) PROVE Types'
  <2>1. captured' \in Nat
    BY <1>3 DEF CaptureReport, Types
  <2>2. job' \in Seq(Bodies) /\ job' # <<>>
    BY <1>3, <2>1, FragmentsType DEF CaptureReport
  <2> QED
    BY <1>3, <2>1, <2>2 DEF CaptureReport, Types
<1>4. CASE SendNext
  <2>1. Head(job) \in Bodies /\ Tail(job) \in Seq(Bodies)
          /\ (Tail(job) = <<>> <=> Len(job) = 1)
    <3>1. job \in Seq(Bodies) /\ job # <<>>
      BY <1>4 DEF SendNext, Types
    <3>2. Len(Tail(job)) = Len(job) - 1 /\ Len(job) \in Nat \ {0}
      BY <3>1, EmptySeq, HeadTailProperties
    <3>3. Tail(job) \in Seq(Bodies) /\ Head(job) \in Bodies
      BY <3>1, HeadTailProperties
    <3>4. Tail(job) = <<>> <=> Len(Tail(job)) = 0
      BY <3>3, EmptySeq
    <3> QED
      BY <3>2, <3>3, <3>4
  <2>2. /\ bseq' \in 0 .. SeqMod - 1 /\ ring' \in Seq(Slots)
        /\ Len(ring') <= RingFrames /\ lostRun' \in 0 .. MaxBurst
    BY <1>4, <2>1, ExchangeType DEF SendNext
  <2>3. /\ bpc' \in {"top", "eps", "report", "blob", "cmd", "drain"}
        /\ job' # <<>> <=> bpc' \in {"report", "blob"}
    BY <1>4, <2>1 DEF SendNext, Types
  <2> QED
    BY <1>4, <2>1, <2>2, <2>3 DEF SendNext, Types
<1>5. CASE EndPolls
  BY <1>5 DEF EndPolls, Types
<1>6. CASE PushInject
  <2>1. inject' \in Seq(Nat) /\ Len(inject') < InjectDepth /\ pushed' \in Nat
    BY <1>6, SizeAssumption DEF PushInject, Enqueue, Types
  <2> QED
    BY <1>6, <2>1 DEF PushInject, Types
<1>7. CASE StartDrain
  BY <1>7 DEF StartDrain, Types
<1>8. CASE SendInject
  <2>1. Body("INJECT", Head(inject), 0, 1, 0) \in Bodies
    <3>1. Head(inject) \in Nat
      BY <1>8, HeadTailProperties DEF SendInject, Types
    <3> QED
      BY <3>1 DEF Body, Bodies, Ep
  <2>2. inject' \in Seq(Nat) /\ Len(inject') < InjectDepth
    BY <1>8, SizeAssumption DEF SendInject, Types
  <2>3. /\ bseq' \in 0 .. SeqMod - 1 /\ ring' \in Seq(Slots)
        /\ Len(ring') <= RingFrames /\ lostRun' \in 0 .. MaxBurst
    BY <1>8, <2>1, ExchangeType DEF SendInject
  <2> QED
    BY <1>8, <2>2, <2>3 DEF SendInject, Types
<1>9. CASE EndPass
  <2>1. Body("TELEM_REQ", 0, 0, 1, 0) \in Bodies
    BY DEF Body, Bodies, Ep
  <2>2. /\ bseq' \in 0 .. SeqMod - 1 /\ ring' \in Seq(Slots)
        /\ Len(ring') <= RingFrames /\ lostRun' \in 0 .. MaxBurst
    BY <1>9, <2>1, ExchangeType DEF EndPass, Types
  <2> QED
    BY <1>9, <2>2 DEF EndPass, Types
<1>10. CASE ResetB
  BY <1>10, ChunksType, SizeAssumption DEF ResetB, Types
<1> QED
  BY <1>1, <1>2, <1>3, <1>4, <1>5, <1>6, <1>7, <1>8, <1>9, <1>10 DEF StepB

LEMMA TypesBoardA == Types /\ (StepA \/ ResetA) => Types'
<1> SUFFICES ASSUME Types, StepA \/ ResetA PROVE Types'
  OBVIOUS
<1> USE DEF boardB, history
<1>1. ASSUME ring # <<>>
      PROVE  /\ Slot.seq \in 0 .. SeqMod - 1 /\ Slot.body \in Bodies
             /\ Tail(ring) \in Seq(Slots) /\ Len(Tail(ring)) <= RingFrames
  <2>1. ring \in Seq(Slots) /\ Len(ring) <= RingFrames
    BY DEF Types
  <2>2. Slot \in Slots /\ Tail(ring) \in Seq(Slots) /\ Len(Tail(ring)) = Len(ring) - 1
          /\ Len(ring) \in Nat
    BY <1>1, <2>1, HeadTailProperties DEF Slot
  <2>3. Slot.seq \in 0 .. SeqMod - 1 /\ Slot.body \in Bodies
    BY <2>2 DEF Slots
  <2> QED
    BY <2>1, <2>2, <2>3, SizeAssumption
<1>2. CASE TakeDesc
  <2> DEFINE b == Slot.body
             ctx == IF b.type = "DESC" THEN Accept(desc, b) ELSE desc
  <2>1. ring # <<>>
    BY <1>2 DEF TakeDesc
  <2>2. Transfer(ctx, Device)
    <3>1. b.type = "DESC" => b.item \in Device
      BY <1>1, <2>1 DEF Bodies
    <3> QED
      BY <1>1, <2>1, <3>1, AcceptType DEF Types
  <2>3. ctx.parts \in Seq(Device)
    BY <2>2 DEF Transfer
  <2>4. /\ desc' = ctx \/ desc' = Idle
        /\ clone' = clone \/ clone' = ctx.parts
        /\ phase' = phase \/ phase' = "enum"
    BY <1>2 DEF TakeDesc
  <2>5. Transfer(desc', Device) /\ clone' \in Seq(Device)
          /\ phase' \in {"desc", "enum", "relay"}
    BY <2>2, <2>3, <2>4, IdleType DEF Types
  <2>6. Transfer(desc, Device)' /\ Transfer(report, Nat)'
    BY <1>2, <2>5 DEF TakeDesc, Types, Transfer
  <2> QED
    BY <1>1, <1>2, <2>1, <2>5, <2>6 DEF TakeDesc, Types
<1>3. CASE Configured
  <2>1. Transfer(desc, Device)' /\ Transfer(report, Nat)'
    BY <1>3, IdleType DEF Configured, Types, Transfer
  <2> QED
    BY <1>3, <2>1, SizeAssumption DEF Configured, Types, NoSeq
<1>4. CASE TakeRelay
  <2> DEFINE b == Slot.body
             kept == IF NoGap(prev, Slot.seq) THEN report ELSE Idle
             ctx == IF b.type = "REPORT" THEN Accept(kept, b) ELSE kept
  <2>1. ring # <<>>
    BY <1>4 DEF TakeRelay
  <2>2. b.type # "DESC" => b.item \in Nat
    BY <1>1, <2>1 DEF Bodies
  <2>3. Transfer(ctx, Nat)
    <3>1. Transfer(kept, Nat)
      BY IdleType DEF Types
    <3> QED
      BY <1>1, <2>1, <2>2, <3>1, AcceptType
  <2>4. report' = ctx /\ prev' = Slot.seq
    BY <1>4 DEF TakeRelay
  <2>5. Transfer(desc, Device)' /\ Transfer(report, Nat)'
    BY <1>4, <2>3, <2>4 DEF TakeRelay, Types, Transfer
  <2>6. ctx.parts \in Seq(Nat)
    BY <2>3 DEF Transfer
  <2>7. forwarded' \in Seq(Seq(Nat))
    BY <1>4, <2>6 DEF TakeRelay, Types
  <2>8. applied' \in Seq(Nat)
    BY <1>4, <2>2 DEF TakeRelay, Types
  <2>9. prev' \in 0 .. SeqMod
    BY <1>1, <2>1, <2>4, SizeAssumption
  <2> QED
    BY <1>1, <1>4, <2>1, <2>5, <2>7, <2>8, <2>9 DEF TakeRelay, Types
<1>5. CASE ResetA
  <2>1. Transfer(desc, Device)' /\ Transfer(report, Nat)'
    BY <1>5, IdleType DEF ResetA, Types, Transfer
  <2> QED
    BY <1>5, <2>1, SizeAssumption DEF ResetA, Types, NoSeq
<1> QED
  BY <1>2, <1>3, <1>4, <1>5 DEF StepA

LEMMA TypesStep == Types /\ [Next]_vars => Types'
<1>1. Types /\ UNCHANGED vars => Types'
  BY DEF vars, boardA, boardB, history, Types, Transfer
<1> QED
  BY <1>1, TypesBoardA, TypesBoardB DEF Next

\* The types of both boards, for any devices, reports, ring and FIFO sizes: no ring and
\* no FIFO overflows, and a transfer has as many parts as fragments (two_board.c).
THEOREM TypeCorrect == Spec => []TypeOK
<1>1. ASSUME Types PROVE TypeOK
  <2>1. \A i \in DOMAIN ring : ring[i].seq \in 0 .. SeqMod - 1
    <3>1. \A i \in DOMAIN ring : ring[i] \in Slots
      BY <1>1, ElementOfSeq, LenProperties DEF Types
    <3> QED
      BY <3>1 DEF Slots
  <2>2. report.active => report.next = Len(report.parts) /\ report.next < report.total
    BY <1>1 DEF Types, Transfer
  <2> QED
    BY <1>1, <2>1, <2>2 DEF Types, TypeOK
<1> QED
  BY TypesInit, TypesStep, <1>1, PTL DEF Spec

-----------------------------------------------------------------------------
\* The clone.  Phase 1 compares a chunk's total with that of the transfer and nothing
\* else, so what keeps two devices apart is that their blobs differ in length.
DistinctLengths == \A d, e \in Device : Chunks[d] = Chunks[e] => d = e

OneSource(ctx) == \A i \in 1 .. Len(ctx.parts) : Chunks[ctx.parts[i]] = ctx.total

LEMMA AcceptOneSource ==
    ASSUME NEW ctx, Transfer(ctx, Device), OneSource(ctx),
           NEW b \in Bodies, b.type = "DESC"
    PROVE  OneSource(Accept(ctx, b))
<1>1. b.item \in Device /\ b.total = Chunks[b.item]
  BY DEF Bodies
<1>2. OneSource(Idle)
  BY DEF OneSource, Idle
<1>3. OneSource(Begin(b))
  BY <1>1 DEF OneSource, Begin
<1>4. ASSUME Fits(ctx, b) PROVE OneSource(Extend(ctx, b))
  <2>1. ctx.parts \in Seq(Device) /\ ctx.total = b.total
        /\ Extend(ctx, b).parts = Append(ctx.parts, b.item)
        /\ Extend(ctx, b).total = ctx.total
    BY <1>4 DEF Transfer, Fits, Extend
  <2> QED
    BY <1>1, <2>1 DEF OneSource
<1> QED
  BY <1>2, <1>3, <1>4 DEF Accept

\* A complete transfer from one source is that device's whole blob.
LEMMA WholeBlob ==
    ASSUME DistinctLengths, NEW ctx, Transfer(ctx, Device), OneSource(ctx), Complete(ctx)
    PROVE  OneBlob(ctx.parts) /\ Len(ctx.parts) = Chunks[ctx.parts[1]]
<1>1. ctx.parts \in Seq(Device) /\ Len(ctx.parts) = ctx.total /\ ctx.total > 0
        /\ ctx.total \in Nat
  BY DEF Transfer, Complete
<1>2. 1 \in 1 .. Len(ctx.parts) /\ \A i \in 1 .. Len(ctx.parts) : ctx.parts[i] \in Device
  BY <1>1
<1> QED
  BY <1>1, <1>2 DEF OneSource, DistinctLengths, OneBlob

\* Board A never enumerates a clone that mixes two devices, if no two blobs have the same
\* number of chunks, whatever is lost and whenever either board restarts and Board B's
\* device is exchanged (two_board.c's Phase 1, desc_xfer.c).
THEOREM ClonesOneDevice == ASSUME DistinctLengths PROVE Spec => []CloneIsOneDevice
<1> DEFINE CInv == OneSource(desc) /\ CloneIsOneDevice
<1>1. Init => CInv
  BY DEF Init, OneSource, Idle, CloneIsOneDevice
<1>2. Types /\ CInv /\ [Next]_vars => CInv'
  <2> SUFFICES ASSUME Types, CInv, [Next]_vars PROVE CInv'
    OBVIOUS
  <2>1. CASE TakeDesc
    <3> DEFINE b == Slot.body
               ctx == IF b.type = "DESC" THEN Accept(desc, b) ELSE desc
    <3>1. b \in Bodies
      <4>1. Slot \in Slots
        BY <2>1 DEF TakeDesc, Types, Slot
      <4> QED
        BY <4>1 DEF Slots
    <3>2. Transfer(ctx, Device) /\ OneSource(ctx)
      <4>1. b.type = "DESC" => b.item \in Device
        BY <3>1 DEF Bodies
      <4> QED
        BY <3>1, <4>1, AcceptType, AcceptOneSource DEF Types
    <3>3. \/ clone' = clone
          \/ clone' = ctx.parts /\ Complete(ctx)
      BY <2>1 DEF TakeDesc
    <3>4. CloneIsOneDevice'
      <4>1. Complete(ctx) => OneBlob(ctx.parts) /\ Len(ctx.parts) = Chunks[ctx.parts[1]]
        BY <3>2, WholeBlob
      <4> QED
        BY <3>3, <4>1 DEF CloneIsOneDevice
    <3>5. desc' = ctx \/ desc' = Idle
      BY <2>1 DEF TakeDesc
    <3>6. OneSource(desc')
      BY <3>2, <3>5 DEF OneSource, Idle
    <3> QED
      BY <3>4, <3>6 DEF OneSource
  <2>2. CASE ResetA
    BY <2>2 DEF ResetA, OneSource, Idle, CloneIsOneDevice
  <2>3. CASE Configured \/ TakeRelay
    BY <2>3 DEF Configured, TakeRelay, OneSource, CloneIsOneDevice
  <2>4. CASE StepB \/ ResetB
    BY <2>4 DEF StepB, ResetB, StartBlob, SkipBlob, CaptureReport, SendNext, EndPolls,
                PushInject, StartDrain, SendInject, EndPass, boardA, OneSource,
                CloneIsOneDevice
  <2>5. CASE UNCHANGED vars
    BY <2>5 DEF vars, boardA, OneSource, CloneIsOneDevice
  <2> QED
    BY <2>1, <2>2, <2>3, <2>4, <2>5 DEF Next, StepA
<1>3. CInv => CloneIsOneDevice
  OBVIOUS
<1> QED
  BY <1>1, <1>2, <1>3, TypesInit, TypesStep, PTL DEF Spec

-----------------------------------------------------------------------------
\* Splicing.  Losses in a row must stay below what a sequence number can tell apart, and
\* a restart of Board B is noticed because the blob it sends first moves the number on.
ShortBursts == MaxBurst < SeqMod - 1 /\ \A d \in Device : MaxBurst <= Chunks[d]

\* What Board B is sending is numbered from front to back.
Job ==
    /\ \A i \in 1 .. Len(job) - 1 : job[i + 1].idx = job[i].idx + 1
    /\ bpc = "report" =>
         \A i \in 1 .. Len(job) : job[i].type = "REPORT" /\ job[i].item = captured
    /\ bpc = "blob" => \A i \in 1 .. Len(job) : job[i].type = "DESC"

\* A fragment that is not the first of its report, and which report a slot belongs to.
Continues(q) == q.body.type = "REPORT" /\ q.body.idx > 0
Owner(q) == <<q.body.type, q.body.item>>
Rebuilding == <<"REPORT", report.parts[1]>>

\* A continuing fragment that Board A would accept follows one of the same report.
Joined(s, owner, q) == Continues(q) /\ NoGap(s, q.seq) => owner = Owner(q)

\* The sequence number n + 1 after s.
Ahead(s, n) == IF s + 1 + n < SeqMod THEN s + 1 + n ELSE s + 1 + n - SeqMod

\* Board B's next slot continues a report.
Resumes == bpc = "report" /\ job[1].idx > 0

BlobLeft == IF bpc = "blob" THEN Len(job) ELSE 0

\* Nothing has arrived since Board B restarted, and its blob is lost so far.
Fresh ==
    /\ bseq <= lostRun
    /\ bseq + BlobLeft >= Chunks[device]
    /\ ~Resumes

\* The last slot that arrived had number s and owner: Board B's counter is ahead of it by
\* what was lost since, and if nothing was, it is the fragment before the next one.
LinkedTo(s, owner) ==
    \/ Fresh
    \/ /\ bseq = Ahead(s, lostRun)
       /\ Resumes /\ lostRun = 0 => owner = <<"REPORT", captured>>

\* From the report being rebuilt through the ring to Board B's next slot.
Chain ==
    /\ report.active => prev # NoSeq /\ phase = "relay" /\ OneBlob(report.parts)
    /\ ring # <<>> /\ report.active => Joined(prev, Rebuilding, ring[1])
    /\ \A i \in 1 .. Len(ring) - 1 : Joined(ring[i].seq, Owner(ring[i]), ring[i + 1])
    /\ ring # <<>> => LinkedTo(ring[Len(ring)].seq, Owner(ring[Len(ring)]))
    /\ ring = <<>> /\ report.active => LinkedTo(prev, Rebuilding)

LEMMA JobInit == Init => Job
<1> SUFFICES ASSUME Init PROVE Job
  OBVIOUS
<1>1. job = BlobChunks(device) /\ bpc = "blob" /\ Chunks[device] \in Nat
  BY DeviceAssumption DEF Init
<1> QED
  BY <1>1 DEF Job, BlobChunks, Body

LEMMA JobStep == Types /\ Job /\ [Next]_vars => Job'
<1> SUFFICES ASSUME Types, Job, [Next]_vars PROVE Job'
  OBVIOUS
<1>1. CASE StartBlob \/ ResetB
  <2>1. PICK d \in Device : job' = BlobChunks(d)
    BY <1>1 DEF StartBlob, ResetB, Types
  <2>2. bpc' = "blob" /\ Chunks[d] \in Nat
    BY <1>1, DeviceAssumption DEF StartBlob, ResetB
  <2> QED
    BY <2>1, <2>2 DEF Job, BlobChunks, Body
<1>2. ASSUME NEW s \in Shape, CaptureReport(s) PROVE Job'
  <2>1. job' = ReportFragments(captured', s) /\ bpc' = "report" /\ s.total \in Nat
    BY <1>2, ShapeAssumption DEF CaptureReport
  <2> QED
    BY <2>1 DEF Job, ReportFragments, Body
<1>3. CASE SendNext
  <2>1. job \in Seq(Bodies) /\ job # <<>> /\ job' = Tail(job) /\ captured' = captured
    BY <1>3 DEF SendNext, Types, history
  <2>2. Len(job') = Len(job) - 1 /\ \A i \in 1 .. Len(job') : job'[i] = job[i + 1]
    BY <2>1, HeadTailProperties
  <2>3. bpc' = bpc \/ bpc' = "eps"
    BY <1>3 DEF SendNext
  <2>4. Len(job) \in Nat
    BY <2>1
  <2> QED
    BY <2>1, <2>2, <2>3, <2>4 DEF Job
<1>4. CASE SkipBlob \/ EndPolls \/ PushInject \/ StartDrain \/ SendInject \/ EndPass
  BY <1>4 DEF SkipBlob, EndPolls, PushInject, StartDrain, SendInject, EndPass, history, Job
<1>5. CASE StepA \/ ResetA
  BY <1>5 DEF StepA, TakeDesc, Configured, TakeRelay, ResetA, boardB, history, Job
<1>6. CASE UNCHANGED vars
  BY <1>6 DEF vars, boardB, history, Job
<1> QED
  BY <1>1, <1>2, <1>3, <1>4, <1>5, <1>6 DEF Next, StepB

\* The sequence numbers tell a continuing fragment that was preceded by a loss.
LEMMA NothingLost ==
    ASSUME Types, ShortBursts, NEW s \in 0 .. SeqMod - 1, NEW owner,
           LinkedTo(s, owner), Resumes, NoGap(s, bseq)
    PROVE  owner = <<"REPORT", captured>>
<1>1. bseq = Ahead(s, lostRun) /\ (lostRun = 0 => owner = <<"REPORT", captured>>)
  BY DEF LinkedTo, Fresh
<1>2. bseq = s \/ bseq = NextSeq(s)
  BY SizeAssumption DEF NoGap, NoSeq
<1>3. lostRun = 0
  <2>1. lostRun \in Nat /\ SeqMod \in Nat /\ lostRun < SeqMod - 1
    BY SizeAssumption DEF Types, ShortBursts
  <2>2. CASE bseq = s
    BY <1>1, <2>1, <2>2 DEF Ahead
  <2>3. CASE bseq = NextSeq(s)
    BY <1>1, <2>1, <2>3 DEF Ahead, NextSeq
  <2> QED BY <1>2, <2>2, <2>3
<1> QED
  BY <1>1, <1>3

\* A slot is clocked out: what arrives is joined to what arrived before it.
LEMMA ExchangeChain ==
    ASSUME Types, Types', ShortBursts, Chain, NEW b \in Bodies, Exchange(b),
           UNCHANGED <<boardA, device, captured>>,
           b.type = "REPORT" /\ b.idx > 0 => Resumes /\ b.item = captured,
           Resumes' => b.type = "REPORT" /\ b.item = captured,
           BlobLeft > 0 => BlobLeft' = BlobLeft - 1 /\ ~Resumes'
    PROVE  Chain'
<1> DEFINE q == [seq |-> bseq, body |-> b]
<1>1. /\ bseq \in 0 .. SeqMod - 1 /\ ring \in Seq(Slots) /\ lostRun \in 0 .. MaxBurst
      /\ prev \in 0 .. SeqMod /\ device \in Device /\ job \in Seq(Bodies)
      /\ job' \in Seq(Bodies) /\ lostRun' \in 0 .. MaxBurst
      /\ bseq' = NextSeq(bseq)
      /\ UNCHANGED <<prev, report, phase, device, captured>>
  BY DEF Types, Exchange, boardA
<1>2. BlobLeft \in Nat /\ BlobLeft' \in Nat
  BY <1>1 DEF BlobLeft
<1>3. Owner(q) = <<b.type, b.item>> /\ q.seq = bseq /\ q.body = b
        /\ (Continues(q) <=> b.type = "REPORT" /\ b.idx > 0)
  BY DEF Owner, Continues
<1>4. \A s \in 0 .. SeqMod - 1 : \A owner : LinkedTo(s, owner) => Joined(s, owner, q)
  BY <1>3, NothingLost DEF Joined
<1>5. CASE Arrive(b)
  <2>1. ring' = Append(ring, q) /\ lostRun' = 0 /\ q \in Slots
    BY <1>1, <1>5 DEF Arrive, Slots
  <2>2. /\ Len(ring') = Len(ring) + 1 /\ Len(ring) \in Nat /\ ring' # <<>>
        /\ ring'[Len(ring')] = q /\ \A i \in 1 .. Len(ring) : ring'[i] = ring[i]
    <3>1. ring \in Seq(Slots) /\ q \in Slots
      BY <1>1, <2>1
    <3>2. /\ Len(Append(ring, q)) = Len(ring) + 1 /\ Len(ring) \in Nat
          /\ Append(ring, q) # <<>> /\ Append(ring, q)[Len(ring) + 1] = q
          /\ \A i \in 1 .. Len(ring) : Append(ring, q)[i] = ring[i]
      BY <3>1, AppendProperties, LenProperties
    <3> QED
      BY <2>1, <3>2
  <2>3. LinkedTo(ring[Len(ring)].seq, Owner(ring[Len(ring)]))' 
    <3>1. bseq' = Ahead(bseq, 0)
      <4>1. SeqMod \in Nat /\ bseq \in 0 .. SeqMod - 1 /\ bseq' = NextSeq(bseq)
        BY <1>1, SizeAssumption
      <4> QED
        BY <4>1 DEF Ahead, NextSeq
    <3>2. Resumes' => Owner(q) = <<"REPORT", captured'>>
      BY <1>1, <1>3
    <3> QED
      BY <1>3, <2>1, <2>2, <3>1, <3>2 DEF LinkedTo
  <2>4. \A i \in 1 .. Len(ring) : ring[i].seq \in 0 .. SeqMod - 1
    <3>1. \A i \in 1 .. Len(ring) : ring[i] \in Slots
      BY <1>1
    <3> QED
      BY <3>1 DEF Slots
  <2>5. \A i \in 1 .. Len(ring') - 1 : Joined(ring'[i].seq, Owner(ring'[i]), ring'[i + 1])
    <3>1. ASSUME NEW i \in 1 .. Len(ring') - 1
          PROVE  Joined(ring'[i].seq, Owner(ring'[i]), ring'[i + 1])
      <4>1. CASE i < Len(ring)
        BY <2>2, <4>1 DEF Chain
      <4>2. CASE i = Len(ring)
        <5>1. ring # <<>> /\ LinkedTo(ring[i].seq, Owner(ring[i]))
          BY <1>1, <2>2, <4>2 DEF Chain
        <5> QED
          BY <1>4, <2>2, <2>4, <4>2, <5>1
      <4> QED
        BY <2>2, <4>1, <4>2
    <3> QED
      BY <3>1
  <2>6. report.active => Joined(prev, Rebuilding, ring'[1])
    <3>1. CASE ring = <<>>
      <4>1. ring'[1] = q
        BY <2>2, <3>1
      <4>2. report.active => prev \in 0 .. SeqMod - 1 /\ LinkedTo(prev, Rebuilding)
        BY <1>1, <3>1, SizeAssumption DEF Chain, NoSeq
      <4> QED
        BY <1>4, <4>1, <4>2
    <3>2. CASE ring # <<>>
      <4>1. ring'[1] = ring[1]
        BY <1>1, <2>2, <3>2, EmptySeq
      <4> QED
        BY <3>2, <4>1 DEF Chain
    <3> QED
      BY <3>1, <3>2
  <2> QED
    BY <1>1, <2>2, <2>3, <2>5, <2>6 DEF Chain, Joined, Owner, Continues, Rebuilding
<1>6. CASE Lose
  <2>1. ring' = ring /\ lostRun' = lostRun + 1 /\ lostRun < MaxBurst
    BY <1>6 DEF Lose
  <2>2. ASSUME Fresh PROVE Fresh'
    <3>1. bseq' = bseq + 1
      BY <1>1, <2>1, <2>2, SizeAssumption DEF Fresh, ShortBursts, NextSeq
    <3>2. MaxBurst <= Chunks[device] /\ Chunks[device] \in Nat
      BY <1>1, DeviceAssumption DEF ShortBursts
    <3>3. BlobLeft > 0
      BY <1>1, <1>2, <2>1, <2>2, <3>2, SizeAssumption DEF Fresh
    <3> QED
      BY <1>1, <1>2, <2>1, <2>2, <3>1, <3>2, <3>3, SizeAssumption DEF Fresh
  <2>3. \A s \in 0 .. SeqMod - 1 :
          bseq = Ahead(s, lostRun) => bseq' = Ahead(s, lostRun')
    BY <1>1, <2>1, SizeAssumption DEF Ahead, NextSeq, ShortBursts
  <2>4. lostRun' # 0
    BY <1>1, <2>1
  <2>5. \A s \in 0 .. SeqMod - 1 : \A owner, o : LinkedTo(s, owner) => LinkedTo(s, o)'
    BY <2>2, <2>3, <2>4 DEF LinkedTo
  <2>6. ring # <<>> => ring[Len(ring)].seq \in 0 .. SeqMod - 1
    <3>1. ring # <<>> => ring[Len(ring)] \in Slots
      BY <1>1, EmptySeq, ElementOfSeq
    <3> QED
      BY <3>1 DEF Slots
  <2>7. report.active => prev \in 0 .. SeqMod - 1
    BY <1>1, SizeAssumption DEF Chain, NoSeq
  <2> QED
    BY <1>1, <2>1, <2>5, <2>6, <2>7 DEF Chain, Joined, Owner, Continues, Rebuilding
<1> QED
  BY <1>5, <1>6 DEF Exchange

\* A context that a report fragment leaves active is made of that fragment's report.
LEMMA AcceptOneReport ==
    ASSUME NEW ctx, Transfer(ctx, Nat), NEW b \in Bodies, b.item \in Nat,
           ctx.active => OneBlob(ctx.parts),
           ctx.active /\ b.idx > 0 => ctx.parts[1] = b.item,
           Accept(ctx, b).total > 0
    PROVE  OneBlob(Accept(ctx, b).parts) /\ Accept(ctx, b).parts[1] = b.item
<1>1. b.idx \in Nat
  BY DEF Bodies
<1>2. CASE b.idx = 0
  BY <1>2 DEF Accept, Begin, OneBlob
<1>3. CASE b.idx # 0 /\ Fits(ctx, b)
  <2>1. /\ ctx.parts \in Seq(Nat) /\ ctx.active /\ Len(ctx.parts) > 0
        /\ Accept(ctx, b).parts = Append(ctx.parts, b.item)
    BY <1>3 DEF Accept, Fits, Extend, Transfer
  <2>2. OneBlob(ctx.parts) /\ ctx.parts[1] = b.item
    BY <1>1, <1>3, <2>1
  <2> QED
    BY <2>1, <2>2 DEF OneBlob
<1>4. CASE b.idx # 0 /\ ~Fits(ctx, b)
  BY <1>4 DEF Accept, Idle
<1> QED
  BY <1>2, <1>3, <1>4

\* Board A takes the oldest slot: what it rebuilds is joined to the next one, and a report
\* it completes is of one piece.
LEMMA RelayChain ==
    ASSUME Types, Types', Chain, NoSplice, TakeRelay
    PROVE  Chain' /\ NoSplice'
<1> DEFINE q == Slot
           b == q.body
           kept == IF NoGap(prev, q.seq) THEN report ELSE Idle
           ctx == IF b.type = "REPORT" THEN Accept(kept, b) ELSE kept
<1>1. /\ ring \in Seq(Slots) /\ ring # <<>> /\ q = ring[1] /\ q \in Slots
      /\ q.seq \in 0 .. SeqMod - 1 /\ b \in Bodies
      /\ ring' = Tail(ring) /\ prev' = q.seq /\ report' = ctx /\ phase = "relay"
      /\ UNCHANGED <<boardB, lostRun, phase, captured>>
      /\ forwarded' = IF b.type = "REPORT" /\ Complete(ctx)
                        THEN Append(forwarded, ctx.parts) ELSE forwarded
  <2>1. ring \in Seq(Slots) /\ ring # <<>> /\ q = ring[1] /\ q \in Slots
    BY EmptySeq, ElementOfSeq DEF TakeRelay, Types, Slot
  <2>2. q.seq \in 0 .. SeqMod - 1 /\ b \in Bodies
    BY <2>1 DEF Slots
  <2>3. ring' = Tail(ring) /\ prev' = q.seq /\ report' = ctx /\ phase = "relay"
          /\ UNCHANGED <<boardB, lostRun, phase, captured>>
    BY DEF TakeRelay
  <2>4. forwarded' = IF b.type = "REPORT" /\ Complete(ctx)
                     THEN Append(forwarded, ctx.parts) ELSE forwarded
    BY DEF TakeRelay
  <2> QED
    BY <2>1, <2>2, <2>3, <2>4
<1>2. /\ Len(ring') = Len(ring) - 1 /\ Len(ring) \in Nat \ {0}
      /\ \A i \in 1 .. Len(ring') : ring'[i] = ring[i + 1]
      /\ (ring' = <<>> <=> Len(ring) = 1)
  <2>1. Len(ring) \in Nat \ {0} /\ Tail(ring) \in Seq(Slots)
          /\ Len(Tail(ring)) = Len(ring) - 1
          /\ \A i \in 1 .. Len(Tail(ring)) : Tail(ring)[i] = ring[i + 1]
    BY <1>1, EmptySeq, HeadTailProperties
  <2>2. Tail(ring) = <<>> <=> Len(Tail(ring)) = 0
    BY <2>1, EmptySeq
  <2> QED
    BY <1>1, <2>1, <2>2
<1>3. Transfer(kept, Nat) /\ (kept.active => OneBlob(kept.parts))
        /\ (kept.active /\ Continues(q) => kept.parts[1] = b.item)
  <2>1. Transfer(report, Nat) /\ Transfer(Idle, Nat) /\ ~Idle.active
    BY IdleType DEF Types, Idle
  <2>2. report.active => OneBlob(report.parts)
    BY DEF Chain
  <2>3. report.active /\ NoGap(prev, q.seq) /\ Continues(q) => report.parts[1] = b.item
    BY <1>1 DEF Chain, Joined, Owner, Rebuilding
  <2> QED
    BY <2>1, <2>2, <2>3
<1>4. ASSUME b.type = "REPORT", ctx.total > 0
      PROVE  OneBlob(ctx.parts) /\ ctx.parts[1] = b.item
  <2>1. b.item \in Nat /\ b.idx \in Nat
    BY <1>1, <1>4 DEF Bodies
  <2> QED
    BY <1>1, <1>3, <1>4, <2>1, AcceptOneReport DEF Continues
<1>5. ASSUME ctx.active PROVE OneBlob(ctx.parts)
  <2>1. CASE b.type = "REPORT"
    <3>1. Transfer(report, Nat)'
      BY DEF Types
    <3>2. ctx.total > 0
      BY <1>1, <1>5, <3>1 DEF Transfer
    <3> QED
      BY <1>4, <2>1, <3>2
  <2>2. CASE b.type # "REPORT"
    BY <1>3, <1>5, <2>2
  <2> QED
    BY <2>1, <2>2
<1>6. ASSUME ctx.active, b.type = "REPORT" PROVE Rebuilding' = Owner(q)
  <2>1. Transfer(report, Nat)'
    BY DEF Types
  <2>2. ctx.total > 0
    BY <1>1, <1>6, <2>1 DEF Transfer
  <2> QED
    BY <1>1, <1>4, <1>6, <2>2 DEF Rebuilding, Owner
<1>7. \A i \in 1 .. Len(ring') - 1 : Joined(ring'[i].seq, Owner(ring'[i]), ring'[i + 1])
  <2>1. ASSUME NEW i \in 1 .. Len(ring') - 1
        PROVE  Joined(ring'[i].seq, Owner(ring'[i]), ring'[i + 1])
    <3>1. i + 1 \in 1 .. Len(ring) - 1 /\ ring'[i] = ring[i + 1]
            /\ ring'[i + 1] = ring[(i + 1) + 1]
      BY <1>2
    <3> QED
      BY <3>1 DEF Chain
  <2> QED
    BY <2>1
<1>8. ASSUME ring' # <<>>, ctx.active PROVE Joined(prev', Rebuilding', ring'[1])
  <2>1. Joined(q.seq, Owner(q), ring[2]) /\ ring'[1] = ring[2]
    BY <1>1, <1>2, <1>8 DEF Chain
  <2>2. CASE b.type = "REPORT"
    BY <1>1, <1>6, <1>8, <2>1, <2>2
  <2>3. CASE b.type # "REPORT"
    BY <1>1, <2>1, <2>3 DEF Joined, Owner, Continues
  <2> QED
    BY <2>2, <2>3
<1>9. \A s, o : LinkedTo(s, o)' <=> LinkedTo(s, o)
  BY <1>1 DEF LinkedTo, Fresh, Resumes, BlobLeft, boardB
<1>10. ASSUME ring' # <<>>
       PROVE  LinkedTo(ring[Len(ring)].seq, Owner(ring[Len(ring)]))'
  <2>1. ring'[Len(ring')] = ring[Len(ring)]
    BY <1>2, <1>10
  <2>2. LinkedTo(ring[Len(ring)].seq, Owner(ring[Len(ring)]))
    BY <1>1 DEF Chain
  <2> QED
    BY <1>9, <2>1, <2>2 DEF LinkedTo, Owner
<1>11. ASSUME ring' = <<>>, ctx.active PROVE LinkedTo(prev, Rebuilding)'
  <2>1. LinkedTo(q.seq, Owner(q))
    BY <1>1, <1>2, <1>11 DEF Chain
  <2>2. CASE b.type = "REPORT"
    BY <1>1, <1>6, <1>9, <1>11, <2>1, <2>2 DEF LinkedTo
  <2>3. CASE b.type # "REPORT"
    <3>1. Owner(q) # <<"REPORT", captured>>
      BY <2>3 DEF Owner
    <3> QED
      BY <1>1, <2>1, <3>1 DEF LinkedTo, Fresh, Resumes, BlobLeft, boardB
  <2> QED
    BY <2>2, <2>3
<1>12. Chain'
  <2>1. prev' # NoSeq
    BY <1>1, SizeAssumption DEF NoSeq
  <2> QED
    BY <1>1, <1>5, <1>7, <1>8, <1>10, <1>11, <2>1
    DEF Chain, Joined, Owner, Continues, Rebuilding
<1>13. NoSplice'
  <2>1. CASE b.type = "REPORT" /\ Complete(ctx)
    <3>1. OneBlob(ctx.parts)
      BY <1>4, <2>1 DEF Complete
    <3>2. forwarded \in Seq(Seq(Nat)) /\ forwarded' = Append(forwarded, ctx.parts)
      BY <1>1, <2>1 DEF Types
    <3> QED
      BY <3>1, <3>2 DEF NoSplice
  <2>2. CASE ~(b.type = "REPORT" /\ Complete(ctx))
    BY <1>1, <2>2 DEF NoSplice
  <2> QED
    BY <2>1, <2>2
<1> QED
  BY <1>12, <1>13

LEMMA ChainStepB ==
    ASSUME Types, Types', Job, Job', Chain, ShortBursts, StepB \/ ResetB
    PROVE  Chain'
<1> USE DEF boardA
<1>1. CASE SendNext
  <2>1. /\ Exchange(Head(job)) /\ Head(job) = job[1] /\ job' = Tail(job)
        /\ job \in Seq(Bodies) /\ job # <<>> /\ Head(job) \in Bodies
        /\ UNCHANGED <<boardA, device, captured>>
        /\ bpc \in {"report", "blob"} /\ bpc' = IF Len(job) = 1 THEN "eps" ELSE bpc
    BY <1>1 DEF SendNext, Types, history
  <2>2. Len(job) \in Nat \ {0} /\ Len(job') = Len(job) - 1
    BY <2>1, EmptySeq, HeadTailProperties
  <2>3. Head(job).type = "REPORT" <=> bpc = "report"
    BY <2>1, <2>2 DEF Job
  <2>4. bpc = "report" => Head(job).item = captured
    BY <2>1, <2>2 DEF Job
  <2>5. BlobLeft > 0 => BlobLeft' = BlobLeft - 1 /\ ~Resumes'
    BY <2>1, <2>2 DEF BlobLeft, Resumes
  <2>6. Resumes' => bpc = "report"
    BY <2>1 DEF Resumes
  <2>7. bpc = "report" /\ Head(job).idx > 0 => Resumes
    BY <2>1 DEF Resumes
  <2> QED
    BY <2>1, <2>3, <2>4, <2>5, <2>6, <2>7, ExchangeChain
<1>2. CASE SendInject
  <2>1. Body("INJECT", Head(inject), 0, 1, 0) \in Bodies
    <3>1. Head(inject) \in Nat
      BY <1>2, HeadTailProperties DEF SendInject, Types
    <3> QED
      BY <3>1 DEF Body, Bodies, Ep
  <2>2. bpc = "drain" /\ bpc' = "drain"
          /\ UNCHANGED <<boardA, device, captured>>
          /\ Exchange(Body("INJECT", Head(inject), 0, 1, 0))
    BY <1>2 DEF SendInject, history
  <2> QED
    BY <2>1, <2>2, ExchangeChain DEF BlobLeft, Resumes, Body
<1>3. CASE EndPass
  <2>1. Body("TELEM_REQ", 0, 0, 1, 0) \in Bodies
    BY DEF Body, Bodies, Ep
  <2>2. bpc = "drain" /\ bpc' = "top" /\ UNCHANGED <<boardA, device, captured>>
    BY <1>3 DEF EndPass, history
  <2>3. CASE Exchange(Body("TELEM_REQ", 0, 0, 1, 0))
    BY <2>1, <2>2, <2>3, ExchangeChain DEF BlobLeft, Resumes, Body
  <2>4. CASE UNCHANGED <<bseq, ring, lostRun>>
    BY <2>2, <2>4 DEF Chain, Joined, Rebuilding, LinkedTo, Fresh, BlobLeft, Resumes
  <2> QED
    BY <1>3, <2>3, <2>4 DEF EndPass
<1>4. ASSUME UNCHANGED <<boardA, ring, lostRun>>,
             \A s, o : LinkedTo(s, o) => LinkedTo(s, o)'
      PROVE  Chain'
  BY <1>4 DEF Chain, Joined, Owner, Continues, Rebuilding
<1>5. CASE StartBlob \/ ResetB
  <2>1. /\ UNCHANGED <<boardA, ring, lostRun>> /\ bpc' = "blob"
        /\ Len(job') = Chunks[device'] /\ device' \in Device
        /\ UNCHANGED <<bseq, device>> \/ bseq' = 0
    BY <1>5, ChunksType DEF StartBlob, ResetB, Types
  <2>2. BlobLeft' = Chunks[device'] /\ ~Resumes' /\ Chunks[device'] \in Nat
          /\ lostRun \in Nat /\ bseq \in Nat
    BY <2>1, DeviceAssumption, SizeAssumption DEF BlobLeft, Resumes, Types
  <2>3. CASE bseq' = 0
    BY <1>4, <2>1, <2>2, <2>3 DEF LinkedTo, Fresh
  <2>4. CASE UNCHANGED <<bseq, device>>
    BY <1>4, <2>1, <2>2, <2>4 DEF LinkedTo, Fresh
  <2> QED
    BY <2>1, <2>3, <2>4
<1>6. CASE SkipBlob \/ EndPolls \/ PushInject \/ StartDrain
  <2>1. UNCHANGED <<boardA, ring, lostRun, device, bseq, captured>>
          /\ bpc \notin {"report", "blob"} /\ bpc' \notin {"report", "blob"}
    BY <1>6 DEF SkipBlob, EndPolls, PushInject, StartDrain, history
  <2> QED
    BY <1>4, <2>1 DEF LinkedTo, Fresh, BlobLeft, Resumes
<1>7. ASSUME NEW s \in Shape, CaptureReport(s) PROVE Chain'
  <2>1. /\ UNCHANGED <<boardA, ring, lostRun, device, bseq>>
        /\ bpc = "eps" /\ bpc' = "report"
        /\ job' = ReportFragments(captured', s) /\ s.total \in Nat \ {0}
    BY <1>7, ShapeAssumption DEF CaptureReport
  <2>2. job'[1].idx = 0
    BY <2>1 DEF ReportFragments, Body
  <2> QED
    BY <1>4, <2>1, <2>2 DEF LinkedTo, Fresh, BlobLeft, Resumes
<1> QED
  BY <1>1, <1>2, <1>3, <1>5, <1>6, <1>7 DEF StepB

LEMMA ChainStepA ==
    ASSUME Types, Types', Chain, NoSplice, StepA \/ ResetA
    PROVE  Chain' /\ NoSplice'
<1>1. CASE TakeRelay
  BY <1>1, RelayChain
<1>2. ASSUME UNCHANGED forwarded PROVE NoSplice'
  BY <1>2 DEF NoSplice
<1>3. \A s, o : UNCHANGED <<boardB, lostRun, captured>> /\ LinkedTo(s, o)
                  => LinkedTo(s, o)'
  BY DEF boardB, LinkedTo, Fresh, BlobLeft, Resumes
<1>4. CASE TakeDesc
  <2>1. /\ UNCHANGED <<boardB, lostRun, captured, forwarded, report, prev>>
        /\ ring # <<>> /\ ring' = Tail(ring) /\ phase = "desc" /\ ~report.active
        /\ ring \in Seq(Slots)
    BY <1>4 DEF TakeDesc, history, Chain, Types
  <2>2. /\ Len(ring') = Len(ring) - 1 /\ Len(ring) \in Nat \ {0}
        /\ \A i \in 1 .. Len(ring') : ring'[i] = ring[i + 1]
        /\ (ring' = <<>> => Len(ring) = 1)
    <3>1. Len(ring) \in Nat \ {0} /\ Tail(ring) \in Seq(Slots)
            /\ Len(Tail(ring)) = Len(ring) - 1
            /\ \A i \in 1 .. Len(Tail(ring)) : Tail(ring)[i] = ring[i + 1]
      BY <2>1, EmptySeq, HeadTailProperties
    <3>2. Tail(ring) = <<>> <=> Len(Tail(ring)) = 0
      BY <3>1, EmptySeq
    <3> QED
      BY <2>1, <3>1, <3>2
  <2>3. \A i \in 1 .. Len(ring') - 1 :
          Joined(ring'[i].seq, Owner(ring'[i]), ring'[i + 1])
    <3>1. ASSUME NEW i \in 1 .. Len(ring') - 1
          PROVE  Joined(ring'[i].seq, Owner(ring'[i]), ring'[i + 1])
      <4>1. i + 1 \in 1 .. Len(ring) - 1 /\ ring'[i] = ring[i + 1]
              /\ ring'[i + 1] = ring[(i + 1) + 1]
        BY <2>2
      <4> QED
        BY <4>1 DEF Chain
    <3> QED
      BY <3>1
  <2>4. ASSUME ring' # <<>>
        PROVE  LinkedTo(ring[Len(ring)].seq, Owner(ring[Len(ring)]))'
    <3>1. ring'[Len(ring')] = ring[Len(ring)]
      <4>1. Tail(ring) \in Seq(Slots)
        BY <2>1, HeadTailProperties
      <4>2. Len(ring') \in Nat \ {0}
        BY <2>1, <2>4, <4>1, EmptySeq
      <4> QED
        BY <2>2, <4>2
    <3>2. LinkedTo(ring[Len(ring)].seq, Owner(ring[Len(ring)]))
      BY <2>1 DEF Chain
    <3> QED
      BY <1>3, <2>1, <3>1, <3>2 DEF Owner
  <2> QED
    BY <1>2, <2>1, <2>3, <2>4 DEF Chain, Joined, Owner, Continues
<1>5. CASE Configured
  <2>1. UNCHANGED <<boardB, lostRun, captured, forwarded, ring>> /\ ~report'.active
    BY <1>5 DEF Configured, history, Idle
  <2> QED
    BY <1>2, <1>3, <2>1 DEF Chain, Joined, Owner, Continues
<1>6. CASE ResetA
  <2>1. UNCHANGED forwarded /\ ~report'.active /\ ring' = <<>>
    BY <1>6 DEF ResetA, Idle
  <2> QED
    BY <1>2, <2>1 DEF Chain
<1> QED
  BY <1>1, <1>4, <1>5, <1>6 DEF StepA

\* No report the PC sees is pieced together from two, whatever slots are lost, whichever
\* board restarts and however the ring overflows, as long as fewer slots are lost in a row
\* than a sequence number tells apart and no more than a blob has chunks (two_board.c's
\* Phase 3, report_xfer.c).
THEOREM ReportsWhole == ASSUME ShortBursts PROVE Spec => []NoSplice
<1> DEFINE SInv == Types /\ Job /\ Chain /\ NoSplice
<1>1. Init => SInv
  <2>1. Init => Chain /\ NoSplice
    BY DEF Init, Chain, NoSplice, Idle
  <2> QED
    BY <2>1, TypesInit, JobInit
<1>2. SInv /\ [Next]_vars => SInv'
  <2> SUFFICES ASSUME SInv, [Next]_vars PROVE SInv'
    OBVIOUS
  <2>1. Types' /\ Job'
    BY TypesStep, JobStep
  <2>2. CASE StepB \/ ResetB
    <3>1. NoSplice'
      BY <2>2 DEF StepB, ResetB, StartBlob, SkipBlob, CaptureReport, SendNext, EndPolls,
                  PushInject, StartDrain, SendInject, EndPass, history, NoSplice
    <3> QED
      BY <2>1, <2>2, <3>1, ChainStepB
  <2>3. CASE StepA \/ ResetA
    BY <2>1, <2>3, ChainStepA
  <2>4. CASE UNCHANGED vars
    BY <2>1, <2>4 DEF vars, boardA, boardB, history, Chain, Joined, Owner, Continues,
                      Rebuilding, LinkedTo, Fresh, BlobLeft, Resumes, NoSplice
  <2> QED
    BY <2>2, <2>3, <2>4 DEF Next
<1>3. SInv => NoSplice
  OBVIOUS
<1> QED
  BY <1>1, <1>2, <1>3, PTL DEF Spec

-----------------------------------------------------------------------------
\* Order.  Reports and commands are numbered as they enter Board B; wherever the numbers
\* are afterwards, they only grow from the PC's end to Board B's.

Elems(s) == {s[i] : i \in 1 .. Len(s)}
Sorted(s) == \A i, j \in 1 .. Len(s) : i < j => s[i] < s[j]

\* The slots of the ring that carry a new number of type t: a command, or the first
\* fragment of a report.
Marked(b, t) == b.type = t /\ (t = "REPORT" => b.idx = 0)
Items(r, t) == {r[i].body.item : i \in {k \in 1 .. Len(r) : Marked(r[k].body, t)}}
RingSorted(r, t) ==
    \A i, j \in 1 .. Len(r) :
        i < j /\ Marked(r[i].body, t) /\ Marked(r[j].body, t)
          => r[i].body.item < r[j].body.item

LEMMA SortedAppend ==
    ASSUME NEW s \in Seq(Nat), NEW n \in Nat
    PROVE  /\ Elems(Append(s, n)) = Elems(s) \cup {n}
           /\ Sorted(s) /\ (\A m \in Elems(s) : m < n) => Sorted(Append(s, n))
<1>1. /\ Len(Append(s, n)) = Len(s) + 1 /\ Len(s) \in Nat
      /\ \A i \in 1 .. Len(s) : Append(s, n)[i] = s[i]
      /\ Append(s, n)[Len(s) + 1] = n
  BY AppendProperties
<1>2. Elems(Append(s, n)) = Elems(s) \cup {n}
  BY <1>1 DEF Elems
<1>3. ASSUME Sorted(s), \A m \in Elems(s) : m < n,
             NEW i \in 1 .. Len(s) + 1, NEW j \in 1 .. Len(s) + 1, i < j
      PROVE  Append(s, n)[i] < Append(s, n)[j]
  <2>1. i \in 1 .. Len(s) /\ s[i] \in Elems(s)
    BY <1>1, <1>3 DEF Elems
  <2>2. CASE j = Len(s) + 1
    BY <1>1, <1>3, <2>1, <2>2
  <2>3. CASE j # Len(s) + 1
    <3>1. j \in 1 .. Len(s)
      BY <1>1, <2>3
    <3> QED
      BY <1>1, <1>3, <2>1, <3>1 DEF Sorted
  <2> QED
    BY <2>2, <2>3
<1> QED
  BY <1>1, <1>2, <1>3 DEF Sorted

LEMMA SortedTail ==
    ASSUME NEW s \in Seq(Nat), s # <<>>
    PROVE  /\ Tail(s) \in Seq(Nat) /\ Head(s) \in Elems(s)
           /\ Elems(Tail(s)) \subseteq Elems(s)
           /\ Sorted(s) => Sorted(Tail(s)) /\ \A m \in Elems(Tail(s)) : Head(s) < m
<1>1. /\ Len(s) \in Nat \ {0} /\ Tail(s) \in Seq(Nat) /\ Head(s) = s[1]
      /\ Len(Tail(s)) = Len(s) - 1
      /\ \A i \in 1 .. Len(Tail(s)) : Tail(s)[i] = s[i + 1]
  BY EmptySeq, HeadTailProperties
<1>2. \A i \in 1 .. Len(Tail(s)) : i + 1 \in 1 .. Len(s) /\ 1 < i + 1
  BY <1>1
<1>3. 1 \in 1 .. Len(s)
  BY <1>1
<1>4. Head(s) \in Elems(s) /\ Elems(Tail(s)) \subseteq Elems(s)
  BY <1>1, <1>2, <1>3 DEF Elems
<1>5. ASSUME Sorted(s) PROVE \A m \in Elems(Tail(s)) : Head(s) < m
  BY <1>1, <1>2, <1>3, <1>5 DEF Elems, Sorted
<1>6. ASSUME Sorted(s), NEW i \in 1 .. Len(Tail(s)), NEW j \in 1 .. Len(Tail(s)), i < j
      PROVE  Tail(s)[i] < Tail(s)[j]
  <2>1. i + 1 \in 1 .. Len(s) /\ j + 1 \in 1 .. Len(s) /\ i + 1 < j + 1
    BY <1>2, <1>6
  <2>2. s[i + 1] < s[j + 1]
    BY <1>6, <2>1 DEF Sorted
  <2> QED
    BY <1>1, <2>2
<1> QED
  BY <1>1, <1>4, <1>5, <1>6 DEF Sorted

LEMMA RingAppend ==
    ASSUME NEW r \in Seq(Slots), NEW q \in Slots, NEW t
    PROVE  /\ Items(Append(r, q), t)
                = Items(r, t) \cup (IF Marked(q.body, t) THEN {q.body.item} ELSE {})
           /\ /\ RingSorted(r, t)
              /\ Marked(q.body, t) => \A n \in Items(r, t) : n < q.body.item
              => RingSorted(Append(r, q), t)
<1>1. /\ Len(Append(r, q)) = Len(r) + 1 /\ Len(r) \in Nat
      /\ \A i \in 1 .. Len(r) : Append(r, q)[i] = r[i]
      /\ Append(r, q)[Len(r) + 1] = q
  BY AppendProperties
<1>2. Items(Append(r, q), t)
        = Items(r, t) \cup (IF Marked(q.body, t) THEN {q.body.item} ELSE {})
  BY <1>1 DEF Items
<1>3. ASSUME RingSorted(r, t),
             Marked(q.body, t) => \A n \in Items(r, t) : n < q.body.item,
             NEW i \in 1 .. Len(r) + 1, NEW j \in 1 .. Len(r) + 1, i < j,
             Marked(Append(r, q)[i].body, t), Marked(Append(r, q)[j].body, t)
      PROVE  Append(r, q)[i].body.item < Append(r, q)[j].body.item
  <2>1. i \in 1 .. Len(r) /\ r[i].body.item \in Items(r, t)
    BY <1>1, <1>3 DEF Items
  <2>2. CASE j = Len(r) + 1
    BY <1>1, <1>3, <2>1, <2>2
  <2>3. CASE j # Len(r) + 1
    <3>1. j \in 1 .. Len(r)
      BY <1>1, <2>3
    <3> QED
      BY <1>1, <1>3, <2>1, <3>1 DEF RingSorted
  <2> QED
    BY <2>2, <2>3
<1> QED
  BY <1>1, <1>2, <1>3 DEF RingSorted

LEMMA RingTail ==
    ASSUME NEW r \in Seq(Slots), r # <<>>, NEW t
    PROVE  /\ Tail(r) \in Seq(Slots) /\ Head(r) \in Slots
           /\ Items(Tail(r), t) \subseteq Items(r, t)
           /\ Marked(Head(r).body, t) => Head(r).body.item \in Items(r, t)
           /\ RingSorted(r, t) =>
                /\ RingSorted(Tail(r), t)
                /\ Marked(Head(r).body, t) =>
                     \A n \in Items(Tail(r), t) : Head(r).body.item < n
<1>1. /\ Len(r) \in Nat \ {0} /\ Tail(r) \in Seq(Slots) /\ Head(r) = r[1]
      /\ Head(r) \in Slots /\ Len(Tail(r)) = Len(r) - 1
      /\ \A i \in 1 .. Len(Tail(r)) : Tail(r)[i] = r[i + 1]
  BY EmptySeq, HeadTailProperties
<1>2. \A i \in 1 .. Len(Tail(r)) : i + 1 \in 1 .. Len(r) /\ 1 < i + 1
  BY <1>1
<1>3. 1 \in 1 .. Len(r)
  BY <1>1
<1>4. /\ Marked(Head(r).body, t) => Head(r).body.item \in Items(r, t)
      /\ Items(Tail(r), t) \subseteq Items(r, t)
  BY <1>1, <1>2, <1>3 DEF Items
<1>5. ASSUME RingSorted(r, t), Marked(Head(r).body, t)
      PROVE  \A n \in Items(Tail(r), t) : Head(r).body.item < n
  BY <1>1, <1>2, <1>3, <1>5 DEF Items, RingSorted
<1>6. ASSUME RingSorted(r, t),
             NEW i \in 1 .. Len(Tail(r)), NEW j \in 1 .. Len(Tail(r)), i < j,
             Marked(Tail(r)[i].body, t), Marked(Tail(r)[j].body, t)
      PROVE  Tail(r)[i].body.item < Tail(r)[j].body.item
  <2>1. i + 1 \in 1 .. Len(r) /\ j + 1 \in 1 .. Len(r) /\ i + 1 < j + 1
    BY <1>2, <1>6
  <2>2. Tail(r)[i] = r[i + 1] /\ Tail(r)[j] = r[j + 1]
    BY <1>1
  <2> QED
    BY <1>6, <2>1, <2>2 DEF RingSorted
<1> QED
  BY <1>1, <1>4, <1>5, <1>6 DEF RingSorted

\* The numbers are numbers.
LEMMA ItemsType ==
    ASSUME NEW r \in Seq(Slots), NEW t \in {"REPORT", "INJECT"}
    PROVE  Items(r, t) \subseteq Nat
<1>1. \A i \in 1 .. Len(r) : r[i] \in Slots
  OBVIOUS
<1>2. \A i \in 1 .. Len(r) : r[i].body \in Bodies
  BY <1>1 DEF Slots
<1>3. \A b \in Bodies : Marked(b, t) => b.item \in Nat
  BY DEF Bodies, Marked
<1> QED
  BY <1>2, <1>3 DEF Items

LEMMA ElemsType == ASSUME NEW s \in Seq(Nat) PROVE Elems(s) \subseteq Nat
  BY DEF Elems

\* A slot that is clocked out adds its number to the ring or nothing.
LEMMA ExchangeItems ==
    ASSUME Types, NEW b \in Bodies, Exchange(b), NEW t
    PROVE  /\ Items(ring', t)
                \subseteq Items(ring, t) \cup (IF Marked(b, t) THEN {b.item} ELSE {})
           /\ /\ RingSorted(ring, t)
              /\ Marked(b, t) => \A n \in Items(ring, t) : n < b.item
              => RingSorted(ring', t)
<1> DEFINE q == [seq |-> bseq, body |-> b]
<1>1. q \in Slots /\ q.body = b /\ ring \in Seq(Slots)
  BY DEF Types, Slots
<1>2. CASE ring' = Append(ring, q)
  <2>1. /\ Items(Append(ring, q), t)
             = Items(ring, t) \cup (IF Marked(b, t) THEN {b.item} ELSE {})
        /\ /\ RingSorted(ring, t)
           /\ Marked(b, t) => \A n \in Items(ring, t) : n < b.item
           => RingSorted(Append(ring, q), t)
    BY <1>1, RingAppend
  <2> QED
    BY <1>2, <2>1
<1>3. CASE ring' = ring
  BY <1>3
<1> QED
  BY <1>2, <1>3 DEF Exchange, Arrive, Lose

\* The next slot of the report or blob being sent.
LEMMA JobHead ==
    ASSUME Types, Job, job # <<>>
    PROVE  /\ Head(job) \in Bodies /\ Head(job) = job[1] /\ bpc \in {"report", "blob"}
           /\ bpc = "report" => Head(job).type = "REPORT" /\ Head(job).item = captured
           /\ bpc # "report" => Head(job).type = "DESC"
<1>1. job \in Seq(Bodies) /\ Len(job) \in Nat \ {0} /\ bpc \in {"report", "blob"}
  BY EmptySeq DEF Types
<1>2. Head(job) \in Bodies /\ Head(job) = job[1] /\ 1 \in 1 .. Len(job)
  BY <1>1, HeadTailProperties
<1> QED
  BY <1>1, <1>2 DEF Job

\* Applied, then in the ring, then in the FIFO, then not yet pushed.
InRing == Items(ring, "INJECT")
CommandOrder ==
    /\ Sorted(applied) /\ Sorted(inject) /\ RingSorted(ring, "INJECT")
    /\ \A n \in Elems(applied) \cup InRing \cup Elems(inject) : n <= pushed
    /\ \A n \in Elems(applied) : \A m \in InRing \cup Elems(inject) : n < m
    /\ \A n \in InRing : \A m \in Elems(inject) : n < m

LEMMA CommandStep == Types /\ Job /\ CommandOrder /\ [Next]_vars => CommandOrder'
<1> SUFFICES ASSUME Types, Job, CommandOrder, [Next]_vars PROVE CommandOrder'
  OBVIOUS
<1>1. /\ ring \in Seq(Slots) /\ inject \in Seq(Nat) /\ applied \in Seq(Nat) /\ pushed \in Nat
      /\ InRing \subseteq Nat /\ Elems(inject) \subseteq Nat /\ Elems(applied) \subseteq Nat
  BY ItemsType, ElemsType DEF Types, InRing
<1>2. ASSUME UNCHANGED <<ring, inject, applied, pushed>> PROVE CommandOrder'
  BY <1>2 DEF CommandOrder, InRing
<1>3. ASSUME NEW b \in Bodies, Exchange(b), b.type # "INJECT",
             UNCHANGED <<inject, applied, pushed>>
      PROVE  CommandOrder'
  <2>1. InRing' \subseteq InRing /\ RingSorted(ring', "INJECT")
    BY <1>3, ExchangeItems DEF InRing, Marked, CommandOrder
  <2> QED
    BY <1>3, <2>1 DEF CommandOrder
<1>4. CASE SendNext
  <2>1. Exchange(Head(job)) /\ Head(job) \in Bodies /\ Head(job).type # "INJECT"
    BY <1>4, JobHead DEF SendNext, Types
  <2>2. UNCHANGED <<inject, applied, pushed>>
    BY <1>4 DEF SendNext, history
  <2> QED
    BY <1>3, <2>1, <2>2
<1>5. CASE SendInject
  <2> DEFINE b == Body("INJECT", Head(inject), 0, 1, 0)
  <2>1. /\ inject # <<>> /\ Exchange(b) /\ inject' = Tail(inject)
        /\ UNCHANGED <<applied, pushed>>
    BY <1>5 DEF SendInject, history
  <2>2. /\ Head(inject) \in Elems(inject) /\ Elems(inject') \subseteq Elems(inject)
        /\ Sorted(inject') /\ \A m \in Elems(inject') : Head(inject) < m
    BY <1>1, <2>1, SortedTail DEF CommandOrder
  <2>3. b \in Bodies /\ b.item = Head(inject)
    BY <1>1, <2>2 DEF Body, Bodies, Ep
  <2>4. InRing' \subseteq InRing \cup {Head(inject)} /\ RingSorted(ring', "INJECT")
    <3>1. \A n \in InRing : n < Head(inject)
      BY <2>2 DEF CommandOrder
    <3> QED
      BY <2>1, <2>3, <3>1, ExchangeItems DEF InRing, CommandOrder
  <2>5. \A n \in Elems(applied) \cup InRing' \cup Elems(inject') : n <= pushed
    BY <2>2, <2>4 DEF CommandOrder
  <2>6. \A n \in Elems(applied) : \A m \in InRing' \cup Elems(inject') : n < m
    BY <2>2, <2>4 DEF CommandOrder
  <2>7. \A n \in InRing' : \A m \in Elems(inject') : n < m
    BY <2>2, <2>4 DEF CommandOrder
  <2> QED
    BY <2>1, <2>2, <2>4, <2>5, <2>6, <2>7 DEF CommandOrder
<1>6. CASE EndPass
  <2>1. Body("TELEM_REQ", 0, 0, 1, 0) \in Bodies
          /\ Body("TELEM_REQ", 0, 0, 1, 0).type # "INJECT"
    BY DEF Body, Bodies, Ep
  <2>2. UNCHANGED <<inject, applied, pushed>>
    BY <1>6 DEF EndPass, history
  <2> QED
    BY <1>2, <1>3, <1>6, <2>1, <2>2 DEF EndPass
<1>7. CASE PushInject
  <2> DEFINE kept == IF Len(inject) = InjectDepth - 1 THEN Tail(inject) ELSE inject
  <2>1. /\ inject' = Append(kept, pushed') /\ pushed' = pushed + 1
        /\ UNCHANGED <<ring, applied>>
    BY <1>7 DEF PushInject, boardA, Enqueue
  <2>2. kept \in Seq(Nat) /\ Elems(kept) \subseteq Elems(inject) /\ Sorted(kept)
    <3>1. Len(inject) = InjectDepth - 1 => inject # <<>>
      BY SizeAssumption, EmptySeq
    <3> QED
      BY <1>1, <3>1, SortedTail DEF CommandOrder
  <2>3. \A m \in Elems(kept) : m < pushed'
    BY <1>1, <2>1, <2>2 DEF CommandOrder
  <2>4. Sorted(inject') /\ Elems(inject') = Elems(kept) \cup {pushed'}
    <3>1. pushed' \in Nat
      BY <1>1, <2>1
    <3> QED
      BY <2>1, <2>2, <2>3, <3>1, SortedAppend
  <2>5. \A n \in Elems(applied) \cup InRing \cup Elems(inject') : n <= pushed'
    <3>1. \A n \in Elems(applied) \cup InRing \cup Elems(kept) : n \in Nat /\ n <= pushed
      BY <1>1, <2>2 DEF CommandOrder
    <3>2. \A n \in Elems(applied) \cup InRing \cup Elems(kept) : n <= pushed'
      BY <1>1, <2>1, <3>1
    <3>3. pushed' <= pushed'
      BY <1>1, <2>1
    <3> QED
      BY <2>4, <3>2, <3>3
  <2>6. /\ \A n \in Elems(applied) : \A m \in InRing \cup Elems(inject') : n < m
        /\ \A n \in InRing : \A m \in Elems(inject') : n < m
    BY <1>1, <2>1, <2>2, <2>4 DEF CommandOrder
  <2> QED
    BY <2>1, <2>4, <2>5, <2>6 DEF CommandOrder, InRing
<1>8. ASSUME ring # <<>>, ring' = Tail(ring), UNCHANGED <<inject, pushed>>,
             \/ applied' = applied
             \/ Slot.body.type = "INJECT" /\ applied' = Append(applied, Slot.body.item)
      PROVE  CommandOrder'
  <2>1. /\ InRing' \subseteq InRing /\ RingSorted(ring', "INJECT")
        /\ Slot.body.type = "INJECT" =>
             Slot.body.item \in InRing /\ \A n \in InRing' : Slot.body.item < n
    BY <1>1, <1>8, RingTail DEF InRing, Slot, Marked, CommandOrder
  <2>2. CASE applied' = applied
    BY <1>8, <2>1, <2>2 DEF CommandOrder
  <2>3. CASE Slot.body.type = "INJECT" /\ applied' = Append(applied, Slot.body.item)
    <3>1. Slot.body.item \in Nat /\ \A n \in Elems(applied) : n < Slot.body.item
      BY <1>1, <2>1, <2>3 DEF CommandOrder
    <3>2. Sorted(applied') /\ Elems(applied') = Elems(applied) \cup {Slot.body.item}
      BY <1>1, <2>3, <3>1, SortedAppend DEF CommandOrder
    <3>3. \A n \in Elems(applied') \cup InRing' \cup Elems(inject) : n <= pushed
      BY <2>1, <2>3, <3>2 DEF CommandOrder
    <3>4. \A n \in Elems(applied') : \A m \in InRing' \cup Elems(inject) : n < m
      BY <2>1, <2>3, <3>2 DEF CommandOrder
    <3> QED
      BY <1>8, <2>1, <3>2, <3>3, <3>4 DEF CommandOrder
  <2> QED
    BY <1>8, <2>2, <2>3
<1>9. CASE TakeDesc
  BY <1>8, <1>9 DEF TakeDesc, boardB, history
<1>10. CASE TakeRelay
  BY <1>8, <1>10 DEF TakeRelay, boardB
<1>11. CASE ResetA
  <2>1. InRing' = {} /\ RingSorted(ring', "INJECT")
    BY <1>11 DEF ResetA, InRing, Items, RingSorted
  <2> QED
    BY <1>11, <2>1 DEF ResetA, boardB, CommandOrder
<1>12. CASE ResetB
  <2>1. Elems(inject') = {} /\ Sorted(inject')
    BY <1>12 DEF ResetB, Elems, Sorted
  <2> QED
    BY <1>12, <2>1 DEF ResetB, boardA, CommandOrder, InRing
<1>13. CASE StartBlob \/ SkipBlob \/ (\E s \in Shape : CaptureReport(s)) \/ EndPolls
              \/ StartDrain \/ Configured \/ UNCHANGED vars
  BY <1>2, <1>13 DEF StartBlob, SkipBlob, CaptureReport, EndPolls, StartDrain, Configured,
                     vars, boardA, boardB, history
<1> QED
  BY <1>4, <1>5, <1>6, <1>7, <1>9, <1>10, <1>11, <1>12, <1>13 DEF Next, StepA, StepB

\* Forwarded, then being rebuilt, then begun in the ring, then still to be sent.
Forwarded == {forwarded[k][1] : k \in 1 .. Len(forwarded)}
Begun == IF report.active THEN {report.parts[1]} ELSE {}
Firsts == Items(ring, "REPORT")

\* The number of the next report whose first fragment is sent.
NextFirst == IF bpc = "report" /\ job[1].idx = 0 THEN captured ELSE captured + 1

ReportOrder ==
    /\ ReportsInOrder /\ RingSorted(ring, "REPORT")
    /\ Forwarded \subseteq Nat
    /\ \A n \in Forwarded \cup Begun \cup Firsts : n < NextFirst
    /\ \A n \in Forwarded : \A m \in Begun \cup Firsts : n < m
    /\ \A n \in Begun : \A m \in Firsts : n < m

LEMMA ReportTypes ==
    ASSUME Types
    PROVE  Begun \subseteq Nat /\ Firsts \subseteq Nat /\ NextFirst \in Nat
<1>1. Begun \subseteq Nat
  <2>1. report.active => report.parts \in Seq(Nat) /\ 1 \in 1 .. Len(report.parts)
    BY DEF Types, Transfer
  <2> QED
    BY <2>1 DEF Begun
<1> QED
  BY <1>1, ItemsType DEF Types, Firsts, NextFirst

\* Board A takes a slot: the first number moves from the ring to the report being rebuilt
\* or to the reports forwarded.
LEMMA ReportRelay ==
    ASSUME Types, Types', ReportOrder, TakeRelay
    PROVE  ReportOrder'
<1> DEFINE b == Slot.body
           kept == IF NoGap(prev, Slot.seq) THEN report ELSE Idle
           ctx == IF b.type = "REPORT" THEN Accept(kept, b) ELSE kept
<1>1. /\ ring \in Seq(Slots) /\ ring # <<>> /\ ring' = Tail(ring) /\ Slot = Head(ring)
      /\ report' = ctx /\ UNCHANGED <<boardB, captured>>
      /\ forwarded' = IF b.type = "REPORT" /\ Complete(ctx)
                      THEN Append(forwarded, ctx.parts) ELSE forwarded
      /\ forwarded \in Seq(Seq(Nat)) /\ Transfer(report', Nat)
  BY DEF TakeRelay, Types, Slot, Transfer
<1>2. b \in Bodies
  <2>1. Slot \in Slots
    BY <1>1, HeadTailProperties
  <2> QED
    BY <2>1 DEF Slots
<1>3. /\ Firsts' \subseteq Firsts /\ RingSorted(ring', "REPORT")
      /\ b.type = "REPORT" /\ b.idx = 0 =>
           b.item \in Firsts /\ \A n \in Firsts' : b.item < n
  BY <1>1, RingTail DEF Firsts, Marked, ReportOrder
<1>4. NextFirst' = NextFirst /\ NextFirst \in Nat
  BY <1>1, ReportTypes DEF NextFirst, boardB
\* The number of the report rebuilt now, if there is one.
<1>5. ASSUME ctx.active \/ (b.type = "REPORT" /\ Complete(ctx))
      PROVE  /\ ctx.parts[1] \in Begun \cup Firsts
             /\ \A n \in Firsts' : ctx.parts[1] < n
             /\ \A n \in Forwarded : n < ctx.parts[1]
  <2>1. CASE b.type = "REPORT" /\ b.idx = 0
    <3>1. ctx.parts[1] = b.item
      BY <2>1 DEF Accept, Begin
    <3> QED
      BY <1>3, <2>1, <3>1 DEF ReportOrder
  <2>2. CASE b.type # "REPORT" \/ b.idx # 0
    <3>1. report.active /\ ctx.parts[1] = report.parts[1]
      <4>1. CASE b.type # "REPORT"
        BY <1>5, <4>1 DEF Idle
      <4>2. CASE b.type = "REPORT"
        <5>1. Fits(kept, b) /\ ctx = Extend(kept, b)
          BY <1>5, <2>2, <4>2 DEF Accept, Idle, Complete
        <5>2. kept = report /\ report.active
          BY <5>1 DEF Fits, Idle
        <5>3. /\ report.parts \in Seq(Nat) /\ Len(report.parts) > 0
              /\ ctx.parts = Append(report.parts, b.item) /\ b.item \in Nat
          <6>1. Transfer(report, Nat)
            BY DEF Types
          <6>2. report.parts \in Seq(Nat) /\ Len(report.parts) > 0
            BY <5>2, <6>1 DEF Transfer
          <6>3. ctx.parts = Append(report.parts, b.item)
            BY <5>1, <5>2, <6>1 DEF Extend, Transfer
          <6>4. b.item \in Nat
            BY <1>2, <4>2 DEF Bodies
          <6> QED
            BY <6>2, <6>3, <6>4
        <5> QED
          BY <5>2, <5>3
      <4> QED
        BY <4>1, <4>2
    <3>2. report.parts[1] \in Begun
      BY <3>1 DEF Begun
    <3> QED
      BY <1>3, <3>1, <3>2 DEF ReportOrder
  <2> QED
    BY <2>1, <2>2
<1>6. Begun' \subseteq Begun \cup Firsts
        /\ (\A n \in Begun' : \A m \in Firsts' : n < m)
        /\ (\A n \in Forwarded : \A m \in Begun' : n < m)
  BY <1>1, <1>5 DEF Begun
<1>7. CASE b.type = "REPORT" /\ Complete(ctx)
  <2>1. ~ctx.active
    BY <1>1, <1>7 DEF Transfer, Complete
  <2>2. ctx.parts[1] \in Nat /\ ctx.parts \in Seq(Nat)
    BY <1>1, <1>5, <1>7, ReportTypes DEF Transfer
  <2>3. forwarded' = Append(forwarded, ctx.parts) /\ Begun' = {}
    BY <1>1, <1>7, <2>1 DEF Begun
  <2>4. /\ Len(forwarded') = Len(forwarded) + 1 /\ Len(forwarded) \in Nat
        /\ \A k \in 1 .. Len(forwarded) : forwarded'[k] = forwarded[k]
        /\ forwarded'[Len(forwarded) + 1] = ctx.parts
    BY <1>1, <2>2, <2>3, AppendProperties
  <2>5. Forwarded' = Forwarded \cup {ctx.parts[1]}
    BY <2>4 DEF Forwarded
  <2>6. ReportsInOrder'
    <3>1. ASSUME NEW i \in 1 .. Len(forwarded) + 1, NEW j \in 1 .. Len(forwarded) + 1, i < j
          PROVE  forwarded'[i][1] < forwarded'[j][1]
      <4>1. i \in 1 .. Len(forwarded) /\ forwarded[i][1] \in Forwarded
        BY <2>4, <3>1 DEF Forwarded
      <4>2. CASE j = Len(forwarded) + 1
        BY <1>5, <1>7, <2>4, <4>1, <4>2
      <4>3. CASE j # Len(forwarded) + 1
        <5>1. j \in 1 .. Len(forwarded)
          BY <2>4, <4>3
        <5>2. DOMAIN forwarded = 1 .. Len(forwarded)
          BY <1>1
        <5> QED
          BY <2>4, <3>1, <4>1, <5>1, <5>2 DEF ReportOrder, ReportsInOrder
      <4> QED
        BY <4>2, <4>3
    <3>2. DOMAIN forwarded' = 1 .. Len(forwarded) + 1
      BY <1>1, <2>2, <2>3, <2>4, AppendProperties
    <3> QED
      BY <3>1, <3>2 DEF ReportsInOrder
  <2>7. \A n \in Forwarded' \cup Firsts' : n < NextFirst
    BY <1>3, <1>5, <1>7, <2>5 DEF ReportOrder
  <2>8. \A n \in Forwarded' : \A m \in Firsts' : n < m
    BY <1>3, <1>5, <1>7, <2>5 DEF ReportOrder
  <2>9. Forwarded' \subseteq Nat
    BY <2>2, <2>5 DEF ReportOrder
  <2> QED
    BY <1>3, <1>4, <2>3, <2>6, <2>7, <2>8, <2>9 DEF ReportOrder
<1>8. CASE ~(b.type = "REPORT" /\ Complete(ctx))
  <2>1. forwarded' = forwarded
    BY <1>1, <1>8
  <2>2. Forwarded' = Forwarded /\ ReportsInOrder'
    BY <2>1 DEF Forwarded, ReportOrder, ReportsInOrder
  <2>3. \A n \in Forwarded' \cup Begun' \cup Firsts' : n < NextFirst
    BY <1>3, <1>6, <2>2 DEF ReportOrder
  <2>4. \A n \in Forwarded' : \A m \in Begun' \cup Firsts' : n < m
    BY <1>3, <1>6, <2>2 DEF ReportOrder
  <2> QED
    BY <1>3, <1>4, <1>6, <2>2, <2>3, <2>4 DEF ReportOrder
<1> QED
  BY <1>7, <1>8

LEMMA ReportStep == Types /\ Types' /\ Job /\ ReportOrder /\ [Next]_vars => ReportOrder'
<1> SUFFICES ASSUME Types, Types', Job, ReportOrder, [Next]_vars PROVE ReportOrder'
  OBVIOUS
<1>1. /\ ring \in Seq(Slots) /\ captured \in Nat
      /\ Begun \subseteq Nat /\ Firsts \subseteq Nat /\ Forwarded \subseteq Nat
      /\ NextFirst \in Nat /\ NextFirst' \in Nat
  <2>1. captured \in Nat /\ captured' \in Nat /\ ring \in Seq(Slots)
    BY DEF Types
  <2>2. NextFirst' = captured' \/ NextFirst' = captured' + 1
    BY DEF NextFirst
  <2> QED
    BY <2>1, <2>2, ReportTypes DEF ReportOrder
<1>2. ASSUME UNCHANGED <<forwarded, report>>, NextFirst <= NextFirst',
             Firsts' \subseteq Firsts, RingSorted(ring', "REPORT")
      PROVE  ReportOrder'
  <2>1. Forwarded' = Forwarded /\ Begun' = Begun /\ ReportsInOrder'
    BY <1>2 DEF Forwarded, Begun, ReportOrder, ReportsInOrder
  <2>2. \A n \in Forwarded \cup Begun \cup Firsts : n \in Nat /\ n < NextFirst
    BY <1>1 DEF ReportOrder
  <2>3. \A n \in Forwarded \cup Begun \cup Firsts' : n < NextFirst'
    BY <1>1, <1>2, <2>2
  <2> QED
    BY <1>2, <2>1, <2>3 DEF ReportOrder
<1>3. ASSUME NEW b \in Bodies, Exchange(b), ~Marked(b, "REPORT"),
             UNCHANGED <<forwarded, report>>, NextFirst <= NextFirst'
      PROVE  ReportOrder'
  <2>1. Firsts' \subseteq Firsts /\ RingSorted(ring', "REPORT")
    BY <1>3, ExchangeItems DEF Firsts, ReportOrder
  <2> QED
    BY <1>2, <1>3, <2>1
<1>4. CASE SendNext
  <2>1. /\ Exchange(Head(job)) /\ Head(job) \in Bodies /\ Head(job) = job[1]
        /\ bpc = "report" => Head(job).type = "REPORT" /\ Head(job).item = captured
        /\ bpc # "report" => Head(job).type = "DESC"
    BY <1>4, JobHead DEF SendNext, Types
  <2>2. /\ UNCHANGED <<forwarded, report, captured>> /\ job' = Tail(job)
        /\ bpc' = IF Len(job) = 1 THEN "eps" ELSE bpc
    BY <1>4 DEF SendNext, history, boardA
  <2>3. bpc' = "report" => job'[1].idx = job[1].idx + 1 /\ job[1].idx \in Nat
    <3>1. job \in Seq(Bodies) /\ job # <<>>
      BY <1>4 DEF SendNext, Types
    <3>2. Len(job) \in Nat \ {0} /\ Len(Tail(job)) = Len(job) - 1
            /\ \A k \in 1 .. Len(Tail(job)) : Tail(job)[k] = job[k + 1]
      BY <3>1, EmptySeq, HeadTailProperties
    <3>3. job[1].idx \in Nat
      BY <2>1 DEF Bodies
    <3>4. bpc' = "report" => 1 \in 1 .. Len(job) - 1
      BY <2>2, <3>2
    <3> QED
      BY <2>2, <3>2, <3>3, <3>4 DEF Job
  <2>4. NextFirst' = captured + 1
    <3>1. ~(bpc' = "report" /\ job'[1].idx = 0)
      BY <2>3
    <3> QED
      BY <2>2, <3>1 DEF NextFirst
  <2>5. CASE ~Marked(Head(job), "REPORT")
    <3>1. NextFirst <= NextFirst'
      BY <1>1, <2>4 DEF NextFirst
    <3> QED
      BY <1>3, <2>1, <2>2, <2>5, <3>1
  <2>6. CASE Marked(Head(job), "REPORT")
    <3>1. Head(job).item = captured /\ NextFirst = captured
      BY <2>1, <2>6 DEF Marked, NextFirst
    <3>2. \A n \in Forwarded \cup Begun \cup Firsts : n < captured
      BY <3>1 DEF ReportOrder
    <3>3. Firsts' \subseteq Firsts \cup {captured} /\ RingSorted(ring', "REPORT")
      BY <2>1, <3>1, <3>2, ExchangeItems DEF Firsts, ReportOrder
    <3>4. Forwarded' = Forwarded /\ Begun' = Begun /\ ReportsInOrder'
      BY <2>2 DEF Forwarded, Begun, ReportOrder, ReportsInOrder
    <3>5. \A n \in Forwarded' \cup Begun' \cup Firsts' : n < NextFirst'
      <4>1. \A n \in Forwarded \cup Begun \cup Firsts : n \in Nat
        BY <1>1
      <4>2. \A n \in Forwarded \cup Begun \cup Firsts : n < captured + 1
        BY <1>1, <3>2, <4>1
      <4>3. captured < captured + 1
        BY <1>1
      <4> QED
        BY <2>4, <3>3, <3>4, <4>2, <4>3
    <3>6. /\ \A n \in Forwarded' : \A m \in Begun' \cup Firsts' : n < m
          /\ \A n \in Begun' : \A m \in Firsts' : n < m
      BY <3>2, <3>3, <3>4 DEF ReportOrder
    <3> QED
      BY <1>1, <3>3, <3>4, <3>5, <3>6 DEF ReportOrder
  <2> QED
    BY <2>5, <2>6
<1>5. CASE SendInject
  <2>1. Body("INJECT", Head(inject), 0, 1, 0) \in Bodies
    <3>1. Head(inject) \in Nat
      BY <1>5, HeadTailProperties DEF SendInject, Types
    <3> QED
      BY <3>1 DEF Body, Bodies, Ep
  <2>2. /\ Exchange(Body("INJECT", Head(inject), 0, 1, 0))
        /\ UNCHANGED <<forwarded, report>> /\ NextFirst' = NextFirst
    BY <1>5 DEF SendInject, history, boardA, NextFirst
  <2> QED
    BY <1>1, <1>3, <2>1, <2>2 DEF Body, Marked
<1>6. CASE EndPass
  <2>1. Body("TELEM_REQ", 0, 0, 1, 0) \in Bodies
    BY DEF Body, Bodies, Ep
  <2>2. UNCHANGED <<forwarded, report>> /\ NextFirst' = NextFirst
    BY <1>6 DEF EndPass, history, boardA, NextFirst
  <2>3. CASE Exchange(Body("TELEM_REQ", 0, 0, 1, 0))
    BY <1>1, <1>3, <2>1, <2>2, <2>3 DEF Body, Marked
  <2>4. CASE UNCHANGED <<bseq, ring, lostRun>>
    BY <1>1, <1>2, <2>2, <2>4 DEF Firsts, ReportOrder
  <2> QED
    BY <1>6, <2>3, <2>4 DEF EndPass
<1>7. CASE TakeDesc
  <2>1. ring # <<>> /\ ring' = Tail(ring) /\ UNCHANGED <<forwarded, report>>
          /\ NextFirst' = NextFirst
    BY <1>7 DEF TakeDesc, boardB, history, NextFirst
  <2>2. Firsts' \subseteq Firsts /\ RingSorted(ring', "REPORT")
    BY <1>1, <2>1, RingTail DEF Firsts, ReportOrder
  <2> QED
    BY <1>1, <1>2, <2>1, <2>2
<1>8. CASE TakeRelay
  BY <1>8, ReportRelay
<1>9. CASE Configured \/ ResetA
  <2>1. /\ forwarded' = forwarded /\ Begun' = {} /\ NextFirst' = NextFirst
        /\ Firsts' \subseteq Firsts /\ RingSorted(ring', "REPORT")
    BY <1>9 DEF Configured, ResetA, boardB, history, NextFirst, Begun, Idle, Firsts, Items,
                RingSorted, ReportOrder
  <2>2. Forwarded' = Forwarded /\ ReportsInOrder'
    BY <2>1 DEF Forwarded, ReportOrder, ReportsInOrder
  <2> QED
    BY <1>1, <2>1, <2>2 DEF ReportOrder
<1>10. ASSUME NEW s \in Shape, CaptureReport(s) PROVE ReportOrder'
  <2>1. NextFirst <= NextFirst' /\ UNCHANGED <<forwarded, report, ring>>
    BY <1>1, <1>10 DEF CaptureReport, boardA, NextFirst
  <2> QED
    BY <1>2, <2>1 DEF Firsts, ReportOrder
<1>11. CASE StartBlob \/ ResetB \/ SkipBlob \/ EndPolls \/ PushInject \/ StartDrain
              \/ UNCHANGED vars
  <2>1. /\ UNCHANGED <<forwarded, report, ring, captured>>
        /\ \/ bpc' # "report"
           \/ UNCHANGED <<bpc, job>>
    BY <1>11 DEF StartBlob, ResetB, SkipBlob, EndPolls, PushInject, StartDrain, boardA,
                 boardB, history, vars
  <2>2. NextFirst <= NextFirst'
    BY <1>1, <2>1 DEF NextFirst
  <2> QED
    BY <1>2, <2>1, <2>2 DEF Firsts, ReportOrder
<1> QED
  BY <1>4, <1>5, <1>6, <1>7, <1>8, <1>9, <1>10, <1>11 DEF Next, StepA, StepB

\* Reports reach the PC in the order they were captured and commands are applied in the
\* order they were pushed, none twice, for any losses, evictions, partial reports and
\* restarts of either board (two_board.c, inject_link.c).
THEOREM InOrder == Spec => []RelayedInOrder
<1> DEFINE OInv == Types /\ Job /\ CommandOrder /\ ReportOrder
<1>1. ASSUME Init PROVE OInv
  <2>1. Elems(<<>>) = {} /\ Sorted(<<>>)
          /\ \A t : Items(<<>>, t) = {} /\ RingSorted(<<>>, t)
    BY DEF Elems, Sorted, Items, RingSorted
  <2>2. CommandOrder
    BY <1>1, <2>1 DEF Init, CommandOrder, InRing
  <2>3. Forwarded = {} /\ Begun = {} /\ Firsts = {} /\ ReportsInOrder
          /\ RingSorted(ring, "REPORT")
    BY <1>1, <2>1 DEF Init, Forwarded, Begun, Idle, Firsts, ReportsInOrder
  <2>4. ReportOrder
    BY <2>3 DEF ReportOrder
  <2> QED
    BY <1>1, <2>2, <2>4, TypesInit, JobInit
<1>2. OInv /\ [Next]_vars => OInv'
  BY TypesStep, JobStep, CommandStep, ReportStep
<1>3. ASSUME OInv PROVE RelayedInOrder
  <2>1. DOMAIN applied = 1 .. Len(applied)
    BY <1>3 DEF Types
  <2> QED
    BY <1>3, <2>1 DEF RelayedInOrder, CommandOrder, ReportOrder, Sorted, InjectInOrder
<1> QED
  BY <1>1, <1>2, <1>3, PTL DEF Spec
=============================================================================
