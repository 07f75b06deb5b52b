----------------------------- MODULE SpiStream -----------------------------
(***************************************************************************)
(* The byte path of one SPI direction, Board B -> Board A: the master      *)
(* clocks 16-bit words (spi_link.c), the RXNE interrupt pushes both bytes  *)
(* of a word into a ring, and the foreground feeds them one at a time to   *)
(* the SOF scanner (spi_frame_stream.c), which cuts the stream back into   *)
(* slots.                                                                  *)
(*                                                                         *)
(* A byte is known by the slot and the offset it was sent from.  The CRC   *)
(* is taken as perfect: a window unpacks exactly when it is one slot, in   *)
(* order, unchanged.                                                       *)
(***************************************************************************)
EXTENDS Naturals, Sequences

CONSTANTS
    Size,        \* SPI_FRAME_SLOT_SIZE (32 in the code)
    RingBytes,   \* LINK_RX_RING_SZ (2048 in the code)
    Decoys,      \* per slot: the offsets after 0 whose byte happens to be a SOF
    MaxSlots     \* bound: slots the master begins

ASSUME SizeAssumption == Size \in Nat /\ Size >= 2 /\ Size % 2 = 0
ASSUME RingAssumption == RingBytes \in Nat /\ RingBytes >= 2
ASSUME DecoysAssumption == Decoys \subseteq SUBSET (1 .. Size - 1)
ASSUME MaxSlotsAssumption == MaxSlots \in Nat

VARIABLES
    \* the master
    sent,      \* slots begun
    off,       \* offset of the next word in slot `sent`, Size when it is done
    decoys,    \* the SOF-like offsets of slot `sent`
    \* Board A
    ring,      \* s_rx_ring[s_rx_tail .. s_rx_head - 1]
    window,    \* st->buf[0 .. st->len - 1]
    emitted,   \* the slots spi_frame_stream_push returned
    \* reference: what a scanner that tries every alignment would return
    recent, intact

master == <<sent, off, decoys>>
vars == <<master, ring, window, emitted, recent, intact>>

Byte(o) == [slot |-> sent, off |-> o, sof |-> o = 0 \/ o \in decoys, ok |-> TRUE]
Garbled(o, sof) == [slot |-> sent, off |-> o, sof |-> sof, ok |-> FALSE]

Init ==
    /\ sent = 0 /\ off = Size /\ decoys = {}
    /\ ring = <<>> /\ window = <<>> /\ emitted = <<>>
    /\ recent = <<>> /\ intact = <<>>

-----------------------------------------------------------------------------
\* The master begins a slot; one it has not finished is aborted (master_recover).
BeginSlot(d) ==
    /\ sent < MaxSlots
    /\ sent' = sent + 1
    /\ off' = 0
    /\ decoys' = d
    /\ UNCHANGED <<ring, window, emitted, recent, intact>>

\* Mutant: a push that does not look for room.
PushAlways(r, b) == Append(r, b)

\* One byte into the ring, which keeps one place free; a full ring drops it.
Push(r, b) == IF Len(r) < RingBytes - 1 THEN Append(r, b) ELSE r

\* SPI1_IRQHandler reads a word and pushes its two bytes.
RxWord(hi, lo) ==
    /\ off < Size
    /\ off' = off + 2
    /\ ring' = Push(Push(ring, hi), lo)
    /\ UNCHANGED <<sent, decoys, window, emitted, recent, intact>>

ClockWord == RxWord(Byte(off), Byte(off + 1))

\* One byte of the word took a bit error on the wire.
GarbleWord ==
    \E sof \in BOOLEAN :
        \/ RxWord(Garbled(off, sof), Byte(off + 1))
        \/ RxWord(Byte(off), Garbled(off + 1, sof))

\* The interrupt came after the next word had overwritten this one.
OverrunWord ==
    /\ off < Size
    /\ off' = off + 2
    /\ UNCHANGED <<sent, decoys, ring, window, emitted, recent, intact>>

-----------------------------------------------------------------------------
\* spi_frame_unpack(w) = SPI_FRAME_OK
Unpacks(w) ==
    /\ Len(w) = Size
    /\ \A i \in 1 .. Size : w[i].ok /\ w[i].off = i - 1 /\ w[i].slot = w[1].slot

\* Mutant: a window that does not unpack is thrown away whole.
ResyncDropsAll(w) == <<>>

\* The window restarts at the next SOF after its first byte, if there is one.
LaterSofs(w) == {i \in 2 .. Len(w) : w[i].sof}
Resync(w) ==
    IF LaterSofs(w) = {} THEN <<>>
    ELSE LET first == CHOOSE i \in LaterSofs(w) : \A j \in LaterSofs(w) : i <= j
         IN  SubSeq(w, first, Len(w))

\* spi_frame_stream_push: the window after the byte that made it w
Scan(w) == IF Len(w) < Size THEN w ELSE IF Unpacks(w) THEN <<>> ELSE Resync(w)

\* The last Size bytes, whatever they are
Recall(r, b) == IF Len(r) < Size THEN Append(r, b) ELSE Append(Tail(r), b)

\* Board A's loop takes a byte from the ring and pushes it to the scanner.
TakeByte ==
    /\ ring # <<>>
    /\ ring' = Tail(ring)
    /\ LET b == Head(ring)
           w == Append(window, b)
       IN  /\ IF window = <<>> /\ ~b.sof
              THEN UNCHANGED <<window, emitted>>
              ELSE /\ window' = Scan(w)
                   /\ emitted' = IF Unpacks(w) THEN Append(emitted, b.slot) ELSE emitted
           /\ recent' = Recall(recent, b)
           /\ intact' = IF Unpacks(recent') THEN Append(intact, b.slot) ELSE intact
    /\ UNCHANGED master

-----------------------------------------------------------------------------
Next ==
    \/ \E d \in Decoys : BeginSlot(d)
    \/ ClockWord \/ GarbleWord \/ OverrunWord
    \/ TakeByte

Spec == Init /\ [][Next]_vars

-----------------------------------------------------------------------------
\* The scanner writes at most Size bytes into buf[Size], and a waiting window always
\* begins with a SOF.
TypeOK ==
    /\ sent \in 0 .. MaxSlots /\ off \in 0 .. Size /\ decoys \subseteq 1 .. Size - 1
    /\ Len(ring) < RingBytes
    /\ Len(window) < Size
    /\ window # <<>> => window[1].sof

\* A dropped, garbled or missing byte costs the slot it belongs to and no other: the
\* scanner, which drops bytes for good as it slides, returns exactly the slots whose
\* Size bytes reached it in a row, as if it had tried every alignment.
OnlyHitSlotsLost == emitted = intact
=============================================================================
