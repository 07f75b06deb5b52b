------------------------------- MODULE UartRx -------------------------------
(***************************************************************************)
(* The receive half of the command UART (uart.c) and the command pump that *)
(* empties it (kmbox_cmd_poll): USART data register -> RX interrupt ->     *)
(* ring -> batch -> protocol parser, with the recovery that follows a lost *)
(* or corrupt byte.  Bytes are numbered in the order the host sent them.   *)
(*                                                                         *)
(* The interrupt may run between any two steps of the foreground, except   *)
(* inside the two sections that disable it, which are single steps here.   *)
(***************************************************************************)
EXTENDS Naturals, Sequences

CONSTANTS
    RingBytes,   \* RX_RING_SZ (1024 in the code)
    BatchMax,    \* sizeof buf in kmbox_cmd_poll (256 in the code)
    MaxBytes     \* bound: bytes the host sends

ASSUME SizeAssumption ==
    /\ RingBytes \in Nat /\ RingBytes >= 2
    /\ BatchMax \in Nat /\ BatchMax >= 1
    /\ MaxBytes \in Nat

VARIABLES
    \* the wire and the USART
    sent,        \* bytes the host has sent
    dr,          \* the byte in the data register with its flags, or Empty
    quiet,       \* millis() - rx_last_byte_ms >= RX_RECOVERY_IDLE_MS
    \* shared by interrupt and foreground
    ring,        \* rx_ring[rx_tail .. rx_head - 1]
    recovering,  \* rx_recovering
    epoch,       \* rx_loss_epoch
    \* foreground
    pc,          \* where kmbox_cmd_poll is
    buf,         \* the batch copied so far
    reported,    \* rx_reported_epoch
    \* the parser, and history
    parser,      \* the bytes fed since its last reset
    mangled      \* the bytes that took a framing or noise error

wire == <<sent, dr, quiet>>
shared == <<ring, recovering, epoch>>
fore == <<pc, buf, reported>>
vars == <<wire, shared, fore, parser, mangled>>

Empty == [byte |-> 0, bad |-> FALSE, ore |-> FALSE]

Init ==
    /\ sent = 0 /\ dr = Empty /\ quiet = FALSE
    /\ ring = <<>> /\ recovering = FALSE /\ epoch = 0
    /\ pc = "read" /\ buf = <<>> /\ reported = 0
    /\ parser = <<>> /\ mangled = {}

-----------------------------------------------------------------------------
\* The host's next byte is complete: it is lost, and the overrun flag set, when the
\* data register still holds one.
ByteArrives(bad) ==
    /\ sent < MaxBytes
    /\ sent' = sent + 1
    /\ dr' = IF dr = Empty THEN [byte |-> sent', bad |-> bad, ore |-> FALSE]
             ELSE [dr EXCEPT !.ore = TRUE]
    /\ mangled' = IF bad THEN mangled \cup {sent'} ELSE mangled
    /\ UNCHANGED <<quiet, shared, fore, parser>>

\* 25 ms pass since the interrupt last took a byte.
LineQuiet ==
    /\ ~quiet
    /\ quiet' = TRUE
    /\ UNCHANGED <<sent, dr, shared, fore, parser, mangled>>

\* Mutant: the place that tells a full ring from an empty one is used.
RoomOffByOne == Len(ring) < RingBytes
RoomInRing == Len(ring) < RingBytes - 1

\* Mutant: a byte that finds the ring full is dropped silently.
LostOnError(errors) == errors

\* rx_lost is called.
Lost(errors) == errors \/ (~recovering /\ ~RoomInRing)

\* CMD_USART_IRQHandler, the RXNE half: overrun, a bad frame and a full ring all count
\* as a loss (rx_lost), and a recovering receiver stores nothing.
RxInterrupt ==
    /\ dr # Empty
    /\ dr' = Empty
    /\ quiet' = FALSE
    /\ LET errors == dr.ore \/ dr.bad
           stored == ~recovering /\ ~errors /\ RoomInRing
       IN  /\ ring' = IF stored THEN Append(ring, dr.byte) ELSE ring
           /\ recovering' = (recovering \/ Lost(errors))
           /\ epoch' = IF Lost(errors) /\ ~recovering THEN epoch + 1 ELSE epoch
    /\ UNCHANGED <<sent, fore, parser, mangled>>

-----------------------------------------------------------------------------
\* uart_rx_read

\* Mutant: recovery ends on a busy line.
LineBusy == ~quiet /\ dr = Empty
LineIdle == quiet /\ dr = Empty

\* While recovering it throws the ring away, and stops recovering once the line has
\* been quiet and no byte waits in the data register.
ReadRecovering ==
    /\ pc = "read"
    /\ recovering
    /\ ring' = <<>>
    /\ recovering' = ~LineIdle
    /\ buf' = <<>>
    /\ pc' = "loss"
    /\ UNCHANGED <<wire, epoch, reported, parser, mangled>>

ReadStart ==
    /\ pc = "read"
    /\ ~recovering
    /\ buf' = <<>>
    /\ pc' = "copy"
    /\ UNCHANGED <<wire, shared, reported, parser, mangled>>

CanCopy == Len(buf) < BatchMax /\ ~recovering /\ ring # <<>>

CopyByte ==
    /\ pc = "copy"
    /\ CanCopy
    /\ buf' = Append(buf, Head(ring))
    /\ ring' = Tail(ring)
    /\ UNCHANGED <<wire, recovering, epoch, pc, reported, parser, mangled>>

CopyDone ==
    /\ pc = "copy"
    /\ ~CanCopy
    /\ pc' = "check"
    /\ UNCHANGED <<wire, shared, buf, reported, parser, mangled>>

\* A loss while the batch was copied invalidates all of it.
CheckBatch ==
    /\ pc = "check"
    /\ buf' = IF recovering THEN <<>> ELSE buf
    /\ pc' = "loss"
    /\ UNCHANGED <<wire, shared, reported, parser, mangled>>

\* Mutant: the batch is dropped and the parser keeps its partial command.
TakeLossNoReset ==
    /\ pc = "loss"
    /\ reported' = epoch
    /\ buf' = IF epoch # reported THEN <<>> ELSE buf
    /\ pc' = "feed"
    /\ UNCHANGED <<wire, shared, parser, mangled>>

\* uart_rx_take_loss; a new loss resets the parser and drops the batch.
TakeLoss ==
    /\ pc = "loss"
    /\ reported' = epoch
    /\ IF epoch # reported THEN parser' = <<>> /\ buf' = <<>>
       ELSE UNCHANGED <<parser, buf>>
    /\ pc' = "feed"
    /\ UNCHANGED <<wire, shared, mangled>>

\* proto_feed, and another read after a batch that was not empty.
Feed ==
    /\ pc = "feed"
    /\ parser' = parser \o buf
    /\ pc' = IF buf # <<>> THEN "read" ELSE "rest"
    /\ UNCHANGED <<wire, shared, buf, reported, mangled>>

\* The rest of the V3F loop.
Rest ==
    /\ pc = "rest"
    /\ pc' = "read"
    /\ UNCHANGED <<wire, shared, buf, reported, parser, mangled>>

-----------------------------------------------------------------------------
Foreground == ReadRecovering \/ ReadStart \/ CopyByte \/ CopyDone \/ CheckBatch
                \/ TakeLoss \/ Feed \/ Rest

Next ==
    \/ \E bad \in BOOLEAN : ByteArrives(bad)
    \/ LineQuiet \/ RxInterrupt
    \/ Foreground

Spec == Init /\ [][Next]_vars

\* The V3F loop runs, a pending interrupt is taken and time passes.
Fairness == WF_vars(Foreground) /\ WF_vars(RxInterrupt) /\ WF_vars(LineQuiet)

-----------------------------------------------------------------------------
TypeOK ==
    /\ sent \in 0 .. MaxBytes /\ dr.byte \in 0 .. sent
    /\ Len(ring) < RingBytes /\ Len(buf) <= BatchMax
    /\ pc \in {"read", "copy", "check", "loss", "feed", "rest"}
    /\ reported <= epoch

Consecutive(s) == \A i \in 1 .. Len(s) - 1 : s[i + 1] = s[i] + 1

\* The parser never reads across a hole: between two resets it gets consecutive bytes
\* and no corrupt one, wherever a loss falls between ring, batch and parser.
NoHoleInParser ==
    /\ Consecutive(parser)
    /\ \A i \in DOMAIN parser : parser[i] \notin mangled

\* Only a loss makes the receiver discard: until the first one, parser, batch, ring
\* and data register together hold every byte sent.
CleanLineLosesNothing ==
    epoch = 0 /\ ~dr.ore =>
        LET held == parser \o (IF pc \in {"rest", "read"} THEN <<>> ELSE buf) \o ring
        IN  /\ Consecutive(held)
            /\ Len(held) + (IF dr = Empty THEN 0 ELSE 1) = sent
            /\ held # <<>> => held[1] = 1

\* Recovery ends once the host has fallen silent, whatever was lost before, and then
\* the ring empties into the parser.
RecoveryEnds == recovering ~> ~recovering
=============================================================================
