------------------------------- MODULE UartTx -------------------------------
(***************************************************************************)
(* The transmit half of the command UART (uart.c): responses admitted      *)
(* whole or not at all, the TXE interrupt that masks itself when the ring  *)
(* is empty, and the baud change deferred until the wire is idle.          *)
(***************************************************************************)
EXTENDS Naturals, Sequences

CONSTANTS
    RingBytes,     \* TX_RING_SZ (4096 in the code)
    ResponseSizes, \* how many bytes a response may have
    Baud,          \* the baud rates a command may ask for
    DefaultBaud,   \* CMD_BAUD_DEFAULT
    MaxBytes,      \* bound: bytes offered
    MaxBauds       \* bound: baud changes asked for

VARIABLES
    \* foreground
    pc,        \* "run", "publish", "enable" (uart_tx_write) or "flush" (uart_tx_flush)
    resp,      \* the response uart_tx_write is copying
    pending,   \* s_pending_baud, DefaultBaud for none
    empty,     \* uart_tx_flush saw tx_head = tx_tail
    \* shared with the interrupt
    ring,      \* tx_ring[tx_tail .. tx_head - 1]
    txeOn,     \* the TXE interrupt is enabled
    \* the USART
    dr, shift, \* data register and shift register, as sequences of at most one byte
    baud,      \* s_baud and the divisor
    \* history
    offered,   \* responses offered, as bytes so far
    asked,     \* baud changes asked for
    admitted,  \* the bytes of the admitted responses
    line       \* the bytes that left, each with the baud rate it left at

fore == <<pc, resp, pending, empty>>
usart == <<dr, shift, baud>>
vars == <<fore, ring, txeOn, usart, offered, asked, admitted, line>>

NoBaud == DefaultBaud

Init ==
    /\ pc = "run" /\ resp = <<>> /\ pending = NoBaud /\ empty = FALSE
    /\ ring = <<>> /\ txeOn = FALSE
    /\ dr = <<>> /\ shift = <<>> /\ baud = DefaultBaud
    /\ offered = 0 /\ asked = 0 /\ admitted = <<>> /\ line = <<>>

\* Mutant: the place that tells a full ring from an empty one is used.
RoomOffByOne == RingBytes - Len(ring)
Room == RingBytes - 1 - Len(ring)

-----------------------------------------------------------------------------
\* uart_tx_write: a response that does not fit is rejected whole.
WriteStart(n) ==
    /\ pc = "run"
    /\ offered + n <= MaxBytes
    /\ offered' = offered + n
    /\ IF n > Room
       THEN UNCHANGED <<pc, resp, admitted>>
       ELSE /\ pc' = "publish"
            /\ resp' = [i \in 1 .. n |-> offered + i]
            /\ admitted' = admitted \o resp'
    /\ UNCHANGED <<pending, empty, ring, txeOn, usart, asked, line>>

\* What lies between tx_tail and tx_head once s is in the ring: the indices wrap, and
\* RingBytes bytes too many vanish.
Visible(s) == IF Len(s) < RingBytes THEN s ELSE SubSeq(s, RingBytes + 1, Len(s))

\* tx_head = head, once, after all bytes were copied.
PublishHead ==
    /\ pc = "publish"
    /\ ring' = Visible(ring \o resp)
    /\ pc' = "enable"
    /\ UNCHANGED <<resp, pending, empty, txeOn, usart, offered, asked, admitted, line>>

EnableTxe ==
    /\ pc = "enable"
    /\ txeOn' = TRUE
    /\ resp' = <<>>
    /\ pc' = "run"
    /\ UNCHANGED <<pending, empty, ring, usart, offered, asked, admitted, line>>

\* uart_set_baud records the rate and flushes.
SetBaud(b) ==
    /\ pc = "run"
    /\ asked < MaxBauds
    /\ asked' = asked + 1
    /\ pending' = b
    /\ empty' = (ring = <<>>)
    /\ pc' = "flush"
    /\ UNCHANGED <<resp, ring, txeOn, usart, offered, admitted, line>>

\* uart_tx_flush, from kmbox_cmd_poll: is the ring empty?
FlushStart ==
    /\ pc = "run"
    /\ empty' = (ring = <<>>)
    /\ pc' = "flush"
    /\ UNCHANGED <<resp, pending, ring, txeOn, usart, offered, asked, admitted, line>>

\* Mutants: USART_FLAG_TXE tested, or the flag's sense inverted.
DataRegisterEmpty == dr = <<>>
Transmitting == ~(dr = <<>> /\ shift = <<>>)

\* USART_FLAG_TC: neither register holds a byte.
TransmissionComplete == dr = <<>> /\ shift = <<>>

\* A ring that was not empty gets its interrupt; an empty one lets a pending rate take
\* effect once the last stop bit has left.
FlushEnd ==
    /\ pc = "flush"
    /\ pc' = "run"
    /\ txeOn' = (txeOn \/ ~empty)
    /\ IF empty /\ pending # NoBaud /\ TransmissionComplete
       THEN baud' = pending /\ pending' = NoBaud
       ELSE UNCHANGED <<baud, pending>>
    /\ UNCHANGED <<resp, empty, ring, dr, shift, offered, asked, admitted, line>>

-----------------------------------------------------------------------------
\* CMD_USART_IRQHandler, the TXE half
TxInterrupt ==
    /\ txeOn
    /\ dr = <<>>
    /\ IF ring # <<>>
       THEN dr' = <<Head(ring)>> /\ ring' = Tail(ring) /\ UNCHANGED txeOn
       ELSE txeOn' = FALSE /\ UNCHANGED <<dr, ring>>
    /\ UNCHANGED <<fore, shift, baud, offered, asked, admitted, line>>

\* The USART: data register to shift register, shift register to the wire.
Shift ==
    /\ shift = <<>> /\ dr # <<>>
    /\ shift' = <<[byte |-> dr[1], baud |-> baud]>>
    /\ dr' = <<>>
    /\ UNCHANGED <<fore, ring, txeOn, baud, offered, asked, admitted, line>>

StopBit ==
    /\ shift # <<>>
    /\ line' = Append(line, [byte |-> shift[1].byte, from |-> shift[1].baud, to |-> baud])
    /\ shift' = <<>>
    /\ UNCHANGED <<fore, ring, txeOn, dr, baud, offered, asked, admitted>>

-----------------------------------------------------------------------------
Flush == FlushStart \/ FlushEnd
Next ==
    \/ \E n \in ResponseSizes : WriteStart(n)
    \/ \E b \in Baud : SetBaud(b)
    \/ PublishHead \/ EnableTxe \/ Flush
    \/ TxInterrupt \/ Shift \/ StopBit

Spec == Init /\ [][Next]_vars

\* The pump keeps calling uart_tx_flush, the interrupt is taken, bits leave the wire.
Fairness ==
    /\ WF_vars(PublishHead \/ EnableTxe \/ Flush)
    /\ WF_vars(TxInterrupt) /\ WF_vars(Shift) /\ WF_vars(StopBit)

-----------------------------------------------------------------------------
TypeOK ==
    /\ pc \in {"run", "publish", "enable", "flush"}
    /\ Len(ring) + (IF pc = "publish" THEN Len(resp) ELSE 0) < RingBytes
    /\ Len(dr) <= 1 /\ Len(shift) <= 1
    /\ baud \in Baud \cup {DefaultBaud} /\ pending \in Baud \cup {DefaultBaud}
    /\ txeOn \in BOOLEAN /\ empty \in BOOLEAN

\* What leaves the wire is the admitted responses, whole and in order: the ring, full
\* or not, never emits the beginning of a response it could not hold.
WholeResponses ==
    Len(line) <= Len(admitted) /\ \A i \in DOMAIN line : line[i].byte = admitted[i]

\* The rate never changes under a byte: each leaves at the rate it began with, although
\* flush looks at the ring and at the wire at two different moments.
NoByteCutByBaud == \A i \in DOMAIN line : line[i].from = line[i].to

\* An admitted response is sent in the end, although the interrupt masks itself on an
\* empty ring while the foreground is publishing, and an asked-for rate takes effect.
EverythingSent == <>[](Len(line) = Len(admitted) /\ pending = NoBaud)
=============================================================================
