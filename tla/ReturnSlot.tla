----------------------------- MODULE ReturnSlot -----------------------------
(***************************************************************************)
(* The telemetry return path, Board A -> Board B.  Board A's relay loop    *)
(* publishes a slot into a double buffer; its RXNE interrupt stages one    *)
(* word of the current buffer for every word the master clocks, round and  *)
(* round (spi_link.c).  The master's exchanges return those words; Board B *)
(* feeds some of them to a SOF scanner and drops the rest (two_board.c).   *)
(*                                                                         *)
(* A slot is known by the number of its publication.  The scanner returns  *)
(* a slot exactly when its words are the last it was fed, which module     *)
(* SpiStream checks of it.                                                 *)
(***************************************************************************)
EXTENDS Naturals, Sequences

CONSTANTS
    Words,       \* 16-bit words of a slot (16 in the code)
    MaxPublish,  \* bound: slots published
    MaxMissed,   \* bound: interrupts that came too late
    MaxAborts,   \* bound: exchanges that timed out
    MaxOther     \* bound: exchanges other than the idle poll

VARIABLES
    \* Board A
    shown,     \* the publication in s_telem[s_telem_cur], 0 while not armed
    idx,       \* s_telem_idx, in words
    staged,    \* the word in SPI1's data register
    \* the exchange
    kind,      \* "none", "poll", "report" or "other"
    rx,        \* the words it has returned
    left,      \* what the stack array `rx` of a kind of exchange still holds
    \* Board B
    recent,    \* the last words the scanner was fed
    decoded,   \* the publications it returned
    \* history
    quiet,     \* return slots fed since the last publication or lost word
    sincePoll, \* publications since the last idle poll
    missed, aborts, others

boardA == <<shown, idx, staged>>
exchange == <<kind, rx, left>>
host == <<recent, decoded>>
bounds == <<sincePoll, missed, aborts, others>>
vars == <<boardA, exchange, host, quiet, bounds>>

Junk == [pub |-> 0, word |-> 0]
JunkWords == [i \in 1 .. Words |-> Junk]

Init ==
    /\ shown = 0 /\ idx = 0 /\ staged = Junk
    /\ kind = "none" /\ rx = <<>> /\ left = [k \in {"poll", "report"} |-> JunkWords]
    /\ recent = <<>> /\ decoded = <<>>
    /\ quiet = 0
    /\ sincePoll = 0 /\ missed = 0 /\ aborts = 0 /\ others = 0

-----------------------------------------------------------------------------
\* Every 100 ms the relay loop packs a slot with a new number and flips the buffers
\* (spi_link_slave_set_telem).  At most three fit between two idle polls, and a
\* poll, some tens of microseconds long, meets one at most.
Publish ==
    /\ shown < MaxPublish
    /\ sincePoll < IF kind = "poll" THEN 1 ELSE 3
    /\ shown' = shown + 1
    /\ sincePoll' = sincePoll + 1
    /\ quiet' = 0
    /\ UNCHANGED <<idx, staged, exchange, host, missed, aborts, others>>

\* The 250 ms telemetry poll, at least two publications after the last one.
Poll ==
    /\ kind = "none"
    /\ sincePoll >= 2
    /\ kind' = "poll"
    /\ sincePoll' = 0
    /\ UNCHANGED <<boardA, rx, left, host, quiet, missed, aborts, others>>

\* The last fragment of a report, whose return slot is looked at, and every other
\* exchange, whose return slot is not.
OtherExchange ==
    /\ kind = "none"
    /\ others < MaxOther
    /\ others' = others + 1
    /\ kind' \in {"report", "other"}
    /\ UNCHANGED <<boardA, rx, left, host, quiet, sincePoll, missed, aborts>>

\* Mutant: the interrupt runs past the end of the slot.
NextWordNoWrap(i) == i + 1
NextWord(i) == (i + 1) % Words

Clocking == kind # "none" /\ Len(rx) < Words

\* The master clocks a word and takes the staged one; SPI1_IRQHandler stages the next
\* word of the current buffer.
ClockWord ==
    /\ Clocking
    /\ rx' = Append(rx, staged)
    /\ IF shown > 0
       THEN staged' = [pub |-> shown, word |-> idx] /\ idx' = NextWord(idx)
       ELSE UNCHANGED <<staged, idx>>
    /\ UNCHANGED <<shown, kind, left, host, quiet, bounds>>

\* The interrupt for a word is merged with that of the next one.
MissWord ==
    /\ Clocking
    /\ missed < MaxMissed
    /\ missed' = missed + 1
    /\ rx' = Append(rx, staged)
    /\ quiet' = 0
    /\ UNCHANGED <<boardA, kind, left, host, sincePoll, aborts, others>>

\* A flag wait times out (spi_link_master_recover): the caller's rx array was never
\* initialised and keeps, past the words received, what the stack held there.
Abort ==
    /\ Clocking
    /\ aborts < MaxAborts
    /\ aborts' = aborts + 1
    /\ \E old \in {JunkWords} \cup (IF kind = "other" THEN {} ELSE {left[kind]}) :
          rx' = rx \o SubSeq(old, Len(rx) + 1, Words)
    /\ quiet' = 0
    /\ UNCHANGED <<boardA, kind, left, host, sincePoll, missed, others>>

-----------------------------------------------------------------------------
IsSlot(ws) ==
    /\ Len(ws) = Words
    /\ ws[1].pub > 0
    /\ \A i \in 1 .. Words : ws[i] = [pub |-> ws[1].pub, word |-> i - 1]

\* Mutant: a scanner that starts afresh with every return slot.
FedFresh(i) == SubSeq(rx, 1, i)

\* The scanner's last words once the i-th of rx was fed.
Fed(i) == LET all == recent \o SubSeq(rx, 1, i)
          IN  IF Len(all) <= Words THEN all ELSE SubSeq(all, Len(all) - Words + 1, Len(all))

\* Where a slot ends in rx: two slots end at least Words apart, so at one place at most.
Found == {i \in 1 .. Words : IsSlot(Fed(i))}

\* host_absorb_return, for the exchanges whose return slot is kept.
EndExchange ==
    /\ kind # "none" /\ Len(rx) = Words
    /\ kind' = "none"
    /\ rx' = <<>>
    /\ IF kind = "other"
       THEN UNCHANGED <<left, host, quiet>>
       ELSE /\ left' = [left EXCEPT ![kind] = rx]
            /\ recent' = Fed(Words)
            /\ decoded' = IF Found = {} THEN decoded
                          ELSE Append(decoded, Fed(CHOOSE i \in Found : TRUE)[1].pub)
            /\ quiet' = quiet + 1
    /\ UNCHANGED <<boardA, bounds>>

-----------------------------------------------------------------------------
Next == Publish \/ Poll \/ OtherExchange \/ ClockWord \/ MissWord \/ Abort \/ EndExchange

Spec == Init /\ [][Next]_vars

-----------------------------------------------------------------------------
TypeOK ==
    /\ shown \in 0 .. MaxPublish /\ idx \in 0 .. Words - 1
    /\ kind \in {"none", "poll", "report", "other"} /\ Len(rx) <= Words
    /\ kind = "none" => rx = <<>>
    /\ Len(recent) <= Words

\* However the return slots are cut, the display catches up: once Board B has fed three
\* of them to the scanner since the last publication or lost word (the first may have
\* begun before it), it shows what Board A published last.  Return slots dropped in
\* between make no difference, since they skip exactly one turn of the ring.
ThreeReturnsSuffice ==
    quiet >= 3 /\ shown > 0 => decoded # <<>> /\ decoded[Len(decoded)] = shown
=============================================================================
