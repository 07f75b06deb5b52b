------------------------------ MODULE Framing ------------------------------
(***************************************************************************)
(* How the two command parsers find the messages in the bytes they are     *)
(* fed: TinyFrame's frames under hurra.c, lines under ferrum.c.  A build   *)
(* has one of them.  A message is sent in pieces; the host may give one up *)
(* half-way.  Bytes wait in the receive ring until the poll loop comes     *)
(* round, so the parser measures silence between the bytes it is fed, not  *)
(* between those that arrive.  The checksum of a frame is taken to be      *)
(* perfect.                                                                *)
(***************************************************************************)
EXTENDS CommandBounds

CONSTANTS
    TfTimeout,   \* TF_PARSER_TIMEOUT_TICKS (5)
    FerrumIdle,  \* FERRUM_IDLE_GAP_MS (25)
    LineMax,     \* pieces of text a line may have (FERRUM_LINE_MAX - 1 bytes)
    Lengths,     \* pieces of a message: a line's last piece is its line end
    RxMax,       \* bound: pieces in the receive ring
    MaxMessages  \* bound: messages the host starts

VARIABLES
    parser,    \* "hurra" or "ferrum"
    now, lag,  \* millis(), and the milliseconds since the last pass
    rx,        \* the receive ring
    got,       \* the pieces of the message being collected
    need,      \* how many pieces the frame's header announced
    ticks,     \* TinyFrame's parser_timeout_ticks
    tfTick,    \* s_tf_tick_ms
    overflow,  \* s_overflow
    lastByte,  \* s_last_byte_ms
    \* the host
    message,   \* number of its current message, its length and the pieces sent
    quiet,     \* milliseconds since its last piece
    \* history
    clean,     \* nothing it sent before can spoil the next message
    sound,     \* nor has anything spoilt the current one
    due,       \* the messages that must be obeyed
    obeyed     \* the messages that were

ring == <<now, lag, rx>>
tinyframe == <<need, ticks, tfTick>>
line == <<overflow, lastByte>>
host == <<message, quiet, clean, sound, due>>
vars == <<parser, ring, got, tinyframe, line, host, obeyed>>

Smaller(a, b) == IF a < b THEN a ELSE b
Piece(m, i, n) == [m |-> m, i |-> i, n |-> n]
Pieces(m, n) == [i \in 1 .. n |-> Piece(m, i, n)]

\* The longest silence between two pieces that a parser takes for none.
Tolerated == IF parser = "hurra" THEN TfTimeout - 1 ELSE FerrumIdle
Cap == ClockRange - LoopLag - 1

Init ==
    /\ parser \in {"hurra", "ferrum"}
    /\ now = 0 /\ lag = 0 /\ rx = <<>>
    /\ got = <<>> /\ need = 0 /\ ticks = 0 /\ tfTick = 0
    /\ overflow = FALSE /\ lastByte = 0
    /\ message = Piece(0, 0, 0) /\ quiet = 0
    /\ clean = TRUE /\ sound = TRUE /\ due = {} /\ obeyed = {}

-----------------------------------------------------------------------------
\* hurra.c

\* advance_tf_clock: TF_Tick once a millisecond, and no further than the timeout.
Elapsed == Smaller((now - tfTick) % ClockRange, TfTimeout)
TfTicks == Smaller(ticks + Elapsed, TfTimeout)

\* Mutant: the clock is only advanced by the tick, so that the passes' own silence is
\* charged to the piece that ends it.
TicksOfLastPass == ticks
TicksBeforeFeed == TfTicks

\* TF_Accept, after the clock: a piece begins a frame, goes on with one or is skipped;
\* a byte of a piece without a beginning may look like the start of a frame.
HurraFeed(p) ==
    LET kept == IF TicksBeforeFeed >= TfTimeout THEN <<>> ELSE got
        whole == Append(kept, p)
    IN  /\ \/ kept = <<>> /\ p.i = 1 /\ need' = p.n
           \/ kept = <<>> /\ p.i # 1 /\ need' \in Lengths \cup {0}
           \/ kept # <<>> /\ UNCHANGED need
        /\ got' = IF need' = 0 \/ Len(whole) = need' THEN <<>> ELSE whole
        /\ obeyed' = IF need' # 0 /\ whole = Pieces(p.m, need')
                     THEN obeyed \cup {p.m} ELSE obeyed
        /\ ticks' = 0 /\ tfTick' = now
        /\ UNCHANGED line

\* hurra_tick, the part that concerns the parser.
HurraTick == ticks' = TfTicks /\ tfTick' = now

-----------------------------------------------------------------------------
\* ferrum.c

\* Mutant: counter values compared as they are.
IdleNoWrap == got # <<>> /\ now > lastByte + FerrumIdle

\* A partial line is dropped by the first byte after the gap.
IdleGap == got # <<>> /\ (now - lastByte) % ClockRange > FerrumIdle

\* A line longer than the buffer is dropped up to its end.
Overlong(kept) == Len(kept) >= LineMax

\* ferrum_feed_byte: a line that is not one message is junk to dispatch_line, or a
\* command the host never meant.
FerrumFeed(p) ==
    LET kept == IF IdleGap THEN <<>> ELSE got
        tooLong == overflow /\ ~IdleGap
    IN  /\ IF p.i = p.n
           THEN /\ got' = <<>> /\ overflow' = FALSE
                /\ obeyed' = IF ~tooLong /\ Append(kept, p) = Pieces(p.m, p.n)
                             THEN obeyed \cup {p.m} ELSE obeyed
           ELSE /\ got' = IF Overlong(kept) THEN kept ELSE Append(kept, p)
                /\ overflow' = (tooLong \/ Overlong(kept))
                /\ UNCHANGED obeyed
        /\ lastByte' = now
        /\ UNCHANGED tinyframe

-----------------------------------------------------------------------------
\* The poll loop (kmbox_cmd_poll on V3F, the command stage of two_board_host_run):
\* feed what the ring holds, then tick.

Feed ==
    /\ rx # <<>>
    /\ rx' = Tail(rx)
    /\ \/ parser = "hurra" /\ HurraFeed(Head(rx))
       \/ parser = "ferrum" /\ FerrumFeed(Head(rx))
    /\ UNCHANGED <<parser, now, lag, host>>

Tick ==
    /\ rx = <<>>
    /\ lag' = 0
    /\ IF parser = "hurra" THEN HurraTick ELSE UNCHANGED <<ticks, tfTick>>
    /\ UNCHANGED <<parser, now, rx, got, need, line, host, obeyed>>

\* hurra_reset, ferrum_reset.
HurraReset == got' = <<>> /\ tfTick' = now /\ UNCHANGED <<overflow, lastByte>>
FerrumReset == got' = <<>> /\ overflow' = FALSE /\ UNCHANGED <<lastByte, tfTick>>

\* kmbox_cmd_poll: the UART reports a loss; the batch goes with it.
Between == message.i = message.n
Loss ==
    /\ rx # <<>>
    /\ rx' = <<>>
    /\ IF parser = "hurra" THEN HurraReset ELSE FerrumReset
    /\ clean' = Between /\ sound' = FALSE
    /\ due' = due \cap obeyed
    /\ UNCHANGED <<parser, now, lag, need, ticks, message, quiet, obeyed>>

-----------------------------------------------------------------------------
\* The host and the clock

Prompt == quiet + LoopLag <= Tolerated
Paused == quiet > Tolerated + LoopLag
Fits(n) == parser = "hurra" \/ n - 1 <= LineMax

\* The next piece of its message, or the first of another.
Arrive(p, ok) ==
    /\ Len(rx) < RxMax
    /\ rx' = Append(rx, p)
    /\ message' = p /\ quiet' = 0
    /\ sound' = ok
    /\ due' = IF ok /\ p.i = p.n /\ Fits(p.n) THEN due \cup {p.m} ELSE due
    /\ clean' = (p.i = p.n /\ (ok \/ parser = "ferrum"))
    /\ UNCHANGED <<parser, now, lag, got, tinyframe, line, obeyed>>

Continue == ~Between /\ Arrive([message EXCEPT !.i = @ + 1], sound /\ Prompt)
Start ==
    /\ message.m < MaxMessages
    /\ \E n \in Lengths : Arrive(Piece(message.m + 1, 1, n), clean \/ Paused)

\* Bound: no line is left unfinished for the 49 days it takes millis() to come round.
Millisecond ==
    /\ lag < LoopLag
    /\ parser = "ferrum" /\ got # <<>> => quiet < Cap
    /\ lag' = lag + 1 /\ now' = (now + 1) % ClockRange
    /\ quiet' = Smaller(quiet + 1, Cap)
    /\ UNCHANGED <<parser, rx, got, tinyframe, line, message, clean, sound, due,
                   obeyed>>

Next == Feed \/ Tick \/ Loss \/ Continue \/ Start \/ Millisecond

Spec == Init /\ [][Next]_vars

-----------------------------------------------------------------------------
TypeOK ==
    /\ parser \in {"hurra", "ferrum"}
    /\ {now, tfTick, lastByte} \subseteq 0 .. ClockRange - 1 /\ lag \in 0 .. LoopLag
    /\ Len(rx) <= RxMax /\ ticks \in 0 .. TfTimeout
    /\ need \in Lengths \cup {0} /\ overflow \in BOOLEAN
    /\ (parser = "hurra" /\ got # <<>> => Len(got) < need)
    /\ (parser = "ferrum" => Len(got) <= LineMax)

\* Whatever fragments came before, a message that comes without a pause, after a silence
\* or after messages that came so, is obeyed: the fragment is dropped by the silence
\* (ferrum.c:40-43, TF_PARSER_TIMEOUT_TICKS), the frame's own bytes are never charged
\* for the silence before them (hurra.c:729-730), and an overlong line costs itself only.
MessagesObeyed ==
    \A m \in due : m \in obeyed \/ \E i \in DOMAIN rx : rx[i] = Piece(m, rx[i].n, rx[i].n)
=============================================================================
