---------------------------- MODULE CommandHost ----------------------------
(***************************************************************************)
(* What the two command parsers, Hurra and Ferrum, have around them: the   *)
(* poll loop's clock, the transport their answers leave through, the mouse *)
(* whose reports they are shown, and a host that sends commands and keeps  *)
(* what it is told.  A parser has one of two homes.  On the single board   *)
(* (V3F) it answers over the UART, whose ring takes an answer whole or not *)
(* at all, and no report ever reaches it.  On Board B it answers over the  *)
(* CDC port, whose ring takes what there is room for.                      *)
(***************************************************************************)
EXTENDS CommandBounds

VARIABLES
    home,      \* "uart" or "cdc"
    now, lag,  \* millis(), and the milliseconds since the last tick
    used,      \* bytes in the transmit ring
    catch,     \* s_catch
    enabled,   \* s_cb_buttons and s_cb_axes: the callbacks that are on
    lastTold,  \* s_last_btn_emitted, s_last_buttons
    \* the mouse and the host
    held,      \* the buttons of the mouse's last report
    requests, notices,
    told,      \* the buttons the host was last told of
    \* history
    asked,     \* catch_xy requests: true motion since, true milliseconds left
    answers,   \* the answers sent to them
    noticed,   \* a report came since the button callback was switched on
    subscribed, \* this host switched it on
    lost       \* what it was last told of was cut short by a full ring

time == <<now, lag>>
window == <<catch, asked, answers>>
callbacks == <<enabled, lastTold, told, noticed, subscribed, lost>>
world == <<held, notices>>
hostvars == <<home, time, used, window, callbacks, world, requests>>

NoCatch == [active |-> FALSE, deadline |-> 0, moved |-> 0, id |-> 0]

HostInit ==
    /\ home \in {"uart", "cdc"}
    /\ now = 0 /\ lag = 0 /\ used = 0
    /\ catch = NoCatch /\ asked = <<>> /\ answers = <<>>
    /\ enabled = {} /\ lastTold = 0
    /\ held = 0 /\ requests = 0 /\ notices = 0
    /\ told = 0 /\ noticed = FALSE /\ subscribed = FALSE /\ lost = FALSE

-----------------------------------------------------------------------------
\* Mutant: counter values compared as they are.
PlainlyReached(at) == now >= at

\* time_deadline_reached
Reached(at) == (now - at) % ClockRange < ClockHalf

\* The transport: what uart_tx_write and cdc_fs_tx_write do with n bytes when u are in
\* the ring.  Nobody looks at what they return.
TakenWhole(u, n) == u + n <= TxBytes
After(u, n) ==
    IF TakenWhole(u, n) THEN u + n ELSE IF home = "cdc" THEN TxBytes ELSE u

Drain ==
    /\ used > 0
    /\ used' = used - 1
    /\ UNCHANGED <<home, time, window, callbacks, world, requests>>

Request == requests < MaxRequests /\ requests' = requests + 1

\* A catch_xy window in the host's eyes.
Open == Len(answers) < Len(asked)
Latest == asked[Len(asked)]
Clamped(dur) == IF dur > CatchMax THEN CatchMax ELSE dur
Asked(dur) == Append(asked, [moved |-> 0, left |-> Clamped(dur)])
SeenMoving(d) ==
    IF Open THEN [asked EXCEPT ![Len(asked)].moved = @ + d] ELSE asked
TimePasses ==
    IF Open THEN [asked EXCEPT ![Len(asked)].left = @ - 1] ELSE asked

\* Switching the callbacks, as the host sees it.
Switch(cb, on) ==
    /\ enabled' = IF on THEN enabled \cup {cb} ELSE enabled \ {cb}
    /\ noticed' = (noticed /\ cb # "buttons")
    /\ subscribed' = IF cb = "buttons" THEN on ELSE subscribed

\* Another program takes the host's place: it has been told nothing.
HostRestart ==
    /\ Request
    /\ told' = Unknown /\ subscribed' = FALSE
    /\ UNCHANGED <<home, time, used, window, enabled, lastTold, noticed, lost, world>>

HostMillisecond ==
    /\ lag < LoopLag
    /\ lag' = lag + 1 /\ now' = (now + 1) % ClockRange
    /\ asked' = TimePasses
    /\ UNCHANGED <<home, used, catch, answers, callbacks, world, requests>>

-----------------------------------------------------------------------------
HostTypeOK ==
    /\ home \in {"uart", "cdc"}
    /\ now \in 0 .. ClockRange - 1 /\ lag \in 0 .. LoopLag
    /\ used \in 0 .. TxBytes
    /\ catch \in [active : BOOLEAN, deadline : 0 .. ClockRange - 1, moved : Int, id : Nat]
    /\ enabled \subseteq {"buttons", "axes"}
    /\ lastTold \in Bitmaps \cup {Resend} /\ held \in Bitmaps
    /\ told \in Bitmaps \cup {Unknown}
    /\ asked \in Seq([moved : Int, left : Int])
    /\ answers \in Seq([id : Nat, moved : Int])
    /\ {noticed, subscribed, lost} \subseteq BOOLEAN

\* Every catch_xy request is answered once, in the order of the requests, to the one
\* who asked, with exactly the motion the mouse made while its window was open, also
\* when the next request cuts the window short (hurra.c:511-528, ferrum.c:297-307).
CatchAnswered ==
    /\ Len(answers) \in {Len(asked), Len(asked) - 1}
    /\ \A i \in DOMAIN answers : answers[i] = [id |-> i, moved |-> asked[i].moved]
=============================================================================
