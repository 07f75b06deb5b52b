----------------------------- MODULE MCCommands -----------------------------
(***************************************************************************)
(* The command path: how the parsers find messages (Framing), what the     *)
(* messages do in the parsers (Hurra, Ferrum, ParseInt) and what they set  *)
(* going in actions.c (Actions).  A build has one parser; the parsers and  *)
(* the actions share no state but the clock, nor do the keyboard, the      *)
(* buttons and the motion programs beyond act_tick, so each is explored    *)
(* alone: `part` picks one at the start.  Moves and wheel records, which   *)
(* republish the buttons, go with the buttons.                             *)
(***************************************************************************)
EXTENDS Actions, CommandBounds

CONSTANTS k1, k2, k3, m1, left1, right1, Explored,
          TfTimeout, FerrumIdle, LineMax, Lengths, RxMax, MaxMessages,
          HalfTop, Minus, Plus, Junk, TextMax

\* A parser's timeout is shorter than the clock's range, a line has room for something, and
\* a message has pieces (5 and 25 ms; 127 bytes).
ASSUME FrameAssumption ==
    /\ TfTimeout \in 1 .. ClockRange - 1 /\ FerrumIdle \in Nat
    /\ LineMax \in Nat \ {0} /\ Lengths \subseteq Nat \ {0}
    /\ RxMax \in Nat

\* Half the range of a word (2^31).
ASSUME WordAssumption == HalfTop \in Nat \ {0}

MCKeys == {k1, k2, k3}
MCModifiers == {m1}
MCButtons == {left1, right1}
MCPrograms ==
    {[kind |-> "linear", e |-> e, c1 |-> 0, c2 |-> 0, dur |-> d] :
        e \in {-3, 2, 5}, d \in {1, 3}}
    \cup {[kind |-> "bezier", e |-> e, c1 |-> c1, c2 |-> c2, dur |-> 3] :
        e \in {0, 2}, c1 \in {-4, 3}, c2 \in {-4, 4}}
MCBackwards ==
    {[kind |-> "bezier", e |-> -2, c1 |-> -1, c2 |-> -2, dur |-> 2]}

VARIABLES
    part,
    \* Framing
    parser, frNow, frLag, rx, fragment, need, ticks, tfTick, overflow, lastByte,
    message, quiet, clean, sound, due, obeyed,
    \* CommandHost, Hurra, Ferrum
    home, now, hostLag, used, catch, enabled, lastTold, held, requests, notices, told,
    asked, answers, noticed, subscribed, lost, baud, newBaud, reboot, baudAcked,
    baudLeft, rebootLeft,
    \* ParseInt
    text

Frames == INSTANCE Framing WITH now <- frNow, lag <- frLag, got <- fragment
Frame == INSTANCE Hurra WITH lag <- hostLag
Text == INSTANCE Ferrum WITH lag <- hostLag
Number == INSTANCE ParseInt

framevars == <<parser, frNow, frLag, rx, fragment, need, ticks, tfTick, overflow,
               lastByte, message, quiet, clean, sound, due, obeyed>>
hostvars == <<home, now, hostLag, used, catch, enabled, lastTold, held, requests,
              notices, told, asked, answers, noticed, subscribed, lost, baud>>
deferred == <<newBaud, reboot, baudAcked, baudLeft, rebootLeft>>
parsers == <<framevars, hostvars, deferred, text>>

\* The parts other than the one explored stay where they start.
MCInit ==
    /\ Init /\ Frames!Init /\ Frame!Init /\ Number!Init
    /\ part \in Explored
    /\ part \notin {"keys", "buttons", "motion"} => clock = 0
    /\ part # "frames" => parser = "hurra"
    /\ part \notin {"hurra", "ferrum"} => home = "uart"

Commands ==
    \/ part = "keys" /\ KeyCommand
    \/ part = "buttons" /\ (ButtonCommand \/ Move \/ Wheel)
    \/ part = "motion" /\ MotionCommand
    \/ part \in {"keys", "buttons", "motion"} /\ (Reset \/ ActTick \/ Millisecond)

\* Callbacks tell nothing on the single board and a rate changes nothing on Board B: the
\* commands that set them are left out there, and the reboot with the rate.
Matters == IF home = "cdc" THEN newBaud' = newBaud /\ reboot' = reboot
                           ELSE enabled' = enabled /\ told' = told

Parse ==
    \/ part = "frames" /\ Frames!Next /\ UNCHANGED <<hostvars, deferred, text>>
    \/ part = "hurra" /\ Frame!Next /\ Matters /\ UNCHANGED <<framevars, text>>
    \/ part = "ferrum" /\ Text!Next /\ Matters /\ UNCHANGED <<framevars, deferred, text>>
    \/ part = "numbers" /\ Number!Next /\ UNCHANGED <<framevars, hostvars, deferred>>

MCNext ==
    /\ UNCHANGED part
    /\ \/ Commands /\ UNCHANGED parsers
       \/ Parse /\ UNCHANGED vars

MCSpec == MCInit /\ [][MCNext]_<<vars, parsers, part>>

\* The tables, registers and counters stay in their ranges (actions.c, hurra.c, ferrum.c).
TypesOK == TypeOK /\ Frames!TypeOK /\ Frame!TypeOK /\ Text!TypeOK
\* The properties of the parsers, stated and explained in their modules.
MessagesObeyed == Frames!MessagesObeyed
CatchAnswered == Frame!CatchAnswered
HostKnowsButtons ==
    /\ part = "hurra" => Frame!HostKnowsButtons
    /\ part = "ferrum" => Text!HostKnowsButtons
DeadlinesKept ==
    [][/\ part \in {"keys", "buttons", "motion"} => OnDeadline
       /\ part = "hurra" => Frame!OnDeadline
       /\ part = "ferrum" => Text!OnDeadline]_<<vars, parsers>>
ReadExactly == Number!ReadExactly
=============================================================================
