---------------------------- MODULE HurraProofs ----------------------------
(***************************************************************************)
(* What holds of the binary parser's promises (Hurra) for every clock      *)
(* width, every ring and any commands: each catch_xy request is answered   *)
(* once and exactly, a subscriber knows the mouse's buttons, and nothing   *)
(* deferred happens early or late, the wrap of millis() included.          *)
(***************************************************************************)
EXTENDS Hurra, SequenceTheorems, TLAPS

\* A deadline `at` seen at time n, l milliseconds after the last tick, is `left`
\* milliseconds away: at most half the clock's range ahead, at most one pass behind.
Due(n, l, at, left) ==
    /\ left \in Int /\ - l <= left /\ left < ClockHalf
    /\ at = (n + left) % ClockRange

Clocked ==
    /\ now \in 0 .. ClockRange - 1 /\ lag \in 0 .. LoopLag

Shape ==
    /\ asked \in Seq([moved : Int, left : Int])
    /\ answers \in Seq([id : Nat, moved : Int])
    /\ catch \in [active : BOOLEAN, deadline : Int, moved : Int, id : Nat]
    /\ newBaud \in [scheduled : BOOLEAN, at : Int, rate : Nat]
    /\ reboot \in [scheduled : BOOLEAN, at : Int]
    /\ held \in Bitmaps

\* The window is the last request, and the only one not answered; so it is in Ferrum,
\* whose windows have no id.
LatestOpen ==
    /\ Len(answers) = IF catch.active THEN Len(asked) - 1 ELSE Len(asked)
    /\ catch.active => catch.moved = Latest.moved
    /\ \A i \in 1 .. Len(answers) : answers[i] = [id |-> i, moved |-> asked[i].moved]

WindowIsLatest == LatestOpen /\ (catch.active => catch.id = Len(asked))

\* What the callback takes for told is what the mouse holds, once a report came.
ToldIsHeld ==
    /\ subscribed => "buttons" \in enabled
    /\ subscribed /\ ~noticed => lastTold = Resend
    /\ subscribed /\ noticed => lastTold = held
    /\ HostKnowsButtons

DeadlinesDue ==
    /\ catch.active => Due(now, lag, catch.deadline, Latest.left)
    /\ newBaud.scheduled => Due(now, lag, newBaud.at, baudLeft) /\ newBaud.rate = baudAcked
    /\ reboot.scheduled => Due(now, lag, reboot.at, rebootLeft)

Inv == Clocked /\ Shape /\ WindowIsLatest /\ ToldIsHeld /\ DeadlinesDue

-----------------------------------------------------------------------------
\* The clock's arithmetic, for a counter of any even range

LEMMA Modulo ==
    ASSUME NEW r \in Nat \ {0}
    PROVE  /\ \A x \in 0 .. r - 1 : x % r = x
           /\ \A x \in r .. 2 * r - 1 : x % r = x - r
           /\ \A x \in -r .. -1 : x % r = x + r
OBVIOUS

\* A deadline `left` milliseconds away is reached when nothing is left, although the
\* counter wraps.
LEMMA ReachedWhenDue ==
    ASSUME NEW half \in Nat \ {0}, NEW n \in 0 .. 2 * half - 1,
           NEW left \in Int, - half < left, left < half,
           NEW at, at = (n + left) % (2 * half)
    PROVE  (n - at) % (2 * half) < half <=> left <= 0
<1> DEFINE r == 2 * half
<1>1. r \in Nat \ {0} /\ r = half + half
  OBVIOUS
<1>2. n \in Int /\ 0 <= n /\ n < r
  BY <1>1
<1>3. at = (n + left) % r
  OBVIOUS
<1> HIDE DEF r
<1>4. CASE n + left < 0
  <2>1. at = n + left + r
    BY <1>1, <1>2, <1>3, <1>4, Modulo
  <2>2. (n - at) % r = - left
    BY <1>1, <1>2, <1>4, <2>1, Modulo
  <2> QED BY <1>1, <1>2, <1>4, <2>2 DEF r
<1>5. CASE 0 <= n + left /\ n + left < r
  <2>1. at = n + left
    <3>1. n + left \in 0 .. r - 1
      BY <1>1, <1>2, <1>5
    <3> QED BY <1>1, <1>3, <3>1, Modulo
  <2>2. (n - at) % r = IF left <= 0 THEN - left ELSE r - left
    BY <1>1, <1>2, <1>5, <2>1, Modulo
  <2> QED BY <1>1, <2>2 DEF r
<1>6. CASE n + left >= r
  <2>1. at = n + left - r
    BY <1>1, <1>2, <1>3, <1>6, Modulo
  <2>2. (n - at) % r = r - left
    BY <1>1, <1>2, <1>6, <2>1, Modulo
  <2> QED BY <1>1, <1>2, <1>6, <2>2 DEF r
<1> QED BY <1>1, <1>2, <1>4, <1>5, <1>6

\* With a millisecond the deadline comes a millisecond closer.
LEMMA ComesCloser ==
    ASSUME NEW half \in Nat \ {0}, NEW n \in 0 .. 2 * half - 1,
           NEW left \in Int, - half < left, left < half
    PROVE  /\ (n + 1) % (2 * half) \in 0 .. 2 * half - 1
           /\ (((n + 1) % (2 * half)) + (left - 1)) % (2 * half) = (n + left) % (2 * half)
<1> DEFINE r == 2 * half
<1>1. r \in Nat \ {0} /\ r = half + half
  OBVIOUS
<1>2. n \in Int /\ 0 <= n /\ n < r
  BY <1>1
<1> HIDE DEF r
<1>3. CASE n + 1 < r
  <2>1. (n + 1) % r = n + 1
    <3>1. n + 1 \in 0 .. r - 1
      BY <1>1, <1>2, <1>3
    <3> QED BY <1>1, <3>1, Modulo
  <2>2. ((n + 1) % r) + (left - 1) = n + left
    BY <1>2, <2>1
  <2> QED BY <1>1, <1>2, <1>3, <2>1, <2>2 DEF r
<1>4. CASE n + 1 = r
  <2>1. (n + 1) % r = 0
    BY <1>1, <1>4, Modulo
  <2>2. n + left = r + (left - 1)
    BY <1>1, <1>4
  <2>3. (n + left) % r = (left - 1) % r
    <3>1. CASE left - 1 >= 0
      <4>1. left - 1 \in 0 .. r - 1 /\ n + left \in r .. 2 * r - 1
        BY <1>1, <2>2, <3>1
      <4>2. (left - 1) % r = left - 1
        BY <1>1, <4>1, Modulo
      <4>3. (n + left) % r = n + left - r
        BY <1>1, <4>1, Modulo
      <4> QED BY <1>1, <1>2, <2>2, <4>2, <4>3
    <3>2. CASE left - 1 < 0
      <4>1. left - 1 \in -r .. -1 /\ n + left \in 0 .. r - 1
        BY <1>1, <1>2, <2>2, <3>2
      <4>2. (left - 1) % r = left - 1 + r /\ (n + left) % r = n + left
        BY <1>1, <4>1, Modulo
      <4> QED BY <1>1, <1>2, <2>2, <4>2
    <3> QED BY <3>1, <3>2
  <2>4. ((n + 1) % r) + (left - 1) = left - 1
    BY <2>1
  <2> QED BY <1>1, <2>1, <2>3, <2>4 DEF r
<1> QED BY <1>1, <1>2, <1>3, <1>4

LEMMA Wraps ==
    /\ ClockRange \in Nat \ {0} /\ ClockRange = 2 * ClockHalf
    /\ ClockHalf \in Nat \ {0} /\ LoopLag \in 1 .. ClockHalf - 1
BY CommandAssumption DEF ClockRange

LEMMA DueIsReached ==
    ASSUME Clocked, NEW at, NEW left, Due(now, lag, at, left)
    PROVE  Reached(at) <=> left <= 0
BY Wraps, ReachedWhenDue DEF Clocked, Due, Reached, ClockRange

LEMMA DueComesCloser ==
    ASSUME Clocked, NEW at, NEW left, Due(now, lag, at, left), lag < LoopLag
    PROVE  /\ Due((now + 1) % ClockRange, lag + 1, at, left - 1)
           /\ (now + 1) % ClockRange \in 0 .. ClockRange - 1
<1>1. /\ left \in Int /\ - ClockHalf < left /\ left < ClockHalf
      /\ lag \in Nat /\ now \in 0 .. 2 * ClockHalf - 1
  BY Wraps DEF Clocked, Due
<1>2. /\ (now + 1) % ClockRange \in 0 .. ClockRange - 1
      /\ (((now + 1) % ClockRange) + (left - 1)) % ClockRange = (now + left) % ClockRange
  BY <1>1, Wraps, ComesCloser DEF ClockRange
<1> QED BY <1>1, <1>2, Wraps DEF Due

\* A new deadline is due in its time.
LEMMA NewIsDue ==
    ASSUME Clocked, NEW d \in 0 .. ClockHalf - 1
    PROVE  Due(now, lag, (now + d) % ClockRange, d) /\ (now + d) % ClockRange \in Int
BY Wraps DEF Due, Clocked

\* A tick that finds something left leaves it due.
LEMMA TickLeavesDue ==
    ASSUME Clocked, NEW at, NEW left, Due(now, lag, at, left), ~Reached(at)
    PROVE  Due(now, 0, at, left)
BY DueIsReached DEF Due

LEMMA InitInv == Init => Inv
<1> SUFFICES ASSUME Init PROVE Inv
  OBVIOUS
<1>1. Clocked
  BY Wraps DEF Init, HostInit, Clocked
<1>2. Shape
  BY CommandAssumption, EmptySeq
     DEF Init, HostInit, DeferredInit, Shape, NoCatch, NoBaud, Idle
<1>3. WindowIsLatest /\ ToldIsHeld /\ DeadlinesDue
  BY DEF Init, HostInit, DeferredInit, WindowIsLatest, LatestOpen, ToldIsHeld, HostKnowsButtons,
         DeadlinesDue, NoCatch, NoBaud, Idle
<1> QED BY <1>1, <1>2, <1>3 DEF Inv

-----------------------------------------------------------------------------
\* Sequences

LEMMA AskedAnswered ==
    ASSUME Shape, LatestOpen
    PROVE  /\ Len(asked) \in Nat /\ Len(answers) \in Nat /\ Len(answers) <= Len(asked)
           /\ catch.active => Len(asked) \in 1 .. Len(asked) /\ Latest \in [moved : Int, left : Int]
           /\ Open <=> catch.active
<1>1. Len(asked) \in Nat /\ Len(answers) \in Nat
  BY LenProperties DEF Shape
<1>2. ASSUME catch.active
      PROVE  Len(asked) \in 1 .. Len(asked) /\ Latest \in [moved : Int, left : Int]
  <2>1. Len(asked) \in 1 .. Len(asked)
    BY <1>1, <1>2 DEF WindowIsLatest, LatestOpen
  <2> QED BY <2>1, ElementOfSeq DEF Shape, Latest
<1>3. catch.active \in BOOLEAN
  BY DEF Shape
<1> QED BY <1>1, <1>2, <1>3 DEF WindowIsLatest, LatestOpen, Open

\* The answer to the open window is the one its request is owed.
LEMMA AnswerIsOwed ==
    ASSUME Shape, LatestOpen, catch.active,
           NEW more, more = Append(answers, [id |-> Len(asked), moved |-> catch.moved])
    PROVE  /\ more \in Seq([id : Nat, moved : Int])
           /\ Len(more) = Len(asked) /\ Len(more) = Len(answers) + 1
           /\ \A i \in 1 .. Len(more) : more[i] = [id |-> i, moved |-> asked[i].moved]
<1> DEFINE a == [id |-> Len(asked), moved |-> catch.moved]
<1>1. a \in [id : Nat, moved : Int]
  BY AskedAnswered DEF Shape
<1>2. a = [id |-> Len(asked), moved |-> asked[Len(asked)].moved]
  BY DEF WindowIsLatest, LatestOpen, Latest
<1> HIDE DEF a
<1>3. more = Append(answers, a) /\ answers \in Seq([id : Nat, moved : Int])
  BY DEF a, Shape
<1>4. /\ more \in Seq([id : Nat, moved : Int]) /\ Len(more) = Len(answers) + 1
      /\ \A i \in 1 .. Len(answers) : more[i] = answers[i]
      /\ more[Len(answers) + 1] = a
  BY <1>1, <1>3, AppendProperties
<1>5. Len(answers) + 1 = Len(asked) /\ Len(answers) \in Nat
  BY AskedAnswered DEF LatestOpen
<1> QED BY <1>2, <1>4, <1>5 DEF WindowIsLatest, LatestOpen

\* One more request leaves the others as they are.
LEMMA AskedGrows ==
    ASSUME Shape, NEW dur \in Nat
    PROVE  /\ Clamped(dur) \in 0 .. ClockHalf - 1
           /\ Asked(dur) \in Seq([moved : Int, left : Int])
           /\ Len(Asked(dur)) = Len(asked) + 1
           /\ \A i \in 1 .. Len(asked) : Asked(dur)[i] = asked[i]
           /\ Asked(dur)[Len(asked) + 1] = [moved |-> 0, left |-> Clamped(dur)]
<1>1. Clamped(dur) \in 0 .. ClockHalf - 1
  BY CommandAssumption DEF Clamped
<1>2. [moved |-> 0, left |-> Clamped(dur)] \in [moved : Int, left : Int]
  BY <1>1, CommandAssumption
<1>3. asked \in Seq([moved : Int, left : Int])
  BY DEF Shape
<1> QED BY <1>1, <1>2, <1>3, AppendProperties DEF Asked

\* The mouse's motion goes to the open window alone, and so does time.
LEMMA MotionCounts ==
    ASSUME Shape, LatestOpen, NEW d \in Int
    PROVE  /\ SeenMoving(d) \in Seq([moved : Int, left : Int])
           /\ Len(SeenMoving(d)) = Len(asked)
           /\ \A i \in 1 .. Len(answers) : SeenMoving(d)[i].moved = asked[i].moved
           /\ catch.active => /\ SeenMoving(d)[Len(asked)].moved = Latest.moved + d
                              /\ SeenMoving(d)[Len(asked)].left = Latest.left
<1> asked \in Seq([moved : Int, left : Int])
  BY DEF Shape
<1>1. CASE ~catch.active
  BY <1>1, AskedAnswered DEF SeenMoving
<1>2. CASE catch.active
  <2> DEFINE e == [Latest EXCEPT !.moved = @ + d]
  <2>1. Len(asked) \in 1 .. Len(asked) /\ Latest \in [moved : Int, left : Int] /\ Open
    BY <1>2, AskedAnswered
  <2>2. SeenMoving(d) = [asked EXCEPT ![Len(asked)] = e]
    BY <2>1 DEF SeenMoving, Latest
  <2>3. /\ e \in [moved : Int, left : Int]
        /\ e.moved = Latest.moved + d /\ e.left = Latest.left
    BY <2>1
  <2> HIDE DEF e
  <2>4. /\ SeenMoving(d) \in Seq([moved : Int, left : Int])
        /\ Len(SeenMoving(d)) = Len(asked)
        /\ \A i \in 1 .. Len(asked) :
              SeenMoving(d)[i] = IF i = Len(asked) THEN e ELSE asked[i]
    BY <2>1, <2>2, <2>3, ExceptSeq
  <2>5. Len(answers) \in Nat /\ Len(answers) = Len(asked) - 1
    BY <1>2, AskedAnswered DEF WindowIsLatest, LatestOpen
  <2>6. \A i \in 1 .. Len(answers) : i \in 1 .. Len(asked) /\ i # Len(asked)
    BY <2>1, <2>5
  <2>7. \A i \in 1 .. Len(answers) : SeenMoving(d)[i] = asked[i]
    BY <2>4, <2>6
  <2>8. SeenMoving(d)[Len(asked)] = e
    BY <2>1, <2>4
  <2> QED BY <2>3, <2>4, <2>7, <2>8
<1>3. catch.active \in BOOLEAN
  BY DEF Shape
<1> QED BY <1>1, <1>2, <1>3

LEMMA TimeCounts ==
    ASSUME Shape, LatestOpen
    PROVE  /\ TimePasses \in Seq([moved : Int, left : Int])
           /\ Len(TimePasses) = Len(asked)
           /\ \A i \in 1 .. Len(asked) : TimePasses[i].moved = asked[i].moved
           /\ catch.active => TimePasses[Len(asked)].left = Latest.left - 1
<1> asked \in Seq([moved : Int, left : Int])
  BY DEF Shape
<1>1. CASE ~catch.active
  BY <1>1, AskedAnswered DEF TimePasses
<1>2. CASE catch.active
  <2> DEFINE e == [Latest EXCEPT !.left = @ - 1]
  <2>1. Len(asked) \in 1 .. Len(asked) /\ Latest \in [moved : Int, left : Int] /\ Open
    BY <1>2, AskedAnswered
  <2>2. TimePasses = [asked EXCEPT ![Len(asked)] = e]
    BY <2>1 DEF TimePasses, Latest
  <2>3. /\ e \in [moved : Int, left : Int]
        /\ e.moved = Latest.moved /\ e.left = Latest.left - 1
    BY <2>1
  <2> HIDE DEF e
  <2>4. /\ TimePasses \in Seq([moved : Int, left : Int])
        /\ Len(TimePasses) = Len(asked)
        /\ \A i \in 1 .. Len(asked) :
              TimePasses[i] = IF i = Len(asked) THEN e ELSE asked[i]
    BY <2>1, <2>2, <2>3, ExceptSeq
  <2>5. asked[Len(asked)].moved = e.moved
    BY <2>3 DEF Latest
  <2> QED BY <2>1, <2>3, <2>4, <2>5
<1>3. catch.active \in BOOLEAN
  BY DEF Shape
<1> QED BY <1>1, <1>2, <1>3

-----------------------------------------------------------------------------
\* The actions

\* A request cuts an open window short, with its answer, and opens the next.
LEMMA CatchXyKeeps == ASSUME Inv, NEW dur \in Durations, CatchXy(dur) PROVE Inv'
<1>1. /\ answers' = answers \o Prior /\ asked' = Asked(dur)
      /\ catch' = [active |-> TRUE, deadline |-> (now + Clamped(dur)) % ClockRange,
                   moved |-> 0, id |-> Len(asked) + 1]
      /\ UNCHANGED <<now, lag, newBaud, reboot, baudAcked, baudLeft, rebootLeft>>
      /\ UNCHANGED <<held, enabled, lastTold, told, noticed, subscribed, lost>>
  BY DEF CatchXy, Fresh, time, callbacks, world, deferred
<1>2. Clocked /\ Shape /\ WindowIsLatest /\ LatestOpen /\ ToldIsHeld /\ DeadlinesDue
  BY DEF Inv, WindowIsLatest
<1>3. /\ Clamped(dur) \in 0 .. ClockHalf - 1
      /\ asked' \in Seq([moved : Int, left : Int]) /\ Len(asked') = Len(asked) + 1
      /\ \A i \in 1 .. Len(asked) : asked'[i] = asked[i]
      /\ asked'[Len(asked) + 1] = [moved |-> 0, left |-> Clamped(dur)]
  BY <1>1, <1>2, AskedGrows, CommandAssumption
<1>4. Len(asked) \in Nat /\ Len(answers) \in Nat
  BY <1>2, AskedAnswered
<1>5. /\ answers' \in Seq([id : Nat, moved : Int]) /\ Len(answers') = Len(asked)
      /\ \A i \in 1 .. Len(asked) : answers'[i] = [id |-> i, moved |-> asked[i].moved]
  <2>1. CASE catch.active
    <3>1. Prior = <<[id |-> catch.id, moved |-> catch.moved]>>
      BY <2>1 DEF Prior, Emitted
    <3>2. [id |-> catch.id, moved |-> catch.moved] \in [id : Nat, moved : Int]
      BY <1>2 DEF Shape
    <3>3. answers' = Append(answers, [id |-> catch.id, moved |-> catch.moved])
      BY <1>1, <1>2, <3>1, <3>2, AppendIsConcat DEF Shape
    <3>4. catch.id = Len(asked)
      BY <1>2, <2>1 DEF WindowIsLatest
    <3> QED BY <1>2, <2>1, <3>3, <3>4, AnswerIsOwed
  <2>2. CASE ~catch.active
    <3>1. answers' = answers
      BY <1>1, <1>2, <2>2, ConcatEmptySeq DEF Prior, Shape
    <3> QED BY <1>2, <2>2, <3>1 DEF Shape, WindowIsLatest, LatestOpen
  <2>3. catch.active \in BOOLEAN
    BY <1>2 DEF Shape
  <2> QED BY <2>1, <2>2, <2>3
<1>6. Clocked' /\ ToldIsHeld'
  BY <1>1, <1>2 DEF Clocked, ToldIsHeld, HostKnowsButtons
<1>7. (now + Clamped(dur)) % ClockRange \in Int
      /\ Due(now, lag, (now + Clamped(dur)) % ClockRange, Clamped(dur))
  BY <1>2, <1>3, NewIsDue
<1>8. Shape'
  BY <1>1, <1>2, <1>3, <1>4, <1>5, <1>7 DEF Shape
<1>9. Latest' = [moved |-> 0, left |-> Clamped(dur)]
  BY <1>3 DEF Latest
<1>10. WindowIsLatest'
  <2>1. \A i \in 1 .. Len(answers') : answers'[i] = [id |-> i, moved |-> asked'[i].moved]
    BY <1>3, <1>5
  <2>2. catch'.active /\ catch'.id = Len(asked') /\ catch'.moved = Latest'.moved
    BY <1>1, <1>3, <1>9
  <2>3. Len(answers') = Len(asked') - 1
    BY <1>3, <1>4, <1>5
  <2> QED BY <2>1, <2>2, <2>3 DEF WindowIsLatest, LatestOpen
<1>11. DeadlinesDue'
  BY <1>1, <1>2, <1>7, <1>9 DEF DeadlinesDue
<1> QED BY <1>6, <1>8, <1>10, <1>11 DEF Inv

\* What touches neither the window nor the clock
LEMMA CallbackKeeps ==
    ASSUME Inv, \/ Query \/ (Drain /\ UNCHANGED deferred)
                \/ (HostRestart /\ UNCHANGED deferred)
                \/ \E cb \in {"buttons", "axes"}, on \in BOOLEAN : Toggle(cb, on)
    PROVE  Inv'
<1>1. UNCHANGED <<time, window, world, deferred>>
  BY DEF Query, Drain, HostRestart, Toggle
<1>2. UNCHANGED <<now, lag, catch, asked, answers, held, newBaud, reboot, baudAcked,
                  baudLeft, rebootLeft>>
  BY <1>1 DEF time, window, world, deferred
<1>3. Clocked' /\ Shape' /\ WindowIsLatest' /\ DeadlinesDue'
  BY <1>2 DEF Inv, Clocked, Shape, WindowIsLatest, LatestOpen, DeadlinesDue, Latest
<1>4. ToldIsHeld'
  <2>1. CASE Query \/ Drain
    BY <2>1, <1>2 DEF Query, Drain, callbacks, Inv, ToldIsHeld, HostKnowsButtons
  <2>2. CASE HostRestart
    BY <2>2, <1>2 DEF HostRestart, Inv, ToldIsHeld, HostKnowsButtons
  <2>3. ASSUME NEW cb \in {"buttons", "axes"}, NEW on \in BOOLEAN, Toggle(cb, on)
        PROVE  ToldIsHeld'
    <3>1. CASE cb = "buttons"
      BY <2>3, <3>1 DEF Toggle, Switch, Forgotten, ToldIsHeld, HostKnowsButtons
    <3>2. CASE cb = "axes"
      BY <2>3, <3>2, <1>2 DEF Toggle, Switch, Forgotten, Inv, ToldIsHeld, HostKnowsButtons
    <3> QED BY <2>3, <3>1, <3>2
  <2> QED BY <2>1, <2>2, <2>3
<1> QED BY <1>3, <1>4 DEF Inv

\* A rate and a reboot are deferred from now on.
LEMMA DeferKeeps ==
    ASSUME Inv, AskReboot \/ \E rate \in Rates : SetBaud(rate)
    PROVE  Inv'
<1> DEFINE at == (now + DeferDelay) % ClockRange
<1>1. UNCHANGED <<now, lag, catch, asked, answers, held, enabled, lastTold, told,
                  noticed, subscribed, lost>>
  BY DEF AskReboot, SetBaud, time, window, callbacks, world
<1>2. Clocked' /\ WindowIsLatest' /\ ToldIsHeld'
  BY <1>1 DEF Inv, Clocked, WindowIsLatest, LatestOpen, ToldIsHeld, HostKnowsButtons, Latest
<1>3. Due(now, lag, at, DeferDelay) /\ at \in Int
  BY NewIsDue, CommandAssumption DEF Inv
<1>4. CASE AskReboot
  <2>1. reboot' = [scheduled |-> TRUE, at |-> at] /\ rebootLeft' = DeferDelay
    BY <1>4 DEF AskReboot
  <2>2. UNCHANGED <<newBaud, baudAcked, baudLeft>>
    BY <1>4 DEF AskReboot
  <2> HIDE DEF at
  <2>3. Shape'
    BY <1>1, <1>3, <2>1, <2>2 DEF Inv, Shape
  <2>4. DeadlinesDue'
    BY <1>1, <1>3, <2>1, <2>2 DEF Inv, DeadlinesDue, Latest
  <2> QED BY <1>2, <2>3, <2>4 DEF Inv
<1>5. ASSUME NEW rate \in Rates, SetBaud(rate) PROVE Inv'
  <2>1. /\ newBaud' = [scheduled |-> TRUE, at |-> at, rate |-> rate]
        /\ baudAcked' = rate /\ baudLeft' = DeferDelay
    BY <1>5 DEF SetBaud, Newest
  <2>2. UNCHANGED <<reboot, rebootLeft>>
    BY <1>5 DEF SetBaud
  <2>3. rate \in Nat
    BY CommandAssumption
  <2> HIDE DEF at
  <2>4. Shape'
    BY <1>1, <1>3, <2>1, <2>2, <2>3 DEF Inv, Shape
  <2>5. DeadlinesDue'
    BY <1>1, <1>3, <2>1, <2>2 DEF Inv, DeadlinesDue, Latest
  <2> QED BY <1>2, <2>4, <2>5 DEF Inv
<1> QED BY <1>4, <1>5

\* A tick closes the windows that are over, and what it leaves is still to come.
LEMMA TickKeeps == ASSUME Inv, Tick PROVE Inv'
<1>1. Clocked /\ Shape /\ WindowIsLatest /\ LatestOpen /\ ToldIsHeld /\ DeadlinesDue
  BY DEF Inv, WindowIsLatest
<1>2. /\ lag' = 0
      /\ UNCHANGED <<now, asked, held, enabled, lastTold, told, noticed, subscribed, lost>>
      /\ UNCHANGED <<reboot, baudAcked, baudLeft, rebootLeft>>
  BY DEF Tick, callbacks, world
<1>3. Clocked' /\ ToldIsHeld'
  BY <1>1, <1>2, Wraps DEF Clocked, ToldIsHeld, HostKnowsButtons
<1>4. /\ answers' \in Seq([id : Nat, moved : Int])
      /\ catch' \in [active : BOOLEAN, deadline : Int, moved : Int, id : Nat]
      /\ WindowIsLatest'
      /\ catch'.active => Due(now, 0, catch'.deadline, Latest.left)
  <2>1. CASE CatchDue
    <3>1. /\ answers' = Append(answers, [id |-> catch.id, moved |-> catch.moved])
          /\ catch' = [catch EXCEPT !.active = FALSE] /\ catch.active
      BY <2>1 DEF Tick, TickCatch, CatchDue
    <3>2. /\ answers' \in Seq([id : Nat, moved : Int]) /\ Len(answers') = Len(asked)
          /\ \A i \in 1 .. Len(answers') : answers'[i] = [id |-> i, moved |-> asked[i].moved]
      <4>1. catch.id = Len(asked)
        BY <1>1, <3>1 DEF WindowIsLatest
      <4>2. answers' = Append(answers, [id |-> Len(asked), moved |-> catch.moved])
        BY <3>1, <4>1
      <4> QED BY <1>1, <3>1, <4>2, AnswerIsOwed
    <3>3. catch' \in [active : BOOLEAN, deadline : Int, moved : Int, id : Nat]
          /\ ~catch'.active
      BY <1>1, <3>1 DEF Shape
    <3> QED BY <1>2, <3>2, <3>3 DEF WindowIsLatest, LatestOpen
  <2>2. CASE ~CatchDue
    <3>1. UNCHANGED <<answers, catch>>
      BY <2>2 DEF Tick, TickCatch
    <3>2. WindowIsLatest'
      BY <1>1, <1>2, <3>1 DEF WindowIsLatest, LatestOpen, Latest
    <3>3. catch.active => Due(now, 0, catch.deadline, Latest.left)
      BY <1>1, <2>2, TickLeavesDue DEF DeadlinesDue, CatchDue
    <3> QED BY <1>1, <3>1, <3>2, <3>3 DEF Shape
  <2> QED BY <2>1, <2>2
<1>5. /\ newBaud' \in [scheduled : BOOLEAN, at : Int, rate : Nat]
      /\ newBaud'.scheduled => /\ Due(now, 0, newBaud'.at, baudLeft)
                               /\ newBaud'.rate = baudAcked
  <2>1. CASE BaudDue
    <3>1. newBaud' = [newBaud EXCEPT !.scheduled = FALSE, !.at = 0]
      BY <2>1 DEF Tick, TickBaud
    <3>2. newBaud \in [scheduled : BOOLEAN, at : Int, rate : Nat]
      BY <1>1 DEF Shape
    <3>3. newBaud' \in [scheduled : BOOLEAN, at : Int, rate : Nat]
      <4> DEFINE off == [newBaud EXCEPT !.scheduled = FALSE]
      <4>1. off \in [scheduled : BOOLEAN, at : Int, rate : Nat]
        BY <3>2
      <4>2. newBaud' = [off EXCEPT !.at = 0]
        BY <3>1
      <4> HIDE DEF off
      <4> QED BY <4>1, <4>2
    <3>4. newBaud'.scheduled = FALSE
      BY <3>1, <3>2
    <3> QED BY <3>3, <3>4
  <2>2. CASE ~BaudDue
    <3>1. newBaud' = newBaud
      BY <2>2 DEF Tick, TickBaud
    <3>2. newBaud.scheduled => Due(now, 0, newBaud.at, baudLeft)
      BY <1>1, <2>2, TickLeavesDue DEF DeadlinesDue, BaudDue
    <3> QED BY <1>1, <3>1, <3>2 DEF Shape, DeadlinesDue
  <2> QED BY <2>1, <2>2
<1>6. reboot.scheduled => Due(now, 0, reboot.at, rebootLeft)
  BY <1>1, TickLeavesDue DEF Tick, DeadlinesDue, RebootDue
<1>7. Shape'
  BY <1>1, <1>2, <1>4, <1>5 DEF Shape
<1>8. DeadlinesDue'
  BY <1>2, <1>4, <1>5, <1>6 DEF DeadlinesDue, Latest
<1> QED BY <1>3, <1>4, <1>7, <1>8 DEF Inv

\* A report adds to the window and tells a subscriber what changed.
LEMMA ReportKeeps ==
    ASSUME Inv, NEW b \in Bitmaps, NEW d \in Moves, Report(b, d)
    PROVE  Inv'
<1>1. Clocked /\ Shape /\ WindowIsLatest /\ LatestOpen /\ ToldIsHeld /\ DeadlinesDue
  BY DEF Inv, WindowIsLatest
<1>2. /\ asked' = SeenMoving(d) /\ held' = b /\ noticed' = TRUE
      /\ catch' = IF catch.active THEN [catch EXCEPT !.moved = @ + d] ELSE catch
      /\ UNCHANGED <<now, lag, answers, enabled, subscribed>>
      /\ UNCHANGED <<newBaud, reboot, baudAcked, baudLeft, rebootLeft>>
  BY DEF Report, NotifyAxes, time, deferred
<1>3. d \in Int
  BY CommandAssumption
<1>4. /\ asked' \in Seq([moved : Int, left : Int]) /\ Len(asked') = Len(asked)
      /\ \A i \in 1 .. Len(answers) : asked'[i].moved = asked[i].moved
      /\ catch.active => asked'[Len(asked)].moved = Latest.moved + d
      /\ catch.active => asked'[Len(asked)].left = Latest.left
  BY <1>1, <1>2, <1>3, MotionCounts
<1>5. /\ catch' \in [active : BOOLEAN, deadline : Int, moved : Int, id : Nat]
      /\ catch'.active = catch.active /\ catch'.id = catch.id
      /\ catch'.deadline = catch.deadline
      /\ catch.active => catch'.moved = catch.moved + d
  <2>1. catch \in [active : BOOLEAN, deadline : Int, moved : Int, id : Nat]
    BY <1>1 DEF Shape
  <2>2. CASE catch.active
    <3>1. catch' = [catch EXCEPT !.moved = @ + d]
      BY <1>2, <2>2
    <3>2. catch' \in [active : BOOLEAN, deadline : Int, moved : Int, id : Nat]
      BY <1>3, <2>1, <3>1
    <3>3. catch'.id = catch.id /\ catch'.deadline = catch.deadline
      BY <2>1, <3>1
    <3>4. catch'.active = catch.active /\ catch'.moved = catch.moved + d
      BY <2>1, <3>1
    <3> QED BY <3>2, <3>3, <3>4
  <2>3. CASE ~catch.active
    BY <1>2, <2>1, <2>3
  <2> QED BY <2>2, <2>3
<1>6. Clocked' /\ Shape'
  BY <1>1, <1>2, <1>4, <1>5 DEF Clocked, Shape
<1>7. WindowIsLatest'
  <2>1. Len(answers') = IF catch'.active THEN Len(asked') - 1 ELSE Len(asked')
    BY <1>1, <1>2, <1>4, <1>5 DEF WindowIsLatest, LatestOpen
  <2>2. catch'.active => catch'.id = Len(asked') /\ catch'.moved = Latest'.moved
    BY <1>1, <1>4, <1>5 DEF WindowIsLatest, LatestOpen, Latest
  <2>3. \A i \in 1 .. Len(answers') : answers'[i] = [id |-> i, moved |-> asked'[i].moved]
    BY <1>1, <1>2, <1>4 DEF WindowIsLatest, LatestOpen
  <2> QED BY <2>1, <2>2, <2>3 DEF WindowIsLatest, LatestOpen
<1>8. DeadlinesDue'
  BY <1>1, <1>2, <1>4, <1>5 DEF DeadlinesDue, Latest
<1>9. ToldIsHeld'
  <2>1. b # Resend
    BY CommandAssumption DEF Resend
  <2>2. CASE TellsButtons(b)
    <3>1. lastTold' = b /\ (TakenWhole(used, TellBytes) => told' = b)
      BY <2>2 DEF Report
    <3>2. lost' = ~TakenWhole(used, TellBytes)
      BY <2>2 DEF Report
    <3>3. ~lost' => told' = b
      BY <3>1, <3>2
    <3> QED BY <1>1, <1>2, <3>1, <3>3 DEF ToldIsHeld, HostKnowsButtons
  <2>3. CASE ~TellsButtons(b)
    <3>1. UNCHANGED <<lastTold, lost, told>> /\ ("buttons" \in enabled => b = lastTold)
      BY <2>3 DEF Report, TellsButtons
    <3> QED BY <1>1, <1>2, <2>1, <3>1 DEF ToldIsHeld, HostKnowsButtons
  <2> QED BY <2>2, <2>3
<1> QED BY <1>6, <1>7, <1>8, <1>9 DEF Inv

LEMMA MillisecondKeeps == ASSUME Inv, Millisecond PROVE Inv'
<1>1. Clocked /\ Shape /\ WindowIsLatest /\ LatestOpen /\ ToldIsHeld /\ DeadlinesDue
  BY DEF Inv, WindowIsLatest
<1>2. /\ now' = (now + 1) % ClockRange /\ lag' = lag + 1 /\ lag < LoopLag
      /\ asked' = TimePasses
      /\ UNCHANGED <<catch, answers, held, enabled, lastTold, told, noticed, subscribed, lost>>
      /\ UNCHANGED <<newBaud, reboot, baudAcked>>
      /\ newBaud.scheduled => baudLeft' = baudLeft - 1
      /\ reboot.scheduled => rebootLeft' = rebootLeft - 1
  BY DEF Millisecond, HostMillisecond, callbacks, world
<1>3. now' \in 0 .. ClockRange - 1
  <2>1. CASE now + 1 < ClockRange
    BY <1>1, <1>2, <2>1, Wraps DEF Clocked
  <2>2. CASE now + 1 = ClockRange
    BY <1>1, <1>2, <2>2, Wraps DEF Clocked
  <2> QED BY <1>1, <2>1, <2>2, Wraps DEF Clocked
<1>4. Clocked' /\ ToldIsHeld'
  BY <1>1, <1>2, <1>3, Wraps DEF Clocked, ToldIsHeld, HostKnowsButtons
<1>5. /\ asked' \in Seq([moved : Int, left : Int]) /\ Len(asked') = Len(asked)
      /\ \A i \in 1 .. Len(asked) : asked'[i].moved = asked[i].moved
      /\ catch.active => asked'[Len(asked)].left = Latest.left - 1
  BY <1>1, <1>2, TimeCounts
<1>6. Shape'
  BY <1>1, <1>2, <1>5 DEF Shape
<1>7. /\ Len(answers) \in Nat /\ Len(answers) <= Len(asked) /\ Len(asked) \in Nat
      /\ catch.active => Len(asked) \in 1 .. Len(asked)
  BY <1>1, AskedAnswered
<1>8. WindowIsLatest'
  <2>1. \A i \in 1 .. Len(answers) : i \in 1 .. Len(asked)
    BY <1>7
  <2>2. \A i \in 1 .. Len(answers') : answers'[i] = [id |-> i, moved |-> asked'[i].moved]
    BY <1>1, <1>2, <1>5, <2>1 DEF WindowIsLatest, LatestOpen
  <2>3. catch.active => Latest'.moved = Latest.moved
    BY <1>5, <1>7 DEF Latest
  <2> QED BY <1>1, <1>2, <1>5, <2>2, <2>3 DEF WindowIsLatest, LatestOpen
<1>9. DeadlinesDue'
  <2>1. ASSUME NEW at, NEW left, Due(now, lag, at, left)
        PROVE  Due(now', lag', at, left - 1)
    BY <1>1, <1>2, <2>1, DueComesCloser
  <2>2. catch.active => Latest'.left = Latest.left - 1
    BY <1>5 DEF Latest
  <2>3. catch.active => Due(now', lag', catch.deadline, Latest.left - 1)
    BY <1>1, <2>1 DEF DeadlinesDue
  <2>4. newBaud.scheduled => Due(now', lag', newBaud.at, baudLeft - 1)
    BY <1>1, <2>1 DEF DeadlinesDue
  <2>5. reboot.scheduled => Due(now', lag', reboot.at, rebootLeft - 1)
    BY <1>1, <2>1 DEF DeadlinesDue
  <2> QED BY <1>1, <1>2, <2>2, <2>3, <2>4, <2>5 DEF DeadlinesDue
<1> QED BY <1>4, <1>6, <1>8, <1>9 DEF Inv

LEMMA RebootKeeps == ASSUME Inv, Reboot PROVE Inv'
<1>1. Clocked'
  BY Wraps DEF Reboot, Clocked
<1>2. Shape'
  BY EmptySeq DEF Reboot, Inv, Shape, NoCatch, NoBaud, Idle, world
<1>3. WindowIsLatest' /\ ToldIsHeld' /\ DeadlinesDue'
  BY DEF Reboot, WindowIsLatest, LatestOpen, ToldIsHeld, HostKnowsButtons, DeadlinesDue, NoCatch,
         NoBaud, Idle
<1> QED BY <1>1, <1>2, <1>3 DEF Inv

LEMMA StepKeeps == Inv /\ [Next]_vars => Inv'
<1> SUFFICES ASSUME Inv, [Next]_vars PROVE Inv'
  OBVIOUS
<1>1. CASE UNCHANGED vars
  <2>1. UNCHANGED <<now, lag, catch, asked, answers, held, enabled, lastTold, told,
                    noticed, subscribed, lost, newBaud, reboot, baudAcked, baudLeft,
                    rebootLeft>>
    BY <1>1 DEF vars, hostvars, time, window, callbacks, world, deferred
  <2> QED BY <2>1 DEF Inv, Clocked, Shape, WindowIsLatest, LatestOpen, ToldIsHeld,
                      HostKnowsButtons, DeadlinesDue, Latest
<1>2. CASE Next
  BY <1>2, CatchXyKeeps, CallbackKeeps, DeferKeeps, TickKeeps, ReportKeeps,
     MillisecondKeeps, RebootKeeps DEF Next, Listener, Environment
<1> QED BY <1>1, <1>2

-----------------------------------------------------------------------------
\* The inductive invariant: what the open window, the button callback and the deadlines
\* mean between any two calls into the parser (hurra.c:511-528, 758-788).
THEOREM Inductive == Spec => []Inv
BY InitInv, StepKeeps, PTL DEF Spec

\* Every catch_xy request gets one answer, in order and to its own id, with exactly the
\* motion of its window (hurra.c:511-528, 758-779).
THEOREM OneAnswerEach == Spec => []CatchAnswered
<1>1. Inv => CatchAnswered
  <2> SUFFICES ASSUME Inv PROVE CatchAnswered
    OBVIOUS
  <2>1. Shape /\ WindowIsLatest
    BY DEF Inv
  <2>2. DOMAIN answers = 1 .. Len(answers)
    BY <2>1, LenProperties DEF Shape
  <2> QED BY <2>1, <2>2 DEF CatchAnswered, WindowIsLatest, LatestOpen
<1> QED BY Inductive, <1>1, PTL

\* A subscriber to whom no line was cut short knows the mouse's buttons from the first
\* report on, however hosts come and go (hurra.c:782-788).
THEOREM SubscriberKnows == Spec => []HostKnowsButtons
<1>1. Inv => HostKnowsButtons
  BY DEF Inv, ToldIsHeld
<1> QED BY Inductive, <1>1, PTL

\* A tick acts on what is due, and on that alone.
LEMMA TickOnTime ==
    ASSUME Inv, Tick
    PROVE  /\ Open => (Latest.left <= 0 <=> Len(answers') > Len(answers))
           /\ newBaud.scheduled => (baudLeft <= 0 <=> ~newBaud'.scheduled)
           /\ reboot.scheduled => rebootLeft > 0
<1>1. Clocked /\ Shape /\ WindowIsLatest /\ LatestOpen /\ DeadlinesDue
  BY DEF Inv, WindowIsLatest
<1>2. Len(asked) \in Nat /\ Len(answers) \in Nat /\ (Open <=> catch.active)
  BY <1>1, AskedAnswered
<1>3. ASSUME Open PROVE Latest.left <= 0 <=> Len(answers') > Len(answers)
  <2>1. catch.active
    BY <1>2, <1>3
  <2>2. Latest.left <= 0 <=> CatchDue
    BY <1>1, <2>1, DueIsReached DEF DeadlinesDue, CatchDue
  <2>3. CASE CatchDue
    <3>1. answers' = Append(answers, [id |-> catch.id, moved |-> catch.moved])
      BY <2>3 DEF Tick, TickCatch
    <3>2. Len(answers') = Len(answers) + 1
      BY <1>1, <2>1, <3>1, AnswerIsOwed
    <3> QED BY <1>2, <2>2, <2>3, <3>2
  <2>4. CASE ~CatchDue
    <3>1. answers' = answers
      BY <2>4 DEF Tick, TickCatch
    <3> QED BY <1>2, <2>2, <2>4, <3>1
  <2> QED BY <2>3, <2>4
<1>4. ASSUME newBaud.scheduled PROVE baudLeft <= 0 <=> ~newBaud'.scheduled
  <2>1. baudLeft <= 0 <=> BaudDue
    BY <1>1, <1>4, DueIsReached DEF DeadlinesDue, BaudDue
  <2>2. CASE BaudDue
    <3>1. newBaud' = [newBaud EXCEPT !.scheduled = FALSE, !.at = 0]
      BY <2>2 DEF Tick, TickBaud
    <3>2. newBaud \in [scheduled : BOOLEAN, at : Int, rate : Nat]
      BY <1>1 DEF Shape
    <3>3. newBaud'.scheduled = FALSE
      BY <3>1, <3>2
    <3> QED BY <2>1, <2>2, <3>3
  <2>3. CASE ~BaudDue
    <3>1. newBaud' = newBaud
      BY <2>3 DEF Tick, TickBaud
    <3> QED BY <1>4, <2>1, <2>3, <3>1
  <2> QED BY <2>2, <2>3
<1>5. ASSUME reboot.scheduled PROVE rebootLeft > 0
  <2>1. rebootLeft \in Int /\ (RebootDue <=> rebootLeft <= 0)
    BY <1>1, <1>5, DueIsReached DEF DeadlinesDue, RebootDue, Due
  <2>2. ~RebootDue
    BY DEF Tick
  <2> QED BY <2>1, <2>2
<1> QED BY <1>3, <1>4, <1>5

\* No step answers an open window early but the next request, nor drops a rate.
LEMMA NothingEarly ==
    ASSUME Inv, Next
    PROVE  /\ Reboot => rebootLeft <= 0
           /\ Len(asked') = Len(asked) /\ answers' # answers => Latest.left <= 0
           /\ newBaud.scheduled /\ ~newBaud'.scheduled /\ home = "uart" /\ ~Reboot
                => baud' = baudAcked
<1>1. Clocked /\ Shape /\ WindowIsLatest /\ LatestOpen /\ DeadlinesDue
  BY DEF Inv, WindowIsLatest
<1>2. Reboot => rebootLeft <= 0
  BY <1>1, DueIsReached DEF Reboot, RebootDue, DeadlinesDue
<1>3. ASSUME Len(asked') = Len(asked), answers' # answers PROVE Latest.left <= 0
  <2>1. ASSUME NEW dur \in Durations, CatchXy(dur) PROVE FALSE
    <3>1. asked' = Asked(dur) /\ dur \in Nat
      BY <2>1, CommandAssumption DEF CatchXy
    <3>2. Len(asked') = Len(asked) + 1 /\ Len(asked) \in Nat
      BY <1>1, <3>1, AskedGrows, AskedAnswered
    <3> QED BY <1>3, <3>2
  <2>2. CASE Tick
    <3>1. CatchDue
      BY <1>3, <2>2 DEF Tick, TickCatch
    <3> QED BY <1>1, <3>1, DueIsReached DEF CatchDue, DeadlinesDue
  <2>3. CASE Reboot
    <3>1. asked' = <<>> /\ answers' = <<>>
      BY <2>3 DEF Reboot
    <3>2. Len(answers) \in Nat /\ Len(answers) <= 0
      BY <1>1, <1>3, <3>1, AskedAnswered
    <3>3. answers = <<>>
      BY <1>1, <3>2, EmptySeq DEF Shape
    <3> QED BY <1>3, <3>1, <3>3
  <2>4. CASE Query \/ AskReboot \/ (\E rate \in Rates : SetBaud(rate))
               \/ \E cb \in {"buttons", "axes"}, on \in BOOLEAN : Toggle(cb, on)
    BY <1>3, <2>4 DEF Query, AskReboot, SetBaud, Toggle, window
  <2>5. CASE Environment
    BY <1>3, <2>5 DEF Environment, Drain, HostRestart, Millisecond, HostMillisecond,
                      Report, window
  <2> QED BY <2>1, <2>2, <2>3, <2>4, <2>5 DEF Next, Listener
<1>4. ASSUME newBaud.scheduled, ~newBaud'.scheduled, home = "uart", ~Reboot
      PROVE  baud' = baudAcked
  <2>1. newBaud' # newBaud
    BY <1>4
  <2>2. CASE Tick
    <3>1. BaudDue
      BY <2>1, <2>2 DEF Tick, TickBaud
    <3> QED BY <1>1, <1>4, <2>2, <3>1 DEF Tick, TickBaud, DeadlinesDue
  <2>3. ASSUME NEW rate \in Rates, SetBaud(rate) PROVE FALSE
    BY <1>4, <2>3 DEF SetBaud
  <2>4. CASE Query \/ AskReboot \/ (\E dur \in Durations : CatchXy(dur))
               \/ \E cb \in {"buttons", "axes"}, on \in BOOLEAN : Toggle(cb, on)
    BY <2>1, <2>4 DEF Query, AskReboot, CatchXy, Toggle, deferred
  <2>5. CASE Environment
    BY <2>1, <2>5 DEF Environment, Millisecond, Report, deferred
  <2> QED BY <1>4, <2>2, <2>3, <2>4, <2>5 DEF Next, Listener
<1> QED BY <1>2, <1>3, <1>4

\* A window closes, a rate changes and a reboot happens with the first tick at or after
\* their time and never before, for any width of the clock and across its wrap
\* (hurra.c:758-779).
THEOREM DeadlinesMet == Spec => [][OnDeadline]_vars
<1>1. Inv /\ [Next]_vars => [OnDeadline]_vars
  BY TickOnTime, NothingEarly DEF OnDeadline
<1> QED BY Inductive, <1>1, PTL DEF Spec
=============================================================================
