---------------------------- MODULE MCTwoBoard ----------------------------
(***************************************************************************)
(* The two-board relay on two instances: "reports", where slots are lost   *)
(* in runs and two reports cross the link, and "commands", where the       *)
(* inject FIFO is full and fairness brings Board A into its relay phase.   *)
(* `part` picks one at the start.                                          *)
(***************************************************************************)
EXTENDS TwoBoard

CONSTANTS d1, d2, Explored, CommandRing, CommandBurst, CommandReports, CommandInject
MCDevice == {d1, d2}

\* Two devices whose blobs differ in length.
DifferentBlobs == [d \in MCDevice |-> IF d = d1 THEN 2 ELSE 3]

\* Reports of two fragments and of one, from different endpoints.
MCShape == {[total |-> 2, ep |-> 1], [total |-> 1, ep |-> 2]}

VARIABLE part

Commands == INSTANCE TwoBoard WITH
    RingFrames <- CommandRing, MaxBurst <- CommandBurst, MaxReports <- CommandReports,
    MaxInject <- CommandInject

InCommands(A) == part = "commands" /\ A /\ UNCHANGED part

MCInit == part \in Explored /\ Init
MCNext ==
    \/ part = "reports" /\ Next /\ UNCHANGED part
    \/ InCommands(Commands!Next)

\* Both loops run, the re-send timer fires again and again while DRDY is low, the
\* PC configures an attached device, and from some point on no slot is lost.
MCSpec ==
    /\ MCInit /\ [][MCNext]_<<vars, part>>
    /\ WF_vars(InCommands(Commands!StepB)) /\ SF_vars(InCommands(Commands!StartBlob))
    /\ WF_vars(InCommands(Commands!StepA))
    /\ <>[][lostRun' <= lostRun]_vars

\* Reports and commands come out in the order they went in, and none twice.
RelayedInOrder == ReportsInOrder /\ InjectInOrder

\* As EventuallyRelays, of the instance with fairness.
LinkRecovers == <>[](part = "commands" => phase = "relay")
=============================================================================
