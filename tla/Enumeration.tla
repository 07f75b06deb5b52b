---------------------------- MODULE Enumeration ----------------------------
(***************************************************************************)
(* The capture of the real device's descriptors (desc_capture.c) and the   *)
(* loop around it (two_board.c, main_v5f.c), against a device that may be  *)
(* unplugged and replaced between any two control transfers.  A stretch of *)
(* attachment is a session, and a captured part remembers the session it   *)
(* came from.  A control transfer is one step: it goes through, fails, or  *)
(* fails after the device has acted on it.                                 *)
(***************************************************************************)
EXTENDS Naturals, Sequences

CONSTANTS
    Attempts,    \* port resets before capture_descriptors gives up (6 in the code)
    MaxSessions, \* bound: attachments
    MaxCaptures  \* bound: calls of capture_descriptors

VARIABLES
    \* the device
    session,     \* number of the attachment, the current or the last
    plugged,
    address,     \* "none" until a bus reset: it answers nothing; then "default", "assigned"
    configured,
    \* the host
    at,          \* "wait", "reset", "settle", a place in Steps, "speed" or "relay"
    attempt, captures,
    desc         \* each part of captured_descriptors_t |-> its session, 0 if absent

device == <<session, plugged, address, configured>>
capture == <<at, attempt, captures, desc>>
vars == <<device, capture>>

\* The control transfers of capture_descriptors in order.  The first five are the
\* enumeration that a failure starts over.
Steps == <<"dev8", "set_address", "dev18", "config9", "config", "hid", "langid",
           "string", "set_config", "bos", "ms_os", "set_idle">>
Enumerating == {"dev8", "set_address", "dev18", "config9", "config"}
Optional == {"hid", "langid", "string", "bos", "ms_os"}
Required == {"dev8", "dev18", "config9", "config"}
Fields == Required \cup Optional \cup {"speed"}

Nothing == [p \in Fields |-> 0]

StepAfter(s) ==
    LET i == CHOOSE j \in DOMAIN Steps : Steps[j] = s IN
    IF i = Len(Steps) THEN "speed" ELSE Steps[i + 1]

Init ==
    /\ session = 0 /\ plugged = FALSE /\ address = "none" /\ configured = FALSE
    /\ at = "wait" /\ attempt = 0 /\ captures = 0 /\ desc = Nothing

-----------------------------------------------------------------------------
\* The device

Plug ==
    /\ ~plugged /\ session < MaxSessions
    /\ session' = session + 1 /\ plugged' = TRUE
    /\ address' = "none" /\ configured' = FALSE
    /\ UNCHANGED capture

Unplug ==
    /\ plugged
    /\ plugged' = FALSE
    /\ UNCHANGED <<session, address, configured, capture>>

-----------------------------------------------------------------------------
\* two_board_host_run and main wait for a device and call capture_descriptors.
Begin ==
    /\ at = "wait" /\ plugged
    /\ captures < MaxCaptures
    /\ captures' = captures + 1
    /\ desc' = Nothing /\ attempt' = 0
    /\ at' = "reset"
    /\ UNCHANGED device

\* A bus reset takes a device that is there to the default address.
PortReset ==
    /\ at = "reset"
    /\ IF plugged
       THEN address' = "default" /\ configured' = FALSE
       ELSE UNCHANGED <<address, configured>>
    /\ at' = "settle"
    /\ UNCHANGED <<session, plugged, attempt, captures, desc>>

\* A failed enumeration starts over with a port reset, six times at most.
Failed ==
    /\ attempt' = attempt + 1
    /\ at' = IF attempt' < Attempts THEN "reset" ELSE "wait"

\* Where the next attempt starts.  Mutant: the packet size is asked for only once.
SizeKnown == IF desc["dev8"] > 0 THEN "set_address" ELSE "dev8"
FirstStep == "dev8"

\* enum_wait_port_stable: seven reads in a row find a device, or 300 ms pass.
Settle ==
    /\ at = "settle"
    /\ \/ plugged /\ at' = FirstStep /\ UNCHANGED attempt
       \/ Failed
    /\ UNCHANGED <<device, captures, desc>>

\* The address a step is sent to.
Target(s) == IF s \in {"dev8", "set_address"} THEN "default" ELSE "assigned"
Answers(s) == plugged /\ address = Target(s)

\* What the device does on a request.
DeviceActs(s) ==
    /\ address' = IF s = "set_address" THEN "assigned" ELSE address
    /\ configured' = (configured \/ s = "set_config")
    /\ UNCHANGED <<session, plugged>>

Store(s) == desc' = IF s \in Fields THEN [desc EXCEPT ![s] = session] ELSE desc

\* usb_host_control_transfer and the checks on what it brought.  A device that does not
\* hear its status packet acknowledged has no address yet (HostControl).
Succeed(s) ==
    /\ at = s
    /\ Answers(s)
    /\ DeviceActs(s) \/ (s = "set_address" /\ UNCHANGED device)
    /\ Store(s)
    /\ at' = StepAfter(s)
    /\ UNCHANGED <<attempt, captures>>

\* Nothing, too little or garbage came back: the enumeration starts over, an optional
\* part stays absent, SET_CONFIGURATION ends the capture and SET_IDLE is forgiven.
\* Mutant: a capture that goes on without a configuration.
FailForgiven(s) ==
    IF s \in Enumerating THEN Failed
    ELSE at' = StepAfter(s) /\ UNCHANGED attempt
AfterFailure(s) ==
    IF s \in Enumerating THEN Failed
    ELSE /\ at' = IF s = "set_config" THEN "wait" ELSE StepAfter(s)
         /\ UNCHANGED attempt

Fail(s) ==
    /\ at = s
    /\ \/ UNCHANGED device
       \/ Answers(s) /\ DeviceActs(s)
    /\ AfterFailure(s)
    /\ UNCHANGED <<captures, desc>>

\* desc.speed = usb_host_device_speed(): of whatever is on the port by now.
StampSpeed ==
    /\ at = "speed"
    /\ desc' = [desc EXCEPT !["speed"] = IF plugged THEN session ELSE 0]
    /\ at' = "relay"
    /\ UNCHANGED <<device, attempt, captures>>

\* The host waits for a device, or relays and never captures again.
Loop ==
    /\ at \in {"wait", "relay"}
    /\ UNCHANGED vars

Next ==
    \/ Plug \/ Unplug
    \/ Begin \/ PortReset \/ Settle \/ StampSpeed \/ Loop
    \/ \E i \in DOMAIN Steps : Succeed(Steps[i]) \/ Fail(Steps[i])

-----------------------------------------------------------------------------
TypeOK ==
    /\ session \in 0 .. MaxSessions /\ address \in {"none", "default", "assigned"}
    /\ plugged \in BOOLEAN /\ configured \in BOOLEAN
    /\ at \in {"wait", "reset", "settle", "speed", "relay"}
              \cup {Steps[i] : i \in DOMAIN Steps}
    /\ attempt \in 0 .. Attempts /\ captures \in 0 .. MaxCaptures
    /\ desc \in [Fields -> 0 .. MaxSessions]

\* A capture that succeeds describes one device, however often devices were swapped
\* while it ran: the parts it needs come from one attachment, the optional ones from
\* the same or are absent (desc_capture.c:257-336, 372-466), and if that attachment
\* still lasts the device has its address and is configured, so that polling it works.
\* The speed is no part of the promise: it is read last, from whatever is plugged in.
CloneOfOneDevice ==
    at \in {"speed", "relay"} =>
        /\ \A p, q \in Required : desc[p] = desc[q] /\ desc[p] > 0
        /\ \A p \in Optional : desc[p] \in {0, desc["config"]}
        /\ plugged /\ session = desc["config"] => address = "assigned" /\ configured
=============================================================================
