------------------------------ MODULE Ep0Host ------------------------------
(***************************************************************************)
(* The wire of endpoint 0 and the PC at its other end, with the variables  *)
(* the two device drivers (Ep0Fs, Ep0Hs) share.  A transaction ends in an  *)
(* interrupt; until the handler has run the controller answers nothing.    *)
(* The acknowledgement of any transaction may be lost: the side that       *)
(* waited for it then repeats what the other has already had.  A lost data *)
(* packet changes neither side.                                            *)
(***************************************************************************)
EXTENDS Integers, Sequences

CONSTANTS Mps,       \* s_ep0_mps: bytes in a packet
          Size,      \* bytes of each descriptor served and of each SET_REPORT
          BufMax,    \* EP0_RPT_BUF_MAX: bytes of the capture buffer
          Requests,  \* what the PC may ask: [kind, item, len]
          MaxRequests, MaxLost, MaxAborts  \* bounds: requests, lost ACKs, early time-outs

VARIABLES
    \* the PC
    stage,     \* of the control transfer under way, "idle" between two
    req,       \* its SETUP packet
    got,       \* bytes read
    sent,      \* packets written
    pcTog,     \* toggle of the next packet
    pcAddr,    \* the address it uses for the device
    requests, lost, aborts,  \* so far
    unheard,   \* lost ACKs of the packet it is writing
    repeated,  \* history: how often it repeated one packet of this transfer
    \* the controller
    irq,       \* the transaction whose interrupt waits for the handler
    togOk,     \* the toggle match it reports of an OUT packet
    packet,    \* what lies in the endpoint's DMA buffer after a SETUP or an OUT
    tx, rx,    \* UEP0_TX_CTRL with the packet armed, UEP0_RX_CTRL
    addr,      \* DEV_ADDR
    \* the driver
    setup,     \* SetupReqType, SetupReqCode, SetupReqValue
    reqLen,    \* SetupReqLen
    descr,     \* pUSBFS_Descr, as the bytes still ahead of it
    newAddr,   \* DevAddr
    capturing, pending, captured, value,  \* s_ep0_rpt_*
    excused    \* history: the PC repeated more than the driver copes with

pc == <<stage, req, got, sent, pcTog, pcAddr, requests, lost, aborts, unheard, repeated>>
wire == <<irq, togOk, packet>>
capture == <<capturing, pending, captured, value>>
driver == <<setup, reqLen, descr, newAddr, capture, excused>>
vars == <<pc, wire, tx, rx, addr, driver>>

None == [kind |-> "none", item |-> "none", len |-> 0]
Min2(a, b) == IF a < b THEN a ELSE b
FirstOf(n, s) == SubSeq(s, 1, Min2(n, Len(s)))
After(n, s) == SubSeq(s, n + 1, Len(s))
Bytes(item) == [i \in 1 .. Size[item] |-> <<item, i>>]

\* The packet number n of a SET_REPORT.
WritePacket(n) == FirstOf(Mps, After((n - 1) * Mps, FirstOf(req.len, Bytes(req.item))))

DataStage(r) ==
    IF r.kind = "get" THEN "in"
    ELSE IF r.kind = "set" THEN "out" ELSE "statusIn"

Reached == irq = "none" /\ addr = pcAddr

-----------------------------------------------------------------------------
\* The PC

Begin(r) ==
    /\ stage = "idle" /\ requests < MaxRequests
    /\ stage' = "setup" /\ req' = r /\ requests' = requests + 1
    /\ UNCHANGED <<got, sent, pcTog, pcAddr, lost, aborts, unheard, repeated, wire, tx,
                   rx, addr, driver>>

\* A lost acknowledgement, of which there are few.
Heard(yes) ==
    IF yes THEN lost' = lost ELSE lost < MaxLost /\ lost' = lost + 1

Setup(heard) ==
    /\ stage = "setup" /\ Reached
    /\ irq' = "setup" /\ packet' = req
    /\ got' = <<>> /\ sent' = 0 /\ pcTog' = 1 /\ unheard' = 0 /\ repeated' = 0
    /\ Heard(heard)
    /\ stage' = IF heard THEN DataStage(req) ELSE stage
    /\ UNCHANGED <<req, pcAddr, requests, aborts, togOk, tx, rx, addr, driver>>

\* An IN the endpoint answers with data.  A repeat, by its toggle, is dropped.
In(heard) ==
    /\ stage \in {"in", "statusIn"} /\ Reached /\ tx.resp = "ACK"
    /\ LET fresh == tx.tog = pcTog
           all == IF fresh THEN got \o tx.data ELSE got
           over == fresh /\ (Len(tx.data) < Mps \/ Len(all) >= req.len)
       IN  /\ got' = all
           /\ stage' = IF stage = "in"
                       THEN IF over THEN "statusOut" ELSE "in"
                       ELSE IF fresh THEN "idle" ELSE stage
           /\ pcTog' = IF over THEN 1 ELSE IF fresh THEN 1 - pcTog ELSE pcTog
           /\ pcAddr' = IF stage = "statusIn" /\ fresh /\ req.kind = "address"
                        THEN req.len ELSE pcAddr
    /\ irq' = IF heard THEN "in" ELSE irq
    /\ Heard(heard)
    /\ UNCHANGED <<req, sent, requests, aborts, unheard, repeated, togOk, packet, tx, rx,
                   addr, driver>>

\* An OUT the endpoint acknowledges: data of a SET_REPORT or the empty status.
Out(heard) ==
    /\ stage \in {"out", "statusOut"} /\ Reached /\ rx.resp = "ACK"
    /\ irq' = "out" /\ togOk' = (rx.tog = pcTog)
    /\ packet' = IF stage = "out" THEN WritePacket(sent + 1) ELSE <<>>
    /\ Heard(heard)
    /\ IF heard
       THEN LET last == stage = "statusOut" \/ (sent + 1) * Mps >= req.len
            IN  /\ sent' = sent + 1
                /\ stage' = IF stage = "statusOut" THEN "idle"
                            ELSE IF last THEN "statusIn" ELSE "out"
                /\ pcTog' = IF last THEN 1 ELSE 1 - pcTog
                /\ unheard' = 0
       ELSE unheard' = unheard + 1 /\ UNCHANGED <<sent, stage, pcTog>>
    /\ repeated' = IF unheard > repeated THEN unheard ELSE repeated
    /\ UNCHANGED <<req, got, pcAddr, requests, aborts, tx, rx, addr, driver>>

\* A STALL ends the transfer.
Refused ==
    /\ Reached
    /\ \/ stage \in {"in", "statusIn"} /\ tx.resp = "STALL"
       \/ stage \in {"out", "statusOut"} /\ rx.resp = "STALL"
    /\ stage' = "idle"
    /\ UNCHANGED <<req, got, sent, pcTog, pcAddr, requests, lost, aborts, unheard,
                   repeated, wire, tx, rx, addr, driver>>

\* The endpoint answers NAK where the PC waits.
Naked ==
    \/ stage \in {"in", "statusIn"} /\ tx.resp = "NAK"
    \/ stage \in {"out", "statusOut"} /\ rx.resp = "NAK"

\* The PC's time-out: it asks again from the SETUP, or for something else.
TimeOut(r) ==
    /\ stage \notin {"idle", "setup"} /\ Reached
    /\ IF Naked THEN aborts' = aborts ELSE aborts < MaxAborts /\ aborts' = aborts + 1
    /\ r # req => requests < MaxRequests
    /\ requests' = IF r = req THEN requests ELSE requests + 1
    /\ stage' = "setup" /\ req' = r
    /\ UNCHANGED <<got, sent, pcTog, pcAddr, lost, unheard, repeated, wire, tx, rx, addr,
                   driver>>

\* The relay has replayed the captured SET_REPORT and releases the buffer
\* (poll_ep0_report to ep0_report_done; UsbDevice takes its steps apart).
Release ==
    /\ pending /\ captured # <<>>
    /\ pending' = FALSE /\ captured' = <<>>
    /\ UNCHANGED <<pc, wire, tx, rx, addr, setup, reqLen, descr, newAddr, capturing,
                   value, excused>>

-----------------------------------------------------------------------------
\* Register values, and what the drivers do alike

Arm(data, tog) == [resp |-> "ACK", tog |-> tog, data |-> data]
ZeroLength == Arm(<<>>, 1)
Answer(resp, tog) == [resp |-> resp, tog |-> tog]
Idle(tog) == [resp |-> "NAK", tog |-> tog, data |-> <<>>]

\* The bus reset is heard by both at once; what it leaves the driver is the
\* driver's.  A PC that cannot reach its device resets it, too.
Reset ==
    /\ irq = "none"
    /\ IF addr # pcAddr \/ stage = "idle" THEN aborts' = aborts
       ELSE aborts < MaxAborts /\ aborts' = aborts + 1
    /\ stage = "idle" => addr # pcAddr
    /\ stage' = IF stage = "idle" THEN stage ELSE "setup"
    /\ pcAddr' = 0
    /\ UNCHANGED <<req, got, sent, pcTog, requests, lost, unheard, repeated, wire, setup,
                   reqLen, descr, value>>

Init ==
    /\ stage = "idle" /\ req = None /\ got = <<>> /\ sent = 0 /\ pcTog = 0
    /\ pcAddr = 0 /\ requests = 0 /\ lost = 0 /\ aborts = 0
    /\ unheard = 0 /\ repeated = 0
    /\ irq = "none" /\ togOk = FALSE /\ packet = <<>>
    /\ tx = Idle(0) /\ rx = Answer("ACK", 0)
    /\ addr = 0 /\ setup = None /\ reqLen = 0 /\ descr = <<>> /\ newAddr = 0
    /\ capturing = FALSE /\ pending = FALSE /\ captured = <<>> /\ value = "none"
    /\ excused = FALSE

Pc ==
    \/ \E r \in Requests : Begin(r) \/ TimeOut(r)
    \/ \E heard \in BOOLEAN : Setup(heard) \/ In(heard) \/ Out(heard)
    \/ Refused

-----------------------------------------------------------------------------
TypeOK ==
    /\ stage \in {"idle", "setup", "in", "out", "statusIn", "statusOut"}
    /\ req \in Requests \cup {None} /\ setup \in Requests \cup {None}
    /\ requests <= MaxRequests /\ lost <= MaxLost /\ aborts <= MaxAborts
    /\ unheard <= lost /\ repeated <= lost
    /\ irq \in {"none", "setup", "in", "out"} /\ togOk \in BOOLEAN
    /\ tx.resp \in {"ACK", "NAK", "STALL"} /\ Len(tx.data) <= Mps
    /\ rx.resp \in {"ACK", "NAK", "STALL"} /\ {tx.tog, rx.tog, pcTog} \subseteq {0, 1}
    /\ Len(captured) <= BufMax /\ reqLen \in Nat
    /\ setup.kind = "get" => reqLen <= Len(descr)
    /\ ~(capturing /\ pending) /\ excused \in BOOLEAN

\* Whatever is lost, repeated or abandoned, a descriptor the PC has read whole is
\* the one it asked for, cut to the length it asked for.
DescriptorWhole ==
    stage = "statusOut" => got = FirstOf(req.len, Bytes(req.item))

\* Once acknowledgements stop being lost and the PC stops giving up, it is done
\* with every request it makes, and with the device within its reach.
ControlFinishes == <>[](stage = "idle" /\ addr = pcAddr)
=============================================================================
