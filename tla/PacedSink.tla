------------------------------ MODULE PacedSink ------------------------------
(***************************************************************************)
(* How the datagrams of a rekey leave one peer: straight to the socket, or *)
(* through hs_send, the bounded channel that only the paced slots of the   *)
(* outbound loop empty (HandshakeSink).  The initiator's driver picks its  *)
(* sink once, when it starts; the inbound loop, which waits for its sends  *)
(* in line, reads paced_state for every Response.  A live switch changes   *)
(* paced and paced_state under both.                                       *)
(*                                                                         *)
(* Handshake messages count as FRAGS datagrams each on the way out; on the *)
(* way in a message is one element of hs_rx.                               *)
(***************************************************************************)
EXTENDS Integers

CONSTANTS
    FRAGS,              \* datagrams of a handshake message: 8 of 1024 bytes
    SEND_CAP,           \* capacity of hs_send: 16 datagrams
    HS_CHANNEL,         \* capacity of hs_rx, in messages
    MAX_REKEY_RETRIES,  \* 4
    pace_burst,         \* datagrams per slot
    StartPaced,         \* whether the tunnel starts paced
    Targets,            \* the values a live switch may set paced to
    MaxSwitches,        \* bound: live switches
    MaxRekeys,          \* bound: rekeys this peer starts
    MaxInbound          \* bound: handshake messages from the peer

VARIABLES
    paced,      \* the outbound loop's flag; paced_state mirrors it in the same arm
    hs_send,    \* number of datagrams queued for paced slots
    driver,     \* the rekey future: pc, its sink, datagrams left to send, attempt
    inbound,    \* the inbound loop: pc, the sink and datagrams left of a Response
    hs_rx,      \* number of messages forwarded to the driver
    switches, rekeys, arrived

vars == <<paced, hs_send, driver, inbound, hs_rx, switches, rekeys, arrived>>

Off  == [pc |-> "off", sink |-> "Direct", left |-> 0, attempt |-> 0]
Recv == [pc |-> "recv", sink |-> "Direct", left |-> 0]

Init ==
    /\ paced = StartPaced
    /\ hs_send = 0
    /\ driver = Off
    /\ inbound = Recv
    /\ hs_rx = 0
    /\ switches = 0 /\ rekeys = 0 /\ arrived = 0

SinkNow == IF paced THEN "Paced" ELSE "Direct"

\* HandshakeSink::send of one datagram: the paced channel makes its caller wait when full.
SinkSend(sink) ==
    \/ sink = "Direct" /\ UNCHANGED hs_send
    \/ sink = "Paced" /\ hs_send < SEND_CAP /\ hs_send' = hs_send + 1

------------------------------------------------------------------------------
\* The paced tick arm: queued fragments take the slot's datagrams first.
Tick ==
    /\ paced /\ hs_send > 0
    /\ hs_send' = IF hs_send > pace_burst THEN hs_send - pace_burst ELSE 0
    /\ UNCHANGED <<paced, driver, inbound, hs_rx, switches, rekeys, arrived>>

\* The live switch sets paced and paced_state; hs_send is left as it is.
Switch(t) ==
    /\ switches < MaxSwitches
    /\ switches' = switches + 1
    /\ paced' = t
    /\ UNCHANGED <<hs_send, driver, inbound, hs_rx, rekeys, arrived>>

\* The rekey trigger, with no driver running.
StartRekey ==
    /\ driver.pc = "off"
    /\ rekeys < MaxRekeys
    /\ rekeys' = rekeys + 1
    /\ driver' = [pc |-> "init", sink |-> SinkNow, left |-> FRAGS, attempt |-> 1]
    /\ UNCHANGED <<paced, hs_send, inbound, hs_rx, switches, arrived>>

\* The next datagram of the Init, or of the Confirm that ends the rekey.
DriverSend ==
    /\ driver.pc \in {"init", "confirm"}
    /\ SinkSend(driver.sink)
    /\ driver' = IF driver.left > 1 THEN [driver EXCEPT !.left = @ - 1]
                 ELSE IF driver.pc = "init" THEN [driver EXCEPT !.pc = "wait", !.left = 0]
                 ELSE Off
    /\ UNCHANGED <<paced, inbound, hs_rx, switches, rekeys, arrived>>

\* A forwarded message: the Response leads to the Confirm, anything else to an error.
DriverReceive ==
    /\ driver.pc = "wait" /\ hs_rx > 0
    /\ hs_rx' = hs_rx - 1
    /\ \/ driver' = [driver EXCEPT !.pc = "confirm", !.left = FRAGS]
       \/ driver' = Off
    /\ UNCHANGED <<paced, hs_send, inbound, switches, rekeys, arrived>>

\* PER_ATTEMPT_TIMEOUT, which covers the wait but none of the sends.
DriverTimeout ==
    /\ driver.pc = "wait"
    /\ driver' = IF driver.attempt < MAX_REKEY_RETRIES
                 THEN [driver EXCEPT !.pc = "init", !.left = FRAGS, !.attempt = @ + 1]
                 ELSE Off
    /\ UNCHANGED <<paced, hs_send, inbound, hs_rx, switches, rekeys, arrived>>

\* A handshake message arrives: forwarded to a running driver, else an Init to answer
\* or one that needs no answer.
Arrive ==
    /\ inbound.pc = "recv"
    /\ arrived < MaxInbound
    /\ arrived' = arrived + 1
    /\ \/ /\ driver.pc # "off"
          /\ inbound' = [Recv EXCEPT !.pc = "forward"]
       \/ /\ driver.pc = "off"
          /\ inbound' = [pc |-> "respond", sink |-> SinkNow, left |-> FRAGS]
       \/ /\ driver.pc = "off"
          /\ UNCHANGED inbound
    /\ UNCHANGED <<paced, hs_send, driver, hs_rx, switches, rekeys>>

\* hs_tx.send goes through.
Forward ==
    /\ inbound.pc = "forward" /\ hs_rx < HS_CHANNEL
    /\ hs_rx' = hs_rx + 1
    /\ inbound' = Recv
    /\ UNCHANGED <<paced, hs_send, driver, switches, rekeys, arrived>>

\* rekey_as_responder sends the next datagram of the Response, awaited in line.
ResponderSend ==
    /\ inbound.pc = "respond"
    /\ SinkSend(inbound.sink)
    /\ inbound' = IF inbound.left > 1 THEN [inbound EXCEPT !.left = @ - 1] ELSE Recv
    /\ UNCHANGED <<paced, driver, hs_rx, switches, rekeys, arrived>>

Driver  == DriverSend \/ DriverReceive \/ DriverTimeout
Inbound == Forward \/ ResponderSend

Next ==
    \/ Tick \/ StartRekey \/ Driver \/ Arrive \/ Inbound
    \/ \E t \in Targets : Switch(t)

\* The interval keeps ticking and tokio polls what can go on; rekeys, arrivals and
\* switches need not happen.
Spec == Init /\ [][Next]_vars /\ WF_vars(Tick) /\ SF_vars(Driver) /\ SF_vars(Inbound)

------------------------------------------------------------------------------
TypeOK ==
    /\ paced \in BOOLEAN
    /\ hs_send \in 0 .. SEND_CAP /\ hs_rx \in 0 .. HS_CHANNEL
    /\ driver \in [pc : {"off", "init", "wait", "confirm"}, sink : {"Direct", "Paced"},
                   left : 0 .. FRAGS, attempt : 0 .. MAX_REKEY_RETRIES]
    /\ inbound \in [pc : {"recv", "forward", "respond"}, sink : {"Direct", "Paced"},
                    left : 0 .. FRAGS]
    /\ switches \in 0 .. MaxSwitches /\ rekeys \in 0 .. MaxRekeys /\ arrived \in 0 .. MaxInbound

(***************************************************************************)
(* A rekey that was started returns, so that the rekeying flag and the     *)
(* claim are freed (rekey_as_initiator: bounded retry, a total time of     *)
(* MAX_REKEY_RETRIES * PER_ATTEMPT_TIMEOUT), though its datagrams wait for *)
(* room in hs_send, which the next available slots are to make.            *)
(***************************************************************************)
RekeyReturns == driver.pc # "off" ~> driver.pc = "off"
=============================================================================
