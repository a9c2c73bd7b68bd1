----------------------------- MODULE OutboundLoop -----------------------------
(***************************************************************************)
(* The outbound half of run_tunnel_loops: the drain loop that reads the    *)
(* TUN, the rayon seals it dispatches, the three tasks that write to the   *)
(* socket (run_sequential_sender, the send_tx task and the paced slots of  *)
(* the loop itself), the live traffic switch between paced and not, and    *)
(* the frames that other tasks seal and send on their own (keepalives and  *)
(* profile announcements).                                                 *)
(*                                                                         *)
(* A packet is its position in TUN order, a datagram its AEAD counter.     *)
(* The counters are those of one session.  Handshake fragments in paced    *)
(* slots carry no counter: they are in module PacedSink.                   *)
(***************************************************************************)
EXTENDS Integers, Sequences, SequencesExt

CONSTANTS
    MAX_BATCH,              \* 256: packets of one recv_many
    MAX_QUEUE,              \* 4096: packets staged under pacing
    SEND_PIPELINE_BATCHES,  \* 16: capacity of the order and send channels
    WINDOW_BITS,            \* 2048: the peer's replay window
    pace_burst,             \* datagrams per slot
    Starts,                 \* what paced may be when the tunnel starts
    Targets,                \* the values a live switch may set paced to
    MaxPackets,             \* bound: packets read from the TUN
    MaxSlots,               \* bound: paced slots
    MaxSwitches,            \* bound: live switches
    MaxDirect               \* bound: keepalives and profile frames

ASSUME OutboundAssumption ==
    /\ {MAX_BATCH, MAX_QUEUE, SEND_PIPELINE_BATCHES, WINDOW_BITS, pace_burst} \subseteq Nat \ {0}
    /\ Starts \subseteq BOOLEAN /\ Targets \subseteq BOOLEAN
    /\ {MaxPackets, MaxSlots, MaxSwitches, MaxDirect} \subseteq Nat

Filler == 0                   \* what a cover, keepalive or profile datagram carries
None   == [ctrs |-> <<>>, done |-> FALSE]

VARIABLES
    paced,      \* the loop's local flag
    pending,    \* packets staged for the paced slots
    sealed,     \* sealed[c]: the packet that was given counter c
    loop,       \* where the drain loop is: its await, and what it holds there
    order,      \* the reserve-order channel: batches, sealed or still at rayon
    sender,     \* run_sequential_sender: its phase and its pending receiver
    hand,       \* the wires run_sequential_sender has gathered
    send_q,     \* the send_tx channel: batches of wires
    pipe,       \* the wires the send_tx task has in hand
    frame,      \* a keepalive or profile frame that is sealed and not yet sent
    wire,       \* history: the counters in the order the socket got them
    read,       \* number of packets read from the TUN
    slots,      \* number of paced slots
    switches,   \* number of live switches
    direct      \* number of directly sent frames

vars == <<paced, pending, sealed, loop, order, sender, hand, send_q, pipe, frame,
          wire, read, slots, switches, direct>>

Select == [at |-> "select", wires |-> <<>>, rx |-> None, to |-> FALSE]

Init ==
    /\ paced \in Starts
    /\ pending = <<>>
    /\ sealed = <<>>
    /\ loop = Select
    /\ order = <<>>
    /\ sender = [phase |-> "await", rx |-> None]
    /\ hand = <<>>
    /\ send_q = <<>>
    /\ pipe = <<>>
    /\ frame = <<>>
    /\ wire = <<>>
    /\ read = 0 /\ slots = 0 /\ switches = 0 /\ direct = 0

\* The next n integers above k, in order.
Upto(k, n) == [i \in 1 .. n |-> k + i]

\* The counters that sealing the packets of sequence s takes.
CountersFor(s) == Upto(Len(sealed), Len(s))

------------------------------------------------------------------------------
\* recv_many while paced: stage what fits, drop the rest.
DrainPaced(n) ==
    /\ paced
    /\ pending' = pending \o Upto(read, Min({n, MAX_QUEUE - Len(pending)}))
    /\ UNCHANGED <<sealed, loop>>

\* recv_many while not paced: dispatch_seal reserves the counters, then the loop
\* waits for room in the order channel.
DrainDirect(n) ==
    /\ ~paced
    /\ sealed' = sealed \o Upto(read, n)
    /\ loop' = [Select EXCEPT !.at = "order",
                    !.rx = [ctrs |-> CountersFor(Upto(read, n)), done |-> FALSE]]
    /\ UNCHANGED pending

RecvMany ==
    /\ loop.at = "select"
    /\ \E n \in 1 .. MAX_BATCH :
         /\ read + n <= MaxPackets
         /\ read' = read + n
         /\ DrainPaced(n) \/ DrainDirect(n)
    /\ UNCHANGED <<paced, order, sender, hand, send_q, pipe, frame, wire, slots, switches,
                   direct>>

\* order_tx.send(rx) goes through.
OrderSend ==
    /\ loop.at = "order"
    /\ Len(order) < SEND_PIPELINE_BATCHES
    /\ order' = Append(order, loop.rx)
    /\ loop' = Select
    /\ UNCHANGED <<paced, pending, sealed, sender, hand, send_q, pipe, frame, wire, read,
                   slots, switches, direct>>

\* A paced slot: real packets first, cover when the pacer asks for it, in one burst.
Tick ==
    /\ loop.at = "select"
    /\ paced
    /\ slots < MaxSlots
    /\ \E cover \in 0 .. pace_burst :
         LET n == Min({Len(pending), pace_burst})
             s == SubSeq(pending, 1, n) \o [i \in 1 .. cover |-> Filler]
         IN /\ 0 < Len(s) /\ Len(s) <= pace_burst
            /\ pending' = SubSeq(pending, n + 1, Len(pending))
            /\ sealed' = sealed \o s
            /\ loop' = [Select EXCEPT !.at = "slot", !.wires = CountersFor(s)]
    /\ slots' = slots + 1
    /\ UNCHANGED <<paced, order, sender, hand, send_q, pipe, frame, wire, read, switches,
                   direct>>

\* The socket takes the next datagram of the slot.
SlotSend ==
    /\ loop.at = "slot"
    /\ wire' = Append(wire, Head(loop.wires))
    /\ loop' = IF Len(loop.wires) = 1 THEN Select
               ELSE [loop EXCEPT !.wires = Tail(@)]
    /\ UNCHANGED <<paced, pending, sealed, order, sender, hand, send_q, pipe, frame, read,
                   slots, switches, direct>>

------------------------------------------------------------------------------
(***************************************************************************)
(* The live switch.  To paced: wait until the send channel is empty.  From *)
(* paced: seal the residue of pending and put it into the send channel.    *)
(***************************************************************************)

\* Plausible slip: the residue is left for later, to be sealed after newer packets.
Switch_KeepsResidue(t) ==
    /\ loop.at = "select"
    /\ switches < MaxSwitches
    /\ switches' = switches + 1
    /\ paced' = t
    /\ UNCHANGED <<pending, sealed, loop, order, sender, hand, send_q, pipe, frame, wire,
                   read, slots, direct>>

Switch(t) ==
    /\ loop.at = "select"
    /\ switches < MaxSwitches
    /\ switches' = switches + 1
    /\ \/ /\ ~paced /\ t
          /\ loop' = [Select EXCEPT !.at = "drain", !.to = t]
          /\ UNCHANGED <<paced, pending, sealed>>
       \/ /\ paced /\ ~t /\ pending # <<>>
          /\ sealed' = sealed \o pending
          /\ loop' = [Select EXCEPT !.at = "residue", !.wires = CountersFor(pending), !.to = t]
          /\ pending' = <<>>
          /\ UNCHANGED paced
       \/ /\ paced = t \/ (paced /\ pending = <<>>)
          /\ paced' = t
          /\ UNCHANGED <<pending, sealed, loop>>
    /\ UNCHANGED <<order, sender, hand, send_q, pipe, frame, wire, read, slots, direct>>

\* send_tx.capacity() is back at its maximum.
Drained ==
    /\ loop.at = "drain"
    /\ send_q = <<>>
    /\ paced' = loop.to
    /\ loop' = Select
    /\ UNCHANGED <<pending, sealed, order, sender, hand, send_q, pipe, frame, wire, read,
                   slots, switches, direct>>

\* Plausible slip: the switch is applied and the residue shipped by the next wake-up again.
ResidueSend_Twice ==
    /\ loop.at = "residue"
    /\ Len(send_q) < SEND_PIPELINE_BATCHES
    /\ send_q' = Append(send_q, loop.wires)
    /\ paced' = loop.to
    /\ loop' = IF paced THEN loop ELSE Select
    /\ UNCHANGED <<pending, sealed, order, sender, hand, pipe, frame, wire, read, slots,
                   switches, direct>>

\* send_tx.send(wires) goes through.
ResidueSend ==
    /\ loop.at = "residue"
    /\ Len(send_q) < SEND_PIPELINE_BATCHES
    /\ send_q' = Append(send_q, loop.wires)
    /\ paced' = loop.to
    /\ loop' = Select
    /\ UNCHANGED <<pending, sealed, order, sender, hand, pipe, frame, wire, read, slots,
                   switches, direct>>

------------------------------------------------------------------------------
\* A rayon worker finishes a seal, or fails and yields nothing, wherever its receiver is.
Finish(b, ok) == [ctrs |-> IF ok THEN b.ctrs ELSE <<>>, done |-> TRUE]

SealDone(ok) ==
    /\ \/ \E i \in 1 .. Len(order) :
            /\ ~order[i].done
            /\ order' = [order EXCEPT ![i] = Finish(@, ok)]
            /\ UNCHANGED <<sender, loop>>
       \/ /\ sender.rx # None /\ ~sender.rx.done
          /\ sender' = [sender EXCEPT !.rx = Finish(@, ok)]
          /\ UNCHANGED <<order, loop>>
       \/ /\ loop.at = "order" /\ ~loop.rx.done
          /\ loop' = [loop EXCEPT !.rx = Finish(@, ok)]
          /\ UNCHANGED <<order, sender>>
    /\ UNCHANGED <<paced, pending, sealed, hand, send_q, pipe, frame, wire, read, slots,
                   switches, direct>>

(***************************************************************************)
(* run_sequential_sender: take the next receiver, await its seal, gather   *)
(* what is ready behind it without waiting, flush.                         *)
(***************************************************************************)
SenderRecv ==
    /\ sender.phase = "await" /\ sender.rx = None
    /\ order # <<>>
    /\ sender' = [sender EXCEPT !.rx = Head(order)]
    /\ order' = Tail(order)
    /\ UNCHANGED <<paced, pending, sealed, loop, hand, send_q, pipe, frame, wire, read,
                   slots, switches, direct>>

\* Plausible slip: the task ends at the first failed seal.
SenderAwait_StopOnError ==
    /\ sender.phase = "await" /\ sender.rx.done /\ sender.rx.ctrs # <<>>
    /\ hand' = sender.rx.ctrs
    /\ sender' = [phase |-> "gather", rx |-> None]
    /\ UNCHANGED <<paced, pending, sealed, loop, order, send_q, pipe, frame, wire, read, slots,
                   switches, direct>>

\* Plausible slip: a later batch that is ready does not wait for the one in hand.
SenderAwait_AnyReady ==
    /\ sender.phase = "await"
    /\ \/ /\ sender.rx.done
          /\ hand' = sender.rx.ctrs
          /\ sender' = [phase |-> "gather", rx |-> None]
          /\ UNCHANGED order
       \/ /\ ~sender.rx.done /\ order # <<>> /\ Head(order).done
          /\ hand' = Head(order).ctrs
          /\ order' = Tail(order)
          /\ sender' = [sender EXCEPT !.phase = "flush"]
    /\ UNCHANGED <<paced, pending, sealed, loop, send_q, pipe, frame, wire, read, slots,
                   switches, direct>>

SenderAwait ==
    /\ sender.phase = "await" /\ sender.rx.done
    /\ hand' = sender.rx.ctrs
    /\ sender' = [phase |-> "gather", rx |-> None]
    /\ UNCHANGED <<paced, pending, sealed, loop, order, send_q, pipe, frame, wire, read,
                   slots, switches, direct>>

SenderGather ==
    /\ sender.phase = "gather"
    /\ \/ /\ order = <<>>
          /\ sender' = [sender EXCEPT !.phase = "flush"]
          /\ UNCHANGED <<order, hand>>
       \/ /\ order # <<>> /\ Head(order).done
          /\ hand' = hand \o Head(order).ctrs
          /\ order' = Tail(order)
          /\ UNCHANGED sender
       \/ /\ order # <<>> /\ ~Head(order).done
          /\ sender' = [phase |-> "flush", rx |-> Head(order)]
          /\ order' = Tail(order)
          /\ UNCHANGED hand
    /\ UNCHANGED <<paced, pending, sealed, loop, send_q, pipe, frame, wire, read, slots,
                   switches, direct>>

SenderFlush ==
    /\ sender.phase = "flush"
    /\ IF hand = <<>>
       THEN sender' = [sender EXCEPT !.phase = "await"] /\ UNCHANGED <<hand, wire>>
       ELSE /\ wire' = Append(wire, Head(hand))
            /\ hand' = Tail(hand)
            /\ UNCHANGED sender
    /\ UNCHANGED <<paced, pending, sealed, loop, order, send_q, pipe, frame, read, slots,
                   switches, direct>>

\* The send_tx task: pop a batch, send its wires.
PipeTake ==
    /\ pipe = <<>> /\ send_q # <<>>
    /\ pipe' = Head(send_q)
    /\ send_q' = Tail(send_q)
    /\ UNCHANGED <<paced, pending, sealed, loop, order, sender, hand, frame, wire, read,
                   slots, switches, direct>>

PipeSend ==
    /\ pipe # <<>>
    /\ wire' = Append(wire, Head(pipe))
    /\ pipe' = Tail(pipe)
    /\ UNCHANGED <<paced, pending, sealed, loop, order, sender, hand, send_q, frame, read,
                   slots, switches, direct>>

\* The keepalive task, or a delayed profile announcement: seal one frame, then send it.
DirectSeal ==
    /\ direct < MaxDirect
    /\ frame = <<>>
    /\ direct' = direct + 1
    /\ sealed' = Append(sealed, Filler)
    /\ frame' = <<Len(sealed) + 1>>
    /\ UNCHANGED <<paced, pending, loop, order, sender, hand, send_q, pipe, wire, read, slots,
                   switches>>

DirectSend ==
    /\ frame # <<>>
    /\ wire' = wire \o frame
    /\ frame' = <<>>
    /\ UNCHANGED <<paced, pending, sealed, loop, order, sender, hand, send_q, pipe, read, slots,
                   switches, direct>>

LoopAwait == OrderSend \/ SlotSend \/ Drained \/ ResidueSend
Sender    == SenderRecv \/ SenderAwait \/ SenderGather \/ SenderFlush
Pipe      == PipeTake \/ PipeSend

Next ==
    \/ RecvMany \/ Tick \/ LoopAwait
    \/ \E t \in Targets : Switch(t)
    \/ \E ok \in BOOLEAN : SealDone(ok)
    \/ Sender \/ Pipe \/ DirectSeal \/ DirectSend

\* Tokio polls every task that can go on, rayon finishes every seal, and sends return.
Fairness ==
    /\ WF_vars(LoopAwait)
    /\ WF_vars(\E ok \in BOOLEAN : SealDone(ok))
    /\ WF_vars(Sender)
    /\ WF_vars(Pipe)
    /\ WF_vars(DirectSend)

Spec == Init /\ [][Next]_vars /\ Fairness

------------------------------------------------------------------------------
MaxCounter == MaxPackets + MaxSlots * pace_burst + MaxDirect
Counters   == 1 .. MaxCounter

\* A counter that has been reserved.
Reserved == 1 .. Len(sealed)
Batch    == [ctrs : Seq(Reserved), done : BOOLEAN]

TypeOK ==
    /\ paced \in BOOLEAN
    /\ pending \in Seq(1 .. read) /\ Len(pending) <= MAX_QUEUE
    /\ sealed \in Seq(0 .. read)
    /\ loop \in [at : {"select", "order", "slot", "drain", "residue"}, wires : Seq(Reserved),
                 rx : Batch, to : BOOLEAN]
    /\ order \in Seq(Batch) /\ Len(order) <= SEND_PIPELINE_BATCHES
    /\ sender \in [phase : {"await", "gather", "flush"}, rx : Batch]
    /\ send_q \in Seq(Seq(Reserved)) /\ Len(send_q) <= SEND_PIPELINE_BATCHES
    /\ {hand, pipe, frame, wire} \subseteq Seq(Reserved)
    /\ read \in 0 .. MaxPackets /\ slots \in 0 .. MaxSlots
    /\ switches \in 0 .. MaxSwitches /\ direct \in 0 .. MaxDirect

(***************************************************************************)
(* Where a sealed datagram may be: in the slot or the batch that the loop  *)
(* holds, in the channels, with the sender tasks, and on the wire.  The    *)
(* channels are several batches deep.                                      *)
(***************************************************************************)
Kinds == {"slot", "batch", "order", "awaited", "hand", "send_q", "pipe", "frame", "wire"}

Depth(k) == CASE k = "order"  -> Len(order)
              [] k = "send_q" -> Len(send_q)
              [] OTHER        -> 1

Held(k, n) == CASE k = "slot"    -> loop.wires
                [] k = "batch"   -> loop.rx.ctrs
                [] k = "order"   -> order[n].ctrs
                [] k = "awaited" -> sender.rx.ctrs
                [] k = "hand"    -> hand
                [] k = "send_q"  -> send_q[n]
                [] k = "pipe"    -> pipe
                [] k = "frame"   -> frame
                [] k = "wire"    -> wire

Spots == UNION {UNION {{<<k, n, i>> : i \in 1 .. Len(Held(k, n))} : n \in 1 .. Depth(k)} :
                   k \in Kinds}
At(s) == Held(s[1], s[2])[s[3]]

InFlight ==
    UNION {Range(q) : q \in {loop.wires, loop.rx.ctrs, sender.rx.ctrs, hand, pipe, frame}}
        \cup UNION {Range(order[i].ctrs) : i \in 1 .. Len(order)}
        \cup UNION {Range(send_q[i]) : i \in 1 .. Len(send_q)}

(***************************************************************************)
(* Without a switch the socket gets the datagrams in counter order,        *)
(* whatever order rayon finishes the seals in (dispatch_seal reserves      *)
(* first, run_sequential_sender drains FIFO).  Once other writers have     *)
(* sent frames of their own it is still so of the packets.                 *)
(***************************************************************************)
WireOrdered ==
    switches = 0 =>
        \A i, j \in 1 .. Len(wire) :
            /\ i < j
            /\ direct > 0 => sealed[wire[i]] # Filler /\ sealed[wire[j]] # Filler
            => wire[i] < wire[j]

(***************************************************************************)
(* Real packets are given counters in the order they were read, across     *)
(* live switches in both directions: the residue of the paced queue is     *)
(* sealed before anything newer.                                           *)
(***************************************************************************)
SealedInReadOrder ==
    \A i, j \in 1 .. Len(sealed) :
        i < j /\ sealed[i] # Filler /\ sealed[j] # Filler => sealed[i] < sealed[j]

(***************************************************************************)
(* A sealed datagram is in one place: in the hands of one task or on the   *)
(* wire, and sent once.  A second send of a counter is a replay for the    *)
(* peer, and a second hand-off of a residue would be one.                  *)
(***************************************************************************)
OnePlace == \A s, t \in Spots : At(s) = At(t) => s = t

\* Every datagram that has a counter leaves the pipeline, by the socket or a failed seal.
Delivered == \A c \in Counters : c \in InFlight ~> c \notin InFlight

(***************************************************************************)
(* No datagram reaches the socket after one whose counter is so much       *)
(* higher that the peer's replay window has moved past it.  Not so under   *)
(* live switches: see the README.                                          *)
(***************************************************************************)
InWindow ==
    \A i, j \in 1 .. Len(wire) : i < j => wire[i] - wire[j] < WINDOW_BITS
=============================================================================
