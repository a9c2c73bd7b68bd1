-------------------------------- MODULE Rekey --------------------------------
(***************************************************************************)
(* The mid-session rekey of two connected peers: the initiator driver of   *)
(* rekey.rs, the handshake demux of the inbound loop in tunnel_loops.rs    *)
(* (the only reader of the socket), the responder's two phases, and the    *)
(* current/previous sessions of SessionManager that both install into.     *)
(*                                                                         *)
(* A message travels as FRAGS fragments, which are lost, late and out of   *)
(* order one by one: the first has its type and its keys, the others its   *)
(* signature and MAC.  The noise that fills a message up is left out.      *)
(* A session is named by the Response that fixed its keys, since respond   *)
(* draws fresh ephemeral keys each time it runs; session 0 is the one of   *)
(* the initial handshake.  Signatures and MACs bind a Response to the Init *)
(* it answers and a Confirm to the Response it confirms.                   *)
(***************************************************************************)
EXTENDS Integers, Sequences

CONSTANTS
    Peers,              \* the two ends of the tunnel
    FRAGS,              \* fragments of a message
    HS_CHANNEL,         \* capacity of handshake_channel, in fragments
    Settings            \* the circumstances that are looked at, see below

(***************************************************************************)
(* A setting: whether obfuscation.handshake is on, the peers whose tx      *)
(* counter reaches the threshold, the types of message that may lose       *)
(* fragments, whether a fragment may be under way for longer than a timer, *)
(* MAX_REKEY_RETRIES (4 in rekey.rs), and the bounds on the number of      *)
(* rekeys and of Responses, over both peers.                               *)
(***************************************************************************)
ASSUME RekeyAssumption ==
    /\ \E a, b \in Peers : a # b /\ Peers = {a, b}
    /\ {FRAGS, HS_CHANNEL} \subseteq Nat \ {0}
    /\ \A s \in Settings :
          /\ s.initiators \subseteq Peers
          /\ s.loss \subseteq {"Init", "Response", "Confirm"}
          /\ {s.obf, s.slow} \subseteq BOOLEAN
          /\ s.retries \in Nat \ {0} /\ s.rekeys \in Nat /\ s.responses \in Nat

NoSession == -1
Sessions  == UNION {0 .. s.responses : s \in Settings}
Parts     == 1 .. FRAGS

Other(p) == CHOOSE q \in Peers : q # p

InitMsg(p, i)        == [type |-> "Init", to |-> Other(p), rekey |-> i, sess |-> NoSession]
ResponseMsg(p, i, s) == [type |-> "Response", to |-> Other(p), rekey |-> i, sess |-> s]
ConfirmMsg(p, i, s)  == [type |-> "Confirm", to |-> Other(p), rekey |-> i, sess |-> s]

VARIABLES
    setting,    \* the setting of this behaviour
    net,        \* datagrams under way
    current,    \* SessionManager.current
    previous,   \* SessionManager.previous, NoSession for None
    claimed,    \* SessionManager.rekey_in_progress
    driver,     \* rekey_fut of the outbound loop; rekeying is driver.pc # "off"
    reasm,      \* the Reassembler of the driver's attempt
    hs_rx,      \* the channel from the inbound loop to the driver
    blocked,    \* the fragment an inbound loop waits to put into a full hs_rx
    pending,    \* pending_rekey of the inbound loop: the session it would install
    rekey_reasm, rekey_confirm_reasm,    \* the Reassemblers of the inbound loop
    retiring,   \* schedule_retire timers that have not fired
    started,    \* number of rekeys started
    made,       \* number of Responses made
    finalized   \* history: sessions whose initiator verified the Response

sessions == <<current, previous, claimed>>
inbound  == <<pending, rekey_reasm, rekey_confirm_reasm>>
channel  == <<hs_rx, blocked>>

vars == <<setting, net, sessions, driver, reasm, channel, inbound, retiring, started, made, finalized>>

Off == [pc |-> "off", rekey |-> 0, attempt |-> 0, sess |-> NoSession]

Init ==
    /\ setting \in Settings
    /\ net = {}
    /\ current = [p \in Peers |-> 0]
    /\ previous = [p \in Peers |-> NoSession]
    /\ claimed = [p \in Peers |-> FALSE]
    /\ driver = [p \in Peers |-> Off]
    /\ reasm = [p \in Peers |-> {}]
    /\ hs_rx = [p \in Peers |-> <<>>]
    /\ blocked = [p \in Peers |-> {}]
    /\ pending = [p \in Peers |-> NoSession]
    /\ rekey_reasm = [p \in Peers |-> {}]
    /\ rekey_confirm_reasm = [p \in Peers |-> {}]
    /\ retiring = [p \in Peers |-> 0]
    /\ started = 0
    /\ made = 0
    /\ finalized = {}

------------------------------------------------------------------------------
(***************************************************************************)
(* Messages in fragments.                                                  *)
(***************************************************************************)
Fragment(m, k) == [msg |-> m, part |-> k]

\* build_handshake_datagrams: a message that is sent again has the same bytes, and copy
\* only tells the datagrams apart.
Datagram(m, k, c)  == [frag |-> Fragment(m, k), copy |-> c]
Datagrams(m, K, c) == {Datagram(m, k, c) : k \in K}

\* Plausible slip: one msg_id for a handshake, obfuscated or not.
Id_Shared(m) == IF m.type = "Confirm" THEN [m EXCEPT !.type = "Init", !.sess = NoSession] ELSE m

\* The msg_id in a fragment's header, as the message that has it first.  Obfuscation
\* draws one for each message, in clear it is the session id of the sender's handshake.
Id(m) == IF m.type = "Confirm" /\ ~setting.obf
         THEN [m EXCEPT !.type = "Init", !.sess = NoSession]
         ELSE m

(***************************************************************************)
(* Reassembler::push_parts: a repeated part replaces the one at hand, and  *)
(* the message that fragment f completes is taken out.  One rekey at most  *)
(* in MIN_REKEY_INTERVAL, and prune_old, keep MAX_PENDING_MSGS away.       *)
(***************************************************************************)
push_parts(R, f) ==
    LET new   == {g \in R : Id(g.msg) # Id(f.msg) \/ g.part # f.part} \cup {f}
        whole == {g \in new : Id(g.msg) = Id(f.msg)}
    IN IF {g.part : g \in whole} = Parts
       THEN [left |-> new \ whole, out |-> whole]
       ELSE [left |-> new, out |-> {}]

\* respond takes an Init: its signature and MAC are noise.
IsInit(parts) == \E f \in parts : f.part = 1 /\ f.msg.type = "Init"

\* finalize accepts the answer to the Init of driver d: only a Response whose signature
\* and MAC cover that Init.
AnswersInit(parts, d) == \A f \in parts : f.msg.type = "Response" /\ f.msg.rekey = d.rekey

\* confirm accepts the Confirm of the pending session s: only one over its transcript.
Confirms(parts, s) == \A f \in parts : f.msg.type = "Confirm" /\ f.msg.sess = s

------------------------------------------------------------------------------
\* SessionManager::install_new_session: swap, keep the old one, free the claim.
InstallNewSession(p, s) ==
    /\ current' = [current EXCEPT ![p] = s]
    /\ previous' = [previous EXCEPT ![p] = current[p]]
    /\ claimed' = [claimed EXCEPT ![p] = FALSE]

\* schedule_retire
ScheduleRetire(p) == retiring' = [retiring EXCEPT ![p] = @ + 1]

\* Nothing of a handshake is under way: what a timer sees on a path whose
\* round trip is shorter than it.
Quiet(p) == net = {} /\ hs_rx[p] = <<>> /\ blocked[p] = {}

\* What is on the network of the rekeys that p started.
UnderWay(p) ==
    {d \in net : d.frag.msg.to = IF d.frag.msg.type = "Response" THEN p ELSE Other(p)}

(***************************************************************************)
(* The tick arm: needs_rekey wins the claim, then the rekeying flag is     *)
(* swapped.  When the flag was already up no driver is started.            *)
(* MIN_REKEY_INTERVAL since the last attempt outlasts what it sent.        *)
(***************************************************************************)
StartRekey(p) ==
    /\ p \in setting.initiators
    /\ setting.slow \/ UnderWay(p) = {}
    /\ ~claimed[p]
    /\ started < setting.rekeys
    /\ claimed' = [claimed EXCEPT ![p] = TRUE]
    /\ started' = started + 1
    /\ IF driver[p].pc = "off"
       THEN /\ driver' = [driver EXCEPT ![p] =
                  [pc |-> "waiting", rekey |-> started', attempt |-> 1, sess |-> NoSession]]
            /\ net' = net \cup Datagrams(InitMsg(p, started'), Parts, 1)
       ELSE UNCHANGED <<driver, net>>
    /\ UNCHANGED <<setting, current, previous, reasm, channel, inbound, retiring, made, finalized>>

\* Plausible slip: the error path of the completion arm forgets abort_rekey.
AbortRekey_KeepsClaim(p) ==
    /\ driver' = [driver EXCEPT ![p] = Off]
    /\ reasm' = [reasm EXCEPT ![p] = {}]
    /\ UNCHANGED claimed

\* The rekey future ended in an error: the completion arm frees claim and flag.
AbortRekey(p) ==
    /\ driver' = [driver EXCEPT ![p] = Off]
    /\ reasm' = [reasm EXCEPT ![p] = {}]
    /\ claimed' = [claimed EXCEPT ![p] = FALSE]

(***************************************************************************)
(* The driver takes the next fragment of hs_rx, and finalizes with the     *)
(* message that is complete by it.  Anything but the Response to its own   *)
(* Init makes finalize fail and the whole rekey with it; success sends the *)
(* Confirm.                                                                *)
(***************************************************************************)
DriverReceive(p) ==
    LET r == push_parts(reasm[p], Head(hs_rx[p]))
        m == Head(hs_rx[p]).msg
    IN /\ driver[p].pc = "waiting"
       /\ hs_rx[p] # <<>>
       /\ hs_rx' = [hs_rx EXCEPT ![p] = Tail(@)]
       /\ \/ /\ r.out = {}
             /\ reasm' = [reasm EXCEPT ![p] = r.left]
             /\ UNCHANGED <<net, finalized, driver, claimed>>
          \/ /\ r.out # {} /\ AnswersInit(r.out, driver[p])
             /\ reasm' = [reasm EXCEPT ![p] = {}]
             /\ net' = net \cup Datagrams(ConfirmMsg(p, m.rekey, m.sess), Parts, 1)
             /\ finalized' = finalized \cup {m.sess}
             /\ driver' = [driver EXCEPT ![p].pc = "confirmed", ![p].sess = m.sess]
             /\ UNCHANGED claimed
          \/ /\ r.out # {} /\ ~AnswersInit(r.out, driver[p])
             /\ AbortRekey(p)
             /\ UNCHANGED <<net, finalized>>
       /\ UNCHANGED <<setting, current, previous, blocked, inbound, retiring, started, made>>

\* After the Confirm is sent, without any answer to it: install, completion arm.
DriverInstall(p) ==
    /\ driver[p].pc = "confirmed"
    /\ InstallNewSession(p, driver[p].sess)
    /\ driver' = [driver EXCEPT ![p] = Off]
    /\ ScheduleRetire(p)
    /\ UNCHANGED <<setting, net, reasm, channel, inbound, started, made, finalized>>

\* Plausible slip: the retry counter is never tested.
DriverTimeout_Forever(p) ==
    /\ driver[p].pc = "waiting"
    /\ setting.slow \/ Quiet(p)
    /\ driver' = [driver EXCEPT ![p].attempt = (@ % setting.retries) + 1]
    /\ reasm' = [reasm EXCEPT ![p] = {}]
    /\ net' = net \cup Datagrams(InitMsg(p, driver[p].rekey), Parts, driver'[p].attempt)
    /\ UNCHANGED <<setting, sessions, channel, inbound, retiring, started, made, finalized>>

\* PER_ATTEMPT_TIMEOUT: the same Init again and a fresh Reassembler, or the end after the
\* last attempt.
DriverTimeout(p) ==
    /\ driver[p].pc = "waiting"
    /\ setting.slow \/ Quiet(p)
    /\ \/ /\ driver[p].attempt < setting.retries
          /\ driver' = [driver EXCEPT ![p].attempt = @ + 1]
          /\ reasm' = [reasm EXCEPT ![p] = {}]
          /\ net' = net \cup Datagrams(InitMsg(p, driver[p].rekey), Parts, driver[p].attempt + 1)
          /\ UNCHANGED claimed
       \/ /\ driver[p].attempt = setting.retries
          /\ AbortRekey(p)
          /\ UNCHANGED net
    /\ UNCHANGED <<setting, current, previous, channel, inbound, retiring, started, made, finalized>>

\* The socket refuses a fragment of the Init or the Confirm being sent: the rest is not
\* sent either, and the rekey fails.
SendFails(p) ==
    LET d == driver[p]
        m == IF d.pc = "waiting" THEN InitMsg(p, d.rekey) ELSE ConfirmMsg(p, d.rekey, d.sess)
        c == IF d.pc = "waiting" THEN d.attempt ELSE 1
    IN /\ d.pc # "off"
       /\ \E k \in Parts : /\ Datagrams(m, k .. FRAGS, c) \subseteq net
                           /\ net' = net \ Datagrams(m, k .. FRAGS, c)
       /\ AbortRekey(p)
       /\ UNCHANGED <<setting, current, previous, channel, inbound, retiring, started, made, finalized>>

------------------------------------------------------------------------------
(***************************************************************************)
(* The inbound loop's demux of the fragment f in datagram d.               *)
(***************************************************************************)

\* A rekey is running here: forward to its driver; on a full channel the loop waits.
Forward(p, d) ==
    /\ driver[p].pc # "off"
    /\ net' = net \ {d}
    /\ IF Len(hs_rx[p]) < HS_CHANNEL
       THEN hs_rx' = [hs_rx EXCEPT ![p] = Append(@, d.frag)] /\ UNCHANGED blocked
       ELSE blocked' = [blocked EXCEPT ![p] = {d.frag}] /\ UNCHANGED hs_rx
    /\ UNCHANGED <<setting, sessions, driver, reasm, inbound, retiring, started, made, finalized>>

\* There is room again, whether or not the driver it was meant for still runs.
Unblock(p) ==
    /\ Len(hs_rx[p]) < HS_CHANNEL
    /\ \E f \in blocked[p] : hs_rx' = [hs_rx EXCEPT ![p] = Append(@, f)]
    /\ blocked' = [blocked EXCEPT ![p] = {}]
    /\ UNCHANGED <<setting, net, sessions, driver, reasm, inbound, retiring, started, made, finalized>>

(***************************************************************************)
(* No handshake is pending: what is complete goes to rekey_as_responder,   *)
(* which answers an Init and fails on anything else.  When the socket      *)
(* refuses a fragment of the Response, the rest is not sent and nothing is *)
(* pending.                                                                *)
(***************************************************************************)
Respond(p, d) ==
    LET r == push_parts(rekey_reasm[p], d.frag)
        i == d.frag.msg.rekey
    IN /\ driver[p].pc = "off"
       /\ pending[p] = NoSession
       /\ rekey_reasm' = [rekey_reasm EXCEPT ![p] = r.left]
       /\ \/ /\ IsInit(r.out)
             /\ made < setting.responses
             /\ made' = made + 1
             /\ \E sent \in Parts :
                   /\ net' = (net \ {d}) \cup Datagrams(ResponseMsg(p, i, made'), 1 .. sent, 1)
                   /\ pending' = IF sent = FRAGS THEN [pending EXCEPT ![p] = made'] ELSE pending
          \/ /\ net' = net \ {d}
             /\ UNCHANGED <<made, pending>>
       /\ UNCHANGED <<setting, sessions, driver, reasm, channel, rekey_confirm_reasm, retiring, started,
                      finalized>>

\* Plausible slip: any message that completes the pending handshake installs it.
AcceptConfirm_Unchecked(p, d) ==
    LET r == push_parts(rekey_confirm_reasm[p], d.frag)
    IN /\ driver[p].pc = "off"
       /\ pending[p] # NoSession
       /\ net' = net \ {d}
       /\ rekey_confirm_reasm' = [rekey_confirm_reasm EXCEPT ![p] = r.left]
       /\ IF r.out = {}
          THEN UNCHANGED <<pending, sessions, retiring>>
          ELSE /\ pending' = [pending EXCEPT ![p] = NoSession]
               /\ InstallNewSession(p, pending[p]) /\ ScheduleRetire(p)
       /\ UNCHANGED <<setting, driver, reasm, channel, rekey_reasm, started, made, finalized>>

\* A handshake is pending: what is complete is taken for its Confirm and ends it.
AcceptConfirm(p, d) ==
    LET r == push_parts(rekey_confirm_reasm[p], d.frag)
    IN /\ driver[p].pc = "off"
       /\ pending[p] # NoSession
       /\ net' = net \ {d}
       /\ rekey_confirm_reasm' = [rekey_confirm_reasm EXCEPT ![p] = r.left]
       /\ pending' = IF r.out = {} THEN pending ELSE [pending EXCEPT ![p] = NoSession]
       /\ IF r.out # {} /\ Confirms(r.out, pending[p])
          THEN InstallNewSession(p, pending[p]) /\ ScheduleRetire(p)
          ELSE UNCHANGED <<sessions, retiring>>
       /\ UNCHANGED <<setting, driver, reasm, channel, rekey_reasm, started, made, finalized>>

\* prune_tick: a message that has been incomplete for 10 s is dropped.  On a prompt path
\* its rekey is over by then.
Prune(p) ==
    \E f \in rekey_reasm[p] \cup rekey_confirm_reasm[p] :
        LET Recent(R) == {g \in R : Id(g.msg) # Id(f.msg)}
        IN /\ \/ setting.slow
              \/ /\ \A q \in Peers : driver[q].pc # "off" => driver[q].rekey # f.msg.rekey
                 /\ \A d \in net : d.frag.msg.rekey # f.msg.rekey
           /\ rekey_reasm' = [rekey_reasm EXCEPT ![p] = Recent(@)]
           /\ rekey_confirm_reasm' = [rekey_confirm_reasm EXCEPT ![p] = Recent(@)]
           /\ UNCHANGED <<setting, net, sessions, driver, reasm, channel, pending, retiring, started,
                          made, finalized>>

\* The 3 s sleep of schedule_retire ends: retire_previous, whatever it holds by then.
RetirePrevious(p) ==
    /\ retiring[p] > 0
    /\ retiring' = [retiring EXCEPT ![p] = @ - 1]
    /\ previous' = [previous EXCEPT ![p] = NoSession]
    /\ UNCHANGED <<setting, net, current, claimed, driver, reasm, channel, inbound, started, made,
                   finalized>>

\* The network drops a fragment.
Lose(d) ==
    /\ d.frag.msg.type \in setting.loss
    /\ net' = net \ {d}
    /\ UNCHANGED <<setting, sessions, driver, reasm, channel, inbound, retiring, started, made, finalized>>

Demux(p) ==
    \/ Unblock(p)
    \/ /\ blocked[p] = {}
       /\ \E d \in net : /\ d.frag.msg.to = p
                         /\ Forward(p, d) \/ Respond(p, d) \/ AcceptConfirm(p, d)

Driver(p) == DriverReceive(p) \/ DriverInstall(p) \/ DriverTimeout(p)

Next ==
    \/ \E p \in Peers : \/ StartRekey(p) \/ Driver(p) \/ SendFails(p)
                        \/ Demux(p) \/ Prune(p) \/ RetirePrevious(p)
    \/ \E d \in net : Lose(d)

(***************************************************************************)
(* The tokio tasks keep running: drivers, demux loops and sleeps that can  *)
(* take a step do.  Nothing makes the network lose or a peer start.        *)
(***************************************************************************)
Fairness == \A p \in Peers : /\ WF_vars(Driver(p))
                             /\ WF_vars(Demux(p))
                             /\ WF_vars(RetirePrevious(p))

Spec == Init /\ [][Next]_vars /\ Fairness

------------------------------------------------------------------------------
Retried == 1 .. setting.retries
Rekeys  == 1 .. setting.rekeys

Messages ==
    [type : {"Init"}, to : Peers, rekey : Rekeys, sess : {NoSession}]
    \cup [type : {"Response", "Confirm"}, to : Peers, rekey : Rekeys, sess : Sessions]

Fragments == [msg : Messages, part : Parts]

Drivers ==
    {Off} \cup [pc : {"waiting"}, rekey : Rekeys, attempt : Retried, sess : {NoSession}]
          \cup [pc : {"confirmed"}, rekey : Rekeys, attempt : Retried, sess : Sessions]

TypeOK ==
    /\ setting \in Settings
    /\ net \subseteq [frag : Fragments, copy : Retried]
    /\ current \in [Peers -> Sessions]
    /\ previous \in [Peers -> Sessions \cup {NoSession}]
    /\ claimed \in [Peers -> BOOLEAN]
    /\ driver \in [Peers -> Drivers]
    /\ hs_rx \in [Peers -> Seq(Fragments)] /\ \A p \in Peers : Len(hs_rx[p]) <= HS_CHANNEL
    /\ {reasm, blocked, rekey_reasm, rekey_confirm_reasm} \subseteq [Peers -> SUBSET Fragments]
    /\ pending \in [Peers -> Sessions \cup {NoSession}]
    /\ retiring \in [Peers -> Nat]
    /\ started \in 0 .. setting.rekeys /\ made \in 0 .. setting.responses
    /\ finalized \subseteq Sessions

(***************************************************************************)
(* A responder never moves to a session whose initiator has not verified   *)
(* the Response and sent the Confirm: without mutual authentication the    *)
(* new keys are not trusted (rekey_responder_confirm), whatever Inits,     *)
(* stale Responses and crossed rekeys do to pending_rekey before.          *)
(***************************************************************************)
OnlyFinalizedInstalled ==
    \A p \in Peers : {current[p], previous[p]} \subseteq finalized \cup {0, NoSession}

(***************************************************************************)
(* The claim of needs_rekey never outlives the driver it was taken for, so *)
(* a failed, crossed or raced rekey never blocks all later ones            *)
(* (needs_rekey, the rekeying flag, abort_rekey, install_new_session).     *)
(***************************************************************************)
ClaimHasDriver == \A p \in Peers : claimed[p] => driver[p].pc # "off"

(***************************************************************************)
(* A rekey attempt ends, in a new session or in an error, whatever the     *)
(* network and the other side do (bounded retry of rekey_as_initiator).    *)
(***************************************************************************)
RekeyEnds == \A p \in Peers : driver[p].pc # "off" ~> driver[p].pc = "off"

------------------------------------------------------------------------------
(***************************************************************************)
(* What holds when one peer rekeys, messages are obfuscated, the round     *)
(* trip is shorter than the timers and no fragment of a Confirm is lost.   *)
(* In clear the rest of an Init that was sent again can join the Confirm,  *)
(* which has the same msg_id, and spoil it.                                *)
(***************************************************************************)
Calm == /\ \E p \in Peers : setting.initiators = {p}
        /\ setting.obf
        /\ ~setting.slow
        /\ "Confirm" \notin setting.loss

(***************************************************************************)
(* In a calm setting a rekey is a KeySwap, whatever fragments of Inits and *)
(* Responses are lost or come in another order and whichever send fails:   *)
(* one peer leads and the other follows, every time.                       *)
(***************************************************************************)
Swap == INSTANCE KeySwap
    WITH current <- IF Calm THEN current ELSE [p \in Peers |-> 0]
ImplementsKeySwap == Swap!Spec

(***************************************************************************)
(* Once no handshake is under way and no driver is running, both peers     *)
(* send under the same session.                                            *)
(***************************************************************************)
AgreeWhenQuiet ==
    (\A p \in Peers : Quiet(p) /\ driver[p].pc = "off") =>
        \A p, q \in Peers : current[p] = current[q]
=============================================================================
