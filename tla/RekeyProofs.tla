------------------------------ MODULE RekeyProofs ------------------------------
(***************************************************************************)
(* Proofs about Rekey, for any two peers, any number of fragments, any     *)
(* channel capacity and any settings: which fragments are lost or late,    *)
(* how many rekeys, retries and Responses there are.                       *)
(***************************************************************************)
EXTENDS Rekey, TLAPS

\* The two ends.
LEMMA TwoPeers ==
    \A p \in Peers : /\ Other(p) \in Peers /\ Other(p) # p /\ Other(Other(p)) = p
                     /\ Peers = {p, Other(p)}
<1>1. PICK a \in Peers, b \in Peers : a # b /\ Peers = {a, b}
  BY RekeyAssumption
<1>2. Other(a) = b /\ Other(b) = a
  BY <1>1 DEF Other
<1> QED BY <1>1, <1>2

\* The sessions of a setting.
LEMMA SettingSessions ==
    ASSUME setting \in Settings
    PROVE  /\ setting.responses \in Nat /\ setting.rekeys \in Nat /\ setting.retries \in Nat \ {0}
           /\ 0 .. setting.responses \subseteq Sessions
           /\ Sessions \subseteq Nat /\ NoSession \notin Sessions
  BY RekeyAssumption DEF Sessions, NoSession

-----------------------------------------------------------------------------
(* Types *)

LEMMA InitType == Init => TypeOK
<1> SUFFICES ASSUME Init PROVE TypeOK
  OBVIOUS
<1>1. 0 \in Sessions /\ 0 \in 0 .. setting.responses /\ 0 \in 0 .. setting.rekeys
  BY SettingSessions DEF Init
<1>2. hs_rx \in [Peers -> Seq(Fragments)] /\ \A p \in Peers : Len(hs_rx[p]) <= HS_CHANNEL
  BY RekeyAssumption DEF Init
<1> QED BY <1>1, <1>2 DEF Init, TypeOK, Drivers

\* The datagrams of a message.
LEMMA DatagramTypes ==
    ASSUME setting \in Settings, NEW p \in Peers, NEW i \in Rekeys, NEW K \in SUBSET Parts, NEW c \in Retried
    PROVE  /\ Datagrams(InitMsg(p, i), K, c) \subseteq [frag : Fragments, copy : Retried]
           /\ \A s \in Sessions :
                /\ Datagrams(ResponseMsg(p, i, s), K, c) \subseteq [frag : Fragments, copy : Retried]
                /\ Datagrams(ConfirmMsg(p, i, s), K, c) \subseteq [frag : Fragments, copy : Retried]
<1>1. Other(p) \in Peers
  BY TwoPeers
<1>2. ASSUME NEW m \in Messages PROVE Datagrams(m, K, c) \subseteq [frag : Fragments, copy : Retried]
  <2>1. ASSUME NEW k \in K PROVE Datagram(m, k, c) \in [frag : Fragments, copy : Retried]
    <3>1. Fragment(m, k) \in Fragments
      BY DEF Fragment, Fragments
    <3> QED BY <3>1 DEF Datagram
  <2> QED BY <2>1 DEF Datagrams
<1>3. InitMsg(p, i) \in Messages
  BY <1>1 DEF InitMsg, Messages
<1>4. \A s \in Sessions : ResponseMsg(p, i, s) \in Messages /\ ConfirmMsg(p, i, s) \in Messages
  BY <1>1 DEF ResponseMsg, ConfirmMsg, Messages
<1> QED BY <1>2, <1>3, <1>4

\* push_parts takes from what is at hand and the new fragment, and what is complete has it.
LEMMA Pushed ==
    ASSUME NEW R, NEW f
    PROVE  /\ push_parts(R, f).left \subseteq R \cup {f}
           /\ push_parts(R, f).out \subseteq R \cup {f}
           /\ push_parts(R, f).out # {} => f \in push_parts(R, f).out
  BY DEF push_parts

LEMMA StepType == TypeOK /\ [Next]_vars => TypeOK'
<1> SUFFICES ASSUME TypeOK, [Next]_vars PROVE TypeOK'
  OBVIOUS
<1> USE DEF vars, sessions, inbound, channel
<1>s. /\ setting.responses \in Nat /\ setting.rekeys \in Nat /\ setting.retries \in Nat \ {0}
      /\ 0 .. setting.responses \subseteq Sessions /\ Sessions \subseteq Nat
  BY SettingSessions DEF TypeOK
<1>c. setting' = setting
  BY DEF Next, StartRekey, Driver, DriverReceive, DriverInstall, DriverTimeout, SendFails, Demux,
         Unblock, Forward, Respond, AcceptConfirm, Prune, RetirePrevious, Lose
<1>m. /\ Messages' = Messages /\ Drivers' = Drivers /\ Fragments' = Fragments /\ Retried' = Retried
  BY <1>c DEF Messages, Fragments, Drivers, Retried, Rekeys
<1>o. Off \in Drivers
  BY DEF Drivers
<1>r. 1 \in Retried /\ Parts \in SUBSET Parts
  BY <1>s DEF Retried
<1>1. ASSUME NEW p \in Peers, StartRekey(p) PROVE TypeOK'
  <2>1. started' \in Rekeys
    BY <1>1, <1>s DEF StartRekey, TypeOK, Rekeys
  <2>2. net' \subseteq [frag : Fragments, copy : Retried]
    BY <1>1, <1>r, <2>1, DatagramTypes DEF StartRekey, TypeOK
  <2>3. driver' \in [Peers -> Drivers]
    <3>1. [pc |-> "waiting", rekey |-> started', attempt |-> 1, sess |-> NoSession] \in Drivers
      BY <1>r, <2>1 DEF Drivers
    <3> QED BY <1>1, <3>1 DEF StartRekey, TypeOK
  <2>4. claimed' \in [Peers -> BOOLEAN]
    BY <1>1 DEF StartRekey, TypeOK
  <2>5. started' \in 0 .. setting'.rekeys
    BY <1>c, <1>s, <2>1 DEF Rekeys
  <2> QED BY <1>1, <1>c, <1>m, <2>2, <2>3, <2>4, <2>5 DEF StartRekey, TypeOK
<1>2. ASSUME NEW p \in Peers, DriverReceive(p) PROVE TypeOK'
  <2> DEFINE f == Head(hs_rx[p])
             r == push_parts(reasm[p], f)
  <2>1. f \in Fragments /\ Tail(hs_rx[p]) \in Seq(Fragments) /\ Len(Tail(hs_rx[p])) <= Len(hs_rx[p])
    BY <1>2 DEF DriverReceive, TypeOK
  <2>2. hs_rx' \in [Peers -> Seq(Fragments)] /\ \A q \in Peers : Len(hs_rx'[q]) <= HS_CHANNEL
    BY <1>2, <2>1, RekeyAssumption DEF DriverReceive, TypeOK
  <2>3. r.left \in SUBSET Fragments
    <3>1. reasm[p] \subseteq Fragments
      BY DEF TypeOK
    <3> QED BY <2>1, <3>1, Pushed
  <2>4. reasm' \in [Peers -> SUBSET Fragments]
    <3>1. reasm' = [reasm EXCEPT ![p] = r.left] \/ reasm' = [reasm EXCEPT ![p] = {}]
      BY <1>2 DEF DriverReceive, AbortRekey
    <3> QED BY <2>3, <3>1 DEF TypeOK
  <2>5. CASE r.out = {} /\ UNCHANGED <<net, finalized, driver, claimed>>
    BY <1>2, <1>c, <1>m, <2>2, <2>4, <2>5 DEF DriverReceive, TypeOK
  <2>6. CASE /\ r.out # {} /\ AnswersInit(r.out, driver[p])
             /\ net' = net \cup Datagrams(ConfirmMsg(p, f.msg.rekey, f.msg.sess), Parts, 1)
             /\ finalized' = finalized \cup {f.msg.sess}
             /\ driver' = [driver EXCEPT ![p].pc = "confirmed", ![p].sess = f.msg.sess]
             /\ UNCHANGED claimed
    <3>1. f.msg.type = "Response"
      BY <2>6, Pushed DEF AnswersInit
    <3>2. f.msg.rekey \in Rekeys /\ f.msg.sess \in Sessions
      BY <2>1, <3>1 DEF Fragments, Messages
    <3>3. net' \subseteq [frag : Fragments, copy : Retried]
      BY <1>r, <2>6, <3>2, DatagramTypes DEF TypeOK
    <3>4. driver[p] \in [pc : {"waiting"}, rekey : Rekeys, attempt : Retried, sess : {NoSession}]
      BY <1>2 DEF DriverReceive, TypeOK, Drivers, Off
    <3>5. [driver[p] EXCEPT !.pc = "confirmed", !.sess = f.msg.sess] \in Drivers
      BY <3>2, <3>4 DEF Drivers
    <3>6. driver' \in [Peers -> Drivers]
      BY <2>6, <3>5 DEF TypeOK
    <3> QED BY <1>2, <1>c, <1>m, <2>2, <2>4, <2>6, <3>2, <3>3, <3>6 DEF DriverReceive, TypeOK
  <2>7. CASE AbortRekey(p) /\ UNCHANGED <<net, finalized>>
    BY <1>2, <1>c, <1>m, <1>o, <2>2, <2>4, <2>7 DEF DriverReceive, AbortRekey, TypeOK
  <2> QED BY <1>2, <2>5, <2>6, <2>7 DEF DriverReceive
<1>3. ASSUME NEW p \in Peers, DriverInstall(p) PROVE TypeOK'
  <2>1. driver[p].sess \in Sessions
    <3>1. driver[p] \in Drivers /\ driver[p].pc = "confirmed"
      BY <1>3 DEF DriverInstall, TypeOK
    <3> QED BY <3>1 DEF Drivers, Off
  <2> QED BY <1>3, <1>c, <1>m, <1>o, <2>1 DEF DriverInstall, InstallNewSession, ScheduleRetire, TypeOK
<1>4. ASSUME NEW p \in Peers, DriverTimeout(p) PROVE TypeOK'
  <2>1. CASE /\ driver[p].attempt < setting.retries
             /\ driver' = [driver EXCEPT ![p].attempt = @ + 1]
             /\ reasm' = [reasm EXCEPT ![p] = {}]
             /\ net' = net \cup Datagrams(InitMsg(p, driver[p].rekey), Parts, driver[p].attempt + 1)
             /\ UNCHANGED claimed
    <3>1. driver[p] \in [pc : {"waiting"}, rekey : Rekeys, attempt : Retried, sess : {NoSession}]
      BY <1>4 DEF DriverTimeout, TypeOK, Drivers, Off
    <3>2. driver[p].attempt + 1 \in Retried
      BY <1>s, <2>1, <3>1 DEF Retried
    <3>3. [driver[p] EXCEPT !.attempt = @ + 1] \in Drivers
      BY <3>1, <3>2 DEF Drivers
    <3>4. driver' \in [Peers -> Drivers]
      BY <2>1, <3>3 DEF TypeOK
    <3>5. net' \subseteq [frag : Fragments, copy : Retried]
      BY <1>r, <2>1, <3>1, <3>2, DatagramTypes DEF TypeOK
    <3> QED BY <1>4, <1>c, <1>m, <2>1, <3>4, <3>5 DEF DriverTimeout, TypeOK
  <2>2. CASE AbortRekey(p) /\ UNCHANGED net
    BY <1>4, <1>c, <1>m, <1>o, <2>2 DEF DriverTimeout, AbortRekey, TypeOK
  <2> QED BY <1>4, <2>1, <2>2 DEF DriverTimeout
<1>5. ASSUME NEW p \in Peers, SendFails(p) PROVE TypeOK'
  <2>1. net' \subseteq net
    BY <1>5 DEF SendFails
  <2> QED BY <1>5, <1>c, <1>m, <1>o, <2>1 DEF SendFails, AbortRekey, TypeOK
<1>6. ASSUME NEW p \in Peers, Unblock(p) PROVE TypeOK'
  <2>1. PICK f \in blocked[p] : hs_rx' = [hs_rx EXCEPT ![p] = Append(@, f)]
    BY <1>6 DEF Unblock
  <2>2. f \in Fragments
    BY <2>1 DEF TypeOK
  <2>3. Append(hs_rx[p], f) \in Seq(Fragments) /\ Len(Append(hs_rx[p], f)) <= HS_CHANNEL
    BY <1>6, <2>2, RekeyAssumption DEF Unblock, TypeOK
  <2>4. hs_rx' \in [Peers -> Seq(Fragments)] /\ \A q \in Peers : Len(hs_rx'[q]) <= HS_CHANNEL
    BY <2>1, <2>3 DEF TypeOK
  <2> QED BY <1>6, <1>c, <1>m, <2>4 DEF Unblock, TypeOK
<1>7. ASSUME NEW p \in Peers, NEW d \in net, Forward(p, d) PROVE TypeOK'
  <2>1. d.frag \in Fragments
    BY <1>7 DEF TypeOK
  <2>2. CASE Len(hs_rx[p]) < HS_CHANNEL
    <3>1. Append(hs_rx[p], d.frag) \in Seq(Fragments) /\ Len(Append(hs_rx[p], d.frag)) <= HS_CHANNEL
      BY <2>1, <2>2, RekeyAssumption DEF TypeOK
    <3>2. hs_rx' \in [Peers -> Seq(Fragments)] /\ \A q \in Peers : Len(hs_rx'[q]) <= HS_CHANNEL
      BY <1>7, <2>2, <3>1 DEF Forward, TypeOK
    <3> QED BY <1>7, <1>c, <1>m, <2>2, <3>2 DEF Forward, TypeOK
  <2>3. CASE ~(Len(hs_rx[p]) < HS_CHANNEL)
    <3>1. blocked' \in [Peers -> SUBSET Fragments]
      <4>1. {d.frag} \in SUBSET Fragments
        BY <2>1
      <4>2. blocked' = [blocked EXCEPT ![p] = {d.frag}] /\ blocked \in [Peers -> SUBSET Fragments]
        BY <1>7, <2>3 DEF Forward, TypeOK
      <4> QED BY <4>1, <4>2
    <3> QED BY <1>7, <1>c, <1>m, <2>3, <3>1 DEF Forward, TypeOK
  <2> QED BY <2>2, <2>3
<1>8. ASSUME NEW p \in Peers, NEW d \in net, Respond(p, d) PROVE TypeOK'
  <2> DEFINE r == push_parts(rekey_reasm[p], d.frag)
  <2>1. d.frag \in Fragments /\ rekey_reasm[p] \subseteq Fragments
    BY <1>8 DEF TypeOK
  <2>2. r.left \in SUBSET Fragments
    BY <2>1, Pushed
  <2>3. rekey_reasm' \in [Peers -> SUBSET Fragments]
    <3>1. rekey_reasm' = [rekey_reasm EXCEPT ![p] = r.left] /\ rekey_reasm \in [Peers -> SUBSET Fragments]
      BY <1>8 DEF Respond, TypeOK
    <3> HIDE DEF r
    <3> QED BY <2>2, <3>1
  <2>4. CASE UNCHANGED <<made, pending>> /\ net' = net \ {d}
    BY <1>8, <1>c, <1>m, <2>3, <2>4 DEF Respond, TypeOK
  <2>5. ASSUME NEW sent \in Parts, made < setting.responses, made' = made + 1,
               net' = (net \ {d}) \cup Datagrams(ResponseMsg(p, d.frag.msg.rekey, made'), 1 .. sent, 1),
               pending' = IF sent = FRAGS THEN [pending EXCEPT ![p] = made'] ELSE pending
        PROVE  TypeOK'
    <3>1. made' \in 0 .. setting.responses /\ made' \in Sessions
      <4>1. made \in 0 .. setting.responses
        BY DEF TypeOK
      <4>2. made + 1 \in 0 .. setting.responses
        BY <1>s, <2>5, <4>1
      <4> QED BY <1>s, <2>5, <4>2
    <3>2. d.frag.msg.rekey \in Rekeys
      BY <2>1 DEF Fragments, Messages
    <3>3. 1 .. sent \in SUBSET Parts
      BY RekeyAssumption DEF Parts
    <3>4. net' \subseteq [frag : Fragments, copy : Retried]
      <4>1. Datagrams(ResponseMsg(p, d.frag.msg.rekey, made'), 1 .. sent, 1)
              \subseteq [frag : Fragments, copy : Retried]
        BY <1>r, <3>1, <3>2, <3>3, DatagramTypes DEF TypeOK
      <4> QED BY <2>5, <4>1 DEF TypeOK
    <3>5. pending' \in [Peers -> Sessions \cup {NoSession}]
      BY <2>5, <3>1 DEF TypeOK
    <3> QED BY <1>8, <1>c, <1>m, <2>3, <3>1, <3>4, <3>5 DEF Respond, TypeOK
  <2> QED BY <1>8, <2>4, <2>5 DEF Respond
<1>9. ASSUME NEW p \in Peers, NEW d \in net, AcceptConfirm(p, d) PROVE TypeOK'
  <2> DEFINE r == push_parts(rekey_confirm_reasm[p], d.frag)
  <2>1. d.frag \in Fragments /\ rekey_confirm_reasm[p] \subseteq Fragments
    BY <1>9 DEF TypeOK
  <2>2. r.left \in SUBSET Fragments
    BY <2>1, Pushed
  <2>3. rekey_confirm_reasm' \in [Peers -> SUBSET Fragments]
    <3>1. /\ rekey_confirm_reasm' = [rekey_confirm_reasm EXCEPT ![p] = r.left]
          /\ rekey_confirm_reasm \in [Peers -> SUBSET Fragments]
      BY <1>9 DEF AcceptConfirm, TypeOK
    <3> HIDE DEF r
    <3> QED BY <2>2, <3>1
  <2>4. pending' \in [Peers -> Sessions \cup {NoSession}]
    BY <1>9 DEF AcceptConfirm, TypeOK
  <2>5. CASE UNCHANGED <<sessions, retiring>>
    BY <1>9, <1>c, <1>m, <2>3, <2>4, <2>5 DEF AcceptConfirm, TypeOK
  <2>6. CASE InstallNewSession(p, pending[p]) /\ ScheduleRetire(p)
    <3>1. pending[p] \in Sessions
      BY <1>9 DEF AcceptConfirm, TypeOK
    <3>2. /\ current' \in [Peers -> Sessions] /\ previous' \in [Peers -> Sessions \cup {NoSession}]
          /\ claimed' \in [Peers -> BOOLEAN]
      BY <2>6, <3>1 DEF InstallNewSession, TypeOK
    <3>3. retiring' \in [Peers -> Nat]
      <4>1. retiring \in [Peers -> Nat] /\ retiring' = [retiring EXCEPT ![p] = retiring[p] + 1]
        BY <2>6 DEF ScheduleRetire, TypeOK
      <4> QED BY <4>1
    <3> QED BY <1>9, <1>c, <1>m, <2>3, <2>4, <3>2, <3>3 DEF AcceptConfirm, TypeOK
  <2> QED BY <1>9, <2>5, <2>6 DEF AcceptConfirm
<1>10. ASSUME NEW p \in Peers, Prune(p) PROVE TypeOK'
  <2>1. PICK f \in rekey_reasm[p] \cup rekey_confirm_reasm[p] :
          /\ rekey_reasm' = [rekey_reasm EXCEPT ![p] = {g \in @ : Id(g.msg) # Id(f.msg)}]
          /\ rekey_confirm_reasm' = [rekey_confirm_reasm EXCEPT ![p] = {g \in @ : Id(g.msg) # Id(f.msg)}]
    BY <1>10 DEF Prune
  <2>2. rekey_reasm \in [Peers -> SUBSET Fragments] /\ rekey_confirm_reasm \in [Peers -> SUBSET Fragments]
    BY DEF TypeOK
  <2>3. rekey_reasm' \in [Peers -> SUBSET Fragments] /\ rekey_confirm_reasm' \in [Peers -> SUBSET Fragments]
    BY <2>1, <2>2
  <2> QED BY <1>10, <1>c, <1>m, <2>3 DEF Prune, TypeOK
<1>11. ASSUME NEW p \in Peers, RetirePrevious(p) PROVE TypeOK'
  BY <1>11, <1>c, <1>m DEF RetirePrevious, TypeOK
<1>12. ASSUME NEW d \in net, Lose(d) PROVE TypeOK'
  BY <1>12, <1>c, <1>m DEF Lose, TypeOK
<1>13. CASE UNCHANGED vars
  BY <1>13, <1>m DEF TypeOK
<1> QED BY <1>1, <1>2, <1>3, <1>4, <1>5, <1>6, <1>7, <1>8, <1>9, <1>10, <1>11, <1>12, <1>13
        DEF Next, Driver, Demux

(***************************************************************************)
(* Type correctness of the two peers and the network between them.         *)
(***************************************************************************)
THEOREM TypeCorrect == Spec => []TypeOK
  BY InitType, StepType, PTL DEF Spec

-----------------------------------------------------------------------------
(* The claim *)

\* An error ends the driver and frees its claim.
LEMMA AbortClaim ==
    ASSUME TypeOK, ClaimHasDriver, NEW p \in Peers, AbortRekey(p)
    PROVE  ClaimHasDriver'
  BY DEF AbortRekey, ClaimHasDriver, TypeOK

LEMMA StepClaim == TypeOK /\ ClaimHasDriver /\ [Next]_vars => ClaimHasDriver'
<1> SUFFICES ASSUME TypeOK, ClaimHasDriver, [Next]_vars PROVE ClaimHasDriver'
  OBVIOUS
<1> USE DEF vars, sessions, inbound, channel
<1>t. driver \in [Peers -> Drivers] /\ claimed \in [Peers -> BOOLEAN]
  BY DEF TypeOK
<1>1. ASSUME NEW p \in Peers, StartRekey(p) PROVE ClaimHasDriver'
  BY <1>1, <1>t DEF StartRekey, ClaimHasDriver
<1>2. ASSUME UNCHANGED <<driver, claimed>> PROVE ClaimHasDriver'
  BY <1>2 DEF ClaimHasDriver
<1>3. ASSUME NEW p \in Peers, InstallNewSession(p, pending[p]), UNCHANGED driver PROVE ClaimHasDriver'
  BY <1>3, <1>t DEF InstallNewSession, ClaimHasDriver
<1>4. ASSUME NEW p \in Peers, DriverInstall(p) PROVE ClaimHasDriver'
  BY <1>4, <1>t DEF DriverInstall, InstallNewSession, ClaimHasDriver
<1>5. ASSUME NEW p \in Peers, NEW d, driver[p].pc = "waiting", driver' = [driver EXCEPT ![p] = d],
             d.pc # "off", UNCHANGED claimed
      PROVE  ClaimHasDriver'
  BY <1>5, <1>t DEF ClaimHasDriver
<1>6. ASSUME NEW p \in Peers, DriverReceive(p) PROVE ClaimHasDriver'
  <2> DEFINE m == Head(hs_rx[p]).msg
             d == [driver[p] EXCEPT !.pc = "confirmed", !.sess = m.sess]
  <2>1. driver[p].pc = "waiting"
    BY <1>6 DEF DriverReceive
  <2>2. CASE driver' = [driver EXCEPT ![p].pc = "confirmed", ![p].sess = m.sess] /\ UNCHANGED claimed
    <3>1. d.pc = "confirmed"
      BY <1>t, <2>1 DEF Drivers, Off
    <3>2. driver' = [driver EXCEPT ![p] = d]
      BY <2>2
    <3> HIDE DEF d
    <3> QED BY <1>5, <2>1, <2>2, <3>1, <3>2
  <2>3. CASE AbortRekey(p)
    BY <2>3, AbortClaim
  <2>4. CASE UNCHANGED <<driver, claimed>>
    BY <1>2, <2>4
  <2> QED BY <1>6, <2>2, <2>3, <2>4 DEF DriverReceive
<1>7. ASSUME NEW p \in Peers, DriverTimeout(p) PROVE ClaimHasDriver'
  <2> DEFINE d == [driver[p] EXCEPT !.attempt = @ + 1]
  <2>1. CASE driver' = [driver EXCEPT ![p].attempt = @ + 1] /\ UNCHANGED claimed
    <3>1. d.pc = "waiting" /\ driver[p].pc = "waiting"
      BY <1>7, <1>t DEF DriverTimeout, Drivers, Off
    <3>2. driver' = [driver EXCEPT ![p] = d]
      BY <2>1
    <3> HIDE DEF d
    <3> QED BY <1>5, <2>1, <3>1, <3>2
  <2>2. CASE AbortRekey(p)
    BY <2>2, AbortClaim
  <2> QED BY <1>7, <2>1, <2>2 DEF DriverTimeout
<1>8. ASSUME NEW p \in Peers, SendFails(p) PROVE ClaimHasDriver'
  BY <1>8, AbortClaim DEF SendFails
<1>9. ASSUME NEW p \in Peers, Unblock(p) \/ Prune(p) \/ RetirePrevious(p) PROVE ClaimHasDriver'
  BY <1>2, <1>9 DEF Unblock, Prune, RetirePrevious
<1>10. ASSUME NEW p \in Peers, NEW d \in net, Forward(p, d) \/ Respond(p, d) PROVE ClaimHasDriver'
  BY <1>2, <1>10 DEF Forward, Respond
<1>11. ASSUME NEW p \in Peers, NEW d \in net, AcceptConfirm(p, d) PROVE ClaimHasDriver'
  BY <1>2, <1>3, <1>11 DEF AcceptConfirm
<1>12. ASSUME NEW d \in net, Lose(d) PROVE ClaimHasDriver'
  BY <1>2, <1>12 DEF Lose
<1>13. CASE UNCHANGED vars
  BY <1>2, <1>13
<1> QED BY <1>1, <1>4, <1>6, <1>7, <1>8, <1>9, <1>10, <1>11, <1>12, <1>13 DEF Next, Driver, Demux

(***************************************************************************)
(* A claimed rekey always has a driver to end it: however rekeys cross,    *)
(* time out or fail, none blocks the later ones (abort_rekey,              *)
(* install_new_session).                                                   *)
(***************************************************************************)
THEOREM ClaimNeverLeaks == Spec => []ClaimHasDriver
<1>1. Init => ClaimHasDriver
  BY DEF Init, ClaimHasDriver
<1> QED BY <1>1, StepClaim, TypeCorrect, PTL DEF Spec

-----------------------------------------------------------------------------
(* Mutual authentication of an installed session *)

\* A Confirm under way is for a session its initiator has verified, and so is the session
\* of a driver that sent one.
ConfirmsVerified ==
    /\ \A d \in net : d.frag.msg.type = "Confirm" => d.frag.msg.sess \in finalized
    /\ \A p \in Peers : driver[p].pc = "confirmed" => driver[p].sess \in finalized

VerifiedInv == ConfirmsVerified /\ OnlyFinalizedInstalled

\* What the datagrams of a message carry.
LEMMA DatagramsCarry ==
    ASSUME NEW m, NEW K, NEW c, NEW d \in Datagrams(m, K, c)
    PROVE  d.frag.msg = m /\ d.frag.part \in K /\ d.frag = Fragment(m, d.frag.part) /\ d.copy = c
  BY DEF Datagrams, Datagram, Fragment

LEMMA StepVerified == TypeOK /\ VerifiedInv /\ [Next]_vars => VerifiedInv'
<1> SUFFICES ASSUME TypeOK, VerifiedInv, [Next]_vars PROVE VerifiedInv'
  OBVIOUS
<1> USE DEF VerifiedInv, ConfirmsVerified, OnlyFinalizedInstalled, sessions, inbound, channel
<1>t. /\ driver \in [Peers -> Drivers] /\ current \in [Peers -> Sessions]
      /\ previous \in [Peers -> Sessions \cup {NoSession}]
  BY DEF TypeOK
<1>c. \A m, K, c : \A d \in Datagrams(m, K, c) : d.frag.msg = m
  BY DatagramsCarry
<1>1. ASSUME NEW p \in Peers, StartRekey(p) PROVE VerifiedInv'
  <2>1. \A d \in net' : d \in net \/ d.frag.msg = InitMsg(p, started')
    BY <1>1, <1>c DEF StartRekey
  <2>2. \A d \in net' : d.frag.msg.type = "Confirm" => d.frag.msg.sess \in finalized
    BY <2>1 DEF InitMsg
  <2>3. \A q \in Peers : driver'[q].pc = "confirmed" => driver'[q] = driver[q]
    BY <1>1, <1>t DEF StartRekey
  <2> QED BY <1>1, <2>2, <2>3 DEF StartRekey
<1>2. ASSUME NEW p \in Peers, AbortRekey(p), net' \subseteq net,
             UNCHANGED <<current, previous, finalized>>
      PROVE  VerifiedInv'
  BY <1>2, <1>t DEF AbortRekey, Off
<1>3. ASSUME UNCHANGED <<driver, current, previous, finalized>>,
             \A d \in net' : d \in net \/ d.frag.msg.type # "Confirm"
      PROVE  VerifiedInv'
  BY <1>3
<1>4. ASSUME NEW p \in Peers, DriverReceive(p) PROVE VerifiedInv'
  <2> DEFINE m == Head(hs_rx[p]).msg
  <2>1. CASE /\ net' = net \cup Datagrams(ConfirmMsg(p, m.rekey, m.sess), Parts, 1)
             /\ finalized' = finalized \cup {m.sess}
             /\ driver' = [driver EXCEPT ![p].pc = "confirmed", ![p].sess = m.sess]
    <3>1. driver'[p].sess = m.sess /\ \A q \in Peers : q # p => driver'[q] = driver[q]
      BY <1>t, <2>1 DEF Drivers, Off
    <3>2. \A d \in net' : d \in net \/ d.frag.msg = ConfirmMsg(p, m.rekey, m.sess)
      BY <1>c, <2>1
    <3>3. ConfirmMsg(p, m.rekey, m.sess).sess = m.sess
      BY DEF ConfirmMsg
    <3> HIDE DEF m
    <3>4. \A d \in net' : d.frag.msg.type = "Confirm" => d.frag.msg.sess \in finalized'
      BY <2>1, <3>2, <3>3
    <3>5. UNCHANGED <<current, previous>>
      BY <1>4 DEF DriverReceive
    <3>6. \A q \in Peers : driver'[q].pc = "confirmed" => driver'[q].sess \in finalized'
      <4>1. finalized' = finalized \cup {m.sess}
        BY <2>1
      <4>2. \A q \in Peers : driver[q].pc = "confirmed" => driver[q].sess \in finalized
        OBVIOUS
      <4> QED BY <3>1, <4>1, <4>2
    <3>7. finalized \subseteq finalized'
      BY <2>1
    <3> QED BY <3>4, <3>5, <3>6, <3>7
  <2>2. CASE AbortRekey(p) /\ UNCHANGED <<net, finalized>>
    BY <1>2, <1>4, <2>2 DEF DriverReceive
  <2>3. CASE UNCHANGED <<net, finalized, driver>>
    BY <1>3, <1>4, <2>3 DEF DriverReceive
  <2> QED BY <1>4, <2>1, <2>2, <2>3 DEF DriverReceive
<1>5. ASSUME NEW p \in Peers, DriverInstall(p) PROVE VerifiedInv'
  BY <1>5, <1>t DEF DriverInstall, InstallNewSession, Off
<1>6. ASSUME NEW p \in Peers, DriverTimeout(p) PROVE VerifiedInv'
  <2>1. CASE /\ driver' = [driver EXCEPT ![p].attempt = @ + 1]
             /\ net' = net \cup Datagrams(InitMsg(p, driver[p].rekey), Parts, driver[p].attempt + 1)
    <3>1. /\ driver'[p].sess = driver[p].sess /\ driver'[p].pc = driver[p].pc
          /\ \A q \in Peers : q # p => driver'[q] = driver[q]
      BY <1>6, <1>t, <2>1 DEF DriverTimeout, Drivers, Off
    <3>2. \A d \in net' : d \in net \/ d.frag.msg = InitMsg(p, driver[p].rekey)
      BY <1>c, <2>1
    <3>3. \A d \in net' : d.frag.msg.type = "Confirm" => d.frag.msg.sess \in finalized
      BY <3>2 DEF InitMsg
    <3> QED BY <1>6, <3>1, <3>3 DEF DriverTimeout
  <2>2. CASE AbortRekey(p) /\ UNCHANGED net
    BY <1>2, <1>6, <2>2 DEF DriverTimeout
  <2> QED BY <1>6, <2>1, <2>2 DEF DriverTimeout
<1>7. ASSUME NEW p \in Peers, SendFails(p) PROVE VerifiedInv'
  BY <1>2, <1>7 DEF SendFails
<1>8. ASSUME NEW p \in Peers, Unblock(p) \/ Prune(p) PROVE VerifiedInv'
  BY <1>3, <1>8 DEF Unblock, Prune
<1>9. ASSUME NEW p \in Peers, NEW d \in net, Forward(p, d) \/ Respond(p, d) PROVE VerifiedInv'
  <2>1. \A e \in net' : e \in net \/ \E s : e.frag.msg = ResponseMsg(p, d.frag.msg.rekey, s)
    BY <1>9, <1>c DEF Forward, Respond
  <2>2. \A s : ResponseMsg(p, d.frag.msg.rekey, s).type # "Confirm"
    BY DEF ResponseMsg
  <2>3. \A e \in net' : e \in net \/ e.frag.msg.type # "Confirm"
    BY <2>1, <2>2
  <2> QED BY <1>3, <1>9, <2>3 DEF Forward, Respond
<1>10. ASSUME NEW p \in Peers, NEW d \in net, AcceptConfirm(p, d) PROVE VerifiedInv'
  <2> DEFINE r == push_parts(rekey_confirm_reasm[p], d.frag)
  <2>1. CASE r.out # {} /\ Confirms(r.out, pending[p]) /\ InstallNewSession(p, pending[p])
    <3>1. d.frag.msg.type = "Confirm" /\ d.frag.msg.sess = pending[p]
      BY <2>1, Pushed DEF Confirms
    <3>2. pending[p] \in finalized
      BY <1>10, <3>1
    <3> QED BY <1>10, <1>t, <2>1, <3>2 DEF AcceptConfirm, InstallNewSession
  <2>2. CASE UNCHANGED sessions
    BY <1>3, <1>10, <2>2 DEF AcceptConfirm
  <2> QED BY <1>10, <2>1, <2>2 DEF AcceptConfirm
<1>11. ASSUME NEW p \in Peers, RetirePrevious(p) PROVE VerifiedInv'
  BY <1>11, <1>t DEF RetirePrevious
<1>12. ASSUME NEW d \in net, Lose(d) PROVE VerifiedInv'
  BY <1>3, <1>12 DEF Lose
<1>13. CASE UNCHANGED vars
  BY <1>3, <1>13 DEF vars
<1> QED BY <1>1, <1>4, <1>5, <1>6, <1>7, <1>8, <1>9, <1>10, <1>11, <1>12, <1>13 DEF Next, Driver, Demux

(***************************************************************************)
(* No peer ever sends or receives under a session whose initiator has not  *)
(* verified the Response, whatever crosses, is lost, is late or is joined  *)
(* with the rest of another message (rekey_responder_confirm).             *)
(***************************************************************************)
THEOREM InstalledAreVerified == Spec => []OnlyFinalizedInstalled
<1>1. Init => VerifiedInv
  BY DEF Init, VerifiedInv, ConfirmsVerified, OnlyFinalizedInstalled, Off
<1>2. VerifiedInv => OnlyFinalizedInstalled
  BY DEF VerifiedInv
<1> QED BY <1>1, <1>2, StepVerified, TypeCorrect, PTL DEF Spec

-----------------------------------------------------------------------------
(* One peer rekeys in obfuscated form on a prompt network *)

\* The peer that rekeys and the one that answers.
Leader   == CHOOSE p \in Peers : setting.initiators = {p}
Follower == Other(Leader)

\* The elements of a sequence.
InSeq(s) == {s[j] : j \in 1 .. Len(s)}

\* Where fragments are: on the network, and what can still arrive or has arrived at an end.
Net        == {d.frag : d \in net}
Arriving   == Net \cup rekey_confirm_reasm[Follower]
AtFollower == Arriving \cup rekey_reasm[Follower]
AtLeader   == Net \cup InSeq(hs_rx[Leader]) \cup blocked[Leader] \cup reasm[Leader]

\* All the fragments of m are in R.
Whole(R, m) == \A k \in Parts : Fragment(m, k) \in R

\* The Init of rekey i cannot be completed any more by what was sent of it.
Spent(i) == ~Whole(AtFollower, InitMsg(Leader, i))

\* The follower has no driver, the leader answers nobody.
Roles ==
    /\ driver[Follower].pc = "off" /\ hs_rx[Follower] = <<>> /\ blocked[Follower] = {}
    /\ pending[Leader] = NoSession

Kinds == \A f \in Net : f.msg.to = IF f.msg.type = "Response" THEN Leader ELSE Follower

\* Nothing names a session or a rekey that is yet to come.
Known ==
    /\ current[Leader] <= made /\ current[Follower] <= made /\ pending[Follower] <= made
    /\ \A f \in AtFollower \cup AtLeader : f.msg.rekey <= started /\ f.msg.sess <= made
    /\ driver[Leader].pc # "off" => driver[Leader].rekey <= started

\* No fragment is on the network twice, and none of a Confirm comes again.
Single ==
    /\ \A d, e \in net : d.frag = e.frag => d = e
    /\ \A f \in Net : f.msg.type = "Confirm" => f \notin rekey_confirm_reasm[Follower]

\* The network has only what belongs to the rekey of the driver.
Own == driver[Leader].pc # "off" => \A f \in Net : f.msg.rekey = driver[Leader].rekey

Unconfirmed ==
    driver[Leader].pc = "waiting" =>
        \A f \in AtFollower : f.msg.type = "Confirm" => f.msg.rekey # driver[Leader].rekey

\* What a Reassembler completes it takes out.
Incomplete ==
    \A m \in Messages : ~Whole(rekey_confirm_reasm[Follower], m) /\ ~Whole(reasm[Leader], m)

\* A follower that waits for an Init has nothing of it where a Confirm would be put together.
Clean ==
    driver[Leader].pc = "waiting" /\ pending[Follower] = NoSession =>
        \A f \in rekey_confirm_reasm[Follower] : f.msg # InitMsg(Leader, driver[Leader].rekey)

\* A Response that can still be completed at its driver is the one that the follower waits to
\* see confirmed, and what was sent of the Init cannot get in between.
Answered ==
    driver[Leader].pc = "waiting" =>
        \A m \in Messages :
            m.type = "Response" /\ m.rekey = driver[Leader].rekey /\ Whole(AtLeader, m) =>
                pending[Follower] = m.sess /\ m.sess > current[Leader] /\ Spent(m.rekey)

\* The Confirm of session s will be accepted: nothing else can be completed before it.
Live(s) ==
    /\ pending[Follower] = s
    /\ \E i \in Rekeys : /\ Spent(i) /\ Whole(Arriving, ConfirmMsg(Leader, i, s))
                         /\ \A f \in Net : f.msg.rekey = i

Agree == current[Leader] = current[Follower]

\* The Confirm that the driver sent last.
LastConfirm == ConfirmMsg(Leader, driver[Leader].rekey, driver[Leader].sess)

\* The leader sent the Confirm, and neither end has installed.
Confirming == Agree /\ driver[Leader].sess > current[Leader] /\ Live(driver[Leader].sess)

\* The follower has installed first.
FollowerFirst ==
    /\ driver[Leader].pc = "confirmed"
    /\ current[Leader] < current[Follower] /\ current[Follower] = driver[Leader].sess
    /\ \A f \in Net : f.msg # LastConfirm

\* The leader has installed first.
LeaderFirst ==
    /\ driver[Leader].pc = "off"
    /\ current[Follower] < current[Leader] /\ Live(current[Leader])

Gap ==
    /\ Agree \/ FollowerFirst \/ LeaderFirst
    /\ driver[Leader].pc = "confirmed" => FollowerFirst \/ Confirming

\* A Confirm that can be completed is the driver's last one.
Genuine ==
    \A m \in Messages :
        m.type = "Confirm" /\ Whole(Arriving, m) =>
            \/ driver[Leader].pc = "confirmed" /\ m = LastConfirm
            \/ driver[Leader].pc = "off" /\ m.sess = current[Leader]

CalmState ==
    /\ Roles /\ Kinds /\ Known /\ Single /\ Own /\ Unconfirmed
    /\ Incomplete /\ Clean /\ Answered /\ Gap /\ Genuine

CalmInv == Calm => CalmState

LEMMA CalmPeers ==
    ASSUME Calm
    PROVE  /\ Leader \in Peers /\ Follower \in Peers /\ Leader # Follower /\ Peers = {Leader, Follower}
           /\ Other(Leader) = Follower /\ Other(Follower) = Leader
           /\ setting.initiators = {Leader} /\ setting.obf /\ ~setting.slow /\ "Confirm" \notin setting.loss
<1>1. Leader \in Peers /\ setting.initiators = {Leader}
  BY DEF Calm, Leader
<1> QED BY <1>1, TwoPeers DEF Calm, Follower

LEMMA SettingKept ==
    ASSUME [Next]_vars
    PROVE  /\ setting' = setting /\ Leader' = Leader /\ Follower' = Follower
           /\ Messages' = Messages /\ Rekeys' = Rekeys /\ Fragments' = Fragments
<1>1. setting' = setting
  BY DEF Next, vars, StartRekey, Driver, DriverReceive, DriverInstall, DriverTimeout, SendFails, Demux,
         Unblock, Forward, Respond, AcceptConfirm, Prune, RetirePrevious, Lose
<1> QED BY <1>1 DEF Leader, Follower, Messages, Rekeys, Fragments

-----------------------------------------------------------------------------
(* Fragments and Reassemblers *)

\* A fragment is what message it is of and which part of it.
LEMMA FragmentIs == \A f \in Fragments : f = Fragment(f.msg, f.part) /\ f.part \in Parts /\ f.msg \in Messages
  BY DEF Fragments, Fragment

LEMMA FragmentOf == \A m, k : Fragment(m, k).msg = m /\ Fragment(m, k).part = k
  BY DEF Fragment

LEMMA SomePart == 1 \in Parts /\ FRAGS \in Parts
  BY RekeyAssumption DEF Parts

\* With a msg_id for each message push_parts never joins two.
LEMMA PushedObf ==
    ASSUME setting.obf, NEW R \in SUBSET Fragments, NEW f \in Fragments
    PROVE  \/ /\ push_parts(R, f).out = {} /\ push_parts(R, f).left = R \cup {f}
              /\ ~Whole(R \cup {f}, f.msg)
           \/ /\ push_parts(R, f).out # {} /\ \A g \in push_parts(R, f).out : g.msg = f.msg
              /\ push_parts(R, f).left = {g \in R : g.msg # f.msg}
              /\ Whole(R \cup {f}, f.msg)
<1> DEFINE new   == {g \in R : Id(g.msg) # Id(f.msg) \/ g.part # f.part} \cup {f}
           whole == {g \in new : Id(g.msg) = Id(f.msg)}
<1>1. \A m : Id(m) = m
  BY DEF Id
<1>2. new = R \cup {f}
  <2>1. \A g \in R : g.msg = f.msg /\ g.part = f.part => g = f
    BY FragmentIs
  <2> QED BY <1>1, <2>1
<1>3. whole = {g \in R \cup {f} : g.msg = f.msg}
  BY <1>1, <1>2
<1>4. push_parts(R, f) = IF {g.part : g \in whole} = Parts
                         THEN [left |-> new \ whole, out |-> whole]
                         ELSE [left |-> new, out |-> {}]
  BY DEF push_parts
<1>5. {g.part : g \in whole} = Parts <=> Whole(R \cup {f}, f.msg)
  <2>1. ASSUME NEW k \in Parts
        PROVE  k \in {g.part : g \in whole} <=> Fragment(f.msg, k) \in R \cup {f}
    BY <1>3, FragmentIs, FragmentOf
  <2>2. {g.part : g \in whole} \subseteq Parts
    BY <1>3, FragmentIs
  <2> QED BY <2>1, <2>2 DEF Whole
<1>6. f \in whole /\ new \ whole = {g \in R : g.msg # f.msg}
  BY <1>2, <1>3
<1> HIDE DEF new, whole
<1>7. CASE Whole(R \cup {f}, f.msg)
  <2>1. push_parts(R, f).left = new \ whole /\ push_parts(R, f).out = whole
    BY <1>4, <1>5, <1>7
  <2>2. \A g \in whole : g.msg = f.msg
    BY <1>3
  <2> QED BY <1>6, <1>7, <2>1, <2>2
<1>8. CASE ~Whole(R \cup {f}, f.msg)
  BY <1>2, <1>4, <1>5, <1>8
<1> QED BY <1>7, <1>8

\* The elements of a queue as it grows and shrinks.
LEMMA InQueue ==
    ASSUME NEW S, NEW s \in Seq(S)
    PROVE  /\ \A e \in S : InSeq(Append(s, e)) = InSeq(s) \cup {e}
           /\ s # <<>> => Head(s) \in InSeq(s) /\ InSeq(Tail(s)) \subseteq InSeq(s)
           /\ InSeq(<<>>) = {}
<1>1. ASSUME NEW e \in S PROVE InSeq(Append(s, e)) = InSeq(s) \cup {e}
  <2>1. Len(Append(s, e)) = Len(s) + 1 /\ Append(s, e)[Len(s) + 1] = e /\ Len(s) \in Nat
    OBVIOUS
  <2>2. \A j \in 1 .. Len(s) : Append(s, e)[j] = s[j]
    OBVIOUS
  <2>3. 1 .. (Len(s) + 1) = (1 .. Len(s)) \cup {Len(s) + 1}
    BY <2>1
  <2> QED BY <2>1, <2>2, <2>3 DEF InSeq
<1>2. ASSUME s # <<>> PROVE Head(s) \in InSeq(s) /\ InSeq(Tail(s)) \subseteq InSeq(s)
  <2>1. Head(s) = s[1] /\ 1 \in 1 .. Len(s) /\ Len(Tail(s)) = Len(s) - 1
    BY <1>2
  <2>2. \A j \in 1 .. Len(Tail(s)) : Tail(s)[j] = s[j + 1] /\ j + 1 \in 1 .. Len(s)
    BY <1>2
  <2> QED BY <2>1, <2>2 DEF InSeq
<1>3. InSeq(<<>>) = {}
  BY DEF InSeq
<1> QED BY <1>1, <1>2, <1>3

LEMMA Places ==
    ASSUME TypeOK, Calm
    PROVE  /\ Net \subseteq Fragments /\ Arriving \subseteq Fragments
           /\ AtFollower \subseteq Fragments /\ AtLeader \subseteq Fragments
           /\ rekey_confirm_reasm[Follower] \subseteq Fragments
           /\ reasm[Leader] \subseteq Fragments /\ reasm[Leader] \subseteq AtLeader
           /\ rekey_confirm_reasm[Follower] \subseteq Arriving /\ Arriving \subseteq AtFollower
           /\ Net \subseteq Arriving /\ Net \subseteq AtLeader
<1>1. Leader \in Peers /\ Follower \in Peers
  BY CalmPeers
<1>2. Net \subseteq Fragments
  BY DEF Net, TypeOK
<1>3. InSeq(hs_rx[Leader]) \subseteq Fragments
  BY <1>1 DEF InSeq, TypeOK
<1>4. /\ reasm[Leader] \subseteq Fragments /\ blocked[Leader] \subseteq Fragments
      /\ rekey_reasm[Follower] \subseteq Fragments /\ rekey_confirm_reasm[Follower] \subseteq Fragments
  BY <1>1 DEF TypeOK
<1> QED BY <1>2, <1>3, <1>4 DEF Arriving, AtFollower, AtLeader

\* Values that the steps compare.
LEMMA Numbers ==
    ASSUME TypeOK, Calm
    PROVE  /\ current[Leader] \in Nat /\ current[Follower] \in Nat /\ pending[Follower] \in Int
           /\ made \in Nat /\ started \in Nat
           /\ \A m \in Messages : m.rekey \in Rekeys /\ m.rekey \in Nat /\ m.sess \in Int
           /\ driver[Leader] \in Drivers /\ driver[Leader].rekey \in Nat /\ driver[Leader].sess \in Int
<1>1. Leader \in Peers /\ Follower \in Peers
  BY CalmPeers
<1>2. Sessions \subseteq Nat /\ NoSession \in Int /\ setting.responses \in Nat /\ setting.rekeys \in Nat
  BY SettingSessions DEF TypeOK, NoSession
<1>3. current[Leader] \in Sessions /\ current[Follower] \in Sessions
      /\ pending[Follower] \in Sessions \cup {NoSession}
  BY <1>1 DEF TypeOK
<1>4. made \in Nat /\ started \in Nat
  BY <1>2 DEF TypeOK
<1>5. driver[Leader] \in Drivers
  BY <1>1 DEF TypeOK
<1>6. Rekeys \subseteq Nat /\ Sessions \cup {NoSession} \subseteq Int /\ NoSession \in Int /\ 0 \in Nat
  BY <1>2 DEF Rekeys
<1>7. driver[Leader].rekey \in Rekeys \cup {0} /\ driver[Leader].sess \in Sessions \cup {NoSession}
  BY <1>5 DEF Drivers, Off
<1>8. \A m \in Messages : m.rekey \in Rekeys /\ m.sess \in Sessions \cup {NoSession}
  BY DEF Messages
<1>9. \A m \in Messages : m.rekey \in Nat /\ m.sess \in Int
  BY <1>6, <1>8
<1>10. driver[Leader].rekey \in Nat /\ driver[Leader].sess \in Int
  BY <1>6, <1>7
<1>11. current[Leader] \in Nat /\ current[Follower] \in Nat /\ pending[Follower] \in Int
  BY <1>2, <1>3, <1>6
<1> QED BY <1>4, <1>5, <1>8, <1>9, <1>10, <1>11

\* More at hand is at least as whole.
LEMMA WholeGrows == \A R, S, m : R \subseteq S /\ Whole(R, m) => Whole(S, m)
  BY DEF Whole

(***************************************************************************)
(* A step that only loses fragments, or passes them on to the next place   *)
(* at their end, changes nothing: Live needs its Confirm still to come.    *)
(***************************************************************************)
LEMMA Quieter ==
    ASSUME TypeOK, Calm, CalmState, setting' = setting, Leader' = Leader, Follower' = Follower,
           Messages' = Messages, Rekeys' = Rekeys,
           driver'[Leader] = driver[Leader], current'[Leader] = current[Leader],
           current'[Follower] = current[Follower], pending'[Follower] = pending[Follower],
           made' = made, started' \in Nat, started <= started',
           Net' \subseteq Net, Arriving' \subseteq Arriving, AtFollower' \subseteq AtFollower,
           AtLeader' \subseteq AtLeader,
           \A s \in Nat, i \in Rekeys :
               Live(s) /\ Whole(Arriving, ConfirmMsg(Leader, i, s)) =>
                   Whole(Arriving', ConfirmMsg(Leader, i, s)),
           Roles', Single', Incomplete', Clean'
    PROVE  CalmState'
<1> USE DEF CalmState
<1>n. /\ current[Leader] \in Nat /\ current[Follower] \in Nat /\ made \in Nat /\ started \in Nat
      /\ driver[Leader].rekey \in Nat
  BY Numbers
<1>p. Net \subseteq Fragments /\ AtFollower \subseteq Fragments /\ AtLeader \subseteq Fragments
  BY Places
<1>1. Kinds'
  BY DEF Kinds
<1>2. Known'
  <2>1. \A f \in AtFollower' \cup AtLeader' : f.msg.rekey <= started' /\ f.msg.sess <= made'
    <3>1. ASSUME NEW f \in AtFollower' \cup AtLeader' PROVE f.msg.rekey <= started' /\ f.msg.sess <= made'
      <4>1. f \in Fragments /\ f.msg.rekey <= started /\ f.msg.sess <= made
        BY <1>p DEF Known
      <4>2. f.msg.rekey \in Nat
        BY <4>1, FragmentIs, Numbers
      <4> QED BY <1>n, <4>1, <4>2
    <3> QED BY <3>1
  <2>2. driver'[Leader].pc # "off" => driver'[Leader].rekey <= started'
    BY <1>n DEF Known
  <2> QED BY <2>1, <2>2 DEF Known
<1>3. Own'
  BY DEF Own
<1>4. Unconfirmed'
  BY DEF Unconfirmed
<1>5. \A i : Spent(i) => Spent(i)'
  BY WholeGrows DEF Spent
<1>6. Answered'
  BY <1>5, WholeGrows DEF Answered
<1>7. \A s \in Nat : Live(s) => Live(s)'
  <2>1. ASSUME NEW s \in Nat, Live(s) PROVE Live(s)'
    <3>1. PICK i \in Rekeys : /\ Spent(i) /\ Whole(Arriving, ConfirmMsg(Leader, i, s))
                              /\ \A f \in Net : f.msg.rekey = i
      BY <2>1 DEF Live
    <3>2. Spent(i)' /\ Whole(Arriving', ConfirmMsg(Leader, i, s)) /\ \A f \in Net' : f.msg.rekey = i
      BY <1>5, <2>1, <3>1
    <3> QED BY <2>1, <3>2 DEF Live
  <2> QED BY <2>1
<1>8. Gap'
  <2>1. Agree => Agree'
    BY DEF Agree
  <2>2. FollowerFirst => FollowerFirst'
    BY DEF FollowerFirst, LastConfirm
  <2>3. LeaderFirst => LeaderFirst'
    BY <1>n, <1>7 DEF LeaderFirst
  <2>4. Confirming => Confirming'
    <3>1. Confirming => driver[Leader].sess \in Nat
      BY Numbers DEF Confirming
    <3> QED BY <1>7, <2>1, <3>1 DEF Confirming
  <2> QED BY <2>1, <2>2, <2>3, <2>4 DEF Gap
<1>9. Genuine'
  BY WholeGrows DEF Genuine, LastConfirm
<1> QED BY <1>1, <1>2, <1>3, <1>4, <1>6, <1>8, <1>9

\* The fragments of m with the numbers K.
Cut(m, K) == {Fragment(m, k) : k \in K}

\* What a step sends the network has more.
LEMMA NetChanges ==
    ASSUME NEW N, NEW m, NEW K, NEW c, net' = N \cup Datagrams(m, K, c)
    PROVE  Net' = {d.frag : d \in N} \cup Cut(m, K)
<1>1. {d.frag : d \in Datagrams(m, K, c)} = Cut(m, K)
  <2>1. \A k : Datagram(m, k, c).frag = Fragment(m, k)
    BY DEF Datagram
  <2>2. \A d \in Datagrams(m, K, c) : \E k \in K : d = Datagram(m, k, c)
    BY DEF Datagrams
  <2>3. \A k \in K : Datagram(m, k, c) \in Datagrams(m, K, c)
    BY DEF Datagrams
  <2> QED BY <2>1, <2>2, <2>3 DEF Cut
<1> QED BY <1>1 DEF Net

LEMMA CutIs == \A m, K, f : f \in Cut(m, K) => f.msg = m /\ f.part \in K
  BY FragmentOf DEF Cut

LEMMA NothingWhole == \A m : ~Whole({}, m)
  BY SomePart DEF Whole

\* A fragment of another message does not make m whole.
LEMMA WholeOther ==
    \A R, S, m : Whole(S, m) /\ (\A f \in S : f.msg = m => f \in R) => Whole(R, m)
  BY FragmentOf DEF Whole

\* A fragment that is new on the network comes once.
LEMMA SingleGrows ==
    ASSUME NEW N, NEW m, NEW K, NEW c, Single, N \subseteq net,
           net' = N \cup Datagrams(m, K, c), Cut(m, K) \cap Net = {}
    PROVE  \A d, e \in net' : d.frag = e.frag => d = e
<1>1. \A d, e \in Datagrams(m, K, c) : d.frag = e.frag => d = e
  BY DEF Datagrams, Datagram
<1>2. \A d \in Datagrams(m, K, c) : d.frag \in Cut(m, K)
  BY DEF Datagrams, Datagram, Cut
<1>3. \A d \in net : d.frag \in Net
  BY DEF Net
<1> QED BY <1>1, <1>2, <1>3 DEF Single

\* A Confirm of the leader is a message.
LEMMA MessagesAre ==
    ASSUME Calm
    PROVE  /\ \A i \in Rekeys, s \in Sessions : ConfirmMsg(Leader, i, s) \in Messages
           /\ \A m \in Messages : /\ m.type = "Init" /\ m.to = Follower => m = InitMsg(Leader, m.rekey)
                                  /\ m.type \in {"Init", "Response", "Confirm"}
           /\ \A i, s : /\ InitMsg(Leader, i).type = "Init" /\ ConfirmMsg(Leader, i, s).type = "Confirm"
                        /\ ConfirmMsg(Leader, i, s).rekey = i /\ ConfirmMsg(Leader, i, s).sess = s
                        /\ InitMsg(Leader, i).rekey = i /\ InitMsg(Leader, i).sess = NoSession
                        /\ InitMsg(Leader, i).to = Follower /\ ConfirmMsg(Leader, i, s).to = Follower
<1>1. Follower \in Peers /\ Other(Leader) = Follower
  BY CalmPeers
<1> QED BY <1>1 DEF Messages, InitMsg, ConfirmMsg

(***************************************************************************)
(* The driver gives up: the peers agree, and no Confirm can be completed.  *)
(***************************************************************************)
LEMMA GivenUp ==
    ASSUME TypeOK, Calm, CalmState, setting' = setting, Leader' = Leader, Follower' = Follower,
           Messages' = Messages, Rekeys' = Rekeys,
           Agree, driver'[Leader] = Off, driver'[Follower] = driver[Follower],
           current' = current, pending' = pending, made' = made, started' = started,
           rekey_confirm_reasm' = rekey_confirm_reasm, rekey_reasm' = rekey_reasm,
           hs_rx'[Follower] = hs_rx[Follower], blocked'[Follower] = blocked[Follower],
           reasm'[Leader] = {}, net' \subseteq net, AtLeader' \subseteq AtLeader,
           \A m \in Messages : m.type = "Confirm" => ~Whole(Arriving', m)
    PROVE  CalmState'
<1>1. Net' \subseteq Net
  BY DEF Net
<1>2. Arriving' \subseteq Arriving /\ AtFollower' \subseteq AtFollower
  BY <1>1 DEF Arriving, AtFollower
<1>3. driver'[Leader].pc = "off"
  BY DEF Off
<1>4. Roles'
  BY DEF CalmState, Roles
<1>5. Kinds'
  BY <1>1 DEF CalmState, Kinds
<1>6. Known'
  BY <1>2, <1>3 DEF CalmState, Known
<1>7. Single'
  BY <1>1 DEF CalmState, Single
<1>8. Own' /\ Unconfirmed' /\ Clean' /\ Answered'
  BY <1>3 DEF Own, Unconfirmed, Clean, Answered
<1>9. Incomplete'
  BY NothingWhole DEF CalmState, Incomplete
<1>10. Gap'
  BY <1>3 DEF Gap, Agree
<1>11. Genuine'
  BY DEF Genuine
<1> QED BY <1>4, <1>5, <1>6, <1>7, <1>8, <1>9, <1>10, <1>11 DEF CalmState

(***************************************************************************)
(* The driver sends an Init, when nothing else is on the network.          *)
(***************************************************************************)
LEMMA InitSent ==
    ASSUME TypeOK, Calm, CalmState, setting' = setting, Leader' = Leader, Follower' = Follower,
           Messages' = Messages, Rekeys' = Rekeys, NEW n \in Nat, NEW c,
           Agree, net = {}, net' = Datagrams(InitMsg(Leader, n), Parts, c),
           driver'[Leader].pc = "waiting", driver'[Leader].rekey = n,
           driver'[Follower] = driver[Follower],
           current' = current, pending' = pending, made' = made, started' \in Nat,
           started <= started', n <= started',
           rekey_confirm_reasm' = rekey_confirm_reasm, rekey_reasm' = rekey_reasm,
           hs_rx'[Follower] = hs_rx[Follower], blocked'[Follower] = blocked[Follower],
           reasm'[Leader] \subseteq reasm[Leader],
           hs_rx'[Leader] = hs_rx[Leader], blocked'[Leader] = blocked[Leader],
           \A f \in AtFollower : f.msg.type = "Confirm" => f.msg.rekey # n,
           pending[Follower] = NoSession =>
               \A f \in rekey_confirm_reasm[Follower] : f.msg # InitMsg(Leader, n),
           \A f \in InSeq(hs_rx[Leader]) \cup blocked[Leader] \cup reasm'[Leader] :
               f.msg.type = "Response" => f.msg.rekey # n
    PROVE  CalmState'
<1> DEFINE I == InitMsg(Leader, n)
<1>1. Net = {} /\ Net' = Cut(I, Parts)
  <2>1. Net = {}
    BY DEF Net
  <2>2. net' = net \cup Datagrams(I, Parts, c)
    OBVIOUS
  <2> HIDE DEF I
  <2>3. Net' = Net \cup Cut(I, Parts)
    BY ONLY <2>2, NetChanges DEF Net
  <2> QED BY <2>1, <2>3
<1>2. \A f \in Net' : f.msg = I
  BY <1>1, CutIs
<1>3. I.type = "Init" /\ I.to = Follower /\ I.rekey = n /\ I.sess = NoSession
  BY MessagesAre
<1>4. /\ Arriving' = Net' \cup rekey_confirm_reasm[Follower]
      /\ AtFollower' \subseteq Net' \cup AtFollower
      /\ AtLeader' \subseteq Net' \cup AtLeader
      /\ AtLeader' = Net' \cup InSeq(hs_rx[Leader]) \cup blocked[Leader] \cup reasm'[Leader]
  BY DEF Arriving, AtFollower, AtLeader
<1> HIDE DEF I
<1>5. Roles'
  BY DEF CalmState, Roles
<1>6. Kinds'
  BY <1>2, <1>3 DEF Kinds
<1>7. Known'
  <2>1. ASSUME NEW f \in AtFollower' \cup AtLeader' PROVE f.msg.rekey <= started' /\ f.msg.sess <= made'
    <3>1. CASE f \in Net'
      <4>1. NoSession <= made
        BY Numbers DEF NoSession
      <4> QED BY <1>2, <1>3, <3>1, <4>1
    <3>2. CASE f \in AtFollower \cup AtLeader
      <4>1. f.msg.rekey <= started /\ f.msg.sess <= made
        BY <3>2 DEF CalmState, Known
      <4>2. f.msg.rekey \in Nat
        BY <3>2, Places, FragmentIs, Numbers
      <4>3. started \in Nat
        BY Numbers
      <4> QED BY <4>1, <4>2, <4>3
    <3> QED BY <1>4, <3>1, <3>2
  <2> QED BY <2>1 DEF CalmState, Known
<1>8. Single'
  <2>1. \A d, e \in net' : d.frag = e.frag => d = e
    BY DEF Datagrams, Datagram
  <2> QED BY <1>2, <1>3, <2>1 DEF Single
<1>9. Own'
  BY <1>2, <1>3 DEF Own
<1>10. Unconfirmed'
  BY <1>2, <1>3, <1>4 DEF Unconfirmed
<1>11. Incomplete'
  <2>1. \A m : Whole(reasm'[Leader], m) => Whole(reasm[Leader], m)
    BY WholeGrows
  <2> QED BY <2>1 DEF CalmState, Incomplete
<1>12. Clean'
  BY DEF Clean
<1>13. Answered'
  <2>1. ASSUME NEW m \in Messages, m.type = "Response", m.rekey = n, Whole(AtLeader', m) PROVE FALSE
    <3>1. Fragment(m, 1) \in AtLeader'
      BY <2>1, SomePart DEF Whole
    <3>2. Fragment(m, 1).msg = m
      BY FragmentOf
    <3> QED BY <1>2, <1>3, <1>4, <2>1, <3>1, <3>2
  <2> QED BY <2>1 DEF Answered
<1>14. Gap'
  BY DEF Gap, Agree
<1>15. Genuine'
  <2>1. ASSUME NEW m \in Messages, m.type = "Confirm", Whole(Arriving', m) PROVE FALSE
    <3>1. Whole(rekey_confirm_reasm[Follower], m)
      BY <1>2, <1>3, <1>4, <2>1, WholeOther
    <3> QED BY <3>1 DEF CalmState, Incomplete
  <2> QED BY <2>1 DEF Genuine
<1> QED BY <1>5, <1>6, <1>7, <1>8, <1>9, <1>10, <1>11, <1>12, <1>13, <1>14, <1>15 DEF CalmState

-----------------------------------------------------------------------------
(* Steps that change nothing *)

\* A datagram is taken, and it was the only one with its fragment.
LEMMA Taken ==
    ASSUME Single, NEW d \in net, net' = net \ {d}
    PROVE  Net' = Net \ {d.frag} /\ d.frag \in Net /\ Net' \subseteq Net
<1>1. d.frag \in Net
  BY DEF Net
<1>2. \A e \in net : e.frag = d.frag => e = d
  BY DEF Single
<1> QED BY <1>1, <1>2 DEF Net

LEMMA FewerSingle ==
    ASSUME Single, Follower' = Follower, net' \subseteq net,
           rekey_confirm_reasm'[Follower] \subseteq rekey_confirm_reasm[Follower]
    PROVE  Single'
  BY DEF Single, Net

\* A Reassembler that holds less is not completed.
LEMMA FewerIncomplete ==
    ASSUME Incomplete, Messages' = Messages, Follower' = Follower, Leader' = Leader,
           rekey_confirm_reasm'[Follower] \subseteq rekey_confirm_reasm[Follower],
           reasm'[Leader] \subseteq reasm[Leader]
    PROVE  Incomplete'
  BY WholeGrows DEF Incomplete

\* Nothing that the calm state speaks of changes but the network, which has less, and the
\* queues to the driver, which have what came from it.
LEMMA ToDriver ==
    ASSUME TypeOK, Calm, CalmState, [Next]_vars,
           driver' = driver, current' = current, pending' = pending, made' = made,
           started' = started, rekey_confirm_reasm' = rekey_confirm_reasm, net' \subseteq net,
           rekey_reasm'[Follower] \subseteq AtFollower,
           hs_rx'[Follower] = hs_rx[Follower], blocked'[Follower] = blocked[Follower],
           AtLeader' \subseteq AtLeader, reasm' = reasm,
           \A f \in Net : f.msg.type = "Confirm" => f \in Net'
    PROVE  CalmState'
<1>1. /\ setting' = setting /\ Leader' = Leader /\ Follower' = Follower
      /\ Messages' = Messages /\ Rekeys' = Rekeys
  BY SettingKept
<1>2. Net' \subseteq Net
  BY DEF Net
<1>3. Arriving' \subseteq Arriving /\ Arriving \subseteq AtFollower
  BY <1>1, <1>2 DEF Arriving, AtFollower
<1>4. AtFollower' \subseteq AtFollower
  BY <1>1, <1>3 DEF AtFollower
<1>5. ASSUME NEW s \in Nat, NEW i \in Rekeys, Whole(Arriving, ConfirmMsg(Leader, i, s))
      PROVE  Whole(Arriving', ConfirmMsg(Leader, i, s))
  <2>1. ConfirmMsg(Leader, i, s).type = "Confirm"
    BY MessagesAre
  <2>2. Arriving' = Net' \cup rekey_confirm_reasm[Follower]
    BY <1>1 DEF Arriving
  <2>3. ASSUME NEW f \in Arriving, f.msg = ConfirmMsg(Leader, i, s) PROVE f \in Arriving'
    BY <2>1, <2>2, <2>3 DEF Arriving
  <2> QED BY <1>5, <2>3, WholeOther
<1>6. Roles'
  BY <1>1 DEF CalmState, Roles
<1>7. Single' /\ Incomplete'
  BY <1>1, FewerSingle, FewerIncomplete DEF CalmState
<1>8. Clean'
  BY <1>1 DEF CalmState, Clean
<1>9. started' \in Nat /\ started <= started'
  BY Numbers
<1>10. driver'[Leader] = driver[Leader] /\ current'[Leader] = current[Leader]
       /\ current'[Follower] = current[Follower] /\ pending'[Follower] = pending[Follower]
  OBVIOUS
<1> QED BY ONLY TypeOK, Calm, CalmState, made' = made, AtLeader' \subseteq AtLeader, Quieter,
           <1>1, <1>2, <1>3, <1>4, <1>5, <1>6, <1>7, <1>8, <1>9, <1>10

\* A fragment on its way to the leader is of a Response.
LEMMA ToLeader ==
    ASSUME TypeOK, Calm, Kinds, NEW d \in net
    PROVE  /\ d.frag \in Fragments /\ d.frag.msg \in Messages
           /\ d.frag.msg.to = Leader <=> d.frag.msg.type = "Response"
           /\ d.frag.msg.to = Follower <=> d.frag.msg.type \in {"Init", "Confirm"}
<1>1. d.frag \in Net
  BY DEF Net
<1>2. d.frag \in Fragments
  BY <1>1, Places
<1>3. d.frag.msg \in Messages
  BY <1>2, FragmentIs
<1>4. d.frag.msg.type \in {"Init", "Response", "Confirm"}
  BY <1>3, MessagesAre
<1> QED BY <1>1, <1>2, <1>3, <1>4, CalmPeers DEF Kinds

LEMMA ForwardCalm ==
    ASSUME TypeOK, Calm, CalmState, [Next]_vars, NEW d \in net, d.frag.msg.to = Leader,
           blocked[Leader] = {}, Forward(Leader, d)
    PROVE  CalmState'
<1>1. Leader' = Leader /\ Follower' = Follower
  BY SettingKept
<1>2. /\ driver' = driver /\ current' = current /\ pending' = pending /\ made' = made /\ reasm' = reasm
      /\ started' = started /\ rekey_confirm_reasm' = rekey_confirm_reasm /\ rekey_reasm' = rekey_reasm
      /\ net' = net \ {d}
  BY DEF Forward, sessions, inbound
<1>3. Net' = Net \ {d.frag} /\ d.frag \in Net
  BY <1>2, Taken DEF CalmState
<1>4. d.frag.msg.type = "Response"
  BY ToLeader DEF CalmState
<1>5. hs_rx'[Follower] = hs_rx[Follower] /\ blocked'[Follower] = blocked[Follower]
  <2>1. hs_rx \in [Peers -> Seq(Fragments)] /\ blocked \in [Peers -> SUBSET Fragments]
    BY DEF TypeOK
  <2> QED BY <2>1, CalmPeers DEF Forward
<1>6. InSeq(hs_rx'[Leader]) \cup blocked'[Leader] \subseteq InSeq(hs_rx[Leader]) \cup {d.frag}
  <2>1. hs_rx \in [Peers -> Seq(Fragments)] /\ blocked \in [Peers -> SUBSET Fragments]
        /\ Leader \in Peers /\ d.frag \in Fragments
    BY CalmPeers, ToLeader DEF TypeOK, CalmState
  <2>2. InSeq(Append(hs_rx[Leader], d.frag)) = InSeq(hs_rx[Leader]) \cup {d.frag}
    BY <2>1, InQueue
  <2>3. CASE hs_rx' = [hs_rx EXCEPT ![Leader] = Append(@, d.frag)] /\ blocked' = blocked
    <3>1. hs_rx'[Leader] = Append(hs_rx[Leader], d.frag)
      BY <2>1, <2>3
    <3> QED BY <2>2, <2>3, <3>1
  <2>4. CASE blocked' = [blocked EXCEPT ![Leader] = {d.frag}] /\ hs_rx' = hs_rx
    BY <2>1, <2>4
  <2> QED BY <2>3, <2>4 DEF Forward
<1>7. AtLeader' \subseteq AtLeader
  BY <1>1, <1>2, <1>3, <1>6 DEF AtLeader
<1>8. rekey_reasm'[Follower] \subseteq AtFollower
  BY <1>2 DEF AtFollower
<1> QED BY <1>2, <1>3, <1>4, <1>5, <1>7, <1>8, ToDriver

LEMMA UnblockCalm ==
    ASSUME TypeOK, Calm, CalmState, [Next]_vars, NEW p \in Peers, Unblock(p)
    PROVE  CalmState'
<1>1. Leader' = Leader /\ Follower' = Follower
  BY SettingKept
<1>2. /\ driver' = driver /\ current' = current /\ pending' = pending /\ made' = made /\ reasm' = reasm
      /\ started' = started /\ rekey_confirm_reasm' = rekey_confirm_reasm /\ rekey_reasm' = rekey_reasm
      /\ net' = net
  BY DEF Unblock, sessions, inbound
<1>3. p = Leader
  BY CalmPeers DEF Unblock, CalmState, Roles
<1>4. hs_rx \in [Peers -> Seq(Fragments)] /\ blocked \in [Peers -> SUBSET Fragments]
      /\ Leader \in Peers /\ Follower \in Peers /\ Leader # Follower
  BY CalmPeers DEF TypeOK
<1>5. PICK f \in blocked[Leader] : hs_rx' = [hs_rx EXCEPT ![Leader] = Append(@, f)]
  BY <1>3 DEF Unblock
<1>6. blocked' = [blocked EXCEPT ![Leader] = {}]
  BY <1>3 DEF Unblock
<1>7. hs_rx'[Follower] = hs_rx[Follower] /\ blocked'[Follower] = blocked[Follower]
  BY <1>4, <1>5, <1>6
<1>8. InSeq(hs_rx'[Leader]) \cup blocked'[Leader] \subseteq InSeq(hs_rx[Leader]) \cup blocked[Leader]
  <2>1. InSeq(Append(hs_rx[Leader], f)) = InSeq(hs_rx[Leader]) \cup {f}
    BY <1>4, <1>5, InQueue
  <2>2. hs_rx'[Leader] = Append(hs_rx[Leader], f) /\ blocked'[Leader] = {}
    BY <1>4, <1>5, <1>6
  <2> QED BY <1>5, <2>1, <2>2
<1>9. Net' = Net
  BY <1>2 DEF Net
<1>10. AtLeader' \subseteq AtLeader
  BY <1>1, <1>2, <1>8, <1>9 DEF AtLeader
<1>11. rekey_reasm'[Follower] \subseteq AtFollower
  BY <1>2 DEF AtFollower
<1> QED BY <1>2, <1>7, <1>9, <1>10, <1>11, ToDriver

LEMMA LoseCalm ==
    ASSUME TypeOK, Calm, CalmState, [Next]_vars, NEW d \in net, Lose(d)
    PROVE  CalmState'
<1>1. Leader' = Leader /\ Follower' = Follower
  BY SettingKept
<1>2. /\ driver' = driver /\ current' = current /\ pending' = pending /\ made' = made /\ reasm' = reasm
      /\ started' = started /\ rekey_confirm_reasm' = rekey_confirm_reasm /\ rekey_reasm' = rekey_reasm
      /\ net' = net \ {d} /\ hs_rx' = hs_rx /\ blocked' = blocked
  BY DEF Lose, sessions, inbound, channel
<1>3. Net' = Net \ {d.frag}
  BY <1>2, Taken DEF CalmState
<1>4. d.frag.msg.type # "Confirm"
  BY CalmPeers DEF Lose
<1>5. AtLeader' \subseteq AtLeader
  BY <1>1, <1>2, <1>3 DEF AtLeader
<1>6. rekey_reasm'[Follower] \subseteq AtFollower
  BY <1>2 DEF AtFollower
<1> QED BY <1>2, <1>3, <1>4, <1>5, <1>6, ToDriver

\* The timers of schedule_retire, and steps of nobody.
LEMMA IdleCalm ==
    ASSUME TypeOK, Calm, CalmState, [Next]_vars,
           (\E p \in Peers : RetirePrevious(p)) \/ UNCHANGED vars
    PROVE  CalmState'
<1>1. Leader' = Leader /\ Follower' = Follower
  BY SettingKept
<1>2. /\ driver' = driver /\ current' = current /\ pending' = pending /\ made' = made /\ reasm' = reasm
      /\ started' = started /\ rekey_confirm_reasm' = rekey_confirm_reasm /\ rekey_reasm' = rekey_reasm
      /\ net' = net /\ hs_rx' = hs_rx /\ blocked' = blocked
  BY DEF RetirePrevious, vars, sessions, inbound, channel
<1>3. Net' = Net
  BY <1>2 DEF Net
<1>4. AtLeader' \subseteq AtLeader
  BY <1>1, <1>2, <1>3 DEF AtLeader
<1>5. rekey_reasm'[Follower] \subseteq AtFollower
  BY <1>2 DEF AtFollower
<1> QED BY <1>2, <1>3, <1>4, <1>5, ToDriver

\* What prune_tick drops is of a rekey that is over: nothing of a Confirm that will be accepted.
LEMMA PruneCalm ==
    ASSUME TypeOK, Calm, CalmState, [Next]_vars, NEW p \in Peers, Prune(p)
    PROVE  CalmState'
<1>1. /\ setting' = setting /\ Leader' = Leader /\ Follower' = Follower
      /\ Messages' = Messages /\ Rekeys' = Rekeys
  BY SettingKept
<1>2. PICK f \in rekey_reasm[p] \cup rekey_confirm_reasm[p] :
         /\ \A d \in net : d.frag.msg.rekey # f.msg.rekey
         /\ rekey_reasm' = [rekey_reasm EXCEPT ![p] = {g \in @ : Id(g.msg) # Id(f.msg)}]
         /\ rekey_confirm_reasm' = [rekey_confirm_reasm EXCEPT ![p] = {g \in @ : Id(g.msg) # Id(f.msg)}]
  BY CalmPeers DEF Prune
<1>3. /\ driver' = driver /\ current' = current /\ pending' = pending /\ made' = made /\ reasm' = reasm
      /\ started' = started /\ net' = net /\ hs_rx' = hs_rx /\ blocked' = blocked
  BY DEF Prune, sessions, channel
<1>4. Net' = Net
  BY <1>3 DEF Net
<1>5. AtLeader' = AtLeader
  BY <1>1, <1>3, <1>4 DEF AtLeader
<1>6. \A m : Id(m) = m
  BY CalmPeers DEF Id
<1>7. /\ rekey_reasm \in [Peers -> SUBSET Fragments]
      /\ rekey_confirm_reasm \in [Peers -> SUBSET Fragments] /\ Follower \in Peers
  BY CalmPeers DEF TypeOK
<1>8. /\ rekey_reasm'[Follower] \subseteq rekey_reasm[Follower]
      /\ rekey_confirm_reasm'[Follower] \subseteq rekey_confirm_reasm[Follower]
  BY <1>2, <1>7
<1>9. \A g \in rekey_confirm_reasm[Follower] :
          g.msg # f.msg => g \in rekey_confirm_reasm'[Follower]
  BY <1>2, <1>6, <1>7
<1>10. Arriving' \subseteq Arriving /\ AtFollower' \subseteq AtFollower
  BY <1>1, <1>4, <1>8 DEF Arriving, AtFollower
<1>11. ASSUME NEW s \in Nat, NEW i \in Rekeys, Live(s), Whole(Arriving, ConfirmMsg(Leader, i, s))
       PROVE  Whole(Arriving', ConfirmMsg(Leader, i, s))
  <2> DEFINE m == ConfirmMsg(Leader, i, s)
  <2>1. m \in Messages /\ m.rekey = i
    <3>1. pending[Follower] \in Sessions \cup {NoSession}
      BY CalmPeers DEF TypeOK
    <3>2. s \in Sessions
      BY <1>11, <3>1 DEF Live, NoSession
    <3> QED BY <3>2, MessagesAre
  <2>2. ~Whole(rekey_confirm_reasm[Follower], m)
    BY <2>1 DEF CalmState, Incomplete
  <2> HIDE DEF m
  <2>3. PICK k \in Parts : Fragment(m, k) \notin rekey_confirm_reasm[Follower]
    BY <2>2 DEF Whole
  <2>4. Fragment(m, k) \in Net
    BY <1>11, <2>3 DEF Whole, Arriving, m
  <2>5. PICK d \in net : d.frag = Fragment(m, k)
    BY <2>4 DEF Net
  <2>6. f.msg # m
    BY <1>2, <2>1, <2>5, FragmentOf
  <2>7. \A g \in Arriving : g.msg = m => g \in Arriving'
    BY <1>1, <1>4, <1>9, <2>6 DEF Arriving
  <2> QED BY <1>11, <2>7, WholeOther DEF m
<1>12. Roles'
  BY <1>1, <1>3 DEF CalmState, Roles
<1>13. Single' /\ Incomplete'
  BY <1>1, <1>3, <1>8, FewerSingle, FewerIncomplete DEF CalmState
<1>14. Clean'
  BY <1>1, <1>3, <1>8 DEF CalmState, Clean
<1>15. started' \in Nat /\ started <= started'
  BY <1>3, Numbers
<1> QED BY <1>1, <1>3, <1>4, <1>5, <1>10, <1>11, <1>12, <1>13, <1>14, <1>15, Quieter

-----------------------------------------------------------------------------
(* The steps of the driver *)

\* As long as the driver waits nobody has moved, and no Confirm can be completed.
LEMMA WhileWaiting ==
    ASSUME CalmState, driver[Leader].pc = "waiting"
    PROVE  Agree /\ \A m \in Messages : m.type = "Confirm" => ~Whole(Arriving, m)
  BY DEF CalmState, Gap, FollowerFirst, LeaderFirst, Genuine

\* Only the leader has a driver.
LEMMA DriverIsLeader ==
    ASSUME Calm, CalmState, NEW p \in Peers, driver[p].pc # "off"
    PROVE  p = Leader
  BY CalmPeers DEF CalmState, Roles

LEMMA StartCalm ==
    ASSUME TypeOK, TypeOK', Calm, CalmState, [Next]_vars, NEW p \in Peers, StartRekey(p)
    PROVE  CalmState'
<1>1. /\ setting' = setting /\ Leader' = Leader /\ Follower' = Follower
      /\ Messages' = Messages /\ Rekeys' = Rekeys
  BY SettingKept
<1>2. p = Leader /\ UnderWay(Leader) = {}
  BY CalmPeers DEF StartRekey
<1>3. /\ current' = current /\ pending' = pending /\ made' = made /\ reasm' = reasm
      /\ rekey_confirm_reasm' = rekey_confirm_reasm /\ rekey_reasm' = rekey_reasm
      /\ hs_rx' = hs_rx /\ blocked' = blocked /\ started' = started + 1
  BY DEF StartRekey, inbound, channel
<1>4. started \in Nat /\ started' \in Nat /\ started <= started' /\ started < started'
  BY <1>3, Numbers
<1>5. CASE driver[Leader].pc # "off"
  <2>1. driver' = driver /\ net' = net
    BY <1>2, <1>5 DEF StartRekey
  <2>2. Net' = Net
    BY <2>1 DEF Net
  <2>3. Arriving' = Arriving /\ AtFollower' = AtFollower /\ AtLeader' = AtLeader
    BY <1>1, <1>3, <2>2 DEF Arriving, AtFollower, AtLeader
  <2>4. Roles'
    BY <1>1, <1>3, <2>1 DEF CalmState, Roles
  <2>5. Single' /\ Incomplete'
    BY <1>1, <1>3, <2>1, FewerSingle, FewerIncomplete DEF CalmState
  <2>6. Clean'
    BY <1>1, <1>3, <2>1 DEF CalmState, Clean
  <2> QED BY <1>1, <1>3, <1>4, <2>1, <2>2, <2>3, <2>4, <2>5, <2>6, Quieter
<1>6. CASE driver[Leader].pc = "off"
  <2>1. net = {}
    <3>1. ASSUME NEW d \in net PROVE FALSE
      <4>1. d.frag \in Net
        BY DEF Net
      <4>2. d \in UnderWay(Leader)
        BY <4>1, CalmPeers DEF CalmState, Kinds, UnderWay
      <4> QED BY <1>2, <4>2
    <3> QED BY <3>1
  <2>2. Agree
    <3>1. ASSUME LeaderFirst PROVE FALSE
      <4>1. PICK i \in Rekeys : Whole(Arriving, ConfirmMsg(Leader, i, current[Leader]))
        BY <3>1 DEF LeaderFirst, Live
      <4>2. Arriving = rekey_confirm_reasm[Follower]
        BY <2>1 DEF Arriving, Net
      <4>3. current[Leader] \in Sessions
        BY CalmPeers DEF TypeOK
      <4>4. ConfirmMsg(Leader, i, current[Leader]) \in Messages
        BY <4>3, MessagesAre
      <4> QED BY <4>1, <4>2, <4>4 DEF CalmState, Incomplete
    <3> QED BY <1>6, <3>1 DEF CalmState, Gap, FollowerFirst
  <2>3. driver \in [Peers -> Drivers] /\ Leader \in Peers /\ Follower \in Peers /\ Leader # Follower
    BY CalmPeers DEF TypeOK
  <2>4. driver' = [driver EXCEPT ![Leader] =
                      [pc |-> "waiting", rekey |-> started', attempt |-> 1, sess |-> NoSession]]
        /\ net' = net \cup Datagrams(InitMsg(Leader, started'), Parts, 1)
    BY <1>2, <1>6 DEF StartRekey
  <2>5. /\ driver'[Leader].pc = "waiting" /\ driver'[Leader].rekey = started'
        /\ driver'[Follower] = driver[Follower]
        /\ net' = Datagrams(InitMsg(Leader, started'), Parts, 1)
    BY <2>1, <2>3, <2>4
  <2>6. ASSUME NEW f \in AtFollower \cup AtLeader PROVE f.msg.rekey # started'
    <3>1. f.msg.rekey <= started
      BY DEF CalmState, Known
    <3>2. f.msg.rekey \in Nat
      BY Places, FragmentIs, Numbers
    <3> QED BY <1>4, <3>1, <3>2
  <2>7. \A f \in rekey_confirm_reasm[Follower] : f.msg # InitMsg(Leader, started')
    <3>1. InitMsg(Leader, started').rekey = started'
      BY MessagesAre
    <3>2. rekey_confirm_reasm[Follower] \subseteq AtFollower
      BY DEF AtFollower, Arriving
    <3> QED BY <2>6, <3>1, <3>2
  <2>8. \A f \in InSeq(hs_rx[Leader]) \cup blocked[Leader] \cup reasm'[Leader] : f.msg.rekey # started'
    BY <1>3, <2>6 DEF AtLeader
  <2>9. ASSUME NEW n \in Nat, n = started' PROVE CalmState'
    <3>1. n <= started'
      BY <2>9
    <3>2. /\ driver'[Leader].pc = "waiting" /\ driver'[Leader].rekey = n
          /\ net' = Datagrams(InitMsg(Leader, n), Parts, 1)
      BY <2>5, <2>9
    <3>3. /\ \A f \in AtFollower \cup AtLeader : f.msg.rekey # n
          /\ \A f \in rekey_confirm_reasm[Follower] : f.msg # InitMsg(Leader, n)
          /\ \A f \in InSeq(hs_rx[Leader]) \cup blocked[Leader] \cup reasm'[Leader] : f.msg.rekey # n
      BY <2>6, <2>7, <2>8, <2>9
    <3> QED BY ONLY TypeOK, Calm, CalmState, InitSent, n \in Nat, <1>1, <1>3, <1>4, <2>1, <2>2, <2>5,
               <3>1, <3>2, <3>3
  <2> QED BY <1>4, <2>9
<1> QED BY <1>5, <1>6

LEMMA TimeoutCalm ==
    ASSUME TypeOK, TypeOK', Calm, CalmState, [Next]_vars, NEW p \in Peers, DriverTimeout(p)
    PROVE  CalmState'
<1>1. /\ setting' = setting /\ Leader' = Leader /\ Follower' = Follower
      /\ Messages' = Messages /\ Rekeys' = Rekeys
  BY SettingKept
<1>2. p = Leader /\ driver[Leader].pc = "waiting"
  BY DriverIsLeader DEF DriverTimeout
<1>3. net = {} /\ hs_rx[Leader] = <<>> /\ blocked[Leader] = {}
  BY <1>2, CalmPeers DEF DriverTimeout, Quiet
<1>4. /\ current' = current /\ pending' = pending /\ made' = made /\ started' = started
      /\ rekey_confirm_reasm' = rekey_confirm_reasm /\ rekey_reasm' = rekey_reasm
      /\ hs_rx' = hs_rx /\ blocked' = blocked
  BY DEF DriverTimeout, inbound, channel
<1>5. driver \in [Peers -> Drivers] /\ Leader \in Peers /\ Follower \in Peers /\ Leader # Follower
      /\ reasm \in [Peers -> SUBSET Fragments]
  BY CalmPeers DEF TypeOK
<1>6. Agree /\ \A m \in Messages : m.type = "Confirm" => ~Whole(Arriving, m)
  BY <1>2, WhileWaiting
<1>7. InSeq(hs_rx[Leader]) = {}
  BY <1>3, InQueue DEF InSeq
<1>8. CASE /\ driver' = [driver EXCEPT ![Leader].attempt = @ + 1]
           /\ reasm' = [reasm EXCEPT ![Leader] = {}]
           /\ net' = net \cup Datagrams(InitMsg(Leader, driver[Leader].rekey), Parts,
                                        driver[Leader].attempt + 1)
  <2> DEFINE n == driver[Leader].rekey
             c == driver[Leader].attempt + 1
  <2>1. /\ driver'[Leader].pc = "waiting" /\ driver'[Leader].rekey = n
        /\ driver'[Follower] = driver[Follower] /\ reasm'[Leader] = {}
        /\ net' = Datagrams(InitMsg(Leader, n), Parts, c)
    <3>1. driver'[Leader] = [driver[Leader] EXCEPT !.attempt = @ + 1]
      BY <1>5, <1>8
    <3>2. driver[Leader] \in Drivers
      BY <1>5
    <3>3. driver'[Leader].pc = driver[Leader].pc /\ driver'[Leader].rekey = n
      BY <3>1, <3>2 DEF Drivers, Off
    <3> QED BY <1>2, <1>3, <1>5, <1>8, <3>3
  <2>2. n \in Nat /\ n <= started
    BY <1>2, Numbers DEF CalmState, Known
  <2>3. started' \in Nat /\ started <= started' /\ n <= started'
    BY <1>4, <2>2, Numbers
  <2>4. \A f \in AtFollower : f.msg.type = "Confirm" => f.msg.rekey # n
    BY <1>2 DEF CalmState, Unconfirmed
  <2>5. pending[Follower] = NoSession =>
            \A f \in rekey_confirm_reasm[Follower] : f.msg # InitMsg(Leader, n)
    BY <1>2 DEF CalmState, Clean
  <2>6. InSeq(hs_rx[Leader]) \cup blocked[Leader] \cup reasm'[Leader] = {}
    BY <1>3, <1>7, <2>1
  <2> HIDE DEF n, c
  <2> QED BY ONLY TypeOK, Calm, CalmState, InitSent, <1>1, <1>3, <1>4, <1>6, <2>1, <2>2, <2>3, <2>4,
             <2>5, <2>6
<1>9. CASE AbortRekey(Leader) /\ net' = net
  <2>1. driver'[Leader] = Off /\ driver'[Follower] = driver[Follower] /\ reasm'[Leader] = {}
    BY <1>5, <1>9 DEF AbortRekey
  <2>2. Net' = Net
    BY <1>9 DEF Net
  <2>3. AtLeader' \subseteq AtLeader /\ Arriving' = Arriving
    BY <1>1, <1>4, <2>1, <2>2 DEF AtLeader, Arriving
  <2> QED BY <1>1, <1>4, <1>6, <1>9, <2>1, <2>3, GivenUp
<1> QED BY <1>2, <1>8, <1>9 DEF DriverTimeout

LEMMA SendFailsCalm ==
    ASSUME TypeOK, TypeOK', Calm, CalmState, [Next]_vars, NEW p \in Peers, SendFails(p)
    PROVE  CalmState'
<1>1. /\ setting' = setting /\ Leader' = Leader /\ Follower' = Follower
      /\ Messages' = Messages /\ Rekeys' = Rekeys
  BY SettingKept
<1>2. p = Leader /\ driver[Leader].pc # "off"
  BY DriverIsLeader DEF SendFails
<1>3. driver \in [Peers -> Drivers] /\ Leader \in Peers /\ Follower \in Peers /\ Leader # Follower
      /\ reasm \in [Peers -> SUBSET Fragments]
  BY CalmPeers DEF TypeOK
<1>4. /\ current' = current /\ pending' = pending /\ made' = made /\ started' = started
      /\ rekey_confirm_reasm' = rekey_confirm_reasm /\ rekey_reasm' = rekey_reasm
      /\ hs_rx' = hs_rx /\ blocked' = blocked
      /\ driver'[Leader] = Off /\ driver'[Follower] = driver[Follower] /\ reasm'[Leader] = {}
  BY <1>2, <1>3 DEF SendFails, AbortRekey, inbound, channel
<1> DEFINE m == IF driver[Leader].pc = "waiting" THEN InitMsg(Leader, driver[Leader].rekey)
                                                 ELSE LastConfirm
           c == IF driver[Leader].pc = "waiting" THEN driver[Leader].attempt ELSE 1
<1>5. PICK k \in Parts : /\ Datagrams(m, k .. FRAGS, c) \subseteq net
                         /\ net' = net \ Datagrams(m, k .. FRAGS, c)
  BY <1>2 DEF SendFails, LastConfirm
<1>m. driver[Leader].pc # "waiting" => m = LastConfirm
  OBVIOUS
<1> HIDE DEF m, c
<1>6. net' \subseteq net
  BY <1>5
<1>7. Net' \subseteq Net
  BY <1>6 DEF Net
<1>8. AtLeader' \subseteq AtLeader /\ Arriving' \subseteq Arriving
  BY <1>1, <1>4, <1>7 DEF AtLeader, Arriving
<1>9. CASE driver[Leader].pc = "waiting"
  <2>1. Agree /\ \A n \in Messages : n.type = "Confirm" => ~Whole(Arriving', n)
    BY <1>8, <1>9, WhileWaiting, WholeGrows
  <2> QED BY <1>1, <1>4, <1>6, <1>8, <2>1, GivenUp
<1>10. CASE driver[Leader].pc # "waiting"
  <2>1. driver[Leader].pc = "confirmed" /\ m = LastConfirm /\ m.type = "Confirm"
    <3>1. driver[Leader] \in Drivers
      BY <1>3
    <3>2. driver[Leader].pc \in {"off", "waiting", "confirmed"}
      BY <3>1 DEF Drivers, Off
    <3> QED BY <1>2, <1>m, <1>10, <3>2, MessagesAre DEF LastConfirm
  <2>2. Datagram(m, k, c) \in Datagrams(m, k .. FRAGS, c) /\ Datagram(m, k, c).frag = Fragment(m, k)
    <3>1. k \in k .. FRAGS
      BY RekeyAssumption DEF Parts
    <3> QED BY <3>1 DEF Datagrams, Datagram
  <2>3. Fragment(m, k) \in Net
    BY <1>5, <2>2 DEF Net
  <2>4. Agree
    BY <2>1, <2>3, FragmentOf DEF CalmState, Gap, FollowerFirst, Confirming
  <2>5. Fragment(m, k) \notin Net'
    <3>1. Datagram(m, k, c) \in net /\ Datagram(m, k, c) \notin net'
      BY <1>5, <2>2
    <3>2. \A d \in net : d.frag = Fragment(m, k) => d = Datagram(m, k, c)
      BY <2>2, <3>1 DEF CalmState, Single
    <3> QED BY <1>6, <3>1, <3>2 DEF Net
  <2>6. Fragment(m, k) \notin rekey_confirm_reasm[Follower]
    BY <2>1, <2>3, FragmentOf DEF CalmState, Single
  <2>7. ~Whole(Arriving', m)
    BY <1>1, <1>4, <2>5, <2>6 DEF Whole, Arriving
  <2>8. ASSUME NEW n \in Messages, n.type = "Confirm", Whole(Arriving', n) PROVE FALSE
    <3>1. Whole(Arriving, n)
      BY <1>8, <2>8, WholeGrows
    <3>2. n = m
      BY <2>1, <2>8, <3>1 DEF CalmState, Genuine
    <3> QED BY <2>7, <2>8, <3>2
  <2> QED BY <1>1, <1>4, <1>6, <1>8, <2>4, <2>8, GivenUp
<1> QED BY <1>9, <1>10

\* Install with the session that the follower has installed, or will install.
LEMMA InstallCalm ==
    ASSUME TypeOK, TypeOK', Calm, CalmState, [Next]_vars, NEW p \in Peers, DriverInstall(p)
    PROVE  CalmState'
<1>1. /\ setting' = setting /\ Leader' = Leader /\ Follower' = Follower
      /\ Messages' = Messages /\ Rekeys' = Rekeys
  BY SettingKept
<1>2. p = Leader /\ driver[Leader].pc = "confirmed"
  BY DriverIsLeader DEF DriverInstall
<1>3. /\ driver \in [Peers -> Drivers] /\ current \in [Peers -> Sessions]
      /\ Leader \in Peers /\ Follower \in Peers /\ Leader # Follower
  BY CalmPeers DEF TypeOK
<1>4. /\ pending' = pending /\ made' = made /\ started' = started /\ net' = net /\ reasm' = reasm
      /\ rekey_confirm_reasm' = rekey_confirm_reasm /\ rekey_reasm' = rekey_reasm
      /\ hs_rx' = hs_rx /\ blocked' = blocked
  BY DEF DriverInstall, inbound, channel
<1>5. /\ driver'[Leader] = Off /\ driver'[Follower] = driver[Follower]
      /\ current'[Leader] = driver[Leader].sess /\ current'[Follower] = current[Follower]
  BY <1>2, <1>3 DEF DriverInstall, InstallNewSession
<1>6. driver'[Leader].pc = "off"
  BY <1>5 DEF Off
<1>7. Net' = Net
  BY <1>4 DEF Net
<1>8. Arriving' = Arriving /\ AtFollower' = AtFollower /\ AtLeader' = AtLeader
  BY <1>1, <1>4, <1>7 DEF Arriving, AtFollower, AtLeader
<1>9. FollowerFirst \/ Confirming
  BY <1>2 DEF CalmState, Gap
<1>10. driver[Leader].sess <= made
  BY <1>9 DEF FollowerFirst, Confirming, Live, CalmState, Known
<1>11. Roles'
  BY <1>1, <1>4, <1>5 DEF CalmState, Roles
<1>12. Kinds'
  BY <1>1, <1>7 DEF CalmState, Kinds
<1>13. Known'
  BY <1>1, <1>4, <1>5, <1>6, <1>8, <1>10 DEF CalmState, Known
<1>14. Single' /\ Incomplete'
  BY <1>1, <1>4, FewerSingle, FewerIncomplete DEF CalmState
<1>15. Own' /\ Unconfirmed' /\ Clean' /\ Answered'
  BY <1>1, <1>6 DEF Own, Unconfirmed, Clean, Answered
<1>16. Gap'
  <2>1. CASE FollowerFirst
    BY <1>1, <1>5, <1>6, <2>1 DEF Gap, Agree, FollowerFirst
  <2>2. CASE Confirming
    <3>1. current'[Follower] < current'[Leader]
      BY <1>5, <2>2 DEF Confirming, Agree
    <3>2. \A i : Spent(i)' <=> Spent(i)
      BY <1>1, <1>8 DEF Spent
    <3>3. Live(driver[Leader].sess)
      BY <2>2 DEF Confirming
    <3>4. PICK i \in Rekeys : /\ Spent(i) /\ Whole(Arriving, ConfirmMsg(Leader, i, driver[Leader].sess))
                              /\ \A f \in Net : f.msg.rekey = i
      BY <3>3 DEF Live
    <3>5. /\ Spent(i)' /\ Whole(Arriving', ConfirmMsg(Leader', i, current'[Leader]))
          /\ \A f \in Net' : f.msg.rekey = i
      BY <1>1, <1>5, <1>7, <1>8, <3>2, <3>4
    <3>6. pending'[Follower] = current'[Leader]
      BY <1>4, <1>5, <3>3 DEF Live
    <3> QED BY <1>1, <1>6, <3>1, <3>5, <3>6 DEF Gap, LeaderFirst, Live
  <2> QED BY <1>9, <2>1, <2>2
<1>17. Genuine'
  <2>1. ASSUME NEW m \in Messages, m.type = "Confirm", Whole(Arriving', m)
        PROVE  m.sess = current'[Leader]
    <3>1. m = LastConfirm
      BY <1>2, <1>8, <2>1 DEF CalmState, Genuine
    <3> QED BY <1>5, <3>1, MessagesAre DEF LastConfirm
  <2> QED BY <1>1, <1>6, <2>1 DEF Genuine
<1> QED BY <1>11, <1>12, <1>13, <1>14, <1>15, <1>16, <1>17 DEF CalmState

\* A Response that answers the driver is the one its peer waits to see confirmed.
LEMMA ReceiveCalm ==
    ASSUME TypeOK, TypeOK', Calm, CalmState, [Next]_vars, NEW p \in Peers, DriverReceive(p)
    PROVE  CalmState'
<1>1. /\ setting' = setting /\ Leader' = Leader /\ Follower' = Follower
      /\ Messages' = Messages /\ Rekeys' = Rekeys
  BY SettingKept
<1>2. p = Leader /\ driver[Leader].pc = "waiting" /\ hs_rx[Leader] # <<>>
  BY DriverIsLeader DEF DriverReceive
<1>3. /\ driver \in [Peers -> Drivers] /\ hs_rx \in [Peers -> Seq(Fragments)]
      /\ reasm \in [Peers -> SUBSET Fragments]
      /\ Leader \in Peers /\ Follower \in Peers /\ Leader # Follower
  BY CalmPeers DEF TypeOK
<1> DEFINE f == Head(hs_rx[Leader])
           m == f.msg
           R == reasm[Leader]
           r == push_parts(R, f)
<1>4. /\ current' = current /\ pending' = pending /\ made' = made /\ started' = started
      /\ rekey_confirm_reasm' = rekey_confirm_reasm /\ rekey_reasm' = rekey_reasm
      /\ blocked' = blocked /\ hs_rx' = [hs_rx EXCEPT ![Leader] = Tail(@)]
  BY <1>2 DEF DriverReceive, inbound
<1>5. f \in InSeq(hs_rx[Leader]) /\ InSeq(hs_rx'[Leader]) \subseteq InSeq(hs_rx[Leader])
      /\ hs_rx'[Follower] = hs_rx[Follower]
  BY <1>2, <1>3, <1>4, InQueue
<1>6. f \in AtLeader /\ f \in Fragments /\ m \in Messages /\ R \subseteq AtLeader /\ R \subseteq Fragments
  BY <1>5, Places, FragmentIs DEF AtLeader
<1>7. \/ /\ r.out = {} /\ r.left = R \cup {f} /\ ~Whole(R \cup {f}, m)
      \/ /\ r.out # {} /\ \A g \in r.out : g.msg = m
         /\ Whole(R \cup {f}, m)
  <2>1. setting.obf /\ f \in Fragments /\ R \in SUBSET Fragments
    BY <1>6, CalmPeers
  <2>2. m = f.msg
    OBVIOUS
  <2> HIDE DEF f, R, m
  <2>3. \/ /\ push_parts(R, f).out = {} /\ push_parts(R, f).left = R \cup {f}
           /\ ~Whole(R \cup {f}, f.msg)
        \/ /\ push_parts(R, f).out # {} /\ \A g \in push_parts(R, f).out : g.msg = f.msg
           /\ push_parts(R, f).left = {g \in R : g.msg # f.msg}
           /\ Whole(R \cup {f}, f.msg)
    BY ONLY <2>1, PushedObf
  <2> QED BY <2>2, <2>3
<1>8. \/ /\ r.out = {} /\ reasm' = [reasm EXCEPT ![Leader] = r.left] /\ net' = net /\ driver' = driver
      \/ /\ r.out # {} /\ AnswersInit(r.out, driver[Leader])
         /\ reasm' = [reasm EXCEPT ![Leader] = {}]
         /\ net' = net \cup Datagrams(ConfirmMsg(Leader, m.rekey, m.sess), Parts, 1)
         /\ driver' = [driver EXCEPT ![Leader].pc = "confirmed", ![Leader].sess = m.sess]
      \/ AbortRekey(Leader) /\ net' = net
  BY <1>2 DEF DriverReceive
<1> HIDE DEF f, m, R, r
<1>9. Agree /\ \A n \in Messages : n.type = "Confirm" => ~Whole(Arriving, n)
  BY <1>2, WhileWaiting
<1>10. CASE /\ r.out = {} /\ reasm' = [reasm EXCEPT ![Leader] = r.left] /\ net' = net /\ driver' = driver
  <2>1. r.left = R \cup {f} /\ ~Whole(R \cup {f}, m)
    BY <1>7, <1>10
  <2>2. reasm'[Leader] = R \cup {f}
    BY <1>3, <1>10, <2>1
  <2>3. Net' = Net
    BY <1>10 DEF Net
  <2>4. Arriving' = Arriving /\ AtFollower' = AtFollower
    BY <1>1, <1>4, <2>3 DEF Arriving, AtFollower
  <2>5. AtLeader' \subseteq AtLeader
    BY <1>1, <1>4, <1>5, <1>6, <2>2, <2>3 DEF AtLeader
  <2>6. Roles'
    BY <1>1, <1>4, <1>5, <1>10 DEF CalmState, Roles
  <2>7. Single'
    BY <1>1, <1>4, <1>10, FewerSingle DEF CalmState
  <2>8. Incomplete'
    <3>1. ASSUME NEW n \in Messages, Whole(R \cup {f}, n) PROVE FALSE
      <4>1. n # m
        BY <2>1, <3>1
      <4>2. Whole(R, n)
        BY <3>1, <4>1, WholeOther DEF m
      <4> QED BY <4>2 DEF CalmState, Incomplete, R
    <3> QED BY <1>1, <1>4, <2>2, <3>1 DEF CalmState, Incomplete
  <2>9. Clean'
    BY <1>1, <1>4, <1>10 DEF CalmState, Clean
  <2>10. started' \in Nat /\ started <= started'
    BY <1>4, Numbers
  <2> QED BY <1>1, <1>4, <1>10, <2>3, <2>4, <2>5, <2>6, <2>7, <2>8, <2>9, <2>10, Quieter
<1>11. CASE /\ r.out # {} /\ AnswersInit(r.out, driver[Leader])
            /\ reasm' = [reasm EXCEPT ![Leader] = {}]
            /\ net' = net \cup Datagrams(ConfirmMsg(Leader, m.rekey, m.sess), Parts, 1)
            /\ driver' = [driver EXCEPT ![Leader].pc = "confirmed", ![Leader].sess = m.sess]
  <2> DEFINE C == ConfirmMsg(Leader, m.rekey, m.sess)
  <2>1. m.type = "Response" /\ m.rekey = driver[Leader].rekey
    BY <1>7, <1>11 DEF AnswersInit
  <2>2. Whole(AtLeader, m)
    <3>1. R \cup {f} \subseteq AtLeader
      BY <1>6
    <3> QED BY <1>7, <1>11, <3>1, WholeGrows
  <2>3. pending[Follower] = m.sess /\ m.sess > current[Leader] /\ Spent(m.rekey)
    BY <1>2, <1>6, <2>1, <2>2 DEF CalmState, Answered
  <2>4. /\ C.type = "Confirm" /\ C.to = Follower /\ C.rekey = m.rekey /\ C.sess = m.sess
        /\ m.rekey \in Rekeys
    BY <1>6, MessagesAre, Numbers
  <2> HIDE DEF C
  <2>5. /\ driver'[Leader].pc = "confirmed" /\ driver'[Leader].sess = m.sess
        /\ driver'[Leader].rekey = m.rekey /\ driver'[Follower] = driver[Follower]
        /\ reasm'[Leader] = {}
    <3>1. driver[Leader] \in Drivers
      BY <1>3
    <3>2. driver'[Leader] = [driver[Leader] EXCEPT !.pc = "confirmed", !.sess = m.sess]
      BY <1>3, <1>11
    <3>3. /\ driver'[Leader].pc = "confirmed" /\ driver'[Leader].sess = m.sess
          /\ driver'[Leader].rekey = driver[Leader].rekey
      BY <3>1, <3>2 DEF Drivers, Off
    <3> QED BY <1>3, <1>11, <2>1, <3>3
  <2>6. Net' = Net \cup Cut(C, Parts) /\ \A g \in Cut(C, Parts) : g.msg = C
    <3>1. net' = net \cup Datagrams(C, Parts, 1)
      BY <1>11 DEF C
    <3>2. Net' = Net \cup Cut(C, Parts)
      BY ONLY <3>1, NetChanges DEF Net
    <3> QED BY <3>2, CutIs
  <2>7. Cut(C, Parts) \cap AtFollower = {}
    BY <1>2, <2>1, <2>4, <2>6 DEF CalmState, Unconfirmed
  <2>8. Net \subseteq AtFollower /\ rekey_confirm_reasm[Follower] \subseteq AtFollower
    BY DEF AtFollower, Arriving
  <2>9. /\ Arriving' = Arriving \cup Cut(C, Parts) /\ AtFollower' = AtFollower \cup Cut(C, Parts)
        /\ AtLeader' \subseteq AtLeader \cup Cut(C, Parts)
    BY <1>1, <1>4, <1>5, <2>5, <2>6 DEF Arriving, AtFollower, AtLeader
  <2>10. Roles'
    BY <1>1, <1>4, <1>5, <2>5 DEF CalmState, Roles
  <2>11. Kinds'
    BY <1>1, <2>4, <2>6 DEF CalmState, Kinds
  <2>12. Known'
    <3>1. m.rekey <= started /\ m.sess <= made
      BY <1>6 DEF CalmState, Known, m
    <3> QED BY <1>1, <1>4, <2>4, <2>5, <2>6, <2>9, <3>1 DEF CalmState, Known
  <2>13. Single'
    <3>1. net' = net \cup Datagrams(C, Parts, 1) /\ net \subseteq net
      BY <1>11 DEF C
    <3>2. Cut(C, Parts) \cap Net = {}
      BY <2>7, <2>8
    <3>3. \A d, e \in net' : d.frag = e.frag => d = e
      <4>1. Single
        BY DEF CalmState
      <4> QED BY ONLY <3>1, <3>2, <4>1, SingleGrows
    <3>4. \A g \in Net' : g.msg.type = "Confirm" => g \notin rekey_confirm_reasm[Follower]
      BY <2>6, <2>7, <2>8 DEF CalmState, Single
    <3> QED BY <1>1, <1>4, <3>3, <3>4 DEF Single
  <2>14. Own'
    BY <1>1, <1>2, <2>1, <2>4, <2>5, <2>6 DEF CalmState, Own
  <2>15. Unconfirmed' /\ Clean' /\ Answered'
    BY <1>1, <2>5 DEF Unconfirmed, Clean, Answered
  <2>16. Incomplete'
    BY <1>1, <1>4, <2>5, NothingWhole DEF CalmState, Incomplete
  <2>i. PICK i \in Rekeys : i = m.rekey
    BY <2>4
  <2>17. Spent(i)'
    <3>1. \A n : n.type = "Init" /\ Whole(AtFollower \cup Cut(C, Parts), n) => Whole(AtFollower, n)
      BY <2>4, <2>6, WholeOther
    <3>2. InitMsg(Leader, i).type = "Init" /\ ~Whole(AtFollower, InitMsg(Leader, i))
      BY <2>3, <2>i, MessagesAre DEF Spent
    <3>3. ~Whole(AtFollower', InitMsg(Leader, i))
      BY <2>9, <3>1, <3>2
    <3> QED BY <1>1, <3>3 DEF Spent
  <2>18. Gap'
    <3>1. Agree' /\ driver'[Leader].sess > current'[Leader]
      BY <1>1, <1>4, <1>9, <2>3, <2>5 DEF Agree
    <3>2. C = ConfirmMsg(Leader', i, driver'[Leader].sess)
      BY <1>1, <2>5, <2>i DEF C
    <3>3. Whole(Arriving', ConfirmMsg(Leader', i, driver'[Leader].sess))
      BY <2>9, <3>2 DEF Whole, Cut
    <3>4. \A g \in Net' : g.msg.rekey = i
      BY <1>2, <2>1, <2>4, <2>6, <2>i DEF CalmState, Own
    <3>5. pending'[Follower'] = driver'[Leader'].sess
      BY <1>1, <1>4, <2>3, <2>5
    <3>6. Live(driver[Leader].sess)'
      BY <1>1, <2>17, <3>3, <3>4, <3>5 DEF Live
    <3> QED BY <1>1, <2>5, <3>1, <3>6 DEF Gap, Confirming
  <2>19. Genuine'
    <3>1. ASSUME NEW n \in Messages, n.type = "Confirm", Whole(Arriving', n) PROVE n = C
      <4>1. n # C => Whole(Arriving, n)
        BY <2>6, <2>9, <3>1, WholeOther
      <4> QED BY <1>9, <3>1, <4>1
    <3>2. LastConfirm' = C
      BY <1>1, <2>5 DEF LastConfirm, C
    <3> QED BY <1>1, <2>5, <3>1, <3>2 DEF Genuine
  <2> QED BY <2>10, <2>11, <2>12, <2>13, <2>14, <2>15, <2>16, <2>18, <2>19 DEF CalmState
<1>12. CASE AbortRekey(Leader) /\ net' = net
  <2>1. driver'[Leader] = Off /\ driver'[Follower] = driver[Follower] /\ reasm'[Leader] = {}
    BY <1>3, <1>12 DEF AbortRekey
  <2>2. Net' = Net
    BY <1>12 DEF Net
  <2>3. AtLeader' \subseteq AtLeader /\ Arriving' = Arriving
    BY <1>1, <1>4, <1>5, <2>1, <2>2 DEF AtLeader, Arriving
  <2>4. hs_rx'[Follower] = hs_rx[Follower] /\ blocked'[Follower] = blocked[Follower]
    BY <1>4, <1>5
  <2> QED BY <1>1, <1>4, <1>9, <1>12, <2>1, <2>3, <2>4, GivenUp
<1> QED BY <1>8, <1>10, <1>11, <1>12

-----------------------------------------------------------------------------
(* The steps of the answering end *)

LEMMA RespondCalm ==
    ASSUME TypeOK, TypeOK', Calm, CalmState, [Next]_vars, NEW p \in Peers, NEW d \in net,
           d.frag.msg.to = p, Respond(p, d)
    PROVE  CalmState'
<1>1. /\ setting' = setting /\ Leader' = Leader /\ Follower' = Follower
      /\ Messages' = Messages /\ Rekeys' = Rekeys
  BY SettingKept
<1>2. /\ driver' = driver /\ current' = current /\ started' = started /\ reasm' = reasm
      /\ rekey_confirm_reasm' = rekey_confirm_reasm /\ hs_rx' = hs_rx /\ blocked' = blocked
  BY DEF Respond, sessions, channel
<1>3. /\ rekey_reasm \in [Peers -> SUBSET Fragments] /\ pending \in [Peers -> Sessions \cup {NoSession}]
      /\ Leader \in Peers /\ Follower \in Peers /\ Leader # Follower /\ p \in {Leader, Follower}
  BY CalmPeers DEF TypeOK
<1>s. Single /\ Kinds
  BY DEF CalmState
<1> DEFINE f == d.frag
           i == f.msg.rekey
           R == rekey_reasm[p]
           r == push_parts(R, f)
<1>4. f \in Fragments /\ f.msg \in Messages /\ f \in Net /\ R \subseteq Fragments
  BY <1>3, <1>s, ToLeader DEF Net
<1>5. \/ /\ r.out = {} /\ r.left = R \cup {f}
      \/ /\ r.out # {} /\ \A g \in r.out : g.msg = f.msg
         /\ r.left = {g \in R : g.msg # f.msg}
  <2>1. setting.obf /\ R \in SUBSET Fragments
    BY <1>4, CalmPeers
  <2> HIDE DEF f, R
  <2>2. f \in Fragments
    BY <1>4
  <2>3. \/ /\ push_parts(R, f).out = {} /\ push_parts(R, f).left = R \cup {f}
           /\ ~Whole(R \cup {f}, f.msg)
        \/ /\ push_parts(R, f).out # {} /\ \A g \in push_parts(R, f).out : g.msg = f.msg
           /\ push_parts(R, f).left = {g \in R : g.msg # f.msg}
           /\ Whole(R \cup {f}, f.msg)
    BY ONLY <2>1, <2>2, PushedObf
  <2> QED BY <2>3
<1>6. rekey_reasm' = [rekey_reasm EXCEPT ![p] = r.left]
  BY DEF Respond
<1>7. \/ /\ IsInit(r.out) /\ made' = made + 1
         /\ \E sent \in Parts :
               /\ net' = (net \ {d}) \cup Datagrams(ResponseMsg(p, i, made + 1), 1 .. sent, 1)
               /\ pending' = IF sent = FRAGS THEN [pending EXCEPT ![p] = made + 1] ELSE pending
      \/ net' = net \ {d} /\ made' = made /\ pending' = pending
  BY DEF Respond
<1>8. pending[p] = NoSession /\ (p = Leader => f.msg.type = "Response")
  BY <1>s, ToLeader DEF Respond
<1> HIDE DEF f, i, R, r
<1>9. CASE net' = net \ {d} /\ made' = made /\ pending' = pending
  <2>1. Net' = Net \ {f}
    BY <1>9, <1>s, Taken DEF f
  <2>2. rekey_reasm'[Follower] \subseteq AtFollower
    <3>1. r.left \subseteq R \cup {f}
      BY <1>5
    <3>2. p # Follower => rekey_reasm'[Follower] = rekey_reasm[Follower]
      BY <1>3, <1>6
    <3>3. p = Follower => rekey_reasm'[Follower] \subseteq rekey_reasm[Follower] \cup {f}
      BY <1>3, <1>6, <3>1 DEF R
    <3>4. rekey_reasm[Follower] \subseteq AtFollower /\ f \in AtFollower
      BY <1>4 DEF AtFollower, Arriving
    <3> QED BY <3>2, <3>3, <3>4
  <2>3. Arriving' \subseteq Arriving /\ Net' \subseteq Net
    BY <1>1, <1>2, <2>1 DEF Arriving
  <2>4. AtFollower' \subseteq AtFollower
    BY <1>1, <2>2, <2>3 DEF AtFollower
  <2>5. AtLeader' \subseteq AtLeader
    BY <1>1, <1>2, <2>1 DEF AtLeader
  <2>6. ASSUME NEW s \in Nat, NEW n \in Rekeys, Live(s), Whole(Arriving, ConfirmMsg(Leader, n, s))
        PROVE  Whole(Arriving', ConfirmMsg(Leader, n, s))
    <3>1. p = Leader
      BY <1>3, <1>8, <2>6 DEF Live, NoSession
    <3>2. f.msg.type = "Response" /\ ConfirmMsg(Leader, n, s).type = "Confirm"
      BY <1>8, <3>1, MessagesAre
    <3>3. \A g \in Arriving : g # f => g \in Arriving'
      BY <1>1, <1>2, <2>1 DEF Arriving
    <3>4. \A g \in Arriving : g.msg = ConfirmMsg(Leader, n, s) => g \in Arriving'
      BY <3>2, <3>3
    <3> QED BY <2>6, <3>4, WholeOther
  <2>7. Roles'
    BY <1>1, <1>2, <1>9 DEF CalmState, Roles
  <2>8. Single' /\ Incomplete'
    <3>1. net' \subseteq net
      BY <1>9
    <3> QED BY <1>1, <1>2, <3>1, FewerSingle, FewerIncomplete DEF CalmState
  <2>9. Clean'
    BY <1>1, <1>2, <1>9 DEF CalmState, Clean
  <2>10. started' \in Nat /\ started <= started'
    BY <1>2, Numbers
  <2> QED BY <1>1, <1>2, <1>9, <2>3, <2>4, <2>5, <2>6, <2>7, <2>8, <2>9, <2>10, Quieter
<1>10. CASE /\ IsInit(r.out) /\ made' = made + 1
            /\ \E sent \in Parts :
                  /\ net' = (net \ {d}) \cup Datagrams(ResponseMsg(p, i, made + 1), 1 .. sent, 1)
                  /\ pending' = IF sent = FRAGS THEN [pending EXCEPT ![p] = made + 1] ELSE pending
  <2>1. f.msg.type = "Init" /\ r.left = {g \in R : g.msg # f.msg}
    BY <1>5, <1>10 DEF IsInit
  <2>2. p = Follower /\ f.msg = InitMsg(Leader, i) /\ i \in Rekeys
    <3>1. p = Follower /\ f.msg.to = Follower
      BY <1>3, <1>8, <2>1 DEF f
    <3> QED BY <1>4, <2>1, <3>1, MessagesAre, Numbers DEF i
  <2> DEFINE A == [type |-> "Response", to |-> Leader, rekey |-> i, sess |-> made + 1]
  <2>3. ResponseMsg(p, i, made + 1) = A
    BY <2>2, CalmPeers DEF ResponseMsg
  <2>a. A.type = "Response" /\ A.to = Leader /\ A.rekey = i /\ A.sess = made + 1
    OBVIOUS
  <2>4. PICK sent \in Parts :
           /\ net' = (net \ {d}) \cup Datagrams(A, 1 .. sent, 1)
           /\ pending' = IF sent = FRAGS THEN [pending EXCEPT ![Follower] = made + 1] ELSE pending
    BY <1>10, <2>2, <2>3
  <2> HIDE DEF A
  <2>5. Net' = (Net \ {f}) \cup Cut(A, 1 .. sent) /\ \A g \in Cut(A, 1 .. sent) : g.msg = A
    <3>1. \A e \in net : e.frag = f => e = d
      BY <1>s DEF Single, f
    <3>2. {e.frag : e \in net \ {d}} = Net \ {f}
      BY <3>1 DEF Net, f
    <3>3. Net' = {e.frag : e \in net \ {d}} \cup Cut(A, 1 .. sent)
      BY ONLY <2>4, NetChanges
    <3> QED BY <3>2, <3>3, CutIs
  <2>n. made \in Nat /\ started \in Nat /\ current[Leader] \in Nat /\ made + 1 > made
    BY Numbers
  <2>6. \A g \in AtFollower \cup AtLeader : g.msg # A
    <3>1. ASSUME NEW g \in AtFollower \cup AtLeader PROVE g.msg # A
      <4>1. g.msg.sess <= made
        BY DEF CalmState, Known
      <4> QED BY <2>a, <2>n, <4>1
    <3> QED BY <3>1
  <2>7. Net \subseteq AtFollower /\ rekey_confirm_reasm[Follower] \subseteq AtFollower
        /\ rekey_reasm[Follower] \subseteq AtFollower /\ Net \subseteq AtLeader
    BY DEF AtFollower, Arriving, AtLeader
  <2>8. rekey_reasm'[Follower] = {g \in rekey_reasm[Follower] : g.msg # f.msg}
    BY <1>3, <1>6, <2>1, <2>2 DEF R
  <2>9. /\ Arriving' \subseteq Arriving \cup Cut(A, 1 .. sent)
        /\ AtFollower' \subseteq AtFollower \cup Cut(A, 1 .. sent)
        /\ AtLeader' \subseteq AtLeader \cup Cut(A, 1 .. sent)
    BY <1>1, <1>2, <2>5, <2>8 DEF Arriving, AtFollower, AtLeader
  <2>10. pending'[Leader] = pending[Leader] /\ pending'[Follower] \in {NoSession, made + 1}
         /\ (sent = FRAGS => pending'[Follower] = made + 1)
    BY <1>3, <1>8, <2>2, <2>4
  <2>11. Roles'
    BY <1>1, <1>2, <2>10 DEF CalmState, Roles
  <2>12. Kinds'
    BY <1>1, <2>5, <2>a DEF CalmState, Kinds
  <2>13. Known'
    <3>1. i <= started
      BY <1>4, <2>7 DEF CalmState, Known, i
    <3>2. current[Leader] <= made' /\ current[Follower] <= made'
      <4>1. current[Leader] <= made /\ current[Follower] <= made /\ current[Follower] \in Nat
        BY Numbers DEF CalmState, Known
      <4> QED BY <1>10, <2>n, <4>1
    <3>3. pending'[Follower] <= made'
      BY <1>10, <2>10, <2>n DEF NoSession
    <3>4. ASSUME NEW g \in AtFollower' \cup AtLeader' PROVE g.msg.rekey <= started /\ g.msg.sess <= made'
      <4>1. CASE g \in Cut(A, 1 .. sent)
        BY <1>10, <2>5, <2>a, <2>n, <3>1, <4>1
      <4>2. CASE g \in AtFollower \cup AtLeader
        <5>1. g.msg.rekey <= started /\ g.msg.sess <= made
          BY <4>2 DEF CalmState, Known
        <5>2. g.msg.sess \in Int
          BY <4>2, Places, FragmentIs, Numbers
        <5> QED BY <1>10, <2>n, <5>1, <5>2
      <4> QED BY <2>9, <4>1, <4>2
    <3>5. driver[Leader].pc # "off" => driver[Leader].rekey <= started
      BY DEF CalmState, Known
    <3> QED BY <1>1, <1>2, <3>2, <3>3, <3>4, <3>5 DEF Known
  <2>14. Single'
    <3>1. Cut(A, 1 .. sent) \cap Net = {}
      BY <2>5, <2>6, <2>7
    <3>2. net \ {d} \subseteq net
      OBVIOUS
    <3>3. \A e, g \in net' : e.frag = g.frag => e = g
      BY ONLY <1>s, <2>4, <3>1, <3>2, SingleGrows
    <3>4. \A g \in Net' : g.msg.type = "Confirm" => g \in Net
      BY <2>5, <2>a
    <3> QED BY <1>1, <1>2, <1>s, <3>3, <3>4 DEF Single
  <2>15. driver[Leader].pc # "off" => i = driver[Leader].rekey
    BY <1>4 DEF CalmState, Own, i
  <2>16. Own'
    BY <1>1, <1>2, <2>5, <2>a, <2>15 DEF CalmState, Own
  <2>17. Unconfirmed'
    BY <1>1, <1>2, <2>5, <2>9, <2>a DEF CalmState, Unconfirmed
  <2>18. Incomplete'
    BY <1>1, <1>2, FewerIncomplete DEF CalmState
  <2>19. Clean'
    BY <1>1, <1>2, <1>8, <2>2 DEF CalmState, Clean
  <2>20. ASSUME driver[Leader].pc = "waiting", NEW n \in Rekeys, n = i PROVE Spent(n)'
    <3>1. f = Fragment(InitMsg(Leader, i), f.part) /\ f.part \in Parts
      BY <1>4, <2>2, FragmentIs
    <3>2. f \notin Net' /\ f \notin rekey_reasm'[Follower]
      BY <2>5, <2>1, <2>8, <2>a
    <3>3. f \notin rekey_confirm_reasm[Follower]
      BY <1>8, <2>2, <2>15, <2>20 DEF CalmState, Clean
    <3>4. f \notin AtFollower'
      BY <1>1, <1>2, <3>2, <3>3 DEF AtFollower, Arriving
    <3>5. ~Whole(AtFollower', InitMsg(Leader, n))
      BY <2>20, <3>1, <3>4 DEF Whole
    <3> QED BY <1>1, <3>5 DEF Spent
  <2>21. Answered'
    <3>1. ASSUME driver[Leader].pc = "waiting", NEW m \in Messages, m.type = "Response",
                 m.rekey = driver[Leader].rekey, Whole(AtLeader', m)
          PROVE  pending'[Follower] = m.sess /\ m.sess > current[Leader] /\ Spent(m.rekey)'
      <4>1. m = A
        <5>1. ASSUME m # A PROVE FALSE
          <6>1. Whole(AtLeader, m)
            BY <2>5, <2>9, <3>1, <5>1, WholeOther
          <6>2. pending[Follower] = m.sess /\ m.sess > current[Leader]
            BY <3>1, <6>1 DEF CalmState, Answered
          <6> QED BY <1>8, <2>2, <2>n, <6>2 DEF NoSession
        <5> QED BY <5>1
      <4>2. sent = FRAGS
        <5>1. Fragment(A, FRAGS) \in AtLeader'
          BY <3>1, <4>1, SomePart DEF Whole
        <5>2. Fragment(A, FRAGS) \in Cut(A, 1 .. sent)
          BY <2>6, <2>9, <5>1, FragmentOf
        <5>3. \A g \in Cut(A, 1 .. sent) : g.part \in 1 .. sent
          BY CutIs
        <5>4. FRAGS \in 1 .. sent
          BY <5>2, <5>3, FragmentOf
        <5> QED BY <5>4, RekeyAssumption DEF Parts
      <4>3. current[Leader] <= made
        BY DEF CalmState, Known
      <4>4. m.rekey \in Rekeys
        BY Numbers
      <4>5. Spent(m.rekey)'
        BY <2>20, <2>a, <3>1, <4>1, <4>4
      <4> QED BY <2>10, <2>a, <2>n, <4>1, <4>2, <4>3, <4>5
    <3> QED BY <1>1, <1>2, <3>1 DEF Answered
  <2>22. Gap'
    <3>1. ASSUME NEW s \in Nat, Live(s) PROVE FALSE
      BY <1>8, <2>2, <3>1 DEF Live, NoSession
    <3>2. ~LeaderFirst /\ ~Confirming
      <4>1. driver[Leader].sess \in Int
        BY Numbers
      <4> QED BY <2>n, <3>1, <4>1 DEF LeaderFirst, Confirming
    <3>3. Agree \/ FollowerFirst
      BY <3>2 DEF CalmState, Gap
    <3>4. driver[Leader].pc = "confirmed" => FollowerFirst
      BY <3>2 DEF CalmState, Gap
    <3>5. Agree => Agree'
      BY <1>1, <1>2 DEF Agree
    <3>6. FollowerFirst => FollowerFirst'
      <4>1. LastConfirm.type = "Confirm"
        BY MessagesAre DEF LastConfirm
      <4>2. LastConfirm' = LastConfirm
        BY <1>1, <1>2 DEF LastConfirm
      <4> QED BY <1>1, <1>2, <2>5, <2>a, <4>1, <4>2 DEF FollowerFirst
    <3> QED BY <1>1, <1>2, <3>3, <3>4, <3>5, <3>6 DEF Gap
  <2>23. Genuine'
    <3>1. ASSUME NEW m \in Messages, m.type = "Confirm", Whole(Arriving', m) PROVE Whole(Arriving, m)
      BY <2>5, <2>9, <2>a, <3>1, WholeOther
    <3>2. LastConfirm' = LastConfirm
      BY <1>1, <1>2 DEF LastConfirm
    <3> QED BY <1>1, <1>2, <3>1, <3>2 DEF CalmState, Genuine
  <2> QED BY <2>11, <2>12, <2>13, <2>14, <2>16, <2>17, <2>18, <2>19, <2>21, <2>22, <2>23 DEF CalmState
<1> QED BY <1>7, <1>9, <1>10

LEMMA AcceptCalm ==
    ASSUME TypeOK, TypeOK', Calm, CalmState, [Next]_vars, NEW p \in Peers, NEW d \in net,
           d.frag.msg.to = p, AcceptConfirm(p, d)
    PROVE  /\ CalmState'
           /\ \/ current' = current
              \/ /\ current[Follower] < current[Leader]
                 /\ current' = [current EXCEPT ![Follower] = current[Leader]]
              \/ /\ Agree /\ \E s \in Sessions : s > current[Follower]
                    /\ current' = [current EXCEPT ![Follower] = s]
<1> DEFINE Moved == \/ current' = current
                    \/ /\ current[Follower] < current[Leader]
                       /\ current' = [current EXCEPT ![Follower] = current[Leader]]
                    \/ /\ Agree /\ \E s \in Sessions : s > current[Follower]
                          /\ current' = [current EXCEPT ![Follower] = s]
<1>1. /\ setting' = setting /\ Leader' = Leader /\ Follower' = Follower
      /\ Messages' = Messages /\ Rekeys' = Rekeys
  BY SettingKept
<1>2. /\ driver' = driver /\ started' = started /\ made' = made /\ reasm' = reasm
      /\ rekey_reasm' = rekey_reasm /\ hs_rx' = hs_rx /\ blocked' = blocked /\ net' = net \ {d}
  BY DEF AcceptConfirm, channel
<1>3. /\ rekey_confirm_reasm \in [Peers -> SUBSET Fragments]
      /\ pending \in [Peers -> Sessions \cup {NoSession}] /\ current \in [Peers -> Sessions]
      /\ Leader \in Peers /\ Follower \in Peers /\ Leader # Follower /\ p \in {Leader, Follower}
  BY CalmPeers DEF TypeOK
<1>s. Single /\ Kinds
  BY DEF CalmState
<1>4. p = Follower /\ pending[Follower] # NoSession
  BY <1>3 DEF AcceptConfirm, CalmState, Roles
<1> DEFINE f == d.frag
           R == rekey_confirm_reasm[Follower]
           r == push_parts(R, f)
<1>5. f \in Fragments /\ f.msg \in Messages /\ f \in Net /\ R \in SUBSET Fragments
      /\ f.msg.type \in {"Init", "Confirm"}
  BY <1>3, <1>4, <1>s, ToLeader DEF Net
<1>6. \/ /\ r.out = {} /\ r.left = R \cup {f} /\ ~Whole(R \cup {f}, f.msg)
      \/ /\ r.out # {} /\ \A g \in r.out : g.msg = f.msg
         /\ r.left = {g \in R : g.msg # f.msg} /\ Whole(R \cup {f}, f.msg)
  <2>1. setting.obf /\ f \in Fragments /\ R \in SUBSET Fragments
    BY <1>5, CalmPeers
  <2> HIDE DEF f, R
  <2>3. \/ /\ push_parts(R, f).out = {} /\ push_parts(R, f).left = R \cup {f}
           /\ ~Whole(R \cup {f}, f.msg)
        \/ /\ push_parts(R, f).out # {} /\ \A g \in push_parts(R, f).out : g.msg = f.msg
           /\ push_parts(R, f).left = {g \in R : g.msg # f.msg}
           /\ Whole(R \cup {f}, f.msg)
    BY ONLY <2>1, PushedObf
  <2> QED BY <2>3
<1>7. /\ rekey_confirm_reasm'[Follower] = r.left
      /\ pending' = IF r.out = {} THEN pending ELSE [pending EXCEPT ![Follower] = NoSession]
      /\ IF r.out # {} /\ Confirms(r.out, pending[Follower])
         THEN current' = [current EXCEPT ![Follower] = pending[Follower]]
         ELSE current' = current
  BY <1>3, <1>4 DEF AcceptConfirm, InstallNewSession, sessions
<1>8. Net' = Net \ {f}
  BY <1>2, <1>s, Taken
<1>9. R \subseteq Arriving /\ f \in Arriving /\ Arriving \subseteq AtFollower /\ Arriving = Net \cup R
  BY <1>5 DEF Arriving, AtFollower
<1>10. Arriving' = (Net \ {f}) \cup r.left
  BY <1>1, <1>7, <1>8 DEF Arriving
<1>11. Arriving' \subseteq Arriving
  <2>1. r.left \subseteq R \cup {f}
    BY <1>6
  <2> QED BY <1>9, <1>10, <2>1
<1>12. AtFollower' \subseteq AtFollower
  BY <1>1, <1>2, <1>11 DEF AtFollower
<1>13. AtLeader' \subseteq AtLeader
  BY <1>1, <1>2, <1>8 DEF AtLeader
<1>14. pending'[Leader] = pending[Leader] /\ current'[Leader] = current[Leader]
  BY <1>3, <1>7
<1> HIDE DEF f, R, r
<1>15. CASE r.out = {}
  <2>1. r.left = R \cup {f} /\ ~Whole(R \cup {f}, f.msg) /\ pending' = pending /\ current' = current
    BY <1>6, <1>7, <1>15
  <2>2. Arriving' = Arriving
    BY <1>5, <1>9, <1>10, <2>1
  <2>3. Roles'
    BY <1>1, <1>2, <2>1 DEF CalmState, Roles
  <2>4. Single'
    <3>1. \A e, g \in net' : e.frag = g.frag => e = g
      BY <1>2, <1>s DEF Single
    <3>2. \A g \in Net \ {f} : g.msg.type = "Confirm" => g \notin R \cup {f}
      BY <1>s DEF Single, R
    <3> QED BY <1>1, <1>7, <1>8, <2>1, <3>1, <3>2 DEF Single
  <2>5. Incomplete'
    <3>1. ASSUME NEW m \in Messages, Whole(R \cup {f}, m) PROVE FALSE
      <4>1. m # f.msg
        BY <2>1, <3>1
      <4>2. Whole(R, m)
        BY <3>1, <4>1, WholeOther
      <4> QED BY <4>2 DEF CalmState, Incomplete, R
    <3> QED BY <1>1, <1>2, <1>7, <2>1, <3>1 DEF CalmState, Incomplete
  <2>6. Clean'
    BY <1>1, <1>4, <2>1 DEF Clean
  <2>7. started' \in Nat /\ started <= started'
    BY <1>2, Numbers
  <2>8. CalmState'
    BY <1>1, <1>2, <1>8, <1>12, <1>13, <2>1, <2>2, <2>3, <2>4, <2>5, <2>6, <2>7, Quieter
  <2> QED BY <2>1, <2>8
<1>16. CASE r.out # {}
  <2>1. /\ \A g \in r.out : g.msg = f.msg
        /\ r.left = {g \in R : g.msg # f.msg} /\ Whole(R \cup {f}, f.msg)
        /\ pending'[Follower] = NoSession
    BY <1>3, <1>6, <1>7, <1>16
  <2>2. R \cup {f} \subseteq Arriving /\ r.left \subseteq R
    BY <1>9, <2>1
  <2>3. Whole(Arriving, f.msg) /\ Whole(AtFollower, f.msg)
    <3>1. R \cup {f} \subseteq AtFollower
      BY <1>9, <2>2
    <3> QED BY <2>1, <2>2, <3>1, WholeGrows
  \* What holds whichever message was completed
  <2>4. Roles' /\ Kinds'
    BY <1>1, <1>2, <1>8, <1>14 DEF CalmState, Roles, Kinds
  <2>5. Single' /\ Incomplete'
    <3>1. net' \subseteq net
      BY <1>2
    <3>2. rekey_confirm_reasm'[Follower] \subseteq rekey_confirm_reasm[Follower]
      BY <1>7, <2>2 DEF R
    <3> QED BY <1>1, <1>2, <1>s, <3>1, <3>2, FewerSingle, FewerIncomplete DEF CalmState
  <2>6. Own'
    BY <1>1, <1>2, <1>8 DEF CalmState, Own
  <2>7. Unconfirmed'
    BY <1>1, <1>2, <1>12 DEF CalmState, Unconfirmed
  <2>8. Genuine'
    <3>1. \A m : Whole(Arriving', m) => Whole(Arriving, m)
      BY <1>11, WholeGrows
    <3>2. LastConfirm' = LastConfirm
      BY <1>1, <1>2 DEF LastConfirm
    <3> QED BY <1>1, <1>2, <1>14, <3>1, <3>2 DEF CalmState, Genuine
  <2>9. current'[Follower] <= made => Known'
    <3>1. pending'[Follower] <= made
      BY <2>1, Numbers DEF NoSession
    <3> QED BY <1>1, <1>2, <1>12, <1>13, <1>14, <3>1 DEF CalmState, Known
  <2>10. current[Follower] <= made /\ pending[Follower] <= made
    BY DEF CalmState, Known
  <2>11. driver[Leader].pc # "off" => f.msg.rekey = driver[Leader].rekey
    BY <1>5 DEF CalmState, Own
  <2>12. CASE f.msg.type = "Init"
    <3>1. f.msg = InitMsg(Leader, f.msg.rekey) /\ ~Spent(f.msg.rekey)
      <4>1. f.msg.to = Follower
        BY <1>4 DEF f
      <4>2. f.msg = InitMsg(Leader, f.msg.rekey)
        BY <1>5, <2>12, <4>1, MessagesAre
      <4> QED BY <2>3, <4>2 DEF Spent
    <3>2. current' = current
      <4>1. \E g \in r.out : TRUE
        BY <1>16
      <4>2. ~Confirms(r.out, pending[Follower])
        BY <2>1, <2>12, <4>1 DEF Confirms
      <4> QED BY <1>7, <4>2
    <3>3. Clean'
      BY <1>1, <1>2, <1>7, <2>1, <2>11, <3>1 DEF Clean
    <3>4. Answered'
      <4>1. ASSUME driver[Leader].pc = "waiting", NEW m \in Messages, m.type = "Response",
                   m.rekey = driver[Leader].rekey, Whole(AtLeader', m)
            PROVE  FALSE
        <5>1. Whole(AtLeader, m)
          BY <1>13, <4>1, WholeGrows
        <5>2. Spent(m.rekey)
          BY <4>1, <5>1 DEF CalmState, Answered
        <5> QED BY <2>11, <3>1, <4>1, <5>2
      <4> QED BY <1>1, <1>2, <4>1 DEF Answered
    <3>5. Gap'
      <4>1. \A s : ~Live(s)
        BY <1>5, <3>1 DEF Live
      <4>2. (Agree \/ FollowerFirst) /\ (driver[Leader].pc = "confirmed" => FollowerFirst)
        BY <4>1 DEF CalmState, Gap, LeaderFirst, Confirming
      <4>3. Agree => Agree'
        BY <1>1, <3>2 DEF Agree
      <4>4. FollowerFirst => FollowerFirst'
        BY <1>1, <1>2, <1>8, <3>2 DEF FollowerFirst, LastConfirm
      <4> QED BY <1>1, <1>2, <4>2, <4>3, <4>4 DEF Gap
    <3> QED BY <2>4, <2>5, <2>6, <2>7, <2>8, <2>9, <2>10, <3>2, <3>3, <3>4, <3>5 DEF CalmState
  <2>13. CASE f.msg.type = "Confirm"
    <3>1. \/ driver[Leader].pc = "confirmed" /\ f.msg = LastConfirm
          \/ driver[Leader].pc = "off" /\ f.msg.sess = current[Leader]
      BY <1>5, <2>3, <2>13 DEF CalmState, Genuine
    <3>2. Confirms(r.out, pending[Follower]) <=> f.msg.sess = pending[Follower]
      <4>1. \E g \in r.out : TRUE
        BY <1>16
      <4> QED BY <2>1, <2>13, <4>1 DEF Confirms
    <3>3. Clean' /\ Answered'
      BY <1>1, <1>2, <3>1 DEF Clean, Answered
    <3>4. CASE driver[Leader].pc = "confirmed" /\ f.msg = LastConfirm
      <4>1. Confirming
        BY <1>5, <3>4 DEF CalmState, Gap, FollowerFirst
      <4>2. pending[Follower] = driver[Leader].sess /\ f.msg.sess = pending[Follower]
        BY <3>4, <4>1, MessagesAre DEF Confirming, Live, LastConfirm
      <4>3. current' = [current EXCEPT ![Follower] = driver[Leader].sess]
        BY <1>7, <1>16, <3>2, <4>2
      <4>4. current'[Follower] = driver[Leader].sess
        BY <1>3, <4>3
      <4>5. \A g \in Net' : g.msg # LastConfirm
        <5>1. ASSUME NEW g \in Net', g.msg = LastConfirm PROVE FALSE
          <6>1. g \in Net /\ g # f /\ g \in Fragments
            BY <1>8, <5>1, Places
          <6>2. g = Fragment(f.msg, g.part) /\ g.part \in Parts
            BY <3>4, <5>1, <6>1, FragmentIs
          <6>3. g \in R
            BY <2>1, <6>1, <6>2 DEF Whole
          <6> QED BY <2>13, <3>4, <5>1, <6>1, <6>3, <1>s DEF Single, R
        <5> QED BY <5>1
      <4>6. FollowerFirst'
        <5>1. current[Leader] < driver[Leader].sess
          BY <4>1, Numbers DEF Confirming
        <5>2. LastConfirm' = LastConfirm
          BY <1>1, <1>2 DEF LastConfirm
        <5> QED BY <1>1, <1>2, <1>14, <3>4, <4>4, <4>5, <5>1, <5>2 DEF FollowerFirst
      <4>7. Gap'
        BY <4>6 DEF Gap
      <4>8. Known'
        BY <2>9, <2>10, <4>2, <4>4
      <4>9. CalmState'
        BY <2>4, <2>5, <2>6, <2>7, <2>8, <3>3, <4>7, <4>8 DEF CalmState
      <4>10. Moved
        <5>1. pending[Follower] \in Sessions
          BY <1>3, <1>4
        <5>2. driver[Leader].sess \in Sessions /\ driver[Leader].sess > current[Follower] /\ Agree
          BY <4>1, <4>2, <5>1 DEF Confirming, Agree
        <5> QED BY <4>3, <5>2
      <4> QED BY <4>9, <4>10
    <3>5. CASE driver[Leader].pc = "off" /\ f.msg.sess = current[Leader]
      <4>1. Agree \/ LeaderFirst
        BY <3>5 DEF CalmState, Gap, FollowerFirst
      <4>2. Agree' /\ current'[Follower] <= made /\ Moved
        <5>1. CASE Agree
          <6>1. \/ current' = current
                \/ current' = [current EXCEPT ![Follower] = current[Leader]]
            BY <1>7, <3>2, <3>5
          <6>2. current' = current
            BY <1>3, <5>1, <6>1 DEF Agree
          <6> QED BY <1>1, <2>10, <5>1, <6>2 DEF Agree
        <5>2. CASE LeaderFirst
          <6>1. pending[Follower] = current[Leader] /\ current[Follower] < current[Leader]
            BY <5>2 DEF LeaderFirst, Live
          <6>2. current' = [current EXCEPT ![Follower] = current[Leader]]
            BY <1>7, <1>16, <3>2, <3>5, <6>1
          <6>3. current'[Follower] = current[Leader]
            BY <1>3, <6>2
          <6> QED BY <1>1, <1>14, <2>10, <6>1, <6>2, <6>3 DEF Agree
        <5> QED BY <4>1, <5>1, <5>2
      <4>3. Gap'
        BY <1>1, <1>2, <3>5, <4>2 DEF Gap
      <4>4. CalmState'
        BY <2>4, <2>5, <2>6, <2>7, <2>8, <2>9, <3>3, <4>2, <4>3 DEF CalmState
      <4> QED BY <4>2, <4>4
    <3> QED BY <3>1, <3>4, <3>5
  <2> QED BY <1>5, <2>12, <2>13
<1> QED BY <1>15, <1>16

-----------------------------------------------------------------------------
(* The calm state is kept, and a rekey in it is a swap *)

LEMMA StepCalm == TypeOK /\ TypeOK' /\ CalmInv /\ [Next]_vars => CalmInv'
<1> SUFFICES ASSUME TypeOK, TypeOK', CalmInv, [Next]_vars, Calm' PROVE CalmState'
  BY DEF CalmInv
<1>1. Calm /\ CalmState
  BY SettingKept DEF Calm, CalmInv
<1>2. ASSUME NEW p \in Peers, Demux(p) PROVE CalmState'
  <2>1. CASE Unblock(p)
    BY <1>1, <2>1, UnblockCalm
  <2>2. ASSUME blocked[p] = {}, NEW d \in net, d.frag.msg.to = p, Forward(p, d) PROVE CalmState'
    <3>1. p = Leader
      BY <1>1, <2>2, DriverIsLeader DEF Forward
    <3> QED BY <1>1, <2>2, <3>1, ForwardCalm
  <2>3. ASSUME NEW d \in net, d.frag.msg.to = p, Respond(p, d) PROVE CalmState'
    BY <1>1, <2>3, RespondCalm
  <2>4. ASSUME NEW d \in net, d.frag.msg.to = p, AcceptConfirm(p, d) PROVE CalmState'
    BY <1>1, <2>4, AcceptCalm
  <2> QED BY <1>2, <2>1, <2>2, <2>3, <2>4 DEF Demux
<1>3. ASSUME NEW p \in Peers, Driver(p) PROVE CalmState'
  BY <1>1, <1>3, ReceiveCalm, InstallCalm, TimeoutCalm DEF Driver
<1>4. ASSUME NEW p \in Peers, StartRekey(p) \/ SendFails(p) \/ Prune(p) \/ RetirePrevious(p)
      PROVE  CalmState'
  BY <1>1, <1>4, StartCalm, SendFailsCalm, PruneCalm, IdleCalm
<1>5. ASSUME NEW d \in net, Lose(d) PROVE CalmState'
  BY <1>1, <1>5, LoseCalm
<1>6. CASE UNCHANGED vars
  BY <1>1, <1>6, IdleCalm
<1> QED BY <1>2, <1>3, <1>4, <1>5, <1>6 DEF Next

LEMMA InitCalm == Init => CalmInv
<1> SUFFICES ASSUME Init, Calm PROVE CalmState
  BY DEF CalmInv
<1>1. Leader \in Peers /\ Follower \in Peers
  BY CalmPeers
<1>2. /\ driver[Leader].pc = "off" /\ driver[Follower].pc = "off" /\ net = {}
      /\ hs_rx[Leader] = <<>> /\ hs_rx[Follower] = <<>> /\ blocked[Leader] = {} /\ blocked[Follower] = {}
      /\ pending[Leader] = NoSession /\ pending[Follower] = NoSession
      /\ rekey_confirm_reasm[Follower] = {} /\ rekey_reasm[Follower] = {} /\ reasm[Leader] = {}
      /\ current[Leader] = 0 /\ current[Follower] = 0 /\ made = 0 /\ started = 0
  BY <1>1 DEF Init, Off
<1>3. InSeq(hs_rx[Leader]) = {}
  BY <1>2 DEF InSeq
<1>4. Net = {} /\ Arriving = {} /\ AtFollower = {} /\ AtLeader = {}
  BY <1>2, <1>3 DEF Net, Arriving, AtFollower, AtLeader
<1>5. Roles /\ Kinds /\ Own /\ Unconfirmed /\ Clean /\ Answered
  BY <1>2, <1>4 DEF Roles, Kinds, Own, Unconfirmed, Clean, Answered
<1>6. Known /\ Single /\ Gap
  BY <1>2, <1>4 DEF Known, Single, Gap, Agree, NoSession
<1>7. Incomplete /\ Genuine
  BY <1>2, <1>4, NothingWhole DEF Incomplete, Genuine
<1> QED BY <1>5, <1>6, <1>7 DEF CalmState

\* On a prompt network, with obfuscated messages, the two ends of a rekey never disagree on
\* what is to be confirmed: CalmState, whatever fragments are lost, late or left over.
THEOREM CalmInvariance == Spec => []CalmInv
  BY InitCalm, StepCalm, TypeCorrect, PTL DEF Spec

\* What a step does to the current sessions.
LEMMA CalmMoves ==
    ASSUME TypeOK, TypeOK', Calm, CalmState, [Next]_vars
    PROVE  \/ current' = current
           \/ /\ \A p, q \in Peers : current[p] = current[q]
              /\ \E p \in Peers, s \in Sessions :
                    s > current[p] /\ current' = [current EXCEPT ![p] = s]
           \/ \E p, q \in Peers :
                 current[p] < current[q] /\ current' = [current EXCEPT ![p] = current[q]]
<1> DEFINE Move == \/ current' = current
                   \/ /\ \A p, q \in Peers : current[p] = current[q]
                      /\ \E p \in Peers, s \in Sessions :
                            s > current[p] /\ current' = [current EXCEPT ![p] = s]
                   \/ \E p, q \in Peers :
                         current[p] < current[q] /\ current' = [current EXCEPT ![p] = current[q]]
<1>l. Leader \in Peers /\ Follower \in Peers /\ Peers = {Leader, Follower} /\ Leader # Follower
  BY CalmPeers
<1>1. ASSUME NEW p \in Peers, DriverInstall(p) PROVE Move
  <2>1. p = Leader /\ driver[Leader].pc = "confirmed"
    BY <1>1, DriverIsLeader DEF DriverInstall
  <2>2. driver[Leader].sess \in Sessions
    <3>1. driver[Leader] \in Drivers
      BY <1>l DEF TypeOK
    <3> QED BY <2>1, <3>1 DEF Drivers, Off
  <2>3. current' = [current EXCEPT ![Leader] = driver[Leader].sess]
    BY <1>1, <2>1 DEF DriverInstall, InstallNewSession
  <2>4. CASE Confirming
    BY <1>l, <2>2, <2>3, <2>4 DEF Confirming, Agree
  <2>5. CASE FollowerFirst
    BY <1>l, <2>3, <2>5 DEF FollowerFirst
  <2> QED BY <2>1, <2>4, <2>5 DEF CalmState, Gap
<1>2. ASSUME NEW p \in Peers, NEW d \in net, AcceptConfirm(p, d), d.frag.msg.to = p PROVE Move
  <2>1. \/ current' = current
        \/ /\ current[Follower] < current[Leader]
           /\ current' = [current EXCEPT ![Follower] = current[Leader]]
        \/ /\ Agree /\ \E s \in Sessions : s > current[Follower]
              /\ current' = [current EXCEPT ![Follower] = s]
    BY <1>2, AcceptCalm
  <2>2. Agree => \A q, t \in Peers : current[q] = current[t]
    BY <1>l DEF Agree
  <2> QED BY <1>l, <2>1, <2>2
<1>3. ASSUME NEW p \in Peers, Demux(p) PROVE Move
  BY <1>2, <1>3 DEF Demux, Unblock, Forward, Respond, sessions
<1>4. ASSUME NEW p \in Peers, Driver(p) PROVE Move
  BY <1>1, <1>4 DEF Driver, DriverReceive, DriverTimeout
<1>5. ASSUME NEW p \in Peers, StartRekey(p) \/ SendFails(p) \/ Prune(p) \/ RetirePrevious(p) PROVE Move
  BY <1>5 DEF StartRekey, SendFails, Prune, RetirePrevious, sessions
<1>6. ASSUME NEW d \in net, Lose(d) PROVE Move
  BY <1>6 DEF Lose, sessions
<1>7. CASE UNCHANGED vars
  BY <1>7 DEF vars, sessions
<1> QED BY <1>3, <1>4, <1>5, <1>6, <1>7 DEF Next

(***************************************************************************)
(* With one peer rekeying in obfuscated form, prompt timers and no Confirm *)
(* lost, a rekey is the swap of KeySwap: one peer leads from agreement and *)
(* the other follows to the same session, though any fragment of an Init   *)
(* or a Response is lost, is late, or is left over in a Reassembler.       *)
(***************************************************************************)
THEOREM RefinesKeySwap == Spec => Swap!Safety
<1>1. Init => Swap!Init
  BY DEF Init, Swap!Init
<1>2. TypeOK /\ TypeOK' /\ CalmInv /\ [Next]_vars =>
          [Swap!Next]_(IF Calm THEN current ELSE [p \in Peers |-> 0])
  <2> SUFFICES ASSUME TypeOK, TypeOK', CalmInv, [Next]_vars
               PROVE  [Swap!Next]_(IF Calm THEN current ELSE [p \in Peers |-> 0])
    OBVIOUS
  <2>1. Calm' <=> Calm
    BY SettingKept DEF Calm
  <2>2. CASE ~Calm
    BY <2>1, <2>2
  <2>3. CASE Calm
    <3>1. CalmState
      BY <2>3 DEF CalmInv
    <3> QED BY <2>1, <2>3, <3>1, CalmMoves DEF Swap!Next, Swap!Lead, Swap!Follow, Swap!Agreed
  <2> QED BY <2>2, <2>3
<1> QED BY <1>1, <1>2, TypeCorrect, CalmInvariance, PTL DEF Spec, Swap!Safety
=============================================================================
