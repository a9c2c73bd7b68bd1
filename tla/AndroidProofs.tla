----------------------------- MODULE AndroidProofs -----------------------------
(***************************************************************************)
(* Proofs about AndroidService: the service's TUN is not closed under a    *)
(* tunnel that runs, no tunnel is left behind by a stop, the TUN is held    *)
(* through a reconnection and the chosen profile is the one in force, for  *)
(* every number of starts, stops, sessions and devices.                    *)
(***************************************************************************)
EXTENDS AndroidService, TLAPS

LEMMA ConstantTypes ==
    /\ MaxStarts \in Nat /\ MaxUserStops \in Nat /\ MaxSessions \in Nat /\ MaxFds \in Nat
    /\ "none" \notin Profiles
BY ServiceAssumption

-----------------------------------------------------------------------------
(***************************************************************************)
(* Types.  An instance needs a startTunnel, and these are numbered: that   *)
(* bounds the number of instances.                                         *)
(***************************************************************************)
Pcs == {"none", "new", "cleared", "tun", "start", "handshake", "traffic", "store", "connected",
        "foreground", "monitor", "polled", "lost", "lost_wait", "backoff", "done"}
SupRec  == [pc : Pcs, cancelled : BOOLEAN, ever : BOOLEAN, inst : 0..MaxStarts, fd : 0..MaxFds,
            sess : Sessions \cup {0}]
StopRec == [pc : {"none", "begin", "join", "native", "wait", "done"}, job : Sups \cup {0},
            inst : 0..MaxStarts, sess : Sessions \cup {0}]
SessRec == [st : Running \cup {"none", "down", "stopping", "aborted", "parked", "gone"},
            fd : 0..MaxFds, profile : Profiles \cup {"none"}]

Numbered == \A s \in Sups : sup[s].pc = "none" => inst < s

\* TypeOK in parts: the scalars, and the three tables.
Scalars ==
    /\ alive \in BOOLEAN /\ TRAFFIC \in BOOLEAN /\ orderly \in BOOLEAN /\ missed \in BOOLEAN
    /\ inst \in 0..MaxStarts /\ userStopped \subseteq 0..MaxStarts
    /\ fds \in 0..MaxFds /\ open \subseteq 1..fds /\ pfd \in open \cup {0}
    /\ tunnelJob \in Sups \cup {0} /\ CLIENT \in Sessions \cup {0} /\ main_wait \in Sessions \cup {0}
    /\ main \in {"free", "revoke", "destroy"}
    /\ status \in {"idle", "connecting", "connected", "reconnecting", "error"}
    /\ store \in Profiles /\ pending \in [Profiles -> Nat] /\ override \in Profiles \cup {"none"}

LEMMA TypeParts ==
    TypeOK <=> Scalars /\ sup \in [Sups -> SupRec] /\ stop \in [Stops -> StopRec]
                       /\ sess \in [Sessions -> SessRec]
BY DEF TypeOK, Scalars, SupRec, Pcs, StopRec, SessRec

LEMMA TypePartsNext ==
    Scalars' /\ sup' \in [Sups -> SupRec] /\ stop' \in [Stops -> StopRec]
             /\ sess' \in [Sessions -> SessRec] => TypeOK'
BY DEF TypeOK, Scalars, SupRec, Pcs, StopRec, SessRec

TInv == TypeOK /\ Numbered

LEMMA Bounds == \A s \in Sups : s \in Nat /\ s > 0 /\ s <= MaxStarts
BY ConstantTypes DEF Sups

LEMMA EmptyTypes == NoSup \in SupRec /\ NoStop \in StopRec /\ NoSess \in SessRec
BY ConstantTypes DEF NoSup, NoStop, NoSess, SupRec, StopRec, SessRec, Pcs

LEMMA NoCallsType == NoCalls \in [Profiles -> Nat] /\ \A p \in Profiles : ~(NoCalls[p] > 0)
BY DEF NoCalls

LEMMA InitTInv == Init => TInv
<1> SUFFICES ASSUME Init PROVE TInv
  OBVIOUS
<1>1. Scalars
  <2>1. 0 \in 0..MaxStarts /\ 0 \in 0..MaxFds
    BY ConstantTypes
  <2>2. alive \in BOOLEAN /\ TRAFFIC \in BOOLEAN /\ orderly \in BOOLEAN /\ missed \in BOOLEAN
    BY DEF Init
  <2>3. store \in Profiles /\ pending \in [Profiles -> Nat]
    BY ServiceAssumption, NoCallsType DEF Init
  <2> QED  BY <2>1, <2>2, <2>3 DEF Init, Scalars
<1>3. TypeOK
  BY <1>1, EmptyTypes, TypeParts DEF Init
<1>4. Numbered
  BY Bounds DEF Init, Numbered
<1> QED  BY <1>3, <1>4 DEF TInv

\* The tables keep their types under the updates the actions make.
LEMMA EndingType ==
    ASSUME TypeOK, NEW n, NEW st \in {"stopping", "parked", "down", "aborted", "gone"}
    PROVE  Ending(n, st) \in [Sessions -> SessRec]
<1>1. sess \in [Sessions -> SessRec]
  BY TypeParts
<1>2. CASE n \in Sessions
  <2> DEFINE fd == IF st \in {"down", "gone"} THEN 0 ELSE sess[n].fd
  <2>1. fd \in 0..MaxFds
    BY <1>1, <1>2, ConstantTypes DEF SessRec
  <2> HIDE DEF fd
  <2>2. [NoSess EXCEPT !.st = st, !.fd = fd] \in SessRec
    BY <2>1, EmptyTypes DEF SessRec
  <2>3. [sess EXCEPT ![n] = [NoSess EXCEPT !.st = st, !.fd = fd]] \in [Sessions -> SessRec]
    BY <1>1, <2>2
  <2> QED  BY <2>3 DEF Ending, fd
<1>3. CASE n \notin Sessions
  BY <1>1, <1>3 DEF Ending
<1> QED  BY <1>2, <1>3

LEMMA NativeStopType ==
    ASSUME TypeOK, NativeStop
    PROVE  /\ TRAFFIC' \in BOOLEAN /\ CLIENT' \in Sessions \cup {0} /\ override' = override
           /\ sess' \in [Sessions -> SessRec]
BY EndingType, TypeParts DEF NativeStop

LEMMA SetProfileType ==
    ASSUME TypeOK, NEW p \in Profiles, SetProfile(p)
    PROVE  override' \in Profiles /\ sess' \in [Sessions -> SessRec]
<1>1. sess \in [Sessions -> SessRec]
  BY TypeParts
<1> QED  BY <1>1 DEF SetProfile, SessRec

LEMMA CancelType ==
    ASSUME TypeOK, NEW s \in Sups \cup {0}
    PROVE  Cancel(s) \in [Sups -> SupRec]
<1>1. sup \in [Sups -> SupRec]
  BY TypeParts
<1>2. Idle(s) \in BOOLEAN
  BY DEF Idle
<1> QED  BY <1>1, <1>2 DEF Cancel, SupRec

LEMMA ReturnType ==
    ASSUME TypeOK, NEW s \in Sups
    PROVE  Return(s) \in [Sups -> SupRec]
<1>2. [NoSup EXCEPT !.pc = "done"] \in SupRec
  BY EmptyTypes DEF SupRec, Pcs
<1> QED  BY <1>2, TypeParts DEF Return

LEMMA LaunchType ==
    ASSUME TypeOK, NEW c \in Stops, LaunchStop(c)
    PROVE  /\ userStopped' \subseteq 0..MaxStarts /\ tunnelJob' = 0
           /\ stop' \in [Stops -> StopRec]
<1>1. [NoStop EXCEPT !.pc = "begin", !.job = tunnelJob, !.inst = inst] \in StopRec
  BY EmptyTypes, TypeParts DEF StopRec, Scalars
<1> QED  BY <1>1, TypeParts DEF LaunchStop, Scalars

\* Supervisor s goes on to pc: what its record is then, and that nobody else's changes.
Moves(s, pc, ever, fd, n) ==
    /\ sup' \in [Sups -> SupRec]
    /\ \A t \in Sups : t # s => sup'[t] = sup[t]
    /\ sup'[s].pc = pc /\ sup'[s].cancelled = sup[s].cancelled /\ sup'[s].ever = ever
    /\ sup'[s].inst = sup[s].inst /\ sup'[s].fd = fd /\ sup'[s].sess = n

\* Supervisor s returns.
Ends(s) ==
    /\ sup' \in [Sups -> SupRec]
    /\ \A t \in Sups : t # s => sup'[t] = sup[t]
    /\ sup'[s].pc = "done"

LEMMA ReturnEnds ==
    ASSUME TypeOK, NEW s \in Sups, sup' = Return(s)
    PROVE  Ends(s)
<1>1. [NoSup EXCEPT !.pc = "done"].pc = "done"
  BY DEF NoSup
<1>2. sup' \in [Sups -> SupRec]
  BY ReturnType
<1> QED  BY <1>1, <1>2, TypeParts DEF Ends, Return

LEMMA MoveGoto ==
    ASSUME TypeOK, NEW s \in Sups, NEW pc \in Pcs, sup' = Goto(s, pc)
    PROVE  Moves(s, pc, sup[s].ever, sup[s].fd, sup[s].sess)
<1>1. sup \in [Sups -> SupRec] /\ sup[s] \in SupRec
  BY TypeParts
<1> QED  BY <1>1 DEF Moves, Goto, SupRec

LEMMA MoveSess ==
    ASSUME TypeOK, NEW s \in Sups, NEW pc \in Pcs, NEW n \in Sessions \cup {0},
           sup' = [sup EXCEPT ![s].pc = pc, ![s].sess = n]
    PROVE  Moves(s, pc, sup[s].ever, sup[s].fd, n)
<1>1. sup \in [Sups -> SupRec] /\ sup[s] \in SupRec
  BY TypeParts
<1> QED  BY <1>1 DEF Moves, SupRec

LEMMA MoveFd ==
    ASSUME TypeOK, NEW s \in Sups, NEW pc \in Pcs, NEW fd \in 0..MaxFds,
           sup' = [sup EXCEPT ![s].pc = pc, ![s].fd = fd]
    PROVE  Moves(s, pc, sup[s].ever, fd, sup[s].sess)
<1>1. sup \in [Sups -> SupRec] /\ sup[s] \in SupRec
  BY TypeParts
<1> QED  BY <1>1 DEF Moves, SupRec

LEMMA MoveFdSess ==
    ASSUME TypeOK, NEW s \in Sups, NEW pc \in Pcs, NEW n \in Sessions \cup {0},
           sup' = [sup EXCEPT ![s].pc = pc, ![s].fd = 0, ![s].sess = n]
    PROVE  Moves(s, pc, sup[s].ever, 0, n)
<1>1. sup \in [Sups -> SupRec] /\ sup[s] \in SupRec
  BY TypeParts
<1>2. 0 \in 0..MaxFds
  BY ConstantTypes
<1> DEFINE r == [sup[s] EXCEPT !.pc = pc, !.fd = 0, !.sess = n]
<1>3. /\ r \in SupRec /\ r.pc = pc /\ r.ever = sup[s].ever /\ r.fd = 0 /\ r.sess = n
      /\ r.cancelled = sup[s].cancelled /\ r.inst = sup[s].inst
  BY <1>1, <1>2 DEF SupRec
<1>4. sup' = [sup EXCEPT ![s] = r]
  OBVIOUS
<1> HIDE DEF r
<1>5. \A f \in [Sups -> SupRec], q \in SupRec :
         LET g == [f EXCEPT ![s] = q] IN
         g \in [Sups -> SupRec] /\ g[s] = q /\ \A t \in Sups : t # s => g[t] = f[t]
  OBVIOUS
<1>6. sup' \in [Sups -> SupRec] /\ sup'[s] = r /\ \A t \in Sups : t # s => sup'[t] = sup[t]
  BY ONLY <1>1, <1>3, <1>4, <1>5, s \in Sups
<1> QED  BY <1>3, <1>6 DEF Moves

LEMMA MoveEver ==
    ASSUME TypeOK, NEW s \in Sups, NEW pc \in Pcs,
           sup' = [sup EXCEPT ![s].pc = pc, ![s].ever = TRUE]
    PROVE  Moves(s, pc, TRUE, sup[s].fd, sup[s].sess)
<1>1. sup \in [Sups -> SupRec] /\ sup[s] \in SupRec
  BY TypeParts
<1> QED  BY <1>1 DEF Moves, SupRec

\* Every step keeps the types; each action by what it writes.
LEMMA RequestsType ==
    ASSUME TInv,
           \/ \E s \in Sups : StartTunnel(s)
           \/ StartRefused
           \/ \E k \in 1..MaxUserStops : StopTunnel(k)
           \/ \E p \in Profiles : SelectProfile(p) \/ RunSetProfile(p)
           \/ \E why \in {"revoke", "destroy"} : Teardown(why)
           \/ TeardownEnds
           \/ \E n \in Sessions : TunnelStops(n) \/ TasksEnd(n)
    PROVE  TInv'
<1>0. TypeOK /\ Numbered
  BY DEF TInv
<1>t. /\ Scalars /\ sup \in [Sups -> SupRec] /\ stop \in [Stops -> StopRec]
      /\ sess \in [Sessions -> SessRec]
  BY <1>0, TypeParts
<1>1. ASSUME NEW s \in Sups, StartTunnel(s) PROVE TInv'
  <2>1. inst < s /\ inst' \in 0..MaxStarts /\ inst' <= s
    BY <1>0, <1>1, <1>t, Bounds, ConstantTypes DEF StartTunnel, Numbered, Scalars
  <2> DEFINE new == [NoSup EXCEPT !.pc = "new", !.inst = inst']
  <2>2. new \in SupRec /\ new.pc = "new"
    BY <2>1, EmptyTypes DEF SupRec, Pcs
  <2>3. Cancel(tunnelJob) \in [Sups -> SupRec]
    BY <1>0, <1>t, CancelType DEF Scalars
  <2> HIDE DEF new
  <2>4. sup' = [Cancel(tunnelJob) EXCEPT ![s] = new]
    BY <1>1 DEF StartTunnel, new
  <2>5. sup' \in [Sups -> SupRec]
    BY <2>2, <2>3, <2>4
  <2>6. Scalars'
    BY <1>1, <1>t, <2>1 DEF StartTunnel, Scalars, bridge_vars
  <2>7. TypeOK'
    BY <1>1, <1>t, <2>5, <2>6, TypePartsNext DEF StartTunnel, bridge_vars
  <2>8. ASSUME NEW t \in Sups, sup'[t].pc = "none" PROVE inst' < t
    <3>1. t # s
      BY <2>2, <2>3, <2>4, <2>8
    <3>2. sup[t].pc = "none"
      BY <1>t, <2>3, <2>4, <2>8, <3>1 DEF Cancel, SupRec
    <3>3. ~(t < s)
      BY <1>1, <3>2 DEF StartTunnel
    <3> QED  BY <1>t, <2>1, <3>1, <3>3, Bounds DEF Scalars
  <2> QED  BY <2>7, <2>8 DEF TInv, Numbered
<1>2. CASE StartRefused
  BY <1>0, <1>2, <1>t, TypePartsNext DEF StartRefused, TInv, Scalars, Numbered, bridge_vars
<1>3. ASSUME NEW k \in 1..MaxUserStops, StopTunnel(k) PROVE TInv'
  <2>1. <<k, "user">> \in Stops
    BY DEF Stops
  <2>2. /\ userStopped' \subseteq 0..MaxStarts /\ tunnelJob' = 0
        /\ stop' \in [Stops -> StopRec]
    BY <1>0, <1>3, <2>1, LaunchType DEF StopTunnel
  <2> QED
    BY <1>0, <1>3, <1>t, <2>2, TypePartsNext DEF StopTunnel, TInv, Scalars, Numbered, bridge_vars
<1>4. ASSUME NEW p \in Profiles, SelectProfile(p) PROVE TInv'
  BY <1>0, <1>4, <1>t, TypePartsNext DEF SelectProfile, TInv, Scalars, Numbered, bridge_vars
<1>5. ASSUME NEW p \in Profiles, RunSetProfile(p) PROVE TInv'
  <2>1. override' \in Profiles /\ sess' \in [Sessions -> SessRec] /\ UNCHANGED <<CLIENT, TRAFFIC>>
    BY <1>0, <1>5, SetProfileType DEF RunSetProfile, SetProfile
  <2> QED
    BY <1>0, <1>5, <1>t, <2>1, TypePartsNext DEF RunSetProfile, TInv, Scalars, Numbered
<1>6. ASSUME NEW why \in {"revoke", "destroy"}, Teardown(why) PROVE TInv'
  <2>1. /\ TRAFFIC' \in BOOLEAN /\ CLIENT' \in Sessions \cup {0} /\ override' = override
        /\ sess' \in [Sessions -> SessRec]
    BY <1>0, <1>6, NativeStopType DEF Teardown
  <2>2. Cancel(tunnelJob) \in [Sups -> SupRec] /\ sup' = Cancel(tunnelJob)
    BY <1>0, <1>6, <1>t, CancelType DEF Scalars, Teardown
  <2>3. Numbered'
    BY <1>0, <1>6, <1>t, <2>2 DEF Numbered, Cancel, SupRec, Teardown
  <2>4. Scalars'
    BY <1>6, <1>t, <2>1 DEF Scalars, Teardown
  <2> QED
    BY <1>6, <1>t, <2>1, <2>2, <2>3, <2>4, TypePartsNext DEF Teardown, TInv
<1>7. CASE TeardownEnds
  <2>1. sup' \in [Sups -> SupRec] /\ \A s \in Sups : sup'[s].pc = sup[s].pc
    <3>1. CASE main = "destroy"
      <4>1. ASSUME NEW s \in Sups
            PROVE  /\ [sup[s] EXCEPT !.cancelled = sup[s].cancelled \/ sup[s].inst = inst] \in SupRec
                   /\ [sup[s] EXCEPT !.cancelled = sup[s].cancelled \/ sup[s].inst = inst].pc = sup[s].pc
        <5>1. sup[s] \in SupRec /\ (sup[s].cancelled \/ sup[s].inst = inst) \in BOOLEAN
          BY <1>t
        <5> QED  BY <5>1 DEF SupRec
      <4>2. sup' = [s \in Sups |-> [sup[s] EXCEPT !.cancelled = sup[s].cancelled \/ sup[s].inst = inst]]
        BY <1>7, <3>1 DEF TeardownEnds
      <4> QED  BY <4>1, <4>2
    <3>2. CASE main # "destroy"
      BY <1>7, <1>t, <3>2 DEF TeardownEnds
    <3> QED  BY <3>1, <3>2
  <2>2. Scalars'
    <3>1. pending' \in [Profiles -> Nat]
      BY <1>7, <1>t, NoCallsType DEF TeardownEnds, Scalars
    <3> QED  BY <1>7, <1>t, <3>1 DEF TeardownEnds, Scalars, bridge_vars
  <2> QED
    BY <1>0, <1>7, <1>t, <2>1, <2>2, TypePartsNext DEF TeardownEnds, TInv, Numbered, bridge_vars
<1>8. ASSUME NEW n \in Sessions, TunnelStops(n) \/ TasksEnd(n) PROVE TInv'
  <2>1. sess' \in [Sessions -> SessRec]
    BY <1>0, <1>8, EndingType DEF TunnelStops, TasksEnd
  <2>2. /\ UNCHANGED <<alive, inst, pfd, tunnelJob, userStopped, main, main_wait, status, sup, stop>>
        /\ UNCHANGED <<CLIENT, TRAFFIC, override, store, pending, fds, open, orderly, missed>>
    BY <1>8 DEF TunnelStops, TasksEnd
  <2> QED
    BY <1>0, <1>t, <2>1, <2>2, TypePartsNext DEF TInv, Scalars, Numbered
<1> QED  BY <1>1, <1>2, <1>3, <1>4, <1>5, <1>6, <1>7, <1>8

-----------------------------------------------------------------------------
(***************************************************************************)
(* The supervisor's steps, each by the move it makes.                      *)
(***************************************************************************)
LEMMA CancelledMoves ==
    ASSUME TypeOK, NEW s \in Sups, Cancelled(s)
    PROVE  Ends(s)
BY ReturnEnds DEF Cancelled

LEMMA ClearMoves ==
    ASSUME TypeOK, NEW s \in Sups, Clear(s)
    PROVE  \/ sup[s].inst \in userStopped /\ Ends(s) /\ UNCHANGED bridge_vars
           \/ /\ sup[s].inst \notin userStopped /\ NativeStop
              /\ Moves(s, "cleared", sup[s].ever, sup[s].fd, CLIENT)
BY ReturnEnds, MoveSess, TypeParts DEF Clear, Scalars, Pcs

LEMMA ProfileMoves ==
    ASSUME TypeOK, NEW s \in Sups, Profile(s)
    PROVE  Moves(s, "tun", sup[s].ever, sup[s].fd, 0)
BY MoveSess DEF Profile, Pcs

LEMMA TunMoves ==
    ASSUME TypeOK, NEW s \in Sups, Tun(s)
    PROVE  \/ /\ Mine(s) /\ pfd # 0 /\ UNCHANGED <<pfd, fds, open>>
              /\ Moves(s, "start", sup[s].ever, pfd, sup[s].sess)
           \/ /\ ~(Mine(s) /\ pfd # 0)
              /\ fds < MaxFds /\ fds' = fds + 1 /\ open' = open \cup {fds + 1}
              /\ pfd' = IF Mine(s) THEN fds + 1 ELSE pfd
              /\ Moves(s, "start", sup[s].ever, fds + 1, sup[s].sess)
<1>1. Scalars
  BY TypeParts
<1>2. pfd \in 0..MaxFds /\ (fds < MaxFds => fds + 1 \in 0..MaxFds)
  BY <1>1, ConstantTypes DEF Scalars
<1> QED  BY <1>2, MoveFd DEF Tun, Pcs

LEMMA NativeStartMoves ==
    ASSUME TypeOK, NEW s \in Sups, NativeStart(s)
    PROVE  /\ started + 1 \in Sessions
           /\ Moves(s, "handshake", sup[s].ever, 0, started + 1)
BY MoveFdSess DEF NativeStart, Pcs

LEMMA EstablishedMoves ==
    ASSUME TypeOK, NEW s \in Sups, Established(s)
    PROVE  Moves(s, "traffic", sup[s].ever, sup[s].fd, sup[s].sess)
BY MoveGoto DEF Established, Pcs

LEMMA StoreTrafficMoves ==
    ASSUME TypeOK, NEW s \in Sups, StoreTraffic(s)
    PROVE  Moves(s, "store", sup[s].ever, sup[s].fd, sup[s].sess)
BY MoveGoto DEF StoreTraffic, Pcs

LEMMA StoreClientMoves ==
    ASSUME TypeOK, NEW s \in Sups, StoreClient(s)
    PROVE  Moves(s, "connected", sup[s].ever, sup[s].fd, 0)
BY MoveSess DEF StoreClient, Pcs

LEMMA ConnectFailsMoves ==
    ASSUME TypeOK, NEW s \in Sups, ConnectFails(s)
    PROVE  \/ /\ sup[s].ever /\ Moves(s, "lost", sup[s].ever, 0, 0)
              /\ UNCHANGED <<userStopped, tunnelJob, stop>>
           \/ /\ ~sup[s].ever /\ Ends(s)
              /\ IF Mine(s) THEN LaunchStop(<<s, "failure">>)
                            ELSE UNCHANGED <<userStopped, tunnelJob, stop>>
BY MoveFdSess, ReturnEnds DEF ConnectFails, Pcs

LEMMA NowConnectedMoves ==
    ASSUME TypeOK, NEW s \in Sups, NowConnected(s)
    PROVE  Moves(s, "foreground", TRUE, sup[s].fd, sup[s].sess)
BY MoveEver DEF NowConnected, Pcs

LEMMA ForegroundMoves ==
    ASSUME TypeOK, NEW s \in Sups, Foreground(s)
    PROVE  Moves(s, "monitor", sup[s].ever, sup[s].fd, sup[s].sess)
BY MoveGoto DEF Foreground, Pcs

LEMMA MonitorMoves ==
    ASSUME TypeOK, NEW s \in Sups, Monitor(s)
    PROVE  Moves(s, IF Up THEN "polled" ELSE "lost", sup[s].ever, sup[s].fd, sup[s].sess)
BY MoveGoto DEF Monitor, Pcs

LEMMA LostMoves ==
    ASSUME TypeOK, NEW s \in Sups, Lost(s)
    PROVE  \/ sup[s].inst \in userStopped /\ Ends(s) /\ UNCHANGED bridge_vars
           \/ /\ sup[s].inst \notin userStopped /\ NativeStop
              /\ Moves(s, "lost_wait", sup[s].ever, sup[s].fd, CLIENT)
BY ReturnEnds, MoveSess, TypeParts DEF Lost, Scalars, Pcs

LEMMA ReconnectMoves ==
    ASSUME TypeOK, NEW s \in Sups, Reconnect(s)
    PROVE  Moves(s, "backoff", sup[s].ever, sup[s].fd, 0)
BY MoveSess DEF Reconnect, Pcs

LEMMA SuperviseType ==
    ASSUME TInv, NEW s \in Sups, Supervise(s)
    PROVE  TInv'
<1>0. TypeOK /\ Numbered
  BY DEF TInv
<1>t. /\ Scalars /\ sup \in [Sups -> SupRec] /\ stop \in [Stops -> StopRec]
      /\ sess \in [Sessions -> SessRec]
  BY <1>0, TypeParts
<1>n. inst' = inst
  BY DEF Supervise, Cancelled, Clear, Profile, Tun, NativeStart, Established, StoreTraffic,
         StoreClient, ConnectFails, NowConnected, Foreground, Monitor, Lost, Reconnect
<1>k. ASSUME Ends(s) \/ \E pc \in Pcs \ {"none"} : \E ever, fd, n : Moves(s, pc, ever, fd, n),
             Scalars', stop' \in [Stops -> StopRec], sess' \in [Sessions -> SessRec]
      PROVE  TInv'
  <2>1. sup' \in [Sups -> SupRec] /\ (\A t \in Sups : t # s => sup'[t] = sup[t]) /\ sup'[s].pc # "none"
    BY <1>k DEF Ends, Moves
  <2> QED  BY <1>0, <1>n, <1>k, <2>1, TypePartsNext DEF TInv, Numbered
<1>1. CASE Cancelled(s)
  <2>1. Scalars' /\ stop' \in [Stops -> StopRec] /\ sess' \in [Sessions -> SessRec]
    BY <1>1, <1>t DEF Cancelled, Scalars, bridge_vars
  <2> QED  BY <1>0, <1>1, <1>k, <2>1, CancelledMoves DEF Pcs
<1>2. CASE Clear(s)
  <2>1. /\ TRAFFIC' \in BOOLEAN /\ CLIENT' \in Sessions \cup {0} /\ override' \in Profiles \cup {"none"}
        /\ sess' \in [Sessions -> SessRec]
    BY <1>0, <1>2, <1>t, NativeStopType, ClearMoves DEF Scalars, bridge_vars
  <2>2. Scalars' /\ stop' \in [Stops -> StopRec]
    BY <1>2, <1>t, <2>1 DEF Clear, Scalars
  <2> QED  BY <1>0, <1>2, <1>k, <2>1, <2>2, ClearMoves DEF Pcs
<1>3. CASE Profile(s)
  <2>1. /\ TRAFFIC' \in BOOLEAN /\ CLIENT' \in Sessions \cup {0} /\ override' \in Profiles \cup {"none"}
        /\ sess' \in [Sessions -> SessRec]
    BY <1>0, <1>3, <1>t, SetProfileType, ProfileMoves DEF Profile, SetProfile, Scalars, bridge_vars
  <2>2. Scalars' /\ stop' \in [Stops -> StopRec]
    BY <1>3, <1>t, <2>1 DEF Profile, Scalars
  <2> QED  BY <1>0, <1>3, <1>k, <2>1, <2>2, ProfileMoves DEF Pcs
<1>4. CASE Tun(s)
  <2>1. fds' \in 0..MaxFds /\ open' \subseteq 1..fds' /\ pfd' \in open' \cup {0}
    <3>1. CASE fds < MaxFds /\ fds' = fds + 1 /\ open' = open \cup {fds + 1} /\ pfd' \in {fds + 1, pfd}
      BY <1>t, <3>1, ConstantTypes DEF Scalars
    <3> QED  BY <1>0, <1>4, <1>t, <3>1, TunMoves DEF Scalars
  <2>2. Scalars' /\ stop' \in [Stops -> StopRec] /\ sess' \in [Sessions -> SessRec]
    BY <1>4, <1>t, <2>1 DEF Tun, Scalars, bridge_vars
  <2> QED  BY <1>0, <1>4, <1>k, <2>2, TunMoves DEF Pcs
<1>5. CASE NativeStart(s)
  <2>1. [st |-> "handshake", fd |-> sup[s].fd, profile |-> override] \in SessRec
    BY <1>t DEF SessRec, SupRec, Scalars, Running
  <2>2. sess' \in [Sessions -> SessRec]
    BY <1>5, <1>t, <2>1 DEF NativeStart
  <2>3. Scalars' /\ stop' \in [Stops -> StopRec]
    BY <1>5, <1>t DEF NativeStart, Scalars
  <2> QED  BY <1>0, <1>5, <1>k, <2>2, <2>3, NativeStartMoves DEF Pcs
<1>6. CASE Established(s)
  <2>1. sess' \in [Sessions -> SessRec]
    BY <1>6, <1>t DEF Established, SessRec, Running
  <2>2. Scalars' /\ stop' \in [Stops -> StopRec]
    BY <1>6, <1>t DEF Established, Scalars
  <2> QED  BY <1>0, <1>6, <1>k, <2>1, <2>2, EstablishedMoves DEF Pcs
<1>7. CASE StoreTraffic(s)
  <2>1. Scalars' /\ stop' \in [Stops -> StopRec] /\ sess' \in [Sessions -> SessRec]
    BY <1>7, <1>t DEF StoreTraffic, Scalars, bridge_vars
  <2> QED  BY <1>0, <1>7, <1>k, <2>1, StoreTrafficMoves DEF Pcs
<1>8. CASE StoreClient(s)
  <2>1. Scalars' /\ stop' \in [Stops -> StopRec] /\ sess' \in [Sessions -> SessRec]
    BY <1>8, <1>t DEF StoreClient, Scalars, bridge_vars, SupRec
  <2> QED  BY <1>0, <1>8, <1>k, <2>1, StoreClientMoves DEF Pcs
<1>9. CASE ConnectFails(s)
  <2>1. <<s, "failure">> \in Stops
    BY DEF Stops
  <2>2. sess' \in [Sessions -> SessRec]
    BY <1>0, <1>9, <1>t, EndingType DEF ConnectFails
  <2>3. /\ stop' \in [Stops -> StopRec] /\ tunnelJob' \in Sups \cup {0}
        /\ userStopped' \subseteq 0..MaxStarts
    BY <1>0, <1>9, <1>t, <2>1, ConnectFailsMoves, LaunchType DEF Scalars
  <2>4. Scalars'
    BY <1>9, <1>t, <2>3 DEF ConnectFails, Scalars
  <2> QED  BY <1>0, <1>9, <1>k, <2>2, <2>3, <2>4, ConnectFailsMoves DEF Pcs
<1>10. CASE NowConnected(s)
  <2>1. Scalars' /\ stop' \in [Stops -> StopRec] /\ sess' \in [Sessions -> SessRec]
    BY <1>10, <1>t DEF NowConnected, Scalars, bridge_vars
  <2> QED  BY <1>0, <1>10, <1>k, <2>1, NowConnectedMoves DEF Pcs
<1>11. CASE Foreground(s)
  <2>1. Scalars' /\ stop' \in [Stops -> StopRec] /\ sess' \in [Sessions -> SessRec]
    BY <1>11, <1>t DEF Foreground, Scalars, bridge_vars
  <2> QED  BY <1>0, <1>11, <1>k, <2>1, ForegroundMoves DEF Pcs
<1>12. CASE Monitor(s)
  <2>1. Scalars' /\ stop' \in [Stops -> StopRec] /\ sess' \in [Sessions -> SessRec]
    BY <1>12, <1>t DEF Monitor, Scalars, bridge_vars
  <2> QED  BY <1>0, <1>12, <1>k, <2>1, MonitorMoves DEF Pcs
<1>13. CASE Lost(s)
  <2>1. /\ TRAFFIC' \in BOOLEAN /\ CLIENT' \in Sessions \cup {0} /\ override' \in Profiles \cup {"none"}
        /\ sess' \in [Sessions -> SessRec]
    BY <1>0, <1>13, <1>t, NativeStopType, LostMoves DEF Scalars, bridge_vars
  <2>2. Scalars' /\ stop' \in [Stops -> StopRec]
    BY <1>13, <1>t, <2>1 DEF Lost, Scalars
  <2> QED  BY <1>0, <1>13, <1>k, <2>1, <2>2, LostMoves DEF Pcs
<1>14. CASE Reconnect(s)
  <2>1. Scalars' /\ stop' \in [Stops -> StopRec] /\ sess' \in [Sessions -> SessRec]
    BY <1>14, <1>t DEF Reconnect, Scalars, bridge_vars
  <2> QED  BY <1>0, <1>14, <1>k, <2>1, ReconnectMoves DEF Pcs
<1> QED
  BY <1>1, <1>2, <1>3, <1>4, <1>5, <1>6, <1>7, <1>8, <1>9, <1>10, <1>11, <1>12, <1>13, <1>14 DEF Supervise

LEMMA StoppingType ==
    ASSUME TInv, NEW c \in Stops, StopJoin(c) \/ StopNative(c) \/ StopMain(c) \/ StopLost(c)
    PROVE  TInv'
<1>0. TypeOK /\ Numbered
  BY DEF TInv
<1>t. /\ Scalars /\ sup \in [Sups -> SupRec] /\ stop \in [Stops -> StopRec]
      /\ sess \in [Sessions -> SessRec]
  BY <1>0, TypeParts
<1>d. [NoStop EXCEPT !.pc = "done"] \in StopRec
  BY EmptyTypes DEF StopRec
<1>1. CASE StopJoin(c)
  <2>1. stop' \in [Stops -> StopRec]
    BY <1>1, <1>t DEF StopJoin, Join, StopRec
  <2>2. stop[c].job \in Sups \cup {0}
    BY <1>t DEF StopRec
  <2>3. sup' \in [Sups -> SupRec] /\ \A s \in Sups : sup'[s].pc = sup[s].pc
    <3>1. CASE sup' = Cancel(stop[c].job)
      <4>1. sup' \in [Sups -> SupRec]
        BY <1>0, <2>2, <3>1, CancelType
      <4> QED  BY <1>t, <3>1, <4>1 DEF Cancel, SupRec
    <3> QED  BY <1>1, <1>t, <3>1 DEF StopJoin, Join
  <2>4. Scalars'
    BY <1>1, <1>t DEF StopJoin, Scalars, bridge_vars
  <2> QED  BY <1>0, <1>1, <1>t, <2>1, <2>3, <2>4, TypePartsNext DEF StopJoin, TInv, Numbered, bridge_vars
<1>2. CASE StopNative(c)
  <2>1. /\ TRAFFIC' \in BOOLEAN /\ CLIENT' \in Sessions \cup {0} /\ override' = override
        /\ sess' \in [Sessions -> SessRec]
    BY <1>0, <1>2, NativeStopType DEF StopNative
  <2>2. stop' \in [Stops -> StopRec]
    BY <1>2, <1>t DEF StopNative, StopRec, Scalars
  <2>3. Scalars'
    BY <1>2, <1>t, <2>1 DEF StopNative, Scalars
  <2> QED  BY <1>0, <1>2, <1>t, <2>1, <2>2, <2>3, TypePartsNext DEF StopNative, TInv, Numbered
<1>3. CASE StopMain(c)
  <2>1. stop' \in [Stops -> StopRec]
    BY <1>3, <1>t, <1>d DEF StopMain
  <2>2. Scalars'
    BY <1>3, <1>t DEF StopMain, Scalars, bridge_vars
  <2> QED  BY <1>0, <1>3, <1>t, <2>1, <2>2, TypePartsNext DEF StopMain, TInv, Numbered, bridge_vars
<1>4. CASE StopLost(c)
  <2>1. stop' \in [Stops -> StopRec]
    BY <1>4, <1>t, <1>d DEF StopLost
  <2>2. Scalars'
    BY <1>4, <1>t DEF StopLost, Scalars, bridge_vars
  <2> QED  BY <1>0, <1>4, <1>t, <2>1, <2>2, TypePartsNext DEF StopLost, TInv, Numbered, bridge_vars
<1> QED  BY <1>1, <1>2, <1>3, <1>4

LEMMA NextTInv == TInv /\ [Next]_vars => TInv'
<1> SUFFICES ASSUME TInv, [Next]_vars PROVE TInv'
  OBVIOUS
<1>1. CASE UNCHANGED vars
  BY <1>1 DEF TInv, TypeOK, Numbered, vars, bridge_vars
<1>2. CASE Next
  BY <1>2, RequestsType, SuperviseType, StoppingType DEF Next
<1> QED  BY <1>1, <1>2

(***************************************************************************)
(* The types of the service, of its coroutines and of the bridge's handles *)
(* hold whatever requests come and in whatever order.                      *)
(***************************************************************************)
THEOREM TypeCorrect == Spec => []TypeOK
<1>1. TInv => TypeOK
  BY DEF TInv
<1> QED  BY <1>1, InitTInv, NextTInv, PTL DEF Spec

-----------------------------------------------------------------------------
(***************************************************************************)
(* The invariant.  All of it holds as long as every request was orderly.   *)
(* A supervisor is live while it can still do something: it is inside a    *)
(* native call, or at a suspension point and not cancelled.                *)
(***************************************************************************)
Live(s)        == ~Idle(s) /\ (~AtRest(s) \/ ~sup[s].cancelled)
Joining(c, s)  == stop[c].pc \in {"begin", "join"} /\ stop[c].job = s
Over(c)        == stop[c].pc \in {"none", "done"}
InStart(s)     == sup[s].pc \in {"handshake", "traffic", "store"}

\* Who may act: at most one supervisor is live, the service's job or the one a stop joins.
OneLive == \A s, t \in Sups : Live(s) /\ Live(t) => s = t

Owned ==
    \A s \in Sups : Live(s) => s = tunnelJob \/ (\E c \in Stops : Joining(c, s)) \/ ~Mine(s)

Uncancelled ==
    \A s \in Sups : ~Idle(s) /\ ~sup[s].cancelled =>
        s = tunnelJob \/ \E c \in Stops : stop[c].pc = "begin" /\ stop[c].job = s

\* The supervisors of a destroyed instance do nothing any more.
Foreign ==
    \A s \in Sups : ~Idle(s) /\ ~Mine(s) =>
        /\ sup[s].cancelled
        /\ AtRest(s) \/ (sup[s].pc = "lost" /\ sup[s].inst \in userStopped /\ ~alive)

JobLives ==
    tunnelJob # 0 => /\ ~Idle(tunnelJob) /\ ~sup[tunnelJob].cancelled /\ Mine(tunnelJob)
                     /\ inst \notin userStopped

StopsHold ==
    \A c \in Stops : ~Over(c) =>
        /\ tunnelJob = 0 /\ stop[c].inst = inst /\ inst \in userStopped
        /\ \A s \in Sups : Live(s) => Joining(c, s)

MainHolds ==
    main # "free" =>
        /\ alive /\ tunnelJob = 0 /\ inst \in userStopped
        /\ \A s \in Sups : Live(s) => main = "destroy" /\ (AtRest(s) \/ sup[s].pc = "lost")

Jobs == OneLive /\ Owned /\ Uncancelled /\ Foreign /\ JobLives /\ StopsHold /\ MainHolds

\* The bridge: a session that connects or runs has a supervisor in nativeStart or the handle.
Quiet == CLIENT = 0 /\ ~TRAFFIC /\ \A n \in Sessions : sess[n].st \notin Running

Handles ==
    /\ \A n \in Sessions : sess[n].st = "handshake" =>
          \E s \in Sups : sup[s].pc = "handshake" /\ sup[s].sess = n
    /\ \A n \in Sessions : sess[n].st = "up" =>
          CLIENT = n \/ \E s \in Sups : sup[s].pc \in {"traffic", "store"} /\ sup[s].sess = n
    /\ \A s \in Sups : InStart(s) => sup[s].sess # 0 /\ CLIENT = 0
    /\ \A s \in Sups : sup[s].pc = "handshake" => sess[sup[s].sess].st = "handshake"
    /\ \A s \in Sups : sup[s].pc = "store" => TRAFFIC
    /\ CLIENT # 0 => TRAFFIC

Stopping == main # "free" \/ \E c \in Stops : stop[c].pc = "wait"
Silent   == Stopping => Quiet

\* FdOutlivesTunnel, where orderly.
Fds == \A n \in Sessions : sess[n].st \in Running => sess[n].fd \in open

Bridge == Handles /\ Silent /\ Fds

\* The TUN: one at a time, and there from the first connection on.
Device ==
    /\ open \subseteq {pfd}
    /\ \A s \in Sups :
          sup[s].pc \in {"foreground", "monitor", "polled", "lost", "lost_wait", "backoff"} => sup[s].ever
    /\ tunnelJob # 0 =>
          (sup[tunnelJob].ever \/ sup[tunnelJob].pc \notin {"new", "cleared", "tun"} => pfd # 0)

\* Nothing is left behind where nothing is at work.
Clean == Quiet /\ pfd = 0 /\ open = {} /\ status \in {"idle", "error"}
Tidy  == main = "free" /\ tunnelJob = 0 /\ (StopsIdle \/ ~alive) => Clean

\* What is at work is shown, so that a choice of profile reaches it.
Shown ==
    CLIENT # 0 \/ (\E s \in Sups : Live(s) /\ sup[s].pc \notin {"lost", "lost_wait"}) =>
        status \in {"connecting", "connected", "reconnecting"}

\* A call that is still to run carries the choice; what connects or is up has it or gets it.
Picked ==
    /\ \A p \in Profiles : pending[p] > 0 => p = store
    /\ \A s \in Sups : sup[s].pc \in {"tun", "start"} => override = store \/ CallsUnderWay
    /\ \A s \in Sups : InStart(s) /\ sess[sup[s].sess].st \in Running =>
          CallsUnderWay \/ sess[sup[s].sess].profile = store
    /\ Up => CallsUnderWay \/ sess[CLIENT].profile = store

Chosen == missed \/ Picked

Order == orderly => Jobs /\ Bridge /\ Device /\ Tidy /\ Shown /\ Chosen
IInv  == TInv /\ Order

\* No request makes disorder good again.
LEMMA StaysDisorderly == TInv /\ [Next]_vars /\ orderly' => orderly
<1> SUFFICES ASSUME TInv, [Next]_vars, orderly' PROVE orderly
  OBVIOUS
<1> USE DEF vars, bridge_vars
<1>1. CASE UNCHANGED vars
  BY <1>1
<1>2. ASSUME NEW s \in Sups, StartTunnel(s) PROVE orderly
  BY <1>2 DEF StartTunnel
<1>3. ASSUME NEW s \in Sups, Supervise(s) PROVE orderly
  BY <1>3 DEF Supervise, Cancelled, Clear, Profile, Tun, NativeStart, Established, StoreTraffic,
              StoreClient, ConnectFails, NowConnected, Foreground, Monitor, Lost, Reconnect
<1>4. CASE StartRefused \/ TeardownEnds
  BY <1>4 DEF StartRefused, TeardownEnds
<1>5. ASSUME NEW k \in 1..MaxUserStops, StopTunnel(k) PROVE orderly
  BY <1>5 DEF StopTunnel
<1>6. ASSUME NEW c \in Stops, StopJoin(c) \/ StopNative(c) \/ StopMain(c) \/ StopLost(c) PROVE orderly
  BY <1>6 DEF StopJoin, StopNative, StopMain, StopLost
<1>7. ASSUME NEW p \in Profiles, SelectProfile(p) \/ RunSetProfile(p) PROVE orderly
  BY <1>7 DEF SelectProfile, RunSetProfile
<1>8. ASSUME NEW why \in {"revoke", "destroy"}, Teardown(why) PROVE orderly
  BY <1>8 DEF Teardown
<1>9. ASSUME NEW n \in Sessions, TunnelStops(n) \/ TasksEnd(n) PROVE orderly
  BY <1>9 DEF TunnelStops, TasksEnd
<1> QED  BY <1>1, <1>2, <1>3, <1>4, <1>5, <1>6, <1>7, <1>8, <1>9 DEF Next

LEMMA InitOrder == Init => Order
<1> SUFFICES ASSUME Init PROVE Order
  OBVIOUS
<1>1. /\ \A s \in Sups : sup[s] = NoSup
      /\ \A c \in Stops : stop[c] = NoStop
      /\ \A n \in Sessions : sess[n] = NoSess
  BY DEF Init
<1>2. \A s \in Sups : sup[s].pc = "none"
  BY <1>1 DEF NoSup
<1>3. \A c \in Stops : stop[c].pc = "none"
  BY <1>1 DEF NoStop
<1>4. \A n \in Sessions : sess[n].st = "none"
  BY <1>1 DEF NoSess
<1>5. Jobs
  BY <1>2, <1>3 DEF Init, Jobs, OneLive, Owned, Uncancelled, Foreign, JobLives, StopsHold, MainHolds,
                    Live, Idle, Over
<1>6. Handles /\ Silent
  BY <1>2, <1>3, <1>4 DEF Init, Handles, Silent, Stopping, InStart
<1>7. Device /\ Fds
  BY <1>2, <1>4 DEF Init, Device, Fds, Running
<1>8. Tidy /\ Shown
  BY <1>2, <1>4 DEF Init, Tidy, Clean, Quiet, Running, Shown, Live, Idle, InStart, Up
<1>9. Picked
  BY <1>2, <1>4, NoCallsType DEF Init, Picked, InStart, Up
<1> QED  BY <1>5, <1>6, <1>7, <1>8, <1>9 DEF Order, Bridge, Chosen

-----------------------------------------------------------------------------
(***************************************************************************)
(* Jobs is kept.                                                           *)
(***************************************************************************)
Rests == {"new", "foreground", "monitor", "backoff"}

\* The live supervisor of the instance goes on.
LEMMA MoveJobs ==
    ASSUME TypeOK, Jobs, NEW s \in Sups, NEW pc \in Pcs \ {"none", "done"}, NEW ever, NEW fd, NEW n,
           Moves(s, pc, ever, fd, n), Live(s), Mine(s), main # "free" => pc \in Rests \cup {"lost"},
           UNCHANGED <<alive, inst, tunnelJob, userStopped, main, stop>>
    PROVE  Jobs'
<1>1. ASSUME NEW t \in Sups
      PROVE  /\ Idle(t)' <=> Idle(t)
             /\ sup'[t].cancelled = sup[t].cancelled /\ sup'[t].inst = sup[t].inst
             /\ Mine(t)' <=> Mine(t)
             /\ Live(t)' => Live(t)
             /\ t # s => sup'[t] = sup[t]
             /\ \A c \in Stops : Joining(c, t)' <=> Joining(c, t)
  BY DEF Moves, Idle, Mine, Live, AtRest, Joining
<1>2. OneLive'
  BY <1>1 DEF Jobs, OneLive
<1>3. Owned' /\ Uncancelled'
  BY <1>1 DEF Jobs, Owned, Uncancelled
<1>4. Foreign'
  BY <1>1 DEF Jobs, Foreign, AtRest
<1>5. JobLives'
  BY <1>1, TypeParts DEF Jobs, JobLives, Scalars
<1>6. StopsHold'
  BY <1>1 DEF Jobs, StopsHold, Over
<1>7. MainHolds'
  BY <1>1 DEF Jobs, MainHolds, Rests, AtRest, Moves
<1> QED  BY <1>2, <1>3, <1>4, <1>5, <1>6, <1>7 DEF Jobs

\* A supervisor that is not the service's job returns.
LEMMA EndJobs ==
    ASSUME TypeOK, Jobs, NEW s \in Sups, Ends(s), s # tunnelJob,
           UNCHANGED <<alive, inst, tunnelJob, userStopped, main, stop>>
    PROVE  Jobs'
<1>1. ASSUME NEW t \in Sups, t # s
      PROVE  /\ sup'[t] = sup[t]
             /\ Idle(t)' <=> Idle(t)
             /\ Mine(t)' <=> Mine(t)
             /\ Live(t)' <=> Live(t)
             /\ \A c \in Stops : Joining(c, t)' <=> Joining(c, t)
  BY <1>1 DEF Ends, Idle, Mine, Live, AtRest, Joining
<1>2. Idle(s)' /\ ~Live(s)'
  BY DEF Ends, Idle, Live
<1>3. OneLive'
  BY <1>1, <1>2 DEF Jobs, OneLive
<1>4. Owned' /\ Uncancelled'
  BY <1>1, <1>2 DEF Jobs, Owned, Uncancelled
<1>5. Foreign'
  BY <1>1, <1>2 DEF Jobs, Foreign, AtRest
<1>6. JobLives'
  BY <1>1, TypeParts DEF Jobs, JobLives, Scalars
<1>7. StopsHold'
  BY <1>1, <1>2 DEF Jobs, StopsHold, Over
<1>8. MainHolds'
  BY <1>1, <1>2 DEF Jobs, MainHolds, AtRest
<1> QED  BY <1>3, <1>4, <1>5, <1>6, <1>7, <1>8 DEF Jobs

LEMMA SameJobs ==
    ASSUME Jobs, UNCHANGED <<alive, inst, tunnelJob, userStopped, main, sup, stop>>
    PROVE  Jobs'
BY DEF Jobs, OneLive, Owned, Uncancelled, Foreign, JobLives, StopsHold, MainHolds, Live, Idle, AtRest,
       Mine, Joining, Over

\* The first attempt fails: the supervisor returns and has launched a stop.
LEMMA FailureJobs ==
    ASSUME TypeOK, Jobs, NEW s \in Sups, Live(s), Mine(s), Ends(s), LaunchStop(<<s, "failure">>),
           main = "free", UNCHANGED <<alive, inst, main>>
    PROVE  Jobs'
<1> DEFINE d == <<s, "failure">>
<1>0. d \in Stops
  BY DEF Stops
<1>1. /\ userStopped' = userStopped \cup {inst} /\ tunnelJob' = 0
      /\ \A c \in Stops : c # d => stop'[c] = stop[c]
      /\ stop'[d].pc = "begin" /\ stop'[d].inst = inst
  BY <1>0, TypeParts DEF LaunchStop, NoStop
<1> HIDE DEF d
<1>2. ASSUME NEW t \in Sups PROVE ~Live(t)'
  <2>1. CASE t = s
    BY <2>1 DEF Ends, Live, Idle
  <2>2. CASE t # s
    <3>1. ~Live(t)
      BY <2>2 DEF Jobs, OneLive
    <3> QED  BY <2>2, <3>1 DEF Ends, Live, Idle, AtRest
  <2> QED  BY <2>1, <2>2
<1>3. OneLive' /\ Owned' /\ MainHolds' /\ JobLives'
  BY <1>1, <1>2 DEF OneLive, Owned, MainHolds, JobLives
<1>4. Uncancelled'
  BY <1>2 DEF Uncancelled, Live
<1>5. ASSUME NEW t \in Sups, ~Idle(t)', ~Mine(t)'
      PROVE  /\ sup'[t].cancelled
             /\ AtRest(t)'
  BY <1>2, <1>5 DEF Live
<1>6. Foreign'
  BY <1>5 DEF Foreign
<1>7. StopsHold'
  BY <1>1, <1>2 DEF Jobs, StopsHold, Over
<1> QED  BY <1>3, <1>4, <1>6, <1>7 DEF Jobs

\* While the supervisor is inside a native call, or not cancelled, its instance is the service.
LEMMA ActsForService ==
    ASSUME Jobs, NEW s \in Sups, Live(s), sup[s].pc # "lost" \/ sup[s].inst \notin userStopped
    PROVE  Mine(s)
BY DEF Jobs, Foreign, Live

LEMMA SuperviseJobs ==
    ASSUME TypeOK, Jobs, Silent, NEW s \in Sups, Supervise(s)
    PROVE  Jobs'
<1>b. ASSUME sup[s].pc \in Pcs \ (Rests \cup {"none", "done", "lost"})
      PROVE  Live(s) /\ Mine(s) /\ main = "free"
  <2>1. Live(s)
    BY <1>b DEF Live, Idle, AtRest, Rests, Pcs
  <2>2. Mine(s)
    BY <1>b, <2>1, ActsForService
  <2>3. main = "free"
    BY <1>b, <2>1 DEF Jobs, MainHolds, AtRest, Rests
  <2> QED  BY <2>1, <2>2, <2>3
<1>j. ASSUME sup[s].pc \in {"new", "backoff", "lost"}, sup[s].cancelled => sup[s].pc = "lost",
             sup[s].inst \notin userStopped
      PROVE  Live(s) /\ Mine(s) /\ main = "free"
  <2>1. Live(s)
    BY <1>j DEF Live, Idle, AtRest
  <2>2. Mine(s)
    BY <1>j, <2>1, ActsForService
  <2>3. main = "free"
    BY <1>j, <2>2 DEF Jobs, MainHolds, Mine
  <2> QED  BY <2>1, <2>2, <2>3
<1>e. ASSUME sup[s].cancelled \/ sup[s].inst \in userStopped PROVE s # tunnelJob
  <2>1. s # 0
    BY Bounds
  <2> QED  BY <1>e, <2>1 DEF Jobs, JobLives, Mine
<1>1. CASE Cancelled(s)
  <2>1. sup[s].cancelled /\ UNCHANGED <<alive, inst, tunnelJob, userStopped, main, stop>>
    BY <1>1 DEF Cancelled
  <2> QED  BY <1>1, <1>e, <2>1, CancelledMoves, EndJobs
<1>2. CASE Clear(s)
  <2>1. /\ sup[s].pc \in {"new", "backoff", "lost"} /\ (sup[s].cancelled => sup[s].pc = "lost")
        /\ UNCHANGED <<alive, inst, tunnelJob, userStopped, main, stop>>
    BY <1>2 DEF Clear
  <2>2. CASE sup[s].inst \in userStopped
    BY <1>2, <1>e, <2>1, <2>2, ClearMoves, EndJobs
  <2>3. CASE sup[s].inst \notin userStopped
    <3>1. Moves(s, "cleared", sup[s].ever, sup[s].fd, CLIENT)
      BY <1>2, <2>3, ClearMoves
    <3> QED  BY <1>j, <2>1, <2>3, <3>1, MoveJobs DEF Pcs
  <2> QED  BY <2>2, <2>3
<1>3. CASE Profile(s)
  <2>1. sup[s].pc \in Pcs \ (Rests \cup {"none", "done", "lost"})
    BY <1>3 DEF Profile, Pcs, Rests
  <2>2. UNCHANGED <<alive, inst, tunnelJob, userStopped, main, stop>>
    BY <1>3 DEF Profile
  <2> QED  BY <1>3, <1>b, <2>1, <2>2, ProfileMoves, MoveJobs DEF Pcs
<1>4. CASE Tun(s)
  <2>1. sup[s].pc \in Pcs \ (Rests \cup {"none", "done", "lost"})
    BY <1>4 DEF Tun, Pcs, Rests
  <2>2. UNCHANGED <<alive, inst, tunnelJob, userStopped, main, stop>>
    BY <1>4 DEF Tun
  <2> QED  BY <1>4, <1>b, <2>1, <2>2, TunMoves, MoveJobs DEF Pcs
<1>5. CASE NativeStart(s)
  <2>1. sup[s].pc \in Pcs \ (Rests \cup {"none", "done", "lost"})
    BY <1>5 DEF NativeStart, Pcs, Rests
  <2>2. UNCHANGED <<alive, inst, tunnelJob, userStopped, main, stop>>
    BY <1>5 DEF NativeStart
  <2> QED  BY <1>5, <1>b, <2>1, <2>2, NativeStartMoves, MoveJobs DEF Pcs
<1>6. CASE Established(s)
  <2>1. sup[s].pc \in Pcs \ (Rests \cup {"none", "done", "lost"})
    BY <1>6 DEF Established, Pcs, Rests
  <2>2. UNCHANGED <<alive, inst, tunnelJob, userStopped, main, stop>>
    BY <1>6 DEF Established
  <2> QED  BY <1>6, <1>b, <2>1, <2>2, EstablishedMoves, MoveJobs DEF Pcs
<1>7. CASE StoreTraffic(s)
  <2>1. sup[s].pc \in Pcs \ (Rests \cup {"none", "done", "lost"})
    BY <1>7 DEF StoreTraffic, Pcs, Rests
  <2>2. UNCHANGED <<alive, inst, tunnelJob, userStopped, main, stop>>
    BY <1>7 DEF StoreTraffic
  <2> QED  BY <1>7, <1>b, <2>1, <2>2, StoreTrafficMoves, MoveJobs DEF Pcs
<1>8. CASE StoreClient(s)
  <2>1. sup[s].pc \in Pcs \ (Rests \cup {"none", "done", "lost"})
    BY <1>8 DEF StoreClient, Pcs, Rests
  <2>2. UNCHANGED <<alive, inst, tunnelJob, userStopped, main, stop>>
    BY <1>8 DEF StoreClient
  <2> QED  BY <1>8, <1>b, <2>1, <2>2, StoreClientMoves, MoveJobs DEF Pcs
<1>9. CASE ConnectFails(s)
  <2>1. sup[s].pc \in {"tun", "start", "handshake"} /\ UNCHANGED <<alive, inst, main>>
    BY <1>9 DEF ConnectFails
  <2>2. Live(s) /\ Mine(s) /\ main = "free"
    BY <1>b, <2>1 DEF Pcs, Rests
  <2>3. CASE sup[s].ever
    BY <1>9, <2>1, <2>2, <2>3, ConnectFailsMoves, MoveJobs DEF Pcs
  <2>4. CASE ~sup[s].ever
    BY <1>9, <2>1, <2>2, <2>4, ConnectFailsMoves, FailureJobs
  <2> QED  BY <2>3, <2>4
<1>10. CASE NowConnected(s)
  <2>1. sup[s].pc \in Pcs \ (Rests \cup {"none", "done", "lost"})
    BY <1>10 DEF NowConnected, Pcs, Rests
  <2>2. UNCHANGED <<alive, inst, tunnelJob, userStopped, main, stop>>
    BY <1>10 DEF NowConnected
  <2> QED  BY <1>10, <1>b, <2>1, <2>2, NowConnectedMoves, MoveJobs DEF Pcs
<1>11. CASE Foreground(s)
  <2>1. /\ sup[s].pc \in {"foreground", "monitor"} /\ ~sup[s].cancelled
        /\ UNCHANGED <<alive, inst, tunnelJob, userStopped, main, stop>>
    BY <1>11 DEF Foreground
  <2>2. Live(s)
    BY <2>1 DEF Live, Idle
  <2>3. Mine(s)
    BY <2>1, <2>2, ActsForService
  <2> QED  BY <1>11, <2>1, <2>2, <2>3, ForegroundMoves, MoveJobs DEF Pcs, Rests
<1>12. CASE Monitor(s)
  <2>1. /\ sup[s].pc \in {"foreground", "monitor"} /\ ~sup[s].cancelled
        /\ UNCHANGED <<alive, inst, tunnelJob, userStopped, main, stop>>
    BY <1>12 DEF Monitor
  <2>2. Live(s)
    BY <2>1 DEF Live, Idle
  <2>3. Mine(s)
    BY <2>1, <2>2, ActsForService
  <2>4. main # "free" => ~Up
    BY DEF Silent, Stopping, Quiet, Up
  <2> QED  BY <1>12, <2>1, <2>2, <2>3, <2>4, MonitorMoves, MoveJobs DEF Pcs, Rests
<1>13. CASE Lost(s)
  <2>1. /\ sup[s].pc \in {"new", "backoff", "lost"} /\ (sup[s].cancelled => sup[s].pc = "lost")
        /\ UNCHANGED <<alive, inst, tunnelJob, userStopped, main, stop>>
    BY <1>13 DEF Lost
  <2>2. CASE sup[s].inst \in userStopped
    BY <1>13, <1>e, <2>1, <2>2, LostMoves, EndJobs
  <2>3. CASE sup[s].inst \notin userStopped
    <3>1. Moves(s, "lost_wait", sup[s].ever, sup[s].fd, CLIENT)
      BY <1>13, <2>3, LostMoves
    <3> QED  BY <1>j, <2>1, <2>3, <3>1, MoveJobs DEF Pcs
  <2> QED  BY <2>2, <2>3
<1>14. CASE Reconnect(s)
  <2>1. sup[s].pc \in Pcs \ (Rests \cup {"none", "done", "lost"})
    BY <1>14 DEF Reconnect, Pcs, Rests
  <2>2. UNCHANGED <<alive, inst, tunnelJob, userStopped, main, stop>>
    BY <1>14 DEF Reconnect
  <2> QED  BY <1>14, <1>b, <2>1, <2>2, ReconnectMoves, MoveJobs DEF Pcs
<1> QED
  BY <1>1, <1>2, <1>3, <1>4, <1>5, <1>6, <1>7, <1>8, <1>9, <1>10, <1>11, <1>12, <1>13, <1>14 DEF Supervise

LEMMA CancelEffect ==
    ASSUME TypeOK, NEW j \in Sups \cup {0}, NEW t \in Sups
    PROVE  /\ Cancel(j)[t].pc = sup[t].pc /\ Cancel(j)[t].inst = sup[t].inst
           /\ Cancel(j)[t].ever = sup[t].ever /\ Cancel(j)[t].sess = sup[t].sess
           /\ Cancel(j)[t].cancelled <=> IF t = j THEN ~Idle(t) ELSE sup[t].cancelled
<1>1. sup \in [Sups -> SupRec] /\ sup[t] \in SupRec
  BY TypeParts
<1>2. t # 0
  BY Bounds
<1> QED  BY <1>1, <1>2 DEF Cancel, SupRec

\* A start replaces a supervisor that is at a suspension point.
LEMMA StartTunnelView ==
    ASSUME TypeOK, NEW s \in Sups, StartTunnel(s)
    PROVE  /\ sup'[s].pc = "new" /\ ~sup'[s].cancelled /\ ~sup'[s].ever /\ sup'[s].inst = inst'
           /\ \A t \in Sups : t # s =>
                 /\ sup'[t].pc = sup[t].pc /\ sup'[t].inst = sup[t].inst /\ sup'[t].ever = sup[t].ever
                 /\ sup'[t].sess = sup[t].sess
                 /\ sup'[t].cancelled <=> IF t = tunnelJob THEN ~Idle(t) ELSE sup[t].cancelled
<1> DEFINE new == [NoSup EXCEPT !.pc = "new", !.inst = inst']
<1>1. new.pc = "new" /\ ~new.cancelled /\ ~new.ever /\ new.inst = inst'
  BY DEF NoSup
<1> HIDE DEF new
<1>2. tunnelJob \in Sups \cup {0}
  BY TypeParts DEF Scalars
<1>3. sup' = [Cancel(tunnelJob) EXCEPT ![s] = new] /\ Cancel(tunnelJob) \in [Sups -> SupRec]
  BY <1>2, CancelType DEF StartTunnel, new
<1>4. sup'[s] = new /\ \A t \in Sups : t # s => sup'[t] = Cancel(tunnelJob)[t]
  BY <1>3
<1> QED  BY <1>1, <1>2, <1>4, CancelEffect

LEMMA StartTunnelJobs ==
    ASSUME TypeOK, Jobs, NEW s \in Sups, StartTunnel(s), orderly'
    PROVE  Jobs'
<1>1. /\ alive' = TRUE /\ userStopped' = userStopped \ {inst'} /\ tunnelJob' = s
      /\ main = "free" /\ UNCHANGED <<main, stop>>
      /\ StopsIdle /\ \A t \in Sups : AtRest(t)
  BY DEF StartTunnel
<1>2. ASSUME NEW t \in Sups, t # s PROVE AtRest(t)' /\ (~Idle(t)' => sup'[t].cancelled)
  <2>1. AtRest(t)' /\ (Idle(t)' <=> Idle(t))
    BY <1>1, <1>2, StartTunnelView DEF AtRest, Idle
  <2>2. ~Idle(t) /\ ~sup[t].cancelled => t = tunnelJob
    BY <1>1 DEF Jobs, Uncancelled, StopsIdle
  <2> QED  BY <1>2, <2>1, <2>2, StartTunnelView
<1>3. ~Idle(s)' /\ ~sup'[s].cancelled /\ Mine(s)'
  BY <1>1, StartTunnelView DEF Idle, Mine
<1>4. OneLive' /\ Owned' /\ Uncancelled'
  BY <1>1, <1>2 DEF OneLive, Owned, Uncancelled, Live
<1>5. Foreign'
  BY <1>2, <1>3 DEF Foreign
<1>6. JobLives'
  BY <1>1, <1>3 DEF JobLives
<1>7. StopsHold' /\ MainHolds'
  BY <1>1 DEF StopsHold, MainHolds, StopsIdle, Over
<1> QED  BY <1>4, <1>5, <1>6, <1>7 DEF Jobs

\* The user's stop takes the job over.
LEMMA StopTunnelJobs ==
    ASSUME TypeOK, Jobs, NEW k \in 1..MaxUserStops, StopTunnel(k), orderly'
    PROVE  Jobs'
<1> DEFINE d == <<k, "user">>
<1>0. d \in Stops
  BY DEF Stops
<1>1. /\ userStopped' = userStopped \cup {inst} /\ tunnelJob' = 0
      /\ \A c \in Stops : c # d => stop'[c] = stop[c]
      /\ stop'[d].pc = "begin" /\ stop'[d].inst = inst /\ stop'[d].job = tunnelJob
      /\ main = "free" /\ alive /\ StopsIdle /\ UNCHANGED <<alive, inst, main, sup>>
  BY <1>0, TypeParts DEF StopTunnel, LaunchStop, NoStop
<1> HIDE DEF d
<1>2. ASSUME NEW t \in Sups
      PROVE  (Idle(t)' <=> Idle(t)) /\ (AtRest(t)' <=> AtRest(t)) /\ (Live(t)' <=> Live(t)) /\ (Mine(t)' <=> Mine(t))
  BY <1>1 DEF Idle, AtRest, Live, Mine
<1>3. OneLive' /\ MainHolds' /\ JobLives'
  BY <1>1, <1>2 DEF Jobs, OneLive, MainHolds, JobLives
<1>4. ASSUME NEW t \in Sups, Live(t) PROVE t = tunnelJob \/ ~Mine(t)
  BY <1>1, <1>4 DEF Jobs, Owned, StopsIdle, Joining
<1>5. Owned'
  BY <1>0, <1>1, <1>2, <1>4 DEF Owned, Joining
<1>6. Uncancelled'
  BY <1>0, <1>1, <1>2 DEF Jobs, Uncancelled, StopsIdle
<1>7. Foreign'
  BY <1>1, <1>2 DEF Jobs, Foreign
<1>8. StopsHold'
  <2>1. ASSUME NEW t \in Sups, Live(t) PROVE t = tunnelJob
    BY <1>1, <1>4, <2>1 DEF Jobs, Foreign, Live
  <2>2. ASSUME NEW c \in Stops, ~Over(c)' PROVE c = d
    BY <1>1, <2>2 DEF StopsIdle, Over
  <2> QED  BY <1>1, <1>2, <2>1, <2>2 DEF StopsHold, Joining
<1> QED  BY <1>3, <1>5, <1>6, <1>7, <1>8 DEF Jobs

\* A stop that goes on: the other stops and the service's fields are as they were.
StopMoves(c, pc) ==
    /\ \A b \in Stops : b # c => stop'[b] = stop[b]
    /\ stop'[c].pc = pc
    /\ pc \notin {"none", "done"} => stop'[c].inst = stop[c].inst
    /\ UNCHANGED <<alive, inst, tunnelJob, userStopped, main>>

LEMMA StopJoinView ==
    ASSUME TypeOK, NEW c \in Stops, StopJoin(c)
    PROVE  \/ /\ stop[c].pc = "begin" /\ Living(c) /\ StopMoves(c, "join")
              /\ stop'[c].job = stop[c].job /\ sup' = Cancel(stop[c].job)
           \/ /\ stop[c].pc = "join" /\ Living(c) /\ StopMoves(c, "native")
              /\ (stop[c].job # 0 => Idle(stop[c].job)) /\ sup' = sup
<1>1. stop \in [Stops -> StopRec] /\ stop[c] \in StopRec
  BY TypeParts
<1> QED  BY <1>1 DEF StopJoin, Join, StopMoves, StopRec

LEMMA StopNativeView ==
    ASSUME TypeOK, NEW c \in Stops, StopNative(c)
    PROVE  stop[c].pc = "native" /\ StopMoves(c, "wait") /\ sup' = sup
<1>1. stop \in [Stops -> StopRec] /\ stop[c] \in StopRec
  BY TypeParts
<1> QED  BY <1>1 DEF StopNative, StopMoves, StopRec

LEMMA StopEndView ==
    ASSUME TypeOK, NEW c \in Stops, StopMain(c) \/ StopLost(c)
    PROVE  /\ StopMoves(c, "done") /\ sup' = sup
           /\ StopMain(c) => stop[c].pc = "wait" /\ Living(c)
           /\ StopLost(c) => ~Living(c) /\ ~Over(c)
<1>1. stop \in [Stops -> StopRec] /\ stop[c] \in StopRec
  BY TypeParts
<1>2. stop' = [stop EXCEPT ![c] = [NoStop EXCEPT !.pc = "done"]] /\ [NoStop EXCEPT !.pc = "done"].pc = "done"
  BY DEF StopMain, StopLost, NoStop
<1>3. stop'[c].pc = "done" /\ \A b \in Stops : b # c => stop'[b] = stop[b]
  BY <1>1, <1>2
<1> QED  BY <1>3 DEF StopMain, StopLost, StopMoves, Over

\* cancelAndJoin's cancellation.
LEMMA JoinJobs ==
    ASSUME TypeOK, Jobs, NEW c \in Stops, stop[c].pc = "begin", StopMoves(c, "join"),
           stop'[c].job = stop[c].job, sup' = Cancel(stop[c].job)
    PROVE  Jobs'
<1> DEFINE j == stop[c].job
<1>0. j \in Sups \cup {0}
  BY TypeParts DEF StopRec
<1>1. ASSUME NEW t \in Sups
      PROVE  /\ sup'[t].pc = sup[t].pc /\ sup'[t].inst = sup[t].inst
             /\ sup'[t].cancelled <=> IF t = j THEN ~Idle(t) ELSE sup[t].cancelled
             /\ (Idle(t)' <=> Idle(t)) /\ (AtRest(t)' <=> AtRest(t)) /\ (Mine(t)' <=> Mine(t))
  BY <1>0, CancelEffect DEF Idle, AtRest, Mine, StopMoves
<1> HIDE DEF j
<1>2. ASSUME NEW t \in Sups PROVE Live(t)' => Live(t)
  BY <1>1 DEF Live
<1>3. ASSUME NEW t \in Sups, NEW b \in Stops PROVE Joining(b, t)' <=> Joining(b, t)
  BY DEF Joining, StopMoves
<1>4. OneLive'
  BY <1>2 DEF Jobs, OneLive
<1>5. Owned'
  BY <1>1, <1>2, <1>3 DEF Jobs, Owned, StopMoves
<1>6. Uncancelled'
  BY <1>1 DEF Jobs, Uncancelled, StopMoves, j
<1>7. Foreign'
  BY <1>1 DEF Jobs, Foreign, StopMoves
<1>8. tunnelJob = 0 /\ tunnelJob' = 0
  BY DEF Jobs, StopsHold, Over, StopMoves
<1>9. JobLives' /\ StopsHold'
  BY <1>2, <1>3, <1>8 DEF Jobs, JobLives, StopsHold, StopMoves, Over
<1>10. MainHolds'
  BY <1>1, <1>2 DEF Jobs, MainHolds, StopMoves
<1> QED  BY <1>4, <1>5, <1>6, <1>7, <1>9, <1>10 DEF Jobs

\* A stop goes on, or ends, when its job has ended or its instance is gone.
LEMMA StopGoesJobs ==
    ASSUME TypeOK, Jobs, NEW c \in Stops, NEW pc \in {"native", "wait", "done"}, StopMoves(c, pc),
           sup' = sup, ~Over(c), (~alive /\ pc = "done") \/ \A t \in Sups : ~Live(t)
    PROVE  Jobs'
<1>1. ASSUME NEW t \in Sups
      PROVE  /\ (Idle(t)' <=> Idle(t)) /\ (AtRest(t)' <=> AtRest(t)) /\ (Mine(t)' <=> Mine(t))
             /\ Live(t)' <=> Live(t)
             /\ sup'[t] = sup[t]
             /\ Live(t) => ~Mine(t)
             /\ \A b \in Stops : b # c => (Joining(b, t)' <=> Joining(b, t))
  BY DEF Idle, AtRest, Mine, Live, Joining, StopMoves
<1>2. tunnelJob = 0 /\ tunnelJob' = 0
  BY DEF Jobs, StopsHold, StopMoves
<1>3. OneLive' /\ Owned' /\ JobLives'
  BY <1>1, <1>2 DEF Jobs, OneLive, Owned, JobLives
<1>4. Uncancelled'
  BY <1>1 DEF Jobs, Foreign, Uncancelled, Live
<1>5. Foreign' /\ MainHolds'
  BY <1>1 DEF Jobs, Foreign, MainHolds, StopMoves
<1>6. StopsHold'
  BY <1>1, <1>2 DEF Jobs, StopsHold, StopMoves, Over
<1> QED  BY <1>3, <1>4, <1>5, <1>6 DEF Jobs

LEMMA StoppingJobs ==
    ASSUME TypeOK, Jobs, NEW c \in Stops, StopJoin(c) \/ StopNative(c) \/ StopMain(c) \/ StopLost(c)
    PROVE  Jobs'
<1>1. ASSUME NEW t \in Sups, ~Over(c), stop[c].pc \notin {"begin", "join"} PROVE ~Live(t)
  BY <1>1 DEF Jobs, StopsHold, Joining
<1>2. CASE StopJoin(c) /\ stop[c].pc = "begin"
  BY <1>2, StopJoinView, JoinJobs
<1>3. CASE StopJoin(c) /\ stop[c].pc = "join"
  <2>1. ~Over(c) /\ (stop[c].job # 0 => Idle(stop[c].job)) /\ StopMoves(c, "native") /\ sup' = sup
    BY <1>3, StopJoinView DEF Over
  <2>2. ASSUME NEW t \in Sups PROVE ~Live(t)
    BY <2>1, Bounds DEF Jobs, StopsHold, Joining, Live
  <2> QED  BY <2>1, <2>2, StopGoesJobs
<1>4. CASE StopNative(c)
  BY <1>1, <1>4, StopNativeView, StopGoesJobs DEF Over
<1>5. CASE StopMain(c)
  BY <1>1, <1>5, StopEndView, StopGoesJobs DEF Over
<1>6. CASE StopLost(c)
  <2>1. ~alive
    BY <1>6, StopEndView DEF Living, Jobs, StopsHold
  <2> QED  BY <1>6, <2>1, StopEndView, StopGoesJobs
<1> QED  BY <1>2, <1>3, <1>4, <1>5, <1>6, StopJoinView

\* teardownSync finds every supervisor at a suspension point and cancels the service's.
LEMMA TeardownJobs ==
    ASSUME TypeOK, Jobs, NEW why \in {"revoke", "destroy"}, Teardown(why), orderly'
    PROVE  Jobs'
<1>0. tunnelJob \in Sups \cup {0}
  BY TypeParts DEF Scalars
<1>1. /\ main = "free" /\ alive /\ main' = why /\ userStopped' = userStopped \cup {inst}
      /\ tunnelJob' = 0 /\ sup' = Cancel(tunnelJob) /\ UNCHANGED <<alive, inst, stop>>
      /\ why = "destroy" \/ StopsIdle
      /\ \A t \in Sups : AtRest(t)
  BY DEF Teardown
<1>2. ASSUME NEW t \in Sups
      PROVE  /\ sup'[t].cancelled <=> IF t = tunnelJob THEN ~Idle(t) ELSE sup[t].cancelled
             /\ (Idle(t)' <=> Idle(t)) /\ AtRest(t)' /\ (Mine(t)' <=> Mine(t))
  BY <1>0, <1>1, CancelEffect DEF Idle, AtRest, Mine
<1>3. ASSUME NEW t \in Sups
      PROVE  /\ Live(t)' => Live(t) /\ ~Idle(t) /\ ~sup[t].cancelled /\ t # tunnelJob
             /\ \A c \in Stops : Joining(c, t)' <=> Joining(c, t)
  BY <1>1, <1>2 DEF Live, Joining
<1>4. OneLive'
  BY <1>3 DEF Jobs, OneLive
<1>5. Owned'
  BY <1>2, <1>3 DEF Jobs, Owned
<1>6. Uncancelled'
  BY <1>1, <1>2 DEF Jobs, Uncancelled
<1>7. Foreign'
  BY <1>1, <1>2 DEF Jobs, Foreign
<1>8. JobLives' /\ StopsHold'
  BY <1>1, <1>3 DEF Jobs, JobLives, StopsHold, Over
<1>9. ASSUME NEW t \in Sups, Live(t)' PROVE why = "destroy"
  BY <1>1, <1>3, <1>9 DEF Jobs, Uncancelled, StopsIdle
<1>10. MainHolds'
  BY <1>1, <1>2, <1>9 DEF MainHolds
<1> QED  BY <1>4, <1>5, <1>6, <1>7, <1>8, <1>10 DEF Jobs

LEMMA TeardownEndsView ==
    ASSUME TypeOK, TeardownEnds
    PROVE  /\ main # "free" /\ main' = "free" /\ UNCHANGED <<inst, tunnelJob, userStopped, stop>>
           /\ \A t \in Sups :
                 /\ sup'[t].pc = sup[t].pc /\ sup'[t].inst = sup[t].inst /\ sup'[t].ever = sup[t].ever
                 /\ sup'[t].sess = sup[t].sess
           /\ \/ /\ main = "destroy" /\ ~alive' /\ pending' = NoCalls
                 /\ \A t \in Sups : sup'[t].cancelled <=> sup[t].cancelled \/ sup[t].inst = inst
              \/ main # "destroy" /\ UNCHANGED <<alive, pending, sup>>
<1>1. sup \in [Sups -> SupRec]
  BY TypeParts
<1>2. CASE main = "destroy"
  <2>1. ASSUME NEW t \in Sups, NEW b \in BOOLEAN
        PROVE  LET r == [sup[t] EXCEPT !.cancelled = b] IN
               /\ r.pc = sup[t].pc /\ r.inst = sup[t].inst /\ r.ever = sup[t].ever
               /\ r.sess = sup[t].sess /\ r.cancelled = b
    <3>1. sup[t] \in SupRec
      BY <1>1
    <3> QED  BY <3>1 DEF SupRec
  <2>2. \A t \in Sups : /\ (sup[t].cancelled \/ sup[t].inst = inst) \in BOOLEAN
                        /\ sup'[t] = [sup[t] EXCEPT !.cancelled = sup[t].cancelled \/ sup[t].inst = inst]
    BY <1>2 DEF TeardownEnds
  <2>3. \A t \in Sups :
          /\ sup'[t].pc = sup[t].pc /\ sup'[t].inst = sup[t].inst /\ sup'[t].ever = sup[t].ever
          /\ sup'[t].sess = sup[t].sess
          /\ sup'[t].cancelled <=> sup[t].cancelled \/ sup[t].inst = inst
    BY <2>1, <2>2
  <2> QED  BY <1>2, <2>3 DEF TeardownEnds
<1>3. CASE main # "destroy"
  BY <1>3 DEF TeardownEnds
<1> QED  BY <1>2, <1>3

LEMMA TeardownEndsJobs ==
    ASSUME TypeOK, Jobs, TeardownEnds
    PROVE  Jobs'
<1>1. /\ main # "free" /\ main' = "free" /\ alive /\ tunnelJob = 0 /\ inst \in userStopped
      /\ UNCHANGED <<inst, tunnelJob, userStopped, stop>>
  BY TeardownEndsView DEF Jobs, MainHolds
<1>2. ASSUME NEW t \in Sups
      PROVE  /\ (Idle(t)' <=> Idle(t)) /\ (AtRest(t)' <=> AtRest(t)) /\ (Mine(t)' => Mine(t))
             /\ sup[t].cancelled => sup'[t].cancelled
             /\ Live(t)' => Live(t)
             /\ \A c \in Stops : Joining(c, t)' <=> Joining(c, t)
  BY <1>1, TeardownEndsView DEF Idle, AtRest, Mine, Live, Joining
<1>3. OneLive'
  BY <1>2 DEF Jobs, OneLive
<1>4. JobLives' /\ StopsHold' /\ MainHolds'
  BY <1>1, <1>2 DEF Jobs, JobLives, StopsHold, MainHolds, Over
<1>5. Uncancelled'
  BY <1>1, <1>2 DEF Jobs, Uncancelled
<1>6. Owned'
  BY <1>1, <1>2, TeardownEndsView DEF Jobs, Owned, Mine
<1>7. Foreign'
  <2>1. CASE main = "destroy"
    <3>1. ASSUME NEW t \in Sups, ~Idle(t) PROVE sup'[t].cancelled
      BY <1>1, <2>1, <3>1, TeardownEndsView DEF Jobs, Foreign, Mine
    <3>2. ASSUME NEW t \in Sups, ~Idle(t), ~AtRest(t)
          PROVE  sup'[t].pc = "lost" /\ sup'[t].inst \in userStopped'
      <4>1. Live(t)
        BY <3>2 DEF Live
      <4>2. sup[t].pc = "lost"
        BY <1>1, <3>2, <4>1 DEF Jobs, MainHolds
      <4>3. sup[t].inst \in userStopped
        BY <1>1, <3>2 DEF Jobs, Foreign, Mine
      <4> QED  BY <1>1, <4>2, <4>3, TeardownEndsView
    <3>3. ~alive'
      BY <2>1, TeardownEndsView
    <3> QED  BY <1>2, <3>1, <3>2, <3>3 DEF Foreign
  <2>2. CASE main # "destroy"
    BY <1>1, <1>2, <2>2, TeardownEndsView DEF Jobs, Foreign, Mine
  <2> QED  BY <2>1, <2>2
<1> QED  BY <1>3, <1>4, <1>5, <1>6, <1>7 DEF Jobs

-----------------------------------------------------------------------------
(***************************************************************************)
(* Bridge is kept.                                                         *)
(***************************************************************************)

\* No session starts to run, and the running ones keep their descriptor.
SessKept ==
    \A n \in Sessions : sess'[n].st \in Running =>
        sess'[n].st = sess[n].st /\ sess'[n].fd = sess[n].fd

\* No handshake ends.
HsKept == \A n \in Sessions : sess[n].st = "handshake" => sess'[n].st = "handshake"

LEMMA EndingEffect ==
    ASSUME TypeOK, NEW n, NEW st \in {"stopping", "parked", "down", "aborted", "gone"}, sess' = Ending(n, st)
    PROVE  SessKept /\ (n \in Sessions => sess'[n].st \notin Running)
           /\ \A m \in Sessions : m # n => sess'[m] = sess[m]
<1>1. sess \in [Sessions -> SessRec]
  BY TypeParts
<1> DEFINE r == [NoSess EXCEPT !.st = st, !.fd = IF st \in {"down", "gone"} THEN 0 ELSE sess[n].fd]
<1>2. r.st = st
  BY DEF NoSess
<1>3. sess' = [sess EXCEPT ![n] = r]
  BY DEF Ending
<1> HIDE DEF r
<1>4. \A m \in Sessions : sess'[m] = IF m = n THEN r ELSE sess[m]
  BY <1>1, <1>3
<1> QED  BY <1>2, <1>4 DEF SessKept, Running

LEMMA NativeStopKept ==
    ASSUME TypeOK, NativeStop
    PROVE  SessKept /\ CLIENT' = 0 /\ ~TRAFFIC'
BY EndingEffect DEF NativeStop, SessKept

LEMMA SetProfileKept ==
    ASSUME TypeOK, NEW p, SetProfile(p)
    PROVE  /\ SessKept /\ UNCHANGED <<CLIENT, TRAFFIC>> /\ override' = p
           /\ HsKept /\ \A n \in Sessions : sess'[n].st = sess[n].st
           /\ \A n \in Sessions : n # CLIENT => sess'[n] = sess[n]
           /\ Up /\ TRAFFIC => sess'[CLIENT].profile = p
<1>1. sess \in [Sessions -> SessRec] /\ CLIENT \in Sessions \cup {0}
  BY TypeParts DEF Scalars
<1>2. CASE Up /\ TRAFFIC
  <2>1. CLIENT \in Sessions /\ sess' = [sess EXCEPT ![CLIENT].profile = p] /\ sess[CLIENT] \in SessRec
    BY <1>1, <1>2 DEF SetProfile, Up
  <2> QED  BY <1>1, <1>2, <2>1 DEF SetProfile, SessKept, HsKept, SessRec
<1>3. CASE ~(Up /\ TRAFFIC)
  BY <1>3 DEF SetProfile, SessKept, HsKept
<1> QED  BY <1>2, <1>3

\* A step that starts nothing: who is in nativeStart stays there, or its session is over.
LEMMA KeptBridge ==
    ASSUME TypeOK, Bridge, SessKept, UNCHANGED <<CLIENT, TRAFFIC>>,
           \A t \in Sups : InStart(t)' => sup'[t].pc = sup[t].pc /\ sup'[t].sess = sup[t].sess,
           \A t \in Sups : InStart(t) =>
               \/ sup'[t].pc = sup[t].pc /\ sup'[t].sess = sup[t].sess /\ HsKept
               \/ sess'[sup[t].sess].st \notin Running /\ ~InStart(t)',
           open \subseteq open' \/ Quiet,
           Stopping' => Stopping
    PROVE  Bridge'
<1>1. \A n \in Sessions : sess'[n].st = "handshake" =>
         \E s \in Sups : sup'[s].pc = "handshake" /\ sup'[s].sess = n
  <2> SUFFICES ASSUME NEW n \in Sessions, sess'[n].st = "handshake"
               PROVE  \E s \in Sups : sup'[s].pc = "handshake" /\ sup'[s].sess = n
    OBVIOUS
  <2>1. sess[n].st = "handshake"
    BY DEF SessKept, Running
  <2>2. PICK s \in Sups : sup[s].pc = "handshake" /\ sup[s].sess = n
    BY <2>1 DEF Bridge, Handles
  <2>3. InStart(s)
    BY <2>2 DEF InStart
  <2> QED  BY <2>2, <2>3 DEF Running
<1>2. \A n \in Sessions : sess'[n].st = "up" =>
         CLIENT' = n \/ \E s \in Sups : sup'[s].pc \in {"traffic", "store"} /\ sup'[s].sess = n
  <2> SUFFICES ASSUME NEW n \in Sessions, sess'[n].st = "up", CLIENT # n
               PROVE  \E s \in Sups : sup'[s].pc \in {"traffic", "store"} /\ sup'[s].sess = n
    OBVIOUS
  <2>1. sess[n].st = "up"
    BY DEF SessKept, Running
  <2>2. PICK s \in Sups : sup[s].pc \in {"traffic", "store"} /\ sup[s].sess = n
    BY <2>1 DEF Bridge, Handles
  <2>3. InStart(s)
    BY <2>2 DEF InStart
  <2> QED  BY <2>2, <2>3 DEF Running
<1>s. \A s \in Sups : InStart(s) => sup[s].sess \in Sessions
  BY TypeParts DEF SupRec, Bridge, Handles
<1>3. Handles'
  BY <1>1, <1>2, <1>s DEF Bridge, Handles, InStart, HsKept
<1>4. Silent'
  BY DEF Bridge, Silent, Quiet, SessKept
<1>5. Fds'
  BY DEF Bridge, Fds, Quiet, SessKept
<1> QED  BY <1>3, <1>4, <1>5 DEF Bridge

\* nativeStop while nobody is in nativeStart leaves nothing that runs.
LEMMA StopBridge ==
    ASSUME TypeOK, Bridge, NativeStop, \A t \in Sups : ~InStart(t)
    PROVE  Quiet'
<1>1. \A n \in Sessions : sess[n].st \in Running => CLIENT = n /\ Up
  <2> SUFFICES ASSUME NEW n \in Sessions, sess[n].st \in Running PROVE CLIENT = n /\ Up
    OBVIOUS
  <2>1. CASE sess[n].st = "handshake"
    BY <2>1 DEF Bridge, Handles, InStart
  <2>2. CASE sess[n].st = "up"
    <3>1. CLIENT = n
      BY <2>2 DEF Bridge, Handles, InStart
    <3>2. CLIENT # 0
      BY <3>1, ConstantTypes DEF Sessions
    <3> QED  BY <2>2, <3>1, <3>2 DEF Up
  <2> QED  BY <2>1, <2>2 DEF Running
<1>2. CASE Up
  BY <1>1, <1>2, EndingEffect DEF NativeStop, Quiet
<1>3. CASE ~Up
  BY <1>1, <1>3 DEF NativeStop, Quiet
<1> QED  BY <1>2, <1>3

LEMMA QuietBridge ==
    ASSUME Quiet', \A t \in Sups : ~InStart(t)'
    PROVE  Bridge'
BY DEF Quiet, Bridge, Handles, Silent, Fds, InStart, Running

\* Nobody else is in nativeStart while a supervisor is live, and nobody at all in a stop's last part.
LEMMA AloneInStart ==
    ASSUME Jobs, NEW s \in Sups, Live(s), NEW t \in Sups, t # s
    PROVE  ~InStart(t)
BY DEF Jobs, OneLive, Live, Idle, AtRest, InStart

\* A supervisor inside a native call: it acts for the service and nothing is being stopped.
Busy == Pcs \ (Rests \cup {"none", "done", "lost"})

LEMMA BusyAlone ==
    ASSUME Jobs, NEW s \in Sups, sup[s].pc \in Busy
    PROVE  Live(s) /\ Mine(s) /\ ~Stopping
<1>1. Live(s)
  BY DEF Busy, Live, Idle, AtRest, Rests, Pcs
<1>2. Mine(s)
  BY <1>1, ActsForService DEF Busy
<1>3. ~Stopping
  BY <1>1 DEF Jobs, MainHolds, StopsHold, Over, Joining, Stopping, AtRest, Busy, Rests
<1> QED  BY <1>1, <1>2, <1>3

\* nativeStart, step by step: its session is the only one that connects or runs.
LEMMA NativeStartBridge ==
    ASSUME TypeOK, Jobs, Bridge, NEW s \in Sups, NativeStart(s)
    PROVE  Bridge'
<1> DEFINE n == started + 1
<1>0. sess \in [Sessions -> SessRec] /\ sup \in [Sups -> SupRec]
  BY TypeParts
<1>1. /\ sup[s].pc = "start" /\ CLIENT = 0 /\ sup[s].fd \in open /\ n \in Sessions
      /\ sess' = [sess EXCEPT ![n] = [st |-> "handshake", fd |-> sup[s].fd, profile |-> override]]
      /\ Moves(s, "handshake", sup[s].ever, 0, n)
      /\ UNCHANGED <<CLIENT, TRAFFIC, main, stop, open>>
  BY NativeStartMoves DEF NativeStart
<1>2. n # 0
  BY <1>1, ConstantTypes DEF Sessions
<1> HIDE DEF n
<1>3. Live(s) /\ ~Stopping
  BY <1>1, BusyAlone DEF Busy, Pcs, Rests
<1>4. \A t \in Sups : ~InStart(t)
  BY <1>1, <1>3, AloneInStart DEF InStart
<1>5. \A m \in Sessions : sess[m].st \notin Running
  <2>1. \A m \in Sessions : m # 0
    BY ConstantTypes DEF Sessions
  <2> QED  BY <1>1, <1>4, <2>1 DEF Bridge, Handles, Running, InStart
<1>6. /\ sess'[n].st = "handshake" /\ sess'[n].fd = sup[s].fd
      /\ \A m \in Sessions : m # n => sess'[m] = sess[m]
  BY <1>0, <1>1
<1>7. \A t \in Sups : t # s => ~InStart(t)'
  BY <1>1, <1>4 DEF Moves, InStart
<1>8. Handles'
  BY <1>1, <1>2, <1>5, <1>6, <1>7 DEF Handles, InStart, Moves, Running
<1>9. Silent' /\ Fds'
  BY <1>1, <1>3, <1>5, <1>6 DEF Silent, Stopping, Fds
<1> QED  BY <1>8, <1>9 DEF Bridge

LEMMA EstablishedBridge ==
    ASSUME TypeOK, Jobs, Bridge, NEW s \in Sups, Established(s)
    PROVE  Bridge'
<1> DEFINE n == sup[s].sess
<1>0. sess \in [Sessions -> SessRec] /\ sup \in [Sups -> SupRec]
  BY TypeParts
<1>1. /\ sup[s].pc = "handshake" /\ sess' = [sess EXCEPT ![n].st = "up"]
      /\ Moves(s, "traffic", sup[s].ever, sup[s].fd, n)
      /\ UNCHANGED <<CLIENT, TRAFFIC, main, stop, open>>
  BY EstablishedMoves DEF Established
<1>2. n \in Sessions /\ n # 0 /\ CLIENT = 0 /\ sess[n].st = "handshake"
  BY <1>0, <1>1 DEF Bridge, Handles, InStart, SupRec
<1> HIDE DEF n
<1>3. Live(s) /\ ~Stopping
  BY <1>1, BusyAlone DEF Busy, Pcs, Rests
<1>4. \A t \in Sups : t # s => ~InStart(t) /\ ~InStart(t)'
  BY <1>1, <1>3, AloneInStart DEF InStart, Moves
<1>5. /\ sess'[n].st = "up" /\ sess'[n].fd = sess[n].fd
      /\ \A m \in Sessions : m # n => sess'[m] = sess[m]
  BY <1>0, <1>1, <1>2 DEF SessRec
<1>6. \A m \in Sessions : m # n => sess[m].st \notin Running
  <2> SUFFICES ASSUME NEW m \in Sessions, m # n, sess[m].st \in Running PROVE FALSE
    OBVIOUS
  <2>1. m # 0 /\ n = sup[s].sess
    BY ConstantTypes DEF Sessions, n
  <2>2. CASE sess[m].st = "handshake"
    BY <1>4, <2>1, <2>2 DEF Bridge, Handles, InStart
  <2>3. CASE sess[m].st = "up"
    BY <1>1, <1>2, <1>4, <2>1, <2>3 DEF Bridge, Handles, InStart
  <2> QED  BY <2>2, <2>3 DEF Running
<1>7. Handles'
  BY <1>1, <1>2, <1>4, <1>5, <1>6 DEF Bridge, Handles, InStart, Moves, Running
<1>8. Silent'
  BY <1>1, <1>3 DEF Silent, Stopping
<1>9. Fds'
  BY <1>1, <1>2, <1>5, <1>6 DEF Bridge, Fds, Running
<1> QED  BY <1>7, <1>8, <1>9 DEF Bridge

LEMMA StoreTrafficBridge ==
    ASSUME TypeOK, Jobs, Bridge, NEW s \in Sups, StoreTraffic(s)
    PROVE  Bridge'
<1>1. /\ sup[s].pc = "traffic" /\ TRAFFIC' = TRUE
      /\ Moves(s, "store", sup[s].ever, sup[s].fd, sup[s].sess)
      /\ UNCHANGED <<CLIENT, sess, main, stop, open>>
  BY StoreTrafficMoves DEF StoreTraffic
<1>2. Live(s) /\ ~Stopping
  BY <1>1, BusyAlone DEF Busy, Pcs, Rests
<1>3. \A t \in Sups : t # s => ~InStart(t) /\ ~InStart(t)'
  BY <1>1, <1>2, AloneInStart DEF InStart, Moves
<1>4. Handles'
  BY <1>1, <1>3 DEF Bridge, Handles, InStart, Moves
<1>5. Silent' /\ Fds'
  BY <1>1, <1>2 DEF Bridge, Silent, Stopping, Fds
<1> QED  BY <1>4, <1>5 DEF Bridge

LEMMA StoreClientBridge ==
    ASSUME TypeOK, Jobs, Bridge, NEW s \in Sups, StoreClient(s)
    PROVE  Bridge'
<1>1. /\ sup[s].pc = "store" /\ CLIENT' = sup[s].sess
      /\ Moves(s, "connected", sup[s].ever, sup[s].fd, 0)
      /\ UNCHANGED <<TRAFFIC, sess, main, stop, open>>
  BY StoreClientMoves DEF StoreClient
<1>2. Live(s) /\ ~Stopping
  BY <1>1, BusyAlone DEF Busy, Pcs, Rests
<1>3. \A t \in Sups : (t # s => ~InStart(t)) /\ ~InStart(t)'
  BY <1>1, <1>2, AloneInStart DEF InStart, Moves
<1>4. \A n \in Sessions : n # 0
  BY ConstantTypes DEF Sessions
<1>5. \A n \in Sessions : sess[n].st # "handshake" /\ (sess[n].st = "up" => CLIENT' = n)
  BY <1>1, <1>3, <1>4 DEF Bridge, Handles, InStart
<1>6. TRAFFIC'
  BY <1>1 DEF Bridge, Handles
<1>7. Handles'
  BY <1>1, <1>3, <1>5, <1>6 DEF Handles, InStart
<1>8. Silent' /\ Fds'
  BY <1>1, <1>2 DEF Bridge, Silent, Stopping, Fds
<1> QED  BY <1>7, <1>8 DEF Bridge

LEMMA SuperviseBridge ==
    ASSUME TypeOK, Jobs, Bridge, NEW s \in Sups, Supervise(s)
    PROVE  Bridge'
<1>t. /\ Scalars /\ sup \in [Sups -> SupRec] /\ stop \in [Stops -> StopRec]
      /\ sess \in [Sessions -> SessRec]
  BY TypeParts
<1>k. ASSUME Ends(s) \/ \E pc \in Pcs \ {"handshake", "traffic", "store"} : \E ever, fd, n : Moves(s, pc, ever, fd, n),
             ~InStart(s) \/ sess'[sup[s].sess].st \notin Running,
             SessKept, HsKept \/ Live(s), UNCHANGED <<CLIENT, TRAFFIC>>, open \subseteq open',
             Stopping' => Stopping
      PROVE  Bridge'
  <2>1. (\A t \in Sups : t # s => sup'[t] = sup[t]) /\ ~InStart(s)'
    BY <1>k DEF Ends, Moves, InStart
  <2>2. \A t \in Sups : InStart(t)' => sup'[t].pc = sup[t].pc /\ sup'[t].sess = sup[t].sess
    BY <2>1
  <2>3. \A t \in Sups : InStart(t) =>
               \/ sup'[t].pc = sup[t].pc /\ sup'[t].sess = sup[t].sess /\ HsKept
               \/ sess'[sup[t].sess].st \notin Running /\ ~InStart(t)'
    BY <1>k, <2>1, AloneInStart
  <2> QED  BY <1>k, <2>2, <2>3, KeptBridge
<1>q. ASSUME NativeStop, NEW pc \in {"cleared", "lost_wait"}, Live(s), ~InStart(s),
             Moves(s, pc, sup[s].ever, sup[s].fd, CLIENT)
      PROVE  Bridge'
  <2>1. \A t \in Sups : ~InStart(t)
    BY <1>q, AloneInStart
  <2>2. \A t \in Sups : ~InStart(t)'
    BY <1>q, <2>1 DEF Moves, InStart
  <2> QED  BY <1>q, <2>1, <2>2, StopBridge, QuietBridge
<1>1. CASE Cancelled(s)
  <2>1. /\ ~InStart(s) /\ SessKept /\ HsKept /\ UNCHANGED <<CLIENT, TRAFFIC, open>> /\ (Stopping' => Stopping)
    BY <1>1 DEF Cancelled, InStart, SessKept, HsKept, Stopping, bridge_vars
  <2> QED  BY <1>1, <1>k, <2>1, CancelledMoves DEF Pcs
<1>2. CASE Clear(s)
  <2>1. ~InStart(s) /\ Live(s) /\ UNCHANGED open /\ (Stopping' => Stopping)
    BY <1>2 DEF Clear, InStart, Live, Idle, AtRest, Stopping
  <2>2. CASE UNCHANGED bridge_vars /\ Ends(s)
    BY <1>k, <2>1, <2>2 DEF SessKept, HsKept, bridge_vars
  <2> QED  BY <1>2, <1>q, <2>1, <2>2, ClearMoves
<1>3. CASE Profile(s)
  <2>1. ~InStart(s) /\ UNCHANGED open /\ (Stopping' => Stopping) /\ SetProfile(store)
    BY <1>3 DEF Profile, InStart, Stopping
  <2> QED  BY <1>3, <1>k, <2>1, SetProfileKept, ProfileMoves DEF Pcs
<1>4. CASE Tun(s)
  <2>1. ~InStart(s) /\ SessKept /\ HsKept /\ UNCHANGED <<CLIENT, TRAFFIC>> /\ (Stopping' => Stopping)
    BY <1>4 DEF Tun, InStart, SessKept, HsKept, Stopping, bridge_vars
  <2>2. open \subseteq open'
    BY <1>4, TunMoves
  <2> QED  BY <1>4, <1>k, <2>1, <2>2, TunMoves DEF Pcs
<1>5. CASE NativeStart(s)
  BY <1>5, NativeStartBridge
<1>6. CASE Established(s)
  BY <1>6, EstablishedBridge
<1>7. CASE StoreTraffic(s)
  BY <1>7, StoreTrafficBridge
<1>8. CASE StoreClient(s)
  BY <1>8, StoreClientBridge
<1>9. CASE ConnectFails(s)
  <2>1. sup[s].pc \in {"tun", "start", "handshake"} /\ UNCHANGED <<CLIENT, TRAFFIC, open, main>>
    BY <1>9 DEF ConnectFails
  <2>2. Live(s) /\ Mine(s)
    BY <2>1, BusyAlone DEF Busy, Pcs, Rests
  <2>3. Stopping' => Stopping
    <3>1. CASE UNCHANGED stop
      BY <2>1, <3>1 DEF Stopping
    <3>2. CASE LaunchStop(<<s, "failure">>)
      <4>1. \A c \in Stops : stop'[c].pc \in {stop[c].pc, "begin"}
        BY <1>t, <3>2 DEF LaunchStop, NoStop
      <4> QED  BY <2>1, <4>1 DEF Stopping
    <3> QED  BY <1>9, <2>2, <3>1, <3>2, ConnectFailsMoves
  <2>4. SessKept /\ (~InStart(s) \/ sess'[sup[s].sess].st \notin Running)
    <3>1. CASE sup[s].pc = "handshake"
      <4>1. sup[s].sess \in Sessions
        BY <1>t, <3>1 DEF Bridge, Handles, InStart, SupRec
      <4> QED  BY <1>9, <3>1, <4>1, EndingEffect DEF ConnectFails
    <3>2. CASE sup[s].pc # "handshake"
      BY <1>9, <2>1, <3>2 DEF ConnectFails, SessKept, InStart
    <3> QED  BY <3>1, <3>2
  <2> QED  BY <1>9, <1>k, <2>1, <2>2, <2>3, <2>4, ConnectFailsMoves DEF Pcs
<1>10. CASE NowConnected(s)
  <2>1. /\ ~InStart(s) /\ SessKept /\ HsKept /\ UNCHANGED <<CLIENT, TRAFFIC, open>> /\ (Stopping' => Stopping)
    BY <1>10 DEF NowConnected, InStart, SessKept, HsKept, Stopping, bridge_vars
  <2> QED  BY <1>10, <1>k, <2>1, NowConnectedMoves DEF Pcs
<1>11. CASE Foreground(s)
  <2>1. /\ ~InStart(s) /\ SessKept /\ HsKept /\ UNCHANGED <<CLIENT, TRAFFIC, open>> /\ (Stopping' => Stopping)
    BY <1>11 DEF Foreground, InStart, SessKept, HsKept, Stopping, bridge_vars
  <2> QED  BY <1>11, <1>k, <2>1, ForegroundMoves DEF Pcs
<1>12. CASE Monitor(s)
  <2>1. /\ ~InStart(s) /\ SessKept /\ HsKept /\ UNCHANGED <<CLIENT, TRAFFIC, open>> /\ (Stopping' => Stopping)
    BY <1>12 DEF Monitor, InStart, SessKept, HsKept, Stopping, bridge_vars
  <2> QED  BY <1>12, <1>k, <2>1, MonitorMoves DEF Pcs
<1>13. CASE Lost(s)
  <2>1. ~InStart(s) /\ Live(s) /\ UNCHANGED open /\ (Stopping' => Stopping)
    BY <1>13 DEF Lost, InStart, Live, Idle, AtRest, Stopping
  <2>2. CASE UNCHANGED bridge_vars /\ Ends(s)
    BY <1>k, <2>1, <2>2 DEF SessKept, HsKept, bridge_vars
  <2> QED  BY <1>13, <1>q, <2>1, <2>2, LostMoves
<1>14. CASE Reconnect(s)
  <2>1. /\ ~InStart(s) /\ SessKept /\ HsKept /\ UNCHANGED <<CLIENT, TRAFFIC, open>> /\ (Stopping' => Stopping)
    BY <1>14 DEF Reconnect, InStart, SessKept, HsKept, Stopping, bridge_vars
  <2> QED  BY <1>14, <1>k, <2>1, ReconnectMoves DEF Pcs
<1> QED
  BY <1>1, <1>2, <1>3, <1>4, <1>5, <1>6, <1>7, <1>8, <1>9, <1>10, <1>11, <1>12, <1>13, <1>14 DEF Supervise

\* A step that leaves the supervisors where they are and no handshake ends.
LEMMA StillBridge ==
    ASSUME TypeOK, Bridge, SessKept, HsKept, UNCHANGED <<CLIENT, TRAFFIC>>,
           \A t \in Sups : sup'[t].pc = sup[t].pc /\ sup'[t].sess = sup[t].sess,
           open \subseteq open' \/ Quiet, Stopping' => Stopping
    PROVE  Bridge'
<1>1. \A t \in Sups : InStart(t)' => sup'[t].pc = sup[t].pc /\ sup'[t].sess = sup[t].sess
  OBVIOUS
<1>2. \A t \in Sups : InStart(t) =>
               \/ sup'[t].pc = sup[t].pc /\ sup'[t].sess = sup[t].sess /\ HsKept
               \/ sess'[sup[t].sess].st \notin Running /\ ~InStart(t)'
  OBVIOUS
<1> QED  BY <1>1, <1>2, KeptBridge

LEMMA StoppingBridge ==
    ASSUME TypeOK, Jobs, Bridge, NEW c \in Stops,
           StopJoin(c) \/ StopNative(c) \/ StopMain(c) \/ StopLost(c)
    PROVE  Bridge'
<1>1. CASE StopJoin(c)
  <2>1. stop[c].job \in Sups \cup {0}
    BY TypeParts DEF StopRec
  <2>2. \A t \in Sups : sup'[t].pc = sup[t].pc /\ sup'[t].sess = sup[t].sess
    BY <1>1, <2>1, StopJoinView, CancelEffect
  <2>3. Stopping' => Stopping
    BY <1>1, StopJoinView DEF StopMoves, Stopping
  <2>4. SessKept /\ HsKept /\ UNCHANGED <<CLIENT, TRAFFIC, open>>
    BY <1>1 DEF StopJoin, SessKept, HsKept, bridge_vars
  <2> QED  BY <2>2, <2>3, <2>4, StillBridge
<1>2. CASE StopNative(c)
  <2>1. stop[c].pc = "native" /\ sup' = sup /\ NativeStop
    BY <1>2, StopNativeView DEF StopNative
  <2>2. \A t \in Sups : ~Live(t)
    BY <2>1 DEF Jobs, StopsHold, Joining, Over
  <2>3. \A t \in Sups : ~InStart(t) /\ ~InStart(t)'
    BY <2>1, <2>2 DEF Live, Idle, AtRest, InStart
  <2> QED  BY <2>1, <2>3, StopBridge, QuietBridge
<1>3. CASE StopMain(c)
  <2>1. stop[c].pc = "wait" /\ StopMoves(c, "done") /\ sup' = sup
    BY <1>3, StopEndView
  <2>2. Quiet
    BY <2>1 DEF Bridge, Silent, Stopping
  <2>3. Stopping' => Stopping
    BY <2>1 DEF StopMoves, Stopping
  <2>4. SessKept /\ HsKept /\ UNCHANGED <<CLIENT, TRAFFIC>>
    BY <1>3 DEF StopMain, SessKept, HsKept, bridge_vars
  <2> QED  BY <2>1, <2>2, <2>3, <2>4, StillBridge
<1>4. CASE StopLost(c)
  <2>1. StopMoves(c, "done") /\ sup' = sup
    BY <1>4, StopEndView
  <2>2. Stopping' => Stopping
    BY <2>1 DEF StopMoves, Stopping
  <2>3. SessKept /\ HsKept /\ UNCHANGED <<CLIENT, TRAFFIC, open>>
    BY <1>4 DEF StopLost, SessKept, HsKept, bridge_vars
  <2> QED  BY <2>1, <2>2, <2>3, StillBridge
<1> QED  BY <1>1, <1>2, <1>3, <1>4

LEMMA StartTunnelBridge ==
    ASSUME TypeOK, Bridge, NEW s \in Sups, StartTunnel(s)
    PROVE  Bridge'
<1>1. /\ sup[s].pc = "none" /\ UNCHANGED <<CLIENT, TRAFFIC, sess, open, main, stop>>
  BY DEF StartTunnel, bridge_vars
<1>2. ~InStart(s) /\ ~InStart(s)'
  BY <1>1, StartTunnelView DEF InStart
<1>3. \A t \in Sups : t # s => sup'[t].pc = sup[t].pc /\ sup'[t].sess = sup[t].sess
  BY StartTunnelView
<1>4. SessKept /\ HsKept /\ (Stopping' => Stopping)
  BY <1>1 DEF SessKept, HsKept, Stopping
<1>5. \A t \in Sups : InStart(t)' => sup'[t].pc = sup[t].pc /\ sup'[t].sess = sup[t].sess
  BY <1>2, <1>3
<1>6. \A t \in Sups : InStart(t) =>
               \/ sup'[t].pc = sup[t].pc /\ sup'[t].sess = sup[t].sess /\ HsKept
               \/ sess'[sup[t].sess].st \notin Running /\ ~InStart(t)'
  BY <1>2, <1>3, <1>4
<1> QED  BY <1>1, <1>4, <1>5, <1>6, KeptBridge

LEMMA TeardownBridge ==
    ASSUME TypeOK, Bridge, NEW why \in {"revoke", "destroy"}, Teardown(why), orderly'
    PROVE  Bridge' /\ Quiet'
<1>1. NativeStop /\ (\A t \in Sups : AtRest(t)) /\ sup' = Cancel(tunnelJob)
  BY DEF Teardown
<1>2. tunnelJob \in Sups \cup {0}
  BY TypeParts DEF Scalars
<1>3. \A t \in Sups : ~InStart(t) /\ ~InStart(t)'
  BY <1>1, <1>2, CancelEffect DEF AtRest, InStart
<1> QED  BY <1>1, <1>3, StopBridge, QuietBridge

LEMMA TeardownEndsBridge ==
    ASSUME TypeOK, Bridge, TeardownEnds
    PROVE  Bridge'
<1>1. SessKept /\ HsKept /\ UNCHANGED <<CLIENT, TRAFFIC>>
  BY DEF TeardownEnds, SessKept, HsKept, bridge_vars
<1>2. Stopping /\ Quiet
  BY TeardownEndsView DEF Bridge, Silent, Stopping
<1> QED  BY <1>1, <1>2, TeardownEndsView, StillBridge

LEMMA OthersBridge ==
    ASSUME TypeOK, Bridge,
           \/ StartRefused
           \/ \E k \in 1..MaxUserStops : StopTunnel(k)
           \/ \E p \in Profiles : SelectProfile(p) \/ RunSetProfile(p)
           \/ \E n \in Sessions : TunnelStops(n) \/ TasksEnd(n)
    PROVE  Bridge'
<1>t. sess \in [Sessions -> SessRec] /\ stop \in [Stops -> StopRec]
  BY TypeParts
<1>1. CASE StartRefused
  <2>1. SessKept /\ HsKept /\ UNCHANGED <<CLIENT, TRAFFIC, open, sup>> /\ (Stopping' => Stopping)
    BY <1>1 DEF StartRefused, SessKept, HsKept, Stopping, bridge_vars
  <2> QED  BY <2>1, StillBridge
<1>2. ASSUME NEW k \in 1..MaxUserStops, StopTunnel(k) PROVE Bridge'
  <2>1. \A c \in Stops : stop'[c].pc \in {stop[c].pc, "begin"}
    BY <1>2, <1>t DEF StopTunnel, LaunchStop, NoStop
  <2>2. SessKept /\ HsKept /\ UNCHANGED <<CLIENT, TRAFFIC, open, sup, main>>
    BY <1>2 DEF StopTunnel, SessKept, HsKept, bridge_vars
  <2>3. Stopping' => Stopping
    BY <2>1, <2>2 DEF Stopping
  <2> QED  BY <2>2, <2>3, StillBridge
<1>3. ASSUME NEW p \in Profiles, SelectProfile(p) PROVE Bridge'
  <2>1. SessKept /\ HsKept /\ UNCHANGED <<CLIENT, TRAFFIC, open, sup>> /\ (Stopping' => Stopping)
    BY <1>3 DEF SelectProfile, SessKept, HsKept, Stopping, bridge_vars
  <2> QED  BY <2>1, StillBridge
<1>4. ASSUME NEW p \in Profiles, RunSetProfile(p) PROVE Bridge'
  <2>1. SetProfile(p) /\ UNCHANGED <<open, sup>> /\ (Stopping' => Stopping)
    BY <1>4 DEF RunSetProfile, Stopping
  <2> QED  BY <2>1, SetProfileKept, StillBridge
<1>5. ASSUME NEW n \in Sessions, TunnelStops(n) \/ TasksEnd(n) PROVE Bridge'
  <2>1. /\ sess[n].st # "handshake" /\ UNCHANGED <<CLIENT, TRAFFIC, open, sup, stop, main>>
        /\ \E st \in {"stopping", "parked", "down", "aborted", "gone"} : sess' = Ending(n, st)
    BY <1>5 DEF TunnelStops, TasksEnd
  <2>2. SessKept /\ HsKept
    BY <2>1, EndingEffect DEF HsKept
  <2>3. Stopping' => Stopping
    BY <2>1 DEF Stopping
  <2> QED  BY <2>1, <2>2, <2>3, StillBridge
<1> QED  BY <1>1, <1>2, <1>3, <1>4, <1>5

-----------------------------------------------------------------------------
(***************************************************************************)
(* Device is kept.                                                         *)
(***************************************************************************)
Early == {"new", "cleared", "tun"}

LEMMA MoveDevice ==
    ASSUME TypeOK, Device, NEW s \in Sups, NEW pc, NEW ever, NEW fd, NEW n, Moves(s, pc, ever, fd, n),
           UNCHANGED <<tunnelJob, pfd, open>>,
           pc \in {"foreground", "monitor", "polled", "lost", "lost_wait", "backoff"} => ever,
           ever \/ pc \notin Early => sup[s].ever \/ sup[s].pc \notin Early
    PROVE  Device'
<1>1. \A t \in Sups : t # s => sup'[t] = sup[t]
  BY DEF Moves
<1>2. sup'[s].pc = pc /\ sup'[s].ever = ever
  BY DEF Moves
<1>3. tunnelJob \in Sups \cup {0}
  BY TypeParts DEF Scalars
<1> QED  BY <1>1, <1>2, <1>3 DEF Device, Early

\* Nobody moves; the job may be given up, and then the TUN closed.
LEMMA StillDevice ==
    ASSUME TypeOK, Device,
           \A t \in Sups : \/ sup'[t].pc = sup[t].pc /\ sup'[t].ever = sup[t].ever
                           \/ sup'[t].pc = "done",
           tunnelJob' # 0 => tunnelJob' = tunnelJob /\ sup'[tunnelJob].pc # "done",
           \/ UNCHANGED <<pfd, open>>
           \/ tunnelJob' = 0 /\ pfd' = 0 /\ open' = open \ {pfd}
    PROVE  Device'
<1>1. tunnelJob \in Sups \cup {0}
  BY TypeParts DEF Scalars
<1> QED  BY <1>1 DEF Device

LEMMA SuperviseDevice ==
    ASSUME TypeOK, Jobs, Device, NEW s \in Sups, Supervise(s)
    PROVE  Device'
<1>0. s # 0 /\ Scalars
  BY Bounds, TypeParts
<1>e. ASSUME Ends(s), UNCHANGED <<pfd, open>>, tunnelJob' = 0 \/ (tunnelJob' = tunnelJob /\ s # tunnelJob)
      PROVE  Device'
  <2>1. \A t \in Sups : \/ sup'[t].pc = sup[t].pc /\ sup'[t].ever = sup[t].ever
                        \/ sup'[t].pc = "done"
    BY <1>e DEF Ends
  <2>2. tunnelJob' # 0 => tunnelJob' = tunnelJob /\ sup'[tunnelJob].pc # "done"
    BY <1>0, <1>e DEF Ends, Jobs, JobLives, Idle, Scalars
  <2> QED  BY <1>e, <2>1, <2>2, StillDevice
<1>j. ASSUME sup[s].cancelled \/ sup[s].inst \in userStopped PROVE s # tunnelJob
  BY <1>0, <1>j DEF Jobs, JobLives, Mine
<1>1. CASE Cancelled(s)
  <2>1. sup[s].cancelled /\ UNCHANGED <<pfd, open, tunnelJob>>
    BY <1>1 DEF Cancelled
  <2> QED  BY <1>1, <1>e, <1>j, <2>1, CancelledMoves
<1>2. CASE Clear(s)
  <2>1. UNCHANGED <<pfd, open, tunnelJob>> /\ sup[s].pc \in {"new", "backoff", "lost"}
    BY <1>2 DEF Clear
  <2>2. CASE Ends(s) /\ sup[s].inst \in userStopped
    BY <1>e, <1>j, <2>1, <2>2
  <2>3. CASE Moves(s, "cleared", sup[s].ever, sup[s].fd, CLIENT)
    <3>1. sup[s].pc \in {"backoff", "lost"} => sup[s].ever
      BY DEF Device
    <3> QED  BY <1>2, <2>1, <2>3, <3>1, MoveDevice DEF Early
  <2> QED  BY <1>2, <2>2, <2>3, ClearMoves
<1>3. CASE Profile(s)
  BY <1>3, ProfileMoves, MoveDevice DEF Profile, Device, Early, bridge_vars
<1>4. CASE Tun(s)
  <2>1. Mine(s) /\ tunnelJob' = tunnelJob
    BY <1>4, BusyAlone DEF Tun, Busy, Pcs, Rests
  <2>2. pfd' # 0 /\ open' \subseteq {pfd'}
    <3>1. CASE pfd # 0
      BY <1>4, <2>1, <3>1, TunMoves DEF Device
    <3>2. CASE pfd = 0
      <4>1. open = {}
        BY <1>0, <3>2, ConstantTypes DEF Device, Scalars
      <4>2. fds + 1 # 0
        BY <1>0, ConstantTypes DEF Scalars
      <4> QED  BY <1>4, <2>1, <3>2, <4>1, <4>2, TunMoves
    <3> QED  BY <3>1, <3>2
  <2>3. PICK fd : Moves(s, "start", sup[s].ever, fd, sup[s].sess)
    BY <1>4, TunMoves
  <2> QED  BY <2>1, <2>2, <2>3 DEF Device, Moves
<1>5. CASE NativeStart(s)
  BY <1>5, NativeStartMoves, MoveDevice DEF NativeStart, Device, Early, bridge_vars
<1>6. CASE Established(s)
  BY <1>6, EstablishedMoves, MoveDevice DEF Established, Device, Early, bridge_vars
<1>7. CASE StoreTraffic(s)
  BY <1>7, StoreTrafficMoves, MoveDevice DEF StoreTraffic, Device, Early, bridge_vars
<1>8. CASE StoreClient(s)
  BY <1>8, StoreClientMoves, MoveDevice DEF StoreClient, Device, Early, bridge_vars
<1>9. CASE ConnectFails(s)
  <2>1. UNCHANGED <<pfd, open>> /\ sup[s].pc \in {"tun", "start", "handshake"}
    BY <1>9 DEF ConnectFails
  <2>2. Mine(s)
    BY <2>1, BusyAlone DEF Busy, Pcs, Rests
  <2>3. CASE sup[s].ever
    BY <1>9, <2>1, <2>3, ConnectFailsMoves, MoveDevice
  <2>4. CASE ~sup[s].ever
    BY <1>9, <1>e, <2>1, <2>2, <2>4, ConnectFailsMoves DEF LaunchStop
  <2> QED  BY <2>3, <2>4
<1>10. CASE NowConnected(s)
  BY <1>10, NowConnectedMoves, MoveDevice DEF NowConnected, Device, Early, bridge_vars
<1>11. CASE Foreground(s)
  BY <1>11, ForegroundMoves, MoveDevice DEF Foreground, Device, Early, bridge_vars
<1>12. CASE Monitor(s)
  BY <1>12, MonitorMoves, MoveDevice DEF Monitor, Device, Early, bridge_vars
<1>13. CASE Lost(s)
  <2>1. UNCHANGED <<pfd, open, tunnelJob>> /\ sup[s].pc \in {"new", "backoff", "lost"}
    BY <1>13 DEF Lost
  <2>2. CASE Ends(s) /\ sup[s].inst \in userStopped
    BY <1>e, <1>j, <2>1, <2>2
  <2>3. CASE Moves(s, "lost_wait", sup[s].ever, sup[s].fd, CLIENT)
    <3>1. sup[s].pc \in {"backoff", "lost"} => sup[s].ever
      BY DEF Device
    <3> QED  BY <1>13, <2>1, <2>3, <3>1, MoveDevice DEF Early, Lost
  <2> QED  BY <1>13, <2>2, <2>3, LostMoves
<1>14. CASE Reconnect(s)
  BY <1>14, ReconnectMoves, MoveDevice DEF Reconnect, Device, Early, bridge_vars
<1> QED
  BY <1>1, <1>2, <1>3, <1>4, <1>5, <1>6, <1>7, <1>8, <1>9, <1>10, <1>11, <1>12, <1>13, <1>14 DEF Supervise

LEMMA StoppingDevice ==
    ASSUME TypeOK, Jobs, Device, NEW c \in Stops,
           StopJoin(c) \/ StopNative(c) \/ StopMain(c) \/ StopLost(c)
    PROVE  Device'
<1>1. /\ tunnelJob' = 0
      /\ \A t \in Sups : sup'[t].pc = sup[t].pc /\ sup'[t].ever = sup[t].ever
  <2>1. CASE StopJoin(c)
    <3>1. stop[c].job \in Sups \cup {0} /\ ~Over(c)
      BY <2>1, StopJoinView, TypeParts DEF StopRec, Over
    <3>2. tunnelJob' = 0
      BY <2>1, <3>1, StopJoinView DEF Jobs, StopsHold, StopMoves
    <3> QED  BY <2>1, <3>1, <3>2, StopJoinView, CancelEffect
  <2>2. CASE StopNative(c) \/ StopMain(c) \/ StopLost(c)
    BY <2>2, StopNativeView, StopEndView DEF Jobs, StopsHold, StopMoves, Over
  <2> QED  BY <2>1, <2>2
<1>2. UNCHANGED <<pfd, open>> \/ (pfd' = 0 /\ open' = open \ {pfd})
  BY DEF StopJoin, StopNative, StopMain, StopLost
<1> QED  BY <1>1, <1>2, StillDevice

LEMMA RequestsDevice ==
    ASSUME TypeOK, Jobs, Device,
           \/ \E s \in Sups : StartTunnel(s)
           \/ StartRefused
           \/ \E k \in 1..MaxUserStops : StopTunnel(k)
           \/ \E p \in Profiles : SelectProfile(p) \/ RunSetProfile(p)
           \/ \E why \in {"revoke", "destroy"} : Teardown(why)
           \/ TeardownEnds
           \/ \E n \in Sessions : TunnelStops(n) \/ TasksEnd(n)
    PROVE  Device'
<1>0. tunnelJob \in Sups \cup {0}
  BY TypeParts DEF Scalars
<1>1. ASSUME NEW s \in Sups, StartTunnel(s) PROVE Device'
  <2>1. UNCHANGED <<pfd, open>> /\ tunnelJob' = s
    BY <1>1 DEF StartTunnel
  <2> QED  BY <1>1, <2>1, StartTunnelView DEF Device
<1>2. CASE \/ StartRefused
           \/ \E p \in Profiles : SelectProfile(p) \/ RunSetProfile(p)
           \/ \E n \in Sessions : TunnelStops(n) \/ TasksEnd(n)
  <2>1. UNCHANGED <<pfd, open, tunnelJob, sup>>
    BY <1>2 DEF StartRefused, SelectProfile, RunSetProfile, TunnelStops, TasksEnd
  <2> QED  BY <2>1 DEF Device
<1>3. ASSUME NEW k \in 1..MaxUserStops, StopTunnel(k) PROVE Device'
  BY <1>3, StillDevice DEF StopTunnel, LaunchStop
<1>4. ASSUME NEW why \in {"revoke", "destroy"}, Teardown(why) PROVE Device'
  <2>1. UNCHANGED <<pfd, open>> /\ tunnelJob' = 0 /\ sup' = Cancel(tunnelJob)
    BY <1>4 DEF Teardown
  <2> QED  BY <1>0, <2>1, CancelEffect, StillDevice
<1>5. CASE TeardownEnds
  <2>1. pfd' = 0 /\ open' = open \ {pfd} /\ tunnelJob' = 0
    BY <1>5 DEF TeardownEnds, Jobs, MainHolds
  <2> QED  BY <1>5, <2>1, TeardownEndsView, StillDevice
<1> QED  BY <1>1, <1>2, <1>3, <1>4, <1>5

-----------------------------------------------------------------------------
(***************************************************************************)
(* Tidy and Shown are kept.                                                *)
(***************************************************************************)

\* A supervisor either ends, and touches nothing else, or it acts for the service.
LEMMA ActsOrEnds ==
    ASSUME TypeOK, Jobs, NEW s \in Sups, Supervise(s)
    PROVE  /\ UNCHANGED <<alive, inst, main, store, pending>>
           /\ \/ Ends(s) /\ UNCHANGED <<tunnelJob, stop, bridge_vars, pfd, open, status, missed>>
              \/ Live(s) /\ Mine(s)
<1>1. CASE Cancelled(s)
  <2>1. UNCHANGED <<alive, inst, main, store, pending>> /\ UNCHANGED <<tunnelJob, stop, pfd, open, status, missed>>
        /\ UNCHANGED bridge_vars
    BY <1>1 DEF Cancelled
  <2> QED  BY <1>1, <2>1, CancelledMoves
<1>2. CASE Clear(s)
  <2>1. UNCHANGED <<alive, inst, main, store, pending>> /\ UNCHANGED <<tunnelJob, stop, pfd, open, status, missed>>
    BY <1>2 DEF Clear
  <2>2. Live(s)
    BY <1>2 DEF Clear, Live, Idle, AtRest
  <2> QED  BY <1>2, <2>1, <2>2, ClearMoves, ActsForService
<1>3. CASE Profile(s)
  BY <1>3, BusyAlone DEF Profile, Busy, Pcs, Rests
<1>4. CASE Tun(s)
  BY <1>4, BusyAlone DEF Tun, Busy, Pcs, Rests
<1>5. CASE NativeStart(s)
  BY <1>5, BusyAlone DEF NativeStart, Busy, Pcs, Rests
<1>6. CASE Established(s)
  BY <1>6, BusyAlone DEF Established, Busy, Pcs, Rests
<1>7. CASE StoreTraffic(s)
  BY <1>7, BusyAlone DEF StoreTraffic, Busy, Pcs, Rests
<1>8. CASE StoreClient(s)
  BY <1>8, BusyAlone DEF StoreClient, Busy, Pcs, Rests
<1>9. CASE ConnectFails(s)
  BY <1>9, BusyAlone DEF ConnectFails, Busy, Pcs, Rests
<1>10. CASE NowConnected(s)
  BY <1>10, BusyAlone DEF NowConnected, Busy, Pcs, Rests
<1>11. CASE Foreground(s)
  <2>1. Live(s) /\ sup[s].pc # "lost" /\ UNCHANGED <<alive, inst, main, store, pending>>
    BY <1>11 DEF Foreground, Live, Idle
  <2> QED  BY <2>1, ActsForService
<1>12. CASE Monitor(s)
  <2>1. Live(s) /\ sup[s].pc # "lost" /\ UNCHANGED <<alive, inst, main, store, pending>>
    BY <1>12 DEF Monitor, Live, Idle
  <2> QED  BY <2>1, ActsForService
<1>13. CASE Lost(s)
  <2>1. UNCHANGED <<alive, inst, main, store, pending>> /\ UNCHANGED <<tunnelJob, stop, pfd, open, status, missed>>
    BY <1>13 DEF Lost
  <2>2. Live(s)
    BY <1>13 DEF Lost, Live, Idle, AtRest
  <2> QED  BY <1>13, <2>1, <2>2, LostMoves, ActsForService
<1>14. CASE Reconnect(s)
  BY <1>14, BusyAlone DEF Reconnect, Busy, Pcs, Rests
<1> QED
  BY <1>1, <1>2, <1>3, <1>4, <1>5, <1>6, <1>7, <1>8, <1>9, <1>10, <1>11, <1>12, <1>13, <1>14 DEF Supervise

LEMMA SuperviseTidy ==
    ASSUME TypeOK, Jobs, Tidy, NEW s \in Sups, Supervise(s)
    PROVE  Tidy'
<1>1. CASE Ends(s) /\ UNCHANGED <<tunnelJob, stop, bridge_vars, pfd, open, status, missed>>
  BY <1>1, ActsOrEnds DEF Tidy, Clean, Quiet, StopsIdle, bridge_vars
<1>2. CASE Live(s) /\ Mine(s)
  <2>0. alive' = alive /\ s # 0
    BY ActsOrEnds, Bounds
  <2>1. alive' /\ s # 0
    BY <1>2, <2>0 DEF Mine
  <2>2. CASE UNCHANGED <<tunnelJob, stop>>
    BY <1>2, <2>1, <2>2 DEF Tidy, Jobs, Owned, Joining, StopsIdle
  <2>3. CASE LaunchStop(<<s, "failure">>)
    <3>1. <<s, "failure">> \in Stops
      BY DEF Stops
    <3>2. stop'[<<s, "failure">>].pc = "begin"
      BY <2>3, <3>1, TypeParts DEF LaunchStop, NoStop
    <3> QED  BY <2>1, <3>1, <3>2 DEF Tidy, StopsIdle
  <2>4. CASE ConnectFails(s)
    BY <1>2, <2>2, <2>3, <2>4, ConnectFailsMoves
  <2>5. UNCHANGED <<tunnelJob, stop>> \/ ConnectFails(s)
    BY DEF Supervise, Cancelled, Clear, Profile, Tun, NativeStart, Established, StoreTraffic,
         StoreClient, NowConnected, Foreground, Monitor, Lost, Reconnect
  <2> QED  BY <2>2, <2>4, <2>5
<1> QED  BY <1>1, <1>2, ActsOrEnds

LEMMA StoppingTidy ==
    ASSUME TypeOK, Jobs, Bridge, Device, Tidy, NEW c \in Stops,
           StopJoin(c) \/ StopNative(c) \/ StopMain(c) \/ StopLost(c)
    PROVE  Tidy'
<1>1. CASE StopJoin(c)
  <2>1. stop'[c].pc \in {"join", "native"} /\ alive'
    BY <1>1, StopJoinView DEF StopMoves, Living
  <2> QED  BY <2>1 DEF Tidy, StopsIdle
<1>2. CASE StopNative(c)
  <2>1. stop'[c].pc = "wait" /\ UNCHANGED <<alive, main, tunnelJob, pfd, open, status>> /\ NativeStop
    BY <1>2, StopNativeView DEF StopMoves, StopNative
  <2>2. ~StopsIdle'
    BY <2>1 DEF StopsIdle
  <2>3. Quiet => Quiet'
    BY <2>1, NativeStopKept DEF Quiet, SessKept
  <2> QED  BY <2>1, <2>2, <2>3 DEF Tidy, Clean
<1>3. CASE StopMain(c)
  <2>1. /\ stop[c].pc = "wait" /\ UNCHANGED <<CLIENT, TRAFFIC, sess>>
        /\ pfd' = 0 /\ open' = open \ {pfd} /\ status' \in {"idle", "error"}
    BY <1>3 DEF StopMain, bridge_vars
  <2>2. Quiet
    BY <2>1 DEF Bridge, Silent, Stopping
  <2>3. open' = {}
    BY <2>1 DEF Device
  <2> QED  BY <2>1, <2>2, <2>3 DEF Tidy, Clean, Quiet
<1>4. CASE StopLost(c)
  <2>1. ~Over(c) /\ ~Living(c) /\ UNCHANGED <<alive, main, tunnelJob, CLIENT, TRAFFIC, sess, pfd, open, status>>
    BY <1>4, StopEndView DEF StopLost, bridge_vars
  <2>2. ~alive /\ tunnelJob = 0
    BY <2>1 DEF Jobs, StopsHold, Living
  <2> QED  BY <2>1, <2>2 DEF Tidy, Clean, Quiet
<1> QED  BY <1>1, <1>2, <1>3, <1>4

LEMMA RequestsTidy ==
    ASSUME TypeOK, Jobs, Bridge, Device, Tidy,
           \/ \E s \in Sups : StartTunnel(s)
           \/ StartRefused
           \/ \E k \in 1..MaxUserStops : StopTunnel(k)
           \/ \E p \in Profiles : SelectProfile(p) \/ RunSetProfile(p)
           \/ \E why \in {"revoke", "destroy"} : Teardown(why)
           \/ TeardownEnds
           \/ \E n \in Sessions : TunnelStops(n) \/ TasksEnd(n)
    PROVE  Tidy'
<1>1. ASSUME NEW s \in Sups, StartTunnel(s) PROVE Tidy'
  BY <1>1, Bounds DEF StartTunnel, Tidy
<1>2. CASE StartRefused
  <2>1. status' = "error" /\ UNCHANGED <<alive, main, tunnelJob, stop, CLIENT, TRAFFIC, sess, pfd, open>>
    BY <1>2 DEF StartRefused, bridge_vars
  <2> QED  BY <2>1 DEF Tidy, Clean, Quiet, StopsIdle
<1>3. ASSUME NEW k \in 1..MaxUserStops, StopTunnel(k) PROVE Tidy'
  <2>1. <<k, "user">> \in Stops
    BY DEF Stops
  <2>2. stop'[<<k, "user">>].pc = "begin" /\ alive'
    BY <1>3, <2>1, TypeParts DEF StopTunnel, LaunchStop, NoStop
  <2> QED  BY <2>1, <2>2 DEF Tidy, StopsIdle
<1>4. ASSUME UNCHANGED <<alive, main, tunnelJob, stop, CLIENT, TRAFFIC, pfd, open, status>>, SessKept
      PROVE  Tidy'
  BY <1>4 DEF Tidy, Clean, Quiet, StopsIdle, SessKept
<1>5. ASSUME NEW p \in Profiles, SelectProfile(p) PROVE Tidy'
  BY <1>4, <1>5 DEF SelectProfile, SessKept, bridge_vars
<1>6. ASSUME NEW p \in Profiles, RunSetProfile(p) PROVE Tidy'
  <2>1. SetProfile(p) /\ UNCHANGED <<alive, main, tunnelJob, stop, pfd, open, status>>
    BY <1>6 DEF RunSetProfile
  <2> QED  BY <1>4, <2>1, SetProfileKept
<1>7. ASSUME NEW n \in Sessions, TunnelStops(n) \/ TasksEnd(n) PROVE Tidy'
  <2>1. /\ UNCHANGED <<alive, main, tunnelJob, stop, CLIENT, TRAFFIC, pfd, open, status>>
        /\ \E st \in {"stopping", "parked", "down", "aborted", "gone"} : sess' = Ending(n, st)
    BY <1>7 DEF TunnelStops, TasksEnd
  <2> QED  BY <1>4, <2>1, EndingEffect
<1>8. ASSUME NEW why \in {"revoke", "destroy"}, Teardown(why) PROVE Tidy'
  BY <1>8 DEF Teardown, Tidy
<1>9. CASE TeardownEnds
  <2>1. /\ main # "free" /\ UNCHANGED <<CLIENT, TRAFFIC, sess>>
        /\ pfd' = 0 /\ open' = open \ {pfd} /\ status' = "idle"
    BY <1>9 DEF TeardownEnds, bridge_vars
  <2>2. Quiet
    BY <2>1 DEF Bridge, Silent, Stopping
  <2>3. open' = {}
    BY <2>1 DEF Device
  <2> QED  BY <2>1, <2>2, <2>3 DEF Tidy, Clean, Quiet
<1> QED  BY <1>1, <1>2, <1>3, <1>5, <1>6, <1>7, <1>8, <1>9

\* Whoever is shown after a step was shown before.
LEMMA KeptShown ==
    ASSUME Shown, status' = status,
           CLIENT' # 0 => \/ CLIENT # 0
                          \/ \E s \in Sups : Live(s) /\ sup[s].pc \notin {"lost", "lost_wait"},
           \A t \in Sups : Live(t)' /\ sup'[t].pc \notin {"lost", "lost_wait"} =>
               Live(t) /\ sup[t].pc \notin {"lost", "lost_wait"}
    PROVE  Shown'
BY DEF Shown

LEMMA SuperviseShown ==
    ASSUME TypeOK, Jobs, Shown, NEW s \in Sups, Supervise(s)
    PROVE  Shown'
<1>e. ASSUME NEW t \in Sups, t # s, Ends(s) \/ \E pc, ever, fd, n : Moves(s, pc, ever, fd, n)
      PROVE  (Live(t)' <=> Live(t)) /\ sup'[t] = sup[t]
  BY <1>e DEF Ends, Moves, Live, Idle, AtRest
<1>k. ASSUME status' = status, CLIENT' \in {CLIENT, 0},
             \/ Ends(s)
             \/ /\ Live(s)
                /\ \E pc, ever, fd, n : /\ Moves(s, pc, ever, fd, n)
                                        /\ \/ pc \in {"lost", "lost_wait"}
                                           \/ sup[s].pc \notin {"lost", "lost_wait"}
      PROVE  Shown'
  <2>1. Live(s)' /\ sup'[s].pc \notin {"lost", "lost_wait"} =>
               Live(s) /\ sup[s].pc \notin {"lost", "lost_wait"}
    BY <1>k DEF Ends, Moves, Live, Idle
  <2>2. \A t \in Sups : Live(t)' /\ sup'[t].pc \notin {"lost", "lost_wait"} =>
               Live(t) /\ sup[t].pc \notin {"lost", "lost_wait"}
    BY <1>e, <1>k, <2>1
  <2> QED  BY <1>k, <2>2, KeptShown
<1>1. CASE Cancelled(s)
  <2>1. UNCHANGED <<status, CLIENT>>
    BY <1>1 DEF Cancelled, bridge_vars
  <2> QED  BY <1>1, <1>k, <2>1, CancelledMoves
<1>2. CASE Clear(s)
  <2>1. status' = status /\ CLIENT' \in {CLIENT, 0}
    BY <1>2, ClearMoves DEF Clear, NativeStop, bridge_vars
  <2>2. Live(s) /\ sup[s].pc \notin {"lost", "lost_wait"}
    BY <1>2 DEF Clear, Live, Idle, AtRest
  <2> QED  BY <1>2, <1>k, <2>1, <2>2, ClearMoves
<1>3. CASE Profile(s)
  <2>1. UNCHANGED <<status, CLIENT>> /\ sup[s].pc \notin {"lost", "lost_wait"} /\ Live(s)
    BY <1>3 DEF Profile, Live, Idle, AtRest, bridge_vars, SetProfile
  <2> QED  BY <1>3, <1>k, <2>1, ProfileMoves
<1>4. CASE Tun(s)
  <2>1. UNCHANGED <<status, CLIENT>> /\ sup[s].pc \notin {"lost", "lost_wait"} /\ Live(s)
    BY <1>4 DEF Tun, Live, Idle, AtRest, bridge_vars
  <2> QED  BY <1>4, <1>k, <2>1, TunMoves
<1>5. CASE NativeStart(s)
  <2>1. UNCHANGED <<status, CLIENT>> /\ sup[s].pc \notin {"lost", "lost_wait"} /\ Live(s)
    BY <1>5 DEF NativeStart, Live, Idle, AtRest, bridge_vars
  <2> QED  BY <1>5, <1>k, <2>1, NativeStartMoves
<1>6. CASE Established(s)
  <2>1. UNCHANGED <<status, CLIENT>> /\ sup[s].pc \notin {"lost", "lost_wait"} /\ Live(s)
    BY <1>6 DEF Established, Live, Idle, AtRest, bridge_vars
  <2> QED  BY <1>6, <1>k, <2>1, EstablishedMoves
<1>7. CASE StoreTraffic(s)
  <2>1. UNCHANGED <<status, CLIENT>> /\ sup[s].pc \notin {"lost", "lost_wait"} /\ Live(s)
    BY <1>7 DEF StoreTraffic, Live, Idle, AtRest, bridge_vars
  <2> QED  BY <1>7, <1>k, <2>1, StoreTrafficMoves
<1>8. CASE StoreClient(s)
  <2>1. status' = status /\ sup[s].pc = "store"
    BY <1>8 DEF StoreClient
  <2>2. Live(s)
    BY <2>1, BusyAlone DEF Busy, Pcs, Rests
  <2>3. \A t \in Sups : Live(t)' /\ sup'[t].pc \notin {"lost", "lost_wait"} =>
               Live(t) /\ sup[t].pc \notin {"lost", "lost_wait"}
    BY <1>8, <1>e, <2>1, <2>2, StoreClientMoves
  <2> QED  BY <2>1, <2>2, <2>3, KeptShown
<1>9. CASE ConnectFails(s)
  <2>1. UNCHANGED <<status, CLIENT>> /\ sup[s].pc \in {"tun", "start", "handshake"}
    BY <1>9 DEF ConnectFails
  <2>2. Live(s)
    BY <2>1, BusyAlone DEF Busy, Pcs, Rests
  <2> QED  BY <1>9, <1>k, <2>1, <2>2, ConnectFailsMoves
<1>10. CASE NowConnected(s)
  BY <1>10 DEF NowConnected, Shown
<1>11. CASE Foreground(s)
  <2>1. UNCHANGED <<status, CLIENT>> /\ sup[s].pc \notin {"lost", "lost_wait"} /\ Live(s)
    BY <1>11 DEF Foreground, Live, Idle, AtRest, bridge_vars
  <2> QED  BY <1>11, <1>k, <2>1, ForegroundMoves
<1>12. CASE Monitor(s)
  <2>1. UNCHANGED <<status, CLIENT>> /\ sup[s].pc \notin {"lost", "lost_wait"} /\ Live(s)
    BY <1>12 DEF Monitor, Live, Idle, AtRest, bridge_vars
  <2> QED  BY <1>12, <1>k, <2>1, MonitorMoves
<1>13. CASE Lost(s)
  <2>1. status' = status /\ CLIENT' \in {CLIENT, 0}
    BY <1>13, LostMoves DEF Lost, NativeStop, bridge_vars
  <2>2. Live(s)
    BY <1>13 DEF Lost, Live, Idle, AtRest
  <2> QED  BY <1>13, <1>k, <2>1, <2>2, LostMoves
<1>14. CASE Reconnect(s)
  BY <1>14 DEF Reconnect, Shown
<1> QED
  BY <1>1, <1>2, <1>3, <1>4, <1>5, <1>6, <1>7, <1>8, <1>9, <1>10, <1>11, <1>12, <1>13, <1>14 DEF Supervise

LEMMA StoppingShown ==
    ASSUME TypeOK, Jobs, Bridge, Shown, NEW c \in Stops,
           StopJoin(c) \/ StopNative(c) \/ StopMain(c) \/ StopLost(c)
    PROVE  Shown'
<1>1. CASE StopJoin(c)
  <2>1. stop[c].job \in Sups \cup {0} /\ UNCHANGED <<status, CLIENT>>
    BY <1>1, TypeParts DEF StopRec, StopJoin, bridge_vars
  <2>2. \A t \in Sups : sup'[t].pc = sup[t].pc /\ (Live(t)' => Live(t))
    BY <1>1, <2>1, StopJoinView, CancelEffect DEF Live, Idle, AtRest
  <2> QED  BY <2>1, <2>2, KeptShown
<1>2. CASE StopNative(c)
  <2>1. UNCHANGED <<status, sup>> /\ CLIENT' = 0
    BY <1>2 DEF StopNative, NativeStop
  <2> QED  BY <2>1, KeptShown DEF Live, Idle, AtRest
<1>3. CASE StopMain(c)
  <2>1. stop[c].pc = "wait" /\ UNCHANGED <<sup, CLIENT>>
    BY <1>3 DEF StopMain, bridge_vars
  <2>2. CLIENT = 0 /\ \A t \in Sups : ~Live(t)
    BY <2>1 DEF Bridge, Silent, Stopping, Quiet, Jobs, StopsHold, Over, Joining
  <2> QED  BY <2>1, <2>2 DEF Shown, Live, Idle, AtRest
<1>4. CASE StopLost(c)
  <2>1. UNCHANGED <<status, sup, CLIENT>>
    BY <1>4 DEF StopLost, bridge_vars
  <2> QED  BY <2>1, KeptShown DEF Live, Idle, AtRest
<1> QED  BY <1>1, <1>2, <1>3, <1>4

LEMMA RequestsShown ==
    ASSUME TypeOK, Jobs, Bridge, Tidy, Shown, orderly',
           \/ \E s \in Sups : StartTunnel(s)
           \/ StartRefused
           \/ \E k \in 1..MaxUserStops : StopTunnel(k)
           \/ \E p \in Profiles : SelectProfile(p) \/ RunSetProfile(p)
           \/ \E why \in {"revoke", "destroy"} : Teardown(why)
           \/ TeardownEnds
           \/ \E n \in Sessions : TunnelStops(n) \/ TasksEnd(n)
    PROVE  Shown'
<1>0. tunnelJob \in Sups \cup {0}
  BY TypeParts DEF Scalars
<1>1. ASSUME NEW s \in Sups, StartTunnel(s) PROVE Shown'
  BY <1>1 DEF StartTunnel, Shown
<1>2. CASE StartRefused
  <2>1. main = "free" /\ StopsIdle /\ (\A s \in Sups : Idle(s)) /\ UNCHANGED <<sup, CLIENT>>
    BY <1>2 DEF StartRefused, bridge_vars
  <2>2. tunnelJob = 0
    BY <1>0, <2>1 DEF Jobs, JobLives
  <2>3. CLIENT = 0
    BY <2>1, <2>2 DEF Tidy, Clean, Quiet
  <2> QED  BY <2>1, <2>3 DEF Shown, Live, Idle
<1>3. CASE \/ \E k \in 1..MaxUserStops : StopTunnel(k)
           \/ \E p \in Profiles : SelectProfile(p) \/ RunSetProfile(p)
           \/ \E n \in Sessions : TunnelStops(n) \/ TasksEnd(n)
  <2>1. UNCHANGED <<status, sup, CLIENT>>
    BY <1>3 DEF StopTunnel, SelectProfile, RunSetProfile, SetProfile, TunnelStops, TasksEnd, bridge_vars
  <2> QED  BY <2>1, KeptShown DEF Live, Idle, AtRest
<1>4. ASSUME NEW why \in {"revoke", "destroy"}, Teardown(why) PROVE Shown'
  <2>1. status' = status /\ CLIENT' = 0 /\ sup' = Cancel(tunnelJob)
    BY <1>4 DEF Teardown, NativeStop
  <2>2. \A t \in Sups : sup'[t].pc = sup[t].pc /\ (Live(t)' => Live(t))
    BY <1>0, <2>1, CancelEffect DEF Live, Idle, AtRest
  <2> QED  BY <2>1, <2>2, KeptShown
<1>5. CASE TeardownEnds
  <2>1. main # "free" /\ CLIENT' = 0
    BY <1>5 DEF TeardownEnds, Bridge, Silent, Stopping, Quiet, bridge_vars
  <2>2. ASSUME NEW t \in Sups, Live(t)' PROVE sup'[t].pc = "lost"
    <3>1. sup'[t].pc = sup[t].pc /\ Live(t)
      BY <1>5, <2>2, TeardownEndsView DEF Live, Idle, AtRest
    <3>2. main = "destroy" /\ (AtRest(t) \/ sup[t].pc = "lost")
      BY <2>1, <3>1 DEF Jobs, MainHolds
    <3>3. ~Idle(t) => sup'[t].cancelled
      BY <1>5, <2>1, <3>2, TeardownEndsView DEF Jobs, MainHolds, Foreign, Mine
    <3> QED  BY <2>2, <3>1, <3>2, <3>3 DEF Live, Idle, AtRest
  <2> QED  BY <2>1, <2>2 DEF Shown
<1> QED  BY <1>1, <1>2, <1>3, <1>4, <1>5

-----------------------------------------------------------------------------
(***************************************************************************)
(* Chosen is kept.                                                         *)
(***************************************************************************)

\* The sessions that run afterwards are as they were.
Unstirred == \A n \in Sessions : sess'[n].st \in Running => sess'[n] = sess[n]

LEMMA EndingUnstirred ==
    ASSUME TypeOK, NEW n, NEW st \in {"stopping", "parked", "down", "aborted", "gone"}, sess' = Ending(n, st)
    PROVE  Unstirred
BY EndingEffect DEF Unstirred

LEMMA NativeStopUnstirred ==
    ASSUME TypeOK, NativeStop
    PROVE  Unstirred /\ ~Up'
BY EndingUnstirred DEF NativeStop, Unstirred, Up

LEMMA InStartSession ==
    ASSUME TypeOK, Bridge, NEW s \in Sups, InStart(s)
    PROVE  sup[s].sess \in Sessions
BY TypeParts DEF SupRec, Bridge, Handles

\* A step that chooses nothing, connects nobody and stores no client.
LEMMA KeptChosen ==
    ASSUME TypeOK, Bridge, Chosen, UNCHANGED <<store, pending, override, missed>>, Unstirred,
           \A t \in Sups : sup'[t].pc \in {"tun", "start"} => sup[t].pc \in {"tun", "start"},
           \A t \in Sups : InStart(t)' => InStart(t) /\ sup'[t].sess = sup[t].sess,
           Up' => CLIENT' = CLIENT
    PROVE  Chosen'
<1> SUFFICES ASSUME Picked PROVE Picked'
  BY DEF Chosen
<1>c. CallsUnderWay' <=> CallsUnderWay
  BY DEF CallsUnderWay
<1>1. CLIENT \in Sessions \cup {0}
  BY TypeParts DEF Scalars
<1>2. Up' => Up /\ sess'[CLIENT'] = sess[CLIENT]
  BY <1>1 DEF Up, Unstirred, Running
<1>3. ASSUME NEW t \in Sups, InStart(t)', sess'[sup'[t].sess].st \in Running
      PROVE  /\ InStart(t) /\ sess[sup[t].sess].st \in Running
             /\ sess'[sup'[t].sess].profile = sess[sup[t].sess].profile
  BY <1>3, InStartSession DEF Unstirred
<1>4. \A t \in Sups : InStart(t)' /\ sess'[sup'[t].sess].st \in Running =>
          CallsUnderWay' \/ sess'[sup'[t].sess].profile = store'
  BY <1>c, <1>3 DEF Picked
<1>5. Up' => CallsUnderWay' \/ sess'[CLIENT'].profile = store'
  BY <1>c, <1>2 DEF Picked
<1>6. \A t \in Sups : sup'[t].pc \in {"tun", "start"} => override' = store' \/ CallsUnderWay'
  BY <1>c DEF Picked
<1>7. \A p \in Profiles : pending'[p] > 0 => p = store'
  BY DEF Picked
<1> QED  BY <1>4, <1>5, <1>6, <1>7 DEF Picked

LEMMA SuperviseChosen ==
    ASSUME TypeOK, Jobs, Bridge, Chosen, NEW s \in Sups, Supervise(s)
    PROVE  Chosen'
<1>t. /\ CLIENT \in Sessions \cup {0} /\ sess \in [Sessions -> SessRec] /\ sup \in [Sups -> SupRec]
  BY TypeParts DEF Scalars
<1>k. ASSUME UNCHANGED <<store, pending, override, missed>>, Unstirred, Up' => CLIENT' = CLIENT,
             \/ Ends(s)
             \/ \E pc, ever, fd, n :
                   /\ Moves(s, pc, ever, fd, n)
                   /\ pc \in {"tun", "start"} => sup[s].pc \in {"tun", "start"}
                   /\ pc \in {"handshake", "traffic", "store"} => InStart(s) /\ n = sup[s].sess
      PROVE  Chosen'
  <2>1. \A t \in Sups : t # s => sup'[t] = sup[t]
    BY <1>k DEF Ends, Moves
  <2>2. sup'[s].pc \in {"tun", "start"} => sup[s].pc \in {"tun", "start"}
    BY <1>k DEF Ends, Moves
  <2>3. InStart(s)' => InStart(s) /\ sup'[s].sess = sup[s].sess
    BY <1>k DEF Ends, Moves, InStart
  <2>4. \A t \in Sups : sup'[t].pc \in {"tun", "start"} => sup[t].pc \in {"tun", "start"}
    BY <2>1, <2>2
  <2>5. \A t \in Sups : InStart(t)' => InStart(t) /\ sup'[t].sess = sup[t].sess
    BY <2>1, <2>3 DEF InStart
  <2> QED  BY <1>k, <2>4, <2>5, KeptChosen
<1>1. CASE Cancelled(s)
  <2>1. UNCHANGED <<store, pending, override, missed, CLIENT>> /\ Unstirred
    BY <1>1 DEF Cancelled, Unstirred, bridge_vars
  <2> QED  BY <1>1, <1>k, <2>1, CancelledMoves
<1>2. CASE Clear(s)
  <2>1. UNCHANGED <<store, pending, override, missed>>
    BY <1>2, ClearMoves DEF Clear, NativeStop, bridge_vars
  <2>2. Unstirred /\ (Up' => CLIENT' = CLIENT)
    BY <1>2, ClearMoves, NativeStopUnstirred DEF Unstirred, bridge_vars
  <2> QED  BY <1>2, <1>k, <2>1, <2>2, ClearMoves
<1>3. CASE Profile(s)
  <2>1. /\ sup[s].pc = "cleared" /\ SetProfile(store) /\ UNCHANGED <<store, pending>>
        /\ missed' = (missed /\ CallsUnderWay)
        /\ Moves(s, "tun", sup[s].ever, sup[s].fd, 0)
    BY <1>3, ProfileMoves DEF Profile
  <2>2. override' = store' /\ CLIENT' = CLIENT
    BY <2>1, SetProfileKept
  <2>3. \A t \in Sups : ~InStart(t)'
    <3>1. Live(s) /\ ~InStart(s)
      BY <2>1, BusyAlone DEF Busy, Pcs, Rests, InStart
    <3> QED  BY <2>1, <3>1, AloneInStart DEF Moves, InStart
  <2>4. Up' => sess'[CLIENT'].profile = store'
    <3>1. Up' => Up
      BY <1>t, <2>1, SetProfileKept DEF Up
    <3>2. Up => TRAFFIC
      BY DEF Bridge, Handles, Up
    <3> QED  BY <2>1, <2>2, <3>1, <3>2, SetProfileKept
  <2>5. ~missed' => \A p \in Profiles : pending'[p] > 0 => p = store'
    BY <2>1 DEF Chosen, Picked, CallsUnderWay
  <2> QED  BY <2>2, <2>3, <2>4, <2>5 DEF Chosen, Picked
<1>4. CASE Tun(s)
  <2>1. UNCHANGED <<store, pending, override, missed, CLIENT>> /\ Unstirred
    BY <1>4 DEF Tun, Unstirred, bridge_vars
  <2> QED  BY <1>4, <1>k, <2>1, TunMoves DEF Tun, InStart
<1>5. CASE NativeStart(s)
  <2> DEFINE n == started + 1
  <2>1. /\ sup[s].pc = "start" /\ CLIENT = 0 /\ n \in Sessions
        /\ sess' = [sess EXCEPT ![n] = [st |-> "handshake", fd |-> sup[s].fd, profile |-> override]]
        /\ Moves(s, "handshake", sup[s].ever, 0, n)
        /\ UNCHANGED <<CLIENT, override, store, pending, missed>>
    BY <1>5, NativeStartMoves DEF NativeStart
  <2> HIDE DEF n
  <2>2. \A t \in Sups : t # s => sup'[t] = sup[t] /\ ~InStart(t)'
    <3>1. Live(s)
      BY <2>1, BusyAlone DEF Busy, Pcs, Rests
    <3> QED  BY <2>1, <3>1, AloneInStart DEF Moves, InStart
  <2>3. sup'[s].pc = "handshake" /\ sup'[s].sess = n /\ sess'[n].profile = override
    BY <1>t, <2>1 DEF Moves
  <2>4. ~missed => override = store \/ CallsUnderWay
    BY <2>1 DEF Chosen, Picked
  <2>5. ~Up'
    BY <2>1 DEF Up
  <2>6. ~missed => \A t \in Sups : InStart(t)' =>
           CallsUnderWay' \/ sess'[sup'[t].sess].profile = store'
    BY <2>1, <2>2, <2>3, <2>4 DEF CallsUnderWay
  <2>7. ~missed => \A t \in Sups : sup'[t].pc \in {"tun", "start"} => override' = store' \/ CallsUnderWay'
    BY <2>1, <2>2, <2>3 DEF Chosen, Picked, CallsUnderWay
  <2>8. ~missed => \A p \in Profiles : pending'[p] > 0 => p = store'
    BY <2>1 DEF Chosen, Picked
  <2> QED  BY <2>1, <2>5, <2>6, <2>7, <2>8 DEF Chosen, Picked
<1>6. CASE Established(s)
  <2> DEFINE n == sup[s].sess
  <2>1. /\ sup[s].pc = "handshake" /\ sess' = [sess EXCEPT ![n].st = "up"]
        /\ Moves(s, "traffic", sup[s].ever, sup[s].fd, n)
        /\ UNCHANGED <<CLIENT, override, store, pending, missed>>
    BY <1>6, EstablishedMoves DEF Established
  <2>2. n \in Sessions /\ sess[n].st = "handshake" /\ CLIENT = 0 /\ InStart(s)
    BY <2>1, InStartSession DEF InStart, Bridge, Handles
  <2>3. sess'[n].profile = sess[n].profile
    BY <1>t, <2>1, <2>2 DEF SessRec
  <2>4. missed \/ CallsUnderWay \/ sess[n].profile = store
    BY <2>2 DEF Chosen, Picked, Running
  <2> HIDE DEF n
  <2>5. \A t \in Sups : t # s => sup'[t] = sup[t] /\ ~InStart(t)'
    <3>1. Live(s)
      BY <2>1, BusyAlone DEF Busy, Pcs, Rests
    <3> QED  BY <2>1, <3>1, AloneInStart DEF Moves, InStart
  <2>6. sup'[s].pc = "traffic" /\ sup'[s].sess = n /\ ~Up'
    BY <2>1, <2>2 DEF Moves, Up
  <2>7. ~missed => \A t \in Sups : InStart(t)' =>
           CallsUnderWay' \/ sess'[sup'[t].sess].profile = store'
    BY <2>1, <2>3, <2>4, <2>5, <2>6 DEF CallsUnderWay
  <2>8. ~missed => \A t \in Sups : sup'[t].pc \in {"tun", "start"} => override' = store' \/ CallsUnderWay'
    BY <2>1, <2>5, <2>6 DEF Chosen, Picked, CallsUnderWay
  <2>9. ~missed => \A p \in Profiles : pending'[p] > 0 => p = store'
    BY <2>1 DEF Chosen, Picked
  <2> QED  BY <2>1, <2>6, <2>7, <2>8, <2>9 DEF Chosen, Picked
<1>7. CASE StoreTraffic(s)
  <2>1. UNCHANGED <<store, pending, override, missed, CLIENT>> /\ Unstirred
    BY <1>7 DEF StoreTraffic, Unstirred, bridge_vars
  <2> QED  BY <1>7, <1>k, <2>1, StoreTrafficMoves DEF StoreTraffic, InStart
<1>8. CASE StoreClient(s)
  <2>1. /\ sup[s].pc = "store" /\ CLIENT' = sup[s].sess
        /\ Moves(s, "connected", sup[s].ever, sup[s].fd, 0)
        /\ UNCHANGED <<sess, override, store, pending, missed>>
    BY <1>8, StoreClientMoves DEF StoreClient
  <2>2. \A t \in Sups : ~InStart(t)'
    <3>1. Live(s)
      BY <2>1, BusyAlone DEF Busy, Pcs, Rests
    <3> QED  BY <2>1, <3>1, AloneInStart DEF Moves, InStart
  <2>3. Up' => missed \/ CallsUnderWay \/ sess[sup[s].sess].profile = store
    BY <2>1 DEF Up, Chosen, Picked, InStart, Running
  <2>4. \A t \in Sups : sup'[t].pc \in {"tun", "start"} => sup[t].pc \in {"tun", "start"}
    BY <2>1 DEF Moves
  <2>5. CallsUnderWay' <=> CallsUnderWay
    BY <2>1 DEF CallsUnderWay
  <2>6. Up' => missed \/ CallsUnderWay' \/ sess'[CLIENT'].profile = store'
    BY <2>1, <2>3, <2>5
  <2> QED  BY <2>1, <2>2, <2>4, <2>5, <2>6 DEF Chosen, Picked
<1>9. CASE ConnectFails(s)
  <2>1. UNCHANGED <<store, pending, override, missed, CLIENT>>
    BY <1>9 DEF ConnectFails
  <2>2. Unstirred
    BY <1>9, EndingUnstirred DEF ConnectFails, Unstirred
  <2>3. CASE Moves(s, "lost", sup[s].ever, 0, 0)
    BY <1>k, <2>1, <2>2, <2>3
  <2>4. CASE Ends(s)
    BY <1>k, <2>1, <2>2, <2>4
  <2> QED  BY <1>9, <2>3, <2>4, ConnectFailsMoves
<1>10. CASE NowConnected(s)
  <2>1. UNCHANGED <<store, pending, override, missed, CLIENT>> /\ Unstirred
    BY <1>10 DEF NowConnected, Unstirred, bridge_vars
  <2> DEFINE yes == TRUE
  <2>2. Moves(s, "foreground", yes, sup[s].fd, sup[s].sess)
    BY <1>10, NowConnectedMoves
  <2> HIDE DEF yes
  <2> QED  BY <1>k, <2>1, <2>2
<1>11. CASE Foreground(s)
  <2>1. UNCHANGED <<store, pending, override, missed, CLIENT>> /\ Unstirred
    BY <1>11 DEF Foreground, Unstirred, bridge_vars
  <2> QED  BY <1>11, <1>k, <2>1, ForegroundMoves
<1>12. CASE Monitor(s)
  <2>1. UNCHANGED <<store, pending, override, missed, CLIENT>> /\ Unstirred
    BY <1>12 DEF Monitor, Unstirred, bridge_vars
  <2> QED  BY <1>12, <1>k, <2>1, MonitorMoves
<1>13. CASE Lost(s)
  <2>1. UNCHANGED <<store, pending, override, missed>>
    BY <1>13, LostMoves DEF Lost, NativeStop, bridge_vars
  <2>2. Unstirred /\ (Up' => CLIENT' = CLIENT)
    BY <1>13, LostMoves, NativeStopUnstirred DEF Unstirred, bridge_vars
  <2> QED  BY <1>13, <1>k, <2>1, <2>2, LostMoves
<1>14. CASE Reconnect(s)
  <2>1. UNCHANGED <<store, pending, override, missed, CLIENT>> /\ Unstirred
    BY <1>14 DEF Reconnect, Unstirred, bridge_vars
  <2> QED  BY <1>14, <1>k, <2>1, ReconnectMoves
<1> QED
  BY <1>1, <1>2, <1>3, <1>4, <1>5, <1>6, <1>7, <1>8, <1>9, <1>10, <1>11, <1>12, <1>13, <1>14 DEF Supervise

LEMMA StoppingChosen ==
    ASSUME TypeOK, Bridge, Chosen, NEW c \in Stops,
           StopJoin(c) \/ StopNative(c) \/ StopMain(c) \/ StopLost(c)
    PROVE  Chosen'
<1>1. UNCHANGED <<store, pending, override, missed>>
  BY DEF StopJoin, StopNative, StopMain, StopLost, NativeStop, bridge_vars
<1>2. \A t \in Sups : sup'[t].pc = sup[t].pc /\ sup'[t].sess = sup[t].sess
  <2>1. stop[c].job \in Sups \cup {0}
    BY TypeParts DEF StopRec
  <2> QED  BY <2>1, StopJoinView, StopNativeView, StopEndView, CancelEffect
<1>3. Unstirred /\ (Up' => CLIENT' = CLIENT)
  <2>1. CASE StopNative(c)
    BY <2>1, NativeStopUnstirred DEF StopNative
  <2>2. CASE StopJoin(c) \/ StopMain(c) \/ StopLost(c)
    BY <2>2 DEF StopJoin, StopMain, StopLost, Unstirred, bridge_vars
  <2> QED  BY <2>1, <2>2
<1> QED  BY <1>1, <1>2, <1>3, KeptChosen DEF InStart

LEMMA RequestsChosen ==
    ASSUME TypeOK, Jobs, Bridge, Shown, Chosen,
           \/ \E s \in Sups : StartTunnel(s)
           \/ StartRefused
           \/ \E k \in 1..MaxUserStops : StopTunnel(k)
           \/ \E p \in Profiles : SelectProfile(p) \/ RunSetProfile(p)
           \/ \E why \in {"revoke", "destroy"} : Teardown(why)
           \/ TeardownEnds
           \/ \E n \in Sessions : TunnelStops(n) \/ TasksEnd(n)
    PROVE  Chosen'
<1>t. /\ CLIENT \in Sessions \cup {0} /\ tunnelJob \in Sups \cup {0}
  BY TypeParts DEF Scalars
<1>b. \A t \in Sups : InStart(t) \/ sup[t].pc \in {"tun", "start"} =>
         Live(t) /\ ~AtRest(t) /\ sup[t].pc \notin {"lost", "lost_wait"}
  BY DEF InStart, Live, Idle, AtRest
<1>1. ASSUME NEW s \in Sups, StartTunnel(s) PROVE Chosen'
  <2>1. UNCHANGED <<store, pending, override, missed, CLIENT>> /\ Unstirred
    BY <1>1 DEF StartTunnel, Unstirred, bridge_vars
  <2>2. \A t \in Sups : sup'[t].pc \in {"tun", "start"} => sup[t].pc \in {"tun", "start"}
    BY <1>1, StartTunnelView
  <2>3. \A t \in Sups : InStart(t)' => InStart(t) /\ sup'[t].sess = sup[t].sess
    BY <1>1, StartTunnelView DEF InStart
  <2> QED  BY <2>1, <2>2, <2>3, KeptChosen
<1>2. CASE StartRefused \/ \E k \in 1..MaxUserStops : StopTunnel(k)
  <2>1. UNCHANGED <<store, pending, override, missed, CLIENT, sup>> /\ Unstirred
    BY <1>2 DEF StartRefused, StopTunnel, Unstirred, bridge_vars
  <2> QED  BY <2>1, KeptChosen DEF InStart
<1>3. ASSUME NEW p \in Profiles, SelectProfile(p) PROVE Chosen'
  <2>1. store' = p /\ UNCHANGED <<override, CLIENT, sup, sess>>
    BY <1>3 DEF SelectProfile, bridge_vars
  <2>2. SUFFICES ASSUME ~CallsUnderWay PROVE Chosen'
    BY <1>3 DEF SelectProfile, Chosen
  <2>3. pending \in [Profiles -> Nat] /\ \A q \in Profiles : pending[q] = 0
    BY <2>2, TypeParts DEF Scalars, CallsUnderWay
  <2>4. CASE Active
    <3>1. pending' = [pending EXCEPT ![p] = @ + 1]
      BY <1>3, <2>4 DEF SelectProfile
    <3>2. pending'[p] = 1 /\ \A q \in Profiles : q # p => pending'[q] = 0
      BY <2>3, <3>1
    <3>3. CallsUnderWay' /\ \A q \in Profiles : pending'[q] > 0 => q = store'
      BY <2>1, <3>2 DEF CallsUnderWay
    <3> QED  BY <3>3 DEF Chosen, Picked
  <2>5. CASE ~Active
    <3>1. pending' = pending /\ CLIENT = 0
      BY <1>3, <2>5 DEF SelectProfile, Shown, Active
    <3>2. \A t \in Sups : ~InStart(t) /\ sup[t].pc \notin {"tun", "start"}
      BY <1>b, <2>5 DEF Shown, Active
    <3>3. \A t \in Sups : ~InStart(t)' /\ sup'[t].pc \notin {"tun", "start"}
      BY <2>1, <3>2 DEF InStart
    <3>4. ~Up' /\ \A q \in Profiles : pending'[q] > 0 => q = store'
      BY <2>1, <2>3, <3>1 DEF Up
    <3> QED  BY <3>3, <3>4 DEF Chosen, Picked
  <2> QED  BY <2>4, <2>5
<1>4. ASSUME NEW p \in Profiles, RunSetProfile(p) PROVE Chosen'
  <2>1. /\ pending[p] > 0 /\ pending' = [pending EXCEPT ![p] = @ - 1]
        /\ SetProfile(p) /\ UNCHANGED <<sup, store>>
        /\ missed' = (missed \/ \E s \in Sups : sup[s].pc \in {"handshake", "traffic", "store"})
    BY <1>4 DEF RunSetProfile
  <2>2. SUFFICES ASSUME ~missed' PROVE Picked'
    BY DEF Chosen
  <2>3. Picked /\ p = store
    BY <2>1, <2>2 DEF Chosen, Picked
  <2>4. override' = store' /\ CLIENT' = CLIENT
    BY <2>1, <2>3, SetProfileKept
  <2>5. Up' => sess'[CLIENT'].profile = store'
    <3>1. Up' => Up
      BY <1>t, <2>1, SetProfileKept DEF Up
    <3>2. Up => TRAFFIC
      BY DEF Bridge, Handles, Up
    <3> QED  BY <2>1, <2>3, <2>4, <3>1, <3>2, SetProfileKept
  <2>6. \A t \in Sups : ~InStart(t)'
    BY <2>1, <2>2 DEF InStart
  <2>7. \A q \in Profiles : pending'[q] > 0 => q = store'
    BY <2>1, <2>3, TypeParts DEF Picked, Scalars
  <2> QED  BY <2>4, <2>5, <2>6, <2>7 DEF Picked
<1>5. ASSUME NEW why \in {"revoke", "destroy"}, Teardown(why) PROVE Chosen'
  <2>1. NativeStop /\ sup' = Cancel(tunnelJob) /\ UNCHANGED <<store, pending, override, missed>>
    BY <1>5 DEF Teardown, NativeStop
  <2>2. \A t \in Sups : sup'[t].pc = sup[t].pc /\ sup'[t].sess = sup[t].sess
    BY <1>t, <2>1, CancelEffect
  <2> QED  BY <2>1, <2>2, NativeStopUnstirred, KeptChosen DEF InStart
<1>6. CASE TeardownEnds
  <2>1. main # "free" /\ UNCHANGED <<store, override, missed, CLIENT, sess>>
        /\ pending' \in {pending, NoCalls}
    BY <1>6 DEF TeardownEnds, bridge_vars
  <2>2. CLIENT = 0
    BY <2>1 DEF Bridge, Silent, Stopping, Quiet
  <2>3. \A t \in Sups : ~InStart(t) /\ sup[t].pc \notin {"tun", "start"}
    BY <1>b, <2>1 DEF Jobs, MainHolds, InStart
  <2>4. \A t \in Sups : sup'[t].pc = sup[t].pc
    BY <1>6, TeardownEndsView
  <2>5. Picked => \A q \in Profiles : pending'[q] > 0 => q = store'
    BY <2>1 DEF NoCalls, Picked
  <2> QED  BY <2>1, <2>2, <2>3, <2>4, <2>5 DEF Chosen, Picked, InStart, Up
<1>7. ASSUME NEW n \in Sessions, TunnelStops(n) \/ TasksEnd(n) PROVE Chosen'
  <2>1. /\ UNCHANGED <<store, pending, override, missed, CLIENT, sup>>
        /\ \E st \in {"stopping", "parked", "down", "aborted", "gone"} : sess' = Ending(n, st)
    BY <1>7 DEF TunnelStops, TasksEnd
  <2> QED  BY <2>1, EndingUnstirred, KeptChosen DEF InStart
<1> QED  BY <1>1, <1>2, <1>3, <1>4, <1>5, <1>6, <1>7

-----------------------------------------------------------------------------
LEMMA NextOrder == IInv /\ [Next]_vars => Order'
<1> SUFFICES ASSUME IInv, [Next]_vars, orderly'
             PROVE  Jobs' /\ Bridge' /\ Device' /\ Tidy' /\ Shown' /\ Chosen'
  BY DEF Order
<1>0. orderly /\ TypeOK
  BY StaysDisorderly DEF IInv, TInv
<1>i. Jobs /\ Bridge /\ Device /\ Tidy /\ Shown /\ Chosen
  BY <1>0 DEF IInv, Order
<1>s. Silent
  BY <1>i DEF Bridge
<1>1. CASE UNCHANGED vars
  <2>1. UNCHANGED <<alive, inst, tunnelJob, userStopped, main, sup, stop>>
    BY <1>1 DEF vars
  <2>2. /\ UNCHANGED <<pfd, status, store, pending, fds, open, orderly, missed>>
        /\ UNCHANGED <<CLIENT, TRAFFIC, override, sess>>
    BY <1>1 DEF vars, bridge_vars
  <2>3. Jobs'
    BY <1>i, <2>1, SameJobs
  <2>4. Bridge' /\ Device'
    BY <1>i, <2>1, <2>2 DEF Bridge, Handles, Silent, Stopping, Quiet, Fds, InStart, Device
  <2>5. Tidy' /\ Shown'
    BY <1>i, <2>1, <2>2 DEF Tidy, Clean, Quiet, StopsIdle, Shown, Live, Idle, AtRest
  <2>6. Chosen'
    BY <1>i, <2>1, <2>2 DEF Chosen, Picked, CallsUnderWay, InStart, Up
  <2> QED  BY <2>3, <2>4, <2>5, <2>6
<1>2. ASSUME NEW s \in Sups, Supervise(s)
      PROVE  Jobs' /\ Bridge' /\ Device' /\ Tidy' /\ Shown' /\ Chosen'
  BY <1>0, <1>i, <1>s, <1>2, SuperviseJobs, SuperviseBridge, SuperviseDevice, SuperviseTidy,
     SuperviseShown, SuperviseChosen
<1>3. ASSUME NEW c \in Stops, StopJoin(c) \/ StopNative(c) \/ StopMain(c) \/ StopLost(c)
      PROVE  Jobs' /\ Bridge' /\ Device' /\ Tidy' /\ Shown' /\ Chosen'
  BY <1>0, <1>i, <1>3, StoppingJobs, StoppingBridge, StoppingDevice, StoppingTidy, StoppingShown,
     StoppingChosen
<1>4. ASSUME \/ \E s \in Sups : StartTunnel(s)
             \/ StartRefused
             \/ \E k \in 1..MaxUserStops : StopTunnel(k)
             \/ \E p \in Profiles : SelectProfile(p) \/ RunSetProfile(p)
             \/ \E why \in {"revoke", "destroy"} : Teardown(why)
             \/ TeardownEnds
             \/ \E n \in Sessions : TunnelStops(n) \/ TasksEnd(n)
      PROVE  Jobs' /\ Bridge' /\ Device' /\ Tidy' /\ Shown' /\ Chosen'
  <2>1. Device' /\ Tidy' /\ Shown' /\ Chosen'
    BY <1>0, <1>i, <1>4, RequestsDevice, RequestsTidy, RequestsShown, RequestsChosen
  <2>2. Bridge'
    BY <1>0, <1>i, <1>4, StartTunnelBridge, TeardownBridge, TeardownEndsBridge, OthersBridge
  <2>3. CASE \/ StartRefused
             \/ \E p \in Profiles : SelectProfile(p) \/ RunSetProfile(p)
             \/ \E n \in Sessions : TunnelStops(n) \/ TasksEnd(n)
    <3>1. UNCHANGED <<alive, inst, tunnelJob, userStopped, main, sup, stop>>
      BY <2>3 DEF StartRefused, SelectProfile, RunSetProfile, TunnelStops, TasksEnd
    <3> QED  BY <1>i, <2>1, <2>2, <3>1, SameJobs
  <2> QED
    BY <1>0, <1>i, <1>4, <2>1, <2>2, <2>3, StartTunnelJobs, StopTunnelJobs, TeardownJobs, TeardownEndsJobs
<1>5. CASE Next
  BY <1>2, <1>3, <1>4, <1>5 DEF Next
<1> QED  BY <1>1, <1>5

LEMMA IInvInvariance == Spec => []IInv
<1>1. Init => IInv
  BY InitTInv, InitOrder DEF IInv
<1>2. IInv /\ [Next]_vars => IInv'
  BY NextTInv, NextOrder DEF IInv
<1> QED  BY <1>1, <1>2, PTL DEF Spec

(***************************************************************************)
(* As long as requests are orderly the TUN is not closed under a native    *)
(* tunnel that connects or runs: stopTunnel joins the supervisor before it *)
(* stops the native side, and closes the TUN after.                        *)
(***************************************************************************)
THEOREM TunOutlivesTunnel == Spec => []FdOutlivesTunnel
<1>1. IInv => FdOutlivesTunnel
  BY DEF IInv, Order, Bridge, Fds, FdOutlivesTunnel
<1> QED  BY <1>1, IInvInvariance, PTL

(***************************************************************************)
(* Once every coroutine has ended and the main thread is free there is no  *)
(* client, no tunnel that connects or runs and no open TUN, and the window *)
(* says so, however stopTunnel and teardownSync interleave with the        *)
(* supervisors.  Tasks that were aborted, or parked by a failed handshake, *)
(* may still be about to end: nothing is said of those.                    *)
(***************************************************************************)
THEOREM NoTunnelLeftBehind == Spec => []StoppedMeansStopped
<1>1. IInv => StoppedMeansStopped
  <2> SUFFICES ASSUME IInv, orderly, main = "free", StopsIdle, \A s \in Sups : Idle(s)
               PROVE  Clean
    BY DEF StoppedMeansStopped, Clean, Quiet
  <2>1. tunnelJob \in Sups \cup {0}
    BY TypeParts DEF IInv, TInv, Scalars
  <2>2. tunnelJob = 0
    BY <2>1 DEF IInv, Order, Jobs, JobLives
  <2> QED  BY <2>2 DEF IInv, Order, Tidy
<1> QED  BY <1>1, IInvInvariance, PTL

(***************************************************************************)
(* From its first connection on a supervisor that nobody stopped has the   *)
(* TUN open: through the loss of a tunnel, its backoff and the attempts    *)
(* that fail after it.                                                     *)
(***************************************************************************)
THEOREM TunIsHeld == Spec => []TunHeld
<1>1. IInv => TunHeld
  <2> SUFFICES ASSUME IInv, orderly, alive, inst \notin userStopped, NEW s \in Sups,
                      Mine(s), sup[s].ever, ~sup[s].cancelled, ~Idle(s)
               PROVE  pfd \in open
    BY DEF TunHeld
  <2>1. s = tunnelJob
    BY DEF IInv, Order, Jobs, Uncancelled, StopsHold, Over
  <2>2. pfd # 0
    BY <2>1, Bounds DEF IInv, Order, Device
  <2> QED  BY <2>2, TypeParts DEF IInv, TInv, Scalars
<1> QED  BY <1>1, IInvInvariance, PTL

(***************************************************************************)
(* The tunnel that is up runs the profile the user chose, on the first     *)
(* connection and on every later one, unless nativeSetProfile came in the  *)
(* course of the connection or two calls of it were under way at once and  *)
(* neither a later choice nor a later connection has mended it.            *)
(***************************************************************************)
THEOREM ChosenProfileWins == Spec => []ProfileWins
<1>1. IInv => ProfileWins
  BY DEF IInv, Order, Chosen, Picked, ProfileWins
<1> QED  BY <1>1, IInvInvariance, PTL
=============================================================================
