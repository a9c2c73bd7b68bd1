---------------------------- MODULE LivenessProofs ----------------------------
(***************************************************************************)
(* Proofs about PeerLiveness: a silent peer is noticed in time, an idle    *)
(* tunnel is not given up, and the server catches up with the profile of   *)
(* its client, for every choice of the intervals.                          *)
(***************************************************************************)
EXTENDS PeerLiveness, TLAPS

LEMMA ConstantTypes ==
    /\ KEEPALIVE_INTERVAL \in Nat /\ KEEPALIVE_INTERVAL > 0
    /\ PEER_DEAD_AFTER \in Nat /\ PEER_DEAD_AFTER > 0
    /\ PEER_PROFILE_MIN_INTERVAL \in Nat /\ PEER_PROFILE_MIN_INTERVAL > 0
    /\ ClientStart \in Profiles /\ ServerStart \in Profiles /\ ClientProfiles \subseteq Profiles
    /\ MaxLostInRow \in Nat /\ MaxSwitches \in Nat
BY LivenessAssumption

LEMMA OtherSide == \A s \in Sides : Other(s) \in Sides /\ Other(s) # s /\ Other(Other(s)) = s
BY DEF Sides, Other

-----------------------------------------------------------------------------
(***************************************************************************)
(* What arrives: the effect of Deliver and FollowIn.                       *)
(***************************************************************************)

\* Deliver counts a loss or starts again at 0, and silences only fall.
LEMMA DeliverEffect ==
    ASSUME TypeOK, NEW s \in Sides, NEW fs, NEW got, Deliver(s, fs, got)
    PROVE  /\ lost' \in [Sides -> 0 .. MaxLostInRow]
           /\ idle' \in [Sides -> 0 .. MaxIdle]
           /\ \A r \in Sides : idle'[r] <= idle[r]
BY ConstantTypes, OtherSide DEF TypeOK, Deliver, MaxIdle

\* The server ends up with the announced profile, or nothing about it changes.
LEMMA FollowEffect ==
    ASSUME TypeOK, NEW got, NEW p \in Profiles \ {"custom"},
           NEW prof \in [Sides -> Profiles], FollowIn(got, prof, p)
    PROVE  /\ profile' \in [Sides -> Profiles]
           /\ applied' \in (Profiles \ {"custom"}) \cup {"none"}
           /\ since_switch' \in 0 .. PEER_PROFILE_MIN_INTERVAL
           /\ profile'["client"] = prof["client"]
           /\ \/ profile'["server"] = p /\ applied' = p
              \/ profile' = prof /\ UNCHANGED <<applied, since_switch>>
BY ConstantTypes DEF TypeOK, FollowIn, Sides

\* Only an announced profile is among the frames of a tick.
LEMMA TickAnnounces ==
    ASSUME TypeOK, NEW s \in Sides, NEW got \in SUBSET KaFrames(s)
    PROVE  "profile" \in got => s = "client" /\ Announced(profile["client"])
BY DEF KaFrames

\* A tick's deliveries, also when nothing is announced.
LEMMA TickFollows ==
    ASSUME TypeOK, NEW s \in Sides, NEW got \in SUBSET KaFrames(s),
           FollowIn(got, profile, profile["client"])
    PROVE  /\ profile' \in [Sides -> Profiles]
           /\ applied' \in (Profiles \ {"custom"}) \cup {"none"}
           /\ since_switch' \in 0 .. PEER_PROFILE_MIN_INTERVAL
           /\ profile'["client"] = profile["client"]
           /\ \/ profile'["server"] = profile["client"] /\ applied' = profile["client"]
              \/ UNCHANGED <<profile, applied, since_switch>>
<1>1. profile["client"] \in Profiles
  BY DEF TypeOK, Sides
<1>2. CASE "profile" \in got
  BY <1>1, <1>2, TickAnnounces, FollowEffect DEF Announced, TypeOK
<1>3. CASE "profile" \notin got
  BY <1>3 DEF FollowIn, TypeOK
<1> QED  BY <1>2, <1>3

-----------------------------------------------------------------------------
(***************************************************************************)
(* The types, and the silence an end can have sat through by its next look *)
(* at the clock.  Without the second conjunct nothing bounds idle.         *)
(***************************************************************************)
Watchful ==
    \A s \in Sides : Alive(s) => idle[s] + ka_timer[s] <= PEER_DEAD_AFTER + KEEPALIVE_INTERVAL

\* The ids of delayed announcements are profiles that can be announced.
Repeatable == \A a \in again : Announced(a.id)

IInv == TypeOK /\ Watchful /\ Repeatable

LEMMA InitIInv == Init => IInv
<1> SUFFICES ASSUME Init PROVE IInv
  OBVIOUS
<1>1. TypeOK
  BY ConstantTypes DEF Init, TypeOK, Sides, MaxIdle
<1>2. Watchful
  BY ConstantTypes DEF Init, Watchful, Sides, Alive
<1> QED  BY <1>1, <1>2 DEF IInv, Init, Repeatable

LEMMA TickIInv ==
    ASSUME IInv, NEW s \in Sides, KaTick(s)
    PROVE  IInv'
<1>1. /\ Alive(s) /\ ka_timer[s] = 0
      /\ ka_timer' = [ka_timer EXCEPT ![s] = KEEPALIVE_INTERVAL]
      /\ UNCHANGED <<running, again, switches, stale>>
  BY DEF KaTick
<1>2. TypeOK /\ Watchful /\ Repeatable
  BY DEF IInv
<1>3. ka_timer' \in [Sides -> 0 .. KEEPALIVE_INTERVAL]
  BY <1>1, <1>2, ConstantTypes DEF TypeOK
<1>4. Repeatable'
  BY <1>1, <1>2 DEF Repeatable
<1>5. CASE idle[s] >= PEER_DEAD_AFTER
  <2>1. up' = [up EXCEPT ![s] = FALSE] /\ UNCHANGED <<profile, idle, lost, applied, since_switch>>
    BY <1>5 DEF KaTick
  <2>2. TypeOK'
    BY <1>1, <1>2, <1>3, <2>1 DEF TypeOK
  <2>3. Watchful'
    BY <1>1, <1>2, <2>1 DEF Watchful, TypeOK, Alive
  <2> QED  BY <1>4, <2>2, <2>3 DEF IInv
<1>6. CASE ~(idle[s] >= PEER_DEAD_AFTER)
  <2>1. UNCHANGED up
    BY <1>6 DEF KaTick
  <2>2. PICK got \in SUBSET KaFrames(s) :
             Deliver(s, KaFrames(s), got) /\ FollowIn(got, profile, profile["client"])
    BY <1>6 DEF KaTick
  <2>3. TypeOK'
    <3>1. /\ lost' \in [Sides -> 0 .. MaxLostInRow] /\ idle' \in [Sides -> 0 .. MaxIdle]
      BY <1>2, <2>2, DeliverEffect
    <3>2. /\ profile' \in [Sides -> Profiles]
          /\ applied' \in (Profiles \ {"custom"}) \cup {"none"}
          /\ since_switch' \in 0 .. PEER_PROFILE_MIN_INTERVAL
      BY <1>2, <2>2, TickFollows
    <3>3. MaxIdle' = MaxIdle
      BY DEF MaxIdle
    <3> QED  BY <1>1, <1>2, <1>3, <2>1, <3>1, <3>2, <3>3 DEF TypeOK
  <2>4. Watchful'
    <3> SUFFICES ASSUME NEW r \in Sides, Alive(r)'
                 PROVE  idle'[r] + ka_timer'[r] <= PEER_DEAD_AFTER + KEEPALIVE_INTERVAL
      BY DEF Watchful
    <3>1. Alive(r)
      BY <1>1, <2>1 DEF Alive
    <3>2. idle'[r] <= idle[r] /\ idle'[r] \in Nat /\ idle[r] \in Nat /\ ka_timer[r] \in Nat
      BY <1>2, <2>2, DeliverEffect, ConstantTypes DEF TypeOK, MaxIdle
    <3>3. CASE r = s
      BY <1>1, <1>2, <1>6, <3>2, <3>3, ConstantTypes DEF TypeOK
    <3>4. CASE r # s
      <4>1. ka_timer'[r] = ka_timer[r]
        BY <1>1, <1>2, <3>4 DEF TypeOK
      <4> QED  BY <1>2, <3>1, <3>2, <4>1, ConstantTypes DEF Watchful
    <3> QED  BY <3>3, <3>4
  <2> QED  BY <1>4, <2>3, <2>4 DEF IInv
<1> QED  BY <1>5, <1>6

\* A step that moves no timer, kills or revives no end and lets silences only fall.
LEMMA WatchfulKept ==
    ASSUME IInv, UNCHANGED ka_timer,
           \A s \in Sides : Alive(s)' => Alive(s),
           \A s \in Sides : idle'[s] \in Nat /\ idle'[s] <= idle[s]
    PROVE  Watchful'
<1> SUFFICES ASSUME NEW r \in Sides, Alive(r)'
             PROVE  idle'[r] + ka_timer'[r] <= PEER_DEAD_AFTER + KEEPALIVE_INTERVAL
  BY DEF Watchful
<1>1. idle[r] \in Nat /\ ka_timer[r] \in Nat /\ idle'[r] \in Nat
  BY ConstantTypes DEF IInv, TypeOK, MaxIdle
<1>2. idle[r] + ka_timer[r] <= PEER_DEAD_AFTER + KEEPALIVE_INTERVAL
  BY DEF IInv, Watchful
<1> QED  BY <1>1, <1>2, ConstantTypes

LEMMA SwitchIInv ==
    ASSUME IInv, NEW p \in ClientProfiles, ClientSwitch(p)
    PROVE  IInv'
<1> DEFINE prof == [profile EXCEPT !["client"] = p]
<1>1. /\ switches < MaxSwitches /\ switches' = switches + 1 /\ stale' = 0
      /\ UNCHANGED <<running, up, ka_timer>>
  BY DEF ClientSwitch
<1>2. TypeOK /\ Repeatable /\ p \in Profiles /\ prof \in [Sides -> Profiles]
  BY ConstantTypes DEF IInv, TypeOK, Sides
<1>3. switches' \in 0 .. MaxSwitches
  BY <1>1, <1>2, ConstantTypes DEF TypeOK
<1>4. MaxIdle' = MaxIdle /\ MaxIdle \in Nat
  BY ConstantTypes DEF MaxIdle
<1>5. CASE Announced(p)
  <2>1. again' = again \cup {[id |-> p, left |-> PEER_PROFILE_MIN_INTERVAL + 1]}
    BY <1>5 DEF ClientSwitch
  <2>2. PICK got \in SUBSET {"profile"} :
             Deliver("client", {"profile"}, got) /\ FollowIn(got, prof, p)
    BY <1>5 DEF ClientSwitch
  <2>3. /\ lost' \in [Sides -> 0 .. MaxLostInRow] /\ idle' \in [Sides -> 0 .. MaxIdle]
        /\ \A r \in Sides : idle'[r] <= idle[r]
    <3>1. "client" \in Sides
      BY DEF Sides
    <3> QED  BY <1>2, <2>2, <3>1, DeliverEffect
  <2>4. /\ profile' \in [Sides -> Profiles]
        /\ applied' \in (Profiles \ {"custom"}) \cup {"none"}
        /\ since_switch' \in 0 .. PEER_PROFILE_MIN_INTERVAL
    <3>1. p \in Profiles \ {"custom"}
      BY <1>2, <1>5 DEF Announced
    <3> HIDE DEF prof
    <3> QED  BY <1>2, <2>2, <3>1, FollowEffect
  <2>5. again' \subseteq [id : Profiles, left : 0 .. PEER_PROFILE_MIN_INTERVAL + 1]
    BY <1>2, <2>1, ConstantTypes DEF TypeOK
  <2>6. TypeOK'
    BY <1>1, <1>2, <1>3, <1>4, <2>3, <2>4, <2>5 DEF TypeOK
  <2>7. Repeatable'
    BY <1>2, <1>5, <2>1 DEF Repeatable
  <2>8. Watchful'
    <3>1. \A r \in Sides : idle'[r] \in Nat /\ idle'[r] <= idle[r]
      BY <1>4, <2>3
    <3>2. \A r \in Sides : Alive(r)' => Alive(r)
      BY <1>1 DEF Alive
    <3> QED  BY <1>1, <3>1, <3>2, WatchfulKept
  <2> QED  BY <2>6, <2>7, <2>8 DEF IInv
<1>6. CASE ~Announced(p)
  <2>1. profile' = prof /\ UNCHANGED <<again, idle, lost, applied, since_switch>>
    BY <1>6 DEF ClientSwitch
  <2>2. TypeOK'
    BY <1>1, <1>2, <1>3, <1>4, <2>1 DEF TypeOK
  <2>3. Watchful' /\ Repeatable'
    BY <1>1, <2>1 DEF IInv, Watchful, Repeatable, Alive
  <2> QED  BY <2>2, <2>3 DEF IInv
<1> QED  BY <1>5, <1>6

LEMMA AgainIInv ==
    ASSUME IInv, AnnounceAgain
    PROVE  IInv'
<1>1. UNCHANGED <<running, up, ka_timer, switches, stale>>
  BY DEF AnnounceAgain
<1>2. PICK a \in again :
        /\ a.left = 0 /\ again' = again \ {a}
        /\ IF Alive("client") /\ profile["client"] = a.id
           THEN \E got \in SUBSET {"profile"} :
                   Deliver("client", {"profile"}, got) /\ FollowIn(got, profile, a.id)
           ELSE UNCHANGED <<profile, idle, lost, applied, since_switch>>
  BY DEF AnnounceAgain
<1>3. TypeOK /\ Repeatable /\ a.id \in Profiles
  BY DEF IInv, TypeOK
<1>4. MaxIdle' = MaxIdle /\ MaxIdle \in Nat
  BY ConstantTypes DEF MaxIdle
<1>5. Repeatable'
  BY <1>2, <1>3 DEF Repeatable
<1>6. CASE Alive("client") /\ profile["client"] = a.id
  <2>1. PICK got \in SUBSET {"profile"} :
             Deliver("client", {"profile"}, got) /\ FollowIn(got, profile, a.id)
    BY <1>2, <1>6
  <2>2. /\ lost' \in [Sides -> 0 .. MaxLostInRow] /\ idle' \in [Sides -> 0 .. MaxIdle]
        /\ \A r \in Sides : idle'[r] <= idle[r]
    <3>1. "client" \in Sides
      BY DEF Sides
    <3> QED  BY <1>3, <2>1, <3>1, DeliverEffect
  <2>3. /\ profile' \in [Sides -> Profiles]
        /\ applied' \in (Profiles \ {"custom"}) \cup {"none"}
        /\ since_switch' \in 0 .. PEER_PROFILE_MIN_INTERVAL
    <3>1. a.id \in Profiles \ {"custom"} /\ profile \in [Sides -> Profiles]
      BY <1>2, <1>3 DEF Repeatable, Announced, TypeOK
    <3> QED  BY <1>3, <2>1, <3>1, FollowEffect
  <2>4. TypeOK'
    BY <1>1, <1>2, <1>3, <1>4, <2>2, <2>3 DEF TypeOK
  <2>5. Watchful'
    <3>1. \A r \in Sides : idle'[r] \in Nat /\ idle'[r] <= idle[r]
      BY <1>4, <2>2
    <3>2. \A r \in Sides : Alive(r)' => Alive(r)
      BY <1>1 DEF Alive
    <3> QED  BY <1>1, <3>1, <3>2, WatchfulKept
  <2> QED  BY <1>5, <2>4, <2>5 DEF IInv
<1>7. CASE ~(Alive("client") /\ profile["client"] = a.id)
  <2>1. UNCHANGED <<profile, idle, lost, applied, since_switch>>
    BY <1>2, <1>7
  <2>2. TypeOK'
    BY <1>1, <1>2, <1>3, <1>4, <2>1 DEF TypeOK
  <2>3. Watchful'
    BY <1>1, <2>1 DEF IInv, Watchful, Alive
  <2> QED  BY <1>5, <2>2, <2>3 DEF IInv
<1> QED  BY <1>6, <1>7

LEMMA StopIInv ==
    ASSUME IInv, NEW s \in Sides, Stop(s)
    PROVE  IInv'
<1>1. TypeOK'
  BY DEF IInv, TypeOK, Stop, MaxIdle
<1>2. Watchful'
  BY DEF IInv, TypeOK, Watchful, Stop, Alive
<1>3. Repeatable'
  BY DEF IInv, Repeatable, Stop
<1> QED  BY <1>1, <1>2, <1>3 DEF IInv

LEMMA ElapseIInv ==
    ASSUME IInv, Elapse
    PROVE  IInv'
<1>1. TypeOK /\ Watchful /\ Repeatable
  BY DEF IInv
<1>2. /\ \A s \in Sides : Alive(s) => ka_timer[s] > 0
      /\ \A a \in again : a.left > 0
      /\ UNCHANGED <<profile, running, up, lost, applied, switches>>
      /\ again' = {[a EXCEPT !.left = @ - 1] : a \in again}
  BY DEF Elapse
<1>3. \A s \in Sides : Alive(s)' <=> Alive(s)
  BY <1>2 DEF Alive
<1>4. ka_timer' \in [Sides -> 0 .. KEEPALIVE_INTERVAL]
  <2>1. ka_timer' = [s \in Sides |-> IF Alive(s) THEN ka_timer[s] - 1 ELSE ka_timer[s]]
    BY DEF Elapse
  <2>2. \A s \in Sides : ka_timer[s] \in 0 .. KEEPALIVE_INTERVAL
    BY <1>1 DEF TypeOK
  <2> QED  BY <1>2, <2>1, <2>2, ConstantTypes
<1>5. idle' = [s \in Sides |->
                   IF ~Alive(s) THEN idle[s]
                   ELSE IF Alive(Other(s)) /\ Cbr(profile[Other(s)]) THEN 0
                   ELSE idle[s] + 1]
  BY DEF Elapse
<1>6. \A s \in Sides : /\ idle[s] \in 0 .. MaxIdle /\ ka_timer[s] \in 0 .. KEEPALIVE_INTERVAL
                       /\ Alive(s) => /\ ka_timer[s] > 0
                                      /\ idle[s] + ka_timer[s] <= PEER_DEAD_AFTER + KEEPALIVE_INTERVAL
  BY <1>1, <1>2 DEF TypeOK, Watchful
<1>7. idle' \in [Sides -> 0 .. MaxIdle]
  <2> SUFFICES ASSUME NEW s \in Sides PROVE idle'[s] \in 0 .. MaxIdle
    BY <1>5
  <2>1. idle'[s] = IF ~Alive(s) THEN idle[s]
                   ELSE IF Alive(Other(s)) /\ Cbr(profile[Other(s)]) THEN 0
                   ELSE idle[s] + 1
    BY <1>5
  <2> QED  BY <1>6, <2>1, ConstantTypes DEF MaxIdle
<1>8. Watchful'
  <2> SUFFICES ASSUME NEW s \in Sides, Alive(s)
               PROVE  idle'[s] + ka_timer'[s] <= PEER_DEAD_AFTER + KEEPALIVE_INTERVAL
    BY <1>3 DEF Watchful
  <2>1. idle'[s] \in {0, idle[s] + 1}
    BY <1>5
  <2>2. ka_timer'[s] = ka_timer[s] - 1
    BY DEF Elapse
  <2> QED  BY <1>6, <2>1, <2>2, ConstantTypes DEF MaxIdle
<1>9. again' \subseteq [id : Profiles, left : 0 .. PEER_PROFILE_MIN_INTERVAL + 1] /\ Repeatable'
  <2> SUFFICES ASSUME NEW b \in again'
               PROVE  /\ b \in [id : Profiles, left : 0 .. PEER_PROFILE_MIN_INTERVAL + 1]
                      /\ Announced(b.id)
    BY DEF Repeatable
  <2>1. PICK a \in again : b = [a EXCEPT !.left = @ - 1]
    BY <1>2
  <2>2. a \in [id : Profiles, left : 0 .. PEER_PROFILE_MIN_INTERVAL + 1] /\ Announced(a.id)
    BY <1>1 DEF TypeOK, Repeatable
  <2>3. a.left > 0 /\ a.left \in Nat /\ a.left <= PEER_PROFILE_MIN_INTERVAL + 1
    BY <1>2, <2>2, ConstantTypes
  <2>4. b.id = a.id /\ b.left = a.left - 1 /\ b = [id |-> a.id, left |-> a.left - 1]
    BY <2>1, <2>2
  <2> QED  BY <2>2, <2>3, <2>4, ConstantTypes
<1>10. since_switch' \in 0 .. PEER_PROFILE_MIN_INTERVAL /\ stale' \in Nat
  BY <1>1, ConstantTypes DEF Elapse, TypeOK
<1>11. MaxIdle' = MaxIdle
  BY DEF MaxIdle
<1>12. TypeOK'
  BY <1>1, <1>2, <1>4, <1>7, <1>9, <1>10, <1>11 DEF TypeOK
<1> QED  BY <1>8, <1>9, <1>12 DEF IInv

LEMMA NextIInv == IInv /\ [Next]_vars => IInv'
<1> SUFFICES ASSUME IInv, [Next]_vars PROVE IInv'
  OBVIOUS
<1>1. CASE UNCHANGED vars
  BY <1>1 DEF IInv, TypeOK, Watchful, Repeatable, Alive, MaxIdle, vars
<1>2. CASE Next
  BY <1>2, TickIInv, StopIInv, SwitchIInv, AgainIInv, ElapseIInv DEF Next
<1> QED  BY <1>1, <1>2

LEMMA IInvInvariance == Spec => []IInv
BY InitIInv, NextIInv, PTL DEF Spec

\* Type correctness, with the bound on the silence that an end measures.
THEOREM TypeCorrect == Spec => []TypeOK
<1>1. IInv => TypeOK
  BY DEF IInv
<1> QED  BY <1>1, IInvInvariance, PTL

(***************************************************************************)
(* The keepalive task of an end that is up has given up on a peer that was *)
(* silent for PEER_DEAD_AFTER by its next tick, whatever the intervals are *)
(* and whatever is lost or switched.                                       *)
(***************************************************************************)
THEOREM SilenceIsNoticed == Spec => []DeadPeerNoticed
<1>1. IInv => DeadPeerNoticed
  <2> SUFFICES ASSUME IInv, NEW s \in Sides, Alive(s)
               PROVE  idle[s] <= PEER_DEAD_AFTER + KEEPALIVE_INTERVAL
    BY DEF DeadPeerNoticed
  <2>1. idle[s] \in Nat /\ ka_timer[s] \in Nat
    BY ConstantTypes DEF IInv, TypeOK, MaxIdle
  <2>2. idle[s] + ka_timer[s] <= PEER_DEAD_AFTER + KEEPALIVE_INTERVAL
    BY DEF IInv, Watchful
  <2> QED  BY <2>1, <2>2, ConstantTypes
<1> QED  BY <1>1, IInvInvariance, PTL

-----------------------------------------------------------------------------
(***************************************************************************)
(* The tunnel stays up.  Both ends start with a profile under which they   *)
(* send keepalives, and the losses in a row that the network is allowed    *)
(* leave one of them within PEER_DEAD_AFTER.                               *)
(***************************************************************************)
Chatty ==
    /\ ~Skips("client") /\ ~Skips("server")
    /\ (MaxLostInRow + 1) * KEEPALIVE_INTERVAL < PEER_DEAD_AFTER

\* What s has been silent for, at its next tick, is an interval more than the sends it lost.
Heard(s) ==
    idle[Other(s)] + ka_timer[s] <= (lost[s] + 1) * KEEPALIVE_INTERVAL

BothHeard == (\A s \in Sides : running[s]) => \A s \in Sides : up[s] /\ Heard(s)

\* (n + 1) intervals, one more of them, and the most there can be.
LEMMA Intervals ==
    ASSUME NEW n \in Nat, NEW m \in Nat, n <= m
    PROVE  /\ (n + 1) * KEEPALIVE_INTERVAL \in Nat
           /\ (n + 2) * KEEPALIVE_INTERVAL = (n + 1) * KEEPALIVE_INTERVAL + KEEPALIVE_INTERVAL
           /\ KEEPALIVE_INTERVAL <= (n + 1) * KEEPALIVE_INTERVAL
           /\ (n + 1) * KEEPALIVE_INTERVAL <= (m + 1) * KEEPALIVE_INTERVAL
<1> DEFINE K == KEEPALIVE_INTERVAL
<1>1. K \in Nat
  BY ConstantTypes
<1> HIDE DEF K
<1>2. n * K \in Nat /\ (m - n) * K \in Nat
  BY <1>1
<1>3. (n + 1) * K = n * K + K /\ (n + 2) * K = n * K + K + K
  BY <1>1
<1>4. (m + 1) * K = n * K + (m - n) * K + K
  BY <1>1
<1>5. (n + 1) * K <= (m + 1) * K
  BY <1>1, <1>2, <1>3, <1>4
<1>6. /\ (n + 1) * K \in Nat /\ (n + 2) * K = (n + 1) * K + K /\ K <= (n + 1) * K
  BY <1>1, <1>2, <1>3
<1> QED  BY <1>5, <1>6 DEF K

(***************************************************************************)
(* A send of s: what it loses is counted, what arrives ends the silence at *)
(* the other end; the other direction is not touched.                      *)
(***************************************************************************)
LEMMA SendHeard ==
    ASSUME IInv, NEW s \in Sides, NEW fs, NEW got, Deliver(s, fs, got), fs # {},
           Alive(Other(s)), Heard(s)
    PROVE  /\ idle'[Other(s)] + KEEPALIVE_INTERVAL <= (lost'[s] + 1) * KEEPALIVE_INTERVAL
              \/ idle'[Other(s)] + ka_timer[s] <= (lost'[s] + 1) * KEEPALIVE_INTERVAL
           /\ ka_timer[s] = 0 =>
                 idle'[Other(s)] + KEEPALIVE_INTERVAL <= (lost'[s] + 1) * KEEPALIVE_INTERVAL
           /\ idle'[s] = idle[s] /\ lost'[Other(s)] = lost[Other(s)]
<1> DEFINE o == Other(s)
           l == lost[s]
           K == KEEPALIVE_INTERVAL
<1>1. /\ o \in Sides /\ o # s
      /\ idle \in [Sides -> Nat] /\ l \in Nat /\ ka_timer[s] \in 0 .. K /\ K \in Nat
      /\ lost \in [Sides -> Nat]
  BY OtherSide, ConstantTypes DEF IInv, TypeOK, MaxIdle
<1>2. /\ lost' = [lost EXCEPT ![s] = IF got = fs THEN 0 ELSE @ + 1]
      /\ idle' = IF got # {} THEN [idle EXCEPT ![o] = 0] ELSE idle
  BY DEF Deliver
<1>3. idle[o] + ka_timer[s] <= (l + 1) * K
  BY DEF Heard
<1>4. idle'[s] = idle[s] /\ lost'[o] = lost[o]
  BY <1>1, <1>2
<1>5. /\ (l + 1) * K \in Nat /\ (l + 2) * K = (l + 1) * K + K /\ K <= (l + 1) * K
  BY <1>1, Intervals
<1> HIDE DEF o, l, K
<1>6. CASE got = fs
  <2>1. idle'[o] = 0 /\ lost'[s] = 0
    BY <1>1, <1>2, <1>6
  <2>2. idle'[o] + K <= (lost'[s] + 1) * K
    BY <1>1, <2>1
  <2> QED  BY <1>4, <2>2 DEF o, K
<1>7. CASE got # fs
  <2>1. idle'[o] \in Nat /\ idle'[o] <= idle[o] /\ lost'[s] = l + 1 /\ idle[o] \in Nat
    BY <1>1, <1>2, <1>7 DEF l
  <2>2. (lost'[s] + 1) * K = (l + 1) * K + K
    <3>1. lost'[s] + 1 = l + 2
      BY <1>1, <2>1
    <3> QED  BY <1>5, <3>1
  <2>3. idle'[o] + ka_timer[s] <= (lost'[s] + 1) * K
    BY <1>1, <1>3, <1>5, <2>1, <2>2
  <2>4. ka_timer[s] = 0 => idle'[o] + K <= (lost'[s] + 1) * K
    BY <1>1, <1>3, <1>5, <2>1, <2>2
  <2> QED  BY <1>4, <2>3, <2>4 DEF o, K
<1> QED  BY <1>6, <1>7

\* A send of s outside its tick.
LEMMA SendKeepsHeard ==
    ASSUME IInv, NEW s \in Sides, NEW fs, NEW got, Deliver(s, fs, got), fs # {},
           Alive(Other(s)), \A r \in Sides : Heard(r), UNCHANGED ka_timer
    PROVE  \A r \in Sides : Heard(r)'
<1> DEFINE o == Other(s)
           K == KEEPALIVE_INTERVAL
<1>1. o \in Sides /\ o # s /\ Other(o) = s /\ Other(s) = o
      /\ \A r \in Sides : r \in {s, o}
  BY OtherSide DEF Sides, Other
<1>2. /\ idle' \in [Sides -> 0 .. MaxIdle] /\ MaxIdle \in Nat /\ K \in Nat
      /\ ka_timer[s] \in 0 .. K /\ lost' \in [Sides -> 0 .. MaxLostInRow]
  BY DeliverEffect, ConstantTypes DEF IInv, TypeOK, MaxIdle
<1>3. /\ idle'[o] + K <= (lost'[s] + 1) * K \/ idle'[o] + ka_timer[s] <= (lost'[s] + 1) * K
      /\ idle'[s] = idle[s] /\ lost'[o] = lost[o]
  BY SendHeard
<1>4. (lost'[s] + 1) * K \in Nat
  BY <1>2, ConstantTypes
<1> HIDE DEF o, K
<1>5. idle'[o] + ka_timer'[s] <= (lost'[s] + 1) * K
  <2>1. idle'[o] \in Nat /\ ka_timer[s] \in Nat /\ ka_timer[s] <= K
    BY <1>1, <1>2
  <2> DEFINE x == (lost'[s] + 1) * K
  <2> HIDE DEF x
  <2>2. x \in Nat /\ (idle'[o] + K <= x \/ idle'[o] + ka_timer[s] <= x)
    BY <1>3, <1>4 DEF x
  <2>3. idle'[o] + ka_timer[s] <= x
    BY <1>2, <2>1, <2>2
  <2> QED  BY <2>3 DEF x
<1>6. Heard(s)'
  BY <1>1, <1>5 DEF Heard, K
<1>7. Heard(o)'
  <2>1. idle[s] + ka_timer[o] <= (lost[o] + 1) * K
    BY <1>1 DEF Heard, K
  <2>2. idle'[s] + ka_timer'[o] <= (lost'[o] + 1) * K
    BY <1>3, <2>1
  <2> QED  BY <1>1, <2>2 DEF Heard, K
<1> QED  BY <1>1, <1>6, <1>7

LEMMA InitHeard == Init => BothHeard
<1> SUFFICES ASSUME Init PROVE BothHeard
  OBVIOUS
<1>1. \A s \in Sides : Heard(s)
  <2> SUFFICES ASSUME NEW s \in Sides PROVE Heard(s)
    OBVIOUS
  <2>1. idle[Other(s)] = 0 /\ lost[s] = 0 /\ ka_timer[s] \in 0 .. KEEPALIVE_INTERVAL
    BY OtherSide, ConstantTypes DEF Init, Sides
  <2> QED  BY <2>1, ConstantTypes DEF Heard
<1>2. \A s \in Sides : up[s]
  BY DEF Init
<1> QED  BY <1>1, <1>2 DEF BothHeard

LEMMA TickHeard ==
    ASSUME Chatty, IInv, BothHeard, NEW s \in Sides, KaTick(s)
    PROVE  BothHeard'
<1> DEFINE o == Other(s)
           K == KEEPALIVE_INTERVAL
<1>1. /\ Alive(s) /\ ka_timer[s] = 0 /\ ka_timer' = [ka_timer EXCEPT ![s] = K]
      /\ UNCHANGED running
  BY DEF KaTick
<1> SUFFICES ASSUME \A r \in Sides : running[r]
             PROVE  \A r \in Sides : up'[r] /\ Heard(r)'
  BY <1>1 DEF BothHeard
<1>2. \A r \in Sides : up[r] /\ Heard(r)
  BY DEF BothHeard
<1>3. o \in Sides /\ o # s /\ Other(o) = s /\ Other(s) = o /\ \A r \in Sides : r \in {s, o}
  BY OtherSide DEF Sides, Other
<1>4. /\ \A r \in Sides : /\ idle[r] \in Nat /\ ka_timer[r] \in Nat
                          /\ lost[r] \in Nat /\ lost[r] <= MaxLostInRow
      /\ ka_timer \in [Sides -> 0 .. K] /\ K \in Nat
  BY ConstantTypes DEF IInv, TypeOK, MaxIdle
<1>5. idle[s] < PEER_DEAD_AFTER
  <2>1. idle[s] + ka_timer[o] <= (lost[o] + 1) * K
    BY <1>2, <1>3 DEF Heard
  <2> DEFINE x == (lost[o] + 1) * K
             y == (MaxLostInRow + 1) * K
  <2>2. x \in Nat /\ x <= y /\ y < PEER_DEAD_AFTER /\ y \in Nat
    BY <1>3, <1>4, Intervals, ConstantTypes DEF Chatty
  <2> HIDE DEF x, y, o, K
  <2> QED  BY <1>3, <1>4, <2>1, <2>2, ConstantTypes DEF x
<1>6. up' = up /\ \E got \in SUBSET KaFrames(s) : Deliver(s, KaFrames(s), got)
  <2>1. ~(idle[s] >= PEER_DEAD_AFTER)
    BY <1>4, <1>5, ConstantTypes
  <2> QED  BY <2>1 DEF KaTick
<1>7. PICK got \in SUBSET KaFrames(s) : Deliver(s, KaFrames(s), got)
  BY <1>6
<1>8. KaFrames(s) # {}
  BY DEF KaFrames, Chatty, Sides
<1>9. Alive(o) /\ Heard(s)
  BY <1>2, <1>3 DEF Alive
<1>10. /\ idle'[o] + K <= (lost'[s] + 1) * K
       /\ idle'[s] = idle[s] /\ lost'[o] = lost[o]
  BY <1>1, <1>7, <1>8, <1>9, SendHeard
<1>11. ka_timer'[s] = K /\ ka_timer'[o] = ka_timer[o]
  BY <1>1, <1>3, <1>4
<1>12. Heard(s)'
  BY <1>3, <1>10, <1>11 DEF Heard
<1>13. Heard(o)'
  BY <1>2, <1>3, <1>10, <1>11 DEF Heard
<1> QED  BY <1>2, <1>3, <1>6, <1>12, <1>13

LEMMA SwitchHeard ==
    ASSUME IInv, BothHeard, NEW p \in ClientProfiles, ClientSwitch(p)
    PROVE  BothHeard'
<1>1. UNCHANGED <<running, up, ka_timer>>
  BY DEF ClientSwitch
<1> SUFFICES ASSUME \A r \in Sides : running[r]
             PROVE  \A r \in Sides : Heard(r)'
  BY <1>1 DEF BothHeard
<1>2. "client" \in Sides /\ Alive(Other("client")) /\ \A r \in Sides : Heard(r)
  BY DEF BothHeard, Alive, Sides, Other
<1>3. CASE Announced(p)
  <2>1. PICK got \in SUBSET {"profile"} : Deliver("client", {"profile"}, got)
    BY <1>3 DEF ClientSwitch
  <2> QED  BY <1>1, <1>2, <2>1, SendKeepsHeard
<1>4. CASE ~Announced(p)
  BY <1>1, <1>2, <1>4 DEF ClientSwitch, Heard
<1> QED  BY <1>3, <1>4

LEMMA AgainHeard ==
    ASSUME IInv, BothHeard, AnnounceAgain
    PROVE  BothHeard'
<1>1. UNCHANGED <<running, up, ka_timer>>
  BY DEF AnnounceAgain
<1> SUFFICES ASSUME \A r \in Sides : running[r]
             PROVE  \A r \in Sides : Heard(r)'
  BY <1>1 DEF BothHeard
<1>2. "client" \in Sides /\ Alive(Other("client")) /\ \A r \in Sides : Heard(r)
  BY DEF BothHeard, Alive, Sides, Other
<1>3. \/ \E got \in SUBSET {"profile"} : Deliver("client", {"profile"}, got)
      \/ UNCHANGED <<idle, lost>>
  BY DEF AnnounceAgain
<1>4. CASE \E got \in SUBSET {"profile"} : Deliver("client", {"profile"}, got)
  BY <1>1, <1>2, <1>4, SendKeepsHeard
<1>5. CASE UNCHANGED <<idle, lost>>
  BY <1>1, <1>2, <1>5 DEF Heard
<1> QED  BY <1>3, <1>4, <1>5

LEMMA ElapseHeard ==
    ASSUME IInv, BothHeard, Elapse
    PROVE  BothHeard'
<1>1. UNCHANGED <<running, up, lost>>
  BY DEF Elapse
<1> SUFFICES ASSUME \A r \in Sides : running[r], NEW s \in Sides
             PROVE  Heard(s)'
  BY <1>1 DEF BothHeard
<1> DEFINE o == Other(s)
           x == (lost[s] + 1) * KEEPALIVE_INTERVAL
<1>2. o \in Sides /\ Alive(o) /\ Alive(s) /\ Heard(s)
  BY OtherSide DEF BothHeard, Alive
<1>3. ka_timer'[s] = ka_timer[s] - 1 /\ ka_timer[s] > 0 /\ ka_timer[s] \in 0 .. KEEPALIVE_INTERVAL
  BY <1>2 DEF Elapse, IInv, TypeOK
<1>4. idle'[o] \in {0, idle[o] + 1} /\ idle[o] \in Nat
  BY <1>2, ConstantTypes DEF Elapse, IInv, TypeOK, MaxIdle
<1>5. x \in Nat /\ KEEPALIVE_INTERVAL <= x
  BY Intervals, ConstantTypes DEF IInv, TypeOK
<1>6. idle[o] + ka_timer[s] <= x
  BY <1>2 DEF Heard
<1> HIDE DEF o, x
<1>7. idle'[o] + ka_timer'[s] <= x
  BY <1>3, <1>4, <1>5, <1>6, ConstantTypes
<1> QED  BY <1>1, <1>7 DEF Heard, o, x

LEMMA NextHeard == Chatty /\ IInv /\ BothHeard /\ [Next]_vars => BothHeard'
<1> SUFFICES ASSUME Chatty, IInv, BothHeard, [Next]_vars PROVE BothHeard'
  OBVIOUS
<1>1. CASE UNCHANGED vars
  BY <1>1 DEF BothHeard, Heard, vars
<1>2. ASSUME NEW s \in Sides, Stop(s) PROVE BothHeard'
  <2>1. ~running'[s]
    BY <1>2 DEF Stop, IInv, TypeOK
  <2> QED  BY <2>1 DEF BothHeard
<1>3. CASE Next
  BY <1>2, <1>3, TickHeard, SwitchHeard, AgainHeard, ElapseHeard DEF Next
<1> QED  BY <1>1, <1>3

(***************************************************************************)
(* Two running ends never give an idle tunnel up, for all intervals and    *)
(* losses in a row that Chatty relates (15 s, 45 s and one loss in the     *)
(* code), however often the client switches its profile.                   *)
(***************************************************************************)
THEOREM IdleTunnelStaysUp == Chatty /\ Spec => []StaysUp
<1>1. BothHeard => StaysUp
  BY DEF BothHeard, StaysUp
<1>2. Chatty /\ IInv /\ BothHeard /\ [Next]_vars => BothHeard'
  BY NextHeard
<1>3. CASE Chatty
  <2>1. IInv /\ BothHeard /\ [Next]_vars => BothHeard'
    BY <1>2, <1>3
  <2> QED  BY <1>1, <2>1, InitHeard, IInvInvariance, PTL DEF Spec
<1>4. CASE ~Chatty
  BY <1>4
<1> QED  BY <1>3, <1>4

-----------------------------------------------------------------------------
(***************************************************************************)
(* The server catches up.  While both ends live and the server shapes by   *)
(* another profile than the client announces, one of three things holds:   *)
(* the first tick is at hand; the delayed announcement is still to come    *)
(* and the tick after it is in time; or the last send was lost, so that    *)
(* the next one, no later than the tick, arrives and is not too soon.      *)
(***************************************************************************)
Behind ==
    /\ Alive("client") /\ Alive("server")
    /\ Announced(profile["client"]) /\ profile["server"] # profile["client"]

InTime == stale + ka_timer["client"] <= KEEPALIVE_INTERVAL + PEER_PROFILE_MIN_INTERVAL

FirstTick ==
    /\ stale = 0 /\ ka_timer["client"] = 0
    /\ since_switch >= PEER_PROFILE_MIN_INTERVAL

AgainPending ==
    /\ \E a \in again : a.id = profile["client"] /\ a.left + stale = PEER_PROFILE_MIN_INTERVAL + 1
    /\ since_switch >= PEER_PROFILE_MIN_INTERVAL \/ since_switch >= stale
    /\ InTime \/ lost["client"] >= 1

LastChance ==
    /\ since_switch >= PEER_PROFILE_MIN_INTERVAL
    /\ lost["client"] >= 1 /\ InTime

\* What the server noted as applied is what it shapes by.
Noted == applied \in {"none", profile["server"]}

Healing ==
    /\ Noted
    /\ stale <= KEEPALIVE_INTERVAL + PEER_PROFILE_MIN_INTERVAL
    /\ Behind => FirstTick \/ AgainPending \/ LastChance

LEMMA HealingTypes ==
    ASSUME IInv
    PROVE  /\ stale \in Nat /\ since_switch \in Nat /\ switches \in Nat
           /\ ka_timer["client"] \in 0 .. KEEPALIVE_INTERVAL
           /\ lost["client"] \in 0 .. MaxLostInRow
           /\ \A a \in again : a.left \in Nat /\ Announced(a.id)
           /\ profile["client"] \in Profiles
           /\ "client" \in Sides /\ "server" \in Sides
BY ConstantTypes DEF IInv, TypeOK, Sides, Repeatable

(***************************************************************************)
(* An announcement of the client's profile, sent while the server is       *)
(* behind: the server follows, or it was too soon, or it was lost, which   *)
(* cannot happen twice in a row.                                           *)
(***************************************************************************)
LEMMA AnnouncementHeals ==
    ASSUME IInv, Noted, MaxLostInRow <= 1, Behind, NEW fs, NEW got, "profile" \in fs,
           Deliver("client", fs, got), FollowIn(got, profile, profile["client"]),
           profile'["server"] # profile["client"]
    PROVE  /\ UNCHANGED <<profile, applied, since_switch>>
           /\ \/ since_switch < PEER_PROFILE_MIN_INTERVAL
              \/ lost["client"] = 0 /\ lost'["client"] = 1
<1>1. applied # profile["client"]
  BY DEF Noted, Behind, Announced, IInv, TypeOK, Profiles, Sides
<1>2. profile \in [Sides -> Profiles] /\ "server" \in Sides
  BY DEF IInv, TypeOK, Sides
<1>3. ~("profile" \in got /\ since_switch >= PEER_PROFILE_MIN_INTERVAL)
  BY <1>1, <1>2 DEF FollowIn, Behind
<1>4. UNCHANGED <<profile, applied, since_switch>>
  BY <1>3 DEF FollowIn
<1>5. CASE "profile" \in got
  BY <1>3, <1>4, <1>5, HealingTypes, ConstantTypes
<1>6. CASE "profile" \notin got
  <2>1. got # fs
    BY <1>6
  <2>2. lost["client"] < MaxLostInRow /\ lost' = [lost EXCEPT !["client"] = @ + 1]
    BY <2>1 DEF Deliver
  <2>3. lost["client"] = 0
    BY <2>2, HealingTypes, ConstantTypes
  <2>4. lost'["client"] = 1
    BY <2>2, <2>3 DEF IInv, TypeOK, Sides
  <2> QED  BY <1>4, <2>3, <2>4
<1> QED  BY <1>5, <1>6

\* Following keeps the note right.
LEMMA NotedKept ==
    ASSUME IInv, Noted, NEW got, NEW p, NEW prof \in [Sides -> Profiles],
           prof["server"] = profile["server"], FollowIn(got, prof, p)
    PROVE  Noted'
<1>1. CASE applied' = p /\ profile' = [prof EXCEPT !["server"] = p]
  BY <1>1 DEF Noted, Sides
<1>2. CASE profile' = prof /\ UNCHANGED applied
  BY <1>2 DEF Noted
<1> QED  BY <1>1, <1>2 DEF FollowIn

LEMMA InitHealing == Init => Healing
<1> SUFFICES ASSUME Init PROVE Healing
  OBVIOUS
<1>1. stale = 0 /\ ka_timer["client"] = 0 /\ since_switch = PEER_PROFILE_MIN_INTERVAL
      /\ applied = "none"
  BY DEF Init, Sides
<1> QED  BY <1>1, ConstantTypes DEF Healing, Noted, FirstTick

LEMMA TickHealing ==
    ASSUME MaxLostInRow <= 1, IInv, Healing, NEW s \in Sides, KaTick(s)
    PROVE  Healing'
<1>1. /\ Alive(s) /\ ka_timer[s] = 0
      /\ ka_timer' = [ka_timer EXCEPT ![s] = KEEPALIVE_INTERVAL]
      /\ UNCHANGED <<running, again, switches, stale>>
  BY DEF KaTick
<1>2. /\ ka_timer \in [Sides -> 0 .. KEEPALIVE_INTERVAL] /\ profile \in [Sides -> Profiles]
      /\ up \in [Sides -> BOOLEAN]
  BY DEF IInv, TypeOK
<1>3. CASE idle[s] >= PEER_DEAD_AFTER
  <2>1. up' = [up EXCEPT ![s] = FALSE] /\ UNCHANGED <<profile, idle, lost, applied, since_switch>>
    BY <1>3 DEF KaTick
  <2>2. ~Behind'
    BY <1>2, <2>1 DEF Behind, Alive, Sides
  <2> QED  BY <1>1, <2>1, <2>2 DEF Healing, Noted
<1>4. CASE ~(idle[s] >= PEER_DEAD_AFTER)
  <2>1. UNCHANGED up
    BY <1>4 DEF KaTick
  <2>2. PICK got \in SUBSET KaFrames(s) :
             Deliver(s, KaFrames(s), got) /\ FollowIn(got, profile, profile["client"])
    BY <1>4 DEF KaTick
  <2>3. Noted'
    BY <1>2, <2>2, NotedKept DEF Healing
  <2>4. profile'["client"] = profile["client"] /\ profile' \in [Sides -> Profiles]
    BY <2>2, TickFollows DEF IInv
  <2>5. ASSUME Behind' PROVE Behind /\ profile'["server"] # profile["client"]
    <3>1. profile'["server"] # profile["client"]
      BY <2>4, <2>5 DEF Behind
    <3>2. UNCHANGED profile
      BY <2>2, <3>1, TickFollows DEF IInv
    <3> QED  BY <1>1, <2>1, <2>5, <3>1, <3>2 DEF Behind, Alive
  <2>6. ASSUME Behind' PROVE (FirstTick \/ AgainPending \/ LastChance)'
    <3>1. Behind /\ profile'["server"] # profile["client"]
      BY <2>5, <2>6
    <3>2. FirstTick \/ AgainPending \/ LastChance
      BY <3>1 DEF Healing
    <3>3. CASE s = "server"
      <4>1. "profile" \notin got
        BY <2>2, <3>3, TickAnnounces DEF IInv
      <4>2. UNCHANGED <<profile, since_switch>>
        BY <2>2, <4>1 DEF FollowIn
      <4>3. lost'["client"] = lost["client"] /\ ka_timer'["client"] = ka_timer["client"]
        BY <1>1, <1>2, <2>2, <3>3 DEF Deliver, IInv, TypeOK, Sides
      <4> QED  BY <1>1, <3>2, <4>2, <4>3 DEF FirstTick, AgainPending, LastChance, InTime
    <3>4. CASE s = "client"
      <4>1. "profile" \in KaFrames("client")
        BY <3>1 DEF KaFrames, Behind
      <4>2. /\ UNCHANGED <<profile, applied, since_switch>>
            /\ \/ since_switch < PEER_PROFILE_MIN_INTERVAL
               \/ lost["client"] = 0 /\ lost'["client"] = 1
        <5>1. Noted
          BY DEF Healing
        <5> QED  BY <2>2, <3>1, <3>4, <4>1, <5>1, AnnouncementHeals
      <4>3. ka_timer'["client"] = KEEPALIVE_INTERVAL
        BY <1>1, <1>2, <3>4
      <4>4. CASE since_switch < PEER_PROFILE_MIN_INTERVAL
        <5>1. AgainPending /\ since_switch >= stale
          BY <3>2, <4>4, HealingTypes, ConstantTypes DEF FirstTick, AgainPending, LastChance
        <5>2. InTime'
          BY <1>1, <4>3, <4>4, <5>1, HealingTypes, ConstantTypes DEF InTime
        <5>3. /\ \E a \in again' : a.id = profile'["client"]
                                   /\ a.left + stale' = PEER_PROFILE_MIN_INTERVAL + 1
              /\ since_switch' >= stale'
          BY <1>1, <4>2, <5>1 DEF AgainPending
        <5> QED  BY <5>2, <5>3 DEF AgainPending
      <4>5. CASE lost["client"] = 0 /\ lost'["client"] = 1
        <5>1. CASE FirstTick
          BY <1>1, <4>2, <4>3, <4>5, <5>1, ConstantTypes DEF FirstTick, LastChance, InTime
        <5>2. CASE AgainPending
          BY <1>1, <4>2, <4>5, <5>2 DEF AgainPending
        <5>3. ~LastChance
          BY <4>5 DEF LastChance
        <5> QED  BY <3>2, <5>1, <5>2, <5>3
      <4> QED  BY <4>2, <4>4, <4>5
    <3> QED  BY <3>3, <3>4 DEF Sides
  <2> QED  BY <1>1, <2>3, <2>6 DEF Healing
<1> QED  BY <1>3, <1>4

LEMMA AgainHealing ==
    ASSUME MaxLostInRow <= 1, IInv, Healing, AnnounceAgain
    PROVE  Healing'
<1>1. UNCHANGED <<running, up, ka_timer, switches, stale>>
  BY DEF AnnounceAgain
<1>2. PICK a \in again :
        /\ a.left = 0 /\ again' = again \ {a}
        /\ IF Alive("client") /\ profile["client"] = a.id
           THEN \E got \in SUBSET {"profile"} :
                   Deliver("client", {"profile"}, got) /\ FollowIn(got, profile, a.id)
           ELSE UNCHANGED <<profile, idle, lost, applied, since_switch>>
  BY DEF AnnounceAgain
<1>3. CASE Alive("client") /\ profile["client"] = a.id
  <2>1. PICK got \in SUBSET {"profile"} :
             Deliver("client", {"profile"}, got) /\ FollowIn(got, profile, profile["client"])
    BY <1>2, <1>3
  <2>2. profile \in [Sides -> Profiles] /\ profile["client"] \in Profiles \ {"custom"}
    BY <1>3, HealingTypes DEF IInv, TypeOK, Announced
  <2>3. Noted'
    BY <2>1, <2>2, NotedKept DEF Healing
  <2>4. ASSUME Behind' PROVE (AgainPending \/ LastChance)'
    <3>1. /\ profile'["client"] = profile["client"]
          /\ profile'["server"] = profile["client"] \/ UNCHANGED profile
      BY <2>1, <2>2, FollowEffect DEF IInv
    <3>2. profile'["server"] # profile["client"] /\ Behind
      BY <1>1, <2>4, <3>1 DEF Behind, Alive
    <3>3. FirstTick \/ AgainPending \/ LastChance
      BY <3>2 DEF Healing
    <3>4. /\ UNCHANGED <<profile, applied, since_switch>>
          /\ \/ since_switch < PEER_PROFILE_MIN_INTERVAL
             \/ lost["client"] = 0 /\ lost'["client"] = 1
      <4>1. Noted /\ "profile" \in {"profile"}
        BY DEF Healing
      <4> QED  BY <2>1, <3>2, <4>1, AnnouncementHeals
    <3>5. CASE since_switch < PEER_PROFILE_MIN_INTERVAL
      <4>1. AgainPending /\ since_switch >= stale
        BY <3>3, <3>5, HealingTypes, ConstantTypes DEF FirstTick, AgainPending, LastChance
      <4>2. PICK b \in again : /\ b.id = profile["client"]
                               /\ b.left + stale = PEER_PROFILE_MIN_INTERVAL + 1
        BY <4>1 DEF AgainPending
      <4>3. b.left # 0
        BY <3>5, <4>1, <4>2, HealingTypes, ConstantTypes
      <4>4. b \in again'
        BY <1>2, <4>3
      <4>5. InTime'
        BY <1>1, <3>5, <4>1, HealingTypes, ConstantTypes DEF InTime
      <4>6. AgainPending'
        BY <1>1, <3>4, <4>1, <4>2, <4>4, <4>5 DEF AgainPending
      <4> QED  BY <4>6
    <3>6. CASE since_switch >= PEER_PROFILE_MIN_INTERVAL /\ lost["client"] = 0 /\ lost'["client"] = 1
      <4>1. InTime
        BY <3>3, <3>6, HealingTypes, ConstantTypes DEF FirstTick, AgainPending, LastChance, InTime
      <4>2. LastChance'
        BY <1>1, <3>4, <3>6, <4>1 DEF LastChance, InTime
      <4> QED  BY <4>2
    <3> QED  BY <3>4, <3>5, <3>6, HealingTypes, ConstantTypes
  <2> QED  BY <1>1, <2>3, <2>4 DEF Healing
<1>4. CASE ~(Alive("client") /\ profile["client"] = a.id)
  <2>1. UNCHANGED <<profile, idle, lost, applied, since_switch>>
    BY <1>2, <1>4
  <2>2. Behind' <=> Behind
    BY <1>1, <2>1 DEF Behind, Alive
  <2>3. Behind /\ AgainPending => AgainPending'
    BY <1>1, <1>2, <1>4, <2>1 DEF AgainPending, Behind, InTime
  <2>4. (FirstTick => FirstTick') /\ (LastChance => LastChance')
    BY <1>1, <2>1 DEF FirstTick, LastChance, InTime
  <2> QED  BY <1>1, <2>1, <2>2, <2>3, <2>4 DEF Healing, Noted
<1> QED  BY <1>3, <1>4

LEMMA SwitchHealing ==
    ASSUME IInv, Healing, NEW p \in ClientProfiles, ClientSwitch(p)
    PROVE  Healing'
<1> DEFINE prof == [profile EXCEPT !["client"] = p]
<1>1. stale' = 0 /\ UNCHANGED ka_timer
  BY DEF ClientSwitch
<1>2. /\ prof \in [Sides -> Profiles] /\ p \in Profiles
      /\ prof["client"] = p /\ prof["server"] = profile["server"]
  BY ConstantTypes DEF IInv, TypeOK, Sides
<1>3. CASE Announced(p)
  <2>1. again' = again \cup {[id |-> p, left |-> PEER_PROFILE_MIN_INTERVAL + 1]}
    BY <1>3 DEF ClientSwitch
  <2>2. PICK got \in SUBSET {"profile"} : FollowIn(got, prof, p)
    BY <1>3 DEF ClientSwitch
  <2>3. /\ profile'["client"] = p /\ since_switch' \in Nat
    <3>1. p \in Profiles \ {"custom"}
      BY <1>2, <1>3 DEF Announced
    <3> HIDE DEF prof
    <3> QED  BY <1>2, <2>2, <3>1, FollowEffect, ConstantTypes DEF IInv
  <2>4. Noted'
    <3> HIDE DEF prof
    <3> QED  BY <1>2, <2>2, NotedKept DEF Healing
  <2>5. InTime'
    BY <1>1, HealingTypes, ConstantTypes DEF InTime
  <2>6. /\ \E a \in again' : a.id = profile'["client"]
                             /\ a.left + stale' = PEER_PROFILE_MIN_INTERVAL + 1
        /\ since_switch' >= stale'
    <3> DEFINE c == [id |-> p, left |-> PEER_PROFILE_MIN_INTERVAL + 1]
    <3>1. c \in again' /\ c.id = profile'["client"] /\ c.left = PEER_PROFILE_MIN_INTERVAL + 1
      BY <2>1, <2>3
    <3> HIDE DEF c
    <3>2. c.left + stale' = PEER_PROFILE_MIN_INTERVAL + 1 /\ since_switch' >= stale'
      BY <1>1, <2>3, <3>1, ConstantTypes
    <3> QED  BY <3>1, <3>2
  <2>7. AgainPending'
    BY <2>5, <2>6 DEF AgainPending
  <2> QED  BY <1>1, <2>4, <2>7, ConstantTypes DEF Healing
<1>4. CASE ~Announced(p)
  <2>1. profile' = prof /\ UNCHANGED applied
    BY <1>4 DEF ClientSwitch
  <2>2. ~Behind'
    BY <1>2, <1>4, <2>1 DEF Behind
  <2>3. Noted'
    BY <1>2, <2>1 DEF Healing, Noted
  <2> QED  BY <1>1, <2>2, <2>3, ConstantTypes DEF Healing
<1> QED  BY <1>3, <1>4

LEMMA ElapseHealing ==
    ASSUME IInv, Healing, Elapse
    PROVE  Healing'
<1>1. /\ \A s \in Sides : Alive(s) => ka_timer[s] > 0
      /\ \A a \in again : a.left > 0
      /\ UNCHANGED <<profile, running, up, lost, applied, switches>>
      /\ again' = {[a EXCEPT !.left = @ - 1] : a \in again}
      /\ since_switch' = IF since_switch < PEER_PROFILE_MIN_INTERVAL THEN since_switch + 1
                         ELSE since_switch
      /\ stale' = IF Behind THEN stale + 1 ELSE 0
  BY DEF Elapse, Behind
<1>2. Noted' /\ (Behind' <=> Behind)
  BY <1>1 DEF Healing, Noted, Behind, Alive
<1>3. CASE ~Behind
  BY <1>1, <1>2, <1>3, ConstantTypes DEF Healing
<1>4. CASE Behind
  <2>1. /\ stale' = stale + 1 /\ ka_timer["client"] > 0
        /\ ka_timer'["client"] = ka_timer["client"] - 1
    BY <1>1, <1>4 DEF Behind, Elapse, Sides
  <2>2. InTime => InTime'
    BY <2>1, HealingTypes, ConstantTypes DEF InTime
  <2>3. AgainPending \/ LastChance
    BY <1>4, <2>1 DEF Healing, FirstTick
  <2>4. CASE AgainPending
    <3>1. PICK b \in again : /\ b.id = profile["client"]
                             /\ b.left + stale = PEER_PROFILE_MIN_INTERVAL + 1
      BY <2>4 DEF AgainPending
    <3>2. b \in [id : Profiles, left : 0 .. PEER_PROFILE_MIN_INTERVAL + 1]
      BY DEF IInv, TypeOK
    <3> DEFINE c == [b EXCEPT !.left = @ - 1]
    <3>3. c \in again' /\ c.id = b.id /\ c.left = b.left - 1
      BY <1>1, <3>2
    <3>4. b.left > 0 /\ b.left \in Nat
      BY <1>1, HealingTypes
    <3> HIDE DEF c
    <3>5. c.left + stale' = PEER_PROFILE_MIN_INTERVAL + 1 /\ c.id = profile'["client"]
      BY <1>1, <2>1, <3>1, <3>3, <3>4, HealingTypes, ConstantTypes
    <3>6. since_switch' >= PEER_PROFILE_MIN_INTERVAL \/ since_switch' >= stale'
      BY <1>1, <2>1, <2>4, HealingTypes, ConstantTypes DEF AgainPending
    <3>7. AgainPending'
      BY <1>1, <2>2, <2>4, <3>3, <3>5, <3>6 DEF AgainPending
    <3>8. stale' <= KEEPALIVE_INTERVAL + PEER_PROFILE_MIN_INTERVAL
      BY <2>1, <3>1, <3>4, HealingTypes, ConstantTypes
    <3> QED  BY <1>2, <3>7, <3>8 DEF Healing
  <2>5. CASE LastChance
    <3>1. LastChance'
      BY <1>1, <2>2, <2>5, HealingTypes, ConstantTypes DEF LastChance
    <3>2. stale' <= KEEPALIVE_INTERVAL + PEER_PROFILE_MIN_INTERVAL
      BY <2>1, <2>5, HealingTypes, ConstantTypes DEF LastChance, InTime
    <3> QED  BY <1>2, <3>1, <3>2 DEF Healing
  <2> QED  BY <2>3, <2>4, <2>5
<1> QED  BY <1>3, <1>4

LEMMA NextHealing == MaxLostInRow <= 1 /\ IInv /\ Healing /\ [Next]_vars => Healing'
<1> SUFFICES ASSUME MaxLostInRow <= 1, IInv, Healing, [Next]_vars PROVE Healing'
  OBVIOUS
<1>1. CASE UNCHANGED vars
  BY <1>1 DEF Healing, Noted, Behind, Alive, FirstTick, AgainPending, LastChance, InTime, vars
<1>2. ASSUME NEW s \in Sides, Stop(s) PROVE Healing'
  <2>1. ~Behind'
    BY <1>2 DEF Stop, Behind, Alive, IInv, TypeOK, Sides
  <2> QED  BY <1>2, <2>1 DEF Stop, Healing, Noted
<1>3. CASE Next
  BY <1>2, <1>3, TickHealing, SwitchHealing, AgainHealing, ElapseHealing DEF Next
<1> QED  BY <1>1, <1>3

(***************************************************************************)
(* The server that follows announcements is never behind its client for    *)
(* longer than a keepalive interval and the rate limit, when no two sends  *)
(* in a row lose a frame: the repeated announcements make up for a lost    *)
(* one and for one that was ignored as too soon.                           *)
(***************************************************************************)
THEOREM ProfileSelfHeals == MaxLostInRow <= 1 /\ Spec => []SelfHeals
<1>1. Healing => SelfHeals
  BY DEF Healing, SelfHeals
<1>2. CASE MaxLostInRow <= 1
  <2>1. IInv /\ Healing /\ [Next]_vars => Healing'
    BY <1>2, NextHealing
  <2> QED  BY <1>1, <2>1, InitHealing, IInvInvariance, PTL DEF Spec
<1>3. CASE ~(MaxLostInRow <= 1)
  BY <1>3
<1> QED  BY <1>2, <1>3
=============================================================================
