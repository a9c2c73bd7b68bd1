----------------------------- MODULE PeerLiveness -----------------------------
(***************************************************************************)
(* What keeps an idle tunnel up: the keepalive and dead-peer task of both  *)
(* ends, the cover traffic that stands in for keepalives under CBR, the    *)
(* profile announcements of the client and the server that follows them    *)
(* (its outbound loop applies the live switch at once).                    *)
(*                                                                         *)
(* Time is discrete, in any unit that the intervals below are multiples    *)
(* of; what falls due in an instant happens before time goes on.  There is *)
(* no user traffic: silence is the case the task exists for.  A frame      *)
(* arrives in the instant it is sent or not at all.                        *)
(***************************************************************************)
EXTENDS Integers, FiniteSets

CONSTANTS
    KEEPALIVE_INTERVAL,         \* 15 s
    PEER_DEAD_AFTER,            \* 45 s
    PEER_PROFILE_MIN_INTERVAL,  \* 1 s
    ClientStart, ServerStart,   \* the profile each end is configured with
    ClientProfiles,             \* the profiles the user may switch the client to
    MaxLostInRow,               \* bound: sends in a row, per direction, that lose a frame
    MaxSwitches,                \* bound: live switches of the client
    MayStop                     \* TRUE: an end may vanish without a Close

Profiles == {"off", "balanced", "throughput", "stealth", "custom"}

ASSUME LivenessAssumption ==
    /\ {KEEPALIVE_INTERVAL, PEER_DEAD_AFTER, PEER_PROFILE_MIN_INTERVAL} \subseteq Nat \ {0}
    /\ {ClientStart, ServerStart} \cup ClientProfiles \subseteq Profiles
    /\ MaxLostInRow \in Nat /\ MaxSwitches \in Nat /\ MayStop \in BOOLEAN

Sides    == {"client", "server"}
Other(s) == IF s = "client" THEN "server" ELSE "client"

\* TrafficConfig::effective: paced at a constant rate, so never silent.  A custom
\* profile is taken to be an adaptive one.
Cbr(p) == p = "stealth"

\* ka_skip_send, which is computed once, from the profile the tunnel started with.
Skips(s) == Cbr(IF s = "client" THEN ClientStart ELSE ServerStart)

VARIABLES
    profile,        \* the profile each end's outbound loop shapes by
    running,        \* whether the end's process runs
    up,             \* whether its tunnel loops do
    idle,           \* now - last_recv
    ka_timer,       \* time to the next ka_tick
    lost,           \* sends in a row that lost something, per sender
    applied,        \* applied_peer_profile of the server, "none" for None
    since_switch,   \* time since last_peer_switch, at most the minimum interval
    again,          \* delayed second announcements: profile and time left
    switches,       \* number of live switches of the client
    stale           \* history: how long the server has not had the client's profile

vars == <<profile, running, up, idle, ka_timer, lost, applied, since_switch, again,
          switches, stale>>

Init ==
    /\ profile = [s \in Sides |-> IF s = "client" THEN ClientStart ELSE ServerStart]
    /\ running = [s \in Sides |-> TRUE]
    /\ up = [s \in Sides |-> TRUE]
    /\ idle = [s \in Sides |-> 0]
    /\ \E t \in 0 .. KEEPALIVE_INTERVAL - 1 :  \* an interval ticks first when it is made
         ka_timer = [s \in Sides |-> IF s = "client" THEN 0 ELSE t]
    /\ lost = [s \in Sides |-> 0]
    /\ applied = "none"
    /\ since_switch = PEER_PROFILE_MIN_INTERVAL
    /\ again = {}
    /\ switches = 0
    /\ stale = 0

Alive(s) == running[s] /\ up[s]

\* Profile::wire_id: a custom profile has none and is not announced.
Announced(p) == p # "custom"

------------------------------------------------------------------------------
\* Plausible slip: an announcement that comes too soon is noted as applied.
FollowIn_NotesIgnored(got, prof, p) ==
    LET new == "profile" \in got /\ Alive("server") /\ applied # p
        due == since_switch >= PEER_PROFILE_MIN_INTERVAL
    IN /\ profile' = IF new /\ due THEN [prof EXCEPT !["server"] = p] ELSE prof
       /\ applied' = IF new THEN p ELSE applied
       /\ since_switch' = IF new /\ due THEN 0 ELSE since_switch

(***************************************************************************)
(* The server's inbound loop, when a Profile frame is among what arrives:  *)
(* follow it unless it is old news or too soon.  prof is what the profiles *)
(* are before that.                                                        *)
(***************************************************************************)
FollowIn(got, prof, p) ==
    IF /\ "profile" \in got /\ Alive("server")
       /\ applied # p /\ since_switch >= PEER_PROFILE_MIN_INTERVAL
    THEN /\ profile' = [prof EXCEPT !["server"] = p]
         /\ applied' = p
         /\ since_switch' = 0
    ELSE /\ profile' = prof
         /\ UNCHANGED <<applied, since_switch>>

(***************************************************************************)
(* Side s sends the frames fs at this instant; got is what arrives.        *)
(* Whatever arrives is authenticated and resets the receiver's silence.    *)
(***************************************************************************)
Deliver(s, fs, got) ==
    /\ got = fs \/ lost[s] < MaxLostInRow
    /\ lost' = [lost EXCEPT ![s] = IF got = fs THEN 0 ELSE @ + 1]
    /\ idle' = IF got # {} /\ Alive(Other(s)) THEN [idle EXCEPT ![Other(s)] = 0] ELSE idle

\* Plausible slip: only the end that announces sends keepalives.
KaFrames_AnnouncerOnly(s) ==
    (IF s = "client" /\ Announced(profile[s]) THEN {"profile"} ELSE {})
        \cup (IF Skips(s) \/ s = "server" THEN {} ELSE {"keepalive"})

\* What one ka_tick sends: the client's announcement, and the keepalive unless skipped.
KaFrames(s) ==
    (IF s = "client" /\ Announced(profile[s]) THEN {"profile"} ELSE {})
        \cup (IF Skips(s) THEN {} ELSE {"keepalive"})

\* Plausible slip: the test for a silent peer is one interval late.
KaTick_LateCheck(s) ==
    /\ Alive(s) /\ ka_timer[s] = 0
    /\ ka_timer' = [ka_timer EXCEPT ![s] = KEEPALIVE_INTERVAL]
    /\ IF idle[s] >= PEER_DEAD_AFTER + KEEPALIVE_INTERVAL
       THEN /\ up' = [up EXCEPT ![s] = FALSE]
            /\ UNCHANGED <<profile, idle, lost, applied, since_switch>>
       ELSE /\ UNCHANGED up
            /\ \E got \in SUBSET KaFrames(s) :
                 Deliver(s, KaFrames(s), got) /\ FollowIn(got, profile, profile["client"])
    /\ UNCHANGED <<running, again, switches, stale>>

\* The keepalive task's tick.
KaTick(s) ==
    /\ Alive(s) /\ ka_timer[s] = 0
    /\ ka_timer' = [ka_timer EXCEPT ![s] = KEEPALIVE_INTERVAL]
    /\ IF idle[s] >= PEER_DEAD_AFTER
       THEN /\ up' = [up EXCEPT ![s] = FALSE]
            /\ UNCHANGED <<profile, idle, lost, applied, since_switch>>
       ELSE /\ UNCHANGED up
            /\ \E got \in SUBSET KaFrames(s) :
                 Deliver(s, KaFrames(s), got) /\ FollowIn(got, profile, profile["client"])
    /\ UNCHANGED <<running, again, switches, stale>>

\* A live switch of the client: shape, announce, and announce again after the limit.
ClientSwitch(p) ==
    /\ Alive("client")
    /\ switches < MaxSwitches
    /\ switches' = switches + 1
    /\ stale' = 0
    /\ LET prof == [profile EXCEPT !["client"] = p]
       IN IF Announced(p)
          THEN /\ again' = again \cup {[id |-> p, left |-> PEER_PROFILE_MIN_INTERVAL + 1]}
               /\ \E got \in SUBSET {"profile"} :
                    Deliver("client", {"profile"}, got) /\ FollowIn(got, prof, p)
          ELSE /\ profile' = prof
               /\ UNCHANGED <<again, idle, lost, applied, since_switch>>
    /\ UNCHANGED <<running, up, ka_timer>>

\* The delayed announcement: dropped when the client has moved on.
AnnounceAgain ==
    /\ \E a \in again :
         /\ a.left = 0
         /\ again' = again \ {a}
         /\ IF Alive("client") /\ profile["client"] = a.id
            THEN \E got \in SUBSET {"profile"} :
                   Deliver("client", {"profile"}, got) /\ FollowIn(got, profile, a.id)
            ELSE UNCHANGED <<profile, idle, lost, applied, since_switch>>
    /\ UNCHANGED <<running, up, ka_timer, switches, stale>>

\* The process of an end is gone: nothing is sent any more, nothing says so.
Stop(s) ==
    /\ MayStop /\ Alive(s) /\ running[Other(s)]
    /\ running' = [running EXCEPT ![s] = FALSE]
    /\ UNCHANGED <<profile, up, idle, ka_timer, lost, applied, since_switch, again, switches,
                   stale>>

MaxIdle == PEER_DEAD_AFTER + KEEPALIVE_INTERVAL + 1

\* Time goes on by one unit; the cover stream of a CBR sender arrives meanwhile.
Elapse ==
    /\ \A s \in Sides : Alive(s) => ka_timer[s] > 0
    /\ \A a \in again : a.left > 0
    /\ \E s \in Sides : Alive(s) /\ idle[s] < MaxIdle
    /\ ka_timer' = [s \in Sides |-> IF Alive(s) THEN ka_timer[s] - 1 ELSE ka_timer[s]]
    /\ idle' = [s \in Sides |->
                   IF ~Alive(s) THEN idle[s]
                   ELSE IF Alive(Other(s)) /\ Cbr(profile[Other(s)]) THEN 0
                   ELSE idle[s] + 1]
    /\ since_switch' = IF since_switch < PEER_PROFILE_MIN_INTERVAL THEN since_switch + 1
                       ELSE since_switch
    /\ again' = {[a EXCEPT !.left = @ - 1] : a \in again}
    /\ stale' = IF /\ Alive("client") /\ Alive("server")
                   /\ Announced(profile["client"]) /\ profile["server"] # profile["client"]
                THEN stale + 1 ELSE 0
    /\ UNCHANGED <<profile, running, up, lost, applied, switches>>

Next ==
    \/ \E s \in Sides : KaTick(s) \/ Stop(s)
    \/ \E p \in ClientProfiles : ClientSwitch(p)
    \/ AnnounceAgain
    \/ Elapse

Spec == Init /\ [][Next]_vars

------------------------------------------------------------------------------
TypeOK ==
    /\ profile \in [Sides -> Profiles]
    /\ running \in [Sides -> BOOLEAN] /\ up \in [Sides -> BOOLEAN]
    /\ idle \in [Sides -> 0 .. MaxIdle]
    /\ ka_timer \in [Sides -> 0 .. KEEPALIVE_INTERVAL]
    /\ lost \in [Sides -> 0 .. MaxLostInRow]
    /\ applied \in (Profiles \ {"custom"}) \cup {"none"}
    /\ since_switch \in 0 .. PEER_PROFILE_MIN_INTERVAL
    /\ again \subseteq [id : Profiles, left : 0 .. PEER_PROFILE_MIN_INTERVAL + 1]
    /\ switches \in 0 .. MaxSwitches
    /\ stale \in Nat

(***************************************************************************)
(* An idle tunnel whose two ends run is never given up: each end hears the *)
(* other within PEER_DEAD_AFTER, by keepalives or by cover traffic, across *)
(* live switches and the losses MaxLostInRow allows.                       *)
(***************************************************************************)
StaysUp == (\A s \in Sides : running[s]) => \A s \in Sides : up[s]

(***************************************************************************)
(* A vanished peer is noticed: no end stays up through more silence than   *)
(* the limit and the interval in which it looks.                           *)
(***************************************************************************)
DeadPeerNoticed ==
    \A s \in Sides : Alive(s) => idle[s] <= PEER_DEAD_AFTER + KEEPALIVE_INTERVAL

(***************************************************************************)
(* A switch the server did not get, or ignored as too soon, is made up for *)
(* by the announcements that repeat it: within one keepalive interval, and *)
(* when both happen to one switch, in the rate limit's time after that.    *)
(***************************************************************************)
SelfHeals == stale <= KEEPALIVE_INTERVAL + PEER_PROFILE_MIN_INTERVAL
=============================================================================
