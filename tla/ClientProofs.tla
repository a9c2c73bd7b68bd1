----------------------------- MODULE ClientProofs -----------------------------
(***************************************************************************)
(* What the graphical client leaves behind, for every set of servers,      *)
(* profiles and adapters, every number of tries and of overrides.          *)
(***************************************************************************)
EXTENDS ClientLifecycle, TLAPS

-----------------------------------------------------------------------------
(* Types of the DNS override *)

LEMMA DnsInitType == DnsInit => DnsTypeOK
<1> SUFFICES ASSUME DnsInit PROVE DnsTypeOK
  OBVIOUS
<1>1. SavedOK(Nothing)
  BY DEF SavedOK, Nothing
<1>2. up \subseteq Watched
  BY DEF DnsInit, Watched
<1>3. MaxGuards \in Nat
  BY ClientAssumption
<1>4. \A g \in Guards : SavedOK(saved[g]) /\ SavedOK(covered[g])
  BY <1>1 DEF DnsInit
<1>5. resolver \in [Places -> {"own", "ours", "broken"}]
  BY DEF DnsInit
<1>6. stop_flag \in [Guards -> BOOLEAN] /\ pass \in [Guards -> SUBSET Watched]
  BY DEF DnsInit
<1>7. DOMAIN saved = Guards /\ DOMAIN covered = Guards /\ lost_dns \subseteq Places
  BY DEF DnsInit
<1>8. guard \in 0..MaxGuards /\ installs \in 0..MaxGuards
  BY <1>3 DEF DnsInit
<1>9. platform \in {"linux", "windows"}
  BY DEF DnsInit
<1> QED BY <1>2, <1>4, <1>5, <1>6, <1>7, <1>8, <1>9 DEF DnsTypeOK

\* What a step may do to the DNS variables.
DnsStep ==
    InstallDns \/ InstallDnsFails \/ DropDns \/ LoseDns \/ DnsNext \/ UNCHANGED dns_vars

LEMMA DnsStepType == DnsTypeOK /\ DnsStep => DnsTypeOK'
<1> SUFFICES ASSUME DnsTypeOK, DnsStep PROVE DnsTypeOK'
  OBVIOUS
<1> USE ClientAssumption
<1>a. Present \subseteq Places
  BY DEF DnsTypeOK, Present, Places, Watched
<1>b. SavedOK(Nothing)
  BY DEF SavedOK, Nothing
<1>c. MaxGuards \in Nat
  OBVIOUS
<1>1. CASE InstallDns
  <2>1. Places' = Places /\ Watched' = Watched
    BY <1>1 DEF InstallDns, Places, Watched
  <2>2. guard' \in Guards /\ guard' \in 0..MaxGuards /\ installs' \in 0..MaxGuards
    BY <1>1, <1>c DEF InstallDns, DnsTypeOK, Guards
  <2>3. resolver' \in [Places -> {"own", "ours", "broken"}]
    BY <1>1 DEF InstallDns, DnsTypeOK
  <2>4. SavedOK([a \in Present |-> resolver[a]])
    BY <1>a DEF SavedOK, DnsTypeOK
  <2>5. (platform = "linux") \in BOOLEAN
    OBVIOUS
  <2>6. stop_flag' \in [Guards -> BOOLEAN]
    BY <1>1, <2>5 DEF InstallDns, DnsTypeOK
  <2>7. DOMAIN saved' = Guards /\ \A g \in Guards : SavedOK(saved'[g])
    BY <1>1, <2>2, <2>4 DEF InstallDns, DnsTypeOK
  <2> QED BY <1>1, <2>1, <2>2, <2>3, <2>6, <2>7 DEF InstallDns, DnsTypeOK, SavedOK
<1>2. CASE InstallDnsFails
  BY <1>2 DEF InstallDnsFails, DnsTypeOK, SavedOK, Places, Watched
<1>3. CASE DropDns
  <2>1. CASE guard = 0
    BY <1>3, <2>1 DEF DropDns, dns_vars, DnsTypeOK, SavedOK, Places, Watched
  <2>2. CASE guard # 0
    <3>1. guard \in Guards
      BY <2>2, <1>c DEF DnsTypeOK, Guards
    <3>2. Places' = Places /\ Watched' = Watched
      BY <1>3, <2>2 DEF DropDns, Places, Watched
    <3>3. resolver' \in [Places -> {"own", "ours", "broken"}]
      <4>1. SavedOK(saved[guard])
        BY <3>1 DEF DnsTypeOK
      <4>2. PICK back, cut \in SUBSET DOMAIN saved[guard] :
                resolver' = [a \in Places |-> IF a \in cut THEN "broken" ELSE
                                              IF a \in back THEN saved[guard][a] ELSE resolver[a]]
        BY <1>3, <2>2 DEF DropDns
      <4> QED BY <4>1, <4>2 DEF DnsTypeOK, SavedOK
    <3>4. DOMAIN saved' = Guards /\ \A g \in Guards : SavedOK(saved'[g])
      BY <1>3, <1>b, <2>2 DEF DropDns, DnsTypeOK
    <3>5. lost_dns' \subseteq Places'
      <4>1. SavedOK(saved[guard]) /\ SavedOK(covered[guard])
        BY <3>1 DEF DnsTypeOK
      <4> QED BY <1>3, <2>2, <3>2, <4>1 DEF DropDns, DnsTypeOK, SavedOK
    <3>6. covered' = covered /\ pass' = pass /\ up' = up /\ platform' = platform
          /\ installs' = installs /\ guard' = 0
      BY <1>3, <2>2 DEF DropDns
    <3>7. stop_flag' \in [Guards -> BOOLEAN]
      BY <1>3, <2>2 DEF DropDns, DnsTypeOK
    <3>8. (\A g \in Guards : SavedOK(saved[g]) /\ SavedOK(covered[g]))'
      BY <3>2, <3>4, <3>6 DEF DnsTypeOK, SavedOK
    <3> QED BY <1>c, <3>2, <3>3, <3>4, <3>5, <3>6, <3>7, <3>8 DEF DnsTypeOK
  <2> QED BY <2>1, <2>2
<1>4. CASE LoseDns
  <2>1. Places' = Places /\ Watched' = Watched
    BY <1>4 DEF LoseDns, Places, Watched
  <2>2. lost_dns' \subseteq Places
    <3>1. guard # 0 => guard \in Guards
      BY <1>c DEF DnsTypeOK, Guards
    <3> QED BY <1>4, <3>1 DEF LoseDns, DnsTypeOK, SavedOK
  <2> QED BY <1>4, <1>b, <1>c, <2>1, <2>2 DEF LoseDns, DnsTypeOK, SavedOK
<1>5. ASSUME NEW g \in Guards, RefreshTick(g) PROVE DnsTypeOK'
  BY <1>5 DEF RefreshTick, DnsTypeOK, SavedOK, Places, Watched
<1>6. ASSUME NEW g \in Guards, RefreshSave(g) PROVE DnsTypeOK'
  <2>1. Places' = Places /\ Watched' = Watched
    BY <1>6 DEF RefreshSave, Places, Watched
  <2> DEFINE new == [a \in DOMAIN saved[g] \cup DOMAIN covered[g] |->
                        IF a \in DOMAIN covered[g] THEN covered[g][a] ELSE saved[g][a]]
  <2>2. SavedOK(saved[g]) /\ SavedOK(covered[g])
    BY DEF DnsTypeOK
  <2>3. SavedOK(new)
    BY <2>2 DEF SavedOK
  <2>4. saved' = [saved EXCEPT ![g] = new] /\ covered' = [covered EXCEPT ![g] = Nothing]
    BY <1>6 DEF RefreshSave
  <2> HIDE DEF new
  <2>5. (\A h \in Guards : SavedOK(saved[h]) /\ SavedOK(covered[h]))'
    BY <1>b, <2>1, <2>3, <2>4 DEF DnsTypeOK, SavedOK
  <2> QED BY <1>6, <2>1, <2>4, <2>5 DEF RefreshSave, DnsTypeOK
<1>7. ASSUME NEW g \in Guards, NEW a \in Adapters, RefreshCover(g, a) PROVE DnsTypeOK'
  <2>1. Places' = Places /\ Watched' = Watched
    BY <1>7 DEF RefreshCover, Places, Watched
  <2>2. pass' \in [Guards -> SUBSET Watched]
    BY <1>7 DEF RefreshCover, DnsTypeOK, Watched
  <2>3. CASE UNCHANGED <<resolver, covered, lost_dns>>
    BY <1>7, <2>1, <2>2, <2>3 DEF RefreshCover, DnsTypeOK, SavedOK
  <2>4. CASE Cover(g, a)
    <3>1. a \in Places
      BY <1>7 DEF RefreshCover, DnsTypeOK, Places, Watched
    <3>2. SavedOK([b \in {a} |-> resolver[a]])
      BY <3>1 DEF SavedOK, DnsTypeOK
    <3>3. (\A h \in Guards : SavedOK(saved[h]) /\ SavedOK(covered[h]))'
      BY <1>7, <2>1, <2>4, <3>2 DEF RefreshCover, Cover, DnsTypeOK, SavedOK
    <3> QED BY <1>7, <2>1, <2>2, <2>4, <3>1, <3>3 DEF RefreshCover, Cover, DnsTypeOK
  <2> QED BY <1>7, <2>3, <2>4 DEF RefreshCover
<1>8. ASSUME NEW a \in Adapters, AdapterChange(a) PROVE DnsTypeOK'
  BY <1>8 DEF AdapterChange, DnsTypeOK, SavedOK, Places, Watched
<1>9. CASE UNCHANGED dns_vars
  BY <1>9 DEF dns_vars, DnsTypeOK, SavedOK, Places, Watched
<1> QED BY <1>1, <1>2, <1>3, <1>4, <1>5, <1>6, <1>7, <1>8, <1>9 DEF DnsStep, DnsNext

-----------------------------------------------------------------------------
(* Types of the client *)

\* The steps of the form, which leave everything else alone.
Edit ==
    \/ \E c \in {"split", "full"}, s \in Servers, p \in Profiles, on \in BOOLEAN :
          LoadConfig(c, s, p, on)
    \/ \E s \in Servers : ServerChanged(s)
    \/ \E p \in Profiles : ProfileChanged(p)
    \/ \E on \in BOOLEAN : ToggleKillSwitch(on)

\* What no edit touches.
rest == <<running, ks, ks_orphan, client, attempt, tunnel, tun, fw, routes, route_guard, armed,
          seen, lost_routes, dns_vars>>

LEMMA EditRest == ASSUME Edit PROVE UNCHANGED rest
  BY DEF Edit, rest, LoadConfig, ServerChanged, ProfileChanged, ToggleKillSwitch

\* The DNS part of every step is one of the DNS steps.
LEMMA DnsPart == ASSUME [Next]_vars PROVE DnsStep
<1>1. CASE Edit
  BY <1>1, EditRest DEF rest, DnsStep
<1>2. CASE Connect \/ CreateTun \/ Engage \/ EngageFails \/ Handshake \/ HandshakeFails
  BY <1>2 DEF DnsStep, Connect, CreateTun, Engage, EngageFails, Handshake, HandshakeFails
<1>3. CASE RoutePin \/ (\E half \in Halves : RouteHalf(half) \/ RouteFails(half)) \/ Connected
  BY <1>3 DEF DnsStep, RoutePin, RouteHalf, RouteFails, Connected
<1>4. CASE Dns \/ Tick \/ Disconnect \/ Close \/ Crash
  BY <1>4 DEF DnsStep, Dns, Tick, Disconnect, Close, Crash
<1>5. CASE TunnelStops \/ TunReleased \/ DisableKillSwitch \/ KillSwitchOff \/ Launch
  BY <1>5 DEF DnsStep, TunnelStops, TunReleased, DisableKillSwitch, KillSwitchOff, Launch
<1>6. CASE DnsNext
  BY <1>6 DEF DnsStep
<1>7. CASE UNCHANGED vars
  BY <1>7 DEF DnsStep, vars
<1> QED BY <1>1, <1>2, <1>3, <1>4, <1>5, <1>6, <1>7 DEF Next, Edit

\* An attempt knows its server as long as it needs it.
Named == attempt.step \notin {"none", "dns", "done"} => attempt.server \in Servers

TInv == TypeOK /\ Named

LEMMA InitType == Init => TInv
<1> SUFFICES ASSUME Init PROVE TInv
  OBVIOUS
<1>1. DnsTypeOK
  BY DnsInitType DEF Init
<1>2. 0 \in 0..(MaxTries - 1)
  BY ClientAssumption DEF MaxTries
<1>3. attempt \in AttemptType
  BY <1>2 DEF Init, NoAttempt, AttemptType
<1>4. DefaultProfile \in Profiles
  BY ClientAssumption DEF DefaultProfile
<1> QED BY <1>1, <1>3, <1>4 DEF Init, TInv, Named, NoAttempt, TypeOK, NoFw, FwType

LEMMA StepTypeOK == TInv /\ [Next]_vars => TypeOK'
<1> SUFFICES ASSUME TInv, TypeOK, [Next]_vars PROVE TypeOK'
  BY DEF TInv
<1>d. DnsTypeOK'
  BY DnsPart, DnsStepType DEF TypeOK
<1>t. 0 \in 0..(MaxTries - 1) /\ MaxTries \in Nat /\ EngageTries <= MaxTries /\ RouteTries <= MaxTries
  BY ClientAssumption DEF MaxTries
<1>n. NoAttempt \in AttemptType /\ NoFw \in FwType /\ DefaultProfile \in Profiles
  BY <1>t, ClientAssumption DEF NoAttempt, AttemptType, NoFw, FwType, DefaultProfile
<1>s. Spent(attempt) \in AttemptType
  BY DEF TypeOK, AttemptType, Spent
<1>w. ASSUME Teardown PROVE fw' \in FwType
  BY <1>n, <1>w DEF Teardown, TypeOK, FwType
<1>r. ASSUME NEW pin, RemoveRoutes(pin)
      PROVE  routes' \subseteq Halves \cup Servers /\ lost_routes' \subseteq Halves \cup Servers
  BY <1>r DEF RemoveRoutes, TypeOK
<1>g. ASSUME DropRoutes
      PROVE  /\ routes' \subseteq Halves \cup Servers /\ lost_routes' \subseteq Halves \cup Servers
             /\ route_guard' \in {"none", "unpinned"} \cup Servers
  BY <1>g, <1>r DEF DropRoutes, TypeOK
<1>o. ToDns \in AttemptType
  BY <1>t DEF TypeOK, AttemptType, ToDns
<1>u. Unbound \subseteq Halves \cup Servers
  BY DEF Unbound, TypeOK
<1>1. CASE Edit
  <2>1. /\ config' \in {"none", "split", "full"} /\ server' \in Servers \cup {"none"}
        /\ profile' \in Profiles /\ kill_switch' \in BOOLEAN
    BY <1>1 DEF Edit, LoadConfig, ServerChanged, ProfileChanged, ToggleKillSwitch, TypeOK
  <2>2. shaping' \in Profiles \cup {"none"}
    BY <1>1 DEF Edit, LoadConfig, ServerChanged, ProfileChanged, ToggleKillSwitch, TypeOK
  <2> QED BY <1>1, <1>d, <2>1, <2>2, EditRest DEF rest, TypeOK
<1>2. CASE Connect
  <2>1. attempt' \in AttemptType
    <3>1. (config = "full") \in BOOLEAN
      OBVIOUS
    <3>2. attempt' = [step |-> "tun", want |-> kill_switch, full |-> config = "full",
                      server |-> server, profile |-> profile, ks |-> "none", tries |-> 0,
                      pinned |-> FALSE, ok |-> FALSE]
      BY <1>2 DEF Connect, NoAttempt
    <3> QED BY <1>t, <3>1, <3>2 DEF TypeOK, AttemptType
  <2> QED BY <1>2, <1>d, <2>1 DEF Connect, TypeOK, fields
<1>3. CASE CreateTun
  <2>1. attempt' \in AttemptType
    BY <1>3, <1>s DEF CreateTun, TypeOK, AttemptType
  <2>2. tun' \in BOOLEAN
    BY <1>3 DEF CreateTun, TypeOK
  <2> QED BY <1>3, <1>d, <2>1, <2>2 DEF CreateTun, TypeOK, fields
<1>4. CASE Engage
  <2>1. attempt' \in AttemptType
    BY <1>4, <1>t DEF Engage, TypeOK, AttemptType
  <2>2. fw' \in FwType
    BY <1>4 DEF Engage, TypeOK, AttemptType, FwType
  <2>3. armed' \in BOOLEAN /\ seen' \in BOOLEAN
    BY <1>4 DEF Engage
  <2> QED BY <1>4, <1>d, <2>1, <2>2, <2>3 DEF Engage, TypeOK, fields
<1>5. CASE EngageFails
  <2>1. attempt' \in AttemptType
    <3>1. attempt.tries + 1 < EngageTries => attempt.tries + 1 \in 0..(MaxTries - 1)
      BY <1>t, ClientAssumption DEF TypeOK, AttemptType
    <3> QED BY <1>5, <1>t, <3>1 DEF EngageFails, TypeOK, AttemptType
  <2>2. fw' \in FwType
    BY <1>5 DEF EngageFails, FailedEngage, TypeOK, AttemptType, FwType
  <2> QED BY <1>5, <1>d, <2>1, <2>2 DEF EngageFails, TypeOK, fields
<1>6. CASE Handshake
  <2>1. attempt' \in AttemptType
    BY <1>6, <1>s DEF Handshake, TypeOK, AttemptType
  <2>2. shaping' \in Profiles \cup {"none"}
    BY <1>6 DEF Handshake, TypeOK, AttemptType
  <2> QED BY <1>6, <1>d, <2>1, <2>2 DEF Handshake, TypeOK, fields
<1>7. CASE HandshakeFails
  <2>1. attempt' \in AttemptType
    BY <1>7, <1>s DEF HandshakeFails, TypeOK, AttemptType
  <2> QED BY <1>7, <1>d, <2>1 DEF HandshakeFails, TypeOK, fields
<1>8. CASE RoutePin
  <2>1. attempt' \in AttemptType
    BY <1>8 DEF RoutePin, TypeOK, AttemptType
  <2>2. routes' \subseteq Halves \cup Servers
    BY <1>8 DEF RoutePin, At, TInv, Named, TypeOK
  <2> QED BY <1>8, <1>d, <2>1, <2>2 DEF RoutePin, TypeOK, fields
<1>9. ASSUME NEW half \in Halves, RouteHalf(half) PROVE TypeOK'
  <2>1. attempt' \in AttemptType
    <3>1. CASE half = "lo"
      BY <1>9, <3>1 DEF RouteHalf, TypeOK, AttemptType
    <3>2. CASE half # "lo"
      BY <1>9, <1>o, <3>2 DEF RouteHalf
    <3> QED BY <3>1, <3>2
  <2>2. route_guard' \in {"none", "unpinned"} \cup Servers
    BY <1>9 DEF RouteHalf, At, Halves, Pin, TInv, Named, TypeOK
  <2> QED BY <1>9, <1>d, <2>1, <2>2 DEF RouteHalf, Halves, TypeOK, fields
<1>10. ASSUME NEW half \in Halves, RouteFails(half) PROVE TypeOK'
  <2>1. attempt' \in AttemptType
    <3>1. attempt.tries + 1 < RouteTries => attempt.tries + 1 \in 0..(MaxTries - 1)
      BY <1>t, ClientAssumption DEF TypeOK, AttemptType
    <3> QED BY <1>10, <1>o, <3>1 DEF RouteFails, TypeOK, AttemptType
  <2>2. routes' \subseteq Halves \cup Servers /\ lost_routes' \subseteq Halves \cup Servers
    BY <1>10, <1>r DEF RouteFails
  <2> QED BY <1>10, <1>d, <2>1, <2>2 DEF RouteFails, TypeOK, fields
<1>11. CASE Dns
  <2>1. attempt' \in AttemptType
    BY <1>11 DEF Dns, TypeOK, AttemptType
  <2> QED BY <1>11, <1>d, <2>1 DEF Dns, TypeOK, fields
<1>12. CASE Connected
  <2>1. ks' \in BOOLEAN /\ ks_orphan' \in BOOLEAN
    BY <1>12 DEF Connected
  <2>2. client' \in BOOLEAN
    BY <1>12 DEF Connected, TypeOK, AttemptType
  <2> QED BY <1>12, <1>d, <1>n, <2>1, <2>2 DEF Connected, TypeOK, fields
<1>13. CASE TunnelStops
  BY <1>13, <1>d, <1>u DEF TunnelStops, TypeOK, fields
<1>23. CASE TunReleased
  BY <1>23, <1>d, <1>u DEF TunReleased, TypeOK, fields
<1>14. CASE Tick
  BY <1>14, <1>d, <1>g DEF Tick, TypeOK, fields
<1>15. CASE Disconnect
  <2>1. fw' \in FwType /\ seen' \in BOOLEAN /\ armed' \in BOOLEAN
    BY <1>15, <1>w DEF Disconnect, TypeOK, FwType
  <2> QED BY <1>15, <1>d, <1>g, <2>1 DEF Disconnect, TypeOK, fields
<1>16. CASE DisableKillSwitch
  <2>1. fw' \in FwType /\ seen' \in BOOLEAN
    BY <1>16, <1>w DEF DisableKillSwitch, TypeOK, FwType
  <2> QED BY <1>16, <1>d, <2>1 DEF DisableKillSwitch, TypeOK, fields
<1>17. CASE KillSwitchOff
  <2>1. fw' \in FwType
    BY <1>17, <1>w DEF KillSwitchOff
  <2>2. armed' \in BOOLEAN
    BY <1>17 DEF KillSwitchOff
  <2> QED BY <1>17, <1>d, <2>1, <2>2 DEF KillSwitchOff, TypeOK, fields
<1>18. CASE Close
  BY <1>18, <1>d, <1>g, <1>n DEF Close, Forget, TypeOK, fields
<1>19. CASE Crash
  <2>1. lost_routes' \subseteq Halves \cup Servers
    BY <1>19, <1>u DEF Crash
  <2> QED BY <1>19, <1>d, <1>n, <1>u, <2>1 DEF Crash, Forget, TypeOK, fields
<1>20. CASE Launch
  <2>1. ks_orphan' \in BOOLEAN /\ seen' \in BOOLEAN
    BY <1>20 DEF Launch, is_engaged
  <2> QED BY <1>20, <1>d, <2>1 DEF Launch, TypeOK, fields
<1>21. CASE DnsNext /\ running /\ UNCHANGED app_vars
  BY <1>21, <1>d DEF app_vars, TypeOK
<1>22. CASE UNCHANGED vars
  BY <1>22, <1>d DEF vars, app_vars, TypeOK
<1> QED BY <1>1, <1>2, <1>3, <1>4, <1>5, <1>6, <1>7, <1>8, <1>9, <1>10, <1>11, <1>12, <1>13, <1>14,
           <1>15, <1>16, <1>17, <1>18, <1>19, <1>20, <1>21, <1>22, <1>23 DEF Next, Edit

LEMMA StepType == TInv /\ [Next]_vars => TInv'
<1> SUFFICES ASSUME TInv, TypeOK, Named, [Next]_vars PROVE Named'
  BY StepTypeOK DEF TInv
<1> USE DEF Named
<1>a. attempt \in AttemptType
  BY DEF TypeOK
<1>1. CASE Edit
  BY <1>1, EditRest DEF rest
<1>2. CASE Connect
  <2>1. attempt'.server = server /\ server \in Servers
    BY <1>2 DEF Connect, NoAttempt, TypeOK
  <2> QED BY <2>1
<1>3. CASE CreateTun \/ Engage \/ EngageFails
  BY <1>3, <1>a DEF CreateTun, Engage, EngageFails, At, Spent, AttemptType
<1>4. CASE Handshake \/ HandshakeFails
  BY <1>4, <1>a DEF Handshake, HandshakeFails, At, Spent, AttemptType
<1>5. CASE RoutePin
  BY <1>5, <1>a DEF RoutePin, At, AttemptType
<1>6. ASSUME NEW half \in Halves, RouteHalf(half) \/ RouteFails(half) PROVE Named'
  BY <1>6, <1>a DEF RouteHalf, RouteFails, ToDns, At, Halves, AttemptType
<1>7. CASE Dns \/ Connected \/ Crash
  BY <1>7, <1>a DEF Dns, Connected, Crash, NoAttempt, AttemptType
<1>8. CASE TunnelStops \/ TunReleased \/ Tick \/ Disconnect \/ DisableKillSwitch \/ KillSwitchOff
  BY <1>8 DEF TunnelStops, TunReleased, Tick, Disconnect, DisableKillSwitch, KillSwitchOff
<1>9. CASE Close \/ Launch \/ (DnsNext /\ running /\ UNCHANGED app_vars) \/ UNCHANGED vars
  BY <1>9 DEF Close, Launch, app_vars, vars
<1> QED BY <1>1, <1>2, <1>3, <1>4, <1>5, <1>6, <1>7, <1>8, <1>9 DEF Next, Edit

LEMMA TypeInvariance == Spec => []TInv
  BY InitType, StepType, PTL DEF Spec

\* The client's variables keep their types, whatever fails and whenever the process dies.
THEOREM TypeCorrect == Spec => []TypeOK
<1>1. TInv => TypeOK
  BY DEF TInv
<1> QED BY <1>1, TypeInvariance, PTL

-----------------------------------------------------------------------------
(* The kill switch *)

\* A switch that was seen is known to the window, or its engagement is on its way there.
Known == running /\ seen => ks \/ ks_orphan \/ attempt.ks = "ok"

\* No attempt has engaged a switch before it has a TUN.
NotYet == attempt.step \in {"none", "tun"} => attempt.ks # "ok"

SwitchInv == FailClosed /\ Known /\ NotYet

\* The variables that SwitchInv is about.
switch_vars == <<running, fw, seen, ks, ks_orphan, attempt, armed>>

LEMMA InitSwitch == Init => SwitchInv
  BY DEF Init, SwitchInv, FailClosed, Known, NotYet, NoFw, NoAttempt

LEMMA StepSwitch == TypeOK /\ SwitchInv /\ [Next]_vars => SwitchInv'
<1> SUFFICES ASSUME TypeOK, SwitchInv, [Next]_vars PROVE SwitchInv'
  OBVIOUS
<1> USE DEF SwitchInv, FailClosed, Known, NotYet
<1>a. attempt \in AttemptType /\ fw \in FwType
  BY DEF TypeOK
<1>b. NoAttempt.step = "none" /\ NoAttempt.ks = "none"
  BY DEF NoAttempt
<1>c. ASSUME UNCHANGED switch_vars PROVE SwitchInv'
  BY <1>c DEF switch_vars
<1>1. CASE Edit
  BY <1>1, EditRest DEF rest
<1>2. CASE Connect
  BY <1>2, <1>b DEF Connect, connecting, NoAttempt
<1>3. CASE CreateTun
  BY <1>3, <1>a DEF CreateTun, At, Spent, AttemptType
<1>4. CASE Engage
  BY <1>4, <1>a DEF Engage, AttemptType
<1>5. CASE EngageFails
  <2>1. fw'.block = fw.block
    BY <1>5, <1>a DEF EngageFails, FailedEngage, FwType
  <2>2. attempt'.ks = attempt.ks /\ attempt'.step \in {"engage", "handshake"}
    BY <1>5, <1>a DEF EngageFails, At, AttemptType
  <2> QED BY <1>5, <2>1, <2>2 DEF EngageFails
<1>6. CASE Handshake
  BY <1>6, <1>a DEF Handshake, At, Spent, AttemptType
<1>7. CASE HandshakeFails
  BY <1>7, <1>a DEF HandshakeFails, At, Spent, AttemptType
<1>8. CASE RoutePin
  BY <1>8, <1>a DEF RoutePin, AttemptType
<1>9. ASSUME NEW half \in Halves, RouteHalf(half) PROVE SwitchInv'
  <2>1. attempt'.ks = attempt.ks /\ attempt'.step \in {"hi", "dns"}
    BY <1>9, <1>a DEF RouteHalf, ToDns, AttemptType
  <2> QED BY <1>9, <2>1 DEF RouteHalf, At, Halves
<1>10. ASSUME NEW half \in Halves, RouteFails(half) PROVE SwitchInv'
  <2>1. attempt'.ks = attempt.ks /\ attempt'.step \in {"pin", "dns"}
    BY <1>10, <1>a DEF RouteFails, ToDns, AttemptType
  <2> QED BY <1>10, <2>1 DEF RouteFails, At, Halves
<1>11. CASE Dns
  BY <1>11, <1>a DEF Dns, AttemptType
<1>12. CASE Connected
  BY <1>12, <1>b DEF Connected
<1>13. CASE TunnelStops \/ TunReleased \/ Tick
  BY <1>13 DEF TunnelStops, TunReleased, Tick
<1>14. CASE Disconnect
  BY <1>14 DEF Disconnect
<1>15. CASE DisableKillSwitch
  BY <1>15 DEF DisableKillSwitch
<1>16. CASE KillSwitchOff
  <2>1. fw'.block => fw.block
    BY <1>16, <1>a DEF KillSwitchOff, Teardown, NoFw, FwType
  <2> QED BY <1>16, <2>1 DEF KillSwitchOff
<1>17. CASE Close \/ Crash
  BY <1>17, <1>b DEF Close, Crash
<1>18. CASE Launch
  BY <1>18 DEF Launch
<1>19. CASE DnsNext /\ running /\ UNCHANGED app_vars
  BY <1>19, <1>c DEF app_vars, switch_vars
<1>20. CASE UNCHANGED vars
  BY <1>20, <1>c DEF vars, app_vars, switch_vars
<1> QED BY <1>1, <1>2, <1>3, <1>4, <1>5, <1>6, <1>7, <1>8, <1>9, <1>10, <1>11, <1>12, <1>13, <1>14,
           <1>15, <1>16, <1>17, <1>18, <1>19, <1>20 DEF Next, Edit

\* The inductive invariant of the kill switch.
THEOREM SwitchInvariance == Spec => []SwitchInv
  BY InitSwitch, StepSwitch, TypeCorrect, PTL DEF Spec

(***************************************************************************)
(* The switch is fail-closed: only the user's Disconnect, DisableKillSwitch *)
(* or `killswitch off` opens it (killswitch.rs, KillSwitch has no Drop).    *)
(***************************************************************************)
THEOREM SwitchFailsClosed == Spec => []FailClosed
<1>1. SwitchInv => FailClosed
  BY DEF SwitchInv
<1> QED BY <1>1, SwitchInvariance, PTL

(***************************************************************************)
(* A user without a tunnel is offered the way back (the banner of the      *)
(* view) from every switch that the process engaged, or found at its       *)
(* start, and has not taken down.                                          *)
(***************************************************************************)
THEOREM WayBackAlwaysOffered == Spec => []WayBackOffered
<1>1. SwitchInv => WayBackOffered
  BY DEF SwitchInv, Known, NotYet, WayBackOffered, connecting, ks_stranded
<1> QED BY <1>1, SwitchInvariance, PTL

-----------------------------------------------------------------------------
(* The routes *)

\* There is a client or an attempt, never both.
Alone == client => attempt.step = "none"

\* How far an attempt is, and what it has by then.
Progress ==
    /\ attempt.step \in {"pin", "lo", "hi", "dns"} => attempt.ok
    /\ attempt.step \notin {"lo", "hi"} => ~attempt.pinned

\* A guard belongs to the client, or to an attempt that will be one.
GuardOwned == route_guard # "none" => client \/ (attempt.step \in {"dns", "done"} /\ attempt.ok)

\* Every route of ours is known to be lost, or has someone to take it away.
PinKnown ==
    \A s \in routes \cap Servers :
        s \in lost_routes \/ (attempt.pinned /\ s = attempt.server) \/ s = route_guard

HalvesKnown ==
    \A h \in routes \cap Halves : h \in lost_routes \/ route_guard # "none" \/ attempt.step = "hi"

\* The same of the DNS guard.
DnsOwned == guard # 0 => client \/ (attempt.step = "done" /\ attempt.ok)

OwnInv == Alone /\ Progress /\ GuardOwned /\ PinKnown /\ HalvesKnown /\ DnsOwned

\* What a removal leaves was lost before, or is none of the routes it names, or is lost now.
LEMMA RemovalLeaves ==
    ASSUME NEW pin, RemoveRoutes(pin)
    PROVE  /\ routes' \subseteq routes
           /\ \A r \in routes' : r \in lost_routes \/ r \in Removed(pin) => r \in lost_routes'
  BY DEF RemoveRoutes

LEMMA Apart == Servers \cap Halves = {} /\ "none" \notin Servers /\ "unpinned" \notin Servers
  BY ClientAssumption DEF Halves

LEMMA InitOwn == Init => OwnInv
  BY DEF Init, DnsInit, OwnInv, Alone, Progress, GuardOwned, PinKnown, HalvesKnown, DnsOwned, NoAttempt

LEMMA StepOwn == TInv /\ OwnInv /\ [Next]_vars => OwnInv'
<1> SUFFICES ASSUME TInv, OwnInv, [Next]_vars PROVE OwnInv'
  OBVIOUS
<1> USE DEF OwnInv, Alone, Progress, GuardOwned, PinKnown, HalvesKnown, DnsOwned
<1>a. attempt \in AttemptType /\ routes \subseteq Halves \cup Servers
  BY DEF TInv, TypeOK
<1>b. NoAttempt.step = "none" /\ NoAttempt.pinned = FALSE
  BY DEF NoAttempt
<1>c. Unbound \subseteq routes \cap Servers /\ Unbound \cap Halves = {}
  BY <1>a DEF Unbound
<1>d. ASSUME DropDns PROVE guard' = 0
  BY <1>d DEF DropDns, dns_vars
<1>e. ASSUME DropRoutes, attempt.step = "none"
      PROVE  route_guard' = "none" /\ routes' \subseteq lost_routes'
  <2>1. CASE route_guard = "none"
    BY <1>a, <1>e, <2>1, Apart DEF DropRoutes
  <2>2. CASE route_guard # "none"
    <3>1. RemoveRoutes(route_guard)
      BY <1>e, <2>2 DEF DropRoutes
    <3>2. \A r \in routes : r \in lost_routes \/ r \in Removed(route_guard)
      BY <1>a, <1>e DEF Removed
    <3> QED BY <1>e, <3>1, <3>2, RemovalLeaves DEF DropRoutes
  <2> QED BY <2>1, <2>2
<1>1. CASE Edit
  BY <1>1, EditRest DEF rest, dns_vars
<1>2. CASE Connect
  <2>1. /\ attempt.step = "none" /\ attempt'.step = "tun" /\ ~attempt'.pinned /\ ~client
        /\ UNCHANGED <<client, routes, route_guard, lost_routes, guard>>
    BY <1>2 DEF Connect, connecting, NoAttempt, dns_vars
  <2> QED BY <2>1
<1>3. CASE CreateTun
  BY <1>3, <1>a DEF CreateTun, At, Spent, AttemptType, dns_vars
<1>4. CASE Engage \/ EngageFails
  <2>1. /\ attempt'.step \in {"engage", "handshake"} /\ attempt'.ok = attempt.ok
        /\ attempt'.pinned = attempt.pinned
    BY <1>4, <1>a DEF Engage, EngageFails, At, AttemptType
  <2>2. UNCHANGED <<client, routes, route_guard, lost_routes, guard>> /\ attempt.step = "engage"
    BY <1>4 DEF Engage, EngageFails, At, dns_vars
  <2> QED BY <1>4, <2>1, <2>2
<1>5. CASE Handshake
  BY <1>5, <1>a DEF Handshake, At, Spent, AttemptType, dns_vars
<1>6. CASE HandshakeFails
  BY <1>6, <1>a DEF HandshakeFails, At, Spent, AttemptType, dns_vars
<1>7. CASE RoutePin
  <2>1. /\ attempt.step = "pin" /\ attempt'.step = "lo" /\ attempt'.ok = attempt.ok /\ ~attempt.pinned
        /\ attempt'.server = attempt.server
        /\ UNCHANGED <<client, route_guard, lost_routes, guard>>
    BY <1>7, <1>a DEF RoutePin, At, AttemptType, dns_vars
  <2>2. attempt.server \in Servers
    BY <2>1 DEF TInv, Named
  <2>3. \/ attempt'.pinned /\ routes' = routes \cup {attempt.server}
        \/ routes' = routes
    BY <1>7, <1>a DEF RoutePin, AttemptType
  <2> QED BY <2>1, <2>2, <2>3, Apart
<1>8. ASSUME NEW half \in Halves, RouteHalf(half) PROVE OwnInv'
  <2>1. /\ UNCHANGED <<client, lost_routes, guard>> /\ attempt.step = half /\ attempt.ok
        /\ routes' = routes \cup {half} /\ half \notin Servers /\ half \in {"lo", "hi"}
    BY <1>8, Apart DEF RouteHalf, At, Halves, dns_vars
  <2>2. CASE half = "lo"
    <3>1. attempt'.step = "hi" /\ attempt'.ok /\ attempt'.pinned = attempt.pinned
          /\ attempt'.server = attempt.server /\ route_guard' = route_guard
      BY <1>8, <1>a, <2>1, <2>2 DEF RouteHalf, AttemptType
    <3> QED BY <2>1, <2>2, <3>1
  <2>3. CASE half = "hi"
    <3>1. attempt'.step = "dns" /\ attempt'.ok /\ ~attempt'.pinned /\ route_guard' = Pin
      BY <1>8, <1>a, <2>1, <2>3 DEF RouteHalf, ToDns, AttemptType
    <3>2. route_guard' # "none" /\ (attempt.pinned => route_guard' = attempt.server)
      BY <2>1, <2>3, <3>1, Apart DEF Pin, TInv, Named
    <3>3. route_guard = "none"
      BY <2>1, <2>3
    <3> QED BY <2>1, <3>1, <3>2, <3>3, Apart
  <2> QED BY <2>1, <2>2, <2>3
<1>9. ASSUME NEW half \in Halves, RouteFails(half) PROVE OwnInv'
  <2>1. /\ attempt.step \in {"lo", "hi"} /\ attempt.ok /\ route_guard = "none" /\ guard = 0 /\ ~client
        /\ RemoveRoutes(Pin)
    BY <1>9 DEF RouteFails, At, Halves
  <2>2. \A r \in routes : r \in lost_routes \/ r \in Removed(Pin)
    BY <1>a, <2>1, Apart DEF Removed, Pin
  <2>3. routes' \subseteq lost_routes'
    BY <2>1, <2>2, RemovalLeaves
  <2>4. attempt'.step \in {"pin", "dns"} /\ attempt'.ok = attempt.ok /\ ~attempt'.pinned
    BY <1>9, <1>a DEF RouteFails, ToDns, AttemptType
  <2> QED BY <1>9, <2>1, <2>3, <2>4 DEF RouteFails, dns_vars
<1>10. CASE Dns
  BY <1>10, <1>a DEF Dns, At, AttemptType
<1>11. CASE Connected
  BY <1>11, <1>b DEF Connected, At, dns_vars
<1>12. CASE TunnelStops \/ TunReleased
  <2>1. /\ UNCHANGED <<client, attempt, route_guard, guard>>
        /\ routes' = Unbound /\ lost_routes' = lost_routes \ Halves
    BY <1>12 DEF TunnelStops, TunReleased, dns_vars
  <2> QED BY <1>c, <2>1, Apart
<1>13. CASE Tick
  BY <1>13, <1>d, <1>e DEF Tick
<1>14. CASE Disconnect
  BY <1>14, <1>d, <1>e DEF Disconnect
<1>15. CASE DisableKillSwitch \/ KillSwitchOff \/ Launch
  <2>1. UNCHANGED <<client, attempt, routes, route_guard, lost_routes, guard>>
    BY <1>15 DEF DisableKillSwitch, KillSwitchOff, Launch, dns_vars
  <2> QED BY <1>c, <2>1
<1>16. CASE Close
  BY <1>16, <1>d, <1>e DEF Close, Forget, connecting
<1>17. CASE Crash
  BY <1>17, <1>b, <1>c DEF Crash, Forget, LoseDns
<1>18. CASE DnsNext /\ running /\ UNCHANGED app_vars
  <2>1. guard' = guard
    BY <1>18 DEF DnsNext, RefreshTick, RefreshSave, RefreshCover, AdapterChange
  <2> QED BY <1>18, <2>1 DEF app_vars
<1>19. CASE UNCHANGED vars
  BY <1>19 DEF vars, app_vars, dns_vars
<1> QED BY <1>1, <1>2, <1>3, <1>4, <1>5, <1>6, <1>7, <1>8, <1>9, <1>10, <1>11, <1>12, <1>13, <1>14,
           <1>15, <1>16, <1>17, <1>18, <1>19 DEF Next, Edit

\* The inductive invariant of the routes and of who owns the guards.
THEOREM OwnInvariance == Spec => []OwnInv
  BY InitOwn, StepOwn, TypeInvariance, PTL DEF Spec

(***************************************************************************)
(* Whichever installation failed where and however the connection ended,   *)
(* no route is left without a client or an attempt, but for those whose    *)
(* own deletion failed and the pins of a process that died                 *)
(* (FullTunnelRoutes::install, remove and Drop).                           *)
(***************************************************************************)
THEOREM RoutesAlwaysGone == Spec => []RoutesGone
<1>1. TInv /\ OwnInv => RoutesGone
  BY Apart DEF TInv, TypeOK, OwnInv, Progress, GuardOwned, PinKnown, HalvesKnown, RoutesGone, connecting
<1> QED BY <1>1, OwnInvariance, TypeInvariance, PTL

-----------------------------------------------------------------------------
(* The DNS override *)

\* Only the installed guard's thread may go on.
OthersStopped == \A g \in Guards : g # guard => stop_flag[g]

\* The guards still to come have nothing to do.
NotYetBusy ==
    /\ guard <= installs
    /\ \A g \in Guards : g > installs => pass[g] = {} /\ DOMAIN covered[g] = {}

\* What is not as it was has its original with the installed guard, or is lost.
OriginalKept ==
    \A a \in Places \ lost_dns :
        \/ resolver[a] = "own"
        \/ guard # 0 /\ a \in DOMAIN saved[guard] \cup DOMAIN covered[guard]

\* And that original is the user's own setting.
OriginalOwn ==
    guard # 0 =>
        /\ \A a \in DOMAIN saved[guard] : a \notin lost_dns => saved[guard][a] = "own"
        /\ \A a \in DOMAIN covered[guard] : a \notin lost_dns => covered[guard][a] = "own"

DnsInv == OthersStopped /\ NotYetBusy /\ OriginalKept /\ OriginalOwn

LEMMA InitDns == Init => DnsInv
  BY ClientAssumption DEF Init, DnsInit, DnsInv, OthersStopped, NotYetBusy, OriginalKept, OriginalOwn, Nothing

LEMMA DnsStepInv ==
    ASSUME DnsTypeOK, DnsInv, DnsStep, InstallDns => guard = 0
    PROVE  DnsInv'
<1> USE ClientAssumption
<1>i. OthersStopped /\ NotYetBusy /\ OriginalKept /\ OriginalOwn
  BY DEF DnsInv
<1>n. DOMAIN Nothing = {}
  BY DEF Nothing
<1>p. Places' = Places
  BY DEF DnsStep, DnsNext, InstallDns, InstallDnsFails, DropDns, LoseDns, RefreshTick, RefreshSave,
         RefreshCover, AdapterChange, dns_vars, Places
<1>g. guard \in 0..MaxGuards /\ installs \in 0..MaxGuards /\ guard <= installs /\ MaxGuards \in Nat
  BY <1>i DEF DnsTypeOK, NotYetBusy
<1>1. CASE InstallDns
  <2>1. /\ guard = 0 /\ guard' = installs + 1 /\ installs' = installs + 1
        /\ UNCHANGED <<pass, covered, lost_dns>>
    BY <1>1 DEF InstallDns
  <2>2. guard' \in Guards /\ guard' > installs /\ guard' <= installs'
    BY <1>1, <1>g, <2>1 DEF InstallDns, Guards
  <2>3. saved'[guard'] = [a \in Present |-> resolver[a]]
    BY <1>1, <2>2 DEF InstallDns, DnsTypeOK
  <2>4. \A a \in Places \ lost_dns : resolver[a] = "own"
    BY <1>i, <2>1 DEF OriginalKept
  <2>5. Present \subseteq Places
    BY DEF DnsTypeOK, Present, Places, Watched
  <2>6. OthersStopped'
    <3>1. \A g \in Guards : stop_flag[g]
      BY <1>i, <2>1 DEF OthersStopped, Guards
    <3>2. \A g \in Guards : g # guard' => stop_flag'[g] = stop_flag[g]
      BY <1>1 DEF InstallDns, DnsTypeOK
    <3> QED BY <3>1, <3>2 DEF OthersStopped
  <2>7. NotYetBusy'
    <3>1. \A g \in Guards : g > installs' => g > installs
      BY <1>g, <2>1 DEF Guards
    <3> QED BY <1>i, <2>1, <2>2, <3>1 DEF NotYetBusy
  <2>8. OriginalKept'
    BY <1>1, <1>p, <2>1, <2>2, <2>3, <2>4 DEF InstallDns, OriginalKept, DnsTypeOK, Guards
  <2>9. OriginalOwn'
    <3>1. DOMAIN covered[guard'] = {}
      BY <1>i, <2>2 DEF NotYetBusy
    <3> QED BY <2>1, <2>3, <2>4, <2>5, <3>1 DEF OriginalOwn
  <2> QED BY <2>6, <2>7, <2>8, <2>9 DEF DnsInv
<1>2. CASE InstallDnsFails
  <2>1. /\ UNCHANGED <<guard, installs, stop_flag, pass, covered, saved>>
        /\ UNCHANGED <<resolver, lost_dns>> \/ lost_dns' = Places
    BY <1>2 DEF InstallDnsFails
  <2> QED BY <1>i, <1>p, <2>1 DEF DnsTypeOK, SavedOK, DnsInv, OthersStopped, NotYetBusy, OriginalKept, OriginalOwn
<1>3. CASE DropDns
  <2>1. CASE guard = 0
    BY <1>3, <1>i, <1>p, <2>1 DEF DropDns, dns_vars, DnsInv, OthersStopped, NotYetBusy, OriginalKept, OriginalOwn
  <2>2. CASE guard # 0
    <3>1. guard \in Guards
      BY <1>g, <2>2 DEF Guards
    <3>2. PICK back, cut \in SUBSET DOMAIN saved[guard] :
             /\ cut \cap back = {} /\ (platform = "windows" => cut = {})
             /\ resolver' = [a \in Places |-> IF a \in cut THEN "broken" ELSE
                                              IF a \in back THEN saved[guard][a] ELSE resolver[a]]
             /\ lost_dns' = lost_dns \cup (DOMAIN saved[guard] \ back) \cup DOMAIN covered[guard]
      BY <1>3, <2>2 DEF DropDns
    <3>3. guard' = 0 /\ UNCHANGED <<installs, pass, covered>>
      BY <1>3, <2>2 DEF DropDns
    <3>4. OthersStopped'
      BY <1>3, <1>i, <2>2, <3>1 DEF DropDns, OthersStopped, DnsTypeOK
    <3>5. \A a \in Places \ lost_dns' : resolver'[a] = "own"
      <4> SUFFICES ASSUME NEW a \in Places, a \notin lost_dns' PROVE resolver'[a] = "own"
        OBVIOUS
      <4>1. a \notin lost_dns /\ a \notin DOMAIN covered[guard] /\ a \notin DOMAIN saved[guard] \ back
        BY <3>2
      <4>2. a \in DOMAIN saved[guard] => a \in back /\ saved[guard][a] = "own"
        BY <1>i, <2>2, <4>1 DEF OriginalOwn
      <4>3. a \notin DOMAIN saved[guard] => resolver[a] = "own"
        BY <1>i, <4>1 DEF OriginalKept
      <4>4. a \in cut => a \in DOMAIN saved[guard]
        OBVIOUS
      <4> QED BY <3>2, <4>2, <4>3, <4>4
    <3>6. NotYetBusy'
      BY <1>g, <1>i, <3>3 DEF NotYetBusy
    <3> QED BY <1>p, <3>3, <3>4, <3>5, <3>6 DEF DnsInv, OriginalKept, OriginalOwn
  <2> QED BY <2>1, <2>2
<1>4. CASE LoseDns
  <2>1. /\ guard' = 0 /\ UNCHANGED <<resolver, installs>>
        /\ stop_flag' = [g \in Guards |-> TRUE]
        /\ pass' = [g \in Guards |-> {}] /\ covered' = [g \in Guards |-> Nothing]
    BY <1>4 DEF LoseDns
  <2>2. \A a \in Places \ lost_dns' : resolver[a] = "own"
    BY <1>4, <1>i DEF LoseDns, OriginalKept
  <2> QED BY <1>g, <1>n, <1>p, <2>1, <2>2 DEF DnsInv, OthersStopped, NotYetBusy, OriginalKept, OriginalOwn
<1>5. ASSUME NEW g \in Guards, RefreshTick(g) PROVE DnsInv'
  <2>1. g = guard
    BY <1>5, <1>i DEF RefreshTick, OthersStopped
  <2>2. /\ UNCHANGED <<guard, installs, stop_flag, covered, saved, resolver, lost_dns>>
        /\ \A h \in Guards : h # guard => pass'[h] = pass[h]
    BY <1>5, <2>1 DEF RefreshTick, DnsTypeOK
  <2> QED BY <1>g, <1>i, <1>p, <2>1, <2>2 DEF DnsInv, OthersStopped, NotYetBusy, OriginalKept, OriginalOwn
<1>6. ASSUME NEW g \in Guards, RefreshSave(g) PROVE DnsInv'
  <2>1. g <= installs
    BY <1>6, <1>g, <1>i DEF RefreshSave, NotYetBusy, Guards
  <2>2. /\ saved'[g] = [a \in DOMAIN saved[g] \cup DOMAIN covered[g] |->
                           IF a \in DOMAIN covered[g] THEN covered[g][a] ELSE saved[g][a]]
        /\ covered'[g] = Nothing
        /\ \A h \in Guards : h # g => covered'[h] = covered[h] /\ saved'[h] = saved[h]
        /\ UNCHANGED <<guard, installs, stop_flag, pass, resolver, lost_dns>>
    BY <1>6 DEF RefreshSave, DnsTypeOK
  <2>3. OthersStopped' /\ NotYetBusy'
    BY <1>g, <1>i, <2>1, <2>2 DEF OthersStopped, NotYetBusy, Guards
  <2>4. guard # 0 => guard \in Guards
    BY <1>g DEF Guards
  <2>5. OriginalKept' /\ OriginalOwn'
    <3>1. CASE g = guard
      BY <1>i, <1>n, <1>p, <2>2, <3>1 DEF OriginalKept, OriginalOwn
    <3>2. CASE g # guard
      BY <1>i, <1>p, <2>2, <2>4, <3>2 DEF OriginalKept, OriginalOwn
    <3> QED BY <3>1, <3>2
  <2> QED BY <2>3, <2>5 DEF DnsInv
<1>7. ASSUME NEW g \in Guards, NEW a \in Adapters, RefreshCover(g, a) PROVE DnsInv'
  <2>1. a \in Places /\ DOMAIN covered[g] = {} /\ a \in pass[g]
    BY <1>7 DEF RefreshCover, DnsTypeOK, Places, Watched
  <2>2. /\ UNCHANGED <<guard, installs, stop_flag, saved>>
        /\ \A h \in Guards : h # g => pass'[h] = pass[h]
        /\ pass'[g] \subseteq pass[g]
    BY <1>7 DEF RefreshCover, DnsTypeOK
  <2>3. g <= installs
    BY <1>g, <1>i, <2>1 DEF NotYetBusy, Guards
  <2>4. guard # 0 => guard \in Guards
    BY <1>g DEF Guards
  <2>5. OthersStopped'
    BY <1>i, <2>2 DEF OthersStopped
  <2>6. CASE UNCHANGED <<resolver, covered, lost_dns>>
    <3>1. NotYetBusy'
      BY <1>i, <2>2, <2>6, <1>g DEF NotYetBusy
    <3> QED BY <1>i, <1>p, <2>2, <2>5, <2>6, <3>1 DEF DnsInv, OriginalKept, OriginalOwn
  <2>7. CASE a \notin DOMAIN saved[g] /\ Cover(g, a)
    <3>1. /\ covered'[g] = [b \in {a} |-> resolver[a]]
          /\ \A h \in Guards : h # g => covered'[h] = covered[h]
          /\ \A b \in Places : b # a => resolver'[b] = resolver[b]
          /\ lost_dns \subseteq lost_dns' /\ (stop_flag[g] => a \in lost_dns')
      BY <2>1, <2>7 DEF Cover, DnsTypeOK
    <3>2. NotYetBusy'
      BY <1>g, <1>i, <2>2, <2>3, <3>1 DEF NotYetBusy, Guards
    <3>3. CASE g = guard
      <4>1. guard # 0
        BY <3>3 DEF Guards
      <4>2. a \notin lost_dns => resolver[a] = "own"
        BY <1>i, <2>1, <2>7, <3>3 DEF OriginalKept
      <4>3. OriginalKept' /\ OriginalOwn'
        BY <1>i, <1>p, <2>1, <2>2, <3>1, <3>3, <4>1, <4>2 DEF OriginalKept, OriginalOwn
      <4> QED BY <2>5, <3>2, <4>3 DEF DnsInv
    <3>4. CASE g # guard
      <4>1. a \in lost_dns'
        BY <1>i, <3>1, <3>4 DEF OthersStopped
      <4>2. OriginalKept' /\ OriginalOwn'
        BY <1>i, <1>p, <2>2, <2>4, <3>1, <3>4, <4>1 DEF OriginalKept, OriginalOwn
      <4> QED BY <2>5, <3>2, <4>2 DEF DnsInv
    <3> QED BY <3>3, <3>4
  <2> QED BY <1>7, <2>6, <2>7 DEF RefreshCover
<1>8. ASSUME NEW a \in Adapters, AdapterChange(a) PROVE DnsInv'
  BY <1>8, <1>i, <1>p DEF AdapterChange, DnsInv, OthersStopped, NotYetBusy, OriginalKept, OriginalOwn
<1>9. CASE UNCHANGED dns_vars
  BY <1>9, <1>i, <1>p DEF dns_vars, DnsInv, OthersStopped, NotYetBusy, OriginalKept, OriginalOwn
<1> QED BY <1>1, <1>2, <1>3, <1>4, <1>5, <1>6, <1>7, <1>8, <1>9 DEF DnsStep, DnsNext

\* Only an attempt that has no guard yet installs one.
LEMMA InstallsFirst == ASSUME TypeOK, OwnInv, [Next]_vars, InstallDns PROVE guard = 0
<1>1. installs \in Nat /\ installs' = installs + 1
  BY DEF TypeOK, DnsTypeOK, InstallDns
<1>2. ~UNCHANGED dns_vars /\ ~DropDns /\ ~LoseDns /\ ~DnsNext
  <2>1. installs' # installs
    BY <1>1
  <2>2. ~UNCHANGED dns_vars
    BY <2>1 DEF dns_vars
  <2>3. ~DropDns /\ ~LoseDns
    BY <2>1, <2>2 DEF DropDns, LoseDns
  <2>4. ~DnsNext
    BY <2>1 DEF DnsNext, RefreshTick, RefreshSave, RefreshCover, AdapterChange
  <2> QED BY <2>2, <2>3, <2>4
<1>3. CASE Edit
  BY <1>2, <1>3, EditRest DEF rest
<1>4. CASE Connect \/ CreateTun \/ Engage \/ EngageFails \/ Handshake \/ HandshakeFails
  BY <1>2, <1>4 DEF Connect, CreateTun, Engage, EngageFails, Handshake, HandshakeFails
<1>5. CASE RoutePin \/ (\E half \in Halves : RouteHalf(half) \/ RouteFails(half)) \/ Connected
  BY <1>2, <1>5 DEF RoutePin, RouteHalf, RouteFails, Connected
<1>6. CASE Dns
  BY <1>6 DEF Dns, At, OwnInv, DnsOwned, Alone
<1>7. CASE Tick \/ Disconnect \/ Close \/ Crash
  BY <1>2, <1>7 DEF Tick, Disconnect, Close, Crash
<1>8. CASE TunnelStops \/ TunReleased \/ DisableKillSwitch \/ KillSwitchOff \/ Launch
  BY <1>2, <1>8 DEF TunnelStops, TunReleased, DisableKillSwitch, KillSwitchOff, Launch
<1>9. CASE UNCHANGED vars
  BY <1>2, <1>9 DEF vars
<1> QED BY <1>2, <1>3, <1>4, <1>5, <1>6, <1>7, <1>8, <1>9 DEF Next, Edit

LEMMA StepDns == TypeOK /\ OwnInv /\ DnsInv /\ [Next]_vars => DnsInv'
  BY DnsPart, InstallsFirst, DnsStepInv DEF TypeOK

\* The inductive invariant of the DNS override.
THEOREM DnsInvariance == Spec => []DnsInv
  BY InitDns, StepDns, OwnInvariance, TypeCorrect, PTL DEF Spec

(***************************************************************************)
(* Once the client is gone every resolver setting is the user's own again, *)
(* the adapters the refresher covered meanwhile included (DnsGuard's Drop, *)
(* refresh_tick), but for the places that lost_dns names: each was left by *)
(* a failed call of its own, by a death of the process, or by a thread at   *)
(* work on it when its guard was dropped.                                   *)
(***************************************************************************)
THEOREM DnsAlwaysRestored == Spec => []DnsRestored
<1>1. OwnInv /\ DnsInv => DnsRestored
  BY DEF OwnInv, DnsOwned, DnsInv, OriginalKept, DnsRestored, connecting
<1> QED BY <1>1, DnsInvariance, OwnInvariance, PTL
=============================================================================
