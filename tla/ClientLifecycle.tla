---------------------------- MODULE ClientLifecycle ----------------------------
(***************************************************************************)
(* The graphical client around a tunnel: Connect builds the TUN device,    *)
(* engages the kill switch, runs Client::connect (handshake, full-tunnel   *)
(* routes, DNS override) and hands the outcome to the window; a tunnel may *)
(* stop at any time, the window notices at its next tick.  The routes and  *)
(* the DNS override belong to the Client and go with it; the kill switch   *)
(* belongs to nobody: only the user takes it down.  The process may be     *)
(* closed, or die between any two steps, and be started again; `killswitch *)
(* off` may be run beside it at any time.                                  *)
(*                                                                         *)
(* One attempt step is one call that changes the system, and each of them  *)
(* may fail, those whose failure the code ignores too: the query for a     *)
(* switch, the deletion of a route, the restoration of a resolver.  What   *)
(* the kernel does is modelled as far as the code relies on it: a route    *)
(* through the TUN goes with the TUN, and a blocking firewall lets only    *)
(* the server it was engaged for be reached.                               *)
(***************************************************************************)
EXTENDS DnsGuard

CONSTANTS
    Servers,        \* the servers a user may name
    Profiles,       \* the traffic profiles offered
    EngageTries,    \* 5: tries of KillSwitch::engage
    RouteTries      \* 8: tries of FullTunnelRoutes::install

ASSUME ClientAssumption ==
    /\ {EngageTries, RouteTries, MaxGuards} \subseteq Nat \ {0}
    /\ {"none", "tun", "unpinned", "lo", "hi"} \cap Servers = {}
    /\ Servers # {} /\ Profiles # {}

VARIABLES
    running,        \* whether the process runs
    config,         \* App.config: "none", or its tun.route_all: "split" or "full"
    server,         \* App.server
    profile,        \* App.profile
    kill_switch,    \* App.kill_switch, the preference
    ks,             \* App.ks is Some
    ks_orphan,      \* App.ks_orphan
    client,         \* App.client is Some
    attempt,        \* the connect task: its position and what it captured
    tunnel,         \* the tunnel loops run (and own the TUN)
    tun,            \* the TUN device exists
    shaping,        \* the profile the tunnel shapes by
    fw,             \* the firewall: default block, and what our rules allow: a server, only the
                    \* "tun", or "none" when there are no rules
    routes,         \* the routes in the kernel: the two halves, and a pin named by its server
    route_guard,    \* Client._routes: "none", "unpinned", or the server pinned (endpoint)
    armed,          \* history: the switch was engaged and nobody asked for its end since
    seen,           \* history: this process engaged the switch, or found it when it started, and
                    \* has not taken it down
    lost_routes     \* history: the routes that a failed deletion or a crash left behind

app_vars == <<running, config, server, profile, kill_switch, ks, ks_orphan, client, attempt,
              tunnel, tun, shaping, fw, routes, route_guard, armed, seen, lost_routes>>
vars == <<app_vars, dns_vars>>

\* The user's fields of the window, and what only the other handlers touch.
fields == <<config, server, profile, kill_switch>>

NoFw      == [block |-> FALSE, allow |-> "none"]
NoAttempt == [step |-> "none", want |-> FALSE, full |-> FALSE, server |-> "none",
              profile |-> "none", ks |-> "none", tries |-> 0, pinned |-> FALSE, ok |-> FALSE]

connecting == attempt.step # "none"

\* What the attempt captured is last used in the handshake, the server in the routes.
Spent(a) == [a EXCEPT !.want = FALSE, !.full = FALSE, !.server = "none", !.profile = "none"]

DefaultProfile == CHOOSE p \in Profiles : TRUE

Init ==
    /\ DnsInit
    /\ config = "none" /\ server = "none" /\ profile = DefaultProfile /\ kill_switch = FALSE
    /\ running = TRUE
    /\ ks = FALSE /\ ks_orphan = FALSE /\ client = FALSE
    /\ attempt = NoAttempt
    /\ tunnel = FALSE /\ tun = FALSE /\ shaping = "none"
    /\ fw = NoFw /\ routes = {} /\ route_guard = "none"
    /\ armed = FALSE /\ seen = FALSE /\ lost_routes = {}

-----------------------------------------------------------------------------
(* The kill switch, the routes *)

\* teardown, whose failure nobody sees.  nft deletes the table or does not; PowerShell goes on
\* after a command that failed, so either of its two may be the only one that worked.
Teardown ==
    fw' \in {NoFw, fw} \cup IF platform = "windows"
                            THEN {[fw EXCEPT !.block = FALSE], [fw EXCEPT !.allow = "none"]} ELSE {}

\* KillSwitch::is_engaged that does not fail: our table, or our rules, are there.
is_engaged == fw.allow # "none"

\* What engage_backend leaves when it fails.  nft applies a ruleset as a whole; the PowerShell
\* script drops our rules, adds the one for the TUN, the one for the server and two more, and
\* sets the default last.
FailedEngage == {fw} \cup IF platform = "windows"
                         THEN {[fw EXCEPT !.allow = a] : a \in {"none", "tun", attempt.server}} ELSE {}

Halves == {"lo", "hi"}

\* Plausible slip: only the two halves are deleted.
Removed_halves_only(pin) == Halves

\* FullTunnelRoutes::remove: the routes it asks to delete; pin is the server pinned, if any.
Removed(pin) == Halves \cup ({pin} \cap Servers)

\* Each deletion may fail, and nobody hears of it.
RemoveRoutes(pin) ==
    \E left \in SUBSET (routes \cap Removed(pin)) :
        /\ routes' = (routes \ Removed(pin)) \cup left
        /\ lost_routes' = (lost_routes \cup left) \cap routes'

\* The routes that stay when the TUN device goes.
Unbound == routes \ Halves

\* Drop of the client's route guard, or of the Client that holds it.
DropRoutes ==
    /\ IF route_guard = "none" THEN UNCHANGED <<routes, lost_routes>> ELSE RemoveRoutes(route_guard)
    /\ route_guard' = "none"

-----------------------------------------------------------------------------
(* The window's fields *)

\* LoadConfig: the file's server, profile and preference replace the fields.
LoadConfig(c, s, p, on) ==
    /\ running
    /\ config' = c /\ server' = s /\ profile' = p /\ kill_switch' = on
    /\ UNCHANGED <<running, ks, ks_orphan, client, attempt, tunnel, tun, shaping, fw, routes,
                   route_guard, armed, seen, lost_routes, dns_vars>>

ServerChanged(s) ==
    /\ running /\ server' = s
    /\ UNCHANGED <<running, config, profile, kill_switch, ks, ks_orphan, client, attempt, tunnel,
                   tun, shaping, fw, routes, route_guard, armed, seen, lost_routes, dns_vars>>

\* ProfileChanged is applied live when there is a client.
ProfileChanged(p) ==
    /\ running /\ profile' = p
    /\ shaping' = IF client /\ tunnel THEN p ELSE shaping
    /\ UNCHANGED <<running, config, server, kill_switch, ks, ks_orphan, client, attempt, tunnel,
                   tun, fw, routes, route_guard, armed, seen, lost_routes, dns_vars>>

ToggleKillSwitch(on) ==
    /\ running /\ kill_switch' = on
    /\ UNCHANGED <<running, config, server, profile, ks, ks_orphan, client, attempt, tunnel, tun,
                   shaping, fw, routes, route_guard, armed, seen, lost_routes, dns_vars>>

-----------------------------------------------------------------------------
(* The connect task *)

\* Connect: the button is there when there is no client and no attempt.
Connect ==
    /\ running /\ ~connecting /\ ~client /\ config # "none" /\ server # "none"
    /\ attempt' = [NoAttempt EXCEPT !.step = "tun", !.want = kill_switch, !.full = config = "full",
                                    !.server = server, !.profile = profile]
    /\ UNCHANGED <<running, fields, ks, ks_orphan, client, tunnel, tun, shaping, fw, routes,
                   route_guard, armed, seen, lost_routes, dns_vars>>

At(step) == running /\ attempt.step = step

\* build_auth and TunPair::create, whose name may still be taken.  The switch needs
\* full-tunnel routing.
CreateTun ==
    /\ At("tun")
    /\ \/ /\ ~tun /\ tun' = TRUE
          /\ attempt' = [attempt EXCEPT !.step = IF attempt.want /\ attempt.full
                                                 THEN "engage" ELSE "handshake",
                                        !.want = FALSE,
                                        !.ks = IF attempt.want THEN "err" ELSE "none"]
       \/ attempt' = [Spent(attempt) EXCEPT !.step = "done"] /\ UNCHANGED tun
    /\ UNCHANGED <<running, fields, ks, ks_orphan, client, tunnel, shaping, fw, routes,
                   route_guard, armed, seen, lost_routes, dns_vars>>

\* KillSwitch::engage, tried EngageTries times; the connection goes on without it.
Engage ==
    /\ At("engage")
    /\ fw' = [block |-> TRUE, allow |-> attempt.server] /\ armed' = TRUE /\ seen' = TRUE
    /\ attempt' = [attempt EXCEPT !.step = "handshake", !.ks = "ok", !.tries = 0]
    /\ UNCHANGED <<running, fields, ks, ks_orphan, client, tunnel, tun, shaping, routes,
                   route_guard, lost_routes, dns_vars>>

EngageFails ==
    /\ At("engage")
    /\ fw' \in FailedEngage
    /\ attempt' = IF attempt.tries + 1 < EngageTries
                  THEN [attempt EXCEPT !.tries = @ + 1]
                  ELSE [attempt EXCEPT !.step = "handshake", !.tries = 0]
    /\ UNCHANGED <<running, fields, ks, ks_orphan, client, tunnel, tun, shaping, routes,
                   route_guard, armed, seen, lost_routes, dns_vars>>

\* run_handshake_initiator, then the tunnel loops are spawned.
Handshake ==
    /\ At("handshake")
    /\ fw.block => fw.allow = attempt.server
    /\ tunnel' = TRUE /\ shaping' = attempt.profile
    /\ attempt' = IF attempt.full
                  THEN [Spent(attempt) EXCEPT !.step = "pin", !.server = attempt.server, !.ok = TRUE]
                  ELSE [Spent(attempt) EXCEPT !.step = "done", !.ok = TRUE]
    /\ UNCHANGED <<running, fields, ks, ks_orphan, client, tun, fw, routes, route_guard,
                   armed, seen, lost_routes, dns_vars>>

\* The task that reads the TUN is left waiting for a packet, and keeps the device.
HandshakeFails ==
    /\ At("handshake")
    /\ attempt' = [Spent(attempt) EXCEPT !.step = "done"]
    /\ UNCHANGED <<running, fields, ks, ks_orphan, client, tunnel, tun, shaping, fw, routes,
                   route_guard, armed, seen, lost_routes, dns_vars>>

\* FullTunnelRoutes::install 1: the pin, for a remote server.  A pin of this server that is there
\* already makes `ip route add` fail; a failed pin is only logged.
RoutePin ==
    /\ At("pin")
    /\ \/ /\ attempt.server \notin routes
          /\ routes' = routes \cup {attempt.server}
          /\ attempt' = [attempt EXCEPT !.step = "lo", !.pinned = TRUE]
       \/ attempt' = [attempt EXCEPT !.step = "lo", !.pinned = FALSE] /\ UNCHANGED routes
    /\ UNCHANGED <<running, fields, ks, ks_orphan, client, tunnel, tun, shaping, fw,
                   route_guard, armed, seen, lost_routes, dns_vars>>

Pin == IF attempt.pinned THEN attempt.server ELSE "unpinned"

\* install is over: the DNS override is next.
ToDns == [attempt EXCEPT !.step = "dns", !.tries = 0, !.server = "none", !.pinned = FALSE]

\* 2: the two halves, which need the TUN.
RouteHalf(half) ==
    /\ At(half) /\ tun /\ half \notin routes
    /\ routes' = routes \cup {half}
    /\ IF half = "lo"
       THEN attempt' = [attempt EXCEPT !.step = "hi"] /\ UNCHANGED route_guard
       ELSE attempt' = ToDns /\ route_guard' = Pin
    /\ UNCHANGED <<running, fields, ks, ks_orphan, client, tunnel, tun, shaping, fw,
                   armed, seen, lost_routes, dns_vars>>

\* A half fails: what was added is rolled back, and Client::connect tries again or settles
\* for a split tunnel.
RouteFails(half) ==
    /\ At(half)
    /\ RemoveRoutes(Pin)
    /\ attempt' = IF attempt.tries + 1 < RouteTries
                  THEN [attempt EXCEPT !.step = "pin", !.tries = @ + 1, !.pinned = FALSE]
                  ELSE ToDns
    /\ UNCHANGED <<running, fields, ks, ks_orphan, client, tunnel, tun, shaping, fw,
                   route_guard, armed, seen, dns_vars>>

\* DnsGuard::install, whatever became of the routes; a failure is only logged.
Dns ==
    /\ At("dns")
    /\ InstallDns \/ InstallDnsFails
    /\ attempt' = [attempt EXCEPT !.step = "done"]
    /\ UNCHANGED <<running, fields, ks, ks_orphan, client, tunnel, tun, shaping, fw, routes,
                   route_guard, armed, seen, lost_routes>>

\* Plausible slip: the leftover of an earlier session is forgotten whatever became of the switch.
Connected_forgets_orphan ==
    /\ At("done")
    /\ ks' = (ks \/ attempt.ks = "ok")
    /\ ks_orphan' = FALSE
    /\ client' = attempt.ok
    /\ attempt' = NoAttempt
    /\ UNCHANGED <<running, fields, tunnel, tun, shaping, fw, routes, route_guard, armed, seen,
                   lost_routes, dns_vars>>

\* Connected: the window takes the outcome; the switch stays up if the connection failed.
Connected ==
    /\ At("done")
    /\ ks' = (ks \/ attempt.ks = "ok")
    /\ ks_orphan' = (ks_orphan /\ attempt.ks # "ok")
    /\ client' = attempt.ok
    /\ attempt' = NoAttempt
    /\ UNCHANGED <<running, fields, tunnel, tun, shaping, fw, routes, route_guard, armed, seen,
                   lost_routes, dns_vars>>

-----------------------------------------------------------------------------
(* The end of a tunnel *)

\* The loops stop (dead peer, Close of the peer, socket error); the TUN goes with them.
TunnelStops ==
    /\ running /\ tunnel
    /\ tunnel' = FALSE /\ tun' = FALSE /\ shaping' = "none"
    /\ routes' = Unbound /\ lost_routes' = lost_routes \ Halves
    /\ UNCHANGED <<running, fields, ks, ks_orphan, client, attempt, fw, route_guard,
                   armed, seen, dns_vars>>

\* The tasks of an abandoned or aborted tunnel end, and the device goes with them.
TunReleased ==
    /\ running /\ tun /\ ~tunnel /\ attempt.step \notin {"engage", "handshake"}
    /\ tun' = FALSE /\ routes' = Unbound /\ lost_routes' = lost_routes \ Halves
    /\ UNCHANGED <<running, fields, ks, ks_orphan, client, attempt, tunnel, shaping, fw,
                   route_guard, armed, seen, dns_vars>>

\* Plausible slip: the switch goes down with the tunnel.
Tick_disengages ==
    /\ running /\ client /\ ~tunnel
    /\ client' = FALSE
    /\ DropRoutes /\ DropDns
    /\ IF ks THEN Teardown /\ seen' = FALSE ELSE UNCHANGED <<fw, seen>>
    /\ ks' = FALSE
    /\ UNCHANGED <<running, fields, ks_orphan, attempt, tunnel, tun, shaping, armed>>

\* Tick finds the loops stopped: the client is dropped, the switch is not touched.
Tick ==
    /\ running /\ client /\ ~tunnel
    /\ client' = FALSE
    /\ DropRoutes /\ DropDns
    /\ UNCHANGED <<running, fields, ks, ks_orphan, attempt, tunnel, tun, shaping, fw, armed, seen>>

\* Disconnect: Client::disconnect aborts the loops and releases the guards, then the switch goes.
Disconnect ==
    /\ running /\ client /\ ~connecting
    /\ client' = FALSE
    /\ tunnel' = FALSE /\ shaping' = "none"
    /\ DropRoutes /\ DropDns
    /\ IF ks THEN Teardown /\ armed' = FALSE /\ seen' = FALSE ELSE UNCHANGED <<fw, armed, seen>>
    /\ ks' = FALSE
    /\ UNCHANGED <<running, fields, ks_orphan, attempt, tun>>

\* ks_stranded: the banner that offers to disable the switch.
ks_stranded == ~client /\ ~connecting /\ (ks_orphan \/ ks)

DisableKillSwitch ==
    /\ running /\ ks_stranded
    /\ Teardown /\ armed' = FALSE /\ seen' = FALSE
    /\ ks' = FALSE /\ ks_orphan' = FALSE
    /\ UNCHANGED <<running, fields, client, attempt, tunnel, tun, shaping, routes, route_guard,
                   lost_routes, dns_vars>>

\* `chameleon-pq killswitch off`, a process of its own.
KillSwitchOff ==
    /\ Teardown /\ armed' = FALSE
    /\ UNCHANGED <<running, fields, ks, ks_orphan, client, attempt, tunnel, tun, shaping, routes,
                   route_guard, seen, lost_routes, dns_vars>>

-----------------------------------------------------------------------------
(* The process *)

\* The fields go with the process; the next one starts with these (App::new).
Forget ==
    /\ config' = "none" /\ server' = "none" /\ profile' = DefaultProfile /\ kill_switch' = FALSE
    /\ ks' = FALSE /\ ks_orphan' = FALSE /\ client' = FALSE

\* The window is closed: what the App owns is dropped; a KillSwitch has no Drop.
Close ==
    /\ running /\ ~connecting
    /\ running' = FALSE
    /\ Forget
    /\ tunnel' = FALSE /\ tun' = FALSE /\ shaping' = "none"
    /\ DropRoutes /\ DropDns
    /\ seen' = FALSE
    /\ UNCHANGED <<attempt, fw, armed>>

\* The process dies: nothing is dropped, the kernel closes the TUN.
Crash ==
    /\ running
    /\ running' = FALSE
    /\ Forget
    /\ attempt' = NoAttempt
    /\ tunnel' = FALSE /\ tun' = FALSE /\ shaping' = "none"
    /\ routes' = Unbound /\ route_guard' = "none"
    /\ lost_routes' = Unbound
    /\ LoseDns
    /\ seen' = FALSE
    /\ UNCHANGED <<fw, armed>>

\* App::new: a look for a switch that an earlier process left, which may fail.
Launch ==
    /\ ~running
    /\ running' = TRUE
    /\ ks_orphan' \in {is_engaged, FALSE} /\ seen' = ks_orphan'
    /\ UNCHANGED <<fields, ks, client, attempt, tunnel, tun, shaping, fw, routes, route_guard,
                   armed, lost_routes, dns_vars>>

Next ==
    \/ \E c \in {"split", "full"}, s \in Servers, p \in Profiles, on \in BOOLEAN :
          LoadConfig(c, s, p, on)
    \/ \E s \in Servers : ServerChanged(s)
    \/ \E p \in Profiles : ProfileChanged(p)
    \/ \E on \in BOOLEAN : ToggleKillSwitch(on)
    \/ Connect \/ CreateTun \/ Engage \/ EngageFails \/ Handshake \/ HandshakeFails
    \/ RoutePin \/ (\E half \in Halves : RouteHalf(half) \/ RouteFails(half)) \/ Dns \/ Connected
    \/ TunnelStops \/ TunReleased \/ Tick \/ Disconnect \/ DisableKillSwitch \/ KillSwitchOff
    \/ Close \/ Crash \/ Launch
    \/ DnsNext /\ running /\ UNCHANGED app_vars

Spec == Init /\ [][Next]_vars

-----------------------------------------------------------------------------
(* Properties *)

MaxTries == IF EngageTries > RouteTries THEN EngageTries ELSE RouteTries

AttemptType == [step : {"none", "tun", "engage", "handshake", "pin", "lo", "hi", "dns", "done"},
                want : BOOLEAN, full : BOOLEAN, server : Servers \cup {"none"},
                profile : Profiles \cup {"none"}, ks : {"none", "err", "ok"},
                tries : 0..(MaxTries - 1), pinned : BOOLEAN, ok : BOOLEAN]
FwType == [block : BOOLEAN, allow : Servers \cup {"none", "tun"}]

\* Type invariant.
TypeOK ==
    /\ DnsTypeOK
    /\ running \in BOOLEAN /\ tunnel \in BOOLEAN /\ tun \in BOOLEAN
    /\ config \in {"none", "split", "full"} /\ server \in Servers \cup {"none"}
    /\ profile \in Profiles /\ kill_switch \in BOOLEAN
    /\ ks \in BOOLEAN /\ ks_orphan \in BOOLEAN /\ client \in BOOLEAN
    /\ attempt \in AttemptType
    /\ shaping \in Profiles \cup {"none"}
    /\ fw \in FwType
    /\ routes \subseteq Halves \cup Servers /\ route_guard \in {"none", "unpinned"} \cup Servers
    /\ armed \in BOOLEAN /\ seen \in BOOLEAN /\ lost_routes \subseteq Halves \cup Servers

\* killswitch.rs: once the switch is up, traffic stays blocked through every drop of the
\* tunnel, failed reconnection, failed re-engagement, window close and crash, until the user
\* disconnects, disables it or runs `killswitch off`.
FailClosed == armed => fw.block

\* killswitch.rs: "the next launch detects it via is_engaged and offers to clear it".  A user
\* without a tunnel is offered the way back from every switch that this process engaged, or
\* found when it started, and has not taken down, whatever later attempts did to the switch.
\* Not so of a switch that the look at the start missed: see the README.
WayBackOffered ==
    running /\ ~client /\ ~connecting /\ seen => ks_stranded

\* route.rs: "a disconnect, however it happens, always tears them down".  Once the client is gone
\* and no attempt is under way no route of ours is left, whichever installation failed where,
\* but for those whose own deletion failed and those of a process that crashed.
RoutesGone ==
    ~client /\ ~connecting => routes \subseteq lost_routes

\* dns.rs: once the client is gone every resolver setting is what it was before, the adapters
\* that came up meanwhile included, but for the places that a failed write or restoration, a
\* crash, or a thread at work on them when its guard was dropped left to nobody.
DnsRestored ==
    ~client /\ ~connecting =>
        guard = 0 /\ \A a \in Places \ lost_dns : resolver[a] = "own"

\* What the dropdown shows is what the tunnel shapes by.  Not so: see the README.
ShownProfileRuns == client /\ tunnel => shaping = profile
=============================================================================
