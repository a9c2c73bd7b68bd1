----------------------------- MODULE AndroidService -----------------------------
(***************************************************************************)
(* The Android app's VPN service and the JNI bridge under it.  A           *)
(* supervisor coroutine connects, watches the tunnel and reconnects; a     *)
(* stop coroutine joins it, stops the native side and closes the TUN; the  *)
(* system may tear the service down from the main thread at any time.      *)
(* They meet on the service's fields and on the bridge's static handles    *)
(* CLIENT and TRAFFIC.  The TUN file descriptor belongs to the service;    *)
(* the tokio tasks that read and write it end some time after they were    *)
(* asked to.                                                               *)
(*                                                                         *)
(* A native call blocks its caller, so cancelling a coroutine takes effect *)
(* only where it suspends.  A native session is numbered in the order of   *)
(* the calls of nativeStart; its tasks                                     *)
(*   "handshake" run while nativeStart is in Client::connect               *)
(*   "up"        run under run_tunnel_loops                                *)
(*   "down"      are over, the loops ended by themselves                   *)
(*   "stopping"  were aborted by Client::disconnect                        *)
(*   "aborted"   the tunnel task is gone, the TUN tasks were told to stop  *)
(*   "parked"    outlive a failed handshake until a packet wakes them      *)
(*   "gone"      are over                                                  *)
(***************************************************************************)
EXTENDS Naturals, FiniteSets

CONSTANTS
    Profiles,       \* the traffic profiles offered
    Saved,          \* those an earlier run of the app may have saved
    MaxStarts,      \* bound: calls of startTunnel
    MaxUserStops,   \* bound: calls of stopTunnel by the user
    MaxSessions,    \* bound: calls of nativeStart that reach the handshake
    MaxFds,         \* bound: TUN devices established
    MaxCalls        \* bound: calls of nativeSetProfile under way for one profile

ASSUME ServiceAssumption ==
    /\ {MaxStarts, MaxUserStops, MaxSessions, MaxFds, MaxCalls} \subseteq Nat
    /\ Saved # {} /\ Saved \subseteq Profiles /\ "none" \notin Profiles

Sups     == 1..MaxStarts
Sessions == 1..MaxSessions
\* A stop coroutine is launched by a supervisor whose first attempt failed, or by the user.
Stops    == (Sups \X {"failure"}) \cup ((1..MaxUserStops) \X {"user"})

VARIABLES
    alive,          \* the service instance exists
    inst,           \* number of instances so far
    pfd,            \* its ParcelFileDescriptor, 0 for null
    tunnelJob,      \* its supervisor, 0 for null
    userStopped,    \* the instances whose flag is set
    main,           \* the main thread: "free", or in onRevoke or onDestroy
    main_wait,      \* the session whose end the main thread's nativeStop awaits
    status,         \* _status
    sup,            \* the supervisors
    stop,           \* the stop coroutines
    CLIENT,         \* the static handle, 0 for None
    TRAFFIC,        \* the static handle is Some
    override,       \* PROFILE_OVERRIDE, "none" for None
    store,          \* ProfileStore: what the user chose
    pending,        \* the number of nativeSetProfile calls launched and not yet run, by profile
    sess,           \* the native sessions
    fds,            \* TUN devices established so far
    open,           \* the open ones
    orderly,        \* history: no request met an earlier one still at work
    missed          \* history: a call ran while nativeStart was at work, or a choice was made while
                    \* an earlier call was under way, and no later choice or connection mended it

bridge_vars == <<CLIENT, TRAFFIC, override, sess>>
vars == <<alive, inst, pfd, tunnelJob, userStopped, main, main_wait, status, sup, stop,
          bridge_vars, store, pending, fds, open, orderly, missed>>

NoSup   == [pc |-> "none", cancelled |-> FALSE, ever |-> FALSE, inst |-> 0, fd |-> 0, sess |-> 0]
NoStop  == [pc |-> "none", job |-> 0, inst |-> 0, sess |-> 0]
NoSess  == [st |-> "none", fd |-> 0, profile |-> "none"]
NoCalls == [p \in Profiles |-> 0]

Init ==
    /\ alive = FALSE /\ inst = 0 /\ pfd = 0 /\ tunnelJob = 0 /\ userStopped = {}
    /\ main = "free" /\ main_wait = 0 /\ status = "idle"
    /\ sup = [s \in Sups |-> NoSup] /\ stop = [c \in Stops |-> NoStop]
    /\ CLIENT = 0 /\ TRAFFIC = FALSE /\ override = "none"
    /\ store \in Saved /\ pending = NoCalls
    /\ sess = [n \in Sessions |-> NoSess]
    /\ fds = 0 /\ open = {}
    /\ orderly = TRUE /\ missed = FALSE

-----------------------------------------------------------------------------
(* The bridge *)

started == Cardinality({n \in Sessions : sess[n].st # "none"})

\* native_status_inner
Up == CLIENT # 0 /\ sess[CLIENT].st = "up"

\* A session that runs no more: its profile is of no use, and its descriptor only to its tasks.
Ending(n, st) == [sess EXCEPT ![n] = [NoSess EXCEPT !.st = st, !.fd = IF st \in {"down", "gone"} THEN 0 ELSE sess[n].fd]]

\* native_stop_inner up to the wait: TRAFFIC goes, CLIENT is taken and its task aborted.
NativeStop ==
    /\ TRAFFIC' = FALSE /\ CLIENT' = 0
    /\ sess' = IF Up THEN Ending(CLIENT, "stopping") ELSE sess
    /\ UNCHANGED override

\* disconnect_and_wait returns once the tunnel task's future is dropped.
Awaited(n) == n # 0 => sess[n].st # "stopping"

\* Plausible slip: the choice is only applied to a running tunnel and not remembered.
SetProfile_live_only(p) ==
    /\ override' = override
    /\ sess' = IF Up /\ TRAFFIC THEN [sess EXCEPT ![CLIENT].profile = p] ELSE sess
    /\ UNCHANGED <<CLIENT, TRAFFIC>>

\* native_set_profile_inner: remembered, and applied to the stored client when there is one.
SetProfile(p) ==
    /\ override' = p
    /\ sess' = IF Up /\ TRAFFIC THEN [sess EXCEPT ![CLIENT].profile = p] ELSE sess
    /\ UNCHANGED <<CLIENT, TRAFFIC>>

\* The tokio side, whenever the runtime gets to it.
TunnelStops(n) ==       \* run_tunnel_loops ends and awaits its tasks
    /\ sess[n].st = "up" /\ sess' = Ending(n, "down")
    /\ UNCHANGED <<alive, inst, pfd, tunnelJob, userStopped, main, main_wait, status, sup, stop,
                   CLIENT, TRAFFIC, override, store, pending, fds, open, orderly, missed>>

TasksEnd(n) ==          \* the aborted tunnel task is dropped, TunGuard aborts the TUN tasks
    /\ \/ sess[n].st = "stopping" /\ sess' = Ending(n, "aborted")
       \/ sess[n].st \in {"aborted", "parked"} /\ sess' = Ending(n, "gone")
    /\ UNCHANGED <<alive, inst, pfd, tunnelJob, userStopped, main, main_wait, status, sup, stop,
                   CLIENT, TRAFFIC, override, store, pending, fds, open, orderly, missed>>

-----------------------------------------------------------------------------
(* Requests to the service, on the main thread *)

Idle(s) == sup[s].pc \in {"none", "done"}

\* The supervisor is not there, or at a suspension point.
AtRest(s) == sup[s].pc \in {"none", "new", "foreground", "monitor", "backoff", "done"}

StopsIdle == \A c \in Stops : stop[c].pc \in {"none", "done"}

Cancel(s) == IF s = 0 THEN sup ELSE [sup EXCEPT ![s].cancelled = ~Idle(s)]

\* startTunnel, from the app or from the system's always-on setting.
StartTunnel(s) ==
    /\ main = "free" /\ sup[s].pc = "none" /\ \A t \in Sups : t < s => sup[t].pc # "none"
    /\ alive' = TRUE /\ inst' = IF alive THEN inst ELSE inst + 1
    /\ status' = "connecting" /\ userStopped' = userStopped \ {inst'}
    /\ tunnelJob' = s
    /\ sup' = [Cancel(tunnelJob) EXCEPT ![s] = [NoSup EXCEPT !.pc = "new", !.inst = inst']]
    /\ orderly' = (orderly /\ StopsIdle /\ \A t \in Sups : AtRest(t))
    /\ UNCHANGED <<pfd, main, main_wait, stop, bridge_vars, store, pending, fds, open, missed>>

\* ... or it may not come to the foreground.
StartRefused ==
    /\ main = "free" /\ alive /\ status # "error"
    /\ status' = "error"
    /\ orderly' = (orderly /\ StopsIdle /\ \A s \in Sups : Idle(s))
    /\ UNCHANGED <<alive, inst, pfd, tunnelJob, userStopped, main, main_wait, sup, stop,
                   bridge_vars, store, pending, fds, open, missed>>

\* stopTunnel: the coroutine is launched with the job to join.
LaunchStop(c) ==
    /\ userStopped' = userStopped \cup {inst} /\ tunnelJob' = 0
    /\ stop' = [stop EXCEPT ![c] = [NoStop EXCEPT !.pc = "begin", !.job = tunnelJob, !.inst = inst]]

StopTunnel(k) ==
    /\ main = "free" /\ alive /\ stop[<<k, "user">>].pc = "none"
    /\ \A j \in 1..MaxUserStops : j < k => stop[<<j, "user">>].pc # "none"
    /\ LaunchStop(<<k, "user">>)
    /\ orderly' = (orderly /\ StopsIdle)
    /\ UNCHANGED <<alive, inst, pfd, main, main_wait, status, sup, bridge_vars, store, pending,
                   fds, open, missed>>

Active == status \in {"connecting", "connected", "reconnecting"}

CallsUnderWay == \E p \in Profiles : pending[p] > 0

\* selectProfile saves the choice; while the service is active onStartCommand launches a
\* coroutine with it.  They run in any order, so one that is under way may come last.
SelectProfile(p) ==
    /\ store # p /\ pending[p] < MaxCalls
    /\ store' = p
    /\ pending' = IF Active THEN [pending EXCEPT ![p] = @ + 1] ELSE pending
    /\ missed' = (CallsUnderWay \/ (missed /\ ~Active))
    /\ UNCHANGED <<alive, inst, pfd, tunnelJob, userStopped, main, main_wait, status, sup, stop,
                   bridge_vars, fds, open, orderly>>

RunSetProfile(p) ==
    /\ pending[p] > 0
    /\ pending' = [pending EXCEPT ![p] = @ - 1]
    /\ SetProfile(p)
    /\ missed' = (missed \/ \E s \in Sups : sup[s].pc \in {"handshake", "traffic", "store"})
    /\ UNCHANGED <<alive, inst, pfd, tunnelJob, userStopped, main, main_wait, status, sup, stop,
                   store, fds, open, orderly>>

\* teardownSync, from onRevoke or onDestroy, up to the end of its nativeStop: nobody is joined.
Teardown(why) ==
    /\ main = "free" /\ alive
    /\ main' = why /\ main_wait' = CLIENT
    /\ userStopped' = userStopped \cup {inst} /\ tunnelJob' = 0
    /\ sup' = Cancel(tunnelJob)
    /\ NativeStop
    /\ orderly' = (orderly /\ (why = "destroy" \/ StopsIdle) /\ \A s \in Sups : AtRest(s))
    /\ UNCHANGED <<alive, inst, pfd, status, stop, store, pending, fds, open, missed>>

\* The rest of it; onDestroy then cancels every coroutine of the instance.
TeardownEnds ==
    /\ main # "free" /\ Awaited(main_wait)
    /\ open' = open \ {pfd} /\ pfd' = 0
    /\ status' = "idle" /\ main' = "free" /\ main_wait' = 0
    /\ IF main = "destroy"
       THEN /\ alive' = FALSE /\ pending' = NoCalls
            /\ sup' = [s \in Sups |-> [sup[s] EXCEPT !.cancelled = @ \/ sup[s].inst = inst]]
       ELSE UNCHANGED <<alive, pending, sup>>
    /\ UNCHANGED <<inst, tunnelJob, userStopped, stop, bridge_vars, store, fds, orderly,
                   missed>>

-----------------------------------------------------------------------------
(* The supervisor *)

Goto(s, pc) == [sup EXCEPT ![s].pc = pc]
Return(s)   == [sup EXCEPT ![s] = [NoSup EXCEPT !.pc = "done"]]
Mine(s)     == alive /\ sup[s].inst = inst

\* A suspension point: a cancelled coroutine ends there, one that never started too.
Cancelled(s) ==
    /\ sup[s].cancelled /\ sup[s].pc \in {"new", "foreground", "monitor", "backoff"}
    /\ sup' = Return(s)
    /\ UNCHANGED <<alive, inst, pfd, tunnelJob, userStopped, main, main_wait, status, stop,
                   bridge_vars, store, pending, fds, open, orderly, missed>>

\* connectOnce 1: nativeStop clears a stale client.
Clear(s) ==
    /\ sup[s].pc \in {"new", "backoff"} /\ ~sup[s].cancelled /\ started < MaxSessions
    /\ IF sup[s].inst \in userStopped
       THEN sup' = Return(s) /\ UNCHANGED bridge_vars
       ELSE /\ sup' = [sup EXCEPT ![s].pc = "cleared", ![s].sess = CLIENT]
            /\ NativeStop
    /\ UNCHANGED <<alive, inst, pfd, tunnelJob, userStopped, main, main_wait, status, stop,
                   store, pending, fds, open, orderly, missed>>

\* connectOnce 2: the saved profile.
Profile(s) ==
    /\ sup[s].pc = "cleared" /\ Awaited(sup[s].sess)
    /\ SetProfile(store)
    /\ missed' = (missed /\ CallsUnderWay)
    /\ sup' = [sup EXCEPT ![s].pc = "tun", ![s].sess = 0]
    /\ UNCHANGED <<alive, inst, pfd, tunnelJob, userStopped, main, main_wait, status, stop,
                   store, pending, fds, open, orderly>>

\* connectOnce 3: the TUN of an earlier attempt is reused, a missing one established.
Tun(s) ==
    /\ sup[s].pc = "tun"
    /\ IF Mine(s) /\ pfd # 0
       THEN sup' = [sup EXCEPT ![s].pc = "start", ![s].fd = pfd] /\ UNCHANGED <<pfd, fds, open>>
       ELSE /\ fds < MaxFds /\ fds' = fds + 1 /\ open' = open \cup {fds + 1}
            /\ sup' = [sup EXCEPT ![s].pc = "start", ![s].fd = fds + 1]
            /\ pfd' = IF Mine(s) THEN fds + 1 ELSE pfd
    /\ UNCHANGED <<alive, inst, tunnelJob, userStopped, main, main_wait, status, stop,
                   bridge_vars, store, pending, orderly, missed>>

\* native_start_inner up to the handshake: the check, the profile, from_raw_fd's tasks.
NativeStart(s) ==
    LET n == started + 1 IN
    /\ sup[s].pc = "start" /\ CLIENT = 0 /\ sup[s].fd \in open /\ n \in Sessions
    /\ sess' = [sess EXCEPT ![n] = [st |-> "handshake", fd |-> sup[s].fd, profile |-> override]]
    /\ sup' = [sup EXCEPT ![s].pc = "handshake", ![s].fd = 0, ![s].sess = n]
    /\ UNCHANGED <<alive, inst, pfd, tunnelJob, userStopped, main, main_wait, status, stop,
                   CLIENT, TRAFFIC, override, store, pending, fds, open, orderly, missed>>

\* Client::connect returns, then the two handles are set one after the other.
Established(s) ==
    /\ sup[s].pc = "handshake"
    /\ sess' = [sess EXCEPT ![sup[s].sess].st = "up"]
    /\ sup' = Goto(s, "traffic")
    /\ UNCHANGED <<alive, inst, pfd, tunnelJob, userStopped, main, main_wait, status, stop,
                   CLIENT, TRAFFIC, override, store, pending, fds, open, orderly, missed>>

StoreTraffic(s) ==
    /\ sup[s].pc = "traffic"
    /\ TRAFFIC' = TRUE /\ sup' = Goto(s, "store")
    /\ UNCHANGED <<alive, inst, pfd, tunnelJob, userStopped, main, main_wait, status, stop,
                   CLIENT, override, sess, store, pending, fds, open, orderly, missed>>

StoreClient(s) ==
    /\ sup[s].pc = "store"
    /\ CLIENT' = sup[s].sess
    /\ sup' = [sup EXCEPT ![s].pc = "connected", ![s].sess = 0]
    /\ UNCHANGED <<alive, inst, pfd, tunnelJob, userStopped, main, main_wait, status, stop,
                   TRAFFIC, override, sess, store, pending, fds, open, orderly, missed>>

\* Plausible slip: the supervisor awaits the stop it asked for, which joins the supervisor.
ConnectFails_awaits(s) ==
    /\ sup[s].pc \in {"tun", "start", "handshake"}
    /\ sess' = IF sup[s].pc = "handshake" THEN Ending(sup[s].sess, "parked") ELSE sess
    /\ IF sup[s].ever \/ ~Mine(s)
       THEN sup' = [sup EXCEPT ![s].pc = "lost", ![s].fd = 0, ![s].sess = 0] /\ UNCHANGED <<userStopped, tunnelJob, stop>>
       ELSE sup' = Goto(s, "awaits") /\ LaunchStop(<<s, "failure">>)
    /\ UNCHANGED <<alive, inst, pfd, main, main_wait, status, CLIENT, TRAFFIC, override, store,
                   pending, fds, open, orderly, missed>>

\* What throws: no config, a bad one, no permission, "already connected", a closed fd, a failed
\* handshake.  The first attempt's failure stops the service, a later one is retried.
ConnectFails(s) ==
    /\ sup[s].pc \in {"tun", "start", "handshake"}
    /\ sess' = IF sup[s].pc = "handshake" THEN Ending(sup[s].sess, "parked") ELSE sess
    /\ IF sup[s].ever
       THEN sup' = [sup EXCEPT ![s].pc = "lost", ![s].fd = 0, ![s].sess = 0] /\ UNCHANGED <<userStopped, tunnelJob, stop>>
       ELSE /\ sup' = Return(s)
            /\ IF Mine(s) THEN LaunchStop(<<s, "failure">>)
                          ELSE UNCHANGED <<userStopped, tunnelJob, stop>>
    /\ UNCHANGED <<alive, inst, pfd, main, main_wait, status, CLIENT, TRAFFIC, override, store,
                   pending, fds, open, orderly, missed>>

\* supervise, or monitor after a poll: connected; the notification, on the main thread, is the
\* next suspension point.
NowConnected(s) ==
    /\ sup[s].pc \in {"connected", "polled"}
    /\ status' = "connected"
    /\ sup' = [sup EXCEPT ![s].pc = "foreground", ![s].ever = TRUE]
    /\ UNCHANGED <<alive, inst, pfd, tunnelJob, userStopped, main, main_wait, stop,
                   bridge_vars, store, pending, fds, open, orderly, missed>>

Foreground(s) ==
    /\ sup[s].pc = "foreground" /\ main = "free" /\ ~sup[s].cancelled
    /\ sup' = Goto(s, "monitor")
    /\ UNCHANGED <<alive, inst, pfd, tunnelJob, userStopped, main, main_wait, status, stop,
                   bridge_vars, store, pending, fds, open, orderly, missed>>

\* monitor: polls until the native side reports that it is not connected.
Monitor(s) ==
    /\ sup[s].pc = "monitor" /\ ~sup[s].cancelled
    /\ sup' = Goto(s, IF Up THEN "polled" ELSE "lost")
    /\ UNCHANGED <<alive, inst, pfd, tunnelJob, userStopped, main, main_wait, status, stop,
                   bridge_vars, store, pending, fds, open, orderly, missed>>

\* The tunnel is lost: the native side is stopped, the TUN is kept.
Lost(s) ==
    /\ sup[s].pc = "lost"
    /\ IF sup[s].inst \in userStopped
       THEN sup' = Return(s) /\ UNCHANGED bridge_vars
       ELSE sup' = [sup EXCEPT ![s].pc = "lost_wait", ![s].sess = CLIENT] /\ NativeStop
    /\ UNCHANGED <<alive, inst, pfd, tunnelJob, userStopped, main, main_wait, status, stop,
                   store, pending, fds, open, orderly, missed>>

\* Plausible slip: the TUN is closed for the time of the reconnection.
Reconnect_closes(s) ==
    /\ sup[s].pc = "lost_wait" /\ Awaited(sup[s].sess)
    /\ status' = "reconnecting"
    /\ sup' = [sup EXCEPT ![s].pc = "backoff", ![s].sess = 0]
    /\ open' = open \ {pfd} /\ pfd' = 0
    /\ UNCHANGED <<alive, inst, tunnelJob, userStopped, main, main_wait, stop,
                   bridge_vars, store, pending, fds, orderly, missed>>

\* ... and the next attempt waits for its turn.
Reconnect(s) ==
    /\ sup[s].pc = "lost_wait" /\ Awaited(sup[s].sess)
    /\ status' = "reconnecting"
    /\ sup' = [sup EXCEPT ![s].pc = "backoff", ![s].sess = 0]
    /\ UNCHANGED <<alive, inst, pfd, tunnelJob, userStopped, main, main_wait, stop,
                   bridge_vars, store, pending, fds, open, orderly, missed>>

-----------------------------------------------------------------------------
(* The stop coroutine of stopTunnel *)

Living(c) == alive /\ stop[c].inst = inst

\* Plausible slip: the supervisor is cancelled and not joined.
Join_cancel_only(c) ==
    /\ stop[c].pc = "begin" /\ Living(c)
    /\ sup' = Cancel(stop[c].job)
    /\ stop' = [stop EXCEPT ![c].pc = "native", ![c].job = 0]

\* cancelAndJoin: cancel, then wait for the supervisor's end.
Join(c) ==
    \/ /\ stop[c].pc = "begin" /\ Living(c)
       /\ sup' = Cancel(stop[c].job)
       /\ stop' = [stop EXCEPT ![c].pc = "join"]
    \/ /\ stop[c].pc = "join" /\ Living(c)
       /\ stop[c].job # 0 => Idle(stop[c].job)
       /\ stop' = [stop EXCEPT ![c].pc = "native", ![c].job = 0]
       /\ UNCHANGED sup

StopJoin(c) ==
    /\ Join(c)
    /\ UNCHANGED <<alive, inst, pfd, tunnelJob, userStopped, main, main_wait, status,
                   bridge_vars, store, pending, fds, open, orderly, missed>>

StopNative(c) ==
    /\ stop[c].pc = "native"
    /\ stop' = [stop EXCEPT ![c].pc = "wait", ![c].sess = CLIENT]
    /\ NativeStop
    /\ UNCHANGED <<alive, inst, pfd, tunnelJob, userStopped, main, main_wait, status, sup,
                   store, pending, fds, open, orderly, missed>>

\* Plausible slip: the TUN is left open, as it is for a reconnection.
StopMain_keeps_tun(c) ==
    /\ stop[c].pc = "wait" /\ Awaited(stop[c].sess) /\ Living(c) /\ main = "free"
    /\ status' = IF c[2] = "failure" THEN "error" ELSE "idle"
    /\ stop' = [stop EXCEPT ![c] = [NoStop EXCEPT !.pc = "done"]]
    /\ UNCHANGED <<alive, inst, pfd, tunnelJob, userStopped, main, main_wait, sup,
                   bridge_vars, store, pending, fds, open, orderly, missed>>

\* On the main thread: the TUN is closed and the status reset.
StopMain(c) ==
    /\ stop[c].pc = "wait" /\ Awaited(stop[c].sess) /\ Living(c) /\ main = "free"
    /\ open' = open \ {pfd} /\ pfd' = 0
    /\ status' = IF c[2] = "failure" THEN "error" ELSE "idle"
    /\ stop' = [stop EXCEPT ![c] = [NoStop EXCEPT !.pc = "done"]]
    /\ UNCHANGED <<alive, inst, tunnelJob, userStopped, main, main_wait, sup,
                   bridge_vars, store, pending, fds, orderly, missed>>

\* The instance is gone: the coroutine ends at its next suspension point.
StopLost(c) ==
    /\ ~Living(c)
    /\ \/ stop[c].pc \in {"begin", "join"}
       \/ stop[c].pc = "wait" /\ Awaited(stop[c].sess)
    /\ stop' = [stop EXCEPT ![c] = [NoStop EXCEPT !.pc = "done"]]
    /\ UNCHANGED <<alive, inst, pfd, tunnelJob, userStopped, main, main_wait, status, sup,
                   bridge_vars, store, pending, fds, open, orderly, missed>>

Supervise(s) ==
    \/ Cancelled(s) \/ Clear(s) \/ Profile(s) \/ Tun(s) \/ NativeStart(s) \/ Established(s)
    \/ StoreTraffic(s) \/ StoreClient(s) \/ ConnectFails(s) \/ NowConnected(s) \/ Foreground(s)
    \/ Monitor(s) \/ Lost(s) \/ Reconnect(s)

Next ==
    \/ \E s \in Sups : StartTunnel(s) \/ Supervise(s)
    \/ StartRefused
    \/ \E k \in 1..MaxUserStops : StopTunnel(k)
    \/ \E c \in Stops : StopJoin(c) \/ StopNative(c) \/ StopMain(c) \/ StopLost(c)
    \/ \E p \in Profiles : SelectProfile(p) \/ RunSetProfile(p)
    \/ \E why \in {"revoke", "destroy"} : Teardown(why)
    \/ TeardownEnds
    \/ \E n \in Sessions : TunnelStops(n) \/ TasksEnd(n)

\* The dispatchers run what is ready, a native call returns (the handshake has time limits,
\* disconnect_and_wait awaits an aborted task and has none), and the runtime drops what was
\* aborted.  The main thread takes what is posted to it in order: a teardown does not keep a
\* stop's last part from running for ever.
Fairness ==
    /\ WF_vars(\E s \in Sups : Supervise(s))
    /\ WF_vars(\E c \in Stops : StopJoin(c) \/ StopNative(c) \/ StopLost(c))
    /\ SF_vars(\E c \in Stops : StopMain(c))
    /\ WF_vars(\E n \in Sessions : TasksEnd(n))
    /\ WF_vars(TeardownEnds)

Spec == Init /\ [][Next]_vars /\ Fairness

-----------------------------------------------------------------------------
(* Properties *)

Running == {"handshake", "up"}

\* Type invariant.
TypeOK ==
    /\ {alive, TRAFFIC, orderly, missed} \subseteq BOOLEAN
    /\ inst \in 0..MaxStarts /\ userStopped \subseteq 0..MaxStarts
    /\ fds \in 0..MaxFds /\ open \subseteq 1..fds /\ pfd \in open \cup {0}
    /\ tunnelJob \in Sups \cup {0} /\ {CLIENT, main_wait} \subseteq Sessions \cup {0}
    /\ main \in {"free", "revoke", "destroy"}
    /\ status \in {"idle", "connecting", "connected", "reconnecting", "error"}
    /\ store \in Profiles /\ pending \in [Profiles -> Nat] /\ override \in Profiles \cup {"none"}
    /\ sup \in [Sups -> [pc : {"none", "new", "cleared", "tun", "start", "handshake", "traffic",
                              "store", "connected", "foreground", "monitor", "polled", "lost",
                              "lost_wait", "backoff", "done"},
                        cancelled : BOOLEAN, ever : BOOLEAN, inst : 0..MaxStarts,
                        fd : 0..MaxFds, sess : Sessions \cup {0}]]
    /\ stop \in [Stops -> [pc : {"none", "begin", "join", "native", "wait", "done"},
                          job : Sups \cup {0}, inst : 0..MaxStarts, sess : Sessions \cup {0}]]
    /\ sess \in [Sessions -> [st : Running \cup {"none", "down", "stopping", "aborted", "parked", "gone"},
                             fd : 0..MaxFds, profile : Profiles \cup {"none"}]]

\* from_raw_fd's contract with nativeStop: the TUN is not closed under a tunnel that runs or
\* connects, as long as no request comes while a coroutine is inside a native call it does
\* not join.
FdOutlivesTunnel ==
    orderly => \A n \in Sessions : sess[n].st \in Running => sess[n].fd \in open

\* ... and it is not closed before the tasks that use it have ended.  Not so: see the README.
FdOutlivesReaders ==
    orderly => \A n \in Sessions : sess[n].st \notin {"none", "down", "gone"} => sess[n].fd \in open

\* stopTunnel and teardownSync: once every coroutine has ended there is no client, no tunnel that
\* connects or runs and no open TUN, and the window says so.  Tasks that were aborted or parked
\* may still be about to end.
StoppedMeansStopped ==
    orderly /\ inst > 0 /\ main = "free" /\ StopsIdle /\ (\A s \in Sups : Idle(s)) =>
        /\ CLIENT = 0 /\ ~TRAFFIC /\ \A n \in Sessions : sess[n].st \notin Running
        /\ pfd = 0 /\ open = {}
        /\ status \in {"idle", "error"}

\* supervise keeps the TUN through a reconnection: "apps' packets are dropped instead of leaking
\* onto the open network".
TunHeld ==
    orderly /\ alive /\ inst \notin userStopped =>
        \A s \in Sups : Mine(s) /\ sup[s].ever /\ ~sup[s].cancelled /\ ~Idle(s) => pfd \in open

\* connectOnce: "the profile chosen in the UI wins over the config's, on every (re)connect", and
\* a running tunnel follows it, through losses, failed attempts and stops.  Two exceptions, which
\* the README lists: a choice that nativeSetProfile applies while nativeStart is at work, and
\* one made while an earlier call is under way, until the next connection takes it up.
ProfileWins ==
    orderly /\ Up /\ ~CallsUnderWay /\ ~missed => sess[CLIENT].profile = store

\* stopTunnel: "the join cannot deadlock".  Every stop coroutine comes to its end, the one a
\* supervisor starts on its own failure too.
StopFinishes == []<>StopsIdle
=============================================================================
