-------------------------------- MODULE DnsGuard --------------------------------
(***************************************************************************)
(* The DNS override of a full-tunnel client.  Installing it saves what     *)
(* every place that names resolvers says and points it at the tunnel's     *)
(* resolvers; dropping it puts the saved settings back.  On Linux there is *)
(* one place, /etc/resolv.conf.  On Windows there is one per adapter that  *)
(* is up, and a thread per guard that covers the adapters that come up     *)
(* later.  Dropping a guard asks its thread to stop and does not wait for  *)
(* it: a pass that is under way goes on.  A restoration may fail, and      *)
(* nobody hears of it.                                                     *)
(*                                                                         *)
(* The actions are parts of the client's actions; see ClientLifecycle.     *)
(***************************************************************************)
EXTENDS Naturals, FiniteSets

CONSTANTS
    Adapters,   \* the network adapters of a Windows host
    MaxGuards   \* bound: overrides installed

Guards == 1..MaxGuards

VARIABLES
    platform,   \* "linux" or "windows"
    up,         \* the adapters that are up
    resolver,   \* what each place says: "own", "ours", or "broken" (gone, or cut short)
    guard,      \* the installed DnsGuard, 0 for None
    saved,      \* per guard: Restore, what to put back where
    stop_flag,  \* per guard: its thread was asked to stop
    pass,       \* per guard: adapters its thread's refresh_tick still has to look at
    covered,    \* per guard: adapters it covered and has not pushed to saved yet
    lost_dns,   \* history: the places that a failed call, the death of the process or a thread
                \* at work on them when its guard was dropped left to nobody
    installs    \* number of guards so far

dns_vars == <<platform, up, resolver, guard, saved, stop_flag, pass, covered, lost_dns, installs>>

Places == IF platform = "linux" THEN {"resolv.conf"} ELSE Adapters

\* What an override finds and can save.
Present == IF platform = "linux" THEN Places ELSE up

Nothing == [a \in {} |-> "own"]

DnsInit ==
    /\ platform \in {"linux", "windows"}
    /\ up \in IF platform = "linux" THEN {{}} ELSE SUBSET Adapters
    /\ resolver = [a \in Places |-> "own"]
    /\ guard = 0 /\ installs = 0 /\ lost_dns = {}
    /\ saved = [g \in Guards |-> Nothing]
    /\ stop_flag = [g \in Guards |-> TRUE]
    /\ pass = [g \in Guards |-> {}] /\ covered = [g \in Guards |-> Nothing]

-----------------------------------------------------------------------------

\* DnsGuard::install that succeeds: install_backend saves and overrides, then the thread starts.
InstallDns ==
    /\ installs < MaxGuards
    /\ installs' = installs + 1 /\ guard' = installs + 1
    /\ saved' = [saved EXCEPT ![guard'] = [a \in Present |-> resolver[a]]]
    /\ resolver' = [a \in Places |-> IF a \in Present THEN "ours" ELSE resolver[a]]
    /\ stop_flag' = [stop_flag EXCEPT ![guard'] = platform = "linux"]
    /\ UNCHANGED <<platform, up, pass, covered, lost_dns>>

\* apply_resolv_conf that fails: nothing is changed, or the write failed when the link was gone
\* or the file cut to nothing; what there was is forgotten.  PowerShell that does not start.
InstallDnsFails ==
    /\ \/ UNCHANGED <<resolver, lost_dns>>
       \/ /\ platform = "linux"
          /\ resolver' = [a \in Places |-> "broken"] /\ lost_dns' = Places
    /\ UNCHANGED <<platform, up, guard, saved, stop_flag, pass, covered, installs>>

\* Drop of the guard, when there is one: stop the thread, restore_backend, and do not join.
\* What is not put back stays as it is, or is cut short; nobody hears of it.  The saved list
\* lives on only while the thread uses it.
DropDns ==
    IF guard = 0
    THEN UNCHANGED dns_vars
    ELSE /\ stop_flag' = [stop_flag EXCEPT ![guard] = TRUE]
         /\ \E back, cut \in SUBSET DOMAIN saved[guard] :
               /\ cut \cap back = {} /\ (platform = "windows" => cut = {})
               /\ resolver' = [a \in Places |-> IF a \in cut THEN "broken" ELSE
                                                IF a \in back THEN saved[guard][a] ELSE resolver[a]]
               /\ lost_dns' = lost_dns \cup (DOMAIN saved[guard] \ back) \cup DOMAIN covered[guard]
         /\ saved' = IF pass[guard] = {} /\ DOMAIN covered[guard] = {}
                     THEN [saved EXCEPT ![guard] = Nothing] ELSE saved
         /\ guard' = 0
         /\ UNCHANGED <<platform, up, pass, covered, installs>>

\* The process is gone without a drop, and its threads with it.
LoseDns ==
    /\ guard' = 0
    /\ stop_flag' = [g \in Guards |-> TRUE]
    /\ pass' = [g \in Guards |-> {}] /\ covered' = [g \in Guards |-> Nothing]
    /\ saved' = [g \in Guards |-> Nothing]
    /\ lost_dns' = IF guard = 0 THEN lost_dns
                   ELSE lost_dns \cup DOMAIN saved[guard] \cup DOMAIN covered[guard]
    /\ UNCHANGED <<platform, up, resolver, installs>>

-----------------------------------------------------------------------------
(* The refresher thread of guard g, and the adapters *)

\* start_refresher's loop: not stopped after the sleep, so refresh_tick lists the adapters.
RefreshTick(g) ==
    /\ ~stop_flag[g] /\ pass[g] = {} /\ DOMAIN covered[g] = {} /\ up # {}
    /\ pass' = [pass EXCEPT ![g] = up]
    /\ UNCHANGED <<platform, up, resolver, guard, saved, stop_flag, covered, lost_dns, installs>>

\* cover_adapter: read and set.  A thread that was told to stop covers for nobody.
Cover(g, a) ==
    /\ covered' = [covered EXCEPT ![g] = [b \in {a} |-> resolver[a]]]
    /\ resolver' = [resolver EXCEPT ![a] = "ours"]
    /\ lost_dns' = IF stop_flag[g] THEN lost_dns \cup {a} ELSE lost_dns

\* Plausible slip: every listed adapter is captured again, the covered ones too.
RefreshCover_again(g, a) ==
    /\ a \in pass[g] /\ DOMAIN covered[g] = {}
    /\ pass' = [pass EXCEPT ![g] = @ \ {a}]
    /\ Cover(g, a)
    /\ UNCHANGED <<platform, up, guard, saved, stop_flag, installs>>

\* An adapter of the list: skipped when saved has it, else covered; PowerShell may not start.
RefreshCover(g, a) ==
    /\ a \in pass[g] /\ DOMAIN covered[g] = {}
    /\ pass' = [pass EXCEPT ![g] = @ \ {a}]
    /\ \/ UNCHANGED <<resolver, covered, lost_dns>>
       \/ a \notin DOMAIN saved[g] /\ Cover(g, a)
    /\ UNCHANGED <<platform, up, guard, saved, stop_flag, installs>>

\* The captured original is pushed.  restore_backend writes the list in order, so the entry
\* that counts for an adapter is the last one.
RefreshSave(g) ==
    /\ DOMAIN covered[g] # {}
    /\ saved' = [saved EXCEPT ![g] =
                    [a \in DOMAIN @ \cup DOMAIN covered[g] |->
                        IF a \in DOMAIN covered[g] THEN covered[g][a] ELSE @[a]]]
    /\ covered' = [covered EXCEPT ![g] = Nothing]
    /\ UNCHANGED <<platform, up, resolver, guard, stop_flag, pass, lost_dns, installs>>

\* An adapter comes up or goes down; it keeps its setting.
AdapterChange(a) ==
    /\ platform = "windows"
    /\ up' = IF a \in up THEN up \ {a} ELSE up \cup {a}
    /\ UNCHANGED <<platform, resolver, guard, saved, stop_flag, pass, covered, lost_dns, installs>>

DnsNext ==
    \/ \E g \in Guards : RefreshTick(g) \/ RefreshSave(g)
    \/ \E g \in Guards, a \in Adapters : RefreshCover(g, a)
    \/ \E a \in Adapters : AdapterChange(a)

\* What one guard has saved, or covered and not saved yet.
SavedOK(f) == DOMAIN f \subseteq Places /\ \A a \in DOMAIN f : f[a] \in {"own", "ours", "broken"}

\* The adapters there are to watch.
Watched == IF platform = "linux" THEN {} ELSE Adapters

DnsTypeOK ==
    /\ platform \in {"linux", "windows"} /\ up \subseteq Watched
    /\ resolver \in [Places -> {"own", "ours", "broken"}]
    /\ guard \in 0..MaxGuards /\ installs \in 0..MaxGuards
    /\ lost_dns \subseteq Places
    /\ stop_flag \in [Guards -> BOOLEAN]
    /\ pass \in [Guards -> SUBSET Watched]
    /\ DOMAIN saved = Guards /\ DOMAIN covered = Guards
    /\ \A g \in Guards : SavedOK(saved[g]) /\ SavedOK(covered[g])
=============================================================================
