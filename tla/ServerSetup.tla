------------------------------ MODULE ServerSetup ------------------------------
(***************************************************************************)
(* `chameleon-pq setup` on a Linux host: a run works through a plan of     *)
(* steps; a step whose end state is found in place is skipped, one that    *)
(* the administrator declines too, and the first command that fails ends   *)
(* the run where it stands.  The host keeps what was done: the next run    *)
(* plans again from what it finds.  A reboot may come at any time and      *)
(* leaves of the running state what the disk tells the boot to restore.    *)
(*                                                                         *)
(* A dry run skips every step, so it has no action here.  A config pair is *)
(* its number and the network facts (port and tunnel network) it was made  *)
(* for; the pair's two halves are the same pair in two files.              *)
(***************************************************************************)
EXTENDS Naturals, Sequences

CONSTANTS
    Nets,       \* the port and network facts a pair may be generated for
    MaxRuns,    \* bound: runs of setup, each generates one pair at most
    MaxFaults,  \* bound: steps declined and runs broken off
    Firewalls   \* what detect_firewall may find; "nft" when nothing is active

ASSUME SetupAssumption ==
    /\ Nets \subseteq Nat \ {0} /\ Nets # {}
    /\ MaxRuns \in Nat /\ MaxFaults \in Nat
    /\ Firewalls \subseteq {"firewalld", "ufw", "nft"}

\* A pair that is not there: number 0.
NoPair == [id |-> 0, net |-> 0]

Pairs == [id : 1..MaxRuns, net : Nets]

VARIABLES
    active,     \* what guards this host
    firewall,   \* what the current or last run set up for: what it found, "none" for None
    packaged,   \* units_packaged: the units came with the package
    disk,       \* the parts in place on disk
    live,       \* the parts in effect in the running system
    fw_perm,    \* firewall rules of the permanent configurations: <<firewall, rule, net>>
    fw_run,     \* firewall rules in force
    server,     \* the pair in server-config.toml
    client,     \* the pair in chameleon-pq-client.toml
    backups,    \* the pairs in server-config.toml.bak-<time>
    nft_file,   \* chameleon-pq.nft: <<with NAT, net>>, <<>> when missing
    nft_loaded, \* our nftables table
    service,    \* the pair the running server loaded
    plan,       \* steps of the current run still to come
    todo,       \* operations of the step being applied still to come
    job,        \* what the current run decided when it started
    runs,       \* runs started
    faults,     \* steps declined and runs broken off so far
    outcome,    \* how the last run ended, or "running"
    steady,     \* history: no run since the boot, nor the last one before it, broke off or was declined
                \* a step, and none since the boot kept a config and made its NAT another one's
    taken,      \* history: pairs whose client file reached the client
    forgone     \* history: pairs whose client file a forced run overwrote before, with the server
                \* half still in place

host == <<active, packaged, disk, live, fw_perm, fw_run, server, client, backups,
          nft_file, nft_loaded, service>>
vars == <<host, firewall, plan, todo, job, runs, faults, outcome, steady, taken, forgone>>

Parts     == {"account", "dir", "dir_group", "dir_mode", "sysctl", "main_unit", "nft_unit", "enabled"}
LiveParts == {"forwarding", "nft_active"}
Rules     == {"port", "masquerade", "trust", "route"}
NoJob     == [force |-> FALSE, keep |-> FALSE, pair |-> NoPair, changed |-> FALSE, full |-> TRUE]

\* What the packages leave behind, and a host that may already forward for another reason.
Init ==
    /\ active \in Firewalls /\ firewall = "none" /\ packaged \in BOOLEAN
    /\ disk = IF packaged THEN {"account", "main_unit", "nft_unit"} ELSE {}
    /\ live \in SUBSET {"forwarding"}
    /\ fw_perm = {} /\ fw_run = {}
    /\ server = NoPair /\ client = NoPair /\ backups = {}
    /\ nft_file = <<>> /\ nft_loaded = <<>> /\ service = NoPair
    /\ plan = <<>> /\ todo = <<>> /\ job = NoJob /\ runs = 0 /\ faults = 0
    /\ outcome = "none" /\ steady = TRUE /\ taken = {} /\ forgone = {}

-----------------------------------------------------------------------------
(* The plan *)

\* steps_firewall: nftables alone needs no step, its NAT is in our own table.
steps_firewall(fw) ==
    CASE fw = "firewalld" -> <<"port", "masquerade", "trust", "reload">>
      [] fw = "ufw"       -> <<"port", "route">>
      [] OTHER            -> <<>>

\* run: the steps in their order; an existing config is kept unless --force.
Plan(fw, keep) ==
    <<"user", "dir">> \o (IF keep THEN <<>> ELSE <<"identity">>) \o <<"sysctl">>
    \o steps_firewall(fw) \o <<"nft">>
    \o (IF packaged THEN <<>> ELSE <<"units">>) \o <<"services">>

\* NAT is ours unless firewalld does it or the administrator does.
with_nat(fw) == fw \in {"nft", "ufw"}

render_nft(net) == IF with_nat(firewall) THEN <<"nat", net>> ELSE <<"clamp", 0>>

\* The rule a firewall step adds.  Only the port depends on the config.
Rule(step) == <<firewall, step, IF step = "port" THEN job.pair.net ELSE 0>>

\* The stored rules that count: those of the firewall that is active.
Stored == {rule \in fw_perm : rule[1] = active}

\* Plausible slip: the step trusts the running kernel and not the file.
sysctl_done_live_only ==
    "forwarding" \in live

\* step_sysctl, done: the file and the running kernel.
sysctl_done ==
    "sysctl" \in disk /\ "forwarding" \in live

\* Plausible slip: a running service is left alone, whatever it was started with.
services_done_ignores_restart ==
    service # NoPair /\ "enabled" \in disk /\ "nft_active" \in live

\* step_services, done: never after a pair was generated.
services_done ==
    /\ job.keep
    /\ service # NoPair /\ "enabled" \in disk /\ "nft_active" \in live

\* The done closures: whether the step's end state is found in place.
Done(step) ==
    CASE step = "user"     -> "account" \in disk
      [] step = "dir"      -> {"dir", "dir_mode"} \subseteq disk
      [] step = "identity" -> FALSE
      [] step = "sysctl"   -> sysctl_done
      [] step = "reload"   -> ~job.changed
      [] step = "nft"      -> nft_file = render_nft(job.pair.net)
      [] step = "units"    -> {"main_unit", "nft_unit"} \subseteq disk
      [] step = "services" -> services_done
      [] OTHER             -> Rule(step) \in fw_perm

\* Plausible slip: the server half is written before the client half.
Ops_server_first(step) ==
    CASE step = "dir"      -> <<"mkdir", "chown", "chmod">>
      [] step = "identity" -> <<"backup", "write_server", "write_client">>
      [] step = "sysctl"   -> <<"sysctl_file", "sysctl_w">>
      [] step = "units"    -> <<"main_unit", "nft_unit">>
      [] step = "services" -> <<"daemon_reload", "enable", "restart">>
      [] step \in Rules    -> <<"add_rule">>
      [] OTHER             -> <<step>>

\* Plausible slip: the old config is overwritten without a copy.
Ops_no_backup(step) ==
    CASE step = "dir"      -> <<"mkdir", "chown", "chmod">>
      [] step = "identity" -> <<"write_client", "write_server">>
      [] step = "sysctl"   -> <<"sysctl_file", "sysctl_w">>
      [] step = "units"    -> <<"main_unit", "nft_unit">>
      [] step = "services" -> <<"daemon_reload", "enable", "restart">>
      [] step \in Rules    -> <<"add_rule">>
      [] OTHER             -> <<step>>

\* The apply closures: what a step does, one command or file at a time.
Ops(step) ==
    CASE step = "dir"      -> <<"mkdir", "chown", "chmod">>
      [] step = "identity" -> <<"write_client", "backup", "write_server">>
      [] step = "sysctl"   -> <<"sysctl_file", "sysctl_w">>
      [] step = "units"    -> <<"main_unit", "nft_unit">>
      [] step = "services" -> <<"daemon_reload", "enable", "restart">>
      [] step \in Rules    -> <<"add_rule">>
      [] OTHER             -> <<step>>

-----------------------------------------------------------------------------
(* A run *)

\* run, up to the loop, with --force or not, and with --no-firewall or not.  A client file in the
\* way refuses the run before anything is written.
Start(force, no_firewall, net) ==
    LET keep == server # NoPair /\ ~force IN
    /\ outcome # "running" /\ runs < MaxRuns
    /\ keep \/ client = NoPair \/ force
    /\ keep => net = server.net
    /\ runs' = runs + 1
    /\ job' = [NoJob EXCEPT !.force = force, !.keep = keep,
                            !.pair = IF keep THEN server ELSE [id |-> runs + 1, net |-> net]]
    /\ firewall' = IF no_firewall THEN "none" ELSE active
    /\ plan' = Plan(firewall', keep)
    /\ outcome' = "running"
    /\ steady' = (steady /\ (keep => with_nat(firewall') = with_nat(firewall)))
    /\ UNCHANGED <<host, todo, faults, taken, forgone>>

\* The loop's `continue`: the step is in place, or the administrator says no.
Skip ==
    /\ outcome = "running" /\ todo = <<>> /\ plan # <<>> /\ Done(Head(plan))
    /\ plan' = Tail(plan)
    /\ UNCHANGED <<host, firewall, todo, job, runs, faults, outcome, steady, taken, forgone>>

Fault == faults < MaxFaults /\ faults' = faults + 1

Decline ==
    /\ Fault
    /\ outcome = "running" /\ todo = <<>> /\ plan # <<>> /\ ~Done(Head(plan))
    /\ plan' = Tail(plan)
    /\ job' = [job EXCEPT !.full = FALSE]
    /\ steady' = FALSE
    /\ UNCHANGED <<host, firewall, todo, runs, outcome, taken, forgone>>

Apply ==
    /\ outcome = "running" /\ todo = <<>> /\ plan # <<>> /\ ~Done(Head(plan))
    /\ todo' = Ops(Head(plan))
    /\ UNCHANGED <<host, firewall, plan, job, runs, faults, outcome, steady, taken, forgone>>

\* Common to every operation of a step: the step is over with its last one.
Op(op) ==
    /\ outcome = "running" /\ todo # <<>> /\ Head(todo) = op
    /\ todo' = Tail(todo)
    /\ plan' = IF Len(todo) = 1 THEN Tail(plan) ELSE plan
    /\ UNCHANGED <<active, firewall, packaged, runs, faults, outcome, steady>>

\* What only leaves a part on disk, and what it needs to succeed: giving a file to the
\* service's group needs the account, a file in the config directory the directory.
Leaves == [user |-> "account", mkdir |-> "dir", chown |-> "dir_group", chmod |-> "dir_mode",
           sysctl_file |-> "sysctl", main_unit |-> "main_unit", nft_unit |-> "nft_unit"]
Needs  == [chown |-> "account", chmod |-> "account"]

DiskOp(op) ==
    /\ Op(op)
    /\ op \in DOMAIN Needs => Needs[op] \in disk
    /\ disk' = disk \cup {Leaves[op]}
    /\ UNCHANGED <<live, fw_perm, fw_run, server, client, backups, nft_file, nft_loaded,
                   service, job, taken, forgone>>

\* step_identity: write_file renames a complete file into place.  With --force it may replace
\* the only copy of the client half of the config in place.
WriteClient ==
    /\ Op("write_client")
    /\ client = NoPair \/ job.force
    /\ client' = job.pair
    /\ forgone' = forgone \cup (({client} \cap {server}) \ {NoPair})
    /\ UNCHANGED <<disk, live, fw_perm, fw_run, server, backups, nft_file, nft_loaded,
                   service, job, taken>>

\* A server config that exists is copied aside.
Backup ==
    /\ Op("backup")
    /\ server # NoPair => "account" \in disk
    /\ backups' = backups \cup ({server} \ {NoPair})
    /\ UNCHANGED <<disk, live, fw_perm, fw_run, server, client, nft_file, nft_loaded,
                   service, job, taken, forgone>>

WriteServer ==
    /\ Op("write_server")
    /\ {"dir", "account"} \subseteq disk
    /\ server' = job.pair
    /\ UNCHANGED <<disk, live, fw_perm, fw_run, client, backups, nft_file, nft_loaded,
                   service, job, taken, forgone>>

SysctlW ==
    /\ Op("sysctl_w")
    /\ live' = live \cup {"forwarding"}
    /\ UNCHANGED <<disk, fw_perm, fw_run, server, client, backups, nft_file, nft_loaded,
                   service, job, taken, forgone>>

\* fw_step changes firewalld's permanent configuration only and marks it for the reload;
\* `ufw allow` stores the rule and puts it in force.
AddRule ==
    /\ Op("add_rule")
    /\ fw_perm' = fw_perm \cup {Rule(Head(plan))}
    /\ fw_run' = IF firewall = "ufw" THEN fw_run \cup {Rule(Head(plan))} ELSE fw_run
    /\ job' = [job EXCEPT !.changed = @ \/ firewall = "firewalld"]
    /\ UNCHANGED <<disk, live, server, client, backups, nft_file, nft_loaded, service,
                   taken, forgone>>

Reload ==
    /\ Op("reload")
    /\ fw_run' = Stored
    /\ UNCHANGED <<disk, live, fw_perm, server, client, backups, nft_file, nft_loaded,
                   service, job, taken, forgone>>

NftFile ==
    /\ Op("nft")
    /\ "dir" \in disk
    /\ nft_file' = render_nft(job.pair.net)
    /\ UNCHANGED <<disk, live, fw_perm, fw_run, server, client, backups, nft_loaded,
                   service, job, taken, forgone>>

DaemonReload ==
    /\ Op("daemon_reload")
    /\ UNCHANGED <<disk, live, fw_perm, fw_run, server, client, backups, nft_file, nft_loaded,
                   service, job, taken, forgone>>

Enable ==
    /\ Op("enable")
    /\ {"main_unit", "nft_unit"} \subseteq disk
    /\ disk' = disk \cup {"enabled"}
    /\ UNCHANGED <<live, fw_perm, fw_run, server, client, backups, nft_file, nft_loaded,
                   service, job, taken, forgone>>

\* The two units: each loads its file, and stays down without one (ConditionPathExists).
StartUnits(keep_live) ==
    /\ nft_loaded' = nft_file
    /\ live' = (keep_live \ {"nft_active"}) \cup (IF nft_file # <<>> THEN {"nft_active"} ELSE {})
    /\ service' = server

Restart ==
    /\ Op("restart")
    /\ {"main_unit", "nft_unit"} \subseteq disk
    /\ StartUnits(live)
    /\ UNCHANGED <<disk, fw_perm, fw_run, server, client, backups, nft_file, job, taken,
                   forgone>>

\* verify_and_report: a run that leaves the service down is a failed run.
Verify ==
    /\ outcome = "running" /\ plan = <<>> /\ todo = <<>>
    /\ outcome' = IF service = NoPair THEN "broken" ELSE IF job.full THEN "complete" ELSE "partial"
    /\ steady' = (steady /\ service # NoPair)
    /\ job' = NoJob
    /\ UNCHANGED <<host, firewall, plan, todo, runs, faults, taken, forgone>>

\* A command fails, a prompt has no terminal, the process is killed: the run ends here.
Fail ==
    /\ Fault
    /\ outcome = "running" /\ plan # <<>>
    /\ outcome' = "broken" /\ steady' = FALSE
    /\ plan' = <<>> /\ todo' = <<>> /\ job' = NoJob
    /\ UNCHANGED <<host, firewall, runs, taken, forgone>>

-----------------------------------------------------------------------------
(* What happens around it *)

\* The administrator copies the client file to the client and deletes it, as told.
TakeClient ==
    /\ outcome # "running" /\ client # NoPair
    /\ client' = NoPair /\ taken' = taken \cup {client}
    /\ UNCHANGED <<active, firewall, packaged, disk, live, fw_perm, fw_run, server, backups, nft_file,
                   nft_loaded, service, plan, todo, job, runs, faults, outcome, steady, forgone>>

\* Between two runs the administrator stops the active firewall or starts another one, which
\* brings its stored rules into force.
ChangeFirewall(fw) ==
    /\ outcome # "running" /\ fw # active
    /\ active' = fw
    /\ fw_run' = {rule \in fw_perm : rule[1] = fw}
    /\ UNCHANGED <<firewall, packaged, disk, live, fw_perm, server, client, backups, nft_file,
                   nft_loaded, service, plan, todo, job, runs, faults, outcome, steady, taken, forgone>>

\* The host boots: the rules, the setting and the enabled units come back from the disk.
Reboot ==
    /\ IF outcome = "running" THEN Fault ELSE UNCHANGED faults
    /\ outcome' = IF outcome = "running" THEN "broken" ELSE outcome
    /\ plan' = <<>> /\ todo' = <<>> /\ job' = NoJob
    /\ steady' = (outcome \in {"none", "complete"})
    /\ fw_run' = Stored
    /\ LET booted == IF "sysctl" \in disk THEN {"forwarding"} ELSE {} IN
       IF "enabled" \in disk
       THEN StartUnits(booted)
       ELSE nft_loaded' = <<>> /\ service' = NoPair /\ live' = booted
    /\ UNCHANGED <<active, firewall, packaged, disk, fw_perm, server, client, backups, nft_file, runs,
                   taken, forgone>>

Step ==
    \/ Skip \/ Decline \/ Apply
    \/ \E op \in DOMAIN Leaves : DiskOp(op)
    \/ WriteClient \/ Backup \/ WriteServer
    \/ SysctlW \/ AddRule \/ Reload \/ NftFile
    \/ DaemonReload \/ Enable \/ Restart
    \/ Verify

Next ==
    \/ \E force, no_firewall \in BOOLEAN, net \in Nets : Start(force, no_firewall, net)
    \/ Step
    \/ Fail
    \/ TakeClient
    \/ \E fw \in Firewalls : ChangeFirewall(fw)
    \/ Reboot

Spec == Init /\ [][Next]_vars

-----------------------------------------------------------------------------
(* Properties *)

Steps == {"user", "dir", "identity", "sysctl", "port", "masquerade", "trust", "reload",
          "route", "nft", "units", "services"}
AllOps == DOMAIN Leaves \cup {"write_client", "backup", "write_server", "sysctl_w", "add_rule",
                              "reload", "nft", "daemon_reload", "enable", "restart"}
AnyRule == (Firewalls \cup {"none"}) \X Rules \X (Nets \cup {0})
AnyNft  == {<<>>} \cup ({"nat", "clamp"} \X (Nets \cup {0}))

JobType == [force : BOOLEAN, keep : BOOLEAN, pair : Pairs \cup {NoPair}, changed : BOOLEAN,
            full : BOOLEAN]

\* Type invariant.
TypeOK ==
    /\ active \in Firewalls /\ firewall \in Firewalls \cup {"none"} /\ packaged \in BOOLEAN
    /\ disk \subseteq Parts /\ live \subseteq LiveParts
    /\ fw_perm \subseteq AnyRule /\ fw_run \subseteq AnyRule
    /\ {server, client, service} \subseteq Pairs \cup {NoPair}
    /\ backups \subseteq Pairs /\ taken \subseteq Pairs /\ forgone \subseteq Pairs
    /\ nft_file \in AnyNft /\ nft_loaded \in AnyNft
    /\ plan \in Seq(Steps) /\ todo \in Seq(AllOps)
    /\ job \in JobType /\ (outcome = "running" => job.pair \in Pairs)
    /\ runs \in 0..MaxRuns /\ faults \in 0..MaxFaults
    /\ outcome \in {"none", "running", "complete", "partial", "broken"}
    /\ steady \in BOOLEAN

\* step_identity: wherever a run breaks off, the keys of the server config on disk are not
\* stranded.  Its client half is there to be taken, or was taken, unless a forced run overwrote
\* the file before it was taken, and broke off before it replaced the server half too.
NoStrandedKeys ==
    server # NoPair => server \in {client} \cup taken \cup forgone

\* step_identity with --force: a server config that is replaced is kept as a backup,
\* whichever step of whichever run replaces it.
OldConfigKept ==
    [][server' # server /\ server # NoPair => server \in backups]_vars

\* The rules a config needs in the firewall it was set up for.
NeededRules ==
    CASE firewall = "firewalld" -> {<<firewall, "port", server.net>>, <<firewall, "masquerade", 0>>,
                                    <<firewall, "trust", 0>>}
      [] firewall = "ufw"       -> {<<firewall, "port", server.net>>, <<firewall, "route", 0>>}
      [] OTHER                  -> {}

\* The module's documentation promises that a run after a partial failure is safe: whatever
\* earlier runs left half done, a run in which every step was found in place or applied
\* leaves a complete installation on disk, for the config that is on disk.
CompleteOnDisk ==
    outcome = "complete" =>
        /\ Parts \subseteq disk
        /\ server # NoPair
        /\ NeededRules \subseteq fw_perm
        /\ nft_file = render_nft(server.net)

\* And it leaves the host running what is on disk, the same after every later boot: the service
\* has the keys the clients were given, our table is the one in the file, and the firewall it was
\* set up for lets them in, as long as that one is active.  Not so after a run, since the boot or
\* the last one before it, that broke off or was declined a step, nor after one that kept the
\* config and only changed its NAT: see the README.
CompleteInForce ==
    outcome = "complete" /\ steady =>
        /\ service = server
        /\ nft_loaded = nft_file /\ "nft_active" \in live
        /\ "forwarding" \in live
        /\ firewall = active => NeededRules \subseteq fw_run
=============================================================================
