------------------------------ MODULE SetupProofs ------------------------------
(***************************************************************************)
(* Proofs about ServerSetup, for any networks, any firewall and any number *)
(* of runs, declined steps, failures and reboots.                          *)
(***************************************************************************)
EXTENDS ServerSetup, TLAPS

\* The table of the operations that leave a part on disk.
LEMMA LeavesTable ==
    /\ DOMAIN Leaves = {"user", "mkdir", "chown", "chmod", "sysctl_file", "main_unit", "nft_unit"}
    /\ Leaves["user"] = "account" /\ Leaves["mkdir"] = "dir" /\ Leaves["chown"] = "dir_group"
    /\ Leaves["chmod"] = "dir_mode" /\ Leaves["sysctl_file"] = "sysctl"
    /\ Leaves["main_unit"] = "main_unit" /\ Leaves["nft_unit"] = "nft_unit"
  BY DEF Leaves

-----------------------------------------------------------------------------
(* Control: the step under way and what is left of it *)

\* The operations that may be left of a step.
Remaining(step) ==
    CASE step = "dir"      -> {<<"mkdir", "chown", "chmod">>, <<"chown", "chmod">>, <<"chmod">>}
      [] step = "identity" -> {<<"write_client", "backup", "write_server">>,
                               <<"backup", "write_server">>, <<"write_server">>}
      [] step = "sysctl"   -> {<<"sysctl_file", "sysctl_w">>, <<"sysctl_w">>}
      [] step = "units"    -> {<<"main_unit", "nft_unit">>, <<"nft_unit">>}
      [] step = "services" -> {<<"daemon_reload", "enable", "restart">>, <<"enable", "restart">>,
                               <<"restart">>}
      [] step \in Rules    -> {<<"add_rule">>}
      [] OTHER             -> {<<step>>}

Control ==
    /\ plan \in Seq(Steps)
    /\ outcome # "running" => plan = <<>> /\ todo = <<>> /\ job = NoJob
    /\ todo = <<>> \/ (plan # <<>> /\ todo \in Remaining(Head(plan)))

\* The operation under way, and those that may come after it within the step.
LEMMA RemainingOps ==
    ASSUME NEW step \in Steps, NEW ops \in Remaining(step)
    PROVE  /\ ops # <<>> /\ ops \in Seq(AllOps)
           /\ Len(ops) = 1 => Tail(ops) = <<>>
           /\ Len(ops) # 1 => Tail(ops) \in Remaining(step)
<1>a. AllOps = {"user", "mkdir", "chown", "chmod", "sysctl_file", "main_unit", "nft_unit", "write_client",
                "backup", "write_server", "sysctl_w", "add_rule", "reload", "nft", "daemon_reload",
                "enable", "restart"}
  BY LeavesTable DEF AllOps
<1>1. ASSUME NEW a \in AllOps, NEW b \in AllOps, NEW c \in AllOps, ops = <<a, b, c>>
      PROVE  ops \in Seq(AllOps) /\ ops # <<>> /\ Len(ops) = 3 /\ Tail(ops) = <<b, c>>
  BY <1>1
<1>2. ASSUME NEW a \in AllOps, NEW b \in AllOps, ops = <<a, b>>
      PROVE  ops \in Seq(AllOps) /\ ops # <<>> /\ Len(ops) = 2 /\ Tail(ops) = <<b>>
  BY <1>2
<1>3. ASSUME NEW a \in AllOps, ops = <<a>>
      PROVE  ops \in Seq(AllOps) /\ ops # <<>> /\ Len(ops) = 1 /\ Tail(ops) = <<>>
  BY <1>3
<1>4. CASE step = "dir"
  <2>1. Remaining(step) = {<<"mkdir", "chown", "chmod">>, <<"chown", "chmod">>, <<"chmod">>}
    BY <1>4 DEF Remaining, Rules
  <2>2. CASE ops = <<"mkdir", "chown", "chmod">>
    BY <1>a, <1>1, <2>1, <2>2
  <2>3. CASE ops = <<"chown", "chmod">>
    BY <1>a, <1>2, <2>1, <2>3
  <2>4. CASE ops = <<"chmod">>
    BY <1>a, <1>3, <2>1, <2>4
  <2> QED BY <2>1, <2>2, <2>3, <2>4
<1>5. CASE step = "identity"
  <2>1. Remaining(step) = {<<"write_client", "backup", "write_server">>, <<"backup", "write_server">>,
                           <<"write_server">>}
    BY <1>5 DEF Remaining, Rules
  <2>2. CASE ops = <<"write_client", "backup", "write_server">>
    BY <1>a, <1>1, <2>1, <2>2
  <2>3. CASE ops = <<"backup", "write_server">>
    BY <1>a, <1>2, <2>1, <2>3
  <2>4. CASE ops = <<"write_server">>
    BY <1>a, <1>3, <2>1, <2>4
  <2> QED BY <2>1, <2>2, <2>3, <2>4
<1>6. CASE step = "services"
  <2>1. Remaining(step) = {<<"daemon_reload", "enable", "restart">>, <<"enable", "restart">>, <<"restart">>}
    BY <1>6 DEF Remaining, Rules
  <2>2. CASE ops = <<"daemon_reload", "enable", "restart">>
    BY <1>a, <1>1, <2>1, <2>2
  <2>3. CASE ops = <<"enable", "restart">>
    BY <1>a, <1>2, <2>1, <2>3
  <2>4. CASE ops = <<"restart">>
    BY <1>a, <1>3, <2>1, <2>4
  <2> QED BY <2>1, <2>2, <2>3, <2>4
<1>7. CASE step = "sysctl"
  <2>1. Remaining(step) = {<<"sysctl_file", "sysctl_w">>, <<"sysctl_w">>}
    BY <1>7 DEF Remaining, Rules
  <2> QED BY <1>a, <1>2, <1>3, <2>1
<1>8. CASE step = "units"
  <2>1. Remaining(step) = {<<"main_unit", "nft_unit">>, <<"nft_unit">>}
    BY <1>8 DEF Remaining, Rules
  <2> QED BY <1>a, <1>2, <1>3, <2>1
<1>9. CASE step \in Rules
  <2>1. Remaining(step) = {<<"add_rule">>}
    BY <1>9 DEF Remaining, Rules
  <2> QED BY <1>a, <1>3, <2>1
<1>10. CASE step \in {"user", "reload", "nft"}
  <2>1. Remaining(step) = {<<step>>}
    BY <1>10 DEF Remaining, Rules
  <2> QED BY <1>a, <1>3, <1>10, <2>1
<1> QED BY <1>4, <1>5, <1>6, <1>7, <1>8, <1>9, <1>10 DEF Steps, Rules

LEMMA OpsRemain == ASSUME NEW step \in Steps PROVE Ops(step) \in Remaining(step)
  BY DEF Ops, Remaining, Steps, Rules

LEMMA PlanType == ASSUME NEW fw, NEW keep \in BOOLEAN PROVE Plan(fw, keep) \in Seq(Steps)
<1>1. /\ <<"user", "dir">> \in Seq(Steps) /\ (IF keep THEN <<>> ELSE <<"identity">>) \in Seq(Steps)
      /\ <<"sysctl">> \in Seq(Steps) /\ steps_firewall(fw) \in Seq(Steps) /\ <<"nft">> \in Seq(Steps)
      /\ (IF packaged THEN <<>> ELSE <<"units">>) \in Seq(Steps) /\ <<"services">> \in Seq(Steps)
  <2>1. steps_firewall(fw) \in Seq(Steps)
    <3>1. /\ <<"port", "masquerade", "trust", "reload">> \in Seq(Steps)
          /\ <<"port", "route">> \in Seq(Steps) /\ <<>> \in Seq(Steps)
      BY DEF Steps
    <3> QED BY <3>1 DEF steps_firewall
  <2>2. <<>> \in Seq(Steps) /\ <<"identity">> \in Seq(Steps) /\ <<"units">> \in Seq(Steps)
    BY DEF Steps
  <2>3. /\ <<"user", "dir">> \in Seq(Steps) /\ <<"sysctl">> \in Seq(Steps)
        /\ <<"nft">> \in Seq(Steps) /\ <<"services">> \in Seq(Steps)
    BY DEF Steps
  <2> QED BY <2>1, <2>2, <2>3
<1> QED BY <1>1 DEF Plan

LEMMA OpControl == ASSUME Control, NEW op, Op(op) PROVE Control'
<1>1. todo # <<>> /\ plan # <<>> /\ todo \in Remaining(Head(plan)) /\ Head(plan) \in Steps
      /\ Tail(plan) \in Seq(Steps) /\ outcome = "running" /\ outcome' = "running"
  BY DEF Control, Op
<1>2. CASE Len(todo) = 1
  BY <1>1, <1>2, RemainingOps DEF Control, Op
<1>3. CASE Len(todo) # 1
  BY <1>1, <1>3, RemainingOps DEF Control, Op
<1> QED BY <1>2, <1>3

\* What happens around the runs.
Around == TakeClient \/ \E fw \in Firewalls : ChangeFirewall(fw)

\* The operations of a run.
Operate ==
    \/ \E op \in DOMAIN Leaves : DiskOp(op)
    \/ WriteClient \/ Backup \/ WriteServer \/ SysctlW \/ AddRule \/ Reload \/ NftFile
    \/ DaemonReload \/ Enable \/ Restart

LEMMA OperateOp == Operate => \E op : Op(op)
  BY DEF Operate, DiskOp, WriteClient, Backup, WriteServer, SysctlW, AddRule, Reload, NftFile,
         DaemonReload, Enable, Restart

LEMMA StepControl == Control /\ [Next]_vars => Control'
<1> SUFFICES ASSUME Control, [Next]_vars PROVE Control'
  OBVIOUS
<1>1. ASSUME NEW force \in BOOLEAN, NEW no_firewall \in BOOLEAN, NEW net \in Nets,
             Start(force, no_firewall, net) PROVE Control'
  <2>1. plan' \in Seq(Steps)
    <3>1. (server # NoPair /\ ~force) \in BOOLEAN
      OBVIOUS
    <3> QED BY <1>1, <3>1, PlanType DEF Start
  <2> QED BY <1>1, <2>1 DEF Start, Control
<1>2. CASE Skip \/ Decline
  <2>1. Tail(plan) \in Seq(Steps)
    BY <1>2 DEF Control, Skip, Decline
  <2> QED BY <1>2, <2>1 DEF Control, Skip, Decline
<1>3. CASE Apply
  <2>1. Head(plan) \in Steps
    BY <1>3 DEF Control, Apply
  <2> QED BY <1>3, <2>1, OpsRemain DEF Control, Apply
<1>4. CASE Operate
  BY <1>4, OperateOp, OpControl
<1>5. CASE Verify
  BY <1>5 DEF Control, Verify
<1>9. CASE Fail
  BY <1>9 DEF Control, Fail
<1>6. CASE Around
  BY <1>6 DEF Control, Around, TakeClient, ChangeFirewall
<1>7. CASE Reboot
  BY <1>7 DEF Control, Reboot
<1>8. CASE UNCHANGED vars
  BY <1>8 DEF Control, vars
<1> QED BY <1>1, <1>2, <1>3, <1>4, <1>5, <1>6, <1>7, <1>8, <1>9 DEF Next, Step, Operate, Around

\* A run works on one step at a time, and nothing is left of a run that is over.
THEOREM ControlInvariance == Spec => []Control
<1>1. Init => Control
  BY DEF Init, Control
<1> QED BY <1>1, StepControl, PTL DEF Spec

-----------------------------------------------------------------------------
(* Types *)

\* A step applied by one operation of the same name, or by add_rule.
LEMMA HeadOps ==
    ASSUME Control, NEW op, Op(op)
    PROVE  /\ outcome = "running" /\ plan # <<>> /\ Head(plan) \in Steps
           /\ todo # <<>> /\ Head(todo) = op /\ todo \in Remaining(Head(plan))
           /\ todo' = Tail(todo)
           /\ todo' = <<>> \/ todo' \in Remaining(Head(plan))
           /\ todo' # <<>> => plan' = plan
           /\ todo' = <<>> => plan' = Tail(plan)
<1>1. todo # <<>> /\ plan # <<>> /\ todo \in Remaining(Head(plan)) /\ Head(plan) \in Steps
  BY DEF Control, Op
<1>2. /\ Len(todo) = 1 => Tail(todo) = <<>>
      /\ Len(todo) # 1 => Tail(todo) \in Remaining(Head(plan))
      /\ \A ops \in Remaining(Head(plan)) : ops # <<>>
  BY <1>1, RemainingOps
<1> QED BY <1>1, <1>2 DEF Op

LEMMA AddRuleStep == ASSUME Control, Op("add_rule") PROVE Head(plan) \in Rules
<1>1. todo \in Remaining(Head(plan)) /\ Head(plan) \in Steps /\ Head(todo) = "add_rule"
  BY HeadOps
<1>2. ASSUME Head(plan) = "dir" PROVE FALSE
  BY <1>1, <1>2 DEF Remaining, Rules
<1>3. ASSUME Head(plan) = "identity" PROVE FALSE
  BY <1>1, <1>3 DEF Remaining, Rules
<1>4. ASSUME Head(plan) = "services" PROVE FALSE
  BY <1>1, <1>4 DEF Remaining, Rules
<1>5. ASSUME Head(plan) \in {"sysctl", "units"} PROVE FALSE
  BY <1>1, <1>5 DEF Remaining, Rules
<1>6. ASSUME Head(plan) \in {"user", "reload", "nft"} PROVE FALSE
  BY <1>1, <1>6 DEF Remaining, Rules
<1> QED BY <1>1, <1>2, <1>3, <1>4, <1>5, <1>6 DEF Steps, Rules

LEMMA InitType == Init => TypeOK
<1> SUFFICES ASSUME Init PROVE TypeOK
  OBVIOUS
<1>1. NoJob \in JobType /\ NoPair \in Pairs \cup {NoPair}
  BY DEF NoJob, JobType
<1>2. plan \in Seq(Steps) /\ todo \in Seq(AllOps)
  BY DEF Init
<1>3. disk \subseteq Parts /\ live \subseteq LiveParts
  BY DEF Init, Parts, LiveParts
<1> QED BY <1>1, <1>2, <1>3, SetupAssumption DEF Init, TypeOK, AnyNft

LEMMA StepType == TypeOK /\ Control /\ [Next]_vars => TypeOK'
<1> SUFFICES ASSUME TypeOK, Control, [Next]_vars PROVE TypeOK'
  OBVIOUS
<1>c. Control' /\ plan' \in Seq(Steps)
  BY StepControl DEF Control
<1>t. todo' \in Seq(AllOps)
  <2>1. plan' # <<>> => Head(plan') \in Steps
    BY <1>c
  <2>2. CASE todo' = <<>>
    BY <2>2
  <2>3. CASE todo' # <<>>
    BY <1>c, <2>1, <2>3, RemainingOps DEF Control
  <2> QED BY <2>2, <2>3
<1>n. NoJob \in JobType /\ NoPair \in Pairs \cup {NoPair}
  BY DEF NoJob, JobType
<1>r. ASSUME outcome = "running" PROVE render_nft(job.pair.net) \in AnyNft
  BY <1>r DEF TypeOK, render_nft, with_nat, AnyNft, Pairs
<1>u. ASSUME NEW S, S \subseteq LiveParts, StartUnits(S)
      PROVE  live' \subseteq LiveParts /\ nft_loaded' \in AnyNft /\ service' \in Pairs \cup {NoPair}
  BY <1>u DEF StartUnits, TypeOK, LiveParts
<1>1. ASSUME NEW force \in BOOLEAN, NEW no_firewall \in BOOLEAN, NEW net \in Nets,
             Start(force, no_firewall, net) PROVE TypeOK'
  <2> DEFINE keep == server # NoPair /\ ~force
             pair == IF keep THEN server ELSE [id |-> runs + 1, net |-> net]
  <2>1. keep \in BOOLEAN
    OBVIOUS
  <2>2. pair \in Pairs /\ runs' \in 0..MaxRuns
    <3>1. runs + 1 \in 1..MaxRuns /\ runs + 1 \in 0..MaxRuns
      BY <1>1, SetupAssumption DEF Start, TypeOK
    <3> QED BY <1>1, <3>1 DEF Start, TypeOK, Pairs
  <2>3. job' = [force |-> force, keep |-> keep, pair |-> pair, changed |-> FALSE, full |-> TRUE]
    BY <1>1 DEF Start, NoJob
  <2> HIDE DEF keep, pair
  <2>4. job' \in JobType /\ job'.pair \in Pairs
    BY <2>1, <2>2, <2>3 DEF JobType
  <2> QED BY <1>1, <1>c, <1>t, <2>2, <2>4 DEF Start, TypeOK, host
<1>2. CASE Skip \/ Apply
  BY <1>2, <1>c, <1>t DEF Skip, Apply, TypeOK, host
<1>3. CASE Decline
  <2>1. job' \in JobType /\ job'.pair = job.pair
    BY <1>3 DEF Decline, TypeOK, JobType
  <2>2. faults' \in 0..MaxFaults
    BY <1>3, SetupAssumption DEF Decline, Fault, TypeOK
  <2> QED BY <1>3, <1>c, <1>t, <2>1, <2>2 DEF Decline, TypeOK, host
<1>4. ASSUME NEW op \in DOMAIN Leaves, DiskOp(op) PROVE TypeOK'
  <2>1. Leaves[op] \in Parts
    BY LeavesTable DEF Parts
  <2> QED BY <1>4, <1>c, <1>t, <2>1 DEF DiskOp, Op, TypeOK
<1>5. CASE WriteClient
  BY <1>5, <1>c, <1>t DEF WriteClient, Op, TypeOK
<1>6. CASE Backup
  BY <1>6, <1>c, <1>t DEF Backup, Op, TypeOK
<1>7. CASE WriteServer
  BY <1>7, <1>c, <1>t DEF WriteServer, Op, TypeOK
<1>8. CASE SysctlW
  BY <1>8, <1>c, <1>t DEF SysctlW, Op, TypeOK, LiveParts
<1>9. CASE AddRule
  <2>1. Rule(Head(plan)) \in AnyRule
    BY <1>9, AddRuleStep DEF AddRule, Op, Rule, AnyRule, Rules, TypeOK, Pairs
  <2>2. (firewall = "firewalld") \in BOOLEAN /\ job \in JobType
    BY DEF TypeOK
  <2>3. job' \in JobType /\ job'.pair = job.pair
    BY <1>9, <2>2 DEF AddRule, JobType
  <2> QED BY <1>9, <1>c, <1>t, <2>1, <2>3 DEF AddRule, Op, TypeOK
<1>10. CASE Reload
  BY <1>10, <1>c, <1>t DEF Reload, Op, TypeOK, Stored
<1>11. CASE NftFile
  BY <1>11, <1>c, <1>t, <1>r DEF NftFile, Op, TypeOK
<1>12. CASE DaemonReload
  BY <1>12, <1>c, <1>t DEF DaemonReload, Op, TypeOK
<1>13. CASE Enable
  BY <1>13, <1>c, <1>t DEF Enable, Op, TypeOK, Parts
<1>14. CASE Restart
  <2>1. live \subseteq LiveParts
    BY DEF TypeOK
  <2> QED BY <1>14, <1>c, <1>t, <1>u, <2>1 DEF Restart, Op, TypeOK
<1>15. CASE Verify
  <2>1. steady' \in BOOLEAN
    BY <1>15 DEF Verify
  <2> QED BY <1>15, <1>c, <1>t, <1>n, <2>1 DEF Verify, TypeOK, host
<1>16. CASE Fail
  <2>1. faults' \in 0..MaxFaults
    BY <1>16, SetupAssumption DEF Fail, Fault, TypeOK
  <2> QED BY <1>16, <1>c, <1>t, <1>n, <2>1 DEF Fail, TypeOK, host
<1>17. CASE Around
  BY <1>17, <1>c, <1>t, <1>n DEF Around, TakeClient, ChangeFirewall, TypeOK
<1>18. CASE Reboot
  <2>1. faults' \in 0..MaxFaults
    BY <1>18, SetupAssumption DEF Reboot, Fault, TypeOK
  <2>2. (outcome \in {"none", "complete"}) \in BOOLEAN
    OBVIOUS
  <2>3. steady' \in BOOLEAN
    BY <1>18, <2>2 DEF Reboot
  <2>4. (IF "sysctl" \in disk THEN {"forwarding"} ELSE {}) \subseteq LiveParts
    BY DEF LiveParts
  <2>5. live' \subseteq LiveParts /\ nft_loaded' \in AnyNft /\ service' \in Pairs \cup {NoPair}
    <3>1. CASE "enabled" \in disk
      BY <1>18, <1>u, <2>4, <3>1 DEF Reboot
    <3>2. CASE "enabled" \notin disk
      BY <1>18, <2>4, <3>2 DEF Reboot, AnyNft
    <3> QED BY <3>1, <3>2
  <2>6. outcome' \in {"none", "complete", "partial", "broken"}
    BY <1>18 DEF Reboot, TypeOK
  <2> QED BY <1>18, <1>c, <1>t, <1>n, <2>1, <2>3, <2>5, <2>6 DEF Reboot, TypeOK, Stored
<1>19. CASE UNCHANGED vars
  BY <1>19 DEF vars, host, TypeOK
<1> QED BY <1>1, <1>2, <1>3, <1>4, <1>5, <1>6, <1>7, <1>8, <1>9, <1>10, <1>11, <1>12, <1>13, <1>14,
           <1>15, <1>16, <1>17, <1>18, <1>19 DEF Next, Step, Around

(***************************************************************************)
(* Type correctness of the host and the run.                               *)
(***************************************************************************)
THEOREM TypeCorrect == Spec => []TypeOK
  BY InitType, StepType, ControlInvariance, PTL DEF Spec

-----------------------------------------------------------------------------
(* The operations of a step in their order *)

\* Which operation comes after which.
Follows == {<<"mkdir", "chown">>, <<"chown", "chmod">>,
            <<"write_client", "backup">>, <<"backup", "write_server">>,
            <<"sysctl_file", "sysctl_w">>, <<"main_unit", "nft_unit">>,
            <<"daemon_reload", "enable">>, <<"enable", "restart">>}

\* The ones a step does not begin with.
Later == {"chown", "chmod", "backup", "write_server", "sysctl_w", "nft_unit", "enable", "restart"}

LEMMA FirstOp == ASSUME NEW step \in Steps PROVE Head(Ops(step)) \notin Later
<1>1. CASE step \in {"dir", "identity", "services"}
  BY <1>1 DEF Ops, Later, Rules
<1>2. CASE step \in {"sysctl", "units"}
  BY <1>2 DEF Ops, Later, Rules
<1>3. CASE step \in Rules
  BY <1>3 DEF Ops, Later, Rules
<1>4. CASE step \in {"user", "reload", "nft"}
  BY <1>4 DEF Ops, Later, Rules
<1> QED BY <1>1, <1>2, <1>3, <1>4 DEF Steps, Rules

LEMMA NextOp ==
    ASSUME Control, NEW op, Op(op), todo' # <<>>
    PROVE  <<op, Head(todo')>> \in Follows
<1>1. /\ todo \in Remaining(Head(plan)) /\ Head(plan) \in Steps /\ Head(todo) = op
      /\ todo' = Tail(todo) /\ Tail(todo) # <<>>
  BY HeadOps
<1>2. CASE Head(plan) = "dir"
  <2>1. todo \in {<<"mkdir", "chown", "chmod">>, <<"chown", "chmod">>, <<"chmod">>}
    BY <1>1, <1>2 DEF Remaining, Rules
  <2> QED BY <1>1, <2>1 DEF Follows
<1>3. CASE Head(plan) = "identity"
  <2>1. todo \in {<<"write_client", "backup", "write_server">>, <<"backup", "write_server">>,
                  <<"write_server">>}
    BY <1>1, <1>3 DEF Remaining, Rules
  <2> QED BY <1>1, <2>1 DEF Follows
<1>4. CASE Head(plan) = "services"
  <2>1. todo \in {<<"daemon_reload", "enable", "restart">>, <<"enable", "restart">>, <<"restart">>}
    BY <1>1, <1>4 DEF Remaining, Rules
  <2> QED BY <1>1, <2>1 DEF Follows
<1>5. CASE Head(plan) = "sysctl"
  <2>1. todo \in {<<"sysctl_file", "sysctl_w">>, <<"sysctl_w">>}
    BY <1>1, <1>5 DEF Remaining, Rules
  <2> QED BY <1>1, <2>1 DEF Follows
<1>6. CASE Head(plan) = "units"
  <2>1. todo \in {<<"main_unit", "nft_unit">>, <<"nft_unit">>}
    BY <1>1, <1>6 DEF Remaining, Rules
  <2> QED BY <1>1, <2>1 DEF Follows
<1>7. CASE Head(plan) \in Rules \cup {"user", "reload", "nft"}
  <2>1. todo = <<"add_rule">> \/ todo = <<Head(plan)>>
    BY <1>1, <1>7 DEF Remaining, Rules
  <2> QED BY <1>1, <2>1
<1> QED BY <1>1, <1>2, <1>3, <1>4, <1>5, <1>6, <1>7 DEF Steps, Rules

\* What the earlier operations of the step under way have left.
Midway ==
    todo # <<>> =>
        /\ Head(todo) \in {"backup", "write_server"} => client = job.pair
        /\ Head(todo) = "write_server" => server \in backups \cup {NoPair}
        /\ Head(todo) \in {"chown", "chmod"} => "dir" \in disk
        /\ Head(todo) = "chmod" => "dir_group" \in disk
        /\ Head(todo) = "sysctl_w" => "sysctl" \in disk
        /\ Head(todo) = "nft_unit" => "main_unit" \in disk
        /\ Head(todo) = "restart" => "enabled" \in disk

LEMMA StepMidway == Control /\ Midway /\ [Next]_vars => Midway'
<1> SUFFICES ASSUME Control, Midway, [Next]_vars, todo' # <<>> PROVE Midway'
  BY DEF Midway
<1>f. ASSUME NEW op, Op(op) PROVE <<op, Head(todo')>> \in Follows /\ todo # <<>> /\ Head(todo) = op
  BY <1>f, NextOp DEF Op
<1>1. CASE \E force, no_firewall \in BOOLEAN, net \in Nets : Start(force, no_firewall, net)
  BY <1>1 DEF Start, Control
<1>2. CASE Skip \/ Decline \/ Verify \/ Fail \/ Reboot
  BY <1>2 DEF Skip, Decline, Verify, Fail, Reboot
<1>3. CASE Apply
  <2>1. Head(todo') \notin Later
    BY <1>3, FirstOp DEF Apply, Control
  <2> QED BY <2>1 DEF Midway, Later
<1>4. ASSUME NEW op \in DOMAIN Leaves, DiskOp(op) PROVE Midway'
  <2>1. <<op, Head(todo')>> \in Follows /\ Head(todo) = op /\ todo # <<>>
    BY <1>4, <1>f DEF DiskOp
  <2>2. Head(todo') \in {"chown", "chmod", "sysctl_w", "nft_unit"}
    BY <2>1, LeavesTable DEF Follows
  <2>3. disk' = disk \cup {Leaves[op]}
    BY <1>4 DEF DiskOp
  <2> QED BY <2>1, <2>2, <2>3, LeavesTable DEF Midway, Follows
<1>5. CASE WriteClient
  BY <1>5, <1>f DEF WriteClient, Follows, Midway
<1>6. CASE Backup
  BY <1>6, <1>f DEF Backup, Follows, Midway
<1>7. CASE WriteServer \/ SysctlW \/ AddRule \/ Reload \/ NftFile \/ Restart
  BY <1>7, <1>f DEF WriteServer, SysctlW, AddRule, Reload, NftFile, Restart, Follows
<1>8. CASE DaemonReload
  BY <1>8, <1>f DEF DaemonReload, Follows, Midway
<1>9. CASE Enable
  BY <1>9, <1>f DEF Enable, Follows, Midway
<1>10. CASE Around
  BY <1>10 DEF Around, TakeClient, ChangeFirewall, Midway, Control
<1>11. CASE UNCHANGED vars
  BY <1>11 DEF vars, host, Midway
<1> QED BY <1>1, <1>2, <1>3, <1>4, <1>5, <1>6, <1>7, <1>8, <1>9, <1>10, <1>11 DEF Next, Step, Around

\* What the operations of a step under way can rely on.
THEOREM MidwayInvariance == Spec => []Midway
<1>1. Init => Midway
  BY DEF Init, Midway
<1> QED BY <1>1, StepMidway, ControlInvariance, PTL DEF Spec

-----------------------------------------------------------------------------
(* The keys *)

LEMMA StepKeys == Midway /\ NoStrandedKeys /\ [Next]_vars => NoStrandedKeys'
<1> SUFFICES ASSUME Midway, NoStrandedKeys, [Next]_vars PROVE NoStrandedKeys'
  OBVIOUS
<1> USE DEF NoStrandedKeys
<1>1. CASE \E force, no_firewall \in BOOLEAN, net \in Nets : Start(force, no_firewall, net)
  BY <1>1 DEF Start, host
<1>2. CASE Skip \/ Decline \/ Apply \/ Verify \/ Fail
  BY <1>2 DEF Skip, Decline, Apply, Verify, Fail, host
<1>3. CASE \E op \in DOMAIN Leaves : DiskOp(op)
  BY <1>3 DEF DiskOp
<1>4. CASE Backup
  BY <1>4 DEF Backup, Op
<1>11. CASE WriteClient
  <2>1. server' = server /\ taken' = taken /\ forgone' = forgone \cup (({client} \cap {server}) \ {NoPair})
    BY <1>11 DEF WriteClient
  <2>2. CASE server = client
    BY <2>1, <2>2
  <2>3. CASE server # client
    BY <2>1, <2>3
  <2> QED BY <2>2, <2>3
<1>5. CASE WriteServer
  BY <1>5 DEF WriteServer, Op, Midway
<1>6. CASE SysctlW \/ AddRule \/ Reload \/ NftFile \/ DaemonReload \/ Enable
  BY <1>6 DEF SysctlW, AddRule, Reload, NftFile, DaemonReload, Enable
<1>7. CASE Restart
  BY <1>7 DEF Restart, StartUnits
<1>8. CASE Around
  BY <1>8 DEF Around, TakeClient, ChangeFirewall
<1>9. CASE Reboot
  BY <1>9 DEF Reboot, StartUnits
<1>10. CASE UNCHANGED vars
  BY <1>10 DEF vars, host
<1> QED BY <1>1, <1>2, <1>3, <1>4, <1>5, <1>6, <1>7, <1>8, <1>9, <1>10, <1>11 DEF Next, Step, Around

(***************************************************************************)
(* Wherever a run broke off, the client half of the server config on disk  *)
(* is in the client file or was taken, unless a forced run overwrote that  *)
(* file before (step_identity's order).                                    *)
(***************************************************************************)
THEOREM KeysNeverStranded == Spec => []NoStrandedKeys
<1>1. Init => NoStrandedKeys
  BY DEF Init, NoStrandedKeys
<1> QED BY <1>1, StepKeys, MidwayInvariance, PTL DEF Spec

(***************************************************************************)
(* No server config is replaced without a copy (step_identity, --force).   *)
(***************************************************************************)
THEOREM OldConfigAlwaysKept == Spec => OldConfigKept
<1>1. Midway /\ [Next]_vars => [server' # server /\ server # NoPair => server \in backups]_vars
  <2> SUFFICES ASSUME Midway, [Next]_vars, server' # server, server # NoPair PROVE server \in backups
    OBVIOUS
  <2>1. CASE WriteServer
    BY <2>1 DEF WriteServer, Op, Midway
  <2>2. ASSUME ~WriteServer PROVE server' = server
    BY <2>2 DEF Next, Step, vars, host, Start, Skip, Decline, Apply, Verify, Fail, DiskOp, WriteClient, Backup,
                SysctlW, AddRule, Reload, NftFile, DaemonReload, Enable, Restart,
                Around, TakeClient, ChangeFirewall, Reboot
  <2> QED BY <2>1, <2>2
<1> QED BY <1>1, MidwayInvariance, PTL DEF Spec, OldConfigKept

-----------------------------------------------------------------------------
(* What a run leaves on disk *)

\* The step s is in the plan p.
Has(p, s) == \E i \in 1..Len(p) : p[i] = s

LEMMA HasConcat ==
    ASSUME NEW a \in Seq(Steps), NEW b \in Seq(Steps), NEW s, Has(a, s) \/ Has(b, s)
    PROVE  Has(a \o b, s)
<1>1. CASE Has(a, s)
  BY <1>1 DEF Has
<1>2. CASE Has(b, s)
  <2>1. PICK i \in 1..Len(b) : b[i] = s
    BY <1>2 DEF Has
  <2>2. Len(a) + i \in 1..Len(a \o b) /\ (a \o b)[Len(a) + i] = s
    BY <2>1
  <2> QED BY <2>2 DEF Has
<1> QED BY <1>1, <1>2

LEMMA HasTail ==
    ASSUME NEW p \in Seq(Steps), p # <<>>, NEW s, Has(p, s)
    PROVE  s = Head(p) \/ Has(Tail(p), s)
<1>1. PICK i \in 1..Len(p) : p[i] = s
  BY DEF Has
<1>2. CASE i = 1
  BY <1>1, <1>2
<1>3. CASE i # 1
  <2>1. i - 1 \in 1..Len(Tail(p)) /\ Tail(p)[i - 1] = s
    BY <1>1, <1>3
  <2> QED BY <2>1 DEF Has
<1> QED BY <1>2, <1>3

\* The firewall steps that add a rule.
RuleSteps(fw) ==
    CASE fw = "firewalld" -> {"port", "masquerade", "trust"}
      [] fw = "ufw"       -> {"port", "route"}
      [] OTHER            -> {}

\* The steps a run has to see to, apart from the reload.
Wanted(fw, keep) ==
    {"user", "dir", "sysctl", "nft", "services"} \cup RuleSteps(fw)
    \cup (IF keep THEN {} ELSE {"identity"}) \cup (IF packaged THEN {} ELSE {"units"})

LEMMA WantedPlanned ==
    ASSUME NEW fw, NEW keep \in BOOLEAN, NEW s \in Wanted(fw, keep) PROVE Has(Plan(fw, keep), s)
<1> DEFINE p1 == <<"user", "dir">>
           p2 == IF keep THEN <<>> ELSE <<"identity">>
           p3 == <<"sysctl">>
           p4 == steps_firewall(fw)
           p5 == <<"nft">>
           p6 == IF packaged THEN <<>> ELSE <<"units">>
           p7 == <<"services">>
<1>1. p1 \in Seq(Steps) /\ p3 \in Seq(Steps) /\ p5 \in Seq(Steps) /\ p7 \in Seq(Steps)
  BY DEF Steps
<1>2. p2 \in Seq(Steps) /\ p6 \in Seq(Steps)
  <2>1. <<>> \in Seq(Steps) /\ <<"identity">> \in Seq(Steps) /\ <<"units">> \in Seq(Steps)
    BY DEF Steps
  <2> QED BY <2>1
<1>3. p4 \in Seq(Steps)
  <2>1. /\ <<"port", "masquerade", "trust", "reload">> \in Seq(Steps)
        /\ <<"port", "route">> \in Seq(Steps) /\ <<>> \in Seq(Steps)
    BY DEF Steps
  <2> QED BY <2>1 DEF steps_firewall
<1>4. Has(p1, "user") /\ Has(p1, "dir") /\ Has(p3, "sysctl") /\ Has(p5, "nft") /\ Has(p7, "services")
  BY DEF Has
<1>5. s = "identity" => Has(p2, s)
  <2>1. Has(<<"identity">>, "identity")
    BY DEF Has
  <2>2. ~keep => p2 = <<"identity">>
    OBVIOUS
  <2>3. s = "identity" => ~keep
    BY DEF Wanted, RuleSteps
  <2> QED BY <2>1, <2>2, <2>3
<1>6. s = "units" => Has(p6, s)
  <2>1. Has(<<"units">>, "units")
    BY DEF Has
  <2>2. ~packaged => p6 = <<"units">>
    OBVIOUS
  <2>3. s = "units" => ~packaged
    BY DEF Wanted, RuleSteps
  <2> QED BY <2>1, <2>2, <2>3
<1>7. s \in RuleSteps(fw) => Has(p4, s)
  <2>1. \A r \in {"port", "masquerade", "trust"} : Has(<<"port", "masquerade", "trust", "reload">>, r)
    BY DEF Has
  <2>2. \A r \in {"port", "route"} : Has(<<"port", "route">>, r)
    BY DEF Has
  <2> QED BY <2>1, <2>2 DEF RuleSteps, steps_firewall
<1> DEFINE q2 == p1 \o p2
           q3 == q2 \o p3
           q4 == q3 \o p4
           q5 == q4 \o p5
           q6 == q5 \o p6
<1>8. Plan(fw, keep) = q6 \o p7
  BY DEF Plan
<1> HIDE DEF p1, p2, p3, p4, p5, p6, p7
<1>a. q2 \in Seq(Steps) /\ (Has(p1, s) \/ Has(p2, s) => Has(q2, s))
  BY <1>1, <1>2, HasConcat
<1> HIDE DEF q2
<1>b. q3 \in Seq(Steps) /\ (Has(q2, s) \/ Has(p3, s) => Has(q3, s))
  BY <1>1, <1>a, HasConcat
<1> HIDE DEF q3
<1>c. q4 \in Seq(Steps) /\ (Has(q3, s) \/ Has(p4, s) => Has(q4, s))
  BY <1>3, <1>b, HasConcat
<1> HIDE DEF q4
<1>d. q5 \in Seq(Steps) /\ (Has(q4, s) \/ Has(p5, s) => Has(q5, s))
  BY <1>1, <1>c, HasConcat
<1> HIDE DEF q5
<1>e. q6 \in Seq(Steps) /\ (Has(q5, s) \/ Has(p6, s) => Has(q6, s))
  BY <1>2, <1>d, HasConcat
<1> HIDE DEF q6
<1>f. Has(q6, s) \/ Has(p7, s) => Has(q6 \o p7, s)
  BY <1>1, <1>e, HasConcat
<1>g. s \in {"user", "dir", "sysctl", "nft", "services", "identity", "units"} \cup RuleSteps(fw)
  BY DEF Wanted
<1> QED BY <1>4, <1>5, <1>6, <1>7, <1>8, <1>a, <1>b, <1>c, <1>d, <1>e, <1>f, <1>g

\* The end state of a step.
Achieved(s) ==
    /\ s = "user"     => "account" \in disk
    /\ s = "dir"      => {"dir", "dir_mode"} \subseteq disk
    /\ s = "identity" => server = job.pair
    /\ s = "sysctl"   => "sysctl" \in disk /\ "forwarding" \in live
    /\ s \in Rules    => Rule(s) \in fw_perm
    /\ s = "nft"      => nft_file = render_nft(job.pair.net)
    /\ s = "units"    => {"main_unit", "nft_unit"} \subseteq disk
    /\ s = "services" => "enabled" \in disk

\* What one step of a run that goes on may change of all that.
LEMMA RunGoesOn ==
    ASSUME TypeOK, [Next]_vars, outcome = "running", outcome' = "running"
    PROVE  /\ firewall' = firewall /\ packaged' = packaged
           /\ job'.keep = job.keep /\ job'.pair = job.pair /\ (job'.full => job.full)
           /\ disk \subseteq disk' /\ fw_perm \subseteq fw_perm'
           /\ server' \in {server, job.pair} /\ nft_file' \in {nft_file, render_nft(job.pair.net)}
           /\ "forwarding" \in live => "forwarding" \in live'
<1>0. outcome # "running" \/ outcome' # "running" => FALSE
  OBVIOUS
<1>j. job \in JobType
  BY DEF TypeOK
<1>1. CASE \E force, no_firewall \in BOOLEAN, net \in Nets : Start(force, no_firewall, net)
  BY <1>1 DEF Start
<1>2. CASE Skip \/ Apply
  BY <1>2 DEF Skip, Apply, host
<1>3. CASE Decline
  BY <1>3, <1>j DEF Decline, host, JobType
<1>4. CASE \E op \in DOMAIN Leaves : DiskOp(op)
  BY <1>4 DEF DiskOp, Op
<1>5. CASE WriteClient \/ Backup \/ WriteServer
  BY <1>5 DEF WriteClient, Backup, WriteServer, Op
<1>6. CASE SysctlW \/ Reload \/ NftFile \/ DaemonReload \/ Enable
  BY <1>6 DEF SysctlW, Reload, NftFile, DaemonReload, Enable, Op
<1>7. CASE AddRule
  BY <1>7, <1>j DEF AddRule, Op, JobType
<1>8. CASE Restart
  BY <1>8 DEF Restart, StartUnits, Op
<1>9. CASE Verify \/ Fail
  BY <1>9 DEF Verify, Fail
<1>10. CASE Around \/ Reboot
  BY <1>10 DEF Around, TakeClient, ChangeFirewall, Reboot
<1>11. CASE UNCHANGED vars
  BY <1>11 DEF vars, host
<1> QED BY <1>1, <1>2, <1>3, <1>4, <1>5, <1>6, <1>7, <1>8, <1>9, <1>10, <1>11 DEF Next, Step, Around

LEMMA AchievedStays ==
    ASSUME TypeOK, [Next]_vars, outcome = "running", outcome' = "running", NEW s, Achieved(s)
    PROVE  Achieved(s)'
<1>1. /\ firewall' = firewall /\ job'.pair = job.pair
      /\ disk \subseteq disk' /\ fw_perm \subseteq fw_perm'
      /\ server' \in {server, job.pair} /\ nft_file' \in {nft_file, render_nft(job.pair.net)}
      /\ "forwarding" \in live => "forwarding" \in live'
  BY RunGoesOn
<1>2. Rule(s)' = Rule(s) /\ render_nft(job.pair.net)' = render_nft(job.pair.net)
  BY <1>1 DEF Rule, render_nft, with_nat
<1> QED BY <1>1, <1>2 DEF Achieved

\* The operation that ends a step.
LEMMA LastOp ==
    ASSUME Control, NEW op, Op(op), todo' = <<>>
    PROVE  /\ Head(plan) = "dir"      => op = "chmod"
           /\ Head(plan) = "identity" => op = "write_server"
           /\ Head(plan) = "sysctl"   => op = "sysctl_w"
           /\ Head(plan) = "units"    => op = "nft_unit"
           /\ Head(plan) = "services" => op = "restart"
           /\ Head(plan) \in Rules    => op = "add_rule"
           /\ Head(plan) \in {"user", "reload", "nft"} => op = Head(plan)
<1>1. /\ todo \in Remaining(Head(plan)) /\ Head(plan) \in Steps /\ Head(todo) = op /\ Tail(todo) = <<>>
  BY HeadOps
<1>2. ASSUME Head(plan) = "dir" PROVE op = "chmod"
  <2>1. todo \in {<<"mkdir", "chown", "chmod">>, <<"chown", "chmod">>, <<"chmod">>}
    BY <1>1, <1>2 DEF Remaining, Rules
  <2> QED BY <1>1, <2>1
<1>3. ASSUME Head(plan) = "identity" PROVE op = "write_server"
  <2>1. todo \in {<<"write_client", "backup", "write_server">>, <<"backup", "write_server">>,
                  <<"write_server">>}
    BY <1>1, <1>3 DEF Remaining, Rules
  <2> QED BY <1>1, <2>1
<1>4. ASSUME Head(plan) = "services" PROVE op = "restart"
  <2>1. todo \in {<<"daemon_reload", "enable", "restart">>, <<"enable", "restart">>, <<"restart">>}
    BY <1>1, <1>4 DEF Remaining, Rules
  <2> QED BY <1>1, <2>1
<1>5. ASSUME Head(plan) = "sysctl" PROVE op = "sysctl_w"
  <2>1. todo \in {<<"sysctl_file", "sysctl_w">>, <<"sysctl_w">>}
    BY <1>1, <1>5 DEF Remaining, Rules
  <2>2. Tail(<<"sysctl_file", "sysctl_w">>) # <<>>
    OBVIOUS
  <2>3. todo = <<"sysctl_w">>
    BY <1>1, <2>1, <2>2
  <2> QED BY <1>1, <2>3
<1>6. ASSUME Head(plan) = "units" PROVE op = "nft_unit"
  <2>1. todo \in {<<"main_unit", "nft_unit">>, <<"nft_unit">>}
    BY <1>1, <1>6 DEF Remaining, Rules
  <2>2. Tail(<<"main_unit", "nft_unit">>) # <<>>
    OBVIOUS
  <2>3. todo = <<"nft_unit">>
    BY <1>1, <2>1, <2>2
  <2> QED BY <1>1, <2>3
<1>7. ASSUME Head(plan) \in Rules PROVE op = "add_rule"
  <2>1. todo = <<"add_rule">>
    BY <1>1, <1>7 DEF Remaining, Rules
  <2> QED BY <1>1, <2>1
<1>8. ASSUME Head(plan) \in {"user", "reload", "nft"} PROVE op = Head(plan)
  <2>1. todo = <<Head(plan)>>
    BY <1>1, <1>8 DEF Remaining, Rules
  <2> QED BY <1>1, <2>1
<1> QED BY <1>2, <1>3, <1>4, <1>5, <1>6, <1>7, <1>8

\* A step that is over has its end state.
LEMMA EndsAchieved ==
    ASSUME TypeOK, Control, Midway, Operate, todo' = <<>>, NEW s, s = Head(plan)
    PROVE  Achieved(s)'
<1>1. ASSUME NEW op, Op(op)
      PROVE  /\ s \in Steps /\ todo # <<>> /\ Head(todo) = op /\ outcome = "running"
             /\ s = "dir"      => op = "chmod"
             /\ s = "identity" => op = "write_server"
             /\ s = "sysctl"   => op = "sysctl_w"
             /\ s = "units"    => op = "nft_unit"
             /\ s = "services" => op = "restart"
             /\ s \in Rules    => op = "add_rule"
             /\ s \in {"user", "reload", "nft"} => op = s
  BY <1>1, HeadOps, LastOp
<1>2. ASSUME NEW op \in DOMAIN Leaves, DiskOp(op) PROVE Achieved(s)'
  <2>1. \/ s = "dir" /\ op = "chmod"
        \/ s = "units" /\ op = "nft_unit"
        \/ s = "user" /\ op = "user"
    <3>1. op \in {"user", "mkdir", "chown", "chmod", "sysctl_file", "main_unit", "nft_unit"}
      BY LeavesTable
    <3>2. s \notin Rules \cup {"identity", "sysctl", "services", "reload", "nft"}
      BY <1>1, <1>2, <3>1 DEF DiskOp
    <3>3. s \in {"dir", "units", "user"}
      BY <1>1, <1>2, <3>2 DEF DiskOp, Steps, Rules
    <3>4. Op(op)
      BY <1>2 DEF DiskOp
    <3>5. (s = "dir" => op = "chmod") /\ (s = "units" => op = "nft_unit") /\ (s = "user" => op = "user")
      BY <1>1, <3>4
    <3> QED BY <3>3, <3>5
  <2>2. disk' = disk \cup {Leaves[op]} /\ Head(todo) = op /\ todo # <<>>
    BY <1>1, <1>2 DEF DiskOp
  <2> QED BY <2>1, <2>2, LeavesTable DEF Achieved, Midway, Rules
<1>3. CASE WriteServer
  <2>1. s = "identity"
    BY <1>1, <1>3 DEF WriteServer, Steps, Rules
  <2> QED BY <1>3, <2>1 DEF WriteServer, Achieved, Rules
<1>4. CASE SysctlW
  <2>1. s = "sysctl" /\ "sysctl" \in disk
    BY <1>1, <1>4 DEF SysctlW, Steps, Rules, Midway
  <2> QED BY <1>4, <2>1 DEF SysctlW, Achieved, Rules
<1>5. CASE AddRule
  <2>1. s \in Rules
    BY <1>5, AddRuleStep DEF AddRule
  <2>2. job'.pair = job.pair
    BY <1>5 DEF AddRule, TypeOK, JobType
  <2>3. Rule(s)' \in fw_perm'
    BY <1>5, <2>2 DEF AddRule, Op, Rule
  <2> QED BY <2>1, <2>3 DEF Achieved, Rules
<1>6. CASE Reload
  <2>1. s = "reload"
    BY <1>1, <1>6 DEF Reload, Steps, Rules
  <2> QED BY <2>1 DEF Achieved, Rules
<1>7. CASE NftFile
  <2>1. s = "nft"
    BY <1>1, <1>7 DEF NftFile, Steps, Rules
  <2>2. render_nft(job.pair.net)' = render_nft(job.pair.net)
    BY <1>7 DEF NftFile, Op, render_nft, with_nat
  <2> QED BY <1>7, <2>1, <2>2 DEF NftFile, Achieved, Rules
<1>8. CASE Restart
  <2>1. s = "services" /\ "enabled" \in disk
    BY <1>1, <1>8 DEF Restart, Steps, Rules, Midway
  <2> QED BY <1>8, <2>1 DEF Restart, Achieved, Rules
<1>9. ASSUME WriteClient \/ Backup \/ DaemonReload \/ Enable PROVE FALSE
  BY <1>1, <1>9 DEF WriteClient, Backup, DaemonReload, Enable, Steps, Rules
<1> QED BY <1>2, <1>3, <1>4, <1>5, <1>6, <1>7, <1>8, <1>9 DEF Operate

\* A step that is found in place has its end state.
LEMMA DoneAchieved == ASSUME plan # <<>>, Head(plan) \in Steps, Done(Head(plan)) PROVE Achieved(Head(plan))
<1>1. CASE Head(plan) \in Rules
  BY <1>1 DEF Done, Achieved, Rules
<1>2. CASE Head(plan) \in {"user", "dir", "identity", "sysctl"}
  BY <1>2 DEF Done, Achieved, Rules, sysctl_done
<1>3. CASE Head(plan) \in {"reload", "nft", "units", "services"}
  BY <1>3 DEF Done, Achieved, Rules, services_done
<1> QED BY <1>1, <1>2, <1>3 DEF Steps, Rules

\* Every step that is wanted is ahead or achieved, in a run that declined none.
OnCourse ==
    outcome = "running" /\ job.full => \A s \in Wanted(firewall, job.keep) : Has(plan, s) \/ Achieved(s)

Standing ==
    /\ packaged => {"main_unit", "nft_unit"} \subseteq disk
    /\ "dir_mode" \in disk => "dir_group" \in disk
    /\ outcome = "running" /\ job.keep => server = job.pair

DiskInv == Standing /\ OnCourse /\ CompleteOnDisk

LEMMA StepStanding == TypeOK /\ Control /\ Midway /\ Standing /\ [Next]_vars => Standing'
<1> SUFFICES ASSUME TypeOK, Control, Midway, Standing, [Next]_vars PROVE Standing'
  OBVIOUS
<1>1. packaged' = packaged /\ disk \subseteq disk'
  BY DEF Next, Step, vars, host, Start, Skip, Decline, Apply, Verify, Fail, DiskOp, Op, WriteClient, Backup,
         WriteServer, SysctlW, AddRule, Reload, NftFile, DaemonReload, Enable, Restart,
         Around, TakeClient, ChangeFirewall, Reboot
<1>2. ASSUME "dir_mode" \in disk' PROVE "dir_group" \in disk'
  <2>1. CASE "dir_mode" \in disk
    BY <1>1, <2>1 DEF Standing
  <2>2. CASE "dir_mode" \notin disk
    <3>1. ASSUME NEW op \in DOMAIN Leaves, DiskOp(op) PROVE "dir_group" \in disk'
      <4>1. op = "chmod" /\ todo # <<>> /\ Head(todo) = op
        BY <1>2, <2>2, <3>1, LeavesTable DEF DiskOp, Op
      <4> QED BY <1>1, <4>1 DEF Midway
    <3>2. CASE Enable
      BY <1>2, <2>2, <3>2 DEF Enable
    <3>3. CASE ~Enable /\ ~\E op \in DOMAIN Leaves : DiskOp(op)
      <4>1. disk' = disk
        BY <3>3 DEF Next, Step, vars, host, Start, Skip, Decline, Apply, Verify, Fail, WriteClient, Backup,
                    WriteServer, SysctlW, AddRule, Reload, NftFile, DaemonReload, Restart,
                    Around, TakeClient, ChangeFirewall, Reboot
      <4> QED BY <1>2, <2>2, <4>1
    <3> QED BY <3>1, <3>2, <3>3
  <2> QED BY <2>1, <2>2
<1>3. ASSUME outcome' = "running", job'.keep PROVE server' = job'.pair
  <2>1. CASE outcome = "running"
    <3>1. job'.keep = job.keep /\ job'.pair = job.pair /\ server' \in {server, job.pair}
      BY <1>3, <2>1, RunGoesOn
    <3> QED BY <1>3, <2>1, <3>1 DEF Standing
  <2>2. CASE outcome # "running"
    <3>1. PICK force, no_firewall \in BOOLEAN, net \in Nets : Start(force, no_firewall, net)
      BY <1>3, <2>2 DEF Next, Step, vars, host, Skip, Decline, Apply, Verify, Fail, DiskOp, Op, WriteClient,
             Backup, WriteServer, SysctlW, AddRule, Reload, NftFile, DaemonReload, Enable, Restart,
             Around, TakeClient, ChangeFirewall,
             Reboot
    <3>2. /\ job'.keep = (server # NoPair /\ ~force)
          /\ job'.pair = IF server # NoPair /\ ~force THEN server ELSE [id |-> runs + 1, net |-> net]
          /\ server' = server
      BY <3>1 DEF Start, NoJob, host
    <3> QED BY <1>3, <3>2
  <2> QED BY <2>1, <2>2
<1> QED BY <1>1, <1>2, <1>3 DEF Standing

LEMMA StepOnCourse == TypeOK /\ Control /\ Midway /\ OnCourse /\ [Next]_vars => OnCourse'
<1> SUFFICES ASSUME TypeOK, Control, Midway, OnCourse, [Next]_vars, outcome' = "running", job'.full,
                    NEW s \in Wanted(firewall, job.keep)'
             PROVE  (Has(plan, s) \/ Achieved(s))'
  BY DEF OnCourse
<1>1. CASE outcome # "running"
  <2>1. PICK force, no_firewall \in BOOLEAN, net \in Nets : Start(force, no_firewall, net)
    BY <1>1 DEF Next, Step, vars, host, Skip, Decline, Apply, Verify, Fail, DiskOp, Op, WriteClient,
           Backup, WriteServer, SysctlW, AddRule, Reload, NftFile, DaemonReload, Enable, Restart,
           Around, TakeClient, ChangeFirewall,
           Reboot
  <2> DEFINE keep == server # NoPair /\ ~force
  <2>2. keep \in BOOLEAN /\ job'.keep = keep /\ plan' = Plan(firewall', keep) /\ packaged' = packaged
    BY <2>1 DEF Start, NoJob, host
  <2> HIDE DEF keep
  <2>3. s \in Wanted(firewall', keep)
    BY <2>2 DEF Wanted, RuleSteps
  <2>4. Has(plan', s)
    BY <2>2, <2>3, WantedPlanned
  <2> QED BY <2>4 DEF Has
<1>2. CASE outcome = "running"
  <2>1. firewall' = firewall /\ packaged' = packaged /\ job'.keep = job.keep /\ job.full
    BY <1>2, RunGoesOn
  <2>2. s \in Wanted(firewall, job.keep)
    BY <2>1 DEF Wanted, RuleSteps
  <2>3. Has(plan, s) \/ Achieved(s)
    BY <1>2, <2>1, <2>2 DEF OnCourse
  <2>4. CASE Achieved(s)
    BY <1>2, <2>4, AchievedStays
  <2>5. CASE plan' = plan /\ Has(plan, s)
    BY <2>5 DEF Has
  <2>6. ASSUME plan # <<>>, plan' = Tail(plan), Has(plan, s), s = Head(plan) => Achieved(s)'
        PROVE  (Has(plan, s) \/ Achieved(s))'
    <3>1. s = Head(plan) \/ Has(Tail(plan), s)
      BY <2>6, HasTail DEF Control
    <3> QED BY <2>6, <3>1 DEF Has
  <2>7. CASE Skip
    <3>1. plan # <<>> /\ plan' = Tail(plan) /\ Head(plan) \in Steps /\ Done(Head(plan))
      BY <2>7 DEF Skip, Control
    <3> QED BY <1>2, <2>3, <2>4, <2>6, <3>1, DoneAchieved, AchievedStays
  <2>8. CASE Operate
    <3>1. PICK op : Op(op)
      BY <2>8, OperateOp
    <3>2. /\ plan # <<>> /\ (todo' # <<>> => plan' = plan)
          /\ todo' = <<>> => plan' = Tail(plan)
      BY <3>1, HeadOps
    <3>3. CASE todo' # <<>>
      BY <2>3, <2>4, <2>5, <3>2, <3>3
    <3>4. CASE todo' = <<>>
      <4>1. s = Head(plan) => Achieved(s)'
        BY <2>8, <3>4, EndsAchieved
      <4> QED BY <2>3, <2>4, <2>6, <3>2, <3>4, <4>1
    <3> QED BY <3>3, <3>4
  <2>9. CASE Apply \/ UNCHANGED vars
    BY <2>3, <2>4, <2>5, <2>9 DEF Apply, vars
  <2>10. ASSUME Decline PROVE FALSE
    BY <2>10 DEF Decline, TypeOK, JobType
  <2>11. ASSUME \/ \E force, no_firewall \in BOOLEAN, net \in Nets : Start(force, no_firewall, net)
                \/ Verify \/ Fail \/ Around \/ Reboot
         PROVE  FALSE
    BY <1>2, <2>11 DEF Start, Verify, Fail, Around, TakeClient, ChangeFirewall, Reboot
  <2> QED BY <2>7, <2>8, <2>9, <2>10, <2>11 DEF Next, Step, Operate, Around
<1> QED BY <1>1, <1>2

LEMMA NoPairAtAll == NoPair \notin Pairs
  BY DEF NoPair, Pairs

LEMMA StepComplete == TypeOK /\ DiskInv /\ [Next]_vars => CompleteOnDisk'
<1> SUFFICES ASSUME TypeOK, DiskInv, [Next]_vars, outcome' = "complete" PROVE CompleteOnDisk'
  BY DEF CompleteOnDisk
<1>1. CASE Verify
  <2>1. /\ plan = <<>> /\ outcome = "running" /\ job.full
        /\ UNCHANGED <<firewall, packaged, disk, server, fw_perm, nft_file>>
    BY <1>1 DEF Verify, host
  <2>2. ASSUME NEW s \in Wanted(firewall, job.keep) PROVE Achieved(s)
    <3>1. ~Has(plan, s)
      BY <2>1 DEF Has
    <3> QED BY <2>1, <3>1 DEF DiskInv, OnCourse
  <2>3. Achieved("user") /\ Achieved("dir") /\ Achieved("sysctl") /\ Achieved("nft") /\ Achieved("services")
    BY <2>2 DEF Wanted
  <2>4. server = job.pair
    <3>1. CASE job.keep
      BY <2>1, <3>1 DEF DiskInv, Standing
    <3>2. CASE ~job.keep
      <4>1. Achieved("identity")
        BY <2>2, <3>2 DEF Wanted
      <4> QED BY <4>1 DEF Achieved
    <3> QED BY <3>1, <3>2
  <2>5. {"main_unit", "nft_unit"} \subseteq disk
    <3>1. CASE packaged
      BY <3>1 DEF DiskInv, Standing
    <3>2. CASE ~packaged
      <4>1. Achieved("units")
        BY <2>2, <3>2 DEF Wanted
      <4> QED BY <4>1 DEF Achieved
    <3> QED BY <3>1, <3>2
  <2>6. Parts \subseteq disk
    BY <2>3, <2>5 DEF Achieved, Parts, DiskInv, Standing
  <2>7. server # NoPair
    BY <2>1, <2>4, NoPairAtAll DEF TypeOK
  <2>8. NeededRules \subseteq fw_perm
    <3>1. ASSUME NEW r \in RuleSteps(firewall) PROVE Rule(r) \in fw_perm
      <4>1. Achieved(r) /\ r \in Rules
        BY <2>2 DEF Wanted, RuleSteps, Rules
      <4> QED BY <4>1 DEF Achieved
    <3>2. CASE firewall = "firewalld"
      BY <2>4, <3>1, <3>2 DEF RuleSteps, Rule, NeededRules
    <3>3. CASE firewall = "ufw"
      BY <2>4, <3>1, <3>3 DEF RuleSteps, Rule, NeededRules
    <3>4. CASE firewall \notin {"firewalld", "ufw"}
      BY <3>4 DEF NeededRules
    <3> QED BY <3>2, <3>3, <3>4
  <2>9. nft_file = render_nft(server.net)
    BY <2>3, <2>4 DEF Achieved
  <2>10. NeededRules' = NeededRules /\ render_nft(server.net)' = render_nft(server.net)
    BY <2>1 DEF NeededRules, render_nft, with_nat
  <2> QED BY <2>1, <2>6, <2>7, <2>8, <2>9, <2>10 DEF CompleteOnDisk
<1>2. CASE ~Verify
  <2>1. outcome = "complete" /\ UNCHANGED <<firewall, disk, server, fw_perm, nft_file>>
    BY <1>2 DEF Next, Step, vars, host, Start, Skip, Decline, Apply, Fail, DiskOp, Op, WriteClient,
           Backup, WriteServer, SysctlW, AddRule, Reload, NftFile, DaemonReload, Enable, Restart,
           Around, TakeClient, ChangeFirewall,
           Reboot
  <2>2. NeededRules' = NeededRules /\ render_nft(server.net)' = render_nft(server.net)
    BY <2>1 DEF NeededRules, render_nft, with_nat
  <2> QED BY <2>1, <2>2 DEF CompleteOnDisk, DiskInv
<1> QED BY <1>1, <1>2

\* The inductive invariant of what is on disk.
THEOREM DiskInvariance == Spec => []DiskInv
<1>1. Init => DiskInv
  BY DEF Init, DiskInv, Standing, OnCourse, CompleteOnDisk
<1>2. TypeOK /\ Control /\ Midway /\ DiskInv /\ [Next]_vars => DiskInv'
  BY StepStanding, StepOnCourse, StepComplete DEF DiskInv
<1> QED BY <1>1, <1>2, TypeCorrect, ControlInvariance, MidwayInvariance, PTL DEF Spec

(***************************************************************************)
(* Whatever earlier runs left half done, a run in which every step was     *)
(* found in place or applied leaves a complete installation on disk (the   *)
(* plan of run and the steps' done closures).                              *)
(***************************************************************************)
THEOREM RepairCompletes == Spec => []CompleteOnDisk
<1>1. DiskInv => CompleteOnDisk
  BY DEF DiskInv
<1> QED BY <1>1, DiskInvariance, PTL

-----------------------------------------------------------------------------
(* What a run brings into force *)

\* A plan in which a reload follows every rule.
Reloaded(p) == \A i \in 1..Len(p) : p[i] \in Rules => \E j \in (i + 1)..Len(p) : p[j] = "reload"

\* The services come last.
PlanOrder ==
    /\ plan # <<>> => plan[Len(plan)] = "services"
    /\ firewall = "firewalld" => Reloaded(plan)

\* The stored rules of the active firewall are in force, or will be after the reload; a run is
\* for the firewall that is active, or for none.
RulesInForce ==
    /\ outcome = "running" => firewall \in {active, "none"}
    /\ active = "ufw" => fw_run = Stored
    /\ steady /\ active = "firewalld" =>
          fw_run = Stored \/ (outcome = "running" /\ job.changed /\ Has(plan, "reload"))

\* Where the runs since the boot, and the last one before it, stand.
Steady ==
    /\ outcome = "none" => server = NoPair
    /\ steady /\ outcome # "running" => outcome \in {"none", "complete"}
    /\ steady /\ outcome = "running" => job.full

\* A run that keeps the config finds the service up to date; any run ends with it so.
ServiceInForce ==
    /\ steady /\ outcome = "running" /\ job.keep =>
          service = server /\ nft_loaded = nft_file /\ nft_file = render_nft(job.pair.net)
    /\ steady /\ outcome = "running" /\ plan = <<>> =>
          service = server /\ nft_loaded = nft_file /\ "nft_active" \in live

ForceInv == PlanOrder /\ RulesInForce /\ Steady /\ ServiceInForce /\ CompleteInForce

LEMMA ReloadedConcat ==
    ASSUME NEW a \in Seq(Steps), NEW b \in Seq(Steps), Reloaded(a), Reloaded(b)
    PROVE  Reloaded(a \o b)
<1> SUFFICES ASSUME NEW i \in 1..Len(a \o b), (a \o b)[i] \in Rules
             PROVE  \E j \in (i + 1)..Len(a \o b) : (a \o b)[j] = "reload"
  BY DEF Reloaded
<1>l. Len(a \o b) = Len(a) + Len(b) /\ Len(a) \in Nat /\ Len(b) \in Nat
  OBVIOUS
<1>1. CASE i <= Len(a)
  <2>1. a[i] \in Rules /\ i \in 1..Len(a)
    BY <1>1, <1>l
  <2>2. PICK j \in (i + 1)..Len(a) : a[j] = "reload"
    BY <2>1 DEF Reloaded
  <2>3. j \in (i + 1)..Len(a \o b) /\ (a \o b)[j] = "reload"
    BY <1>l, <2>1, <2>2
  <2> QED BY <2>3
<1>2. CASE i > Len(a)
  <2>1. i - Len(a) \in 1..Len(b) /\ b[i - Len(a)] \in Rules
    BY <1>2, <1>l
  <2>2. PICK j \in (i - Len(a) + 1)..Len(b) : b[j] = "reload"
    BY <2>1 DEF Reloaded
  <2>3. Len(a) + j \in (i + 1)..Len(a \o b) /\ (a \o b)[Len(a) + j] = "reload"
    BY <1>l, <2>1, <2>2
  <2> QED BY <2>3
<1> QED BY <1>1, <1>2, <1>l

LEMMA ReloadedTail == ASSUME NEW p \in Seq(Steps), p # <<>>, Reloaded(p) PROVE Reloaded(Tail(p))
<1> SUFFICES ASSUME NEW i \in 1..Len(Tail(p)), Tail(p)[i] \in Rules
             PROVE  \E j \in (i + 1)..Len(Tail(p)) : Tail(p)[j] = "reload"
  BY DEF Reloaded
<1>1. i + 1 \in 1..Len(p) /\ p[i + 1] \in Rules /\ Len(Tail(p)) = Len(p) - 1 /\ Len(p) \in Nat
  OBVIOUS
<1>2. PICK j \in (i + 2)..Len(p) : p[j] = "reload"
  BY <1>1 DEF Reloaded
<1>3. j - 1 \in (i + 1)..Len(Tail(p)) /\ Tail(p)[j - 1] = "reload"
  BY <1>1, <1>2
<1> QED BY <1>3

LEMMA PlanOrdered ==
    ASSUME NEW fw, NEW keep \in BOOLEAN
    PROVE  /\ Plan(fw, keep)[Len(Plan(fw, keep))] = "services"
           /\ fw = "firewalld" => Reloaded(Plan(fw, keep))
<1> DEFINE p1 == <<"user", "dir">>
           p2 == IF keep THEN <<>> ELSE <<"identity">>
           p3 == <<"sysctl">>
           p4 == steps_firewall(fw)
           p5 == <<"nft">>
           p6 == IF packaged THEN <<>> ELSE <<"units">>
           p7 == <<"services">>
<1>1. p1 \in Seq(Steps) /\ p3 \in Seq(Steps) /\ p5 \in Seq(Steps) /\ p7 \in Seq(Steps)
  BY DEF Steps
<1>2. p2 \in Seq(Steps) /\ p6 \in Seq(Steps)
  <2>1. <<>> \in Seq(Steps) /\ <<"identity">> \in Seq(Steps) /\ <<"units">> \in Seq(Steps)
    BY DEF Steps
  <2> QED BY <2>1
<1>3. p4 \in Seq(Steps)
  <2>1. /\ <<"port", "masquerade", "trust", "reload">> \in Seq(Steps)
        /\ <<"port", "route">> \in Seq(Steps) /\ <<>> \in Seq(Steps)
    BY DEF Steps
  <2> QED BY <2>1 DEF steps_firewall
<1>4. Reloaded(p1) /\ Reloaded(p3) /\ Reloaded(p5) /\ Reloaded(p7)
  BY DEF Reloaded, Rules
<1>5. Reloaded(p2) /\ Reloaded(p6)
  <2>1. Reloaded(<<>>) /\ Reloaded(<<"identity">>) /\ Reloaded(<<"units">>)
    BY DEF Reloaded, Rules
  <2> QED BY <2>1
<1>6. fw = "firewalld" => Reloaded(p4)
  <2> DEFINE r == <<"port", "masquerade", "trust", "reload">>
  <2>1. r[4] = "reload" /\ r[4] \notin Rules /\ Len(r) = 4
    BY DEF Rules
  <2>2. Reloaded(r)
    BY <2>1 DEF Reloaded
  <2> QED BY <2>2 DEF steps_firewall
<1> DEFINE q2 == p1 \o p2
           q3 == q2 \o p3
           q4 == q3 \o p4
           q5 == q4 \o p5
           q6 == q5 \o p6
<1>8. Plan(fw, keep) = q6 \o p7
  BY DEF Plan
<1>9. p7 = <<"services">>
  OBVIOUS
<1> HIDE DEF p1, p2, p3, p4, p5, p6, p7
<1>a. q2 \in Seq(Steps) /\ Reloaded(q2)
  BY <1>1, <1>2, <1>4, <1>5, ReloadedConcat
<1> HIDE DEF q2
<1>b. q3 \in Seq(Steps) /\ Reloaded(q3)
  BY <1>1, <1>4, <1>a, ReloadedConcat
<1> HIDE DEF q3
<1>c. q4 \in Seq(Steps) /\ (fw = "firewalld" => Reloaded(q4))
  BY <1>3, <1>6, <1>b, ReloadedConcat
<1> HIDE DEF q4
<1>d. q5 \in Seq(Steps) /\ (fw = "firewalld" => Reloaded(q5))
  BY <1>1, <1>4, <1>c, ReloadedConcat
<1> HIDE DEF q5
<1>e. q6 \in Seq(Steps) /\ (fw = "firewalld" => Reloaded(q6))
  BY <1>2, <1>5, <1>d, ReloadedConcat
<1> HIDE DEF q6
<1>f. fw = "firewalld" => Reloaded(Plan(fw, keep))
  BY <1>1, <1>4, <1>8, <1>e, ReloadedConcat
<1>g. Plan(fw, keep)[Len(Plan(fw, keep))] = "services"
  BY <1>8, <1>9, <1>e
<1> QED BY <1>f, <1>g

\* How a plan shrinks.
LEMMA PlanMoves ==
    ASSUME Control, [Next]_vars,
           ~\E force, no_firewall \in BOOLEAN, net \in Nets : Start(force, no_firewall, net)
    PROVE  \/ plan' = plan
           \/ plan # <<>> /\ plan' = Tail(plan)
           \/ plan' = <<>>
<1>2. ASSUME Operate PROVE plan' = plan \/ (plan # <<>> /\ plan' = Tail(plan))
  <2>1. PICK op : Op(op)
    BY <1>2, OperateOp
  <2> QED BY <2>1, HeadOps
<1>3. CASE Skip \/ Decline \/ Apply
  BY <1>3 DEF Skip, Decline, Apply
<1>4. CASE Verify \/ Fail \/ Around \/ Reboot
  BY <1>4 DEF Verify, Fail, Around, TakeClient, ChangeFirewall, Reboot
<1>5. CASE UNCHANGED vars
  BY <1>5 DEF vars
<1> QED BY <1>2, <1>3, <1>4, <1>5 DEF Next, Step, Operate, Around

LEMMA StepOrder == Control /\ PlanOrder /\ [Next]_vars => PlanOrder'
<1> SUFFICES ASSUME Control, PlanOrder, [Next]_vars PROVE PlanOrder'
  OBVIOUS
<1>s. plan \in Seq(Steps)
  BY DEF Control
<1>1. ASSUME NEW force \in BOOLEAN, NEW no_firewall \in BOOLEAN, NEW net \in Nets,
             Start(force, no_firewall, net)
      PROVE  PlanOrder'
  <2>1. (server # NoPair /\ ~force) \in BOOLEAN /\ plan' = Plan(firewall', server # NoPair /\ ~force)
    BY <1>1 DEF Start
  <2> QED BY <2>1, PlanOrdered DEF PlanOrder, Reloaded
<1>2. CASE ~\E force, no_firewall \in BOOLEAN, net \in Nets : Start(force, no_firewall, net)
  <2>1. firewall' = firewall
    BY <1>2 DEF Next, Step, vars, host, Skip, Decline, Apply, Verify, Fail, DiskOp, Op, WriteClient,
           Backup, WriteServer, SysctlW, AddRule, Reload, NftFile, DaemonReload, Enable, Restart,
           TakeClient, ChangeFirewall, Reboot
  <2>2. CASE plan' = plan
    BY <2>1, <2>2 DEF PlanOrder, Reloaded
  <2>3. CASE plan # <<>> /\ plan' = Tail(plan)
    <3>1. plan' # <<>> => plan'[Len(plan')] = plan[Len(plan)]
      BY <1>s, <2>3
    <3>2. firewall = "firewalld" => Reloaded(Tail(plan))
      BY <1>s, <2>3, ReloadedTail DEF PlanOrder
    <3> QED BY <2>1, <2>3, <3>1, <3>2 DEF PlanOrder, Reloaded
  <2>4. CASE plan' = <<>>
    BY <2>4 DEF PlanOrder, Reloaded
  <2> QED BY <1>2, <2>2, <2>3, <2>4, PlanMoves
<1> QED BY <1>1, <1>2

LEMMA StepSteady == TypeOK /\ Steady /\ [Next]_vars => Steady'
<1> SUFFICES ASSUME TypeOK, Steady, [Next]_vars PROVE Steady'
  OBVIOUS
<1> USE DEF Steady
<1>j. job \in JobType
  BY DEF TypeOK
<1>1. ASSUME NEW force \in BOOLEAN, NEW no_firewall \in BOOLEAN, NEW net \in Nets,
             Start(force, no_firewall, net) PROVE Steady'
  BY <1>1 DEF Start, NoJob, host
<1>2. CASE Skip \/ Apply
  BY <1>2 DEF Skip, Apply, host
<1>3. CASE Decline
  BY <1>3 DEF Decline, host
<1>4. CASE \E op \in DOMAIN Leaves : DiskOp(op)
  BY <1>4 DEF DiskOp, Op
<1>5. CASE WriteClient \/ Backup \/ WriteServer
  BY <1>5 DEF WriteClient, Backup, WriteServer, Op
<1>6. CASE SysctlW \/ Reload \/ NftFile \/ DaemonReload \/ Enable \/ Restart
  BY <1>6 DEF SysctlW, Reload, NftFile, DaemonReload, Enable, Restart, Op
<1>7. CASE AddRule
  <2>1. job'.full = job.full
    BY <1>7, <1>j DEF AddRule, JobType
  <2> QED BY <1>7, <2>1 DEF AddRule, Op
<1>8. CASE Verify
  BY <1>8 DEF Verify, host
<1>9. CASE Fail
  BY <1>9 DEF Fail, host
<1>10. CASE Around
  BY <1>10 DEF Around, TakeClient, ChangeFirewall
<1>11. CASE Reboot
  BY <1>11 DEF Reboot
<1>12. CASE UNCHANGED vars
  BY <1>12 DEF vars, host
<1> QED BY <1>1, <1>2, <1>3, <1>4, <1>5, <1>6, <1>7, <1>8, <1>9, <1>10, <1>11, <1>12 DEF Next, Step, Around

LEMMA StepRules ==
    TypeOK /\ Control /\ PlanOrder /\ RulesInForce /\ [Next]_vars => RulesInForce'
<1> SUFFICES ASSUME TypeOK, Control, PlanOrder, RulesInForce, [Next]_vars PROVE RulesInForce'
  OBVIOUS
<1>j. job \in JobType /\ plan \in Seq(Steps)
  BY DEF TypeOK
\* Only a skipped or an executed reload takes the reload off the plan.
<1>p. ASSUME UNCHANGED <<active, firewall, fw_run, fw_perm>>, steady' => steady, outcome' = outcome,
             job'.changed = job.changed, Has(plan, "reload") => Has(plan', "reload")
      PROVE  RulesInForce'
  BY <1>p DEF RulesInForce, Has, Stored
<1>t. ASSUME plan # <<>>, Head(plan) # "reload", Has(plan, "reload") PROVE Has(Tail(plan), "reload")
  BY <1>t, <1>j, HasTail
<1>1. ASSUME NEW force \in BOOLEAN, NEW no_firewall \in BOOLEAN, NEW net \in Nets,
             Start(force, no_firewall, net) PROVE RulesInForce'
  BY <1>1 DEF Start, host, RulesInForce, Stored
<1>2. CASE Skip
  <2>1. CASE Head(plan) = "reload"
    <3>1. ~job.changed
      BY <1>2, <2>1 DEF Skip, Done, Rules
    <3> QED BY <1>2, <3>1 DEF Skip, host, RulesInForce, Stored
  <2>2. CASE Head(plan) # "reload"
    <3>1. Has(plan, "reload") => Has(plan', "reload")
      BY <1>2, <1>t, <2>2 DEF Skip
    <3> QED BY <1>2, <1>p, <3>1 DEF Skip, host
  <2> QED BY <2>1, <2>2
<1>3. CASE Decline
  BY <1>3 DEF Decline, host, RulesInForce, Stored
<1>4. CASE Apply
  BY <1>4, <1>p DEF Apply, host
<1>5. ASSUME NEW op, Op(op), op # "reload" PROVE Has(plan, "reload") => Has(plan', "reload")
  <2>1. /\ plan # <<>> /\ (todo' # <<>> => plan' = plan) /\ (todo' = <<>> => plan' = Tail(plan))
        /\ Head(plan) = "reload" => todo' # <<>>
    BY <1>5, HeadOps, LastOp
  <2> QED BY <1>t, <2>1
<1>6. ASSUME NEW op \in DOMAIN Leaves, DiskOp(op) PROVE RulesInForce'
  <2>1. op # "reload"
    BY LeavesTable
  <2> QED BY <1>5, <1>6, <1>p, <2>1 DEF DiskOp, Op
<1>7. CASE WriteClient \/ Backup \/ WriteServer
  BY <1>5, <1>7, <1>p DEF WriteClient, Backup, WriteServer, Op
<1>8. CASE SysctlW \/ NftFile \/ DaemonReload \/ Enable \/ Restart
  BY <1>5, <1>8, <1>p DEF SysctlW, NftFile, DaemonReload, Enable, Restart, Op
<1>9. CASE AddRule
  <2>1. /\ UNCHANGED <<active, firewall>> /\ outcome' = "running" /\ firewall \in {active, "none"}
        /\ fw_perm' = fw_perm \cup {Rule(Head(plan))} /\ Rule(Head(plan))[1] = firewall
    BY <1>9 DEF AddRule, Op, RulesInForce, Rule
  <2>2. active = "ufw" => fw_run' = Stored'
    BY <1>9, <2>1 DEF AddRule, RulesInForce, Stored
  <2>3. CASE firewall = "firewalld"
    <3>1. job'.changed
      BY <1>9, <1>j, <2>3 DEF AddRule, JobType
    <3>2. Head(plan) \in Rules /\ plan # <<>>
      BY <1>9, AddRuleStep, HeadOps DEF AddRule
    <3>3. 1 \in 1..Len(plan) /\ plan[1] \in Rules
      BY <1>j, <3>2
    <3>4. \E k \in (1 + 1)..Len(plan) : plan[k] = "reload"
      BY <2>3, <3>3 DEF PlanOrder, Reloaded
    <3>5. Has(plan, "reload")
      BY <1>j, <3>4 DEF Has
    <3>6. Has(plan', "reload")
      BY <1>5, <1>9, <3>5 DEF AddRule
    <3> QED BY <2>1, <2>2, <3>1, <3>6 DEF RulesInForce, Has
  <2>4. CASE firewall # "firewalld"
    <3>1. active = "firewalld" => Stored' = Stored /\ fw_run' = fw_run
      BY <1>9, <2>1, <2>4 DEF AddRule, Stored
    <3>2. job'.changed = job.changed /\ steady' = steady /\ outcome = "running"
      BY <1>9, <1>j, <2>4 DEF AddRule, Op, JobType
    <3>3. Has(plan, "reload") => Has(plan', "reload")
      BY <1>5, <1>9 DEF AddRule
    <3> QED BY <2>1, <2>2, <3>1, <3>2, <3>3 DEF RulesInForce, Has
  <2> QED BY <2>3, <2>4
<1>10. CASE Reload
  BY <1>10 DEF Reload, Op, RulesInForce, Stored
<1>11. CASE Verify \/ Fail
  <2>1. CASE Verify
    <3>1. ~Has(plan, "reload")
      BY <2>1 DEF Verify, Has
    <3> QED BY <2>1, <3>1 DEF Verify, host, RulesInForce, Stored
  <2>2. CASE Fail
    BY <2>2 DEF Fail, host, RulesInForce, Stored
  <2> QED BY <1>11, <2>1, <2>2
<1>12. CASE TakeClient
  BY <1>12, <1>p DEF TakeClient
<1>15. CASE \E fw \in Firewalls : ChangeFirewall(fw)
  BY <1>15 DEF ChangeFirewall, RulesInForce, Stored
<1>13. CASE Reboot
  BY <1>13 DEF Reboot, RulesInForce, Stored
<1>14. CASE UNCHANGED vars
  BY <1>14, <1>p DEF vars, host
<1> QED BY <1>1, <1>2, <1>3, <1>4, <1>6, <1>7, <1>8, <1>9, <1>10, <1>11, <1>12, <1>13, <1>14,
           <1>15 DEF Next, Step

LEMMA PlanNotEmpty == ASSUME NEW fw, NEW keep \in BOOLEAN PROVE Plan(fw, keep) # <<>>
<1>1. Has(Plan(fw, keep), "services")
  BY WantedPlanned DEF Wanted
<1>2. ~Has(<<>>, "services")
  BY DEF Has
<1> QED BY <1>1, <1>2

LEMMA LastLeft == ASSUME NEW p \in Seq(Steps), p # <<>>, Tail(p) = <<>> PROVE Len(p) = 1 /\ Head(p) = p[1]
<1> DEFINE t == Tail(p)
<1>1. Len(t) = Len(p) - 1 /\ Len(p) \in Nat
  OBVIOUS
<1>2. t = <<>>
  OBVIOUS
<1> HIDE DEF t
<1>3. Len(t) = 0
  BY <1>2
<1>4. Len(p) = 1
  BY <1>1, <1>3
<1>5. Head(p) = p[1]
  OBVIOUS
<1> QED BY <1>4, <1>5

\* The file that render_nft makes is not empty.
LEMMA RenderedNft == \A net : render_nft(net) # <<>>
  BY DEF render_nft, with_nat

LEMMA StepService ==
    /\ TypeOK /\ Control /\ Midway /\ DiskInv /\ PlanOrder /\ Steady /\ ServiceInForce /\ CompleteInForce
    /\ [Next]_vars
    => ServiceInForce'
<1> SUFFICES ASSUME TypeOK, Control, Midway, DiskInv, PlanOrder, Steady, ServiceInForce, CompleteInForce,
                    [Next]_vars, steady', outcome' = "running"
             PROVE  ServiceInForce'
  BY DEF ServiceInForce
<1>j. job \in JobType /\ plan \in Seq(Steps)
  BY DEF TypeOK
<1>1. ASSUME NEW force \in BOOLEAN, NEW no_firewall \in BOOLEAN, NEW net \in Nets,
             Start(force, no_firewall, net) PROVE ServiceInForce'
  <2> DEFINE keep == server # NoPair /\ ~force
  <2>1. /\ outcome # "running" /\ steady /\ plan' = Plan(firewall', keep) /\ keep \in BOOLEAN
        /\ job'.keep = keep /\ (keep => job'.pair = server)
        /\ keep => with_nat(firewall') = with_nat(firewall)
        /\ UNCHANGED <<server, service, nft_loaded, nft_file, live>>
    BY <1>1 DEF Start, NoJob, host
  <2>2. plan' # <<>>
    BY <2>1, PlanNotEmpty
  <2>3. ASSUME keep PROVE outcome = "complete"
    BY <2>1, <2>3 DEF Steady
  <2>4. ASSUME keep
        PROVE  service = server /\ nft_loaded = nft_file /\ nft_file = render_nft(server.net)
    BY <2>1, <2>3, <2>4 DEF CompleteInForce, DiskInv, CompleteOnDisk
  <2>5. keep => with_nat(firewall)' = with_nat(firewall)
    BY <2>1 DEF with_nat
  <2>6. keep => render_nft(job.pair.net)' = render_nft(server.net)
    BY <2>1, <2>5 DEF render_nft, with_nat
  <2> HIDE DEF keep
  <2> QED BY <2>1, <2>2, <2>4, <2>6 DEF ServiceInForce
<1>2. CASE outcome = "running"
  <2>1. /\ job'.keep = job.keep /\ job'.pair = job.pair /\ firewall' = firewall /\ job.full
        /\ server' \in {server, job.pair} /\ nft_file' \in {nft_file, render_nft(job.pair.net)}
    <3>1. steady
      BY <1>2 DEF Next, Step, vars, Start, Skip, Decline, Apply, Verify, Fail, DiskOp, Op, WriteClient,
             Backup, WriteServer, SysctlW, AddRule, Reload, NftFile, DaemonReload, Enable, Restart,
             Around, TakeClient, ChangeFirewall,
             Reboot
    <3> QED BY <1>2, <3>1, RunGoesOn DEF Steady
  <2>2. render_nft(job.pair.net)' = render_nft(job.pair.net)
    BY <2>1 DEF render_nft, with_nat
  <2>3. CASE Restart
    <3>1. /\ service' = server /\ server' = server /\ nft_loaded' = nft_file /\ nft_file' = nft_file
          /\ nft_file # <<>> => "nft_active" \in live'
          /\ Op("restart") /\ steady
      BY <2>3 DEF Restart, StartUnits, Op
    <3>2. ASSUME plan' = <<>> PROVE nft_file # <<>>
      <4>1. plan # <<>> /\ todo' = <<>> /\ plan' = Tail(plan)
        BY <3>1, <3>2, HeadOps
      <4>2. Len(plan) = 1 /\ plan[1] = "services"
        BY <1>j, <3>2, <4>1, LastLeft DEF PlanOrder
      <4>3. ~Has(plan, "nft")
        BY <4>2 DEF Has
      <4>4. Achieved("nft")
        BY <1>2, <2>1, <4>3 DEF DiskInv, OnCourse, Wanted
      <4> QED BY <4>4, RenderedNft DEF Achieved
    <3>3. job.keep => nft_file' = render_nft(job.pair.net)
      BY <1>2, <3>1 DEF ServiceInForce
    <3> QED BY <2>1, <2>2, <3>1, <3>2, <3>3 DEF ServiceInForce
  <2>4. CASE ~Restart
    <3>1. steady /\ UNCHANGED <<service, nft_loaded>> /\ ("nft_active" \in live => "nft_active" \in live')
      BY <1>2, <2>4 DEF Next, Step, vars, host, Start, Skip, Decline, Apply, Verify, Fail, DiskOp, Op,
             WriteClient, Backup, WriteServer, SysctlW, AddRule, Reload, NftFile, DaemonReload, Enable,
             Around, TakeClient, ChangeFirewall, Reboot
    <3>2. ASSUME job.keep
          PROVE  /\ service' = server' /\ nft_loaded' = nft_file' /\ server' = server /\ nft_file' = nft_file
                 /\ nft_file' = render_nft(job.pair.net)
      <4>1. server = job.pair /\ service = server /\ nft_loaded = nft_file
            /\ nft_file = render_nft(job.pair.net)
        BY <1>2, <3>1, <3>2 DEF ServiceInForce, DiskInv, Standing
      <4> QED BY <2>1, <3>1, <4>1
    <3>3. ASSUME plan' = <<>>
          PROVE  service' = server' /\ nft_loaded' = nft_file' /\ "nft_active" \in live'
      <4>1. CASE plan = <<>>
        <5>1. UNCHANGED <<server, nft_file>>
          <6>1. todo = <<>>
            BY <4>1 DEF Control
          <6> QED BY <1>2, <2>4, <4>1, <6>1 DEF Next, Step, vars, host, Start, Skip, Decline, Apply, Verify,
                      Fail, DiskOp, Op, WriteClient, Backup, WriteServer, SysctlW, AddRule, Reload, NftFile,
                      DaemonReload, Enable, Around, TakeClient, ChangeFirewall, Reboot
        <5> QED BY <1>2, <3>1, <4>1, <5>1 DEF ServiceInForce
      <4>2. CASE plan # <<>>
        <5>1. plan' = Tail(plan) /\ Head(plan) = "services"
          <6>1. plan' = Tail(plan)
            <7>2. CASE Skip
              BY <7>2 DEF Skip
            <7>3. CASE Operate
              <8>1. PICK op : Op(op)
                BY <7>3, OperateOp
              <8> QED BY <3>3, <4>2, <8>1, HeadOps
            <7>4. ASSUME Apply \/ UNCHANGED vars PROVE FALSE
              BY <3>3, <4>2, <7>4 DEF Apply, vars
            <7>5. ASSUME \/ \E force, no_firewall \in BOOLEAN, net \in Nets : Start(force, no_firewall, net)
                         \/ Decline \/ Verify \/ Fail \/ Around \/ Reboot
                  PROVE  FALSE
              BY <1>2, <7>5 DEF Start, Decline, Verify, Fail, Around, TakeClient, ChangeFirewall, Reboot
            <7> QED BY <7>2, <7>3, <7>4, <7>5 DEF Next, Step, Operate, Around
          <6>2. Len(plan) = 1
            BY <1>j, <3>3, <4>2, <6>1, LastLeft
          <6> QED BY <1>j, <4>2, <6>1, <6>2 DEF PlanOrder
        <5>2. Skip
          <6>1. ASSUME Operate PROVE FALSE
            <7>1. PICK op : Op(op)
              BY <6>1, OperateOp
            <7>2. todo' = <<>>
              BY <3>3, <4>2, <7>1, HeadOps
            <7>3. op = "restart"
              BY <5>1, <7>1, <7>2, LastOp
            <7>4. todo # <<>> /\ Head(todo) = "restart"
              BY <7>1, <7>3, HeadOps
            <7> QED BY <2>4, <6>1, <7>4, LeavesTable
                DEF Operate, DiskOp, WriteClient, Backup, WriteServer, SysctlW, AddRule, Reload, NftFile,
                    DaemonReload, Enable, Op
          <6>2. ASSUME Apply \/ UNCHANGED vars PROVE FALSE
            BY <3>3, <4>2, <6>2 DEF Apply, vars
          <6>3. ASSUME \/ \E force, no_firewall \in BOOLEAN, net \in Nets : Start(force, no_firewall, net)
                       \/ Decline \/ Verify \/ Fail \/ Around \/ Reboot
                PROVE  FALSE
            BY <1>2, <6>3 DEF Start, Decline, Verify, Fail, Around, TakeClient, ChangeFirewall, Reboot
          <6> QED BY <6>1, <6>2, <6>3 DEF Next, Step, Operate, Around
        <5>3. job.keep /\ "nft_active" \in live
          BY <5>1, <5>2 DEF Skip, Done, Rules, services_done
        <5> QED BY <3>1, <3>2, <5>3
      <4> QED BY <4>1, <4>2
    <3> QED BY <2>1, <2>2, <3>2, <3>3 DEF ServiceInForce
  <2> QED BY <2>3, <2>4
<1>3. CASE /\ outcome # "running"
           /\ ~\E force, no_firewall \in BOOLEAN, net \in Nets : Start(force, no_firewall, net)
  BY <1>3 DEF Next, Step, vars, Skip, Decline, Apply, Verify, Fail, DiskOp, Op, WriteClient,
         Backup, WriteServer, SysctlW, AddRule, Reload, NftFile, DaemonReload, Enable, Restart,
         Around, TakeClient, ChangeFirewall,
         Reboot
<1> QED BY <1>1, <1>2, <1>3

LEMMA StepInForce ==
    /\ TypeOK /\ DiskInv /\ RulesInForce /\ Steady /\ ServiceInForce /\ CompleteInForce /\ [Next]_vars
    => CompleteInForce'
<1> SUFFICES ASSUME TypeOK, DiskInv, RulesInForce, Steady, ServiceInForce, CompleteInForce, [Next]_vars,
                    outcome' = "complete", steady'
             PROVE  CompleteInForce'
  BY DEF CompleteInForce
<1>d. CompleteOnDisk'
  BY StepComplete
<1>1. CASE Verify
  <2>1. /\ outcome = "running" /\ steady /\ plan = <<>> /\ job.full
        /\ UNCHANGED <<active, firewall, server, service, nft_loaded, nft_file, live, fw_run, fw_perm>>
    BY <1>1 DEF Verify, host
  <2>2. ~Has(plan, "reload") /\ ~Has(plan, "sysctl")
    BY <2>1 DEF Has
  <2>3. "forwarding" \in live
    <3>1. Achieved("sysctl")
      BY <2>1, <2>2 DEF DiskInv, OnCourse, Wanted
    <3> QED BY <3>1 DEF Achieved
  <2>4. ASSUME firewall' = active' PROVE NeededRules' \subseteq fw_run'
    <3>1. active \in {"ufw", "firewalld"} => fw_run = Stored
      BY <2>1, <2>2 DEF RulesInForce
    <3>2. firewall' \notin {"ufw", "firewalld"} => NeededRules' = {}
      BY DEF NeededRules
    <3>3. NeededRules' \subseteq fw_perm' /\ \A r \in NeededRules' : r[1] = firewall'
      BY <1>d DEF CompleteOnDisk, NeededRules
    <3> QED BY <2>1, <2>4, <3>1, <3>2, <3>3 DEF Stored
  <2> QED BY <2>1, <2>3, <2>4 DEF ServiceInForce, CompleteInForce
<1>2. CASE Reboot
  <2>1. /\ outcome = "complete" /\ fw_run' = Stored
        /\ UNCHANGED <<active, firewall, disk, server, fw_perm, nft_file>>
    BY <1>2 DEF Reboot
  <2>2. {"sysctl", "enabled"} \subseteq disk /\ nft_file = render_nft(server.net)
    BY <2>1 DEF DiskInv, CompleteOnDisk, Parts
  <2>3. service' = server /\ nft_loaded' = nft_file /\ {"forwarding", "nft_active"} \subseteq live'
    BY <1>2, <2>2, RenderedNft DEF Reboot, StartUnits
  <2>4. ASSUME firewall' = active' PROVE NeededRules' \subseteq fw_run'
    <3>1. NeededRules' \subseteq fw_perm' /\ \A r \in NeededRules' : r[1] = firewall'
      BY <1>d DEF CompleteOnDisk, NeededRules
    <3> QED BY <2>1, <2>4, <3>1 DEF Stored
  <2> QED BY <2>1, <2>3, <2>4 DEF CompleteInForce
<1>4. ASSUME NEW fw \in Firewalls, ChangeFirewall(fw) PROVE CompleteInForce'
  <2>1. /\ outcome = "complete" /\ steady /\ active' = fw /\ fw_run' = {rule \in fw_perm : rule[1] = fw}
        /\ UNCHANGED <<firewall, server, service, nft_loaded, nft_file, live, fw_perm>>
    BY <1>4 DEF ChangeFirewall
  <2>2. ASSUME firewall' = active' PROVE NeededRules' \subseteq fw_run'
    <3>1. NeededRules' \subseteq fw_perm' /\ \A r \in NeededRules' : r[1] = firewall'
      BY <1>d DEF CompleteOnDisk, NeededRules
    <3> QED BY <2>1, <2>2, <3>1
  <2> QED BY <2>1, <2>2 DEF CompleteInForce
<1>3. CASE ~Verify /\ ~Reboot /\ ~\E fw \in Firewalls : ChangeFirewall(fw)
  <2>1. /\ outcome = "complete" /\ steady
        /\ UNCHANGED <<active, firewall, server, service, nft_loaded, nft_file, live, fw_run>>
    BY <1>3 DEF Next, Step, vars, host, Start, Skip, Decline, Apply, Fail, DiskOp, Op, WriteClient,
           Backup, WriteServer, SysctlW, AddRule, Reload, NftFile, DaemonReload, Enable, Restart, TakeClient
  <2>2. NeededRules' = NeededRules
    BY <2>1 DEF NeededRules
  <2> QED BY <2>1, <2>2 DEF CompleteInForce
<1> QED BY <1>1, <1>2, <1>3, <1>4

\* The inductive invariant of what is in force.
THEOREM ForceInvariance == Spec => []ForceInv
<1>1. Init => ForceInv
  <2> SUFFICES ASSUME Init PROVE ForceInv
    OBVIOUS
  <2>1. PlanOrder
    BY DEF Init, PlanOrder, Reloaded
  <2> QED BY <2>1 DEF Init, ForceInv, RulesInForce, Stored, Steady, ServiceInForce, CompleteInForce
<1>2. TypeOK /\ Control /\ Midway /\ DiskInv /\ ForceInv /\ [Next]_vars => ForceInv'
  BY StepOrder, StepRules, StepSteady, StepService, StepInForce DEF ForceInv
<1> QED BY <1>1, <1>2, TypeCorrect, ControlInvariance, MidwayInvariance, DiskInvariance, PTL DEF Spec

(***************************************************************************)
(* A complete run leaves the host running what is on disk, and every later *)
(* boot brings the same back, the rules as long as the firewall it was set *)
(* up for is active, and as long as no run since the boot, nor the last    *)
(* one before it, broke off or was declined a step, and none since the     *)
(* boot kept the config and changed only its NAT (step_services, fw_step   *)
(* and its reload, step_nft_file, the enabled units).                      *)
(***************************************************************************)
THEOREM CompleteComesIntoForce == Spec => []CompleteInForce
<1>1. ForceInv => CompleteInForce
  BY DEF ForceInv
<1> QED BY <1>1, ForceInvariance, PTL
=============================================================================
