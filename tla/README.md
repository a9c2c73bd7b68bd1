# chameleon-pq in TLA+

Chameleon is a point-to-point VPN: IP packets from a TUN device are sealed with
an AEAD under a session key and sent as UDP datagrams, optionally paced and
padded to hide their timing. A hybrid (X25519 and ML-KEM) handshake makes the
session, rekeys replace it while traffic flows. This directory models the parts
of the program that are hard to test because several tasks, two machines and an
unreliable network meet in them. All paths below are relative to the repository;
`src/x.rs` is the crate's own source.

## 1. The system

| Component | State it keeps | Operations | What makes it correct |
|---|---|---|---|
| Replay window, `Session::decrypt` (`session.rs`) | highest counter, 2048-bit bitmap, seeded flag, behind a mutex | check, open (outside the lock), re-check and commit | no plaintext twice; no genuine datagram refused without a reason; forgeries leave no trace |
| Transmit side, `reserve_counters`, `SessionManager::reserve`, `CryptoEngine` (`session.rs`, `engine.rs`) | atomic counter per session, the current session | pin a session, reserve a range, seal it, install a new session | no nonce twice under one key; nothing sealed at or past `rekey_at` |
| Session pair (`session.rs`) | `current`, `previous`, `rekey_in_progress` | `needs_rekey`, `install_new_session`, `retire_previous`, `abort_rekey` | the old session stays readable while the peer needs it; the claim is freed |
| Mid-session rekey (`rekey.rs`, demux in `tunnel_loops.rs`) | the driver future, `hs_rx`, `pending_rekey`, grace timers | start, resend, finalize and confirm, answer, accept a Confirm | only a mutually verified session is installed; both ends get to the same one; the attempt ends |
| Handshake sink (`net.rs`) | `hs_send`, a bounded channel that paced slots empty, `paced_state` | send directly or through slots, live switch | a send ends |
| Outbound loop (`tunnel_loops.rs`) | staged packets, order channel, send channel, two sender tasks, `paced` | drain the TUN, dispatch seals to rayon, paced slots, live switch, direct frames | counters reach the wire in order or at least inside the peer's window; nothing lost or sent twice |
| Inbound loop (`tunnel_loops.rs`) | peer address, reassembler, decrypt jobs | receive, demux, decrypt jobs, Profile and Close frames | as for the window and the rekey |
| Keepalive, dead-peer test, profile following (`tunnel_loops.rs`) | `last_recv`, `applied_peer_profile`, rate limit | tick, announce, follow | healthy idle ends stay up; a dead one is noticed; the server catches up with the client's profile |
| Reassembler (`tunnel.rs`) | partial messages by msg_id | push a part, prune | a message is put together from its own parts |
| Initial handshake, cookie, server loop (`net.rs`, `main.rs`) | attempt, Init with cookie; phase, half-open handshake, cookie secret | attempts, challenge, respond, confirm, timeouts, re-listen | authentication is mutual; what the client believes is so at the server; the client gets in; the server never stays half open |
| Client lifecycle and GUI (`client.rs`, `gui/src/main.rs`) | the form's fields, `client`, `ks`, `ks_orphan`; the connect task | connect, drop, disconnect, close, restart | what a session changed in the system is put back however it ends |
| Kill switch (`killswitch.rs`) | the firewall's default and our rules, outside the process | engage, disengage, clear, `is_engaged`, `killswitch off` | stays up until the user takes it down; the user is always offered to |
| Routes (`route.rs`) and DNS override (`dns.rs`) | the pin and the two halves; saved resolvers, on Windows a refresher thread | install with rollback, remove; install, cover an adapter, restore | nothing of ours is left, everything of the user's is back |
| Server setup (`sysconf.rs`, `setup.rs`) | files, firewall, units and keys of the host | a plan of steps, each skipped, declined or applied | no key lost; a run that ends well leaves a server that works, whatever came before |
| Android service and JNI bridge (`android/`) | supervisor and stop coroutines, `pfd`, `tunnelJob`; statics `CLIENT`, `TRAFFIC`, `PROFILE_OVERRIDE` | start, stop, revoke, destroy, set profile, reconnect | the descriptor outlives the tunnel, a stop stops and ends, no leak while reconnecting |
| Pacer (`pacer.rs`), UDP batching, AEAD and layout | see section 6 | | not modelled |

The parts interact as follows. The initial handshake yields the first session.
Then three tasks run: the outbound loop (TUN to UDP), the inbound loop (the only
reader of the socket) and the keepalive task. The outbound loop starts a rekey
when the transmit counter nears its limit and polls the driver; the inbound loop
hands handshake messages to that driver through a bounded channel or answers
them itself. All of them share the `SessionManager`. A watch channel carries
live traffic-profile switches to the outbound loop, from the user at the client
and from the client's announcements at the server.

Around a tunnel stand its owners. At the desktop the window runs the connect
task, owns the `Client` (and with it the routes and the DNS override) and the
handle of the kill switch, which outlives every owner. On Android the service
owns the TUN descriptor and calls the native side through JNI, where the tunnel
sits in statics. The server's host is prepared by `setup`, which may be run, and
broken off, any number of times.

The hard behaviours are concurrent decryption jobs between two critical
sections, rayon jobs that finish in any order, bounded channels between tasks
that wait in line, retry timers that race answers, a last handshake message
that nobody acknowledges, a flag read in one task and changed in another,
fragments that outlive the message they belong to, sequences of system changes
that fail or are killed half way, a blocking native call that a coroutine cannot
be cancelled out of, and decisions taken on what an earlier run left behind. `PROJECT.json` lists them
under "hazards", each at its line.

## 2. Modules

| Module | Models | State and actions |
|---|---|---|
| `Window` | `ReplayWindow` on a set of positions | operators `check`, `commit`, `shift_window` |
| `AntiReplay` | the promise: a sealed counter is delivered at most once, and only if it was sealed | abstract specification |
| `ReplayWindow` | `Session::decrypt` run by any number of jobs | `PreCheck` and `Commit` are the two critical sections, `Open` the AEAD between them; `PeerSeals` is the sender |
| `WindowWords` | the bitmap as an array of words, shifted in place with carries | `check_words`, `commit_words` and `shift_words` as in the code; compared with `check`, `commit` and `shift_window` of `Window`, which it extends |
| `SessionTx` | reserve and seal by several threads | `Pin` clones the current session, `Reserve` is the fetch_add and the limit test, `Seal` one packet of a batch, `Install` a rekey |
| `KeySwap` | the promise of a rekey: one end leads, the other follows | abstract specification |
| `Rekey`, `MCRekey` | driver, demux, responder phases, the fragments of the messages and the reassemblers of both ends, session pair, grace timers, network | one action per await that a handler can stop at |
| `PacedSink` | the datagrams of a rekey through `hs_send` | driver, inbound loop, slots and switch |
| `OutboundLoop` | drain loop, rayon, order channel, both sender tasks, paced slots, switch, direct frames | a step is what a task does between two awaits |
| `PeerLiveness` | two keepalive tasks in discrete time, cover traffic, announcements, following | `KaTick`, `ClientSwitch`, `AnnounceAgain`, `Stop`, `Elapse` |
| `Reassembler` | `push_parts` and `prune_old` | operators on the table of partial messages |
| `InitialHandshake`, `MCHandshake` | `run_handshake_initiator` of clients, one after the other; `run_handshake_responder` inside `run_server`; cookie; fragments | `Start`, `AttemptTimeout`, `ClientReceive`; `ListenReceive`, `ConfirmReceive`, `ConfirmTimeout`, `Relisten` |
| `DnsGuard` | `/etc/resolv.conf` or the adapters' resolvers, the guard, its refresher thread | `InstallDns`, `InstallDnsFails`, `DropDns`; `RefreshTick`, `RefreshCover`, `RefreshSave` are one pass of the thread, `Cover` what it does to an adapter |
| `ClientLifecycle`, `MCClient` | the GUI's messages and its connect task, `Client::connect` and `disconnect`, `KillSwitch`, `FullTunnelRoutes`; it extends `DnsGuard` | one step per call that changes the system: `CreateTun`, `Engage`, `Handshake`, `RoutePin`, `RouteHalf`, `Dns`, `Connected`; `Tick`, `Disconnect`, `DisableKillSwitch`, `KillSwitchOff`; `Close`, `Crash`, `Launch` |
| `ServerSetup` | a run of `chameleon-pq setup` on a Linux host, and the host | `Start` finds the firewall and plans, then per step `Skip`, `Decline` or `Apply` and one action per file or command; `Fail`, `Reboot`, `ChangeFirewall` |
| `AndroidService`, `MCAndroid` | `ChameleonVpnService` and the bridge's statics; tokio tasks on the descriptor | `Supervise` (one action between two suspension points or native calls), `StopJoin`, `StopNative`, `StopMain`, `Teardown`, `SelectProfile`, `RunSetProfile`, `TasksEnd` |

What is abstracted everywhere: bytes, keys and signatures. A datagram is its
counter and whether its tag verifies. A session is named by the Response that
fixed its keys, because `respond` draws fresh ephemeral keys each time. A
signature is the session that it covers, so a check of it is a comparison. Log
lines, statistics and padding are left out.

`Rekey` and `InitialHandshake` have a variable `setting` that is chosen in Init
and never changes. It says what may happen in a behaviour: whether the handshake
is obfuscated, who rekeys, which messages may lose fragments, whether a message may be under way for longer than a timer
("slow"), how many attempts there are. Properties that need a calm network are
stated under `Calm`, which is a condition on the setting; the others hold in
every setting. With slow FALSE a timer only fires when nothing it waits for is
under way, that is, the round trip is shorter than 800 ms.

## 3. Runs that pass

**replay** (`ReplayWindow`). Two jobs on replayed, reordered and forged datagrams.
`AtMostOnce`: no plaintext is returned twice. `RejectionJustified`: a genuine
datagram is refused only if a copy was delivered or the window has passed it.
`OnlySealedMovesWindow`: only a delivered genuine datagram changes the window.
`ImplementsAntiReplay`: the three-step decrypt refines the one-step promise.
Bounds: window of 3, counters to 5, so that it is passed not at all, partly and
entirely while both jobs hold a copy of the same datagram. The proofs (section 5)
remove the bounds.

**words** (`WindowWords`). Three words of three bits and counters to 20: shifts
inside a word, over one and two words, by whole words and past the window.
`CheckMatches` and `CommitMatches` tie the word array to `Window`, that is, to
what is proved about it: `Positions` reads the set of positions off the array's
contents, bit b of word i being position `WORD_BITS * i + b`, and knows nothing of
`bit_is_set`, which goes from a position to its word and bit. Both are proved as
well, for the 32 words of 64 bits of the code and every other size.

**tx** (`SessionTx`). Three threads, two sessions, a limit of 4 with batches of up
to 2, which meet the limit exactly, straddle it and come after it. `NonceUnique`,
`LimitRespected`.

**rekey** (`MCRekey`). A message travels as two fragments (8 in the code, up to 16
with obfuscation), which are lost, late and out of order one by one. Three settings.
*Prompt*: obfuscated, one end rekeys twice with four attempts each, fragments of
Inits and Responses may be lost. *Rough*: in clear, one end rekeys with three
attempts, everything may be lost or late. *Crossed*: in clear, both ends rekey
with one attempt each, everything may be lost or late. In all of them
`OnlyFinalizedInstalled` (no end installs a session whose initiator has not
verified the Response), `ClaimHasDriver` (the claim never outlives its driver, so
no rekey blocks all later ones) and `RekeyEnds` hold. In settings that are `Calm`,
of which *Prompt* is one, the rekey implements `KeySwap`, its liveness included:
`Calm` asks for one initiator, obfuscation, a round trip shorter than the timers
and no lost fragment of a Confirm. Section 4 says why it asks for obfuscation.
`HS_CHANNEL` is one fragment (16 in the code), so the inbound loop has to wait for
room often. A grace timer fires at any time, also one of an earlier rekey.

**out_switch** (`OutboundLoop`). Starts paced or not, two live switches, direct
frames, failing seals. `WireOrdered`: as long as there was no switch the socket
gets counters in order, whatever rayon does; once there are direct frames this is
said of the packets only, which the frames may overtake.
`SealedInReadOrder` and `OnePlace`: switches neither reorder, lose nor double a
packet. `Delivered`: what has a counter leaves the pipeline.
Channels of one batch are full often, which is the case of interest.

**live_idle** (`PeerLiveness`). Neither end starts under a constant rate; two live
switches, one lossy send in a row, either end may vanish. `StaysUp`, `SelfHeals`
(the server is at most a keepalive interval and the rate limit's time behind the
client's profile) and `DeadPeerNoticed`. The intervals 5, 15 and 2 stand for 15,
45 and 1 s: the dead-peer limit is three intervals as in the code, and the rate
limit is more than one unit so that two switches can fall into it.

**handshake** (`MCHandshake`). Two clients, one after the other; any of them may
vanish at any step and leave a half-open handshake or fragments behind. Settings:
*Prompt* with the real 8 attempts, one lost fragment and one change of the cookie
window; *Rough* with any lost fragment, late messages and a failing server
socket; *Late* without loss but with answers later than the timers; *Clear*
without obfuscation. `MutuallyVerified`: the server only runs a session whose
initiator verified its Response. `CalmEstablished`: when the client has returned
Ok and its fragments have arrived, the server has accepted that very session.
`GetsIn`: no client runs out of attempts while no earlier one got in.
`ListensAgain`: the confirm phase ends. A message is three parts: one with type
and keys, one with signature and cookie, one of padding; that is enough to be
completed early, to leave a rest and to be mixed. `GetsIn` is tight: it fails
with 7 attempts, and with 8 and a second lost fragment. A vanished client costs
the next one up to four attempts (three timers of 800 ms end in the 2 s of the
confirm phase, and the Init sent after the third may still be cut by its end), the
cookie one, and a lost Response two, since the resent Init is taken for the
Confirm.

**setup** (`ServerSetup`). Three runs, with and without `--force`, for two networks,
on packaged hosts and others. Each run sets up for the firewall that it finds
(firewalld, ufw, or bare nftables) or, with `--no-firewall`, for none, and between
two runs the administrator may change which one is active. Up to two steps are
declined or runs broken off (a failing command, a kill, a reboot) between any two
operations; the administrator takes the client file away or does not.
`NoStrandedKeys`: the client half of the server config in place is there to be taken
or was taken; `forgone` excepts the pair whose client file a forced run overwrote
before (section 4). `OldConfigKept`: a config that is replaced is in a backup.
`CompleteOnDisk`: a run in which every step was found in place or applied leaves a
complete installation for the config on disk, whatever earlier runs left.
`CompleteInForce`: and that is what runs, in a history that is `steady`, that is, no
run since the boot, nor the last one before it, broke off or was declined a step, and
none since the boot kept a config and only changed whose NAT it is. The rules are
claimed for as long as the firewall that the run set up for is the active one.
Section 4 says what happens otherwise. Three runs are a first one, one that changes
the network or the firewall, and one that repairs.

**client** (`MCClient`). Linux and Windows; two servers, so that a switch may stand
for another server than the one connected to, or a pin be left of another one; one
adapter that comes and goes under two overrides. The switch and the routes are
tried twice (5 and 8 times in the code): one try meets what the other left, and the
proofs are for any number. What may fail is the handshake, an engagement of the
switch and, on Windows, half of it; a teardown, whole or half; the look for a
switch at launch; the pin, each half and each deletion of a route; the
installation of the override, where the file may be left cut or missing; each
restoration; the pass of the refresher thread. The process may be closed or die
anywhere. Left out are an adapter that cannot be set when it is saved or covered,
which stays its owner's, and one whose resolvers cannot be read, which is saved as
an empty list and reset to DHCP in the end (`dns.rs:178-179`). `FailClosed`: once engaged the switch blocks until the
user disconnects, disables it or runs `killswitch off`. `WayBackOffered`: a process
that engaged the switch, or found one when it started (`seen`), shows the banner
whenever there is no tunnel, until the user has taken the switch down.
`RoutesGone`, `DnsRestored`: without a client and an attempt no route of ours is left
and every resolver is the original one. The exceptions are history variables:
`lost_routes` and `lost_dns` hold the routes and places whose own deletion,
writing or restoration failed, that a crash left, or that a thread was at work on
when its guard was dropped; section 4 lists them. The constraint `FewLost` stops at
two lost routes, since a lost route is only in the way of the same route. The
action constraint `EditsWait` defers edits of the form to when they matter: only
`Connect` reads it.

**android** (`MCAndroid`). Two starts, one stop by the user beside those that a
supervisor asks for when its first attempt fails, revocation and destruction, two
profiles, of which one is saved from before (they are alike), one reconnection.
Each tap on a profile launches a call of `nativeSetProfile`, and these run in any
order; one call per profile is under way at most. `FdOutlivesTunnel`: the
descriptor is not closed under a tunnel that runs or connects.
`StoppedMeansStopped`: when all coroutines are over there is no client, no tunnel
that connects or runs and no open TUN, and the window says so; tasks that were
aborted or parked may still be about to end. `TunHeld`: the TUN stays up while the
supervisor reconnects, so nothing leaks. `ProfileWins`: the chosen profile is the
one in force. `missed` excepts a choice that is applied while `nativeStart` is at
work and one that is made while an earlier call is under way, which may then come
last; the next connection or choice ends the exception (section 4).
`StopFinishes`: the join in `stopTunnel` does not deadlock. All are claimed while
`orderly` holds, that is, until a request meets a coroutine inside a native call
that it does not join; the constraint stops the exploration there.

Every property of a passing run has a mutant of the model that violates it; the
mutants stand in the modules under "Plausible slip".

### Fairness

Weak fairness of a task's step means that tokio polls a task that can go on;
rayon finishes seals; timers fire. `PacedSink` has strong fairness for the tasks
that wait for a place in a channel, because the waiters of a tokio mpsc channel
are served in turn: its counterexample does not come from a task that is passed
over. The network delivers or loses, users need not switch, rekeys
and clients need not start: none of that is forced. In `AndroidService` the
dispatchers run what is ready, a native call returns and aborted tasks are
dropped: the handshake has time limits, `disconnect_and_wait` has none and awaits
a task that it has aborted (`client.rs:395-405`); the last
part of a stop needs the main thread, which takes what is posted to it in order,
hence strong fairness there. `RekeyEnds`, `StopFinishes`, `Delivered`,
`ListensAgain` and the liveness part of `ImplementsKeySwap` rest on this. `PeerLiveness` measures time instead and needs
no fairness. Deadlock checking is off where the bounds end a behaviour.

## 4. Where code and comments differ

Two runs are expected to fail; they are the findings in `PROJECT.json`.

**rekey_slow**: `AgreeWhenQuiet`. A Response later than 800 ms makes the initiator
resend its Init. The responder, which holds a pending handshake, takes that Init
for the Confirm, drops the handshake and then loses the real Confirm. The
initiator moves to the new session alone.

**sink_switch**: `RekeyReturns`. A rekey that starts under pacing sends through
`hs_send` for as long as it lasts, and only paced slots empty that channel. After a
live switch to unpaced the resent Init fills its 16 places, the next send waits
outside every time limit, and the driver, the claim and the rekeying flag stay
taken until pacing is switched on again, although `rekey.rs:28-29` bounds the total
time. The run has the code's numbers (8 datagrams for a message, 16 places, four
attempts) and one switch. A Response of the inbound loop meets the same in its
place and stops the only reader of the socket; the comment at
`tunnel_loops.rs:436-440` calls a stale view of `paced` harmless. While pacing stays
as it is, or comes on, the driver returns: with Targets = {TRUE} the property holds.

Further observations. Each can be reproduced with the constants given.

*Data path.*

* `OutboundLoop`, `InWindow` fails with MAX_BATCH = 1, MAX_QUEUE = 4,
  SEND_PIPELINE_BATCHES = 4, WINDOW_BITS = 2, pace_burst = 1, Starts = {FALSE},
  Targets = {TRUE}, MaxPackets = 5, MaxSlots = 1, MaxSwitches = 1, MaxDirect = 0. The
  switch to paced waits until the send channel is empty (`tunnel_loops.rs:743`, and
  the comment before it says why), but the steady path uses the order channel,
  which holds up to 16 batches of 256 counters against a window of 2048. With
  Targets = {FALSE} or MaxDirect > 0 the residue of a switch to unpaced and the
  direct frames overtake reserved batches as well.
* `PeerLiveness`, `StaysUp` fails with ClientStart = "off", ServerStart = "stealth",
  no switches and no loss: whether keepalives are sent is decided when the tunnel
  starts (`tunnel_loops.rs:1095`), whether cover traffic replaces them changes live
  when the server follows the client.
* `Rekey`, loss of Confirm: the responder never follows, `AgreeWhenQuiet` fails.
  With both ends as initiators it fails as well, through crossed rekeys. Both
  follow from the protocol's last message being sent once.
* `Rekey`, setting *Prompt* with obf = FALSE (and `Calm` without its conjunct):
  `ImplementsKeySwap` fails after one lost fragment of an Init. In clear the Confirm
  has the msg_id of the Init (`net.rs:94-106`, `rekey.rs:54`), so the rest of the Init
  that was sent again waits in `rekey_confirm_reasm` (`tunnel_loops.rs:1049`), is
  joined with the Confirm and spoils it.
* `Rekey`, grace timers: the three seconds of `schedule_retire` (`rekey.rs:131-136`)
  are not tied to the session they were started for. Attempts of one end are five
  seconds apart (`session.rs:453`), but an attempt with retries may install after
  three of them, and the peer's own rekey knows nothing of that distance. The timer of
  the earlier rekey then takes away the session that the later one has just made
  `previous`, and what the lagging peer still sends under it does not open. That an
  overlap lasts three seconds is thus claimed nowhere here.
* `InitialHandshake`, setting `Clear`: `EstablishedAtBoth` fails after one lost
  fragment. All messages of one sender share a msg_id in clear, so the parts of a
  resent Init that follow its completion stay in the confirm phase's reassembler
  and are joined with the Confirm, which is then rejected.

*Setup.* `sysconf.rs:9-12` says that running setup again after a partial failure is
safe. On disk it is (`CompleteOnDisk`); what runs may lag behind until the next
boot. Without `steady`, `CompleteInForce` fails in these ways, of which the last needs
no failure before it:

* firewalld's permanent rules were added and the run ended before the reload: the
  next run finds the rules, has changed nothing itself and skips the reload;
* a new config was written and the run ended before the restart: the next run
  keeps it, finds the services running and leaves them on the old keys;
* a run that keeps the config, but finds another firewall or has another
  `--no-firewall` than the run before, rewrites the nftables file and then skips the
  services, so the table in the kernel is not the one in the file until the next
  boot.

A forced run that ends after it wrote the new client half and before it replaced
the server half (`sysconf.rs:327-334`) has overwritten the client half of the config
that stays in place. When that was not taken before, the server's keys are
stranded, which the comment at `sysconf.rs:278-282` means to exclude (`forgone`).

A run that ends between the client half and the server half of a first pair makes
the next plain run refuse to start until `--force` or the removal of the client
file. The port rule of an earlier network is never removed.

*Client.*

* A process that dies under an override leaves the tunnel's resolvers behind, and
  the next session saves those as the original ones (`lost_dns`); the endpoint pin
  of a dead process stays (`lost_routes`). `Crash` without the history variables
  shows both.
* A deletion that fails is ignored (`route.rs:59-61`, `77-80`): the route stays after a
  disconnect, against `route.rs:23-24`, and no later session takes it away
  (`lost_routes`).
* A restoration that fails is ignored (`dns.rs:97-100`, `139-151`, `276`): the tunnel's
  resolvers, or a file cut to nothing, stay, and the next session saves them as the
  user's own (`lost_dns`).
* The refresher thread is not joined: a pass under way when the guard is dropped
  may override an adapter after the restore (`lost_dns`), although the comment at
  `dns.rs:368-370` says that it cannot race one.
* A `resolv.conf` that was a link is removed first; if the write then fails there
  is none. A regular one whose write fails may be left cut (`lost_dns`).
* A failed teardown of the switch is not seen by the window, which offers nothing
  from then on, nor by `killswitch off`, which reports success.
* The look for a switch at launch answers no when the query itself fails
  (`killswitch.rs:102-107`, `216-223`, `349-356`: no privileges, no tool). A blocked user
  is then offered nothing, although `killswitch.rs:38-40` says that the next launch
  detects the switch.
* On Windows an engagement that fails after it dropped the old rules leaves the
  default at block. The next process looks for the rules and finds no switch,
  against the same comment.
* The roll-back of the routes deletes 0.0.0.0/1 even when it was there before.
* The DNS override is installed even if the routes failed.
* A failed handshake leaves the task that reads the TUN parked until a packet
  comes; the next attempt may find the name taken (`CreateTun`'s second branch).
* A profile chosen while connecting is shown and not applied: `ShownProfileRuns`
  fails with Profiles = {"off", "paced"} and without `EditsWait`.

*Android.* What follows a request that meets a coroutine in a native call
(`orderly` becomes false) is modelled, and explored when the constraint is taken
out of the cfg; without `orderly` in the properties TLC then shows: the
descriptor closed under live tasks by a forced teardown or by a second start
during a blocking `nativeStart`; `CLIENT` overwritten and the first tunnel leaked;
a monitor that writes "connected" after the teardown. In orderly behaviours
`FdOutlivesReaders` fails: a failed handshake leaves a reader parked on the
descriptor that `stopTunnel` closes, and `disconnect_and_wait` does not await the TUN
tasks that `TunGuard` aborts. A profile chosen during the handshake is lost
until the next connection, and of two taps in quick succession the older may win,
since each launches a coroutine of its own on the IO dispatcher
(`ChameleonVpnService.kt:92-103`): both are `missed`. `pending` counts the calls under
way per profile for that reason.

## 5. Proofs

The modules below are checked by TLAPS and hold for every value of the constants
that the named assumptions of the models allow. Each proof has the same shape: an
inductive invariant, a lemma per action that says what of it the action can
disturb, and a last step that puts the cases together.

| Module | About | Theorems that state a checked property |
|---|---|---|
| `SessionProofs` | `ReplayWindow`, `SessionTx`, `WindowWords` | `NoReplay`, `NoFalseReject`, `ForgeryLeavesNoTrace`, `Refinement`, `TypeCorrect`; `NoNonceReuse`, `NoSealPastLimit`; `WordsCheck`, `WordsCommit` |
| `SendPathProofs` | `OutboundLoop` | `PacketsKeepOrder`, `WireKeepsOrder`, `OneHolder` |
| `RekeyProofs` | `Rekey` | `ClaimNeverLeaks`, `InstalledAreVerified`; `RefinesKeySwap` (the safety part) |
| `HandshakeProofs` | `InitialHandshake`, `Reassembler` | `AcceptedAreVerified`, `EstablishedWhenCalm`, `EveryClientGetsIn` |
| `LivenessProofs` | `PeerLiveness` | `SilenceIsNoticed`, `IdleTunnelStaysUp`, `ProfileSelfHeals` |
| `ClientProofs` | `ClientLifecycle`, `DnsGuard` | `SwitchFailsClosed`, `WayBackAlwaysOffered`, `RoutesAlwaysGone`, `DnsAlwaysRestored` |
| `SetupProofs` | `ServerSetup` | `KeysNeverStranded`, `OldConfigAlwaysKept`, `RepairCompletes`, `CompleteComesIntoForce` |
| `AndroidProofs` | `AndroidService` | `TunOutlivesTunnel`, `NoTunnelLeftBehind`, `TunIsHeld`, `ChosenProfileWins` |

*Replay window.* Assumed: `WINDOW_BITS` is a positive natural, `MaxCounter` a
natural; `Jobs` is any set. The inductive invariant `IInv` joins `TypeOK`,
`WindowExact`, `AtMostOnce` and `RejectionJustified` with `Unseeded` (an unseeded
window is empty and nothing was delivered), `GenuineSealed` (a job's genuine
datagram was sealed) and `OpenedGenuine` (a job behind the AEAD holds a genuine
one). `AtMostOnce` alone is not inductive: that a second commit of a counter is
refused follows from `WindowExact`, and that this survives a shift is what the
lemmas `CommitType` and `CommitBits` say about `commit`. From `IInv` follow
`TypeCorrect`, `NoReplay`, `NoFalseReject`, `ForgeryLeavesNoTrace` and
`Refinement`: a commit that passes maps to the delivery of `AntiReplay`, every
other step of a job to a stutter.

*Words.* Assumed: positive `WORD_BITS` and `WINDOW_WORDS` with
`WINDOW_BITS = WORD_BITS * WINDOW_WORDS`, which is how `session.rs:21-22` chooses
them. The invariant is the type of the array; the work is in the operators.
`Divides` and `DividesOnce` say that a position is one bit of one word, `NewWordBits`
that the word the loop writes holds exactly the bits `shift` positions below, the
carry included, and `LoopRewrites` that the loop, which overwrites the array it
reads, still writes those words, because a pass reads at its own index and below.
The last is an induction over the passes. `NatSetInduction` states it for a set
instead of an operator, from `WFMin`; and the recursive function `after` is shown to
exist by the closed form `Partial`, which satisfies its equation (`PassRewrites`).

*Outbound loop.* Assumed: positive batch size, queue bound, channel capacity and
burst; any start and any targets of the switches. `Staged` says that what is in
`pending` was read after everything that is sealed, is in order, and is gone when the
loop is not paced or is switching; `SealedInReadOrder` is not inductive without it,
because a switch that left a residue behind would break it later. For the rest,
`Has(k, n, i, c)` says that counter c is the i-th datagram of the n-th batch in place
k, and each action is shown to be one of a few movements: nothing moves (`Stay`),
a place gets the counters of a seal (`Fresh`), a batch enters or leaves a channel
(`Pushes`, `Pops`), the sender takes over or gathers (`TakesOver`, `Adds`), the socket
gets a datagram or a frame (`Sends`, `SendsFrame`). `PInv` is `Known` (what is anywhere
was reserved), `Single` (and is in one place), `Lined` (before the first switch the
places form a line, wire, hand, awaited batch, order channel, new batch or slot, in
which counters ascend, direct frames left aside; the two pipelines are never in use
at once, and the residue's channel is empty), `Gathers` (a sender that gathers has no
receiver in hand, so a batch it adds overtakes none) and `Switched`. `OnePlace` needs
`Known` because only a reserved counter is known to differ from the next one, and
`WireOrdered` is the front of the line.

*Transmit counters.* Assumed: positive batch size and number of sessions,
natural limit and bound; any set of threads. `TxInv` joins `TxTypeOK`, `RangesOwned`,
`NonceUnique`, `LimitRespected`, `WithinLimit` (what a thread still has to seal is
below the limit) and `Unreserved` (what was not taken from a counter was never
sealed). `NonceUnique` needs the ranges of all threads to be disjoint, unsealed
and below the counter of the session they were taken from, not of the current
one: that is why `reserve` returns the session it pinned.

*Rekey.* Assumed: two peers, positive numbers of fragments and of places in the
channel, and settings whose fields have their types. `ClaimNeverLeaks` is inductive
with the types. `InstalledAreVerified` needs `ConfirmsVerified`: a Confirm on the
wire, and the session of a driver that sent one, are for a session that its
initiator verified. These two hold in every setting, with crossed rekeys and
messages pieced together from several. The rest is under `Calm` and rests on
`CalmInv`, which speaks of the leader and the follower by the fragments that can
still reach them (`AtLeader`, `AtFollower`, `Arriving`) and by the messages that are
`Whole` among those. `Answered` says that a Response which can still be completed
for the driver is the one that the follower waits to see confirmed, and that the
Init is `Spent`: what was sent of it cannot be completed again. `Gap` says that the
two ends agree, or one has installed and the other is about to: the leader's
Confirm is `Live`, every part of it on its way or at hand and nothing else to be
completed before it, or the follower was first. `Genuine` says that no other
Confirm can be completed, `Clean` that no part of the Init in use waits where a
Confirm is put together, `Incomplete` that a reassembler keeps nothing whole;
`Roles`, `Kinds`, `Known`, `Single`, `Own` and `Unconfirmed` say who sends what, and that
nothing is of the future or there twice. None of them is inductive alone; together
they exclude the overtaken Confirm that the run rekey_slow shows when the calm is
broken, and the spoiled one of section 4, since with obfuscation parts of an Init
are never joined with a Confirm (`Id`). `RefinesKeySwap` maps the two installs to
`KeySwap`'s steps and everything else to a stutter. That is the safety part
(`Swap!Safety`) of `ImplementsKeySwap`; its fairness stays with TLC.

*Initial handshake.* Assumed: client numbers are naturals, a message has three
parts, the cap on partial messages is positive; any set of clients and settings.
`PushParts` says of the Reassembler that it only ever returns a message with
every part and makes up none of them. `Provenance` says that everything on its
way from a client is its own and signed only for a session it verified, and that
the same holds of what the server has reassembled since it answered its peer,
whose session no unsigned message matches. `MutuallyVerified` alone is not
inductive: an accepted Confirm may be pieced together from several messages, and
it is the signed part that counts. The proof needs nothing about msg_ids, so it
covers obfuscated and clear handshakes, all losses and all delays.

`EstablishedWhenCalm` is about the settings that `Calm` describes, for any number of
clients, attempts, losses and time windows, and assumes that `MAX_PENDING_MSGS` (64)
is above 1: with a cap of 1 the statement is false, since a leftover of an Init that
was sent twice takes the only place and the Confirm is turned away. Its inductive
invariant is `CalmInv`, one conjunct per client (`Local`): while a client waits, only
its latest Init can become complete, and only once by what is on the way (`Clean`);
while an answer is on its way nothing of it can become complete (`NoFirst`), so no
second answer is made; the answer's parts are all of one message, none twice, and a
Response is that of the session the server waits with (`Answered`); and from the
moment the client is up, each part of its Confirm is in the channel or at the server,
the last one in the channel (`Unsettled`). `PushEffect` says exactly what
`push_parts` does to each partial message, `PushParts` only what it cannot make up.

`EveryClientGetsIn` is about the same settings and assumes `Enough`: finitely many
clients, a place for two partial messages of each, and at least
`2 + 4 * (clients - 1) + 2 * losses + windows \div 2` attempts: 8, as in
`net.rs`, for the run's two clients, one loss and one window. Without an assumption of this
kind the statement is false. Its invariant `Budget`, which holds until a client got in,
is an account: `Rest` is what a waiting client has left of its attempts when four are
put aside for each other client of whom the server can still make something (`Ahead`),
two for each loss to come and one for each timer that can still end in the confirm phase
of another (`HalfOpen`); `Pays` says that this covers what its own asking costs. An
asking costs nothing while an answer is on its way, one attempt when it waits for the
confirm phase of another to end, two when it waits for its own, whose answer was lost
(`Again`), and besides the cookie's round trip and the time windows in which a cookie can
run out (`Cost`). Every step that costs an attempt frees one: a loss two, a client that
the server turns to, and so never serves again, four. For this the messages must come
through when nothing is lost: `Sparse` (at most two messages of a client are under way
or at hand, so the table of partial messages has room) and `Hearing` (a client is
answered with one message at a time, which is meant for it). `Turns` says who may wait:
that a client fails after another got in is excused, and `LateFailure` shows that this
one came before it.

*Idle tunnel.* Assumed: positive intervals. `Watchful` bounds the silence of an end
together with the time to its next tick; `SilenceIsNoticed` follows, and without it
even the types are not inductive. `IdleTunnelStaysUp` is stated under `Chatty`:
both ends start with a profile that sends keepalives (section 4 says what happens
otherwise) and `(MaxLostInRow + 1) * KEEPALIVE_INTERVAL < PEER_DEAD_AFTER`, which 15 s
and 45 s satisfy for one loss and just miss for two. Its invariant `Heard` bounds
the silence by the losses in a row. `ProfileSelfHeals` is stated for at most one
loss in a row; while the server is behind, `Healing` says that the first tick is at
hand, or the delayed announcement is pending and the tick after it in time, or the
last send was lost and the next one is neither lost nor too soon.

*Client.* Assumed: the constants' types. `SwitchInv` adds to `FailClosed` that a
switch which this process has `seen` is known to it or on its way to the window in
`attempt` (`Known`). `OwnInv` says of each route who will take it away, the client's
guard or an attempt that has come that far, or that it is lost; `RemovalLeaves`
says that what a removal leaves is lost then. `DnsInv` says that only the installed
guard's thread is at work, that every changed resolver that is not lost has its
original with that guard, and that the original is the user's.

*Server setup.* Assumed: the constants' types. `Control` says that what is left of a
step is a suffix of its operations, and `Midway` what the earlier operations of the
step have left; from these follow `KeysNeverStranded` and the action property
`OldConfigAlwaysKept`. `DiskInv` says that in a run that declines nothing every step
that is wanted is ahead or achieved. `ForceInv` adds the order of the plan (a
reload after the rules, services last), that the rules in force lag behind the
stored ones only while the reload is ahead (`RulesInForce`), how a steady history
stands between runs (`Steady`), and that a run which keeps the config finds the
service and the table as the disk has them (`ServiceInForce`), which is what a change
of the NAT would break.

*Android service.* Assumed: the bounds are naturals, there is a profile and `"none"`
is not one. The four properties speak of histories in which `orderly` holds, so the
invariant does too (`StaysDisorderly`: no later request makes disorder good). It
starts from who may act. A supervisor is `Live` while it is inside a native call or
at a suspension point and not cancelled. `Jobs` says that at most one is, that it is
the service's own job or one that a stop is joining, that those of a destroyed
instance do nothing any more, and that past its join a stop, and a teardown in its
last step, is alone. `Bridge` says that every session that connects or runs is in the
hands of a supervisor inside `nativeStart` or of the stored handle, and that after
`nativeStop` there is none: this is why closing the TUN last is safe, and
`FdOutlivesTunnel` is not inductive without it. `Device` and `Tidy` follow the
descriptor, `Shown` says that whatever is at work is shown to the user, so that
`RunSetProfile` reaches it, and `Chosen` that a profile on its way to a session is the
stored one or about to be replaced by a call under way, unless it was `missed`.

Only model-checked is all liveness (`RekeyEnds`, `StopFinishes`, `Delivered`,
`ListensAgain`, the fairness of `ImplementsKeySwap`), which is beyond this prover. Every invariant and every other action property of the runs
that pass is stated by a theorem.

## 6. Not modelled

Left out for good:

* cryptography and byte layout (`aead.rs`, `obf.rs`, `frame.rs`, most of `crypto.rs`):
  a model could only assume what it should show;
* system calls (`udp.rs`, the settings of `tun_iface.rs`), configuration parsing,
  drawing and the update check of the GUI;
* `pacer.rs`: one sequential function, whose edges the unit tests reach; a slot of
  `OutboundLoop` may hold any amount of cover, which includes what it decides;
* the two writes of `install_new_session` under two locks: a `decrypt_obf` between
  them takes a datagram of the old session for noise, a loss like any other;
* the inbound loop's roaming and its decrypt semaphore.
