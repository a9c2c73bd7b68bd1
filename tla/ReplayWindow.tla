---------------------------- MODULE ReplayWindow ----------------------------
(***************************************************************************)
(* Session::decrypt of session.rs, run by several rayon jobs at once on    *)
(* one receiving session (tunnel_loops.rs spawns one job per batch of      *)
(* received datagrams).  The replay mutex is taken twice: for a pre-check, *)
(* and again after the lock-free AEAD open for a re-check and the commit.  *)
(*                                                                         *)
(* The network hands over datagrams in any order and any number of times:  *)
(* genuine ones (counters the peer really sealed) and forged ones, whose   *)
(* header names any counter and whose tag does not verify.                 *)
(***************************************************************************)
EXTENDS Window

CONSTANTS Jobs,          \* decrypt jobs that may run at once
          MaxCounter     \* bound: the peer seals at most 0 .. MaxCounter

ASSUME MaxCounterAssumption == MaxCounter \in Nat

Counters == 0 .. MaxCounter

VARIABLES win,       \* Session.replay
          txCount,   \* the peer's tx_counter: it sealed 0 .. txCount - 1
          job,       \* job[j]: where job j is in decrypt, and its datagram
          delivered  \* history: how often each counter's plaintext was returned

vars == <<win, txCount, job, delivered>>

Idle == [pc |-> "idle", ctr |-> 0, genuine |-> FALSE]

Init ==
    /\ win = NewWindow
    /\ txCount = 0
    /\ job = [j \in Jobs |-> Idle]
    /\ delivered = [c \in Counters |-> 0]

------------------------------------------------------------------------------
\* The peer reserves and seals the next counter; the datagram is on the wire.
PeerSeals ==
    /\ txCount <= MaxCounter
    /\ txCount' = txCount + 1
    /\ UNCHANGED <<win, job, delivered>>

\* A job takes a datagram and runs the pre-check under the lock.
PreCheck(j, c, genuine) ==
    /\ job[j].pc \in {"idle", "accepted", "rejected"}
    /\ genuine => c < txCount
    /\ job' = [job EXCEPT ![j] =
                  [pc |-> IF check(win, c) THEN "opening" ELSE "rejected",
                   ctr |-> c, genuine |-> genuine]]
    /\ UNCHANGED <<win, txCount, delivered>>

\* Plausible slip: the open ignores the tag.
Open_NoTag(j) ==
    /\ job[j].pc = "opening"
    /\ job' = [job EXCEPT ![j].pc = "opened"]
    /\ UNCHANGED <<win, txCount, delivered>>

\* rx_aead.open, without the lock: the tag verifies exactly when genuine.
Open(j) ==
    /\ job[j].pc = "opening"
    /\ job' = [job EXCEPT ![j].pc = IF job[j].genuine THEN "opened" ELSE "rejected"]
    /\ UNCHANGED <<win, txCount, delivered>>

\* Plausible slip: the pre-check is trusted and the re-check is dropped.
Commit_NoRecheck(j) ==
    /\ job[j].pc = "opened"
    /\ win' = commit(win, job[j].ctr)
    /\ job' = [job EXCEPT ![j].pc = "accepted"]
    /\ delivered' = [delivered EXCEPT ![job[j].ctr] = @ + 1]
    /\ UNCHANGED txCount

\* The second critical section: re-check, commit, return the plaintext.
Commit(j) ==
    /\ job[j].pc = "opened"
    /\ IF check(win, job[j].ctr)
       THEN /\ win' = commit(win, job[j].ctr)
            /\ job' = [job EXCEPT ![j].pc = "accepted"]
            /\ delivered' = [delivered EXCEPT ![job[j].ctr] = @ + 1]
       ELSE /\ job' = [job EXCEPT ![j].pc = "rejected"]
            /\ UNCHANGED <<win, delivered>>
    /\ UNCHANGED txCount

Next ==
    \/ PeerSeals
    \/ \E j \in Jobs, c \in Counters, g \in BOOLEAN : PreCheck(j, c, g)
    \/ \E j \in Jobs : Open(j) \/ Commit(j)

Spec == Init /\ [][Next]_vars

------------------------------------------------------------------------------
JobType == [pc : {"idle", "opening", "opened", "accepted", "rejected"},
            ctr : Counters, genuine : BOOLEAN]

TypeOK ==
    /\ win \in WindowType
    /\ txCount \in 0 .. MaxCounter + 1
    /\ job \in [Jobs -> JobType]
    /\ delivered \in [Counters -> Nat]

(***************************************************************************)
(* Anti-replay.  However the jobs that decrypt copies of one datagram      *)
(* interleave between the pre-check and the commit, its plaintext is       *)
(* returned at most once (session.rs, Session::decrypt).                   *)
(***************************************************************************)
AtMostOnce == \A c \in Counters : delivered[c] <= 1

(***************************************************************************)
(* A genuine datagram is only turned away for a reason: a copy of it was   *)
(* delivered, or the window has really moved past it.  Shifting may drop   *)
(* no bit too many and set none (shift_window, commit).                    *)
(***************************************************************************)
RejectionJustified ==
    \A j \in Jobs :
        job[j].pc = "rejected" /\ job[j].genuine =>
            \/ delivered[job[j].ctr] > 0
            \/ job[j].ctr + WINDOW_BITS <= win.highest

(***************************************************************************)
(* Inside the window the bitmap says exactly which counters were           *)
(* delivered: what makes check correct, and what AtMostOnce rests on.      *)
(***************************************************************************)
WindowExact ==
    \A c \in Counters :
        IF win.seeded
        THEN /\ c > win.highest => delivered[c] = 0
             /\ c <= win.highest /\ win.highest - c < WINDOW_BITS =>
                   (win.highest - c \in win.bitmap <=> delivered[c] > 0)
        ELSE delivered[c] = 0

(***************************************************************************)
(* Forged datagrams leave no trace: the window only changes in a step that *)
(* delivers a plaintext the peer sealed, so nobody without the key can     *)
(* push the window ahead and starve real traffic (commit after open).      *)
(***************************************************************************)
OnlySealedMovesWindow ==
    [][win' # win => \E c \in 0 .. txCount - 1 : delivered'[c] = delivered[c] + 1]_vars

\* The abstract promise, with the delivered counters as a set.
Abs == INSTANCE AntiReplay WITH delivered <- {c \in Counters : delivered[c] > 0}

\* decrypt implements AntiReplay.
ImplementsAntiReplay == Abs!Spec
=============================================================================
