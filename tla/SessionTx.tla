------------------------------ MODULE SessionTx ------------------------------
(***************************************************************************)
(* The sending half of SessionManager and CryptoEngine: threads that pin   *)
(* the current session, reserve a range of its tx counters with one        *)
(* fetch_add and seal the range later, while a rekey may replace the       *)
(* current session at any moment.                                          *)
(*                                                                         *)
(* The threads are the outbound loop's batches (sealed by rayon workers in *)
(* any order), the paced slots, the keepalive task and the profile frames: *)
(* all of them go through reserve or through seal_obf, which is a reserve  *)
(* of one counter.                                                         *)
(***************************************************************************)
EXTENDS Integers

CONSTANTS Threads,      \* who seals
          REKEY_AT,     \* 2^48 in session.rs
          MAX_BATCH,    \* 256 in tunnel_loops.rs
          MaxSessions,  \* bound on the sessions a run installs
          MaxReserved   \* bound on a session's tx_counter

ASSUME TxAssumption ==
    /\ REKEY_AT \in Nat /\ MAX_BATCH \in Nat \ {0}
    /\ MaxSessions \in Nat \ {0} /\ MaxReserved \in Nat

Sessions == 1 .. MaxSessions
TxCounters == 0 .. MaxReserved

VARIABLES current,     \* SessionManager.current
          tx_counter,  \* tx_counter[s]: next counter of session s
          thread,      \* what each thread has pinned, and what it must still seal
          seals        \* history: how often counter c was sealed under session s

txVars == <<current, tx_counter, thread, seals>>

TxIdle == [pc |-> "idle", sess |-> 1, todo |-> {}]

TxInit ==
    /\ current = 1
    /\ tx_counter = [s \in Sessions |-> 0]
    /\ thread = [t \in Threads |-> TxIdle]
    /\ seals = [s \in Sessions |-> [c \in TxCounters |-> 0]]

------------------------------------------------------------------------------
\* current.read().clone(): the Arc keeps naming that session, whatever is installed.
Pin(t) ==
    /\ thread[t].pc = "idle"
    /\ thread' = [thread EXCEPT ![t] = [pc |-> "pinned", sess |-> current, todo |-> {}]]
    /\ UNCHANGED <<current, tx_counter, seals>>

\* Plausible slip: only the first counter of the range is tested against the limit.
Reserve_FirstOnly(t, n) ==
    LET s == thread[t].sess
        first == tx_counter[s]
    IN /\ thread[t].pc = "pinned"
       /\ first + n <= MaxReserved
       /\ tx_counter' = [tx_counter EXCEPT ![s] = first + n]
       /\ thread' = [thread EXCEPT ![t] =
                        IF first >= REKEY_AT THEN TxIdle
                        ELSE [pc |-> "sealing", sess |-> s, todo |-> first .. first + n - 1]]
       /\ UNCHANGED <<current, seals>>

(***************************************************************************)
(* reserve_counters: the range is taken by fetch_add before it is tested,  *)
(* so a range that reaches rekey_at is burned and RekeyRequired returned.  *)
(***************************************************************************)
Reserve(t, n) ==
    LET s == thread[t].sess
        first == tx_counter[s]
    IN /\ thread[t].pc = "pinned"
       /\ first + n <= MaxReserved
       /\ tx_counter' = [tx_counter EXCEPT ![s] = first + n]
       /\ thread' = [thread EXCEPT ![t] =
                        IF first + n - 1 >= REKEY_AT THEN TxIdle
                        ELSE [pc |-> "sealing", sess |-> s, todo |-> first .. first + n - 1]]
       /\ UNCHANGED <<current, seals>>

\* Plausible slip: the sealer reads the current session again instead of the pinned one.
Seal_Current(t, c) ==
    /\ thread[t].pc = "sealing"
    /\ c \in thread[t].todo
    /\ seals' = [seals EXCEPT ![current][c] = @ + 1]
    /\ thread' = [thread EXCEPT ![t] =
                     IF thread[t].todo = {c} THEN TxIdle
                     ELSE [pc |-> "sealing", sess |-> thread[t].sess,
                           todo |-> thread[t].todo \ {c}]]
    /\ UNCHANGED <<current, tx_counter>>

(***************************************************************************)
(* seal_with_counter on one packet of the range; the par_iter of           *)
(* seal_batch_with_counters takes the packets in any order.                *)
(***************************************************************************)
Seal(t, c) ==
    /\ thread[t].pc = "sealing"
    /\ c \in thread[t].todo
    /\ seals' = [seals EXCEPT ![thread[t].sess][c] = @ + 1]
    /\ thread' = [thread EXCEPT ![t] =
                     IF thread[t].todo = {c} THEN TxIdle
                     ELSE [pc |-> "sealing", sess |-> thread[t].sess,
                           todo |-> thread[t].todo \ {c}]]
    /\ UNCHANGED <<current, tx_counter>>

\* A seal fails or the worker panics: collect() drops the batch, its counters are burned.
SealFails(t) ==
    /\ thread[t].pc = "sealing"
    /\ thread' = [thread EXCEPT ![t] = TxIdle]
    /\ UNCHANGED <<current, tx_counter, seals>>

\* install_new_session as senders see it: current is a fresh session, counter 0.
Install ==
    /\ current < MaxSessions
    /\ current' = current + 1
    /\ UNCHANGED <<tx_counter, thread, seals>>

TxNext ==
    \/ Install
    \/ \E t \in Threads :
          \/ Pin(t)
          \/ SealFails(t)
          \/ \E n \in 1 .. MAX_BATCH : Reserve(t, n)
          \/ \E c \in TxCounters : Seal(t, c)

TxSpec == TxInit /\ [][TxNext]_txVars

------------------------------------------------------------------------------
ThreadType == [pc : {"idle", "pinned", "sealing"}, sess : Sessions, todo : SUBSET TxCounters]

TxTypeOK ==
    /\ current \in Sessions
    /\ tx_counter \in [Sessions -> TxCounters]
    /\ thread \in [Threads -> ThreadType]
    /\ seals \in [Sessions -> [TxCounters -> Nat]]

(***************************************************************************)
(* Nonce uniqueness.  Whatever threads reserve and whenever they seal, a   *)
(* rekey in between included, no counter is sealed twice under one key     *)
(* (reserve_counters, SessionManager::reserve, seal_with_counter).         *)
(***************************************************************************)
NonceUnique == \A s \in Sessions, c \in TxCounters : seals[s][c] <= 1

(***************************************************************************)
(* The key's safe-usage limit holds for every packet of a batch: nothing   *)
(* is sealed at or past rekey_at, however the batches straddle it.         *)
(***************************************************************************)
LimitRespected == \A s \in Sessions, c \in TxCounters : seals[s][c] > 0 => c < REKEY_AT

(***************************************************************************)
(* What NonceUnique rests on: the ranges that threads hold on one session  *)
(* are disjoint, already taken from its counter, and still unsealed.       *)
(***************************************************************************)
RangesOwned ==
    \A t \in Threads, c \in TxCounters :
        c \in thread[t].todo =>
            /\ c < tx_counter[thread[t].sess]
            /\ seals[thread[t].sess][c] = 0
            /\ \A u \in Threads \ {t} :
                  thread[u].sess = thread[t].sess => c \notin thread[u].todo
=============================================================================
