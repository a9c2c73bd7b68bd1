---------------------------- MODULE SessionProofs ----------------------------
(***************************************************************************)
(* The two halves of a session.  First the receiving one, ReplayWindow,    *)
(* for every window size, every number of decrypt jobs and every range of  *)
(* counters; then the sending one, SessionTx; last the array of words that *)
(* stores the window, WindowWords, for every size of word.                 *)
(***************************************************************************)
EXTENDS ReplayWindow, SessionTx, WindowWords, WellFoundedInduction, TLAPS

\* Only counters the peer has sealed are in a genuine datagram.
GenuineSealed == \A j \in Jobs : job[j].genuine => job[j].ctr < txCount

\* What has been opened was genuine.
OpenedGenuine == \A j \in Jobs : job[j].pc = "opened" => job[j].genuine

\* Before the first commit the window is as new.
Unseeded == ~win.seeded => win = NewWindow

IInv ==
    /\ TypeOK
    /\ Unseeded
    /\ WindowExact
    /\ AtMostOnce
    /\ RejectionJustified
    /\ GenuineSealed
    /\ OpenedGenuine

------------------------------------------------------------------------------
\* commit keeps the window's type: no position leaves the bitmap's range.
LEMMA CommitType ==
    ASSUME NEW w \in WindowType, NEW c \in Counters
    PROVE  /\ commit(w, c) \in WindowType
           /\ commit(w, c).seeded
           /\ commit(w, c).highest =
                 IF w.seeded /\ c <= w.highest THEN w.highest ELSE c
  BY WindowAssumption, MaxCounterAssumption
     DEF WindowType, commit, Counters, Deltas, shift_window

(***************************************************************************)
(* What commit does to the position of a counter d: in the new window the  *)
(* bit of d is set exactly when d is the committed counter, or d was in    *)
(* the old window with its bit set.                                        *)
(***************************************************************************)
LEMMA CommitBits ==
    ASSUME NEW w \in WindowType, NEW c \in Counters, NEW d \in Counters,
           check(w, c),
           d <= commit(w, c).highest,
           commit(w, c).highest - d < WINDOW_BITS
    PROVE  commit(w, c).highest - d \in commit(w, c).bitmap <=>
              \/ d = c
              \/ /\ w.seeded
                 /\ d <= w.highest
                 /\ w.highest - d < WINDOW_BITS
                 /\ w.highest - d \in w.bitmap
<1> USE WindowAssumption, MaxCounterAssumption
<1>1. CASE w.seeded /\ c <= w.highest
  BY <1>1 DEF WindowType, commit, Counters, Deltas, check
<1>2. CASE w.seeded /\ ~(c <= w.highest)
  <2>1. commit(w, c).bitmap = {0} \cup shift_window(w.bitmap, c - w.highest)
    BY <1>2 DEF commit
  <2>2. commit(w, c).highest = c
    BY <1>2 DEF commit
  <2>3. c - d \in Deltas
    BY <2>2 DEF Deltas, Counters
  <2>4. c - d \in commit(w, c).bitmap <=> d = c \/ w.highest - d \in w.bitmap
    <3>1. (c - d) - (c - w.highest) = w.highest - d
      BY DEF WindowType, Counters
    <3> QED BY <2>1, <2>3, <3>1 DEF shift_window, Counters
  <2>5. w.highest - d \in w.bitmap =>
           d <= w.highest /\ w.highest - d < WINDOW_BITS
    BY DEF WindowType, Deltas, Counters
  <2> QED BY <1>2, <2>2, <2>4, <2>5
<1>3. CASE ~w.seeded
  BY <1>3 DEF WindowType, commit, Counters, Deltas
<1> QED BY <1>1, <1>2, <1>3

------------------------------------------------------------------------------
LEMMA InitIInv == Init => IInv
  BY WindowAssumption, MaxCounterAssumption
     DEF Init, IInv, TypeOK, WindowExact, AtMostOnce, RejectionJustified,
         GenuineSealed, OpenedGenuine, Unseeded, NewWindow, WindowType, Idle, JobType,
         Counters, Deltas

\* The step that matters: a re-check and commit keeps the invariant.
LEMMA CommitStep ==
    ASSUME IInv, NEW j \in Jobs, Commit(j), check(win, job[j].ctr)
    PROVE  /\ IInv'
           /\ delivered[job[j].ctr] = 0
           /\ job[j].ctr < txCount
<1> DEFINE c == job[j].ctr
<1>1. /\ c \in Counters /\ win \in WindowType
      /\ job \in [Jobs -> JobType] /\ delivered \in [Counters -> Nat]
      /\ job[j].genuine /\ c < txCount
  BY DEF IInv, TypeOK, JobType, Commit, OpenedGenuine, GenuineSealed
<1>2. /\ win' = commit(win, c)
      /\ job' = [job EXCEPT ![j].pc = "accepted"]
      /\ delivered' = [delivered EXCEPT ![c] = @ + 1]
      /\ txCount' = txCount
  BY DEF Commit
<1>3. delivered[c] = 0
  BY <1>1 DEF IInv, WindowExact, check, Counters, WindowType
<1>4. /\ win' \in WindowType /\ win'.seeded
      /\ win'.highest = IF win.seeded /\ c <= win.highest THEN win.highest ELSE c
  BY <1>1, <1>2, CommitType
<1>5. TypeOK'
  <2>1. delivered' \in [Counters -> Nat]
    BY <1>1, <1>2
  <2>2. job' \in [Jobs -> JobType]
    BY <1>1, <1>2 DEF JobType
  <2> QED BY <1>2, <1>4, <2>1, <2>2 DEF IInv, TypeOK
<1>6. \A d \in Counters : delivered'[d] = IF d = c THEN 1 ELSE delivered[d]
  BY <1>1, <1>2, <1>3
<1>7. WindowExact'
  <2> SUFFICES ASSUME NEW d \in Counters
               PROVE /\ d > win'.highest => delivered'[d] = 0
                     /\ d <= win'.highest /\ win'.highest - d < WINDOW_BITS =>
                           (win'.highest - d \in win'.bitmap <=> delivered'[d] > 0)
    BY <1>4 DEF WindowExact
  <2>1. d > win'.highest => delivered'[d] = 0
    BY <1>1, <1>4, <1>6 DEF IInv, WindowExact, Counters, WindowType
  <2>2. ASSUME d <= win'.highest, win'.highest - d < WINDOW_BITS
        PROVE  win'.highest - d \in win'.bitmap <=> delivered'[d] > 0
    <3>1. win'.highest - d \in win'.bitmap <=>
              \/ d = c
              \/ /\ win.seeded
                 /\ d <= win.highest
                 /\ win.highest - d < WINDOW_BITS
                 /\ win.highest - d \in win.bitmap
      BY <1>1, <1>2, <2>2, CommitBits
    <3>2. CASE d = c
      BY <3>1, <3>2, <1>6
    <3>3. CASE d # c
      <4>1. delivered'[d] = delivered[d]
        BY <3>3, <1>6
      <4>2. CASE ~win.seeded
        BY <4>1, <4>2, <3>1, <3>3 DEF IInv, WindowExact
      <4>3. CASE win.seeded
        <5>1. win.highest \in Nat /\ d \in Nat /\ c \in Nat /\ WINDOW_BITS \in Nat
          BY <1>1, WindowAssumption, MaxCounterAssumption DEF WindowType, Counters
        <5>2. win.highest <= win'.highest
          BY <1>4, <4>3, <5>1
        <5>3. win'.highest \in Nat
          BY <1>4 DEF WindowType
        <5>4. CASE d > win.highest
          BY <4>1, <4>3, <5>1, <5>4, <3>1, <3>3 DEF IInv, WindowExact
        <5>5. CASE d <= win.highest
          <6>1. win.highest - d < WINDOW_BITS
            BY <5>1, <5>2, <5>3, <2>2
          <6> QED BY <4>1, <4>3, <5>5, <6>1, <3>1, <3>3 DEF IInv, WindowExact
        <5> QED BY <5>1, <5>4, <5>5
      <4> QED BY <4>2, <4>3
    <3> QED BY <3>2, <3>3
  <2> QED BY <2>1, <2>2
<1>8. AtMostOnce'
  BY <1>6 DEF IInv, AtMostOnce
<1>9. RejectionJustified'
  <2> SUFFICES ASSUME NEW k \in Jobs, job'[k].pc = "rejected", job'[k].genuine
               PROVE  \/ delivered'[job'[k].ctr] > 0
                      \/ job'[k].ctr + WINDOW_BITS <= win'.highest
    BY DEF RejectionJustified
  <2>1. k # j /\ job'[k] = job[k]
    BY <1>1, <1>2
  <2>2. job[k].ctr \in Counters
    BY <1>1 DEF JobType
  <2>3. \/ delivered[job[k].ctr] > 0
        \/ job[k].ctr + WINDOW_BITS <= win.highest
    BY <2>1 DEF IInv, RejectionJustified
  <2>4. CASE delivered[job[k].ctr] > 0
    BY <2>1, <2>2, <2>4, <1>6
  <2>5. CASE job[k].ctr + WINDOW_BITS <= win.highest
    <3>1. win.seeded => win.highest <= win'.highest
      BY <1>1, <1>4 DEF WindowType, Counters
    <3>2. ~win.seeded => win.highest = 0
      BY DEF IInv, Unseeded, NewWindow
    <3> QED BY <1>1, <1>4, <2>1, <2>2, <2>5, <3>1, <3>2, WindowAssumption
            DEF WindowType, Counters
  <2> QED BY <2>3, <2>4, <2>5
<1>10. GenuineSealed' /\ OpenedGenuine'
  BY <1>1, <1>2 DEF IInv, GenuineSealed, OpenedGenuine
<1>11. Unseeded'
  BY <1>4 DEF Unseeded
<1> QED BY <1>1, <1>3, <1>5, <1>7, <1>8, <1>9, <1>10, <1>11 DEF IInv

\* Every step keeps the invariant.
LEMMA StepIInv == IInv /\ [Next]_vars => IInv'
<1> SUFFICES ASSUME IInv, [Next]_vars PROVE IInv'
  OBVIOUS
<1> USE WindowAssumption, MaxCounterAssumption
<1>1. CASE PeerSeals
  <2>1. UNCHANGED <<win, job, delivered>> /\ txCount' = txCount + 1 /\ txCount' \in 0 .. MaxCounter + 1
        /\ txCount \in Nat
    BY <1>1 DEF PeerSeals, IInv, TypeOK
  <2>2. TypeOK' /\ WindowExact' /\ AtMostOnce' /\ RejectionJustified'
    BY <2>1 DEF IInv, TypeOK, WindowExact, AtMostOnce, RejectionJustified
  <2>3. GenuineSealed'
    <3> SUFFICES ASSUME NEW j \in Jobs, job[j].genuine PROVE job[j].ctr < txCount + 1
      BY <2>1 DEF GenuineSealed
    <3>1. job[j].ctr < txCount /\ job[j].ctr \in Nat
      BY DEF IInv, GenuineSealed, TypeOK, JobType, Counters
    <3> QED BY <2>1, <3>1
  <2>4. OpenedGenuine' /\ Unseeded'
    BY <2>1 DEF IInv, OpenedGenuine, Unseeded
  <2> QED BY <2>2, <2>3, <2>4 DEF IInv
<1>2. ASSUME NEW j \in Jobs, NEW c \in Counters, NEW g \in BOOLEAN, PreCheck(j, c, g)
      PROVE  IInv'
  <2>1. /\ win' = win /\ txCount' = txCount /\ delivered' = delivered
        /\ job' = [job EXCEPT ![j] =
                     [pc |-> IF check(win, c) THEN "opening" ELSE "rejected",
                      ctr |-> c, genuine |-> g]]
        /\ g => c < txCount
    BY <1>2 DEF PreCheck
  <2>2. TypeOK'
    BY <2>1 DEF IInv, TypeOK, JobType
  <2>3. ~check(win, c) => delivered[c] > 0 \/ c + WINDOW_BITS <= win.highest
    BY DEF check, IInv, TypeOK, WindowExact, WindowType, Counters
  <2>4. RejectionJustified'
    BY <2>1, <2>3 DEF IInv, RejectionJustified, TypeOK
  <2> QED BY <2>1, <2>2, <2>4
          DEF IInv, TypeOK, WindowExact, AtMostOnce, GenuineSealed, OpenedGenuine, Unseeded
<1>3. ASSUME NEW j \in Jobs, Open(j) PROVE IInv'
  <2>1. /\ win' = win /\ txCount' = txCount /\ delivered' = delivered
        /\ job' = [job EXCEPT ![j].pc = IF job[j].genuine THEN "opened" ELSE "rejected"]
    BY <1>3 DEF Open
  <2>2. TypeOK'
    BY <2>1 DEF IInv, TypeOK, JobType
  <2> QED BY <2>1, <2>2
          DEF IInv, TypeOK, WindowExact, AtMostOnce, RejectionJustified, GenuineSealed,
              OpenedGenuine, Unseeded, JobType
<1>4. ASSUME NEW j \in Jobs, Commit(j) PROVE IInv'
  <2>1. CASE check(win, job[j].ctr)
    BY <1>4, <2>1, CommitStep
  <2>2. CASE ~check(win, job[j].ctr)
    <3>1. /\ win' = win /\ txCount' = txCount /\ delivered' = delivered
          /\ job' = [job EXCEPT ![j].pc = "rejected"]
      BY <1>4, <2>2 DEF Commit
    <3>2. TypeOK' /\ job[j].ctr \in Counters
      BY <3>1 DEF IInv, TypeOK, JobType
    <3>3. delivered[job[j].ctr] > 0 \/ job[j].ctr + WINDOW_BITS <= win.highest
      BY <2>2, <3>2 DEF check, IInv, TypeOK, WindowExact, WindowType, Counters
    <3>4. RejectionJustified'
      BY <3>1, <3>3 DEF IInv, RejectionJustified, TypeOK, JobType
    <3> QED BY <3>1, <3>2, <3>4
            DEF IInv, TypeOK, WindowExact, AtMostOnce, GenuineSealed, OpenedGenuine,
                Unseeded, JobType
  <2> QED BY <2>1, <2>2
<1>5. CASE UNCHANGED vars
  BY <1>5 DEF vars, IInv, TypeOK, WindowExact, AtMostOnce, RejectionJustified,
              GenuineSealed, OpenedGenuine, Unseeded
<1> QED BY <1>1, <1>2, <1>3, <1>4, <1>5 DEF Next

\* The inductive invariant holds in every state of decrypt's jobs.
THEOREM Invariance == Spec => []IInv
  BY InitIInv, StepIInv, PTL DEF Spec

\* The window and the jobs keep their types (struct ReplayWindow, Session::decrypt).
THEOREM TypeCorrect == Spec => []TypeOK
<1>1. IInv => TypeOK
  BY DEF IInv
<1> QED BY <1>1, Invariance, PTL

(***************************************************************************)
(* Anti-replay for any number of parallel decrypt jobs and any window:     *)
(* Session::decrypt never returns the plaintext of one counter twice.      *)
(***************************************************************************)
THEOREM NoReplay == Spec => []AtMostOnce
<1>1. IInv => AtMostOnce
  BY DEF IInv
<1> QED BY <1>1, Invariance, PTL

(***************************************************************************)
(* decrypt turns a genuine datagram away only when a copy was delivered or *)
(* the window has passed it (ReplayWindow::check, shift_window).           *)
(***************************************************************************)
THEOREM NoFalseReject == Spec => []RejectionJustified
<1>1. IInv => RejectionJustified
  BY DEF IInv
<1> QED BY <1>1, Invariance, PTL

(***************************************************************************)
(* A datagram nobody with the key sealed never moves the window (the       *)
(* commit of Session::decrypt comes after the AEAD open).                  *)
(***************************************************************************)
THEOREM ForgeryLeavesNoTrace == Spec => OnlySealedMovesWindow
<1>1. ASSUME IInv, [Next]_vars, win' # win
      PROVE  \E c \in 0 .. txCount - 1 : delivered'[c] = delivered[c] + 1
  <2>1. PICK j \in Jobs : Commit(j) /\ check(win, job[j].ctr)
    BY <1>1 DEF Next, vars, PeerSeals, PreCheck, Open, Commit
  <2>2. /\ job[j].ctr \in Counters /\ job[j].ctr < txCount
        /\ delivered' = [delivered EXCEPT ![job[j].ctr] = @ + 1]
    BY <1>1, <2>1, CommitStep DEF IInv, TypeOK, JobType, Commit
  <2>3. job[j].ctr \in 0 .. txCount - 1
    BY <1>1, <2>2, MaxCounterAssumption DEF IInv, TypeOK, Counters
  <2>4. delivered'[job[j].ctr] = delivered[job[j].ctr] + 1
    BY <1>1, <2>2 DEF IInv, TypeOK
  <2> QED BY <2>3, <2>4
<1>2. IInv /\ [Next]_vars =>
         [win' # win => \E c \in 0 .. txCount - 1 : delivered'[c] = delivered[c] + 1]_vars
  BY <1>1
<1> QED BY <1>2, Invariance, PTL DEF Spec, OnlySealedMovesWindow

------------------------------------------------------------------------------
\* The set of delivered counters: AntiReplay's variable.
Done == {c \in Counters : delivered[c] > 0}

(***************************************************************************)
(* Session::decrypt, with its two critical sections and its jobs, does     *)
(* what the abstract AntiReplay allows.                                    *)
(***************************************************************************)
THEOREM Refinement == Spec => ImplementsAntiReplay
<1>1. Init => Abs!Init
  BY DEF Init, Abs!Init
<1>2. ASSUME IInv, [Next]_vars
      PROVE  [Abs!Next]_Done
  <2>1. CASE delivered' = delivered
    BY <2>1 DEF Done
  <2>2. CASE delivered' # delivered
    <3>1. PICK j \in Jobs : Commit(j) /\ check(win, job[j].ctr)
      BY <1>2, <2>2 DEF Next, vars, PeerSeals, PreCheck, Open, Commit
    <3> DEFINE c == job[j].ctr
    <3>2. /\ c \in Counters /\ delivered[c] = 0
          /\ delivered' = [delivered EXCEPT ![c] = @ + 1]
          /\ delivered \in [Counters -> Nat]
      BY <1>2, <3>1, CommitStep DEF IInv, TypeOK, JobType, Commit
    <3>3. Done' = Done \cup {c}
      BY <3>2 DEF Done
    <3>4. \A d \in Done : c + WINDOW_BITS > d
      BY <1>2, <3>1, <3>2, WindowAssumption, MaxCounterAssumption
         DEF Done, check, IInv, TypeOK, WindowExact, WindowType, Counters
    <3>5. c \notin Done
      BY <3>2 DEF Done
    <3> QED BY <3>2, <3>3, <3>4, <3>5 DEF Abs!Next, Abs!Deliver, Done
  <2> QED BY <2>1, <2>2
<1>3. IInv /\ [Next]_vars => [Abs!Next]_Done
  BY <1>2
<1> QED BY <1>1, <1>3, Invariance, PTL DEF Spec, Abs!Spec, ImplementsAntiReplay, Done

-----------------------------------------------------------------------------
(***************************************************************************)
(* The sending half: nonce uniqueness for every number of threads,         *)
(* sessions and counters, every limit and every batch size.                *)
(***************************************************************************)

\* A counter that was not handed out yet has not been sealed.
Unreserved ==
    \A s \in Sessions, c \in TxCounters : tx_counter[s] <= c => seals[s][c] = 0

\* No thread holds a counter at or past the limit.
WithinLimit == \A t \in Threads : \A c \in thread[t].todo : c < REKEY_AT

TxInv ==
    /\ TxTypeOK
    /\ WithinLimit
    /\ RangesOwned
    /\ Unreserved
    /\ NonceUnique
    /\ LimitRespected

LEMMA InitTxInv == TxInit => TxInv
  BY TxAssumption
     DEF TxInit, TxInv, TxTypeOK, RangesOwned, WithinLimit, Unreserved, NonceUnique,
         LimitRespected, TxIdle, ThreadType, Sessions, TxCounters

\* A reserved range is fresh: it lies at and above the session's counter.
LEMMA ReserveStep ==
    ASSUME TxInv, NEW t \in Threads, NEW n \in 1 .. MAX_BATCH, Reserve(t, n)
    PROVE  TxInv'
<1> DEFINE s == thread[t].sess
           first == tx_counter[s]
           new == IF first + n - 1 >= REKEY_AT THEN TxIdle
                  ELSE [pc |-> "sealing", sess |-> s, todo |-> first .. first + n - 1]
<1> USE TxAssumption
<1>0. /\ tx_counter \in [Sessions -> TxCounters] /\ thread \in [Threads -> ThreadType]
      /\ current \in Sessions /\ seals \in [Sessions -> [TxCounters -> Nat]]
  BY DEF TxInv, TxTypeOK
<1>a. s \in Sessions
  BY <1>0 DEF ThreadType
<1>b. first \in TxCounters
  BY <1>0, <1>a
<1>c. n \in Nat \ {0} /\ first \in Nat
  BY <1>b DEF TxCounters
<1>d. first + n <= MaxReserved
  BY DEF Reserve
<1>1. /\ s \in Sessions /\ first \in Nat /\ n \in Nat \ {0} /\ first + n <= MaxReserved
      /\ tx_counter \in [Sessions -> TxCounters] /\ thread \in [Threads -> ThreadType]
      /\ current \in Sessions /\ seals \in [Sessions -> [TxCounters -> Nat]]
  BY <1>0, <1>a, <1>c, <1>d
<1>2. /\ tx_counter' = [tx_counter EXCEPT ![s] = first + n]
      /\ thread' = [thread EXCEPT ![t] = new]
      /\ seals' = seals /\ current' = current
  BY DEF Reserve
<1> HIDE DEF new
<1>3. /\ new \in ThreadType
      /\ \A c \in new.todo : new.sess = s /\ first <= c /\ c < first + n /\ c < REKEY_AT
  <2>1. CASE first + n - 1 >= REKEY_AT
    BY <2>1 DEF new, TxIdle, ThreadType, Sessions
  <2>2. CASE ~(first + n - 1 >= REKEY_AT)
    <3>1. first .. first + n - 1 \subseteq TxCounters
      <4> SUFFICES ASSUME NEW c \in first .. first + n - 1 PROVE c \in TxCounters
        OBVIOUS
      <4> HIDE DEF s, first
      <4> QED BY <1>1 DEF TxCounters
    <3>2. new = [pc |-> "sealing", sess |-> s, todo |-> first .. first + n - 1]
      BY <2>2 DEF new
    <3>3. \A c \in first .. first + n - 1 : first <= c /\ c < first + n /\ c < REKEY_AT
      BY <1>1, <2>2
    <3> QED BY <1>1, <3>1, <3>2, <3>3 DEF ThreadType
  <2> QED BY <2>1, <2>2
<1> HIDE DEF s
<1>6. /\ tx_counter'[s] = first + n
      /\ \A r \in Sessions : r # s => tx_counter'[r] = tx_counter[r]
  BY <1>1, <1>2
<1>4. TxTypeOK'
  <2>1. first + n \in TxCounters
    BY <1>1 DEF TxCounters
  <2>2. tx_counter' \in [Sessions -> TxCounters]
    BY <1>1, <1>2, <2>1
  <2>3. thread' \in [Threads -> ThreadType]
    BY <1>1, <1>2, <1>3
  <2> QED BY <1>1, <1>2, <2>2, <2>3 DEF TxTypeOK
<1>5. \A r \in Sessions : tx_counter[r] \in Nat /\ tx_counter'[r] \in Nat
                          /\ tx_counter[r] <= tx_counter'[r]
  <2> SUFFICES ASSUME NEW r \in Sessions
               PROVE  tx_counter[r] \in Nat /\ tx_counter'[r] \in Nat
                      /\ tx_counter[r] <= tx_counter'[r]
    OBVIOUS
  <2>1. tx_counter[r] \in Nat
    BY <1>1 DEF TxCounters
  <2>2. CASE r = s
    BY <1>1, <1>6, <2>1, <2>2
  <2>3. CASE r # s
    BY <1>6, <2>1, <2>3
  <2> QED BY <2>2, <2>3
<1>7. RangesOwned'
  <2> SUFFICES ASSUME NEW u \in Threads, NEW c \in TxCounters, c \in thread'[u].todo
               PROVE  /\ c < tx_counter'[thread'[u].sess]
                      /\ seals[thread'[u].sess][c] = 0
                      /\ \A v \in Threads \ {u} :
                            thread'[v].sess = thread'[u].sess => c \notin thread'[v].todo
    BY <1>2 DEF RangesOwned
  <2>0. c \in Nat
    BY DEF TxCounters
  <2>1. CASE u = t
    <3>1. /\ thread'[u] = new /\ new.sess = s /\ first <= c /\ c < first + n
      BY <1>1, <1>2, <1>3, <2>1
    <3>2. c \in TxCounters
      BY <1>1, <2>0, <3>1 DEF TxCounters
    <3>3. seals[s][c] = 0
      BY <1>1, <3>1, <3>2 DEF TxInv, Unreserved
    <3>4. ASSUME NEW v \in Threads \ {u}, thread'[v].sess = s, c \in thread'[v].todo
          PROVE  FALSE
      <4>1. thread'[v] = thread[v]
        BY <1>1, <1>2, <2>1, <3>4
      <4>2. c < tx_counter[s]
        BY <3>4, <4>1 DEF TxInv, RangesOwned
      <4> QED BY <1>1, <2>0, <3>1, <4>2
    <3> QED BY <1>6, <3>1, <3>3, <3>4
  <2>2. CASE u # t
    <3>1. thread'[u] = thread[u] /\ thread[u].sess \in Sessions
      BY <1>1, <1>2, <2>2 DEF ThreadType
    <3>2. c < tx_counter[thread[u].sess] /\ seals[thread[u].sess][c] = 0
      BY <3>1 DEF TxInv, RangesOwned
    <3>3. c < tx_counter'[thread[u].sess]
      BY <1>5, <2>0, <3>1, <3>2
    <3>4. ASSUME NEW v \in Threads \ {u}, thread'[v].sess = thread[u].sess,
                 c \in thread'[v].todo
          PROVE  FALSE
      <4>1. CASE v = t
        <5>1. thread'[v] = new
          BY <1>1, <1>2, <4>1
        <5>2. thread[u].sess = s /\ first <= c
          BY <1>3, <3>4, <5>1
        <5> QED BY <1>1, <2>0, <3>2, <5>2
      <4>2. CASE v # t
        <5>1. thread'[v] = thread[v]
          BY <1>1, <1>2, <3>4, <4>2
        <5> QED BY <3>1, <3>4, <5>1 DEF TxInv, RangesOwned
      <4> QED BY <4>1, <4>2
    <3> QED BY <3>1, <3>2, <3>3, <3>4
  <2> QED BY <2>1, <2>2
<1>8. Unreserved'
  <2> SUFFICES ASSUME NEW r \in Sessions, NEW c \in TxCounters, tx_counter'[r] <= c
               PROVE  seals[r][c] = 0
    BY <1>2 DEF Unreserved
  <2>1. tx_counter[r] <= c
    BY <1>5 DEF TxCounters
  <2> QED BY <2>1 DEF TxInv, Unreserved
<1>9. NonceUnique' /\ LimitRespected'
  BY <1>2 DEF TxInv, NonceUnique, LimitRespected
<1>10. WithinLimit'
  <2> SUFFICES ASSUME NEW u \in Threads, NEW c \in thread'[u].todo
               PROVE  c < REKEY_AT
    BY DEF WithinLimit
  <2>1. CASE u = t
    BY <1>1, <1>2, <1>3, <2>1
  <2>2. CASE u # t
    BY <1>1, <1>2, <2>2 DEF TxInv, WithinLimit
  <2> QED BY <2>1, <2>2
<1> QED BY <1>4, <1>7, <1>8, <1>9, <1>10 DEF TxInv

\* Sealing one counter of an owned range uses a nonce nobody has used.
LEMMA SealStep ==
    ASSUME TxInv, NEW t \in Threads, NEW c \in TxCounters, Seal(t, c)
    PROVE  TxInv'
<1> DEFINE s == thread[t].sess
           new == IF thread[t].todo = {c} THEN TxIdle
                  ELSE [pc |-> "sealing", sess |-> s, todo |-> thread[t].todo \ {c}]
<1> USE TxAssumption
<1>a. c < REKEY_AT
  BY DEF TxInv, Seal, WithinLimit
<1>1. /\ s \in Sessions /\ current \in Sessions /\ c \in Nat /\ c < REKEY_AT
      /\ tx_counter \in [Sessions -> TxCounters] /\ thread \in [Threads -> ThreadType]
      /\ seals \in [Sessions -> [TxCounters -> Nat]]
  <2>1. c \in Nat
    BY DEF TxCounters
  <2> QED BY <1>a, <2>1 DEF TxInv, TxTypeOK, ThreadType
<1>2. /\ seals' = [seals EXCEPT ![s][c] = @ + 1]
      /\ thread' = [thread EXCEPT ![t] = new]
      /\ tx_counter' = tx_counter /\ current' = current
      /\ c \in thread[t].todo
  BY DEF Seal
<1>3. c < tx_counter[s] /\ seals[s][c] = 0
  BY <1>2 DEF TxInv, RangesOwned
<1>4. c \in TxCounters
  BY <1>1, <1>3 DEF TxCounters
<1>5. /\ new \in ThreadType
      /\ \A d \in new.todo : d \in thread[t].todo /\ d # c /\ new.sess = s
  <2>1. CASE thread[t].todo = {c}
    BY <2>1 DEF TxIdle, ThreadType, Sessions
  <2>2. CASE thread[t].todo # {c}
    <3>1. thread[t].todo \subseteq TxCounters
      BY <1>1 DEF ThreadType
    <3> QED BY <1>1, <2>2, <3>1 DEF ThreadType
  <2> QED BY <2>1, <2>2
<1> HIDE DEF new
<1>6. /\ seals' \in [Sessions -> [TxCounters -> Nat]]
      /\ \A r \in Sessions, d \in TxCounters :
            seals'[r][d] = IF r = s /\ d = c THEN 1 ELSE seals[r][d]
  BY <1>1, <1>2, <1>3, <1>4
<1>7. TxTypeOK'
  BY <1>1, <1>2, <1>5, <1>6 DEF TxTypeOK
<1>8. RangesOwned'
  <2> SUFFICES ASSUME NEW u \in Threads, NEW d \in TxCounters, d \in thread'[u].todo
               PROVE  /\ d < tx_counter[thread'[u].sess]
                      /\ seals'[thread'[u].sess][d] = 0
                      /\ \A v \in Threads \ {u} :
                            thread'[v].sess = thread'[u].sess => d \notin thread'[v].todo
    BY <1>2 DEF RangesOwned
  <2>1. \A v \in Threads : /\ d \in thread'[v].todo =>
                                 /\ d \in thread[v].todo
                                 /\ thread'[v].sess = thread[v].sess
                           /\ v # t => thread'[v] = thread[v]
                           /\ v = t => thread'[v] = new
    BY <1>1, <1>2, <1>5
  <2>2. /\ d \in thread[u].todo /\ thread'[u].sess = thread[u].sess
        /\ thread[u].sess \in Sessions
    BY <1>1, <2>1 DEF ThreadType
  <2>3. /\ d < tx_counter[thread[u].sess] /\ seals[thread[u].sess][d] = 0
        /\ \A v \in Threads \ {u} :
              thread[v].sess = thread[u].sess => d \notin thread[v].todo
    BY <2>2 DEF TxInv, RangesOwned
  <2>4. d \in TxCounters
    OBVIOUS
  <2>5. ~(thread[u].sess = s /\ d = c)
    <3>1. CASE u = t
      BY <1>5, <2>1, <3>1
    <3>2. CASE u # t
      BY <1>2, <2>3, <3>2
    <3> QED BY <3>1, <3>2
  <2>6. seals'[thread[u].sess][d] = 0
    BY <1>6, <2>2, <2>3, <2>4, <2>5
  <2> QED BY <2>1, <2>2, <2>3, <2>6
<1> HIDE DEF s
<1>9. Unreserved'
  <2> SUFFICES ASSUME NEW r \in Sessions, NEW d \in TxCounters, tx_counter[r] <= d
               PROVE  seals'[r][d] = 0
    BY <1>2 DEF Unreserved
  <2>1. seals[r][d] = 0
    BY DEF TxInv, Unreserved
  <2>2. tx_counter[r] \in Nat /\ d \in Nat
    BY <1>1 DEF TxCounters
  <2>3. ~(r = s /\ d = c)
    BY <1>1, <1>3, <2>2
  <2> QED BY <1>6, <2>1, <2>3
<1>10. NonceUnique' /\ LimitRespected'
  <2> SUFFICES ASSUME NEW r \in Sessions, NEW d \in TxCounters
               PROVE  seals'[r][d] <= 1 /\ (seals'[r][d] > 0 => d < REKEY_AT)
    BY DEF NonceUnique, LimitRespected
  <2>1. seals[r][d] <= 1 /\ (seals[r][d] > 0 => d < REKEY_AT)
    BY DEF TxInv, NonceUnique, LimitRespected
  <2>2. CASE r = s /\ d = c
    BY <1>1, <1>6, <2>2
  <2>3. CASE ~(r = s /\ d = c)
    BY <1>6, <2>1, <2>3
  <2> QED BY <2>2, <2>3
<1>11. WithinLimit'
  <2> SUFFICES ASSUME NEW u \in Threads, NEW d \in thread'[u].todo
               PROVE  d < REKEY_AT
    BY DEF WithinLimit
  <2>1. CASE u = t
    BY <1>1, <1>2, <1>5, <2>1 DEF TxInv, WithinLimit
  <2>2. CASE u # t
    BY <1>1, <1>2, <2>2 DEF TxInv, WithinLimit
  <2> QED BY <2>1, <2>2
<1> QED BY <1>7, <1>8, <1>9, <1>10, <1>11 DEF TxInv

LEMMA StepTxInv == TxInv /\ [TxNext]_txVars => TxInv'
<1> SUFFICES ASSUME TxInv, [TxNext]_txVars PROVE TxInv'
  OBVIOUS
<1> USE TxAssumption
<1>1. CASE Install
  <2>1. current' \in Sessions
    BY <1>1 DEF Install, TxInv, TxTypeOK, Sessions
  <2>2. tx_counter' = tx_counter /\ thread' = thread /\ seals' = seals
    BY <1>1 DEF Install
  <2> QED BY <2>1, <2>2 DEF TxInv, TxTypeOK, RangesOwned, WithinLimit, Unreserved,
                            NonceUnique, LimitRespected
<1>2. ASSUME NEW t \in Threads, Pin(t) \/ SealFails(t) PROVE TxInv'
  <2>1. PICK new \in ThreadType : /\ new.todo = {}
                                  /\ thread' = [thread EXCEPT ![t] = new]
    <3>1. CASE Pin(t)
      <4>1. [pc |-> "pinned", sess |-> current, todo |-> {}] \in ThreadType
        BY DEF TxInv, TxTypeOK, ThreadType
      <4> QED BY <3>1, <4>1 DEF Pin
    <3>2. CASE SealFails(t)
      <4>1. TxIdle \in ThreadType /\ TxIdle.todo = {}
        BY DEF TxIdle, ThreadType, Sessions
      <4> QED BY <3>2, <4>1 DEF SealFails
    <3> QED BY <1>2, <3>1, <3>2
  <2>2. current' = current /\ tx_counter' = tx_counter /\ seals' = seals
    BY <1>2 DEF Pin, SealFails
  <2>3. TxTypeOK'
    BY <2>1, <2>2 DEF TxInv, TxTypeOK
  <2>4. RangesOwned'
    BY <2>1, <2>2 DEF TxInv, TxTypeOK, RangesOwned
  <2>5. WithinLimit'
    BY <2>1 DEF TxInv, TxTypeOK, WithinLimit
  <2> QED BY <2>2, <2>3, <2>4, <2>5 DEF TxInv, Unreserved, NonceUnique, LimitRespected
<1>3. ASSUME NEW t \in Threads, NEW n \in 1 .. MAX_BATCH, Reserve(t, n) PROVE TxInv'
  BY <1>3, ReserveStep
<1>4. ASSUME NEW t \in Threads, NEW c \in TxCounters, Seal(t, c) PROVE TxInv'
  BY <1>4, SealStep
<1>5. CASE UNCHANGED txVars
  BY <1>5 DEF txVars, TxInv, TxTypeOK, RangesOwned, WithinLimit, Unreserved, NonceUnique, LimitRespected
<1> QED BY <1>1, <1>2, <1>3, <1>4, <1>5 DEF TxNext

\* The inductive invariant of reserve, seal and install.
THEOREM TxInvariance == TxSpec => []TxInv
  BY InitTxInv, StepTxInv, PTL DEF TxSpec

\* The sending side keeps its types: counters, pinned sessions and reserved ranges.
THEOREM TxTypeCorrect == TxSpec => []TxTypeOK
<1>1. TxInv => TxTypeOK
  BY DEF TxInv
<1> QED BY <1>1, TxInvariance, PTL

(***************************************************************************)
(* No AEAD nonce is used twice under one session key, for any number of    *)
(* sealing threads and any rekey in between (SessionManager::reserve).     *)
(***************************************************************************)
THEOREM NoNonceReuse == TxSpec => []NonceUnique
<1>1. TxInv => NonceUnique
  BY DEF TxInv
<1> QED BY <1>1, TxInvariance, PTL

\* No packet is sealed at or past rekey_at (Session::reserve_counters).
THEOREM NoSealPastLimit == TxSpec => []LimitRespected
<1>1. TxInv => LimitRespected
  BY DEF TxInv
<1> QED BY <1>1, TxInvariance, PTL

------------------------------------------------------------------------------
(***************************************************************************)
(* The bitmap in words.  Positions are divided into a word and a bit; the  *)
(* loop of shift_window is followed by induction over the words it has     *)
(* rewritten.                                                              *)
(***************************************************************************)
MapType == [Words -> SUBSET Bits]

\* Induction over Nat for a set, from the well-foundedness of <.
LEMMA NatSetInduction ==
    ASSUME NEW S, 0 \in S, \A n \in Nat : n \in S => n + 1 \in S
    PROVE  Nat \subseteq S
<1> DEFINE Bad == Nat \ S
<1>1. SUFFICES ASSUME Bad # {} PROVE FALSE
  OBVIOUS
<1>2. IsWellFoundedOn(OpToRel(<, Nat), Nat)
  BY NatLessThanWellFounded
<1>3. PICK x \in Bad : \A y \in Bad : ~ (<<y, x>> \in OpToRel(<, Nat))
  <2>1. Bad \subseteq Nat
    OBVIOUS
  <2> HIDE DEF Bad
  <2> QED BY <1>1, <1>2, <2>1, WFMin
<1>4. x \in Nat /\ x # 0
  OBVIOUS
<1>5. x - 1 \in Nat /\ x - 1 < x
  BY <1>4
<1>6. <<x - 1, x>> \in OpToRel(<, Nat)
  BY <1>4, <1>5 DEF OpToRel
<1>7. x - 1 \in S
  BY <1>3, <1>5, <1>6
<1> QED BY <1>4, <1>5, <1>7

\* A position is a bit of one of the words.
LEMMA Divides ==
    ASSUME NEW d \in Deltas
    PROVE  /\ d \div WORD_BITS \in Words
           /\ d % WORD_BITS \in Bits
           /\ d = WORD_BITS * (d \div WORD_BITS) + (d % WORD_BITS)
<1> DEFINE q == d \div WORD_BITS
           r == d % WORD_BITS
<1>1. q \in Nat /\ r \in 0 .. WORD_BITS - 1 /\ d = WORD_BITS * q + r
  BY WordsAssumption, WindowAssumption DEF Deltas
<1> HIDE DEF q, r
<1>2. q < WINDOW_WORDS
  <2>1. SUFFICES ASSUME q >= WINDOW_WORDS PROVE FALSE
    BY <1>1, WordsAssumption
  <2>2. WORD_BITS * (q - WINDOW_WORDS) >= 0 /\ q - WINDOW_WORDS \in Nat
    BY <1>1, <2>1, WordsAssumption
  <2>3. WORD_BITS * q = WORD_BITS * (q - WINDOW_WORDS) + WINDOW_BITS
    BY <1>1, WordsAssumption
  <2> QED BY <1>1, <2>2, <2>3, WordsAssumption, WindowAssumption DEF Deltas
<1> QED BY <1>1, <1>2, WordsAssumption DEF q, r, Words, Bits

\* There is only one way to divide.
LEMMA DividesOnce ==
    ASSUME NEW q \in Nat, NEW r \in Bits, NEW d \in Nat, d = WORD_BITS * q + r
    PROVE  d \div WORD_BITS = q /\ d % WORD_BITS = r
<1> DEFINE k == d \div WORD_BITS
           m == d % WORD_BITS
<1>1. k \in Nat /\ m \in Bits /\ d = WORD_BITS * k + m
  BY WordsAssumption DEF Bits
<1> HIDE DEF k, m
<1>2. CASE k < q
  <2>1. q - k - 1 \in Nat /\ WORD_BITS * (q - k - 1) >= 0
    BY <1>1, <1>2, WordsAssumption
  <2> QED BY <1>1, <2>1, WordsAssumption DEF Bits
<1>3. CASE q < k
  <2>1. k - q - 1 \in Nat /\ WORD_BITS * (k - q - 1) >= 0
    BY <1>1, <1>3, WordsAssumption
  <2> QED BY <1>1, <2>1, WordsAssumption DEF Bits
<1>4. CASE k = q
  BY <1>1, <1>4, WordsAssumption DEF Bits, k, m
<1> QED BY <1>1, <1>2, <1>3, <1>4

\* Two positions with the same word and bit are one.
LEMMA SamePosition ==
    ASSUME NEW d \in Deltas, NEW e \in Deltas,
           d \div WORD_BITS = e \div WORD_BITS, d % WORD_BITS = e % WORD_BITS
    PROVE  d = e
<1>1. d = WORD_BITS * (d \div WORD_BITS) + (d % WORD_BITS)
  BY Divides
<1>2. e = WORD_BITS * (e \div WORD_BITS) + (e % WORD_BITS)
  BY Divides
<1> QED BY <1>1, <1>2

\* The word and bit that a position divides into are where the array keeps it.
LEMMA Marks ==
    ASSUME NEW map \in MapType, NEW d \in Deltas
    PROVE  d \in Positions(map) <=> bit_is_set(map, d)
<1>1. d \div WORD_BITS \in Words /\ d % WORD_BITS \in Bits
      /\ d = WORD_BITS * (d \div WORD_BITS) + (d % WORD_BITS)
  BY Divides
<1>2. ASSUME NEW i \in Words, NEW b \in map[i], d = WORD_BITS * i + b
      PROVE  i = d \div WORD_BITS /\ b = d % WORD_BITS
  <2>1. i \in Nat /\ b \in Bits /\ d \in Nat
    BY DEF MapType, Words, Deltas
  <2> QED BY <1>2, <2>1, DividesOnce
<1>3. ASSUME d \in Positions(map) PROVE bit_is_set(map, d)
  BY <1>2, <1>3 DEF Positions, bit_is_set
<1>4. ASSUME bit_is_set(map, d) PROVE d \in Positions(map)
  BY <1>1, <1>4 DEF Positions, bit_is_set
<1> QED BY <1>3, <1>4

LEMMA ZeroMarks == ZeroMap \in MapType /\ Positions(ZeroMap) = {}
  BY DEF ZeroMap, MapType, Positions

\* set_bit marks its position and no other.
LEMMA SetBitMarks ==
    ASSUME NEW map \in MapType, NEW e \in Deltas
    PROVE  /\ set_bit(map, e) \in MapType
           /\ Positions(set_bit(map, e)) = Positions(map) \cup {e}
<1>1. e \div WORD_BITS \in Words /\ e % WORD_BITS \in Bits
  BY Divides
<1>2. set_bit(map, e) \in MapType
  <2>1. map[e \div WORD_BITS] \cup {e % WORD_BITS} \subseteq Bits
    BY <1>1 DEF MapType
  <2> QED BY <1>1, <2>1 DEF MapType, set_bit
<1>3. ASSUME NEW d \in Deltas
      PROVE  bit_is_set(set_bit(map, e), d) <=> bit_is_set(map, d) \/ d = e
  <2>1. d \div WORD_BITS \in Words
    BY Divides
  <2>2. d # e => d \div WORD_BITS # e \div WORD_BITS \/ d % WORD_BITS # e % WORD_BITS
    BY SamePosition
  <2> QED BY <1>1, <2>1, <2>2 DEF bit_is_set, set_bit, MapType
<1>4. ASSUME NEW d \in Deltas
      PROVE  d \in Positions(set_bit(map, e)) <=> d \in Positions(map) \cup {e}
  BY <1>2, <1>3, Marks
<1>5. Positions(map) \subseteq Deltas /\ Positions(set_bit(map, e)) \subseteq Deltas
  BY DEF Positions
<1> QED BY <1>2, <1>4, <1>5

\* The word that the loop of shift_window writes at index i when nothing it reads is rewritten.
NewWord(map, shift, i) ==
    ShiftWord(map, i, shift \div WORD_BITS, shift % WORD_BITS)[i]

(***************************************************************************)
(* The carry.  A bit of the new word is the bit shift positions below in   *)
(* the old array, whether it comes from the same distance of words or, by  *)
(* the carry, from one word further.                                       *)
(***************************************************************************)
LEMMA NewWordBits ==
    ASSUME NEW map \in MapType, NEW shift \in Deltas, NEW d \in Deltas
    PROVE  d % WORD_BITS \in NewWord(map, shift, d \div WORD_BITS)
              <=> d - shift \in Positions(map)
<1> DEFINE i == d \div WORD_BITS
           r == d % WORD_BITS
           ws == shift \div WORD_BITS
           bs == shift % WORD_BITS
<1>1. i \in Words /\ r \in Bits /\ d = WORD_BITS * i + r
  BY Divides
<1>2. ws \in Words /\ bs \in Bits /\ shift = WORD_BITS * ws + bs
  BY Divides
<1>3. NewWord(map, shift, i) =
          IF i < ws THEN {}
          ELSE IF bs = 0 \/ i = ws THEN ShiftLeft(map[i - ws], bs)
               ELSE ShiftLeft(map[i - ws], bs) \cup ShiftRight(map[i - ws - 1], WORD_BITS - bs)
  BY <1>1 DEF NewWord, ShiftWord, MapType
<1> SUFFICES r \in NewWord(map, shift, i) <=> d - shift \in Positions(map)
  OBVIOUS
<1> HIDE DEF i, r, ws, bs
<1>4. /\ WORD_BITS \in Nat /\ WORD_BITS > 0
      /\ i \in Nat /\ r \in Nat /\ ws \in Nat /\ bs \in Nat
      /\ r < WORD_BITS /\ bs < WORD_BITS /\ d \in Nat /\ shift \in Nat
  BY <1>1, <1>2, WordsAssumption, WindowAssumption DEF Words, Bits, Deltas
<1>5. d - shift = WORD_BITS * (i - ws) + (r - bs)
  BY <1>1, <1>2, <1>4
\* The position shift below is bit x of word k.
<1>6. ASSUME NEW k \in Nat, NEW x \in Bits, d - shift = WORD_BITS * k + x
      PROVE  d - shift \in Positions(map) <=> x \in map[k]
  <2>1. WORD_BITS * k \in Nat
    BY <1>4
  <2>2. d - shift \in Nat
    BY <1>4, <1>6, <2>1 DEF Bits
  <2>3. (d - shift) \div WORD_BITS = k /\ (d - shift) % WORD_BITS = x
    BY <1>6, <2>2, DividesOnce
  <2>4. d - shift \in Deltas
    BY <1>4, <2>2, WindowAssumption DEF Deltas
  <2> QED BY <2>3, <2>4, Marks DEF bit_is_set
\* Below position 0 there is nothing.
<1>7. ASSUME d - shift < 0 PROVE d - shift \notin Positions(map)
  BY <1>4, <1>7 DEF Positions, Deltas
<1>8. ASSUME NEW k \in Nat, i - ws = -k - 1, NEW x \in Bits, r - bs <= x
      PROVE  d - shift < 0
  <2>1. WORD_BITS * (-k - 1) = -(WORD_BITS * k) - WORD_BITS
    BY <1>4
  <2>2. WORD_BITS * k >= 0 /\ WORD_BITS * k \in Nat
    BY <1>4
  <2> QED BY <1>4, <1>5, <1>8, <2>1, <2>2 DEF Bits
<1>9. CASE i < ws
  <2>1. ws - i - 1 \in Nat /\ i - ws = -(ws - i - 1) - 1
    BY <1>4, <1>9
  <2>2. r \in Bits /\ r - bs <= r
    BY <1>1, <1>4
  <2>3. d - shift < 0
    BY <1>8, <2>1, <2>2
  <2> QED BY <1>3, <1>7, <1>9, <2>3
<1>10. CASE i >= ws /\ r >= bs
  <2>1. i - ws \in Nat /\ r - bs \in Bits /\ i - ws \in Words
    BY <1>1, <1>4, <1>10, WordsAssumption DEF Bits, Words
  <2>2. d - shift \in Positions(map) <=> r - bs \in map[i - ws]
    BY <1>5, <1>6, <2>1
  <2>3. r \in ShiftLeft(map[i - ws], bs) <=> r - bs \in map[i - ws]
    BY <1>1 DEF ShiftLeft
  <2>4. ~(bs = 0 \/ i = ws) => r \notin ShiftRight(map[i - ws - 1], WORD_BITS - bs)
    <3>1. SUFFICES ASSUME ~(bs = 0 \/ i = ws) PROVE r + (WORD_BITS - bs) \notin map[i - ws - 1]
      BY DEF ShiftRight
    <3>2. i - ws - 1 \in Words
      BY <1>1, <1>2, <1>4, <1>10, <3>1, WordsAssumption DEF Words
    <3>3. r + (WORD_BITS - bs) \notin Bits
      BY <1>4, <1>10 DEF Bits
    <3> QED BY <3>2, <3>3 DEF MapType
  <2>5. ~(i < ws)
    BY <1>4, <1>10
  <2> QED BY <1>3, <2>2, <2>3, <2>4, <2>5
<1>11. CASE i >= ws /\ r < bs
  <2>1. r \notin ShiftLeft(map[i - ws], bs)
    <3>1. i - ws \in Words /\ r - bs \notin Bits
      BY <1>1, <1>2, <1>4, <1>11, WordsAssumption DEF Words, Bits
    <3> QED BY <3>1 DEF ShiftLeft, MapType
  <2>2. bs # 0 /\ ~(i < ws)
    BY <1>4, <1>11
  <2>3. CASE i = ws
    <3>1. WORD_BITS * (i - ws) = 0
      BY <1>4, <2>3
    <3>2. d - shift < 0
      BY <1>4, <1>5, <1>11, <3>1
    <3> QED BY <1>3, <1>7, <2>1, <2>2, <2>3, <3>2
  <2>4. CASE i # ws
    <3>1. i - ws - 1 \in Nat /\ r + (WORD_BITS - bs) \in Bits
      BY <1>4, <1>11, <2>4 DEF Bits
    <3>2. d - shift = WORD_BITS * (i - ws - 1) + (r + (WORD_BITS - bs))
      BY <1>4, <1>5
    <3>3. d - shift \in Positions(map) <=> r + (WORD_BITS - bs) \in map[i - ws - 1]
      BY <1>6, <3>1, <3>2
    <3>4. r \in ShiftRight(map[i - ws - 1], WORD_BITS - bs)
             <=> r + (WORD_BITS - bs) \in map[i - ws - 1]
      BY <1>1 DEF ShiftRight
    <3> QED BY <1>3, <2>1, <2>2, <2>4, <3>3, <3>4
  <2> QED BY <2>3, <2>4
<1> QED BY <1>4, <1>9, <1>10, <1>11

------------------------------------------------------------------------------
(***************************************************************************)
(* The loop.  Partial(map, shift, n) is the array once its n highest words *)
(* are rewritten: every one of them from the words of the array as it was, *)
(* because a pass reads at its own index and below.                        *)
(***************************************************************************)
Partial(map, shift, n) ==
    [i \in Words |-> IF i >= WINDOW_WORDS - n THEN NewWord(map, shift, i) ELSE map[i]]

\* Every word is rewritten into bits of a word.
LEMMA NewWordType ==
    ASSUME NEW map \in MapType, NEW shift, NEW i \in Words
    PROVE  NewWord(map, shift, i) \subseteq Bits
  BY DEF NewWord, ShiftWord, MapType, ShiftLeft, ShiftRight

\* One pass of the loop, in place, rewrites the next word.
LEMMA PassRewrites ==
    ASSUME NEW map \in MapType, NEW shift \in Deltas, NEW n \in 1 .. WINDOW_WORDS
    PROVE  ShiftWord(Partial(map, shift, n - 1), WINDOW_WORDS - n,
                     shift \div WORD_BITS, shift % WORD_BITS) = Partial(map, shift, n)
<1> DEFINE i == WINDOW_WORDS - n
           old == Partial(map, shift, n - 1)
           ws == shift \div WORD_BITS
           bs == shift % WORD_BITS
           new == ShiftWord(old, i, ws, bs)
<1>1. WINDOW_WORDS \in Nat /\ i \in Words /\ ws \in Nat
  BY WordsAssumption, Divides DEF Words
<1>2. \A k \in Words : k <= i => old[k] = map[k]
  BY <1>1 DEF Partial, Words
<1>3. new[i] = NewWord(map, shift, i)
  <2>1. old[i] = map[i]
    BY <1>1, <1>2 DEF Words
  <2>2. ASSUME ~(i < ws) PROVE old[i - ws] = map[i - ws]
    <3>1. i - ws \in Words /\ i - ws <= i
      BY <1>1, <2>2 DEF Words
    <3> QED BY <1>2, <3>1
  <2>3. ASSUME ~(i < ws), i # ws PROVE old[i - ws - 1] = map[i - ws - 1]
    <3>1. i - ws - 1 \in Words /\ i - ws - 1 <= i
      BY <1>1, <2>3 DEF Words
    <3> QED BY <1>2, <3>1
  <2>4. new[i] = IF i < ws THEN {}
                 ELSE IF bs = 0 \/ i = ws THEN ShiftLeft(old[i - ws], bs)
                      ELSE ShiftLeft(old[i - ws], bs)
                           \cup ShiftRight(old[i - ws - 1], WORD_BITS - bs)
    BY <1>1 DEF ShiftWord, Partial
  <2>5. NewWord(map, shift, i) =
                 IF i < ws THEN {}
                 ELSE IF bs = 0 \/ i = ws THEN ShiftLeft(map[i - ws], bs)
                      ELSE ShiftLeft(map[i - ws], bs)
                           \cup ShiftRight(map[i - ws - 1], WORD_BITS - bs)
    BY <1>1 DEF NewWord, ShiftWord, MapType
  <2> HIDE DEF i, old, ws, bs, new
  <2>6. CASE i < ws
    BY <2>4, <2>5, <2>6
  <2>7. CASE ~(i < ws) /\ (bs = 0 \/ i = ws)
    BY <2>2, <2>4, <2>5, <2>7
  <2>8. CASE ~(i < ws) /\ ~(bs = 0 \/ i = ws)
    BY <2>2, <2>3, <2>4, <2>5, <2>8
  <2> QED BY <2>6, <2>7, <2>8
<1>4. new = [old EXCEPT ![i] = new[i]]
  BY <1>1 DEF ShiftWord, Partial
<1>5. ASSUME NEW k \in Words
      PROVE  [old EXCEPT ![i] = NewWord(map, shift, i)][k] = Partial(map, shift, n)[k]
  <2>1. CASE k = i
    BY <1>1, <2>1 DEF Partial, Words
  <2>2. CASE k # i
    <3>1. k >= WINDOW_WORDS - n <=> k >= WINDOW_WORDS - (n - 1)
      BY <1>1, <2>2 DEF Words
    <3> QED BY <1>1, <2>2, <3>1 DEF Partial
  <2> QED BY <2>1, <2>2
<1>6. [old EXCEPT ![i] = NewWord(map, shift, i)] = Partial(map, shift, n)
  BY <1>5 DEF Partial
<1> QED BY <1>3, <1>4, <1>6

\* The whole loop: every word is the new word of the array as it was.
LEMMA LoopRewrites ==
    ASSUME NEW map \in MapType, NEW shift \in Deltas
    PROVE  shift_words(map, shift) = [i \in Words |-> NewWord(map, shift, i)]
<1> DEFINE Pass(g) == [n \in 0 .. WINDOW_WORDS |->
                          IF n = 0 THEN map
                          ELSE ShiftWord(g[n - 1], WINDOW_WORDS - n,
                                         shift \div WORD_BITS, shift % WORD_BITS)]
           after == CHOOSE g : g = Pass(g)
           closed == [n \in 0 .. WINDOW_WORDS |-> Partial(map, shift, n)]
<1>1. WINDOW_WORDS \in Nat /\ WINDOW_WORDS # 0
  BY WordsAssumption
<1>2. shift_words(map, shift) = after[WINDOW_WORDS]
  BY WindowAssumption DEF shift_words, Deltas
<1>3. Partial(map, shift, 0) = map
  BY <1>1 DEF Partial, Words, MapType
<1>4. closed = Pass(closed)
  <2>1. ASSUME NEW n \in 0 .. WINDOW_WORDS PROVE closed[n] = Pass(closed)[n]
    <3>1. CASE n = 0
      BY <1>3, <3>1
    <3>2. CASE n # 0
      <4>1. n \in 1 .. WINDOW_WORDS /\ n - 1 \in 0 .. WINDOW_WORDS
        BY <1>1, <3>2
      <4> QED BY <3>2, <4>1, PassRewrites
    <3> QED BY <3>1, <3>2
  <2> QED BY <2>1
<1>5. after = Pass(after)
  <2> HIDE DEF Pass, closed
  <2> QED BY <1>4
<1> HIDE DEF after
<1>6. after[0] = map
  BY <1>1, <1>5
<1>7. ASSUME NEW n \in 1 .. WINDOW_WORDS
      PROVE  after[n] = ShiftWord(after[n - 1], WINDOW_WORDS - n,
                                  shift \div WORD_BITS, shift % WORD_BITS)
  <2>1. n \in 0 .. WINDOW_WORDS /\ n # 0
    BY <1>1
  <2> QED BY <1>5, <2>1
<1> DEFINE Rewritten == {n \in Nat : n <= WINDOW_WORDS => after[n] = Partial(map, shift, n)}
<1>8. 0 \in Rewritten
  BY <1>3, <1>6
<1>9. ASSUME NEW n \in Nat, n \in Rewritten PROVE n + 1 \in Rewritten
  <2>1. SUFFICES ASSUME n + 1 <= WINDOW_WORDS
                 PROVE  after[n + 1] = Partial(map, shift, n + 1)
    OBVIOUS
  <2>2. n + 1 \in 1 .. WINDOW_WORDS /\ (n + 1) - 1 = n /\ n <= WINDOW_WORDS
    BY <1>1, <2>1
  <2>3. after[n] = Partial(map, shift, n)
    BY <1>9, <2>2
  <2> QED BY <1>7, <2>2, <2>3, PassRewrites
<1>10. Nat \subseteq Rewritten
  <2> HIDE DEF Rewritten
  <2> QED BY <1>8, <1>9, NatSetInduction
<1>11. after[WINDOW_WORDS] = Partial(map, shift, WINDOW_WORDS)
  BY <1>1, <1>10
<1>12. Partial(map, shift, WINDOW_WORDS) = [i \in Words |-> NewWord(map, shift, i)]
  BY <1>1 DEF Partial, Words
<1> QED BY <1>2, <1>11, <1>12

\* shift_window in words is shift_window on positions, carries and early return included.
LEMMA ShiftMarks ==
    ASSUME NEW map \in MapType, NEW shift \in Nat
    PROVE  /\ shift_words(map, shift) \in MapType
           /\ Positions(shift_words(map, shift)) = shift_window(Positions(map), shift)
<1>1. CASE shift >= WINDOW_BITS
  <2>1. shift_words(map, shift) = ZeroMap
    BY <1>1 DEF shift_words
  <2>2. shift_window(Positions(map), shift) = {}
    BY <1>1, WindowAssumption DEF shift_window, Positions, Deltas
  <2> QED BY <2>1, <2>2, ZeroMarks
<1>2. CASE ~(shift >= WINDOW_BITS)
  <2>1. shift \in Deltas
    BY <1>2, WindowAssumption DEF Deltas
  <2>2. shift_words(map, shift) = [i \in Words |-> NewWord(map, shift, i)]
    BY <2>1, LoopRewrites
  <2>3. shift_words(map, shift) \in MapType
    BY <2>2, NewWordType DEF MapType
  <2>4. ASSUME NEW d \in Deltas
        PROVE  d \in Positions(shift_words(map, shift)) <=> d - shift \in Positions(map)
    <3>1. d \div WORD_BITS \in Words
      BY Divides
    <3> QED BY <2>1, <2>2, <2>3, <3>1, NewWordBits, Marks DEF bit_is_set
  <2>5. Positions(shift_words(map, shift)) = shift_window(Positions(map), shift)
    <3>1. Positions(shift_words(map, shift)) \subseteq Deltas
      BY DEF Positions
    <3> QED BY <2>4, <3>1 DEF shift_window
  <2> QED BY <2>3, <2>5
<1> QED BY <1>1, <1>2

------------------------------------------------------------------------------
LEMMA CheckAgrees ==
    ASSUME WordsTypeOK, NEW c \in 0 .. MaxWordCounter
    PROVE  check_words(c) <=> check(AsWindow, c)
<1>1. highest \in Nat /\ c \in Nat
  BY WordsAssumption DEF WordsTypeOK
<1>2. c <= highest /\ highest - c < WINDOW_BITS => highest - c \in Deltas
  BY <1>1, WindowAssumption DEF Deltas
<1>3. highest - c \in Deltas =>
         (bit_is_set(bitmap, highest - c) <=> highest - c \in Positions(bitmap))
  BY Marks DEF WordsTypeOK, MapType
<1> QED BY <1>2, <1>3 DEF check_words, check, AsWindow

LEMMA CommitAgrees ==
    ASSUME WordsTypeOK, NEW c \in 0 .. MaxWordCounter, commit_words(c)
    PROVE  /\ WordsTypeOK'
           /\ check(AsWindow, c)
           /\ AsWindow' = commit(AsWindow, c)
<1>1. /\ highest \in Nat /\ c \in Nat /\ bitmap \in MapType /\ seeded \in BOOLEAN
      /\ WINDOW_BITS \in Nat /\ 0 \in Deltas
  BY WordsAssumption, WindowAssumption DEF WordsTypeOK, MapType, Deltas
<1>2. check(AsWindow, c)
  BY CheckAgrees DEF commit_words
<1>3. /\ seeded' = TRUE
      /\ highest' = IF seeded /\ c <= highest THEN highest ELSE c
      /\ highest' \in 0 .. MaxWordCounter
  BY DEF commit_words, WordsTypeOK
<1>4. SUFFICES /\ bitmap' \in MapType
               /\ AsWindow' = commit(AsWindow, c)
  BY <1>2, <1>3 DEF WordsTypeOK, MapType
<1>5. AsWindow' = [seeded |-> TRUE, highest |-> highest', bitmap |-> Positions(bitmap')]
  BY <1>3 DEF AsWindow, Positions
<1>6. CASE ~seeded
  <2>1. bitmap' = set_bit(ZeroMap, 0)
    BY <1>6 DEF commit_words
  <2>2. bitmap' \in MapType /\ Positions(bitmap') = {0}
    BY <1>1, <2>1, ZeroMarks, SetBitMarks
  <2> QED BY <1>3, <1>5, <1>6, <2>2 DEF commit, AsWindow
<1>7. CASE seeded /\ c > highest
  <2>1. bitmap' = set_bit(shift_words(bitmap, c - highest), 0)
    BY <1>7 DEF commit_words
  <2>2. c - highest \in Nat /\ ~(c <= highest)
    BY <1>1, <1>7
  <2>3. /\ bitmap' \in MapType
        /\ Positions(bitmap') = shift_window(Positions(bitmap), c - highest) \cup {0}
    BY <1>1, <2>1, <2>2, ShiftMarks, SetBitMarks
  <2> QED BY <1>3, <1>5, <1>7, <2>2, <2>3 DEF commit, AsWindow
<1>8. CASE seeded /\ ~(c > highest)
  <2>1. bitmap' = set_bit(bitmap, highest - c)
    BY <1>8 DEF commit_words
  <2>2. c <= highest
    BY <1>1, <1>8
  <2>3. highest - c \in Deltas
    BY <1>1, <1>8 DEF commit_words, check_words, Deltas
  <2>4. /\ bitmap' \in MapType
        /\ Positions(bitmap') = Positions(bitmap) \cup {highest - c}
    BY <1>1, <2>1, <2>3, SetBitMarks
  <2>5. commit(AsWindow, c) =
           [seeded |-> TRUE, highest |-> highest,
            bitmap |-> Positions(bitmap) \cup ({highest - c} \cap Deltas)]
    BY <1>8, <2>2 DEF commit, AsWindow
  <2> QED BY <1>3, <1>5, <1>8, <2>2, <2>3, <2>4, <2>5
<1> QED BY <1>1, <1>6, <1>7, <1>8

LEMMA WordsInduction == WordsSpec => []WordsTypeOK
<1>1. WordsInit => WordsTypeOK
  <2>1. ZeroMap \in [Words -> SUBSET Bits]
    BY ZeroMarks DEF MapType
  <2>2. 0 \in 0 .. MaxWordCounter /\ FALSE \in BOOLEAN
    BY WordsAssumption
  <2> QED BY <2>1, <2>2 DEF WordsInit, WordsTypeOK
<1>2. WordsTypeOK /\ [WordsNext]_wordsVars => WordsTypeOK'
  <2>1. ASSUME WordsTypeOK, NEW c \in 0 .. MaxWordCounter, commit_words(c) PROVE WordsTypeOK'
    BY <2>1, CommitAgrees
  <2>2. ASSUME WordsTypeOK, UNCHANGED wordsVars PROVE WordsTypeOK'
    BY <2>2 DEF wordsVars, WordsTypeOK
  <2> QED BY <2>1, <2>2 DEF WordsNext
<1> QED BY <1>1, <1>2, PTL DEF WordsSpec

(***************************************************************************)
(* The test on the array of words is the test on the set of positions, for *)
(* every size of word and window (ReplayWindow::bit_is_set and check).     *)
(***************************************************************************)
THEOREM WordsCheck == WordsSpec => []CheckMatches
<1>1. WordsTypeOK => CheckMatches
  BY CheckAgrees DEF CheckMatches
<1> QED BY <1>1, WordsInduction, PTL

(***************************************************************************)
(* Every commit on the array of words is the commit on the positions, for  *)
(* every size of word and window and every shift: the loop runs in place,  *)
(* and its carries lose and invent no bit (ReplayWindow::shift_window).    *)
(***************************************************************************)
THEOREM WordsCommit == WordsSpec => CommitMatches
<1>1. ASSUME WordsTypeOK, [WordsNext]_wordsVars
      PROVE  [\E c \in 0 .. MaxWordCounter :
                 /\ check(AsWindow, c)
                 /\ AsWindow' = commit(AsWindow, c)]_wordsVars
  <2>1. CASE UNCHANGED wordsVars
    BY <2>1
  <2>2. ASSUME NEW c \in 0 .. MaxWordCounter, commit_words(c)
        PROVE  check(AsWindow, c) /\ AsWindow' = commit(AsWindow, c)
    BY <1>1, <2>2, CommitAgrees
  <2> QED BY <1>1, <2>1, <2>2 DEF WordsNext
<1> QED BY <1>1, WordsInduction, PTL DEF WordsSpec, CommitMatches
=============================================================================
