------------------------------- MODULE Window -------------------------------
(***************************************************************************)
(* The anti-replay window of a receiving session, struct ReplayWindow of   *)
(* session.rs, as operators on a record                                    *)
(*                                                                         *)
(*   [seeded |-> BOOLEAN, highest |-> Nat, bitmap |-> SUBSET deltas]       *)
(*                                                                         *)
(* The bitmap is the set of positions whose bit is 1; position d stands    *)
(* for the counter highest - d.  How 64-bit words carry those positions is *)
(* the business of WindowWords.                                            *)
(***************************************************************************)
EXTENDS Integers

CONSTANT WINDOW_BITS     \* 2048 in session.rs

ASSUME WindowAssumption == WINDOW_BITS \in Nat \ {0}

Deltas == 0 .. WINDOW_BITS - 1

WindowType == [seeded : BOOLEAN, highest : Nat, bitmap : SUBSET Deltas]

\* ReplayWindow::new
NewWindow == [seeded |-> FALSE, highest |-> 0, bitmap |-> {}]

(***************************************************************************)
(* shift_window: every position moves up by shift, those that leave the    *)
(* window are lost, the new low positions are clear.  The early return for *)
(* shift >= WINDOW_BITS is the case in which none is left.                 *)
(***************************************************************************)
\* Plausible slip: positions that leave the window are kept.
shift_window_Unbounded(bitmap, shift) == {d + shift : d \in bitmap}

\* Plausible slip: the carry lands one position too low.
shift_window_Low(bitmap, shift) == {d \in Deltas : d - shift + 1 \in bitmap}

shift_window(bitmap, shift) == {d \in Deltas : d - shift \in bitmap}

\* Plausible slip: the test against the window's edge is dropped.
check_NoEdge(win, counter) ==
    \/ ~win.seeded
    \/ counter > win.highest
    \/ win.highest - counter \notin win.bitmap

\* check: TRUE for Ok(()), FALSE for Err(DecryptionFailed).
check(win, counter) ==
    \/ ~win.seeded
    \/ counter > win.highest
    \/ /\ counter <= win.highest
       /\ win.highest - counter < WINDOW_BITS
       /\ win.highest - counter \notin win.bitmap

\* commit, run after a successful open and a successful re-check.
commit(win, counter) ==
    IF win.seeded /\ counter <= win.highest
    THEN [win EXCEPT !.bitmap = @ \cup ({win.highest - counter} \cap Deltas)]
    ELSE [seeded  |-> TRUE,
          highest |-> counter,
          bitmap  |-> {0} \cup
              IF win.seeded
              THEN shift_window(win.bitmap, counter - win.highest) ELSE {}]
=============================================================================
