------------------------------- MODULE KeySwap -------------------------------
(***************************************************************************)
(* What a mid-session rekey promises: from agreement on a session one peer *)
(* moves to a newer one, and the other follows to the same one.  The peers *)
(* are never more than one rekey apart, and the gap always closes.         *)
(***************************************************************************)
EXTENDS Integers

CONSTANTS Peers, Sessions

VARIABLE current         \* the session each peer sends under

Agreed == \A p, q \in Peers : current[p] = current[q]

Init == current = [p \in Peers |-> 0]

Lead(p, s) ==
    /\ Agreed
    /\ s > current[p]
    /\ current' = [current EXCEPT ![p] = s]

Follow(p) ==
    \E q \in Peers :
        /\ current[p] < current[q]
        /\ current' = [current EXCEPT ![p] = current[q]]

Next == \E p \in Peers : Follow(p) \/ \E s \in Sessions : Lead(p, s)

\* The part that says what may happen, without what must.
Safety == Init /\ [][Next]_current

Spec == Safety /\ WF_current(\E p \in Peers : Follow(p))
=============================================================================
