----------------------------- MODULE AntiReplay -----------------------------
(***************************************************************************)
(* What a receiving session promises about the counters of the peer's      *)
(* datagrams, with no window and no threads: each counter is delivered at  *)
(* most once, and never when it trails the highest delivered one by        *)
(* WINDOW_BITS or more.                                                    *)
(***************************************************************************)
EXTENDS Integers

CONSTANTS WINDOW_BITS, Counters

VARIABLE delivered       \* the counters whose plaintext was returned

Init == delivered = {}

Deliver(c) ==
    /\ c \notin delivered
    /\ \A d \in delivered : c + WINDOW_BITS > d
    /\ delivered' = delivered \cup {c}

Next == \E c \in Counters : Deliver(c)

Spec == Init /\ [][Next]_delivered
=============================================================================
