----------------------------- MODULE MCHandshake -----------------------------
(***************************************************************************)
(* The settings that InitialHandshake is checked in.                       *)
(***************************************************************************)
EXTENDS InitialHandshake

\* Timers outlast the round trip, a fragment of anything but a Confirm may be lost.
Prompt == [obf |-> TRUE, slow |-> FALSE, loss |-> {"Init", "Challenge", "Response"},
           losses |-> 1, attempts |-> 8, errors |-> 0, windows |-> 1]

\* A fragment of anything may be lost, anything may be late, the server's socket may fail.
Rough == [obf |-> TRUE, slow |-> TRUE, loss |-> {"Init", "Challenge", "Response", "Confirm"},
          losses |-> 1, attempts |-> 2, errors |-> 1, windows |-> 0]

\* Nothing is lost, but an answer may come after a timer, and a resent Init in its wake.
Late == [obf |-> TRUE, slow |-> TRUE, loss |-> {}, losses |-> 0, attempts |-> 3,
         errors |-> 0, windows |-> 0]

\* Without obfuscation, a fragment of an Init may be lost.
Clear == [obf |-> FALSE, slow |-> FALSE, loss |-> {"Init"}, losses |-> 1, attempts |-> 4,
          errors |-> 0, windows |-> 0]

AllSettings == {Prompt, Rough, Late, Clear}
TwoClients  == {1, 2}
=============================================================================
