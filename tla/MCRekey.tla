------------------------------- MODULE MCRekey -------------------------------
(***************************************************************************)
(* The settings that Rekey is checked in.                                  *)
(***************************************************************************)
EXTENDS Rekey

CONSTANTS A, B

\* One peer rekeys in obfuscated form, fragments of Inits and Responses may be lost, the
\* timers outlast the round trip.
Prompt == [obf |-> TRUE, initiators |-> {A}, loss |-> {"Init", "Response"}, slow |-> FALSE,
           retries |-> 4, rekeys |-> 2, responses |-> 4]

\* One peer rekeys in clear, everything may be lost or be late.
Rough == [obf |-> FALSE, initiators |-> {A}, loss |-> {"Init", "Response", "Confirm"},
          slow |-> TRUE, retries |-> 3, rekeys |-> 1, responses |-> 3]

\* Two rekeys of either peer, with one attempt each.
Crossed == [Rough EXCEPT !.initiators = {A, B}, !.retries = 1, !.rekeys = 2, !.responses = 2]

\* One peer rekeys, nothing is lost, but an answer may come after a timer.
Late == [obf |-> TRUE, initiators |-> {A}, loss |-> {}, slow |-> TRUE, retries |-> 4,
         rekeys |-> 1, responses |-> 4]

Ends     == {A, B}
Looked   == {Prompt, Rough, Crossed}
OnlyLate == {Late}
=============================================================================
