---------------------------- MODULE Reassembler ----------------------------
(***************************************************************************)
(* Reassembler of tunnel.rs: incomplete handshake messages by msg_id.  A   *)
(* message is FRAGS parts long; partials maps each msg_id that has parts   *)
(* to the function from the parts at hand to what they carry.              *)
(***************************************************************************)
EXTENDS Naturals, FiniteSets

CONSTANTS FRAGS,             \* parts of a message
          MAX_PENDING_MSGS   \* 64: incomplete messages kept at once

ASSUME ReassemblerAssumption == {FRAGS, MAX_PENDING_MSGS} \subseteq Nat \ {0}

NoPartials == <<>>

\* The map f with v under x, as HashMap::insert leaves it.
With(f, x, v) == [y \in DOMAIN f \cup {x} |-> IF y = x THEN v ELSE f[y]]

\* The partials without the messages in ids.
Without(partials, ids) == [i \in DOMAIN partials \ ids |-> partials[i]]

(***************************************************************************)
(* push_parts: a repeated part replaces the one at hand, a new msg_id      *)
(* above the cap is ignored, and the message that this part completes is   *)
(* taken out.  out holds that message, or nothing.                         *)
(***************************************************************************)
push_parts(partials, id, part, chunk) ==
    LET old == IF id \in DOMAIN partials THEN partials[id] ELSE <<>>
        new == With(partials, id, With(old, part, chunk))
    IN IF id \notin DOMAIN partials /\ Cardinality(DOMAIN partials) >= MAX_PENDING_MSGS
       THEN [left |-> partials, out |-> {}]
       ELSE IF Cardinality(DOMAIN new[id]) = FRAGS
            THEN [left |-> Without(new, {id}), out |-> {new[id]}]
            ELSE [left |-> new, out |-> {}]
=============================================================================
