----------------------------- MODULE MCWireIds -----------------------------
(***************************************************************************)
(* A room id of seven bits, three to a character: the last character has   *)
(* one bit of the id and two that must be zero.                            *)
(***************************************************************************)
EXTENDS WireIds

\* A version in the middle of the second character, a variant in the last.
Stamps == [k \in {4, 5, 7} |-> IF k = 5 THEN 0 ELSE 1]
============================================================================
