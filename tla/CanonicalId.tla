---------------------------- MODULE CanonicalId ----------------------------
(***************************************************************************)
(* canonical_u64 (src/src/collider.rs): client ids and epochs arrive as    *)
(* decimal strings, of which exactly one is accepted for every number.     *)
(*                                                                         *)
(* A string is a sequence of digits; Other is any other character.  The    *)
(* limit of the type is a parameter, 2^64 in the code.                     *)
(***************************************************************************)
EXTENDS Integers, Sequences

CONSTANT
  Limit  \* how many numbers the type has

ASSUME LimitAssumption == Limit \in Nat \ {0}

Other == 10
None == -1

\* str::parse of digits, read from the left: the number, unless it overflows.
Number(s) ==
  LET upTo[i \in 0..Len(s)] == IF i = 0 THEN 0 ELSE 10 * upTo[i - 1] + s[i]
  IN  upTo[Len(s)]
Overflows__at_limit(n) == n > Limit
Overflows(n) == n >= Limit
Parse(s) == IF Overflows(Number(s)) THEN None ELSE Number(s)

LeadingZero(s) == s[1] = 0

canonical_u64(s) ==
  IF s = <<0>> THEN 0
  ELSE IF s = <<>> \/ LeadingZero(s) \/ \E i \in DOMAIN s : s[i] = Other THEN None
  ELSE Parse(s)
============================================================================
