-------------------------- MODULE MCPatternMatch --------------------------
(* Calls matches(p, s) for every pattern and value of up to three          *)
(* characters over a hex digit, a hex letter, the pattern's 'X' and two    *)
(* characters that are not hex digits.                                     *)
EXTENDS PatternMatch, TLC
=============================================================================
