--------------------------- MODULE PatternMatch ---------------------------
(***************************************************************************)
(* The pattern matcher the end-to-end test uses to compare rendered values *)
(* with their expected forms: matches(p, s) and isHex in                   *)
(* src/ogle/demo/ogler/ogler_test.go.  An 'X' of the pattern stands for    *)
(* one or more hex digits of the value, matched greedily; every other      *)
(* character stands for itself.  Strings are sequences of one-character    *)
(* strings, and the call is a run of the function's two loops: i and j are *)
(* its 0-based positions in p and s, phase says which loop test comes      *)
(* next, and result is the value returned once phase is "done".  Every     *)
(* pattern and value of up to MaxLen characters is a possible call.        *)
(***************************************************************************)
EXTENDS Integers, Sequences

CONSTANTS
    Chars,   \* the alphabet of patterns and values
    MaxLen   \* bound: the longest pattern and value

VARIABLES p, s, i, j, phase, result

vars == <<p, s, i, j, phase, result>>

(* The arguments: every string of at most MaxLen characters of Chars.      *)
Strs == UNION {[1..n -> Chars] : n \in 0..MaxLen}

(* isHex: 0-9, a-f, A-F.                                                   *)
IsHex(c) == c \in {"0", "1", "2", "3", "4", "5", "6", "7", "8", "9",
                   "a", "b", "c", "d", "e", "f", "A", "B", "C", "D", "E", "F"}

(* Faulty variant (mutation): any rest of the value is accepted.           *)
DoneAnywhere(jj) == TRUE

(* return j == len(s), once the pattern is used up.                        *)
Done(jj) == jj = Len(s)

(* j := 0; for i := 0; ...                                                 *)
Init == /\ p \in Strs
        /\ s \in Strs
        /\ i = 0
        /\ j = 0
        /\ phase = "loop"
        /\ result = FALSE

(* A return statement: the call ends with value b.                        *)
Return(b) == /\ phase' = "done"
             /\ result' = b
             /\ UNCHANGED <<p, s, i, j>>

(* The outer loop test fails: the pattern is used up.                      *)
LoopEnd == /\ phase = "loop"
           /\ i = Len(p)
           /\ Return(Done(j))

(* if j == len(s) { return false }                                         *)
ValueEnd == /\ phase = "loop"
            /\ i < Len(p)
            /\ j = Len(s)
            /\ Return(FALSE)

(* c == 'X': the first value character must be hex, then the inner loop.  *)
MatchX == /\ phase = "loop"
          /\ i < Len(p)
          /\ j < Len(s)
          /\ p[i + 1] = "X"
          /\ \/ /\ IsHex(s[j + 1])
                /\ phase' = "hex"
                /\ UNCHANGED <<p, s, i, j, result>>
             \/ /\ ~IsHex(s[j + 1])
                /\ Return(FALSE)

(* for j < len(s) && isHex(s[j]) { j++ }                                   *)
HexStep == /\ phase = "hex"
           /\ j < Len(s)
           /\ IsHex(s[j + 1])
           /\ j' = j + 1
           /\ UNCHANGED <<p, s, i, phase, result>>

(* The inner loop ends; continue goes on with the next pattern character.  *)
HexEnd == /\ phase = "hex"
          /\ ~(j < Len(s) /\ IsHex(s[j + 1]))
          /\ i' = i + 1
          /\ phase' = "loop"
          /\ UNCHANGED <<p, s, j, result>>

(* Any other character must be the value's next one: j++, i++.            *)
MatchChar == /\ phase = "loop"
             /\ i < Len(p)
             /\ j < Len(s)
             /\ p[i + 1] # "X"
             /\ \/ /\ p[i + 1] = s[j + 1]
                   /\ i' = i + 1
                   /\ j' = j + 1
                   /\ UNCHANGED <<p, s, phase, result>>
                \/ /\ p[i + 1] # s[j + 1]
                   /\ Return(FALSE)

Next == LoopEnd \/ ValueEnd \/ MatchX \/ HexStep \/ HexEnd \/ MatchChar

Spec == Init /\ [][Next]_vars

-----------------------------------------------------------------------------
(* The reference.  cut splits the value into one piece per pattern         *)
(* character: piece t is s[cut[t-1]+1 .. cut[t]].  Piece t, from a to b,   *)
(* fits when an 'X' takes a non-empty run of hex digits (not necessarily   *)
(* the longest) and every other character exactly itself.                 *)
Piece(t, a, b) ==
    /\ p[t] = "X" => /\ a < b
                     /\ \A m \in (a + 1)..b : IsHex(s[m])
    /\ p[t] # "X" => /\ b = a + 1
                     /\ s[b] = p[t]

(* The first n pieces of the split fit.                                    *)
Pieces(cut, n) ==
    /\ cut[0] = 0
    /\ \A t \in 1..n : Piece(t, cut[t - 1], cut[t])

(* The pattern describes the value: some split fits and uses it all.       *)
RefMatch ==
    \E cut \in [0..Len(p) -> 0..Len(s)] :
        Pieces(cut, Len(p)) /\ cut[Len(p)] = Len(s)

(* Patterns whose every 'X' is followed by the end or by a character that  *)
(* cannot be a hex digit: for them greedy and any split agree.             *)
GreedySafe ==
    \A t \in 1..(Len(p) - 1) :
        p[t] = "X" => ~IsHex(p[t + 1]) /\ p[t + 1] # "X"

(* When matches returns, it never accepts a value the pattern does not     *)
(* describe, and it accepts every value a greedy-safe pattern describes:   *)
(* all expected forms of the test are greedy-safe ("0xX)", "@0xX ",        *)
(* "0xX ["), so a failed comparison there is a real difference in the      *)
(* rendered value.                                                         *)
MatchesAgreesWithReference ==
    phase = "done" =>
        /\ result => RefMatch
        /\ GreedySafe /\ RefMatch => result
=============================================================================
