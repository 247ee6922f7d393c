------------------------- MODULE PatternMatchProofs -------------------------
(***************************************************************************)
(* Proof that matches(p, s) of ogler_test.go agrees with the reference     *)
(* RefMatch for every alphabet and every pattern and value, not only the  *)
(* short ones the pattern_match run enumerates.  The inductive invariant   *)
(* follows the two loops: what has been matched so far is a fitting split *)
(* of the prefixes (Sound), and for a greedy-safe pattern the greedy       *)
(* positions stay on a full split of the value whenever one exists         *)
(* (Complete).                                                              *)
(***************************************************************************)
EXTENDS PatternMatch, TLAPS

TypeOK ==
    /\ p \in Seq(Chars)
    /\ s \in Seq(Chars)
    /\ i \in 0..Len(p)
    /\ j \in 0..Len(s)
    /\ phase \in {"loop", "hex", "done"}
    /\ result \in BOOLEAN
    /\ phase = "hex" => i < Len(p) /\ p[i + 1] = "X"

(* The splits of the value with cut points 0..n.                           *)
Cuts(n) == [0..n -> 0..Len(s)]

(* A split of the whole value that fits the whole pattern.                 *)
Full(cut) == Pieces(cut, Len(p)) /\ cut[Len(p)] = Len(s)

(* The first i pattern characters match s[1..j] (in the inner loop: a     *)
(* prefix ending at cut[i], then a run of hex digits up to j, non-empty   *)
(* once the loop test has found the next one missing).                     *)
Sound ==
    /\ phase = "loop" =>
          \E cut \in Cuts(i) : Pieces(cut, i) /\ cut[i] = j
    /\ phase = "hex" =>
          \E cut \in Cuts(i) :
              /\ Pieces(cut, i)
              /\ cut[i] <= j
              /\ \A m \in (cut[i] + 1)..j : IsHex(s[m])
              /\ cut[i] < j \/ (j < Len(s) /\ IsHex(s[j + 1]))
    /\ phase = "done" /\ result => RefMatch

(* For a greedy-safe pattern that describes the value, some full split     *)
(* passes through the loop's positions, and the call returns true.         *)
Complete ==
    GreedySafe /\ RefMatch =>
        /\ phase = "loop" =>
              \E cut \in Cuts(Len(p)) : Full(cut) /\ cut[i] = j
        /\ phase = "hex" =>
              \E cut \in Cuts(Len(p)) : Full(cut) /\ cut[i] <= j /\ j <= cut[i + 1]
        /\ phase = "done" => result

IInv == TypeOK /\ Sound /\ Complete
-----------------------------------------------------------------------------
(* A split with one more cut point, at v.                                  *)
Extend(cut, n, v) == [t \in 0..(n + 1) |-> IF t = n + 1 THEN v ELSE cut[t]]

LEMMA NotHexX == ~IsHex("X")
BY DEF IsHex

(* The piece of a fitting split at a position t it covers.                  *)
LEMMA PieceAt ==
    ASSUME NEW cut, NEW n, Pieces(cut, n), NEW t \in 1..n
    PROVE  Piece(t, cut[t - 1], cut[t])
BY DEF Pieces

(* Every piece is non-empty: the cut points strictly increase.             *)
LEMMA PieceGrows ==
    ASSUME NEW t, NEW a \in Int, NEW b \in Int, Piece(t, a, b)
    PROVE  a < b
BY DEF Piece

(* A fitting split of n pieces and a fitting piece n + 1 make a fitting    *)
(* split of n + 1 pieces.                                                   *)
LEMMA ExtendPieces ==
    ASSUME NEW n \in Nat, NEW cut \in Cuts(n), Pieces(cut, n),
           NEW v \in 0..Len(s), Piece(n + 1, cut[n], v)
    PROVE  /\ Extend(cut, n, v) \in Cuts(n + 1)
           /\ Pieces(Extend(cut, n, v), n + 1)
           /\ Extend(cut, n, v)[n + 1] = v
<1> DEFINE c2 == Extend(cut, n, v)
<1>1. c2 \in Cuts(n + 1) BY DEF Extend, Cuts
<1>2. c2[0] = 0 BY DEF Extend, Pieces
<1>3. ASSUME NEW t \in 1..(n + 1) PROVE Piece(t, c2[t - 1], c2[t])
  <2>1. CASE t = n + 1
    <3>1. c2[t - 1] = cut[n] /\ c2[t] = v BY <2>1 DEF Extend
    <3> QED BY <2>1, <3>1
  <2>2. CASE t # n + 1
    <3>1. c2[t - 1] = cut[t - 1] /\ c2[t] = cut[t] BY <2>2 DEF Extend
    <3>2. Piece(t, cut[t - 1], cut[t]) BY <2>2, PieceAt
    <3> QED BY <3>1, <3>2
  <2> QED BY <2>1, <2>2
<1>4. c2[n + 1] = v BY DEF Extend
<1>5. Pieces(c2, n + 1) BY <1>2, <1>3 DEF Pieces
<1> QED BY <1>1, <1>4, <1>5

-----------------------------------------------------------------------------
LEMMA InitIInv == Init => IInv
<1> SUFFICES ASSUME Init PROVE IInv
  OBVIOUS
<1>1. p \in Seq(Chars) /\ s \in Seq(Chars)
  <2>1. PICK n \in 0..MaxLen : p \in [1..n -> Chars] BY DEF Init, Strs
  <2>2. PICK m \in 0..MaxLen : s \in [1..m -> Chars] BY DEF Init, Strs
  <2> QED BY <2>1, <2>2
<1>2. TypeOK
  <2>1. result \in BOOLEAN BY Zenon DEF Init
  <2> QED BY <1>1, <2>1 DEF Init, TypeOK
<1>3. Sound
  <2> DEFINE c0 == [t \in 0..0 |-> 0]
  <2>1. c0 \in Cuts(i) /\ Pieces(c0, i) /\ c0[i] = j BY <1>1 DEF Init, Cuts, Pieces
  <2> QED BY <2>1 DEF Init, Sound
<1>4. Complete
  <2> SUFFICES ASSUME RefMatch
               PROVE  \E cut \in Cuts(Len(p)) : Full(cut) /\ cut[i] = j
    BY DEF Init, Complete
  <2>1. PICK cut \in Cuts(Len(p)) : Full(cut) BY DEF RefMatch, Cuts, Full
  <2> QED BY <2>1 DEF Init, Full, Pieces
<1> QED BY <1>2, <1>3, <1>4 DEF IInv

(* The arguments never change, so neither does what the reference says.   *)
LEMMA FixedArgs ==
    ASSUME p' = p, s' = s
    PROVE  /\ \A c, n : Pieces(c, n)' = Pieces(c, n)
           /\ \A n : Cuts(n)' = Cuts(n)
           /\ \A c : Full(c)' = Full(c)
           /\ RefMatch' = RefMatch
           /\ GreedySafe' = GreedySafe
BY DEF Pieces, Piece, Cuts, Full, RefMatch, GreedySafe, IsHex

(* The inner loop ends with j at the end of the hex run: the run is the    *)
(* piece of the 'X', and the greedy end is the end of every full split's  *)
(* piece when the pattern is greedy-safe.                                  *)
LEMMA HexEndIInv == IInv /\ HexEnd => IInv'
<1> SUFFICES ASSUME IInv, HexEnd PROVE IInv'
  OBVIOUS
<1>1. p' = p /\ s' = s /\ i' = i + 1 /\ j' = j /\ phase' = "loop" /\ result' = result
  BY DEF HexEnd
<1>2. /\ p \in Seq(Chars) /\ s \in Seq(Chars)
      /\ i \in 0..(Len(p) - 1) /\ j \in 0..Len(s)
      /\ p[i + 1] = "X"
  BY DEF IInv, TypeOK, HexEnd
<1>3. ~(j < Len(s) /\ IsHex(s[j + 1])) BY DEF HexEnd
<1>4. TypeOK' BY <1>1, <1>2 DEF IInv, TypeOK
<1>5. Sound'
  <2>1. PICK cut \in Cuts(i) :
          /\ Pieces(cut, i)
          /\ cut[i] <= j
          /\ \A m \in (cut[i] + 1)..j : IsHex(s[m])
          /\ cut[i] < j \/ (j < Len(s) /\ IsHex(s[j + 1]))
    BY DEF IInv, Sound, HexEnd
  <2>2. cut[i] < j BY <2>1, <1>3
  <2>3. Piece(i + 1, cut[i], j) BY <1>2, <2>1, <2>2 DEF Piece, Cuts
  <2>4. /\ Extend(cut, i, j) \in Cuts(i + 1)
        /\ Pieces(Extend(cut, i, j), i + 1)
        /\ Extend(cut, i, j)[i + 1] = j
    BY <1>2, <2>1, <2>3, ExtendPieces
  <2> QED BY <1>1, <2>4, FixedArgs DEF Sound
<1>6. Complete'
  <2> SUFFICES ASSUME GreedySafe, RefMatch
               PROVE  \E cut \in Cuts(Len(p)) : Full(cut) /\ cut[i + 1] = j
    BY <1>1, FixedArgs DEF Complete
  <2>1. PICK cut \in Cuts(Len(p)) : Full(cut) /\ cut[i] <= j /\ j <= cut[i + 1]
    BY DEF IInv, Complete, HexEnd
  <2>2. Piece(i + 1, cut[i], cut[i + 1]) BY <1>2, <2>1, PieceAt DEF Full
  <2>3. cut[i + 1] \in 0..Len(s) BY <1>2, <2>1 DEF Cuts
  <2>4. ~(j < cut[i + 1])
    <3> SUFFICES ASSUME j < cut[i + 1] PROVE FALSE
      OBVIOUS
    <3>1. \A m \in (cut[i] + 1)..cut[i + 1] : IsHex(s[m]) BY <1>2, <2>2 DEF Piece
    <3>2. j + 1 \in (cut[i] + 1)..cut[i + 1] BY <1>2, <2>1, <2>3 DEF Cuts
    <3>3. IsHex(s[j + 1]) BY <3>1, <3>2
    <3>4. j < Len(s) BY <2>3, <1>2
    <3> QED BY <3>3, <3>4, <1>3
  <2> QED BY <2>1, <2>4, <1>2, <2>3
<1> QED BY <1>4, <1>5, <1>6 DEF IInv

(* One more hex digit of the run: for a greedy-safe pattern it still lies  *)
(* inside the 'X' piece of the full split.                                 *)
LEMMA HexStepIInv == IInv /\ HexStep => IInv'
<1> SUFFICES ASSUME IInv, HexStep PROVE IInv'
  OBVIOUS
<1>1. p' = p /\ s' = s /\ i' = i /\ j' = j + 1 /\ phase' = "hex" /\ result' = result
  BY DEF HexStep
<1>2. /\ p \in Seq(Chars) /\ s \in Seq(Chars)
      /\ i \in 0..(Len(p) - 1) /\ j \in 0..(Len(s) - 1)
      /\ p[i + 1] = "X"
      /\ IsHex(s[j + 1])
  BY DEF IInv, TypeOK, HexStep
<1>4. TypeOK' BY <1>1, <1>2 DEF IInv, TypeOK
<1>5. Sound'
  <2>1. PICK cut \in Cuts(i) :
          /\ Pieces(cut, i)
          /\ cut[i] <= j
          /\ \A m \in (cut[i] + 1)..j : IsHex(s[m])
    BY DEF IInv, Sound, HexStep
  <2>2. /\ cut[i] <= j + 1
        /\ \A m \in (cut[i] + 1)..(j + 1) : IsHex(s[m])
        /\ cut[i] < j + 1
    BY <1>2, <2>1 DEF Cuts
  <2> QED BY <1>1, <2>1, <2>2, FixedArgs DEF Sound
<1>6. Complete'
  <2> SUFFICES ASSUME GreedySafe, RefMatch
               PROVE  \E cut \in Cuts(Len(p)) :
                         Full(cut) /\ cut[i] <= j + 1 /\ j + 1 <= cut[i + 1]
    BY <1>1, FixedArgs DEF Complete
  <2>1. PICK cut \in Cuts(Len(p)) : Full(cut) /\ cut[i] <= j /\ j <= cut[i + 1]
    BY DEF IInv, Complete, HexStep
  <2>2. j # cut[i + 1]
    <3> SUFFICES ASSUME j = cut[i + 1] PROVE FALSE
      OBVIOUS
    <3>1. i + 1 # Len(p) BY <1>2, <2>1 DEF Full
    <3>2. i + 2 \in 1..Len(p) BY <1>2, <3>1
    <3>3. ~IsHex(p[i + 2]) /\ p[i + 2] # "X" BY <1>2, <3>2 DEF GreedySafe
    <3>4. Piece(i + 2, cut[(i + 2) - 1], cut[i + 2]) BY <2>1, <3>2, PieceAt DEF Full
    <3>6. (i + 2) - 1 = i + 1 BY <1>2
    <3>5. s[j + 1] = p[i + 2] BY <3>3, <3>4, <3>6 DEF Piece
    <3> QED BY <1>2, <3>3, <3>5
  <2> QED BY <1>2, <2>1, <2>2 DEF Cuts
<1> QED BY <1>4, <1>5, <1>6 DEF IInv

(* The facts of the outer loop's state every outer step starts from.       *)
LEMMA LoopFacts ==
    ASSUME IInv, phase = "loop"
    PROVE  /\ p \in Seq(Chars) /\ s \in Seq(Chars)
           /\ i \in 0..Len(p) /\ j \in 0..Len(s)
           /\ \E cut \in Cuts(i) : Pieces(cut, i) /\ cut[i] = j
           /\ GreedySafe /\ RefMatch =>
                 \E cut \in Cuts(Len(p)) : Full(cut) /\ cut[i] = j
BY DEF IInv, TypeOK, Sound, Complete

(* A full split past position i: its next piece starts at j.               *)
LEMMA NextPiece ==
    ASSUME IInv, phase = "loop", i < Len(p), GreedySafe, RefMatch
    PROVE  \E cut \in Cuts(Len(p)) :
              /\ Full(cut) /\ cut[i] = j
              /\ cut[i + 1] \in 0..Len(s)
              /\ Piece(i + 1, j, cut[i + 1])
<1>1. PICK cut \in Cuts(Len(p)) : Full(cut) /\ cut[i] = j BY LoopFacts
<1>2. i \in 0..Len(p) BY LoopFacts
<1>3. Piece(i + 1, cut[(i + 1) - 1], cut[i + 1]) BY <1>1, <1>2, PieceAt DEF Full
<1>4. cut[i + 1] \in 0..Len(s) BY <1>1, <1>2 DEF Cuts
<1> QED BY <1>1, <1>2, <1>3, <1>4

(* A call that returns false never had a full split to follow, when the   *)
(* pattern is greedy-safe.                                                  *)
LEMMA ReturnFalseIInv ==
    ASSUME IInv, phase = "loop", Return(FALSE), ~(GreedySafe /\ RefMatch)
    PROVE  IInv'
<1>1. p' = p /\ s' = s /\ i' = i /\ j' = j /\ phase' = "done" /\ result' = FALSE
  BY DEF Return
<1>2. TypeOK' BY <1>1 DEF IInv, TypeOK
<1>3. Sound' BY <1>1 DEF Sound
<1>4. Complete' BY <1>1, FixedArgs DEF Complete
<1> QED BY <1>2, <1>3, <1>4 DEF IInv

(* The pattern is used up: matches returns j == len(s).                    *)
LEMMA LoopEndIInv == IInv /\ LoopEnd => IInv'
<1> SUFFICES ASSUME IInv, LoopEnd PROVE IInv'
  OBVIOUS
<1>1. p' = p /\ s' = s /\ i' = i /\ j' = j /\ phase' = "done"
      /\ result' = (j = Len(s))
  BY DEF LoopEnd, Return, Done
<1>2. i = Len(p) /\ phase = "loop" BY DEF LoopEnd
<1>3. TypeOK'
  <2>1. (j = Len(s)) \in BOOLEAN OBVIOUS
  <2>2. result' \in BOOLEAN BY <1>1, <2>1, Zenon
  <2> QED BY <1>1, <2>2 DEF IInv, TypeOK
<1>4. Sound'
  <2> SUFFICES ASSUME j = Len(s) PROVE RefMatch
    BY <1>1, FixedArgs DEF Sound
  <2>1. PICK cut \in Cuts(i) : Pieces(cut, i) /\ cut[i] = j BY <1>2, LoopFacts
  <2> QED BY <1>2, <2>1 DEF RefMatch, Cuts
<1>5. Complete'
  <2> SUFFICES ASSUME GreedySafe, RefMatch PROVE j = Len(s)
    BY <1>1, FixedArgs DEF Complete
  <2>1. PICK cut \in Cuts(Len(p)) : Full(cut) /\ cut[i] = j BY <1>2, LoopFacts
  <2> QED BY <1>2, <2>1 DEF Full
<1> QED BY <1>3, <1>4, <1>5 DEF IInv

(* if j == len(s) { return false }: no full split has room for the next   *)
(* piece.                                                                   *)
LEMMA ValueEndIInv == IInv /\ ValueEnd => IInv'
<1> SUFFICES ASSUME IInv, ValueEnd PROVE IInv'
  OBVIOUS
<1>1. phase = "loop" /\ i < Len(p) /\ j = Len(s) /\ Return(FALSE) BY DEF ValueEnd
<1>2. ~(GreedySafe /\ RefMatch)
  <2> SUFFICES ASSUME GreedySafe, RefMatch PROVE FALSE
    OBVIOUS
  <2>1. PICK cut \in Cuts(Len(p)) :
          cut[i + 1] \in 0..Len(s) /\ Piece(i + 1, j, cut[i + 1])
    BY <1>1, NextPiece
  <2>2. j < cut[i + 1] BY <1>1, <2>1, LoopFacts, PieceGrows
  <2> QED BY <1>1, <2>1, <2>2
<1> QED BY <1>1, <1>2, ReturnFalseIInv

(* c == 'X': a non-hex value character ends the call, a hex one starts the *)
(* inner loop at the start of the 'X' piece.                               *)
LEMMA MatchXIInv == IInv /\ MatchX => IInv'
<1> SUFFICES ASSUME IInv, MatchX PROVE IInv'
  OBVIOUS
<1>1. /\ phase = "loop" /\ i < Len(p) /\ j < Len(s) /\ p[i + 1] = "X"
      /\ i \in 0..Len(p) /\ j \in 0..Len(s)
  BY LoopFacts DEF MatchX
<1>2. CASE IsHex(s[j + 1]) /\ phase' = "hex" /\ UNCHANGED <<p, s, i, j, result>>
  <2>1. TypeOK' BY <1>1, <1>2 DEF IInv, TypeOK
  <2>2. Sound'
    <3>1. PICK cut \in Cuts(i) : Pieces(cut, i) /\ cut[i] = j BY <1>1, LoopFacts
    <3>2. \A m \in (cut[i] + 1)..j : IsHex(s[m]) BY <3>1, <1>1
    <3> QED BY <1>1, <1>2, <3>1, <3>2, FixedArgs DEF Sound
  <2>3. Complete'
    <3> SUFFICES ASSUME GreedySafe, RefMatch
                 PROVE  \E cut \in Cuts(Len(p)) :
                           Full(cut) /\ cut[i] <= j /\ j <= cut[i + 1]
      BY <1>2, FixedArgs DEF Complete
    <3>1. PICK cut \in Cuts(Len(p)) :
            /\ Full(cut) /\ cut[i] = j
            /\ cut[i + 1] \in 0..Len(s)
            /\ Piece(i + 1, j, cut[i + 1])
      BY <1>1, NextPiece
    <3>2. j < cut[i + 1] BY <1>1, <3>1, PieceGrows
    <3> QED BY <1>1, <3>1, <3>2
  <2> QED BY <2>1, <2>2, <2>3 DEF IInv
<1>3. CASE ~IsHex(s[j + 1]) /\ Return(FALSE)
  <2>1. ~(GreedySafe /\ RefMatch)
    <3> SUFFICES ASSUME GreedySafe, RefMatch PROVE FALSE
      OBVIOUS
    <3>1. PICK cut \in Cuts(Len(p)) :
            cut[i + 1] \in 0..Len(s) /\ Piece(i + 1, j, cut[i + 1])
      BY <1>1, NextPiece
    <3>2. /\ j < cut[i + 1]
          /\ \A m \in (j + 1)..cut[i + 1] : IsHex(s[m])
      BY <1>1, <3>1 DEF Piece
    <3>3. j + 1 \in (j + 1)..cut[i + 1] BY <1>1, <3>1, <3>2
    <3> QED BY <1>3, <3>2, <3>3
  <2> QED BY <1>1, <1>3, <2>1, ReturnFalseIInv
<1> QED BY <1>2, <1>3 DEF MatchX

(* Any other character: matched, both positions advance by one; not       *)
(* matched, no split can fit.                                               *)
LEMMA MatchCharIInv == IInv /\ MatchChar => IInv'
<1> SUFFICES ASSUME IInv, MatchChar PROVE IInv'
  OBVIOUS
<1>1. /\ phase = "loop" /\ i < Len(p) /\ j < Len(s) /\ p[i + 1] # "X"
      /\ i \in 0..Len(p) /\ j \in 0..Len(s)
      /\ p \in Seq(Chars) /\ s \in Seq(Chars)
  BY LoopFacts DEF MatchChar
<1>2. CASE /\ p[i + 1] = s[j + 1]
           /\ i' = i + 1 /\ j' = j + 1
           /\ UNCHANGED <<p, s, phase, result>>
  <2>0. p' = p /\ s' = s /\ i' = i + 1 /\ j' = j + 1 /\ phase' = "loop"
        /\ result' = result
    BY <1>1, <1>2
  <2>1. TypeOK' BY <1>1, <2>0 DEF IInv, TypeOK
  <2>2. Sound'
    <3>1. PICK cut \in Cuts(i) : Pieces(cut, i) /\ cut[i] = j BY <1>1, LoopFacts
    <3>2. Piece(i + 1, cut[i], j + 1) BY <1>1, <1>2, <3>1 DEF Piece
    <3>3. /\ Extend(cut, i, j + 1) \in Cuts(i + 1)
          /\ Pieces(Extend(cut, i, j + 1), i + 1)
          /\ Extend(cut, i, j + 1)[i + 1] = j + 1
      BY <1>1, <3>1, <3>2, ExtendPieces
    <3> QED BY <2>0, <3>3, FixedArgs DEF Sound
  <2>3. Complete'
    <3> SUFFICES ASSUME GreedySafe, RefMatch
                 PROVE  \E cut \in Cuts(Len(p)) : Full(cut) /\ cut[i + 1] = j + 1
      BY <2>0, FixedArgs DEF Complete
    <3>1. PICK cut \in Cuts(Len(p)) :
            /\ Full(cut) /\ cut[i] = j
            /\ cut[i + 1] \in 0..Len(s)
            /\ Piece(i + 1, j, cut[i + 1])
      BY <1>1, NextPiece
    <3> QED BY <1>1, <3>1 DEF Piece
  <2> QED BY <2>1, <2>2, <2>3 DEF IInv
<1>3. CASE p[i + 1] # s[j + 1] /\ Return(FALSE)
  <2>1. ~(GreedySafe /\ RefMatch)
    <3> SUFFICES ASSUME GreedySafe, RefMatch PROVE FALSE
      OBVIOUS
    <3>1. PICK cut \in Cuts(Len(p)) :
            cut[i + 1] \in 0..Len(s) /\ Piece(i + 1, j, cut[i + 1])
      BY <1>1, NextPiece
    <3> QED BY <1>1, <1>3, <3>1 DEF Piece
  <2> QED BY <1>1, <1>3, <2>1, ReturnFalseIInv
<1> QED BY <1>2, <1>3 DEF MatchChar

LEMMA StepIInv == IInv /\ [Next]_vars => IInv'
<1> SUFFICES ASSUME IInv, [Next]_vars PROVE IInv'
  OBVIOUS
<1>1. CASE UNCHANGED vars
  <2>1. p' = p /\ s' = s /\ i' = i /\ j' = j /\ phase' = phase /\ result' = result
    BY <1>1 DEF vars
  <2> QED BY <2>1, FixedArgs DEF IInv, TypeOK, Sound, Complete
<1> QED BY <1>1, LoopEndIInv, ValueEndIInv, MatchXIInv, HexStepIInv, HexEndIInv,
           MatchCharIInv DEF Next

(* For every alphabet and every pattern and value, matches(p, s) accepts  *)
(* only values the pattern describes, and every value a greedy-safe       *)
(* pattern describes.                                                       *)
THEOREM MatchesCorrect == Spec => []MatchesAgreesWithReference
<1>1. IInv => MatchesAgreesWithReference
  BY DEF IInv, Sound, Complete, MatchesAgreesWithReference
<1> QED BY <1>1, InitIInv, StepIInv, PTL DEF Spec

=============================================================================
