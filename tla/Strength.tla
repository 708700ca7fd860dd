------------------------------ MODULE Strength ------------------------------
(***************************************************************************)
(* strength of generator.js: the rating of a password, from what the       *)
(* function tests of it.                                                   *)
(***************************************************************************)
EXTENDS Naturals, FiniteSets

CONSTANT Lengths    \* the lengths that are looked at

ASSUME LengthsAssumption == Lengths \subseteq Nat /\ {0, 20} \subseteq Lengths

\* What can be said of a password: its length, which of the classes
\* upper-case letters, digits and others occur, a character three times in a
\* row, and one of the obvious beginnings (all of at least three characters).
Password ==
  {p \in [length : Lengths, classes : SUBSET {"upper", "digit", "other"},
          repeated : BOOLEAN, obvious : BOOLEAN] :
     /\ Cardinality(p.classes) <= p.length
     /\ p.repeated \/ p.obvious => p.length >= 3}

NoPassword ==
  [length |-> 0, classes |-> {}, repeated |-> FALSE, obvious |-> FALSE]

\* Mutant: the last length that earns a point is 12.
LengthPointsFew(p) == 2 * Cardinality({n \in {8, 12} : p.length >= n})

LengthPoints(p) == Cardinality({n \in {8, 12, 16, 20} : p.length >= n})

Penalty(p) == (IF p.repeated THEN 1 ELSE 0) + (IF p.obvious THEN 2 ELSE 0)

\* Never below zero.
Score(p) ==
  LET points == LengthPoints(p) + Cardinality(p.classes)
  IN IF points < Penalty(p) THEN 0 ELSE points - Penalty(p)

Label(p) ==
  CASE p.length = 0                    -> ""
    [] p.length > 0 /\ Score(p) <= 2   -> "Weak"
    [] p.length > 0 /\ Score(p) \in 3..4 -> "Fair"
    [] p.length > 0 /\ Score(p) = 5    -> "Good"
    [] p.length > 0 /\ Score(p) >= 6   -> "Strong"

=============================================================================
