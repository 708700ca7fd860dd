----------------------------- MODULE Generator ------------------------------
(***************************************************************************)
(* generate of generator.js: one character of each chosen group first, the *)
(* other positions from all chosen groups, and a Fisher-Yates shuffle.     *)
(* A character is named by its group, and a random number by what is made  *)
(* of it.  One step is one turn of a loop.                                 *)
(***************************************************************************)
EXTENDS Integers, Sequences, FiniteSets

CONSTANTS
  Shortest,   \* 8 in the code
  Longest     \* 64 in the code

\* No password is too short for one character of each group.
ASSUME LengthAssumption ==
  /\ Shortest \in Nat /\ Longest \in Nat
  /\ 4 <= Shortest /\ Shortest <= Longest

Groups == {"lower", "upper", "numbers", "symbols"}

VARIABLES
  pc,        \* the loop that runs
  groups,    \* the groups the password is to have
  length,    \* clampedLength
  password,  \* position -> group of its character, or "none"
  i,         \* the loop counter: the next position
  ri         \* how many numbers of randBuf have been used

vars == <<pc, groups, length, password, i, ri>>

NoPassword == [p \in 0..(Longest - 1) |-> "none"]

Init ==
  /\ pc = "idle"
  /\ groups = <<"lower">>
  /\ length = Shortest
  /\ password = NoPassword
  /\ i = 0
  /\ ri = 0

Clamp(n) ==
  IF n < Shortest THEN Shortest ELSE IF n > Longest THEN Longest ELSE n

\* The lower-case letters, and the groups that are ticked.
Chosen(uppercase, numbers, symbols) ==
  <<"lower">>
    \o (IF uppercase THEN <<"upper">> ELSE <<>>)
    \o (IF numbers THEN <<"numbers">> ELSE <<>>)
    \o (IF symbols THEN <<"symbols">> ELSE <<>>)

InGroups(g) == \E k \in 1..Len(groups) : groups[k] = g

\* The size of randBuf.
Numbers == length + Len(groups) + 10

\* A character of that group; past the end of randBuf the index is not a
\* number, and there is no character.
Character(g) == IF ri < Numbers THEN g ELSE "none"

Generate(n, uppercase, numbers, symbols) ==
  /\ pc = "idle"
  /\ pc' = "place"
  /\ groups' = Chosen(uppercase, numbers, symbols)
  /\ length' = Clamp(n)
  /\ password' = NoPassword
  /\ i' = 0
  /\ ri' = 0

\* The position i gets a character, and the next number is the next turn's.
Put(g) ==
  /\ password' = [password EXCEPT ![i] = Character(g)]
  /\ i' = i + 1
  /\ ri' = ri + 1

\* Step 1: one character of each group.
Place ==
  /\ pc = "place"
  /\ IF i < Len(groups) /\ i < length
     THEN Put(groups[i + 1]) /\ pc' = pc
     ELSE pc' = "fill" /\ i' = Len(groups) /\ UNCHANGED <<password, ri>>
  /\ UNCHANGED <<groups, length>>

\* Step 2: a character of any group for the next position.
Fill ==
  /\ pc = "fill"
  /\ IF i < length
     THEN (\E g \in Groups : InGroups(g) /\ Put(g)) /\ pc' = pc
     ELSE pc' = "shuffle" /\ i' = length - 1 /\ UNCHANGED <<password, ri>>
  /\ UNCHANGED <<groups, length>>

\* Mutant: any position is picked, as in the naive shuffle.
PickAny(n, k) == 0..(n - 1)

\* The positions, of n, that shuffleBuf[k] % (k + 1) can name.
Pick(n, k) == 0..k

\* Mutant: the second half of the exchange is lost.
SwapHalf(f, k, j) == [f EXCEPT ![k] = f[j]]

Swap(f, k, j) == [f EXCEPT ![k] = f[j], ![j] = f[k]]

\* Step 3: the character at i changes places with one at or before it.
Shuffle ==
  /\ pc = "shuffle"
  /\ IF i > 0
     THEN /\ \E j \in Pick(length, i) : password' = Swap(password, i, j)
          /\ i' = i - 1
          /\ pc' = pc
     ELSE pc' = "done" /\ UNCHANGED <<password, i>>
  /\ UNCHANGED <<groups, length, ri>>

\* password.join('').
Return ==
  /\ pc = "done"
  /\ pc' = "idle"
  /\ UNCHANGED <<groups, length, password, i, ri>>

Next ==
  \/ \E n \in 0..(Longest + 1), uppercase, numbers, symbols \in BOOLEAN :
       Generate(n, uppercase, numbers, symbols)
  \/ Place \/ Fill \/ Shuffle \/ Return

Spec == Init /\ [][Next]_vars

(***************************************************************************)
(* Properties                                                              *)
(***************************************************************************)

\* The types of the local variables.
TypeOK ==
  /\ pc \in {"idle", "place", "fill", "shuffle", "done"}
  /\ groups \in Seq(Groups) /\ Len(groups) \in 1..4
  /\ length \in Shortest..Longest
  /\ password \in [0..(Longest - 1) -> Groups \cup {"none"}]
  /\ i \in 0..length
  /\ ri \in 0..length

\* Every position has a character of a chosen group, and every chosen group
\* has one somewhere, wherever the shuffle has taken it.
EveryGroupOccurs ==
  pc = "done" =>
    /\ \A p \in 0..(length - 1) : InGroups(password[p])
    /\ \A k \in 1..Len(groups) :
         \E p \in 0..(length - 1) : password[p] = groups[k]

\* The order that the choices make of n characters, by the loop of step 3.
Outcome(n, choices) ==
  LET after[k \in 0..(n - 1)] ==
        IF k = n - 1 THEN [p \in 0..(n - 1) |-> p]
        ELSE Swap(after[k + 1], k + 1, choices[k + 1])
  IN after[0]

\* The shuffle makes every order of the characters, each from as many choices
\* as any other: it is as fair as the random numbers are.
ShuffleFair ==
  pc = "place" /\ i = 0 =>
    LET Positions == 0..(length - 1)
        All == {c \in [1..(length - 1) -> Positions] :
                  \A k \in 1..(length - 1) : c[k] \in Pick(length, k)}
        Orders == {f \in [Positions -> Positions] :
                     \A p, q \in Positions : f[p] = f[q] => p = q}
    IN  \E ways \in 1..Cardinality(All) : \A order \in Orders :
          Cardinality({c \in All : Outcome(length, c) = order}) = ways

=============================================================================
