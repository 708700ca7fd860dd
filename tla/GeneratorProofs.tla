--------------------------- MODULE GeneratorProofs --------------------------
(***************************************************************************)
(* Proofs about Generator for every pair of length limits.                 *)
(***************************************************************************)
EXTENDS Generator, SequenceTheorems, FiniteSetTheorems, TLAPS

(***************************************************************************)
(* The inductive invariant                                                 *)
(***************************************************************************)

\* In the first two loops as many numbers are used as positions are written.
CounterInv ==
  /\ pc = "place" => ri = i /\ i <= Len(groups)
  /\ pc = "fill" => ri = i /\ i >= Len(groups)
  /\ pc = "shuffle" => i < length

\* What the first two loops have written: the groups, in their order, and
\* then characters of these groups.
WrittenInv ==
  pc \in {"place", "fill"} =>
    /\ \A p \in 0..(i - 1) : InGroups(password[p])
    /\ \A k \in 1..Len(groups) : k <= i => password[k - 1] = groups[k]

\* What is complete stays complete while it is shuffled.
ShuffledInv ==
  pc \in {"shuffle", "done"} =>
    /\ \A p \in 0..(length - 1) : InGroups(password[p])
    /\ \A k \in 1..Len(groups) :
         \E p \in 0..(length - 1) : password[p] = groups[k]

IInv == TypeOK /\ CounterInv /\ WrittenInv /\ ShuffledInv

USE LengthAssumption

(***************************************************************************)
(* Lemmas about the operators                                              *)
(***************************************************************************)

\* A group that is ticked, or nothing.
LEMMA OptionType ==
  ASSUME NEW b \in BOOLEAN, NEW g \in Groups
  PROVE  /\ (IF b THEN <<g>> ELSE <<>>) \in Seq(Groups)
         /\ Len(IF b THEN <<g>> ELSE <<>>) \in 0..1
<1>1. CASE b
  BY <1>1
<1>2. CASE ~b
  BY <1>2
<1>3. QED
  BY <1>1, <1>2

\* Between one and four groups are chosen.
LEMMA ChosenType ==
  ASSUME NEW u \in BOOLEAN, NEW n \in BOOLEAN, NEW s \in BOOLEAN
  PROVE  Chosen(u, n, s) \in Seq(Groups) /\ Len(Chosen(u, n, s)) \in 1..4
<1> DEFINE up == IF u THEN <<"upper">> ELSE <<>>
           nu == IF n THEN <<"numbers">> ELSE <<>>
           sy == IF s THEN <<"symbols">> ELSE <<>>
           lo == <<"lower">>
<1>1. lo \in Seq(Groups) /\ Len(lo) = 1
  BY DEF Groups
<1>2. up \in Seq(Groups) /\ Len(up) \in 0..1
  BY OptionType DEF Groups
<1>3. nu \in Seq(Groups) /\ Len(nu) \in 0..1
  BY OptionType DEF Groups
<1>4. sy \in Seq(Groups) /\ Len(sy) \in 0..1
  BY OptionType DEF Groups
<1> HIDE DEF up, nu, sy, lo
<1>5. lo \o up \in Seq(Groups) /\ Len(lo \o up) = Len(lo) + Len(up)
  BY <1>1, <1>2, ConcatProperties
<1>6. /\ lo \o up \o nu \in Seq(Groups)
      /\ Len(lo \o up \o nu) = Len(lo \o up) + Len(nu)
  BY <1>3, <1>5, ConcatProperties
<1>7. /\ lo \o up \o nu \o sy \in Seq(Groups)
      /\ Len(lo \o up \o nu \o sy) = Len(lo \o up \o nu) + Len(sy)
  BY <1>4, <1>6, ConcatProperties
<1>8. Chosen(u, n, s) = lo \o up \o nu \o sy
  BY DEF Chosen, up, nu, sy, lo
<1>9. QED
  BY <1>1, <1>2, <1>3, <1>4, <1>5, <1>6, <1>7, <1>8

LEMMA ClampType == ASSUME NEW n \in Nat PROVE Clamp(n) \in Shortest..Longest
BY DEF Clamp

\* No number past the end of randBuf is read while positions are written.
LEMMA CharacterIsGroup ==
  ASSUME TypeOK, i < length, ri = i, NEW g PROVE Character(g) = g
BY DEF TypeOK, Character, Numbers

\* An exchange of two positions moves each character to one of them.
LEMMA SwapValues ==
  ASSUME NEW n \in Nat, NEW f, f = [p \in DOMAIN f |-> f[p]],
         0..(n - 1) \subseteq DOMAIN f,
         NEW k \in 0..(n - 1), NEW j \in 0..(n - 1)
  PROVE  /\ DOMAIN Swap(f, k, j) = DOMAIN f
         /\ \A p \in DOMAIN f : Swap(f, k, j)[p] =
              IF p = j THEN f[k] ELSE IF p = k THEN f[j] ELSE f[p]
BY DEF Swap

(***************************************************************************)
(* Each action preserves the invariant                                     *)
(***************************************************************************)

LEMMA InitInv == Init => IInv
<1> SUFFICES ASSUME Init PROVE IInv
  OBVIOUS
<1> USE DEF Init
<1>1. TypeOK
  BY DEF TypeOK, NoPassword, Groups
<1>2. CounterInv /\ WrittenInv /\ ShuffledInv
  BY DEF CounterInv, WrittenInv, ShuffledInv
<1>3. QED
  BY <1>1, <1>2 DEF IInv

LEMMA GenerateInv ==
  ASSUME IInv, NEW n \in Nat, NEW u \in BOOLEAN, NEW m \in BOOLEAN,
         NEW s \in BOOLEAN, Generate(n, u, m, s)
  PROVE  IInv'
<1> USE DEF IInv, Generate
<1>1. TypeOK'
  <2>1. groups' \in Seq(Groups) /\ Len(groups') \in 1..4
    BY ChosenType
  <2>2. length' \in Shortest..Longest
    BY ClampType
  <2>3. password' \in [0..(Longest - 1) -> Groups \cup {"none"}]
    BY DEF NoPassword
  <2>4. QED
    BY <2>1, <2>2, <2>3 DEF TypeOK
<1>2. CounterInv' /\ WrittenInv' /\ ShuffledInv'
  BY <1>1 DEF CounterInv, WrittenInv, ShuffledInv, TypeOK
<1>3. QED
  BY <1>1, <1>2

LEMMA PlaceInv == ASSUME IInv, Place PROVE IInv'
<1> USE DEF IInv, Place
<1>1. CASE i < Len(groups) /\ i < length
  <2>1. groups[i + 1] \in Groups
    BY <1>1 DEF TypeOK
  <2>2. password' = [password EXCEPT ![i] = groups[i + 1]] /\ i' = i + 1
        /\ ri' = ri + 1 /\ pc' = "place" /\ UNCHANGED <<groups, length>>
    BY <1>1, CharacterIsGroup DEF Put, CounterInv
  <2>3. TypeOK'
    BY <1>1, <2>1, <2>2 DEF TypeOK, CounterInv
  <2>4. CounterInv'
    BY <1>1, <2>2 DEF CounterInv, TypeOK
  <2>5. WrittenInv' /\ ShuffledInv'
    <3>1. \A p \in 0..i : password'[p] =
            IF p = i THEN groups[i + 1] ELSE password[p]
      BY <1>1, <2>2 DEF TypeOK
    <3>2. \A p \in 0..i : InGroups(password'[p])
      BY <1>1, <3>1 DEF WrittenInv, InGroups, TypeOK
    <3>3. \A k \in 1..Len(groups) :
            k <= i + 1 => password'[k - 1] = groups[k]
      BY <1>1, <3>1 DEF WrittenInv, TypeOK
    <3>4. QED
      BY <2>2, <3>2, <3>3 DEF WrittenInv, ShuffledInv, InGroups, TypeOK
  <2>6. QED
    BY <2>3, <2>4, <2>5
<1>2. CASE ~(i < Len(groups) /\ i < length)
  <2>1. i = Len(groups)
    BY <1>2 DEF CounterInv, TypeOK
  <2>2. TypeOK' /\ CounterInv'
    BY <1>2, <2>1 DEF TypeOK, CounterInv
  <2>3. WrittenInv' /\ ShuffledInv'
    BY <1>2, <2>1 DEF WrittenInv, ShuffledInv, InGroups
  <2>4. QED
    BY <2>2, <2>3
<1>3. QED
  BY <1>1, <1>2

LEMMA FillInv == ASSUME IInv, Fill PROVE IInv'
<1> USE DEF IInv, Fill
<1>1. CASE i < length
  <2>1. PICK g \in Groups : InGroups(g) /\ Put(g)
    BY <1>1
  <2>2. password' = [password EXCEPT ![i] = g] /\ i' = i + 1
        /\ ri' = ri + 1 /\ pc' = "fill" /\ UNCHANGED <<groups, length>>
    BY <1>1, <2>1, CharacterIsGroup DEF Put, CounterInv
  <2>3. TypeOK' /\ CounterInv'
    BY <1>1, <2>2 DEF TypeOK, CounterInv
  <2>4. WrittenInv' /\ ShuffledInv'
    <3>1. \A p \in 0..i : password'[p] = IF p = i THEN g ELSE password[p]
      BY <1>1, <2>2 DEF TypeOK
    <3>2. \A p \in 0..i : InGroups(password'[p])
      BY <1>1, <2>1, <3>1 DEF WrittenInv, TypeOK
    <3>3. \A k \in 1..Len(groups) : password'[k - 1] = groups[k]
      BY <1>1, <3>1 DEF WrittenInv, CounterInv, TypeOK
    <3>4. QED
      BY <2>2, <3>2, <3>3 DEF WrittenInv, ShuffledInv, InGroups, TypeOK
  <2>5. QED
    BY <2>3, <2>4
<1>2. CASE ~(i < length)
  <2>1. i = length
    BY <1>2 DEF TypeOK
  <2>2. TypeOK' /\ CounterInv'
    BY <1>2, <2>1 DEF TypeOK, CounterInv
  <2>3. WrittenInv'
    BY <1>2 DEF WrittenInv
  <2>4. ShuffledInv'
    <3>1. \A k \in 1..Len(groups) :
            k - 1 \in 0..(length - 1) /\ password[k - 1] = groups[k]
      BY <1>2, <2>1 DEF WrittenInv, CounterInv, TypeOK
    <3>2. QED
      BY <1>2, <2>1, <3>1 DEF WrittenInv, ShuffledInv, InGroups
  <2>5. QED
    BY <2>2, <2>3, <2>4
<1>3. QED
  BY <1>1, <1>2

LEMMA ShuffleInv == ASSUME IInv, Shuffle PROVE IInv'
<1> USE DEF IInv, Shuffle
<1>1. CASE i > 0
  <2>1. PICK j \in 0..i : password' = Swap(password, i, j)
    BY <1>1 DEF Pick
  <2>2. i \in 0..(length - 1) /\ j \in 0..(length - 1)
        /\ 0..(length - 1) \subseteq 0..(Longest - 1)
    BY <1>1 DEF CounterInv, TypeOK
  <2>3. /\ DOMAIN password' = DOMAIN password
        /\ \A p \in 0..(Longest - 1) : password'[p] =
             IF p = j THEN password[i]
             ELSE IF p = i THEN password[j] ELSE password[p]
    BY <2>1, <2>2, SwapValues DEF TypeOK
  <2>4. password' \in [0..(Longest - 1) -> Groups \cup {"none"}]
    BY <2>1, <2>2 DEF TypeOK, Swap
  <2>5. TypeOK' /\ CounterInv' /\ WrittenInv'
    BY <1>1, <2>4 DEF TypeOK, CounterInv, WrittenInv
  <2>6. ShuffledInv'
    <3>1. \A p \in 0..(length - 1) : InGroups(password'[p])
      BY <2>2, <2>3 DEF ShuffledInv
    <3>2. ASSUME NEW k \in 1..Len(groups)
          PROVE  \E p \in 0..(length - 1) : password'[p] = groups[k]
      <4>1. PICK p \in 0..(length - 1) : password[p] = groups[k]
        BY DEF ShuffledInv
      <4>2. CASE p = i
        BY <2>2, <2>3, <4>1, <4>2
      <4>3. CASE p = j
        BY <2>2, <2>3, <4>1, <4>3
      <4>4. CASE p # i /\ p # j
        BY <2>2, <2>3, <4>1, <4>4
      <4>5. QED
        BY <4>2, <4>3, <4>4
    <3>3. QED
      BY <3>1, <3>2 DEF ShuffledInv, InGroups
  <2>7. QED
    BY <2>5, <2>6
<1>2. CASE ~(i > 0)
  BY <1>2 DEF TypeOK, CounterInv, WrittenInv, ShuffledInv, InGroups
<1>3. QED
  BY <1>1, <1>2

\* Every step preserves the invariant.
LEMMA NextInv == IInv /\ [Next]_vars => IInv'
<1> SUFFICES ASSUME IInv, [Next]_vars PROVE IInv'
  OBVIOUS
<1>1. ASSUME NEW n \in 0..(Longest + 1), NEW u \in BOOLEAN, NEW m \in BOOLEAN,
             NEW s \in BOOLEAN, Generate(n, u, m, s)
      PROVE  IInv'
  BY <1>1, GenerateInv
<1>2. CASE Place \/ Fill \/ Shuffle
  BY <1>2, PlaceInv, FillInv, ShuffleInv
<1>3. CASE Return
  BY <1>3 DEF Return, IInv, TypeOK, CounterInv, WrittenInv, ShuffledInv
<1>4. CASE UNCHANGED vars
  BY <1>4 DEF vars, IInv, TypeOK, CounterInv, WrittenInv, ShuffledInv, InGroups
<1>5. QED
  BY <1>1, <1>2, <1>3, <1>4 DEF Next

(***************************************************************************)
(* Theorems                                                                *)
(***************************************************************************)

\* The loops have written what they are to write, in every reachable state.
THEOREM InductiveInvariant == Spec => []IInv
<1>1. QED
  BY InitInv, NextInv, PTL DEF Spec

\* The local variables of generate keep their types.
THEOREM TypeCorrect == Spec => []TypeOK
<1>1. IInv => TypeOK
  BY DEF IInv
<1>2. QED
  BY <1>1, InductiveInvariant, PTL

\* A generated password has a character of every chosen group and none of
\* any other, for every length.
THEOREM GroupsOccur == Spec => []EveryGroupOccurs
<1>1. IInv => EveryGroupOccurs
  BY DEF IInv, ShuffledInv, EveryGroupOccurs
<1>2. QED
  BY <1>1, InductiveInvariant, PTL

(***************************************************************************)
(* The shuffle                                                             *)
(***************************************************************************)

\* Every set of naturals has a least element.
LEMMA LeastNatural ==
  ASSUME NEW T \in SUBSET Nat, T # {}
  PROVE  \E m \in T : \A k \in T : m <= k
<1>1. PICK m \in T : \A k \in T : ~ (<<k, m>> \in OpToRel(<, Nat))
  BY NatLessThanWellFounded, WFMin
<1>2. \A k \in T : ~ (k < m)
  BY <1>1 DEF OpToRel
<1> QED BY <1>2

\* Induction over the turns of the loop, which counts down, and against it.
LEMMA Downwards ==
  ASSUME NEW N \in Nat, NEW T, N \in T,
         \A m \in 1..N : m \in T => m - 1 \in T
  PROVE  \A m \in 0..N : m \in T
<1> SUFFICES ASSUME NEW m \in 0..N, m \notin T PROVE FALSE
  OBVIOUS
<1> DEFINE Missing == {d \in 0..N : N - d \notin T}
<1>1. N - m \in Missing
  OBVIOUS
<1>2. PICK d \in Missing : \A k \in Missing : d <= k
  <2>1. Missing \in SUBSET Nat /\ Missing # {}
    BY <1>1
  <2> HIDE DEF Missing
  <2> QED BY <2>1, LeastNatural
<1>3. d \in 1..N /\ d - 1 \notin Missing
  BY <1>2
<1>4. N - d + 1 \in T /\ N - d + 1 \in 1..N
  BY <1>3
<1>5. N - d \in T
  BY <1>3, <1>4
<1> QED BY <1>2, <1>5

LEMMA Upwards ==
  ASSUME NEW N \in Nat, NEW T, 0 \in T,
         \A m \in 0..(N - 1) : m \in T => m + 1 \in T
  PROVE  \A m \in 0..N : m \in T
<1> SUFFICES ASSUME NEW m \in 0..N, m \notin T PROVE FALSE
  OBVIOUS
<1> DEFINE Missing == {d \in 0..N : d \notin T}
<1>1. m \in Missing
  OBVIOUS
<1>2. PICK d \in Missing : \A k \in Missing : d <= k
  <2>1. Missing \in SUBSET Nat /\ Missing # {}
    BY <1>1
  <2> HIDE DEF Missing
  <2> QED BY <2>1, LeastNatural
<1>3. d \in 1..N /\ d - 1 \notin Missing
  BY <1>2
<1>4. d - 1 \in T /\ d - 1 \in 0..(N - 1)
  BY <1>3
<1>5. d \in T
  BY <1>3, <1>4
<1> QED BY <1>2, <1>5

\* The positions of n characters, the choices the loop can make, and the
\* orders there are.
Positions(n) == 0..(n - 1)

Choices(n) == {c \in [1..(n - 1) -> Positions(n)] :
                 \A k \in 1..(n - 1) : c[k] \in Pick(n, k)}

Orders(n) == {f \in [Positions(n) -> Positions(n)] :
                \A p, q \in Positions(n) : f[p] = f[q] => p = q}

\* The order of the characters before each turn of the loop, and after the
\* last.
Trace(n, c) == {after \in [Positions(n) -> [Positions(n) -> Positions(n)]] :
  /\ after[n - 1] = [p \in Positions(n) |-> p]
  /\ \A k \in 1..(n - 1) : after[k - 1] = Swap(after[k], k, c[k])}

\* An exchange of two positions leaves the others as they are.
LEMMA SwapPositions ==
  ASSUME NEW n \in Nat, NEW f \in [Positions(n) -> Positions(n)],
         NEW k \in Positions(n), NEW j \in Positions(n)
  PROVE  /\ Swap(f, k, j) \in [Positions(n) -> Positions(n)]
         /\ Swap(f, k, j)[k] = f[j]
         /\ Swap(f, k, j)[j] = f[k]
         /\ \A p \in Positions(n) : p # k /\ p # j => Swap(f, k, j)[p] = f[p]
BY DEF Swap

\* The choice of a turn is a position at or before the turn's own.
LEMMA ChoiceType ==
  ASSUME NEW n \in Nat, NEW c \in Choices(n), NEW k \in 1..(n - 1)
  PROVE  /\ c[k] \in 0..k /\ c[k] \in Positions(n)
         /\ k \in Positions(n) /\ k - 1 \in Positions(n)
BY DEF Choices, Pick, Positions

\* All choices have a trace.
LEMMA TraceExists ==
  ASSUME NEW n \in Nat \ {0}, NEW c \in Choices(n) PROVE Trace(n, c) # {}
<1> DEFINE P == Positions(n)
           Part(m, a) ==
             /\ a \in [m..(n - 1) -> [P -> P]]
             /\ a[n - 1] = [p \in P |-> p]
             /\ \A k \in (m + 1)..(n - 1) : a[k - 1] = Swap(a[k], k, c[k])
           T == {m \in P : \E a \in [m..(n - 1) -> [P -> P]] : Part(m, a)}
<1>1. n - 1 \in T
  <2>1. Part(n - 1, [k \in (n - 1)..(n - 1) |-> [p \in P |-> p]])
    OBVIOUS
  <2>2. n - 1 \in P
    BY DEF Positions
  <2> QED BY <2>1, <2>2
<1>2. ASSUME NEW m \in 1..(n - 1), m \in T PROVE m - 1 \in T
  <2>1. PICK a \in [m..(n - 1) -> [P -> P]] : Part(m, a)
    BY <1>2
  <2>2. a[m] \in [P -> P] /\ m \in P /\ m - 1 \in P /\ c[m] \in P
    BY <2>1, ChoiceType
  <2>3. Swap(a[m], m, c[m]) \in [P -> P]
    BY <2>2, SwapPositions
  <2> DEFINE b == [k \in (m - 1)..(n - 1) |->
                     IF k = m - 1 THEN Swap(a[m], m, c[m]) ELSE a[k]]
  <2>4. b \in [(m - 1)..(n - 1) -> [P -> P]]
    BY <2>1, <2>3
  <2>5. b[n - 1] = a[n - 1] /\ \A k \in m..(n - 1) : b[k] = a[k]
    OBVIOUS
  <2>6. ASSUME NEW k \in m..(n - 1)
        PROVE  b[k - 1] = Swap(b[k], k, c[k])
    <3>1. CASE k = m
      BY <2>5, <3>1
    <3>2. CASE k # m
      <4>1. k \in (m + 1)..(n - 1) /\ k - 1 \in m..(n - 1)
        BY <3>2
      <4>2. a[k - 1] = Swap(a[k], k, c[k])
        BY <2>1, <4>1
      <4>3. b[k - 1] = a[k - 1] /\ b[k] = a[k]
        BY <2>5, <4>1
      <4> QED BY <4>2, <4>3
    <3> QED BY <3>1, <3>2
  <2>7. Part(m - 1, b)
    BY <2>1, <2>4, <2>5, <2>6
  <2> HIDE DEF b
  <2> QED BY <2>2, <2>4, <2>7
<1>3. 0 \in T
  <2> HIDE DEF T
  <2> QED BY <1>1, <1>2, Downwards
<1>4. PICK a \in [0..(n - 1) -> [P -> P]] : Part(0, a)
  BY <1>3
<1>5. P = 0..(n - 1)
  BY DEF Positions
<1>6. a[n - 1] = [p \in P |-> p]
  BY <1>4
<1>7. \A k \in 1..(n - 1) : a[k - 1] = Swap(a[k], k, c[k])
  <2>1. 1 = 0 + 1
    OBVIOUS
  <2> QED BY <1>4, <2>1
<1> QED BY <1>4, <1>5, <1>6, <1>7 DEF Trace

\* What the model's Outcome computes is the end of such a trace.
LEMMA OutcomeOfTrace ==
  ASSUME NEW n \in Nat \ {0}, NEW c \in Choices(n)
  PROVE  \E after \in Trace(n, c) : Outcome(n, c) = after[0]
<1> DEFINE P == Positions(n)
           Turns(f) == [k \in 0..(n - 1) |->
                          IF k = n - 1 THEN [p \in 0..(n - 1) |-> p]
                          ELSE Swap(f[k + 1], k + 1, c[k + 1])]
           after == CHOOSE f : f = Turns(f)
<1>1. PICK a \in Trace(n, c) : TRUE
  BY TraceExists
<1>2. a = Turns(a)
  <2>1. a \in [P -> [P -> P]] /\ a[n - 1] = [p \in P |-> p]
        /\ \A k \in 1..(n - 1) : a[k - 1] = Swap(a[k], k, c[k])
    BY DEF Trace
  <2>2. ASSUME NEW k \in 0..(n - 1), k # n - 1
        PROVE  a[k] = Swap(a[k + 1], k + 1, c[k + 1])
    <3>1. k + 1 \in 1..(n - 1) /\ (k + 1) - 1 = k
      BY <2>2
    <3> QED BY <2>1, <3>1
  <2> QED BY <2>1, <2>2 DEF Positions
<1>3. after = Turns(after)
  BY <1>2
<1>4. Outcome(n, c) = after[0]
  BY DEF Outcome
<1> HIDE DEF after
<1>5. \A k \in 1..(n - 1) : after[k - 1] = Swap(after[k], k, c[k])
  <2> SUFFICES ASSUME NEW k \in 1..(n - 1)
               PROVE  after[k - 1] = Swap(after[k], k, c[k])
    OBVIOUS
  <2>1. k - 1 \in 0..(n - 1) /\ k - 1 # n - 1 /\ (k - 1) + 1 = k
    OBVIOUS
  <2> QED BY <1>3, <2>1
<1>6. after[n - 1] = [p \in P |-> p]
  BY <1>3 DEF Positions
<1>7. \A k \in 0..(n - 1) : after[k] \in [P -> P]
  <2> DEFINE T == {k \in 0..(n - 1) : after[k] \in [P -> P]}
  <2>1. n - 1 \in T
    BY <1>6
  <2>2. ASSUME NEW m \in 1..(n - 1), m \in T PROVE m - 1 \in T
    BY <1>5, <2>2, ChoiceType, SwapPositions
  <2> HIDE DEF T
  <2>3. \A m \in 0..(n - 1) : m \in T
    BY <2>1, <2>2, Downwards
  <2> QED BY <2>3 DEF T
<1>8. after \in [P -> [P -> P]]
  <2>1. after = [k \in 0..(n - 1) |-> after[k]]
    BY <1>3
  <2> QED BY <1>7, <2>1 DEF Positions
<1> QED BY <1>4, <1>5, <1>6, <1>8 DEF Trace

\* No turn of the loop loses or doubles a character.
LEMMA TracePermutes ==
  ASSUME NEW n \in Nat \ {0}, NEW c \in Choices(n), NEW a \in Trace(n, c)
  PROVE  \A k \in Positions(n) :
           /\ a[k] \in Orders(n)
           /\ \A q \in Positions(n) : \E p \in Positions(n) : a[k][p] = q
<1> DEFINE P == Positions(n)
           Onto(f) == \A q \in P : \E p \in P : f[p] = q
           T == {k \in 0..(n - 1) : a[k] \in Orders(n) /\ Onto(a[k])}
<1>1. n - 1 \in T
  <2>1. a[n - 1] = [p \in P |-> p]
    BY DEF Trace
  <2> QED BY <2>1 DEF Orders
<1>2. ASSUME NEW m \in 1..(n - 1), m \in T PROVE m - 1 \in T
  <2>1. PICK f \in [P -> P] : f = a[m]
    BY <1>2 DEF Orders
  <2>2. PICK g : g = a[m - 1]
    OBVIOUS
  <2>3. PICK j \in P : j = c[m]
    BY ChoiceType
  <2>4. m \in P
    BY ChoiceType
  <2>5. /\ g \in [P -> P] /\ g[m] = f[j] /\ g[j] = f[m]
        /\ \A p \in P : p # m /\ p # j => g[p] = f[p]
    <3>1. g = Swap(f, m, j)
      BY <2>1, <2>2, <2>3 DEF Trace
    <3> QED BY <2>3, <2>4, <3>1, SwapPositions
  <2>6. (\A p, q \in P : f[p] = f[q] => p = q) /\ Onto(f)
    BY <1>2, <2>1 DEF Orders
  <2>7. \A p, q \in P : g[p] = g[q] => p = q
    BY <2>3, <2>4, <2>5, <2>6
  <2>8. Onto(g)
    <3> SUFFICES ASSUME NEW q \in P PROVE \E p \in P : g[p] = q
      OBVIOUS
    <3>1. PICK p \in P : f[p] = q
      BY <2>6
    <3>2. CASE p = m
      BY <2>3, <2>5, <3>1, <3>2
    <3>3. CASE p = j
      BY <2>4, <2>5, <3>1, <3>3
    <3> QED BY <2>5, <3>1, <3>2, <3>3
  <2> QED BY <2>2, <2>5, <2>7, <2>8 DEF Orders
<1> HIDE DEF T
<1>3. \A m \in 0..(n - 1) : m \in T
  BY <1>1, <1>2, Downwards
<1> QED BY <1>3 DEF T, Positions

\* What a turn puts behind it stays there.
LEMMA TraceSettles ==
  ASSUME NEW n \in Nat \ {0}, NEW c \in Choices(n), NEW a \in Trace(n, c)
  PROVE  \A k, p \in Positions(n) : p > k => a[0][p] = a[k][p]
<1> DEFINE P == Positions(n)
           T == {k \in 0..(n - 1) : \A p \in P : p > k => a[0][p] = a[k][p]}
<1>1. 0 \in T
  OBVIOUS
<1>2. ASSUME NEW m \in 0..(n - 2), m \in T PROVE m + 1 \in T
  <2>1. m + 1 \in 1..(n - 1) /\ (m + 1) - 1 = m
    OBVIOUS
  <2>2. a[m + 1] \in [P -> P] /\ m + 1 \in P /\ c[m + 1] \in P
        /\ c[m + 1] \in 0..(m + 1)
    BY <2>1, ChoiceType DEF Trace
  <2>3. a[m] = Swap(a[m + 1], m + 1, c[m + 1])
    BY <2>1 DEF Trace
  <2>4. ASSUME NEW p \in P, p > m + 1 PROVE a[0][p] = a[m + 1][p]
    <3>1. p \in Int /\ p # m + 1 /\ p # c[m + 1] /\ p > m
      BY <2>2, <2>4 DEF Positions
    <3>2. a[m][p] = a[m + 1][p]
      BY <2>2, <2>3, <3>1, SwapPositions
    <3> QED BY <1>2, <3>1, <3>2
  <2> QED BY <2>1, <2>4
<1> HIDE DEF T
<1>3. \A m \in 0..(n - 1) : m \in T
  BY <1>1, <1>2, Upwards
<1> QED BY <1>3 DEF T, Positions

\* Choices that agree from a turn on make the same order before that turn.
LEMMA TraceAgrees ==
  ASSUME NEW n \in Nat \ {0}, NEW c \in Choices(n), NEW d \in Choices(n),
         NEW a \in Trace(n, c), NEW b \in Trace(n, d),
         NEW m \in Positions(n),
         \A k \in 1..(n - 1) : k > m => c[k] = d[k]
  PROVE  a[m] = b[m]
<1> DEFINE T == {k \in 0..(n - 1) : k >= m => a[k] = b[k]}
<1>0. m \in 0..(n - 1)
  BY DEF Positions
<1>1. n - 1 \in T
  BY DEF Trace
<1>2. ASSUME NEW k \in 1..(n - 1), k \in T PROVE k - 1 \in T
  <2>1. a[k - 1] = Swap(a[k], k, c[k]) /\ b[k - 1] = Swap(b[k], k, d[k])
    BY DEF Trace
  <2>2. k - 1 >= m => a[k] = b[k] /\ c[k] = d[k]
    BY <1>0, <1>2
  <2>3. k - 1 >= m => a[k - 1] = b[k - 1]
    BY <2>1, <2>2
  <2> QED BY <2>3
<1> HIDE DEF T
<1>3. \A k \in 0..(n - 1) : k \in T
  BY <1>1, <1>2, Downwards
<1> QED BY <1>0, <1>3 DEF T

\* Different choices make different orders.
LEMMA OneWay ==
  ASSUME NEW n \in Nat \ {0}, NEW c \in Choices(n), NEW d \in Choices(n),
         NEW a \in Trace(n, c), NEW b \in Trace(n, d), a[0] = b[0]
  PROVE  c = d
<1> DEFINE P == Positions(n)
           T == {k \in 0..(n - 1) :
                   \A l \in 1..(n - 1) : l > k => c[l] = d[l]}
<1>1. n - 1 \in T
  OBVIOUS
<1>2. ASSUME NEW m \in 1..(n - 1), m \in T PROVE m - 1 \in T
  <2>1. m \in P /\ m - 1 \in P /\ c[m] \in P /\ d[m] \in P
    BY ChoiceType
  <2>2. PICK f : f = a[m]
    OBVIOUS
  <2>3. f = b[m]
    BY <1>2, <2>1, <2>2, TraceAgrees
  <2>4. f \in [P -> P] /\ \A p, q \in P : f[p] = f[q] => p = q
    <3>1. f \in Orders(n)
      BY <2>1, <2>2, TracePermutes
    <3> QED BY <3>1 DEF Orders
  <2>5. a[m - 1][m] = f[c[m]] /\ b[m - 1][m] = f[d[m]]
    <3>1. a[m - 1] = Swap(f, m, c[m]) /\ b[m - 1] = Swap(f, m, d[m])
      BY <2>2, <2>3 DEF Trace
    <3>2. \A j \in P : Swap(f, m, j)[m] = f[j]
      BY <2>1, <2>4, SwapPositions
    <3> QED BY <2>1, <3>1, <3>2
  <2>6. a[0][m] = a[m - 1][m] /\ b[0][m] = b[m - 1][m]
    <3>1. m > m - 1
      OBVIOUS
    <3> QED BY <2>1, <3>1, TraceSettles
  <2>7. c[m] = d[m]
    BY <2>1, <2>4, <2>5, <2>6
  <2> QED BY <1>2, <2>7
<1> HIDE DEF T
<1>3. 0 \in T
  BY <1>1, <1>2, Downwards
<1>4. \A l \in 1..(n - 1) : c[l] = d[l]
  BY <1>3 DEF T
<1> QED BY <1>4 DEF Choices

\* Some choices are made: each turn may leave its character alone.
LEMMA SomeChoices ==
  ASSUME NEW n \in Nat \ {0} PROVE Choices(n) # {}
<1>1. [k \in 1..(n - 1) |-> k] \in Choices(n)
  BY DEF Choices, Positions, Pick
<1> QED BY <1>1

\* Every order is made: each turn can pick the character that belongs there,
\* since it is not behind the turns that are over.
LEMMA SomeWay ==
  ASSUME NEW n \in Nat \ {0}, NEW order \in Orders(n)
  PROVE  \E c \in Choices(n) : \E a \in Trace(n, c) : a[0] = order
<1> DEFINE P == Positions(n)
           Right(m, a) == \A p \in P : p > m => a[m][p] = order[p]
           T == {m \in 0..(n - 1) :
                   \E c \in Choices(n) : \E a \in Trace(n, c) : Right(m, a)}
<1>0. /\ order \in [P -> P] /\ \A p, q \in P : order[p] = order[q] => p = q
      /\ P = 0..(n - 1)
  BY DEF Orders, Positions
<1>1. n - 1 \in T
  <2>1. PICK c \in Choices(n) : TRUE
    BY SomeChoices
  <2>2. PICK a \in Trace(n, c) : TRUE
    BY TraceExists
  <2>3. Right(n - 1, a)
    BY <1>0
  <2> QED BY <2>3
<1>2. ASSUME NEW m \in 1..(n - 1), m \in T PROVE m - 1 \in T
  <2>0. PICK c \in Choices(n) : \E a \in Trace(n, c) : Right(m, a)
    BY <1>2
  <2>1. PICK a \in Trace(n, c) : Right(m, a)
    BY <2>0
  <2>2. m \in P /\ m - 1 \in P
    BY ChoiceType
  <2>3. PICK f : f = a[m]
    OBVIOUS
  <2>4. f \in [P -> P] /\ \E p \in P : f[p] = order[m]
    <3>1. /\ a[m] \in Orders(n)
          /\ \A q \in P : \E p \in P : a[m][p] = q
      BY <2>1, <2>2, TracePermutes
    <3>2. order[m] \in P
      BY <1>0, <2>2
    <3> QED BY <2>3, <3>1, <3>2 DEF Orders
  <2>5. PICK j \in P : f[j] = order[m]
    BY <2>4
  <2>6. j \in 0..m
    <3>1. j > m => order[j] = order[m]
      BY <2>1, <2>3, <2>5
    <3>2. ~(j > m)
      BY <1>0, <2>2, <2>5, <3>1
    <3> QED BY <1>0, <2>5, <3>2
  <2>7. PICK d : d = [c EXCEPT ![m] = j]
    OBVIOUS
  <2>8. /\ d \in Choices(n) /\ d[m] = j
        /\ \A k \in 1..(n - 1) : k > m => c[k] = d[k]
    <3>1. c \in [1..(n - 1) -> P] /\ \A k \in 1..(n - 1) : c[k] \in 0..k
      BY DEF Choices, Pick
    <3>2. /\ d \in [1..(n - 1) -> P] /\ d[m] = j
          /\ \A k \in 1..(n - 1) : k # m => d[k] = c[k]
      BY <2>7, <3>1
    <3>3. \A k \in 1..(n - 1) : d[k] \in 0..k
      BY <2>6, <3>1, <3>2
    <3>4. \A k \in 1..(n - 1) : k > m => c[k] = d[k]
      BY <3>2
    <3> QED BY <3>2, <3>3, <3>4 DEF Choices, Pick
  <2>9. PICK b \in Trace(n, d) : TRUE
    BY <2>8, TraceExists
  <2>10. b[m] = f
    BY <2>2, <2>3, <2>8, <2>9, TraceAgrees
  <2>11. /\ b[m - 1][m] = f[j]
         /\ \A p \in P : p # m /\ p # j => b[m - 1][p] = f[p]
    <3>1. b[m - 1] = Swap(f, m, j)
      BY <2>8, <2>9, <2>10 DEF Trace
    <3>2. /\ Swap(f, m, j)[m] = f[j]
          /\ \A p \in P : p # m /\ p # j => Swap(f, m, j)[p] = f[p]
      BY <2>2, <2>4, <2>5, SwapPositions
    <3> QED BY <3>1, <3>2
  <2>12. Right(m - 1, b)
    <3> SUFFICES ASSUME NEW p \in P, p > m - 1
                 PROVE  b[m - 1][p] = order[p]
      OBVIOUS
    <3>1. CASE p = m
      BY <2>5, <2>11, <3>1
    <3>2. CASE p # m
      <4>1. p \in Int /\ p > m /\ p # j
        BY <1>0, <2>6, <3>2
      <4> QED BY <2>1, <2>3, <2>11, <3>2, <4>1
    <3> QED BY <3>1, <3>2
  <2> HIDE DEF Right
  <2> QED BY <2>8, <2>9, <2>12
<1>3. 0 \in T
  <2> HIDE DEF T
  <2> QED BY <1>1, <1>2, Downwards
<1>4. PICK c \in Choices(n) : \E a \in Trace(n, c) : Right(0, a)
  BY <1>3
<1>5. PICK a \in Trace(n, c) : Right(0, a)
  BY <1>4
<1>6. /\ a[0] \in [P -> P] /\ 0 \in P
      /\ \A q \in P : \E p \in P : a[0][p] = q
  <2>1. 0 \in P
    BY <1>0
  <2>2. a[0] \in Orders(n) /\ \A q \in P : \E p \in P : a[0][p] = q
    BY <1>5, <2>1, TracePermutes
  <2> QED BY <2>1, <2>2 DEF Orders
<1>7. a[0][0] = order[0]
  <2>1. PICK p \in P : a[0][p] = order[0]
    BY <1>0, <1>6
  <2>2. p > 0 => order[p] = order[0]
    BY <1>5, <2>1
  <2>3. p = 0
    <3>1. p \in Nat
      BY <1>0
    <3>2. p > 0 => p = 0
      BY <1>0, <1>6, <2>2
    <3> QED BY <3>1, <3>2
  <2> QED BY <2>1, <2>3
<1>8. \A p \in P : a[0][p] = order[p]
  <2> SUFFICES ASSUME NEW p \in P PROVE a[0][p] = order[p]
    OBVIOUS
  <2>1. p = 0 \/ p > 0
    BY <1>0
  <2> QED BY <1>5, <1>7, <2>1
<1>9. a[0] = order
  <2>1. PICK f \in [P -> P] : f = a[0]
    BY <1>6
  <2>2. \A p \in P : f[p] = order[p]
    BY <1>8, <2>1
  <2>3. f = order
    BY <1>0, <2>1, <2>2
  <2> QED BY <2>1, <2>3
<1> QED BY <1>5, <1>9

\* There are finitely many choices.
LEMMA FiniteChoices ==
  ASSUME NEW n \in Nat \ {0}
  PROVE  IsFiniteSet(Choices(n)) /\ Cardinality(Choices(n)) \in Nat \ {0}
<1> DEFINE Turns == 1..(n - 1)
           Graph(c) == {<<k, c[k]>> : k \in Turns}
           g == [c \in Choices(n) |-> Graph(c)]
           Graphs == SUBSET (Turns \X Positions(n))
<1>1. IsFiniteSet(Graphs)
  <2>1. IsFiniteSet(Turns) /\ IsFiniteSet(Positions(n))
    BY FS_Interval DEF Positions
  <2>2. IsFiniteSet(Turns \X Positions(n))
    BY <2>1, FS_Product
  <2> QED BY <2>2, FS_SUBSET
<1>2. g \in Injection(Choices(n), Graphs)
  <2>1. ASSUME NEW c \in Choices(n) PROVE Graph(c) \in Graphs
    BY DEF Choices
  <2>2. ASSUME NEW c \in Choices(n), NEW d \in Choices(n),
               Graph(c) = Graph(d)
        PROVE  c = d
    <3>1. ASSUME NEW k \in Turns PROVE c[k] = d[k]
      <4>1. <<k, c[k]>> \in Graph(d)
        BY <2>2
      <4> QED BY <4>1
    <3> QED BY <3>1 DEF Choices
  <2>3. g \in [Choices(n) -> Graphs]
    BY <2>1
  <2> QED BY <2>2, <2>3 DEF Injection, IsInjective
<1>3. IsFiniteSet(Choices(n))
  BY <1>1, <1>2, FS_Injection
<1> QED BY <1>3, SomeChoices, FS_CardinalityType, FS_EmptySet

\* Every order of the characters is made by the same number of choices, and
\* that is one.
LEMMA ShuffleUniform ==
  ASSUME NEW n \in Nat \ {0}, NEW order \in Orders(n)
  PROVE  Cardinality({c \in Choices(n) : Outcome(n, c) = order}) = 1
<1>0. PICK c \in Choices(n) : \E a \in Trace(n, c) : a[0] = order
  BY SomeWay
<1>1. PICK a \in Trace(n, c) : a[0] = order
  BY <1>0
<1>2. ASSUME NEW d \in Choices(n) PROVE Outcome(n, d) = order <=> d = c
  <2>1. PICK b \in Trace(n, d) : Outcome(n, d) = b[0]
    BY OutcomeOfTrace
  <2>2. Outcome(n, d) = order => d = c
    BY <1>1, <2>1, OneWay
  <2>3. d = c => b[0] = a[0]
    <3>1. 0 \in Positions(n)
      BY DEF Positions
    <3> QED BY <1>1, <2>1, <3>1, TraceAgrees
  <2> QED BY <1>1, <2>1, <2>2, <2>3
<1>3. {d \in Choices(n) : Outcome(n, d) = order} = {c}
  BY <1>1, <1>2
<1> QED BY <1>3, FS_Singleton

\* The shuffle is as fair as the random numbers are, for every length: every
\* order comes from exactly one sequence of choices.
THEOREM ShuffleIsFair == Spec => []ShuffleFair
<1>1. TypeOK => ShuffleFair
  <2> SUFFICES ASSUME TypeOK
               PROVE  \E ways \in 1..Cardinality(Choices(length)) :
                        \A order \in Orders(length) :
                          Cardinality({c \in Choices(length) :
                                         Outcome(length, c) = order}) = ways
    BY DEF ShuffleFair, Choices, Orders, Positions
  <2>1. PICK n \in Nat \ {0} : n = length
    BY LengthAssumption DEF TypeOK
  <2>2. 1 \in 1..Cardinality(Choices(n))
    BY FiniteChoices
  <2>3. \A order \in Orders(n) :
          Cardinality({c \in Choices(n) : Outcome(n, c) = order}) = 1
    BY ShuffleUniform
  <2> QED BY <2>1, <2>2, <2>3
<1> QED BY <1>1, TypeCorrect, PTL

=============================================================================
