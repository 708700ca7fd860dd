--------------------------- MODULE ClipboardProofs --------------------------
(***************************************************************************)
(* Proofs about Clipboard for any number of clicks, every time to clear    *)
(* and every lateness.                                                     *)
(***************************************************************************)
EXTENDS Clipboard, TLAPS

(***************************************************************************)
(* The inductive invariant                                                 *)
(***************************************************************************)

\* A copy that is to take a step is not overdue by more than MaxLate.
Prompt ==
  \A c \in Copies :
    /\ pc[c] \in {"written", "waiting", "clearing"} => clock <= due[c] + MaxLate
    /\ pc[c] \in {"written", "clearing"} => due[c] <= clock

\* The copy whose text is in the clipboard is on its way to the clear, and
\* each stage of it began in time.
OnItsWay ==
  clipboard \in Copies \ failed =>
    \/ pc[clipboard] = "written" /\ due[clipboard] <= placed
    \/ pc[clipboard] = "waiting" /\ due[clipboard] <= placed + CLEAR + MaxLate
    \/ pc[clipboard] = "clearing"
         /\ due[clipboard] <= placed + CLEAR + 2 * MaxLate

IInv == TypeOK /\ Prompt /\ OnItsWay

USE TextsAssumption, TimesAssumption

LEMMA LastSecond == MaxClock \in Nat
BY DEF MaxClock

USE LastSecond

\* Nothing is copied at first.
LEMMA InitInv == Init => IInv
BY DEF Init, IInv, TypeOK, Prompt, OnItsWay

(***************************************************************************)
(* Each action preserves the invariant                                     *)
(***************************************************************************)

\* What a copy does that leaves the clipboard alone.
LEMMA ClickInv == ASSUME IInv, NEW c \in Copies, Click(c) PROVE IInv'
BY DEF IInv, TypeOK, Prompt, OnItsWay, Click, Move

LEMMA WriteRefusedInv ==
  ASSUME IInv, NEW c \in Copies, WriteRefused(c) PROVE IInv'
BY DEF IInv, TypeOK, Prompt, OnItsWay, WriteRefused, Move

LEMMA CopiedInv == ASSUME IInv, NEW c \in Copies, Copied(c) PROVE IInv'
<1> USE DEF IInv, Copied, Move
<1>1. TypeOK'
  BY DEF TypeOK
<1>2. Prompt'
  BY DEF Prompt, TypeOK
<1>3. OnItsWay'
  BY DEF OnItsWay, Prompt, TypeOK
<1>4. QED
  BY <1>1, <1>2, <1>3

LEMMA TimerFiresInv == ASSUME IInv, NEW c \in Copies, TimerFires(c) PROVE IInv'
<1> USE DEF IInv, TimerFires, Move
<1>1. CASE focused
  <2>1. TypeOK'
    BY <1>1 DEF TypeOK
  <2>2. Prompt'
    BY <1>1 DEF Prompt, TypeOK
  <2>3. OnItsWay'
    BY <1>1 DEF OnItsWay, Prompt, TypeOK
  <2>4. QED
    BY <2>1, <2>2, <2>3
<1>2. CASE ~focused
  BY <1>2 DEF TypeOK, Prompt, OnItsWay
<1>3. QED
  BY <1>1, <1>2

LEMMA ClearRefusedInv ==
  ASSUME IInv, NEW c \in Copies, ClearRefused(c) PROVE IInv'
BY DEF IInv, TypeOK, Prompt, OnItsWay, ClearRefused, Move

\* What changes the clipboard: a copy ...
LEMMA WriteInv == ASSUME IInv, NEW c \in Copies, Write(c) PROVE IInv'
BY DEF IInv, TypeOK, Prompt, OnItsWay, Write, Move

\* ... a clear, of whatever copy, and another program.
LEMMA ClearInv == ASSUME IInv, NEW c \in Copies, Clear(c) PROVE IInv'
BY DEF IInv, TypeOK, Prompt, OnItsWay, Clear, Move

LEMMA ElsewhereInv == ASSUME IInv, CopyElsewhere PROVE IInv'
BY DEF IInv, TypeOK, Prompt, OnItsWay, CopyElsewhere

LEMMA SwitchInv == ASSUME IInv, SwitchWindow PROVE IInv'
<1> USE DEF IInv, SwitchWindow
<1>1. TypeOK'
  BY DEF TypeOK
<1>2. Prompt' /\ OnItsWay'
  BY DEF Prompt, OnItsWay
<1>3. QED
  BY <1>1, <1>2

\* A reload loses the clear of the text in the clipboard, if it has one.
LEMMA ReloadInv == ASSUME IInv, ReloadPage PROVE IInv'
BY DEF IInv, TypeOK, Prompt, OnItsWay, ReloadPage

LEMMA TickInv == ASSUME IInv, Tick PROVE IInv'
<1> USE DEF IInv, Tick
<1>1. TypeOK'
  BY DEF TypeOK
<1>2. Prompt'
  BY DEF Prompt, TypeOK
<1>3. OnItsWay'
  BY DEF OnItsWay
<1>4. QED
  BY <1>1, <1>2, <1>3

\* Every step preserves the invariant.
LEMMA NextInv == IInv /\ [Next]_vars => IInv'
<1> SUFFICES ASSUME IInv, [Next]_vars PROVE IInv'
  OBVIOUS
<1>1. ASSUME NEW c \in Copies, Click(c) \/ Step(c) PROVE IInv'
  BY <1>1, ClickInv, WriteRefusedInv, CopiedInv, TimerFiresInv,
     ClearRefusedInv, WriteInv, ClearInv DEF Step
<1>2. CASE ReloadPage \/ SwitchWindow \/ CopyElsewhere \/ Tick
  BY <1>2, ReloadInv, ElsewhereInv, SwitchInv, TickInv
<1>3. CASE UNCHANGED vars
  BY <1>3 DEF vars, IInv, TypeOK, Prompt, OnItsWay
<1>4. QED
  BY <1>1, <1>2, <1>3 DEF Next

(***************************************************************************)
(* Theorems                                                                *)
(***************************************************************************)

\* The text in the clipboard has a clear on its way, in every reachable
\* state.
THEOREM InductiveInvariant == Spec => []IInv
<1>1. QED
  BY InitInv, NextInv, PTL DEF Spec

\* The clipboard and the copies keep their types.
THEOREM TypeCorrect == Spec => []TypeOK
<1>1. IInv => TypeOK
  BY DEF IInv
<1>2. QED
  BY <1>1, InductiveInvariant, PTL

\* What is copied is cleared in time unless its own clear fails.
THEOREM CopiesCleared == Spec => []ClearedInTime
<1>1. IInv => ClearedInTime
  <2> SUFFICES ASSUME IInv, clipboard \in Copies \ failed
               PROVE  clock <= placed + CLEAR + 3 * MaxLate
    BY DEF ClearedInTime
  <2> QED
    BY DEF IInv, TypeOK, Prompt, OnItsWay
<1>2. QED
  BY <1>1, InductiveInvariant, PTL

=============================================================================
