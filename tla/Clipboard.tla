----------------------------- MODULE Clipboard ------------------------------
(***************************************************************************)
(* The Copy buttons of the cards (vault.js) and of the generator (app.js). *)
(* Each click writes to the clipboard of the system and, once the write is *)
(* done, sets a timer of its own that writes the empty text.  The timers   *)
(* know nothing of each other, and a sign-out does not touch them.         *)
(*                                                                         *)
(* The browser refuses writeText of a page that has not the focus, and may *)
(* refuse any other (permissions, no user gesture); the handler shows an   *)
(* error when a copy is refused, and nothing when a clear is.              *)
(*                                                                         *)
(* A copied text is named by the click that copied it.  placed and failed  *)
(* are history: no guard reads them.                                       *)
(***************************************************************************)
EXTENDS Integers

CONSTANTS
  Copies,      \* clicks on Copy
  Empty,       \* the empty text
  Other,       \* what some other program has copied
  CLEAR,       \* how long a text is to stay, 30 s in the code
  MaxLate,     \* how late a timer or a promise may be
  LastWrite    \* bound: no text is written after this time

ASSUME TextsAssumption == Empty # Other /\ {Empty, Other} \cap Copies = {}
ASSUME TimesAssumption == CLEAR \in Nat /\ MaxLate \in Nat /\ LastWrite \in Nat

MaxClock == LastWrite + CLEAR + 3 * MaxLate + 1    \* bound: the last second

VARIABLES
  clock,
  focused,     \* has the page the focus
  clipboard,   \* what is in the clipboard of the system
  pc,          \* where the handler of each click, or its timer, is
  due,         \* since when its next step could happen, or when it will
  placed,      \* when the content of the clipboard was written
  failed       \* the copies whose clear was refused or got lost

vars == <<clock, focused, clipboard, pc, due, placed, failed>>

Init ==
  /\ clock = 0
  /\ focused = TRUE
  /\ clipboard = Empty
  /\ pc = [c \in Copies |-> "idle"]
  /\ due = [c \in Copies |-> 0]
  /\ placed = 0
  /\ failed = {}

\* The copy moves on, and may take its next step from that time on.
Move(c, to, time) ==
  /\ pc' = [pc EXCEPT ![c] = to]
  /\ due' = [due EXCEPT ![c] = time]

\* Mutant: a click cancels the timer of the copy before it.
ClickCancelsTimer(c) ==
  /\ focused
  /\ pc[c] = "idle"
  /\ pc' = [d \in Copies |-> IF d = c THEN "writing"
                             ELSE IF pc[d] = "waiting" THEN "done" ELSE pc[d]]
  /\ UNCHANGED <<clock, focused, clipboard, due, placed, failed>>

\* A click on Copy, which calls writeText.
Click(c) ==
  /\ focused
  /\ pc[c] = "idle"
  /\ Move(c, "writing", clock)
  /\ UNCHANGED <<clock, focused, clipboard, placed, failed>>

\* The text is in the clipboard.
Write(c) ==
  /\ pc[c] = "writing"
  /\ clock <= LastWrite
  /\ clipboard' = c
  /\ placed' = clock
  /\ Move(c, "written", clock)
  /\ UNCHANGED <<clock, focused, failed>>

\* writeText is refused: the catch shows an error and sets no timer.
WriteRefused(c) ==
  /\ pc[c] = "writing"
  /\ Move(c, "done", 0)
  /\ UNCHANGED <<clock, focused, clipboard, placed, failed>>

\* Mutant: the copy of the generator sets no timer.
CopiedNoTimer(c) ==
  /\ pc[c] = "written"
  /\ Move(c, "done", 0)
  /\ UNCHANGED <<clock, focused, clipboard, placed, failed>>

\* The await is over: "clears in 30s", and the timer is set.
Copied(c) ==
  /\ pc[c] = "written"
  /\ Move(c, "waiting", clock + CLEAR)
  /\ UNCHANGED <<clock, focused, clipboard, placed, failed>>

\* The timer calls writeText(''), whatever is in the clipboard by now; a
\* page without focus is refused at once.
TimerFires(c) ==
  /\ pc[c] = "waiting"
  /\ due[c] <= clock
  /\ IF focused
     THEN Move(c, "clearing", clock) /\ failed' = failed
     ELSE Move(c, "done", 0) /\ failed' = failed \cup {c}
  /\ UNCHANGED <<clock, focused, clipboard, placed>>

\* The clipboard is empty.
Clear(c) ==
  /\ pc[c] = "clearing"
  /\ clipboard' = Empty
  /\ placed' = clock
  /\ Move(c, "done", 0)
  /\ UNCHANGED <<clock, focused, failed>>

\* The clear is refused, which its catch swallows; nobody tries again.
ClearRefused(c) ==
  /\ pc[c] = "clearing"
  /\ failed' = failed \cup {c}
  /\ Move(c, "done", 0)
  /\ UNCHANGED <<clock, focused, clipboard, placed>>

\* The page is loaded again: the handlers and the timers are gone.
ReloadPage ==
  /\ failed' = failed \cup {c \in Copies : pc[c] \notin {"idle", "done"}}
  /\ pc' = [c \in Copies |-> IF pc[c] = "idle" THEN "idle" ELSE "done"]
  /\ due' = [c \in Copies |-> 0]
  /\ UNCHANGED <<clock, focused, clipboard, placed>>

\* The user goes to another window, or comes back.
SwitchWindow ==
  /\ focused' = ~focused
  /\ UNCHANGED <<clock, clipboard, pc, due, placed, failed>>

CopyElsewhere ==
  /\ ~focused
  /\ clipboard' = Other
  /\ placed' = clock
  /\ UNCHANGED <<clock, focused, pc, due, failed>>

\* A second passes; a written text, a timer that is due and a write of the
\* empty text wait no longer than MaxLate.
Tick ==
  /\ clock < MaxClock
  /\ \A c \in Copies :
       pc[c] \in {"written", "waiting", "clearing"} => clock < due[c] + MaxLate
  /\ clock' = clock + 1
  /\ UNCHANGED <<focused, clipboard, pc, due, placed, failed>>

Step(c) ==
  \/ Write(c) \/ WriteRefused(c) \/ Copied(c)
  \/ TimerFires(c) \/ Clear(c) \/ ClearRefused(c)

Next ==
  \/ \E c \in Copies : Click(c) \/ Step(c)
  \/ ReloadPage \/ SwitchWindow \/ CopyElsewhere \/ Tick

Spec == Init /\ [][Next]_vars

\* Time passes, promises are settled, and timers that are due fire.
FairSpec == Spec /\ WF_vars(Tick) /\ \A c \in Copies : WF_vars(Step(c))

(***************************************************************************)
(* Properties                                                              *)
(***************************************************************************)

\* The types of the clipboard and the copies.
TypeOK ==
  /\ clock \in 0..MaxClock
  /\ focused \in BOOLEAN
  /\ clipboard \in Copies \cup {Empty, Other}
  /\ pc \in [Copies -> {"idle", "writing", "written", "waiting", "clearing",
                        "done"}]
  /\ due \in [Copies -> 0..(MaxClock + CLEAR)]
  /\ placed \in 0..clock
  /\ failed \subseteq Copies

\* A copied text is gone after CLEAR and what the write, the timer and the
\* clear may each be late, whatever else was copied and whichever copies
\* failed, unless its own clear was refused or the page was loaded again.
ClearedInTime ==
  clipboard \in Copies \ failed =>
    clock <= placed + CLEAR + 3 * MaxLate

\* A copied text does not stay, unless its clear fails.
EventuallyCleared ==
  \A c \in Copies : clipboard = c ~> clipboard # c \/ c \in failed

=============================================================================
