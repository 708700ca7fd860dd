----------------------------- MODULE Inactivity -----------------------------
(***************************************************************************)
(* The inactivity timers of app.js: a warning some time before the         *)
(* automatic sign-out, a countdown in it that ticks every second, and the  *)
(* sign-out.  Every input of the user anywhere on the page resets them.    *)
(*                                                                         *)
(* Time is counted in seconds.  A timer is the time it is due, or Off.  It *)
(* never fires early, and late by at most MaxLate (a throttled tab), but   *)
(* not at all while confirm() is open: that dialog of the Delete button    *)
(* stops the event loop inside the click, and when it is closed the click  *)
(* goes on to the document, where resetInactivity listens.                 *)
(*                                                                         *)
(* lastInput, warnedAt and endedBy are history: no guard reads them.       *)
(***************************************************************************)
EXTENDS Integers

CONSTANTS
  INACTIVITY,   \* idle time until the sign-out
  WARNING,      \* how long before it the warning comes
  MaxLate,      \* how late a timer may fire
  LastInput     \* bound: the user does nothing after this time

ASSUME TimesAssumption ==
  /\ INACTIVITY \in Nat /\ WARNING \in Nat
  /\ 1 <= WARNING /\ WARNING <= INACTIVITY
  /\ MaxLate \in Nat /\ LastInput \in Nat

Off == -1
MaxClock == LastInput + INACTIVITY + MaxLate + 1    \* bound: the last second

VARIABLES
  clock,
  tracking,         \* signed in, the activity listeners are registered
  warningTimer,     \* _warningTimer
  inactivityTimer,  \* _inactivityTimer
  countdownTimer,   \* _countdownTimer
  remaining,        \* the number the warning shows
  warning,          \* is the warning visible
  dialog,           \* is the confirm() of a Delete button open
  lastInput,        \* when the user last did something, or signed in
  warnedAt,         \* when the warning was last shown
  endedBy           \* how the last session ended

vars == <<clock, tracking, warningTimer, inactivityTimer, countdownTimer,
          remaining, warning, dialog, lastInput, warnedAt, endedBy>>

Init ==
  /\ clock = 0
  /\ tracking = FALSE
  /\ warningTimer = Off
  /\ inactivityTimer = Off
  /\ countdownTimer = Off
  /\ remaining = 0
  /\ warning = FALSE
  /\ dialog = FALSE
  /\ lastInput = 0
  /\ warnedAt = Off
  /\ endedBy = "none"

Due(timer) == timer # Off /\ timer <= clock /\ ~dialog

\* Mutant: the old sign-out timer is left running when there is one.
ResetKeepsTimer ==
  /\ warningTimer' = clock + (INACTIVITY - WARNING)
  /\ inactivityTimer' = IF inactivityTimer = Off THEN clock + INACTIVITY
                        ELSE inactivityTimer
  /\ countdownTimer' = Off
  /\ warning' = FALSE
  /\ lastInput' = clock

\* Mutant: the handler hides the warning but arms the timers only once.
ResetArmsOnce ==
  /\ warningTimer' = Off
  /\ inactivityTimer' = IF tracking THEN Off ELSE clock + INACTIVITY
  /\ countdownTimer' = Off
  /\ warning' = FALSE
  /\ lastInput' = clock

\* resetInactivity.
Reset ==
  /\ warningTimer' = clock + (INACTIVITY - WARNING)
  /\ inactivityTimer' = clock + INACTIVITY
  /\ countdownTimer' = Off
  /\ warning' = FALSE
  /\ lastInput' = clock

\* Mutant: the warning is cleared away but its timer is not.
StopKeepsWarningTimer ==
  /\ tracking' = FALSE
  /\ inactivityTimer' = Off
  /\ countdownTimer' = Off
  /\ warning' = FALSE
  /\ UNCHANGED warningTimer

\* stopInactivityTracking.
Stop ==
  /\ tracking' = FALSE
  /\ warningTimer' = Off
  /\ inactivityTimer' = Off
  /\ countdownTimer' = Off
  /\ warning' = FALSE

(***************************************************************************)
(* What the user does                                                      *)
(***************************************************************************)

UserActs == ~dialog /\ clock <= LastInput

\* performLogin shows the vault and calls startInactivityTracking.
StartTracking ==
  /\ UserActs
  /\ ~tracking
  /\ tracking' = TRUE
  /\ Reset
  /\ UNCHANGED <<clock, remaining, dialog, warnedAt, endedBy>>

\* One of ACTIVITY_EVENTS reaches the document.
Activity ==
  /\ UserActs
  /\ tracking
  /\ Reset
  /\ UNCHANGED <<clock, tracking, remaining, dialog, warnedAt, endedBy>>

\* The button in the warning; it asks for nothing but that one is visible.
StayActive ==
  /\ UserActs
  /\ warning
  /\ Reset
  /\ UNCHANGED <<clock, tracking, remaining, dialog, warnedAt, endedBy>>

\* The Sign-out button: performLogout.  It removes the listeners before the
\* click gets to the document.
ClickLogout ==
  /\ UserActs
  /\ tracking
  /\ Stop
  /\ endedBy' = "user"
  /\ UNCHANGED <<clock, remaining, dialog, lastInput, warnedAt>>

\* A Delete button opens confirm().
ClickDelete ==
  /\ UserActs
  /\ tracking
  /\ dialog' = TRUE
  /\ lastInput' = clock
  /\ UNCHANGED <<clock, tracking, warningTimer, inactivityTimer,
                 countdownTimer, remaining, warning, warnedAt, endedBy>>

\* The dialog is answered, and the click that opened it reaches the document
\* before any timer can fire.
CloseDialog ==
  /\ dialog
  /\ clock <= LastInput
  /\ dialog' = FALSE
  /\ Reset
  /\ UNCHANGED <<clock, tracking, remaining, warnedAt, endedBy>>

\* The page is loaded again: it starts in the auth view, without timers.
ReloadPage ==
  /\ Stop
  /\ dialog' = FALSE
  /\ remaining' = 0
  /\ endedBy' = IF tracking THEN "user" ELSE endedBy
  /\ UNCHANGED <<clock, lastInput, warnedAt>>

(***************************************************************************)
(* The timers                                                              *)
(***************************************************************************)

\* showInactivityWarning.
ShowInactivityWarning ==
  /\ Due(warningTimer)
  /\ warningTimer' = Off
  /\ remaining' = WARNING
  /\ warning' = TRUE
  /\ countdownTimer' = clock + 1
  /\ warnedAt' = clock
  /\ UNCHANGED <<clock, tracking, inactivityTimer, dialog, lastInput, endedBy>>

\* Mutant: the countdown takes two off a tick.
CountdownByTwo ==
  /\ Due(countdownTimer)
  /\ remaining' = remaining - 2
  /\ countdownTimer' = IF remaining - 2 <= 0 THEN Off ELSE clock + 1
  /\ warning' = (warning /\ remaining - 2 > 0)
  /\ UNCHANGED <<clock, tracking, warningTimer, inactivityTimer, dialog,
                 lastInput, warnedAt, endedBy>>

\* A tick of the countdown; the last one ends it and hides the warning.
Countdown ==
  /\ Due(countdownTimer)
  /\ remaining' = remaining - 1
  /\ countdownTimer' = IF remaining - 1 <= 0 THEN Off ELSE clock + 1
  /\ warning' = (warning /\ remaining - 1 > 0)
  /\ UNCHANGED <<clock, tracking, warningTimer, inactivityTimer, dialog,
                 lastInput, warnedAt, endedBy>>

\* The sign-out timer: performLogout.  Of two timers that are due, one that
\* was set earlier and for a shorter time fires first.
SignOut ==
  /\ Due(inactivityTimer)
  /\ ~Due(warningTimer)
  /\ Stop
  /\ endedBy' = "timer"
  /\ UNCHANGED <<clock, remaining, dialog, lastInput, warnedAt>>

\* A second passes; outside of the dialog no timer is left waiting longer
\* than MaxLate.
Tick ==
  /\ clock < MaxClock
  /\ \A timer \in {warningTimer, inactivityTimer, countdownTimer} :
       Due(timer) => clock < timer + MaxLate
  /\ clock' = clock + 1
  /\ UNCHANGED <<tracking, warningTimer, inactivityTimer, countdownTimer,
                 remaining, warning, dialog, lastInput, warnedAt, endedBy>>

UserStep ==
  \/ StartTracking \/ Activity \/ StayActive
  \/ ClickLogout \/ ClickDelete \/ CloseDialog \/ ReloadPage

TimerStep == ShowInactivityWarning \/ Countdown \/ SignOut

Next == UserStep \/ TimerStep \/ Tick

Spec == Init /\ [][Next]_vars

\* Time passes, and the event loop runs the timers that are due.
FairSpec == Spec /\ WF_vars(Tick) /\ WF_vars(TimerStep)

(***************************************************************************)
(* Properties                                                              *)
(***************************************************************************)

Flags ==
  /\ tracking \in BOOLEAN
  /\ warning \in BOOLEAN
  /\ dialog \in BOOLEAN
  /\ endedBy \in {"none", "user", "timer"}

Times ==
  /\ clock \in 0..MaxClock
  /\ warningTimer \in Nat \cup {Off}
  /\ inactivityTimer \in Nat \cup {Off}
  /\ countdownTimer \in Nat \cup {Off}
  /\ remaining \in 0..WARNING
  /\ lastInput \in 0..clock
  /\ warnedAt \in Off..clock

\* The types; a timer is off or due some time.
TypeOK == Flags /\ Times

\* Sign-out, by button or timer, leaves nothing behind that could warn,
\* count or sign out in a later session; and a session always has its
\* sign-out ahead, at INACTIVITY after the last input.
TimersOfSession ==
  IF tracking
  THEN dialog \/ inactivityTimer = lastInput + INACTIVITY
  ELSE /\ warningTimer = Off /\ inactivityTimer = Off /\ countdownTimer = Off
       /\ ~warning /\ ~dialog

\* A session outlives the last input by INACTIVITY and the lateness of a
\* timer, unless confirm() is open.
IdleBound ==
  tracking /\ ~dialog => clock <= lastInput + INACTIVITY + MaxLate

\* How late the warning and its ticks can have been when a number is shown.
Drift(shown) == (WARNING - shown + 1) * MaxLate

\* The countdown never shows less time than the session has left, and, but
\* for confirm(), never more than the second that is running and the
\* lateness of the warning and of each of its ticks, which adds up.
CountdownHonest ==
  warning =>
    /\ remaining >= inactivityTimer - clock
    /\ dialog \/ remaining <= inactivityTimer - clock + 1 + Drift(remaining - 1)

\* The timer signs out only whoever has been idle for INACTIVITY, and only
\* after a warning since the last input that came WARNING earlier, less
\* what a timer may be late.
FairlyWarned ==
  [][tracking /\ ~tracking' /\ endedBy' = "timer" =>
       /\ clock >= lastInput + INACTIVITY
       /\ warnedAt >= lastInput
       /\ clock - warnedAt >= WARNING - MaxLate]_vars

\* A session in which nothing is done any more ends.
IdleSessionEnds ==
  \A t \in 0..LastInput :
    tracking /\ lastInput = t ~> ~tracking \/ lastInput # t \/ dialog

=============================================================================
