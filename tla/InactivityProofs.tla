-------------------------- MODULE InactivityProofs --------------------------
(***************************************************************************)
(* Proofs about Inactivity for every idle time, warning time and lateness  *)
(* of timers.                                                              *)
(***************************************************************************)
EXTENDS Inactivity, TLAPS

(***************************************************************************)
(* The inductive invariant                                                 *)
(***************************************************************************)

\* Before the warning its timer is set for the current idle time and not
\* overdue; after it, it was shown in time.
WarningInv ==
  tracking /\ ~dialog =>
    /\ warningTimer # Off =>
         /\ warningTimer = lastInput + (INACTIVITY - WARNING)
         /\ clock <= warningTimer + MaxLate
    /\ warningTimer = Off =>
         /\ lastInput <= warnedAt
         /\ warnedAt <= lastInput + (INACTIVITY - WARNING) + MaxLate

\* While a warning is shown it has a next tick, which leaves at least as much
\* on show as there will be time, and too much by what has been late so far.
CountdownInv ==
  /\ warning /\ ~dialog => countdownTimer # Off
  /\ countdownTimer # Off =>
       /\ remaining >= 1
       /\ remaining - 1 >= inactivityTimer - countdownTimer
       /\ remaining - 1 <= inactivityTimer - countdownTimer + Drift(remaining)
       /\ ~dialog => clock <= countdownTimer + MaxLate

IInv ==
  /\ TypeOK
  /\ TimersOfSession
  /\ IdleBound
  /\ WarningInv
  /\ CountdownInv
  /\ CountdownHonest

USE TimesAssumption DEF Off

\* A tick adds its lateness to what was late before.
LEMMA DriftGrows ==
  ASSUME NEW n \in 0..WARNING
  PROVE  /\ Drift(n) \in Nat
         /\ Drift(n - 1) = Drift(n) + MaxLate
<1>1. \A a, b \in Int : (a + 1) * b = a * b + b
  OBVIOUS
<1>2. \A a, b \in Nat : a * b \in Nat
  OBVIOUS
<1>3. WARNING - n + 1 \in Nat /\ WARNING - (n - 1) + 1 = (WARNING - n + 1) + 1
  OBVIOUS
<1> QED BY <1>1, <1>2, <1>3 DEF Drift

\* Nothing is armed before the first session.
LEMMA InitInv == Init => IInv
<1> SUFFICES ASSUME Init PROVE IInv
  OBVIOUS
<1> USE DEF Init
<1>1. Flags
  BY DEF Flags
<1>2. Times
  BY DEF Times, MaxClock
<1>3. TimersOfSession /\ IdleBound /\ WarningInv
  BY DEF TimersOfSession, IdleBound, WarningInv
<1>4. CountdownInv /\ CountdownHonest
  BY DEF CountdownInv, CountdownHonest
<1>5. QED
  BY <1>1, <1>2, <1>3, <1>4 DEF IInv, TypeOK

(***************************************************************************)
(* Each action preserves the invariant                                     *)
(***************************************************************************)

\* Timers that are reset are right for a session in which the user has just
\* done something.
LEMMA ResetInv ==
  ASSUME TypeOK, Reset, dialog' = FALSE, tracking' = TRUE, clock <= LastInput,
         UNCHANGED <<clock, remaining, warnedAt, endedBy>>
  PROVE  IInv'
<1> USE DEF TypeOK, Reset
<1>1. Flags'
  BY DEF Flags
<1>2. Times'
  BY DEF Times
<1>3. TimersOfSession' /\ IdleBound' /\ WarningInv'
  BY DEF TimersOfSession, IdleBound, WarningInv, Times
<1>4. CountdownInv' /\ CountdownHonest'
  BY DEF CountdownInv, CountdownHonest
<1>5. QED
  BY <1>1, <1>2, <1>3, <1>4 DEF IInv

\* Nothing is wrong where nothing is armed.
LEMMA StopInv ==
  ASSUME TypeOK, Stop, dialog' = FALSE, UNCHANGED <<clock, lastInput, warnedAt>>,
         remaining' \in {0, remaining}, endedBy' \in {"user", "timer", endedBy}
  PROVE  IInv'
<1> USE DEF TypeOK, Stop
<1>1. Flags'
  BY DEF Flags
<1>2. Times'
  BY DEF Times
<1>3. TimersOfSession' /\ IdleBound' /\ WarningInv'
  BY DEF TimersOfSession, IdleBound, WarningInv
<1>4. CountdownInv' /\ CountdownHonest'
  BY DEF CountdownInv, CountdownHonest
<1>5. QED
  BY <1>1, <1>2, <1>3, <1>4 DEF IInv

\* While confirm() is open only what the dialog leaves alone is claimed.
LEMMA ClickDeleteInv == IInv /\ ClickDelete => IInv'
<1> SUFFICES ASSUME IInv, ClickDelete PROVE IInv'
  OBVIOUS
<1> USE DEF IInv, TypeOK, ClickDelete
<1>1. Flags'
  BY DEF Flags
<1>2. Times'
  BY DEF Times
<1>3. TimersOfSession' /\ IdleBound' /\ WarningInv'
  BY DEF TimersOfSession, IdleBound, WarningInv
<1>4. CountdownInv' /\ CountdownHonest'
  BY DEF CountdownInv, CountdownHonest
<1>5. QED
  BY <1>1, <1>2, <1>3, <1>4

\* When the warning is shown, its whole countdown is at least what is left.
LEMMA ShowInactivityWarningInv == IInv /\ ShowInactivityWarning => IInv'
<1> SUFFICES ASSUME IInv, ShowInactivityWarning PROVE IInv'
  OBVIOUS
<1> USE DEF IInv, TypeOK, ShowInactivityWarning, Due
<1>1. tracking /\ ~dialog /\ inactivityTimer = lastInput + INACTIVITY
  BY DEF TimersOfSession
<1>2. Flags'
  BY DEF Flags
<1>3. Times'
  BY DEF Times
<1>4. TimersOfSession' /\ IdleBound'
  BY <1>1 DEF TimersOfSession, IdleBound
<1>5. WarningInv'
  BY <1>1 DEF WarningInv, Times
<1>6. /\ remaining' = WARNING /\ countdownTimer' = clock + 1
      /\ inactivityTimer' = inactivityTimer /\ clock' = clock
      /\ clock >= inactivityTimer - WARNING
      /\ clock <= inactivityTimer - WARNING + MaxLate
      /\ inactivityTimer \in Int /\ clock \in Nat
  BY <1>1 DEF WarningInv, Times
<1>7. Drift(WARNING) = MaxLate /\ Drift(WARNING - 1) = MaxLate + MaxLate
  BY DriftGrows DEF Drift
<1>8. CountdownInv'
  BY <1>6, <1>7 DEF CountdownInv
<1>9. CountdownHonest'
  BY <1>6, <1>7 DEF CountdownHonest
<1> QED
  BY <1>2, <1>3, <1>4, <1>5, <1>8, <1>9

\* A tick takes one off for each second that passed, or for more than one.
LEMMA CountdownStepInv == IInv /\ Countdown => IInv'
<1> SUFFICES ASSUME IInv, Countdown PROVE IInv'
  OBVIOUS
<1> USE DEF IInv, TypeOK, Countdown, Due
<1>1. tracking /\ ~dialog /\ inactivityTimer = lastInput + INACTIVITY
  BY DEF TimersOfSession
<1>2. Flags'
  BY DEF Flags
<1>3. Times'
  BY DEF Times, CountdownInv
<1>4. TimersOfSession' /\ IdleBound' /\ WarningInv'
  BY <1>1 DEF TimersOfSession, IdleBound, WarningInv
<1>5. /\ remaining \in 1..WARNING /\ remaining' = remaining - 1
      /\ remaining' \in 0..WARNING
      /\ inactivityTimer' = inactivityTimer /\ clock' = clock
      /\ inactivityTimer \in Int /\ clock \in Nat /\ countdownTimer \in Int
      /\ clock >= countdownTimer /\ clock <= countdownTimer + MaxLate
      /\ remaining - 1 >= inactivityTimer - countdownTimer
      /\ remaining - 1 <= inactivityTimer - countdownTimer + Drift(remaining)
  BY <1>1 DEF CountdownInv, Times
<1>6. /\ Drift(remaining) \in Nat
      /\ Drift(remaining') = Drift(remaining) + MaxLate
      /\ Drift(remaining' - 1) = Drift(remaining') + MaxLate
  BY <1>5, DriftGrows
<1>7. CountdownInv'
  <2>1. CASE remaining - 1 <= 0
    <3>1. ~(remaining - 1 > 0)
      BY <1>5, <2>1
    <3>2. countdownTimer' = Off /\ ~warning'
      BY <2>1, <3>1, Zenon
    <3> QED BY <3>2 DEF CountdownInv
  <2>2. CASE ~(remaining - 1 <= 0)
    <3>1. countdownTimer' = clock + 1 /\ countdownTimer' # Off
      BY <1>5, <2>2
    <3>2. remaining' >= 1 /\ remaining' - 1 >= inactivityTimer' - countdownTimer'
      BY <1>5, <2>2, <3>1
    <3>3. remaining' - 1 <=
            inactivityTimer' - countdownTimer' + Drift(remaining')
      BY <1>5, <1>6, <3>1
    <3>4. clock' <= countdownTimer' + MaxLate
      BY <1>5, <3>1
    <3> QED BY <3>1, <3>2, <3>3, <3>4 DEF CountdownInv
  <2> QED BY <2>1, <2>2
<1>8. CountdownHonest'
  BY <1>5, <1>6 DEF CountdownHonest
<1> QED
  BY <1>2, <1>3, <1>4, <1>7, <1>8

\* No timer gets older than its due time and MaxLate while the clock runs.
LEMMA TickInv == IInv /\ Tick => IInv'
<1> SUFFICES ASSUME IInv, Tick PROVE IInv'
  OBVIOUS
<1> USE DEF IInv, TypeOK, Tick, Due
<1>1. Flags'
  BY DEF Flags
<1>2. Times'
  BY DEF Times, MaxClock
<1>3. TimersOfSession'
  BY DEF TimersOfSession
<1>4. IdleBound' /\ WarningInv'
  BY DEF TimersOfSession, IdleBound, WarningInv, Times
<1>5. CountdownInv'
  BY DEF CountdownInv, Times
<1>6. CountdownHonest'
  <2>1. CASE ~warning
    BY <2>1 DEF CountdownHonest
  <2>2. CASE warning /\ dialog
    BY <2>2 DEF CountdownHonest, Times
  <2>3. CASE warning /\ ~dialog
    <3>1. /\ countdownTimer' # Off /\ remaining \in 1..WARNING
          /\ clock' <= countdownTimer + MaxLate /\ clock' = clock + 1
          /\ remaining - 1 <=
               inactivityTimer - countdownTimer + Drift(remaining)
          /\ inactivityTimer \in Int /\ clock \in Int /\ countdownTimer \in Int
          /\ UNCHANGED <<remaining, inactivityTimer, warning>>
      BY <2>3, <1>5 DEF CountdownInv, Times
    <3>2. /\ Drift(remaining) \in Nat
          /\ Drift(remaining - 1) = Drift(remaining) + MaxLate
      BY <3>1, DriftGrows
    <3>3. remaining >= inactivityTimer - clock
      BY <2>3 DEF CountdownHonest
    <3> QED BY <2>3, <3>1, <3>2, <3>3 DEF CountdownHonest
  <2> QED BY <2>1, <2>2, <2>3 DEF Flags
<1> QED
  BY <1>1, <1>2, <1>3, <1>4, <1>5, <1>6

\* Every step preserves the invariant.
LEMMA NextInv == IInv /\ [Next]_vars => IInv'
<1> SUFFICES ASSUME IInv, [Next]_vars PROVE IInv'
  OBVIOUS
<1>1. CASE StartTracking \/ Activity \/ StayActive
  <2>1. tracking' = TRUE /\ dialog' = FALSE
    BY <1>1 DEF StartTracking, Activity, StayActive, UserActs, IInv, TypeOK,
       Flags, TimersOfSession
  <2>2. QED
    BY <1>1, <2>1, ResetInv DEF StartTracking, Activity, StayActive, UserActs,
       IInv
<1>2. CASE CloseDialog
  <2>1. tracking' = TRUE
    BY <1>2 DEF CloseDialog, IInv, TypeOK, Flags, TimersOfSession
  <2>2. QED
    BY <1>2, <2>1, ResetInv DEF CloseDialog, IInv
<1>3. CASE ClickLogout
  <2>1. dialog' = FALSE
    BY <1>3 DEF ClickLogout, UserActs, IInv, TypeOK, Flags
  <2>2. QED
    BY <1>3, <2>1, StopInv DEF ClickLogout, IInv
<1>4. CASE ReloadPage
  BY <1>4, StopInv DEF ReloadPage, IInv
<1>5. CASE SignOut
  <2>1. dialog' = FALSE
    BY <1>5 DEF SignOut, Due, IInv, TypeOK, Flags
  <2>2. QED
    BY <1>5, <2>1, StopInv DEF SignOut, IInv
<1>6. CASE ClickDelete
  BY <1>6, ClickDeleteInv
<1>7. CASE ShowInactivityWarning
  BY <1>7, ShowInactivityWarningInv
<1>8. CASE Countdown
  BY <1>8, CountdownStepInv
<1>9. CASE Tick
  BY <1>9, TickInv
<1>10. CASE UNCHANGED vars
  BY <1>10 DEF vars, IInv, TypeOK, Flags, Times, TimersOfSession, IdleBound, WarningInv,
     CountdownInv, CountdownHonest
<1>11. QED
  BY <1>1, <1>2, <1>3, <1>4, <1>5, <1>6, <1>7, <1>8, <1>9, <1>10
  DEF Next, UserStep, TimerStep

(***************************************************************************)
(* Theorems                                                                *)
(***************************************************************************)

\* The timers, the countdown and the session are related as above in every
\* reachable state.
THEOREM InductiveInvariant == Spec => []IInv
<1>1. QED
  BY InitInv, NextInv, PTL DEF Spec

\* The page's timers keep their types.
THEOREM TypeCorrect == Spec => []TypeOK
<1>1. IInv => TypeOK
  BY DEF IInv
<1>2. QED
  BY <1>1, InductiveInvariant, PTL

\* No timer, countdown or warning is left over from an earlier session, and
\* a session always has its sign-out ahead.
THEOREM NoTimerLeftOver == Spec => []TimersOfSession
<1>1. IInv => TimersOfSession
  BY DEF IInv
<1>2. QED
  BY <1>1, InductiveInvariant, PTL

\* Outside of confirm() nobody stays signed in idle for longer than
\* INACTIVITY and the lateness of a timer.
THEOREM IdleTimeBounded == Spec => []IdleBound
<1>1. IInv => IdleBound
  BY DEF IInv
<1>2. QED
  BY <1>1, InductiveInvariant, PTL

\* The countdown never shows less time than the session has left, nor, but
\* for confirm(), more than the running second and its own lateness too much.
THEOREM CountdownIsHonest == Spec => []CountdownHonest
<1>1. IInv => CountdownHonest
  BY DEF IInv
<1>2. QED
  BY <1>1, InductiveInvariant, PTL

\* One step: the sign-out of the timer comes after the full idle time and a
\* warning in it.
LEMMA SignOutWarned ==
  ASSUME IInv, [Next]_vars, tracking, ~tracking', endedBy' = "timer"
  PROVE  /\ clock >= lastInput + INACTIVITY
         /\ warnedAt >= lastInput
         /\ clock - warnedAt >= WARNING - MaxLate
<1>1. SignOut
  BY DEF Next, vars, UserStep, TimerStep, StartTracking, Activity, StayActive,
     ClickLogout, ClickDelete, CloseDialog, ReloadPage, ShowInactivityWarning,
     Countdown, Tick
<1>2. inactivityTimer = lastInput + INACTIVITY /\ inactivityTimer <= clock
  BY <1>1 DEF SignOut, Due, IInv, TimersOfSession
<1>3. warningTimer = Off
  BY <1>1, <1>2 DEF SignOut, Due, IInv, TypeOK, Times, WarningInv
<1>4. QED
  BY <1>1, <1>2, <1>3 DEF SignOut, Due, IInv, TypeOK, Times, WarningInv

\* The timer signs out only whoever has been idle for INACTIVITY and was
\* warned WARNING earlier, less the lateness of a timer.
THEOREM WarnedInTime == Spec => FairlyWarned
<1>1. IInv /\ [Next]_vars =>
        [tracking /\ ~tracking' /\ endedBy' = "timer" =>
           /\ clock >= lastInput + INACTIVITY
           /\ warnedAt >= lastInput
           /\ clock - warnedAt >= WARNING - MaxLate]_vars
  BY SignOutWarned
<1>2. QED
  BY <1>1, InductiveInvariant, PTL DEF Spec, FairlyWarned

=============================================================================
