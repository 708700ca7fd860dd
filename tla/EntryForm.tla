----------------------------- MODULE EntryForm ------------------------------
(***************************************************************************)
(* The password field of the entry form in app.js: opening the form, the   *)
(* strength meter under the field, the eye button, and Generate, which     *)
(* shows what it made and sets a timer to hide it.  Timers are not stopped *)
(* by anything, and the form is one element that every entry uses.         *)
(*                                                                         *)
(* generated and byUser are history: no guard reads them.                  *)
(***************************************************************************)
EXTENDS Strength

CONSTANT REVEAL    \* how long Generate shows the password, 3 s in the code

ASSUME RevealAssumption == REVEAL \in Nat \ {0}

VARIABLES
  open,       \* is the form open
  value,      \* what the password field holds
  type,       \* the type of the field: does it show its content
  meter,      \* the label of the strength meter
  timers,     \* how long until each hiding timer fires
  generated,  \* the value comes from Generate
  byUser      \* the field was last shown by the eye button

formVars == <<open, value, type, meter, timers, generated, byUser>>

FormInit ==
  /\ open = FALSE
  /\ value = NoPassword
  /\ type = "password"
  /\ meter = ""
  /\ timers = {}
  /\ generated = FALSE
  /\ byUser = FALSE

\* Mutant: the meter is not reset with the form.
OpenAddKeepsMeter ==
  /\ open' = TRUE
  /\ value' = NoPassword
  /\ generated' = FALSE
  /\ UNCHANGED <<type, meter, timers, byUser>>

\* openAddModal.  A form that is reset fires no input event.
OpenAdd ==
  /\ open' = TRUE
  /\ value' = NoPassword
  /\ meter' = ""
  /\ generated' = FALSE
  /\ UNCHANGED <<type, timers, byUser>>

\* openEditModal, with the password of an entry.
OpenEdit(p) ==
  /\ open' = TRUE
  /\ value' = p
  /\ meter' = Label(p)
  /\ generated' = FALSE
  /\ UNCHANGED <<type, timers, byUser>>

\* closeModal; the form keeps its content.
Close ==
  /\ open
  /\ open' = FALSE
  /\ UNCHANGED <<value, type, meter, timers, generated, byUser>>

\* An input event of the field.
TypePassword(p) ==
  /\ open
  /\ value' = p
  /\ meter' = Label(p)
  /\ generated' = FALSE
  /\ UNCHANGED <<open, type, timers, byUser>>

\* The eye button.
ToggleVisibility ==
  /\ open
  /\ type' = IF type = "password" THEN "text" ELSE "password"
  /\ byUser' = (type' = "text")
  /\ UNCHANGED <<open, value, meter, timers, generated>>

\* Generate: 20 characters of all classes, whatever their order.
Generated == {p \in Password : p.length = 20
                               /\ p.classes = {"upper", "digit", "other"}}

\* Mutant: the delay is given in tenths.
GenerateTenfold(p) ==
  /\ open
  /\ value' = p
  /\ type' = "text"
  /\ meter' = Label(p)
  /\ timers' = timers \cup {10 * REVEAL}
  /\ generated' = TRUE
  /\ byUser' = FALSE
  /\ UNCHANGED open

\* Mutant: the timer is set only if the field was shown already.
GenerateNoTimer(p) ==
  /\ open
  /\ value' = p
  /\ type' = "text"
  /\ meter' = Label(p)
  /\ timers' = IF byUser THEN timers \cup {REVEAL} ELSE timers
  /\ generated' = TRUE
  /\ byUser' = FALSE
  /\ UNCHANGED open

Generate(p) ==
  /\ open
  /\ value' = p
  /\ type' = "text"
  /\ meter' = Label(p)
  /\ timers' = timers \cup {REVEAL}
  /\ generated' = TRUE
  /\ byUser' = FALSE
  /\ UNCHANGED open

\* A timer hides the field, whatever it holds and whoever showed it.
Hide ==
  /\ 0 \in timers
  /\ timers' = timers \ {0}
  /\ type' = "password"
  /\ UNCHANGED <<open, value, meter, generated, byUser>>

\* A second passes.
Tick ==
  /\ timers # {}
  /\ 0 \notin timers
  /\ timers' = {t - 1 : t \in timers}
  /\ UNCHANGED <<open, value, type, meter, generated, byUser>>

FormNext ==
  \/ OpenAdd \/ Close \/ ToggleVisibility \/ Hide \/ Tick
  \/ \E p \in Password : OpenEdit(p) \/ TypePassword(p)
  \/ \E p \in Generated : Generate(p)

FormSpec == FormInit /\ [][FormNext]_formVars

\* Time passes, and the timers fire.
FairFormSpec == FormSpec /\ WF_formVars(Hide) /\ WF_formVars(Tick)

(***************************************************************************)
(* Properties                                                              *)
(***************************************************************************)

\* The types of the form's state.
FormTypeOK ==
  /\ open \in BOOLEAN
  /\ value \in Password
  /\ type \in {"password", "text"}
  /\ meter \in {"", "Weak", "Fair", "Good", "Strong"}
  /\ timers \subseteq 0..REVEAL
  /\ generated \in BOOLEAN
  /\ byUser \in BOOLEAN

\* While the form is open the meter rates what is in the field, however it
\* got there.
MeterFresh == open => meter = Label(value)

\* What Generate makes is never rated as weak, and nothing short of 16
\* characters as strong.
RatingSound ==
  /\ open /\ generated => meter \in {"Fair", "Good", "Strong"}
  /\ open /\ meter = "Strong" => value.length >= 16

\* What Generate shows is hidden again.
HiddenAgain == type = "text" ~> type = "password" \/ byUser

=============================================================================
