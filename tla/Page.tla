-------------------------------- MODULE Page --------------------------------
(***************************************************************************)
(* The auth view and the vault view of one page: AuthForms and VaultGrid,  *)
(* which meet in performLogin and performLogout of app.js.  The login      *)
(* handler does not return before the vault is loaded, so its button stays *)
(* disabled, its failure is reported in a view that is hidden by then, and *)
(* after a sign-out it may still be loading the vault of the last session. *)
(***************************************************************************)
EXTENDS Naturals

CONSTANTS
  Ids,     \* the entries
  Saves    \* slots for the loads that follow a save

ASSUME SavesAssumption == "login" \notin Saves

Loads == {"login"} \cup Saves

VARIABLES
  view, tab, refresh, captured, pc, error, cause, expired, \* AuthForms
  signedIn, entries, cards, listeners, revealed, panes,    \* VaultGrid
  query, load, deleting, leaked, blank

Auth == INSTANCE AuthForms
Grid == INSTANCE VaultGrid

authVars == <<view, tab, refresh, captured, pc, error, cause, expired>>

gridVars == <<signedIn, entries, cards, listeners, revealed, panes, query,
              load, deleting, leaked, blank>>

vars == <<authVars, gridVars>>

Init == Auth!Init /\ Grid!Init

\* performLogin opens the vault view and loads it.
PerformLogin == Auth!LoggedIn /\ Grid!SignIn("login")

\* Its load ends, in whatever session and view by then.
LoginReturns == Auth!Opened /\ Grid!Loaded("login")
LoginFails == Auth!OpenFailed /\ Grid!LoadFailed("login")

\* performLogout.
PerformLogout == Auth!PerformLogout /\ Grid!SignOut

Next ==
  \/ PerformLogin \/ LoginReturns \/ LoginFails \/ PerformLogout
  \/ Auth!FormsStep /\ UNCHANGED gridVars
  \/ Grid!GridStep("login") /\ UNCHANGED authVars

Spec == Init /\ [][Next]_vars

\* What a load does once it runs.
LoadStep(l) ==
  \/ l = "login" /\ (LoginReturns \/ LoginFails)
  \/ Grid!Listed(l) /\ UNCHANGED authVars
  \/ /\ l \in Saves /\ (Grid!Loaded(l) \/ Grid!LoadFailed(l))
     /\ UNCHANGED authVars

\* A request is answered or its connection breaks, and promises settle.
FairSpec == Spec /\ \A l \in Loads : WF_vars(LoadStep(l))

(***************************************************************************)
(* Properties                                                              *)
(***************************************************************************)

\* The types of both views; one of them is active.
TypeOK ==
  /\ Auth!FormsTypeOK
  /\ Grid!GridTypeOK
  /\ signedIn <=> view = "vault"

\* A form that is not waiting shows a message exactly if its last submission
\* failed, also when both handlers were under way, one signed the user in or
\* out meanwhile, or a token ran out between the tries; except for a login
\* that ends in SESSION_EXPIRED (app.js:236), as that with a wrong password.
FailureShown ==
  \A f \in Auth!Forms : pc[f] = "idle" /\ ~(f = "login" /\ expired[f]) =>
    (error[f] # "" <=> cause[f] # "none")

\* A visible card stands for an entry that is in memory, and a click on one
\* of its buttons is handled once, whatever loads, deletes and searches
\* have rendered in between.
GridShowsEntries ==
  signedIn /\ "grid" \in panes =>
    /\ cards # {}
    /\ cards \subseteq entries
    /\ \A e \in cards : listeners[e] = 1

\* With no load running, the user sees either cards or the empty pane, and
\* the latter only if nothing matches; nothing at all only after a failed
\* load.
OnePane ==
  signedIn /\ (\A l \in Loads : load[l].pc = "idle") =>
    /\ blank \/ panes \in {{"grid"}, {"empty"}}
    /\ "empty" \in panes => entries \cap query = {}

\* After the sign-out the vault view holds no card, no revealed password and
\* no decrypted entry, until a load that outlived its session is rendered.
\* The entry form is not part of it: a password in it stays there.
VaultViewCleared ==
  ~signedIn /\ ~leaked => cards = {} /\ revealed = {} /\ entries = {}

\* The spinner does not spin for ever, and the login handler, which waits for
\* the load, enables its button again, also after sign-outs and in spite of
\* new loads.
SpinnerStops ==
  /\ [](signedIn => <>("loading" \notin panes))
  /\ pc["login"] = "loading" ~> pc["login"] = "idle"

=============================================================================
