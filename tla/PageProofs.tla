----------------------------- MODULE PageProofs -----------------------------
(***************************************************************************)
(* Proofs about Page for every set of entries and every number of loads,   *)
(* and about EntryForm, the form that the page's buttons open, for every   *)
(* set of password lengths and every delay of its timer.  The two views of *)
(* Page are proved about apart, action by action; the steps of the page    *)
(* then combine them.                                                      *)
(***************************************************************************)
EXTENDS Page, EntryForm, FiniteSetTheorems, TLAPS

(***************************************************************************)
(* The inductive invariant                                                 *)
(***************************************************************************)

\* A form that waits has forgotten its last submission; one that does not
\* shows what became of it.
SubmissionInv(f) ==
  /\ pc[f] # "idle" => error[f] = "" /\ cause[f] = "none" /\ ~expired[f]
  /\ pc[f] = "idle" /\ ~(f = "login" /\ expired[f]) =>
       (error[f] # "" <=> cause[f] # "none")

FormsInv ==
  /\ Auth!FormsTypeOK
  /\ \A f \in Auth!Forms : SubmissionInv(f)

\* The buttons of exactly the cards that are in the page have a listener,
\* and what the user sees of them is what renderGrid last made.
CardsInv ==
  /\ \A e \in Ids : listeners[e] = IF e \in cards THEN 1 ELSE 0
  /\ signedIn /\ "grid" \in panes => cards # {} /\ cards \subseteq entries

\* The empty pane and the grid exclude each other, the spinner spins only
\* for a load, and a pane is missing only after a load has failed.
PanesInv ==
  /\ ~ ({"empty", "grid"} \subseteq panes)
  /\ "empty" \in panes => entries \cap query = {}
  /\ signedIn /\ "loading" \in panes => \E l \in Loads : load[l].pc # "idle"
  /\ signedIn /\ ~blank /\ "loading" \notin panes =>
       "empty" \in panes \/ "grid" \in panes

\* What runs after a sign-out was begun before it.
SessionsInv ==
  \A l \in Loads : ~signedIn /\ load[l].pc # "idle" => load[l].old

GridInv ==
  /\ Grid!GridTypeOK
  /\ CardsInv
  /\ PanesInv
  /\ SessionsInv
  /\ VaultViewCleared

\* The views agree on who is signed in and on the load of the login.
ViewsInv ==
  /\ signedIn <=> view = "vault"
  /\ pc["login"] = "loading" <=> load["login"].pc # "idle"

IInv == FormsInv /\ GridInv /\ ViewsInv

(***************************************************************************)
(* The forms                                                               *)
(***************************************************************************)

USE DEF Auth!Forms

\* What a refresh token is worth.
Worth == {"none", "valid", "expired"}

USE DEF Worth

\* A handler that ends with a message exactly if it failed, or with a login
\* whose session has expired.
LEMMA EndInv ==
  ASSUME FormsInv, NEW f \in Auth!Forms,
         NEW why \in {"none", "mismatch", "short", "unreachable", "refused",
                      "other", "key", "load"},
         NEW message \in Auth!Messages,
         Auth!End(f, why, message),
         view' \in {"auth", "vault"}, tab' \in Auth!Forms,
         refresh' \in Worth, captured' \in [Auth!Forms -> Worth],
         NEW over \in BOOLEAN, expired' = [expired EXCEPT ![f] = over],
         (f = "login" /\ over) \/ (message # "" <=> why # "none")
  PROVE  FormsInv'
<1>1. Auth!FormsTypeOK'
  BY DEF FormsInv, Auth!FormsTypeOK, Auth!End
<1>2. ASSUME NEW g \in Auth!Forms PROVE SubmissionInv(g)'
  BY <1>2 DEF FormsInv, Auth!FormsTypeOK, Auth!End, SubmissionInv
<1> QED BY <1>1, <1>2 DEF FormsInv

\* A handler that goes on, and shows nothing of it.
LEMMA GoOnInv ==
  ASSUME FormsInv, NEW f \in Auth!Forms, pc[f] # "idle",
         NEW where \in {"sent", "refreshing", "retried", "deriving", "loading"},
         where \in {"deriving", "loading"} => f = "login",
         pc' = [pc EXCEPT ![f] = where],
         view' \in {"auth", "vault"}, tab' = tab,
         refresh' \in Worth, captured' \in [Auth!Forms -> Worth],
         UNCHANGED <<error, cause, expired>>
  PROVE  FormsInv'
<1>1. Auth!FormsTypeOK'
  BY DEF FormsInv, Auth!FormsTypeOK
<1>2. ASSUME NEW g \in Auth!Forms PROVE SubmissionInv(g)'
  BY <1>2 DEF FormsInv, Auth!FormsTypeOK, SubmissionInv
<1> QED BY <1>1, <1>2 DEF FormsInv

\* A step that touches no form.
LEMMA FormsAsideInv ==
  ASSUME FormsInv, UNCHANGED <<pc, error, cause, expired>>,
         view' \in {"auth", "vault"}, tab' \in Auth!Forms,
         refresh' \in Worth, captured' \in [Auth!Forms -> Worth]
  PROVE  FormsInv'
BY DEF FormsInv, Auth!FormsTypeOK, SubmissionInv

\* A submission empties what the form shows.
LEMMA SubmitInv ==
  ASSUME FormsInv, NEW f \in Auth!Forms, Auth!Submit(f)
  PROVE  FormsInv'
<1>1. Auth!FormsTypeOK'
  BY DEF FormsInv, Auth!FormsTypeOK, Auth!Submit, Auth!Messages
<1>2. ASSUME NEW g \in Auth!Forms PROVE SubmissionInv(g)'
  BY <1>2 DEF FormsInv, Auth!FormsTypeOK, Auth!Submit, SubmissionInv
<1> QED BY <1>1, <1>2 DEF FormsInv

\* The register form's own checks fail with a message.
LEMMA MistypedInv == ASSUME FormsInv, Auth!Mistyped PROVE FormsInv'
<1>1. PICK why \in {"mismatch", "short"} : Auth!End("register", why, why)
  BY DEF Auth!Mistyped
<1>2. why \in Auth!Messages /\ why # "" /\ why # "none"
  BY DEF Auth!Messages
<1>3. /\ view' \in {"auth", "vault"} /\ tab' \in Auth!Forms
      /\ refresh' \in Worth /\ captured' \in [Auth!Forms -> Worth]
      /\ expired' = [expired EXCEPT !["register"] = FALSE]
  BY DEF Auth!Mistyped, FormsInv, Auth!FormsTypeOK
<1> QED BY <1>1, <1>2, <1>3, EndInv

\* An answer ends the handler, or starts a refresh, or sends the request
\* again.
LEMMA AnsweredInv ==
  ASSUME FormsInv, NEW f \in Auth!Forms, Auth!Answered(f)
  PROVE  FormsInv'
<1> USE DEF Auth!Messages
<1>1. /\ view \in {"auth", "vault"} /\ tab \in Auth!Forms
      /\ refresh \in Worth /\ captured \in [Auth!Forms -> Worth]
      /\ [captured EXCEPT ![f] = "none"] \in [Auth!Forms -> Worth]
      /\ [captured EXCEPT ![f] = refresh] \in [Auth!Forms -> Worth]
      /\ expired = [expired EXCEPT ![f] = expired[f]]
      /\ expired[f] \in BOOLEAN
      /\ pc[f] # "idle" => ~expired[f]
  BY DEF FormsInv, Auth!FormsTypeOK, SubmissionInv
<1>2. ASSUME NEW why \in {"unreachable", "other", "refused"},
             Auth!End(f, why, why),
             UNCHANGED <<view, tab, refresh, captured, expired>>
      PROVE  FormsInv'
  BY <1>1, <1>2, EndInv
<1>3. CASE Auth!Break(f)
  BY <1>2, <1>3 DEF Auth!Break
<1>4. CASE Auth!AnswerOther(f)
  BY <1>2, <1>4 DEF Auth!AnswerOther
<1>5. CASE Auth!AnswerRefusedAgain(f)
  BY <1>2, <1>5 DEF Auth!AnswerRefusedAgain
<1>6. CASE Auth!AnswerRefused(f)
  BY <1>1, <1>6, GoOnInv DEF Auth!AnswerRefused
<1>7. CASE Auth!Refreshed(f)
  BY <1>1, <1>7, GoOnInv DEF Auth!Refreshed
<1>8. CASE Auth!SessionExpired(f)
  <2> DEFINE message == IF f = "login" THEN "" ELSE "SESSION_EXPIRED"
  <2>1. /\ Auth!End(f, "refused", message)
        /\ expired' = [expired EXCEPT ![f] = TRUE]
        /\ view' = view /\ tab' = tab /\ refresh' = "none"
        /\ captured' = [captured EXCEPT ![f] = "none"]
    BY <1>8 DEF Auth!SessionExpired
  <2>2. f = "login" \/ message # ""
    OBVIOUS
  <2>3. message \in Auth!Messages
    OBVIOUS
  <2> HIDE DEF message
  <2> QED BY <1>1, <2>1, <2>2, <2>3, EndInv
<1> QED BY <1>3, <1>4, <1>5, <1>6, <1>7, <1>8 DEF Auth!Answered

\* The account is made: the handler ends well.
LEMMA RegisteredInv == ASSUME FormsInv, Auth!Registered PROVE FormsInv'
<1>1. /\ view' \in {"auth", "vault"} /\ tab' \in Auth!Forms
      /\ refresh' \in Worth /\ captured' \in [Auth!Forms -> Worth]
      /\ expired["register"] \in BOOLEAN
      /\ expired' = [expired EXCEPT !["register"] = expired["register"]]
      /\ Auth!End("register", "none", "")
  BY DEF FormsInv, Auth!FormsTypeOK, Auth!Registered
<1>2. "" \in Auth!Messages
  BY DEF Auth!Messages
<1> QED BY <1>1, <1>2, EndInv

\* A login that was answered goes on to derive the key, ...
LEMMA StoreTokensInv == ASSUME FormsInv, Auth!StoreTokens PROVE FormsInv'
<1>1. view \in {"auth", "vault"} /\ captured \in [Auth!Forms -> Worth]
  BY DEF FormsInv, Auth!FormsTypeOK
<1> QED BY <1>1, GoOnInv DEF Auth!StoreTokens

\* ... and ends with a message if it cannot.
LEMMA DerivationFailsInv ==
  ASSUME FormsInv, Auth!DerivationFails PROVE FormsInv'
<1>1. /\ view' \in {"auth", "vault"} /\ tab' \in Auth!Forms
      /\ refresh' \in Worth /\ captured' \in [Auth!Forms -> Worth]
      /\ expired["login"] \in BOOLEAN
      /\ expired' = [expired EXCEPT !["login"] = expired["login"]]
      /\ Auth!End("login", "key", "no key")
  BY DEF FormsInv, Auth!FormsTypeOK, Auth!DerivationFails
<1>2. "no key" \in Auth!Messages
  BY DEF Auth!Messages
<1> QED BY <1>1, <1>2, EndInv

\* What happens in the auth view alone.
LEMMA FormsStepInv ==
  ASSUME FormsInv, Auth!FormsStep
  PROVE  /\ FormsInv'
         /\ view' = view
         /\ pc'["login"] = "loading" <=> pc["login"] = "loading"
<1>1. FormsInv'
  <2>1. ASSUME NEW f \in Auth!Forms, Auth!SelectTab(f) PROVE FormsInv'
    <3>1. FormsInv => /\ view \in {"auth", "vault"}
                      /\ refresh \in Worth
                      /\ captured \in [Auth!Forms -> Worth]
      BY DEF FormsInv, Auth!FormsTypeOK
    <3> QED BY <2>1, <3>1, FormsAsideInv DEF Auth!SelectTab
  <2>2. CASE Auth!TokenExpires
    <3>1. FormsInv => /\ view \in {"auth", "vault"} /\ tab \in Auth!Forms
                      /\ captured \in [Auth!Forms -> Worth]
      BY DEF FormsInv, Auth!FormsTypeOK
    <3> QED BY <2>2, <3>1, FormsAsideInv DEF Auth!TokenExpires
  <2> QED
    BY <2>1, <2>2, SubmitInv, AnsweredInv, RegisteredInv, MistypedInv,
       StoreTokensInv, DerivationFailsInv
    DEF Auth!FormsStep
<1>2. /\ view' = view
      /\ pc'["login"] = "loading" <=> pc["login"] = "loading"
  <2>1. pc \in [Auth!Forms -> {"idle", "sent", "refreshing", "retried",
                               "deriving", "loading"}]
    BY DEF FormsInv, Auth!FormsTypeOK
  <2>2. ASSUME NEW f \in Auth!Forms,
               Auth!SelectTab(f) \/ Auth!Submit(f) \/ Auth!Answered(f)
        PROVE  /\ view' = view
               /\ pc'["login"] = "loading" <=> pc["login"] = "loading"
    BY <2>1, <2>2
    DEF Auth!SelectTab, Auth!Submit, Auth!Answered, Auth!Break, Auth!End,
        Auth!AnswerOther, Auth!AnswerRefused, Auth!AnswerRefusedAgain,
        Auth!Refreshed, Auth!SessionExpired
  <2>3. CASE \/ Auth!StoreTokens \/ Auth!DerivationFails
             \/ Auth!Registered \/ Auth!Mistyped \/ Auth!TokenExpires
    BY <2>1, <2>3
    DEF Auth!StoreTokens, Auth!DerivationFails, Auth!Registered,
        Auth!Mistyped, Auth!TokenExpires, Auth!End
  <2> QED BY <2>2, <2>3 DEF Auth!FormsStep
<1> QED BY <1>1, <1>2

\* performLogin: the login handler goes on with the load.
LEMMA LoggedInInv == ASSUME FormsInv, Auth!LoggedIn PROVE FormsInv'
<1>1. refresh \in Worth /\ captured \in [Auth!Forms -> Worth]
  BY DEF FormsInv, Auth!FormsTypeOK
<1> QED BY <1>1, GoOnInv DEF Auth!LoggedIn

\* The load of a login ends, and with it the login handler.
LEMMA OpenInv ==
  ASSUME FormsInv, Auth!Opened \/ Auth!OpenFailed
  PROVE  FormsInv' /\ pc'["login"] = "idle"
<1> USE DEF Auth!Messages
<1>1. /\ view' \in {"auth", "vault"} /\ tab' \in Auth!Forms
      /\ refresh' \in Worth /\ captured' \in [Auth!Forms -> Worth]
      /\ expired["login"] \in BOOLEAN
      /\ expired' = [expired EXCEPT !["login"] = expired["login"]]
      /\ pc \in [Auth!Forms -> {"idle", "sent", "refreshing", "retried",
                                "deriving", "loading"}]
  BY DEF FormsInv, Auth!FormsTypeOK, Auth!Opened, Auth!OpenFailed
<1>2. CASE Auth!Opened
  <2>1. Auth!End("login", "none", "")
    BY <1>2 DEF Auth!Opened
  <2>2. FormsInv'
    BY <1>1, <2>1, EndInv
  <2> QED BY <1>1, <2>1, <2>2 DEF Auth!End
<1>3. CASE Auth!OpenFailed
  <2>1. Auth!End("login", "load", "load failed")
    BY <1>3 DEF Auth!OpenFailed
  <2>2. FormsInv'
    BY <1>1, <2>1, EndInv
  <2> QED BY <1>1, <2>1, <2>2 DEF Auth!End
<1> QED BY <1>2, <1>3

\* performLogout touches no form.
LEMMA LogoutFormsInv == ASSUME FormsInv, Auth!PerformLogout PROVE FormsInv'
<1>1. tab' \in Auth!Forms /\ captured' \in [Auth!Forms -> Worth]
  BY DEF FormsInv, Auth!FormsTypeOK, Auth!PerformLogout
<1> QED BY <1>1, FormsAsideInv DEF Auth!PerformLogout

(***************************************************************************)
(* The cards                                                               *)
(***************************************************************************)

\* A run of loadAndRender, as the type invariant has it.
Run == [pc : {"idle", "listing", "decrypting"}, data : SUBSET Ids,
        old : BOOLEAN]

\* renderGrid, of a part of the entries: the panes, the cards and their
\* listeners agree afterwards.
LEMMA RenderInv ==
  ASSUME GridInv, NEW shown \in SUBSET Ids, NEW visible \in SUBSET panes,
         Grid!RenderGrid(shown, visible),
         shown \subseteq entries', entries' \subseteq Ids,
         query' \subseteq Ids, shown = {} => entries' \cap query' = {},
         signedIn /\ "loading" \in visible =>
           \E l \in Loads : load'[l].pc # "idle",
         ~signedIn' /\ ~leaked' => entries' = {},
         signedIn' = signedIn, leaked => leaked',
         leaked' \in BOOLEAN, deleting' \subseteq Ids,
         load' \in [Loads -> Run], SessionsInv'
  PROVE  GridInv'
<1> USE DEF Grid!RenderGrid, Grid!grid
<1>0. Grid!GridTypeOK'
  <2>1. /\ cards' \subseteq Ids /\ revealed' \subseteq cards'
        /\ listeners' \in [Ids -> 0..1]
    BY DEF GridInv, Grid!GridTypeOK
  <2>2. panes' \subseteq {"loading", "empty", "grid"} /\ blank' \in BOOLEAN
    BY DEF GridInv, Grid!GridTypeOK
  <2>3. signedIn' \in BOOLEAN
    BY DEF GridInv, Grid!GridTypeOK
  <2> QED BY <2>1, <2>2, <2>3 DEF Grid!GridTypeOK, Run
<1>1. PanesInv'
  BY DEF PanesInv, GridInv, Grid!GridTypeOK
<1>2. CardsInv'
  BY DEF CardsInv, GridInv, Grid!GridTypeOK
<1>3. VaultViewCleared'
  BY DEF VaultViewCleared, GridInv
<1> QED BY <1>0, <1>1, <1>2, <1>3 DEF GridInv

\* A run of loadAndRender begins: nothing but the spinner is visible.
LEMMA BeginLoadInv ==
  ASSUME GridInv, NEW l \in Loads, Grid!BeginLoad(l),
         signedIn' = TRUE,
         UNCHANGED <<entries, cards, listeners, revealed, query, deleting,
                     leaked, blank>>
  PROVE  GridInv'
<1> USE DEF Grid!BeginLoad, Grid!NoLoad
<1>1. Grid!GridTypeOK'
  BY DEF GridInv, Grid!GridTypeOK
<1>2. load'[l].pc # "idle"
  BY DEF GridInv, Grid!GridTypeOK
<1>3. PanesInv' /\ CardsInv'
  BY <1>2 DEF PanesInv, CardsInv, GridInv
<1>4. SessionsInv' /\ VaultViewCleared'
  BY DEF SessionsInv, VaultViewCleared
<1> QED BY <1>1, <1>3, <1>4 DEF GridInv

\* The server's list is there: the load goes on in its session.
LEMMA ListedInv ==
  ASSUME GridInv, NEW l \in Loads, Grid!Listed(l)
  PROVE  GridInv' /\ load'[l].pc # "idle"
         /\ \A k \in Loads : k # l => load'[k] = load[k]
<1> USE DEF Grid!Listed, Grid!grid
<1>1. Grid!GridTypeOK'
  <2>1. load \in [Loads -> Run]
    BY DEF GridInv, Grid!GridTypeOK, Run
  <2>2. PICK data \in SUBSET Ids :
          load' = [load EXCEPT ![l] = [@ EXCEPT !.pc = "decrypting", !.data = data]]
    OBVIOUS
  <2>3. [load[l] EXCEPT !.pc = "decrypting", !.data = data] \in Run
    BY <2>1 DEF Run
  <2>4. load' \in [Loads -> Run]
    BY <2>1, <2>2, <2>3
  <2> QED BY <2>4 DEF GridInv, Grid!GridTypeOK, Run
<1>2. /\ load'[l].pc = "decrypting" /\ load[l].pc = "listing"
      /\ load'[l].old = load[l].old
      /\ \A k \in Loads : k # l => load'[k] = load[k]
  BY DEF GridInv, Grid!GridTypeOK
<1>3. PanesInv'
  BY <1>2 DEF PanesInv, GridInv
<1>4. CardsInv' /\ VaultViewCleared'
  BY DEF CardsInv, VaultViewCleared, GridInv
<1>5. SessionsInv'
  BY <1>2 DEF SessionsInv, GridInv
<1> QED BY <1>1, <1>2, <1>3, <1>4, <1>5 DEF GridInv

\* A load ends: no other run is disturbed, and no session mistaken.
LEMMA LoadOver ==
  ASSUME GridInv, NEW l \in Loads, signedIn' = signedIn,
         load' = [load EXCEPT ![l] = Grid!NoLoad]
  PROVE  /\ SessionsInv'
         /\ load'[l].pc = "idle"
         /\ \A k \in Loads : k # l => load'[k] = load[k]
BY DEF GridInv, SessionsInv, Grid!GridTypeOK, Grid!NoLoad

\* What was loaded is rendered, also in a later session or in none.
LEMMA LoadedInv ==
  ASSUME GridInv, NEW l \in Loads, Grid!Loaded(l) PROVE GridInv'
<1>1. PICK data \in SUBSET Ids : data = load[l].data
  BY DEF GridInv, Grid!GridTypeOK
<1>2. /\ Grid!RenderGrid(data, panes \ {"loading"})
      /\ entries' = data /\ query' = query /\ signedIn' = signedIn
      /\ leaked' = (leaked \/ load[l].old)
      /\ load' = [load EXCEPT ![l] = Grid!NoLoad]
  BY <1>1 DEF Grid!Loaded
<1>3. load' \in [Loads -> Run]
  BY <1>2 DEF GridInv, Grid!GridTypeOK, Grid!NoLoad, Run
<1>4. SessionsInv'
  BY <1>2, LoadOver
<1>5. (leaked => leaked') /\ (~signedIn' => leaked') /\ leaked' \in BOOLEAN
  <2>1. leaked \in BOOLEAN /\ load[l].old \in BOOLEAN
    BY DEF GridInv, Grid!GridTypeOK
  <2>2. ~signedIn => load[l].old
    BY DEF GridInv, SessionsInv, Grid!Loaded
  <2> QED BY <1>2, <2>1, <2>2
<1>6. /\ query' \subseteq Ids /\ deleting' \subseteq Ids
      /\ panes \ {"loading"} \in SUBSET panes
  BY <1>2 DEF GridInv, Grid!GridTypeOK, Grid!Loaded
<1> QED BY <1>2, <1>3, <1>4, <1>5, <1>6, RenderInv

\* A load fails: its spinner goes, and what it hid does not come back.
LEMMA LoadFailedInv ==
  ASSUME GridInv, NEW l \in Loads, Grid!LoadFailed(l) PROVE GridInv'
<1> USE DEF Grid!LoadFailed, Grid!grid
<1>1. Grid!GridTypeOK'
  BY DEF GridInv, Grid!GridTypeOK, Grid!NoLoad
<1>2. SessionsInv'
  BY LoadOver
<1>3. PanesInv' /\ CardsInv' /\ VaultViewCleared'
  BY DEF PanesInv, CardsInv, VaultViewCleared, GridInv
<1> QED BY <1>1, <1>2, <1>3 DEF GridInv

\* The search box renders what matches.
LEMMA SearchInv ==
  ASSUME GridInv, NEW q \in SUBSET Ids, Grid!Search(q) PROVE GridInv'
<1>1. PICK shown \in SUBSET Ids : shown = entries \cap q
  BY DEF GridInv, Grid!GridTypeOK
<1>2. /\ Grid!RenderGrid(shown, panes)
      /\ query' = q
      /\ UNCHANGED <<signedIn, entries, load, deleting, leaked>>
  BY <1>1 DEF Grid!Search
<1>3. /\ load' \in [Loads -> Run]
      /\ deleting' \subseteq Ids /\ leaked' \in BOOLEAN
  BY <1>2 DEF GridInv, Grid!GridTypeOK, Run
<1>4. SessionsInv'
  BY <1>2 DEF GridInv, SessionsInv
<1>5. /\ signedIn /\ "loading" \in panes =>
           \E l \in Loads : load'[l].pc # "idle"
      /\ ~signedIn' /\ ~leaked' => entries' = {}
      /\ entries \subseteq Ids
  BY <1>2 DEF GridInv, PanesInv, VaultViewCleared, Grid!GridTypeOK
<1> QED BY <1>1, <1>2, <1>3, <1>4, <1>5, RenderInv

\* A Delete that is answered renders what is left, whatever is searched for.
LEMMA DeletedInv ==
  ASSUME GridInv, NEW e \in Ids, Grid!Deleted(e) PROVE GridInv'
<1>1. PICK shown \in SUBSET Ids : shown = entries \ {e}
  BY DEF GridInv, Grid!GridTypeOK
<1>2. /\ Grid!RenderGrid(shown, panes)
      /\ entries' = shown
      /\ deleting' = deleting \ {e}
      /\ UNCHANGED <<signedIn, query, load, leaked>>
  BY <1>1 DEF Grid!Deleted
<1>3. /\ load' \in [Loads -> Run]
      /\ deleting' \subseteq Ids /\ leaked' \in BOOLEAN
  BY <1>2 DEF GridInv, Grid!GridTypeOK, Run
<1>4. SessionsInv'
  BY <1>2 DEF GridInv, SessionsInv
<1>5. /\ signedIn /\ "loading" \in panes =>
           \E l \in Loads : load'[l].pc # "idle"
      /\ ~signedIn' /\ ~leaked' => entries' = {}
      /\ query' \subseteq Ids
  BY <1>1, <1>2 DEF GridInv, PanesInv, VaultViewCleared, Grid!GridTypeOK
<1> QED BY <1>2, <1>3, <1>4, <1>5, RenderInv

\* An eye button, a click on Delete and a Delete that fails render nothing.
LEMMA ClickInv ==
  ASSUME GridInv, NEW e \in Ids,
         Grid!ToggleShow(e) \/ Grid!ClickDelete(e) \/ Grid!DeleteFailed(e)
  PROVE  GridInv'
<1> USE DEF Grid!ToggleShow, Grid!ClickDelete, Grid!DeleteFailed, Grid!grid
<1>1. Grid!GridTypeOK'
  BY DEF GridInv, Grid!GridTypeOK
<1>2. PanesInv' /\ CardsInv' /\ SessionsInv'
  BY DEF PanesInv, CardsInv, SessionsInv, GridInv
<1>3. VaultViewCleared'
  BY DEF VaultViewCleared, GridInv
<1> QED BY <1>1, <1>2, <1>3 DEF GridInv

\* clearVaultKey: what runs is of an old session from now on.
LEMMA SignOutInv == ASSUME GridInv, Grid!SignOut PROVE GridInv'
<1> USE DEF Grid!SignOut
<1>1. Grid!GridTypeOK'
  <2>1. load \in [Loads -> Run]
    BY DEF GridInv, Grid!GridTypeOK, Run
  <2>2. load' \in [Loads -> Run]
    <3>1. ASSUME NEW l \in Loads
          PROVE  [load[l] EXCEPT !.old = load[l].pc # "idle"] \in Run
      BY <2>1 DEF Run
    <3> QED BY <3>1
  <2>3. listeners' \in [Ids -> 0..1]
    <3>1. listeners' = [e \in Ids |-> 0]
      OBVIOUS
    <3> QED BY <3>1, 0 \in 0..1
  <2>4. /\ panes' \subseteq {"loading", "empty", "grid"}
        /\ query' \subseteq Ids /\ deleting' \subseteq Ids
        /\ blank' \in BOOLEAN
    BY DEF GridInv, Grid!GridTypeOK
  <2>5. signedIn' \in BOOLEAN /\ leaked' \in BOOLEAN
    OBVIOUS
  <2> QED BY <2>2, <2>3, <2>4, <2>5 DEF Grid!GridTypeOK, Run
<1>2. \A l \in Loads : load'[l].pc = load[l].pc
  BY DEF GridInv, Grid!GridTypeOK
<1>3. SessionsInv'
  BY DEF GridInv, Grid!GridTypeOK, SessionsInv
<1>4. PanesInv' /\ CardsInv' /\ VaultViewCleared'
  BY DEF PanesInv, CardsInv, VaultViewCleared, GridInv
<1> QED BY <1>1, <1>3, <1>4 DEF GridInv

\* A load of the page's: what LoginReturns and LoginFails do to the grid, and
\* all that a load after a save does.
LEMMA LoadEndInv ==
  ASSUME GridInv, NEW l \in Loads, Grid!Loaded(l) \/ Grid!LoadFailed(l)
  PROVE  GridInv' /\ signedIn' = signedIn /\ load'[l].pc = "idle"
         /\ \A k \in Loads : k # l => load'[k] = load[k]
<1>1. GridInv'
  BY LoadedInv, LoadFailedInv
<1>2. signedIn' = signedIn /\ load' = [load EXCEPT ![l] = Grid!NoLoad]
  BY DEF Grid!Loaded, Grid!LoadFailed
<1> QED BY <1>1, <1>2, LoadOver

\* What happens in the vault view alone.
LEMMA GridStepInv ==
  ASSUME GridInv, Grid!GridStep("login")
  PROVE  /\ GridInv'
         /\ signedIn' = signedIn
         /\ load'["login"].pc # "idle" <=> load["login"].pc # "idle"
<1>0. "login" \in Loads
  BY DEF Loads
<1>1. CASE \E l \in Loads : Grid!Listed(l)
  <2>1. PICK l \in Loads : Grid!Listed(l)
    BY <1>1
  <2>2. GridInv' /\ load'[l].pc # "idle"
        /\ \A k \in Loads : k # l => load'[k] = load[k]
    BY <2>1, ListedInv
  <2>3. signedIn' = signedIn /\ load[l].pc # "idle"
    BY <2>1 DEF Grid!Listed
  <2> QED BY <1>0, <2>2, <2>3
<1>2. CASE \E l \in Loads \ {"login"} : Grid!SaveLoadStep(l)
  <2>1. PICK l \in Loads \ {"login"} : Grid!SaveLoadStep(l)
    BY <1>2
  <2>2. CASE Grid!LoadAfterSave(l)
    <3>1. GridInv' /\ signedIn' = signedIn
      <4>1. signedIn' = TRUE
        BY <2>2 DEF Grid!LoadAfterSave, GridInv, Grid!GridTypeOK
      <4>2. signedIn = TRUE
        BY <2>2 DEF Grid!LoadAfterSave, GridInv, Grid!GridTypeOK
      <4> QED BY <2>2, <4>1, <4>2, BeginLoadInv
              DEF Grid!LoadAfterSave, Grid!grid
    <3>2. load'["login"] = load["login"]
      BY <2>2, <1>0 DEF Grid!LoadAfterSave, Grid!BeginLoad, GridInv,
                        Grid!GridTypeOK
    <3> QED BY <3>1, <3>2
  <2>3. CASE Grid!Loaded(l) \/ Grid!LoadFailed(l)
    BY <1>0, <2>3, LoadEndInv
  <2> QED BY <2>1, <2>2, <2>3 DEF Grid!SaveLoadStep
<1>3. ASSUME NEW e \in Ids, Grid!ToggleShow(e) \/ Grid!ClickDelete(e)
                            \/ Grid!Deleted(e) \/ Grid!DeleteFailed(e)
      PROVE  GridInv' /\ signedIn' = signedIn /\ load' = load
  <2>1. GridInv'
    BY <1>3, ClickInv, DeletedInv
  <2>2. signedIn' = signedIn /\ load' = load
    BY <1>3 DEF Grid!ToggleShow, Grid!ClickDelete, Grid!Deleted,
                Grid!DeleteFailed
  <2> QED BY <2>1, <2>2
<1>4. ASSUME NEW q \in SUBSET Ids, Grid!Search(q)
      PROVE  GridInv' /\ signedIn' = signedIn /\ load' = load
  BY <1>4, SearchInv DEF Grid!Search
<1> QED BY <1>1, <1>2, <1>3, <1>4 DEF Grid!GridStep

(***************************************************************************)
(* The page                                                                *)
(***************************************************************************)

\* A page that was just opened shows nothing and does nothing.
LEMMA InitInv == Init => IInv
<1> SUFFICES ASSUME Init PROVE IInv
  OBVIOUS
<1>0. 0 \in 0..1
  OBVIOUS
<1> USE DEF Init, Auth!Init, Grid!Init, Grid!NoLoad
<1>1. FormsInv
  BY DEF FormsInv, Auth!FormsTypeOK, SubmissionInv, Auth!Messages
<1>2. GridInv
  <2>1. Grid!GridTypeOK
    <3>1. listeners = [e \in Ids |-> 0] /\ listeners \in [Ids -> 0..1]
      BY <1>0
    <3>2. load \in [Loads -> Run]
      BY DEF Run
    <3>3. signedIn \in BOOLEAN /\ leaked \in BOOLEAN /\ blank \in BOOLEAN
      OBVIOUS
    <3>4. /\ panes \subseteq {"loading", "empty", "grid"}
          /\ query \subseteq Ids /\ revealed \subseteq cards
      OBVIOUS
    <3> QED BY <3>1, <3>2, <3>3, <3>4 DEF Grid!GridTypeOK, Run
  <2>2. CardsInv /\ PanesInv
    BY DEF CardsInv, PanesInv
  <2>3. SessionsInv /\ VaultViewCleared
    BY DEF SessionsInv, VaultViewCleared
  <2> QED BY <2>1, <2>2, <2>3 DEF GridInv
<1>3. ViewsInv
  BY DEF ViewsInv, Loads
<1> QED BY <1>1, <1>2, <1>3 DEF IInv

\* performLogin, in both views.
LEMMA PerformLoginInv == ASSUME IInv, PerformLogin PROVE IInv'
<1>1. "login" \in Loads
  BY DEF Loads
<1>2. FormsInv'
  BY LoggedInInv DEF IInv, PerformLogin
<1>3. GridInv'
  BY <1>1, BeginLoadInv DEF IInv, PerformLogin, Grid!SignIn, Grid!grid
<1>4. ViewsInv'
  <2>1. view' = "vault" /\ pc'["login"] = "loading"
    BY DEF PerformLogin, Auth!LoggedIn, IInv, FormsInv, Auth!FormsTypeOK
  <2>2. signedIn' /\ load'["login"].pc = "listing"
    BY <1>1 DEF PerformLogin, Grid!SignIn, Grid!BeginLoad, Grid!NoLoad,
                IInv, GridInv, Grid!GridTypeOK
  <2> QED BY <2>1, <2>2 DEF ViewsInv
<1> QED BY <1>2, <1>3, <1>4 DEF IInv

\* The load of the login ends in both views.
LEMMA LoginEndInv ==
  ASSUME IInv, LoginReturns \/ LoginFails PROVE IInv'
<1>1. FormsInv' /\ pc'["login"] = "idle" /\ view' = view
  BY OpenInv DEF IInv, LoginReturns, LoginFails, Auth!Opened, Auth!OpenFailed
<1>2. GridInv' /\ signedIn' = signedIn /\ load'["login"].pc = "idle"
  BY LoadEndInv DEF IInv, LoginReturns, LoginFails, Loads
<1> QED BY <1>1, <1>2 DEF IInv, ViewsInv

\* performLogout, in both views: a load of the login goes on in both.
LEMMA PerformLogoutInv == ASSUME IInv, PerformLogout PROVE IInv'
<1>1. FormsInv' /\ view' = "auth" /\ pc' = pc
  BY LogoutFormsInv DEF IInv, PerformLogout, Auth!PerformLogout
<1>2. GridInv' /\ ~signedIn'
  BY SignOutInv DEF IInv, PerformLogout, Grid!SignOut
<1>3. load'["login"].pc = load["login"].pc
  BY DEF IInv, PerformLogout, Grid!SignOut, Loads, GridInv, Grid!GridTypeOK
<1> QED BY <1>1, <1>2, <1>3 DEF IInv, ViewsInv

\* No step of the page breaks the invariant.
LEMMA NextInv == IInv /\ [Next]_vars => IInv'
<1> SUFFICES ASSUME IInv, [Next]_vars PROVE IInv'
  OBVIOUS
<1>1. CASE Auth!FormsStep /\ UNCHANGED gridVars
  <2>1. GridInv' /\ UNCHANGED <<signedIn, load>>
    BY <1>1 DEF IInv, GridInv, Grid!GridTypeOK, CardsInv, PanesInv,
                SessionsInv, VaultViewCleared, gridVars
  <2> QED BY <1>1, <2>1, FormsStepInv DEF IInv, ViewsInv
<1>2. CASE Grid!GridStep("login") /\ UNCHANGED authVars
  <2>1. FormsInv' /\ UNCHANGED <<view, pc>>
    BY <1>2 DEF IInv, FormsInv, Auth!FormsTypeOK, SubmissionInv, authVars
  <2> QED BY <1>2, <2>1, GridStepInv DEF IInv, ViewsInv
<1>3. CASE UNCHANGED vars
  <2>1. GridInv'
    BY <1>3 DEF IInv, GridInv, Grid!GridTypeOK, CardsInv, PanesInv,
                SessionsInv, VaultViewCleared, gridVars, vars
  <2>2. FormsInv' /\ ViewsInv'
    BY <1>3 DEF IInv, FormsInv, Auth!FormsTypeOK, SubmissionInv, ViewsInv,
                authVars, gridVars, vars
  <2> QED BY <2>1, <2>2 DEF IInv
<1> QED
  BY <1>1, <1>2, <1>3, PerformLoginInv, LoginEndInv, PerformLogoutInv
  DEF Next

(***************************************************************************)
(* Theorems                                                                *)
(***************************************************************************)

\* Whatever the user clicks, and in whatever order requests are answered,
\* the two views stay consistent in themselves and with each other.
THEOREM InductiveInvariant == Spec => []IInv
BY InitInv, NextInv, PTL DEF Spec

\* The types of both views; one of them is active.
THEOREM TypeCorrect == Spec => []TypeOK
<1>1. IInv => TypeOK
  BY DEF IInv, FormsInv, GridInv, ViewsInv, TypeOK
<1> QED BY <1>1, InductiveInvariant, PTL

\* A form that does not wait shows a message exactly if its last submission
\* failed.
THEOREM FailuresShown == Spec => []FailureShown
<1>1. IInv => FailureShown
  BY DEF IInv, FormsInv, SubmissionInv, FailureShown
<1> QED BY <1>1, InductiveInvariant, PTL

\* A visible card is an entry in memory, and its buttons work once.
THEOREM CardsAreEntries == Spec => []GridShowsEntries
<1>1. IInv => GridShowsEntries
  BY DEF IInv, GridInv, CardsInv, GridShowsEntries, Grid!GridTypeOK
<1> QED BY <1>1, InductiveInvariant, PTL

\* Without a load the user sees the cards or the empty pane, and the latter
\* only if nothing matches.
THEOREM OnePaneVisible == Spec => []OnePane
<1>1. IInv => OnePane
  <2> SUFFICES ASSUME IInv, signedIn, \A l \in Loads : load[l].pc = "idle"
               PROVE  /\ blank \/ panes \in {{"grid"}, {"empty"}}
                      /\ "empty" \in panes => entries \cap query = {}
    BY DEF OnePane
  <2>1. "loading" \notin panes
    BY DEF IInv, GridInv, PanesInv
  <2>2. panes \subseteq {"loading", "empty", "grid"}
    BY DEF IInv, GridInv, Grid!GridTypeOK
  <2> QED BY <2>1, <2>2 DEF IInv, GridInv, PanesInv
<1> QED BY <1>1, InductiveInvariant, PTL

\* The spinner never spins for nothing: a load is there to take it away,
\* also when several ran and an earlier one has ended; and a login handler
\* that waits for its load waits for one that is there.
THEOREM SpinnerHasLoad ==
  Spec => []( /\ signedIn /\ "loading" \in panes
                => \E l \in Loads : load[l].pc # "idle"
              /\ pc["login"] = "loading" => load["login"].pc # "idle")
<1>1. IInv => ( /\ signedIn /\ "loading" \in panes
                  => \E l \in Loads : load[l].pc # "idle"
                /\ pc["login"] = "loading" => load["login"].pc # "idle")
  BY DEF IInv, GridInv, PanesInv, ViewsInv
<1> QED BY <1>1, InductiveInvariant, PTL

\* The vault view holds no card, revealed password or decrypted entry after
\* the sign-out, until a load that outlived its session is rendered; what
\* the entry form holds is another matter.
THEOREM ClearsVaultView == Spec => []VaultViewCleared
<1>1. IInv => VaultViewCleared
  BY DEF IInv, GridInv
<1> QED BY <1>1, InductiveInvariant, PTL

(***************************************************************************)
(* The strength meter                                                      *)
(***************************************************************************)

\* There are four lengths that earn a point.
LEMMA FourLengths ==
  IsFiniteSet({8, 12, 16, 20}) /\ Cardinality({8, 12, 16, 20}) = 4
<1>1. {8, 12, 16, 20} = {8} \cup {12} \cup {16} \cup {20}
  OBVIOUS
<1>2. IsFiniteSet({8}) /\ Cardinality({8}) = 1
  BY FS_Singleton
<1>3. /\ IsFiniteSet({8} \cup {12})
      /\ Cardinality({8} \cup {12}) = 2
  BY <1>2, FS_AddElement
<1>4. /\ IsFiniteSet({8} \cup {12} \cup {16})
      /\ Cardinality({8} \cup {12} \cup {16}) = 3
  <2>1. 16 \notin {8} \cup {12}
    OBVIOUS
  <2> QED BY <1>3, <2>1, FS_AddElement
<1>5. /\ IsFiniteSet({8} \cup {12} \cup {16} \cup {20})
      /\ Cardinality({8} \cup {12} \cup {16} \cup {20}) = 4
  <2>1. 20 \notin {8} \cup {12} \cup {16}
    OBVIOUS
  <2> QED BY <1>4, <2>1, FS_AddElement
<1> QED BY <1>1, <1>5

\* A password of 20 characters has all the points for its length.
LEMMA LongestPoints ==
  ASSUME NEW p \in Password, p.length = 20 PROVE LengthPoints(p) = 4
<1>1. {n \in {8, 12, 16, 20} : p.length >= n} = {8, 12, 16, 20}
  OBVIOUS
<1> QED BY <1>1, FourLengths DEF LengthPoints

\* One of less than 16 characters has at most two of them.
LEMMA ShortPoints ==
  ASSUME NEW p \in Password, p.length < 16 PROVE LengthPoints(p) \in 0..2
<1> DEFINE earned == {n \in {8, 12, 16, 20} : p.length >= n}
<1>1. p.length \in Nat
  BY LengthsAssumption DEF Password
<1>2. earned \subseteq {8} \cup {12}
  BY <1>1
<1>3. IsFiniteSet({8}) /\ Cardinality({8}) = 1
  BY FS_Singleton
<1>4. /\ IsFiniteSet({8} \cup {12})
      /\ Cardinality({8} \cup {12}) = 2
  BY <1>3, FS_AddElement
<1>5. IsFiniteSet(earned) /\ Cardinality(earned) <= 2
  BY <1>2, <1>4, FS_Subset
<1>6. Cardinality(earned) \in Nat
  BY <1>5, FS_CardinalityType
<1> QED BY <1>5, <1>6 DEF LengthPoints

\* There are three classes of characters.
LEMMA ClassCount ==
  /\ Cardinality({"upper", "digit", "other"}) = 3
  /\ \A p \in Password : Cardinality(p.classes) \in 0..3
<1>1. {"upper", "digit", "other"} = {"upper"} \cup {"digit"} \cup {"other"}
  OBVIOUS
<1>2. IsFiniteSet({"upper"}) /\ Cardinality({"upper"}) = 1
  BY FS_Singleton
<1>3. /\ IsFiniteSet({"upper"} \cup {"digit"})
      /\ Cardinality({"upper"} \cup {"digit"}) = 2
  BY <1>2, FS_AddElement
<1>4. /\ IsFiniteSet({"upper", "digit", "other"})
      /\ Cardinality({"upper", "digit", "other"}) = 3
  BY <1>1, <1>3, FS_AddElement
<1>5. ASSUME NEW p \in Password PROVE Cardinality(p.classes) \in 0..3
  <2>1. p.classes \subseteq {"upper", "digit", "other"}
    BY DEF Password
  <2>2. IsFiniteSet(p.classes) /\ Cardinality(p.classes) <= 3
    BY <1>4, <2>1, FS_Subset
  <2> QED BY <2>2, FS_CardinalityType
<1> QED BY <1>4, <1>5

\* The rating of a password is one of the five labels.
LEMMA LabelType ==
  ASSUME NEW p \in Password
  PROVE  /\ Label(p) \in {"", "Weak", "Fair", "Good", "Strong"}
         /\ Score(p) \in Nat
<1>1. p.length \in Nat
  BY LengthsAssumption DEF Password
<1>2. LengthPoints(p) \in Nat
  <2>1. IsFiniteSet({n \in {8, 12, 16, 20} : p.length >= n})
    BY FourLengths, FS_Subset
  <2> QED BY <2>1, FS_CardinalityType DEF LengthPoints
<1>3. Penalty(p) \in Nat
  BY DEF Penalty
<1>4. Score(p) \in Nat
  BY <1>2, <1>3, ClassCount DEF Score
<1>5. \/ p.length = 0
      \/ p.length > 0 /\ Score(p) <= 2
      \/ p.length > 0 /\ Score(p) \in 3..4
      \/ p.length > 0 /\ Score(p) = 5
      \/ p.length > 0 /\ Score(p) >= 6
  BY <1>1, <1>4
<1> QED BY <1>4, <1>5 DEF Label

\* What Generate makes is never rated as weak, even if it repeats itself.
LEMMA GeneratedRating ==
  ASSUME NEW p \in Generated PROVE Label(p) \in {"Fair", "Good", "Strong"}
<1>1. /\ p \in Password /\ p.length = 20
      /\ p.classes = {"upper", "digit", "other"}
  BY DEF Generated
<1>2. LengthPoints(p) = 4 /\ Cardinality(p.classes) = 3
  BY <1>1, LongestPoints, ClassCount
<1>3. Penalty(p) \in 0..3
  BY DEF Penalty
<1>4. Score(p) \in 4..7
  BY <1>2, <1>3 DEF Score
<1>5. \/ Score(p) \in 3..4
      \/ Score(p) = 5
      \/ Score(p) >= 6
  BY <1>4
<1>6. ~(p.length = 0) /\ p.length > 0 /\ ~(Score(p) <= 2)
  BY <1>1, <1>4
<1> QED BY <1>5, <1>6 DEF Label

\* Nothing short of 16 characters is rated as strong.
LEMMA StrongIsLong ==
  ASSUME NEW p \in Password, Label(p) = "Strong" PROVE p.length >= 16
<1>1. p.length \in Nat
  BY LengthsAssumption DEF Password
<1>2. SUFFICES ASSUME p.length < 16 PROVE FALSE
  BY <1>1
<1>3. LengthPoints(p) \in 0..2 /\ Cardinality(p.classes) \in 0..3
  BY <1>2, ShortPoints, ClassCount
<1>4. Penalty(p) \in 0..3
  BY DEF Penalty
<1>5. Score(p) \in 0..5
  BY <1>3, <1>4 DEF Score
<1>6. ~(Score(p) >= 6)
  BY <1>5
<1>7. \/ p.length = 0
      \/ p.length > 0 /\ Score(p) <= 2
      \/ p.length > 0 /\ Score(p) \in 3..4
      \/ p.length > 0 /\ Score(p) = 5
  BY <1>1, <1>5
<1> QED BY <1>6, <1>7 DEF Label

(***************************************************************************)
(* The entry form                                                          *)
(***************************************************************************)

\* An empty field holds a password, which is not rated.
LEMMA EmptyPassword == NoPassword \in Password /\ Label(NoPassword) = ""
<1>1. Cardinality({}) = 0
  BY FS_EmptySet
<1>2. NoPassword \in Password
  BY <1>1, LengthsAssumption DEF NoPassword, Password
<1>3. NoPassword.length = 0
  BY DEF NoPassword
<1> QED BY <1>2, <1>3 DEF Label

\* What is shown, and not by the eye button, has a timer that will hide it.
HidingDue == type = "text" /\ ~byUser => timers # {}

\* The history of the field is what it holds, the meter follows it, and
\* what must be hidden will be.
FormInv ==
  /\ FormTypeOK
  /\ MeterFresh
  /\ generated => value \in Generated
  /\ HidingDue

\* A form that was not opened yet is empty.
LEMMA FormInitInv == FormInit => FormInv
BY EmptyPassword DEF FormInit, FormInv, FormTypeOK, MeterFresh, HidingDue

\* No step of the form leaves the meter behind the field.
LEMMA FormNextInv == FormInv /\ [FormNext]_formVars => FormInv'
<1> SUFFICES ASSUME FormInv, [FormNext]_formVars PROVE FormInv'
  OBVIOUS
<1>0. /\ REVEAL \in 0..REVEAL
      /\ \A t \in 0..REVEAL : t # 0 => t - 1 \in 0..REVEAL
  BY RevealAssumption
<1> USE DEF FormInv, FormTypeOK, MeterFresh, HidingDue
<1>1. CASE OpenAdd
  BY <1>1, EmptyPassword DEF OpenAdd
<1>2. CASE Close
  BY <1>2 DEF Close
<1>3. CASE ToggleVisibility
  BY <1>3 DEF ToggleVisibility
<1>4. CASE Hide
  BY <1>4 DEF Hide
<1>5. CASE Tick
  <2>1. ASSUME NEW t \in timers PROVE t - 1 \in 0..REVEAL
    BY <1>0, <1>5, <2>1 DEF Tick
  <2> QED BY <1>5, <2>1 DEF Tick
<1>6. ASSUME NEW p \in Password, OpenEdit(p) \/ TypePassword(p)
      PROVE  FormInv'
  BY <1>6, LabelType DEF OpenEdit, TypePassword
<1>7. ASSUME NEW p \in Generated, Generate(p) PROVE FormInv'
  <2>1. p \in Password
    BY DEF Generated
  <2> QED BY <1>0, <1>7, <2>1, LabelType DEF Generate
<1>8. CASE UNCHANGED formVars
  BY <1>8 DEF formVars
<1> QED
  BY <1>1, <1>2, <1>3, <1>4, <1>5, <1>6, <1>7, <1>8 DEF FormNext

\* The form keeps its types, its meter up to date and its history true.
THEOREM FormInductive == FormSpec => []FormInv
BY FormInitInv, FormNextInv, PTL DEF FormSpec

\* The types of the form's state; every timer fires within its delay.
THEOREM FormTypeCorrect == FormSpec => []FormTypeOK
<1>1. FormInv => FormTypeOK
  BY DEF FormInv
<1> QED BY <1>1, FormInductive, PTL

\* While the form is open the meter rates what is in the field.
THEOREM MeterFollows == FormSpec => []MeterFresh
<1>1. FormInv => MeterFresh
  BY DEF FormInv
<1> QED BY <1>1, FormInductive, PTL

\* Generate is never rated as weak, nothing short as strong, whatever
\* lengths there are.
THEOREM RatingsSound == FormSpec => []RatingSound
<1>1. FormInv => RatingSound
  BY GeneratedRating, StrongIsLong
  DEF FormInv, FormTypeOK, MeterFresh, RatingSound
<1> QED BY <1>1, FormInductive, PTL

\* The password that Generate shows never stays without a timer, although
\* any earlier timer and the eye button may hide it first.
THEOREM HidingStaysDue == FormSpec => []HidingDue
<1>1. FormInv => HidingDue
  BY DEF FormInv
<1> QED BY <1>1, FormInductive, PTL

=============================================================================
