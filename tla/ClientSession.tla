--------------------------- MODULE ClientSession ---------------------------
(***************************************************************************)
(* The browser side: app.js, vault.js and api.js in one tab.  JavaScript   *)
(* runs one callback at a time, but every await lets other callbacks run,  *)
(* so the handlers of the login, register and entry forms and of the       *)
(* Delete buttons interleave with each other, with Sign out (the button or *)
(* the inactivity timer) and with a reload of the page.  A submit button   *)
(* is disabled while its handler runs; a Delete button is not.             *)
(*                                                                         *)
(* The server is the vault API: a request takes effect at one instant      *)
(* after its fetch, or fails; one whose connection broke may do so after   *)
(* its handler has returned. An expired or a missing access token is       *)
(* answered with 403 (SecurityConfig names no entry point), and only the   *)
(* auth endpoints answer with 401: a wrong password, an email that is      *)
(* already registered.                                                     *)
(*                                                                         *)
(* A key, a token pair and a plaintext are named by the account they       *)
(* belong to; an entry id is the number of the save that created it, or 0. *)
(* late (in a row, a form, a handler, the page), crossed and disturbed are *)
(* history: no guard reads them.                                           *)
(***************************************************************************)
EXTENDS Integers, FiniteSets

CONSTANTS
  Accounts,     \* the people who use this browser
  Before,       \* those who may have used this tab before
  NoOne,        \* no account, no key, no token, no entry
  Saves,        \* slots for runs of the entry-form handler
  Deletes,      \* slots for runs of the Delete handlers
  MaxSaves,     \* bound: entry forms submitted in a behaviour
  MaxSessions   \* bound: sign-outs and reloads in a behaviour

ASSUME AccountsAssumption == NoOne \notin Accounts /\ Before \subseteq Accounts
ASSUME SlotsAssumption ==
  /\ Saves \cap Deletes = {}
  /\ {"login", "register"} \cap (Saves \cup Deletes) = {}
ASSUME BoundsAssumption == MaxSaves \in Nat /\ MaxSessions \in Nat

Forms == {"login", "register"}       \* the handlers of the auth view
Handlers == Forms \cup Saves \cup Deletes
Loaders == {"login"} \cup Saves      \* the handlers that end in loadAndRender

Ids == 0..MaxSaves
Someone == Accounts \cup {NoOne}

\* An entry as the server keeps it: whose it is, under which key and from
\* whose plaintext it was made, and by which save; late: some form or save it
\* goes back to outlived its session, or had its tokens exchanged.
Row == [owner : Accounts, key : Accounts, plain : Accounts, ver : Ids,
        late : BOOLEAN]

\* An entry from before this page was opened, whose tokens are still there.
Earlier(a) == [owner |-> a, key |-> a, plain |-> a, ver |-> 0, late |-> FALSE]

ASSUME NoRowAssumption == NoOne \notin Row /\ NoOne \notin Ids

VARIABLES
  store,      \* the server: entry id -> Row or NoOne
  tokens,     \* sessionStorage: whose token pair; survives a reload
  key,        \* _vaultKey
  entries,    \* _entries: the decrypted entries, <<id, Row>> pairs
  view,       \* the active view: "auth" or "vault"
  modal,      \* the entry form: is it open, its entry-id, whose plaintext,
              \* and has the session it was opened in ended
  saves,      \* how many entry forms have been submitted
  task,       \* the handlers: where each is, and its local variables
  session,    \* how many sign-outs and reloads there have been
  late,       \* entries come from a load that outlived its session
  crossed,    \* a refresh begun before this login changed its tokens
  disturbed   \* something failed or overlapped since a clean load

vars == <<store, tokens, key, entries, view, modal, saves, task,
          session, late, crossed, disturbed>>

page == <<key, entries, view, modal>>    \* what a reload resets

Idle == [pc |-> "idle", live |-> TRUE, late |-> FALSE, who |-> NoOne,
         key |-> NoOne, plain |-> NoOne, id |-> NoOne, ver |-> NoOne,
         data |-> {}]

NoModal == [open |-> FALSE, id |-> NoOne, plain |-> NoOne, late |-> FALSE]

Init ==
  /\ tokens \in {NoOne} \cup Before
  /\ store = [i \in Ids |-> IF i = 0 /\ tokens # NoOne THEN Earlier(tokens)
                             ELSE NoOne]
  /\ key = NoOne
  /\ entries = {}
  /\ view = "auth"
  /\ modal = NoModal
  /\ saves = 0
  /\ task = [t \in Handlers |-> Idle]
  /\ session = 0
  /\ late = FALSE
  /\ crossed = FALSE
  /\ disturbed = FALSE

(***************************************************************************)
(* Helpers                                                                 *)
(***************************************************************************)

Running(t) == task[t].pc # "idle"

\* Some other handler runs, and what t does now overlaps with it.
Overlaps(t) == \E s \in Handlers \ {t} : Running(s)

\* The entries of an account, as GET /api/vault lists them.
RowsOf(a) ==
  {<<i, store[i]>> : i \in {j \in Ids : store[j] # NoOne /\ store[j].owner = a}}

Owns(a, i) == i \in Ids /\ store[i] # NoOne /\ store[i].owner = a

\* AES-GCM decryption of all of data succeeds under the current _vaultKey.
Decrypts(data) == \A e \in data : e[2].key = key

\* The handler goes on to the next await.
GoTo(t, to) == task' = [task EXCEPT ![t].pc = to]

\* The handler returns, and its button is enabled again.
Finish(t) == task' = [task EXCEPT ![t] = Idle]

\* The first request of loadAndRender, with the token stored now.
List(t) ==
  /\ task' = [task EXCEPT ![t] = [Idle EXCEPT !.pc = "listing", !.who = tokens]]
  /\ disturbed' = Overlaps(t)

(***************************************************************************)
(* The login form and the register form                                    *)
(***************************************************************************)

\* The submit handler calls performLogin, ApiModule.login and fetch.
SubmitLogin(u) ==
  /\ view = "auth"
  /\ ~Running("login")
  /\ task' = [task EXCEPT !["login"] =
                [Idle EXCEPT !.pc = "signingIn", !.who = u]]
  /\ disturbed' = (disturbed \/ Overlaps("login"))
  /\ UNCHANGED <<store, tokens, page, saves, session, late, crossed>>

\* The submit handler calls ApiModule.register and fetch.
SubmitRegister ==
  /\ view = "auth"
  /\ ~Running("register")
  /\ task' = [task EXCEPT !["register"] = [Idle EXCEPT !.pc = "registering"]]
  /\ disturbed' = (disturbed \/ Overlaps("register"))
  /\ UNCHANGED <<store, tokens, page, saves, session, late, crossed>>

\* The server accepts the password, refuses it with 401, or fails.
ServeLogin ==
  /\ task["login"].pc = "signingIn"
  /\ \/ \E to \in {"granted", "refused"} : GoTo("login", to)
     \/ Finish("login")
  /\ UNCHANGED <<store, tokens, page, saves, session, late, crossed, disturbed>>

\* 401; or 201 and a toast (the tokens in the answer are not used); or it
\* fails.
ServeRegister ==
  /\ task["register"].pc = "registering"
  /\ GoTo("register", "refused") \/ Finish("register")
  /\ UNCHANGED <<store, tokens, page, saves, session, late, crossed, disturbed>>

\* storeTokens; deriveKey runs PBKDF2 in the background.
StoreTokens ==
  /\ task["login"].pc = "granted"
  /\ tokens' = task["login"].who
  /\ GoTo("login", "deriving")
  /\ UNCHANGED <<store, page, saves, session, late, crossed, disturbed>>

\* 401 without a refresh token: clearTokens, and SESSION_EXPIRED, which the
\* login handler swallows and the register handler shows.
RefusedForGood(f) ==
  /\ task[f].pc = "refused"
  /\ tokens = NoOne
  /\ Finish(f)
  /\ UNCHANGED <<store, tokens, page, saves, session, late, crossed, disturbed>>

\* 401 with a refresh token left from before a reload: tryRefresh sends it.
TryRefresh(f) ==
  /\ task[f].pc = "refused"
  /\ tokens # NoOne
  /\ task' = [task EXCEPT ![f].pc = "refreshing", ![f].who = tokens]
  /\ UNCHANGED <<store, tokens, page, saves, session, late, crossed, disturbed>>

\* Mutant: the flag _retried is lost, what is refused is refreshed again.
RefreshedForEver(f) ==
  /\ task[f].pc = "refreshing"
  /\ \/ tokens' = task[f].who /\ GoTo(f, "refused")
     \/ tokens' = NoOne /\ Finish(f)
  /\ UNCHANGED <<store, page, saves, session, late, crossed, disturbed>>

\* The refresh succeeds, the new pair is stored, and the request is sent
\* again and refused again; or it fails, and clearTokens.  Neither looks at
\* what is stored by now.
Refreshed(f) ==
  /\ task[f].pc = "refreshing"
  /\ tokens' \in {task[f].who, NoOne}
  /\ Finish(f)
  /\ crossed' = (crossed \/ view = "vault" \/ task["login"].pc = "deriving")
  /\ UNCHANGED <<store, page, saves, session, late, disturbed>>

\* deriveKey resolves: setVaultKey, the vault view, the inactivity timers,
\* and the first request of loadAndRender.
OpenVault ==
  /\ task["login"].pc = "deriving"
  /\ key' = task["login"].who
  /\ view' = "vault"
  /\ List("login")
  /\ UNCHANGED <<store, tokens, entries, modal, saves, session,
                 late, crossed>>

(***************************************************************************)
(* loadAndRender, in the handlers of the login and of the entry form       *)
(***************************************************************************)

\* The server lists the entries of the owner of the token.
ServeList(t) ==
  /\ task[t].pc = "listing"
  /\ task[t].who # NoOne
  /\ task' = [task EXCEPT ![t].pc = "listed", ![t].who = NoOne,
                          ![t].data = RowsOf(task[t].who)]
  /\ UNCHANGED <<store, tokens, page, saves, session, late, crossed, disturbed>>

\* The username fields are decrypted under the key of this moment ...
DecryptUsernames(t) ==
  /\ task[t].pc = "listed"
  /\ GoTo(t, IF Decrypts(task[t].data) THEN "decrypting" ELSE "failed")
  /\ UNCHANGED <<store, tokens, page, saves, session, late, crossed, disturbed>>

\* ... and the other fields, after an await, under the key of a later one.
DecryptRest(t) ==
  /\ task[t].pc = "decrypting"
  /\ GoTo(t, IF Decrypts(task[t].data) THEN "decrypted" ELSE "failed")
  /\ UNCHANGED <<store, tokens, page, saves, session, late, crossed, disturbed>>

\* The last await is over: whatever has happened meanwhile, _entries and the
\* grid get the result.  The entry form closes, whatever it holds by now.
Render(t) ==
  /\ task[t].pc = "decrypted"
  /\ entries' = task[t].data
  /\ late' = (task[t].late \/ crossed)
  /\ modal' = IF t \in Saves THEN [modal EXCEPT !.open = FALSE] ELSE modal
  /\ Finish(t)
  /\ UNCHANGED <<store, tokens, key, view, saves, session,
                 crossed, disturbed>>

(***************************************************************************)
(* The entry form                                                          *)
(***************************************************************************)

\* Mutant: the form is not reset, what it held stays in it.
OpenAddNoReset ==
  /\ view = "vault"
  /\ modal' = [modal EXCEPT !.open = TRUE, !.id = NoOne,
                            !.plain = IF @ = NoOne THEN key ELSE @]
  /\ UNCHANGED <<store, tokens, key, entries, view, saves, task, session,
                 late, crossed, disturbed>>

\* openAddModal: an empty form, into which the user types.
OpenAdd ==
  /\ view = "vault"
  /\ modal' = [open |-> TRUE, id |-> NoOne, plain |-> key, late |-> FALSE]
  /\ UNCHANGED <<store, tokens, key, entries, view, saves, task, session,
                 late, crossed, disturbed>>

\* Edit on a card: openEditModal with the decrypted entry.
OpenEdit ==
  /\ view = "vault"
  /\ \E e \in entries :
       modal' = [open |-> TRUE, id |-> e[1], plain |-> e[2].plain,
                 late |-> e[2].late]
  /\ UNCHANGED <<store, tokens, key, entries, view, saves, task, session,
                 late, crossed, disturbed>>

\* closeModal hides the form; nothing is erased.
CloseModal ==
  /\ modal.open
  /\ modal' = [modal EXCEPT !.open = FALSE]
  /\ UNCHANGED <<store, tokens, key, entries, view, saves, task,
                 session, late, crossed, disturbed>>

\* Mutant: the submit button is not disabled while a save runs.
SubmitSaveTwice(t) ==
  /\ modal.open
  /\ key # NoOne
  /\ ~Running(t)
  /\ saves < MaxSaves
  /\ saves' = saves + 1
  /\ task' = [task EXCEPT ![t] =
                [Idle EXCEPT !.pc = "encrypting", !.late = modal.late,
                             !.key = key, !.plain = modal.plain,
                             !.id = modal.id, !.ver = saves + 1]]
  /\ disturbed' = (disturbed \/ Overlaps(t))
  /\ UNCHANGED <<store, tokens, page, session, late, crossed>>

\* The submit handler reads the form, and saveEntry encrypts under the key
\* of this moment.  (Without a key it fails at once and changes nothing.)
SubmitSave(t) ==
  /\ modal.open
  /\ key # NoOne
  /\ \A s \in Saves : ~(Running(s) /\ task[s].live)
  /\ ~Running(t)
  /\ saves < MaxSaves
  /\ saves' = saves + 1
  /\ task' = [task EXCEPT ![t] =
                [Idle EXCEPT !.pc = "encrypting", !.late = modal.late,
                             !.key = key, !.plain = modal.plain,
                             !.id = modal.id, !.ver = saves + 1]]
  /\ disturbed' = (disturbed \/ Overlaps(t))
  /\ UNCHANGED <<store, tokens, page, session, late, crossed>>

\* The fields are encrypted: POST or PUT with the token of this moment.
SendSave(t) ==
  /\ task[t].pc = "encrypting"
  /\ task' = [task EXCEPT ![t].pc = "saving", ![t].who = tokens,
                          ![t].late = (@ \/ crossed)]
  /\ UNCHANGED <<store, tokens, page, saves, session, late, crossed, disturbed>>

\* The server creates the entry, or replaces the caller's entry.
ServeSave(t) ==
  LET r   == task[t]
      at  == IF r.id = NoOne THEN r.ver ELSE r.id
      row == [owner |-> r.who, key |-> r.key, plain |-> r.plain,
              ver |-> r.ver, late |-> r.late]
  IN /\ r.pc = "saving"
     /\ r.who # NoOne
     /\ r.id = NoOne \/ Owns(r.who, r.id)
     /\ store' = [store EXCEPT ![at] = row]
     /\ IF r.live THEN GoTo(t, "saved") ELSE Finish(t)
     /\ UNCHANGED <<tokens, page, saves, session, late, crossed, disturbed>>

\* saveEntry goes on to loadAndRender.
LoadAfterSave(t) ==
  /\ task[t].pc = "saved"
  /\ List(t)
  /\ UNCHANGED <<store, tokens, page, saves, session, late, crossed>>

(***************************************************************************)
(* The Delete buttons                                                      *)
(***************************************************************************)

\* A card is clicked and the dialog confirmed; the token is read at once.
ClickDelete(t) ==
  /\ view = "vault"
  /\ ~Running(t)
  /\ \E e \in entries :
       task' = [task EXCEPT ![t] =
                  [Idle EXCEPT !.pc = "deleting", !.who = tokens, !.id = e[1]]]
  /\ disturbed' = (disturbed \/ Overlaps(t))
  /\ UNCHANGED <<store, tokens, page, saves, session, late, crossed>>

\* The server removes the caller's entry.
ServeDelete(t) ==
  /\ task[t].pc = "deleting"
  /\ Owns(task[t].who, task[t].id)
  /\ store' = [store EXCEPT ![task[t].id] = NoOne]
  /\ IF task[t].live THEN GoTo(t, "deleted") ELSE Finish(t)
  /\ UNCHANGED <<tokens, page, saves, session, late, crossed, disturbed>>

\* Mutant: the grid is rendered again without dropping the entry.
DeletedNoFilter(t) ==
  /\ task[t].pc = "deleted"
  /\ Finish(t)
  /\ UNCHANGED <<store, tokens, page, saves, session, late, crossed, disturbed>>

\* The entry is dropped from the _entries of this moment, and the grid is
\* rendered again, in whatever view.
Deleted(t) ==
  /\ task[t].pc = "deleted"
  /\ entries' = {e \in entries : e[1] # task[t].id}
  /\ Finish(t)
  /\ UNCHANGED <<store, tokens, key, view, modal, saves, session,
                 late, crossed, disturbed>>

(***************************************************************************)
(* Requests that fail                                                      *)
(***************************************************************************)

OnTheWay == {"listing", "saving", "deleting"}

\* 403: the access token has expired, or there was none.
Deny(t) ==
  /\ task[t].pc \in OnTheWay
  /\ IF task[t].live THEN GoTo(t, "denied") ELSE Finish(t)
  /\ UNCHANGED <<store, tokens, page, saves, session, late, crossed, disturbed>>

\* 404, 400 or 500, or no connection, before the server did anything; or
\* the answer of a request that took effect is lost.
Break(t) ==
  /\ task[t].pc \in OnTheWay \cup {"saved", "deleted"}
  /\ IF task[t].live THEN GoTo(t, "failed") ELSE Finish(t)
  /\ UNCHANGED <<store, tokens, page, saves, session, late, crossed, disturbed>>

\* The connection breaks and the request does not: the handler shows the
\* error and returns, and the request may still take effect later, after
\* others and in another session.
Forsake(t) ==
  /\ task[t].pc \in {"saving", "deleting"}
  /\ task[t].live
  /\ task' = [task EXCEPT ![t].live = FALSE]
  /\ disturbed' = TRUE
  /\ UNCHANGED <<store, tokens, page, saves, session, late, crossed>>

\* Mutant: 403 clears the tokens, as 401 does, but the vault stays open.
ShowErrorClearTokens(t) ==
  /\ task[t].pc \in {"denied", "failed"}
  /\ Finish(t)
  /\ tokens' = IF task[t].pc = "denied" THEN NoOne ELSE tokens
  /\ disturbed' = TRUE
  /\ UNCHANGED <<store, page, saves, session, late, crossed>>

\* The handler shows the error and returns; an open entry form stays open.
ShowError(t) ==
  /\ task[t].pc \in {"denied", "failed"}
  /\ Finish(t)
  /\ disturbed' = TRUE
  /\ UNCHANGED <<store, tokens, page, saves, session, late, crossed>>

(***************************************************************************)
(* The end of a session                                                    *)
(***************************************************************************)

\* History: the saves and loads that run outlive their session.
Outlive ==
  [t \in Handlers |-> [task[t] EXCEPT !.late = Running(t) /\ t \in Loaders]]

\* Mutant: clearVaultKey drops the key but not _entries.
PerformLogoutKeepsEntries ==
  /\ view = "vault"
  /\ session < MaxSessions
  /\ session' = session + 1
  /\ tokens' = NoOne
  /\ key' = NoOne
  /\ view' = "auth"
  /\ task' = Outlive
  /\ modal' = [modal EXCEPT !.late = modal.open]
  /\ UNCHANGED <<store, entries, saves, late,
                 crossed, disturbed>>

\* performLogout, by the button or by the inactivity timer.  The entry form
\* is not closed and no handler is stopped.
PerformLogout ==
  /\ view = "vault"
  /\ session < MaxSessions
  /\ session' = session + 1
  /\ tokens' = NoOne
  /\ key' = NoOne
  /\ entries' = {}
  /\ late' = FALSE
  /\ crossed' = FALSE
  /\ view' = "auth"
  /\ task' = Outlive
  /\ modal' = [modal EXCEPT !.late = modal.open]
  /\ UNCHANGED <<store, saves, disturbed>>

\* The page is loaded again: sessionStorage stays, and so do the requests
\* that are on their way to the server.
ReloadPage ==
  /\ session < MaxSessions
  /\ session' = session + 1
  /\ key' = NoOne
  /\ entries' = {}
  /\ late' = FALSE
  /\ crossed' = FALSE
  /\ view' = "auth"
  /\ modal' = NoModal
  /\ task' = [t \in Handlers |->
                IF task[t].pc \in {"saving", "deleting"}
                THEN [Outlive[t] EXCEPT !.live = FALSE] ELSE Idle]
  /\ UNCHANGED <<store, tokens, saves, disturbed>>

(***************************************************************************)
(* The specification                                                       *)
(***************************************************************************)

LoadStep(t) ==
  ServeList(t) \/ DecryptUsernames(t) \/ DecryptRest(t) \/ Render(t)

LoginStep == ServeLogin \/ StoreTokens \/ OpenVault

FormStep(f) == RefusedForGood(f) \/ TryRefresh(f) \/ Refreshed(f)

SaveStep(t) == SendSave(t) \/ ServeSave(t) \/ LoadAfterSave(t)

DeleteStep(t) == ServeDelete(t) \/ Deleted(t)

\* What happens to a handler once it runs.
Step(t) ==
  \/ t = "login" /\ LoginStep
  \/ t = "register" /\ ServeRegister
  \/ t \in Forms /\ FormStep(t)
  \/ t \in Loaders /\ LoadStep(t)
  \/ t \in Saves /\ SaveStep(t)
  \/ t \in Deletes /\ DeleteStep(t)
  \/ Deny(t) \/ Break(t) \/ Forsake(t) \/ ShowError(t)

\* What the people at the browser do, and what the timer does.
UserStep ==
  \/ \E u \in Accounts : SubmitLogin(u)
  \/ SubmitRegister
  \/ OpenAdd \/ OpenEdit \/ CloseModal
  \/ \E t \in Saves : SubmitSave(t)
  \/ \E t \in Deletes : ClickDelete(t)
  \/ PerformLogout
  \/ ReloadPage

Next == UserStep \/ \E t \in Handlers : Step(t)

Spec == Init /\ [][Next]_vars

\* Promises resolve, and a request is answered or its connection breaks.
FairSpec == Spec /\ \A t \in Handlers : WF_vars(Step(t))

(***************************************************************************)
(* Properties                                                              *)
(***************************************************************************)

PCs == {"idle", "signingIn", "registering", "granted", "refused",
        "refreshing", "deriving", "listing", "listed", "decrypting",
        "decrypted", "encrypting", "saving", "saved", "deleting", "deleted",
        "denied", "failed"}

\* What a handler keeps across its awaits.
Tasks ==
  [pc : PCs, live : BOOLEAN, late : BOOLEAN, who : Someone, key : Someone,
   plain : Someone, id : Ids \cup {NoOne}, ver : Ids \cup {NoOne},
   data : SUBSET (Ids \X Row)]

\* The types of the state of the page, its storage and its handlers.
TypeOK ==
  /\ store \in [Ids -> Row \cup {NoOne}]
  /\ tokens \in Someone
  /\ key \in Someone
  /\ entries \subseteq Ids \X Row
  /\ view \in {"auth", "vault"}
  /\ modal \in [open : BOOLEAN, id : Ids \cup {NoOne}, plain : Someone,
              late : BOOLEAN]
  /\ saves \in 0..MaxSaves
  /\ task \in [Handlers -> Tasks]
  /\ session \in 0..MaxSessions
  /\ late \in BOOLEAN
  /\ crossed \in BOOLEAN
  /\ disturbed \in BOOLEAN

\* The key that encrypts and the token that names the owner come from one
\* login as long as the vault is open: no handler left over from an earlier
\* session changes either.  The exception is the answer of a refresh that a
\* registration refused with 401 began before the login.
KeyMatchesTokens ==
  view = "vault" /\ ~crossed => key = tokens /\ key # NoOne

\* What a save writes is readable by the owner of the row, and is the text
\* of that person, unless the form outlived the session it was opened in or
\* the tokens were exchanged under it.  (The key is read before the
\* encryption and the token after it.)
RowsReadable ==
  \A i \in Ids : store[i] # NoOne /\ ~store[i].late =>
     store[i].key = store[i].owner /\ store[i].plain = store[i].owner

\* What is decrypted in memory belongs to whoever is signed in, and to
\* nobody in the auth view, unless the load or the save behind it outlived
\* its session or used exchanged tokens.
PlaintextBelongs ==
  ~late => \A e \in entries : e[2].late \/ e[2].owner = key

\* With all handlers done, the grid shows the vault as the server has it,
\* unless since the last load handlers overlapped or one of them failed.
ViewFresh ==
  /\ view = "vault"
  /\ \A t \in Handlers : ~Running(t)
  /\ ~disturbed /\ ~crossed
  => entries = RowsOf(key)

\* The content of an entry gives way to that of an earlier save only if the
\* earlier one is a request that its page has given up: whatever else happens,
\* the form saves one entry at a time.
NewestKept ==
  [][\A i \in Ids :
       /\ store[i] # NoOne /\ store'[i] # NoOne
       /\ store'[i].ver < store[i].ver
       => \E t \in Saves : ~task[t].live /\ task[t].ver = store'[i].ver]_vars

\* api.js:35 and INTERVIEW_PREP.md: a request whose access token has expired
\* is repeated after a refresh.  The code shows an error instead: the server
\* answers 403, and request() refreshes on 401 only.
RefreshOnExpiry ==
  [][\A t \in Handlers :
       /\ task[t].pc = "denied"
       /\ task[t].who # NoOne
       /\ session' = session
       => task'[t].pc \in {"denied", "refreshing"}]_vars

\* Every handler returns and its button is enabled again.
HandlersEnd == \A t \in Handlers : Running(t) ~> ~Running(t)

=============================================================================
