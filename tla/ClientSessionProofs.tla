------------------------ MODULE ClientSessionProofs ------------------------
(***************************************************************************)
(* Proofs about ClientSession for every set of accounts and of handlers,   *)
(* every number of saves, and every number of sign-outs and reloads.       *)
(***************************************************************************)
EXTENDS ClientSession, TLAPS

(***************************************************************************)
(* The inductive invariant                                                 *)
(***************************************************************************)

\* A handler in state r is about to create the entry i.
Creates(r, i) ==
  r.pc \in {"encrypting", "saving"} /\ r.id = NoOne /\ r.ver = i

\* The id i is known, and if there is an entry of that id it is a's, for
\* good: no handler will create it once more.
BelongsTo(i, a) ==
  /\ i \in 0..saves
  /\ store[i] = NoOne \/ store[i].owner = a
  /\ \A t \in Handlers : ~Creates(task[t], i)

\* An entry that the page or the server knows.
Known(e) ==
  /\ BelongsTo(e[1], e[2].owner)
  /\ ~e[2].late => e[2].key = e[2].owner /\ e[2].plain = e[2].owner

\* What the entry form holds under the key k: a text of k's owner, or a text
\* of the owner of the entry that it would replace.
Holds(id, plain, k) == IF id = NoOne THEN plain = k ELSE BelongsTo(id, plain)

\* The server keeps entries that are known, and so does the page; unless a
\* load outlived its session, the page has decrypted them with its key.
EntriesInv ==
  /\ \A i \in Ids : store[i] # NoOne => Known(<<i, store[i]>>)
  /\ \A e \in entries : Known(e)
  /\ ~late => \A e \in entries : e[2].key = key

\* There is a key exactly while the vault is open.
KeyInv == IF view = "vault" THEN key # NoOne ELSE key = NoOne

\* An open entry form belongs to the session, unless it outlived one.
ModalInv ==
  /\ modal.open => modal.plain # NoOne
  /\ modal.open /\ ~modal.late =>
       view = "vault" /\ Holds(modal.id, modal.plain, key)

\* The login form has its own handler, which has an account and works in
\* the auth view until it opens the vault.
LoginFits(t, r) ==
  r.pc \in {"signingIn", "granted", "deriving"} =>
    /\ t = "login" /\ r.who # NoOne /\ view = "auth"
    /\ r.pc = "deriving" /\ ~crossed => tokens = r.who

\* What loads has listed known entries, and decrypted them with the key.
LoadFits(t, r) ==
  /\ r.pc \in {"listing", "listed", "decrypting", "decrypted"} => t \in Loaders
  /\ \A e \in r.data : Known(e)
  /\ r.pc = "decrypted" /\ ~r.late => \A e \in r.data : e[2].key = key

\* What saves has a key and a text, and unless it outlived its session or
\* its tokens, they are those of the session and of its token.
SaveFits(t, r) ==
  /\ r.pc \in {"encrypting", "saving"} =>
       /\ t \in Saves
       /\ r.key # NoOne /\ r.plain # NoOne /\ r.ver \in 1..saves
       /\ ~r.late => Holds(r.id, r.plain, r.key)
  /\ r.pc = "encrypting" /\ ~r.late => view = "vault" /\ r.key = key
  /\ r.pc = "saving" /\ ~r.late => r.key = r.who

Fits(t, r) == LoginFits(t, r) /\ LoadFits(t, r) /\ SaveFits(t, r)

\* No two handlers create one entry.
UniqueInv ==
  \A s, t \in Handlers, i \in Ids :
    Creates(task[s], i) /\ Creates(task[t], i) => s = t

IInv ==
  /\ TypeOK
  /\ KeyInv
  /\ KeyMatchesTokens
  /\ EntriesInv
  /\ ModalInv
  /\ UniqueInv
  /\ \A t \in Handlers : Fits(t, task[t])

USE AccountsAssumption, SlotsAssumption, BoundsAssumption, NoRowAssumption

\* Nothing is open and no handler runs; at most one entry is there.
LEMMA InitInv == Init => IInv
<1> SUFFICES ASSUME Init
             PROVE  IInv
  OBVIOUS
<1> USE DEF Init
<1>1. TypeOK
  <2>1. tokens \in Someone
    BY DEF Someone
  <2>2. store \in [Ids -> Row \cup {NoOne}]
    BY DEF Row, Earlier
  <2>3. Idle \in Tasks
    BY DEF Idle, Tasks, PCs, Someone
  <2>4. NoModal \in [open : BOOLEAN, id : Ids \cup {NoOne}, plain : Someone,
                     late : BOOLEAN]
    BY DEF NoModal, Someone
  <2>5. saves \in 0..MaxSaves /\ session \in 0..MaxSessions
    OBVIOUS
  <2>6. task \in [Handlers -> Tasks]
    BY <2>3
  <2> QED BY <2>1, <2>2, <2>4, <2>5, <2>6 DEF TypeOK, Someone
<1>2. KeyInv /\ KeyMatchesTokens /\ ModalInv
  BY DEF KeyInv, KeyMatchesTokens, ModalInv, NoModal
<1>3. UniqueInv
  BY DEF UniqueInv, Creates, Idle
<1>4. EntriesInv
  BY DEF EntriesInv, Known, BelongsTo, Creates, Earlier, Ids, Idle
<1>5. ASSUME NEW t \in Handlers
      PROVE  Fits(t, task[t])
  BY DEF Fits, LoginFits, LoadFits, SaveFits, Idle
<1> QED BY <1>1, <1>2, <1>3, <1>4, <1>5 DEF IInv

(***************************************************************************)
(* What is known stays known                                               *)
(***************************************************************************)

\* An id belongs to the same account after a step, if the step changes the
\* owner of no entry, creates one only for a handler that was to create it,
\* and lets no handler create an id that is used already.
LEMMA BelongsStable ==
  ASSUME saves \in Nat, saves' \in Nat, saves =< saves',
         \A i \in 0..saves :
           \/ store'[i] = NoOne
           \/ store[i] # NoOne /\ store'[i].owner = store[i].owner
           \/ \E t \in Handlers : Creates(task[t], i),
         \A t \in Handlers, i \in 0..saves :
           Creates(task'[t], i) => Creates(task[t], i)
  PROVE  /\ \A i, a : BelongsTo(i, a) => BelongsTo(i, a)'
         /\ \A e : Known(e) => Known(e)'
         /\ \A id, p, k : Holds(id, p, k) => Holds(id, p, k)'
<1>1. ASSUME NEW i, NEW a, BelongsTo(i, a)
      PROVE  BelongsTo(i, a)'
  BY <1>1 DEF BelongsTo
<1> QED BY <1>1 DEF Known, Holds

\* A handler of which nothing changes still fits, if what it looks at in the
\* page stays or the handler outlives its session.
LEMMA FitsStable ==
  ASSUME \A e : Known(e) => Known(e)',
         \A id, p, k : Holds(id, p, k) => Holds(id, p, k)',
         saves \in Nat, saves' \in Nat, saves =< saves',
         NEW t, NEW r, Fits(t, r),
         UNCHANGED <<key, view>>,
         \/ tokens' = tokens /\ crossed' = crossed
         \/ crossed' \/ r.pc # "deriving"
  PROVE  Fits(t, r)'
<1>1. LoginFits(t, r)'
  BY DEF Fits, LoginFits
<1>2. LoadFits(t, r)'
  BY DEF Fits, LoadFits
<1>3. SaveFits(t, r)'
  BY DEF Fits, SaveFits
<1> QED BY <1>1, <1>2, <1>3 DEF Fits

(***************************************************************************)
(* Each action preserves the invariant                                     *)
(***************************************************************************)

\* A handler moves on, and nothing else changes.
LEMMA MoveInv ==
  ASSUME IInv, NEW t \in Handlers, NEW r \in Tasks,
         task' = [task EXCEPT ![t] = r],
         Fits(t, r),
         \A i : Creates(r, i) => Creates(task[t], i),
         disturbed' \in BOOLEAN,
         UNCHANGED <<store, tokens, page, saves, session, late, crossed>>
  PROVE  IInv'
<1> USE DEF IInv, page
<1>1. TypeOK'
  BY DEF TypeOK
<1>2. \A s \in Handlers : task'[s] = IF s = t THEN r ELSE task[s]
  BY DEF TypeOK
<1>3. /\ \A e : Known(e) => Known(e)'
      /\ \A id, p, k : Holds(id, p, k) => Holds(id, p, k)'
  BY <1>2, BelongsStable DEF TypeOK
<1>4. KeyInv' /\ KeyMatchesTokens'
  BY DEF KeyInv, KeyMatchesTokens
<1>5. EntriesInv'
  BY <1>3 DEF EntriesInv
<1>6. ModalInv'
  BY <1>3 DEF ModalInv
<1>7. UniqueInv'
  BY <1>2 DEF UniqueInv
<1>8. ASSUME NEW s \in Handlers
      PROVE  Fits(s, task[s])'
  BY <1>2, <1>3, FitsStable DEF TypeOK
<1> QED BY <1>1, <1>4, <1>5, <1>6, <1>7, <1>8

\* Idle, and any handler that runs, is a record of the right type.
LEMMA IdleType == Idle \in Tasks
BY DEF Idle, Tasks, PCs, Someone

\* A handler that does nothing fits, whatever the page does.
LEMMA IdleFits ==
  ASSUME NEW t
  PROVE  /\ Fits(t, Idle)
         /\ \A i : ~Creates(Idle, i)
BY DEF Fits, LoginFits, LoadFits, SaveFits, Creates, Idle

\* A handler whose only change is to a state in which nothing is asked of it
\* fits; so does one that returns.
LEMMA GoInv ==
  ASSUME IInv, NEW t \in Handlers,
         \/ Finish(t)
         \/ \E to \in PCs : to \in {"registering", "refused", "refreshing",
              "saved", "deleting", "deleted", "denied", "failed"} /\ GoTo(t, to),
         disturbed' \in BOOLEAN,
         UNCHANGED <<store, tokens, page, saves, session, late, crossed>>
  PROVE  IInv'
<1>1. CASE Finish(t)
  BY <1>1, IdleType, IdleFits, MoveInv DEF Finish
<1>2. ASSUME NEW to \in PCs, GoTo(t, to),
             to \in {"registering", "refused", "refreshing", "saved",
                     "deleting", "deleted", "denied", "failed"}
      PROVE  IInv'
  <2> DEFINE r == [task[t] EXCEPT !.pc = to]
  <2>1. task[t] \in Tasks /\ Fits(t, task[t])
    BY DEF IInv, TypeOK
  <2>2. r \in Tasks /\ r.pc = to /\ r.data = task[t].data
    BY <2>1 DEF Tasks
  <2>3. task' = [task EXCEPT ![t] = r]
    BY <1>2 DEF GoTo, IInv, TypeOK
  <2>4. Fits(t, r) /\ \A i : ~Creates(r, i)
    BY <1>2, <2>1, <2>2 DEF Fits, LoginFits, LoadFits, SaveFits, Creates
  <2> HIDE DEF r
  <2> QED BY <2>2, <2>3, <2>4, MoveInv
<1> QED BY <1>1, <1>2

\* The login form is submitted: its handler has an account and nothing else.
LEMMA SubmitLoginInv ==
  ASSUME IInv, NEW u \in Accounts, SubmitLogin(u)
  PROVE  IInv'
<1> DEFINE r == [Idle EXCEPT !.pc = "signingIn", !.who = u]
<1>1. r \in Tasks
  BY DEF Tasks, PCs, Someone, Idle
<1>2. Fits("login", r) /\ \A i : ~Creates(r, i)
  BY DEF SubmitLogin, Fits, LoginFits, LoadFits, SaveFits, Creates, Idle
<1>3. /\ task' = [task EXCEPT !["login"] = r]
      /\ disturbed' \in BOOLEAN
      /\ UNCHANGED <<store, tokens, page, saves, session, late, crossed>>
  BY DEF SubmitLogin, IInv, TypeOK, Overlaps
<1> HIDE DEF r
<1> QED BY <1>1, <1>2, <1>3, MoveInv DEF Handlers, Forms

\* The register form is submitted.
LEMMA SubmitRegisterInv ==
  ASSUME IInv, SubmitRegister
  PROVE  IInv'
<1> DEFINE r == [Idle EXCEPT !.pc = "registering"]
<1>1. r \in Tasks
  BY DEF Tasks, PCs, Someone, Idle
<1>2. Fits("register", r) /\ \A i : ~Creates(r, i)
  BY DEF Fits, LoginFits, LoadFits, SaveFits, Creates, Idle
<1>3. /\ task' = [task EXCEPT !["register"] = r]
      /\ disturbed' \in BOOLEAN
      /\ UNCHANGED <<store, tokens, page, saves, session, late, crossed>>
  BY DEF SubmitRegister, IInv, TypeOK, Overlaps
<1> HIDE DEF r
<1> QED BY <1>1, <1>2, <1>3, MoveInv DEF Handlers, Forms

\* The answer of a login: nothing is stored yet.
LEMMA ServeLoginInv ==
  ASSUME IInv, ServeLogin
  PROVE  IInv'
<1> USE DEF Handlers, Forms
<1>1. UNCHANGED <<store, tokens, page, saves, session, late, crossed>>
      /\ disturbed' \in BOOLEAN
  BY DEF ServeLogin, IInv, TypeOK
<1>2. CASE GoTo("login", "refused") \/ Finish("login")
  BY <1>1, <1>2, GoInv DEF PCs
<1>3. CASE GoTo("login", "granted")
  <2> DEFINE r == [task["login"] EXCEPT !.pc = "granted"]
  <2>1. task["login"] \in Tasks /\ Fits("login", task["login"])
    BY DEF IInv, TypeOK
  <2>2. r \in Tasks
    BY <2>1 DEF Tasks, PCs
  <2>3. Fits("login", r) /\ \A i : ~Creates(r, i)
    BY <2>1 DEF ServeLogin, Tasks, Fits, LoginFits, LoadFits, SaveFits, Creates
  <2>4. task' = [task EXCEPT !["login"] = r]
    BY <1>3 DEF GoTo, IInv, TypeOK
  <2> HIDE DEF r
  <2> QED BY <1>1, <2>2, <2>3, <2>4, MoveInv
<1> QED BY <1>2, <1>3 DEF ServeLogin

\* The answer of a registration changes nothing in the page.
LEMMA ServeRegisterInv ==
  ASSUME IInv, ServeRegister
  PROVE  IInv'
BY GoInv DEF ServeRegister, Handlers, Forms, PCs, IInv, TypeOK

\* A refused form without a refresh token returns.
LEMMA RefusedForGoodInv ==
  ASSUME IInv, NEW f \in Forms, RefusedForGood(f)
  PROVE  IInv'
BY GoInv DEF RefusedForGood, Handlers, IInv, TypeOK

\* A refused form sends the refresh token that is stored.
LEMMA TryRefreshInv ==
  ASSUME IInv, NEW f \in Forms, TryRefresh(f)
  PROVE  IInv'
<1> DEFINE r == [task[f] EXCEPT !.pc = "refreshing", !.who = tokens]
<1>1. f \in Handlers /\ task[f] \in Tasks /\ Fits(f, task[f])
  BY DEF IInv, TypeOK, Handlers
<1>2. r \in Tasks
  BY <1>1 DEF Tasks, PCs, IInv, TypeOK
<1>3. Fits(f, r) /\ \A i : ~Creates(r, i)
  BY <1>1 DEF Tasks, Fits, LoginFits, LoadFits, SaveFits, Creates
<1>4. /\ task' = [task EXCEPT ![f] = r]
      /\ disturbed' \in BOOLEAN
      /\ UNCHANGED <<store, tokens, page, saves, session, late, crossed>>
  BY <1>1 DEF TryRefresh, IInv, TypeOK
<1> HIDE DEF r
<1> QED BY <1>1, <1>2, <1>3, <1>4, MoveInv

\* What the server lists is known.
LEMMA ServeListInv ==
  ASSUME IInv, NEW t \in Loaders, ServeList(t)
  PROVE  IInv'
<1> DEFINE rows == RowsOf(task[t].who)
           r == [task[t] EXCEPT !.pc = "listed", !.who = NoOne, !.data = rows]
<1>1. t \in Handlers /\ task[t] \in Tasks /\ Fits(t, task[t])
  BY DEF IInv, TypeOK, Handlers, Loaders, Forms
<1>2. rows \subseteq Ids \X Row /\ \A e \in rows : Known(e)
  BY DEF RowsOf, IInv, TypeOK, EntriesInv
<1> HIDE DEF rows
<1>3. r \in Tasks
  BY <1>1, <1>2 DEF Tasks, PCs, Someone
<1>4. Fits(t, r) /\ \A i : ~Creates(r, i)
  BY <1>1, <1>2 DEF Tasks, Fits, LoginFits, LoadFits, SaveFits, Creates
<1>5. /\ task' = [task EXCEPT ![t] = r]
      /\ disturbed' \in BOOLEAN
      /\ UNCHANGED <<store, tokens, page, saves, session, late, crossed>>
  BY <1>1 DEF ServeList, IInv, TypeOK, rows
<1> HIDE DEF r
<1> QED BY <1>1, <1>3, <1>4, <1>5, MoveInv

\* The first decryption keeps what was listed.
LEMMA DecryptUsernamesInv ==
  ASSUME IInv, NEW t \in Loaders, DecryptUsernames(t)
  PROVE  IInv'
<1>1. t \in Handlers /\ task[t] \in Tasks /\ Fits(t, task[t])
  BY DEF IInv, TypeOK, Handlers, Loaders, Forms
<1>2. UNCHANGED <<store, tokens, page, saves, session, late, crossed>>
      /\ disturbed' \in BOOLEAN
  BY DEF DecryptUsernames, IInv, TypeOK
<1>3. CASE GoTo(t, "failed")
  BY <1>1, <1>2, <1>3, GoInv DEF PCs
<1>4. CASE GoTo(t, "decrypting")
  <2> DEFINE r == [task[t] EXCEPT !.pc = "decrypting"]
  <2>1. r \in Tasks
    BY <1>1 DEF Tasks, PCs
  <2>2. Fits(t, r) /\ \A i : ~Creates(r, i)
    BY <1>1 DEF Tasks, Fits, LoginFits, LoadFits, SaveFits, Creates
  <2>3. task' = [task EXCEPT ![t] = r]
    BY <1>4 DEF GoTo, IInv, TypeOK
  <2> HIDE DEF r
  <2> QED BY <1>1, <1>2, <2>1, <2>2, <2>3, MoveInv
<1> QED BY <1>3, <1>4 DEF DecryptUsernames

\* The second decryption shows that every entry has the key of this moment.
LEMMA DecryptRestInv ==
  ASSUME IInv, NEW t \in Loaders, DecryptRest(t)
  PROVE  IInv'
<1>1. t \in Handlers /\ task[t] \in Tasks /\ Fits(t, task[t])
  BY DEF IInv, TypeOK, Handlers, Loaders, Forms
<1>2. UNCHANGED <<store, tokens, page, saves, session, late, crossed>>
      /\ disturbed' \in BOOLEAN
  BY DEF DecryptRest, IInv, TypeOK
<1>3. CASE GoTo(t, "failed")
  BY <1>1, <1>2, <1>3, GoInv DEF PCs
<1>4. CASE Decrypts(task[t].data) /\ GoTo(t, "decrypted")
  <2> DEFINE r == [task[t] EXCEPT !.pc = "decrypted"]
  <2>1. r \in Tasks
    BY <1>1 DEF Tasks, PCs
  <2>2. Fits(t, r) /\ \A i : ~Creates(r, i)
    BY <1>1, <1>4
       DEF Tasks, Fits, LoginFits, LoadFits, SaveFits, Creates, Decrypts
  <2>3. task' = [task EXCEPT ![t] = r]
    BY <1>4 DEF GoTo, IInv, TypeOK
  <2> HIDE DEF r
  <2> QED BY <1>1, <1>2, <2>1, <2>2, <2>3, MoveInv
<1> QED BY <1>3, <1>4 DEF DecryptRest

\* A save that did not outlive its session has the key of the tokens stored
\* when it is sent.
LEMMA SendSaveInv ==
  ASSUME IInv, NEW t \in Saves, SendSave(t)
  PROVE  IInv'
<1> DEFINE r == [task[t] EXCEPT !.pc = "saving", !.who = tokens,
                                !.late = (@ \/ crossed)]
<1>1. t \in Handlers /\ task[t] \in Tasks /\ Fits(t, task[t])
      /\ task[t].pc = "encrypting"
  BY DEF SendSave, IInv, TypeOK, Handlers
<1>2. /\ r \in Tasks
      /\ r.pc = "saving" /\ r.who = tokens /\ r.key = task[t].key
      /\ r.plain = task[t].plain /\ r.id = task[t].id /\ r.ver = task[t].ver
      /\ r.data = task[t].data
      /\ ~r.late => ~task[t].late /\ ~crossed
  BY <1>1 DEF Tasks, PCs, IInv, TypeOK
<1>3. ~r.late => r.key = r.who
  BY <1>1, <1>2 DEF Fits, SaveFits, IInv, KeyMatchesTokens
<1>4. task' = [task EXCEPT ![t] = r] /\ disturbed' \in BOOLEAN
      /\ UNCHANGED <<store, tokens, page, saves, session, late, crossed>>
  BY <1>1 DEF SendSave, IInv, TypeOK
<1> HIDE DEF r
<1>5. Fits(t, r)
  BY <1>1, <1>2, <1>3 DEF Fits, LoginFits, LoadFits, SaveFits
<1>6. \A i : Creates(r, i) => Creates(task[t], i)
  BY <1>1, <1>2 DEF Creates
<1> QED BY <1>1, <1>2, <1>4, <1>5, <1>6, MoveInv

\* A save that was answered goes on to load.
LEMMA LoadAfterSaveInv ==
  ASSUME IInv, NEW t \in Saves, LoadAfterSave(t)
  PROVE  IInv'
<1> DEFINE r == [Idle EXCEPT !.pc = "listing", !.who = tokens]
<1>1. r \in Tasks
  BY DEF Tasks, PCs, Someone, Idle, IInv, TypeOK
<1>2. Fits(t, r) /\ \A i : ~Creates(r, i)
  BY DEF Fits, LoginFits, LoadFits, SaveFits, Creates, Idle, Loaders
<1>3. /\ task' = [task EXCEPT ![t] = r]
      /\ disturbed' \in BOOLEAN
      /\ UNCHANGED <<store, tokens, page, saves, session, late, crossed>>
  BY DEF LoadAfterSave, List, Overlaps
<1> HIDE DEF r
<1> QED BY <1>1, <1>2, <1>3, MoveInv DEF Handlers

\* A Delete has nothing to do with keys and texts.
LEMMA ClickDeleteInv ==
  ASSUME IInv, NEW t \in Deletes, ClickDelete(t)
  PROVE  IInv'
<1> PICK e \in entries :
      task' = [task EXCEPT ![t] =
                 [Idle EXCEPT !.pc = "deleting", !.who = tokens, !.id = e[1]]]
  BY DEF ClickDelete
<1> DEFINE r == [Idle EXCEPT !.pc = "deleting", !.who = tokens, !.id = e[1]]
<1>1. r \in Tasks
  BY DEF Tasks, PCs, Someone, Idle, IInv, TypeOK
<1>2. Fits(t, r) /\ \A i : ~Creates(r, i)
  BY DEF Fits, LoginFits, LoadFits, SaveFits, Creates, Idle
<1>3. /\ disturbed' \in BOOLEAN
      /\ UNCHANGED <<store, tokens, page, saves, session, late, crossed>>
  BY DEF ClickDelete, IInv, TypeOK, Overlaps
<1> HIDE DEF r
<1> QED BY <1>1, <1>2, <1>3, MoveInv DEF Handlers, r

\* Deny, Break and ShowError end a request or its handler.
LEMMA FailInv ==
  ASSUME IInv, NEW t \in Handlers, Deny(t) \/ Break(t) \/ ShowError(t)
  PROVE  IInv'
<1>1. /\ Finish(t) \/ GoTo(t, "denied") \/ GoTo(t, "failed")
      /\ UNCHANGED <<store, tokens, page, saves, session, late, crossed>>
      /\ disturbed' \in BOOLEAN
  BY DEF Deny, Break, ShowError, IInv, TypeOK
<1> QED BY <1>1, GoInv DEF PCs

\* A request that lost its page keeps what it carries.
LEMMA ForsakeInv ==
  ASSUME IInv, NEW t \in Handlers, Forsake(t)
  PROVE  IInv'
<1> DEFINE r == [task[t] EXCEPT !.live = FALSE]
<1>1. task[t] \in Tasks /\ Fits(t, task[t])
  BY DEF IInv, TypeOK
<1>2. /\ r \in Tasks
      /\ r.pc = task[t].pc /\ r.who = task[t].who /\ r.key = task[t].key
      /\ r.plain = task[t].plain /\ r.id = task[t].id /\ r.ver = task[t].ver
      /\ r.data = task[t].data /\ r.late = task[t].late
  BY <1>1 DEF Tasks
<1>3. /\ task' = [task EXCEPT ![t] = r]
      /\ disturbed' \in BOOLEAN
      /\ UNCHANGED <<store, tokens, page, saves, session, late, crossed>>
  BY DEF Forsake, IInv, TypeOK
<1> HIDE DEF r
<1>4. Fits(t, r)
  BY <1>1, <1>2 DEF Fits, LoginFits, LoadFits, SaveFits
<1>5. \A i : Creates(r, i) => Creates(task[t], i)
  BY <1>2 DEF Creates
<1> QED BY <1>2, <1>3, <1>4, <1>5, MoveInv

\* A handler returns, nothing is stored and no tokens or keys change.
LEMMA ReturnStable ==
  ASSUME IInv, NEW t \in Handlers, Finish(t),
         UNCHANGED <<store, saves, tokens, key, view, crossed>>
  PROVE  /\ task' \in [Handlers -> Tasks]
         /\ \A s \in Handlers : Fits(s, task[s])'
         /\ \A e : Known(e) => Known(e)'
         /\ \A id, p, k : Holds(id, p, k) => Holds(id, p, k)'
         /\ UniqueInv'
<1>1. /\ task' \in [Handlers -> Tasks]
      /\ \A s \in Handlers : task'[s] = IF s = t THEN Idle ELSE task[s]
  BY IdleType DEF Finish, IInv, TypeOK
<1>2. /\ \A e : Known(e) => Known(e)'
      /\ \A id, p, k : Holds(id, p, k) => Holds(id, p, k)'
  BY <1>1, IdleFits, BelongsStable DEF IInv, TypeOK
<1>3. UniqueInv'
  BY <1>1, IdleFits DEF UniqueInv, IInv
<1>4. ASSUME NEW s \in Handlers
      PROVE  Fits(s, task[s])'
  <2>1. Fits(s, task[s]) /\ Fits(s, Idle)
    BY IdleFits DEF IInv
  <2>2. Fits(s, task[s])' \/ s = t
    BY <1>1, <1>2, <2>1, FitsStable DEF IInv, TypeOK
  <2>3. Fits(s, Idle)'
    BY <1>2, <2>1, FitsStable DEF IInv, TypeOK
  <2> QED BY <1>1, <2>2, <2>3
<1> QED BY <1>1, <1>2, <1>3, <1>4

\* What a load has decrypted replaces _entries.
LEMMA RenderInv ==
  ASSUME IInv, NEW t \in Loaders, Render(t)
  PROVE  IInv'
<1>1. t \in Handlers /\ task[t] \in Tasks /\ Fits(t, task[t])
      /\ task[t].pc = "decrypted"
  BY DEF Render, IInv, TypeOK, Handlers, Loaders, Forms
<1>2. /\ task' \in [Handlers -> Tasks]
      /\ \A s \in Handlers : Fits(s, task[s])'
      /\ \A e : Known(e) => Known(e)'
      /\ \A id, p, k : Holds(id, p, k) => Holds(id, p, k)'
      /\ UniqueInv'
  BY <1>1, ReturnStable DEF Render
<1> USE DEF IInv, Render
<1>3. TypeOK'
  BY <1>1, <1>2 DEF TypeOK, Tasks
<1>4. KeyInv' /\ KeyMatchesTokens'
  BY DEF KeyInv, KeyMatchesTokens
<1>5. EntriesInv'
  BY <1>1, <1>2 DEF EntriesInv, Fits, LoadFits
<1>6. ModalInv'
  BY <1>2 DEF ModalInv, TypeOK
<1> QED BY <1>2, <1>3, <1>4, <1>5, <1>6

\* A granted login stores its tokens before there is a key.
LEMMA StoreTokensInv ==
  ASSUME IInv, StoreTokens
  PROVE  IInv'
<1> DEFINE r == [task["login"] EXCEPT !.pc = "deriving"]
<1>1. "login" \in Handlers /\ task["login"] \in Tasks
      /\ Fits("login", task["login"]) /\ task["login"].pc = "granted"
  BY DEF StoreTokens, IInv, TypeOK, Handlers, Forms
<1>2. view = "auth" /\ view' = "auth" /\ tokens' = r.who /\ tokens' \in Someone
      /\ r.who # NoOne
  BY <1>1 DEF StoreTokens, Fits, LoginFits, page, Tasks
<1>3. r \in Tasks /\ r.pc = "deriving" /\ r.data = task["login"].data
  BY <1>1 DEF Tasks, PCs
<1>4. \A s \in Handlers : task'[s] = IF s = "login" THEN r ELSE task[s]
  BY DEF StoreTokens, GoTo, IInv, TypeOK
<1> USE DEF IInv, StoreTokens, page
<1>5. TypeOK'
  BY <1>2, <1>3 DEF TypeOK, GoTo
<1> HIDE DEF r
<1>6. \A i : ~Creates(r, i)
  BY <1>3 DEF Creates
<1>7. /\ \A e : Known(e) => Known(e)'
      /\ \A id, p, k : Holds(id, p, k) => Holds(id, p, k)'
  BY <1>4, <1>6, BelongsStable DEF TypeOK
<1>8. KeyInv' /\ KeyMatchesTokens'
  BY <1>2 DEF KeyInv, KeyMatchesTokens
<1>9. EntriesInv' /\ ModalInv'
  BY <1>7 DEF EntriesInv, ModalInv
<1>10. UniqueInv'
  BY <1>4, <1>6 DEF UniqueInv
<1>11. ASSUME NEW s \in Handlers
       PROVE  Fits(s, task[s])'
  <2>1. CASE s = "login"
    BY <1>1, <1>2, <1>3, <1>4, <1>7, <2>1
       DEF Fits, LoginFits, LoadFits, SaveFits
  <2>2. CASE s # "login"
    <3>1. Fits(s, task[s]) /\ task[s].pc # "deriving"
      BY <2>2 DEF Fits, LoginFits
    <3> QED BY <1>4, <1>7, <2>2, <3>1, FitsStable DEF TypeOK
  <2> QED BY <2>1, <2>2
<1> QED BY <1>5, <1>8, <1>9, <1>10, <1>11

\* The answer of a refresh replaces the tokens, and crosses a login that has
\* its own already.
LEMMA RefreshedInv ==
  ASSUME IInv, NEW f \in Forms, Refreshed(f)
  PROVE  IInv'
<1>1. f \in Handlers /\ task[f] \in Tasks
  BY DEF IInv, TypeOK, Handlers
<1>2. /\ task' \in [Handlers -> Tasks]
      /\ \A s \in Handlers : task'[s] = IF s = f THEN Idle ELSE task[s]
  BY IdleType DEF Refreshed, Finish, IInv, TypeOK
<1> USE DEF IInv, Refreshed, page
<1>3. TypeOK'
  BY <1>1, <1>2 DEF TypeOK, Tasks, Someone
<1>4. /\ \A e : Known(e) => Known(e)'
      /\ \A id, p, k : Holds(id, p, k) => Holds(id, p, k)'
  BY <1>2, IdleFits, BelongsStable DEF TypeOK
<1>5. KeyInv' /\ KeyMatchesTokens'
  BY DEF KeyInv, KeyMatchesTokens
<1>6. EntriesInv' /\ ModalInv'
  BY <1>4 DEF EntriesInv, ModalInv
<1>7. UniqueInv'
  BY <1>2, IdleFits DEF UniqueInv
<1>8. ASSUME NEW s \in Handlers
      PROVE  Fits(s, task[s])'
  <2>1. CASE s = f
    BY <1>2, <2>1 DEF Fits, LoginFits, LoadFits, SaveFits, Idle
  <2>2. CASE s # f
    <3>1. Fits(s, task[s])
      OBVIOUS
    <3>2. crossed' \/ task[s].pc # "deriving"
      BY <3>1 DEF Fits, LoginFits
    <3> QED BY <1>2, <1>4, <2>2, <3>1, <3>2, FitsStable DEF TypeOK
  <2> QED BY <2>1, <2>2
<1> QED BY <1>3, <1>5, <1>6, <1>7, <1>8

\* The vault opens under a key that nothing decrypted before had: until now
\* there was none.
LEMMA OpenVaultInv ==
  ASSUME IInv, OpenVault
  PROVE  IInv'
<1> PICK r : r = [Idle EXCEPT !.pc = "listing", !.who = tokens]
  OBVIOUS
<1>1. "login" \in Handlers /\ task["login"] \in Tasks
      /\ Fits("login", task["login"]) /\ task["login"].pc = "deriving"
  BY DEF OpenVault, IInv, TypeOK, Handlers, Forms
<1>2. view = "auth" /\ key = NoOne /\ view' = "vault"
      /\ key' \in Accounts /\ (~crossed => key' = tokens)
  BY <1>1 DEF OpenVault, Fits, LoginFits, IInv, KeyInv, Tasks, Someone
<1>3. r \in Tasks /\ \A i : ~Creates(r, i)
  BY DEF Tasks, PCs, Someone, Idle, IInv, TypeOK, Creates
<1>4. /\ task' \in [Handlers -> Tasks]
      /\ \A s \in Handlers : task'[s] = IF s = "login" THEN r ELSE task[s]
  BY <1>3 DEF OpenVault, List, IInv, TypeOK
<1>5. \A e \in Ids \X Row : e[2].key # NoOne
  BY DEF Row
<1> USE DEF IInv, OpenVault
<1>6. TypeOK'
  BY <1>2, <1>4 DEF TypeOK, List, Overlaps, Someone
<1>7. Fits("login", r)'
  BY DEF Fits, LoginFits, LoadFits, SaveFits, Idle, Loaders
<1>8. /\ \A e : Known(e) => Known(e)'
      /\ \A id, p, k : Holds(id, p, k) => Holds(id, p, k)'
  BY <1>3, <1>4, BelongsStable DEF TypeOK
<1>9. KeyInv' /\ KeyMatchesTokens'
  BY <1>2 DEF KeyInv, KeyMatchesTokens
<1>10. EntriesInv'
  BY <1>2, <1>5, <1>8 DEF EntriesInv, TypeOK
<1>11. ModalInv'
  BY <1>2, <1>8 DEF ModalInv
<1>12. UniqueInv'
  BY <1>3, <1>4 DEF UniqueInv
<1>13. ASSUME NEW s \in Handlers, s # "login"
       PROVE  Fits(s, task[s])'
  <2>1. Fits(s, task[s]) /\ task'[s] = task[s] /\ task[s] \in Tasks
    BY <1>4, <1>13 DEF TypeOK
  <2>2. LoginFits(s, task[s])'
    BY <1>13, <2>1 DEF Fits, LoginFits
  <2>3. LoadFits(s, task[s])'
    BY <1>2, <1>5, <1>8, <2>1 DEF Fits, LoadFits, Tasks
  <2>4. SaveFits(s, task[s])'
    BY <1>2, <1>8, <2>1 DEF Fits, SaveFits
  <2> QED BY <2>2, <2>3, <2>4 DEF Fits
<1> QED BY <1>4, <1>6, <1>7, <1>9, <1>10, <1>11, <1>12, <1>13

\* The entry form opens or closes: OpenAdd, OpenEdit and CloseModal.
LEMMA FormInv ==
  ASSUME IInv,
         \/ modal' = [modal EXCEPT !.open = FALSE]
         \/ \E id \in Ids \cup {NoOne}, p \in Accounts, l \in BOOLEAN :
              /\ modal' = [open |-> TRUE, id |-> id, plain |-> p, late |-> l]
              /\ ~l => view = "vault" /\ Holds(id, p, key),
         UNCHANGED <<store, tokens, key, entries, view, saves, task, session,
                     late, crossed, disturbed>>
  PROVE  IInv'
<1> USE DEF IInv
<1>1. TypeOK'
  <2>1. modal' \in [open : BOOLEAN, id : Ids \cup {NoOne}, plain : Someone,
                   late : BOOLEAN]
    <3>1. CASE modal' = [modal EXCEPT !.open = FALSE]
      BY <3>1 DEF TypeOK
    <3>2. ASSUME NEW id \in Ids \cup {NoOne}, NEW p \in Accounts,
                 NEW l \in BOOLEAN,
                 modal' = [open |-> TRUE, id |-> id, plain |-> p, late |-> l]
          PROVE  modal' \in [open : BOOLEAN, id : Ids \cup {NoOne},
                             plain : Someone, late : BOOLEAN]
      BY <3>2 DEF Someone
    <3> QED BY <3>1, <3>2
  <2> QED BY <2>1 DEF TypeOK
<1>2. /\ \A e : Known(e) => Known(e)'
      /\ \A id, p, k : Holds(id, p, k) => Holds(id, p, k)'
  BY BelongsStable DEF TypeOK
<1>3. KeyInv' /\ KeyMatchesTokens' /\ UniqueInv'
  BY DEF KeyInv, KeyMatchesTokens, UniqueInv
<1>4. EntriesInv'
  BY <1>2 DEF EntriesInv
<1>5. ModalInv'
  BY <1>2 DEF ModalInv, TypeOK
<1>6. ASSUME NEW s \in Handlers
      PROVE  Fits(s, task[s])'
  BY <1>2, FitsStable DEF TypeOK
<1> QED BY <1>1, <1>3, <1>4, <1>5, <1>6

\* An empty form is filled by whoever holds the key.
LEMMA OpenAddInv ==
  ASSUME IInv, OpenAdd
  PROVE  IInv'
<1>1. key \in Accounts /\ view = "vault" /\ Holds(NoOne, key, key)
  BY DEF OpenAdd, IInv, KeyInv, TypeOK, Someone, Holds
<1> QED BY <1>1, FormInv DEF OpenAdd

\* The form holds a text of the owner of the entry it would replace.
LEMMA OpenEditInv ==
  ASSUME IInv, OpenEdit
  PROVE  IInv'
<1> PICK e \in entries :
      modal' = [open |-> TRUE, id |-> e[1], plain |-> e[2].plain,
                late |-> e[2].late]
  BY DEF OpenEdit
<1>1. e[1] \in Ids /\ e[2].plain \in Accounts /\ e[2].late \in BOOLEAN
  BY DEF IInv, TypeOK, Row
<1>2. ~e[2].late => Holds(e[1], e[2].plain, key)
  BY <1>1 DEF IInv, EntriesInv, Known, Holds
<1>3. view = "vault"
      /\ UNCHANGED <<store, tokens, key, entries, view, saves, task, session,
                     late, crossed, disturbed>>
  BY DEF OpenEdit
<1> QED BY <1>1, <1>2, <1>3, FormInv

\* The form is hidden.
LEMMA CloseModalInv ==
  ASSUME IInv, CloseModal
  PROVE  IInv'
BY FormInv DEF CloseModal

\* A save that begins has the key of the session and a new number.
LEMMA SubmitSaveInv ==
  ASSUME IInv, NEW t \in Saves, SubmitSave(t)
  PROVE  IInv'
<1> PICK r : r = [Idle EXCEPT !.pc = "encrypting", !.late = modal.late,
                              !.key = key, !.plain = modal.plain,
                              !.id = modal.id, !.ver = saves + 1]
  OBVIOUS
<1>1. t \in Handlers /\ key \in Accounts /\ modal.plain \in Accounts
      /\ view = "vault" /\ saves \in Nat /\ saves + 1 \in Ids
  BY DEF SubmitSave, IInv, TypeOK, Someone, KeyInv, ModalInv, Handlers, Ids
<1>2. r \in Tasks
  BY <1>1 DEF Tasks, PCs, Someone, Idle, IInv, TypeOK
<1>3. /\ r.pc = "encrypting" /\ r.late = modal.late /\ r.key = key
      /\ r.plain = modal.plain /\ r.id = modal.id /\ r.ver = saves + 1
      /\ r.data = {}
  BY DEF Idle
<1>4. /\ task' \in [Handlers -> Tasks]
      /\ \A s \in Handlers : task'[s] = IF s = t THEN r ELSE task[s]
  BY <1>2 DEF SubmitSave, IInv, TypeOK
<1> USE DEF IInv, SubmitSave, page
<1>5. TypeOK'
  BY <1>4 DEF TypeOK, Overlaps
<1>6. /\ \A e : Known(e) => Known(e)'
      /\ \A id, p, k : Holds(id, p, k) => Holds(id, p, k)'
  <2>1. \A i \in 0..saves : ~Creates(r, i)
    BY <1>1, <1>3 DEF Creates
  <2> QED BY <1>1, <1>4, <2>1, BelongsStable DEF TypeOK, Ids
<1>7. KeyInv' /\ KeyMatchesTokens'
  BY DEF KeyInv, KeyMatchesTokens
<1>8. EntriesInv' /\ ModalInv'
  BY <1>6 DEF EntriesInv, ModalInv
<1>9. UniqueInv'
  <2>1. ASSUME NEW s \in Handlers, NEW i, Creates(task[s], i)
        PROVE  i # saves + 1
    BY <1>1, <2>1 DEF Creates, Fits, SaveFits
  <2> QED BY <1>3, <1>4, <2>1 DEF UniqueInv, Creates
<1>10. ASSUME NEW s \in Handlers
       PROVE  Fits(s, task[s])'
  <2>1. CASE s = t
    <3>1. Fits(t, r)'
      BY <1>1, <1>3, <1>6 DEF Fits, LoginFits, LoadFits, SaveFits, ModalInv
    <3> QED BY <1>4, <2>1, <3>1
  <2>2. CASE s # t
    BY <1>1, <1>4, <1>6, <2>2, FitsStable DEF TypeOK
  <2> QED BY <2>1, <2>2
<1> QED BY <1>5, <1>7, <1>8, <1>9, <1>10

\* The server takes a save: the row belongs to the account of the token, and
\* is made with its key and its text.
LEMMA ServeSaveInv ==
  ASSUME IInv, NEW t \in Saves, ServeSave(t)
  PROVE  IInv'
<1> PICK r : r = task[t]
  OBVIOUS
<1> PICK at : at = IF r.id = NoOne THEN r.ver ELSE r.id
  OBVIOUS
<1> PICK row : row = [owner |-> r.who, key |-> r.key, plain |-> r.plain,
                      ver |-> r.ver, late |-> r.late]
  OBVIOUS
<1> PICK n : n = task'[t]
  OBVIOUS
<1>1. t \in Handlers /\ r \in Tasks /\ Fits(t, r) /\ r.pc = "saving"
      /\ r.who # NoOne /\ r.key # NoOne /\ r.plain # NoOne
      /\ r.ver \in 1..saves /\ saves \in Nat
  BY DEF ServeSave, IInv, TypeOK, Handlers, Fits, SaveFits, Ids
<1>2. /\ r.id = NoOne => at = r.ver /\ Creates(task[t], at)
      /\ r.id # NoOne => at = r.id /\ store[at] # NoOne /\ store[at].owner = r.who
      /\ at \in Ids /\ store' = [store EXCEPT ![at] = row]
  BY <1>1 DEF ServeSave, Owns, Creates, Ids, IInv, TypeOK
<1>3. /\ row \in Row /\ row.owner = r.who /\ row.key = r.key
      /\ row.plain = r.plain /\ row.late = r.late
  <2>1. {r.who, r.key, r.plain} \subseteq Accounts /\ r.ver \in Ids
        /\ r.late \in BOOLEAN
    BY <1>1 DEF Tasks, Someone, IInv, TypeOK, Ids
  <2> QED BY <2>1 DEF Row
<1>4. ~row.late => row.key = row.owner /\ row.plain = row.owner
  BY <1>1, <1>2, <1>3 DEF Fits, SaveFits, Holds, BelongsTo
<1>5. /\ n \in Tasks /\ n.pc \in {"idle", "saved"} /\ n.data \in {{}, r.data}
      /\ task' \in [Handlers -> Tasks]
      /\ \A s \in Handlers : task'[s] = IF s = t THEN n ELSE task[s]
  <2>1. /\ Idle \in Tasks /\ Idle.pc = "idle" /\ Idle.data = {}
        /\ [r EXCEPT !.pc = "saved"] \in Tasks
    BY <1>1, IdleType DEF Tasks, PCs, Idle
  <2>2. \E m \in {Idle, [r EXCEPT !.pc = "saved"]} :
          task' = [task EXCEPT ![t] = m]
    BY DEF ServeSave, GoTo, Finish, IInv, TypeOK
  <2> QED BY <1>1, <2>1, <2>2 DEF IInv, TypeOK, Tasks
<1>6. UNCHANGED <<tokens, page, saves, session, late, crossed, disturbed>>
  BY DEF ServeSave
<1> USE DEF IInv, page
<1>7. TypeOK'
  BY <1>2, <1>3, <1>5, <1>6 DEF TypeOK
<1>8. /\ \A e : Known(e) => Known(e)'
      /\ \A id, p, k : Holds(id, p, k) => Holds(id, p, k)'
  <2>1. \A i : ~Creates(n, i)
    BY <1>5 DEF Creates
  <2>2. \A i \in 0..saves :
          \/ store'[i] = NoOne
          \/ store[i] # NoOne /\ store'[i].owner = store[i].owner
          \/ \E s \in Handlers : Creates(task[s], i)
    BY <1>1, <1>2, <1>3 DEF TypeOK, Ids
  <2> QED BY <1>1, <1>5, <1>6, <2>1, <2>2, BelongsStable
<1>9. Known(<<at, row>>)'
  <2>1. BelongsTo(at, r.who)'
    <3>1. CASE r.id = NoOne
      <4>1. \A s \in Handlers : s # t => ~Creates(task[s], at)
        BY <1>1, <1>2, <3>1 DEF UniqueInv
      <4>2. ~Creates(n, at)
        BY <1>5 DEF Creates
      <4> QED BY <1>1, <1>2, <1>3, <1>5, <1>6, <3>1, <4>1, <4>2
             DEF BelongsTo, TypeOK
    <3>2. CASE r.id # NoOne
      <4>1. Known(<<at, store[at]>>)
        BY <1>2, <3>2 DEF EntriesInv
      <4>2. Holds(at, r.who, r.key)
        BY <1>1, <1>2, <3>2, <4>1 DEF Known, Holds
      <4>3. at # NoOne
        BY <1>2, <3>2
      <4> QED BY <1>8, <4>2, <4>3 DEF Holds
    <3> QED BY <3>1, <3>2
  <2> QED BY <1>3, <1>4, <2>1 DEF Known
<1>10. KeyInv' /\ KeyMatchesTokens'
  BY <1>6 DEF KeyInv, KeyMatchesTokens
<1>11. EntriesInv' /\ ModalInv'
  BY <1>2, <1>6, <1>8, <1>9 DEF EntriesInv, ModalInv, TypeOK
<1>12. UniqueInv'
  BY <1>5 DEF UniqueInv, Creates
<1>13. ASSUME NEW s \in Handlers
       PROVE  Fits(s, task[s])'
  <2>1. CASE s = t
    <3>1. Fits(t, n)'
      BY <1>1, <1>5, <1>8 DEF Fits, LoginFits, LoadFits, SaveFits
    <3> QED BY <1>5, <2>1, <3>1
  <2>2. CASE s # t
    BY <1>5, <1>6, <1>8, <2>2, FitsStable DEF TypeOK
  <2> QED BY <2>1, <2>2
<1> QED BY <1>7, <1>10, <1>11, <1>12, <1>13

\* The server removes an entry: what was known of its id stays true.
LEMMA ServeDeleteInv ==
  ASSUME IInv, NEW t \in Deletes, ServeDelete(t)
  PROVE  IInv'
<1> PICK n : n = task'[t]
  OBVIOUS
<1>1. t \in Handlers /\ task[t] \in Tasks /\ Fits(t, task[t])
  BY DEF IInv, TypeOK, Handlers
<1>2. /\ n \in Tasks /\ n.pc \in {"idle", "deleted"}
      /\ n.data \in {{}, task[t].data}
      /\ task' \in [Handlers -> Tasks]
      /\ \A s \in Handlers : task'[s] = IF s = t THEN n ELSE task[s]
  <2>1. /\ Idle \in Tasks /\ Idle.pc = "idle" /\ Idle.data = {}
        /\ [task[t] EXCEPT !.pc = "deleted"] \in Tasks
    BY <1>1, IdleType DEF Tasks, PCs, Idle
  <2>2. \E m \in {Idle, [task[t] EXCEPT !.pc = "deleted"]} :
          task' = [task EXCEPT ![t] = m]
    BY DEF ServeDelete, GoTo, Finish, IInv, TypeOK
  <2> QED BY <1>1, <2>1, <2>2 DEF IInv, TypeOK, Tasks
<1>3. task[t].id \in Ids /\ store' = [store EXCEPT ![task[t].id] = NoOne]
  BY DEF ServeDelete, Owns
<1>4. UNCHANGED <<tokens, page, saves, session, late, crossed, disturbed>>
  BY DEF ServeDelete
<1> USE DEF IInv, page
<1>5. TypeOK'
  BY <1>2, <1>3, <1>4 DEF TypeOK
<1>6. \A i : ~Creates(n, i)
  BY <1>2 DEF Creates
<1>7. /\ \A e : Known(e) => Known(e)'
      /\ \A id, p, k : Holds(id, p, k) => Holds(id, p, k)'
  <2>1. \A i \in 0..saves :
          \/ store'[i] = NoOne
          \/ store[i] # NoOne /\ store'[i].owner = store[i].owner
    BY <1>3 DEF TypeOK, Ids
  <2> QED BY <1>2, <1>4, <1>6, <2>1, BelongsStable DEF TypeOK, Ids
<1>8. KeyInv' /\ KeyMatchesTokens'
  BY <1>4 DEF KeyInv, KeyMatchesTokens
<1>9. EntriesInv' /\ ModalInv'
  BY <1>3, <1>4, <1>7 DEF EntriesInv, ModalInv, TypeOK
<1>10. UniqueInv'
  BY <1>2, <1>6 DEF UniqueInv
<1>11. ASSUME NEW s \in Handlers
       PROVE  Fits(s, task[s])'
  <2>1. CASE s = t
    <3>1. Fits(t, n)'
      BY <1>1, <1>2, <1>7 DEF Fits, LoginFits, LoadFits, SaveFits
    <3> QED BY <1>2, <2>1, <3>1
  <2>2. CASE s # t
    BY <1>2, <1>4, <1>7, <2>2, FitsStable DEF TypeOK
  <2> QED BY <2>1, <2>2
<1> QED BY <1>5, <1>8, <1>9, <1>10, <1>11

\* An entry is dropped from _entries.
LEMMA DeletedInv ==
  ASSUME IInv, NEW t \in Deletes, Deleted(t)
  PROVE  IInv'
<1>1. /\ task' \in [Handlers -> Tasks]
      /\ \A s \in Handlers : Fits(s, task[s])'
      /\ \A e : Known(e) => Known(e)'
      /\ \A id, p, k : Holds(id, p, k) => Holds(id, p, k)'
      /\ UniqueInv'
  BY ReturnStable DEF Deleted, Handlers
<1> USE DEF IInv, Deleted
<1>2. TypeOK'
  BY <1>1 DEF TypeOK
<1>3. KeyInv' /\ KeyMatchesTokens'
  BY DEF KeyInv, KeyMatchesTokens
<1>4. EntriesInv' /\ ModalInv'
  BY <1>1 DEF EntriesInv, ModalInv
<1> QED BY <1>1, <1>2, <1>3, <1>4

\* r is what becomes of a handler that outlives its session.
Outlives(s, r) ==
  /\ r.pc = task[s].pc /\ r.who = task[s].who /\ r.key = task[s].key
  /\ r.plain = task[s].plain /\ r.id = task[s].id /\ r.ver = task[s].ver
  /\ r.data = task[s].data
  /\ s \in Loaders /\ task[s].pc # "idle" => r.late

\* The session ends, by PerformLogout or ReloadPage: no login is under way, and
\* what loads or saves from now on is late.
LEMMA EndInv ==
  ASSUME IInv,
         tokens' \in Someone, session' \in 0..MaxSessions,
         modal' \in [open : BOOLEAN, id : Ids \cup {NoOne}, plain : Someone,
                    late : BOOLEAN],
         modal'.open => modal'.plain # NoOne /\ modal'.late,
         key' = NoOne, view' = "auth", entries' = {}, late' = FALSE,
         crossed' = FALSE,
         UNCHANGED <<store, saves, disturbed>>,
         task' \in [Handlers -> Tasks],
         \A s \in Handlers :
           \/ task'[s] = Idle
           \/ /\ Outlives(s, task'[s])
              /\ task[s].pc \notin {"signingIn", "granted", "deriving"}
  PROVE  IInv'
<1> USE DEF IInv
<1>1. TypeOK'
  BY DEF TypeOK, Someone
<1>2. \A s \in Handlers : \A i : Creates(task'[s], i) => Creates(task[s], i)
  BY IdleFits DEF Creates, Outlives
<1>3. /\ \A e : Known(e) => Known(e)'
      /\ \A id, p, k : Holds(id, p, k) => Holds(id, p, k)'
  BY <1>2, BelongsStable DEF TypeOK
<1>4. KeyInv' /\ KeyMatchesTokens' /\ ModalInv'
  BY DEF KeyInv, KeyMatchesTokens, ModalInv
<1>5. EntriesInv'
  BY <1>3 DEF EntriesInv
<1>6. UniqueInv'
  BY <1>2 DEF UniqueInv
<1>7. ASSUME NEW s \in Handlers
      PROVE  Fits(s, task[s])'
  <2>1. CASE task'[s] = Idle
    BY <2>1 DEF Fits, LoginFits, LoadFits, SaveFits, Idle
  <2>2. CASE task'[s] # Idle
    <3>1. Fits(s, task[s])
      OBVIOUS
    <3>2. LoginFits(s, task[s])'
      BY <2>2 DEF LoginFits, Outlives
    <3>3. LoadFits(s, task[s])'
      BY <1>3, <2>2, <3>1 DEF Fits, LoadFits, Outlives
    <3>4. SaveFits(s, task[s])'
      BY <2>2, <3>1 DEF Fits, SaveFits, Loaders, Outlives
    <3> QED BY <3>2, <3>3, <3>4 DEF Fits
  <2> QED BY <2>1, <2>2
<1> QED BY <1>1, <1>4, <1>5, <1>6, <1>7

\* Outlive changes nothing in a handler but its history.
LEMMA OutliveFits ==
  ASSUME IInv, NEW s \in Handlers
  PROVE  /\ Outlive[s] \in Tasks
         /\ [Outlive[s] EXCEPT !.live = FALSE] \in Tasks
         /\ Outlives(s, Outlive[s])
         /\ Outlives(s, [Outlive[s] EXCEPT !.live = FALSE])
<1> DEFINE b == Running(s) /\ s \in Loaders
<1>1. b \in BOOLEAN /\ task[s] \in Tasks
  BY DEF IInv, TypeOK
<1>2. Outlive[s] = [task[s] EXCEPT !.late = b]
  BY DEF Outlive
<1>3. s \in Loaders /\ task[s].pc # "idle" => b
  BY DEF Running
<1> HIDE DEF b
<1> QED BY <1>1, <1>2, <1>3 DEF Tasks, Outlives

\* Sign out, by the button or by the timer.
LEMMA PerformLogoutInv ==
  ASSUME IInv, PerformLogout
  PROVE  IInv'
<1>1. \A s \in Handlers : task'[s] = Outlive[s]
  BY DEF PerformLogout, Outlive
<1>2. task' \in [Handlers -> Tasks]
  BY <1>1, OutliveFits DEF PerformLogout, Outlive
<1>3. \A s \in Handlers : task[s].pc \notin {"signingIn", "granted", "deriving"}
  BY DEF PerformLogout, IInv, Fits, LoginFits
<1>4. /\ modal' \in [open : BOOLEAN, id : Ids \cup {NoOne}, plain : Someone,
                     late : BOOLEAN]
      /\ modal'.open => modal'.plain # NoOne /\ modal'.late
  BY DEF PerformLogout, IInv, TypeOK, ModalInv
<1>5. /\ tokens' \in Someone /\ session' \in 0..MaxSessions
      /\ key' = NoOne /\ view' = "auth" /\ entries' = {} /\ late' = FALSE
      /\ crossed' = FALSE /\ UNCHANGED <<store, saves, disturbed>>
  BY DEF PerformLogout, IInv, TypeOK, Someone
<1>6. \A s \in Handlers : Outlives(s, task'[s])
  BY <1>1, OutliveFits
<1> QED BY <1>2, <1>3, <1>4, <1>5, <1>6, EndInv

\* A reload: only requests on their way go on.
LEMMA ReloadPageInv ==
  ASSUME IInv, ReloadPage
  PROVE  IInv'
<1>1. \A s \in Handlers :
        task'[s] = IF task[s].pc \in {"saving", "deleting"}
                   THEN [Outlive[s] EXCEPT !.live = FALSE] ELSE Idle
  BY DEF ReloadPage
<1>2. task' \in [Handlers -> Tasks]
  BY <1>1, OutliveFits, IdleType DEF ReloadPage
<1>3. /\ modal' \in [open : BOOLEAN, id : Ids \cup {NoOne}, plain : Someone,
                     late : BOOLEAN]
      /\ ~modal'.open
  BY DEF ReloadPage, NoModal, Someone
<1>4. /\ tokens' \in Someone /\ session' \in 0..MaxSessions
      /\ key' = NoOne /\ view' = "auth" /\ entries' = {} /\ late' = FALSE
      /\ crossed' = FALSE /\ UNCHANGED <<store, saves, disturbed>>
  BY DEF ReloadPage, IInv, TypeOK
<1>5. \A s \in Handlers :
        \/ task'[s] = Idle
        \/ Outlives(s, task'[s]) /\ task[s].pc \in {"saving", "deleting"}
  BY <1>1, OutliveFits
<1> QED BY <1>2, <1>3, <1>4, <1>5, EndInv

(***************************************************************************)
(* The theorems                                                            *)
(***************************************************************************)

\* Every step preserves the invariant.
LEMMA NextInv == IInv /\ [Next]_vars => IInv'
<1> SUFFICES ASSUME IInv, [Next]_vars
             PROVE  IInv'
  OBVIOUS
<1>1. CASE UNCHANGED vars
  <2> USE <1>1 DEF vars, page
  <2>1. TypeOK' /\ KeyInv' /\ KeyMatchesTokens' /\ UniqueInv'
    BY DEF IInv, TypeOK, KeyInv, KeyMatchesTokens, UniqueInv
  <2>2. /\ \A e : Known(e) => Known(e)'
        /\ \A id, p, k : Holds(id, p, k) => Holds(id, p, k)'
    BY BelongsStable DEF IInv, TypeOK
  <2>3. EntriesInv' /\ ModalInv'
    BY <2>2 DEF IInv, EntriesInv, ModalInv
  <2>4. \A t \in Handlers : Fits(t, task[t])'
    BY <2>2, FitsStable DEF IInv, TypeOK
  <2> QED BY <2>1, <2>3, <2>4 DEF IInv
<1>2. CASE UserStep
  BY <1>2, SubmitLoginInv, SubmitRegisterInv, OpenAddInv, OpenEditInv,
     CloseModalInv, SubmitSaveInv, ClickDeleteInv, PerformLogoutInv,
     ReloadPageInv DEF UserStep
<1>3. ASSUME NEW t \in Handlers, Step(t)
      PROVE  IInv'
  <2>1. CASE t = "login" /\ LoginStep
    BY <2>1, ServeLoginInv, StoreTokensInv, OpenVaultInv DEF LoginStep
  <2>2. CASE t = "register" /\ ServeRegister
    BY <2>2, ServeRegisterInv
  <2>3. CASE t \in Forms /\ FormStep(t)
    BY <2>3, RefusedForGoodInv, TryRefreshInv, RefreshedInv DEF FormStep
  <2>4. CASE t \in Loaders /\ LoadStep(t)
    BY <2>4, ServeListInv, DecryptUsernamesInv, DecryptRestInv, RenderInv
       DEF LoadStep
  <2>5. CASE t \in Saves /\ SaveStep(t)
    BY <2>5, SendSaveInv, ServeSaveInv, LoadAfterSaveInv DEF SaveStep
  <2>6. CASE t \in Deletes /\ DeleteStep(t)
    BY <2>6, ServeDeleteInv, DeletedInv DEF DeleteStep
  <2>7. CASE Deny(t) \/ Break(t) \/ Forsake(t) \/ ShowError(t)
    BY <2>7, FailInv, ForsakeInv
  <2> QED BY <1>3, <2>1, <2>2, <2>3, <2>4, <2>5, <2>6, <2>7 DEF Step
<1> QED BY <1>1, <1>2, <1>3 DEF Next

\* The invariant holds: page, tokens, handlers and stored entries are related as
\* the properties need it, for any numbers of them.
THEOREM InductiveInvariant == Spec => []IInv
BY InitInv, NextInv, PTL DEF Spec

\* The state of the page, its storage and its handlers has its types.
THEOREM TypeCorrect == Spec => []TypeOK
<1>1. IInv => TypeOK
  BY DEF IInv
<1> QED BY <1>1, InductiveInvariant, PTL

\* While the vault is open, the key that encrypts and the tokens that name
\* the owner are of one account, however handlers of earlier sessions, failing
\* requests and reloads interleave; a refresh that crosses the login excepted.
THEOREM KeysMatch == Spec => []KeyMatchesTokens
<1>1. IInv => KeyMatchesTokens
  BY DEF IInv
<1> QED BY <1>1, InductiveInvariant, PTL

\* A row is readable by its owner and holds a text of that person, for any
\* number of accounts, overlapping saves and sessions, unless its form or its
\* save outlived a session.
THEOREM SavedRowsReadable == Spec => []RowsReadable
<1>1. IInv => RowsReadable
  <2> SUFFICES ASSUME IInv, NEW i \in Ids, store[i] # NoOne, ~store[i].late
               PROVE  store[i].key = store[i].owner /\ store[i].plain = store[i].owner
    BY DEF RowsReadable
  <2>1. Known(<<i, store[i]>>)
    BY DEF IInv, EntriesInv
  <2> QED BY <2>1 DEF Known
<1> QED BY <1>1, InductiveInvariant, PTL

\* Nobody's decrypted entries stay in the page of another account or of the
\* auth view, unless a load or a save outlived its session.
THEOREM PlaintextStaysHome == Spec => []PlaintextBelongs
<1>1. IInv => PlaintextBelongs
  BY DEF IInv, EntriesInv, Known, PlaintextBelongs
<1> QED BY <1>1, InductiveInvariant, PTL

(***************************************************************************)
(* The grid is fresh                                                       *)
(***************************************************************************)

\* As long as nothing is disturbed, at most one handler runs.
AloneInv ==
  ~disturbed => \A s, t \in Handlers : Running(s) /\ Running(t) => s = t

\* Only a request that is still on its way to the server outlives its page.
LiveInv ==
  \A t \in Handlers : ~task[t].live => task[t].pc \in {"saving", "deleting"}

\* What the only handler that runs says of the grid: whatever it ends in, a
\* load of what the server has now, a filter, or an error.
Steady(r) ==
  /\ r.pc \in {"listing", "listed", "decrypting", "decrypted", "encrypting",
              "saving", "saved", "deleting", "deleted", "denied", "failed"}
  /\ r.live
  /\ r.pc = "listing" => r.who = key
  /\ r.pc \in {"listed", "decrypting", "decrypted"} => r.data = RowsOf(key)
  /\ r.pc = "deleting" => entries = RowsOf(key)
  /\ r.pc = "deleted" => {e \in entries : e[1] # r.id} = RowsOf(key)

FreshInv ==
  view = "vault" /\ ~crossed /\ ~disturbed =>
    /\ \A t \in Handlers : Running(t) => Steady(task[t])
    /\ (\A t \in Handlers : ~Running(t)) => entries = RowsOf(key)

FInv == AloneInv /\ LiveInv /\ FreshInv

\* At first no handler runs and the vault is not open.
LEMMA InitFresh == Init => FInv
BY DEF Init, FInv, AloneInv, LiveInv, FreshInv, Running, Idle

\* A handler that runs takes its next step: if it is the only one, it leaves
\* the grid fresh or goes on to something that will.
LEMMA TurnFresh ==
  ASSUME IInv, FInv, NEW t \in Handlers, Running(t), NEW r \in Tasks,
         task' = [task EXCEPT ![t] = r],
         disturbed' = disturbed, view' = view, ~crossed' => ~crossed,
         r.live \/ r.pc \in {"saving", "deleting"},
         view = "vault" /\ ~crossed /\ ~disturbed /\ Steady(task[t]) =>
           IF r.pc = "idle" THEN entries' = RowsOf(key)' ELSE Steady(r)'
  PROVE  FInv'
<1>1. \A s \in Handlers : task'[s] = IF s = t THEN r ELSE task[s]
  BY DEF IInv, TypeOK
<1>2. \A s \in Handlers : Running(s)' => Running(s)
  BY <1>1 DEF Running
<1>3. AloneInv'
  BY <1>2 DEF FInv, AloneInv
<1>4. LiveInv'
  BY <1>1 DEF FInv, LiveInv
<1>5. FreshInv'
  <2> SUFFICES ASSUME view = "vault", ~crossed, ~disturbed
               PROVE  /\ \A s \in Handlers : Running(s)' => Steady(task[s])'
                      /\ (\A s \in Handlers : ~Running(s)')
                           => entries' = RowsOf(key)'
    BY DEF FreshInv
  <2>1. Steady(task[t]) /\ \A s \in Handlers : Running(s) => s = t
    BY DEF FInv, FreshInv, AloneInv
  <2>2. IF r.pc = "idle" THEN entries' = RowsOf(key)' ELSE Steady(r)'
    BY <2>1
  <2>3. Running(t)' <=> r.pc # "idle"
    BY <1>1 DEF Running
  <2> QED BY <1>1, <1>2, <2>1, <2>2, <2>3
<1> QED BY <1>3, <1>4, <1>5 DEF FInv

\* A handler of the vault starts: if it is the only one, the grid is fresh.
LEMMA StartFresh ==
  ASSUME IInv, FInv, NEW t \in Handlers, ~Running(t), NEW r \in Tasks,
         task' = [task EXCEPT ![t] = r], r.live, r.pc # "idle",
         disturbed' = (disturbed \/ Overlaps(t)),
         UNCHANGED <<view, crossed>>,
         view = "vault" /\ ~crossed /\ entries = RowsOf(key) => Steady(r)'
  PROVE  FInv'
<1>1. \A s \in Handlers : task'[s] = IF s = t THEN r ELSE task[s]
  BY DEF IInv, TypeOK
<1>2. ASSUME ~disturbed'
      PROVE  ~disturbed /\ \A s \in Handlers : ~Running(s)
  BY <1>2 DEF Overlaps
<1>3. AloneInv'
  BY <1>1, <1>2 DEF AloneInv, Running
<1>4. LiveInv'
  BY <1>1 DEF FInv, LiveInv
<1>5. FreshInv'
  BY <1>1, <1>2 DEF FInv, FreshInv, Running
<1> QED BY <1>3, <1>4, <1>5 DEF FInv

\* A load begins: if its handler is the only one, what it lists is the vault
\* of the key.
LEMMA ListFresh ==
  ASSUME IInv, IInv', FInv, NEW t \in Handlers, Running(t), List(t),
         tokens' = tokens
  PROVE  FInv'
<1> PICK r : r = [Idle EXCEPT !.pc = "listing", !.who = tokens]
  OBVIOUS
<1>1. r.pc = "listing" /\ r.live /\ r.who = tokens
  BY DEF Idle
<1>2. \A s \in Handlers : task'[s] = IF s = t THEN r ELSE task[s]
  BY DEF List, IInv, TypeOK
<1>3. ~disturbed' => \A s \in Handlers : Running(s) => s = t
  BY DEF List, Overlaps
<1>4. AloneInv'
  BY <1>2, <1>3 DEF AloneInv, Running
<1>5. LiveInv'
  BY <1>1, <1>2 DEF FInv, LiveInv
<1>6. view' = "vault" /\ ~crossed' => key' = tokens
  BY DEF IInv, KeyMatchesTokens
<1>7. FreshInv'
  <2>1. Running(t)'
    BY <1>1, <1>2 DEF Running
  <2>2. view' = "vault" /\ ~crossed' => Steady(r)'
    BY <1>1, <1>6 DEF Steady
  <2>3. ~disturbed' => \A s \in Handlers : Running(s)' => s = t
    BY <1>2, <1>3 DEF Running
  <2> QED BY <1>2, <2>1, <2>2, <2>3 DEF FreshInv
<1> QED BY <1>4, <1>5, <1>7 DEF FInv

\* The handlers and what the grid shows stay as they are.
LEMMA StillFresh ==
  ASSUME FInv,
         UNCHANGED <<task, disturbed, view, crossed, store, entries, key>>
  PROVE  FInv'
<1>1. \A s : Running(s)' <=> Running(s)
  BY DEF Running
<1>2. RowsOf(key)' = RowsOf(key)
  BY DEF RowsOf
<1>3. \A r : Steady(r)' <=> Steady(r)
  BY <1>2 DEF Steady
<1> QED BY <1>1, <1>2, <1>3 DEF FInv, AloneInv, LiveInv, FreshInv

\* The session ends.
LEMMA EndFresh ==
  ASSUME IInv, FInv, view' = "auth", disturbed' = disturbed,
         \A s \in Handlers :
           \/ task'[s] = Idle
           \/ task'[s].pc = task[s].pc /\ task'[s].live = task[s].live
           \/ task'[s].pc = task[s].pc /\ task[s].pc \in {"saving", "deleting"}
  PROVE  FInv'
<1>1. \A s \in Handlers : Running(s)' => Running(s)
  BY DEF Running, Idle
<1>2. AloneInv'
  BY <1>1 DEF FInv, AloneInv
<1>3. LiveInv'
  BY DEF FInv, LiveInv, Idle
<1> QED BY <1>2, <1>3 DEF FInv, FreshInv

\* A handler takes a step and the page and the server stay as they are.
LEMMA GoFresh ==
  ASSUME IInv, FInv, NEW t \in Handlers, Running(t), NEW r \in Tasks,
         task' = [task EXCEPT ![t] = r],
         UNCHANGED <<disturbed, view, crossed, store, entries, key>>,
         r.live \/ r.pc \in {"saving", "deleting"},
         view = "vault" /\ Steady(task[t]) => r.pc # "idle" /\ Steady(r)
  PROVE  FInv'
<1>1. RowsOf(key)' = RowsOf(key)
  BY DEF RowsOf
<1>2. Steady(r) => Steady(r)'
  BY <1>1 DEF Steady
<1> QED BY <1>2, TurnFresh

\* The login, until it opens the vault, and the registration.
LEMMA FormFresh ==
  ASSUME IInv, FInv, NEW t \in Forms,
         \/ t = "login" /\ (ServeLogin \/ StoreTokens)
         \/ t = "register" /\ ServeRegister
         \/ FormStep(t)
  PROVE  FInv'
<1>1. t \in Handlers /\ task[t] \in Tasks
  BY DEF Handlers, IInv, TypeOK
<1>2. task[t].pc \in {"signingIn", "granted", "registering", "refused",
                      "refreshing"}
  BY DEF ServeLogin, StoreTokens, ServeRegister, FormStep, RefusedForGood,
         TryRefresh, Refreshed
<1>3. Running(t) /\ ~Steady(task[t]) /\ task[t].live
  BY <1>1, <1>2 DEF Running, Steady, FInv, LiveInv
<1>4. \E r \in Tasks : task' = [task EXCEPT ![t] = r] /\ r.live
  <2>1. Idle \in Tasks /\ Idle.live
    BY IdleType DEF Idle
  <2>2. CASE Finish(t)
    BY <2>1, <2>2 DEF Finish
  <2>3. ASSUME NEW to \in PCs, GoTo(t, to)
        PROVE  \E r \in Tasks : task' = [task EXCEPT ![t] = r] /\ r.live
    <3>1. [task[t] EXCEPT !.pc = to] \in Tasks
          /\ [task[t] EXCEPT !.pc = to].live
      BY <1>1, <1>3 DEF Tasks
    <3>2. task' = [task EXCEPT ![t] = [task[t] EXCEPT !.pc = to]]
      BY <1>1, <2>3 DEF GoTo, IInv, TypeOK
    <3> QED BY <3>1, <3>2
  <2>4. CASE TryRefresh(t)
    <3> DEFINE r == [task[t] EXCEPT !.pc = "refreshing", !.who = tokens]
    <3>1. r \in Tasks /\ r.live
      BY <1>1, <1>3 DEF Tasks, PCs, IInv, TypeOK
    <3>2. task' = [task EXCEPT ![t] = r]
      BY <1>1, <2>4 DEF TryRefresh, IInv, TypeOK
    <3> HIDE DEF r
    <3> QED BY <3>1, <3>2
  <2> QED BY <2>2, <2>3, <2>4 DEF ServeLogin, StoreTokens, ServeRegister,
             FormStep, RefusedForGood, Refreshed, PCs
<1>5. disturbed' = disturbed /\ view' = view /\ (~crossed' => ~crossed)
  <2>1. CASE Refreshed(t)
    BY <2>1 DEF Refreshed, page
  <2>2. CASE ~Refreshed(t)
    BY <2>2 DEF ServeLogin, StoreTokens, ServeRegister, FormStep,
       RefusedForGood, TryRefresh, page
  <2> QED BY <2>1, <2>2
<1> QED BY <1>1, <1>3, <1>4, <1>5, TurnFresh

\* What a load lists and decrypts is the vault, and then the grid shows it.
LEMMA LoadFresh ==
  ASSUME IInv, FInv, NEW t \in Loaders, LoadStep(t)
  PROVE  FInv'
<1>1. t \in Handlers /\ task[t] \in Tasks
  BY DEF IInv, TypeOK, Handlers, Loaders, Forms
<1>2. Running(t) /\ task[t].live
  BY <1>1 DEF LoadStep, ServeList, DecryptUsernames, DecryptRest, Render,
     Running, FInv, LiveInv
<1>3. CASE ServeList(t)
  <2> DEFINE rows == RowsOf(task[t].who)
             r == [task[t] EXCEPT !.pc = "listed", !.who = NoOne, !.data = rows]
  <2>1. rows \subseteq Ids \X Row
    BY DEF RowsOf, IInv, TypeOK
  <2>2. Steady(task[t]) => rows = RowsOf(key)
    BY <1>3 DEF ServeList, Steady
  <2> HIDE DEF rows
  <2>3. r \in Tasks /\ r.live /\ r.pc = "listed" /\ r.data = rows
    BY <1>1, <1>2, <2>1 DEF Tasks, PCs, Someone
  <2>4. task' = [task EXCEPT ![t] = r]
        /\ UNCHANGED <<disturbed, view, crossed, store, entries, key>>
    BY <1>3 DEF ServeList, IInv, TypeOK, rows, page
  <2>5. Steady(task[t]) => Steady(r)
    BY <2>2, <2>3 DEF Steady
  <2> HIDE DEF r
  <2> QED BY <1>1, <1>2, <2>3, <2>4, <2>5, GoFresh
<1>4. ASSUME NEW to \in {"decrypting", "decrypted", "failed"}, GoTo(t, to),
             task[t].pc \in {"listed", "decrypting"},
             UNCHANGED <<disturbed, view, crossed, store, entries, key>>
      PROVE  FInv'
  <2> DEFINE r == [task[t] EXCEPT !.pc = to]
  <2>1. r \in Tasks /\ r.live /\ r.pc = to /\ r.data = task[t].data
    BY <1>1, <1>2 DEF Tasks, PCs
  <2>2. task' = [task EXCEPT ![t] = r]
    BY <1>4 DEF GoTo, IInv, TypeOK
  <2>3. Steady(task[t]) => Steady(r)
    BY <1>4, <2>1 DEF Steady
  <2> HIDE DEF r
  <2> QED BY <1>1, <1>2, <1>4, <2>1, <2>2, <2>3, GoFresh
<1>5. CASE DecryptUsernames(t)
  BY <1>4, <1>5 DEF DecryptUsernames, page
<1>6. CASE DecryptRest(t)
  BY <1>4, <1>6 DEF DecryptRest, page
<1>7. CASE Render(t)
  <2>1. RowsOf(key)' = RowsOf(key)
    BY <1>7 DEF Render, RowsOf
  <2>2. Idle \in Tasks /\ Idle.live /\ Idle.pc = "idle"
    BY IdleType DEF Idle
  <2> QED BY <1>1, <1>2, <1>7, <2>1, <2>2, TurnFresh DEF Render, Finish, Steady
<1> QED BY <1>3, <1>5, <1>6, <1>7 DEF LoadStep

\* A save, until it loads.
LEMMA SaveFresh ==
  ASSUME IInv, IInv', FInv, NEW t \in Saves, SaveStep(t)
  PROVE  FInv'
<1>1. t \in Handlers /\ task[t] \in Tasks
  BY DEF IInv, TypeOK, Handlers
<1>2. Running(t)
  BY DEF SaveStep, SendSave, ServeSave, LoadAfterSave, Running
<1>3. CASE SendSave(t)
  <2> DEFINE r == [task[t] EXCEPT !.pc = "saving", !.who = tokens,
                                  !.late = (@ \/ crossed)]
  <2>1. r \in Tasks /\ r.pc = "saving" /\ r.live = task[t].live
    BY <1>1, ZenonT(60) DEF Tasks, PCs, IInv, TypeOK
  <2>2. task' = [task EXCEPT ![t] = r]
        /\ UNCHANGED <<disturbed, view, crossed, store, entries, key>>
    BY <1>1, <1>3 DEF SendSave, IInv, TypeOK, page
  <2>3. Steady(task[t]) => Steady(r)
    BY <2>1 DEF Steady
  <2> HIDE DEF r
  <2> QED BY <1>1, <1>2, <2>1, <2>2, <2>3, GoFresh
<1>4. CASE ServeSave(t)
  <2> PICK r :
        r = IF task[t].live THEN [task[t] EXCEPT !.pc = "saved"] ELSE Idle
    OBVIOUS
  <2>1. r \in Tasks /\ r.live /\ (task[t].live => r.pc = "saved")
    BY <1>1, IdleType DEF Tasks, PCs, Idle
  <2>2. task' = [task EXCEPT ![t] = r]
        /\ disturbed' = disturbed /\ view' = view /\ crossed' = crossed
    BY <1>4 DEF ServeSave, GoTo, Finish, IInv, TypeOK, page
  <2>3. Steady(task[t]) => r.pc # "idle" /\ Steady(r)'
    BY <2>1 DEF Steady
  <2> QED BY <1>1, <1>2, <2>1, <2>2, <2>3, TurnFresh
<1>5. CASE LoadAfterSave(t)
  BY <1>1, <1>2, <1>5, ListFresh DEF LoadAfterSave
<1> QED BY <1>3, <1>4, <1>5 DEF SaveStep

\* The server removes an entry, and then the grid drops it.
LEMMA DeleteFresh ==
  ASSUME IInv, FInv, NEW t \in Deletes, DeleteStep(t)
  PROVE  FInv'
<1>1. t \in Handlers /\ task[t] \in Tasks
  BY DEF IInv, TypeOK, Handlers
<1>2. Running(t)
  BY DEF DeleteStep, ServeDelete, Deleted, Running
<1>3. CASE ServeDelete(t)
  <2> PICK r :
        r = IF task[t].live THEN [task[t] EXCEPT !.pc = "deleted"] ELSE Idle
    OBVIOUS
  <2>1. r \in Tasks /\ r.live
        /\ (task[t].live => r.pc = "deleted" /\ r.id = task[t].id)
    BY <1>1, IdleType DEF Tasks, PCs, Idle
  <2>2. task' = [task EXCEPT ![t] = r]
        /\ UNCHANGED <<disturbed, view, crossed, entries, key>>
    BY <1>3 DEF ServeDelete, GoTo, Finish, IInv, TypeOK, page
  <2>3. RowsOf(key)' = {e \in RowsOf(key) : e[1] # task[t].id}
    <3>1. /\ store' = [store EXCEPT ![task[t].id] = NoOne] /\ key' = key
          /\ task[t].id \in Ids /\ store \in [Ids -> Row \cup {NoOne}]
      BY <1>3 DEF ServeDelete, Owns, IInv, TypeOK, page
    <3> QED BY <3>1 DEF RowsOf
  <2>4. Steady(task[t]) => r.pc # "idle" /\ Steady(r)'
    BY <1>3, <2>1, <2>2, <2>3 DEF ServeDelete, Steady
  <2> QED BY <1>1, <1>2, <2>1, <2>2, <2>4, TurnFresh
<1>4. CASE Deleted(t)
  <2>1. RowsOf(key)' = RowsOf(key)
    BY <1>4 DEF Deleted, RowsOf
  <2>2. Idle \in Tasks /\ Idle.live /\ Idle.pc = "idle"
    BY IdleType DEF Idle
  <2> QED BY <1>1, <1>2, <1>4, <2>1, <2>2, TurnFresh
         DEF Deleted, Finish, Steady
<1> QED BY <1>3, <1>4 DEF DeleteStep

\* A request fails.
LEMMA FailFresh ==
  ASSUME IInv, FInv, NEW t \in Handlers,
         Deny(t) \/ Break(t) \/ Forsake(t) \/ ShowError(t)
  PROVE  FInv'
<1>1. task[t] \in Tasks
  BY DEF IInv, TypeOK
<1>2. CASE Deny(t) \/ Break(t)
  <2> PICK to \in {"denied", "failed"} :
        IF task[t].live THEN GoTo(t, to) ELSE Finish(t)
    BY <1>2 DEF Deny, Break
  <2> DEFINE r == IF task[t].live THEN [task[t] EXCEPT !.pc = to] ELSE Idle
  <2>1. r \in Tasks /\ r.live /\ (task[t].live => r.pc = to)
    BY <1>1, IdleType DEF Tasks, PCs, Idle
  <2>2. task' = [task EXCEPT ![t] = r] /\ Running(t)
        /\ UNCHANGED <<disturbed, view, crossed, store, entries, key>>
    BY <1>2 DEF Deny, Break, OnTheWay, GoTo, Finish, Running, IInv, TypeOK, page
  <2> HIDE DEF r
  <2>3. Steady(task[t]) => r.pc # "idle" /\ Steady(r)
    BY <2>1 DEF Steady
  <2> QED BY <2>1, <2>2, <2>3, GoFresh
<1>3. CASE Forsake(t) \/ ShowError(t)
  <2>1. disturbed' = TRUE
    BY <1>3 DEF Forsake, ShowError
  <2>2. \A s \in Handlers : ~task'[s].live => task'[s].pc \in {"saving", "deleting"}
    BY <1>1, <1>3
       DEF Forsake, ShowError, Finish, Idle, FInv, LiveInv, IInv, TypeOK, Tasks
  <2> QED BY <2>1, <2>2 DEF FInv, AloneInv, LiveInv, FreshInv
<1> QED BY <1>2, <1>3

\* What the user does: a form is sent, opened or closed, or an entry deleted.
LEMMA UserFresh ==
  ASSUME IInv, FInv, UserStep
  PROVE  FInv'
<1>1. ASSUME NEW f \in Forms, NEW r \in Tasks, view = "auth", ~Running(f),
             task' = [task EXCEPT ![f] = r], r.live, r.pc # "idle",
             disturbed' = (disturbed \/ Overlaps(f)), UNCHANGED <<view, crossed>>
      PROVE  FInv'
  BY <1>1, StartFresh DEF Handlers
<1>2. ASSUME NEW u \in Accounts, SubmitLogin(u)
      PROVE  FInv'
  <2> PICK r : r = [Idle EXCEPT !.pc = "signingIn", !.who = u]
    OBVIOUS
  <2>1. r \in Tasks /\ r.live /\ r.pc # "idle"
    BY DEF Tasks, PCs, Someone, Idle
  <2> QED BY <1>1, <1>2, <2>1 DEF SubmitLogin, page, Forms
<1>3. CASE SubmitRegister
  <2> PICK r : r = [Idle EXCEPT !.pc = "registering"]
    OBVIOUS
  <2>1. r \in Tasks /\ r.live /\ r.pc # "idle"
    BY DEF Tasks, PCs, Someone, Idle
  <2> QED BY <1>1, <1>3, <2>1 DEF SubmitRegister, page, Forms
<1>4. CASE OpenAdd \/ OpenEdit \/ CloseModal
  BY <1>4, StillFresh DEF OpenAdd, OpenEdit, CloseModal
<1>5. ASSUME NEW t \in Saves, SubmitSave(t)
      PROVE  FInv'
  <2> PICK r : r = [Idle EXCEPT !.pc = "encrypting", !.late = modal.late,
                                !.key = key, !.plain = modal.plain,
                                !.id = modal.id, !.ver = saves + 1]
    OBVIOUS
  <2>1. r.live /\ r.pc = "encrypting"
    BY DEF Idle
  <2>2. r \in Tasks
    <3>1. saves + 1 \in Ids
      BY <1>5 DEF SubmitSave, IInv, TypeOK, Ids
    <3> QED BY <3>1 DEF Tasks, PCs, Idle, IInv, TypeOK, Someone
  <2>3. Steady(r)'
    BY <2>1 DEF Steady
  <2> QED BY <1>5, <2>1, <2>2, <2>3, StartFresh DEF SubmitSave, page, Handlers
<1>6. ASSUME NEW t \in Deletes, ClickDelete(t)
      PROVE  FInv'
  <2> PICK e \in entries :
        task' = [task EXCEPT ![t] =
                   [Idle EXCEPT !.pc = "deleting", !.who = tokens, !.id = e[1]]]
    BY <1>6 DEF ClickDelete
  <2> PICK r :
        r = [Idle EXCEPT !.pc = "deleting", !.who = tokens, !.id = e[1]]
    OBVIOUS
  <2>1. r \in Tasks /\ r.live /\ r.pc = "deleting"
    BY DEF Tasks, PCs, Someone, Idle, IInv, TypeOK
  <2>2. entries = RowsOf(key) => Steady(r)'
    BY <1>6, <2>1 DEF ClickDelete, page, RowsOf, Steady
  <2> QED BY <1>6, <2>1, <2>2, StartFresh DEF ClickDelete, page, Handlers
<1>7. CASE PerformLogout
  <2>1. \A s \in Handlers : task'[s].pc = task[s].pc /\ task'[s].live = task[s].live
    BY <1>7 DEF PerformLogout, Outlive, IInv, TypeOK, Tasks
  <2> QED BY <1>7, <2>1, EndFresh DEF PerformLogout
<1>8. CASE ReloadPage
  <2>1. \A s \in Handlers :
          \/ task'[s] = Idle
          \/ task'[s].pc = task[s].pc /\ task[s].pc \in {"saving", "deleting"}
    BY <1>8, ZenonT(60) DEF ReloadPage, Outlive, IInv, TypeOK, Tasks
  <2> QED BY <1>8, <2>1, EndFresh DEF ReloadPage
<1> QED BY <1>2, <1>3, <1>4, <1>5, <1>6, <1>7, <1>8 DEF UserStep

\* Every step keeps the grid fresh.
LEMMA NextFresh == IInv /\ IInv' /\ FInv /\ [Next]_vars => FInv'
<1> SUFFICES ASSUME IInv, IInv', FInv, [Next]_vars
             PROVE  FInv'
  OBVIOUS
<1>1. CASE UNCHANGED vars
  BY <1>1, StillFresh DEF vars, page
<1>2. CASE UserStep
  BY <1>2, UserFresh
<1>3. ASSUME NEW t \in Handlers, Step(t)
      PROVE  FInv'
  <2>1. CASE t = "login" /\ OpenVault
    <3>1. Running(t) /\ List(t) /\ tokens' = tokens
      BY <2>1 DEF OpenVault, Running
    <3> QED BY <3>1, ListFresh
  <2>2. CASE \/ t = "login" /\ (ServeLogin \/ StoreTokens)
             \/ t = "register" /\ ServeRegister
             \/ t \in Forms /\ FormStep(t)
    BY <2>2, FormFresh DEF Forms
  <2>3. CASE t \in Loaders /\ LoadStep(t)
    BY <2>3, LoadFresh
  <2>4. CASE t \in Saves /\ SaveStep(t)
    BY <2>4, SaveFresh
  <2>5. CASE t \in Deletes /\ DeleteStep(t)
    BY <2>5, DeleteFresh
  <2>6. CASE Deny(t) \/ Break(t) \/ Forsake(t) \/ ShowError(t)
    BY <2>6, FailFresh
  <2> QED BY <1>3, <2>1, <2>2, <2>3, <2>4, <2>5, <2>6 DEF Step, LoginStep
<1> QED BY <1>1, <1>2, <1>3 DEF Next

\* When nothing runs, the grid is the vault of whoever is signed in, however
\* many loads, saves, deletes and sessions came before, as long as no two
\* handlers overlapped and none failed since the last load.
THEOREM GridFresh == Spec => []ViewFresh
<1>1. FInv => ViewFresh
  BY DEF FInv, FreshInv, ViewFresh
<1> QED BY <1>1, InitFresh, NextFresh, InductiveInvariant, PTL DEF Spec

(***************************************************************************)
(* The newest save is kept                                                 *)
(***************************************************************************)

\* A save that its page waits for is the last one, and every entry is from
\* a save that has been submitted.
NewestInv ==
  /\ \A t \in Saves : task[t].pc \in {"encrypting", "saving"} /\ task[t].live =>
       task[t].ver = saves
  /\ \A i \in Ids : store[i] # NoOne => store[i].ver =< saves

\* A step that submits nothing and stores nothing.
Keeps ==
  /\ saves' = saves
  /\ \A i \in Ids : store'[i] \in {store[i], NoOne}
  /\ \A t \in Saves :
       task'[t].pc \in {"encrypting", "saving"} /\ task'[t].live =>
         /\ task[t].pc \in {"encrypting", "saving"} /\ task[t].live
         /\ task'[t].ver = task[t].ver

\* Such a step keeps the last save the last.
LEMMA NewestStable ==
  ASSUME NewestInv, Keeps
  PROVE  NewestInv'
BY DEF NewestInv, Keeps

\* At first nothing has been submitted.
LEMMA InitNewest == Init => NewestInv
BY DEF Init, NewestInv, Earlier, Idle, Handlers

\* The server takes a save: it is the last one, or nobody waits for it.
LEMMA ServeNewest ==
  ASSUME IInv, NewestInv, NEW t \in Saves, ServeSave(t)
  PROVE  /\ NewestInv'
         /\ \A i \in Ids :
              store[i] # NoOne /\ store'[i] # NoOne
              /\ store'[i].ver < store[i].ver
              => ~task[t].live /\ task[t].ver = store'[i].ver
<1> PICK at : at = IF task[t].id = NoOne THEN task[t].ver ELSE task[t].id
  OBVIOUS
<1> PICK row : row = [owner |-> task[t].who, key |-> task[t].key,
                      plain |-> task[t].plain, ver |-> task[t].ver,
                      late |-> task[t].late]
  OBVIOUS
<1>1. t \in Handlers /\ task[t].pc = "saving" /\ task[t].ver \in 1..saves
      /\ saves \in Nat /\ row.ver = task[t].ver
  BY DEF ServeSave, IInv, TypeOK, Handlers, Fits, SaveFits
<1>2. store' = [store EXCEPT ![at] = row] /\ saves' = saves
  BY DEF ServeSave
<1>3. \A i \in Ids : store'[i] = IF i = at THEN row ELSE store[i]
  BY <1>2 DEF IInv, TypeOK
<1>4. \A s \in Saves : task'[s].pc \in {"encrypting", "saving"} => task'[s] = task[s]
  BY <1>1 DEF ServeSave, GoTo, Finish, Idle, IInv, TypeOK, Tasks, Handlers
<1>5. NewestInv'
  BY <1>1, <1>2, <1>3, <1>4 DEF NewestInv
<1>6. \A i \in Ids : store[i] # NoOne => store[i].ver \in Nat
  BY DEF IInv, TypeOK, Row, Ids
<1>7. ASSUME NEW i \in Ids, store[i] # NoOne, store'[i].ver < store[i].ver
      PROVE  ~task[t].live /\ task[t].ver = store'[i].ver
  BY <1>1, <1>3, <1>6, <1>7 DEF NewestInv
<1> QED BY <1>5, <1>7

\* A save that is submitted is the last one.
LEMMA SubmitNewest ==
  ASSUME IInv, NewestInv, NEW t \in Saves, SubmitSave(t)
  PROVE  NewestInv' /\ store' = store
<1>1. /\ t \in Handlers /\ saves \in Nat /\ saves' = saves + 1
      /\ store' = store
      /\ \A i \in Ids : store[i] # NoOne => store[i].ver \in Nat
  BY DEF SubmitSave, IInv, TypeOK, Row, Ids, Handlers
<1>2. \A s \in Saves : task'[s].pc \in {"encrypting", "saving"}
        => task'[s].ver = saves + 1 \/ ~task'[s].live
  BY DEF SubmitSave, Idle, IInv, TypeOK, Handlers, Running
<1> QED BY <1>1, <1>2 DEF NewestInv

\* Every other step keeps the versions or removes an entry.
LEMMA OtherKeeps ==
  ASSUME IInv, Next, \A t \in Saves : ~ServeSave(t) /\ ~SubmitSave(t)
  PROVE  Keeps
<1> USE DEF Keeps
<1>1. ASSUME NEW t \in Handlers, UNCHANGED <<store, saves>>,
             \/ Finish(t)
             \/ \E to \in PCs : to \notin {"encrypting", "saving"} /\ GoTo(t, to)
      PROVE  Keeps
  BY <1>1 DEF Finish, GoTo, Idle, IInv, TypeOK, Tasks, Handlers
<1>2. CASE UserStep
  <2>1. CASE OpenAdd \/ OpenEdit \/ CloseModal
    BY <2>1 DEF OpenAdd, OpenEdit, CloseModal
  <2>2. CASE SubmitRegister \/ \E u \in Accounts : SubmitLogin(u)
    BY <2>2 DEF SubmitRegister, SubmitLogin, Idle, IInv, TypeOK, Handlers
  <2>3. CASE \E t \in Deletes : ClickDelete(t)
    BY <2>3 DEF ClickDelete, Idle, IInv, TypeOK, Handlers
  <2>4. CASE PerformLogout
    BY <2>4 DEF PerformLogout, Outlive, IInv, TypeOK, Tasks, Handlers
  <2>5. CASE ReloadPage
    BY <2>5 DEF ReloadPage, Outlive, Idle, IInv, TypeOK, Tasks, Handlers
  <2> QED BY <1>2, <2>1, <2>2, <2>3, <2>4, <2>5 DEF UserStep
<1>3. CASE ServeLogin \/ StoreTokens \/ ServeRegister
  BY <1>1, <1>3 DEF ServeLogin, StoreTokens, ServeRegister, PCs, Handlers,
     Forms, page
<1>4. CASE OpenVault
  BY <1>4 DEF OpenVault, List, Idle, IInv, TypeOK, Handlers
<1>5. ASSUME NEW f \in Forms, FormStep(f)
      PROVE  Keeps
  <2>1. CASE RefusedForGood(f) \/ Refreshed(f)
    BY <1>1, <2>1 DEF RefusedForGood, Refreshed, Handlers
  <2>2. CASE TryRefresh(f)
    BY <2>2 DEF TryRefresh, IInv, TypeOK, Tasks, Handlers
  <2> QED BY <1>5, <2>1, <2>2 DEF FormStep
<1>6. ASSUME NEW t \in Loaders, LoadStep(t)
      PROVE  Keeps
  <2>1. CASE ServeList(t)
    BY <2>1 DEF ServeList, IInv, TypeOK, Tasks, Handlers, Loaders, Forms
  <2>2. CASE DecryptUsernames(t) \/ DecryptRest(t) \/ Render(t)
    BY <1>1, <2>2 DEF DecryptUsernames, DecryptRest, Render, PCs, Handlers,
       Loaders, Forms
  <2> QED BY <1>6, <2>1, <2>2 DEF LoadStep
<1>7. ASSUME NEW t \in Saves, SendSave(t) \/ LoadAfterSave(t)
      PROVE  Keeps
  <2>1. CASE SendSave(t)
    BY <2>1 DEF SendSave, IInv, TypeOK, Tasks, Handlers
  <2>2. CASE LoadAfterSave(t)
    BY <2>2 DEF LoadAfterSave, List, Idle, IInv, TypeOK, Handlers
  <2> QED BY <1>7, <2>1, <2>2
<1>8. ASSUME NEW t \in Deletes, DeleteStep(t)
      PROVE  Keeps
  <2>1. CASE ServeDelete(t)
    BY <2>1 DEF ServeDelete, Finish, GoTo, IInv, TypeOK, Tasks, Handlers
  <2>2. CASE Deleted(t)
    BY <1>1, <2>2 DEF Deleted, Handlers
  <2> QED BY <1>8, <2>1, <2>2 DEF DeleteStep
<1>9. ASSUME NEW t \in Handlers,
             Deny(t) \/ Break(t) \/ Forsake(t) \/ ShowError(t)
      PROVE  Keeps
  <2>1. CASE Deny(t) \/ Break(t) \/ ShowError(t)
    BY <1>1, <2>1 DEF Deny, Break, ShowError, PCs
  <2>2. CASE Forsake(t)
    BY <2>2 DEF Forsake, IInv, TypeOK, Tasks
  <2> QED BY <1>9, <2>1, <2>2
<1> QED BY <1>2, <1>3, <1>4, <1>5, <1>6, <1>7, <1>8, <1>9
       DEF Next, UserStep, Step, LoginStep, SaveStep

\* Every step keeps the last save the last.
LEMMA NextNewest == IInv /\ NewestInv /\ [Next]_vars => NewestInv'
<1> SUFFICES ASSUME IInv, NewestInv, [Next]_vars
             PROVE  NewestInv'
  OBVIOUS
<1>1. CASE UNCHANGED vars
  BY <1>1 DEF vars, NewestInv
<1>2. CASE Next
  BY <1>2, ServeNewest, SubmitNewest, OtherKeeps, NewestStable
<1> QED BY <1>1, <1>2

\* However saves, sign-outs and reloads interleave, an older text replaces a
\* newer one only by a request that its page has given up.
THEOREM OlderNeverWins == Spec => NewestKept
<1> DEFINE NoOlder ==
      \A i \in Ids :
        /\ store[i] # NoOne /\ store'[i] # NoOne
        /\ store'[i].ver < store[i].ver
        => \E t \in Saves : ~task[t].live /\ task[t].ver = store'[i].ver
<1>1. IInv /\ NewestInv /\ [Next]_vars => [NoOlder]_vars
  <2> SUFFICES ASSUME IInv, NewestInv, Next, NEW i \in Ids,
                      store[i] # NoOne, store'[i] # NoOne,
                      store'[i].ver < store[i].ver
               PROVE  \E t \in Saves : ~task[t].live /\ task[t].ver = store'[i].ver
    OBVIOUS
  <2>1. CASE \E t \in Saves : ServeSave(t)
    BY <2>1, ServeNewest
  <2>2. store[i].ver \in Nat
    BY DEF IInv, TypeOK, Row, Ids
  <2>3. CASE \A t \in Saves : ~ServeSave(t)
    <3>1. store'[i] = store[i]
      BY <2>3, SubmitNewest, OtherKeeps DEF Keeps
    <3> QED BY <2>2, <3>1
  <2> QED BY <2>1, <2>3
<1> QED BY <1>1, InitNewest, NextNewest, InductiveInvariant, PTL DEF Spec, NewestKept

(***************************************************************************)
(* Progress                                                                *)
(***************************************************************************)

\* How many steps a handler still takes at most from a given await on: a
\* save may go on to a load, and so may a login.
StepsFrom(p) ==
  CASE p \in {"signingIn", "registering", "encrypting"} -> 12
    [] p \in {"granted", "refused", "saving"}           -> 11
    [] p \in {"refreshing", "deriving", "saved"}        -> 10
    [] p \in {"listing", "deleting"}                    -> 9
    [] p \in {"listed", "deleted"}                      -> 8
    [] p = "decrypting"                                 -> 7
    [] p = "decrypted"                                  -> 6
    [] p \in {"denied", "failed"}                       -> 2
    [] OTHER                                            -> 0

\* A request that is given up stays where it is but has no handler any more.
StepsLeft(k) == 2 * StepsFrom(k.pc) + IF k.live THEN 1 ELSE 0

\* The number of steps left is a number.
LEMMA StepsLeftType ==
  ASSUME NEW k \in Tasks
  PROVE  StepsLeft(k) \in Nat /\ StepsFrom(k.pc) \in Nat
BY DEF StepsLeft, StepsFrom

\* A handler that returns has nothing left to do.
LEMMA FinishNearer ==
  ASSUME IInv, NEW t \in Handlers, Running(t), Finish(t)
  PROVE  StepsLeft(task'[t]) < StepsLeft(task[t])
<1>1. task[t].pc \in PCs \ {"idle"} /\ task[t].live \in BOOLEAN
  BY DEF Running, IInv, TypeOK, Tasks
<1>2. task'[t].pc = "idle"
  BY DEF Finish, Idle, IInv, TypeOK
<1> QED BY <1>1, <1>2 DEF StepsLeft, StepsFrom, PCs

\* A handler that goes on to a later await has less to do.
LEMMA LaterNearer ==
  ASSUME IInv, NEW t \in Handlers,
         StepsFrom(task'[t].pc) < StepsFrom(task[t].pc)
  PROVE  StepsLeft(task'[t]) < StepsLeft(task[t])
<1>1. StepsFrom(task[t].pc) \in Nat /\ StepsFrom(task'[t].pc) \in Nat
  BY DEF StepsFrom
<1> QED BY <1>1 DEF StepsLeft

\* Every step of a handler leaves it less to do, and the others as much.
LEMMA StepNearer ==
  ASSUME IInv, NEW t \in Handlers, Step(t)
  PROVE  /\ StepsLeft(task'[t]) < StepsLeft(task[t])
         /\ \A s \in Handlers \ {t} : task'[s] = task[s]
<1> USE DEF IInv, TypeOK
<1>1. task[t] \in Tasks
  OBVIOUS
<1>2. ASSUME Finish(t), Running(t) PROVE StepsLeft(task'[t]) < StepsLeft(task[t])
  BY <1>2, FinishNearer
<1>3. ASSUME NEW to, GoTo(t, to), StepsFrom(to) < StepsFrom(task[t].pc)
      PROVE  StepsLeft(task'[t]) < StepsLeft(task[t])
  <2>1. task'[t].pc = to
    BY <1>1, <1>3 DEF GoTo, Tasks
  <2> QED BY <1>3, <2>1, LaterNearer
<1>4. ASSUME Finish(t) \/ \E to : GoTo(t, to)
      PROVE  \A s \in Handlers \ {t} : task'[s] = task[s]
  BY <1>4 DEF Finish, GoTo
<1> DEFINE Nearer == /\ StepsLeft(task'[t]) < StepsLeft(task[t])
                     /\ \A s \in Handlers \ {t} : task'[s] = task[s]
<1>5. CASE t = "login" /\ (ServeLogin \/ StoreTokens)
  BY <1>2, <1>3, <1>4, <1>5 DEF ServeLogin, StoreTokens, Running, StepsFrom
<1>6. CASE t = "login" /\ OpenVault
  <2>1. task[t].pc = "deriving" /\ task'[t].pc = "listing"
        /\ \A s \in Handlers \ {t} : task'[s] = task[s]
    BY <1>6 DEF OpenVault, List, Idle
  <2> QED BY <2>1, LaterNearer DEF StepsFrom
<1>7. CASE t = "register" /\ ServeRegister
  BY <1>2, <1>3, <1>4, <1>7 DEF ServeRegister, Running, StepsFrom
<1>8. CASE RefusedForGood(t) \/ Refreshed(t)
  BY <1>2, <1>4, <1>8 DEF RefusedForGood, Refreshed, Running
<1>9. CASE TryRefresh(t)
  <2>1. task[t].pc = "refused" /\ task'[t].pc = "refreshing"
        /\ \A s \in Handlers \ {t} : task'[s] = task[s]
    BY <1>1, <1>9 DEF TryRefresh, Tasks
  <2> QED BY <2>1, LaterNearer DEF StepsFrom
<1>10. CASE ServeList(t)
  <2>1. task[t].pc = "listing" /\ task'[t].pc = "listed"
        /\ \A s \in Handlers \ {t} : task'[s] = task[s]
    BY <1>1, <1>10 DEF ServeList, Tasks
  <2> QED BY <2>1, LaterNearer DEF StepsFrom
<1>11. CASE DecryptUsernames(t) \/ DecryptRest(t)
  BY <1>3, <1>4, <1>11 DEF DecryptUsernames, DecryptRest, StepsFrom
<1>12. CASE Render(t) \/ Deleted(t) \/ ShowError(t)
  BY <1>2, <1>4, <1>12 DEF Render, Deleted, ShowError, Running
<1>13. CASE SendSave(t)
  <2>1. task[t].pc = "encrypting" /\ task'[t].pc = "saving"
        /\ \A s \in Handlers \ {t} : task'[s] = task[s]
    BY <1>1, <1>13 DEF SendSave, Tasks
  <2> QED BY <2>1, LaterNearer DEF StepsFrom
<1>14. CASE ServeSave(t)
  BY <1>2, <1>3, <1>4, <1>14 DEF ServeSave, Running, StepsFrom
<1>15. CASE LoadAfterSave(t)
  <2>1. task[t].pc = "saved" /\ task'[t].pc = "listing"
        /\ \A s \in Handlers \ {t} : task'[s] = task[s]
    BY <1>15 DEF LoadAfterSave, List, Idle
  <2> QED BY <2>1, LaterNearer DEF StepsFrom
<1>16. CASE ServeDelete(t)
  BY <1>2, <1>3, <1>4, <1>16 DEF ServeDelete, Running, StepsFrom
<1>17. CASE Deny(t)
  <2>1. Running(t) /\ StepsFrom("denied") < StepsFrom(task[t].pc)
    BY <1>17 DEF Deny, OnTheWay, Running, StepsFrom
  <2> QED BY <1>2, <1>3, <1>4, <1>17, <2>1 DEF Deny
<1>18. CASE Break(t)
  <2>1. Running(t) /\ StepsFrom("failed") < StepsFrom(task[t].pc)
    BY <1>18 DEF Break, OnTheWay, Running, StepsFrom
  <2> QED BY <1>2, <1>3, <1>4, <1>18, <2>1 DEF Break
<1>19. CASE Forsake(t)
  <2>1. /\ task[t].live /\ ~task'[t].live /\ task'[t].pc = task[t].pc
        /\ \A s \in Handlers \ {t} : task'[s] = task[s]
    BY <1>1, <1>19 DEF Forsake, Tasks
  <2>2. StepsFrom(task[t].pc) \in Nat
    BY <1>1, StepsLeftType
  <2> QED BY <2>1, <2>2 DEF StepsLeft
<1> QED
  BY <1>5, <1>6, <1>7, <1>8, <1>9, <1>10, <1>11, <1>12, <1>13, <1>14, <1>15,
     <1>16, <1>17, <1>18, <1>19
  DEF Step, LoginStep, FormStep, LoadStep, SaveStep, DeleteStep

\* What the user and the timer do gives no running handler more to do.
LEMMA UserNoFurther ==
  ASSUME IInv, UserStep, NEW t \in Handlers, Running(t)
  PROVE  StepsLeft(task'[t]) <= StepsLeft(task[t])
<1> USE DEF IInv, TypeOK, Running
<1>1. task[t] \in Tasks /\ StepsLeft(task[t]) \in Nat
  BY StepsLeftType
<1>2. CASE task'[t] = task[t]
  BY <1>1, <1>2
<1>3. CASE (\E u \in Accounts : SubmitLogin(u)) \/ SubmitRegister
  BY <1>2, <1>3 DEF SubmitLogin, SubmitRegister
<1>4. CASE OpenAdd \/ OpenEdit \/ CloseModal
  BY <1>2, <1>4 DEF OpenAdd, OpenEdit, CloseModal
<1>5. CASE (\E s \in Saves : SubmitSave(s)) \/ \E s \in Deletes : ClickDelete(s)
  BY <1>2, <1>5 DEF SubmitSave, ClickDelete
<1>6. CASE PerformLogout
  <2>1. task'[t].pc = task[t].pc /\ task'[t].live = task[t].live
    BY <1>1, <1>6 DEF PerformLogout, Outlive, Tasks
  <2> QED BY <1>1, <2>1 DEF StepsLeft
<1>7. CASE ReloadPage
  <2>1. CASE task[t].pc \in {"saving", "deleting"}
    <3>1. task'[t].pc = task[t].pc /\ ~task'[t].live
      BY <1>1, <1>7, <2>1 DEF ReloadPage, Outlive, Tasks
    <3> QED BY <1>1, <3>1, StepsLeftType DEF StepsLeft
  <2>2. CASE task[t].pc \notin {"saving", "deleting"}
    <3>1. StepsLeft(task'[t]) = 1
      BY <1>7, <2>2 DEF ReloadPage, Idle, StepsLeft, StepsFrom
    <3>2. task[t].pc \in PCs \ {"idle"} /\ task[t].live \in BOOLEAN
      BY <1>1 DEF Tasks
    <3>3. StepsLeft(task[t]) >= 2
      BY <3>2 DEF StepsLeft, StepsFrom, PCs
    <3> QED BY <1>1, <3>1, <3>3
  <2> QED BY <2>1, <2>2
<1> QED BY <1>3, <1>4, <1>5, <1>6, <1>7 DEF UserStep

\* No handler is ever set back, whatever the user, the timer and the other
\* handlers do, and each of its own steps leaves it less to do: nothing is
\* sent, refreshed or loaded in a circle.
THEOREM HandlersNeverTurnBack ==
  Spec => [][\A t \in Handlers : Running(t) =>
               /\ StepsLeft(task'[t]) <= StepsLeft(task[t])
               /\ Step(t) => StepsLeft(task'[t]) < StepsLeft(task[t])]_vars
<1> DEFINE Nearer ==
      \A t \in Handlers : Running(t) =>
        /\ StepsLeft(task'[t]) <= StepsLeft(task[t])
        /\ Step(t) => StepsLeft(task'[t]) < StepsLeft(task[t])
<1>1. ASSUME IInv, [Next]_vars PROVE [Nearer]_vars
  <2> SUFFICES ASSUME Next, NEW t \in Handlers, Running(t)
               PROVE  /\ StepsLeft(task'[t]) <= StepsLeft(task[t])
                      /\ Step(t) => StepsLeft(task'[t]) < StepsLeft(task[t])
    BY <1>1
  <2>1. StepsLeft(task[t]) \in Nat
    BY <1>1, StepsLeftType DEF IInv, TypeOK
  <2>2. task'[t] = task[t] => StepsLeft(task'[t]) <= StepsLeft(task[t])
    BY <2>1
  <2>3. StepsLeft(task'[t]) <= StepsLeft(task[t])
    <3>1. CASE UserStep
      BY <1>1, <3>1, UserNoFurther
    <3>2. CASE Step(t)
      <4>1. StepsLeft(task'[t]) < StepsLeft(task[t])
        BY <1>1, <3>2, StepNearer
      <4>2. StepsLeft(task'[t]) \in Int
        BY DEF StepsLeft, StepsFrom
      <4> QED BY <2>1, <4>1, <4>2
    <3>3. ASSUME NEW s \in Handlers \ {t}, Step(s) PROVE task'[t] = task[t]
      BY <1>1, <3>3, StepNearer
    <3> QED BY <2>2, <3>1, <3>2, <3>3 DEF Next
  <2> QED BY <1>1, <2>3, StepNearer
<1> QED BY <1>1, InductiveInvariant, PTL DEF Spec

=============================================================================
