------------------------- MODULE SharedVaultProofs --------------------------
(***************************************************************************)
(* Proofs about Accounts for every set of requests, emails and passwords   *)
(* and every number of crashes, and on top of them about SharedVault: the  *)
(* accounts run as if there were no pages, so their invariant is kept, and *)
(* every key that a session derives is the one key of its account.         *)
(***************************************************************************)
EXTENDS SharedVault, TLAPS

(***************************************************************************)
(* The inductive invariant                                                 *)
(***************************************************************************)

\* The unique index: an uncommitted INSERT is the entry of its email, and
\* there is none beside a committed row.
IndexInv ==
  /\ \A r \in Requests : pc[r] = "inserted" =>
       inserting[Email(r)] = r /\ users[Email(r)] = None
  /\ \A r \in Requests : pc[r] \in {"hashing", "inserted"} =>
       req[r].op = "register"

\* Whoever is in the unique index has an INSERT that is not committed.
HolderInv ==
  \A e \in Emails : inserting[e] # None =>
    inserting[e] \in Requests /\ pc[inserting[e]] = "inserted"
    /\ Email(inserting[e]) = e

\* A request has a status only from the end of its transaction on, and a
\* 201 only with its own salt, which it has generated for a registration.
StatusInv ==
  \A r \in Requests :
    /\ status[r] # 0 => pc[r] \in {"finished", "answered", "lost"}
    /\ status[r] = 201 => salt[r] = r

\* A committed row was made by the registration that its salt names.
WinnerInv ==
  \A e \in Emails : users[e] # None =>
    /\ req[users[e].salt].op = "register"
    /\ Email(users[e].salt) = e
    /\ req[users[e].salt].password = users[e].password

\* Whoever is logged in has given the password of the row.
LoggedInInv ==
  \A r \in Requests : req[r].op = "login" /\ Granted(r) =>
    users[Email(r)].password = req[r].password

IInv ==
  /\ TypeOK
  /\ IndexInv
  /\ StatusInv
  /\ WinnerInv
  /\ LoggedInInv
  /\ SaltAgreement
  /\ HolderInv

USE NoneAssumption, NoUserAssumption

\* There are no accounts and no answers.
LEMMA InitInv == Init => IInv
BY DEF Init, IInv, TypeOK, IndexInv, StatusInv, WinnerInv, LoggedInInv,
       SaltAgreement, HolderInv, Granted, Email

\* The types of a request's body and of a committed row.
LEMMA BodyType ==
  ASSUME TypeOK
  PROVE  /\ \A r \in Requests : Email(r) \in Emails
         /\ \A r \in Requests : req[r].op # "refresh" => req[r].password \in Passwords
         /\ \A e \in Emails : users[e] # None =>
              users[e].salt \in Requests /\ users[e].password \in Passwords
BY DEF TypeOK, Bodies, Email, User

(***************************************************************************)
(* Each action preserves the invariant                                     *)
(***************************************************************************)

\* A request moves on without an answer and without touching a table: Begin,
\* Free, Respond and LoseAnswer.
LEMMA MoveInv ==
  ASSUME IInv, NEW r \in Requests, NEW to,
         pc[r] # "inserted", Move(r, to),
         \/ to = "begun" /\ status[r] = 0
         \/ to = "hashing" /\ status[r] = 0 /\ req[r].op = "register"
         \/ to \in {"answered", "lost"},
         UNCHANGED <<users, inserting, req, status, salt>>
  PROVE  IInv'
<1> USE DEF IInv, Move
<1>1. TypeOK'
  BY DEF TypeOK
<1>2. IndexInv'
  BY DEF TypeOK, IndexInv, Email
<1>3. StatusInv'
  BY DEF TypeOK, StatusInv
<1>4. WinnerInv'
  BY DEF WinnerInv, Email
<1>5. LoggedInInv'
  BY DEF LoggedInInv, Granted, Email
<1>6. SaltAgreement'
  BY DEF SaltAgreement, Granted, Email
<1>7. HolderInv'
  BY DEF TypeOK, HolderInv, Email
<1> QED BY <1>1, <1>2, <1>3, <1>4, <1>5, <1>6, <1>7

\* A request is refused: Invalid, Taken, Duplicate, and a failed Login or
\* Refresh.
LEMMA RefuseInv ==
  ASSUME IInv, NEW r \in Requests, NEW code \in {400, 401, 500},
         pc[r] \in {"begun", "hashing"}, Refuse(r, code),
         UNCHANGED <<users, inserting, req>>
  PROVE  IInv'
<1> USE DEF IInv, Refuse, Move
<1>1. TypeOK'
  BY DEF TypeOK
<1>2. IndexInv'
  BY DEF TypeOK, IndexInv, Email
<1>3. StatusInv'
  BY DEF TypeOK, StatusInv
<1>4. WinnerInv'
  BY DEF WinnerInv, Email
<1>5. LoggedInInv'
  BY DEF TypeOK, LoggedInInv, Granted, Email
<1>6. SaltAgreement'
  BY DEF TypeOK, SaltAgreement, Granted, Email
<1>7. HolderInv'
  BY DEF TypeOK, HolderInv, Email
<1> QED BY <1>1, <1>2, <1>3, <1>4, <1>5, <1>6, <1>7

\* A login or a refresh is granted with the salt of the committed row.
LEMMA GrantInv ==
  ASSUME IInv, NEW r \in Requests, pc[r] = "begun",
         users[Email(r)] # None,
         req[r].op = "login" => users[Email(r)].password = req[r].password,
         BuildAuthResponse(r, 200, users[Email(r)]),
         UNCHANGED <<users, inserting, req>>
  PROVE  IInv'
<1> USE BodyType DEF IInv, BuildAuthResponse, Move
<1>1. TypeOK'
  BY DEF TypeOK
<1>2. IndexInv'
  BY DEF TypeOK, IndexInv, Email
<1>3. StatusInv'
  BY DEF TypeOK, StatusInv
<1>4. WinnerInv'
  BY DEF WinnerInv, Email
<1>5. LoggedInInv'
  BY DEF TypeOK, LoggedInInv, Granted, Email
<1>6. SaltAgreement'
  BY DEF TypeOK, SaltAgreement, Granted, Email
<1>7. HolderInv'
  BY DEF TypeOK, HolderInv, Email
<1> QED BY <1>1, <1>2, <1>3, <1>4, <1>5, <1>6, <1>7

\* The INSERT takes the free place in the index.
LEMMA InsertInv ==
  ASSUME IInv, NEW r \in Requests, Insert(r)
  PROVE  IInv'
<1> USE BodyType DEF IInv, Insert, Move
<1>1. TypeOK'
  BY DEF TypeOK
<1>2. IndexInv'
  <2>1. ASSUME NEW s \in Requests, s # r, pc[s] = "inserted"
        PROVE  Email(s) # Email(r)
    BY <2>1 DEF IndexInv
  <2>2. inserting'[Email(r)] = r /\ users[Email(r)] = None
    BY DEF TypeOK, ExistsByEmail
  <2>3. \A s \in Requests : s # r => pc'[s] = pc[s]
    BY DEF TypeOK
  <2>4. \A s \in Requests : s # r /\ pc[s] = "inserted" =>
          inserting'[Email(s)] = inserting[Email(s)]
    BY <2>1 DEF TypeOK
  <2>5. UNCHANGED <<users, req>>
    OBVIOUS
  <2> QED BY <2>2, <2>3, <2>4, <2>5 DEF IndexInv, Email
<1>3. StatusInv'
  BY DEF TypeOK, StatusInv
<1>4. WinnerInv'
  BY DEF WinnerInv, Email
<1>5. LoggedInInv'
  BY DEF LoggedInInv, Granted, Email
<1>6. SaltAgreement'
  BY DEF SaltAgreement, Granted, Email
<1>7. HolderInv'
  BY DEF TypeOK, HolderInv, Email
<1> QED BY <1>1, <1>2, <1>3, <1>4, <1>5, <1>6, <1>7

\* The commit: the email had no row, so nobody was granted anything for it.
LEMMA CommitInv ==
  ASSUME IInv, NEW r \in Requests, Commit(r)
  PROVE  IInv'
<1> USE BodyType DEF IInv, Commit, BuildAuthResponse, Move
<1> DEFINE e == Email(r)
<1>1. /\ users[e] = None
      /\ inserting[e] = r
      /\ req[r].op = "register"
      /\ e \in Emails
  BY DEF IndexInv
<1>2. NewUser(r) \in User /\ NewUser(r).salt = r
      /\ NewUser(r).password = req[r].password
  BY <1>1 DEF NewUser, User
<1>3. NewUser(r) # None
  BY <1>2
<1>4. /\ users'[e] = NewUser(r)
      /\ \A f \in Emails : f # e => users'[f] = users[f]
      /\ UNCHANGED req
  BY <1>1 DEF TypeOK
<1>5. /\ pc'[r] = "finished" /\ status'[r] = 201 /\ salt'[r] = r
      /\ \A s \in Requests : s # r =>
           pc'[s] = pc[s] /\ status'[s] = status[s] /\ salt'[s] = salt[s]
  BY <1>2 DEF TypeOK
<1>6. \A s \in Requests : Granted(s) => Email(s) # e
  BY <1>1 DEF SaltAgreement
<1>7. TypeOK'
  BY <1>2 DEF TypeOK
<1>8. IndexInv'
  <2>1. ASSUME NEW s \in Requests, pc'[s] = "inserted"
        PROVE  Email(s) # e /\ pc[s] = "inserted"
    BY <2>1, <1>1, <1>5 DEF IndexInv
  <2>2. \A f \in Emails : f # e => inserting'[f] = inserting[f]
    BY DEF TypeOK
  <2>3. \A s \in Requests : pc'[s] = "hashing" => pc[s] = "hashing"
    BY <1>5
  <2> QED BY <2>1, <2>2, <2>3, <1>4 DEF IndexInv, Email
<1>9. StatusInv'
  BY <1>5 DEF StatusInv
<1>10. WinnerInv'
  BY <1>1, <1>2, <1>4 DEF WinnerInv, Email
<1>11. LoggedInInv'
  BY <1>1, <1>4, <1>5, <1>6 DEF LoggedInInv, Granted, Email
<1>12. SaltAgreement'
  <2> SUFFICES ASSUME NEW s \in Requests, Granted(s)'
               PROVE  users'[Email(s)] # None /\ salt'[s] = users'[Email(s)].salt
    BY <1>4 DEF SaltAgreement, Email
  <2>1. CASE s = r
    BY <2>1, <1>2, <1>3, <1>4, <1>5
  <2>2. CASE s # r
    <3>1. Granted(s)
      BY <2>2, <1>5 DEF Granted
    <3> QED BY <2>2, <3>1, <1>4, <1>5, <1>6 DEF SaltAgreement
  <2> QED BY <2>1, <2>2
<1>13. HolderInv'
  <2>1. ASSUME NEW f \in Emails, inserting'[f] # None
        PROVE  f # e /\ inserting'[f] = inserting[f]
    BY <2>1, <1>1 DEF TypeOK
  <2>2. \A f \in Emails : f # e /\ inserting[f] # None => inserting[f] # r
    BY DEF HolderInv
  <2> QED BY <2>1, <2>2, <1>4, <1>5 DEF HolderInv, Email
<1> QED BY <1>7, <1>8, <1>9, <1>10, <1>11, <1>12, <1>13

\* The server stops.
LEMMA CrashInv ==
  ASSUME IInv, Crash
  PROVE  IInv'
<1> USE DEF IInv, Crash
<1>1. TypeOK'
  BY DEF TypeOK
<1>2. IndexInv'
  BY DEF TypeOK, IndexInv, Email
<1>3. StatusInv'
  BY DEF TypeOK, StatusInv
<1>4. WinnerInv'
  BY DEF WinnerInv, Email
<1>5. LoggedInInv'
  BY DEF LoggedInInv, Granted, Email
<1>6. SaltAgreement'
  BY DEF SaltAgreement, Granted, Email
<1>7. HolderInv'
  BY DEF TypeOK, HolderInv, Email
<1> QED BY <1>1, <1>2, <1>3, <1>4, <1>5, <1>6, <1>7

\* Nothing of the service changes.
LEMMA StutterInv ==
  ASSUME IInv, UNCHANGED vars
  PROVE  IInv'
BY DEF vars, IInv, TypeOK, IndexInv, StatusInv, WinnerInv, LoggedInInv,
       SaltAgreement, HolderInv, Granted, Email

\* Every step of the service and of the database preserves the invariant.
LEMMA NextInv == IInv /\ [Next]_vars => IInv'
<1> SUFFICES ASSUME IInv, [Next]_vars PROVE IInv'
  OBVIOUS
<1>1. ASSUME NEW r \in Requests, pc[r] \in {"idle", "begun", "hashing"}
      PROVE  status[r] = 0
  BY <1>1 DEF IInv, StatusInv
<1>2. ASSUME NEW r \in Requests, Begin(r) PROVE IInv'
  BY <1>1, <1>2, MoveInv DEF Begin
<1>3. ASSUME NEW r \in Requests, Free(r) PROVE IInv'
  BY <1>1, <1>3, MoveInv DEF Free
<1>4. ASSUME NEW r \in Requests, Respond(r) \/ LoseAnswer(r) PROVE IInv'
  BY <1>4, MoveInv DEF Respond, LoseAnswer
<1>5. ASSUME NEW r \in Requests, Invalid(r) \/ Taken(r) \/ Duplicate(r)
      PROVE  IInv'
  BY <1>5, RefuseInv DEF Invalid, Taken, Duplicate
<1>6. ASSUME NEW r \in Requests, Login(r) PROVE IInv'
  <2>1. CASE PasswordMatches(r)
    BY <1>6, <2>1, GrantInv DEF Login, PasswordMatches, ExistsByEmail
  <2>2. CASE ~PasswordMatches(r)
    BY <1>6, <2>2, RefuseInv DEF Login
  <2> QED BY <2>1, <2>2
<1>7. ASSUME NEW r \in Requests, Refresh(r) PROVE IInv'
  <2>1. CASE Refuse(r, 401)
    BY <1>7, <2>1, RefuseInv DEF Refresh
  <2>2. CASE ExistsByEmail(r) /\ BuildAuthResponse(r, 200, users[Email(r)])
    BY <1>7, <2>2, GrantInv DEF Refresh, ExistsByEmail
  <2> QED BY <1>7, <2>1, <2>2 DEF Refresh
<1>8. CASE UNCHANGED vars
  BY <1>8, StutterInv
<1> QED BY <1>2, <1>3, <1>4, <1>5, <1>6, <1>7, <1>8, InsertInv, CommitInv,
       CrashInv DEF Next, Step, Done

(***************************************************************************)
(* Safety                                                                  *)
(***************************************************************************)

\* The invariant holds in every reachable state.
THEOREM InductiveInvariant == Spec => []IInv
<1> QED BY InitInv, NextInv, PTL DEF Spec

\* AuthService and the table of users stay well-typed.
THEOREM TypeCorrect == Spec => []TypeOK
<1>1. IInv => TypeOK
  BY DEF IInv
<1> QED BY <1>1, InductiveInvariant, PTL

\* Every answer of register, login and refresh for an email carries the salt
\* of its one account.
THEOREM SaltsAgree == Spec => []SaltAgreement
<1>1. IInv => SaltAgreement
  BY DEF IInv
<1> QED BY <1>1, InductiveInvariant, PTL

\* Of the registrations that found an email free, one succeeds.
THEOREM OneWinner == Spec => []RegisteredOnce
<1>1. ASSUME IInv PROVE RegisteredOnce
  <2> SUFFICES ASSUME NEW r \in Requests, NEW s \in Requests,
                      status[r] = 201, status[s] = 201, Email(r) = Email(s)
               PROVE  r = s
    BY DEF RegisteredOnce
  <2>1. salt[r] = r /\ salt[s] = s
    BY <1>1 DEF IInv, StatusInv
  <2>2. salt[r] = users[Email(r)].salt /\ salt[s] = users[Email(s)].salt
    BY <1>1 DEF IInv, SaltAgreement, Granted
  <2> QED BY <2>1, <2>2
<1> QED BY <1>1, InductiveInvariant, PTL

\* A login that succeeds has given the password of the registration that won
\* the email.
THEOREM WinnersPassword == Spec => []PasswordOfWinner
<1>1. ASSUME IInv PROVE PasswordOfWinner
  <2> SUFFICES ASSUME NEW r \in Requests, req[r].op = "login", Granted(r)
               PROVE  /\ salt[r] \in Requests
                      /\ req[salt[r]].op = "register"
                      /\ Email(salt[r]) = Email(r)
                      /\ req[salt[r]].password = req[r].password
    BY DEF PasswordOfWinner
  <2>1. users[Email(r)] # None /\ salt[r] = users[Email(r)].salt
    BY <1>1 DEF IInv, SaltAgreement
  <2>2. users[Email(r)].password = req[r].password
    BY <1>1 DEF IInv, LoggedInInv
  <2>3. Email(r) \in Emails /\ salt[r] \in Requests
    BY <1>1, <2>1, BodyType DEF IInv
  <2> QED BY <1>1, <2>1, <2>2, <2>3 DEF IInv, WinnerInv
<1> QED BY <1>1, InductiveInvariant, PTL

\* No registration waits for one that is not about to commit.
THEOREM WaitersGoOn == Spec => []NobodyStuck
<1>1. ASSUME IInv PROVE NobodyStuck
  BY <1>1, BodyType DEF IInv, HolderInv, NobodyStuck
<1> QED BY <1>1, InductiveInvariant, PTL

\* No step changes a committed row: only Commit writes the table.
LEMMA RowsKept ==
  ASSUME IInv, [Next]_vars
  PROVE  \A e \in Emails : users[e] # None => users'[e] = users[e]
<1> DEFINE Kept == \A e \in Emails : users[e] # None => users'[e] = users[e]
<1>1. ASSUME NEW r \in Requests, Commit(r) PROVE Kept
  <2>1. users[Email(r)] = None
    BY <1>1 DEF IInv, IndexInv, Commit
  <2> QED BY <1>1, <2>1 DEF Commit, IInv, TypeOK
<1>2. CASE UNCHANGED users
  BY <1>2
<1> QED BY <1>1, <1>2 DEF Next, Step, Begin, Invalid, Taken, Free, Insert,
       Duplicate, Login, Refresh, Respond, LoseAnswer, Crash, Done, vars

\* Once it is committed, a row of the table of users never changes.
THEOREM AccountsKept == Spec => AccountsStay
<1> DEFINE Kept == \A e \in Emails : users[e] # None => users'[e] = users[e]
<1>1. IInv /\ [Next]_vars => [Kept]_vars
  BY RowsKept
<1> QED BY <1>1, InductiveInvariant, PTL DEF Spec, AccountsStay

(***************************************************************************)
(* The pages and the shared vault                                          *)
(***************************************************************************)

USE TextsAssumption, BoundsAssumption, TabsAssumption

\* The key that belongs to the account of an email.
AccountKey(e) == DeriveKey(users[e].password, users[e].salt)

\* A tab that a login has come to: the login succeeded.
TabsInv ==
  /\ \A r \in Requests : tab[r] # None =>
       req[r].op = "login" /\ Granted(r)
  /\ \A t \in Tabs : tokens[t] # None => tab[tokens[t]] = t

\* A session has derived the key of the account it is logged in to.
KeysInv ==
  \A r \in Requests : keys[r] # None =>
    /\ tab[r] # None
    /\ users[Email(r)] # None
    /\ keys[r] = AccountKey(Email(r))

\* A tab shows one session at a time.
OneSession ==
  \A r, s \in Requests :
    tab[r] # None /\ tab[r] = tab[s] /\ r \notin over /\ s \notin over => r = s

\* What was encrypted in the session of an email, with the account's key.
SealedFor(e, text, blob) ==
  /\ e \in Emails
  /\ users[e] # None
  /\ text \in Texts
  /\ \E iv \in IVs : blob = Encrypt(text, AccountKey(e), iv)

\* A save holds a field of the account of its page.
SavesInv ==
  \A save \in saves :
    /\ save.page \in Requests
    /\ keys[save.page] # None
    /\ SealedFor(Email(save.page), save.text, save.blob)

\* A stored field was encrypted with the key of the account it was typed in,
\* and until a session has ended it is filed under that account.
RowsInv ==
  \A row \in rows :
    /\ SealedFor(row.by, row.text, row.blob)
    /\ row.owner \in Emails
    /\ over = {} => row.owner = row.by

PagesOK ==
  /\ tokens \in [Tabs -> Requests \cup {None}]
  /\ tab \in [Requests -> Tabs \cup {None}]
  /\ keys \in [Requests -> Key \cup {None}]
  /\ over \subseteq Requests

VaultInv ==
  /\ IInv
  /\ PagesOK
  /\ TabsInv
  /\ KeysInv
  /\ OneSession
  /\ SavesInv
  /\ RowsInv

(***************************************************************************)
(* Cryptography                                                            *)
(***************************************************************************)

\* decrypt inverts encrypt under the same key and throws under another; an
\* empty text is readable by all.
LEMMA Inverse ==
  ASSUME NEW text \in Texts, NEW key, NEW other, NEW iv
  PROVE  /\ Decrypt(Encrypt(text, key, iv), key) = text
         /\ text # NoText /\ other # key =>
              Decrypt(Encrypt(text, key, iv), other) = Failed
<1>1. <<iv, Sealed(text, key, iv)>> # <<>>
  OBVIOUS
<1> QED BY <1>1 DEF Encrypt, Decrypt, Sealed

\* The keys of two accounts differ: each has the salt of its registration.
LEMMA KeysApart ==
  ASSUME IInv, NEW e \in Emails, NEW f \in Emails, e # f,
         users[e] # None, users[f] # None
  PROVE  AccountKey(e) # AccountKey(f)
<1>1. Email(users[e].salt) = e /\ Email(users[f].salt) = f
  BY DEF IInv, WinnerInv
<1>2. users[e].salt # users[f].salt
  BY <1>1
<1> QED BY <1>2 DEF AccountKey, DeriveKey

(***************************************************************************)
(* Each step preserves the invariant                                       *)
(***************************************************************************)

LEMMA VaultInitInv == VaultInit => VaultInv
BY InitInv DEF VaultInit, VaultInv, PagesOK, TabsInv, KeysInv, OneSession,
   SavesInv, RowsInv

\* What was encrypted for an account stays so as long as the account does.
LEMMA SealedStays ==
  ASSUME VaultInv, NEW e, NEW text, NEW blob, SealedFor(e, text, blob),
         \A f \in Emails : users[f] # None => users'[f] = users[f]
  PROVE  SealedFor(e, text, blob)'
BY DEF SealedFor, AccountKey, DeriveKey, Encrypt, Sealed

\* A granted answer stays as it is.
LEMMA GrantsStay ==
  ASSUME IInv, [Next]_vars
  PROVE  /\ req' = req
         /\ \A r \in Requests : Granted(r) => Granted(r)'
<1> USE DEF IInv, TypeOK, StatusInv, IndexInv, Granted
<1>1. req' = req
  BY DEF Next, Step, Begin, Invalid, Taken, Free, Insert, Duplicate, Commit,
     Login, Refresh, Respond, LoseAnswer, Crash, Done, vars
<1>2. \A r \in Requests : Granted(r) => Granted(r)'
  <2>1. ASSUME NEW s \in Requests, Begin(s) \/ Step(s) \/ LoseAnswer(s)
        PROVE  \A r \in Requests : Granted(r) => Granted(r)'
    BY <2>1 DEF Step, Begin, Invalid, Taken, Free, Insert, Duplicate, Commit,
       Login, Refresh, Respond, LoseAnswer, Refuse, BuildAuthResponse, Move
  <2>2. CASE Crash
    BY <2>2 DEF Crash
  <2>3. CASE Done \/ UNCHANGED vars
    BY <2>3 DEF Done, vars
  <2> QED BY <2>1, <2>2, <2>3 DEF Next
<1> QED BY <1>1, <1>2

\* The server and the database keep the accounts that the keys were derived
\* from.
LEMMA AccountStepInv ==
  ASSUME VaultInv, [Next]_vars, UNCHANGED vaultVars
  PROVE  VaultInv'
<1> USE DEF VaultInv, vaultVars
<1>1. IInv'
  BY NextInv
<1>2. PagesOK'
  BY DEF PagesOK
<1>3. req' = req /\ \A r \in Requests : Granted(r) => Granted(r)'
  BY GrantsStay
<1>4. \A e \in Emails : users[e] # None => users'[e] = users[e]
  BY RowsKept
<1>5. \A r \in Requests : Email(r) \in Emails /\ Email(r)' = Email(r)
  BY <1>3, BodyType DEF IInv, Email
<1>6. \A e \in Emails : users[e] # None => AccountKey(e)' = AccountKey(e)
  BY <1>4 DEF AccountKey, DeriveKey
<1>7. TabsInv'
  BY <1>3 DEF TabsInv
<1>8. KeysInv'
  BY <1>4, <1>5, <1>6 DEF KeysInv
<1>9. OneSession'
  BY DEF OneSession
<1>10. SavesInv'
  BY <1>4, <1>5, SealedStays DEF SavesInv
<1>11. RowsInv'
  BY <1>4, SealedStays DEF RowsInv
<1> QED BY <1>1, <1>2, <1>7, <1>8, <1>9, <1>10, <1>11

\* What the service has is not touched by the pages.
LEMMA ServiceKept ==
  ASSUME VaultInv, UNCHANGED vars
  PROVE  /\ IInv'
         /\ \A r \in Requests : Email(r)' = Email(r) /\ Granted(r)' = Granted(r)
         /\ \A e \in Emails : AccountKey(e)' = AccountKey(e)
         /\ \A e, text, blob : SealedFor(e, text, blob) =>
              SealedFor(e, text, blob)'
<1>1. IInv'
  BY StutterInv DEF VaultInv
<1>2. UNCHANGED <<users, req, status, salt, pc>>
  BY DEF vars
<1> QED BY <1>1, <1>2, SealedStays DEF Email, Granted, AccountKey, DeriveKey

\* Answers and ends of sessions move tokens only: the saves and the fields
\* are as they were.
LEMMA TokenStepInv ==
  ASSUME VaultInv, NEW r \in Requests,
         \/ \E t \in Tabs : StoreTokens(r, t)
         \/ DerivationFails(r) \/ SignOut(r) \/ Refreshed(r)
  PROVE  VaultInv'
<1> USE DEF VaultInv, StoreTokens, DerivationFails, SignOut, Refreshed, Open
<1>1. UNCHANGED <<vars, keys, saves, rows>> /\ UNCHANGED req
  BY DEF vars
<1>2. over \subseteq over'
  OBVIOUS
<1>3. PagesOK'
  BY DEF PagesOK
<1>4. TabsInv'
  <2>1. CASE \E t \in Tabs : StoreTokens(r, t)
    <3>1. PICK t \in Tabs : StoreTokens(r, t)
      BY <2>1
    <3>2. /\ \A s \in Requests : tab'[s] = IF s = r THEN t ELSE tab[s]
          /\ \A u \in Tabs : tokens'[u] = IF u = t THEN r ELSE tokens[u]
      BY <3>1 DEF PagesOK
    <3>3. \A u \in Tabs : tokens[u] # None => tokens[u] # r
      BY <3>1 DEF TabsInv, PagesOK
    <3> QED BY <3>1, <3>2, <3>3, <1>1, ServiceKept DEF TabsInv, PagesOK
  <2>2. CASE UNCHANGED tab
    <3>1. \A u \in Tabs : tokens'[u] # None =>
            tokens'[u] = tokens[u] \/ (u = tab[r] /\ tokens'[u] = r)
      BY <2>2, TabsAssumption DEF PagesOK
    <3> QED BY <2>2, <3>1, <1>1, ServiceKept DEF TabsInv, PagesOK
  <2> QED BY <2>1, <2>2
<1>5. \A s \in Requests : keys[s] # None => tab'[s] # None
  BY DEF KeysInv, PagesOK
<1>6. KeysInv'
  BY <1>1, <1>5, BodyType, ServiceKept DEF KeysInv, IInv, vars
<1>7. OneSession'
  <2>1. CASE \E t \in Tabs : StoreTokens(r, t)
    <3>1. PICK t \in Tabs : StoreTokens(r, t)
      BY <2>1
    <3>2. \A s \in Requests : tab'[s] = IF s = r THEN t ELSE tab[s]
      BY <3>1 DEF PagesOK
    <3> QED BY <3>1, <3>2 DEF OneSession, Current
  <2>2. CASE UNCHANGED tab
    BY <2>2, <1>2 DEF OneSession
  <2> QED BY <2>1, <2>2
<1>8. SavesInv'
  BY <1>1, ServiceKept DEF SavesInv
<1>9. RowsInv'
  BY <1>1, <1>2, ServiceKept DEF RowsInv
<1> QED BY <1>1, <1>3, <1>4, <1>6, <1>7, <1>8, <1>9, ServiceKept

\* A session that opens the vault derives the key of its account.
LEMMA OpenVaultInv ==
  ASSUME VaultInv, NEW r \in Requests, OpenVault(r)
  PROVE  VaultInv'
<1> USE DEF VaultInv
<1>1. req[r].op = "login" /\ Granted(r)
  BY DEF OpenVault, TabsInv
<1>2. Email(r) \in Emails /\ users[Email(r)] # None
      /\ salt[r] = users[Email(r)].salt
  BY <1>1, BodyType DEF IInv, SaltAgreement
<1>3. req[r].password = users[Email(r)].password
  BY <1>1 DEF IInv, LoggedInInv
<1>4. DeriveKey(req[r].password, salt[r]) = AccountKey(Email(r))
  BY <1>2, <1>3 DEF AccountKey
<1>5. AccountKey(Email(r)) \in Key
  BY <1>2, BodyType DEF IInv, AccountKey, DeriveKey, Key
<1>6. AccountKey(Email(r)) # None
  BY <1>2, BodyType, NoUserAssumption DEF IInv, AccountKey, DeriveKey, User
<1>7. UNCHANGED <<vars, tokens, tab, over, saves, rows>> /\ UNCHANGED users
  BY DEF OpenVault, vars
<1>8. \A s \in Requests :
        keys'[s] = IF s = r THEN AccountKey(Email(r)) ELSE keys[s]
  BY <1>4 DEF OpenVault, PagesOK
<1>9. PagesOK'
  BY <1>4, <1>5, <1>7 DEF OpenVault, PagesOK
<1>10. TabsInv'
  BY <1>7, ServiceKept DEF TabsInv, PagesOK, vars
<1>11. KeysInv'
  BY <1>2, <1>7, <1>8, BodyType, ServiceKept DEF OpenVault, KeysInv, IInv
<1>12. OneSession'
  BY <1>7 DEF OneSession
<1>13. SavesInv'
  BY <1>6, <1>7, <1>8, ServiceKept DEF SavesInv
<1>14. RowsInv'
  BY <1>7, ServiceKept DEF RowsInv
<1> QED BY <1>7, <1>9, <1>10, <1>11, <1>12, <1>13, <1>14, ServiceKept

\* A save encrypts with the key of its page, and of its account.
LEMMA EncryptedInv ==
  ASSUME VaultInv, NEW r \in Requests, NEW text \in Texts, NEW iv \in IVs,
         Encrypted(r, text, iv)
  PROVE  VaultInv'
<1> USE DEF VaultInv
<1>1. UNCHANGED <<vars, tokens, tab, keys, over, rows>> /\ UNCHANGED req
  BY DEF Encrypted, vars
<1>2. /\ Email(r) \in Emails /\ users[Email(r)] # None
      /\ keys[r] # None /\ keys[r] = AccountKey(Email(r))
  BY BodyType DEF Encrypted, Open, KeysInv, IInv
<1>3. SealedFor(Email(r), text, Encrypt(text, keys[r], iv))
  BY <1>2 DEF SealedFor
<1>4. SavesInv'
  <2> SUFFICES ASSUME NEW save \in saves'
               PROVE  /\ save.page \in Requests
                      /\ keys[save.page] # None
                      /\ SealedFor(Email(save.page), save.text, save.blob)
    BY <1>1, ServiceKept DEF SavesInv
  <2>1. CASE save \in saves
    BY <2>1 DEF SavesInv
  <2>2. CASE save = [page |-> r, text |-> text,
                     blob |-> Encrypt(text, keys[r], iv)]
    BY <2>2, <1>2, <1>3
  <2> QED BY <2>1, <2>2 DEF Encrypted
<1>5. PagesOK' /\ OneSession'
  BY <1>1 DEF PagesOK, OneSession
<1>6. TabsInv' /\ KeysInv'
  BY <1>1, BodyType, ServiceKept DEF PagesOK, TabsInv, KeysInv, IInv, vars
<1>7. RowsInv'
  BY <1>1, ServiceKept DEF RowsInv
<1> QED BY <1>1, <1>4, <1>5, <1>6, <1>7, ServiceKept

\* What the server stores for a save is a field of the account it was typed
\* in; if no session has ended, the token is of that account.
LEMMA StoredInv ==
  ASSUME VaultInv, NEW save \in saves, Bearer(save.page) # None
  PROVE  /\ SealedFor(Stored(save).by, Stored(save).text, Stored(save).blob)
         /\ Stored(save).owner \in Emails
         /\ over = {} => Stored(save).owner = Stored(save).by
<1> USE DEF VaultInv
<1>1. save.page \in Requests /\ tab[save.page] \in Tabs
      /\ SealedFor(Email(save.page), save.text, save.blob)
  BY DEF SavesInv, KeysInv, PagesOK
<1>2. Bearer(save.page) \in Requests /\ tab[Bearer(save.page)] = tab[save.page]
  BY <1>1 DEF Bearer, PagesOK, TabsInv
<1>3. over = {} => Bearer(save.page) = save.page
  BY <1>1, <1>2 DEF OneSession
<1> QED BY <1>1, <1>2, <1>3, BodyType DEF Stored, IInv

\* Sends and deletes touch the saves and the fields only.
LEMMA SendInv ==
  ASSUME VaultInv,
         UNCHANGED <<vars, tokens, tab, keys, over>>, saves' \subseteq saves,
         \A row \in rows' : row \in rows \/
           \E save \in saves : Bearer(save.page) # None /\ row = Stored(save)
  PROVE  VaultInv'
<1> USE DEF VaultInv
<1>1. UNCHANGED req
  BY DEF vars
<1>2. PagesOK' /\ OneSession'
  BY DEF PagesOK, OneSession
<1>3. TabsInv' /\ KeysInv'
  BY <1>1, BodyType, ServiceKept DEF PagesOK, TabsInv, KeysInv, IInv, vars
<1>4. SavesInv'
  BY ServiceKept DEF SavesInv
<1>5. RowsInv'
  BY StoredInv, ServiceKept DEF RowsInv
<1> QED BY <1>2, <1>3, <1>4, <1>5, ServiceKept

\* Every step of a page preserves the invariant.
LEMMA PageStepInv == VaultInv /\ PageStep => VaultInv'
<1> SUFFICES ASSUME VaultInv, PageStep PROVE VaultInv'
  OBVIOUS
<1>1. ASSUME NEW r \in Requests, NEW row \in rows, Delete(r, row)
      PROVE  VaultInv'
  BY <1>1, SendInv DEF Delete
<1>2. ASSUME NEW save \in saves,
             Create(save) \/ Lost(save) \/ \E row \in rows : Update(save, row)
      PROVE  VaultInv'
  BY <1>2, SendInv DEF Create, Lost, Update
<1> QED BY <1>1, <1>2, TokenStepInv, OpenVaultInv, EncryptedInv DEF PageStep

LEMMA VaultNextInv == VaultInv /\ [VaultNext]_<<vars, vaultVars>> => VaultInv'
<1>1. VaultInv /\ UNCHANGED <<vars, vaultVars>> => VaultInv'
  BY AccountStepInv
<1> QED BY <1>1, AccountStepInv, PageStepInv DEF VaultNext

(***************************************************************************)
(* Safety                                                                  *)
(***************************************************************************)

\* Every session has the key of its account, and every field was encrypted
\* with the key of the account it was typed in, under whichever token it was
\* sent; as long as no session has ended, that is also the account it is
\* filed under.
THEOREM VaultInductive == VaultSpec => []VaultInv
<1> QED BY VaultInitInv, VaultNextInv, PTL DEF VaultSpec

\* The accounts run under the pages as they do alone.
THEOREM AccountsUnaffected == VaultSpec => Spec
<1>1. VaultInit => Init
  BY DEF VaultInit
<1>2. [VaultNext]_<<vars, vaultVars>> => [Next]_vars
  BY DEF VaultNext, PageStep, StoreTokens, OpenVault, DerivationFails, SignOut,
     Refreshed, Encrypted, Create, Update, Lost, Delete
<1> QED BY <1>1, <1>2, PTL DEF VaultSpec, Spec

\* The tabs, the sessions, the saves and the stored fields keep their types.
THEOREM VaultTypeCorrect == VaultSpec => []VaultTypeOK
<1>1. ASSUME VaultInv PROVE VaultTypeOK
  <2>1. ASSUME NEW row \in rows
        PROVE  row.blob = <<>> \/ row.blob[1] \in IVs
    <3>1. PICK iv \in IVs :
            row.blob = Encrypt(row.text, AccountKey(row.by), iv)
      BY <1>1 DEF VaultInv, RowsInv, SealedFor
    <3>2. <<iv, Sealed(row.text, AccountKey(row.by), iv)>>[1] = iv
      OBVIOUS
    <3> QED BY <3>1, <3>2 DEF Encrypt
  <2>2. \A save \in saves :
          save.page \in Requests /\ tab[save.page] \in Tabs
    BY <1>1 DEF VaultInv, SavesInv, KeysInv, PagesOK
  <2> QED BY <1>1, <2>1, <2>2 DEF VaultInv, IInv, PagesOK, RowsInv, SealedFor,
     VaultTypeOK
<1> QED BY <1>1, VaultInductive, PTL

\* A page reads whatever was typed in its account, under whichever token it
\* was filed, and as long as no session has ended whatever is filed under it.
THEOREM VaultReadable == VaultSpec => []ReadableEverywhere
<1>1. ASSUME VaultInv PROVE ReadableEverywhere
  <2> SUFFICES ASSUME NEW r \in Requests, NEW row \in rows, Open(r),
                      row.by = Email(r) \/ (row.owner = Email(r) /\ over = {})
               PROVE  Decrypt(row.blob, keys[r]) = row.text
    BY DEF ReadableEverywhere
  <2>1. row.by = Email(r)
    BY <1>1 DEF VaultInv, RowsInv
  <2>2. keys[r] = AccountKey(row.by)
    BY <1>1, <2>1 DEF VaultInv, KeysInv, Open
  <2>3. PICK iv \in IVs :
          row.blob = Encrypt(row.text, AccountKey(row.by), iv)
    BY <1>1 DEF VaultInv, RowsInv, SealedFor
  <2> QED BY <1>1, <2>2, <2>3, Inverse DEF VaultInv, RowsInv, SealedFor
<1> QED BY <1>1, VaultInductive, PTL

\* No page of another account can read what was typed in an account, also
\* when it is filed under the other account.
THEOREM VaultPrivate == VaultSpec => []UnreadableElsewhere
<1>1. ASSUME VaultInv PROVE UnreadableElsewhere
  <2> SUFFICES ASSUME NEW r \in Requests, NEW row \in rows, Open(r),
                      row.by # Email(r), row.text # NoText
               PROVE  Decrypt(row.blob, keys[r]) = Failed
    BY DEF UnreadableElsewhere
  <2>1. users[Email(r)] # None /\ keys[r] = AccountKey(Email(r))
    BY <1>1 DEF VaultInv, KeysInv, Open
  <2>2. PICK iv \in IVs :
          row.blob = Encrypt(row.text, AccountKey(row.by), iv)
    BY <1>1 DEF VaultInv, RowsInv, SealedFor
  <2>3. Email(r) \in Emails /\ row.by \in Emails
        /\ users[row.by] # None /\ row.text \in Texts
    BY <1>1, BodyType DEF VaultInv, IInv, RowsInv, SealedFor
  <2>4. keys[r] # AccountKey(row.by)
    BY <1>1, <2>1, <2>3, KeysApart DEF VaultInv
  <2> QED BY <2>2, <2>3, <2>4, Inverse
<1> QED BY <1>1, VaultInductive, PTL

=============================================================================
