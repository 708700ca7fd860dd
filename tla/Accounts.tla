------------------------------ MODULE Accounts ------------------------------
(***************************************************************************)
(* AuthService.java behind AuthController.java: registering, logging in    *)
(* and refreshing, on PostgreSQL at READ COMMITTED.  register() asks       *)
(* whether the email exists, hashes the password, and inserts; between the *)
(* two statements another registration of the email may commit.  Only the  *)
(* unique index on users.email decides: an INSERT waits for an uncommitted *)
(* one of the same email, and fails when that has committed.               *)
(*                                                                         *)
(* A KDF salt is named by the request that generated it, a token pair by   *)
(* the email it is for; a BCrypt hash is the password it matches.          *)
(***************************************************************************)
EXTENDS Integers

CONSTANTS
  Requests,     \* the requests; one transaction each
  Emails,
  Passwords,
  None          \* no user, no salt, no index entry, no password

ASSUME NoneAssumption == None \notin Requests

User == [password : Passwords, salt : Requests]

ASSUME NoUserAssumption == None \notin User

VARIABLES
  users,      \* the committed rows: email -> User or None
  inserting,  \* the unique index: email -> the uncommitted INSERT, or None
  req,        \* request -> operation, email and password
  pc,         \* request -> where its transaction is
  status,     \* request -> HTTP status, 0 while undecided
  salt        \* request -> kdfSalt in its answer, or None

vars == <<users, inserting, req, pc, status, salt>>

\* A refresh carries a token: its email is the subject, it has no password.
Bodies ==
  [op : {"register", "login"}, email : Emails, password : Passwords]
    \cup [op : {"refresh"}, email : Emails, password : {None}]

Init ==
  /\ users = [e \in Emails |-> None]
  /\ inserting = [e \in Emails |-> None]
  /\ req \in [Requests -> Bodies]
  /\ pc = [r \in Requests |-> "idle"]
  /\ status = [r \in Requests |-> 0]
  /\ salt = [r \in Requests |-> None]

(***************************************************************************)
(* Helpers                                                                 *)
(***************************************************************************)

Email(r) == req[r].email

\* existsByEmail, on the committed rows.
ExistsByEmail(r) == users[Email(r)] # None

Move(r, to) == pc' = [pc EXCEPT ![r] = to]

\* The transaction is over without an AuthResponse.
Refuse(r, code) ==
  /\ Move(r, "finished")
  /\ status' = [status EXCEPT ![r] = code]
  /\ UNCHANGED salt

\* Mutant: buildAuthResponse makes up a salt instead of reading the user's.
BuildOwnSalt(r, code, user) ==
  /\ Move(r, "finished")
  /\ status' = [status EXCEPT ![r] = code]
  /\ salt' = [salt EXCEPT ![r] = r]

\* buildAuthResponse: tokens for the email, and the salt of the user.
BuildAuthResponse(r, code, user) ==
  /\ Move(r, "finished")
  /\ status' = [status EXCEPT ![r] = code]
  /\ salt' = [salt EXCEPT ![r] = user.salt]

\* What r is about to insert: a fresh salt and the hash of its password.
NewUser(r) == [password |-> req[r].password, salt |-> r]

\* A client has a refresh token for an email only from an earlier answer.
HasToken(e) ==
  \E s \in Requests :
     Email(s) = e /\ pc[s] = "answered" /\ status[s] \in {200, 201}

(***************************************************************************)
(* The steps of a request                                                  *)
(***************************************************************************)

\* The controller calls the service.
Begin(r) ==
  /\ pc[r] = "idle"
  /\ req[r].op = "refresh" => HasToken(Email(r))
  /\ Move(r, "begun")
  /\ UNCHANGED <<users, inserting, req, status, salt>>

\* @Valid on the body: 400 before the service is called.
Invalid(r) ==
  /\ pc[r] = "begun"
  /\ Refuse(r, 400)
  /\ UNCHANGED <<users, inserting, req>>

\* register: the email is taken; UnauthorizedException, a 401.
Taken(r) ==
  /\ pc[r] = "begun"
  /\ req[r].op = "register"
  /\ ExistsByEmail(r)
  /\ Refuse(r, 401)
  /\ UNCHANGED <<users, inserting, req>>

\* register: the email is free; the salt and the BCrypt hash take a while.
Free(r) ==
  /\ pc[r] = "begun"
  /\ req[r].op = "register"
  /\ ~ExistsByEmail(r)
  /\ Move(r, "hashing")
  /\ UNCHANGED <<users, inserting, req, status, salt>>

\* save(): IDENTITY makes Hibernate insert at once.  The unique index lets
\* one uncommitted INSERT of an email through.
Insert(r) ==
  /\ pc[r] = "hashing"
  /\ inserting[Email(r)] = None
  /\ ~ExistsByEmail(r)
  /\ inserting' = [inserting EXCEPT ![Email(r)] = r]
  /\ Move(r, "inserted")
  /\ UNCHANGED <<users, req, status, salt>>

\* Mutant: the loser of the race is answered as if it had won (an INSERT
\* that does nothing on conflict).
DuplicateIgnored(r) ==
  /\ pc[r] = "hashing"
  /\ inserting[Email(r)] = None
  /\ ExistsByEmail(r)
  /\ BuildAuthResponse(r, 201, users[Email(r)])
  /\ UNCHANGED <<users, inserting, req>>

\* Mutant: the loser of the race overwrites the hash (an INSERT that updates
\* on conflict).
DuplicateOverwrites(r) ==
  /\ pc[r] = "hashing"
  /\ inserting[Email(r)] = None
  /\ ExistsByEmail(r)
  /\ users' = [users EXCEPT ![Email(r)].password = req[r].password]
  /\ Refuse(r, 500)
  /\ UNCHANGED <<inserting, req>>

\* The index has the email by now: the loser of the race gets a 500 from the
\* catch-all handler, not the answer of Taken.
Duplicate(r) ==
  /\ pc[r] = "hashing"
  /\ inserting[Email(r)] = None
  /\ ExistsByEmail(r)
  /\ Refuse(r, 500)
  /\ UNCHANGED <<users, inserting, req>>

\* Mutant: the answer is sent and the transaction is left open.
CommitLeftOpen(r) ==
  /\ pc[r] = "inserted"
  /\ BuildAuthResponse(r, 201, NewUser(r))
  /\ UNCHANGED <<users, inserting, req>>

\* The transaction commits, and register answers with the salt it stored.
Commit(r) ==
  /\ pc[r] = "inserted"
  /\ users' = [users EXCEPT ![Email(r)] = NewUser(r)]
  /\ inserting' = [inserting EXCEPT ![Email(r)] = None]
  /\ BuildAuthResponse(r, 201, NewUser(r))
  /\ UNCHANGED req

\* Mutant: the password is not compared.
PasswordIgnored(r) == ExistsByEmail(r)

\* findByEmail finds the user and the password matches its hash.
PasswordMatches(r) ==
  ExistsByEmail(r) /\ users[Email(r)].password = req[r].password

\* login: the salt of the account, or 401 for whatever is wrong.  Nothing
\* changes a user between the query and the comparison.
Login(r) ==
  /\ pc[r] = "begun"
  /\ req[r].op = "login"
  /\ IF PasswordMatches(r)
     THEN BuildAuthResponse(r, 200, users[Email(r)])
     ELSE Refuse(r, 401)
  /\ UNCHANGED <<users, inserting, req>>

\* refresh: the token is valid and its user is found, or it has expired.
Refresh(r) ==
  /\ pc[r] = "begun"
  /\ req[r].op = "refresh"
  /\ \/ ExistsByEmail(r) /\ BuildAuthResponse(r, 200, users[Email(r)])
     \/ Refuse(r, 401)
  /\ UNCHANGED <<users, inserting, req>>

\* The answer reaches the client ...
Respond(r) ==
  /\ pc[r] = "finished"
  /\ Move(r, "answered")
  /\ UNCHANGED <<users, inserting, req, status, salt>>

\* ... or it does not: an account may exist and nobody knows.
LoseAnswer(r) ==
  /\ pc[r] = "finished"
  /\ Move(r, "lost")
  /\ UNCHANGED <<users, inserting, req, status, salt>>

\* The server stops: what is not committed is rolled back.  It may stop
\* any number of times; a stop with nothing under way would change nothing.
Crash ==
  /\ \E r \in Requests : pc[r] \notin {"idle", "answered", "lost"}
  /\ pc' = [r \in Requests |->
              IF pc[r] \in {"idle", "answered"} THEN pc[r] ELSE "lost"]
  /\ inserting' = [e \in Emails |-> None]
  /\ UNCHANGED <<users, req, status, salt>>

Step(r) ==
  \/ Invalid(r)
  \/ Taken(r)
  \/ Free(r)
  \/ Insert(r)
  \/ Duplicate(r)
  \/ Commit(r)
  \/ Login(r)
  \/ Refresh(r)
  \/ Respond(r)

\* All requests are over; a refresh without a token never starts.
Done ==
  /\ \A r \in Requests :
       \/ pc[r] \in {"answered", "lost"}
       \/ pc[r] = "idle" /\ req[r].op = "refresh"
  /\ UNCHANGED vars

Next ==
  \/ \E r \in Requests : Begin(r) \/ Step(r) \/ LoseAnswer(r)
  \/ Crash
  \/ Done

Spec == Init /\ [][Next]_vars

(***************************************************************************)
(* Properties                                                              *)
(***************************************************************************)

\* The types of the tables and of the requests.
TypeOK ==
  /\ users \in [Emails -> User \cup {None}]
  /\ inserting \in [Emails -> Requests \cup {None}]
  /\ req \in [Requests -> Bodies]
  /\ pc \in [Requests -> {"idle", "begun", "hashing", "inserted", "finished",
                         "answered", "lost"}]
  /\ status \in [Requests -> {0, 200, 201, 400, 401, 500}]
  /\ salt \in [Requests -> Requests \cup {None}]

Granted(r) == status[r] \in {200, 201}

\* Every answer for an email carries the salt of its one account, whoever
\* won the race to register it: a client that derives its key after the
\* registration, a login or a refresh always derives the same one.
SaltAgreement ==
  \A r \in Requests : Granted(r) =>
    users[Email(r)] # None /\ salt[r] = users[Email(r)].salt

\* One registration of an email succeeds, although existsByEmail may have
\* told several that it is free.
RegisteredOnce ==
  \A r, s \in Requests :
    status[r] = 201 /\ status[s] = 201 /\ Email(r) = Email(s) => r = s

\* Whoever logs in knows the password of the registration that won.
PasswordOfWinner ==
  \A r \in Requests : req[r].op = "login" /\ Granted(r) =>
    \E s \in Requests :
      /\ req[s].op = "register"
      /\ Email(s) = Email(r)
      /\ req[s].password = req[r].password
      /\ s = salt[r]

\* No step replaces or removes an account: no later registration, and no
\* crash after its commit, takes the salt away from stored entries.
AccountsStay ==
  [][\A e \in Emails : users[e] # None => users'[e] = users[e]]_vars

\* An INSERT waits only for one that is about to commit: no registration
\* waits in the index for a request that was refused, has crashed, or waits
\* itself, so whoever is begun can go on in the end.
NobodyStuck ==
  \A r \in Requests : pc[r] = "hashing" /\ inserting[Email(r)] # None =>
    pc[inserting[Email(r)]] = "inserted"

=============================================================================
