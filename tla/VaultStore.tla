----------------------------- MODULE VaultStore -----------------------------
(***************************************************************************)
(* VaultService.java behind VaultController.java: one transaction per      *)
(* request, one step per SQL statement, on PostgreSQL at its default       *)
(* isolation level READ COMMITTED.  A statement sees the rows committed    *)
(* when it runs; a write is issued by Hibernate at the flush before the    *)
(* commit (an INSERT at save(), for its id) and holds the lock of its row  *)
(* until the transaction ends.  There is no @Version column: a write that  *)
(* finds no row raises a stale-state exception, which the handler answers  *)
(* with 500.                                                               *)
(*                                                                         *)
(* The content of an entry (the five fields of VaultEntryRequest) is the   *)
(* request that wrote it.  firstOwner is history: no action reads it.      *)
(***************************************************************************)
EXTENDS Integers

CONSTANTS
  Users,        \* registered users; no code deletes one
  Requests,     \* the requests; one transaction each
  None,         \* no user, no row, no lock holder
  MaxId,        \* bound: the sequence of entry ids stops here
  MaxCrashes    \* bound: server crashes in a behaviour

Ids == 1..MaxId

ASSUME BoundsAssumption == MaxId \in Nat /\ MaxCrashes \in Nat
ASSUME NoneAssumption == None \notin Users /\ None \notin Requests

Row == [owner : Users, data : Requests]

ASSUME NoRowAssumption == None \notin Row

\* The operations with their caller; update and delete name an entry.
Calls ==
  [op : {"getAll", "create"}, user : Users, id : {None}]
  \cup [op : {"update", "delete"}, user : Users, id : Ids]

VARIABLES
  rows,       \* committed rows: entry id -> Row or None
  nextId,     \* the sequence behind GenerationType.IDENTITY; never rolls back
  lock,       \* entry id -> the transaction that holds the row lock, or None
  call,       \* request -> operation, caller and path variable
  pc,         \* request -> where its transaction is
  key,        \* request -> the id its uncommitted INSERT has taken
  status,     \* request -> HTTP status, 0 while undecided
  listed,     \* request -> the <<id, content>> pairs getAll returned
  crashes,    \* how often the server has crashed
  firstOwner  \* history: entry id -> the user it was created for, or None

vars == <<rows, nextId, lock, call, pc, key, status, listed, crashes,
          firstOwner>>

NoCall == [op |-> "getAll", user |-> None, id |-> None]

Init ==
  /\ rows = [i \in Ids |-> None]
  /\ nextId = 1
  /\ lock = [i \in Ids |-> None]
  /\ call = [r \in Requests |-> NoCall]
  /\ pc = [r \in Requests |-> "idle"]
  /\ key = [r \in Requests |-> None]
  /\ status = [r \in Requests |-> 0]
  /\ listed = [r \in Requests |-> {}]
  /\ crashes = 0
  /\ firstOwner = [i \in Ids |-> None]

(***************************************************************************)
(* Queries                                                                 *)
(***************************************************************************)

\* findByUserId(u), on the committed rows.
FindByUserId(u) == {i \in Ids : rows[i] # None /\ rows[i].owner = u}

\* Mutant: findById, without the caller.
FoundById(r) == rows[call[r].id] # None

\* findByIdAndUserId(id, user id) returns the row.
Found(r) == call[r].id \in FindByUserId(call[r].user)

\* The row an UPDATE or a DELETE by primary key would lock is free.
RowFree(r) == lock[call[r].id] = None

Move(r, to) == pc' = [pc EXCEPT ![r] = to]

\* The transaction is over and its answer is fixed.
Finish(r, code) ==
  /\ Move(r, "finished")
  /\ status' = [status EXCEPT ![r] = code]

(***************************************************************************)
(* The steps of a request                                                  *)
(***************************************************************************)

\* The controller calls the service; requireUser finds the authenticated
\* user, whom the authentication filter has just loaded.
Begin(r) ==
  /\ pc[r] = "idle"
  /\ \E c \in Calls : call' = [call EXCEPT ![r] = c]
  /\ Move(r, "begun")
  /\ UNCHANGED <<rows, nextId, lock, key, status, listed, crashes, firstOwner>>

\* @Valid on the body of create and update: 400 before the service is called.
Invalid(r) ==
  /\ pc[r] = "begun"
  /\ call[r].op \in {"create", "update"}
  /\ Finish(r, 400)
  /\ UNCHANGED <<rows, nextId, lock, call, key, listed, crashes, firstOwner>>

\* getAll: one SELECT.
GetAll(r) ==
  /\ pc[r] = "begun"
  /\ call[r].op = "getAll"
  /\ listed' = [listed EXCEPT ![r] =
                  {<<i, rows[i].data>> : i \in FindByUserId(call[r].user)}]
  /\ Finish(r, 200)
  /\ UNCHANGED <<rows, nextId, lock, call, key, crashes, firstOwner>>

\* create: save() inserts at once, to learn the id; nobody else sees the row.
Insert(r) ==
  /\ pc[r] = "begun"
  /\ call[r].op = "create"
  /\ nextId <= MaxId
  /\ key' = [key EXCEPT ![r] = nextId]
  /\ nextId' = nextId + 1
  /\ Move(r, "flushed")
  /\ UNCHANGED <<rows, lock, call, status, listed, crashes, firstOwner>>

\* Mutant: a delete that finds nothing reports success.
FindNothingIdempotent(r) ==
  /\ pc[r] = "begun"
  /\ call[r].op \in {"update", "delete"}
  /\ ~Found(r)
  /\ Finish(r, IF call[r].op = "delete" THEN 204 ELSE 404)
  /\ UNCHANGED <<rows, nextId, lock, call, key, listed, crashes, firstOwner>>

\* update, delete: findByIdAndUserId is empty, ResourceNotFoundException.
FindNothing(r) ==
  /\ pc[r] = "begun"
  /\ call[r].op \in {"update", "delete"}
  /\ ~Found(r)
  /\ Finish(r, 404)
  /\ UNCHANGED <<rows, nextId, lock, call, key, listed, crashes, firstOwner>>

\* update, delete: the row is the caller's; update sets all its fields.
Find(r) ==
  /\ pc[r] = "begun"
  /\ call[r].op \in {"update", "delete"}
  /\ Found(r)
  /\ Move(r, IF call[r].op = "update" THEN "flushing" ELSE "selecting")
  /\ UNCHANGED <<rows, nextId, lock, call, key, status, listed, crashes,
                 firstOwner>>

\* delete: deleteByIdAndUserId selects the row again before it removes it,
\* and when a concurrent delete has committed in between, removes nothing.
Reselect(r) ==
  /\ pc[r] = "selecting"
  /\ IF Found(r)
     THEN Move(r, "flushing") /\ UNCHANGED status
     ELSE Finish(r, 204)
  /\ UNCHANGED <<rows, nextId, lock, call, key, listed, crashes, firstOwner>>

\* The flush: UPDATE or DELETE by primary key waits for the row lock.
Flush(r) ==
  /\ pc[r] = "flushing"
  /\ RowFree(r)
  /\ rows[call[r].id] # None
  /\ lock' = [lock EXCEPT ![call[r].id] = r]
  /\ Move(r, "flushed")
  /\ UNCHANGED <<rows, nextId, call, key, status, listed, crashes, firstOwner>>

\* Mutant: the number of affected rows is not checked.
FlushStaleIgnored(r) ==
  /\ pc[r] = "flushing"
  /\ RowFree(r)
  /\ rows[call[r].id] = None
  /\ Finish(r, IF call[r].op = "update" THEN 200 ELSE 204)
  /\ UNCHANGED <<rows, nextId, lock, call, key, listed, crashes, firstOwner>>

\* Mutant: save() inserts the row it does not find.
FlushStaleMerge(r) ==
  /\ pc[r] = "flushing"
  /\ RowFree(r)
  /\ rows[call[r].id] = None
  /\ rows' = [rows EXCEPT ![call[r].id] =
                [owner |-> call[r].user, data |-> r]]
  /\ Finish(r, 200)
  /\ UNCHANGED <<nextId, lock, call, key, listed, crashes, firstOwner>>

\* Mutant: the write is tried again, not the transaction.
FlushStaleRetry(r) ==
  /\ pc[r] = "flushing"
  /\ RowFree(r)
  /\ rows[call[r].id] = None
  /\ UNCHANGED vars

\* ... and affects no row when a concurrent delete has committed.
FlushStale(r) ==
  /\ pc[r] = "flushing"
  /\ RowFree(r)
  /\ rows[call[r].id] = None
  /\ Finish(r, 500)
  /\ UNCHANGED <<rows, nextId, lock, call, key, listed, crashes, firstOwner>>

\* The row becomes visible under the id its INSERT has taken.
CommitCreate(r) ==
  /\ pc[r] = "flushed"
  /\ call[r].op = "create"
  /\ rows' = [rows EXCEPT ![key[r]] = [owner |-> call[r].user, data |-> r]]
  /\ firstOwner' = [firstOwner EXCEPT ![key[r]] = call[r].user]
  /\ Finish(r, 201)
  /\ UNCHANGED <<nextId, lock, call, key, listed, crashes>>

\* All fields but the id, the owner and created_at are replaced.
CommitUpdate(r) ==
  /\ pc[r] = "flushed"
  /\ call[r].op = "update"
  /\ rows' = [rows EXCEPT ![call[r].id].data = r]
  /\ lock' = [lock EXCEPT ![call[r].id] = None]
  /\ Finish(r, 200)
  /\ UNCHANGED <<nextId, call, key, listed, crashes, firstOwner>>

\* The row is gone.
CommitDelete(r) ==
  /\ pc[r] = "flushed"
  /\ call[r].op = "delete"
  /\ rows' = [rows EXCEPT ![call[r].id] = None]
  /\ lock' = [lock EXCEPT ![call[r].id] = None]
  /\ Finish(r, 204)
  /\ UNCHANGED <<nextId, call, key, listed, crashes, firstOwner>>

\* The answer reaches the client.
Respond(r) ==
  /\ pc[r] = "finished"
  /\ Move(r, "answered")
  /\ UNCHANGED <<rows, nextId, lock, call, key, status, listed, crashes,
                 firstOwner>>

Running(r) == pc[r] \notin {"idle", "answered", "lost"}

\* The connection breaks after the transaction: committed, not answered.
LoseAnswer(r) ==
  /\ pc[r] = "finished"
  /\ Move(r, "lost")
  /\ UNCHANGED <<rows, nextId, lock, call, key, status, listed, crashes,
                 firstOwner>>

\* The server stops: open transactions roll back and free their locks, the
\* committed rows and the sequence stay, and nobody gets an answer.
Crash ==
  /\ crashes < MaxCrashes
  /\ crashes' = crashes + 1
  /\ pc' = [r \in Requests |-> IF Running(r) THEN "lost" ELSE pc[r]]
  /\ lock' = [i \in Ids |-> None]
  /\ UNCHANGED <<rows, nextId, call, key, status, listed, firstOwner>>

Step(r) ==
  \/ Invalid(r)
  \/ GetAll(r)
  \/ Insert(r)
  \/ FindNothing(r)
  \/ Find(r)
  \/ Reselect(r)
  \/ Flush(r)
  \/ FlushStale(r)
  \/ CommitCreate(r)
  \/ CommitUpdate(r)
  \/ CommitDelete(r)
  \/ Respond(r)

\* All requests are over; an INSERT past the bound on ids counts as over.
Done ==
  /\ \A r \in Requests :
       \/ pc[r] \in {"answered", "lost"}
       \/ pc[r] = "begun" /\ call[r].op = "create" /\ nextId > MaxId
  /\ UNCHANGED vars

Next ==
  \/ \E r \in Requests : Begin(r) \/ Step(r) \/ LoseAnswer(r)
  \/ Crash
  \/ Done

Spec == Init /\ [][Next]_vars

\* A started request runs on, and the database grants a row lock that stays
\* free; nobody has to send a request, and nothing has to fail.
FairSpec == Spec /\ \A r \in Requests : WF_vars(Step(r))

(***************************************************************************)
(* Properties                                                              *)
(***************************************************************************)

PCs == {"idle", "begun", "selecting", "flushing", "flushed", "finished",
        "answered", "lost"}

\* The types of the state of VaultService and of the tables it works on.
TypeOK ==
  /\ rows \in [Ids -> Row \cup {None}]
  /\ nextId \in 1..(MaxId + 1)
  /\ lock \in [Ids -> Requests \cup {None}]
  /\ call \in [Requests -> Calls \cup {NoCall}]
  /\ \A r \in Requests : pc[r] # "idle" => call[r] \in Calls
  /\ pc \in [Requests -> PCs]
  /\ key \in [Requests -> Ids \cup {None}]
  /\ status \in [Requests -> {0, 200, 201, 204, 400, 404, 500}]
  /\ listed \in [Requests -> SUBSET (Ids \X Requests)]
  /\ crashes \in 0..MaxCrashes
  /\ firstOwner \in [Ids -> Users \cup {None}]

\* The ownership check of findByIdAndUserId suffices although it runs in a
\* statement of its own before the write by primary key: what a row holds
\* was written by its owner, and a getAll returns nobody else's content.
OwnerOnly ==
  /\ \A i \in Ids : rows[i] # None =>
       /\ rows[i].owner = firstOwner[i]
       /\ call[rows[i].data].user = rows[i].owner
  /\ \A r \in Requests : \A e \in listed[r] : call[e[2]].user = call[r].user

\* A delete answered with 204 has removed its entry for good, also when it
\* found the row gone at its second select and deleted nothing itself.
AcknowledgedDelete ==
  \A r \in Requests :
    call[r].op = "delete" /\ status[r] = 204 => rows[call[r].id] = None

\* An update that races a delete never brings the entry back, as a save()
\* that inserts what it does not find would; nor is an id used twice.
DeletedForGood ==
  [][\A i \in Ids :
       firstOwner[i] # None /\ rows[i] = None => rows'[i] = None]_vars

\* Where a request stands for its client: VaultApi does not see statements,
\* and an answer that is never sent is one that is not returned yet.
Stage(r) ==
  CASE pc[r] = "idle" -> "idle"
    [] pc[r] = "answered" -> "returned"
    [] pc[r] \notin {"idle", "answered"} /\ status[r] # 0 -> "done"
    [] OTHER -> "called"

Api == INSTANCE VaultApi WITH
         store <- rows,
         stage <- [r \in Requests |-> Stage(r)]

\* The transactions implement the atomic calls of VaultApi: each takes
\* effect at one instant between its request and its answer, or not at all.
Implements == Api!Spec

\* Every request the server has begun is answered, or its answer is lost:
\* row locks are released and nobody waits for one for ever.
Answered ==
  \A r \in Requests :
    (pc[r] = "begun") ~> (pc[r] \in {"answered", "lost"})

=============================================================================
