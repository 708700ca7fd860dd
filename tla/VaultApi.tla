------------------------------ MODULE VaultApi ------------------------------
(***************************************************************************)
(* What the vault API promises its clients: every call takes effect at one *)
(* instant between the request and its answer, on a store that maps an     *)
(* entry id to its owner and its content.  The content is named by the     *)
(* request that wrote it: the client encrypts under a fresh IV each time,  *)
(* so no two requests write the same content.                              *)
(***************************************************************************)
CONSTANTS
  Users, Requests, Ids,
  None            \* no user, no row

\* The operations with their caller; update and delete name an entry.
Calls ==
  [op : {"getAll", "create"}, user : Users, id : {None}]
  \cup [op : {"update", "delete"}, user : Users, id : Ids]

VARIABLES
  store,      \* entry id -> [owner, data], or None
  firstOwner, \* entry id -> the user it was created for, or None
  call,       \* request -> the operation, the caller and the path variable
  stage,      \* request -> "idle", "called", "done" or "returned"
  status,     \* request -> HTTP status of its answer, 0 before it has one
  listed      \* request -> the entries a getAll returned

vars == <<store, firstOwner, call, stage, status, listed>>

NoCall == [op |-> "getAll", user |-> None, id |-> None]

Init ==
  /\ store = [i \in Ids |-> None]
  /\ firstOwner = [i \in Ids |-> None]
  /\ call = [r \in Requests |-> NoCall]
  /\ stage = [r \in Requests |-> "idle"]
  /\ status = [r \in Requests |-> 0]
  /\ listed = [r \in Requests |-> {}]

Owned(u) == {i \in Ids : store[i] # None /\ store[i].owner = u}

Answer(r, code) ==
  /\ stage[r] = "called"
  /\ stage' = [stage EXCEPT ![r] = "done"]
  /\ status' = [status EXCEPT ![r] = code]
  /\ UNCHANGED call

Call(r) ==
  /\ stage[r] = "idle"
  /\ \E c \in Calls : call' = [call EXCEPT ![r] = c]
  /\ stage' = [stage EXCEPT ![r] = "called"]
  /\ UNCHANGED <<store, firstOwner, status, listed>>

\* All entries of the caller and nothing else.
List(r) ==
  /\ call[r].op = "getAll"
  /\ Answer(r, 200)
  /\ listed' = [listed EXCEPT ![r] =
                  {<<i, store[i].data>> : i \in Owned(call[r].user)}]
  /\ UNCHANGED <<store, firstOwner>>

\* A new entry under an id no entry ever had.
Create(r) ==
  /\ call[r].op = "create"
  /\ Answer(r, 201)
  /\ \E i \in Ids :
       /\ firstOwner[i] = None
       /\ store' = [store EXCEPT ![i] = [owner |-> call[r].user, data |-> r]]
       /\ firstOwner' = [firstOwner EXCEPT ![i] = call[r].user]
  /\ UNCHANGED listed

\* The content is replaced as a whole; the owner stays.
Update(r) ==
  /\ call[r].op = "update"
  /\ call[r].id \in Owned(call[r].user)
  /\ Answer(r, 200)
  /\ store' = [store EXCEPT ![call[r].id] =
                 [owner |-> call[r].user, data |-> r]]
  /\ UNCHANGED <<firstOwner, listed>>

Delete(r) ==
  /\ call[r].op = "delete"
  /\ call[r].id \in Owned(call[r].user)
  /\ Answer(r, 204)
  /\ store' = [store EXCEPT ![call[r].id] = None]
  /\ UNCHANGED <<firstOwner, listed>>

\* The entry is, or at this instant is no longer, one of the caller's.
NotFound(r) ==
  /\ call[r].op \in {"update", "delete"}
  /\ call[r].id \notin Owned(call[r].user)
  /\ Answer(r, 404)
  /\ UNCHANGED <<store, firstOwner, listed>>

\* The caller's own entry was deleted by a call that ran at the same time:
\* a delete may report success, and either may report an internal error.
AlreadyDeleted(r) ==
  /\ call[r].op \in {"update", "delete"}
  /\ firstOwner[call[r].id] = call[r].user
  /\ store[call[r].id] = None
  /\ \E code \in IF call[r].op = "delete" THEN {204, 500} ELSE {500} :
       Answer(r, code)
  /\ UNCHANGED <<store, firstOwner, listed>>

\* The body of a create or an update fails validation; nothing is looked up.
Invalid(r) ==
  /\ call[r].op \in {"create", "update"}
  /\ Answer(r, 400)
  /\ UNCHANGED <<store, firstOwner, listed>>

Return(r) ==
  /\ stage[r] = "done"
  /\ stage' = [stage EXCEPT ![r] = "returned"]
  /\ UNCHANGED <<store, firstOwner, call, status, listed>>

Next ==
  \E r \in Requests :
    \/ Call(r)
    \/ List(r)
    \/ Create(r)
    \/ Update(r)
    \/ Delete(r)
    \/ NotFound(r)
    \/ AlreadyDeleted(r)
    \/ Invalid(r)
    \/ Return(r)

Spec == Init /\ [][Next]_vars

=============================================================================
