-------------------------- MODULE VaultStoreProofs --------------------------
(***************************************************************************)
(* Proofs about VaultStore for every set of users and requests, every      *)
(* bound on the ids and every number of crashes.                           *)
(***************************************************************************)
EXTENDS VaultStore, TLAPS

(***************************************************************************)
(* The inductive invariant                                                 *)
(***************************************************************************)

\* Stored and listed content: its owner, and that its writer has begun.
ContentInv ==
  /\ \A i \in Ids : rows[i] # None =>
       /\ rows[i].owner = firstOwner[i]
       /\ pc[rows[i].data] # "idle"
       /\ call[rows[i].data].user = rows[i].owner
  /\ \A r \in Requests : \A e \in listed[r] :
       /\ pc[r] # "idle"
       /\ pc[e[2]] # "idle"
       /\ call[e[2]].user = call[r].user

\* The ids the sequence has not reached, and those of uncommitted INSERTs,
\* never held a row; no two INSERTs have the same id.
KeyInv ==
  /\ \A i \in Ids : i >= nextId => firstOwner[i] = None
  /\ \A r \in Requests : pc[r] = "flushed" /\ call[r].op = "create" =>
       key[r] \in Ids /\ key[r] < nextId /\ firstOwner[key[r]] = None
  /\ \A r, s \in Requests :
       /\ pc[r] = "flushed" /\ call[r].op = "create"
       /\ pc[s] = "flushed" /\ call[s].op = "create"
       /\ key[r] = key[s]
       => r = s

\* A flushed UPDATE or DELETE holds the lock of a row that is there.
LockInv ==
  \A r \in Requests : pc[r] = "flushed" /\ call[r].op # "create" =>
    lock[call[r].id] = r /\ rows[call[r].id] # None

\* Past its first select, a transaction works on an entry of its caller.
FoundInv ==
  \A r \in Requests :
    /\ pc[r] = "selecting" => call[r].op = "delete"
    /\ pc[r] = "flushing" => call[r].op \in {"update", "delete"}
    /\ pc[r] = "flushed" => call[r].op \in {"create", "update", "delete"}
    /\ pc[r] \in {"selecting", "flushing", "flushed"} /\ call[r].op # "create"
         => firstOwner[call[r].id] = call[r].user

\* A request has a status from the end of its transaction on.
StatusInv ==
  \A r \in Requests :
    /\ pc[r] \in {"finished", "answered"} => status[r] # 0
    /\ status[r] # 0 => pc[r] \in {"finished", "answered", "lost"}

\* A deleted entry existed and is gone.
DeletedInv ==
  \A r \in Requests : call[r].op = "delete" /\ status[r] = 204 =>
    rows[call[r].id] = None /\ firstOwner[call[r].id] # None

IInv ==
  /\ TypeOK
  /\ ContentInv
  /\ KeyInv
  /\ LockInv
  /\ FoundInv
  /\ StatusInv
  /\ DeletedInv

USE BoundsAssumption, NoneAssumption, NoRowAssumption

\* The tables are empty and nobody has called.
LEMMA InitInv == Init => IInv
BY DEF Init, IInv, TypeOK, ContentInv, KeyInv, LockInv, FoundInv, StatusInv,
       DeletedInv, NoCall, Ids, PCs

\* What the type of a call says of a request past its start.
LEMMA CallType ==
  ASSUME TypeOK, NEW r \in Requests, pc[r] # "idle"
  PROVE  /\ call[r].user \in Users
         /\ call[r].op \in {"update", "delete"} => call[r].id \in Ids
BY DEF TypeOK, Calls

(***************************************************************************)
(* Each action preserves the invariant                                     *)
(***************************************************************************)

\* A request starts.
LEMMA BeginInv ==
  ASSUME IInv, NEW r \in Requests, Begin(r)
  PROVE  IInv'
<1> USE DEF IInv, Begin, Move
<1>1. TypeOK'
  BY DEF TypeOK, PCs, Calls
<1>2. ContentInv'
  BY DEF TypeOK, ContentInv
<1>3. KeyInv'
  BY DEF TypeOK, KeyInv
<1>4. LockInv'
  BY DEF TypeOK, LockInv
<1>5. FoundInv'
  BY DEF TypeOK, FoundInv
<1>6. StatusInv'
  BY DEF TypeOK, StatusInv
<1>7. DeletedInv'
  <2> SUFFICES ASSUME NEW s \in Requests, call'[s].op = "delete", status[s] = 204
               PROVE  rows[call'[s].id] = None /\ firstOwner[call'[s].id] # None
    BY DEF DeletedInv
  <2>1. s # r
    BY DEF StatusInv
  <2>2. call'[s] = call[s]
    BY <2>1 DEF TypeOK
  <2> QED BY <2>2 DEF DeletedInv
<1> QED BY <1>1, <1>2, <1>3, <1>4, <1>5, <1>6, <1>7

\* Validation fails.
LEMMA InvalidInv ==
  ASSUME IInv, NEW r \in Requests, Invalid(r)
  PROVE  IInv'
<1> USE DEF IInv, Invalid, Finish, Move
<1>1. TypeOK'
  BY DEF TypeOK, PCs
<1>2. ContentInv'
  BY DEF TypeOK, ContentInv
<1>3. KeyInv'
  BY DEF TypeOK, KeyInv
<1>4. LockInv'
  BY DEF TypeOK, LockInv
<1>5. FoundInv'
  BY DEF TypeOK, FoundInv
<1>6. StatusInv'
  BY DEF TypeOK, StatusInv
<1>7. DeletedInv'
  BY DEF TypeOK, DeletedInv
<1> QED BY <1>1, <1>2, <1>3, <1>4, <1>5, <1>6, <1>7

\* The select of getAll.
LEMMA GetAllInv ==
  ASSUME IInv, NEW r \in Requests, GetAll(r)
  PROVE  IInv'
<1> USE DEF IInv, GetAll, Finish, Move
<1>1. TypeOK'
  BY DEF TypeOK, PCs, FindByUserId, Row
<1>2. ContentInv'
  BY DEF TypeOK, ContentInv, FindByUserId, Row
<1>3. KeyInv'
  BY DEF TypeOK, KeyInv
<1>4. LockInv'
  BY DEF TypeOK, LockInv
<1>5. FoundInv'
  BY DEF TypeOK, FoundInv
<1>6. StatusInv'
  BY DEF TypeOK, StatusInv
<1>7. DeletedInv'
  BY DEF TypeOK, DeletedInv
<1> QED BY <1>1, <1>2, <1>3, <1>4, <1>5, <1>6, <1>7

\* The INSERT of create.
LEMMA InsertInv ==
  ASSUME IInv, NEW r \in Requests, Insert(r)
  PROVE  IInv'
<1> USE DEF IInv, Insert, Move
<1>1. TypeOK'
  BY DEF TypeOK, PCs, Ids
<1>2. ContentInv'
  BY DEF TypeOK, ContentInv
<1>3. KeyInv'
  BY DEF TypeOK, KeyInv, Ids
<1>4. LockInv'
  BY DEF TypeOK, LockInv
<1>5. FoundInv'
  BY DEF TypeOK, FoundInv
<1>6. StatusInv'
  BY DEF TypeOK, StatusInv
<1>7. DeletedInv'
  BY DEF TypeOK, DeletedInv
<1> QED BY <1>1, <1>2, <1>3, <1>4, <1>5, <1>6, <1>7

\* The first select finds nothing.
LEMMA FindNothingInv ==
  ASSUME IInv, NEW r \in Requests, FindNothing(r)
  PROVE  IInv'
<1> USE DEF IInv, FindNothing, Finish, Move
<1>1. TypeOK'
  BY DEF TypeOK, PCs
<1>2. ContentInv'
  BY DEF TypeOK, ContentInv
<1>3. KeyInv'
  BY DEF TypeOK, KeyInv
<1>4. LockInv'
  BY DEF TypeOK, LockInv
<1>5. FoundInv'
  BY DEF TypeOK, FoundInv
<1>6. StatusInv'
  BY DEF TypeOK, StatusInv
<1>7. DeletedInv'
  BY DEF TypeOK, DeletedInv
<1> QED BY <1>1, <1>2, <1>3, <1>4, <1>5, <1>6, <1>7

\* The first select finds the entry.
LEMMA FindInv ==
  ASSUME IInv, NEW r \in Requests, Find(r)
  PROVE  IInv'
<1> USE DEF IInv, Find, Move
<1>1. TypeOK'
  BY DEF TypeOK, PCs
<1>2. ContentInv'
  BY DEF TypeOK, ContentInv
<1>3. KeyInv'
  BY DEF TypeOK, KeyInv
<1>4. LockInv'
  BY DEF TypeOK, LockInv
<1>5. FoundInv'
  <2>1. firstOwner[call[r].id] = call[r].user
    BY CallType DEF ContentInv, Found, FindByUserId
  <2> QED BY <2>1 DEF TypeOK, FoundInv
<1>6. StatusInv'
  BY DEF TypeOK, StatusInv
<1>7. DeletedInv'
  BY DEF TypeOK, DeletedInv
<1> QED BY <1>1, <1>2, <1>3, <1>4, <1>5, <1>6, <1>7

\* The second select of delete.
LEMMA ReselectInv ==
  ASSUME IInv, NEW r \in Requests, Reselect(r)
  PROVE  IInv'
<1> USE DEF IInv, Reselect, Finish, Move
<1>1. TypeOK'
  <2>1. pc' \in [Requests -> PCs]
    BY DEF TypeOK, PCs
  <2>2. status' \in [Requests -> {0, 200, 201, 204, 400, 404, 500}]
    BY DEF TypeOK
  <2>3. \A s \in Requests : pc'[s] # "idle" => call[s] \in Calls
    BY DEF TypeOK
  <2> QED BY <2>1, <2>2, <2>3 DEF TypeOK
<1>2. ContentInv'
  <2>1. \A x \in Requests : pc'[x] = "idle" <=> pc[x] = "idle"
    BY DEF TypeOK
  <2>2. UNCHANGED <<rows, firstOwner, call, listed>>
    OBVIOUS
  <2>3. /\ \A i \in Ids : rows[i] # None => rows[i].data \in Requests
        /\ \A x \in Requests : \A e \in listed[x] : e[2] \in Requests
    BY DEF TypeOK, Row
  <2> QED BY <2>1, <2>2, <2>3 DEF ContentInv
<1>3. KeyInv'
  <2>1. pc'[r] # "flushed" /\ \A s \in Requests : s # r => pc'[s] = pc[s]
    BY DEF TypeOK
  <2>2. UNCHANGED <<nextId, firstOwner, call, key>>
    OBVIOUS
  <2> QED BY <2>1, <2>2 DEF KeyInv
<1>4. LockInv'
  <2>1. pc'[r] # "flushed" /\ \A s \in Requests : s # r => pc'[s] = pc[s]
    BY DEF TypeOK
  <2>2. UNCHANGED <<rows, lock, call>>
    OBVIOUS
  <2> QED BY <2>1, <2>2 DEF LockInv
<1>5. FoundInv'
  BY DEF TypeOK, FoundInv
<1>6. StatusInv'
  BY DEF TypeOK, StatusInv
<1>7. DeletedInv'
  BY DEF TypeOK, DeletedInv, FoundInv, ContentInv, Found, FindByUserId, Calls
<1> QED BY <1>1, <1>2, <1>3, <1>4, <1>5, <1>6, <1>7

\* The write takes its row lock.
LEMMA FlushInv ==
  ASSUME IInv, NEW r \in Requests, Flush(r)
  PROVE  IInv'
<1> USE DEF IInv, Flush, Move
<1>1. TypeOK'
  <2>1. lock' \in [Ids -> Requests \cup {None}]
    BY DEF TypeOK
  <2>2. pc' \in [Requests -> PCs]
    BY DEF TypeOK, PCs
  <2>3. \A s \in Requests : pc'[s] # "idle" => call[s] \in Calls
    BY DEF TypeOK
  <2> QED BY <2>1, <2>2, <2>3 DEF TypeOK
<1>2. ContentInv'
  BY DEF TypeOK, ContentInv
<1>3. KeyInv'
  <2>1. call[r].op # "create" /\ \A s \in Requests : s # r => pc'[s] = pc[s]
    BY DEF TypeOK, FoundInv
  <2>2. UNCHANGED <<nextId, firstOwner, call, key>>
    OBVIOUS
  <2> QED BY <2>1, <2>2 DEF KeyInv
<1>4. LockInv'
  BY DEF TypeOK, LockInv, FoundInv, RowFree, Calls
<1>5. FoundInv'
  BY DEF TypeOK, FoundInv
<1>6. StatusInv'
  BY DEF TypeOK, StatusInv
<1>7. DeletedInv'
  BY DEF TypeOK, DeletedInv
<1> QED BY <1>1, <1>2, <1>3, <1>4, <1>5, <1>6, <1>7

\* The write finds no row.
LEMMA FlushStaleInv ==
  ASSUME IInv, NEW r \in Requests, FlushStale(r)
  PROVE  IInv'
<1> USE DEF IInv, FlushStale, Finish, Move
<1>1. TypeOK'
  BY DEF TypeOK, PCs
<1>2. ContentInv'
  BY DEF TypeOK, ContentInv
<1>3. KeyInv'
  BY DEF TypeOK, KeyInv
<1>4. LockInv'
  BY DEF TypeOK, LockInv
<1>5. FoundInv'
  BY DEF TypeOK, FoundInv
<1>6. StatusInv'
  BY DEF TypeOK, StatusInv
<1>7. DeletedInv'
  BY DEF TypeOK, DeletedInv
<1> QED BY <1>1, <1>2, <1>3, <1>4, <1>5, <1>6, <1>7

\* A create commits.
LEMMA CommitCreateInv ==
  ASSUME IInv, NEW r \in Requests, CommitCreate(r)
  PROVE  IInv'
<1> USE DEF IInv, CommitCreate, Finish, Move
<1>1. TypeOK'
  BY DEF TypeOK, PCs, KeyInv, Row, Calls
<1>2. ContentInv'
  BY DEF TypeOK, ContentInv, KeyInv, Row, Calls, FoundInv
<1>3. KeyInv'
  BY DEF TypeOK, KeyInv, Ids
<1>4. LockInv'
  BY DEF TypeOK, LockInv, KeyInv, FoundInv, Calls
<1>5. FoundInv'
  <2> SUFFICES ASSUME NEW s \in Requests, s # r,
                      pc[s] \in {"selecting", "flushing", "flushed"},
                      call[s].op # "create"
               PROVE  firstOwner'[call[s].id] = call[s].user
    BY DEF TypeOK, FoundInv
  <2>1. firstOwner[call[s].id] = call[s].user /\ call[s].user \in Users
    BY CallType DEF FoundInv
  <2>2. firstOwner[key[r]] = None
    BY DEF KeyInv
  <2>3. call[s].id \in Ids
    BY CallType DEF FoundInv
  <2> QED BY <2>1, <2>2, <2>3 DEF TypeOK
<1>6. StatusInv'
  BY DEF TypeOK, StatusInv
<1>7. DeletedInv'
  BY DEF TypeOK, DeletedInv, KeyInv, Calls, Row
<1> QED BY <1>1, <1>2, <1>3, <1>4, <1>5, <1>6, <1>7

\* An update commits.
LEMMA CommitUpdateInv ==
  ASSUME IInv, NEW r \in Requests, CommitUpdate(r)
  PROVE  IInv'
<1> USE DEF IInv, CommitUpdate, Finish, Move
<1>1. TypeOK'
  <2>1. call[r].id \in Ids /\ rows[call[r].id] \in Row
    BY CallType DEF TypeOK, LockInv
  <2>2. rows' \in [Ids -> Row \cup {None}]
    BY <2>1 DEF TypeOK, Row
  <2>3. \A s \in Requests : pc'[s] # "idle" => call[s] \in Calls
    BY DEF TypeOK
  <2> QED BY <2>1, <2>2, <2>3 DEF TypeOK, PCs
<1>2. ContentInv'
  BY DEF TypeOK, ContentInv, LockInv, FoundInv, Row, Calls
<1>3. KeyInv'
  BY DEF TypeOK, KeyInv
<1>4. LockInv'
  BY DEF TypeOK, LockInv, FoundInv, Calls, Row
<1>5. FoundInv'
  BY DEF TypeOK, FoundInv
<1>6. StatusInv'
  BY DEF TypeOK, StatusInv
<1>7. DeletedInv'
  BY DEF TypeOK, DeletedInv, LockInv, Calls, Row
<1> QED BY <1>1, <1>2, <1>3, <1>4, <1>5, <1>6, <1>7

\* A delete commits.
LEMMA CommitDeleteInv ==
  ASSUME IInv, NEW r \in Requests, CommitDelete(r)
  PROVE  IInv'
<1> USE DEF IInv, CommitDelete, Finish, Move
<1>1. TypeOK'
  <2>1. rows' \in [Ids -> Row \cup {None}] /\ lock' \in [Ids -> Requests \cup {None}]
    BY DEF TypeOK
  <2>2. pc' \in [Requests -> PCs]
    BY DEF TypeOK, PCs
  <2>3. status' \in [Requests -> {0, 200, 201, 204, 400, 404, 500}]
    BY DEF TypeOK
  <2>4. \A s \in Requests : pc'[s] # "idle" => call[s] \in Calls
    BY DEF TypeOK
  <2> QED BY <2>1, <2>2, <2>3, <2>4 DEF TypeOK
<1>2. ContentInv'
  BY DEF TypeOK, ContentInv, LockInv, Calls
<1>3. KeyInv'
  BY DEF TypeOK, KeyInv
<1>4. LockInv'
  BY DEF TypeOK, LockInv, FoundInv, Calls, Row
<1>5. FoundInv'
  BY DEF TypeOK, FoundInv
<1>6. StatusInv'
  BY DEF TypeOK, StatusInv
<1>7. DeletedInv'
  BY DEF TypeOK, DeletedInv, FoundInv, LockInv, Calls
<1> QED BY <1>1, <1>2, <1>3, <1>4, <1>5, <1>6, <1>7

\* The answer arrives.
LEMMA RespondInv ==
  ASSUME IInv, NEW r \in Requests, Respond(r)
  PROVE  IInv'
<1> USE DEF IInv, Respond, Move
<1>1. TypeOK'
  BY DEF TypeOK, PCs
<1>2. ContentInv'
  BY DEF TypeOK, ContentInv
<1>3. KeyInv'
  BY DEF TypeOK, KeyInv
<1>4. LockInv'
  BY DEF TypeOK, LockInv
<1>5. FoundInv'
  BY DEF TypeOK, FoundInv
<1>6. StatusInv'
  BY DEF TypeOK, StatusInv
<1>7. DeletedInv'
  BY DEF TypeOK, DeletedInv
<1> QED BY <1>1, <1>2, <1>3, <1>4, <1>5, <1>6, <1>7

\* The answer is lost.
LEMMA LoseAnswerInv ==
  ASSUME IInv, NEW r \in Requests, LoseAnswer(r)
  PROVE  IInv'
<1> USE DEF IInv, LoseAnswer, Move
<1>1. TypeOK'
  BY DEF TypeOK, PCs
<1>2. ContentInv'
  BY DEF TypeOK, ContentInv
<1>3. KeyInv'
  BY DEF TypeOK, KeyInv
<1>4. LockInv'
  BY DEF TypeOK, LockInv
<1>5. FoundInv'
  BY DEF TypeOK, FoundInv
<1>6. StatusInv'
  BY DEF TypeOK, StatusInv
<1>7. DeletedInv'
  BY DEF TypeOK, DeletedInv
<1> QED BY <1>1, <1>2, <1>3, <1>4, <1>5, <1>6, <1>7

\* The server stops.
LEMMA CrashInv ==
  ASSUME IInv, Crash
  PROVE  IInv'
<1> USE DEF IInv, Crash, Running
<1>1. TypeOK'
  BY DEF TypeOK, PCs
<1>2. ContentInv'
  <2>1. \A x \in Requests : pc'[x] = "idle" <=> pc[x] = "idle"
    BY DEF TypeOK
  <2>2. UNCHANGED <<rows, firstOwner, call, listed>>
    OBVIOUS
  <2>3. /\ \A i \in Ids : rows[i] # None => rows[i].data \in Requests
        /\ \A x \in Requests : \A e \in listed[x] : e[2] \in Requests
    BY DEF TypeOK, Row
  <2> QED BY <2>1, <2>2, <2>3 DEF ContentInv
<1>3. KeyInv'
  BY DEF TypeOK, KeyInv
<1>4. LockInv'
  BY DEF TypeOK, LockInv
<1>5. FoundInv'
  BY DEF TypeOK, FoundInv
<1>6. StatusInv'
  BY DEF TypeOK, StatusInv
<1>7. DeletedInv'
  BY DEF TypeOK, DeletedInv
<1> QED BY <1>1, <1>2, <1>3, <1>4, <1>5, <1>6, <1>7

\* Every step of the service and of the database preserves the invariant.
LEMMA NextInv == IInv /\ [Next]_vars => IInv'
<1> SUFFICES ASSUME IInv, [Next]_vars PROVE IInv'
  OBVIOUS
<1>1. ASSUME NEW r \in Requests, Begin(r) \/ Step(r) \/ LoseAnswer(r) PROVE IInv'
  BY <1>1, BeginInv, InvalidInv, GetAllInv, InsertInv, FindNothingInv, FindInv,
     ReselectInv, FlushInv, FlushStaleInv, CommitCreateInv, CommitUpdateInv,
     CommitDeleteInv, RespondInv, LoseAnswerInv DEF Step
<1>2. CASE Crash
  BY <1>2, CrashInv
<1>3. CASE UNCHANGED vars
  BY <1>3 DEF vars, IInv, TypeOK, ContentInv, KeyInv, LockInv, FoundInv,
       StatusInv, DeletedInv
<1> QED BY <1>1, <1>2, <1>3 DEF Next, Done

(***************************************************************************)
(* Safety                                                                  *)
(***************************************************************************)

\* The invariant holds in every reachable state.
THEOREM InductiveInvariant == Spec => []IInv
<1> QED BY InitInv, NextInv, PTL DEF Spec

\* VaultService and its tables stay well-typed.
THEOREM TypeCorrect == Spec => []TypeOK
<1>1. IInv => TypeOK
  BY DEF IInv
<1> QED BY <1>1, InductiveInvariant, PTL

\* What a row holds was written by its owner, and getAll returns to a user
\* only what this user wrote, whatever runs between the check and the write.
THEOREM OwnershipHolds == Spec => []OwnerOnly
<1>1. IInv => OwnerOnly
  BY DEF IInv, ContentInv, OwnerOnly
<1> QED BY <1>1, InductiveInvariant, PTL

\* An entry whose delete was answered with 204 is gone for good.
THEOREM DeletesHold == Spec => []AcknowledgedDelete
<1>1. IInv => AcknowledgedDelete
  BY DEF IInv, DeletedInv, AcknowledgedDelete
<1> QED BY <1>1, InductiveInvariant, PTL

\* No step writes a row whose entry has been deleted.
THEOREM NoResurrection == Spec => DeletedForGood
<1> DEFINE Gone == \A i \in Ids :
             firstOwner[i] # None /\ rows[i] = None => rows'[i] = None
<1>1. ASSUME IInv, [Next]_vars PROVE [Gone]_vars
  <2> USE <1>1 DEF IInv
  <2>1. ASSUME NEW r \in Requests, CommitCreate(r) PROVE Gone
    <3> SUFFICES ASSUME NEW i \in Ids, firstOwner[i] # None, rows[i] = None
                 PROVE  rows'[i] = None
      OBVIOUS
    <3>1. pc[r] = "flushed" /\ call[r].op = "create"
      BY <2>1 DEF CommitCreate
    <3>2. firstOwner[key[r]] = None
      BY <3>1 DEF KeyInv
    <3>3. i # key[r]
      BY <3>2
    <3> QED BY <2>1, <3>3 DEF CommitCreate, TypeOK
  <2>2. ASSUME NEW r \in Requests, CommitUpdate(r) PROVE Gone
    <3> SUFFICES ASSUME NEW i \in Ids, firstOwner[i] # None, rows[i] = None
                 PROVE  rows'[i] = None
      OBVIOUS
    <3>1. pc[r] = "flushed" /\ call[r].op = "update"
      BY <2>2 DEF CommitUpdate
    <3>2. rows[call[r].id] # None
      BY <3>1 DEF LockInv
    <3>3. i # call[r].id
      BY <3>2
    <3> QED BY <2>2, <3>3 DEF CommitUpdate, TypeOK
  <2>3. ASSUME NEW r \in Requests, CommitDelete(r) PROVE Gone
    BY <2>3 DEF CommitDelete, TypeOK
  <2>4. CASE UNCHANGED rows
    BY <2>4
  <2> QED BY <1>1, <2>1, <2>2, <2>3, <2>4 DEF Next, Step, Begin, Invalid, GetAll,
         Insert, FindNothing, Find, Reselect, Flush, FlushStale, Respond,
         LoseAnswer, Crash, Done, vars
<1> QED BY <1>1, InductiveInvariant, PTL DEF Spec, DeletedForGood

(***************************************************************************)
(* Refinement                                                              *)
(***************************************************************************)

\* The stage of a request whose transaction is open, over or not begun.
LEMMA StageValue ==
  ASSUME IInv, NEW r \in Requests
  PROVE  /\ pc[r] = "idle" => Stage(r) = "idle"
         /\ pc[r] \in {"begun", "selecting", "flushing", "flushed"} =>
              Stage(r) = "called" /\ status[r] = 0
         /\ pc[r] = "finished" => Stage(r) = "done"
         /\ pc[r] = "answered" => Stage(r) = "returned"
BY DEF IInv, StatusInv, Stage

\* A step of one request changes at most its own stage.
LEMMA StageStep ==
  ASSUME IInv, NEW r \in Requests, NEW v,
         pc' = [pc EXCEPT ![r] = v],
         \A s \in Requests : s # r => status'[s] = status[s]
  PROVE  [s \in Requests |-> Stage(s)']
           = [[s \in Requests |-> Stage(s)] EXCEPT ![r] = Stage(r)']
<1>1. \A s \in Requests : s # r => pc'[s] = pc[s]
  BY DEF IInv, TypeOK
<1>2. \A s \in Requests : s # r => Stage(s)' = Stage(s)
  BY <1>1 DEF Stage
<1> QED BY <1>2

\* The end of a transaction is the answer of the abstract call.
LEMMA FinishAnswers ==
  ASSUME IInv, NEW r \in Requests,
         NEW code \in {200, 201, 204, 400, 404, 500},
         pc[r] \in {"begun", "selecting", "flushing", "flushed"},
         Finish(r, code), UNCHANGED call
  PROVE  Api!Answer(r, code)
<1>1. /\ pc' = [pc EXCEPT ![r] = "finished"]
      /\ status' = [status EXCEPT ![r] = code]
      /\ pc'[r] = "finished" /\ status'[r] = code
      /\ \A s \in Requests : s # r => status'[s] = status[s]
  BY DEF Finish, Move, IInv, TypeOK
<1>2. Stage(r)' = "done"
  BY <1>1 DEF Stage
<1>0. [s \in Requests |-> Stage(s)']
        = [[s \in Requests |-> Stage(s)] EXCEPT ![r] = Stage(r)']
  <2>1. pc' = [pc EXCEPT ![r] = "finished"]
    BY <1>1
  <2>2. \A s \in Requests : s # r => status'[s] = status[s]
    BY <1>1
  <2> QED BY <2>1, <2>2, StageStep
<1>3. [s \in Requests |-> Stage(s)']
        = [[s \in Requests |-> Stage(s)] EXCEPT ![r] = "done"]
  BY <1>0, <1>2
<1>4. Stage(r) = "called"
  BY StageValue
<1> QED BY <1>1, <1>3, <1>4 DEF Api!Answer

\* Steps the client does not see: no table, answer or stage changes.
LEMMA HiddenStep ==
  ASSUME IInv, NEW r \in Requests, NEW v,
         pc' = [pc EXCEPT ![r] = v], Stage(r)' = Stage(r),
         UNCHANGED <<rows, firstOwner, call, status, listed>>
  PROVE  UNCHANGED Api!vars
<1>1. [s \in Requests |-> Stage(s)'] = [s \in Requests |-> Stage(s)]
  BY StageStep
<1> QED BY <1>1 DEF Api!vars

\* A request that starts is a call of the API.
LEMMA BeginCalls ==
  ASSUME IInv, NEW r \in Requests, Begin(r)
  PROVE  Api!Call(r)
<1>0. /\ pc' = [pc EXCEPT ![r] = "begun"] /\ pc[r] = "idle"
      /\ UNCHANGED <<rows, status, listed, firstOwner>>
  BY DEF Begin, Move
<1>6. \E c \in Calls : call' = [call EXCEPT ![r] = c]
  BY DEF Begin
<1>1. pc'[r] = "begun"
  BY <1>0 DEF IInv, TypeOK
<1>2. status[r] = 0
  BY <1>0 DEF IInv, StatusInv
<1>3. Stage(r)' = "called" /\ Stage(r) = "idle"
  BY <1>0, <1>1, <1>2 DEF Stage
<1>5. [s \in Requests |-> Stage(s)']
        = [[s \in Requests |-> Stage(s)] EXCEPT ![r] = Stage(r)']
  BY <1>0, StageStep
<1>4. [s \in Requests |-> Stage(s)']
        = [[s \in Requests |-> Stage(s)] EXCEPT ![r] = "called"]
  BY <1>5, <1>3
<1> QED BY <1>0, <1>6, <1>3, <1>4 DEF Api!Call, Calls, Api!Calls

\* An answer that arrives is a return of the API.
LEMMA RespondReturns ==
  ASSUME IInv, NEW r \in Requests, Respond(r)
  PROVE  Api!Return(r)
<1>1. /\ pc' = [pc EXCEPT ![r] = "answered"] /\ pc'[r] = "answered"
      /\ pc[r] = "finished"
      /\ UNCHANGED <<rows, call, status, listed, firstOwner>>
  BY DEF Respond, Move, IInv, TypeOK
<1>2. Stage(r)' = "returned" /\ Stage(r) = "done"
  BY <1>1, StageValue DEF Stage
<1>3. [s \in Requests |-> Stage(s)']
        = [[s \in Requests |-> Stage(s)] EXCEPT ![r] = "returned"]
  BY <1>1, <1>2, StageStep
<1> QED BY <1>1, <1>2, <1>3 DEF Api!Return

\* The second select of a delete is hidden, or ends a call that came late.
LEMMA ReselectRefines ==
  ASSUME IInv, NEW r \in Requests, Reselect(r)
  PROVE  Api!AlreadyDeleted(r) \/ UNCHANGED Api!vars
<1>1. /\ pc[r] = "selecting" /\ call[r].op = "delete" /\ call[r].id \in Ids
      /\ UNCHANGED <<rows, call, listed, firstOwner>>
  BY CallType DEF Reselect, IInv, FoundInv
<1>2. CASE Found(r)
  <2>1. pc' = [pc EXCEPT ![r] = "flushing"] /\ pc'[r] = "flushing" /\ status' = status
    BY <1>2 DEF Reselect, Move, IInv, TypeOK
  <2>2. Stage(r)' = Stage(r)
    BY <1>1, <2>1, StageValue DEF Stage
  <2> QED BY <1>1, <2>1, <2>2, HiddenStep
<1>3. CASE ~Found(r)
  <2>1. firstOwner[call[r].id] = call[r].user
    BY <1>1 DEF IInv, FoundInv
  <2>2. rows[call[r].id] = None
    BY <1>1, <1>3, <2>1 DEF Found, FindByUserId, IInv, ContentInv
  <2>3. Api!Answer(r, 204)
    BY <1>1, <1>3, FinishAnswers DEF Reselect
  <2> QED BY <1>1, <2>1, <2>2, <2>3 DEF Api!AlreadyDeleted
<1> QED BY <1>2, <1>3

\* A write that finds no row is a call that fails.
LEMMA FlushStaleRefines ==
  ASSUME IInv, NEW r \in Requests, FlushStale(r)
  PROVE  Api!AlreadyDeleted(r)
<1>1. /\ pc[r] = "flushing" /\ call[r].op \in {"update", "delete"}
      /\ rows[call[r].id] = None /\ firstOwner[call[r].id] = call[r].user
      /\ UNCHANGED <<rows, call, listed, firstOwner>>
  BY DEF FlushStale, IInv, FoundInv
<1>2. Api!Answer(r, 500)
  BY <1>1, FinishAnswers DEF FlushStale
<1> QED BY <1>1, <1>2 DEF Api!AlreadyDeleted

\* The commit of a create is the abstract create.
LEMMA CommitCreateRefines ==
  ASSUME IInv, NEW r \in Requests, CommitCreate(r)
  PROVE  Api!Create(r)
<1>1. /\ pc[r] = "flushed" /\ call[r].op = "create" /\ UNCHANGED <<call, listed>>
      /\ rows' = [rows EXCEPT ![key[r]] = [owner |-> call[r].user, data |-> r]]
      /\ firstOwner' = [firstOwner EXCEPT ![key[r]] = call[r].user]
  BY DEF CommitCreate
<1>2. key[r] \in Ids /\ firstOwner[key[r]] = None
  BY <1>1 DEF IInv, KeyInv
<1>3. Api!Answer(r, 201)
  BY <1>1, FinishAnswers DEF CommitCreate
<1> QED BY <1>1, <1>2, <1>3 DEF Api!Create

\* A flushed UPDATE or DELETE works on a row of its caller.
LEMMA FlushedOwned ==
  ASSUME IInv, NEW r \in Requests, pc[r] = "flushed", call[r].op # "create"
  PROVE  /\ call[r].id \in Ids
         /\ rows[call[r].id] \in Row
         /\ rows[call[r].id].owner = call[r].user
         /\ call[r].id \in Api!Owned(call[r].user)
<1>1. call[r].id \in Ids /\ firstOwner[call[r].id] = call[r].user
  BY CallType DEF IInv, FoundInv
<1>2. rows[call[r].id] # None
  BY DEF IInv, LockInv
<1>3. rows[call[r].id] \in Row
  BY <1>1, <1>2 DEF IInv, TypeOK
<1>4. rows[call[r].id].owner = call[r].user
  BY <1>1, <1>2 DEF IInv, ContentInv
<1> QED BY <1>1, <1>2, <1>3, <1>4 DEF Api!Owned

\* The commit of an update is the abstract update.
LEMMA CommitUpdateRefines ==
  ASSUME IInv, NEW r \in Requests, CommitUpdate(r)
  PROVE  Api!Update(r)
<1>1. /\ pc[r] = "flushed" /\ call[r].op = "update"
      /\ UNCHANGED <<call, listed, firstOwner>>
      /\ rows' = [rows EXCEPT ![call[r].id].data = r]
  BY DEF CommitUpdate
<1>2. /\ call[r].id \in Ids /\ rows[call[r].id] \in Row
      /\ rows[call[r].id].owner = call[r].user
      /\ call[r].id \in Api!Owned(call[r].user)
  BY <1>1, FlushedOwned
<1>3. [rows[call[r].id] EXCEPT !.data = r] = [owner |-> call[r].user, data |-> r]
  BY <1>2 DEF Row
<1>4. rows' = [rows EXCEPT ![call[r].id] = [owner |-> call[r].user, data |-> r]]
  BY <1>1, <1>3
<1>5. Api!Answer(r, 200)
  BY <1>1, FinishAnswers DEF CommitUpdate
<1> QED BY <1>1, <1>2, <1>4, <1>5 DEF Api!Update

\* The commit of a delete is the abstract delete.
LEMMA CommitDeleteRefines ==
  ASSUME IInv, NEW r \in Requests, CommitDelete(r)
  PROVE  Api!Delete(r)
<1>1. /\ pc[r] = "flushed" /\ call[r].op = "delete"
      /\ UNCHANGED <<call, listed, firstOwner>>
      /\ rows' = [rows EXCEPT ![call[r].id] = None]
  BY DEF CommitDelete
<1>2. call[r].id \in Api!Owned(call[r].user)
  BY <1>1, FlushedOwned
<1>3. Api!Answer(r, 204)
  BY <1>1, FinishAnswers DEF CommitDelete
<1> QED BY <1>1, <1>2, <1>3 DEF Api!Delete

\* Selects, inserts, flushes and lost answers are hidden.
LEMMA HiddenRefines ==
  ASSUME IInv, NEW r \in Requests,
         Insert(r) \/ Find(r) \/ Flush(r) \/ LoseAnswer(r)
  PROVE  UNCHANGED Api!vars
<1>1. UNCHANGED <<rows, firstOwner, call, status, listed>>
  BY DEF Insert, Find, Flush, LoseAnswer
<1>2. \/ /\ pc[r] = "finished" /\ pc' = [pc EXCEPT ![r] = "lost"]
      \/ /\ pc[r] \in {"begun", "flushing"}
         /\ \E v \in {"selecting", "flushing", "flushed"} :
              pc' = [pc EXCEPT ![r] = v]
  BY DEF Insert, Find, Flush, LoseAnswer, Move
<1>3. CASE pc[r] = "finished" /\ pc' = [pc EXCEPT ![r] = "lost"]
  <2>1. status[r] # 0 /\ pc'[r] = "lost"
    BY <1>3 DEF IInv, StatusInv, TypeOK
  <2>2. Stage(r)' = Stage(r)
    BY <1>1, <1>3, <2>1 DEF Stage
  <2> QED BY <1>1, <1>3, <2>2, HiddenStep
<1>4. ASSUME pc[r] \in {"begun", "flushing"},
             NEW v \in {"selecting", "flushing", "flushed"},
             pc' = [pc EXCEPT ![r] = v]
      PROVE  UNCHANGED Api!vars
  <2>1. pc'[r] = v /\ status[r] = 0
    BY <1>4 DEF IInv, StatusInv, TypeOK
  <2>2. Stage(r)' = Stage(r)
    BY <1>1, <1>4, <2>1 DEF Stage
  <2> QED BY <1>1, <1>4, <2>2, HiddenStep
<1> QED BY <1>2, <1>3, <1>4

\* A crash leaves every answer that was fixed, and no new one.
LEMMA CrashRefines ==
  ASSUME IInv, Crash
  PROVE  UNCHANGED Api!vars
<1>1. \A s \in Requests : Stage(s)' = Stage(s)
  <2> TAKE s \in Requests
  <2>1. status' = status /\ pc'[s] = IF Running(s) THEN "lost" ELSE pc[s]
    BY DEF Crash
  <2> QED BY <2>1 DEF Running, Stage
<1>2. UNCHANGED <<rows, firstOwner, call, status, listed>>
  BY DEF Crash
<1> QED BY <1>1, <1>2 DEF Api!vars

\* The transactions of VaultStore, one statement at a time, implement the
\* atomic calls of VaultApi.
THEOREM StoreImplementsApi == Spec => Implements
<1>1. Init => Api!Init
  BY DEF Init, Api!Init, Stage, NoCall, Api!NoCall
<1>2. ASSUME IInv, [Next]_vars PROVE [Api!Next]_Api!vars
  <2> USE <1>2
  <2>1. ASSUME NEW r \in Requests, Begin(r) PROVE Api!Next
    BY <2>1, BeginCalls DEF Api!Next
  <2>2. ASSUME NEW r \in Requests, Invalid(r) PROVE Api!Next
    <3>1. Api!Answer(r, 400)
      BY <2>2, FinishAnswers DEF Invalid
    <3>2. Api!Invalid(r)
      BY <2>2, <3>1 DEF Invalid, Api!Invalid
    <3> QED BY <3>2 DEF Api!Next
  <2>3. ASSUME NEW r \in Requests, GetAll(r) PROVE Api!Next
    <3>1. Api!Answer(r, 200)
      BY <2>3, FinishAnswers DEF GetAll
    <3>2. Api!List(r)
      BY <2>3, <3>1 DEF GetAll, Api!List, FindByUserId, Api!Owned
    <3> QED BY <3>2 DEF Api!Next
  <2>4. ASSUME NEW r \in Requests, FindNothing(r) PROVE Api!Next
    <3>1. Api!Answer(r, 404)
      BY <2>4, FinishAnswers DEF FindNothing
    <3>2. Api!NotFound(r)
      BY <2>4, <3>1 DEF FindNothing, Found, FindByUserId, Api!NotFound, Api!Owned
    <3> QED BY <3>2 DEF Api!Next
  <2>5. ASSUME NEW r \in Requests, Reselect(r) PROVE [Api!Next]_Api!vars
    BY <2>5, ReselectRefines DEF Api!Next
  <2>6. ASSUME NEW r \in Requests, FlushStale(r) PROVE Api!Next
    BY <2>6, FlushStaleRefines DEF Api!Next
  <2>7. ASSUME NEW r \in Requests, CommitCreate(r) PROVE Api!Next
    BY <2>7, CommitCreateRefines DEF Api!Next
  <2>8. ASSUME NEW r \in Requests, CommitUpdate(r) PROVE Api!Next
    BY <2>8, CommitUpdateRefines DEF Api!Next
  <2>9. ASSUME NEW r \in Requests, CommitDelete(r) PROVE Api!Next
    BY <2>9, CommitDeleteRefines DEF Api!Next
  <2>10. ASSUME NEW r \in Requests, Respond(r) PROVE Api!Next
    BY <2>10, RespondReturns DEF Api!Next
  <2>11. ASSUME NEW r \in Requests,
                Insert(r) \/ Find(r) \/ Flush(r) \/ LoseAnswer(r)
         PROVE  UNCHANGED Api!vars
    BY <2>11, HiddenRefines
  <2>12. CASE UNCHANGED vars
    <3>1. \A s \in Requests : Stage(s)' = Stage(s)
      BY <2>12 DEF vars, Stage
    <3> QED BY <2>12, <3>1 DEF vars, Api!vars
  <2> QED BY <2>1, <2>2, <2>3, <2>4, <2>5, <2>6, <2>7, <2>8, <2>9, <2>10, <2>11,
        <2>12, CrashRefines DEF Next, Step, Done
<1> QED BY <1>1, <1>2, InductiveInvariant, PTL DEF Spec, Implements, Api!Spec

(***************************************************************************)
(* Progress                                                                *)
(***************************************************************************)

\* Whoever holds a row lock has flushed and has only its commit to do.
HolderInv ==
  \A i \in Ids : lock[i] # None =>
    /\ lock[i] \in Requests
    /\ pc[lock[i]] = "flushed"
    /\ call[lock[i]].op \in {"update", "delete"}
    /\ call[lock[i]].id = i

\* An UPDATE or a DELETE that waits, waits for a transaction that is about
\* to commit: there is no cycle of waiting transactions.
WaitsForCommit ==
  \A r \in Requests : pc[r] = "flushing" /\ ~RowFree(r) =>
    \E s \in Requests \ {r} :
      /\ lock[call[r].id] = s
      /\ pc[s] = "flushed"
      /\ call[s].op \in {"update", "delete"}

\* How many steps a request takes at most until it is over.
StepsLeft(p) ==
  CASE p = "begun"     -> 5
    [] p = "selecting" -> 4
    [] p = "flushing"  -> 3
    [] p = "flushed"   -> 2
    [] p = "finished"  -> 1
    [] OTHER           -> 0

\* No lock is held at first.
LEMMA InitHolder == Init => HolderInv
BY DEF Init, HolderInv

\* Locks are taken at the flush and given back at the commit or by a crash.
LEMMA NextHolder == IInv /\ HolderInv /\ [Next]_vars => HolderInv'
<1> SUFFICES ASSUME IInv, HolderInv, [Next]_vars PROVE HolderInv'
  OBVIOUS
<1> USE DEF HolderInv, IInv, TypeOK, Move, Finish, RowFree
<1>1. ASSUME NEW r \in Requests, Flush(r) PROVE HolderInv'
  <2>1. call[r] \in Calls /\ call[r].op \in {"update", "delete"}
    BY <1>1 DEF Flush, FoundInv
  <2>2. call[r].id \in Ids
    BY <2>1 DEF Calls
  <2> QED BY <1>1, <2>1, <2>2 DEF Flush
<1>2. ASSUME NEW r \in Requests, CommitUpdate(r) \/ CommitDelete(r)
      PROVE  HolderInv'
  <2>1. call[r] \in Calls /\ call[r].id \in Ids
    BY <1>2 DEF CommitUpdate, CommitDelete, Calls
  <2> QED BY <1>2, <2>1 DEF CommitUpdate, CommitDelete
<1>3. ASSUME NEW r \in Requests,
             Invalid(r) \/ GetAll(r) \/ Insert(r) \/ FindNothing(r) \/ Find(r)
      PROVE  HolderInv'
  BY <1>3 DEF Invalid, GetAll, Insert, FindNothing, Find
<1>4. ASSUME NEW r \in Requests,
             \/ Begin(r) \/ Reselect(r) \/ FlushStale(r) \/ CommitCreate(r)
             \/ Respond(r) \/ LoseAnswer(r)
      PROVE  HolderInv'
  BY <1>4 DEF Begin, Reselect, FlushStale, CommitCreate, Respond, LoseAnswer
<1>5. CASE Crash \/ UNCHANGED vars
  BY <1>5 DEF Crash, vars
<1> QED BY <1>1, <1>2, <1>3, <1>4, <1>5 DEF Next, Step, Done

\* No write waits for one that waits: row locks cannot deadlock, and a
\* waiter can go on as soon as one commit is done.
THEOREM NoCycleOfWaiters == Spec => []WaitsForCommit
<1>1. IInv /\ HolderInv => WaitsForCommit
  <2> SUFFICES ASSUME IInv, HolderInv, NEW r \in Requests,
                      pc[r] = "flushing", ~RowFree(r)
               PROVE  \E s \in Requests \ {r} :
                        /\ lock[call[r].id] = s
                        /\ pc[s] = "flushed"
                        /\ call[s].op \in {"update", "delete"}
    BY DEF WaitsForCommit
  <2>1. call[r].id \in Ids
    BY DEF IInv, TypeOK, FoundInv, Calls
  <2> QED BY <2>1 DEF HolderInv, RowFree
<1> QED BY <1>1, InitHolder, NextHolder, InductiveInvariant, PTL DEF Spec

\* Every step takes its request nearer to its end, whatever it finds, and
\* no step of another one sets it back: nothing is tried again.
THEOREM StepsRunOut ==
  Spec => [][\A r \in Requests : pc[r] # "idle" =>
               /\ StepsLeft(pc'[r]) <= StepsLeft(pc[r])
               /\ Step(r) => StepsLeft(pc'[r]) < StepsLeft(pc[r])]_vars
<1> DEFINE Nearer ==
      \A r \in Requests : pc[r] # "idle" =>
        /\ StepsLeft(pc'[r]) <= StepsLeft(pc[r])
        /\ Step(r) => StepsLeft(pc'[r]) < StepsLeft(pc[r])
<1>1. ASSUME IInv, NEW r \in Requests, Step(r)
      PROVE  /\ StepsLeft(pc'[r]) < StepsLeft(pc[r])
             /\ \A s \in Requests \ {r} : pc'[s] = pc[s]
  <2> USE <1>1 DEF IInv, TypeOK, PCs, Move, Finish, StepsLeft
  <2>1. CASE Invalid(r) \/ GetAll(r) \/ Insert(r) \/ FindNothing(r) \/ Find(r)
    BY <2>1 DEF Invalid, GetAll, Insert, FindNothing, Find
  <2>2. CASE Reselect(r) \/ Flush(r) \/ FlushStale(r)
    BY <2>2 DEF Reselect, Flush, FlushStale
  <2>3. CASE CommitCreate(r) \/ CommitUpdate(r) \/ CommitDelete(r) \/ Respond(r)
    BY <2>3 DEF CommitCreate, CommitUpdate, CommitDelete, Respond
  <2> QED BY <2>1, <2>2, <2>3 DEF Step
<1>2. ASSUME IInv, [Next]_vars PROVE [Nearer]_vars
  <2>1. \A p : StepsLeft(p) \in Nat
    BY DEF StepsLeft
  <2>2. ASSUME NEW r \in Requests, Step(r) PROVE Nearer
    BY <1>1, <1>2, <2>1, <2>2
  <2>3. ASSUME NEW r \in Requests, Begin(r) \/ LoseAnswer(r)
        PROVE  \A s \in Requests : pc[s] # "idle" =>
                 StepsLeft(pc'[s]) <= StepsLeft(pc[s])
    BY <1>2, <2>1, <2>3
    DEF Begin, LoseAnswer, Move, IInv, TypeOK, StepsLeft
  <2>4. CASE Crash
    <3>1. \A s \in Requests : StepsLeft(pc'[s]) <= StepsLeft(pc[s])
      BY <1>2, <2>1, <2>4 DEF Crash, Running, IInv, TypeOK, StepsLeft
    <3> QED BY <1>1, <1>2, <3>1
  <2>5. CASE Done
    BY <2>5 DEF Done
  <2>6. ASSUME NEW r \in Requests, Begin(r) \/ LoseAnswer(r) PROVE Nearer
    BY <1>1, <1>2, <2>3, <2>6
  <2> QED BY <1>2, <2>2, <2>4, <2>5, <2>6 DEF Next
<1> QED BY <1>2, InductiveInvariant, PTL DEF Spec

=============================================================================
