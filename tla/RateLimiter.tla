---------------------------- MODULE RateLimiter ----------------------------
(***************************************************************************)
(* RateLimitFilter.java: the sliding-window limiter in front of            *)
(* /api/auth/**.  Each request is a servlet thread.  The thread reads the  *)
(* clock, then runs the compute() lambda under the map's lock for its      *)
(* client address (drop the expired front, append its own timestamp), and  *)
(* only after the lock is released reads the size of the shared deque.     *)
(*                                                                         *)
(* What the deque of an address holds is what log, an append-only sequence *)
(* of the requests logged so far, has after the first polled ones.  How it *)
(* holds it is modelled too, because ArrayDeque.size() runs here without   *)
(* the lock and reads three fields: tail, head and elements.length.  The   *)
(* array is circular; addLast moves tail first, and only when it has run   *)
(* into head gives the deque a longer array and moves head.  The three     *)
(* reads are separate steps, in any order, and other threads may run       *)
(* between them.                                                           *)
(*                                                                         *)
(* tailSeen, headSeen, pos, loggedAt and decidedAt are history: no action  *)
(* reads them but to test whether a read was made.                         *)
(***************************************************************************)
EXTENDS Integers, Sequences, FiniteSets

CONSTANTS
  Requests,     \* the requests (one servlet thread each)
  Ips,          \* the client addresses
  Absent,       \* a header that is missing or blank; not an address
  MaxRequests,  \* app.rate-limit.auth-max-requests
  Window,       \* windowMs, in ticks
  Capacity,     \* elements.length of a new ArrayDeque (17 in JDK 17)
  MaxClock      \* bound: the last clock value of a behaviour

ASSUME RequestsAssumption == IsFiniteSet(Requests)
ASSUME AddressAssumption  == Absent \notin Ips
ASSUME NumbersAssumption  ==
  /\ MaxRequests \in Nat
  /\ Window \in Nat
  /\ Capacity \in Nat \ {0}
  /\ MaxClock \in Nat

VARIABLES
  clock,      \* System.currentTimeMillis()
  pc,         \* where each request is in doFilterInternal
  ip,         \* clientIp
  now,        \* the local variable now
  log,        \* every request ever appended to the deque of an address
  polled,     \* how many of them have been polled
  tail,       \* ArrayDeque.tail: the slot of the next append
  head,       \* ArrayDeque.head: the slot of the front
  length,     \* ArrayDeque.elements.length
  tailRead,   \* what the unlocked size() read of tail, NotRead before
  headRead,   \* what it read of head
  lengthRead, \* what it read of elements.length
  tailSeen,   \* history: how many had been logged when it read tail
  headSeen,   \* history: how many had been polled when it read head
  pos,        \* history: the position of the request in log
  loggedAt,   \* history: the clock when it was appended
  decidedAt   \* history: the clock when it was admitted or refused

deque   == <<log, polled, tail, head, length>>
reads   == <<tailRead, headRead, lengthRead, tailSeen, headSeen>>
history == <<pos, loggedAt, decidedAt>>

vars == <<clock, pc, ip, now, deque, reads, history>>

NotRead == -1

PCs == {"new", "bypassed", "arrived", "pruning", "growing",
        "logged", "admitted", "rejected"}

Init ==
  /\ clock = 0
  /\ pc = [r \in Requests |-> "new"]
  /\ ip = [r \in Requests |-> Absent]
  /\ now = [r \in Requests |-> 0]
  /\ log = [i \in Ips |-> <<>>]
  /\ polled = [i \in Ips |-> 0]
  /\ tail = [i \in Ips |-> 0]
  /\ head = [i \in Ips |-> 0]
  /\ length = [i \in Ips |-> Capacity]
  /\ tailRead = [r \in Requests |-> NotRead]
  /\ headRead = [r \in Requests |-> NotRead]
  /\ lengthRead = [r \in Requests |-> NotRead]
  /\ tailSeen = [r \in Requests |-> NotRead]
  /\ headSeen = [r \in Requests |-> NotRead]
  /\ pos = [r \in Requests |-> 0]
  /\ loggedAt = [r \in Requests |-> 0]
  /\ decidedAt = [r \in Requests |-> 0]

(***************************************************************************)
(* Helpers                                                                 *)
(***************************************************************************)

\* resolveClientIp: the first X-Forwarded-For address, else X-Real-IP, else
\* the peer of the connection.
ResolveClientIp(xff, xRealIp, remote) ==
  IF xff # Absent THEN xff ELSE IF xRealIp # Absent THEN xRealIp ELSE remote

\* Mutant: a front as old as the cutoff is dropped too.
FrontExpiredInclusive(r) ==
  /\ polled[ip[r]] < Len(log[ip[r]])
  /\ now[log[ip[r]][polled[ip[r]] + 1]] <= now[r] - Window

\* Mutant: nothing is ever pruned.
FrontExpiredNever(r) == FALSE

\* The test of the pruning loop: the deque is not empty and its front is
\* older than cutoff = now - windowMs.
FrontExpired(r) ==
  /\ polled[ip[r]] < Len(log[ip[r]])
  /\ now[log[ip[r]][polled[ip[r]] + 1]] < now[r] - Window

\* The request runs the lambda of compute(), under the lock of its address.
InCompute(r) == pc[r] \in {"pruning", "growing"}

\* ArrayDeque.inc: the next slot of a circular array of n slots.
Inc(x, n) == IF x + 1 = n THEN 0 ELSE x + 1

\* ArrayDeque.grow: the slots added to an array of n.
Jump(n) == IF n < 64 THEN n + 2 ELSE n \div 2

\* ArrayDeque.size() from the three fields it read: tail - head, corrected
\* by the length of the array when it is negative.
SizeOf(t, h, n) == IF t >= h THEN t - h ELSE t - h + n

(***************************************************************************)
(* The steps of a request                                                  *)
(***************************************************************************)

\* shouldNotFilter: not an /api/auth/ path, the filter is skipped.
Bypass(r) ==
  /\ pc[r] = "new"
  /\ pc' = [pc EXCEPT ![r] = "bypassed"]
  /\ UNCHANGED <<clock, ip, now, deque, reads, history>>

\* The address is resolved and the clock is read, both before the lock.
Arrive(r) ==
  /\ pc[r] = "new"
  /\ \E xff, xRealIp \in Ips \cup {Absent}, remote \in Ips :
        ip' = [ip EXCEPT ![r] = ResolveClientIp(xff, xRealIp, remote)]
  /\ now' = [now EXCEPT ![r] = clock]
  /\ pc' = [pc EXCEPT ![r] = "arrived"]
  /\ UNCHANGED <<clock, deque, reads, history>>

\* compute() locks the bin of the address.
EnterCompute(r) ==
  /\ pc[r] = "arrived"
  /\ \A s \in Requests : InCompute(s) => ip[s] # ip[r]
  /\ pc' = [pc EXCEPT ![r] = "pruning"]
  /\ UNCHANGED <<clock, ip, now, deque, reads, history>>

\* Mutant: the body looks at the front and leaves it (peekFirst).
PollFirstPeek(r) ==
  /\ pc[r] = "pruning"
  /\ FrontExpired(r)
  /\ UNCHANGED vars

\* The loop test finds an expired front and the body removes it; unlocked
\* readers see head move.
PollFirst(r) ==
  /\ pc[r] = "pruning"
  /\ FrontExpired(r)
  /\ polled' = [polled EXCEPT ![ip[r]] = @ + 1]
  /\ head' = [head EXCEPT ![ip[r]] = Inc(@, length[ip[r]])]
  /\ UNCHANGED <<clock, pc, ip, now, log, tail, length, reads, history>>

\* The loop ends and the request's own timestamp is appended: tail moves to
\* the next slot.  When that is the slot of head, the array is full and grows
\* before the lock is released; until then tail = head, the fields of an
\* empty deque, and unlocked readers see it.
AddLast(r) ==
  /\ pc[r] = "pruning"
  /\ ~FrontExpired(r)
  /\ log' = [log EXCEPT ![ip[r]] = Append(@, r)]
  /\ tail' = [tail EXCEPT ![ip[r]] = Inc(@, length[ip[r]])]
  /\ pc' = [pc EXCEPT ![r] =
              IF tail'[ip[r]] = head[ip[r]] THEN "growing" ELSE "logged"]
  /\ pos' = [pos EXCEPT ![r] = Len(log[ip[r]]) + 1]
  /\ loggedAt' = [loggedAt EXCEPT ![r] = clock]
  /\ UNCHANGED <<clock, ip, now, polled, head, length, reads, decidedAt>>

\* grow(): a longer array, the part from head on moved to its end.  The
\* array and head are two writes; unlocked reads come in any order, so a
\* reader sees no more of two steps than of one.
Grow(r) ==
  /\ pc[r] = "growing"
  /\ length' = [length EXCEPT ![ip[r]] = @ + Jump(@)]
  /\ head' = [head EXCEPT ![ip[r]] = @ + Jump(length[ip[r]])]
  /\ pc' = [pc EXCEPT ![r] = "logged"]
  /\ UNCHANGED <<clock, ip, now, log, polled, tail, reads, history>>

\* timestamps.size() outside the lock: the read of tail ...
ReadTail(r) ==
  /\ pc[r] = "logged"
  /\ tailRead[r] = NotRead
  /\ tailRead' = [tailRead EXCEPT ![r] = tail[ip[r]]]
  /\ tailSeen' = [tailSeen EXCEPT ![r] = Len(log[ip[r]])]
  /\ UNCHANGED <<clock, pc, ip, now, deque, headRead, lengthRead, headSeen,
                 history>>

\* ... the read of head ...
ReadHead(r) ==
  /\ pc[r] = "logged"
  /\ headRead[r] = NotRead
  /\ headRead' = [headRead EXCEPT ![r] = head[ip[r]]]
  /\ headSeen' = [headSeen EXCEPT ![r] = polled[ip[r]]]
  /\ UNCHANGED <<clock, pc, ip, now, deque, tailRead, lengthRead, tailSeen,
                 history>>

\* ... and the read of the array's length.
ReadLength(r) ==
  /\ pc[r] = "logged"
  /\ lengthRead[r] = NotRead
  /\ lengthRead' = [lengthRead EXCEPT ![r] = length[ip[r]]]
  /\ UNCHANGED <<clock, pc, ip, now, deque, tailRead, headRead, tailSeen,
                 headSeen, history>>

\* 429 when the size read exceeds the limit (the timestamp stays in the
\* log), chain.doFilter otherwise.
Decide(r) ==
  /\ pc[r] = "logged"
  /\ NotRead \notin {tailRead[r], headRead[r], lengthRead[r]}
  /\ pc' = [pc EXCEPT ![r] =
              IF SizeOf(tailRead[r], headRead[r], lengthRead[r]) > MaxRequests
              THEN "rejected" ELSE "admitted"]
  /\ decidedAt' = [decidedAt EXCEPT ![r] = clock]
  /\ UNCHANGED <<clock, ip, now, deque, reads, pos, loggedAt>>

\* Time passes.
Tick ==
  /\ clock < MaxClock
  /\ clock' = clock + 1
  /\ UNCHANGED <<pc, ip, now, deque, reads, history>>

Step(r) ==
  \/ EnterCompute(r)
  \/ PollFirst(r)
  \/ AddLast(r)
  \/ Grow(r)
  \/ ReadTail(r)
  \/ ReadHead(r)
  \/ ReadLength(r)
  \/ Decide(r)

\* Every request was answered: the behaviour may stop here and nowhere else.
Done ==
  /\ \A r \in Requests : pc[r] \in {"bypassed", "admitted", "rejected"}
  /\ UNCHANGED vars

Next ==
  \/ \E r \in Requests : Bypass(r) \/ Arrive(r) \/ Step(r)
  \/ Tick
  \/ Done

Spec == Init /\ [][Next]_vars

\* A running thread is scheduled eventually; nothing makes a request arrive.
FairSpec == Spec /\ \A r \in Requests : WF_vars(Step(r))

(***************************************************************************)
(* Properties                                                              *)
(***************************************************************************)

\* The types of the filter's state; no empty deque is polled.
TypeOK ==
  /\ clock \in Nat
  /\ pc \in [Requests -> PCs]
  /\ ip \in [Requests -> Ips \cup {Absent}]
  /\ \A r \in Requests : pc[r] \notin {"new", "bypassed"} => ip[r] \in Ips
  /\ now \in [Requests -> Nat]
  /\ log \in [Ips -> Seq(Requests)]
  /\ polled \in [Ips -> Nat]
  /\ \A i \in Ips : polled[i] <= Len(log[i])
  /\ tail \in [Ips -> Nat]
  /\ head \in [Ips -> Nat]
  /\ length \in [Ips -> Nat]
  /\ tailRead \in [Requests -> Nat \cup {NotRead}]
  /\ headRead \in [Requests -> Nat \cup {NotRead}]
  /\ lengthRead \in [Requests -> Nat \cup {NotRead}]
  /\ tailSeen \in [Requests -> Nat \cup {NotRead}]
  /\ headSeen \in [Requests -> Nat \cup {NotRead}]
  /\ pos \in [Requests -> Nat]
  /\ loggedAt \in [Requests -> Nat]
  /\ decidedAt \in [Requests -> Nat]

Admitted(i) == {r \in Requests : pc[r] = "admitted" /\ ip[r] = i}

\* The requests of S arrived and were decided within one window: no member
\* was decided later than Window after the arrival of another.
WithinOneWindow(S) == \A x, y \in S : decidedAt[y] - now[x] <= Window

\* The requests of the address of r that were logged from one window before
\* r arrived until r was decided, r among them.
LoggedAround(r) ==
  {s \in Requests :
     /\ pc[s] \in {"growing", "logged", "admitted", "rejected"}
     /\ ip[s] = ip[r]
     /\ loggedAt[s] >= now[r] - Window
     /\ loggedAt[s] <= decidedAt[r]}

\* What the limiter does guarantee, in spite of the timestamp taken before
\* the lock and the size read after it: of the requests of one address that
\* both arrive and are decided inside one window, at most MaxRequests pass,
\* as long as fewer than Capacity requests of it were logged around each of
\* them.  Refused requests are logged too: with Capacity of them in a window
\* the array fills up, a size() that reads between addLast's move of tail and
\* the growth sees an empty deque, and more than MaxRequests pass.
WindowBound ==
  \A i \in Ips : \A S \in SUBSET Admitted(i) :
     /\ WithinOneWindow(S)
     /\ \A r \in S : Cardinality(LoggedAround(r)) < Capacity
     => Cardinality(S) <= MaxRequests

\* The dual: a request that is decided within a window of its arrival gets
\* 429 only when more than MaxRequests requests of its own address were
\* logged in the window before it (refused ones count, as in the code),
\* whatever the growth of the array did to the size it read.
RejectionJustified ==
  \A r \in Requests :
     /\ pc[r] = "rejected"
     /\ decidedAt[r] - now[r] <= Window
     => Cardinality(LoggedAround(r)) > MaxRequests

\* RateLimitFilter.java:26 and INTERVIEW_PREP.md: at most maxRequests
\* requests per window, whatever the interleaving.  The code does not
\* guarantee it: a request may read the size after a later request of the
\* address has polled the entries that were in its own window, or while the
\* full array of the deque grows.
DocumentedLimit ==
  \A i \in Ips : \A S \in SUBSET Admitted(i) :
     (\A x, y \in S : now[y] - now[x] < Window) => Cardinality(S) <= MaxRequests

\* Every request that reached the filter is answered, admitted or refused:
\* again and again none is left in it.  No thread waits for the lock of an
\* address, or prunes, for ever.
Answered ==
  []<>(\A r \in Requests : pc[r] \in {"new", "bypassed", "admitted", "rejected"})

=============================================================================
