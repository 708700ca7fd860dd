-------------------------- MODULE RateLimiterProofs --------------------------
(***************************************************************************)
(* Proofs about RateLimiter, for every number of requests and addresses,   *)
(* every limit, every window and every size of a new deque.                *)
(***************************************************************************)
EXTENDS RateLimiter, FiniteSetTheorems, WellFoundedInduction, TLAPS

(***************************************************************************)
(* The inductive invariant                                                 *)
(***************************************************************************)

Logged(r)  == pc[r] \in {"growing", "logged", "admitted", "rejected"}
Decided(r) == pc[r] \in {"admitted", "rejected"}

\* No recorded time is in the future, and nothing is logged before it arrived.
TimesInv ==
  \A r \in Requests :
    /\ now[r] <= clock
    /\ loggedAt[r] <= clock
    /\ decidedAt[r] <= clock
    /\ Logged(r) => now[r] <= loggedAt[r]

\* compute() runs for one request of an address at a time.
LockInv ==
  \A r, s \in Requests :
    InCompute(r) /\ InCompute(s) /\ ip[r] = ip[s] => r = s

\* log and pos are inverse, and the log of an address is in the order of time.
LogInv ==
  /\ \A i \in Ips : \A p \in 1..Len(log[i]) :
       /\ Logged(log[i][p])
       /\ ip[log[i][p]] = i
       /\ pos[log[i][p]] = p
  /\ \A r \in Requests : Logged(r) =>
       /\ pos[r] \in 1..Len(log[ip[r]])
       /\ log[ip[r]][pos[r]] = r
  /\ \A i \in Ips : \A p, q \in 1..Len(log[i]) :
       p <= q => loggedAt[log[i][p]] <= loggedAt[log[i][q]]

\* Whatever has been polled is older than a window.
PolledInv ==
  \A i \in Ips : \A p \in 1..polled[i] : now[log[i][p]] + Window < clock

\* The positions of the log that the unlocked reads stand for.
ReadInv ==
  \A r \in Requests :
    /\ tailRead[r] = NotRead <=> tailSeen[r] = NotRead
    /\ headRead[r] = NotRead <=> headSeen[r] = NotRead
    /\ pc[r] # "logged" /\ ~Decided(r) =>
         /\ tailRead[r] = NotRead
         /\ headRead[r] = NotRead
         /\ lengthRead[r] = NotRead
    /\ Decided(r) => NotRead \notin {tailRead[r], headRead[r], lengthRead[r]}
    /\ tailSeen[r] # NotRead =>
         pos[r] <= tailSeen[r] /\ tailSeen[r] <= Len(log[ip[r]])
    /\ headSeen[r] # NotRead => headSeen[r] <= polled[ip[r]]

\* The first position that the size read by r counts, or would count now.
From(r) == IF headSeen[r] = NotRead THEN polled[ip[r]] ELSE headSeen[r]

\* No position that r counts was logged before the window of r.
CountedInv ==
  \A r \in Requests : Logged(r) =>
    \A p \in 1..Len(log[ip[r]]) :
      p > From(r) => loggedAt[log[ip[r]][p]] >= now[r] - Window

\* What a decision was based on.
DecisionInv ==
  \A r \in Requests : Decided(r) =>
    /\ \A p \in 1..headSeen[r] :
         now[log[ip[r]][p]] + Window < decidedAt[r]
    /\ \A p \in 1..tailSeen[r] : loggedAt[log[ip[r]][p]] <= decidedAt[r]
    /\ pc[r] = "admitted" <=>
         SizeOf(tailRead[r], headRead[r], lengthRead[r]) <= MaxRequests

IInv ==
  /\ TypeOK
  /\ TimesInv
  /\ LockInv
  /\ LogInv
  /\ PolledInv
  /\ ReadInv
  /\ CountedInv
  /\ DecisionInv

USE NumbersAssumption, AddressAssumption

\* What is in the log of an address is a request.
LEMMA LogType ==
  ASSUME TypeOK
  PROVE  \A i \in Ips :
           /\ log[i] \in Seq(Requests)
           /\ Len(log[i]) \in Nat
           /\ \A p \in 1..Len(log[i]) : log[i][p] \in Requests
BY DEF TypeOK

\* Nobody has arrived: the logs are empty.
LEMMA InitInv == Init => IInv
<1> SUFFICES ASSUME Init PROVE IInv
  OBVIOUS
<1>1. TypeOK
  BY DEF Init, TypeOK, PCs, NotRead
<1>2. TimesInv
  BY DEF Init, TimesInv, Logged
<1>3. LockInv
  BY DEF Init, LockInv, InCompute
<1>4. LogInv
  BY DEF Init, LogInv, Logged
<1>5. PolledInv
  BY DEF Init, PolledInv
<1>6. ReadInv
  BY DEF Init, ReadInv, Logged, Decided, NotRead
<1>7. CountedInv /\ DecisionInv
  BY DEF Init, CountedInv, DecisionInv, Logged, Decided
<1> QED BY <1>1, <1>2, <1>3, <1>4, <1>5, <1>6, <1>7 DEF IInv

\* The positions a decision was based on are positions of the log.
LEMMA SeenInLog ==
  ASSUME TypeOK, ReadInv, NEW s \in Requests, Decided(s)
  PROVE  /\ ip[s] \in Ips
         /\ tailSeen[s] \in Nat
         /\ headSeen[s] \in Nat
         /\ 1..headSeen[s] \subseteq 1..Len(log[ip[s]])
         /\ 1..tailSeen[s] \subseteq 1..Len(log[ip[s]])
<1>1. /\ ip[s] \in Ips
      /\ tailSeen[s] # NotRead /\ tailSeen[s] \in Nat
      /\ headSeen[s] # NotRead /\ headSeen[s] \in Nat
  BY DEF TypeOK, ReadInv, Decided
<1>2. Len(log[ip[s]]) \in Nat /\ polled[ip[s]] \in Nat /\ polled[ip[s]] <= Len(log[ip[s]])
  BY <1>1, LogType DEF TypeOK
<1>3. headSeen[s] <= polled[ip[s]] /\ tailSeen[s] <= Len(log[ip[s]])
  BY <1>1 DEF ReadInv
<1> QED BY <1>1, <1>2, <1>3

(***************************************************************************)
(* The steps that leave the log, the clock and the reads alone             *)
(***************************************************************************)

\* A step of r that is not logged before or after it and that changes only
\* its pc: all but the lock part of the invariant carries over.
LEMMA QuietStep ==
  ASSUME IInv, NEW r \in Requests, ~Logged(r),
         NEW v \in PCs, v \notin {"growing", "logged", "admitted", "rejected"},
         v \in {"new", "bypassed"} \/ ip[r] \in Ips,
         pc' = [pc EXCEPT ![r] = v],
         UNCHANGED <<clock, ip, now, deque, reads, history>>
  PROVE  TypeOK' /\ TimesInv' /\ LogInv' /\ PolledInv' /\ ReadInv'
         /\ CountedInv' /\ DecisionInv'
<1> USE DEF IInv, deque, reads, history
<1>1. \A s \in Requests : /\ Logged(s)' <=> Logged(s)
                          /\ Decided(s)' <=> Decided(s)
                          /\ pc'[s] = "logged" <=> pc[s] = "logged"
  BY DEF TypeOK, Logged, Decided
<1>2. \A s \in Requests : Decided(s) => pc'[s] = pc[s]
  BY DEF TypeOK, Logged, Decided
<1>3. TypeOK'
  BY DEF TypeOK
<1>4. TimesInv'
  BY <1>1 DEF TimesInv
<1>5. LogInv'
  BY <1>1, LogType DEF LogInv
<1>6. PolledInv'
  BY DEF PolledInv
<1>7. ReadInv'
  BY <1>1 DEF ReadInv
<1>8. CountedInv'
  BY <1>1 DEF CountedInv, From
<1>9. DecisionInv'
  BY <1>1, <1>2 DEF DecisionInv
<1> QED BY <1>3, <1>4, <1>5, <1>6, <1>7, <1>8, <1>9

\* A request outside /api/auth/ passes by.
LEMMA BypassInv ==
  ASSUME IInv, NEW r \in Requests, Bypass(r)
  PROVE  IInv'
<1>1. TypeOK' /\ TimesInv' /\ LogInv' /\ PolledInv' /\ ReadInv'
      /\ CountedInv' /\ DecisionInv'
  BY QuietStep DEF Bypass, Logged, PCs
<1>2. LockInv'
  BY DEF IInv, Bypass, TypeOK, LockInv, InCompute
<1> QED BY <1>1, <1>2 DEF IInv

\* A request takes the lock of its address.
LEMMA EnterComputeInv ==
  ASSUME IInv, NEW r \in Requests, EnterCompute(r)
  PROVE  IInv'
<1>1. TypeOK' /\ TimesInv' /\ LogInv' /\ PolledInv' /\ ReadInv'
      /\ CountedInv' /\ DecisionInv'
  BY QuietStep DEF IInv, TypeOK, EnterCompute, Logged, PCs
<1>2. LockInv'
  BY DEF IInv, EnterCompute, TypeOK, LockInv, InCompute
<1> QED BY <1>1, <1>2 DEF IInv

(***************************************************************************)
(* Arrival: the address and the timestamp of a request not in any log      *)
(***************************************************************************)

\* A request arrives.
LEMMA ArriveInv ==
  ASSUME IInv, NEW r \in Requests, Arrive(r)
  PROVE  IInv'
<1> USE DEF IInv
<1>1. /\ ~Logged(r) /\ ~InCompute(r)
      /\ pc' = [pc EXCEPT ![r] = "arrived"]
      /\ now' = [now EXCEPT ![r] = clock]
      /\ UNCHANGED <<clock, log, polled, tail, head, length, tailRead, headRead,
                     lengthRead, tailSeen, headSeen, pos, loggedAt, decidedAt>>
  BY DEF Arrive, Logged, InCompute, deque, reads, history
<1>2. PICK a \in Ips : ip' = [ip EXCEPT ![r] = a]
  BY DEF Arrive, ResolveClientIp
<1>3. \A s \in Requests \ {r} : pc'[s] = pc[s] /\ now'[s] = now[s] /\ ip'[s] = ip[s]
  BY <1>1, <1>2 DEF TypeOK
<1>4. ~Logged(r)' /\ ~InCompute(r)' /\ ~Decided(r)' /\ pc'[r] # "logged"
  BY <1>1 DEF TypeOK, Logged, InCompute, Decided
<1>5. \A i \in Ips : \A p \in 1..Len(log[i]) :
        log[i][p] \in Requests \ {r} /\ log'[i][p] = log[i][p]
  BY <1>1, LogType DEF LogInv
<1>6. \A s \in Requests \ {r} :
        (Logged(s)' <=> Logged(s)) /\ (Decided(s)' <=> Decided(s))
  BY <1>3 DEF Logged, Decided
<1>7. TypeOK'
  BY <1>1, <1>2, <1>3 DEF TypeOK, PCs
<1>8. TimesInv'
  BY <1>1, <1>3, <1>4, <1>6 DEF TimesInv, TypeOK
<1>9. LockInv'
  BY <1>3, <1>4 DEF LockInv, InCompute
<1>10. LogInv'
  <2>1. \A i \in Ips : \A p \in 1..Len(log[i]) :
          /\ Logged(log[i][p])'
          /\ ip'[log[i][p]] = i
          /\ pos[log[i][p]] = p
    BY <1>3, <1>5, <1>6 DEF LogInv
  <2>2. \A s \in Requests : Logged(s)' =>
          /\ pos[s] \in 1..Len(log[ip'[s]])
          /\ log[ip'[s]][pos[s]] = s
    <3> SUFFICES ASSUME NEW s \in Requests, Logged(s)'
                 PROVE  /\ pos[s] \in 1..Len(log[ip'[s]])
                        /\ log[ip'[s]][pos[s]] = s
      OBVIOUS
    <3>1. s # r /\ Logged(s) /\ ip'[s] = ip[s]
      BY <1>3, <1>4, <1>6
    <3> QED BY <3>1 DEF LogInv
  <2>3. \A i \in Ips : \A p, q \in 1..Len(log[i]) :
          p <= q => loggedAt[log[i][p]] <= loggedAt[log[i][q]]
    BY DEF LogInv
  <2>4. log' = log /\ pos' = pos /\ loggedAt' = loggedAt
    BY <1>1
  <2> HIDE DEF IInv
  <2> QED BY <2>1, <2>2, <2>3, <2>4 DEF LogInv
<1>11. PolledInv'
  <2> SUFFICES ASSUME NEW i \in Ips, NEW p \in 1..polled[i]
               PROVE  now'[log[i][p]] + Window < clock
    BY <1>1 DEF PolledInv
  <2>1. p \in 1..Len(log[i])
    BY LogType DEF TypeOK
  <2> QED BY <2>1, <1>3, <1>5 DEF PolledInv
<1>12. ReadInv'
  <2>1. pc[r] # "logged" /\ ~Decided(r)
    BY <1>1 DEF Logged, Decided
  <2>2. tailSeen[r] = NotRead /\ headSeen[r] = NotRead
    BY <2>1 DEF ReadInv
  <2> QED BY <1>1, <1>3, <1>4, <1>6, <2>1, <2>2 DEF ReadInv
<1>13. CountedInv'
  BY <1>1, <1>3, <1>4, <1>5, <1>6 DEF CountedInv, From
<1>14. DecisionInv'
  <2> SUFFICES ASSUME NEW s \in Requests \ {r}, Decided(s)
               PROVE  \A p \in 1..headSeen[s] :
                        now'[log[ip[s]][p]] + Window < decidedAt[s]
    BY <1>1, <1>3, <1>4, <1>6 DEF DecisionInv
  <2> TAKE p \in 1..headSeen[s]
  <2>1. ip[s] \in Ips /\ p \in 1..Len(log[ip[s]])
    BY SeenInLog
  <2> QED BY <2>1, <1>3, <1>5 DEF DecisionInv
<1> QED BY <1>7, <1>8, <1>9, <1>10, <1>11, <1>12, <1>13, <1>14

(***************************************************************************)
(* Inside compute()                                                        *)
(***************************************************************************)

\* The front is dropped.
LEMMA PollFirstInv ==
  ASSUME IInv, NEW r \in Requests, PollFirst(r)
  PROVE  IInv'
<1> USE DEF IInv, reads, history
<1>1. /\ pc[r] = "pruning" /\ FrontExpired(r) /\ ip[r] \in Ips
      /\ polled' = [polled EXCEPT ![ip[r]] = @ + 1]
      /\ head' = [head EXCEPT ![ip[r]] = Inc(@, length[ip[r]])]
      /\ UNCHANGED <<clock, pc, ip, now, log, tail, length, reads, history>>
  BY DEF PollFirst, TypeOK
<1>2. \A s \in Requests : /\ Logged(s)' <=> Logged(s)
                          /\ Decided(s)' <=> Decided(s)
                          /\ InCompute(s)' <=> InCompute(s)
  BY <1>1 DEF Logged, Decided, InCompute
<1>3. /\ polled'[ip[r]] = polled[ip[r]] + 1
      /\ polled[ip[r]] + 1 <= Len(log[ip[r]])
      /\ \A i \in Ips : i # ip[r] => polled'[i] = polled[i]
      /\ \A i \in Ips : polled[i] \in Nat /\ polled'[i] \in Nat /\ polled[i] <= polled'[i]
  <2>1. \A i \in Ips : polled[i] \in Nat /\ Len(log[i]) \in Nat
    BY LogType DEF TypeOK
  <2>2. polled'[ip[r]] = polled[ip[r]] + 1 /\ \A i \in Ips : i # ip[r] => polled'[i] = polled[i]
    BY <1>1 DEF TypeOK
  <2> QED BY <1>1, <2>1, <2>2 DEF FrontExpired
<1>4. TypeOK'
  <2>1. \A i \in Ips : polled'[i] <= Len(log[i])
    BY <1>3 DEF TypeOK
  <2>2. polled' \in [Ips -> Nat]
    BY <1>1, <1>3 DEF TypeOK
  <2>3. head' \in [Ips -> Nat]
    BY <1>1 DEF TypeOK, Inc
  <2> QED BY <1>1, <2>1, <2>2, <2>3 DEF TypeOK
<1>5. TimesInv'
  BY <1>1, <1>2 DEF TimesInv
<1>6. LockInv'
  BY <1>1, <1>2 DEF LockInv
<1>7. LogInv'
  BY <1>1, <1>2, LogType DEF LogInv
<1>8. PolledInv'
  <2> SUFFICES ASSUME NEW i \in Ips, NEW p \in 1..polled'[i]
               PROVE  now[log[i][p]] + Window < clock
    BY <1>1 DEF PolledInv
  <2>1. CASE p \in 1..polled[i]
    BY <2>1 DEF PolledInv
  <2>2. CASE p \notin 1..polled[i]
    <3>1. i = ip[r] /\ p = polled[ip[r]] + 1
      BY <1>3, <2>2
    <3>2. log[i][p] \in Requests
      BY <1>3, <3>1, LogType
    <3>3. now[log[i][p]] < now[r] - Window
      BY <1>1, <3>1 DEF FrontExpired
    <3>4. now[log[i][p]] \in Nat /\ now[r] \in Nat /\ clock \in Nat /\ now[r] <= clock
      BY <3>2 DEF TimesInv, TypeOK
    <3> QED BY <3>3, <3>4
  <2> QED BY <2>1, <2>2
<1>9. ReadInv'
  <2> SUFFICES ASSUME NEW s \in Requests, headSeen[s] # NotRead
               PROVE  headSeen[s] <= polled'[ip[s]]
    BY <1>1, <1>2 DEF ReadInv
  <2>1. ip[s] \in Ips /\ headSeen[s] \in Nat
    BY DEF TypeOK, ReadInv, Decided
  <2>2. headSeen[s] <= polled[ip[s]]
    BY DEF ReadInv
  <2> QED BY <1>3, <2>1, <2>2
<1>10. CountedInv'
  <2> SUFFICES ASSUME NEW s \in Requests, Logged(s),
                      NEW p \in 1..Len(log[ip[s]]), p > From(s)'
               PROVE  loggedAt[log[ip[s]][p]] >= now[s] - Window
    BY <1>1, <1>2 DEF CountedInv
  <2>1. ip[s] \in Ips
    BY DEF TypeOK, Logged
  <2>2. p > From(s)
    BY <1>1, <1>3, <2>1, LogType DEF From
  <2> QED BY <2>2 DEF CountedInv
<1>11. DecisionInv'
  BY <1>1, <1>2 DEF DecisionInv
<1> QED BY <1>4, <1>5, <1>6, <1>7, <1>8, <1>9, <1>10, <1>11

\* The timestamp is appended.
LEMMA AddLastInv ==
  ASSUME IInv, NEW r \in Requests, AddLast(r)
  PROVE  IInv'
<1> USE DEF IInv, reads
<1> DEFINE a == ip[r]
           n == Len(log[a])
           v == IF tail'[a] = head[a] THEN "growing" ELSE "logged"
<1>1. /\ a \in Ips /\ n \in Nat /\ ~Logged(r) /\ InCompute(r) /\ ~FrontExpired(r)
      /\ pc' = [pc EXCEPT ![r] = v]
      /\ log' = [log EXCEPT ![a] = Append(log[a], r)]
      /\ tail' = [tail EXCEPT ![a] = Inc(@, length[a])]
      /\ pos' = [pos EXCEPT ![r] = n + 1]
      /\ loggedAt' = [loggedAt EXCEPT ![r] = clock]
      /\ UNCHANGED <<clock, ip, now, polled, head, length, reads, decidedAt>>
  BY LogType DEF AddLast, TypeOK, Logged, InCompute
<1>2. /\ pc'[r] \in {"growing", "logged"} /\ pos'[r] = n + 1 /\ loggedAt'[r] = clock
      /\ \A s \in Requests \ {r} :
           pc'[s] = pc[s] /\ pos'[s] = pos[s] /\ loggedAt'[s] = loggedAt[s]
  BY <1>1 DEF TypeOK
<1>3. /\ log' \in [Ips -> Seq(Requests)]
      /\ Len(log'[a]) = n + 1
      /\ log'[a][n + 1] = r
      /\ \A p \in 1..n : log'[a][p] = log[a][p]
      /\ \A i \in Ips \ {a} : log'[i] = log[i]
  BY <1>1, LogType DEF TypeOK
<1>4. \A i \in Ips : \A p \in 1..Len(log'[i]) :
        \/ p \in 1..Len(log[i]) /\ log'[i][p] = log[i][p]
        \/ i = a /\ p = n + 1 /\ log'[i][p] = r
  BY <1>1, <1>3, LogType
<1>5. \A i \in Ips : /\ Len(log'[i]) \in Nat
                     /\ Len(log[i]) \in Nat
                     /\ Len(log[i]) <= Len(log'[i])
                     /\ \A p \in 1..Len(log[i]) : log'[i][p] = log[i][p]
  BY <1>1, <1>3, LogType
<1>6. \A i \in Ips : \A p \in 1..Len(log[i]) : log[i][p] \in Requests \ {r}
  BY <1>1, LogType DEF LogInv
<1>7. \A s \in Requests \ {r} : /\ Logged(s)' <=> Logged(s)
                                /\ Decided(s)' <=> Decided(s)
                                /\ InCompute(s)' <=> InCompute(s)
  BY <1>2 DEF Logged, Decided, InCompute
<1>8. Logged(r)' /\ ~Decided(r)' /\ ip'[r] = a
  BY <1>1, <1>2 DEF Logged, Decided
<1>9. /\ tailRead[r] = NotRead /\ headRead[r] = NotRead /\ lengthRead[r] = NotRead
      /\ tailSeen[r] = NotRead /\ headSeen[r] = NotRead
      /\ now[r] <= clock /\ now[r] \in Nat /\ clock \in Nat
  BY <1>1 DEF ReadInv, TimesInv, TypeOK, Logged, Decided
<1>10. TypeOK'
  <2>1. \A i \in Ips : polled'[i] <= Len(log'[i])
    BY <1>1, <1>5 DEF TypeOK
  <2>2. tail' \in [Ips -> Nat]
    BY <1>1 DEF TypeOK, Inc
  <2>3. pc' \in [Requests -> PCs] /\ pos' \in [Requests -> Nat]
    BY <1>1 DEF TypeOK, PCs
  <2>4. \A s \in Requests : pc'[s] \notin {"new", "bypassed"} => ip[s] \in Ips
    BY <1>1, <1>2 DEF TypeOK
  <2> QED BY <1>1, <1>2, <1>3, <2>1, <2>2, <2>3, <2>4 DEF TypeOK
<1>11. TimesInv'
  BY <1>1, <1>2, <1>7, <1>9 DEF TimesInv, TypeOK
<1>12. LockInv'
  BY <1>1, <1>7 DEF LockInv
<1>13. LogInv'
  <2>1. ASSUME NEW i \in Ips, NEW p \in 1..Len(log'[i])
        PROVE  Logged(log[i][p])' /\ ip'[log'[i][p]] = i /\ pos'[log'[i][p]] = p
    <3>1. CASE p \in 1..Len(log[i]) /\ log'[i][p] = log[i][p]
      <4>1. log[i][p] \in Requests \ {r}
        BY <3>1, <1>6
      <4>2. Logged(log[i][p]) /\ ip[log[i][p]] = i /\ pos[log[i][p]] = p
        BY <3>1 DEF LogInv
      <4> QED BY <1>1, <1>2, <3>1, <4>1, <4>2 DEF Logged
    <3>2. CASE i = a /\ p = n + 1 /\ log'[i][p] = r
      BY <3>2, <1>2, <1>8 DEF Logged
    <3> QED BY <3>1, <3>2, <1>4
  <2>2. ASSUME NEW s \in Requests, Logged(s)'
        PROVE  pos'[s] \in 1..Len(log'[ip'[s]]) /\ log'[ip'[s]][pos'[s]] = s
    <3>1. CASE s = r
      BY <3>1, <1>1, <1>2, <1>3
    <3>2. CASE s # r
      <4>1. ip[s] \in Ips /\ pos[s] \in 1..Len(log[ip[s]]) /\ log[ip[s]][pos[s]] = s
        BY <2>2, <3>2, <1>7 DEF LogInv, Logged, TypeOK
      <4> QED BY <1>1, <1>2, <1>5, <3>2, <4>1
    <3> QED BY <3>1, <3>2
  <2>3. ASSUME NEW i \in Ips, NEW p \in 1..Len(log'[i]),
               NEW q \in 1..Len(log'[i]), p <= q
        PROVE  loggedAt'[log'[i][p]] <= loggedAt'[log'[i][q]]
    <3>1. CASE q \in 1..Len(log[i]) /\ log'[i][q] = log[i][q]
      <4>1. p \in 1..Len(log[i]) /\ log'[i][p] = log[i][p]
        BY <3>1, <2>3, <1>5
      <4>2. loggedAt[log[i][p]] <= loggedAt[log[i][q]]
        BY <3>1, <4>1, <2>3 DEF LogInv
      <4>3. log[i][p] \in Requests \ {r} /\ log[i][q] \in Requests \ {r}
        BY <3>1, <4>1, <1>6
      <4> QED BY <1>2, <3>1, <4>1, <4>2, <4>3
    <3>2. CASE i = a /\ q = n + 1 /\ log'[i][q] = r
      <4>1. log'[i][p] \in Requests
        BY <1>4, <1>6
      <4>2. loggedAt'[log'[i][p]] <= clock
        BY <4>1, <1>1, <1>11 DEF TimesInv
      <4> QED BY <3>2, <4>2, <1>2
    <3> QED BY <3>1, <3>2, <1>4
  <2> QED BY <2>1, <2>2, <2>3 DEF LogInv
<1>14. PolledInv'
  <2> SUFFICES ASSUME NEW i \in Ips, NEW p \in 1..polled[i]
               PROVE  now[log'[i][p]] + Window < clock
    BY <1>1 DEF PolledInv
  <2>1. p \in 1..Len(log[i])
    BY LogType DEF TypeOK
  <2>2. log'[i][p] = log[i][p]
    BY <2>1, <1>5
  <2> QED BY <2>2 DEF PolledInv
<1>15. ReadInv'
  <2> SUFFICES ASSUME NEW s \in Requests \ {r}, tailSeen[s] # NotRead
               PROVE  pos[s] <= tailSeen[s] /\ tailSeen[s] <= Len(log'[ip[s]])
    BY <1>1, <1>2, <1>7, <1>8, <1>9 DEF ReadInv
  <2>1. ip[s] \in Ips /\ tailSeen[s] \in Nat
    BY DEF TypeOK, ReadInv, Decided
  <2> QED BY <2>1, <1>5 DEF ReadInv
<1>16. CountedInv'
  <2> SUFFICES ASSUME NEW s \in Requests, Logged(s)',
                      NEW p \in 1..Len(log'[ip[s]]), p > From(s)
               PROVE  loggedAt'[log'[ip[s]][p]] >= now[s] - Window
    BY <1>1 DEF CountedInv, From
  <2>1. ip[s] \in Ips /\ now[s] \in Nat /\ now[s] <= clock
    BY <1>10, <1>1 DEF TypeOK, Logged, TimesInv
  <2>2. CASE log'[ip[s]][p] = r
    BY <2>1, <2>2, <1>2, <1>9
  <2>3. CASE /\ p \in 1..Len(log[ip[s]]) /\ log'[ip[s]][p] = log[ip[s]][p]
             /\ s # r
    <3>1. loggedAt[log[ip[s]][p]] >= now[s] - Window
      BY <2>3, <1>7 DEF CountedInv
    <3> QED BY <3>1, <2>1, <2>3, <1>2, <1>6
  <2>4. CASE /\ p \in 1..Len(log[ip[s]]) /\ log'[ip[s]][p] = log[ip[s]][p]
             /\ s = r
    <3> DEFINE f == polled[a] + 1
    <3>0. polled[a] \in Nat /\ p > polled[a] /\ p \in 1..n
      BY <2>4, <1>1, <1>9 DEF From, TypeOK
    <3>1. f \in 1..n /\ f <= p /\ p \in 1..n
      BY <3>0, <1>1
    <3>2. log[a][f] \in Requests \ {r} /\ log[a][p] \in Requests \ {r}
      BY <3>1, <1>1, <1>6
    <3>3. now[log[a][f]] >= now[r] - Window
      <4>1. polled[a] < n
        BY <3>0, <3>1, <1>1
      <4>2. now[log[a][f]] \in Nat
        BY <3>2 DEF TypeOK
      <4> QED BY <4>1, <4>2, <1>1, <1>9 DEF FrontExpired
    <3>4. loggedAt[log[a][f]] >= now[log[a][f]]
      BY <3>1, <3>2, <1>1 DEF LogInv, TimesInv
    <3>5. loggedAt[log[a][f]] <= loggedAt[log[a][p]]
      BY <3>1, <1>1 DEF LogInv
    <3>6. loggedAt'[log'[ip[s]][p]] = loggedAt[log[a][p]]
      BY <2>4, <3>2, <1>2
    <3>7. /\ now[log[a][f]] \in Nat
          /\ loggedAt[log[a][f]] \in Nat /\ loggedAt[log[a][p]] \in Nat
      BY <3>2 DEF TypeOK
    <3> QED BY <2>4, <3>3, <3>4, <3>5, <3>6, <3>7, <1>9, SMTT(30)
  <2> QED BY <2>1, <2>2, <2>3, <2>4, <1>4
<1>17. DecisionInv'
  <2> SUFFICES ASSUME NEW s \in Requests \ {r}, Decided(s)
               PROVE  /\ \A p \in 1..headSeen[s] :
                           now[log'[ip[s]][p]] + Window < decidedAt[s]
                      /\ \A p \in 1..tailSeen[s] :
                           loggedAt'[log'[ip[s]][p]] <= decidedAt[s]
    BY <1>1, <1>2, <1>7, <1>8 DEF DecisionInv, Decided
  <2>1. /\ ip[s] \in Ips
        /\ 1..headSeen[s] \subseteq 1..Len(log[ip[s]])
        /\ 1..tailSeen[s] \subseteq 1..Len(log[ip[s]])
    BY SeenInLog
  <2>2. ASSUME NEW p \in 1..headSeen[s]
        PROVE  now[log'[ip[s]][p]] + Window < decidedAt[s]
    <3>1. log'[ip[s]][p] = log[ip[s]][p]
      BY <2>1, <1>5
    <3> QED BY <3>1 DEF DecisionInv
  <2>3. ASSUME NEW p \in 1..tailSeen[s]
        PROVE  loggedAt'[log'[ip[s]][p]] <= decidedAt[s]
    <3>1. log'[ip[s]][p] = log[ip[s]][p] /\ log[ip[s]][p] \in Requests \ {r}
      BY <2>1, <1>5, <1>6
    <3> QED BY <3>1, <1>2 DEF DecisionInv
  <2> QED BY <2>2, <2>3
<1> QED BY <1>10, <1>11, <1>12, <1>13, <1>14, <1>15, <1>16, <1>17

\* A full array grows: of what the invariant speaks of, only pc changes.
LEMMA GrowInv ==
  ASSUME IInv, NEW r \in Requests, Grow(r)
  PROVE  IInv'
<1> USE DEF IInv, reads, history
<1>1. /\ pc[r] = "growing" /\ ip[r] \in Ips
      /\ pc' = [pc EXCEPT ![r] = "logged"]
      /\ length' = [length EXCEPT ![ip[r]] = @ + Jump(@)]
      /\ head' = [head EXCEPT ![ip[r]] = @ + Jump(length[ip[r]])]
      /\ UNCHANGED <<clock, ip, now, log, polled, tail, reads, history>>
  BY DEF Grow, TypeOK
<1>2. \A s \in Requests : /\ Logged(s)' <=> Logged(s)
                          /\ Decided(s)' <=> Decided(s)
                          /\ InCompute(s)' => InCompute(s)
                          /\ s # r => pc'[s] = pc[s]
                          /\ Decided(s) => pc'[s] = pc[s]
  BY <1>1 DEF TypeOK, Logged, Decided, InCompute
<1>3. TypeOK'
  <2>1. \A n \in Nat : Jump(n) \in Nat
    BY DEF Jump
  <2>2. /\ length \in [Ips -> Nat] /\ head \in [Ips -> Nat]
        /\ length[ip[r]] + Jump(length[ip[r]]) \in Nat
        /\ head[ip[r]] + Jump(length[ip[r]]) \in Nat
    <3>1. length[ip[r]] \in Nat /\ head[ip[r]] \in Nat
      BY <1>1 DEF TypeOK
    <3>2. Jump(length[ip[r]]) \in Nat
      BY <2>1, <3>1
    <3> HIDE DEF IInv
    <3> QED BY <3>1, <3>2 DEF TypeOK, IInv
  <2>3. length' \in [Ips -> Nat]
    BY <1>1, <2>2
  <2>4. head' \in [Ips -> Nat]
    BY <1>1, <2>2
  <2> QED BY <1>1, <2>3, <2>4 DEF TypeOK, PCs
<1>4. TimesInv' /\ LockInv'
  BY <1>1, <1>2 DEF TimesInv, LockInv
<1>5. LogInv' /\ PolledInv'
  BY <1>1, <1>2, LogType DEF LogInv, PolledInv
<1>6. ReadInv'
  BY <1>1, <1>2 DEF ReadInv
<1>7. CountedInv'
  BY <1>1, <1>2 DEF CountedInv, From
<1>8. DecisionInv'
  BY <1>1, <1>2 DEF DecisionInv
<1> QED BY <1>3, <1>4, <1>5, <1>6, <1>7, <1>8

(***************************************************************************)
(* The unlocked reads and the decision                                     *)
(***************************************************************************)

\* The unlocked read of tail.
LEMMA ReadTailInv ==
  ASSUME IInv, NEW r \in Requests, ReadTail(r)
  PROVE  IInv'
<1> USE DEF IInv, deque, history
<1>1. /\ pc[r] = "logged" /\ Logged(r) /\ ~Decided(r) /\ ip[r] \in Ips
      /\ tailRead' = [tailRead EXCEPT ![r] = tail[ip[r]]]
      /\ tailSeen' = [tailSeen EXCEPT ![r] = Len(log[ip[r]])]
      /\ tail[ip[r]] \in Nat /\ Len(log[ip[r]]) \in Nat
      /\ UNCHANGED <<clock, pc, ip, now, deque, headRead, lengthRead,
                     headSeen, history>>
  BY LogType DEF ReadTail, TypeOK, Logged, Decided
<1>2. /\ tailSeen'[r] = Len(log[ip[r]]) /\ tailRead'[r] = tail[ip[r]]
      /\ \A s \in Requests : s # r =>
           tailSeen'[s] = tailSeen[s] /\ tailRead'[s] = tailRead[s]
  BY <1>1 DEF TypeOK
<1>3. TypeOK'
  BY <1>1, LogType DEF TypeOK
<1>4. TimesInv' /\ LockInv'
  BY <1>1 DEF TimesInv, LockInv, Logged, InCompute
<1>5. LogInv' /\ PolledInv'
  BY <1>1 DEF LogInv, PolledInv, Logged
<1>6. ReadInv'
  <2>1. pos[r] <= Len(log[ip[r]])
    BY <1>1 DEF LogInv
  <2> QED BY <1>1, <1>2, <2>1 DEF ReadInv, Decided, NotRead
<1>7. CountedInv'
  BY <1>1 DEF CountedInv, From, Logged
<1>8. DecisionInv'
  BY <1>1, <1>2 DEF DecisionInv, Decided
<1> QED BY <1>3, <1>4, <1>5, <1>6, <1>7, <1>8

\* The unlocked read of head.
LEMMA ReadHeadInv ==
  ASSUME IInv, NEW r \in Requests, ReadHead(r)
  PROVE  IInv'
<1> USE DEF IInv, deque, history
<1>1. /\ pc[r] = "logged" /\ Logged(r) /\ ~Decided(r) /\ ip[r] \in Ips
      /\ headRead[r] = NotRead /\ headSeen[r] = NotRead
      /\ headRead' = [headRead EXCEPT ![r] = head[ip[r]]]
      /\ headSeen' = [headSeen EXCEPT ![r] = polled[ip[r]]]
      /\ head[ip[r]] \in Nat /\ polled[ip[r]] \in Nat
      /\ UNCHANGED <<clock, pc, ip, now, deque, tailRead, lengthRead,
                     tailSeen, history>>
  BY DEF ReadHead, TypeOK, Logged, Decided, ReadInv
<1>2. /\ headSeen'[r] = polled[ip[r]] /\ headRead'[r] = head[ip[r]]
      /\ \A s \in Requests : s # r =>
           headSeen'[s] = headSeen[s] /\ headRead'[s] = headRead[s]
  BY <1>1 DEF TypeOK
<1>3. TypeOK'
  BY <1>1 DEF TypeOK
<1>4. TimesInv' /\ LockInv'
  BY <1>1 DEF TimesInv, LockInv, Logged, InCompute
<1>5. LogInv' /\ PolledInv'
  BY <1>1 DEF LogInv, PolledInv, Logged
<1>6. ReadInv'
  BY <1>1, <1>2 DEF ReadInv, Decided, NotRead
<1>7. CountedInv'
  <2>1. \A s \in Requests : From(s)' = From(s)
    BY <1>1, <1>2 DEF From, NotRead
  <2> QED BY <1>1, <2>1 DEF CountedInv, Logged
<1>8. DecisionInv'
  BY <1>1, <1>2 DEF DecisionInv, Decided
<1> QED BY <1>3, <1>4, <1>5, <1>6, <1>7, <1>8

\* The unlocked read of the array's length.
LEMMA ReadLengthInv ==
  ASSUME IInv, NEW r \in Requests, ReadLength(r)
  PROVE  IInv'
<1> USE DEF IInv, deque, history
<1>1. /\ pc[r] = "logged" /\ ~Decided(r) /\ ip[r] \in Ips
      /\ lengthRead' = [lengthRead EXCEPT ![r] = length[ip[r]]]
      /\ UNCHANGED <<clock, pc, ip, now, deque, tailRead, headRead,
                     tailSeen, headSeen, history>>
  BY DEF ReadLength, TypeOK, Decided
<1>2. \A s \in Requests : s # r => lengthRead'[s] = lengthRead[s]
  BY <1>1 DEF TypeOK
<1>3. TypeOK'
  BY <1>1 DEF TypeOK
<1>4. TimesInv' /\ LockInv' /\ LogInv' /\ PolledInv' /\ CountedInv'
  BY <1>1 DEF TimesInv, LockInv, LogInv, PolledInv, CountedInv, From, Logged,
              InCompute
<1>5. ReadInv' /\ DecisionInv'
  BY <1>1, <1>2 DEF ReadInv, DecisionInv, Decided
<1> QED BY <1>3, <1>4, <1>5

\* The request is admitted or refused.
LEMMA DecideInv ==
  ASSUME IInv, NEW r \in Requests, Decide(r)
  PROVE  IInv'
<1> USE DEF IInv, deque, reads
<1> DEFINE size == SizeOf(tailRead[r], headRead[r], lengthRead[r])
           v == IF size > MaxRequests THEN "rejected" ELSE "admitted"
<1>1. /\ pc[r] = "logged" /\ ip[r] \in Ips
      /\ NotRead \notin {tailRead[r], headRead[r], lengthRead[r]}
      /\ tailSeen[r] # NotRead /\ headSeen[r] # NotRead
      /\ pc' = [pc EXCEPT ![r] = v]
      /\ decidedAt' = [decidedAt EXCEPT ![r] = clock]
      /\ UNCHANGED <<clock, ip, now, deque, reads, pos, loggedAt>>
  BY DEF Decide, TypeOK, ReadInv
<1>2. /\ pc'[r] = v /\ decidedAt'[r] = clock
      /\ \A s \in Requests \ {r} : pc'[s] = pc[s] /\ decidedAt'[s] = decidedAt[s]
  BY <1>1 DEF TypeOK
<1>3. \A s \in Requests : (Logged(s)' <=> Logged(s)) /\ (InCompute(s)' <=> InCompute(s))
  BY <1>1, <1>2 DEF Logged, InCompute
<1>4. Decided(r)' /\ \A s \in Requests \ {r} : Decided(s)' <=> Decided(s)
  BY <1>2 DEF Decided
<1>5. TypeOK'
  BY <1>1 DEF TypeOK, PCs
<1>6. TimesInv'
  BY <1>1, <1>2, <1>3 DEF TimesInv, TypeOK
<1>7. LockInv'
  BY <1>1, <1>2, <1>3 DEF LockInv
<1>8. LogInv' /\ PolledInv'
  BY <1>1, <1>3, LogType DEF LogInv, PolledInv
<1>9. ReadInv'
  BY <1>1, <1>2, <1>4 DEF ReadInv
<1>10. CountedInv'
  <2>1. \A s \in Requests : From(s)' = From(s)
    BY <1>1 DEF From
  <2> QED BY <1>1, <1>3, <2>1 DEF CountedInv
<1>11. DecisionInv'
  <2>1. ASSUME NEW s \in Requests \ {r}, Decided(s)'
        PROVE  /\ \A p \in 1..headSeen'[s] :
                    now'[log'[ip'[s]][p]] + Window < decidedAt'[s]
               /\ \A p \in 1..tailSeen'[s] :
                    loggedAt'[log'[ip'[s]][p]] <= decidedAt'[s]
               /\ pc'[s] = "admitted" <=>
                    SizeOf(tailRead'[s], headRead'[s], lengthRead'[s]) <= MaxRequests
    BY <1>1, <1>2, <1>4, <2>1 DEF DecisionInv
  <2>2. \A p \in 1..headSeen[r] : now[log[ip[r]][p]] + Window < clock
    <3> TAKE p \in 1..headSeen[r]
    <3>1. p \in 1..polled[ip[r]]
      BY <1>1 DEF ReadInv, TypeOK
    <3> QED BY <1>1, <3>1 DEF PolledInv
  <2>3. \A p \in 1..tailSeen[r] : loggedAt[log[ip[r]][p]] <= clock
    <3> TAKE p \in 1..tailSeen[r]
    <3>1. p \in 1..Len(log[ip[r]])
      BY <1>1, LogType DEF ReadInv, TypeOK
    <3> QED BY <1>1, <3>1, LogType DEF TimesInv
  <2>4. v = "admitted" <=> size <= MaxRequests
    BY <1>1, SMTT(30) DEF SizeOf, TypeOK
  <2> QED BY <1>1, <1>2, <2>1, <2>2, <2>3, <2>4 DEF DecisionInv
<1> QED BY <1>5, <1>6, <1>7, <1>8, <1>9, <1>10, <1>11

\* Time passes.
LEMMA TickInv ==
  ASSUME IInv, Tick
  PROVE  IInv'
<1> USE DEF IInv, deque, reads, history
<1>1. clock \in Nat /\ clock' = clock + 1
      /\ UNCHANGED <<pc, ip, now, deque, reads, history>>
  BY DEF Tick, TypeOK
<1>2. TypeOK' /\ TimesInv'
  BY <1>1 DEF TypeOK, TimesInv, Logged
<1>3. LockInv' /\ LogInv' /\ ReadInv'
  BY <1>1 DEF LockInv, LogInv, ReadInv, InCompute, Logged, Decided
<1>4. PolledInv'
  <2> SUFFICES ASSUME NEW i \in Ips, NEW p \in 1..polled[i]
               PROVE  now[log[i][p]] + Window < clock + 1
    BY <1>1 DEF PolledInv
  <2>1. log[i][p] \in Requests
    BY LogType DEF TypeOK
  <2>2. now[log[i][p]] \in Nat /\ now[log[i][p]] + Window < clock
    BY <2>1 DEF PolledInv, TypeOK
  <2> QED BY <1>1, <2>2
<1>5. CountedInv' /\ DecisionInv'
  BY <1>1 DEF CountedInv, DecisionInv, From, Logged, Decided
<1> QED BY <1>2, <1>3, <1>4, <1>5

\* A function from a non-empty finite set to the integers has a maximum.
LEMMA FiniteMaximum ==
  ASSUME NEW S, IsFiniteSet(S), S # {}, NEW f \in [S -> Int]
  PROVE  \E y \in S : \A x \in S : f[x] <= f[y]
<1> DEFINE Above(y) == {x \in S : f[x] > f[y]}
           Aboves   == {Above(y) : y \in S}
<1>1. IsWellFoundedOn(StrictSubsetOrdering(S), SUBSET S)
  BY FS_StrictSubsetOrderingWellFounded, FS_FiniteSubsetsOfFinite
<1>2. Aboves \subseteq SUBSET S
  OBVIOUS
<1>3. Aboves # {}
  <2>1. PICK z \in S : TRUE
    OBVIOUS
  <2>2. Above(z) \in Aboves
    OBVIOUS
  <2> QED BY <2>2
<1>4. PICK U \in Aboves : \A V \in Aboves : ~ (<<V, U>> \in StrictSubsetOrdering(S))
  BY <1>1, <1>2, <1>3, WFMin
<1>5. PICK y \in S : U = Above(y)
  BY <1>4
<1>6. ASSUME NEW x \in S, f[x] > f[y] PROVE FALSE
  <2>1. Above(x) \subseteq U /\ Above(x) # U
    BY <1>5, <1>6
  <2>2. <<Above(x), U>> \in StrictSubsetOrdering(S)
    BY <2>1, <1>2, <1>4 DEF StrictSubsetOrdering
  <2> QED BY <2>2, <1>4
<1> QED BY <1>6

(***************************************************************************)
(* The invariant, and what it implies                                      *)
(***************************************************************************)

\* Every step of the filter preserves the inductive invariant.
LEMMA NextInv == IInv /\ [Next]_vars => IInv'
<1> SUFFICES ASSUME IInv, [Next]_vars PROVE IInv'
  OBVIOUS
<1>1. ASSUME NEW r \in Requests, Bypass(r) \/ Arrive(r) \/ Step(r) PROVE IInv'
  BY <1>1, BypassInv, ArriveInv, EnterComputeInv, PollFirstInv, AddLastInv,
     GrowInv, ReadTailInv, ReadHeadInv, ReadLengthInv, DecideInv DEF Step
<1>2. CASE Tick
  BY <1>2, TickInv
<1>3. CASE UNCHANGED vars
  BY <1>3 DEF vars, deque, reads, history, IInv, TypeOK, TimesInv, LockInv,
       LogInv, PolledInv, ReadInv, CountedInv, DecisionInv, InCompute, Logged,
       Decided, From
<1> QED BY <1>1, <1>2, <1>3 DEF Next, Done

\* The inductive invariant holds in every state RateLimitFilter can reach.
THEOREM InductiveInvariant == Spec => []IInv
<1> QED BY InitInv, NextInv, PTL DEF Spec

\* RateLimitFilter keeps its state well-typed, and polls no empty deque.
THEOREM TypeCorrect == Spec => []TypeOK
<1>1. IInv => TypeOK
  BY DEF IInv
<1> QED BY <1>1, InductiveInvariant, PTL

(***************************************************************************)
(* The array under the deque                                               *)
(*                                                                         *)
(* IInv speaks of positions in the log.  The unlocked size() reads slots   *)
(* of a circular array; AInv says when its three reads give the number of  *)
(* positions they stand for.                                               *)
(***************************************************************************)

\* The array of an address is full and is about to grow.
Growing(i) == \E r \in Requests : pc[r] = "growing" /\ ip[r] = i

\* The fields describe the contents of a deque, unless its full array is
\* about to grow: then they are those of an empty deque.
DequeInv ==
  \A i \in Ips :
    /\ length[i] >= Capacity
    /\ tail[i] < length[i]
    /\ head[i] < length[i]
    /\ Growing(i) =>
         tail[i] = head[i] /\ Len(log[i]) - polled[i] = length[i]
    /\ ~Growing(i) =>
         Len(log[i]) - polled[i] = SizeOf(tail[i], head[i], length[i])

\* Capacity requests were logged between one window before r arrived and the
\* decision of r, or until now.
Crowded(r) ==
  \E p \in 1..Len(log[ip[r]]) :
    /\ p + Capacity - 1 <= Len(log[ip[r]])
    /\ loggedAt[log[ip[r]][p]] >= now[r] - Window
    /\ Decided(r) => loggedAt[log[ip[r]][p + Capacity - 1]] <= decidedAt[r]

\* r is reading within a window of its arrival, and fewer were logged.
Sparse(r) == pc[r] = "logged" /\ clock - now[r] <= Window /\ ~Crowded(r)

\* Slot x is d slots after slot y in a circular array of n slots.
After(x, y, d, n) == x - y \in {d, d - n}

\* What r has read of the fields is where they were when it read them, in the
\* array that is still the deque's.
ArrayInv ==
  \A r \in Requests : Sparse(r) =>
    /\ lengthRead[r] \in {NotRead, length[ip[r]]}
    /\ tailRead[r] # NotRead =>
         /\ tailRead[r] < length[ip[r]]
         /\ After(tail[ip[r]], tailRead[r], Len(log[ip[r]]) - tailSeen[r],
                  length[ip[r]])
    /\ headRead[r] # NotRead =>
         /\ headRead[r] < length[ip[r]]
         /\ After(head[ip[r]], headRead[r], polled[ip[r]] - headSeen[r],
                  length[ip[r]])

\* The size that a decision was based on is the number of positions that
\* were logged when it read tail and not polled when it read head.
ExactInv ==
  \A r \in Requests :
    Decided(r) /\ decidedAt[r] - now[r] <= Window /\ ~Crowded(r) =>
      SizeOf(tailRead[r], headRead[r], lengthRead[r]) = tailSeen[r] - headSeen[r]

AInv == DequeInv /\ ArrayInv /\ ExactInv

\* A longer array is longer.
LEMMA JumpGrows == \A n \in Nat : n > 0 => Jump(n) \in Nat /\ Jump(n) > 0
BY DEF Jump

\* Where the fields were and where they are give the distance of the reads.
LEMMA SizeExact ==
  ASSUME NEW n \in Nat,
         NEW t \in 0..(n - 1), NEW h \in 0..(n - 1),
         NEW tNow \in 0..(n - 1), NEW hNow \in 0..(n - 1),
         NEW a \in Nat, NEW b \in Nat,
         After(tNow, t, a, n), After(hNow, h, b, n),
         SizeOf(tNow, hNow, n) - a + b \in 0..(n - 1)
  PROVE  SizeOf(t, h, n) = SizeOf(tNow, hNow, n) - a + b
BY DEF After, SizeOf

\* One more append, or one more poll, in an array that holds what was counted.
LEMMA IncAfter ==
  ASSUME NEW n \in Nat, NEW x \in 0..(n - 1), NEW y \in 0..(n - 1),
         NEW d \in Nat, After(x, y, d, n), d < n
  PROVE  Inc(x, n) \in 0..(n - 1) /\ After(Inc(x, n), y, d + 1, n)
BY DEF After, Inc


\* What no step changes: the log so far and its times, the address and the
\* timestamp of a request, and what it was decided on and when.
LEMMA HistoryStays ==
  ASSUME IInv, [Next]_vars
  PROVE  /\ \A i \in Ips :
              /\ Len(log[i]) <= Len(log'[i])
              /\ \A p \in 1..Len(log[i]) :
                   /\ log'[i][p] = log[i][p]
                   /\ loggedAt'[log[i][p]] = loggedAt[log[i][p]]
         /\ \A r \in Requests : Logged(r) =>
              /\ Logged(r)' /\ ip'[r] = ip[r] /\ now'[r] = now[r]
         /\ \A r \in Requests : Decided(r) =>
              /\ Decided(r)'
              /\ UNCHANGED <<decidedAt[r], tailRead[r], headRead[r],
                             lengthRead[r], tailSeen[r], headSeen[r]>>
         /\ \A r \in Requests : Decided(r)' =>
              \/ Decided(r)
              \/ Decide(r) /\ decidedAt'[r] = clock
         /\ clock \in Nat /\ clock' \in Nat /\ clock <= clock'
<1> USE DEF IInv
<1> DEFINE Kept ==
             /\ \A i \in Ips :
                  /\ Len(log[i]) <= Len(log'[i])
                  /\ \A p \in 1..Len(log[i]) :
                       /\ log'[i][p] = log[i][p]
                       /\ loggedAt'[log[i][p]] = loggedAt[log[i][p]]
             /\ \A r \in Requests : Logged(r) =>
                  /\ Logged(r)' /\ ip'[r] = ip[r] /\ now'[r] = now[r]
             /\ \A r \in Requests : Decided(r) =>
                  /\ Decided(r)'
                  /\ UNCHANGED <<decidedAt[r], tailRead[r], headRead[r],
                                 lengthRead[r], tailSeen[r], headSeen[r]>>
             /\ \A r \in Requests : Decided(r)' =>
                  \/ Decided(r)
                  \/ Decide(r) /\ decidedAt'[r] = clock
             /\ clock \in Nat /\ clock' \in Nat /\ clock <= clock'
<1>0. \A i \in Ips : Len(log[i]) \in Nat
  BY LogType
<1>1. ASSUME NEW s \in Requests, Bypass(s) \/ EnterCompute(s)
      PROVE  Kept
  <2>1. /\ ~Logged(s) /\ ~Decided(s) /\ pc'[s] \in {"bypassed", "pruning"}
        /\ \A r \in Requests \ {s} : pc'[r] = pc[r]
        /\ UNCHANGED <<clock, ip, now, deque, reads, history>>
    BY <1>1 DEF Bypass, EnterCompute, TypeOK, Logged, Decided
  <2>2. clock \in Nat
    BY DEF TypeOK
  <2> HIDE DEF IInv
  <2> QED BY <1>0, <2>1, <2>2 DEF deque, reads, history, Logged, Decided
<1>2. ASSUME NEW s \in Requests, Arrive(s)
      PROVE  Kept
  <2>1. /\ ~Logged(s) /\ ~Decided(s) /\ pc'[s] = "arrived"
        /\ \A r \in Requests \ {s} :
             pc'[r] = pc[r] /\ ip'[r] = ip[r] /\ now'[r] = now[r]
        /\ UNCHANGED <<clock, deque, reads, history>>
    BY <1>2 DEF Arrive, TypeOK, Logged, Decided
  <2>2. clock \in Nat
    BY DEF TypeOK
  <2> HIDE DEF IInv
  <2> QED BY <1>0, <2>1, <2>2 DEF deque, reads, history, Logged, Decided
<1>3. ASSUME NEW s \in Requests, PollFirst(s)
      PROVE  Kept
  BY <1>0, <1>3 DEF PollFirst, reads, history, TypeOK, Logged, Decided
<1>4. ASSUME NEW s \in Requests, AddLast(s)
      PROVE  Kept
  <2>1. /\ ip[s] \in Ips /\ ~Logged(s) /\ ~Decided(s)
        /\ pc'[s] \in {"growing", "logged"}
        /\ \A r \in Requests \ {s} : pc'[r] = pc[r] /\ loggedAt'[r] = loggedAt[r]
        /\ log' = [log EXCEPT ![ip[s]] = Append(@, s)]
        /\ UNCHANGED <<clock, ip, now, reads, decidedAt>>
    BY <1>4 DEF AddLast, TypeOK, Logged, Decided
  <2>2. \A i \in Ips : \A p \in 1..Len(log[i]) : log[i][p] \in Requests \ {s}
    BY <2>1, LogType DEF LogInv
  <2>3. ASSUME NEW i \in Ips
        PROVE  /\ Len(log[i]) <= Len(log'[i])
               /\ \A p \in 1..Len(log[i]) : log'[i][p] = log[i][p]
    <3>1. log \in [Ips -> Seq(Requests)] /\ log[i] \in Seq(Requests)
      BY DEF TypeOK
    <3>2. CASE i = ip[s]
      <4>1. log'[i] = Append(log[i], s)
        BY <2>1, <3>1, <3>2
      <4> HIDE DEF IInv
      <4> QED BY <3>1, <4>1
    <3>3. CASE i # ip[s]
      <4>1. log'[i] = log[i]
        BY <2>1, <3>1, <3>3
      <4> QED BY <4>1, <1>0
    <3> QED BY <3>2, <3>3
  <2>4. \A r \in Requests : /\ Logged(r) => Logged(r)'
                            /\ Decided(r)' <=> Decided(r)
    BY <2>1 DEF Logged, Decided
  <2>5. clock \in Nat
    BY DEF TypeOK
  <2> HIDE DEF IInv
  <2> QED BY <2>1, <2>2, <2>3, <2>4, <2>5 DEF reads
<1>5. ASSUME NEW s \in Requests, Grow(s)
      PROVE  Kept
  <2>1. /\ ~Decided(s) /\ pc'[s] = "logged"
        /\ \A r \in Requests \ {s} : pc'[r] = pc[r]
        /\ UNCHANGED <<clock, ip, now, log, reads, history>>
    BY <1>5 DEF Grow, TypeOK, Decided
  <2>2. clock \in Nat
    BY DEF TypeOK
  <2> HIDE DEF IInv
  <2> QED BY <1>0, <2>1, <2>2 DEF reads, history, Logged, Decided
<1>6. ASSUME NEW s \in Requests, ReadTail(s) \/ ReadHead(s) \/ ReadLength(s)
      PROVE  Kept
  <2>1. /\ ~Decided(s)
        /\ \A r \in Requests \ {s} :
             UNCHANGED <<tailRead[r], headRead[r], lengthRead[r], tailSeen[r],
                         headSeen[r]>>
        /\ UNCHANGED <<clock, pc, ip, now, deque, history>>
    BY <1>6 DEF ReadTail, ReadHead, ReadLength, TypeOK, Decided
  <2>2. clock \in Nat
    BY DEF TypeOK
  <2> HIDE DEF IInv
  <2> QED BY <1>0, <2>1, <2>2 DEF deque, history, Logged, Decided
<1>7. ASSUME NEW s \in Requests, Decide(s)
      PROVE  Kept
  <2>1. /\ Logged(s) /\ ~Decided(s) /\ pc'[s] \in {"rejected", "admitted"}
        /\ decidedAt'[s] = clock
        /\ \A r \in Requests \ {s} : pc'[r] = pc[r] /\ decidedAt'[r] = decidedAt[r]
        /\ UNCHANGED <<clock, ip, now, deque, reads, loggedAt>>
    BY <1>7 DEF Decide, TypeOK, Logged, Decided
  <2>2. clock \in Nat
    BY DEF TypeOK
  <2> HIDE DEF IInv
  <2> QED BY <1>0, <1>7, <2>1, <2>2 DEF deque, reads, Logged, Decided
<1>8. CASE Tick
  BY <1>0, <1>8 DEF Tick, deque, reads, history, TypeOK, Logged, Decided
<1>9. CASE UNCHANGED vars
  BY <1>0, <1>9 DEF vars, deque, reads, history, TypeOK, Logged, Decided
<1> QED
  BY <1>1, <1>2, <1>3, <1>4, <1>5, <1>6, <1>7, <1>8, <1>9 DEF Next, Step, Done

\* Once crowded, always crowded: nothing logged is forgotten.
LEMMA CrowdedStays ==
  ASSUME IInv, [Next]_vars, NEW r \in Requests, Logged(r), Crowded(r)
  PROVE  Crowded(r)'
<1> DEFINE i == ip[r]
<1>1. PICK p \in 1..Len(log[i]) :
        /\ p + Capacity - 1 <= Len(log[i])
        /\ loggedAt[log[i][p]] >= now[r] - Window
        /\ Decided(r) => loggedAt[log[i][p + Capacity - 1]] <= decidedAt[r]
  BY DEF Crowded
<1> DEFINE q == p + Capacity - 1
<1>2. i \in Ips /\ Len(log[i]) \in Nat /\ p \in 1..Len(log[i]) /\ q \in 1..Len(log[i])
  <2>1. i \in Ips
    BY DEF IInv, TypeOK, Logged
  <2> QED BY <1>1, <2>1, LogType DEF IInv
<1>3. /\ Len(log[i]) <= Len(log'[i]) /\ ip'[r] = i /\ now'[r] = now[r]
      /\ log'[i][p] = log[i][p] /\ loggedAt'[log[i][p]] = loggedAt[log[i][p]]
      /\ log'[i][q] = log[i][q] /\ loggedAt'[log[i][q]] = loggedAt[log[i][q]]
  BY <1>2, HistoryStays
<1>4. Decided(r)' => loggedAt[log[i][q]] <= decidedAt'[r]
  <2>1. CASE Decided(r)
    BY <1>1, <2>1, HistoryStays
  <2>2. CASE Decide(r) /\ decidedAt'[r] = clock
    <3>1. log[i][q] \in Requests
      BY <1>2, LogType DEF IInv
    <3> QED BY <2>2, <3>1 DEF IInv, TimesInv
  <2> QED BY <2>1, <2>2, HistoryStays
<1>5. Len(log'[i]) \in Nat
  <2>1. IInv'
    BY NextInv
  <2> QED BY <2>1, <1>2 DEF IInv, TypeOK
<1>6. p \in 1..Len(log'[i]) /\ q <= Len(log'[i])
  BY <1>1, <1>2, <1>3, <1>5
<1> HIDE DEF i, q
<1>7. Crowded(r)' <=>
        \E x \in 1..Len(log'[ip'[r]]) :
          /\ x + Capacity - 1 <= Len(log'[ip'[r]])
          /\ loggedAt'[log'[ip'[r]][x]] >= now'[r] - Window
          /\ Decided(r)' => loggedAt'[log'[ip'[r]][x + Capacity - 1]] <= decidedAt'[r]
  BY DEF Crowded
<1>8. q = p + Capacity - 1
  BY DEF q
<1> QED BY <1>1, <1>3, <1>4, <1>6, <1>7, <1>8 DEF i

\* Who is not crowded counts fewer than Capacity positions, its own among
\* them, and nobody makes the array of its address grow.
LEMMA SparseFacts ==
  ASSUME IInv, DequeInv, NEW r \in Requests, Sparse(r)
  PROVE  /\ ip[r] \in Ips /\ Len(log[ip[r]]) \in Nat /\ polled[ip[r]] \in Nat
         /\ From(r) \in Nat /\ From(r) <= polled[ip[r]]
         /\ polled[ip[r]] < pos[r] /\ pos[r] \in Nat /\ pos[r] <= Len(log[ip[r]])
         /\ Len(log[ip[r]]) - From(r) < Capacity
         /\ ~Growing(ip[r])
<1> USE DEF IInv
<1> DEFINE i == ip[r]
           n == Len(log[i])
<1>1. Logged(r) /\ ~Decided(r) /\ i \in Ips /\ n \in Nat /\ polled[i] \in Nat
  BY LogType DEF Sparse, TypeOK, Logged, Decided
<1>2. From(r) \in Nat /\ From(r) <= polled[i]
  BY <1>1 DEF From, ReadInv, TypeOK
<1>3. pos[r] \in 1..n /\ log[i][pos[r]] = r
  BY <1>1 DEF LogInv
<1>4. polled[i] < pos[r]
  <2>1. now[r] \in Nat /\ clock \in Nat /\ clock - now[r] <= Window
    BY DEF Sparse, TypeOK
  <2>2. pos[r] \in 1..polled[i] => now[r] + Window < clock
    BY <1>1, <1>3 DEF PolledInv
  <2> QED BY <1>1, <1>3, <2>1, <2>2
<1>5. n - From(r) < Capacity
  <2> SUFFICES ASSUME n - From(r) >= Capacity PROVE Crowded(r)
    BY <1>1, <1>2 DEF Sparse
  <2> DEFINE p == From(r) + 1
  <2>1. p \in 1..n /\ p + Capacity - 1 <= n /\ p > From(r)
    BY <1>1, <1>2
  <2>2. loggedAt[log[i][p]] >= now[r] - Window
    BY <1>1, <2>1 DEF CountedInv
  <2> QED BY <1>1, <2>1, <2>2 DEF Crowded
<1>6. ~Growing(i)
  <2>1. polled[i] <= n /\ length[i] \in Nat
    BY <1>1 DEF TypeOK
  <2> QED BY <1>1, <1>2, <1>5, <2>1 DEF DequeInv
<1> QED BY <1>1, <1>2, <1>3, <1>4, <1>5, <1>6

\* Every deque is new.
LEMMA AInit == Init => AInv
<1> SUFFICES ASSUME Init PROVE AInv
  OBVIOUS
<1>1. \A i \in Ips : ~Growing(i)
  BY DEF Init, Growing
<1>2. DequeInv
  BY <1>1 DEF Init, DequeInv, SizeOf
<1>3. ArrayInv /\ ExactInv
  BY DEF Init, ArrayInv, ExactInv, Sparse, Decided
<1> QED BY <1>2, <1>3 DEF AInv

\* pollFirst takes one off the size.
LEMMA PollSize ==
  ASSUME NEW n \in Nat, NEW t \in 0..(n - 1), NEW h \in 0..(n - 1),
         SizeOf(t, h, n) > 0
  PROVE  Inc(h, n) \in 0..(n - 1) /\ SizeOf(t, Inc(h, n), n) = SizeOf(t, h, n) - 1
BY DEF SizeOf, Inc

\* addLast adds one to the size, or fills the array.
LEMMA AddSize ==
  ASSUME NEW n \in Nat, NEW t \in 0..(n - 1), NEW h \in 0..(n - 1)
  PROVE  /\ Inc(t, n) \in 0..(n - 1)
         /\ Inc(t, n) = h => SizeOf(t, h, n) + 1 = n
         /\ Inc(t, n) # h => SizeOf(Inc(t, n), h, n) = SizeOf(t, h, n) + 1
BY DEF SizeOf, Inc

\* addLast, pollFirst and grow keep the fields in step with the contents.
LEMMA DequeStep ==
  ASSUME IInv, IInv', DequeInv, [Next]_vars
  PROVE  DequeInv'
<1> DEFINE Fits(i) ==
             /\ length[i] >= Capacity
             /\ tail[i] < length[i]
             /\ head[i] < length[i]
             /\ Growing(i) =>
                  tail[i] = head[i] /\ Len(log[i]) - polled[i] = length[i]
             /\ ~Growing(i) =>
                  Len(log[i]) - polled[i] = SizeOf(tail[i], head[i], length[i])
<1> SUFFICES \A i \in Ips : Fits(i)'
  BY DEF DequeInv
<1>1. \A i \in Ips : Fits(i)
  BY DEF DequeInv
<1>2. \A i \in Ips :
        /\ length[i] \in Nat /\ tail[i] \in Nat /\ head[i] \in Nat
        /\ polled[i] \in Nat /\ Len(log[i]) \in Nat /\ polled[i] <= Len(log[i])
  BY LogType DEF IInv, TypeOK
<1>3. \A r, s \in Requests :
        InCompute(r) /\ InCompute(s) /\ ip[r] = ip[s] => r = s
  BY DEF IInv, LockInv
<1>4. ASSUME NEW s \in Requests, InCompute(s)
      PROVE  ip[s] \in Ips /\ (pc[s] = "pruning" => ~Growing(ip[s]))
  <2>1. ip[s] \in Ips
    BY <1>4 DEF IInv, TypeOK, InCompute
  <2> QED BY <2>1, <1>3, <1>4 DEF Growing, InCompute
<1>5. ASSUME NEW i \in Ips, UNCHANGED <<log[i], polled[i], tail[i], head[i], length[i]>>,
             Growing(i)' <=> Growing(i)
      PROVE  Fits(i)'
  BY <1>1, <1>5
<1>6. ASSUME UNCHANGED deque,
             \A r \in Requests :
               /\ pc'[r] = "growing" <=> pc[r] = "growing"
               /\ pc[r] = "growing" => ip'[r] = ip[r]
      PROVE  \A i \in Ips : Fits(i)'
  BY <1>5, <1>6 DEF Growing, deque
<1>7. ASSUME NEW s \in Requests, PollFirst(s)
      PROVE  \A i \in Ips : Fits(i)'
  <2> DEFINE a == ip[s]
  <2>1. /\ a \in Ips /\ ~Growing(a)
        /\ FrontExpired(s) /\ pc' = pc /\ ip' = ip
        /\ UNCHANGED <<log, tail, length>>
        /\ polled'[a] = polled[a] + 1
        /\ head'[a] = Inc(head[a], length[a])
        /\ \A i \in Ips \ {a} : polled'[i] = polled[i] /\ head'[i] = head[i]
    <3>1. a \in Ips /\ ~Growing(a)
      BY <1>4, <1>7 DEF PollFirst, InCompute
    <3> QED BY <1>7, <3>1 DEF PollFirst, IInv, TypeOK
  <2>2. \A i \in Ips : Growing(i)' <=> Growing(i)
    BY <2>1 DEF Growing
  <2>3. Fits(a)'
    <3>1. polled[a] < Len(log[a])
      BY <2>1 DEF FrontExpired
    <3>2. Len(log[a]) - polled[a] = SizeOf(tail[a], head[a], length[a])
      BY <1>1, <2>1
    <3>3. length[a] \in Nat /\ tail[a] \in 0..(length[a] - 1) /\ head[a] \in 0..(length[a] - 1)
      BY <1>1, <1>2, <2>1
    <3>4. Len(log[a]) \in Nat /\ polled[a] \in Nat
      BY <1>2, <2>1
    <3>5. SizeOf(tail[a], head[a], length[a]) > 0
      BY <3>1, <3>2, <3>4
    <3>6. /\ Inc(head[a], length[a]) \in 0..(length[a] - 1)
          /\ SizeOf(tail[a], Inc(head[a], length[a]), length[a])
               = SizeOf(tail[a], head[a], length[a]) - 1
      BY <3>3, <3>5, PollSize
    <3>7. /\ Inc(head[a], length[a]) < length[a]
          /\ Len(log[a]) - (polled[a] + 1)
               = SizeOf(tail[a], Inc(head[a], length[a]), length[a])
      BY <3>2, <3>3, <3>4, <3>6
    <3> QED BY <1>1, <2>1, <2>2, <3>7
  <2> QED BY <1>5, <2>1, <2>2, <2>3
<1>8. ASSUME NEW s \in Requests, AddLast(s)
      PROVE  \A i \in Ips : Fits(i)'
  <2>0. PICK a \in Ips : a = ip[s] /\ ~Growing(a)
    BY <1>4, <1>8 DEF AddLast, InCompute
  <2>1. /\ a = ip[s]
        /\ ip' = ip /\ UNCHANGED <<polled, head, length>>
        /\ Len(log'[a]) = Len(log[a]) + 1
        /\ tail'[a] = Inc(tail[a], length[a])
        /\ \A i \in Ips \ {a} : log'[i] = log[i] /\ tail'[i] = tail[i]
        /\ pc'[s] = IF tail'[a] = head[a] THEN "growing" ELSE "logged"
        /\ pc[s] = "pruning"
        /\ \A r \in Requests \ {s} : pc'[r] = pc[r]
    <3>2. log[a] \in Seq(Requests) /\ log'[a] = Append(log[a], s)
      BY <1>8, <2>0 DEF AddLast, IInv, TypeOK
    <3>3. Len(log'[a]) = Len(log[a]) + 1
      BY <3>2
    <3> QED BY <1>8, <2>0, <3>3 DEF AddLast, IInv, TypeOK
  <2>2. \A i \in Ips \ {a} : Growing(i)' <=> Growing(i)
    BY <2>0, <2>1 DEF Growing
  <2>3. Growing(a)' <=> tail'[a] = head[a]
    BY <2>0, <2>1 DEF Growing
  <2>4. Fits(a)'
    <3>1. Len(log[a]) - polled[a] = SizeOf(tail[a], head[a], length[a])
      BY <1>1, <2>0
    <3> DEFINE t == Inc(tail[a], length[a])
    <3>2. /\ t < length[a]
          /\ t = head[a] => Len(log[a]) + 1 - polled[a] = length[a]
          /\ t # head[a] =>
               Len(log[a]) + 1 - polled[a] = SizeOf(t, head[a], length[a])
      <4>1. length[a] \in Nat /\ tail[a] \in 0..(length[a] - 1) /\ head[a] \in 0..(length[a] - 1)
        BY <1>1, <1>2, <2>1
      <4>2. Len(log[a]) \in Nat /\ polled[a] \in Nat
        BY <1>2, <2>1
      <4>3. /\ t \in 0..(length[a] - 1)
            /\ t = head[a] => SizeOf(tail[a], head[a], length[a]) + 1 = length[a]
            /\ t # head[a] =>
                 SizeOf(t, head[a], length[a]) = SizeOf(tail[a], head[a], length[a]) + 1
        BY <4>1, AddSize
      <4> HIDE DEF t
      <4> QED BY <3>1, <4>1, <4>2, <4>3
    <3>3. /\ tail'[a] = t
          /\ Growing(a)' <=> t = head[a]
          /\ head'[a] = head[a] /\ polled'[a] = polled[a]
          /\ length'[a] = length[a] /\ Len(log'[a]) = Len(log[a]) + 1
      BY <2>1, <2>3
    <3>4. head[a] < length[a] /\ length[a] >= Capacity
      BY <1>1, <2>0
    <3> HIDE DEF t
    <3>5. Len(log[a]) \in Nat /\ polled[a] \in Nat
      BY <1>2, <2>0
    <3> QED BY <3>2, <3>3, <3>4, <3>5
  <2> QED BY <1>5, <2>1, <2>2, <2>4
<1>9. ASSUME NEW s \in Requests, Grow(s)
      PROVE  \A i \in Ips : Fits(i)'
  <2> DEFINE a == ip[s]
             j == Jump(length[a])
  <2>1. /\ a \in Ips /\ InCompute(s) /\ Growing(a)
        /\ ip' = ip /\ UNCHANGED <<log, polled, tail>>
        /\ length'[a] = length[a] + j
        /\ head'[a] = head[a] + j
        /\ \A i \in Ips \ {a} : length'[i] = length[i] /\ head'[i] = head[i]
        /\ pc'[s] = "logged"
        /\ \A r \in Requests \ {s} : pc'[r] = pc[r]
    <3>1. pc[s] = "growing" /\ InCompute(s)
      BY <1>9 DEF Grow, InCompute
    <3>2. a \in Ips
      BY <1>4, <3>1
    <3> QED BY <1>9, <3>1, <3>2 DEF Grow, IInv, TypeOK, Growing
  <2>2. \A i \in Ips \ {a} : Growing(i)' <=> Growing(i)
    BY <2>1 DEF Growing
  <2>3. ~Growing(a)'
    BY <1>3, <2>1 DEF Growing, InCompute
  <2>4. Fits(a)'
    <3>1. j \in Nat /\ j > 0
      <4>1. length[a] \in Nat /\ length[a] > 0
        BY <1>1, <1>2, <2>1
      <4> QED BY <4>1, JumpGrows
    <3>2. tail[a] = head[a] /\ Len(log[a]) - polled[a] = length[a]
      BY <1>1, <2>1
    <3> HIDE DEF j
    <3>3. /\ length[a] + j >= Capacity
          /\ tail[a] < length[a] + j
          /\ head[a] + j < length[a] + j
          /\ Len(log[a]) - polled[a] = SizeOf(tail[a], head[a] + j, length[a] + j)
      BY <1>1, <1>2, <2>1, <3>1, <3>2, SMTT(30) DEF SizeOf
    <3> QED BY <2>1, <2>3, <3>3
  <2> QED BY <1>5, <2>1, <2>2, <2>4
<1>10. ASSUME NEW s \in Requests, Bypass(s) \/ Arrive(s) \/ EnterCompute(s)
       PROVE  \A i \in Ips : Fits(i)'
  <2>1. \A r \in Requests : /\ pc'[r] = "growing" <=> pc[r] = "growing"
                            /\ pc[r] = "growing" => ip'[r] = ip[r]
    BY <1>10 DEF Bypass, Arrive, EnterCompute, IInv, TypeOK
  <2>2. UNCHANGED deque
    BY <1>10 DEF Bypass, Arrive, EnterCompute
  <2> QED BY <1>6, <2>1, <2>2
<1>11. ASSUME NEW s \in Requests,
              ReadTail(s) \/ ReadHead(s) \/ ReadLength(s) \/ Decide(s)
       PROVE  \A i \in Ips : Fits(i)'
  <2>1. \A r \in Requests : pc'[r] = "growing" <=> pc[r] = "growing"
    BY <1>11 DEF ReadTail, ReadHead, ReadLength, Decide, IInv, TypeOK
  <2>2. UNCHANGED <<ip, deque>>
    BY <1>11 DEF ReadTail, ReadHead, ReadLength, Decide
  <2> QED BY <1>6, <2>1, <2>2
<1>12. CASE Tick \/ UNCHANGED vars
  <2>1. UNCHANGED <<pc, ip, deque>>
    BY <1>12 DEF Tick, vars
  <2> QED BY <1>6, <2>1
<1>13. ASSUME NEW s \in Requests, Bypass(s) \/ Arrive(s) \/ Step(s)
       PROVE  \A i \in Ips : Fits(i)'
  <2> HIDE DEF Fits
  <2> QED BY <1>13, <1>7, <1>8, <1>9, <1>10, <1>11 DEF Step
<1> HIDE DEF Fits
<1> QED BY <1>12, <1>13 DEF Next, Done

\* Of fewer than c positions after f, those after t are fewer than n.
LEMMA Gaps ==
  ASSUME NEW l \in Nat, NEW t \in Nat, NEW q \in Nat, NEW p \in Nat,
         NEW f \in Nat, NEW c \in Nat, NEW n \in Nat,
         f <= p, p < q, q <= t, t <= l, l - f < c, n >= c
  PROVE  l - t \in Nat /\ l - t < n
OBVIOUS

\* A request that is sparse after a step in which it goes on reading was so
\* before: neither time nor the log runs backwards.
LEMMA SparseBefore ==
  ASSUME IInv, [Next]_vars, NEW r \in Requests, pc[r] = "logged",
         pc'[r] = "logged" \/ Decided(r)', ~Crowded(r)',
         clock' - now'[r] <= Window
  PROVE  Sparse(r)
<1>1. Logged(r)
  BY DEF Logged
<1>2. ~Crowded(r)
  BY <1>1, CrowdedStays
<1>3. now[r] \in Nat /\ clock \in Nat /\ clock' \in Nat /\ clock <= clock' /\ now'[r] = now[r]
  BY <1>1, HistoryStays DEF IInv, TypeOK
<1> QED BY <1>2, <1>3 DEF Sparse

\* The types of the fields.
LEMMA FieldTypes ==
  ASSUME IInv, DequeInv, NEW i \in Ips
  PROVE  /\ length[i] \in Nat /\ length[i] >= Capacity
         /\ tail[i] \in 0..(length[i] - 1)
         /\ head[i] \in 0..(length[i] - 1)
BY DEF IInv, TypeOK, DequeInv

\* What a request has read of the fields of its deque, while it is sparse,
\* stays where the others' appends and polls count it.
LEMMA ArrayStep ==
  ASSUME IInv, IInv', DequeInv, ArrayInv, [Next]_vars
  PROVE  ArrayInv'
<1> DEFINE Reads(r) ==
             /\ lengthRead[r] \in {NotRead, length[ip[r]]}
             /\ tailRead[r] # NotRead =>
                  /\ tailRead[r] < length[ip[r]]
                  /\ After(tail[ip[r]], tailRead[r],
                           Len(log[ip[r]]) - tailSeen[r], length[ip[r]])
             /\ headRead[r] # NotRead =>
                  /\ headRead[r] < length[ip[r]]
                  /\ After(head[ip[r]], headRead[r],
                           polled[ip[r]] - headSeen[r], length[ip[r]])
<1> SUFFICES ASSUME NEW r \in Requests, Sparse(r)'
             PROVE  Reads(r)'
  BY DEF ArrayInv
<1>1. CASE pc[r] # "logged"
  <2>1. ~Decided(r) /\ pc'[r] = "logged"
    <3>1. pc'[r] = "logged"
      BY DEF Sparse
    <3> QED BY <3>1, HistoryStays DEF Decided
  <2>2. tailRead[r] = NotRead /\ headRead[r] = NotRead /\ lengthRead[r] = NotRead
    BY <1>1, <2>1 DEF IInv, ReadInv
  <2>3. AddLast(r) \/ Grow(r)
    <3>1. ASSUME NEW s \in Requests \ {r}, Bypass(s) \/ Arrive(s) \/ Step(s)
          PROVE  pc'[r] = pc[r]
      BY <3>1 DEF Bypass, Arrive, Step, EnterCompute, PollFirst, AddLast, Grow,
                  ReadTail, ReadHead, ReadLength, Decide, IInv, TypeOK
    <3>2. \/ Bypass(r) \/ Arrive(r) \/ EnterCompute(r) \/ PollFirst(r)
          \/ ReadTail(r) \/ ReadHead(r) \/ ReadLength(r) \/ Decide(r)
          => pc'[r] # "logged"
      BY <1>1 DEF Bypass, Arrive, EnterCompute, PollFirst, ReadTail, ReadHead,
                  ReadLength, Decide, IInv, TypeOK
    <3>3. Tick \/ UNCHANGED vars => pc'[r] = pc[r]
      BY DEF Tick, vars
    <3> QED BY <1>1, <2>1, <3>1, <3>2, <3>3 DEF Next, Step, Done
  <2>4. tailRead' = tailRead /\ headRead' = headRead /\ lengthRead' = lengthRead
    BY <2>3 DEF AddLast, Grow, reads
  <2> QED BY <2>2, <2>4
<1>2. CASE pc[r] = "logged"
  <2>1. Sparse(r)
    BY <1>2, SparseBefore DEF Sparse
  <2>2. PICK i \in Ips : /\ i = ip[r] /\ ip'[r] = i
                         /\ ~Growing(i)
                         /\ Len(log[i]) \in Nat /\ polled[i] \in Nat
                         /\ From(r) \in Nat /\ From(r) <= polled[i]
                         /\ polled[i] < pos[r] /\ pos[r] \in Nat
                         /\ pos[r] <= Len(log[i])
                         /\ Len(log[i]) - From(r) < Capacity
    BY <1>2, <2>1, SparseFacts, HistoryStays DEF Logged
  <2>3. /\ length[i] \in Nat /\ length[i] >= Capacity
        /\ tail[i] \in 0..(length[i] - 1)
        /\ head[i] \in 0..(length[i] - 1)
    BY FieldTypes
  <2>4. Reads(r)
    BY <2>1 DEF ArrayInv
  <2>5. /\ tailRead[r] # NotRead =>
             /\ tailRead[r] \in 0..(length[i] - 1) /\ tailSeen[r] \in Nat
             /\ pos[r] <= tailSeen[r] /\ tailSeen[r] <= Len(log[i])
        /\ headRead[r] # NotRead =>
             /\ headRead[r] \in 0..(length[i] - 1) /\ headSeen[r] \in Nat
             /\ headSeen[r] = From(r)
        /\ lengthRead[r] # NotRead => lengthRead[r] = length[i]
    <3>1. /\ tailRead[r] \in Nat \cup {NotRead}
          /\ headRead[r] \in Nat \cup {NotRead}
          /\ tailSeen[r] \in Nat \cup {NotRead}
          /\ headSeen[r] \in Nat \cup {NotRead}
      BY DEF IInv, TypeOK
    <3>2. /\ tailRead[r] = NotRead <=> tailSeen[r] = NotRead
          /\ headRead[r] = NotRead <=> headSeen[r] = NotRead
          /\ tailSeen[r] # NotRead =>
               pos[r] <= tailSeen[r] /\ tailSeen[r] <= Len(log[i])
      BY <2>2 DEF IInv, ReadInv
    <3>3. headRead[r] # NotRead => headSeen[r] = From(r)
      BY <3>2 DEF From
    <3> QED BY <2>2, <2>3, <2>4, <3>1, <3>2, <3>3
  <2>6. ASSUME UNCHANGED <<log[i], polled[i], tail[i], head[i], length[i]>>,
               UNCHANGED <<tailRead[r], headRead[r], lengthRead[r],
                           tailSeen[r], headSeen[r]>>
        PROVE  Reads(r)'
    BY <2>2, <2>4, <2>6 DEF After
  <2>7. ASSUME NEW s \in Requests, PollFirst(s)
        PROVE  Reads(r)'
    <3>1. /\ UNCHANGED reads
          /\ UNCHANGED <<log, tail, length>>
          /\ ip[s] # i => polled'[i] = polled[i] /\ head'[i] = head[i]
          /\ ip[s] = i => polled'[i] = polled[i] + 1 /\ head'[i] = Inc(head[i], length[i])
      BY <2>7 DEF PollFirst, IInv, TypeOK
    <3>2. CASE ip[s] # i
      BY <2>6, <3>1, <3>2 DEF reads
    <3>3. CASE ip[s] = i
      <4>1. ASSUME headRead[r] # NotRead
            PROVE  After(Inc(head[i], length[i]), headRead[r],
                         polled[i] - headSeen[r] + 1, length[i])
        <5>1. /\ polled[i] - headSeen[r] \in Nat
              /\ polled[i] - headSeen[r] < length[i]
              /\ headRead[r] \in 0..(length[i] - 1)
          BY <2>2, <2>3, <2>5, <4>1, SMTT(30)
        <5>2. After(head[i], headRead[r], polled[i] - headSeen[r], length[i])
          BY <2>2, <2>4, <4>1
        <5> QED BY <2>3, <5>1, <5>2, IncAfter
      <4>2. headRead[r] # NotRead =>
              polled[i] - headSeen[r] + 1 = (polled[i] + 1) - headSeen[r]
        BY <2>2, <2>5
      <4> QED BY <2>2, <2>4, <3>1, <3>3, <4>1, <4>2 DEF reads, After
    <3> QED BY <3>2, <3>3
  <2>8. ASSUME NEW s \in Requests, AddLast(s)
        PROVE  Reads(r)'
    <3>1. /\ UNCHANGED reads
          /\ UNCHANGED <<polled, head, length>>
          /\ ip[s] # i => log'[i] = log[i] /\ tail'[i] = tail[i]
          /\ ip[s] = i => log'[i] = Append(log[i], s) /\ tail'[i] = Inc(tail[i], length[i])
      BY <2>8 DEF AddLast, IInv, TypeOK
    <3>2. CASE ip[s] # i
      BY <2>6, <3>1, <3>2 DEF reads
    <3>3. CASE ip[s] = i
      <4>1. ASSUME tailRead[r] # NotRead
            PROVE  After(Inc(tail[i], length[i]), tailRead[r],
                         Len(log[i]) - tailSeen[r] + 1, length[i])
        <5>1. /\ Len(log[i]) - tailSeen[r] \in Nat
              /\ Len(log[i]) - tailSeen[r] < length[i]
              /\ tailRead[r] \in 0..(length[i] - 1)
          <6>1. /\ tailRead[r] \in 0..(length[i] - 1) /\ tailSeen[r] \in Nat
                /\ pos[r] <= tailSeen[r] /\ tailSeen[r] <= Len(log[i])
            BY <2>5, <4>1
          <6> QED BY <2>2, <2>3, <6>1, Gaps
        <5>2. After(tail[i], tailRead[r], Len(log[i]) - tailSeen[r], length[i])
          BY <2>2, <2>4, <4>1
        <5> QED BY <2>3, <5>1, <5>2, IncAfter
      <4>2. tailRead[r] # NotRead =>
              Len(log[i]) - tailSeen[r] + 1 = (Len(log[i]) + 1) - tailSeen[r]
        BY <2>2, <2>5
      <4>3. Len(log'[i]) = Len(log[i]) + 1
        <5>1. log[i] \in Seq(Requests)
          BY DEF IInv, TypeOK
        <5> QED BY <3>1, <3>3, <5>1
      <4> QED BY <2>2, <2>4, <3>1, <3>3, <4>1, <4>2, <4>3 DEF reads, After
    <3> QED BY <3>2, <3>3
  <2>9. ASSUME NEW s \in Requests, Grow(s)
        PROVE  Reads(r)'
    <3>1. ip[s] # i
      BY <2>2, <2>9 DEF Growing, Grow
    <3>2. /\ UNCHANGED reads /\ UNCHANGED <<log, polled, tail>>
          /\ length'[i] = length[i] /\ head'[i] = head[i]
      BY <2>9, <3>1 DEF Grow, IInv, TypeOK
    <3> QED BY <2>6, <3>2 DEF reads
  <2>10. ASSUME NEW s \in Requests, ReadTail(s)
         PROVE  Reads(r)'
    <3>1. /\ UNCHANGED deque
          /\ UNCHANGED <<headRead, lengthRead, headSeen>>
          /\ s # r => tailRead'[r] = tailRead[r] /\ tailSeen'[r] = tailSeen[r]
          /\ s = r => tailRead'[r] = tail[i] /\ tailSeen'[r] = Len(log[i])
      BY <2>2, <2>10 DEF ReadTail, IInv, TypeOK
    <3>2. CASE s # r
      BY <2>6, <3>1, <3>2 DEF deque
    <3>3. CASE s = r
      <4>1. After(tail[i], tail[i], Len(log[i]) - Len(log[i]), length[i])
        BY <2>2, <2>3 DEF After
      <4> QED BY <2>2, <2>3, <2>4, <3>1, <3>3, <4>1 DEF deque, After
    <3> QED BY <3>2, <3>3
  <2>11. ASSUME NEW s \in Requests, ReadHead(s)
         PROVE  Reads(r)'
    <3>1. /\ UNCHANGED deque
          /\ UNCHANGED <<tailRead, lengthRead, tailSeen>>
          /\ s # r => headRead'[r] = headRead[r] /\ headSeen'[r] = headSeen[r]
          /\ s = r => headRead'[r] = head[i] /\ headSeen'[r] = polled[i]
      BY <2>2, <2>11 DEF ReadHead, IInv, TypeOK
    <3>2. CASE s # r
      BY <2>6, <3>1, <3>2 DEF deque
    <3>3. CASE s = r
      <4>1. After(head[i], head[i], polled[i] - polled[i], length[i])
        BY <2>2, <2>3 DEF After
      <4> QED BY <2>2, <2>3, <2>4, <3>1, <3>3, <4>1 DEF deque, After
    <3> QED BY <3>2, <3>3
  <2>12. ASSUME NEW s \in Requests, ReadLength(s)
         PROVE  Reads(r)'
    <3>1. /\ UNCHANGED <<deque, tailRead, headRead, tailSeen, headSeen>>
          /\ lengthRead'[r] \in {lengthRead[r], length[i]}
      BY <2>2, <2>12 DEF ReadLength, IInv, TypeOK
    <3> QED BY <2>2, <2>4, <3>1 DEF deque, After
  <2>13. ASSUME NEW s \in Requests,
                Bypass(s) \/ Arrive(s) \/ EnterCompute(s) \/ Decide(s)
         PROVE  Reads(r)'
    <3>1. UNCHANGED <<deque, reads>>
      BY <2>13 DEF Bypass, Arrive, EnterCompute, Decide
    <3> QED BY <2>6, <3>1 DEF deque, reads
  <2>14. CASE Tick \/ UNCHANGED vars
    <3>1. UNCHANGED <<deque, reads>>
      BY <2>14 DEF Tick, vars
    <3> QED BY <2>6, <3>1 DEF deque, reads
  <2> HIDE DEF Reads
  <2>15. ASSUME NEW s \in Requests, Bypass(s) \/ Arrive(s) \/ Step(s)
         PROVE  Reads(r)'
    BY <2>15, <2>7, <2>8, <2>9, <2>10, <2>11, <2>12, <2>13 DEF Step
  <2> QED BY <2>14, <2>15 DEF Next, Done
<1> QED BY <1>1, <1>2

\* A decision within a window of the arrival, of a request that is not
\* crowded, was made on the exact size.
LEMMA ExactStep ==
  ASSUME IInv, IInv', DequeInv, ArrayInv, ExactInv, [Next]_vars
  PROVE  ExactInv'
<1> SUFFICES ASSUME NEW r \in Requests, Decided(r)',
                    decidedAt'[r] - now'[r] <= Window, ~Crowded(r)'
             PROVE  SizeOf(tailRead'[r], headRead'[r], lengthRead'[r])
                      = tailSeen'[r] - headSeen'[r]
  BY DEF ExactInv
<1>1. CASE Decided(r)
  <2>1. Logged(r)
    BY <1>1 DEF Decided, Logged
  <2>2. ~Crowded(r)
    BY <2>1, CrowdedStays
  <2>3. now'[r] = now[r] /\ UNCHANGED <<decidedAt[r], tailRead[r], headRead[r],
                                        lengthRead[r], tailSeen[r], headSeen[r]>>
    BY <1>1, <2>1, HistoryStays
  <2> QED BY <1>1, <2>2, <2>3 DEF ExactInv
<1>2. CASE Decide(r) /\ decidedAt'[r] = clock
  <2>1. /\ pc[r] = "logged" /\ clock' = clock /\ now' = now /\ UNCHANGED reads
        /\ NotRead \notin {tailRead[r], headRead[r], lengthRead[r]}
    BY <1>2 DEF Decide
  <2>2. Sparse(r)
    BY <1>2, <2>1, SparseBefore
  <2>3. PICK i \in Ips : /\ i = ip[r] /\ ~Growing(i)
                         /\ Len(log[i]) \in Nat /\ polled[i] \in Nat
                         /\ From(r) \in Nat /\ From(r) <= polled[i]
                         /\ polled[i] < pos[r] /\ pos[r] \in Nat
                         /\ pos[r] <= Len(log[i])
                         /\ Len(log[i]) - From(r) < Capacity
    BY <2>2, SparseFacts
  <2>4. /\ length[i] \in Nat /\ length[i] >= Capacity
        /\ tail[i] \in 0..(length[i] - 1)
        /\ head[i] \in 0..(length[i] - 1)
    BY FieldTypes
  <2>5. /\ tailSeen[r] \in Nat /\ headSeen[r] \in Nat /\ headSeen[r] = From(r)
        /\ tailRead[r] \in Nat /\ headRead[r] \in Nat
        /\ pos[r] <= tailSeen[r] /\ tailSeen[r] <= Len(log[i])
    BY <2>1, <2>3 DEF IInv, TypeOK, ReadInv, From
  <2>6. /\ lengthRead[r] = length[i]
        /\ tailRead[r] \in 0..(length[i] - 1)
        /\ headRead[r] \in 0..(length[i] - 1)
        /\ After(tail[i], tailRead[r], Len(log[i]) - tailSeen[r], length[i])
        /\ After(head[i], headRead[r], polled[i] - headSeen[r], length[i])
    BY <2>1, <2>2, <2>3, <2>4, <2>5 DEF ArrayInv
  <2>7. Len(log[i]) - polled[i] = SizeOf(tail[i], head[i], length[i])
    BY <2>3 DEF DequeInv
  <2> DEFINE a == Len(log[i]) - tailSeen[r]
             b == polled[i] - headSeen[r]
             d == SizeOf(tail[i], head[i], length[i])
  <2>8. /\ a \in Nat /\ b \in Nat
        /\ d - a + b = tailSeen[r] - headSeen[r]
        /\ d - a + b \in 0..(length[i] - 1)
    <3>1. d = Len(log[i]) - polled[i]
      BY <2>7
    <3> HIDE DEF d
    <3>2. Capacity \in Nat
      OBVIOUS
    <3>3. headSeen[r] <= polled[i] /\ Len(log[i]) - headSeen[r] < Capacity
      BY <2>3, <2>5
    <3>4. /\ a \in Nat /\ b \in Nat
          /\ tailSeen[r] - headSeen[r] \in 0..(length[i] - 1)
          /\ (Len(log[i]) - polled[i]) - a + b = tailSeen[r] - headSeen[r]
      <4>1. /\ Len(log[i]) \in Nat /\ tailSeen[r] \in Nat /\ pos[r] \in Nat
            /\ polled[i] \in Nat /\ headSeen[r] \in Nat /\ length[i] \in Nat
            /\ headSeen[r] <= polled[i] /\ polled[i] < pos[r]
            /\ pos[r] <= tailSeen[r] /\ tailSeen[r] <= Len(log[i])
            /\ Len(log[i]) - headSeen[r] < Capacity /\ length[i] >= Capacity
        BY <2>3, <2>4, <2>5, <3>3
      <4>2. a \in Nat /\ b \in Nat
        BY <4>1
      <4>3. tailSeen[r] - headSeen[r] \in 0..(length[i] - 1)
        BY <3>2, <4>1
      <4>4. (Len(log[i]) - polled[i]) - a + b = tailSeen[r] - headSeen[r]
        BY <4>1
      <4> QED BY <4>2, <4>3, <4>4
    <3> HIDE DEF a, b
    <3> QED BY <3>1, <3>4
  <2>9. SizeOf(tailRead[r], headRead[r], length[i]) = d - a + b
    <3>1. After(tail[i], tailRead[r], a, length[i]) /\ After(head[i], headRead[r], b, length[i])
      BY <2>6
    <3>2. SizeOf(tail[i], head[i], length[i]) - a + b \in 0..(length[i] - 1)
      BY <2>8
    <3>3. a \in Nat /\ b \in Nat
      BY <2>8
    <3>4. /\ length[i] \in Nat
          /\ tail[i] \in 0..(length[i] - 1) /\ tailRead[r] \in 0..(length[i] - 1)
          /\ head[i] \in 0..(length[i] - 1) /\ headRead[r] \in 0..(length[i] - 1)
      BY <2>4, <2>6
    <3> HIDE DEF a, b
    <3> QED BY <3>1, <3>2, <3>3, <3>4, SMTT(60) DEF After, SizeOf
  <2>10. SizeOf(tailRead[r], headRead[r], lengthRead[r]) = tailSeen[r] - headSeen[r]
    <3> HIDE DEF a, b, d
    <3> QED BY <2>6, <2>8, <2>9
  <2> QED BY <2>1, <2>10 DEF reads
<1> QED BY <1>1, <1>2, HistoryStays

\* In every state RateLimitFilter can reach the fields of a deque fit its
\* contents, and an unlocked size() of a request that is neither crowded nor
\* late gives the number of timestamps between its two reads.
THEOREM DequeInvariant == Spec => []AInv
<1>1. IInv /\ IInv' /\ AInv /\ [Next]_vars => AInv'
  BY DequeStep, ArrayStep, ExactStep DEF AInv
<1> QED BY <1>1, AInit, InductiveInvariant, PTL DEF Spec

\* A decided request that is crowded had Capacity requests logged around it.
LEMMA CrowdedCount ==
  ASSUME IInv, NEW r \in Requests, Decided(r), Crowded(r)
  PROVE  Cardinality(LoggedAround(r)) >= Capacity
<1> USE DEF IInv
<1> DEFINE i == ip[r]
           C == LoggedAround(r)
<1>1. i \in Ips
  BY DEF TypeOK, Decided
<1>2. PICK p \in 1..Len(log[i]) :
        /\ p + Capacity - 1 <= Len(log[i])
        /\ loggedAt[log[i][p]] >= now[r] - Window
        /\ loggedAt[log[i][p + Capacity - 1]] <= decidedAt[r]
  BY DEF Crowded
<1> DEFINE q == p + Capacity - 1
<1>3. Len(log[i]) \in Nat /\ p \in Nat /\ q \in 1..Len(log[i]) /\ p <= q
  BY <1>1, <1>2, LogType
<1>4. ASSUME NEW k \in p..q
      PROVE  log[i][k] \in C /\ pos[log[i][k]] = k
  <2>1. k \in 1..Len(log[i]) /\ p <= k /\ k <= q
    BY <1>2, <1>3
  <2>2. /\ log[i][k] \in Requests /\ Logged(log[i][k])
        /\ ip[log[i][k]] = i /\ pos[log[i][k]] = k
    BY <1>1, <2>1, LogType DEF LogInv
  <2>3. /\ loggedAt[log[i][p]] <= loggedAt[log[i][k]]
        /\ loggedAt[log[i][k]] <= loggedAt[log[i][q]]
    BY <1>1, <1>3, <2>1 DEF LogInv
  <2>4. log[i][p] \in Requests /\ log[i][q] \in Requests
    BY <1>1, <1>3, LogType
  <2>5. /\ loggedAt[log[i][k]] \in Nat /\ now[r] \in Nat /\ decidedAt[r] \in Nat
        /\ loggedAt[log[i][p]] \in Nat /\ loggedAt[log[i][q]] \in Nat
    BY <2>2, <2>4 DEF TypeOK
  <2>6. loggedAt[log[i][q]] <= decidedAt[r]
    BY <1>2
  <2> HIDE DEF i, q
  <2>7. loggedAt[log[i][k]] >= now[r] - Window
    <3>1. loggedAt[log[i][p]] >= now[r] - Window
      BY <1>2
    <3> QED BY <2>3, <2>5, <3>1
  <2>8. loggedAt[log[i][k]] <= decidedAt[r]
    BY <2>3, <2>5, <2>6
  <2> QED BY <2>2, <2>7, <2>8 DEF LoggedAround, Logged, i
<1> DEFINE f == [k \in p..q |-> log[i][k]]
<1>5. f \in Injection(p..q, C)
  <2>1. f \in [p..q -> C]
    BY <1>4
  <2>2. ASSUME NEW x \in p..q, NEW y \in p..q, f[x] = f[y]
        PROVE  x = y
    BY <2>2, <1>4
  <2> QED BY <2>1, <2>2 DEF Injection, IsInjective
<1>6. IsFiniteSet(C)
  <2>1. C \subseteq Requests
    BY DEF LoggedAround
  <2> QED BY <2>1, RequestsAssumption, FS_Subset
<1>7. Cardinality(p..q) <= Cardinality(C)
  <2> HIDE DEF C, f, q
  <2> QED BY <1>5, <1>6, FS_Injection
<1>8. Cardinality(p..q) = Capacity
  <2>1. p \in Int /\ q \in Int /\ ~(p > q) /\ q - p + 1 = Capacity
    BY <1>3
  <2> HIDE DEF q
  <2> QED BY <2>1, FS_Interval
<1>9. Cardinality(C) \in Nat
  BY <1>6, FS_CardinalityType
<1> QED BY <1>7, <1>8, <1>9

\* An admitted request decided within a window of its own arrival counted
\* every request of its address up to its own that is as recent.
LEMMA AdmittedCount ==
  ASSUME IInv, ExactInv, NEW i \in Ips, NEW S \in SUBSET Admitted(i),
         WithinOneWindow(S), NEW y \in S, \A x \in S : pos[x] <= pos[y],
         ~Crowded(y)
  PROVE  Cardinality(S) <= MaxRequests
<1> USE DEF IInv
<1> DEFINE h == headSeen[y]
           t == tailSeen[y]
<1>1. \A x \in S : /\ x \in Requests /\ ip[x] = i /\ Logged(x) /\ Decided(x)
                   /\ pc[x] = "admitted"
  BY DEF Admitted, Logged, Decided
<1>2. h \in Nat /\ t \in Nat /\ pos[y] <= t /\ t - h <= MaxRequests
  <2>1. y \in Requests /\ Decided(y) /\ h \in Nat /\ t \in Nat
    BY <1>1, SeenInLog
  <2>2. pos[y] <= t
    BY <2>1 DEF ReadInv, NotRead
  <2>3. decidedAt[y] - now[y] <= Window
    BY DEF WithinOneWindow
  <2>4. SizeOf(tailRead[y], headRead[y], lengthRead[y]) = t - h
    BY <2>1, <2>3 DEF ExactInv
  <2>5. SizeOf(tailRead[y], headRead[y], lengthRead[y]) <= MaxRequests
    BY <1>1, <2>1 DEF DecisionInv
  <2> QED BY <2>1, <2>2, <2>4, <2>5
<1>3. \A x \in S : pos[x] \in Nat /\ pos[x] <= t
  BY <1>1, <1>2 DEF TypeOK
<1>4. ASSUME NEW x \in S PROVE pos[x] > h
  <2>1. pos[x] \in 1..Len(log[i]) /\ log[i][pos[x]] = x
    BY <1>1 DEF LogInv
  <2>2. now[x] \in Nat /\ decidedAt[y] \in Nat /\ decidedAt[y] - now[x] <= Window
    BY <1>1 DEF TypeOK, WithinOneWindow
  <2>3. pos[x] \in 1..h => now[x] + Window < decidedAt[y]
    BY <1>1, <2>1 DEF DecisionInv
  <2>4. pos[x] \notin 1..h
    BY <2>2, <2>3
  <2>5. pos[x] \in Nat /\ pos[x] >= 1
    BY <1>3, <2>1
  <2> QED BY <1>2, <2>4, <2>5
<1>5. t > h /\ t - h <= MaxRequests
  BY <1>2, <1>3, <1>4
<1> DEFINE f == [x \in S |-> pos[x] - h]
<1>6. f \in Injection(S, 1..(t - h))
  <2>1. ASSUME NEW x \in S PROVE f[x] \in 1..(t - h)
    BY <1>2, <1>3, <1>4, <1>5
  <2>2. ASSUME NEW x \in S, NEW z \in S, f[x] = f[z] PROVE x = z
    <3>1. pos[x] = pos[z]
      BY <2>2, <1>2, <1>3
    <3> QED BY <3>1, <1>1 DEF LogInv
  <2>3. f \in [S -> 1..(t - h)]
    BY <2>1
  <2> QED BY <2>2, <2>3 DEF Injection, IsInjective
<1>7. IsFiniteSet(1..(t - h)) /\ Cardinality(1..(t - h)) = t - h
  <2>1. t - h \in Nat /\ 1 <= t - h /\ (t - h) - 1 + 1 = t - h
    BY <1>2, <1>5
  <2> HIDE DEF h, t
  <2> QED BY <2>1, FS_Interval
<1>8. IsFiniteSet(S) /\ Cardinality(S) <= Cardinality(1..(t - h))
  BY <1>6, <1>7, FS_Injection
<1>9. Cardinality(S) \in Nat
  BY <1>8, FS_CardinalityType
<1> QED BY <1>2, <1>5, <1>7, <1>8, <1>9

\* Of the requests of one address that arrive and are decided inside one
\* window, at most MaxRequests pass, whatever the interleaving, as long as
\* fewer than the slots of a new ArrayDeque were logged around each of them.
THEOREM LimitHolds == Spec => []WindowBound
<1>1. IInv /\ AInv => WindowBound
  <2> SUFFICES ASSUME IInv, AInv, NEW i \in Ips, NEW S \in SUBSET Admitted(i),
                      WithinOneWindow(S),
                      \A r \in S : Cardinality(LoggedAround(r)) < Capacity
               PROVE  Cardinality(S) <= MaxRequests
    BY DEF WindowBound
  <2>1. CASE S = {}
    BY <2>1, FS_EmptySet
  <2>2. CASE S # {}
    <3> DEFINE g == [x \in S |-> pos[x]]
    <3>1. S \subseteq Requests /\ IsFiniteSet(S)
      <4>1. S \subseteq Requests
        BY DEF Admitted
      <4> QED BY <4>1, RequestsAssumption, FS_Subset
    <3>2. g \in [S -> Int]
      BY <3>1 DEF IInv, TypeOK
    <3>3. PICK y \in S : \A x \in S : g[x] <= g[y]
      <4> HIDE DEF g
      <4> QED BY <2>2, <3>1, <3>2, FiniteMaximum
    <3>4. \A x \in S : pos[x] <= pos[y]
      BY <3>3
    <3>5. y \in Requests /\ Decided(y) /\ Cardinality(LoggedAround(y)) < Capacity
      BY <3>1 DEF Admitted, Decided
    <3>6. Cardinality(LoggedAround(y)) \in Nat
      <4>1. LoggedAround(y) \subseteq Requests
        BY DEF LoggedAround
      <4>2. IsFiniteSet(LoggedAround(y))
        BY <4>1, RequestsAssumption, FS_Subset
      <4> QED BY <4>2, FS_CardinalityType
    <3>7. ~Crowded(y)
      BY <3>5, <3>6, CrowdedCount
    <3> QED BY <3>4, <3>7, AdmittedCount DEF AInv
  <2> QED BY <2>1, <2>2
<1> QED BY <1>1, InductiveInvariant, DequeInvariant, PTL

\* A request that is decided within a window of its arrival is refused only
\* when more than MaxRequests requests of its address were logged in it.  The
\* limit must fit a new ArrayDeque (5 in 17 slots): a size() that overlaps the
\* growth may read more than was ever logged, but only when it is full.
THEOREM RefusalsJustified ==
  ASSUME MaxRequests < Capacity
  PROVE  Spec => []RejectionJustified
<1>1. IInv /\ AInv => RejectionJustified
  <2> SUFFICES ASSUME IInv, AInv, NEW r \in Requests, pc[r] = "rejected",
                      decidedAt[r] - now[r] <= Window
               PROVE  Cardinality(LoggedAround(r)) > MaxRequests
    BY DEF RejectionJustified
  <2> USE DEF IInv
  <2> DEFINE i == ip[r]
             h == headSeen[r]
             t == tailSeen[r]
             C == LoggedAround(r)
  <2>0. IsFiniteSet(C)
    <3>1. C \subseteq Requests
      BY DEF LoggedAround
    <3> QED BY <3>1, RequestsAssumption, FS_Subset
  <2>1. Logged(r) /\ Decided(r)
    BY DEF Logged, Decided
  <2>2. /\ i \in Ips /\ h \in Nat /\ t \in Nat
        /\ 1..t \subseteq 1..Len(log[i])
        /\ 1..h \subseteq 1..Len(log[i])
    BY <2>1, SeenInLog
  <2>3. pos[r] > h /\ pos[r] <= t
    <3>1. pos[r] \in 1..Len(log[i]) /\ log[i][pos[r]] = r /\ pos[r] <= t
      BY <2>1 DEF LogInv, ReadInv, Decided
    <3>2. pos[r] \in 1..h => now[r] + Window < decidedAt[r]
      BY <2>1, <3>1 DEF DecisionInv
    <3>3. now[r] \in Nat /\ decidedAt[r] \in Nat /\ pos[r] \in Nat
      BY DEF TypeOK
    <3>4. pos[r] \notin 1..h
      BY <3>2, <3>3
    <3> QED BY <2>2, <3>1, <3>3, <3>4
  <2>4. CASE Crowded(r)
    <3>1. Cardinality(C) >= Capacity
      BY <2>1, <2>4, CrowdedCount
    <3>2. Cardinality(C) \in Nat
      BY <2>0, FS_CardinalityType
    <3> HIDE DEF C
    <3>3. C = LoggedAround(r)
      BY DEF C
    <3> QED BY <3>1, <3>2, <3>3
  <2> SUFFICES ASSUME ~Crowded(r) PROVE Cardinality(C) > MaxRequests
    BY <2>4
  <2>11. pos[r] \in Nat /\ t > h /\ t - h > MaxRequests
    <3>1. pos[r] \in Nat
      BY DEF TypeOK
    <3>2. SizeOf(tailRead[r], headRead[r], lengthRead[r]) = t - h
      BY <2>1 DEF AInv, ExactInv
    <3>3. ~(SizeOf(tailRead[r], headRead[r], lengthRead[r]) <= MaxRequests)
      BY <2>1 DEF DecisionInv
    <3> QED BY <2>2, <2>3, <3>1, <3>2, <3>3
  <2>5. ASSUME NEW p \in (h + 1)..t
        PROVE  log[i][p] \in C /\ pos[log[i][p]] = p
    <3>1. p \in 1..t /\ p \in 1..Len(log[i]) /\ p > h
      BY <2>2
    <3>2. /\ log[i][p] \in Requests /\ Logged(log[i][p])
          /\ ip[log[i][p]] = i /\ pos[log[i][p]] = p
      BY <2>2, <3>1, LogType DEF LogInv
    <3>3. From(r) = h
      BY <2>1 DEF From, ReadInv
    <3>4. loggedAt[log[i][p]] >= now[r] - Window
      BY <2>1, <3>1, <3>3 DEF CountedInv
    <3>5. loggedAt[log[i][p]] <= decidedAt[r]
      BY <2>1, <3>1 DEF DecisionInv
    <3> QED BY <3>2, <3>4, <3>5 DEF LoggedAround, Logged
  <2> DEFINE f == [p \in (h + 1)..t |-> log[i][p]]
  <2>6. f \in Injection((h + 1)..t, C)
    <3>1. f \in [(h + 1)..t -> C]
      BY <2>5
    <3>2. ASSUME NEW p \in (h + 1)..t, NEW q \in (h + 1)..t, f[p] = f[q]
          PROVE  p = q
      BY <3>2, <2>5
    <3> QED BY <3>1, <3>2 DEF Injection, IsInjective
  <2>8. Cardinality((h + 1)..t) <= Cardinality(C)
    <3> HIDE DEF C, f, h, t
    <3> QED BY <2>6, <2>0, FS_Injection
  <2>9. Cardinality((h + 1)..t) = t - h
    <3>1. h + 1 \in Int /\ t \in Int /\ ~(h + 1 > t) /\ t - (h + 1) + 1 = t - h
      BY <2>2, <2>11
    <3> HIDE DEF h, t
    <3> QED BY <3>1, FS_Interval
  <2>10. Cardinality(C) \in Nat
    BY <2>0, FS_CardinalityType
  <2> QED BY <2>2, <2>11, <2>8, <2>9, <2>10
<1> QED BY <1>1, InductiveInvariant, DequeInvariant, PTL

(***************************************************************************)
(* Progress                                                                *)
(***************************************************************************)

\* The polls, the append and the growth that are left.
LoopsLeft(r) ==
  IF pc[r] = "growing" THEN 0 ELSE 1 + Len(log[ip[r]]) - polled[ip[r]]

\* As long as a request is in the lambda nobody else changes the deque of its
\* address, and each of its own steps leaves it less to do: whoever waits for
\* the lock, waits for one that ends.
THEOREM PruningRunsOut ==
  Spec => [][\A r \in Requests : InCompute(r) =>
               \/ pc'[r] = "logged"
               \/ LoopsLeft(r)' \in Nat /\ LoopsLeft(r)' < LoopsLeft(r)
               \/ /\ UNCHANGED <<pc[r], ip[r], log[ip[r]], polled[ip[r]]>>
                  /\ ~Step(r)]_vars
<1> DEFINE Ends(r) ==
             \/ pc'[r] = "logged"
             \/ LoopsLeft(r)' \in Nat /\ LoopsLeft(r)' < LoopsLeft(r)
             \/ /\ UNCHANGED <<pc[r], ip[r], log[ip[r]], polled[ip[r]]>>
                /\ ~Step(r)
           AllEnd == \A r \in Requests : InCompute(r) => Ends(r)
<1>1. ASSUME IInv, IInv', [Next]_vars PROVE [AllEnd]_vars
  <2> SUFFICES ASSUME Next, NEW r \in Requests, InCompute(r), vars' # vars
               PROVE  Ends(r)
    BY <1>1
  <2> USE <1>1 DEF IInv, TypeOK
  <2>1. /\ ip[r] \in Ips /\ log[ip[r]] \in Seq(Requests)
        /\ polled[ip[r]] \in Nat /\ Len(log[ip[r]]) \in Nat
        /\ polled[ip[r]] <= Len(log[ip[r]])
    <3>1. ip[r] \in Ips
      BY DEF InCompute
    <3> QED BY <3>1, LogType
  <2>2. CASE PollFirst(r)
    <3>1. /\ pc[r] = "pruning" /\ pc'[r] = "pruning"
          /\ ip' = ip /\ log' = log /\ polled'[ip[r]] = polled[ip[r]] + 1
      BY <2>1, <2>2 DEF PollFirst
    <3>2. polled'[ip[r]] <= Len(log[ip[r]])
      BY <2>1, <3>1
    <3> HIDE DEF IInv, TypeOK
    <3>3. ASSUME NEW l \in Nat, NEW h \in Nat, h + 1 <= l
          PROVE  1 + l - (h + 1) \in Nat /\ 1 + l - (h + 1) < 1 + l - h
      BY <3>3
    <3> QED BY <2>1, <3>1, <3>2, <3>3 DEF LoopsLeft
  <2>3. CASE AddLast(r)
    <3>1. pc[r] = "pruning" /\ pc'[r] \in {"growing", "logged"}
      BY <2>3 DEF AddLast
    <3>2. 0 \in Nat /\ 0 < 1 + Len(log[ip[r]]) - polled[ip[r]]
      BY <2>1, SMTT(30)
    <3> HIDE DEF IInv, TypeOK
    <3>3. CASE pc'[r] = "growing"
      <4>1. LoopsLeft(r)' = 0
        BY <3>3 DEF LoopsLeft
      <4>2. LoopsLeft(r) = 1 + Len(log[ip[r]]) - polled[ip[r]]
        BY <3>1 DEF LoopsLeft
      <4> QED BY <3>2, <4>1, <4>2
    <3> QED BY <3>1, <3>3
  <2>4. CASE Grow(r)
    BY <2>4 DEF Grow
  <2>5. CASE EnterCompute(r) \/ ReadTail(r) \/ ReadHead(r) \/ ReadLength(r) \/ Decide(r)
    BY <2>5 DEF EnterCompute, ReadTail, ReadHead, ReadLength, Decide, InCompute
  <2>6. CASE ~Step(r)
    <3>1. ASSUME NEW s \in Requests \ {r}, PollFirst(s) \/ AddLast(s)
          PROVE  UNCHANGED <<pc[r], ip[r], log[ip[r]], polled[ip[r]]>>
      <4>1. ip[s] # ip[r]
        BY <3>1 DEF PollFirst, AddLast, InCompute, LockInv
      <4>2. /\ ip' = ip /\ pc'[r] = pc[r]
            /\ log'[ip[r]] = log[ip[r]] /\ polled'[ip[r]] = polled[ip[r]]
        BY <2>1, <3>1, <4>1 DEF PollFirst, AddLast
      <4> QED BY <4>2
    <3>2. ASSUME NEW s \in Requests \ {r},
                 \/ EnterCompute(s) \/ Grow(s) \/ ReadTail(s) \/ ReadHead(s)
                 \/ ReadLength(s) \/ Decide(s) \/ Bypass(s) \/ Arrive(s)
          PROVE  UNCHANGED <<pc[r], ip[r], log[ip[r]], polled[ip[r]]>>
      BY <3>2 DEF EnterCompute, Grow, ReadTail, ReadHead, ReadLength, Decide,
                  Bypass, Arrive, deque
    <3>3. ~Bypass(r) /\ ~Arrive(r)
      BY DEF Bypass, Arrive, InCompute
    <3>4. CASE Tick \/ Done
      BY <2>6, <3>4 DEF Tick, Done, vars, deque
    <3> HIDE DEF IInv, TypeOK
    <3>5. CASE \E s \in Requests : Bypass(s) \/ Arrive(s) \/ Step(s)
      <4>1. PICK s \in Requests \ {r} : Bypass(s) \/ Arrive(s) \/ Step(s)
        BY <2>6, <3>3, <3>5
      <4> QED BY <2>6, <3>1, <3>2, <4>1 DEF Step
    <3> QED BY <3>4, <3>5 DEF Next
  <2> QED BY <2>2, <2>3, <2>4, <2>5, <2>6 DEF Step
<1> QED BY <1>1, InductiveInvariant, PTL DEF Spec

=============================================================================
