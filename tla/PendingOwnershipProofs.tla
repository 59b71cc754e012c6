------------------------ MODULE PendingOwnershipProofs ------------------------
(***************************************************************************)
(* Machine-checked proofs about PendingOwnership for any sets of tokens,   *)
(* resources and closers, finite or not.                                   *)
(***************************************************************************)
EXTENDS PendingOwnership, SequenceTheorems, TLAPS

States == OwnerStates \cup CloserStates

(* A step of a task that does not wait itself leaves the waiters parked. *)
LEMMA MoverIsNotQueued ==
  ASSUME TypeOK, QueueHoldsParked, NEW p \in Procs, pc[p] # "parked", NEW s \in States
  PROVE  /\ [pc EXCEPT ![p] = s] \in [Procs -> States]
         /\ \A i \in 1..Len(queue) : queue[i] \in Procs /\ [pc EXCEPT ![p] = s][queue[i]] = "parked"
  BY DEF TypeOK, QueueHoldsParked, States

(* notify_one wakes one parked waiter at most and keeps the queue right. *)
LEMMA NotifyOneEffect ==
  ASSUME TypeOK, QueueHoldsParked, NEW moved \in [Procs -> States],
         \A i \in 1..Len(queue) : moved[queue[i]] = "parked",
         NotifyOne(moved)
  PROVE  /\ pc' \in [Procs -> States]
         /\ queue' \in Seq(Procs)
         /\ stored' \in BOOLEAN
         /\ \A p \in Procs : pc'[p] = moved[p] \/ (moved[p] = "parked" /\ pc'[p] = "woken")
         /\ QueueHoldsParked'
<1>1. CASE queue = <<>>
  BY <1>1 DEF NotifyOne, TypeOK, QueueHoldsParked
<1>2. CASE queue # <<>>
  <2>1. queue \in Seq(Procs) /\ Len(queue) \in Nat /\ Len(queue) > 0
    BY <1>2 DEF TypeOK
  <2>2. queue' = Tail(queue) /\ pc' = [moved EXCEPT ![queue[1]] = "woken"] /\ stored' = stored
    BY <1>2 DEF NotifyOne
  <2>3. Len(queue') = Len(queue) - 1 /\ \A i \in 1..Len(queue') : queue'[i] = queue[i + 1]
    BY <2>1, <2>2
  <2>4. queue[1] \in Procs /\ moved[queue[1]] = "parked"
    BY <2>1
  <2>5. \A i \in 1..Len(queue') : queue'[i] # queue[1] /\ queue'[i] \in Procs
    BY <2>1, <2>3 DEF QueueHoldsParked
  <2>6. QueueHoldsParked'
    <3>1. \A i \in 1..Len(queue') : pc'[queue'[i]] = "parked"
      BY <2>1, <2>2, <2>3, <2>5
    <3>2. \A i, j \in 1..Len(queue') : queue'[i] = queue'[j] => i = j
      BY SMTT(60), <2>1, <2>3 DEF QueueHoldsParked
    <3> QED BY <3>1, <3>2 DEF QueueHoldsParked
  <2>7. queue' \in Seq(Procs)
    BY <1>2, <2>1, <2>2
  <2>8. pc' \in [Procs -> States]
    BY <2>2, <2>4 DEF States, OwnerStates
  <2> QED BY <2>2, <2>4, <2>6, <2>7, <2>8 DEF TypeOK
<1> QED BY <1>1, <1>2

(* A waiter that gives up leaves the queue. *)
LEMMA WithoutEffect ==
  ASSUME TypeOK, QueueHoldsParked, NEW t \in Procs, NEW i \in 1..Len(queue), queue[i] = t,
         NEW s \in States, queue' = Without(i), pc' = [pc EXCEPT ![t] = s]
  PROVE  queue' \in Seq(Procs) /\ QueueHoldsParked'
<1>1. queue \in Seq(Procs) /\ Len(queue) \in Nat /\ Len(queue) > 0
  BY DEF TypeOK
<1>2. \A j \in 1..(Len(queue) - 1) : Without(i)[j] = IF j < i THEN queue[j] ELSE queue[j + 1]
  BY <1>1 DEF Without
<1>3. Without(i) \in [1..(Len(queue) - 1) -> Procs]
  BY <1>1 DEF Without
<1>4. Without(i) \in Seq(Procs) /\ Len(Without(i)) = Len(queue) - 1
  BY <1>1, <1>3
<1>5. \A j \in 1..(Len(queue) - 1) : Without(i)[j] # t
  BY <1>1, <1>2 DEF QueueHoldsParked
<1>6. \A j \in 1..Len(queue') : pc'[queue'[j]] = "parked"
  <2>1. TAKE j \in 1..Len(queue')
  <2>2. queue'[j] \in Procs /\ queue'[j] # t
    BY <1>3, <1>4, <1>5
  <2>3. pc'[queue'[j]] = pc[queue'[j]]
    BY <2>2 DEF TypeOK
  <2>4. \E k \in 1..Len(queue) : queue'[j] = queue[k]
    BY <1>1, <1>2, <1>4
  <2> QED BY <2>3, <2>4 DEF QueueHoldsParked
<1>7. \A j, k \in 1..Len(queue') : queue'[j] = queue'[k] => j = k
  BY <1>1, <1>2, <1>4 DEF QueueHoldsParked
<1> QED BY <1>4, <1>6, <1>7 DEF QueueHoldsParked

(* A move of a task that is not parked leaves the queue as it was. *)
LEMMA QueueKept ==
  ASSUME TypeOK, QueueHoldsParked, NEW p \in Procs, pc[p] # "parked", NEW s,
         pc' = [pc EXCEPT ![p] = s], queue' = queue
  PROVE  QueueHoldsParked'
  BY DEF TypeOK, QueueHoldsParked

(* The initial state satisfies the inductive invariant. *)
LEMMA InitRegistry == Init => RegistryInvariant
<1> SUFFICES ASSUME Init PROVE RegistryInvariant
  OBVIOUS
<1> USE RegistryAssumption DEF Init
<1>1. TypeOK
  <2>1. /\ pc \in [Procs -> OwnerStates \cup CloserStates]
        /\ \A t \in Tokens : pc[t] \in OwnerStates
        /\ \A c \in Closers : pc[c] \in CloserStates
    BY DEF Procs, OwnerStates, CloserStates
  <2>2. /\ result \in [Tokens -> Outcomes \cup {"none"}]
        /\ told \in [Tokens -> Outcomes \cup {"none"}]
    BY DEF Outcomes
  <2>3. /\ report \in [Closers -> SUBSET Tokens]
        /\ begun \in [Closers -> SUBSET Tokens]
    OBVIOUS
  <2>4. queue \in Seq(Procs) /\ stored \in BOOLEAN
    <3>1. queue = <<>> /\ stored = FALSE
      OBVIOUS
    <3> HIDE DEF Init
    <3> QED BY <3>1, EmptySeq
  <2>5. /\ entry \in [Resources -> Tokens \cup {NoToken}]
        /\ task \in [Tokens -> {"none", "run", "notify"}]
        /\ drives \in [Closers -> Tokens \cup {NoToken}]
    OBVIOUS
  <2>6. cleaning \subseteq Tokens /\ completed \subseteq Tokens /\ waived \subseteq Tokens
    OBVIOUS
  <2> HIDE DEF Init
  <2> QED BY <2>1, <2>2, <2>3, <2>4, <2>5, <2>6 DEF TypeOK
<1>2. QueueHoldsParked
  BY DEF QueueHoldsParked
<1>3. OneDriver /\ UnregisteredIsFresh /\ SettledOrRegistered
  BY DEF OneDriver, UnregisteredIsFresh, SettledOrRegistered, Registered, Procs
<1>4. CloserProgress /\ OwnerProgress /\ NoFailureLost
  BY DEF CloserProgress, OwnerProgress, CloserConsistent, OwnerConsistent, NoFailureLost, Procs
<1> QED BY <1>1, <1>2, <1>3, <1>4 DEF RegistryInvariant

(* The end of a cleanup stores a result and well-typed data. *)
LEMMA CompleteTypes ==
  ASSUME TypeOK, NEW t \in Tokens, NEW r \in Outcomes, Complete(t, r)
  PROVE  /\ entry' \in [Resources -> Tokens \cup {NoToken}]
         /\ cleaning' \subseteq Tokens /\ completed' \subseteq Tokens /\ waived' \subseteq Tokens
         /\ result' \in [Tokens -> Outcomes \cup {"none"}]
<1>1. result' = [result EXCEPT ![t] = r]
  BY DEF Complete
<1>2. result' \in [Tokens -> Outcomes \cup {"none"}]
  BY <1>1 DEF TypeOK
<1>3. entry' \in [Resources -> Tokens \cup {NoToken}]
  BY DEF Complete, TypeOK
<1> QED BY <1>2, <1>3 DEF Complete, TypeOK

(* Every step keeps the types and the queue. *)
LEMMA StepTypes == RegistryInvariant /\ [Next]_vars => TypeOK' /\ QueueHoldsParked'
<1> SUFFICES ASSUME RegistryInvariant, [Next]_vars PROVE TypeOK' /\ QueueHoldsParked'
  OBVIOUS
<1> USE RegistryAssumption
<1>i. TypeOK /\ QueueHoldsParked /\ CloserProgress
  BY DEF RegistryInvariant
<1> USE <1>i
<1>t. Tokens \subseteq Procs /\ Closers \subseteq Procs /\ \A p \in Procs : p \in Tokens \/ p \in Closers
  BY DEF Procs
<1>1. ASSUME NEW t \in Tokens,
             Register(t) \/ Retain(t) \/ Disarm(t) \/ Schedule(t) \/ LeavePending(t) \/ Cleanup(t)
      PROVE  TypeOK' /\ QueueHoldsParked'
  <2>1. CASE Register(t)
    <3>1. QueueHoldsParked'
      BY <1>t, <2>1, QueueKept DEF Register, notifyVars
    <3>2. ResourceOf[t] \in Resources /\ entry[ResourceOf[t]] \in Tokens \cup {NoToken}
      BY DEF TypeOK
    <3>3. waived' \subseteq Tokens /\ entry' \in [Resources -> Tokens \cup {NoToken}]
      BY <2>1, <3>2 DEF Register, TypeOK
    <3> QED BY <1>t, <2>1, <3>1, <3>3 DEF Register, TypeOK, OwnerStates, closerVars, notifyVars
  <2>2. CASE Retain(t)
    BY ZenonT(60), <1>t, <2>2, QueueKept DEF Retain, TypeOK, OwnerStates, dataVars, closerVars, notifyVars
  <2>3. CASE Disarm(t)
    BY ZenonT(60), <1>t, <2>3, QueueKept DEF Disarm, TypeOK, OwnerStates, closerVars, notifyVars
  <2>4. CASE Schedule(t)
    <3>1. QueueHoldsParked'
      BY <1>t, <2>4, QueueKept DEF Schedule, notifyVars
    <3>2. cleaning' \subseteq Tokens /\ task' \in [Tokens -> {"none", "run", "notify"}]
      BY <2>4 DEF Schedule, TypeOK
    <3> QED BY <1>t, <2>4, <3>1, <3>2 DEF Schedule, TypeOK, OwnerStates, closerVars, notifyVars
  <2>5. CASE LeavePending(t)
    BY ZenonT(60), <1>t, <2>5, QueueKept DEF LeavePending, TypeOK, OwnerStates, dataVars, closerVars, notifyVars
  <2>6. CASE Cleanup(t)
    BY SMTT(60), <1>t, <2>6, QueueKept DEF Cleanup, TypeOK, OwnerStates, closerVars, notifyVars
  <2> QED BY <1>1, <2>1, <2>2, <2>3, <2>4, <2>5, <2>6
<1>2. ASSUME NEW t \in Tokens,
             FinishOwner(t) \/ Look(t) \/ Forget(t) \/ FinishTask(t) \/ CancelDriving(t)
      PROVE  TypeOK' /\ QueueHoldsParked'
  <2>1. CASE FinishOwner(t)
    <3>1. QueueHoldsParked'
      BY <1>t, <2>1, QueueKept DEF FinishOwner, notifyVars
    <3>2. PICK r \in Outcomes : Complete(t, r) /\ told' = [told EXCEPT ![t] = r]
      BY <2>1 DEF FinishOwner
    <3>3. told' \in [Tokens -> Outcomes \cup {"none"}]
      BY <3>2 DEF TypeOK
    <3> QED BY <1>t, <2>1, <3>1, <3>2, <3>3, CompleteTypes DEF FinishOwner, TypeOK, OwnerStates, closerVars, notifyVars
  <2>2. CASE Look(t)
    <3>1. QueueHoldsParked'
      BY <1>t, <2>2, QueueKept DEF Look, dataVars, notifyVars
    <3>2. told' \in [Tokens -> Outcomes \cup {"none"}]
      BY <2>2 DEF Look, TypeOK, Outcomes
    <3>3. \E w \in OwnerStates : pc' = [pc EXCEPT ![t] = w]
      BY <2>2 DEF Look, OwnerStates
    <3>4. UNCHANGED <<dataVars, task, result, closerVars, notifyVars>>
      BY <2>2 DEF Look
    <3> QED BY <1>t, <3>1, <3>2, <3>3, <3>4 DEF TypeOK, dataVars, closerVars, notifyVars
  <2>3. CASE Forget(t)
    BY ZenonT(60), <1>t, <2>3, QueueKept DEF Forget, TypeOK, OwnerStates, closerVars, notifyVars
  <2>4. CASE FinishTask(t)
    <3>1. QueueHoldsParked'
      BY <2>4 DEF FinishTask, QueueHoldsParked, notifyVars
    <3> QED BY <2>4, <3>1, CompleteTypes DEF FinishTask, TypeOK, closerVars, notifyVars
  <2>5. CASE CancelDriving(t)
    <3>1. QueueHoldsParked'
      BY <1>t, <2>5, QueueKept DEF CancelDriving, notifyVars
    <3>2. \E w \in OwnerStates : pc' = [pc EXCEPT ![t] = w]
      BY <2>5 DEF CancelDriving, OwnerStates
    <3>3. cleaning' \subseteq Tokens /\ task' \in [Tokens -> {"none", "run", "notify"}]
      BY <2>5 DEF CancelDriving, TypeOK
    <3>4. UNCHANGED <<entry, completed, waived, result, told, closerVars, notifyVars>>
      BY <2>5 DEF CancelDriving
    <3> QED BY <1>t, <3>1, <3>2, <3>3, <3>4 DEF TypeOK, closerVars, notifyVars
  <2> QED BY <1>2, <2>1, <2>2, <2>3, <2>4, <2>5
<1>3. ASSUME NEW c \in Closers, CleanupAll(c) \/ ClaimNext(c) \/ FinishCloser(c) \/ Count(c) \/ Take(c) \/ AbandonAll(c)
      PROVE  TypeOK' /\ QueueHoldsParked'
  <2>1. CASE CleanupAll(c)
    BY ZenonT(60), <1>t, <2>1, QueueKept DEF CleanupAll, TypeOK, CloserStates, Live, dataVars, notifyVars
  <2>2. CASE ClaimNext(c)
    BY SMTT(60), <1>t, <2>2, QueueKept DEF ClaimNext, TypeOK, CloserStates, notifyVars
  <2>3. CASE FinishCloser(c)
    <3>1. QueueHoldsParked'
      BY <1>t, <2>3, QueueKept DEF FinishCloser, notifyVars
    <3>2. drives[c] \in Tokens
      BY <2>3 DEF TypeOK, CloserProgress, CloserConsistent, FinishCloser
    <3>3. PICK r \in Outcomes : Complete(drives[c], r)
      BY <2>3 DEF FinishCloser
    <3> QED BY <1>t, <2>3, <3>1, <3>2, <3>3, CompleteTypes DEF FinishCloser, TypeOK, CloserStates, notifyVars
  <2>4. CASE Count(c)
    BY SMTT(60), <1>t, <2>4, QueueKept DEF Count, TypeOK, CloserStates, dataVars, closerVars, notifyVars
  <2>5. CASE Take(c)
    BY ZenonT(60), <1>t, <2>5, QueueKept DEF Take, TypeOK, CloserStates, notifyVars
  <2>6. CASE AbandonAll(c)
    BY ZenonT(60), <1>t, <2>6, QueueKept DEF AbandonAll, TypeOK, CloserStates, Live, notifyVars
  <2> QED BY <1>3, <2>1, <2>2, <2>3, <2>4, <2>5, <2>6
<1>4. ASSUME NEW p \in Procs, Notify(p) PROVE TypeOK' /\ QueueHoldsParked'
  <2>1. AfterNotify(p) \in States /\ pc[p] # "parked"
    BY <1>4 DEF Notify, AfterNotify, States, OwnerStates, CloserStates
  <2>2. (p \in Tokens => AfterNotify(p) \in OwnerStates) /\ (p \in Closers => AfterNotify(p) \in CloserStates)
    BY <1>4, <1>t DEF Notify, AfterNotify, OwnerStates, CloserStates, TypeOK
  <2>3. DEFINE moved == [pc EXCEPT ![p] = AfterNotify(p)]
  <2>4. NotifyOne(moved)
    BY <1>4 DEF Notify
  <2>5. moved \in [Procs -> States] /\ \A i \in 1..Len(queue) : moved[queue[i]] = "parked"
    BY <2>1, MoverIsNotQueued
  <2>6. \A q \in Procs : (q \in Tokens => moved[q] \in OwnerStates) /\ (q \in Closers => moved[q] \in CloserStates)
    BY <2>2, <1>t DEF TypeOK
  <2> HIDE DEF moved
  <2>7. /\ pc' \in [Procs -> States] /\ queue' \in Seq(Procs) /\ stored' \in BOOLEAN /\ QueueHoldsParked'
        /\ \A q \in Procs : pc'[q] = moved[q] \/ (moved[q] = "parked" /\ pc'[q] = "woken")
    BY <2>4, <2>5, NotifyOneEffect
  <2> QED BY <1>4, <1>t, <2>6, <2>7 DEF Notify, TypeOK, States, OwnerStates, CloserStates, dataVars, closerVars
<1>5. ASSUME NEW t \in Tokens, NotifyTask(t) PROVE TypeOK' /\ QueueHoldsParked'
  <2>1. NotifyOne(pc) /\ pc \in [Procs -> States] /\ \A i \in 1..Len(queue) : pc[queue[i]] = "parked"
    BY <1>5 DEF NotifyTask, TypeOK, States, QueueHoldsParked
  <2>2. /\ pc' \in [Procs -> States] /\ queue' \in Seq(Procs) /\ stored' \in BOOLEAN /\ QueueHoldsParked'
        /\ \A q \in Procs : pc'[q] = pc[q] \/ (pc[q] = "parked" /\ pc'[q] = "woken")
    BY <2>1, NotifyOneEffect
  <2> QED BY <1>5, <1>t, <2>2 DEF NotifyTask, TypeOK, States, OwnerStates, CloserStates, dataVars, closerVars
<1>6. ASSUME NEW t \in Tokens, CancelWaiting(t) PROVE TypeOK' /\ QueueHoldsParked'
  <2>1. CASE pc[t] = "parked" /\ pc' = [pc EXCEPT ![t] = "gone"] /\ UNCHANGED stored
             /\ \E i \in DOMAIN queue : queue[i] = t /\ queue' = Without(i)
    <3>1. PICK i \in 1..Len(queue) : queue[i] = t /\ queue' = Without(i)
      BY <2>1 DEF TypeOK
    <3>2. queue' \in Seq(Procs) /\ QueueHoldsParked'
      BY <1>t, <2>1, <3>1, WithoutEffect DEF States, OwnerStates
    <3> QED BY <1>6, <1>t, <2>1, <3>2 DEF CancelWaiting, TypeOK, OwnerStates, dataVars, closerVars
  <2>2. CASE pc[t] = "woken" /\ NotifyOne([pc EXCEPT ![t] = "gone"])
    <3>1. "gone" \in States /\ t \in Procs
      BY <1>t DEF States, OwnerStates
    <3>2. DEFINE moved == [pc EXCEPT ![t] = "gone"]
    <3>3. moved \in [Procs -> States] /\ \A i \in 1..Len(queue) : moved[queue[i]] = "parked"
      BY <2>2, <3>1, MoverIsNotQueued
    <3>4. \A q \in Procs : (q \in Tokens => moved[q] \in OwnerStates) /\ (q \in Closers => moved[q] \in CloserStates)
      BY <1>t DEF TypeOK, OwnerStates
    <3>5. NotifyOne(moved)
      BY <2>2
    <3> HIDE DEF moved
    <3>6. /\ pc' \in [Procs -> States] /\ queue' \in Seq(Procs) /\ stored' \in BOOLEAN /\ QueueHoldsParked'
          /\ \A q \in Procs : pc'[q] = moved[q] \/ (moved[q] = "parked" /\ pc'[q] = "woken")
      BY <3>3, <3>5, NotifyOneEffect
    <3> QED BY <1>6, <1>t, <3>4, <3>6 DEF CancelWaiting, TypeOK, States, OwnerStates, CloserStates, dataVars, closerVars
  <2> QED BY <1>6, <2>1, <2>2 DEF CancelWaiting
<1>7. ASSUME NEW p \in Procs, Park(p) \/ Resume(p) PROVE TypeOK' /\ QueueHoldsParked'
  <2>1. CASE Resume(p)
    BY ZenonT(60), <1>t, <2>1, QueueKept DEF Resume, TypeOK, OwnerStates, CloserStates, dataVars, closerVars, notifyVars
  <2>2. CASE Park(p) /\ stored
    <3>1. QueueHoldsParked'
      BY <2>2, QueueKept DEF Park
    <3> QED BY ZenonT(60), <1>t, <2>2, <3>1 DEF Park, TypeOK, OwnerStates, CloserStates, dataVars, closerVars
  <2>3. CASE Park(p) /\ ~stored
    <3>1. queue \in Seq(Procs) /\ queue' = Append(queue, p) /\ pc' = [pc EXCEPT ![p] = "parked"] /\ pc[p] = "park"
      BY <2>3 DEF Park, TypeOK
    <3>2. /\ queue' \in Seq(Procs) /\ Len(queue') = Len(queue) + 1 /\ Len(queue) \in Nat
          /\ \A i \in 1..Len(queue) : queue'[i] = queue[i] /\ queue[i] # p /\ queue[i] \in Procs
          /\ queue'[Len(queue) + 1] = p
      BY <3>1 DEF QueueHoldsParked
    <3>3. \A i \in 1..Len(queue') : pc'[queue'[i]] = "parked"
      BY <3>1, <3>2 DEF QueueHoldsParked, TypeOK
    <3>4. \A i, j \in 1..Len(queue') : queue'[i] = queue'[j] => i = j
      BY <3>1, <3>2 DEF QueueHoldsParked
    <3>5. QueueHoldsParked'
      BY <3>3, <3>4 DEF QueueHoldsParked
    <3> QED BY ZenonT(60), <1>t, <2>3, <3>2, <3>5 DEF Park, TypeOK, OwnerStates, CloserStates, dataVars, closerVars
  <2> QED BY <1>7, <2>1, <2>2, <2>3
<1>8. ASSUME NEW c \in Closers, NotifyAll(c) PROVE TypeOK' /\ QueueHoldsParked'
  <2>1. queue' = <<>> /\ stored' = stored
        /\ pc' = [p \in Procs |-> IF [pc EXCEPT ![c] = "returned"][p] = "parked" THEN "woken"
                                  ELSE [pc EXCEPT ![c] = "returned"][p]]
    BY <1>8 DEF NotifyAll, NotifyWaiters
  <2>2. /\ pc' \in [Procs -> OwnerStates \cup CloserStates]
        /\ \A t \in Tokens : pc'[t] \in OwnerStates
        /\ \A d \in Closers : pc'[d] \in CloserStates
    BY <1>t, <2>1 DEF TypeOK, OwnerStates, CloserStates
  <2> QED BY <1>8, <2>1, <2>2 DEF NotifyAll, TypeOK, QueueHoldsParked, dataVars, closerVars
<1>9. CASE UNCHANGED vars
  BY <1>9 DEF vars, TypeOK, QueueHoldsParked, dataVars, closerVars, notifyVars
<1> QED BY <1>1, <1>2, <1>3, <1>4, <1>5, <1>6, <1>7, <1>8, <1>9
  DEF Next, OwnerCalls, OwnerRuns, TaskRuns, CloserRuns, WaiterRuns

(* What the registry's data, its drivers and its callers have to do with   *)
(* each other: RegistryInvariant without the types and the queue.          *)
Ownership ==
  /\ OneDriver
  /\ UnregisteredIsFresh
  /\ SettledOrRegistered
  /\ CloserProgress
  /\ OwnerProgress
  /\ NoFailureLost

(* A step that only moves waiters and notifiers. *)
WaiterStep ==
  /\ UNCHANGED <<dataVars, result, told, closerVars>>
  /\ \A t \in Tokens :
       /\ task'[t] = "run" <=> task[t] = "run"
       /\ pc'[t] = "unregistered" <=> pc[t] = "unregistered"
       /\ pc'[t] \in {"notify", "forget"} <=> pc[t] \in {"notify", "forget"}
       /\ pc'[t] = "returned" <=> pc[t] = "returned"
       /\ pc'[t] = "drive" <=> pc[t] = "drive"
  /\ \A c \in Closers :
       /\ pc'[c] = "drive" <=> pc[c] = "drive"
       /\ pc'[c] = "take" <=> pc[c] = "take"
       /\ pc'[c] \in {"notifyAll", "returned"} <=> pc[c] \in {"notifyAll", "returned"}

LEMMA WaiterStepKeepsOwnership == TypeOK /\ Ownership /\ WaiterStep => Ownership'
<1> SUFFICES ASSUME TypeOK, Ownership, WaiterStep PROVE Ownership'
  OBVIOUS
<1>1. UNCHANGED <<entry, cleaning, completed, waived, result, told, drives, report, begun>>
  BY DEF WaiterStep, dataVars, closerVars
<1>2. OneDriver'
  BY <1>1 DEF Ownership, WaiterStep, OneDriver
<1>3. UnregisteredIsFresh' /\ SettledOrRegistered'
  BY <1>1 DEF Ownership, WaiterStep, UnregisteredIsFresh, SettledOrRegistered, Registered
<1>4. CloserProgress'
  <2>1. SUFFICES ASSUME NEW c \in Closers PROVE CloserConsistent(c)'
    BY DEF CloserProgress
  <2>2. begun[c] \subseteq Tokens
    BY DEF TypeOK
  <2>3. pc'[c] \in {"take", "notifyAll", "returned"} <=> pc[c] \in {"take", "notifyAll", "returned"}
    BY DEF WaiterStep
  <2> QED BY <1>1, <2>2, <2>3 DEF Ownership, WaiterStep, CloserProgress, CloserConsistent
<1>5. OwnerProgress'
  BY <1>1 DEF Ownership, WaiterStep, OwnerProgress, OwnerConsistent
<1>6. NoFailureLost'
  BY <1>1 DEF Ownership, NoFailureLost
<1> QED BY <1>2, <1>3, <1>4, <1>5, <1>6 DEF Ownership

(* The steps around `changed` are such steps. *)
LEMMA WaitersMove ==
  ASSUME TypeOK, QueueHoldsParked, RegistryAssumption,
         \/ \E p \in Procs : Notify(p) \/ Park(p) \/ Resume(p)
         \/ \E t \in Tokens : NotifyTask(t) \/ CancelWaiting(t)
         \/ \E c \in Closers : NotifyAll(c)
  PROVE  WaiterStep
<1>t. Tokens \subseteq Procs /\ Closers \subseteq Procs /\ \A p \in Procs : p \in Tokens \/ p \in Closers
  BY DEF Procs
<1> USE RegistryAssumption
<1>1. ASSUME NEW p \in Procs, Notify(p) PROVE WaiterStep
  <2>1. DEFINE moved == [pc EXCEPT ![p] = AfterNotify(p)]
  <2>2. AfterNotify(p) \in States /\ pc[p] \in {"notify", "notifyGone"}
    BY <1>1 DEF Notify, AfterNotify, States, OwnerStates, CloserStates
  <2>3. moved \in [Procs -> States] /\ \A i \in 1..Len(queue) : moved[queue[i]] = "parked"
    BY <2>2, MoverIsNotQueued
  <2>4. NotifyOne(moved)
    BY <1>1 DEF Notify
  <2>5. \A q \in Procs : pc'[q] = moved[q] \/ (moved[q] = "parked" /\ pc'[q] = "woken")
    <3> HIDE DEF moved
    <3> QED BY <2>3, <2>4, NotifyOneEffect
  <2>6. \A q \in Procs : q # p => moved[q] = pc[q]
    BY DEF TypeOK
  <2>7. moved[p] = AfterNotify(p)
    BY DEF TypeOK
  <2>8. /\ p \in Tokens => \/ (pc[p] = "notify" /\ AfterNotify(p) = "forget")
                            \/ (pc[p] = "notifyGone" /\ AfterNotify(p) = "gone")
        /\ p \in Closers => pc[p] = "notify" /\ AfterNotify(p) = "claim"
    BY <2>2 DEF AfterNotify, TypeOK, CloserStates
  <2> HIDE DEF moved
  <2> QED BY <1>1, <1>t, <2>2, <2>5, <2>6, <2>7, <2>8 DEF Notify, WaiterStep
<1>2. ASSUME NEW t \in Tokens, NotifyTask(t) PROVE WaiterStep
  <2>1. NotifyOne(pc) /\ pc \in [Procs -> States] /\ \A i \in 1..Len(queue) : pc[queue[i]] = "parked"
    BY <1>2 DEF NotifyTask, TypeOK, States, QueueHoldsParked
  <2>2. \A q \in Procs : pc'[q] = pc[q] \/ (pc[q] = "parked" /\ pc'[q] = "woken")
    BY <2>1, NotifyOneEffect
  <2> QED BY <1>2, <1>t, <2>2 DEF NotifyTask, WaiterStep, TypeOK
<1>3. ASSUME NEW t \in Tokens, CancelWaiting(t) PROVE WaiterStep
  <2>1. CASE pc[t] = "parked" /\ pc' = [pc EXCEPT ![t] = "gone"]
    BY <1>3, <1>t, <2>1 DEF CancelWaiting, WaiterStep, TypeOK
  <2>2. CASE pc[t] = "woken" /\ NotifyOne([pc EXCEPT ![t] = "gone"])
    <3>1. DEFINE moved == [pc EXCEPT ![t] = "gone"]
    <3>2. moved \in [Procs -> States] /\ \A i \in 1..Len(queue) : moved[queue[i]] = "parked"
      BY <1>t, <2>2, MoverIsNotQueued DEF States, OwnerStates
    <3>3. NotifyOne(moved)
      BY <2>2
    <3>4. \A q \in Procs : pc'[q] = moved[q] \/ (moved[q] = "parked" /\ pc'[q] = "woken")
      <4> HIDE DEF moved
      <4> QED BY <3>2, <3>3, NotifyOneEffect
    <3>5. moved[t] = "gone" /\ \A q \in Procs : q # t => moved[q] = pc[q]
      BY <1>t DEF TypeOK
    <3> HIDE DEF moved
    <3> QED BY <1>3, <1>t, <2>2, <3>4, <3>5 DEF CancelWaiting, WaiterStep
  <2> QED BY <1>3, <2>1, <2>2 DEF CancelWaiting
<1>4. ASSUME NEW p \in Procs, Park(p) PROVE WaiterStep
  <2>1. pc[p] = "park" /\ \E w \in {"woken", "parked"} : pc' = [pc EXCEPT ![p] = w]
    BY <1>4 DEF Park
  <2> QED BY <1>4, <1>t, <2>1 DEF Park, WaiterStep, TypeOK
<1>5. ASSUME NEW p \in Procs, Resume(p) PROVE WaiterStep
  BY <1>5, <1>t DEF Resume, WaiterStep, TypeOK
<1>6. ASSUME NEW c \in Closers, NotifyAll(c) PROVE WaiterStep
  <2>1. \A p \in Procs : p # c => pc'[p] = IF pc[p] = "parked" THEN "woken" ELSE pc[p]
    BY <1>6 DEF NotifyAll, NotifyWaiters, TypeOK
  <2>2. pc'[c] = "returned" /\ pc[c] = "notifyAll" /\ c \notin Tokens
    BY <1>6, <1>t DEF NotifyAll, NotifyWaiters, TypeOK
  <2> QED BY <1>6, <1>t, <2>1, <2>2 DEF NotifyAll, WaiterStep
<1> QED BY <1>1, <1>2, <1>3, <1>4, <1>5, <1>6

(* Every step of an owner, a background task or a closer keeps it. *)
LEMMA StepOwnership == RegistryInvariant /\ [Next]_vars => Ownership'
<1> SUFFICES ASSUME RegistryInvariant, [Next]_vars PROVE Ownership'
  OBVIOUS
<1> USE RegistryAssumption
<1>i. TypeOK /\ QueueHoldsParked /\ Ownership
  BY DEF RegistryInvariant, Ownership
<1>t. Tokens \subseteq Procs /\ Closers \subseteq Procs /\ \A t \in Tokens : t \notin Closers
  BY DEF Procs
<1> USE <1>i
<1>1. ASSUME NEW t \in Tokens, Register(t) PROVE Ownership'
  <2>1. OneDriver'
    BY <1>1, <1>t DEF Register, Ownership, TypeOK, OneDriver, Claimable, dataVars, closerVars, notifyVars, Outcomes
  <2>2. UnregisteredIsFresh'
    BY <1>1, <1>t DEF Register, Ownership, TypeOK, OneDriver, UnregisteredIsFresh, Registered, Claimable, dataVars, closerVars, notifyVars, Outcomes
  <2>3. SettledOrRegistered'
    BY <1>1, <1>t DEF Register, Ownership, TypeOK, UnregisteredIsFresh, SettledOrRegistered, OneDriver, Registered, Claimable, dataVars, closerVars, notifyVars, Outcomes
  <2>4. CloserProgress'
    BY <1>1, <1>t DEF Register, Ownership, TypeOK, CloserProgress, CloserConsistent, Claimable, dataVars, closerVars, notifyVars, Outcomes
  <2>5. OwnerProgress'
    BY <1>1, <1>t DEF Register, Ownership, TypeOK, OwnerProgress, OwnerConsistent, OneDriver, NoFailureLost, UnregisteredIsFresh, Claimable, dataVars, closerVars, notifyVars, Outcomes
  <2>6. NoFailureLost'
    BY <1>1, <1>t DEF Register, Ownership, TypeOK, OneDriver, NoFailureLost, UnregisteredIsFresh, SettledOrRegistered, OwnerProgress, OwnerConsistent, Registered, Claimable, dataVars, closerVars, notifyVars, Outcomes
  <2> QED BY <2>1, <2>2, <2>3, <2>4, <2>5, <2>6 DEF Ownership
<1>2. ASSUME NEW t \in Tokens, Retain(t) PROVE Ownership'
  <2>1. OneDriver'
    BY <1>2, <1>t DEF Retain, Ownership, TypeOK, OneDriver, Claimable, dataVars, closerVars, notifyVars, Outcomes
  <2>2. UnregisteredIsFresh'
    BY <1>2, <1>t DEF Retain, Ownership, TypeOK, OneDriver, UnregisteredIsFresh, Registered, Claimable, dataVars, closerVars, notifyVars, Outcomes
  <2>3. SettledOrRegistered'
    BY <1>2, <1>t DEF Retain, Ownership, TypeOK, UnregisteredIsFresh, SettledOrRegistered, OneDriver, Registered, Claimable, dataVars, closerVars, notifyVars, Outcomes
  <2>4. CloserProgress'
    BY <1>2, <1>t DEF Retain, Ownership, TypeOK, CloserProgress, CloserConsistent, Claimable, dataVars, closerVars, notifyVars, Outcomes
  <2>5. OwnerProgress'
    BY <1>2, <1>t DEF Retain, Ownership, TypeOK, OwnerProgress, OwnerConsistent, OneDriver, NoFailureLost, UnregisteredIsFresh, Claimable, dataVars, closerVars, notifyVars, Outcomes
  <2>6. NoFailureLost'
    BY <1>2, <1>t DEF Retain, Ownership, TypeOK, OneDriver, NoFailureLost, UnregisteredIsFresh, SettledOrRegistered, OwnerProgress, OwnerConsistent, Registered, Claimable, dataVars, closerVars, notifyVars, Outcomes
  <2> QED BY <2>1, <2>2, <2>3, <2>4, <2>5, <2>6 DEF Ownership
<1>3. ASSUME NEW t \in Tokens, Disarm(t) PROVE Ownership'
  <2>1. OneDriver'
    BY <1>3, <1>t DEF Disarm, Ownership, TypeOK, OneDriver, Claimable, dataVars, closerVars, notifyVars, Outcomes
  <2>2. UnregisteredIsFresh'
    BY <1>3, <1>t DEF Disarm, Ownership, TypeOK, OneDriver, UnregisteredIsFresh, Registered, Claimable, dataVars, closerVars, notifyVars, Outcomes
  <2>3. SettledOrRegistered'
    BY <1>3, <1>t DEF Disarm, Ownership, TypeOK, UnregisteredIsFresh, SettledOrRegistered, OneDriver, Registered, Claimable, dataVars, closerVars, notifyVars, Outcomes
  <2>4. CloserProgress'
    BY <1>3, <1>t DEF Disarm, Ownership, TypeOK, CloserProgress, CloserConsistent, Claimable, dataVars, closerVars, notifyVars, Outcomes
  <2>5. OwnerProgress'
    BY <1>3, <1>t DEF Disarm, Ownership, TypeOK, OwnerProgress, OwnerConsistent, OneDriver, NoFailureLost, UnregisteredIsFresh, Claimable, dataVars, closerVars, notifyVars, Outcomes
  <2>6. NoFailureLost'
    BY <1>3, <1>t DEF Disarm, Ownership, TypeOK, OneDriver, NoFailureLost, UnregisteredIsFresh, SettledOrRegistered, OwnerProgress, OwnerConsistent, Registered, Claimable, dataVars, closerVars, notifyVars, Outcomes
  <2> QED BY <2>1, <2>2, <2>3, <2>4, <2>5, <2>6 DEF Ownership
<1>4. ASSUME NEW t \in Tokens, Schedule(t) PROVE Ownership'
  <2>1. OneDriver'
    BY <1>4, <1>t DEF Schedule, SettledOrRegistered, Registered, Ownership, TypeOK, OneDriver, Claimable, dataVars, closerVars, notifyVars, Outcomes
  <2>2. UnregisteredIsFresh'
    BY <1>4, <1>t DEF Schedule, Ownership, TypeOK, OneDriver, UnregisteredIsFresh, Registered, Claimable, dataVars, closerVars, notifyVars, Outcomes
  <2>3. SettledOrRegistered'
    BY <1>4, <1>t DEF Schedule, Ownership, TypeOK, UnregisteredIsFresh, SettledOrRegistered, OneDriver, Registered, Claimable, dataVars, closerVars, notifyVars, Outcomes
  <2>4. CloserProgress'
    BY <1>4, <1>t DEF Schedule, Ownership, TypeOK, CloserProgress, CloserConsistent, Claimable, dataVars, closerVars, notifyVars, Outcomes
  <2>5. OwnerProgress'
    BY <1>4, <1>t DEF Schedule, Ownership, TypeOK, OwnerProgress, OwnerConsistent, OneDriver, NoFailureLost, UnregisteredIsFresh, Claimable, dataVars, closerVars, notifyVars, Outcomes
  <2>6. NoFailureLost'
    BY <1>4, <1>t DEF Schedule, Ownership, TypeOK, OneDriver, NoFailureLost, UnregisteredIsFresh, SettledOrRegistered, OwnerProgress, OwnerConsistent, Registered, Claimable, dataVars, closerVars, notifyVars, Outcomes
  <2> QED BY <2>1, <2>2, <2>3, <2>4, <2>5, <2>6 DEF Ownership
<1>5. ASSUME NEW t \in Tokens, LeavePending(t) PROVE Ownership'
  <2>1. OneDriver'
    BY <1>5, <1>t DEF LeavePending, Ownership, TypeOK, OneDriver, Claimable, dataVars, closerVars, notifyVars, Outcomes
  <2>2. UnregisteredIsFresh'
    BY <1>5, <1>t DEF LeavePending, Ownership, TypeOK, OneDriver, UnregisteredIsFresh, Registered, Claimable, dataVars, closerVars, notifyVars, Outcomes
  <2>3. SettledOrRegistered'
    BY <1>5, <1>t DEF LeavePending, Ownership, TypeOK, UnregisteredIsFresh, SettledOrRegistered, OneDriver, Registered, Claimable, dataVars, closerVars, notifyVars, Outcomes
  <2>4. CloserProgress'
    BY <1>5, <1>t DEF LeavePending, Ownership, TypeOK, CloserProgress, CloserConsistent, Claimable, dataVars, closerVars, notifyVars, Outcomes
  <2>5. OwnerProgress'
    BY <1>5, <1>t DEF LeavePending, Ownership, TypeOK, OwnerProgress, OwnerConsistent, OneDriver, NoFailureLost, UnregisteredIsFresh, Claimable, dataVars, closerVars, notifyVars, Outcomes
  <2>6. NoFailureLost'
    BY <1>5, <1>t DEF LeavePending, Ownership, TypeOK, OneDriver, NoFailureLost, UnregisteredIsFresh, SettledOrRegistered, OwnerProgress, OwnerConsistent, Registered, Claimable, dataVars, closerVars, notifyVars, Outcomes
  <2> QED BY <2>1, <2>2, <2>3, <2>4, <2>5, <2>6 DEF Ownership
<1>6. ASSUME NEW t \in Tokens, Cleanup(t) PROVE Ownership'
  <2>1. OneDriver'
    BY <1>6, <1>t DEF Cleanup, SettledOrRegistered, Registered, Ownership, TypeOK, OneDriver, Claimable, dataVars, closerVars, notifyVars, Outcomes
  <2>2. UnregisteredIsFresh'
    BY <1>6, <1>t DEF Cleanup, Ownership, TypeOK, OneDriver, UnregisteredIsFresh, Registered, Claimable, dataVars, closerVars, notifyVars, Outcomes
  <2>3. SettledOrRegistered'
    BY <1>6, <1>t DEF Cleanup, Ownership, TypeOK, UnregisteredIsFresh, SettledOrRegistered, OneDriver, Registered, Claimable, dataVars, closerVars, notifyVars, Outcomes
  <2>4. CloserProgress'
    BY <1>6, <1>t DEF Cleanup, Ownership, TypeOK, CloserProgress, CloserConsistent, Claimable, dataVars, closerVars, notifyVars, Outcomes
  <2>5. OwnerProgress'
    BY SMTT(60), <1>6, <1>t DEF Cleanup, Ownership, TypeOK, OwnerProgress, OwnerConsistent, OneDriver, NoFailureLost, UnregisteredIsFresh, Claimable, dataVars, closerVars, notifyVars, Outcomes
  <2>6. NoFailureLost'
    BY <1>6, <1>t DEF Cleanup, Ownership, TypeOK, OneDriver, NoFailureLost, UnregisteredIsFresh, SettledOrRegistered, OwnerProgress, OwnerConsistent, Registered, Claimable, dataVars, closerVars, notifyVars, Outcomes
  <2> QED BY <2>1, <2>2, <2>3, <2>4, <2>5, <2>6 DEF Ownership
<1>7. ASSUME NEW t \in Tokens, FinishOwner(t) PROVE Ownership'
  <2>1. OneDriver'
    BY <1>7, <1>t DEF FinishOwner, Complete, Ownership, TypeOK, OneDriver, Claimable, dataVars, closerVars, notifyVars, Outcomes
  <2>2. UnregisteredIsFresh'
    BY <1>7, <1>t DEF FinishOwner, Complete, Ownership, TypeOK, OneDriver, UnregisteredIsFresh, Registered, Claimable, dataVars, closerVars, notifyVars, Outcomes
  <2>3. SettledOrRegistered'
    BY <1>7, <1>t DEF FinishOwner, Complete, Ownership, TypeOK, UnregisteredIsFresh, SettledOrRegistered, OneDriver, Registered, Claimable, dataVars, closerVars, notifyVars, Outcomes
  <2>4. CloserProgress'
    BY <1>7, <1>t DEF FinishOwner, Complete, Ownership, TypeOK, CloserProgress, CloserConsistent, Claimable, dataVars, closerVars, notifyVars, Outcomes
  <2>5. OwnerProgress'
    BY <1>7, <1>t DEF FinishOwner, Complete, Ownership, TypeOK, OwnerProgress, OwnerConsistent, OneDriver, NoFailureLost, UnregisteredIsFresh, Claimable, dataVars, closerVars, notifyVars, Outcomes
  <2>6. NoFailureLost'
    BY <1>7, <1>t DEF FinishOwner, Complete, Ownership, TypeOK, OneDriver, NoFailureLost, UnregisteredIsFresh, SettledOrRegistered, OwnerProgress, OwnerConsistent, Registered, Claimable, dataVars, closerVars, notifyVars, Outcomes
  <2> QED BY <2>1, <2>2, <2>3, <2>4, <2>5, <2>6 DEF Ownership
<1>8. ASSUME NEW t \in Tokens, Look(t) PROVE Ownership'
  <2>1. OneDriver'
    BY <1>8, <1>t DEF Look, Ownership, TypeOK, OneDriver, Claimable, dataVars, closerVars, notifyVars, Outcomes
  <2>2. UnregisteredIsFresh'
    BY <1>8, <1>t DEF Look, Ownership, TypeOK, OneDriver, UnregisteredIsFresh, Registered, Claimable, dataVars, closerVars, notifyVars, Outcomes
  <2>3. SettledOrRegistered'
    BY <1>8, <1>t DEF Look, Ownership, TypeOK, UnregisteredIsFresh, SettledOrRegistered, OneDriver, Registered, Claimable, dataVars, closerVars, notifyVars, Outcomes
  <2>4. CloserProgress'
    BY <1>8, <1>t DEF Look, Ownership, TypeOK, CloserProgress, CloserConsistent, Claimable, dataVars, closerVars, notifyVars, Outcomes
  <2>5. OwnerProgress'
    BY <1>8, <1>t DEF Look, SettledOrRegistered, Registered, Ownership, TypeOK, OwnerProgress, OwnerConsistent, OneDriver, NoFailureLost, UnregisteredIsFresh, Claimable, dataVars, closerVars, notifyVars, Outcomes
  <2>6. NoFailureLost'
    BY <1>8, <1>t DEF Look, Ownership, TypeOK, OneDriver, NoFailureLost, UnregisteredIsFresh, SettledOrRegistered, OwnerProgress, OwnerConsistent, Registered, Claimable, dataVars, closerVars, notifyVars, Outcomes
  <2> QED BY <2>1, <2>2, <2>3, <2>4, <2>5, <2>6 DEF Ownership
<1>9. ASSUME NEW t \in Tokens, Forget(t) PROVE Ownership'
  <2>1. OneDriver'
    BY <1>9, <1>t DEF Forget, Ownership, TypeOK, OneDriver, Claimable, dataVars, closerVars, notifyVars, Outcomes
  <2>2. UnregisteredIsFresh'
    BY <1>9, <1>t DEF Forget, Ownership, TypeOK, OneDriver, UnregisteredIsFresh, Registered, Claimable, dataVars, closerVars, notifyVars, Outcomes
  <2>3. SettledOrRegistered'
    BY <1>9, <1>t DEF Forget, Ownership, TypeOK, UnregisteredIsFresh, SettledOrRegistered, OneDriver, Registered, Claimable, dataVars, closerVars, notifyVars, Outcomes
  <2>4. CloserProgress'
    BY <1>9, <1>t DEF Forget, Ownership, TypeOK, CloserProgress, CloserConsistent, Claimable, dataVars, closerVars, notifyVars, Outcomes
  <2>5. OwnerProgress'
    BY <1>9, <1>t DEF Forget, Ownership, TypeOK, OwnerProgress, OwnerConsistent, OneDriver, NoFailureLost, UnregisteredIsFresh, Claimable, dataVars, closerVars, notifyVars, Outcomes
  <2>6. NoFailureLost'
    BY <1>9, <1>t DEF Forget, Ownership, TypeOK, OneDriver, NoFailureLost, UnregisteredIsFresh, SettledOrRegistered, OwnerProgress, OwnerConsistent, Registered, Claimable, dataVars, closerVars, notifyVars, Outcomes
  <2> QED BY <2>1, <2>2, <2>3, <2>4, <2>5, <2>6 DEF Ownership
<1>10. ASSUME NEW t \in Tokens, FinishTask(t) PROVE Ownership'
  <2>1. OneDriver'
    BY <1>10, <1>t DEF FinishTask, Complete, Ownership, TypeOK, OneDriver, Claimable, dataVars, closerVars, notifyVars, Outcomes
  <2>2. UnregisteredIsFresh'
    BY <1>10, <1>t DEF FinishTask, Complete, Ownership, TypeOK, OneDriver, UnregisteredIsFresh, Registered, Claimable, dataVars, closerVars, notifyVars, Outcomes
  <2>3. SettledOrRegistered'
    BY <1>10, <1>t DEF FinishTask, Complete, Ownership, TypeOK, UnregisteredIsFresh, SettledOrRegistered, OneDriver, Registered, Claimable, dataVars, closerVars, notifyVars, Outcomes
  <2>4. CloserProgress'
    BY <1>10, <1>t DEF FinishTask, Complete, Ownership, TypeOK, CloserProgress, CloserConsistent, Claimable, dataVars, closerVars, notifyVars, Outcomes
  <2>5. OwnerProgress'
    BY <1>10, <1>t DEF FinishTask, Complete, Ownership, TypeOK, OwnerProgress, OwnerConsistent, OneDriver, NoFailureLost, UnregisteredIsFresh, Claimable, dataVars, closerVars, notifyVars, Outcomes
  <2>6. NoFailureLost'
    BY <1>10, <1>t DEF FinishTask, Complete, Ownership, TypeOK, OneDriver, NoFailureLost, UnregisteredIsFresh, SettledOrRegistered, OwnerProgress, OwnerConsistent, Registered, Claimable, dataVars, closerVars, notifyVars, Outcomes
  <2> QED BY <2>1, <2>2, <2>3, <2>4, <2>5, <2>6 DEF Ownership
<1>11. ASSUME NEW t \in Tokens, CancelDriving(t) PROVE Ownership'
  <2>1. OneDriver'
    BY <1>11, <1>t DEF CancelDriving, Ownership, TypeOK, OneDriver, Claimable, dataVars, closerVars, notifyVars, Outcomes
  <2>2. UnregisteredIsFresh'
    BY <1>11, <1>t DEF CancelDriving, Ownership, TypeOK, OneDriver, UnregisteredIsFresh, Registered, Claimable, dataVars, closerVars, notifyVars, Outcomes
  <2>3. SettledOrRegistered'
    BY <1>11, <1>t DEF CancelDriving, Ownership, TypeOK, UnregisteredIsFresh, SettledOrRegistered, OneDriver, Registered, Claimable, dataVars, closerVars, notifyVars, Outcomes
  <2>4. CloserProgress'
    BY <1>11, <1>t DEF CancelDriving, Ownership, TypeOK, CloserProgress, CloserConsistent, Claimable, dataVars, closerVars, notifyVars, Outcomes
  <2>5. OwnerProgress'
    BY <1>11, <1>t DEF CancelDriving, Ownership, TypeOK, OwnerProgress, OwnerConsistent, OneDriver, NoFailureLost, UnregisteredIsFresh, Claimable, dataVars, closerVars, notifyVars, Outcomes
  <2>6. NoFailureLost'
    BY <1>11, <1>t DEF CancelDriving, Ownership, TypeOK, OneDriver, NoFailureLost, UnregisteredIsFresh, SettledOrRegistered, OwnerProgress, OwnerConsistent, Registered, Claimable, dataVars, closerVars, notifyVars, Outcomes
  <2> QED BY <2>1, <2>2, <2>3, <2>4, <2>5, <2>6 DEF Ownership
<1>12. ASSUME NEW c \in Closers, CleanupAll(c) PROVE Ownership'
  <2>1. OneDriver'
    BY <1>12, <1>t DEF CleanupAll, Ownership, TypeOK, OneDriver, CloserProgress, CloserConsistent, Claimable, dataVars, closerVars, notifyVars, Outcomes
  <2>2. UnregisteredIsFresh'
    BY <1>12, <1>t DEF CleanupAll, Ownership, TypeOK, OneDriver, UnregisteredIsFresh, Registered, Claimable, dataVars, closerVars, notifyVars, Outcomes
  <2>3. SettledOrRegistered'
    BY <1>12, <1>t DEF CleanupAll, Ownership, TypeOK, UnregisteredIsFresh, SettledOrRegistered, OneDriver, Registered, Claimable, dataVars, closerVars, notifyVars, Outcomes
  <2>4. CloserProgress'
    BY <1>12, <1>t DEF CleanupAll, Ownership, TypeOK, CloserProgress, CloserConsistent, SettledOrRegistered, UnregisteredIsFresh, Live, Registered, Claimable, dataVars, closerVars, notifyVars, Outcomes
  <2>5. OwnerProgress'
    BY <1>12, <1>t DEF CleanupAll, Ownership, TypeOK, OwnerProgress, OwnerConsistent, OneDriver, NoFailureLost, CloserProgress, CloserConsistent, Claimable, dataVars, closerVars, notifyVars, Outcomes
  <2>6. NoFailureLost'
    BY <1>12, <1>t DEF CleanupAll, Ownership, TypeOK, OneDriver, NoFailureLost, UnregisteredIsFresh, SettledOrRegistered, CloserProgress, CloserConsistent, Registered, Claimable, dataVars, closerVars, notifyVars, Outcomes
  <2> QED BY <2>1, <2>2, <2>3, <2>4, <2>5, <2>6 DEF Ownership
<1>13. ASSUME NEW c \in Closers, ClaimNext(c) PROVE Ownership'
  <2>1. OneDriver'
    BY <1>13, <1>t DEF ClaimNext, SettledOrRegistered, Registered, Ownership, TypeOK, OneDriver, CloserProgress, CloserConsistent, Claimable, dataVars, closerVars, notifyVars, Outcomes
  <2>2. UnregisteredIsFresh'
    BY <1>13, <1>t DEF ClaimNext, Ownership, TypeOK, OneDriver, UnregisteredIsFresh, Registered, Claimable, dataVars, closerVars, notifyVars, Outcomes
  <2>3. SettledOrRegistered'
    BY <1>13, <1>t DEF ClaimNext, Ownership, TypeOK, UnregisteredIsFresh, SettledOrRegistered, OneDriver, Registered, Claimable, dataVars, closerVars, notifyVars, Outcomes
  <2>4. CloserProgress'
    BY <1>13, <1>t DEF ClaimNext, Ownership, TypeOK, CloserProgress, CloserConsistent, SettledOrRegistered, UnregisteredIsFresh, Live, Registered, Claimable, dataVars, closerVars, notifyVars, Outcomes
  <2>5. OwnerProgress'
    BY <1>13, <1>t DEF ClaimNext, Ownership, TypeOK, OwnerProgress, OwnerConsistent, OneDriver, NoFailureLost, CloserProgress, CloserConsistent, Claimable, dataVars, closerVars, notifyVars, Outcomes
  <2>6. NoFailureLost'
    BY <1>13, <1>t DEF ClaimNext, Ownership, TypeOK, OneDriver, NoFailureLost, UnregisteredIsFresh, SettledOrRegistered, CloserProgress, CloserConsistent, Registered, Claimable, dataVars, closerVars, notifyVars, Outcomes
  <2> QED BY <2>1, <2>2, <2>3, <2>4, <2>5, <2>6 DEF Ownership
<1>14. ASSUME NEW c \in Closers, FinishCloser(c) PROVE Ownership'
  <2>1. OneDriver'
    BY <1>14, <1>t DEF FinishCloser, Complete, Ownership, TypeOK, OneDriver, CloserProgress, CloserConsistent, Claimable, dataVars, closerVars, notifyVars, Outcomes
  <2>2. UnregisteredIsFresh'
    BY <1>14, <1>t DEF FinishCloser, Complete, Ownership, TypeOK, OneDriver, UnregisteredIsFresh, Registered, Claimable, dataVars, closerVars, notifyVars, Outcomes
  <2>3. SettledOrRegistered'
    BY <1>14, <1>t DEF FinishCloser, Complete, Ownership, TypeOK, UnregisteredIsFresh, SettledOrRegistered, OneDriver, Registered, Claimable, dataVars, closerVars, notifyVars, Outcomes
  <2>4. CloserProgress'
    BY <1>14, <1>t DEF FinishCloser, Complete, Ownership, TypeOK, CloserProgress, CloserConsistent, SettledOrRegistered, UnregisteredIsFresh, Live, Registered, Claimable, dataVars, closerVars, notifyVars, Outcomes
  <2>5. OwnerProgress'
    BY <1>14, <1>t DEF FinishCloser, Complete, Ownership, TypeOK, OwnerProgress, OwnerConsistent, OneDriver, NoFailureLost, CloserProgress, CloserConsistent, Claimable, dataVars, closerVars, notifyVars, Outcomes
  <2>6. NoFailureLost'
    BY <1>14, <1>t DEF FinishCloser, Complete, Ownership, TypeOK, OneDriver, NoFailureLost, UnregisteredIsFresh, SettledOrRegistered, CloserProgress, CloserConsistent, Registered, Claimable, dataVars, closerVars, notifyVars, Outcomes
  <2> QED BY <2>1, <2>2, <2>3, <2>4, <2>5, <2>6 DEF Ownership
<1>15. ASSUME NEW c \in Closers, Count(c) PROVE Ownership'
  <2>1. OneDriver'
    BY <1>15, <1>t DEF Count, Ownership, TypeOK, OneDriver, CloserProgress, CloserConsistent, Claimable, dataVars, closerVars, notifyVars, Outcomes
  <2>2. UnregisteredIsFresh'
    BY <1>15, <1>t DEF Count, Ownership, TypeOK, OneDriver, UnregisteredIsFresh, Registered, Claimable, dataVars, closerVars, notifyVars, Outcomes
  <2>3. SettledOrRegistered'
    BY <1>15, <1>t DEF Count, Ownership, TypeOK, UnregisteredIsFresh, SettledOrRegistered, OneDriver, Registered, Claimable, dataVars, closerVars, notifyVars, Outcomes
  <2>4. CloserProgress'
    BY <1>15, <1>t DEF Count, Ownership, TypeOK, CloserProgress, CloserConsistent, SettledOrRegistered, UnregisteredIsFresh, Live, Registered, Claimable, dataVars, closerVars, notifyVars, Outcomes
  <2>5. OwnerProgress'
    BY <1>15, <1>t DEF Count, Ownership, TypeOK, OwnerProgress, OwnerConsistent, OneDriver, NoFailureLost, CloserProgress, CloserConsistent, Claimable, dataVars, closerVars, notifyVars, Outcomes
  <2>6. NoFailureLost'
    BY <1>15, <1>t DEF Count, Ownership, TypeOK, OneDriver, NoFailureLost, UnregisteredIsFresh, SettledOrRegistered, CloserProgress, CloserConsistent, Registered, Claimable, dataVars, closerVars, notifyVars, Outcomes
  <2> QED BY <2>1, <2>2, <2>3, <2>4, <2>5, <2>6 DEF Ownership
<1>16. ASSUME NEW c \in Closers, Take(c) PROVE Ownership'
  <2>1. OneDriver'
    BY <1>16, <1>t DEF Take, Ownership, TypeOK, OneDriver, CloserProgress, CloserConsistent, Claimable, dataVars, closerVars, notifyVars, Outcomes
  <2>2. UnregisteredIsFresh'
    BY <1>16, <1>t DEF Take, Ownership, TypeOK, OneDriver, UnregisteredIsFresh, Registered, Claimable, dataVars, closerVars, notifyVars, Outcomes
  <2>3. SettledOrRegistered'
    BY <1>16, <1>t DEF Take, Ownership, TypeOK, UnregisteredIsFresh, SettledOrRegistered, OneDriver, Registered, Claimable, dataVars, closerVars, notifyVars, Outcomes
  <2>4. CloserProgress'
    BY <1>16, <1>t DEF Take, Ownership, TypeOK, CloserProgress, CloserConsistent, SettledOrRegistered, UnregisteredIsFresh, Live, Registered, Claimable, dataVars, closerVars, notifyVars, Outcomes
  <2>5. OwnerProgress'
    BY <1>16, <1>t DEF Take, Ownership, TypeOK, OwnerProgress, OwnerConsistent, OneDriver, NoFailureLost, CloserProgress, CloserConsistent, Claimable, dataVars, closerVars, notifyVars, Outcomes
  <2>6. NoFailureLost'
    BY <1>16, <1>t DEF Take, Ownership, TypeOK, OneDriver, NoFailureLost, UnregisteredIsFresh, SettledOrRegistered, CloserProgress, CloserConsistent, Registered, Claimable, dataVars, closerVars, notifyVars, Outcomes
  <2> QED BY <2>1, <2>2, <2>3, <2>4, <2>5, <2>6 DEF Ownership
<1>17. ASSUME NEW c \in Closers, AbandonAll(c) PROVE Ownership'
  <2>1. OneDriver'
    BY <1>17, <1>t DEF AbandonAll, Ownership, TypeOK, OneDriver, CloserProgress, CloserConsistent, Claimable, dataVars, closerVars, notifyVars, Outcomes
  <2>2. UnregisteredIsFresh'
    BY <1>17, <1>t DEF AbandonAll, Ownership, TypeOK, OneDriver, UnregisteredIsFresh, Registered, Claimable, dataVars, closerVars, notifyVars, Outcomes
  <2>3. SettledOrRegistered'
    BY <1>17, <1>t DEF AbandonAll, Live, Ownership, TypeOK, UnregisteredIsFresh, SettledOrRegistered, OneDriver, Registered, Claimable, dataVars, closerVars, notifyVars, Outcomes
  <2>4. CloserProgress'
    BY <1>17, <1>t DEF AbandonAll, Ownership, TypeOK, CloserProgress, CloserConsistent, SettledOrRegistered, UnregisteredIsFresh, Live, Registered, Claimable, dataVars, closerVars, notifyVars, Outcomes
  <2>5. OwnerProgress'
    BY ZenonT(60), <1>17, <1>t DEF AbandonAll, Ownership, TypeOK, OwnerProgress, OwnerConsistent, OneDriver, NoFailureLost, CloserProgress, CloserConsistent, Claimable, dataVars, closerVars, notifyVars, Outcomes
  <2>6. NoFailureLost'
    BY <1>17, <1>t DEF AbandonAll, Ownership, TypeOK, OneDriver, NoFailureLost, UnregisteredIsFresh, SettledOrRegistered, CloserProgress, CloserConsistent, Registered, Claimable, dataVars, closerVars, notifyVars, Outcomes
  <2> QED BY <2>1, <2>2, <2>3, <2>4, <2>5, <2>6 DEF Ownership
<1>18. CASE UNCHANGED vars
  BY <1>18 DEF vars, Ownership, OneDriver, UnregisteredIsFresh, SettledOrRegistered, CloserProgress,
     CloserConsistent, OwnerProgress, OwnerConsistent, NoFailureLost, Registered, dataVars, closerVars
<1>19. ASSUME NEW p \in Procs, WaiterRuns(p) PROVE Ownership'
  BY <1>19, WaitersMove, WaiterStepKeepsOwnership DEF WaiterRuns
<1>20. ASSUME NEW t \in Tokens, NotifyTask(t) \/ CancelWaiting(t) PROVE Ownership'
  BY <1>20, WaitersMove, WaiterStepKeepsOwnership
<1>21. ASSUME NEW c \in Closers, NotifyAll(c) PROVE Ownership'
  BY <1>21, WaitersMove, WaiterStepKeepsOwnership
<1>22. ASSUME NEW t \in Tokens, OwnerCalls(t) PROVE Ownership'
  BY <1>1, <1>2, <1>3, <1>4, <1>5, <1>6, <1>11, <1>20, <1>22 DEF OwnerCalls
<1>23. ASSUME NEW t \in Tokens, OwnerRuns(t) \/ TaskRuns(t) PROVE Ownership'
  BY <1>7, <1>8, <1>9, <1>10, <1>20, <1>23 DEF OwnerRuns, TaskRuns
<1>24. ASSUME NEW c \in Closers, CleanupAll(c) \/ AbandonAll(c) \/ CloserRuns(c) PROVE Ownership'
  BY <1>12, <1>13, <1>14, <1>15, <1>16, <1>17, <1>21, <1>24 DEF CloserRuns
<1> QED BY <1>18, <1>19, <1>22, <1>23, <1>24 DEF Next

(* Every reachable state of the registry satisfies the invariant. *)
LEMMA RegistryAlways == Spec => []RegistryInvariant
<1>1. RegistryInvariant /\ [Next]_vars => RegistryInvariant'
  BY StepTypes, StepOwnership DEF RegistryInvariant, Ownership
<1> QED BY InitRegistry, <1>1, PTL DEF Spec

(* The registry's data and its tasks keep their types (lifecycle.rs, the   *)
(* PendingOwnershipData and the futures of cleanup() and cleanup_all()).   *)
THEOREM RegistryTypeCorrect == Spec => []TypeOK
<1>1. RegistryInvariant => TypeOK
  BY DEF RegistryInvariant
<1> QED BY RegistryAlways, <1>1, PTL

(* claim() hands a cleanup to one actor, and an abort hands it on: one     *)
(* driver per claimed token, whatever is aborted and whoever closes.       *)
THEOREM CleanupsAreExclusive == Spec => []OneDriver
<1>1. RegistryInvariant => OneDriver
  BY DEF RegistryInvariant
<1> QED BY RegistryAlways, <1>1, PTL

(* cleanup_all returns only after everything it found has ended. *)
THEOREM CloseLeavesNothing == Spec => []ClosedMeansCleaned
<1>1. RegistryInvariant => ClosedMeansCleaned
  BY DEF RegistryInvariant, CloserProgress, CloserConsistent, ClosedMeansCleaned
<1> QED BY RegistryAlways, <1>1, PTL

(* The failure of a cleanup reaches a completion list, a report or its     *)
(* owner: finish(), cleanup_one() and mem::take never drop one.            *)
THEOREM FailuresAreKept == Spec => []NoFailureLost
<1>1. RegistryInvariant => NoFailureLost
  BY DEF RegistryInvariant
<1> QED BY RegistryAlways, <1>1, PTL

(* finish() removes the entry with the claim, so no cleanup is claimed a   *)
(* second time and its result stays.                                       *)
THEOREM ResultsAreFinal == Spec => ResultIsFinal
<1> DEFINE Final == \A t \in Tokens : result[t] # "none" => result'[t] = result[t] /\ ~(t \in cleaning')
<1>1. RegistryInvariant /\ [Next]_vars => [Final]_vars
  <2> SUFFICES ASSUME RegistryInvariant, Next PROVE Final
    BY DEF Final
  <2> USE RegistryAssumption
  <2>i. TypeOK /\ Ownership /\ QueueHoldsParked
    BY DEF RegistryInvariant, Ownership
  <2>f. \A t \in Tokens : result[t] # "none" => t \notin cleaning /\ ~Claimable(t)
    BY <2>i DEF Ownership, OneDriver, SettledOrRegistered, Claimable
  <2>c. ASSUME NEW t \in Tokens, t \in cleaning, NEW r \in Outcomes, Complete(t, r) PROVE Final
    BY <2>i, <2>f, <2>c DEF Complete, TypeOK
  <2>1. ASSUME NEW t \in Tokens, OwnerCalls(t) PROVE Final
    <3>1. result' = result
      BY <2>1 DEF OwnerCalls, Register, Retain, Disarm, Schedule, LeavePending, Cleanup, CancelDriving, CancelWaiting
    <3>2. cleaning' \subseteq cleaning \/ (Claimable(t) /\ cleaning' = cleaning \cup {t})
      BY <2>1 DEF OwnerCalls, Register, Retain, Disarm, Schedule, LeavePending, Cleanup, CancelDriving,
         CancelWaiting, dataVars
    <3> QED BY <2>f, <3>1, <3>2
  <2>2. ASSUME NEW t \in Tokens, OwnerRuns(t) PROVE Final
    <3>1. CASE FinishOwner(t)
      <4>1. t \in cleaning
        BY <2>i, <3>1 DEF FinishOwner, Ownership, OneDriver
      <4>2. PICK r \in Outcomes : Complete(t, r)
        BY <3>1 DEF FinishOwner
      <4> QED BY <2>c, <4>1, <4>2
    <3>2. CASE Look(t) \/ Forget(t)
      BY <2>f, <3>2 DEF Look, Forget, dataVars
    <3> QED BY <2>2, <3>1, <3>2 DEF OwnerRuns
  <2>3. ASSUME NEW t \in Tokens, TaskRuns(t) PROVE Final
    <3>1. CASE FinishTask(t)
      <4>1. t \in cleaning
        BY <2>i, <3>1 DEF FinishTask, Ownership, OneDriver
      <4>2. PICK r \in Outcomes : Complete(t, r)
        BY <3>1 DEF FinishTask
      <4> QED BY <2>c, <4>1, <4>2
    <3>2. CASE NotifyTask(t)
      BY <2>f, <3>2 DEF NotifyTask, dataVars
    <3> QED BY <2>3, <3>1, <3>2 DEF TaskRuns
  <2>4. ASSUME NEW c \in Closers, CleanupAll(c) \/ AbandonAll(c) \/ CloserRuns(c) PROVE Final
    <3>1. CASE FinishCloser(c)
      <4>1. drives[c] \in cleaning /\ drives[c] \in Tokens
        BY <2>i, <3>1 DEF FinishCloser, Ownership, OneDriver, CloserProgress, CloserConsistent, TypeOK
      <4>2. PICK r \in Outcomes : Complete(drives[c], r)
        BY <3>1 DEF FinishCloser
      <4> QED BY <2>c, <4>1, <4>2
    <3>2. CASE ClaimNext(c)
      BY <2>f, <3>2 DEF ClaimNext
    <3>3. CASE CleanupAll(c) \/ AbandonAll(c) \/ Count(c) \/ Take(c) \/ NotifyAll(c)
      BY <2>f, <3>3 DEF CleanupAll, AbandonAll, Count, Take, NotifyAll, dataVars
    <3> QED BY <2>4, <3>1, <3>2, <3>3 DEF CloserRuns
  <2>5. ASSUME NEW p \in Procs, WaiterRuns(p) PROVE Final
    BY <2>f, <2>5 DEF WaiterRuns, Park, Resume, Notify, dataVars
  <2> QED BY <2>1, <2>2, <2>3, <2>4, <2>5 DEF Next
<1>2. ResultIsFinal <=> [][Final]_vars
  BY DEF ResultIsFinal, Final
<1> QED BY RegistryAlways, <1>1, <1>2, PTL DEF Spec
=============================================================================
