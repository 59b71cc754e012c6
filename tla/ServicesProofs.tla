---------------------------- MODULE ServicesProofs ----------------------------
(***************************************************************************)
(* Machine-checked proofs about the default session, the operation gate    *)
(* and the confirmed close of a target, each by itself and beside the other*)
(* components of MCServices, for every value of the constants.             *)
(***************************************************************************)
EXTENDS MCServices, FiniteSetTheorems, SequenceTheorems, TLAPS

(***************************************************************************)
(* The operation gate                                                      *)
(***************************************************************************)
(* The module of the gate has its own copy of Cardinality.                 *)
LEMMA GateCounts == \A S : Gate!Cardinality(S) = Cardinality(S)
BY DEF Gate!Cardinality, Cardinality

(* Changing where one operation is moves it in or out of Inside. *)
LEMMA InsideUpdate ==
  ASSUME op \in [Ops -> Gate!OpStates], NEW o \in Ops, NEW s \in Gate!OpStates,
         op' = [op EXCEPT ![o] = s]
  PROVE  Gate!Inside' = IF s = "inside" THEN Gate!Inside \cup {o} ELSE Gate!Inside \ {o}
  BY DEF Gate!Inside, Gate!OpStates

(* The permit holders are a finite set no larger than Ops. *)
LEMMA InsideFinite ==
  /\ IsFiniteSet(Gate!Inside)
  /\ Cardinality(Gate!Inside) \in 0 .. Cardinality(Ops)
<1>1. Gate!Inside \in SUBSET Ops
  BY DEF Gate!Inside
<1>2. IsFiniteSet(Gate!Inside) /\ Cardinality(Gate!Inside) <= Cardinality(Ops)
  BY <1>1, GateAssumption, FS_Subset
<1>3. Cardinality(Gate!Inside) \in Nat /\ Cardinality(Ops) \in Nat
  BY <1>2, GateAssumption, FS_CardinalityType
<1> QED BY <1>2, <1>3

(* The initial state satisfies the inductive invariant. *)
LEMMA InitGate == Gate!Init => Gate!GateInvariant
<1> SUFFICES ASSUME Gate!Init PROVE Gate!GateInvariant
  OBVIOUS
<1>1. Gate!Inside = {}
  BY DEF Gate!Init, Gate!Inside
<1>2. active = Cardinality(Gate!Inside)
  BY <1>1, FS_EmptySet DEF Gate!Init
<1>3. 0 \in 0 .. Cardinality(Ops)
  <2>1. Cardinality(Ops) \in Nat
    BY GateAssumption, FS_CardinalityType
  <2> QED BY <2>1
<1>4. Gate!TypeOK
  BY <1>3, GateCounts
     DEF Gate!Init, Gate!TypeOK, Gate!Handles, Gate!OpStates, Gate!TaskStates,
         Gate!CallerStates, Gate!Reports
<1> QED BY <1>2, <1>4, GateCounts DEF Gate!Init, Gate!GateInvariant, Gate!Reports

(* Every step of the gate, its callers and its task preserves it. *)
LEMMA StepGate == Gate!GateInvariant /\ [Gate!Next]_Gate!vars => Gate!GateInvariant'
<1> SUFFICES ASSUME Gate!GateInvariant, [Gate!Next]_Gate!vars PROVE Gate!GateInvariant'
  OBVIOUS
<1> USE GateAssumption
<1>t. Gate!TypeOK /\ active = Cardinality(Gate!Inside)
  BY GateCounts DEF Gate!GateInvariant
<1>f. Cardinality(Gate!Inside) \in Nat /\ Cardinality(Ops) \in Nat
  BY InsideFinite, FS_CardinalityType
<1>g. (op' \in [Ops -> Gate!OpStates]) => Cardinality(Gate!Inside') \in 0 .. Cardinality(Ops)
  <2>1. Gate!Inside' \in SUBSET Ops
    BY DEF Gate!Inside
  <2>2. IsFiniteSet(Gate!Inside') /\ Cardinality(Gate!Inside') <= Cardinality(Ops)
    BY <2>1, FS_Subset
  <2>3. Cardinality(Gate!Inside') \in Nat
    BY <2>2, FS_CardinalityType
  <2> QED BY <2>2, <2>3, <1>f
<1>1. ASSUME NEW o \in Ops, Gate!Admit(o) PROVE Gate!GateInvariant'
  <2>1. Gate!Inside' = Gate!Inside \cup {o} /\ o \notin Gate!Inside
    BY <1>1, <1>t, InsideUpdate DEF Gate!Admit, Gate!TypeOK, Gate!OpStates, Gate!Inside
  <2>2. Cardinality(Gate!Inside') = Cardinality(Gate!Inside) + 1
    BY <2>1, InsideFinite, FS_AddElement
  <2>3. active' = Cardinality(Gate!Inside')
    BY <1>1, <1>t, <2>2 DEF Gate!Admit
  <2>4. op' \in [Ops -> Gate!OpStates]
    BY <1>1, <1>t DEF Gate!Admit, Gate!TypeOK, Gate!OpStates
  <2>5. Gate!TypeOK'
    BY <1>1, <1>t, <1>g, <2>3, <2>4, GateCounts
       DEF Gate!Admit, Gate!TypeOK, Gate!closeVars
  <2> QED BY <1>1, <2>3, <2>5, GateCounts
             DEF Gate!GateInvariant, Gate!Admit, Gate!closeVars
<1>2. ASSUME NEW o \in Ops, Gate!Reject(o) PROVE Gate!GateInvariant'
  <2>1. Gate!Inside' = Gate!Inside \ {o} /\ o \notin Gate!Inside
    BY <1>2, <1>t, InsideUpdate DEF Gate!Reject, Gate!TypeOK, Gate!OpStates, Gate!Inside
  <2>2. Gate!Inside' = Gate!Inside
    BY <2>1
  <2>3. Gate!TypeOK'
    BY <1>2, <1>t
       DEF Gate!Reject, Gate!TypeOK, Gate!OpStates, Gate!gateVars, Gate!closeVars
  <2> QED BY <1>2, <2>2, <2>3
             DEF Gate!GateInvariant, Gate!Reject, Gate!gateVars, Gate!closeVars
<1>3. ASSUME NEW o \in Ops, Gate!Release(o) PROVE Gate!GateInvariant'
  <2>1. Gate!Inside' = Gate!Inside \ {o} /\ o \in Gate!Inside
    BY <1>3, <1>t, InsideUpdate DEF Gate!Release, Gate!TypeOK, Gate!OpStates, Gate!Inside
  <2>2. Cardinality(Gate!Inside') = Cardinality(Gate!Inside) - 1
    BY <2>1, InsideFinite, FS_RemoveElement
  <2>3. Cardinality(Gate!Inside') \in Nat
    BY <1>3, <1>t, <1>g DEF Gate!Release, Gate!TypeOK, Gate!OpStates
  <2>4. active' = Cardinality(Gate!Inside') /\ active # 0
    BY <1>3, <1>t, <1>f, <2>2, <2>3 DEF Gate!Release, Gate!SaturatingDecrement
  <2>5. op' \in [Ops -> Gate!OpStates]
    BY <1>3, <1>t DEF Gate!Release, Gate!TypeOK, Gate!OpStates
  <2>6. Gate!TypeOK'
    BY <1>3, <1>t, <1>g, <2>4, <2>5, GateCounts
       DEF Gate!Release, Gate!TypeOK, Gate!closeVars
  <2> QED BY <1>3, <2>4, <2>6, GateCounts
             DEF Gate!GateInvariant, Gate!Release, Gate!closeVars
<1>4. ASSUME NEW o \in Ops, Gate!NotifyDrained(o) PROVE Gate!GateInvariant'
  <2>1. Gate!Inside' = Gate!Inside \ {o} /\ o \notin Gate!Inside
    BY <1>4, <1>t, InsideUpdate
       DEF Gate!NotifyDrained, Gate!TypeOK, Gate!OpStates, Gate!Inside
  <2>2. Gate!Inside' = Gate!Inside
    BY <2>1
  <2>3. Gate!TypeOK'
    BY <1>4, <1>t
       DEF Gate!NotifyDrained, Gate!NotifyOne, Gate!TypeOK, Gate!OpStates, Gate!TaskStates
  <2> QED BY <1>4, <2>2, <2>3
             DEF Gate!GateInvariant, Gate!NotifyDrained, Gate!NotifyOne, Gate!TypeOK
<1>5. ASSUME NEW c \in Callers,
             Gate!Call(c) \/ Gate!CallWithoutRuntime(c) \/ Gate!GetOrInit(c) \/ Gate!DropCaller(c) \/ Gate!Return(c)
      PROVE Gate!GateInvariant'
  <2>1. Gate!Inside' = Gate!Inside
    BY <1>5
       DEF Gate!Inside, Gate!Call, Gate!CallWithoutRuntime, Gate!GetOrInit,
           Gate!DropCaller, Gate!Return
  <2>2. CASE Gate!Call(c)
    BY <2>1, <2>2
       DEF Gate!GateInvariant, Gate!TypeOK, Gate!Call, Gate!gateVars, Gate!CallerStates
  <2>3. CASE Gate!CallWithoutRuntime(c)
    BY <2>1, <2>3
       DEF Gate!GateInvariant, Gate!TypeOK, Gate!CallWithoutRuntime, Gate!gateVars,
           Gate!CallerStates, Gate!Reports
  <2>4. CASE Gate!GetOrInit(c)
    BY <2>1, <2>4
       DEF Gate!GateInvariant, Gate!TypeOK, Gate!GetOrInit, Gate!gateVars, Gate!CallerStates, Gate!TaskStates
  <2>5. CASE Gate!DropCaller(c)
    BY <2>1, <2>5
       DEF Gate!GateInvariant, Gate!TypeOK, Gate!DropCaller, Gate!gateVars,
           Gate!CallerStates
  <2>6. CASE Gate!Return(c)
    BY <2>1, <2>6
       DEF Gate!GateInvariant, Gate!TypeOK, Gate!Return, Gate!gateVars, Gate!CallerStates,
           Gate!Reports
  <2> QED BY <1>5, <2>2, <2>3, <2>4, <2>5, <2>6
<1>6. ASSUME NEW c \in Callers, Gate!TaskStep(c) PROVE Gate!GateInvariant'
  <2>1. Gate!Inside' = Gate!Inside
    BY <1>6
       DEF Gate!Inside, Gate!TaskStep, Gate!StartClose, Gate!CheckDrained, Gate!Park,
           Gate!FinishClose,
                Gate!PanicInCleanup, Gate!gateVars
  <2>2. CASE Gate!StartClose(c)
    BY <2>1, <2>2
       DEF Gate!GateInvariant, Gate!TypeOK, Gate!StartClose, Gate!Handles, Gate!TaskStates
  <2>3. CASE Gate!CheckDrained(c)
    BY <2>1, <2>3
       DEF Gate!GateInvariant, Gate!TypeOK, Gate!CheckDrained, Gate!gateVars,
           Gate!TaskStates
  <2>4. CASE Gate!Park(c)
    BY <2>1, <2>4 DEF Gate!GateInvariant, Gate!TypeOK, Gate!Park, Gate!TaskStates
  <2>5. CASE Gate!FinishClose(c)
    <3>1. Gate!TypeOK'
      BY <2>5, <1>t
         DEF Gate!TypeOK, Gate!FinishClose, Gate!Handles, Gate!TaskStates, Gate!Reports
    <3> QED BY <2>1, <2>5, <3>1
               DEF Gate!GateInvariant, Gate!TypeOK, Gate!FinishClose, Gate!Reports
  <2>6. CASE Gate!PanicInCleanup(c)
    BY <2>1, <2>6
       DEF Gate!GateInvariant, Gate!TypeOK, Gate!PanicInCleanup, Gate!gateVars,
           Gate!TaskStates, Gate!Reports
  <2> QED BY <1>6, <2>2, <2>3, <2>4, <2>5, <2>6 DEF Gate!TaskStep
<1>7. CASE UNCHANGED Gate!vars
  <2>1. Gate!Inside' = Gate!Inside
    BY <1>7 DEF Gate!vars, Gate!Inside
  <2> QED BY <1>7, <2>1 DEF Gate!vars, Gate!GateInvariant, Gate!TypeOK
<1> QED BY <1>1, <1>2, <1>3, <1>4, <1>5, <1>6, <1>7 DEF Gate!Next, Gate!OpEnds

LEMMA GateAlways == Gate!Spec => []Gate!GateInvariant
  BY InitGate, StepGate, PTL DEF Gate!Spec

(* Every variable of the gate keeps its type. *)
THEOREM GateTypeCorrect == Gate!Spec => []Gate!TypeOK
  BY GateAlways, PTL DEF Gate!GateInvariant

(* Cleanup never overlaps an operation that was admitted, however many     *)
(* operations race with however many closers.                              *)
THEOREM CleanupIsExclusive == Gate!Spec => []Gate!CleanupExcludesOperations
<1>1. Gate!GateInvariant => Gate!CleanupExcludesOperations
  <2> SUFFICES ASSUME Gate!GateInvariant, NEW c \in Callers,
                      task[c] \in {"cleanup", "closed", "panicked"}
               PROVE  Gate!Inside = {}
    BY DEF Gate!CleanupExcludesOperations
  <2>1. Cardinality(Gate!Inside) = 0
    BY GateCounts DEF Gate!GateInvariant
  <2> QED BY <2>1, InsideFinite, FS_EmptySet
<1> QED BY <1>1, GateAlways, PTL

(* Close intent is final: no later step admits an operation or reopens. *)
THEOREM IntentNeverReverts == Gate!Spec => Gate!IntentIsFinal
<1>1. Gate!GateInvariant /\ [Gate!Next]_Gate!vars
        => [handle # "Open" =>
              /\ handle' # "Open"
              /\ {o \in Ops : op'[o] = "inside"} \subseteq Gate!Inside]_Gate!vars
  <2> SUFFICES ASSUME Gate!GateInvariant, Gate!Next, handle # "Open"
               PROVE  /\ handle' # "Open"
                      /\ {o \in Ops : op'[o] = "inside"} \subseteq Gate!Inside
    OBVIOUS
  <2>t. Gate!TypeOK
    BY DEF Gate!GateInvariant
  <2>1. ASSUME NEW o \in Ops, Gate!Admit(o) \/ Gate!Reject(o) \/ Gate!OpEnds(o)
        PROVE  /\ handle' # "Open"
               /\ {u \in Ops : op'[u] = "inside"} \subseteq Gate!Inside
    BY <2>1, <2>t
       DEF Gate!Admit, Gate!Reject, Gate!OpEnds, Gate!Release, Gate!NotifyDrained,
           Gate!gateVars, Gate!Inside,
                     Gate!TypeOK, Gate!OpStates
  <2>2. ASSUME NEW c \in Callers,
               Gate!Call(c) \/ Gate!CallWithoutRuntime(c) \/ Gate!GetOrInit(c) \/ Gate!DropCaller(c) \/ Gate!Return(c)
        PROVE  handle' = handle /\ op' = op
    BY <2>2
       DEF Gate!Call, Gate!CallWithoutRuntime, Gate!GetOrInit, Gate!DropCaller,
           Gate!Return, Gate!gateVars
  <2>3. ASSUME NEW c \in Callers, Gate!TaskStep(c)
        PROVE  handle' # "Open" /\ op' = op
    BY <2>3
       DEF Gate!TaskStep, Gate!StartClose, Gate!CheckDrained, Gate!Park, Gate!FinishClose,
           Gate!PanicInCleanup, Gate!gateVars
  <2> QED BY <2>1, <2>2, <2>3 DEF Gate!Next, Gate!Inside
<1> QED BY <1>1, GateAlways, PTL DEF Gate!Spec, Gate!IntentIsFinal

-----------------------------------------------------------------------------
(* The safety half of ImplementsDrainedClose: the gate starts as the       *)
(* abstract scope starts, and each of its steps is a step of the abstract  *)
(* scope or leaves it unchanged.                                           *)
PromiseSafety == Gate!Promise!Init /\ [][Gate!Promise!Next]_(Gate!Promise!vars)

LEMMA InitPromise == Gate!Init => Gate!Promise!Init
  BY DEF Gate!Init, Gate!Promise!Init, Gate!Inside

LEMMA StepPromise ==
  Gate!GateInvariant /\ Gate!GateInvariant' /\ [Gate!Next]_Gate!vars => [Gate!Promise!Next]_(Gate!Promise!vars)
<1> SUFFICES ASSUME Gate!GateInvariant, Gate!GateInvariant', [Gate!Next]_Gate!vars
             PROVE  [Gate!Promise!Next]_(Gate!Promise!vars)
  OBVIOUS
<1> DEFINE Phase ==
      IF handle = "Closed" THEN "closed"
      ELSE IF \E c \in Callers : task[c] \in {"cleanup", "panicked"} THEN "cleaning"
      ELSE IF handle = "Closing" THEN "draining"
      ELSE "open"
<1>t. Gate!TypeOK /\ Gate!TypeOK'
  BY DEF Gate!GateInvariant
<1>s. ASSUME Gate!Inside' = Gate!Inside, Phase' = Phase
      PROVE  [Gate!Promise!Next]_(Gate!Promise!vars)
  BY <1>s DEF Gate!Promise!vars
<1>1. ASSUME NEW o \in Ops, Gate!Admit(o) PROVE [Gate!Promise!Next]_(Gate!Promise!vars)
  <2>1. Gate!Inside' = Gate!Inside \cup {o}
    BY <1>1, <1>t, InsideUpdate DEF Gate!Admit, Gate!TypeOK, Gate!OpStates
  <2>2. Phase = "open" /\ Phase' = "open"
    BY <1>1 DEF Gate!Admit, Gate!GateInvariant, Gate!closeVars
  <2> QED BY <2>1, <2>2 DEF Gate!Promise!Next, Gate!Promise!Admit
<1>2. ASSUME NEW o \in Ops, Gate!Reject(o) PROVE [Gate!Promise!Next]_(Gate!Promise!vars)
  <2>1. Gate!Inside' = Gate!Inside
    BY <1>2, <1>t, InsideUpdate DEF Gate!Reject, Gate!TypeOK, Gate!OpStates, Gate!Inside
  <2>2. Phase' = Phase
    BY <1>2 DEF Gate!Reject, Gate!gateVars, Gate!closeVars
  <2> QED BY <1>s, <2>1, <2>2
<1>3. ASSUME NEW o \in Ops, Gate!Release(o) PROVE [Gate!Promise!Next]_(Gate!Promise!vars)
  <2>1. Gate!Inside' = Gate!Inside \ {o} /\ o \in Gate!Inside
    BY <1>3, <1>t, InsideUpdate DEF Gate!Release, Gate!TypeOK, Gate!OpStates, Gate!Inside
  <2>2. Phase' = Phase
    BY <1>3 DEF Gate!Release, Gate!closeVars
  <2> QED BY <2>1, <2>2 DEF Gate!Promise!Next, Gate!Promise!Leave
<1>4. ASSUME NEW o \in Ops, Gate!NotifyDrained(o) PROVE [Gate!Promise!Next]_(Gate!Promise!vars)
  <2>1. Gate!Inside' = Gate!Inside
    BY <1>4, <1>t, InsideUpdate
       DEF Gate!NotifyDrained, Gate!TypeOK, Gate!OpStates, Gate!Inside
  <2>2. Phase' = Phase
    <3>1. \A d \in Callers : task'[d] \in {"cleanup", "panicked"}
                               <=> task[d] \in {"cleanup", "panicked"}
      BY <1>4, <1>t DEF Gate!NotifyDrained, Gate!NotifyOne, Gate!TypeOK, Gate!TaskStates
    <3> QED BY <1>4, <3>1 DEF Gate!NotifyDrained
  <2> QED BY <1>s, <2>1, <2>2
<1>5. ASSUME NEW c \in Callers,
             Gate!Call(c) \/ Gate!CallWithoutRuntime(c) \/ Gate!GetOrInit(c) \/ Gate!DropCaller(c) \/ Gate!Return(c)
      PROVE [Gate!Promise!Next]_(Gate!Promise!vars)
  <2>1. Gate!Inside' = Gate!Inside
    BY <1>5
       DEF Gate!Inside, Gate!Call, Gate!CallWithoutRuntime, Gate!GetOrInit,
           Gate!DropCaller, Gate!Return
  <2>2. handle' = handle
    BY <1>5
       DEF Gate!Call, Gate!CallWithoutRuntime, Gate!GetOrInit, Gate!DropCaller,
           Gate!Return, Gate!gateVars
  <2>3. \A d \in Callers : task'[d] \in {"cleanup", "panicked"}
                             <=> task[d] \in {"cleanup", "panicked"}
    BY <1>5, <1>t
       DEF Gate!Call, Gate!CallWithoutRuntime, Gate!GetOrInit, Gate!DropCaller,
           Gate!Return, Gate!TypeOK,
                      Gate!GateInvariant
  <2> QED BY <1>s, <2>1, <2>2, <2>3
<1>6. ASSUME NEW c \in Callers, Gate!TaskStep(c) PROVE [Gate!Promise!Next]_(Gate!Promise!vars)
  <2>1. Gate!Inside' = Gate!Inside
    BY <1>6
       DEF Gate!Inside, Gate!TaskStep, Gate!StartClose, Gate!CheckDrained, Gate!Park,
           Gate!FinishClose,
                Gate!PanicInCleanup, Gate!gateVars
  <2>o. \A d \in Callers : task[d] # "absent" => d = c
    BY <1>6
       DEF Gate!GateInvariant, Gate!TaskStep, Gate!StartClose, Gate!CheckDrained,
           Gate!Park, Gate!FinishClose,
                Gate!PanicInCleanup
  <2>p. \A d \in Callers : task'[d] # "absent" => d = c
    BY <1>6, <2>o, <1>t
       DEF Gate!TaskStep, Gate!StartClose, Gate!CheckDrained, Gate!Park, Gate!FinishClose,
                Gate!PanicInCleanup, Gate!TypeOK, Gate!TaskStates
  <2>2. CASE Gate!StartClose(c)
    <3>1. Phase = "open" /\ Phase' = "draining"
      BY <2>2, <2>o, <2>p, <1>t DEF Gate!StartClose, Gate!GateInvariant, Gate!TypeOK
    <3> QED BY <2>1, <3>1 DEF Gate!Promise!Next, Gate!Promise!Intend
  <2>3. CASE Gate!CheckDrained(c)
    <3>1. CASE active = 0
      <4>1. Gate!Inside = {}
        BY <3>1, InsideFinite, FS_EmptySet, GateCounts DEF Gate!GateInvariant
      <4>2. Phase = "draining" /\ Phase' = "cleaning"
        BY <2>3, <3>1, <2>o, <2>p, <1>t
           DEF Gate!CheckDrained, Gate!GateInvariant, Gate!TypeOK, Gate!gateVars
      <4> QED BY <2>1, <4>1, <4>2 DEF Gate!Promise!Next, Gate!Promise!Clean
    <3>2. CASE active # 0
      <4>1. Phase' = Phase
        BY <2>3, <3>2, <2>o, <2>p, <1>t
           DEF Gate!CheckDrained, Gate!GateInvariant, Gate!TypeOK, Gate!gateVars
      <4> QED BY <1>s, <2>1, <4>1
    <3> QED BY <3>1, <3>2
  <2>4. CASE Gate!Park(c)
    <3>1. Phase' = Phase
      BY <2>4, <2>o, <2>p, <1>t DEF Gate!Park, Gate!GateInvariant, Gate!TypeOK
    <3> QED BY <1>s, <2>1, <3>1
  <2>5. CASE Gate!FinishClose(c)
    <3>1. Phase = "cleaning" /\ Phase' = "closed"
      BY <2>5, <2>o, <1>t DEF Gate!FinishClose, Gate!GateInvariant, Gate!TypeOK
    <3> QED BY <2>1, <3>1 DEF Gate!Promise!Next, Gate!Promise!Finish
  <2>6. CASE Gate!PanicInCleanup(c)
    <3>1. Phase' = Phase
      BY <2>6, <2>o, <2>p, <1>t
         DEF Gate!PanicInCleanup, Gate!GateInvariant, Gate!TypeOK, Gate!gateVars
    <3> QED BY <1>s, <2>1, <3>1
  <2> QED BY <1>6, <2>2, <2>3, <2>4, <2>5, <2>6 DEF Gate!TaskStep
<1>7. CASE UNCHANGED Gate!vars
  BY <1>7, <1>s DEF Gate!vars, Gate!Inside
<1> QED BY <1>1, <1>2, <1>3, <1>4, <1>5, <1>6, <1>7 DEF Gate!Next, Gate!OpEnds

(* The gate implements the safety of DrainedClose for every Ops and Callers. *)
THEOREM GateImplementsPromise == Gate!Spec => PromiseSafety
  BY InitPromise, StepPromise, GateAlways, PTL DEF Gate!Spec, PromiseSafety

-----------------------------------------------------------------------------
(***************************************************************************)
(* The confirmed close of a target                                         *)
(***************************************************************************)
TargetEvents == {"mine", "other", "error"}
TargetStreams == [open : BOOLEAN, queue : Seq(TargetEvents)]

(* What every piece of evidence says: the call's own event in a stream, an *)
(* inventory without the target, and a success all mean that it is gone.   *)
Evidence ==
  \A c \in Closers :
    \/ target = "gone"
    \/ /\ \A i \in 1..Len(stream[c].queue) : stream[c].queue[i] # "mine"
       /\ inventory[c] # "absent"
       /\ result[c] # "ok"

TargetInvariant == Target!TypeOK /\ Evidence

-----------------------------------------------------------------------------
(* A stream that gets one more event is a stream, with that event last. *)
LEMMA AppendedStream ==
  ASSUME NEW s \in TargetStreams, NEW e \in TargetEvents
  PROVE  /\ [s EXCEPT !.queue = Append(@, e)] \in TargetStreams
         /\ e # "mine" /\ (\A i \in 1..Len(s.queue) : s.queue[i] # "mine") =>
              \A i \in 1..Len(Append(s.queue, e)) : Append(s.queue, e)[i] # "mine"
<1>1. s.queue \in Seq(TargetEvents)
  BY DEF TargetStreams
<1>2. Append(s.queue, e) \in Seq(TargetEvents) /\ Len(Append(s.queue, e)) = Len(s.queue) + 1
  BY <1>1
<1>3. \A i \in 1..Len(s.queue) : Append(s.queue, e)[i] = s.queue[i]
  BY <1>1
<1>4. Append(s.queue, e)[Len(s.queue) + 1] = e
  BY <1>1
<1>5. \A i \in 1..(Len(s.queue) + 1) : i \in 1..Len(s.queue) \/ i = Len(s.queue) + 1
  BY <1>1
<1> QED BY <1>2, <1>3, <1>4, <1>5 DEF TargetStreams

(* The rest of a stream is a stream with no new event. *)
LEMMA ReadStream ==
  ASSUME NEW s \in TargetStreams, s.queue # <<>>
  PROVE  /\ Head(s.queue) = s.queue[1] /\ 1 \in 1..Len(s.queue)
         /\ [s EXCEPT !.queue = Tail(@)] \in TargetStreams
         /\ (\A i \in 1..Len(s.queue) : s.queue[i] # "mine") =>
              \A i \in 1..Len(Tail(s.queue)) : Tail(s.queue)[i] # "mine"
<1>1. s.queue \in Seq(TargetEvents) /\ Len(s.queue) \in Nat /\ Len(s.queue) > 0
  BY DEF TargetStreams
<1>2. Tail(s.queue) \in Seq(TargetEvents) /\ Len(Tail(s.queue)) = Len(s.queue) - 1
  BY <1>1
<1>3. \A i \in 1..Len(Tail(s.queue)) : Tail(s.queue)[i] = s.queue[i + 1] /\ i + 1 \in 1..Len(s.queue)
  BY <1>1, <1>2
<1> QED BY <1>1, <1>2, <1>3 DEF TargetStreams

-----------------------------------------------------------------------------
(* No call has any evidence before Chrome is asked. *)
LEMMA InvariantHoldsAtFirst == Target!Init => TargetInvariant
<1> SUFFICES ASSUME Target!Init PROVE TargetInvariant
  OBVIOUS
<1>1. Target!TypeOK
  BY TargetCloseAssumption DEF Target!Init, Target!TypeOK, Target!NoStream
<1>2. \A c \in Closers : stream[c].queue = <<>> /\ inventory[c] = "none" /\ result[c] = "none"
  BY DEF Target!Init, Target!NoStream
<1>3. \A c \in Closers : \A i \in 1..Len(stream[c].queue) : FALSE
  BY <1>2
<1>4. Evidence
  BY <1>2, <1>3 DEF Evidence
<1> QED BY <1>1, <1>4 DEF TargetInvariant

(* Every step keeps the types and the meaning of the evidence. *)
LEMMA InvariantIsKept == TargetInvariant /\ [Target!Next]_Target!vars => TargetInvariant'
<1> SUFFICES ASSUME TargetInvariant, [Target!Next]_Target!vars PROVE TargetInvariant'
  OBVIOUS
<1> USE DEF TargetInvariant
<1>t. \A c \in Closers : stream[c] \in TargetStreams
  BY DEF Target!TypeOK, TargetStreams, TargetEvents
<1>1. CASE Target!Destroy
  <2>1. \A c \in Closers : stream'[c] \in TargetStreams
    BY <1>1, <1>t, AppendedStream DEF Target!Destroy, TargetEvents, Target!TypeOK
  <2>2. Target!TypeOK'
    BY <1>1, <2>1 DEF Target!Destroy, Target!TypeOK, TargetStreams, TargetEvents
  <2> QED BY <1>1, <2>2 DEF Target!Destroy, Evidence
<1>2. CASE Target!Refuse
  <2>1. Target!TypeOK'
    BY <1>2 DEF Target!Refuse, Target!TypeOK
  <2>2. Evidence'
    BY <1>2 DEF Target!Refuse, Target!TypeOK, Evidence
  <2> QED BY <2>1, <2>2
<1>3. ASSUME NEW c \in Closers, Target!AnswerClose(c) PROVE TargetInvariant'
  <2>1. Target!TypeOK'
    BY <1>3 DEF Target!AnswerClose, Target!TypeOK
  <2>2. Evidence'
    BY <1>3 DEF Target!AnswerClose, Target!TypeOK, Evidence
  <2> QED BY <2>1, <2>2
<1>4. ASSUME NEW c \in Closers, Target!AnswerInventory(c) PROVE TargetInvariant'
  <2>1. Target!TypeOK'
    BY <1>4 DEF Target!AnswerInventory, Target!TypeOK
  <2>2. Evidence'
    BY <1>4 DEF Target!AnswerInventory, Target!TypeOK, Evidence
  <2> QED BY <2>1, <2>2
<1>5. ASSUME NEW c \in Closers, Target!OtherEvent(c) PROVE TargetInvariant'
  <2>1. PICK e \in {"other", "error"} : stream' = [stream EXCEPT ![c].queue = Append(@, e)]
    BY <1>5 DEF Target!OtherEvent
  <2>2. stream'[c] = [stream[c] EXCEPT !.queue = Append(@, e)] /\ stream'[c].queue = Append(stream[c].queue, e)
    BY <2>1, <1>t DEF Target!TypeOK, TargetStreams
  <2>3. \A d \in Closers : d # c => stream'[d] = stream[d]
    BY <2>1 DEF Target!TypeOK
  <2>4. \A d \in Closers : stream'[d] \in TargetStreams
    <3>1. e \in TargetEvents /\ stream[c] \in TargetStreams
      BY <1>t DEF TargetEvents
    <3>2. stream'[c] \in TargetStreams
      BY <2>2, <3>1, AppendedStream
    <3> QED BY <2>3, <3>2, <1>t
  <2>5. Target!TypeOK'
    <3>1. noise' \in [Closers -> 0..Unrelated]
      BY <1>5, TargetCloseAssumption DEF Target!OtherEvent, Target!TypeOK
    <3>2. stream' \in [Closers -> [open : BOOLEAN, queue : Seq({"mine", "other", "error"})]]
      BY <2>1, <2>4 DEF Target!TypeOK, TargetStreams, TargetEvents
    <3> QED BY <1>5, <3>1, <3>2 DEF Target!OtherEvent, Target!TypeOK
  <2>6. Evidence'
    BY <1>5, <1>t, <2>2, <2>3, AppendedStream
       DEF Target!OtherEvent, Evidence, TargetEvents
  <2> QED BY <2>5, <2>6
<1>6. ASSUME NEW c \in Closers, Target!LoseStream(c) PROVE TargetInvariant'
  <2>1. Target!TypeOK'
    BY ZenonT(60), <1>6 DEF Target!LoseStream, Target!TypeOK
  <2>2. Evidence'
    BY <1>6 DEF Target!LoseStream, Target!TypeOK, Evidence
  <2> QED BY <2>1, <2>2
<1>7. ASSUME NEW c \in Closers, Target!Tick(c) PROVE TargetInvariant'
  <2>1. Target!TypeOK'
    BY <1>7 DEF Target!Tick, Target!TypeOK
  <2>2. Evidence'
    BY <1>7 DEF Target!Tick, Target!TypeOK, Evidence
  <2> QED BY <2>1, <2>2
<1>8. ASSUME NEW c \in Closers, Target!Subscribe(c) PROVE TargetInvariant'
  <2>0. \A d \in Closers : stream'[d] \in TargetStreams /\ stream'[d].queue = stream[d].queue
    <3>1. CASE stream' = [stream EXCEPT ![c].open = TRUE]
      <4>1. stream'[c] = [stream[c] EXCEPT !.open = TRUE] /\ \A d \in Closers : d # c => stream'[d] = stream[d]
        BY <3>1 DEF Target!TypeOK
      <4> QED BY ZenonT(60), <4>1, <1>t DEF TargetStreams
    <3>2. CASE stream' = stream
      BY <3>2, <1>t
    <3> QED BY <1>8, <3>1, <3>2 DEF Target!Subscribe
  <2>1. Target!TypeOK'
    <3>1. stream' \in [Closers -> [open : BOOLEAN, queue : Seq({"mine", "other", "error"})]]
      BY <1>8, <2>0 DEF Target!Subscribe, Target!TypeOK, TargetStreams, TargetEvents
    <3> QED BY ZenonT(60), <1>8, <3>1 DEF Target!Subscribe, Target!End, Target!TypeOK
  <2>2. Evidence'
    <3>1. target' = target /\ inventory' = inventory /\ \A d \in Closers : result'[d] = "ok" => result[d] = "ok"
      BY <1>8 DEF Target!Subscribe, Target!End, Target!TypeOK
    <3> QED BY <2>0, <3>1 DEF Evidence
  <2> QED BY <2>1, <2>2
<1>9. ASSUME NEW c \in Closers, Target!Dispatch(c) PROVE TargetInvariant'
  <2>1. Target!TypeOK'
    BY ZenonT(60), <1>9 DEF Target!Dispatch, Target!End, Target!TypeOK
  <2>2. Evidence'
    BY <1>9 DEF Target!Dispatch, Target!End, Target!TypeOK, Evidence
  <2> QED BY <2>1, <2>2
<1>10. ASSUME NEW c \in Closers, Target!ReadEvent(c) PROVE TargetInvariant'
  <2>1. stream[c].queue # <<>> /\ stream' = [stream EXCEPT ![c].queue = Tail(@)]
    BY <1>10 DEF Target!ReadEvent
  <2>2. stream'[c] = [stream[c] EXCEPT !.queue = Tail(@)] /\ stream'[c].queue = Tail(stream[c].queue)
    BY <2>1, <1>t DEF Target!TypeOK, TargetStreams
  <2>3. \A d \in Closers : d # c => stream'[d] = stream[d]
    BY <2>1 DEF Target!TypeOK
  <2>4. \A d \in Closers : stream'[d] \in TargetStreams
    BY <2>1, <2>2, <2>3, <1>t, ReadStream
  <2>5. Target!TypeOK'
    <3>1. stream' \in [Closers -> [open : BOOLEAN, queue : Seq({"mine", "other", "error"})]]
      BY <2>1, <2>4 DEF Target!TypeOK, TargetStreams, TargetEvents
    <3> QED BY ZenonT(60), <1>10, <3>1 DEF Target!ReadEvent, Target!End, Target!TypeOK
  <2>6. Evidence'
    <3>1. CASE target = "gone"
      BY <1>10, <3>1 DEF Target!ReadEvent, Evidence
    <3>2. CASE target # "gone"
      <4>1. Head(stream[c].queue) # "mine"
        BY <2>1, <3>2, <1>t, ReadStream DEF Evidence
      <4>2. \A i \in 1..Len(stream'[c].queue) : stream'[c].queue[i] # "mine"
        BY <2>1, <2>2, <3>2, <1>t, ReadStream DEF Evidence
      <4> QED BY <1>10, <2>3, <3>2, <4>1, <4>2 DEF Target!ReadEvent, Evidence
    <3> QED BY <3>1, <3>2
  <2> QED BY <2>5, <2>6
<1>11. ASSUME NEW c \in Closers, Target!StopWaiting(c) PROVE TargetInvariant'
  <2>1. Target!TypeOK'
    BY <1>11 DEF Target!StopWaiting, Target!TypeOK
  <2>2. Evidence'
    BY <1>11 DEF Target!StopWaiting, Target!TypeOK, Evidence
  <2> QED BY <2>1, <2>2
<1>12. ASSUME NEW c \in Closers, Target!Confirm(c) PROVE TargetInvariant'
  <2>1. Target!TypeOK'
    <3>1. PICK r \in {"ok", "present", "failed"} : Target!End(c, r)
      BY <1>12 DEF Target!Confirm
    <3>2. UNCHANGED <<target, clock, stream, reply, inventory, noise>>
      BY <1>12 DEF Target!Confirm
    <3> QED BY <3>1, <3>2 DEF Target!End, Target!TypeOK
  <2>2. Evidence'
    BY <1>12 DEF Target!Confirm, Target!End, Target!TypeOK, Evidence
  <2> QED BY <2>1, <2>2
<1>13. ASSUME NEW c \in Closers, Target!Expire(c) PROVE TargetInvariant'
  <2>1. Target!TypeOK'
    BY <1>13 DEF Target!Expire, Target!End, Target!TypeOK
  <2>2. Evidence'
    BY <1>13 DEF Target!Expire, Target!End, Target!TypeOK, Evidence
  <2> QED BY <2>1, <2>2
<1>14. CASE UNCHANGED Target!vars
  BY <1>14 DEF Target!vars, Target!TypeOK, Evidence
<1> QED BY <1>1, <1>2, <1>3, <1>4, <1>5, <1>6, <1>7, <1>8, <1>9, <1>10, <1>11, <1>12,
           <1>13, <1>14
        DEF Target!Next, Target!CallRuns

LEMMA TargetAlways == Target!Spec => []TargetInvariant
BY InvariantHoldsAtFirst, InvariantIsKept, PTL DEF Target!Spec

(* Every reachable state of any number of calls is well typed, and a call  *)
(* has a result exactly when it is done.                                   *)
THEOREM TargetCloseTypeCorrect == Target!Spec => []Target!TypeOK
<1>1. TargetInvariant => Target!TypeOK
  BY DEF TargetInvariant
<1> QED BY <1>1, TargetAlways, PTL

-----------------------------------------------------------------------------
(***************************************************************************)
(* The default session                                                     *)
(***************************************************************************)
Creating == {"contexts", "grant", "observe", "rollback"}

(* The creation lock excludes a second creation and a session in use; an   *)
(* alive session is the one the slot names, or the slot is closed for good.*)
SlotProgress ==
  /\ \A c \in Calls : pc[c] \in Creating => lock = c
  /\ lock # NoCall => slot.state # "Closed" /\ \A s \in Calls : ~Alive(s)
  /\ \A s \in Calls :
       /\ Alive(s) => slot.state = "Closed" \/ (slot.state = "Open" /\ slot.current = s)
       /\ session[s] \in {"drain", "closed"} => slot.state = "Closed"
       /\ session[s] # "none" => pc[s] = "returned"

(* Whoever may have granted permissions owns the entry that resets them.   *)
EntryProgress ==
  /\ granted # NoCall => told \/ entry.owner # NoCall
  /\ entry.owner = NoCall => entry = NoEntry
  /\ \A c \in Calls :
       /\ pc[c] = "grant" => want[c] \in Granting
       /\ Owns(c) => entry.owner = c
       /\ c \in resets => pc[c] = "ended"
  /\ runtime \notin {"open", "drain"} => \A c \in Calls : pc[c] \notin Running
  /\ runtime = "closed" => entry = NoEntry

DefaultInvariant == TypeOK /\ OneDefaultSession /\ SlotProgress /\ EntryProgress

(* Every step keeps the types. *)
LEMMA StepTypes == DefaultInvariant /\ [Next]_vars => TypeOK'
<1> SUFFICES ASSUME DefaultInvariant, [Next]_vars PROVE TypeOK'
  OBVIOUS
<1> USE DefaultAssumption DEF DefaultAssumption
<1>i. TypeOK /\ SlotProgress
  BY DEF DefaultInvariant
<1>r. ASSUME Reset PROVE granted' \in Calls \cup {NoCall} /\ told' \in BOOLEAN
  BY <1>i, <1>r DEF Reset, TypeOK
<1>1. ASSUME NEW c \in Calls, Begin(c) \/ Drop(c) \/ Intent(c) \/ Cancel(c) PROVE TypeOK'
  <2>1. CASE Begin(c)
    BY <1>i, <2>1 DEF TypeOK, Begin, Running
  <2>2. CASE Drop(c) \/ Intent(c)
    BY <1>i, <2>2 DEF TypeOK, Drop, Intent, calls
  <2>3. CASE Cancel(c)
    <3>1. /\ pc[c] \in Running /\ pc' = [pc EXCEPT ![c] = "ended"]
          /\ lock' = IF lock = c THEN NoCall ELSE lock
          /\ UNCHANGED <<runtime, slot, want, got, held, session, told>>
      BY <2>3 DEF Cancel, Leave
    <3>2. /\ entry' \in [owner : Calls \cup {NoCall}, state : {"none", "pending", "cleaning"}]
          /\ resets' \subseteq Calls /\ granted' \in Calls \cup {NoCall}
      BY <1>i, <2>3 DEF Cancel, TypeOK
    <3> QED BY <1>i, <3>1, <3>2 DEF TypeOK, Running
  <2> QED BY <1>1, <2>1, <2>2, <2>3
<1>2. ASSUME NEW c \in Calls, CallRuns(c) PROVE TypeOK'
  <2>1. CASE Acquire(c)
    <3>1. /\ pc[c] = "lock" /\ lock = NoCall
          /\ UNCHANGED <<runtime, slot, want, session, entry, resets, granted, told>>
      BY <2>1 DEF Acquire
    <3>2. \/ /\ pc' = [pc EXCEPT ![c] = "ended"] /\ lock' = NoCall /\ UNCHANGED <<got, held>>
          \/ /\ pc' = [pc EXCEPT ![c] = "returned"] /\ lock' = NoCall
             /\ got' = [got EXCEPT ![c] = slot.current] /\ held' = held \cup {c} /\ slot.state = "Open"
          \/ /\ pc' = [pc EXCEPT ![c] = "contexts"] /\ lock' = c /\ UNCHANGED <<got, held>>
      BY <2>1 DEF Acquire, Resolve, Leave, Return
    <3>3. slot.current \in Calls \cup {NoCall}
      BY <1>i DEF TypeOK
    <3> QED BY <1>i, <3>1, <3>2, <3>3 DEF TypeOK, Running
  <2>2. CASE Contexts(c)
    <3>1. /\ pc[c] = "contexts" /\ UNCHANGED <<runtime, slot, want, got, held, session, resets, granted, told>>
          /\ \/ pc' = [pc EXCEPT ![c] = "ended"] /\ lock' = IF lock = c THEN NoCall ELSE lock
             \/ pc' \in {[pc EXCEPT ![c] = "grant"], [pc EXCEPT ![c] = "observe"]} /\ UNCHANGED lock
          /\ entry' \in {entry, [owner |-> c, state |-> "pending"]}
      BY <1>i, <2>2 DEF Contexts, Leave, TypeOK
    <3> QED BY <1>i, <3>1 DEF TypeOK, Running
  <2>3. CASE Grant(c)
    BY <1>i, <2>3 DEF TypeOK, Grant, Running
  <2>4. CASE Create(c)
    <3>1. /\ pc[c] = "observe" /\ UNCHANGED <<runtime, want, entry, resets, granted, told>>
          /\ \/ /\ pc' = [pc EXCEPT ![c] = "rollback"] /\ UNCHANGED <<lock, slot, got, held, session>>
             \/ /\ pc' = [pc EXCEPT ![c] = "ended"] /\ lock' = IF lock = c THEN NoCall ELSE lock
                /\ UNCHANGED <<slot, got, held, session>>
             \/ /\ pc' = [pc EXCEPT ![c] = "returned"] /\ lock' = IF lock = c THEN NoCall ELSE lock
                /\ session' = [session EXCEPT ![c] = "open"] /\ held' = held \cup {c}
                /\ got' = [got EXCEPT ![c] = c]
                /\ slot' \in {slot, [state |-> "Open", current |-> c]}
      BY <2>4 DEF Create, Leave, Return
    <3> QED BY <1>i, <3>1 DEF TypeOK, Running
  <2>5. CASE Rollback(c)
    <3>1. /\ pc[c] = "rollback" /\ pc' = [pc EXCEPT ![c] = "ended"]
          /\ lock' = IF lock = c THEN NoCall ELSE lock
          /\ entry' = NoEntry
          /\ UNCHANGED <<runtime, slot, want, got, held, session, resets>>
      BY <2>5 DEF Rollback, Leave
    <3>2. granted' \in Calls \cup {NoCall} /\ told' \in BOOLEAN
      BY <1>r, <2>5 DEF Rollback
    <3> QED BY <1>i, <3>1, <3>2 DEF TypeOK, Running, NoEntry
  <2> QED BY <1>2, <2>1, <2>2, <2>3, <2>4, <2>5 DEF CallRuns
<1>3. ASSUME NEW c \in Calls, BackgroundReset(c) \/ SessionRuns(c) PROVE TypeOK'
  <2>1. CASE BackgroundReset(c)
    BY <1>i, <2>1 DEF TypeOK, BackgroundReset, NoEntry, calls
  <2>2. CASE MarkClosed(c)
    BY <1>i, <2>2 DEF TypeOK, MarkClosed, calls
  <2>3. CASE FinishSession(c)
    <3>1. /\ session' = [session EXCEPT ![c] = "closed"] /\ entry' \in {entry, NoEntry}
          /\ UNCHANGED <<runtime, slot, calls, resets>>
          /\ Reset \/ UNCHANGED <<granted, told>>
      BY <2>3 DEF FinishSession
    <3> QED BY <1>i, <1>r, <3>1 DEF TypeOK, NoEntry, calls
  <2> QED BY <1>3, <2>1, <2>2, <2>3 DEF SessionRuns
<1>4. CASE CloseRuntime \/ DrainRuntime
  BY <1>i, <1>4 DEF TypeOK, CloseRuntime, DrainRuntime, calls
<1>5. CASE CloseSessions
  BY <1>i, <1>1, <1>5 DEF TypeOK, CloseSessions, calls
<1>6. CASE CleanConfiguration
  <2>1. /\ runtime' \in {runtime, "closed"} /\ entry' \in {entry, NoEntry}
        /\ UNCHANGED <<slot, calls, session, resets>> /\ (Reset \/ UNCHANGED <<granted, told>>)
    BY <1>6 DEF CleanConfiguration
  <2> QED BY <1>i, <1>r, <2>1 DEF TypeOK, NoEntry, calls
<1>7. CASE UNCHANGED vars
  BY <1>i, <1>7 DEF TypeOK, vars, calls
<1> QED BY <1>1, <1>2, <1>3, <1>4, <1>5, <1>6, <1>7 DEF Next, RuntimeRuns

-----------------------------------------------------------------------------
(* Sessions come alive by a return only: of the one the slot names, or of  *)
(* one created while the lock keeps everything else out.                   *)
LEMMA StepSlot == DefaultInvariant /\ [Next]_vars => SlotProgress' /\ OneDefaultSession'
<1> DEFINE Goal == SlotProgress' /\ OneDefaultSession'
<1> SUFFICES ASSUME DefaultInvariant, [Next]_vars PROVE Goal
  OBVIOUS
<1> USE DefaultAssumption DEF DefaultAssumption
<1>i. TypeOK /\ SlotProgress /\ OneDefaultSession
  BY DEF DefaultInvariant
<1>k. ASSUME UNCHANGED <<slot, session>>, \A s \in Calls : Alive(s)' => Alive(s),
             \A c \in Calls : pc'[c] \in Creating => lock' = c,
             lock' \in {lock, NoCall},
             \A c \in Calls : pc[c] = "returned" => pc'[c] = "returned"
      PROVE  Goal
  BY <1>i, <1>k DEF SlotProgress, OneDefaultSession, TypeOK
<1>u. ASSUME UNCHANGED <<slot, session, got, lock, pc>>, held' \subseteq held PROVE Goal
  <2>1. \A s \in Calls : Alive(s)' => Alive(s)
    BY <1>u DEF Alive
  <2> QED BY <1>i, <1>k, <1>u, <2>1 DEF SlotProgress
<1>e. ASSUME NEW c \in Calls, NEW where \in {"ended", "lock", "grant", "observe", "rollback"},
             pc[c] # "returned", pc' = [pc EXCEPT ![c] = where],
             UNCHANGED <<slot, session, got, held>>,
             IF where = "ended" THEN lock' = (IF lock = c THEN NoCall ELSE lock)
                                ELSE UNCHANGED lock /\ (where # "lock" => pc[c] \in Creating)
      PROVE  Goal
  <2>1. \A s \in Calls : Alive(s)' => Alive(s)
    BY <1>e DEF Alive
  <2>2. \A d \in Calls : pc'[d] \in Creating => lock' = d
    BY <1>i, <1>e DEF SlotProgress, TypeOK, Creating
  <2>3. lock' \in {lock, NoCall} /\ \A d \in Calls : pc[d] = "returned" => pc'[d] = "returned"
    BY <1>i, <1>e DEF TypeOK
  <2> QED BY <1>k, <1>e, <2>1, <2>2, <2>3
<1>t. ASSUME NEW s \in Calls, Intent(s) PROVE Goal
  <2>1. /\ session[s] = "open" /\ Alive(s) /\ session' = [session EXCEPT ![s] = "intent"]
        /\ UNCHANGED <<slot, lock, pc, got, held>>
    BY <1>t DEF Intent, calls
  <2>2. \A q \in Calls : Alive(q)' => Alive(q)
    BY <1>i, <2>1 DEF Alive, TypeOK
  <2> QED BY <1>i, <2>1, <2>2 DEF SlotProgress, OneDefaultSession, TypeOK
<1>1. ASSUME NEW c \in Calls, Begin(c) \/ Drop(c) \/ Intent(c) \/ Cancel(c) PROVE Goal
  <2>1. CASE Begin(c)
    BY <1>e, <2>1 DEF Begin
  <2>2. CASE Drop(c)
    BY <1>u, <2>2 DEF Drop
  <2>3. CASE Cancel(c)
    BY <1>e, <2>3 DEF Cancel, Leave, Running
  <2> QED BY <1>1, <1>t, <2>1, <2>2, <2>3
<1>2. ASSUME NEW c \in Calls, CallRuns(c) PROVE Goal
  <2>1. CASE Acquire(c)
    <3>1. pc[c] = "lock" /\ lock = NoCall /\ UNCHANGED <<slot, session>>
      BY <2>1 DEF Acquire
    <3>2. CASE pc' = [pc EXCEPT ![c] = "ended"] /\ lock' = NoCall /\ UNCHANGED <<got, held>>
      BY <1>e, <3>1, <3>2
    <3>3. CASE /\ pc' = [pc EXCEPT ![c] = "returned"] /\ lock' = NoCall
               /\ got' = [got EXCEPT ![c] = slot.current] /\ held' = held \cup {c}
               /\ Alive(slot.current)
      <4>1. \A s \in Calls : Alive(s)' => Alive(s)
        <5>1. SUFFICES ASSUME NEW s \in Calls, Alive(s)' PROVE Alive(s)
          OBVIOUS
        <5>2. CASE s = slot.current
          BY <3>3, <5>2
        <5>3. CASE s # slot.current
          <6>1. session'[s] # "none" /\ session'[s] = session[s]
            BY <3>1, <5>1 DEF Alive
          <6>2. ASSUME NEW d \in held', got'[d] = s PROVE d \in held /\ got[d] = s
            BY <1>i, <3>3, <5>3, <6>2 DEF TypeOK
          <6> QED BY <5>1, <6>1, <6>2 DEF Alive
        <5> QED BY <5>2, <5>3
      <4>2. \A d \in Calls : pc'[d] \in Creating => lock' = d
        BY <1>i, <3>1, <3>3 DEF SlotProgress, TypeOK, Creating
      <4>3. \A d \in Calls : pc[d] = "returned" => pc'[d] = "returned"
        BY <1>i, <3>3 DEF TypeOK
      <4> QED BY <1>k, <3>1, <3>3, <4>1, <4>2, <4>3
    <3>4. CASE /\ pc' = [pc EXCEPT ![c] = "contexts"] /\ lock' = c /\ UNCHANGED <<got, held>>
               /\ slot.state # "Closed" /\ ~(slot.state = "Open" /\ Alive(slot.current))
      <4>1. \A s \in Calls : ~Alive(s) /\ ~Alive(s)'
        BY <1>i, <3>1, <3>4 DEF SlotProgress, Alive
      <4>2. \A d \in Calls : pc'[d] \in Creating => lock' = d
        BY <1>i, <3>1, <3>4 DEF SlotProgress, TypeOK, Creating
      <4> QED BY <1>i, <3>1, <3>4, <4>1, <4>2 DEF SlotProgress, OneDefaultSession, TypeOK
    <3> QED BY <2>1, <3>2, <3>3, <3>4 DEF Acquire, Resolve, Leave, Return
  <2>2. CASE Contexts(c)
    <3>1. /\ pc[c] = "contexts" /\ UNCHANGED <<slot, session, got, held>>
          /\ \/ pc' = [pc EXCEPT ![c] = "ended"] /\ lock' = IF lock = c THEN NoCall ELSE lock
             \/ pc' \in {[pc EXCEPT ![c] = "grant"], [pc EXCEPT ![c] = "observe"]} /\ UNCHANGED lock
      BY <2>2 DEF Contexts, Leave
    <3> QED BY <1>e, <3>1 DEF Creating
  <2>3. CASE Grant(c)
    BY <1>e, <2>3 DEF Grant, Creating
  <2>4. CASE Create(c)
    <3>1. pc[c] = "observe" /\ lock = c /\ slot.state # "Closed" /\ \A s \in Calls : ~Alive(s)
      BY <1>i, <2>4 DEF Create, SlotProgress, Creating
    <3>2. CASE /\ session' = [session EXCEPT ![c] = "open"]
               /\ slot' = [state |-> "Open", current |-> c] /\ Return(c, c)
      <4>1. /\ pc' = [pc EXCEPT ![c] = "returned"] /\ lock' = NoCall
            /\ got' = [got EXCEPT ![c] = c] /\ held' = held \cup {c}
        BY <3>1, <3>2 DEF Return, Leave
      <4>2. \A s \in Calls : Alive(s)' => s = c
        <5>1. SUFFICES ASSUME NEW s \in Calls, Alive(s)', s # c PROVE FALSE
          OBVIOUS
        <5>2. session'[s] = session[s]
          BY <1>i, <3>2, <5>1 DEF TypeOK
        <5>3. ASSUME NEW d \in held', got'[d] = s PROVE d \in held /\ got[d] = s
          BY <1>i, <4>1, <5>1, <5>3 DEF TypeOK
        <5> QED BY <3>1, <5>1, <5>2, <5>3 DEF Alive
      <4>3. \A s \in Calls : s # c => session[s] \notin {"drain", "closed"}
        BY <1>i, <3>1 DEF SlotProgress
      <4>4. \A d \in Calls : pc'[d] \notin Creating
        BY <1>i, <3>1, <4>1 DEF SlotProgress, TypeOK, Creating
      <4> QED BY <1>i, <3>2, <4>1, <4>2, <4>3, <4>4
                 DEF SlotProgress, OneDefaultSession, TypeOK
    <3>3. CASE \/ pc' = [pc EXCEPT ![c] = "rollback"] /\ UNCHANGED <<lock, slot, got, held, session>>
               \/ /\ pc' = [pc EXCEPT ![c] = "ended"] /\ lock' = IF lock = c THEN NoCall ELSE lock
                  /\ UNCHANGED <<slot, got, held, session>>
      BY <1>e, <3>1, <3>3 DEF Creating
    <3> QED BY <2>4, <3>1, <3>2, <3>3 DEF Create, Leave
  <2>5. CASE Rollback(c)
    BY <1>e, <2>5 DEF Rollback, Leave
  <2> QED BY <1>2, <2>1, <2>2, <2>3, <2>4, <2>5 DEF CallRuns
<1>3. ASSUME NEW c \in Calls, BackgroundReset(c) \/ SessionRuns(c) PROVE Goal
  <2>1. CASE BackgroundReset(c)
    BY <1>u, <2>1 DEF BackgroundReset, calls
  <2>2. CASE MarkClosed(c) \/ FinishSession(c)
    <3>1. /\ UNCHANGED <<got, held, lock, pc>> /\ slot'.state = "Closed"
          /\ \/ session[c] = "intent" /\ session' = [session EXCEPT ![c] = "drain"]
             \/ session[c] = "drain" /\ session' = [session EXCEPT ![c] = "closed"]
      BY <1>i, <2>2 DEF MarkClosed, FinishSession, SlotProgress, calls
    <3>2. \A s \in Calls : Alive(s)' => Alive(s)
      BY <1>i, <3>1 DEF Alive, TypeOK
    <3>3. Alive(c) \/ slot.state = "Closed"
      BY <1>i, <3>1 DEF Alive, SlotProgress
    <3>4. lock = NoCall
      BY <1>i, <3>3 DEF SlotProgress
    <3> QED BY <1>i, <3>1, <3>2, <3>4 DEF SlotProgress, OneDefaultSession, TypeOK
  <2> QED BY <1>3, <2>1, <2>2 DEF SessionRuns
<1>4. CASE CloseRuntime \/ RuntimeRuns
  BY <1>u, <1>t, <1>4
     DEF CloseRuntime, RuntimeRuns, DrainRuntime, CloseSessions, CleanConfiguration, calls
<1>5. CASE UNCHANGED vars
  BY <1>u, <1>5 DEF vars, calls
<1> QED BY <1>1, <1>2, <1>3, <1>4, <1>5 DEF Next

-----------------------------------------------------------------------------
(* Nobody else takes an entry away from a creation that holds the lock.    *)
LEMMA StepEntry == DefaultInvariant /\ [Next]_vars => EntryProgress'
<1> SUFFICES ASSUME DefaultInvariant, [Next]_vars PROVE EntryProgress'
  OBVIOUS
<1> USE DefaultAssumption DEF DefaultAssumption
<1>i. TypeOK /\ SlotProgress /\ EntryProgress
  BY DEF DefaultInvariant
<1>k. ASSUME UNCHANGED <<pc, want, entry, resets, granted, told>>,
             runtime' = runtime \/ (runtime = "open" /\ runtime' = "drain")
               \/ (runtime' # "closed" /\ \A c \in Calls : pc[c] \notin Running)
      PROVE  EntryProgress'
  BY <1>i, <1>k DEF EntryProgress, Owns
<1>1. ASSUME NEW c \in Calls, Begin(c) \/ Drop(c) \/ Intent(c) PROVE EntryProgress'
  <2>1. CASE Begin(c)
    <3>1. /\ pc[c] = "idle" /\ runtime = "open" /\ pc' = [pc EXCEPT ![c] = "lock"]
          /\ UNCHANGED <<runtime, want, entry, resets, granted, told>>
      BY <2>1 DEF Begin
    <3> QED BY <1>i, <3>1 DEF EntryProgress, Owns, TypeOK
  <2>2. CASE Drop(c) \/ Intent(c)
    BY <1>k, <2>2 DEF Drop, Intent, calls
  <2> QED BY <1>1, <2>1, <2>2
<1>2. ASSUME NEW c \in Calls, Cancel(c) PROVE EntryProgress'
  <2>1. /\ pc[c] \in Running /\ pc' = [pc EXCEPT ![c] = "ended"] /\ UNCHANGED <<runtime, want, told>>
        /\ entry' = IF Owns(c) THEN [owner |-> c, state |-> "cleaning"] ELSE entry
        /\ resets' = IF Owns(c) THEN resets \cup {c} ELSE resets
        /\ granted' = granted \/ (pc[c] = "grant" /\ granted' = c)
    BY <1>2 DEF Cancel, Leave
  <2>2. pc[c] = "grant" => Owns(c)
    BY <1>i DEF EntryProgress, Owns
  <2>3. entry'.owner = NoCall => entry = NoEntry /\ entry' = NoEntry
    BY <1>i, <2>1 DEF EntryProgress
  <2>4. \A d \in Calls : d # c => ~(Owns(c) /\ Owns(d))
    BY <1>i DEF SlotProgress, Owns, Creating
  <2>5. \A d \in Calls : Owns(d)' => d # c /\ Owns(d) /\ pc'[d] = pc[d]
    BY <1>i, <2>1 DEF Owns, TypeOK
  <2>6. granted' # NoCall => told' \/ entry'.owner # NoCall
    BY <1>i, <2>1, <2>2 DEF EntryProgress
  <2>7. \A d \in Calls : Owns(d)' => entry'.owner = d
    BY <1>i, <2>1, <2>4, <2>5 DEF EntryProgress
  <2>8. \A d \in Calls : d \in resets' => pc'[d] = "ended"
    BY <1>i, <2>1 DEF EntryProgress, TypeOK
  <2>9. \A d \in Calls : pc'[d] \in Running => pc[d] \in Running /\ pc'[d] = pc[d]
    BY <1>i, <2>1 DEF TypeOK, Running
  <2>10. runtime' \in {"open", "drain"}
    BY <1>i, <2>1 DEF EntryProgress, TypeOK
  <2> QED BY <1>i, <2>1, <2>3, <2>6, <2>7, <2>8, <2>9, <2>10 DEF EntryProgress, Running
<1>3. ASSUME NEW c \in Calls, CallRuns(c) PROVE EntryProgress'
  <2>r. pc[c] \in Running
    BY <1>3 DEF CallRuns, Acquire, Contexts, Grant, Create, Rollback, Running
  <2>o. runtime \in {"open", "drain"} /\ UNCHANGED <<runtime, want, resets>>
    BY <1>i, <1>3, <2>r
       DEF CallRuns, Acquire, Contexts, Grant, Create, Rollback, EntryProgress
  <2>e. ASSUME NEW where \in {"ended", "returned", "contexts", "observe", "rollback"},
               pc' = [pc EXCEPT ![c] = where],
               \/ UNCHANGED entry
               \/ entry' = NoEntry /\ \A d \in Calls : ~Owns(d)',
               granted' # NoCall => told' \/ entry'.owner # NoCall,
               where \in {"observe", "rollback"} /\ want[c] \in Granting => Owns(c)
        PROVE  EntryProgress'
    <3>1. \A d \in Calls : Owns(d)' => Owns(d)
      BY <1>i, <2>e, <2>o DEF Owns, TypeOK
    <3>2. \A d \in Calls : d \in resets => pc'[d] = "ended"
      BY <1>i, <2>e, <2>r DEF EntryProgress, TypeOK, Running
    <3>3. \A d \in Calls : pc'[d] = "grant" => want[d] \in Granting
      BY <1>i, <2>e DEF EntryProgress, TypeOK
    <3> QED BY <1>i, <2>e, <2>o, <3>1, <3>2, <3>3 DEF EntryProgress, NoEntry
  <2>1. CASE Acquire(c)
    <3>1. /\ \E where \in {"ended", "returned", "contexts"} : pc' = [pc EXCEPT ![c] = where]
          /\ UNCHANGED <<entry, granted, told>>
      BY <2>1 DEF Acquire, Resolve, Return, Leave
    <3> QED BY <1>i, <2>e, <3>1 DEF EntryProgress
  <2>2. CASE Contexts(c)
    <3>1. pc[c] = "contexts" /\ UNCHANGED <<granted, told>>
      BY <2>2 DEF Contexts
    <3>2. CASE /\ pc' = [pc EXCEPT ![c] = "ended"] \/ pc' = [pc EXCEPT ![c] = "observe"]
               /\ UNCHANGED entry /\ (pc' = [pc EXCEPT ![c] = "observe"] => want[c] \notin Granting)
      BY <1>i, <2>e, <3>1, <3>2 DEF EntryProgress
    <3>3. CASE /\ pc' = [pc EXCEPT ![c] = "grant"] /\ want[c] \in Granting
               /\ entry' = [owner |-> c, state |-> "pending"]
      <4>1. \A d \in Calls : Owns(d)' => d = c
        BY <1>i, <2>o, <3>1, <3>3 DEF SlotProgress, Owns, Creating, TypeOK
      <4>2. \A d \in Calls : d \in resets => pc'[d] = "ended"
        BY <1>i, <3>1, <3>3 DEF EntryProgress, TypeOK
      <4>3. \A d \in Calls : pc'[d] = "grant" => want[d] \in Granting
        BY <1>i, <3>3 DEF EntryProgress, TypeOK
      <4> QED BY <1>i, <2>o, <3>1, <3>3, <4>1, <4>2, <4>3 DEF EntryProgress
    <3>4. CASE want[c] \in Granting
      <4>1. \/ pc' = [pc EXCEPT ![c] = "ended"] /\ UNCHANGED entry
            \/ pc' = [pc EXCEPT ![c] = "grant"] /\ entry' = [owner |-> c, state |-> "pending"]
        BY <2>2, <3>4 DEF Contexts, Leave
      <4>2. pc' = [pc EXCEPT ![c] = "ended"] => pc' # [pc EXCEPT ![c] = "observe"]
        BY <1>i DEF TypeOK
      <4> QED BY <3>2, <3>3, <3>4, <4>1, <4>2
    <3>5. CASE want[c] \notin Granting
      <4>1. \/ pc' = [pc EXCEPT ![c] = "ended"] /\ UNCHANGED entry
            \/ pc' = [pc EXCEPT ![c] = "observe"] /\ UNCHANGED entry
        BY <2>2, <3>5 DEF Contexts, Leave
      <4> QED BY <3>2, <3>5, <4>1
    <3> QED BY <3>4, <3>5
  <2>3. CASE Grant(c)
    <3>1. /\ pc[c] = "grant" /\ Owns(c) /\ entry.owner = c
      BY <1>i, <2>3 DEF Grant, EntryProgress, Owns
    <3>2. /\ \E where \in {"observe", "rollback"} : pc' = [pc EXCEPT ![c] = where]
          /\ UNCHANGED entry
      BY <2>3 DEF Grant
    <3> QED BY <2>e, <3>1, <3>2
  <2>4. CASE Create(c)
    <3>1. /\ UNCHANGED <<entry, granted, told>>
          /\ \/ pc' = [pc EXCEPT ![c] = "returned"]
             \/ pc' = [pc EXCEPT ![c] = "ended"]
             \/ pc' = [pc EXCEPT ![c] = "rollback"] /\ Owns(c)
      BY <2>4 DEF Create, Return, Leave
    <3> QED BY <1>i, <2>e, <3>1 DEF EntryProgress
  <2>5. CASE Rollback(c)
    <3>1. /\ pc[c] = "rollback" /\ pc' = [pc EXCEPT ![c] = "ended"] /\ entry' = NoEntry
          /\ granted' # NoCall => told'
      BY <2>5 DEF Rollback, Leave, Reset
    <3>2. \A d \in Calls : ~Owns(d)'
      BY <1>i, <2>o, <3>1 DEF SlotProgress, Owns, Creating, TypeOK
    <3> QED BY <2>e, <3>1, <3>2
  <2> QED BY <1>3, <2>1, <2>2, <2>3, <2>4, <2>5 DEF CallRuns
<1>4. ASSUME NEW c \in Calls, BackgroundReset(c) PROVE EntryProgress'
  <2>1. /\ c \in resets /\ resets' = resets \ {c} /\ UNCHANGED <<runtime, pc, want>>
        /\ entry' = IF entry.owner = c THEN NoEntry ELSE entry
        /\ granted' \in {granted, NoCall}
    BY <1>4 DEF BackgroundReset, calls
  <2>t. \/ granted' = NoCall /\ told' = told
        \/ told' = (told \/ entry.owner = c)
    BY <1>4, Zenon DEF BackgroundReset
  <2>r. granted' # NoCall /\ (told \/ entry.owner = c) => told'
    BY <1>i, <2>t DEF TypeOK
  <2>2. ~Owns(c)
    BY <1>i, <2>1 DEF EntryProgress, Owns
  <2>3. \A d \in Calls : Owns(d)' => Owns(d) /\ d # c
    BY <2>1, <2>2 DEF Owns
  <2> QED BY <1>i, <2>1, <2>r, <2>3 DEF EntryProgress, NoEntry
<1>5. ASSUME NEW c \in Calls, SessionRuns(c) PROVE EntryProgress'
  <2>1. CASE MarkClosed(c)
    BY <1>k, <2>1 DEF MarkClosed, calls
  <2>2. CASE FinishSession(c)
    <3>1. session[c] = "drain" /\ UNCHANGED <<runtime, pc, want, resets>>
      BY <2>2 DEF FinishSession, calls
    <3>2. CASE UNCHANGED <<entry, granted, told>>
      BY <1>k, <3>1, <3>2
    <3>3. CASE entry.owner = c /\ entry' = NoEntry /\ Reset
      <4>1. ~Owns(c)
        BY <1>i, <3>1 DEF SlotProgress, Owns
      <4>2. \A d \in Calls : ~Owns(d)'
        BY <1>i, <3>1, <3>3, <4>1 DEF EntryProgress, Owns
      <4> QED BY <1>i, <3>1, <3>3, <4>2 DEF EntryProgress, Reset
    <3> QED BY <2>2, <3>2, <3>3 DEF FinishSession
  <2> QED BY <1>5, <2>1, <2>2 DEF SessionRuns
<1>6. CASE CloseRuntime \/ DrainRuntime \/ CloseSessions
  BY <1>i, <1>k, <1>6
     DEF CloseRuntime, DrainRuntime, CloseSessions, Intent, calls, EntryProgress
<1>7. CASE CleanConfiguration
  <2>1. /\ runtime = "configuration" /\ UNCHANGED <<pc, want, resets>> /\ entry' = NoEntry
        /\ Reset \/ UNCHANGED <<entry, granted, told>>
    BY <1>7 DEF CleanConfiguration, calls
  <2>2. \A d \in Calls : pc[d] \notin Running
    BY <1>i, <2>1 DEF EntryProgress
  <2> QED BY <1>i, <2>1, <2>2 DEF EntryProgress, Owns, Running, Reset
<1>8. CASE UNCHANGED vars
  BY <1>k, <1>8 DEF vars, calls
<1> QED BY <1>1, <1>2, <1>3, <1>4, <1>5, <1>6, <1>7, <1>8 DEF Next, RuntimeRuns

-----------------------------------------------------------------------------
LEMMA InitDefault == Init => DefaultInvariant
<1> SUFFICES ASSUME Init PROVE DefaultInvariant
  OBVIOUS
<1>1. TypeOK
  BY DefaultAssumption DEF Init, TypeOK, DefaultAssumption, NoEntry
<1>2. OneDefaultSession /\ SlotProgress
  BY DEF Init, OneDefaultSession, SlotProgress, Alive, Creating
<1>3. EntryProgress
  BY DEF Init, EntryProgress, NoEntry, Owns
<1> QED BY <1>1, <1>2, <1>3 DEF DefaultInvariant

(* The invariant behind the theorems below.                                *)
THEOREM DefaultAlways == Spec => []DefaultInvariant
<1>1. DefaultInvariant /\ [Next]_vars => DefaultInvariant'
  BY StepTypes, StepSlot, StepEntry DEF DefaultInvariant
<1> QED BY InitDefault, <1>1, PTL DEF Spec

(* Slot, lock, calls and entry fit together.                               *)
THEOREM DefaultTypeCorrect == Spec => []TypeOK
BY DefaultAlways, PTL DEF DefaultInvariant

(* BrowserRuntime::default_session never makes a second session while one  *)
(* can still be used.                                                      *)
THEOREM NeverTwoSessions == Spec => []OneDefaultSession
BY DefaultAlways, PTL DEF DefaultInvariant

(* Overrides in the user's own context are reset or reported.              *)
THEOREM GrantsAreReset == Spec => []PermissionsAreReset
<1>1. DefaultInvariant => PermissionsAreReset
  BY DEF DefaultInvariant, EntryProgress, PermissionsAreReset, NoEntry
<1> QED BY DefaultAlways, <1>1, PTL

(* After the close intent of a default session no call returns a session.  *)
THEOREM ClosedForGood == Spec => CloseIsTerminal
<1> DEFINE Closing == \E s \in Calls : session[s] \in {"intent", "drain", "closed"}
<1>1. ASSUME DefaultInvariant, [Next]_vars, Closing PROVE got' = got
  <2>i. TypeOK /\ OneDefaultSession /\ SlotProgress
    BY <1>1 DEF DefaultInvariant
  <2>1. PICK s \in Calls : session[s] \in {"intent", "drain", "closed"}
    BY <1>1
  <2>2. Alive(s) \/ slot.state = "Closed"
    BY <2>i, <2>1 DEF Alive, SlotProgress
  <2>3. ASSUME NEW c \in Calls, Acquire(c) PROVE got' = got
    <3>1. CASE slot.state = "Open" /\ Alive(slot.current) /\ session[slot.current] = "open"
      <4>1. slot.current \in Calls /\ Alive(s)
        BY <2>i, <2>2, <3>1 DEF TypeOK, SlotProgress
      <4>2. slot.current = s
        BY <2>i, <3>1, <4>1 DEF OneDefaultSession
      <4> QED BY <2>1, <3>1, <4>2
    <3>2. CASE UNCHANGED got
      BY <3>2
    <3> QED BY <2>3, <3>1, <3>2 DEF Acquire, Resolve
  <2>4. ASSUME NEW c \in Calls, Create(c) PROVE got' = got
    BY <2>i, <2>2, <2>4, DefaultAssumption
       DEF Create, SlotProgress, Creating, DefaultAssumption
  <2>5. ASSUME NEW c \in Calls, Begin(c) \/ Cancel(c) \/ Drop(c) \/ Intent(c) PROVE got' = got
    BY <2>5 DEF Begin, Cancel, Drop, Intent, calls
  <2>6. ASSUME NEW c \in Calls, Contexts(c) \/ Grant(c) \/ Rollback(c) \/ BackgroundReset(c) \/ SessionRuns(c)
        PROVE  got' = got
    BY <2>6
       DEF Contexts, Grant, Rollback, BackgroundReset, SessionRuns, MarkClosed,
           FinishSession, calls
  <2>7. CASE CloseRuntime \/ RuntimeRuns
    BY <2>7
       DEF CloseRuntime, RuntimeRuns, DrainRuntime, CloseSessions, CleanConfiguration,
           Intent, calls
  <2>8. CASE UNCHANGED vars
    BY <2>8 DEF vars, calls
  <2> QED BY <1>1, <2>3, <2>4, <2>5, <2>6, <2>7, <2>8 DEF Next, CallRuns
<1>2. DefaultInvariant /\ [Next]_vars => [Closing => got' = got]_vars
  BY <1>1
<1> QED BY DefaultAlways, <1>2, PTL DEF Spec, CloseIsTerminal

-----------------------------------------------------------------------------
(***************************************************************************)
(* Beside each other                                                       *)
(***************************************************************************)
(* A step of the composition is a step of one component, of the gate or of *)
(* the confirmed close perhaps, and leaves the others alone.               *)
LEMMA ServicesStep ==
  [ServicesNext]_everything
    => /\ [Next]_vars
       /\ [Gate!Next]_(Gate!vars)
       /\ [Target!Next]_(Target!vars)
<1> SUFFICES ASSUME [ServicesNext]_everything
             PROVE  [Next]_vars /\ [Gate!Next]_(Gate!vars) /\ [Target!Next]_(Target!vars)
  OBVIOUS
<1>1. UNCHANGED theGate => UNCHANGED Gate!vars
  BY DEF theGate, Gate!vars
<1>2. UNCHANGED theTarget => UNCHANGED Target!vars
  BY DEF theTarget, Target!vars
<1> QED BY <1>1, <1>2 DEF ServicesNext, everything

(* Each component keeps its invariant there.                               *)
LEMMA ServicesAlways ==
  ServicesSpec => []DefaultInvariant /\ []Gate!GateInvariant /\ []TargetInvariant
<1>1. ServicesInit => Init /\ Gate!Init /\ Target!Init
  BY DEF ServicesInit
<1>2. ServicesSpec => Init /\ Gate!Init /\ Target!Init
                      /\ [][Next]_vars /\ [][Gate!Next]_(Gate!vars) /\ [][Target!Next]_(Target!vars)
  BY <1>1, ServicesStep, PTL DEF ServicesSpec
<1> QED BY <1>2, InitDefault, StepTypes, StepSlot, StepEntry, InitGate, StepGate,
           InvariantHoldsAtFirst, InvariantIsKept, PTL DEF DefaultInvariant

(* One close body runs, whoever calls, and every caller that returns has   *)
(* its report (CloseCoordinator::run).                                     *)
THEOREM SharedClose == ServicesSpec => []OneCloseOneReport
<1>1. Gate!GateInvariant => OneCloseOneReport
  BY DEF Gate!GateInvariant, Gate!OneCloseOneReport, OneCloseOneReport
<1> QED BY <1>1, ServicesAlways, PTL

(* close_created_target_and_wait reports success only of a target that is  *)
(* gone, whatever Chrome and the other callers do.                         *)
THEOREM SuccessIsConfirmed == ServicesSpec => []SuccessMeansGone
<1>1. TargetInvariant => SuccessMeansGone
  BY DEF TargetInvariant, Evidence, Target!SuccessMeansGone, SuccessMeansGone
<1> QED BY <1>1, ServicesAlways, PTL

===============================================================================
