-------------------------- MODULE ResourceTreeProofs --------------------------
(***************************************************************************)
(* Machine-checked proofs about ResourceTree, for any finite set of pages  *)
(* and any kinds of sessions: cleanup follows operations, ownership is     *)
(* retained, a complete close is honest and, as long as the handle of a    *)
(* default session is kept, no target is orphaned silently.                *)
(***************************************************************************)
EXTENDS ResourceTree, FiniteSetTheorems, SequenceTheorems, TLAPS

(* Where a creation is, what its task did and whether Chrome has the       *)
(* target.                                                                 *)
CreationProgress ==
  \A p \in Pages :
    /\ op[p] \in {"idle", "lock"} => creator[p] = "none"
    /\ op[p] \in {"init", "configure", "cleanup"} => creator[p] = "delivered"
    /\ op[p] \in {"idle", "ended"} => p \notin waiting
    /\ creator[p] \in {"none", "sent", "failed"} <=> target[p] = "absent"
    /\ creator[p] # "delivered" => registry[p] = "none"
    /\ page[p] # "none" =>
         /\ op[p] = "ended" /\ creator[p] = "delivered"
         /\ registry[p] = "none" \/ (~Isolated /\ registry[p] = "retained")

(* A destruction that was announced, looked up or acted on did happen.     *)
DestroyedIsGone ==
  /\ \A i \in 1..Len(events) : events[i].kind = "destroyed" => target[events[i].page] = "gone"
  /\ \A p \in Pages :
       /\ watcher = p => target[p] = "gone"
       /\ body[p] \in {"session", "destroyed"} => target[p] = "gone"

(* The context of an isolated session ends late, with its targets or in    *)
(* somebody's report.                                                      *)
ContextProgress ==
  /\ context = "none" <=> ~Isolated
  /\ session = "context" => Isolated
  /\ session = "mark" => context = "gone"
  /\ context \in {"gone", "failed"} => session \in {"mark", "end", "closed"} \/ runtime = "closed"
  /\ context = "gone" => \A p \in Pages : target[p] # "alive"
  /\ context = "failed" => Context \in surfaced

PastSessions == runtime \in {"targets", "contexts", "closed"}

(* A page that counts as closed lost its target, unless the runtime itself *)
(* cleans what the session of the page left.                               *)
ClosedPages ==
  /\ PastSessions => session = "closed" \/ (session = "open" /\ handle = "dropped")
  /\ \A p \in Pages :
       /\ page[p] = "closed" => target[p] = "gone" \/ (~Isolated /\ PastSessions)
       /\ ~Isolated /\ ~PastSessions /\ page[p] \in {"open", "drain", "act"} => registry[p] = "retained"

(* What a session's close has seen of the pages, or of the context.        *)
CloseProgress ==
  /\ \A p \in Pages : page[p] # "none" =>
       /\ session \in {"open", "drain"} => p \in pages \/ page[p] = "closed"
       /\ session = "sweep" => p \in sweep \/ page[p] = "closed"
       /\ session = "pages" /\ ~Isolated => p \in sweep \cup failed \/ visit = p \/ page[p] = "closed"
       /\ session = "end" /\ ~Isolated => p \in failed \/ page[p] = "closed"
  /\ Isolated /\ session \in {"mark", "end", "closed"} => context = "gone" \/ Context \in failed

TreeInvariant ==
  /\ TypeOK /\ CleanupFollowsOperations /\ OwnershipRetained
  /\ CreationProgress /\ DestroyedIsGone /\ ContextProgress
  /\ ClosedPages /\ CloseProgress /\ CompleteCloseIsHonest

(* Only the handle of an isolated session is ever dropped.                 *)
DefaultHandleKept == \A s \in Sessions : s.kind = "Default" => ~s.drops

(* What the runtime's close has left when the handle is kept.              *)
RuntimeProgress ==
  /\ ~Isolated => handle = "held"
  /\ session \notin {"open", "drain"} => ledger = {}
  /\ runtime \in {"contexts", "closed"} /\ ~Isolated => \A p \in Pages : registry[p] = "none"
  /\ runtime = "closed" /\ Isolated => context \in {"gone", "failed"}
-----------------------------------------------------------------------------
(* What Chrome does to targets and events.                                 *)

Event == [kind : {"created", "destroyed"}, page : Pages]
States == {"absent", "alive", "gone"}

(* Targets die and are not replaced; what is announced has happened.       *)
Chrome ==
  /\ target' \in [Pages -> States]
  /\ events' \in Seq(Event)
  /\ \A i \in 1..Len(events') : events'[i].kind = "destroyed" => target'[events'[i].page] = "gone"
  /\ \A p \in Pages : target'[p] = target[p] \/ (target[p] = "alive" /\ target'[p] = "gone")

(* An event at the end of the stream is true when the state says so.       *)
LEMMA Announcing ==
  ASSUME TypeOK, DestroyedIsGone, NEW e \in Event, target' \in [Pages -> States],
         \A p \in Pages : target[p] = "gone" => target'[p] = "gone",
         events' = Append(events, e), e.kind = "destroyed" => target'[e.page] = "gone"
  PROVE  /\ events' \in Seq(Event)
         /\ \A i \in 1..Len(events') : events'[i].kind = "destroyed" => target'[events'[i].page] = "gone"
<1>1. events \in Seq(Event) /\ Len(events) \in Nat
  BY DEF TypeOK, Event
<1>2. /\ events' \in Seq(Event) /\ Len(events') = Len(events) + 1
      /\ \A i \in 1..Len(events) : events'[i] = events[i]
      /\ events'[Len(events) + 1] = e
  BY <1>1, AppendProperties
<1>3. ASSUME NEW i \in 1..Len(events'), events'[i].kind = "destroyed"
      PROVE  target'[events'[i].page] = "gone"
  <2>1. CASE i \in 1..Len(events)
    <3>1. events[i] \in Event
      BY <1>1, <2>1, ElementOfSeq
    <3> QED BY <1>2, <1>3, <2>1, <3>1 DEF DestroyedIsGone, Event
  <2>2. CASE i = Len(events) + 1
    BY <1>2, <1>3, <2>2
  <2> QED BY <1>1, <1>2, <2>1, <2>2
<1> QED BY <1>2, <1>3

(* A target that is destroyed, alone or by CloseTarget.                    *)
LEMMA ChromeDestroys ==
  ASSUME TypeOK, DestroyedIsGone, NEW p \in Pages, target[p] = "alive",
         target' = [target EXCEPT ![p] = "gone"],
         events' = Append(events, [kind |-> "destroyed", page |-> p])
  PROVE  Chrome /\ target'[p] = "gone"
<1>1. /\ target \in [Pages -> States] /\ target' \in [Pages -> States] /\ target'[p] = "gone"
      /\ \A q \in Pages : target'[q] = target[q] \/ (target[q] = "alive" /\ target'[q] = "gone")
  BY DEF TypeOK, States
<1>2. [kind |-> "destroyed", page |-> p] \in Event
  BY DEF Event
<1>3. \A q \in Pages : target[q] = "gone" => target'[q] = "gone"
  BY <1>1
<1> QED BY <1>1, <1>2, <1>3, Announcing DEF Chrome

LEMMA ChromeCloses ==
  ASSUME TypeOK, DestroyedIsGone, NEW p \in Pages, TargetCloses(p)
  PROVE  Chrome /\ target'[p] = "gone"
<1>1. CASE target[p] = "gone" /\ UNCHANGED <<target, events>>
  BY <1>1 DEF TypeOK, DestroyedIsGone, Chrome, States, Event
<1> QED BY <1>1, ChromeDestroys DEF TargetCloses

(* DisposeBrowserContext leaves no target alive.                           *)
LEMMA ChromeDisposes ==
  ASSUME TypeOK, DestroyedIsGone, Disposed
  PROVE  Chrome /\ \A p \in Pages : target'[p] # "alive"
<1> DEFINE dying == {p \in Pages : target[p] = "alive"}
<1>1. IsFiniteSet(dying) /\ Cardinality(dying) \in Nat
  BY TreeAssumption, FS_Subset, FS_CardinalityType
<1>2. PICK order \in [1..Cardinality(dying) -> dying] :
        events' = events \o [i \in DOMAIN order |-> [kind |-> "destroyed", page |-> order[i]]]
  BY DEF Disposed
<1> DEFINE news == [i \in DOMAIN order |-> [kind |-> "destroyed", page |-> order[i]]]
<1>3. \A i \in DOMAIN order : order[i] \in Pages /\ target[order[i]] = "alive"
  OBVIOUS
<1>4. news \in Seq(Event) /\ Len(news) = Cardinality(dying)
  <2>1. \A i \in 1..Cardinality(dying) : news[i] \in Event
    BY <1>3 DEF Event
  <2>2. news \in [1..Cardinality(dying) -> Event]
    BY <2>1
  <2>3. news \in Seq(Event)
    BY <1>1, <2>2, IsASeq
  <2> QED BY <1>1, <2>2, <2>3, LenProperties
<1>5. /\ target' \in [Pages -> States] /\ \A p \in Pages : target'[p] # "alive"
      /\ \A p \in Pages : target'[p] = target[p] \/ (target[p] = "alive" /\ target'[p] = "gone")
      /\ \A i \in DOMAIN order : target'[order[i]] = "gone"
  <2>1. target' = [p \in Pages |-> IF p \in dying THEN "gone" ELSE target[p]]
    BY DEF Disposed
  <2> QED BY <1>3, <2>1 DEF TypeOK, States
<1>6. events \in Seq(Event) /\ Len(events) \in Nat
  BY DEF TypeOK, Event
<1>7. /\ events' \in Seq(Event) /\ Len(events') = Len(events) + Len(news)
      /\ \A i \in 1..(Len(events) + Len(news)) :
           events'[i] = IF i <= Len(events) THEN events[i] ELSE news[i - Len(events)]
  <2>1. events' = events \o news
    BY <1>2
  <2> HIDE DEF news
  <2> QED BY <1>4, <1>6, <2>1, ConcatProperties
<1>8. ASSUME NEW i \in 1..Len(events'), events'[i].kind = "destroyed"
      PROVE  target'[events'[i].page] = "gone"
  <2> DEFINE m == Len(events)
             n == Cardinality(dying)
  <2>1. m \in Nat /\ n \in Nat /\ i \in 1..(m + n) /\ DOMAIN order = 1..n
    BY <1>1, <1>4, <1>6, <1>7
  <2>2. events'[i] = IF i <= m THEN events[i] ELSE news[i - m]
    BY <1>4, <1>7, <2>1
  <2> HIDE DEF m, n
  <2>3. CASE i <= m
    <3>1. i \in 1..m /\ events'[i] = events[i]
      BY <2>1, <2>2, <2>3
    <3>2. events[i] \in Event
      BY <1>6, <3>1, ElementOfSeq DEF m
    <3>3. target[events[i].page] = "gone" /\ events[i].page \in Pages
      BY <1>8, <3>1, <3>2 DEF DestroyedIsGone, Event, m
    <3> QED BY <1>5, <3>1, <3>3
  <2>4. CASE ~(i <= m)
    <3>1. i - m \in 1..n /\ events'[i] = news[i - m]
      BY <2>1, <2>2, <2>4
    <3>2. events'[i].page = order[i - m] /\ i - m \in DOMAIN order
      BY <2>1, <3>1
    <3> QED BY <1>5, <3>2
  <2> QED BY <2>3, <2>4
<1> QED BY <1>5, <1>7, <1>8 DEF Chrome

(* The head of the stream is read.                                         *)
LEMMA Reading ==
  ASSUME TypeOK, DestroyedIsGone, events # <<>>, events' = Tail(events), target' = target
  PROVE  /\ Head(events) \in Event /\ Chrome
         /\ Head(events).kind = "destroyed" => target[Head(events).page] = "gone"
<1>1. events \in Seq(Event) /\ Len(events) \in Nat /\ Len(events) > 0
  BY EmptySeq DEF TypeOK, Event
<1>2. /\ Head(events) = events[1] /\ events[1] \in Event
      /\ events' \in Seq(Event) /\ Len(events') = Len(events) - 1
      /\ \A i \in 1..Len(events') : events'[i] = events[i + 1]
  BY <1>1, HeadTailProperties, ElementOfSeq
<1>3. \A i \in 1..Len(events') : events'[i].kind = "destroyed" => target'[events'[i].page] = "gone"
  BY <1>1, <1>2 DEF DestroyedIsGone
<1> QED BY <1>1, <1>2, <1>3 DEF DestroyedIsGone, TypeOK, Chrome, States

-----------------------------------------------------------------------------
(* Every step, as far as targets and events go.                            *)

Arrives(p) == creator[p] = "sent" /\ creator'[p] = "answered" /\ target'[p] = "alive"

TargetStep ==
  /\ target' \in [Pages -> States]
  /\ events' \in Seq(Event)
  /\ \A i \in 1..Len(events') : events'[i].kind = "destroyed" => target'[events'[i].page] = "gone"
  /\ \A p \in Pages :
       target'[p] = target[p] \/ (target[p] = "alive" /\ target'[p] = "gone") \/ Arrives(p)

LEMMA StepTargets == TreeInvariant /\ [Next]_vars => TargetStep
<1> SUFFICES ASSUME TreeInvariant, [Next]_vars PROVE TargetStep
  OBVIOUS
<1>i. TypeOK /\ DestroyedIsGone /\ CreationProgress
  BY DEF TreeInvariant
<1>c. Chrome => TargetStep
  BY DEF Chrome, TargetStep
<1>u. UNCHANGED <<target, events>> => TargetStep
  BY <1>i DEF TypeOK, DestroyedIsGone, TargetStep, States, Event
<1>1. ASSUME NEW p \in Pages, CreationRuns(p) PROVE TargetStep
  <2>1. CASE ChromeCreates(p)
    <3>1. /\ creator[p] = "sent" /\ creator'[p] = "answered" /\ target[p] = "absent"
          /\ target' = [target EXCEPT ![p] = "alive"]
          /\ events' = Append(events, [kind |-> "created", page |-> p])
      BY <1>i, <2>1 DEF ChromeCreates, CreationProgress, TypeOK
    <3>2. target' \in [Pages -> States] /\ \A q \in Pages : q # p => target'[q] = target[q]
      BY <1>i, <3>1 DEF TypeOK, States
    <3>3. [kind |-> "created", page |-> p] \in Event
      BY DEF Event
    <3>4. \A q \in Pages : target[q] = "gone" => target'[q] = "gone"
      BY <3>1, <3>2
    <3>5. target'[p] = "alive"
      BY <1>i, <3>1 DEF TypeOK
    <3> QED BY <1>i, <3>1, <3>2, <3>3, <3>4, <3>5, Announcing DEF TargetStep, Arrives
  <2>2. CASE CleanupCreation(p) \/ RunScheduled(p)
    BY <1>i, <1>c, <1>u, <2>2, ChromeCloses DEF CleanupCreation, RunScheduled
  <2>3. CASE TakeLock(p) \/ CreateFails(p) \/ Deliver(p) \/ Receive(p) \/ Initialize(p)
             \/ Fail(p) \/ Publish(p)
    BY <1>u, <2>3 DEF TakeLock, CreateFails, Deliver, Receive, Initialize, Fail, Publish, watched
  <2> QED BY <1>1, <2>1, <2>2, <2>3 DEF CreationRuns
<1>2. ASSUME NEW p \in Pages, PageRuns(p) PROVE TargetStep
  <2>1. CASE FinishClose(p)
    BY <1>i, <1>c, <1>u, <2>1, ChromeCloses DEF FinishClose
  <2>2. CASE EndOperation(p) \/ DrainPage(p) \/ FinishGone(p)
    BY <1>u, <2>2 DEF EndOperation, DrainPage, FinishGone, watched
  <2> QED BY <1>2, <2>1, <2>2 DEF PageRuns
<1>3. CASE WatcherRuns
  <2>1. CASE ReadEvent
    <3>1. events # <<>> /\ events' = Tail(events) /\ target' = target
      BY <2>1 DEF ReadEvent
    <3> QED BY <1>i, <1>c, <3>1, Reading
  <2>2. ASSUME NEW p \in Pages, LookUp(p) \/ Watched(p) PROVE TargetStep
    BY <1>u, <2>2 DEF LookUp, Watched
  <2> QED BY <1>3, <2>1, <2>2 DEF WatcherRuns
<1>4. CASE SessionRuns
  <2>1. CASE DisposeContext
    BY <1>i, <1>c, <1>u, <2>1, ChromeDisposes DEF DisposeContext, NotDisposed
  <2>2. CASE DrainSession \/ SweepPending \/ EndVisits \/ EndSession
    BY <1>u, <2>2 DEF DrainSession, SweepPending, EndVisits, EndSession, watched
  <2>3. ASSUME NEW p \in Pages, VisitPage(p) \/ LeavePage(p) PROVE TargetStep
    BY <1>u, <2>3 DEF VisitPage, LeavePage, watched
  <2> QED BY <1>4, <2>1, <2>2, <2>3 DEF SessionRuns
<1>5. CASE RuntimeRuns
  <2>1. CASE CleanContext
    BY <1>i, <1>c, <1>u, <2>1, ChromeDisposes DEF CleanContext, NotDisposed
  <2>2. CASE DrainRuntime \/ CloseLiveSession \/ EndTargets
    BY <1>u, <2>2 DEF DrainRuntime, CloseLiveSession, EndTargets, watched
  <2>3. ASSUME NEW p \in Pages, CleanTarget(p) PROVE TargetStep
    BY <1>i, <1>c, <1>u, <2>3, ChromeCloses DEF CleanTarget
  <2> QED BY <1>5, <2>1, <2>2, <2>3 DEF RuntimeRuns
<1>6. CASE Calls
  <2>1. ASSUME NEW p \in Pages, DestroyTarget(p) PROVE TargetStep
    BY <1>i, <1>c, <2>1, ChromeDestroys DEF DestroyTarget
  <2>2. CASE DropHandle \/ CloseSession \/ CloseRuntime
    BY <1>u, <2>2 DEF DropHandle, CloseSession, CloseRuntime, watched
  <2>3. ASSUME NEW p \in Pages, NewPage(p) \/ Cancel(p) \/ BeginOperation(p) \/ ClosePage(p)
        PROVE  TargetStep
    BY <1>u, <2>3 DEF NewPage, Cancel, BeginOperation, ClosePage, watched
  <2> QED BY <1>6, <2>1, <2>2, <2>3 DEF Calls
<1>7. CASE UNCHANGED vars
  BY <1>u, <1>7 DEF vars, watched
<1> QED BY <1>1, <1>2, <1>3, <1>4, <1>5, <1>6, <1>7 DEF Next

-----------------------------------------------------------------------------
(* Every step keeps the types. *)
LEMMA StepTypes == TreeInvariant /\ [Next]_vars => TypeOK'
<1> SUFFICES ASSUME TreeInvariant, [Next]_vars PROVE TypeOK'
  OBVIOUS
<1>i. TypeOK
  BY DEF TreeInvariant
<1>t. target' \in [Pages -> {"absent", "alive", "gone"}]
      /\ events' \in Seq([kind : {"created", "destroyed"}, page : Pages])
  BY StepTargets DEF TargetStep, States, Event
<1>1. ASSUME NEW p \in Pages, CreationRuns(p) PROVE TypeOK'
  <2>1. CASE TakeLock(p) \/ ChromeCreates(p) \/ CreateFails(p) \/ Deliver(p)
    BY SMTT(60), <1>i, <1>t, <2>1
    DEF TypeOK, TakeLock, ChromeCreates, CreateFails, Deliver, closers, creation, paged, watched, OpStates
  <2>2. CASE Receive(p) \/ Initialize(p) \/ Fail(p)
    BY SMTT(60), <1>i, <1>t, <2>2
    DEF TypeOK, Receive, Initialize, Fail, Unlocked, closers, paged, watched, OpStates
  <2>3. CASE Publish(p)
    BY <1>i, <1>t, <2>3 DEF TypeOK, Publish, Unlocked, closers, watched, OpStates
  <2>4. CASE CleanupCreation(p) \/ RunScheduled(p)
    BY SMTT(60), <1>i, <1>t, <2>4
    DEF TypeOK, CleanupCreation, RunScheduled, Unlocked, closers, creation, paged, OpStates
  <2> QED BY <1>1, <2>1, <2>2, <2>3, <2>4 DEF CreationRuns
<1>2. ASSUME NEW p \in Pages, PageRuns(p) PROVE TypeOK'
  <2>1. CASE EndOperation(p) \/ DrainPage(p)
    BY <1>i, <1>t, <2>1 DEF TypeOK, EndOperation, DrainPage, closers, creation, watched
  <2>2. CASE FinishClose(p) \/ FinishGone(p)
    <3>1. /\ registry' = [registry EXCEPT ![p] = "none"]
          /\ page' = [page EXCEPT ![p] = "closed"] \/ page' = [page EXCEPT ![p] = "failed"]
          /\ pages' \subseteq pages
          /\ surfaced' = surfaced \/ surfaced' = surfaced \cup {p}
      BY <2>2 DEF FinishClose, FinishGone, Forget
    <3>2. UNCHANGED <<closers, creation, body, busy, fenced, known, watcher, ledger>>
      BY <2>2 DEF FinishClose, FinishGone, watched
    <3> QED BY <1>i, <1>t, <3>1, <3>2 DEF TypeOK, closers, creation
  <2> QED BY <1>2, <2>1, <2>2 DEF PageRuns
<1>3. CASE WatcherRuns
  <2>1. CASE ReadEvent
    <3>1. Head(events) \in Event
      BY <1>i, <2>1, Reading DEF ReadEvent, TreeInvariant
    <3>2. Head(events).page \in Pages
      BY <3>1 DEF Event
    <3>3. known' \subseteq Pages /\ watcher' \in Pages \cup {"next"}
      <4>1. PICK q \in Pages : q = Head(events).page
        BY <3>2
      <4>2. \/ known' = known \cup {q} /\ watcher' = watcher
            \/ known' = known \ {q} /\ watcher' \in {q, watcher}
        BY <2>1, <4>1 DEF ReadEvent
      <4> QED BY <1>i, <4>2 DEF TypeOK
    <3>4. UNCHANGED <<closers, creation, target, registry, paged, ledger, surfaced>>
      BY <2>1 DEF ReadEvent
    <3> QED BY <1>i, <1>t, <3>3, <3>4 DEF TypeOK, closers, creation, paged
  <2>2. ASSUME NEW p \in Pages, LookUp(p) \/ Watched(p) PROVE TypeOK'
    BY <1>i, <1>t, <2>2 DEF TypeOK, LookUp, StartClose, Watched, closers, creation, paged
  <2> QED BY <1>3, <2>1, <2>2 DEF WatcherRuns
<1>4. CASE SessionRuns
  <2>1. CASE DrainSession \/ EndVisits \/ EndSession
    BY <1>i, <1>t, <2>1 DEF TypeOK, DrainSession, EndVisits, EndSession, creation, paged, watched
  <2>2. CASE SweepPending
    BY <1>i, <1>t, <2>2 DEF TypeOK, SweepPending, creation, paged, watched
  <2>3. CASE DisposeContext
    BY <1>i, <1>t, <2>3 DEF TypeOK, DisposeContext, Disposed, NotDisposed, creation, paged
  <2>4. ASSUME NEW p \in Pages, VisitPage(p) \/ LeavePage(p) PROVE TypeOK'
    BY <1>i, <1>t, <2>4 DEF TypeOK, VisitPage, StartClose, LeavePage, creation, paged, watched
  <2> QED BY <1>4, <2>1, <2>2, <2>3, <2>4 DEF SessionRuns
<1>5. CASE RuntimeRuns
  <2>1. CASE DrainRuntime \/ CloseLiveSession \/ EndTargets
    BY <1>i, <1>t, <2>1 DEF TypeOK, DrainRuntime, CloseLiveSession, EndTargets, creation, paged, watched
  <2>2. CASE CleanContext
    BY <1>i, <1>t, <2>2 DEF TypeOK, CleanContext, Disposed, NotDisposed, creation, paged
  <2>3. ASSUME NEW p \in Pages, CleanTarget(p) PROVE TypeOK'
    BY <1>i, <1>t, <2>3 DEF TypeOK, CleanTarget, closers, creation, paged
  <2> QED BY <1>5, <2>1, <2>2, <2>3 DEF RuntimeRuns
<1>6. CASE Calls
  <2>1. CASE DropHandle \/ CloseSession \/ CloseRuntime
    BY <1>i, <1>t, <2>1 DEF TypeOK, DropHandle, CloseSession, CloseRuntime, creation, paged, watched
  <2>2. ASSUME NEW p \in Pages, NewPage(p) \/ Cancel(p) PROVE TypeOK'
    BY <1>i, <1>t, <2>2 DEF TypeOK, NewPage, Cancel, Unlocked, closers, paged, watched, OpStates
  <2>3. ASSUME NEW p \in Pages, BeginOperation(p) \/ ClosePage(p) \/ DestroyTarget(p) PROVE TypeOK'
    BY <1>i, <1>t, <2>3
    DEF TypeOK, BeginOperation, ClosePage, StartClose, DestroyTarget, closers, creation, paged, watched
  <2> QED BY <1>6, <2>1, <2>2, <2>3 DEF Calls
<1>7. CASE UNCHANGED vars
  BY <1>i, <1>7 DEF TypeOK, vars, closers, creation, paged, watched
<1> QED BY <1>1, <1>2, <1>3, <1>4, <1>5, <1>6, <1>7 DEF Next

-----------------------------------------------------------------------------
(* Who creates after a drain, and who operates after a page's drain?       *)
LEMMA StepFollows == TreeInvariant /\ [Next]_vars => CleanupFollowsOperations'
<1> SUFFICES ASSUME TreeInvariant, [Next]_vars PROVE CleanupFollowsOperations'
  OBVIOUS
<1>i. TypeOK /\ CleanupFollowsOperations
  BY DEF TreeInvariant
<1> DEFINE Quiet == \A p \in Pages : ~Creating(p)
<1>k. ASSUME UNCHANGED <<op, creator>> PROVE Quiet => Quiet'
  BY <1>k DEF Creating
<1>1. ASSUME NEW p \in Pages, CreationRuns(p) PROVE CleanupFollowsOperations'
  <2>1. UNCHANGED <<runtime, session, busy, fenced>>
    BY <1>1 DEF CreationRuns, TakeLock, ChromeCreates, CreateFails, Deliver, Receive, Initialize,
       Fail, Publish, CleanupCreation, RunScheduled, closers, paged
  <2>2. \A q \in busy : page'[q] = page[q] \/ page'[q] = "open"
    BY <1>i, <1>1 DEF CreationRuns, TakeLock, ChromeCreates, CreateFails, Deliver, Receive, Initialize,
       Fail, Publish, CleanupCreation, RunScheduled, paged, TypeOK
  <2>3. Creating(p) \/ UNCHANGED <<op, creator>>
    BY <1>1 DEF CreationRuns, TakeLock, ChromeCreates, CreateFails, Deliver, Receive, Initialize,
       Fail, Publish, CleanupCreation, RunScheduled, creation, Creating, OpStates
  <2> QED BY <1>i, <1>k, <2>1, <2>2, <2>3 DEF CleanupFollowsOperations
<1>2. ASSUME NEW p \in Pages, PageRuns(p) PROVE CleanupFollowsOperations'
  <2>1. UNCHANGED <<runtime, session, op, creator>> /\ busy' \subseteq busy /\ fenced' \subseteq fenced
    BY <1>2 DEF PageRuns, EndOperation, DrainPage, FinishClose, FinishGone, closers, creation
  <2>2. \A q \in busy' : page'[q] \in {"open", "drain"}
    BY <1>i, <1>2 DEF PageRuns, EndOperation, DrainPage, FinishClose, FinishGone, TypeOK,
       CleanupFollowsOperations
  <2> QED BY <1>i, <1>k, <2>1, <2>2 DEF CleanupFollowsOperations
<1>s. ASSUME NEW q \in Pages, NEW b, StartClose(q, b), UNCHANGED busy
      PROVE  \A r \in busy' : page'[r] \in {"open", "drain"}
  BY <1>i, <1>s DEF StartClose, CleanupFollowsOperations, TypeOK
<1>3. CASE WatcherRuns
  <2>1. UNCHANGED <<runtime, session, op, creator, busy, fenced>>
    BY <1>3 DEF WatcherRuns, ReadEvent, LookUp, Watched, closers, creation, paged
  <2>2. \A q \in busy' : page'[q] \in {"open", "drain"}
    BY <1>i, <1>3, <1>s, <2>1 DEF WatcherRuns, ReadEvent, LookUp, Watched, paged, CleanupFollowsOperations
  <2> QED BY <1>i, <1>k, <2>1, <2>2 DEF CleanupFollowsOperations
<1>4. CASE SessionRuns
  <2>1. UNCHANGED <<runtime, op, creator, busy, fenced>>
    BY <1>4 DEF SessionRuns, DrainSession, SweepPending, EndVisits, DisposeContext, EndSession,
       VisitPage, LeavePage, creation, paged
  <2>2. \A q \in busy' : page'[q] \in {"open", "drain"}
    BY <1>i, <1>4, <1>s, <2>1 DEF SessionRuns, DrainSession, SweepPending, EndVisits, DisposeContext,
       EndSession, VisitPage, LeavePage, paged, CleanupFollowsOperations
  <2>3. session' \notin {"open", "drain"} =>
          session \notin {"open", "drain"} \/ (fenced = {} /\ Quiet)
    BY <1>4 DEF SessionRuns, DrainSession, SweepPending, EndVisits, DisposeContext, EndSession,
       VisitPage, LeavePage
  <2> QED BY <1>i, <1>k, <2>1, <2>2, <2>3 DEF CleanupFollowsOperations
<1>5. CASE RuntimeRuns
  <2>1. UNCHANGED <<op, creator, busy, fenced, page>>
    BY <1>5 DEF RuntimeRuns, DrainRuntime, CloseLiveSession, EndTargets, CleanContext, CleanTarget,
       creation, paged
  <2>2. /\ runtime' \notin {"open", "drain"} =>
             runtime \notin {"open", "drain"} \/ (busy = {} /\ Quiet)
        /\ session' \notin {"open", "drain"} => session \notin {"open", "drain"}
    BY <1>5 DEF RuntimeRuns, DrainRuntime, CloseLiveSession, EndTargets, CleanContext, CleanTarget,
       closers
  <2> QED BY <1>i, <1>k, <2>1, <2>2 DEF CleanupFollowsOperations
<1>6. CASE Calls
  <2>1. CASE DropHandle \/ CloseSession \/ CloseRuntime
    <3>1. UNCHANGED <<op, creator, busy, fenced, page>>
          /\ (runtime' \in {"open", "drain"} \/ runtime' = runtime)
          /\ (session' \in {"open", "drain"} \/ session' = session)
      BY <2>1 DEF DropHandle, CloseSession, CloseRuntime, creation, paged
    <3> QED BY <1>i, <1>k, <3>1 DEF CleanupFollowsOperations
  <2>2. ASSUME NEW p \in Pages, ClosePage(p) \/ DestroyTarget(p) PROVE CleanupFollowsOperations'
    <3>1. UNCHANGED <<runtime, session, op, creator, busy, fenced>>
      BY <2>2 DEF ClosePage, DestroyTarget, closers, creation, paged
    <3>2. \A q \in busy' : page'[q] \in {"open", "drain"}
      BY <1>i, <1>s, <2>2, <3>1 DEF ClosePage, DestroyTarget, paged, CleanupFollowsOperations
    <3> QED BY <1>i, <1>k, <3>1, <3>2 DEF CleanupFollowsOperations
  <2>3. ASSUME NEW p \in Pages, NewPage(p) PROVE CleanupFollowsOperations'
    <3>1. runtime' = "open" /\ session' = "open" /\ UNCHANGED <<busy, page>>
      BY <2>3 DEF NewPage, Open, closers, paged
    <3> QED BY <1>i, <3>1 DEF CleanupFollowsOperations
  <2>4. ASSUME NEW p \in Pages, Cancel(p) PROVE CleanupFollowsOperations'
    <3>1. UNCHANGED <<runtime, session, busy, fenced, page>>
      BY <2>4 DEF Cancel, closers, paged
    <3>2. Quiet => Quiet'
      BY <1>i, <2>4 DEF Cancel, Creating, OpStates, TypeOK
    <3> QED BY <1>i, <3>1, <3>2 DEF CleanupFollowsOperations
  <2>5. ASSUME NEW p \in Pages, BeginOperation(p) PROVE CleanupFollowsOperations'
    <3>1. /\ runtime' = "open" /\ UNCHANGED <<session, op, creator, page>>
          /\ page[p] = "open" /\ busy' = busy \cup {p}
          /\ session # "open" => fenced' = fenced
      BY <2>5 DEF BeginOperation, closers, creation
    <3> QED BY <1>i, <1>k, <3>1 DEF CleanupFollowsOperations
  <2> QED BY <1>6, <2>1, <2>2, <2>3, <2>4, <2>5 DEF Calls
<1>7. CASE UNCHANGED vars
  BY <1>i, <1>k, <1>7 DEF vars, closers, creation, paged, CleanupFollowsOperations
<1> QED BY <1>1, <1>2, <1>3, <1>4, <1>5, <1>6, <1>7 DEF Next

-----------------------------------------------------------------------------
(* Who changes what of a creation, and who publishes a page?               *)
LEMMA StepCreation == TreeInvariant /\ [Next]_vars => CreationProgress'
<1> SUFFICES ASSUME TreeInvariant, [Next]_vars PROVE CreationProgress'
  OBVIOUS
<1>i. TypeOK /\ CreationProgress /\ TypeOK'
  BY StepTypes DEF TreeInvariant
<1>t. \A q \in Pages :
        target'[q] = target[q] \/ (target[q] = "alive" /\ target'[q] = "gone") \/ Arrives(q)
  BY StepTargets DEF TargetStep
<1> DEFINE Kept == UNCHANGED <<options, op, waiting, creator, registry>>
<1>k. ASSUME Kept, \A q \in Pages : page'[q] # "none" => page[q] # "none"
      PROVE  CreationProgress'
  BY <1>i, <1>t, <1>k DEF CreationProgress, Arrives, Isolated
<1>s. ASSUME NEW q \in Pages, NEW b, StartClose(q, b)
      PROVE  \A r \in Pages : page'[r] # "none" => page[r] # "none"
  BY <1>i, <1>s DEF StartClose, TypeOK
<1>1. ASSUME NEW p \in Pages, CreationRuns(p) PROVE CreationProgress'
  <2>1. CASE TakeLock(p) \/ CreateFails(p)
    BY <1>i, <2>1 DEF TakeLock, CreateFails, closers, paged, TypeOK, CreationProgress, Isolated
  <2>2. CASE ChromeCreates(p)
    BY <1>i, <2>2 DEF ChromeCreates, closers, paged, TypeOK, CreationProgress, Isolated
  <2>3. CASE Deliver(p)
    BY <1>i, <2>3 DEF Deliver, closers, paged, TypeOK, CreationProgress, Isolated
  <2>4. CASE Receive(p) \/ Initialize(p) \/ Fail(p)
    BY <1>i, <2>4 DEF Receive, Initialize, Fail, closers, paged, TypeOK, CreationProgress, Isolated
  <2>5. CASE Publish(p)
    BY <1>i, <2>5 DEF Publish, closers, TypeOK, CreationProgress, Isolated
  <2>6. CASE CleanupCreation(p)
    <3>1. /\ op[p] = "cleanup" /\ op' = [op EXCEPT ![p] = "ended"] /\ waiting' = waiting \ {p}
          /\ registry' = [registry EXCEPT ![p] = "none"] /\ UNCHANGED <<options, creator, page>>
      BY <2>6 DEF CleanupCreation, closers, paged
    <3> QED BY <1>i, <1>t, <3>1 DEF CreationProgress, Arrives, TypeOK, Isolated
  <2>7. CASE RunScheduled(p)
    <3>1. /\ registry[p] = "scheduled" /\ UNCHANGED <<options, op, waiting, creator, page>>
          /\ registry' = [registry EXCEPT ![p] = "none"] \/ registry' = [registry EXCEPT ![p] = "failed"]
      BY <2>7 DEF RunScheduled, closers, creation, paged
    <3> QED BY <1>i, <1>t, <3>1 DEF CreationProgress, Arrives, TypeOK, Isolated
  <2> QED BY <1>1, <2>1, <2>2, <2>3, <2>4, <2>5, <2>6, <2>7 DEF CreationRuns
<1>2. ASSUME NEW p \in Pages, PageRuns(p) PROVE CreationProgress'
  <2>1. CASE EndOperation(p) \/ DrainPage(p)
    BY <1>i, <1>k, <2>1 DEF EndOperation, DrainPage, closers, creation, TypeOK
  <2>2. CASE FinishClose(p) \/ FinishGone(p)
    <3>1. /\ page[p] = "act" /\ UNCHANGED <<options, op, waiting, creator>>
          /\ page' = [page EXCEPT ![p] = "closed"] \/ page' = [page EXCEPT ![p] = "failed"]
          /\ registry' = [registry EXCEPT ![p] = "none"]
      BY <2>2 DEF FinishClose, FinishGone, closers, creation
    <3> QED BY <1>i, <1>t, <3>1 DEF CreationProgress, Arrives, TypeOK, Isolated
  <2> QED BY <1>2, <2>1, <2>2 DEF PageRuns
<1>3. CASE WatcherRuns
  BY <1>k, <1>s, <1>3 DEF WatcherRuns, ReadEvent, LookUp, Watched, closers, creation, paged
<1>4. CASE SessionRuns
  <2>1. CASE SweepPending
    <3>1. /\ UNCHANGED <<options, op, waiting, creator, page>>
          /\ \A q \in Pages : registry'[q] = registry[q] \/ registry'[q] = "none"
      BY <1>i, <2>1 DEF SweepPending, creation, paged, TypeOK
    <3> QED BY <1>i, <1>t, <3>1 DEF CreationProgress, Arrives, Isolated
  <2>2. CASE DrainSession \/ EndVisits \/ DisposeContext \/ EndSession
    BY <1>k, <2>2 DEF DrainSession, EndVisits, DisposeContext, EndSession, creation, paged
  <2>3. ASSUME NEW p \in Pages, VisitPage(p) \/ LeavePage(p) PROVE CreationProgress'
    BY <1>k, <1>s, <2>3 DEF VisitPage, LeavePage, creation, paged
  <2> QED BY <1>4, <2>1, <2>2, <2>3 DEF SessionRuns
<1>5. CASE RuntimeRuns
  <2>1. ASSUME NEW p \in Pages, CleanTarget(p) PROVE CreationProgress'
    <3>1. /\ UNCHANGED <<options, op, waiting, creator, page>>
          /\ \A q \in Pages : registry'[q] = registry[q] \/ registry'[q] = "none"
      BY <1>i, <2>1 DEF CleanTarget, closers, creation, paged, TypeOK
    <3> QED BY <1>i, <1>t, <3>1 DEF CreationProgress, Arrives, Isolated
  <2>2. CASE DrainRuntime \/ CloseLiveSession \/ EndTargets \/ CleanContext
    BY <1>k, <2>2 DEF DrainRuntime, CloseLiveSession, EndTargets, CleanContext, creation, paged
  <2> QED BY <1>5, <2>1, <2>2 DEF RuntimeRuns
<1>6. CASE Calls
  <2>1. CASE DropHandle \/ CloseSession \/ CloseRuntime
    BY <1>k, <2>1 DEF DropHandle, CloseSession, CloseRuntime, creation, paged
  <2>2. ASSUME NEW p \in Pages, NewPage(p) PROVE CreationProgress'
    BY <1>i, <2>2 DEF NewPage, closers, paged, TypeOK, CreationProgress, Isolated
  <2>3. ASSUME NEW p \in Pages, Cancel(p) PROVE CreationProgress'
    BY <1>i, <2>3 DEF Cancel, closers, paged, TypeOK, CreationProgress, Isolated
  <2>4. ASSUME NEW p \in Pages, BeginOperation(p) \/ ClosePage(p) \/ DestroyTarget(p)
        PROVE  CreationProgress'
    BY <1>k, <1>s, <2>4 DEF BeginOperation, ClosePage, DestroyTarget, closers, creation, paged
  <2> QED BY <1>6, <2>1, <2>2, <2>3, <2>4 DEF Calls
<1>7. CASE UNCHANGED vars
  BY <1>k, <1>7 DEF vars, closers, creation, paged
<1> QED BY <1>1, <1>2, <1>3, <1>4, <1>5, <1>6, <1>7 DEF Next

(* Who learns of a destruction, and who acts on it?                        *)
LEMMA StepDestroyed == TreeInvariant /\ [Next]_vars => DestroyedIsGone'
<1> SUFFICES ASSUME TreeInvariant, [Next]_vars PROVE DestroyedIsGone'
  OBVIOUS
<1>i. TypeOK /\ DestroyedIsGone /\ CreationProgress /\ ContextProgress /\ TypeOK'
  BY StepTypes DEF TreeInvariant
<1>t. /\ \A q \in Pages : target[q] = "gone" => target'[q] = "gone"
      /\ \A i \in 1..Len(events') : events'[i].kind = "destroyed" => target'[events'[i].page] = "gone"
  BY <1>i, StepTargets DEF TargetStep, Arrives, CreationProgress
<1>k. ASSUME \A q \in Pages :
               /\ watcher' = q => watcher = q \/ target[q] = "gone"
               /\ body'[q] \in {"session", "destroyed"} =>
                    body[q] \in {"session", "destroyed"} \/ target[q] = "gone"
      PROVE  DestroyedIsGone'
  BY <1>i, <1>t, <1>k DEF DestroyedIsGone
<1>1. ASSUME NEW p \in Pages, CreationRuns(p) \/ PageRuns(p) PROVE DestroyedIsGone'
  BY <1>k, <1>1 DEF CreationRuns, TakeLock, ChromeCreates, CreateFails, Deliver, Receive, Initialize,
     Fail, Publish, CleanupCreation, RunScheduled, PageRuns, EndOperation, DrainPage, FinishClose,
     FinishGone, paged, watched
<1>2. CASE WatcherRuns
  <2>1. CASE ReadEvent
    <3>1. /\ Head(events) \in Event
          /\ Head(events).kind = "destroyed" => target[Head(events).page] = "gone"
      BY <1>i, <2>1, Reading DEF ReadEvent
    <3>2. UNCHANGED body /\ (watcher' = watcher \/ (Head(events).kind # "created" /\ watcher' = Head(events).page))
      BY <2>1 DEF ReadEvent, paged
    <3> QED BY <1>k, <3>1, <3>2 DEF Event
  <2>2. ASSUME NEW p \in Pages, LookUp(p) PROVE DestroyedIsGone'
    <3>1. watcher = p /\ watcher' \in {"next", watcher}
          /\ (UNCHANGED body \/ body' = [body EXCEPT ![p] = "destroyed"])
      BY <2>2 DEF LookUp, StartClose
    <3>2. target[p] = "gone"
      BY <1>i, <3>1 DEF DestroyedIsGone
    <3> QED BY <1>i, <1>k, <3>1, <3>2, TreeAssumption DEF TypeOK, TreeAssumption
  <2>3. ASSUME NEW p \in Pages, Watched(p) PROVE DestroyedIsGone'
    BY <1>k, <2>3, TreeAssumption DEF Watched, paged, TreeAssumption
  <2> QED BY <1>2, <2>1, <2>2, <2>3 DEF WatcherRuns
<1>3. CASE SessionRuns
  <2>1. ASSUME NEW p \in Pages, VisitPage(p) PROVE DestroyedIsGone'
    <3>1. UNCHANGED watcher /\ (UNCHANGED body \/ (page[p] = "open" /\
            body' = [body EXCEPT ![p] = IF session = "pages" THEN "close" ELSE "session"]))
          /\ session \in {"pages", "mark"}
      BY <2>1 DEF VisitPage, StartClose, watched
    <3>2. session = "mark" /\ page[p] = "open" => target[p] = "gone"
      BY SMTT(60), <1>i DEF ContextProgress, CreationProgress, TypeOK
    <3> QED BY <1>i, <1>k, <3>1, <3>2 DEF TypeOK
  <2>2. CASE SessionRuns /\ ~\E p \in Pages : VisitPage(p)
    BY <1>k, <2>2 DEF SessionRuns, DrainSession, SweepPending, EndVisits, DisposeContext, EndSession,
       LeavePage, paged, watched
  <2> QED BY <1>3, <2>1, <2>2
<1>4. CASE RuntimeRuns
  BY <1>k, <1>4 DEF RuntimeRuns, DrainRuntime, CloseLiveSession, EndTargets, CleanContext, CleanTarget,
     paged, watched
<1>5. CASE Calls
  <2>1. ASSUME NEW p \in Pages, ClosePage(p) PROVE DestroyedIsGone'
    BY <1>i, <1>k, <2>1 DEF ClosePage, StartClose, watched, TypeOK
  <2>2. CASE Calls /\ ~\E p \in Pages : ClosePage(p)
    BY <1>k, <2>2 DEF Calls, DropHandle, CloseSession, CloseRuntime, NewPage, Cancel, BeginOperation,
       DestroyTarget, paged, watched
  <2> QED BY <1>5, <2>1, <2>2
<1>6. CASE UNCHANGED vars
  BY <1>k, <1>6 DEF vars, paged, watched
<1> QED BY <1>1, <1>2, <1>3, <1>4, <1>5, <1>6 DEF Next

-----------------------------------------------------------------------------
(* No step changes the kind of the session or takes a report back. *)
LEMMA StepKeeps ==
  TreeInvariant /\ [Next]_vars => options' = options /\ surfaced \subseteq surfaced'
<1> SUFFICES ASSUME TreeInvariant, [Next]_vars PROVE options' = options /\ surfaced \subseteq surfaced'
  OBVIOUS
<1>1. ASSUME NEW p \in Pages, CreationRuns(p) \/ PageRuns(p)
      PROVE  options' = options /\ surfaced \subseteq surfaced'
  BY <1>1 DEF CreationRuns, TakeLock, ChromeCreates, CreateFails, Deliver, Receive, Initialize,
     Fail, Publish, CleanupCreation, RunScheduled, PageRuns, EndOperation, DrainPage, FinishClose,
     FinishGone, closers
<1>2. CASE WatcherRuns
  BY <1>2 DEF WatcherRuns, ReadEvent, LookUp, Watched, closers
<1>3. CASE SessionRuns
  BY <1>3 DEF SessionRuns, DrainSession, SweepPending, EndVisits, DisposeContext, Disposed, NotDisposed,
     EndSession, VisitPage, LeavePage
<1>4. CASE RuntimeRuns
  BY <1>4 DEF RuntimeRuns, DrainRuntime, CloseLiveSession, EndTargets, CleanContext, Disposed,
     NotDisposed, CleanTarget, closers
<1>5. CASE Calls
  BY <1>5 DEF Calls, DropHandle, CloseSession, CloseRuntime, NewPage, Cancel, BeginOperation, ClosePage,
     DestroyTarget, closers
<1>6. CASE UNCHANGED vars
  BY <1>6 DEF vars, closers
<1> QED BY <1>1, <1>2, <1>3, <1>4, <1>5, <1>6 DEF Next

(* Once the context is gone nothing arrives in it: nobody creates by then. *)
LEMMA StepContext == TreeInvariant /\ [Next]_vars => ContextProgress'
<1> SUFFICES ASSUME TreeInvariant, [Next]_vars PROVE ContextProgress'
  OBVIOUS
<1>i. /\ TypeOK /\ CleanupFollowsOperations /\ ContextProgress /\ DestroyedIsGone
      /\ options' = options /\ surfaced \subseteq surfaced'
  BY StepKeeps DEF TreeInvariant
<1>g. context = "gone" => \A q \in Pages : target'[q] # "alive"
  <2>1. context = "gone" => \A q \in Pages : creator[q] # "sent"
    BY <1>i DEF ContextProgress, CleanupFollowsOperations, Creating
  <2> QED BY <1>i, <2>1, StepTargets DEF ContextProgress, TargetStep, Arrives
<1>k. ASSUME UNCHANGED <<context, session, runtime>> PROVE ContextProgress'
  BY <1>i, <1>g, <1>k DEF ContextProgress, Isolated
<1>1. ASSUME NEW p \in Pages, CreationRuns(p) \/ PageRuns(p) PROVE ContextProgress'
  BY <1>k, <1>1 DEF CreationRuns, TakeLock, ChromeCreates, CreateFails, Deliver, Receive, Initialize,
     Fail, Publish, CleanupCreation, RunScheduled, PageRuns, EndOperation, DrainPage, FinishClose,
     FinishGone, closers
<1>2. CASE WatcherRuns
  BY <1>k, <1>2 DEF WatcherRuns, ReadEvent, LookUp, Watched, closers
<1>d. ASSUME Disposed PROVE context' = "gone" /\ \A q \in Pages : target'[q] # "alive"
  BY <1>i, <1>d, ChromeDisposes DEF Disposed
<1>3. CASE SessionRuns
  <2>1. CASE DisposeContext
    <3>1. CASE Disposed
      BY <1>i, <1>d, <2>1, <3>1 DEF DisposeContext, ContextProgress, Isolated
    <3>2. CASE NotDisposed
      BY <1>i, <1>d, <2>1, <3>2 DEF DisposeContext, NotDisposed, ContextProgress, Isolated
    <3> QED BY <2>1, <3>1, <3>2 DEF DisposeContext
  <2>2. CASE DrainSession \/ SweepPending \/ EndVisits \/ EndSession
    <3>1. UNCHANGED <<context, runtime>>
      BY <2>2 DEF DrainSession, SweepPending, EndVisits, EndSession
    <3>2. /\ session' = "context" => Isolated
          /\ session' # "mark"
          /\ session \in {"mark", "end", "closed"} => session' \in {"mark", "end", "closed"}
      BY <2>2 DEF DrainSession, SweepPending, EndVisits, EndSession
    <3> QED BY <1>i, <1>g, <3>1, <3>2 DEF ContextProgress, Isolated
  <2>3. ASSUME NEW p \in Pages, VisitPage(p) \/ LeavePage(p) PROVE ContextProgress'
    BY <1>k, <2>3 DEF VisitPage, LeavePage
  <2> QED BY <1>3, <2>1, <2>2, <2>3 DEF SessionRuns
<1>4. CASE RuntimeRuns
  <2>1. CASE CleanContext
    <3>1. UNCHANGED session /\ runtime' = "closed"
      BY <2>1 DEF CleanContext
    <3>2. CASE context = "alive" /\ Disposed
      BY <1>i, <1>d, <3>1, <3>2 DEF ContextProgress, Isolated
    <3>3. CASE context = "alive" /\ NotDisposed
      BY <1>i, <3>1, <3>3 DEF NotDisposed, ContextProgress, Isolated
    <3>4. CASE context # "alive" /\ UNCHANGED context
      BY <1>i, <1>g, <3>1, <3>4 DEF ContextProgress, Isolated
    <3> QED BY <2>1, <3>2, <3>3, <3>4 DEF CleanContext
  <2>2. CASE DrainRuntime \/ CloseLiveSession \/ EndTargets
    <3>1. /\ UNCHANGED context /\ runtime # "closed"
          /\ session' = session \/ (session = "open" /\ session' = "drain")
      BY <2>2 DEF DrainRuntime, CloseLiveSession, EndTargets
    <3> QED BY <1>i, <1>g, <3>1 DEF ContextProgress, Isolated
  <2>3. ASSUME NEW p \in Pages, CleanTarget(p) PROVE ContextProgress'
    BY <1>k, <2>3 DEF CleanTarget, closers
  <2> QED BY <1>4, <2>1, <2>2, <2>3 DEF RuntimeRuns
<1>5. CASE Calls
  <2>1. CASE CloseSession \/ CloseRuntime
    <3>1. /\ UNCHANGED context
          /\ session' = session \/ (session = "open" /\ session' = "drain")
          /\ runtime' = runtime \/ runtime = "open"
      BY <2>1 DEF CloseSession, CloseRuntime
    <3> QED BY <1>i, <1>g, <3>1 DEF ContextProgress, Isolated
  <2>2. CASE Calls /\ ~CloseSession /\ ~CloseRuntime
    BY <1>k, <2>2 DEF Calls, DropHandle, NewPage, Cancel, BeginOperation, ClosePage, DestroyTarget, closers
  <2> QED BY <1>5, <2>1, <2>2
<1>6. CASE UNCHANGED vars
  BY <1>k, <1>6 DEF vars, closers
<1> QED BY <1>1, <1>2, <1>3, <1>4, <1>5, <1>6 DEF Next

(* Every way a registry or a ledger lets a page go is a death or a report. *)
LEMMA StepOwnership == TreeInvariant /\ [Next]_vars => OwnershipRetained'
<1> SUFFICES ASSUME TreeInvariant, [Next]_vars PROVE OwnershipRetained'
  OBVIOUS
<1>i. /\ TypeOK /\ OwnershipRetained /\ CreationProgress /\ DestroyedIsGone /\ ContextProgress
      /\ surfaced \subseteq surfaced'
  BY StepKeeps DEF TreeInvariant
<1>t. \A q \in Pages : target'[q] = "alive" =>
        target[q] = "alive" \/ (creator[q] = "sent" /\ creator'[q] = "answered")
  BY StepTargets DEF TargetStep, Arrives
<1>u. ASSUME UNCHANGED <<creator, registry, context, ledger>> PROVE OwnershipRetained'
  BY <1>i, <1>t, <1>u DEF OwnershipRetained
<1>c. ASSUME NEW p \in Pages, TargetCloses(p) PROVE target'[p] = "gone"
  BY <1>i, <1>c, ChromeCloses
<1>1. ASSUME NEW p \in Pages, CreationRuns(p) PROVE OwnershipRetained'
  <2>1. CASE TakeLock(p) \/ ChromeCreates(p) \/ CreateFails(p)
    <3>1. /\ UNCHANGED <<registry, context, ledger>> /\ \A q \in Pages : q # p => creator'[q] = creator[q]
          /\ creator'[p] # "delivered" \/ UNCHANGED creator
      BY <1>i, <2>1 DEF TakeLock, ChromeCreates, CreateFails, closers, TypeOK
    <3> QED BY <1>i, <1>t, <3>1 DEF OwnershipRetained
  <2>2. CASE Deliver(p)
    <3>1. /\ UNCHANGED <<context, ledger>> /\ registry'[p] # "none"
          /\ \A q \in Pages : q # p => creator'[q] = creator[q] /\ registry'[q] = registry[q]
      BY <1>i, <2>2 DEF Deliver, closers, TypeOK
    <3> QED BY <1>i, <1>t, <3>1 DEF OwnershipRetained
  <2>3. CASE Receive(p) \/ Initialize(p) \/ Fail(p)
    BY <1>u, <2>3 DEF Receive, Initialize, Fail, closers
  <2>4. CASE Publish(p)
    <3>1. /\ UNCHANGED <<context, ledger, creator>>
          /\ \A q \in Pages : q # p => registry'[q] = registry[q]
          /\ ~Isolated => registry'[p] # "none"
      BY <1>i, <2>4 DEF Publish, closers, TypeOK
    <3>2. Isolated /\ target[p] = "alive" => context = "alive" \/ Context \in surfaced
      BY <1>i DEF ContextProgress, TypeOK
    <3> QED BY <1>i, <1>t, <3>1, <3>2 DEF OwnershipRetained
  <2>5. CASE CleanupCreation(p)
    <3>1. /\ UNCHANGED <<context, creator>> /\ ledger \subseteq ledger'
          /\ \A q \in Pages : q # p => registry'[q] = registry[q]
          /\ target'[p] = "gone" \/ p \in ledger'
      BY <1>i, <1>c, <2>5 DEF CleanupCreation, closers, TypeOK
    <3> QED BY <1>i, <1>t, <3>1 DEF OwnershipRetained
  <2>6. CASE RunScheduled(p)
    <3>1. /\ UNCHANGED <<context, creator, ledger>>
          /\ \A q \in Pages : q # p => registry'[q] = registry[q]
          /\ target'[p] = "gone" \/ registry'[p] = "failed"
      BY <1>i, <1>c, <2>6 DEF RunScheduled, closers, creation, TypeOK
    <3> QED BY <1>i, <1>t, <3>1 DEF OwnershipRetained
  <2> QED BY <1>1, <2>1, <2>2, <2>3, <2>4, <2>5, <2>6 DEF CreationRuns
<1>2. ASSUME NEW p \in Pages, PageRuns(p) PROVE OwnershipRetained'
  <2>1. CASE EndOperation(p) \/ DrainPage(p)
    BY <1>u, <2>1 DEF EndOperation, DrainPage, closers, creation
  <2>2. CASE FinishClose(p)
    <3>1. /\ UNCHANGED <<context, creator, ledger>>
          /\ \A q \in Pages : q # p => registry'[q] = registry[q]
          /\ \/ target'[p] = "gone" \/ p \in surfaced'
             \/ (~Isolated /\ registry[p] # "retained")
          /\ page[p] = "act"
      BY <1>i, <1>c, <2>2 DEF FinishClose, closers, creation, TypeOK
    <3>2. ~Isolated /\ registry[p] # "retained" => registry[p] = "none"
      BY <1>i, <3>1 DEF CreationProgress
    <3> QED BY <1>i, <1>t, <3>1, <3>2 DEF OwnershipRetained
  <2>3. CASE FinishGone(p)
    <3>1. /\ UNCHANGED <<context, creator, ledger, target>>
          /\ \A q \in Pages : q # p => registry'[q] = registry[q]
          /\ target[p] = "gone"
      BY <1>i, <2>3 DEF FinishGone, closers, creation, TypeOK, DestroyedIsGone
    <3> QED BY <1>i, <3>1 DEF OwnershipRetained
  <2> QED BY <1>2, <2>1, <2>2, <2>3 DEF PageRuns
<1>3. CASE WatcherRuns
  BY <1>u, <1>3 DEF WatcherRuns, ReadEvent, LookUp, Watched, closers, creation
<1>4. CASE SessionRuns
  <2>1. CASE DrainSession
    <3>1. UNCHANGED <<context, creator, registry>> /\ ledger \subseteq surfaced'
      BY <2>1 DEF DrainSession, creation
    <3> QED BY <1>i, <1>t, <3>1 DEF OwnershipRetained
  <2>2. CASE SweepPending
    <3>1. UNCHANGED <<context, creator, ledger>>
          /\ \A q \in Pages : registry'[q] = registry[q] \/ q \in surfaced'
      BY <1>i, <2>2 DEF SweepPending, creation, TypeOK
    <3> QED BY <1>i, <1>t, <3>1 DEF OwnershipRetained
  <2>3. CASE DisposeContext
    <3>1. UNCHANGED <<creator, registry, ledger>>
      BY <2>3 DEF DisposeContext, creation
    <3>2. (\A q \in Pages : target'[q] # "alive") \/ Context \in surfaced'
      BY <1>i, <2>3, ChromeDisposes DEF DisposeContext, NotDisposed
    <3> QED BY <3>1, <3>2 DEF OwnershipRetained
  <2>4. CASE EndVisits \/ EndSession \/ \E p \in Pages : VisitPage(p) \/ LeavePage(p)
    BY <1>u, <2>4 DEF EndVisits, EndSession, VisitPage, LeavePage, creation
  <2> QED BY <1>4, <2>1, <2>2, <2>3, <2>4 DEF SessionRuns
<1>5. CASE RuntimeRuns
  <2>1. CASE CleanContext
    <3>1. UNCHANGED <<creator, registry, ledger>>
      BY <2>1 DEF CleanContext, creation
    <3>2. (\A q \in Pages : target'[q] # "alive") \/ Context \in surfaced' \/ UNCHANGED context
      BY <1>i, <2>1, ChromeDisposes DEF CleanContext, NotDisposed
    <3> QED BY <1>u, <3>1, <3>2 DEF OwnershipRetained
  <2>2. CASE DrainRuntime \/ CloseLiveSession \/ EndTargets
    BY <1>u, <2>2 DEF DrainRuntime, CloseLiveSession, EndTargets, creation
  <2>3. ASSUME NEW p \in Pages, CleanTarget(p) PROVE OwnershipRetained'
    <3>1. /\ UNCHANGED <<context, creator, ledger>>
          /\ \A q \in Pages : q # p => registry'[q] = registry[q]
          /\ target'[p] = "gone" \/ p \in surfaced'
      BY <1>i, <1>c, <2>3 DEF CleanTarget, closers, creation, TypeOK
    <3> QED BY <1>i, <1>t, <3>1 DEF OwnershipRetained
  <2> QED BY <1>5, <2>1, <2>2, <2>3 DEF RuntimeRuns
<1>6. CASE Calls
  <2>1. ASSUME NEW p \in Pages, Cancel(p) PROVE OwnershipRetained'
    <3>1. /\ UNCHANGED <<context, creator, ledger>>
          /\ \A q \in Pages : registry'[q] = registry[q] \/ registry'[q] = "scheduled"
      BY <1>i, <2>1 DEF Cancel, closers, TypeOK
    <3> QED BY <1>i, <1>t, <3>1 DEF OwnershipRetained
  <2>2. CASE Calls /\ ~\E p \in Pages : Cancel(p)
    BY <1>u, <2>2 DEF Calls, DropHandle, CloseSession, CloseRuntime, NewPage, BeginOperation, ClosePage,
       DestroyTarget, closers, creation
  <2> QED BY <1>6, <2>1, <2>2
<1>7. CASE UNCHANGED vars
  BY <1>u, <1>7 DEF vars, closers, creation
<1> QED BY <1>1, <1>2, <1>3, <1>4, <1>5, <1>6, <1>7 DEF Next

-----------------------------------------------------------------------------
(* What a step does to a page: it is published, drained, acted on and      *)
(* closed, with its target gone if the close was its own to do.            *)
PageMoves(p) ==
  \/ page'[p] = page[p]
  \/ page[p] # "none" /\ page'[p] \in {"open", "drain", "act"} /\ page[p] \in {"open", "drain", "act"}
  \/ /\ page[p] = "none" /\ Creating(p)
     /\ page'[p] = "open" /\ p \in pages' /\ (Isolated \/ registry'[p] = "retained")
  \/ /\ page[p] = "act" /\ page'[p] = "closed"
     /\ target'[p] = "gone" \/ (~Isolated /\ registry[p] # "retained")
  \/ page[p] = "act" /\ page'[p] = "failed"

PageLeaves(p) ==
  /\ p \in pages \ pages' => page'[p] = "closed" \/ session' = "closed"
  /\ page[p] # "none" /\ ~Isolated /\ registry[p] = "retained" =>
       registry'[p] = "retained" \/ page'[p] \in {"closed", "failed"} \/ PastSessions

LEMMA StepPages == TreeInvariant /\ [Next]_vars => \A q \in Pages : PageMoves(q) /\ PageLeaves(q)
<1> DEFINE Moves == \A q \in Pages : PageMoves(q) /\ PageLeaves(q)
<1> SUFFICES ASSUME TreeInvariant, [Next]_vars PROVE Moves
  OBVIOUS
<1>i. TypeOK /\ CreationProgress /\ DestroyedIsGone /\ TypeOK'
  BY StepTypes DEF TreeInvariant
<1>u. ASSUME UNCHANGED <<page, pages, registry>> PROVE Moves
  BY <1>u DEF PageMoves, PageLeaves
<1>s. ASSUME NEW p \in Pages, NEW b, StartClose(p, b), UNCHANGED <<pages, registry>> PROVE Moves
  BY <1>i, <1>s DEF StartClose, PageMoves, PageLeaves, TypeOK
<1>1. ASSUME NEW p \in Pages, CreationRuns(p) PROVE Moves
  <2>1. CASE Publish(p)
    <3>1. /\ op[p] = "configure" /\ page[p] = "none"
          /\ page' = [page EXCEPT ![p] = "open"] /\ pages' = pages \cup {p}
          /\ registry' = [registry EXCEPT ![p] = IF Isolated THEN "none" ELSE "retained"]
      BY <1>i, <2>1 DEF Publish, CreationProgress
    <3>2. Creating(p)
      BY <3>1 DEF Creating, OpStates
    <3> QED BY <1>i, <3>1, <3>2 DEF PageMoves, PageLeaves, TypeOK
  <2>2. CASE Deliver(p) \/ CleanupCreation(p) \/ RunScheduled(p)
    <3>1. page' = page /\ pages' = pages /\ \A q \in Pages : q # p => registry'[q] = registry[q]
      BY <1>i, <2>2 DEF Deliver, CleanupCreation, RunScheduled, paged, TypeOK
    <3>2. page[p] # "none" => registry[p] # "retained"
      BY <1>i, <2>2 DEF Deliver, CleanupCreation, RunScheduled, CreationProgress
    <3> QED BY <3>1, <3>2 DEF PageMoves, PageLeaves
  <2>3. CASE TakeLock(p) \/ ChromeCreates(p) \/ CreateFails(p) \/ Receive(p) \/ Initialize(p) \/ Fail(p)
    BY <1>u, <2>3 DEF TakeLock, ChromeCreates, CreateFails, Receive, Initialize, Fail, paged
  <2> QED BY <1>1, <2>1, <2>2, <2>3 DEF CreationRuns
<1>2. ASSUME NEW p \in Pages, PageRuns(p) PROVE Moves
  <2>1. CASE EndOperation(p)
    BY <1>u, <2>1 DEF EndOperation
  <2>2. CASE DrainPage(p)
    BY <1>i, <2>2 DEF DrainPage, PageMoves, PageLeaves, TypeOK
  <2>3. CASE FinishClose(p) \/ FinishGone(p)
    <3>1. /\ page[p] = "act" /\ registry' = [registry EXCEPT ![p] = "none"]
          /\ \/ /\ page' = [page EXCEPT ![p] = "closed"] /\ pages' \in {pages, pages \ {p}}
                /\ TargetCloses(p) \/ (~Isolated /\ registry[p] # "retained") \/ target'[p] = "gone"
             \/ page' = [page EXCEPT ![p] = "failed"] /\ UNCHANGED pages
      BY <1>i, <2>3 DEF FinishClose, FinishGone, Forget, DestroyedIsGone
    <3>2. TargetCloses(p) => target'[p] = "gone"
      BY <1>i, ChromeCloses
    <3> QED BY <1>i, <3>1, <3>2 DEF PageMoves, PageLeaves, TypeOK
  <2> QED BY <1>2, <2>1, <2>2, <2>3 DEF PageRuns
<1>3. CASE WatcherRuns
  BY <1>u, <1>s, <1>3 DEF WatcherRuns, ReadEvent, LookUp, Watched, paged
<1>4. CASE SessionRuns
  <2>1. CASE SweepPending
    <3>1. page' = page /\ pages' = pages
          /\ (Isolated \/ UNCHANGED registry)
      BY <2>1 DEF SweepPending, paged
    <3> QED BY <3>1 DEF PageMoves, PageLeaves
  <2>2. CASE EndSession
    BY <2>2 DEF EndSession, PageMoves, PageLeaves
  <2>3. ASSUME NEW p \in Pages, VisitPage(p) PROVE Moves
    BY <1>u, <1>s, <2>3 DEF VisitPage
  <2>4. CASE DrainSession \/ EndVisits \/ DisposeContext \/ \E p \in Pages : LeavePage(p)
    BY <1>u, <2>4 DEF DrainSession, EndVisits, DisposeContext, LeavePage, paged
  <2> QED BY <1>4, <2>1, <2>2, <2>3, <2>4 DEF SessionRuns
<1>5. CASE RuntimeRuns
  <2>1. ASSUME NEW p \in Pages, CleanTarget(p) PROVE Moves
    BY <2>1 DEF CleanTarget, paged, PageMoves, PageLeaves, PastSessions
  <2>2. CASE DrainRuntime \/ CloseLiveSession \/ EndTargets \/ CleanContext
    BY <1>u, <2>2 DEF DrainRuntime, CloseLiveSession, EndTargets, CleanContext, paged
  <2> QED BY <1>5, <2>1, <2>2 DEF RuntimeRuns
<1>6. CASE Calls
  <2>1. ASSUME NEW p \in Pages, Cancel(p) PROVE Moves
    <3>1. page' = page /\ pages' = pages /\ \A q \in Pages : q # p => registry'[q] = registry[q]
      BY <1>i, <2>1 DEF Cancel, paged, TypeOK
    <3>2. page[p] = "none"
      BY <1>i, <2>1 DEF Cancel, CreationProgress
    <3> QED BY <3>1, <3>2 DEF PageMoves, PageLeaves
  <2>2. ASSUME NEW p \in Pages, ClosePage(p) PROVE Moves
    BY <1>s, <2>2 DEF ClosePage
  <2>3. CASE Calls /\ ~\E p \in Pages : Cancel(p) \/ ClosePage(p)
    BY <1>u, <2>3 DEF Calls, DropHandle, CloseSession, CloseRuntime, NewPage, BeginOperation,
       DestroyTarget, paged
  <2> QED BY <1>6, <2>1, <2>2, <2>3
<1>7. CASE UNCHANGED vars
  BY <1>u, <1>7 DEF vars, paged
<1> QED BY <1>1, <1>2, <1>3, <1>4, <1>5, <1>6, <1>7 DEF Next

-----------------------------------------------------------------------------
(* The closes go forward, and reports lose nothing. *)
Forward ==
  /\ PastSessions => PastSessions'
  /\ PastSessions' => PastSessions \/ session = "closed" \/ (session = "open" /\ handle = "dropped")
  /\ session # "drain" => failed \subseteq failed'
  /\ session = "closed" => session' = "closed"
  /\ session = "open" => session' \in {"open", "drain"}
  /\ session = "open" /\ session' = "drain" => (handle = "held" /\ UNCHANGED runtime) \/ ~PastSessions'
  /\ handle = "dropped" => handle' = "dropped"
  /\ context = "gone" => context' = "gone" \/ Context \in failed'

LEMMA StepForward == TreeInvariant /\ [Next]_vars => Forward
<1> SUFFICES ASSUME TreeInvariant, [Next]_vars PROVE Forward
  OBVIOUS
<1>i. TypeOK
  BY DEF TreeInvariant
<1>u. ASSUME UNCHANGED <<runtime, session, failed, context>>, handle' \in {handle, "dropped"} PROVE Forward
  BY <1>i, <1>u DEF Forward, PastSessions, TypeOK
<1>1. ASSUME NEW p \in Pages, CreationRuns(p) \/ PageRuns(p) PROVE Forward
  BY <1>u, <1>1 DEF CreationRuns, TakeLock, ChromeCreates, CreateFails, Deliver, Receive, Initialize,
     Fail, Publish, CleanupCreation, RunScheduled, PageRuns, EndOperation, DrainPage, FinishClose,
     FinishGone, closers
<1>2. CASE WatcherRuns
  BY <1>u, <1>2 DEF WatcherRuns, ReadEvent, LookUp, Watched, closers
<1>3. CASE SessionRuns
  <2>1. CASE DrainSession \/ SweepPending \/ EndVisits \/ EndSession
    BY <1>i, <2>1 DEF DrainSession, SweepPending, EndVisits, EndSession, Forward, PastSessions, TypeOK
  <2>2. CASE DisposeContext
    BY <1>i, <2>2 DEF DisposeContext, Disposed, NotDisposed, Forward, PastSessions, TypeOK
  <2>3. ASSUME NEW p \in Pages, VisitPage(p) \/ LeavePage(p) PROVE Forward
    BY <1>i, <2>3 DEF VisitPage, LeavePage, Forward, PastSessions, TypeOK
  <2> QED BY <1>3, <2>1, <2>2, <2>3 DEF SessionRuns
<1>4. CASE RuntimeRuns
  <2>1. CASE CloseLiveSession
    <3>1. ~Upgradable => session \in {"open", "closed"} /\ handle = "dropped"
      BY <1>i DEF Upgradable, TypeOK
    <3> QED BY <1>i, <2>1, <3>1 DEF CloseLiveSession, Forward, PastSessions, TypeOK
  <2>2. CASE DrainRuntime \/ EndTargets
    BY <1>i, <2>2 DEF DrainRuntime, EndTargets, Forward, PastSessions, TypeOK
  <2>3. CASE CleanContext
    BY <1>i, <2>3 DEF CleanContext, Disposed, NotDisposed, Forward, PastSessions, TypeOK
  <2>4. ASSUME NEW p \in Pages, CleanTarget(p) PROVE Forward
    BY <1>u, <2>4 DEF CleanTarget, closers
  <2> QED BY <1>4, <2>1, <2>2, <2>3, <2>4 DEF RuntimeRuns
<1>5. CASE Calls
  <2>1. CASE CloseSession \/ CloseRuntime
    BY <1>i, <2>1 DEF CloseSession, CloseRuntime, Forward, PastSessions, TypeOK
  <2>2. CASE Calls /\ ~CloseSession /\ ~CloseRuntime
    BY <1>u, <2>2 DEF Calls, DropHandle, NewPage, Cancel, BeginOperation, ClosePage, DestroyTarget, closers
  <2> QED BY <1>5, <2>1, <2>2
<1>6. CASE UNCHANGED vars
  BY <1>u, <1>6 DEF vars, closers
<1> QED BY <1>1, <1>2, <1>3, <1>4, <1>5, <1>6 DEF Next

(* A page is closed with its target, or by the runtime's leave.            *)
LEMMA StepClosed == TreeInvariant /\ [Next]_vars => ClosedPages'
<1> SUFFICES ASSUME TreeInvariant, [Next]_vars PROVE ClosedPages'
  OBVIOUS
<1>i. /\ TypeOK /\ ClosedPages /\ CreationProgress /\ Forward /\ options' = options
      /\ \A q \in Pages : PageMoves(q) /\ PageLeaves(q)
  BY StepForward, StepPages, StepKeeps DEF TreeInvariant
<1>t. \A q \in Pages : target[q] = "gone" => target'[q] = "gone"
  BY StepTargets DEF TargetStep, Arrives, TreeInvariant, CreationProgress
<1>1. (PastSessions => session = "closed" \/ (session = "open" /\ handle = "dropped"))'
  BY <1>i DEF Forward, ClosedPages, PastSessions
<1>2. ASSUME NEW p \in Pages, page'[p] = "closed"
      PROVE  target'[p] = "gone" \/ (~Isolated /\ PastSessions')
  BY <1>i, <1>t, <1>2 DEF PageMoves, Forward, ClosedPages
<1>3. ASSUME NEW p \in Pages, ~Isolated, ~PastSessions', page'[p] \in {"open", "drain", "act"}
      PROVE  registry'[p] = "retained"
  <2>1. ~PastSessions
    BY <1>i, <1>3 DEF Forward
  <2>2. CASE page[p] = "none"
    BY <1>i, <1>3, <2>2 DEF PageMoves
  <2>3. CASE page[p] \in {"open", "drain", "act"}
    BY <1>i, <1>3, <2>1, <2>3 DEF PageLeaves, ClosedPages
  <2>4. page[p] \in {"none", "open", "drain", "act"}
    BY <1>i, <1>3 DEF PageMoves
  <2> QED BY <2>2, <2>3, <2>4
<1> QED BY <1>i, <1>1, <1>2, <1>3 DEF ClosedPages, Isolated

-----------------------------------------------------------------------------
(* Every published page is still to be visited, being visited, closed or   *)
(* reported.                                                               *)
LEMMA StepProgress == TreeInvariant /\ [Next]_vars => CloseProgress'
<1> SUFFICES ASSUME TreeInvariant, [Next]_vars PROVE CloseProgress'
  OBVIOUS
<1>i. /\ TypeOK /\ CloseProgress /\ CleanupFollowsOperations /\ ContextProgress /\ Forward
      /\ options' = options /\ \A q \in Pages : PageMoves(q) /\ PageLeaves(q)
  BY StepForward, StepPages, StepKeeps DEF TreeInvariant
<1>n. ASSUME NEW q \in Pages, page'[q] # "none", page[q] = "none"
      PROVE  session \in {"open", "drain"} /\ (session = "drain" => q \in pages') /\ q \in pages'
  BY <1>i, <1>n DEF PageMoves, CleanupFollowsOperations, TypeOK
<1>o. ASSUME NEW q \in Pages, page[q] = "closed" PROVE page'[q] = "closed"
  BY <1>i, <1>o DEF PageMoves
<1>k. ASSUME UNCHANGED session, session = "sweep" => UNCHANGED sweep,
             session = "pages" => \A q \in Pages : q \in sweep \/ visit = q =>
               q \in sweep' \cup failed' \/ visit' = q \/ page'[q] = "closed"
      PROVE  CloseProgress'
  <2>1. ASSUME NEW q \in Pages, page'[q] # "none", session \in {"open", "drain"}
        PROVE  q \in pages' \/ page'[q] = "closed"
    BY <1>i, <1>k, <1>n, <1>o, <2>1 DEF CloseProgress, PageLeaves
  <2>2. ASSUME NEW q \in Pages, page'[q] # "none", session = "sweep"
        PROVE  q \in sweep' \/ page'[q] = "closed"
    BY <1>i, <1>k, <1>n, <1>o, <2>2 DEF CloseProgress
  <2>3. ASSUME NEW q \in Pages, page'[q] # "none", session = "pages", ~Isolated
        PROVE  q \in sweep' \cup failed' \/ visit' = q \/ page'[q] = "closed"
    BY <1>i, <1>k, <1>n, <1>o, <2>3 DEF CloseProgress, Forward
  <2>4. ASSUME NEW q \in Pages, page'[q] # "none", session = "end", ~Isolated
        PROVE  q \in failed' \/ page'[q] = "closed"
    BY <1>i, <1>n, <1>o, <2>4 DEF CloseProgress, Forward
  <2>5. Isolated /\ session \in {"mark", "end", "closed"} => context' = "gone" \/ Context \in failed'
    BY <1>i DEF CloseProgress, Forward
  <2> QED BY <1>i, <1>k, <2>1, <2>2, <2>3, <2>4, <2>5 DEF CloseProgress, Isolated
<1>1. ASSUME NEW p \in Pages, CreationRuns(p) \/ PageRuns(p) PROVE CloseProgress'
  BY <1>k, <1>1 DEF CreationRuns, TakeLock, ChromeCreates, CreateFails, Deliver, Receive, Initialize,
     Fail, Publish, CleanupCreation, RunScheduled, PageRuns, EndOperation, DrainPage, FinishClose,
     FinishGone, closers
<1>2. CASE WatcherRuns
  BY <1>k, <1>2 DEF WatcherRuns, ReadEvent, LookUp, Watched, closers
<1>3. CASE SessionRuns
  <2>1. CASE DrainSession
    <3>1. session = "drain" /\ session' = "sweep" /\ sweep' = pages /\ UNCHANGED page
      BY <2>1 DEF DrainSession, paged
    <3> QED BY <1>i, <3>1 DEF CloseProgress, Isolated
  <2>2. CASE SweepPending
    <3>1. session = "sweep" /\ session' \in {"pages", "context"} /\ UNCHANGED <<page, sweep>>
      BY <2>2 DEF SweepPending, paged
    <3> QED BY <1>i, <3>1 DEF CloseProgress, Isolated
  <2>3. CASE EndVisits
    <3>1. /\ visit = NoPage /\ sweep = {} /\ UNCHANGED <<page, failed, context>>
          /\ \/ session = "pages" /\ Isolated /\ session' = "context"
             \/ session = "pages" /\ ~Isolated /\ session' = "end"
             \/ session = "mark" /\ session' = "end"
      BY <2>3 DEF EndVisits, paged
    <3>2. session = "mark" => Isolated
      BY <1>i DEF ContextProgress
    <3> QED BY <1>i, <3>1, <3>2, TreeAssumption DEF CloseProgress, Isolated, TreeAssumption
  <2>4. CASE DisposeContext
    <3>1. /\ session = "context" /\ session' \in {"mark", "end"}
          /\ context' = "gone" \/ Context \in failed'
      BY <2>4 DEF DisposeContext, Disposed, NotDisposed
    <3> QED BY <1>i, <3>1 DEF CloseProgress, ContextProgress, Isolated
  <2>5. CASE EndSession
    <3>1. session = "end" /\ session' = "closed" /\ UNCHANGED <<context, failed>>
      BY <2>5 DEF EndSession
    <3> QED BY <1>i, <3>1 DEF CloseProgress, Isolated
  <2>6. ASSUME NEW p \in Pages, VisitPage(p) PROVE CloseProgress'
    <3>1. session \in {"pages", "mark"} /\ UNCHANGED session /\ visit = NoPage /\ visit' = p
          /\ sweep' = sweep \ {p}
      BY <2>6 DEF VisitPage
    <3> QED BY <1>k, <3>1, TreeAssumption DEF TreeAssumption
  <2>7. ASSUME NEW p \in Pages, LeavePage(p) PROVE CloseProgress'
    <3>1. /\ UNCHANGED <<session, sweep, page>> /\ visit = p
          /\ page[p] = "closed" \/ p \in failed'
      BY <2>7 DEF LeavePage, Finished, paged
    <3> QED BY <1>k, <3>1
  <2> QED BY <1>3, <2>1, <2>2, <2>3, <2>4, <2>5, <2>6, <2>7 DEF SessionRuns
<1>s. ASSUME session = "open", session' = "drain", UNCHANGED <<page, pages>> PROVE CloseProgress'
  BY <1>i, <1>s DEF CloseProgress, Isolated
<1>4. CASE RuntimeRuns
  BY <1>k, <1>s, <1>4 DEF RuntimeRuns, DrainRuntime, CloseLiveSession, EndTargets, CleanContext,
     CleanTarget, closers, paged
<1>5. CASE Calls
  <2>1. CASE CloseSession
    BY <1>s, <2>1 DEF CloseSession, paged
  <2>2. CASE Calls /\ ~CloseSession
    BY <1>k, <2>2 DEF Calls, DropHandle, CloseRuntime, NewPage, Cancel, BeginOperation, ClosePage,
       DestroyTarget, closers
  <2> QED BY <1>5, <2>1, <2>2
<1>6. CASE UNCHANGED vars
  BY <1>k, <1>6 DEF vars, closers
<1> QED BY <1>1, <1>2, <1>3, <1>4, <1>5, <1>6 DEF Next

(* A report is complete when the session ends, and stays true.             *)
LEMMA StepHonest == TreeInvariant /\ [Next]_vars => CompleteCloseIsHonest'
<1> SUFFICES ASSUME TreeInvariant, [Next]_vars, session' = "closed", failed' = {},
                    NEW p \in Pages, page'[p] # "none"
             PROVE  target'[p] = "gone"
  BY DEF CompleteCloseIsHonest
<1>i. /\ TypeOK /\ CloseProgress /\ CleanupFollowsOperations /\ ContextProgress /\ Forward
      /\ CreationProgress /\ CompleteCloseIsHonest /\ ClosedPages /\ PageMoves(p)
  BY StepForward, StepPages DEF TreeInvariant
<1>t. target[p] = "gone" => target'[p] = "gone"
  BY <1>i, StepTargets DEF TargetStep, Arrives, CreationProgress
<1>1. session \in {"end", "closed"} /\ (session = "end" => UNCHANGED <<page, failed>>)
  <2>1. CASE SessionRuns
    BY <2>1 DEF SessionRuns, DrainSession, SweepPending, EndVisits, DisposeContext, EndSession,
       VisitPage, LeavePage
  <2>2. CASE RuntimeRuns
    BY <2>2 DEF RuntimeRuns, DrainRuntime, CloseLiveSession, EndTargets, CleanContext, CleanTarget, closers
  <2>3. CASE Calls
    BY <2>3 DEF Calls, DropHandle, CloseSession, CloseRuntime, NewPage, Cancel, BeginOperation, ClosePage,
       DestroyTarget, closers
  <2>4. ASSUME NEW q \in Pages, CreationRuns(q) \/ PageRuns(q) PROVE session = "closed"
    BY <2>4 DEF CreationRuns, TakeLock, ChromeCreates, CreateFails, Deliver, Receive, Initialize,
       Fail, Publish, CleanupCreation, RunScheduled, PageRuns, EndOperation, DrainPage, FinishClose,
       FinishGone, closers
  <2>5. CASE WatcherRuns
    BY <2>5 DEF WatcherRuns, ReadEvent, LookUp, Watched, closers
  <2>6. CASE UNCHANGED vars
    BY <2>6 DEF vars, closers
  <2> QED BY <2>1, <2>2, <2>3, <2>4, <2>5, <2>6 DEF Next
<1>2. page[p] # "none" /\ failed = {}
  BY <1>i, <1>1 DEF PageMoves, CleanupFollowsOperations, Forward
<1>3. CASE session = "closed"
  BY <1>i, <1>t, <1>2, <1>3 DEF CompleteCloseIsHonest
<1>4. CASE session = "end" /\ Isolated
  BY <1>i, <1>t, <1>2, <1>4 DEF CloseProgress, ContextProgress, CreationProgress, TypeOK
<1>5. CASE session = "end" /\ ~Isolated
  BY <1>i, <1>t, <1>2, <1>5 DEF CloseProgress, ClosedPages
<1> QED BY <1>1, <1>3, <1>4, <1>5

-----------------------------------------------------------------------------
LEMMA InitTree == Init => TreeInvariant
<1> SUFFICES ASSUME Init PROVE TreeInvariant
  OBVIOUS
<1>1. TypeOK
  <2>1. events \in Seq([kind : {"created", "destroyed"}, page : Pages])
    BY EmptySeq DEF Init
  <2>2. op \in [Pages -> OpStates]
    BY DEF Init, OpStates
  <2> QED BY <2>1, <2>2 DEF Init, TypeOK
<1>2. CleanupFollowsOperations /\ OwnershipRetained
  BY DEF Init, CleanupFollowsOperations, OwnershipRetained
<1>3. CreationProgress
  BY DEF Init, CreationProgress
<1>4. DestroyedIsGone
  <2>1. Len(events) = 0
    BY DEF Init
  <2> QED BY <2>1, TreeAssumption DEF Init, DestroyedIsGone, TreeAssumption
<1>5. ContextProgress /\ ClosedPages /\ CloseProgress /\ CompleteCloseIsHonest
  BY DEF Init, ContextProgress, ClosedPages, CloseProgress, CompleteCloseIsHonest, PastSessions, Isolated
<1> QED BY <1>1, <1>2, <1>3, <1>4, <1>5 DEF TreeInvariant

LEMMA StepTree == TreeInvariant /\ [Next]_vars => TreeInvariant'
BY StepTypes, StepFollows, StepOwnership, StepCreation, StepDestroyed, StepContext, StepClosed,
   StepProgress, StepHonest
DEF TreeInvariant

(* The invariant behind the theorems below.                                *)
THEOREM TreeAlways == Spec => []TreeInvariant
BY InitTree, StepTree, PTL DEF Spec

(* Every level of the tree stays in its states.                            *)
THEOREM TreeTypeCorrect == Spec => []TypeOK
BY TreeAlways, PTL DEF TreeInvariant

(* No level is cleaned up while an operation or the rollback of a page     *)
(* creation holds its permits: BrowserRuntime::close, BrowserSession::close *)
(* and Page::close.                                                        *)
THEOREM CleanupWaits == Spec => []CleanupFollowsOperations
BY TreeAlways, PTL DEF TreeInvariant

(* A live target that this code created is owned by a registry, a context, *)
(* the ledger or the reader of a report, whoever was aborted.              *)
THEOREM TargetsAreOwned == Spec => []OwnershipRetained
BY TreeAlways, PTL DEF TreeInvariant

(* BrowserSession::close without a failure has closed every page's target. *)
THEOREM SessionReportIsHonest == Spec => []CompleteCloseIsHonest
BY TreeAlways, PTL DEF TreeInvariant

-----------------------------------------------------------------------------
(* The runtime's close, when no handle of a default session is dropped.    *)

LEMMA InitRuntime == Init => RuntimeProgress
BY DEF Init, RuntimeProgress

LEMMA StepRuntime ==
  ASSUME DefaultHandleKept
  PROVE  TreeInvariant /\ RuntimeProgress /\ [Next]_vars => RuntimeProgress'
<1> SUFFICES ASSUME TreeInvariant, RuntimeProgress, [Next]_vars PROVE RuntimeProgress'
  OBVIOUS
<1>i. /\ TypeOK /\ CleanupFollowsOperations /\ CreationProgress /\ ContextProgress
      /\ options' = options
  BY StepKeeps DEF TreeInvariant
<1>q. runtime \in {"contexts", "closed"} => \A q \in Pages : ~Creating(q) /\ q \notin waiting
  <2>1. \A q \in Pages : q \in waiting => Creating(q)
    BY <1>i DEF CreationProgress, Creating, TypeOK
  <2> QED BY <1>i, <2>1 DEF CleanupFollowsOperations
<1>k. ASSUME UNCHANGED <<handle, session, ledger, runtime, context>>,
             \/ runtime \notin {"contexts", "closed"}
             \/ \A q \in Pages : registry'[q] = registry[q] \/ registry'[q] = "none"
      PROVE  RuntimeProgress'
  BY <1>i, <1>k DEF RuntimeProgress, Isolated
<1>1. ASSUME NEW p \in Pages, CreationRuns(p) PROVE RuntimeProgress'
  <2>1. CASE CleanupCreation(p)
    <3>1. Creating(p) /\ UNCHANGED <<handle, session, runtime, context>>
      BY <2>1 DEF CleanupCreation, Creating, OpStates, closers
    <3>2. session \in {"open", "drain"} /\ runtime \notin {"contexts", "closed"}
      BY <1>i, <3>1 DEF CleanupFollowsOperations, TypeOK
    <3> QED BY <1>i, <3>1, <3>2 DEF RuntimeProgress, Isolated
  <2>2. CASE RunScheduled(p)
    <3>1. /\ registry[p] = "scheduled" /\ UNCHANGED <<handle, session, runtime, context, ledger>>
          /\ registry' \in {[registry EXCEPT ![p] = "none"], [registry EXCEPT ![p] = "failed"]}
      BY <2>2 DEF RunScheduled, closers
    <3> QED BY <1>i, <3>1 DEF RuntimeProgress, Isolated
  <2>3. CASE CreationRuns(p) /\ ~CleanupCreation(p) /\ ~RunScheduled(p)
    <3>1. UNCHANGED <<handle, session, ledger, runtime, context>>
      BY <2>3 DEF CreationRuns, TakeLock, ChromeCreates, CreateFails, Deliver, Receive, Initialize, Fail,
         Publish, closers
    <3>2. UNCHANGED registry \/ Creating(p)
      BY <2>3 DEF CreationRuns, TakeLock, ChromeCreates, CreateFails, Deliver, Receive, Initialize, Fail,
         Publish, Creating, OpStates
    <3> QED BY <1>q, <1>k, <3>1, <3>2
  <2> QED BY <1>1, <2>1, <2>2, <2>3
<1>2. ASSUME NEW p \in Pages, PageRuns(p) PROVE RuntimeProgress'
  <2>1. UNCHANGED <<handle, session, ledger, runtime, context>>
        /\ (UNCHANGED registry \/ registry' = [registry EXCEPT ![p] = "none"])
    BY <1>2 DEF PageRuns, EndOperation, DrainPage, FinishClose, FinishGone, closers
  <2> QED BY <1>i, <1>k, <2>1 DEF TypeOK
<1>3. CASE WatcherRuns
  BY <1>k, <1>3 DEF WatcherRuns, ReadEvent, LookUp, Watched, closers
<1>4. CASE SessionRuns
  <2>1. CASE DrainSession
    BY <1>i, <2>1 DEF DrainSession, RuntimeProgress, Isolated, creation
  <2>2. CASE SweepPending
    <3>1. /\ UNCHANGED <<handle, runtime, context, ledger>> /\ session = "sweep"
          /\ Isolated \/ UNCHANGED registry
      BY <2>2 DEF SweepPending
    <3> QED BY <1>i, <3>1 DEF RuntimeProgress, Isolated
  <2>3. CASE DisposeContext
    <3>1. /\ UNCHANGED <<handle, runtime, ledger, registry>> /\ session = "context"
          /\ context' \in {"gone", "failed"}
      BY <2>3 DEF DisposeContext, Disposed, NotDisposed
    <3> QED BY <1>i, <3>1 DEF RuntimeProgress, Isolated
  <2>4. CASE EndVisits \/ EndSession \/ \E p \in Pages : VisitPage(p) \/ LeavePage(p)
    <3>1. /\ UNCHANGED <<handle, runtime, ledger, registry, context>>
          /\ session \in {"open", "drain"} => session' = session
      BY <2>4 DEF EndVisits, EndSession, VisitPage, LeavePage
    <3> QED BY <1>i, <3>1 DEF RuntimeProgress, Isolated
  <2> QED BY <1>4, <2>1, <2>2, <2>3, <2>4 DEF SessionRuns
<1>5. CASE RuntimeRuns
  <2>1. CASE DrainRuntime \/ CloseLiveSession
    <3>1. /\ UNCHANGED <<handle, ledger, registry, context>> /\ runtime' \notin {"contexts", "closed"}
          /\ session' = session \/ session' = "drain"
      BY <2>1 DEF DrainRuntime, CloseLiveSession
    <3> QED BY <1>i, <3>1 DEF RuntimeProgress, Isolated
  <2>2. CASE EndTargets
    <3>1. /\ UNCHANGED <<handle, ledger, registry, context, session>> /\ runtime' = "contexts"
          /\ ~Isolated => \A q \in Pages : registry[q] = "none"
      BY <2>2 DEF EndTargets
    <3> QED BY <1>i, <3>1 DEF RuntimeProgress, Isolated
  <2>3. CASE CleanContext
    <3>1. /\ UNCHANGED <<handle, ledger, registry, session>> /\ runtime = "contexts"
          /\ context' \in {"gone", "failed"} \/ (context # "alive" /\ UNCHANGED context)
      BY <2>3 DEF CleanContext, Disposed, NotDisposed
    <3>2. Isolated => context' \in {"gone", "failed"}
      BY <1>i, <3>1 DEF ContextProgress, TypeOK
    <3> QED BY <1>i, <3>1, <3>2 DEF RuntimeProgress, Isolated
  <2>4. ASSUME NEW p \in Pages, CleanTarget(p) PROVE RuntimeProgress'
    BY <1>k, <2>4 DEF CleanTarget, closers
  <2> QED BY <1>5, <2>1, <2>2, <2>3, <2>4 DEF RuntimeRuns
<1>6. CASE Calls
  <2>1. CASE DropHandle
    <3>1. Isolated
      BY <1>i, <2>1, TreeAssumption
      DEF DropHandle, DefaultHandleKept, Isolated, TypeOK, TreeAssumption, SessionOptions
    <3>2. UNCHANGED <<session, ledger, runtime, context, registry>>
      BY <2>1 DEF DropHandle
    <3> QED BY <1>i, <3>1, <3>2 DEF RuntimeProgress, Isolated
  <2>2. CASE CloseSession \/ CloseRuntime
    <3>1. /\ UNCHANGED <<handle, ledger, context, registry>>
          /\ session' \in {session, "drain"} /\ runtime' \in {runtime, "drain"}
      BY <2>2 DEF CloseSession, CloseRuntime
    <3> QED BY <1>i, <3>1 DEF RuntimeProgress, Isolated
  <2>3. ASSUME NEW p \in Pages, Cancel(p) PROVE RuntimeProgress'
    BY <1>q, <1>k, <2>3 DEF Cancel, closers
  <2>4. ASSUME NEW p \in Pages, NewPage(p) \/ BeginOperation(p) \/ ClosePage(p) \/ DestroyTarget(p)
        PROVE  RuntimeProgress'
    BY <1>k, <2>4 DEF NewPage, BeginOperation, ClosePage, DestroyTarget, closers
  <2> QED BY <1>6, <2>1, <2>2, <2>3, <2>4 DEF Calls
<1>7. CASE UNCHANGED vars
  BY <1>k, <1>7 DEF vars, closers
<1> QED BY <1>1, <1>2, <1>3, <1>4, <1>5, <1>6, <1>7 DEF Next

(* "The root runtime retains remote ownership and cleans created targets": *)
(* a target that outlives BrowserRuntime::close is in somebody's report,   *)
(* provided that no handle of a default session is dropped.  Run           *)
(* tree_dropped shows that the proviso is needed.                          *)
THEOREM NoOrphanWhileHandlesLive == ASSUME DefaultHandleKept PROVE Spec => []NoSilentOrphan
<1>1. TreeInvariant /\ RuntimeProgress => NoSilentOrphan
  <2> SUFFICES ASSUME TreeInvariant, RuntimeProgress, runtime = "closed",
                      NEW p \in Pages, target[p] = "alive"
               PROVE  p \in surfaced \/ Context \in surfaced
    BY DEF NoSilentOrphan
  <2>i. /\ TypeOK /\ CleanupFollowsOperations /\ OwnershipRetained /\ CreationProgress
        /\ ContextProgress /\ ClosedPages
    BY DEF TreeInvariant
  <2>1. creator[p] = "delivered"
    BY <2>i DEF CreationProgress, CleanupFollowsOperations, Creating, TypeOK
  <2>2. CASE Isolated
    BY <2>i, <2>2 DEF RuntimeProgress, ContextProgress
  <2>3. CASE ~Isolated
    <3>1. registry[p] = "none" /\ context # "alive"
      BY <2>i, <2>3 DEF RuntimeProgress, ContextProgress
    <3>2. ledger = {}
      BY <2>i, <2>3 DEF RuntimeProgress, ClosedPages, PastSessions
    <3> QED BY <2>i, <2>1, <3>1, <3>2 DEF OwnershipRetained
  <2> QED BY <2>2, <2>3
<1>2. Init => TreeInvariant /\ RuntimeProgress
  BY InitTree, InitRuntime
<1>3. TreeInvariant /\ RuntimeProgress /\ [Next]_vars => (TreeInvariant /\ RuntimeProgress)'
  BY StepTree, StepRuntime
<1> QED BY <1>1, <1>2, <1>3, PTL DEF Spec
=============================================================================
