--------------------------- MODULE PageAttachProofs ---------------------------
(***************************************************************************)
(* Proof that a claimed popup is owned, that what was borrowed is left      *)
(* alone and that attachments are accounted for, for every number of        *)
(* targets, expectations and calls of attach_page.                          *)
(*                                                                          *)
(* The properties relate Chrome's targets to registrations, pages and what  *)
(* a session's close has behind it.  The invariant says of each call which  *)
(* registrations it has at each place, of each entry whose it is, of each   *)
(* page how its close runs, and of the session what can no longer happen.   *)
(***************************************************************************)
EXTENDS PageAttach, FiniteSetTheorems, SequenceTheorems, TLAPS

Ending == session \notin {"open", "drain"}

(* What Chrome has told: no target of an event is absent, one that is       *)
(* reported destroyed is gone.                                              *)
EventsAreTrue ==
  /\ \A i \in 1 .. Len(events) :
       /\ target[events[i][2]] # "absent"
       /\ events[i][1] = "destroyed" => target[events[i][2]] = "gone"
  /\ \A e \in Expectations : \A i \in 1 .. Len(heard[e]) : target[heard[e][i]] # "absent"
  /\ watcher[1] = "look" => watcher[2] \in Targets /\ target[watcher[2]] = "gone"

(* The goal of a call, and what it cannot have before it has one.           *)
GoalsAreSet ==
  \A x \in Procs :
    /\ goal[x] = Nobody =>
         /\ attachment[x] = "none"
         /\ guard["page"][x] = "none" /\ guard["page-attachment"][x] = "none"
    /\ pc[x] \in {"idle", "act", "listen"} => goal[x] = Nobody
    /\ pc[x] \in Locked \cup {"want", "undeliver"} => goal[x] # Nobody
    /\ goal[x] # Nobody => target[goal[x]] # "absent"

(* An entry is of a registration in force for its target; only expectations *)
(* register targets.                                                        *)
EntriesAreGuarded ==
  \A r \in Resources, t \in Targets :
    entry[r][t] # Nobody =>
      /\ goal[entry[r][t]] = t
      /\ guard[r][entry[r][t]] \in {"armed", "scheduled"}
      /\ r = "page" => entry[r][t] \in Expectations

(* Registrations, by the place of their call.                               *)
GuardsAreHeld ==
  \A x \in Procs :
    /\ guard["page"][x] # "none" => x \in Expectations
    /\ guard["page"][x] = "armed" => pc[x] \in Locked \cup {"want"}
    /\ x \in Expectations /\ pc[x] \in Locked \cup {"want"} => guard["page"][x] = "armed"
    /\ guard["page"][x] = "failed" => goal[x] \in refused
    /\ guard["page-attachment"][x] = "armed" => pc[x] \in {"frames", "routes", "detach"}
    /\ guard["page-attachment"][x] \in {"armed", "scheduled"} =>
         entry["page-attachment"][goal[x]] = x \/ x \in replaced

(* The lock: nobody publishes a target between look-up and publication.     *)
LockExcludes == \A x \in Procs : pc[x] \in Locked => lock = x /\ goal[x] \notin pages

(* A page, and the stages of its close.                                     *)
PagesAreWhole ==
  \A t \in Targets :
    /\ page[t] \in {"open", "closing", "failed"} <=> t \in pages
    /\ page[t] = "open" => body[t] = "none"
    /\ t \in pages => via[t] # Nobody /\ goal[via[t]] = t
    /\ own[t] = "Created" => Claimed(t)
    /\ body[t] = "target" => own[t] = "Created"
    /\ body[t] \in {"destroyed", "session"} => target[t] = "gone"
    /\ kind = "Default" /\ t \in pages /\ own[t] = "Created" =>
         t \in retained \/ body[t] = "target"

(* What a session's close has behind it.                                    *)
CloseInOrder ==
  /\ Ending => \A x \in Procs : ~Holds(x)
  /\ session \in {"open", "drain", "sweep"} => failed = {} /\ visit = Nobody
  /\ session \notin {"open", "drain", "sweep"} =>
       \A r \in Resources, t \in Targets : entry[r][t] = Nobody
  /\ Ending => \A t \in pages : t \in sweep \cup failed \/ t = visit
  /\ session = "end" => failed # {}
  /\ session = "closed" /\ failed = {} => pages = {}

(* The BrowserContext of an isolated session, and when it is gone.          *)
ContextHolds ==
  /\ kind = "Isolated" => context \in {"alive", "failed", "gone"}
  /\ kind = "Default" => session \notin {"context", "mark"}
  /\ session \in {"open", "drain", "sweep", "pages", "context"} => context # "gone"
  /\ session = "mark" => context = "gone"
  /\ context = "gone" => \A x \in Procs : goal[x] # Nobody => target[goal[x]] = "gone"

(* A CDP session has its registration, its page or an excuse.               *)
AttachmentsAreKnown ==
  \A x \in Procs :
    attachment[x] = "live" /\ target[goal[x]] = "alive" =>
      \/ x \in replaced \cup refused
      \/ entry["page-attachment"][goal[x]] = x
      \/ goal[x] \in pages /\ via[goal[x]] = x

IInv ==
  /\ TypeOK /\ EventsAreTrue /\ GoalsAreSet /\ EntriesAreGuarded /\ GuardsAreHeld
  /\ LockExcludes /\ PagesAreWhole /\ CloseInOrder /\ ContextHolds /\ AttachmentsAreKnown
  /\ ClaimedPopupIsOwned

-----------------------------------------------------------------------------
(* Operators of the model.                                                  *)

(* Nobody is no call and no target; a call is one of two kinds.             *)
LEMMA Apart ==
  /\ Nobody \notin Procs /\ Nobody \notin Targets
  /\ Expectations \subseteq Procs /\ Attachers \subseteq Procs
  /\ \A a \in Attachers : a \notin Expectations
BY AttachAssumption DEF AttachAssumption, Procs

(* An announcement is the last event, unless nobody listens any more.       *)
LEMMA AnnouncedLast ==
  ASSUME TypeOK, NEW k \in {"created", "destroyed"}, NEW t \in Targets
  PROVE  /\ Announced(k, t) \in Seq({"created", "destroyed"} \X Targets)
         /\ \A i \in 1 .. Len(Announced(k, t)) :
              \/ Announced(k, t)[i] = <<k, t>>
              \/ i \in 1 .. Len(events) /\ Announced(k, t)[i] = events[i]
<1> DEFINE Events == {"created", "destroyed"} \X Targets
<1>1. events \in Seq(Events) /\ <<k, t>> \in Events
  BY DEF TypeOK
<1> HIDE DEF Events
<1>2. /\ Append(events, <<k, t>>) \in Seq(Events)
      /\ Len(Append(events, <<k, t>>)) = Len(events) + 1
      /\ \A i \in 1 .. Len(events) + 1 :
           Append(events, <<k, t>>)[i] = IF i <= Len(events) THEN events[i] ELSE <<k, t>>
  BY <1>1
<1>3. Len(events) \in Nat
  BY <1>1
<1> QED BY <1>1, <1>2, <1>3 DEF Announced, Events

(* What a step that asks Chrome to close t does: t is gone and told so, or  *)
(* the failure is known.                                                    *)
AsksToClose(t) ==
  /\ target' \in [Targets -> {"absent", "alive", "gone"}]
  /\ events' \in Seq({"created", "destroyed"} \X Targets)
  /\ refused \subseteq refused' /\ refused' \subseteq Targets \cup Procs
  /\ \A u \in Targets : target'[u] = target[u] \/ target'[u] = "gone"
  /\ target'[t] = "gone" \/ t \in refused'
  /\ \A i \in 1 .. Len(events') :
       \/ events'[i] = <<"destroyed", t>> /\ target'[t] = "gone"
       \/ i \in 1 .. Len(events) /\ events'[i] = events[i]

(* Both answers to a close are such a step.                                 *)
LEMMA ClosingTells ==
  ASSUME TypeOK, NEW t \in Targets, CloseSucceeds(t) \/ CloseFails(t)
  PROVE  AsksToClose(t)
<1>1. CASE CloseSucceeds(t)
  <2>1. /\ target' \in [Targets -> {"absent", "alive", "gone"}]
        /\ target'[t] = "gone" /\ \A u \in Targets : u # t => target'[u] = target[u]
    BY <1>1 DEF CloseSucceeds, TypeOK
  <2>2. CASE target[t] = "alive"
    <3>1. events' = Announced("destroyed", t) /\ refused' = refused
      BY <1>1, <2>2 DEF CloseSucceeds
    <3>2. /\ events' \in Seq({"created", "destroyed"} \X Targets)
          /\ \A i \in 1 .. Len(events') :
               \/ events'[i] = <<"destroyed", t>>
               \/ i \in 1 .. Len(events) /\ events'[i] = events[i]
      BY <3>1, AnnouncedLast
    <3> QED BY <2>1, <3>1, <3>2 DEF TypeOK, AsksToClose
  <2>3. CASE target[t] # "alive"
    BY <1>1, <2>1, <2>3 DEF CloseSucceeds, TypeOK, AsksToClose
  <2> QED BY <2>2, <2>3
<1>2. CASE CloseFails(t)
  BY <1>2 DEF CloseFails, TypeOK, AsksToClose
<1> QED BY <1>1, <1>2

(* What the removal of a registration leaves: those of other calls.         *)
Removes(r, x) ==
  /\ entry' \in [Resources -> [Targets -> Procs \cup {Nobody}]]
  /\ \A q \in Resources, t \in Targets :
       entry'[q][t] = IF q = r /\ t = goal[x] /\ entry[r][t] = x THEN Nobody ELSE entry[q][t]

LEMMA RemovedOnly ==
  ASSUME TypeOK, NEW r \in Resources, NEW x \in Procs, goal[x] \in Targets,
         entry' = Removed(r, x)
  PROVE  Removes(r, x)
BY DEF Removed, TypeOK, Removes

(* What the end of a background cleanup leaves.                             *)
Cleans(r, x) ==
  /\ Removes(r, x) /\ guard[r][x] = "scheduled"
  /\ guard' \in [Resources -> [Procs -> {"none", "armed", "scheduled", "failed"}]]
  /\ guard'[r][x] \in {"none", "failed"}
  /\ \A q \in Resources, y \in Procs : q # r \/ y # x => guard'[q][y] = guard[q][y]

LEMMA CleanedOnly ==
  ASSUME TypeOK, NEW r \in Resources, NEW x \in Procs, goal[x] \in Targets,
         NEW ok \in BOOLEAN, Cleaned(r, x, ok)
  PROVE  Cleans(r, x) /\ (ok => guard'[r][x] = "none")
<1>1. Removes(r, x)
  BY RemovedOnly DEF Cleaned
<1> QED BY <1>1 DEF Cleaned, TypeOK, Cleans

(* What DisposeBrowserContext does to the targets, and what is told of it.  *)
Disposes ==
  \/ /\ context' = "gone" /\ session' = "mark" /\ failed' = failed
     /\ target' \in [Targets -> {"absent", "alive", "gone"}]
     /\ \A t \in Targets : target'[t] = IF target[t] = "alive" THEN "gone" ELSE target[t]
     /\ events' \in Seq({"created", "destroyed"} \X Targets)
     /\ \A i \in 1 .. Len(events') :
          \/ i \in 1 .. Len(events) /\ events'[i] = events[i]
          \/ events'[i][2] \in Targets /\ target'[events'[i][2]] = "gone"
  \/ /\ context' = "failed" /\ session' = "end" /\ failed' = failed \cup {Context}
     /\ UNCHANGED <<target, events>>

LEMMA DisposalTells ==
  ASSUME TypeOK, DisposeContext
  PROVE  Disposes
<1> DEFINE dying == {t \in Targets : target[t] = "alive"}
           Events == {"created", "destroyed"} \X Targets
<1>1. CASE context' = "gone"
  <2>1. Cardinality(dying) \in Nat
    BY AttachAssumption, FS_Subset, FS_CardinalityType DEF AttachAssumption
  <2>2. PICK order \in [1 .. Cardinality(dying) -> dying] :
          events' = events \o [i \in DOMAIN order |-> <<"destroyed", order[i]>>]
    BY <1>1 DEF DisposeContext
  <2> DEFINE n == Cardinality(dying)
             more == [i \in 1 .. n |-> <<"destroyed", order[i]>>]
  <2>3. events' = events \o more
    BY <2>2
  <2>4. /\ \A i \in 1 .. n : more[i] \in Events /\ more[i][2] \in dying
        /\ more \in [1 .. n -> Events] /\ events \in Seq(Events)
    BY <2>2 DEF TypeOK
  <2>5. /\ target' \in [Targets -> {"absent", "alive", "gone"}]
        /\ \A t \in Targets : target'[t] = IF target[t] = "alive" THEN "gone" ELSE target[t]
        /\ session' = "mark" /\ failed' = failed
    BY <1>1 DEF DisposeContext, TypeOK
  <2> HIDE DEF Events, n, more
  <2>6. more \in Seq(Events) /\ Len(more) = n
    BY <2>1, <2>4 DEF n
  <2>7. /\ events \o more \in Seq(Events) /\ Len(events \o more) = Len(events) + Len(more)
        /\ \A i \in 1 .. Len(events) + Len(more) :
             (events \o more)[i] = IF i <= Len(events) THEN events[i] ELSE more[i - Len(events)]
    BY <2>4, <2>6, ConcatProperties
  <2>8. Len(events) \in Nat /\ n \in Nat
    BY <2>1, <2>4 DEF n
  <2>9. ASSUME NEW i \in 1 .. Len(events')
        PROVE  \/ i \in 1 .. Len(events) /\ events'[i] = events[i]
               \/ events'[i][2] \in dying
    <3>1. CASE i <= Len(events)
      BY <2>3, <2>6, <2>7, <2>8, <3>1
    <3>2. CASE i > Len(events)
      <4>1. i - Len(events) \in 1 .. n /\ events'[i] = more[i - Len(events)]
        BY <2>3, <2>6, <2>7, <2>8, <3>2
      <4> QED BY <2>4, <4>1
    <3> QED BY <2>8, <3>1, <3>2
  <2>10. events' \in Seq(Events)
    BY <2>3, <2>7
  <2> QED BY <1>1, <2>5, <2>9, <2>10 DEF Disposes, Events
<1>2. CASE context' # "gone"
  BY <1>2 DEF DisposeContext, Disposes
<1> QED BY <1>1, <1>2

(* What reading an event leaves of the queue and tells the expectations.    *)
Reads ==
  /\ events' \in Seq({"created", "destroyed"} \X Targets)
  /\ \A i \in 1 .. Len(events') : i + 1 \in 1 .. Len(events) /\ events'[i] = events[i + 1]
  /\ 1 \in 1 .. Len(events) /\ events[1] \in {"created", "destroyed"} \X Targets
  /\ heard' \in [Expectations -> Seq(Targets)]
  /\ \A e \in Expectations : \A i \in 1 .. Len(heard'[e]) :
       \/ heard'[e][i] = events[1][2]
       \/ i \in 1 .. Len(heard[e]) /\ heard'[e][i] = heard[e][i]
  /\ \/ UNCHANGED watcher
     \/ events[1][1] = "destroyed" /\ watcher' = <<"look", events[1][2]>>

LEMMA ReadingTells ==
  ASSUME TypeOK, ReadEvent
  PROVE  Reads
<1> DEFINE Events == {"created", "destroyed"} \X Targets
<1>1. events \in Seq(Events) /\ events # <<>>
  BY DEF TypeOK, ReadEvent
<1>2. events[1] \in Events => events[1][2] \in Targets
  OBVIOUS
<1> HIDE DEF Events
<1>3. /\ Tail(events) \in Seq(Events) /\ Len(Tail(events)) = Len(events) - 1
      /\ \A i \in 1 .. Len(Tail(events)) : Tail(events)[i] = events[i + 1]
      /\ Len(events) \in Nat /\ Len(events) > 0
      /\ Head(events) = events[1] /\ events[1] \in Events
  BY <1>1
<1>4. ASSUME NEW e \in Expectations
      PROVE  /\ heard'[e] \in Seq(Targets)
             /\ \A i \in 1 .. Len(heard'[e]) :
                  \/ heard'[e][i] = events[1][2]
                  \/ i \in 1 .. Len(heard[e]) /\ heard'[e][i] = heard[e][i]
  <2>1. heard[e] \in Seq(Targets) /\ Len(heard[e]) \in Nat
    BY DEF TypeOK
  <2>2. CASE heard'[e] = heard[e]
    BY <2>1, <2>2
  <2>3. CASE heard'[e] = Append(heard[e], events[1][2])
    <3>1. /\ Append(heard[e], events[1][2]) \in Seq(Targets)
          /\ Len(Append(heard[e], events[1][2])) = Len(heard[e]) + 1
          /\ \A i \in 1 .. Len(heard[e]) + 1 :
               Append(heard[e], events[1][2])[i] =
                 IF i <= Len(heard[e]) THEN heard[e][i] ELSE events[1][2]
      BY <1>2, <1>3, <2>1
    <3> QED BY <2>1, <2>3, <3>1
  <2> QED BY <1>3, <2>2, <2>3 DEF ReadEvent
<1>5. heard' = [e \in Expectations |-> heard'[e]]
  BY DEF ReadEvent, TypeOK
<1>6. heard' \in [Expectations -> Seq(Targets)]
  BY <1>4, <1>5
<1>7. /\ events' \in Seq(Events)
      /\ \A i \in 1 .. Len(events') : i + 1 \in 1 .. Len(events) /\ events'[i] = events[i + 1]
  BY <1>3 DEF ReadEvent
<1>8. \/ UNCHANGED watcher
      \/ events[1][1] = "destroyed" /\ watcher' = <<"look", events[1][2]>>
  BY <1>3 DEF ReadEvent, Events
<1>9. 1 \in 1 .. Len(events)
  BY <1>3
<1> QED BY <1>3, <1>4, <1>6, <1>7, <1>8, <1>9 DEF Reads, Events

(* What is told stays true, when a target is closed and when an event is    *)
(* read.                                                                    *)
LEMMA ClosedEventsAreTrue ==
  ASSUME TypeOK, EventsAreTrue, NEW t \in Targets, AsksToClose(t), UNCHANGED <<heard, watcher>>
  PROVE  EventsAreTrue'
<1>1. \A u \in Targets : /\ target[u] # "absent" => target'[u] # "absent"
                         /\ target[u] = "gone" => target'[u] = "gone"
  BY DEF AsksToClose
<1>2. \A i \in 1 .. Len(events) : events[i][2] \in Targets
  BY DEF TypeOK
<1>3. ASSUME NEW i \in 1 .. Len(events')
      PROVE  /\ target'[events'[i][2]] # "absent"
             /\ events'[i][1] = "destroyed" => target'[events'[i][2]] = "gone"
  <2>1. CASE events'[i] = <<"destroyed", t>> /\ target'[t] = "gone"
    BY <2>1
  <2>2. CASE i \in 1 .. Len(events) /\ events'[i] = events[i]
    BY <1>1, <1>2, <2>2 DEF EventsAreTrue
  <2> QED BY <2>1, <2>2 DEF AsksToClose
<1>4. \A e \in Expectations : \A i \in 1 .. Len(heard[e]) : heard[e][i] \in Targets
  BY DEF TypeOK
<1>5. \A e \in Expectations : \A i \in 1 .. Len(heard'[e]) : target'[heard'[e][i]] # "absent"
  BY <1>1, <1>4 DEF EventsAreTrue
<1>6. watcher'[1] = "look" => watcher'[2] \in Targets /\ target'[watcher'[2]] = "gone"
  BY <1>1 DEF EventsAreTrue
<1> QED BY <1>3, <1>5, <1>6 DEF EventsAreTrue

LEMMA ReadEventsAreTrue ==
  ASSUME TypeOK, EventsAreTrue, Reads, UNCHANGED target
  PROVE  EventsAreTrue'
<1>1. \A i \in 1 .. Len(events') :
        /\ target'[events'[i][2]] # "absent"
        /\ events'[i][1] = "destroyed" => target'[events'[i][2]] = "gone"
  BY DEF EventsAreTrue, Reads
<1>2. /\ target[events[1][2]] # "absent" /\ events[1][2] \in Targets
      /\ events[1][1] = "destroyed" => target[events[1][2]] = "gone"
  BY DEF EventsAreTrue, Reads
<1>3. ASSUME NEW e \in Expectations, NEW i \in 1 .. Len(heard'[e])
      PROVE  target'[heard'[e][i]] # "absent"
  BY <1>2 DEF EventsAreTrue, Reads
<1>4. watcher'[1] = "look" => watcher'[2] \in Targets /\ target'[watcher'[2]] = "gone"
  BY <1>2 DEF EventsAreTrue, Reads
<1> QED BY <1>1, <1>3, <1>4 DEF EventsAreTrue

-----------------------------------------------------------------------------
(* A part of the invariant holds while what it speaks of stays as it is.    *)

(* Of EventsAreTrue.                                                        *)
LEMMA EventsStay ==
  ASSUME EventsAreTrue, UNCHANGED <<target, events, heard, watcher>>
  PROVE  EventsAreTrue'
BY DEF EventsAreTrue

(* Of GoalsAreSet.                                                          *)
LEMMA GoalsStay ==
  ASSUME GoalsAreSet, UNCHANGED <<goal, attachment, guard, pc, target>>
  PROVE  GoalsAreSet'
BY DEF GoalsAreSet, Locked

(* Of EntriesAreGuarded.                                                    *)
LEMMA EntriesStay ==
  ASSUME EntriesAreGuarded, UNCHANGED <<entry, goal, guard>>
  PROVE  EntriesAreGuarded'
BY DEF EntriesAreGuarded, Resources

(* Of GuardsAreHeld.                                                        *)
LEMMA GuardsStay ==
  ASSUME GuardsAreHeld, UNCHANGED <<guard, pc, goal, refused, entry, replaced>>
  PROVE  GuardsAreHeld'
BY DEF GuardsAreHeld, Locked, Resources

(* Of LockExcludes.                                                         *)
LEMMA LockStays ==
  ASSUME LockExcludes, UNCHANGED <<pc, lock, goal, pages>>
  PROVE  LockExcludes'
BY DEF LockExcludes, Locked

(* Of PagesAreWhole.                                                        *)
LEMMA PagesStay ==
  ASSUME PagesAreWhole, UNCHANGED <<page, body, pages, via, goal, own, target, kind,
         retained>>
  PROVE  PagesAreWhole'
BY DEF PagesAreWhole, Claimed

(* Of CloseInOrder.                                                         *)
LEMMA CloseStays ==
  ASSUME CloseInOrder, UNCHANGED <<session, pc, attachment, failed, visit, entry,
         pages, sweep>>
  PROVE  CloseInOrder'
BY DEF CloseInOrder, Ending, Holds

(* Of ContextHolds.                                                         *)
LEMMA ContextStays ==
  ASSUME ContextHolds, UNCHANGED <<kind, context, session, goal, target>>
  PROVE  ContextHolds'
BY DEF ContextHolds

(* Of AttachmentsAreKnown.                                                  *)
LEMMA AttachmentsStay ==
  ASSUME AttachmentsAreKnown, UNCHANGED <<attachment, target, goal, replaced,
         refused, entry, pages, via>>
  PROVE  AttachmentsAreKnown'
BY DEF AttachmentsAreKnown

(* Of ClaimedPopupIsOwned.                                                  *)
LEMMA OwnersStay ==
  ASSUME ClaimedPopupIsOwned, UNCHANGED <<goal, target, guard, entry, retained,
         pages, own, context, refused>>
  PROVE  ClaimedPopupIsOwned'
BY DEF ClaimedPopupIsOwned, Claimed, Owned

(* A new target is claimed by nobody.                                       *)
LEMMA OpenPopupKeeps ==
  ASSUME IInv, NEW t \in Targets, OpenPopup(t)
  PROVE  IInv'
<1> USE Apart DEF IInv, TypeOK, OpenPopup, Announced, sessionVars, callVars, registry,
  pageVars
<1>1. TypeOK'
  BY DEF States, Locked, Resources
<1>2. EventsAreTrue'
  BY DEF EventsAreTrue
<1>3. GoalsAreSet'
  BY DEF GoalsAreSet, EventsAreTrue, Locked
<1>4. PagesAreWhole'
  BY DEF PagesAreWhole, LockExcludes, GoalsAreSet, EventsAreTrue, ContextHolds,
    Claimed, Locked
<1>5. ContextHolds'
  BY DEF ContextHolds, GoalsAreSet, CloseInOrder, Locked, Ending, Holds
<1>6. AttachmentsAreKnown'
  BY DEF AttachmentsAreKnown, GoalsAreSet, PagesAreWhole, LockExcludes, GuardsAreHeld,
    Locked, Claimed, Resources
<1>7. ClaimedPopupIsOwned'
  <2> SUFFICES ASSUME NEW u \in Targets, Claimed(u)', target'[u] = "alive", u \notin refused'
               PROVE  Owned(u)'
    BY DEF ClaimedPopupIsOwned
  <2>1. Claimed(u) /\ target[u] = "alive" /\ u \notin refused
    BY DEF Claimed, GoalsAreSet, Locked
  <2>2. Owned(u)
    BY <2>1 DEF ClaimedPopupIsOwned
  <2>3. ASSUME NEW f \in Expectations, goal[f] = u, guard["page"][f] \in {"scheduled", "failed"}
        PROVE  Owned(u)'
    BY <2>1, <2>3 DEF Owned, GuardsAreHeld, Locked, Resources
  <2>4. CASE entry["page"][u] # Nobody
    BY <2>1, <2>4 DEF Owned, EntriesAreGuarded, GuardsAreHeld, GoalsAreSet, Locked,
      Resources
  <2>5. CASE u \in retained
    BY <2>1, <2>5 DEF Owned, PagesAreWhole
  <2>6. CASE u \in pages /\ own[u] = "Created"
    BY <2>1, <2>6 DEF Owned, PagesAreWhole, LockExcludes, Locked
  <2>7. CASE context \in {"alive", "failed"}
    BY <2>1, <2>7 DEF Owned
  <2> QED BY <2>2, <2>3, <2>4, <2>5, <2>6, <2>7 DEF Owned
<1>8. EntriesAreGuarded' /\ GuardsAreHeld' /\ LockExcludes' /\ CloseInOrder'
  BY EntriesStay, GuardsStay, LockStays, CloseStays
<1> QED BY <1>1, <1>2, <1>3, <1>4, <1>5, <1>6, <1>7, <1>8

(* A target that is gone needs no owner.                                    *)
LEMMA DestroyTargetKeeps ==
  ASSUME IInv, NEW t \in Targets, DestroyTarget(t)
  PROVE  IInv'
<1> USE Apart DEF IInv, TypeOK, DestroyTarget, Announced, sessionVars, callVars, registry,
  pageVars
<1>1. TypeOK'
  BY DEF States, Locked, Resources
<1>2. EventsAreTrue'
  BY DEF EventsAreTrue
<1>3. GoalsAreSet'
  BY DEF GoalsAreSet, EventsAreTrue, Locked
<1>4. PagesAreWhole'
  BY DEF PagesAreWhole, LockExcludes, GoalsAreSet, EventsAreTrue, ContextHolds,
    Claimed, Locked
<1>5. ContextHolds'
  BY DEF ContextHolds, GoalsAreSet, CloseInOrder, Locked, Ending, Holds
<1>6. AttachmentsAreKnown'
  BY DEF AttachmentsAreKnown, GoalsAreSet, PagesAreWhole, LockExcludes, GuardsAreHeld,
    Locked, Claimed, Resources
<1>7. ClaimedPopupIsOwned'
  <2> SUFFICES ASSUME NEW u \in Targets, Claimed(u)', target'[u] = "alive", u \notin refused'
               PROVE  Owned(u)'
    BY DEF ClaimedPopupIsOwned
  <2>1. Claimed(u) /\ target[u] = "alive" /\ u \notin refused
    BY DEF Claimed, GoalsAreSet, Locked
  <2>2. Owned(u)
    BY <2>1 DEF ClaimedPopupIsOwned
  <2>3. ASSUME NEW f \in Expectations, goal[f] = u, guard["page"][f] \in {"scheduled", "failed"}
        PROVE  Owned(u)'
    BY <2>1, <2>3 DEF Owned, GuardsAreHeld, Locked, Resources
  <2>4. CASE entry["page"][u] # Nobody
    BY <2>1, <2>4 DEF Owned, EntriesAreGuarded, GuardsAreHeld, GoalsAreSet, Locked,
      Resources
  <2>5. CASE u \in retained
    BY <2>1, <2>5 DEF Owned, PagesAreWhole
  <2>6. CASE u \in pages /\ own[u] = "Created"
    BY <2>1, <2>6 DEF Owned, PagesAreWhole, LockExcludes, Locked
  <2>7. CASE context \in {"alive", "failed"}
    BY <2>1, <2>7 DEF Owned
  <2> QED BY <2>2, <2>3, <2>4, <2>5, <2>6, <2>7 DEF Owned
<1>8. EntriesAreGuarded' /\ GuardsAreHeld' /\ LockExcludes' /\ CloseInOrder'
  BY EntriesStay, GuardsStay, LockStays, CloseStays
<1> QED BY <1>1, <1>2, <1>3, <1>4, <1>5, <1>6, <1>7, <1>8

(* A page starts to close once.                                             *)
LEMMA ClosePageKeeps ==
  ASSUME IInv, NEW t \in Targets, ClosePage(t)
  PROVE  IInv'
<1> USE Apart DEF IInv, TypeOK, ClosePage, StartClose, sessionVars, chromeVars, callVars,
  registry
<1>1. TypeOK'
  BY DEF States, Locked, Resources
<1>2. PagesAreWhole'
  BY DEF PagesAreWhole, LockExcludes, GoalsAreSet, EventsAreTrue, ContextHolds,
    Claimed, Locked
<1>3. /\ EventsAreTrue' /\ GoalsAreSet' /\ EntriesAreGuarded' /\ GuardsAreHeld'
      /\ LockExcludes' /\ CloseInOrder' /\ ContextHolds' /\ AttachmentsAreKnown'
      /\ ClaimedPopupIsOwned'
  BY EventsStay, GoalsStay, EntriesStay, GuardsStay, LockStays, CloseStays,
    ContextStays, AttachmentsStay, OwnersStay
<1> QED BY <1>1, <1>2, <1>3

(* Its actions are cancelled; what they registered stays.                   *)
LEMMA CloseOpenerKeeps ==
  ASSUME IInv, CloseOpener
  PROVE  IInv'
<1> USE Apart DEF IInv, TypeOK, CloseOpener, sessionVars, chromeVars, callVars, registry,
  pageVars
<1>1. TypeOK'
  BY DEF States, Locked, Resources
<1>2. /\ EventsAreTrue' /\ GoalsAreSet' /\ EntriesAreGuarded' /\ GuardsAreHeld'
      /\ LockExcludes' /\ PagesAreWhole' /\ CloseInOrder' /\ ContextHolds'
      /\ AttachmentsAreKnown' /\ ClaimedPopupIsOwned'
  BY EventsStay, GoalsStay, EntriesStay, GuardsStay, LockStays, PagesStay, CloseStays,
    ContextStays, AttachmentsStay, OwnersStay
<1> QED BY <1>1, <1>2

(* The session admits nothing more.                                         *)
LEMMA CloseSessionKeeps ==
  ASSUME IInv, CloseSession
  PROVE  IInv'
<1> USE Apart DEF IInv, TypeOK, CloseSession, chromeVars, callVars, registry, pageVars
<1>1. TypeOK'
  BY DEF States, Locked, Resources
<1>2. CloseInOrder'
  BY DEF CloseInOrder, PagesAreWhole, Ending, Holds, Claimed
<1>3. ContextHolds'
  BY DEF ContextHolds, GoalsAreSet, CloseInOrder, Locked, Ending, Holds
<1>4. /\ EventsAreTrue' /\ GoalsAreSet' /\ EntriesAreGuarded' /\ GuardsAreHeld'
      /\ LockExcludes' /\ PagesAreWhole' /\ AttachmentsAreKnown'
      /\ ClaimedPopupIsOwned'
  BY EventsStay, GoalsStay, EntriesStay, GuardsStay, LockStays, PagesStay,
    AttachmentsStay, OwnersStay
<1> QED BY <1>1, <1>2, <1>3, <1>4

(* A call that acts has no target yet.                                      *)
LEMMA ExpectKeeps ==
  ASSUME IInv, NEW e \in Expectations, Expect(e)
  PROVE  IInv'
<1> USE Apart DEF IInv, TypeOK, Expect, Callable, Open, sessionVars, chromeVars, registry,
  pageVars
<1>1. TypeOK'
  <2>1. pc' \in [Procs -> States]
    BY DEF States, Locked
  <2>2. callers' \subseteq Procs
    OBVIOUS
  <2>3. \A y \in Procs : pc'[y] \in Locked <=> lock' = y
    BY DEF Locked
  <2>4. UNCHANGED <<kind, session, context, sweep, visit, failed, target, events,
       refused, page, body, own, via, pages, retained, goal, heard, lock,
       attachment, entry, guard, replaced, opener, watcher, told>>
    OBVIOUS
  <2> QED BY <2>1, <2>2, <2>3, <2>4
<1>2. GoalsAreSet'
  BY DEF GoalsAreSet, EventsAreTrue, Locked
<1>3. GuardsAreHeld'
  BY DEF GuardsAreHeld, EntriesAreGuarded, GoalsAreSet, Locked, Resources
<1>4. LockExcludes'
  BY DEF LockExcludes, GoalsAreSet, Locked
<1>5. CloseInOrder'
  BY DEF CloseInOrder, PagesAreWhole, Ending, Holds, Claimed
<1>6. /\ EventsAreTrue' /\ EntriesAreGuarded' /\ PagesAreWhole' /\ ContextHolds'
      /\ AttachmentsAreKnown' /\ ClaimedPopupIsOwned'
  BY EventsStay, EntriesStay, PagesStay, ContextStays, AttachmentsStay, OwnersStay
<1> QED BY <1>1, <1>2, <1>3, <1>4, <1>5, <1>6

(* The task of the call goes on.                                            *)
LEMMA AbortExpectKeeps ==
  ASSUME IInv, NEW e \in Expectations, AbortExpect(e)
  PROVE  IInv'
<1> USE Apart DEF IInv, TypeOK, AbortExpect, sessionVars, chromeVars, registry, pageVars
<1>1. TypeOK'
  BY DEF States, Locked, Resources
<1>2. /\ EventsAreTrue' /\ GoalsAreSet' /\ EntriesAreGuarded' /\ GuardsAreHeld'
      /\ LockExcludes' /\ PagesAreWhole' /\ CloseInOrder' /\ ContextHolds'
      /\ AttachmentsAreKnown' /\ ClaimedPopupIsOwned'
  BY EventsStay, GoalsStay, EntriesStay, GuardsStay, LockStays, PagesStay, CloseStays,
    ContextStays, AttachmentsStay, OwnersStay
<1> QED BY <1>1, <1>2

(* What the call registered is scheduled for its cleanup.                   *)
LEMMA AbortAttachKeeps ==
  ASSUME IInv, NEW a \in Attachers, AbortAttach(a)
  PROVE  IInv'
<1> USE Apart DEF IInv, TypeOK, AbortAttach, Stopped, sessionVars, chromeVars, pageVars,
  Unlocked, Resources, Dropped, Armed
<1>1. TypeOK'
  BY DEF States, Locked
<1>2. GoalsAreSet'
  BY DEF GoalsAreSet, EventsAreTrue, Locked
<1>3. EntriesAreGuarded'
  BY DEF EntriesAreGuarded, GoalsAreSet, GuardsAreHeld, Locked
<1>4. GuardsAreHeld'
  BY DEF GuardsAreHeld, EntriesAreGuarded, GoalsAreSet, Locked
<1>5. LockExcludes'
  BY DEF LockExcludes, GoalsAreSet, Locked
<1>6. CloseInOrder'
  BY DEF CloseInOrder, PagesAreWhole, Ending, Holds, Claimed
<1>7. ClaimedPopupIsOwned'
  BY SMTT(60) DEF ClaimedPopupIsOwned, PagesAreWhole, EntriesAreGuarded, GuardsAreHeld,
    GoalsAreSet, CloseInOrder, ContextHolds, LockExcludes, Claimed, Owned, Locked,
    Ending, Holds
<1>8. EventsAreTrue' /\ PagesAreWhole' /\ ContextHolds' /\ AttachmentsAreKnown'
  BY EventsStay, PagesStay, ContextStays, AttachmentsStay
<1> QED BY <1>1, <1>2, <1>3, <1>4, <1>5, <1>6, <1>7, <1>8

(* The target is there, and is not claimed.                                 *)
LEMMA AttachKeeps ==
  ASSUME IInv, NEW a \in Attachers, NEW t \in Targets, Attach(a, t)
  PROVE  IInv'
<1> USE Apart DEF IInv, TypeOK, Attach, Callable, Open, sessionVars, chromeVars, registry,
  pageVars
<1>1. TypeOK'
  BY DEF States, Locked, Resources
<1>2. GoalsAreSet'
  BY DEF GoalsAreSet, EventsAreTrue, Locked
<1>3. EntriesAreGuarded'
  BY DEF EntriesAreGuarded, GoalsAreSet, GuardsAreHeld, Resources, Locked
<1>4. GuardsAreHeld'
  BY DEF GuardsAreHeld, EntriesAreGuarded, GoalsAreSet, Locked, Resources
<1>5. LockExcludes'
  BY DEF LockExcludes, GoalsAreSet, Locked
<1>6. PagesAreWhole'
  BY DEF PagesAreWhole, LockExcludes, GoalsAreSet, EventsAreTrue, ContextHolds,
    Claimed, Locked
<1>7. CloseInOrder'
  BY DEF CloseInOrder, PagesAreWhole, Ending, Holds, Claimed
<1>8. ContextHolds'
  BY DEF ContextHolds, GoalsAreSet, CloseInOrder, Locked, Ending, Holds
<1>9. AttachmentsAreKnown'
  BY DEF AttachmentsAreKnown, GoalsAreSet, PagesAreWhole, LockExcludes, GuardsAreHeld,
    Locked, Claimed, Resources
<1>10. ClaimedPopupIsOwned'
  <2> SUFFICES ASSUME NEW u \in Targets, Claimed(u)', target'[u] = "alive", u \notin refused'
               PROVE  Owned(u)'
    BY DEF ClaimedPopupIsOwned
  <2>1. Claimed(u) /\ target[u] = "alive" /\ u \notin refused
    BY DEF Claimed, GoalsAreSet, Locked
  <2>2. Owned(u)
    BY <2>1 DEF ClaimedPopupIsOwned
  <2>3. ASSUME NEW f \in Expectations, goal[f] = u, guard["page"][f] \in {"scheduled", "failed"}
        PROVE  Owned(u)'
    BY <2>1, <2>3 DEF Owned, GuardsAreHeld, Locked, Resources
  <2>4. CASE entry["page"][u] # Nobody
    BY <2>1, <2>4 DEF Owned, EntriesAreGuarded, GuardsAreHeld, GoalsAreSet, Locked,
      Resources
  <2>5. CASE u \in retained
    BY <2>1, <2>5 DEF Owned, PagesAreWhole
  <2>6. CASE u \in pages /\ own[u] = "Created"
    BY <2>1, <2>6 DEF Owned, PagesAreWhole, LockExcludes, Locked
  <2>7. CASE context \in {"alive", "failed"}
    BY <2>1, <2>7 DEF Owned
  <2> QED BY <2>2, <2>3, <2>4, <2>5, <2>6, <2>7 DEF Owned
<1>11. EventsAreTrue'
  BY EventsStay
<1> QED BY <1>1, <1>2, <1>3, <1>4, <1>5, <1>6, <1>7, <1>8, <1>9, <1>10, <1>11

(* What was heard is kept or dropped.                                       *)
LEMMA ActionEndsKeeps ==
  ASSUME IInv, NEW e \in Expectations, ActionEnds(e)
  PROVE  IInv'
<1> pc' \in [Procs -> States] /\ heard' \in [Expectations -> Seq(Targets)]
  <2>1. pc \in [Procs -> States] /\ heard \in [Expectations -> Seq(Targets)] /\ e \in Procs
    BY Apart DEF IInv, TypeOK
  <2>2. /\ pc' = [pc EXCEPT ![e] = "listen"] \/ pc' = [pc EXCEPT ![e] = "done"]
        /\ heard' = heard \/ heard' = [heard EXCEPT ![e] = <<>>]
    BY DEF ActionEnds
  <2>3. "listen" \in States /\ "done" \in States
    BY DEF States
  <2>4. pc' \in [Procs -> States]
    BY <2>1, <2>2, <2>3
  <2>5. <<>> \in Seq(Targets)
    OBVIOUS
  <2>6. heard' \in [Expectations -> Seq(Targets)]
    BY <2>1, <2>2, <2>5
  <2> QED BY <2>4, <2>6
<1> USE Apart DEF IInv, TypeOK, ActionEnds, sessionVars, chromeVars, registry, pageVars
<1>1. TypeOK'
  <2>1. pc' \in [Procs -> States]
    BY DEF States, Locked
  <2>2. heard' \in [Expectations -> Seq(Targets)]
    OBVIOUS
  <2>3. \A y \in Procs : pc'[y] \in Locked <=> lock' = y
    BY DEF Locked
  <2>4. UNCHANGED <<kind, session, context, sweep, visit, failed, target, events,
       refused, page, body, own, via, pages, retained, goal, callers, lock,
       attachment, entry, guard, replaced, opener, watcher, told>>
    OBVIOUS
  <2> QED BY <2>1, <2>2, <2>3, <2>4
<1>2. EventsAreTrue'
  BY DEF EventsAreTrue
<1>3. GoalsAreSet'
  BY DEF GoalsAreSet, EventsAreTrue, Locked
<1>4. GuardsAreHeld'
  BY DEF GuardsAreHeld, EntriesAreGuarded, GoalsAreSet, Locked, Resources
<1>5. LockExcludes'
  BY DEF LockExcludes, GoalsAreSet, Locked
<1>6. CloseInOrder'
  BY DEF CloseInOrder, PagesAreWhole, Ending, Holds, Claimed
<1>7. /\ EntriesAreGuarded' /\ PagesAreWhole' /\ ContextHolds' /\ AttachmentsAreKnown'
      /\ ClaimedPopupIsOwned'
  BY EntriesStay, PagesStay, ContextStays, AttachmentsStay, OwnersStay
<1> QED BY <1>1, <1>2, <1>3, <1>4, <1>5, <1>6, <1>7

(* A call that heard nothing has registered nothing.                        *)
LEMMA TimeOutKeeps ==
  ASSUME IInv, NEW e \in Expectations, TimeOut(e)
  PROVE  IInv'
<1> USE Apart DEF IInv, TypeOK, TimeOut, sessionVars, chromeVars, registry, pageVars
<1>1. TypeOK'
  BY DEF States, Locked, Resources
<1>2. EventsAreTrue'
  BY DEF EventsAreTrue
<1>3. GoalsAreSet'
  BY DEF GoalsAreSet, EventsAreTrue, Locked
<1>4. GuardsAreHeld'
  BY DEF GuardsAreHeld, EntriesAreGuarded, GoalsAreSet, Locked, Resources
<1>5. LockExcludes'
  BY DEF LockExcludes, GoalsAreSet, Locked
<1>6. CloseInOrder'
  BY DEF CloseInOrder, PagesAreWhole, Ending, Holds, Claimed
<1>7. /\ EntriesAreGuarded' /\ PagesAreWhole' /\ ContextHolds' /\ AttachmentsAreKnown'
      /\ ClaimedPopupIsOwned'
  BY EntriesStay, PagesStay, ContextStays, AttachmentsStay, OwnersStay
<1> QED BY <1>1, <1>2, <1>3, <1>4, <1>5, <1>6, <1>7

(* The registration covers the popup from its claim.                        *)
LEMMA ClaimKeeps ==
  ASSUME IInv, NEW e \in Expectations, Claim(e)
  PROVE  IInv'
<1> USE Apart DEF IInv, TypeOK, Claim, Register, Open, sessionVars, chromeVars, pageVars
<1> Head(heard[e]) \in Targets /\ target[Head(heard[e])] # "absent" /\ goal[e] = Nobody
  <2>1. heard[e] \in Seq(Targets) /\ heard[e] # <<>>
    OBVIOUS
  <2>2. 1 \in 1 .. Len(heard[e]) /\ heard[e][1] = Head(heard[e]) /\ Head(heard[e]) \in Targets
    BY <2>1
  <2> QED BY <2>1, <2>2 DEF EventsAreTrue, GoalsAreSet
<1>1. TypeOK'
  BY DEF States, Locked, Resources
<1>2. EventsAreTrue'
  BY DEF EventsAreTrue
<1>3. GoalsAreSet'
  BY DEF GoalsAreSet, EventsAreTrue, Locked
<1>4. EntriesAreGuarded'
  BY DEF EntriesAreGuarded, GoalsAreSet, GuardsAreHeld, Resources, Locked
<1>5. GuardsAreHeld'
  BY DEF GuardsAreHeld, EntriesAreGuarded, GoalsAreSet, Locked, Resources
<1>6. LockExcludes'
  BY DEF LockExcludes, GoalsAreSet, Locked
<1>7. PagesAreWhole'
  BY DEF PagesAreWhole, LockExcludes, GoalsAreSet, EventsAreTrue, ContextHolds,
    Claimed, Locked
<1>8. CloseInOrder'
  BY DEF CloseInOrder, PagesAreWhole, Ending, Holds, Claimed
<1>9. ContextHolds'
  BY DEF ContextHolds, GoalsAreSet, CloseInOrder, Locked, Ending, Holds
<1>10. AttachmentsAreKnown'
  BY DEF AttachmentsAreKnown, GoalsAreSet, PagesAreWhole, LockExcludes, GuardsAreHeld,
    Locked, Claimed, Resources
<1>11. ClaimedPopupIsOwned'
  <2> SUFFICES ASSUME NEW u \in Targets, Claimed(u)', target[u] = "alive", u \notin refused
               PROVE  Owned(u)'
    BY DEF ClaimedPopupIsOwned
  <2>1. Head(heard[e]) \in Targets /\ goal[e] = Nobody
    BY DEF GoalsAreSet
  <2>2. CASE u = Head(heard[e])
    BY <2>1, <2>2 DEF Owned, Resources
  <2>3. CASE u # Head(heard[e])
    <3>1. Claimed(u)
      BY <2>1, <2>3 DEF Claimed
    <3>2. Owned(u)
      BY <3>1 DEF ClaimedPopupIsOwned
    <3> QED BY <2>1, <2>3, <3>2 DEF Owned, Resources
  <2> QED BY <2>2, <2>3
<1> QED BY <1>1, <1>2, <1>3, <1>4, <1>5, <1>6, <1>7, <1>8, <1>9, <1>10, <1>11

(* Chrome is asked to close the popup before its claim is dropped.          *)
LEMMA UndoKeeps ==
  ASSUME IInv, NEW e \in Expectations, Undo(e)
  PROVE  IInv'
<1> TypeOK /\ e \in Procs /\ "page" \in Resources /\ "page-attachment" \in Resources
  BY Apart DEF IInv, Resources
<1> goal[e] \in Targets
  BY DEF IInv, TypeOK, GoalsAreSet, Locked, Undo
<1> Removes("page", e)
  BY RemovedOnly DEF Undo
<1> AsksToClose(goal[e]) \/ (~Armed("page", e) /\ UNCHANGED chromeVars)
  BY ClosingTells DEF Undo
<1> EventsAreTrue'
  <2>1. CASE AsksToClose(goal[e])
    BY <2>1, ClosedEventsAreTrue DEF IInv, Undo
  <2>2. CASE UNCHANGED chromeVars
    BY <2>2, EventsStay DEF IInv, Undo, chromeVars
  <2> QED BY <2>1, <2>2
<1> USE Apart DEF IInv, TypeOK, Undo, Unlocked, Armed, chromeVars, sessionVars, pageVars,
  AsksToClose, Removes, Resources
<1>1. TypeOK'
  BY DEF States, Locked
<1>2. EventsAreTrue'
  OBVIOUS
<1>3. GoalsAreSet'
  BY DEF GoalsAreSet, EventsAreTrue, Locked
<1>4. EntriesAreGuarded'
  BY DEF EntriesAreGuarded, GoalsAreSet, GuardsAreHeld, Locked
<1>5. GuardsAreHeld'
  BY DEF GuardsAreHeld, EntriesAreGuarded, GoalsAreSet, Locked
<1>6. LockExcludes'
  BY DEF LockExcludes, GoalsAreSet, Locked
<1>7. PagesAreWhole'
  BY DEF PagesAreWhole, LockExcludes, GoalsAreSet, EventsAreTrue, ContextHolds,
    Claimed, Locked
<1>8. CloseInOrder'
  BY DEF CloseInOrder, PagesAreWhole, Ending, Holds, Claimed
<1>9. ContextHolds'
  BY DEF ContextHolds, GoalsAreSet, CloseInOrder, Locked, Ending, Holds
<1>10. AttachmentsAreKnown'
  BY DEF AttachmentsAreKnown, GoalsAreSet, PagesAreWhole, LockExcludes, GuardsAreHeld,
    Locked, Claimed
<1>11. ClaimedPopupIsOwned'
  <2> SUFFICES ASSUME NEW u \in Targets, Claimed(u)', target'[u] = "alive", u \notin refused'
               PROVE  Owned(u)'
    BY DEF ClaimedPopupIsOwned
  <2>1. Claimed(u) /\ target[u] = "alive" /\ u \notin refused
    BY DEF Claimed, GoalsAreSet, Locked
  <2>2. Owned(u)
    BY <2>1 DEF ClaimedPopupIsOwned
  <2>3. ASSUME NEW f \in Expectations, goal[f] = u, guard["page"][f] \in {"scheduled", "failed"}
        PROVE  Owned(u)'
    BY <2>1, <2>3 DEF Owned, GuardsAreHeld, Locked
  <2>4. CASE entry["page"][u] # Nobody
    BY <2>1, <2>4 DEF Owned, EntriesAreGuarded, GuardsAreHeld, GoalsAreSet, Locked
  <2>5. CASE u \in retained
    BY <2>1, <2>5 DEF Owned, PagesAreWhole
  <2>6. CASE u \in pages /\ own[u] = "Created"
    BY <2>1, <2>6 DEF Owned, PagesAreWhole, LockExcludes, Locked
  <2>7. CASE context \in {"alive", "failed"}
    BY <2>1, <2>7 DEF Owned
  <2> QED BY <2>2, <2>3, <2>4, <2>5, <2>6, <2>7 DEF Owned
<1> QED BY <1>1, <1>2, <1>3, <1>4, <1>5, <1>6, <1>7, <1>8, <1>9, <1>10, <1>11

(* What the call registered is scheduled for its cleanup.                   *)
LEMMA CancelledKeeps ==
  ASSUME IInv, NEW e \in Expectations, Cancelled(e)
  PROVE  IInv'
<1> USE Apart DEF IInv, TypeOK, Cancelled, Stopped, sessionVars, chromeVars, pageVars,
  Unlocked, Resources, Dropped, Armed
<1>1. TypeOK'
  BY DEF States, Locked
<1>2. EventsAreTrue'
  BY DEF EventsAreTrue
<1>3. GoalsAreSet'
  BY DEF GoalsAreSet, EventsAreTrue, Locked
<1>4. EntriesAreGuarded'
  BY DEF EntriesAreGuarded, GoalsAreSet, GuardsAreHeld, Locked
<1>5. GuardsAreHeld'
  BY DEF GuardsAreHeld, EntriesAreGuarded, GoalsAreSet, Locked
<1>6. LockExcludes'
  BY DEF LockExcludes, GoalsAreSet, Locked
<1>7. CloseInOrder'
  BY DEF CloseInOrder, PagesAreWhole, Ending, Holds, Claimed
<1>8. ClaimedPopupIsOwned'
  <2> SUFFICES ASSUME NEW u \in Targets, Claimed(u)', target'[u] = "alive", u \notin refused'
               PROVE  Owned(u)'
    BY DEF ClaimedPopupIsOwned
  <2>1. Claimed(u) /\ target[u] = "alive" /\ u \notin refused
    BY DEF Claimed, GoalsAreSet, Locked
  <2>2. Owned(u)
    BY <2>1 DEF ClaimedPopupIsOwned
  <2>3. ASSUME NEW f \in Expectations, goal[f] = u, guard["page"][f] \in {"scheduled", "failed"}
        PROVE  Owned(u)'
    BY <2>1, <2>3 DEF Owned, GuardsAreHeld, Locked
  <2>4. CASE entry["page"][u] # Nobody
    BY <2>1, <2>4 DEF Owned, EntriesAreGuarded, GuardsAreHeld, GoalsAreSet, Locked
  <2>5. CASE u \in retained
    BY <2>1, <2>5 DEF Owned, PagesAreWhole
  <2>6. CASE u \in pages /\ own[u] = "Created"
    BY <2>1, <2>6 DEF Owned, PagesAreWhole, LockExcludes, Locked
  <2>7. CASE context \in {"alive", "failed"}
    BY <2>1, <2>7 DEF Owned
  <2> QED BY <2>2, <2>3, <2>4, <2>5, <2>6, <2>7 DEF Owned
<1>9. PagesAreWhole' /\ ContextHolds' /\ AttachmentsAreKnown'
  BY PagesStay, ContextStays, AttachmentsStay
<1> QED BY <1>1, <1>2, <1>3, <1>4, <1>5, <1>6, <1>7, <1>8, <1>9

(* The page of a caller that is gone is closed by its task.                 *)
LEMMA UndeliverKeeps ==
  ASSUME IInv, NEW e \in Expectations, Undeliver(e)
  PROVE  IInv'
<1> USE Apart DEF IInv, TypeOK, Undeliver, StartClose, sessionVars, chromeVars, registry
<1> goal[e] \in Targets
  BY DEF GoalsAreSet, Locked
<1>1. TypeOK'
  <2>1. pc' \in [Procs -> States]
    BY SMTT(60) DEF States, Locked
  <2>2. \A y \in Procs : pc'[y] \in Locked <=> lock' = y
    BY DEF Locked
  <2>3. page' \in [Targets -> {"none", "open", "closing", "closed", "failed"}]
    BY SMTT(60)
  <2>4. body' \in [Targets -> {"none", "close", "detach", "target", "destroyed", "session"}]
    BY SMTT(60)
  <2>5. UNCHANGED <<kind, session, context, sweep, visit, failed, target, events,
       refused, own, via, pages, retained, goal, callers, heard, lock, attachment,
       entry, guard, replaced, opener, watcher, told>>
    OBVIOUS
  <2> QED BY <2>1, <2>2, <2>3, <2>4, <2>5
<1>2. GoalsAreSet'
  BY DEF GoalsAreSet, EventsAreTrue, Locked
<1>3. GuardsAreHeld'
  BY DEF GuardsAreHeld, EntriesAreGuarded, GoalsAreSet, Locked, Resources
<1>4. LockExcludes'
  BY DEF LockExcludes, GoalsAreSet, Locked
<1>5. PagesAreWhole'
  BY DEF PagesAreWhole, LockExcludes, GoalsAreSet, EventsAreTrue, ContextHolds,
    Claimed, Locked
<1>6. CloseInOrder'
  <2>1. \A y \in Procs : Holds(y)' => Holds(y)
    BY DEF Holds
  <2> QED BY <2>1 DEF CloseInOrder, Ending
<1>7. /\ EventsAreTrue' /\ EntriesAreGuarded' /\ ContextHolds' /\ AttachmentsAreKnown'
      /\ ClaimedPopupIsOwned'
  BY EventsStay, EntriesStay, ContextStays, AttachmentsStay, OwnersStay
<1> QED BY <1>1, <1>2, <1>3, <1>4, <1>5, <1>6, <1>7

(* The popup is gone when its registration is, or its failure is kept.      *)
LEMMA CloseScheduledKeeps ==
  ASSUME IInv, NEW e \in Expectations, CloseScheduled(e)
  PROVE  IInv'
<1> TypeOK /\ e \in Procs /\ "page" \in Resources /\ "page-attachment" \in Resources
  BY Apart DEF IInv, Resources
<1> goal[e] \in Targets
  BY DEF IInv, TypeOK, GoalsAreSet, Locked, CloseScheduled, Cleaned
<1> /\ AsksToClose(goal[e]) /\ Cleans("page", e)
    /\ guard'["page"][e] = "failed" => goal[e] \in refused'
  <2>1. CASE Cleaned("page", e, TRUE) /\ CloseSucceeds(goal[e])
    BY <2>1, CleanedOnly, ClosingTells
  <2>2. CASE Cleaned("page", e, FALSE) /\ CloseFails(goal[e])
    <3>1. AsksToClose(goal[e]) /\ Cleans("page", e)
      BY <2>2, CleanedOnly, ClosingTells
    <3> QED BY <2>2, <3>1 DEF CloseFails
  <2> QED BY <2>1, <2>2 DEF CloseScheduled
<1> \A q \in Resources, y \in Procs : guard[q][y] = "none" => guard'[q][y] = "none"
  BY DEF Cleans
<1> EventsAreTrue'
  BY ClosedEventsAreTrue DEF IInv, CloseScheduled, callVars
<1> /\ \A q \in Resources, y \in Procs :
         /\ q = "page-attachment" => guard'[q][y] = guard[q][y]
         /\ guard'[q][y] \in {"armed", "scheduled"} => guard'[q][y] = guard[q][y]
    /\ \A u \in Targets : entry'["page-attachment"][u] = entry["page-attachment"][u]
  BY DEF Cleans, Removes
<1> \A y \in Procs : guard'["page"][y] = "failed" => goal[y] \in refused'
  BY DEF IInv, GuardsAreHeld, Cleans, AsksToClose
<1> target'[goal[e]] = "gone" \/ goal[e] \in refused'
  BY DEF AsksToClose
<1> USE Apart DEF IInv, TypeOK, CloseScheduled, sessionVars, callVars, pageVars,
  AsksToClose, Cleans, Removes, Resources
<1>1. TypeOK'
  BY DEF States, Locked
<1>2. EventsAreTrue'
  OBVIOUS
<1>3. GoalsAreSet'
  <2>1. \A u \in Targets : target'[u] = target[u] \/ target'[u] = "gone"
    OBVIOUS
  <2> HIDE DEF AsksToClose
  <2> HIDE DEF Cleans, Removes
  <2> QED BY <2>1 DEF GoalsAreSet, Locked
<1>4. EntriesAreGuarded'
  <2>1. ASSUME NEW q \in Resources, NEW u \in Targets, entry'[q][u] # Nobody
        PROVE  entry'[q][u] = entry[q][u] /\ (q = "page" => entry[q][u] # e)
    <3>1. entry'[q][u] = entry[q][u] /\ entry[q][u] \in Procs
      BY <2>1
    <3>2. q = "page" /\ entry[q][u] = e => goal[e] = u
      BY <2>1, <3>1 DEF EntriesAreGuarded
    <3> QED BY <2>1, <3>1, <3>2
  <2>2. \A q \in Resources, y \in Procs : q # "page" \/ y # e => guard'[q][y] = guard[q][y]
    OBVIOUS
  <2>3. \A q \in Resources, u \in Targets : entry[q][u] \in Procs \cup {Nobody}
    OBVIOUS
  <2> HIDE DEF AsksToClose, Cleans, Removes
  <2> QED BY <2>1, <2>2, <2>3 DEF EntriesAreGuarded
<1>5. GuardsAreHeld'
  <2>1. \A y \in Procs : goal[y] \in Targets \/ guard["page-attachment"][y] = "none"
    BY DEF GoalsAreSet
  <2>2. guard["page"][e] = "scheduled" /\ guard'["page"][e] \in {"none", "failed"}
    OBVIOUS
  <2>3. \A y \in Procs : y # e => guard'["page"][y] = guard["page"][y]
    OBVIOUS
  <2> HIDE DEF AsksToClose, Cleans, Removes
  <2>4. ASSUME NEW y \in Procs
        PROVE  /\ guard'["page"][y] # "none" => y \in Expectations
               /\ guard'["page"][y] = "armed" => pc[y] \in Locked \cup {"want"}
               /\ y \in Expectations /\ pc[y] \in Locked \cup {"want"} =>
                    guard'["page"][y] = "armed"
    <3>1. CASE y = e
      BY <2>2, <3>1 DEF GuardsAreHeld
    <3>2. CASE y # e
      BY <2>3, <3>2 DEF GuardsAreHeld
    <3> QED BY <3>1, <3>2
  <2>5. ASSUME NEW y \in Procs
        PROVE  /\ guard'["page-attachment"][y] = "armed" => pc[y] \in {"frames", "routes", "detach"}
               /\ guard'["page-attachment"][y] \in {"armed", "scheduled"} =>
                    entry'["page-attachment"][goal[y]] = y \/ y \in replaced
    BY <2>1 DEF GuardsAreHeld
  <2> QED BY <2>4, <2>5 DEF GuardsAreHeld, Locked
<1>6. PagesAreWhole'
  BY DEF PagesAreWhole, LockExcludes, GoalsAreSet, EventsAreTrue, ContextHolds,
    Claimed, Locked
<1>7. CloseInOrder'
  BY DEF CloseInOrder, PagesAreWhole, Ending, Holds, Claimed
<1>8. ContextHolds'
  BY DEF ContextHolds, GoalsAreSet, CloseInOrder, Locked, Ending, Holds
<1>9. AttachmentsAreKnown'
  BY DEF AttachmentsAreKnown, GoalsAreSet, PagesAreWhole, LockExcludes, GuardsAreHeld,
    Locked, Claimed
<1>10. ClaimedPopupIsOwned'
  <2> SUFFICES ASSUME NEW u \in Targets, Claimed(u)', target'[u] = "alive", u \notin refused'
               PROVE  Owned(u)'
    BY DEF ClaimedPopupIsOwned
  <2>1. Claimed(u) /\ target[u] = "alive" /\ u \notin refused
    BY DEF Claimed, GoalsAreSet, Locked
  <2>2. Owned(u)
    BY <2>1 DEF ClaimedPopupIsOwned
  <2>3. ASSUME NEW f \in Expectations, goal[f] = u, guard["page"][f] \in {"scheduled", "failed"}
        PROVE  Owned(u)'
    <3>1. f # e /\ goal' = goal
      BY <2>3
    <3>2. guard'["page"][f] = guard["page"][f]
      BY <3>1
    <3> QED BY <2>3, <3>1, <3>2 DEF Owned
  <2>4. CASE entry["page"][u] # Nobody
    BY <2>1, <2>4 DEF Owned, EntriesAreGuarded, GuardsAreHeld, GoalsAreSet, Locked
  <2>5. CASE u \in retained
    BY <2>1, <2>5 DEF Owned, PagesAreWhole
  <2>6. CASE u \in pages /\ own[u] = "Created"
    BY <2>1, <2>6 DEF Owned, PagesAreWhole, LockExcludes, Locked
  <2>7. CASE context \in {"alive", "failed"}
    BY <2>1, <2>7 DEF Owned
  <2> QED BY <2>2, <2>3, <2>4, <2>5, <2>6, <2>7 DEF Owned
<1>11. LockExcludes'
  BY LockStays
<1> QED BY <1>1, <1>2, <1>3, <1>4, <1>5, <1>6, <1>7, <1>8, <1>9, <1>10, <1>11

(* The page takes over from the registration, promoted for an expectation.  *)
LEMMA FindKeeps ==
  ASSUME IInv, NEW x \in Procs, Find(x)
  PROVE  IInv'
<1> TypeOK /\ x \in Procs /\ "page" \in Resources /\ "page-attachment" \in Resources
  BY Apart DEF IInv, Resources
<1> goal[x] \in Targets
  BY DEF IInv, TypeOK, GoalsAreSet, Locked, Find
<1> Removes("page", x)
  BY RemovedOnly DEF Find
<1> USE Apart DEF IInv, TypeOK, Find, Delivered, sessionVars, chromeVars, Unlocked,
  Removes, Resources
<1>1. TypeOK'
  BY DEF States, Locked
<1>2. GoalsAreSet'
  BY DEF GoalsAreSet, EventsAreTrue, Locked
<1>3. EntriesAreGuarded'
  BY DEF EntriesAreGuarded, GoalsAreSet, GuardsAreHeld, Locked
<1>4. GuardsAreHeld'
  BY DEF GuardsAreHeld, EntriesAreGuarded, GoalsAreSet, Locked
<1>5. LockExcludes'
  BY DEF LockExcludes, GoalsAreSet, Locked
<1>6. PagesAreWhole'
  BY DEF PagesAreWhole, LockExcludes, GoalsAreSet, EventsAreTrue, ContextHolds,
    Claimed, Locked
<1>7. CloseInOrder'
  BY DEF CloseInOrder, PagesAreWhole, Ending, Holds, Claimed
<1>8. AttachmentsAreKnown'
  BY DEF AttachmentsAreKnown, GoalsAreSet, PagesAreWhole, LockExcludes, GuardsAreHeld,
    Locked, Claimed
<1>9. ClaimedPopupIsOwned'
  BY DEF ClaimedPopupIsOwned, PagesAreWhole, EntriesAreGuarded, GuardsAreHeld,
    GoalsAreSet, CloseInOrder, ContextHolds, LockExcludes, Claimed, Owned, Locked,
    Ending, Holds
<1>10. EventsAreTrue' /\ ContextHolds'
  BY EventsStay, ContextStays
<1> QED BY <1>1, <1>2, <1>3, <1>4, <1>5, <1>6, <1>7, <1>8, <1>9, <1>10

(* A call under the lock found no page of its target.                       *)
LEMMA TakeLockKeeps ==
  ASSUME IInv, NEW x \in Procs, TakeLock(x)
  PROVE  IInv'
<1> USE Apart DEF IInv, TypeOK, TakeLock, sessionVars, chromeVars, registry, pageVars
<1> goal[x] \in Targets
  BY DEF GoalsAreSet, Locked
<1>1. TypeOK'
  BY DEF States, Locked, Resources
<1>2. GoalsAreSet'
  BY DEF GoalsAreSet, EventsAreTrue, Locked
<1>3. GuardsAreHeld'
  BY DEF GuardsAreHeld, EntriesAreGuarded, GoalsAreSet, Locked, Resources
<1>4. LockExcludes'
  BY DEF LockExcludes, GoalsAreSet, Locked
<1>5. CloseInOrder'
  BY DEF CloseInOrder, PagesAreWhole, Ending, Holds, Claimed
<1>6. /\ EventsAreTrue' /\ EntriesAreGuarded' /\ PagesAreWhole' /\ ContextHolds'
      /\ AttachmentsAreKnown' /\ ClaimedPopupIsOwned'
  BY EventsStay, EntriesStay, PagesStay, ContextStays, AttachmentsStay, OwnersStay
<1> QED BY <1>1, <1>2, <1>3, <1>4, <1>5, <1>6

(* The task that attaches holds a permit.                                   *)
LEMMA ValidateKeeps ==
  ASSUME IInv, NEW x \in Procs, Validate(x)
  PROVE  IInv'
<1> USE Apart DEF IInv, TypeOK, Validate, Open, Failing, sessionVars, chromeVars, registry,
  pageVars, Unlocked
<1> goal[x] \in Targets
  BY DEF GoalsAreSet, Locked
<1>1. TypeOK'
  <2>1. pc' \in [Procs -> States]
    BY DEF States, Locked
  <2>2. lock' \in Procs \cup {Nobody}
    OBVIOUS
  <2>3. \A y \in Procs : pc'[y] \in Locked <=> lock' = y
    BY DEF Locked
  <2>4. attachment' \in [Procs -> {"none", "sent", "live"}]
    BY ZenonT(60)
  <2>5. UNCHANGED <<kind, session, context, sweep, visit, failed, target, events,
       refused, page, body, own, via, pages, retained, goal, callers, heard, entry,
       guard, replaced, opener, watcher, told>>
    OBVIOUS
  <2> QED BY <2>1, <2>2, <2>3, <2>4, <2>5
<1>2. GoalsAreSet'
  BY DEF GoalsAreSet, EventsAreTrue, Locked
<1>3. GuardsAreHeld'
  BY DEF GuardsAreHeld, EntriesAreGuarded, GoalsAreSet, Locked, Resources
<1>4. LockExcludes'
  BY DEF LockExcludes, GoalsAreSet, Locked
<1>5. CloseInOrder'
  BY DEF CloseInOrder, PagesAreWhole, Ending, Holds, Claimed
<1>6. AttachmentsAreKnown'
  BY DEF AttachmentsAreKnown, GoalsAreSet, PagesAreWhole, LockExcludes, GuardsAreHeld,
    Locked, Claimed, Resources
<1>7. /\ EventsAreTrue' /\ EntriesAreGuarded' /\ PagesAreWhole' /\ ContextHolds'
      /\ ClaimedPopupIsOwned'
  BY EventsStay, EntriesStay, PagesStay, ContextStays, OwnersStay
<1> QED BY <1>1, <1>2, <1>3, <1>4, <1>5, <1>6, <1>7

(* The attachment is registered when it is live.                            *)
LEMMA AttachedKeeps ==
  ASSUME IInv, NEW x \in Procs, Attached(x)
  PROVE  IInv'
<1> USE Apart DEF IInv, TypeOK, Attached, Register, sessionVars, chromeVars, pageVars
<1> goal[x] \in Targets
  BY DEF GoalsAreSet, Locked
<1>1. TypeOK'
  BY DEF States, Locked, Resources
<1>2. GoalsAreSet'
  BY DEF GoalsAreSet, EventsAreTrue, Locked
<1>3. EntriesAreGuarded'
  BY DEF EntriesAreGuarded, GoalsAreSet, GuardsAreHeld, Resources, Locked
<1>4. GuardsAreHeld'
  BY DEF GuardsAreHeld, EntriesAreGuarded, GoalsAreSet, Locked, Resources
<1>5. LockExcludes'
  BY DEF LockExcludes, GoalsAreSet, Locked
<1>6. CloseInOrder'
  BY DEF CloseInOrder, PagesAreWhole, Ending, Holds, Claimed
<1>7. AttachmentsAreKnown'
  BY DEF AttachmentsAreKnown, GoalsAreSet, PagesAreWhole, LockExcludes, GuardsAreHeld,
    Locked, Claimed, Resources
<1>8. ClaimedPopupIsOwned'
  <2> SUFFICES ASSUME NEW u \in Targets, Claimed(u)', target'[u] = "alive", u \notin refused'
               PROVE  Owned(u)'
    BY DEF ClaimedPopupIsOwned
  <2>1. Claimed(u) /\ target[u] = "alive" /\ u \notin refused
    BY DEF Claimed, GoalsAreSet, Locked
  <2>2. Owned(u)
    BY <2>1 DEF ClaimedPopupIsOwned
  <2>3. ASSUME NEW f \in Expectations, goal[f] = u, guard["page"][f] \in {"scheduled", "failed"}
        PROVE  Owned(u)'
    BY <2>1, <2>3 DEF Owned, GuardsAreHeld, Locked, Resources
  <2>4. CASE entry["page"][u] # Nobody
    BY <2>1, <2>4 DEF Owned, EntriesAreGuarded, GuardsAreHeld, GoalsAreSet, Locked,
      Resources
  <2>5. CASE u \in retained
    BY <2>1, <2>5 DEF Owned, PagesAreWhole
  <2>6. CASE u \in pages /\ own[u] = "Created"
    BY <2>1, <2>6 DEF Owned, PagesAreWhole, LockExcludes, Locked
  <2>7. CASE context \in {"alive", "failed"}
    BY <2>1, <2>7 DEF Owned
  <2> QED BY <2>2, <2>3, <2>4, <2>5, <2>6, <2>7 DEF Owned
<1>9. EventsAreTrue' /\ PagesAreWhole' /\ ContextHolds'
  BY EventsStay, PagesStay, ContextStays
<1> QED BY <1>1, <1>2, <1>3, <1>4, <1>5, <1>6, <1>7, <1>8, <1>9

(* A call that goes on, or ends, is at one of its places.                   *)
LEMMA Moves ==
  ASSUME pc \in [Procs -> States], NEW x \in Procs, NEW s \in States, NEW d \in States,
         pc' \in {pc, [pc EXCEPT ![x] = s], [pc EXCEPT ![x] = d]}
  PROVE  pc' \in [Procs -> States]
OBVIOUS

(* Without an attachment nothing is registered for it.                      *)
LEMMA NotAttachedKeeps ==
  ASSUME IInv, NEW x \in Procs, NotAttached(x)
  PROVE  IInv'
<1> USE Apart DEF IInv, TypeOK, NotAttached, Failing, sessionVars, chromeVars, registry,
  pageVars, Unlocked
<1> goal[x] \in Targets
  BY DEF GoalsAreSet, Locked
<1>1. TypeOK'
  <2>1. pc' \in [Procs -> States]
    <3>1. pc' \in {pc, [pc EXCEPT ![x] = "undo"], [pc EXCEPT ![x] = "done"]}
      OBVIOUS
    <3>2. {"undo", "done"} \subseteq States
      BY DEF States, Locked
    <3> QED BY <3>1, <3>2, Moves
  <2>2. lock' \in Procs \cup {Nobody}
    OBVIOUS
  <2>3. \A y \in Procs : pc'[y] \in Locked <=> lock' = y
    BY SMTT(60) DEF Locked
  <2>4. attachment' \in [Procs -> {"none", "sent", "live"}]
    OBVIOUS
  <2>5. UNCHANGED <<kind, session, context, sweep, visit, failed, target, events,
       refused, page, body, own, via, pages, retained, goal, callers, heard, entry,
       guard, replaced, opener, watcher, told>>
    OBVIOUS
  <2> QED BY <2>1, <2>2, <2>3, <2>4, <2>5
<1>2. GoalsAreSet'
  BY DEF GoalsAreSet, EventsAreTrue, Locked
<1>3. GuardsAreHeld'
  BY DEF GuardsAreHeld, EntriesAreGuarded, GoalsAreSet, Locked, Resources
<1>4. LockExcludes'
  <2>1. CASE pc[x] = "attach"
    BY <2>1 DEF LockExcludes, Locked
  <2>2. CASE pc[x] # "attach"
    BY <2>2 DEF LockExcludes, Locked
  <2> QED BY <2>1, <2>2
<1>5. CloseInOrder'
  BY DEF CloseInOrder, PagesAreWhole, Ending, Holds, Claimed
<1>6. AttachmentsAreKnown'
  BY DEF AttachmentsAreKnown, GoalsAreSet, PagesAreWhole, LockExcludes, GuardsAreHeld,
    Locked, Claimed, Resources
<1>7. /\ EventsAreTrue' /\ EntriesAreGuarded' /\ PagesAreWhole' /\ ContextHolds'
      /\ ClaimedPopupIsOwned'
  BY EventsStay, EntriesStay, PagesStay, ContextStays, OwnersStay
<1> QED BY <1>1, <1>2, <1>3, <1>4, <1>5, <1>6, <1>7

(* The registration of the attachment is still held.                        *)
LEMMA FramesKeeps ==
  ASSUME IInv, NEW x \in Procs, Frames(x)
  PROVE  IInv'
<1> USE Apart DEF IInv, TypeOK, Frames, Open, sessionVars, chromeVars, registry, pageVars
<1> goal[x] \in Targets
  BY DEF GoalsAreSet, Locked
<1>1. TypeOK'
  BY DEF States, Locked, Resources
<1>2. GoalsAreSet'
  BY DEF GoalsAreSet, EventsAreTrue, Locked
<1>3. GuardsAreHeld'
  BY DEF GuardsAreHeld, EntriesAreGuarded, GoalsAreSet, Locked, Resources
<1>4. LockExcludes'
  BY DEF LockExcludes, GoalsAreSet, Locked
<1>5. CloseInOrder'
  BY DEF CloseInOrder, PagesAreWhole, Ending, Holds, Claimed
<1>6. /\ EventsAreTrue' /\ EntriesAreGuarded' /\ PagesAreWhole' /\ ContextHolds'
      /\ AttachmentsAreKnown' /\ ClaimedPopupIsOwned'
  BY EventsStay, EntriesStay, PagesStay, ContextStays, AttachmentsStay, OwnersStay
<1> QED BY <1>1, <1>2, <1>3, <1>4, <1>5, <1>6

(* The registration of the attachment is still held.                        *)
LEMMA FramesFailKeeps ==
  ASSUME IInv, NEW x \in Procs, FramesFail(x)
  PROVE  IInv'
<1> USE Apart DEF IInv, TypeOK, FramesFail, sessionVars, chromeVars, registry, pageVars
<1> goal[x] \in Targets
  BY DEF GoalsAreSet, Locked
<1>1. TypeOK'
  BY DEF States, Locked, Resources
<1>2. GoalsAreSet'
  BY DEF GoalsAreSet, EventsAreTrue, Locked
<1>3. GuardsAreHeld'
  BY DEF GuardsAreHeld, EntriesAreGuarded, GoalsAreSet, Locked, Resources
<1>4. LockExcludes'
  BY DEF LockExcludes, GoalsAreSet, Locked
<1>5. CloseInOrder'
  BY DEF CloseInOrder, PagesAreWhole, Ending, Holds, Claimed
<1>6. /\ EventsAreTrue' /\ EntriesAreGuarded' /\ PagesAreWhole' /\ ContextHolds'
      /\ AttachmentsAreKnown' /\ ClaimedPopupIsOwned'
  BY EventsStay, EntriesStay, PagesStay, ContextStays, AttachmentsStay, OwnersStay
<1> QED BY <1>1, <1>2, <1>3, <1>4, <1>5, <1>6

(* The page takes over from both registrations.                             *)
LEMMA PublishKeeps ==
  ASSUME IInv, NEW x \in Procs, Publish(x)
  PROVE  IInv'
<1> USE Apart DEF IInv, TypeOK, Publish, Delivered, Resources, Removed, sessionVars,
  chromeVars, Unlocked
<1> goal[x] \in Targets
  BY DEF GoalsAreSet, Locked
<1>1. TypeOK'
  BY DEF States, Locked
<1>2. GoalsAreSet'
  BY DEF GoalsAreSet, EventsAreTrue, Locked
<1>3. EntriesAreGuarded'
  BY DEF EntriesAreGuarded, GoalsAreSet, GuardsAreHeld, Locked
<1>4. GuardsAreHeld'
  BY DEF GuardsAreHeld, EntriesAreGuarded, GoalsAreSet, Locked
<1>5. LockExcludes'
  BY DEF LockExcludes, GoalsAreSet, Locked
<1>6. PagesAreWhole'
  BY DEF PagesAreWhole, LockExcludes, GoalsAreSet, EventsAreTrue, ContextHolds,
    Claimed, Locked
<1>7. CloseInOrder'
  BY DEF CloseInOrder, PagesAreWhole, Ending, Holds, Claimed
<1>8. AttachmentsAreKnown'
  BY DEF AttachmentsAreKnown, GoalsAreSet, PagesAreWhole, LockExcludes, GuardsAreHeld,
    Locked, Claimed
<1>9. ClaimedPopupIsOwned'
  <2> SUFFICES ASSUME NEW u \in Targets, Claimed(u)', target'[u] = "alive", u \notin refused'
               PROVE  Owned(u)'
    BY DEF ClaimedPopupIsOwned
  <2>1. Claimed(u) /\ target[u] = "alive" /\ u \notin refused
    BY DEF Claimed, GoalsAreSet, Locked
  <2>2. Owned(u)
    BY <2>1 DEF ClaimedPopupIsOwned
  <2>3. ASSUME NEW f \in Expectations, goal[f] = u, guard["page"][f] \in {"scheduled", "failed"}
        PROVE  Owned(u)'
    BY <2>1, <2>3 DEF Owned, GuardsAreHeld, Locked
  <2>4. CASE entry["page"][u] # Nobody
    BY <2>1, <2>4 DEF Owned, EntriesAreGuarded, GuardsAreHeld, GoalsAreSet, Locked
  <2>5. CASE u \in retained
    BY <2>1, <2>5 DEF Owned, PagesAreWhole
  <2>6. CASE u \in pages /\ own[u] = "Created"
    BY <2>1, <2>6 DEF Owned, PagesAreWhole, LockExcludes, Locked
  <2>7. CASE context \in {"alive", "failed"}
    BY <2>1, <2>7 DEF Owned
  <2> QED BY <2>2, <2>3, <2>4, <2>5, <2>6, <2>7 DEF Owned
<1>10. EventsAreTrue' /\ ContextHolds'
  BY EventsStay, ContextStays
<1> QED BY <1>1, <1>2, <1>3, <1>4, <1>5, <1>6, <1>7, <1>8, <1>9, <1>10

(* The attachment is ended, or its failure is an answer.                    *)
LEMMA DetachKeeps ==
  ASSUME IInv, NEW x \in Procs, Detach(x)
  PROVE  IInv'
<1> TypeOK /\ x \in Procs /\ "page" \in Resources /\ "page-attachment" \in Resources
  BY Apart DEF IInv, Resources
<1> goal[x] \in Targets
  BY DEF IInv, TypeOK, GoalsAreSet, Locked, Detach
<1> Removes("page-attachment", x)
  BY RemovedOnly DEF Detach
<1> USE Apart DEF IInv, TypeOK, Detach, DetachSucceeds, DetachFails, Failing, sessionVars,
  pageVars, chromeVars, Unlocked, Removes, Resources
<1>1. TypeOK'
  BY DEF States, Locked
<1>2. GoalsAreSet'
  BY DEF GoalsAreSet, EventsAreTrue, Locked
<1>3. EntriesAreGuarded'
  BY DEF EntriesAreGuarded, GoalsAreSet, GuardsAreHeld, Locked
<1>4. GuardsAreHeld'
  BY DEF GuardsAreHeld, EntriesAreGuarded, GoalsAreSet, Locked
<1>5. LockExcludes'
  BY DEF LockExcludes, GoalsAreSet, Locked
<1>6. CloseInOrder'
  BY DEF CloseInOrder, PagesAreWhole, Ending, Holds, Claimed
<1>7. AttachmentsAreKnown'
  BY DEF AttachmentsAreKnown, GoalsAreSet, PagesAreWhole, LockExcludes, GuardsAreHeld,
    Locked, Claimed
<1>8. ClaimedPopupIsOwned'
  <2> SUFFICES ASSUME NEW u \in Targets, Claimed(u)', target'[u] = "alive", u \notin refused'
               PROVE  Owned(u)'
    BY DEF ClaimedPopupIsOwned
  <2>1. Claimed(u) /\ target[u] = "alive" /\ u \notin refused
    BY DEF Claimed, GoalsAreSet, Locked
  <2>2. Owned(u)
    BY <2>1 DEF ClaimedPopupIsOwned
  <2>3. ASSUME NEW f \in Expectations, goal[f] = u, guard["page"][f] \in {"scheduled", "failed"}
        PROVE  Owned(u)'
    BY <2>1, <2>3 DEF Owned, GuardsAreHeld, Locked
  <2>4. CASE entry["page"][u] # Nobody
    BY <2>1, <2>4 DEF Owned, EntriesAreGuarded, GuardsAreHeld, GoalsAreSet, Locked
  <2>5. CASE u \in retained
    BY <2>1, <2>5 DEF Owned, PagesAreWhole
  <2>6. CASE u \in pages /\ own[u] = "Created"
    BY <2>1, <2>6 DEF Owned, PagesAreWhole, LockExcludes, Locked
  <2>7. CASE context \in {"alive", "failed"}
    BY <2>1, <2>7 DEF Owned
  <2> QED BY <2>2, <2>3, <2>4, <2>5, <2>6, <2>7 DEF Owned
<1>9. EventsAreTrue' /\ PagesAreWhole' /\ ContextHolds'
  BY EventsStay, PagesStay, ContextStays
<1> QED BY <1>1, <1>2, <1>3, <1>4, <1>5, <1>6, <1>7, <1>8, <1>9

(* The attachment is ended when its registration is, or its failure is kept.*)
LEMMA DetachScheduledKeeps ==
  ASSUME IInv, NEW x \in Procs, DetachScheduled(x)
  PROVE  IInv'
<1> TypeOK /\ x \in Procs /\ "page" \in Resources /\ "page-attachment" \in Resources
  BY Apart DEF IInv, Resources
<1> goal[x] \in Targets
  BY DEF IInv, TypeOK, GoalsAreSet, Locked, DetachScheduled, Cleaned
<1> Cleans("page-attachment", x)
  BY CleanedOnly DEF DetachScheduled
<1> /\ \/ attachment' = [attachment EXCEPT ![x] = "none"] /\ UNCHANGED refused
       \/ refused' = refused \cup {x} /\ UNCHANGED attachment
    /\ UNCHANGED <<sessionVars, opener, target, events, watcher, pc, goal, callers, heard>>
    /\ UNCHANGED <<lock, replaced, pageVars, told>>
  BY DEF DetachScheduled, DetachSucceeds, DetachFails, chromeVars
<1> \A q \in Resources, y \in Procs : guard[q][y] = "none" => guard'[q][y] = "none"
  BY DEF Cleans
<1> USE Apart DEF IInv, TypeOK, sessionVars, pageVars, Cleans, Removes, Resources
<1>1. TypeOK'
  BY DEF States, Locked
<1>2. GoalsAreSet'
  <2>1. \A y \in Procs : attachment[y] = "none" => attachment'[y] = "none"
    OBVIOUS
  <2> HIDE DEF Cleans, Removes
  <2> QED BY <2>1 DEF GoalsAreSet, Locked
<1>3. EntriesAreGuarded'
  BY DEF EntriesAreGuarded, GoalsAreSet, GuardsAreHeld, Locked
<1>4. GuardsAreHeld'
  <2>1. \A q \in Resources, y \in Procs :
          /\ q = "page" => guard'[q][y] = guard[q][y]
          /\ guard'[q][y] \in {"armed", "scheduled"} =>
               guard'[q][y] = guard[q][y] /\ (q = "page" \/ y # x)
    OBVIOUS
  <2>2. \A y \in Procs :
          y # x /\ goal[y] \in Targets /\ entry["page-attachment"][goal[y]] = y =>
            entry'["page-attachment"][goal[y]] = y
    OBVIOUS
  <2>3. \A y \in Procs : goal[y] \in Targets \/ guard["page-attachment"][y] = "none"
    BY DEF GoalsAreSet
  <2>4. refused \subseteq refused'
    OBVIOUS
  <2> HIDE DEF Cleans, Removes
  <2> QED BY <2>1, <2>2, <2>3, <2>4 DEF GuardsAreHeld, Locked
<1>5. CloseInOrder'
  BY DEF CloseInOrder, PagesAreWhole, Ending, Holds, Claimed
<1>6. AttachmentsAreKnown'
  BY DEF AttachmentsAreKnown, GoalsAreSet, PagesAreWhole, LockExcludes, GuardsAreHeld,
    Locked, Claimed
<1>7. ClaimedPopupIsOwned'
  <2> SUFFICES ASSUME NEW u \in Targets, Claimed(u)', target'[u] = "alive", u \notin refused'
               PROVE  Owned(u)'
    BY DEF ClaimedPopupIsOwned
  <2>1. Claimed(u) /\ target[u] = "alive" /\ u \notin refused
    BY DEF Claimed, GoalsAreSet, Locked
  <2>2. Owned(u)
    BY <2>1 DEF ClaimedPopupIsOwned
  <2>3. ASSUME NEW f \in Expectations, goal[f] = u, guard["page"][f] \in {"scheduled", "failed"}
        PROVE  Owned(u)'
    BY <2>1, <2>3 DEF Owned, GuardsAreHeld, Locked
  <2>4. CASE entry["page"][u] # Nobody
    BY <2>1, <2>4 DEF Owned, EntriesAreGuarded, GuardsAreHeld, GoalsAreSet, Locked
  <2>5. CASE u \in retained
    BY <2>1, <2>5 DEF Owned, PagesAreWhole
  <2>6. CASE u \in pages /\ own[u] = "Created"
    BY <2>1, <2>6 DEF Owned, PagesAreWhole, LockExcludes, Locked
  <2>7. CASE context \in {"alive", "failed"}
    BY <2>1, <2>7 DEF Owned
  <2> QED BY <2>2, <2>3, <2>4, <2>5, <2>6, <2>7 DEF Owned
<1>8. EventsAreTrue' /\ LockExcludes' /\ PagesAreWhole' /\ ContextHolds'
  BY EventsStay, LockStays, PagesStay, ContextStays
<1> QED BY <1>1, <1>2, <1>3, <1>4, <1>5, <1>6, <1>7, <1>8

(* Who listens hears of targets that exist.                                 *)
LEMMA ReadEventKeeps ==
  ASSUME IInv, ReadEvent
  PROVE  IInv'
<1> Reads
  BY ReadingTells DEF IInv
<1> /\ UNCHANGED <<sessionVars, opener, target, refused, pc, goal, callers, lock, attachment>>
    /\ UNCHANGED <<registry, pageVars, told>>
  BY DEF ReadEvent
<1> USE Apart DEF IInv, TypeOK, sessionVars, registry, pageVars, Reads
<1>1. TypeOK'
  BY DEF States, Locked, Resources
<1>2. EventsAreTrue'
  BY ReadEventsAreTrue
<1>3. /\ GoalsAreSet' /\ EntriesAreGuarded' /\ GuardsAreHeld' /\ LockExcludes'
      /\ PagesAreWhole' /\ CloseInOrder' /\ ContextHolds' /\ AttachmentsAreKnown'
      /\ ClaimedPopupIsOwned'
  BY GoalsStay, EntriesStay, GuardsStay, LockStays, PagesStay, CloseStays,
    ContextStays, AttachmentsStay, OwnersStay
<1> QED BY <1>1, <1>2, <1>3

(* The page of a target that is gone starts to close.                       *)
LEMMA LookUpKeeps ==
  ASSUME IInv, NEW t \in Targets, LookUp(t)
  PROVE  IInv'
<1> USE Apart DEF IInv, TypeOK, LookUp, StartClose, sessionVars, chromeVars, callVars,
  registry
<1>1. TypeOK'
  <2>1. watcher' \in {"next", "look", "wait"} \X (Targets \cup {Nobody})
    OBVIOUS
  <2>2. page' \in [Targets -> {"none", "open", "closing", "closed", "failed"}]
    <3>1. CASE StartClose(t, "destroyed")
      BY <3>1
    <3>2. CASE page' = page
      BY <3>2
    <3> QED BY <3>1, <3>2
  <2>3. body' \in [Targets -> {"none", "close", "detach", "target", "destroyed", "session"}]
    <3>1. CASE StartClose(t, "destroyed")
      BY <3>1
    <3>2. CASE body' = body
      BY <3>2
    <3> QED BY <3>1, <3>2
  <2>4. UNCHANGED <<kind, session, context, sweep, visit, failed, target, events,
       refused, own, via, pages, retained, pc, goal, callers, heard, lock,
       attachment, entry, guard, replaced, opener, told>>
    OBVIOUS
  <2> QED BY <2>1, <2>2, <2>3, <2>4
<1>2. EventsAreTrue'
  BY DEF EventsAreTrue
<1>3. PagesAreWhole'
  BY DEF PagesAreWhole, LockExcludes, GoalsAreSet, EventsAreTrue, ContextHolds,
    Claimed, Locked
<1>4. /\ GoalsAreSet' /\ EntriesAreGuarded' /\ GuardsAreHeld' /\ LockExcludes'
      /\ CloseInOrder' /\ ContextHolds' /\ AttachmentsAreKnown'
      /\ ClaimedPopupIsOwned'
  BY GoalsStay, EntriesStay, GuardsStay, LockStays, CloseStays, ContextStays,
    AttachmentsStay, OwnersStay
<1> QED BY <1>1, <1>2, <1>3, <1>4

(* The watcher goes on.                                                     *)
LEMMA WatchedKeeps ==
  ASSUME IInv, NEW t \in Targets, Watched(t)
  PROVE  IInv'
<1> USE Apart DEF IInv, TypeOK, Watched, sessionVars, chromeVars, callVars, registry,
  pageVars
<1>1. TypeOK'
  BY DEF States, Locked, Resources
<1>2. EventsAreTrue'
  BY DEF EventsAreTrue
<1>3. /\ GoalsAreSet' /\ EntriesAreGuarded' /\ GuardsAreHeld' /\ LockExcludes'
      /\ PagesAreWhole' /\ CloseInOrder' /\ ContextHolds' /\ AttachmentsAreKnown'
      /\ ClaimedPopupIsOwned'
  BY GoalsStay, EntriesStay, GuardsStay, LockStays, PagesStay, CloseStays,
    ContextStays, AttachmentsStay, OwnersStay
<1> QED BY <1>1, <1>2, <1>3

(* What the page owns decides what its close does.                          *)
LEMMA ActOnCloseKeeps ==
  ASSUME IInv, NEW t \in Targets, ActOnClose(t)
  PROVE  IInv'
<1> USE Apart DEF IInv, TypeOK, ActOnClose, sessionVars, chromeVars, callVars, registry
<1>1. TypeOK'
  BY DEF States, Locked, Resources
<1>2. PagesAreWhole'
  BY DEF PagesAreWhole, LockExcludes, GoalsAreSet, EventsAreTrue, ContextHolds,
    Claimed, Locked
<1>3. ClaimedPopupIsOwned'
  <2> SUFFICES ASSUME NEW u \in Targets, Claimed(u)', target'[u] = "alive", u \notin refused'
               PROVE  Owned(u)'
    BY DEF ClaimedPopupIsOwned
  <2>1. Claimed(u) /\ target[u] = "alive" /\ u \notin refused
    BY DEF Claimed, GoalsAreSet, Locked
  <2>2. Owned(u)
    BY <2>1 DEF ClaimedPopupIsOwned
  <2>3. ASSUME NEW f \in Expectations, goal[f] = u, guard["page"][f] \in {"scheduled", "failed"}
        PROVE  Owned(u)'
    BY <2>1, <2>3 DEF Owned, GuardsAreHeld, Locked, Resources
  <2>4. CASE entry["page"][u] # Nobody
    BY <2>1, <2>4 DEF Owned, EntriesAreGuarded, GuardsAreHeld, GoalsAreSet, Locked,
      Resources
  <2>5. CASE u \in retained
    BY <2>1, <2>5 DEF Owned, PagesAreWhole
  <2>6. CASE u \in pages /\ own[u] = "Created"
    BY <2>1, <2>6 DEF Owned, PagesAreWhole, LockExcludes, Locked
  <2>7. CASE context \in {"alive", "failed"}
    BY <2>1, <2>7 DEF Owned
  <2> QED BY <2>2, <2>3, <2>4, <2>5, <2>6, <2>7 DEF Owned
<1>4. /\ EventsAreTrue' /\ GoalsAreSet' /\ EntriesAreGuarded' /\ GuardsAreHeld'
      /\ LockExcludes' /\ CloseInOrder' /\ ContextHolds' /\ AttachmentsAreKnown'
  BY EventsStay, GoalsStay, EntriesStay, GuardsStay, LockStays, CloseStays,
    ContextStays, AttachmentsStay
<1> QED BY <1>1, <1>2, <1>3, <1>4

(* A created target is gone with its page, a borrowed one is let go.        *)
LEMMA FinishCloseKeeps ==
  ASSUME IInv, NEW t \in Targets, FinishClose(t)
  PROVE  IInv'
<1> TypeOK /\ t \in pages /\ via[t] \in Procs /\ goal[via[t]] = t
  BY DEF IInv, TypeOK, PagesAreWhole, FinishClose
<1> \/ /\ body[t] = "target" /\ AsksToClose(t) /\ UNCHANGED attachment
       /\ (Ended(t) /\ target'[t] = "gone") \/ NotEnded(t)
    \/ /\ body[t] = "detach" /\ UNCHANGED <<target, events>>
       /\ \/ refused' = refused /\ Ended(t)
          \/ refused' = refused \cup {via[t]} /\ NotEnded(t)
       /\ \/ attachment' = [attachment EXCEPT ![via[t]] = "none"]
          \/ UNCHANGED attachment /\ (Ended(t) => target[t] = "gone")
  <2>1. CASE body[t] = "target" /\ CloseSucceeds(t) /\ Ended(t) /\ UNCHANGED attachment
    <3>1. AsksToClose(t) /\ target'[t] = "gone"
      BY <2>1, ClosingTells DEF CloseSucceeds, TypeOK
    <3> QED BY <2>1, <3>1
  <2>2. CASE body[t] = "target" /\ CloseFails(t) /\ NotEnded(t) /\ UNCHANGED attachment
    BY <2>2, ClosingTells
  <2>3. CASE body[t] = "detach"
    BY <2>3 DEF FinishClose, DetachSucceeds, DetachFails, chromeVars, Ended, NotEnded
  <2> QED BY <2>1, <2>2, <2>3 DEF FinishClose
<1> /\ page[t] = "closing"
    /\ UNCHANGED <<sessionVars, opener, watcher, pc, goal, callers, heard, lock, registry>>
    /\ UNCHANGED <<own, via, retained, told>>
  BY DEF FinishClose
<1> USE Apart DEF IInv, TypeOK, Ended, NotEnded, chromeVars, sessionVars, registry,
  AsksToClose
<1>1. TypeOK'
  <2>1. target' \in [Targets -> {"absent", "alive", "gone"}]
    OBVIOUS
  <2>2. events' \in Seq({"created", "destroyed"} \X Targets)
    OBVIOUS
  <2>3. attachment' \in [Procs -> {"none", "sent", "live"}]
    OBVIOUS
  <2>4. page' \in [Targets -> {"none", "open", "closing", "closed", "failed"}]
    <3>1. page' = [page EXCEPT ![t] = "closed"] \/ page' = [page EXCEPT ![t] = "failed"]
      OBVIOUS
    <3> QED BY ZenonT(60), <3>1
  <2>5. body' \in [Targets -> {"none", "close", "detach", "target", "destroyed", "session"}]
    BY ZenonT(60)
  <2>6. pages' \cup sweep' \cup told' \cup retained' \subseteq Targets
    OBVIOUS
  <2>7. refused' \subseteq Targets \cup Procs
    OBVIOUS
  <2>8. UNCHANGED <<kind, session, context, sweep, visit, failed, own, via,
       retained, pc, goal, callers, heard, lock, entry, guard, replaced, opener,
       watcher, told>>
    OBVIOUS
  <2> QED BY <2>1, <2>2, <2>3, <2>4, <2>5, <2>6, <2>7, <2>8
<1>2. EventsAreTrue'
  <2>1. CASE AsksToClose(t)
    BY <2>1, ClosedEventsAreTrue DEF NotEnded
  <2>2. CASE UNCHANGED <<target, events>>
    BY <2>2, EventsStay
  <2> QED BY <2>1, <2>2
<1>3. GoalsAreSet'
  BY DEF GoalsAreSet, EventsAreTrue, Locked
<1>4. GuardsAreHeld'
  BY DEF GuardsAreHeld, EntriesAreGuarded, GoalsAreSet, Locked, Resources
<1>5. LockExcludes'
  BY DEF LockExcludes, GoalsAreSet, Locked
<1>6. PagesAreWhole'
  BY DEF PagesAreWhole, LockExcludes, GoalsAreSet, EventsAreTrue, ContextHolds,
    Claimed, Locked
<1>7. CloseInOrder'
  BY DEF CloseInOrder, PagesAreWhole, Ending, Holds, Claimed
<1>8. ContextHolds'
  BY DEF ContextHolds, GoalsAreSet, CloseInOrder, Locked, Ending, Holds
<1>9. AttachmentsAreKnown'
  BY DEF AttachmentsAreKnown, GoalsAreSet, PagesAreWhole, LockExcludes, GuardsAreHeld,
    Locked, Claimed, Resources
<1>10. ClaimedPopupIsOwned'
  <2> SUFFICES ASSUME NEW u \in Targets, Claimed(u)', target'[u] = "alive", u \notin refused'
               PROVE  Owned(u)'
    BY DEF ClaimedPopupIsOwned
  <2>1. Claimed(u) /\ target[u] = "alive" /\ u \notin refused
    BY DEF Claimed, GoalsAreSet, Locked
  <2>2. Owned(u)
    BY <2>1 DEF ClaimedPopupIsOwned
  <2>3. ASSUME NEW f \in Expectations, goal[f] = u, guard["page"][f] \in {"scheduled", "failed"}
        PROVE  Owned(u)'
    BY <2>1, <2>3 DEF Owned, GuardsAreHeld, Locked, Resources
  <2>4. CASE entry["page"][u] # Nobody
    BY <2>1, <2>4 DEF Owned, EntriesAreGuarded, GuardsAreHeld, GoalsAreSet, Locked,
      Resources
  <2>5. CASE u \in retained
    BY <2>1, <2>5 DEF Owned, PagesAreWhole
  <2>6. CASE u \in pages /\ own[u] = "Created"
    BY <2>1, <2>6, AttachAssumption
      DEF PagesAreWhole, ContextHolds, Owned, Claimed, AttachAssumption
  <2>7. CASE context \in {"alive", "failed"}
    BY <2>1, <2>7 DEF Owned
  <2> QED BY <2>2, <2>3, <2>4, <2>5, <2>6, <2>7 DEF Owned
<1>11. EntriesAreGuarded'
  BY EntriesStay
<1> QED BY <1>1, <1>2, <1>3, <1>4, <1>5, <1>6, <1>7, <1>8, <1>9, <1>10, <1>11

(* The target of the page was gone before.                                  *)
LEMMA FinishGoneKeeps ==
  ASSUME IInv, NEW t \in Targets, FinishGone(t)
  PROVE  IInv'
<1> USE Apart DEF IInv, TypeOK, FinishGone, Ended, sessionVars, chromeVars, callVars,
  registry
<1>1. TypeOK'
  BY DEF States, Locked, Resources
<1>2. LockExcludes'
  BY DEF LockExcludes, GoalsAreSet, Locked
<1>3. PagesAreWhole'
  BY DEF PagesAreWhole, LockExcludes, GoalsAreSet, EventsAreTrue, ContextHolds,
    Claimed, Locked
<1>4. CloseInOrder'
  BY DEF CloseInOrder, PagesAreWhole, Ending, Holds, Claimed
<1>5. AttachmentsAreKnown'
  BY DEF AttachmentsAreKnown, GoalsAreSet, PagesAreWhole, LockExcludes, GuardsAreHeld,
    Locked, Claimed, Resources
<1>6. ClaimedPopupIsOwned'
  <2> SUFFICES ASSUME NEW u \in Targets, Claimed(u)', target'[u] = "alive", u \notin refused'
               PROVE  Owned(u)'
    BY DEF ClaimedPopupIsOwned
  <2>1. Claimed(u) /\ target[u] = "alive" /\ u \notin refused
    BY DEF Claimed, GoalsAreSet, Locked
  <2>2. Owned(u)
    BY <2>1 DEF ClaimedPopupIsOwned
  <2>3. ASSUME NEW f \in Expectations, goal[f] = u, guard["page"][f] \in {"scheduled", "failed"}
        PROVE  Owned(u)'
    BY <2>1, <2>3 DEF Owned, GuardsAreHeld, Locked, Resources
  <2>4. CASE entry["page"][u] # Nobody
    BY <2>1, <2>4 DEF Owned, EntriesAreGuarded, GuardsAreHeld, GoalsAreSet, Locked,
      Resources
  <2>5. CASE u \in retained
    BY <2>1, <2>5 DEF PagesAreWhole, Owned, Claimed
  <2>6. CASE u \in pages /\ own[u] = "Created"
    BY <2>1, <2>6 DEF Owned, PagesAreWhole, LockExcludes, Locked
  <2>7. CASE context \in {"alive", "failed"}
    BY <2>1, <2>7 DEF Owned
  <2> QED BY <2>2, <2>3, <2>4, <2>5, <2>6, <2>7 DEF Owned
<1>7. /\ EventsAreTrue' /\ GoalsAreSet' /\ EntriesAreGuarded' /\ GuardsAreHeld'
      /\ ContextHolds'
  BY EventsStay, GoalsStay, EntriesStay, GuardsStay, ContextStays
<1> QED BY <1>1, <1>2, <1>3, <1>4, <1>5, <1>6, <1>7

(* The opener has no call left.                                             *)
LEMMA DrainOpenerKeeps ==
  ASSUME IInv, DrainOpener
  PROVE  IInv'
<1> USE Apart DEF IInv, TypeOK, DrainOpener, sessionVars, chromeVars, callVars, registry,
  pageVars
<1>1. TypeOK'
  BY DEF States, Locked, Resources
<1>2. /\ EventsAreTrue' /\ GoalsAreSet' /\ EntriesAreGuarded' /\ GuardsAreHeld'
      /\ LockExcludes' /\ PagesAreWhole' /\ CloseInOrder' /\ ContextHolds'
      /\ AttachmentsAreKnown' /\ ClaimedPopupIsOwned'
  BY EventsStay, GoalsStay, EntriesStay, GuardsStay, LockStays, PagesStay, CloseStays,
    ContextStays, AttachmentsStay, OwnersStay
<1> QED BY <1>1, <1>2

(* No call is left that could register or publish.                          *)
LEMMA DrainSessionKeeps ==
  ASSUME IInv, DrainSession
  PROVE  IInv'
<1> USE Apart DEF IInv, TypeOK, DrainSession, Holds, chromeVars, callVars, registry,
  pageVars
<1>1. TypeOK'
  BY DEF States, Locked, Resources
<1>2. CloseInOrder'
  BY DEF CloseInOrder, PagesAreWhole, Ending, Claimed
<1>3. ContextHolds'
  BY DEF ContextHolds, GoalsAreSet, CloseInOrder, Locked, Ending
<1>4. /\ EventsAreTrue' /\ GoalsAreSet' /\ EntriesAreGuarded' /\ GuardsAreHeld'
      /\ LockExcludes' /\ PagesAreWhole' /\ AttachmentsAreKnown'
      /\ ClaimedPopupIsOwned'
  BY EventsStay, GoalsStay, EntriesStay, GuardsStay, LockStays, PagesStay,
    AttachmentsStay, OwnersStay
<1> QED BY <1>1, <1>2, <1>3, <1>4

(* What is left to clean was refused by Chrome, and is reported.            *)
LEMMA SweepPendingKeeps ==
  ASSUME IInv, SweepPending
  PROVE  IInv'
<1> USE Apart DEF IInv, TypeOK, SweepPending, Resources, chromeVars, callVars, pageVars
<1> "page" \in Resources /\ "page-attachment" \in Resources
  BY DEF Resources
<1> \A r \in {"page", "page-attachment"}, y \in Procs :
      guard[r][y] = "failed" => goal[y] \in Targets
  BY DEF GoalsAreSet
<1>1. TypeOK'
  BY DEF States, Locked
<1>2. GoalsAreSet'
  BY DEF GoalsAreSet, EventsAreTrue, Locked
<1>3. EntriesAreGuarded'
  BY DEF EntriesAreGuarded, GoalsAreSet, GuardsAreHeld, Locked
<1>4. GuardsAreHeld'
  BY DEF GuardsAreHeld, EntriesAreGuarded, GoalsAreSet, Locked
<1>5. CloseInOrder'
  BY DEF CloseInOrder, PagesAreWhole, Ending, Holds, Claimed
<1>6. ContextHolds'
  BY DEF ContextHolds, GoalsAreSet, CloseInOrder, Locked, Ending, Holds
<1>7. ClaimedPopupIsOwned'
  <2> SUFFICES ASSUME NEW u \in Targets, Claimed(u)', target'[u] = "alive", u \notin refused'
               PROVE  Owned(u)'
    BY DEF ClaimedPopupIsOwned
  <2>1. Claimed(u) /\ target[u] = "alive" /\ u \notin refused
    BY DEF Claimed, GoalsAreSet, Locked
  <2>2. Owned(u)
    BY <2>1 DEF ClaimedPopupIsOwned
  <2>3. ASSUME NEW f \in Expectations, goal[f] = u, guard["page"][f] \in {"scheduled", "failed"}
        PROVE  Owned(u)'
    BY <2>1, <2>3 DEF Owned, GuardsAreHeld, Locked
  <2>4. CASE entry["page"][u] # Nobody
    BY <2>1, <2>4 DEF Owned, EntriesAreGuarded, GuardsAreHeld, GoalsAreSet, Locked
  <2>5. CASE u \in retained
    BY <2>1, <2>5 DEF Owned, PagesAreWhole
  <2>6. CASE u \in pages /\ own[u] = "Created"
    BY <2>1, <2>6 DEF Owned, PagesAreWhole, LockExcludes, Locked
  <2>7. CASE context \in {"alive", "failed"}
    BY <2>1, <2>7 DEF Owned
  <2> QED BY <2>2, <2>3, <2>4, <2>5, <2>6, <2>7 DEF Owned
<1>8. EventsAreTrue' /\ LockExcludes' /\ PagesAreWhole' /\ AttachmentsAreKnown'
  BY EventsStay, LockStays, PagesStay, AttachmentsStay
<1> QED BY <1>1, <1>2, <1>3, <1>4, <1>5, <1>6, <1>7, <1>8

(* The targets of the context are gone with it.                             *)
LEMMA DisposeContextKeeps ==
  ASSUME IInv, DisposeContext
  PROVE  IInv'
<1> Disposes /\ session = "context"
  BY DisposalTells DEF IInv, DisposeContext
<1> /\ UNCHANGED <<kind, sweep, visit, opener, refused, watcher, callVars, registry>>
    /\ UNCHANGED <<pageVars, told>>
  BY DEF DisposeContext
<1> USE Apart DEF IInv, TypeOK, Context, callVars, registry, pageVars, Disposes
<1>1. TypeOK'
  BY DEF States, Locked, Resources
<1>2. EventsAreTrue'
  BY DEF EventsAreTrue
<1>3. GoalsAreSet'
  BY DEF GoalsAreSet, EventsAreTrue, Locked
<1>4. PagesAreWhole'
  BY DEF PagesAreWhole, LockExcludes, GoalsAreSet, EventsAreTrue, ContextHolds,
    Claimed, Locked
<1>5. CloseInOrder'
  <2>1. CASE context' = "gone"
    <3>1. /\ session' = "mark" /\ failed' = failed
          /\ \A u \in Targets : target'[u] = IF target[u] = "alive" THEN "gone" ELSE target[u]
      BY <2>1
    <3> HIDE DEF Disposes
    <3> QED BY <2>1, <3>1 DEF CloseInOrder, Ending, Holds, GoalsAreSet
  <2>2. CASE context' = "failed"
    <3>1. session' = "end" /\ failed' = failed \cup {Context} /\ UNCHANGED target
      BY <2>2
    <3> HIDE DEF Disposes
    <3> QED BY <2>2, <3>1 DEF CloseInOrder, Ending, Holds, GoalsAreSet
  <2> QED BY <2>1, <2>2
<1>6. ContextHolds'
  <2>1. CASE context' = "gone"
    <3>1. /\ session' = "mark" /\ failed' = failed
          /\ \A u \in Targets : target'[u] = IF target[u] = "alive" THEN "gone" ELSE target[u]
      BY <2>1
    <3> HIDE DEF Disposes
    <3> QED BY <2>1, <3>1 DEF ContextHolds, GoalsAreSet
  <2>2. CASE context' = "failed"
    <3>1. session' = "end" /\ failed' = failed \cup {Context} /\ UNCHANGED target
      BY <2>2
    <3> HIDE DEF Disposes
    <3> QED BY <2>2, <3>1 DEF ContextHolds, GoalsAreSet
  <2> QED BY <2>1, <2>2
<1>7. AttachmentsAreKnown'
  BY DEF AttachmentsAreKnown, GoalsAreSet, PagesAreWhole, LockExcludes, GuardsAreHeld,
    Locked, Claimed, Resources
<1>8. ClaimedPopupIsOwned'
  BY DEF ClaimedPopupIsOwned, PagesAreWhole, EntriesAreGuarded, GuardsAreHeld,
    GoalsAreSet, CloseInOrder, ContextHolds, LockExcludes, Claimed, Owned, Resources,
    Locked, Ending, Holds
<1>9. EntriesAreGuarded' /\ GuardsAreHeld' /\ LockExcludes'
  BY EntriesStay, GuardsStay, LockStays
<1> QED BY <1>1, <1>2, <1>3, <1>4, <1>5, <1>6, <1>7, <1>8, <1>9

(* A complete report is one of a session without pages.                     *)
LEMMA EndSessionKeeps ==
  ASSUME IInv, EndSession
  PROVE  IInv'
<1> pages' = pages
  <2>1. CASE session = "end"
    BY <2>1 DEF IInv, EndSession, CloseInOrder
  <2>2. CASE session # "end" /\ failed = {}
    <3>1. \A t \in pages : FALSE
      BY <2>2, Apart DEF IInv, TypeOK, EndSession, CloseInOrder, Ending
    <3> QED BY <2>2, <3>1 DEF EndSession
  <2>3. CASE failed # {}
    BY <2>3 DEF EndSession
  <2> QED BY <2>1, <2>2, <2>3
<1> USE Apart DEF IInv, TypeOK, EndSession, callVars, registry
<1>1. TypeOK'
  BY DEF States, Locked, Resources
<1>2. EventsAreTrue'
  BY DEF EventsAreTrue
<1>3. LockExcludes'
  BY DEF LockExcludes, GoalsAreSet, Locked
<1>4. PagesAreWhole'
  BY DEF PagesAreWhole, LockExcludes, GoalsAreSet, EventsAreTrue, ContextHolds,
    Claimed, Locked
<1>5. CloseInOrder'
  BY DEF CloseInOrder, PagesAreWhole, Ending, Holds, Claimed
<1>6. ContextHolds'
  BY DEF ContextHolds, GoalsAreSet, CloseInOrder, Locked, Ending, Holds
<1>7. AttachmentsAreKnown'
  BY DEF AttachmentsAreKnown, GoalsAreSet, PagesAreWhole, LockExcludes, GuardsAreHeld,
    Locked, Claimed, Resources
<1>8. ClaimedPopupIsOwned'
  <2> SUFFICES ASSUME NEW u \in Targets, Claimed(u)', target'[u] = "alive", u \notin refused'
               PROVE  Owned(u)'
    BY DEF ClaimedPopupIsOwned
  <2>1. Claimed(u) /\ target[u] = "alive" /\ u \notin refused
    BY DEF Claimed, GoalsAreSet, Locked
  <2>2. Owned(u)
    BY <2>1 DEF ClaimedPopupIsOwned
  <2>3. ASSUME NEW f \in Expectations, goal[f] = u, guard["page"][f] \in {"scheduled", "failed"}
        PROVE  Owned(u)'
    BY <2>1, <2>3 DEF Owned, GuardsAreHeld, Locked, Resources
  <2>4. CASE entry["page"][u] # Nobody
    BY <2>1, <2>4 DEF Owned, EntriesAreGuarded, GuardsAreHeld, GoalsAreSet, Locked,
      Resources
  <2>5. CASE u \in retained
    BY <2>1, <2>5 DEF Owned, PagesAreWhole
  <2>6. CASE u \in pages /\ own[u] = "Created"
    BY <2>1, <2>6 DEF Owned, PagesAreWhole, LockExcludes, Locked
  <2>7. CASE context \in {"alive", "failed"}
    BY <2>1, <2>7 DEF Owned
  <2> QED BY <2>2, <2>3, <2>4, <2>5, <2>6, <2>7 DEF Owned
<1>9. GoalsAreSet' /\ EntriesAreGuarded' /\ GuardsAreHeld'
  BY GoalsStay, EntriesStay, GuardsStay
<1> QED BY <1>1, <1>2, <1>3, <1>4, <1>5, <1>6, <1>7, <1>8, <1>9

(* The page is awaited, so it stays accounted for.                          *)
LEMMA VisitPageKeeps ==
  ASSUME IInv, NEW t \in Targets, VisitPage(t)
  PROVE  IInv'
<1> USE Apart DEF IInv, TypeOK, VisitPage, StartClose, chromeVars, callVars, registry
<1>1. TypeOK'
  BY DEF States, Locked, Resources
<1>2. PagesAreWhole'
  BY DEF PagesAreWhole, LockExcludes, GoalsAreSet, EventsAreTrue, ContextHolds,
    Claimed, Locked
<1>3. CloseInOrder'
  BY DEF CloseInOrder, PagesAreWhole, Ending, Holds, Claimed
<1>4. /\ EventsAreTrue' /\ GoalsAreSet' /\ EntriesAreGuarded' /\ GuardsAreHeld'
      /\ LockExcludes' /\ ContextHolds' /\ AttachmentsAreKnown'
      /\ ClaimedPopupIsOwned'
  BY EventsStay, GoalsStay, EntriesStay, GuardsStay, LockStays, ContextStays,
    AttachmentsStay, OwnersStay
<1> QED BY <1>1, <1>2, <1>3, <1>4

(* A page that failed is in the report.                                     *)
LEMMA LeavePageKeeps ==
  ASSUME IInv, NEW t \in Targets, LeavePage(t)
  PROVE  IInv'
<1> USE Apart DEF IInv, TypeOK, LeavePage, chromeVars, callVars, registry, pageVars
<1>1. TypeOK'
  BY DEF States, Locked, Resources
<1>2. CloseInOrder'
  BY SMTT(60) DEF CloseInOrder, PagesAreWhole, Ending, Holds, Claimed
<1>3. /\ EventsAreTrue' /\ GoalsAreSet' /\ EntriesAreGuarded' /\ GuardsAreHeld'
      /\ LockExcludes' /\ PagesAreWhole' /\ ContextHolds' /\ AttachmentsAreKnown'
      /\ ClaimedPopupIsOwned'
  BY EventsStay, GoalsStay, EntriesStay, GuardsStay, LockStays, PagesStay,
    ContextStays, AttachmentsStay, OwnersStay
<1> QED BY <1>1, <1>2, <1>3

-----------------------------------------------------------------------------
(* Before any call nothing is registered, attached or claimed.              *)
LEMMA InitHolds ==
  ASSUME Init
  PROVE  IInv
<1> USE Apart DEF Init
<1>1. TypeOK
  <2>1. pc \in [Procs -> States] /\ \A x \in Procs : pc[x] \in Locked <=> lock = x
    BY DEF States, Locked
  <2>2. /\ entry \in [Resources -> [Targets -> Procs \cup {Nobody}]]
        /\ guard \in [Resources -> [Procs -> {"none", "armed", "scheduled", "failed"}]]
    OBVIOUS
  <2>3. /\ events \in Seq({"created", "destroyed"} \X Targets)
        /\ heard \in [Expectations -> Seq(Targets)]
    OBVIOUS
  <2>4. watcher \in {"next", "look", "wait"} \X (Targets \cup {Nobody})
    OBVIOUS
  <2> QED BY <2>1, <2>2, <2>3, <2>4 DEF TypeOK
<1>2. EventsAreTrue
  BY DEF EventsAreTrue
<1>3. GoalsAreSet /\ LockExcludes
  BY DEF GoalsAreSet, LockExcludes, Locked, Resources
<1>4. EntriesAreGuarded /\ GuardsAreHeld
  BY DEF EntriesAreGuarded, GuardsAreHeld, Locked, Resources
<1>5. PagesAreWhole
  BY DEF PagesAreWhole
<1>6. CloseInOrder /\ ContextHolds
  BY AttachAssumption DEF CloseInOrder, ContextHolds, Ending, AttachAssumption
<1>7. AttachmentsAreKnown /\ ClaimedPopupIsOwned
  BY DEF AttachmentsAreKnown, ClaimedPopupIsOwned, Claimed
<1> QED BY <1>1, <1>2, <1>3, <1>4, <1>5, <1>6, <1>7 DEF IInv

(* Every call and every step of what runs keeps the invariant.              *)
LEMMA NextKeeps ==
  ASSUME IInv, [Next]_vars
  PROVE  IInv'
<1> USE DEF IInv
<1>1. CASE Calls
  <2>1. ASSUME NEW t \in Targets, OpenPopup(t)
        PROVE  IInv'
    BY <2>1, OpenPopupKeeps
  <2>2. ASSUME NEW t \in Targets, DestroyTarget(t)
        PROVE  IInv'
    BY <2>2, DestroyTargetKeeps
  <2>3. ASSUME NEW t \in Targets, ClosePage(t)
        PROVE  IInv'
    BY <2>3, ClosePageKeeps
  <2>4. CASE CloseOpener
    BY <2>4, CloseOpenerKeeps
  <2>5. CASE CloseSession
    BY <2>5, CloseSessionKeeps
  <2>6. ASSUME NEW e \in Expectations, Expect(e)
        PROVE  IInv'
    BY <2>6, ExpectKeeps
  <2>7. ASSUME NEW e \in Expectations, AbortExpect(e)
        PROVE  IInv'
    BY <2>7, AbortExpectKeeps
  <2>8. ASSUME NEW a \in Attachers, AbortAttach(a)
        PROVE  IInv'
    BY <2>8, AbortAttachKeeps
  <2>9. ASSUME NEW a \in Attachers, NEW t \in Targets, Attach(a, t)
        PROVE  IInv'
    BY <2>9, AttachKeeps
  <2> QED BY <1>1, <2>1, <2>2, <2>3, <2>4, <2>5, <2>6, <2>7, <2>8, <2>9 DEF Calls
<1>2. CASE WatcherRuns
  <2>1. CASE ReadEvent
    BY <2>1, ReadEventKeeps
  <2>2. ASSUME NEW t \in Targets, LookUp(t)
        PROVE  IInv'
    BY <2>2, LookUpKeeps
  <2>3. ASSUME NEW t \in Targets, Watched(t)
        PROVE  IInv'
    BY <2>3, WatchedKeeps
  <2> QED BY <1>2, <2>1, <2>2, <2>3 DEF WatcherRuns
<1>3. CASE SessionRuns
  <2>1. CASE DrainSession
    BY <2>1, DrainSessionKeeps
  <2>2. CASE SweepPending
    BY <2>2, SweepPendingKeeps
  <2>3. CASE DisposeContext
    BY <2>3, DisposeContextKeeps
  <2>4. CASE EndSession
    BY <2>4, EndSessionKeeps
  <2>5. ASSUME NEW t \in Targets, VisitPage(t)
        PROVE  IInv'
    BY <2>5, VisitPageKeeps
  <2>6. ASSUME NEW t \in Targets, LeavePage(t)
        PROVE  IInv'
    BY <2>6, LeavePageKeeps
  <2> QED BY <1>3, <2>1, <2>2, <2>3, <2>4, <2>5, <2>6 DEF SessionRuns
<1>4. ASSUME NEW e \in Expectations, ExpectationRuns(e)
      PROVE  IInv'
  <2>1. CASE ActionEnds(e)
    BY <2>1, ActionEndsKeeps
  <2>2. CASE TimeOut(e)
    BY <2>2, TimeOutKeeps
  <2>3. CASE Claim(e)
    BY <2>3, ClaimKeeps
  <2>4. CASE Undo(e)
    BY <2>4, UndoKeeps
  <2>5. CASE Cancelled(e)
    BY <2>5, CancelledKeeps
  <2>6. CASE Undeliver(e)
    BY <2>6, UndeliverKeeps
  <2>7. CASE CloseScheduled(e)
    BY <2>7, CloseScheduledKeeps
  <2> QED BY <1>4, <2>1, <2>2, <2>3, <2>4, <2>5, <2>6, <2>7 DEF ExpectationRuns
<1>5. ASSUME NEW x \in Procs, AttachmentRuns(x)
      PROVE  IInv'
  <2>1. CASE Find(x)
    BY <2>1, FindKeeps
  <2>2. CASE TakeLock(x)
    BY <2>2, TakeLockKeeps
  <2>3. CASE Validate(x)
    BY <2>3, ValidateKeeps
  <2>4. CASE Attached(x)
    BY <2>4, AttachedKeeps
  <2>5. CASE NotAttached(x)
    BY <2>5, NotAttachedKeeps
  <2>6. CASE Frames(x)
    BY <2>6, FramesKeeps
  <2>7. CASE FramesFail(x)
    BY <2>7, FramesFailKeeps
  <2>8. CASE Publish(x)
    BY <2>8, PublishKeeps
  <2>9. CASE Detach(x)
    BY <2>9, DetachKeeps
  <2>10. CASE DetachScheduled(x)
    BY <2>10, DetachScheduledKeeps
  <2> QED BY <1>5, <2>1, <2>2, <2>3, <2>4, <2>5, <2>6, <2>7, <2>8, <2>9, <2>10 DEF
    AttachmentRuns
<1>6. ASSUME NEW t \in Targets, PageRuns(t)
      PROVE  IInv'
  <2>1. CASE ActOnClose(t)
    BY <2>1, ActOnCloseKeeps
  <2>2. CASE FinishClose(t)
    BY <2>2, FinishCloseKeeps
  <2>3. CASE FinishGone(t)
    BY <2>3, FinishGoneKeeps
  <2> QED BY <1>6, <2>1, <2>2, <2>3 DEF PageRuns
<1>7. CASE DrainOpener
  BY <1>7, DrainOpenerKeeps
<1>8. CASE UNCHANGED vars
  <2> USE <1>8 DEF vars, sessionVars, chromeVars, pageVars, callVars, registry
  <2>1. TypeOK'
    BY DEF TypeOK, States, Locked, Resources
  <2>2. EventsAreTrue' /\ GoalsAreSet' /\ EntriesAreGuarded' /\ GuardsAreHeld' /\ LockExcludes'
    BY EventsStay, GoalsStay, EntriesStay, GuardsStay, LockStays
  <2>3. PagesAreWhole' /\ CloseInOrder' /\ ContextHolds' /\ AttachmentsAreKnown'
    BY PagesStay, CloseStays, ContextStays, AttachmentsStay
  <2>4. ClaimedPopupIsOwned'
    BY OwnersStay
  <2> QED BY <2>1, <2>2, <2>3, <2>4
<1> QED BY <1>1, <1>2, <1>3, <1>4, <1>5, <1>6, <1>7, <1>8 DEF Next, Runs

-----------------------------------------------------------------------------
(* Every call, registration, page and stage of the session's close is what  *)
(* the invariant says of it.                                                *)
THEOREM AttachTypeCorrect == Spec => []IInv
<1>1. Init => IInv
  BY InitHolds
<1>2. IInv /\ [Next]_vars => IInv'
  BY NextKeeps
<1> QED BY <1>1, <1>2, PTL DEF Spec

(* What the invariant says of the registrations, the pages and the lock is  *)
(* that nothing is left over: a CDP session on its way to a page excludes   *)
(* another, only what an expectation claimed is closed, and after a         *)
(* complete report nothing is attached.                                     *)
LEMMA AttachmentsAccounted ==
  ASSUME IInv
  PROVE  AttachmentsAreAccounted
<1> USE DEF IInv
<1>1. BorrowedIsNotClosed
  BY DEF BorrowedIsNotClosed, PagesAreWhole
<1>2. CompleteCloseLeavesNothing
  <2> SUFFICES ASSUME session = "closed", failed = {}, NEW x \in Procs,
                      attachment[x] = "live", target[goal[x]] = "alive"
               PROVE  x \in replaced \cup refused
    BY DEF CompleteCloseLeavesNothing
  <2>1. goal[x] \in Targets
    BY DEF GoalsAreSet, TypeOK
  <2>2. entry["page-attachment"][goal[x]] = Nobody /\ pages = {}
    BY <2>1 DEF CloseInOrder, Resources
  <2> QED BY <2>2, Apart DEF AttachmentsAreKnown
<1>3. OneAttachment
  <2> SUFFICES ASSUME NEW t \in Targets, NEW x \in Procs, NEW y \in Procs,
                      goal[x] = t, goal[y] = t,
                      guard["page-attachment"][x] = "armed" \/ (t \in pages /\ via[t] = x),
                      guard["page-attachment"][y] = "armed" \/ (t \in pages /\ via[t] = y)
               PROVE  x = y
    BY DEF OneAttachment
  <2>1. \A z \in Procs : guard["page-attachment"][z] = "armed" => lock = z /\ goal[z] \notin pages
    BY DEF GuardsAreHeld, LockExcludes, Locked
  <2> QED BY <2>1
<1> QED BY <1>1, <1>2, <1>3 DEF AttachmentsAreAccounted

(* "every later await is covered by CloseTarget" (expect_popup) and "without *)
(* taking target ownership" (attach_page), for any number of targets and     *)
(* calls: a claimed popup is in somebody's care or Chrome was asked in vain, *)
(* one CDP session at a time belongs to a page, a borrowed target is not     *)
(* closed, and a complete close of the session leaves nothing attached.      *)
THEOREM PopupsHaveOwners == Spec => []PopupsAreAccounted
<1>1. IInv => PopupsAreAccounted
  BY AttachmentsAccounted DEF IInv, PopupsAreAccounted
<1> QED BY <1>1, AttachTypeCorrect, PTL

=============================================================================
