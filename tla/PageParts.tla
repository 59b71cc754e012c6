------------------------------ MODULE PageParts ------------------------------
(***************************************************************************)
(* Waits, navigations, the contexts of isolated sessions, downloads and    *)
(* the routes of a page, with the names that their parameters and          *)
(* variables have beside the components of MCPages: for that module, and   *)
(* for proofs that need no other component.                                *)
(***************************************************************************)
EXTENDS Naturals, FiniteSets

CONSTANTS
  WaitTimeout, Stability, MaxWaitClock, MaxWaitChanges,          \* Waits
  NetRequests, Predicates, Window, IdleTimeout, MaxQueue, MaxNetClock,
                                 \* NetworkWaits; a predicate is a set of fields
  Navs, MaxDocuments, MaxUrls,   \* Navigation
  IsoCalls, MaxPermissions,      \* ContextCreation
  Targets, TargetKinds, Page,
  Main, RouteFrames, OptionSets, \* PageRoutes
  Callers, Guids, None           \* Downloads; None is also what a component that
                                 \* does not move has in its variables

\* Times and counts are numbers; Never is above every time and every generation.
ASSUME WaitAssumption ==
  /\ WaitTimeout \in Nat /\ Stability \in Nat /\ MaxWaitClock \in Nat
  /\ MaxWaitChanges \in Nat /\ MaxWaitChanges <= MaxWaitClock

\* None is no time and no value of a header.
ASSUME NetAssumption ==
  /\ Window \in Nat /\ MaxNetClock \in Nat
  /\ None \notin Nat /\ None # "differs"

VARIABLES
  wait, waitPage, waitPc, wake, waitClock, waitQueue, waitAnswer, waitGuard, previous,
  stableSince, result, waitChanges, changed, waitHeld,
  netWant, header, netPublished, inflight, netPc, netQueue, starts, snapshots, matched,
  netAction, netTold, netClock, due, quietSince, notified, busyAt, quietFor, netSent,
  navDocument, loaded, starting, loaders, navStore, unapplied, navApplied, navCall,
  downKind, slot, canceled, directory, reducer, announced, status, senders, updates,
  caller, got, downOutcome, closer, begins, ends, source,
  isoWant, runtime, isoCall, task, isoContext, entry, cleaner, granted, session, isoTold,
  auxKind, parent, waiting, needs, asked, chrome, paused, configured, auxInbox, reader,
  auxJob, record, routes, detached, detacher, auxPage, report, auxTerminal, repeated,
  options, route, configApplied, configTodo, override, undone, live, configClosing

Wait == INSTANCE Waits WITH Timeout <- WaitTimeout, MaxClock <- MaxWaitClock,
  MaxChanges <- MaxWaitChanges, page <- waitPage, pc <- waitPc, clock <- waitClock,
  queue <- waitQueue, answer <- waitAnswer, guard <- waitGuard, changes <- waitChanges,
  held <- waitHeld
NetWait == INSTANCE NetworkWaits WITH Requests <- NetRequests, Timeout <- IdleTimeout,
  MaxClock <- MaxNetClock, want <- netWant, published <- netPublished, pc <- netPc,
  queue <- netQueue, action <- netAction, told <- netTold, clock <- netClock,
  sent <- netSent
Navigations == INSTANCE Navigation WITH Calls <- Navs, document <- navDocument,
  store <- navStore, applied <- navApplied, call <- navCall
Download == INSTANCE Downloads WITH Kinds <- {"isolated", "default"}, kind <- downKind,
  outcome <- downOutcome
Contexts == INSTANCE ContextCreation WITH Calls <- IsoCalls, want <- isoWant,
  call <- isoCall, context <- isoContext, told <- isoTold
Routes == INSTANCE PageRoutes WITH Kinds <- TargetKinds, Frames <- RouteFrames,
  kind <- auxKind, inbox <- auxInbox, job <- auxJob, page <- auxPage,
  terminal <- auxTerminal, applied <- configApplied, todo <- configTodo,
  closing <- configClosing

\* Targets are finitely many; the page is none of them, and None is no other value.
ASSUME RouteAssumption ==
  /\ IsFiniteSet(Targets) /\ None \notin Targets /\ Page \notin Targets
  /\ None \notin Routes!Records /\ None \notin Routes!Jobs
=============================================================================
