------------------------- MODULE NetworkObservation -------------------------
(***************************************************************************)
(* The network reducer of a page (src/runtime/network.rs).                 *)
(*                                                                         *)
(* Every routed CDP session (a page, an OOPIF, a worker) has a route task  *)
(* that hands its Network.* events to one shared NetworkManager.  The      *)
(* manager keeps a record per request hop, decides which route a hop       *)
(* belongs to when a parent and a child session both report it, matches    *)
(* ExtraInfo events that arrive early or late, counts what is in flight,   *)
(* and evicts completed records.  A handler changes the reducer under one  *)
(* lock and publishes its facts after the lock is released, so the facts   *)
(* of two routes can reach a subscriber in another order than they were    *)
(* reduced.                                                                *)
(*                                                                         *)
(* URLs, methods, loaders and frames are one model value (two starts prove *)
(* a handoff when the values are equal), a payload is the fact that it     *)
(* arrived, and the size of a record is the number of facts it holds.  A   *)
(* worker's parent is the page; only a direct parent matters here, so that *)
(* a worker's worker is to the worker what the worker is to the page.      *)
(***************************************************************************)
EXTENDS Integers, Sequences, FiniteSets, SequencesExt

CONSTANTS Routes,      \* routed CDP sessions
          Page,        \* the page's own
          Workers,     \* those of its workers
          WorkerUrl,   \* the URL that a worker was started from
          Requests,    \* protocol request ids
          Sockets,     \* routes on which the page opens a WebSocket
          Urls,        \* what a start and a response say of their request
          None,
          MaxHop,      \* bound on redirect ordinals
          MaxRetained, \* retained_state_max_bytes, in facts
          MaxEvents    \* bound on the events the browser sends

ASSUME NetworkAssumption ==
  /\ None \notin Routes \cup Urls
  /\ Page \in Routes /\ Workers \subseteq Routes \ {Page} /\ WorkerUrl \in Urls
  /\ {MaxHop, MaxRetained, MaxEvents} \subseteq Nat

VARIABLES
  net,    \* ReducerState, behind its mutex
  phase,  \* each route task: "unobserved", "open" or "done"
  out,    \* what each route task has reduced and not yet published
  snap,   \* the snapshots of a subscriber that listens from the start
  sent,   \* what the browser has said of a request on a route
  left    \* events the browser may still send

vars == <<net, phase, out, snap, sent, left>>

Identity == [route: Routes, request: Requests, hop: 0 .. MaxHop]

Hop(r, q, h) == [route |-> r, request |-> q, hop |-> h]

NoRecord == [there |-> FALSE, url |-> None, response |-> FALSE, reqExtra |-> FALSE,
             respExtra |-> FALSE, expects |-> FALSE, terminal |-> "none",
             observed |-> {}, inflight |-> FALSE, bytes |-> 0]

NewRecord == [NoRecord EXCEPT !.there = TRUE]

NoSnapshot == [started |-> FALSE, response |-> FALSE, reqExtra |-> FALSE,
               respExtra |-> FALSE, terminal |-> "none"]

Bit(b) == IF b THEN 1 ELSE 0

\* approximate_debug_bytes of a record.
Size(record) ==
  1 + Bit(record.url # None) + Bit(record.response) + Bit(record.reqExtra)
    + Bit(record.respExtra)

Items == [kind: {"request"}, id: Identity]
           \cup [kind: {"reqExtra", "respExtra"}, route: Routes, request: Requests]

-----------------------------------------------------------------------------
(* Which hop an event is about *)

\* direct_parent_session_id and auxiliary_target_url of a route.
Parent(r) == IF r \in Workers THEN Page ELSE None
AuxUrl(r) == IF r \in Workers THEN WorkerUrl ELSE None

Family(s, a, b) ==
  \/ a = b
  \/ a \in s.known /\ Parent(a) = b
  \/ b \in s.known /\ Parent(b) = a

Live(s, id) == s.record[id].there /\ s.record[id].terminal = "none"

\* The only live hop of the family that the facts of this event match.
UniqueHandoff(s, r, q, url) ==
  LET aux == r \in s.known /\ AuxUrl(r) # None /\ AuxUrl(r) # url
      matches == {id \in Identity :
                    /\ id.request = q
                    /\ Family(s, id.route, r)
                    /\ Live(s, id)
                    /\ s.record[id].url = url
                    /\ ~aux}
  IN  IF Cardinality(matches) = 1 THEN CHOOSE id \in matches : TRUE ELSE None

\* An alias is used for a start only when it is live and proves the handoff,
\* or when its terminal event overtook its start on this very route.
StartAlias(s, r, q, url) ==
  LET id == s.alias[r][q]
  IN  IF id = None THEN None
      ELSE IF ~s.record[id].there THEN None
      ELSE IF s.record[id].url = None
             THEN IF s.record[id].terminal # "none" /\ id.route = r THEN id ELSE None
      ELSE IF s.record[id].terminal = "none" /\ s.record[id].url = url THEN id ELSE None

FirstOf(a, b) == IF a # None THEN a ELSE b

StartIdentity(s, r, q, url) ==
  FirstOf(s.current[r][q], FirstOf(StartAlias(s, r, q, url), UniqueHandoff(s, r, q, url)))

ResponseIdentity(s, r, q, url) ==
  FirstOf(s.alias[r][q], FirstOf(UniqueHandoff(s, r, q, url), Hop(r, q, 0)))

AliasIdentity(s, r, q) == FirstOf(s.alias[r][q], Hop(r, q, 0))

-----------------------------------------------------------------------------
(* Steps of the reducer, each under the lock *)

ClearCurrent(s, id) ==
  [s EXCEPT !.current =
     [r \in Routes |-> [q \in Requests |-> IF @[r][q] = id THEN None ELSE @[r][q]]]]

AdvanceAlias(s, from, to) ==
  [s EXCEPT !.alias =
     [r \in Routes |-> [q \in Requests |-> IF @[r][q] = from THEN to ELSE @[r][q]]]]

SetAlias(s, r, q, id) ==
  [s EXCEPT !.alias[r][q] = id, !.alias[id.route][q] = id]

SetCurrent(s, r, q, id) ==
  [s EXCEPT !.current[r][q] = id, !.current[id.route][q] = id]

\* Mutant: a plain subtraction.
Wrapping(n) == n - 1

Saturating(n) == IF n > 0 THEN n - 1 ELSE 0

\* refresh_record_retained: a completed record is weighed again.
Refresh(s, id) ==
  IF s.record[id].terminal = "none" THEN s
  ELSE [s EXCEPT !.record[id].bytes = Size(s.record[id]),
                 !.retained[id.route] = @ - s.record[id].bytes + Size(s.record[id])]

\* The record reaches `terminal`: it leaves the in-flight count and becomes a
\* candidate for eviction.  Nothing asks whether it was terminal before.
Complete(s, id, terminal) ==
  LET was == s.record[id]
      now == [was EXCEPT !.terminal = terminal, !.inflight = FALSE, !.bytes = Size(was)]
  IN  [s EXCEPT !.record[id] = now,
                !.retained[id.route] = @ + now.bytes,
                !.aged = Append(SelectSeq(@, LAMBDA i : i # [kind |-> "request", id |-> id]),
                                [kind |-> "request", id |-> id]),
                !.inflight[id.route] = IF was.inflight THEN Saturating(@) ELSE @]

\* A terminal event of the browser: ignored when the record has one.
Terminate(s, r, q, terminal) ==
  LET id == AliasIdentity(s, r, q)
      seen == [s EXCEPT !.alias[r][q] = id,
                        !.record[id] = [(IF @.there THEN @ ELSE NewRecord)
                                          EXCEPT !.observed = @ \cup {r}]]
  IN  IF seen.record[id].terminal # "none" THEN seen
      ELSE ClearCurrent(Complete(seen, id, terminal), id)

\* Mutant: the newest hop is served first.
NewestCandidate(s, r, q, fact) ==
  LET hops == {id \in Identity :
                 /\ s.alias[r][q] # None
                 /\ id.request = q /\ id.route = s.alias[r][q].route
                 /\ s.record[id].there /\ s.record[id].expects
                 /\ ~s.record[id][fact]}
  IN  IF hops = {} THEN None
      ELSE CHOOSE id \in hops : \A other \in hops : id.hop >= other.hop

\* extra_candidate_identity: the oldest hop that expects the fact and lacks it.
ExtraCandidate(s, r, q, fact) ==
  LET alias == s.alias[r][q]
      hops == {id \in Identity :
                 /\ alias # None
                 /\ id.request = q /\ id.route = alias.route
                 /\ s.record[id].there /\ s.record[id].expects
                 /\ ~s.record[id][fact]}
  IN  IF hops = {} THEN None
      ELSE CHOOSE id \in hops : \A other \in hops : id.hop <= other.hop

AssignExtra(s, r, id, fact) ==
  Refresh([s EXCEPT !.record[id] = [@ EXCEPT ![fact] = TRUE, !.observed = @ \cup {r}]], id)

PendingItem(r, q, fact) == [kind |-> fact, route |-> r, request |-> q]

PendingCount(s, item) == Cardinality({i \in DOMAIN s.aged : s.aged[i] = item})

DropFirst(seq, item) ==
  RemoveAt(seq, CHOOSE i \in DOMAIN seq :
                  seq[i] = item /\ \A j \in DOMAIN seq : seq[j] = item => i <= j)

\* Mutant: what is drained is stored in the record and not published.
DrainSilently(s, r, q, fact) ==
  LET id == ExtraCandidate(s, r, q, fact)
      item == PendingItem(r, q, fact)
  IN  IF id = None \/ PendingCount(s, item) = 0 THEN s
      ELSE AssignExtra([s EXCEPT !.aged = DropFirst(@, item), !.retained[r] = @ - 1],
                       r, id, fact)

\* One pending ExtraInfo of route r is offered to the records again.
DrainOne(s, r, q, fact) ==
  LET id == ExtraCandidate(s, r, q, fact)
      item == PendingItem(r, q, fact)
  IN  IF id = None \/ PendingCount(s, item) = 0 THEN s
      ELSE LET gone == [s EXCEPT !.aged = DropFirst(@, item), !.retained[r] = @ - 1]
           IN  [AssignExtra(gone, r, id, fact) EXCEPT !.news = Append(@, [kind |-> fact, id |-> id])]

\* drain_pending_extra_across_routes, in the order the route map yields.
Drain(s, q, order) ==
  LET Route(acc, r) ==
        LET DrainKind(a, fact) ==
              FoldLeft(LAMBDA b, n : DrainOne(b, r, q, fact), a,
                       [n \in 1 .. PendingCount(a, PendingItem(r, q, fact)) |-> n])
        IN  FoldLeft(DrainKind, acc, <<"reqExtra", "respExtra">>)
  IN  FoldLeft(Route, s, order)

\* The order matters only when several routes hold pending facts of q.
Orders(q) ==
  LET holders == {r \in Routes : \E f \in {"reqExtra", "respExtra"} :
                                   PendingCount(net, PendingItem(r, q, f)) > 0}
  IN  SetToSeqs(holders)

-----------------------------------------------------------------------------
(* Publication and the subscriber *)

Fact(kind, id) == [kind |-> kind, id |-> id]

Prunes == [kind |-> "prune", id |-> None]

\* reduce_wait_snapshot
Reduced(old, kind) ==
  CASE kind = "started" -> [old EXCEPT !.started = TRUE]
    [] kind = "response" -> [old EXCEPT !.response = TRUE]
    [] kind \in {"reqExtra", "respExtra"} -> [old EXCEPT ![kind] = TRUE]
    [] kind = "redirected" -> [old EXCEPT !.response = TRUE, !.terminal = kind]
    [] OTHER -> [old EXCEPT !.terminal = kind]

\* A handler leaves the reducer in state s and has these facts to publish.
Handled(r, s, facts) ==
  /\ net' = [s EXCEPT !.news = <<>>]
  /\ out' = [out EXCEPT ![r] = facts \o <<Prunes>>]
  /\ left' = left - 1
  /\ UNCHANGED <<phase, snap>>

Ready(r) == phase[r] = "open" /\ out[r] = <<>> /\ left > 0

\* A session reports the start, the response and the end of a request once,
\* in any order; a redirect belongs to a request it has started and not ended.
Says(r, q, event) ==
  /\ event \notin sent[r][q]
  /\ sent' = [sent EXCEPT ![r][q] = @ \cup {event}]

Publish(r) ==
  /\ out[r] # <<>> /\ Head(out[r]).kind # "prune"
  /\ LET fact == Head(out[r])
     IN  snap' = [snap EXCEPT ![fact.id] = Reduced(@, fact.kind)]
  /\ out' = [out EXCEPT ![r] = Tail(@)]
  /\ UNCHANGED <<net, phase, sent, left>>

-----------------------------------------------------------------------------
(* The events of the browser *)

\* Mutant: a start that its own terminal event overtook counts as in flight.
CountedAgain(s, r, q, id, url) ==
  LET was == IF s.record[id].there THEN s.record[id] ELSE NewRecord
      now == [was EXCEPT !.url = url, !.observed = @ \cup {r}]
      kept == [SetAlias(SetCurrent(s, r, q, id), r, q, id)
                 EXCEPT !.record[id] = now, !.inflight[id.route] = @ + Bit(~was.inflight)]
  IN  Refresh(kept, id)

\* request_will_be_sent, without and with a redirect response.
Started(s, r, q, id, url) ==
  LET was == IF s.record[id].there THEN s.record[id] ELSE NewRecord
      joins == ~was.inflight /\ was.terminal = "none"
      now == [was EXCEPT !.url = url, !.observed = @ \cup {r}, !.inflight = @ \/ joins]
      kept == [SetAlias(SetCurrent(s, r, q, id), r, q, id)
                 EXCEPT !.record[id] = now, !.inflight[id.route] = @ + Bit(joins)]
      weighed == Refresh(kept, id)
  IN  IF was.terminal = "none" THEN weighed ELSE ClearCurrent(weighed, id)

WillBeSent(r, q, url) ==
  /\ Ready(r) /\ Says(r, q, "start")
  /\ \E order \in Orders(q) :
       LET id == FirstOf(StartIdentity(net, r, q, url), Hop(r, q, 0))
           s == Drain(Started(net, r, q, id, url), q, order)
       IN  Handled(r, s, Append(s.news, Fact("started", id)))

Redirected(s, r, from, to, hasExtra) ==
  LET told == [s EXCEPT !.record[from] =
                 [@ EXCEPT !.response = TRUE, !.observed = @ \cup {r},
                           !.expects = @ \/ hasExtra]]
      over == IF s.record[from].there THEN Complete(told, from, "redirected") ELSE s
  IN  AdvanceAlias(ClearCurrent(over, from), from, to)

Redirect(r, q, url, hasExtra) ==
  /\ Ready(r)
  /\ "start" \in sent[r][q] /\ "end" \notin sent[r][q]
  /\ UNCHANGED sent
  /\ \E order \in Orders(q) :
       LET from == FirstOf(StartIdentity(net, r, q, url), Hop(r, q, 0))
           to == [from EXCEPT !.hop = @ + 1]
           s == Drain(Started(Redirected(net, r, from, to, hasExtra), r, q, to, url), q, order)
       IN  /\ from.hop < MaxHop
           /\ Handled(r, s, <<Fact("redirected", from)>> \o s.news \o <<Fact("started", to)>>)

ResponseReceived(r, q, url, hasExtra) ==
  /\ Ready(r) /\ Says(r, q, "response")
  /\ \E order \in Orders(q) :
       LET id == ResponseIdentity(net, r, q, url)
           told == [SetAlias(net, r, q, id) EXCEPT !.record[id] =
                      [(IF @.there THEN @ ELSE NewRecord)
                         EXCEPT !.response = TRUE, !.observed = @ \cup {r},
                                !.expects = @ \/ hasExtra]]
           s == Drain(Refresh(told, id), q, order)
       IN  Handled(r, s, <<Fact("response", id)>> \o s.news)

\* request_extra and response_extra: assigned to a hop, or kept for later.
ExtraInfo(r, q, fact) ==
  /\ Ready(r) /\ UNCHANGED sent
  /\ LET id == ExtraCandidate(net, r, q, fact)
     IN  IF id # None THEN Handled(r, AssignExtra(net, r, id, fact), <<Fact(fact, id)>>)
         ELSE Handled(r, [net EXCEPT !.aged = Append(@, PendingItem(r, q, fact)),
                                     !.retained[r] = @ + 1], <<>>)

\* loading_finished and loading_failed
LoadingEnded(r, q, terminal) ==
  /\ Ready(r) /\ Says(r, q, "end")
  /\ LET id == AliasIdentity(net, r, q)
     IN  Handled(r, Terminate(net, r, q, terminal),
                 IF net.record[id].terminal = "none" THEN <<Fact(terminal, id)>> ELSE <<>>)

\* A WebSocket counts as in flight from its creation to its handshake.
WebSocketCreated(r) ==
  /\ Ready(r) /\ UNCHANGED sent
  /\ r \in Sockets
  /\ net.socket[r] = "unused"
  /\ Handled(r, [net EXCEPT !.socket[r] = "opening", !.inflight[r] = @ + 1], <<>>)

WebSocketAnswered(r) ==
  /\ Ready(r) /\ UNCHANGED sent
  /\ net.socket[r] = "opening"
  /\ Handled(r, [net EXCEPT !.socket[r] = "open", !.inflight[r] = Saturating(@)], <<>>)

WebSocketClosed(r) ==
  /\ Ready(r) /\ UNCHANGED sent
  /\ net.socket[r] \in {"opening", "open"}
  /\ Handled(r, [net EXCEPT !.socket[r] = "closed",
                            !.inflight[r] = IF net.socket[r] = "opening" THEN Saturating(@) ELSE @],
             <<>>)

-----------------------------------------------------------------------------
(* Routes and retention *)

AddRoute(r) ==
  /\ phase[r] = "unobserved"
  /\ net' = [net EXCEPT !.known = @ \cup {r}]
  /\ phase' = [phase EXCEPT ![r] = "open"]
  /\ UNCHANGED <<out, snap, sent, left>>

\* Mutant: only the hops this route is canonical for.
OwnHops(s, r) == {id \in Identity : Live(s, id) /\ id.route = r}

\* The hops a closed route took part in, whichever route is canonical for them.
Abandoned(s, r) == {id \in Identity : Live(s, id) /\ r \in s.record[id].observed}

\* fail_route: what the closed route took part in can get no answer from it.
FailRoute(r, reason) ==
  /\ phase[r] = "open" /\ out[r] = <<>>
  /\ LET lost == Abandoned(net, r)
         Fail(id, s) == ClearCurrent(Complete(s, id, "failed"), id)
         s == FoldSet(Fail, net, lost)
     IN  /\ net' = [s EXCEPT !.current[r] = [q \in Requests |-> None],
                             !.socket[r] = "closed", !.inflight[r] = 0,
                             !.closed[r] = reason, !.known = @ \cup {r}]
         /\ out' = [out EXCEPT ![r] = SetToSeq({Fact("failed", id) : id \in lost}) \o <<Prunes>>]
  /\ phase' = [phase EXCEPT ![r] = "done"]
  /\ UNCHANGED <<snap, sent, left>>

Bytes(s, item) == IF item.kind = "request" THEN s.record[item.id].bytes ELSE 1

Total(s) == FoldFunction(LAMBDA n, m : n + m, 0, s.retained)

EvictOne(s, item) ==
  LET at == IF item.kind = "request" THEN item.id.route ELSE item.route
      lighter == [s EXCEPT !.aged = Tail(@), !.retained[at] = @ - Bytes(s, item)]
  IN  IF item.kind # "request" THEN lighter
      ELSE [lighter EXCEPT
              !.record[item.id] = NoRecord,
              !.alias = [r \in Routes |-> [q \in Requests |->
                           IF @[r][q] = item.id THEN None ELSE @[r][q]]]]

\* The first `expired` candidates go, and further ones while over budget.
RECURSIVE Evict(_, _)
Evict(s, expired) ==
  IF s.aged = <<>> \/ (expired = 0 /\ Total(s) <= MaxRetained) THEN s
  ELSE Evict(EvictOne(s, Head(s.aged)), Saturating(expired))

Forgettable(s, r) ==
  /\ s.closed[r] # "no"
  /\ \A id \in Identity : id.route = r => ~s.record[id].there
  /\ \A i \in DOMAIN s.aged : s.aged[i].kind # "request" => s.aged[i].route # r

\* prune_retained_state, at whatever age the candidates have.
Prune(r) ==
  /\ out[r] = <<Prunes>>
  /\ \E expired \in 0 .. Len(net.aged) :
       LET s == Evict(net, expired)
       IN  \E gone \in SUBSET {f \in Routes : Forgettable(s, f)} :
             net' = [s EXCEPT
                       !.known = @ \ gone,
                       !.alias = [f \in Routes |->
                                    IF f \in gone THEN [q \in Requests |-> None] ELSE @[f]],
                       !.retained = [f \in Routes |-> IF f \in gone THEN 0 ELSE @[f]]]
  /\ out' = [out EXCEPT ![r] = <<>>]
  /\ UNCHANGED <<phase, snap, sent, left>>

-----------------------------------------------------------------------------
Init ==
  /\ net = [current  |-> [r \in Routes |-> [q \in Requests |-> None]],
            alias    |-> [r \in Routes |-> [q \in Requests |-> None]],
            record   |-> [id \in Identity |-> NoRecord],
            socket   |-> [r \in Routes |-> "unused"],
            inflight |-> [r \in Routes |-> 0],
            retained |-> [r \in Routes |-> 0],
            closed   |-> [r \in Routes |-> "no"],
            known    |-> {},
            aged     |-> <<>>,
            news     |-> <<>>]
  /\ phase = [r \in Routes |-> "unobserved"]
  /\ out = [r \in Routes |-> <<>>]
  /\ snap = [id \in Identity |-> NoSnapshot]
  /\ sent = [r \in Routes |-> [q \in Requests |-> {}]]
  /\ left = MaxEvents

Next ==
  \E r \in Routes :
    \/ AddRoute(r) \/ Publish(r) \/ Prune(r)
    \/ WebSocketCreated(r) \/ WebSocketAnswered(r) \/ WebSocketClosed(r)
    \/ \E reason \in {"detached", "source"} : FailRoute(r, reason)
    \/ \E q \in Requests :
         \/ \E fact \in {"reqExtra", "respExtra"} : ExtraInfo(r, q, fact)
         \/ \E terminal \in {"finished", "failed"} : LoadingEnded(r, q, terminal)
         \/ \E url \in Urls :
              \/ WillBeSent(r, q, url)
              \/ \E extra \in BOOLEAN : \/ Redirect(r, q, url, extra)
                                        \/ ResponseReceived(r, q, url, extra)

Spec == Init /\ [][Next]_vars

-----------------------------------------------------------------------------
(* Properties *)

\* The reducer's maps and counters stay in their ranges: no counter of hops in
\* flight or of retained bytes passes below zero, whatever order events take.
TypeOK ==
  /\ net.current \in [Routes -> [Requests -> Identity \cup {None}]]
  /\ net.alias \in [Routes -> [Requests -> Identity \cup {None}]]
  /\ net.inflight \in [Routes -> Nat] /\ net.retained \in [Routes -> Nat]
  /\ \A i \in DOMAIN net.aged : net.aged[i] \in Items
  /\ phase \in [Routes -> {"unobserved", "open", "done"}]
  /\ left \in 0 .. MaxEvents

Contributors(r) ==
  Cardinality({id \in Identity : id.route = r /\ net.record[id].inflight})
    + Bit(net.socket[r] = "opening")

\* What NetworkManager::inflight adds up for a route that is open is what is in
\* flight there: no hop is counted twice when two routes start it, and none is
\* forgotten when another route ends it.  wait_idle relies on this sum.
InflightExact == \A r \in Routes : net.closed[r] = "no" => net.inflight[r] = Contributors(r)

\* The retention budget is never understated: a route's counter is at least the
\* weight of its completed records and of the ExtraInfo it keeps for later.
RetainedCounted ==
  \A r \in Routes :
    net.retained[r] >=
      FoldSet(LAMBDA id, n : n + net.record[id].bytes, 0,
              {id \in Identity : id.route = r /\ net.record[id].terminal # "none"})
      + Cardinality({i \in DOMAIN net.aged :
                       net.aged[i].kind # "request" /\ net.aged[i].route = r})

\* wait_idle and the retention budget both rest on counters that the handlers
\* adjust in many places: neither drifts from what it counts.
CountersExact == TypeOK /\ InflightExact /\ RetainedCounted

\* Every hop in flight is observed by a route that can still end it: closing a
\* route fails what only it could have ended, so network idle can be reached.
LiveHopHasOpenRoute ==
  \A id \in Identity :
    Live(net, id) => \E r \in net.record[id].observed : phase[r] = "open"

\* Facts of two routes may be published in another order than they were reduced;
\* once all are published, a subscriber's snapshot of a retained hop has every
\* fact the record has.
WatcherConverges ==
  (\A r \in Routes : out[r] \in {<<>>, <<Prunes>>}) =>
    \A id \in {i \in Identity : net.record[i].url # None} :
      LET hop == net.record[id]
          seen == snap[id]
      IN  /\ seen.started
          /\ hop.response => seen.response
          /\ hop.reqExtra => seen.reqExtra
          /\ hop.respExtra => seen.respExtra
          /\ hop.terminal # "none" => seen.terminal # "none"

\* ExtraInfo carries no ordinal: it goes to the hops of a request in their order,
\* also when it overtakes the events of its hop.
ExtraInHopOrder ==
  \A a, b \in Identity :
    /\ a.route = b.route /\ a.request = b.request /\ a.hop < b.hop
    /\ net.record[a].there /\ net.record[a].expects
    => (net.record[b].respExtra => net.record[a].respExtra)

\* What the reducer counts, keeps and hands on stays exact, whichever route
\* reports a request, redirects it or closes.
ReductionIsExact == CountersExact /\ LiveHopHasOpenRoute /\ ExtraInHopOrder
=============================================================================
