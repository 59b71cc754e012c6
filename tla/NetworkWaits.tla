---------------------------- MODULE NetworkWaits ----------------------------
(***************************************************************************)
(* The network waits of a page (runtime/network.rs): wait_for reads the     *)
(* facts published after it subscribed until a request fits a predicate,    *)
(* expect does so while it drives the caller's action, and wait_idle looks  *)
(* at the number of requests in flight until it has been zero for a while.  *)
(*                                                                          *)
(* What reaches the facts, and in which order, is NetworkObservation's.  A  *)
(* predicate is the set of fields it asks for; of the request's header and  *)
(* its raw form both say whether they fit.                                  *)
(***************************************************************************)
EXTENDS Naturals, Sequences, FiniteSets

CONSTANTS
  Requests, Predicates, \* Predicates: sets of fields
  Window, Timeout, \* the quiet window and the timeout of wait_idle
  MaxQueue, MaxClock, \* bounds: facts sent and not read, and the clock
  None

Facts == {"started", "response", "extra", "ended"}

VARIABLES
  want,      \* the call: [kind, predicate]
  header,    \* of each request what its response header and its raw one say: "fits", "differs" or None
  published, \* of each request the facts published
  inflight,  \* the requests the manager counts
  pc, queue, \* the call, and the facts it has been sent and has not read
  starts, snapshots, matched, \* what it has read: starts, facts of each request, the one that fits
  action,    \* the action of expect: "none", "running", "done" or "failed"
  told,      \* what the call said of the action when it failed
  clock, due, \* the time, and when the call's sleep ends
  quietSince, notified, busyAt, \* wait_idle; busyAt is history: when it last saw a request in flight
  quietFor,  \* history: since when no request has been in flight
  sent       \* history: of each request, the facts published since the call subscribed

waitVars == <<want, header, published, inflight, pc, queue, starts, snapshots, matched, action, told,
             clock, due, quietSince, notified, busyAt, quietFor, sent>>
browser == <<published, inflight, quietFor, sent>>
reading == <<queue, starts, snapshots, matched>>
idling == <<due, quietSince, notified, busyAt>>

-----------------------------------------------------------------------------
(* The predicate *)

\* Mutant: the raw headers come on top of those of the response.
EitherHeader(q, facts) ==
  \/ "response" \in facts /\ header[q].base = "fits"
  \/ "extra" \in facts /\ header[q].raw = "fits"

\* effective_header_matches: the raw headers decide once they are there and
\* have the name.
HeaderFits(q, facts) ==
  IF "extra" \in facts /\ header[q].raw # None THEN header[q].raw = "fits"
  ELSE "response" \in facts /\ header[q].base = "fits"

\* snapshot_fields: the URL is the request's or else the response's.
Has(facts, field) ==
  CASE field = "url" -> facts \cap {"started", "response"} # {}
    [] field = "method" -> "started" \in facts
    [] field = "status" -> "response" \in facts
    [] field = "ended" -> "ended" \in facts

Fits(q, facts) ==
  /\ \A field \in want.predicate \ {"header"} : Has(facts, field)
  /\ "header" \in want.predicate => HeaderFits(q, facts)

-----------------------------------------------------------------------------
(* wait_for and expect *)

\* subscribe_page: the stream is there before the domain is enabled.
Subscribe ==
  /\ pc = "new" /\ want.kind # "idle" /\ pc' = "enabling"
  /\ UNCHANGED <<browser, reading, idling, want, header, action, told, clock>>

\* The timeout begins; one unit of the clock stands for it.
Enable ==
  /\ pc = "enabling" /\ pc' = "reading" /\ due' = clock + 1
  /\ action' = IF want.kind = "expect" THEN "running" ELSE "none"
  /\ UNCHANGED <<browser, reading, want, header, told, clock, quietSince, notified, busyAt>>

\* Mutant: a request is taken as it comes.
FitsNowAny(q, facts, s) == Fits(q, facts)

\* Only a request whose start was read can be the one.
FitsNow(q, facts, s) == q \in s /\ Fits(q, facts)

\* One item of the stream; a route that closed because its source did fails
\* the wait, one that was detached does not.
Read ==
  /\ pc = "reading" /\ queue # <<>> /\ queue' = Tail(queue)
  /\ ~(action = "done" /\ matched # None)
  /\ LET item == Head(queue)
     IN  \/ /\ item.fact = "closed" /\ pc' = "closed" /\ told' = "NotStarted"
            /\ UNCHANGED <<starts, snapshots, matched>>
         \/ /\ item.fact = "detached" /\ UNCHANGED <<pc, told, starts, snapshots, matched>>
         \/ /\ item.fact \in Facts
            /\ starts' = IF item.fact = "started" THEN starts \cup {item.request} ELSE starts
            /\ snapshots' = [snapshots EXCEPT ![item.request] = @ \cup {item.fact}]
            /\ IF FitsNow(item.request, snapshots'[item.request], starts')
               THEN /\ matched' = [request |-> item.request, facts |-> snapshots'[item.request]]
                    /\ pc' = IF want.kind = "wait" THEN "ok" ELSE pc
               ELSE UNCHANGED <<matched, pc>>
            /\ UNCHANGED told
  /\ UNCHANGED <<browser, idling, want, header, action, clock>>

\* The action ends; its error is the answer.
ActionEnds ==
  /\ pc = "reading" /\ action = "running"
  /\ \/ action' = "done" /\ UNCHANGED <<pc, told>>
     \/ action' = "failed" /\ pc' = "failed" /\ told' = "own"
  /\ UNCHANGED <<browser, reading, idling, want, header, clock>>

\* Mutant: the match is enough.
ReturnMatched ==
  /\ pc = "reading" /\ want.kind = "expect" /\ matched # None /\ pc' = "ok"
  /\ UNCHANGED <<browser, reading, idling, want, header, action, told, clock>>

\* The action is done and a request fits: the last that did.
Return ==
  /\ pc = "reading" /\ want.kind = "expect" /\ action = "done" /\ matched # None /\ pc' = "ok"
  /\ UNCHANGED <<browser, reading, idling, want, header, action, told, clock>>

\* Mutant: the deadline is looked at first.
ExpireFirst ==
  /\ pc = "reading" /\ clock >= due
  /\ pc' = "timeout"
  /\ told' = IF want.kind # "expect" THEN "NotStarted" ELSE IF action = "done" THEN "Completed" ELSE "Unknown"
  /\ UNCHANGED <<browser, reading, idling, want, header, action, clock>>

\* The deadline comes after what the stream holds; an action that is not done
\* is dropped.
Expire ==
  /\ pc = "reading" /\ clock >= due /\ queue = <<>>
  /\ ~(action = "done" /\ matched # None)
  /\ pc' = "timeout"
  /\ told' = IF want.kind # "expect" THEN "NotStarted" ELSE IF action = "done" THEN "Completed" ELSE "Unknown"
  /\ UNCHANGED <<browser, reading, idling, want, header, action, clock>>

-----------------------------------------------------------------------------
(* wait_idle *)

Enter ==
  /\ pc = "new" /\ want.kind = "idle" /\ pc' = "look"
  /\ UNCHANGED <<browser, reading, idling, want, header, action, told, clock>>

\* Mutant: a window goes on when requests come in between.
LookOn(now) == IF inflight = {} /\ quietSince = None THEN now ELSE quietSince

\* The window begins when nothing is in flight, and ends when something is.
LookAt(now) == IF inflight # {} THEN None ELSE IF quietSince = None THEN now ELSE quietSince

\* The end of the sleep is computed from what is seen here; the deadline is that
\* of the call, which began at time 0.
Look ==
  /\ pc = "look"
  /\ quietSince' = LookAt(clock)
  /\ busyAt' = IF inflight # {} THEN clock ELSE busyAt
  /\ \/ /\ quietSince' # None /\ clock - quietSince' >= Window /\ pc' = "idle"
        /\ UNCHANGED <<due, told>>
     \/ /\ ~(quietSince' # None /\ clock - quietSince' >= Window)
        /\ IF clock >= Timeout THEN pc' = "timeout" /\ told' = "NotStarted" /\ UNCHANGED due
           ELSE /\ pc' = "looked" /\ UNCHANGED told
                /\ due' = IF quietSince' = None \/ quietSince' + Window > Timeout THEN Timeout
                          ELSE quietSince' + Window
  /\ UNCHANGED <<browser, reading, want, header, action, clock, notified>>

\* select!: from here on the call is notified.
Sleep ==
  /\ pc = "looked" /\ pc' = "sleeping" /\ notified' = FALSE
  /\ UNCHANGED <<browser, reading, want, header, action, told, clock, due, quietSince, busyAt>>

Wake ==
  /\ pc = "sleeping" /\ (notified \/ clock >= due) /\ pc' = "look"
  /\ UNCHANGED <<browser, reading, idling, want, header, action, told, clock>>

-----------------------------------------------------------------------------
(* The page and the time *)

Listens == want.kind # "idle" /\ pc # "new"
Send(item) == queue' = IF Listens THEN Append(queue, item) ELSE queue

\* A fact is reduced and published; the count changes with the start and the
\* end, whichever comes first.
Publish(q, fact) ==
  /\ pc \notin {"ok", "idle", "timeout", "closed", "failed"}
  /\ fact \notin published[q] /\ Len(queue) < MaxQueue /\ (fact = "extra" => header[q].raw # None)
  /\ published' = [published EXCEPT ![q] = @ \cup {fact}]
  /\ Send([fact |-> fact, request |-> q])
  /\ sent' = IF Listens THEN [sent EXCEPT ![q] = @ \cup {fact}] ELSE sent
  /\ inflight' = IF fact = "started" /\ "ended" \notin published[q] THEN inflight \cup {q}
                 ELSE IF fact = "ended" THEN inflight \ {q} ELSE inflight
  /\ quietFor' = IF inflight' # {} THEN None ELSE IF inflight # {} THEN clock ELSE quietFor
  /\ notified' = (notified \/ inflight' # inflight)
  /\ UNCHANGED <<want, header, pc, starts, snapshots, matched, action, told, clock, due, quietSince, busyAt>>

RouteCloses(reason) ==
  /\ want.kind # "idle" /\ pc = "reading" /\ queue = <<>>
  /\ Send([fact |-> reason, request |-> None])
  /\ UNCHANGED <<browser, idling, want, header, pc, starts, snapshots, matched, action, told, clock>>

\* Sleeps end before the time goes on.
Tick ==
  /\ clock < MaxClock /\ clock' = clock + 1
  /\ pc \in {"reading", "sleeping"} /\ (pc = "reading" => queue = <<>>) /\ clock < due
  /\ (pc = "sleeping" => ~notified)
  /\ UNCHANGED <<browser, reading, idling, want, header, pc, action, told>>

Init ==
  /\ want \in [kind : {"wait", "expect"}, predicate : Predicates] \cup {[kind |-> "idle", predicate |-> {}]}
  /\ header \in [Requests -> [base : {None, "fits", "differs"}, raw : {None, "fits", "differs"}]]
  /\ ("header" \notin want.predicate => header = [q \in Requests |-> [base |-> None, raw |-> None]])
  /\ \E early \in SUBSET Requests :
       /\ published = [q \in Requests |-> IF q \in early THEN {"started"} ELSE {}]
       /\ inflight = early /\ quietFor = IF early = {} THEN 0 ELSE None
  /\ pc = "new" /\ queue = <<>> /\ starts = {} /\ snapshots = [q \in Requests |-> {}] /\ matched = None
  /\ sent = [q \in Requests |-> {}]
  /\ action = "none" /\ told = None
  /\ clock = 0 /\ due = 0 /\ quietSince = None /\ notified = FALSE /\ busyAt = None

Next ==
  \/ Subscribe \/ Enable \/ Read \/ ActionEnds \/ Return \/ Expire
  \/ Enter \/ Look \/ Sleep \/ Wake
  \/ \E q \in Requests, fact \in Facts : Publish(q, fact)
  \/ \E reason \in {"closed", "detached"} : RouteCloses(reason)
  \/ Tick

Spec == Init /\ [][Next]_waitVars

-----------------------------------------------------------------------------
(* Properties *)

TypeOK ==
  /\ pc \in {"new", "enabling", "reading", "ok", "closed", "failed", "timeout",
             "look", "looked", "sleeping", "idle"}
  /\ published \in [Requests -> SUBSET Facts] /\ snapshots \in [Requests -> SUBSET Facts]
  /\ starts \subseteq Requests /\ inflight \subseteq Requests
  /\ clock \in 0..MaxClock

\* Of a request in the answer, the start was published after the call had
\* subscribed, so that one that was under way is not taken for it; its facts are
\* published ones; and expect's action is done.
AnswersAreOwn ==
  pc = "ok" =>
    /\ "started" \in matched.facts /\ matched.facts \subseteq sent[matched.request]
    /\ Fits(matched.request, matched.facts)
    /\ want.kind = "expect" => action = "done"

\* A wait that times out has read all that was published, and no request that
\* started since it subscribed fits.
NothingIsMissed ==
  (pc = "timeout" /\ want.kind = "wait") =>
    \A q \in Requests : "started" \in sent[q] => ~Fits(q, sent[q])

\* A timeout says of the action what was known of it.
TimeoutIsHonest ==
  (pc = "timeout" /\ want.kind = "expect") => (told = "Completed") = (action = "done")

\* The raw headers, where they name the header, overrule the response's.
RawHeaderDecides ==
  (pc = "ok" /\ "header" \in want.predicate /\ "extra" \in matched.facts) =>
    header[matched.request].raw # "differs"

\* A network that is told to be idle had nothing in flight whenever it was
\* looked at in the last window.
IdleWindowIsUnbroken ==
  pc = "idle" => inflight = {} /\ (busyAt # None => busyAt <= quietSince) /\ clock - quietSince >= Window

NetworkWaitsAreSound ==
  TypeOK /\ AnswersAreOwn /\ NothingIsMissed /\ TimeoutIsHonest /\ RawHeaderDecides
    /\ IdleWindowIsUnbroken

\* runtime/page.rs:206 "Waits for all observed HTTP-like requests, [...] to reach
\* a terminal state for the quiet window": a wait whose time is up has not been
\* sleeping through a window in which nothing was in flight.
IdleIsFound ==
  (pc = "timeout" /\ want.kind = "idle") => ~(quietFor # None /\ clock - quietFor >= Window)
=============================================================================
