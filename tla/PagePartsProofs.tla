--------------------------- MODULE PagePartsProofs ---------------------------
(***************************************************************************)
(* Machine-checked inductive invariants of the contexts of isolated        *)
(* sessions, of navigations, of downloads, of waits and of the routes of a *)
(* page, for every value of the constants.  PageProofs states with them    *)
(* what MCPages checks.                                                    *)
(***************************************************************************)
EXTENDS PageParts, Sequences, FiniteSetTheorems, SequenceTheorems, TLAPS

(***************************************************************************)
(* The contexts of isolated sessions                                       *)
(***************************************************************************)
ContextTypes ==
  /\ isoWant \in [IsoCalls -> [permissions : Nat, supported : BOOLEAN]]
  /\ runtime \in {"open", "draining", "sessions", "contexts", "closed"}
  /\ isoCall \in [IsoCalls -> Contexts!Busy \cup {"new", "ok", "error", "aborted"}]
  /\ task \in [IsoCalls -> {"none", "creating", "sent", "over"}]
  /\ isoContext \in [IsoCalls -> {"none", "open", "gone"}]
  /\ entry \in [IsoCalls -> {"none", "held", "retained", "cleaning", "failed"}]
  /\ cleaner \in [IsoCalls -> {"nobody", "call", "background", "session", "runtime"}]
  /\ granted \in [IsoCalls -> Nat]
  /\ session \in [IsoCalls -> {"none", "open", "dropped", "closing", "closed"}]
  /\ isoTold \subseteq IsoCalls

\* What the runtime's close has behind it holds of every call.
ClosesInOrder(c) ==
  /\ runtime \in {"sessions", "contexts", "closed"} => isoCall[c] \notin Contexts!Busy /\ task[c] # "creating"
  /\ runtime \in {"contexts", "closed"} => session[c] \notin {"open", "closing"}
  /\ runtime = "closed" => entry[c] = "none"

\* Until the context is handed over it has the creation task, then the channel.
Created(c) ==
  /\ isoCall[c] \in {"new", "asked"} => task[c] = "none"
  /\ isoCall[c] \notin {"new", "error"} => isoWant[c].supported
  /\ isoCall[c] = "creating" => task[c] \in {"creating", "sent"}
  /\ task[c] = "creating" => isoCall[c] \in {"creating", "aborted"} /\ entry[c] = "none"
  /\ task[c] \in {"none", "creating", "sent"} => session[c] = "none" /\ c \notin isoTold
  /\ task[c] = "sent" => isoCall[c] = "creating" /\ entry[c] = "held"
  /\ task[c] = "none" => isoContext[c] = "none" /\ entry[c] = "none"
                         /\ isoCall[c] \in {"new", "asked", "error"}

\* Who has the context, by the state of its entry; without an entry, an open one
\* is still with its task or was named.
Cared(c) ==
  /\ entry[c] # "none" => isoContext[c] = "open" /\ task[c] \in {"sent", "over"}
  /\ entry[c] = "held" <=> task[c] = "sent" \/ isoCall[c] \in {"granting", "starting"}
  /\ entry[c] = "retained" => isoCall[c] = "ok" /\ session[c] \in {"open", "dropped"}
  /\ entry[c] = "cleaning" <=> cleaner[c] # "nobody"
  /\ isoCall[c] = "undoing" <=> cleaner[c] = "call"
  /\ session[c] = "closing" <=> cleaner[c] = "session"
  /\ session[c] = "open" => entry[c] = "retained"
  /\ session[c] # "none" => isoCall[c] = "ok"
  /\ isoCall[c] = "ok" => session[c] # "none"
  /\ entry[c] = "none" /\ isoContext[c] = "open" => task[c] = "creating" \/ c \in isoTold
  /\ isoCall[c] = "error" => entry[c] = "none"

\* Permissions asked for are granted one by one before there is a session.
Granting(c) ==
  /\ granted[c] <= isoWant[c].permissions
  /\ isoCall[c] \in {"starting", "ok"} => granted[c] = isoWant[c].permissions

ContextsOwned == \A c \in IsoCalls : ClosesInOrder(c) /\ Created(c) /\ Cared(c) /\ Granting(c)

ContextInvariant == ContextTypes /\ ContextsOwned

-----------------------------------------------------------------------------
(* A step of one call disturbs that call alone: the parts of the invariant  *)
(* speak of one call, and nothing a call does moves the runtime.            *)

(* A new call has nothing.                                                 *)
LEMMA ContextInit == Contexts!Init => ContextInvariant
<1> SUFFICES ASSUME Contexts!Init PROVE ContextInvariant
  OBVIOUS
<1>1. ContextTypes
  BY DEF Contexts!Init, ContextTypes, Contexts!Busy
<1>2. ASSUME NEW c \in IsoCalls PROVE ClosesInOrder(c) /\ Created(c) /\ Cared(c) /\ Granting(c)
  <2>1. granted[c] = 0 /\ isoWant[c].permissions \in Nat
    BY <1>1 DEF Contexts!Init, ContextTypes
  <2>2. isoCall[c] = "new" /\ task[c] = "none" /\ isoContext[c] = "none" /\ entry[c] = "none"
    BY DEF Contexts!Init
  <2>3. cleaner[c] = "nobody" /\ session[c] = "none" /\ runtime = "open" /\ isoTold = {}
    BY DEF Contexts!Init
  <2> QED BY <2>1, <2>2, <2>3 DEF ClosesInOrder, Created, Cared, Granting, Contexts!Busy
<1> QED BY <1>1, <1>2 DEF ContextInvariant, ContextsOwned

(* No step of a call breaks the invariant.                                 *)
LEMMA ContextCall ==
  ASSUME ContextInvariant, NEW c \in IsoCalls,
         \/ Contexts!Admit(c) \/ Contexts!StartTask(c) \/ Contexts!Create(c) \/ Contexts!CreateFails(c) \/ Contexts!Deliver(c) \/ Contexts!Receive(c)
         \/ Contexts!Grant(c) \/ Contexts!NewSession(c) \/ Contexts!Abort(c) \/ Contexts!Dispose(c) \/ Contexts!DisposeFails(c)
         \/ Contexts!CloseSession(c) \/ Contexts!DropSession(c) \/ Contexts!Claim(c)
  PROVE  ContextInvariant'
<1> USE DEF ContextInvariant, Contexts!Busy
<1>1. CASE Contexts!Admit(c)
  <2>1. ContextTypes'
    BY <1>1 DEF ContextTypes, ContextsOwned, Granting, Contexts!Admit
  <2>2. ASSUME NEW d \in IsoCalls PROVE ClosesInOrder(d)' /\ Created(d)' /\ Cared(d)' /\ Granting(d)'
    BY <1>1, <2>2
       DEF ContextTypes, ContextsOwned, ClosesInOrder, Created, Cared, Granting,
           Contexts!Admit
  <2> QED BY <2>1, <2>2 DEF ContextsOwned
<1>2. CASE Contexts!StartTask(c)
  <2>1. ContextTypes'
    BY ZenonT(60), <1>2 DEF ContextTypes, ContextsOwned, Granting, Contexts!StartTask
  <2>2. ASSUME NEW d \in IsoCalls PROVE ClosesInOrder(d)' /\ Created(d)' /\ Cared(d)' /\ Granting(d)'
    BY <1>2, <2>2
       DEF ContextTypes, ContextsOwned, ClosesInOrder, Created, Cared, Granting,
           Contexts!StartTask
  <2> QED BY <2>1, <2>2 DEF ContextsOwned
<1>3. CASE Contexts!Create(c)
  <2>1. ContextTypes'
    BY <1>3 DEF ContextTypes, ContextsOwned, Granting, Contexts!Create
  <2>2. ASSUME NEW d \in IsoCalls PROVE ClosesInOrder(d)' /\ Created(d)' /\ Cared(d)' /\ Granting(d)'
    BY <1>3, <2>2
       DEF ContextTypes, ContextsOwned, ClosesInOrder, Created, Cared, Granting,
           Contexts!Create
  <2> QED BY <2>1, <2>2 DEF ContextsOwned
<1>4. CASE Contexts!CreateFails(c)
  <2>1. ContextTypes'
    BY <1>4 DEF ContextTypes, ContextsOwned, Granting, Contexts!CreateFails
  <2>2. ASSUME NEW d \in IsoCalls PROVE ClosesInOrder(d)' /\ Created(d)' /\ Cared(d)' /\ Granting(d)'
    BY <1>4, <2>2
       DEF ContextTypes, ContextsOwned, ClosesInOrder, Created, Cared, Granting,
           Contexts!CreateFails
  <2> QED BY <2>1, <2>2 DEF ContextsOwned
<1>5. CASE Contexts!Deliver(c)
  <2>1. ContextTypes'
    BY ZenonT(60), <1>5 DEF ContextTypes, ContextsOwned, Granting, Contexts!Deliver, Contexts!Schedule
  <2>2. ASSUME NEW d \in IsoCalls PROVE ClosesInOrder(d)' /\ Created(d)' /\ Cared(d)' /\ Granting(d)'
    BY <1>5, <2>2
       DEF ContextTypes, ContextsOwned, ClosesInOrder, Created, Cared, Granting,
           Contexts!Deliver, Contexts!Schedule
  <2> QED BY <2>1, <2>2 DEF ContextsOwned
<1>6. CASE Contexts!Receive(c)
  <2>1. ContextTypes'
    BY <1>6 DEF ContextTypes, ContextsOwned, Granting, Contexts!Receive
  <2>2. ASSUME NEW d \in IsoCalls PROVE ClosesInOrder(d)' /\ Created(d)' /\ Cared(d)' /\ Granting(d)'
    BY <1>6, <2>2
       DEF ContextTypes, ContextsOwned, ClosesInOrder, Created, Cared, Granting,
           Contexts!Receive
  <2> QED BY <2>1, <2>2 DEF ContextsOwned
<1>7. CASE Contexts!Grant(c)
  <2>1. ContextTypes'
    <3>1. granted[c] + 1 \in Nat
      BY DEF ContextTypes
    <3>2. granted' \in [IsoCalls -> Nat]
      BY <1>7, <3>1 DEF ContextTypes, Contexts!Grant
    <3> QED BY ZenonT(60), <1>7, <3>2 DEF ContextTypes, Contexts!Grant, Contexts!StartUndo
  <2>2. ASSUME NEW d \in IsoCalls PROVE ClosesInOrder(d)' /\ Created(d)' /\ Cared(d)' /\ Granting(d)'
    BY <1>7, <2>2
       DEF ContextTypes, ContextsOwned, ClosesInOrder, Created, Cared, Granting,
           Contexts!Grant, Contexts!StartUndo
  <2> QED BY <2>1, <2>2 DEF ContextsOwned
<1>8. CASE Contexts!NewSession(c)
  <2>1. ContextTypes'
    BY ZenonT(60), <1>8
       DEF ContextTypes, ContextsOwned, Granting, Contexts!NewSession, Contexts!StartUndo
  <2>2. ASSUME NEW d \in IsoCalls PROVE ClosesInOrder(d)' /\ Created(d)' /\ Cared(d)' /\ Granting(d)'
    BY <1>8, <2>2
       DEF ContextTypes, ContextsOwned, ClosesInOrder, Created, Cared, Granting,
           Contexts!NewSession, Contexts!StartUndo
  <2> QED BY <2>1, <2>2 DEF ContextsOwned
<1>9. CASE Contexts!Abort(c)
  <2>1. ContextTypes'
    BY ZenonT(60), <1>9 DEF ContextTypes, ContextsOwned, Granting, Contexts!Abort, Contexts!Schedule
  <2>2. ASSUME NEW d \in IsoCalls PROVE ClosesInOrder(d)' /\ Created(d)' /\ Cared(d)' /\ Granting(d)'
    BY <1>9, <2>2
       DEF ContextTypes, ContextsOwned, ClosesInOrder, Created, Cared, Granting,
           Contexts!Abort, Contexts!Schedule
  <2> QED BY <2>1, <2>2 DEF ContextsOwned
<1>10. CASE Contexts!Dispose(c)
  <2>1. ContextTypes'
    BY <1>10 DEF ContextTypes, ContextsOwned, Granting, Contexts!Dispose
  <2>2. ASSUME NEW d \in IsoCalls PROVE ClosesInOrder(d)' /\ Created(d)' /\ Cared(d)' /\ Granting(d)'
    BY <1>10, <2>2
       DEF ContextTypes, ContextsOwned, ClosesInOrder, Created, Cared, Granting,
           Contexts!Dispose
  <2> QED BY <2>1, <2>2 DEF ContextsOwned
<1>11. CASE Contexts!DisposeFails(c)
  <2>1. ContextTypes'
    BY <1>11 DEF ContextTypes, ContextsOwned, Granting, Contexts!DisposeFails
  <2>2. ASSUME NEW d \in IsoCalls PROVE ClosesInOrder(d)' /\ Created(d)' /\ Cared(d)' /\ Granting(d)'
    BY <1>11, <2>2
       DEF ContextTypes, ContextsOwned, ClosesInOrder, Created, Cared, Granting,
           Contexts!DisposeFails
  <2> QED BY <2>1, <2>2 DEF ContextsOwned
<1>12. CASE Contexts!CloseSession(c)
  <2>1. ContextTypes'
    BY <1>12 DEF ContextTypes, ContextsOwned, Granting, Contexts!CloseSession
  <2>2. ASSUME NEW d \in IsoCalls PROVE ClosesInOrder(d)' /\ Created(d)' /\ Cared(d)' /\ Granting(d)'
    BY <1>12, <2>2
       DEF ContextTypes, ContextsOwned, ClosesInOrder, Created, Cared, Granting,
           Contexts!CloseSession
  <2> QED BY <2>1, <2>2 DEF ContextsOwned
<1>13. CASE Contexts!DropSession(c)
  <2>1. ContextTypes'
    BY <1>13 DEF ContextTypes, ContextsOwned, Granting, Contexts!DropSession
  <2>2. ASSUME NEW d \in IsoCalls PROVE ClosesInOrder(d)' /\ Created(d)' /\ Cared(d)' /\ Granting(d)'
    BY <1>13, <2>2
       DEF ContextTypes, ContextsOwned, ClosesInOrder, Created, Cared, Granting,
           Contexts!DropSession
  <2> QED BY <2>1, <2>2 DEF ContextsOwned
<1>14. CASE Contexts!Claim(c)
  <2>1. ContextTypes'
    BY <1>14 DEF ContextTypes, ContextsOwned, Granting, Contexts!Claim
  <2>2. ASSUME NEW d \in IsoCalls PROVE ClosesInOrder(d)' /\ Created(d)' /\ Cared(d)' /\ Granting(d)'
    BY <1>14, <2>2
       DEF ContextTypes, ContextsOwned, ClosesInOrder, Created, Cared, Granting,
           Contexts!Claim
  <2> QED BY <2>1, <2>2 DEF ContextsOwned
<1> QED BY <1>1, <1>2, <1>3, <1>4, <1>5, <1>6, <1>7, <1>8, <1>9, <1>10, <1>11, <1>12,
           <1>13, <1>14

(* No step of the runtime's close breaks it.                                *)
LEMMA ContextRuntime ==
  ASSUME ContextInvariant, Contexts!StartClose \/ Contexts!Drain \/ Contexts!EndSessions \/ Contexts!FinishClose
  PROVE  ContextInvariant'
<1> USE DEF ContextInvariant, Contexts!Busy
<1>1. CASE Contexts!StartClose
  <2>1. ContextTypes'
    BY <1>1 DEF ContextTypes, Contexts!StartClose
  <2>2. ASSUME NEW d \in IsoCalls PROVE ClosesInOrder(d)' /\ Created(d)' /\ Cared(d)' /\ Granting(d)'
    BY <1>1, <2>2
       DEF ContextTypes, ContextsOwned, ClosesInOrder, Created, Cared, Granting,
           Contexts!StartClose
  <2> QED BY <2>1, <2>2 DEF ContextsOwned
<1>2. CASE Contexts!Drain
  <2>1. ContextTypes'
    BY <1>2 DEF ContextTypes, Contexts!Drain
  <2>2. ASSUME NEW d \in IsoCalls PROVE ClosesInOrder(d)' /\ Created(d)' /\ Cared(d)' /\ Granting(d)'
    BY <1>2, <2>2
       DEF ContextTypes, ContextsOwned, ClosesInOrder, Created, Cared, Granting,
           Contexts!Drain, Contexts!Drained
  <2> QED BY <2>1, <2>2 DEF ContextsOwned
<1>3. CASE Contexts!EndSessions
  <2>1. ContextTypes'
    BY <1>3 DEF ContextTypes, Contexts!EndSessions
  <2>2. ASSUME NEW d \in IsoCalls PROVE ClosesInOrder(d)' /\ Created(d)' /\ Cared(d)' /\ Granting(d)'
    BY <1>3, <2>2
       DEF ContextTypes, ContextsOwned, ClosesInOrder, Created, Cared, Granting,
           Contexts!EndSessions
  <2> QED BY <2>1, <2>2 DEF ContextsOwned
<1>4. CASE Contexts!FinishClose
  <2>1. ContextTypes'
    BY <1>4 DEF ContextTypes, Contexts!FinishClose
  <2>2. ASSUME NEW d \in IsoCalls PROVE ClosesInOrder(d)' /\ Created(d)' /\ Cared(d)' /\ Granting(d)'
    BY <1>4, <2>2
       DEF ContextTypes, ContextsOwned, ClosesInOrder, Created, Cared, Granting,
           Contexts!FinishClose
  <2> QED BY <2>1, <2>2 DEF ContextsOwned
<1> QED BY <1>1, <1>2, <1>3, <1>4

(* A step that changes nothing keeps it.                                    *)
LEMMA ContextStutters == ASSUME ContextInvariant, UNCHANGED Contexts!contextVars PROVE ContextInvariant'
BY DEF ContextInvariant, ContextTypes, ContextsOwned, ClosesInOrder, Created, Cared,
       Granting, Contexts!contextVars

(* No step of a call, of its task or of the runtime's close breaks it.      *)
LEMMA ContextNext ==
  ContextInvariant /\ [Contexts!Next]_Contexts!contextVars => ContextInvariant'
BY ContextCall, ContextRuntime, ContextStutters DEF Contexts!Next

(* In every reachable state of any number of calls an open context is held *)
(* by a task, a call, an entry or a cleanup, or it was named to someone.   *)
THEOREM ContextsTypeCorrect == Contexts!Spec => []ContextInvariant
<1> QED BY ContextInit, ContextNext, PTL DEF Contexts!Spec

-----------------------------------------------------------------------------
(***************************************************************************)
(* Navigations                                                             *)
(***************************************************************************)
Url == [loader : Nat, url : Nat]
Early == {"idle", "resolve", "entries", "identity", "subscribe", "dispatch"}
Places == Early \cup {"answer", "commit", "load", "apply", "confirm", "ok", "failed", "nowhere"}
NavRecords ==
  [kind : Navigations!Kinds \cup {"none"}, pc : Places, initial : Nat, cross : Seq(Url), same : Seq(Url),
   open : SUBSET {"cross", "same"},
   want : {"none", "loader", "another", "url", "same url", "any", "refused", "error"},
   own : Nat, got : Url, sent : BOOLEAN, told : {"none", "NotStarted", "Unknown", "Completed"}]

(* What a navigation is when document d is the last that Chrome committed,  *)
(* the documents of l are loaded and the frame store has applied those of a:*)
(* it knows no later document, and it was confirmed or is told what is true.*)
Fine(r, d, l, a) ==
  /\ r \in NavRecords
  /\ r.initial <= d /\ r.got.loader <= d /\ \A i \in 1 .. Len(r.cross) : r.cross[i].loader <= d
  /\ r.kind = "none" => r.pc = "idle"
  /\ r.pc \in Early => ~r.sent
  /\ r.pc \notin {"ok", "failed"} => r.told = "none"
  /\ r.told = "NotStarted" /\ r.kind # "create" => ~r.sent
  /\ r.pc = "load" => r.kind # "create"
  /\ r.pc = "apply" => r.kind = "create"
  /\ r.pc = "confirm" /\ r.kind # "create" /\ r.got.loader = d => d \in l
  /\ r.pc = "ok" /\ r.kind # "create" => r.got.loader \in l
  /\ r.pc \in {"confirm", "ok"} /\ r.kind = "create" => r.got.loader \in a
  /\ r.pc \in {"load", "apply", "confirm", "ok"} /\ r.want = "loader" => r.got.loader = r.own

(* Documents are committed in the order of their loaders, and the store is  *)
(* behind.                                                                  *)
InOrder ==
  /\ navDocument \in Url /\ loaded \subseteq Nat /\ starting \in Nat /\ loaders \in Nat
  /\ navStore \in Nat /\ unapplied \in Seq(Nat) /\ navApplied \subseteq Nat
  /\ navDocument.loader <= loaders /\ starting <= loaders
  /\ starting # 0 => navDocument.loader < starting
  /\ navStore <= navDocument.loader
  /\ \A i \in 1 .. Len(unapplied) : unapplied[i] <= navDocument.loader

AllFine == 
  /\ navCall \in [Navs -> NavRecords]
  /\ \A c \in Navs : Fine(navCall[c], navDocument.loader, loaded, navApplied)

NavInvariant == InOrder /\ AllFine

-----------------------------------------------------------------------------
(* A call that takes a step of its own stays fine with all the others.      *)
LEMMA OneCall ==
  ASSUME NavInvariant, NEW c \in Navs, NEW r, navCall' = [navCall EXCEPT ![c] = r],
         Fine(r, navDocument.loader, loaded, navApplied),
         UNCHANGED <<navDocument, loaded, starting, loaders, navStore, unapplied, navApplied>>
  PROVE  NavInvariant'
<1>1. InOrder'
  BY DEF NavInvariant, InOrder
<1>2. r \in NavRecords
  BY DEF Fine
<1> QED BY <1>1, <1>2 DEF NavInvariant, AllFine

(* The queues of a call that hears an event.                                *)
LEMMA Queued ==
  ASSUME NEW q \in Seq(Url), NEW e \in Url
  PROVE  /\ Append(q, e) \in Seq(Url)
         /\ \A i \in 1 .. Len(Append(q, e)) :
              Append(q, e)[i] = e \/ (i \in 1 .. Len(q) /\ Append(q, e)[i] = q[i])
<1> HIDE DEF Url
<1>1. /\ Append(q, e) \in Seq(Url) /\ Len(Append(q, e)) = Len(q) + 1 /\ Len(q) \in Nat
      /\ \A i \in 1 .. Len(q) + 1 : Append(q, e)[i] = IF i <= Len(q) THEN q[i] ELSE e
  OBVIOUS
<1> QED BY <1>1

(* The first event of a queue, and the rest.                                *)
LEMMA Unqueued ==
  ASSUME NEW S, NEW q \in Seq(S), q # <<>>
  PROVE  /\ Tail(q) \in Seq(S) /\ Head(q) \in S /\ 1 \in 1 .. Len(q) /\ Head(q) = q[1]
         /\ \A i \in 1 .. Len(Tail(q)) : i + 1 \in 1 .. Len(q) /\ Tail(q)[i] = q[i + 1]
OBVIOUS

(* What Chrome sends changes the queues of the calls, and nothing else.     *)
LEMMA Sends ==
  ASSUME NEW calls \in [Navs -> NavRecords], NEW heard \in {"cross", "same"}, NEW e \in Url,
         NEW c \in Navs, NEW d \in Nat, NEW l, NEW a, e.loader <= d, Fine(calls[c], d, l, a)
  PROVE  Fine(Navigations!Sent(calls, heard, e)[c], d, l, a)
<1> DEFINE r == calls[c]
<1>1. r \in NavRecords /\ r.cross \in Seq(Url) /\ r.same \in Seq(Url)
  BY DEF NavRecords
<1>2. CASE heard \notin r.open
  BY <1>2 DEF Navigations!Sent
<1>3. CASE heard \in r.open /\ heard = "cross"
  <2>1. Navigations!Sent(calls, heard, e)[c] = [r EXCEPT !.cross = Append(r.cross, e)]
    BY <1>3 DEF Navigations!Sent
  <2> DEFINE s == [r EXCEPT !.cross = Append(r.cross, e)]
  <2>2. s \in NavRecords /\ s.cross = Append(r.cross, e)
    BY <1>1, Queued DEF NavRecords
  <2>3. /\ s.kind = r.kind /\ s.pc = r.pc /\ s.initial = r.initial /\ s.want = r.want
        /\ s.own = r.own /\ s.got = r.got /\ s.sent = r.sent /\ s.told = r.told
    BY <1>1 DEF NavRecords
  <2>4. \A i \in 1 .. Len(s.cross) : s.cross[i].loader <= d
    BY <1>1, <2>2, Queued DEF Fine
  <2> HIDE DEF s
  <2> QED BY <2>1, <2>2, <2>3, <2>4 DEF Fine, s
<1>4. CASE heard \in r.open /\ heard = "same"
  <2>1. Navigations!Sent(calls, heard, e)[c] = [r EXCEPT !.same = Append(r.same, e)]
    BY <1>4 DEF Navigations!Sent
  <2> DEFINE s == [r EXCEPT !.same = Append(r.same, e)]
  <2>2. s \in NavRecords
    BY <1>1, Queued DEF NavRecords
  <2>3. /\ s.kind = r.kind /\ s.pc = r.pc /\ s.initial = r.initial /\ s.want = r.want
        /\ s.own = r.own /\ s.got = r.got /\ s.sent = r.sent /\ s.told = r.told
        /\ s.cross = r.cross
    BY <1>1 DEF NavRecords
  <2> HIDE DEF s
  <2> QED BY <2>1, <2>2, <2>3 DEF Fine, s
<1> QED BY <1>2, <1>3, <1>4

(* Chrome sends events to calls, which stay calls.                         *)
LEMMA SentRecords ==
  ASSUME NEW calls \in [Navs -> NavRecords], NEW heard \in {"cross", "same"}, NEW e \in Url
  PROVE  Navigations!Sent(calls, heard, e) \in [Navs -> NavRecords]
<1>1. ASSUME NEW c \in Navs
      PROVE  /\ [calls[c] EXCEPT !.cross = Append(@, e)] \in NavRecords
             /\ [calls[c] EXCEPT !.same = Append(@, e)] \in NavRecords
  <2>1. calls[c] \in NavRecords /\ calls[c].cross \in Seq(Url) /\ calls[c].same \in Seq(Url)
    BY DEF NavRecords
  <2> QED BY <2>1, Queued DEF NavRecords
<1> QED BY <1>1 DEF Navigations!Sent

(* A later document leaves a call fine: what it has got or hears is older.  *)
LEMMA FineLater ==
  ASSUME NEW r, NEW d \in Nat, NEW e \in Nat, NEW l, NEW k, NEW a, NEW b, Fine(r, d, l, a),
         d < e \/ (d = e), l \subseteq k, a \subseteq b
  PROVE  Fine(r, e, k, b)
<1>1. r \in NavRecords /\ r.initial \in Nat /\ r.got \in Url /\ r.cross \in Seq(Url)
  BY DEF Fine, NavRecords
<1>2. \A i \in 1 .. Len(r.cross) : r.cross[i] \in Url
  <2> HIDE DEF Url
  <2> QED BY <1>1
<1>3. r.got.loader \in Nat /\ \A i \in 1 .. Len(r.cross) : r.cross[i].loader \in Nat
  BY <1>1, <1>2 DEF Url
<1> QED BY SMTT(60), <1>1, <1>3 DEF Fine

(* Chrome's own steps. *)
LEMMA CommitKeeps ==
  ASSUME NavInvariant, Navigations!Commit
  PROVE  NavInvariant'
<1>1. /\ navDocument' \in Url /\ navDocument'.loader = starting /\ navDocument.loader < starting
      /\ UNCHANGED <<loaded, loaders, navStore, navApplied>> /\ starting' = 0
      /\ navCall' = Navigations!Sent(navCall, "cross", navDocument')
  BY DEF NavInvariant, InOrder, Navigations!Commit, Url
<1>2. /\ unapplied' \in Seq(Nat)
      /\ \A i \in 1 .. Len(unapplied') : unapplied'[i] <= starting
  <2>1. unapplied \in Seq(Nat) /\ starting \in Nat /\ unapplied' = Append(unapplied, starting)
    BY DEF NavInvariant, InOrder, Navigations!Commit
  <2>2. /\ Append(unapplied, starting) \in Seq(Nat)
        /\ Len(Append(unapplied, starting)) = Len(unapplied) + 1 /\ Len(unapplied) \in Nat
        /\ \A i \in 1 .. Len(unapplied) + 1 :
             Append(unapplied, starting)[i] = IF i <= Len(unapplied) THEN unapplied[i] ELSE starting
    BY <2>1
  <2>3. \A i \in 1 .. Len(unapplied) : unapplied[i] <= navDocument.loader /\ unapplied[i] \in Nat
    BY <2>1 DEF NavInvariant, InOrder
  <2> QED BY <1>1, <2>1, <2>2, <2>3 DEF NavInvariant, InOrder, Url
<1>3. InOrder'
  BY <1>1, <1>2 DEF NavInvariant, InOrder, Url
<1>4. ASSUME NEW c \in Navs
      PROVE  Fine(navCall'[c], navDocument'.loader, loaded', navApplied')
  <2>1. Fine(navCall[c], navDocument'.loader, loaded', navApplied')
    BY <1>1, FineLater DEF NavInvariant, AllFine, InOrder, Url
  <2> QED BY <1>1, <2>1, Sends DEF NavInvariant, AllFine, Url
<1>5. navCall' \in [Navs -> NavRecords]
  BY <1>1, SentRecords DEF NavInvariant, AllFine
<1> QED BY <1>3, <1>4, <1>5 DEF NavInvariant, AllFine

(* A document that has loaded says no less of those that await it.         *)
LEMMA LoadKeeps ==
  ASSUME NavInvariant, Navigations!Load
  PROVE  NavInvariant'
<1>1. /\ loaded' = loaded \cup {navDocument.loader} /\ navDocument.loader \in Nat
      /\ UNCHANGED <<navDocument, starting, loaders, navStore, unapplied, navApplied, navCall>>
  BY DEF NavInvariant, InOrder, Navigations!Load, Navigations!storeVars, Url
<1>2. InOrder'
  BY <1>1 DEF NavInvariant, InOrder
<1>3. \A c \in Navs : Fine(navCall[c], navDocument.loader, loaded', navApplied)
  BY <1>1, FineLater DEF NavInvariant, AllFine
<1> QED BY <1>1, <1>2, <1>3 DEF NavInvariant, AllFine

(* A change within the document, heard by calls that are fine.              *)
LEMMA WithinKeeps ==
  ASSUME InOrder, NEW calls \in [Navs -> NavRecords], Navigations!WithinDocument(calls),
         \A c \in Navs : Fine(calls[c], navDocument.loader, loaded, navApplied),
         UNCHANGED <<loaded, starting, loaders, navStore, unapplied, navApplied>>
  PROVE  NavInvariant'
<1>1. /\ navDocument' \in Url /\ navDocument'.loader = navDocument.loader /\ navDocument.loader \in Nat
      /\ navCall' = Navigations!Sent(calls, "same", navDocument')
  BY DEF InOrder, Navigations!WithinDocument, Url
<1>2. InOrder'
  BY <1>1 DEF InOrder
<1>3. navCall' \in [Navs -> NavRecords]
  BY <1>1, SentRecords
<1>4. \A c \in Navs : Fine(navCall'[c], navDocument.loader, loaded, navApplied)
  BY <1>1, Sends
<1> QED BY <1>1, <1>2, <1>3, <1>4 DEF NavInvariant, AllFine

(* The page navigates by itself, to a document or within its own.          *)
LEMMA PageNavigatesKeeps ==
  ASSUME NavInvariant, Navigations!PageNavigates
  PROVE  NavInvariant'
<1>1. CASE Navigations!Starts /\ UNCHANGED <<navDocument, loaded, Navigations!storeVars, navCall>>
  BY <1>1
     DEF NavInvariant, InOrder, AllFine, Navigations!Starts, Navigations!storeVars, Url
<1>2. CASE Navigations!WithinDocument(navCall) /\ UNCHANGED <<loaded, starting, loaders, Navigations!storeVars>>
  BY <1>2, WithinKeeps DEF NavInvariant, AllFine, Navigations!storeVars
<1> QED BY <1>1, <1>2 DEF Navigations!PageNavigates

(* The frame store applies a commit, one that Chrome has made.             *)
LEMMA ApplyKeeps ==
  ASSUME NavInvariant, Navigations!Apply
  PROVE  NavInvariant'
<1>1. /\ unapplied # <<>> /\ navStore' = Head(unapplied) /\ unapplied' = Tail(unapplied)
      /\ navApplied' = navApplied \cup {Head(unapplied)} /\ unapplied \in Seq(Nat)
      /\ UNCHANGED <<navDocument, loaded, starting, loaders, navCall>>
  BY DEF NavInvariant, InOrder, Navigations!Apply, Navigations!chromeVars
<1>2. /\ Tail(unapplied) \in Seq(Nat) /\ Head(unapplied) \in Nat
      /\ 1 \in 1 .. Len(unapplied) /\ Head(unapplied) = unapplied[1]
      /\ \A i \in 1 .. Len(Tail(unapplied)) :
           i + 1 \in 1 .. Len(unapplied) /\ Tail(unapplied)[i] = unapplied[i + 1]
  BY <1>1, Unqueued
<1>3. InOrder'
  BY <1>1, <1>2 DEF NavInvariant, InOrder
<1>4. \A c \in Navs : Fine(navCall[c], navDocument.loader, loaded, navApplied')
  BY <1>1, FineLater DEF NavInvariant, AllFine, InOrder, Url
<1> QED BY <1>1, <1>3, <1>4 DEF NavInvariant, AllFine

-----------------------------------------------------------------------------
(* The steps of a call, by what they make of its record.                    *)
LEMMA Moved ==
  ASSUME NEW r \in NavRecords, NEW p \in Places, NEW s, s = [r EXCEPT !.pc = p]
  PROVE  /\ s \in NavRecords /\ s.pc = p
         /\ s.kind = r.kind /\ s.initial = r.initial /\ s.cross = r.cross /\ s.want = r.want
         /\ s.own = r.own /\ s.got = r.got /\ s.sent = r.sent /\ s.told = r.told
BY DEF NavRecords

EndOf(r, p, t) ==
  [r EXCEPT !.pc = p, !.told = t, !.open = {}, !.cross = <<>>, !.same = <<>>]

(* A call that has ended has what it had, is told, and hears nothing       *)
(* more.                                                                   *)
LEMMA Ended ==
  ASSUME NEW r \in NavRecords, NEW p \in {"ok", "failed"},
         NEW t \in {"NotStarted", "Unknown", "Completed"}
  PROVE  LET s == EndOf(r, p, t) IN
         /\ s \in NavRecords /\ s.pc = p /\ s.told = t /\ s.cross = <<>>
         /\ s.kind = r.kind /\ s.initial = r.initial /\ s.want = r.want
         /\ s.own = r.own /\ s.got = r.got /\ s.sent = r.sent
<1> HIDE DEF Url
<1>1. p \in Places /\ <<>> \in Seq(Url) /\ {} \in SUBSET {"cross", "same"}
  BY DEF Places
<1> HIDE DEF Places
<1> DEFINE q == [r EXCEPT !.pc = p, !.told = t]
<1>2. /\ q \in NavRecords /\ q.pc = p /\ q.told = t
      /\ q.kind = r.kind /\ q.initial = r.initial /\ q.want = r.want
      /\ q.own = r.own /\ q.got = r.got /\ q.sent = r.sent
  BY <1>1 DEF NavRecords
<1>3. EndOf(r, p, t) = [q EXCEPT !.open = {}, !.cross = <<>>, !.same = <<>>]
  BY Zenon DEF EndOf
<1> HIDE DEF q
<1> DEFINE v == [q EXCEPT !.open = {}, !.cross = <<>>]
           w == [v EXCEPT !.same = <<>>]
<1>4. /\ v \in NavRecords /\ v.cross = <<>>
      /\ v.pc = q.pc /\ v.told = q.told /\ v.kind = q.kind /\ v.initial = q.initial
      /\ v.want = q.want /\ v.own = q.own /\ v.got = q.got /\ v.sent = q.sent
  BY <1>1, <1>2 DEF NavRecords
<1>5. [q EXCEPT !.open = {}, !.cross = <<>>, !.same = <<>>] = w
  BY Zenon
<1> HIDE DEF v
<1>6. /\ w \in NavRecords /\ w.cross = v.cross
      /\ w.pc = v.pc /\ w.told = v.told /\ w.kind = v.kind /\ w.initial = v.initial
      /\ w.want = v.want /\ w.own = v.own /\ w.got = v.got /\ w.sent = v.sent
  BY <1>1, <1>4 DEF NavRecords
<1> HIDE DEF w
<1> QED BY <1>2, <1>3, <1>4, <1>5, <1>6

(* A call ends with what it has got.                                        *)
LEMMA EndsAs ==
  ASSUME NavInvariant, NEW c \in Navs, NEW p \in {"ok", "failed"},
         NEW t \in {"NotStarted", "Unknown", "Completed"}, Navigations!Ends(c, p, t)
  PROVE  navCall' = [navCall EXCEPT ![c] = EndOf(navCall[c], p, t)]
<1>1. navCall \in [Navs -> NavRecords]
  BY DEF NavInvariant, AllFine
<1>2. navCall' = [navCall EXCEPT ![c].pc = p, ![c].told = t, ![c].open = {},
                                 ![c].cross = <<>>, ![c].same = <<>>]
  BY DEF Navigations!Ends
<1> QED BY <1>1, <1>2 DEF EndOf

(* A call that fails stays fine, if "not started" is what is true of it.    *)
LEMMA FailKeeps ==
  ASSUME NavInvariant, NEW c \in Navs, NEW t \in {"NotStarted", "Unknown", "Completed"},
         Navigations!Fail(c, t), navCall[c].pc # "idle",
         t = "NotStarted" /\ navCall[c].kind # "create" => ~navCall[c].sent,
         UNCHANGED <<navDocument, loaded, starting, loaders, navStore, unapplied, navApplied>>
  PROVE  NavInvariant'
<1> DEFINE r == navCall[c]
           s == EndOf(r, "failed", t)
<1>1. r \in NavRecords /\ Fine(r, navDocument.loader, loaded, navApplied)
  BY DEF NavInvariant, AllFine
<1>2. navCall' = [navCall EXCEPT ![c] = s]
  BY EndsAs DEF Navigations!Fail
<1>3. /\ s \in NavRecords /\ s.pc = "failed" /\ s.told = t /\ s.cross = <<>>
      /\ s.kind = r.kind /\ s.initial = r.initial /\ s.want = r.want
      /\ s.own = r.own /\ s.got = r.got /\ s.sent = r.sent
  BY <1>1, Ended
<1> HIDE DEF s
<1>4. Fine(s, navDocument.loader, loaded, navApplied)
  BY <1>1, <1>3 DEF Fine, Early
<1> QED BY <1>2, <1>4, OneCall

(* A call that only goes on stays fine, if what its new place says is true. *)
LEMMA ToKeeps ==
  ASSUME NavInvariant, NEW c \in Navs, NEW p \in Places \ {"ok", "failed"}, Navigations!To(c, p),
         navCall[c].pc # "idle",
         navCall[c].told = "none",
         p \in Early => navCall[c].pc \in Early,
         p = "load" => navCall[c].kind # "create",
         p = "apply" => navCall[c].kind = "create",
         p = "confirm" => navCall[c].pc \in {"load", "apply"},
         p \in {"load", "apply"} /\ navCall[c].want = "loader" => navCall[c].got.loader = navCall[c].own,
         p = "confirm" /\ navCall[c].kind # "create" => navDocument.loader \in loaded,
         p = "confirm" /\ navCall[c].kind = "create" => navCall[c].got.loader \in navApplied,
         UNCHANGED <<navDocument, loaded, starting, loaders, navStore, unapplied, navApplied>>
  PROVE  NavInvariant'
<1> DEFINE r == navCall[c]
           s == [r EXCEPT !.pc = p]
<1>1. navCall \in [Navs -> NavRecords] /\ r \in NavRecords
      /\ Fine(r, navDocument.loader, loaded, navApplied)
  BY DEF NavInvariant, AllFine
<1>2. navCall' = [navCall EXCEPT ![c] = s]
  BY <1>1 DEF Navigations!To
<1>3. /\ s \in NavRecords /\ s.pc = p
      /\ s.kind = r.kind /\ s.initial = r.initial /\ s.cross = r.cross /\ s.want = r.want
      /\ s.own = r.own /\ s.got = r.got /\ s.sent = r.sent /\ s.told = r.told
  BY <1>1, Moved
<1> HIDE DEF s
<1>4. Fine(s, navDocument.loader, loaded, navApplied)
  BY <1>1, <1>3 DEF Fine, Early, Places
<1> QED BY <1>2, <1>4, OneCall

(* What the invariant says of a call before its step.                       *)
LEMMA CallIsFine ==
  ASSUME NavInvariant, NEW c \in Navs
  PROVE  /\ navCall[c] \in NavRecords /\ navCall[c].pc \in Places
         /\ Fine(navCall[c], navDocument.loader, loaded, navApplied)
         /\ navCall[c].pc \in Early => ~navCall[c].sent
         /\ navCall[c].pc \notin {"ok", "failed"} => navCall[c].told = "none"
BY DEF NavInvariant, AllFine, Fine, NavRecords

(* The frame is resolved, or it is gone.                                   *)
LEMMA ResolveKeeps ==
  ASSUME NavInvariant, NEW c \in Navs, Navigations!Resolve(c)
  PROVE  NavInvariant'
<1>1. UNCHANGED <<navDocument, loaded, starting, loaders, navStore, unapplied, navApplied>>
      /\ navCall[c].pc = "resolve" /\ (Navigations!To(c, "identity") \/ Navigations!Fail(c, "NotStarted"))
  BY DEF Navigations!Resolve, Navigations!In, Navigations!chromeVars,
         Navigations!storeVars
<1>2. CASE Navigations!To(c, "identity")
  BY <1>1, <1>2, CallIsFine, ToKeeps DEF Places, Early
<1>3. CASE Navigations!Fail(c, "NotStarted")
  BY <1>1, <1>3, CallIsFine, FailKeeps DEF Early
<1> QED BY <1>1, <1>2, <1>3

(* The history has the entry, or it has none there.                        *)
LEMMA FindEntryKeeps ==
  ASSUME NavInvariant, NEW c \in Navs, Navigations!FindEntry(c)
  PROVE  NavInvariant'
<1>1. UNCHANGED <<navDocument, loaded, starting, loaders, navStore, unapplied, navApplied>>
      /\ navCall[c].pc = "entries"
      /\ (Navigations!To(c, "identity") \/ Navigations!Fail(c, "NotStarted") \/ Navigations!To(c, "nowhere"))
  BY DEF Navigations!FindEntry, Navigations!In, Navigations!chromeVars,
         Navigations!storeVars
<1>2. CASE Navigations!To(c, "identity")
  BY <1>1, <1>2, CallIsFine, ToKeeps DEF Places, Early
<1>3. CASE Navigations!Fail(c, "NotStarted")
  BY <1>1, <1>3, CallIsFine, FailKeeps DEF Early
<1>4. CASE Navigations!To(c, "nowhere")
  BY <1>1, <1>4, CallIsFine, ToKeeps DEF Places, Early
<1> QED BY <1>1, <1>2, <1>3, <1>4

(* The answer of the command says what to wait for, or why not to.         *)
LEMMA AnswerKeeps ==
  ASSUME NavInvariant, NEW c \in Navs, Navigations!Answer(c)
  PROVE  NavInvariant'
<1>1. UNCHANGED <<navDocument, loaded, starting, loaders, navStore, unapplied, navApplied>>
      /\ navCall[c].pc = "answer"
      /\ (Navigations!Fail(c, "Unknown") \/ Navigations!Fail(c, "Completed") \/ Navigations!To(c, "commit"))
  BY DEF Navigations!Answer, Navigations!In, Navigations!chromeVars, Navigations!storeVars
<1>2. CASE Navigations!Fail(c, "Unknown") \/ Navigations!Fail(c, "Completed")
  BY <1>1, <1>2, CallIsFine, FailKeeps
<1>3. CASE Navigations!To(c, "commit")
  BY <1>1, <1>3, CallIsFine, ToKeeps DEF Places, Early
<1> QED BY <1>1, <1>2, <1>3

(* The document that is loaded may be a later one than the call has got:    *)
(* its confirmation finds that out.                                         *)
LEMMA SeeLoadedKeeps ==
  ASSUME NavInvariant, NEW c \in Navs, Navigations!SeeLoaded(c)
  PROVE  NavInvariant'
<1>1. UNCHANGED <<navDocument, loaded, starting, loaders, navStore, unapplied, navApplied>>
      /\ navCall[c].pc = "load" /\ navDocument.loader \in loaded /\ Navigations!To(c, "confirm")
  BY DEF Navigations!SeeLoaded, Navigations!In, Navigations!chromeVars,
         Navigations!storeVars
<1>2. navCall[c].kind # "create"
  BY <1>1, CallIsFine DEF Fine
<1> QED BY <1>1, <1>2, CallIsFine, ToKeeps DEF Places, Early

(* A created page is known to its frame store.                             *)
LEMMA SeeAppliedKeeps ==
  ASSUME NavInvariant, NEW c \in Navs, Navigations!SeeApplied(c)
  PROVE  NavInvariant'
<1>1. UNCHANGED <<navDocument, loaded, starting, loaders, navStore, unapplied, navApplied>>
      /\ navCall[c].pc = "apply" /\ navCall[c].got.loader \in navApplied /\ Navigations!To(c, "confirm")
  BY DEF Navigations!SeeApplied, Navigations!In, Navigations!chromeVars,
         Navigations!storeVars
<1>2. navCall[c].kind = "create"
  BY <1>1, CallIsFine DEF Fine
<1> QED BY <1>1, <1>2, CallIsFine, ToKeeps DEF Places, Early

(* A stream or the connection breaks.                                      *)
LEMMA BreakKeeps ==
  ASSUME NavInvariant, NEW c \in Navs, Navigations!Break(c)
  PROVE  NavInvariant'
<1> DEFINE t == IF navCall[c].pc = "apply" THEN "NotStarted" ELSE "Completed"
<1>1. UNCHANGED <<navDocument, loaded, starting, loaders, navStore, unapplied, navApplied>>
      /\ Navigations!Fail(c, t) /\ navCall[c].pc # "idle"
  BY DEF Navigations!Break, Navigations!In, Navigations!chromeVars, Navigations!storeVars
<1>2. t = "NotStarted" => navCall[c].kind = "create"
  BY CallIsFine DEF Fine
<1> QED BY <1>1, <1>2, FailKeeps

(* The deadline passes.                                                    *)
LEMMA ExpireKeeps ==
  ASSUME NavInvariant, NEW c \in Navs, Navigations!Expire(c)
  PROVE  NavInvariant'
<1>1. UNCHANGED <<navDocument, loaded, starting, loaders, navStore, unapplied, navApplied>>
      /\ Navigations!Fail(c, Navigations!Told(c)) /\ navCall[c].pc # "idle"
  BY DEF Navigations!Expire, Navigations!Ended, Navigations!chromeVars,
         Navigations!storeVars
<1>2. /\ Navigations!Told(c) \in {"NotStarted", "Unknown", "Completed"}
      /\ Navigations!Told(c) = "NotStarted" => navCall[c].pc \in Early
  BY DEF Navigations!Told, Early
<1> QED BY <1>1, <1>2, CallIsFine, FailKeeps

(* A call begins with nothing sent.                                        *)
LEMMA BeginKeeps ==
  ASSUME NavInvariant, NEW c \in Navs, Navigations!Begin(c)
  PROVE  NavInvariant'
<1> DEFINE r == navCall[c]
<1>1. UNCHANGED <<navDocument, loaded, starting, loaders, navStore, unapplied, navApplied>> /\ r.pc = "idle"
  BY DEF Navigations!Begin, Navigations!In, Navigations!chromeVars, Navigations!storeVars
<1>2. navCall \in [Navs -> NavRecords] /\ r \in NavRecords
      /\ Fine(r, navDocument.loader, loaded, navApplied)
  BY DEF NavInvariant, AllFine
<1>3. PICK k \in Navigations!Kinds, p \in {"resolve", "entries", "identity"} :
        navCall' = [navCall EXCEPT ![c].kind = k, ![c].pc = p]
  BY DEF Navigations!Begin
<1> DEFINE s == [r EXCEPT !.kind = k, !.pc = p]
<1>4. navCall' = [navCall EXCEPT ![c] = s]
  BY <1>2, <1>3
<1>5. /\ s \in NavRecords /\ s.pc = p /\ s.kind = k
      /\ s.initial = r.initial /\ s.cross = r.cross /\ s.want = r.want
      /\ s.own = r.own /\ s.got = r.got /\ s.sent = r.sent /\ s.told = r.told
  BY ZenonT(60), <1>2 DEF NavRecords, Places, Early
<1> HIDE DEF s
<1>6. k # "none"
  BY DEF Navigations!Kinds
<1>7. Fine(s, navDocument.loader, loaded, navApplied)
  BY <1>1, <1>2, <1>5, <1>6 DEF Fine, Early
<1> QED BY <1>1, <1>4, <1>7, OneCall

(* A call remembers the document that is there.                            *)
LEMMA IdentifyKeeps ==
  ASSUME NavInvariant, NEW c \in Navs, Navigations!Identify(c)
  PROVE  NavInvariant'
<1> DEFINE r == navCall[c]
           s == [r EXCEPT !.initial = navStore, !.pc = "subscribe"]
<1>1. UNCHANGED <<navDocument, loaded, starting, loaders, navStore, unapplied, navApplied>> /\ r.pc = "identity"
  BY DEF Navigations!Identify, Navigations!In, Navigations!chromeVars,
         Navigations!storeVars
<1>2. navCall \in [Navs -> NavRecords] /\ r \in NavRecords /\ navStore \in Nat
      /\ Fine(r, navDocument.loader, loaded, navApplied) /\ navStore <= navDocument.loader
  BY DEF NavInvariant, AllFine, InOrder
<1>3. navCall' = [navCall EXCEPT ![c] = s]
  BY <1>2 DEF Navigations!Identify
<1>4. /\ s \in NavRecords /\ s.pc = "subscribe" /\ s.initial = navStore
      /\ s.kind = r.kind /\ s.cross = r.cross /\ s.want = r.want
      /\ s.own = r.own /\ s.got = r.got /\ s.sent = r.sent /\ s.told = r.told
  BY <1>2 DEF NavRecords, Places, Early
<1> HIDE DEF s
<1>5. Fine(s, navDocument.loader, loaded, navApplied)
  BY <1>1, <1>2, <1>4 DEF Fine, Early
<1> QED BY <1>1, <1>3, <1>5, OneCall

(* From now on a call hears what Chrome sends; it has heard nothing yet.   *)
LEMMA SubscribeKeeps ==
  ASSUME NavInvariant, NEW c \in Navs, Navigations!Subscribe(c)
  PROVE  NavInvariant'
<1> DEFINE r == navCall[c]
<1>1. UNCHANGED <<navDocument, loaded, starting, loaders, navStore, unapplied, navApplied>> /\ r.pc = "subscribe"
  BY DEF Navigations!Subscribe, Navigations!In, Navigations!chromeVars,
         Navigations!storeVars
<1>2. navCall \in [Navs -> NavRecords] /\ r \in NavRecords
      /\ Fine(r, navDocument.loader, loaded, navApplied)
  BY DEF NavInvariant, AllFine
<1>3. CASE Navigations!Fail(c, "NotStarted")
  BY <1>1, <1>3, CallIsFine, FailKeeps DEF Early
<1>4. ASSUME NEW streams \in SUBSET {"cross", "same"}, NEW p \in {"subscribe", "dispatch"},
             navCall' = [navCall EXCEPT ![c].open = streams, ![c].pc = p]
      PROVE  NavInvariant'
  <2> DEFINE s == [r EXCEPT !.open = streams, !.pc = p]
  <2>1. navCall' = [navCall EXCEPT ![c] = s]
    BY <1>2, <1>4
  <2>2. /\ s \in NavRecords /\ s.pc = p /\ s.initial = r.initial
        /\ s.kind = r.kind /\ s.cross = r.cross /\ s.want = r.want
        /\ s.own = r.own /\ s.got = r.got /\ s.sent = r.sent /\ s.told = r.told
    BY <1>2 DEF NavRecords, Places, Early
  <2> HIDE DEF s
  <2>3. Fine(s, navDocument.loader, loaded, navApplied)
    BY <1>1, <1>2, <2>2 DEF Fine, Early
  <2> QED BY <1>1, <2>1, <2>3, OneCall
<1>5. CASE navCall' = [navCall EXCEPT ![c].open = {"cross"}]
  <2>1. navCall' = [navCall EXCEPT ![c].open = {"cross"}, ![c].pc = "subscribe"]
    <3>1. r \in NavRecords /\ r.pc = "subscribe"
      BY <1>1, <1>2
    <3>2. [r EXCEPT !.open = {"cross"}, !.pc = "subscribe"] = [r EXCEPT !.open = {"cross"}]
      BY <3>1 DEF NavRecords
    <3>3. [navCall EXCEPT ![c].open = {"cross"}, ![c].pc = "subscribe"]
            = [navCall EXCEPT ![c] = [r EXCEPT !.open = {"cross"}, !.pc = "subscribe"]]
      BY <1>2
    <3>4. [navCall EXCEPT ![c].open = {"cross"}]
            = [navCall EXCEPT ![c] = [r EXCEPT !.open = {"cross"}]]
      BY <1>2
    <3> QED BY <1>5, <3>2, <3>3, <3>4
  <2> QED BY <2>1, <1>4
<1>6. CASE navCall' = [navCall EXCEPT ![c].open = {"cross", "same"}, ![c].pc = "dispatch"]
  BY <1>4, <1>6
<1> QED BY <1>3, <1>5, <1>6 DEF Navigations!Subscribe

(* A call that has sent its command waits for the answer.                   *)
AnsweredAs(r, w, o) == [r EXCEPT !.pc = "answer", !.want = w, !.own = o, !.sent = TRUE]

Wants == {"loader", "another", "url", "same url", "any", "refused", "error"}

(* It is fine: it has sent, and has got nothing.                           *)
LEMMA AnsweredIsFine ==
  ASSUME NavInvariant, NEW c \in Navs, navCall[c].pc = "dispatch", NEW w \in Wants, NEW o \in Nat
  PROVE  /\ Navigations!Answered(c, w, o) \in [Navs -> NavRecords]
         /\ \A d \in Navs : Fine(Navigations!Answered(c, w, o)[d], navDocument.loader, loaded, navApplied)
<1> DEFINE r == navCall[c]
           q == [r EXCEPT !.pc = "answer", !.want = w]
           s == [q EXCEPT !.own = o, !.sent = TRUE]
<1>1. navCall \in [Navs -> NavRecords] /\ r \in NavRecords
      /\ Fine(r, navDocument.loader, loaded, navApplied)
  BY DEF NavInvariant, AllFine
<1>2. Navigations!Answered(c, w, o) = [navCall EXCEPT ![c] = AnsweredAs(r, w, o)]
  BY <1>1 DEF Navigations!Answered, AnsweredAs
<1>3. AnsweredAs(r, w, o) = s
  BY Zenon DEF AnsweredAs
<1>4. /\ q \in NavRecords /\ q.pc = "answer" /\ q.initial = r.initial
      /\ q.kind = r.kind /\ q.cross = r.cross /\ q.got = r.got /\ q.told = r.told
  BY <1>1 DEF NavRecords, Places, Wants
<1> HIDE DEF q
<1>5. /\ s \in NavRecords /\ s.pc = q.pc /\ s.initial = q.initial
      /\ s.kind = q.kind /\ s.cross = q.cross /\ s.got = q.got /\ s.told = q.told
  BY <1>4 DEF NavRecords
<1> HIDE DEF s
<1>6. r.told = "none" /\ r.kind # "none"
  BY <1>1 DEF Fine
<1>7. Fine(s, navDocument.loader, loaded, navApplied)
  BY <1>1, <1>4, <1>5, <1>6 DEF Fine, Early
<1> QED BY <1>1, <1>2, <1>3, <1>5, <1>7 DEF NavInvariant, AllFine

(* The command starts a document, stays within the one there, or is        *)
(* refused.                                                                *)
LEMMA DispatchKeeps ==
  ASSUME NavInvariant, NEW c \in Navs, Navigations!Dispatch(c)
  PROVE  NavInvariant'
<1>1. navCall[c].pc = "dispatch" /\ UNCHANGED <<loaded, navStore, unapplied, navApplied>>
  BY DEF Navigations!Dispatch, Navigations!In, Navigations!storeVars
<1>2. CASE /\ Navigations!Starts /\ UNCHANGED navDocument /\ navCall[c].kind # "expect"
           /\ navCall' = Navigations!Answered(c, CASE navCall[c].kind \in {"goto", "create"} -> "loader"
                                           [] navCall[c].kind = "reload" -> "another"
                                           [] navCall[c].kind = "history" -> "url", loaders')
  <2>1. navCall[c].kind \in {"goto", "create", "reload", "history"}
    <3>1. navCall[c].kind \in Navigations!Kinds
      <4>1. navCall[c].kind # "none" /\ navCall[c] \in NavRecords
        BY <1>1, CallIsFine DEF Fine
      <4> QED BY <4>1 DEF NavRecords
    <3> QED BY <1>2, <3>1 DEF Navigations!Kinds
  <2>2. PICK w \in Wants : navCall' = Navigations!Answered(c, w, loaders')
    BY <1>2, <2>1 DEF Wants
  <2>3. InOrder' /\ loaders' \in Nat
    BY <1>1, <1>2 DEF NavInvariant, InOrder, Navigations!Starts, Url
  <2> QED BY ZenonT(60), <1>1, <1>2, <2>2, <2>3, AnsweredIsFine DEF NavInvariant, AllFine
<1>3. CASE /\ Navigations!WithinDocument(Navigations!Answered(c, IF navCall[c].kind = "goto" THEN "same url" ELSE "url", 0))
           /\ UNCHANGED <<starting, loaders>>
  <2>1. PICK w \in Wants : Navigations!WithinDocument(Navigations!Answered(c, w, 0))
    BY <1>3 DEF Wants
  <2> QED BY <1>1, <1>3, <2>1, AnsweredIsFine, WithinKeeps DEF NavInvariant
<1>4. ASSUME NEW w \in Wants, navCall' = Navigations!Answered(c, w, 0), UNCHANGED <<navDocument, starting, loaders>>
      PROVE  NavInvariant'
  <2>1. InOrder'
    BY <1>1, <1>4 DEF NavInvariant, InOrder
  <2> QED BY <1>1, <1>4, <2>1, AnsweredIsFine DEF NavInvariant, AllFine
<1> QED BY <1>2, <1>3, <1>4 DEF Navigations!Dispatch, Wants

(* The call has its document: one of the past, its own if it named it.      *)
CommittedAs(r, x, y, g, p) == [r EXCEPT !.cross = x, !.same = y, !.got = g, !.pc = p]

(* It is fine with that document and with what is left in its queues.      *)
LEMMA CommittedIsFine ==
  ASSUME NavInvariant, NEW c \in Navs, navCall[c].pc = "commit",
         NEW x \in Seq(Url), NEW y \in Seq(Url), NEW g \in Url,
         \A i \in 1 .. Len(x) : x[i].loader <= navDocument.loader,
         NEW p \in Places, p = IF navCall[c].kind = "create" THEN "apply" ELSE "load",
         g.loader <= navDocument.loader,
         navCall[c].want = "loader" => g.loader = navCall[c].own,
         navCall' = [navCall EXCEPT ![c] = CommittedAs(navCall[c], x, y, g, p)],
         UNCHANGED <<navDocument, loaded, starting, loaders, navStore, unapplied, navApplied>>
  PROVE  NavInvariant'
<1> DEFINE r == navCall[c]
           q == [r EXCEPT !.cross = x, !.same = y]
           s == [q EXCEPT !.got = g, !.pc = p]
<1>1. r \in NavRecords /\ Fine(r, navDocument.loader, loaded, navApplied) /\ r.pc = "commit"
  BY DEF NavInvariant, AllFine
<1>2. CommittedAs(r, x, y, g, p) = s
  BY Zenon DEF CommittedAs
<1>3. /\ q \in NavRecords /\ q.cross = x /\ q.pc = r.pc /\ q.initial = r.initial /\ q.kind = r.kind
      /\ q.want = r.want /\ q.own = r.own /\ q.sent = r.sent /\ q.told = r.told
  BY <1>1 DEF NavRecords
<1> HIDE DEF q
<1>4. /\ s \in NavRecords /\ s.cross = x /\ s.pc = p /\ s.initial = q.initial /\ s.kind = q.kind
      /\ s.got = g /\ s.want = q.want /\ s.own = q.own /\ s.sent = q.sent /\ s.told = q.told
  BY <1>3 DEF NavRecords
<1> HIDE DEF s
<1>5. Fine(s, navDocument.loader, loaded, navApplied)
  <2>1. r.told = "none" /\ r.initial <= navDocument.loader /\ r.kind # "none" /\ p \in {"apply", "load"}
    BY <1>1 DEF Fine
  <2> QED BY <1>3, <1>4, <2>1 DEF Fine, Early
<1> QED BY <1>2, <1>5, OneCall

(* A call reads a commit: its own, or another that it passes over.         *)
LEMMA ReadCrossKeeps ==
  ASSUME NavInvariant, NEW c \in Navs, Navigations!ReadCross(c)
  PROVE  NavInvariant'
<1> DEFINE r == navCall[c]
           e == Head(r.cross)
           read == [navCall EXCEPT ![c].cross = Tail(@)]
<1>1. /\ UNCHANGED <<navDocument, loaded, starting, loaders, navStore, unapplied, navApplied>>
      /\ r.pc = "commit" /\ r.cross # <<>>
      /\ IF Navigations!AcceptsCross(c, e) THEN navCall' = Navigations!Committed(c, e.loader, e.url, read)
         ELSE IF r.want \in {"loader", "same url"} THEN Navigations!Fail(c, "Completed")
         ELSE navCall' = read
  BY DEF Navigations!ReadCross, Navigations!In, Navigations!chromeVars,
         Navigations!storeVars
<1>2. /\ navCall \in [Navs -> NavRecords] /\ r \in NavRecords /\ navDocument.loader \in Nat
      /\ Fine(r, navDocument.loader, loaded, navApplied) /\ r.cross \in Seq(Url) /\ r.same \in Seq(Url)
  BY DEF NavInvariant, AllFine, InOrder, NavRecords, Url
<1>3. /\ Tail(r.cross) \in Seq(Url) /\ e \in Url
      /\ e.loader <= navDocument.loader
      /\ \A i \in 1 .. Len(Tail(r.cross)) : Tail(r.cross)[i].loader <= navDocument.loader
  <2>1. \A i \in 1 .. Len(r.cross) : r.cross[i].loader <= navDocument.loader
    BY <1>2 DEF Fine
  <2>2. /\ Tail(r.cross) \in Seq(Url) /\ e \in Url /\ 1 \in 1 .. Len(r.cross) /\ e = r.cross[1]
        /\ \A i \in 1 .. Len(Tail(r.cross)) :
             i + 1 \in 1 .. Len(r.cross) /\ Tail(r.cross)[i] = r.cross[i + 1]
    BY <1>1, <1>2, Unqueued
  <2> QED BY <2>1, <2>2
<1>4. CASE Navigations!AcceptsCross(c, e) /\ navCall' = Navigations!Committed(c, e.loader, e.url, read)
  <2> DEFINE g == [loader |-> e.loader, url |-> e.url]
             p == IF r.kind = "create" THEN "apply" ELSE "load"
  <2>1. g \in Url /\ g.loader = e.loader
    BY <1>3 DEF Url
  <2>2. p \in Places
    BY DEF Places
  <2>3. r.want = "loader" => g.loader = r.own
    BY <1>4, <2>1 DEF Navigations!AcceptsCross
  <2>4. navCall' = [navCall EXCEPT ![c] = CommittedAs(r, Tail(r.cross), r.same, g, p)]
    <3>1. navCall' = [read EXCEPT ![c].got = g, ![c].pc = p]
      BY <1>4 DEF Navigations!Committed
    <3>2. read = [navCall EXCEPT ![c] = [r EXCEPT !.cross = Tail(r.cross)]]
      BY <1>2
    <3>3. CommittedAs(r, Tail(r.cross), r.same, g, p)
            = [[r EXCEPT !.cross = Tail(r.cross)] EXCEPT !.got = g, !.pc = p]
      BY <1>2 DEF CommittedAs, NavRecords
    <3> HIDE DEF g, p, read, e
    <3>4. \A q : [[navCall EXCEPT ![c] = q] EXCEPT ![c].got = g, ![c].pc = p]
                   = [navCall EXCEPT ![c] = [q EXCEPT !.got = g, !.pc = p]]
      BY <1>2
    <3> QED BY <3>1, <3>2, <3>3, <3>4
  <2> HIDE DEF g
  <2> QED BY <1>1, <1>2, <1>3, <2>1, <2>2, <2>3, <2>4, CommittedIsFine
<1>5. CASE Navigations!Fail(c, "Completed")
  BY <1>1, <1>5, FailKeeps
<1>6. CASE navCall' = read
  <2> DEFINE s == [r EXCEPT !.cross = Tail(r.cross)]
  <2>1. navCall' = [navCall EXCEPT ![c] = s]
    BY <1>2, <1>6
  <2>2. /\ s \in NavRecords /\ s.pc = r.pc /\ s.initial = r.initial /\ s.cross = Tail(r.cross)
        /\ s.kind = r.kind /\ s.want = r.want /\ s.own = r.own /\ s.got = r.got
        /\ s.sent = r.sent /\ s.told = r.told
    BY <1>2, <1>3 DEF NavRecords
  <2> HIDE DEF s
  <2>3. Fine(s, navDocument.loader, loaded, navApplied)
    BY <1>2, <1>3, <2>2 DEF Fine
  <2> QED BY <1>1, <2>1, <2>3, OneCall
<1> QED BY <1>1, <1>4, <1>5, <1>6

(* A call reads a change within the document.                              *)
LEMMA ReadSameKeeps ==
  ASSUME NavInvariant, NEW c \in Navs, Navigations!ReadSame(c)
  PROVE  NavInvariant'
<1> DEFINE r == navCall[c]
           e == Head(r.same)
           read == [navCall EXCEPT ![c].same = Tail(@)]
<1>1. /\ UNCHANGED <<navDocument, loaded, starting, loaders, navStore, unapplied, navApplied>>
      /\ r.pc = "commit" /\ r.same # <<>>
      /\ \/ Navigations!AcceptsSame(c) /\ navCall' = Navigations!Committed(c, r.initial, e.url, read)
         \/ navCall' = read
  BY DEF Navigations!ReadSame, Navigations!In, Navigations!chromeVars,
         Navigations!storeVars
<1>2. /\ navCall \in [Navs -> NavRecords] /\ r \in NavRecords /\ navDocument.loader \in Nat
      /\ Fine(r, navDocument.loader, loaded, navApplied) /\ r.cross \in Seq(Url) /\ r.same \in Seq(Url)
      /\ r.initial \in Nat
  BY DEF NavInvariant, AllFine, InOrder, NavRecords, Url
<1>3. Tail(r.same) \in Seq(Url) /\ e \in Url
  BY <1>1, <1>2, Unqueued
<1>4. CASE Navigations!AcceptsSame(c) /\ navCall' = Navigations!Committed(c, r.initial, e.url, read)
  <2> DEFINE g == [loader |-> r.initial, url |-> e.url]
             p == IF r.kind = "create" THEN "apply" ELSE "load"
  <2>1. g \in Url /\ g.loader = r.initial
    BY <1>2, <1>3 DEF Url
  <2>2. p \in Places
    BY DEF Places
  <2>3. r.want # "loader" /\ g.loader <= navDocument.loader
        /\ \A i \in 1 .. Len(r.cross) : r.cross[i].loader <= navDocument.loader
    BY ZenonT(60), <1>2, <1>4, <2>1 DEF Navigations!AcceptsSame, Fine
  <2>4. navCall' = [navCall EXCEPT ![c] = CommittedAs(r, r.cross, Tail(r.same), g, p)]
    <3>1. navCall' = [read EXCEPT ![c].got = g, ![c].pc = p]
      BY <1>4 DEF Navigations!Committed
    <3>2. read = [navCall EXCEPT ![c] = [r EXCEPT !.same = Tail(r.same)]]
      BY <1>2
    <3>3. CommittedAs(r, r.cross, Tail(r.same), g, p)
            = [[r EXCEPT !.same = Tail(r.same)] EXCEPT !.got = g, !.pc = p]
      BY <1>2 DEF CommittedAs, NavRecords
    <3> HIDE DEF g, p, read, e
    <3>4. \A q : [[navCall EXCEPT ![c] = q] EXCEPT ![c].got = g, ![c].pc = p]
                   = [navCall EXCEPT ![c] = [q EXCEPT !.got = g, !.pc = p]]
      BY <1>2
    <3> QED BY <3>1, <3>2, <3>3, <3>4
  <2> HIDE DEF g
  <2> QED BY <1>1, <1>2, <1>3, <2>1, <2>2, <2>3, <2>4, CommittedIsFine
<1>5. CASE navCall' = read
  <2> DEFINE s == [r EXCEPT !.same = Tail(r.same)]
  <2>1. navCall' = [navCall EXCEPT ![c] = s]
    BY <1>2, <1>5
  <2>2. /\ s \in NavRecords /\ s.pc = r.pc /\ s.initial = r.initial /\ s.cross = r.cross
        /\ s.kind = r.kind /\ s.want = r.want /\ s.own = r.own /\ s.got = r.got
        /\ s.sent = r.sent /\ s.told = r.told
    BY <1>2, <1>3 DEF NavRecords
  <2> HIDE DEF s
  <2>3. Fine(s, navDocument.loader, loaded, navApplied)
    BY <1>2, <2>2 DEF Fine
  <2> QED BY <1>1, <2>1, <2>3, OneCall
<1> QED BY <1>1, <1>4, <1>5

(* A call that confirms has got the document that is there; it saw one that *)
(* is loaded, and no later one has been committed.                          *)
LEMMA ConfirmKeeps ==
  ASSUME NavInvariant, NEW c \in Navs, Navigations!Confirm(c)
  PROVE  NavInvariant'
<1> DEFINE r == navCall[c]
           s == EndOf(r, "ok", "Completed")
<1>1. /\ UNCHANGED <<navDocument, loaded, starting, loaders, navStore, unapplied, navApplied>>
      /\ r.pc = "confirm"
      /\ IF r.got = navDocument THEN Navigations!Ends(c, "ok", "Completed") ELSE Navigations!Fail(c, "Completed")
  BY DEF Navigations!Confirm, Navigations!In, Navigations!chromeVars,
         Navigations!storeVars
<1>2. r \in NavRecords /\ Fine(r, navDocument.loader, loaded, navApplied)
  BY DEF NavInvariant, AllFine
<1>3. CASE r.got = navDocument /\ Navigations!Ends(c, "ok", "Completed")
  <2>1. navCall' = [navCall EXCEPT ![c] = s]
    BY <1>3, EndsAs
  <2>2. /\ s \in NavRecords /\ s.pc = "ok" /\ s.told = "Completed" /\ s.cross = <<>>
        /\ s.kind = r.kind /\ s.initial = r.initial /\ s.want = r.want
        /\ s.own = r.own /\ s.got = r.got /\ s.sent = r.sent
    BY <1>2, Ended
  <2> HIDE DEF s
  <2>3. Fine(s, navDocument.loader, loaded, navApplied)
    BY <1>1, <1>2, <1>3, <2>2 DEF Fine, Early
  <2> QED BY <1>1, <2>1, <2>3, OneCall
<1>4. CASE Navigations!Fail(c, "Completed")
  BY <1>1, <1>4, FailKeeps
<1> QED BY <1>1, <1>3, <1>4

-----------------------------------------------------------------------------
(* At first one document is there, committed and applied.                  *)
LEMMA NavInit == Navigations!Init => NavInvariant
<1> SUFFICES ASSUME Navigations!Init PROVE NavInvariant
  OBVIOUS
<1>1. /\ navDocument = [loader |-> 1, url |-> 1] /\ loaded = {} /\ starting = 0 /\ loaders = 1
      /\ navStore = 1 /\ unapplied = <<>> /\ navApplied = {1}
      /\ navCall = [c \in Navs |-> Navigations!Unused]
  BY DEF Navigations!Init
<1>2. InOrder
  BY <1>1 DEF InOrder, Url
<1>3. Navigations!Unused \in NavRecords /\ Fine(Navigations!Unused, 1, {}, {1})
  <2> HIDE DEF Url
  <2>1. <<>> \in Seq(Url) /\ [loader |-> 0, url |-> 0] \in Url
    BY DEF Url
  <2>2. Navigations!Unused \in NavRecords
    BY <2>1 DEF Navigations!Unused, NavRecords, Places, Early
  <2>3. /\ Navigations!Unused.initial = 0 /\ Navigations!Unused.got = [loader |-> 0, url |-> 0]
        /\ Navigations!Unused.cross = <<>> /\ Navigations!Unused.pc = "idle" /\ Navigations!Unused.sent = FALSE
        /\ Navigations!Unused.told = "none" /\ Navigations!Unused.kind = "none" /\ Navigations!Unused.want = "none"
    BY DEF Navigations!Unused
  <2> QED BY <2>2, <2>3 DEF Fine
<1> QED BY <1>1, <1>2, <1>3 DEF NavInvariant, AllFine

(* No step of Chrome, of the store or of a call breaks the invariant.      *)
LEMMA NavNext == NavInvariant /\ [Navigations!Next]_Navigations!navigationVars => NavInvariant'
<1> SUFFICES ASSUME NavInvariant, [Navigations!Next]_Navigations!navigationVars PROVE NavInvariant'
  OBVIOUS
<1>1. CASE UNCHANGED Navigations!navigationVars
  <2>1. UNCHANGED <<navDocument, loaded, starting, loaders, navStore, unapplied, navApplied, navCall>>
    BY <1>1 DEF Navigations!navigationVars, Navigations!chromeVars, Navigations!storeVars
  <2> QED BY <2>1 DEF NavInvariant, InOrder, AllFine
<1>2. CASE Navigations!Commit \/ Navigations!Load \/ Navigations!PageNavigates \/ Navigations!Apply
  BY <1>2, CommitKeeps, LoadKeeps, PageNavigatesKeeps, ApplyKeeps
<1>3. CASE \E c \in Navs : Navigations!Begin(c) \/ Navigations!CallRuns(c)
  BY <1>3, BeginKeeps, ResolveKeeps, FindEntryKeeps, IdentifyKeeps, SubscribeKeeps,
     DispatchKeeps,
     AnswerKeeps, ReadCrossKeeps, ReadSameKeeps, SeeLoadedKeeps, SeeAppliedKeeps, ConfirmKeeps,
     BreakKeeps, ExpireKeeps DEF Navigations!CallRuns
<1> QED BY <1>1, <1>2, <1>3 DEF Navigations!Next

(* In every reachable state of any number of navigations the documents     *)
(* are in order, each call has its type, and it is confirmed, or told,     *)
(* what is true.                                                           *)
THEOREM NavigationTypeCorrect == Navigations!Spec => []NavInvariant
<1>1. Navigations!Init => NavInvariant
  BY NavInit
<1>2. NavInvariant /\ [Navigations!Next]_Navigations!navigationVars => NavInvariant'
  BY NavNext
<1> QED BY <1>1, <1>2, PTL DEF Navigations!Spec

-----------------------------------------------------------------------------
(***************************************************************************)
(* Downloads                                                               *)
(***************************************************************************)
Statuses == {"absent", "open", "completed", "canceled", "closed"}
DownloadSteps ==
  {"new", "get", "create", "act", "receive", "have", "wait", "copy", "done", "failed"}

DownloadTypes ==
  /\ slot \in {"empty", "initializing", "ready", "failed", "closing", "closed"}
  /\ reducer \in {"none", "select", "publish", "ended"}
  /\ announced \in Guids \/ reducer # "publish"
  /\ status \in [Guids -> Statuses]
  /\ begins \in Seq(Guids) /\ ends \in Seq([g : Guids, how : {"completed", "canceled"}])
  /\ updates \in [Callers -> Seq(Guids)]
  /\ caller \in [Callers -> DownloadSteps]
  /\ got \in [Callers -> Guids \cup {None}] /\ downOutcome \in [Callers -> Download!Final \cup {"none"}]
  /\ closer \in {"open", "begin", "clear", "drain", "again", "clear again", "finish", "closed"}

(* What a caller has been told is the status of its download, for good.     *)
Learned(c) ==
  /\ caller[c] \in {"have", "wait", "copy", "done"} => got[c] \in Guids
  /\ downOutcome[c] # "none" => caller[c] \in {"copy", "done"} /\ downOutcome[c] = status[got[c]]
  /\ caller[c] = "copy" => downKind = "isolated"

(* A caller that has the manager can rely on it until the operations of the *)
(* owner are drained; nobody makes another one after that.                  *)
Relied(c) ==
  /\ caller[c] \in {"act", "receive", "have", "wait", "copy"} => reducer # "none"
  /\ closer \in {"again", "clear again", "finish", "closed"} => c \notin Download!Admitted

ManagerHolds ==
  /\ slot = "ready" => reducer # "none"
  /\ downKind = "isolated" /\ closer \in {"again", "clear again", "finish", "closed"} => slot # "initializing"
  /\ downKind = "isolated" /\ reducer # "none" /\ closer # "closed" => directory
  /\ closer = "closed" => ~directory /\ reducer \in {"none", "ended"}

DownloadInvariant ==
  DownloadTypes /\ ManagerHolds /\ \A c \in Callers : Learned(c) /\ Relied(c)

(* A status that is final is left alone.                                    *)
LEMMA FinalStays ==
  ASSUME NEW st \in [Guids -> Statuses], NEW h \in Guids, st[h] \in Download!Final
  PROVE  /\ Download!Close(st)[h] = st[h]
         /\ \A g \in Guids : Download!Known(st, g)[h] = st[h]
         /\ \A g \in Guids, how \in Statuses : Download!Finish(st, g, how)[h] = st[h]
BY DEF Statuses, Download!Final, Download!Close, Download!Known, Download!Finish

(* A status stays one when the reducer or the close changes it.            *)
LEMMA StatusesStay ==
  ASSUME NEW st \in [Guids -> Statuses]
  PROVE  /\ Download!Close(st) \in [Guids -> Statuses]
         /\ \A g \in Guids : Download!Known(st, g) \in [Guids -> Statuses]
         /\ \A g \in Guids, how \in Statuses : Download!Finish(st, g, how) \in [Guids -> Statuses]
BY DEF Statuses, Download!Close, Download!Known, Download!Finish

(* Sequences stay sequences.                                               *)
LEMMA InSeq ==
  ASSUME NEW S, NEW q \in Seq(S)
  PROVE  /\ \A e \in S : Append(q, e) \in Seq(S)
         /\ q # <<>> => Head(q) \in S /\ Tail(q) \in Seq(S)
OBVIOUS

(* The manager of an isolated session is ready, or could not be made.      *)
LEMMA DlInitialized ==
  ASSUME DownloadInvariant, Download!Initialized
  PROVE  DownloadInvariant'
<1>1. DownloadTypes'
  BY DEF DownloadInvariant, DownloadTypes, ManagerHolds, Download!Initialized,
         Download!Created, Download!callerVars, Download!chromeDownloads, Download!Final,
         Statuses, DownloadSteps
<1>2. ManagerHolds'
  BY DEF DownloadInvariant, DownloadTypes, ManagerHolds, Relied, Download!Admitted,
         Download!Initialized, Download!Created, Download!callerVars,
         Download!chromeDownloads, Download!Final, Statuses, DownloadSteps
<1>3. ASSUME NEW d \in Callers PROVE Learned(d)'
  BY DEF DownloadInvariant, DownloadTypes, Learned, Download!Initialized,
         Download!Created, Download!callerVars, Download!chromeDownloads, Download!Final,
         Statuses, DownloadSteps
<1>4. ASSUME NEW d \in Callers PROVE Relied(d)'
  BY DEF DownloadInvariant, DownloadTypes, ManagerHolds, Relied, Download!Admitted,
         Download!Initialized, Download!Created, Download!callerVars,
         Download!chromeDownloads, Download!Final, Statuses, DownloadSteps
<1> QED BY <1>1, <1>2, <1>3, <1>4 DEF DownloadInvariant

(* The reducer takes a begin: a download is known.                         *)
LEMMA DlReduceBegin ==
  ASSUME DownloadInvariant, Download!ReduceBegin
  PROVE  DownloadInvariant'
<1>1. DownloadTypes'
  <2>1. Head(begins) \in Guids /\ Tail(begins) \in Seq(Guids) /\ status \in [Guids -> Statuses]
    BY InSeq DEF DownloadInvariant, DownloadTypes, Download!ReduceBegin
  <2>2. Download!Known(status, Head(begins)) \in [Guids -> Statuses]
    BY <2>1, StatusesStay
  <2> QED BY <2>1, <2>2
             DEF DownloadInvariant, DownloadTypes, Download!ReduceBegin,
                 Download!callerVars
<1>2. ManagerHolds'
  BY DEF DownloadInvariant, DownloadTypes, ManagerHolds, Relied, Download!Admitted,
         Download!ReduceBegin, Download!callerVars, Download!Final, Download!Known,
         Statuses, DownloadSteps
<1>3. ASSUME NEW d \in Callers PROVE Learned(d)'
  BY DEF DownloadInvariant, DownloadTypes, Learned, Download!ReduceBegin,
         Download!callerVars, Download!Final, Download!Known, Statuses, DownloadSteps
<1>4. ASSUME NEW d \in Callers PROVE Relied(d)'
  BY DEF DownloadInvariant, DownloadTypes, ManagerHolds, Relied, Download!Admitted,
         Download!ReduceBegin, Download!callerVars, Download!Final, Download!Known,
         Statuses, DownloadSteps
<1> QED BY <1>1, <1>2, <1>3, <1>4 DEF DownloadInvariant

(* It tells those who have subscribed.                                     *)
LEMMA DlPublish ==
  ASSUME DownloadInvariant, Download!Publish
  PROVE  DownloadInvariant'
<1>1. DownloadTypes'
  <2>1. updates' \in [Callers -> Seq(Guids)]
    <3>1. announced \in Guids /\ updates \in [Callers -> Seq(Guids)]
      BY DEF DownloadInvariant, DownloadTypes, Download!Publish
    <3>2. \A d \in Callers : Append(updates[d], announced) \in Seq(Guids)
      BY <3>1, InSeq
    <3> QED BY <3>1, <3>2 DEF Download!Publish
  <2> QED BY <2>1
             DEF DownloadInvariant, DownloadTypes, Download!Publish,
                 Download!chromeDownloads
<1>2. ManagerHolds'
  BY DEF DownloadInvariant, DownloadTypes, ManagerHolds, Relied, Download!Admitted,
         Download!Publish, Download!chromeDownloads, Download!Final, Statuses,
         DownloadSteps
<1>3. ASSUME NEW d \in Callers PROVE Learned(d)'
  BY DEF DownloadInvariant, DownloadTypes, Learned, Download!Publish,
         Download!chromeDownloads, Download!Final, Statuses, DownloadSteps
<1>4. ASSUME NEW d \in Callers PROVE Relied(d)'
  BY DEF DownloadInvariant, DownloadTypes, ManagerHolds, Relied, Download!Admitted,
         Download!Publish, Download!chromeDownloads, Download!Final, Statuses,
         DownloadSteps
<1> QED BY <1>1, <1>2, <1>3, <1>4 DEF DownloadInvariant

(* It takes an end: what was final stays.                                  *)
LEMMA DlReduceProgress ==
  ASSUME DownloadInvariant, Download!ReduceProgress
  PROVE  DownloadInvariant'
<1>1. DownloadTypes'
  <2>1. /\ Head(ends) \in [g : Guids, how : {"completed", "canceled"}]
        /\ Tail(ends) \in Seq([g : Guids, how : {"completed", "canceled"}])
        /\ status \in [Guids -> Statuses]
    BY InSeq DEF DownloadInvariant, DownloadTypes, Download!ReduceProgress
  <2>2. Head(ends).g \in Guids /\ Head(ends).how \in Statuses
    BY <2>1 DEF Statuses
  <2>3. Download!Finish(status, Head(ends).g, Head(ends).how) \in [Guids -> Statuses]
    BY <2>1, <2>2, StatusesStay
  <2> QED BY <2>1, <2>3
             DEF DownloadInvariant, DownloadTypes, Download!ReduceProgress,
                 Download!callerVars
<1>2. ManagerHolds'
  BY DEF DownloadInvariant, DownloadTypes, ManagerHolds, Relied, Download!Admitted,
         Download!ReduceProgress, Download!callerVars, Download!Final, Download!Finish,
         Statuses, DownloadSteps
<1>3. ASSUME NEW d \in Callers PROVE Learned(d)'
  BY DEF DownloadInvariant, DownloadTypes, Learned, Download!ReduceProgress,
         Download!callerVars, Download!Final, Download!Finish, Statuses, DownloadSteps
<1>4. ASSUME NEW d \in Callers PROVE Relied(d)'
  BY DEF DownloadInvariant, DownloadTypes, ManagerHolds, Relied, Download!Admitted,
         Download!ReduceProgress, Download!callerVars, Download!Final, Download!Finish,
         Statuses, DownloadSteps
<1> QED BY <1>1, <1>2, <1>3, <1>4 DEF DownloadInvariant

(* It ends with its streams; downloads without an end are closed.          *)
LEMMA DlReducerEnds ==
  ASSUME DownloadInvariant, Download!ReducerEnds
  PROVE  DownloadInvariant'
<1>1. DownloadTypes'
  BY DEF DownloadInvariant, DownloadTypes, ManagerHolds, Download!ReducerEnds,
         Download!callerVars, Download!chromeDownloads, Download!Final, Download!Close,
         Statuses, DownloadSteps
<1>2. ManagerHolds'
  BY DEF DownloadInvariant, DownloadTypes, ManagerHolds, Relied, Download!Admitted,
         Download!ReducerEnds, Download!callerVars, Download!chromeDownloads,
         Download!Final, Download!Close, Statuses, DownloadSteps
<1>3. ASSUME NEW d \in Callers PROVE Learned(d)'
  <2>1. /\ downOutcome[d] # "none" => caller[d] \in {"copy", "done"} /\ got[d] \in Guids
        /\ downOutcome[d] # "none" => downOutcome[d] = status[got[d]] /\ status[got[d]] \in Download!Final
        /\ status \in [Guids -> Statuses]
    BY DEF DownloadInvariant, DownloadTypes, Learned
  <2>2. status' = status \/ status' = Download!Close(status)
    BY DEF Download!ReducerEnds
  <2>3. downOutcome[d] # "none" => status'[got[d]] = status[got[d]]
    BY <2>1, <2>2, FinalStays DEF Download!ReducerEnds
  <2> QED BY <2>1, <2>3
             DEF DownloadInvariant, Learned, Download!ReducerEnds, Download!callerVars
<1>4. ASSUME NEW d \in Callers PROVE Relied(d)'
  BY DEF DownloadInvariant, DownloadTypes, ManagerHolds, Relied, Download!Admitted,
         Download!ReducerEnds, Download!callerVars, Download!chromeDownloads,
         Download!Final, Download!Close, Statuses, DownloadSteps
<1> QED BY <1>1, <1>2, <1>3, <1>4 DEF DownloadInvariant

(* A close cancels the waits; downloads without an end are closed.         *)
LEMMA DlBeginClose ==
  ASSUME DownloadInvariant, Download!BeginClose
  PROVE  DownloadInvariant'
<1>1. DownloadTypes'
  BY DEF DownloadInvariant, DownloadTypes, ManagerHolds, Download!BeginClose,
         Download!callerVars, Download!chromeDownloads, Download!Final, Download!Close,
         Statuses, DownloadSteps
<1>2. ManagerHolds'
  BY DEF DownloadInvariant, DownloadTypes, ManagerHolds, Relied, Download!Admitted,
         Download!BeginClose, Download!callerVars, Download!chromeDownloads,
         Download!Final, Download!Close, Statuses, DownloadSteps
<1>3. ASSUME NEW d \in Callers PROVE Learned(d)'
  <2>1. /\ downOutcome[d] # "none" => caller[d] \in {"copy", "done"} /\ got[d] \in Guids
        /\ downOutcome[d] # "none" => downOutcome[d] = status[got[d]] /\ status[got[d]] \in Download!Final
        /\ status \in [Guids -> Statuses]
    BY DEF DownloadInvariant, DownloadTypes, Learned
  <2>2. status' = status \/ status' = Download!Close(status)
    BY DEF Download!BeginClose
  <2>3. downOutcome[d] # "none" => status'[got[d]] = status[got[d]]
    BY <2>1, <2>2, FinalStays DEF Download!BeginClose
  <2> QED BY <2>1, <2>3
             DEF DownloadInvariant, Learned, Download!BeginClose, Download!callerVars
<1>4. ASSUME NEW d \in Callers PROVE Relied(d)'
  BY DEF DownloadInvariant, DownloadTypes, ManagerHolds, Relied, Download!Admitted,
         Download!BeginClose, Download!callerVars, Download!chromeDownloads,
         Download!Final, Download!Close, Statuses, DownloadSteps
<1> QED BY <1>1, <1>2, <1>3, <1>4 DEF DownloadInvariant

(* The senders are dropped.                                                *)
LEMMA DlClearSenders ==
  ASSUME DownloadInvariant, Download!ClearSenders
  PROVE  DownloadInvariant'
<1>1. DownloadTypes'
  BY DEF DownloadInvariant, DownloadTypes, ManagerHolds, Download!ClearSenders,
         Download!callerVars, Download!chromeDownloads, Download!Final, Statuses,
         DownloadSteps
<1>2. ManagerHolds'
  BY DEF DownloadInvariant, DownloadTypes, ManagerHolds, Relied, Download!Admitted,
         Download!ClearSenders, Download!callerVars, Download!chromeDownloads,
         Download!Final, Statuses, DownloadSteps
<1>3. ASSUME NEW d \in Callers PROVE Learned(d)'
  BY DEF DownloadInvariant, DownloadTypes, Learned, Download!ClearSenders,
         Download!callerVars, Download!chromeDownloads, Download!Final, Statuses,
         DownloadSteps
<1>4. ASSUME NEW d \in Callers PROVE Relied(d)'
  BY DEF DownloadInvariant, DownloadTypes, ManagerHolds, Relied, Download!Admitted,
         Download!ClearSenders, Download!callerVars, Download!chromeDownloads,
         Download!Final, Statuses, DownloadSteps
<1> QED BY <1>1, <1>2, <1>3, <1>4 DEF DownloadInvariant

(* The operations have drained: nobody is left that relies on the          *)
(* manager.                                                                *)
LEMMA DlDrain ==
  ASSUME DownloadInvariant, Download!Drain
  PROVE  DownloadInvariant'
<1>1. DownloadTypes'
  BY DEF DownloadInvariant, DownloadTypes, ManagerHolds, Download!Drain,
         Download!managerVars, Download!callerVars, Download!chromeDownloads,
         Download!Final, Download!Drained, Statuses, DownloadSteps
<1>2. ManagerHolds'
  BY DEF DownloadInvariant, DownloadTypes, ManagerHolds, Relied, Download!Admitted,
         Download!Drain, Download!managerVars, Download!callerVars,
         Download!chromeDownloads, Download!Final, Download!Drained, Statuses,
         DownloadSteps
<1>3. ASSUME NEW d \in Callers PROVE Learned(d)'
  BY DEF DownloadInvariant, DownloadTypes, Learned, Download!Drain, Download!managerVars,
         Download!callerVars, Download!chromeDownloads, Download!Final, Download!Drained,
         Statuses, DownloadSteps
<1>4. ASSUME NEW d \in Callers PROVE Relied(d)'
  BY DEF DownloadInvariant, DownloadTypes, ManagerHolds, Relied, Download!Admitted,
         Download!Drain, Download!managerVars, Download!callerVars,
         Download!chromeDownloads, Download!Final, Download!Drained, Statuses,
         DownloadSteps
<1> QED BY <1>1, <1>2, <1>3, <1>4 DEF DownloadInvariant

(* The directory is removed when the manager is.                           *)
LEMMA DlFinishClose ==
  ASSUME DownloadInvariant, Download!FinishClose
  PROVE  DownloadInvariant'
<1>1. DownloadTypes'
  BY DEF DownloadInvariant, DownloadTypes, ManagerHolds, Download!FinishClose,
         Download!callerVars, Download!chromeDownloads, Download!Final, Statuses,
         DownloadSteps
<1>2. ManagerHolds'
  BY DEF DownloadInvariant, DownloadTypes, ManagerHolds, Relied, Download!Admitted,
         Download!FinishClose, Download!callerVars, Download!chromeDownloads,
         Download!Final, Statuses, DownloadSteps
<1>3. ASSUME NEW d \in Callers PROVE Learned(d)'
  BY DEF DownloadInvariant, DownloadTypes, Learned, Download!FinishClose,
         Download!callerVars, Download!chromeDownloads, Download!Final, Statuses,
         DownloadSteps
<1>4. ASSUME NEW d \in Callers PROVE Relied(d)'
  BY DEF DownloadInvariant, DownloadTypes, ManagerHolds, Relied, Download!Admitted,
         Download!FinishClose, Download!callerVars, Download!chromeDownloads,
         Download!Final, Statuses, DownloadSteps
<1> QED BY <1>1, <1>2, <1>3, <1>4 DEF DownloadInvariant

(* The owner begins to close.                                              *)
LEMMA DlStartClose ==
  ASSUME DownloadInvariant, Download!StartClose
  PROVE  DownloadInvariant'
<1>1. DownloadTypes'
  BY DEF DownloadInvariant, DownloadTypes, ManagerHolds, Download!StartClose,
         Download!managerVars, Download!callerVars, Download!chromeDownloads,
         Download!Final, Statuses, DownloadSteps
<1>2. ManagerHolds'
  BY DEF DownloadInvariant, DownloadTypes, ManagerHolds, Relied, Download!Admitted,
         Download!StartClose, Download!managerVars, Download!callerVars,
         Download!chromeDownloads, Download!Final, Statuses, DownloadSteps
<1>3. ASSUME NEW d \in Callers PROVE Learned(d)'
  BY DEF DownloadInvariant, DownloadTypes, Learned, Download!StartClose,
         Download!managerVars, Download!callerVars, Download!chromeDownloads,
         Download!Final, Statuses, DownloadSteps
<1>4. ASSUME NEW d \in Callers PROVE Relied(d)'
  BY DEF DownloadInvariant, DownloadTypes, ManagerHolds, Relied, Download!Admitted,
         Download!StartClose, Download!managerVars, Download!callerVars,
         Download!chromeDownloads, Download!Final, Statuses, DownloadSteps
<1> QED BY <1>1, <1>2, <1>3, <1>4 DEF DownloadInvariant

(* Chrome ends a download, and says so later.                              *)
LEMMA DlDownloadEnds ==
  ASSUME DownloadInvariant, Download!DownloadEnds
  PROVE  DownloadInvariant'
<1>0. PICK g \in Guids, how \in {"completed", "canceled"} :
        /\ ends' = Append(ends, [g |-> g, how |-> how])
        /\ UNCHANGED <<downKind, Download!managerVars, Download!callerVars, closer, begins, source>>
  BY DEF Download!DownloadEnds
<1>1. DownloadTypes'
  <2>1. /\ [g |-> g, how |-> how] \in [g : Guids, how : {"completed", "canceled"}]
        /\ ends \in Seq([g : Guids, how : {"completed", "canceled"}])
    BY DEF DownloadInvariant, DownloadTypes
  <2>2. ends' \in Seq([g : Guids, how : {"completed", "canceled"}])
    BY <1>0, <2>1, InSeq
  <2> QED BY <1>0, <2>2
             DEF DownloadInvariant, DownloadTypes, Download!managerVars,
                 Download!callerVars
<1>2. ManagerHolds'
  BY <1>0 DEF DownloadInvariant, ManagerHolds, Download!managerVars
<1>3. ASSUME NEW d \in Callers PROVE Learned(d)'
  BY <1>0 DEF DownloadInvariant, Learned, Download!managerVars, Download!callerVars
<1>4. ASSUME NEW d \in Callers PROVE Relied(d)'
  BY <1>0
     DEF DownloadInvariant, Relied, Download!Admitted, Download!managerVars,
         Download!callerVars
<1> QED BY <1>1, <1>2, <1>3, <1>4 DEF DownloadInvariant

(* The event source is lost.                                               *)
LEMMA DlSourceLost ==
  ASSUME DownloadInvariant, Download!SourceLost
  PROVE  DownloadInvariant'
<1>1. DownloadTypes'
  BY DEF DownloadInvariant, DownloadTypes, ManagerHolds, Download!SourceLost,
         Download!managerVars, Download!callerVars, Download!Final, Statuses,
         DownloadSteps
<1>2. ManagerHolds'
  BY DEF DownloadInvariant, DownloadTypes, ManagerHolds, Relied, Download!Admitted,
         Download!SourceLost, Download!managerVars, Download!callerVars, Download!Final,
         Statuses, DownloadSteps
<1>3. ASSUME NEW d \in Callers PROVE Learned(d)'
  BY DEF DownloadInvariant, DownloadTypes, Learned, Download!SourceLost,
         Download!managerVars, Download!callerVars, Download!Final, Statuses,
         DownloadSteps
<1>4. ASSUME NEW d \in Callers PROVE Relied(d)'
  BY DEF DownloadInvariant, DownloadTypes, ManagerHolds, Relied, Download!Admitted,
         Download!SourceLost, Download!managerVars, Download!callerVars, Download!Final,
         Statuses, DownloadSteps
<1> QED BY <1>1, <1>2, <1>3, <1>4 DEF DownloadInvariant

(* A caller gets the manager, makes it or awaits it.                       *)
LEMMA DlGet ==
  ASSUME DownloadInvariant, NEW c \in Callers, Download!Get(c)
  PROVE  DownloadInvariant'
<1>1. DownloadTypes'
  BY ZenonT(60) DEF DownloadInvariant, DownloadTypes, ManagerHolds, Download!Get, Download!Becomes,
         Download!Fails, Download!chromeDownloads, Download!Final, Statuses, DownloadSteps
<1>2. ManagerHolds'
  BY DEF DownloadInvariant, DownloadTypes, ManagerHolds, Relied, Download!Admitted,
         Download!Get, Download!Becomes, Download!Fails, Download!chromeDownloads,
         Download!Final, Statuses, DownloadSteps
<1>3. ASSUME NEW d \in Callers PROVE Learned(d)'
  BY ZenonT(60) DEF DownloadInvariant, DownloadTypes, Learned, Download!Get, Download!Becomes,
         Download!Fails, Download!chromeDownloads, Download!Final, Statuses, DownloadSteps
<1>4. ASSUME NEW d \in Callers PROVE Relied(d)'
  BY DEF DownloadInvariant, DownloadTypes, ManagerHolds, Relied, Download!Admitted,
         Download!Get, Download!Becomes, Download!Fails, Download!chromeDownloads,
         Download!Final, Statuses, DownloadSteps
<1> QED BY <1>1, <1>2, <1>3, <1>4 DEF DownloadInvariant

(* The default session makes one that has no directory of its own.         *)
LEMMA DlCreateDefault ==
  ASSUME DownloadInvariant, NEW c \in Callers, Download!CreateDefault(c)
  PROVE  DownloadInvariant'
<1>1. DownloadTypes'
  BY DEF DownloadInvariant, DownloadTypes, ManagerHolds, Download!CreateDefault,
         Download!Becomes, Download!Fails, Download!Created, Download!chromeDownloads,
         Download!Final, Statuses, DownloadSteps
<1>2. ManagerHolds'
  BY DEF DownloadInvariant, DownloadTypes, ManagerHolds, Relied, Download!Admitted,
         Download!CreateDefault, Download!Becomes, Download!Fails, Download!Created,
         Download!chromeDownloads, Download!Final, Statuses, DownloadSteps
<1>3. ASSUME NEW d \in Callers PROVE Learned(d)'
  BY ZenonT(60) DEF DownloadInvariant, DownloadTypes, Learned, Download!CreateDefault,
         Download!Becomes, Download!Fails, Download!Created, Download!chromeDownloads,
         Download!Final, Statuses, DownloadSteps
<1>4. ASSUME NEW d \in Callers PROVE Relied(d)'
  BY DEF DownloadInvariant, DownloadTypes, ManagerHolds, Relied, Download!Admitted,
         Download!CreateDefault, Download!Becomes, Download!Fails, Download!Created,
         Download!chromeDownloads, Download!Final, Statuses, DownloadSteps
<1> QED BY <1>1, <1>2, <1>3, <1>4 DEF DownloadInvariant

(* The action of an expectation starts a download or fails.                *)
LEMMA DlAct ==
  ASSUME DownloadInvariant, NEW c \in Callers, Download!Act(c)
  PROVE  DownloadInvariant'
<1>1. DownloadTypes'
  <2>1. begins' \in Seq(Guids)
    <3>1. begins \in Seq(Guids)
      BY DEF DownloadInvariant, DownloadTypes
    <3> QED BY <3>1, InSeq DEF Download!Act
  <2>2. caller' \in [Callers -> DownloadSteps]
    BY DEF DownloadInvariant, DownloadTypes, Download!Act, Download!Becomes, DownloadSteps
  <2> QED BY <2>1, <2>2
             DEF DownloadInvariant, DownloadTypes, Download!Act, Download!managerVars
<1>2. ManagerHolds'
  BY DEF DownloadInvariant, DownloadTypes, ManagerHolds, Relied, Download!Admitted,
         Download!Act, Download!Becomes, Download!managerVars, Download!Final, Statuses,
         DownloadSteps
<1>3. ASSUME NEW d \in Callers PROVE Learned(d)'
  BY DEF DownloadInvariant, DownloadTypes, Learned, Download!Act, Download!Becomes,
         Download!managerVars, Download!Final, Statuses, DownloadSteps
<1>4. ASSUME NEW d \in Callers PROVE Relied(d)'
  BY DEF DownloadInvariant, DownloadTypes, ManagerHolds, Relied, Download!Admitted,
         Download!Act, Download!Becomes, Download!managerVars, Download!Final, Statuses,
         DownloadSteps
<1> QED BY <1>1, <1>2, <1>3, <1>4 DEF DownloadInvariant

(* An expectation receives its download.                                   *)
LEMMA DlReceive ==
  ASSUME DownloadInvariant, NEW c \in Callers, Download!Receive(c)
  PROVE  DownloadInvariant'
<1>1. DownloadTypes'
  <2>1. Head(updates[c]) \in Guids /\ status \in [Guids -> Statuses]
    BY InSeq DEF DownloadInvariant, DownloadTypes, Download!Receive
  <2>2. Download!Known(status, Head(updates[c])) \in [Guids -> Statuses]
    BY <2>1, StatusesStay
  <2>3. caller' \in [Callers -> DownloadSteps] /\ got' \in [Callers -> Guids \cup {None}]
    BY <2>1
       DEF DownloadInvariant, DownloadTypes, Download!Receive, Download!Becomes,
           DownloadSteps
  <2> QED BY <2>2, <2>3
             DEF DownloadInvariant, DownloadTypes, Download!Receive,
                 Download!chromeDownloads
<1>2. ManagerHolds'
  BY DEF DownloadInvariant, DownloadTypes, ManagerHolds, Relied, Download!Admitted,
         Download!Receive, Download!Becomes, Download!chromeDownloads, Download!Final,
         Download!Known, Statuses, DownloadSteps
<1>3. ASSUME NEW d \in Callers PROVE Learned(d)'
  <2>1. /\ downOutcome[d] # "none" => caller[d] \in {"copy", "done"} /\ got[d] \in Guids
        /\ downOutcome[d] # "none" => downOutcome[d] = status[got[d]] /\ status[got[d]] \in Download!Final
        /\ status \in [Guids -> Statuses]
    BY DEF DownloadInvariant, DownloadTypes, Learned
  <2>2. Head(updates[c]) \in Guids /\ status' = Download!Known(status, Head(updates[c]))
    BY InSeq DEF DownloadInvariant, DownloadTypes, Download!Receive
  <2>3. downOutcome[d] # "none" => status'[got[d]] = status[got[d]]
    BY <2>1, <2>2, FinalStays DEF Download!Receive
  <2>4. caller[c] = "receive" /\ downOutcome[c] = "none" /\ UNCHANGED <<downKind, downOutcome>>
    BY DEF DownloadInvariant, Learned, Download!Receive
  <2>5. /\ caller' = [caller EXCEPT ![c] = "have"] /\ got' = [got EXCEPT ![c] = Head(updates[c])]
        /\ caller \in [Callers -> DownloadSteps] /\ got \in [Callers -> Guids \cup {None}]
    BY DEF DownloadInvariant, DownloadTypes, Download!Receive, Download!Becomes
  <2>6. CASE d = c
    BY <2>2, <2>4, <2>5, <2>6 DEF Learned
  <2>7. CASE d # c
    BY <2>1, <2>3, <2>4, <2>5, <2>7 DEF DownloadInvariant, Learned
  <2> QED BY <2>6, <2>7
<1>4. ASSUME NEW d \in Callers PROVE Relied(d)'
  BY DEF DownloadInvariant, DownloadTypes, ManagerHolds, Relied, Download!Admitted,
         Download!Receive, Download!Becomes, Download!chromeDownloads, Download!Final,
         Download!Known, Statuses, DownloadSteps
<1> QED BY <1>1, <1>2, <1>3, <1>4 DEF DownloadInvariant

(* Or none comes.                                                          *)
LEMMA DlNothingReceived ==
  ASSUME DownloadInvariant, NEW c \in Callers, Download!NothingReceived(c)
  PROVE  DownloadInvariant'
<1>1. DownloadTypes'
  BY DEF DownloadInvariant, DownloadTypes, ManagerHolds, Download!NothingReceived,
         Download!Becomes, Download!Fails, Download!chromeDownloads, Download!Final,
         Statuses, DownloadSteps
<1>2. ManagerHolds'
  BY DEF DownloadInvariant, DownloadTypes, ManagerHolds, Relied, Download!Admitted,
         Download!NothingReceived, Download!Becomes, Download!Fails,
         Download!chromeDownloads, Download!Final, Statuses, DownloadSteps
<1>3. ASSUME NEW d \in Callers PROVE Learned(d)'
  BY DEF DownloadInvariant, DownloadTypes, Learned, Download!NothingReceived,
         Download!Becomes, Download!Fails, Download!chromeDownloads, Download!Final,
         Statuses, DownloadSteps
<1>4. ASSUME NEW d \in Callers PROVE Relied(d)'
  BY DEF DownloadInvariant, DownloadTypes, ManagerHolds, Relied, Download!Admitted,
         Download!NothingReceived, Download!Becomes, Download!Fails,
         Download!chromeDownloads, Download!Final, Statuses, DownloadSteps
<1> QED BY <1>1, <1>2, <1>3, <1>4 DEF DownloadInvariant

(* A caller waits for the end of its download.                             *)
LEMMA DlWait ==
  ASSUME DownloadInvariant, NEW c \in Callers, Download!Wait(c)
  PROVE  DownloadInvariant'
<1>1. DownloadTypes'
  BY DEF DownloadInvariant, DownloadTypes, ManagerHolds, Download!Wait, Download!Becomes,
         Download!Fails, Download!Closing, Download!managerVars, Download!chromeDownloads,
         Download!Final, Statuses, DownloadSteps
<1>2. ManagerHolds'
  BY DEF DownloadInvariant, DownloadTypes, ManagerHolds, Relied, Download!Admitted,
         Download!Wait, Download!Becomes, Download!Fails, Download!Closing,
         Download!managerVars, Download!chromeDownloads, Download!Final, Statuses,
         DownloadSteps
<1>3. ASSUME NEW d \in Callers PROVE Learned(d)'
  BY ZenonT(60) DEF DownloadInvariant, DownloadTypes, Learned, Download!Wait, Download!Becomes,
         Download!Fails, Download!Closing, Download!managerVars, Download!chromeDownloads,
         Download!Final, Statuses, DownloadSteps
<1>4. ASSUME NEW d \in Callers PROVE Relied(d)'
  BY DEF DownloadInvariant, DownloadTypes, ManagerHolds, Relied, Download!Admitted,
         Download!Wait, Download!Becomes, Download!Fails, Download!Closing,
         Download!managerVars, Download!chromeDownloads, Download!Final, Statuses,
         DownloadSteps
<1> QED BY <1>1, <1>2, <1>3, <1>4 DEF DownloadInvariant

(* It learns the status, which is final.                                   *)
LEMMA DlWaitEnds ==
  ASSUME DownloadInvariant, NEW c \in Callers, Download!WaitEnds(c)
  PROVE  DownloadInvariant'
<1>1. DownloadTypes'
  BY DEF DownloadInvariant, DownloadTypes, ManagerHolds, Download!WaitEnds,
         Download!Becomes, Download!managerVars, Download!chromeDownloads, Download!Final,
         Statuses, DownloadSteps
<1>2. ManagerHolds'
  BY DEF DownloadInvariant, DownloadTypes, ManagerHolds, Relied, Download!Admitted,
         Download!WaitEnds, Download!Becomes, Download!managerVars,
         Download!chromeDownloads, Download!Final, Statuses, DownloadSteps
<1>3. ASSUME NEW d \in Callers PROVE Learned(d)'
  BY DEF DownloadInvariant, DownloadTypes, Learned, Download!WaitEnds, Download!Becomes,
         Download!managerVars, Download!chromeDownloads, Download!Final, Statuses,
         DownloadSteps
<1>4. ASSUME NEW d \in Callers PROVE Relied(d)'
  BY DEF DownloadInvariant, DownloadTypes, ManagerHolds, Relied, Download!Admitted,
         Download!WaitEnds, Download!Becomes, Download!managerVars,
         Download!chromeDownloads, Download!Final, Statuses, DownloadSteps
<1> QED BY <1>1, <1>2, <1>3, <1>4 DEF DownloadInvariant

(* The file is copied.                                                     *)
LEMMA DlCopied ==
  ASSUME DownloadInvariant, NEW c \in Callers, Download!Copied(c)
  PROVE  DownloadInvariant'
<1>1. DownloadTypes'
  BY DEF DownloadInvariant, DownloadTypes, ManagerHolds, Download!Copied,
         Download!Becomes, Download!managerVars, Download!chromeDownloads, Download!Final,
         Statuses, DownloadSteps
<1>2. ManagerHolds'
  BY DEF DownloadInvariant, DownloadTypes, ManagerHolds, Relied, Download!Admitted,
         Download!Copied, Download!Becomes, Download!managerVars,
         Download!chromeDownloads, Download!Final, Statuses, DownloadSteps
<1>3. ASSUME NEW d \in Callers PROVE Learned(d)'
  BY DEF DownloadInvariant, DownloadTypes, Learned, Download!Copied, Download!Becomes,
         Download!managerVars, Download!chromeDownloads, Download!Final, Statuses,
         DownloadSteps
<1>4. ASSUME NEW d \in Callers PROVE Relied(d)'
  BY DEF DownloadInvariant, DownloadTypes, ManagerHolds, Relied, Download!Admitted,
         Download!Copied, Download!Becomes, Download!managerVars,
         Download!chromeDownloads, Download!Final, Statuses, DownloadSteps
<1> QED BY <1>1, <1>2, <1>3, <1>4 DEF DownloadInvariant

(* A caller begins an expectation.                                         *)
LEMMA DlExpect ==
  ASSUME DownloadInvariant, NEW c \in Callers, Download!Expect(c)
  PROVE  DownloadInvariant'
<1>1. DownloadTypes'
  BY ZenonT(60) DEF DownloadInvariant, DownloadTypes, ManagerHolds, Download!Expect,
         Download!Becomes, Download!Fails, Download!Closing, Download!managerVars,
         Download!chromeDownloads, Download!Final, Statuses, DownloadSteps
<1>2. ManagerHolds'
  BY DEF DownloadInvariant, DownloadTypes, ManagerHolds, Relied, Download!Admitted,
         Download!Expect, Download!Becomes, Download!Fails, Download!Closing,
         Download!managerVars, Download!chromeDownloads, Download!Final, Statuses,
         DownloadSteps
<1>3. ASSUME NEW d \in Callers PROVE Learned(d)'
  BY ZenonT(60) DEF DownloadInvariant, DownloadTypes, Learned, Download!Expect, Download!Becomes,
         Download!Fails, Download!Closing, Download!managerVars, Download!chromeDownloads,
         Download!Final, Statuses, DownloadSteps
<1>4. ASSUME NEW d \in Callers PROVE Relied(d)'
  BY ZenonT(60) DEF DownloadInvariant, DownloadTypes, ManagerHolds, Relied, Download!Admitted,
         Download!Expect, Download!Becomes, Download!Fails, Download!Closing,
         Download!managerVars, Download!chromeDownloads, Download!Final, Statuses,
         DownloadSteps
<1> QED BY <1>1, <1>2, <1>3, <1>4 DEF DownloadInvariant

(* At first there is no manager.                                           *)
LEMMA DownloadInit == Download!Init => DownloadInvariant
<1> SUFFICES ASSUME Download!Init PROVE DownloadInvariant
  OBVIOUS
<1>1. <<>> \in Seq(Guids) /\ <<>> \in Seq([g : Guids, how : {"completed", "canceled"}])
  OBVIOUS
<1>2. DownloadTypes
  BY <1>1 DEF Download!Init, DownloadTypes, Statuses, DownloadSteps
<1>3. ManagerHolds /\ \A c \in Callers : Learned(c) /\ Relied(c)
  BY DEF Download!Init, ManagerHolds, Learned, Relied
<1> QED BY <1>2, <1>3 DEF DownloadInvariant

(* No step of the manager, of a caller or of the close breaks the          *)
(* invariant.                                                              *)
LEMMA DownloadNext == DownloadInvariant /\ [Download!Next]_Download!downloadVars => DownloadInvariant'
<1> SUFFICES ASSUME DownloadInvariant, [Download!Next]_Download!downloadVars PROVE DownloadInvariant'
  OBVIOUS
<1>1. CASE UNCHANGED Download!downloadVars
  <2>1. UNCHANGED <<downKind, slot, canceled, directory, reducer, announced, status, senders, updates,
                    caller, got, downOutcome, closer, begins, ends, source>>
    BY <1>1
       DEF Download!downloadVars, Download!managerVars, Download!callerVars,
           Download!chromeDownloads
  <2> QED BY ZenonT(60), <2>1
             DEF DownloadInvariant, DownloadTypes, ManagerHolds, Learned, Relied,
                 Download!Admitted
<1>2. CASE Download!Progress
  BY <1>2, DlInitialized, DlReduceBegin, DlPublish, DlReduceProgress, DlReducerEnds,
     DlBeginClose,
     DlClearSenders, DlDrain, DlFinishClose, DlGet, DlCreateDefault, DlAct, DlReceive,
     DlNothingReceived, DlWait, DlWaitEnds, DlCopied DEF Download!Progress
<1>3. CASE \E c \in Callers : Download!Expect(c)
  BY <1>3, DlExpect
<1>4. CASE Download!StartClose \/ Download!DownloadEnds \/ Download!SourceLost
  BY <1>4, DlStartClose, DlDownloadEnds, DlSourceLost
<1> QED BY <1>1, <1>2, <1>3, <1>4 DEF Download!Next

(* In every reachable state of any callers and downloads a status that     *)
(* somebody was told is the one there is, and whoever relies on the        *)
(* manager has it.                                                         *)
THEOREM DownloadsTypeCorrect == Download!Spec => []DownloadInvariant
<1>1. Download!Init => DownloadInvariant
  BY DownloadInit
<1>2. DownloadInvariant /\ [Download!Next]_Download!downloadVars => DownloadInvariant'
  BY DownloadNext
<1> QED BY <1>1, <1>2, PTL DEF Download!Spec

-----------------------------------------------------------------------------
(***************************************************************************)
(* Waits for a value, for an element and for a stable page                 *)
(***************************************************************************)
WaitKinds == {"value", "locator", "stability"}
WaitAnswers == [kind : {"none", "error", "value"}, n : Nat]
WaitCommands == {"install", "scan", "remove"}
WaitPages == [value : BOOLEAN, element : Wait!Elements, generation : Nat,
              observed : BOOLEAN, valid : BOOLEAN]

WaitTypes ==
  /\ wait \in [kind : WaitKinds, condition : Wait!Conditions \cup {"none"}]
  /\ waitPage \in WaitPages
  /\ waitPc \in {"loop", "asked", "read", "release", "install", "scan", "scanned", "sleep",
             "cleanup", "removed", "ended"}
  /\ wake \in Nat /\ waitClock \in Nat /\ waitChanges \in Nat /\ changed \in Nat
  /\ waitQueue \in Seq(WaitCommands) /\ waitAnswer \in WaitAnswers
  /\ waitGuard \in {"none", "wait", "registry", "failed"}
  /\ previous \in Nat /\ stableSince \in Nat
  /\ result \in {"none", "ok", "timeout", "error", "cancelled", "leaked"}

\* What each kind of wait has to release, and when.
WaitStages ==
  /\ wait.kind = "value" =>
       waitPc \in {"loop", "asked", "sleep", "ended"} /\ waitGuard = "none"
  /\ wait.kind = "locator" => waitPc \in {"loop", "read", "release", "sleep", "ended"}
  /\ wait.kind = "stability" => waitPc \notin {"asked", "read", "release"}
  /\ wait.kind \in {"value", "locator"} =>
       waitQueue = <<>> /\ ~waitPage.observed /\ waitPage.valid
  /\ wait.kind = "locator" /\ waitPc \in {"loop", "sleep"} => waitGuard = "none"
  /\ wait.kind = "locator" /\ waitPc \in {"read", "release"} =>
       waitGuard = "wait" /\ wait.condition \in {"Text", "Attribute"}
  /\ waitPc = "release" => waitAnswer \in {Wait!Failed, Wait!Value(0), Wait!Value(1)}
  /\ wait.kind = "locator" => wait.condition \in Wait!Conditions
  /\ wait.kind = "stability" /\ waitPc = "loop" /\ previous = Wait!Never =>
       waitGuard = "none" /\ waitQueue = <<>> /\ ~waitPage.observed
  /\ wait.kind = "stability" /\ waitPc = "sleep" => previous # Wait!Never
  /\ wait.kind = "stability" /\ waitPc # "ended"
     /\ (waitPc # "loop" \/ previous # Wait!Never) => waitGuard = "wait"
  /\ waitPc = "ended" => waitGuard # "wait"
  /\ waitGuard = "failed" => waitPc = "ended" /\ result = "leaked"
  /\ waitPc \notin {"cleanup", "removed", "ended"} => result = "none"
  /\ waitPc = "cleanup" => result \in {"ok", "timeout", "error"}

\* The condition holds now, or held since the observation under way began.
HeldIsKnown ==
  /\ Wait!Satisfied(waitPage) => waitHeld
  /\ result = "ok" => waitHeld
  /\ waitPc = "release" /\ waitAnswer.kind = "value" /\ waitAnswer.n = 1 => waitHeld

\* The observer is gone, or its removal is the last command.
ObserverLeaving ==
  IF waitQueue = <<>> THEN ~waitPage.observed ELSE waitQueue[Len(waitQueue)] = "remove"
ObserverRemoved ==
  /\ ~waitPage.valid => ~waitPage.observed
  /\ waitPc \in {"removed", "ended"} => ObserverLeaving

\* The generations seen are of the past, and the last one has been quiet since then.
WaitGenerations ==
  /\ waitPage.generation <= waitChanges /\ waitChanges <= MaxWaitChanges
  /\ changed <= waitClock
  /\ wait.kind = "stability" /\ waitAnswer.kind = "value" =>
       waitAnswer.n <= waitPage.generation
  /\ previous # Wait!Never => previous <= waitPage.generation
  /\ stableSince # Wait!Never => stableSince <= waitClock /\ previous # Wait!Never
  /\ stableSince # Wait!Never => changed <= stableSince \/ waitPage.generation # previous
  /\ waitClock <= MaxWaitClock
  /\ waitPc = "cleanup" /\ result = "ok" =>
       stableSince # Wait!Never /\ waitClock >= stableSince + Stability

WaitInvariant ==
  WaitTypes /\ WaitStages /\ HeldIsKnown /\ ObserverRemoved /\ WaitGenerations

(* What the page does by itself leaves it a page; a new generation has its *)
(* time.                                                                   *)
LEMMA WaitPageMoves ==
  ASSUME WaitTypes, Wait!PageChanges
  PROVE  /\ waitPage' \in WaitPages
         /\ waitPage'.generation \in {waitPage.generation, waitPage.generation + 1}
         /\ waitPage'.generation # waitPage.generation =>
              wait.kind = "stability" /\ changed' = waitClock
         /\ waitPage'.generation = waitPage.generation => changed' = changed
<1>1. waitPage \in WaitPages BY DEF WaitTypes
<1>2. CASE wait.kind = "value" BY <1>1, <1>2 DEF Wait!PageChanges, WaitPages
<1>3. CASE wait.kind = "locator"
  <2>1. PICK element \in Wait!Elements : waitPage' = [waitPage EXCEPT !.element = element]
    BY <1>3 DEF Wait!PageChanges
  <2>2. changed' = changed BY <1>3 DEF Wait!PageChanges
  <2>3. [waitPage EXCEPT !.element = element] \in WaitPages
    BY <1>1 DEF WaitPages
  <2>4. [waitPage EXCEPT !.element = element].generation = waitPage.generation
    BY <1>1 DEF WaitPages
  <2>5. waitPage' \in WaitPages BY <2>1, <2>3
  <2>6. waitPage'.generation = waitPage.generation BY <2>1, <2>4
  <2> QED BY <2>2, <2>5, <2>6
<1>4. CASE wait.kind = "stability"
  <2>1. \/ waitPage' = [waitPage EXCEPT !.generation = waitPage.generation + 1]
           /\ changed' = waitClock
        \/ waitPage' = [waitPage EXCEPT !.valid = FALSE, !.observed = FALSE]
           /\ changed' = changed
    BY <1>4 DEF Wait!PageChanges
  <2>2. waitPage.generation \in Nat /\ waitPage.generation + 1 # waitPage.generation
    BY <1>1 DEF WaitPages
  <2>3. CASE waitPage' = [waitPage EXCEPT !.generation = waitPage.generation + 1]
             /\ changed' = waitClock
    <3>1. waitPage'.generation = waitPage.generation + 1 /\ waitPage' \in WaitPages
      BY <1>1, <2>2, <2>3 DEF WaitPages
    <3> QED BY <1>4, <2>2, <2>3, <3>1
  <2>4. CASE waitPage' = [waitPage EXCEPT !.valid = FALSE, !.observed = FALSE]
             /\ changed' = changed
    <3>1. waitPage'.generation = waitPage.generation /\ waitPage' \in WaitPages
      BY <1>1, <2>4 DEF WaitPages
    <3> QED BY <1>4, <2>4, <3>1
  <2> QED BY <2>1, <2>3, <2>4
<1> QED BY <1>2, <1>3, <1>4 DEF WaitTypes, WaitKinds

(* A change of the page keeps the types.                                   *)
LEMMA WaitPageChangesTypes ==
  ASSUME WaitTypes, Wait!PageChanges
  PROVE WaitTypes'
<1>1. /\ waitPage' \in WaitPages
      /\ waitPage'.generation \in {waitPage.generation, waitPage.generation + 1}
      /\ waitPage'.generation # waitPage.generation =>
           wait.kind = "stability" /\ changed' = waitClock
      /\ waitPage'.generation = waitPage.generation => changed' = changed
  BY WaitPageMoves
<1>2. waitChanges' \in Nat BY DEF Wait!PageChanges, WaitTypes
<1>3. changed' \in Nat BY <1>1 DEF WaitTypes
<1> QED BY <1>1, <1>2, <1>3 DEF WaitTypes, Wait!PageChanges

(* What a command of the wait does to the page, and what it may answer.    *)
LEMMA WaitPageObeys ==
  ASSUME WaitTypes, Wait!PageRuns
  PROVE  /\ waitPage' \in {waitPage, [waitPage EXCEPT !.observed = TRUE],
                           [waitPage EXCEPT !.observed = FALSE]}
         /\ waitAnswer' \in {Wait!Failed, Wait!Value(waitPage.generation)}
         /\ ~waitPage.valid => waitPage' = waitPage
         /\ waitPage.valid /\ Head(waitQueue) = "remove" =>
              waitPage' = [waitPage EXCEPT !.observed = FALSE]
<1>1. Head(waitQueue) \in WaitCommands BY DEF WaitTypes, Wait!PageRuns
<1> QED BY <1>1 DEF Wait!PageRuns, WaitCommands

(* The page running a command keeps the types.                             *)
LEMMA WaitPageRunsTypes == ASSUME WaitTypes, Wait!PageRuns PROVE WaitTypes'
<1>1. waitPage \in WaitPages BY DEF WaitTypes
<1>2. waitQueue' \in Seq(WaitCommands) BY DEF WaitTypes, Wait!PageRuns
<1>3. /\ [waitPage EXCEPT !.observed = TRUE] \in WaitPages
      /\ [waitPage EXCEPT !.observed = FALSE] \in WaitPages
      /\ Wait!Value(waitPage.generation) \in WaitAnswers /\ Wait!Failed \in WaitAnswers
  BY <1>1 DEF WaitPages, Wait!Value, Wait!Failed, WaitAnswers
<1>4. waitPage' \in WaitPages /\ waitAnswer' \in WaitAnswers BY <1>1, <1>3, WaitPageObeys
<1> QED BY <1>2, <1>4 DEF WaitTypes, Wait!PageRuns

(* Preparing the observer keeps the types.                                 *)
LEMMA WaitPrepareTypes == ASSUME WaitTypes, Wait!Prepare PROVE WaitTypes'
<1>1. "install" \in WaitCommands /\ Wait!NoAnswer \in WaitAnswers
  BY DEF WaitCommands, WaitAnswers, Wait!NoAnswer
<1>2. waitQueue' \in Seq(WaitCommands) /\ waitAnswer' \in WaitAnswers
  BY <1>1 DEF WaitTypes, Wait!Prepare, Wait!Send
<1>3. waitPc' \in {"install", "ended"} /\ result' \in {"timeout", result}
      /\ waitGuard' \in {"wait", waitGuard}
  BY DEF Wait!Prepare, Wait!Ends
<1> QED BY <1>2, <1>3 DEF WaitTypes, Wait!Prepare

(* Observing the locator keeps the types.                                  *)
LEMMA WaitObserveTypes == ASSUME WaitTypes, Wait!Observe PROVE WaitTypes'
<1>1. waitGuard' \in {"none", "wait", "registry", "failed"} BY DEF WaitTypes, Wait!Observe
<1>2. wake' \in Nat BY DEF WaitTypes, Wait!Observe, Wait!Again
<1>3. waitPc' \in {"ended", "sleep", "read"}
  BY DEF WaitTypes, Wait!Observe, Wait!Again, Wait!Ends
<1>4. result' \in {"none", "ok", "timeout", "error", "cancelled", "leaked"}
  BY DEF WaitTypes, Wait!Observe, Wait!Again, Wait!Ends
<1> QED BY <1>1, <1>2, <1>3, <1>4 DEF WaitTypes, Wait!Observe

(* A text or an attribute that was read to be so was so.                   *)
LEMMA WaitReadHeld ==
  ASSUME WaitTypes, WaitStages, HeldIsKnown, Wait!Read
  PROVE HeldIsKnown'
<1>1. wait.kind = "locator" /\ wait.condition \in {"Text", "Attribute"}
  BY DEF Wait!Read, WaitStages, WaitTypes, WaitKinds
<1>2. Wait!Satisfied(waitPage) = (waitPage.element = "filled")
  BY <1>1 DEF Wait!Satisfied, Wait!Holds
<1>3. Wait!Satisfied(waitPage)' = Wait!Satisfied(waitPage)
  BY DEF Wait!Read, Wait!Satisfied
<1>4. waitAnswer'.kind = "value" /\ waitAnswer'.n = 1 => waitPage.element = "filled"
  BY DEF Wait!Read, Wait!Value, Wait!Failed
<1> QED BY <1>2, <1>3, <1>4 DEF HeldIsKnown, Wait!Read

(* The handle is released; a condition that was read has held.             *)
LEMMA WaitReleaseHeld ==
  ASSUME WaitTypes, WaitStages, HeldIsKnown, Wait!Release
  PROVE HeldIsKnown'
<1>1. Wait!Satisfied(waitPage)' = Wait!Satisfied(waitPage)
  BY DEF Wait!Release, Wait!Satisfied
<1>2. waitAnswer \in {Wait!Failed, Wait!Value(0), Wait!Value(1)} /\ result = "none"
  BY DEF WaitStages, Wait!Release
<1>3. result' = "ok" => waitAnswer = Wait!Value(1)
  BY <1>2 DEF Wait!Release, Wait!Ends, Wait!Again, Wait!Failed, Wait!Value
<1>4. result' = "ok" => waitHeld
  BY <1>3 DEF HeldIsKnown, Wait!Release, Wait!Value
<1> QED BY <1>1, <1>4 DEF HeldIsKnown, Wait!Release, Wait!Again, Wait!Ends

(* Comparing generations leaves the wait with its observer.                *)
LEMMA WaitComparedStages ==
  ASSUME WaitTypes, WaitStages, WaitGenerations, Wait!Compared
  PROVE WaitStages'
<1>1. wait.kind = "stability" /\ waitGuard = "wait"
  BY DEF WaitTypes, WaitStages, WaitKinds, Wait!Compared
<1>2. waitPc' \in {"cleanup", "sleep"} /\ (waitPc' = "sleep" => result' = "none")
      /\ (waitPc' = "cleanup" => result' \in {"ok", "timeout"})
  BY DEF Wait!Compared, WaitStages
<1>3. previous' # Wait!Never
  BY <1>1, WaitAssumption
     DEF Wait!Compared, Wait!Never, WaitGenerations, WaitTypes, WaitAnswers, WaitPages
<1> QED BY <1>1, <1>2, <1>3 DEF WaitStages, Wait!Compared

(* The last of a queue stays its last while others are taken.              *)
LEMMA LastOfTail ==
  ASSUME NEW S, NEW q \in Seq(S), Len(q) > 1
  PROVE  Tail(q) # <<>> /\ Tail(q)[Len(Tail(q))] = q[Len(q)]
<1>1. q # <<>> /\ Len(q) \in Nat
  OBVIOUS
<1>2. /\ Tail(q) \in Seq(S) /\ Len(Tail(q)) = Len(q) - 1
      /\ \A i \in 1 .. Len(Tail(q)) : Tail(q)[i] = q[i + 1]
  BY <1>1, HeadTailProperties
<1> DEFINE n == Len(Tail(q))
<1>3. n \in 1 .. n /\ n + 1 = Len(q)
  BY <1>1, <1>2
<1> HIDE DEF n
<1>4. Tail(q)[n] = q[n + 1]
  BY <1>2, <1>3 DEF n
<1>5. Tail(q) # <<>>
  <2>1. ASSUME NEW s, Len(s) \in Nat, Len(s) # 0 PROVE s # <<>>
    BY <2>1
  <2>2. Len(Tail(q)) \in Nat /\ Len(Tail(q)) # 0
    BY <1>1, <1>2
  <2> QED BY <2>1, <2>2
<1> QED BY <1>3, <1>4, <1>5 DEF n

(* A command is run; the removal comes last, and leaves no observer.       *)
LEMMA WaitPageRunsRemoves ==
  ASSUME WaitTypes, WaitStages, ObserverRemoved, Wait!PageRuns
  PROVE ObserverRemoved'
<1>1. waitQueue \in Seq(WaitCommands) /\ waitQueue # <<>>
      /\ waitQueue' = Tail(waitQueue) /\ waitPage \in WaitPages
  BY DEF WaitTypes, Wait!PageRuns
<1>2. Head(waitQueue) \in WaitCommands /\ Len(waitQueue) \in Nat /\ Len(waitQueue) > 0
  BY <1>1
<1>3. ~waitPage'.valid => ~waitPage'.observed
  BY <1>1, WaitPageObeys DEF ObserverRemoved, WaitPages
<1>4. ASSUME waitPc \in {"removed", "ended"} PROVE ObserverLeaving'
  <2>1. waitQueue[Len(waitQueue)] = "remove"
    BY <1>1, <1>4 DEF ObserverRemoved, ObserverLeaving
  <2>2. CASE Len(waitQueue) = 1
    <3>1. waitQueue' = <<>> /\ Head(waitQueue) = "remove" BY <1>1, <2>1, <2>2
    <3>2. ~waitPage'.observed
      BY <1>1, <3>1, WaitPageObeys DEF ObserverRemoved, WaitPages
    <3> QED BY <3>1, <3>2 DEF ObserverLeaving
  <2>3. CASE Len(waitQueue) # 1
    <3>1. waitQueue' # <<>> /\ waitQueue'[Len(waitQueue')] = waitQueue[Len(waitQueue)]
      <4>1. Len(waitQueue) > 1 BY SMTT(60), <1>2, <2>3
      <4>2. Tail(waitQueue) # <<>>
            /\ Tail(waitQueue)[Len(Tail(waitQueue))] = waitQueue[Len(waitQueue)]
        BY <1>1, <4>1, LastOfTail
      <4> QED BY <1>1, <4>2
    <3> QED BY <2>1, <3>1 DEF ObserverLeaving
  <2> QED BY <2>2, <2>3
<1> QED BY <1>3, <1>4 DEF ObserverRemoved, Wait!PageRuns

(* A generation that was answered is not of the future.                    *)
LEMMA WaitPageRunsGenerations ==
  ASSUME WaitTypes, WaitStages, WaitGenerations, Wait!PageRuns
  PROVE WaitGenerations'
<1>1. waitPage \in WaitPages /\ waitPage.generation \in Nat BY DEF WaitTypes, WaitPages
<1>2. waitPage'.generation = waitPage.generation
  BY <1>1, WaitPageObeys DEF WaitPages
<1>3. waitAnswer'.kind = "value" => waitAnswer'.n <= waitPage.generation
  BY <1>1, WaitPageObeys DEF Wait!Failed, Wait!Value
<1> QED BY <1>2, <1>3 DEF WaitGenerations, Wait!PageRuns, Wait!Never

(* A new generation differs from every one seen before.                    *)
LEMMA WaitPageChangesGenerations ==
  ASSUME WaitTypes, WaitStages, WaitGenerations, Wait!PageChanges
  PROVE WaitGenerations'
<1>1. /\ waitPage \in WaitPages /\ waitPage.generation \in Nat
      /\ waitChanges \in Nat /\ waitClock \in Nat
  BY DEF WaitTypes, WaitPages
<1>2. /\ waitPage'.generation \in {waitPage.generation, waitPage.generation + 1}
      /\ waitPage'.generation # waitPage.generation =>
           wait.kind = "stability" /\ changed' = waitClock
      /\ waitPage'.generation = waitPage.generation => changed' = changed
  BY WaitPageMoves
<1>3. waitChanges < MaxWaitChanges /\ waitChanges' = waitChanges + 1
      /\ waitAnswer' = waitAnswer
      /\ UNCHANGED <<wait, waitPc, waitClock, previous, stableSince, result>>
  BY DEF Wait!PageChanges
<1>4. previous \in Nat /\ stableSince \in Nat /\ waitAnswer.n \in Nat /\ changed \in Nat
  BY DEF WaitTypes, WaitAnswers
<1> QED BY <1>1, <1>2, <1>3, <1>4, WaitAssumption DEF WaitGenerations, Wait!Never

(* Every step keeps the types.                                             *)
LEMMA WaitTypesKept == ASSUME WaitTypes, Wait!Next PROVE WaitTypes'
<1> USE WaitAssumption DEF WaitTypes, WaitKinds, WaitAnswers, WaitCommands, WaitPages,
        Wait!Never
<1>1. CASE Wait!Wake
  BY <1>1 DEF Wait!Wake
<1>2. CASE Wait!AskValue
  BY <1>2 DEF Wait!AskValue, Wait!Ends
<1>3. CASE Wait!ValueAnswered
  BY <1>3 DEF Wait!ValueAnswered, Wait!Again, Wait!Ends
<1>4. CASE Wait!ValueFails
  BY <1>4 DEF Wait!ValueFails, Wait!Ends
<1>5. CASE Wait!Observe
  BY <1>5, WaitObserveTypes
<1>6. CASE Wait!ObserveFails
  BY <1>6 DEF Wait!ObserveFails, Wait!Ends
<1>7. CASE Wait!Read
  BY <1>7 DEF Wait!Read, Wait!Failed, Wait!Value
<1>8. CASE Wait!Release
  BY <1>8 DEF Wait!Release, Wait!Again, Wait!Ends, Wait!Failed
<1>9. CASE Wait!Prepare
  BY <1>9, WaitPrepareTypes
<1>10. CASE Wait!Installed
  BY <1>10 DEF Wait!Installed, Wait!NoAnswer
<1>11. CASE Wait!Scan
  BY <1>11 DEF Wait!Scan, Wait!Send, Wait!NoAnswer
<1>12. CASE Wait!GiveUpScan
  BY <1>12 DEF Wait!GiveUpScan, Wait!Abandon, Wait!Failed, Wait!NoAnswer
<1>13. CASE Wait!Compared
  BY <1>13 DEF Wait!Compared
<1>14. CASE Wait!CleanUp
  BY <1>14 DEF Wait!CleanUp, Wait!Ends, Wait!NoAnswer
<1>15. CASE Wait!CleanedUp
  BY <1>15 DEF Wait!CleanedUp, Wait!Ends, Wait!NoAnswer, Wait!Failed
<1>16. CASE Wait!Cancel
  BY <1>16 DEF Wait!Cancel, Wait!Ends
<1>17. CASE Wait!PageRuns
  BY <1>17, WaitPageRunsTypes
<1>18. CASE Wait!PageChanges
  BY <1>18, WaitPageChangesTypes
<1>19. CASE Wait!Tick
  BY <1>19 DEF Wait!Tick
<1> QED BY <1>1, <1>2, <1>3, <1>4, <1>5, <1>6, <1>7, <1>8, <1>9, <1>10, <1>11, <1>12,
           <1>13, <1>14, <1>15, <1>16, <1>17, <1>18, <1>19
           DEF Wait!Next

(* Every step keeps what is to be released.                                *)
LEMMA WaitStagesKept ==
  ASSUME WaitTypes, WaitStages, WaitGenerations, Wait!Next
  PROVE WaitStages'
<1> USE WaitAssumption DEF WaitStages, WaitTypes, WaitKinds, WaitAnswers, WaitCommands,
        WaitPages, Wait!Never
<1>1. CASE Wait!Wake
  BY <1>1 DEF Wait!Wake
<1>2. CASE Wait!AskValue
  BY <1>2 DEF Wait!AskValue, Wait!Ends
<1>3. CASE Wait!ValueAnswered
  BY <1>3 DEF Wait!ValueAnswered, Wait!Again, Wait!Ends
<1>4. CASE Wait!ValueFails
  BY <1>4 DEF Wait!ValueFails, Wait!Ends
<1>5. CASE Wait!Observe
  BY <1>5
     DEF Wait!Observe, Wait!MissingSatisfies, Wait!Again, Wait!Ends, Wait!Holds,
         Wait!Attached
<1>6. CASE Wait!ObserveFails
  BY <1>6 DEF Wait!ObserveFails, Wait!Ends
<1>7. CASE Wait!Read
  BY <1>7 DEF Wait!Read, Wait!Failed, Wait!Value
<1>8. CASE Wait!Release
  BY <1>8 DEF Wait!Release, Wait!Again, Wait!Ends, Wait!Failed
<1>9. CASE Wait!Prepare
  BY <1>9 DEF Wait!Prepare, Wait!Ends, Wait!Send, Wait!NoAnswer
<1>10. CASE Wait!Installed
  BY <1>10 DEF Wait!Installed, Wait!NoAnswer
<1>11. CASE Wait!Scan
  BY <1>11 DEF Wait!Scan, Wait!Send, Wait!NoAnswer
<1>12. CASE Wait!GiveUpScan
  BY <1>12 DEF Wait!GiveUpScan, Wait!Abandon, Wait!Failed, Wait!NoAnswer
<1>13. CASE Wait!Compared
  BY <1>13, WaitComparedStages
<1>14. CASE Wait!CleanUp
  BY <1>14 DEF Wait!CleanUp, Wait!Ends, Wait!NoAnswer
<1>15. CASE Wait!CleanedUp
  BY <1>15 DEF Wait!CleanedUp, Wait!Ends, Wait!NoAnswer, Wait!Failed
<1>16. CASE Wait!Cancel
  BY <1>16 DEF Wait!Cancel, Wait!Ends
<1>17. CASE Wait!PageRuns
  BY <1>17 DEF Wait!PageRuns, Wait!Failed, Wait!Value
<1>18. CASE Wait!PageChanges
  BY ZenonT(60), <1>18 DEF Wait!PageChanges
<1>19. CASE Wait!Tick
  BY <1>19 DEF Wait!Tick
<1> QED BY <1>1, <1>2, <1>3, <1>4, <1>5, <1>6, <1>7, <1>8, <1>9, <1>10, <1>11, <1>12,
           <1>13, <1>14, <1>15, <1>16, <1>17, <1>18, <1>19
           DEF Wait!Next

(* Every step keeps what is known of the condition.                        *)
LEMMA WaitHeldKept ==
  ASSUME WaitTypes, WaitStages, HeldIsKnown, Wait!Next
  PROVE HeldIsKnown'
<1> USE WaitAssumption DEF HeldIsKnown, WaitStages, Wait!Satisfied, Wait!Holds,
        Wait!Attached, Wait!Visible, Wait!Enabled, Wait!Conditions, Wait!Elements,
        WaitTypes, WaitKinds, WaitAnswers, WaitCommands, WaitPages
<1>1. CASE Wait!Wake
  BY <1>1 DEF Wait!Wake
<1>2. CASE Wait!AskValue
  BY <1>2 DEF Wait!AskValue, Wait!Ends
<1>3. CASE Wait!ValueAnswered
  BY <1>3 DEF Wait!ValueAnswered, Wait!Again, Wait!Ends
<1>4. CASE Wait!ValueFails
  BY <1>4 DEF Wait!ValueFails, Wait!Ends
<1>5. CASE Wait!Observe
  BY <1>5
     DEF Wait!Observe, Wait!MissingSatisfies, Wait!Again, Wait!Ends, Wait!Holds,
         Wait!Attached
<1>6. CASE Wait!ObserveFails
  BY <1>6 DEF Wait!ObserveFails, Wait!Ends
<1>7. CASE Wait!Read
  BY <1>7, WaitReadHeld
<1>8. CASE Wait!Release
  BY <1>8, WaitReleaseHeld
<1>9. CASE Wait!Prepare
  BY <1>9 DEF Wait!Prepare, Wait!Ends, Wait!Send, Wait!NoAnswer
<1>10. CASE Wait!Installed
  BY <1>10 DEF Wait!Installed, Wait!NoAnswer
<1>11. CASE Wait!Scan
  BY <1>11 DEF Wait!Scan, Wait!Send, Wait!NoAnswer
<1>12. CASE Wait!GiveUpScan
  BY <1>12 DEF Wait!GiveUpScan, Wait!Abandon, Wait!Failed, Wait!NoAnswer
<1>13. CASE Wait!Compared
  BY <1>13 DEF Wait!Compared
<1>14. CASE Wait!CleanUp
  BY <1>14 DEF Wait!CleanUp, Wait!Ends, Wait!NoAnswer
<1>15. CASE Wait!CleanedUp
  BY <1>15 DEF Wait!CleanedUp, Wait!Ends, Wait!NoAnswer, Wait!Failed
<1>16. CASE Wait!Cancel
  BY <1>16 DEF Wait!Cancel, Wait!Ends
<1>17. CASE Wait!PageRuns
  BY <1>17 DEF Wait!PageRuns, Wait!Failed, Wait!Value
<1>18. CASE Wait!PageChanges
  BY <1>18 DEF Wait!PageChanges
<1>19. CASE Wait!Tick
  BY <1>19 DEF Wait!Tick
<1> QED BY <1>1, <1>2, <1>3, <1>4, <1>5, <1>6, <1>7, <1>8, <1>9, <1>10, <1>11, <1>12,
           <1>13, <1>14, <1>15, <1>16, <1>17, <1>18, <1>19
           DEF Wait!Next

(* Every step keeps the observer, or its removal queued.                   *)
LEMMA WaitRemovedKept ==
  ASSUME WaitTypes, WaitStages, ObserverRemoved, Wait!Next
  PROVE ObserverRemoved'
<1> USE WaitAssumption DEF ObserverRemoved, ObserverLeaving, WaitStages, WaitTypes,
        WaitKinds, WaitAnswers, WaitCommands, WaitPages
<1>1. CASE Wait!Wake
  BY <1>1 DEF Wait!Wake
<1>2. CASE Wait!AskValue
  BY <1>2 DEF Wait!AskValue, Wait!Ends
<1>3. CASE Wait!ValueAnswered
  BY <1>3 DEF Wait!ValueAnswered, Wait!Again, Wait!Ends
<1>4. CASE Wait!ValueFails
  BY <1>4 DEF Wait!ValueFails, Wait!Ends
<1>5. CASE Wait!Observe
  BY <1>5
     DEF Wait!Observe, Wait!MissingSatisfies, Wait!Again, Wait!Ends, Wait!Holds,
         Wait!Attached
<1>6. CASE Wait!ObserveFails
  BY <1>6 DEF Wait!ObserveFails, Wait!Ends
<1>7. CASE Wait!Read
  BY <1>7 DEF Wait!Read, Wait!Failed, Wait!Value
<1>8. CASE Wait!Release
  BY <1>8 DEF Wait!Release, Wait!Again, Wait!Ends, Wait!Failed
<1>9. CASE Wait!Prepare
  BY <1>9 DEF Wait!Prepare, Wait!Ends, Wait!Send, Wait!NoAnswer
<1>10. CASE Wait!Installed
  BY <1>10 DEF Wait!Installed, Wait!NoAnswer
<1>11. CASE Wait!Scan
  BY <1>11 DEF Wait!Scan, Wait!Send, Wait!NoAnswer
<1>12. CASE Wait!GiveUpScan
  BY <1>12 DEF Wait!GiveUpScan, Wait!Abandon, Wait!Failed, Wait!NoAnswer
<1>13. CASE Wait!Compared
  BY <1>13 DEF Wait!Compared
<1>14. CASE Wait!CleanUp
  BY <1>14 DEF Wait!CleanUp, Wait!Ends, Wait!NoAnswer
<1>15. CASE Wait!CleanedUp
  BY <1>15 DEF Wait!CleanedUp, Wait!Ends, Wait!NoAnswer, Wait!Failed
<1>16. CASE Wait!Cancel
  BY SMTT(60), <1>16 DEF Wait!Cancel, Wait!Ends
<1>17. CASE Wait!PageRuns
  BY <1>17, WaitPageRunsRemoves
<1>18. CASE Wait!PageChanges
  BY ZenonT(60), <1>18 DEF Wait!PageChanges
<1>19. CASE Wait!Tick
  BY <1>19 DEF Wait!Tick
<1> QED BY <1>1, <1>2, <1>3, <1>4, <1>5, <1>6, <1>7, <1>8, <1>9, <1>10, <1>11, <1>12,
           <1>13, <1>14, <1>15, <1>16, <1>17, <1>18, <1>19
           DEF Wait!Next

(* Every step keeps generations and times in order.                        *)
LEMMA WaitGenerationsKept ==
  ASSUME WaitTypes, WaitStages, WaitGenerations, Wait!Next
  PROVE WaitGenerations'
<1> USE WaitAssumption DEF WaitGenerations, WaitStages, Wait!Never, WaitTypes, WaitKinds,
        WaitAnswers, WaitCommands, WaitPages
<1>1. CASE Wait!Wake
  BY <1>1 DEF Wait!Wake
<1>2. CASE Wait!AskValue
  BY <1>2 DEF Wait!AskValue, Wait!Ends
<1>3. CASE Wait!ValueAnswered
  BY <1>3 DEF Wait!ValueAnswered, Wait!Again, Wait!Ends
<1>4. CASE Wait!ValueFails
  BY <1>4 DEF Wait!ValueFails, Wait!Ends
<1>5. CASE Wait!Observe
  BY <1>5
     DEF Wait!Observe, Wait!MissingSatisfies, Wait!Again, Wait!Ends, Wait!Holds,
         Wait!Attached
<1>6. CASE Wait!ObserveFails
  BY <1>6 DEF Wait!ObserveFails, Wait!Ends
<1>7. CASE Wait!Read
  BY <1>7 DEF Wait!Read, Wait!Failed, Wait!Value
<1>8. CASE Wait!Release
  BY <1>8 DEF Wait!Release, Wait!Again, Wait!Ends, Wait!Failed
<1>9. CASE Wait!Prepare
  BY <1>9 DEF Wait!Prepare, Wait!Ends, Wait!Send, Wait!NoAnswer
<1>10. CASE Wait!Installed
  BY <1>10 DEF Wait!Installed, Wait!NoAnswer
<1>11. CASE Wait!Scan
  BY <1>11 DEF Wait!Scan, Wait!Send, Wait!NoAnswer
<1>12. CASE Wait!GiveUpScan
  BY <1>12 DEF Wait!GiveUpScan, Wait!Abandon, Wait!Failed, Wait!NoAnswer
<1>13. CASE Wait!Compared
  BY <1>13 DEF Wait!Compared
<1>14. CASE Wait!CleanUp
  BY <1>14 DEF Wait!CleanUp, Wait!Ends, Wait!NoAnswer
<1>15. CASE Wait!CleanedUp
  BY <1>15 DEF Wait!CleanedUp, Wait!Ends, Wait!NoAnswer, Wait!Failed
<1>16. CASE Wait!Cancel
  BY <1>16 DEF Wait!Cancel, Wait!Ends
<1>17. CASE Wait!PageRuns
  BY <1>17, WaitPageRunsGenerations
<1>18. CASE Wait!PageChanges
  BY <1>18, WaitPageChangesGenerations
<1>19. CASE Wait!Tick
  BY <1>19 DEF Wait!Tick
<1> QED BY <1>1, <1>2, <1>3, <1>4, <1>5, <1>6, <1>7, <1>8, <1>9, <1>10, <1>11, <1>12,
           <1>13, <1>14, <1>15, <1>16, <1>17, <1>18, <1>19
           DEF Wait!Next

(* At first the wait has nothing to give back.                             *)
LEMMA WaitStarts == ASSUME Wait!Init PROVE WaitInvariant
<1>1. waitPage \in WaitPages /\ ~waitPage.observed /\ waitPage.valid
      /\ waitPage.generation = 0
  <2>1. PICK value \in BOOLEAN, element \in Wait!Elements :
          waitPage = [value |-> value, element |-> element, generation |-> 0,
                      observed |-> FALSE, valid |-> TRUE]
    BY DEF Wait!Init
  <2> QED BY <2>1 DEF WaitPages
<1>2. wait \in [kind : WaitKinds, condition : Wait!Conditions \cup {"none"}]
      /\ (wait.kind = "locator" => wait.condition \in Wait!Conditions)
  BY DEF Wait!Init, WaitKinds
<1>3. /\ waitPc = "loop" /\ wake = 0 /\ waitClock = 0 /\ waitQueue = <<>>
         /\ waitAnswer = Wait!NoAnswer /\ waitGuard = "none"
      /\ previous = Wait!Never /\ stableSince = Wait!Never /\ result = "none"
      /\ waitChanges = 0 /\ changed = 0 /\ waitHeld = Wait!Satisfied(waitPage)
  BY DEF Wait!Init
<1>4. WaitTypes
  <2>1. Wait!Never \in Nat /\ Wait!NoAnswer \in WaitAnswers /\ <<>> \in Seq(WaitCommands)
    BY WaitAssumption DEF Wait!Never, Wait!NoAnswer, WaitAnswers
  <2> QED BY <1>1, <1>2, <1>3, <2>1 DEF WaitTypes
<1>5. WaitStages BY <1>1, <1>2, <1>3 DEF WaitStages, WaitKinds
<1>6. HeldIsKnown BY <1>3 DEF HeldIsKnown
<1>7. ObserverRemoved BY <1>1, <1>3 DEF ObserverRemoved
<1>8. WaitGenerations BY <1>1, <1>3, WaitAssumption DEF WaitGenerations, Wait!NoAnswer
<1> QED BY <1>4, <1>5, <1>6, <1>7, <1>8 DEF WaitInvariant

(* The invariant says of the condition, of the quiet time and of what is   *)
(* left behind what the run checks.                                        *)
LEMMA WaitIsSound == ASSUME WaitInvariant PROVE Wait!WaitsAreSound
  BY DEF WaitInvariant, WaitTypes, WaitStages, HeldIsKnown, ObserverRemoved,
         ObserverLeaving, WaitGenerations, Wait!WaitsAreSound, Wait!ConditionWasMet,
         Wait!QuietAllTheTime, Wait!NothingStaysBehind

(* A step that changes nothing of it keeps the invariant.                  *)
LEMMA WaitStutters == ASSUME WaitInvariant, UNCHANGED Wait!waitVars PROVE WaitInvariant'
<1>1. UNCHANGED <<wait, waitPage, waitPc, wake, waitClock, waitQueue, waitAnswer,
                waitGuard, previous, stableSince, result, waitChanges, changed, waitHeld>>
  BY DEF Wait!waitVars
<1>2. WaitTypes'
  BY <1>1 DEF WaitInvariant, WaitTypes
<1>3. WaitStages'
  BY <1>1 DEF WaitInvariant, WaitStages
<1>4. HeldIsKnown'
  <2>1. Wait!Satisfied(waitPage)' = Wait!Satisfied(waitPage)
    BY <1>1 DEF Wait!Satisfied
  <2> QED BY <1>1, <2>1 DEF WaitInvariant, HeldIsKnown
<1>5. ObserverRemoved'
  BY <1>1 DEF WaitInvariant, ObserverRemoved, ObserverLeaving
<1>6. WaitGenerations'
  BY <1>1 DEF WaitInvariant, WaitGenerations
<1> QED BY <1>2, <1>3, <1>4, <1>5, <1>6 DEF WaitInvariant

(* No step breaks the invariant.                                           *)
LEMMA WaitNext == WaitInvariant /\ [Wait!Next]_(Wait!waitVars) => WaitInvariant'
BY WaitStutters, WaitTypesKept, WaitStagesKept, WaitHeldKept, WaitRemovedKept,
   WaitGenerationsKept DEF WaitInvariant

(* In every reachable state of a wait of any length an observer, a handle  *)
(* or a guard that is out is one the wait has still to give back, and a    *)
(* generation it relies on has its time (wait.rs).                         *)
THEOREM WaitsTypeCorrect == Wait!Spec => []WaitInvariant
<1> QED BY WaitStarts, WaitNext, PTL DEF Wait!Spec

-----------------------------------------------------------------------------
(***************************************************************************)
(* Waits for the network                                                   *)
(***************************************************************************)
NetItems == [fact : NetWait!Facts, request : NetRequests]
              \cup [fact : {"closed", "detached"}, request : {None}]

NetTypes ==
  /\ NetWait!TypeOK
  /\ netWant.kind \in {"wait", "expect", "idle"}
  /\ netSent \in [NetRequests -> SUBSET NetWait!Facts] /\ netQueue \in Seq(NetItems)
  /\ quietSince \in Nat \cup {None} /\ busyAt \in Nat \cup {None}
  /\ netPc \notin {"new", "timeout"} =>
       (netWant.kind = "idle") = (netPc \in {"look", "looked", "sleeping", "idle"})
  /\ netWant.kind = "idle" => netQueue = <<>>
  /\ netPc = "new" => netQueue = <<>>

\* What was read or is queued was sent, and what was sent was read or is queued.
NetFactsAreSent ==
  /\ \A q \in NetRequests : snapshots[q] \subseteq netSent[q]
  /\ \A i \in 1 .. Len(netQueue) : netQueue[i].fact \in NetWait!Facts =>
       netQueue[i].fact \in netSent[netQueue[i].request]
NetFactsComeIn ==
  \A q \in NetRequests : \A f \in netSent[q] :
    \/ f \in snapshots[q]
    \/ \E i \in 1 .. Len(netQueue) : netQueue[i].fact = f /\ netQueue[i].request = q

\* A request is matched by what was read of it, and none that fits is passed over.
NetMatches ==
  /\ starts = {q \in NetRequests : "started" \in snapshots[q]}
  /\ matched # None \/ netPc = "ok" =>
       /\ matched.request \in NetRequests /\ "started" \in matched.facts
       /\ matched.facts \subseteq netSent[matched.request]
       /\ NetWait!Fits(matched.request, matched.facts)
  /\ netPc = "ok" /\ netWant.kind = "expect" => netAction = "done"
  /\ netPc \in {"new", "enabling", "reading", "timeout"} /\ netWant.kind = "wait" =>
       \A q \in starts : ~NetWait!Fits(q, snapshots[q])
  /\ netPc = "timeout" => netQueue = <<>>
  /\ netPc = "timeout" /\ netWant.kind = "expect" =>
       (netTold = "Completed") = (netAction = "done")

\* The window began after the last request was seen in flight.
NetQuiet ==
  /\ busyAt # None => busyAt <= netClock
  /\ quietSince # None => quietSince <= netClock
  /\ busyAt # None /\ quietSince # None => busyAt <= quietSince
  /\ netPc = "idle" =>
       quietSince # None /\ inflight = {} /\ netClock - quietSince >= Window

NetInvariant == NetTypes /\ NetFactsAreSent /\ NetFactsComeIn /\ NetMatches /\ NetQuiet

(* What is not the head of a queue is in its tail.                         *)
LEMMA HeadOrTail ==
  ASSUME NEW S, NEW q \in Seq(S), q # <<>>, NEW i \in 1 .. Len(q), i # 1
  PROVE  \E j \in 1 .. Len(Tail(q)) : Tail(q)[j] = q[i]
<1>1. i - 1 \in 1 .. Len(Tail(q)) /\ i - 1 + 1 = i
  OBVIOUS
<1>2. Tail(q)[i - 1] = q[i - 1 + 1]
  BY <1>1, Unqueued
<1> QED BY <1>1, <1>2

(* A fact that is read is kept.                                            *)
LEMMA NetReadComesIn ==
  ASSUME NetTypes, NetFactsComeIn, NetWait!Read
  PROVE NetFactsComeIn'
<1>1. netQueue \in Seq(NetItems) /\ netQueue # <<>> /\ netQueue' = Tail(netQueue)
      /\ netSent' = netSent
      /\ snapshots \in [NetRequests -> SUBSET NetWait!Facts]
         /\ netSent \in [NetRequests -> SUBSET NetWait!Facts]
  BY DEF NetTypes, NetWait!TypeOK, NetWait!Read, NetWait!browser
<1>2. Head(netQueue) \in NetItems /\ Head(netQueue) = netQueue[1]
  BY <1>1, Unqueued
<1> SUFFICES ASSUME NEW q \in NetRequests, NEW f \in netSent[q], f \notin snapshots'[q]
             PROVE  \E i \in 1 .. Len(netQueue') : netQueue'[i].fact = f
                    /\ netQueue'[i].request = q
  BY <1>1 DEF NetFactsComeIn
<1>3. f \in NetWait!Facts BY <1>1
<1>4. \/ Head(netQueue).fact \notin NetWait!Facts /\ snapshots' = snapshots
      \/ /\ Head(netQueue).fact \in NetWait!Facts
         /\ snapshots' = [snapshots EXCEPT
                          ![Head(netQueue).request] = @ \cup {Head(netQueue).fact}]
  BY DEF NetWait!Read, NetWait!Facts
<1>5. f \notin snapshots[q]
  BY <1>1, <1>4
<1>6. PICK i \in 1 .. Len(netQueue) : netQueue[i].fact = f /\ netQueue[i].request = q
  BY <1>5 DEF NetFactsComeIn
<1>7. i # 1
  BY <1>1, <1>2, <1>3, <1>4, <1>6
<1>8. PICK j \in 1 .. Len(Tail(netQueue)) : Tail(netQueue)[j] = netQueue[i]
  BY <1>1, <1>7, HeadOrTail
<1> QED BY <1>1, <1>6, <1>8

(* The end of a route is no fact of a request.                             *)
LEMMA NetCloseSends ==
  ASSUME NetTypes, NetFactsAreSent, NEW reason \in {"closed", "detached"},
         NetWait!RouteCloses(reason)
  PROVE  NetFactsAreSent'
<1>1. snapshots' = snapshots /\ netSent' = netSent /\ netQueue = <<>>
      /\ netQueue' = Append(netQueue, [fact |-> reason, request |-> None])
  BY DEF NetWait!RouteCloses, NetWait!Send, NetWait!Listens, NetWait!browser
<1>2. \A i \in 1 .. Len(netQueue') : netQueue'[i] = [fact |-> reason, request |-> None]
  BY <1>1
<1>3. reason \notin NetWait!Facts BY DEF NetWait!Facts
<1> QED BY <1>1, <1>2, <1>3 DEF NetFactsAreSent

(* Reading a fact matches a request that fits, and no other.               *)
LEMMA NetReadMatches ==
  ASSUME NetTypes, NetFactsAreSent, NetMatches, NetWait!Read
  PROVE NetMatches'
<1>1. /\ netQueue \in Seq(NetItems) /\ netQueue # <<>> /\ netSent' = netSent
         /\ netWant' = netWant /\ header' = header
      /\ snapshots \in [NetRequests -> SUBSET NetWait!Facts]
         /\ netSent \in [NetRequests -> SUBSET NetWait!Facts]
      /\ netPc = "reading" /\ netAction' = netAction
  BY DEF NetTypes, NetWait!TypeOK, NetWait!Read, NetWait!browser
<1>2. Head(netQueue) \in NetItems
      /\ (Head(netQueue).fact \in NetWait!Facts =>
            Head(netQueue).fact \in netSent[Head(netQueue).request])
  BY <1>1, Unqueued DEF NetFactsAreSent
<1>3. CASE Head(netQueue).fact \notin NetWait!Facts
  <2>1. netPc' \in {"reading", "closed"} /\ UNCHANGED <<starts, snapshots, matched>>
    BY <1>1, <1>3 DEF NetWait!Read
  <2> QED BY <1>1, <2>1 DEF NetMatches, NetWait!Fits, NetWait!HeaderFits
<1>4. CASE Head(netQueue).fact \in NetWait!Facts
  <2> DEFINE q == Head(netQueue).request
             fact == Head(netQueue).fact
  <2>1. q \in NetRequests
    BY <1>2, <1>4 DEF NetItems, NetWait!Facts
  <2>2. /\ starts' = IF fact = "started" THEN starts \cup {q} ELSE starts
        /\ snapshots' = [snapshots EXCEPT ![q] = @ \cup {fact}]
        /\ \/ /\ NetWait!FitsNow(q, snapshots'[q], starts')
              /\ matched' = [request |-> q, facts |-> snapshots'[q]]
              /\ netPc' = IF netWant.kind = "wait" THEN "ok" ELSE netPc
           \/ ~NetWait!FitsNow(q, snapshots'[q], starts') /\ UNCHANGED <<matched, netPc>>
    BY <1>4 DEF NetWait!Read, NetWait!Facts
  <2>3. starts' = {p \in NetRequests : "started" \in snapshots'[p]}
    BY <1>1, <2>1, <2>2 DEF NetMatches
  <2>4. snapshots'[q] = snapshots[q] \cup {fact} /\ snapshots'[q] \subseteq netSent[q]
        /\ \A p \in NetRequests \ {q} : snapshots'[p] = snapshots[p]
    BY <1>1, <1>2, <1>4, <2>1, <2>2 DEF NetFactsAreSent
  <2>5. \A p, facts : NetWait!Fits(p, facts)' = NetWait!Fits(p, facts)
    BY <1>1 DEF NetWait!Fits, NetWait!HeaderFits
  <2>6. CASE NetWait!FitsNow(q, snapshots'[q], starts')
    <3>1. matched' = [request |-> q, facts |-> snapshots'[q]]
          /\ "started" \in snapshots'[q] /\ NetWait!Fits(q, snapshots'[q])
      BY <2>2, <2>3, <2>6 DEF NetWait!FitsNow
    <3>2. netPc' \in {"ok", "reading"} /\ (netWant.kind = "wait" => netPc' = "ok")
          /\ (netPc' = "ok" => netWant.kind = "wait")
      BY <1>1, <2>2, <2>6
    <3> QED BY <1>1, <2>1, <2>3, <2>4, <2>5, <3>1, <3>2 DEF NetMatches
  <2>7. CASE ~NetWait!FitsNow(q, snapshots'[q], starts')
    <3>1. UNCHANGED <<matched, netPc>> BY <2>2, <2>7
    <3>2. ASSUME netWant.kind = "wait", NEW p \in starts'
          PROVE  ~NetWait!Fits(p, snapshots'[p])
      BY <1>1, <2>3, <2>4, <2>7, <3>2 DEF NetWait!FitsNow, NetMatches
    <3> QED BY <1>1, <2>1, <2>3, <2>4, <2>5, <3>1, <3>2 DEF NetMatches
  <2> QED BY <2>6, <2>7
<1> QED BY <1>3, <1>4

(* Every step keeps the types.                                             *)
LEMMA NetTypesKept == ASSUME NetTypes, NetWait!Next PROVE NetTypes'
<1> USE NetAssumption DEF NetTypes, NetWait!TypeOK, NetWait!Facts, NetItems
<1>1. CASE NetWait!Subscribe
  BY <1>1 DEF NetWait!Subscribe, NetWait!browser, NetWait!reading, NetWait!idling
<1>2. CASE NetWait!Enable
  BY <1>2 DEF NetWait!Enable, NetWait!browser, NetWait!reading, NetWait!idling
<1>3. CASE NetWait!Read
  BY <1>3
     DEF NetWait!Read, NetWait!browser, NetWait!reading, NetWait!idling, NetWait!FitsNow
<1>4. CASE NetWait!ActionEnds
  BY <1>4 DEF NetWait!ActionEnds, NetWait!browser, NetWait!reading, NetWait!idling
<1>5. CASE NetWait!Return
  BY <1>5 DEF NetWait!Return, NetWait!browser, NetWait!reading, NetWait!idling
<1>6. CASE NetWait!Expire
  BY <1>6 DEF NetWait!Expire, NetWait!browser, NetWait!reading, NetWait!idling
<1>7. CASE NetWait!Enter
  BY <1>7 DEF NetWait!Enter, NetWait!browser, NetWait!reading, NetWait!idling
<1>8. CASE NetWait!Look
  BY <1>8
     DEF NetWait!Look, NetWait!browser, NetWait!reading, NetWait!idling, NetWait!LookAt
<1>9. CASE NetWait!Sleep
  BY <1>9 DEF NetWait!Sleep, NetWait!browser, NetWait!reading, NetWait!idling
<1>10. CASE NetWait!Wake
  BY <1>10 DEF NetWait!Wake, NetWait!browser, NetWait!reading, NetWait!idling
<1>11. ASSUME NEW q \in NetRequests, NEW fact \in NetWait!Facts, NetWait!Publish(q, fact)
       PROVE  NetTypes'
  BY <1>11
     DEF NetWait!Publish, NetWait!browser, NetWait!reading, NetWait!idling, NetWait!Send,
         NetWait!Listens
<1>12. ASSUME NEW reason \in {"closed", "detached"}, NetWait!RouteCloses(reason)
       PROVE  NetTypes'
  BY <1>12
     DEF NetWait!RouteCloses, NetWait!browser, NetWait!reading, NetWait!idling,
         NetWait!Send, NetWait!Listens
<1>13. CASE NetWait!Tick
  BY <1>13 DEF NetWait!Tick, NetWait!browser, NetWait!reading, NetWait!idling
<1> QED BY <1>1, <1>2, <1>3, <1>4, <1>5, <1>6, <1>7, <1>8, <1>9, <1>10, <1>11, <1>12,
           <1>13
           DEF NetWait!Next

(* Every step keeps to what was sent.                                      *)
LEMMA NetSentKept ==
  ASSUME NetTypes, NetFactsAreSent, NetWait!Next
  PROVE NetFactsAreSent'
<1> USE NetAssumption DEF NetFactsAreSent, NetTypes, NetWait!TypeOK
<1>1. CASE NetWait!Subscribe
  BY <1>1 DEF NetWait!Subscribe, NetWait!browser, NetWait!reading, NetWait!idling
<1>2. CASE NetWait!Enable
  BY <1>2 DEF NetWait!Enable, NetWait!browser, NetWait!reading, NetWait!idling
<1>3. CASE NetWait!Read
  BY <1>3
     DEF NetWait!Read, NetWait!browser, NetWait!reading, NetWait!idling, NetWait!FitsNow
<1>4. CASE NetWait!ActionEnds
  BY <1>4 DEF NetWait!ActionEnds, NetWait!browser, NetWait!reading, NetWait!idling
<1>5. CASE NetWait!Return
  BY <1>5 DEF NetWait!Return, NetWait!browser, NetWait!reading, NetWait!idling
<1>6. CASE NetWait!Expire
  BY <1>6 DEF NetWait!Expire, NetWait!browser, NetWait!reading, NetWait!idling
<1>7. CASE NetWait!Enter
  BY <1>7 DEF NetWait!Enter, NetWait!browser, NetWait!reading, NetWait!idling
<1>8. CASE NetWait!Look
  BY <1>8
     DEF NetWait!Look, NetWait!browser, NetWait!reading, NetWait!idling, NetWait!LookAt
<1>9. CASE NetWait!Sleep
  BY <1>9 DEF NetWait!Sleep, NetWait!browser, NetWait!reading, NetWait!idling
<1>10. CASE NetWait!Wake
  BY <1>10 DEF NetWait!Wake, NetWait!browser, NetWait!reading, NetWait!idling
<1>11. ASSUME NEW q \in NetRequests, NEW fact \in NetWait!Facts, NetWait!Publish(q, fact)
       PROVE  NetFactsAreSent'
  BY <1>11
     DEF NetWait!Publish, NetWait!browser, NetWait!reading, NetWait!idling, NetWait!Send,
         NetWait!Listens
<1>12. ASSUME NEW reason \in {"closed", "detached"}, NetWait!RouteCloses(reason)
       PROVE  NetFactsAreSent'
  BY <1>12, NetCloseSends
<1>13. CASE NetWait!Tick
  BY <1>13 DEF NetWait!Tick, NetWait!browser, NetWait!reading, NetWait!idling
<1> QED BY <1>1, <1>2, <1>3, <1>4, <1>5, <1>6, <1>7, <1>8, <1>9, <1>10, <1>11, <1>12,
           <1>13
           DEF NetWait!Next

(* No step loses a fact that was sent.                                     *)
LEMMA NetComeInKept ==
  ASSUME NetTypes, NetFactsComeIn, NetWait!Next
  PROVE NetFactsComeIn'
<1> USE NetAssumption DEF NetFactsComeIn, NetTypes, NetWait!TypeOK
<1>1. CASE NetWait!Subscribe
  BY <1>1 DEF NetWait!Subscribe, NetWait!browser, NetWait!reading, NetWait!idling
<1>2. CASE NetWait!Enable
  BY <1>2 DEF NetWait!Enable, NetWait!browser, NetWait!reading, NetWait!idling
<1>3. CASE NetWait!Read
  BY <1>3, NetReadComesIn
<1>4. CASE NetWait!ActionEnds
  BY <1>4 DEF NetWait!ActionEnds, NetWait!browser, NetWait!reading, NetWait!idling
<1>5. CASE NetWait!Return
  BY <1>5 DEF NetWait!Return, NetWait!browser, NetWait!reading, NetWait!idling
<1>6. CASE NetWait!Expire
  BY <1>6 DEF NetWait!Expire, NetWait!browser, NetWait!reading, NetWait!idling
<1>7. CASE NetWait!Enter
  BY <1>7 DEF NetWait!Enter, NetWait!browser, NetWait!reading, NetWait!idling
<1>8. CASE NetWait!Look
  BY <1>8
     DEF NetWait!Look, NetWait!browser, NetWait!reading, NetWait!idling, NetWait!LookAt
<1>9. CASE NetWait!Sleep
  BY <1>9 DEF NetWait!Sleep, NetWait!browser, NetWait!reading, NetWait!idling
<1>10. CASE NetWait!Wake
  BY <1>10 DEF NetWait!Wake, NetWait!browser, NetWait!reading, NetWait!idling
<1>11. ASSUME NEW q \in NetRequests, NEW fact \in NetWait!Facts, NetWait!Publish(q, fact)
       PROVE  NetFactsComeIn'
  BY <1>11
     DEF NetWait!Publish, NetWait!browser, NetWait!reading, NetWait!idling, NetWait!Send,
         NetWait!Listens
<1>12. ASSUME NEW reason \in {"closed", "detached"}, NetWait!RouteCloses(reason)
       PROVE  NetFactsComeIn'
  BY <1>12
     DEF NetWait!RouteCloses, NetWait!browser, NetWait!reading, NetWait!idling,
         NetWait!Send, NetWait!Listens
<1>13. CASE NetWait!Tick
  BY <1>13 DEF NetWait!Tick, NetWait!browser, NetWait!reading, NetWait!idling
<1> QED BY <1>1, <1>2, <1>3, <1>4, <1>5, <1>6, <1>7, <1>8, <1>9, <1>10, <1>11, <1>12,
           <1>13
           DEF NetWait!Next

(* Every step keeps the match to what fits.                                *)
LEMMA NetMatchesKept ==
  ASSUME NetTypes, NetFactsAreSent, NetMatches, NetWait!Next
  PROVE NetMatches'
<1> USE NetAssumption DEF NetMatches, NetWait!Fits, NetWait!HeaderFits, NetTypes,
        NetWait!TypeOK
<1>1. CASE NetWait!Subscribe
  BY <1>1 DEF NetWait!Subscribe, NetWait!browser, NetWait!reading, NetWait!idling
<1>2. CASE NetWait!Enable
  BY <1>2 DEF NetWait!Enable, NetWait!browser, NetWait!reading, NetWait!idling
<1>3. CASE NetWait!Read
  BY <1>3, NetReadMatches
<1>4. CASE NetWait!ActionEnds
  BY <1>4 DEF NetWait!ActionEnds, NetWait!browser, NetWait!reading, NetWait!idling
<1>5. CASE NetWait!Return
  BY <1>5 DEF NetWait!Return, NetWait!browser, NetWait!reading, NetWait!idling
<1>6. CASE NetWait!Expire
  BY <1>6 DEF NetWait!Expire, NetWait!browser, NetWait!reading, NetWait!idling
<1>7. CASE NetWait!Enter
  BY <1>7 DEF NetWait!Enter, NetWait!browser, NetWait!reading, NetWait!idling
<1>8. CASE NetWait!Look
  BY <1>8
     DEF NetWait!Look, NetWait!browser, NetWait!reading, NetWait!idling, NetWait!LookAt
<1>9. CASE NetWait!Sleep
  BY <1>9 DEF NetWait!Sleep, NetWait!browser, NetWait!reading, NetWait!idling
<1>10. CASE NetWait!Wake
  BY <1>10 DEF NetWait!Wake, NetWait!browser, NetWait!reading, NetWait!idling
<1>11. ASSUME NEW q \in NetRequests, NEW fact \in NetWait!Facts, NetWait!Publish(q, fact)
       PROVE  NetMatches'
  BY <1>11
     DEF NetWait!Publish, NetWait!browser, NetWait!reading, NetWait!idling, NetWait!Send,
         NetWait!Listens
<1>12. ASSUME NEW reason \in {"closed", "detached"}, NetWait!RouteCloses(reason)
       PROVE  NetMatches'
  BY <1>12
     DEF NetWait!RouteCloses, NetWait!browser, NetWait!reading, NetWait!idling,
         NetWait!Send, NetWait!Listens
<1>13. CASE NetWait!Tick
  BY <1>13 DEF NetWait!Tick, NetWait!browser, NetWait!reading, NetWait!idling
<1> QED BY <1>1, <1>2, <1>3, <1>4, <1>5, <1>6, <1>7, <1>8, <1>9, <1>10, <1>11, <1>12,
           <1>13
           DEF NetWait!Next

(* Every step keeps the quiet window to its times.                         *)
LEMMA NetQuietKept == ASSUME NetTypes, NetQuiet, NetWait!Next PROVE NetQuiet'
<1> USE NetAssumption DEF NetQuiet, NetTypes, NetWait!TypeOK
<1>1. CASE NetWait!Subscribe
  BY <1>1 DEF NetWait!Subscribe, NetWait!browser, NetWait!reading, NetWait!idling
<1>2. CASE NetWait!Enable
  BY <1>2 DEF NetWait!Enable, NetWait!browser, NetWait!reading, NetWait!idling
<1>3. CASE NetWait!Read
  BY <1>3
     DEF NetWait!Read, NetWait!browser, NetWait!reading, NetWait!idling, NetWait!FitsNow
<1>4. CASE NetWait!ActionEnds
  BY <1>4 DEF NetWait!ActionEnds, NetWait!browser, NetWait!reading, NetWait!idling
<1>5. CASE NetWait!Return
  BY <1>5 DEF NetWait!Return, NetWait!browser, NetWait!reading, NetWait!idling
<1>6. CASE NetWait!Expire
  BY <1>6 DEF NetWait!Expire, NetWait!browser, NetWait!reading, NetWait!idling
<1>7. CASE NetWait!Enter
  BY <1>7 DEF NetWait!Enter, NetWait!browser, NetWait!reading, NetWait!idling
<1>8. CASE NetWait!Look
  BY <1>8
     DEF NetWait!Look, NetWait!browser, NetWait!reading, NetWait!idling, NetWait!LookAt
<1>9. CASE NetWait!Sleep
  BY <1>9 DEF NetWait!Sleep, NetWait!browser, NetWait!reading, NetWait!idling
<1>10. CASE NetWait!Wake
  BY <1>10 DEF NetWait!Wake, NetWait!browser, NetWait!reading, NetWait!idling
<1>11. ASSUME NEW q \in NetRequests, NEW fact \in NetWait!Facts, NetWait!Publish(q, fact)
       PROVE  NetQuiet'
  BY <1>11
     DEF NetWait!Publish, NetWait!browser, NetWait!reading, NetWait!idling, NetWait!Send,
         NetWait!Listens
<1>12. ASSUME NEW reason \in {"closed", "detached"}, NetWait!RouteCloses(reason)
       PROVE  NetQuiet'
  BY <1>12
     DEF NetWait!RouteCloses, NetWait!browser, NetWait!reading, NetWait!idling,
         NetWait!Send, NetWait!Listens
<1>13. CASE NetWait!Tick
  BY <1>13 DEF NetWait!Tick, NetWait!browser, NetWait!reading, NetWait!idling
<1> QED BY <1>1, <1>2, <1>3, <1>4, <1>5, <1>6, <1>7, <1>8, <1>9, <1>10, <1>11, <1>12,
           <1>13
           DEF NetWait!Next

(* At first nothing was published and nothing is queued.                   *)
LEMMA NetStarts == ASSUME NetWait!Init PROVE NetInvariant
<1>1. NetTypes
  BY NetAssumption DEF NetWait!Init, NetTypes, NetWait!TypeOK, NetWait!Facts, NetItems
<1>2. NetFactsAreSent /\ NetFactsComeIn /\ NetMatches
  BY DEF NetWait!Init, NetFactsAreSent, NetFactsComeIn, NetMatches
<1>3. NetQuiet BY DEF NetWait!Init, NetQuiet
<1> QED BY <1>1, <1>2, <1>3 DEF NetInvariant

(* The invariant says of the answers, of the timeout and of the idle       *)
(* window what the run checks.                                             *)
LEMMA NetIsSound == ASSUME NetInvariant PROVE NetWait!NetworkWaitsAreSound
<1>1. NetWait!TypeOK BY DEF NetInvariant, NetTypes
<1>2. NetWait!AnswersAreOwn /\ NetWait!TimeoutIsHonest
  BY DEF NetInvariant, NetMatches, NetWait!AnswersAreOwn, NetWait!TimeoutIsHonest
<1>3. NetWait!NothingIsMissed
  <2> SUFFICES ASSUME netPc = "timeout", netWant.kind = "wait", NEW q \in NetRequests,
                  "started" \in netSent[q]
               PROVE  ~NetWait!Fits(q, netSent[q])
    BY DEF NetWait!NothingIsMissed
  <2>1. netQueue = <<>> /\ netSent[q] \subseteq NetWait!Facts
        /\ snapshots[q] \subseteq NetWait!Facts
    BY DEF NetInvariant, NetTypes, NetWait!TypeOK, NetMatches
  <2>2. \A f \in netSent[q] : f \in snapshots[q]
    BY <2>1 DEF NetInvariant, NetFactsComeIn
  <2>3. netSent[q] = snapshots[q] BY <2>1, <2>2 DEF NetInvariant, NetFactsAreSent
  <2> QED BY <2>3 DEF NetInvariant, NetMatches
<1>4. NetWait!RawHeaderDecides
  BY NetAssumption
     DEF NetInvariant, NetMatches, NetWait!RawHeaderDecides, NetWait!Fits,
         NetWait!HeaderFits
<1>5. NetWait!IdleWindowIsUnbroken
  BY DEF NetInvariant, NetQuiet, NetWait!IdleWindowIsUnbroken
<1> QED BY <1>1, <1>2, <1>3, <1>4, <1>5 DEF NetWait!NetworkWaitsAreSound

(* A step that changes nothing of it keeps the invariant.                  *)
LEMMA NetStutters == ASSUME NetInvariant, UNCHANGED NetWait!waitVars PROVE NetInvariant'
<1>1. UNCHANGED <<netWant, header, netPublished, inflight, netPc, netQueue, starts, snapshots,
                matched, netAction, netTold, netClock, due, quietSince, notified, busyAt, quietFor,
                netSent>>
  BY DEF NetWait!waitVars, NetWait!browser, NetWait!reading, NetWait!idling
<1>2. NetTypes'
  BY <1>1 DEF NetInvariant, NetTypes, NetWait!TypeOK
<1>3. NetFactsAreSent'
  BY <1>1 DEF NetInvariant, NetFactsAreSent
<1>4. NetFactsComeIn'
  BY <1>1 DEF NetInvariant, NetFactsComeIn
<1>5. NetMatches'
  <2>1. \A q, facts : NetWait!Fits(q, facts)' = NetWait!Fits(q, facts)
    BY <1>1 DEF NetWait!Fits, NetWait!HeaderFits
  <2> QED BY <1>1, <2>1 DEF NetInvariant, NetMatches
<1>6. NetQuiet'
  BY <1>1 DEF NetInvariant, NetQuiet
<1> QED BY <1>2, <1>3, <1>4, <1>5, <1>6 DEF NetInvariant

(* No step breaks the invariant.                                           *)
LEMMA NetNext == NetInvariant /\ [NetWait!Next]_(NetWait!waitVars) => NetInvariant'
BY NetStutters, NetTypesKept, NetSentKept, NetComeInKept, NetMatchesKept,
   NetQuietKept DEF NetInvariant

(* In every reachable state of any requests a fact that was published to   *)
(* the wait has been read or is in its queue, and a request is matched by  *)
(* what was read of it alone (network.rs).                                 *)
THEOREM NetworkWaitsTypeCorrect == NetWait!Spec => []NetInvariant
<1> QED BY NetStarts, NetNext, PTL DEF NetWait!Spec

(***************************************************************************)
(* The configuration of routes (PageRoutes)                                *)
(***************************************************************************)

\* The members of a sequence.
Of(q) == {q[k] : k \in DOMAIN q}

ConfigSteps == {"DeviceMetrics", "Locale", "Timezone", "UserAgent", "Geolocation", "Network",
                "ExtraHttpHeaders", "Security", "IgnoreCertificateErrors"}
ConfigStages == {"none", "applying", "guarded", "retained", "cleaning", "closed", "failed", "absent"}

(* Each session's route, the steps marked, to do and in force, and the close.*)
ConfigTypes ==
  /\ route \in [Routes!Sessions -> ConfigStages]
  /\ configApplied \in [Routes!Sessions -> Seq(ConfigSteps)]
  /\ configTodo \in [Routes!Sessions -> Seq(ConfigSteps)]
  /\ override \in [Routes!Sessions -> SUBSET ConfigSteps]
  /\ undone \in [Routes!Sessions -> SUBSET ConfigSteps]
  /\ live \subseteq Routes!Sessions
  /\ configClosing \in {"open", "closing", "destroyed", "closed"}

(* While steps are applied: the next one is yet to be marked and those that*)
(* are marked are in force, or it is marked and the others are.            *)
Applying(s) ==
  \/ /\ configApplied[s] \o configTodo[s] = Routes!StepsOf(s)
     /\ s \in live => override[s] = Of(configApplied[s])
  \/ /\ configTodo[s] # <<>> /\ configApplied[s] \o Tail(configTodo[s]) = Routes!StepsOf(s)
     /\ s \in live => override[s] \cup {Head(configTodo[s])} = Of(configApplied[s])

(* What is in force at each stage: nothing that was not marked, all that is*)
(* wanted once it is applied, and while it is undone what is left to undo  *)
(* or could not be.                                                        *)
ConfigProgress(s) ==
  /\ override[s] \subseteq Of(configApplied[s])
  /\ route[s] = "none" => configApplied[s] = <<>>
  /\ route[s] \in {"none", "absent", "closed"} => override[s] = {}
  /\ route[s] = "applying" => Applying(s)
  /\ route[s] \in {"guarded", "retained"} /\ s \in live => override[s] = Of(Routes!StepsOf(s))
  /\ route[s] = "cleaning" => override[s] \subseteq Of(configTodo[s]) \cup undone[s]
  /\ route[s] = "failed" => override[s] \subseteq undone[s]

(* What the close of the page has behind it.                               *)
ConfigCloses(s) ==
  /\ configClosing # "open" => route[s] \notin {"applying", "guarded"}
  /\ configClosing \in {"closing", "closed"} => route[s] # "retained"
  /\ configClosing = "closed" => route[s] # "cleaning"

ConfigInvariant == ConfigTypes /\ \A s \in Routes!Sessions : ConfigProgress(s) /\ ConfigCloses(s)

(* What is applied to a route is a sequence of steps.                    *)
LEMMA StepsAreSteps == ASSUME NEW s PROVE Routes!StepsOf(s) \in Seq(ConfigSteps)
<1> DEFINE P(step) == IF Routes!Wanted(step, s) THEN <<step>> ELSE <<>>
<1>1. \A step \in ConfigSteps : P(step) \in Seq(ConfigSteps)
  OBVIOUS
<1> HIDE DEF P
<1>2. P("DeviceMetrics") \o P("Locale") \o P("Timezone") \o P("UserAgent") \o P("Geolocation")
      \in Seq(ConfigSteps)
  BY <1>1 DEF ConfigSteps
<1>3. P("DeviceMetrics") \o P("Locale") \o P("Timezone") \o P("UserAgent") \o P("Geolocation")
       \o P("Network") \o P("ExtraHttpHeaders") \o P("Security") \o P("IgnoreCertificateErrors")
      \in Seq(ConfigSteps)
  BY <1>1, <1>2 DEF ConfigSteps
<1> QED BY <1>3 DEF P, Routes!StepsOf

(* It depends on the options and the session only.                       *)
LEMMA StepsStay == ASSUME UNCHANGED options, NEW s PROVE Routes!StepsOf(s)' = Routes!StepsOf(s)
BY DEF Routes!StepsOf, Routes!Wanted

(* A reversed sequence has the same members.                             *)
LEMMA OfUndo == ASSUME NEW S, NEW q \in Seq(S)
  PROVE  Routes!Reverse(q) \in Seq(S) /\ Of(Routes!Reverse(q)) = Of(q)
<1>1. \A k \in 1 .. Len(q) : (Len(q) - k) + 1 \in 1 .. Len(q) /\ Len(q) - ((Len(q) - k) + 1) + 1 = k
  OBVIOUS
<1>2. Routes!Reverse(q) = [k \in 1 .. Len(q) |-> q[(Len(q) - k) + 1]]
  BY DEF Routes!Reverse
<1>3. \A k \in 1 .. Len(q) : q[(Len(q) - k) + 1] \in S
  BY <1>1
<1>4. Routes!Reverse(q) \in Seq(S)
  BY <1>2, <1>3, IsASeq
<1>5. DOMAIN Routes!Reverse(q) = 1 .. Len(q) /\ DOMAIN q = 1 .. Len(q)
  BY <1>2
<1>6. \A k \in 1 .. Len(q) : Routes!Reverse(q)[k] = q[(Len(q) - k) + 1]
  BY <1>2
<1>7. \A k \in 1 .. Len(q) : Routes!Reverse(q)[(Len(q) - k) + 1] = q[k]
  BY <1>1, <1>6
<1> QED BY SMTT(60), <1>1, <1>4, <1>5, <1>6, <1>7 DEF Of

(* So has an appended one, and the new member.                           *)
LEMMA OfMore == ASSUME NEW S, NEW q \in Seq(S), NEW x \in S
  PROVE  Append(q, x) \in Seq(S) /\ Of(Append(q, x)) = Of(q) \cup {x}
BY AppendProperties DEF Of

(* The head of a sequence and what is behind it.                         *)
LEMMA OfLess == ASSUME NEW S, NEW q \in Seq(S), q # <<>>
  PROVE  /\ Head(q) \in S /\ Tail(q) \in Seq(S)
         /\ Of(q) = {Head(q)} \cup Of(Tail(q))
<1>1. /\ Head(q) = q[1] /\ Tail(q) \in Seq(S) /\ Len(q) \in Nat \ {0} /\ Len(Tail(q)) = Len(q) - 1
      /\ \A k \in 1 .. Len(Tail(q)) : Tail(q)[k] = q[k + 1]
  OBVIOUS
<1>2. DOMAIN q = 1 .. Len(q) /\ DOMAIN Tail(q) = 1 .. Len(Tail(q))
  BY <1>1
<1>3. \A k \in 1 .. Len(q) : k = 1 \/ (k - 1 \in 1 .. Len(Tail(q)) /\ Tail(q)[k - 1] = q[k])
  BY <1>1
<1>4. \A k \in 1 .. Len(Tail(q)) : k + 1 \in 1 .. Len(q)
  BY <1>1
<1>5. Of(q) \subseteq {Head(q)} \cup Of(Tail(q))
  <2> SUFFICES ASSUME NEW k \in 1 .. Len(q) PROVE q[k] \in {Head(q)} \cup Of(Tail(q))
    BY <1>2 DEF Of
  <2>1. CASE k = 1
    BY <1>1, <2>1
  <2>2. CASE k - 1 \in DOMAIN Tail(q) /\ Tail(q)[k - 1] = q[k]
    BY <2>2 DEF Of
  <2> QED BY <1>2, <1>3, <2>1, <2>2
<1>6. {Head(q)} \cup Of(Tail(q)) \subseteq Of(q)
  BY <1>1, <1>2, <1>4 DEF Of
<1> QED BY <1>1, <1>5, <1>6

(* At first no route is there and nothing is marked.                     *)
LEMMA ConfigStarts == Routes!RouteInit => ConfigInvariant
BY DEF Routes!RouteInit, ConfigInvariant, ConfigTypes, ConfigStages, ConfigProgress, ConfigCloses, Of

(* A step of one session leaves the others as they are.                    *)
Alone(s) == \A x \in Routes!Sessions \ {s} :
  /\ route'[x] = route[x] /\ configApplied'[x] = configApplied[x] /\ configTodo'[x] = configTodo[x]
  /\ override'[x] = override[x] /\ undone'[x] = undone[x] /\ (x \in live' <=> x \in live)

(* A step of one session keeps what it keeps of that session.            *)
LEMMA ConfigOne ==
  ASSUME ConfigInvariant, NEW s \in Routes!Sessions, UNCHANGED <<options, configClosing>>, Alone(s),
         ConfigTypes', ConfigProgress(s)', ConfigCloses(s)'
  PROVE  ConfigInvariant'
<1> SUFFICES ASSUME NEW x \in Routes!Sessions, x # s PROVE ConfigProgress(x)' /\ ConfigCloses(x)'
  BY DEF ConfigInvariant, Routes!Sessions
<1>1. /\ route'[x] = route[x] /\ configApplied'[x] = configApplied[x] /\ configTodo'[x] = configTodo[x]
      /\ override'[x] = override[x] /\ undone'[x] = undone[x] /\ (x \in live' <=> x \in live)
  BY DEF Alone
<1>2. Routes!StepsOf(x)' = Routes!StepsOf(x)
  BY StepsStay
<1>3. ConfigProgress(x) /\ ConfigCloses(x)
  BY DEF ConfigInvariant
<1>4. Applying(x)' <=> Applying(x)
  <2>1. Of(configApplied[x])' = Of(configApplied[x])
    BY <1>1 DEF Of
  <2> QED BY <1>1, <1>2, <2>1 DEF Applying
<1>5. ConfigProgress(x)' <=> ConfigProgress(x)
  BY <1>1, <1>2, <1>4 DEF ConfigProgress, Of
<1> QED BY <1>1, <1>3, <1>5 DEF ConfigCloses

(* A session gets its route, with its steps to do.                       *)
LEMMA ConfigRegister ==
  ASSUME ConfigInvariant, NEW s \in Routes!Sessions, Routes!Register(s) PROVE ConfigInvariant'
<1>1. ConfigTypes /\ ConfigProgress(s) /\ ConfigCloses(s) /\ Routes!StepsOf(s) \in Seq(ConfigSteps)
  BY StepsAreSteps DEF ConfigInvariant
<1>2. ConfigTypes'
  BY <1>1 DEF Routes!Register, ConfigTypes, ConfigStages
<1>3. /\ configApplied'[s] = <<>> /\ configTodo'[s] = Routes!StepsOf(s) /\ override'[s] = {}
      /\ route'[s] \in {"applying", "absent"} /\ Alone(s) /\ configClosing = "open"
      /\ UNCHANGED <<options, configClosing, live>>
  BY <1>1 DEF Routes!Register, ConfigTypes, ConfigProgress, Alone
<1>4. <<>> \o Routes!StepsOf(s) = Routes!StepsOf(s) /\ Of(<<>>) = {}
  BY <1>1 DEF Of
<1>5. ConfigProgress(s)' /\ ConfigCloses(s)'
  BY <1>3, <1>4, StepsStay DEF ConfigProgress, ConfigCloses, Applying, Of
<1> QED BY <1>2, <1>3, <1>5, ConfigOne

(* What is in force while steps are applied is marked.                   *)
LEMMA RestOfApplied ==
  ASSUME NEW q \in Seq(ConfigSteps), NEW t \in Seq(ConfigSteps), t # <<>>
  PROVE  Append(q, Head(t)) \o Tail(t) = q \o t
<1>1. Head(t) \in ConfigSteps /\ Tail(t) \in Seq(ConfigSteps) /\ <<Head(t)>> \in Seq(ConfigSteps)
  BY OfLess
<1>2. Append(q, Head(t)) = q \o <<Head(t)>>
  BY <1>1, AppendIsConcat
<1>3. <<Head(t)>> \o Tail(t) = t
  BY <1>1
<1>4. (q \o <<Head(t)>>) \o Tail(t) = q \o (<<Head(t)>> \o Tail(t))
  BY <1>1, ConcatAssociative
<1> QED BY <1>2, <1>3, <1>4

(* A step is marked, then sent.                                          *)
LEMMA ConfigApply ==
  ASSUME ConfigInvariant, NEW s \in Routes!Sessions, Routes!Apply(s) PROVE ConfigInvariant'
<1> DEFINE q == configApplied[s] t == configTodo[s]
<1>1. /\ ConfigTypes /\ ConfigProgress(s) /\ ConfigCloses(s) /\ q \in Seq(ConfigSteps)
      /\ t \in Seq(ConfigSteps) /\ t # <<>> /\ route[s] = "applying" /\ q \o t = Routes!StepsOf(s)
  BY DEF ConfigInvariant, ConfigTypes, Routes!Apply
<1>2. /\ configApplied' = [configApplied EXCEPT ![s] = Append(q, Head(t))] /\ Alone(s)
      /\ UNCHANGED <<options, route, configTodo, override, undone, live, configClosing>>
  BY DEF Routes!Apply, Alone
<1> HIDE DEF q, t
<1>3. Append(q, Head(t)) \in Seq(ConfigSteps) /\ Of(Append(q, Head(t))) = Of(q) \cup {Head(t)}
  BY <1>1, OfLess, OfMore
<1>4. Append(q, Head(t)) \o Tail(t) = q \o t
  BY <1>1, RestOfApplied
<1>5. q \o Tail(t) # Routes!StepsOf(s)
  <2>1. Len(q \o Tail(t)) # Len(q \o t)
    BY <1>1
  <2> QED BY <1>1, <2>1
<1>6. s \in live => override[s] = Of(q)
  BY <1>1, <1>5 DEF ConfigProgress, Applying, q, t
<1>7. ConfigTypes' /\ configApplied'[s] = Append(q, Head(t))
  BY <1>1, <1>2, <1>3 DEF ConfigTypes
<1>8. ConfigProgress(s)' /\ ConfigCloses(s)'
  <2>1. Applying(s)'
    <3>1. Routes!StepsOf(s)' = Routes!StepsOf(s)
      BY <1>2, StepsStay
    <3>2. configTodo'[s] = t /\ configApplied'[s] \o Tail(configTodo'[s]) = Routes!StepsOf(s)
      BY <1>1, <1>2, <1>4, <1>7 DEF t
    <3>3. Of(configApplied'[s]) = Of(q) \cup {Head(t)}
      BY <1>3, <1>7
    <3>4. s \in live => override[s] \cup {Head(t)} = Of(q) \cup {Head(t)}
      BY <1>6
    <3>5. Of(configApplied[s])' = Of(configApplied'[s])
      BY DEF Of
    <3> QED BY <1>1, <1>2, <3>1, <3>2, <3>3, <3>4, <3>5 DEF Applying
  <2>2. override'[s] \subseteq Of(configApplied[s])'
    <3>1. override[s] \subseteq Of(q)
      BY <1>1 DEF ConfigProgress, q
    <3>2. Of(configApplied[s])' = Of(q) \cup {Head(t)}
      BY <1>3, <1>7 DEF Of
    <3> QED BY <1>2, <3>1, <3>2
  <2>3. route'[s] = "applying"
    BY <1>1, <1>2
  <2> QED BY <1>1, <1>2, <2>1, <2>2, <2>3 DEF ConfigProgress, ConfigCloses
<1> QED BY <1>2, <1>7, <1>8, ConfigOne

(* An undo starts with everything that is marked.                          *)
LEMMA ConfigStartsUndo ==
  ASSUME ConfigInvariant, NEW s \in Routes!Sessions, Routes!StartsUndo(s), Alone(s),
         route[s] \in {"applying", "guarded", "retained"}, configClosing = "closed" => route[s] # "retained",
         UNCHANGED <<options, configApplied, undone, live, configClosing>>,
         override' \in [Routes!Sessions -> SUBSET ConfigSteps], override'[s] \subseteq Of(configApplied[s])
  PROVE  ConfigInvariant'
<1>1. ConfigTypes /\ ConfigProgress(s) /\ ConfigCloses(s) /\ configApplied[s] \in Seq(ConfigSteps)
  BY DEF ConfigInvariant, ConfigTypes
<1>2. /\ Routes!Reverse(configApplied[s]) \in Seq(ConfigSteps)
      /\ Of(Routes!Reverse(configApplied[s])) = Of(configApplied[s])
  BY <1>1, OfUndo
<1>3. /\ route' = [route EXCEPT ![s] = "cleaning"]
      /\ configTodo' = [configTodo EXCEPT ![s] = Routes!Reverse(configApplied[s])]
  BY DEF Routes!StartsUndo
<1>4. ConfigTypes'
  BY <1>1, <1>2, <1>3 DEF ConfigTypes, ConfigStages
<1>5. route'[s] = "cleaning" /\ configTodo'[s] = Routes!Reverse(configApplied[s])
  BY <1>1, <1>3 DEF ConfigTypes
<1>6. ConfigProgress(s)' /\ ConfigCloses(s)'
  BY ZenonT(60), <1>1, <1>2, <1>5 DEF ConfigProgress, ConfigCloses, Of
<1> QED BY <1>4, <1>6, ConfigOne

(* The answer to a step, or the end of its session.                      *)
LEMMA ConfigAnswered ==
  ASSUME ConfigInvariant, NEW s \in Routes!Sessions, Routes!Answered(s) PROVE ConfigInvariant'
<1> DEFINE q == configApplied[s] t == configTodo[s]
<1>1. /\ ConfigTypes /\ ConfigProgress(s) /\ ConfigCloses(s) /\ q \in Seq(ConfigSteps)
      /\ t \in Seq(ConfigSteps) /\ route[s] = "applying" /\ q \o t # Routes!StepsOf(s)
      /\ UNCHANGED <<options, configApplied, undone, live, configClosing>>
  BY DEF ConfigInvariant, ConfigTypes, Routes!Answered
<1>2. /\ t # <<>> /\ q \o Tail(t) = Routes!StepsOf(s)
      /\ s \in live => override[s] \cup {Head(t)} = Of(q)
  BY <1>1 DEF ConfigProgress, Applying
<1>3. Head(t) \in ConfigSteps /\ Tail(t) \in Seq(ConfigSteps)
  BY <1>1, <1>2, OfLess
<1>4. CASE s \in live /\ override' = [override EXCEPT ![s] = @ \cup {Head(t)}]
  <2>1. /\ override' \in [Routes!Sessions -> SUBSET ConfigSteps] /\ override'[s] = Of(q)
        /\ \A x \in Routes!Sessions \ {s} : override'[x] = override[x]
    BY <1>1, <1>2, <1>3, <1>4 DEF ConfigTypes
  <2>2. CASE Routes!StartsUndo(s)
    <3>1. Alone(s)
      BY <1>1, <2>1, <2>2 DEF Alone, Routes!StartsUndo
    <3> QED BY <1>1, <2>1, <2>2, <3>1, ConfigStartsUndo
  <2>3. CASE configTodo' = [configTodo EXCEPT ![s] = Tail(t)] /\ UNCHANGED route
    <3>1. ConfigTypes' /\ configTodo'[s] = Tail(t) /\ Alone(s)
      BY <1>1, <1>3, <2>1, <2>3 DEF ConfigTypes, Alone
    <3>2. Applying(s)'
      BY <1>1, <1>2, <2>1, <2>3, <3>1, StepsStay DEF Applying, Of
    <3>3. ConfigProgress(s)' /\ ConfigCloses(s)'
      BY <1>1, <2>1, <2>3, <3>2 DEF ConfigProgress, ConfigCloses, Of
    <3> QED BY <1>1, <3>1, <3>3, ConfigOne
  <2> QED BY <1>4, <2>2, <2>3 DEF Routes!Answered
<1>5. CASE Routes!StartsUndo(s) /\ UNCHANGED override
  <2>1. Alone(s) /\ override' \in [Routes!Sessions -> SUBSET ConfigSteps]
    BY <1>1, <1>5 DEF Alone, Routes!StartsUndo, ConfigTypes
  <2>2. override'[s] \subseteq Of(q)
    BY <1>1, <1>5 DEF ConfigProgress
  <2> QED BY <1>1, <1>5, <2>1, <2>2, ConfigStartsUndo
<1> QED BY <1>4, <1>5 DEF Routes!Answered

(* The last step is behind the route.                                    *)
LEMMA ConfigApplied ==
  ASSUME ConfigInvariant, NEW s \in Routes!Sessions, Routes!Applied(s) PROVE ConfigInvariant'
<1>1. /\ ConfigTypes /\ ConfigProgress(s) /\ ConfigCloses(s) /\ configApplied[s] \in Seq(ConfigSteps)
      /\ route[s] = "applying" /\ configTodo[s] = <<>> /\ route' = [route EXCEPT ![s] = "guarded"]
      /\ UNCHANGED <<options, configApplied, configTodo, override, undone, live, configClosing>>
  BY DEF ConfigInvariant, ConfigTypes, Routes!Applied
<1>2. configApplied[s] \o <<>> = configApplied[s]
  BY <1>1
<1>3. s \in live => override[s] = Of(Routes!StepsOf(s))
  BY <1>1, <1>2 DEF ConfigProgress, Applying
<1>4. ConfigTypes' /\ Alone(s) /\ route'[s] = "guarded"
  BY <1>1 DEF ConfigTypes, ConfigStages, Alone
<1>5. ConfigProgress(s)' /\ ConfigCloses(s)'
  BY <1>1, <1>3, <1>4, StepsStay DEF ConfigProgress, ConfigCloses, Of
<1> QED BY <1>1, <1>4, <1>5, ConfigOne

(* The page keeps the route.                                             *)
LEMMA ConfigRetain ==
  ASSUME ConfigInvariant, NEW s \in Routes!Sessions, Routes!Retain(s) PROVE ConfigInvariant'
<1>1. /\ ConfigTypes /\ ConfigProgress(s) /\ ConfigCloses(s) /\ route[s] = "guarded"
      /\ UNCHANGED <<options, configApplied, override, undone, live, configClosing>>
  BY DEF ConfigInvariant, Routes!Retain
<1>2. CASE route' = [route EXCEPT ![s] = "retained"] /\ UNCHANGED configTodo
  <2>1. ConfigTypes' /\ Alone(s) /\ route'[s] = "retained"
    BY <1>1, <1>2 DEF ConfigTypes, ConfigStages, Alone
  <2>2. ConfigProgress(s)' /\ ConfigCloses(s)'
    BY <1>1, <1>2, <2>1, StepsStay DEF ConfigTypes, ConfigProgress, ConfigCloses, Of
  <2> QED BY <1>1, <2>1, <2>2, ConfigOne
<1>3. CASE Routes!StartsUndo(s)
  <2>1. Alone(s) /\ override' \in [Routes!Sessions -> SUBSET ConfigSteps] /\ override'[s] \subseteq Of(configApplied[s])
    BY <1>1, <1>3 DEF Alone, Routes!StartsUndo, ConfigTypes, ConfigProgress
  <2> QED BY <1>1, <1>3, <2>1, ConfigStartsUndo
<1> QED BY <1>2, <1>3 DEF Routes!Retain

(* One step is undone, or could not be.                                  *)
LEMMA ConfigUndo ==
  ASSUME ConfigInvariant, NEW s \in Routes!Sessions, Routes!Undo(s) PROVE ConfigInvariant'
<1> DEFINE t == configTodo[s]
<1>1. /\ ConfigTypes /\ ConfigProgress(s) /\ ConfigCloses(s) /\ t \in Seq(ConfigSteps) /\ t # <<>>
      /\ route[s] = "cleaning" /\ configTodo' = [configTodo EXCEPT ![s] = Tail(t)]
      /\ UNCHANGED <<options, route, configApplied, live, configClosing>>
  BY DEF ConfigInvariant, ConfigTypes, Routes!Undo
<1>2. Head(t) \in ConfigSteps /\ Tail(t) \in Seq(ConfigSteps) /\ Of(t) = {Head(t)} \cup Of(Tail(t))
  BY <1>1, OfLess
<1>3. Head(t) \in Routes!Undoes(Head(t))
  BY <1>2 DEF Routes!Undoes, ConfigSteps
<1>4. /\ \/ override' = [override EXCEPT ![s] = @ \ Routes!Undoes(Head(t))] /\ UNCHANGED undone
         \/ undone' = [undone EXCEPT ![s] = @ \cup {Head(t)}] /\ UNCHANGED override
  BY DEF Routes!Undo
<1>5. ConfigTypes' /\ Alone(s) /\ configTodo'[s] = Tail(t)
  BY ZenonT(60), <1>1, <1>2, <1>4 DEF ConfigTypes, Alone
<1>6. override'[s] \subseteq override[s] /\ override'[s] \subseteq Of(Tail(t)) \cup undone'[s]
  <2>1. override[s] \subseteq Of(t) \cup undone[s]
    BY <1>1 DEF ConfigProgress
  <2> QED BY <1>1, <1>2, <1>3, <1>4, <2>1 DEF ConfigTypes
<1>7. ConfigProgress(s)' /\ ConfigCloses(s)'
  BY <1>1, <1>5, <1>6 DEF ConfigProgress, ConfigCloses, Of
<1> QED BY <1>1, <1>5, <1>7, ConfigOne

(* The last one is.                                                      *)
LEMMA ConfigUndone ==
  ASSUME ConfigInvariant, NEW s \in Routes!Sessions, Routes!Undone(s) PROVE ConfigInvariant'
<1>1. /\ ConfigTypes /\ ConfigProgress(s) /\ ConfigCloses(s) /\ route[s] = "cleaning" /\ configTodo[s] = <<>>
      /\ route' = [route EXCEPT ![s] = IF undone[s] = {} THEN "closed" ELSE "failed"]
      /\ UNCHANGED <<options, configApplied, configTodo, override, undone, live, configClosing>>
  BY DEF ConfigInvariant, Routes!Undone
<1>2. ConfigTypes' /\ Alone(s) /\ route'[s] = IF undone[s] = {} THEN "closed" ELSE "failed"
  BY <1>1 DEF ConfigTypes, ConfigStages, Alone
<1>3. override[s] \subseteq undone[s]
  BY <1>1 DEF ConfigProgress, Of
<1>4. ConfigProgress(s)' /\ ConfigCloses(s)'
  BY <1>1, <1>2, <1>3 DEF ConfigProgress, ConfigCloses, Of
<1> QED BY <1>1, <1>2, <1>4, ConfigOne

(* A retained route is cleaned up by itself.                             *)
LEMMA ConfigCleanOne ==
  ASSUME ConfigInvariant, NEW s \in Routes!Sessions, Routes!CleanOne(s) PROVE ConfigInvariant'
<1>1. /\ ConfigTypes /\ ConfigProgress(s) /\ ConfigCloses(s) /\ route[s] = "retained" /\ Routes!StartsUndo(s)
      /\ UNCHANGED <<options, configApplied, override, undone, live, configClosing>>
  BY DEF ConfigInvariant, Routes!CleanOne
<1>2. Alone(s) /\ override' \in [Routes!Sessions -> SUBSET ConfigSteps] /\ override'[s] \subseteq Of(configApplied[s])
  BY <1>1 DEF Alone, Routes!StartsUndo, ConfigTypes, ConfigProgress
<1>3. configClosing = "closed" => route[s] # "retained"
  BY <1>1 DEF ConfigCloses
<1> QED BY <1>1, <1>2, <1>3, ConfigStartsUndo

(* A session that ends takes its overrides with it.                      *)
LEMMA ConfigDetach ==
  ASSUME ConfigInvariant, NEW s \in Routes!Sessions, Routes!Detach(s) PROVE ConfigInvariant'
<1>1. /\ ConfigTypes /\ ConfigProgress(s) /\ ConfigCloses(s)
      /\ live' = live \ {s} /\ override' = [override EXCEPT ![s] = {}]
      /\ UNCHANGED <<options, route, configApplied, configTodo, undone, configClosing>>
  BY DEF ConfigInvariant, Routes!Detach
<1>2. ConfigTypes' /\ Alone(s) /\ override'[s] = {} /\ s \notin live'
  BY <1>1 DEF ConfigTypes, Alone
<1>3. ConfigProgress(s)' /\ ConfigCloses(s)'
  BY <1>1, <1>2, StepsStay DEF ConfigProgress, ConfigCloses, Applying, Of
<1> QED BY <1>1, <1>2, <1>3, ConfigOne

(* The close of the page, and its destruction.                           *)
LEMMA ConfigBeginClose ==
  ASSUME ConfigInvariant, NEW how \in {"closing", "destroyed"}, Routes!BeginClose(how) PROVE ConfigInvariant'
<1>1. /\ ConfigTypes /\ configClosing' = how /\ live' = IF how = "destroyed" THEN {} ELSE live
      /\ \A s \in Routes!Sessions : route[s] \notin {"applying", "guarded"}
      /\ UNCHANGED <<options, configApplied, override>>
  BY DEF ConfigInvariant, Routes!BeginClose
<1>2. ASSUME NEW s \in Routes!Sessions
      PROVE  /\ Routes!Reverse(configApplied[s]) \in Seq(ConfigSteps)
             /\ Of(Routes!Reverse(configApplied[s])) = Of(configApplied[s])
  BY <1>1, OfUndo DEF ConfigTypes
<1>3. ASSUME NEW s \in Routes!Sessions
      PROVE  /\ route'[s] = (IF how = "closing" /\ Routes!Open(s) THEN "cleaning" ELSE route[s])
             /\ configTodo'[s] = (IF how = "closing" /\ Routes!Open(s) THEN Routes!Reverse(configApplied[s])
                                  ELSE configTodo[s])
             /\ undone'[s] = (IF how = "closing" /\ Routes!Open(s) THEN {} ELSE undone[s])
  BY DEF Routes!BeginClose
<1>4. ConfigTypes'
  <2>1. route' \in [Routes!Sessions -> ConfigStages]
    BY <1>1 DEF ConfigTypes, ConfigStages, Routes!BeginClose
  <2>2. configTodo' \in [Routes!Sessions -> Seq(ConfigSteps)]
    BY <1>1, <1>2 DEF ConfigTypes, Routes!BeginClose
  <2>3. undone' \in [Routes!Sessions -> SUBSET ConfigSteps]
    BY <1>1 DEF ConfigTypes, Routes!BeginClose
  <2> QED BY <1>1, <2>1, <2>2, <2>3 DEF ConfigTypes
<1>5. ASSUME NEW s \in Routes!Sessions PROVE ConfigProgress(s)' /\ ConfigCloses(s)'
  <2>1. ConfigProgress(s) /\ ConfigCloses(s)
    BY DEF ConfigInvariant
  <2>2. CASE how = "closing" /\ Routes!Open(s)
    <3>1. /\ route'[s] = "cleaning" /\ configTodo'[s] = Routes!Reverse(configApplied[s]) /\ undone'[s] = {}
          /\ override'[s] = override[s] /\ configApplied'[s] = configApplied[s] /\ configClosing' = "closing"
      BY <1>1, <1>3, <2>2
    <3>2. override[s] \subseteq Of(configApplied[s]) /\ Of(configTodo'[s]) = Of(configApplied[s])
      BY <1>2, <2>1, <3>1 DEF ConfigProgress
    <3>3. ConfigProgress(s)'
      BY <3>1, <3>2 DEF ConfigProgress, Of
    <3>4. ConfigCloses(s)'
      BY <3>1 DEF ConfigCloses
    <3> QED BY <3>3, <3>4
  <2>3. CASE ~(how = "closing" /\ Routes!Open(s))
    <3>1. UNCHANGED <<route[s], configTodo[s], undone[s]>>
      BY <1>3, <2>3
    <3> QED BY <1>1, <2>1, <2>3, <3>1, StepsStay DEF ConfigProgress, ConfigCloses, Of, Routes!Open
  <2> QED BY <2>2, <2>3
<1> QED BY <1>4, <1>5 DEF ConfigInvariant, Routes!Sessions

(* The close ends when no route is left to clean up.                     *)
LEMMA ConfigClose == ASSUME ConfigInvariant, Routes!Close PROVE ConfigInvariant'
<1>1. /\ ConfigTypes /\ configClosing' = "closed" /\ \A s \in Routes!Sessions : route[s] # "cleaning"
      /\ UNCHANGED <<options, configApplied, configTodo, undone, live>>
      /\ \/ configClosing = "closing" /\ UNCHANGED <<route, override>>
         \/ /\ configClosing = "destroyed" /\ override' = [s \in Routes!Sessions |-> {}]
            /\ route' = [s \in Routes!Sessions |-> IF route[s] \in {"retained", "failed"} THEN "closed" ELSE route[s]]
  BY DEF ConfigInvariant, Routes!Close
<1>2. ConfigTypes'
  BY <1>1 DEF ConfigTypes, ConfigStages
<1>3. ASSUME NEW s \in Routes!Sessions PROVE ConfigProgress(s)' /\ ConfigCloses(s)'
  <2>1. ConfigProgress(s) /\ ConfigCloses(s)
    BY DEF ConfigInvariant
  <2>2. CASE configClosing = "closing" /\ UNCHANGED <<route, override>>
    BY <1>1, <2>1, <2>2, StepsStay DEF ConfigProgress, ConfigCloses, Applying, Of
  <2>3. CASE configClosing = "destroyed" /\ override'[s] = {}
             /\ route'[s] = IF route[s] \in {"retained", "failed"} THEN "closed" ELSE route[s]
    BY <1>1, <2>1, <2>3 DEF ConfigProgress, ConfigCloses, Of
  <2> QED BY <1>1, <2>2, <2>3
<1> QED BY <1>2, <1>3 DEF ConfigInvariant, Routes!Sessions

(* Every step keeps the invariant.                                       *)
LEMMA ConfigNext == ConfigInvariant /\ [Routes!RouteNext]_(Routes!routeVars) => ConfigInvariant'
<1> SUFFICES ASSUME ConfigInvariant, [Routes!RouteNext]_(Routes!routeVars) PROVE ConfigInvariant'
  OBVIOUS
<1>1. CASE UNCHANGED Routes!routeVars
  <2>1. UNCHANGED <<options, route, configApplied, configTodo, override, undone, live, configClosing>>
    BY <1>1 DEF Routes!routeVars
  <2>2. Routes!Sessions' = Routes!Sessions
    BY DEF Routes!Sessions
  <2>3. ConfigTypes'
    BY <2>1, <2>2 DEF ConfigInvariant, ConfigTypes
  <2>4. ASSUME NEW s \in Routes!Sessions PROVE ConfigProgress(s)' /\ ConfigCloses(s)'
    <3>1. ConfigProgress(s) /\ ConfigCloses(s)
      BY DEF ConfigInvariant
    <3>2. Routes!StepsOf(s)' = Routes!StepsOf(s)
      BY <2>1, StepsStay
    <3>3. Applying(s)' <=> Applying(s)
      BY <2>1, <3>2 DEF Applying, Of
    <3>4. ConfigProgress(s)' <=> ConfigProgress(s)
      BY <2>1, <3>2, <3>3 DEF ConfigProgress, Of
    <3> QED BY <2>1, <3>1, <3>4 DEF ConfigCloses
  <2> QED BY <2>2, <2>3, <2>4 DEF ConfigInvariant
<1> QED BY <1>1, ConfigRegister, ConfigApply, ConfigAnswered, ConfigApplied, ConfigRetain, ConfigUndo,
           ConfigUndone, ConfigCleanOne, ConfigDetach, ConfigBeginClose, ConfigClose DEF Routes!RouteNext

(* It says what is checked.                                              *)
LEMMA ConfigIsExact == ConfigInvariant => Routes!ConfigurationIsExact
<1> SUFFICES ASSUME ConfigInvariant PROVE Routes!ConfigurationIsExact
  OBVIOUS
<1>1. Routes!InForce
  BY DEF ConfigInvariant, ConfigTypes, ConfigProgress, Routes!InForce, Routes!ToSet, Of
<1>2. Routes!UndoneIsClean
  BY DEF ConfigInvariant, ConfigProgress, Routes!UndoneIsClean
<1>3. Routes!CloseIsComplete
  BY DEF ConfigInvariant, ConfigTypes, ConfigStages, ConfigProgress, ConfigCloses, Routes!CloseIsComplete
<1> QED BY <1>1, <1>2, <1>3 DEF Routes!ConfigurationIsExact

(***************************************************************************)
(* The targets that Chrome attaches to a page (PageRoutes)                 *)
(***************************************************************************)

(* Each target as it is announced, in Chrome and in the registry; each     *)
(* session's stream, reader and the announcement it is at.                 *)
AuxTypes ==
  /\ auxKind \in [Targets -> TargetKinds] /\ parent \in [Targets -> Routes!Readers]
  /\ waiting \in [Targets -> BOOLEAN] /\ needs \in BOOLEAN
  /\ chrome \in [Targets -> {"none", "attached", "gone"}]
  /\ paused \in [Targets -> BOOLEAN] /\ configured \in [Targets -> BOOLEAN]
  /\ auxInbox \in [Routes!Readers -> Seq(Targets)]
  /\ auxJob \in [Routes!Readers -> Routes!Jobs \cup {None}]
  /\ reader \in [Routes!Readers -> {"none", "prepared", "running", "ended"}]
  /\ record \in [Targets -> Routes!Records \cup {None}]
  /\ routes \subseteq Targets
  /\ detached \in Seq(Targets) /\ detacher \in Targets \cup {None}
  /\ auxPage \in {"open", "closing", "destroyed", "closed"} /\ auxTerminal \in BOOLEAN

(* A target is announced by its parent's stream, so one reader handles it; *)
(* and it has been attached by then.                                       *)
Heard(r) ==
  /\ auxJob[r] # None => parent[auxJob[r].target] = r /\ chrome[auxJob[r].target] # "none"
  /\ \A t \in Of(auxInbox[r]) : parent[t] = r /\ chrome[t] # "none"

(* What is told to be detached is gone.                                    *)
AuxGone ==
  /\ \A t \in Of(detached) : chrome[t] = "gone"
  /\ detacher # None => chrome[detacher] = "gone"

(* A closed page has nothing but detachments and salvage before it.        *)
AuxClosed ==
  auxPage = "closed" =>
    /\ \A t \in Targets : record[t] = None
    /\ \A t \in routes : detacher = t
    /\ \A r \in Routes!Readers : auxJob[r] # None => auxJob[r].pc \in {"resume", "detach", "blank"}

Here(t, pcs) == LET j == auxJob[parent[t]] IN j # None /\ j.target = t /\ j.pc \in pcs
Starting == {"unneeded", "take", "route", "mark", "configure", "run", "retain", "failed",
             "failedPaused", "salvage", "drop"}
Marked(t) == record[t] # None /\ record[t].route

(* A target that is being started: its record, its route and what it still *)
(* waits for.                                                              *)
Started(t) ==
  /\ Here(t, Starting) => \/ record[t] = None /\ chrome[t] = "gone"
                          \/ record[t] # None /\ ~record[t].retained
  /\ Here(t, {"unneeded", "take", "route", "mark"}) => ~Marked(t)
  /\ Here(t, {"unneeded", "take", "route", "salvage", "drop"}) /\ t \in routes => detacher = t
  /\ Here(t, {"mark", "configure", "run", "retain"}) /\ chrome[t] = "attached" => t \in routes
  /\ Here(t, {"configure", "run", "retain"}) /\ chrome[t] = "attached" => Marked(t)
  /\ Here(t, {"run", "retain"}) => (needs => configured[t])
  /\ Here(t, {"retain"}) => ~paused[t]

(* A target between two announcements: its record, its route, and what it  *)
(* waits for.                                                              *)
Kept(t) ==
  /\ record[t] # None => chrome[t] # "none"
  /\ t \in routes => detacher = t \/ Marked(t) \/ Here(t, {"mark"})
  /\ record[t] # None /\ record[t].retained /\ chrome[t] = "attached" =>
       ~paused[t] /\ t \in routes /\ Marked(t) /\ (needs => configured[t])
  /\ chrome[t] = "attached" /\ paused[t] =>
       \/ auxJob[parent[t]] # None /\ auxJob[parent[t]].target = t
       \/ t \in Of(auxInbox[parent[t]])
       \/ auxTerminal = TRUE

AuxInvariant ==
  /\ AuxTypes /\ AuxGone /\ AuxClosed
  /\ \A r \in Routes!Readers : Heard(r)
  /\ \A t \in Targets : Started(t) /\ Kept(t)

(* At first no target is attached and no reader runs.                    *)
LEMMA AuxStarts == Routes!AuxiliaryInit => AuxInvariant
<1> SUFFICES ASSUME Routes!AuxiliaryInit PROVE AuxInvariant
  OBVIOUS
<1>1. AuxTypes
  <2>1. \A x : <<>> \in Seq(x)
    OBVIOUS
  <2>2. auxInbox \in [Routes!Readers -> Seq(Targets)] /\ detached \in Seq(Targets)
    BY <2>1 DEF Routes!AuxiliaryInit
  <2>3. /\ auxJob \in [Routes!Readers -> Routes!Jobs \cup {None}]
        /\ record \in [Targets -> Routes!Records \cup {None}]
        /\ reader \in [Routes!Readers -> {"none", "prepared", "running", "ended"}]
    BY DEF Routes!AuxiliaryInit
  <2> QED BY <2>2, <2>3 DEF Routes!AuxiliaryInit, AuxTypes
<1>2. AuxGone /\ AuxClosed /\ \A r \in Routes!Readers : Heard(r)
  BY DEF Routes!AuxiliaryInit, AuxGone, AuxClosed, Heard, Of
<1>3. \A t \in Targets : parent[t] \in Routes!Readers
  BY <1>1 DEF AuxTypes
<1>4. ASSUME NEW t \in Targets PROVE Started(t) /\ Kept(t)
  <2>1. auxJob[parent[t]] = None /\ record[t] = None /\ chrome[t] = "none" /\ routes = {}
    BY <1>3 DEF Routes!AuxiliaryInit
  <2> QED BY <2>1 DEF Started, Kept, Here, Marked
<1> QED BY <1>1, <1>2, <1>4 DEF AuxInvariant

(* What is not touched by a step: a target's own part of the state.        *)
Untouched(t) ==
  /\ parent'[t] = parent[t] /\ needs' = needs /\ chrome'[t] = chrome[t] /\ paused'[t] = paused[t]
  /\ configured'[t] = configured[t] /\ record'[t] = record[t]
  /\ (t \in Of(auxInbox[parent[t]]) => t \in Of(auxInbox'[parent[t]]))
  /\ (t \in routes') <=> (t \in routes)
  /\ (detacher' = t) <=> (detacher = t)
  /\ (auxTerminal = TRUE => auxTerminal' = TRUE)
  /\ \/ auxJob'[parent[t]] = auxJob[parent[t]]
     \/ /\ ~(auxJob[parent[t]] # None /\ auxJob[parent[t]].target = t)
        /\ ~(auxJob'[parent[t]] # None /\ auxJob'[parent[t]].target = t)

(* It keeps what is known of it.                                         *)
LEMMA UntouchedStays ==
  ASSUME NEW t \in Targets, Started(t), Kept(t), Untouched(t) PROVE Started(t)' /\ Kept(t)'
<1>1. \A pcs : Here(t, pcs)' <=> Here(t, pcs)
  BY DEF Here, Untouched
<1>2. Marked(t)' <=> Marked(t)
  BY DEF Marked, Untouched
<1>3. Started(t)'
  BY <1>1, <1>2 DEF Started, Untouched, Here
<1>4. Kept(t)'
  BY <1>1, <1>2 DEF Kept, Untouched, Here
<1> QED BY <1>3, <1>4

(* A reader at work handles one target, of its own stream.                 *)
LEMMA AtWork ==
  ASSUME AuxInvariant, NEW r \in Routes!Readers, auxJob[r] # None
  PROVE  /\ auxJob[r] \in Routes!Jobs /\ auxJob[r].target \in Targets
         /\ parent[auxJob[r].target] = r /\ chrome[auxJob[r].target] \in {"attached", "gone"}
         /\ Started(auxJob[r].target) /\ Kept(auxJob[r].target)
<1>1. auxJob[r] \in Routes!Jobs
  BY DEF AuxInvariant, AuxTypes
<1>2. auxJob[r].target \in Targets
  BY <1>1 DEF Routes!Jobs
<1> QED BY <1>1, <1>2 DEF AuxInvariant, AuxTypes, Heard

(* A step of a handler touches the target it is at.                        *)
SameTarget(u) ==
  /\ chrome'[u] = chrome[u] /\ paused'[u] = paused[u] /\ configured'[u] = configured[u]
  /\ record'[u] = record[u] /\ (u \in routes' <=> u \in routes)
Handles(r, t) ==
  /\ UNCHANGED <<parent, needs, detached, detacher, auxPage, auxInbox>>
  /\ auxTerminal = TRUE => auxTerminal' = TRUE
  /\ \A u \in Targets \ {t} : SameTarget(u)
  /\ \A q \in Routes!Readers \ {r} : auxJob'[q] = auxJob[q]
  /\ auxJob'[r] # None => auxJob'[r].target = t
  /\ chrome'[t] \in {chrome[t], "gone"}
WhenClosed(r, t) ==
  auxPage = "closed" =>
    /\ record'[t] = record[t] /\ (t \in routes' => t \in routes)
    /\ auxJob'[r] # None => auxJob'[r].pc \in {"resume", "detach", "blank"}

(* So it suffices to look at that target.                                *)
LEMMA HandlerStep ==
  ASSUME AuxInvariant, NEW r \in Routes!Readers, auxJob[r] # None, NEW t, t = auxJob[r].target, AuxTypes',
         Handles(r, t), WhenClosed(r, t), Started(t)', Kept(t)'
  PROVE  AuxInvariant'
<1>1. t \in Targets /\ parent[t] = r /\ chrome[t] # "none" /\ AuxTypes /\ AuxGone /\ AuxClosed
  BY AtWork DEF AuxInvariant
<1>2. \A u \in Targets : chrome'[u] = chrome[u] \/ chrome'[u] = "gone"
  BY DEF Handles, SameTarget
<1>3. AuxGone'
  BY <1>1, <1>2 DEF AuxGone, AuxTypes, Handles, Of
<1>4. AuxClosed'
  <2>1. auxPage' = auxPage /\ detacher' = detacher /\ Routes!Readers' = Routes!Readers
    BY DEF Handles, Routes!Readers
  <2> SUFFICES ASSUME auxPage = "closed" PROVE AuxClosed'
    BY <2>1 DEF AuxClosed
  <2>2. \A u \in Targets : record'[u] = None
    BY <1>1 DEF AuxClosed, Handles, SameTarget, WhenClosed
  <2>3. \A u \in Targets : u \in routes' => u \in routes
    BY <1>1 DEF Handles, SameTarget, WhenClosed
  <2>4. \A u \in routes' : detacher' = u
    BY <1>1, <2>1, <2>3 DEF AuxClosed, AuxTypes
  <2>5. \A q \in Routes!Readers : auxJob'[q] # None => auxJob'[q].pc \in {"resume", "detach", "blank"}
    BY <1>1 DEF AuxClosed, Handles, WhenClosed
  <2> QED BY <2>1, <2>2, <2>4, <2>5 DEF AuxClosed
<1>5. ASSUME NEW q \in Routes!Readers PROVE Heard(q)'
  <2>1. Heard(q)
    BY DEF AuxInvariant
  <2>2. auxJob'[q] # None => parent[auxJob'[q].target] = q /\ chrome'[auxJob'[q].target] # "none"
    <3>1. CASE q = r
      BY <1>1, <1>2, <3>1 DEF Handles
    <3>2. CASE q # r /\ auxJob[q] # None
      <4>1. auxJob'[q] = auxJob[q] /\ auxJob[q].target \in Targets /\ chrome[auxJob[q].target] # "none"
            /\ parent[auxJob[q].target] = q
        BY <3>2, AtWork DEF Handles
      <4> QED BY <1>2, <4>1
    <3> QED BY <3>1, <3>2 DEF Handles
  <2>3. ASSUME NEW u \in Of(auxInbox[q]) PROVE chrome'[u] # "none"
    <3>1. auxInbox[q] \in Seq(Targets)
      BY <1>1 DEF AuxTypes
    <3>2. u \in Targets /\ chrome[u] # "none"
      BY <2>1, <3>1 DEF Heard, Of
    <3> QED BY <1>2, <3>2
  <2> QED BY <2>1, <2>2, <2>3 DEF Heard, Handles
<1>6. ASSUME NEW u \in Targets PROVE Started(u)' /\ Kept(u)'
  <2>1. CASE u = t
    BY <2>1
  <2>2. CASE u # t
    <3>1. Started(u) /\ Kept(u) /\ parent[u] \in Routes!Readers
      BY <1>1 DEF AuxInvariant, AuxTypes
    <3>2. SameTarget(u) /\ parent'[u] = parent[u] /\ needs' = needs /\ detacher' = detacher
          /\ auxInbox'[parent[u]] = auxInbox[parent[u]] /\ (auxTerminal = TRUE => auxTerminal' = TRUE)
      BY <2>2 DEF Handles
    <3>3. CASE parent[u] = r
      <4>1. ~(auxJob[r] # None /\ auxJob[r].target = u) /\ ~(auxJob'[r] # None /\ auxJob'[r].target = u)
        BY <2>2 DEF Handles
      <4> QED BY <3>1, <3>2, <3>3, <4>1, UntouchedStays DEF Untouched, SameTarget
    <3>4. CASE parent[u] # r
      <4>1. auxJob'[parent[u]] = auxJob[parent[u]]
        BY <3>1, <3>4 DEF Handles
      <4>2. Untouched(u)
        BY <3>2, <4>1 DEF Untouched, SameTarget
      <4> QED BY <3>1, <4>2, UntouchedStays
    <3> QED BY <3>3, <3>4
  <2> QED BY <2>1, <2>2
<1>7. Routes!Readers' = Routes!Readers
  BY DEF Routes!Readers
<1> QED BY <1>3, <1>4, <1>5, <1>6, <1>7 DEF AuxInvariant

(* What becomes of a reader that goes on to a stage, or ends.              *)
Stages == {"resume", "detach", "blank", "begin", "again"} \cup Starting
GoesOn(r, p) ==
  /\ auxJob' \in [Routes!Readers -> Routes!Jobs \cup {None}]
  /\ \A q \in Routes!Readers \ {r} : auxJob'[q] = auxJob[q]
  /\ auxJob'[r] # None /\ auxJob'[r].target = auxJob[r].target /\ auxJob'[r].pc = p

(* A step that goes on to a stage.                                       *)
LEMMA GoesToStage ==
  ASSUME AuxTypes, NEW r \in Routes!Readers, auxJob[r] # None, NEW p \in Stages, Routes!Goes(r, p)
  PROVE  GoesOn(r, p)
<1>1. auxJob[r] \in Routes!Jobs
  BY DEF AuxTypes
<1>2. /\ [auxJob[r] EXCEPT !.pc = p] \in Routes!Jobs
      /\ [auxJob[r] EXCEPT !.pc = p].target = auxJob[r].target
      /\ [auxJob[r] EXCEPT !.pc = p].pc = p
  BY <1>1 DEF Routes!Jobs, Stages, Starting
<1>3. auxJob' = [auxJob EXCEPT ![r] = [auxJob[r] EXCEPT !.pc = p]]
  BY DEF Routes!Goes, AuxTypes
<1>4. None \notin Routes!Jobs
  BY RouteAssumption
<1> DEFINE j == [auxJob[r] EXCEPT !.pc = p]
<1> HIDE DEF j
<1>5. j \in Routes!Jobs /\ j.target = auxJob[r].target /\ j.pc = p /\ auxJob' = [auxJob EXCEPT ![r] = j]
  BY <1>2, <1>3 DEF j
<1> QED BY <1>4, <1>5 DEF GoesOn, AuxTypes

(* One that also remembers or forgets a failure.                         *)
LEMMA GoesWithFailure ==
  ASSUME AuxTypes, NEW r \in Routes!Readers, auxJob[r] # None, NEW p \in Stages, NEW b \in BOOLEAN,
         auxJob' = [auxJob EXCEPT ![r].pc = p, ![r].failed = b]
  PROVE  GoesOn(r, p) /\ auxJob'[r].failed = b
<1> DEFINE j == [[auxJob[r] EXCEPT !.pc = p] EXCEPT !.failed = b]
<1>1. auxJob[r] \in Routes!Jobs
  BY DEF AuxTypes
<1>2. j \in Routes!Jobs /\ j.target = auxJob[r].target /\ j.pc = p /\ j.failed = b
  BY <1>1 DEF Routes!Jobs, Stages, Starting
<1>3. auxJob' = [auxJob EXCEPT ![r] = j]
  BY DEF AuxTypes
<1>4. None \notin Routes!Jobs
  BY RouteAssumption
<1> HIDE DEF j
<1>5. auxJob'[r] = j /\ \A q \in Routes!Readers \ {r} : auxJob'[q] = auxJob[q]
  BY <1>3 DEF AuxTypes
<1>6. auxJob' \in [Routes!Readers -> Routes!Jobs \cup {None}]
  BY <1>2, <1>3 DEF AuxTypes
<1> QED BY <1>2, <1>4, <1>5, <1>6 DEF GoesOn

IsOver(r) ==
  /\ auxJob' \in [Routes!Readers -> Routes!Jobs \cup {None}]
  /\ \A q \in Routes!Readers \ {r} : auxJob'[q] = auxJob[q]
  /\ auxJob'[r] = None /\ auxTerminal' \in BOOLEAN /\ (auxTerminal = TRUE => auxTerminal' = TRUE)

(* A handler that returns is over, with its failure kept.                *)
LEMMA EndsAtLast ==
  ASSUME AuxTypes, NEW r \in Routes!Readers
  PROVE  /\ Routes!Ends(r) => IsOver(r)
         /\ Routes!Fails(r) => IsOver(r) /\ auxTerminal' = TRUE
BY DEF AuxTypes, IsOver, Routes!Ends, Routes!Fails

(* A target at which no reader is any more, or that is at another stage.   *)
LEMMA HereNow ==
  ASSUME AuxInvariant, NEW r \in Routes!Readers, auxJob[r] # None, UNCHANGED parent, NEW p,
         NEW t, t = auxJob[r].target, GoesOn(r, p) \/ IsOver(r)
  PROVE  \A pcs : /\ Here(t, pcs) <=> auxJob[r].pc \in pcs
                  /\ GoesOn(r, p) => (Here(t, pcs)' <=> p \in pcs)
                  /\ IsOver(r) => ~Here(t, pcs)'
<1>1. parent[t] = r /\ parent'[t] = r
  BY AtWork
<1> TAKE pcs
<1>2. Here(t, pcs) <=> auxJob[r].pc \in pcs
  BY <1>1 DEF Here
<1>3. GoesOn(r, p) => (Here(t, pcs)' <=> p \in pcs)
  BY <1>1 DEF Here, GoesOn
<1>4. IsOver(r) => ~Here(t, pcs)'
  <2> SUFFICES ASSUME IsOver(r) PROVE ~Here(t, pcs)'
    OBVIOUS
  <2>1. auxJob'[parent'[t]] = None
    BY <1>1 DEF IsOver
  <2> QED BY <2>1 DEF Here
<1> QED BY <1>2, <1>3, <1>4

(* A reader that is not starting its target has nothing to answer for.     *)
LEMMA NotStarting ==
  ASSUME NEW t, NEW p, p \notin Starting, \A pcs : Here(t, pcs)' => p \in pcs PROVE Started(t)'
<1>1. \A pcs : Here(t, pcs)' /\ pcs \subseteq Starting => FALSE
  OBVIOUS
<1> DEFINE H(pcs) == Here(t, pcs)'
<1>2. \A pcs \in SUBSET Starting : ~H(pcs)
  BY <1>1
<1> HIDE DEF H
<1>3. /\ ~H(Starting) /\ ~H({"unneeded", "take", "route", "mark"})
      /\ ~H({"unneeded", "take", "route", "salvage", "drop"}) /\ ~H({"mark", "configure", "run", "retain"})
      /\ ~H({"configure", "run", "retain"}) /\ ~H({"run", "retain"}) /\ ~H({"retain"})
  BY <1>2 DEF Starting
<1> QED BY <1>3 DEF Started, H

(* What is let go: resumed or not, then detached or not, and forgotten.    *)
LEMMA AuxLetGo == ASSUME AuxInvariant, NEW r \in Routes!Readers, Routes!LetGo(r) PROVE AuxInvariant'
<1>1. PICK t : t = auxJob[r].target
  OBVIOUS
<1>2. auxJob[r] # None /\ auxJob[r].pc \in {"resume", "detach", "blank"} /\ AuxTypes
  BY DEF Routes!LetGo, Routes!At, AuxInvariant
<1>3. /\ auxJob[r] \in Routes!Jobs /\ t \in Targets /\ parent[t] = r /\ chrome[t] \in {"attached", "gone"}
      /\ Started(t) /\ Kept(t)
  BY <1>1, <1>2, AtWork
<1>4. /\ UNCHANGED <<auxKind, parent, waiting, needs, repeated, asked, configured, auxInbox, reader, record,
                     routes, detached, detacher, auxPage, report>>
  BY DEF Routes!LetGo, Routes!given
<1>5. ~Here(t, {"mark"})
  BY <1>1, <1>2, <1>3 DEF Here
<1>6. CASE /\ Routes!At(r, "resume") /\ UNCHANGED <<chrome, auxTerminal>>
           /\ \E ok \in BOOLEAN : /\ Routes!Resumes(t, ok)
                                  /\ auxJob' = [auxJob EXCEPT ![r].pc = "detach", ![r].failed = ~ok]
  <2>1. PICK ok \in BOOLEAN : /\ Routes!Resumes(t, ok)
                              /\ auxJob' = [auxJob EXCEPT ![r].pc = "detach", ![r].failed = ~ok]
    BY <1>6
  <2>2. GoesOn(r, "detach")
    BY <1>2, <2>1, GoesWithFailure DEF Stages
  <2>3. paused' = paused \/ paused' = [paused EXCEPT ![t] = FALSE]
    BY <2>1 DEF Routes!Resumes
  <2>4. AuxTypes'
    BY <1>2, <1>4, <1>6, <2>2, <2>3 DEF AuxTypes, GoesOn, Routes!Readers
  <2>5. Handles(r, t) /\ WhenClosed(r, t)
    BY <1>1, <1>2, <1>4, <1>6, <2>2, <2>3 DEF Handles, WhenClosed, SameTarget, GoesOn, AuxTypes
  <2>6. \A pcs : Here(t, pcs)' <=> "detach" \in pcs
    BY <1>1, <1>2, <1>4, <2>2, HereNow
  <2>7. Started(t)'
    BY <2>6, NotStarting DEF Starting
  <2>8. Kept(t)'
    BY ZenonT(60), <1>1, <1>2, <1>3, <1>4, <1>5, <1>6, <2>2, <2>3, <2>6 DEF Kept, Marked, GoesOn, AuxTypes
  <2> QED BY <1>1, <1>2, <2>4, <2>5, <2>7, <2>8, HandlerStep
<1>7. CASE /\ Routes!At(r, "detach") \/ Routes!At(r, "blank")
           /\ chrome' = chrome \/ chrome' = [chrome EXCEPT ![t] = "gone"]
           /\ chrome'[t] = "gone" \/ auxTerminal' = TRUE
           /\ IsOver(r) /\ UNCHANGED paused
  <2>1. AuxTypes'
    BY <1>2, <1>4, <1>7 DEF AuxTypes, IsOver, Routes!Readers
  <2>2. Handles(r, t) /\ WhenClosed(r, t)
    BY <1>1, <1>2, <1>4, <1>7 DEF Handles, WhenClosed, SameTarget, IsOver, AuxTypes
  <2>3. \A pcs : ~Here(t, pcs)'
    BY <1>1, <1>2, <1>4, <1>7, HereNow
  <2>4. Started(t)'
    BY <2>3 DEF Started
  <2>5. Kept(t)'
    BY <1>1, <1>2, <1>3, <1>4, <1>5, <1>7, <2>3 DEF Kept, Marked, AuxTypes
  <2> QED BY <1>1, <1>2, <2>1, <2>2, <2>4, <2>5, HandlerStep
<1>8. CASE /\ Routes!At(r, "detach") /\ UNCHANGED paused
           /\ \E ok \in BOOLEAN :
                /\ Routes!Detaches(t, ok)
                /\ IF ok /\ ~auxJob[r].failed /\ auxKind[t] \notin {"malformed", "unnamed"}
                   THEN Routes!Ends(r) ELSE Routes!Fails(r)
  <2>1. /\ chrome' = chrome \/ chrome' = [chrome EXCEPT ![t] = "gone"]
        /\ chrome'[t] = "gone" \/ auxTerminal' = TRUE
        /\ IsOver(r)
    BY <1>2, <1>3, <1>8, EndsAtLast DEF Routes!Detaches, AuxTypes
  <2> QED BY <1>7, <1>8, <2>1
<1>9. CASE Routes!At(r, "blank") /\ Routes!Fails(r) /\ UNCHANGED <<chrome, paused>>
  <2>1. IsOver(r) /\ auxTerminal' = TRUE
    BY <1>2, <1>9, EndsAtLast
  <2> QED BY <1>7, <1>9, <2>1
<1> QED BY <1>1, <1>6, <1>8, <1>9 DEF Routes!LetGo, Routes!Of

(* A reader that is at a stage of its target, and its target.              *)
WorksAt(r, t, pcs) ==
  /\ auxJob[r] # None /\ t = auxJob[r].target /\ auxJob[r].pc \in pcs /\ AuxTypes
  /\ auxJob[r] \in Routes!Jobs /\ t \in Targets /\ parent[t] = r /\ chrome[t] \in {"attached", "gone"}
  /\ Started(t) /\ Kept(t)
  /\ \A s : Here(t, s) <=> auxJob[r].pc \in s

(* A reader at work is at a stage of some target.                        *)
LEMMA WorkIs ==
  ASSUME AuxInvariant, NEW r \in Routes!Readers, NEW pcs, auxJob[r] # None, auxJob[r].pc \in pcs
  PROVE  \E t : WorksAt(r, t, pcs)
<1>1. PICK t : t = auxJob[r].target
  OBVIOUS
<1>2. /\ auxJob[r] \in Routes!Jobs /\ t \in Targets /\ parent[t] = r /\ chrome[t] \in {"attached", "gone"}
      /\ Started(t) /\ Kept(t) /\ AuxTypes
  BY <1>1, AtWork DEF AuxInvariant
<1>3. \A s : Here(t, s) <=> auxJob[r].pc \in s
  BY <1>1, <1>2 DEF Here
<1> QED BY <1>1, <1>2, <1>3 DEF WorksAt

(* AuxiliaryTargetRegistry::begin.                                         *)
LEMMA AuxBegin == ASSUME AuxInvariant, NEW r \in Routes!Readers, Routes!Begin(r) PROVE AuxInvariant'
<1>1. PICK t : WorksAt(r, t, {"begin"})
  BY WorkIs DEF Routes!Begin, Routes!At
<1>2. /\ UNCHANGED <<auxKind, parent, waiting, needs, repeated, asked, chrome, paused, configured, auxInbox,
                     reader, routes, detached, detacher, auxPage, report, auxTerminal>>
  BY DEF Routes!Begin, Routes!given
<1>3. auxPage # "closed"
  BY <1>1 DEF WorksAt, AuxInvariant, AuxClosed
<1>4. CASE record[t] # None /\ Routes!Goes(r, "again") /\ UNCHANGED record
  <2>1. GoesOn(r, "again")
    BY <1>1, <1>4, GoesToStage DEF Stages, WorksAt
  <2>2. AuxTypes'
    BY <1>1, <1>2, <1>4, <2>1 DEF AuxTypes, GoesOn, WorksAt, Routes!Readers
  <2>3. Handles(r, t) /\ WhenClosed(r, t)
    BY <1>1, <1>2, <1>3, <1>4, <2>1 DEF Handles, WhenClosed, SameTarget, GoesOn, WorksAt
  <2>4. \A pcs : Here(t, pcs)' <=> "again" \in pcs
    BY <1>1, <1>2, <2>1, HereNow DEF WorksAt
  <2>5. Started(t)'
    BY <2>4, NotStarting DEF Starting
  <2>6. Kept(t)'
    BY <1>1, <1>2, <1>4, <2>1, <2>4 DEF Kept, Marked, GoesOn, WorksAt
  <2> QED BY <1>1, <2>2, <2>3, <2>5, <2>6, HandlerStep DEF WorksAt
<1>5. CASE /\ record[t] = None /\ record' = [record EXCEPT ![t] = [route |-> FALSE, retained |-> FALSE]]
           /\ \E p \in {"route", "unneeded"} : Routes!Goes(r, p)
  <2>1. PICK p \in {"route", "unneeded"} : Routes!Goes(r, p)
    BY <1>5
  <2>2. GoesOn(r, p)
    BY <1>1, <2>1, GoesToStage DEF Stages, Starting, WorksAt
  <2>3. [route |-> FALSE, retained |-> FALSE] \in Routes!Records
    BY DEF Routes!Records
  <2>4. AuxTypes'
    BY <1>1, <1>2, <1>5, <2>2, <2>3 DEF AuxTypes, GoesOn, WorksAt, Routes!Readers
  <2>5. Handles(r, t) /\ WhenClosed(r, t)
    BY <1>1, <1>2, <1>3, <1>5, <2>2 DEF Handles, WhenClosed, SameTarget, GoesOn, WorksAt, AuxTypes
  <2>6. \A pcs : Here(t, pcs)' <=> p \in pcs
    BY <1>1, <1>2, <2>2, HereNow DEF WorksAt
  <2>7. record'[t] = [route |-> FALSE, retained |-> FALSE] /\ record'[t] # None
    BY <1>1, <1>5, <2>3, RouteAssumption DEF WorksAt, AuxTypes
  <2>8. ~Marked(t)' /\ ~record'[t].retained
    BY <2>7 DEF Marked
  <2>9. t \in routes' => detacher' = t
    BY <1>1, <1>2, <1>5 DEF WorksAt, Kept, Marked
  <2>10. Started(t)'
    BY <2>1, <2>6, <2>7, <2>8, <2>9 DEF Started
  <2>11. Kept(t)'
    BY <1>1, <1>2, <2>2, <2>7, <2>8, <2>9 DEF Kept, GoesOn, WorksAt
  <2> QED BY <1>1, <2>4, <2>5, <2>10, <2>11, HandlerStep DEF WorksAt
<1> QED BY <1>1, <1>4, <1>5 DEF Routes!Begin, Routes!Of, WorksAt

(* AuxiliaryTargetRegistry::begin of a target that is known.             *)
LEMMA AuxAgain == ASSUME AuxInvariant, NEW r \in Routes!Readers, Routes!Again(r) PROVE AuxInvariant'
<1>1. PICK t : WorksAt(r, t, {"again"})
  BY WorkIs DEF Routes!Again, Routes!At
<1>2. /\ UNCHANGED <<auxKind, parent, waiting, needs, repeated, asked, chrome, configured, auxInbox, reader,
                     record, routes, detached, detacher, auxPage, report>>
  BY DEF Routes!Again, Routes!given
<1>3. PICK ok \in BOOLEAN : Routes!Resumes(t, ok) /\ IF ok THEN Routes!Ends(r) ELSE Routes!Fails(r)
  BY <1>1 DEF Routes!Again, Routes!Of, WorksAt
<1>4. IsOver(r) /\ (~ok => auxTerminal' = TRUE)
  BY <1>1, <1>3, EndsAtLast DEF WorksAt
<1>5. paused' = IF ok THEN [paused EXCEPT ![t] = FALSE] ELSE paused
  BY <1>3 DEF Routes!Resumes
<1>6. AuxTypes'
  BY <1>1, <1>2, <1>4, <1>5 DEF AuxTypes, IsOver, WorksAt, Routes!Readers
<1>7. Handles(r, t) /\ WhenClosed(r, t)
  BY <1>1, <1>2, <1>4, <1>5 DEF Handles, WhenClosed, SameTarget, IsOver, WorksAt, AuxTypes
<1>8. \A pcs : ~Here(t, pcs)'
  BY <1>1, <1>2, <1>4, HereNow DEF WorksAt
<1>9. Started(t)'
  BY <1>8 DEF Started
<1>10. paused'[t] = IF ok THEN FALSE ELSE paused[t]
  BY <1>1, <1>5 DEF WorksAt, AuxTypes
<1>11. ~Here(t, {"mark"})
  BY <1>1 DEF WorksAt
<1>12. Kept(t)'
  BY <1>1, <1>2, <1>4, <1>8, <1>10, <1>11 DEF Kept, Marked, WorksAt
<1> QED BY <1>1, <1>6, <1>7, <1>9, <1>12, HandlerStep DEF WorksAt

(* What was recorded is taken and detached, unless a detachment took it.   *)
LEMMA AuxTake ==
  ASSUME AuxInvariant, NEW r \in Routes!Readers, NEW t, WorksAt(r, t, {"take", "drop"}), NEW b,
         Routes!TakeAndDetach(r, t, b),
         UNCHANGED <<auxKind, parent, waiting, needs, repeated, asked, paused, configured, auxInbox, reader,
                     routes, detached, detacher, auxPage, report>>
  PROVE  AuxInvariant'
<1>1. /\ record' = record \/ record' = [record EXCEPT ![t] = None]
      /\ chrome' = chrome \/ chrome' = [chrome EXCEPT ![t] = "gone"]
      /\ IsOver(r)
  BY EndsAtLast DEF Routes!TakeAndDetach, Routes!Detaches, WorksAt
<1>2. record'[t] = None
  BY <1>1 DEF Routes!TakeAndDetach, WorksAt, AuxTypes
<1>3. chrome'[t] = "gone" \/ auxTerminal' = TRUE
  <2>1. CASE record[t] = None /\ UNCHANGED <<record, chrome>>
    BY <2>1 DEF WorksAt, Started, Starting
  <2>2. CASE \E ok \in BOOLEAN :
               Routes!Detaches(t, ok) /\ IF ok /\ ~b THEN Routes!Ends(r) ELSE Routes!Fails(r)
    <3>1. PICK ok \in BOOLEAN :
            Routes!Detaches(t, ok) /\ IF ok /\ ~b THEN Routes!Ends(r) ELSE Routes!Fails(r)
      BY <2>2
    <3>2. CASE ok
      BY <3>1, <3>2 DEF Routes!Detaches, WorksAt, AuxTypes
    <3>3. CASE ~ok
      BY <3>1, <3>3, EndsAtLast DEF WorksAt
    <3> QED BY <3>2, <3>3
  <2> QED BY <2>1, <2>2 DEF Routes!TakeAndDetach
<1>4. AuxTypes'
  BY <1>1 DEF AuxTypes, IsOver, WorksAt, Routes!Readers
<1>5. Handles(r, t) /\ WhenClosed(r, t)
  <2>1. auxPage # "closed"
    BY DEF AuxInvariant, AuxClosed, WorksAt
  <2> QED BY <1>1, <2>1 DEF Handles, WhenClosed, SameTarget, IsOver, WorksAt, AuxTypes
<1>6. \A pcs : ~Here(t, pcs)'
  BY <1>1, HereNow DEF WorksAt
<1>7. Started(t)'
  BY <1>6 DEF Started
<1>8. t \in routes => detacher = t
  BY DEF WorksAt, Started
<1>9. Kept(t)'
  BY <1>1, <1>2, <1>3, <1>6, <1>8 DEF Kept, WorksAt
<1> QED BY <1>4, <1>5, <1>7, <1>9, HandlerStep DEF WorksAt

(* A target that nobody needs.                                             *)
LEMMA AuxUnneeded == ASSUME AuxInvariant, NEW r \in Routes!Readers, Routes!Unneeded(r) PROVE AuxInvariant'
<1>1. PICK t : WorksAt(r, t, {"unneeded", "take"})
  BY WorkIs DEF Routes!Unneeded, Routes!At
<1>2. UNCHANGED <<auxKind, parent, waiting, needs, repeated, asked, configured, auxInbox, reader, routes,
                  detached, detacher, auxPage, report>>
  BY DEF Routes!Unneeded, Routes!given
<1>3. CASE Routes!At(r, "take") /\ Routes!TakeAndDetach(r, t, auxJob[r].failed) /\ UNCHANGED paused
  <2>1. WorksAt(r, t, {"take", "drop"})
    BY <1>1, <1>3 DEF WorksAt, Routes!At
  <2> QED BY <1>2, <1>3, <2>1, AuxTake
<1>4. CASE /\ Routes!At(r, "unneeded") /\ UNCHANGED <<record, chrome, auxTerminal>>
           /\ \E ok \in BOOLEAN : /\ Routes!Resumes(t, ok)
                                  /\ auxJob' = [auxJob EXCEPT ![r].pc = "take", ![r].failed = ~ok]
  <2>1. PICK ok \in BOOLEAN : /\ Routes!Resumes(t, ok)
                              /\ auxJob' = [auxJob EXCEPT ![r].pc = "take", ![r].failed = ~ok]
    BY <1>4
  <2>2. GoesOn(r, "take")
    BY <1>1, <2>1, GoesWithFailure DEF Stages, Starting, WorksAt
  <2>3. paused' = paused \/ paused' = [paused EXCEPT ![t] = FALSE]
    BY <2>1 DEF Routes!Resumes
  <2>4. AuxTypes'
    BY <1>1, <1>2, <1>4, <2>2, <2>3 DEF AuxTypes, GoesOn, WorksAt, Routes!Readers
  <2>5. Handles(r, t) /\ WhenClosed(r, t)
    <3>1. auxPage # "closed"
      BY <1>1 DEF AuxInvariant, AuxClosed, WorksAt
    <3> QED BY <1>1, <1>2, <1>4, <2>2, <2>3, <3>1 DEF Handles, WhenClosed, SameTarget, GoesOn, WorksAt,
                                                      AuxTypes
  <2>6. \A pcs : Here(t, pcs)' <=> "take" \in pcs
    BY <1>1, <1>2, <2>2, HereNow DEF WorksAt
  <2>7. /\ (record[t] = None /\ chrome[t] = "gone") \/ (record[t] # None /\ ~record[t].retained)
        /\ ~Marked(t) /\ (t \in routes => detacher = t)
    <3>1. auxJob[r].pc = "unneeded"
      BY <1>4 DEF Routes!At
    <3>2. /\ Here(t, Starting) /\ Here(t, {"unneeded", "take", "route", "mark"})
          /\ Here(t, {"unneeded", "take", "route", "salvage", "drop"})
      BY <1>1, <3>1 DEF WorksAt, Starting
    <3>3. Started(t)
      BY <1>1 DEF WorksAt
    <3> QED BY <3>2, <3>3 DEF Started
  <2>8. Started(t)'
    BY <1>1, <1>2, <1>4, <2>2, <2>6, <2>7 DEF Started, Starting, Marked
  <2>9. Kept(t)'
    BY <1>1, <1>2, <1>4, <2>2, <2>6, <2>7 DEF Kept, Marked, GoesOn, WorksAt
  <2> QED BY <1>1, <2>4, <2>5, <2>8, <2>9, HandlerStep DEF WorksAt
<1> QED BY <1>1, <1>3, <1>4 DEF Routes!Unneeded, Routes!Of, WorksAt

(* A handler that goes on, its target's attachment as it was: what is to be*)
(* seen to.                                                                *)
LEMMA AuxGoesOn ==
  ASSUME AuxInvariant, NEW r \in Routes!Readers, NEW t, NEW pcs \in SUBSET Starting, WorksAt(r, t, pcs),
         NEW p \in Starting, Routes!Goes(r, p),
         paused' = paused \/ paused' = [paused EXCEPT ![t] = FALSE],
         configured' = configured \/ configured' = [configured EXCEPT ![t] = TRUE],
         reader' \in [Routes!Readers -> {"none", "prepared", "running", "ended"}],
         record' = record \/ (record[t] # None /\ record' = [record EXCEPT ![t].route = TRUE]),
         routes' \in {routes, routes \cup {t}, routes \ {t}},
         UNCHANGED <<auxKind, parent, waiting, needs, repeated, asked, chrome, auxInbox,
                     detached, detacher, auxPage, report, auxTerminal>>,
         p \in {"unneeded", "take", "route", "mark"} => ~Marked(t)',
         p \in {"unneeded", "take", "route", "salvage", "drop"} /\ t \in routes' => detacher = t,
         p \in {"mark", "configure", "run", "retain"} /\ chrome[t] = "attached" => t \in routes',
         p \in {"configure", "run", "retain"} /\ chrome[t] = "attached" => Marked(t)',
         p \in {"run", "retain"} => (needs => configured'[t]),
         p \in {"retain"} => ~paused'[t],
         t \in routes' => detacher = t \/ Marked(t)' \/ p = "mark"
  PROVE  AuxInvariant'
<1>1. GoesOn(r, p)
  BY GoesToStage DEF Stages, WorksAt
<1>2. \A s : Here(t, s)' <=> p \in s
  BY <1>1, HereNow DEF WorksAt
<1>3. record' \in [Targets -> Routes!Records \cup {None}] /\ (record'[t] = None <=> record[t] = None)
  <2>1. CASE record' = record
    BY <2>1 DEF WorksAt, AuxTypes
  <2>2. CASE record[t] # None /\ record' = [record EXCEPT ![t].route = TRUE]
    <3> DEFINE m == [record[t] EXCEPT !.route = TRUE]
    <3>1. record[t] \in Routes!Records
      BY <2>2 DEF WorksAt, AuxTypes
    <3>2. m \in Routes!Records
      BY <3>1 DEF Routes!Records
    <3>3. m # None
      BY <3>2, RouteAssumption
    <3>4. record' = [record EXCEPT ![t] = m]
      BY <2>2 DEF WorksAt, AuxTypes
    <3> HIDE DEF m
    <3>5. t \in Targets /\ record \in [Targets -> Routes!Records \cup {None}]
      BY DEF WorksAt, AuxTypes
    <3>6. record'[t] = m /\ record' \in [Targets -> Routes!Records \cup {None}]
      BY <3>2, <3>4, <3>5
    <3> QED BY <2>2, <3>3, <3>6
  <2> QED BY <2>1, <2>2
<1>4. record'[t] # None => record'[t].retained = record[t].retained
  <2>1. CASE record' = record
    BY <2>1
  <2>2. CASE record[t] # None /\ record' = [record EXCEPT ![t].route = TRUE]
    <3>1. record[t] \in Routes!Records
      BY <2>2 DEF WorksAt, AuxTypes
    <3> QED BY <2>2, <3>1 DEF WorksAt, AuxTypes, Routes!Records
  <2> QED BY <2>1, <2>2
<1>5. AuxTypes'
  BY ZenonT(60), <1>1, <1>3 DEF AuxTypes, GoesOn, WorksAt, Routes!Readers
<1>6. Handles(r, t) /\ WhenClosed(r, t)
  <2>1. auxPage # "closed"
    BY DEF AuxInvariant, AuxClosed, WorksAt, Starting
  <2> QED BY <1>1, <2>1 DEF Handles, WhenClosed, SameTarget, GoesOn, WorksAt, AuxTypes
<1>7. /\ (record[t] = None /\ chrome[t] = "gone") \/ (record[t] # None /\ ~record[t].retained)
      /\ record[t] # None => ~record[t].retained
  <2>1. Here(t, Starting)
    BY DEF WorksAt
  <2>2. Started(t)
    BY DEF WorksAt
  <2> QED BY <2>1, <2>2 DEF Started
<1>8. Started(t)'
  BY <1>2, <1>3, <1>4, <1>7 DEF Started
<1>9. Kept(t)'
  BY <1>1, <1>2, <1>3, <1>4, <1>7 DEF Kept, GoesOn, WorksAt
<1> QED BY <1>5, <1>6, <1>8, <1>9, HandlerStep DEF WorksAt

(* What is known of a target that is being started.                        *)
LEMMA StartedIs ==
  ASSUME NEW r, NEW t, NEW pcs, WorksAt(r, t, pcs)
  PROVE  /\ auxJob[r].pc \in Starting => (record[t] # None => ~record[t].retained)
         /\ auxJob[r].pc \in Starting => (record[t] = None => chrome[t] = "gone")
         /\ auxJob[r].pc = "route" => ~Marked(t) /\ (t \in routes => detacher = t)
         /\ auxJob[r].pc \in {"salvage", "drop"} => (t \in routes => detacher = t)
         /\ auxJob[r].pc \in {"mark", "configure", "run", "retain"} /\ chrome[t] = "attached" => t \in routes
         /\ auxJob[r].pc \in {"configure", "run", "retain"} /\ chrome[t] = "attached" => Marked(t)
         /\ auxJob[r].pc \in {"run", "retain"} => (needs => configured[t])
         /\ auxJob[r].pc = "retain" => ~paused[t]
         /\ auxJob[r].pc # "mark" => (t \in routes => detacher = t \/ Marked(t))
<1>1. Started(t) /\ Kept(t) /\ \A s : Here(t, s) <=> auxJob[r].pc \in s
  BY DEF WorksAt
<1>2. /\ Here(t, Starting) <=> auxJob[r].pc \in Starting
      /\ Here(t, {"unneeded", "take", "route", "mark"}) <=> auxJob[r].pc \in {"unneeded", "take", "route", "mark"}
      /\ Here(t, {"unneeded", "take", "route", "salvage", "drop"})
           <=> auxJob[r].pc \in {"unneeded", "take", "route", "salvage", "drop"}
      /\ Here(t, {"mark", "configure", "run", "retain"}) <=> auxJob[r].pc \in {"mark", "configure", "run", "retain"}
      /\ Here(t, {"configure", "run", "retain"}) <=> auxJob[r].pc \in {"configure", "run", "retain"}
      /\ Here(t, {"run", "retain"}) <=> auxJob[r].pc \in {"run", "retain"}
      /\ Here(t, {"retain"}) <=> auxJob[r].pc = "retain"
      /\ Here(t, {"mark"}) <=> auxJob[r].pc = "mark"
  BY <1>1
<1>3. Started(t) /\ Kept(t)
  BY <1>1
<1> QED BY <1>2, <1>3 DEF Started, Kept

(* A route that is added is this target's own.                             *)
LEMMA AuxAddRoute == ASSUME AuxInvariant, NEW r \in Routes!Readers, Routes!AddRoute(r) PROVE AuxInvariant'
<1>1. PICK t : WorksAt(r, t, {"route"})
  BY WorkIs DEF Routes!AddRoute, Routes!At
<1>2. UNCHANGED <<auxKind, parent, waiting, needs, repeated, asked, chrome, paused, configured, auxInbox, reader,
                  record, detached, detacher, auxPage, report, auxTerminal>>
  BY DEF Routes!AddRoute, Routes!given
<1>3. {"route"} \in SUBSET Starting /\ "mark" \in Starting /\ "failed" \in Starting
  BY DEF Starting
<1>4. ~Marked(t) /\ (t \in routes => detacher = t) /\ reader \in [Routes!Readers -> {"none", "prepared", "running", "ended"}]
  <2>1. auxJob[r].pc = "route"
    BY <1>1 DEF WorksAt
  <2>2. ~Marked(t) /\ (t \in routes => detacher = t)
    BY <1>1, <2>1, StartedIs
  <2> QED BY <1>1, <2>2 DEF WorksAt, AuxTypes
<1>5. ~Marked(t)'
  BY <1>2, <1>4 DEF Marked
<1>6. CASE routes' = routes \cup {t} /\ Routes!Goes(r, "mark")
  BY <1>1, <1>2, <1>3, <1>4, <1>5, <1>6, AuxGoesOn
<1>7. CASE Routes!Goes(r, "failed") /\ UNCHANGED routes
  BY <1>1, <1>2, <1>3, <1>4, <1>5, <1>7, AuxGoesOn
<1> QED BY <1>1, <1>6, <1>7 DEF Routes!AddRoute, Routes!Of, WorksAt

(* A handler that returns at last.                                         *)
LEMMA AuxIsOver ==
  ASSUME AuxInvariant, NEW r \in Routes!Readers, NEW t, NEW pcs \in SUBSET Starting, WorksAt(r, t, pcs), IsOver(r),
         reader' \in [Routes!Readers -> {"none", "prepared", "running", "ended"}],
         record' = record \/ (record[t] # None /\ record' = [record EXCEPT ![t].retained = TRUE]),
         routes' \in {routes, routes \ {t}},
         UNCHANGED <<auxKind, parent, waiting, needs, repeated, asked, chrome, paused, configured, auxInbox,
                     detached, detacher, auxPage, report>>,
         t \in routes' => detacher = t \/ Marked(t),
         chrome[t] = "attached" => ~paused[t] /\ t \in routes' /\ Marked(t) /\ (needs => configured[t])
  PROVE  AuxInvariant'
<1>1. \A s : ~Here(t, s)'
  BY HereNow DEF WorksAt
<1>2. /\ record' \in [Targets -> Routes!Records \cup {None}] /\ (record'[t] = None <=> record[t] = None)
      /\ record'[t] # None => record'[t].route = record[t].route
  <2>1. CASE record' = record
    BY <2>1 DEF WorksAt, AuxTypes
  <2>2. CASE record[t] # None /\ record' = [record EXCEPT ![t].retained = TRUE]
    <3> DEFINE m == [record[t] EXCEPT !.retained = TRUE]
    <3>1. record[t] \in Routes!Records
      BY <2>2 DEF WorksAt, AuxTypes
    <3>2. m \in Routes!Records /\ m.route = record[t].route
      BY <3>1 DEF Routes!Records
    <3>3. m # None
      BY <3>2, RouteAssumption
    <3>4. record' = [record EXCEPT ![t] = m]
      BY <2>2 DEF WorksAt, AuxTypes
    <3> HIDE DEF m
    <3>5. t \in Targets /\ record \in [Targets -> Routes!Records \cup {None}]
      BY DEF WorksAt, AuxTypes
    <3>6. record'[t] = m /\ record' \in [Targets -> Routes!Records \cup {None}]
      BY <3>2, <3>4, <3>5
    <3> QED BY <2>2, <3>2, <3>3, <3>6
  <2> QED BY <2>1, <2>2
<1>3. Marked(t)' <=> Marked(t)
  BY <1>2 DEF Marked
<1>4. AuxTypes'
  BY <1>2 DEF AuxTypes, IsOver, WorksAt, Routes!Readers
<1>5. Handles(r, t) /\ WhenClosed(r, t)
  <2>1. auxPage # "closed"
    BY DEF AuxInvariant, AuxClosed, WorksAt, Starting
  <2> QED BY <2>1 DEF Handles, WhenClosed, SameTarget, IsOver, WorksAt, AuxTypes
<1>6. Started(t)'
  BY <1>1 DEF Started
<1>7. chrome[t] # "none"
  BY DEF WorksAt
<1>8. Kept(t)'
  BY <1>1, <1>2, <1>3, <1>7 DEF Kept
<1> QED BY <1>4, <1>5, <1>6, <1>8, HandlerStep DEF WorksAt

(* The mark that makes the detachment of the target remove its route.      *)
LEMMA AuxMark == ASSUME AuxInvariant, NEW r \in Routes!Readers, Routes!Mark(r) PROVE AuxInvariant'
<1>1. PICK t : WorksAt(r, t, {"mark"})
  BY WorkIs DEF Routes!Mark, Routes!At
<1>2. UNCHANGED <<auxKind, parent, waiting, needs, repeated, asked, chrome, paused, configured, auxInbox, reader,
                  detached, detacher, auxPage, report>>
  BY DEF Routes!Mark, Routes!given
<1>3. {"mark"} \in SUBSET Starting /\ "configure" \in Starting
  BY DEF Starting
<1>4. /\ reader \in [Routes!Readers -> {"none", "prepared", "running", "ended"}]
      /\ record[t] = None => chrome[t] = "gone"
      /\ chrome[t] = "attached" => t \in routes
      /\ auxJob[r].pc = "mark" /\ chrome[t] # "none"
  <2>1. auxJob[r].pc = "mark" /\ auxJob[r].pc \in Starting
    BY <1>1, <1>3 DEF WorksAt
  <2> QED BY <1>1, <2>1, StartedIs DEF WorksAt, AuxTypes
<1>5. CASE record[t] = None /\ routes' = routes \ {t} /\ Routes!Ends(r) /\ UNCHANGED record
  <2>1. IsOver(r)
    BY <1>1, <1>5, EndsAtLast DEF WorksAt
  <2> QED BY <1>1, <1>2, <1>3, <1>4, <1>5, <2>1, AuxIsOver
<1>6. CASE /\ record[t] # None /\ record' = [record EXCEPT ![t].route = TRUE]
           /\ Routes!Goes(r, "configure") /\ UNCHANGED <<routes, auxTerminal>>
  <2>1. Marked(t)'
    <3>1. record[t] \in Routes!Records /\ t \in Targets /\ record \in [Targets -> Routes!Records \cup {None}]
      BY <1>1, <1>6 DEF WorksAt, AuxTypes
    <3>2. record'[t].route = TRUE /\ record'[t] \in Routes!Records
      BY <1>6, <3>1 DEF Routes!Records
    <3>3. record'[t] # None
      BY <3>2, RouteAssumption
    <3> QED BY <3>2, <3>3 DEF Marked
  <2> QED BY <1>1, <1>2, <1>3, <1>4, <1>6, <2>1, AuxGoesOn
<1> QED BY <1>1, <1>5, <1>6 DEF Routes!Mark, Routes!Of, WorksAt

(* The configuration of a worker, or what it needs none of.                *)
LEMMA AuxConfigure == ASSUME AuxInvariant, NEW r \in Routes!Readers, Routes!Configure(r) PROVE AuxInvariant'
<1>1. PICK t : WorksAt(r, t, {"configure"})
  BY WorkIs DEF Routes!Configure, Routes!At
<1>2. UNCHANGED <<auxKind, parent, waiting, needs, repeated, asked, chrome, paused, auxInbox, record, routes,
                  detached, detacher, auxPage, report, auxTerminal>>
  BY DEF Routes!Configure, Routes!given
<1>3. {"configure"} \in SUBSET Starting /\ "run" \in Starting /\ "failedPaused" \in Starting
  BY DEF Starting
<1>4. /\ auxJob[r].pc = "configure" /\ t \in Targets /\ chrome[t] # "none"
      /\ reader \in [Routes!Readers -> {"none", "prepared", "running", "ended"}]
      /\ configured \in [Targets -> BOOLEAN]
  BY <1>1 DEF WorksAt, AuxTypes
<1>5. /\ chrome[t] = "attached" => t \in routes /\ Marked(t)
      /\ t \in routes => detacher = t \/ Marked(t)
  BY <1>1, <1>4, StartedIs
<1>6. Marked(t)' <=> Marked(t)
  BY <1>2 DEF Marked
<1>7. CASE /\ configured' = [configured EXCEPT ![t] = TRUE]
           /\ reader' = [reader EXCEPT ![t] = IF auxKind[t] = "worker" THEN "prepared" ELSE @]
           /\ Routes!Goes(r, "run")
  <2>1. reader' \in [Routes!Readers -> {"none", "prepared", "running", "ended"}]
    BY <1>4, <1>7 DEF Routes!Readers
  <2>2. configured'[t]
    BY <1>4, <1>7
  <2> QED BY <1>1, <1>2, <1>3, <1>5, <1>6, <1>7, <2>1, <2>2, AuxGoesOn
<1>8. CASE UNCHANGED <<configured, reader>> /\ Routes!Goes(r, "failedPaused")
  BY <1>1, <1>2, <1>3, <1>4, <1>5, <1>6, <1>8, AuxGoesOn
<1> QED BY <1>1, <1>7, <1>8 DEF Routes!Configure, Routes!Of, WorksAt

(* The worker is let run.                                                *)
LEMMA AuxRun == ASSUME AuxInvariant, NEW r \in Routes!Readers, Routes!Run(r) PROVE AuxInvariant'
<1>1. PICK t : WorksAt(r, t, {"run"})
  BY WorkIs DEF Routes!Run, Routes!At
<1>2. UNCHANGED <<auxKind, parent, waiting, needs, repeated, asked, chrome, configured, auxInbox, reader, record,
                  routes, detached, detacher, auxPage, report, auxTerminal>>
  BY DEF Routes!Run, Routes!given
<1>3. {"run"} \in SUBSET Starting /\ "retain" \in Starting /\ "failed" \in Starting
  BY DEF Starting
<1>4. /\ auxJob[r].pc = "run" /\ t \in Targets /\ chrome[t] # "none"
      /\ reader \in [Routes!Readers -> {"none", "prepared", "running", "ended"}]
      /\ paused \in [Targets -> BOOLEAN]
  BY <1>1 DEF WorksAt, AuxTypes
<1>5. /\ chrome[t] = "attached" => t \in routes /\ Marked(t)
      /\ t \in routes => detacher = t \/ Marked(t)
      /\ needs => configured[t]
  BY <1>1, <1>4, StartedIs
<1>6. Marked(t)' <=> Marked(t)
  BY <1>2 DEF Marked
<1>7. PICK ok \in BOOLEAN : Routes!Resumes(t, ok) /\ Routes!Goes(r, IF ok THEN "retain" ELSE "failed")
  BY <1>1 DEF Routes!Run, Routes!Of, WorksAt
<1>8. CASE ok
  <2>1. paused' = [paused EXCEPT ![t] = FALSE] /\ Routes!Goes(r, "retain")
    BY <1>7, <1>8 DEF Routes!Resumes
  <2>2. ~paused'[t]
    BY <1>4, <2>1
  <2> QED BY <1>1, <1>2, <1>3, <1>4, <1>5, <1>6, <2>1, <2>2, AuxGoesOn
<1>9. CASE ~ok
  <2>1. paused' = paused /\ Routes!Goes(r, "failed")
    BY <1>7, <1>9 DEF Routes!Resumes
  <2> QED BY <1>1, <1>2, <1>3, <1>4, <1>5, <1>6, <2>1, AuxGoesOn
<1> QED BY <1>7, <1>8, <1>9

(* A worker that is kept, or whose detachment came first.                  *)
LEMMA AuxRetain == ASSUME AuxInvariant, NEW r \in Routes!Readers, Routes!RetainTarget(r) PROVE AuxInvariant'
<1>1. PICK t : WorksAt(r, t, {"retain"})
  BY WorkIs DEF Routes!RetainTarget, Routes!At
<1>2. UNCHANGED <<auxKind, parent, waiting, needs, repeated, asked, chrome, paused, configured, auxInbox,
                  detached, detacher, auxPage, report>>
  BY DEF Routes!RetainTarget, Routes!given
<1>3. {"retain"} \in SUBSET Starting /\ "retain" \in Starting
  BY DEF Starting
<1>4. /\ auxJob[r].pc = "retain" /\ t \in Targets /\ chrome[t] # "none"
      /\ reader \in [Routes!Readers -> {"none", "prepared", "running", "ended"}]
  BY <1>1 DEF WorksAt, AuxTypes
<1>5. /\ chrome[t] = "attached" => t \in routes /\ Marked(t)
      /\ t \in routes => detacher = t \/ Marked(t)
      /\ needs => configured[t]
      /\ ~paused[t] /\ (record[t] = None => chrome[t] = "gone")
  BY <1>1, <1>3, <1>4, StartedIs
<1>6. IsOver(r)
  BY <1>1, EndsAtLast DEF Routes!RetainTarget, WorksAt
<1>7. CASE record[t] = None /\ routes' = routes \ {t} /\ UNCHANGED <<reader, record>>
  BY <1>1, <1>2, <1>3, <1>4, <1>5, <1>6, <1>7, AuxIsOver
<1>8. CASE /\ record[t] # None /\ record' = [record EXCEPT ![t].retained = TRUE]
           /\ reader' = [reader EXCEPT ![t] = IF @ = "prepared" THEN "running" ELSE @]
           /\ UNCHANGED routes
  <2>1. reader' \in [Routes!Readers -> {"none", "prepared", "running", "ended"}]
    BY <1>4, <1>8
  <2> QED BY <1>1, <1>2, <1>3, <1>5, <1>6, <1>8, <2>1, AuxIsOver
<1> QED BY <1>1, <1>7, <1>8 DEF Routes!RetainTarget, Routes!Of, WorksAt

(* A worker whose start fails gives up its route, then what is recorded.   *)
LEMMA AuxFail == ASSUME AuxInvariant, NEW r \in Routes!Readers, Routes!Fail(r) PROVE AuxInvariant'
<1>1. PICK t : WorksAt(r, t, {"failed", "failedPaused", "salvage", "drop"})
  BY WorkIs DEF Routes!Fail, Routes!At
<1>2. UNCHANGED <<auxKind, parent, waiting, needs, repeated, asked, configured, auxInbox, reader,
                  detached, detacher, auxPage, report>>
  BY DEF Routes!Fail, Routes!given
<1>3. /\ {"failed", "failedPaused", "salvage", "drop"} \in SUBSET Starting
      /\ "salvage" \in Starting /\ "drop" \in Starting
  BY DEF Starting
<1>4. /\ auxJob[r].pc \in {"failed", "failedPaused", "salvage", "drop"} /\ t \in Targets
      /\ reader \in [Routes!Readers -> {"none", "prepared", "running", "ended"}]
      /\ paused \in [Targets -> BOOLEAN]
  BY <1>1 DEF WorksAt, AuxTypes
<1>5. t \in routes => detacher = t \/ Marked(t)
  BY <1>1, <1>4, StartedIs
<1>6. CASE /\ auxJob[r].pc \in {"failed", "failedPaused"}
           /\ routes' = (IF record[t] # None /\ record[t].route THEN routes \ {t} ELSE routes)
           /\ \E p \in {"drop", "salvage"} : Routes!Goes(r, p)
           /\ UNCHANGED <<record, chrome, paused, auxTerminal>>
  <2>1. PICK p \in {"drop", "salvage"} : Routes!Goes(r, p)
    BY <1>6
  <2>2. p \in Starting /\ (t \in routes' => detacher = t) /\ routes' \in {routes, routes \ {t}}
    BY <1>3, <1>5, <1>6 DEF Marked
  <2> QED BY <1>1, <1>2, <1>3, <1>4, <1>6, <2>1, <2>2, AuxGoesOn
<1>7. CASE /\ auxJob[r].pc = "salvage" /\ (paused' = paused \/ paused' = [paused EXCEPT ![t] = FALSE])
           /\ Routes!Goes(r, "drop") /\ UNCHANGED <<record, chrome, routes, auxTerminal>>
  <2>1. t \in routes' => detacher = t
    <3>1. auxJob[r].pc \in {"salvage", "drop"}
      BY <1>7
    <3>2. t \in routes => detacher = t
      BY <1>1, <3>1, StartedIs
    <3> QED BY <1>2, <1>7, <3>2
  <2> QED BY <1>1, <1>2, <1>3, <1>4, <1>7, <2>1, AuxGoesOn
<1>8. CASE auxJob[r].pc = "drop" /\ Routes!TakeAndDetach(r, t, TRUE) /\ UNCHANGED <<paused, routes>>
  <2>1. WorksAt(r, t, {"take", "drop"})
    BY <1>1, <1>8 DEF WorksAt
  <2> QED BY <1>2, <1>8, <2>1, AuxTake
<1>9. t = Routes!Of(r)
  BY <1>1 DEF WorksAt, Routes!Of
<1>10. CASE /\ Routes!At(r, "salvage") /\ \E ok \in BOOLEAN : Routes!Resumes(t, ok)
            /\ Routes!Goes(r, "drop") /\ UNCHANGED <<record, chrome, routes, auxTerminal>>
  BY <1>7, <1>10 DEF Routes!Resumes, Routes!At
<1> QED BY <1>6, <1>8, <1>9, <1>10 DEF Routes!Fail, Routes!At

(* A step that leaves the targets as they are.                             *)
LEMMA NothingMoves ==
  ASSUME AuxInvariant,
         UNCHANGED <<auxKind, parent, waiting, needs, chrome, paused, configured, auxInbox, auxJob,
                     record, routes, detached, detacher, auxPage, auxTerminal>>,
         reader' \in [Routes!Readers -> {"none", "prepared", "running", "ended"}]
  PROVE  AuxInvariant'
<1>1. AuxTypes' /\ Routes!Readers' = Routes!Readers
  BY DEF AuxInvariant, AuxTypes, Routes!Readers
<1>2. AuxGone' /\ AuxClosed'
  BY <1>1 DEF AuxInvariant, AuxGone, AuxClosed, Of
<1>3. ASSUME NEW r \in Routes!Readers PROVE Heard(r)'
  BY DEF AuxInvariant, Heard, Of
<1>4. ASSUME NEW t \in Targets PROVE Started(t)' /\ Kept(t)'
  <2>1. Started(t) /\ Kept(t)
    BY DEF AuxInvariant
  <2>2. Untouched(t)
    BY DEF Untouched
  <2> QED BY <2>1, <2>2, UntouchedStays
<1> QED BY <1>1, <1>2, <1>3, <1>4 DEF AuxInvariant

(* An announcement that is read is the first of its stream.                *)
LEMMA AuxRead == ASSUME AuxInvariant, NEW r \in Routes!Readers, Routes!Read(r) PROVE AuxInvariant'
<1> DEFINE q == auxInbox[r]
<1>1. /\ AuxTypes /\ auxJob[r] = None /\ q \in Seq(Targets) /\ q # <<>> /\ Heard(r)
      /\ UNCHANGED <<auxKind, parent, waiting, needs, repeated, asked, chrome, paused, configured, record, routes,
                     detached, detacher, auxPage, report, auxTerminal>>
  BY DEF Routes!Read, Routes!given, AuxInvariant, AuxTypes
<1>2. PICK t : t = Head(q)
  OBVIOUS
<1>3. PICK pc \in {"begin", "detach", "blank", "resume"}, b \in BOOLEAN :
        /\ auxJob' = [auxJob EXCEPT ![r] = [target |-> t, admitted |-> b, failed |-> FALSE, pc |-> pc]]
        /\ pc = "begin" => auxPage = "open"
  <2> DEFINE b == ~auxTerminal /\ auxPage = "open"
             pc == IF b /\ Routes!Auxiliary(t) THEN "begin"
                   ELSE CASE auxKind[t] = "unnamed" -> "detach" [] auxKind[t] = "blank" -> "blank"
                          [] OTHER -> "resume"
  <2>1. auxJob' = [auxJob EXCEPT ![r] = [target |-> t, admitted |-> b, failed |-> FALSE, pc |-> pc]]
    BY <1>2 DEF Routes!Read
  <2>2. pc \in {"begin", "detach", "blank", "resume"} /\ (pc = "begin" => auxPage = "open")
    OBVIOUS
  <2>3. b \in BOOLEAN
    OBVIOUS
  <2> HIDE DEF b, pc
  <2> QED BY <2>1, <2>2, <2>3
<1> DEFINE j == [target |-> t, admitted |-> b, failed |-> FALSE, pc |-> pc]
<1>4. /\ auxInbox' = [auxInbox EXCEPT ![r] = Tail(q)]
      /\ reader' \in [Routes!Readers -> {"none", "prepared", "running", "ended"}]
  BY <1>1 DEF Routes!Read, AuxTypes
<1> HIDE DEF q
<1>5. t \in Targets /\ Tail(q) \in Seq(Targets) /\ Of(q) = {t} \cup Of(Tail(q))
  BY <1>1, <1>2, OfLess
<1>6. parent[t] = r /\ chrome[t] # "none" /\ \A u \in Of(q) : parent[u] = r /\ chrome[u] # "none"
  BY <1>1, <1>5 DEF Heard, q
<1>7. j \in Routes!Jobs /\ j # None /\ j.target = t /\ j.pc = pc
  <2>1. j \in Routes!Jobs /\ j.target = t /\ j.pc = pc
    BY <1>5 DEF Routes!Jobs
  <2> QED BY <2>1, RouteAssumption
<1>8. auxJob' = [auxJob EXCEPT ![r] = j]
  BY <1>3
<1> HIDE DEF j
<1>9. /\ auxJob'[r] = j /\ \A x \in Routes!Readers \ {r} : auxJob'[x] = auxJob[x] /\ auxInbox'[x] = auxInbox[x]
      /\ auxInbox'[r] = Tail(q)
  BY <1>1, <1>4, <1>8 DEF AuxTypes
<1>10. AuxTypes'
  BY <1>1, <1>4, <1>5, <1>7, <1>8 DEF AuxTypes, Routes!Readers
<1>11. AuxGone'
  BY <1>1 DEF AuxInvariant, AuxGone, Of
<1>12. AuxClosed'
  BY <1>1, <1>3, <1>7, <1>9 DEF AuxInvariant, AuxClosed, Routes!Readers
<1>13. ASSUME NEW x \in Routes!Readers PROVE Heard(x)'
  <2>1. CASE x = r
    <3>1. Of(auxInbox[x])' = Of(Tail(q))
      BY <1>9, <2>1 DEF Of
    <3> QED BY <1>1, <1>5, <1>6, <1>7, <1>9, <2>1, <3>1 DEF Heard
  <2>2. CASE x # r
    BY <1>1, <1>9, <2>2 DEF AuxInvariant, Heard, Of
  <2> QED BY <2>1, <2>2
<1>14. ASSUME NEW u \in Targets PROVE Started(u)' /\ Kept(u)'
  <2>1. Started(u) /\ Kept(u) /\ parent[u] \in Routes!Readers
    BY <1>1 DEF AuxInvariant, AuxTypes
  <2>2. CASE parent[u] # r
    <3>1. Untouched(u)
      BY <1>1, <1>9, <2>1, <2>2 DEF Untouched
    <3> QED BY <2>1, <3>1, UntouchedStays
  <2>3. CASE parent[u] = r
    <3>1. \A s : ~Here(u, s) /\ (Here(u, s)' => pc \in s)
      BY <1>1, <1>7, <1>9, <2>3 DEF Here
    <3>2. Started(u)'
      <4>1. pc \notin Starting
        BY DEF Starting
      <4> QED BY <3>1, <4>1, NotStarting
    <3>3. \/ auxJob'[parent'[u]] # None /\ auxJob'[parent'[u]].target = u
          \/ u \in Of(auxInbox[parent[u]])'
          \/ u \notin Of(q)
      <4>1. parent'[u] = r /\ Of(auxInbox[parent[u]])' = Of(Tail(q))
        BY <1>1, <1>9, <2>3 DEF Of
      <4> QED BY <1>5, <1>7, <1>9, <4>1
    <3>4. Kept(u)'
      BY <1>1, <2>1, <2>3, <3>1, <3>3 DEF Kept, Marked, q
    <3> QED BY <3>2, <3>4
  <2> QED BY <2>2, <2>3
<1> QED BY <1>10, <1>11, <1>12, <1>13, <1>14 DEF AuxInvariant, Routes!Readers

(* A reader that stops leaves what it has not read.                        *)
LEMMA AuxReaderStops ==
  ASSUME AuxInvariant, NEW r \in Routes!Readers, Routes!ReaderStops(r) PROVE AuxInvariant'
<1>1. /\ UNCHANGED <<auxKind, parent, waiting, needs, repeated, asked, chrome, paused, configured, auxInbox, auxJob,
                     record, routes, detached, detacher, auxPage, report, auxTerminal>>
      /\ reader' = [reader EXCEPT ![r] = "ended"]
  BY DEF Routes!ReaderStops, Routes!given
<1> QED BY <1>1, NothingMoves DEF AuxInvariant, AuxTypes

(* The reader of detachments: a target that is gone loses its record, and  *)
(* its route is removed next.                                              *)
LEMMA AuxReadDetached == ASSUME AuxInvariant, Routes!ReadDetached PROVE AuxInvariant'
<1>1. /\ AuxTypes /\ auxPage = "open" /\ detacher = None /\ detached # <<>> /\ detached \in Seq(Targets)
      /\ UNCHANGED <<auxKind, parent, waiting, needs, repeated, asked, chrome, paused, configured, auxInbox, reader,
                     auxJob, routes, auxPage, report, auxTerminal>>
  BY DEF Routes!ReadDetached, Routes!given, AuxInvariant, AuxTypes
<1>2. PICK t : t = Head(detached)
  OBVIOUS
<1>3. /\ detacher' = IF record[t] # None /\ record[t].route THEN t ELSE None
      /\ record' = [record EXCEPT ![t] = None] /\ detached' = Tail(detached)
  BY <1>2 DEF Routes!ReadDetached
<1>4. t \in Targets /\ Tail(detached) \in Seq(Targets) /\ Of(detached) = {t} \cup Of(Tail(detached))
  BY <1>1, <1>2, OfLess
<1>5. chrome[t] = "gone" /\ \A u \in Of(Tail(detached)) : chrome[u] = "gone"
  BY <1>4 DEF AuxInvariant, AuxGone
<1>6. AuxTypes' /\ Routes!Readers' = Routes!Readers
  BY <1>1, <1>3, <1>4 DEF AuxTypes, Routes!Readers
<1>7. AuxGone'
  <2>1. Of(detached)' = Of(Tail(detached))
    BY <1>3 DEF Of
  <2> QED BY <1>1, <1>3, <1>5, <2>1 DEF AuxGone
<1>8. AuxClosed'
  BY <1>1 DEF AuxClosed
<1>9. ASSUME NEW r \in Routes!Readers PROVE Heard(r)'
  BY <1>1 DEF AuxInvariant, Heard, Of
<1>10. ASSUME NEW u \in Targets PROVE Started(u)' /\ Kept(u)'
  <2>1. Started(u) /\ Kept(u) /\ u # None /\ record \in [Targets -> Routes!Records \cup {None}]
    BY <1>1, RouteAssumption DEF AuxInvariant, AuxTypes
  <2>2. CASE u # t
    <3>1. Untouched(u)
      BY <1>1, <1>3, <2>1, <2>2 DEF Untouched
    <3> QED BY <2>1, <3>1, UntouchedStays
  <2>3. CASE u = t
    <3>1. \A s : Here(u, s)' <=> Here(u, s)
      BY <1>1 DEF Here
    <3>2. record'[u] = None /\ chrome'[u] = "gone" /\ detacher # u /\ (Marked(u) => detacher' = u) /\ ~Marked(u)'
      BY <1>1, <1>3, <1>5, <2>1, <2>3 DEF Marked
    <3>3. Started(u)'
      BY <1>1, <2>1, <3>1, <3>2 DEF Started
    <3>4. Kept(u)'
      BY <1>1, <2>1, <3>1, <3>2 DEF Kept
    <3> QED BY <3>3, <3>4
  <2> QED BY <2>2, <2>3
<1> QED BY <1>6, <1>7, <1>8, <1>9, <1>10 DEF AuxInvariant

(* The route of a target that is gone is removed.                        *)
LEMMA AuxRemoveDetached == ASSUME AuxInvariant, Routes!RemoveDetached PROVE AuxInvariant'
<1>1. /\ AuxTypes /\ detacher # None /\ routes' = routes \ {detacher} /\ detacher' = None
      /\ UNCHANGED <<auxKind, parent, waiting, needs, repeated, asked, chrome, paused, configured, auxInbox, reader,
                     auxJob, record, detached, auxPage, report, auxTerminal>>
  BY DEF Routes!RemoveDetached, Routes!given, AuxInvariant
<1>2. chrome[detacher] = "gone"
  BY <1>1 DEF AuxInvariant, AuxGone
<1>3. AuxTypes' /\ Routes!Readers' = Routes!Readers
  BY <1>1 DEF AuxTypes, Routes!Readers
<1>4. AuxGone' /\ AuxClosed'
  BY <1>1, <1>3 DEF AuxInvariant, AuxGone, AuxClosed, Of
<1>5. ASSUME NEW r \in Routes!Readers PROVE Heard(r)'
  BY <1>1 DEF AuxInvariant, Heard, Of
<1>6. ASSUME NEW u \in Targets PROVE Started(u)' /\ Kept(u)'
  <2>1. Started(u) /\ Kept(u) /\ u # None
    BY <1>1, RouteAssumption DEF AuxInvariant
  <2>2. CASE u # detacher
    <3>1. Untouched(u)
      BY <1>1, <2>1, <2>2 DEF Untouched
    <3> QED BY <2>1, <3>1, UntouchedStays
  <2>3. CASE u = detacher
    <3>1. \A s : Here(u, s)' <=> Here(u, s)
      BY <1>1 DEF Here
    <3>2. u \notin routes' /\ chrome'[u] = "gone" /\ (Marked(u)' <=> Marked(u)) /\ record'[u] = record[u]
      BY <1>1, <1>2, <2>3 DEF Marked
    <3>3. Started(u)'
      BY <1>1, <2>1, <3>1, <3>2 DEF Started
    <3>4. Kept(u)'
      BY <1>1, <2>1, <3>1, <3>2 DEF Kept
    <3> QED BY <3>3, <3>4
  <2> QED BY <2>2, <2>3
<1> QED BY <1>3, <1>4, <1>5, <1>6 DEF AuxInvariant

(* A closed page has let go of every record and of the routes it marked.   *)
LEMMA AuxClosing ==
  ASSUME AuxInvariant, Routes!CleanUp \/ Routes!Finalize PROVE AuxInvariant'
<1>1. /\ AuxTypes /\ \A r \in Routes!Readers : auxJob[r] = None
      /\ record' = [t \in Targets |-> None] /\ auxPage' = "closed"
      /\ UNCHANGED <<auxKind, parent, waiting, needs, repeated, asked, paused, configured, auxInbox, reader,
                     auxJob, detached, detacher, auxTerminal>>
  BY DEF Routes!CleanUp, Routes!Finalize, Routes!Drained, Routes!given, AuxInvariant
<1>2. routes' \subseteq routes /\ \A t \in Targets : Marked(t) => t \notin routes'
  BY DEF Routes!CleanUp, Routes!Finalize, Marked
<1>3. \/ chrome' = chrome
      \/ \E some : chrome' = [t \in Targets |-> IF record[t] # None /\ t \notin some THEN "gone" ELSE chrome[t]]
  BY DEF Routes!CleanUp, Routes!Finalize
<1>4. chrome' \in [Targets -> {"none", "attached", "gone"}]
  BY <1>1, <1>3 DEF AuxTypes
<1>5. \A t \in Targets : \/ chrome'[t] = chrome[t]
                         \/ record[t] # None /\ chrome'[t] = "gone"
  BY <1>3
<1>6. AuxTypes' /\ Routes!Readers' = Routes!Readers
  BY <1>1, <1>2, <1>4 DEF AuxTypes, Routes!Readers
<1>7. ASSUME NEW t \in Targets
      PROVE  /\ Started(t) /\ Kept(t) /\ parent[t] \in Routes!Readers /\ record'[t] = None /\ ~Marked(t)'
             /\ \A s : ~Here(t, s) /\ ~Here(t, s)'
  BY <1>1 DEF AuxInvariant, AuxTypes, Here, Marked
<1>8. ASSUME NEW t \in Targets, t \in routes' PROVE detacher = t
  BY <1>2, <1>7, <1>8 DEF Kept
<1>9. AuxGone'
  <2>1. Of(detached) \subseteq Targets /\ Of(detached)' = Of(detached) /\ detacher \in Targets \cup {None}
    BY <1>1 DEF AuxTypes, Of
  <2> QED BY <1>1, <1>5, <2>1 DEF AuxInvariant, AuxGone
<1>10. AuxClosed'
  BY <1>1, <1>6, <1>7, <1>8 DEF AuxClosed, AuxTypes
<1>11. ASSUME NEW r \in Routes!Readers PROVE Heard(r)'
  <2>1. Of(auxInbox[r]) \subseteq Targets /\ Of(auxInbox[r])' = Of(auxInbox[r])
    BY <1>1 DEF AuxTypes, Of
  <2> QED BY <1>1, <1>5, <1>7, <2>1 DEF AuxInvariant, Heard
<1>12. ASSUME NEW t \in Targets PROVE Started(t)' /\ Kept(t)'
  <2>1. Started(t)'
    BY <1>7 DEF Started
  <2>2. chrome'[t] = "attached" => chrome[t] = "attached"
    BY <1>5
  <2>3. t \in Of(auxInbox[parent[t]]) => t \in Of(auxInbox[parent[t]])'
    BY <1>1 DEF Of
  <2>4. Kept(t)'
    BY <1>1, <1>7, <1>8, <2>2, <2>3 DEF Kept
  <2> QED BY <2>1, <2>4
<1> QED BY <1>6, <1>9, <1>10, <1>11, <1>12 DEF AuxInvariant

(* Network events are asked for.                                         *)
LEMMA AuxRequestNetwork == ASSUME AuxInvariant, Routes!RequestNetwork PROVE AuxInvariant'
<1>1. UNCHANGED <<auxKind, parent, waiting, needs, chrome, paused, configured, auxInbox, reader, auxJob,
                  record, routes, detached, detacher, auxPage, auxTerminal>>
  BY DEF Routes!RequestNetwork, Routes!given
<1> QED BY <1>1, NothingMoves DEF AuxInvariant, AuxTypes

(* Targets that are attached may go, which what is told of them may say.   *)
LEMMA AuxFades ==
  ASSUME AuxInvariant, chrome' \in [Targets -> {"none", "attached", "gone"}],
         \A t \in Targets : chrome'[t] = chrome[t] \/ (chrome[t] # "none" /\ chrome'[t] = "gone"),
         detached' \in Seq(Targets), \A t \in Of(detached') : t \in Of(detached) \/ chrome'[t] = "gone",
         auxPage' \in {"open", "closing", "destroyed", "closed"}, auxPage' = "closed" => auxPage = "closed",
         UNCHANGED <<auxKind, parent, waiting, needs, paused, configured, auxInbox, reader, auxJob,
                     record, routes, detacher, auxTerminal>>
  PROVE  AuxInvariant'
<1>1. AuxTypes' /\ Routes!Readers' = Routes!Readers
  BY DEF AuxInvariant, AuxTypes, Routes!Readers
<1>2. AuxGone'
  <2>1. Of(detached) \subseteq Targets /\ Of(detached)' = Of(detached') /\ detacher \in Targets \cup {None}
    BY DEF AuxInvariant, AuxTypes, Of
  <2> QED BY <2>1 DEF AuxInvariant, AuxGone
<1>3. AuxClosed'
  BY <1>1 DEF AuxInvariant, AuxClosed
<1>4. ASSUME NEW r \in Routes!Readers PROVE Heard(r)'
  <2>1. Of(auxInbox[r]) \subseteq Targets /\ Of(auxInbox[r])' = Of(auxInbox[r]) /\ Heard(r)
    BY DEF AuxInvariant, AuxTypes, Of
  <2>2. auxJob[r] # None => auxJob[r].target \in Targets
    BY AtWork
  <2> QED BY <2>1, <2>2 DEF Heard
<1>5. ASSUME NEW t \in Targets PROVE Started(t)' /\ Kept(t)'
  <2>1. Started(t) /\ Kept(t)
    BY DEF AuxInvariant
  <2>2. CASE chrome'[t] = chrome[t]
    <3>1. Untouched(t)
      BY <2>2 DEF Untouched
    <3> QED BY <2>1, <3>1, UntouchedStays
  <2>3. CASE chrome[t] # "none" /\ chrome'[t] = "gone"
    <3>1. (\A s : Here(t, s)' <=> Here(t, s)) /\ (Marked(t)' <=> Marked(t))
      BY DEF Here, Marked
    <3>2. Started(t)'
      BY <2>1, <2>3, <3>1 DEF Started
    <3>3. Kept(t)'
      BY <2>1, <2>3, <3>1 DEF Kept
    <3> QED BY <3>2, <3>3
  <2> QED BY <2>2, <2>3
<1> QED BY <1>1, <1>2, <1>3, <1>4, <1>5 DEF AuxInvariant

(* The close of the page, or its destruction.                            *)
LEMMA AuxBeginClose ==
  ASSUME AuxInvariant, NEW how \in {"closing", "destroyed"}, Routes!BeginPageClose(how) PROVE AuxInvariant'
<1>1. /\ auxPage' = how /\ AuxTypes
      /\ chrome' = (IF how = "destroyed" THEN [t \in Targets |-> IF chrome[t] = "none" THEN "none" ELSE "gone"]
                    ELSE chrome)
      /\ UNCHANGED <<auxKind, parent, waiting, needs, paused, configured, auxInbox, reader, auxJob,
                     record, routes, detached, detacher, auxTerminal>>
  BY DEF Routes!BeginPageClose, Routes!given, AuxInvariant
<1>2. /\ chrome' \in [Targets -> {"none", "attached", "gone"}]
      /\ \A t \in Targets : chrome'[t] = chrome[t] \/ (chrome[t] # "none" /\ chrome'[t] = "gone")
      /\ detached' \in Seq(Targets) /\ \A t \in Of(detached') : t \in Of(detached) \/ chrome'[t] = "gone"
  BY <1>1 DEF AuxTypes
<1> QED BY <1>1, <1>2, AuxFades

(* The targets that go together are told one after the other.              *)
LEMMA AuxOneByOne ==
  ASSUME NEW S, IsFiniteSet(S) PROVE Routes!SetToSeq(S) \in Seq(S)
<1>1. PICK n \in Nat : ExistsBijection(1 .. n, S)
  BY FS_NatBijection
<1>2. Cardinality(S) = n
  BY <1>1, FS_CountingElements
<1>3. PICK f \in [1 .. n -> S] : \A a, b \in 1 .. n : f[a] = f[b] => a = b
  BY <1>1 DEF ExistsBijection, Bijection, Injection, IsInjective
<1>4. Routes!IsInjective(f)
  BY <1>3 DEF Routes!IsInjective
<1>5. Routes!Cardinality(S) = Cardinality(S)
  BY DEF Routes!Cardinality, Cardinality
<1>6. Routes!SetToSeq(S) \in [1 .. n -> S]
  BY <1>2, <1>4, <1>5 DEF Routes!SetToSeq
<1> QED BY <1>6

(* A target goes, and what hangs on it.                                  *)
LEMMA AuxDetachTarget ==
  ASSUME AuxInvariant, NEW t \in Targets, Routes!DetachTarget(t) PROVE AuxInvariant'
<1> DEFINE gone == {t} \cup {u \in Targets : parent[u] = t /\ chrome[u] = "attached"}
           q == Routes!SetToSeq(gone)
<1>1. /\ AuxTypes /\ chrome[t] = "attached"
      /\ chrome' = [u \in Targets |-> IF u \in gone THEN "gone" ELSE chrome[u]]
      /\ detached' = detached \o q
      /\ UNCHANGED <<auxKind, parent, waiting, needs, paused, configured, auxInbox, reader, auxJob,
                     record, routes, detacher, auxPage, auxTerminal>>
  BY DEF Routes!DetachTarget, Routes!given, AuxInvariant
<1>2. gone \subseteq Targets /\ \A u \in gone : chrome[u] = "attached"
  BY <1>1
<1>3. q \in Seq(gone)
  <2>1. IsFiniteSet(gone)
    BY <1>2, FS_Subset, RouteAssumption
  <2> QED BY <2>1, AuxOneByOne
<1> HIDE DEF gone, q
<1>4. q \in Seq(Targets) /\ Of(q) \subseteq gone /\ detached \in Seq(Targets)
  BY <1>1, <1>2, <1>3 DEF Of, AuxTypes
<1>5. detached' \in Seq(Targets) /\ Of(detached') \subseteq Of(detached) \cup Of(q)
  <2>1. /\ detached \o q \in Seq(Targets) /\ Len(detached \o q) = Len(detached) + Len(q)
        /\ \A i \in 1 .. Len(detached) + Len(q) :
             (detached \o q)[i] = IF i <= Len(detached) THEN detached[i] ELSE q[i - Len(detached)]
    BY <1>4, ConcatProperties
  <2>2. ASSUME NEW i \in 1 .. Len(detached) + Len(q) PROVE (detached \o q)[i] \in Of(detached) \cup Of(q)
    <3>1. Len(detached) \in Nat /\ Len(q) \in Nat /\ DOMAIN detached = 1 .. Len(detached) /\ DOMAIN q = 1 .. Len(q)
      BY <1>4
    <3>2. CASE i <= Len(detached)
      BY <2>1, <3>1, <3>2 DEF Of
    <3>3. CASE ~(i <= Len(detached))
      <4>1. i - Len(detached) \in DOMAIN q
        BY <3>1, <3>3
      <4> QED BY <2>1, <3>3, <4>1 DEF Of
    <3> QED BY <3>2, <3>3
  <2>3. DOMAIN (detached \o q) = 1 .. Len(detached) + Len(q)
    BY <2>1
  <2> QED BY <1>1, <2>1, <2>2, <2>3 DEF Of
<1>6. /\ chrome' \in [Targets -> {"none", "attached", "gone"}]
      /\ \A u \in Targets : chrome'[u] = chrome[u] \/ (chrome[u] # "none" /\ chrome'[u] = "gone")
      /\ \A u \in gone : chrome'[u] = "gone"
  BY <1>1, <1>2 DEF AuxTypes
<1>7. \A u \in Of(detached') : u \in Of(detached) \/ chrome'[u] = "gone"
  BY <1>4, <1>5, <1>6
<1> QED BY <1>1, <1>5, <1>6, <1>7, AuxFades DEF AuxTypes

(* One more announcement, of a target that is attached by then.            *)
LEMMA AuxAnnounced ==
  ASSUME AuxInvariant, NEW t \in Targets, AuxTypes', NEW r, r = parent[t],
         auxInbox' = [auxInbox EXCEPT ![r] = Append(@, t)],
         chrome'[t] = "attached", \A u \in Targets \ {t} : chrome'[u] = chrome[u] /\ paused'[u] = paused[u],
         chrome[t] = "attached" => paused'[t] = paused[t], chrome[t] # "gone",
         UNCHANGED <<parent, needs, configured, auxJob, record, routes, detached, detacher, auxPage, auxTerminal>>
  PROVE  AuxInvariant'
<1>1. /\ AuxTypes /\ r \in Routes!Readers /\ auxInbox[r] \in Seq(Targets)
      /\ Started(t) /\ Kept(t) /\ Routes!Readers' = Routes!Readers
  BY DEF AuxInvariant, AuxTypes, Routes!Readers
<1>2. /\ auxInbox'[r] = Append(auxInbox[r], t)
      /\ \A x \in Routes!Readers \ {r} : auxInbox'[x] = auxInbox[x]
      /\ Of(Append(auxInbox[r], t)) = Of(auxInbox[r]) \cup {t}
  BY <1>1, OfMore DEF AuxTypes
<1>3. ASSUME NEW x \in Routes!Readers
      PROVE  Of(auxInbox[x]) \subseteq Of(auxInbox'[x]) /\ Of(auxInbox'[x]) \subseteq Of(auxInbox[x]) \cup {t}
             /\ (x # r => Of(auxInbox'[x]) = Of(auxInbox[x]))
  <2>1. CASE x = r
    BY <1>2, <2>1
  <2>2. CASE x # r
    BY <1>2, <2>2
  <2> QED BY <2>1, <2>2
<1>4. AuxGone'
  <2>1. Of(detached) \subseteq Targets /\ Of(detached)' = Of(detached) /\ detacher \in Targets \cup {None}
    BY <1>1 DEF AuxTypes, Of
  <2>2. \A u \in Targets : chrome[u] = "gone" => chrome'[u] = "gone"
    OBVIOUS
  <2> QED BY <2>1, <2>2 DEF AuxInvariant, AuxGone
<1>5. AuxClosed'
  BY <1>1 DEF AuxInvariant, AuxClosed
<1>6. ASSUME NEW x \in Routes!Readers PROVE Heard(x)'
  <2>1. Heard(x) /\ Of(auxInbox[x]) \subseteq Targets /\ (auxJob[x] # None => auxJob[x].target \in Targets)
    BY <1>1, AtWork DEF AuxInvariant, AuxTypes, Of
  <2>2. \A u \in Targets : chrome[u] # "none" => chrome'[u] # "none"
    OBVIOUS
  <2>3. Of(auxInbox[x])' = Of(auxInbox'[x])
    BY DEF Of
  <2>4. ASSUME NEW u \in Of(auxInbox'[x]) PROVE parent[u] = x /\ chrome'[u] # "none"
    <3>1. CASE u \in Of(auxInbox[x])
      BY <2>1, <2>2, <3>1 DEF Heard
    <3>2. CASE u \notin Of(auxInbox[x])
      BY <1>3, <3>2
    <3> QED BY <3>1, <3>2
  <2> QED BY <2>1, <2>2, <2>3, <2>4 DEF Heard
<1>7. ASSUME NEW u \in Targets PROVE Started(u)' /\ Kept(u)'
  <2>1. Started(u) /\ Kept(u) /\ parent[u] \in Routes!Readers
    BY <1>1 DEF AuxInvariant, AuxTypes
  <2>2. CASE u # t \/ chrome[t] = "attached"
    <3>1. chrome'[u] = chrome[u] /\ paused'[u] = paused[u]
      BY <2>2
    <3>2. u \in Of(auxInbox[parent[u]]) => u \in Of(auxInbox'[parent[u]])
      BY <1>3, <2>1
    <3>3. Untouched(u)
      BY <3>1, <3>2 DEF Untouched
    <3> QED BY <2>1, <3>3, UntouchedStays
  <2>3. CASE u = t /\ chrome[t] = "none"
    <3>1. record[t] = None
      BY <2>1, <2>3 DEF Kept
    <3>2. \A s : ~Here(t, s)
      <4>1. ~(auxJob[r] # None /\ auxJob[r].target = t)
        BY <1>1, <2>3, AtWork
      <4> QED BY <4>1 DEF Here
    <3>3. (\A s : ~Here(t, s)') /\ (Marked(t)' <=> Marked(t))
      BY <3>2 DEF Here, Marked
    <3>4. Started(t)'
      BY <3>3 DEF Started
    <3>5. t \in Of(auxInbox[parent[t]])'
      BY <1>2 DEF Of
    <3>6. Kept(t)'
      BY <1>1, <3>1, <3>2, <3>3, <3>5 DEF Kept
    <3> QED BY <2>3, <3>4, <3>6
  <2>4. chrome[t] \in {"none", "attached"}
    BY <1>1 DEF AuxTypes
  <2> QED BY <2>2, <2>3, <2>4
<1> QED BY <1>1, <1>4, <1>5, <1>6, <1>7 DEF AuxInvariant

(* Chrome attaches a target and announces it.                            *)
LEMMA AuxAttach ==
  ASSUME AuxInvariant, NEW t \in Targets, Routes!Attach(t) PROVE AuxInvariant'
<1>1. PICK r : r = parent[t]
  OBVIOUS
<1>2. /\ AuxTypes /\ chrome[t] = "none" /\ r \in Routes!Readers
      /\ chrome' = [chrome EXCEPT ![t] = "attached"] /\ paused' = [paused EXCEPT ![t] = waiting[t]]
      /\ auxInbox' = [auxInbox EXCEPT ![r] = Append(@, t)]
      /\ UNCHANGED <<auxKind, parent, waiting, needs, configured, reader, auxJob, record, routes, detached, detacher,
                     auxPage, auxTerminal>>
  BY <1>1 DEF Routes!Attach, Routes!given, AuxInvariant, AuxTypes
<1>3. /\ Append(auxInbox[r], t) \in Seq(Targets) /\ chrome'[t] = "attached"
      /\ \A u \in Targets \ {t} : chrome'[u] = chrome[u] /\ paused'[u] = paused[u]
  BY <1>2, OfMore DEF AuxTypes
<1>4. AuxTypes'
  BY <1>2, <1>3 DEF AuxTypes, Routes!Readers
<1> QED BY <1>1, <1>2, <1>3, <1>4, AuxAnnounced

(* Chrome announces a target once more.                                  *)
LEMMA AuxRepeat ==
  ASSUME AuxInvariant, NEW t \in Targets, Routes!Repeat(t) PROVE AuxInvariant'
<1>1. PICK r : r = parent[t]
  OBVIOUS
<1>2. /\ AuxTypes /\ chrome[t] = "attached" /\ r \in Routes!Readers
      /\ auxInbox' = [auxInbox EXCEPT ![r] = Append(@, t)]
      /\ UNCHANGED <<auxKind, parent, waiting, needs, chrome, paused, configured, reader, auxJob, record, routes,
                     detached, detacher, auxPage, auxTerminal>>
  BY <1>1 DEF Routes!Repeat, AuxInvariant, AuxTypes
<1>3. Append(auxInbox[r], t) \in Seq(Targets)
  BY <1>2, OfMore DEF AuxTypes
<1>4. AuxTypes'
  BY <1>2, <1>3 DEF AuxTypes, Routes!Readers
<1> QED BY <1>1, <1>2, <1>3, <1>4, AuxAnnounced

(* Every step keeps the invariant.                                         *)
LEMMA AuxNext == AuxInvariant /\ [Routes!AuxiliaryNext]_(Routes!auVars) => AuxInvariant'
<1> SUFFICES ASSUME AuxInvariant, [Routes!AuxiliaryNext]_(Routes!auVars) PROVE AuxInvariant'
  OBVIOUS
<1>1. CASE UNCHANGED Routes!auVars
  <2>1. UNCHANGED <<auxKind, parent, waiting, needs, chrome, paused, configured, auxInbox, reader, auxJob,
                    record, routes, detached, detacher, auxPage, auxTerminal>>
    BY <1>1 DEF Routes!auVars
  <2> QED BY <2>1, NothingMoves DEF AuxInvariant, AuxTypes
<1>2. CASE \E r \in Routes!Readers :
             \/ Routes!Read(r) \/ Routes!ReaderStops(r) \/ Routes!LetGo(r) \/ Routes!Begin(r) \/ Routes!Again(r)
             \/ Routes!Unneeded(r) \/ Routes!AddRoute(r) \/ Routes!Mark(r) \/ Routes!Configure(r) \/ Routes!Run(r)
             \/ Routes!RetainTarget(r) \/ Routes!Fail(r)
  BY <1>2, AuxRead, AuxReaderStops, AuxLetGo, AuxBegin, AuxAgain, AuxUnneeded, AuxAddRoute, AuxMark, AuxConfigure,
     AuxRun, AuxRetain, AuxFail
<1>3. CASE \/ Routes!ReadDetached \/ Routes!RemoveDetached \/ Routes!CleanUp \/ Routes!Finalize
           \/ Routes!RequestNetwork \/ \E how \in {"closing", "destroyed"} : Routes!BeginPageClose(how)
  BY <1>3, AuxReadDetached, AuxRemoveDetached, AuxClosing, AuxRequestNetwork, AuxBeginClose
<1>4. CASE \E t \in Targets : Routes!Attach(t) \/ Routes!Repeat(t) \/ Routes!DetachTarget(t)
  BY <1>4, AuxAttach, AuxRepeat, AuxDetachTarget
<1> QED BY <1>1, <1>2, <1>3, <1>4 DEF Routes!AuxiliaryNext

(* The invariant says what is checked.                                   *)
LEMMA AuxIsSound == AuxInvariant => Routes!AuxiliaryTargetsAreSound
<1> SUFFICES ASSUME AuxInvariant PROVE Routes!AuxiliaryTargetsAreSound
  OBVIOUS
<1>1. ASSUME NEW t \in Targets
      PROVE  /\ Kept(t) /\ parent[t] \in Routes!Readers
             /\ \A s : Here(t, s) => Routes!HandledNow(t)
             /\ (auxJob[parent[t]] # None /\ auxJob[parent[t]].target = t) => Routes!HandledNow(t)
             /\ t \in Of(auxInbox[parent[t]]) => Routes!Announced(t)
  <2>1. Kept(t) /\ parent[t] \in Routes!Readers
    BY DEF AuxInvariant, AuxTypes
  <2>2. (auxJob[parent[t]] # None /\ auxJob[parent[t]].target = t) => Routes!HandledNow(t)
    BY <2>1 DEF Routes!HandledNow, Routes!Of
  <2>3. t \in Of(auxInbox[parent[t]]) => Routes!Announced(t)
    BY <2>1 DEF Routes!Announced, Routes!ToSet, Of
  <2>4. \A s : Here(t, s) => Routes!HandledNow(t)
    BY <2>2 DEF Here
  <2> QED BY <2>1, <2>2, <2>3, <2>4
<1>2. Routes!RoutesBelong
  <2>1. routes \subseteq Targets
    BY DEF AuxInvariant, AuxTypes
  <2> QED BY <1>1, <2>1 DEF Routes!RoutesBelong, Kept, Marked
<1>3. Routes!KeptWorkersAreConfigured
  BY <1>1 DEF Routes!KeptWorkersAreConfigured, Kept
<1>4. Routes!NoneWaits
  BY <1>1 DEF Routes!NoneWaits, Kept
<1>5. Routes!ClosedIsClean
  <2>1. \A t \in Targets : t # None
    BY RouteAssumption
  <2>2. routes \subseteq Targets
    BY DEF AuxInvariant, AuxTypes
  <2> QED BY <2>1, <2>2 DEF Routes!ClosedIsClean, AuxInvariant, AuxClosed
<1> QED BY <1>2, <1>3, <1>4, <1>5 DEF Routes!AuxiliaryTargetsAreSound
=============================================================================
