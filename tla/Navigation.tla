------------------------------ MODULE Navigation ------------------------------
(***************************************************************************)
(* src/runtime/navigation.rs, with the load state wait of wait.rs and the  *)
(* acknowledgement of frame.rs: goto, reload, history, expect_navigation   *)
(* and the first navigation of a created page.                             *)
(*                                                                         *)
(* A call subscribes to two event streams, sends a command, waits for the  *)
(* commit it asked for, for the load state, and asks Chrome which document *)
(* is there.  The page navigates on its own meanwhile, other calls too,    *)
(* and the frame store learns of each document later than Chrome.          *)
(*                                                                         *)
(* Abstracted: urls, but for whether the one of the document is still the  *)
(* one that was accepted; events of other frames, which are skipped; the   *)
(* fragment that decides redirect_observed.                                *)
(***************************************************************************)
EXTENDS Naturals, Sequences

CONSTANTS
  Calls,         \* navigations, possibly at the same time
  MaxDocuments,  \* bound on the documents Chrome commits
  MaxUrls        \* bound on the changes of a document's url

VARIABLES
  document,   \* Chrome's main document: its loader and the version of its url
  loaded,     \* loaders whose document has reached readyState "complete"
  starting,   \* the loader of the navigation under way, 0 if none
  loaders,    \* loaders given so far
  store,      \* the loader the frame store has applied
  unapplied,  \* commits the frame store has not yet read
  applied,    \* the loaders the store has applied
  call        \* the calls

chromeVars == <<document, loaded, starting, loaders>>
storeVars == <<store, unapplied, applied>>
navigationVars == <<chromeVars, storeVars, call>>

Kinds == {"goto", "reload", "history", "expect", "create"}
Unused == [kind |-> "none", pc |-> "idle", initial |-> 0, cross |-> <<>>, same |-> <<>>,
           open |-> {}, want |-> "none", own |-> 0, got |-> [loader |-> 0, url |-> 0],
           sent |-> FALSE, told |-> "none"]

In(c, pc) == call[c].pc = pc
To(c, pc) == call' = [call EXCEPT ![c].pc = pc]
\* The call fails, and tells whether its action was started.
Ends(c, pc, told) ==
  call' = [call EXCEPT ![c].pc = pc, ![c].told = told, ![c].open = {},
                       ![c].cross = <<>>, ![c].same = <<>>]
Fail(c, told) == Ends(c, "failed", told)

-----------------------------------------------------------------------------
(* Chrome *)

\* Every subscribed call is sent an event of the main frame.
Sent(calls, stream, event) ==
  [c \in Calls |-> IF stream \notin calls[c].open THEN calls[c]
                   ELSE IF stream = "cross" THEN [calls[c] EXCEPT !.cross = Append(@, event)]
                   ELSE [calls[c] EXCEPT !.same = Append(@, event)]]

\* A navigation to another document begins and replaces one under way.
Starts ==
  /\ loaders < MaxDocuments
  /\ loaders' = loaders + 1 /\ starting' = loaders'

Commit ==
  /\ starting # 0
  /\ document' = [loader |-> starting, url |-> document.url]
  /\ starting' = 0
  /\ unapplied' = Append(unapplied, starting)
  /\ call' = Sent(call, "cross", document')
  /\ UNCHANGED <<loaded, loaders, store, applied>>

Load ==
  /\ loaded' = loaded \cup {document.loader}
  /\ UNCHANGED <<document, starting, loaders, storeVars, call>>

WithinDocument(calls) ==
  /\ document.url < MaxUrls
  /\ document' = [document EXCEPT !.url = @ + 1]
  /\ call' = Sent(calls, "same", document')

PageNavigates ==
  \/ Starts /\ UNCHANGED <<document, loaded, storeVars, call>>
  \/ WithinDocument(call) /\ UNCHANGED <<loaded, starting, loaders, storeVars>>

\* The frame store's task reads the next commit.
Apply ==
  /\ unapplied # <<>>
  /\ store' = Head(unapplied) /\ unapplied' = Tail(unapplied)
  /\ applied' = applied \cup {store'}
  /\ UNCHANGED <<chromeVars, call>>

-----------------------------------------------------------------------------
(* The calls *)

Begin(c) ==
  /\ In(c, "idle")
  /\ \E k \in Kinds :
       call' = [call EXCEPT ![c].kind = k,
                            ![c].pc = CASE k = "goto" -> "resolve"
                                        [] k = "history" -> "entries"
                                        [] OTHER -> "identity"]
  /\ UNCHANGED <<chromeVars, storeVars>>

\* resolve_navigation_url: a relative url needs the document's base.
Resolve(c) ==
  /\ In(c, "resolve")
  /\ To(c, "identity") \/ Fail(c, "NotStarted")
  /\ UNCHANGED <<chromeVars, storeVars>>

\* GetNavigationHistory; it may have no such entry.
FindEntry(c) ==
  /\ In(c, "entries")
  /\ To(c, "identity") \/ Fail(c, "NotStarted") \/ To(c, "nowhere")
  /\ UNCHANGED <<chromeVars, storeVars>>

\* subscribe: the identity comes from the frame store, before the streams.
Identify(c) ==
  /\ In(c, "identity")
  /\ call' = [call EXCEPT ![c].initial = store, ![c].pc = "subscribe"]
  /\ UNCHANGED <<chromeVars, storeVars>>

Subscribe(c) ==
  /\ In(c, "subscribe")
  /\ \/ call' = [call EXCEPT ![c].open = {"cross"}] /\ call[c].open = {}
     \/ call' = [call EXCEPT ![c].open = {"cross", "same"}, ![c].pc = "dispatch"]
        /\ call[c].open = {"cross"}
     \/ Fail(c, "NotStarted")
  /\ UNCHANGED <<chromeVars, storeVars>>

\* The command reaches Chrome, and the answer tells what to wait for.
Answered(c, want, own) ==
  [call EXCEPT ![c].pc = "answer", ![c].want = want, ![c].own = own, ![c].sent = TRUE]

Dispatch(c) ==
  LET k == call[c].kind IN
  /\ In(c, "dispatch")
  /\ \/ /\ k # "expect" /\ Starts
        /\ call' = Answered(c, CASE k \in {"goto", "create"} -> "loader"
                                 [] k = "reload" -> "another"
                                 [] k = "history" -> "url", loaders')
        /\ UNCHANGED document
     \/ /\ k \in {"goto", "history"}
        /\ WithinDocument(Answered(c, IF k = "goto" THEN "same url" ELSE "url", 0))
        /\ UNCHANGED <<starting, loaders>>
     \/ /\ k = "expect" /\ call' = Answered(c, "any", 0)
        /\ UNCHANGED <<document, starting, loaders>>
     \/ /\ k \in {"goto", "create"} /\ call' = Answered(c, "refused", 0)
        /\ UNCHANGED <<document, starting, loaders>>
     \/ /\ call' = Answered(c, "error", 0)
        /\ UNCHANGED <<document, starting, loaders>>
  /\ UNCHANGED <<loaded, storeVars>>

\* validate_navigation_response: an error text or a download fails the call.
Answer(c) ==
  /\ In(c, "answer")
  /\ CASE call[c].want = "error" -> Fail(c, "Unknown")
       [] call[c].want = "refused" -> Fail(c, "Completed")
       [] OTHER -> To(c, "commit")
  /\ UNCHANGED <<chromeVars, storeVars>>

\* Mutant: any document is taken for the one that was asked for.
AcceptsAny(c, e) == call[c].want # "same url"

AcceptsCross(c, e) ==
  CASE call[c].want = "loader" -> e.loader = call[c].own
    [] call[c].want = "another" -> e.loader # call[c].initial
    [] call[c].want = "same url" -> FALSE
    [] call[c].want = "url" -> call[c].own \in {0, e.loader}
    [] call[c].want = "any" -> TRUE

AcceptsSame(c) == call[c].want \in {"same url", "url", "any"}

\* The navigation is there: wait for the load state, or, for a created page,
\* until the frame store has applied the document.
Committed(c, loader, url, calls) ==
  [calls EXCEPT ![c].got = [loader |-> loader, url |-> url],
                ![c].pc = IF call[c].kind = "create" THEN "apply" ELSE "load"]

ReadCross(c) ==
  /\ In(c, "commit") /\ call[c].cross # <<>>
  /\ LET e == Head(call[c].cross)
         read == [call EXCEPT ![c].cross = Tail(@)]
     IN  IF AcceptsCross(c, e) THEN call' = Committed(c, e.loader, e.url, read)
         ELSE IF call[c].want \in {"loader", "same url"} THEN Fail(c, "Completed")
         ELSE call' = read
  /\ UNCHANGED <<chromeVars, storeVars>>

\* The loader of a change within the document is taken from the store.
ReadSame(c) ==
  /\ In(c, "commit") /\ call[c].same # <<>>
  /\ LET e == Head(call[c].same)
         read == [call EXCEPT ![c].same = Tail(@)]
     IN  \/ AcceptsSame(c) /\ call' = Committed(c, call[c].initial, e.url, read)
         \/ call[c].want # "any" /\ call' = read   \* another url
  /\ UNCHANGED <<chromeVars, storeVars>>

\* wait_load_state_admitted polls document.readyState of whatever is there.
SeeLoaded(c) ==
  /\ In(c, "load") /\ document.loader \in loaded
  /\ To(c, "confirm")
  /\ UNCHANGED <<chromeVars, storeVars>>

\* Mutant: a created page is returned before its store knows its document.
SeeNothing(c) ==
  /\ In(c, "apply") /\ To(c, "confirm")
  /\ UNCHANGED <<chromeVars, storeVars>>

\* wait_main_document_applied
SeeApplied(c) ==
  /\ In(c, "apply") /\ call[c].got.loader \in applied
  /\ To(c, "confirm")
  /\ UNCHANGED <<chromeVars, storeVars>>

\* Mutant: only the url is compared.
ConfirmUrl(c) ==
  /\ In(c, "confirm")
  /\ IF call[c].got.url = document.url
     THEN Ends(c, "ok", "Completed")
     ELSE Fail(c, "Completed")
  /\ UNCHANGED <<chromeVars, storeVars>>

\* confirm_commit_identity
Confirm(c) ==
  /\ In(c, "confirm")
  /\ IF call[c].got = document
     THEN Ends(c, "ok", "Completed")
     ELSE Fail(c, "Completed")
  /\ UNCHANGED <<chromeVars, storeVars>>

\* A stream or an observation fails.  An error of the acknowledgement keeps
\* the completion it was made with.
Break(c) ==
  /\ call[c].pc \in {"commit", "load", "apply", "confirm"}
  /\ Fail(c, IF In(c, "apply") THEN "NotStarted" ELSE "Completed")
  /\ UNCHANGED <<chromeVars, storeVars>>

\* Mutant: a command that was not answered is taken for not sent.
ToldNotStarted(c) ==
  CASE call[c].pc \in {"resolve", "entries", "identity", "subscribe", "dispatch", "answer"} -> "NotStarted"
    [] OTHER -> "Completed"

\* Each stage ends with the call's deadline, and tells how far it came.
Told(c) ==
  CASE call[c].pc \in {"resolve", "entries", "identity", "subscribe"} -> "NotStarted"
    [] call[c].pc \in {"dispatch", "answer"} -> "Unknown"
    [] OTHER -> "Completed"

Ended(c) == call[c].pc \in {"idle", "ok", "failed", "nowhere"}

Expire(c) ==
  /\ ~Ended(c) /\ Fail(c, Told(c))
  /\ UNCHANGED <<chromeVars, storeVars>>

-----------------------------------------------------------------------------
Init ==
  /\ document = [loader |-> 1, url |-> 1] /\ loaded = {} /\ starting = 0 /\ loaders = 1
  /\ store = 1 /\ unapplied = <<>> /\ applied = {1}
  /\ call = [c \in Calls |-> Unused]

CallRuns(c) ==
  \/ Resolve(c) \/ FindEntry(c) \/ Identify(c) \/ Subscribe(c) \/ Dispatch(c) \/ Answer(c)
  \/ ReadCross(c) \/ ReadSame(c) \/ SeeLoaded(c) \/ SeeApplied(c) \/ Confirm(c)
  \/ Break(c) \/ Expire(c)

Next ==
  \/ Commit \/ Load \/ PageNavigates \/ Apply
  \/ \E c \in Calls : Begin(c) \/ CallRuns(c)

Spec == Init /\ [][Next]_navigationVars

-----------------------------------------------------------------------------
(* Properties *)

(* A navigation that succeeds reports a document that has reached the load  *)
(* state itself, although readyState is asked of whatever document is there *)
(* and commits overtake each other; and goto reports its own document.      *)
ReportsItsDocument ==
  \A c \in Calls : In(c, "ok") =>
    /\ call[c].kind # "create" => call[c].got.loader \in loaded
    /\ call[c].want = "loader" => call[c].got.loader = call[c].own

(* new_page returns when the frame store knows the page's document: what    *)
(* the caller does next is not resolved against the initial one.            *)
CreatedPageIsKnown ==
  \A c \in Calls : (In(c, "ok") /\ call[c].kind = "create") => call[c].got.loader \in applied

(* A caller that is told its navigation was not started can start it again: *)
(* Chrome has not been asked for it.  Page creation, which is rolled back,  *)
(* makes no such promise.                                                   *)
NotStartedIsHonest ==
  \A c \in Calls : (call[c].told = "NotStarted" /\ call[c].kind # "create") => ~call[c].sent

(* A navigation reports a document of its own that has loaded, a created    *)
(* page is known to its frame store, and "not started" is true.             *)
NavigationsAreHonest == ReportsItsDocument /\ CreatedPageIsKnown /\ NotStartedIsHonest
=============================================================================
