---------------------------- MODULE DaemonStorage ----------------------------
(***************************************************************************)
(* The daemon's commands on cookies and localStorage                        *)
(* (daemon/handler/session.rs), and the way a request finds its session,    *)
(* its tab and its browser (daemon/handler/common.rs), beside a session     *)
(* that is closed and opened again and a connection that is lost.           *)
(*                                                                          *)
(* Abstracted: cookies and entries are sets of names; a session has one     *)
(* tab; every BrowserContext of the session called "isolated" is a new one. *)
(***************************************************************************)
EXTENDS Naturals, FiniteSets

CONSTANTS
  Requests,       \* requests
  Commands,       \* the commands they may be
  Contexts,       \* BrowserContexts, the default one, then those of "isolated" in turn
  Given,          \* what an import or a set may bring: sets of names
  None

VARIABLES
  want,        \* per request: command, session, whether its parameters are right, names
  pc, answer,  \* per request
  found,       \* per request: context, tab, connection and second reading of the context
  session,     \* the sessions: whether each exists, is connected, its context, its active tab
  connection,  \* of the browser: a number, or None once it is lost
  alive,       \* contexts that exist in Chrome
  jar, entries, \* per context: cookies, localStorage of its tab's document
  touched,     \* ghost: contexts a request has read or written
  disturbed    \* ghost: another's change since a request's first command

dsVars == <<want, pc, answer, found, session, connection, alive, jar, entries, touched, disturbed>>

Sessions == {"default", "isolated"}
Cookie == {"cookies.get", "cookies.set", "cookies.clear"}
Local == {"local.get", "local.set"}
NoSession == [exists |-> FALSE, connected |-> FALSE, context |-> None, tab |-> None]

-----------------------------------------------------------------------------
(* Finding session, tab and browser *)

\* An import's state is checked as a whole, down to its last entry.
WellFormed(r) == want[r].wellFormed
Ends(r, code) == pc' = [pc EXCEPT ![r] = "ended"] /\ answer' = [answer EXCEPT ![r] = code]
Goes(r, next) == pc' = [pc EXCEPT ![r] = next] /\ UNCHANGED answer
Same == UNCHANGED <<want, session, connection, alive, jar, entries, touched, disturbed>>

\* session_name_param, the parameters of the cookie commands, resolve_session_selection.
Begin(r) ==
  /\ pc[r] = "begin"
  /\ IF want[r].cmd \in Cookie /\ ~WellFormed(r) THEN Ends(r, "InvalidArgument")
     ELSE IF ~session[want[r].session].exists THEN Ends(r, "SessionNotFound")
     ELSE Goes(r, IF want[r].cmd \in Cookie THEN "session" ELSE "tab")
  /\ UNCHANGED found /\ Same

\* resolve_target_selection, under a lock of its own: the active tab.
FindTab(r) ==
  /\ pc[r] = "tab"
  /\ LET s == session[want[r].session] IN
       IF ~s.exists THEN Ends(r, "SessionNotFound") /\ UNCHANGED found
       ELSE IF s.tab = None THEN Ends(r, "SessionNoTab") /\ UNCHANGED found
       ELSE Goes(r, "session") /\ found' = [found EXCEPT ![r].tab = s.tab]
  /\ Same

\* cookie_scope: no context id stands for the default context, and only for
\* the default session.
Scope(s) == s.context

\* check_connected, and the context or the tab; the lock is let go after.
ReadSession(r) ==
  /\ pc[r] = "session"
  /\ LET s == session[want[r].session] IN
       CASE ~s.exists -> Ends(r, "SessionNotFound") /\ UNCHANGED found
         [] s.exists /\ ~s.connected -> Ends(r, "ChromeDisconnected") /\ UNCHANGED found
         [] s.exists /\ s.connected /\ want[r].cmd \in Cookie /\ Scope(s) = None ->
              Ends(r, "ChromeDisconnected") /\ UNCHANGED found
         [] s.exists /\ s.connected /\ want[r].cmd \in Cookie /\ Scope(s) # None ->
              Goes(r, "browser") /\ found' = [found EXCEPT ![r].scope = Scope(s)]
         [] OTHER ->
              IF s.tab # found[r].tab THEN Ends(r, "TargetNotFound") /\ UNCHANGED found
              ELSE Goes(r, "browser") /\ UNCHANGED found
  /\ Same

\* state.browsers.get.
FindBrowser(r) ==
  /\ pc[r] = "browser"
  /\ IF connection = None THEN Ends(r, "ChromeDisconnected") /\ UNCHANGED found
     ELSE /\ found' = [found EXCEPT ![r].connection = connection]
          /\ Goes(r, IF want[r].cmd \in Cookie \cup Local THEN "send" ELSE "scope")
  /\ Same

\* session_cookie_context_id, after validate_storage_import_state.
FindScope(r) ==
  /\ pc[r] = "scope"
  /\ LET s == session[want[r].session] IN
       IF want[r].cmd = "import" /\ ~WellFormed(r) THEN Ends(r, "InvalidArgument") /\ UNCHANGED found
       ELSE IF ~s.exists THEN Ends(r, "SessionNotFound") /\ UNCHANGED found
       ELSE IF Scope(s) = None THEN Ends(r, "ChromeDisconnected") /\ UNCHANGED found
       ELSE Goes(r, "send") /\ found' = [found EXCEPT ![r].scope = Scope(s)]
  /\ Same

-----------------------------------------------------------------------------
(* The commands *)

\* A command needs its connection, and the context or the tab to be there.
Works(r, context) == found[r].connection = connection /\ context \in alive
Touch(r, context) == touched' = [touched EXCEPT ![r] = @ \cup {context}]

\* A change of one request is what disturbs the others that are under way.
Disturb(r) == disturbed' = {q \in Requests : pc[q] # "begin" /\ q # r} \cup disturbed

Fails(r) ==
  /\ pc[r] \in {"send", "set", "local"}
  /\ Ends(r, "DaemonError")
  /\ UNCHANGED found /\ Same

Change(r, context, cookies) ==
  /\ Works(r, context) /\ jar' = [jar EXCEPT ![context] = cookies]
  /\ Touch(r, context) /\ Disturb(r) /\ UNCHANGED entries

Cookies(r) ==
  LET context == found[r].scope IN
  /\ pc[r] = "send" /\ want[r].cmd \in Cookie
  /\ CASE want[r].cmd = "cookies.get" -> Works(r, context) /\ Touch(r, context) /\ UNCHANGED <<jar, entries, disturbed>>
       [] want[r].cmd = "cookies.set" -> Change(r, context, jar[context] \cup want[r].names)
       [] OTHER -> Change(r, context, {})
  /\ Ends(r, "ok")
  /\ UNCHANGED <<want, found, session, connection, alive>>

\* Runtime.evaluate in the tab; its document may throw.
InTab(r) ==
  LET context == found[r].tab IN
  /\ pc[r] = "send" /\ want[r].cmd \in Local
  /\ IF want[r].cmd = "local.set" /\ ~WellFormed(r)
     THEN Ends(r, "InvalidArgument") /\ UNCHANGED <<entries, touched, disturbed>>
     ELSE /\ Works(r, context) /\ Touch(r, context)
          /\ \/ Ends(r, "JsError") /\ UNCHANGED <<entries, disturbed>>
             \/ /\ want[r].cmd = "local.set"
                /\ entries' = [entries EXCEPT ![context] = @ \cup want[r].names]
                /\ Disturb(r) /\ Ends(r, "ok")
             \/ want[r].cmd = "local.get" /\ Ends(r, "ok") /\ UNCHANGED <<entries, disturbed>>
  /\ UNCHANGED <<want, found, session, connection, alive, jar>>

\* The cookies, then the entries.
Export(r) ==
  /\ want[r].cmd = "export"
  /\ \/ /\ pc[r] = "send" /\ Works(r, found[r].scope) /\ Touch(r, found[r].scope)
        /\ found' = [found EXCEPT ![r].cookies = jar[found[r].scope]]
        /\ Goes(r, "local")
     \/ /\ pc[r] = "local" /\ Works(r, found[r].tab) /\ Touch(r, found[r].tab)
        /\ \/ Ends(r, "JsError") /\ UNCHANGED found
           \/ found' = [found EXCEPT ![r].entries = entries[found[r].tab]] /\ Ends(r, "ok")
  /\ UNCHANGED <<want, session, connection, alive, jar, entries, disturbed>>

\* Mutant: an import without cookies leaves those there are.
AfterClear(r) == IF want[r].names = {} THEN jar[found[r].scope] ELSE {}

Cleared(r) == {}

ImportClears(r) ==
  /\ pc[r] = "send" /\ want[r].cmd = "import"
  /\ Change(r, found[r].scope, Cleared(r))
  /\ Goes(r, IF want[r].names = {} THEN "local" ELSE "set")
  /\ UNCHANGED <<want, found, session, connection, alive>>

ImportSets(r) ==
  /\ pc[r] = "set" /\ want[r].cmd = "import"
  /\ Change(r, found[r].scope, jar[found[r].scope] \cup want[r].names)
  /\ Goes(r, "local")
  /\ UNCHANGED <<want, found, session, connection, alive>>

\* Mutant: the entries go into whatever tab the session has by now.
TabNow(r) == IF session[want[r].session].tab = None THEN found[r].tab ELSE session[want[r].session].tab

TabOf(r) == found[r].tab

\* localStorage is cleared and filled by one script, which may throw after
\* the clear.
ImportLocal(r) ==
  LET context == TabOf(r) IN
  /\ pc[r] = "local" /\ want[r].cmd = "import" /\ Works(r, context) /\ Touch(r, context)
  /\ \/ Ends(r, "ok") /\ entries' = [entries EXCEPT ![context] = want[r].names]
     \/ Ends(r, "JsError") /\ entries' = [entries EXCEPT ![context] = {}]
  /\ Disturb(r)
  /\ UNCHANGED <<want, found, session, connection, alive, jar>>

-----------------------------------------------------------------------------
(* Sessions and the browser *)

Requested == UNCHANGED <<want, pc, answer, found, jar, entries, touched, disturbed>>

\* A page of the context sets a cookie, between two commands of a request.
PageSets(context) ==
  /\ \E r \in Requests : pc[r] \in {"set", "local"} /\ found[r].scope = context
  /\ context \in alive /\ "page" \notin jar[context]
  /\ jar' = [jar EXCEPT ![context] = @ \cup {"page"}]
  /\ disturbed' = {r \in Requests : pc[r] # "begin"} \cup disturbed
  /\ UNCHANGED <<want, pc, answer, found, session, connection, alive, entries, touched>>

\* module SessionTabs: the session is closed and its context disposed of.
CloseSession ==
  /\ session["isolated"].exists
  /\ session' = [session EXCEPT !["isolated"] = NoSession]
  /\ alive' = alive \ {session["isolated"].context}
  /\ Requested /\ UNCHANGED connection

Unused == {c \in Contexts \ {"default"} : c \notin alive /\ jar[c] = {"fresh"}}

\* module SessionBinding: a new context, a session without a tab, then its tab.
OpenSession ==
  /\ ~session["isolated"].exists /\ connection # None
  /\ \E c \in Unused :
       /\ session' = [session EXCEPT !["isolated"] =
                        [exists |-> TRUE, connected |-> TRUE, context |-> c, tab |-> None]]
       /\ alive' = alive \cup {c}
       /\ jar' = [jar EXCEPT ![c] = {}]
  /\ UNCHANGED <<want, pc, answer, found, connection, entries, touched, disturbed>>

OpenTab(s) ==
  /\ session[s].connected /\ session[s].tab = None
  /\ session' = [session EXCEPT ![s].tab = session[s].context]
  /\ Requested /\ UNCHANGED <<connection, alive>>

\* A lost connection leaves the sessions as they are, disconnected; Chrome may
\* be gone with it.
Lose ==
  /\ connection = 1 /\ connection' = None
  /\ session' = [s \in Sessions |-> [session[s] EXCEPT !.connected = FALSE]]
  /\ alive' \in {alive, {"default"}}
  /\ Requested

\* module SessionBinding: a session finds its context and its tab again, or is
\* given a new context without a tab.
Reconnect(s) ==
  /\ session[s].exists /\ ~session[s].connected
  /\ connection \in {None, 2} /\ connection' = 2
  /\ IF session[s].context \in alive
     THEN /\ session' = [session EXCEPT ![s].connected = TRUE]
          /\ UNCHANGED <<alive, jar>>
     ELSE \E c \in Unused :
            /\ session' = [session EXCEPT ![s] = [exists |-> TRUE, connected |-> TRUE, context |-> c, tab |-> None]]
            /\ alive' = alive \cup {c} /\ jar' = [jar EXCEPT ![c] = {}]
  /\ UNCHANGED <<want, pc, answer, found, entries, touched, disturbed>>

-----------------------------------------------------------------------------
(* Specification *)

Init ==
  /\ want \in [Requests -> [cmd : Commands, session : Sessions, wellFormed : BOOLEAN, names : Given]]
  /\ pc = [r \in Requests |-> "begin"] /\ answer = [r \in Requests |-> None]
  /\ found = [r \in Requests |->
       [scope |-> None, tab |-> None, connection |-> None, cookies |-> {}, entries |-> {}]]
  /\ session = [s \in Sessions |->
       IF s = "default" THEN [exists |-> TRUE, connected |-> TRUE, context |-> "default", tab |-> "default"]
       ELSE NoSession]
  /\ connection = 1 /\ alive = {"default"}
  /\ jar = [c \in Contexts |-> IF c = "default" THEN {"kept"} ELSE {"fresh"}]
  /\ entries = [c \in Contexts |-> IF c = "default" THEN {"kept"} ELSE {}]
  /\ touched = [r \in Requests |-> {}] /\ disturbed = {}

Next ==
  \/ \E r \in Requests :
       \/ Begin(r) \/ FindTab(r) \/ ReadSession(r) \/ FindBrowser(r) \/ FindScope(r) \/ Fails(r)
       \/ Cookies(r) \/ InTab(r) \/ Export(r) \/ ImportClears(r) \/ ImportSets(r) \/ ImportLocal(r)
  \/ CloseSession \/ OpenSession \/ Lose
  \/ \E c \in Contexts : PageSets(c)
  \/ \E s \in Sessions : OpenTab(s) \/ Reconnect(s)

Spec == Init /\ [][Next]_dsVars

-----------------------------------------------------------------------------
(* Properties *)

\* A request touches only contexts of its own session, whatever happens to the
\* session meanwhile, and one that succeeds one of them.
KeepsToItsSession ==
  \A r \in Requests :
    /\ ("default" \in touched[r]) => want[r].session = "default"
    /\ want[r].session = "default" => touched[r] \subseteq {"default"}
    /\ answer[r] = "ok" => Cardinality(touched[r]) = 1

\* What is refused has touched nothing.
RefusalTouchesNothing ==
  \A r \in Requests :
    answer[r] \in {"InvalidArgument", "SessionNotFound", "SessionNoTab", "TargetNotFound",
                   "ChromeDisconnected"} => touched[r] = {}

\* An import that no other change disturbs leaves exactly what it brought.
ImportIsWhole ==
  \A r \in Requests \ disturbed :
    want[r].cmd = "import" /\ answer[r] = "ok" =>
      jar[found[r].scope] = want[r].names /\ entries[found[r].tab] = want[r].names

StorageCommandsAreSound == KeepsToItsSession /\ RefusalTouchesNothing /\ ImportIsWhole
=============================================================================
