---------------------------- MODULE SessionBinding ----------------------------
(***************************************************************************)
(* How the daemon binds sessions to browsers and keeps them on disk:       *)
(* handler/connect.rs, the connection registry of browser/mod.rs, the      *)
(* monitor that notices a lost WebSocket, browser.disconnect, daemon.stop, *)
(* closing an isolated session, the debounced writer of state.json, and a  *)
(* daemon that dies and restarts from that file.                           *)
(*                                                                         *)
(* Three locks are taken in one order: browser_connect_lock while a first  *)
(* connection is made, session_bind_lock around every change of bindings,  *)
(* then the lifecycle lock of one session.                                 *)
(*                                                                         *)
(* Abstracted: tabs (module SessionTabs); a session is its browser, its    *)
(* BrowserContext and whether it is connected.                             *)
(***************************************************************************)
EXTENDS FiniteSets, Naturals

CONSTANTS
  Default,       \* the default session; every other one is isolated
  Named,         \* the isolated sessions
  Hosts,         \* browser keys
  Requests,      \* client requests, one each
  Conns,         \* connections, 1 .. n in the order they are made
  MaxSessions,   \* config.limits.max_sessions, not 0
  MaxContexts,   \* bound on the BrowserContexts Chrome creates
  MaxRestarts,   \* bound on restarts of the daemon
  Nobody

ASSUME BindingAssumption ==
  /\ Conns \subseteq Nat \ {0}
  /\ Requests \cap Conns = {}
  /\ Nobody \notin Requests \cup Conns
  /\ Default \notin Named
  /\ IsFiniteSet(Named)
  /\ MaxSessions \in Nat

Names == Named \cup {Default}
Actors == Requests \cup Conns       \* the monitor of a connection has its name

VARIABLES
  browsers,  \* DaemonState::browsers: the connection of each host, 0 if none
  watchers,  \* target_watchers: the connection of the live token of each host
  sessions,  \* DaemonState::sessions
  bindLock, dialLock,      \* session_bind_lock and browser_connect_lock
  job,       \* what each request and each monitor is doing
  signal,    \* is there a signal in the persist channel?
  writer,    \* the persist task: what it is doing, and its snapshot
  file,      \* state.json
  stale,     \* did the last write fail?
  made, closed,            \* connections made so far, and closed ones
  contexts, ctxCount,      \* BrowserContexts in Chrome (known: made by this daemon
                           \* for what its session is now), and how many were made
  run        \* how often the daemon has been restarted

memory == <<browsers, watchers, sessions>>
locks == <<bindLock, dialLock>>
disk == <<signal, writer, file, stale>>
outside == <<made, closed, contexts, ctxCount, run>>
bindingVars == <<memory, locks, job, disk, outside>>

NoSession == [state |-> "none", host |-> Nobody, ctx |-> 0]
NoImage == [s \in Names |-> NoSession]
Writer(pc) == [pc |-> pc, read |-> {}, image |-> NoImage]

\* mark_disconnected
Disconnected(r) == IF r.state = "none" THEN r ELSE [r EXCEPT !.state = "disconnected"]

Job(cmd, pc, s, h) == [cmd |-> cmd, pc |-> pc, s |-> s, h |-> h, c |-> 0,
                       ctx |-> 0, left |-> {}, locked |-> FALSE]
Idle == Job("none", "idle", Nobody, Nobody)
Over == Job("none", "done", Nobody, Nobody)

In(a, pc) == job[a].pc = pc
To(a, pc) == job' = [job EXCEPT ![a].pc = pc]
Done(a) == job' = [job EXCEPT ![a] = Over]

\* Mutant: the bind lock is kept.
UnbindKeeping(a) == Done(a) /\ UNCHANGED bindLock

Unbind(a) == Done(a) /\ bindLock' = IF bindLock = a THEN Nobody ELSE bindLock

\* May a take the lifecycle lock of s?
Alone(s) == \A b \in Actors : ~(job[b].locked /\ job[b].s = s)
ListedOn(h) == {s \in Names : sessions[s].state # "none" /\ sessions[s].host = h}
Open(c) == c # 0 /\ c \notin closed

-----------------------------------------------------------------------------
(* ensure_target_watcher: a live token is kept whatever connection it       *)
(* watches; a cancelled one is replaced                                     *)

Watch(h, c) == watchers' = [watchers EXCEPT ![h] = IF @ = 0 THEN c ELSE @]

\* The watcher's streams end with its connection: it cancels its token.
WatcherEnds ==
  \E h \in Hosts :
    /\ watchers[h] \in closed
    /\ watchers' = [watchers EXCEPT ![h] = 0]
    /\ UNCHANGED <<browsers, sessions, locks, job, disk, outside>>

-----------------------------------------------------------------------------
(* connect *)

Ask(a) ==
  /\ a \in Requests /\ In(a, "idle")
  /\ \/ \E s \in Names, h \in Hosts :
          job' = [job EXCEPT ![a] = Job("connect", "check", s, h)]
     \/ \E s \in Named :
          job' = [job EXCEPT ![a] = Job("close", "close", s, Nobody)]
     \/ \E h \in Hosts :
          job' = [job EXCEPT ![a] = Job("disconnect", "bind", Nobody, h)]
     \/ job' = [job EXCEPT ![a] = Job("stop", "bind", Nobody, Nobody)]
  /\ UNCHANGED <<memory, locks, disk, outside>>

\* check_already_connected, under the shared lock
Check(a) ==
  LET s == job[a].s   h == sessions[s].host IN
  /\ In(a, "check") /\ Alone(s)
  /\ IF sessions[s].state = "connected" /\ browsers[h] # 0
     THEN Watch(h, browsers[h]) /\ Done(a)
     ELSE To(a, "get") /\ UNCHANGED watchers
  /\ UNCHANGED <<browsers, sessions, locks, disk, outside>>

\* get_or_connect_browser_with_url: a registered connection is reused, alive
\* or not.
Reuse(a) ==
  LET h == job[a].h IN
  /\ browsers[h] # 0
  /\ Watch(h, browsers[h])
  /\ job' = [job EXCEPT ![a].c = browsers[h], ![a].pc = "bind"]
  /\ UNCHANGED <<browsers, sessions, locks, disk, outside>>

Get(a) ==
  /\ In(a, "get")
  /\ \/ Reuse(a)
     \/ browsers[job[a].h] = 0 /\ To(a, "dial") /\ UNCHANGED <<memory, locks, disk, outside>>

TakeDial(a) ==
  /\ In(a, "dial") /\ dialLock = Nobody
  /\ \/ Reuse(a)
     \/ /\ browsers[job[a].h] = 0
        /\ To(a, "dialing") /\ dialLock' = a
        /\ UNCHANGED <<memory, bindLock, disk, outside>>

Dial(a) ==
  LET h == job[a].h IN
  /\ In(a, "dialing")
  /\ dialLock' = Nobody
  /\ \/ /\ made + 1 \in Conns
        /\ made' = made + 1
        /\ browsers' = [browsers EXCEPT ![h] = made']
        /\ Watch(h, made')
        /\ job' = [job EXCEPT ![a].c = made', ![a].pc = "bind",
                              ![made'] = Job("none", "monitor", Nobody, h)]
     \/ Done(a) /\ UNCHANGED <<browsers, watchers, made>>
  /\ UNCHANGED <<sessions, bindLock, disk, closed, contexts, ctxCount, run>>

-----------------------------------------------------------------------------
(* bind_session_to_browser *)

Isolateds == {s \in Named : sessions[s].state # "none"}

NextAfterBind(a) ==
  CASE job[a].cmd = "connect" -> "lifecycle"
    [] job[a].cmd = "disconnect" -> "disconnect"
    [] job[a].cmd = "stop" -> "stop"
    [] OTHER -> "lost"

\* Mutant: a connect does not take the bind lock.
TakeBindUnlessConnecting(a) ==
  /\ In(a, "bind")
  /\ IF job[a].cmd = "connect" THEN UNCHANGED bindLock
     ELSE bindLock = Nobody /\ bindLock' = a
  /\ To(a, NextAfterBind(a))
  /\ UNCHANGED <<memory, dialLock, disk, outside>>

TakeBind(a) ==
  /\ In(a, "bind") /\ bindLock = Nobody
  /\ bindLock' = a /\ To(a, NextAfterBind(a))
  /\ UNCHANGED <<memory, dialLock, disk, outside>>

\* validate_current_browser_connection
Valid(a) == browsers[job[a].h] = job[a].c /\ Open(job[a].c)

\* The lifecycle lock is held until the session is inserted.
Lifecycle(a) ==
  LET s == job[a].s   old == sessions[s] IN
  /\ In(a, "lifecycle") /\ Alone(s)
  /\ IF \/ ~Valid(a)
        \/ s \in Named /\ old.state = "none" /\ Cardinality(Isolateds) >= MaxSessions
        \/ old.state = "connected"     \* already connected, here or elsewhere
     THEN /\ Unbind(a)
          /\ signal' = (signal \/ (Valid(a) /\ old.state = "connected" /\ old.host = job[a].h))
     ELSE /\ job' = [job EXCEPT ![a].locked = TRUE, ![a].ctx = old.ctx,
                       ![a].pc = CASE s = Default -> "insert"
                                   [] old.state = "none" \/ old.host # job[a].h -> "context"
                                   [] OTHER -> "available"]
          /\ UNCHANGED <<bindLock, signal>>
  /\ UNCHANGED <<memory, dialLock, writer, file, stale, outside>>

\* browser_context_available: an error counts as "not available".
Available(a) ==
  /\ In(a, "available")
  /\ To(a, IF Open(job[a].c) /\ \E x \in contexts : x.id = job[a].ctx
           THEN "insert" ELSE "context")
  /\ UNCHANGED <<memory, locks, disk, outside>>

CreateContext(a) ==
  /\ In(a, "context")
  /\ \/ /\ Open(job[a].c) /\ ctxCount < MaxContexts
        /\ ctxCount' = ctxCount + 1
        /\ contexts' = contexts \cup {[id |-> ctxCount', s |-> job[a].s, h |-> job[a].h, known |-> TRUE]}
        /\ job' = [job EXCEPT ![a].ctx = ctxCount', ![a].pc = "insert"]
        /\ UNCHANGED bindLock
     \/ Unbind(a) /\ UNCHANGED <<contexts, ctxCount>>
  /\ UNCHANGED <<memory, dialLock, disk, made, closed, run>>

\* Mutant: the new binding is not written.
InsertQuietly(a) ==
  /\ In(a, "insert")
  /\ sessions' = [sessions EXCEPT ![job[a].s] =
                    [state |-> "connected", host |-> job[a].h, ctx |-> job[a].ctx]]
  /\ Unbind(a)
  /\ UNCHANGED <<browsers, watchers, dialLock, disk, outside>>

\* The context that a session had at another host is forgotten, not disposed of.
InsertSession(a) ==
  /\ In(a, "insert")
  /\ sessions' = [sessions EXCEPT ![job[a].s] =
                    [state |-> "connected", host |-> job[a].h, ctx |-> job[a].ctx]]
  /\ contexts' = {IF x.s = job[a].s /\ x.h # job[a].h THEN [x EXCEPT !.known = FALSE] ELSE x :
                    x \in contexts}
  /\ signal' = TRUE
  /\ Unbind(a)
  /\ UNCHANGED <<browsers, watchers, dialLock, writer, file, stale, made, closed, ctxCount, run>>

-----------------------------------------------------------------------------
(* session.close of an isolated session *)

CloseSession(a) ==
  LET s == job[a].s   host == sessions[s].host IN
  /\ In(a, "close") /\ Alone(s)
  /\ \/ /\ sessions[s].state # "none" /\ browsers[host] # 0 /\ Open(browsers[host])
        /\ contexts' = {x \in contexts : x.id # sessions[s].ctx}
        /\ job' = [job EXCEPT ![a].locked = TRUE, ![a].pc = "forget"]
     \/ Done(a) /\ UNCHANGED contexts
  /\ UNCHANGED <<memory, locks, disk, made, closed, ctxCount, run>>

ForgetSession(a) ==
  /\ In(a, "forget")
  /\ sessions' = [sessions EXCEPT ![job[a].s] = NoSession]
  /\ signal' = TRUE /\ Done(a)
  /\ UNCHANGED <<browsers, watchers, locks, writer, file, stale, outside>>

-----------------------------------------------------------------------------
(* browser.disconnect and daemon.stop: cleanup_browser_sessions_for_host *)

Disconnect(a) ==
  LET h == job[a].h IN
  /\ In(a, "disconnect")
  /\ IF browsers[h] = 0 THEN Unbind(a) /\ UNCHANGED watchers
     ELSE /\ watchers' = [watchers EXCEPT ![h] = 0]
          /\ job' = [job EXCEPT ![a].left = ListedOn(h), ![a].pc = "each"]
          /\ UNCHANGED bindLock
  /\ UNCHANGED <<browsers, sessions, dialLock, disk, outside>>

Stop(a) ==
  /\ In(a, "stop")
  /\ watchers' = [h \in Hosts |-> 0]
  /\ job' = [job EXCEPT ![a].left = {s \in Names : sessions[s].state # "none"}, ![a].pc = "each"]
  /\ UNCHANGED <<browsers, sessions, locks, disk, outside>>

Wanted(a, s) ==   \* the session is looked at again under its lock
  sessions[s].state # "none" /\ (job[a].cmd # "stop" => sessions[s].host = job[a].h)

\* The tabs are closed and the context disposed of while the lock is held.
CleanUp(a) ==
  \E s \in job[a].left :
    /\ In(a, "each") /\ Alone(s)
    /\ IF Wanted(a, s)
       THEN /\ job' = [job EXCEPT ![a].s = s, ![a].locked = TRUE, ![a].pc = "mark"]
            /\ \/ /\ job[a].cmd # "none" /\ Open(browsers[sessions[s].host])
                  /\ contexts' = {x \in contexts : x.id # sessions[s].ctx}
               \/ UNCHANGED contexts
       ELSE /\ job' = [job EXCEPT ![a].left = @ \ {s}] /\ UNCHANGED contexts
    /\ UNCHANGED <<memory, locks, disk, made, closed, ctxCount, run>>

Mark(a) ==
  LET s == job[a].s IN
  /\ In(a, "mark")
  /\ sessions' = [sessions EXCEPT ![s] = Disconnected(@)]
  /\ job' = [job EXCEPT ![a].left = @ \ {s}, ![a].s = Nobody, ![a].locked = FALSE, ![a].pc = "each"]
  /\ UNCHANGED <<browsers, watchers, locks, disk, outside>>

EndDisconnect(a) ==
  LET h == job[a].h IN
  /\ In(a, "each") /\ job[a].left = {} /\ job[a].cmd = "disconnect"
  /\ closed' = closed \cup {browsers[h]}
  /\ browsers' = [browsers EXCEPT ![h] = 0]
  /\ signal' = TRUE /\ Unbind(a)
  /\ UNCHANGED <<watchers, sessions, dialLock, writer, file, stale, made, contexts, ctxCount, run>>

\* drain_browsers_for_shutdown, then persist_now, then the process exits
EndStop(a) ==
  /\ In(a, "each") /\ job[a].left = {} /\ job[a].cmd = "stop"
  /\ browsers' = [h \in Hosts |-> 0]
  /\ signal' = TRUE /\ To(a, "persist")
  /\ UNCHANGED <<watchers, sessions, locks, writer, file, stale, outside>>

Image == [s \in Names |-> sessions[s]]

PersistNow(a) ==
  /\ In(a, "persist")
  /\ file' = Image /\ stale' = FALSE
  /\ Unbind(a)
  /\ UNCHANGED <<memory, dialLock, signal, writer, outside>>

-----------------------------------------------------------------------------
(* The monitor of a connection: handle_browser_disconnect under the bind lock *)

Lose ==
  \E c \in Conns :
    /\ c <= made /\ c \notin closed
    /\ closed' = closed \cup {c}
    /\ \/ contexts' = {x \in contexts : x.h # job[c].h}     \* Chrome itself has ended
       \/ UNCHANGED contexts
    /\ UNCHANGED <<memory, locks, job, disk, made, ctxCount, run>>

Notice(c) ==
  /\ c \in Conns /\ In(c, "monitor") /\ c \in closed
  /\ To(c, "bind")
  /\ UNCHANGED <<memory, locks, disk, outside>>

\* Mutant: it is taken for the current connection.
LostAny(c) ==
  /\ In(c, "lost")
  /\ browsers' = [browsers EXCEPT ![job[c].h] = 0]
  /\ Unbind(c)
  /\ UNCHANGED <<watchers, sessions, dialLock, disk, outside>>

\* Only the registered connection counts; a stale notification is ignored.
Lost(c) ==
  /\ In(c, "lost")
  /\ IF browsers[job[c].h] = c
     THEN /\ browsers' = [browsers EXCEPT ![job[c].h] = 0]
          /\ To(c, "token") /\ UNCHANGED bindLock
     ELSE Unbind(c) /\ UNCHANGED browsers
  /\ UNCHANGED <<watchers, sessions, dialLock, disk, outside>>

\* disconnect_browser_runtime_state: whatever token is there now
CancelToken(c) ==
  /\ In(c, "token")
  /\ watchers' = [watchers EXCEPT ![job[c].h] = 0]
  /\ job' = [job EXCEPT ![c].left = ListedOn(job[c].h), ![c].pc = "each"]
  /\ UNCHANGED <<browsers, sessions, locks, disk, outside>>

EndLost(c) ==
  /\ c \in Conns /\ In(c, "each") /\ job[c].left = {}
  /\ signal' = TRUE /\ Unbind(c)
  /\ UNCHANGED <<memory, dialLock, writer, file, stale, outside>>

-----------------------------------------------------------------------------
(* persist.rs: a signal, a quiet half second, a snapshot read session by    *)
(* session, an atomic replacement of the file; then the next signal         *)

Debounce ==
  /\ writer.pc = "waiting" /\ signal
  /\ signal' = FALSE
  /\ writer' = Writer("reading")
  /\ UNCHANGED <<memory, locks, job, file, stale, outside>>

ReadOne ==
  \E s \in Names \ writer.read :
    /\ writer.pc = "reading"
    /\ writer' = [writer EXCEPT !.read = @ \cup {s}, !.image[s] = sessions[s]]
    /\ UNCHANGED <<memory, locks, job, signal, file, stale, outside>>

Write ==
  /\ writer.pc = "reading" /\ writer.read = Names
  /\ \/ file' = writer.image /\ stale' = FALSE
     \/ UNCHANGED file /\ stale' = TRUE
  /\ writer' = Writer("waiting")
  /\ UNCHANGED <<memory, locks, job, signal, outside>>

\* The process ends, by itself or killed; another starts from the file.  Every
\* stored session is listed, disconnected (prepare_loaded_state).
Restart ==
  /\ run < MaxRestarts /\ run' = run + 1
  /\ browsers' = [h \in Hosts |-> 0] /\ watchers' = [h \in Hosts |-> 0]
  /\ sessions' = [s \in Names |-> Disconnected(file[s])]
  /\ bindLock' = Nobody /\ dialLock' = Nobody
  /\ job' = [a \in Actors |-> IF a \in Conns \/ In(a, "idle") THEN Idle ELSE Over]
  /\ signal' = FALSE
  /\ writer' = Writer("waiting")
  /\ closed' = 1 .. made
  /\ contexts' = {[x EXCEPT !.known = FALSE] : x \in contexts}
  /\ UNCHANGED <<file, stale, made, ctxCount>>

-----------------------------------------------------------------------------
Init ==
  /\ browsers = [h \in Hosts |-> 0] /\ watchers = [h \in Hosts |-> 0]
  /\ sessions = NoImage
  /\ bindLock = Nobody /\ dialLock = Nobody
  /\ job = [a \in Actors |-> Idle]
  /\ signal = FALSE
  /\ writer = Writer("waiting")
  /\ file = NoImage /\ stale = FALSE
  /\ made = 0 /\ closed = {} /\ contexts = {} /\ ctxCount = 0 /\ run = 0

Step(a) ==
  \/ Check(a) \/ Get(a) \/ TakeDial(a) \/ Dial(a)
  \/ TakeBind(a) \/ Lifecycle(a) \/ Available(a) \/ CreateContext(a) \/ InsertSession(a)
  \/ CloseSession(a) \/ ForgetSession(a)
  \/ Disconnect(a) \/ Stop(a) \/ CleanUp(a) \/ Mark(a)
  \/ EndDisconnect(a) \/ EndStop(a) \/ PersistNow(a)
  \/ Notice(a) \/ Lost(a) \/ CancelToken(a) \/ EndLost(a)

Progress ==
  \/ \E a \in Actors : Step(a)
  \/ Debounce \/ ReadOne \/ Write \/ WatcherEnds

Next ==
  \/ Progress
  \/ \E a \in Actors : Ask(a)
  \/ Lose \/ Restart

Spec == Init /\ [][Next]_bindingVars /\ WF_bindingVars(Progress)

-----------------------------------------------------------------------------
(* Properties *)

TypeOK ==
  /\ browsers \in [Hosts -> 0 .. made] /\ watchers \in [Hosts -> 0 .. made]
  /\ \A s \in Names : sessions[s].state \in {"none", "connected", "disconnected"}
  /\ bindLock \in Actors \cup {Nobody} /\ dialLock \in Requests \cup {Nobody}

\* The holder of the bind lock will still mark the session.
WillMark(s) ==
  \E a \in Actors : /\ bindLock = a
                    /\ \/ s \in job[a].left
                       \/ In(a, "token") /\ sessions[s].host = job[a].h

(* A session that says it is connected has a registered connection, and if  *)
(* that one is lost its monitor has yet to act: no binding slips in between *)
(* a disconnect's list of sessions and the removal of the browser, and a    *)
(* late monitor does not take the place of a newer connection.              *)
ConnectedHasBrowser ==
  \A s \in Names : sessions[s].state = "connected" =>
    LET c == browsers[sessions[s].host] IN
      \/ WillMark(s)
      \/ c # 0 /\ (c \in closed => job[c].pc \in {"monitor", "bind", "lost"})

(* Binding is serial (state.rs:93): concurrent connects of one name create  *)
(* one BrowserContext at a host, and names that connect together do not     *)
(* pass the limit on isolated sessions.  A restart lists what the file has, *)
(* more than the limit if the writer read a session just before it was      *)
(* closed and another just after it was connected.                          *)
OneBinding ==
  /\ \A s \in Names, h \in Hosts :
       Cardinality({x \in contexts : x.known /\ x.s = s /\ x.h = h}) <= 1
  /\ run = 0 => Cardinality(Isolateds) <= MaxSessions
  /\ \A a \in Actors :
       In(a, "insert") /\ job[a].s \in Named /\ sessions[job[a].s].state = "none" =>
         Cardinality(Isolateds) < MaxSessions

Kept(image) == [s \in Names |-> <<image[s].state = "none", image[s].host, image[s].ctx>>]

(* When nothing is under way, state.json lists the sessions there are, with *)
(* their browsers and contexts, unless the last write has failed.           *)
DiskCatchesUp ==
  (/\ ~signal /\ writer.pc = "waiting" /\ ~stale
   /\ \A a \in Requests : job[a].pc \in {"idle", "done"}
   /\ \A c \in Conns : job[c].pc \in {"idle", "monitor", "done"})
    => Kept(file) = Kept(sessions)

(* A lost connection is noticed: its host is free for a new one and, if     *)
(* nobody binds it again, no session of it remains connected.               *)
LossIsNoticed ==
  \A h \in Hosts, c \in Conns :
    (browsers[h] = c /\ c \in closed) ~> browsers[h] # c

(* A connected session has a browser or will learn that it has none, a name *)
(* has one BrowserContext, and state.json follows.                          *)
BindingIsSound == TypeOK /\ ConnectedHasBrowser /\ OneBinding /\ DiskCatchesUp
=============================================================================
