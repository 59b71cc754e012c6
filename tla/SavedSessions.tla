---------------------------- MODULE SavedSessions ----------------------------
(***************************************************************************)
(* Sessions across a restart of the daemon: what of state.json is accepted *)
(* (daemon/persist.rs), and how a session that was read from it is bound to *)
(* the browser again, tab by tab, on a copy, while targets end and change   *)
(* (daemon/handler/connect.rs, daemon/target_lifecycle.rs).                 *)
(*                                                                         *)
(* The file is one the daemon wrote, with at most one edit by someone else. *)
(* Binding under losses of the connection is in SessionBinding, the other   *)
(* requests of a connected session in SessionTabs.                          *)
(***************************************************************************)
EXTENDS Naturals, Sequences, FiniteSets, SequencesExt

CONSTANTS
  Targets,     \* target ids: numbers, so that they are sorted
  MaxChanges,  \* bound: targets that end or get another title
  Bad,         \* text that is empty or has whitespace around it
  None

VARIABLES
  file,        \* state.json
  read,        \* history: what was loaded, the file itself when it is refused
  memory,      \* sessions by name
  disabled,    \* persist_disabled
  pc,          \* the daemon: stopped, loaded, running or saved
  live, title, contexts, attached, \* Chrome: targets, their titles, contexts, attached targets
  destroyed, changed, \* the watcher's streams
  event,       \* what the watcher handles, or None
  bind,        \* the session that is bound, or None
  bound        \* sessions whose bind has ended

savedVars == <<file, read, memory, disabled, pc, live, title, contexts, attached, destroyed, changed,
               event, bind, bound>>
chrome == <<live, title, contexts, attached, destroyed, changed>>

Names == {"default", "work"}
Mode(name) == IF name = "default" THEN "default" ELSE "isolated"
Ids(tabs) == {tabs[i].id : i \in DOMAIN tabs}
Distinct(s) == \A i, j \in DOMAIN s : s[i] = s[j] => i = j

-----------------------------------------------------------------------------
(* state.json *)

Broken == {"missing", "unreadable", "not JSON", "no version", "another version", "another schema"}
File(sessions) == [is |-> "state", sessions |-> sessions]

Tab(id, own) == [id |-> id, own |-> own]
Saved(name, tabs, active) ==
  [name |-> name, mode |-> Mode(name), host |-> "here", tabs |-> tabs, active |-> active,
   context |-> IF name = "default" THEN None ELSE "old"]

\* What the daemon writes: the tabs in the order of their ids, one of them active.
Defaults == {Saved("default", <<>>, None)} \cup
  {Saved("default", <<Tab(1, "owned"), Tab(2, "attached")>>, id) : id \in {1, 2}}
Isolateds == {Saved("work", <<>>, None), Saved("work", <<Tab(3, "owned")>>, 3)}
Written == {File(<<>>)} \cup {File(<<d>>) : d \in Defaults}
             \cup {File(<<d, w>>) : d \in Defaults, w \in Isolateds}

\* One edit of a file.
Edited(f) ==
  {[is |-> b, sessions |-> <<>>] : b \in Broken} \cup
  UNION {
    {[f EXCEPT !.sessions[i].name = x] : x \in Names \cup {Bad}}
      \cup {[f EXCEPT !.sessions[i].mode = x] : x \in {"default", "isolated"}}
      \cup {[f EXCEPT !.sessions[i].host = x] : x \in {"elsewhere", Bad}}
      \cup {[f EXCEPT !.sessions[i].context = x] : x \in {None, "old", Bad}}
      \cup {[f EXCEPT !.sessions[i].active = x] : x \in Targets \cup {None, Bad}}
      \cup {[f EXCEPT !.sessions[i].tabs = Append(@, Tab(x, own))] :
              x \in Targets \cup {Bad}, own \in {"owned", "attached"}}
      \cup {[f EXCEPT !.sessions = Append(@, f.sessions[i])]} : i \in DOMAIN f.sessions}

\* Mutant: one target may be a tab of two sessions.
ValidOverlapping(f) ==
  /\ Distinct([i \in DOMAIN f |-> f[i].name])
  /\ \A i \in DOMAIN f :
       LET s == f[i] IN
       /\ s.name # Bad /\ s.host # Bad /\ s.mode = Mode(s.name)
       /\ IF s.mode = "default" THEN s.context = None ELSE s.context \notin {None, Bad}
       /\ \A t \in Ids(s.tabs) : t # Bad
       /\ Distinct([j \in DOMAIN s.tabs |-> s.tabs[j].id])
       /\ s.mode = "isolated" => \A j \in DOMAIN s.tabs : s.tabs[j].own = "owned"
       /\ s.active \in IF s.tabs = <<>> THEN {None} ELSE Ids(s.tabs)

\* validate_persisted_state
Valid(f) ==
  /\ Distinct([i \in DOMAIN f |-> f[i].name])
  /\ \A i, j \in DOMAIN f : i # j => Ids(f[i].tabs) \cap Ids(f[j].tabs) = {}
  /\ \A i \in DOMAIN f :
       LET s == f[i] IN
       /\ s.name # Bad /\ s.host # Bad /\ s.mode = Mode(s.name)
       /\ IF s.mode = "default" THEN s.context = None ELSE s.context \notin {None, Bad}
       /\ \A t \in Ids(s.tabs) : t # Bad
       /\ Distinct([j \in DOMAIN s.tabs |-> s.tabs[j].id])
       /\ s.mode = "isolated" => \A j \in DOMAIN s.tabs : s.tabs[j].own = "owned"
       /\ s.active \in IF s.tabs = <<>> THEN {None} ELSE Ids(s.tabs)

\* into_session: tabs by id, without a session in Chrome.
IntoSession(s) ==
  LET TabOf(t) == CHOOSE i \in DOMAIN s.tabs : s.tabs[i].id = t IN
  [host |-> s.host, context |-> s.context, active |-> s.active, connected |-> FALSE,
   tabs |-> [t \in Ids(s.tabs) |-> [own |-> s.tabs[TabOf(t)].own, title |-> 0]]]

\* from_session
Sorted(T) == SetToSortSeq(T, LAMBDA a, b : a < b)
Image(name) ==
  LET s == memory[name]
      tabs == Sorted(DOMAIN s.tabs)
  IN
  [name |-> name, mode |-> Mode(name), host |-> s.host, context |-> s.context, active |-> s.active,
   tabs |-> [i \in DOMAIN tabs |-> Tab(tabs[i], s.tabs[tabs[i]].own)]]
Snapshot == File(SetToSeq({Image(name) : name \in DOMAIN memory}))

-----------------------------------------------------------------------------
(* The daemon *)

Edit ==
  /\ pc = "stopped" /\ read = None
  /\ file' \in Edited(file) /\ read' = "edited"
  /\ UNCHANGED <<memory, disabled, pc, chrome, event, bind, bound>>

\* load_state_from_path and prepare_loaded_state: every session is disconnected.
Load ==
  /\ pc = "stopped" /\ pc' = "loaded"
  /\ LET saved == file.sessions
         accepted == file.is = "state" /\ Valid(saved)
         SessionOf(name) == CHOOSE i \in DOMAIN saved : saved[i].name = name
     IN /\ memory' = IF ~accepted THEN <<>>
                     ELSE [name \in {saved[i].name : i \in DOMAIN saved} |->
                             IntoSession(saved[SessionOf(name)])]
        /\ disabled' = (~accepted /\ file.is # "missing")
        /\ read' = IF disabled' THEN file ELSE "accepted"
  /\ UNCHANGED <<file, chrome, event, bind, bound>>

Serve ==
  /\ pc = "loaded" /\ pc' = "running"
  /\ UNCHANGED <<file, read, memory, disabled, chrome, event, bind, bound>>

\* Mutant: what could not be read is written over.
SaveAnyway ==
  /\ pc = "running" /\ file' = Snapshot /\ pc' = "saved"
  /\ UNCHANGED <<read, memory, disabled, chrome, event, bind, bound>>

\* persist_now, the last one before the daemon ends, as it should or not.
Save ==
  /\ pc = "running" /\ ~disabled /\ file' = Snapshot /\ pc' = "saved"
  /\ UNCHANGED <<read, memory, disabled, chrome, event, bind, bound>>

-----------------------------------------------------------------------------
(* reconnect_existing_session, alone with the lifecycle lock of the session *)

BeginBind(name) ==
  /\ pc = "running" /\ bind = None /\ name \in DOMAIN memory \ bound
  /\ bind' = [name |-> name, copy |-> memory[name], at |-> "context", todo |-> <<>>, failed |-> {}]
  /\ UNCHANGED <<file, read, memory, disabled, pc, chrome, event, bound>>

Reattach(b) == [b EXCEPT !.at = "attach", !.todo = Sorted(DOMAIN b.copy.tabs)]

\* browser_context_available: an answer that fails counts as no.
ContextKept ==
  /\ bind # None /\ bind.at = "context"
  /\ bind.name = "default" \/ (bind.copy.host = "here" /\ bind.copy.context \in contexts)
  /\ bind' = Reattach(bind)
  /\ UNCHANGED <<file, read, memory, disabled, pc, chrome, event, bound>>

\* create_browser_context; the tabs went with the old one.
ContextReplaced ==
  /\ bind # None /\ bind.at = "context" /\ bind.name # "default"
  /\ contexts' = contexts \cup {"new"}
  /\ bind' = [bind EXCEPT !.copy.context = "new", !.copy.tabs = <<>>, !.copy.active = None,
                          !.at = "attach"]
  /\ UNCHANGED <<file, read, memory, disabled, pc, live, title, attached, destroyed, changed, event, bound>>

\* The browser makes none: the session stays as it was.
BindFails ==
  /\ bind # None /\ bind.at = "context" /\ bind.name # "default"
  /\ bind' = None /\ bound' = bound \cup {bind.name}
  /\ UNCHANGED <<file, read, memory, disabled, pc, chrome, event>>

\* reattach_session_tabs, one tab: attached, ...
Attach ==
  /\ bind # None /\ bind.at = "attach" /\ bind.todo # <<>>
  /\ LET t == Head(bind.todo) IN
       \/ /\ t \in live /\ attached' = attached \cup {t}
          /\ bind' = [bind EXCEPT !.at = "prepare"]
       \/ /\ bind' = [bind EXCEPT !.todo = Tail(@), !.failed = @ \cup {t}]
          /\ UNCHANGED attached
  /\ UNCHANGED <<file, read, memory, disabled, pc, live, title, contexts, destroyed, changed, event, bound>>

\* ... and its domains enabled, or it is detached and dropped.
Prepare ==
  /\ bind # None /\ bind.at = "prepare"
  /\ LET t == Head(bind.todo) IN
       \/ t \in live /\ bind' = [bind EXCEPT !.at = "attach", !.todo = Tail(@)] /\ UNCHANGED attached
       \/ /\ bind' = [bind EXCEPT !.at = "attach", !.todo = Tail(@), !.failed = @ \cup {t}]
          /\ attached' = attached \ {t}
  /\ UNCHANGED <<file, read, memory, disabled, pc, live, title, contexts, destroyed, changed, event, bound>>

\* Mutant: the active tab may be one that was dropped.
ActiveKept(b, left) == b.copy.active

ActiveAmong(b, left) ==
  IF b.copy.active \in left THEN b.copy.active
  ELSE IF left = {} THEN None ELSE Head(Sorted(left))

\* The copy replaces the session.
EndBind ==
  /\ bind # None /\ bind.at = "attach" /\ bind.todo = <<>>
  /\ LET left == DOMAIN bind.copy.tabs \ bind.failed IN
       memory' = [memory EXCEPT ![bind.name] =
         [bind.copy EXCEPT !.tabs = [t \in left |-> @[t]], !.active = ActiveAmong(bind, left),
                           !.host = "here", !.connected = TRUE]]
  /\ bind' = None /\ bound' = bound \cup {bind.name}
  /\ UNCHANGED <<file, read, disabled, pc, chrome, event>>

-----------------------------------------------------------------------------
(* The watcher *)

Owners(t) == {name \in DOMAIN memory : t \in DOMAIN memory[name].tabs}

\* find_target_owner, before the lock; a target nobody owns is let go.
See(kind, t, k) ==
  event' = IF Owners(t) = {} THEN None
           ELSE [kind |-> kind, t |-> t, title |-> k, name |-> CHOOSE name \in Owners(t) : TRUE]

SeeDestroyed ==
  /\ pc = "running" /\ event = None /\ destroyed # <<>>
  /\ See("destroyed", Head(destroyed), 0) /\ destroyed' = Tail(destroyed)
  /\ UNCHANGED <<file, read, memory, disabled, pc, live, title, contexts, attached, changed, bind, bound>>

SeeChanged ==
  /\ pc = "running" /\ event = None /\ changed # <<>>
  /\ See("changed", Head(changed)[1], Head(changed)[2]) /\ changed' = Tail(changed)
  /\ UNCHANGED <<file, read, memory, disabled, pc, live, title, contexts, attached, destroyed, bind, bound>>

\* Mutant: the watcher does not wait for a bind of the session.
AnyTime(name) == TRUE

\* The lifecycle lock, shared.
Shared(name) == bind # None => bind.name # name

\* remove_session_tab and update_session_tab_info, if the session still owns it.
Handle ==
  /\ event # None /\ Shared(event.name)
  /\ LET s == memory[event.name]
         left == DOMAIN s.tabs \ {event.t}
     IN memory' =
          IF event.t \notin DOMAIN s.tabs THEN memory
          ELSE IF event.kind = "changed"
          THEN [memory EXCEPT ![event.name].tabs[event.t].title = event.title]
          ELSE [memory EXCEPT ![event.name].tabs = [t \in left |-> s.tabs[t]],
                              ![event.name].active = IF s.active # event.t THEN @
                                                     ELSE IF left = {} THEN None
                                                     ELSE CHOOSE t \in left : TRUE]
  /\ event' = None
  /\ UNCHANGED <<file, read, disabled, pc, chrome, bind, bound>>

-----------------------------------------------------------------------------
(* Chrome *)

Changes == Cardinality(Targets \ live) + Cardinality({t \in Targets : title[t] > 0})

Lose(t) ==
  /\ pc = "running" /\ t \in live /\ Changes < MaxChanges
  /\ live' = live \ {t} /\ attached' = attached \ {t}
  /\ destroyed' = Append(destroyed, t)
  /\ UNCHANGED <<file, read, memory, disabled, pc, title, contexts, changed, event, bind, bound>>

Retitle(t) ==
  /\ pc = "running" /\ t \in live /\ title[t] = 0 /\ Changes < MaxChanges
  /\ title' = [title EXCEPT ![t] = 1]
  /\ changed' = Append(changed, <<t, 1>>)
  /\ UNCHANGED <<file, read, memory, disabled, pc, live, contexts, attached, destroyed, event, bind, bound>>

-----------------------------------------------------------------------------
(* Specification *)

Init ==
  /\ file \in Written /\ read = None
  /\ memory = <<>> /\ disabled = FALSE /\ pc = "stopped"
  /\ live = Targets /\ title = [t \in Targets |-> 0]
  /\ contexts \in {{}, {"old"}} /\ attached = {}
  /\ destroyed = <<>> /\ changed = <<>> /\ event = None /\ bind = None /\ bound = {}

Next ==
  \/ Edit \/ Load \/ Serve \/ Save
  \/ \E name \in Names : BeginBind(name)
  \/ ContextKept \/ ContextReplaced \/ BindFails \/ Attach \/ Prepare \/ EndBind
  \/ SeeDestroyed \/ SeeChanged \/ Handle
  \/ \E t \in Targets : Lose(t) \/ Retitle(t)

Spec == Init /\ [][Next]_savedVars

-----------------------------------------------------------------------------
(* Properties *)

\* As many sessions with the same tabs, whatever their order.
SameSessions(f, g) ==
  LET Content(h) == {[h[i] EXCEPT !.tabs = <<ToSet(@), Len(@)>>] : i \in DOMAIN h}
  IN Len(f) = Len(g) /\ Content(f) = Content(g)

\* What is accepted is in memory as the file says it, nothing lost or merged; a
\* file that is refused is never written over; and what the daemon saves, at
\* whatever moment, it accepts after a restart.
FileIsKept ==
  /\ pc = "loaded" /\ file.is = "state" /\ ~disabled => SameSessions(Snapshot.sessions, file.sessions)
  /\ disabled => file = read
  /\ pc = "saved" => Valid(file.sessions)

\* Whatever was read and however its tabs came back, a target is a tab of one
\* session, and the active tab is one of its session's tabs.
MemoryIsConsistent ==
  /\ \A t \in Targets : Cardinality(Owners(t)) <= 1
  /\ \A name \in DOMAIN memory :
       LET s == memory[name] IN
       IF DOMAIN s.tabs = {} THEN s.active = None ELSE s.active \in DOMAIN s.tabs

Binding(t) == bind # None /\ t \in DOMAIN bind.copy.tabs

\* Once the watcher has read everything, the tabs of a connected session are
\* attached to live targets and have the titles Chrome told; no other target is
\* attached.
RestoredTabsAreTrue ==
  destroyed = <<>> /\ changed = <<>> /\ event = None =>
    /\ \A name \in DOMAIN memory : memory[name].connected =>
         \A t \in DOMAIN memory[name].tabs :
           t \in live /\ t \in attached /\ memory[name].tabs[t].title = title[t]
    /\ \A t \in attached : Owners(t) # {} \/ Binding(t)

SavedSessionsAreSound == FileIsKept /\ MemoryIsConsistent /\ RestoredTabsAreTrue
=============================================================================
