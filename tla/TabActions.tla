------------------------------ MODULE TabActions ------------------------------
(***************************************************************************)
(* The daemon's `act` and `snapshot` commands on one tab (act.rs,          *)
(* snapshot.rs, page/interaction.rs, page/element_ref.rs, page/state.rs).  *)
(*                                                                         *)
(* A command is a plan, a sequence of steps carried out one after another. *)
(* Each step is one CDP command, answered by Chrome or failing; in between *)
(* the page changes, navigates and opens tabs, and the time allowed for an *)
(* action runs out, which drops the action where it stands.  Elements are  *)
(* named by refs, which stay with their node, and are found on the screen  *)
(* by their place, which does not: the page has a row of elements of which *)
(* one is in view.                                                         *)
(***************************************************************************)
EXTENDS Naturals, FiniteSets, Sequences

CONSTANTS
  NodeA, NodeB,    \* two elements of the page
  Modifiers,       \* the modifiers a pressed combination may have
  MaxChanges,      \* bound: how often the page changes by itself
  MaxEvents,       \* bound: events of other targets while a click waits
  Nothing

VARIABLES
  layout,          \* the elements of the page, in order
  top,             \* how many of them are scrolled out above the view
  changes, era,    \* changes of the page and its navigations so far
  groups, freeing, lost,    \* object groups: in Chrome, release spawned, failed
  held,            \* buttons, modifiers and keys that are down
  did,             \* the slots whose element took its value
  request, todo, failed, answer,         \* the command
  owned, point, object,                  \* the scopes it holds, what it resolved
  results,         \* of fill, per field
  pressed,         \* the last press of the mouse
  queue, listening, lagged, popup, newTab,     \* target events, for a click
  read             \* of snapshot

thePage == <<layout, top, changes, era>>
theObjects == <<groups, freeing, lost>>
theEvents == <<queue, listening, lagged, popup, newTab>>
theCommand == <<request, todo, failed, answer, owned, point, object, results, read>>
vars == <<thePage, theObjects, held, did, theCommand, pressed, theEvents>>

Layouts == {<<>>, <<NodeA>>, <<NodeB>>, <<NodeA, NodeB>>, <<NodeB, NodeA>>}
Slots == 1..2                             \* a command resolves at most two elements
Elements == {layout[i] : i \in DOMAIN layout}
PlaceOf(n) == CHOOSE i \in DOMAIN layout : layout[i] = n
At(place) == IF place \in DOMAIN layout THEN layout[place] ELSE Nothing

-----------------------------------------------------------------------------
(* The request: which parameters it has, and the plan it stands for *)

Kinds == {"click", "type", "fill", "press", "scroll", "hover", "focus", "select",
          "options", "upload", "drag", "snapshot"}

Allowed(kind) ==
  CASE kind = "click" -> {"ref", "x", "y"}
    [] kind = "type" -> {"ref", "text", "append"}
    [] kind = "fill" -> {"fields"}
    [] kind = "press" -> {"keys"}
    [] kind = "scroll" -> {"ref", "selector", "direction"}
    [] kind \in {"hover", "focus", "options"} -> {"ref"}
    [] kind = "select" -> {"ref", "value"}
    [] kind = "upload" -> {"ref", "selector", "files"}
    [] kind = "drag" -> {"from_ref", "from_selector", "to_ref", "to_selector"}
    [] OTHER -> {}

OneOf(a, b, given) == (a \in given) # (b \in given)

\* Mutant: one coordinate is enough.
WellFormedLoosely(kind, given) ==
  /\ given \subseteq Allowed(kind)
  /\ kind = "click" => OneOf("ref", "x", given)

WellFormed(kind, given) ==
  /\ given \subseteq Allowed(kind)
  /\ kind = "click" => given \in {{"ref"}, {"x", "y"}}
  /\ kind \in {"type", "hover", "focus", "select", "options"} => "ref" \in given
  /\ kind = "type" => "text" \in given
  /\ kind = "select" => "value" \in given
  /\ kind = "fill" => "fields" \in given
  /\ kind = "press" => "keys" \in given
  /\ kind = "upload" => OneOf("ref", "selector", given) /\ "files" \in given
  /\ kind = "drag" => OneOf("from_ref", "from_selector", given) /\ OneOf("to_ref", "to_selector", given)

Requests ==
  {r \in [kind : Kinds, given : SUBSET {"ref", "x", "y", "text", "append", "fields",
             "keys", "selector", "direction", "value", "files", "from_ref", "from_selector",
             "to_ref", "to_selector"}, mods : SUBSET Modifiers] :
     r.given \subseteq Allowed(r.kind) /\ (r.mods # {} => r.kind = "press")}

(* What a slot of the request names: a ref keeps to its node, a selector    *)
(* takes the first element there is.                                        *)
Ref(t) == IF request.kind \in {"drag", "fill"}
          THEN IF t = 1 THEN NodeA ELSE NodeB
          ELSE NodeB
BySelector(t) ==
  \/ request.kind = "upload" /\ "selector" \in request.given
  \/ request.kind = "drag" /\ t = 1 /\ "from_selector" \in request.given
  \/ request.kind = "drag" /\ t = 2 /\ "to_selector" \in request.given

Step(do, t) == [do |-> do, t |-> t]
Press(do, key) == [do |-> do, key |-> key]

\* Mutant: the place of an element is taken before it is scrolled into view.
ResolveThenScroll(t) ==
  IF BySelector(t) THEN <<Step("find", t), Step("rect", t), Step("describe", t)>>
  ELSE <<Step("quads", t), Step("scroll", t), Step("object", t)>>

Resolve(t) ==
  IF BySelector(t) THEN <<Step("find", t), Step("rect", t), Step("describe", t)>>
  ELSE <<Step("scroll", t), Step("quads", t), Step("object", t)>>

Free(t) == Step("free", t)
ClickAt == <<Step("move", 1), Step("down", 1), Step("up", 1)>>
Downs == SelectSeq(<<"Alt", "Control", "Meta", "Shift">>, LAMBDA m : m \in request.mods)
Ups == SelectSeq(<<"Shift", "Meta", "Control", "Alt">>, LAMBDA m : m \in request.mods)

\* Mutant: the modifiers are let go before the key.
ComboLetGoEarly ==
  [i \in DOMAIN Downs |-> Press("keydown", Downs[i])] \o <<Press("keydown", "Key")>>
    \o [i \in DOMAIN Ups |-> Press("keyup", Ups[i])]

Combo ==
  [i \in DOMAIN Downs |-> Press("keydown", Downs[i])]
    \o <<Press("keydown", "Key"), Press("keyup", "Key")>>
    \o [i \in DOMAIN Ups |-> Press("keyup", Ups[i])]

Field(t) == Resolve(t) \o <<Step("call", t), Free(t), Step("note", t)>>

Body ==
  CASE request.kind = "click" ->
         IF "ref" \in request.given THEN Resolve(1) \o ClickAt \o <<Free(1)>> ELSE ClickAt
    [] request.kind = "type" ->
         Resolve(1) \o ClickAt
           \o (IF "append" \in request.given THEN <<>> ELSE <<Step("call", 1)>>)
           \o <<Step("insert", 1), Free(1)>>
    [] request.kind = "fill" -> Field(1) \o Field(2)
    [] request.kind = "press" -> Combo
    [] request.kind = "scroll" ->
         IF "selector" \in request.given THEN <<Step("evaluate", 1)>>
         ELSE IF "ref" \in request.given THEN Resolve(1) \o <<Free(1)>>
         ELSE <<Step("wheel", 1)>>
    [] request.kind = "hover" -> Resolve(1) \o <<Step("move", 1), Free(1)>>
    [] request.kind \in {"focus", "select", "options"} -> Resolve(1) \o <<Step("call", 1), Free(1)>>
    [] request.kind = "upload" ->
         <<Step("files", 1)>> \o Resolve(1) \o <<Step("call", 1), Step("attach", 1), Free(1)>>
    [] request.kind = "drag" ->
         Resolve(1) \o Resolve(2) \o <<Free(1), Free(2)>>
           \o <<Step("move", 1), Step("down", 1), Step("move", 2), Step("up", 2)>>
    [] OTHER -> <<Step("facts", 1), Step("array", 1), Step("properties", 1), Step("ids", 1),
                  Free(1), Step("title", 1)>>

\* Mutant: a click listens for new tabs only when it has been made.
PlanListeningLate ==
  Body \o (IF request.kind = "click" THEN <<Step("subscribe", 1), Step("wait", 1)>> ELSE <<>>)

Plan ==
  (IF request.kind = "click" THEN <<Step("subscribe", 1)>> ELSE <<>>)
    \o Body \o (IF request.kind = "click" THEN <<Step("wait", 1)>> ELSE <<>>)

Timed(step) == request.kind # "snapshot" /\ step.do \notin {"subscribe", "wait"}

-----------------------------------------------------------------------------
Doing(do) == answer = Nothing /\ todo # <<>> /\ Head(todo).do = do
Slot == Head(todo).t
Done == todo' = Tail(todo)

(* A failure releases what the step had resolved, the newest first; `fill`  *)
(* notes it and goes on with its next field, every other action ends.       *)
Owed == (IF 2 \in owned THEN <<Free(2)>> ELSE <<>>) \o (IF 1 \in owned THEN <<Free(1)>> ELSE <<>>)
FromNote ==
  LET notes == {i \in DOMAIN todo : todo[i].do = "note"} IN
  IF notes = {} THEN <<>>
  ELSE SubSeq(todo, CHOOSE i \in notes : \A j \in notes : i <= j, Len(todo))

Fails(code) == failed' = code /\ todo' = Owed \o FromNote

NotFound == IF BySelector(Slot) THEN "SelectorNotFound" ELSE "RefNotFound"

Init ==
  /\ layout = <<NodeA, NodeB>> /\ top = 0 /\ changes = 0 /\ era = 0
  /\ groups = {} /\ freeing = {} /\ lost = {} /\ held = {} /\ did = {}
  /\ request \in Requests
  /\ todo = <<Step("parse", 1)>> /\ failed = Nothing /\ answer = Nothing
  /\ owned = {} /\ point = [t \in Slots |-> [place |-> 1, when |-> 0]]
  /\ object = [t \in Slots |-> [node |-> Nothing, era |-> 0]]
  /\ results = <<>> /\ pressed = [slot |-> 0, node |-> Nothing, steady |-> FALSE]
  /\ queue = <<>> /\ listening = FALSE /\ lagged = FALSE /\ popup = Nothing /\ newTab = Nothing
  /\ read = [facts |-> <<>>, when |-> 0, array |-> <<>>, later |-> 0, era |-> 0, refs |-> <<>>]

(* parse_act_params, then the handler *)
Parse ==
  /\ Doing("parse")
  /\ IF WellFormed(request.kind, request.given)
     THEN todo' = Plan /\ UNCHANGED answer
     ELSE answer' = "InvalidArgument" /\ todo' = <<>>
  /\ UNCHANGED <<did, thePage, theObjects, held, request, failed, owned, point, object, results,
                 read, pressed, theEvents>>

(* The parameters an action reads without asking whether they are there.    *)
Reads ==
  CASE request.kind = "click" -> IF "ref" \in request.given THEN {"ref"} ELSE {"x", "y"}
    [] request.kind = "type" -> {"ref", "text"}
    [] request.kind \in {"hover", "focus", "options"} -> {"ref"}
    [] request.kind = "select" -> {"ref", "value"}
    [] request.kind = "upload" -> IF "ref" \in request.given THEN {} ELSE {"selector"}
    [] request.kind = "drag" -> (IF "from_ref" \in request.given THEN {} ELSE {"from_selector"})
                                  \cup (IF "to_ref" \in request.given THEN {} ELSE {"to_selector"})
    [] OTHER -> {}

-----------------------------------------------------------------------------
(* Resolving an element *)

ScrollTo(n) == IF top < PlaceOf(n) /\ PlaceOf(n) <= top + 1 THEN top ELSE PlaceOf(n) - 1

Scroll ==                                 \* DOM.scrollIntoViewIfNeeded
  /\ Doing("scroll")
  /\ owned' = owned \cup {Slot}
  /\ IF Ref(Slot) \in Elements
     THEN \/ top' = ScrollTo(Ref(Slot)) /\ Done /\ UNCHANGED failed
          \/ failed' = "JsError" /\ todo' = <<Free(Slot)>> \o Owed \o FromNote /\ UNCHANGED top
     ELSE failed' = "RefNotFound" /\ todo' = <<Free(Slot)>> \o Owed \o FromNote /\ UNCHANGED top
  /\ UNCHANGED <<did, layout, changes, era, theObjects, held, request, answer, point, object,
                 results, read, pressed, theEvents>>

\* Where the element is in the view, by its quads or its box; when Chrome has
\* neither, its rectangle is asked of an object of its own.
Measured(n) == point' = [point EXCEPT ![Slot] = [place |-> PlaceOf(n) - top, when |-> changes]]

Quads ==
  /\ Doing("quads")
  /\ \/ Ref(Slot) \in Elements /\ Measured(Ref(Slot)) /\ Done /\ UNCHANGED failed
     \/ /\ Ref(Slot) \in Elements
        /\ todo' = <<Step("object", Slot), Step("rect", Slot)>> \o Tail(todo)
        /\ UNCHANGED <<point, failed>>
     \/ Ref(Slot) \notin Elements /\ Fails("RefNotFound") /\ UNCHANGED point
  /\ UNCHANGED <<did, thePage, theObjects, held, request, answer, owned, object, results, read,
                 pressed, theEvents>>

Resolved(n) ==
  /\ object' = [object EXCEPT ![Slot] = [node |-> n, era |-> era]]
  /\ groups' = groups \cup {Slot}

Object ==                                 \* DOM.resolveNode
  /\ Doing("object")
  /\ \/ Ref(Slot) \in Elements /\ Resolved(Ref(Slot)) /\ Done /\ UNCHANGED failed
     \/ Ref(Slot) \in Elements /\ Fails("JsError") /\ UNCHANGED <<object, groups>>
     \/ Ref(Slot) \notin Elements /\ Fails("RefNotFound") /\ UNCHANGED <<object, groups>>
  /\ UNCHANGED <<did, thePage, freeing, lost, held, request, answer, owned, point, results, read,
                 pressed, theEvents>>

Find ==                                   \* Runtime.evaluate(querySelector)
  /\ Doing("find")
  /\ owned' = owned \cup {Slot}
  /\ IF layout # <<>>
     THEN Resolved(layout[1]) /\ top' = ScrollTo(layout[1]) /\ Done /\ UNCHANGED failed
     ELSE /\ failed' = NotFound /\ todo' = <<Free(Slot)>> \o Owed \o FromNote
          /\ UNCHANGED <<object, groups, top>>
  /\ UNCHANGED <<did, layout, changes, era, freeing, lost, held, request, answer, point, results,
                 read, pressed, theEvents>>

\* An object dies with its document; one that has left the page has no place.
Alive == object[Slot].era = era
Rect ==
  /\ Doing("rect")
  /\ \/ /\ Alive /\ Done /\ UNCHANGED failed
        /\ IF object[Slot].node \in Elements THEN Measured(object[Slot].node)
           ELSE point' = [point EXCEPT ![Slot] = [place |-> 0, when |-> changes]]
     \/ Fails("JsError") /\ UNCHANGED point
  /\ UNCHANGED <<did, thePage, theObjects, held, request, answer, owned, object, results, read,
                 pressed, theEvents>>

Describe ==                               \* its failure is ignored
  /\ Doing("describe") /\ Done
  /\ UNCHANGED <<did, thePage, theObjects, held, request, failed, answer, owned, point, object,
                 results, read, pressed, theEvents>>

(* RemoteObjectScope::release: the scope is given up when Chrome answered.  *)
Release ==
  /\ Doing("free")
  /\ owned' = owned \ {Slot} /\ Done
  /\ \/ groups' = groups \ {Slot} /\ UNCHANGED lost
     \/ groups' = groups /\ lost' = lost \cup {Slot}
  /\ UNCHANGED <<did, thePage, freeing, held, request, failed, answer, point, object, results, read,
                 pressed, theEvents>>

ReleaseLater(t) ==                        \* the task that Drop spawned
  /\ t \in freeing /\ freeing' = freeing \ {t}
  /\ \/ groups' = groups \ {t} /\ UNCHANGED lost
     \/ groups' = groups /\ lost' = lost \cup {t}
  /\ UNCHANGED <<did, thePage, held, theCommand, pressed, theEvents>>

-----------------------------------------------------------------------------
(* Using it *)

Mouse ==
  /\ \E do \in {"move", "down", "up", "wheel"} : Doing(do)
  /\ \/ /\ Done /\ UNCHANGED failed
        /\ held' = CASE Head(todo).do = "down" -> held \cup {"button"}
                     [] Head(todo).do = "up" -> held \ {"button"}
                     [] OTHER -> held
        /\ pressed' = IF Head(todo).do = "down"
                      THEN [slot |-> Slot, node |-> At(point[Slot].place + top),
                            steady |-> point[Slot].when = changes]
                      ELSE pressed
        /\ popup' = IF Head(todo).do = "up" /\ popup = Nothing THEN "allowed" ELSE popup
     \/ Fails("JsError") /\ UNCHANGED <<held, pressed, popup>>
  /\ UNCHANGED <<did, thePage, theObjects, request, answer, owned, point, object, results, read,
                 queue, listening, lagged, newTab>>

Key ==
  /\ \E do \in {"keydown", "keyup"} : Doing(do)
  /\ \/ /\ Done /\ UNCHANGED failed
        /\ held' = IF Head(todo).do = "keydown" THEN held \cup {Head(todo).key} ELSE held \ {Head(todo).key}
     \/ Fails("JsError") /\ UNCHANGED held
  /\ UNCHANGED <<did, thePage, theObjects, request, answer, owned, point, object, results, read,
                 pressed, theEvents>>

\* A function on the object, a text for what has the focus, a script; the
\* element may also refuse it.
Call ==
  /\ \E do \in {"call", "insert", "evaluate", "attach", "files"} : Doing(do)
  /\ \/ /\ (Head(todo).do \in {"call", "attach"} => Alive) /\ Done /\ UNCHANGED failed
        /\ did' = IF Head(todo).do = "call" THEN did \cup {Slot} ELSE did
     \/ /\ Head(todo).do # "files"
        /\ Fails(IF Head(todo).do = "evaluate" /\ layout = <<>> THEN "SelectorNotFound" ELSE "JsError")
        /\ UNCHANGED did
     \/ Head(todo).do = "files" /\ Fails("FileNotFound") /\ UNCHANGED did
  /\ UNCHANGED <<thePage, theObjects, held, request, answer, owned, point, object, results,
                 read, pressed, theEvents>>

\* Mutant: the error of a field is also reported of the next one.
NoteKeepingError ==
  /\ Doing("note")
  /\ results' = Append(results, [ref |-> Ref(Slot), ok |-> failed = Nothing])
  /\ Done /\ UNCHANGED failed
  /\ UNCHANGED <<did, thePage, theObjects, held, request, answer, owned, point, object, read,
                 pressed, theEvents>>

Note ==                                   \* fill: one result per field
  /\ Doing("note")
  /\ results' = Append(results, [ref |-> Ref(Slot), ok |-> failed = Nothing])
  /\ failed' = Nothing /\ Done
  /\ UNCHANGED <<did, thePage, theObjects, held, request, answer, owned, point, object, read,
                 pressed, theEvents>>

-----------------------------------------------------------------------------
(* A click and the tab it opens *)

Subscribe ==
  /\ Doing("subscribe") /\ listening' = TRUE /\ Done
  /\ UNCHANGED <<did, thePage, theObjects, held, request, failed, answer, owned, point, object,
                 results, read, pressed, queue, lagged, popup, newTab>>

\* The target watcher publishes; a receiver keeps one event and loses the
\* older ones (broadcast).
Publish(event) ==
  /\ queue' = IF listening THEN <<event>> ELSE queue
  /\ lagged' = (lagged \/ (listening /\ queue # <<>>))

PageOpensTab ==                           \* after the button came up
  /\ popup = "allowed" /\ request.kind = "click" /\ answer = Nothing
  /\ popup' = (IF todo = <<>> THEN "late" ELSE "published") /\ Publish("ours")
  /\ UNCHANGED <<did, thePage, theObjects, held, theCommand, pressed, listening, newTab>>

OtherEvent ==
  /\ listening /\ answer = Nothing /\ Len(queue) < MaxEvents /\ Publish("other")
  /\ UNCHANGED <<did, thePage, theObjects, held, theCommand, pressed, listening, popup, newTab>>

WaitForTab ==
  /\ Doing("wait")
  /\ \/ queue = <<"ours">> /\ newTab' = "ours" /\ Done /\ UNCHANGED queue
     \/ queue = <<"other">> /\ queue' = <<>> /\ UNCHANGED <<newTab, todo>>
     \/ queue = <<>> /\ Done /\ UNCHANGED <<queue, newTab>>     \* its deadline
  /\ UNCHANGED <<did, thePage, theObjects, held, request, failed, answer, owned, point, object,
                 results, read, pressed, listening, lagged, popup>>

-----------------------------------------------------------------------------
(* Snapshot: two passes over the page, the second for the refs *)

Facts ==
  /\ Doing("facts")
  /\ \/ /\ read' = [read EXCEPT !.facts = layout, !.when = changes,
                                !.refs = [i \in DOMAIN layout |-> Nothing]]
        /\ todo' = IF layout = <<>> THEN <<Step("title", 1)>> ELSE Tail(todo)
        /\ UNCHANGED failed
     \/ failed' = "JsError" /\ todo' = <<>> /\ UNCHANGED read
  /\ UNCHANGED <<did, thePage, theObjects, held, request, answer, owned, point, object, results,
                 pressed, theEvents>>

GivesUpRefs == todo' = <<Free(1), Step("title", 1)>>

Array ==
  /\ Doing("array") /\ owned' = owned \cup {1}
  /\ \/ /\ read' = [read EXCEPT !.array = layout, !.later = changes, !.era = era]
        /\ groups' = groups \cup {1} /\ Done
     \/ GivesUpRefs /\ UNCHANGED <<read, groups>>
  /\ UNCHANGED <<did, thePage, freeing, lost, held, request, failed, answer, point, object, results,
                 pressed, theEvents>>

\* Mutant: the counts of the passes are not compared.
PropertiesUncounted ==
  /\ Doing("properties")
  /\ IF read.era = era THEN Done ELSE GivesUpRefs
  /\ UNCHANGED <<did, thePage, theObjects, held, request, failed, answer, owned, point, object,
                 results, read, pressed, theEvents>>

Properties ==                             \* the counts of the passes must agree
  /\ Doing("properties")
  /\ \/ read.era = era /\ Len(read.array) = Len(read.facts) /\ Done
     \/ GivesUpRefs
  /\ UNCHANGED <<did, thePage, theObjects, held, request, failed, answer, owned, point, object,
                 results, read, pressed, theEvents>>

\* Mutant: ids that could not be read are left out.
IdsFound ==
  /\ Doing("ids") /\ Done
  /\ \E missing \in SUBSET DOMAIN read.array :
       LET ids == SelectSeq([i \in DOMAIN read.array |-> IF i \in missing \/ read.era # era
                                                         THEN Nothing ELSE read.array[i]],
                            LAMBDA n : n # Nothing) IN
       read' = [read EXCEPT !.refs = [i \in DOMAIN read.facts |->
                                        IF i \in DOMAIN ids THEN ids[i] ELSE Nothing]]
  /\ UNCHANGED <<did, thePage, theObjects, held, request, failed, answer, owned, point, object,
                 results, pressed, theEvents>>

Ids ==                                    \* each DOM.describeNode may fail by itself
  /\ Doing("ids") /\ Done
  /\ \E missing \in SUBSET DOMAIN read.array :
       read' = [read EXCEPT !.refs = [i \in DOMAIN read.facts |->
                  IF i \in missing \/ read.era # era \/ i \notin DOMAIN read.array
                  THEN Nothing ELSE read.array[i]]]
  /\ UNCHANGED <<did, thePage, theObjects, held, request, failed, answer, owned, point, object,
                 results, pressed, theEvents>>

Title ==
  /\ Doing("title") /\ Done
  /\ UNCHANGED <<did, thePage, theObjects, held, request, failed, answer, owned, point, object,
                 results, read, pressed, theEvents>>

-----------------------------------------------------------------------------
(* The end of the command, and the page *)

Answer ==
  /\ answer = Nothing /\ todo = <<>>
  /\ answer' = IF failed = Nothing THEN "completed" ELSE failed
  /\ UNCHANGED <<did, thePage, theObjects, held, request, todo, failed, owned, point, object,
                 results, read, pressed, theEvents>>

\* Mutant: a scope whose release is under way has already given up its name.
TimeoutForgetting ==
  /\ answer = Nothing /\ todo # <<>> /\ Head(todo).do # "parse" /\ Timed(Head(todo))
  /\ answer' = "Timeout" /\ todo' = <<>> /\ owned' = {}
  /\ freeing' = freeing \cup (IF Head(todo).do = "free" THEN owned \ {Slot} ELSE owned)
  /\ UNCHANGED <<did, thePage, groups, lost, held, request, failed, point, object, results, read,
                 pressed, theEvents>>

(* execute_with_timeout drops the action.  Each scope it held spawns its    *)
(* release; the command Chrome was carrying out comes before it in order.   *)
Timeout ==
  /\ answer = Nothing /\ todo # <<>> /\ Head(todo).do # "parse" /\ Timed(Head(todo))
  /\ answer' = "Timeout" /\ todo' = <<>> /\ owned' = {}
  /\ freeing' = freeing \cup owned
  /\ UNCHANGED <<did, thePage, groups, lost, held, request, failed, point, object, results, read,
                 pressed, theEvents>>

PageChanges ==
  /\ changes < MaxChanges /\ answer = Nothing
  /\ layout' \in Layouts \ {layout} /\ changes' = changes + 1
  /\ \/ era' = era /\ UNCHANGED <<groups, top>>
     \/ era' = era + 1 /\ groups' = {} /\ top' = 0       \* a navigation
  /\ UNCHANGED <<did, freeing, lost, held, theCommand, pressed, theEvents>>

Next ==
  \/ Parse \/ Scroll \/ Quads \/ Object \/ Find \/ Rect \/ Describe \/ Release
  \/ \E t \in Slots : ReleaseLater(t)
  \/ Mouse \/ Key \/ Call \/ Note
  \/ Subscribe \/ PageOpensTab \/ OtherEvent \/ WaitForTab
  \/ Facts \/ Array \/ Properties \/ Ids \/ Title
  \/ Answer \/ Timeout \/ PageChanges

Spec == Init /\ [][Next]_vars

-----------------------------------------------------------------------------
(* Properties *)

(* No object group is forgotten: Chrome holds one only while the command or *)
(* a spawned task is to release it, or after its release failed             *)
(* (remote_object.rs: cancellation-safe scopes).                            *)
NoGroupForgotten == groups \subseteq owned \cup freeing \cup lost

(* A press goes to the element that was resolved, unless the page changed   *)
(* since it was measured; the source of a drag is the exception (README).   *)
PressesItsElement ==
  (request.kind \in {"click", "type"} /\ "ref" \in request.given /\ pressed.steady)
    => pressed.node = Ref(1)

(* A request that is accepted has every parameter its action reads: none    *)
(* of the `expect("validated above")` of act.rs panics.                     *)
NothingIsMissing ==
  (answer # "InvalidArgument" /\ ~Doing("parse")) => Reads \subseteq request.given

(* A completed action leaves no button, key or modifier down, and a key is  *)
(* pressed with exactly the modifiers of its combination.                   *)
NothingStaysDown ==
  /\ answer = "completed" => held = {}
  /\ "Key" \in held => held = request.mods \cup {"Key"}

(* A tab the click opened while the click listened is in its answer, unless *)
(* so many events came that the receiver lost it.                           *)
NewTabIsTold ==
  (answer = "completed" /\ popup = "published" /\ ~lagged) => newTab = "ours"

(* fill answers one result per field, in order, each with its own outcome.  *)
OneResultPerField ==
  /\ (answer = "completed" /\ request.kind = "fill") => Len(results) = 2
  /\ \A i \in DOMAIN results :
       /\ results[i].ref = (IF i = 1 THEN NodeA ELSE NodeB)
       /\ results[i].ok <=> i \in did

(* The refs of a snapshot belong to the elements they are listed with if    *)
(* the page did not change between the passes, and to none if their number  *)
(* changed.                                                                 *)
RefsFit ==
  (answer = "completed" /\ request.kind = "snapshot") =>
    /\ Len(read.refs) = Len(read.facts)
    /\ \A i \in DOMAIN read.refs :
         read.refs[i] # Nothing =>
           /\ Len(read.array) = Len(read.facts)
           /\ read.when = read.later => read.refs[i] = read.facts[i]

(* mousedown goes to the center of the source (interaction.rs:411).         *)
DragPressesItsSource ==
  (request.kind = "drag" /\ ~BySelector(1) /\ pressed.steady) => pressed.node = Ref(1)

(* What a client's act, fill or snapshot does to the page, leaves behind    *)
(* and reports is true, but for DragPressesItsSource.                       *)
TabActionsAreSound ==
  NoGroupForgotten /\ PressesItsElement /\ NothingIsMissing /\ NothingStaysDown
    /\ NewTabIsTold /\ OneResultPerField /\ RefsFit
=============================================================================
