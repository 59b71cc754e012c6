------------------------------ MODULE PageReads ------------------------------
(***************************************************************************)
(* src/runtime/evaluate.rs, snapshot.rs and artifact.rs: what is read from *)
(* a page - evaluations with their remote handles, structured snapshots,   *)
(* screenshots, PDF and HTML - and how an artifact is saved.               *)
(*                                                                         *)
(* A read takes several commands.  Meanwhile the page and its child frame  *)
(* navigate, the child is detached and attached, and the frame store hears *)
(* of documents and of execution contexts on two streams, both later than  *)
(* Chrome.  Remote objects live in object groups that a guard releases.    *)
(*                                                                         *)
(* Abstracted: what is read, budgets and truncation, geometry; the         *)
(* resolution of a locator, which PageActions models.                      *)
(***************************************************************************)
EXTENDS Naturals

CONSTANTS
  MaxVersions,  \* bound on the documents of a frame, and absences of the child
  MaxUses,      \* bound on the uses of a remote handle
  Savers        \* calls of save with one path

VARIABLES
  doc,      \* frame -> the version of it in Chrome
  absent,   \* the versions of the child without a document
  known,    \* frame -> the version the frame store knows
  context,  \* frame -> context events applied; 2v - 1: the context of version v
  groups,   \* object groups that live in Chrome: the read's and its handle's result
  closing,  \* "open" or "closed"
  guard,    \* the cleanups of these groups
  read,     \* the read
  temp,     \* saver -> its temporary file
  file,     \* the file with the path
  saver     \* saver -> what it does

readVars == <<doc, absent, known, context, groups, closing, guard, read, temp, file, saver>>

Frames == {"main", "child"}
Groups == {"own", "result"}
Evaluations == {"evaluate", "html", "handle"}
Kinds == Evaluations \cup {"page shot", "shot", "frame snapshot", "page snapshot"}
Unread == [kind |-> "none", pc |-> "idle", frame |-> "main", frames |-> {}, todo |-> {},
           want |-> [f \in Frames |-> 0], node |-> 0, content |-> [f \in Frames |-> {}],
           ran |-> FALSE, bad |-> FALSE, uses |-> 0, told |-> "none", seen |-> {}]

\* The page goes on while something reads it.
Reading == closing = "open" /\ read.pc # "ended"
Live(f, v) == f = "main" \/ v \notin absent
ChromeFrames == {f \in Frames : Live(f, doc[f])}
KnownFrames == {f \in Frames : Live(f, known[f])}
\* The default context the store has for a frame; 0 when it has none.
Current(f) == LET v == (context[f] + 1) \div 2
              IN IF context[f] % 2 = 1 /\ Live(f, v) THEN v ELSE 0

At(pc) == read.pc = pc
To(pc) == read' = [read EXCEPT !.pc = pc]
Valid(f) == known[f] = read.want[f] /\ f \in KnownFrames
\* validate_locator_route_authoritative: Chrome's frame tree and the store.
Authentic(f) == doc[f] = read.want[f] /\ Valid(f)
Dropped == [g \in Groups |-> IF guard[g] = "held" THEN "dropped" ELSE guard[g]]
\* The call returns; the guard it still holds is dropped.
Ends(told) == read' = [read EXCEPT !.pc = "ended", !.told = told] /\ guard' = Dropped
page == <<doc, absent, known, context, closing>>
saves == <<temp, file, saver>>
Quiet == UNCHANGED <<page, saves, groups>>

-----------------------------------------------------------------------------
(* The page *)

GroupsOf(f) == IF read.frame = f THEN groups ELSE {}

\* The main frame's navigation takes the child with it.
NavigateMain ==
  /\ Reading /\ doc["main"] < MaxVersions
  /\ \/ /\ "child" \in ChromeFrames /\ doc["child"] < MaxVersions
        /\ doc' = [f \in Frames |-> doc[f] + 1] /\ absent' = absent \cup {doc["child"] + 1}
     \/ /\ "child" \notin ChromeFrames
        /\ doc' = [doc EXCEPT !["main"] = @ + 1] /\ UNCHANGED absent
  /\ groups' = {} /\ UNCHANGED <<known, context, closing, guard, read, saves>>

ChangeChild ==
  /\ Reading /\ doc["child"] < MaxVersions
  /\ doc' = [doc EXCEPT !["child"] = @ + 1]
  /\ \/ UNCHANGED absent
     \/ "child" \in ChromeFrames /\ absent' = absent \cup {doc["child"] + 1}
  /\ groups' = groups \ GroupsOf("child")
  /\ UNCHANGED <<known, context, closing, guard, read, saves>>

ApplyFrameEvent(f) ==
  /\ Reading /\ known[f] < doc[f] /\ known' = [known EXCEPT ![f] = @ + 1]
  /\ UNCHANGED <<doc, absent, context, closing, groups, guard, read, saves>>

\* Contexts matter to an evaluation only.
ApplyContextEvent(f) ==
  /\ read.frame = f /\ read.kind \in Evaluations /\ Reading
  /\ context[f] < 2 * doc[f] - 1 /\ context' = [context EXCEPT ![f] = @ + 1]
  /\ UNCHANGED <<doc, absent, known, closing, groups, guard, read, saves>>

\* A cleanup releases its group, or stays owned by the page.
Cleanup(g) ==
  /\ guard[g] = "dropped"
  /\ \/ groups' = groups \ {g} /\ guard' = [guard EXCEPT ![g] = "none"]
     \/ guard' = [guard EXCEPT ![g] = "retained"] /\ UNCHANGED groups
  /\ UNCHANGED <<page, saves, read>>

ClosePage ==
  /\ closing = "open" /\ read.pc \in {"idle", "handle", "ended"}
  /\ closing' = "closed" /\ groups' = {} /\ guard' = [g \in Groups |-> "none"]
  /\ UNCHANGED <<doc, absent, known, context, read, saves>>

-----------------------------------------------------------------------------
(* Every read *)

\* The gate admits the read, and the route of its frame is taken.
Begin ==
  /\ At("idle") /\ closing = "open"
  /\ \E kind \in Kinds, f \in KnownFrames :
       /\ kind \in {"page shot", "page snapshot"} => f = "main"
       /\ read' = [Unread EXCEPT
                     !.kind = kind, !.frame = f, !.want = known,
                     !.frames = IF kind = "page snapshot" THEN KnownFrames ELSE {f},
                     !.todo = IF kind = "page snapshot" THEN KnownFrames \ {f} ELSE {},
                     !.pc = CASE kind \in Evaluations -> "context"
                              [] kind = "page shot" -> "layout"
                              [] kind = "shot" -> "geometry"
                              [] OTHER -> "world"]
  /\ Quiet /\ UNCHANGED guard

\* The caller goes away, or the deadline of an evaluation passes.
Abandon ==
  /\ read.pc \notin {"idle", "handle", "ended"}
  /\ \/ Ends("nobody")
     \/ read.kind \in {"evaluate", "handle"} /\ read.uses = 0 /\ Ends("Unknown")
  /\ Quiet

-----------------------------------------------------------------------------
(* Evaluation *)

\* main_world_context waits for one; then the group's cleanup is registered.
AwaitContext ==
  /\ At("context")
  /\ \/ /\ Valid(read.frame) /\ Current(read.frame) # 0
        /\ read' = [read EXCEPT !.node = Current(read.frame), !.pc = "run"]
        /\ guard' = [guard EXCEPT !["own"] = "held"]
     \/ ~Valid(read.frame) /\ Ends("NotStarted")
  /\ Quiet

Alive == doc[read.frame] = read.node /\ read.frame \in ChromeFrames
Reads == [read.content EXCEPT ![read.frame] = @ \cup {read.node}]

\* Mutant: an error of the command says nothing about its effects.
RunPlainly ==
  /\ At("run")
  /\ \/ /\ Alive /\ groups' = groups \cup {"own"}
        /\ \/ /\ read' = [read EXCEPT !.ran = TRUE, !.content = Reads, !.pc = "ran"]
              /\ UNCHANGED guard
           \/ /\ \E told \in {"Completed", "NotStarted"} :
                   read' = [read EXCEPT !.ran = TRUE, !.pc = "ended", !.told = told]
              /\ guard' = Dropped
     \/ ~Alive /\ UNCHANGED groups /\ Ends("NotStarted")
  /\ UNCHANGED <<page, saves>>

\* Evaluate or CallFunctionOn: a result, an exception, or an error - before
\* or after the code ran.
Run ==
  /\ At("run")
  /\ \/ /\ Alive /\ groups' = groups \cup {"own"}
        /\ \/ /\ read' = [read EXCEPT !.ran = TRUE, !.content = Reads, !.pc = "ran"]
              /\ UNCHANGED guard
           \/ /\ \E told \in {"Completed", "Unknown"} :
                   read' = [read EXCEPT !.ran = TRUE, !.pc = "ended", !.told = told]
              /\ guard' = Dropped
     \/ ~Alive /\ UNCHANGED groups /\ Ends("Unknown")
  /\ UNCHANGED <<page, saves>>

InContext == Valid(read.frame) /\ Current(read.frame) = read.node

AfterRun ==
  /\ At("ran")
  /\ IF InContext
     THEN /\ read' = [read EXCEPT !.pc = IF read.kind = "handle" THEN "handle" ELSE "release",
                                  !.told = IF read.kind = "handle" THEN "ok" ELSE @]
          /\ UNCHANGED guard
     ELSE Ends("Completed")
  /\ Quiet

\* cleanup.cleanup().await: the group is gone, or its cleanup is retained.
Releases(g, pc) ==
  \/ groups' = groups \ {g} /\ guard' = [guard EXCEPT ![g] = "none"] /\ To(pc)
  \/ /\ guard' = [guard EXCEPT ![g] = "retained"] /\ UNCHANGED groups
     /\ read' = [read EXCEPT !.pc = "ended",
                             !.told = IF read.kind \in Evaluations THEN "Completed" ELSE "error"]

Release ==
  /\ At("release") /\ Releases("own", IF read.kind = "html" THEN "html" ELSE "value")
  /\ UNCHANGED <<page, saves>>

\* The value is decoded.
ReturnValue == At("value") /\ (Ends("ok") \/ Ends("Completed")) /\ Quiet

\* frame_html looks at the frame once more, and at the size.
ReturnHtml ==
  /\ At("html") /\ ((Valid(read.frame) /\ Ends("ok")) \/ Ends("Completed"))
  /\ Quiet

-----------------------------------------------------------------------------
(* Remote handles *)

\* property and call: validate, then a group of its own for the result.
Use ==
  /\ At("handle") /\ read.uses < MaxUses /\ guard["result"] = "none"
  /\ \/ /\ closing = "open" /\ InContext
        /\ read' = [read EXCEPT !.uses = @ + 1, !.pc = "use"]
        /\ guard' = [guard EXCEPT !["result"] = "held"]
     \/ ~InContext /\ read' = [read EXCEPT !.uses = @ + 1] /\ UNCHANGED guard
  /\ Quiet

DropResult == guard' = [guard EXCEPT !["result"] = "dropped"]

UseRuns ==
  /\ At("use")
  /\ \/ /\ InContext /\ Alive /\ "own" \in groups
        /\ groups' = groups \cup {"result"}
        /\ To("used") /\ UNCHANGED guard
     \/ To("handle") /\ DropResult /\ UNCHANGED groups
  /\ UNCHANGED <<page, saves>>

AfterUse ==
  /\ At("used")
  /\ To("handle")
  /\ IF InContext THEN UNCHANGED guard ELSE DropResult
  /\ Quiet

\* release() takes the guard, once; a handle that is dropped drops it.
ReleaseHandle(g) ==
  /\ At("handle") /\ guard[g] = "held"
  /\ \/ groups' = groups \ {g} /\ guard' = [guard EXCEPT ![g] = "none"]
     \/ \E left \in {"retained", "dropped"} :
          guard' = [guard EXCEPT ![g] = left] /\ UNCHANGED groups
  /\ UNCHANGED <<page, saves, read>>

-----------------------------------------------------------------------------
(* Screenshots and PDF *)

\* Of a full page its layout is read; a PDF and a plain shot need none.
ReadLayout ==
  /\ At("layout") /\ ((To("capture") /\ UNCHANGED guard) \/ Ends("NotStarted"))
  /\ Quiet

\* An element or a frame is mapped to the page, and the fence around its
\* geometry validated.
MapGeometry ==
  /\ At("geometry")
  /\ \/ Authentic(read.frame) /\ To("capture") /\ UNCHANGED guard
     \/ Ends("NotStarted")
  /\ Quiet

Shows(f) == [read.content EXCEPT ![f] = @ \cup {doc[f]}]

Capture ==
  /\ At("capture")
  /\ \/ /\ read' = [read EXCEPT !.ran = TRUE, !.content = Shows(read.frame), !.pc = "decode"]
        /\ UNCHANGED guard
     \/ /\ \E told \in {"Unknown", "Completed"} :
             read' = [read EXCEPT !.ran = TRUE, !.pc = "ended", !.told = told]
        /\ guard' = Dropped
  /\ Quiet

\* The bytes are decoded within their limit and begin as their format does.
Decode ==
  /\ At("decode") /\ ((To("shot") /\ UNCHANGED guard) \/ Ends("Completed"))
  /\ Quiet

\* Mutant: the geometry is confirmed by what the store knows.
ConfirmShotInStore ==
  /\ At("shot") /\ read.kind = "shot"
  /\ (IF Valid(read.frame) THEN Ends("ok") ELSE Ends("Completed"))
  /\ Quiet

\* The fence again.
ConfirmShot ==
  /\ At("shot") /\ read.kind = "shot"
  /\ ((Authentic(read.frame) /\ Ends("ok")) \/ Ends("Completed"))
  /\ Quiet

\* validate_document: of a page, only its lifecycle.
ConfirmPageShot ==
  /\ At("shot") /\ read.kind = "page shot"
  /\ (IF Valid("main") THEN Ends("ok") ELSE Ends("Completed"))
  /\ Quiet

-----------------------------------------------------------------------------
(* Structured snapshots, frame by frame *)

Fails == Ends("error")

\* CreateIsolatedWorld in the frame's document.
MakeWorld ==
  /\ At("world")
  /\ \/ /\ read.frame \in ChromeFrames /\ Valid(read.frame)
        /\ read' = [read EXCEPT !.node = doc[read.frame], !.bad = FALSE, !.pc = "facts"]
        /\ UNCHANGED guard
     \/ Fails
  /\ Quiet

ReadFacts ==
  /\ At("facts")
  /\ \/ /\ Alive /\ read' = [read EXCEPT !.content = Reads, !.pc = "candidates"]
        /\ guard' = [guard EXCEPT !["own"] = "held"]
     \/ Fails
  /\ Quiet

\* The candidates are kept in the group.
Collect ==
  /\ At("candidates") /\ UNCHANGED guard
  /\ \/ Alive /\ groups' = groups \cup {"own"} /\ To("elements")
     \/ read' = [read EXCEPT !.bad = TRUE, !.pc = "clean up"] /\ UNCHANGED groups
  /\ UNCHANGED <<page, saves>>

ReadElements ==
  /\ At("elements") /\ UNCHANGED guard
  /\ \/ Alive /\ Valid(read.frame) /\ read' = [read EXCEPT !.content = Reads, !.pc = "clean up"]
     \/ read' = [read EXCEPT !.bad = TRUE, !.pc = "clean up"]
  /\ Quiet

\* Mutant: a frame that could not be read is not cleaned up after.
CleanUpWhenRead ==
  /\ At("clean up")
  /\ \/ ~read.bad /\ Releases("own", "confirm")
     \/ /\ read.bad /\ guard' = [guard EXCEPT !["own"] = "none"] /\ UNCHANGED groups
        /\ read' = [read EXCEPT !.pc = "ended", !.told = "error"]
  /\ UNCHANGED <<page, saves>>

\* cleanup.cleanup().await on every path; its failure fails the snapshot.
CleanUp ==
  /\ At("clean up")
  /\ Releases("own", IF read.bad THEN "failed" ELSE "confirm")
  /\ UNCHANGED <<page, saves>>

\* A frame's snapshot asks Chrome, a page's does so when all its frames are read.
ConfirmFrame ==
  /\ At("confirm")
  /\ \/ /\ read.kind = "page snapshot" /\ Valid(read.frame) /\ UNCHANGED guard
        /\ IF read.todo = {} THEN To("confirm page")
           ELSE \E f \in read.todo :
                  read' = [read EXCEPT !.frame = f, !.todo = @ \ {f}, !.pc = "world"]
     \/ read.kind = "frame snapshot" /\ Authentic(read.frame) /\ Ends("ok")
     \/ Fails
  /\ Quiet

\* The identities of all frames at one moment, and no frame more or less.
ConfirmPage ==
  /\ At("confirm page")
  /\ \/ /\ \A f \in read.frames : Authentic(f)
        /\ ChromeFrames = read.frames /\ KnownFrames = read.frames
        /\ read' = [read EXCEPT !.pc = "ended", !.told = "ok", !.seen = ChromeFrames]
        /\ guard' = Dropped
     \/ Fails
  /\ Quiet

Failed == At("failed") /\ Fails /\ Quiet

-----------------------------------------------------------------------------
(* Saving: a temporary file beside the path, then a rename *)

reading == <<page, groups, guard, read>>
SaverTo(s, pc, told) == saver' = [saver EXCEPT ![s] = [@ EXCEPT !.pc = pc, !.told = told]]

\* prepare_atomic_save, in a blocking task.
CreateTemporary(s) ==
  /\ saver[s].pc = "idle"
  /\ \/ temp' = [temp EXCEPT ![s] = "part"] /\ SaverTo(s, "write", "none")
     \/ UNCHANGED temp /\ SaverTo(s, "ended", "NotStarted")
  /\ UNCHANGED <<reading, file>>

WriteTemporary(s) ==
  /\ saver[s].pc = "write"
  /\ \/ temp' = [temp EXCEPT ![s] = "whole"] /\ SaverTo(s, "commit", saver[s].told)
     \/ temp' = [temp EXCEPT ![s] = "none"] /\ SaverTo(s, "ended", "NotStarted")
  /\ UNCHANGED <<reading, file>>

\* The caller goes away while the task runs; the task's result is dropped.
AbandonSave(s) ==
  /\ saver[s].pc \in {"write", "commit"} /\ saver[s].told = "none"
  /\ SaverTo(s, IF saver[s].pc = "write" THEN "write" ELSE "ended", "nobody")
  /\ temp' = [temp EXCEPT ![s] = IF saver[s].pc = "commit" THEN "none" ELSE @]
  /\ UNCHANGED <<reading, file>>

\* Mutant: a failed sync of the directory is a save that was not started.
CommitUnlessSynced(s) ==
  /\ saver[s].pc = "commit" /\ temp' = [temp EXCEPT ![s] = "none"]
  /\ \/ saver[s].told = "none" /\ SaverTo(s, "ended", "NotStarted") /\ UNCHANGED file
     \/ /\ saver[s].told = "none" /\ file' = [file EXCEPT !.of = s, !.by = @ \cup {s}]
        /\ \E told \in {"ok", "NotStarted"} : SaverTo(s, "ended", told)
     \/ saver[s].told = "nobody" /\ SaverTo(s, "ended", "nobody") /\ UNCHANGED file
  /\ UNCHANGED reading

\* commit_atomic_save: the rename, then the directory is synced.
Commit(s) ==
  /\ saver[s].pc = "commit" /\ temp' = [temp EXCEPT ![s] = "none"]
  /\ \/ saver[s].told = "none" /\ SaverTo(s, "ended", "NotStarted") /\ UNCHANGED file
     \/ /\ saver[s].told = "none"
        /\ file' = [of |-> s, whole |-> temp[s] = "whole", by |-> file.by \cup {s}]
        /\ \E told \in {"ok", "Completed"} : SaverTo(s, "ended", told)
     \/ saver[s].told = "nobody" /\ SaverTo(s, "ended", "nobody") /\ UNCHANGED file
  /\ UNCHANGED reading

-----------------------------------------------------------------------------
Init ==
  /\ doc = [f \in Frames |-> 1] /\ known = doc /\ context = doc
  /\ absent \in SUBSET {1} /\ groups = {} /\ closing = "open"
  /\ guard = [g \in Groups |-> "none"] /\ read = Unread
  /\ temp = [s \in Savers |-> "none"] /\ file = [of |-> "old", whole |-> TRUE, by |-> {}]
  /\ saver = [s \in Savers |-> [pc |-> "idle", told |-> "none"]]

ReadRuns ==
  \/ Begin \/ Abandon \/ AwaitContext \/ Run \/ AfterRun \/ Release
  \/ ReturnValue \/ ReturnHtml
  \/ Use \/ UseRuns \/ AfterUse \/ (\E g \in Groups : ReleaseHandle(g))
  \/ ReadLayout \/ MapGeometry \/ Capture \/ Decode \/ ConfirmShot \/ ConfirmPageShot
  \/ MakeWorld \/ ReadFacts \/ Collect \/ ReadElements \/ CleanUp \/ ConfirmFrame
  \/ ConfirmPage \/ Failed

\* An artifact is saved after it was read.
Save == \E s \in Savers : CreateTemporary(s) \/ WriteTemporary(s) \/ AbandonSave(s) \/ Commit(s)

Next ==
  \/ NavigateMain \/ ChangeChild \/ ClosePage
  \/ \E f \in Frames : ApplyFrameEvent(f) \/ ApplyContextEvent(f)
  \/ \E g \in Groups : Cleanup(g)
  \/ ReadRuns
  \/ read.kind = "page shot" /\ At("ended") /\ read.told = "ok" /\ Save

Spec == Init /\ [][Next]_readVars

-----------------------------------------------------------------------------
(* Properties *)

(* A screenshot of a frame and a snapshot that succeed show only documents  *)
(* the caller asked for, whatever navigated between their commands; and the *)
(* snapshot of a page has every frame the page had at one moment.           *)
ReadsItsDocuments ==
  (read.told = "ok" /\ read.kind \in {"shot", "frame snapshot", "page snapshot"}) =>
    /\ \A f \in read.frames : read.content[f] = {read.want[f]}
    /\ read.kind = "page snapshot" => read.seen = read.frames

(* A caller told that its evaluation or its screenshot was not started can  *)
(* repeat it: nothing ran in the page.                                      *)
NotStartedIsHonest == read.told = "NotStarted" => ~read.ran

(* An object group that lives in Chrome has a guard, a cleanup under way or *)
(* a place among the page's retained cleanups.                              *)
NoGroupLeaks == \A g \in groups : guard[g] # "none"

(* The saved file is the old one or a whole new one, only a save that says  *)
(* so has replaced it, and no save leaves its temporary file behind.        *)
SaveIsAtomic ==
  /\ file.whole
  /\ \A s \in Savers : saver[s].pc = "ended" =>
       (s \in file.by <=> saver[s].told \in {"ok", "Completed"}) /\ temp[s] = "none"

ReadsAreSound == ReadsItsDocuments /\ NotStartedIsHonest /\ NoGroupLeaks /\ SaveIsAtomic
=============================================================================
