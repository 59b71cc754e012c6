----------------------------- MODULE TargetClose -----------------------------
(***************************************************************************)
(* close_created_target_and_wait (src/runtime/target_close.rs): close one  *)
(* target, and report success only when Chrome has let it go.  Several     *)
(* closers may work on the target: a page's close, the cleanup of an       *)
(* aborted creation, a registry's cleanup_all.  Replies, events, the loss  *)
(* of the event stream and the two deadlines come in any order.            *)
(***************************************************************************)
EXTENDS Naturals, Sequences

CONSTANTS
  Closers,   \* concurrent calls for one target
  Unrelated  \* how many events of other targets a call sees at most

VARIABLES
  target,        \* alive; closing: Chrome has accepted a close; or gone
  pc,            \* where a call is
  clock,         \* of a call: early, late from confirm_at on, over from expires_at on
  stream,        \* Target.targetDestroyed as the call has subscribed to it
  reply,         \* to its CloseTarget
  inventory,     \* the answer to its GetTargets
  result,
  noise          \* how many events of other targets a call has got

vars == <<target, pc, clock, stream, reply, inventory, result, noise>>

NoStream == [open |-> FALSE, queue |-> <<>>]

Init ==
  /\ target = "alive"
  /\ pc = [c \in Closers |-> "subscribe"]
  /\ clock = [c \in Closers |-> "early"]
  /\ stream = [c \in Closers |-> NoStream]
  /\ reply = [c \in Closers |-> "none"]
  /\ inventory = [c \in Closers |-> "none"]
  /\ result = [c \in Closers |-> "none"]
  /\ noise = [c \in Closers |-> 0]

-----------------------------------------------------------------------------
(* Chrome and the connection. *)

(* The target goes: a close was accepted, or it crashes or is closed by    *)
(* hand.  Every open stream gets the event.                                *)
Destroy ==
  /\ target # "gone"
  /\ target' = "gone"
  /\ stream' = [c \in Closers |-> IF stream[c].open
                                  THEN [stream[c] EXCEPT !.queue = Append(@, "mine")]
                                  ELSE stream[c]]
  /\ UNCHANGED <<pc, clock, reply, inventory, result, noise>>

(* An unload handler keeps the page. *)
Refuse ==
  /\ target = "closing"
  /\ target' = "alive"
  /\ UNCHANGED <<pc, clock, stream, reply, inventory, result, noise>>

AnswerClose(c) ==
  /\ pc[c] = "close" /\ reply[c] = "none"
  /\ \/ /\ target # "gone"
        /\ \/ target' = "closing" /\ reply' = [reply EXCEPT ![c] = "accepted"]
           \/ reply' = [reply EXCEPT ![c] = "declined"] /\ UNCHANGED target
     \/ target = "gone" /\ reply' = [reply EXCEPT ![c] = "missing"] /\ UNCHANGED target
     \/ reply' = [reply EXCEPT ![c] = "error"] /\ UNCHANGED target
  /\ UNCHANGED <<pc, clock, stream, inventory, result, noise>>

AnswerInventory(c) ==
  /\ pc[c] = "confirm" /\ inventory[c] = "none"
  /\ inventory' = [inventory EXCEPT ![c] = IF target = "gone" THEN "absent" ELSE "present"]
  /\ UNCHANGED <<target, pc, clock, stream, reply, result, noise>>

(* Another target is destroyed, or a payload cannot be parsed. *)
OtherEvent(c) ==
  /\ stream[c].open /\ noise[c] < Unrelated
  /\ noise' = [noise EXCEPT ![c] = @ + 1]
  /\ \E e \in {"other", "error"} : stream' = [stream EXCEPT ![c].queue = Append(@, e)]
  /\ UNCHANGED <<target, pc, clock, reply, inventory, result>>

(* The source of the stream ends: what is queued can still be read. *)
LoseStream(c) ==
  /\ stream[c].open
  /\ stream' = [stream EXCEPT ![c].open = FALSE]
  /\ UNCHANGED <<target, pc, clock, reply, inventory, result, noise>>

Tick(c) ==
  /\ clock[c] # "over"
  /\ clock' = [clock EXCEPT ![c] = IF @ = "early" THEN "late" ELSE "over"]
  /\ UNCHANGED <<target, pc, stream, reply, inventory, result, noise>>

-----------------------------------------------------------------------------
(* The call. *)

End(c, r) ==
  /\ pc' = [pc EXCEPT ![c] = "done"]
  /\ result' = [result EXCEPT ![c] = r]

Subscribe(c) ==
  /\ pc[c] = "subscribe"
  /\ \/ /\ stream' = [stream EXCEPT ![c].open = TRUE]
        /\ pc' = [pc EXCEPT ![c] = "close"]
        /\ UNCHANGED result
     \/ End(c, "failed") /\ UNCHANGED stream
  /\ UNCHANGED <<target, clock, reply, inventory, noise>>

(* mutant: an accepted close is taken for a finished one *)
DispatchEagerly(c) ==
  /\ pc[c] = "close"
  /\ \/ /\ reply[c] = "accepted" /\ End(c, "ok")
     \/ /\ reply[c] = "missing"
        /\ pc' = [pc EXCEPT ![c] = "drain"] /\ UNCHANGED result
     \/ /\ reply[c] = "declined"
        /\ pc' = [pc EXCEPT ![c] = "confirm"] /\ UNCHANGED result
     \/ reply[c] = "error" /\ End(c, "failed")
  /\ UNCHANGED <<target, clock, stream, reply, inventory, noise>>

(* The reply decides: wait for the event, look what is queued, or ask. *)
Dispatch(c) ==
  /\ pc[c] = "close"
  /\ \/ /\ reply[c] = "accepted"
        /\ pc' = [pc EXCEPT ![c] = "wait"] /\ UNCHANGED result
     \/ /\ reply[c] = "missing"
        /\ pc' = [pc EXCEPT ![c] = "drain"] /\ UNCHANGED result
     \/ /\ reply[c] = "declined"
        /\ pc' = [pc EXCEPT ![c] = "confirm"] /\ UNCHANGED result
     \/ reply[c] = "error" /\ End(c, "failed")
  /\ UNCHANGED <<target, clock, stream, reply, inventory, noise>>

(* The next queued event: its own ends the call, another's is skipped, an  *)
(* error sends it to the inventory.                                        *)
ReadEvent(c) ==
  /\ pc[c] \in {"wait", "drain"} /\ stream[c].queue # <<>>
  /\ stream' = [stream EXCEPT ![c].queue = Tail(@)]
  /\ \/ Head(stream[c].queue) = "mine" /\ End(c, "ok")
     \/ Head(stream[c].queue) = "other" /\ UNCHANGED <<pc, result>>
     \/ /\ Head(stream[c].queue) = "error"
        /\ pc' = [pc EXCEPT ![c] = "confirm"] /\ UNCHANGED result
  /\ UNCHANGED <<target, clock, reply, inventory, noise>>

(* mutant: the wait for the event has no deadline of its own *)
StopAtEnd(c) ==
  /\ pc[c] \in {"wait", "drain"} /\ stream[c].queue = <<>>
  /\ pc[c] = "drain" \/ ~stream[c].open
  /\ pc' = [pc EXCEPT ![c] = "confirm"]
  /\ UNCHANGED <<target, clock, stream, reply, inventory, result, noise>>

(* Nothing is queued: drain stops; wait stops at confirm_at or at the end  *)
(* of the stream.                                                          *)
StopWaiting(c) ==
  /\ pc[c] \in {"wait", "drain"} /\ stream[c].queue = <<>>
  /\ pc[c] = "drain" \/ ~stream[c].open \/ clock[c] # "early"
  /\ pc' = [pc EXCEPT ![c] = "confirm"]
  /\ UNCHANGED <<target, clock, stream, reply, inventory, result, noise>>

Confirm(c) ==
  /\ pc[c] = "confirm"
  /\ \/ inventory[c] = "absent" /\ End(c, "ok")
     \/ inventory[c] = "present" /\ End(c, "present")
     \/ End(c, "failed")
  /\ UNCHANGED <<target, clock, stream, reply, inventory, noise>>

(* until: subscription, dispatch and inventory end with the deadline. *)
Expire(c) ==
  /\ clock[c] = "over" /\ pc[c] \in {"subscribe", "close", "confirm"}
  /\ End(c, "deadline")
  /\ UNCHANGED <<target, clock, stream, reply, inventory, noise>>

-----------------------------------------------------------------------------
CallRuns(c) ==
  \/ Subscribe(c) \/ Dispatch(c) \/ ReadEvent(c) \/ StopWaiting(c) \/ Confirm(c) \/ Expire(c)

Next ==
  \/ Destroy \/ Refuse
  \/ \E c \in Closers :
       AnswerClose(c) \/ AnswerInventory(c) \/ OtherEvent(c) \/ LoseStream(c) \/ Tick(c) \/ CallRuns(c)

Spec == Init /\ [][Next]_vars

(* Time passes and the call is polled.  Nothing is asked of Chrome, except *)
(* that it does not destroy other targets faster than the call can skip    *)
(* their events: noise is bounded.                                         *)
Fairness == \A c \in Closers : WF_vars(Tick(c)) /\ WF_vars(CallRuns(c))

FairSpec == Spec /\ Fairness

-----------------------------------------------------------------------------
(* A call is in one of its stages, its answers are of their kinds, and it  *)
(* has a result when it is done.                                           *)
TypeOK ==
  /\ target \in {"alive", "closing", "gone"}
  /\ pc \in [Closers -> {"subscribe", "close", "wait", "drain", "confirm", "done"}]
  /\ clock \in [Closers -> {"early", "late", "over"}]
  /\ stream \in [Closers -> [open : BOOLEAN, queue : Seq({"mine", "other", "error"})]]
  /\ reply \in [Closers -> {"none", "accepted", "declined", "missing", "error"}]
  /\ inventory \in [Closers -> {"none", "absent", "present"}]
  /\ noise \in [Closers -> 0..Unrelated]
  /\ result \in [Closers -> {"none", "ok", "present", "failed", "deadline"}]
  /\ \A c \in Closers : pc[c] = "done" <=> result[c] # "none"

(* "does not report success until Chrome's target inventory confirms       *)
(* completion" (close_created_target_and_wait): the target is gone.        *)
SuccessMeansGone == \A c \in Closers : result[c] = "ok" => target = "gone"

(* "One absolute deadline covers event subscription, command dispatch,     *)
(* event waiting, and the fallback query": the call ends without Chrome.   *)
EveryCallEnds == \A c \in Closers : <>(pc[c] = "done")
=============================================================================
