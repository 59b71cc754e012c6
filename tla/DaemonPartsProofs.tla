--------------------------- MODULE DaemonPartsProofs ---------------------------
(***************************************************************************)
(* Machine-checked proofs about the parts of the daemon in DaemonParts, for*)
(* every value of their constants: what its handlers answer (wait, click   *)
(* download, network watch, the console log, and the commands on cookies   *)
(* and localStorage), from one inductive invariant for each, and that it   *)
(* binds its sessions to browsers soundly.  DaemonProofs states what the   *)
(* handlers' invariants give for the components side by side.              *)
(***************************************************************************)
EXTENDS DaemonParts, FiniteSetTheorems, SequenceTheorems, TLAPS

-----------------------------------------------------------------------------
(* A wait of the daemon (DaemonWaits).                                     *)

(* The elements of a sequence and of its ends.                             *)
LEMMA OfConcat ==
  ASSUME NEW S, NEW s \in Seq(S), NEW u \in Seq(S)
  PROVE  Waits!Of(s \o u) = Waits!Of(s) \cup Waits!Of(u) /\ s \o u \in Seq(S)
<1>1. DOMAIN s = 1 .. Len(s) /\ DOMAIN u = 1 .. Len(u) /\ DOMAIN (s \o u) = 1 .. (Len(s) + Len(u))
  OBVIOUS
<1>2. Len(s) \in Nat /\ Len(u) \in Nat
  OBVIOUS
<1>3. \A i \in 1 .. Len(s) : (s \o u)[i] = s[i] /\ i \in DOMAIN (s \o u)
  BY <1>1, <1>2
<1>4. \A i \in DOMAIN (s \o u) :
        i \in 1 .. Len(s) \/ (i - Len(s) \in 1 .. Len(u) /\ (s \o u)[i] = u[i - Len(s)])
  BY <1>1, <1>2
<1>5. ASSUME NEW i \in 1 .. Len(u)
      PROVE  i + Len(s) \in DOMAIN (s \o u) /\ (s \o u)[i + Len(s)] = u[i]
  <2>1. i + Len(s) \in DOMAIN (s \o u) /\ i + Len(s) \notin 1 .. Len(s) /\ (i + Len(s)) - Len(s) = i
    BY <1>1, <1>2
  <2> QED BY <1>4, <2>1
<1>6. Waits!Of(s \o u) = {(s \o u)[i] : i \in DOMAIN (s \o u)} /\ Waits!Of(s) = {s[i] : i \in 1 .. Len(s)}
      /\ Waits!Of(u) = {u[i] : i \in 1 .. Len(u)}
  BY <1>1 DEF Waits!Of
<1>7. \A x \in Waits!Of(s \o u) : x \in Waits!Of(s) \cup Waits!Of(u)
  BY <1>3, <1>4, <1>6
<1>8. \A x \in Waits!Of(s) \cup Waits!Of(u) : x \in Waits!Of(s \o u)
  BY <1>3, <1>5, <1>6
<1> QED BY <1>7, <1>8

(* ... with one more at its end,                                           *)
LEMMA OfAppend ==
  ASSUME NEW S, NEW s \in Seq(S), NEW e \in S
  PROVE  Waits!Of(Append(s, e)) = Waits!Of(s) \cup {e}
<1>1. Len(s) \in Nat /\ DOMAIN s = 1 .. Len(s) /\ DOMAIN Append(s, e) = 1 .. (Len(s) + 1)
  OBVIOUS
<1>2. \A i \in 1 .. Len(s) : Append(s, e)[i] = s[i] /\ i \in DOMAIN Append(s, e)
  BY <1>1
<1>3. Append(s, e)[Len(s) + 1] = e /\ Len(s) + 1 \in DOMAIN Append(s, e)
  BY <1>1
<1>4. \A i \in DOMAIN Append(s, e) : i \in 1 .. Len(s) \/ i = Len(s) + 1
  BY <1>1
<1> QED BY <1>1, <1>2, <1>3, <1>4 DEF Waits!Of

(* ... and of a sequence without its first.                                *)
LEMMA OfTail ==
  ASSUME NEW S, NEW s \in Seq(S), s # <<>>
  PROVE  Waits!Of(s) = {Head(s)} \cup Waits!Of(Tail(s)) /\ Tail(s) \in Seq(S) /\ Head(s) \in S
<1>1. Len(s) \in Nat \ {0} /\ DOMAIN s = 1 .. Len(s) /\ DOMAIN Tail(s) = 1 .. (Len(s) - 1)
      /\ Head(s) = s[1] /\ Tail(s) \in Seq(S) /\ Head(s) \in S
  OBVIOUS
<1>2. \A i \in 1 .. (Len(s) - 1) : Tail(s)[i] = s[i + 1]
  BY <1>1
<1>3. \A i \in 2 .. Len(s) : i - 1 \in 1 .. (Len(s) - 1) /\ s[i] = Tail(s)[i - 1]
  BY <1>1, <1>2
<1>4. ASSUME NEW x \in Waits!Of(s) PROVE x \in {Head(s)} \cup Waits!Of(Tail(s))
  <2>1. PICK i \in 1 .. Len(s) : x = s[i]
    BY <1>1 DEF Waits!Of
  <2>2. CASE i = 1
    BY <1>1, <2>1, <2>2
  <2>3. CASE i # 1
    <3>1. i \in 2 .. Len(s)
      BY <1>1, <2>1, <2>3
    <3> QED BY <1>1, <1>3, <2>1, <3>1 DEF Waits!Of
  <2> QED BY <2>2, <2>3
<1>5. ASSUME NEW x \in {Head(s)} \cup Waits!Of(Tail(s)) PROVE x \in Waits!Of(s)
  <2>1. CASE x = Head(s)
    BY <1>1, <2>1 DEF Waits!Of
  <2>2. CASE x \in Waits!Of(Tail(s))
    <3>1. PICK i \in 1 .. (Len(s) - 1) : x = Tail(s)[i]
      BY <1>1, <2>2 DEF Waits!Of
    <3>2. i + 1 \in 1 .. Len(s) /\ x = s[i + 1]
      BY <1>1, <1>2, <3>1
    <3> QED BY <1>1, <3>2 DEF Waits!Of
  <2> QED BY <2>1, <2>2
<1> QED BY <1>1, <1>4, <1>5

(* The time is a number, and so is that of the last quiet.                 *)
HandlerWaitTypes ==
  /\ waitWant.time \in Nat /\ waitWant.poll \in BOOLEAN /\ waitWant.idle \in BOOLEAN
  /\ stage \in {"parse", "find", "delay", "subscribe", "loop", "asked", "check", "ended"}
  /\ clock \in 0 .. MaxClock /\ due \in Nat /\ busy \in Nat
  /\ idleSince \in Nat
  /\ starts \in Seq(Loads) /\ ends \in Seq(Loads)
  /\ open \subseteq Loads /\ done \subseteq Loads /\ inFlight \subseteq Loads
  /\ subscribed \in {"none", "starts", "all"}
  /\ stage \in {"parse", "find"} =>
       waitSession \in {"none", "disconnected", "no-tab", "other-tab", "open"}

(* What has been delivered and read, before all subscriptions are made and *)
(* after.                                                                  *)
CounterFollows ==
  /\ Waits!Of(ends) \subseteq done
  /\ subscribed # "all" =>
       open \subseteq early /\ Waits!Of(starts) \subseteq early /\ inFlight = {} /\ ends = <<>>
  /\ subscribed = "none" => starts = <<>>
  /\ stage \in {"loop", "asked", "check"} /\ waitWant.idle => subscribed = "all"
  /\ ~waitWant.idle => open = {} /\ starts = <<>> /\ ends = <<>>
  /\ stage \in {"parse", "find", "delay"} => subscribed = "none" /\ open = {}
  /\ subscribed = "starts" => stage = "subscribe"

(* A poll that saw a request in flight came before the quiet time.         *)
QuietIsLater ==
  /\ busy <= clock
  /\ idleSince # Waits!Never => busy <= idleSince /\ idleSince <= clock
  /\ inFlight # {} => idleSince = Waits!Never
  /\ subscribed # "all" => busy = 0

(* What is known to be met at each stage.                                  *)
WaitProgress ==
  /\ stage \in {"find", "delay", "subscribe", "loop"} =>
       waitWant.time # 0 \/ waitWant.poll \/ waitWant.idle
  /\ stage \in {"subscribe", "loop", "asked", "check"} =>
       clock >= waitWant.time /\ (waitWant.poll \/ waitWant.idle)
  /\ stage = "delay" => due >= waitWant.time
  /\ stage = "asked" => met = <<>> /\ waitWant.poll
  /\ stage = "check" => met = IF waitWant.poll THEN <<"poll">> ELSE <<>>
  /\ stage # "ended" => result = "none"

(* The inductive invariant of a wait; what it answers is part of it.       *)
HandlerWaitInvariant ==
  /\ HandlerWaitTypes /\ CounterFollows /\ QuietIsLater /\ WaitProgress
  /\ Waits!DaemonWaitIsSound

(* It holds when the request arrives,                                      *)
LEMMA HandlerWaitStarts == Waits!WaitInit => HandlerWaitInvariant
<1> SUFFICES ASSUME Waits!WaitInit PROVE HandlerWaitInvariant
  OBVIOUS
<1>1. /\ waitWant \in [time : {0} \cup Delays, poll : BOOLEAN, idle : BOOLEAN]
      /\ open = {} /\ done = {} /\ starts = <<>> /\ ends = <<>> /\ subscribed = "none"
      /\ inFlight = {} /\ idleSince = Waits!Never /\ clock = 0 /\ due = 0 /\ stage = "parse"
      /\ met = <<>> /\ result = "none" /\ early = {} /\ busy = 0
      /\ waitSession \in {"none", "disconnected", "no-tab", "other-tab", "open"}
  BY DEF Waits!WaitInit
<1>2. waitWant.time \in Nat /\ waitWant.poll \in BOOLEAN /\ waitWant.idle \in BOOLEAN
  <2>1. waitWant.time \in {0} \cup Delays /\ waitWant.poll \in BOOLEAN /\ waitWant.idle \in BOOLEAN
    BY <1>1
  <2>2. 0 \in Nat /\ Delays \subseteq Nat
    BY HandlerAssumption
  <2> QED BY <2>1, <2>2
<1>4. HandlerWaitTypes
  BY <1>1, <1>2, HandlerAssumption DEF HandlerWaitTypes, Waits!Never
<1>3. CounterFollows /\ QuietIsLater /\ WaitProgress
  BY <1>1 DEF CounterFollows, QuietIsLater, WaitProgress, Waits!Of
<1> QED BY <1>1, <1>3, <1>4
        DEF HandlerWaitInvariant, Waits!DaemonWaitIsSound, Waits!CounterIsExact, Waits!IdleWasQuiet,
            Waits!EveryConditionIsMet, Waits!PageHasAnswered

(* What a wait that succeeds says is what it waited for.                   *)
LEMMA AnswerIsWhole ==
  ASSUME WaitProgress, HandlerWaitTypes, stage = "check", NEW m,
         m = (IF waitWant.time # 0 THEN <<"time">> ELSE <<>>)
                      \o (IF waitWant.time # 0 /\ waitWant.poll THEN <<"time">> ELSE <<>>)
                      \o met \o (IF waitWant.idle THEN <<"networkidle">> ELSE <<>>)
  PROVE  /\ waitWant.poll <=> "poll" \in Waits!Of(m)
         /\ waitWant.idle <=> "networkidle" \in Waits!Of(m)
         /\ waitWant.time # 0 <=> "time" \in Waits!Of(m)
<1> DEFINE W == {"time", "poll", "networkidle"}
           t == IF waitWant.time # 0 THEN <<"time">> ELSE <<>>
           u == IF waitWant.time # 0 /\ waitWant.poll THEN <<"time">> ELSE <<>>
           n == IF waitWant.idle THEN <<"networkidle">> ELSE <<>>
<1>0. <<"time">> \in Seq(W) /\ <<"poll">> \in Seq(W) /\ <<"networkidle">> \in Seq(W) /\ <<>> \in Seq(W)
  OBVIOUS
<1>1. t \in Seq(W) /\ u \in Seq(W) /\ met \in Seq(W) /\ n \in Seq(W)
  BY <1>0 DEF WaitProgress
<1>8. m = ((t \o u) \o met) \o n
  OBVIOUS
<1>2. Waits!Of(t) = (IF waitWant.time # 0 THEN {"time"} ELSE {})
  BY DEF Waits!Of
<1>3. Waits!Of(u) = (IF waitWant.time # 0 /\ waitWant.poll THEN {"time"} ELSE {})
  BY DEF Waits!Of
<1>4. Waits!Of(met) = (IF waitWant.poll THEN {"poll"} ELSE {})
  BY DEF Waits!Of, WaitProgress
<1>5. Waits!Of(n) = (IF waitWant.idle THEN {"networkidle"} ELSE {})
  BY DEF Waits!Of
<1> HIDE DEF t, u, n
<1> HIDE DEF W
<1>6. PICK a \in Seq(W) : a = t \o u
  BY <1>1, OfConcat
<1>9. PICK b \in Seq(W) : b = a \o met
  BY <1>1, OfConcat
<1>7. Waits!Of(m) = Waits!Of(t) \cup Waits!Of(u) \cup Waits!Of(met) \cup Waits!Of(n)
  <2>1. Waits!Of(a) = Waits!Of(t) \cup Waits!Of(u)
    BY <1>1, <1>6, OfConcat
  <2>2. Waits!Of(a \o met) = Waits!Of(a) \cup Waits!Of(met)
    BY <1>1, OfConcat
  <2>3. Waits!Of(b \o n) = Waits!Of(b) \cup Waits!Of(n)
    BY <1>1, OfConcat
  <2> QED BY <1>6, <1>8, <1>9, <2>1, <2>2, <2>3
<1> QED BY <1>2, <1>3, <1>4, <1>5, <1>7

(* The end that is read was of a request that is counted, or of none.      *)
LEMMA EndIsTaken ==
  ASSUME NEW F, NEW E, NEW E1, NEW h, NEW y, NEW o, F \ (E \cup y) = o \ y, E = {h} \cup E1
  PROVE  (F \ {h}) \ (E1 \cup y) = o \ y
BY SMTT(60)

(* ... and every step of the wait and of the page keeps it.                *)
LEMMA HandlerWaitNext ==
  HandlerWaitInvariant /\ [Waits!WaitNext]_(Waits!dwVars) => HandlerWaitInvariant'
<1> SUFFICES ASSUME HandlerWaitInvariant, [Waits!WaitNext]_(Waits!dwVars)
             PROVE  HandlerWaitInvariant'
  OBVIOUS
<1> USE HandlerAssumption
        DEF HandlerWaitInvariant, HandlerWaitTypes, CounterFollows, QuietIsLater, WaitProgress, Waits!DaemonWaitIsSound,
            Waits!CounterIsExact, Waits!IdleWasQuiet, Waits!EveryConditionIsMet, Waits!PageHasAnswered,
            Waits!Never, Waits!Fails
<1>1. CASE Waits!Parse
  BY <1>1 DEF Waits!Parse
<1>2. CASE Waits!FindTab
  <2>1. /\ stage = "find"
        /\ \/ stage' = "delay" /\ due' = clock + waitWant.time /\ result' = result
           \/ stage' = "ended" /\ due' = due /\ result' \in {"SessionNotFound", "ChromeDisconnected",
                                                           "SessionNoTab", "TargetNotFound"}
        /\ UNCHANGED <<waitWant, waitSession, value, open, done, starts, ends, subscribed, inFlight, idleSince,
                 clock, met, early, busy, flips>>
    BY <1>2 DEF Waits!FindTab
  <2> QED BY <2>1
<1>3. CASE Waits!Delay
  <2>1. CASE waitWant.poll \/ waitWant.idle \/ waitWant.time > WaitTimeout
    BY <1>3, <2>1 DEF Waits!Delay
  <2>2. CASE ~waitWant.poll /\ ~waitWant.idle /\ ~(waitWant.time > WaitTimeout)
    <3>1. /\ stage = "delay" /\ stage' = "ended" /\ result' = "ok" /\ met' = <<"time">> /\ clock >= due
          /\ UNCHANGED <<waitWant, waitSession, value, open, done, starts, ends, subscribed, inFlight, idleSince,
                 clock, due, early, busy, flips>>
      BY <1>3, <2>2 DEF Waits!Delay
    <3>2. {met'[i] : i \in DOMAIN met'} = {"time"}
      BY <3>1
    <3> QED BY <2>2, <3>1, <3>2
  <2> QED BY <2>1, <2>2
<1>4. CASE Waits!SubscribeStarts
  BY <1>4 DEF Waits!SubscribeStarts, Waits!Of
<1>5. CASE Waits!SubscribeEnds
  BY <1>5 DEF Waits!SubscribeEnds, Waits!Of
<1>6. CASE Waits!WaitTimesOut
  BY <1>6 DEF Waits!WaitTimesOut
<1>7. CASE Waits!StreamEnds
  BY <1>7 DEF Waits!StreamEnds
<1>8. CASE Waits!ReadStart
  <2>1. Waits!Of(starts) = {Head(starts)} \cup Waits!Of(starts') /\ starts' \in Seq(Loads) /\ Head(starts) \in Loads
    BY <1>8, OfTail DEF Waits!ReadStart
  <2> QED BY <1>8, <2>1 DEF Waits!ReadStart
<1>9. CASE Waits!ReadEnd
  <2>1. Waits!Of(ends) = {Head(ends)} \cup Waits!Of(ends') /\ ends' \in Seq(Loads)
    BY <1>9, OfTail DEF Waits!ReadEnd
  <2>2. /\ inFlight' = inFlight \ {Head(ends)} /\ starts = <<>> /\ ends # <<>> /\ stage = "loop"
        /\ idleSince' = IF inFlight' = {} /\ idleSince = Waits!Never THEN clock ELSE idleSince
        /\ UNCHANGED <<waitWant, waitSession, value, open, done, starts, subscribed, clock, due, stage, met, result,
                 early, busy, flips>>
    BY <1>9 DEF Waits!ReadEnd
  <2>3. subscribed = "all"
    BY <1>9 DEF Waits!ReadEnd
  <2>4. CounterFollows'
    BY <2>1, <2>2, <2>3
  <2>5. Waits!CounterIsExact'
    <3>1. Waits!Of(starts) = {}
      BY <2>2 DEF Waits!Of
    <3>2. inFlight \ (Waits!Of(ends) \cup early) = open \ early
      BY <2>3, <3>1
    <3>3. (inFlight \ {Head(ends)}) \ (Waits!Of(ends') \cup early) = open \ early
      BY <2>1, <3>2, EndIsTaken
    <3> QED BY <2>2, <3>1, <3>3
  <2>6. HandlerWaitTypes' /\ WaitProgress'
    BY <2>1, <2>2
  <2>7. QuietIsLater'
    BY <2>2, <2>3
  <2>8. Waits!IdleWasQuiet' /\ Waits!EveryConditionIsMet' /\ Waits!PageHasAnswered'
    BY <2>2
  <2> QED BY <2>4, <2>5, <2>6, <2>7, <2>8
<1>10. CASE Waits!Poll
  <2>1. subscribed = "all" => inFlight \ early = open \ early
    BY <1>10 DEF Waits!Poll, Waits!Of
  <2> QED BY <1>10, <2>1 DEF Waits!Poll
<1>11. CASE Waits!Answered
  BY <1>11 DEF Waits!Answered
<1>12. CASE Waits!Check
  <2>1. CASE waitWant.idle => idleSince # Waits!Never /\ clock >= idleSince + Quiet
    <3>1. /\ waitWant.poll <=> "poll" \in Waits!Of(met')
          /\ waitWant.idle <=> "networkidle" \in Waits!Of(met')
          /\ waitWant.time # 0 <=> "time" \in Waits!Of(met')
      BY <1>12, <2>1, AnswerIsWhole DEF Waits!Check
    <3>2. /\ result' = "ok" /\ stage' = "ended" /\ stage = "check"
          /\ UNCHANGED <<waitWant, waitSession, value, open, done, starts, ends, subscribed, inFlight, idleSince,
                 clock, due, early, busy, flips>>
      BY <1>12, <2>1 DEF Waits!Check
    <3>3. Waits!EveryConditionIsMet'
      BY <3>1, <3>2 DEF Waits!Of
    <3>4. Waits!IdleWasQuiet'
      BY <2>1, <3>2
    <3> QED BY <3>2, <3>3, <3>4
  <2>2. CASE ~(waitWant.idle => idleSince # Waits!Never /\ clock >= idleSince + Quiet)
    BY <1>12, <2>2 DEF Waits!Check
  <2> QED BY <2>1, <2>2
<1>13. CASE Waits!Flip
  BY <1>13 DEF Waits!Flip
<1>14. CASE Waits!TargetLost
  BY <1>14 DEF Waits!TargetLost
<1>15. CASE Waits!Tick
  BY <1>15 DEF Waits!Tick
<1>16. ASSUME NEW r \in Loads, Waits!Starts(r) PROVE HandlerWaitInvariant'
  <2>1. starts' = Append(starts, r) => Waits!Of(starts') = Waits!Of(starts) \cup {r}
    BY OfAppend
  <2> QED BY <1>16, <2>1 DEF Waits!Starts, Waits!Listening
<1>17. ASSUME NEW r \in Loads, Waits!Finishes(r) PROVE HandlerWaitInvariant'
  <2>1. ends' = Append(ends, r) => Waits!Of(ends') = Waits!Of(ends) \cup {r}
    BY OfAppend
  <2> QED BY <1>17, <2>1 DEF Waits!Finishes, Waits!Listening
<1>18. CASE UNCHANGED Waits!dwVars
  BY <1>18 DEF Waits!dwVars
<1> QED BY <1>1, <1>2, <1>3, <1>4, <1>5, <1>6, <1>7, <1>8, <1>9, <1>10, <1>11, <1>12, <1>13, <1>14, <1>15,
           <1>16, <1>17, <1>18 DEF Waits!WaitNext

-----------------------------------------------------------------------------
(* Click download (DaemonWaits).                                           *)

(* A call that has the lock, and one whose behaviour may be set.           *)
Admitted == {"locked", "framed", "one", "both", "click", "starting", "following", "restoring"}
Unset == {"locked", "framed", "one", "both"}

(* What the browser knows of a download, and what a stream tells of its    *)
(* end.                                                                    *)
DownloadRecords ==
  [state : {"none", "running", "completed", "canceled", "uncancelled"}, frame : Waits!Frames \cup {None},
   dir : Calls \cup {"default", None}, by : Calls \cup {None}]
ProgressRecords == [guid : Guids, state : {"completed", "canceled"}, file : Waits!Files]

(* Calls, their streams, the browser-wide behaviour and the downloads.     *)
HandlerDownloadTypes ==
  /\ downPc \in [Calls -> Admitted \cup {"begin", "waiting", "ended"}]
  /\ given \in [Calls -> {"fine", "InvalidArgument", "SessionNotFound"}]
  /\ DOMAIN downAnswer = Calls /\ DOMAIN restored = Calls
  /\ holder \in Calls \cup {None} /\ behavior \in Calls \cup {"default"}
  /\ begins \in [Calls -> Seq(Guids)] /\ progress \in [Calls -> Seq(ProgressRecords)]
  /\ started \in [Calls -> Guids \cup {None}] /\ download \in [Guids -> DownloadRecords]

(* The lock is held by who was given it, until its end.                    *)
HolderIsAdmitted ==
  /\ \A c \in Calls : downPc[c] \in Admitted <=> holder = c
  /\ (holder = None \/ \E c \in Calls : holder = c /\ downPc[c] \in Unset) =>
       \/ behavior = "default" /\ ~reporting
       \/ \E c \in Calls : restored[c] = FALSE /\ downAnswer[c] = "DaemonError" /\ downPc[c] = "ended"

(* Streams tell of downloads that have begun, and of ends that are final.  *)
StreamAt(c) ==
  /\ \A g \in Waits!Of(begins[c]) : download[g].state # "none"
  /\ \A e \in Waits!Of(progress[c]) : download[e.guid].state = e.state
StreamsAreTrue == \A c \in Calls : StreamAt(c)

(* What a call follows and answers.                                        *)
FollowAt(c) ==
  /\ started[c] # None =>
       download[started[c]].state # "none" /\ download[started[c]].frame = "main"
  /\ downPc[c] = "following" => started[c] # None
  /\ downPc[c] \notin {"following", "restoring", "ended"} => started[c] = None
  /\ downPc[c] \notin {"restoring", "ended"} => downAnswer[c] = None
  /\ downAnswer[c] \in {"verified", "unverified"} =>
       /\ started[c] # None /\ download[started[c]].state = "completed"
       /\ downAnswer[c] = "verified" => download[started[c]].dir = c
  /\ downAnswer[c] = "Timeout" /\ started[c] # None => download[started[c]].state # "running"
FollowsItsOwn == \A c \in Calls : FollowAt(c)

(* The inductive invariant of click download.                              *)
HandlerDownloadInvariant ==
  HandlerDownloadTypes /\ HolderIsAdmitted /\ StreamsAreTrue /\ FollowsItsOwn

(* It holds when the calls arrive.                                         *)
LEMMA HandlerDownloadStarts == Waits!DownloadInit => HandlerDownloadInvariant
<1> SUFFICES ASSUME Waits!DownloadInit PROVE HandlerDownloadInvariant
  OBVIOUS
<1>1. Waits!NotBegun \in DownloadRecords
  BY DEF Waits!NotBegun, DownloadRecords
<1>2. HandlerDownloadTypes
  BY <1>1 DEF HandlerDownloadTypes, Waits!DownloadInit
<1>3. HolderIsAdmitted /\ StreamsAreTrue
  BY NoneAssumption DEF HolderIsAdmitted, StreamsAreTrue, StreamAt, Admitted, Waits!DownloadInit, Waits!Of
<1>4. FollowsItsOwn
  BY NoneAssumption DEF FollowsItsOwn, FollowAt, Waits!DownloadInit
<1> QED BY <1>2, <1>3, <1>4 DEF HandlerDownloadInvariant

(* A call goes on, and what it follows is as it was.                       *)
LEMMA CallGoesOn ==
  ASSUME HandlerDownloadInvariant, NEW c \in Calls,
         downPc' \in [Calls -> Admitted \cup {"begin", "waiting", "ended"}],
         DOMAIN downAnswer' = Calls, DOMAIN restored' = Calls,
         \A e \in Calls \ {c} : downPc'[e] = downPc[e] /\ downAnswer'[e] = downAnswer[e]
                                /\ restored'[e] = restored[e],
         downPc[c] # "ended",
         holder' = holder \/ (holder = None /\ holder' = c) \/ (holder = c /\ holder' = None),
         downPc'[c] \in Admitted <=> holder' = c,
         behavior' \in Calls \cup {"default"},
         holder # c => UNCHANGED <<behavior, reporting>>,
         downPc'[c] \in Unset => downPc[c] \in Unset \cup {"waiting"} /\ UNCHANGED <<behavior, reporting>>,
         downPc'[c] \in {"begin", "waiting"} => downPc[c] \in {"begin", "waiting"},
         holder = c /\ holder' = None =>
           \/ downPc[c] \in Unset /\ UNCHANGED <<behavior, reporting>>
           \/ behavior' = "default" /\ ~reporting'
           \/ restored'[c] = FALSE /\ downAnswer'[c] = "DaemonError" /\ downPc'[c] = "ended"
  PROVE  HolderIsAdmitted'
<1> DEFINE Clean == \/ behavior = "default" /\ ~reporting
                    \/ \E e \in Calls : restored[e] = FALSE /\ downAnswer[e] = "DaemonError" /\ downPc[e] = "ended"
<1>1. /\ \A e \in Calls : downPc[e] \in Admitted <=> holder = e
      /\ holder = None \/ (\E e \in Calls : holder = e /\ downPc[e] \in Unset) => Clean
      /\ c # None
  BY NoneAssumption DEF HandlerDownloadInvariant, HolderIsAdmitted
<1>2. Clean /\ UNCHANGED <<behavior, reporting>> => Clean'
  OBVIOUS
<1> HIDE DEF Clean
<1>3. \A e \in Calls : downPc'[e] \in Admitted <=> holder' = e
  <2> SUFFICES ASSUME NEW e \in Calls PROVE downPc'[e] \in Admitted <=> holder' = e
    OBVIOUS
  <2>1. CASE e = c
    BY <2>1
  <2>2. CASE e # c
    <3>1. downPc'[e] = downPc[e] /\ e # None
      BY <2>2, NoneAssumption
    <3> QED BY <1>1, <2>2, <3>1
  <2> QED BY <2>1, <2>2
<1>4. ASSUME holder' = None \/ \E e \in Calls : holder' = e /\ downPc'[e] \in Unset PROVE Clean'
  <2>1. CASE holder' = None /\ holder = c
    <3>1. CASE downPc[c] \in Unset /\ UNCHANGED <<behavior, reporting>>
      BY <1>1, <1>2, <2>1, <3>1
    <3>2. CASE \/ behavior' = "default" /\ ~reporting'
               \/ restored'[c] = FALSE /\ downAnswer'[c] = "DaemonError" /\ downPc'[c] = "ended"
      BY <3>2 DEF Clean
    <3> QED BY <2>1, <3>1, <3>2
  <2>2. CASE holder' = None /\ holder # c
    <3>1. holder = None /\ UNCHANGED <<behavior, reporting>>
      BY <1>1, <2>2
    <3> QED BY <1>1, <1>2, <3>1
  <2>3. CASE holder' = c
    <3>1. downPc'[c] \in Unset
      BY <1>1, <1>4, <2>3
    <3>2. downPc[c] \in Unset \cup {"waiting"} /\ UNCHANGED <<behavior, reporting>>
      BY <3>1
    <3>3. holder = None \/ (holder = c /\ downPc[c] \in Unset)
      BY <1>1, <2>3, <3>2 DEF Admitted
    <3> QED BY <1>1, <1>2, <3>2, <3>3
  <2>4. CASE holder' # None /\ holder' # c
    <3>1. PICK e \in Calls \ {c} : holder' = e /\ downPc'[e] \in Unset
      BY <1>4, <2>4
    <3>2. holder = e /\ downPc[e] \in Unset /\ UNCHANGED <<behavior, reporting>>
      BY <1>1, <2>4, <3>1
    <3> QED BY <1>1, <1>2, <3>2
  <2> QED BY <2>1, <2>2, <2>3, <2>4
<1> QED BY <1>3, <1>4 DEF HolderIsAdmitted, Clean

(* A download that has begun keeps frame and directory, and its end.       *)
Later ==
  \A g \in Guids : download[g].state # "none" =>
    /\ download'[g].state # "none"
    /\ download'[g].frame = download[g].frame /\ download'[g].dir = download[g].dir
    /\ download[g].state \in {"completed", "canceled"} => download'[g].state = download[g].state
    /\ download[g].state # "running" => download'[g].state # "running"

(* Who does not move follows what it followed.                             *)
LEMMA FollowsLater ==
  ASSUME HandlerDownloadInvariant, Later, NEW e \in Calls,
         downPc'[e] = downPc[e], downAnswer'[e] = downAnswer[e], started'[e] = started[e]
  PROVE  FollowAt(e)'
<1>1. FollowAt(e) /\ started[e] \in Guids \cup {None}
  BY DEF HandlerDownloadInvariant, HandlerDownloadTypes, FollowsItsOwn
<1>2. started[e] # None =>
        LET g == started[e] IN
        /\ download[g].state # "none" /\ download'[g].state # "none"
        /\ download'[g].frame = download[g].frame /\ download'[g].dir = download[g].dir
        /\ download[g].state = "completed" => download'[g].state = "completed"
        /\ download[g].state # "running" => download'[g].state # "running"
  BY <1>1 DEF FollowAt, Later
<1> QED BY <1>1, <1>2 DEF FollowAt

(* A stream tells the truth of what it told of, and of what is new on it.  *)
LEMMA StreamLater ==
  ASSUME HandlerDownloadInvariant, Later, NEW e \in Calls,
         \A g \in Waits!Of(begins'[e]) :
            g \in Waits!Of(begins[e]) \/ download'[g].state # "none",
         \A x \in Waits!Of(progress'[e]) :
            x \in Waits!Of(progress[e]) \/ download'[x.guid].state = x.state
  PROVE  StreamAt(e)'
<1>1. StreamAt(e) /\ begins[e] \in Seq(Guids) /\ progress[e] \in Seq(ProgressRecords)
  BY DEF HandlerDownloadInvariant, HandlerDownloadTypes, StreamsAreTrue
<1>2. Waits!Of(begins[e]) \subseteq Guids /\ Waits!Of(progress[e]) \subseteq ProgressRecords
  BY <1>1 DEF Waits!Of
<1>3. \A x \in Waits!Of(progress[e]) : x.guid \in Guids /\ x.state \in {"completed", "canceled"}
  BY <1>2 DEF ProgressRecords
<1>4. \A g \in Waits!Of(begins'[e]) : download'[g].state # "none"
  BY <1>1, <1>2 DEF StreamAt, Later
<1>5. \A x \in Waits!Of(progress'[e]) : download'[x.guid].state = x.state
  BY <1>1, <1>3 DEF StreamAt, Later
<1> QED BY <1>4, <1>5 DEF StreamAt, Waits!Of

(* The steps of one call.                                                  *)
LEMMA CallStep ==
  ASSUME HandlerDownloadInvariant, NEW c \in Calls, HolderIsAdmitted', HandlerDownloadTypes', Later,
         \A e \in Calls \ {c} :
           downPc'[e] = downPc[e] /\ downAnswer'[e] = downAnswer[e] /\ started'[e] = started[e],
         FollowAt(c)', StreamsAreTrue'
  PROVE  HandlerDownloadInvariant'
<1>1. \A e \in Calls \ {c} : FollowAt(e)'
  BY FollowsLater
<1> QED BY <1>1 DEF HandlerDownloadInvariant, FollowsItsOwn

(* What touches neither downloads nor streams.                             *)
LEMMA QuietStep ==
  ASSUME HandlerDownloadInvariant, UNCHANGED <<begins, progress, download>>
  PROVE  Later /\ StreamsAreTrue'
<1>1. Later
  BY DEF Later
<1>2. \A e \in Calls : StreamAt(e)'
  BY <1>1, StreamLater
<1> QED BY <1>1, <1>2 DEF StreamsAreTrue

(* ... of calls before the download they follow has begun.                 *)
LEMMA DownloadCallEarly ==
  ASSUME HandlerDownloadInvariant, NEW c \in Calls,
         Waits!Begin(c) \/ Waits!Lock(c) \/ Waits!FindFrame(c) \/ Waits!Subscribe(c) \/ Waits!Allow(c)
  PROVE  HandlerDownloadInvariant'
<1>1. /\ HandlerDownloadTypes /\ FollowAt(c) /\ (downPc[c] \in Admitted <=> holder = c)
      /\ \A e \in Calls : downPc[e] \in Admitted <=> holder = e
  BY DEF HandlerDownloadInvariant, HolderIsAdmitted, FollowsItsOwn
<1> USE NoneAssumption DEF Waits!Answers, Waits!Moves, Waits!Leaves
<1>2. /\ downPc' \in [Calls -> Admitted \cup {"begin", "waiting", "ended"}]
      /\ DOMAIN downAnswer' = Calls /\ DOMAIN restored' = Calls
      /\ \A e \in Calls \ {c} : downPc'[e] = downPc[e] /\ downAnswer'[e] = downAnswer[e]
                                /\ restored'[e] = restored[e]
      /\ UNCHANGED <<given, restored, begins, progress, started, download>>
  BY ZenonT(60), <1>1 DEF HandlerDownloadTypes, Admitted, Waits!Begin, Waits!Lock, Waits!FindFrame, Waits!Subscribe, Waits!Allow
<1>3. /\ downPc[c] \notin {"restoring", "ended", "starting", "following"}
      /\ holder' = holder \/ (holder = None /\ holder' = c) \/ (holder = c /\ holder' = None)
      /\ downPc'[c] \in Admitted <=> holder' = c
      /\ behavior' \in Calls \cup {"default"} /\ holder' \in Calls \cup {None}
      /\ holder # c => UNCHANGED <<behavior, reporting>>
  BY <1>1, <1>2 DEF HandlerDownloadTypes, Admitted, Waits!Begin, Waits!Lock, Waits!FindFrame, Waits!Subscribe, Waits!Allow
<1>4. /\ downPc'[c] \in Unset => downPc[c] \in Unset \cup {"waiting"} /\ UNCHANGED <<behavior, reporting>>
      /\ downPc'[c] \in {"begin", "waiting"} => downPc[c] \in {"begin", "waiting"}
      /\ holder = c /\ holder' = None => downPc[c] \in Unset /\ UNCHANGED <<behavior, reporting>>
      /\ downPc'[c] # "following"
      /\ downPc'[c] \in {"restoring", "ended"} \/ downAnswer'[c] = downAnswer[c]
  BY <1>1, <1>2 DEF HandlerDownloadTypes, Admitted, Unset, Waits!Begin, Waits!Lock, Waits!FindFrame, Waits!Subscribe, Waits!Allow
<1>5. HolderIsAdmitted'
  BY <1>2, <1>3, <1>4, CallGoesOn
<1>6. started[c] = None /\ downAnswer[c] = None
  BY <1>1, <1>3 DEF FollowAt
<1>7. HandlerDownloadTypes'
  BY <1>1, <1>2, <1>3 DEF HandlerDownloadTypes
<1>8. downAnswer'[c] \notin {"verified", "unverified"}
  <2>1. downAnswer' = downAnswer \/ \E code : downAnswer' = [downAnswer EXCEPT ![c] = code] /\ code \in {given[c], "Timeout", "DaemonError"}
    BY DEF Waits!Begin, Waits!Lock, Waits!FindFrame, Waits!Subscribe, Waits!Allow
  <2> QED BY <1>1, <1>6, <2>1 DEF HandlerDownloadTypes
<1>9. FollowAt(c)'
  BY <1>1, <1>2, <1>3, <1>4, <1>6, <1>8 DEF FollowAt
<1>10. Later /\ StreamsAreTrue'
  BY <1>2, QuietStep
<1> QED BY <1>2, <1>5, <1>7, <1>9, <1>10, CallStep

(* ... of calls that give up: a stream fails, or time is over.             *)
LEMMA DownloadCallGivesUp ==
  ASSUME HandlerDownloadInvariant, NEW c \in Calls, Waits!StreamStops(c) \/ Waits!TimeOut(c)
  PROVE  HandlerDownloadInvariant'
<1>1. /\ HandlerDownloadTypes /\ FollowAt(c) /\ (downPc[c] \in Admitted <=> holder = c)
      /\ downPc[c] \in {"starting", "following"} /\ c # None
      /\ downPc[c] = "following" <=> started[c] # None
  BY NoneAssumption DEF HandlerDownloadInvariant, HolderIsAdmitted, FollowsItsOwn, FollowAt,
     Waits!StreamStops, Waits!TimeOut
<1>2. /\ downPc' \in [Calls -> Admitted \cup {"begin", "waiting", "ended"}]
      /\ DOMAIN downAnswer' = Calls /\ downPc'[c] = "restoring"
      /\ downAnswer'[c] \in {"Timeout", "DaemonError"}
      /\ \A e \in Calls \ {c} : downPc'[e] = downPc[e] /\ downAnswer'[e] = downAnswer[e]
      /\ UNCHANGED <<given, holder, behavior, reporting, begins, progress, started, restored>>
  <2>1. CASE Waits!StreamStops(c)
    BY <1>1, <2>1 DEF HandlerDownloadTypes, Admitted, Waits!StreamStops, Waits!Answers
  <2>2. CASE Waits!TimeOut(c)
    BY <1>1, <2>2 DEF HandlerDownloadTypes, Admitted, Waits!TimeOut, Waits!Answers, Waits!CancelDownload
  <2> QED BY <2>1, <2>2
<1>3. HolderIsAdmitted'
  <2>1. downPc[c] \in Admitted /\ holder = c /\ downPc[c] # "ended" /\ downPc'[c] \in Admitted
        /\ downPc'[c] \notin Unset \cup {"begin", "waiting"}
    BY <1>1, <1>2 DEF Admitted, Unset
  <2>2. behavior \in Calls \cup {"default"} /\ DOMAIN restored = Calls
    BY <1>1 DEF HandlerDownloadTypes
  <2> QED BY <1>1, <1>2, <2>1, <2>2, CallGoesOn
<1>4. UNCHANGED download \/ \E state \in {"canceled", "uncancelled"} :
        /\ started[c] \in Guids /\ download[started[c]].state = "running"
        /\ download' = [download EXCEPT ![started[c]].state = state]
  <2>1. CASE Waits!StreamStops(c)
    BY <2>1 DEF Waits!StreamStops
  <2>2. CASE Waits!TimeOut(c)
    BY <1>1, <2>2 DEF HandlerDownloadTypes, Waits!TimeOut, Waits!CancelDownload
  <2> QED BY <2>1, <2>2
<1>5. Later /\ download' \in [Guids -> DownloadRecords]
  <2>1. download \in [Guids -> DownloadRecords]
    BY <1>1 DEF HandlerDownloadTypes
  <2>2. CASE UNCHANGED download
    BY <2>1, <2>2 DEF Later
  <2>3. ASSUME NEW state \in {"canceled", "uncancelled"}, started[c] \in Guids,
               download[started[c]].state = "running",
               download' = [download EXCEPT ![started[c]].state = state]
        PROVE  Later /\ download' \in [Guids -> DownloadRecords]
    <3> DEFINE r == [download[started[c]] EXCEPT !.state = state]
    <3>1. /\ r \in DownloadRecords /\ r.state = state
          /\ r.frame = download[started[c]].frame /\ r.dir = download[started[c]].dir
      BY <2>1, <2>3 DEF DownloadRecords
    <3>2. download' = [download EXCEPT ![started[c]] = r]
      BY <2>1, <2>3
    <3> HIDE DEF r
    <3> QED BY <2>1, <2>3, <3>1, <3>2 DEF Later
  <2> QED BY <1>4, <2>2, <2>3
<1>6. downAnswer'[c] = "Timeout" /\ started[c] # None => download'[started[c]].state # "running"
  <2> SUFFICES ASSUME downAnswer'[c] = "Timeout", started[c] # None
               PROVE  download'[started[c]].state # "running"
    OBVIOUS
  <2>1. Waits!TimeOut(c) /\ downPc[c] = "following" /\ started[c] \in Guids
    BY <1>1 DEF HandlerDownloadTypes, Waits!StreamStops, Waits!Answers
  <2>2. Waits!CancelDownload(started[c])
    BY <2>1 DEF Waits!TimeOut
  <2> QED BY <1>1, <2>1, <2>2 DEF HandlerDownloadTypes, DownloadRecords, Waits!CancelDownload
<1>7. HandlerDownloadTypes'
  BY <1>1, <1>2, <1>5 DEF HandlerDownloadTypes
<1>8. started[c] # None => download'[started[c]].state # "none" /\ download'[started[c]].frame = "main"
  BY <1>1, <1>5 DEF FollowAt, Later, HandlerDownloadTypes
<1>9. FollowAt(c)'
  BY <1>2, <1>6, <1>8, NoneAssumption DEF FollowAt
<1>10. \A e \in Calls : StreamAt(e)'
  BY <1>2, <1>5, StreamLater
<1> QED BY <1>2, <1>3, <1>5, <1>7, <1>9, <1>10, CallStep DEF StreamsAreTrue

(* ... of a call that reads its streams.                                   *)
LEMMA DownloadCallReads ==
  ASSUME HandlerDownloadInvariant, NEW c \in Calls, Waits!ReadBegin(c) \/ Waits!ReadProgress(c)
  PROVE  HandlerDownloadInvariant'
<1>1. /\ HandlerDownloadTypes /\ FollowAt(c) /\ (downPc[c] \in Admitted <=> holder = c)
      /\ StreamAt(c) /\ downPc[c] \in {"starting", "following"} /\ c # None
  BY NoneAssumption DEF HandlerDownloadInvariant, HolderIsAdmitted, FollowsItsOwn, StreamsAreTrue,
     Waits!ReadBegin, Waits!ReadProgress
<1>2. /\ begins[c] \in Seq(Guids) /\ progress[c] \in Seq(ProgressRecords)
      /\ started[c] \in Guids \cup {None}
  BY <1>1 DEF HandlerDownloadTypes
<1>3. ASSUME Waits!ReadBegin(c) PROVE HandlerDownloadInvariant'
  <2> DEFINE g == Head(begins[c])
  <2>1. /\ begins[c] # <<>> /\ downPc[c] = "starting" /\ g \in Guids
        /\ Tail(begins[c]) \in Seq(Guids) /\ g \in Waits!Of(begins[c])
        /\ Waits!Of(Tail(begins[c])) \subseteq Waits!Of(begins[c])
    BY <1>2, <1>3, OfTail DEF Waits!ReadBegin
  <2>2. /\ UNCHANGED <<given, holder, behavior, reporting, progress, download, restored>>
        /\ begins' = [begins EXCEPT ![c] = Tail(@)]
        /\ \/ Waits!Matches(g) /\ started' = [started EXCEPT ![c] = g] /\ Waits!Moves(c, "following")
           \/ UNCHANGED <<started, downPc, downAnswer>>
    BY <1>3 DEF Waits!ReadBegin
  <2>3. download[g].state # "none"
    BY <1>1, <2>1 DEF StreamAt
  <2> HIDE DEF g
  <2>4. /\ HandlerDownloadTypes' /\ begins'[c] = Tail(begins[c])
        /\ \A e \in Calls \ {c} : downPc'[e] = downPc[e] /\ started'[e] = started[e]
                                  /\ begins'[e] = begins[e]
        /\ UNCHANGED downAnswer
    BY ZenonT(60), <1>1, <2>1, <2>2 DEF HandlerDownloadTypes, Admitted, Waits!Moves
  <2>5. \/ downPc'[c] = "starting" /\ started'[c] = started[c]
        \/ downPc'[c] = "following" /\ started'[c] = g /\ download[g].frame = "main"
    <3>1. CASE UNCHANGED <<started, downPc, downAnswer>>
      BY <2>1, <3>1
    <3>2. CASE /\ Waits!Matches(g) /\ started' = [started EXCEPT ![c] = g]
               /\ Waits!Moves(c, "following")
      BY <1>1, <3>2 DEF HandlerDownloadTypes, Waits!Moves, Waits!Matches
    <3> QED BY <2>2, <3>1, <3>2
  <2>6. HolderIsAdmitted'
    <3>1. downPc[c] \in Admitted /\ holder = c /\ downPc[c] # "ended" /\ downPc'[c] \in Admitted
          /\ downPc'[c] \notin Unset \cup {"begin", "waiting"}
      BY <1>1, <2>5 DEF Admitted, Unset
    <3>2. downPc' \in [Calls -> Admitted \cup {"begin", "waiting", "ended"}]
          /\ DOMAIN downAnswer' = Calls /\ DOMAIN restored' = Calls /\ behavior' \in Calls \cup {"default"}
      BY <2>4 DEF HandlerDownloadTypes
    <3> QED BY <1>1, <2>2, <2>4, <3>1, <3>2, CallGoesOn
  <2>7. FollowAt(c)'
    BY <1>1, <2>1, <2>2, <2>3, <2>4, <2>5, NoneAssumption DEF FollowAt
  <2>8. Later
    BY <2>2 DEF Later
  <2>9. \A e \in Calls : StreamAt(e)'
    BY <2>1, <2>2, <2>4, <2>8, StreamLater
  <2> QED BY <2>4, <2>6, <2>7, <2>8, <2>9, CallStep DEF StreamsAreTrue
<1>4. ASSUME Waits!ReadProgress(c) PROVE HandlerDownloadInvariant'
  <2> DEFINE x == Head(progress[c])
  <2>1. /\ progress[c] # <<>> /\ downPc[c] = "following" /\ x \in ProgressRecords
        /\ Tail(progress[c]) \in Seq(ProgressRecords) /\ x \in Waits!Of(progress[c])
        /\ Waits!Of(Tail(progress[c])) \subseteq Waits!Of(progress[c])
    BY <1>2, <1>4, OfTail DEF Waits!ReadProgress
  <2>2. /\ UNCHANGED <<given, holder, behavior, reporting, begins, started, download, restored>>
        /\ progress' = [progress EXCEPT ![c] = Tail(@)]
        /\ \/ Waits!Classify(c, x) = "completed" /\ Waits!Answers(c, Waits!Resolved(c, x), "restoring")
           \/ Waits!Answers(c, "DownloadFailed", "restoring")
           \/ UNCHANGED <<downPc, downAnswer>>
    <3>1. CASE Waits!Classify(c, x) = "completed"
      BY <1>4, <3>1 DEF Waits!ReadProgress
    <3>2. CASE Waits!Classify(c, x) = "canceled"
      BY <1>4, <3>2 DEF Waits!ReadProgress
    <3>3. CASE Waits!Classify(c, x) \notin {"completed", "canceled"}
      BY <1>4, <3>3 DEF Waits!ReadProgress
    <3> QED BY <3>1, <3>2, <3>3
  <2>3. download[x.guid].state = x.state
    BY <1>1, <2>1 DEF StreamAt
  <2> HIDE DEF x
  <2>4. /\ HandlerDownloadTypes' /\ progress'[c] = Tail(progress[c])
        /\ \A e \in Calls \ {c} : downPc'[e] = downPc[e] /\ downAnswer'[e] = downAnswer[e]
                                  /\ progress'[e] = progress[e]
    BY ZenonT(60), <1>1, <2>1, <2>2 DEF HandlerDownloadTypes, Admitted, Waits!Answers
  <2>5. \/ downPc'[c] = "following" /\ downAnswer'[c] = downAnswer[c]
        \/ downPc'[c] = "restoring" /\ downAnswer'[c] = "DownloadFailed"
        \/ /\ downPc'[c] = "restoring" /\ downAnswer'[c] = Waits!Resolved(c, x)
           /\ x.guid = started[c] /\ x.state = "completed"
    <3>1. Waits!Classify(c, x) = "completed" => x.guid = started[c] /\ x.state = "completed"
      BY NoneAssumption DEF Waits!Classify
    <3> QED BY <1>1, <2>1, <2>2, <3>1 DEF HandlerDownloadTypes, Waits!Answers
  <2>6. HolderIsAdmitted'
    <3>1. downPc[c] \in Admitted /\ holder = c /\ downPc[c] # "ended" /\ downPc'[c] \in Admitted
          /\ downPc'[c] \notin Unset \cup {"begin", "waiting"}
      BY <1>1, <2>5 DEF Admitted, Unset
    <3>2. downPc' \in [Calls -> Admitted \cup {"begin", "waiting", "ended"}]
          /\ DOMAIN downAnswer' = Calls /\ DOMAIN restored' = Calls /\ behavior' \in Calls \cup {"default"}
      BY <2>4 DEF HandlerDownloadTypes
    <3> QED BY <1>1, <2>2, <2>4, <3>1, <3>2, CallGoesOn
  <2>7. FollowAt(c)'
    <3>1. Waits!Resolved(c, x) \in {"verified", "unverified", "DownloadFailed"}
          /\ (Waits!Resolved(c, x) = "verified" => download[x.guid].dir = c)
      BY DEF Waits!Resolved
    <3> QED BY <1>1, <2>1, <2>2, <2>3, <2>5, <3>1, NoneAssumption DEF FollowAt
  <2>8. Later
    BY <2>2 DEF Later
  <2>9. \A e \in Calls : StreamAt(e)'
    BY <2>1, <2>2, <2>4, <2>8, StreamLater
  <2> QED BY <2>2, <2>4, <2>6, <2>7, <2>8, <2>9, CallStep DEF StreamsAreTrue
<1> QED BY <1>3, <1>4

(* ... of a call that sets the behaviour back.                             *)
LEMMA DownloadCallRestores ==
  ASSUME HandlerDownloadInvariant, NEW c \in Calls, Waits!Restore(c)
  PROVE  HandlerDownloadInvariant'
<1>1. /\ HandlerDownloadTypes /\ FollowAt(c) /\ downPc[c] = "restoring" /\ holder = c /\ c # None
  BY NoneAssumption DEF HandlerDownloadInvariant, HolderIsAdmitted, FollowsItsOwn, Admitted, Waits!Restore
<1>2. /\ downPc' = [downPc EXCEPT ![c] = "ended"] /\ holder' = None
      /\ begins' = [begins EXCEPT ![c] = <<>>] /\ progress' = [progress EXCEPT ![c] = <<>>]
      /\ UNCHANGED <<given, started, download>>
      /\ \/ /\ behavior' = "default" /\ reporting' = FALSE
            /\ downAnswer' = [downAnswer EXCEPT ![c] = downAnswer[c]]
            /\ restored' = [restored EXCEPT ![c] = TRUE]
         \/ /\ UNCHANGED <<behavior, reporting>>
            /\ downAnswer' = [downAnswer EXCEPT ![c] = "DaemonError"]
            /\ restored' = [restored EXCEPT ![c] = FALSE]
  BY DEF Waits!Restore, Waits!Leaves, Waits!Answers
<1>3. /\ HandlerDownloadTypes' /\ downPc'[c] = "ended" /\ begins'[c] = <<>> /\ progress'[c] = <<>>
      /\ \A e \in Calls \ {c} : downPc'[e] = downPc[e] /\ downAnswer'[e] = downAnswer[e]
           /\ begins'[e] = begins[e] /\ progress'[e] = progress[e] /\ restored'[e] = restored[e]
      /\ \/ behavior' = "default" /\ ~reporting' /\ downAnswer'[c] = downAnswer[c]
         \/ restored'[c] = FALSE /\ downAnswer'[c] = "DaemonError"
  BY <1>1, <1>2 DEF HandlerDownloadTypes
<1>4. HolderIsAdmitted'
  <2>1. downPc[c] # "ended" /\ downPc'[c] \notin Admitted /\ holder' # c
        /\ downPc'[c] \notin Unset \cup {"begin", "waiting"}
    BY <1>1, <1>2, <1>3 DEF Admitted, Unset
  <2>2. downPc' \in [Calls -> Admitted \cup {"begin", "waiting", "ended"}]
        /\ DOMAIN downAnswer' = Calls /\ DOMAIN restored' = Calls /\ behavior' \in Calls \cup {"default"}
    BY <1>3 DEF HandlerDownloadTypes
  <2> QED BY <1>1, <1>2, <1>3, <2>1, <2>2, CallGoesOn
<1>5. FollowAt(c)'
  BY <1>1, <1>2, <1>3 DEF FollowAt
<1>6. Later
  BY <1>2 DEF Later
<1>7. Waits!Of(begins'[c]) = {} /\ Waits!Of(progress'[c]) = {}
  BY <1>3 DEF Waits!Of
<1>8. \A e \in Calls : StreamAt(e)'
  BY <1>3, <1>6, <1>7, StreamLater
<1> QED BY <1>2, <1>3, <1>4, <1>5, <1>6, <1>8, CallStep DEF StreamsAreTrue

(* A download that begins is told to streams.                              *)
LEMMA DownloadBegins ==
  ASSUME HandlerDownloadInvariant, NEW g \in Guids, NEW f \in Waits!Frames, NEW by \in Calls \cup {None},
         download[g].state = "none",
         download' = [download EXCEPT ![g] = [state |-> "running", frame |-> f, dir |-> behavior, by |-> by]],
         begins' = [c \in Calls |-> IF Waits!Subscribed(c) /\ reporting THEN Append(begins[c], g)
                                    ELSE begins[c]],
         UNCHANGED progress
  PROVE  /\ Later /\ StreamsAreTrue' /\ download' \in [Guids -> DownloadRecords]
         /\ begins' \in [Calls -> Seq(Guids)]
<1>1. HandlerDownloadTypes
  BY DEF HandlerDownloadInvariant
<1>2. Later /\ download' \in [Guids -> DownloadRecords] /\ download'[g].state = "running"
  BY <1>1 DEF Later, HandlerDownloadTypes, DownloadRecords
<1>3. ASSUME NEW e \in Calls
      PROVE  begins'[e] \in Seq(Guids) /\ Waits!Of(begins'[e]) \subseteq Waits!Of(begins[e]) \cup {g}
  <2>1. begins[e] \in Seq(Guids)
    BY <1>1 DEF HandlerDownloadTypes
  <2>2. Waits!Of(Append(begins[e], g)) = Waits!Of(begins[e]) \cup {g}
    BY <2>1, OfAppend
  <2> QED BY <2>1, <2>2
<1>4. \A e \in Calls : StreamAt(e)'
  BY <1>2, <1>3, StreamLater
<1> QED BY <1>2, <1>3, <1>4 DEF StreamsAreTrue

(* ... of a call that clicks.                                              *)
LEMMA DownloadCallClicks ==
  ASSUME HandlerDownloadInvariant, NEW c \in Calls, Waits!Click(c)
  PROVE  HandlerDownloadInvariant'
<1>1. /\ HandlerDownloadTypes /\ FollowAt(c) /\ downPc[c] = "click" /\ holder = c /\ c # None
      /\ started[c] = None
  BY NoneAssumption DEF HandlerDownloadInvariant, HolderIsAdmitted, FollowsItsOwn, FollowAt, Admitted, Waits!Click
<1>2. /\ UNCHANGED <<given, holder, behavior, reporting, progress, started, restored>>
      /\ \/ Waits!Answers(c, "Timeout", "restoring") \/ Waits!Answers(c, "act", "restoring")
         \/ Waits!Moves(c, "starting")
      /\ \/ UNCHANGED <<download, begins>>
         \/ \E g \in Guids, f \in Waits!Frames :
              /\ download[g].state = "none"
              /\ download' = [download EXCEPT ![g] =
                                [state |-> "running", frame |-> f, dir |-> behavior, by |-> c]]
              /\ begins' = [d \in Calls |->
                              IF Waits!Subscribed(d) /\ reporting THEN Append(begins[d], g) ELSE begins[d]]
  BY DEF Waits!Click
<1>3. Later /\ StreamsAreTrue' /\ download' \in [Guids -> DownloadRecords] /\ begins' \in [Calls -> Seq(Guids)]
  <2>1. CASE UNCHANGED <<download, begins>>
    BY <1>1, <1>2, <2>1, QuietStep DEF HandlerDownloadTypes
  <2>2. CASE ~ UNCHANGED <<download, begins>>
    BY <1>2, <2>2, DownloadBegins
  <2> QED BY <2>1, <2>2
<1>4. /\ HandlerDownloadTypes' /\ downPc'[c] \in {"restoring", "starting"}
      /\ \A e \in Calls \ {c} : downPc'[e] = downPc[e] /\ downAnswer'[e] = downAnswer[e]
      /\ downPc'[c] = "starting" => downAnswer'[c] = downAnswer[c]
      /\ downAnswer'[c] \notin {"verified", "unverified"}
  <2>1. downAnswer[c] = None
    BY <1>1 DEF FollowAt
  <2> QED BY ZenonT(60), <1>1, <1>2, <1>3, <2>1, NoneAssumption DEF HandlerDownloadTypes, Admitted, Waits!Answers, Waits!Moves
<1>5. HolderIsAdmitted'
  <2>1. downPc[c] # "ended" /\ downPc'[c] \in Admitted /\ downPc'[c] \notin Unset \cup {"begin", "waiting"}
    BY <1>1, <1>4 DEF Admitted, Unset
  <2>2. downPc' \in [Calls -> Admitted \cup {"begin", "waiting", "ended"}]
        /\ DOMAIN downAnswer' = Calls /\ DOMAIN restored' = Calls /\ behavior' \in Calls \cup {"default"}
    BY <1>4 DEF HandlerDownloadTypes
  <2> QED BY <1>1, <1>2, <1>4, <2>1, <2>2, CallGoesOn
<1>6. FollowAt(c)'
  BY <1>1, <1>2, <1>4 DEF FollowAt
<1> QED BY <1>2, <1>3, <1>4, <1>5, <1>6, CallStep

(* What the browser does alone moves no call.                              *)
LEMMA BrowserStep ==
  ASSUME HandlerDownloadInvariant, HandlerDownloadTypes', Later, StreamsAreTrue',
         UNCHANGED <<downPc, downAnswer, holder, behavior, reporting, started, restored>>
  PROVE  HandlerDownloadInvariant'
<1>1. HolderIsAdmitted'
  BY DEF HandlerDownloadInvariant, HolderIsAdmitted
<1>2. \A e \in Calls : FollowAt(e)'
  BY FollowsLater
<1> QED BY <1>1, <1>2 DEF HandlerDownloadInvariant, FollowsItsOwn

(* ... nor does a download that ends.                                      *)
LEMMA BrowserEndsDownload ==
  ASSUME HandlerDownloadInvariant, NEW g \in Guids, NEW state \in {"completed", "canceled"},
         NEW where \in Waits!Files, Waits!DownloadEnds(g, state, where)
  PROVE  HandlerDownloadInvariant'
<1> DEFINE x == [guid |-> g, state |-> state, file |-> where]
<1>1. /\ HandlerDownloadTypes /\ download[g].state \in {"running", "uncancelled"} /\ x \in ProgressRecords
      /\ download' = [download EXCEPT ![g].state = state]
      /\ UNCHANGED <<given, downPc, downAnswer, holder, behavior, reporting, begins, started, restored>>
      /\ progress' = [c \in Calls |-> IF Waits!Subscribed(c) /\ reporting THEN Append(progress[c], x)
                                      ELSE progress[c]]
  BY DEF HandlerDownloadInvariant, Waits!DownloadEnds, Waits!Tell, ProgressRecords
<1>2. Later /\ download' \in [Guids -> DownloadRecords] /\ download'[x.guid].state = x.state
  BY ZenonT(60), <1>1 DEF Later, HandlerDownloadTypes, DownloadRecords
<1> HIDE DEF x
<1>3. ASSUME NEW e \in Calls
      PROVE  /\ progress'[e] \in Seq(ProgressRecords)
             /\ Waits!Of(progress'[e]) \subseteq Waits!Of(progress[e]) \cup {x}
  <2>1. progress[e] \in Seq(ProgressRecords)
    BY <1>1 DEF HandlerDownloadTypes
  <2>2. Waits!Of(Append(progress[e], x)) = Waits!Of(progress[e]) \cup {x}
    BY <1>1, <2>1, OfAppend
  <2> QED BY <1>1, <2>1, <2>2
<1>4. \A e \in Calls : StreamAt(e)'
  BY <1>1, <1>2, <1>3, StreamLater
<1>5. HandlerDownloadTypes'
  <2>1. progress' \in [Calls -> Seq(ProgressRecords)]
    BY <1>1, <1>3
  <2> QED BY <1>1, <1>2, <2>1 DEF HandlerDownloadTypes
<1> QED BY <1>1, <1>2, <1>4, <1>5, BrowserStep DEF StreamsAreTrue

(* Every step of a call and of the browser keeps the invariant,            *)
LEMMA HandlerDownloadNext ==
  ASSUME HandlerDownloadInvariant, Waits!DownloadNext \/ UNCHANGED Waits!ddVars
  PROVE  HandlerDownloadInvariant'
<1>1. CASE \E c \in Calls :
        \/ Waits!Begin(c) \/ Waits!Lock(c) \/ Waits!FindFrame(c) \/ Waits!Subscribe(c) \/ Waits!Allow(c)
        \/ Waits!Click(c) \/ Waits!ReadBegin(c) \/ Waits!StreamStops(c) \/ Waits!TimeOut(c)
        \/ Waits!ReadProgress(c) \/ Waits!Restore(c)
  BY <1>1, DownloadCallEarly, DownloadCallClicks, DownloadCallReads, DownloadCallGivesUp, DownloadCallRestores
<1>2. ASSUME NEW g \in Guids, NEW f \in Waits!Frames, Waits!PageDownloads(g, f)
      PROVE  HandlerDownloadInvariant'
  <2>1. /\ download[g].state = "none" /\ UNCHANGED progress
        /\ download' = [download EXCEPT ![g] = [state |-> "running", frame |-> f, dir |-> behavior, by |-> None]]
        /\ begins' = [c \in Calls |-> IF Waits!Subscribed(c) /\ reporting THEN Append(begins[c], g)
                                      ELSE begins[c]]
        /\ UNCHANGED <<given, downPc, downAnswer, holder, behavior, reporting, started, restored>>
    BY <1>2 DEF Waits!PageDownloads
  <2>2. Later /\ StreamsAreTrue' /\ download' \in [Guids -> DownloadRecords] /\ begins' \in [Calls -> Seq(Guids)]
    BY <2>1, DownloadBegins
  <2>3. HandlerDownloadTypes'
    BY <2>1, <2>2 DEF HandlerDownloadInvariant, HandlerDownloadTypes
  <2> QED BY <2>1, <2>2, <2>3, BrowserStep
<1>3. CASE UNCHANGED Waits!ddVars
  <2>1. UNCHANGED <<given, downPc, downAnswer, holder, behavior, reporting, begins, progress, started,
                    download, restored>>
    BY <1>3 DEF Waits!ddVars
  <2>2. Later /\ StreamsAreTrue' /\ HandlerDownloadTypes'
    BY <2>1, QuietStep DEF HandlerDownloadInvariant, HandlerDownloadTypes
  <2> QED BY <2>1, <2>2, BrowserStep
<1> QED BY <1>1, <1>2, <1>3, BrowserEndsDownload DEF Waits!DownloadNext

(* ... and the invariant says that the command tells the truth and sets    *)
(* the behaviour back.                                                     *)
LEMMA HandlerDownloadIsSound == HandlerDownloadInvariant => Waits!DownloadCommandIsSound
<1> SUFFICES ASSUME HandlerDownloadInvariant PROVE Waits!DownloadCommandIsSound
  OBVIOUS
<1>1. Waits!BehaviorIsRestored
  <2>1. holder = None => (behavior = "default" /\ ~reporting)
                          \/ \E c \in Calls : restored[c] = FALSE /\ downAnswer[c] = "DaemonError"
    BY DEF HandlerDownloadInvariant, HolderIsAdmitted
  <2>2. \A c, d \in Calls :
          downPc[c] \in {"starting", "following"} /\ downPc[d] \in {"starting", "following"} => c = d
    BY DEF HandlerDownloadInvariant, HolderIsAdmitted, Admitted
  <2> QED BY <2>1, <2>2 DEF Waits!BehaviorIsRestored
<1>2. Waits!CompletionIsOwn /\ Waits!TimeoutCancels
  BY DEF HandlerDownloadInvariant, FollowsItsOwn, FollowAt, Waits!CompletionIsOwn, Waits!TimeoutCancels
<1> QED BY <1>1, <1>2 DEF Waits!DownloadCommandIsSound

-----------------------------------------------------------------------------
(* Network watch (TabLogs).                                                *)

(* A sequence that holds nothing twice, longer and shorter by one.         *)
Once(s) == \A i, j \in DOMAIN s : s[i] = s[j] => i = j

(* One that was not in it may be appended,                                 *)
LEMMA OnceAppend ==
  ASSUME NEW S, NEW s \in Seq(S), NEW e \in S, Once(s), e \notin Waits!Of(s)
  PROVE  Once(Append(s, e))
<1>1. Len(s) \in Nat /\ DOMAIN s = 1 .. Len(s) /\ DOMAIN Append(s, e) = 1 .. (Len(s) + 1)
  OBVIOUS
<1>2. \A i \in 1 .. Len(s) : Append(s, e)[i] = s[i] /\ s[i] # e
  BY <1>1 DEF Waits!Of
<1>3. Append(s, e)[Len(s) + 1] = e
  BY <1>1
<1>4. \A i \in DOMAIN Append(s, e) : i \in 1 .. Len(s) \/ i = Len(s) + 1
  BY <1>1
<1> QED BY <1>1, <1>2, <1>3, <1>4 DEF Once

(* ... and its first is not in the rest.                                   *)
LEMMA OnceTail ==
  ASSUME NEW S, NEW s \in Seq(S), s # <<>>, Once(s)
  PROVE  Once(Tail(s)) /\ Head(s) \notin Waits!Of(Tail(s))
<1>1. Len(s) \in Nat \ {0} /\ DOMAIN s = 1 .. Len(s) /\ DOMAIN Tail(s) = 1 .. (Len(s) - 1)
      /\ Head(s) = s[1]
  OBVIOUS
<1>2. \A i \in 1 .. (Len(s) - 1) : Tail(s)[i] = s[i + 1] /\ i + 1 \in 1 .. Len(s) /\ i + 1 # 1
  BY <1>1
<1>3. Once(Tail(s))
  BY <1>1, <1>2 DEF Once
<1>4. 1 \in 1 .. Len(s)
  BY <1>1
<1>5. \A i \in 1 .. (Len(s) - 1) : Tail(s)[i] # Head(s)
  BY <1>1, <1>2, <1>4 DEF Once
<1> QED BY <1>1, <1>3, <1>5 DEF Waits!Of

(* Cardinality and finiteness are those of the standard module.            *)
LEMMA LogsCount ==
  \A S : Logs!Cardinality(S) = Cardinality(S) /\ Logs!IsFiniteSet(S) = IsFiniteSet(S)
  BY DEF Logs!Cardinality, Cardinality, Logs!IsFiniteSet, IsFiniteSet

(* A line of the command's answer.                                         *)
Reports == [request : Loads, how : {"finished", "failed"}]

(* The request, what it has read and what the page tells it.               *)
HandlerWatchTypes ==
  /\ watchWant \in [count : Counts \cup {0}, session : {"open", "SessionNotFound", "TargetNotFound"}]
  /\ watchPc \in {"begin", "subscribing", "watching", "ended"}
  /\ matches \subseteq Loads /\ dropped \subseteq Loads
  /\ watchRequest \in [Loads -> {"sent", "answered", "finished", "failed"}]
  /\ arrived \in [Logs!Streams -> Seq(Loads)] /\ seen \subseteq Logs!Streams \X Loads
  /\ watchPending \subseteq Loads /\ IsFiniteSet(watchPending)
  /\ terminals \in [Loads -> {"finished", "failed", None}] /\ IsFiniteSet(Logs!Buffered)
  /\ responses \in Seq(Reports)

(* The page tells of an event once, and of what has happened.              *)
EventsOnce ==
  \A s \in Logs!Streams :
    /\ Once(arrived[s])
    /\ \A q \in Waits!Of(arrived[s]) : <<s, q>> \notin seen

(* An event that is on its stream or has been read.                        *)
EventTold(s, q) == q \in Waits!Of(arrived[s]) \/ <<s, q>> \in seen

(* What a stream tells of a request is what has become of it.              *)
EventsAreTrue ==
  \A q \in Loads :
    /\ EventTold("response", q) => watchRequest[q] # "sent"
    /\ \A s \in {"finished", "failed"} : EventTold(s, q) => watchRequest[q] = s

(* Where each request is: not answered yet, waiting for its end, reported, *)
(* or left out.                                                            *)
Track(q) ==
  /\ q \in watchPending =>
       /\ <<"response", q>> \in seen /\ ~ Logs!Ended(q) /\ terminals[q] = None
       /\ q \in matches /\ q \notin dropped /\ q \notin Logs!Reported
  /\ terminals[q] # None =>
       /\ <<terminals[q], q>> \in seen
       /\ <<"response", q>> \notin seen \/ q \notin matches \/ q \in dropped
  /\ watchPc = "watching" /\ Logs!Ended(q) /\ <<"response", q>> \notin seen => terminals[q] # None
  /\ q \in matches /\ <<"response", q>> \in seen /\ q \notin dropped =>
       q \in watchPending \/ (q \in Logs!Reported /\ Logs!Ended(q))
  /\ q \in Logs!Reported => q \in matches /\ <<"response", q>> \in seen
  /\ q \in dropped => <<"response", q>> \in seen
RequestsAreTracked == \A q \in Loads : Track(q)

(* What is reported is an end that was read, once.                         *)
ReportsAreRead ==
  /\ \A i \in DOMAIN responses : <<responses[i].how, responses[i].request>> \in seen
  /\ \A i, j \in DOMAIN responses : responses[i].request = responses[j].request => i = j

(* It reports and awaits no more than was asked, and keeps no more ends    *)
(* than its buffer holds.                                                  *)
WatchIsBounded ==
  /\ Len(responses) + Cardinality(watchPending) <= watchWant.count
  /\ Cardinality(Logs!Buffered) <= Capacity

(* The reason it gives is why it stopped.                                  *)
ReasonIsTrue ==
  /\ reason = "count" => Len(responses) = watchWant.count
  /\ reason \in {"timeout", "event_stream_closed", "event_stream_error"} => Len(responses) < watchWant.count
  /\ (reason = "terminal_buffer_overflow") <=> (Cardinality(Logs!Buffered) = Capacity)

(* It stops for a reason, and reads nothing before it is subscribed.       *)
WatchStops ==
  /\ WatchIsBounded /\ ReasonIsTrue
  /\ reason # None => watchPc = "ended"
  /\ watchPc \in {"begin", "subscribing"} => seen = {}

(* The inductive invariant of network watch.                               *)
HandlerWatchInvariant ==
  HandlerWatchTypes /\ EventsOnce /\ EventsAreTrue /\ RequestsAreTracked /\ ReportsAreRead /\ WatchStops

(* It holds when the request arrives.                                      *)
LEMMA HandlerWatchStarts == Logs!WatchInit => HandlerWatchInvariant
<1> SUFFICES ASSUME Logs!WatchInit PROVE HandlerWatchInvariant
  OBVIOUS
<1>1. Logs!Buffered = {} /\ Logs!Reported = {}
  BY DEF Logs!WatchInit, Logs!Buffered, Logs!Reported
<1>2. HandlerWatchTypes
  BY <1>1, FS_EmptySet DEF HandlerWatchTypes, Logs!WatchInit
<1>3. EventsOnce /\ EventsAreTrue /\ ReportsAreRead
  BY DEF EventsOnce, EventsAreTrue, EventTold, ReportsAreRead, Once, Waits!Of, Logs!WatchInit, Logs!Streams
<1>4. RequestsAreTracked
  BY <1>1 DEF RequestsAreTracked, Track, Logs!WatchInit, Logs!Ended
<1>5. WatchStops
  <2>1. Cardinality(Logs!Buffered) = 0 /\ Cardinality(watchPending) = 0 /\ Len(responses) = 0
    BY <1>1, FS_EmptySet DEF Logs!WatchInit
  <2>2. watchWant.count \in Nat
    <3>1. watchWant.count \in Counts \cup {0}
      BY <1>2 DEF HandlerWatchTypes
    <3>2. Counts \cup {0} \subseteq Nat
      BY HandlerAssumption
    <3> QED BY <3>1, <3>2
  <2>3. reason = None /\ seen = {}
    BY DEF Logs!WatchInit
  <2>4. WatchIsBounded
    BY <2>1, <2>2, HandlerAssumption DEF WatchIsBounded
  <2>5. (reason = "terminal_buffer_overflow") <=> (Cardinality(Logs!Buffered) = Capacity)
    BY <2>1, <2>3, HandlerAssumption, NoneAssumption
  <2>6. ReasonIsTrue
    BY <2>3, <2>5, NoneAssumption DEF ReasonIsTrue
  <2> QED BY <2>3, <2>4, <2>6 DEF WatchStops
<1> QED BY <1>2, <1>3, <1>4, <1>5 DEF HandlerWatchInvariant

(* The watch begins, subscribes or stops: what it read is as it was.       *)
LEMMA WatchGoesOn ==
  ASSUME HandlerWatchInvariant,
         UNCHANGED <<watchWant, matches, watchRequest, arrived, watchPending, terminals, responses,
                     dropped, seen>>,
         watchPc' \in {"begin", "subscribing", "watching", "ended"},
         watchPc' \in {"begin", "subscribing"} => watchPc \in {"begin", "subscribing"},
         watchPc' = "watching" => watchPc \in {"subscribing", "watching"},
         ReasonIsTrue', reason' # None => watchPc' = "ended"
  PROVE  HandlerWatchInvariant'
<1>1. Logs!Buffered' = Logs!Buffered /\ Logs!Reported' = Logs!Reported
  BY DEF Logs!Buffered, Logs!Reported
<1>2. HandlerWatchTypes' /\ EventsOnce' /\ EventsAreTrue' /\ ReportsAreRead'
  BY <1>1 DEF HandlerWatchInvariant, HandlerWatchTypes, EventsOnce, EventsAreTrue, EventTold, ReportsAreRead
<1>3. RequestsAreTracked'
  <2> SUFFICES ASSUME NEW q \in Loads PROVE Track(q)'
    BY DEF RequestsAreTracked
  <2>1. Track(q)
    BY DEF HandlerWatchInvariant, RequestsAreTracked
  <2>2. Logs!Ended(q)' = Logs!Ended(q)
    BY DEF Logs!Ended
  <2>3. watchPc' = "watching" /\ watchPc # "watching" => seen = {}
    BY DEF HandlerWatchInvariant, WatchStops
  <2>4. seen = {} => ~ Logs!Ended(q)
    BY DEF Logs!Ended
  <2> QED BY <1>1, <2>1, <2>2, <2>3, <2>4 DEF Track
<1>4. WatchStops'
  BY <1>1 DEF HandlerWatchInvariant, WatchStops, WatchIsBounded
<1> QED BY <1>2, <1>3, <1>4 DEF HandlerWatchInvariant

(* The handler's steps that read nothing.                                  *)
LEMMA WatchHandler ==
  ASSUME HandlerWatchInvariant,
         Logs!Begin \/ Logs!Subscribe \/ Logs!TimeOut \/ Logs!StreamStops \/ Logs!CountReached
  PROVE  HandlerWatchInvariant'
<1>1. /\ UNCHANGED <<watchWant, matches, watchRequest, arrived, watchPending, terminals, responses,
                     dropped, seen>>
  BY DEF Logs!Begin, Logs!Subscribe, Logs!TimeOut, Logs!StreamStops, Logs!CountReached, Logs!Stop
<1>2. /\ HandlerWatchTypes /\ WatchIsBounded /\ ReasonIsTrue
      /\ watchWant.session \in {"open", "SessionNotFound", "TargetNotFound"}
      /\ Len(responses) \in Nat /\ Cardinality(watchPending) \in Nat
  BY FS_CardinalityType DEF HandlerWatchInvariant, WatchStops, HandlerWatchTypes
<1>3. watchWant.count \in Nat
  <2>1. watchWant.count \in Counts \cup {0}
    BY <1>2 DEF HandlerWatchTypes
  <2>2. Counts \cup {0} \subseteq Nat
    BY HandlerAssumption
  <2> QED BY <2>1, <2>2
<1>4. watchPc \in {"begin", "subscribing", "watching"} /\ reason = None
  BY NoneAssumption DEF HandlerWatchInvariant, WatchStops,
     Logs!Begin, Logs!Subscribe, Logs!TimeOut, Logs!StreamStops, Logs!CountReached, Logs!Stop, Logs!Watching
<1>5. /\ watchPc' \in {"begin", "subscribing", "watching", "ended"}
      /\ watchPc' \in {"begin", "subscribing"} => watchPc \in {"begin", "subscribing"}
      /\ watchPc' = "watching" => watchPc \in {"subscribing", "watching"}
      /\ reason' = reason \/ watchPc' = "ended"
      /\ \/ reason' \in {None, "InvalidArgument", "SessionNotFound", "TargetNotFound", "DaemonError"}
         \/ reason' = "count" /\ Len(responses) >= watchWant.count
         \/ /\ reason' \in {"timeout", "event_stream_closed", "event_stream_error"}
            /\ Len(responses) < watchWant.count
  BY <1>2, <1>4 DEF Logs!Begin, Logs!Subscribe, Logs!TimeOut, Logs!StreamStops, Logs!CountReached, Logs!Stop,
     Logs!Ends, Logs!Watching
<1>6. Logs!Buffered' = Logs!Buffered
  BY <1>1 DEF Logs!Buffered
<1>7. (reason = "terminal_buffer_overflow") <=> (Cardinality(Logs!Buffered) = Capacity)
  BY <1>2 DEF ReasonIsTrue
<1>8. Cardinality(Logs!Buffered) # Capacity
  BY <1>4, <1>7, NoneAssumption
<1>9. reason' # "terminal_buffer_overflow"
  BY <1>5, NoneAssumption
<1>10. (reason' = "terminal_buffer_overflow") <=> (Cardinality(Logs!Buffered') = Capacity)
  BY <1>6, <1>8, <1>9
<1>11. reason' = "count" => Len(responses) = watchWant.count
  <2>1. Len(responses) + Cardinality(watchPending) <= watchWant.count
    BY <1>2 DEF WatchIsBounded
  <2> QED BY <1>2, <1>3, <1>5, <2>1, NoneAssumption
<1>12. reason' \in {"timeout", "event_stream_closed", "event_stream_error"} => Len(responses) < watchWant.count
  BY <1>5, NoneAssumption
<1>13. ReasonIsTrue'
  BY <1>1, <1>10, <1>11, <1>12 DEF ReasonIsTrue
<1>14. reason' # None => watchPc' = "ended"
  BY <1>4, <1>5
<1> QED BY <1>1, <1>5, <1>13, <1>14, WatchGoesOn

(* An event that is read was not read before, and has happened.            *)
LEMMA EventTaken ==
  ASSUME HandlerWatchInvariant, NEW s \in Logs!Streams, arrived[s] # <<>>, Logs!Take(s),
         UNCHANGED watchRequest
  PROVE  /\ Head(arrived[s]) \in Loads /\ <<s, Head(arrived[s])>> \notin seen
         /\ EventTold(s, Head(arrived[s])) /\ seen' = seen \cup {<<s, Head(arrived[s])>>}
         /\ arrived' \in [Logs!Streams -> Seq(Loads)] /\ seen' \subseteq Logs!Streams \X Loads
         /\ EventsOnce' /\ EventsAreTrue'
<1> DEFINE q == Head(arrived[s])
<1>1. /\ arrived \in [Logs!Streams -> Seq(Loads)] /\ seen \subseteq Logs!Streams \X Loads
      /\ EventsOnce /\ EventsAreTrue
      /\ arrived' = [arrived EXCEPT ![s] = Tail(@)] /\ seen' = seen \cup {<<s, q>>}
  BY DEF HandlerWatchInvariant, HandlerWatchTypes, Logs!Take
<1>2. /\ q \in Loads /\ Tail(arrived[s]) \in Seq(Loads)
      /\ Waits!Of(arrived[s]) = {q} \cup Waits!Of(Tail(arrived[s]))
  BY <1>1, OfTail
<1>3. Once(Tail(arrived[s])) /\ q \notin Waits!Of(Tail(arrived[s]))
  BY <1>1, OnceTail DEF EventsOnce
<1>4. <<s, q>> \notin seen /\ EventTold(s, q)
  BY <1>1, <1>2 DEF EventsOnce, EventTold
<1>5. /\ arrived' \in [Logs!Streams -> Seq(Loads)] /\ seen' \subseteq Logs!Streams \X Loads
      /\ arrived'[s] = Tail(arrived[s]) /\ \A t \in Logs!Streams \ {s} : arrived'[t] = arrived[t]
  BY <1>1, <1>2
<1> HIDE DEF q
<1>6. ASSUME NEW t \in Logs!Streams
      PROVE  /\ Once(arrived'[t]) /\ (\A r \in Waits!Of(arrived'[t]) : <<t, r>> \notin seen')
             /\ \A r \in Loads : r \in Waits!Of(arrived'[t]) \/ <<t, r>> \in seen' <=> EventTold(t, r)
  <2>1. CASE t = s
    BY <1>1, <1>2, <1>3, <1>5, <2>1 DEF EventsOnce, EventTold
  <2>2. CASE t # s
    BY <1>1, <1>5, <2>2 DEF EventsOnce, EventTold
  <2> QED BY <2>1, <2>2
<1>7. EventsOnce'
  BY <1>6 DEF EventsOnce, Waits!Of
<1>8. EventsAreTrue'
  BY ZenonT(60), <1>1, <1>6 DEF EventsAreTrue, EventTold, Waits!Of, Logs!Streams
<1> QED BY <1>1, <1>2, <1>4, <1>5, <1>7, <1>8 DEF q

(* A step about one request leaves the others where they are.              *)
LEMMA OthersTracked ==
  ASSUME HandlerWatchInvariant, NEW s \in Logs!Streams, NEW q \in Loads, seen' = seen \cup {<<s, q>>},
         watchPc' = "watching" => watchPc = "watching", UNCHANGED matches,
         \A r \in Loads \ {q} :
           /\ r \in watchPending' <=> r \in watchPending
           /\ terminals'[r] = terminals[r] /\ (r \in dropped' <=> r \in dropped)
           /\ r \in Logs!Reported' <=> r \in Logs!Reported
  PROVE  \A r \in Loads \ {q} : Track(r)'
<1> SUFFICES ASSUME NEW r \in Loads \ {q} PROVE Track(r)'
  OBVIOUS
<1>1. Track(r) /\ \A t : <<t, r>> \in seen' <=> <<t, r>> \in seen
  BY DEF HandlerWatchInvariant, RequestsAreTracked
<1>2. Logs!Ended(r)' <=> Logs!Ended(r)
  BY <1>1 DEF Logs!Ended
<1> QED BY <1>1, <1>2 DEF Track

(* One more response is reported.                                          *)
LEMMA ReportAdds ==
  ASSUME HandlerWatchInvariant, NEW q \in Loads, NEW how \in {"finished", "failed"},
         Logs!Report(q, how), q \notin Logs!Reported, <<how, q>> \in seen', seen \subseteq seen'
  PROVE  /\ responses' \in Seq(Reports) /\ Logs!Reported' = Logs!Reported \cup {q}
         /\ Len(responses') = Len(responses) + 1 /\ ReportsAreRead'
<1> DEFINE x == [request |-> q, how |-> how]
<1>1. /\ responses \in Seq(Reports) /\ x \in Reports /\ responses' = Append(responses, x)
      /\ x.request = q /\ x.how = how /\ ReportsAreRead
  BY DEF HandlerWatchInvariant, HandlerWatchTypes, Reports, Logs!Report
<1> HIDE DEF x
<1>2. /\ Len(responses) \in Nat /\ DOMAIN responses = 1 .. Len(responses)
      /\ DOMAIN responses' = 1 .. (Len(responses) + 1) /\ responses' \in Seq(Reports)
      /\ Len(responses') = Len(responses) + 1
  BY <1>1
<1>3. /\ responses'[Len(responses) + 1] = x
      /\ \A i \in DOMAIN responses : responses'[i] = responses[i] /\ i \in DOMAIN responses'
  BY <1>1, <1>2
<1>4. Len(responses) + 1 \in DOMAIN responses'
      /\ \A i \in DOMAIN responses' : i \in DOMAIN responses \/ i = Len(responses) + 1
  BY <1>2
<1>5. Logs!Reported' = Logs!Reported \cup {q}
  BY <1>1, <1>3, <1>4 DEF Logs!Reported
<1>6. \A i \in DOMAIN responses : responses[i].request # q
  BY DEF Logs!Reported
<1>7. ReportsAreRead'
  BY <1>1, <1>3, <1>4, <1>6 DEF ReportsAreRead
<1> QED BY <1>2, <1>5, <1>7

(* While it watches, there is room for one more, and no reason to stop.    *)
LEMMA WatchingHasRoom ==
  ASSUME HandlerWatchInvariant, watchPc = "watching"
  PROVE  /\ reason = None /\ Cardinality(Logs!Buffered) < Capacity
         /\ watchWant.count \in Nat /\ Len(responses) \in Nat /\ Cardinality(watchPending) \in Nat
         /\ Cardinality(Logs!Buffered) \in Nat
<1>1. HandlerWatchTypes /\ WatchIsBounded /\ ReasonIsTrue /\ reason = None
  BY DEF HandlerWatchInvariant, WatchStops
<1>2. watchWant.count \in Nat
  <2>1. watchWant.count \in Counts \cup {0}
    BY <1>1 DEF HandlerWatchTypes
  <2>2. Counts \cup {0} \subseteq Nat
    BY HandlerAssumption
  <2> QED BY <2>1, <2>2
<1>3. /\ Len(responses) \in Nat /\ Cardinality(watchPending) \in Nat
      /\ Cardinality(Logs!Buffered) \in Nat
  BY <1>1, FS_CardinalityType DEF HandlerWatchTypes
<1>4. Cardinality(Logs!Buffered) # Capacity /\ Cardinality(Logs!Buffered) <= Capacity
  BY <1>1, NoneAssumption DEF ReasonIsTrue, WatchIsBounded
<1> QED BY <1>1, <1>2, <1>3, <1>4, HandlerAssumption

(* A response that is read is left out, awaited or reported.               *)
LEMMA WatchReadsResponse ==
  ASSUME HandlerWatchInvariant, Logs!ReadResponse
  PROVE  HandlerWatchInvariant'
<1>1. /\ HandlerWatchTypes /\ watchPc = "watching" /\ Len(responses) < watchWant.count
      /\ arrived["response"] # <<>> /\ Logs!Take("response") /\ "response" \in Logs!Streams
      /\ UNCHANGED <<watchWant, watchPc, reason, matches, watchRequest, blocked, watchListening>>
  BY DEF HandlerWatchInvariant, Logs!ReadResponse, Logs!Watching, Logs!Streams
<1>2. PICK q \in Loads :
      /\ q = Head(arrived["response"])
      /\ <<"response", q>> \notin seen /\ seen' = seen \cup {<<"response", q>>}
      /\ arrived' \in [Logs!Streams -> Seq(Loads)] /\ seen' \subseteq Logs!Streams \X Loads
      /\ EventsOnce' /\ EventsAreTrue'
  BY <1>1, EventTaken
<1>3. \/ /\ q \in matches /\ terminals[q] # None /\ Logs!Report(q, terminals[q])
         /\ q \in watchPending \/ Logs!CanTrack
         /\ terminals' = [terminals EXCEPT ![q] = None] /\ UNCHANGED <<watchPending, dropped>>
      \/ /\ q \in matches /\ terminals[q] = None
         /\ q \in watchPending \/ Logs!CanTrack
         /\ watchPending' = watchPending \cup {q} /\ UNCHANGED <<responses, terminals, dropped>>
      \/ /\ terminals' = [terminals EXCEPT ![q] = None] /\ UNCHANGED <<watchPending, responses>>
         /\ dropped' = IF q \in matches THEN dropped \cup {q} ELSE dropped
  BY <1>2 DEF Logs!ReadResponse, Logs!RecordResponse
<1>4. Track(q) /\ q \notin watchPending /\ q \notin Logs!Reported /\ q \notin dropped
  BY <1>2 DEF HandlerWatchInvariant, RequestsAreTracked, Track
<1>5. /\ reason = None /\ Cardinality(Logs!Buffered) < Capacity
      /\ watchWant.count \in Nat /\ Len(responses) \in Nat /\ Cardinality(watchPending) \in Nat
      /\ Cardinality(Logs!Buffered) \in Nat /\ Capacity \in Nat
  BY <1>1, WatchingHasRoom, HandlerAssumption
<1>6. WatchIsBounded
  BY DEF HandlerWatchInvariant, WatchStops
<1>7. ~ Logs!Ended(q)' <=> ~ Logs!Ended(q)
  BY <1>2 DEF Logs!Ended
(* What is buffered.                                                       *)
<1>8. /\ terminals' \in [Loads -> {"finished", "failed", None}] /\ IsFiniteSet(Logs!Buffered')
      /\ Cardinality(Logs!Buffered') \in Nat /\ Cardinality(Logs!Buffered') < Capacity
      /\ terminals'[q] = None /\ \A r \in Loads \ {q} : terminals'[r] = terminals[r]
  <2>1. CASE UNCHANGED terminals /\ terminals[q] = None
    <3>1. Logs!Buffered' = Logs!Buffered
      BY <2>1 DEF Logs!Buffered
    <3> QED BY <1>1, <1>5, <2>1, <3>1 DEF HandlerWatchTypes
  <2>2. CASE terminals' = [terminals EXCEPT ![q] = None]
    <3>1. terminals' \in [Loads -> {"finished", "failed", None}] /\ terminals'[q] = None
          /\ \A r \in Loads \ {q} : terminals'[r] = terminals[r]
      BY <1>1, <1>2, <2>2 DEF HandlerWatchTypes
    <3>2. Logs!Buffered' = Logs!Buffered \ {q}
      BY <1>2, <3>1 DEF Logs!Buffered
    <3>3. IsFiniteSet(Logs!Buffered)
      BY <1>1 DEF HandlerWatchTypes
    <3>4. /\ IsFiniteSet(Logs!Buffered \ {q})
          /\ Cardinality(Logs!Buffered \ {q}) = IF q \in Logs!Buffered THEN Cardinality(Logs!Buffered) - 1
                                                ELSE Cardinality(Logs!Buffered)
      BY <3>3, FS_RemoveElement
    <3>5. Cardinality(Logs!Buffered \ {q}) \in Nat
      BY <3>4, FS_CardinalityType
    <3> QED BY <1>5, <3>1, <3>2, <3>4, <3>5
  <2> QED BY <1>3, <2>1, <2>2
(* What is kept.                                                           *)
<1>9. /\ Logs!CanTrack => Len(responses) + Cardinality(watchPending) < watchWant.count
      /\ Len(responses) + Cardinality(watchPending) <= watchWant.count
  BY <1>6, LogsCount DEF Logs!CanTrack, WatchIsBounded
<1>10. /\ watchPending' \subseteq Loads /\ IsFiniteSet(watchPending') /\ responses' \in Seq(Reports)
       /\ Len(responses') + Cardinality(watchPending') <= watchWant.count
       /\ dropped' \subseteq Loads /\ ReportsAreRead'
       /\ \A r \in Loads \ {q} : /\ r \in watchPending' <=> r \in watchPending
                                 /\ r \in dropped' <=> r \in dropped
                                 /\ r \in Logs!Reported' <=> r \in Logs!Reported
       /\ Track(q)'
  <2>1. /\ IsFiniteSet(watchPending) /\ watchPending \subseteq Loads /\ responses \in Seq(Reports)
        /\ dropped \subseteq Loads /\ terminals[q] \in {"finished", "failed", None}
    BY <1>1, <1>2 DEF HandlerWatchTypes
  <2>2. UNCHANGED responses => ReportsAreRead' /\ Logs!Reported' = Logs!Reported
    BY <1>2 DEF HandlerWatchInvariant, ReportsAreRead, Logs!Reported
  <2>3. CASE /\ q \in matches /\ terminals[q] # None /\ Logs!Report(q, terminals[q])
             /\ Logs!CanTrack /\ UNCHANGED <<watchPending, dropped>>
    <3>1. terminals[q] \in {"finished", "failed"} /\ <<terminals[q], q>> \in seen
      BY <1>4, <2>1, <2>3 DEF Track
    <3>2. /\ responses' \in Seq(Reports) /\ Logs!Reported' = Logs!Reported \cup {q}
          /\ Len(responses') = Len(responses) + 1 /\ ReportsAreRead'
      BY <1>2, <1>4, <2>3, <3>1, ReportAdds
    <3>3. Track(q)'
      <4>1. Logs!Ended(q)'
        BY <1>2, <3>1 DEF Logs!Ended
      <4> QED BY <1>1, <1>2, <1>4, <1>8, <2>3, <3>2, <4>1 DEF Track
    <3>4. Len(responses') + Cardinality(watchPending') <= watchWant.count
      BY <1>5, <1>9, <2>3, <3>2
    <3> QED BY <2>1, <2>3, <3>2, <3>3, <3>4
  <2>4. CASE /\ q \in matches /\ terminals[q] = None /\ Logs!CanTrack
             /\ watchPending' = watchPending \cup {q} /\ UNCHANGED <<responses, dropped>>
    <3>1. IsFiniteSet(watchPending') /\ Cardinality(watchPending') = Cardinality(watchPending) + 1
      BY <1>4, <2>1, <2>4, FS_AddElement
    <3>2. ~ Logs!Ended(q)
      BY <1>1, <1>2, <1>4, <2>4 DEF Track
    <3>3. Track(q)'
      BY <1>1, <1>2, <1>4, <1>7, <1>8, <2>2, <2>4, <3>2 DEF Track
    <3> QED BY <1>2, <1>5, <1>9, <2>1, <2>2, <2>4, <3>1, <3>3
  <2>5. CASE /\ UNCHANGED <<watchPending, responses>>
             /\ dropped' = IF q \in matches THEN dropped \cup {q} ELSE dropped
    <3>1. Track(q)'
      BY <1>1, <1>2, <1>4, <1>8, <2>2, <2>5 DEF Track
    <3> QED BY <1>2, <1>9, <2>1, <2>2, <2>5, <3>1
  <2>6. \/ /\ q \in matches /\ terminals[q] # None /\ Logs!Report(q, terminals[q])
           /\ Logs!CanTrack /\ UNCHANGED <<watchPending, dropped>>
        \/ /\ q \in matches /\ terminals[q] = None /\ Logs!CanTrack
           /\ watchPending' = watchPending \cup {q} /\ UNCHANGED <<responses, dropped>>
        \/ /\ UNCHANGED <<watchPending, responses>>
           /\ dropped' = IF q \in matches THEN dropped \cup {q} ELSE dropped
    BY <1>3, <1>4
  <2> QED BY <2>3, <2>4, <2>5, <2>6
<1>11. \A r \in Loads \ {q} : Track(r)'
  BY <1>1, <1>2, <1>8, <1>10, OthersTracked
<1>12. HandlerWatchTypes'
  BY <1>1, <1>2, <1>8, <1>10 DEF HandlerWatchTypes
<1>13. WatchStops'
  <2>1. reason' = None
    BY <1>1, <1>5
  <2>2. WatchIsBounded'
    BY <1>1, <1>5, <1>8, <1>10 DEF WatchIsBounded
  <2>3. ReasonIsTrue'
    BY <1>5, <1>8, <2>1, NoneAssumption DEF ReasonIsTrue
  <2> QED BY <1>1, <2>1, <2>2, <2>3 DEF WatchStops
<1> QED BY <1>2, <1>10, <1>11, <1>12, <1>13 DEF HandlerWatchInvariant, RequestsAreTracked

(* The end of a request is reported, or kept for its response.             *)
LEMMA WatchReadsEnd ==
  ASSUME HandlerWatchInvariant, NEW s \in Logs!Streams, Logs!ReadEnd(s)
  PROVE  HandlerWatchInvariant'
<1>1. /\ HandlerWatchTypes /\ watchPc = "watching" /\ s \in {"finished", "failed"}
      /\ arrived[s] # <<>> /\ Logs!Take(s)
      /\ UNCHANGED <<watchWant, matches, watchRequest, blocked, watchListening, dropped>>
  BY DEF HandlerWatchInvariant, Logs!ReadEnd, Logs!Watching, Logs!Streams
<1>2. PICK q \in Loads :
      /\ q = Head(arrived[s]) /\ <<s, q>> \notin seen /\ seen' = seen \cup {<<s, q>>} /\ EventTold(s, q)
      /\ arrived' \in [Logs!Streams -> Seq(Loads)] /\ seen' \subseteq Logs!Streams \X Loads
      /\ EventsOnce' /\ EventsAreTrue'
  BY <1>1, EventTaken
<1>3. \/ /\ q \in watchPending /\ Logs!Report(q, s) /\ watchPending' = watchPending \ {q}
         /\ UNCHANGED <<terminals, watchPc, reason>>
      \/ /\ q \notin watchPending /\ UNCHANGED <<watchPending, responses>>
         /\ Logs!Cardinality(Logs!Buffered) < Capacity => terminals' = [terminals EXCEPT ![q] = s]
         /\ IF Logs!Cardinality(Logs!Buffered \cup {q}) >= Capacity
            THEN Logs!Ends("terminal_buffer_overflow") ELSE UNCHANGED <<watchPc, reason>>
  BY <1>2 DEF Logs!ReadEnd, Logs!Overflows
<1>4. /\ reason = None /\ Cardinality(Logs!Buffered) < Capacity
      /\ watchWant.count \in Nat /\ Len(responses) \in Nat /\ Cardinality(watchPending) \in Nat
      /\ Cardinality(Logs!Buffered) \in Nat /\ Capacity \in Nat
  BY <1>1, WatchingHasRoom, HandlerAssumption
<1>5. Track(q) /\ ~ Logs!Ended(q) /\ Logs!Ended(q)'
      /\ (<<"response", q>> \in seen' <=> <<"response", q>> \in seen)
  <2>1. Track(q) /\ EventsAreTrue
    BY <1>2 DEF HandlerWatchInvariant, RequestsAreTracked
  <2>2. watchRequest[q] = s
    BY <1>1, <1>2, <2>1 DEF EventsAreTrue
  <2>3. ASSUME Logs!Ended(q) PROVE FALSE
    <3>1. PICK t \in {"finished", "failed"} : <<t, q>> \in seen
      BY <2>3 DEF Logs!Ended
    <3>2. watchRequest[q] = t
      BY <1>2, <2>1, <3>1 DEF EventsAreTrue, EventTold
    <3> QED BY <1>2, <2>2, <3>1, <3>2
  <2>4. Logs!Ended(q)'
    BY <1>1, <1>2 DEF Logs!Ended
  <2> QED BY <1>1, <1>2, <2>1, <2>3, <2>4
<1>6. /\ WatchIsBounded /\ IsFiniteSet(watchPending) /\ watchPending \subseteq Loads
      /\ responses \in Seq(Reports) /\ dropped' \subseteq Loads /\ IsFiniteSet(Logs!Buffered)
      /\ terminals \in [Loads -> {"finished", "failed", None}]
  BY <1>1 DEF HandlerWatchInvariant, WatchStops, HandlerWatchTypes
<1>7. Len(responses) + Cardinality(watchPending) <= watchWant.count
  BY <1>6 DEF WatchIsBounded
<1>8. CASE /\ q \in watchPending /\ Logs!Report(q, s) /\ watchPending' = watchPending \ {q}
           /\ UNCHANGED <<terminals, watchPc, reason>>
  <2>1. /\ <<"response", q>> \in seen /\ terminals[q] = None /\ q \in matches /\ q \notin dropped
        /\ q \notin Logs!Reported
    BY <1>5, <1>8 DEF Track
  <2>2. /\ responses' \in Seq(Reports) /\ Logs!Reported' = Logs!Reported \cup {q}
        /\ Len(responses') = Len(responses) + 1 /\ ReportsAreRead'
    BY <1>1, <1>2, <1>8, <2>1, ReportAdds
  <2>3. IsFiniteSet(watchPending') /\ Cardinality(watchPending') = Cardinality(watchPending) - 1
    BY <1>6, <1>8, FS_RemoveElement
  <2>4. Logs!Buffered' = Logs!Buffered
    BY <1>8 DEF Logs!Buffered
  <2>5. \A r \in Loads \ {q} : Track(r)'
    BY <1>1, <1>2, <1>8, <2>2, OthersTracked
  <2>6. Track(q)'
    BY <1>1, <1>2, <1>5, <1>8, <2>1, <2>2 DEF Track
  <2>7. HandlerWatchTypes'
    BY <1>1, <1>2, <1>6, <1>8, <2>2, <2>3, <2>4 DEF HandlerWatchTypes
  <2>8. WatchStops'
    <3>1. reason' = None
      BY <1>4, <1>8
    <3>2. WatchIsBounded'
      BY <1>1, <1>4, <1>7, <2>2, <2>3, <2>4 DEF WatchIsBounded
    <3>3. ReasonIsTrue'
      BY <1>4, <2>4, <3>1, NoneAssumption DEF ReasonIsTrue
    <3> QED BY <1>1, <1>8, <3>1, <3>2, <3>3 DEF WatchStops
  <2> QED BY <1>2, <2>2, <2>5, <2>6, <2>7, <2>8 DEF HandlerWatchInvariant, RequestsAreTracked
<1>9. CASE /\ q \notin watchPending /\ UNCHANGED <<watchPending, responses>>
           /\ Logs!Cardinality(Logs!Buffered) < Capacity => terminals' = [terminals EXCEPT ![q] = s]
           /\ IF Logs!Cardinality(Logs!Buffered \cup {q}) >= Capacity
              THEN Logs!Ends("terminal_buffer_overflow") ELSE UNCHANGED <<watchPc, reason>>
  <2>1. terminals' = [terminals EXCEPT ![q] = s]
    BY <1>4, <1>9, LogsCount
  <2>2. /\ terminals' \in [Loads -> {"finished", "failed", None}] /\ terminals'[q] = s /\ s # None
        /\ \A r \in Loads \ {q} : terminals'[r] = terminals[r]
    BY <1>1, <1>2, <1>6, <2>1, NoneAssumption
  <2>3. Logs!Buffered' = Logs!Buffered \cup {q}
    BY <1>2, <2>2 DEF Logs!Buffered
  <2>4. /\ IsFiniteSet(Logs!Buffered') /\ Cardinality(Logs!Buffered') \in Nat
        /\ Cardinality(Logs!Buffered') <= Cardinality(Logs!Buffered) + 1
    <3>1. /\ IsFiniteSet(Logs!Buffered \cup {q})
          /\ Cardinality(Logs!Buffered \cup {q}) = IF q \in Logs!Buffered THEN Cardinality(Logs!Buffered)
                                                   ELSE Cardinality(Logs!Buffered) + 1
      BY <1>6, FS_AddElement
    <3> QED BY <1>4, <2>3, <3>1
  <2>5. \/ Cardinality(Logs!Buffered') >= Capacity /\ watchPc' = "ended" /\ reason' = "terminal_buffer_overflow"
        \/ ~ (Cardinality(Logs!Buffered') >= Capacity) /\ UNCHANGED <<watchPc, reason>>
    BY <1>9, <2>3, LogsCount DEF Logs!Ends
  <2>6. Logs!Reported' = Logs!Reported /\ ReportsAreRead'
    BY <1>2, <1>9 DEF HandlerWatchInvariant, ReportsAreRead, Logs!Reported
  <2>7. \A r \in Loads \ {q} : Track(r)'
    BY <1>1, <1>2, <1>9, <2>2, <2>5, <2>6, OthersTracked
  <2>8. Track(q)'
    BY <1>1, <1>2, <1>5, <1>9, <2>2, <2>6 DEF Track
  <2>9. HandlerWatchTypes'
    BY <1>1, <1>2, <1>6, <1>9, <2>2, <2>4, <2>5 DEF HandlerWatchTypes
  <2>10. WatchStops'
    <3>1. WatchIsBounded'
      BY <1>1, <1>4, <1>7, <1>9, <2>4 DEF WatchIsBounded
    <3>2. ReasonIsTrue'
      BY <1>4, <2>4, <2>5, NoneAssumption DEF ReasonIsTrue
    <3> QED BY <1>1, <1>4, <2>5, <3>1, <3>2 DEF WatchStops
  <2> QED BY <1>2, <2>6, <2>7, <2>8, <2>9, <2>10 DEF HandlerWatchInvariant, RequestsAreTracked
<1> QED BY <1>3, <1>8, <1>9

(* What the page tells happens once.                                       *)
LEMMA PageTells ==
  ASSUME HandlerWatchInvariant, NEW q \in Loads, NEW s \in Logs!Streams, Logs!Answer(q) \/ Logs!EndOf(q, s)
  PROVE  HandlerWatchInvariant'
<1>1. PICK t \in Logs!Streams, state \in {"answered", "finished", "failed"} :
        /\ t = "response" => state = "answered"
        /\ t # "response" => state = t
        /\ watchRequest[q] = "sent" \/ (watchRequest[q] = "answered" /\ state # "answered")
        /\ watchRequest' = [watchRequest EXCEPT ![q] = state] /\ Logs!Tell(t, q)
        /\ UNCHANGED <<watchWant, watchPc, reason, matches, blocked, watchListening, watchPending,
                       terminals, responses, dropped, seen>>
  <2>1. CASE Logs!Answer(q)
    <3>1. "response" \in Logs!Streams
      BY DEF Logs!Streams
    <3> QED BY <2>1, <3>1 DEF Logs!Answer
  <2>2. CASE Logs!EndOf(q, s)
    <3>1. s \in {"finished", "failed"}
      BY <2>2 DEF Logs!Streams, Logs!EndOf
    <3> QED BY <2>2, <3>1 DEF Logs!EndOf
  <2> QED BY <2>1, <2>2
<1>2. /\ HandlerWatchTypes /\ EventsOnce /\ EventsAreTrue
  BY DEF HandlerWatchInvariant
<1>3. ~ EventTold(t, q)
  <2>1. t \in {"response", "finished", "failed"}
    BY DEF Logs!Streams
  <2> QED BY <1>1, <1>2, <2>1 DEF EventsAreTrue
<1>4. /\ arrived' \in [Logs!Streams -> Seq(Loads)]
      /\ \A u \in Logs!Streams \ {t} : arrived'[u] = arrived[u]
      /\ arrived'[t] = arrived[t] \/ arrived'[t] = Append(arrived[t], q)
  BY <1>1, <1>2 DEF HandlerWatchTypes, Logs!Tell
<1>5. arrived[t] \in Seq(Loads) /\ Once(arrived[t])
  BY <1>2 DEF HandlerWatchTypes, EventsOnce
<1>6. Waits!Of(Append(arrived[t], q)) = Waits!Of(arrived[t]) \cup {q} /\ Once(Append(arrived[t], q))
  <2>1. q \notin Waits!Of(arrived[t])
    BY <1>3 DEF EventTold
  <2> QED BY <1>5, <2>1, OfAppend, OnceAppend
<1>7. ASSUME NEW u \in Logs!Streams
      PROVE  /\ Once(arrived'[u])
             /\ \A r \in Waits!Of(arrived'[u]) : r \in Waits!Of(arrived[u]) \/ (u = t /\ r = q)
  BY <1>2, <1>4, <1>5, <1>6 DEF EventsOnce
<1>8. EventsOnce'
  BY <1>1, <1>2, <1>3, <1>7 DEF EventsOnce, EventTold, Waits!Of
<1>9. EventsAreTrue'
  <2> SUFFICES ASSUME NEW r \in Loads
               PROVE  /\ EventTold("response", r)' => watchRequest'[r] # "sent"
                      /\ \A u \in {"finished", "failed"} : EventTold(u, r)' => watchRequest'[r] = u
    BY DEF EventsAreTrue
  <2>1. \A u \in Logs!Streams : EventTold(u, r)' => EventTold(u, r) \/ (u = t /\ r = q)
    BY <1>1, <1>7 DEF EventTold, Waits!Of
  <2>2. watchRequest'[r] = IF r = q THEN state ELSE watchRequest[r]
    BY <1>1, <1>2 DEF HandlerWatchTypes
  <2>3. \A u \in {"finished", "failed"} : ~ EventTold(u, q)
    BY <1>1, <1>2 DEF EventsAreTrue
  <2>4. Logs!Streams = {"response", "finished", "failed"}
    BY DEF Logs!Streams
  <2> QED BY <1>1, <1>2, <2>1, <2>2, <2>3, <2>4 DEF EventsAreTrue
<1>10. Logs!Buffered' = Logs!Buffered /\ Logs!Reported' = Logs!Reported
  BY <1>1 DEF Logs!Buffered, Logs!Reported
<1>11. HandlerWatchTypes'
  BY <1>1, <1>2, <1>4, <1>10 DEF HandlerWatchTypes
<1>12. RequestsAreTracked' /\ ReportsAreRead'
  BY <1>1, <1>10 DEF HandlerWatchInvariant, RequestsAreTracked, Track, Logs!Ended, ReportsAreRead
<1>13. WatchStops'
  BY <1>1, <1>10 DEF HandlerWatchInvariant, WatchStops, WatchIsBounded, ReasonIsTrue
<1> QED BY <1>8, <1>9, <1>11, <1>12, <1>13 DEF HandlerWatchInvariant

(* Every step of the watch and of the page keeps the invariant,            *)
LEMMA HandlerWatchNext ==
  ASSUME HandlerWatchInvariant, Logs!WatchNext \/ UNCHANGED Logs!nwVars
  PROVE  HandlerWatchInvariant'
<1>1. CASE (\E flag \in BOOLEAN : Logs!SetBlocked(flag)) \/ UNCHANGED Logs!nwVars
  <2>1. UNCHANGED <<watchWant, watchPc, reason, matches, watchRequest, arrived, watchPending, terminals,
                    responses, dropped, seen>>
    BY <1>1 DEF Logs!SetBlocked, Logs!nwVars
  <2>2. HandlerWatchTypes /\ WatchStops
    BY DEF HandlerWatchInvariant
  <2>3. ReasonIsTrue'
    BY <2>1, <2>2 DEF WatchStops, ReasonIsTrue, Logs!Buffered
  <2>4. watchPc' \in {"begin", "subscribing", "watching", "ended"} /\ (reason' # None => watchPc' = "ended")
    BY <2>1, <2>2 DEF HandlerWatchTypes, WatchStops
  <2> QED BY <2>1, <2>3, <2>4, WatchGoesOn
<1>2. CASE \E q \in Loads : Logs!Answer(q)
  <2>1. "response" \in Logs!Streams
    BY DEF Logs!Streams
  <2> QED BY <1>2, <2>1, PageTells
<1>3. CASE \E q \in Loads, s \in Logs!Streams : Logs!EndOf(q, s)
  BY <1>3, PageTells
<1> QED BY <1>1, <1>2, <1>3, WatchHandler, WatchReadsResponse, WatchReadsEnd DEF Logs!WatchNext

(* ... and with it the answer is what the page told.                       *)
LEMMA HandlerWatchIsSound == HandlerWatchInvariant => Logs!WatchIsSound
<1> SUFFICES ASSUME HandlerWatchInvariant PROVE Logs!WatchIsSound
  OBVIOUS
<1>1. HandlerWatchTypes /\ EventsAreTrue /\ RequestsAreTracked /\ ReportsAreRead /\ WatchIsBounded /\ ReasonIsTrue
  BY DEF HandlerWatchInvariant, WatchStops
<1>2. Logs!KeptIsBounded
  BY <1>1, LogsCount DEF WatchIsBounded, Logs!KeptIsBounded
<1>3. Logs!EveryMatchIsReported
  <2> SUFFICES ASSUME NEW q \in matches, <<"response", q>> \in seen, q \notin dropped
               PROVE  (q \in Logs!Reported) = Logs!Ended(q)
    BY <1>1 DEF Logs!EveryMatchIsReported, ReportsAreRead
  <2>1. Track(q)
    BY <1>1 DEF HandlerWatchTypes, RequestsAreTracked
  <2>2. q \in Logs!Reported <=> Logs!Ended(q)
    BY <2>1 DEF Track
  <2>3. Logs!Ended(q) \in BOOLEAN
    BY DEF Logs!Ended
  <2>4. (q \in Logs!Reported) \in BOOLEAN
    OBVIOUS
  <2> QED BY <2>2, <2>3, <2>4
<1>4. Logs!ReportsAreTrue
  <2> SUFFICES ASSUME NEW i \in DOMAIN responses
               PROVE  /\ responses[i].request \in matches
                      /\ responses[i].how = watchRequest[responses[i].request]
                      /\ <<responses[i].how, responses[i].request>> \in seen
    BY DEF Logs!ReportsAreTrue
  <2>1. responses[i] \in Reports /\ <<responses[i].how, responses[i].request>> \in seen
    BY <1>1 DEF HandlerWatchTypes, ReportsAreRead
  <2>2. responses[i].request \in Loads /\ responses[i].how \in {"finished", "failed"}
        /\ responses[i].request \in Logs!Reported
    BY <2>1 DEF Reports, Logs!Reported
  <2>3. Track(responses[i].request)
    BY <1>1, <2>2 DEF RequestsAreTracked
  <2> QED BY <1>1, <2>1, <2>2, <2>3 DEF Track, EventsAreTrue, EventTold
<1>5. Logs!StopIsTrue
  <2>1. (reason = "terminal_buffer_overflow") = (Logs!Cardinality(Logs!Buffered) = Capacity)
    BY <1>1, LogsCount DEF ReasonIsTrue
  <2> QED BY <1>1, <2>1 DEF ReasonIsTrue, Logs!StopIsTrue
<1> QED BY <1>2, <1>3, <1>4, <1>5 DEF Logs!WatchIsSound

-----------------------------------------------------------------------------
(* The console log of a tab (TabLogs).                                     *)

(* An entry is the attachment it came through and its number.              *)
Entries == Logs!Runs \X Nat

(* The stages of a task that is not over, and of one that has taken an     *)
(* event.                                                                  *)
Running == {"waiting", "releasing", "recording"}
Holding == {"releasing", "recording"}

(* The tab, its log, the attachments and their tasks.                      *)
HandlerConsoleTypes ==
  /\ tab \in Logs!Runs \cup {None} /\ token \in Logs!Runs \cup {None}
  /\ attacher \in [Logs!Runs -> {"new", "subscribed", "added", "cleared", "spawned", "refused"}]
  /\ task \in [Logs!Runs -> Running \cup {"none", "ended"}]
  /\ cancelled \subseteq Logs!Runs /\ overlapped \subseteq Logs!Runs
  /\ emitted \in [Logs!Runs -> Nat] /\ taken \in [Logs!Runs -> Nat]
  /\ stream \in [Logs!Runs -> Seq(Nat)]
  /\ recorded \in [Logs!Runs -> Seq(Entries)] /\ log \in Seq(Entries)

(* A task is held by the tab's token, or it is cancelled; nobody is about  *)
(* to replace the token of one that was started alone.                     *)
TaskIsHeld(i) ==
  i \notin overlapped =>
    /\ task[i] \in Running => i \in cancelled \/ token = i
    /\ token = i => \A j \in Logs!Runs \ {i} : attacher[j] # "cleared"
TasksAreKept == \A i \in Logs!Runs : TaskIsHeld(i)

(* A tab that is not added yet has no log.                                 *)
TabIsAdded ==
  \A i \in Logs!Runs : attacher[i] \in {"new", "subscribed"} => recorded[i] = <<>> /\ tab # i

(* A stream brings what was emitted and not taken, in order.               *)
StreamIsLater(i) ==
  /\ \A k \in DOMAIN stream[i] : taken[i] < stream[i][k] /\ stream[i][k] <= emitted[i]
  /\ \A j, k \in DOMAIN stream[i] : j < k => stream[i][j] < stream[i][k]
  /\ taken[i] <= emitted[i]
StreamsAreLater == \A i \in Logs!Runs : StreamIsLater(i)

(* What is recorded was taken, and is in the order of each session.        *)
InOrder(s) == \A j, k \in DOMAIN s : j < k /\ s[j][1] = s[k][1] => s[j][2] < s[k][2]

(* An entry of the log was taken from its stream.                          *)
EntryIsTaken(e) ==
  e[2] <= taken[e[1]] /\ (task[e[1]] \in Holding => e[2] < taken[e[1]])
RecordedIsTaken ==
  \A t \in Logs!Runs :
    InOrder(recorded[t]) /\ \A k \in DOMAIN recorded[t] : EntryIsTaken(recorded[t][k])

(* The log is the end of what is recorded.                                 *)
EndOf(s, whole) ==
  /\ Len(s) <= LogMax /\ Len(s) <= Len(whole)
  /\ Len(s) < LogMax => Len(s) = Len(whole)
  /\ \A k \in 1 .. Len(s) : s[k] = whole[(Len(whole) - Len(s)) + k]
LogIsEnd == tab # None => EndOf(log, recorded[tab])

(* The inductive invariant of the console log.                             *)
HandlerConsoleInvariant ==
  /\ HandlerConsoleTypes /\ TasksAreKept /\ TabIsAdded
  /\ StreamsAreLater /\ RecordedIsTaken /\ LogIsEnd

(* It holds before the first attachment.                                   *)
LEMMA HandlerConsoleStarts == Logs!ConsoleInit => HandlerConsoleInvariant
<1> SUFFICES ASSUME Logs!ConsoleInit PROVE HandlerConsoleInvariant
  OBVIOUS
<1>1. HandlerConsoleTypes
  BY DEF Logs!ConsoleInit, HandlerConsoleTypes, Running
<1>2. \A i \in Logs!Runs : i # None
  BY NoneAssumption DEF Logs!Runs
<1>3. TasksAreKept /\ TabIsAdded
  BY <1>2 DEF Logs!ConsoleInit, TasksAreKept, TaskIsHeld, TabIsAdded, Running
<1>4. StreamsAreLater /\ RecordedIsTaken /\ LogIsEnd
  BY DEF Logs!ConsoleInit, StreamsAreLater, StreamIsLater, RecordedIsTaken, InOrder, LogIsEnd
<1> QED BY <1>1, <1>3, <1>4 DEF HandlerConsoleInvariant

(* A log and its record grow together.                                     *)
LEMMA EndGrows ==
  ASSUME NEW s \in Seq(Entries), NEW whole \in Seq(Entries), NEW e \in Entries, EndOf(s, whole)
  PROVE  /\ EndOf(Append(IF Len(s) >= LogMax THEN Tail(s) ELSE s, e), Append(whole, e))
         /\ Append(IF Len(s) >= LogMax THEN Tail(s) ELSE s, e) \in Seq(Entries)
<1>1. Len(s) \in Nat /\ Len(whole) \in Nat /\ LogMax \in Nat \ {0}
  BY HandlerAssumption
<1>2. /\ Len(s) <= LogMax /\ Len(s) <= Len(whole)
      /\ Len(s) < LogMax => Len(s) = Len(whole)
      /\ \A k \in 1 .. Len(s) : s[k] = whole[(Len(whole) - Len(s)) + k]
  BY DEF EndOf
<1> DEFINE w == Append(whole, e)
<1>3. /\ Len(w) = Len(whole) + 1 /\ w[Len(whole) + 1] = e
      /\ \A k \in 1 .. Len(whole) : w[k] = whole[k]
  BY <1>1
<1> HIDE DEF w
<1>4. CASE Len(s) >= LogMax
  <2> DEFINE u == Tail(s)
  <2>1. /\ s # <<>> /\ u \in Seq(Entries) /\ Len(u) = Len(s) - 1
        /\ \A k \in 1 .. (Len(s) - 1) : u[k] = s[k + 1]
    BY <1>1, <1>4
  <2> HIDE DEF u
  <2> DEFINE v == Append(u, e)
  <2>2. /\ v \in Seq(Entries) /\ Len(v) = Len(s) /\ v[Len(s)] = e
        /\ \A k \in 1 .. (Len(s) - 1) : v[k] = u[k]
    BY <1>1, <2>1
  <2> HIDE DEF v
  <2>3. ASSUME NEW k \in 1 .. Len(v) PROVE v[k] = w[(Len(w) - Len(v)) + k]
    <3>1. CASE k = Len(s)
      BY <1>1, <1>3, <2>2, <3>1
    <3>2. CASE k # Len(s)
      <4>1. k \in 1 .. (Len(s) - 1) /\ k + 1 \in 1 .. Len(s)
        BY <1>1, <2>2, <3>2
      <4>2. v[k] = whole[(Len(whole) - Len(s)) + (k + 1)]
        BY <1>2, <2>1, <2>2, <4>1
      <4>3. (Len(whole) - Len(s)) + (k + 1) \in 1 .. Len(whole)
            /\ (Len(w) - Len(v)) + k = (Len(whole) - Len(s)) + (k + 1)
        BY <1>1, <1>2, <1>3, <2>2, <4>1
      <4> QED BY <1>3, <4>2, <4>3
    <3> QED BY <3>1, <3>2
  <2>4. EndOf(v, w)
    BY <1>1, <1>2, <1>3, <1>4, <2>2, <2>3 DEF EndOf
  <2> QED BY <1>4, <2>2, <2>4 DEF u, v, w
<1>5. CASE ~ (Len(s) >= LogMax)
  <2> DEFINE v == Append(s, e)
  <2>1. /\ v \in Seq(Entries) /\ Len(v) = Len(s) + 1 /\ v[Len(s) + 1] = e
        /\ \A k \in 1 .. Len(s) : v[k] = s[k]
    BY <1>1
  <2> HIDE DEF v
  <2>2. Len(s) = Len(whole)
    BY <1>1, <1>2, <1>5
  <2>3. ASSUME NEW k \in 1 .. Len(v) PROVE v[k] = w[(Len(w) - Len(v)) + k]
    <3>1. (Len(w) - Len(v)) + k = k
      BY <1>1, <1>3, <2>1, <2>2
    <3>2. k = Len(s) + 1 \/ k \in 1 .. Len(s)
      BY <1>1, <2>1
    <3>3. \A j \in 1 .. Len(s) : s[j] = whole[j]
      BY <1>1, <1>2, <2>2
    <3> QED BY <1>3, <2>1, <2>2, <3>1, <3>2, <3>3
  <2>4. EndOf(v, w)
    BY <1>1, <1>3, <1>5, <2>1, <2>2, <2>3 DEF EndOf
  <2> QED BY <1>5, <2>1, <2>4 DEF v, w
<1> QED BY <1>4, <1>5

(* ... and stay in order.                                                  *)
LEMMA OrderGrows ==
  ASSUME NEW s \in Seq(Entries), NEW e \in Entries, InOrder(s),
         \A k \in DOMAIN s : s[k][1] = e[1] => s[k][2] < e[2]
  PROVE  InOrder(Append(s, e))
<1>1. Len(s) \in Nat /\ DOMAIN s = 1 .. Len(s) /\ DOMAIN Append(s, e) = 1 .. (Len(s) + 1)
  OBVIOUS
<1>2. Append(s, e)[Len(s) + 1] = e /\ \A k \in 1 .. Len(s) : Append(s, e)[k] = s[k]
  BY <1>1
<1>3. \A j, k \in 1 .. (Len(s) + 1) : j < k => j \in 1 .. Len(s) /\ (k \in 1 .. Len(s) \/ k = Len(s) + 1)
  BY <1>1
<1> QED BY <1>1, <1>2, <1>3 DEF InOrder

(* An attachment is not None.                                              *)
LEMMA RunsAreNotNone == \A i \in Logs!Runs : i # None
  BY NoneAssumption DEF Logs!Runs

(* The attachment's steps.                                                 *)
LEMMA AttacherStep ==
  ASSUME HandlerConsoleInvariant, NEW i \in Logs!Runs,
         Logs!SubscribeConsole(i) \/ Logs!AddTab(i) \/ Logs!Clear(i) \/ Logs!Spawn(i)
  PROVE  HandlerConsoleInvariant'
<1>1. HandlerConsoleTypes /\ i # None
  BY RunsAreNotNone DEF HandlerConsoleInvariant
<1>2. UNCHANGED <<stream, emitted, taken, recorded>>
  BY DEF Logs!SubscribeConsole, Logs!AddTab, Logs!Clear, Logs!Spawn
<1>3. /\ attacher' = [attacher EXCEPT ![i] = attacher'[i]]
      /\ \/ attacher[i] = "new" /\ attacher'[i] = "subscribed"
         \/ attacher[i] = "subscribed" /\ attacher'[i] \in {"refused", "added"}
         \/ attacher[i] = "added" /\ attacher'[i] = "cleared"
         \/ attacher[i] = "cleared" /\ attacher'[i] = "spawned"
  BY <1>1 DEF HandlerConsoleTypes, Logs!SubscribeConsole, Logs!AddTab, Logs!Clear, Logs!Spawn
<1>4. UNCHANGED <<tab, log>> \/ (attacher[i] = "subscribed" /\ attacher'[i] = "added" /\ tab' = i /\ log' = <<>>)
  BY <1>1 DEF HandlerConsoleTypes, Logs!SubscribeConsole, Logs!AddTab, Logs!Clear, Logs!Spawn
<1>5. \/ attacher'[i] # "cleared" /\ UNCHANGED <<token, task, cancelled, overlapped>>
      \/ /\ attacher'[i] = "cleared" /\ UNCHANGED <<task, overlapped>> /\ token' = None
         /\ cancelled' = cancelled \cup ({token} \ {None})
      \/ /\ attacher[i] = "cleared" /\ attacher'[i] = "spawned" /\ token' = i
         /\ task' = [task EXCEPT ![i] = "waiting"] /\ UNCHANGED cancelled
         /\ overlapped' = IF \E j \in Logs!Runs \ {i} : attacher[j] = "cleared" THEN overlapped \cup {i}
                          ELSE overlapped
  BY <1>1 DEF HandlerConsoleTypes, Logs!SubscribeConsole, Logs!AddTab, Logs!Clear, Logs!Spawn
<1>6. /\ \A j \in Logs!Runs \ {i} : attacher'[j] = attacher[j]
      /\ attacher' \in [Logs!Runs -> {"new", "subscribed", "added", "cleared", "spawned", "refused"}]
  BY <1>1, <1>3 DEF HandlerConsoleTypes
<1>7. /\ tab' \in Logs!Runs \cup {None} /\ log' \in Seq(Entries)
      /\ TabIsAdded' /\ LogIsEnd'
  <2>1. TabIsAdded /\ LogIsEnd
    BY DEF HandlerConsoleInvariant
  <2>2. CASE UNCHANGED <<tab, log>>
    <3>1. TabIsAdded'
      <4> SUFFICES ASSUME NEW j \in Logs!Runs, attacher'[j] \in {"new", "subscribed"}
                   PROVE  recorded[j] = <<>> /\ tab # j
        BY <1>2, <2>2 DEF TabIsAdded
      <4>1. attacher[j] \in {"new", "subscribed"}
        BY <1>3, <1>6
      <4> QED BY <2>1, <4>1 DEF TabIsAdded
    <3> QED BY <1>1, <1>2, <2>1, <2>2, <3>1 DEF HandlerConsoleTypes, LogIsEnd
  <2>3. CASE attacher[i] = "subscribed" /\ attacher'[i] = "added" /\ tab' = i /\ log' = <<>>
    <3>1. recorded[i] = <<>>
      BY <2>1, <2>3 DEF TabIsAdded
    <3>2. EndOf(<<>>, <<>>)
      BY HandlerAssumption DEF EndOf
    <3>3. LogIsEnd'
      BY <1>2, <2>3, <3>1, <3>2 DEF LogIsEnd
    <3>4. TabIsAdded'
      <4> SUFFICES ASSUME NEW j \in Logs!Runs, attacher'[j] \in {"new", "subscribed"}
                   PROVE  recorded[j] = <<>> /\ i # j
        BY <1>2, <2>3 DEF TabIsAdded
      <4>1. j # i /\ attacher[j] \in {"new", "subscribed"}
        BY <1>6, <2>3
      <4> QED BY <2>1, <4>1 DEF TabIsAdded
    <3> QED BY <2>3, <3>3, <3>4
  <2> QED BY <1>4, <2>2, <2>3
<1>8. /\ token' \in Logs!Runs \cup {None} /\ cancelled' \subseteq Logs!Runs /\ overlapped' \subseteq Logs!Runs
      /\ task' \in [Logs!Runs -> Running \cup {"none", "ended"}]
      /\ \A j \in Logs!Runs : task'[j] \in Holding => task[j] \in Holding
      /\ cancelled \subseteq cancelled'
  BY <1>1, <1>5 DEF HandlerConsoleTypes, Running, Holding
<1>9. HandlerConsoleTypes'
  BY <1>1, <1>2, <1>6, <1>7, <1>8 DEF HandlerConsoleTypes
<1>10. TasksAreKept'
  <2> SUFFICES ASSUME NEW j \in Logs!Runs, j \notin overlapped'
               PROVE  /\ task'[j] \in Running => j \in cancelled' \/ token' = j
                      /\ token' = j => \A k \in Logs!Runs \ {j} : attacher'[k] # "cleared"
    BY DEF TasksAreKept, TaskIsHeld
  <2>1. /\ j # None /\ j \notin overlapped
        /\ task[j] \in Running => j \in cancelled \/ token = j
        /\ token = j => \A k \in Logs!Runs \ {j} : attacher[k] # "cleared"
    BY <1>5, RunsAreNotNone DEF HandlerConsoleInvariant, TasksAreKept, TaskIsHeld
  <2>2. CASE attacher'[i] # "cleared" /\ UNCHANGED <<token, task, cancelled, overlapped>>
    BY <1>6, <2>1, <2>2
  <2>3. CASE /\ attacher'[i] = "cleared" /\ UNCHANGED <<task, overlapped>> /\ token' = None
             /\ cancelled' = cancelled \cup ({token} \ {None})
    BY <2>1, <2>3
  <2>4. CASE /\ attacher[i] = "cleared" /\ attacher'[i] = "spawned" /\ token' = i
             /\ task' = [task EXCEPT ![i] = "waiting"] /\ UNCHANGED cancelled
             /\ overlapped' = IF \E k \in Logs!Runs \ {i} : attacher[k] = "cleared" THEN overlapped \cup {i}
                              ELSE overlapped
    <3>1. CASE j = i
      <4>1. \A k \in Logs!Runs \ {i} : attacher[k] # "cleared"
        BY <2>4, <3>1
      <4> QED BY <1>6, <2>4, <3>1, <4>1
    <3>2. CASE j # i
      <4>1. token # j /\ task'[j] = task[j]
        BY <1>1, <2>1, <2>4, <3>2 DEF HandlerConsoleTypes
      <4> QED BY <2>1, <2>4, <3>2, <4>1
    <3> QED BY <3>1, <3>2
  <2> QED BY <1>5, <2>2, <2>3, <2>4
<1>11. StreamsAreLater' /\ RecordedIsTaken'
  <2>1. StreamsAreLater'
    BY <1>2 DEF HandlerConsoleInvariant, StreamsAreLater, StreamIsLater
  <2>2. ASSUME NEW t \in Logs!Runs, NEW k \in DOMAIN recorded[t] PROVE EntryIsTaken(recorded[t][k])'
    <3>1. recorded[t] \in Seq(Entries) /\ recorded[t][k] \in Entries /\ EntryIsTaken(recorded[t][k])
      BY <1>1 DEF HandlerConsoleTypes, HandlerConsoleInvariant, RecordedIsTaken
    <3>2. recorded[t][k][1] \in Logs!Runs
      BY <3>1 DEF Entries
    <3> QED BY <1>2, <1>8, <3>1, <3>2 DEF EntryIsTaken
  <2>3. RecordedIsTaken'
    BY <1>2, <2>2 DEF HandlerConsoleInvariant, RecordedIsTaken, InOrder, EntryIsTaken
  <2> QED BY <2>1, <2>3
<1> QED BY <1>7, <1>9, <1>10, <1>11 DEF HandlerConsoleInvariant

(* The task's steps that touch no log: streams and takings may change.     *)
LEMMA TaskStep ==
  ASSUME HandlerConsoleInvariant, NEW i \in Logs!Runs,
         UNCHANGED <<tab, log, token, attacher, recorded, overlapped>>,
         task' \in [Logs!Runs -> Running \cup {"none", "ended"}], taken' \in [Logs!Runs -> Nat],
         emitted' \in [Logs!Runs -> Nat], stream' \in [Logs!Runs -> Seq(Nat)],
         cancelled \subseteq cancelled', cancelled' \subseteq Logs!Runs,
         \A j \in Logs!Runs \ {i} :
           task'[j] = task[j] /\ taken'[j] = taken[j] /\ emitted'[j] = emitted[j] /\ stream'[j] = stream[j],
         task'[i] \in Running => task[i] \in Running,
         taken[i] <= taken'[i],
         task'[i] \in Holding => taken[i] < taken'[i] \/ (task[i] \in Holding /\ taken'[i] = taken[i]),
         StreamIsLater(i)'
  PROVE  HandlerConsoleInvariant'
<1>1. HandlerConsoleTypes
  BY DEF HandlerConsoleInvariant
<1>2. HandlerConsoleTypes'
  BY <1>1 DEF HandlerConsoleTypes
<1>3. TasksAreKept'
  BY DEF HandlerConsoleInvariant, TasksAreKept, TaskIsHeld
<1>4. TabIsAdded' /\ LogIsEnd'
  BY DEF HandlerConsoleInvariant, TabIsAdded, LogIsEnd
<1>5. StreamsAreLater'
  <2>1. ASSUME NEW j \in Logs!Runs \ {i} PROVE StreamIsLater(j)'
    <3>1. StreamIsLater(j) /\ taken'[j] = taken[j] /\ emitted'[j] = emitted[j] /\ stream'[j] = stream[j]
      BY DEF HandlerConsoleInvariant, StreamsAreLater
    <3> QED BY <3>1 DEF StreamIsLater
  <2> QED BY <2>1 DEF StreamsAreLater
<1>6. RecordedIsTaken'
  <2>1. ASSUME NEW t \in Logs!Runs, NEW k \in DOMAIN recorded[t] PROVE EntryIsTaken(recorded[t][k])'
    <3> DEFINE e == recorded[t][k]
    <3>1. recorded[t] \in Seq(Entries) /\ e \in Entries /\ EntryIsTaken(e)
      BY SMTT(60), <1>1 DEF HandlerConsoleTypes, HandlerConsoleInvariant, RecordedIsTaken
    <3>2. e[1] \in Logs!Runs /\ e[2] \in Nat
      BY <3>1 DEF Entries
    <3>3. e[2] <= taken[e[1]] /\ (task[e[1]] \in Holding => e[2] < taken[e[1]])
      BY <3>1 DEF EntryIsTaken
    <3>4. taken[e[1]] \in Nat /\ taken'[e[1]] \in Nat
      BY <1>1, <3>2 DEF HandlerConsoleTypes
    <3>5. UNCHANGED recorded
      OBVIOUS
    <3> HIDE DEF e
    <3>6. e[2] <= taken'[e[1]] /\ (task'[e[1]] \in Holding => e[2] < taken'[e[1]])
      <4>1. CASE e[1] = i
        BY <3>2, <3>3, <3>4, <4>1
      <4>2. CASE e[1] # i
        <5>1. taken'[e[1]] = taken[e[1]] /\ task'[e[1]] = task[e[1]]
          BY <3>2, <4>2
        <5> QED BY <3>3, <5>1
      <4> QED BY <4>1, <4>2
    <3> QED BY <3>5, <3>6 DEF e, EntryIsTaken
  <2> QED BY <2>1 DEF HandlerConsoleInvariant, RecordedIsTaken, InOrder, EntryIsTaken
<1> QED BY <1>2, <1>3, <1>4, <1>5, <1>6 DEF HandlerConsoleInvariant

(* ... and each of them keeps the invariant.                               *)
LEMMA TaskMoves ==
  ASSUME HandlerConsoleInvariant, NEW i \in Logs!Runs,
         Logs!StopCancelled(i) \/ Logs!StopBroken(i) \/ Logs!Release(i) \/ Logs!TakeEvent(i) \/ Logs!Emit(i)
  PROVE  HandlerConsoleInvariant'
<1>1. HandlerConsoleTypes /\ StreamIsLater(i)
  BY DEF HandlerConsoleInvariant, StreamsAreLater
<1>2. taken[i] \in Nat /\ emitted[i] \in Nat /\ stream[i] \in Seq(Nat)
  BY <1>1 DEF HandlerConsoleTypes
<1>3. CASE Logs!StopCancelled(i) \/ Logs!StopBroken(i) \/ Logs!Release(i)
  <2>1. /\ UNCHANGED <<tab, log, token, attacher, recorded, overlapped, stream, emitted, taken>>
        /\ task[i] \in Running
        /\ \/ task' = [task EXCEPT ![i] = "ended"] /\ cancelled' = cancelled \cup {i}
           \/ task' = [task EXCEPT ![i] = "recording"] /\ UNCHANGED cancelled /\ task[i] = "releasing"
    BY <1>3 DEF Logs!StopCancelled, Logs!StopBroken, Logs!Release, Logs!TaskEnds, Running
  <2>2. /\ task' \in [Logs!Runs -> Running \cup {"none", "ended"}]
        /\ cancelled \subseteq cancelled' /\ cancelled' \subseteq Logs!Runs
        /\ \A j \in Logs!Runs \ {i} : task'[j] = task[j]
        /\ task'[i] \in Holding => task[i] \in Holding
    BY <1>1, <2>1 DEF HandlerConsoleTypes, Running, Holding
  <2>3. StreamIsLater(i)'
    BY <1>1, <2>1 DEF StreamIsLater
  <2>4. /\ emitted' \in [Logs!Runs -> Nat] /\ taken' \in [Logs!Runs -> Nat] /\ stream' \in [Logs!Runs -> Seq(Nat)]
        /\ taken[i] <= taken'[i]
    BY SMTT(60), <1>1, <1>2, <2>1 DEF HandlerConsoleTypes
  <2> QED BY <2>1, <2>2, <2>3, <2>4, TaskStep
<1>4. CASE Logs!TakeEvent(i)
  <2>1. /\ UNCHANGED <<tab, log, token, attacher, recorded, overlapped, cancelled, emitted>>
        /\ task[i] = "waiting" /\ stream[i] # <<>>
        /\ taken' = [taken EXCEPT ![i] = Head(stream[i])]
        /\ stream' = [stream EXCEPT ![i] = Tail(@)]
        /\ task' = [task EXCEPT ![i] = "releasing"] \/ UNCHANGED task
    BY <1>4 DEF Logs!TakeEvent
  <2>2. /\ Head(stream[i]) \in Nat /\ Tail(stream[i]) \in Seq(Nat)
        /\ taken[i] < Head(stream[i]) /\ Head(stream[i]) <= emitted[i]
        /\ Len(stream[i]) \in Nat \ {0} /\ Head(stream[i]) = stream[i][1]
    BY <1>1, <1>2, <2>1 DEF StreamIsLater
  <2>3. /\ taken'[i] = Head(stream[i]) /\ stream'[i] = Tail(stream[i])
        /\ taken' \in [Logs!Runs -> Nat] /\ stream' \in [Logs!Runs -> Seq(Nat)]
        /\ \A j \in Logs!Runs \ {i} : taken'[j] = taken[j] /\ stream'[j] = stream[j] /\ task'[j] = task[j]
        /\ task' \in [Logs!Runs -> Running \cup {"none", "ended"}]
        /\ task'[i] \in Running
    BY <1>1, <2>1, <2>2 DEF HandlerConsoleTypes, Running
  <2>4. StreamIsLater(i)'
    <3>1. /\ DOMAIN Tail(stream[i]) = 1 .. (Len(stream[i]) - 1)
          /\ \A k \in 1 .. (Len(stream[i]) - 1) : /\ Tail(stream[i])[k] = stream[i][k + 1]
                                                 /\ k + 1 \in DOMAIN stream[i] /\ 1 \in DOMAIN stream[i] /\ 1 < k + 1
      BY <1>2, <2>1, <2>2
    <3>2. \A j, k \in 1 .. (Len(stream[i]) - 1) : j < k => j + 1 < k + 1
      BY <2>2
    <3>3. \A k \in DOMAIN Tail(stream[i]) :
            Head(stream[i]) < Tail(stream[i])[k] /\ Tail(stream[i])[k] <= emitted[i]
      BY <1>1, <2>2, <3>1 DEF StreamIsLater
    <3>4. \A j, k \in DOMAIN Tail(stream[i]) : j < k => Tail(stream[i])[j] < Tail(stream[i])[k]
      BY <1>1, <3>1, <3>2 DEF StreamIsLater
    <3> QED BY <2>1, <2>2, <2>3, <3>3, <3>4 DEF StreamIsLater
  <2>5. /\ taken[i] < taken'[i] /\ taken[i] <= taken'[i] /\ task[i] \in Running
        /\ emitted' \in [Logs!Runs -> Nat] /\ cancelled' \subseteq Logs!Runs
    BY <1>1, <1>2, <2>1, <2>2, <2>3 DEF HandlerConsoleTypes, Running
  <2> QED BY <2>1, <2>3, <2>4, <2>5, TaskStep
<1>5. CASE Logs!Emit(i)
  <2>1. /\ UNCHANGED <<tab, log, token, attacher, recorded, overlapped, cancelled, task, taken>>
        /\ emitted' = [emitted EXCEPT ![i] = @ + 1]
        /\ stream' = [stream EXCEPT ![i] = Append(@, emitted[i] + 1)]
    BY <1>5 DEF Logs!Emit
  <2> DEFINE n == emitted[i] + 1
  <2>2. n \in Nat /\ n > emitted[i] /\ taken[i] <= emitted[i]
    BY <1>1, <1>2 DEF StreamIsLater
  <2>3. /\ emitted'[i] = n /\ stream'[i] = Append(stream[i], n)
        /\ emitted' \in [Logs!Runs -> Nat] /\ stream' \in [Logs!Runs -> Seq(Nat)]
        /\ \A j \in Logs!Runs \ {i} : emitted'[j] = emitted[j] /\ stream'[j] = stream[j]
        /\ task' \in [Logs!Runs -> Running \cup {"none", "ended"}]
        /\ taken' \in [Logs!Runs -> Nat] /\ cancelled' \subseteq Logs!Runs
    BY SMTT(60), <1>1, <2>1, <2>2 DEF HandlerConsoleTypes
  <2> HIDE DEF n
  <2>4. StreamIsLater(i)'
    <3> DEFINE w == Append(stream[i], n)
    <3>1. /\ DOMAIN stream[i] = 1 .. Len(stream[i]) /\ Len(stream[i]) \in Nat
          /\ DOMAIN w = 1 .. (Len(stream[i]) + 1) /\ w[Len(stream[i]) + 1] = n
          /\ \A k \in DOMAIN stream[i] : w[k] = stream[i][k] /\ stream[i][k] \in Nat
      BY <1>2, <2>2
    <3> HIDE DEF w
    <3>2. \A j, k \in DOMAIN w :
            /\ k \in DOMAIN stream[i] \/ k = Len(stream[i]) + 1
            /\ j < k => j \in DOMAIN stream[i]
      BY <3>1
    <3>3. \A k \in DOMAIN stream[i] :
            taken[i] < stream[i][k] /\ stream[i][k] <= n /\ stream[i][k] < n
      BY SMTT(60), <1>1, <1>2, <2>2, <3>1 DEF StreamIsLater
    <3>4. \A k \in DOMAIN w : taken[i] < w[k] /\ w[k] <= n
      BY <1>2, <2>2, <3>1, <3>2, <3>3
    <3>5. \A j, k \in DOMAIN w : j < k => w[j] < w[k]
      BY <1>1, <3>1, <3>2, <3>3 DEF StreamIsLater
    <3>6. taken[i] <= n
      BY <1>2, <2>2
    <3> QED BY <2>1, <2>3, <3>4, <3>5, <3>6 DEF StreamIsLater, w
  <2>5. taken[i] <= taken'[i]
    BY <1>2, <2>1
  <2> QED BY <2>1, <2>3, <2>4, <2>5, TaskStep
<1> QED BY <1>3, <1>4, <1>5

(* A task that is not cancelled appends what it took to its tab's log.     *)
LEMMA TaskRecords ==
  ASSUME HandlerConsoleInvariant, NEW i \in Logs!Runs, Logs!Record(i)
  PROVE  HandlerConsoleInvariant'
<1>1. HandlerConsoleTypes /\ StreamIsLater(i) /\ task[i] = "recording"
      /\ UNCHANGED <<tab, token, attacher, stream, emitted, taken, overlapped>>
  BY DEF HandlerConsoleInvariant, StreamsAreLater, Logs!Record
<1>2. taken[i] \in Nat
  BY <1>1 DEF HandlerConsoleTypes
<1>3. CASE tab = None
  <2>1. /\ UNCHANGED <<log, recorded>> /\ task' = [task EXCEPT ![i] = "ended"] /\ cancelled' = cancelled \cup {i}
    BY <1>3 DEF Logs!Record, Logs!TaskEnds
  <2>2. /\ task' \in [Logs!Runs -> Running \cup {"none", "ended"}]
        /\ cancelled \subseteq cancelled' /\ cancelled' \subseteq Logs!Runs
        /\ \A j \in Logs!Runs \ {i} : task'[j] = task[j]
        /\ task'[i] \notin Running \cup Holding
    BY <1>1, <2>1 DEF HandlerConsoleTypes, Running, Holding
  <2>3. StreamIsLater(i)'
    BY <1>1, <2>1 DEF StreamIsLater
  <2>4. /\ emitted' \in [Logs!Runs -> Nat] /\ taken' \in [Logs!Runs -> Nat] /\ stream' \in [Logs!Runs -> Seq(Nat)]
        /\ taken[i] <= taken'[i]
    BY SMTT(60), <1>1, <1>2, <2>1 DEF HandlerConsoleTypes
  <2> QED BY <1>1, <2>1, <2>2, <2>3, <2>4, TaskStep
<1>4. CASE tab # None
  <2>1. PICK e \in Entries :
        /\ tab \in Logs!Runs /\ e[1] = i /\ e[2] = taken[i]
        /\ log' = Append(IF Len(log) >= LogMax THEN Tail(log) ELSE log, e)
        /\ recorded' = [recorded EXCEPT ![tab] = Append(@, e)]
        /\ task' = [task EXCEPT ![i] = "waiting"] /\ UNCHANGED cancelled
    <3>1. <<i, taken[i]>> \in Entries
      BY <1>2 DEF Entries
    <3> QED BY <1>1, <1>2, <1>4, <3>1 DEF HandlerConsoleTypes, Logs!Record, Logs!Push
  <2>2. /\ recorded[tab] \in Seq(Entries) /\ log \in Seq(Entries) /\ EndOf(log, recorded[tab])
    BY <1>1, <1>4, <2>1 DEF HandlerConsoleTypes, HandlerConsoleInvariant, LogIsEnd
  <2>3. /\ EndOf(log', Append(recorded[tab], e)) /\ log' \in Seq(Entries)
    BY <2>1, <2>2, EndGrows
  <2>4. /\ recorded' \in [Logs!Runs -> Seq(Entries)] /\ recorded'[tab] = Append(recorded[tab], e)
        /\ \A t \in Logs!Runs \ {tab} : recorded'[t] = recorded[t]
        /\ task' \in [Logs!Runs -> Running \cup {"none", "ended"}] /\ task'[i] = "waiting"
        /\ \A j \in Logs!Runs \ {i} : task'[j] = task[j]
    BY <1>1, <2>1, <2>2 DEF HandlerConsoleTypes, Running
  <2>5. HandlerConsoleTypes'
    BY <1>1, <2>1, <2>3, <2>4 DEF HandlerConsoleTypes
  <2>6. LogIsEnd'
    BY <1>1, <2>3, <2>4 DEF LogIsEnd
  <2>7. TasksAreKept'
    <3> SUFFICES ASSUME NEW j \in Logs!Runs PROVE TaskIsHeld(j)'
      BY DEF TasksAreKept
    <3>1. TaskIsHeld(j) /\ (task'[j] \in Running => task[j] \in Running)
      BY <1>1, <2>4 DEF HandlerConsoleInvariant, TasksAreKept, Running
    <3> QED BY <1>1, <2>1, <3>1 DEF TaskIsHeld
  <2>8. TabIsAdded'
    <3> SUFFICES ASSUME NEW j \in Logs!Runs, attacher[j] \in {"new", "subscribed"}
                 PROVE  recorded'[j] = <<>> /\ tab # j
      BY <1>1 DEF TabIsAdded
    <3>1. recorded[j] = <<>> /\ tab # j
      BY DEF HandlerConsoleInvariant, TabIsAdded
    <3> QED BY <2>4, <3>1
  <2>9. StreamsAreLater'
    BY <1>1 DEF HandlerConsoleInvariant, StreamsAreLater, StreamIsLater
  <2>10. RecordedIsTaken'
    <3>1. ASSUME NEW d \in Entries, EntryIsTaken(d)
          PROVE  EntryIsTaken(d)' /\ (d[1] = i => d[2] < e[2])
      <4>1. d[1] \in Logs!Runs /\ d[2] \in Nat
        BY DEF Entries
      <4>2. task'[d[1]] \in Holding => task[d[1]] \in Holding
        BY <2>4, <4>1 DEF Holding
      <4>3. d[1] = i => d[2] < taken[i]
        BY <1>1, <3>1 DEF EntryIsTaken, Holding
      <4> QED BY <1>1, <2>1, <3>1, <4>2, <4>3 DEF EntryIsTaken
    <3>2. EntryIsTaken(e)'
      BY <1>1, <1>2, <2>1, <2>4 DEF EntryIsTaken, Holding
    <3>3. ASSUME NEW t \in Logs!Runs
          PROVE  /\ InOrder(recorded[t])
                 /\ \A k \in DOMAIN recorded[t] : recorded[t][k] \in Entries /\ EntryIsTaken(recorded[t][k])
      <4>1. recorded[t] \in Seq(Entries)
        BY <1>1 DEF HandlerConsoleTypes
      <4> QED BY <4>1 DEF HandlerConsoleInvariant, RecordedIsTaken
    <3>4. InOrder(Append(recorded[tab], e))
      <4>1. \A k \in DOMAIN recorded[tab] : recorded[tab][k][1] = e[1] => recorded[tab][k][2] < e[2]
        BY <2>1, <3>1, <3>3
      <4> QED BY <2>1, <2>2, <3>3, <4>1, OrderGrows
    <3>5. ASSUME NEW t \in Logs!Runs, NEW k \in DOMAIN recorded'[t]
          PROVE  \E d \in Entries : d = recorded'[t][k] /\ EntryIsTaken(d)'
      <4>1. CASE t = tab
        <5>1. /\ DOMAIN recorded[tab] = 1 .. Len(recorded[tab]) /\ Len(recorded[tab]) \in Nat
              /\ DOMAIN recorded'[tab] = 1 .. (Len(recorded[tab]) + 1)
              /\ recorded'[tab][Len(recorded[tab]) + 1] = e
              /\ \A j \in DOMAIN recorded[tab] : recorded'[tab][j] = recorded[tab][j]
          BY <2>1, <2>2, <2>4
        <5>2. k \in DOMAIN recorded[tab] \/ k = Len(recorded[tab]) + 1
          BY <3>5, <4>1, <5>1
        <5> QED BY <2>1, <3>1, <3>2, <3>3, <4>1, <5>1, <5>2
      <4>2. CASE t # tab
        <5>1. recorded'[t] = recorded[t]
          BY <2>4, <4>2
        <5> QED BY <3>1, <3>3, <3>5, <5>1
      <4> QED BY <4>1, <4>2
    <3>6. \A t \in Logs!Runs : InOrder(recorded'[t])
      BY <2>4, <3>3, <3>4
    <3>7. \A t \in Logs!Runs : \A k \in DOMAIN recorded'[t] :
            /\ recorded'[t][k][2] <= taken'[recorded'[t][k][1]]
            /\ task'[recorded'[t][k][1]] \in Holding => recorded'[t][k][2] < taken'[recorded'[t][k][1]]
      BY <3>5 DEF EntryIsTaken
    <3> QED BY <3>6, <3>7 DEF RecordedIsTaken, InOrder, EntryIsTaken
  <2> QED BY <2>5, <2>6, <2>7, <2>8, <2>9, <2>10 DEF HandlerConsoleInvariant
<1> QED BY <1>3, <1>4

(* A tab that goes takes its log with it.                                  *)
LEMMA TabGoes ==
  ASSUME HandlerConsoleInvariant, Logs!RemoveTab \/ UNCHANGED Logs!consoleVars
  PROVE  HandlerConsoleInvariant'
<1>1. HandlerConsoleTypes
  BY DEF HandlerConsoleInvariant
<1>2. /\ UNCHANGED <<attacher, task, stream, emitted, taken, recorded, overlapped>>
      /\ \/ UNCHANGED <<tab, log, token, cancelled>>
         \/ /\ tab' = None /\ log' = <<>> /\ token' = None
            /\ cancelled' = cancelled \cup ({token} \ {None})
  BY DEF Logs!RemoveTab, Logs!consoleVars
<1>3. HandlerConsoleTypes'
  <2>1. token \in Logs!Runs \cup {None} /\ cancelled \subseteq Logs!Runs /\ <<>> \in Seq(Entries)
    BY <1>1 DEF HandlerConsoleTypes
  <2>2. /\ tab' \in Logs!Runs \cup {None} /\ token' \in Logs!Runs \cup {None}
        /\ cancelled' \subseteq Logs!Runs /\ log' \in Seq(Entries)
    BY <1>1, <1>2, <2>1 DEF HandlerConsoleTypes
  <2> QED BY <1>1, <1>2, <2>2 DEF HandlerConsoleTypes
<1>4. TasksAreKept'
  <2> SUFFICES ASSUME NEW j \in Logs!Runs PROVE TaskIsHeld(j)'
    BY DEF TasksAreKept
  <2>1. TaskIsHeld(j) /\ j # None
    BY RunsAreNotNone DEF HandlerConsoleInvariant, TasksAreKept
  <2> QED BY <1>2, <2>1 DEF TaskIsHeld
<1>5. TabIsAdded' /\ LogIsEnd'
  BY <1>2, RunsAreNotNone DEF HandlerConsoleInvariant, TabIsAdded, LogIsEnd
<1>6. StreamsAreLater' /\ RecordedIsTaken'
  BY <1>2 DEF HandlerConsoleInvariant, StreamsAreLater, StreamIsLater, RecordedIsTaken, InOrder, EntryIsTaken
<1> QED BY <1>3, <1>4, <1>5, <1>6 DEF HandlerConsoleInvariant

(* Every step of the attachments, tasks and the tab keeps the invariant,   *)
LEMMA HandlerConsoleNext ==
  ASSUME HandlerConsoleInvariant, Logs!ConsoleNext \/ UNCHANGED Logs!consoleVars
  PROVE  HandlerConsoleInvariant'
BY AttacherStep, TaskMoves, TaskRecords, TabGoes DEF Logs!ConsoleNext

(* An end is a subsequence, and in order when the whole is.                *)
LEMMA EndIsSubSeq ==
  ASSUME NEW s \in Seq(Entries), NEW whole \in Seq(Entries), EndOf(s, whole), InOrder(whole)
  PROVE  /\ Len(s) <= LogMax
         /\ s = SubSeq(whole, Len(whole) - Len(s) + 1, Len(whole))
         /\ Len(s) < LogMax => s = whole
         /\ \A j, k \in DOMAIN s : j < k /\ s[j][1] = s[k][1] => s[j][2] < s[k][2]
<1>1. DOMAIN s = 1 .. Len(s) /\ DOMAIN whole = 1 .. Len(whole)
  OBVIOUS
<1>2. Len(s) \in Nat /\ Len(whole) \in Nat
  OBVIOUS
<1>3. /\ Len(s) <= LogMax /\ Len(s) <= Len(whole)
      /\ Len(s) < LogMax => Len(s) = Len(whole)
  BY DEF EndOf
<1>4. PICK gap \in Nat : gap = Len(whole) - Len(s)
  BY <1>2, <1>3
<1>5. gap + Len(s) = Len(whole)
  BY <1>2, <1>4
<1>6. \A k \in 1 .. Len(s) : s[k] = whole[gap + k]
  BY <1>4 DEF EndOf
<1>7. \A k \in 1 .. Len(s) : gap + k \in 1 .. Len(whole)
  BY <1>2, <1>5
<1>8. s = SubSeq(whole, gap + 1, Len(whole))
  <2> DEFINE u == SubSeq(whole, gap + 1, Len(whole))
  <2>1. \A k \in (gap + 1) .. Len(whole) : k \in 1 .. Len(whole)
    BY <1>2, <1>5
  <2>2. gap + 1 \in Int /\ Len(whole) \in Int
    BY <1>2, <1>5
  <2>3. \A k \in (gap + 1) .. Len(whole) : whole[k] \in Entries
    BY <1>2, <2>1
  <2>4. /\ u \in Seq(Entries) /\ Len(u) = (IF gap + 1 <= Len(whole) THEN Len(whole) - (gap + 1) + 1 ELSE 0)
        /\ \A k \in 1 .. (Len(whole) - (gap + 1) + 1) : u[k] = whole[(gap + 1) + k - 1]
    BY <2>2, <2>3, SubSeqProperties
  <2> HIDE DEF u
  <2>5. Len(whole) - (gap + 1) + 1 = Len(s) /\ (gap + 1 <= Len(whole) <=> 1 <= Len(s))
    BY <1>2, <1>5
  <2>6. Len(u) = Len(s)
    BY <1>2, <2>4, <2>5
  <2>7. \A k \in 1 .. Len(s) : (gap + 1) + k - 1 = gap + k
    BY <1>2, <1>5
  <2>8. \A k \in 1 .. Len(s) : u[k] = s[k]
    BY <1>6, <2>4, <2>5, <2>7
  <2>9. u = s
    BY SMTT(60), <2>4, <2>6, <2>8
  <2> QED BY <2>9 DEF u
<1>9. ASSUME Len(s) < LogMax PROVE s = whole
  <2>1. Len(s) = Len(whole)
    BY <1>3, <1>9
  <2>2. gap = 0
    BY <1>2, <1>4, <2>1
  <2>3. \A k \in 1 .. Len(s) : gap + k = k
    BY <1>2, <2>2
  <2>4. \A k \in 1 .. Len(s) : s[k] = whole[k]
    BY <1>6, <2>3
  <2> QED BY <2>1, <2>4
<1>10. \A j, k \in DOMAIN s : j < k /\ s[j][1] = s[k][1] => s[j][2] < s[k][2]
  <2> SUFFICES ASSUME NEW j \in 1 .. Len(s), NEW k \in 1 .. Len(s), j < k, s[j][1] = s[k][1]
               PROVE  s[j][2] < s[k][2]
    BY <1>1
  <2>1. gap + j < gap + k
    BY <1>2, <1>5
  <2>2. gap + j \in DOMAIN whole /\ gap + k \in DOMAIN whole
    BY <1>1, <1>7
  <2>3. s[j] = whole[gap + j] /\ s[k] = whole[gap + k]
    BY <1>6
  <2> QED BY <2>1, <2>2, <2>3 DEF InOrder
<1> QED BY <1>3, <1>4, <1>8, <1>9, <1>10

(* ... and with it the log is the end of what was recorded, in order and   *)
(* without gaps of its own.                                                *)
LEMMA HandlerConsoleIsSound == HandlerConsoleInvariant => Logs!ConsoleIsSound
<1> SUFFICES ASSUME HandlerConsoleInvariant PROVE Logs!ConsoleIsSound
  OBVIOUS
<1>1. Logs!TasksAreHeld
  BY DEF HandlerConsoleInvariant, TasksAreKept, TaskIsHeld, Running, Logs!TasksAreHeld, Logs!Cancellable
<1>2. ASSUME tab # None
      PROVE  /\ Len(log) <= LogMax
             /\ log = SubSeq(recorded[tab], Len(recorded[tab]) - Len(log) + 1, Len(recorded[tab]))
             /\ Len(log) < LogMax => log = recorded[tab]
             /\ \A j, k \in DOMAIN log : j < k /\ log[j][1] = log[k][1] => log[j][2] < log[k][2]
  <2> DEFINE whole == recorded[tab]
  <2>1. /\ log \in Seq(Entries) /\ whole \in Seq(Entries) /\ EndOf(log, whole) /\ InOrder(whole)
    BY <1>2 DEF HandlerConsoleInvariant, HandlerConsoleTypes, LogIsEnd, RecordedIsTaken
  <2> HIDE DEF whole
  <2> QED BY <2>1, EndIsSubSeq DEF whole
<1>3. Logs!LogIsTheEnd
  BY <1>2 DEF Logs!LogIsTheEnd
<1> QED BY <1>1, <1>3 DEF Logs!ConsoleIsSound

-----------------------------------------------------------------------------
(* Commands on cookies and localStorage (DaemonStorage).                   *)

(* What jars and entries may hold, and what a request goes through.        *)
StoreNames == (UNION Given) \cup {"kept", "fresh", "page"}
StorePhases == {"begin", "tab", "session", "browser", "scope", "send", "set", "local", "ended"}
StoreRefusals == {"InvalidArgument", "SessionNotFound", "SessionNoTab", "TargetNotFound", "ChromeDisconnected"}

(* A request, what it has found, and a session.                            *)
StoreWants == [cmd : Commands, session : {"default", "isolated"}, wellFormed : BOOLEAN, names : Given]
StoreFindings == [scope : Contexts \cup {None}, tab : Contexts \cup {None}, connection : {None, 1, 2},
                  cookies : SUBSET StoreNames, entries : SUBSET StoreNames]
StoreSessions == [exists : BOOLEAN, connected : BOOLEAN, context : Contexts \cup {None}, tab : Contexts \cup {None}]

(* Requests, sessions, the connection, contexts and what they hold.        *)
StoreTypes ==
  /\ storeWant \in [StoreRequests -> StoreWants]
  /\ storePc \in [StoreRequests -> StorePhases]
  /\ storeAnswer = [r \in StoreRequests |-> storeAnswer[r]]
  /\ found \in [StoreRequests -> StoreFindings]
  /\ storeSession \in [{"default", "isolated"} -> StoreSessions]
  /\ storeConnection \in {None, 1, 2}
  /\ alive \subseteq Contexts
  /\ jar \in [Contexts -> SUBSET StoreNames] /\ entries \in [Contexts -> SUBSET StoreNames]
  /\ touched \in [StoreRequests -> SUBSET Contexts]

(* A context that is not used yet still has its "fresh" jar.               *)
Used(c) == "fresh" \notin jar[c]

(* The contexts of the sessions, and the ones alive in Chrome.             *)
StoreSessionsHold ==
  /\ storeSession["default"].exists /\ storeSession["default"].context = "default"
  /\ storeSession["default"].tab \in {None, "default"}
  /\ storeSession["isolated"].exists \/ storeSession["isolated"] = Storage!NoSession
  /\ storeSession["isolated"].exists =>
       /\ storeSession["isolated"].context \in Contexts \ {"default"}
       /\ Used(storeSession["isolated"].context)
       /\ storeSession["isolated"].tab \in {None, storeSession["isolated"].context}
  /\ "default" \in alive /\ alive \subseteq {"default", storeSession["isolated"].context}
  /\ Used("default")

(* A context that a request of session s has found.                        *)
OfSession(s, c) == (c = "default" <=> s = "default") /\ Used(c)

(* What a request has found is of its session, and the cookies an export   *)
(* or an import works on are those of its tab's context.                   *)
StoreFinds(r) ==
  /\ found[r].scope # None => OfSession(storeWant[r].session, found[r].scope)
  /\ found[r].tab # None => OfSession(storeWant[r].session, found[r].tab)
  /\ storeWant[r].cmd \in {"export", "import"} /\ storePc[r] \in {"send", "set", "local"} =>
       found[r].scope = found[r].tab \/ found[r].tab \notin alive

(* What it has touched is what it has found.                               *)
StoreTouches(r) ==
  /\ \A c \in touched[r] : OfSession(storeWant[r].session, c)
  /\ storePc[r] \notin {"set", "local", "ended"} => touched[r] = {}
  /\ storePc[r] \in {"set", "local"} => found[r].scope \in Contexts /\ touched[r] = {found[r].scope}
  /\ storePc[r] # "ended" => storeAnswer[r] = None
  /\ storeAnswer[r] = "ok" => \E c \in Contexts : touched[r] = {c}
  /\ storeAnswer[r] \in StoreRefusals => touched[r] = {}

(* What an import that nobody disturbs has left so far.                    *)
StoreImports(r) ==
  storeWant[r].cmd = "import" =>
    /\ storePc[r] = "set" /\ r \notin disturbed => jar[found[r].scope] = {}
    /\ storePc[r] = "local" /\ r \notin disturbed => jar[found[r].scope] = storeWant[r].names
    /\ storeAnswer[r] = "ok" => found[r].scope \in Contexts /\ found[r].tab \in Contexts
    /\ storeAnswer[r] = "ok" /\ r \notin disturbed =>
         jar[found[r].scope] = storeWant[r].names /\ entries[found[r].tab] = storeWant[r].names

(* Of one request.                                                         *)
StoreRequestAt(r) == StoreFinds(r) /\ StoreTouches(r) /\ StoreImports(r)

(* The inductive invariant of the storage commands.                        *)
HandlerStorageInvariant ==
  StoreTypes /\ StoreSessionsHold /\ \A r \in StoreRequests : StoreRequestAt(r)

(* It holds when the requests arrive.                                      *)
LEMMA HandlerStorageStarts ==
  ASSUME Storage!Init PROVE HandlerStorageInvariant
<1>1. StoreTypes
  <2>1. {"kept"} \in SUBSET StoreNames /\ {"fresh"} \in SUBSET StoreNames /\ {} \in SUBSET StoreNames
    BY DEF StoreNames
  <2>2. storeWant \in [StoreRequests -> StoreWants] /\ storePc \in [StoreRequests -> StorePhases]
        /\ storeAnswer = [r \in StoreRequests |-> storeAnswer[r]]
    BY DEF Storage!Init, StoreWants, StorePhases, Storage!Sessions
  <2>3. found \in [StoreRequests -> StoreFindings]
    BY <2>1 DEF Storage!Init, StoreFindings
  <2>4. storeSession \in [{"default", "isolated"} -> StoreSessions]
    <3> DEFINE first == [exists |-> TRUE, connected |-> TRUE, context |-> "default", tab |-> "default"]
    <3>1. first \in StoreSessions /\ Storage!NoSession \in StoreSessions
      BY StorageAssumption DEF StoreSessions, Storage!NoSession
    <3>2. storeSession = [s \in {"default", "isolated"} |-> IF s = "default" THEN first ELSE Storage!NoSession]
      BY Zenon DEF Storage!Init, Storage!Sessions
    <3> HIDE DEF first
    <3> QED BY <3>1, <3>2
  <2>5. jar \in [Contexts -> SUBSET StoreNames] /\ entries \in [Contexts -> SUBSET StoreNames]
    BY <2>1 DEF Storage!Init
  <2>6. storeConnection \in {None, 1, 2} /\ alive \subseteq Contexts
        /\ touched \in [StoreRequests -> SUBSET Contexts]
    BY StorageAssumption DEF Storage!Init
  <2> QED BY <2>2, <2>3, <2>4, <2>5, <2>6 DEF StoreTypes
<1>2. StoreSessionsHold
  <2>1. jar["default"] = {"kept"} /\ alive = {"default"}
    BY StorageAssumption DEF Storage!Init
  <2>2. storeSession["default"] = [exists |-> TRUE, connected |-> TRUE, context |-> "default", tab |-> "default"]
        /\ storeSession["isolated"] = Storage!NoSession
    BY DEF Storage!Init, Storage!Sessions
  <2>3. Used("default")
    BY <2>1 DEF Used
  <2>4. ~storeSession["isolated"].exists
    BY <2>2 DEF Storage!NoSession
  <2> QED BY <2>1, <2>2, <2>3, <2>4 DEF StoreSessionsHold
<1>3. ASSUME NEW r \in StoreRequests PROVE StoreRequestAt(r)
  <2>1. storePc[r] = "begin" /\ storeAnswer[r] = None /\ touched[r] = {}
        /\ found[r].scope = None /\ found[r].tab = None
    BY DEF Storage!Init
  <2>2. None # "ok" /\ None \notin StoreRefusals
    BY NoneAssumption DEF StoreRefusals
  <2> QED BY <2>1, <2>2 DEF StoreRequestAt, StoreFinds, StoreTouches, StoreImports
<1> QED BY <1>1, <1>2, <1>3 DEF HandlerStorageInvariant

(* A request that a step leaves alone.                                     *)
LEMMA StoreOthers ==
  ASSUME HandlerStorageInvariant, NEW r \in StoreRequests,
         storeWant' = storeWant, storePc'[r] = storePc[r], storeAnswer'[r] = storeAnswer[r],
         found'[r] = found[r], touched'[r] = touched[r], alive' \subseteq Contexts,
         \A c \in Contexts : Used(c) => Used(c)' /\ (c \notin alive => c \notin alive'),
         r \notin disturbed' /\ storePc[r] # "begin" =>
           r \notin disturbed /\ \A c \in Contexts : Used(c) => jar'[c] = jar[c] /\ entries'[c] = entries[c]
  PROVE  StoreRequestAt(r)'
<1>1. StoreRequestAt(r) /\ found[r].scope \in Contexts \cup {None} /\ found[r].tab \in Contexts \cup {None}
      /\ touched[r] \subseteq Contexts
  BY DEF HandlerStorageInvariant, StoreTypes, StoreFindings
<1>2. StoreFinds(r)'
  <2>1. found[r].scope # None => OfSession(storeWant[r].session, found[r].scope)'
    BY <1>1 DEF StoreRequestAt, StoreFinds, OfSession
  <2>2. found[r].tab # None => OfSession(storeWant[r].session, found[r].tab)'
    BY <1>1 DEF StoreRequestAt, StoreFinds, OfSession
  <2>3. found[r].tab \notin alive => found[r].tab \notin alive'
    BY <1>1, NoneAssumption DEF StoreRequestAt, StoreFinds, OfSession
  <2> QED BY <1>1, <2>1, <2>2, <2>3 DEF StoreRequestAt, StoreFinds, OfSession
<1>3. StoreTouches(r)'
  <2>1. \A c \in touched[r] : OfSession(storeWant[r].session, c)'
    BY <1>1 DEF StoreRequestAt, StoreTouches, OfSession
  <2> QED BY <1>1, <2>1 DEF StoreRequestAt, StoreTouches, OfSession
<1>4. StoreImports(r)'
  <2>1. storePc[r] \in {"set", "local"} \/ storeAnswer[r] = "ok" => storePc[r] # "begin"
    BY <1>1, NoneAssumption DEF StoreRequestAt, StoreTouches
  <2>2. storePc[r] \in {"set", "local"} => found[r].scope \in Contexts /\ Used(found[r].scope)
    BY <1>1, NoneAssumption DEF StoreRequestAt, StoreTouches, StoreFinds, OfSession
  <2>3. storeWant[r].cmd = "import" /\ storeAnswer[r] = "ok" =>
          /\ found[r].scope \in Contexts /\ Used(found[r].scope)
          /\ found[r].tab \in Contexts /\ Used(found[r].tab)
    BY <1>1, NoneAssumption DEF StoreRequestAt, StoreImports, StoreFinds, OfSession
  <2> QED BY <1>1, <2>1, <2>2, <2>3 DEF StoreRequestAt, StoreImports
<1> QED BY <1>2, <1>3, <1>4 DEF StoreRequestAt

(* A step that changes neither the sessions nor the contexts alive.        *)
LEMMA StoreSessionsKept ==
  ASSUME StoreTypes, StoreSessionsHold, storeSession' = storeSession, alive' = alive,
         \A c \in Contexts : Used(c) => Used(c)'
  PROVE  StoreSessionsHold'
BY StorageAssumption DEF StoreSessionsHold

(* A step of request r that only looks for its session, its tab and its    *)
(* browser, or ends.                                                       *)
LEMMA StoreLooks ==
  ASSUME HandlerStorageInvariant, NEW r \in StoreRequests, Storage!Same,
         NEW p \in StorePhases, NEW a, NEW f \in StoreFindings,
         storePc' = [storePc EXCEPT ![r] = p], storeAnswer' = [storeAnswer EXCEPT ![r] = a],
         found' = [found EXCEPT ![r] = f], StoreRequestAt(r)'
  PROVE  HandlerStorageInvariant'
<1>1. /\ storeWant' = storeWant /\ storeSession' = storeSession /\ storeConnection' = storeConnection
      /\ alive' = alive /\ jar' = jar /\ entries' = entries /\ touched' = touched /\ disturbed' = disturbed
  BY DEF Storage!Same
<1>2. StoreTypes
  BY DEF HandlerStorageInvariant
<1>3. StoreTypes'
  BY <1>1, <1>2 DEF StoreTypes
<1>4. StoreSessionsHold'
  BY <1>1, StorageAssumption, StoreSessionsKept DEF HandlerStorageInvariant, Used
<1>5. ASSUME NEW q \in StoreRequests, q # r PROVE StoreRequestAt(q)'
  <2>1. storePc'[q] = storePc[q] /\ storeAnswer'[q] = storeAnswer[q] /\ found'[q] = found[q]
    BY <1>2, <1>5 DEF StoreTypes
  <2>2. \A c \in Contexts : Used(c) => Used(c)' /\ (c \notin alive => c \notin alive')
    BY <1>1 DEF Used
  <2>3. alive' \subseteq Contexts
    BY <1>3 DEF StoreTypes
  <2> QED BY <1>1, <2>1, <2>2, <2>3, StoreOthers
<1> QED BY <1>3, <1>4, <1>5 DEF HandlerStorageInvariant

(* A request that ends before it has touched anything, or with an error of *)
(* Chrome.                                                                 *)
LEMMA StoreEnds ==
  ASSUME HandlerStorageInvariant, NEW r \in StoreRequests, Storage!Same, UNCHANGED found,
         NEW code, Storage!Ends(r, code),
         code = "DaemonError" \/ (touched[r] = {} /\ code \in StoreRefusals)
  PROVE  HandlerStorageInvariant'
<1>1. StoreTypes /\ StoreRequestAt(r)
  BY DEF HandlerStorageInvariant
<1>2. /\ storePc' = [storePc EXCEPT ![r] = "ended"] /\ storeAnswer' = [storeAnswer EXCEPT ![r] = code]
      /\ found' = [found EXCEPT ![r] = found[r]] /\ found[r] \in StoreFindings
  BY <1>1 DEF Storage!Ends, StoreTypes
<1>3. storePc'[r] = "ended" /\ storeAnswer'[r] = code
  BY <1>1, <1>2 DEF StoreTypes
<1>4. /\ storeWant' = storeWant /\ found' = found /\ alive' = alive /\ jar' = jar
      /\ touched' = touched
  BY DEF Storage!Same
<1>5. code # "ok"
  BY DEF StoreRefusals
<1>6. StoreFinds(r)'
  BY <1>1, <1>3, <1>4 DEF StoreRequestAt, StoreFinds, OfSession, Used
<1>7. StoreTouches(r)'
  <2>1. code \in StoreRefusals => touched[r] = {}
    BY DEF StoreRefusals
  <2>2. \A c \in touched[r] : OfSession(storeWant[r].session, c)'
    BY <1>1, <1>4 DEF StoreRequestAt, StoreTouches, OfSession, Used
  <2> QED BY <1>3, <1>4, <1>5, <2>1, <2>2 DEF StoreTouches
<1>8. StoreImports(r)'
  BY <1>3, <1>5 DEF StoreImports
<1>9. "ended" \in StorePhases
  BY DEF StorePhases
<1>10. StoreRequestAt(r)'
  BY <1>6, <1>7, <1>8 DEF StoreRequestAt
<1> QED BY <1>2, <1>9, <1>10, StoreLooks

(* A request that goes on to look for the rest.                            *)
LEMMA StoreGoes ==
  ASSUME HandlerStorageInvariant, NEW r \in StoreRequests, Storage!Same,
         storePc[r] \in {"begin", "tab", "session", "browser", "scope"},
         NEW p \in {"tab", "session", "browser", "scope", "send"}, Storage!Goes(r, p),
         NEW f \in StoreFindings, found' = [found EXCEPT ![r] = f],
         f.scope # None => OfSession(storeWant[r].session, f.scope),
         f.tab # None => OfSession(storeWant[r].session, f.tab),
         storeWant[r].cmd \in {"export", "import"} /\ p = "send" => f.scope = f.tab \/ f.tab \notin alive
  PROVE  HandlerStorageInvariant'
<1>1. StoreTypes /\ StoreRequestAt(r)
  BY DEF HandlerStorageInvariant
<1>2. /\ storePc' = [storePc EXCEPT ![r] = p]
      /\ storeAnswer' = [storeAnswer EXCEPT ![r] = storeAnswer[r]]
  BY <1>1 DEF Storage!Goes, StoreTypes
<1>3. storePc'[r] = p /\ storeAnswer'[r] = None /\ found'[r] = f /\ touched[r] = {} /\ storeAnswer[r] = None
  BY <1>1, <1>2 DEF StoreTypes, StoreRequestAt, StoreTouches
<1>4. storeWant' = storeWant /\ alive' = alive /\ jar' = jar /\ touched' = touched
  BY DEF Storage!Same
<1>5. StoreFinds(r)'
  BY <1>3, <1>4 DEF StoreFinds, OfSession, Used
<1>6. StoreTouches(r)'
  BY <1>3, <1>4, NoneAssumption DEF StoreTouches, StoreRefusals
<1>7. StoreImports(r)'
  BY <1>3, NoneAssumption DEF StoreImports
<1>8. p \in StorePhases
  BY DEF StorePhases
<1> QED BY <1>2, <1>5, <1>6, <1>7, <1>8, StoreLooks DEF StoreRequestAt

(* What a request may note: the context and the tab of its session as it   *)
(* is now.                                                                 *)
LEMMA StoreNotes ==
  ASSUME HandlerStorageInvariant, NEW r \in StoreRequests,
         storeSession[storeWant[r].session].exists
  PROVE  /\ storeWant[r].session \in {"default", "isolated"}
         /\ storeSession[storeWant[r].session].tab \in Contexts \cup {None}
         /\ storeSession[storeWant[r].session].context \in Contexts
         /\ OfSession(storeWant[r].session, storeSession[storeWant[r].session].context)
         /\ storeSession[storeWant[r].session].tab # None =>
              storeSession[storeWant[r].session].tab = storeSession[storeWant[r].session].context
         /\ \A c \in Contexts : OfSession(storeWant[r].session, c) =>
              c = storeSession[storeWant[r].session].context \/ c \notin alive
<1> DEFINE s == storeWant[r].session
<1>1. StoreTypes /\ StoreSessionsHold
  BY DEF HandlerStorageInvariant
<1>2. s \in {"default", "isolated"}
  BY <1>1 DEF StoreTypes, StoreWants
<1>3. storeSession[s].tab \in Contexts \cup {None}
  BY <1>1, <1>2 DEF StoreTypes, StoreSessions
<1>4. CASE s = "default"
  BY <1>1, <1>2, <1>3, <1>4, StorageAssumption DEF StoreSessionsHold, OfSession
<1>5. CASE s = "isolated"
  BY <1>1, <1>2, <1>3, <1>5 DEF StoreSessionsHold, OfSession
<1> QED BY <1>2, <1>4, <1>5

(* The steps that find session, tab and browser.                           *)
LEMMA StoreFinding ==
  ASSUME HandlerStorageInvariant, NEW r \in StoreRequests,
         \/ Storage!Begin(r) \/ Storage!FindTab(r) \/ Storage!ReadSession(r)
         \/ Storage!FindBrowser(r) \/ Storage!FindScope(r) \/ Storage!Fails(r)
  PROVE  HandlerStorageInvariant'
<1> DEFINE s == storeSession[storeWant[r].session]
<1>1. StoreTypes /\ StoreRequestAt(r)
  BY DEF HandlerStorageInvariant
<1>2. found[r] \in StoreFindings /\ found = [found EXCEPT ![r] = found[r]]
  BY <1>1 DEF StoreTypes
<1>3. /\ found[r].scope # None => OfSession(storeWant[r].session, found[r].scope)
      /\ found[r].tab # None => OfSession(storeWant[r].session, found[r].tab)
      /\ storePc[r] \notin {"set", "local", "ended"} => touched[r] = {}
  BY <1>1 DEF StoreRequestAt, StoreFinds, StoreTouches
<1>4. CASE Storage!Begin(r)
  <2>1. Storage!Same /\ UNCHANGED found /\ storePc[r] = "begin"
    BY <1>4 DEF Storage!Begin
  <2>2. \/ \E code \in StoreRefusals : Storage!Ends(r, code)
        \/ \E p \in {"tab", "session"} : Storage!Goes(r, p)
    BY <1>4 DEF Storage!Begin, StoreRefusals
  <2>3. CASE \E code \in StoreRefusals : Storage!Ends(r, code)
    BY <1>3, <2>1, <2>3, StoreEnds
  <2>4. CASE \E p \in {"tab", "session"} : Storage!Goes(r, p)
    <3>1. PICK p \in {"tab", "session"} : Storage!Goes(r, p)
      BY <2>4
    <3>2. found' = [found EXCEPT ![r] = found[r]] /\ p # "send" /\ p \in {"tab", "session", "browser", "scope", "send"}
      BY <1>2, <2>1
    <3> QED BY ZenonT(60), <1>2, <1>3, <2>1, <3>1, <3>2, StoreGoes
  <2> QED BY <2>2, <2>3, <2>4
<1>5. CASE Storage!FindTab(r)
  <2>1. Storage!Same /\ storePc[r] = "tab"
    BY <1>5 DEF Storage!FindTab
  <2>2. \/ UNCHANGED found /\ \E code \in StoreRefusals : Storage!Ends(r, code)
        \/ s.exists /\ s.tab # None /\ Storage!Goes(r, "session") /\ found' = [found EXCEPT ![r].tab = s.tab]
    BY <1>5 DEF Storage!FindTab, StoreRefusals
  <2>3. CASE UNCHANGED found /\ \E code \in StoreRefusals : Storage!Ends(r, code)
    BY <1>3, <2>1, <2>3, StoreEnds
  <2>4. CASE s.exists /\ s.tab # None /\ Storage!Goes(r, "session") /\ found' = [found EXCEPT ![r].tab = s.tab]
    <3> DEFINE f == [found[r] EXCEPT !.tab = s.tab]
    <3>1. s.tab \in Contexts /\ OfSession(storeWant[r].session, s.tab)
      BY <2>4, StoreNotes
    <3>2. f \in StoreFindings /\ f.scope = found[r].scope /\ f.tab = s.tab
      BY <1>2, <3>1 DEF StoreFindings
    <3>3. found' = [found EXCEPT ![r] = f]
      BY <1>2, <2>4
    <3>4. Storage!Goes(r, "session")
      BY <2>4
    <3> HIDE DEF f, s
    <3> QED BY <1>3, <2>1, <3>1, <3>2, <3>3, <3>4, StoreGoes
  <2> QED BY <2>2, <2>3, <2>4
<1>6. CASE Storage!ReadSession(r)
  <2>1. Storage!Same /\ storePc[r] = "session"
    BY <1>6 DEF Storage!ReadSession
  <2>2. \/ UNCHANGED found /\ \E code \in StoreRefusals : Storage!Ends(r, code)
        \/ UNCHANGED found /\ Storage!Goes(r, "browser")
        \/ s.exists /\ Storage!Goes(r, "browser") /\ found' = [found EXCEPT ![r].scope = s.context]
    BY <1>6 DEF Storage!ReadSession, StoreRefusals, Storage!Scope
  <2>3. CASE UNCHANGED found /\ \E code \in StoreRefusals : Storage!Ends(r, code)
    BY <1>3, <2>1, <2>3, StoreEnds
  <2>4. CASE UNCHANGED found /\ Storage!Goes(r, "browser")
    BY <1>2, <1>3, <2>1, <2>4, StoreGoes
  <2>5. CASE s.exists /\ Storage!Goes(r, "browser") /\ found' = [found EXCEPT ![r].scope = s.context]
    <3> DEFINE f == [found[r] EXCEPT !.scope = s.context]
    <3>1. s.context \in Contexts /\ OfSession(storeWant[r].session, s.context)
      BY <2>5, StoreNotes
    <3>2. f \in StoreFindings /\ f.scope = s.context /\ f.tab = found[r].tab
      BY <1>2, <3>1 DEF StoreFindings
    <3>3. found' = [found EXCEPT ![r] = f]
      BY <1>2, <2>5
    <3>4. Storage!Goes(r, "browser")
      BY <2>5
    <3> HIDE DEF f, s
    <3> QED BY <1>3, <2>1, <3>1, <3>2, <3>3, <3>4, StoreGoes
  <2> QED BY <2>2, <2>3, <2>4, <2>5
<1>7. CASE Storage!FindBrowser(r)
  <2>1. Storage!Same /\ storePc[r] = "browser"
    BY <1>7 DEF Storage!FindBrowser
  <2>2. \/ UNCHANGED found /\ \E code \in StoreRefusals : Storage!Ends(r, code)
        \/ \E p \in {"send", "scope"} :
             /\ Storage!Goes(r, p) /\ found' = [found EXCEPT ![r].connection = storeConnection]
             /\ p = "send" => storeWant[r].cmd \in Storage!Cookie \cup Storage!Local
    BY <1>7 DEF Storage!FindBrowser, StoreRefusals
  <2>3. CASE UNCHANGED found /\ \E code \in StoreRefusals : Storage!Ends(r, code)
    BY <1>3, <2>1, <2>3, StoreEnds
  <2>4. CASE \E p \in {"send", "scope"} :
             /\ Storage!Goes(r, p) /\ found' = [found EXCEPT ![r].connection = storeConnection]
             /\ p = "send" => storeWant[r].cmd \in Storage!Cookie \cup Storage!Local
    <3> DEFINE f == [found[r] EXCEPT !.connection = storeConnection]
    <3>1. PICK p \in {"send", "scope"} :
             /\ Storage!Goes(r, p) /\ found' = [found EXCEPT ![r].connection = storeConnection]
             /\ p = "send" => storeWant[r].cmd \in Storage!Cookie \cup Storage!Local
      BY <2>4
    <3>2. f \in StoreFindings /\ f.scope = found[r].scope /\ f.tab = found[r].tab
      BY <1>1, <1>2 DEF StoreFindings, StoreTypes
    <3>3. found' = [found EXCEPT ![r] = f]
      BY <1>2, <3>1
    <3>4. p = "send" => storeWant[r].cmd \notin {"export", "import"}
      BY <3>1 DEF Storage!Cookie, Storage!Local
    <3>5. p \in {"tab", "session", "browser", "scope", "send"}
      OBVIOUS
    <3>6. /\ f.scope # None => OfSession(storeWant[r].session, f.scope)
          /\ f.tab # None => OfSession(storeWant[r].session, f.tab)
          /\ storeWant[r].cmd \in {"export", "import"} /\ p = "send" =>
               f.scope = f.tab \/ f.tab \notin alive
      BY <1>3, <2>1, <3>2, <3>4
    <3>7. Storage!Goes(r, p)
      BY <3>1
    <3> HIDE DEF f
    <3> QED BY <2>1, <3>2, <3>3, <3>5, <3>6, <3>7, StoreGoes
  <2> QED BY <2>2, <2>3, <2>4
<1>8. CASE Storage!FindScope(r)
  <2>1. Storage!Same /\ storePc[r] = "scope"
    BY <1>8 DEF Storage!FindScope
  <2>2. \/ UNCHANGED found /\ \E code \in StoreRefusals : Storage!Ends(r, code)
        \/ s.exists /\ Storage!Goes(r, "send") /\ found' = [found EXCEPT ![r].scope = s.context]
    BY <1>8 DEF Storage!FindScope, StoreRefusals, Storage!Scope
  <2>3. CASE UNCHANGED found /\ \E code \in StoreRefusals : Storage!Ends(r, code)
    BY <1>3, <2>1, <2>3, StoreEnds
  <2>4. CASE s.exists /\ Storage!Goes(r, "send") /\ found' = [found EXCEPT ![r].scope = s.context]
    <3> DEFINE f == [found[r] EXCEPT !.scope = s.context]
    <3>1. s.context \in Contexts /\ OfSession(storeWant[r].session, s.context)
          /\ \A c \in Contexts : OfSession(storeWant[r].session, c) => c = s.context \/ c \notin alive
      BY <2>4, StoreNotes
    <3>2. f \in StoreFindings /\ f.scope = s.context /\ f.tab = found[r].tab
      BY <1>2, <3>1 DEF StoreFindings
    <3>3. found' = [found EXCEPT ![r] = f]
      BY <1>2, <2>4
    <3>4. found[r].tab \in Contexts \cup {None} /\ None \notin alive
      BY <1>1, <1>2, NoneAssumption DEF StoreFindings, StoreTypes
    <3>5. f.scope = f.tab \/ f.tab \notin alive
      BY <1>3, <3>1, <3>2, <3>4
    <3>6. Storage!Goes(r, "send")
      BY <2>4
    <3>7. /\ f.scope # None => OfSession(storeWant[r].session, f.scope)
          /\ f.tab # None => OfSession(storeWant[r].session, f.tab)
      BY <1>3, <3>1, <3>2
    <3> HIDE DEF f, s
    <3> QED BY <2>1, <3>2, <3>3, <3>5, <3>6, <3>7, StoreGoes
  <2> QED BY <2>2, <2>3, <2>4
<1>9. CASE Storage!Fails(r)
  BY <1>9, StoreEnds DEF Storage!Fails
<1> QED BY <1>4, <1>5, <1>6, <1>7, <1>8, <1>9

(* A command of request r in the context or the tab it has found.          *)
LEMMA StoreActs ==
  ASSUME HandlerStorageInvariant, NEW r \in StoreRequests,
         storeWant' = storeWant, storeSession' = storeSession, storeConnection' = storeConnection,
         alive' = alive,
         storePc[r] = "send" \/ (storePc[r] \in {"set", "local"} /\ storeWant[r].cmd \in {"export", "import"}),
         NEW c \in alive, c = found[r].scope \/ c = found[r].tab,
         NEW p \in {"set", "local", "ended"}, p # "ended" => c = found[r].scope,
         storePc' = [storePc EXCEPT ![r] = p],
         NEW a \in {None, "ok", "JsError"}, p # "ended" => a = None,
         storeAnswer' = [storeAnswer EXCEPT ![r] = a],
         NEW f \in StoreFindings, f.scope = found[r].scope, f.tab = found[r].tab,
         found' = [found EXCEPT ![r] = f],
         touched' = [touched EXCEPT ![r] = @ \cup {c}],
         NEW k \in SUBSET StoreNames, "fresh" \notin k, jar' = [jar EXCEPT ![c] = k],
         NEW e \in SUBSET StoreNames, entries' = [entries EXCEPT ![c] = e],
         Storage!Disturb(r) \/ (disturbed' = disturbed /\ k = jar[c] /\ e = entries[c]),
         StoreImports(r)'
  PROVE  HandlerStorageInvariant'
<1>1. StoreTypes /\ StoreSessionsHold /\ StoreRequestAt(r) /\ c \in Contexts /\ c # None
  BY NoneAssumption DEF HandlerStorageInvariant, StoreTypes
<1>2. StoreTypes'
  <2>1. p \in StorePhases
    BY DEF StorePhases
  <2> QED BY <1>1, <2>1 DEF StoreTypes
<1>3. \A d \in Contexts : Used(d) => Used(d)'
  BY <1>1 DEF StoreTypes, Used
<1>4. StoreSessionsHold'
  BY <1>1, <1>3, StoreSessionsKept
<1>5. ASSUME NEW q \in StoreRequests, q # r PROVE StoreRequestAt(q)'
  <2>1. storePc'[q] = storePc[q] /\ storeAnswer'[q] = storeAnswer[q] /\ found'[q] = found[q]
        /\ touched'[q] = touched[q]
    BY <1>1, <1>5 DEF StoreTypes
  <2>2. ASSUME q \notin disturbed', storePc[q] # "begin"
        PROVE  q \notin disturbed /\ jar' = jar /\ entries' = entries
    <3>1. ~Storage!Disturb(r)
      BY <1>5, <2>2 DEF Storage!Disturb
    <3> QED BY <1>1, <2>2, <3>1 DEF StoreTypes
  <2>3. alive' \subseteq Contexts
    BY <1>2 DEF StoreTypes
  <2> QED BY <1>3, <2>1, <2>2, <2>3, StoreOthers
<1>6. /\ storePc'[r] = p /\ storeAnswer'[r] = a /\ found'[r] = f
      /\ touched'[r] = touched[r] \cup {c}
  BY <1>1 DEF StoreTypes
<1>7. touched[r] \cup {c} = {c}
  <2>1. CASE storePc[r] = "send"
    BY <1>1, <2>1 DEF StoreRequestAt, StoreTouches
  <2>2. CASE storePc[r] \in {"set", "local"}
    <3>1. touched[r] = {found[r].scope}
      BY <1>1, <2>2 DEF StoreRequestAt, StoreTouches
    <3>2. c = found[r].scope
      BY <1>1, <2>2 DEF StoreRequestAt, StoreFinds
    <3> QED BY <3>1, <3>2
  <2> QED BY <2>1, <2>2
<1>8. OfSession(storeWant[r].session, c)'
  <2>1. OfSession(storeWant[r].session, c)
    BY <1>1 DEF StoreRequestAt, StoreFinds
  <2> QED BY <1>1, <1>3, <2>1 DEF OfSession
<1>9. StoreFinds(r)'
  <2>1. found[r].scope \in Contexts \cup {None} /\ found[r].tab \in Contexts \cup {None}
    BY <1>1 DEF StoreTypes, StoreFindings
  <2>2. found[r].scope # None => OfSession(storeWant[r].session, found[r].scope)'
    BY <1>1, <1>3, <2>1 DEF OfSession, StoreRequestAt, StoreFinds
  <2>3. found[r].tab # None => OfSession(storeWant[r].session, found[r].tab)'
    BY <1>1, <1>3, <2>1 DEF OfSession, StoreRequestAt, StoreFinds
  <2>4. storeWant[r].cmd \in {"export", "import"} => found[r].scope = found[r].tab \/ found[r].tab \notin alive
    BY <1>1 DEF StoreRequestAt, StoreFinds
  <2> QED BY <1>6, <2>2, <2>3, <2>4 DEF StoreFinds, OfSession
<1>10. StoreTouches(r)'
  <2>1. None # "ok" /\ a \notin StoreRefusals
    BY NoneAssumption DEF StoreRefusals
  <2> QED BY <1>1, <1>6, <1>7, <1>8, <2>1 DEF StoreTouches
<1>11. StoreRequestAt(r)'
  BY <1>9, <1>10 DEF StoreRequestAt
<1> QED BY <1>2, <1>4, <1>5, <1>11 DEF HandlerStorageInvariant

(* What Works gives: a context that is there, in use.                      *)
LEMMA StoreWorks ==
  ASSUME HandlerStorageInvariant, NEW r \in StoreRequests, NEW c, Storage!Works(r, c),
         c = found[r].scope \/ c = found[r].tab
  PROVE  /\ c \in alive /\ c \in Contexts /\ Used(c) /\ "fresh" \notin storeWant[r].names
         /\ jar[c] \in SUBSET StoreNames /\ entries[c] \in SUBSET StoreNames
         /\ storeWant[r].names \in SUBSET StoreNames
         /\ jar = [jar EXCEPT ![c] = jar[c]] /\ entries = [entries EXCEPT ![c] = entries[c]]
         /\ found[r] \in StoreFindings /\ found = [found EXCEPT ![r] = found[r]]
         /\ storeAnswer = [storeAnswer EXCEPT ![r] = storeAnswer[r]]
<1>1. StoreTypes /\ StoreFinds(r) /\ c \in alive /\ c \in Contexts /\ c # None
  BY NoneAssumption DEF HandlerStorageInvariant, StoreRequestAt, StoreTypes, Storage!Works
<1>2. Used(c)
  BY <1>1 DEF StoreFinds, OfSession
<1>3. storeWant[r].names \in Given
  BY <1>1 DEF StoreTypes, StoreWants
<1>4. "fresh" \notin storeWant[r].names /\ storeWant[r].names \in SUBSET StoreNames
  BY <1>3, StorageAssumption DEF StoreNames
<1>5. /\ jar[c] \in SUBSET StoreNames /\ entries[c] \in SUBSET StoreNames
      /\ jar = [jar EXCEPT ![c] = jar[c]] /\ entries = [entries EXCEPT ![c] = entries[c]]
  BY <1>1 DEF StoreTypes
<1>6. /\ found[r] \in StoreFindings /\ found = [found EXCEPT ![r] = found[r]]
      /\ storeAnswer = [storeAnswer EXCEPT ![r] = storeAnswer[r]]
  BY SMTT(60), <1>1 DEF StoreTypes
<1> QED BY <1>1, <1>2, <1>4, <1>5, <1>6

(* The cookie commands,                                                    *)
LEMMA StoreCookies ==
  ASSUME HandlerStorageInvariant, NEW r \in StoreRequests, Storage!Cookies(r)
  PROVE  HandlerStorageInvariant'
<1> DEFINE c == found[r].scope
<1>1. /\ storePc[r] = "send" /\ storeWant[r].cmd \notin {"export", "import"}
      /\ storeWant' = storeWant /\ found' = found /\ storeSession' = storeSession
      /\ storeConnection' = storeConnection /\ alive' = alive
      /\ storePc' = [storePc EXCEPT ![r] = "ended"] /\ storeAnswer' = [storeAnswer EXCEPT ![r] = "ok"]
  BY DEF Storage!Cookies, Storage!Cookie, Storage!Ends
<1>2. Storage!Works(r, c) /\ Storage!Touch(r, c)
  BY DEF Storage!Cookies, Storage!Change
<1>3. /\ c \in alive /\ Used(c) /\ "fresh" \notin storeWant[r].names
      /\ jar[c] \in SUBSET StoreNames /\ entries[c] \in SUBSET StoreNames
      /\ storeWant[r].names \in SUBSET StoreNames
      /\ jar = [jar EXCEPT ![c] = jar[c]] /\ entries = [entries EXCEPT ![c] = entries[c]]
      /\ found[r] \in StoreFindings /\ found = [found EXCEPT ![r] = found[r]]
  BY <1>2, StoreWorks
<1>4. PICK k \in SUBSET StoreNames :
        /\ "fresh" \notin k /\ jar' = [jar EXCEPT ![c] = k] /\ entries' = entries
        /\ Storage!Disturb(r) \/ (disturbed' = disturbed /\ k = jar[c])
  <2>1. CASE storeWant[r].cmd = "cookies.get"
    BY <1>3, <2>1 DEF Storage!Cookies, Used
  <2>2. CASE storeWant[r].cmd = "cookies.set"
    <3> DEFINE k == jar[c] \cup storeWant[r].names
    <3>1. Storage!Change(r, c, k)
      BY <2>2 DEF Storage!Cookies
    <3>2. k \in SUBSET StoreNames /\ "fresh" \notin k
      BY <1>3 DEF Used
    <3> HIDE DEF k
    <3> QED BY <3>1, <3>2 DEF Storage!Change
  <2>3. CASE storeWant[r].cmd \notin {"cookies.get", "cookies.set"}
    <3>1. Storage!Change(r, c, {})
      BY <2>3 DEF Storage!Cookies
    <3>2. {} \in SUBSET StoreNames /\ "fresh" \notin {}
      OBVIOUS
    <3> HIDE DEF c
    <3>3. jar' = [jar EXCEPT ![c] = {}] /\ entries' = entries /\ Storage!Disturb(r)
      BY <3>1 DEF Storage!Change
    <3> QED BY <3>2, <3>3
  <2> QED BY <2>1, <2>2, <2>3
<1>5. StoreImports(r)'
  BY <1>1 DEF StoreImports
<1>6. touched' = [touched EXCEPT ![r] = @ \cup {c}] /\ entries' = [entries EXCEPT ![c] = entries[c]]
      /\ found' = [found EXCEPT ![r] = found[r]]
  BY <1>1, <1>2, <1>3, <1>4 DEF Storage!Touch
<1> HIDE DEF c
<1>7. c = found[r].scope
  BY DEF c
<1> QED BY ZenonT(60), <1>1, <1>3, <1>4, <1>5, <1>6, <1>7, StoreActs

(* ... the localStorage commands,                                          *)
LEMMA StoreInTab ==
  ASSUME HandlerStorageInvariant, NEW r \in StoreRequests, Storage!InTab(r)
  PROVE  HandlerStorageInvariant'
<1> DEFINE c == found[r].tab
<1>1. /\ storePc[r] = "send" /\ storeWant[r].cmd \notin {"export", "import"}
      /\ storeWant' = storeWant /\ found' = found /\ storeSession' = storeSession
      /\ storeConnection' = storeConnection /\ alive' = alive /\ jar' = jar
  BY DEF Storage!InTab, Storage!Local
<1>2. \/ Storage!Ends(r, "InvalidArgument") /\ UNCHANGED <<entries, touched, disturbed>>
      \/ Storage!Works(r, c) /\ Storage!Touch(r, c)
  BY DEF Storage!InTab
<1>3. CASE Storage!Ends(r, "InvalidArgument") /\ UNCHANGED <<entries, touched, disturbed>>
  <2>1. Storage!Same /\ UNCHANGED found
    BY <1>1, <1>3 DEF Storage!Same
  <2>2. touched[r] = {}
    BY <1>1 DEF HandlerStorageInvariant, StoreRequestAt, StoreTouches
  <2>3. "InvalidArgument" \in StoreRefusals
    BY DEF StoreRefusals
  <2> QED BY <1>3, <2>1, <2>2, <2>3, StoreEnds
<1>4. CASE Storage!Works(r, c) /\ Storage!Touch(r, c)
  <2>1. /\ c \in alive /\ Used(c) /\ "fresh" \notin storeWant[r].names
        /\ jar[c] \in SUBSET StoreNames /\ entries[c] \in SUBSET StoreNames
        /\ storeWant[r].names \in SUBSET StoreNames
        /\ jar = [jar EXCEPT ![c] = jar[c]] /\ entries = [entries EXCEPT ![c] = entries[c]]
        /\ found[r] \in StoreFindings /\ found = [found EXCEPT ![r] = found[r]]
    BY <1>4, StoreWorks
  <2>2. CASE Storage!Ends(r, "InvalidArgument") /\ UNCHANGED <<entries, touched, disturbed>>
    BY SMTT(60), <1>3, <2>2
  <2>3. CASE ~(Storage!Ends(r, "InvalidArgument") /\ UNCHANGED <<entries, touched, disturbed>>)
    <3>1. PICK e \in SUBSET StoreNames, a \in {"ok", "JsError"} :
            /\ entries' = [entries EXCEPT ![c] = e] /\ Storage!Ends(r, a)
            /\ Storage!Disturb(r) \/ (disturbed' = disturbed /\ e = entries[c])
      <4> DEFINE g == entries[c] \cup storeWant[r].names
      <4>1. g \in SUBSET StoreNames
        BY <2>1
      <4>2. \/ Storage!Ends(r, "JsError") /\ UNCHANGED <<entries, disturbed>>
            \/ entries' = [entries EXCEPT ![c] = g] /\ Storage!Disturb(r) /\ Storage!Ends(r, "ok")
            \/ Storage!Ends(r, "ok") /\ UNCHANGED <<entries, disturbed>>
        BY <2>3 DEF Storage!InTab
      <4> HIDE DEF g, c
      <4> QED BY <2>1, <4>1, <4>2
    <3>2. StoreImports(r)'
      BY <1>1 DEF StoreImports
    <3>3. /\ touched' = [touched EXCEPT ![r] = @ \cup {c}] /\ jar' = [jar EXCEPT ![c] = jar[c]]
          /\ found' = [found EXCEPT ![r] = found[r]]
      BY <1>1, <1>4, <2>1 DEF Storage!Touch
    <3>4. storePc' = [storePc EXCEPT ![r] = "ended"] /\ storeAnswer' = [storeAnswer EXCEPT ![r] = a]
      BY <3>1 DEF Storage!Ends
    <3>5. "fresh" \notin jar[c] /\ a \in {None, "ok", "JsError"}
      BY <2>1 DEF Used
    <3>6. c = found[r].tab
      OBVIOUS
    <3> HIDE DEF c
    <3> QED BY <1>1, <2>1, <3>1, <3>2, <3>3, <3>4, <3>5, <3>6, StoreActs
  <2> QED BY <2>2, <2>3
<1> QED BY <1>2, <1>3, <1>4

(* ... an export,                                                          *)
LEMMA StoreExport ==
  ASSUME HandlerStorageInvariant, NEW r \in StoreRequests, Storage!Export(r)
  PROVE  HandlerStorageInvariant'
<1>1. /\ storeWant[r].cmd = "export" /\ storeWant' = storeWant /\ storeSession' = storeSession
      /\ storeConnection' = storeConnection /\ alive' = alive /\ jar' = jar
      /\ entries' = entries /\ disturbed' = disturbed
  BY DEF Storage!Export
<1>2. StoreImports(r)'
  BY SMTT(60), <1>1 DEF StoreImports
<1>3. CASE storePc[r] = "send"
  <2> DEFINE c == found[r].scope
  <2>1. /\ Storage!Works(r, c) /\ Storage!Touch(r, c)
        /\ found' = [found EXCEPT ![r].cookies = jar[c]]
        /\ Storage!Goes(r, "local")
    BY <1>3 DEF Storage!Export
  <2>2. /\ c \in alive /\ Used(c) /\ jar[c] \in SUBSET StoreNames /\ entries[c] \in SUBSET StoreNames
        /\ jar = [jar EXCEPT ![c] = jar[c]] /\ entries = [entries EXCEPT ![c] = entries[c]]
        /\ found[r] \in StoreFindings /\ found = [found EXCEPT ![r] = found[r]]
        /\ storeAnswer = [storeAnswer EXCEPT ![r] = storeAnswer[r]]
    BY <2>1, StoreWorks
  <2> DEFINE f == [found[r] EXCEPT !.cookies = jar[c]]
  <2>3. f \in StoreFindings /\ f.scope = found[r].scope /\ f.tab = found[r].tab
    BY <2>2 DEF StoreFindings
  <2>4. found' = [found EXCEPT ![r] = f]
    BY <2>1, <2>2
  <2>5. storeAnswer[r] = None
    BY <1>3 DEF HandlerStorageInvariant, StoreRequestAt, StoreTouches
  <2>6. storePc' = [storePc EXCEPT ![r] = "local"] /\ storeAnswer' = [storeAnswer EXCEPT ![r] = None]
    BY <2>1, <2>2, <2>5 DEF Storage!Goes
  <2>7. /\ touched' = [touched EXCEPT ![r] = @ \cup {c}] /\ jar' = [jar EXCEPT ![c] = jar[c]]
        /\ entries' = [entries EXCEPT ![c] = entries[c]] /\ "fresh" \notin jar[c] /\ c = found[r].scope
    BY SMTT(60), <1>1, <2>1, <2>2 DEF Storage!Touch, Used
  <2> HIDE DEF c, f
  <2> QED BY <1>1, <1>2, <1>3, <2>2, <2>3, <2>4, <2>6, <2>7, StoreActs
<1>4. CASE storePc[r] = "local"
  <2> DEFINE c == found[r].tab
  <2>1. /\ Storage!Works(r, c) /\ Storage!Touch(r, c)
        /\ \/ Storage!Ends(r, "JsError") /\ UNCHANGED found
           \/ found' = [found EXCEPT ![r].entries = entries[c]] /\ Storage!Ends(r, "ok")
    BY <1>4 DEF Storage!Export
  <2>2. /\ c \in alive /\ Used(c) /\ jar[c] \in SUBSET StoreNames /\ entries[c] \in SUBSET StoreNames
        /\ jar = [jar EXCEPT ![c] = jar[c]] /\ entries = [entries EXCEPT ![c] = entries[c]]
        /\ found[r] \in StoreFindings /\ found = [found EXCEPT ![r] = found[r]]
    BY <2>1, StoreWorks
  <2>3. PICK f \in StoreFindings, a \in {"ok", "JsError"} :
          /\ found' = [found EXCEPT ![r] = f] /\ Storage!Ends(r, a)
          /\ f.scope = found[r].scope /\ f.tab = found[r].tab
    <3> DEFINE g == [found[r] EXCEPT !.entries = entries[c]]
    <3>1. g \in StoreFindings /\ g.scope = found[r].scope /\ g.tab = found[r].tab
      BY <2>2 DEF StoreFindings
    <3>2. [found EXCEPT ![r].entries = entries[c]] = [found EXCEPT ![r] = g]
      BY <2>2
    <3> HIDE DEF g, c
    <3> QED BY <2>1, <2>2, <3>1, <3>2
  <2>4. storePc' = [storePc EXCEPT ![r] = "ended"] /\ storeAnswer' = [storeAnswer EXCEPT ![r] = a]
    BY <2>3 DEF Storage!Ends
  <2>5. /\ touched' = [touched EXCEPT ![r] = @ \cup {c}] /\ jar' = [jar EXCEPT ![c] = jar[c]]
        /\ entries' = [entries EXCEPT ![c] = entries[c]] /\ "fresh" \notin jar[c] /\ c = found[r].tab
    BY <1>1, <2>1, <2>2 DEF Storage!Touch, Used
  <2>6. a \in {None, "ok", "JsError"}
    BY SMTT(60)
  <2> HIDE DEF c
  <2> QED BY <1>1, <1>2, <1>4, <2>2, <2>3, <2>4, <2>5, <2>6, StoreActs
<1> QED BY <1>3, <1>4 DEF Storage!Export

(* ... an import that clears the cookies,                                  *)
LEMMA StoreImportClears ==
  ASSUME HandlerStorageInvariant, NEW r \in StoreRequests, Storage!ImportClears(r)
  PROVE  HandlerStorageInvariant'
<1> DEFINE c == found[r].scope
           p == IF storeWant[r].names = {} THEN "local" ELSE "set"
<1>1. /\ storePc[r] = "send" /\ storeWant' = storeWant /\ storeSession' = storeSession
      /\ storeConnection' = storeConnection /\ alive' = alive /\ found' = found
      /\ Storage!Goes(r, p) /\ Storage!Works(r, c) /\ Storage!Touch(r, c) /\ Storage!Disturb(r)
      /\ jar' = [jar EXCEPT ![c] = {}] /\ entries' = entries
  BY DEF Storage!ImportClears, Storage!Change, Storage!Cleared
<1>2. /\ c \in alive /\ c \in Contexts /\ entries[c] \in SUBSET StoreNames
      /\ entries = [entries EXCEPT ![c] = entries[c]]
      /\ found[r] \in StoreFindings /\ found = [found EXCEPT ![r] = found[r]]
      /\ storeAnswer = [storeAnswer EXCEPT ![r] = storeAnswer[r]]
  BY <1>1, StoreWorks
<1>3. StoreTypes /\ storeAnswer[r] = None
  BY <1>1 DEF HandlerStorageInvariant, StoreRequestAt, StoreTouches
<1>4. storePc' = [storePc EXCEPT ![r] = p] /\ storeAnswer' = [storeAnswer EXCEPT ![r] = None]
  BY <1>1, <1>2, <1>3 DEF Storage!Goes
<1>5. StoreImports(r)'
  <2>1. jar'[c] = {} /\ storePc'[r] = p /\ storeAnswer'[r] = None /\ None # "ok"
    BY <1>1, <1>2, <1>3, <1>4, NoneAssumption DEF StoreTypes
  <2>2. p = "local" => storeWant[r].names = {}
    OBVIOUS
  <2> QED BY <1>1, <2>1, <2>2 DEF StoreImports
<1>6. /\ touched' = [touched EXCEPT ![r] = @ \cup {c}] /\ found' = [found EXCEPT ![r] = found[r]]
      /\ entries' = [entries EXCEPT ![c] = entries[c]] /\ "fresh" \notin {} /\ c = found[r].scope
      /\ p \in {"set", "local", "ended"} /\ {} \in SUBSET StoreNames
  BY SMTT(60), <1>1, <1>2 DEF Storage!Touch
<1> HIDE DEF c, p
<1> QED BY <1>1, <1>2, <1>4, <1>5, <1>6, StoreActs

(* ... sets those it brings,                                               *)
LEMMA StoreImportSets ==
  ASSUME HandlerStorageInvariant, NEW r \in StoreRequests, Storage!ImportSets(r)
  PROVE  HandlerStorageInvariant'
<1> DEFINE c == found[r].scope
           k == jar[c] \cup storeWant[r].names
<1>1. /\ storePc[r] = "set" /\ storeWant[r].cmd = "import"
      /\ storeWant' = storeWant /\ storeSession' = storeSession
      /\ storeConnection' = storeConnection /\ alive' = alive /\ found' = found
      /\ Storage!Goes(r, "local") /\ Storage!Works(r, c) /\ Storage!Touch(r, c) /\ Storage!Disturb(r)
      /\ jar' = [jar EXCEPT ![c] = k] /\ entries' = entries
  BY DEF Storage!ImportSets, Storage!Change
<1>2. /\ c \in alive /\ c \in Contexts /\ Used(c) /\ "fresh" \notin storeWant[r].names
      /\ jar[c] \in SUBSET StoreNames /\ entries[c] \in SUBSET StoreNames
      /\ storeWant[r].names \in SUBSET StoreNames
      /\ entries = [entries EXCEPT ![c] = entries[c]]
      /\ found[r] \in StoreFindings /\ found = [found EXCEPT ![r] = found[r]]
      /\ storeAnswer = [storeAnswer EXCEPT ![r] = storeAnswer[r]]
  BY <1>1, StoreWorks
<1>3. StoreTypes /\ storeAnswer[r] = None /\ (r \notin disturbed => jar[c] = {})
  BY <1>1 DEF HandlerStorageInvariant, StoreRequestAt, StoreTouches, StoreImports
<1>4. storePc' = [storePc EXCEPT ![r] = "local"] /\ storeAnswer' = [storeAnswer EXCEPT ![r] = None]
  BY <1>1, <1>2, <1>3 DEF Storage!Goes
<1>5. k \in SUBSET StoreNames /\ "fresh" \notin k
  BY <1>2 DEF Used
<1>6. StoreImports(r)'
  <2>1. jar'[c] = k /\ storePc'[r] = "local" /\ storeAnswer'[r] = None /\ None # "ok"
    BY <1>1, <1>2, <1>3, <1>4, NoneAssumption DEF StoreTypes
  <2>2. r \notin disturbed' => k = storeWant[r].names
    BY <1>1, <1>3 DEF Storage!Disturb
  <2> QED BY <1>1, <2>1, <2>2 DEF StoreImports
<1>7. /\ touched' = [touched EXCEPT ![r] = @ \cup {c}] /\ found' = [found EXCEPT ![r] = found[r]]
      /\ entries' = [entries EXCEPT ![c] = entries[c]] /\ c = found[r].scope
  BY SMTT(60), <1>1, <1>2 DEF Storage!Touch
<1> HIDE DEF c, k
<1> QED BY ZenonT(60), <1>1, <1>2, <1>4, <1>5, <1>6, <1>7, StoreActs

(* ... and replaces the entries.                                           *)
LEMMA StoreImportLocal ==
  ASSUME HandlerStorageInvariant, NEW r \in StoreRequests, Storage!ImportLocal(r)
  PROVE  HandlerStorageInvariant'
<1> DEFINE c == found[r].tab
<1>1. /\ storePc[r] = "local" /\ storeWant[r].cmd = "import"
      /\ storeWant' = storeWant /\ storeSession' = storeSession
      /\ storeConnection' = storeConnection /\ alive' = alive /\ found' = found /\ jar' = jar
      /\ Storage!Works(r, c) /\ Storage!Touch(r, c) /\ Storage!Disturb(r)
  BY DEF Storage!ImportLocal, Storage!TabOf
<1>2. /\ c \in alive /\ c \in Contexts /\ Used(c)
      /\ jar[c] \in SUBSET StoreNames /\ storeWant[r].names \in SUBSET StoreNames
      /\ jar = [jar EXCEPT ![c] = jar[c]]
      /\ found[r] \in StoreFindings /\ found = [found EXCEPT ![r] = found[r]]
  BY <1>1, StoreWorks
<1>3. PICK e \in SUBSET StoreNames, a \in {"ok", "JsError"} :
        /\ entries' = [entries EXCEPT ![c] = e] /\ Storage!Ends(r, a)
        /\ a = "ok" => e = storeWant[r].names
  BY <1>2 DEF Storage!ImportLocal, Storage!TabOf
<1>4. StoreTypes /\ found[r].scope \in Contexts /\ (r \notin disturbed => jar[found[r].scope] = storeWant[r].names)
  BY <1>1 DEF HandlerStorageInvariant, StoreRequestAt, StoreTouches, StoreImports
<1>5. storePc' = [storePc EXCEPT ![r] = "ended"] /\ storeAnswer' = [storeAnswer EXCEPT ![r] = a]
  BY <1>3 DEF Storage!Ends
<1>6. StoreImports(r)'
  <2>1. entries'[c] = e /\ storePc'[r] = "ended" /\ storeAnswer'[r] = a
    BY <1>2, <1>3, <1>4, <1>5 DEF StoreTypes
  <2>2. r \notin disturbed' => r \notin disturbed
    BY <1>1 DEF Storage!Disturb
  <2> QED BY <1>1, <1>2, <1>3, <1>4, <2>1, <2>2 DEF StoreImports
<1>7. /\ touched' = [touched EXCEPT ![r] = @ \cup {c}] /\ found' = [found EXCEPT ![r] = found[r]]
      /\ jar' = [jar EXCEPT ![c] = jar[c]] /\ c = found[r].tab /\ "fresh" \notin jar[c]
      /\ a \in {None, "ok", "JsError"}
  BY <1>1, <1>2 DEF Storage!Touch, Used
<1> HIDE DEF c
<1> QED BY <1>1, <1>2, <1>3, <1>5, <1>6, <1>7, StoreActs

(* A step of a session, of the connection or of a page leaves the requests *)
(* where they are.                                                         *)
LEMMA StoreBeside ==
  ASSUME HandlerStorageInvariant,
         UNCHANGED <<storeWant, storePc, storeAnswer, found, touched, entries>>,
         StoreTypes', StoreSessionsHold',
         \A c \in Contexts : Used(c) => Used(c)' /\ (c \notin alive => c \notin alive'),
         \/ disturbed' = disturbed /\ \A c \in Contexts : Used(c) => jar'[c] = jar[c]
         \/ disturbed' = {r \in StoreRequests : storePc[r] # "begin"} \cup disturbed
  PROVE  HandlerStorageInvariant'
<1>1. ASSUME NEW r \in StoreRequests PROVE StoreRequestAt(r)'
  <2>1. alive' \subseteq Contexts
    BY DEF StoreTypes
  <2>2. r \notin disturbed' /\ storePc[r] # "begin" =>
          r \notin disturbed /\ \A c \in Contexts : Used(c) => jar'[c] = jar[c] /\ entries'[c] = entries[c]
    OBVIOUS
  <2> QED BY <2>1, <2>2, StoreOthers
<1> QED BY <1>1 DEF HandlerStorageInvariant

(* A page sets a cookie,                                                   *)
LEMMA StorePageSets ==
  ASSUME HandlerStorageInvariant, NEW c \in Contexts, Storage!PageSets(c)
  PROVE  HandlerStorageInvariant'
<1>1. StoreTypes /\ StoreSessionsHold
  BY DEF HandlerStorageInvariant
<1>2. /\ UNCHANGED <<storeWant, storePc, storeAnswer, found, touched, entries>>
      /\ storeSession' = storeSession /\ alive' = alive /\ storeConnection' = storeConnection
      /\ jar' = [jar EXCEPT ![c] = jar[c] \cup {"page"}]
      /\ disturbed' = {r \in StoreRequests : storePc[r] # "begin"} \cup disturbed
  BY DEF Storage!PageSets
<1>3. StoreTypes'
  <2>1. jar[c] \cup {"page"} \in SUBSET StoreNames
    BY <1>1 DEF StoreTypes, StoreNames
  <2>2. jar' \in [Contexts -> SUBSET StoreNames]
    BY <1>1, <1>2, <2>1 DEF StoreTypes
  <2> QED BY <1>1, <1>2, <2>2 DEF StoreTypes
<1>4. \A d \in Contexts : Used(d) => Used(d)'
  BY <1>1, <1>2 DEF StoreTypes, Used
<1>5. StoreSessionsHold'
  BY <1>1, <1>2, <1>4, StoreSessionsKept
<1> QED BY <1>2, <1>3, <1>4, <1>5, StoreBeside

(* ... a session is closed.                                                *)
LEMMA StoreCloseSession ==
  ASSUME HandlerStorageInvariant, Storage!CloseSession
  PROVE  HandlerStorageInvariant'
<1>1. StoreTypes /\ StoreSessionsHold
  BY DEF HandlerStorageInvariant
<1>2. /\ UNCHANGED <<storeWant, storePc, storeAnswer, found, touched, entries, jar, disturbed>>
      /\ storeConnection' = storeConnection
      /\ storeSession["isolated"].exists
      /\ storeSession' = [storeSession EXCEPT !["isolated"] = Storage!NoSession]
      /\ alive' = alive \ {storeSession["isolated"].context}
  BY DEF Storage!CloseSession, Storage!Requested
<1>3. StoreTypes'
  <2>1. Storage!NoSession \in StoreSessions
    BY DEF Storage!NoSession, StoreSessions
  <2>2. storeSession' \in [{"default", "isolated"} -> StoreSessions]
    BY <1>1, <1>2, <2>1 DEF StoreTypes
  <2> QED BY <1>1, <1>2, <2>2 DEF StoreTypes
<1>4. \A d \in Contexts : Used(d) = Used(d)'
  BY <1>2 DEF Used
<1>5. StoreSessionsHold'
  <2>1. storeSession'["default"] = storeSession["default"] /\ storeSession'["isolated"] = Storage!NoSession
        /\ ~Storage!NoSession.exists
    BY <1>1, <1>2 DEF StoreTypes, Storage!NoSession
  <2>2. "default" \in alive' /\ alive' \subseteq {"default"}
    BY <1>1, <1>2 DEF StoreSessionsHold
  <2>3. Used("default")'
    BY <1>1, <1>4, StorageAssumption DEF StoreSessionsHold
  <2> QED BY <1>1, <2>1, <2>2, <2>3 DEF StoreSessionsHold
<1> QED BY <1>2, <1>3, <1>4, <1>5, StoreBeside

(* A session is given a context that was not used before.                  *)
LEMMA StoreOpens ==
  ASSUME HandlerStorageInvariant,
         UNCHANGED <<storeWant, storePc, storeAnswer, found, entries, touched, disturbed>>,
         storeConnection' \in {None, 1, 2}, NEW c \in Storage!Unused,
         \/ ~storeSession["isolated"].exists
         \/ storeSession["isolated"].context \notin alive,
         storeSession' = [storeSession EXCEPT !["isolated"] =
           [exists |-> TRUE, connected |-> TRUE, context |-> c, tab |-> None]],
         alive' = alive \cup {c}, jar' = [jar EXCEPT ![c] = {}]
  PROVE  HandlerStorageInvariant'
<1> DEFINE s == [exists |-> TRUE, connected |-> TRUE, context |-> c, tab |-> None]
<1>1. StoreTypes /\ StoreSessionsHold
  BY DEF HandlerStorageInvariant
<1>2. c \in Contexts \ {"default"} /\ c \notin alive /\ ~Used(c)
  BY DEF Storage!Unused, Used
<1>3. s \in StoreSessions /\ s.exists /\ s.context = c /\ s.tab = None
  BY <1>2 DEF StoreSessions
<1>4. storeSession' = [storeSession EXCEPT !["isolated"] = s]
  OBVIOUS
<1> HIDE DEF s
<1>5. StoreTypes'
  <2>1. storeSession' \in [{"default", "isolated"} -> StoreSessions]
    BY ZenonT(60), <1>1, <1>3, <1>4 DEF StoreTypes
  <2>2. alive' \subseteq Contexts /\ jar' \in [Contexts -> SUBSET StoreNames]
    BY <1>1, <1>2 DEF StoreTypes
  <2> QED BY <1>1, <2>1, <2>2 DEF StoreTypes
<1>6. \A d \in Contexts : Used(d) => Used(d)' /\ (d \notin alive => d \notin alive') /\ jar'[d] = jar[d]
  BY <1>1, <1>2 DEF StoreTypes, Used
<1>7. Used(c)'
  BY <1>1, <1>2 DEF StoreTypes, Used
<1>8. StoreSessionsHold'
  <2>1. storeSession'["default"] = storeSession["default"] /\ storeSession'["isolated"] = s
    BY <1>1, <1>4 DEF StoreTypes
  <2>2. alive \subseteq {"default"}
    <3>1. CASE ~storeSession["isolated"].exists
      <4>1. storeSession["isolated"].context = None
        BY <1>1, <3>1 DEF StoreSessionsHold, Storage!NoSession
      <4> QED BY <1>1, <4>1, NoneAssumption DEF StoreSessionsHold, StoreTypes
    <3>2. CASE storeSession["isolated"].context \notin alive
      BY <1>1, <3>2 DEF StoreSessionsHold
    <3> QED BY <3>1, <3>2
  <2>3. "default" \in alive' /\ alive' \subseteq {"default", c}
    BY <1>1, <2>2 DEF StoreSessionsHold
  <2>4. Used("default")'
    BY <1>1, <1>6, StorageAssumption DEF StoreSessionsHold
  <2> QED BY <1>1, <1>2, <1>3, <1>7, <2>1, <2>3, <2>4 DEF StoreSessionsHold
<1> QED BY <1>5, <1>6, <1>8, StoreBeside

(* The isolated session is opened.                                         *)
LEMMA StoreOpenSession ==
  ASSUME HandlerStorageInvariant, Storage!OpenSession
  PROVE  HandlerStorageInvariant'
<1>1. storeConnection' \in {None, 1, 2}
  BY DEF HandlerStorageInvariant, StoreTypes, Storage!OpenSession
<1> QED BY <1>1, StoreOpens DEF Storage!OpenSession

(* A step that changes only the connection and what the sessions know of   *)
(* their tabs and of it.                                                   *)
LEMMA StoreMarks ==
  ASSUME HandlerStorageInvariant,
         UNCHANGED <<storeWant, storePc, storeAnswer, found, entries, touched, disturbed, jar>>,
         storeConnection' \in {None, 1, 2},
         "default" \in alive', alive' \subseteq alive,
         storeSession' \in [{"default", "isolated"} -> StoreSessions],
         \A n \in {"default", "isolated"} :
           /\ storeSession'[n].exists = storeSession[n].exists
           /\ storeSession'[n].context = storeSession[n].context
           /\ storeSession'[n].tab \in {None, storeSession[n].tab, storeSession[n].context}
           /\ ~storeSession[n].exists => storeSession'[n] = storeSession[n]
  PROVE  HandlerStorageInvariant'
<1>1. StoreTypes /\ StoreSessionsHold
  BY DEF HandlerStorageInvariant
<1>2. StoreTypes'
  BY <1>1 DEF StoreTypes
<1>3. \A d \in Contexts \cup {storeSession["isolated"].context, "default"} : Used(d) = Used(d)'
  BY DEF Used
<1>4. StoreSessionsHold'
  <2>1. storeSession'["default"].exists /\ storeSession'["default"].context = "default"
        /\ storeSession'["default"].tab \in {None, "default"}
    BY <1>1 DEF StoreSessionsHold
  <2>2. storeSession'["isolated"].exists \/ storeSession'["isolated"] = Storage!NoSession
    BY <1>1 DEF StoreSessionsHold
  <2>3. storeSession'["isolated"].exists =>
          /\ storeSession'["isolated"].context \in Contexts \ {"default"}
          /\ Used(storeSession["isolated"].context)'
          /\ storeSession'["isolated"].tab \in {None, storeSession'["isolated"].context}
    BY <1>1, <1>3 DEF StoreSessionsHold
  <2>4. alive' \subseteq {"default", storeSession'["isolated"].context} /\ Used("default")'
    BY <1>1, <1>3 DEF StoreSessionsHold
  <2> QED BY <2>1, <2>2, <2>3, <2>4 DEF StoreSessionsHold, Used
<1> QED BY <1>2, <1>3, <1>4, StoreBeside

(* A session is given its tab,                                             *)
LEMMA StoreOpenTab ==
  ASSUME HandlerStorageInvariant, NEW n \in Storage!Sessions, Storage!OpenTab(n)
  PROVE  HandlerStorageInvariant'
<1> DEFINE s == [storeSession[n] EXCEPT !.tab = storeSession[n].context]
<1>1. StoreTypes /\ StoreSessionsHold /\ n \in {"default", "isolated"} /\ storeSession[n] \in StoreSessions
  BY DEF HandlerStorageInvariant, StoreTypes, Storage!Sessions
<1>2. /\ UNCHANGED <<storeWant, storePc, storeAnswer, found, entries, touched, disturbed, jar>>
      /\ storeConnection' = storeConnection /\ alive' = alive /\ storeSession[n].connected
      /\ storeSession' = [storeSession EXCEPT ![n].tab = storeSession[n].context]
  BY DEF Storage!OpenTab, Storage!Requested
<1>3. storeSession' = [storeSession EXCEPT ![n] = s]
  BY <1>1, <1>2 DEF StoreTypes
<1>4. s \in StoreSessions /\ s.exists = storeSession[n].exists /\ s.context = storeSession[n].context
      /\ s.tab = storeSession[n].context
  BY <1>1 DEF StoreSessions
<1>5. storeSession[n].exists
  BY <1>1, <1>2 DEF StoreSessionsHold, Storage!NoSession
<1> HIDE DEF s
<1>6. storeSession' \in [{"default", "isolated"} -> StoreSessions]
  BY <1>1, <1>3, <1>4 DEF StoreTypes
<1>7. \A m \in {"default", "isolated"} : storeSession'[m] = IF m = n THEN s ELSE storeSession[m]
  BY <1>1, <1>3 DEF StoreTypes
<1>8. storeConnection' \in {None, 1, 2} /\ "default" \in alive' /\ alive' \subseteq alive
  BY <1>1, <1>2 DEF StoreTypes, StoreSessionsHold
<1> QED BY <1>2, <1>4, <1>5, <1>6, <1>7, <1>8, StoreMarks

(* ... the connection is lost,                                             *)
LEMMA StoreLose ==
  ASSUME HandlerStorageInvariant, Storage!Lose
  PROVE  HandlerStorageInvariant'
<1> DEFINE s(n) == [storeSession[n] EXCEPT !.connected = FALSE]
<1>1. StoreTypes /\ StoreSessionsHold
  BY DEF HandlerStorageInvariant
<1>2. /\ UNCHANGED <<storeWant, storePc, storeAnswer, found, entries, touched, disturbed, jar>>
      /\ storeConnection' = None /\ alive' \in {alive, {"default"}}
      /\ storeSession' = [n \in {"default", "isolated"} |-> s(n)]
  BY Zenon DEF Storage!Lose, Storage!Requested, Storage!Sessions
<1>3. ASSUME NEW n \in {"default", "isolated"}
      PROVE  /\ s(n) \in StoreSessions /\ s(n).exists = storeSession[n].exists
             /\ s(n).context = storeSession[n].context /\ s(n).tab = storeSession[n].tab
             /\ ~storeSession[n].exists => s(n) = storeSession[n]
  <2>1. storeSession[n] \in StoreSessions
    BY <1>1 DEF StoreTypes
  <2>2. s(n) \in StoreSessions /\ s(n).exists = storeSession[n].exists
        /\ s(n).context = storeSession[n].context /\ s(n).tab = storeSession[n].tab
    BY <2>1 DEF StoreSessions
  <2>3. ~storeSession[n].exists => ~storeSession[n].connected
    BY <1>1 DEF StoreSessionsHold, Storage!NoSession
  <2>4. ~storeSession[n].connected => s(n) = storeSession[n]
    BY <2>1 DEF StoreSessions
  <2> QED BY <2>2, <2>3, <2>4
<1> HIDE DEF s
<1>4. storeSession' \in [{"default", "isolated"} -> StoreSessions]
  BY <1>2, <1>3
<1>5. \A n \in {"default", "isolated"} : storeSession'[n] = s(n)
  BY <1>2
<1>6. "default" \in alive' /\ alive' \subseteq alive
  BY <1>1, <1>2 DEF StoreSessionsHold
<1> QED BY <1>2, <1>3, <1>4, <1>5, <1>6, StoreMarks

(* ... and a session is bound again.                                       *)
LEMMA StoreReconnect ==
  ASSUME HandlerStorageInvariant, NEW n \in Storage!Sessions, Storage!Reconnect(n)
  PROVE  HandlerStorageInvariant'
<1> DEFINE s == [storeSession[n] EXCEPT !.connected = TRUE]
<1>1. StoreTypes /\ StoreSessionsHold /\ n \in {"default", "isolated"} /\ storeSession[n] \in StoreSessions
  BY DEF HandlerStorageInvariant, StoreTypes, Storage!Sessions
<1>2. /\ UNCHANGED <<storeWant, storePc, storeAnswer, found, entries, touched, disturbed>>
      /\ storeConnection' \in {None, 1, 2} /\ storeSession[n].exists
  BY DEF Storage!Reconnect
<1>3. CASE storeSession[n].context \in alive
  <2>1. storeSession' = [storeSession EXCEPT ![n].connected = TRUE] /\ alive' = alive /\ jar' = jar
    BY <1>3 DEF Storage!Reconnect
  <2>2. storeSession' = [storeSession EXCEPT ![n] = s]
    BY <1>1, <2>1 DEF StoreTypes
  <2>3. s \in StoreSessions /\ s.exists = storeSession[n].exists /\ s.context = storeSession[n].context
        /\ s.tab = storeSession[n].tab
    BY <1>1 DEF StoreSessions
  <2> HIDE DEF s
  <2>4. storeSession' \in [{"default", "isolated"} -> StoreSessions]
    BY <1>1, <2>2, <2>3 DEF StoreTypes
  <2>5. \A m \in {"default", "isolated"} : storeSession'[m] = IF m = n THEN s ELSE storeSession[m]
    BY <1>1, <2>2 DEF StoreTypes
  <2>6. "default" \in alive' /\ alive' \subseteq alive
    BY <1>1, <2>1 DEF StoreSessionsHold
  <2> QED BY <1>2, <2>1, <2>3, <2>4, <2>5, <2>6, StoreMarks
<1>4. CASE storeSession[n].context \notin alive
  <2>1. n = "isolated"
    BY <1>1, <1>4 DEF StoreSessionsHold
  <2>2. PICK c \in Storage!Unused :
          /\ storeSession' = [storeSession EXCEPT ![n] =
               [exists |-> TRUE, connected |-> TRUE, context |-> c, tab |-> None]]
          /\ alive' = alive \cup {c} /\ jar' = [jar EXCEPT ![c] = {}]
    BY <1>4 DEF Storage!Reconnect
  <2> QED BY <1>2, <1>4, <2>1, <2>2, StoreOpens
<1> QED BY <1>3, <1>4

(* Every step keeps the invariant,                                         *)
LEMMA HandlerStorageNext ==
  ASSUME HandlerStorageInvariant, [Storage!Next]_(Storage!dsVars)
  PROVE  HandlerStorageInvariant'
<1>1. CASE UNCHANGED Storage!dsVars
  BY <1>1 DEF Storage!dsVars, HandlerStorageInvariant, StoreTypes, StoreSessionsHold, StoreRequestAt,
    StoreFinds, StoreTouches, StoreImports, OfSession, Used
<1>2. CASE Storage!Next
  <2>1. ASSUME NEW r \in StoreRequests,
               \/ Storage!Begin(r) \/ Storage!FindTab(r) \/ Storage!ReadSession(r)
               \/ Storage!FindBrowser(r) \/ Storage!FindScope(r) \/ Storage!Fails(r)
        PROVE  HandlerStorageInvariant'
    BY <2>1, StoreFinding
  <2>2. ASSUME NEW r \in StoreRequests,
               \/ Storage!Cookies(r) \/ Storage!InTab(r) \/ Storage!Export(r)
               \/ Storage!ImportClears(r) \/ Storage!ImportSets(r) \/ Storage!ImportLocal(r)
        PROVE  HandlerStorageInvariant'
    BY <2>2, StoreCookies, StoreInTab, StoreExport, StoreImportClears, StoreImportSets, StoreImportLocal
  <2>3. CASE Storage!CloseSession \/ Storage!OpenSession \/ Storage!Lose
    BY <2>3, StoreCloseSession, StoreOpenSession, StoreLose
  <2>4. ASSUME NEW c \in Contexts, Storage!PageSets(c) PROVE HandlerStorageInvariant'
    BY <2>4, StorePageSets
  <2>5. ASSUME NEW n \in Storage!Sessions, Storage!OpenTab(n) \/ Storage!Reconnect(n)
        PROVE  HandlerStorageInvariant'
    BY <2>5, StoreOpenTab, StoreReconnect
  <2> QED BY <1>2, <2>1, <2>2, <2>3, <2>4, <2>5 DEF Storage!Next
<1> QED BY <1>1, <1>2

(* Storage's count of a set is the library's.                              *)
LEMMA StoreCounts == ASSUME NEW S PROVE Storage!Cardinality(S) = Cardinality(S)
BY DEF Storage!Cardinality, Cardinality

(* ... and with it the commands keep to their session.                     *)
LEMMA HandlerStorageIsSound ==
  ASSUME HandlerStorageInvariant PROVE Storage!StorageCommandsAreSound
<1>1. Storage!KeepsToItsSession
  <2>1. ASSUME NEW r \in StoreRequests
        PROVE  /\ ("default" \in touched[r]) => storeWant[r].session = "default"
               /\ storeWant[r].session = "default" => touched[r] \subseteq {"default"}
               /\ storeAnswer[r] = "ok" => Storage!Cardinality(touched[r]) = 1
    <3>1. StoreTouches(r)
      BY DEF HandlerStorageInvariant, StoreRequestAt
    <3>2. \A c \in Contexts : Storage!Cardinality({c}) = 1
      BY FS_Singleton, StoreCounts
    <3>3. storeAnswer[r] = "ok" => Storage!Cardinality(touched[r]) = 1
      BY <3>1, <3>2 DEF StoreTouches
    <3> QED BY <3>1, <3>3 DEF StoreTouches, OfSession
  <2> QED BY <2>1 DEF Storage!KeepsToItsSession
<1>2. Storage!RefusalTouchesNothing
  BY DEF HandlerStorageInvariant, StoreRequestAt, StoreTouches, StoreRefusals, Storage!RefusalTouchesNothing
<1>3. Storage!ImportIsWhole
  BY DEF HandlerStorageInvariant, StoreRequestAt, StoreImports, Storage!ImportIsWhole
<1> QED BY <1>1, <1>2, <1>3 DEF Storage!StorageCommandsAreSound

-----------------------------------------------------------------------------
(* The binding of sessions to browsers (SessionBinding), for any number of *)
(* sessions, hosts, requests, connections and restarts.                    *)

(***************************************************************************)
(* The invariant.  What is said of a session holds because the holder of   *)
(* the bind lock is the one job that may change it (Shapes: a job holds    *)
(* the lock exactly in the steps of Holds), the lifecycle lock gives a     *)
(* session to one job at a time, and a browser stays registered until its  *)
(* own disconnect or monitor removes it.                                   *)
(***************************************************************************)
Stored == {NoSession} \cup
  [state : {"connected", "disconnected"}, host : Hosts, ctx : 0 .. ctxCount]

Registered == {"monitor", "bind", "lost"}
Cleaning == {"each", "mark"}
Binds == {"available", "context", "insert"}
Holds == Binds \cup Cleaning \cup
  {"lifecycle", "disconnect", "stop", "lost", "token", "persist"}
Locked == Binds \cup {"forget", "mark"}

Jobs == [cmd : {"none", "connect", "close", "disconnect", "stop"},
         pc : Holds \cup Locked \cup Registered \cup
              {"idle", "done", "check", "get", "dial", "dialing", "close"},
         s : Names \cup {Nobody}, h : Hosts \cup {Nobody}, c : Nat,
         ctx : 0 .. ctxCount, left : SUBSET Names, locked : BOOLEAN]

DataTypes ==
  /\ made \in Nat /\ ctxCount \in Nat /\ run \in Nat
  /\ browsers \in [Hosts -> 0 .. made] /\ watchers \in [Hosts -> 0 .. made]
  /\ sessions \in [Names -> Stored] /\ file \in [Names -> Stored]
  /\ bindLock \in Actors \cup {Nobody} /\ dialLock \in Requests \cup {Nobody}
  /\ signal \in BOOLEAN /\ stale \in BOOLEAN
  /\ writer \in [pc : {"waiting", "reading"}, read : SUBSET Names, image : [Names -> Stored]]
  /\ contexts \subseteq [id : 1 .. ctxCount, s : Names, h : Hosts, known : BOOLEAN]

BindingTypes == DataTypes /\ job \in [Actors -> Jobs]

\* What a job may be doing.
Shape(a) ==
  LET j == job[a] IN
  /\ j.cmd = "connect" => /\ j.pc \in Binds \cup {"check", "get", "dial", "dialing", "bind", "lifecycle"}
                          /\ j.s \in Names /\ j.h \in Hosts
  /\ j.cmd = "close" => j.pc \in {"close", "forget"} /\ j.s \in Named
  /\ j.cmd = "disconnect" => j.pc \in Cleaning \cup {"bind", "disconnect"} /\ j.h \in Hosts
  /\ j.cmd = "stop" => j.pc \in Cleaning \cup {"bind", "stop", "persist"}
  /\ j.cmd = "none" => \/ j.pc \in {"idle", "done"}
                       \/ /\ a \in Conns /\ j.h \in Hosts
                          /\ j.pc \in Registered \cup Cleaning \cup {"token"}
  /\ a \in Conns => j.cmd = "none"
  /\ j.pc = "mark" => j.s \in Names
  /\ j.left # {} => j.pc \in Cleaning
  /\ j.locked <=> j.pc \in Locked
  /\ bindLock = a <=> j.pc \in Holds

LocksExclude ==
  \A a, b \in Actors : job[a].locked /\ job[b].locked /\ job[a].s = job[b].s => a = b

\* A registered connection is watched; a connection not yet made has no job.
IsWatched ==
  /\ \A h \in Hosts : LET c == browsers[h] IN
       c # 0 => c \in Conns /\ job[c].pc \in Registered /\ job[c].h = h
  /\ \A c \in Conns : c > made => job[c].pc = "idle"

\* Does the holder a clean up the session?
Covered(a, s) == job[a].cmd = "stop" \/ sessions[s].host = job[a].h

Listed == \A a \in Actors, s \in Names :
  job[a].pc \in Cleaning /\ sessions[s].state = "connected" /\ Covered(a, s) => s \in job[a].left

LeftIsCovered == \A a \in Actors, s \in Names :
  s \in job[a].left => sessions[s].state = "none" \/ Covered(a, s)

HostKept == \A a \in Actors :
  job[a].pc \in Binds \/ (job[a].pc \in Cleaning /\ job[a].cmd = "disconnect") =>
    browsers[job[a].h] # 0

Bound == \A s \in Names : sessions[s].state = "connected" =>
  WillMark(s) \/ browsers[sessions[s].host] # 0

\* x is the context of its session, or will be.
Has(s, x) == sessions[s].state # "none" /\ sessions[s].ctx = x.id /\ sessions[s].host = x.h
WillInsert(a, x) == job[a].pc = "insert" /\ job[a].s = x.s /\ job[a].ctx = x.id /\ job[a].h = x.h
Owned(x) == Has(x.s, x) \/ \E a \in Actors : WillInsert(a, x)

OneId == \A x, y \in contexts : x.id = y.id => x = y

KnownOwned == \A x \in contexts : x.s # Default /\ (x.known => Owned(x))

Reusable(a) ==
  LET j == job[a]  s == sessions[j.s] IN
  /\ j.pc = "available" => s.state # "none" /\ s.host = j.h /\ s.ctx = j.ctx
  /\ j.pc \in {"available", "context"} => j.s # Default

Rival(a, x) ==
  LET j == job[a] IN
  x.s = j.s => /\ j.pc = "context" /\ x.h = j.h /\ x.known => ~Open(j.c)
               /\ j.pc = "insert" /\ x.h = j.h /\ x.known => x.id = j.ctx
               /\ j.pc = "forget" => x.id # sessions[j.s].ctx

NoRivals == \A a \in Actors : Reusable(a) /\ \A x \in contexts : Rival(a, x)

FirstRunLimit == run = 0 => Cardinality(Isolateds) <= MaxSessions
Room == \A a \in Actors :
  job[a].pc \in {"context", "insert"} /\ job[a].s \in Named /\ sessions[job[a].s].state = "none" =>
    Cardinality(Isolateds) < MaxSessions

KeptOf(r) == <<r.state = "none", r.host, r.ctx>>

DiskFollows ==
  ~signal =>
    IF writer.pc = "reading" THEN \A s \in writer.read : KeptOf(writer.image[s]) = KeptOf(sessions[s])
    ELSE stale \/ \A s \in Names : KeptOf(file[s]) = KeptOf(sessions[s])

Shapes == \A a \in Actors : Shape(a)

BindingInv ==
  /\ BindingTypes /\ Shapes
  /\ LocksExclude /\ IsWatched
  /\ Listed /\ LeftIsCovered /\ HostKept /\ Bound
  /\ OneId /\ KnownOwned /\ NoRivals
  /\ FirstRunLimit /\ Room /\ DiskFollows

-----------------------------------------------------------------------------
(***************************************************************************)
(* Step by step                                                            *)
(***************************************************************************)
(* Taking a context from those that are known.                              *)
LEMMA Forgotten == ASSUME NEW I, NEW S, NEW H, NEW x \in [id : I, s : S, h : H, known : BOOLEAN]
                   PROVE [x EXCEPT !.known = FALSE] \in [id : I, s : S, h : H, known : BOOLEAN]
OBVIOUS

(* The types and what a job may be doing, action by action.              *)
LEMMA CheckTypes ==
  ASSUME BindingTypes, Shapes, NEW a \in Actors, Check(a)
  PROVE  BindingTypes' /\ Shapes'
<1> USE DEF BindingTypes, DataTypes, Jobs, Holds, Locked, Binds, Cleaning, Registered,
            Shapes, Shape, Actors, Names, memory, locks, disk, outside, Stored,
            NoSession, NoImage, Writer, Disconnected
<1>1. DataTypes'
  BY BindingAssumption DEF Check, Watch, Done, To, In
<1>2. job' \in [Actors -> Jobs']
  <2>1. Over \in Jobs'
    BY <1>1 DEF Over, Job
  <2> QED BY SMTT(60), <2>1, BindingAssumption DEF Check, Watch, Done, To, In
<1>3. Shapes'
  BY SMTT(60), BindingAssumption DEF Check, Watch, Done, To, In, Over, Job
<1> QED BY <1>1, <1>2, <1>3

LEMMA GetTypes ==
  ASSUME BindingTypes, Shapes, NEW a \in Actors, Get(a)
  PROVE  BindingTypes' /\ Shapes'
<1>1. DataTypes'
  BY BindingAssumption
     DEF Get, Reuse, Watch, To, In, BindingTypes, DataTypes, Jobs, Holds, Locked, Binds,
         Cleaning, Registered, Shapes, Shape, Actors, Names, memory, locks, disk,
         outside, Stored, NoSession, NoImage, Writer, Disconnected
<1>2. job' \in [Actors -> Jobs']
  BY SMTT(60), BindingAssumption
     DEF Get, Reuse, Watch, To, In, BindingTypes, DataTypes, Jobs, Holds, Locked, Binds,
         Cleaning, Registered, Shapes, Shape, Actors, Names, memory, locks, disk,
         outside, Stored, NoSession, NoImage, Writer, Disconnected
<1>3. Shapes'
  <2>1. CASE Reuse(a)
    BY <2>1, BindingAssumption
       DEF Get, Reuse, In, BindingTypes, DataTypes, Jobs, Holds, Locked, Binds,
           Cleaning, Registered, Shapes, Shape, Actors, Names, memory, locks, disk,
           outside
  <2>2. CASE To(a, "dial") /\ bindLock' = bindLock
    BY <2>2, BindingAssumption
       DEF Get, To, In, BindingTypes, DataTypes, Jobs, Holds, Locked, Binds, Cleaning,
           Registered, Shapes, Shape, Actors, Names, memory, locks, disk, outside
  <2> QED BY SMTT(60), <2>1, <2>2 DEF Get, memory, locks, disk, outside
<1> QED BY <1>1, <1>2, <1>3 DEF BindingTypes

LEMMA TakeDialTypes ==
  ASSUME BindingTypes, Shapes, NEW a \in Actors, TakeDial(a)
  PROVE  BindingTypes' /\ Shapes'
<1> USE DEF BindingTypes, DataTypes, Jobs, Holds, Locked, Binds, Cleaning, Registered,
            Shapes, Shape, Actors, Names, memory, locks, disk, outside, Stored,
            NoSession, NoImage, Writer, Disconnected
<1>1. DataTypes'
  BY BindingAssumption DEF TakeDial, Reuse, Watch, To, In
<1>2. job' \in [Actors -> Jobs']
  BY BindingAssumption DEF TakeDial, Reuse, Watch, To, In
<1>3. Shapes'
  BY SMTT(60), BindingAssumption DEF TakeDial, Reuse, Watch, To, In
<1> QED BY <1>1, <1>2, <1>3

LEMMA DialTypes ==
  ASSUME BindingTypes, Shapes, NEW a \in Actors, Dial(a)
  PROVE  BindingTypes' /\ Shapes'
<1>1. DataTypes'
  BY BindingAssumption
     DEF Dial, Watch, Done, In, BindingTypes, DataTypes, Jobs, Holds, Locked, Binds,
         Cleaning, Registered, Shapes, Shape, Actors, Names, memory, locks, disk,
         outside, Stored, NoSession, NoImage, Writer, Disconnected
<1>2. job' \in [Actors -> Jobs']
  <2> DEFINE n == made + 1
             h == job[a].h
  <2>1. CASE Done(a)
    BY <2>1, <1>1, BindingAssumption
       DEF Dial, Done, Over, Job, In, BindingTypes, DataTypes, Jobs, Holds, Locked,
           Binds, Cleaning, Registered, Shapes, Shape, Actors, Names, memory, locks,
           disk, outside
  <2>2. CASE ~Done(a)
    <3>1. job' = [job EXCEPT ![a].c = n, ![a].pc = "bind", ![n] = Job("none", "monitor", Nobody, h)]
      BY <2>2 DEF Dial
    <3>2. n \in Conns /\ n \in Actors /\ n # a /\ h \in Hosts /\ job[a].cmd = "connect" /\ n \in Nat
      BY <2>2, BindingAssumption
         DEF Dial, In, BindingTypes, DataTypes, Jobs, Holds, Locked, Binds, Cleaning,
             Registered, Shapes, Shape, Actors, Names, memory, locks, disk, outside
    <3> HIDE DEF n, h
    <3> QED BY <3>1, <3>2, <2>2, <1>1, BindingAssumption
               DEF Dial, Job, In, BindingTypes, DataTypes, Jobs, Holds, Locked, Binds,
                   Cleaning, Registered, Shapes, Shape, Actors, Names, memory, locks,
                   disk, outside
  <2> QED BY <2>1, <2>2
<1>3. Shapes'
  <2> DEFINE n == made + 1
             h == job[a].h
  <2>1. CASE Done(a)
    BY <2>1, <1>1, BindingAssumption
       DEF Dial, Done, Over, Job, In, BindingTypes, DataTypes, Jobs, Holds, Locked,
           Binds, Cleaning, Registered, Shapes, Shape, Actors, Names, memory, locks,
           disk, outside
  <2>2. CASE ~Done(a)
    <3>1. job' = [job EXCEPT ![a].c = n, ![a].pc = "bind", ![n] = Job("none", "monitor", Nobody, h)]
      BY <2>2 DEF Dial
    <3>2. n \in Conns /\ n \in Actors /\ n # a /\ h \in Hosts /\ job[a].cmd = "connect" /\ n \in Nat
      BY <2>2, BindingAssumption
         DEF Dial, In, BindingTypes, DataTypes, Jobs, Holds, Locked, Binds, Cleaning,
             Registered, Shapes, Shape, Actors, Names, memory, locks, disk, outside
    <3> HIDE DEF n, h
    <3> QED BY <3>1, <3>2, <2>2, <1>1, BindingAssumption
               DEF Dial, Job, In, BindingTypes, DataTypes, Jobs, Holds, Locked, Binds,
                   Cleaning, Registered, Shapes, Shape, Actors, Names, memory, locks,
                   disk, outside
  <2> QED BY <2>1, <2>2
<1> QED BY <1>1, <1>2, <1>3 DEF BindingTypes

LEMMA TakeBindTypes ==
  ASSUME BindingTypes, Shapes, NEW a \in Actors, TakeBind(a)
  PROVE  BindingTypes' /\ Shapes'
<1> USE DEF BindingTypes, DataTypes, Jobs, Holds, Locked, Binds, Cleaning, Registered,
            Shapes, Shape, Actors, Names, memory, locks, disk, outside, Stored,
            NoSession, NoImage, Writer, Disconnected
<1>1. DataTypes'
  BY BindingAssumption DEF TakeBind, To, In, NextAfterBind
<1>2. job' \in [Actors -> Jobs']
  BY BindingAssumption DEF TakeBind, To, In, NextAfterBind
<1>3. Shapes'
  BY BindingAssumption DEF TakeBind, To, In, NextAfterBind
<1> QED BY <1>1, <1>2, <1>3

LEMMA LifecycleTypes ==
  ASSUME BindingTypes, Shapes, NEW a \in Actors, Lifecycle(a)
  PROVE  BindingTypes' /\ Shapes'
<1> USE DEF BindingTypes, DataTypes, Jobs, Holds, Locked, Binds, Cleaning, Registered,
            Shapes, Shape, Actors, Names, memory, locks, disk, outside, Stored,
            NoSession, NoImage, Writer, Disconnected
<1>1. DataTypes'
  BY ZenonT(60), BindingAssumption DEF Lifecycle, Unbind, Done, In, Valid
<1>2. job' \in [Actors -> Jobs']
  <2>1. Over \in Jobs'
    BY <1>1 DEF Over, Job
  <2> QED BY <2>1, BindingAssumption DEF Lifecycle, Unbind, Done, In, Valid
<1>3. Shapes'
  BY SMTT(60), BindingAssumption DEF Lifecycle, Unbind, Done, In, Valid, Over, Job
<1> QED BY <1>1, <1>2, <1>3

LEMMA AvailableTypes ==
  ASSUME BindingTypes, Shapes, NEW a \in Actors, Available(a)
  PROVE  BindingTypes' /\ Shapes'
<1> USE DEF BindingTypes, DataTypes, Jobs, Holds, Locked, Binds, Cleaning, Registered,
            Shapes, Shape, Actors, Names, memory, locks, disk, outside, Stored,
            NoSession, NoImage, Writer, Disconnected
<1>1. DataTypes'
  BY BindingAssumption DEF Available, To, In
<1>2. job' \in [Actors -> Jobs']
  BY BindingAssumption DEF Available, To, In
<1>3. Shapes'
  BY BindingAssumption DEF Available, To, In
<1> QED BY <1>1, <1>2, <1>3

LEMMA CreateContextTypes ==
  ASSUME BindingTypes, Shapes, NEW a \in Actors, CreateContext(a)
  PROVE  BindingTypes' /\ Shapes'
<1> USE DEF BindingTypes, DataTypes, Jobs, Holds, Locked, Binds, Cleaning, Registered,
            Shapes, Shape, Actors, Names, memory, locks, disk, outside, Stored,
            NoSession, NoImage, Writer, Disconnected
<1>1. DataTypes'
  BY BindingAssumption DEF CreateContext, Unbind, Done, In
<1>2. job' \in [Actors -> Jobs']
  <2>1. Over \in Jobs'
    BY <1>1 DEF Over, Job
  <2> QED BY <2>1, BindingAssumption DEF CreateContext, Unbind, Done, In
<1>3. Shapes'
  BY BindingAssumption DEF CreateContext, Unbind, Done, In, Over, Job
<1> QED BY <1>1, <1>2, <1>3

LEMMA InsertSessionTypes ==
  ASSUME BindingTypes, Shapes, NEW a \in Actors, InsertSession(a)
  PROVE  BindingTypes' /\ Shapes'
<1>1. DataTypes'
  <2> DEFINE r == [state |-> "connected", host |-> job[a].h, ctx |-> job[a].ctx]
  <2>1. contexts' \subseteq [id : 1 .. ctxCount, s : Names, h : Hosts, known : BOOLEAN]
    BY Forgotten DEF InsertSession, BindingTypes, DataTypes
  <2>2. job[a].s \in Names /\ job[a].h \in Hosts /\ job[a].ctx \in 0 .. ctxCount
    BY DEF InsertSession, In, BindingTypes, DataTypes, Jobs, Holds, Locked, Binds,
           Cleaning, Registered, Shapes, Shape, Actors, Names, memory, locks, disk,
           outside
  <2>3. r \in Stored
    BY <2>2 DEF Stored
  <2>4. sessions' = [sessions EXCEPT ![job[a].s] = r]
    BY DEF InsertSession
  <2> HIDE DEF r
  <2>5. sessions' \in [Names -> Stored]
    BY <2>2, <2>3, <2>4 DEF BindingTypes, DataTypes
  <2>6. /\ bindLock' = (IF bindLock = a THEN Nobody ELSE bindLock) /\ signal' = TRUE
        /\ UNCHANGED <<browsers, watchers, dialLock, writer, file, stale, made, closed, ctxCount, run>>
    BY DEF InsertSession, Unbind
  <2> QED BY <2>1, <2>5, <2>6 DEF BindingTypes, DataTypes, Stored
<1>2. job' \in [Actors -> Jobs']
  <2>1. Over \in Jobs'
    BY <1>1 DEF Over, Job, Jobs, DataTypes
  <2> QED BY <2>1, BindingAssumption
             DEF InsertSession, Unbind, Done, In, BindingTypes, DataTypes, Jobs, Holds,
                 Locked, Binds, Cleaning, Registered, Shapes, Shape, Actors, Names,
                 memory, locks, disk, outside, Stored, NoSession, NoImage, Writer,
                 Disconnected
<1>3. Shapes'
  BY BindingAssumption
     DEF InsertSession, Unbind, Done, In, Over, Job, BindingTypes, DataTypes, Jobs,
         Holds, Locked, Binds, Cleaning, Registered, Shapes, Shape, Actors, Names,
         memory, locks, disk, outside, Stored, NoSession, NoImage, Writer, Disconnected
<1> QED BY <1>1, <1>2, <1>3 DEF BindingTypes

LEMMA CloseSessionTypes ==
  ASSUME BindingTypes, Shapes, NEW a \in Actors, CloseSession(a)
  PROVE  BindingTypes' /\ Shapes'
<1> USE DEF BindingTypes, DataTypes, Jobs, Holds, Locked, Binds, Cleaning, Registered,
            Shapes, Shape, Actors, Names, memory, locks, disk, outside, Stored,
            NoSession, NoImage, Writer, Disconnected
<1>1. DataTypes'
  BY BindingAssumption DEF CloseSession, Done, In
<1>2. job' \in [Actors -> Jobs']
  <2>1. Over \in Jobs'
    BY <1>1 DEF Over, Job
  <2> QED BY SMTT(60), <2>1, BindingAssumption DEF CloseSession, Done, In
<1>3. Shapes'
  BY SMTT(60), BindingAssumption DEF CloseSession, Done, In, Over, Job
<1> QED BY <1>1, <1>2, <1>3

LEMMA ForgetSessionTypes ==
  ASSUME BindingTypes, Shapes, NEW a \in Actors, ForgetSession(a)
  PROVE  BindingTypes' /\ Shapes'
<1> USE DEF BindingTypes, DataTypes, Jobs, Holds, Locked, Binds, Cleaning, Registered,
            Shapes, Shape, Actors, Names, memory, locks, disk, outside, Stored,
            NoSession, NoImage, Writer, Disconnected
<1>1. DataTypes'
  BY BindingAssumption DEF ForgetSession, Done, In
<1>2. job' \in [Actors -> Jobs']
  <2>1. Over \in Jobs'
    BY <1>1 DEF Over, Job
  <2> QED BY <2>1, BindingAssumption DEF ForgetSession, Done, In
<1>3. Shapes'
  BY BindingAssumption DEF ForgetSession, Done, In, Over, Job
<1> QED BY <1>1, <1>2, <1>3

LEMMA DisconnectTypes ==
  ASSUME BindingTypes, Shapes, NEW a \in Actors, Disconnect(a)
  PROVE  BindingTypes' /\ Shapes'
<1> USE DEF BindingTypes, DataTypes, Jobs, Holds, Locked, Binds, Cleaning, Registered,
            Shapes, Shape, Actors, Names, memory, locks, disk, outside, Stored,
            NoSession, NoImage, Writer, Disconnected
<1>1. DataTypes'
  BY BindingAssumption DEF Disconnect, Unbind, Done, In, ListedOn
<1>2. job' \in [Actors -> Jobs']
  <2>1. Over \in Jobs'
    BY <1>1 DEF Over, Job
  <2> QED BY <2>1, BindingAssumption DEF Disconnect, Unbind, Done, In, ListedOn
<1>3. Shapes'
  BY BindingAssumption DEF Disconnect, Unbind, Done, In, ListedOn, Over, Job
<1> QED BY <1>1, <1>2, <1>3

LEMMA StopTypes ==
  ASSUME BindingTypes, Shapes, NEW a \in Actors, Stop(a)
  PROVE  BindingTypes' /\ Shapes'
<1> USE DEF BindingTypes, DataTypes, Jobs, Holds, Locked, Binds, Cleaning, Registered,
            Shapes, Shape, Actors, Names, memory, locks, disk, outside, Stored,
            NoSession, NoImage, Writer, Disconnected
<1>1. DataTypes'
  BY BindingAssumption DEF Stop, In
<1>2. job' \in [Actors -> Jobs']
  BY SMTT(60), BindingAssumption DEF Stop, In
<1>3. Shapes'
  BY BindingAssumption DEF Stop, In
<1> QED BY <1>1, <1>2, <1>3

LEMMA CleanUpTypes ==
  ASSUME BindingTypes, Shapes, NEW a \in Actors, CleanUp(a)
  PROVE  BindingTypes' /\ Shapes'
<1> USE DEF BindingTypes, DataTypes, Jobs, Holds, Locked, Binds, Cleaning, Registered,
            Shapes, Shape, Actors, Names, memory, locks, disk, outside, Stored,
            NoSession, NoImage, Writer, Disconnected
<1>1. DataTypes'
  BY BindingAssumption DEF CleanUp, In, Wanted
<1>2. job' \in [Actors -> Jobs']
  BY BindingAssumption DEF CleanUp, In, Wanted
<1>3. Shapes'
  BY BindingAssumption DEF CleanUp, In, Wanted
<1> QED BY <1>1, <1>2, <1>3

LEMMA MarkTypes ==
  ASSUME BindingTypes, Shapes, NEW a \in Actors, Mark(a)
  PROVE  BindingTypes' /\ Shapes'
<1>1. DataTypes'
  BY SMTT(60), BindingAssumption
     DEF Mark, In, BindingTypes, DataTypes, Jobs, Holds, Locked, Binds, Cleaning,
         Registered, Shapes, Shape, Actors, Names, memory, locks, disk, outside, Stored,
         NoSession, NoImage, Writer, Disconnected
<1>2. job' \in [Actors -> Jobs']
  BY BindingAssumption
     DEF Mark, In, BindingTypes, DataTypes, Jobs, Holds, Locked, Binds, Cleaning,
         Registered, Shapes, Shape, Actors, Names, memory, locks, disk, outside, Stored,
         NoSession, NoImage, Writer, Disconnected
<1>3. Shapes'
  <2>1. job'[a].pc = "each" /\ job'[a].locked = FALSE /\ job'[a].cmd = job[a].cmd /\ job'[a].h = job[a].h
    BY DEF Mark, In, BindingTypes, Jobs
  <2>2. \A b \in Actors \ {a} : job'[b] = job[b]
    BY DEF Mark, BindingTypes
  <2>3. bindLock' = bindLock /\ In(a, "mark")
    BY DEF Mark, locks
  <2> QED BY <2>1, <2>2, <2>3
             DEF In, BindingTypes, DataTypes, Jobs, Holds, Locked, Binds, Cleaning,
                 Registered, Shapes, Shape, Actors, Names, memory, locks, disk, outside
<1> QED BY <1>1, <1>2, <1>3 DEF BindingTypes

LEMMA EndDisconnectTypes ==
  ASSUME BindingTypes, Shapes, NEW a \in Actors, EndDisconnect(a)
  PROVE  BindingTypes' /\ Shapes'
<1> USE DEF BindingTypes, DataTypes, Jobs, Holds, Locked, Binds, Cleaning, Registered,
            Shapes, Shape, Actors, Names, memory, locks, disk, outside, Stored,
            NoSession, NoImage, Writer, Disconnected
<1>1. DataTypes'
  BY BindingAssumption DEF EndDisconnect, Unbind, Done, In
<1>2. job' \in [Actors -> Jobs']
  <2>1. Over \in Jobs'
    BY <1>1 DEF Over, Job
  <2> QED BY <2>1, BindingAssumption DEF EndDisconnect, Unbind, Done, In
<1>3. Shapes'
  BY BindingAssumption DEF EndDisconnect, Unbind, Done, In, Over, Job
<1> QED BY <1>1, <1>2, <1>3

LEMMA EndStopTypes ==
  ASSUME BindingTypes, Shapes, NEW a \in Actors, EndStop(a)
  PROVE  BindingTypes' /\ Shapes'
<1> USE DEF BindingTypes, DataTypes, Jobs, Holds, Locked, Binds, Cleaning, Registered,
            Shapes, Shape, Actors, Names, memory, locks, disk, outside, Stored,
            NoSession, NoImage, Writer, Disconnected
<1>1. DataTypes'
  BY BindingAssumption DEF EndStop, To, In
<1>2. job' \in [Actors -> Jobs']
  BY SMTT(60), BindingAssumption DEF EndStop, To, In
<1>3. Shapes'
  BY BindingAssumption DEF EndStop, To, In
<1> QED BY <1>1, <1>2, <1>3

LEMMA PersistNowTypes ==
  ASSUME BindingTypes, Shapes, NEW a \in Actors, PersistNow(a)
  PROVE  BindingTypes' /\ Shapes'
<1> USE DEF BindingTypes, DataTypes, Jobs, Holds, Locked, Binds, Cleaning, Registered,
            Shapes, Shape, Actors, Names, memory, locks, disk, outside, Stored,
            NoSession, NoImage, Writer, Disconnected
<1>1. DataTypes'
  BY BindingAssumption DEF PersistNow, Unbind, Done, In, Image
<1>2. job' \in [Actors -> Jobs']
  <2>1. Over \in Jobs'
    BY <1>1 DEF Over, Job
  <2> QED BY <2>1, BindingAssumption DEF PersistNow, Unbind, Done, In, Image
<1>3. Shapes'
  BY BindingAssumption DEF PersistNow, Unbind, Done, In, Image, Over, Job
<1> QED BY <1>1, <1>2, <1>3

LEMMA NoticeTypes ==
  ASSUME BindingTypes, Shapes, NEW a \in Actors, Notice(a)
  PROVE  BindingTypes' /\ Shapes'
<1> USE DEF BindingTypes, DataTypes, Jobs, Holds, Locked, Binds, Cleaning, Registered,
            Shapes, Shape, Actors, Names, memory, locks, disk, outside, Stored,
            NoSession, NoImage, Writer, Disconnected
<1>1. DataTypes'
  BY BindingAssumption DEF Notice, To, In
<1>2. job' \in [Actors -> Jobs']
  BY BindingAssumption DEF Notice, To, In
<1>3. Shapes'
  BY BindingAssumption DEF Notice, To, In
<1> QED BY <1>1, <1>2, <1>3

LEMMA LostTypes ==
  ASSUME BindingTypes, Shapes, NEW a \in Actors, Lost(a)
  PROVE  BindingTypes' /\ Shapes'
<1> USE DEF BindingTypes, DataTypes, Jobs, Holds, Locked, Binds, Cleaning, Registered,
            Shapes, Shape, Actors, Names, memory, locks, disk, outside, Stored,
            NoSession, NoImage, Writer, Disconnected
<1>1. DataTypes'
  BY BindingAssumption DEF Lost, Unbind, Done, To, In
<1>2. job' \in [Actors -> Jobs']
  <2>1. Over \in Jobs'
    BY <1>1 DEF Over, Job
  <2> QED BY SMTT(60), <2>1, BindingAssumption DEF Lost, Unbind, Done, To, In
<1>3. Shapes'
  BY SMTT(60), BindingAssumption DEF Lost, Unbind, Done, To, In, Over, Job
<1> QED BY <1>1, <1>2, <1>3

LEMMA CancelTokenTypes ==
  ASSUME BindingTypes, Shapes, NEW a \in Actors, CancelToken(a)
  PROVE  BindingTypes' /\ Shapes'
<1> USE DEF BindingTypes, DataTypes, Jobs, Holds, Locked, Binds, Cleaning, Registered,
            Shapes, Shape, Actors, Names, memory, locks, disk, outside, Stored,
            NoSession, NoImage, Writer, Disconnected
<1>1. DataTypes'
  BY BindingAssumption DEF CancelToken, In, ListedOn
<1>2. job' \in [Actors -> Jobs']
  BY SMTT(60), BindingAssumption DEF CancelToken, In, ListedOn
<1>3. Shapes'
  BY SMTT(60), BindingAssumption DEF CancelToken, In, ListedOn
<1> QED BY <1>1, <1>2, <1>3

LEMMA EndLostTypes ==
  ASSUME BindingTypes, Shapes, NEW a \in Actors, EndLost(a)
  PROVE  BindingTypes' /\ Shapes'
<1> USE DEF BindingTypes, DataTypes, Jobs, Holds, Locked, Binds, Cleaning, Registered,
            Shapes, Shape, Actors, Names, memory, locks, disk, outside, Stored,
            NoSession, NoImage, Writer, Disconnected
<1>1. DataTypes'
  BY BindingAssumption DEF EndLost, Unbind, Done, In
<1>2. job' \in [Actors -> Jobs']
  <2>1. Over \in Jobs'
    BY <1>1 DEF Over, Job
  <2> QED BY <2>1, BindingAssumption DEF EndLost, Unbind, Done, In
<1>3. Shapes'
  BY BindingAssumption DEF EndLost, Unbind, Done, In, Over, Job
<1> QED BY <1>1, <1>2, <1>3

LEMMA AskTypes ==
  ASSUME BindingTypes, Shapes, NEW a \in Actors, Ask(a)
  PROVE  BindingTypes' /\ Shapes'
<1>1. DataTypes'
  BY BindingAssumption
     DEF Ask, In, BindingTypes, DataTypes, Jobs, Holds, Locked, Binds, Cleaning,
         Registered, Shapes, Shape, Actors, Names, memory, locks, disk, outside, Stored,
         NoSession, NoImage, Writer, Disconnected
<1>2. job' \in [Actors -> Jobs']
  <2>1. CASE \E s \in Names, h \in Hosts :
               job' = [job EXCEPT ![a] = Job("connect", "check", s, h)]
    BY <2>1, BindingAssumption
       DEF Ask, Job, In, BindingTypes, DataTypes, Jobs, Holds, Locked, Binds, Cleaning,
           Registered, Shapes, Shape, Actors, Names, memory, locks, disk, outside
  <2>2. CASE \E s \in Named :
               job' = [job EXCEPT ![a] = Job("close", "close", s, Nobody)]
    BY <2>2, BindingAssumption
       DEF Ask, Job, In, BindingTypes, DataTypes, Jobs, Holds, Locked, Binds, Cleaning,
           Registered, Shapes, Shape, Actors, Names, memory, locks, disk, outside
  <2>3. CASE \E h \in Hosts :
               job' = [job EXCEPT ![a] = Job("disconnect", "bind", Nobody, h)]
    BY <2>3, BindingAssumption
       DEF Ask, Job, In, BindingTypes, DataTypes, Jobs, Holds, Locked, Binds, Cleaning,
           Registered, Shapes, Shape, Actors, Names, memory, locks, disk, outside
  <2>4. CASE job' = [job EXCEPT ![a] = Job("stop", "bind", Nobody, Nobody)]
    BY <2>4, BindingAssumption
       DEF Ask, Job, In, BindingTypes, DataTypes, Jobs, Holds, Locked, Binds, Cleaning,
           Registered, Shapes, Shape, Actors, Names, memory, locks, disk, outside
  <2> QED BY <2>1, <2>2, <2>3, <2>4 DEF Ask
<1>3. Shapes'
  <2>1. CASE \E s \in Names, h \in Hosts :
               job' = [job EXCEPT ![a] = Job("connect", "check", s, h)]
    BY <2>1, BindingAssumption
       DEF Ask, Job, In, BindingTypes, DataTypes, Jobs, Holds, Locked, Binds, Cleaning,
           Registered, Shapes, Shape, Actors, Names, memory, locks, disk, outside
  <2>2. CASE \E s \in Named :
               job' = [job EXCEPT ![a] = Job("close", "close", s, Nobody)]
    BY <2>2, BindingAssumption
       DEF Ask, Job, In, BindingTypes, DataTypes, Jobs, Holds, Locked, Binds, Cleaning,
           Registered, Shapes, Shape, Actors, Names, memory, locks, disk, outside
  <2>3. CASE \E h \in Hosts :
               job' = [job EXCEPT ![a] = Job("disconnect", "bind", Nobody, h)]
    BY <2>3, BindingAssumption
       DEF Ask, Job, In, BindingTypes, DataTypes, Jobs, Holds, Locked, Binds, Cleaning,
           Registered, Shapes, Shape, Actors, Names, memory, locks, disk, outside
  <2>4. CASE job' = [job EXCEPT ![a] = Job("stop", "bind", Nobody, Nobody)]
    BY <2>4, BindingAssumption
       DEF Ask, Job, In, BindingTypes, DataTypes, Jobs, Holds, Locked, Binds, Cleaning,
           Registered, Shapes, Shape, Actors, Names, memory, locks, disk, outside
  <2> QED BY <2>1, <2>2, <2>3, <2>4 DEF Ask
<1> QED BY <1>1, <1>2, <1>3 DEF BindingTypes

LEMMA DebounceTypes ==
  ASSUME BindingTypes, Shapes, Debounce
  PROVE  BindingTypes' /\ Shapes'
<1> USE DEF BindingTypes, DataTypes, Jobs, Holds, Locked, Binds, Cleaning, Registered,
            Shapes, Shape, Actors, Names, memory, locks, disk, outside, Stored,
            NoSession, NoImage, Writer, Disconnected
<1>1. DataTypes'
  BY BindingAssumption DEF Debounce
<1>2. job' \in [Actors -> Jobs']
  BY BindingAssumption DEF Debounce
<1>3. Shapes'
  BY BindingAssumption DEF Debounce
<1> QED BY <1>1, <1>2, <1>3

LEMMA ReadOneTypes ==
  ASSUME BindingTypes, Shapes, ReadOne
  PROVE  BindingTypes' /\ Shapes'
<1>1. DataTypes'
  <2>1. PICK s \in Names \ writer.read :
          writer' = [writer EXCEPT !.read = @ \cup {s}, !.image[s] = sessions[s]]
    BY DEF ReadOne
  <2> DEFINE q == writer.read \cup {s}
             i == [writer.image EXCEPT ![s] = sessions[s]]
             W == [pc : {"waiting", "reading"}, read : SUBSET Names, image : [Names -> Stored]]
  <2>2. writer \in W /\ writer.image \in [Names -> Stored] /\ sessions[s] \in Stored /\ writer.read \subseteq Names
    BY <2>1 DEF BindingTypes, DataTypes
  <2>3. i \in [Names -> Stored] /\ q \in SUBSET Names
    BY <2>1, <2>2
  <2>4. writer' = [writer EXCEPT !.read = q, !.image = i]
    BY <2>1
  <2> HIDE DEF q, i
  <2>5. writer' \in W
    BY <2>2, <2>3, <2>4
  <2> QED BY <2>1, <2>5
             DEF ReadOne, BindingTypes, DataTypes, Stored, NoSession, Names, memory,
                 locks, disk, outside
<1>2. job' \in [Actors -> Jobs']
  BY BindingAssumption
     DEF ReadOne, BindingTypes, DataTypes, Jobs, Holds, Locked, Binds, Cleaning,
         Registered, Shapes, Shape, Actors, Names, memory, locks, disk, outside, Stored,
         NoSession, NoImage, Writer, Disconnected
<1>3. Shapes'
  BY BindingAssumption
     DEF ReadOne, BindingTypes, DataTypes, Jobs, Holds, Locked, Binds, Cleaning,
         Registered, Shapes, Shape, Actors, Names, memory, locks, disk, outside, Stored,
         NoSession, NoImage, Writer, Disconnected
<1> QED BY <1>1, <1>2, <1>3 DEF BindingTypes

LEMMA WriteTypes == ASSUME BindingTypes, Shapes, Write PROVE BindingTypes' /\ Shapes'
<1> USE DEF BindingTypes, DataTypes, Jobs, Holds, Locked, Binds, Cleaning, Registered,
            Shapes, Shape, Actors, Names, memory, locks, disk, outside, Stored,
            NoSession, NoImage, Writer, Disconnected
<1>1. DataTypes'
  BY ZenonT(60), BindingAssumption DEF Write
<1>2. job' \in [Actors -> Jobs']
  BY BindingAssumption DEF Write
<1>3. Shapes'
  BY BindingAssumption DEF Write
<1> QED BY <1>1, <1>2, <1>3

LEMMA WatcherEndsTypes ==
  ASSUME BindingTypes, Shapes, WatcherEnds
  PROVE  BindingTypes' /\ Shapes'
<1> USE DEF BindingTypes, DataTypes, Jobs, Holds, Locked, Binds, Cleaning, Registered,
            Shapes, Shape, Actors, Names, memory, locks, disk, outside, Stored,
            NoSession, NoImage, Writer, Disconnected
<1>1. DataTypes'
  BY BindingAssumption DEF WatcherEnds
<1>2. job' \in [Actors -> Jobs']
  BY BindingAssumption DEF WatcherEnds
<1>3. Shapes'
  BY BindingAssumption DEF WatcherEnds
<1> QED BY <1>1, <1>2, <1>3

LEMMA LoseTypes == ASSUME BindingTypes, Shapes, Lose PROVE BindingTypes' /\ Shapes'
<1> USE DEF BindingTypes, DataTypes, Jobs, Holds, Locked, Binds, Cleaning, Registered,
            Shapes, Shape, Actors, Names, memory, locks, disk, outside, Stored,
            NoSession, NoImage, Writer, Disconnected
<1>1. DataTypes'
  BY BindingAssumption DEF Lose
<1>2. job' \in [Actors -> Jobs']
  BY BindingAssumption DEF Lose
<1>3. Shapes'
  BY BindingAssumption DEF Lose
<1> QED BY <1>1, <1>2, <1>3

LEMMA RestartTypes ==
  ASSUME BindingTypes, Shapes, Restart
  PROVE  BindingTypes' /\ Shapes'
<1>1. DataTypes'
  <2>1. ASSUME NEW r \in Stored PROVE Disconnected(r) \in Stored
    BY DEF Disconnected, Stored, NoSession
  <2>2. sessions' \in [Names -> Stored]
    <3>1. sessions' = [s \in Names |-> Disconnected(file[s])]
      BY DEF Restart
    <3> QED BY <2>1, <3>1 DEF BindingTypes, DataTypes
  <2>3. contexts' \subseteq [id : 1 .. ctxCount, s : Names, h : Hosts, known : BOOLEAN]
    <3>1. contexts \subseteq [id : 1 .. ctxCount, s : Names, h : Hosts, known : BOOLEAN]
      BY DEF BindingTypes, DataTypes
    <3>2. contexts' = {[x EXCEPT !.known = FALSE] : x \in contexts}
      BY DEF Restart
    <3> QED BY <3>1, <3>2, Forgotten
  <2>4. NoImage \in [Names -> Stored]
    BY DEF NoImage, Stored
  <2>5. writer' \in [pc : {"waiting", "reading"}, read : SUBSET Names, image : [Names -> Stored]]
    BY <2>4 DEF Restart, Writer
  <2>6. /\ browsers' = [h \in Hosts |-> 0] /\ watchers' = [h \in Hosts |-> 0]
        /\ bindLock' = Nobody /\ dialLock' = Nobody /\ signal' = FALSE /\ run' = run + 1
        /\ UNCHANGED <<file, stale, made, ctxCount>>
    BY DEF Restart
  <2>7. Stored' = Stored /\ made \in Nat /\ ctxCount \in Nat /\ run \in Nat /\ file \in [Names -> Stored] /\ stale \in BOOLEAN
    BY <2>6 DEF BindingTypes, DataTypes, Stored
  <2>8. 0 \in 0 .. made'
    BY <2>6, <2>7
  <2>9. browsers' \in [Hosts -> 0 .. made'] /\ watchers' \in [Hosts -> 0 .. made']
    BY <2>6, <2>8
  <2>10. /\ made' \in Nat /\ ctxCount' \in Nat /\ run' \in Nat
         /\ bindLock' \in Actors \cup {Nobody} /\ dialLock' \in Requests \cup {Nobody}
    BY <2>6, <2>7
  <2>13. signal' \in BOOLEAN /\ stale' \in BOOLEAN
    <3>1. stale' = stale /\ signal' = FALSE
      BY <2>6
    <3> QED BY <2>7, <3>1
  <2>12. contexts' \subseteq [id : 1 .. ctxCount', s : Names, h : Hosts, known : BOOLEAN]
    <3>1. ctxCount' = ctxCount
      BY <2>6
    <3> QED BY <2>3, <3>1
  <2>11. /\ sessions' \in [Names -> Stored'] /\ file' \in [Names -> Stored']
         /\ writer' \in [pc : {"waiting", "reading"}, read : SUBSET Names, image : [Names -> Stored']]
    BY <2>2, <2>5, <2>6, <2>7
  <2> QED BY <2>9, <2>10, <2>11, <2>12, <2>13 DEF DataTypes
<1>2. job' \in [Actors -> Jobs']
  <2>1. Jobs' = Jobs
    BY DEF Restart, Jobs, Holds, Locked, Binds, Cleaning, Registered
  <2>2. Idle \in Jobs /\ Over \in Jobs
    BY DEF Idle, Over, Job, Jobs, DataTypes, BindingTypes
  <2> QED BY <2>1, <2>2 DEF Restart
<1>3. Shapes'
  BY BindingAssumption
     DEF Restart, In, Over, Idle, Job, BindingTypes, DataTypes, Jobs, Holds, Locked,
         Binds, Cleaning, Registered, Shapes, Shape, Actors, Names, memory, locks, disk,
         outside, Stored, NoSession, NoImage, Writer, Disconnected
<1> QED BY <1>1, <1>2, <1>3 DEF BindingTypes

(* Every step keeps the types, what a job may be doing, and who holds the   *)
(* bind lock.                                                               *)
LEMMA TypesKept == ASSUME BindingTypes, Shapes, Next PROVE BindingTypes' /\ Shapes'
BY CheckTypes, GetTypes, TakeDialTypes, DialTypes, TakeBindTypes, LifecycleTypes,
   AvailableTypes, CreateContextTypes, InsertSessionTypes, CloseSessionTypes,
   ForgetSessionTypes, DisconnectTypes, StopTypes, CleanUpTypes, MarkTypes,
   EndDisconnectTypes, EndStopTypes, PersistNowTypes, NoticeTypes, LostTypes,
   CancelTokenTypes, EndLostTypes, AskTypes, DebounceTypes, ReadOneTypes, WriteTypes,
   WatcherEndsTypes, LoseTypes, RestartTypes
   DEF Next, Progress, Step

(* What some steps do, spelled out. The bind lock is free and then held. *)
LEMMA TakeBindDoes ==
  ASSUME BindingTypes, Shapes, NEW a \in Actors, TakeBind(a)
  PROVE  /\ job[a].pc = "bind" /\ job'[a].pc = NextAfterBind(a)
         /\ job'[a].cmd = job[a].cmd /\ job'[a].s = job[a].s /\ job'[a].h = job[a].h
         /\ job'[a].c = job[a].c /\ job'[a].ctx = job[a].ctx /\ job'[a].left = job[a].left
         /\ job'[a].locked = job[a].locked
         /\ \A b \in Actors \ {a} : job'[b] = job[b]
         /\ bindLock = Nobody /\ bindLock' = a
         /\ UNCHANGED <<memory, dialLock, disk, outside>>
<1> DEFINE p == NextAfterBind(a)
<1>1. job' = [job EXCEPT ![a].pc = p]
  BY DEF TakeBind, To
<1> HIDE DEF p
<1>2. /\ job'[a].pc = p
      /\ job'[a].cmd = job[a].cmd /\ job'[a].s = job[a].s /\ job'[a].h = job[a].h
      /\ job'[a].c = job[a].c /\ job'[a].ctx = job[a].ctx /\ job'[a].left = job[a].left
      /\ job'[a].locked = job[a].locked
      /\ \A b \in Actors \ {a} : job'[b] = job[b]
  BY <1>1 DEF BindingTypes, Jobs
<1> QED BY <1>2 DEF TakeBind, In, p

(* An open connection whose context is gone makes a new one.             *)
LEMMA AvailableDoes ==
  ASSUME BindingTypes, Shapes, NEW a \in Actors, Available(a)
  PROVE  /\ job[a].pc = "available" /\ job'[a].pc \in {"insert", "context"}
         /\ job'[a].pc = "context" /\ Open(job[a].c) => \A x \in contexts : x.id # job[a].ctx
         /\ job'[a].cmd = job[a].cmd /\ job'[a].s = job[a].s /\ job'[a].h = job[a].h
         /\ job'[a].c = job[a].c /\ job'[a].ctx = job[a].ctx /\ job'[a].left = job[a].left
         /\ job'[a].locked = job[a].locked
         /\ \A b \in Actors \ {a} : job'[b] = job[b]
         /\ UNCHANGED <<memory, locks, disk, outside>>
<1> DEFINE p == IF Open(job[a].c) /\ \E x \in contexts : x.id = job[a].ctx THEN "insert" ELSE "context"
<1>1. job' = [job EXCEPT ![a].pc = p]
  BY DEF Available, To
<1>2. p \in {"insert", "context"} /\ (p = "context" /\ Open(job[a].c) => \A x \in contexts : x.id # job[a].ctx)
  OBVIOUS
<1> HIDE DEF p
<1>3. /\ job'[a].pc = p
      /\ job'[a].cmd = job[a].cmd /\ job'[a].s = job[a].s /\ job'[a].h = job[a].h
      /\ job'[a].c = job[a].c /\ job'[a].ctx = job[a].ctx /\ job'[a].left = job[a].left
      /\ job'[a].locked = job[a].locked
      /\ \A b \in Actors \ {a} : job'[b] = job[b]
  BY <1>1 DEF BindingTypes, Jobs
<1> QED BY <1>2, <1>3 DEF Available, In

(* A stop lists every session.                                           *)
LEMMA StopDoes ==
  ASSUME BindingTypes, Shapes, NEW a \in Actors, Stop(a)
  PROVE  /\ job[a].pc = "stop" /\ job'[a].pc = "each"
         /\ job'[a].left = {s \in Names : sessions[s].state # "none"}
         /\ job'[a].cmd = job[a].cmd /\ job'[a].s = job[a].s /\ job'[a].h = job[a].h
         /\ job'[a].c = job[a].c /\ job'[a].ctx = job[a].ctx /\ job'[a].locked = job[a].locked
         /\ \A b \in Actors \ {a} : job'[b] = job[b]
         /\ UNCHANGED <<browsers, sessions, locks, disk, outside>>
<1> DEFINE l == {s \in Names : sessions[s].state # "none"}
<1>1. job' = [job EXCEPT ![a].left = l, ![a].pc = "each"]
  BY DEF Stop
<1> HIDE DEF l
<1>2. /\ job'[a].pc = "each" /\ job'[a].left = l
      /\ job'[a].cmd = job[a].cmd /\ job'[a].s = job[a].s /\ job'[a].h = job[a].h
      /\ job'[a].c = job[a].c /\ job'[a].ctx = job[a].ctx /\ job'[a].locked = job[a].locked
      /\ \A b \in Actors \ {a} : job'[b] = job[b]
  BY <1>1 DEF BindingTypes, Jobs
<1> QED BY <1>2 DEF Stop, In, l

(* The monitor of a lost connection lists the sessions of its host.      *)
LEMMA CancelTokenDoes ==
  ASSUME BindingTypes, Shapes, NEW a \in Actors, CancelToken(a)
  PROVE  /\ job[a].pc = "token" /\ job'[a].pc = "each"
         /\ job'[a].left = ListedOn(job[a].h)
         /\ job'[a].cmd = job[a].cmd /\ job'[a].s = job[a].s /\ job'[a].h = job[a].h
         /\ job'[a].c = job[a].c /\ job'[a].ctx = job[a].ctx /\ job'[a].locked = job[a].locked
         /\ \A b \in Actors \ {a} : job'[b] = job[b]
         /\ UNCHANGED <<browsers, sessions, locks, disk, outside>>
<1> DEFINE l == ListedOn(job[a].h)
<1>1. job' = [job EXCEPT ![a].left = l, ![a].pc = "each"]
  BY DEF CancelToken
<1> HIDE DEF l
<1>2. /\ job'[a].pc = "each" /\ job'[a].left = l
      /\ job'[a].cmd = job[a].cmd /\ job'[a].s = job[a].s /\ job'[a].h = job[a].h
      /\ job'[a].c = job[a].c /\ job'[a].ctx = job[a].ctx /\ job'[a].locked = job[a].locked
      /\ \A b \in Actors \ {a} : job'[b] = job[b]
  BY <1>1 DEF BindingTypes, Jobs
<1> QED BY <1>2 DEF CancelToken, In, l

(* A session that was cleaned up is disconnected.                        *)
LEMMA MarkDoes ==
  ASSUME BindingTypes, Shapes, NEW a \in Actors, Mark(a)
  PROVE  /\ job[a].pc = "mark" /\ job'[a].pc = "each" /\ ~job'[a].locked
         /\ job'[a].left = job[a].left \ {job[a].s}
         /\ job'[a].cmd = job[a].cmd /\ job'[a].s = Nobody /\ job'[a].h = job[a].h
         /\ job'[a].c = job[a].c /\ job'[a].ctx = job[a].ctx
         /\ \A b \in Actors \ {a} : job'[b] = job[b]
         /\ job[a].s \in Names
         /\ sessions'[job[a].s].state = (IF sessions[job[a].s].state = "none" THEN "none" ELSE "disconnected")
         /\ sessions'[job[a].s].host = sessions[job[a].s].host
         /\ sessions'[job[a].s].ctx = sessions[job[a].s].ctx
         /\ \A t \in Names \ {job[a].s} : sessions'[t] = sessions[t]
         /\ UNCHANGED <<browsers, watchers, locks, disk, outside>>
<1> DEFINE l == job[a].left \ {job[a].s}
           d == Disconnected(sessions[job[a].s])
<1>1. /\ job' = [job EXCEPT ![a].left = l, ![a].s = Nobody, ![a].locked = FALSE, ![a].pc = "each"]
      /\ sessions' = [sessions EXCEPT ![job[a].s] = d]
  BY DEF Mark
<1>2. /\ d.state = (IF sessions[job[a].s].state = "none" THEN "none" ELSE "disconnected")
      /\ d.host = sessions[job[a].s].host /\ d.ctx = sessions[job[a].s].ctx
      /\ job[a].s \in Names /\ job[a].pc = "mark"
  BY DEF Disconnected, BindingTypes, DataTypes, Stored, NoSession, Shapes, Shape, Mark,
         In
<1> HIDE DEF l, d
<1>3. /\ job'[a].pc = "each" /\ job'[a].left = l /\ ~job'[a].locked /\ job'[a].s = Nobody
      /\ job'[a].cmd = job[a].cmd /\ job'[a].h = job[a].h
      /\ job'[a].c = job[a].c /\ job'[a].ctx = job[a].ctx
      /\ \A b \in Actors \ {a} : job'[b] = job[b]
  BY <1>1 DEF BindingTypes, Jobs
<1>4. sessions'[job[a].s] = d /\ \A t \in Names \ {job[a].s} : sessions'[t] = sessions[t]
  BY <1>1, <1>2 DEF BindingTypes, DataTypes
<1> QED BY <1>2, <1>3, <1>4 DEF Mark, l

(* The isolated sessions are finitely many, so that one more or less     *)
(* counts.                                                               *)
LEMMA Shrinks ==
  ASSUME BindingTypes, Isolateds' \subseteq Isolateds
  PROVE  Cardinality(Isolateds') <= Cardinality(Isolateds) /\ Cardinality(Isolateds') \in Nat
         /\ Cardinality(Isolateds) \in Nat
<1>1. IsFiniteSet(Isolateds)
  BY BindingAssumption, FS_Subset DEF Isolateds
<1> QED BY <1>1, FS_Subset, FS_CardinalityType

LEMMA GrowsByOne ==
  ASSUME BindingTypes, NEW s, Isolateds' \subseteq Isolateds \cup {s}
  PROVE  Cardinality(Isolateds') <= Cardinality(Isolateds) + 1 /\ Cardinality(Isolateds') \in Nat
         /\ Cardinality(Isolateds) \in Nat
<1> DEFINE I == Isolateds'  J == Isolateds \cup {s}
<1>1. IsFiniteSet(Isolateds)
  BY BindingAssumption, FS_Subset DEF Isolateds
<1>2. /\ IsFiniteSet(Isolateds \cup {s})
      /\ Cardinality(Isolateds \cup {s}) <= Cardinality(Isolateds) + 1
      /\ Cardinality(Isolateds) \in Nat
  BY <1>1, FS_AddElement, FS_CardinalityType
<1>3. IsFiniteSet(I) /\ Cardinality(I) <= Cardinality(J)
  <2>1. I \subseteq J /\ IsFiniteSet(J)
    BY <1>2
  <2> HIDE DEF I, J
  <2> QED BY <2>1, FS_Subset
<1>4. Cardinality(I) \in Nat /\ Cardinality(J) \in Nat
  BY <1>2, <1>3, FS_CardinalityType
<1> QED BY <1>2, <1>3, <1>4

(* The lifecycle lock of a session has one holder.                          *)
LEMMA LocksExcludeKept ==
  ASSUME BindingTypes, Shapes, LocksExclude, Next
  PROVE  LocksExclude'
<1>1. ASSUME UNCHANGED job PROVE LocksExclude'
  BY <1>1 DEF LocksExclude, Alone
<1>2. ASSUME Debounce \/ ReadOne \/ Write \/ WatcherEnds \/ Lose PROVE UNCHANGED job
  BY <1>2 DEF Debounce, ReadOne, Write, WatcherEnds, Lose, memory, locks, disk, outside
<1> USE DEF LocksExclude, Alone, BindingTypes, Jobs, Holds, Locked, Binds, Shapes,
            Shape, Names, memory, locks, disk
<1>3. ASSUME NEW a \in Actors, Check(a) PROVE LocksExclude'
  BY <1>3, BindingAssumption DEF Check, Watch, Done, To, In, Over, Job
<1>4. ASSUME NEW a \in Actors, Get(a) PROVE LocksExclude'
  BY <1>4, BindingAssumption DEF Get, Reuse, Watch, To, In
<1>5. ASSUME NEW a \in Actors, TakeDial(a) PROVE LocksExclude'
  BY <1>5, BindingAssumption DEF TakeDial, Reuse, Watch, To, In
<1>6. ASSUME NEW a \in Actors, Dial(a) PROVE LocksExclude'
  BY <1>6, BindingAssumption DEF Dial, Watch, Done, In, Over, Job
<1>7. ASSUME NEW a \in Actors, TakeBind(a) PROVE LocksExclude'
  BY <1>7, TakeBindDoes, BindingAssumption DEF NextAfterBind
<1>8. ASSUME NEW a \in Actors, Lifecycle(a) PROVE LocksExclude'
  BY <1>8, BindingAssumption DEF Lifecycle, Unbind, Done, In, Valid, Over, Job
<1>9. ASSUME NEW a \in Actors, Available(a) PROVE LocksExclude'
  BY <1>9, AvailableDoes, BindingAssumption
<1>10. ASSUME NEW a \in Actors, CreateContext(a) PROVE LocksExclude'
  BY <1>10, BindingAssumption DEF CreateContext, Unbind, Done, In, Over, Job
<1>11. ASSUME NEW a \in Actors, InsertSession(a) PROVE LocksExclude'
  BY <1>11, BindingAssumption DEF InsertSession, Unbind, Done, In, Over, Job
<1>12. ASSUME NEW a \in Actors, CloseSession(a) PROVE LocksExclude'
  BY <1>12, BindingAssumption DEF CloseSession, Done, In, Over, Job
<1>13. ASSUME NEW a \in Actors, ForgetSession(a) PROVE LocksExclude'
  BY <1>13, BindingAssumption DEF ForgetSession, Done, In, Over, Job, NoSession
<1>14. ASSUME NEW a \in Actors, Disconnect(a) PROVE LocksExclude'
  BY <1>14, BindingAssumption DEF Disconnect, Unbind, Done, In, ListedOn, Over, Job
<1>15. ASSUME NEW a \in Actors, Stop(a) PROVE LocksExclude'
  BY <1>15, StopDoes, BindingAssumption
<1>16. ASSUME NEW a \in Actors, CleanUp(a) PROVE LocksExclude'
  BY <1>16, BindingAssumption DEF CleanUp, In, Wanted
<1>17. ASSUME NEW a \in Actors, Mark(a) PROVE LocksExclude'
  BY <1>17, MarkDoes, BindingAssumption
<1>18. ASSUME NEW a \in Actors, EndDisconnect(a) PROVE LocksExclude'
  BY <1>18, BindingAssumption DEF EndDisconnect, Unbind, Done, In, Over, Job
<1>19. ASSUME NEW a \in Actors, EndStop(a) PROVE LocksExclude'
  BY <1>19, BindingAssumption DEF EndStop, To, In
<1>20. ASSUME NEW a \in Actors, PersistNow(a) PROVE LocksExclude'
  BY <1>20, BindingAssumption DEF PersistNow, Unbind, Done, In, Image, Over, Job
<1>21. ASSUME NEW a \in Actors, Notice(a) PROVE LocksExclude'
  BY <1>21, BindingAssumption DEF Notice, To, In
<1>22. ASSUME NEW a \in Actors, Lost(a) PROVE LocksExclude'
  BY <1>22, BindingAssumption DEF Lost, Unbind, Done, To, In, Over, Job
<1>23. ASSUME NEW a \in Actors, CancelToken(a) PROVE LocksExclude'
  BY <1>23, CancelTokenDoes, BindingAssumption
<1>24. ASSUME NEW a \in Actors, EndLost(a) PROVE LocksExclude'
  BY <1>24, BindingAssumption DEF EndLost, Unbind, Done, In, Over, Job
<1>25. ASSUME NEW a \in Actors, Ask(a) PROVE LocksExclude'
  BY <1>25, BindingAssumption DEF Ask, In, Job
<1>26. ASSUME Restart PROVE LocksExclude'
  BY SMTT(60), <1>26, BindingAssumption
     DEF Restart, In, Idle, Over, Job, Disconnected, Writer, NoImage, NoSession
<1> QED BY <1>1, <1>2, <1>3, <1>4, <1>5, <1>6, <1>7, <1>8, <1>9, <1>10, <1>11, <1>12,
           <1>13, <1>14, <1>15, <1>16, <1>17, <1>18, <1>19, <1>20, <1>21, <1>22, <1>23,
           <1>24, <1>25, <1>26
           DEF Next, Progress, Step

(* A registered connection keeps its monitor: the monitor of an old one     *)
(* leaves a newer one alone.                                                *)
LEMMA IsWatchedKept ==
  ASSUME BindingTypes, Shapes, IsWatched, Next
  PROVE  IsWatched'
<1>1. ASSUME UNCHANGED <<browsers, job, made>> PROVE IsWatched'
  BY <1>1 DEF IsWatched
<1>2. ASSUME Debounce \/ ReadOne \/ Write \/ WatcherEnds \/ Lose
      PROVE  UNCHANGED <<browsers, job, made>>
  BY <1>2 DEF Debounce, ReadOne, Write, WatcherEnds, Lose, memory, locks, disk, outside
<1> USE DEF IsWatched, BindingTypes, DataTypes, Jobs, Holds, Locked, Binds, Cleaning,
            Registered, Shapes, Shape, Actors, memory, locks, outside
<1>3. ASSUME NEW a \in Actors, Check(a) PROVE IsWatched'
  BY SMTT(60), <1>3, BindingAssumption DEF Check, Watch, Done, To, In, Over, Job
<1>4. ASSUME NEW a \in Actors, Get(a) PROVE IsWatched'
  BY SMTT(60), <1>4, BindingAssumption DEF Get, Reuse, Watch, To, In
<1>5. ASSUME NEW a \in Actors, TakeDial(a) PROVE IsWatched'
  BY <1>5, BindingAssumption DEF TakeDial, Reuse, Watch, To, In
<1>6. ASSUME NEW a \in Actors, Dial(a) PROVE IsWatched'
  BY <1>6, BindingAssumption DEF Dial, Watch, Done, In, Over, Job
<1>7. ASSUME NEW a \in Actors, TakeBind(a) PROVE IsWatched'
  BY <1>7, TakeBindDoes, BindingAssumption DEF NextAfterBind
<1>8. ASSUME NEW a \in Actors, Lifecycle(a) PROVE IsWatched'
  BY SMTT(60), <1>8, BindingAssumption DEF Lifecycle, Unbind, Done, In, Valid, Over, Job
<1>9. ASSUME NEW a \in Actors, Available(a) PROVE IsWatched'
  BY <1>9, AvailableDoes, BindingAssumption
<1>10. ASSUME NEW a \in Actors, CreateContext(a) PROVE IsWatched'
  BY <1>10, BindingAssumption DEF CreateContext, Unbind, Done, In, Over, Job
<1>11. ASSUME NEW a \in Actors, InsertSession(a) PROVE IsWatched'
  BY <1>11, BindingAssumption DEF InsertSession, Unbind, Done, In, Over, Job
<1>12. ASSUME NEW a \in Actors, CloseSession(a) PROVE IsWatched'
  BY SMTT(60), <1>12, BindingAssumption DEF CloseSession, Done, In, Over, Job
<1>13. ASSUME NEW a \in Actors, ForgetSession(a) PROVE IsWatched'
  BY <1>13, BindingAssumption DEF ForgetSession, Done, In, Over, Job, NoSession
<1>14. ASSUME NEW a \in Actors, Disconnect(a) PROVE IsWatched'
  BY <1>14, BindingAssumption DEF Disconnect, Unbind, Done, In, ListedOn, Over, Job
<1>15. ASSUME NEW a \in Actors, Stop(a) PROVE IsWatched'
  BY <1>15, StopDoes, BindingAssumption
<1>16. ASSUME NEW a \in Actors, CleanUp(a) PROVE IsWatched'
  BY <1>16, BindingAssumption DEF CleanUp, In, Wanted
<1>17. ASSUME NEW a \in Actors, Mark(a) PROVE IsWatched'
  BY <1>17, MarkDoes, BindingAssumption
<1>18. ASSUME NEW a \in Actors, EndDisconnect(a) PROVE IsWatched'
  BY <1>18, BindingAssumption DEF EndDisconnect, Unbind, Done, In, Over, Job
<1>19. ASSUME NEW a \in Actors, EndStop(a) PROVE IsWatched'
  BY <1>19, BindingAssumption DEF EndStop, To, In
<1>20. ASSUME NEW a \in Actors, PersistNow(a) PROVE IsWatched'
  BY <1>20, BindingAssumption DEF PersistNow, Unbind, Done, In, Image, Over, Job
<1>21. ASSUME NEW a \in Actors, Notice(a) PROVE IsWatched'
  BY <1>21, BindingAssumption DEF Notice, To, In
<1>22. ASSUME NEW a \in Actors, Lost(a) PROVE IsWatched'
  BY <1>22, BindingAssumption DEF Lost, Unbind, Done, To, In, Over, Job
<1>23. ASSUME NEW a \in Actors, CancelToken(a) PROVE IsWatched'
  BY <1>23, CancelTokenDoes, BindingAssumption
<1>24. ASSUME NEW a \in Actors, EndLost(a) PROVE IsWatched'
  BY <1>24, BindingAssumption DEF EndLost, Unbind, Done, In, Over, Job
<1>25. ASSUME NEW a \in Actors, Ask(a) PROVE IsWatched'
  BY SMTT(60), <1>25, BindingAssumption DEF Ask, In, Job
<1>26. ASSUME Restart PROVE IsWatched'
  BY <1>26, BindingAssumption
     DEF Restart, In, Idle, Over, Job, Disconnected, Writer, NoImage, NoSession
<1> QED BY <1>1, <1>2, <1>3, <1>4, <1>5, <1>6, <1>7, <1>8, <1>9, <1>10, <1>11, <1>12,
           <1>13, <1>14, <1>15, <1>16, <1>17, <1>18, <1>19, <1>20, <1>21, <1>22, <1>23,
           <1>24, <1>25, <1>26
           DEF Next, Progress, Step

(* No session is bound behind the back of a disconnect: what is connected   *)
(* is still on its list.                                                    *)
LEMMA ListedKept ==
  ASSUME BindingTypes, Shapes, Listed, Next
  PROVE  Listed'
<1>1. ASSUME UNCHANGED <<job, sessions>> PROVE Listed'
  BY <1>1 DEF Listed, Covered, ListedOn
<1>2. ASSUME Debounce \/ ReadOne \/ Write \/ WatcherEnds \/ Lose
      PROVE  UNCHANGED <<job, sessions>>
  BY <1>2 DEF Debounce, ReadOne, Write, WatcherEnds, Lose, memory, locks, disk, outside
<1> USE DEF Listed, Covered, ListedOn, BindingTypes, Jobs, Holds, Locked, Binds,
            Cleaning, Registered, Shapes, Shape, Actors, memory, locks
<1>3. ASSUME NEW a \in Actors, Check(a) PROVE Listed'
  BY <1>3, BindingAssumption DEF Check, Watch, Done, To, In, Over, Job
<1>4. ASSUME NEW a \in Actors, Get(a) PROVE Listed'
  BY <1>4, BindingAssumption DEF Get, Reuse, Watch, To, In
<1>5. ASSUME NEW a \in Actors, TakeDial(a) PROVE Listed'
  BY <1>5, BindingAssumption DEF TakeDial, Reuse, Watch, To, In
<1>6. ASSUME NEW a \in Actors, Dial(a) PROVE Listed'
  BY <1>6, BindingAssumption DEF Dial, Watch, Done, In, Over, Job
<1>7. ASSUME NEW a \in Actors, TakeBind(a) PROVE Listed'
  BY <1>7, TakeBindDoes, BindingAssumption DEF NextAfterBind
<1>8. ASSUME NEW a \in Actors, Lifecycle(a) PROVE Listed'
  BY <1>8, BindingAssumption DEF Lifecycle, Unbind, Done, In, Valid, Over, Job
<1>9. ASSUME NEW a \in Actors, Available(a) PROVE Listed'
  BY <1>9, AvailableDoes, BindingAssumption
<1>10. ASSUME NEW a \in Actors, CreateContext(a) PROVE Listed'
  BY <1>10, BindingAssumption DEF CreateContext, Unbind, Done, In, Over, Job
<1>11. ASSUME NEW a \in Actors, InsertSession(a) PROVE Listed'
  BY <1>11, BindingAssumption DEF InsertSession, Unbind, Done, In, Over, Job
<1>12. ASSUME NEW a \in Actors, CloseSession(a) PROVE Listed'
  BY <1>12, BindingAssumption DEF CloseSession, Done, In, Over, Job
<1>13. ASSUME NEW a \in Actors, ForgetSession(a) PROVE Listed'
  BY <1>13, BindingAssumption DEF ForgetSession, Done, In, Over, Job, NoSession
<1>14. ASSUME NEW a \in Actors, Disconnect(a) PROVE Listed'
  BY <1>14, BindingAssumption DEF Disconnect, Unbind, Done, In, Over, Job
<1>15. ASSUME NEW a \in Actors, Stop(a) PROVE Listed'
  BY <1>15, StopDoes, BindingAssumption
<1>16. ASSUME NEW a \in Actors, CleanUp(a) PROVE Listed'
  BY <1>16, BindingAssumption DEF CleanUp, In, Wanted
<1>17. ASSUME NEW a \in Actors, Mark(a) PROVE Listed'
  BY <1>17, MarkDoes, BindingAssumption
<1>18. ASSUME NEW a \in Actors, EndDisconnect(a) PROVE Listed'
  BY <1>18, BindingAssumption DEF EndDisconnect, Unbind, Done, In, Over, Job
<1>19. ASSUME NEW a \in Actors, EndStop(a) PROVE Listed'
  BY <1>19, BindingAssumption DEF EndStop, To, In
<1>20. ASSUME NEW a \in Actors, PersistNow(a) PROVE Listed'
  BY <1>20, BindingAssumption DEF PersistNow, Unbind, Done, In, Image, Over, Job
<1>21. ASSUME NEW a \in Actors, Notice(a) PROVE Listed'
  BY <1>21, BindingAssumption DEF Notice, To, In
<1>22. ASSUME NEW a \in Actors, Lost(a) PROVE Listed'
  BY <1>22, BindingAssumption DEF Lost, Unbind, Done, To, In, Over, Job
<1>23. ASSUME NEW a \in Actors, CancelToken(a) PROVE Listed'
  BY <1>23, CancelTokenDoes, BindingAssumption
<1>24. ASSUME NEW a \in Actors, EndLost(a) PROVE Listed'
  BY <1>24, BindingAssumption DEF EndLost, Unbind, Done, In, Over, Job
<1>25. ASSUME NEW a \in Actors, Ask(a) PROVE Listed'
  BY <1>25, BindingAssumption DEF Ask, In, Job
<1>26. ASSUME Restart PROVE Listed'
  BY <1>26, BindingAssumption
     DEF Restart, In, Idle, Over, Job, Disconnected, Writer, NoImage, NoSession
<1> QED BY <1>1, <1>2, <1>3, <1>4, <1>5, <1>6, <1>7, <1>8, <1>9, <1>10, <1>11, <1>12,
           <1>13, <1>14, <1>15, <1>16, <1>17, <1>18, <1>19, <1>20, <1>21, <1>22, <1>23,
           <1>24, <1>25, <1>26
           DEF Next, Progress, Step

(* A session on the list of a disconnect stays on its host until it is      *)
(* marked.                                                                  *)
LEMMA LeftIsCoveredKept ==
  ASSUME BindingTypes, Shapes, LeftIsCovered, Next
  PROVE  LeftIsCovered'
<1>1. ASSUME UNCHANGED <<job, sessions>> PROVE LeftIsCovered'
  BY <1>1 DEF LeftIsCovered, Covered, ListedOn
<1>2. ASSUME Debounce \/ ReadOne \/ Write \/ WatcherEnds \/ Lose
      PROVE  UNCHANGED <<job, sessions>>
  BY <1>2 DEF Debounce, ReadOne, Write, WatcherEnds, Lose, memory, locks, disk, outside
<1> USE DEF LeftIsCovered, Covered, ListedOn, BindingTypes, Jobs, Holds, Locked, Binds,
            Cleaning, Registered, Shapes, Shape, Actors, memory, locks
<1>3. ASSUME NEW a \in Actors, Check(a) PROVE LeftIsCovered'
  BY <1>3, BindingAssumption DEF Check, Watch, Done, To, In, Over, Job
<1>4. ASSUME NEW a \in Actors, Get(a) PROVE LeftIsCovered'
  BY <1>4, BindingAssumption DEF Get, Reuse, Watch, To, In
<1>5. ASSUME NEW a \in Actors, TakeDial(a) PROVE LeftIsCovered'
  BY <1>5, BindingAssumption DEF TakeDial, Reuse, Watch, To, In
<1>6. ASSUME NEW a \in Actors, Dial(a) PROVE LeftIsCovered'
  BY <1>6, BindingAssumption DEF Dial, Watch, Done, In, Over, Job
<1>7. ASSUME NEW a \in Actors, TakeBind(a) PROVE LeftIsCovered'
  BY <1>7, TakeBindDoes, BindingAssumption DEF NextAfterBind
<1>8. ASSUME NEW a \in Actors, Lifecycle(a) PROVE LeftIsCovered'
  BY <1>8, BindingAssumption DEF Lifecycle, Unbind, Done, In, Valid, Over, Job
<1>9. ASSUME NEW a \in Actors, Available(a) PROVE LeftIsCovered'
  BY <1>9, AvailableDoes, BindingAssumption
<1>10. ASSUME NEW a \in Actors, CreateContext(a) PROVE LeftIsCovered'
  BY <1>10, BindingAssumption DEF CreateContext, Unbind, Done, In, Over, Job
<1>11. ASSUME NEW a \in Actors, InsertSession(a) PROVE LeftIsCovered'
  BY <1>11, BindingAssumption DEF InsertSession, Unbind, Done, In, Over, Job
<1>12. ASSUME NEW a \in Actors, CloseSession(a) PROVE LeftIsCovered'
  BY <1>12, BindingAssumption DEF CloseSession, Done, In, Over, Job
<1>13. ASSUME NEW a \in Actors, ForgetSession(a) PROVE LeftIsCovered'
  BY <1>13, BindingAssumption DEF ForgetSession, Done, In, Over, Job, NoSession
<1>14. ASSUME NEW a \in Actors, Disconnect(a) PROVE LeftIsCovered'
  BY <1>14, BindingAssumption DEF Disconnect, Unbind, Done, In, Over, Job
<1>15. ASSUME NEW a \in Actors, Stop(a) PROVE LeftIsCovered'
  BY <1>15, StopDoes, BindingAssumption
<1>16. ASSUME NEW a \in Actors, CleanUp(a) PROVE LeftIsCovered'
  BY <1>16, BindingAssumption DEF CleanUp, In, Wanted
<1>17. ASSUME NEW a \in Actors, Mark(a) PROVE LeftIsCovered'
  BY <1>17, MarkDoes, BindingAssumption
<1>18. ASSUME NEW a \in Actors, EndDisconnect(a) PROVE LeftIsCovered'
  BY <1>18, BindingAssumption DEF EndDisconnect, Unbind, Done, In, Over, Job
<1>19. ASSUME NEW a \in Actors, EndStop(a) PROVE LeftIsCovered'
  BY <1>19, BindingAssumption DEF EndStop, To, In
<1>20. ASSUME NEW a \in Actors, PersistNow(a) PROVE LeftIsCovered'
  BY <1>20, BindingAssumption DEF PersistNow, Unbind, Done, In, Image, Over, Job
<1>21. ASSUME NEW a \in Actors, Notice(a) PROVE LeftIsCovered'
  BY <1>21, BindingAssumption DEF Notice, To, In
<1>22. ASSUME NEW a \in Actors, Lost(a) PROVE LeftIsCovered'
  BY <1>22, BindingAssumption DEF Lost, Unbind, Done, To, In, Over, Job
<1>23. ASSUME NEW a \in Actors, CancelToken(a) PROVE LeftIsCovered'
  BY <1>23, CancelTokenDoes, BindingAssumption
<1>24. ASSUME NEW a \in Actors, EndLost(a) PROVE LeftIsCovered'
  BY <1>24, BindingAssumption DEF EndLost, Unbind, Done, In, Over, Job
<1>25. ASSUME NEW a \in Actors, Ask(a) PROVE LeftIsCovered'
  BY <1>25, BindingAssumption DEF Ask, In, Job
<1>26. ASSUME Restart PROVE LeftIsCovered'
  BY <1>26, BindingAssumption
     DEF Restart, In, Idle, Over, Job, Disconnected, Writer, NoImage, NoSession
<1> QED BY <1>1, <1>2, <1>3, <1>4, <1>5, <1>6, <1>7, <1>8, <1>9, <1>10, <1>11, <1>12,
           <1>13, <1>14, <1>15, <1>16, <1>17, <1>18, <1>19, <1>20, <1>21, <1>22, <1>23,
           <1>24, <1>25, <1>26
           DEF Next, Progress, Step

(* While a session is bound, or its host disconnected, the host keeps its   *)
(* connection.                                                              *)
LEMMA HostKeptKept ==
  ASSUME BindingTypes, Shapes, HostKept, IsWatched, Next
  PROVE  HostKept'
<1>1. ASSUME UNCHANGED <<job, browsers>> PROVE HostKept'
  BY <1>1 DEF HostKept, IsWatched, Open
<1>2. ASSUME Debounce \/ ReadOne \/ Write \/ WatcherEnds \/ Lose
      PROVE  UNCHANGED <<job, browsers>>
  BY <1>2 DEF Debounce, ReadOne, Write, WatcherEnds, Lose, memory, locks, disk, outside
<1> USE DEF HostKept, IsWatched, Open, BindingTypes, Jobs, Holds, Locked, Binds,
            Cleaning, Registered, Shapes, Shape, Actors, memory, locks
<1>3. ASSUME NEW a \in Actors, Check(a) PROVE HostKept'
  BY <1>3, BindingAssumption DEF Check, Watch, Done, To, In, Over, Job
<1>4. ASSUME NEW a \in Actors, Get(a) PROVE HostKept'
  BY <1>4, BindingAssumption DEF Get, Reuse, Watch, To, In
<1>5. ASSUME NEW a \in Actors, TakeDial(a) PROVE HostKept'
  BY <1>5, BindingAssumption DEF TakeDial, Reuse, Watch, To, In
<1>6. ASSUME NEW a \in Actors, Dial(a) PROVE HostKept'
  BY <1>6, BindingAssumption DEF Dial, Watch, Done, In, Over, Job
<1>7. ASSUME NEW a \in Actors, TakeBind(a) PROVE HostKept'
  BY <1>7, TakeBindDoes, BindingAssumption DEF NextAfterBind
<1>8. ASSUME NEW a \in Actors, Lifecycle(a) PROVE HostKept'
  BY <1>8, BindingAssumption DEF Lifecycle, Unbind, Done, In, Valid, Over, Job
<1>9. ASSUME NEW a \in Actors, Available(a) PROVE HostKept'
  BY <1>9, AvailableDoes, BindingAssumption
<1>10. ASSUME NEW a \in Actors, CreateContext(a) PROVE HostKept'
  BY <1>10, BindingAssumption DEF CreateContext, Unbind, Done, In, Over, Job
<1>11. ASSUME NEW a \in Actors, InsertSession(a) PROVE HostKept'
  BY <1>11, BindingAssumption DEF InsertSession, Unbind, Done, In, Over, Job
<1>12. ASSUME NEW a \in Actors, CloseSession(a) PROVE HostKept'
  BY <1>12, BindingAssumption DEF CloseSession, Done, In, Over, Job
<1>13. ASSUME NEW a \in Actors, ForgetSession(a) PROVE HostKept'
  BY <1>13, BindingAssumption DEF ForgetSession, Done, In, Over, Job, NoSession
<1>14. ASSUME NEW a \in Actors, Disconnect(a) PROVE HostKept'
  BY <1>14, BindingAssumption DEF Disconnect, Unbind, Done, In, ListedOn, Over, Job
<1>15. ASSUME NEW a \in Actors, Stop(a) PROVE HostKept'
  BY <1>15, StopDoes, BindingAssumption
<1>16. ASSUME NEW a \in Actors, CleanUp(a) PROVE HostKept'
  BY <1>16, BindingAssumption DEF CleanUp, In, Wanted
<1>17. ASSUME NEW a \in Actors, Mark(a) PROVE HostKept'
  BY <1>17, MarkDoes, BindingAssumption
<1>18. ASSUME NEW a \in Actors, EndDisconnect(a) PROVE HostKept'
  BY <1>18, BindingAssumption DEF EndDisconnect, Unbind, Done, In, Over, Job
<1>19. ASSUME NEW a \in Actors, EndStop(a) PROVE HostKept'
  BY <1>19, BindingAssumption DEF EndStop, To, In
<1>20. ASSUME NEW a \in Actors, PersistNow(a) PROVE HostKept'
  BY <1>20, BindingAssumption DEF PersistNow, Unbind, Done, In, Image, Over, Job
<1>21. ASSUME NEW a \in Actors, Notice(a) PROVE HostKept'
  BY <1>21, BindingAssumption DEF Notice, To, In
<1>22. ASSUME NEW a \in Actors, Lost(a) PROVE HostKept'
  BY <1>22, BindingAssumption DEF Lost, Unbind, Done, To, In, Over, Job
<1>23. ASSUME NEW a \in Actors, CancelToken(a) PROVE HostKept'
  BY <1>23, CancelTokenDoes, BindingAssumption
<1>24. ASSUME NEW a \in Actors, EndLost(a) PROVE HostKept'
  BY <1>24, BindingAssumption DEF EndLost, Unbind, Done, In, Over, Job
<1>25. ASSUME NEW a \in Actors, Ask(a) PROVE HostKept'
  BY <1>25, BindingAssumption DEF Ask, In, Job
<1>26. ASSUME Restart PROVE HostKept'
  BY <1>26, BindingAssumption
     DEF Restart, In, Idle, Over, Job, Disconnected, Writer, NoImage, NoSession
<1> QED BY <1>1, <1>2, <1>3, <1>4, <1>5, <1>6, <1>7, <1>8, <1>9, <1>10, <1>11, <1>12,
           <1>13, <1>14, <1>15, <1>16, <1>17, <1>18, <1>19, <1>20, <1>21, <1>22, <1>23,
           <1>24, <1>25, <1>26
           DEF Next, Progress, Step

(* The monitor that removes its browser will mark the sessions bound to  *)
(* it.                                                                   *)
LEMMA BoundAfterLost ==
  ASSUME BindingTypes, Shapes, Bound, Listed, LeftIsCovered, HostKept, NEW a \in Actors,
         Lost(a)
  PROVE  Bound'
<1>1. CASE browsers[job[a].h] # a
  <2>1. UNCHANGED <<browsers, sessions>> /\ job[a].left = {} /\ ~In(a, "token") /\ bindLock = a
    BY <1>1, BindingAssumption
       DEF Lost, Unbind, In, BindingTypes, DataTypes, Jobs, Holds, Locked, Binds,
           Cleaning, Registered, Shapes, Shape, Actors, Names, memory, locks, disk,
           outside
  <2>2. \A s \in Names : ~WillMark(s)
    BY <2>1 DEF WillMark
  <2> QED BY <2>1, <2>2 DEF Bound
<1>2. CASE browsers[job[a].h] = a
  <2>1. /\ sessions' = sessions /\ bindLock = a /\ bindLock' = a
        /\ job'[a].pc = "token" /\ job'[a].h = job[a].h
        /\ job[a].left = {} /\ job[a].pc = "lost"
        /\ browsers' = [browsers EXCEPT ![job[a].h] = 0]
    BY <1>2, BindingAssumption
       DEF Lost, To, In, BindingTypes, DataTypes, Jobs, Holds, Locked, Binds, Cleaning,
           Registered, Shapes, Shape, Actors, Names, memory, locks, disk, outside
  <2>2. \A s \in Names : ~WillMark(s)
    BY <2>1, BindingAssumption DEF WillMark, In
  <2>3. ASSUME NEW s \in Names, sessions[s].state = "connected", sessions[s].host # job[a].h
        PROVE  browsers'[sessions[s].host] # 0
    BY <2>1, <2>2, <2>3 DEF Bound, BindingTypes, DataTypes, Stored, NoSession
  <2>4. ASSUME NEW s \in Names, sessions[s].host = job[a].h PROVE WillMark(s)'
    BY <2>1, <2>4 DEF WillMark, In
  <2> QED BY <2>1, <2>3, <2>4 DEF Bound
<1> QED BY <1>1, <1>2

(* A connected session has a browser or will be marked.                     *)
LEMMA BoundKept ==
  ASSUME BindingTypes, Shapes, Bound, Listed, LeftIsCovered, HostKept, Next
  PROVE  Bound'
<1>1. ASSUME UNCHANGED <<sessions, browsers, bindLock, job>> PROVE Bound'
  BY <1>1 DEF Bound, In, Listed, LeftIsCovered, HostKept, Covered, WillMark, ListedOn
<1>2. ASSUME Debounce \/ ReadOne \/ Write \/ WatcherEnds \/ Lose
      PROVE  UNCHANGED <<sessions, browsers, bindLock, job>>
  BY <1>2 DEF Debounce, ReadOne, Write, WatcherEnds, Lose, memory, locks, disk, outside
<1> USE DEF Bound, In, Listed, LeftIsCovered, HostKept, Covered, WillMark, ListedOn,
            BindingTypes, Jobs, Holds, Locked, Binds, Cleaning, Registered, Shapes,
            Shape, Actors, memory, locks
<1>3. ASSUME NEW a \in Actors, Check(a) PROVE Bound'
  BY <1>3, BindingAssumption DEF Check, Watch, Done, To, Over, Job
<1>4. ASSUME NEW a \in Actors, Get(a) PROVE Bound'
  BY <1>4, BindingAssumption DEF Get, Reuse, Watch, To
<1>5. ASSUME NEW a \in Actors, TakeDial(a) PROVE Bound'
  BY <1>5, BindingAssumption DEF TakeDial, Reuse, Watch, To
<1>6. ASSUME NEW a \in Actors, Dial(a) PROVE Bound'
  BY <1>6, BindingAssumption DEF Dial, Watch, Done, Over, Job
<1>7. ASSUME NEW a \in Actors, TakeBind(a) PROVE Bound'
  BY <1>7, TakeBindDoes, BindingAssumption DEF NextAfterBind
<1>8. ASSUME NEW a \in Actors, Lifecycle(a) PROVE Bound'
  BY <1>8, BindingAssumption DEF Lifecycle, Unbind, Done, Valid, Over, Job
<1>9. ASSUME NEW a \in Actors, Available(a) PROVE Bound'
  BY <1>9, AvailableDoes, BindingAssumption
<1>10. ASSUME NEW a \in Actors, CreateContext(a) PROVE Bound'
  BY <1>10, BindingAssumption DEF CreateContext, Unbind, Done, Over, Job
<1>11. ASSUME NEW a \in Actors, InsertSession(a) PROVE Bound'
  BY <1>11, BindingAssumption DEF InsertSession, Unbind, Done, Over, Job
<1>12. ASSUME NEW a \in Actors, CloseSession(a) PROVE Bound'
  BY <1>12, BindingAssumption DEF CloseSession, Done, Over, Job
<1>13. ASSUME NEW a \in Actors, ForgetSession(a) PROVE Bound'
  BY <1>13, BindingAssumption DEF ForgetSession, Done, Over, Job, NoSession
<1>14. ASSUME NEW a \in Actors, Disconnect(a) PROVE Bound'
  BY <1>14, BindingAssumption DEF Disconnect, Unbind, Done, Over, Job
<1>15. ASSUME NEW a \in Actors, Stop(a) PROVE Bound'
  BY <1>15, StopDoes, BindingAssumption
<1>16. ASSUME NEW a \in Actors, CleanUp(a) PROVE Bound'
  BY <1>16, BindingAssumption DEF CleanUp, Wanted
<1>17. ASSUME NEW a \in Actors, Mark(a) PROVE Bound'
  BY <1>17, MarkDoes, BindingAssumption
<1>18. ASSUME NEW a \in Actors, EndDisconnect(a) PROVE Bound'
  BY <1>18, BindingAssumption DEF EndDisconnect, Unbind, Done, Over, Job
<1>19. ASSUME NEW a \in Actors, EndStop(a) PROVE Bound'
  BY <1>19, BindingAssumption DEF EndStop, To
<1>20. ASSUME NEW a \in Actors, PersistNow(a) PROVE Bound'
  BY <1>20, BindingAssumption DEF PersistNow, Unbind, Done, Image, Over, Job
<1>21. ASSUME NEW a \in Actors, Notice(a) PROVE Bound'
  BY <1>21, BindingAssumption DEF Notice, To
<1>22. ASSUME NEW a \in Actors, Lost(a) PROVE Bound'
  BY <1>22, BoundAfterLost
<1>23. ASSUME NEW a \in Actors, CancelToken(a) PROVE Bound'
  BY <1>23, CancelTokenDoes, BindingAssumption
<1>24. ASSUME NEW a \in Actors, EndLost(a) PROVE Bound'
  BY <1>24, BindingAssumption DEF EndLost, Unbind, Done, Over, Job
<1>25. ASSUME NEW a \in Actors, Ask(a) PROVE Bound'
  BY <1>25, BindingAssumption DEF Ask, Job
<1>26. ASSUME Restart PROVE Bound'
  BY <1>26, BindingAssumption
     DEF Restart, Idle, Over, Job, Disconnected, Writer, NoImage, NoSession
<1> QED BY <1>1, <1>2, <1>3, <1>4, <1>5, <1>6, <1>7, <1>8, <1>9, <1>10, <1>11, <1>12,
           <1>13, <1>14, <1>15, <1>16, <1>17, <1>18, <1>19, <1>20, <1>21, <1>22, <1>23,
           <1>24, <1>25, <1>26
           DEF Next, Progress, Step

(* A session at a new host forgets the context it had at the old one.    *)
LEMMA OneIdAfterInsertSession ==
  ASSUME BindingTypes, Shapes, OneId, NEW a \in Actors, InsertSession(a)
  PROVE  OneId'
<1>1. SUFFICES ASSUME NEW y \in contexts', NEW z \in contexts', y.id = z.id PROVE y = z
  BY DEF OneId
<1>2. \A x \in contexts' : \E v \in contexts : v.id = x.id /\
        x = IF v.s = job[a].s /\ v.h # job[a].h THEN [v EXCEPT !.known = FALSE] ELSE v
  <2>1. contexts \subseteq [id : 1 .. ctxCount, s : Names, h : Hosts, known : BOOLEAN]
    BY DEF BindingTypes, DataTypes
  <2> QED BY <2>1 DEF InsertSession
<1>3. PICK v \in contexts, w \in contexts :
        /\ v.id = w.id
        /\ y = IF v.s = job[a].s /\ v.h # job[a].h THEN [v EXCEPT !.known = FALSE] ELSE v
        /\ z = IF w.s = job[a].s /\ w.h # job[a].h THEN [w EXCEPT !.known = FALSE] ELSE w
  BY <1>1, <1>2
<1>4. v = w
  BY <1>3 DEF OneId
<1> QED BY <1>3, <1>4

(* A restart forgets the contexts, which remain as they are in Chrome.   *)
LEMMA OneIdAfterRestart ==
  ASSUME BindingTypes, Shapes, OneId, Restart
  PROVE  OneId'
<1>1. SUFFICES ASSUME NEW y \in contexts', NEW z \in contexts', y.id = z.id PROVE y = z
  BY DEF OneId
<1>2. PICK v \in contexts, w \in contexts :
        y = [v EXCEPT !.known = FALSE] /\ z = [w EXCEPT !.known = FALSE]
  BY DEF Restart
<1>3. v \in [id : 1 .. ctxCount, s : Names, h : Hosts, known : BOOLEAN]
      /\ w \in [id : 1 .. ctxCount, s : Names, h : Hosts, known : BOOLEAN]
  BY <1>2 DEF BindingTypes, DataTypes
<1>4. v = w
  BY <1>1, <1>2, <1>3 DEF OneId
<1> QED BY <1>2, <1>4

(* Chrome gives every BrowserContext a name of its own.                     *)
LEMMA OneIdKept ==
  ASSUME BindingTypes, Shapes, OneId, Next
  PROVE  OneId'
<1>1. ASSUME UNCHANGED contexts PROVE OneId'
  BY Zenon, <1>1 DEF OneId
<1>2. ASSUME NEW a \in Actors, Check(a) \/ Get(a) \/ TakeDial(a) \/ Dial(a) \/
             TakeBind(a) \/ Lifecycle(a) \/ Available(a) \/ ForgetSession(a) \/
             Disconnect(a) \/ Stop(a) \/ Mark(a) \/ EndDisconnect(a) \/ EndStop(a) \/
             PersistNow(a) \/ Notice(a) \/ Lost(a) \/ CancelToken(a) \/ EndLost(a) \/
             Ask(a)
      PROVE  UNCHANGED contexts
  BY Zenon, <1>2
     DEF Check, Get, TakeDial, Dial, TakeBind, Lifecycle, Available, ForgetSession,
         Disconnect, Stop, Mark, EndDisconnect, EndStop, PersistNow, Notice, Lost,
         CancelToken, EndLost, Ask, Reuse, memory, locks, disk, outside
<1>3. ASSUME Debounce \/ ReadOne \/ Write \/ WatcherEnds PROVE UNCHANGED contexts
  BY <1>3 DEF Debounce, ReadOne, Write, WatcherEnds, memory, locks, disk, outside
<1> USE DEF OneId, BindingTypes, Jobs, Holds, Locked, Binds, Cleaning, Registered,
            Shapes, Shape, Actors, Names, memory, locks, outside
<1>4. ASSUME NEW a \in Actors, CreateContext(a) PROVE OneId'
  BY <1>4, BindingAssumption DEF CreateContext, Unbind, Done, In, Over, Job
<1>5. ASSUME NEW a \in Actors, InsertSession(a) PROVE OneId'
  BY <1>5, OneIdAfterInsertSession
<1>6. ASSUME NEW a \in Actors, CloseSession(a) PROVE OneId'
  BY <1>6, BindingAssumption DEF CloseSession, Done, In, Over, Job
<1>7. ASSUME NEW a \in Actors, CleanUp(a) PROVE OneId'
  BY <1>7, BindingAssumption DEF CleanUp, In, Wanted
<1>8. ASSUME Lose PROVE OneId'
  BY <1>8, BindingAssumption DEF Lose
<1>9. ASSUME Restart PROVE OneId'
  BY <1>9, OneIdAfterRestart
<1> QED BY <1>1, <1>2, <1>3, <1>4, <1>5, <1>6, <1>7, <1>8, <1>9 DEF Next, Progress, Step

(* A context that is asked for keeps its owner.                          *)
LEMMA KnownOwnedAfterAvailable ==
  ASSUME BindingTypes, Shapes, KnownOwned, NoRivals, LocksExclude, OneId,
         NEW a \in Actors, Available(a)
  PROVE  KnownOwned'
<1>1. /\ sessions' = sessions /\ contexts' = contexts
      /\ job'[a].s = job[a].s /\ job[a].pc = "available" /\ job'[a].pc \in {"insert", "context"}
      /\ \A b \in Actors \ {a} : job'[b] = job[b]
  BY AvailableDoes DEF memory, outside
<1>2. ASSUME NEW x \in contexts, Owned(x) PROVE Owned(x)'
  BY SMTT(60), <1>1, <1>2 DEF Owned, Has, WillInsert
<1> QED BY <1>1, <1>2 DEF KnownOwned

(* A known context is that of its session, or is about to be.               *)
LEMMA KnownOwnedKept ==
  ASSUME BindingTypes, Shapes, KnownOwned, NoRivals, LocksExclude, OneId, Next
  PROVE  KnownOwned'
<1>1. ASSUME UNCHANGED <<contexts, sessions, job>> PROVE KnownOwned'
  BY <1>1
     DEF KnownOwned, NoRivals, Rival, Open, Reusable, Owned, Has, WillInsert,
         LocksExclude
<1>2. ASSUME Debounce \/ ReadOne \/ Write \/ WatcherEnds
      PROVE  UNCHANGED <<contexts, sessions, job>>
  BY <1>2 DEF Debounce, ReadOne, Write, WatcherEnds, memory, locks, disk, outside
<1> USE DEF KnownOwned, NoRivals, Rival, Open, Reusable, Owned, Has, WillInsert,
            LocksExclude, BindingTypes, DataTypes, Jobs, Holds, Locked, Binds,
            Registered, Shapes, Shape, Actors, Names, memory, locks, outside
<1>3. ASSUME NEW a \in Actors, Check(a) PROVE KnownOwned'
  BY <1>3, BindingAssumption DEF Check, Watch, Done, To, In, Over, Job
<1>4. ASSUME NEW a \in Actors, Get(a) PROVE KnownOwned'
  BY SMTT(60), <1>4, BindingAssumption DEF Get, Reuse, Watch, To, In
<1>5. ASSUME NEW a \in Actors, TakeDial(a) PROVE KnownOwned'
  BY <1>5, BindingAssumption DEF TakeDial, Reuse, Watch, To, In
<1>6. ASSUME NEW a \in Actors, Dial(a) PROVE KnownOwned'
  BY <1>6, BindingAssumption DEF Dial, Watch, Done, In, Over, Job
<1>7. ASSUME NEW a \in Actors, TakeBind(a) PROVE KnownOwned'
  BY SMTT(60), <1>7, TakeBindDoes, BindingAssumption DEF NextAfterBind
<1>8. ASSUME NEW a \in Actors, Lifecycle(a) PROVE KnownOwned'
  BY <1>8, BindingAssumption DEF Lifecycle, Unbind, Done, In, Valid, Over, Job
<1>9. ASSUME NEW a \in Actors, Available(a) PROVE KnownOwned'
  BY <1>9, KnownOwnedAfterAvailable
<1>10. ASSUME NEW a \in Actors, CreateContext(a) PROVE KnownOwned'
  BY <1>10, BindingAssumption DEF CreateContext, Unbind, Done, In, Over, Job
<1>11. ASSUME NEW a \in Actors, InsertSession(a) PROVE KnownOwned'
  BY SMTT(60), <1>11, BindingAssumption DEF InsertSession, Unbind, Done, In, Over, Job
<1>12. ASSUME NEW a \in Actors, CloseSession(a) PROVE KnownOwned'
  BY SMTT(60), <1>12, BindingAssumption DEF CloseSession, Done, In, Over, Job
<1>13. ASSUME NEW a \in Actors, ForgetSession(a) PROVE KnownOwned'
  BY SMTT(60), <1>13, BindingAssumption DEF ForgetSession, Done, In, Over, Job, NoSession
<1>14. ASSUME NEW a \in Actors, Disconnect(a) PROVE KnownOwned'
  BY <1>14, BindingAssumption DEF Disconnect, Unbind, Done, In, ListedOn, Over, Job
<1>15. ASSUME NEW a \in Actors, Stop(a) PROVE KnownOwned'
  BY <1>15, StopDoes, BindingAssumption
<1>16. ASSUME NEW a \in Actors, CleanUp(a) PROVE KnownOwned'
  BY <1>16, BindingAssumption DEF CleanUp, In, Wanted
<1>17. ASSUME NEW a \in Actors, Mark(a) PROVE KnownOwned'
  BY <1>17, MarkDoes, BindingAssumption
<1>18. ASSUME NEW a \in Actors, EndDisconnect(a) PROVE KnownOwned'
  BY <1>18, BindingAssumption DEF EndDisconnect, Unbind, Done, In, Over, Job
<1>19. ASSUME NEW a \in Actors, EndStop(a) PROVE KnownOwned'
  BY <1>19, BindingAssumption DEF EndStop, To, In
<1>20. ASSUME NEW a \in Actors, PersistNow(a) PROVE KnownOwned'
  BY <1>20, BindingAssumption DEF PersistNow, Unbind, Done, In, Image, Over, Job
<1>21. ASSUME NEW a \in Actors, Notice(a) PROVE KnownOwned'
  BY <1>21, BindingAssumption DEF Notice, To, In
<1>22. ASSUME NEW a \in Actors, Lost(a) PROVE KnownOwned'
  BY <1>22, BindingAssumption DEF Lost, Unbind, Done, To, In, Over, Job
<1>23. ASSUME NEW a \in Actors, CancelToken(a) PROVE KnownOwned'
  BY <1>23, CancelTokenDoes, BindingAssumption
<1>24. ASSUME NEW a \in Actors, EndLost(a) PROVE KnownOwned'
  BY <1>24, BindingAssumption DEF EndLost, Unbind, Done, In, Over, Job
<1>25. ASSUME NEW a \in Actors, Ask(a) PROVE KnownOwned'
  BY <1>25, BindingAssumption DEF Ask, In, Job
<1>26. ASSUME Lose PROVE KnownOwned'
  BY <1>26, BindingAssumption DEF Lose
<1>27. ASSUME Restart PROVE KnownOwned'
  BY <1>27, BindingAssumption
     DEF Restart, In, Idle, Over, Job, Disconnected, Writer, NoImage, NoSession
<1> QED BY <1>1, <1>2, <1>3, <1>4, <1>5, <1>6, <1>7, <1>8, <1>9, <1>10, <1>11, <1>12,
           <1>13, <1>14, <1>15, <1>16, <1>17, <1>18, <1>19, <1>20, <1>21, <1>22, <1>23,
           <1>24, <1>25, <1>26, <1>27
           DEF Next, Progress, Step

(* A context that is gone had no rival that is known.                    *)
LEMMA NoRivalsAfterAvailable ==
  ASSUME BindingTypes, Shapes, KnownOwned, NoRivals, LocksExclude, OneId,
         NEW a \in Actors, Available(a)
  PROVE  NoRivals'
<1>1. /\ job[a].pc = "available" /\ job'[a].pc \in {"insert", "context"}
      /\ job'[a].s = job[a].s /\ job'[a].h = job[a].h /\ job'[a].c = job[a].c /\ job'[a].ctx = job[a].ctx
      /\ job[a].locked /\ \A b \in Actors \ {a} : job'[b] = job[b]
      /\ sessions' = sessions /\ contexts' = contexts /\ closed' = closed
      /\ job'[a].pc = "context" /\ Open(job[a].c) => \A x \in contexts : x.id # job[a].ctx
  BY AvailableDoes DEF memory, outside, Shapes, Shape, Locked, Binds
<1>3. ASSUME NEW x \in contexts, x.s = job[a].s, x.h = job[a].h, x.known
      PROVE  x.id = job[a].ctx
  <2>1. ~\E b \in Actors : WillInsert(b, x)
    BY <1>1, <1>3 DEF WillInsert, LocksExclude, Shapes, Shape, Locked, Binds
  <2>2. sessions[job[a].s].ctx = x.id
    BY <1>3, <2>1 DEF KnownOwned, Owned, Has
  <2> QED BY <1>1, <2>2 DEF NoRivals, Reusable
<1>4. Reusable(a)' /\ \A x \in contexts : Rival(a, x)'
  BY <1>1, <1>3 DEF NoRivals, Reusable, Rival, Open
<1>5. \A b \in Actors \ {a} : Reusable(b)' /\ \A x \in contexts : Rival(b, x)'
  BY SMTT(60), <1>1 DEF NoRivals, Reusable, Rival, Open
<1> QED BY <1>1, <1>4, <1>5 DEF NoRivals

(* The context of a session that is closed is disposed of.               *)
LEMMA NoRivalsAfterCloseSession ==
  ASSUME BindingTypes, Shapes, KnownOwned, NoRivals, LocksExclude, OneId,
         NEW a \in Actors, CloseSession(a)
  PROVE  NoRivals'
BY SMTT(60), BindingAssumption
   DEF CloseSession, Done, In, Over, Job, NoRivals, Rival, Reusable, LocksExclude,
       Alone, BindingTypes, DataTypes, Jobs, Holds, Locked, Binds, Cleaning, Registered,
       Shapes, Shape, Actors, Names, memory, locks, disk, outside, Open

(* A session for which a context is made has no other one at that host.     *)
LEMMA NoRivalsKept ==
  ASSUME BindingTypes, Shapes, KnownOwned, NoRivals, LocksExclude, OneId, Next
  PROVE  NoRivals'
<1>1. ASSUME UNCHANGED <<job, sessions, contexts, closed>> PROVE NoRivals'
  BY <1>1
     DEF KnownOwned, NoRivals, Rival, Reusable, Owned, Has, WillInsert, LocksExclude,
         Alone, Open
<1>2. ASSUME Debounce \/ ReadOne \/ Write \/ WatcherEnds
      PROVE  UNCHANGED <<job, sessions, contexts, closed>>
  BY <1>2 DEF Debounce, ReadOne, Write, WatcherEnds, memory, locks, disk, outside
<1> USE DEF KnownOwned, NoRivals, Rival, Reusable, Owned, Has, WillInsert, LocksExclude,
            Alone, Open, BindingTypes, DataTypes, Jobs, Holds, Locked, Binds,
            Registered, Shapes, Shape, Names, memory, locks, disk, outside
<1>3. ASSUME NEW a \in Actors, Check(a) PROVE NoRivals'
  BY <1>3, BindingAssumption DEF Check, Watch, Done, To, In, Over, Job
<1>4. ASSUME NEW a \in Actors, Get(a) PROVE NoRivals'
  BY <1>4, BindingAssumption DEF Get, Reuse, Watch, To, In
<1>5. ASSUME NEW a \in Actors, TakeDial(a) PROVE NoRivals'
  BY <1>5, BindingAssumption DEF TakeDial, Reuse, Watch, To, In
<1>6. ASSUME NEW a \in Actors, Dial(a) PROVE NoRivals'
  BY SMTT(60), <1>6, BindingAssumption DEF Dial, Watch, Done, In, Over, Job
<1>7. ASSUME NEW a \in Actors, TakeBind(a) PROVE NoRivals'
  BY <1>7, TakeBindDoes, BindingAssumption DEF NextAfterBind
<1>8. ASSUME NEW a \in Actors, Lifecycle(a) PROVE NoRivals'
  BY <1>8, BindingAssumption DEF Lifecycle, Unbind, Done, In, Valid, Over, Job
<1>9. ASSUME NEW a \in Actors, Available(a) PROVE NoRivals'
  BY <1>9, NoRivalsAfterAvailable
<1>10. ASSUME NEW a \in Actors, CreateContext(a) PROVE NoRivals'
  BY <1>10, BindingAssumption DEF CreateContext, Unbind, Done, In, Over, Job
<1>11. ASSUME NEW a \in Actors, InsertSession(a) PROVE NoRivals'
  BY <1>11, BindingAssumption DEF InsertSession, Unbind, Done, In, Over, Job
<1>12. ASSUME NEW a \in Actors, CloseSession(a) PROVE NoRivals'
  BY <1>12, NoRivalsAfterCloseSession
<1>13. ASSUME NEW a \in Actors, ForgetSession(a) PROVE NoRivals'
  BY <1>13, BindingAssumption DEF ForgetSession, Done, In, Over, Job, NoSession
<1>14. ASSUME NEW a \in Actors, Disconnect(a) PROVE NoRivals'
  BY <1>14, BindingAssumption DEF Disconnect, Unbind, Done, In, ListedOn, Over, Job
<1>15. ASSUME NEW a \in Actors, Stop(a) PROVE NoRivals'
  BY <1>15, StopDoes, BindingAssumption
<1>16. ASSUME NEW a \in Actors, CleanUp(a) PROVE NoRivals'
  BY <1>16, BindingAssumption DEF CleanUp, In, Wanted
<1>17. ASSUME NEW a \in Actors, Mark(a) PROVE NoRivals'
  BY SMTT(60), <1>17, MarkDoes, BindingAssumption
<1>18. ASSUME NEW a \in Actors, EndDisconnect(a) PROVE NoRivals'
  BY <1>18, BindingAssumption DEF EndDisconnect, Unbind, Done, In, Over, Job
<1>19. ASSUME NEW a \in Actors, EndStop(a) PROVE NoRivals'
  BY <1>19, BindingAssumption DEF EndStop, To, In
<1>20. ASSUME NEW a \in Actors, PersistNow(a) PROVE NoRivals'
  BY <1>20, BindingAssumption DEF PersistNow, Unbind, Done, In, Image, Over, Job
<1>21. ASSUME NEW a \in Actors, Notice(a) PROVE NoRivals'
  BY <1>21, BindingAssumption DEF Notice, To, In
<1>22. ASSUME NEW a \in Actors, Lost(a) PROVE NoRivals'
  BY <1>22, BindingAssumption DEF Lost, Unbind, Done, To, In, Over, Job
<1>23. ASSUME NEW a \in Actors, CancelToken(a) PROVE NoRivals'
  BY <1>23, CancelTokenDoes, BindingAssumption
<1>24. ASSUME NEW a \in Actors, EndLost(a) PROVE NoRivals'
  BY <1>24, BindingAssumption DEF EndLost, Unbind, Done, In, Over, Job
<1>25. ASSUME NEW a \in Actors, Ask(a) PROVE NoRivals'
  BY <1>25, BindingAssumption DEF Ask, In, Job
<1>26. ASSUME Lose PROVE NoRivals'
  BY <1>26, BindingAssumption DEF Lose
<1>27. ASSUME Restart PROVE NoRivals'
  BY ZenonT(60), <1>27, BindingAssumption
     DEF Restart, In, Idle, Over, Job, Disconnected, Writer, NoImage, NoSession
<1> QED BY <1>1, <1>2, <1>3, <1>4, <1>5, <1>6, <1>7, <1>8, <1>9, <1>10, <1>11, <1>12,
           <1>13, <1>14, <1>15, <1>16, <1>17, <1>18, <1>19, <1>20, <1>21, <1>22, <1>23,
           <1>24, <1>25, <1>26, <1>27
           DEF Next, Progress, Step

(* A session is inserted where there is room for it.                     *)
LEMMA FirstRunLimitAfterInsertSession ==
  ASSUME BindingTypes, Shapes, FirstRunLimit, Room, NEW a \in Actors, InsertSession(a)
  PROVE  FirstRunLimit'
<1>1. /\ run' = run /\ job[a].pc = "insert" /\ job[a].s \in Names
      /\ \A t \in Names \ {job[a].s} : sessions'[t] = sessions[t]
  BY DEF InsertSession, In, BindingTypes, DataTypes, Jobs, Holds, Locked, Binds,
         Cleaning, Registered, Shapes, Shape, Actors, Names, memory, locks, disk,
         outside
<1>2. Isolateds' \subseteq Isolateds \cup {job[a].s}
  BY <1>1 DEF Isolateds, Names
<1>3. CASE job[a].s \in Named /\ sessions[job[a].s].state = "none"
  <2>1. Cardinality(Isolateds) < MaxSessions
    BY <1>1, <1>3 DEF Room
  <2> QED BY <1>2, <2>1, GrowsByOne, BindingAssumption DEF FirstRunLimit
<1>4. CASE ~(job[a].s \in Named /\ sessions[job[a].s].state = "none")
  <2>1. Isolateds' \subseteq Isolateds
    BY <1>1, <1>2, <1>4 DEF Isolateds, Names
  <2> QED BY <1>1, <2>1, Shrinks, BindingAssumption DEF FirstRunLimit
<1> QED BY <1>3, <1>4

(* Closing a session makes room.                                         *)
LEMMA FirstRunLimitAfterForgetSession ==
  ASSUME BindingTypes, Shapes, FirstRunLimit, Room, NEW a \in Actors, ForgetSession(a)
  PROVE  FirstRunLimit'
<1>1. run' = run /\ Isolateds' \subseteq Isolateds
  BY DEF ForgetSession, NoSession, Isolateds, BindingTypes, DataTypes, Jobs, Holds,
         Locked, Binds, Cleaning, Registered, Shapes, Shape, Actors, Names, memory,
         locks, disk, outside
<1> QED BY <1>1, Shrinks, BindingAssumption DEF FirstRunLimit

(* Without a restart the limit on isolated sessions holds.                  *)
LEMMA FirstRunLimitKept ==
  ASSUME BindingTypes, Shapes, FirstRunLimit, Room, Next
  PROVE  FirstRunLimit'
<1>1. ASSUME UNCHANGED <<run, sessions>> PROVE FirstRunLimit'
  <2>1. Isolateds' = Isolateds
    BY Zenon, <1>1 DEF Isolateds
  <2> QED BY <1>1, <2>1 DEF FirstRunLimit
<1>2. ASSUME NEW a \in Actors, Check(a) \/ Get(a) \/ TakeDial(a) \/ Dial(a) \/
             TakeBind(a) \/ Lifecycle(a) \/ Available(a) \/ CreateContext(a) \/
             CloseSession(a) \/ Disconnect(a) \/ Stop(a) \/ CleanUp(a) \/
             EndDisconnect(a) \/ EndStop(a) \/ PersistNow(a) \/ Notice(a) \/ Lost(a) \/
             CancelToken(a) \/ EndLost(a) \/ Ask(a)
      PROVE  UNCHANGED <<run, sessions>>
  BY Zenon, <1>2
     DEF Check, Get, TakeDial, Dial, TakeBind, Lifecycle, Available, CreateContext,
         CloseSession, Disconnect, Stop, CleanUp, EndDisconnect, EndStop, PersistNow,
         Notice, Lost, CancelToken, EndLost, Ask, Reuse, memory, locks, disk, outside
<1>3. ASSUME Debounce \/ ReadOne \/ Write \/ WatcherEnds \/ Lose
      PROVE  UNCHANGED <<run, sessions>>
  BY <1>3 DEF Debounce, ReadOne, Write, WatcherEnds, Lose, memory, locks, disk, outside
<1> USE DEF FirstRunLimit
<1>4. ASSUME NEW a \in Actors, InsertSession(a) PROVE FirstRunLimit'
  BY <1>4, FirstRunLimitAfterInsertSession
<1>5. ASSUME NEW a \in Actors, ForgetSession(a) PROVE FirstRunLimit'
  BY <1>5, FirstRunLimitAfterForgetSession
<1>6. ASSUME NEW a \in Actors, Mark(a) PROVE FirstRunLimit'
  <2>1. Isolateds' = Isolateds
    BY <1>6, MarkDoes DEF Isolateds, Names
  <2>2. run' = run
    BY <1>6, MarkDoes DEF outside
  <2> QED BY <2>1, <2>2
<1>7. ASSUME Restart PROVE FirstRunLimit'
  BY <1>7
     DEF Restart, BindingTypes, DataTypes, Jobs, Holds, Locked, Binds, Cleaning,
         Registered, Shapes, Shape, Actors, Names, memory, locks, disk, outside
<1> QED BY <1>1, <1>2, <1>3, <1>4, <1>5, <1>6, <1>7 DEF Next, Progress, Step

(* A session that has a context to ask for is on the list already.       *)
LEMMA RoomAfterAvailable ==
  ASSUME BindingTypes, Shapes, Room, NoRivals, LocksExclude, NEW a \in Actors,
         Available(a)
  PROVE  Room'
<1>1. Isolateds' = Isolateds
  BY AvailableDoes DEF Isolateds, memory
<1>2. /\ sessions' = sessions
      /\ job'[a].s = job[a].s /\ job[a].pc = "available" /\ job'[a].pc \in {"insert", "context"}
      /\ \A b \in Actors \ {a} : job'[b] = job[b]
  BY AvailableDoes DEF memory, outside
<1>3. sessions[job[a].s].state # "none"
  BY <1>2 DEF NoRivals, Reusable
<1> QED BY <1>1, <1>2, <1>3 DEF Room

(* Closing a session takes no room from a connect of another one.        *)
LEMMA RoomAfterForgetSession ==
  ASSUME BindingTypes, Shapes, Room, NoRivals, LocksExclude, NEW a \in Actors,
         ForgetSession(a)
  PROVE  Room'
<1>1. Isolateds' \subseteq Isolateds
  BY DEF ForgetSession, NoSession, Isolateds, BindingTypes, DataTypes, Jobs, Holds,
         Locked, Binds, Cleaning, Registered, Shapes, Shape, Actors, Names, memory,
         locks, disk, outside
<1>2. /\ \A b \in Actors \ {a} : job'[b] = job[b]
      /\ job'[a].pc = "done" /\ job[a].locked
      /\ \A t \in Names \ {job[a].s} : sessions'[t] = sessions[t]
  BY DEF ForgetSession, Done, Over, Job, In, BindingTypes, DataTypes, Jobs, Holds,
         Locked, Binds, Cleaning, Registered, Shapes, Shape, Actors, Names, memory,
         locks, disk, outside
<1>3. SUFFICES ASSUME NEW b \in Actors, job'[b].pc \in {"context", "insert"}, job'[b].s \in Named,
                      sessions'[job'[b].s].state = "none"
               PROVE  Cardinality(Isolateds)' < MaxSessions
  BY DEF Room
<1>4. b # a /\ job[b].pc \in {"context", "insert"} /\ job[b].s \in Named /\ job[b].locked
  BY <1>2, <1>3 DEF Shapes, Shape, Locked, Binds
<1>5. job[b].s # job[a].s
  BY <1>2, <1>4 DEF LocksExclude
<1>6. Cardinality(Isolateds) < MaxSessions
  BY SMTT(60), <1>2, <1>3, <1>4, <1>5 DEF Room, Names
<1> QED BY <1>1, <1>6, Shrinks, BindingAssumption

(* The limit that a connect has checked still holds when it inserts its     *)
(* session.                                                                 *)
LEMMA RoomKept ==
  ASSUME BindingTypes, Shapes, Room, NoRivals, LocksExclude, Next
  PROVE  Room'
<1>1. ASSUME UNCHANGED <<job, sessions>> PROVE Room'
  <2>1. Isolateds' = Isolateds
    BY Zenon, <1>1 DEF Isolateds
  <2> QED BY <1>1, <2>1 DEF Room
<1>2. ASSUME Debounce \/ ReadOne \/ Write \/ WatcherEnds \/ Lose
      PROVE  UNCHANGED <<job, sessions>>
  BY <1>2 DEF Debounce, ReadOne, Write, WatcherEnds, Lose, memory, locks, disk, outside
<1> USE DEF Room, BindingTypes, Jobs, Holds, Locked, Binds, Cleaning, Registered,
            Shapes, Shape, Actors, Names, memory, locks, disk, outside
<1>3. ASSUME NEW a \in Actors, Check(a) PROVE Room'
  <2>1. Isolateds' = Isolateds
    BY <1>3 DEF Isolateds, Check, Reuse
  <2> QED BY <1>3, <2>1, BindingAssumption DEF Check, Watch, Done, To, In, Over, Job
<1>4. ASSUME NEW a \in Actors, Get(a) PROVE Room'
  <2>1. Isolateds' = Isolateds
    BY <1>4 DEF Isolateds, Get, Reuse
  <2> QED BY <1>4, <2>1, BindingAssumption DEF Get, Reuse, Watch, To, In
<1>5. ASSUME NEW a \in Actors, TakeDial(a) PROVE Room'
  <2>1. Isolateds' = Isolateds
    BY <1>5 DEF Isolateds, TakeDial, Reuse
  <2> QED BY <1>5, <2>1, BindingAssumption DEF TakeDial, Reuse, Watch, To, In
<1>6. ASSUME NEW a \in Actors, Dial(a) PROVE Room'
  <2>1. Isolateds' = Isolateds
    BY <1>6 DEF Isolateds, Dial, Reuse
  <2> QED BY <1>6, <2>1, BindingAssumption DEF Dial, Watch, Done, In, Over, Job
<1>7. ASSUME NEW a \in Actors, TakeBind(a) PROVE Room'
  BY SMTT(60), <1>7, TakeBindDoes, BindingAssumption DEF NextAfterBind
<1>8. ASSUME NEW a \in Actors, Lifecycle(a) PROVE Room'
  BY <1>8, BindingAssumption DEF Lifecycle, Unbind, Done, In, Valid, Over, Job
<1>9. ASSUME NEW a \in Actors, Available(a) PROVE Room'
  BY <1>9, RoomAfterAvailable
<1>10. ASSUME NEW a \in Actors, CreateContext(a) PROVE Room'
  BY <1>10, BindingAssumption DEF CreateContext, Unbind, Done, In, Over, Job
<1>11. ASSUME NEW a \in Actors, InsertSession(a) PROVE Room'
  BY <1>11, BindingAssumption DEF InsertSession, Unbind, Done, In, Over, Job
<1>12. ASSUME NEW a \in Actors, CloseSession(a) PROVE Room'
  <2>1. Isolateds' = Isolateds
    BY <1>12 DEF Isolateds, CloseSession, Reuse
  <2> QED BY <1>12, <2>1, BindingAssumption DEF CloseSession, Done, In, Over, Job
<1>13. ASSUME NEW a \in Actors, ForgetSession(a) PROVE Room'
  BY <1>13, RoomAfterForgetSession
<1>14. ASSUME NEW a \in Actors, Disconnect(a) PROVE Room'
  BY <1>14, BindingAssumption DEF Disconnect, Unbind, Done, In, ListedOn, Over, Job
<1>15. ASSUME NEW a \in Actors, Stop(a) PROVE Room'
  BY <1>15, StopDoes, BindingAssumption
<1>16. ASSUME NEW a \in Actors, CleanUp(a) PROVE Room'
  BY <1>16, BindingAssumption DEF CleanUp, In, Wanted
<1>17. ASSUME NEW a \in Actors, Mark(a) PROVE Room'
  BY <1>17, MarkDoes, BindingAssumption
<1>18. ASSUME NEW a \in Actors, EndDisconnect(a) PROVE Room'
  BY <1>18, BindingAssumption DEF EndDisconnect, Unbind, Done, In, Over, Job
<1>19. ASSUME NEW a \in Actors, EndStop(a) PROVE Room'
  BY <1>19, BindingAssumption DEF EndStop, To, In
<1>20. ASSUME NEW a \in Actors, PersistNow(a) PROVE Room'
  BY <1>20, BindingAssumption DEF PersistNow, Unbind, Done, In, Image, Over, Job
<1>21. ASSUME NEW a \in Actors, Notice(a) PROVE Room'
  <2>1. Isolateds' = Isolateds
    BY <1>21 DEF Isolateds, Notice, Reuse
  <2> QED BY <1>21, <2>1, BindingAssumption DEF Notice, To, In
<1>22. ASSUME NEW a \in Actors, Lost(a) PROVE Room'
  BY <1>22, BindingAssumption DEF Lost, Unbind, Done, To, In, Over, Job
<1>23. ASSUME NEW a \in Actors, CancelToken(a) PROVE Room'
  BY <1>23, CancelTokenDoes, BindingAssumption
<1>24. ASSUME NEW a \in Actors, EndLost(a) PROVE Room'
  BY <1>24, BindingAssumption DEF EndLost, Unbind, Done, In, Over, Job
<1>25. ASSUME NEW a \in Actors, Ask(a) PROVE Room'
  <2>1. Isolateds' = Isolateds
    BY <1>25 DEF Isolateds, Ask, Reuse
  <2> QED BY <1>25, <2>1, BindingAssumption DEF Ask, In, Job
<1>26. ASSUME Restart PROVE Room'
  BY SMTT(60), <1>26, BindingAssumption
     DEF Restart, In, Idle, Over, Job, Disconnected, Writer, NoImage, NoSession
<1> QED BY <1>1, <1>2, <1>3, <1>4, <1>5, <1>6, <1>7, <1>8, <1>9, <1>10, <1>11, <1>12,
           <1>13, <1>14, <1>15, <1>16, <1>17, <1>18, <1>19, <1>20, <1>21, <1>22, <1>23,
           <1>24, <1>25, <1>26
           DEF Next, Progress, Step

(* What the file lacks is signalled, or being written.                      *)
LEMMA DiskFollowsKept ==
  ASSUME BindingTypes, Shapes, DiskFollows, Next
  PROVE  DiskFollows'
<1>1. ASSUME UNCHANGED <<signal, writer, stale, sessions, file>> PROVE DiskFollows'
  BY Zenon, <1>1 DEF DiskFollows, KeptOf
<1>2. ASSUME NEW a \in Actors, Check(a) \/ Get(a) \/ TakeDial(a) \/ Dial(a) \/
             TakeBind(a) \/ Available(a) \/ CreateContext(a) \/ CloseSession(a) \/
             Disconnect(a) \/ Stop(a) \/ CleanUp(a) \/ Notice(a) \/ Lost(a) \/
             CancelToken(a) \/ Ask(a)
      PROVE  UNCHANGED <<signal, writer, stale, sessions, file>>
  BY Zenon, <1>2
     DEF Check, Get, TakeDial, Dial, TakeBind, Available, CreateContext, CloseSession,
         Disconnect, Stop, CleanUp, Notice, Lost, CancelToken, Ask, Reuse, memory,
         locks, disk, outside
<1>3. ASSUME WatcherEnds \/ Lose
      PROVE  UNCHANGED <<signal, writer, stale, sessions, file>>
  BY <1>3 DEF WatcherEnds, Lose, memory, locks, disk, outside
<1> USE DEF DiskFollows, KeptOf, BindingTypes, DataTypes, Jobs, Holds, Locked, Binds,
            Cleaning, Registered, Shapes, Shape, Names, memory, locks, disk, outside
<1>4. ASSUME NEW a \in Actors, Lifecycle(a) PROVE DiskFollows'
  BY <1>4, BindingAssumption DEF Lifecycle, Unbind, Done, In, Valid, Over, Job
<1>5. ASSUME NEW a \in Actors, InsertSession(a) PROVE DiskFollows'
  BY <1>5, BindingAssumption DEF InsertSession, Unbind, Done, In, Over, Job
<1>6. ASSUME NEW a \in Actors, ForgetSession(a) PROVE DiskFollows'
  BY <1>6, BindingAssumption DEF ForgetSession, Done, In, Over, Job, NoSession
<1>7. ASSUME NEW a \in Actors, Mark(a) PROVE DiskFollows'
  BY <1>7, MarkDoes, BindingAssumption
<1>8. ASSUME NEW a \in Actors, EndDisconnect(a) PROVE DiskFollows'
  BY <1>8, BindingAssumption DEF EndDisconnect, Unbind, Done, In, Over, Job
<1>9. ASSUME NEW a \in Actors, EndStop(a) PROVE DiskFollows'
  BY <1>9, BindingAssumption DEF EndStop, To, In
<1>10. ASSUME NEW a \in Actors, PersistNow(a) PROVE DiskFollows'
  BY <1>10, BindingAssumption DEF PersistNow, Unbind, Done, In, Image, Over, Job
<1>11. ASSUME NEW a \in Actors, EndLost(a) PROVE DiskFollows'
  BY <1>11, BindingAssumption DEF EndLost, Unbind, Done, In, Over, Job
<1>12. ASSUME Debounce PROVE DiskFollows'
  BY <1>12, BindingAssumption DEF Debounce, Writer, NoImage, NoSession
<1>13. ASSUME ReadOne PROVE DiskFollows'
  BY <1>13, BindingAssumption DEF ReadOne
<1>14. ASSUME Write PROVE DiskFollows'
  BY <1>14, BindingAssumption DEF Write, Writer, NoImage, NoSession
<1>15. ASSUME Restart PROVE DiskFollows'
  BY <1>15, BindingAssumption
     DEF Restart, In, Idle, Over, Job, Disconnected, Writer, NoImage, NoSession
<1> QED BY <1>1, <1>2, <1>3, <1>4, <1>5, <1>6, <1>7, <1>8, <1>9, <1>10, <1>11, <1>12,
           <1>13, <1>14, <1>15
           DEF Next, Progress, Step

(* The invariant holds at the start, ...                                 *)
LEMMA BindingStarts == ASSUME Init PROVE BindingInv
<1> USE DEF Init
<1>1. Idle \in Jobs /\ NoSession \in Stored /\ NoImage \in [Names -> Stored]
  BY DEF Idle, Job, Jobs, Holds, NoSession, NoImage, Stored, Names
<1>2. DataTypes
  <2>1. writer \in [pc : {"waiting", "reading"}, read : SUBSET Names, image : [Names -> Stored]]
    BY <1>1 DEF Writer
  <2>2. browsers \in [Hosts -> 0 .. made] /\ watchers \in [Hosts -> 0 .. made]
    OBVIOUS
  <2> QED BY <1>1, <2>1, <2>2 DEF DataTypes
<1>3. BindingTypes
  BY <1>1, <1>2 DEF BindingTypes
<1>4. Shapes /\ LocksExclude /\ IsWatched
  BY BindingAssumption
     DEF Shapes, Shape, LocksExclude, IsWatched, Idle, Job, Holds, Locked, Binds,
         Cleaning,
    Registered, Actors
<1>5. Listed /\ LeftIsCovered /\ HostKept /\ Bound
  BY DEF Listed, LeftIsCovered, HostKept, Bound, Idle, Job, Cleaning, Binds, NoImage,
         NoSession
<1>6. OneId /\ KnownOwned /\ NoRivals
  BY DEF OneId, KnownOwned, NoRivals, Reusable, Rival, Idle, Job
<1>7. FirstRunLimit /\ Room
  <2>1. Isolateds = {}
    BY DEF Isolateds, NoImage, NoSession, Names
  <2> QED BY <2>1, FS_EmptySet, BindingAssumption DEF FirstRunLimit, Room, Idle, Job
<1>8. DiskFollows
  BY DEF DiskFollows, KeptOf, NoImage, Writer
<1> QED BY <1>3, <1>4, <1>5, <1>6, <1>7, <1>8 DEF BindingInv

(* ... after every step, ...                                             *)
LEMMA BindingKept == ASSUME BindingInv, Next PROVE BindingInv'
<1>1. BindingTypes' /\ Shapes'
  BY SMTT(60), TypesKept DEF BindingInv
<1> QED BY <1>1, LocksExcludeKept, IsWatchedKept, ListedKept, LeftIsCoveredKept,
           HostKeptKept, BoundKept,
       OneIdKept, KnownOwnedKept, NoRivalsKept, FirstRunLimitKept, RoomKept, DiskFollowsKept DEF BindingInv

(* ... when nothing changes, ...                                         *)
LEMMA BindingStill == ASSUME BindingInv, UNCHANGED bindingVars PROVE BindingInv'
BY DEF BindingInv, BindingTypes, DataTypes, Stored, Jobs, Shapes, Shape, LocksExclude,
       IsWatched, Listed,
  LeftIsCovered, Covered, HostKept, Bound, WillMark, In, OneId, KnownOwned, Owned, Has, WillInsert, NoRivals,
  Reusable, Rival, Open, FirstRunLimit, Room, Isolateds, DiskFollows, bindingVars, memory, locks, disk, outside

(* ... and it gives what BindingIsSound says.                            *)
LEMMA BindingInvSound == ASSUME BindingInv PROVE BindingIsSound
<1> USE DEF BindingInv
<1>1. TypeOK
  BY DEF TypeOK, BindingTypes, DataTypes, Stored, NoSession
<1>2. ConnectedHasBrowser
  BY DEF ConnectedHasBrowser, Bound, IsWatched, Registered, BindingTypes, DataTypes,
         Stored, NoSession
<1>3. OneBinding
  <2>1. ASSUME NEW s \in Names, NEW h \in Hosts
        PROVE  Cardinality({x \in contexts : x.known /\ x.s = s /\ x.h = h}) <= 1
    <3> DEFINE C == {x \in contexts : x.known /\ x.s = s /\ x.h = h}
    <3>1. ASSUME NEW x \in C, NEW y \in C PROVE x = y
      <4>1. Owned(x) /\ Owned(y) /\ x.s = s /\ y.s = s /\ x.h = h /\ y.h = h /\ x.known /\ y.known
        BY DEF KnownOwned
      <4>2. ASSUME NEW a \in Actors, WillInsert(a, x) PROVE y.id = x.id
        BY <4>1, <4>2 DEF WillInsert, NoRivals, Rival
      <4>3. ASSUME NEW a \in Actors, WillInsert(a, y) PROVE y.id = x.id
        BY <4>1, <4>3 DEF WillInsert, NoRivals, Rival
      <4>4. x.id = y.id
        BY <4>1, <4>2, <4>3 DEF Owned, Has
      <4> QED BY <4>4 DEF OneId
    <3>2. CASE C = {}
      <4>1. Cardinality({}) = 0
        BY FS_EmptySet
      <4> QED BY <3>2, <4>1
    <3>3. CASE C # {}
      <4>1. PICK x : C = {x}
        BY <3>1, <3>3
      <4>2. Cardinality({x}) = 1
        BY FS_Singleton
      <4> QED BY <4>1, <4>2
    <3> QED BY <3>2, <3>3
  <2>2. run = 0 => Cardinality(Isolateds) <= MaxSessions
    BY DEF FirstRunLimit
  <2>3. \A a \in Actors :
          In(a, "insert") /\ job[a].s \in Named /\ sessions[job[a].s].state = "none" =>
            Cardinality(Isolateds) < MaxSessions
    BY DEF Room, In
  <2> QED BY <2>1, <2>2, <2>3 DEF OneBinding
<1>4. DiskCatchesUp
  BY DEF DiskCatchesUp, Kept, DiskFollows, KeptOf
<1> QED BY <1>1, <1>2, <1>3, <1>4 DEF BindingIsSound

-----------------------------------------------------------------------------
(* A connected session has a registered browser that is alive or whose     *)
(* loss is being handled (state.rs, connect.rs), concurrent connects make  *)
(* one BrowserContext for a session at a host and respect the limit on     *)
(* isolated sessions, and when nothing is under way state.json lists the   *)
(* sessions there are unless its last write failed (persist.rs).           *)
THEOREM BindingSound == Spec => []BindingIsSound
<1>1. BindingInv /\ [Next]_bindingVars => BindingInv'
  BY BindingKept, BindingStill
<1> QED BY <1>1, BindingStarts, BindingInvSound, PTL DEF Spec
===============================================================================
