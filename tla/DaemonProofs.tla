----------------------------- MODULE DaemonProofs -----------------------------
(***************************************************************************)
(* What MCDaemon checks of commands, of the daemon and client processes,   *)
(* of the launch of a browser and of its discovery, and of the daemon's    *)
(* waits, downloads, watches, console logs and storage commands, proved    *)
(* for every value of its constants: for each of the nine an inductive     *)
(* invariant, and with them the theorems about the components side by side.*)
(***************************************************************************)
EXTENDS MCDaemon, DaemonPartsProofs

-----------------------------------------------------------------------------
(* A command from its arguments to its answer (DaemonCommands).            *)

(* Of one leaf of the Command enum: the daemon allows every field the CLI  *)
(* may send, what the command accepts it passes on, and it runs under its  *)
(* session's lock if it works on a tab.                                    *)
RowAgrees(row) ==
  /\ row.cmd = "act" \/ row.always \cup row.maybe \cup row.passes \subseteq Commanding!Allowed(row.cmd)
  /\ \A option \in Commanding!Options : Commanding!Supports(row.name, option) => option \in row.passes
  /\ "session" \notin row.always \cup row.maybe
  /\ IF "target" \in Commanding!Allowed(row.cmd) \/ row.cmd = "act"
     THEN Commanding!SessionBound(row.cmd)
     ELSE row.cmd = "session.close" <=> row.name = "session-close"

(* It holds of the rows of tabs, pages and their input (commands.rs).      *)
LEMMA PageRowsAgree == \A row \in Commanding!PageRows : RowAgrees(row)
BY DEF RowAgrees, Commanding!PageRows, Commanding!Row, Commanding!Both, Commanding!Options,
       Commanding!Supports, Commanding!UsesSession, Commanding!UsesTarget, Commanding!UsesTimeout,
       Commanding!Allowed, Commanding!AllowedOfTabs, Commanding!AllowedOfTools, Commanding!SessionBound

(* ... of the rows of effects on a page,                                   *)
LEMMA EffectRowsAgree == \A row \in Commanding!EffectRows : RowAgrees(row)
BY DEF RowAgrees, Commanding!EffectRows, Commanding!Row, Commanding!Both, Commanding!Options,
       Commanding!Supports, Commanding!UsesSession, Commanding!UsesTarget, Commanding!UsesTimeout,
       Commanding!Allowed, Commanding!AllowedOfTabs, Commanding!AllowedOfTools, Commanding!SessionBound

(* ... of those that wait,                                                 *)
LEMMA WaitRowsAgree == \A row \in Commanding!WaitRows : RowAgrees(row)
BY DEF RowAgrees, Commanding!WaitRows, Commanding!Row, Commanding!Both, Commanding!Options,
       Commanding!Supports, Commanding!UsesSession, Commanding!UsesTarget, Commanding!UsesTimeout,
       Commanding!Allowed, Commanding!AllowedOfTabs, Commanding!AllowedOfTools, Commanding!SessionBound

(* ... of those of sessions,                                               *)
LEMMA SessionRowsAgree == \A row \in Commanding!SessionRows : RowAgrees(row)
BY DEF RowAgrees, Commanding!SessionRows, Commanding!Row, Commanding!Both, Commanding!Options,
       Commanding!Supports, Commanding!UsesSession, Commanding!UsesTarget, Commanding!UsesTimeout,
       Commanding!Allowed, Commanding!AllowedOfTabs, Commanding!AllowedOfTools, Commanding!SessionBound

(* ... of those of browsers,                                               *)
LEMMA BrowserRowsAgree == \A row \in Commanding!BrowserRows : RowAgrees(row)
BY DEF RowAgrees, Commanding!BrowserRows, Commanding!Row, Commanding!Both, Commanding!Options,
       Commanding!Supports, Commanding!UsesSession, Commanding!UsesTarget, Commanding!UsesTimeout,
       Commanding!Allowed, Commanding!AllowedOfTabs, Commanding!AllowedOfTools, Commanding!SessionBound

(* ... of those that read a page,                                          *)
LEMMA InspectRowsAgree == \A row \in Commanding!InspectRows : RowAgrees(row)
BY DEF RowAgrees, Commanding!InspectRows, Commanding!Row, Commanding!Both, Commanding!Options,
       Commanding!Supports, Commanding!UsesSession, Commanding!UsesTarget, Commanding!UsesTimeout,
       Commanding!Allowed, Commanding!AllowedOfTabs, Commanding!AllowedOfTools, Commanding!SessionBound

(* ... and of those of dialogs.                                            *)
LEMMA DialogRowsAgree == \A row \in Commanding!DialogRows : RowAgrees(row)
BY DEF RowAgrees, Commanding!DialogRows, Commanding!Row, Commanding!Both, Commanding!Options,
       Commanding!Supports, Commanding!UsesSession, Commanding!UsesTarget, Commanding!UsesTimeout,
       Commanding!Allowed, Commanding!AllowedOfTabs, Commanding!AllowedOfTools, Commanding!SessionBound

(* Every command of the CLI agrees with what the daemon allows.            *)
LEMMA RowsAgree == \A row \in Commanding!Rows : RowAgrees(row)
BY PageRowsAgree, EffectRowsAgree, WaitRowsAgree, SessionRowsAgree, BrowserRowsAgree,
   InspectRowsAgree, DialogRowsAgree DEF Commanding!Rows

(* The leaf of the Command enum that runs.                                 *)
TheRow == Commanding!RowOf(cli.name)

(* What a command is made of: a row and fields and options it has.         *)
CommandTypes ==
  /\ TheRow \in Commanding!Rows /\ TheRow.name = cli.name
  /\ cli.given \subseteq TheRow.maybe /\ cli.options \subseteq Commanding!Options
  /\ cli.append \in BOOLEAN /\ cli.timeout \in Nat
  /\ cliRequest.timeout \in Nat
  /\ cliPc \in {"cli", "build", "sent", "handled", "append", "ended"}
  /\ cliFile \in Nat

(* What holds of a command at its stages: its options are supported once   *)
(* they are checked, its request is its row with the fields given, and its *)
(* file grows only once it ends.                                           *)
CommandProgress ==
  /\ cliPc \in {"build", "sent", "handled"} =>
       \A option \in cli.options : Commanding!Supports(cli.name, option)
  /\ cliPc \in {"sent", "handled"} =>
       /\ cliRequest.cmd = TheRow.cmd
       /\ cliRequest.fields = TheRow.always \cup cli.given \cup (cli.options \cap TheRow.passes)
       /\ "timeout" \in cli.options => cliRequest.timeout = cli.timeout
  /\ cliPc = "append" => cli.append
  /\ cliPc # "ended" => cliAnswer \in {"none", "ok"}
  /\ cliPc # "ended" \/ cliAnswer = "retry-is-safe" => cliFile = 0

(* The invariant of a command, with the four properties that it carries.   *)
CommandInvariant ==
  /\ CommandTypes /\ CommandProgress
  /\ Commanding!RequestsAreAccepted /\ Commanding!SessionIsLocked
  /\ Commanding!ClientIsPatient /\ Commanding!AppendsOnce

(* A command starts with an existing row, and numbers for its times.       *)
LEMMA CommandStarts == Commanding!CommandInit => CommandInvariant
<1> SUFFICES ASSUME Commanding!CommandInit PROVE CommandInvariant
  OBVIOUS
<1>1. PICK name \in {row.name : row \in Commanding!Rows} :
     \E got \in SUBSET Commanding!RowOf(name).maybe, opts \in SUBSET Commanding!Options,
        timeout \in Timeouts, append \in BOOLEAN :
       cli = [name |-> name, given |-> got, options |-> opts, append |-> append,
                 timeout |-> IF "timeout" \in opts THEN timeout ELSE 0]
  BY ZenonT(60) DEF Commanding!CommandInit
<1>2. cli.name = name /\ cli.given \subseteq TheRow.maybe /\ cli.options \subseteq Commanding!Options
      /\ cli.append \in BOOLEAN /\ cli.timeout \in Nat
  BY <1>1, CommandAssumption DEF TheRow
<1>3. TheRow \in Commanding!Rows /\ TheRow.name = cli.name
  BY <1>2 DEF TheRow, Commanding!RowOf
<1>4. cliRequest.timeout = 0 /\ cliPc = "cli" /\ cliAnswer = "none" /\ cliFile = 0
  BY SMTT(60) DEF Commanding!CommandInit, Commanding!NoRequest
<1> QED
  BY <1>2, <1>3, <1>4, CommandAssumption
     DEF CommandInvariant, CommandTypes, CommandProgress, Commanding!RequestsAreAccepted,
         Commanding!SessionIsLocked, Commanding!ClientIsPatient, Commanding!AppendsOnce

(* Each step of client and daemon keeps it.                                *)
LEMMA CommandNext == CommandInvariant /\ [Commanding!CommandNext]_(Commanding!cliVars) => CommandInvariant'
<1> SUFFICES ASSUME CommandInvariant, [Commanding!CommandNext]_(Commanding!cliVars)
             PROVE  CommandInvariant'
  OBVIOUS
<1> USE DEF CommandInvariant, CommandTypes, CommandProgress, TheRow, Commanding!RequestsAreAccepted,
         Commanding!SessionIsLocked, Commanding!ClientIsPatient, Commanding!AppendsOnce
<1>1. CASE Commanding!Scope
  BY <1>1 DEF Commanding!Scope
<1>2. CASE Commanding!CannotBuild
  BY <1>2 DEF Commanding!CannotBuild
<1>3. CASE Commanding!Build
  BY <1>3, RowsAgree DEF Commanding!Build, RowAgrees
<1>4. CASE Commanding!Refuse
  BY <1>4, RowsAgree DEF Commanding!Refuse, Commanding!WellFormed, RowAgrees
<1>5. CASE Commanding!Dispatch
  <2>1. RowAgrees(TheRow) /\ cliPc = "sent" /\ cliPc' = "handled"
        /\ UNCHANGED <<cli, cliRequest, json, cliAnswer, cliFile, runs>>
    BY <1>5, RowsAgree DEF Commanding!Dispatch
  <2>2. "session" \in cliRequest.fields <=> "session" \in cli.options
    BY <2>1 DEF RowAgrees, Commanding!Options
  <2>3. Commanding!SessionIsLocked'
    <3>1. CASE Commanding!SessionBound(cliRequest.cmd)
      <4>1. /\ lock'.of = IF "session" \in cli.options THEN "named" ELSE "default"
            /\ lock'.mode = "write" <=> cliRequest.cmd = "session.close"
        BY <1>5, <2>2, <3>1 DEF Commanding!Dispatch, Commanding!SessionOf
      <4> QED BY <2>1, <4>1 DEF RowAgrees
    <3>2. CASE ~Commanding!SessionBound(cliRequest.cmd)
      <4>1. lock'.mode = "none" /\ cliRequest.cmd # "session.close"
        BY <1>5, <3>2 DEF Commanding!Dispatch, Commanding!SessionBound
      <4> QED BY <2>1, <3>2, <4>1 DEF RowAgrees
    <3> QED BY <3>1, <3>2
  <2> QED BY <2>1, <2>3
<1>6. CASE Commanding!Answer
  BY <1>6 DEF Commanding!Answer
<1>7. CASE Commanding!GiveUp
  BY <1>7 DEF Commanding!GiveUp, Commanding!Takes, Commanding!Patience, Commanding!Bigger, Commanding!Smaller
<1>8. CASE Commanding!RefuseAppend
  BY <1>8 DEF Commanding!RefuseAppend
<1>9. CASE Commanding!Write
  BY <1>9, CommandAssumption DEF Commanding!Write
<1>10. CASE Commanding!Retry
  BY <1>10 DEF Commanding!Retry, Commanding!NoRequest
<1>11. CASE UNCHANGED Commanding!cliVars
  BY <1>11 DEF Commanding!cliVars
<1> QED BY <1>1, <1>2, <1>3, <1>4, <1>5, <1>6, <1>7, <1>8, <1>9, <1>10, <1>11 DEF Commanding!CommandNext

(* It implies what the run checks of commands.                             *)
LEMMA CommandIsSound == CommandInvariant => Commanding!CommandsAreSound
BY RowsAgree DEF CommandInvariant, CommandTypes, CommandProgress, TheRow, RowAgrees,
         Commanding!CommandsAreSound, Commanding!OptionsHaveAnEffect

-----------------------------------------------------------------------------
(* The daemon processes and their clients (DaemonCommands).                *)

\* A daemon past the lock, and one past its listener, where it is.
Serving == {"bound", "writing", "ready", "stopping", "exiting"}
Begun == Serving \cup {"locked", "cleaned", "configured", "restored"}

(* A daemon process and a client process, as records.                      *)
DaemonRecords ==
  [pc : Begun \cup {"none", "spawned", "gone"}, port : Ports \cup {None}, listens : BOOLEAN,
   shutdown : BOOLEAN, persists : BOOLEAN, saving : BOOLEAN]
ClientRecords ==
  [kind : {"run", "stop"}, port : Ports \cup {None, "empty"}, to : Commanding!Daemons \cup {None},
   pc : {"begin", "poll", "dial", "ping", "failed", "connected", "asked", "handled", "stopped",
         "waiting", "ended"},
   started : BOOLEAN, pinged : BOOLEAN,
   result : {"none", "ok", "error", "closed", "invalid-config", "no-daemon", "not-running",
             "stopped", "still-running"}]

(* The types of processes and files.                                       *)
ProcessTypes ==
  /\ spawned \in 0 .. MaxDaemons /\ crashes \in Nat
  /\ daemon \in [Commanding!Daemons -> DaemonRecords]
  /\ client \in [Processes -> ClientRecords]
  /\ stateFile \in {"valid", "damaged"} /\ portFile \in Ports \cup {None, "empty"}

\* Who is past the lock holds it, until it has exited.
LockIsHeld == \A d \in Commanding!Daemons : daemon[d].pc \in Begun => daemonLock = d

\* What a daemon has done at each of its stages.
DaemonAt(d) ==
  /\ d > spawned => daemon[d] = Commanding!NoDaemon
  /\ daemon[d].pc \in {"none", "spawned"} \cup (Begun \ Serving) => daemon[d].port = None
  /\ daemon[d].pc \in Serving => daemon[d].port \in Ports
  /\ daemon[d].listens => daemon[d].pc \in Serving
  /\ daemon[d].saving => daemon[d].pc \in Begun /\ stateFile = "valid"
  /\ daemon[d].pc \in {"stopping", "exiting", "gone"} /\ daemon[d].port # None /\ crashes = 0 =>
       daemon[d].shutdown
  /\ daemon[d].pc = "ready" => portFile = daemon[d].port
  /\ daemon[d].pc \in {"restored", "bound", "writing", "ready", "stopping"} =>
       (daemon[d].persists <=> stateFile = "valid")
DaemonProgress == \A d \in Commanding!Daemons : DaemonAt(d)

\* A client speaks to a daemon that has had a port, and a daemon that shuts down
\* has answered one.
ClientAt(c) ==
  /\ client[c].to # None => daemon[client[c].to].port # None
  /\ client[c].pc \in {"asked", "handled"} => client[c].to # None
  /\ client[c].pc = "handled" => client[c].kind = "stop"
HasStopped(c) == client[c].kind = "stop" /\ client[c].pc \in {"stopped", "waiting", "ended"}
ClientProgress ==
  /\ \A c \in Processes : ClientAt(c)
  /\ \A d \in Commanding!Daemons : daemon[d].shutdown => \E c \in Processes : HasStopped(c)

(* The invariant of the daemon processes and their clients.                *)
ProcessInvariant ==
  ProcessTypes /\ LockIsHeld /\ DaemonProgress /\ ClientProgress

(* It holds before the first process.                                      *)
LEMMA ProcessStarts == Commanding!ProcessInit => ProcessInvariant
<1> SUFFICES ASSUME Commanding!ProcessInit PROVE ProcessInvariant
  OBVIOUS
<1>1. /\ daemon = [d \in Commanding!Daemons |-> Commanding!NoDaemon] /\ daemonLock = None
      /\ portFile \in Ports \cup {None, "empty"} /\ stateFile \in {"valid", "damaged"}
      /\ spawned = 0 /\ crashes = 0
  BY DEF Commanding!ProcessInit
<1>2. Commanding!NoDaemon \in DaemonRecords
  BY DEF Commanding!NoDaemon, DaemonRecords
<1>3. \A c \in Processes : client[c] \in ClientRecords /\ client[c].pc = "begin" /\ client[c].to = None
  <2>1. SUFFICES ASSUME NEW c \in Processes
                 PROVE  client[c] \in ClientRecords /\ client[c].pc = "begin" /\ client[c].to = None
    OBVIOUS
  <2>2. PICK kind \in {"run", "stop"} :
          client[c] = [kind |-> kind, pc |-> "begin", port |-> None, to |-> None, started |-> FALSE,
                       pinged |-> FALSE, result |-> "none"]
    BY DEF Commanding!ProcessInit
  <2> QED BY <2>2 DEF ClientRecords
<1>4. client \in [Processes -> ClientRecords]
  BY <1>3 DEF Commanding!ProcessInit
<1>5. ProcessTypes
  BY <1>1, <1>2, <1>4, ProcessAssumption DEF ProcessTypes
<1>6. \A d \in Commanding!Daemons : DaemonAt(d) /\ daemon[d].pc = "none" /\ ~daemon[d].shutdown
  BY <1>1 DEF DaemonAt, Commanding!NoDaemon, Serving, Begun
<1> QED BY <1>3, <1>5, <1>6 DEF ProcessInvariant, LockIsHeld, DaemonProgress, ClientProgress, ClientAt, Serving, Begun

(* A step of one daemon: what holds of it afterwards holds of all.         *)
LEMMA DaemonMoves ==
  ASSUME ProcessInvariant, NEW d \in Commanding!Daemons,
         daemon' \in [Commanding!Daemons -> DaemonRecords],
         \A e \in Commanding!Daemons \ {d} : daemon'[e] = daemon[e],
         daemon[d].pc # "none",
         daemon[d].port # None => daemon'[d].port # None,
         daemon'[d].shutdown => daemon[d].shutdown,
         daemon'[d].pc \in Begun => daemonLock' = d,
         daemonLock' = daemonLock \/ daemonLock \in {None, d},
         portFile' = portFile \/ (daemonLock = d /\ portFile' \in Ports \cup {None, "empty"}),
         stateFile' = stateFile, crashes' = crashes \/ crashes' = crashes + 1,
         UNCHANGED <<client, spawned>>,
         DaemonAt(d)'
  PROVE  ProcessInvariant'
<1>1. d \leq spawned
  BY DEF ProcessInvariant, ProcessTypes, DaemonProgress, DaemonAt, Commanding!NoDaemon, Commanding!Daemons
<1>2. ProcessTypes'
  BY DEF ProcessInvariant, ProcessTypes
<1>3. LockIsHeld'
  BY ProcessAssumption DEF ProcessInvariant, LockIsHeld, Commanding!Daemons
<1>4. ASSUME NEW e \in Commanding!Daemons \ {d} PROVE DaemonAt(e)'
  <2>1. daemon[e].pc \in Begun => daemonLock = e
    BY DEF ProcessInvariant, LockIsHeld
  <2>2. DaemonAt(e) /\ crashes \in Nat
    BY DEF ProcessInvariant, DaemonProgress, ProcessTypes
  <2> QED BY <2>1, <2>2, ProcessAssumption DEF DaemonAt, Begun, Serving, Commanding!Daemons
<1>5. ClientProgress'
  BY DEF ProcessInvariant, ProcessTypes, ClientProgress, ClientAt, HasStopped, ClientRecords
<1> QED BY <1>2, <1>3, <1>4, <1>5 DEF ProcessInvariant, DaemonProgress

(* Each step of a daemon keeps it.                                         *)
LEMMA ProcessOfDaemon ==
  ASSUME ProcessInvariant, NEW d \in Commanding!Daemons, Commanding!OfDaemon(d)
  PROVE  ProcessInvariant'
<1>1. /\ daemon \in [Commanding!Daemons -> DaemonRecords] /\ spawned \in Nat /\ crashes \in Nat
      /\ daemon[d].pc \in Begun => daemonLock = d
      /\ DaemonAt(d) /\ stateFile \in {"valid", "damaged"} /\ portFile \in Ports \cup {None, "empty"}
  BY DEF ProcessInvariant, ProcessTypes, LockIsHeld, DaemonProgress
<1> USE DEF DaemonAt, DaemonRecords, Begun, Serving, Commanding!NoDaemon
<1>2. CASE Commanding!TryLock(d)
  BY <1>1, <1>2, DaemonMoves, ProcessAssumption DEF Commanding!TryLock, Commanding!Go, Commanding!Exits
<1>3. CASE Commanding!RemoveStale(d)
  BY <1>1, <1>3, DaemonMoves, ProcessAssumption DEF Commanding!RemoveStale, Commanding!Go
<1>4. CASE Commanding!LoadConfig(d)
  BY <1>1, <1>4, DaemonMoves, ProcessAssumption DEF Commanding!LoadConfig, Commanding!Go, Commanding!Exits
<1>5. CASE Commanding!Restore(d)
  <2>1. /\ daemon' \in [Commanding!Daemons -> DaemonRecords]
        /\ \A e \in Commanding!Daemons \ {d} : daemon'[e] = daemon[e]
        /\ daemon'[d].pc = "restored" /\ daemon'[d].port = daemon[d].port
        /\ daemon'[d].listens = daemon[d].listens /\ daemon'[d].shutdown = daemon[d].shutdown
        /\ daemon'[d].persists = (stateFile = "valid") /\ daemon'[d].saving = daemon[d].saving
    BY ZenonT(60), <1>1, <1>5, ProcessAssumption DEF Commanding!Restore
  <2>2. daemon[d].pc = "configured" /\ UNCHANGED <<daemonLock, portFile, stateFile, crashes, client, spawned>>
    BY <1>1, <1>5, ProcessAssumption DEF Commanding!Restore
  <2>3. DaemonAt(d)'
    BY SMTT(60), <1>1, <2>1, <2>2, ProcessAssumption
  <2> QED BY <1>1, <2>1, <2>2, <2>3, DaemonMoves
<1>6. CASE Commanding!Bind(d)
  <2>1. CASE /\ \E port \in Ports :
                  daemon' = [daemon EXCEPT ![d].pc = "bound", ![d].port = port, ![d].listens = TRUE]
             /\ UNCHANGED daemonLock
    <3>0. PICK port \in Ports :
               daemon' = [daemon EXCEPT ![d].pc = "bound", ![d].port = port, ![d].listens = TRUE]
      BY <2>1
    <3>1. /\ daemon' \in [Commanding!Daemons -> DaemonRecords]
          /\ \A e \in Commanding!Daemons \ {d} : daemon'[e] = daemon[e]
          /\ daemon'[d].pc = "bound" /\ daemon'[d].port = port /\ daemon'[d].listens
          /\ daemon'[d].shutdown = daemon[d].shutdown /\ daemon'[d].persists = daemon[d].persists
          /\ daemon'[d].saving = daemon[d].saving
      BY ZenonT(60), <1>1, <3>0
    <3>2. daemon[d].pc = "restored" /\ UNCHANGED <<portFile, stateFile, crashes, client, spawned>>
          /\ daemonLock = d
      BY <1>1, <1>6 DEF Commanding!Bind
    <3>4. DaemonAt(d)'
      BY <1>1, <3>1, <3>2, ProcessAssumption
    <3> QED BY <1>1, <2>1, <3>1, <3>2, <3>4, ProcessAssumption, DaemonMoves
  <2>2. CASE Commanding!Exits(d)
    <3>1. /\ daemon' \in [Commanding!Daemons -> DaemonRecords]
          /\ \A e \in Commanding!Daemons \ {d} : daemon'[e] = daemon[e]
          /\ daemon'[d].pc = "gone" /\ ~daemon'[d].listens /\ ~daemon'[d].saving
          /\ daemon'[d].port = daemon[d].port /\ daemon'[d].shutdown = daemon[d].shutdown
      BY ZenonT(60), <1>1, <2>2 DEF Commanding!Exits
    <3>2. /\ daemon[d].pc = "restored" /\ UNCHANGED <<portFile, stateFile, crashes, client, spawned>>
          /\ daemonLock = d /\ daemonLock' = None
      BY <1>1, <1>6, <2>2 DEF Commanding!Bind, Commanding!Exits
    <3>3. DaemonAt(d)'
      BY <1>1, <3>1, <3>2, ProcessAssumption
    <3> QED BY <1>1, <3>1, <3>2, <3>3, ProcessAssumption, DaemonMoves
  <2> QED BY ZenonT(60), <1>6, <2>1, <2>2 DEF Commanding!Bind
<1>7. CASE Commanding!TruncatePort(d)
  BY <1>1, <1>7, DaemonMoves, ProcessAssumption DEF Commanding!TruncatePort, Commanding!Go
<1>8. CASE Commanding!WritePort(d)
  BY <1>1, <1>8, DaemonMoves, ProcessAssumption DEF Commanding!WritePort, Commanding!Go
<1>9. CASE Commanding!Save(d)
  <2>1. /\ daemon' \in [Commanding!Daemons -> DaemonRecords]
        /\ \A e \in Commanding!Daemons \ {d} : daemon'[e] = daemon[e]
        /\ daemon'[d].pc = daemon[d].pc /\ daemon'[d].port = daemon[d].port
        /\ daemon'[d].listens = daemon[d].listens /\ daemon'[d].shutdown = daemon[d].shutdown
        /\ daemon'[d].persists = daemon[d].persists /\ daemon'[d].saving = TRUE
    BY ZenonT(60), <1>1, <1>9, ProcessAssumption DEF Commanding!Save
  <2>2. daemon[d].pc \in {"ready", "stopping"} /\ stateFile = "valid"
        /\ UNCHANGED <<daemonLock, portFile, stateFile, crashes, client, spawned>>
    BY <1>1, <1>9, ProcessAssumption DEF Commanding!Save
  <2>3. DaemonAt(d)'
    BY <1>1, <2>1, <2>2, ProcessAssumption
  <2> QED BY <1>1, <2>1, <2>2, <2>3, DaemonMoves
<1>10. CASE Commanding!Saved(d)
  <2>1. /\ daemon' \in [Commanding!Daemons -> DaemonRecords]
        /\ \A e \in Commanding!Daemons \ {d} : daemon'[e] = daemon[e]
        /\ daemon'[d].pc = daemon[d].pc /\ daemon'[d].port = daemon[d].port
        /\ daemon'[d].listens = daemon[d].listens /\ daemon'[d].shutdown = daemon[d].shutdown
        /\ daemon'[d].persists = daemon[d].persists /\ daemon'[d].saving = FALSE
    BY ZenonT(60), <1>1, <1>10, ProcessAssumption DEF Commanding!Saved, Commanding!Alive
  <2>2. daemon[d].pc \in Begun /\ UNCHANGED <<daemonLock, portFile, stateFile, crashes, client, spawned>>
    BY <1>1, <1>10, ProcessAssumption DEF Commanding!Saved, Commanding!Alive
  <2>3. DaemonAt(d)'
    BY <1>1, <2>1, <2>2, ProcessAssumption
  <2> QED BY <1>1, <2>1, <2>2, <2>3, DaemonMoves
<1>11. CASE Commanding!StopListening(d)
  <2>1. /\ daemon' \in [Commanding!Daemons -> DaemonRecords]
        /\ \A e \in Commanding!Daemons \ {d} : daemon'[e] = daemon[e]
        /\ daemon'[d].pc = daemon[d].pc /\ daemon'[d].port = daemon[d].port
        /\ daemon'[d].listens = FALSE /\ daemon'[d].shutdown = daemon[d].shutdown
        /\ daemon'[d].persists = daemon[d].persists /\ daemon'[d].saving = daemon[d].saving
    BY ZenonT(60), <1>1, <1>11, ProcessAssumption DEF Commanding!StopListening, Commanding!Alive
  <2>2. daemon[d].pc # "none" /\ UNCHANGED <<daemonLock, portFile, stateFile, crashes, client, spawned>>
    BY <1>1, <1>11, ProcessAssumption DEF Commanding!StopListening, Commanding!Alive
  <2>3. DaemonAt(d)'
    BY <1>1, <2>1, <2>2, ProcessAssumption
  <2> QED BY <1>1, <2>1, <2>2, <2>3, DaemonMoves
<1>12. CASE Commanding!ShutDown(d)
  BY <1>1, <1>12, DaemonMoves, ProcessAssumption DEF Commanding!ShutDown, Commanding!Signalled, Commanding!Go
<1>13. CASE Commanding!CleanUp(d)
  BY <1>1, <1>13, DaemonMoves, ProcessAssumption DEF Commanding!CleanUp, Commanding!Go
<1>14. CASE Commanding!Exit(d)
  <2>1. /\ daemon' \in [Commanding!Daemons -> DaemonRecords]
        /\ \A e \in Commanding!Daemons \ {d} : daemon'[e] = daemon[e]
        /\ daemon'[d].pc = "gone" /\ daemon'[d].port = daemon[d].port
        /\ daemon'[d].listens = FALSE /\ daemon'[d].shutdown = daemon[d].shutdown
        /\ daemon'[d].persists = daemon[d].persists /\ daemon'[d].saving = FALSE
    BY ZenonT(60), <1>1, <1>14, ProcessAssumption DEF Commanding!Exit, Commanding!Exits
  <2>2. daemon[d].pc = "exiting" /\ daemonLock = d /\ daemonLock' = None
        /\ UNCHANGED <<portFile, stateFile, crashes, client, spawned>>
    BY <1>1, <1>14, ProcessAssumption DEF Commanding!Exit, Commanding!Exits
  <2>3. DaemonAt(d)'
    BY <1>1, <2>1, <2>2, ProcessAssumption
  <2> QED BY <1>1, <2>1, <2>2, <2>3, DaemonMoves
<1>15. CASE Commanding!Crash(d)
  <2>1. /\ daemon' \in [Commanding!Daemons -> DaemonRecords]
        /\ \A e \in Commanding!Daemons \ {d} : daemon'[e] = daemon[e]
        /\ daemon'[d].pc = "gone" /\ daemon'[d].port = daemon[d].port
        /\ daemon'[d].listens = FALSE /\ daemon'[d].shutdown = daemon[d].shutdown
        /\ daemon'[d].persists = daemon[d].persists /\ daemon'[d].saving = FALSE
    BY ZenonT(60), <1>1, <1>15, ProcessAssumption DEF Commanding!Crash, Commanding!Exits, Commanding!Alive
  <2>2. daemon[d].pc # "none" /\ (daemonLock' = daemonLock \/ daemonLock = d) /\ crashes' = crashes + 1
        /\ UNCHANGED <<portFile, stateFile, client, spawned>>
    BY <1>1, <1>15, ProcessAssumption DEF Commanding!Crash, Commanding!Exits, Commanding!Alive
  <2>3. DaemonAt(d)'
    BY <1>1, <2>1, <2>2, ProcessAssumption
  <2> QED BY <1>1, <2>1, <2>2, <2>3, DaemonMoves
<1> QED BY <1>2, <1>3, <1>4, <1>5, <1>6, <1>7, <1>8, <1>9, <1>10, <1>11, <1>12, <1>13, <1>14, <1>15 DEF Commanding!OfDaemon

(* A step of one client that leaves the daemons alone.                     *)
LEMMA ClientMoves ==
  ASSUME ProcessInvariant, NEW c \in Processes,
         client' \in [Processes -> ClientRecords],
         \A e \in Processes \ {c} : client'[e] = client[e],
         HasStopped(c) => HasStopped(c)',
         UNCHANGED <<daemon, daemonLock, portFile, stateFile, spawned, crashes>>,
         ClientAt(c)'
  PROVE  ProcessInvariant'
<1>1. ProcessTypes' /\ LockIsHeld'
  BY DEF ProcessInvariant, ProcessTypes, LockIsHeld
<1>2. DaemonProgress'
  BY DEF ProcessInvariant, DaemonProgress, DaemonAt
<1>3. \A e \in Processes : ClientAt(e)'
  BY DEF ProcessInvariant, ClientProgress, ClientAt
<1>4. \A e \in Processes : HasStopped(e) => HasStopped(e)'
  BY DEF HasStopped
<1> QED BY <1>1, <1>2, <1>3, <1>4 DEF ProcessInvariant, ClientProgress

(* ... as it often does: it goes on with its daemon or without.            *)
LEMMA ClientTakes ==
  ASSUME ProcessInvariant, NEW c \in Processes, NEW r \in ClientRecords,
         client' = [client EXCEPT ![c] = r],
         r.kind = client[c].kind, r.to \in {None, client[c].to},
         r.pc \in {"asked", "handled"} => r.to # None,
         r.pc = "handled" => r.kind = "stop",
         client[c].pc \notin {"stopped", "waiting", "ended"},
         UNCHANGED <<daemon, daemonLock, portFile, stateFile, spawned, crashes>>
  PROVE  ProcessInvariant'
<1>1. client \in [Processes -> ClientRecords] /\ ClientAt(c)
  BY DEF ProcessInvariant, ProcessTypes, ClientProgress
<1>2. client' \in [Processes -> ClientRecords] /\ client'[c] = r
      /\ \A e \in Processes \ {c} : client'[e] = client[e]
  BY <1>1
<1> QED BY <1>1, <1>2, ClientMoves DEF ClientAt, HasStopped

(* Each step of a client keeps it.                                         *)
LEMMA ProcessOfClient ==
  ASSUME ProcessInvariant, NEW c \in Processes, Commanding!OfClient(c)
  PROVE  ProcessInvariant'
<1>1. /\ client \in [Processes -> ClientRecords] /\ ClientAt(c)
      /\ portFile \in Ports \cup {None, "empty"}
  BY DEF ProcessInvariant, ProcessTypes, ClientProgress
<1> USE DEF ClientRecords, ClientAt, HasStopped, Commanding!Client, Commanding!Ends
<1>2. CASE Commanding!AnswerPing(c)
  <2> DEFINE r == [client[c] EXCEPT !.pc = "connected", !.pinged = TRUE]
  <2>1. r \in ClientRecords /\ r.kind = client[c].kind
    BY ZenonT(60), <1>1
  <2>2. client' = [client EXCEPT ![c] = r] /\ client[c].pc = "ping"
        /\ UNCHANGED <<daemon, daemonLock, portFile, stateFile, spawned, crashes>>
    BY <1>1, <1>2 DEF Commanding!AnswerPing
  <2>3. r.to \in {None, client[c].to} /\ r.pc \notin {"asked", "handled"}
    BY <1>1
  <2> HIDE DEF r
  <2> QED BY <2>1, <2>2, <2>3, ClientTakes
<1>3. CASE Commanding!AnswerClient(c)
  <2>1. PICK outcome \in {"ok", "error"} : Commanding!Ends(c, outcome)
    BY <1>3 DEF Commanding!AnswerClient
  <2> DEFINE r == [client[c] EXCEPT !.pc = "ended", !.result = outcome]
  <2>2. r \in ClientRecords /\ r.kind = client[c].kind
    BY ZenonT(60), <1>1
  <2>3. client' = [client EXCEPT ![c] = r] /\ client[c].pc = "asked"
        /\ UNCHANGED <<daemon, daemonLock, portFile, stateFile, spawned, crashes>>
    BY <1>1, <1>3, <2>1 DEF Commanding!AnswerClient
  <2>4. r.to \in {None, client[c].to} /\ r.pc \notin {"asked", "handled"}
    BY <1>1
  <2> HIDE DEF r
  <2> QED BY <2>2, <2>3, <2>4, ClientTakes
<1>4. CASE Commanding!IdleClose(c)
  BY <1>1, <1>4, ClientMoves DEF Commanding!IdleClose
<1>5. CASE Commanding!HandleStop(c)
  BY <1>1, <1>5, ClientMoves DEF Commanding!HandleStop
<1>6. CASE Commanding!ReadPort(c)
  BY <1>1, <1>6, ClientMoves DEF Commanding!ReadPort
<1>7. CASE Commanding!NoPing(c)
  <2> DEFINE r == [client[c] EXCEPT !.pc = "failed", !.to = None]
  <2>1. r \in ClientRecords /\ r.kind = client[c].kind
    BY ZenonT(60), <1>1
  <2>2. client' = [client EXCEPT ![c] = r] /\ client[c].pc = "ping"
        /\ UNCHANGED <<daemon, daemonLock, portFile, stateFile, spawned, crashes>>
    BY <1>1, <1>7 DEF Commanding!NoPing
  <2>3. r.to \in {None, client[c].to} /\ r.pc \notin {"asked", "handled"}
    BY <1>1
  <2> HIDE DEF r
  <2> QED BY <2>1, <2>2, <2>3, ClientTakes
<1>8. CASE Commanding!NotRunning(c)
  <2> DEFINE r == [client[c] EXCEPT !.pc = "ended", !.result = "not-running"]
  <2>1. r \in ClientRecords /\ r.kind = client[c].kind
    BY ZenonT(60), <1>1
  <2>2. client' = [client EXCEPT ![c] = r] /\ client[c].pc = "failed"
        /\ UNCHANGED <<daemon, daemonLock, portFile, stateFile, spawned, crashes>>
    BY <1>1, <1>8 DEF Commanding!NotRunning
  <2>3. r.to \in {None, client[c].to} /\ r.pc \notin {"asked", "handled"}
    BY <1>1
  <2> HIDE DEF r
  <2> QED BY <2>1, <2>2, <2>3, ClientTakes
<1>9. CASE Commanding!ClientGivesUp(c)
  <2> DEFINE r == [client[c] EXCEPT !.pc = "ended", !.result = "no-daemon", !.to = None]
  <2>1. r \in ClientRecords /\ r.kind = client[c].kind
    BY ZenonT(60), <1>1
  <2>2. client' = [client EXCEPT ![c] = r] /\ client[c].pc \in {"poll", "dial", "ping"}
        /\ UNCHANGED <<daemon, daemonLock, portFile, stateFile, spawned, crashes>>
    BY <1>1, <1>9 DEF Commanding!ClientGivesUp
  <2>3. r.to \in {None, client[c].to} /\ r.pc \notin {"asked", "handled"}
    BY <1>1
  <2> HIDE DEF r
  <2> QED BY <2>1, <2>2, <2>3, ClientTakes
<1>10. CASE Commanding!Send(c)
  BY <1>1, <1>10, ClientMoves DEF Commanding!Send, Commanding!Serves
<1>11. CASE Commanding!Closed(c)
  <2> DEFINE r == [client[c] EXCEPT !.pc = "ended", !.result = "closed"]
  <2>1. r \in ClientRecords /\ r.kind = client[c].kind
    BY ZenonT(60), <1>1
  <2>2. client' = [client EXCEPT ![c] = r] /\ client[c].pc \in {"asked", "handled"}
        /\ UNCHANGED <<daemon, daemonLock, portFile, stateFile, spawned, crashes>>
    BY <1>1, <1>11 DEF Commanding!Closed
  <2>3. r.to \in {None, client[c].to} /\ r.pc \notin {"asked", "handled"}
    BY <1>1
  <2> HIDE DEF r
  <2> QED BY <2>1, <2>2, <2>3, ClientTakes
<1>12. CASE Commanding!ReadPortOfStopped(c)
  BY <1>1, <1>12, ClientMoves DEF Commanding!ReadPortOfStopped
<1>13. CASE Commanding!AwaitExit(c)
  BY <1>1, <1>13, ClientMoves DEF Commanding!AwaitExit
<1>14. CASE Commanding!Dial(c)
  <2>1. ASSUME NEW d \in Commanding!Listener(client[c].port)
        PROVE  d \in Commanding!Daemons /\ daemon[d].port # None
    BY ProcessAssumption DEF Commanding!Listener, ProcessInvariant, DaemonProgress, DaemonAt
  <2> QED BY <1>1, <1>14, <2>1, ClientMoves DEF Commanding!Dial
<1>15. CASE Commanding!AnswerStop(c)
  <2>1. PICK d \in Commanding!Daemons :
          d = client[c].to /\ daemon[d].pc \notin {"none", "gone"} /\ client[c].kind = "stop"
    BY <1>1, <1>15 DEF Commanding!AnswerStop, Commanding!Serves, Commanding!Alive
  <2>2. /\ client' = [client EXCEPT ![c].pc = "stopped"]
        /\ daemon' = [daemon EXCEPT ![d].shutdown = TRUE]
        /\ UNCHANGED <<daemonLock, portFile, stateFile, spawned, crashes>>
    BY <1>15, <2>1 DEF Commanding!AnswerStop
  <2>3. /\ client' \in [Processes -> ClientRecords] /\ HasStopped(c)'
        /\ \A e \in Processes \ {c} : client'[e] = client[e]
        /\ client'[c].to = client[c].to /\ client'[c].pc = "stopped"
    BY <1>1, <2>1, <2>2
  <2>4. daemon \in [Commanding!Daemons -> DaemonRecords]
    BY DEF ProcessInvariant, ProcessTypes
  <2>5. /\ daemon' \in [Commanding!Daemons -> DaemonRecords]
        /\ \A e \in Commanding!Daemons \ {d} : daemon'[e] = daemon[e]
        /\ daemon'[d].pc = daemon[d].pc /\ daemon'[d].port = daemon[d].port
        /\ daemon'[d].listens = daemon[d].listens /\ daemon'[d].persists = daemon[d].persists
        /\ daemon'[d].saving = daemon[d].saving /\ daemon'[d].shutdown
    BY ZenonT(60), <2>1, <2>2, <2>4 DEF DaemonRecords
  <2>6. ProcessTypes' /\ LockIsHeld'
    BY <2>2, <2>3, <2>5 DEF ProcessInvariant, ProcessTypes, LockIsHeld
  <2>7. \A e \in Commanding!Daemons : DaemonAt(e)'
    <3>1. DaemonAt(d)'
      BY <2>1, <2>2, <2>5 DEF ProcessInvariant, DaemonProgress, DaemonAt, Commanding!NoDaemon
    <3>2. \A e \in Commanding!Daemons \ {d} : DaemonAt(e)'
      BY <2>2, <2>5 DEF ProcessInvariant, DaemonProgress, DaemonAt
    <3> QED BY SMTT(60), <3>1, <3>2
  <2>8. \A e \in Processes : ClientAt(e)'
    BY <1>1, <2>3, <2>5 DEF ProcessInvariant, ClientProgress
  <2> QED BY <2>3, <2>6, <2>7, <2>8 DEF ProcessInvariant, DaemonProgress, ClientProgress
<1>16. CASE Commanding!Start(c)
  <2>1. CASE client[c].started
    BY <1>1, <1>16, <2>1, ClientMoves DEF Commanding!Start
  <2>2. CASE ~client[c].started /\ config = "invalid"
    <3> DEFINE r == [client[c] EXCEPT !.pc = "ended", !.result = "invalid-config"]
    <3>1. r \in ClientRecords /\ r.kind = client[c].kind
      BY ZenonT(60), <1>1
    <3>2. client' = [client EXCEPT ![c] = r] /\ client[c].pc = "failed"
          /\ UNCHANGED <<daemon, daemonLock, portFile, stateFile, spawned, crashes>>
      BY <1>1, <1>16, <2>2 DEF Commanding!Start
    <3>3. r.to \in {None, client[c].to} /\ r.pc \notin {"asked", "handled"}
      BY <1>1
    <3> HIDE DEF r
    <3> QED BY <3>1, <3>2, <3>3, ClientTakes
  <2>3. CASE ~client[c].started /\ config # "invalid"
    <3>1. PICK d \in Commanding!Daemons : d = spawned + 1
      BY <1>16, <2>3, ProcessAssumption
         DEF Commanding!Start, ProcessInvariant, ProcessTypes, Commanding!Daemons
    <3>2. /\ client[c].pc = "failed" /\ spawned < MaxDaemons /\ spawned' = d
          /\ daemon' = [daemon EXCEPT ![d].pc = "spawned"]
          /\ client' = [client EXCEPT ![c].pc = "poll", ![c].started = TRUE]
          /\ UNCHANGED <<daemonLock, portFile, stateFile, crashes>>
          /\ d \in Nat /\ d > spawned /\ d \in 0 .. MaxDaemons
      BY <1>16, <2>3, <3>1 DEF Commanding!Start, Commanding!Daemons, ProcessInvariant, ProcessTypes
    <3>3. daemon \in [Commanding!Daemons -> DaemonRecords] /\ daemon[d] = Commanding!NoDaemon
          /\ spawned \in Nat
      BY <3>1, <3>2 DEF ProcessInvariant, ProcessTypes, DaemonProgress, DaemonAt
    <3>4. /\ client' \in [Processes -> ClientRecords] /\ ~HasStopped(c)
          /\ \A e \in Processes \ {c} : client'[e] = client[e]
          /\ client'[c].to = client[c].to /\ client'[c].pc = "poll"
      <4> DEFINE r == [client[c] EXCEPT !.pc = "poll", !.started = TRUE]
      <4>1. r \in ClientRecords /\ r.to = client[c].to /\ r.pc = "poll"
        BY ZenonT(60), <1>1
      <4>2. client' = [client EXCEPT ![c] = r]
        BY <1>1, <3>2
      <4>3. ~HasStopped(c)
        BY <3>2
      <4> HIDE DEF r, ClientRecords
      <4> QED BY <1>1, <4>1, <4>2, <4>3
    <3>5. /\ daemon' \in [Commanding!Daemons -> DaemonRecords]
          /\ \A e \in Commanding!Daemons \ {d} : daemon'[e] = daemon[e]
          /\ daemon'[d].pc = "spawned" /\ daemon'[d].port = None /\ ~daemon'[d].listens
          /\ ~daemon'[d].saving /\ ~daemon'[d].shutdown
      <4> DEFINE r == [Commanding!NoDaemon EXCEPT !.pc = "spawned"]
      <4>1. /\ r \in DaemonRecords /\ r.pc = "spawned" /\ r.port = None
            /\ ~r.listens /\ ~r.saving /\ ~r.shutdown
        BY DEF DaemonRecords, Commanding!NoDaemon
      <4>2. daemon' = [daemon EXCEPT ![d] = r]
        BY <3>1, <3>2, <3>3
      <4> HIDE DEF r
      <4> QED BY <3>2, <3>3, <4>1, <4>2
    <3>6. ProcessTypes' /\ LockIsHeld'
      BY <3>1, <3>2, <3>4, <3>5 DEF ProcessInvariant, ProcessTypes, LockIsHeld, Begun, Serving
    <3>7. \A e \in Commanding!Daemons : DaemonAt(e)'
      <4>1. \A e \in Commanding!Daemons \ {d} : e > spawned' => e > spawned
        BY <3>1, <3>2, <3>3 DEF Commanding!Daemons
      <4>2. DaemonAt(d)'
        BY <3>1, <3>2, <3>3, <3>5 DEF DaemonAt, Serving, Begun
      <4>3. \A e \in Commanding!Daemons \ {d} : DaemonAt(e)'
        BY <3>2, <3>5, <4>1 DEF ProcessInvariant, DaemonProgress, DaemonAt
      <4> QED BY <4>2, <4>3
    <3>8. \A e \in Processes : ClientAt(e)'
      BY SMTT(60), <1>1, <3>3, <3>4, <3>5 DEF ProcessInvariant, ClientProgress, Commanding!NoDaemon
    <3>9. \A e \in Processes : HasStopped(e) => HasStopped(e)'
      BY <3>4
    <3> QED BY <3>3, <3>5, <3>6, <3>7, <3>8, <3>9
            DEF ProcessInvariant, DaemonProgress, ClientProgress, Commanding!NoDaemon
  <2> QED BY <2>1, <2>2, <2>3
<1> QED BY <1>2, <1>3, <1>4, <1>5, <1>6, <1>7, <1>8, <1>9, <1>10, <1>11, <1>12, <1>13, <1>14, <1>15, <1>16 DEF Commanding!OfClient

(* So does each step, of whomever.                                         *)
LEMMA ProcessNext ==
  ProcessInvariant /\ [Commanding!ProcessNext]_(Commanding!processVars) => ProcessInvariant'
<1> SUFFICES ASSUME ProcessInvariant, [Commanding!ProcessNext]_(Commanding!processVars)
             PROVE  ProcessInvariant'
  OBVIOUS
<1>1. CASE Commanding!OtherProgram \/ UNCHANGED Commanding!processVars
  <2>1. UNCHANGED <<daemon, daemonLock, portFile, stateFile, client, spawned, crashes>>
    BY <1>1 DEF Commanding!OtherProgram, Commanding!processVars
  <2> QED BY <2>1 DEF ProcessInvariant, ProcessTypes, LockIsHeld, DaemonProgress, DaemonAt,
                      ClientProgress, ClientAt, HasStopped
<1> QED BY <1>1, ProcessOfDaemon, ProcessOfClient DEF Commanding!ProcessNext

(* It implies what the run checks of processes: one daemon serves, and a   *)
(* client that asks finds one.                                             *)
LEMMA ProcessIsSound == ProcessInvariant => Commanding!DaemonIsFound
<1> SUFFICES ASSUME ProcessInvariant PROVE Commanding!DaemonIsFound
  OBVIOUS
<1>1. \A d \in Commanding!Daemons : daemon[d] \in DaemonRecords /\ DaemonAt(d)
                                  /\ (daemon[d].pc \in Begun => daemonLock = d)
  BY DEF ProcessInvariant, ProcessTypes, DaemonProgress, LockIsHeld
<1>2. \A c \in Processes : client[c] \in ClientRecords /\ ClientAt(c)
  BY DEF ProcessInvariant, ProcessTypes, ClientProgress
<1>3. Commanding!OneDaemonServes
  BY <1>1 DEF Commanding!OneDaemonServes, Commanding!Started, DaemonRecords
<1>4. Commanding!PortFileIsTrue /\ Commanding!StateFileIsKept
  BY <1>1 DEF DaemonAt, Commanding!PortFileIsTrue, Commanding!StateFileIsKept
<1>5. \A c \in Processes : client[c].pc \in {"asked", "handled"} =>
        /\ client[c].to \in Commanding!Daemons
        /\ daemon[client[c].to].port # None /\ daemon[client[c].to].pc \in Serving \cup {"gone"}
  BY <1>1, <1>2 DEF ClientAt, ClientRecords, DaemonAt, DaemonRecords
<1>6. Commanding!ClientsFindADaemon
  BY <1>2, <1>5 DEF Commanding!ClientsFindADaemon, Commanding!Alive, Commanding!Started, ClientAt, Serving
<1>7. Commanding!StopIsAnswered
  <2> SUFFICES ASSUME crashes = 0, NEW c \in Processes, client[c].kind = "stop",
                      client[c].pc \in {"asked", "handled"}, ~Commanding!Serves(c)
               PROVE  \E other \in Processes \ {c} : client[other].kind = "stop"
    BY DEF Commanding!StopIsAnswered
  <2>1. client[c].to \in Commanding!Daemons /\ daemon[client[c].to].shutdown
    BY <1>1, <1>2, <1>5 DEF Commanding!Serves, Commanding!Alive, ClientAt, DaemonAt, Serving
  <2> QED BY <2>1 DEF ProcessInvariant, ClientProgress, HasStopped
<1> QED BY <1>3, <1>4, <1>6, <1>7 DEF Commanding!DaemonIsFound

-----------------------------------------------------------------------------
(* The launch of a browser and the end of its runtime (BrowserEndpoints).  *)

(* The types of a launch and of its runtime.                               *)
LaunchTypes ==
  /\ Reaching!TypeOK
  /\ options.mode \in {"launch", "attach"} /\ options.dir \in {"caller", "none"}
  /\ options.headless \in BOOLEAN
  /\ closer \in {None, "draining", "killing", "done"}
  /\ events \in {None, "open", "Disconnected", "ScopeClosed"}

\* The process does not run any more, or somebody was told that it may.
IsStopped == child \in {"none", "exited", "killed"} \/ uncertain

\* What a launch has and has not yet at each of its stages.
LaunchProgress ==
  /\ launchPc \in {"new", "find", "spawn"} => child = "none"
  /\ launchPc \in {"new", "find"} => profile = options.dir
  /\ launchPc \in {"find", "spawn"} => \A a \in options.args : ~Reaching!Changes(a)
  /\ launchPc \notin {"metadata", "ready"} => launchConnection = None
  /\ launchPc = "metadata" => launchConnection # None
  /\ launchPc \in {"connect", "metadata", "ready"} => endpoint # None
  /\ launchPc \in {"failed", "dropped"} => IsStopped /\ profile # "temporary"
  /\ why = "arguments" => launchPc = "failed" /\ child = "none" /\ profile = options.dir
  /\ child # "none" => /\ ("--headless" \in args) = options.headless
                       /\ args \cap (Reaching!Flags \ {"--headless"}) = {}

\* A profile without an earlier file names no browser but the launched one.
FileIsOurs ==
  options.mode = "launch" /\ ~before =>
    /\ launchFile \in Reaching!ProfileFile => launchFile.browser \in {None, "ours"}
    /\ endpoint # None => endpoint.browser \in {None, "ours"}
    /\ launchPc \in {"metadata", "ready"} =>
         endpoint.browser = None \/ launchConnection \in {"ours", None}

\* The end of a runtime: a connection that is gone was closed or was lost first.
RuntimeEnds ==
  /\ launchPc # "ready" => events = None /\ closer = None
  /\ launchPc = "ready" => events # None
  /\ closer \in {"killing", "done"} => launchConnection = None
  /\ closer = "done" => IsStopped /\ profile # "temporary" /\ events # "open"
  /\ events \in {"Disconnected", "ScopeClosed"} => launchConnection = None
  /\ events = "Disconnected" => lostFirst
  /\ launchPc = "ready" /\ launchConnection = None /\ closer = None => lostFirst

(* The invariant of a launch.                                              *)
LaunchInvariant == LaunchTypes /\ LaunchProgress /\ FileIsOurs /\ RuntimeEnds

(* It holds of new options and an arbitrary profile directory.             *)
LEMMA LaunchStarts == Reaching!LaunchInit => LaunchInvariant
<1> SUFFICES ASSUME Reaching!LaunchInit PROVE LaunchInvariant
  OBVIOUS
<1>1. /\ options.mode \in {"launch", "attach"} /\ options.dir \in {"caller", "none"}
      /\ options.headless \in BOOLEAN
  BY DEF Reaching!LaunchInit
<1>2. /\ launchPc = "new" /\ why = None /\ profile = options.dir /\ child = "none" /\ args = {}
      /\ endpoint = None /\ launchConnection = None /\ before = (launchFile # None)
      /\ events = None /\ closer = None
  BY DEF Reaching!LaunchInit
<1>3. listens \in [DebugPorts -> {None, "ours", "other"}]
  BY DEF Reaching!LaunchInit
<1>4. launchFile \in {None, Bad} \cup Reaching!ProfileFile
  BY DEF Reaching!LaunchInit, Reaching!ProfileFile
<1>5. LaunchTypes
  BY <1>1, <1>2, <1>3, <1>4 DEF LaunchTypes, Reaching!TypeOK
<1>6. LaunchProgress
  BY <1>2, EndpointAssumption DEF LaunchProgress
<1>7. FileIsOurs
  BY <1>2, EndpointAssumption DEF FileIsOurs
<1>8. RuntimeEnds
  BY <1>2, EndpointAssumption DEF RuntimeEnds
<1> QED BY <1>5, <1>6, <1>7, <1>8 DEF LaunchInvariant

(* Each step of the launch, of the runtime and of Chrome keeps it.         *)
LEMMA LaunchNext ==
  LaunchInvariant /\ [Reaching!LaunchNext]_(Reaching!launchVars) => LaunchInvariant'
<1> SUFFICES ASSUME LaunchInvariant, [Reaching!LaunchNext]_(Reaching!launchVars)
             PROVE  LaunchInvariant'
  OBVIOUS
<1> USE EndpointAssumption
        DEF LaunchInvariant, LaunchTypes, Reaching!TypeOK, LaunchProgress, FileIsOurs, RuntimeEnds, IsStopped,
            Reaching!chosen, Reaching!process, Reaching!runtime
<1>1. CASE Reaching!Validate
  BY <1>1 DEF Reaching!Validate, Reaching!Changes, Reaching!Fail
<1>2. CASE Reaching!Attach
  BY <1>2 DEF Reaching!Attach, Reaching!ProfileFile
<1>3. CASE Reaching!Find
  BY <1>3 DEF Reaching!Find, Reaching!Fail
<1>4. CASE Reaching!Spawn
  BY <1>4 DEF Reaching!Spawn, Reaching!Fail, Reaching!Build, Reaching!Changes, Reaching!Flags
<1>5. CASE Reaching!TryWait
  BY <1>5 DEF Reaching!TryWait
<1>6. CASE Reaching!Look
  BY <1>6 DEF Reaching!Look
<1>7. CASE Reaching!Connect
  <2>1. launchPc = "connect" /\ launchConnection = None
        /\ UNCHANGED <<options, child, args, profile, launchFile, listens, endpoint, events, closer,
                       before, lostFirst, uncertain>>
    BY <1>7 DEF Reaching!Connect
  <2>2. \/ /\ launchPc' = "metadata" /\ why' = why /\ launchConnection' # None
           /\ launchConnection' \in {"ours", "other"}
           /\ endpoint.browser \in {None, launchConnection'}
        \/ launchPc' = "kill" /\ why' = "connect" /\ launchConnection' = None
    BY <1>7 DEF Reaching!Connect, Reaching!ReachedBrowser, Reaching!ProfileFile
  <2> QED BY <2>1, <2>2
<1>8. CASE Reaching!Metadata
  BY <1>8 DEF Reaching!Metadata, Reaching!ChildAlive
<1>9. CASE Reaching!Kill
  BY <1>9 DEF Reaching!Kill, Reaching!Drop, Reaching!DropProfile, Reaching!StopsListening, Reaching!Stopped
<1>10. CASE Reaching!Cancel
  BY <1>10 DEF Reaching!Cancel, Reaching!Drop, Reaching!DropProfile, Reaching!StopsListening, Reaching!Stopped
<1>11. CASE Reaching!BeginClose
  BY <1>11 DEF Reaching!BeginClose
<1>12. CASE Reaching!Disconnect
  BY <1>12 DEF Reaching!Disconnect
<1>13. CASE Reaching!FinishClose
  <2>1. closer = "killing" /\ closer' = "done" /\ launchConnection = None /\ launchPc = "ready"
        /\ UNCHANGED <<options, args, launchFile, why, endpoint, launchConnection, launchPc, before,
                       lostFirst>>
    BY <1>13 DEF Reaching!FinishClose
  <2>2. /\ events' = (IF events = "open" THEN "ScopeClosed" ELSE events)
        /\ profile' = (IF profile = "temporary" THEN "removed" ELSE profile)
    BY <1>13 DEF Reaching!FinishClose, Reaching!Drop, Reaching!DropProfile
  <2>3. /\ IsStopped' /\ listens' \in [DebugPorts -> {None, "ours", "other"}]
        /\ child' \in {"none", "starting", "up", "exited", "killed"}
        /\ child' # "none" => child # "none"
    BY <1>13 DEF Reaching!FinishClose, Reaching!Drop, Reaching!StopsListening, Reaching!Stopped
  <2> QED BY <2>1, <2>2, <2>3
<1>14. CASE Reaching!LoseConnection
  <2>1. closer = None => lostFirst'
    BY <1>14, Zenon DEF Reaching!LoseConnection
  <2> QED BY <1>14, <2>1 DEF Reaching!LoseConnection
<1>15. CASE Reaching!Watch
  BY <1>15 DEF Reaching!Watch
<1>16. CASE Reaching!ChromeStarts
  BY <1>16 DEF Reaching!ChromeStarts
<1>17. CASE Reaching!ChromePublishes
  BY <1>17 DEF Reaching!ChromePublishes, Reaching!ProfileFile
<1>18. CASE Reaching!ChromeExits
  BY <1>18 DEF Reaching!ChromeExits, Reaching!StopsListening
<1>19. CASE Reaching!TimePasses
  BY <1>19 DEF Reaching!TimePasses
<1>20. ASSUME NEW p \in DebugPorts, Reaching!OtherStarts(p) PROVE LaunchInvariant'
  BY <1>20 DEF Reaching!OtherStarts
<1>21. CASE UNCHANGED Reaching!launchVars
  BY <1>21 DEF Reaching!launchVars, Reaching!ProfileFile
<1> QED BY ZenonT(60), <1>1, <1>2, <1>3, <1>4, <1>5, <1>6, <1>7, <1>8, <1>9, <1>10, <1>11, <1>12, <1>13, <1>14, <1>15, <1>16, <1>17, <1>18, <1>19, <1>20, <1>21 DEF Reaching!LaunchNext, Reaching!Launch

(* It implies what the run checks of a launch.                             *)
LEMMA LaunchKeepsItsWord == LaunchInvariant => Reaching!LaunchIsSound
BY EndpointAssumption
   DEF LaunchInvariant, LaunchTypes, LaunchProgress, FileIsOurs, RuntimeEnds, IsStopped, Reaching!LaunchIsSound,
       Reaching!EndIsTold, Reaching!ConnectsToItsBrowser, Reaching!FailureLeavesNothing,
       Reaching!OptionsAreKept, Reaching!TypeOK

-----------------------------------------------------------------------------
(* Setup, discovery and connections (BrowserEndpoints).                    *)

(* Who may listen on a port of a browser to be discovered.                 *)
Listeners == {"Chrome", "Edge", "stranger"}

(* The types of the discovery.                                             *)
DiscoveryTypes ==
  /\ executables \subseteq Reaching!Browsers
  /\ files \in [Reaching!Browsers -> {None, Bad} \cup Reaching!File]
  /\ discListening \in [DebugPorts -> Listeners \cup {None}]
  /\ setup \in {"new", "absent", "check", "prompt", "polling", "failed", "ready", "timeout"}
  /\ discRequest \in {"none", "connecting"}

\* A connection is registered under the port it was made to, and planned with it.
ConnectionsAreKnown ==
  /\ \A k \in DOMAIN discBrowsers :
       /\ discBrowsers[k] \in [browser : Listeners, live : BOOLEAN] /\ k[2] \in DebugPorts
       /\ discBrowsers[k].live => discListening[k[2]] = discBrowsers[k].browser
  /\ discRequest = "connecting" =>
       /\ plan.key[2] \in DebugPorts /\ plan.key[2] = plan.to.port
       /\ plan.named # None => plan.to.direct /\ plan.to.path = plan.named

(* What the setup has found when it says so.                               *)
SetupProgress ==
  /\ setup \notin {"new", "absent", "failed"} => told \in executables
  /\ setup = "timeout" => ~readable /\ polls = Polls

(* The invariant of the discovery.                                         *)
DiscoveryInvariant ==
  DiscoveryTypes /\ ConnectionsAreKnown /\ SetupProgress /\ Reaching!ConnectsToTheNamed

(* It holds before the setup.                                              *)
LEMMA DiscoveryStarts == Reaching!DiscoveryInit => DiscoveryInvariant
<1> SUFFICES ASSUME Reaching!DiscoveryInit PROVE DiscoveryInvariant
  OBVIOUS
<1>1. /\ executables \subseteq Reaching!Browsers /\ setup = "new" /\ discRequest = "none"
      /\ DOMAIN discBrowsers = {} /\ discAnswer.status = None
  BY DEF Reaching!DiscoveryInit, Reaching!Refusal
<1>2. files \in [Reaching!Browsers -> {None, Bad} \cup Reaching!File]
  BY DEF Reaching!DiscoveryInit, Reaching!File
<1>3. discListening \in [DebugPorts -> Listeners \cup {None}]
  BY SMTT(60) DEF Reaching!DiscoveryInit, Listeners
<1> QED BY <1>1, <1>2, <1>3, EndpointAssumption
        DEF DiscoveryInvariant, DiscoveryTypes, ConnectionsAreKnown, SetupProgress,
            Reaching!ConnectsToTheNamed

(* Each step of the setup, of the requests and of the browsers keeps it.   *)
LEMMA DiscoveryNext ==
  DiscoveryInvariant /\ [Reaching!DiscoveryNext]_(Reaching!discoveryVars) => DiscoveryInvariant'
<1> SUFFICES ASSUME DiscoveryInvariant, [Reaching!DiscoveryNext]_(Reaching!discoveryVars)
             PROVE  DiscoveryInvariant'
  OBVIOUS
<1> USE EndpointAssumption
        DEF DiscoveryInvariant, DiscoveryTypes, ConnectionsAreKnown, SetupProgress, Listeners,
            Reaching!ConnectsToTheNamed, Reaching!world, Reaching!settingUp, Reaching!daemon
<1>1. CASE Reaching!Detect
  BY <1>1 DEF Reaching!Detect, Reaching!Detected, Reaching!Browsers
<1>2. CASE Reaching!Check
  BY <1>2 DEF Reaching!Check
<1>3. CASE Reaching!Enter
  BY <1>3 DEF Reaching!Enter
<1>4. CASE Reaching!Poll
  BY <1>4 DEF Reaching!Poll, Reaching!FindPort, Reaching!Parsed, Reaching!Places, Reaching!Browsers
<1>5. ASSUME NEW t \in Endpoints, Reaching!AskConnect(t) PROVE DiscoveryInvariant'
  <2>1. UNCHANGED <<executables, files, discListening, setup, polls, told, readable, discBrowsers>>
    BY <1>5 DEF Reaching!AskConnect
  <2>2. CASE Reaching!Accepts(t)
    <3>1. /\ discRequest' = "connecting" /\ discAnswer' = discAnswer
          /\ plan' = [key |-> Reaching!Key(t), to |-> Reaching!Endpoint(t), named |-> t.path]
      BY <1>5, <2>2 DEF Reaching!AskConnect
    <3>2. t.port \in DebugPorts /\ (t.path # None => t.scheme = "ws")
      BY <2>2 DEF Reaching!Accepts
    <3>3. /\ plan'.key[2] = t.port /\ plan'.to.port = t.port /\ plan'.named = t.path
          /\ plan'.to.path = t.path /\ plan'.to.direct = (t.scheme = "ws")
      BY <3>1 DEF Reaching!Key, Reaching!Endpoint
    <3> QED BY <2>1, <3>1, <3>2, <3>3
  <2>3. CASE ~Reaching!Accepts(t)
    BY <1>5, <2>1, <2>3 DEF Reaching!AskConnect, Reaching!Refusal
  <2> QED BY <2>2, <2>3
<1>6. ASSUME NEW b \in Reaching!Browsers, Reaching!AskDiscover(b) PROVE DiscoveryInvariant'
  <2>1. UNCHANGED <<executables, files, discListening, setup, polls, told, readable, discBrowsers>>
    BY <1>6 DEF Reaching!AskDiscover
  <2>2. CASE Reaching!Parsed(files[b])
    <3>1. /\ discRequest' = "connecting" /\ discAnswer' = discAnswer
          /\ plan' = [key |-> <<"localhost", files[b].port>>, to |-> Reaching!FileEndpoint(files[b]),
                      named |-> files[b].browser]
      BY <1>6, <2>2 DEF Reaching!AskDiscover
    <3>2. files[b].port \in DebugPorts
      BY <2>2 DEF Reaching!Parsed, Reaching!File
    <3>3. /\ plan'.key[2] = files[b].port /\ plan'.to.port = files[b].port
          /\ plan'.named = files[b].browser /\ plan'.to.path = files[b].browser
          /\ plan'.to.direct = (files[b].browser # None)
      BY <3>1 DEF Reaching!FileEndpoint
    <3> QED BY <2>1, <3>1, <3>2, <3>3
  <2>3. CASE ~Reaching!Parsed(files[b])
    BY <1>6, <2>1, <2>3 DEF Reaching!AskDiscover, Reaching!Refusal
  <2> QED BY <2>2, <2>3
<1>7. CASE Reaching!GetOrConnect
  <2>1. /\ discRequest = "connecting" /\ discRequest' = "none"
        /\ UNCHANGED <<executables, files, discListening, setup, polls, told, readable>>
    BY <1>7 DEF Reaching!GetOrConnect
  <2>2. CASE discAnswer'.status # "connected" /\ UNCHANGED discBrowsers
    BY SMTT(60), <2>1, <2>2
  <2>3. CASE /\ Reaching!Reached(plan.to) # None
             /\ discBrowsers' = [k \in DOMAIN discBrowsers \cup {plan.key} |->
                          IF k = plan.key THEN [browser |-> Reaching!Reached(plan.to), live |-> TRUE]
                          ELSE discBrowsers[k]]
             /\ discAnswer' = [status |-> "connected", browser |-> Reaching!Reached(plan.to),
                               named |-> plan.named]
    <3>1. /\ Reaching!Reached(plan.to) = discListening[plan.to.port]
          /\ Reaching!Reached(plan.to) \in Listeners
          /\ plan.to.direct => plan.to.path = Reaching!Reached(plan.to)
      BY <2>1, <2>3 DEF Reaching!Reached
    <3>2. ASSUME NEW k \in DOMAIN discBrowsers'
          PROVE  /\ discBrowsers'[k] \in [browser : Listeners, live : BOOLEAN] /\ k[2] \in DebugPorts
                 /\ discBrowsers'[k].live => discListening[k[2]] = discBrowsers'[k].browser
      <4>1. CASE k = plan.key
        BY <2>1, <2>3, <3>1, <4>1
      <4>2. CASE k # plan.key
        BY <2>3, <4>2
      <4> QED BY <4>1, <4>2
    <3> QED BY <2>1, <2>3, <3>1, <3>2
  <2> QED BY <1>7, <2>2, <2>3 DEF Reaching!GetOrConnect, Reaching!Refusal
<1>8. ASSUME NEW k \in DOMAIN discBrowsers, Reaching!Lose(k) PROVE DiscoveryInvariant'
  BY <1>8 DEF Reaching!Lose
<1>9. ASSUME NEW b \in Reaching!Browsers, NEW p \in DebugPorts, Reaching!Enable(b, p) PROVE DiscoveryInvariant'
  BY <1>9 DEF Reaching!Enable, Reaching!File, Reaching!Browsers
<1>10. ASSUME NEW b \in Reaching!Browsers, NEW p \in DebugPorts, Reaching!Finish(b, p) PROVE DiscoveryInvariant'
  BY <1>10 DEF Reaching!Finish, Reaching!File, Reaching!Browsers
<1>11. ASSUME NEW p \in DebugPorts, Reaching!Exit(p) PROVE DiscoveryInvariant'
  <2> DEFINE b == discListening[p]
  <2>1. /\ b \in Reaching!Browsers /\ discListening' = [discListening EXCEPT ![p] = None]
        /\ discBrowsers' = [k \in DOMAIN discBrowsers |->
                              [discBrowsers[k] EXCEPT !.live = @ /\ discBrowsers[k].browser # b]]
        /\ UNCHANGED <<executables, setup, polls, told, readable, discRequest, plan, discAnswer>>
    BY <1>11 DEF Reaching!Exit
  <2>2. files' \in [Reaching!Browsers -> {None, Bad} \cup Reaching!File]
    <3>1. PICK f : files' = [files EXCEPT ![b] = f] /\ f \in {None,
                IF Reaching!Parsed(files[b])
                THEN [files[b] EXCEPT !.browser = IF @ = None THEN None ELSE "gone"] ELSE files[b]}
      BY <1>11 DEF Reaching!Exit
    <3>2. f \in {None, Bad} \cup Reaching!File
      BY <2>1, <3>1 DEF Reaching!Parsed, Reaching!File
    <3> QED BY <2>1, <3>1, <3>2
  <2>3. ASSUME NEW k \in DOMAIN discBrowsers'
        PROVE  /\ discBrowsers'[k] \in [browser : Listeners, live : BOOLEAN] /\ k[2] \in DebugPorts
               /\ discBrowsers'[k].live => discListening'[k[2]] = discBrowsers'[k].browser
    <3>1. k \in DOMAIN discBrowsers /\ discBrowsers[k] \in [browser : Listeners, live : BOOLEAN]
          /\ k[2] \in DebugPorts
      BY <2>1
    <3>2. discBrowsers'[k] = [browser |-> discBrowsers[k].browser,
                              live |-> discBrowsers[k].live /\ discBrowsers[k].browser # b]
      BY <2>1, <3>1
    <3> QED BY <2>1, <3>1, <3>2
  <2> QED BY <2>1, <2>2, <2>3
<1>12. CASE UNCHANGED Reaching!discoveryVars
  BY <1>12 DEF Reaching!discoveryVars
<1> QED BY <1>1, <1>2, <1>3, <1>4, <1>5, <1>6, <1>7, <1>8, <1>9, <1>10, <1>11, <1>12
        DEF Reaching!DiscoveryNext, Reaching!Setup

(* It implies what the run checks of the discovery.                        *)
LEMMA DiscoveryKeepsItsWord == DiscoveryInvariant => Reaching!DiscoveryIsSound
BY DEF DiscoveryInvariant, ConnectionsAreKnown, SetupProgress, Reaching!DiscoveryIsSound,
       Reaching!KeyIsItsAddress, Reaching!SetupIsTrue

-----------------------------------------------------------------------------
(* The components side by side.                                            *)

(* A component that moves has its invariant.                               *)
DaemonInvariant ==
  /\ moving = "cli" => CommandInvariant
  /\ moving = "process" => ProcessInvariant
  /\ moving = "launch" => LaunchInvariant
  /\ moving = "discovery" => DiscoveryInvariant
  /\ moving = "wait" => HandlerWaitInvariant
  /\ moving = "download" => HandlerDownloadInvariant
  /\ moving = "watch" => HandlerWatchInvariant
  /\ moving = "console" => HandlerConsoleInvariant
  /\ moving = "storage" => HandlerStorageInvariant

(* At first the component that moves is in an initial state of its own.    *)
LEMMA DaemonStarts == DaemonInit => DaemonInvariant
BY CommandStarts, ProcessStarts, LaunchStarts, DiscoveryStarts, HandlerWaitStarts, HandlerDownloadStarts,
   HandlerWatchStarts, HandlerConsoleStarts, HandlerStorageStarts DEF DaemonInit, DaemonInvariant

(* What moves takes a step of its own, or none.                            *)
ItsStep ==
  /\ moving = "cli" => [Commanding!CommandNext]_(Commanding!cliVars)
  /\ moving = "process" => [Commanding!ProcessNext]_(Commanding!processVars)
  /\ moving = "launch" => [Reaching!LaunchNext]_(Reaching!launchVars)
  /\ moving = "discovery" => [Reaching!DiscoveryNext]_(Reaching!discoveryVars)
  /\ moving = "wait" => [Waits!WaitNext]_(Waits!dwVars)
  /\ moving = "download" => [Waits!DownloadNext]_(Waits!ddVars)
  /\ moving = "watch" => [Logs!WatchNext]_(Logs!nwVars)
  /\ moving = "console" => [Logs!ConsoleNext]_(Logs!consoleVars)
  /\ moving = "storage" => [Storage!Next]_(Storage!dsVars)

(* A step is one of the component that moves, which goes on moving.        *)
LEMMA DaemonStep == [DaemonNext]_everything => UNCHANGED moving /\ ItsStep
<1> SUFFICES ASSUME [DaemonNext]_everything PROVE UNCHANGED moving /\ ItsStep
  BY SMTT(60)
<1>1. CASE DaemonNext
  BY <1>1 DEF DaemonNext, StillBut, ItsStep
<1>2. CASE UNCHANGED everything
  <2>1. UNCHANGED <<moving, theCommand, theProcess, theLaunch, theDiscovery>>
    BY <1>2 DEF everything
  <2>2. UNCHANGED <<theWait, theDownload, theWatch, theConsole, theStorage>>
    BY <1>2 DEF everything
  <2>3. UNCHANGED Commanding!cliVars /\ UNCHANGED Commanding!processVars
    BY <2>1 DEF theCommand, theProcess, Commanding!cliVars, Commanding!processVars
  <2>4. UNCHANGED Reaching!launchVars
    BY <2>1 DEF theLaunch, Reaching!launchVars, Reaching!chosen, Reaching!process, Reaching!runtime
  <2>5. UNCHANGED Reaching!discoveryVars
    BY <2>1 DEF theDiscovery, Reaching!discoveryVars, Reaching!world, Reaching!settingUp, Reaching!daemon
  <2>6. UNCHANGED Waits!dwVars
    BY <2>2 DEF theWait, Waits!dwVars
  <2>7. UNCHANGED Waits!ddVars
    BY <2>2 DEF theDownload, Waits!ddVars
  <2>8. UNCHANGED Logs!nwVars
    BY <2>2 DEF theWatch, Logs!nwVars
  <2>9. UNCHANGED Logs!consoleVars
    BY <2>2 DEF theConsole, Logs!consoleVars
  <2>10. UNCHANGED Storage!dsVars
    BY <2>2 DEF theStorage, Storage!dsVars
  <2> QED BY <2>1, <2>3, <2>4, <2>5, <2>6, <2>7, <2>8, <2>9, <2>10 DEF ItsStep
<1> QED BY <1>1, <1>2

(* The invariants hold in every reachable state.                           *)
LEMMA DaemonAlways == DaemonSpec => []DaemonInvariant
<1>1. DaemonInvariant /\ [DaemonNext]_everything => DaemonInvariant'
  <2> SUFFICES ASSUME DaemonInvariant, [DaemonNext]_everything PROVE DaemonInvariant'
    OBVIOUS
  <2>1. UNCHANGED moving /\ ItsStep
    BY DaemonStep
  <2>2. CASE moving \in {"cli", "process", "launch", "discovery"}
    BY <2>1, <2>2, CommandNext, ProcessNext, LaunchNext, DiscoveryNext DEF DaemonInvariant, ItsStep
  <2>3. CASE moving \in {"wait", "download"}
    BY <2>1, <2>3, HandlerWaitNext, HandlerDownloadNext DEF DaemonInvariant, ItsStep
  <2>4. CASE moving \in {"watch", "console", "storage"}
    BY <2>1, <2>4, HandlerWatchNext, HandlerConsoleNext, HandlerStorageNext DEF DaemonInvariant, ItsStep
  <2> QED BY <2>1, <2>2, <2>3, <2>4 DEF DaemonInvariant
<1> QED BY <1>1, DaemonStarts, PTL DEF DaemonSpec

(* Every option that a command accepts has an effect; its request is one   *)
(* that the daemon accepts and runs under its session's lock; the client   *)
(* outwaits the daemon, and appends its output once.  One daemon serves,   *)
(* its port file is true, and a client that asks was answered by it or     *)
(* told that it is gone (command.rs, client.rs, daemon/mod.rs).            *)
THEOREM CommandsArrive == DaemonSpec => []CommandsReachTheDaemon
<1>1. DaemonInvariant => CommandsReachTheDaemon
  BY CommandIsSound, ProcessIsSound DEF DaemonInvariant, CommandsReachTheDaemon
<1> QED BY <1>1, DaemonAlways, PTL

(* A runtime is connected to the browser it launched or was named, a launch*)
(* that fails or is cancelled leaves no process and no profile that nobody *)
(* was told of, and a connection is registered under the address it was    *)
(* made to (launch.rs, endpoint.rs, daemon/browser.rs).                    *)
THEOREM BrowsersFound == DaemonSpec => []BrowsersAreReached
<1>1. DaemonInvariant => BrowsersAreReached
  BY LaunchKeepsItsWord, DiscoveryKeepsItsWord DEF DaemonInvariant, BrowsersAreReached
<1> QED BY <1>1, DaemonAlways, PTL

(* A wait that ends well saw what it waited for; network watch reports each *)
(* response it was to report once, and why it stopped; click download      *)
(* answers with a download of its own click, and leaves the browser's      *)
(* behaviour as it was or says so; the console log is the end of what was  *)
(* recorded; a storage command stays in its session's context, one that is *)
(* refused has touched nothing, and an undisturbed import is whole         *)
(* (daemon/handler/wait.rs, network.rs, act.rs, console.rs, session.rs).   *)
THEOREM HandlersTell == DaemonSpec => []HandlersTellTheTruth
<1>1. HandlerWaitInvariant => Waits!DaemonWaitIsSound
  BY DEF HandlerWaitInvariant
<1>2. DaemonInvariant => HandlersTellTheTruth
  BY <1>1, HandlerDownloadIsSound, HandlerWatchIsSound, HandlerConsoleIsSound, HandlerStorageIsSound
     DEF DaemonInvariant, HandlersTellTheTruth
<1> QED BY <1>2, DaemonAlways, PTL

(* The bindings of sessions to browsers, which are there in every behaviour*)
(* and step where they move, are sound in each (daemon/state.rs,           *)
(* daemon/persist.rs, daemon/handler/connect.rs, daemon/handler/browser.rs).*)
THEOREM BindingsHold == DaemonSpec => []BindingIsSound
<1>1. DaemonInit => BindingInv
  BY BindingStarts DEF DaemonInit
<1>2. ASSUME BindingInv, [DaemonNext]_everything PROVE BindingInv'
  <2>1. Next \/ UNCHANGED theBinding
    BY <1>2 DEF DaemonNext, StillBut, everything
  <2>2. CASE UNCHANGED theBinding
    <3>1. UNCHANGED bindingVars
      BY <2>2 DEF theBinding, bindingVars, memory, locks, disk, outside
    <3> QED BY <1>2, <3>1, BindingStill
  <2> QED BY <1>2, <2>1, <2>2, BindingKept
<1>3. BindingInv => BindingIsSound
  BY BindingInvSound
<1> QED BY <1>1, <1>2, <1>3, PTL DEF DaemonSpec
===============================================================================
