------------------------------- MODULE RelayApp -------------------------------
(***************************************************************************)
(* The macOS app (RelayService.swift, NostrRelayApp.swift) and the relay   *)
(* processes it launches, each of which brings the database up to date     *)
(* (SchemaUpgrade, build_repo) before it serves. The app writes its        *)
(* configuration for SQLite; a relay on PostgreSQL is started by hand.     *)
(*                                                                         *)
(* A relay is "none" until launched, then "starting", "upgrading",         *)
(* "serving", "closing" (told to terminate) and "dead". The main actor     *)
(* runs one handler at a time; handlers that wait for it are messages.     *)
(***************************************************************************)
EXTENDS SchemaUpgrade, FiniteSets

CONSTANTS Relays,   (* processes, as many as may be launched                   *)
          None      (* no process                                              *)

VARIABLES relays,        (* of each process: its phase, the version it believes *)
                         (* the database has, its place in that script          *)
          verbose,       (* appSpecific.verboseLogging                          *)
          open,          (* the app is running                                  *)
          process, isRunning, isStarting, isServerReady,
          startTasks,    (* start's detached tasks: how many are to kill, wait  *)
          probing,       (* readinessTask polls                                 *)
          children,      (* relays that this run of the app has launched        *)
          messages       (* what waits for the main actor                       *)

app == <<open, process, isRunning, isStarting, isServerReady, startTasks, probing,
         children, messages>>
vars == <<database, relays, verbose, app>>

Live == {r \in Relays : relays[r].phase \notin {"none", "dead"}}
Terminated(r) == [what |-> "terminated", relay |-> r]
Answer(r)     == [what |-> "answer", relay |-> r]
Line(r)       == [what |-> "line", relay |-> r]
Messages == [what : {"terminated", "answer", "line"}, relay : Relays]

In(phase) == [phase |-> phase, from |-> 0, step |-> 0]
At(v, i)  == [phase |-> "upgrading", from |-> v, step |-> i]

NoTasks == [killing |-> 0, waiting |-> 0]

AppClosed ==
  /\ open = FALSE
  /\ process = None
  /\ isRunning = FALSE
  /\ isStarting = FALSE
  /\ isServerReady = FALSE
  /\ startTasks = NoTasks
  /\ probing = FALSE
  /\ children = {}
  /\ messages = {}

Init ==
  /\ DatabaseInit
  /\ relays = [r \in Relays |-> In("none")]
  /\ verbose \in BOOLEAN
  /\ AppClosed

----------------------------------------------------------------------------
(* The relay *)

\* Processes end; the app's terminationHandler queues a task for each of its own.
End(dying) ==
  /\ relays' = [r \in Relays |-> IF r \in dying THEN In("dead") ELSE relays[r]]
  /\ messages' = messages \cup {Terminated(r) : r \in dying \cap children}

\* upgrade_db and run_migration look at the version once.
ReadVersion(r) ==
  /\ relays[r].phase = "starting"
  /\ relays' = [relays EXCEPT ![r] = At(version, 1)]
  /\ UNCHANGED <<database, verbose, app>>

InScript(r) == relays[r].phase = "upgrading" /\ relays[r].from < DB_VERSION

PlaceAfterAll(v, i) == At(v, i + 1)
NextPlace(v, i) == IF i < Len(Scripts[v]) THEN At(v, i + 1) ELSE At(Reached(v), 1)

Upgrade(r) ==
  /\ InScript(r)
  /\ Execute(relays[r].from, relays[r].step)
  /\ relays' = [relays EXCEPT ![r] = NextPlace(@.from, @.step)]
  /\ UNCHANGED <<verbose, app>>

\* start_server goes on to listen: the tasks are spawned ("control message listener
\* started" is a line of the log), the signal handler is installed.
StartServer(r) ==
  /\ relays' = [relays EXCEPT ![r] = In("serving")]
  /\ messages' = messages \cup (IF verbose /\ r \in children THEN {Line(r)} ELSE {})
  /\ UNCHANGED <<database, verbose, open, process, isRunning, isStarting, isServerReady,
                 startTasks, probing, children>>

\* There is nothing (more) to do. For SQLite a database that is newer makes upgrade_db
\* panic, in a thread of its own whose end build_sqlite_pool drops with .ok(); for
\* PostgreSQL all migrations are found.
Serve(r) ==
  /\ relays[r].phase = "upgrading" /\ relays[r].from >= DB_VERSION
  /\ StartServer(r)

\* A statement fails: the column is there, the disk is full. build_sqlite_pool goes on
\* as above, build_postgres_pool panics (Dies).
ServeUnmigrated(r) ==
  /\ InScript(r)
  /\ engine = "sqlite"
  /\ StartServer(r)

\* A relay ends: what it was told to, a crash, a port in use, SIGKILL from elsewhere.
Dies(r) ==
  /\ r \in Live
  /\ End({r})
  /\ UNCHANGED <<database, verbose, open, process, isRunning, isStarting, isServerReady,
                 startTasks, probing, children>>

\* A relay that is started without the app; nobody starts a second one.
StartByHand(r) ==
  /\ engine = "postgres"
  /\ relays[r].phase = "none" /\ Live = {}
  /\ relays' = [relays EXCEPT ![r] = In("starting")]
  /\ UNCHANGED <<database, verbose, app>>

----------------------------------------------------------------------------
(* The app *)

OpenApp ==
  /\ engine = "sqlite"
  /\ ~open
  /\ open' = TRUE
  /\ UNCHANGED <<database, relays, verbose, process, isRunning, isStarting,
                 isServerReady, startTasks, probing, children, messages>>

\* start(): the button, the menu, or the window's .task with autoStart.
MayStartAgain == ~isRunning
MayStart == ~isRunning /\ ~isStarting
Start ==
  /\ open
  /\ MayStart
  /\ isStarting' = TRUE
  /\ isServerReady' = FALSE
  /\ startTasks' = [startTasks EXCEPT !.killing = @ + 1]
  /\ UNCHANGED <<database, relays, verbose, open, process, isRunning, probing,
                 children, messages>>

\* killStaleProcesses: pkill -9 on every relay of the user, whoever started it.
KillStaleProcesses ==
  /\ startTasks.killing > 0
  /\ startTasks' = [killing |-> startTasks.killing - 1, waiting |-> startTasks.waiting + 1]
  /\ End(Live)
  /\ UNCHANGED <<database, verbose, open, process, isRunning, isStarting,
                 isServerReady, probing, children>>

\* launchProcess, once the port is free or six seconds have passed; it may fail.
LaunchProcess(r) ==
  /\ startTasks.waiting > 0
  /\ relays[r].phase = "none"
  /\ startTasks' = [startTasks EXCEPT !.waiting = @ - 1]
  /\ isStarting' = FALSE
  /\ process' = r
  /\ \/ /\ relays' = [relays EXCEPT ![r] = In("starting")]
        /\ children' = children \cup {r}
        /\ isRunning' = TRUE
        /\ probing' = TRUE
     \/ /\ relays' = [relays EXCEPT ![r] = In("dead")]
        /\ UNCHANGED <<children, isRunning, probing>>
  /\ UNCHANGED <<database, verbose, open, isServerReady, messages>>

\* SIGTERM: start_server has a handler for it only when it listens.
Terminate(r, phase) ==
  IF phase = "serving" THEN In("closing")
  ELSE IF phase \in {"starting", "upgrading"} THEN In("dead") ELSE relays[r]

TellToTerminate(r) ==
  /\ relays' = [relays EXCEPT ![r] = Terminate(r, relays[r].phase)]
  /\ messages' = messages \cup
       (IF relays[r].phase \in {"starting", "upgrading"} THEN {Terminated(r)} ELSE {})

\* stop(), by the button, which is there while isRunning.
Stop ==
  /\ open /\ isRunning
  /\ isRunning' = FALSE
  /\ isServerReady' = FALSE
  /\ probing' = FALSE
  /\ IF process \in Live THEN TellToTerminate(process)
     ELSE UNCHANGED <<relays, messages>>
  /\ UNCHANGED <<database, verbose, open, process, isStarting, startTasks, children>>

\* The task that the terminationHandler has queued: only the present process counts.
IsAnyones(r) == TRUE
IsCurrent(r) == r = process
Notified(r) ==
  /\ Terminated(r) \in messages
  /\ messages' = messages \ {Terminated(r)}
  /\ IF IsCurrent(r)
     THEN isRunning' = FALSE /\ isServerReady' = FALSE /\ probing' = FALSE
     ELSE UNCHANGED <<isRunning, isServerReady, probing>>
  /\ UNCHANGED <<database, relays, verbose, open, process, isStarting, startTasks,
                 children>>

\* The readiness probe gets its answer, which goes to the main actor, or gives up
\* after thirty attempts.
Probe ==
  /\ probing
  /\ probing' = FALSE
  /\ \/ \E r \in Live : /\ relays[r].phase = "serving"
                      /\ messages' = messages \cup {Answer(r)}
     \/ UNCHANGED messages
  /\ UNCHANGED <<database, relays, verbose, open, process, isRunning, isStarting,
                 isServerReady, startTasks, children>>

Answered(r) ==
  /\ Answer(r) \in messages
  /\ messages' = messages \ {Answer(r)}
  /\ isServerReady' = (isServerReady \/ isRunning)
  /\ UNCHANGED <<database, relays, verbose, open, process, isRunning, isStarting,
                 startTasks, probing, children>>

\* parseOutput: a line of the log says that the relay is ready.
ParseOutput(r) ==
  /\ Line(r) \in messages
  /\ messages' = messages \ {Line(r)}
  /\ isServerReady' = TRUE
  /\ UNCHANGED <<database, relays, verbose, open, process, isRunning, isStarting,
                 startTasks, probing, children>>

\* willTerminateNotification: the relay is told to terminate and given ten seconds, in
\* which nothing else runs here; or the app is killed and its relay left alone.
LeaveApp ==
  /\ open
  /\ open' = FALSE /\ process' = None /\ isRunning' = FALSE /\ isStarting' = FALSE
  /\ isServerReady' = FALSE /\ startTasks' = NoTasks /\ probing' = FALSE
  /\ children' = {} /\ messages' = {}
  /\ \/ relays' = IF process \in Live
                  THEN [relays EXCEPT ![process] = Terminate(process, relays[process].phase)]
                  ELSE relays
     \/ UNCHANGED relays
  /\ UNCHANGED <<database, verbose>>

----------------------------------------------------------------------------
RelayStep(r) ==
  \/ ReadVersion(r) \/ Upgrade(r) \/ Serve(r) \/ ServeUnmigrated(r)
  \/ Dies(r) \/ StartByHand(r)

AppStep(r) ==
  LaunchProcess(r) \/ Notified(r) \/ Answered(r) \/ ParseOutput(r)

Next ==
  \/ \E r \in Relays : RelayStep(r) \/ AppStep(r)
  \/ OpenApp \/ Start \/ KillStaleProcesses \/ Stop \/ Probe \/ LeaveApp

Spec == Init /\ [][Next]_vars

----------------------------------------------------------------------------
Places == {In("none"), In("starting"), In("serving"), In("closing"), In("dead")}

\* The values of the variables; a relay that upgrades is at a place of a script, or past
\* the last version; one task of start() runs, exactly while isStarting.
TypeOK ==
  /\ engine \in {"sqlite", "postgres"}
  /\ version \in 0 .. DB_VERSION + 1
  /\ has \subseteq DOMAIN Since \cup References
  /\ unfinished \subseteq DOMAIN Scripts
  /\ DOMAIN relays = Relays
  /\ \A r \in Relays :
       \/ relays[r] \in Places
       \/ /\ relays[r].phase = "upgrading"
          /\ \/ relays[r].from \in DOMAIN Scripts
                /\ relays[r].step \in DOMAIN Scripts[relays[r].from]
             \/ relays[r].from \in {DB_VERSION, DB_VERSION + 1} /\ relays[r].step = 1
  /\ process \in Relays \cup {None}
  /\ startTasks \in IF isStarting
                   THEN {[killing |-> 1, waiting |-> 0], [killing |-> 0, waiting |-> 1]}
                   ELSE {NoTasks}
  /\ children \subseteq Relays
  /\ messages \subseteq Messages
  /\ {open, isRunning, isServerReady, probing, verbose} \subseteq BOOLEAN

\* No two relays are ever at work on the database and the port, however the app and its
\* relays came to their end: start() kills what is left, and while it waits for the port
\* nothing else is launched. (Whoever starts a relay by hand, StartByHand, is taken to
\* see to it that none lives.)
OneRelay == \A r, s \in Live : r = s

\* What the app shows is what is there: while it shows a running relay, that relay lives
\* or the news of its end are on their way; and when it shows none, each relay that it
\* has launched is dead or has been told to terminate.
ShownIsTrue ==
  /\ isRunning => process \in Live \/ Terminated(process) \in messages
  /\ open /\ ~isRunning => \A r \in children \cap Live : relays[r].phase = "closing"

\* "Database is newer than what this code understands, abort" (sqlite_migration.rs):
\* no relay serves such a database.
NewerAborts ==
  \A r \in Relays : engine = "sqlite" /\ relays[r].phase = "serving" => version <= 18
=============================================================================
