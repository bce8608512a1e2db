---------------------------- MODULE RelayAppProofs ----------------------------
(***************************************************************************)
(* Theorems about RelayApp, for any number of launches. The invariants     *)
(* that matter are not inductive. Of the app: nothing lives while a start  *)
(* waits for the port, and the news of an end are about a relay that is    *)
(* dead. Of the database: the relay that upgrades it stands at a place of  *)
(* a script up to which everything is done, and a version whose script was *)
(* cut short is remembered. That every script, killed anywhere and run     *)
(* again, goes on so is proved of the scripts one by one.                  *)
(***************************************************************************)
EXTENDS RelayApp, TLAPS

StartTasks ==
  startTasks \in IF isStarting
                 THEN {[killing |-> 1, waiting |-> 0], [killing |-> 0, waiting |-> 1]}
                 ELSE {NoTasks}

Shapes ==
  /\ DOMAIN relays = Relays
  /\ relays = [r \in Relays |-> relays[r]]
  /\ {open, isRunning, isStarting} \subseteq BOOLEAN
  /\ children \subseteq Relays
  /\ engine \in {"sqlite", "postgres"}

ClosedIsClosed == ~open => AppClosed
ByHandOnly     == engine = "postgres" => ~open
RunningIsOne   == isRunning => ~isStarting /\ process \in children
NobodyWaiting  == startTasks.waiting > 0 => Live = {}
NewsAreTrue    == \A r \in Relays : Terminated(r) \in messages => relays[r].phase = "dead"
OnlyTheProcess == isRunning => children \cap Live \subseteq {process}

Phases ==
  \A r \in Relays : relays[r].phase \in
    {"none", "starting", "upgrading", "serving", "closing", "dead"}

AppInv ==
  /\ Shapes /\ Phases /\ StartTasks /\ ClosedIsClosed /\ ByHandOnly /\ RunningIsOne
  /\ NobodyWaiting /\ NewsAreTrue /\ OnlyTheProcess
  /\ OneRelay /\ ShownIsTrue

----------------------------------------------------------------------------
\* The news of the ends of two relays are different, and different from other messages.
LEMMA MessagesDiffer ==
  \A r, s : /\ Terminated(r) = Terminated(s) => r = s
            /\ Terminated(r) # Answer(s) /\ Terminated(r) # Line(s)
  BY DEF Terminated, Answer, Line

\* The places of relays that carry no script have the phase they are named for.
LEMMA PhaseOfPlace == \A phase : In(phase).phase = phase
  BY DEF In

LEMMA InitInv == Init => AppInv
<1> SUFFICES ASSUME Init PROVE AppInv
  OBVIOUS
<1>1. Live = {}
  BY PhaseOfPlace DEF Init, Live
<1>2. engine \in {"sqlite", "postgres"}
  BY DEF Init, DatabaseInit
<1> QED
  BY <1>1, <1>2, PhaseOfPlace DEF Init, AppClosed, AppInv, Shapes, Phases, StartTasks, ClosedIsClosed, ByHandOnly,
    RunningIsOne, NobodyWaiting, NewsAreTrue, OnlyTheProcess, OneRelay, ShownIsTrue, NoTasks

\* A relay goes on with its work: the app's part of the state stays, except for news
\* that are not about an end.
LEMMA GoesOn ==
  ASSUME AppInv, NEW r \in Relays,
         relays[r].phase \in {"starting", "upgrading"},
         relays'[r].phase \in {"upgrading", "serving"},
         relays' = [relays EXCEPT ![r] = relays'[r]],
         \A s : Terminated(s) \in messages' <=> Terminated(s) \in messages,
         ~open => messages' = messages,
         UNCHANGED <<engine, open, process, isRunning, isStarting, isServerReady,
                     startTasks, probing, children>>
  PROVE  AppInv'
<1>1. \A s \in Relays : s # r => relays'[s] = relays[s]
  BY DEF AppInv, Shapes
<1>2. Live' = Live
  BY <1>1 DEF Live
<1>3. Shapes' /\ Phases'
  BY <1>1 DEF AppInv, Shapes, Phases
<1>4. NewsAreTrue'
  BY <1>1 DEF AppInv, NewsAreTrue
<1>5. ShownIsTrue'
  <2>1. r \in Live
    BY DEF Live
  <2>2. open /\ ~isRunning => r \notin children
    BY <2>1 DEF AppInv, ShownIsTrue
  <2>3. ASSUME open, ~isRunning, NEW s \in children \cap Live
        PROVE  relays'[s].phase = "closing"
    BY <1>1, <2>2, <2>3 DEF AppInv, ShownIsTrue, Live
  <2> QED
    BY <1>2, <2>3 DEF AppInv, ShownIsTrue
<1>6. ClosedIsClosed'
  BY DEF AppInv, ClosedIsClosed, AppClosed
<1> QED
  BY <1>2, <1>3, <1>4, <1>5, <1>6
  DEF AppInv, StartTasks, ByHandOnly, RunningIsOne, NobodyWaiting, OnlyTheProcess, OneRelay

\* Relays end, and their app is told.
LEMMA Ends ==
  ASSUME AppInv, NEW dying, dying \subseteq Live, End(dying),
         UNCHANGED <<engine, open, process, isRunning, isStarting, isServerReady,
                     probing, children>>
  PROVE  /\ Live' = Live \ dying
         /\ Shapes' /\ Phases' /\ NewsAreTrue' /\ ShownIsTrue'
         /\ OnlyTheProcess' /\ OneRelay'
         /\ ~open => messages' = messages
<1>1. \A s \in Relays : relays'[s] = IF s \in dying THEN In("dead") ELSE relays[s]
  BY DEF End
<1>2. Live' = Live \ dying
  BY <1>1, PhaseOfPlace DEF Live
<1>3. Shapes' /\ Phases'
  BY <1>1, PhaseOfPlace DEF AppInv, Shapes, Phases, End
<1>4. \A s : Terminated(s) \in messages'
            <=> Terminated(s) \in messages \/ s \in dying \cap children
  BY MessagesDiffer DEF End
<1>5. NewsAreTrue'
  BY <1>1, <1>4, PhaseOfPlace DEF AppInv, NewsAreTrue, Live
<1>6. ShownIsTrue'
  <2>1. ASSUME isRunning PROVE process \in Live' \/ Terminated(process) \in messages'
    <3>1. process \in Live \/ Terminated(process) \in messages
      BY <2>1 DEF AppInv, ShownIsTrue
    <3>2. CASE process \in Live /\ process \in dying
      BY <3>2, <1>4, <2>1 DEF AppInv, RunningIsOne
    <3> QED
      BY <3>1, <3>2, <1>2, <1>4
  <2>2. ASSUME open, ~isRunning, NEW r \in children \cap Live'
        PROVE  relays'[r].phase = "closing"
    BY <2>2, <1>1, <1>2 DEF AppInv, ShownIsTrue, Live
  <2> QED
    BY <2>1, <2>2 DEF ShownIsTrue
<1>7. OnlyTheProcess' /\ OneRelay'
  BY <1>2 DEF AppInv, OnlyTheProcess, OneRelay
<1>8. ~open => messages' = messages
  BY DEF AppInv, ClosedIsClosed, AppClosed, End
<1> QED
  BY <1>2, <1>3, <1>5, <1>6, <1>7, <1>8

----------------------------------------------------------------------------
(* The steps of a relay. *)

LEMMA RelayStepInv ==
  ASSUME AppInv, NEW r \in Relays, RelayStep(r)
  PROVE  AppInv'
<1>1. CASE ReadVersion(r)
  <2> DEFINE place == At(version, 1)
  <2>1. place.phase = "upgrading"
    BY DEF At
  <2>2. relays' = [relays EXCEPT ![r] = place] /\ relays[r].phase = "starting"
    BY <1>1 DEF ReadVersion
  <2>3. /\ messages' = messages
        /\ UNCHANGED <<engine, open, process, isRunning, isStarting, isServerReady,
                       startTasks, probing, children>>
    BY <1>1 DEF ReadVersion, database, app
  <2>4. relays'[r] = place
    BY <2>2 DEF AppInv, Shapes
  <2>5. relays' = [relays EXCEPT ![r] = relays'[r]] /\ relays'[r].phase = "upgrading"
    BY <2>1, <2>2, <2>4
  <2>6. \A s : Terminated(s) \in messages' <=> Terminated(s) \in messages
    BY <2>3
  <2> HIDE DEF place
  <2> QED
    BY <2>2, <2>3, <2>5, <2>6, GoesOn
<1>2. CASE Upgrade(r)
  <2> DEFINE place == NextPlace(relays[r].from, relays[r].step)
  <2>1. place.phase = "upgrading"
    BY DEF NextPlace, At
  <2>2. relays' = [relays EXCEPT ![r] = place] /\ relays[r].phase = "upgrading"
    BY <1>2 DEF Upgrade, InScript
  <2>3. /\ messages' = messages
        /\ UNCHANGED <<engine, open, process, isRunning, isStarting, isServerReady,
                       startTasks, probing, children>>
    BY <1>2 DEF Upgrade, Execute, app
  <2>4. relays'[r] = place
    BY <2>2 DEF AppInv, Shapes
  <2>5. relays' = [relays EXCEPT ![r] = relays'[r]] /\ relays'[r].phase = "upgrading"
    BY <2>1, <2>2, <2>4
  <2>6. \A s : Terminated(s) \in messages' <=> Terminated(s) \in messages
    BY <2>3
  <2> HIDE DEF place
  <2> QED
    BY <2>2, <2>3, <2>5, <2>6, GoesOn
<1>3. CASE Serve(r) \/ ServeUnmigrated(r)
  <2>1. relays[r].phase = "upgrading" /\ StartServer(r)
    BY <1>3 DEF Serve, ServeUnmigrated, InScript
  <2>2. \A s : Terminated(s) \in messages' <=> Terminated(s) \in messages
    BY <2>1, MessagesDiffer DEF StartServer
  <2>3. ~open => messages' = messages
    BY <2>1 DEF AppInv, ClosedIsClosed, AppClosed, StartServer
  <2> DEFINE place == In("serving")
  <2>4. place.phase = "serving"
    BY PhaseOfPlace
  <2>5. /\ relays' = [relays EXCEPT ![r] = place]
        /\ UNCHANGED <<engine, open, process, isRunning, isStarting, isServerReady,
                       startTasks, probing, children>>
    BY <2>1 DEF StartServer, database
  <2>6. relays'[r] = place
    BY <2>5 DEF AppInv, Shapes
  <2>7. relays' = [relays EXCEPT ![r] = relays'[r]] /\ relays'[r].phase = "serving"
    BY <2>4, <2>5, <2>6
  <2> HIDE DEF place
  <2> QED
    BY <2>1, <2>2, <2>3, <2>5, <2>7, GoesOn
<1>4. CASE Dies(r)
  <2>1. {r} \subseteq Live /\ End({r})
    BY <1>4 DEF Dies
  <2>2. UNCHANGED <<engine, open, process, isRunning, isStarting, isServerReady,
                    startTasks, probing, children>>
    BY <1>4 DEF Dies, database
  <2>3. /\ Live' = Live \ {r}
        /\ Shapes' /\ Phases' /\ NewsAreTrue' /\ ShownIsTrue'
         /\ OnlyTheProcess' /\ OneRelay'
        /\ ~open => messages' = messages
    BY <2>1, <2>2, Ends
  <2>4. ClosedIsClosed'
    BY <2>2, <2>3 DEF AppInv, ClosedIsClosed, AppClosed
  <2> QED
    BY <2>2, <2>3, <2>4
    DEF AppInv, StartTasks, ByHandOnly, RunningIsOne, NobodyWaiting
<1>5. CASE StartByHand(r)
  <2>1. ~open /\ AppClosed /\ AppClosed'
    BY <1>5 DEF StartByHand, AppInv, ByHandOnly, ClosedIsClosed, AppClosed, app
  <2>2. Live' = {r}
    BY <1>5, PhaseOfPlace DEF StartByHand, Live, AppInv, Shapes
  <2>3. Shapes' /\ Phases'
    BY <1>5, PhaseOfPlace DEF StartByHand, AppInv, Shapes, Phases, app, database
  <2> QED
    BY <1>5, <2>1, <2>2, <2>3
    DEF StartByHand, AppClosed, NoTasks, app, database, AppInv, StartTasks, ClosedIsClosed,
        ByHandOnly, RunningIsOne, NobodyWaiting, NewsAreTrue, OnlyTheProcess, OneRelay,
        ShownIsTrue
<1> QED
  BY <1>1, <1>2, <1>3, <1>4, <1>5 DEF RelayStep

----------------------------------------------------------------------------
(* The steps of the app. *)

\* A start kills what lives, so that nobody does while it waits.
LEMMA KillInv == AppInv /\ KillStaleProcesses => AppInv'
<1> SUFFICES ASSUME AppInv, KillStaleProcesses PROVE AppInv'
  OBVIOUS
<1>1. End(Live) /\ UNCHANGED <<engine, open, process, isRunning, isStarting,
                               isServerReady, probing, children>>
  BY DEF KillStaleProcesses, database
<1>2. /\ Live' = {}
      /\ Shapes' /\ Phases' /\ NewsAreTrue' /\ ShownIsTrue'
         /\ OnlyTheProcess' /\ OneRelay'
  <2>1. Live \subseteq Live
    OBVIOUS
  <2> QED
    BY <1>1, <2>1, Ends
<1>3. open /\ isStarting
  BY DEF AppInv, ClosedIsClosed, AppClosed, StartTasks, NoTasks, KillStaleProcesses
<1>4. StartTasks'
  BY <1>1, <1>3 DEF AppInv, StartTasks, KillStaleProcesses
<1> QED
  BY <1>1, <1>2, <1>3, <1>4
  DEF AppInv, ClosedIsClosed, ByHandOnly, RunningIsOne, NobodyWaiting

LEMMA LaunchInv ==
  ASSUME AppInv, NEW r \in Relays, LaunchProcess(r)
  PROVE  AppInv'
<1>1. Live = {} /\ open /\ isStarting /\ ~isRunning
  BY DEF LaunchProcess, AppInv, NobodyWaiting, ClosedIsClosed, AppClosed, StartTasks,
    NoTasks, RunningIsOne
<1>2. startTasks' = NoTasks /\ isStarting' = FALSE
  BY <1>1 DEF LaunchProcess, AppInv, StartTasks, NoTasks
<1>3. UNCHANGED <<engine, open, messages>> /\ process' = r
  BY DEF LaunchProcess, database
<1>4. \A s \in Relays : s # r => relays'[s] = relays[s]
  BY DEF LaunchProcess, AppInv, Shapes
<1>5. Terminated(r) \notin messages
  BY DEF LaunchProcess, AppInv, NewsAreTrue
<1>6. CASE /\ relays' = [relays EXCEPT ![r] = In("starting")]
           /\ children' = children \cup {r}
           /\ isRunning' = TRUE
  <2>1. Live' = {r}
    BY <1>1, <1>4, <1>6, PhaseOfPlace DEF Live, AppInv, Shapes
  <2>2. Shapes' /\ Phases' /\ NewsAreTrue'
    BY <1>2, <1>3, <1>4, <1>5, <1>6, PhaseOfPlace DEF AppInv, Shapes, Phases, NewsAreTrue
  <2> QED
    BY <1>1, <1>2, <1>3, <1>6, <2>1, <2>2
    DEF AppInv, StartTasks, ClosedIsClosed, ByHandOnly, RunningIsOne, NobodyWaiting,
        OnlyTheProcess, OneRelay, ShownIsTrue, NoTasks
<1>7. CASE /\ relays' = [relays EXCEPT ![r] = In("dead")]
           /\ UNCHANGED <<children, isRunning>>
  <2>1. Live' = {}
    BY <1>1, <1>4, <1>7, PhaseOfPlace DEF Live, AppInv, Shapes
  <2>2. Shapes' /\ Phases' /\ NewsAreTrue'
    BY <1>2, <1>3, <1>4, <1>5, <1>7, PhaseOfPlace DEF AppInv, Shapes, Phases, NewsAreTrue
  <2> QED
    BY <1>1, <1>2, <1>3, <1>7, <2>1, <2>2
    DEF AppInv, StartTasks, ClosedIsClosed, ByHandOnly, RunningIsOne, NobodyWaiting,
        OnlyTheProcess, OneRelay, ShownIsTrue, NoTasks
<1> QED
  BY <1>6, <1>7 DEF LaunchProcess

\* SIGTERM takes a relay that does not listen yet at once, and is news then.
LEMMA StopInv == AppInv /\ Stop => AppInv'
<1> SUFFICES ASSUME AppInv, Stop PROVE AppInv'
  OBVIOUS
<1>1. /\ UNCHANGED <<engine, open, process, isStarting, startTasks, children>>
      /\ isRunning' = FALSE /\ open
  BY DEF Stop, database
<1>2. process \in children /\ process \in Relays
  BY DEF Stop, AppInv, RunningIsOne, Shapes
<1>3. CASE process \notin Live
  <2>1. UNCHANGED <<relays, messages>>
    BY <1>3 DEF Stop
  <2>2. Live' = Live
    BY <2>1 DEF Live
  <2>3. Shapes' /\ Phases' /\ NewsAreTrue' /\ OneRelay'
    BY <1>1, <2>1, <2>2 DEF AppInv, Shapes, Phases, NewsAreTrue, OneRelay
  <2>4. children \cap Live = {}
    BY <1>3 DEF Stop, AppInv, OnlyTheProcess
  <2> QED
    BY <1>1, <2>2, <2>3, <2>4
    DEF AppInv, StartTasks, ClosedIsClosed, ByHandOnly, RunningIsOne, NobodyWaiting,
        OnlyTheProcess, ShownIsTrue
<1>4. CASE process \in Live
  <2>1. /\ relays' = [relays EXCEPT ![process] = Terminate(process, relays[process].phase)]
        /\ messages' = messages \cup
             (IF relays[process].phase \in {"starting", "upgrading"}
              THEN {Terminated(process)} ELSE {})
    BY <1>4 DEF Stop, TellToTerminate
  <2>2. \A s \in Relays : s # process => relays'[s] = relays[s]
    BY <2>1 DEF AppInv, Shapes
  <2>3. relays'[process] = Terminate(process, relays[process].phase)
    BY <2>1, <1>2 DEF AppInv, Shapes
  <2>4. Shapes' /\ Phases'
    BY <1>1, <1>4, <2>1, <2>2, <2>3, PhaseOfPlace DEF AppInv, Shapes, Phases, Terminate
  <2>5. Live' \subseteq Live
    BY <1>4, <2>2 DEF Live
  <2>6. NewsAreTrue'
    <3>1. ASSUME NEW s \in Relays, Terminated(s) \in messages'
          PROVE  relays'[s].phase = "dead"
      <4>1. CASE Terminated(s) \in messages
        <5>1. relays[s].phase = "dead" /\ s # process
          BY <4>1, <1>4 DEF AppInv, NewsAreTrue, Live
        <5> QED
          BY <5>1, <2>2
      <4>2. CASE Terminated(s) \notin messages
        <5>1. s = process /\ relays[process].phase \in {"starting", "upgrading"}
          BY <3>1, <4>2, <2>1, MessagesDiffer
        <5> QED
          BY <5>1, <2>3, PhaseOfPlace DEF Terminate
      <4> QED
        BY <4>1, <4>2
    <3> QED
      BY <3>1 DEF NewsAreTrue
  <2>7. process \in Live' => relays'[process].phase = "closing"
    <3>1. CASE relays[process].phase = "serving"
      BY <3>1, <2>3, PhaseOfPlace DEF Terminate
    <3>2. CASE relays[process].phase \in {"starting", "upgrading"}
      BY <3>2, <2>3, PhaseOfPlace DEF Terminate, Live
    <3>3. CASE relays[process].phase \notin {"serving", "starting", "upgrading"}
      BY <3>3, <2>3, <1>4 DEF Terminate, Live, AppInv, Phases
    <3> QED
      BY <3>1, <3>2, <3>3
  <2>8. \A s \in children \cap Live' : s = process
    BY <2>5 DEF Stop, AppInv, OnlyTheProcess
  <2> QED
    BY <1>1, <2>4, <2>5, <2>6, <2>7, <2>8
    DEF AppInv, StartTasks, ClosedIsClosed, ByHandOnly, RunningIsOne, NobodyWaiting,
        OnlyTheProcess, OneRelay, ShownIsTrue
<1> QED
  BY <1>3, <1>4

LEMMA NotifiedInv ==
  ASSUME AppInv, NEW r \in Relays, Notified(r)
  PROVE  AppInv'
<1>1. /\ UNCHANGED <<engine, relays, open, process, isStarting, startTasks, children>>
      /\ messages' = messages \ {Terminated(r)}
  BY DEF Notified, database
<1>2. Live' = Live
  BY <1>1 DEF Live
<1>3. open /\ relays[r].phase = "dead"
  BY DEF Notified, AppInv, NewsAreTrue, ClosedIsClosed, AppClosed
<1>4. \A s : Terminated(s) \in messages' <=> Terminated(s) \in messages /\ s # r
  BY <1>1, MessagesDiffer
<1>5. Phases' /\ NewsAreTrue' /\ OneRelay'
  BY <1>1, <1>2, <1>4 DEF AppInv, Phases, NewsAreTrue, OneRelay
<1>6. CASE r = process
  <2>1. isRunning' = FALSE
    BY <1>6 DEF Notified, IsCurrent
  <2>2. isRunning => children \cap Live = {}
    BY <1>3, <1>6 DEF AppInv, OnlyTheProcess, Live
  <2>3. Shapes'
    BY <1>1, <2>1 DEF AppInv, Shapes
  <2> QED
    BY <1>1, <1>2, <1>3, <1>5, <2>1, <2>2, <2>3
    DEF AppInv, StartTasks, ClosedIsClosed, ByHandOnly, RunningIsOne, NobodyWaiting,
        OnlyTheProcess, ShownIsTrue
<1>7. CASE r # process
  <2>1. isRunning' = isRunning
    BY <1>7 DEF Notified, IsCurrent
  <2>2. Shapes'
    BY <1>1, <2>1 DEF AppInv, Shapes
  <2> QED
    BY <1>1, <1>2, <1>3, <1>4, <1>5, <1>7, <2>1, <2>2
    DEF AppInv, StartTasks, ClosedIsClosed, ByHandOnly, RunningIsOne, NobodyWaiting,
        OnlyTheProcess, ShownIsTrue
<1> QED
  BY <1>6, <1>7

\* The steps about readiness change nothing that the invariant is about.
LEMMA ReadinessInv ==
  ASSUME AppInv, open,
         UNCHANGED <<engine, relays, open, process, isRunning, isStarting, startTasks,
                     children>>,
         \A s : Terminated(s) \in messages' <=> Terminated(s) \in messages
  PROVE  AppInv'
<1>1. Live' = Live
  BY DEF Live
<1>2. Shapes' /\ Phases' /\ NewsAreTrue' /\ OneRelay'
  BY <1>1 DEF AppInv, Shapes, Phases, NewsAreTrue, OneRelay
<1> QED
  BY <1>1, <1>2 DEF AppInv, StartTasks, ClosedIsClosed, ByHandOnly, RunningIsOne,
    NobodyWaiting, OnlyTheProcess, ShownIsTrue

LEMMA ProbeInv ==
  ASSUME AppInv,
         Probe \/ \E r \in Relays : Answered(r) \/ ParseOutput(r)
  PROVE  AppInv'
<1>1. UNCHANGED <<engine, relays, open, process, isRunning, isStarting, startTasks, children>>
  BY DEF Probe, Answered, ParseOutput, database
<1>2. open
  BY DEF Probe, Answered, ParseOutput, AppInv, ClosedIsClosed, AppClosed
<1>3. \A s : Terminated(s) \in messages' <=> Terminated(s) \in messages
  BY MessagesDiffer DEF Probe, Answered, ParseOutput
<1> QED
  BY <1>1, <1>2, <1>3, ReadinessInv

LEMMA StartInv == AppInv /\ Start => AppInv'
<1> SUFFICES ASSUME AppInv, Start PROVE AppInv'
  OBVIOUS
<1>1. /\ UNCHANGED <<engine, relays, open, process, isRunning, children, messages>>
      /\ isStarting' = TRUE /\ open /\ ~isRunning
  BY DEF Start, MayStart, database
<1>2. startTasks' = [killing |-> 1, waiting |-> 0]
  BY DEF Start, MayStart, AppInv, StartTasks, NoTasks
<1>3. Live' = Live
  BY <1>1 DEF Live
<1>4. Shapes' /\ Phases' /\ NewsAreTrue' /\ OneRelay'
  BY <1>1, <1>3 DEF AppInv, Shapes, Phases, NewsAreTrue, OneRelay
<1> QED
  BY <1>1, <1>2, <1>3, <1>4 DEF AppInv, StartTasks, ClosedIsClosed, ByHandOnly,
    RunningIsOne, NobodyWaiting, OnlyTheProcess, ShownIsTrue

\* An app that opens knows of no relay; one that is left may leave its relay behind.
LEMMA OpenInv == AppInv /\ OpenApp => AppInv'
<1> SUFFICES ASSUME AppInv, OpenApp PROVE AppInv'
  OBVIOUS
<1>1. /\ UNCHANGED <<engine, relays, process, isRunning, isStarting, startTasks, children,
                     messages>>
      /\ engine = "sqlite" /\ open' = TRUE /\ AppClosed
  BY DEF OpenApp, AppInv, ClosedIsClosed, database
<1>2. Live' = Live
  BY <1>1 DEF Live
<1>3. Shapes' /\ Phases' /\ NewsAreTrue' /\ OneRelay'
  BY <1>1, <1>2 DEF AppInv, Shapes, Phases, NewsAreTrue, OneRelay
<1> QED
  BY <1>1, <1>2, <1>3 DEF AppClosed, AppInv, StartTasks, ClosedIsClosed, ByHandOnly,
    RunningIsOne, NobodyWaiting, OnlyTheProcess, ShownIsTrue

LEMMA LeaveInv == AppInv /\ LeaveApp => AppInv'
<1> SUFFICES ASSUME AppInv, LeaveApp PROVE AppInv'
  OBVIOUS
<1>1. AppClosed' /\ engine' = engine
  BY DEF LeaveApp, AppClosed, database
<1>2. \A s \in Relays :
        \/ relays'[s] = relays[s]
        \/ s \in Live /\ relays'[s] = Terminate(s, relays[s].phase)
  BY DEF LeaveApp, AppInv, Shapes
<1>3. Live' \subseteq Live
  BY <1>2 DEF Live
<1>4. Shapes'
  BY <1>1 DEF LeaveApp, AppClosed, AppInv, Shapes
<1>5. Phases'
  BY <1>2, PhaseOfPlace DEF Terminate, AppInv, Phases
<1> QED
  BY <1>1, <1>3, <1>4, <1>5 DEF AppClosed, AppInv, StartTasks, ClosedIsClosed, ByHandOnly,
    RunningIsOne, NobodyWaiting, NewsAreTrue, OnlyTheProcess, OneRelay, ShownIsTrue, NoTasks

LEMMA NextInv == AppInv /\ [Next]_vars => AppInv'
<1> SUFFICES ASSUME AppInv, [Next]_vars PROVE AppInv'
  OBVIOUS
<1>1. ASSUME NEW r \in Relays, RelayStep(r) PROVE AppInv'
  BY <1>1, RelayStepInv
<1>2. ASSUME NEW r \in Relays, AppStep(r) PROVE AppInv'
  BY <1>2, LaunchInv, NotifiedInv, ProbeInv DEF AppStep
<1>3. CASE OpenApp \/ Start \/ KillStaleProcesses \/ Stop \/ Probe \/ LeaveApp
  BY <1>3, OpenInv, StartInv, KillInv, StopInv, ProbeInv, LeaveInv
<1>4. CASE UNCHANGED vars
  <2>1. UNCHANGED <<engine, relays, app>>
    BY <1>4 DEF vars, database
  <2>2. Live' = Live
    BY <2>1 DEF Live
  <2> QED
    BY <2>1, <2>2 DEF app, AppInv, Shapes, Phases, StartTasks, ClosedIsClosed, AppClosed,
      ByHandOnly, RunningIsOne, NobodyWaiting, NewsAreTrue, OnlyTheProcess, OneRelay,
      ShownIsTrue
<1> QED
  BY <1>1, <1>2, <1>3, <1>4 DEF Next

\* The app's view of its relays is as AppInv says in every state.
THEOREM AppInvariant == Spec => []AppInv
<1> QED
  BY InitInv, NextInv, PTL DEF Spec

\* However often relays are started, stopped, killed and left behind by the app, at most
\* one of them is at work on the database.
THEOREM AtMostOneRelay == Spec => []OneRelay
<1>1. AppInv => OneRelay
  BY DEF AppInv
<1> QED
  BY <1>1, AppInvariant, PTL

\* A relay that the app shows as running lives, or the news of its end are on their way;
\* one that it shows as stopped has been told to terminate.
THEOREM ShownAsItIs == Spec => []ShownIsTrue
<1>1. AppInv => ShownIsTrue
  BY DEF AppInv
<1> QED
  BY <1>1, AppInvariant, PTL

----------------------------------------------------------------------------
(* The scripts: what their commits are made of *)

\* DoneLate at version n.
LateAt(v, n) ==
  IF engine = "sqlite"
  THEN CASE v = 0  -> SchemaOf(18)
         [] v = 2  -> IF n < 6 THEN {"tags_built"} ELSE {}
         [] v = 14 -> {"hidden_removed"}
         [] OTHER  -> {}
  ELSE IF v = 1 THEN {"tags_built"} ELSE {}

\* A script stamps nothing but the version it leads to, makes nothing but what the
\* schema knows, drops only the old references, and makes what it makes late.
WellMade(v) ==
  /\ DOMAIN Scripts[v] = 1 .. Len(Scripts[v]) /\ Len(Scripts[v]) \in Nat \ {0}
  /\ \A i \in DOMAIN Scripts[v] :
       /\ Scripts[v][i].stamp \in {0, Reached(v)}
       /\ Scripts[v][i].make \subseteq DOMAIN Since
       /\ Scripts[v][i].drop \subseteq References
       /\ Scripts[v][i].drop # {} => engine = "sqlite" /\ v = 4
  /\ \A n \in Int : \A o \in LateAt(v, n) : \E i \in DOMAIN Scripts[v] : o \in Scripts[v][i].make

\* Place p is the only one that writes the version, and what the new version has is
\* made by then or done late.
StampedAt(v, p) ==
  /\ p \in DOMAIN Scripts[v] /\ Scripts[v][p].stamp = Reached(v)
  /\ \A j \in DOMAIN Scripts[v] : j # p => Scripts[v][j].stamp = 0
  /\ \A o \in SchemaOf(Reached(v)) \ SchemaOf(v) :
       \/ \E j \in 1 .. p : o \in Scripts[v][j].make
       \/ p < Len(Scripts[v]) /\ o \in LateAt(v, Reached(v))

LEMMA CommitFields ==
  /\ \A S : Make(S).stamp = 0 /\ Make(S).make = S /\ Make(S).drop = {}
  /\ \A c : AddColumn(c).stamp = 0 /\ AddColumn(c).make = {c} /\ AddColumn(c).drop = {}
  /\ \A S : Drop(S).stamp = 0 /\ Drop(S).make = {} /\ Drop(S).drop = S
  /\ \A n : Stamp(n).stamp = n /\ Stamp(n).make = {} /\ Stamp(n).drop = {}
  /\ \A S, n : /\ Transaction(S, n).stamp = n /\ Transaction(S, n).make = S
               /\ Transaction(S, n).drop = {}
BY DEF Make, AddColumn, Drop, Stamp, Transaction

\* The scripts of sqlite_migration.rs, one by one.
LEMMA SqliteScripts ==
  ASSUME engine = "sqlite", NEW v \in 0 .. 17
  PROVE  WellMade(v) /\ \E p : StampedAt(v, p)
<1>1. CASE v = 0
  <2>1. Scripts[0] = mig_init
    BY DEF Scripts, upgrade_db
  <2>2. WellMade(0)
    BY <2>1, CommitFields DEF WellMade, mig_init, Reached, Since, SqliteSince, References, SchemaOf, LateAt
  <2>3. StampedAt(0, 1)
    BY <2>1, CommitFields DEF StampedAt, mig_init, Reached, Since, SqliteSince, SchemaOf, LateAt
  <2>4. QED
    BY <1>1, <2>2, <2>3
<1>2. CASE v = 1
  <2>1. Scripts[1] = mig_1_to_2
    BY DEF Scripts, upgrade_db
  <2>2. WellMade(1)
    BY <2>1, CommitFields DEF WellMade, mig_1_to_2, Reached, Since, SqliteSince, References, SchemaOf, LateAt
  <2>3. StampedAt(1, 3)
    BY <2>1, CommitFields DEF StampedAt, mig_1_to_2, Reached, Since, SqliteSince, SchemaOf, LateAt
  <2>4. QED
    BY <1>2, <2>2, <2>3
<1>3. CASE v = 2
  <2>1. Scripts[2] = mig_2_to_3
    BY DEF Scripts, upgrade_db
  <2>2. WellMade(2)
    BY <2>1, CommitFields DEF WellMade, mig_2_to_3, Reached, Since, SqliteSince, References, SchemaOf, LateAt
  <2>3. StampedAt(2, 2)
    BY <2>1, CommitFields DEF StampedAt, mig_2_to_3, Reached, Since, SqliteSince, SchemaOf, LateAt
  <2>4. QED
    BY <1>3, <2>2, <2>3
<1>4. CASE v = 3
  <2>1. Scripts[3] = mig_3_to_4
    BY DEF Scripts, upgrade_db
  <2>2. WellMade(3)
    BY <2>1, CommitFields DEF WellMade, mig_3_to_4, Reached, Since, SqliteSince, References, SchemaOf, LateAt
  <2>3. StampedAt(3, 2)
    BY <2>1, CommitFields DEF StampedAt, mig_3_to_4, Reached, Since, SqliteSince, SchemaOf, LateAt
  <2>4. QED
    BY <1>4, <2>2, <2>3
<1>5. CASE v = 4
  <2>1. Scripts[4] = mig_4_to_5
    BY DEF Scripts, upgrade_db
  <2>2. WellMade(4)
    BY <2>1, CommitFields DEF WellMade, mig_4_to_5, Reached, Since, SqliteSince, References, SchemaOf, LateAt
  <2>3. StampedAt(4, 3)
    BY <2>1, CommitFields DEF StampedAt, mig_4_to_5, Reached, Since, SqliteSince, SchemaOf, LateAt
  <2>4. QED
    BY <1>5, <2>2, <2>3
<1>6. CASE v = 5
  <2>1. Scripts[5] = mig_5_to_6
    BY DEF Scripts, upgrade_db
  <2>2. WellMade(5)
    BY <2>1, CommitFields DEF WellMade, mig_5_to_6, Reached, Since, SqliteSince, References, SchemaOf, LateAt
  <2>3. StampedAt(5, 1)
    BY <2>1, CommitFields DEF StampedAt, mig_5_to_6, Reached, Since, SqliteSince, SchemaOf, LateAt
  <2>4. QED
    BY <1>6, <2>2, <2>3
<1>7. CASE v = 6
  <2>1. Scripts[6] = mig_6_to_7
    BY DEF Scripts, upgrade_db
  <2>2. WellMade(6)
    BY <2>1, CommitFields DEF WellMade, mig_6_to_7, Reached, Since, SqliteSince, References, SchemaOf, LateAt
  <2>3. StampedAt(6, 2)
    BY <2>1, CommitFields DEF StampedAt, mig_6_to_7, Reached, Since, SqliteSince, SchemaOf, LateAt
  <2>4. QED
    BY <1>7, <2>2, <2>3
<1>8. CASE v = 7
  <2>1. Scripts[7] = mig_7_to_8
    BY DEF Scripts, upgrade_db
  <2>2. WellMade(7)
    BY <2>1, CommitFields DEF WellMade, mig_7_to_8, Reached, Since, SqliteSince, References, SchemaOf, LateAt
  <2>3. StampedAt(7, 1)
    BY <2>1, CommitFields DEF StampedAt, mig_7_to_8, Reached, Since, SqliteSince, SchemaOf, LateAt
  <2>4. QED
    BY <1>8, <2>2, <2>3
<1>9. CASE v = 8
  <2>1. Scripts[8] = mig_8_to_9
    BY DEF Scripts, upgrade_db
  <2>2. WellMade(8)
    BY <2>1, CommitFields DEF WellMade, mig_8_to_9, Reached, Since, SqliteSince, References, SchemaOf, LateAt
  <2>3. StampedAt(8, 1)
    BY <2>1, CommitFields DEF StampedAt, mig_8_to_9, Reached, Since, SqliteSince, SchemaOf, LateAt
  <2>4. QED
    BY <1>9, <2>2, <2>3
<1>10. CASE v = 9
  <2>1. Scripts[9] = mig_9_to_10
    BY DEF Scripts, upgrade_db
  <2>2. WellMade(9)
    BY <2>1, CommitFields DEF WellMade, mig_9_to_10, Reached, Since, SqliteSince, References, SchemaOf, LateAt
  <2>3. StampedAt(9, 1)
    BY <2>1, CommitFields DEF StampedAt, mig_9_to_10, Reached, Since, SqliteSince, SchemaOf, LateAt
  <2>4. QED
    BY <1>10, <2>2, <2>3
<1>11. CASE v = 10
  <2>1. Scripts[10] = mig_10_to_11
    BY DEF Scripts, upgrade_db
  <2>2. WellMade(10)
    BY <2>1, CommitFields DEF WellMade, mig_10_to_11, Reached, Since, SqliteSince, References, SchemaOf, LateAt
  <2>3. StampedAt(10, 1)
    BY <2>1, CommitFields DEF StampedAt, mig_10_to_11, Reached, Since, SqliteSince, SchemaOf, LateAt
  <2>4. QED
    BY <1>11, <2>2, <2>3
<1>12. CASE v = 11
  <2>1. Scripts[11] = mig_11_to_12
    BY DEF Scripts, upgrade_db
  <2>2. WellMade(11)
    BY <2>1, CommitFields DEF WellMade, mig_11_to_12, Reached, Since, SqliteSince, References, SchemaOf, LateAt
  <2>3. StampedAt(11, 1)
    BY <2>1, CommitFields DEF StampedAt, mig_11_to_12, Reached, Since, SqliteSince, SchemaOf, LateAt
  <2>4. QED
    BY <1>12, <2>2, <2>3
<1>13. CASE v = 12
  <2>1. Scripts[12] = mig_12_to_13
    BY DEF Scripts, upgrade_db
  <2>2. WellMade(12)
    BY <2>1, CommitFields DEF WellMade, mig_12_to_13, Reached, Since, SqliteSince, References, SchemaOf, LateAt
  <2>3. StampedAt(12, 1)
    BY <2>1, CommitFields DEF StampedAt, mig_12_to_13, Reached, Since, SqliteSince, SchemaOf, LateAt
  <2>4. QED
    BY <1>13, <2>2, <2>3
<1>14. CASE v = 13
  <2>1. Scripts[13] = mig_13_to_14
    BY DEF Scripts, upgrade_db
  <2>2. WellMade(13)
    BY <2>1, CommitFields DEF WellMade, mig_13_to_14, Reached, Since, SqliteSince, References, SchemaOf, LateAt
  <2>3. StampedAt(13, 1)
    BY <2>1, CommitFields DEF StampedAt, mig_13_to_14, Reached, Since, SqliteSince, SchemaOf, LateAt
  <2>4. QED
    BY <1>14, <2>2, <2>3
<1>15. CASE v = 14
  <2>1. Scripts[14] = mig_14_to_15
    BY DEF Scripts, upgrade_db
  <2>2. WellMade(14)
    BY <2>1, CommitFields DEF WellMade, mig_14_to_15, Reached, Since, SqliteSince, References, SchemaOf, LateAt
  <2>3. StampedAt(14, 1)
    BY <2>1, CommitFields DEF StampedAt, mig_14_to_15, Reached, Since, SqliteSince, SchemaOf, LateAt
  <2>4. QED
    BY <1>15, <2>2, <2>3
<1>16. CASE v = 15
  <2>1. Scripts[15] = mig_15_to_16
    BY DEF Scripts, upgrade_db
  <2>2. WellMade(15)
    BY <2>1, CommitFields DEF WellMade, mig_15_to_16, Reached, Since, SqliteSince, References, SchemaOf, LateAt
  <2>3. StampedAt(15, 1)
    BY <2>1, CommitFields DEF StampedAt, mig_15_to_16, Reached, Since, SqliteSince, SchemaOf, LateAt
  <2>4. QED
    BY <1>16, <2>2, <2>3
<1>17. CASE v = 16
  <2>1. Scripts[16] = mig_16_to_17
    BY DEF Scripts, upgrade_db
  <2>2. WellMade(16)
    BY <2>1, CommitFields DEF WellMade, mig_16_to_17, Reached, Since, SqliteSince, References, SchemaOf, LateAt
  <2>3. StampedAt(16, 2)
    BY <2>1, CommitFields DEF StampedAt, mig_16_to_17, Reached, Since, SqliteSince, SchemaOf, LateAt
  <2>4. QED
    BY <1>17, <2>2, <2>3
<1>18. CASE v = 17
  <2>1. Scripts[17] = mig_17_to_18
    BY DEF Scripts, upgrade_db
  <2>2. WellMade(17)
    BY <2>1, CommitFields DEF WellMade, mig_17_to_18, Reached, Since, SqliteSince, References, SchemaOf, LateAt
  <2>3. StampedAt(17, 3)
    BY <2>1, CommitFields DEF StampedAt, mig_17_to_18, Reached, Since, SqliteSince, SchemaOf, LateAt
  <2>4. QED
    BY <1>18, <2>2, <2>3
<1>19. QED
  BY <1>1, <1>2, <1>3, <1>4, <1>5, <1>6, <1>7, <1>8, <1>9,
     <1>10, <1>11, <1>12, <1>13, <1>14, <1>15, <1>16, <1>17, <1>18

\* The migrations of postgres_migration.rs.
LEMMA PostgresScripts ==
  ASSUME engine = "postgres", NEW v \in 0 .. 4
  PROVE  WellMade(v) /\ \E p : StampedAt(v, p)
<1>1. CASE v = 0
  <2>1. Scripts[0] = m001
    BY DEF Scripts, run_migrations
  <2>2. WellMade(0)
    BY <2>1, CommitFields DEF WellMade, m001, Reached, Since, PostgresSince, References, SchemaOf, LateAt
  <2>3. StampedAt(0, 1)
    BY <2>1, CommitFields DEF StampedAt, m001, Reached, Since, PostgresSince, SchemaOf, LateAt
  <2>4. QED
    BY <1>1, <2>2, <2>3
<1>2. CASE v = 1
  <2>1. Scripts[1] = m002
    BY DEF Scripts, run_migrations
  <2>2. WellMade(1)
    BY <2>1, CommitFields DEF WellMade, m002, Reached, Since, PostgresSince, References, SchemaOf, LateAt
  <2>3. StampedAt(1, 1)
    BY <2>1, CommitFields DEF StampedAt, m002, Reached, Since, PostgresSince, SchemaOf, LateAt
  <2>4. QED
    BY <1>2, <2>2, <2>3
<1>3. CASE v = 2
  <2>1. Scripts[2] = m003
    BY DEF Scripts, run_migrations
  <2>2. WellMade(2)
    BY <2>1, CommitFields DEF WellMade, m003, Reached, Since, PostgresSince, References, SchemaOf, LateAt
  <2>3. StampedAt(2, 1)
    BY <2>1, CommitFields DEF StampedAt, m003, Reached, Since, PostgresSince, SchemaOf, LateAt
  <2>4. QED
    BY <1>3, <2>2, <2>3
<1>4. CASE v = 3
  <2>1. Scripts[3] = m004
    BY DEF Scripts, run_migrations
  <2>2. WellMade(3)
    BY <2>1, CommitFields DEF WellMade, m004, Reached, Since, PostgresSince, References, SchemaOf, LateAt
  <2>3. StampedAt(3, 1)
    BY <2>1, CommitFields DEF StampedAt, m004, Reached, Since, PostgresSince, SchemaOf, LateAt
  <2>4. QED
    BY <1>4, <2>2, <2>3
<1>5. CASE v = 4
  <2>1. Scripts[4] = m005
    BY DEF Scripts, run_migrations
  <2>2. WellMade(4)
    BY <2>1, CommitFields DEF WellMade, m005, Reached, Since, PostgresSince, References, SchemaOf, LateAt
  <2>3. StampedAt(4, 1)
    BY <2>1, CommitFields DEF StampedAt, m005, Reached, Since, PostgresSince, SchemaOf, LateAt
  <2>4. QED
    BY <1>5, <2>2, <2>3
<1>6. QED
  BY <1>1, <1>2, <1>3, <1>4, <1>5

\* All scripts, and the two that the later ones rest on: version 5 is written when the
\* references are gone, version 6 together with the tags.
LEMMA ScriptsAreSound ==
  ASSUME engine \in {"sqlite", "postgres"}, NEW v \in DOMAIN Scripts
  PROVE  /\ v \in Nat /\ v < DB_VERSION /\ Reached(v) \in Nat /\ v < Reached(v)
         /\ Reached(v) \in DOMAIN Scripts \/ Reached(v) = DB_VERSION
         /\ WellMade(v) /\ \E p : StampedAt(v, p)
         /\ engine = "sqlite" /\ v = 4 =>
              Scripts[v][3].stamp = 5 /\ References = Scripts[v][1].drop \cup Scripts[v][2].drop
         /\ engine = "sqlite" /\ v = 5 =>
              Scripts[v][1].stamp = 6 /\ "tags_built" \in Scripts[v][1].make
<1>1. CASE engine = "sqlite"
  <2>1. v \in 0 .. 17 /\ DOMAIN Scripts = 0 .. 17
    BY <1>1 DEF Scripts, upgrade_db
  <2>2. Scripts[4] = mig_4_to_5 /\ Scripts[5] = mig_5_to_6
    BY <1>1 DEF Scripts, upgrade_db
  <2>3. /\ v \in Nat /\ v < DB_VERSION /\ Reached(v) \in Nat /\ v < Reached(v)
        /\ Reached(v) \in DOMAIN Scripts \/ Reached(v) = DB_VERSION
    BY <1>1, <2>1 DEF DB_VERSION, Reached
  <2>4. mig_4_to_5[3].stamp = 5 /\ References = mig_4_to_5[1].drop \cup mig_4_to_5[2].drop
    BY CommitFields DEF mig_4_to_5, References
  <2>5. mig_5_to_6[1].stamp = 6 /\ "tags_built" \in mig_5_to_6[1].make
    BY CommitFields DEF mig_5_to_6
  <2>6. QED
    BY <1>1, <2>1, <2>2, <2>3, <2>4, <2>5, SqliteScripts
<1>2. CASE engine = "postgres"
  <2>1. v \in 0 .. 4 /\ DOMAIN Scripts = 0 .. 4
    BY <1>2 DEF Scripts, run_migrations
  <2>2. /\ v \in Nat /\ v < DB_VERSION /\ Reached(v) \in Nat /\ v < Reached(v)
        /\ Reached(v) \in DOMAIN Scripts \/ Reached(v) = DB_VERSION
    BY <1>2, <2>1 DEF DB_VERSION, Reached
  <2>3. QED
    BY <1>2, <2>1, <2>2, PostgresScripts
<1>3. QED
  BY <1>1, <1>2

----------------------------------------------------------------------------
(* The database under the commits of a script *)

Stamped(v, i) == \E j \in 1 .. (i - 1) : Scripts[v][j].stamp # 0

\* What the commits before place i of the script from v have done is there.
InPlace(v, i) ==
  /\ v \in DOMAIN Scripts /\ i \in DOMAIN Scripts[v]
  /\ version = IF Stamped(v, i) THEN Reached(v) ELSE v
  /\ Stamped(v, i) => v \in unfinished
  /\ \A j \in 1 .. (i - 1) :
       Scripts[v][j].make \subseteq has /\ Scripts[v][j].drop \cap has = {}

\* The places of a relay that upgrades; past the last script there is nothing to do.
AtWork(v, i) == InPlace(v, i) \/ (v \in {DB_VERSION, DB_VERSION + 1} /\ i = 1)

PlaceInv ==
  \A r \in Relays :
    \/ relays[r] \in Places
    \/ /\ relays[r] = At(relays[r].from, relays[r].step)
       /\ AtWork(relays[r].from, relays[r].step)

DatabaseShape ==
  /\ engine \in {"sqlite", "postgres"}
  /\ version \in 0 .. DB_VERSION + 1
  /\ has \subseteq DOMAIN Since \cup References
  /\ unfinished \subseteq DOMAIN Scripts

\* A script is unfinished only when the version has gone past its own.
UnfinishedIsPast == \A v \in unfinished : v < version

NoOldReferences == engine = "postgres" \/ version = 0 => References \cap has = {}

DatabaseInv == DatabaseShape /\ UnfinishedIsPast /\ NoOldReferences /\ VersionTellsTruth

\* The versions in terms of the scripts.
LEMMA Versions ==
  ASSUME engine \in {"sqlite", "postgres"}
  PROVE  DB_VERSION \in Nat /\ DOMAIN Scripts = 0 .. (DB_VERSION - 1)
<1>1. engine = "sqlite" => DOMAIN Scripts = 0 .. 17 /\ DB_VERSION = 18
  BY DEF Scripts, upgrade_db, DB_VERSION
<1>2. engine = "postgres" => DOMAIN Scripts = 0 .. 4 /\ DB_VERSION = 5
  BY DEF Scripts, run_migrations, DB_VERSION
<1>3. 0 .. 17 = 0 .. (18 - 1) /\ 0 .. 4 = 0 .. (5 - 1)
  OBVIOUS
<1>4. CASE engine = "sqlite"
  BY <1>1, <1>3, <1>4
<1>5. CASE engine = "postgres"
  BY <1>2, <1>3, <1>5
<1>6. QED
  BY <1>4, <1>5

LEMMA NoReferenceInSchema ==
  ASSUME engine \in {"sqlite", "postgres"}
  PROVE  DOMAIN Since \cap References = {}
<1>1. DOMAIN SqliteSince \cap References = {}
  BY DEF SqliteSince, References
<1>2. DOMAIN PostgresSince \cap References = {}
  BY DEF PostgresSince, References
<1>3. QED
  BY <1>1, <1>2 DEF Since

\* The engine never changes, and with it nothing that depends on it alone.
LEMMA SameEngine ==
  ASSUME engine' = engine
  PROVE  /\ Scripts' = Scripts /\ DB_VERSION' = DB_VERSION /\ Since' = Since
         /\ \A v : Reached(v)' = Reached(v) /\ SchemaOf(v)' = SchemaOf(v)
         /\ \A v, n : LateAt(v, n)' = LateAt(v, n)
<1>1. Scripts' = Scripts /\ DB_VERSION' = DB_VERSION /\ Since' = Since
  BY DEF Scripts, DB_VERSION, Since
<1>2. \A v : Reached(v)' = Reached(v)
  BY DEF Reached
<1>3. \A v : SchemaOf(v)' = SchemaOf(v)
  BY <1>1 DEF SchemaOf
<1>4. \A v, n : LateAt(v, n)' = LateAt(v, n)
  BY <1>3 DEF LateAt
<1>5. QED
  BY <1>1, <1>2, <1>3, <1>4

\* DoneLate depends on the engine and the version alone.
LEMMA LateIsDoneLate ==
  ASSUME engine \in {"sqlite", "postgres"}, NEW v \in DOMAIN Scripts
  PROVE  /\ DoneLate(v) = LateAt(v, version)
         /\ engine' = engine => DoneLate(v)' = LateAt(v, version')
<1>1. CASE engine = "sqlite"
  <2>1. v \in 0 .. 17
    BY <1>1 DEF Scripts, upgrade_db
  <2>2. DoneLate(v) = LateAt(v, version)
    BY <1>1, <2>1 DEF DoneLate, LateAt
  <2>3. ASSUME engine' = engine PROVE DoneLate(v)' = LateAt(v, version')
    <3>1. SchemaOf(18)' = SchemaOf(18)
      BY <2>3, SameEngine
    <3>2. QED
      BY <1>1, <2>1, <2>3, <3>1 DEF DoneLate, LateAt
  <2>4. QED
    BY <2>2, <2>3
<1>2. CASE engine = "postgres"
  BY <1>2 DEF DoneLate, LateAt
<1>3. QED
  BY <1>1, <1>2

\* A relay that reads the version is at the beginning of the script for it.
LEMMA BeginsInPlace ==
  ASSUME DatabaseShape, version < DB_VERSION PROVE InPlace(version, 1)
<1>1. version \in DOMAIN Scripts /\ engine \in {"sqlite", "postgres"}
  BY Versions DEF DatabaseShape
<1>2. WellMade(version)
  BY <1>1, ScriptsAreSound
<1>3. 1 \in DOMAIN Scripts[version]
  BY <1>2 DEF WellMade
<1>4. 1 .. (1 - 1) = {}
  OBVIOUS
<1>5. QED
  BY <1>1, <1>3, <1>4 DEF InPlace, Stamped

\* Whether the version has been written is a question of the place.
LEMMA StampedIsPast ==
  ASSUME engine \in {"sqlite", "postgres"}, NEW v \in DOMAIN Scripts, NEW p, StampedAt(v, p),
         NEW i \in Nat, i <= Len(Scripts[v]) + 1
  PROVE  Stamped(v, i) <=> p < i
<1>1. Reached(v) # 0 /\ p \in DOMAIN Scripts[v]
      /\ DOMAIN Scripts[v] = 1 .. Len(Scripts[v]) /\ Len(Scripts[v]) \in Nat
  BY ScriptsAreSound DEF StampedAt, WellMade
<1>2. ASSUME NEW j \in 1 .. (i - 1), Scripts[v][j].stamp # 0 PROVE j = p
  BY <1>1, <1>2 DEF StampedAt
<1>3. p < i => p \in 1 .. (i - 1)
  BY <1>1
<1>4. Scripts[v][p].stamp # 0
  BY <1>1 DEF StampedAt
<1>5. QED
  BY <1>1, <1>2, <1>3, <1>4 DEF Stamped

\* A commit that leaves the version alone makes the schema no poorer.
LEMMA PlainCommit ==
  ASSUME DatabaseInv, NEW v, NEW i, InPlace(v, i), Execute(v, i), Scripts[v][i].stamp = 0
  PROVE  DatabaseInv'
<1> DEFINE commit == Scripts[v][i]
<1>1. /\ has' = (has \cup commit.make) \ commit.drop /\ engine' = engine /\ version' = version
      /\ unfinished' = IF i = Len(Scripts[v]) THEN unfinished \ {v} ELSE unfinished
  BY DEF Execute
<1>2. /\ engine \in {"sqlite", "postgres"} /\ v \in DOMAIN Scripts /\ i \in DOMAIN Scripts[v]
      /\ WellMade(v) /\ version \in 0 .. DB_VERSION + 1
      /\ version = v \/ version = Reached(v)
  BY ScriptsAreSound DEF DatabaseInv, DatabaseShape, InPlace
<1>3. /\ commit.make \subseteq DOMAIN Since /\ commit.drop \subseteq References
      /\ commit.drop # {} => engine = "sqlite" /\ v = 4
      /\ DOMAIN Since \cap References = {}
  BY <1>2, NoReferenceInSchema DEF WellMade
<1>4. \A j \in DOMAIN Scripts[v] : j <= i => Scripts[v][j].make \subseteq has'
  <2>1. \A j \in DOMAIN Scripts[v] : j < i => j \in 1 .. (i - 1)
    BY <1>2 DEF WellMade
  <2>2. \A j \in DOMAIN Scripts[v] : j < i => Scripts[v][j].make \subseteq has /\ Scripts[v][j].make \subseteq DOMAIN Since
    BY <1>2, <2>1 DEF InPlace, WellMade
  <2>3. \A j \in DOMAIN Scripts[v] : j <= i => j = i \/ j < i
    BY <1>2 DEF WellMade
  <2>4. QED
    BY <1>1, <1>3, <2>2, <2>3
<1> HIDE DEF commit
<1>5. DatabaseShape' /\ UnfinishedIsPast'
  BY <1>1, <1>2, <1>3, SameEngine DEF DatabaseInv, DatabaseShape, UnfinishedIsPast
<1>6. NoOldReferences'
  BY <1>1, <1>3 DEF DatabaseInv, NoOldReferences
<1>7. ASSUME NEW o \in SchemaOf(version) \ has'
      PROVE  \E u \in unfinished' : o \in LateAt(u, version)
  <2>1. o \in DOMAIN Since /\ o \notin has
    BY <1>1, <1>3, <1>7 DEF SchemaOf
  <2>2. PICK u \in unfinished : o \in DoneLate(u)
    BY <1>7, <2>1 DEF DatabaseInv, VersionTellsTruth
  <2>3. u \in DOMAIN Scripts /\ o \in LateAt(u, version)
    BY <1>2, <2>2, LateIsDoneLate DEF DatabaseInv, DatabaseShape
  <2>4. u \in unfinished'
    <3>1. SUFFICES ASSUME u = v, i = Len(Scripts[v]) PROVE FALSE
      BY <1>1, <2>2
    <3>2. PICK j \in DOMAIN Scripts[v] : o \in Scripts[v][j].make
      BY <1>2, <2>3, <3>1 DEF WellMade
    <3>3. j <= i
      BY <1>2, <3>1, <3>2 DEF WellMade
    <3>4. QED
      BY <1>4, <1>7, <3>2, <3>3
  <2>5. QED
    BY <2>3, <2>4
<1>8. SchemaOf(version)' \ has' \subseteq UNION {DoneLate(u)' : u \in unfinished'}
  <2>1. \A u \in unfinished' : DoneLate(u)' = LateAt(u, version)
    <3> TAKE u \in unfinished'
    <3>1. u \in DOMAIN Scripts
      BY <1>1 DEF DatabaseInv, DatabaseShape
    <3>2. QED
      BY <1>1, <1>2, <3>1, LateIsDoneLate
  <2>2. QED
    BY <1>1, <1>7, <2>1, SameEngine
<1>9. engine' = "sqlite" /\ version' \in 1 .. 3 => References \subseteq has'
  <2>1. SUFFICES ASSUME engine = "sqlite", version \in 1 .. 3 PROVE References \subseteq has'
    BY <1>1
  <2>2. v # 4
    BY <1>2, <2>1 DEF Reached
  <2>3. QED
    BY <1>1, <1>3, <2>1, <2>2 DEF DatabaseInv, VersionTellsTruth
<1>10. version' >= 5 => References \cap has' = {}
  BY <1>1, <1>3 DEF DatabaseInv, VersionTellsTruth
<1>11. QED
  BY <1>5, <1>6, <1>8, <1>9, <1>10 DEF DatabaseInv, VersionTellsTruth

\* A commit that writes the version: what the new one has is there, but for what its
\* script or an earlier one does late.
LEMMA StampCommit ==
  ASSUME DatabaseInv, NEW v, NEW i, InPlace(v, i), Execute(v, i), Scripts[v][i].stamp # 0
  PROVE  DatabaseInv' /\ version' = Reached(v)
<1> DEFINE commit == Scripts[v][i]
<1>1. /\ has' = (has \cup commit.make) \ commit.drop /\ engine' = engine
      /\ version' = commit.stamp
      /\ unfinished' = IF i = Len(Scripts[v]) THEN unfinished \ {v} ELSE unfinished \cup {v}
  BY DEF Execute
<1>2. /\ engine \in {"sqlite", "postgres"} /\ v \in DOMAIN Scripts /\ i \in DOMAIN Scripts[v]
      /\ WellMade(v) /\ v \in Nat /\ v < DB_VERSION /\ Reached(v) \in Nat /\ v < Reached(v)
      /\ Reached(v) \in DOMAIN Scripts \/ Reached(v) = DB_VERSION
      /\ DB_VERSION \in Nat /\ DOMAIN Scripts = 0 .. (DB_VERSION - 1)
  BY ScriptsAreSound, Versions DEF DatabaseInv, DatabaseShape, InPlace
<1>3. /\ commit.make \subseteq DOMAIN Since /\ commit.drop \subseteq References
      /\ commit.drop # {} => engine = "sqlite" /\ v = 4
      /\ DOMAIN Since \cap References = {}
  BY <1>2, NoReferenceInSchema DEF WellMade
<1>4. PICK p : StampedAt(v, p)
  BY <1>2, ScriptsAreSound
<1>5. p = i /\ commit.stamp = Reached(v) /\ i \in 1 .. Len(Scripts[v]) /\ Len(Scripts[v]) \in Nat
  BY <1>2, <1>4 DEF StampedAt, WellMade
<1>6. version = v /\ version' = Reached(v)
  <2>1. i \in Nat /\ i <= Len(Scripts[v]) + 1 /\ ~(p < i)
    BY <1>5
  <2>2. ~Stamped(v, i)
    BY <1>2, <1>4, <2>1, StampedIsPast
  <2>3. QED
    BY <1>1, <1>5, <2>2 DEF InPlace
<1>7. \A j \in 1 .. i : Scripts[v][j].make \subseteq has'
  <2>1. \A j \in 1 .. i : j = i \/ (j \in 1 .. (i - 1) /\ j \in DOMAIN Scripts[v])
    BY <1>2, <1>5 DEF WellMade
  <2>2. \A j \in DOMAIN Scripts[v] : j \in 1 .. (i - 1) =>
          Scripts[v][j].make \subseteq has /\ Scripts[v][j].make \subseteq DOMAIN Since
    BY <1>2 DEF InPlace, WellMade
  <2>3. QED
    BY <1>1, <1>3, <2>1, <2>2
<1>8. v \notin unfinished /\ \A u \in unfinished : u < v /\ u \in unfinished'
  BY <1>1, <1>2, <1>6 DEF DatabaseInv, DatabaseShape, UnfinishedIsPast
<1> HIDE DEF commit
<1>9. DatabaseShape'
  <2>1. version' \in 0 .. DB_VERSION + 1
    BY <1>2, <1>6
  <2>2. has' \subseteq DOMAIN Since \cup References /\ unfinished' \subseteq DOMAIN Scripts
    BY <1>1, <1>2, <1>3 DEF DatabaseInv, DatabaseShape
  <2>3. QED
    BY <1>1, <1>2, <2>1, <2>2, SameEngine DEF DatabaseShape
<1>10. UnfinishedIsPast'
  <2>1. \A u \in unfinished' : u = v \/ (u \in unfinished /\ u \in Nat)
    BY <1>1, <1>2 DEF DatabaseInv, DatabaseShape
  <2>2. QED
    BY <1>2, <1>6, <1>8, <2>1 DEF UnfinishedIsPast
<1>11. NoOldReferences'
  BY <1>1, <1>2, <1>3, <1>6 DEF DatabaseInv, NoOldReferences
<1>12. ASSUME NEW o \in SchemaOf(Reached(v)) \ has'
       PROVE  \E u \in unfinished' : o \in LateAt(u, Reached(v))
  <2>1. o \in DOMAIN Since /\ o \notin has
    BY <1>1, <1>3, <1>12 DEF SchemaOf
  <2>2. CASE o \in SchemaOf(v)
    <3>1. PICK u \in unfinished : o \in DoneLate(u)
      BY <1>6, <2>1, <2>2 DEF DatabaseInv, VersionTellsTruth
    <3>2. u \in DOMAIN Scripts /\ u \in Nat /\ u < v /\ u \in unfinished' /\ o \in LateAt(u, v)
      BY <1>2, <1>6, <1>8, <3>1, LateIsDoneLate DEF DatabaseInv, DatabaseShape
    <3>3. CASE engine = "sqlite" /\ u = 2
      <4>1. o = "tags_built" /\ v < 6
        BY <3>2, <3>3 DEF LateAt
      <4>2. v # 5
        <5>1. SUFFICES ASSUME v = 5 PROVE FALSE
          OBVIOUS
        <5>2. Scripts[v][1].stamp = 6 /\ "tags_built" \in Scripts[v][1].make
          BY <1>2, <3>3, <5>1, ScriptsAreSound
        <5>3. 1 \in 1 .. i
          BY <1>5
        <5>4. QED
          BY <1>7, <1>12, <4>1, <5>2, <5>3
      <4>3. Reached(v) < 6
        BY <1>2, <3>2, <3>3, <4>1, <4>2 DEF Reached
      <4>4. QED
        BY <3>2, <3>3, <4>1, <4>3 DEF LateAt
    <3>4. CASE ~(engine = "sqlite" /\ u = 2)
      BY <3>2, <3>4 DEF LateAt
    <3>5. QED
      BY <3>3, <3>4
  <2>3. CASE o \notin SchemaOf(v)
    <3>1. ~\E j \in 1 .. p : o \in Scripts[v][j].make
      BY <1>5, <1>7, <1>12
    <3>2. p < Len(Scripts[v]) /\ o \in LateAt(v, Reached(v))
      BY <1>4, <1>12, <2>3, <3>1 DEF StampedAt
    <3>3. v \in unfinished'
      BY <1>1, <1>5, <3>2
    <3>4. QED
      BY <3>2, <3>3
  <2>4. QED
    BY <2>2, <2>3
<1>13. SchemaOf(version)' \ has' \subseteq UNION {DoneLate(u)' : u \in unfinished'}
  <2>1. \A u \in unfinished' : DoneLate(u)' = LateAt(u, Reached(v))
    <3> TAKE u \in unfinished'
    <3>1. u \in DOMAIN Scripts
      BY <1>1, <1>2 DEF DatabaseInv, DatabaseShape
    <3>2. QED
      BY <1>1, <1>2, <1>6, <3>1, LateIsDoneLate
  <2>2. SchemaOf(version)' = SchemaOf(Reached(v))
    BY <1>1, <1>6, SameEngine DEF SchemaOf
  <2>3. QED
    BY <1>12, <2>1, <2>2
<1>14. engine' = "sqlite" /\ version' \in 1 .. 3 => References \subseteq has'
  <2>1. SUFFICES ASSUME engine = "sqlite", Reached(v) \in 1 .. 3 PROVE References \subseteq has'
    BY <1>1, <1>6
  <2>2. v \in 1 .. 3 /\ v # 4
    BY <1>2, <2>1 DEF Reached
  <2>3. QED
    BY <1>1, <1>3, <1>6, <2>1, <2>2 DEF DatabaseInv, VersionTellsTruth
<1>15. version' >= 5 => References \cap has' = {}
  <2>1. SUFFICES ASSUME Reached(v) >= 5 PROVE References \cap has = {}
    BY <1>1, <1>3, <1>6
  <2>2. CASE engine = "postgres" \/ v = 0
    BY <1>6, <2>2 DEF DatabaseInv, NoOldReferences
  <2>3. CASE engine = "sqlite" /\ v = 4
    <3>1. Scripts[v][3].stamp = 5 /\ References = Scripts[v][1].drop \cup Scripts[v][2].drop
      BY <1>2, <2>3, ScriptsAreSound
    <3>2. Len(Scripts[v]) >= 3 /\ i = 3
      <4>1. Scripts[4] = mig_4_to_5
        BY <2>3 DEF Scripts, upgrade_db
      <4>2. Len(mig_4_to_5) = 3
        BY DEF mig_4_to_5
      <4>3. 3 \in DOMAIN Scripts[v]
        BY <1>2, <2>3, <4>1, <4>2 DEF WellMade
      <4>4. QED
        BY <1>4, <1>5, <2>3, <3>1, <4>1, <4>2, <4>3 DEF StampedAt
    <3>3. 1 \in 1 .. (i - 1) /\ 2 \in 1 .. (i - 1)
      BY <3>2
    <3>4. QED
      BY <3>1, <3>3 DEF InPlace
  <2>4. CASE engine = "sqlite" /\ v # 0 /\ v # 4
    <3>1. v >= 5
      BY <1>2, <2>1, <2>4 DEF Reached
    <3>2. QED
      BY <1>6, <3>1 DEF DatabaseInv, VersionTellsTruth
  <2>5. QED
    BY <1>2, <2>2, <2>3, <2>4
<1>16. QED
  BY <1>6, <1>9, <1>10, <1>11, <1>13, <1>14, <1>15 DEF DatabaseInv, VersionTellsTruth

\* After a commit the relay is at the next place, or at the end of its script.
LEMMA NextInPlace ==
  ASSUME DatabaseInv, NEW v, NEW i, InPlace(v, i), Execute(v, i)
  PROVE  /\ i < Len(Scripts[v]) => InPlace(v, i + 1)'
         /\ i = Len(Scripts[v]) =>
              version' = Reached(v) /\ AtWork(Reached(v), 1)'
<1> DEFINE commit == Scripts[v][i]
<1>1. /\ has' = (has \cup commit.make) \ commit.drop /\ engine' = engine
      /\ version' = IF commit.stamp = 0 THEN version ELSE commit.stamp
      /\ unfinished' = IF i = Len(Scripts[v]) THEN unfinished \ {v}
                       ELSE IF commit.stamp # 0 THEN unfinished \cup {v} ELSE unfinished
  BY DEF Execute
<1>2. /\ engine \in {"sqlite", "postgres"} /\ v \in DOMAIN Scripts /\ i \in DOMAIN Scripts[v]
      /\ WellMade(v) /\ Reached(v) # 0 /\ Scripts' = Scripts /\ Reached(v)' = Reached(v)
  BY <1>1, ScriptsAreSound, SameEngine DEF DatabaseInv, DatabaseShape, InPlace
<1>3. PICK p : StampedAt(v, p)
  BY <1>2, ScriptsAreSound
<1>4. /\ i \in 1 .. Len(Scripts[v]) /\ p \in 1 .. Len(Scripts[v]) /\ Len(Scripts[v]) \in Nat
      /\ i \in Nat /\ i + 1 \in Nat /\ i <= Len(Scripts[v]) + 1 /\ i + 1 <= Len(Scripts[v]) + 1
  BY <1>2, <1>3 DEF StampedAt, WellMade
<1>5. (commit.stamp # 0 <=> p = i) /\ (p = i => commit.stamp = Reached(v))
  BY <1>2, <1>3 DEF StampedAt
<1>6. (Stamped(v, i) <=> p < i) /\ (Stamped(v, i + 1) <=> p < i + 1)
  BY <1>2, <1>3, <1>4, StampedIsPast
<1>7. version' = IF p < i + 1 THEN Reached(v) ELSE v
  BY <1>1, <1>4, <1>5, <1>6 DEF InPlace
<1>8. ASSUME i < Len(Scripts[v]) PROVE InPlace(v, i + 1)'
  <2>1. p < i + 1 => v \in unfinished'
    BY <1>1, <1>4, <1>5, <1>6, <1>8 DEF InPlace
  <2>2. Stamped(v, i + 1)' <=> p < i + 1
    BY <1>2, <1>6 DEF Stamped
  <2>3. i + 1 \in DOMAIN Scripts[v]
    BY <1>2, <1>4, <1>8 DEF WellMade
  <2>4. \A j \in 1 .. ((i + 1) - 1) : j = i \/ (j \in 1 .. (i - 1) /\ j \in DOMAIN Scripts[v])
    BY <1>2, <1>4 DEF WellMade
  <2>5. \A j \in DOMAIN Scripts[v] :
          Scripts[v][j].make \cap References = {} /\ Scripts[v][j].drop \subseteq References
    BY <1>2, NoReferenceInSchema DEF WellMade
  <2>6. \A j \in 1 .. ((i + 1) - 1) :
          Scripts[v][j].make \subseteq has' /\ Scripts[v][j].drop \cap has' = {}
    BY <1>1, <1>2, <2>4, <2>5 DEF InPlace
  <2>7. QED
    BY <1>2, <1>7, <2>1, <2>2, <2>3, <2>6 DEF InPlace
<1>9. ASSUME i = Len(Scripts[v]) PROVE version' = Reached(v) /\ AtWork(Reached(v), 1)'
  <2>1. version' = Reached(v)
    BY <1>4, <1>7, <1>9
  <2>2. CASE Reached(v) \in DOMAIN Scripts
    <3>1. 1 \in DOMAIN Scripts[Reached(v)]
      BY <1>2, <2>2, ScriptsAreSound DEF WellMade
    <3>2. 1 .. (1 - 1) = {}
      OBVIOUS
    <3>3. QED
      BY <1>2, <2>1, <2>2, <3>1, <3>2 DEF AtWork, InPlace, Stamped
  <2>3. CASE Reached(v) = DB_VERSION
    BY <1>1, <2>1, <2>3, SameEngine DEF AtWork
  <2>4. QED
    BY <1>2, <2>1, <2>2, <2>3, ScriptsAreSound
<1>10. QED
  BY <1>4, <1>8, <1>9

----------------------------------------------------------------------------
(* The system: the invariant about the app and the one about the database *)

AppTypes ==
  /\ process \in Relays \cup {None}
  /\ messages \subseteq Messages
  /\ {open, isRunning, isServerReady, probing, verbose} \subseteq BOOLEAN

SystemInv == AppInv /\ DatabaseInv /\ PlaceInv /\ AppTypes

LEMMA SystemIsTyped == SystemInv => TypeOK
<1> SUFFICES ASSUME SystemInv PROVE TypeOK
  OBVIOUS
<1>1. ASSUME NEW r \in Relays
      PROVE  \/ relays[r] \in Places
             \/ /\ relays[r].phase = "upgrading"
                /\ \/ relays[r].from \in DOMAIN Scripts
                      /\ relays[r].step \in DOMAIN Scripts[relays[r].from]
                   \/ relays[r].from \in {DB_VERSION, DB_VERSION + 1} /\ relays[r].step = 1
  <2>1. \A v, i : At(v, i).phase = "upgrading"
    BY DEF At
  <2>2. QED
    BY <2>1 DEF SystemInv, PlaceInv, AtWork, InPlace
<1>2. QED
  BY <1>1 DEF SystemInv, AppInv, Shapes, StartTasks, DatabaseInv, DatabaseShape, AppTypes, TypeOK

LEMMA InitDatabase == Init => DatabaseInv /\ PlaceInv /\ AppTypes
<1> SUFFICES ASSUME Init PROVE DatabaseInv /\ PlaceInv /\ AppTypes
  OBVIOUS
<1>1. /\ engine \in {"sqlite", "postgres"} /\ version \in 0 .. DB_VERSION + 1
      /\ has = SchemaOf(version) \cup
                 (IF engine = "sqlite" /\ version \in 1 .. 4 THEN References ELSE {})
      /\ unfinished = {} /\ DB_VERSION \in Nat
  BY Versions DEF Init, DatabaseInit
<1>2. SchemaOf(version) \subseteq DOMAIN Since /\ DOMAIN Since \cap References = {}
  BY <1>1, NoReferenceInSchema DEF SchemaOf
<1>3. DatabaseShape /\ UnfinishedIsPast /\ NoOldReferences
  BY <1>1, <1>2 DEF DatabaseShape, UnfinishedIsPast, NoOldReferences
<1>4. VersionTellsTruth
  BY <1>1, <1>2 DEF VersionTellsTruth
<1>5. PlaceInv
  BY DEF Init, PlaceInv, Places
<1>6. AppTypes
  BY DEF Init, AppClosed, AppTypes
<1>7. QED
  BY <1>3, <1>4, <1>5, <1>6 DEF DatabaseInv

\* While the database stays as it is, the relays keep their places, leave them, or
\* begin with the version that they read.
LEMMA PlacesStay ==
  ASSUME DatabaseInv, PlaceInv, UNCHANGED database,
         \A s \in Relays : \/ relays'[s] = relays[s] \/ relays'[s] \in Places
                           \/ relays'[s] = At(version, 1)
  PROVE  DatabaseInv' /\ PlaceInv'
<1>1. engine' = engine /\ version' = version /\ has' = has /\ unfinished' = unfinished
  BY DEF database
<1>2. /\ Scripts' = Scripts /\ DB_VERSION' = DB_VERSION /\ Since' = Since
      /\ \A v : Reached(v)' = Reached(v) /\ SchemaOf(v)' = SchemaOf(v)
  BY <1>1, SameEngine
<1>3. DatabaseShape' /\ UnfinishedIsPast' /\ NoOldReferences'
  BY <1>1, <1>2 DEF DatabaseInv, DatabaseShape, UnfinishedIsPast, NoOldReferences
<1>4. VersionTellsTruth'
  <2>1. \A v \in unfinished : DoneLate(v)' = DoneLate(v)
    BY <1>1, LateIsDoneLate DEF DatabaseInv, DatabaseShape
  <2>2. SchemaOf(version)' = SchemaOf(version)
    BY <1>1, <1>2 DEF SchemaOf
  <2>3. QED
    BY <1>1, <2>1, <2>2 DEF DatabaseInv, VersionTellsTruth
<1>5. \A v, i : AtWork(v, i) => AtWork(v, i)'
  BY <1>1, <1>2 DEF AtWork, InPlace, Stamped
<1>6. AtWork(version, 1)
  <2>1. engine \in {"sqlite", "postgres"} /\ version \in 0 .. DB_VERSION + 1 /\ DB_VERSION \in Nat
    BY Versions DEF DatabaseInv, DatabaseShape
  <2>2. version < DB_VERSION \/ version \in {DB_VERSION, DB_VERSION + 1}
    BY <2>1
  <2>3. QED
    BY <2>2, BeginsInPlace DEF AtWork, DatabaseInv
<1>7. ASSUME NEW s \in Relays, NEW v, NEW i, relays'[s] = At(v, i), AtWork(v, i)
      PROVE  (/\ relays[s] = At(relays[s].from, relays[s].step)
              /\ AtWork(relays[s].from, relays[s].step))'
  <2>1. relays'[s].from = v /\ relays'[s].step = i
    BY <1>7 DEF At
  <2>2. AtWork(v, i)'
    BY <1>5, <1>7
  <2>3. relays'[s] = At(relays'[s].from, relays'[s].step)
    BY <1>7, <2>1
  <2>4. AtWork(relays[s].from, relays[s].step)'
    BY <2>1, <2>2 DEF AtWork, InPlace, Stamped
  <2>5. QED
    BY <2>3, <2>4 DEF At
<1>8. ASSUME NEW s \in Relays
      PROVE  (\/ relays[s] \in Places
              \/ /\ relays[s] = At(relays[s].from, relays[s].step)
                 /\ AtWork(relays[s].from, relays[s].step))'
  <2>1. CASE relays'[s] = relays[s] /\ relays[s] \notin Places
    <3>1. PICK v, i : relays[s] = At(v, i) /\ AtWork(v, i)
      BY <2>1 DEF PlaceInv
    <3>2. QED
      BY <1>7, <2>1, <3>1
  <2>2. CASE relays'[s] \in Places
    BY <2>2 DEF Places
  <2>3. CASE relays'[s] = At(version, 1)
    BY <1>6, <1>7, <2>3
  <2>4. QED
    BY <2>1, <2>2, <2>3
<1>9. PlaceInv'
  BY <1>8 DEF PlaceInv
<1>10. QED
  BY <1>3, <1>4, <1>9 DEF DatabaseInv

\* The one relay that is at work takes its script a commit further.
LEMMA UpgradeDatabase ==
  ASSUME SystemInv, NEW r \in Relays, Upgrade(r)
  PROVE  DatabaseInv' /\ PlaceInv'
<1>1. PICK v, i : v = relays[r].from /\ i = relays[r].step
  OBVIOUS
<1>2. /\ relays[r].phase = "upgrading" /\ v < DB_VERSION /\ Execute(v, i)
      /\ relays' = [relays EXCEPT ![r] = NextPlace(v, i)]
      /\ relays = [s \in Relays |-> relays[s]] /\ engine' = engine
      /\ engine \in {"sqlite", "postgres"}
  BY <1>1 DEF Upgrade, InScript, Execute, SystemInv, AppInv, Shapes
<1>3. InPlace(v, i)
  <2>1. relays[r] \notin Places
    BY <1>2, PhaseOfPlace DEF Places
  <2>2. AtWork(v, i) /\ DB_VERSION \in Nat
    BY <1>1, <1>2, <2>1, Versions DEF SystemInv, PlaceInv
  <2>3. QED
    BY <1>2, <2>2 DEF AtWork
<1>4. DatabaseInv'
  BY <1>2, <1>3, PlainCommit, StampCommit DEF SystemInv
<1>5. i \in 1 .. Len(Scripts[v]) /\ Len(Scripts[v]) \in Nat
  BY <1>2, <1>3, ScriptsAreSound DEF InPlace, WellMade
<1>6. PICK w, j : NextPlace(v, i) = At(w, j) /\ AtWork(w, j)'
  <2>1. CASE i < Len(Scripts[v])
    <3>1. NextPlace(v, i) = At(v, i + 1)
      BY <2>1 DEF NextPlace
    <3>2. InPlace(v, i + 1)'
      BY <1>2, <1>3, <2>1, NextInPlace DEF SystemInv
    <3>3. AtWork(v, i + 1)'
      BY <3>2 DEF AtWork
    <3>4. QED
      BY <3>1, <3>3
  <2>2. CASE i = Len(Scripts[v])
    <3>1. NextPlace(v, i) = At(Reached(v), 1)
      BY <1>5, <2>2 DEF NextPlace
    <3>2. AtWork(Reached(v), 1)'
      BY <1>2, <1>3, <2>2, NextInPlace DEF SystemInv
    <3>3. QED
      <4>1. PICK n : n = Reached(v) /\ n = Reached(v)'
        BY <1>2, SameEngine
      <4>2. AtWork(n, 1)'
        BY <3>2, <4>1 DEF AtWork, InPlace, Stamped
      <4>3. QED
        BY <3>1, <4>1, <4>2
  <2>3. QED
    BY <1>5, <2>1, <2>2
<1>7. ASSUME NEW s \in Relays
      PROVE  (\/ relays[s] \in Places
              \/ /\ relays[s] = At(relays[s].from, relays[s].step)
                 /\ AtWork(relays[s].from, relays[s].step))'
  <2>1. CASE s = r
    <3>1. relays'[r] = At(w, j) /\ relays'[r].from = w /\ relays'[r].step = j
      BY <1>2, <1>6 DEF At
    <3>2. relays'[s] = At(relays'[s].from, relays'[s].step)
      BY <2>1, <3>1
    <3>3. AtWork(relays[s].from, relays[s].step)'
      BY <1>6, <2>1, <3>1 DEF AtWork, InPlace, Stamped
    <3>4. QED
      BY <3>2, <3>3 DEF At
  <2>2. CASE s # r
    <3>1. relays[s] \in Places
      <4>1. \A n, k : At(n, k).phase = "upgrading"
        BY DEF At
      <4>2. relays[s] \notin Places => relays[s].phase = "upgrading"
        BY <4>1 DEF SystemInv, PlaceInv
      <4>3. r \in Live /\ (relays[s].phase = "upgrading" => s \in Live)
        BY <1>2 DEF Live
      <4>4. QED
        BY <2>2, <4>2, <4>3 DEF SystemInv, AppInv, OneRelay
    <3>2. relays'[s] = relays[s]
      BY <1>2, <2>2
    <3>3. QED
      BY <3>1, <3>2 DEF Places
  <2>3. QED
    BY <2>1, <2>2
<1>8. QED
  BY <1>4, <1>7 DEF PlaceInv

\* No other step touches the database.
LEMMA OthersKeepDatabase ==
  ASSUME SystemInv, [Next]_vars, \A r \in Relays : ~Upgrade(r)
  PROVE  DatabaseInv' /\ PlaceInv'
<1>1. relays = [s \in Relays |-> relays[s]]
  BY DEF SystemInv, AppInv, Shapes
<1>2. \A phase \in {"none", "starting", "serving", "closing", "dead"} : In(phase) \in Places
  BY DEF Places
<1>3. ASSUME UNCHANGED database,
             \A s \in Relays : \/ relays'[s] = relays[s] \/ relays'[s] \in Places
                               \/ relays'[s] = At(version, 1)
      PROVE  DatabaseInv' /\ PlaceInv'
  BY <1>3, PlacesStay DEF SystemInv
<1>4. \A r, phase : Terminate(r, phase) = relays[r] \/ Terminate(r, phase) \in Places
  BY <1>2 DEF Terminate
<1>5. ASSUME NEW r \in Relays, RelayStep(r) PROVE DatabaseInv' /\ PlaceInv'
  <2>1. CASE ReadVersion(r)
    BY <1>1, <1>3, <2>1 DEF ReadVersion
  <2>2. CASE Serve(r) \/ ServeUnmigrated(r)
    BY <1>1, <1>2, <1>3, <2>2 DEF Serve, ServeUnmigrated, StartServer
  <2>3. CASE Dies(r)
    BY <1>2, <1>3, <2>3 DEF Dies, End
  <2>4. CASE StartByHand(r)
    BY <1>1, <1>2, <1>3, <2>4 DEF StartByHand
  <2>5. QED
    BY <1>5, <2>1, <2>2, <2>3, <2>4 DEF RelayStep
<1>6. ASSUME NEW r \in Relays, AppStep(r) PROVE DatabaseInv' /\ PlaceInv'
  <2>1. CASE LaunchProcess(r)
    BY <1>1, <1>2, <1>3, <2>1 DEF LaunchProcess
  <2>2. CASE Notified(r) \/ Answered(r) \/ ParseOutput(r)
    BY <1>3, <2>2 DEF Notified, Answered, ParseOutput
  <2>3. QED
    BY <1>6, <2>1, <2>2 DEF AppStep
<1>7. CASE OpenApp \/ Start \/ Probe
  BY <1>3, <1>7 DEF OpenApp, Start, Probe
<1>8. CASE KillStaleProcesses
  BY <1>2, <1>3, <1>8 DEF KillStaleProcesses, End
<1>9. CASE Stop
  <2>1. UNCHANGED database
    BY <1>9 DEF Stop
  <2>2. relays' = relays \/ relays' = [relays EXCEPT ![process] = Terminate(process, relays[process].phase)]
    BY <1>9 DEF Stop, TellToTerminate
  <2>3. QED
    BY <1>1, <1>3, <1>4, <2>1, <2>2
<1>10. CASE LeaveApp
  <2>1. UNCHANGED database
    BY <1>10 DEF LeaveApp
  <2>2. relays' = relays \/ relays' = [relays EXCEPT ![process] = Terminate(process, relays[process].phase)]
    BY <1>10 DEF LeaveApp
  <2>3. QED
    BY <1>1, <1>3, <1>4, <2>1, <2>2
<1>11. CASE UNCHANGED vars
  BY <1>3, <1>11 DEF vars
<1>12. QED
  BY <1>5, <1>6, <1>7, <1>8, <1>9, <1>10, <1>11 DEF Next

\* The variables of the app keep to their values.
LEMMA AppTypesKept ==
  ASSUME SystemInv, [Next]_vars PROVE AppTypes'
<1>1. Live \subseteq Relays /\ children \subseteq Relays /\ AppTypes
  BY DEF Live, SystemInv, AppInv, Shapes
<1>2. \A r \in Relays : Terminated(r) \in Messages /\ Answer(r) \in Messages /\ Line(r) \in Messages
  BY DEF Terminated, Answer, Line, Messages
<1>3. ASSUME NEW r \in Relays, RelayStep(r) PROVE AppTypes'
  <2>1. CASE ReadVersion(r) \/ Upgrade(r) \/ StartByHand(r)
    BY <1>1, <2>1 DEF ReadVersion, Upgrade, StartByHand, app, AppTypes
  <2>2. CASE Serve(r) \/ ServeUnmigrated(r)
    BY <1>1, <1>2, <2>2 DEF Serve, ServeUnmigrated, StartServer, AppTypes
  <2>3. CASE Dies(r)
    BY <1>1, <1>2, <2>3 DEF Dies, End, AppTypes
  <2>4. QED
    BY <1>3, <2>1, <2>2, <2>3 DEF RelayStep
<1>4. ASSUME NEW r \in Relays, AppStep(r) PROVE AppTypes'
  <2>1. CASE LaunchProcess(r)
    BY <1>1, <2>1 DEF LaunchProcess, AppTypes
  <2>2. CASE Notified(r)
    BY <1>1, <2>2 DEF Notified, AppTypes
  <2>3. CASE Answered(r) \/ ParseOutput(r)
    BY <1>1, <2>3 DEF Answered, ParseOutput, AppTypes
  <2>4. QED
    BY <1>4, <2>1, <2>2, <2>3 DEF AppStep
<1>5. CASE OpenApp \/ Start
  BY <1>1, <1>5 DEF OpenApp, Start, AppTypes
<1>6. CASE Probe
  BY <1>1, <1>2, <1>6 DEF Probe, AppTypes
<1>7. CASE KillStaleProcesses
  BY <1>1, <1>2, <1>7 DEF KillStaleProcesses, End, AppTypes
<1>8. CASE Stop
  <2>1. messages' \subseteq Messages
    BY <1>1, <1>2, <1>8 DEF Stop, TellToTerminate, AppTypes
  <2>2. QED
    BY <1>1, <1>8, <2>1 DEF Stop, AppTypes
<1>9. CASE LeaveApp
  BY <1>1, <1>9 DEF LeaveApp, AppTypes
<1>10. CASE UNCHANGED vars
  BY <1>1, <1>10 DEF vars, app, AppTypes
<1>11. QED
  BY <1>3, <1>4, <1>5, <1>6, <1>7, <1>8, <1>9, <1>10 DEF Next

LEMMA SystemInvariant == Spec => []SystemInv
<1>1. Init => SystemInv
  BY InitInv, InitDatabase DEF SystemInv
<1>2. SystemInv /\ [Next]_vars => SystemInv'
  <2> SUFFICES ASSUME SystemInv, [Next]_vars PROVE SystemInv'
    OBVIOUS
  <2>1. AppInv'
    BY NextInv DEF SystemInv
  <2>2. DatabaseInv' /\ PlaceInv'
    BY UpgradeDatabase, OthersKeepDatabase
  <2>3. QED
    BY <2>1, <2>2, AppTypesKept DEF SystemInv
<1>3. QED
  BY <1>1, <1>2, PTL DEF Spec

\* A relay that upgrades is always at a place of a script that exists, the version is one
\* that the scripts know, and start() runs one task, for any number of launches.
THEOREM TypeCorrect == Spec => []TypeOK
<1>1. QED
  BY SystemIsTyped, SystemInvariant, PTL

\* From a database of any version, and wherever relays are killed between two commits of
\* any script, a database of version n has what belongs to n but for what one of the four
\* scripts that write the version first still owed.
THEOREM VersionsTellTheTruth == Spec => []VersionTellsTruth
<1>1. SystemInv => VersionTellsTruth
  BY DEF SystemInv, DatabaseInv
<1>2. QED
  BY <1>1, SystemInvariant, PTL
=============================================================================
