------------------------------ MODULE NodeAgent ------------------------------
(***************************************************************************)
(* The host agent: its state machine, the session loop of Run, the reader  *)
(* goroutine that takes job offers, the thermal monitor of a running job,  *)
(* and the pause and resume commands of the local control socket.          *)
(*                                                                         *)
(* The agent's fields are guarded by one mutex; a step of a thread is one  *)
(* critical section of it, one network write or one call of the runtime or *)
(* of the telemetry.  A session's reader goroutine outlives the session    *)
(* while it runs a job, because the job's context is the agent's; Slot     *)
(* names the readers that can exist at once.  A runtime process is named   *)
(* by the thread whose Prepare started it.                                 *)
(***************************************************************************)
EXTENDS Integers, Sequences, FiniteSets, SequencesExt

CONSTANTS
    Slot,        \* sessions whose reader goroutine may exist at once
    Offer,       \* job offers the coordinator may send
    Resumer,     \* control connections that may carry a resume command
    CanPause,    \* does the host pause the node?
    CanStop,     \* does the host stop the agent?
    CanLose,     \* may connections, dials and Prepare fail?
    TokenAges,   \* does the access token age?
    Temps,       \* temperatures the telemetry may report, 0 when it fails
    Windows,     \* may the clock be inside, outside the work window?
    MaxTempC, HardTempC, ThermalHysteresis,
    None

AgentAssumption ==
    /\ MaxTempC \in Nat /\ HardTempC \in Nat /\ ThermalHysteresis \in Nat
    /\ MaxTempC < HardTempC
    /\ Temps \subseteq Nat
    /\ Windows \subseteq BOOLEAN
    /\ None \notin Slot \cup Offer \cup Resumer

VARIABLES
    state,          \* a.state
    pauseRequested,
    pausedAt,       \* "none", "set", or "elapsed" after PauseIdleTimeout
    runtimeStatus,  \* the process runtimeStatus describes, None when empty
    running,        \* the process that is alive
    scheduleState,  \* in the window at the last evaluation?
    thermalState,
    activeJobID,
    activeJobCancel,  \* the slot whose job the registered function cancels
    main,           \* where Run is
    session,        \* the slot of the open session
    reading,        \* the temperature that sendHeartbeat has read
    reader,         \* per slot: the reader goroutine and its job
    monitor,        \* per slot: monitorJobThermal
    resume,         \* per control connection: the resume in progress
    token,          \* the access token
    temp, inWindow, \* the machine and the clock
    ctxDone,        \* the host has stopped the agent
    said            \* per offer: the answers sent

agentVars == <<state, pauseRequested, pausedAt, runtimeStatus, running, scheduleState,
               thermalState, activeJobID, activeJobCancel>>
envVars   == <<token, temp, inWindow, ctxDone>>
vars == <<agentVars, main, session, reading, reader, monitor, resume, envVars, said>>

Thread  == {"main"} \cup Resumer
Process == Thread \cup {"gone", None}
NoJob   == [pc |-> "none", offer |-> None, runtime |-> None, cancelled |-> FALSE, safety |-> FALSE]

-----------------------------------------------------------------------------
(* The node state machine.                                                 *)

Interrupts == {"PAUSED", "DRAINING", "ERROR", "UPDATING", "OFFLINE"}
legalTransitions ==
    [s \in {"UNREGISTERED", "REGISTERING", "OFFLINE", "STARTING", "BENCHMARKING", "IDLE",
            "PREPARING_MODEL", "AVAILABLE", "BUSY", "DRAINING", "PAUSED", "ERROR", "UPDATING"} |->
        CASE s = "UNREGISTERED" -> {"REGISTERING"}
          [] s = "REGISTERING"  -> {"OFFLINE", "ERROR"}
          [] s = "OFFLINE"      -> {"STARTING", "UPDATING", "ERROR"}
          [] s = "STARTING"     -> Interrupts \cup {"BENCHMARKING", "IDLE", "PREPARING_MODEL"}
          [] s = "BENCHMARKING" -> Interrupts \cup {"IDLE", "PREPARING_MODEL"}
          [] s = "IDLE"         -> Interrupts \cup {"PREPARING_MODEL"}
          [] s = "PREPARING_MODEL" -> Interrupts \cup {"AVAILABLE"}
          [] s = "AVAILABLE"    -> Interrupts \cup {"BUSY"}
          [] s = "BUSY"         -> (Interrupts \ {"PAUSED"}) \cup {"AVAILABLE"}
          [] s = "DRAINING"     -> (Interrupts \ {"DRAINING"}) \cup {"AVAILABLE"}
          [] s = "PAUSED"       -> (Interrupts \ {"PAUSED"}) \cup {"IDLE", "PREPARING_MODEL"}
          [] s = "ERROR"        -> {"OFFLINE", "STARTING", "UPDATING"}
          [] s = "UPDATING"     -> {"STARTING", "OFFLINE", "ERROR"}]
State == DOMAIN legalTransitions

CanTransition(from, to) == from = to \/ to \in legalTransitions[from]

\* Paused, draining, idle and available are reached from anywhere.
forceState(from, to) ==
    IF CanTransition(from, to) \/ to \in {"PAUSED", "DRAINING", "IDLE", "AVAILABLE"}
    THEN to ELSE from

nextThermalState(current, tempC) ==
    LET recoverAt == IF MaxTempC < ThermalHysteresis THEN 0 ELSE MaxTempC - ThermalHysteresis
        limit     == IF current = "normal" THEN MaxTempC ELSE recoverAt
    IN CASE tempC <= 0 \/ MaxTempC <= 0           -> "normal"
         [] tempC > 0 /\ MaxTempC > 0 /\ tempC <= limit -> "normal"
         [] tempC > limit /\ tempC >= HardTempC   -> "hard_limit"
         [] OTHER                                 -> "warm"

-----------------------------------------------------------------------------
(* Run, before the first session.                                          *)

\* Run returns an error when the transition is refused; a prepared runtime is
\* closed on the way out.
Exit ==
    /\ main' = "exited"
    /\ session' = None
    /\ running' = IF main \in {"starting", "preparing", "prepare"} THEN running ELSE None

Transition(to, next) ==
    /\ IF CanTransition(state, to)
       THEN state' = to /\ main' = next /\ UNCHANGED <<session, running>>
       ELSE Exit /\ UNCHANGED state
    /\ UNCHANGED <<pauseRequested, pausedAt, runtimeStatus, scheduleState, thermalState,
                   activeJobID, activeJobCancel, reading, reader, monitor, resume, envVars, said>>

Starting  == main = "starting"  /\ Transition("STARTING", "preparing")
Preparing == main = "preparing" /\ Transition("PREPARING_MODEL", "prepare")
Available == main = "installed" /\ Transition("AVAILABLE", "dial")

\* A new runtime process of thread t; the one that ran before is stopped.
StartRuntime(t) ==
    /\ running' = t
    /\ runtimeStatus' = IF runtimeStatus = t THEN "gone" ELSE runtimeStatus
    /\ reader' = [s \in Slot |-> IF reader[s].runtime = t
                                 THEN [reader[s] EXCEPT !.runtime = "gone"] ELSE reader[s]]

Prepare ==
    /\ main = "prepare"
    /\ \/ /\ StartRuntime("main")
          /\ main' = "setRuntime" /\ UNCHANGED <<state, session>>
       \/ /\ CanLose
          /\ state' = IF CanTransition(state, "ERROR") THEN "ERROR" ELSE state
          /\ Exit /\ UNCHANGED <<runtimeStatus, reader>>
    /\ UNCHANGED <<pauseRequested, pausedAt, scheduleState, thermalState, activeJobID,
                   activeJobCancel, reading, monitor, resume, envVars, said>>

setRuntime ==
    /\ main = "setRuntime"
    /\ runtimeStatus' = "main" /\ main' = "installed"
    /\ UNCHANGED <<state, pauseRequested, pausedAt, running, scheduleState, thermalState, activeJobID,
                   activeJobCancel, session, reading, reader, monitor, resume, envVars, said>>

-----------------------------------------------------------------------------
(* Run, the session loop.                                                  *)

Goto(pc) ==
    /\ main' = pc
    /\ UNCHANGED <<agentVars, session, reading, reader, monitor, resume, temp, inWindow, ctxDone, said>>

\* The token is renewed when its expiry is known and near.
ensureAccessToken ==
    /\ main = "dial"
    /\ IF token.known /\ token.age # "fresh"
       THEN \/ token' = [known |-> TRUE, age |-> "fresh"] /\ Goto("connect")
            \/ CanLose /\ UNCHANGED token /\ Goto("backoff")
       ELSE UNCHANGED token /\ Goto("connect")

\* A 401 is treated like any other failed dial: mutant of dialSession.
dialSessionNoRenewal ==
    /\ main = "connect"
    /\ \/ token.age # "expired" /\ UNCHANGED token /\ Goto("hello")
       \/ (CanLose \/ token.age = "expired") /\ UNCHANGED token /\ Goto("backoff")

\* A token that has expired is answered 401, renewed once and tried again.
dialSession ==
    /\ main = "connect"
    /\ \/ token.age # "expired" /\ UNCHANGED token /\ Goto("hello")
       \/ token.age = "expired" /\ token' = [known |-> TRUE, age |-> "fresh"] /\ Goto("redial")
       \/ (CanLose \/ token.age = "expired") /\ UNCHANGED token /\ Goto("backoff")

redialSession ==
    /\ main = "redial"
    /\ \/ token.age # "expired" /\ UNCHANGED token /\ Goto("hello")
       \/ (CanLose \/ token.age = "expired") /\ UNCHANGED token /\ Goto("backoff")

\* The hello is answered by session.accepted and the first heartbeat follows;
\* bounded by the free slots.
Accepted ==
    /\ main = "hello"
    /\ \E s \in Slot : reader[s].pc = "none" /\ session' = s
    /\ main' = "beat"
    /\ UNCHANGED <<agentVars, reading, reader, monitor, resume, envVars, said>>

\* runSession returns and its deferred Close ends the connection.
EndSession ==
    /\ main' = "backoff" /\ session' = None
    /\ UNCHANGED <<agentVars, reading, reader, monitor, resume, envVars, said>>

\* The connection is lost: the hello, a heartbeat or the reader's Read fails.
SessionLost == CanLose /\ main \in {"hello", "session", "send"} /\ EndSession

\* The reader goroutine has returned an error.
ReaderFailed == main = "session" /\ reader[session].pc = "none" /\ EndSession

Backoff ==
    /\ main = "backoff"
    /\ UNCHANGED token /\ Goto("dial")

\* ctx is done: Run leaves its loop wherever it waits.
Stopped ==
    /\ ctxDone /\ main \in {"dial", "connect", "redial", "hello", "session", "backoff"}
    /\ state' = IF CanTransition(state, "OFFLINE") THEN "OFFLINE" ELSE state
    /\ Exit
    /\ UNCHANGED <<pauseRequested, pausedAt, runtimeStatus, scheduleState, thermalState, activeJobID,
                   activeJobCancel, reading, reader, monitor, resume, envVars, said>>

-----------------------------------------------------------------------------
(* sendHeartbeat.                                                          *)

Tick ==
    /\ main = "session" /\ main' = "beat"
    /\ UNCHANGED <<agentVars, session, reading, reader, monitor, resume, envVars, said>>

GPUStatus ==
    /\ main = "beat"
    /\ reading' = temp /\ main' = "guard"
    /\ UNCHANGED <<agentVars, session, reader, monitor, resume, envVars, said>>

\* Leaves pausing to the control command: mutant of GuardedState.
GuardedStateNoPause(inWin, thermal) ==
    IF thermal # "normal" /\ activeJobID # None THEN forceState(state, "DRAINING") ELSE state

\* The state after the guards, given the new schedule and thermal state.
GuardedState(inWin, thermal) ==
    LET active == activeJobID # None
        hot == IF active \/ state = "BUSY" THEN forceState(state, "DRAINING")
               ELSE IF state \in {"AVAILABLE", "PREPARING_MODEL", "DRAINING"}
                    THEN forceState(state, "IDLE") ELSE state
    IN CASE pauseRequested /\ active  -> forceState(state, "DRAINING")
         [] pauseRequested /\ ~active -> forceState(state, "PAUSED")
         [] ~pauseRequested /\ thermal # "normal" -> hot
         [] ~pauseRequested /\ thermal = "normal" /\ ~active /\ ~inWin ->
              IF state \in {"AVAILABLE", "PREPARING_MODEL"} THEN forceState(state, "IDLE") ELSE state
         [] ~pauseRequested /\ thermal = "normal" /\ ~active /\ inWin ->
              IF state \in {"IDLE", "DRAINING"} /\ runtimeStatus # None
              THEN forceState(state, "AVAILABLE") ELSE state
         [] OTHER -> state

evaluateGuards ==
    LET thermal == nextThermalState(thermalState, reading) IN
    /\ main = "guard"
    /\ scheduleState' = inWindow
    /\ thermalState' = thermal
    /\ state' = GuardedState(inWindow, thermal)
    /\ reader' = IF ~pauseRequested /\ thermal = "hard_limit" /\ activeJobCancel # None
                 THEN [reader EXCEPT ![activeJobCancel].cancelled = TRUE] ELSE reader
    /\ IF state' = "PAUSED" /\ activeJobID = None /\ pausedAt = "elapsed" /\ runtimeStatus # None
       THEN runtimeStatus' = None /\ running' = None
       ELSE UNCHANGED <<runtimeStatus, running>>
    /\ main' = "send"
    /\ UNCHANGED <<pauseRequested, pausedAt, activeJobID, activeJobCancel, session, reading,
                   monitor, resume, envVars, said>>

\* The state change, the safety event and the heartbeat are written.  The first
\* heartbeat of a session is followed by the start of its reader.
SendHeartbeat ==
    /\ main = "send"
    /\ main' = "session"
    /\ reader' = IF reader[session].pc = "none" THEN [reader EXCEPT ![session].pc = "read"] ELSE reader
    /\ UNCHANGED <<agentVars, session, reading, monitor, resume, envVars, said>>

-----------------------------------------------------------------------------
(* The reader goroutine and its job.                                       *)

Connected(s) == session = s /\ main \notin {"backoff", "exited"}
Says(o, m) == said' = [said EXCEPT ![o] = Append(@, m)]

\* Read fails once the connection is closed; a message the agent does not know
\* ends the reader too.
ReadFails(s) ==
    /\ reader[s].pc = "read" /\ (~Connected(s) \/ ctxDone \/ CanLose)
    /\ reader' = [reader EXCEPT ![s] = NoJob]
    /\ UNCHANGED <<agentVars, main, session, reading, monitor, resume, envVars, said>>

\* A busy node takes another job: mutant of Eligible.
EligibleThoughBusy ==
    /\ state \in {"AVAILABLE", "BUSY"} /\ ~pauseRequested
    /\ scheduleState /\ thermalState = "normal" /\ runtimeStatus # None

\* The conditions claimJob checks under the lock.
Eligible ==
    /\ state = "AVAILABLE" /\ ~pauseRequested
    /\ scheduleState /\ thermalState = "normal" /\ runtimeStatus # None

\* job.rejected: not eligible, the lease has expired or the request is malformed.
Reject(s, o) ==
    /\ reader[s].pc = "read" /\ Connected(s) /\ said[o] = <<>>
    /\ Says(o, "rejected")
    /\ UNCHANGED <<agentVars, main, session, reading, reader, monitor, resume, envVars>>

claimJob(s, o) ==
    /\ reader[s].pc = "read" /\ Connected(s) /\ said[o] = <<>>
    /\ Eligible
    /\ activeJobID' = o
    /\ state' = "BUSY"
    /\ reader' = [reader EXCEPT ![s] = [NoJob EXCEPT !.pc = "claimed", !.offer = o,
                                                     !.runtime = runtimeStatus]]
    /\ UNCHANGED <<pauseRequested, pausedAt, runtimeStatus, running, scheduleState, thermalState,
                   activeJobCancel, main, session, reading, monitor, resume, envVars, said>>

\* job.accepted and job.started; a failed write releases the job.
SayStarted(s) ==
    /\ reader[s].pc = "claimed"
    /\ IF Connected(s) /\ ~ctxDone
       THEN /\ said' = [said EXCEPT ![reader[s].offer] = <<"accepted", "started">>]
            /\ reader' = [reader EXCEPT ![s].pc = "started"]
       ELSE UNCHANGED said /\ reader' = [reader EXCEPT ![s].pc = "release"]
    /\ UNCHANGED <<agentVars, main, session, reading, monitor, resume, envVars>>

\* The job's context and its cancel function; the monitor starts.  (Bound: the
\* monitor of the slot's previous job has ended.)
setActiveJobCancel(s) ==
    /\ reader[s].pc = "started" /\ monitor[s] = "off"
    /\ activeJobCancel' = s
    /\ reader' = [reader EXCEPT ![s].pc = "running"]
    /\ monitor' = [monitor EXCEPT ![s] = "poll"]
    /\ UNCHANGED <<state, pauseRequested, pausedAt, runtimeStatus, running, scheduleState, thermalState,
                   activeJobID, main, session, reading, resume, envVars, said>>

\* The offer's deadline ends the job's context.
Deadline(s) ==
    /\ reader[s].pc = "running"
    /\ reader' = [reader EXCEPT ![s].cancelled = TRUE]
    /\ UNCHANGED <<agentVars, main, session, reading, monitor, resume, envVars, said>>

\* What the reader says when the completion is there, or failed: a runtime that
\* is stopped under the job and an ended context are errors.
Completion(s) ==
    IF reader[s].runtime # running \/ reader[s].cancelled \/ ctxDone
    THEN {IF reader[s].safety \/ thermalState = "hard_limit" THEN "safety_limit" ELSE "runtime_error"}
    ELSE {"completed", "runtime_error", "empty_completion", "signature_failed"}

\* Says nothing about a request that was cancelled: mutant of ChatCompletion.
ChatCompletionSilent(s) ==
    /\ reader[s].pc = "running"
    /\ \E m \in Completion(s) : IF reader[s].cancelled THEN UNCHANGED said ELSE Says(reader[s].offer, m)
    /\ reader' = [reader EXCEPT ![s].pc = "finish"]
    /\ UNCHANGED <<agentVars, main, session, reading, monitor, resume, envVars>>

ChatCompletion(s) ==
    /\ reader[s].pc = "running"
    /\ \E m \in Completion(s) : IF Connected(s) /\ ~ctxDone THEN Says(reader[s].offer, m) ELSE UNCHANGED said
    /\ reader' = [reader EXCEPT ![s].pc = "finish"]
    /\ UNCHANGED <<agentVars, main, session, reading, monitor, resume, envVars>>

\* The deferred cancel, then setActiveJobCancel(nil).
Finish(s) ==
    /\ reader[s].pc = "finish"
    /\ activeJobCancel' = None
    /\ reader' = [reader EXCEPT ![s].pc = "release", ![s].cancelled = TRUE]
    /\ UNCHANGED <<state, pauseRequested, pausedAt, runtimeStatus, running, scheduleState, thermalState,
                   activeJobID, main, session, reading, monitor, resume, envVars, said>>

\* The state a node without its job goes to.
ReleasedState ==
    CASE pauseRequested -> forceState(state, "PAUSED")
      [] ~pauseRequested /\ (~scheduleState \/ thermalState # "normal") -> forceState(state, "IDLE")
      [] OTHER -> IF state \in {"BUSY", "DRAINING"} THEN forceState(state, "AVAILABLE") ELSE state

releaseJob(s) ==
    /\ reader[s].pc = "release"
    /\ activeJobID' = None /\ activeJobCancel' = None
    /\ pausedAt' = IF pauseRequested THEN "set" ELSE pausedAt
    /\ state' = ReleasedState
    /\ reader' = [reader EXCEPT ![s] = IF Connected(s) THEN [NoJob EXCEPT !.pc = "read"] ELSE NoJob]
    /\ UNCHANGED <<pauseRequested, runtimeStatus, running, scheduleState, thermalState, main, session,
                   reading, monitor, resume, envVars, said>>

-----------------------------------------------------------------------------
(* The thermal monitor of a job.                                           *)

\* One poll; a ticker that is ready together with ctx.Done may still be served.
MonitorPoll(s) ==
    /\ monitor[s] = "poll" /\ temp >= HardTempC
    /\ monitor' = [monitor EXCEPT ![s] = "hot"]
    /\ UNCHANGED <<agentVars, main, session, reading, reader, resume, envVars, said>>

MonitorDone(s) ==
    /\ monitor[s] = "poll" /\ (reader[s].cancelled \/ reader[s].pc # "running" \/ ctxDone)
    /\ monitor' = [monitor EXCEPT ![s] = "off"]
    /\ UNCHANGED <<agentVars, main, session, reading, reader, resume, envVars, said>>

MonitorLimit(s) ==
    /\ monitor[s] = "hot"
    /\ thermalState' = "hard_limit"
    /\ state' = forceState(state, "DRAINING")
    /\ monitor' = [monitor EXCEPT ![s] = "limit"]
    /\ UNCHANGED <<pauseRequested, pausedAt, runtimeStatus, running, scheduleState, activeJobID,
                   activeJobCancel, main, session, reading, reader, resume, envVars, said>>

\* The event, the reason in the job's channel and the cancel, unless the job is
\* over and its channel and context are garbage.
MonitorCancel(s) ==
    /\ monitor[s] = "limit"
    /\ reader' = IF reader[s].pc = "running"
                 THEN [reader EXCEPT ![s].safety = TRUE, ![s].cancelled = TRUE] ELSE reader
    /\ monitor' = [monitor EXCEPT ![s] = "off"]
    /\ UNCHANGED <<agentVars, main, session, reading, resume, envVars, said>>

-----------------------------------------------------------------------------
(* Control commands.                                                       *)

handlePause ==
    /\ CanPause /\ main # "exited"
    /\ pauseRequested' = TRUE
    /\ pausedAt' = IF activeJobID = None THEN "set" ELSE pausedAt
    /\ state' = forceState(state, IF activeJobID # None THEN "DRAINING" ELSE "PAUSED")
    /\ UNCHANGED <<runtimeStatus, running, scheduleState, thermalState, activeJobID, activeJobCancel,
                   main, session, reading, reader, monitor, resume, envVars, said>>

\* The first critical section of resume.
Resume(r) ==
    /\ resume[r] = "idle" /\ main # "exited"
    /\ pauseRequested' = FALSE /\ pausedAt' = "none"
    /\ IF activeJobID # None THEN UNCHANGED <<state, resume>>
       ELSE IF runtimeStatus = None
            THEN /\ state' = forceState(state, "PREPARING_MODEL")
                 /\ resume' = [resume EXCEPT ![r] = "prepare"]
            ELSE /\ UNCHANGED state
                 /\ resume' = [resume EXCEPT ![r] = "settle"]
    /\ UNCHANGED <<runtimeStatus, running, scheduleState, thermalState, activeJobID, activeJobCancel,
                   main, session, reading, reader, monitor, envVars, said>>

ResumePrepare(r) ==
    /\ resume[r] = "prepare" /\ main # "exited"
    /\ \/ /\ StartRuntime(r)
          /\ resume' = [resume EXCEPT ![r] = "setRuntime"]
          /\ UNCHANGED state
       \/ /\ CanLose
          /\ state' = IF CanTransition(state, "ERROR") THEN "ERROR" ELSE state
          /\ resume' = [resume EXCEPT ![r] = "idle"]
          /\ UNCHANGED <<runtimeStatus, running, reader>>
    /\ UNCHANGED <<pauseRequested, pausedAt, scheduleState, thermalState, activeJobID, activeJobCancel,
                   main, session, reading, monitor, envVars, said>>

ResumeSetRuntime(r) ==
    /\ resume[r] = "setRuntime" /\ main # "exited"
    /\ runtimeStatus' = r
    /\ resume' = [resume EXCEPT ![r] = "settle"]
    /\ UNCHANGED <<state, pauseRequested, pausedAt, running, scheduleState, thermalState, activeJobID,
                   activeJobCancel, main, session, reading, reader, monitor, envVars, said>>

\* The last critical section of resume.
ResumeSettle(r) ==
    /\ resume[r] = "settle" /\ main # "exited"
    /\ state' = forceState(state, IF ~scheduleState \/ thermalState # "normal" THEN "IDLE" ELSE "AVAILABLE")
    /\ resume' = [resume EXCEPT ![r] = "idle"]
    /\ UNCHANGED <<pauseRequested, pausedAt, runtimeStatus, running, scheduleState, thermalState,
                   activeJobID, activeJobCancel, main, session, reading, reader, monitor, envVars, said>>

-----------------------------------------------------------------------------
(* The machine.                                                            *)

Environment ==
    \/ \E t \in Temps : temp' = t /\ t # temp /\ UNCHANGED <<token, inWindow, ctxDone>>
    \/ \E w \in Windows : inWindow' = w /\ w # inWindow /\ UNCHANGED <<token, temp, ctxDone>>
    \/ /\ TokenAges /\ token.age # "expired"
       /\ token' = [token EXCEPT !.age = IF @ = "fresh" THEN "due" ELSE "expired"]
       /\ UNCHANGED <<temp, inWindow, ctxDone>>
    \/ CanStop /\ ~ctxDone /\ ctxDone' = TRUE /\ UNCHANGED <<token, temp, inWindow>>

World == /\ main # "exited" /\ Environment
         /\ UNCHANGED <<agentVars, main, session, reading, reader, monitor, resume, said>>

PauseElapses ==
    /\ main # "exited" /\ pausedAt = "set" /\ pausedAt' = "elapsed"
    /\ UNCHANGED <<state, pauseRequested, runtimeStatus, running, scheduleState, thermalState,
                   activeJobID, activeJobCancel, main, session, reading, reader, monitor, resume,
                   envVars, said>>

Init ==
    /\ state = "OFFLINE" /\ pauseRequested = FALSE /\ pausedAt = "none"
    /\ runtimeStatus = None /\ running = None
    /\ scheduleState = TRUE /\ thermalState = "normal"
    /\ activeJobID = None /\ activeJobCancel = None
    /\ main = "starting" /\ session = None /\ reading = 0
    /\ reader = [s \in Slot |-> NoJob]
    /\ monitor = [s \in Slot |-> "off"]
    /\ resume = [r \in Resumer |-> "idle"]
    /\ token \in [known: IF TokenAges THEN BOOLEAN ELSE {TRUE}, age: {"fresh"}]
    /\ temp \in Temps /\ inWindow \in Windows
    /\ ctxDone = FALSE
    /\ said = [o \in Offer |-> <<>>]

\* The process ends with Run.
Alive == main # "exited"

Loop == \/ Starting \/ Preparing \/ Prepare \/ setRuntime \/ Available
        \/ ensureAccessToken \/ dialSession \/ redialSession \/ Accepted \/ Backoff
        \/ ReaderFailed \/ Stopped \/ GPUStatus \/ evaluateGuards \/ SendHeartbeat
Work(s) == /\ Alive
           /\ \/ ReadFails(s) \/ SayStarted(s) \/ setActiveJobCancel(s) \/ Finish(s) \/ releaseJob(s)
Watch(s) == Alive /\ (MonitorPoll(s) \/ MonitorDone(s) \/ MonitorLimit(s) \/ MonitorCancel(s))
Control(r) == ResumePrepare(r) \/ ResumeSetRuntime(r) \/ ResumeSettle(r)

Next ==
    \/ Loop \/ SessionLost \/ Tick \/ World \/ PauseElapses \/ handlePause
    \/ \E s \in Slot : \/ Work(s) \/ Watch(s)
                       \/ Alive /\ (Deadline(s) \/ ChatCompletion(s))
                       \/ \E o \in Offer : Alive /\ (Reject(s, o) \/ claimJob(s, o))
    \/ \E r \in Resumer : Resume(r) \/ Control(r)

Spec == Init /\ [][Next]_vars

\* Goroutines are scheduled, tickers fire, a dial that may succeed again and
\* again does, the runtime's Prepare returns and a cancelled request returns.
Fairness ==
    /\ WF_vars(Loop) /\ WF_vars(Tick)
    /\ SF_vars(ensureAccessToken /\ main' = "connect")
    /\ SF_vars(dialSession /\ main' = "hello") /\ SF_vars(dialSession /\ main' = "redial")
    /\ SF_vars(Accepted)
    /\ SF_vars(SendHeartbeat)
    /\ \A s \in Slot : /\ WF_vars(Work(s)) /\ WF_vars(Watch(s))
                       /\ WF_vars(Alive /\ reader[s].cancelled /\ ChatCompletion(s))
    /\ \A r \in Resumer : WF_vars(Control(r))

\* Moreover every offer carries a deadline, which passes.
DeadlinesPass == \A s \in Slot : WF_vars(Alive /\ ~reader[s].cancelled /\ Deadline(s))

-----------------------------------------------------------------------------
(* Properties.                                                             *)

\* The slots whose reader has a job.
Holders == {s \in Slot : reader[s].pc \in {"claimed", "started", "running", "finish", "release"}}

\* Types of the agent's fields and of its goroutines (agent.go).
TypeOK ==
    /\ state \in State /\ pauseRequested \in BOOLEAN /\ pausedAt \in {"none", "set", "elapsed"}
    /\ runtimeStatus \in Process /\ running \in Thread \cup {None}
    /\ scheduleState \in BOOLEAN /\ thermalState \in {"normal", "warm", "hard_limit"}
    /\ activeJobID \in Offer \cup {None} /\ activeJobCancel \in Slot \cup {None}
    /\ session \in Slot \cup {None} /\ reading \in Temps \cup {0}
    /\ \A s \in Slot : reader[s].offer \in Offer \cup {None} /\ reader[s].runtime \in Process
    /\ monitor \in [Slot -> {"off", "poll", "hot", "limit"}]
    /\ resume \in [Resumer -> {"idle", "prepare", "setRuntime", "settle"}]

\* Without a resume command, the state the agent reports tells whether it works:
\* at most one reader has a job, however often the session is replaced during a
\* job, BUSY means one has, and AVAILABLE, IDLE and PAUSED mean none has.
StateTellsJob ==
    /\ Cardinality(Holders) <= 1
    /\ activeJobID # None <=> Holders # {}
    /\ state = "BUSY" => Holders # {}
    /\ state \in {"AVAILABLE", "IDLE", "PAUSED"} => Holders = {}

\* A node that says PAUSED has finished its job, whatever pauses, resumes and
\* thermal events interleaved with it (docs/ARCHITECTURE.md:60).
PausedMeansIdle == state = "PAUSED" => Holders = {} /\ activeJobCancel = None

\* A pause takes effect: the running job ends and the node is PAUSED, or it is
\* resumed.
PauseTakesEffect == (pauseRequested /\ Alive) ~> (state = "PAUSED" \/ ~pauseRequested \/ ~Alive)

\* A job does not go on at the hard limit, connected or not, paused or not.
HotJobEnds ==
    \A s \in Slot : (reader[s].pc = "running" /\ temp >= HardTempC)
                    ~> (reader[s].pc # "running" \/ temp < HardTempC \/ ~Alive)

\* A job that was taken is answered, unless its session is gone.
OfferAnswered ==
    \A s \in Slot, o \in Offer :
        (reader[s].pc = "claimed" /\ reader[s].offer = o)
        ~> (Len(said[o]) = 3 \/ ~Connected(s) \/ ~Alive)

\* A node whose coordinator can be reached gets its session back, however long it
\* was away and whether or not it knew when its token would expire.
Reconnects == Alive ~> (main = "session" \/ ~Alive)

\* docs/ARCHITECTURE.md:38 "The node state machine is explicit and rejects illegal
\* transitions.": every change of the state is in the table.
LegalTransitions == [][CanTransition(state, state')]_vars

\* docs/ARCHITECTURE.md:61 "after cooling below the hysteresis threshold it can
\* become `AVAILABLE` again": the thermal state leaves warm or hard_limit at a
\* temperature that was measured below the threshold.
CooledBeforeNormal ==
    [][(thermalState # "normal" /\ thermalState' = "normal")
       => (reading > 0 /\ reading <= MaxTempC - ThermalHysteresis)]_vars

\* docs/PROTOCOL.md:78 "the node executes one job at a time."
OneJobAtATime == Cardinality(Holders) <= 1

\* docs/HANDOFF.md:579 "`AVAILABLE` means the model is loaded": an available node
\* in a session, with no command in progress, points to the runtime that runs.
AvailableIsLoaded ==
    (state = "AVAILABLE" /\ main = "session" /\ \A r \in Resumer : resume[r] = "idle")
    => (running # None /\ runtimeStatus = running)

\* docs/ARCHITECTURE.md:60 "Pause moves an idle node to `PAUSED`": the agent goes
\* on running when the host pauses it.
PauseKeepsAgent == (pauseRequested /\ ~ctxDone) => Alive
=============================================================================
