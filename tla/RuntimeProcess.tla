--------------------------- MODULE RuntimeProcess ---------------------------
(***************************************************************************)
(* The llama-server processes of one agent: StartLlamaServer, its health   *)
(* wait and Stop, and LocalRuntimeProvider.Prepare and Close, called by    *)
(* Agent.Run, by the idle unload of evaluateGuards and by resume commands, *)
(* each on a goroutine of its own.                                         *)
(*                                                                         *)
(* A server is the child process; it outlives the agent.                   *)
(***************************************************************************)
EXTENDS Integers, FiniteSets

CONSTANTS
    Main,     \* the goroutine of Agent.Run
    Resume,   \* goroutines of resume commands
    Overlap,  \* may a resume come while another call prepares?
    Server,   \* child processes, each started at most once
    Port,
    CanDie,   \* may a server exit on its own?
    None

Thread == {Main} \cup Resume

ProcessAssumption ==
    Main \notin Resume /\ None \notin Thread \cup Server /\ Overlap \in BOOLEAN

VARIABLES
    servers,  \* the child processes
    running,  \* LocalRuntimeProvider.running
    mu,       \* the goroutine that holds LocalRuntimeProvider.mu
    url,      \* the server whose BaseURL the agent's runtimeStatus names
    th        \* the goroutines

vars == <<servers, running, mu, url, th>>

NotStarted == [st |-> "none", port |-> None, signal |-> "none"]
IdleThread == [pc |-> "idle", own |-> None, stopping |-> None, then |-> "idle"]

At(t, pc) == th[t].pc = pc
Alive(s) == servers[s].st \in {"started", "serving"}
Bound(port) == \E s \in Server : servers[s].st = "serving" /\ servers[s].port = port
Exited == At(Main, "exited")
Goto(t, pc) == th' = [th EXCEPT ![t].pc = pc]

\* The process is gone, its other goroutines with it.
Exit == th' = [t \in Thread |-> [IdleThread EXCEPT !.pc = "exited"]]

-----------------------------------------------------------------------------
(* StartLlamaServer.                                                       *)

\* chooseFreeLoopbackPort closes its listener before the child binds the port.
Launch(t) ==
    /\ At(t, "launch")
    /\ \E s \in Server : \E port \in Port :
         /\ servers[s].st = "none" /\ ~Bound(port)
         /\ servers' = [servers EXCEPT ![s] = [st |-> "started", port |-> port, signal |-> "none"]]
         /\ th' = [th EXCEPT ![t].pc = "health", ![t].own = s]
    /\ UNCHANGED <<running, mu, url>>

\* The child cannot be started, or a step of Prepare before it fails.
LaunchFails(t) ==
    /\ At(t, "launch")
    /\ IF t = Main THEN Exit ELSE Goto(t, "failed")
    /\ UNCHANGED <<servers, running, mu, url>>

\* waitForHealth: whoever serves the port answers.
Healthy(t) ==
    /\ At(t, "health")
    /\ Bound(servers[th[t].own].port)
    /\ Goto(t, "lock")
    /\ UNCHANGED <<servers, running, mu, url>>

\* The process exited, or the startup timeout or the context ended the wait.
Unhealthy(t) ==
    /\ At(t, "health")
    /\ th' = [th EXCEPT ![t].pc = "stop", ![t].stopping = th[t].own, ![t].then = "failed"]
    /\ UNCHANGED <<servers, running, mu, url>>

-----------------------------------------------------------------------------
(* Stop.  Every caller passes context.Background().                        *)

Stop(t) ==
    /\ At(t, "stop")
    /\ LET s == th[t].stopping
       IN  IF Alive(s)
           THEN /\ servers' = [servers EXCEPT ![s].signal = IF @ = "none" THEN "interrupt" ELSE @]
                /\ Goto(t, "wait")
           ELSE Goto(t, "stopped") /\ UNCHANGED servers
    /\ UNCHANGED <<running, mu, url>>

\* <-waitCh.
Stopped(t) ==
    /\ At(t, "wait")
    /\ ~Alive(th[t].stopping)
    /\ Goto(t, "stopped")
    /\ UNCHANGED <<servers, running, mu, url>>

\* The shutdown timeout: kill, and wait on.
StopTimeout(t) ==
    /\ At(t, "wait")
    /\ Alive(th[t].stopping) /\ servers[th[t].stopping].signal # "kill"
    /\ servers' = [servers EXCEPT ![th[t].stopping].signal = "kill"]
    /\ UNCHANGED <<running, mu, url, th>>

-----------------------------------------------------------------------------
(* Prepare and Close.                                                      *)

\* The old server left running: mutant of Swap.
SwapOnly(t) ==
    /\ At(t, "lock") /\ mu = None
    /\ running' = th[t].own
    /\ Goto(t, "set")
    /\ UNCHANGED <<servers, mu, url>>

\* p.mu.Lock: the server that was running is stopped under the lock.
Swap(t) ==
    /\ At(t, "lock") /\ mu = None
    /\ IF running = None
       THEN running' = th[t].own /\ Goto(t, "set") /\ UNCHANGED mu
       ELSE /\ mu' = t
            /\ th' = [th EXCEPT ![t].pc = "stop", ![t].stopping = running, ![t].then = "set"]
            /\ UNCHANGED running
    /\ UNCHANGED <<servers, url>>

\* What follows a Stop: Prepare's error, its swap, or the end of Close.
AfterStop(t) ==
    /\ At(t, "stopped")
    /\ CASE th[t].then = "failed" ->
              /\ IF t = Main THEN Exit ELSE Goto(t, "failed")
              /\ UNCHANGED <<running, mu, url>>
         [] th[t].then = "set" ->
              running' = th[t].own /\ mu' = None /\ Goto(t, "set") /\ UNCHANGED url
         [] th[t].then = "serve" ->
              url' = None /\ Goto(t, "serve") /\ UNCHANGED <<running, mu>>
         [] th[t].then = "exited" -> Exit /\ UNCHANGED <<running, mu, url>>
    /\ UNCHANGED servers

\* setRuntime with the status Prepare returned.
SetRuntime(t) ==
    /\ At(t, "set")
    /\ url' = th[t].own
    /\ th' = [th EXCEPT ![t] = [IdleThread EXCEPT !.pc = IF t = Main THEN "serve" ELSE "idle"]]
    /\ UNCHANGED <<servers, running, mu>>

\* Close: takes the running server from the provider, then stops it.
Close(then) ==
    /\ At(Main, "serve") /\ mu = None
    /\ running' = None
    /\ th' = [th EXCEPT ![Main].pc = IF running = None THEN "stopped" ELSE "stop",
                        ![Main].stopping = running, ![Main].then = then]
    /\ UNCHANGED <<servers, mu, url>>

\* evaluateGuards, after the idle timeout of a pause.
Unload == url # None /\ Close("serve")

\* Run returns.
Shutdown == Close("exited")

\* The goroutines inside Prepare or Close.
Preparing == {t \in Thread : th[t].pc \notin {"idle", "serve", "failed", "exited"}}

\* handleControl "resume": only a runtime that is not ready is prepared.
ResumeCommand(t) ==
    /\ t \in Resume
    /\ At(t, "idle") \/ At(t, "failed")
    /\ ~Exited /\ url = None
    /\ Overlap \/ Preparing = {}
    /\ Goto(t, "launch")
    /\ UNCHANGED <<servers, running, mu, url>>

-----------------------------------------------------------------------------
(* The child processes.                                                    *)

\* The model is loaded and the port bound; a port that is taken ends the server.
Serves(s) ==
    /\ servers[s].st = "started"
    /\ servers' = [servers EXCEPT ![s].st = IF Bound(servers[s].port) THEN "exited" ELSE "serving"]
    /\ UNCHANGED <<running, mu, url, th>>

\* An interrupt may be ignored; a kill may not.
Dies(s) ==
    /\ Alive(s)
    /\ CanDie \/ servers[s].signal # "none"
    /\ servers' = [servers EXCEPT ![s].st = "exited"]
    /\ UNCHANGED <<running, mu, url, th>>

Init ==
    /\ servers = [s \in Server |-> NotStarted]
    /\ running = None /\ mu = None /\ url = None
    /\ th = [t \in Thread |-> [IdleThread EXCEPT !.pc = IF t = Main THEN "launch" ELSE "idle"]]

Prepare(t) ==
    \/ Launch(t) \/ LaunchFails(t) \/ Healthy(t) \/ Unhealthy(t)
    \/ Stop(t) \/ Stopped(t) \/ StopTimeout(t)
    \/ Swap(t) \/ AfterStop(t) \/ SetRuntime(t)

Next ==
    \/ \E t \in Thread : Prepare(t) \/ ResumeCommand(t)
    \/ Unload \/ Shutdown
    \/ \E s \in Server : Serves(s) \/ Dies(s)

Spec == Init /\ [][Next]_vars

\* Goroutines and timers go on, and a killed process ends.
Fairness ==
    /\ \A t \in Thread : WF_vars(Prepare(t))
    /\ \A s \in Server : WF_vars(Dies(s) /\ servers[s].signal = "kill")

-----------------------------------------------------------------------------
(* Properties.                                                             *)

\* Servers, lock and goroutines are what they can be: whoever holds the provider's
\* mutex is inside Prepare's swap.
TypeOK ==
    /\ running \in Server \cup {None} /\ url \in Server \cup {None}
    /\ mu \in Thread \cup {None}
    /\ mu # None => th[mu].then = "set" /\ th[mu].pc \in {"stop", "wait", "stopped"}
    /\ \A s \in Server : servers[s].st = "none" => servers[s] = NotStarted

\* While no call is under way, the only server alive is the one the provider knows,
\* whatever failed starts and swaps came before (local_runtime.go Prepare, Close;
\* launcher.go StartLlamaServer stops a server that does not become healthy).
OneServer == Preparing = {} /\ ~Exited => \A s \in Server : Alive(s) => s = running

\* While no call is under way, the agent sends its jobs to the server that runs, and
\* that server was not stopped (agent.go setRuntime after Prepare).
UrlIsRunning ==
    Preparing = {} /\ ~Exited => url = running /\ (url # None => servers[url].signal = "none")

\* "Health check and cleanup work": when the agent has ended, no server is left.
ExitLeavesNoServer == Exited => \A s \in Server : ~Alive(s)

\* A health check is answered by the server it is meant for: one that Prepare hands
\* out serves its port itself or has just exited (launcher.go waitForHealth, "Loaded
\* model matches manifest").
HealthyIsMine ==
    \A t \in Thread : At(t, "lock") =>
        ~\E s \in Server \ {th[t].own} : servers[s].st = "serving" /\ servers[s].port = servers[th[t].own].port

\* A server that is being stopped ends, also one that ignores the interrupt
\* (launcher.go Stop kills after the timeout).
StopEnds == \A t \in Thread : At(t, "wait") ~> ~At(t, "wait")

\* "Node calls local endpoints every 10 seconds: Runtime process alive": the agent
\* does not keep a server that has exited as its runtime for ever.
DeadServerNoticed ==
    \A s \in Server : (url = s /\ ~Alive(s)) ~> (url # s \/ Exited)
=============================================================================
