----------------------------- MODULE MCNodeLive -----------------------------
(***************************************************************************)
(* What must happen on a host's machine in the end, for TLC, in one run:   *)
(* "part" picks the component that takes the steps of a behaviour, under   *)
(* its own fairness, and the others stay in their initial states.          *)
(***************************************************************************)
EXTENDS Integers, Sequences, FiniteSets

CONSTANT None

VARIABLES
    part,
    (* NodeAgent *)      state, pauseRequested, pausedAt, runtimeStatus, running, scheduleState,
                         thermalState, activeJobID, activeJobCancel, main, session, reading,
                         reader, monitor, resume, token, temp, inWindow, ctxDone, said,
    (* RuntimeProcess *) servers, serving, mu, url, th,
    (* RuntimeManager *) dirs, current, previous, proc, crashes, before,
    (* ModelCache *)     data, partial, final, recent, license, loads, stops, ignored

Empty == {}

-----------------------------------------------------------------------------
(* NodeAgent: one job, with a deadline, a pause and sessions that are lost;   *)
(* and one without a deadline on a card that gets hot.                       *)

Slots  == {"s1"}
Offers == {"o1"}
Cool   == {70}
Heats  == {70, 90}
Always == {TRUE}

Jobs == INSTANCE NodeAgent WITH
    Slot <- Slots, Offer <- Offers, Resumer <- Empty, CanPause <- TRUE, CanStop <- FALSE,
    CanLose <- TRUE, TokenAges <- TRUE, Temps <- Cool, Windows <- Always,
    MaxTempC <- 78, HardTempC <- 88, ThermalHysteresis <- 5
Hot == INSTANCE NodeAgent WITH
    Slot <- Slots, Offer <- Offers, Resumer <- Empty, CanPause <- FALSE, CanStop <- FALSE,
    CanLose <- TRUE, TokenAges <- FALSE, Temps <- Heats, Windows <- Always,
    MaxTempC <- 78, HardTempC <- 88, ThermalHysteresis <- 5

-----------------------------------------------------------------------------
(* RuntimeProcess: a resume command comes while another call prepares.        *)

Servers2 == {"s1", "s2"}
Threads1 == {"t1"}
Ports    == {"port1", "port2"}

Swapping == INSTANCE RuntimeProcess WITH
    Main <- "main", Resume <- Threads1, Overlap <- TRUE, Server <- Servers2, Port <- Ports,
    CanDie <- FALSE, running <- serving

-----------------------------------------------------------------------------
(* RuntimeManager: a release, built again under the same version.             *)

Process1 == {"p"}
Runtimes == {"r1", "r3"}
OneDir   == [r \in Runtimes |-> "d1"]

Runtime == INSTANCE RuntimeManager WITH
    Proc <- Process1, Release <- Runtimes, Signed <- Runtimes, DirOf <- OneDir,
    CanRollback <- FALSE, MaxCrash <- 3, CanFail <- TRUE

-----------------------------------------------------------------------------
(* ModelCache: two artifacts in a cache that holds one of them.               *)

Artifacts1 == {"m1", "m2"}
Sizes      == [m \in Artifacts1 |-> IF m = "m1" THEN 2 ELSE 1]
Inodes     == {"i1", "i2", "i3"}

Cache == INSTANCE ModelCache WITH
    Proc <- Process1, Model <- Artifacts1, Inode <- Inodes, Size <- Sizes, QuotaBytes <- 2,
    MaxCrash <- 0, CanCut <- TRUE, CanCorrupt <- FALSE, MaxIgnore <- 2, CanFail <- TRUE,
    proc <- loads, crashes <- stops

-----------------------------------------------------------------------------
(* The composition.                                                          *)

ASSUME PartsAssumption ==
    /\ Jobs!AgentAssumption /\ Hot!AgentAssumption /\ Swapping!ProcessAssumption
    /\ Runtime!RuntimeAssumption /\ Cache!CacheAssumption

agentVars == <<state, pauseRequested, pausedAt, runtimeStatus, running, scheduleState,
               thermalState, activeJobID, activeJobCancel, main, session, reading, reader,
               monitor, resume, token, temp, inWindow, ctxDone, said>>
processVars == <<servers, serving, mu, url, th>>
runtimeVars == <<dirs, current, previous, proc, crashes, before>>
cacheVars == <<data, partial, final, recent, license, loads, stops, ignored>>
vars == <<part, agentVars, processVars, runtimeVars, cacheVars>>

Init ==
    /\ part \in {"jobs", "hot", "swapping", "runtime", "cache"}
    /\ IF part = "hot" THEN Hot!Init ELSE Jobs!Init
    /\ Swapping!Init
    /\ Runtime!Init
    /\ Cache!Init

Next ==
    /\ part' = part
    /\ \/ /\ part \in {"jobs", "hot"}
          /\ UNCHANGED <<processVars, runtimeVars, cacheVars>>
          /\ \/ part = "jobs" /\ Jobs!Next
             \/ part = "hot" /\ Hot!Next
       \/ /\ part = "swapping"
          /\ UNCHANGED <<agentVars, runtimeVars, cacheVars>>
          /\ Swapping!Next
       \/ /\ part = "runtime"
          /\ UNCHANGED <<agentVars, processVars, cacheVars>>
          /\ Runtime!Next
       \/ /\ part = "cache"
          /\ UNCHANGED <<agentVars, processVars, runtimeVars>>
          /\ Cache!Next

\* The agent is scheduled as its module says.  The fairness of the other parts, and
\* that deadlines pass, are hypotheses of the properties that need them.
FairSpec == Init /\ [][Next]_vars /\ (part \in {"jobs", "hot"} => Jobs!Fairness)

-----------------------------------------------------------------------------
(* Properties.                                                               *)

\* A pause takes effect: the running job ends and the node is PAUSED, or it is
\* resumed.
PauseTakesEffect == part = "jobs" /\ Jobs!DeadlinesPass => Jobs!PauseTakesEffect

\* A node whose coordinator can be reached gets its session back, however long it
\* was away and whether or not it knew when its token would expire.
Reconnects == part = "jobs" /\ Jobs!DeadlinesPass => Jobs!Reconnects

\* A job that was taken is answered, unless its session is gone, and does not go on at
\* the hard limit.
JobsEnd ==
    /\ part = "jobs" /\ Jobs!DeadlinesPass => Jobs!OfferAnswered
    /\ part = "hot" => Hot!HotJobEnds

\* A runtime and a model that are asked for again and again are there in the end,
\* whatever earlier calls left behind, and a server that is stopped ends.
PreparedInTheEnd ==
    /\ part = "runtime" /\ Runtime!Fairness => Runtime!InstallsInTheEnd
    /\ part = "cache" /\ Cache!Fairness => Cache!DownloadsInTheEnd
    /\ part = "swapping" /\ Swapping!Fairness => Swapping!StopEnds
=============================================================================
