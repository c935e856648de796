------------------------------- MODULE MCNode -------------------------------
(***************************************************************************)
(* The programs on a host's machine for TLC, in one run.  Their modules    *)
(* share no variable, so that interleaving them would add no behaviour of  *)
(* any of them: "part" picks the one that takes the steps of a behaviour,  *)
(* and the others are absent.                                              *)
(***************************************************************************)
EXTENDS Integers, Sequences, FiniteSets, TLC

CONSTANTS
    p1, p2,  \* offers, ports or servers that are alike
    None,
    Off      \* the value of a variable of an absent component

VARIABLES
    part,
    (* NodeAgent *)      state, pauseRequested, pausedAt, runtimeStatus, running, scheduleState,
                         thermalState, activeJobID, activeJobCancel, main, session, reading,
                         reader, monitor, resume, token, temp, inWindow, ctxDone, said,
    (* RuntimeProcess *) servers, serving, mu, url, th,
    (* RuntimeManager *) dirs, current, previous, proc, crashes, before,
    (* ModelCache *)     data, partial, final, recent, license, loads, stops, ignored,
    (* SelfUpdate *)     binary, retained, upd, breaks,
    (* HostSetup *)      host, down, net, folder, report, cfg, asked, node

Alike == Permutations({p1, p2})
Two   == {p1, p2}
Empty == {}

-----------------------------------------------------------------------------
(* NodeAgent: sessions are lost and two offers come while the host pauses; a  *)
(* host that pauses and resumes, in and out of the work window; and one that  *)
(* stops the agent, where runtimes fail.  The limits are the defaults.        *)

Slots1 == {"s1"}
Slots2 == {"s1", "s2"}
Offers1 == {"o1"}
Resumers1 == {"r1"}
Cool   == {70}
Always == {TRUE}

Jobs == INSTANCE NodeAgent WITH
    Slot <- Slots2, Offer <- Two, Resumer <- Empty, CanPause <- TRUE, CanStop <- FALSE,
    CanLose <- TRUE, TokenAges <- FALSE, Temps <- Cool, Windows <- Always,
    MaxTempC <- 78, HardTempC <- 88, ThermalHysteresis <- 5
Pausing == INSTANCE NodeAgent WITH
    Slot <- Slots1, Offer <- Offers1, Resumer <- Resumers1, CanPause <- TRUE, CanStop <- FALSE,
    CanLose <- FALSE, TokenAges <- FALSE, Temps <- Cool, Windows <- BOOLEAN,
    MaxTempC <- 78, HardTempC <- 88, ThermalHysteresis <- 5
Stopping == INSTANCE NodeAgent WITH
    Slot <- Slots1, Offer <- Offers1, Resumer <- Resumers1, CanPause <- TRUE, CanStop <- TRUE,
    CanLose <- TRUE, TokenAges <- FALSE, Temps <- Cool, Windows <- Always,
    MaxTempC <- 78, HardTempC <- 88, ThermalHysteresis <- 5

-----------------------------------------------------------------------------
(* RuntimeProcess: a resume command comes while another call prepares; one    *)
(* at a time; and none.                                                      *)

Servers2 == {"s1", "s2"}
Servers3 == {"s1", "s2", "s3"}
Threads1 == {"t1"}

Swapping == INSTANCE RuntimeProcess WITH
    Main <- "main", Resume <- Threads1, Overlap <- TRUE, Server <- Servers3, Port <- Two,
    CanDie <- TRUE, running <- serving
InTurn == INSTANCE RuntimeProcess WITH
    Main <- "main", Resume <- Threads1, Overlap <- FALSE, Server <- Servers3, Port <- Two,
    CanDie <- TRUE, running <- serving
Exiting == INSTANCE RuntimeProcess WITH
    Main <- "main", Resume <- Empty, Overlap <- FALSE, Server <- Servers2, Port <- Two,
    CanDie <- TRUE, running <- serving

-----------------------------------------------------------------------------
(* RuntimeManager: two signed releases and one that is not.                   *)

Process1 == {"p"}
Runtimes == {"r1", "r2", "r4"}
Signed1  == {"r1", "r2"}
Dirs     == [r \in Runtimes |-> r]

Runtime == INSTANCE RuntimeManager WITH
    Proc <- Process1, Release <- Runtimes, Signed <- Signed1, DirOf <- Dirs,
    CanRollback <- TRUE, MaxCrash <- 3, CanFail <- TRUE

-----------------------------------------------------------------------------
(* ModelCache: artifacts of one, two and three blocks in a cache of three.    *)

Artifacts1 == {"m1", "m2", "m3"}
Sizes      == [m \in Artifacts1 |-> CASE m = "m1" -> 2 [] m = "m2" -> 1 [] m = "m3" -> 3]
Inodes     == {"i1", "i2", "i3"}

Cache == INSTANCE ModelCache WITH
    Proc <- Process1, Model <- Artifacts1, Inode <- Inodes, Size <- Sizes, QuotaBytes <- 3,
    MaxCrash <- 1, CanCut <- TRUE, CanCorrupt <- TRUE, MaxIgnore <- 0, CanFail <- TRUE,
    proc <- loads, crashes <- stops

-----------------------------------------------------------------------------
(* SelfUpdate: "r1" and "r2" are signed, "r3" is not.                         *)

Updates == {"r1", "r2", "r3"}

Update == INSTANCE SelfUpdate WITH
    Proc <- Process1, Release <- Updates, Genuine <- Signed1, First <- "r0",
    CanCorrupt <- TRUE, CanFail <- TRUE, MaxCrash <- 2,
    current <- binary, previous <- retained, crashes <- breaks

-----------------------------------------------------------------------------
(* HostSetup: machines with the cards hosts have, and the shipped catalog.    *)

Card(vendor, vram, adapter, discrete, plain) ==
    [vendor |-> vendor, vram |-> vram, adapter |-> adapter, discrete |-> discrete, plain |-> plain]
Rtx8   == Card("nvidia", 8, 4, TRUE, TRUE)
Rtx12  == Card("nvidia", 12, 0, TRUE, TRUE)
RtxNA  == Card("nvidia", 12, 4, TRUE, FALSE)   \* nvidia-smi has [N/A] for its power limit
Gtx2   == Card("nvidia", 2, 2, TRUE, TRUE)
Radeon == Card("amd", 16, 4, TRUE, FALSE)
Intel  == Card("intel", 1, 1, FALSE, FALSE)
Metal  == Card("apple", 0, 0, FALSE, FALSE)

Windows(cards, ram, disk) ==
    [platform |-> "windows/amd64", cards |-> cards, ram |-> ram, disk |-> disk]
Mac(ram) == [platform |-> "darwin/arm64", cards |-> <<Metal>>, ram |-> ram, disk |-> 100]
Linux    == [platform |-> "linux/amd64", cards |-> <<Rtx12>>, ram |-> 32, disk |-> 100]
Machines == {Windows(<<Intel, Rtx8>>, 15, 40), Windows(<<Rtx12, Gtx2>>, 32, 40),
             Windows(<<Rtx8, Rtx8>>, 32, 100), Windows(<<RtxNA>>, 32, 100),
             Windows(<<Radeon>>, 64, 100), Windows(<<Intel>>, 16, 40),
             Windows(<<Rtx8>>, 4, 40), Mac(16), Linux}

\* The manifests of models/catalog, in the binary and in a folder of another order.
ManifestOf(name, id, vram, ram, disk, listing, valid) ==
    [name |-> name, id |-> id, vram |-> vram, ram |-> ram, disk |-> disk, listing |-> listing,
     valid |-> valid]
L3  == ManifestOf(1, "3b", 8, 8, 6, "waitlist", TRUE)
Q14 == ManifestOf(2, "14b", 11, 15, 14, "waitlist", TRUE)
Q32 == ManifestOf(3, "32b", 23, 30, 26, "waitlist", TRUE)
Q7  == ManifestOf(4, "7b", 8, 15, 12, "waitlist", TRUE)
C7  == ManifestOf(5, "coder", 8, 15, 12, "waitlist", TRUE)
Sm  == ManifestOf(6, "small", 8, 16, 12, "live", FALSE)
Ti  == ManifestOf(7, "tiny", 0, 2, 1, "hidden", TRUE)
Shipped == <<L3, Q14, Q32, Q7, C7, Sm, Ti>>
Folders1 == {<<>>, <<Ti, C7, Q7, L3, Q14>>}

Builds == {<<"darwin/arm64", "">>, <<"windows/amd64", "">>, <<"windows/amd64", "cuda">>,
           <<"windows/amd64", "vulkan">>}
Reached == {[https |-> "2xx to 4xx", wss |-> "101"], [https |-> "5xx", wss |-> "no answer"]}
Probed == {"nvidia-smi", "wmi", "profiler", "memsize", "ram", "disk"}
Asked  == {"", "14b"}

Setup == INSTANCE HostSetup WITH
    Hosts <- Machines, Nets <- Reached, Probes <- Probed, Folders <- Folders1,
    Embedded <- Shipped, Artifacts <- Builds, Requests <- Asked

-----------------------------------------------------------------------------
(* The composition.                                                          *)

ASSUME PartsAssumption ==
    /\ Jobs!AgentAssumption /\ Pausing!AgentAssumption /\ Stopping!AgentAssumption
    /\ Swapping!ProcessAssumption /\ InTurn!ProcessAssumption /\ Exiting!ProcessAssumption
    /\ Runtime!RuntimeAssumption /\ Cache!CacheAssumption /\ Update!UpdateAssumption
    /\ Setup!HostAssumption

agentVars == <<state, pauseRequested, pausedAt, runtimeStatus, running, scheduleState,
               thermalState, activeJobID, activeJobCancel, main, session, reading, reader,
               monitor, resume, token, temp, inWindow, ctxDone, said>>
processVars == <<servers, serving, mu, url, th>>
runtimeVars == <<dirs, current, previous, proc, crashes, before>>
cacheVars == <<data, partial, final, recent, license, loads, stops, ignored>>
updateVars == <<binary, retained, upd, breaks>>
setupVars == <<host, down, net, folder, report, cfg, asked, node>>
vars == <<part, agentVars, processVars, runtimeVars, cacheVars, updateVars, setupVars>>

agentOff ==
    /\ state = Off /\ pauseRequested = Off /\ pausedAt = Off /\ runtimeStatus = Off
    /\ running = Off /\ scheduleState = Off /\ thermalState = Off /\ activeJobID = Off
    /\ activeJobCancel = Off /\ main = Off /\ session = Off /\ reading = Off /\ reader = Off
    /\ monitor = Off /\ resume = Off /\ token = Off /\ temp = Off /\ inWindow = Off
    /\ ctxDone = Off /\ said = Off
processOff ==
    /\ servers = Off /\ serving = Off /\ mu = Off /\ url = Off /\ th = Off
runtimeOff ==
    /\ dirs = Off /\ current = Off /\ previous = Off /\ proc = Off /\ crashes = Off
    /\ before = Off
cacheOff ==
    /\ data = Off /\ partial = Off /\ final = Off /\ recent = Off /\ license = Off
    /\ loads = Off /\ stops = Off /\ ignored = Off
updateOff ==
    /\ binary = Off /\ retained = Off /\ upd = Off /\ breaks = Off
setupOff ==
    /\ host = Off /\ down = Off /\ net = Off /\ folder = Off /\ report = Off /\ cfg = Off
    /\ asked = Off /\ node = Off

Init ==
    /\ part \in {"jobs", "pausing", "stopping", "swapping", "in turn", "exiting", "runtime",
                 "cache", "update", "setup"}
    /\ CASE part = "jobs" -> Jobs!Init
         [] part = "pausing" -> Pausing!Init
         [] part = "stopping" -> Stopping!Init [] OTHER -> agentOff
    /\ CASE part = "swapping" -> Swapping!Init
         [] part = "in turn" -> InTurn!Init
         [] part = "exiting" -> Exiting!Init [] OTHER -> processOff
    /\ CASE part = "runtime" -> Runtime!Init [] OTHER -> runtimeOff
    /\ CASE part = "cache" -> Cache!Init [] OTHER -> cacheOff
    /\ CASE part = "update" -> Update!Init [] OTHER -> updateOff
    /\ CASE part = "setup" -> Setup!Init [] OTHER -> setupOff

Next ==
    /\ part' = part
    /\ \/ /\ part \in {"jobs", "pausing", "stopping"}
          /\ UNCHANGED <<processVars, runtimeVars, cacheVars, updateVars, setupVars>>
          /\ \/ part = "jobs" /\ Jobs!Next
             \/ part = "pausing" /\ Pausing!Next
             \/ part = "stopping" /\ Stopping!Next
       \/ /\ part \in {"swapping", "in turn", "exiting"}
          /\ UNCHANGED <<agentVars, runtimeVars, cacheVars, updateVars, setupVars>>
          /\ \/ part = "swapping" /\ Swapping!Next
             \/ part = "in turn" /\ InTurn!Next
             \/ part = "exiting" /\ Exiting!Next
       \/ /\ part = "runtime"
          /\ UNCHANGED <<agentVars, processVars, cacheVars, updateVars, setupVars>>
          /\ Runtime!Next
       \/ /\ part = "cache"
          /\ UNCHANGED <<agentVars, processVars, runtimeVars, updateVars, setupVars>>
          /\ Cache!Next
       \/ /\ part = "update"
          /\ UNCHANGED <<agentVars, processVars, runtimeVars, cacheVars, setupVars>>
          /\ Update!Next
       \/ /\ part = "setup"
          /\ UNCHANGED <<agentVars, processVars, runtimeVars, cacheVars, updateVars>>
          /\ Setup!Next

Spec == Init /\ [][Next]_vars

-----------------------------------------------------------------------------
(* Properties.                                                               *)

\* The variables of the part at work have their types: files, fields and goroutines
\* are what they can be, and only a goroutine inside a swap holds the mutex.
TypeOK ==
    /\ part = "jobs" => Jobs!TypeOK
    /\ part = "pausing" => Pausing!TypeOK
    /\ part = "stopping" => Stopping!TypeOK
    /\ part = "swapping" => Swapping!TypeOK
    /\ part = "in turn" => InTurn!TypeOK
    /\ part = "exiting" => Exiting!TypeOK
    /\ part = "runtime" => Runtime!TypeOK
    /\ part = "cache" => Cache!TypeOK
    /\ part = "update" => Update!TypeOK
    /\ part = "setup" => Setup!TypeOK

\* The state the agent reports tells whether it works: BUSY, AVAILABLE and IDLE without a
\* resume command, PAUSED always.
StateIsHonest ==
    /\ part = "jobs" => Jobs!StateTellsJob
    /\ part = "jobs" => Jobs!PausedMeansIdle
    /\ part = "pausing" => Pausing!PausedMeansIdle
    /\ part = "stopping" => Stopping!PausedMeansIdle

\* The agent has one server, the one it sends its jobs to, and none when it has ended.
ServerIsOwned ==
    /\ part = "swapping" => Swapping!OneServer
    /\ part = "in turn" => InTurn!OneServer
    /\ part = "in turn" => InTurn!UrlIsRunning
    /\ part = "exiting" => Exiting!ExitLeavesNoServer

\* Whatever step of Ensure or Rollback a process stopped at, the marker, current.json
\* and previous.json name only runtimes that are there and whole.
RuntimeInstalled == part = "runtime" => Runtime!RuntimeInstalled

\* A model that Ensure and EnsureLicense prepared is whole, still there, licensed, and
\* within the quota.
CacheSound == part = "cache" => Cache!CacheSound

\* Update installs nothing but verified releases, and promoteBinary leaves a binary
\* wherever it stops, and the old one when it fails.
UpdateSafe == part = "update" => Update!UpdateSafe

\* What doctor promises start keeps, and SelectModel chooses what the machine can run.
SelectionFits == part = "setup" => Setup!SelectionFits
=============================================================================
