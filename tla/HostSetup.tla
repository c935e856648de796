----------------------------- MODULE HostSetup -----------------------------
(***************************************************************************)
(* How a host is judged and set up: `thirdshift doctor`, which probes the  *)
(* machine and reports whether it may host, and `thirdshift start`, which  *)
(* probes it again and from that picks the model and the build of the      *)
(* runtime.  Between two commands cards are changed, disks fill up and     *)
(* probes answer or fail.                                                  *)
(*                                                                         *)
(* A host is its platform, its display adapters in the order in which      *)
(* Windows lists them, and its memory and disk.  Sizes are in GB.  A card  *)
(* has a vendor, its true memory, the AdapterRAM Windows says it has, and  *)
(* says whether it is discrete and whether nvidia-smi gives numbers in     *)
(* all the columns of its row (plain).                                     *)
(***************************************************************************)
EXTENDS Integers, Sequences, FiniteSets, FiniteSetsExt, SequencesExt, TLC

CONSTANTS
    Hosts,      \* the hosts a machine may become when its parts are changed
    Nets,       \* what the two reachability checks may meet
    Probes,     \* the probes that may fail
    Folders,    \* the catalog folders: manifests in directory order, <<>> when missing
    Embedded,   \* the catalog compiled into the binary
    Artifacts,  \* the artifact keys of the runtime release
    Requests    \* values of --model

HostAssumption ==
    /\ \A h \in Hosts : {"platform", "cards", "ram", "disk"} = DOMAIN h
    /\ Len(Embedded) > 0

VARIABLES
    host,    \* the machine
    down,    \* the probes that fail now
    net,     \* what the reachability checks meet
    folder,  \* the catalog folder
    report,  \* the report of the last doctor on the machine as it is, or NoReport
    cfg,     \* the model the configuration remembers
    asked,   \* the models --model ever named (history)
    node     \* the node as last started

vars == <<host, down, net, folder, report, cfg, asked, node>>

Unknown == 0 - 1   \* VRAMUnknown, VRAMUnmeasured

MinimumVRAM == 8
MinimumRAM  == 15
MinimumDisk == 40

NoReport == [overall |-> "none", vendor |-> "none"]
Stopped  == [state |-> "stopped"]

OS == IF host.platform \in {"windows/amd64", "windows/arm64"} THEN "windows"
      ELSE IF host.platform \in {"darwin/arm64", "darwin/amd64"} THEN "darwin" ELSE "linux"

Works(probe) == probe \notin down

-----------------------------------------------------------------------------
(* Probes.                                                                 *)

CardsOf(vendor) == SelectSeq(host.cards, LAMBDA c : c.vendor = vendor)

\* One row that does not parse fails the whole query.
DetectNvidiaGPUs ==
    LET rows == CardsOf("nvidia")
    IN  IF Works("nvidia-smi") /\ \A i \in DOMAIN rows : rows[i].plain THEN rows ELSE <<>>

DetectWindowsVideoControllers == IF Works("wmi") THEN host.cards ELSE <<>>

DetectAppleGPUs == IF Works("profiler") THEN host.cards ELSE <<>>

VendorForController(c) == IF c.vendor \in {"nvidia", "amd"} THEN c.vendor ELSE "unknown"

\* AdapterRAM of 4 GB and above has wrapped.
AdapterVRAM(c) == IF c.adapter <= 0 \/ c.adapter >= 4 THEN Unknown ELSE c.adapter

\* The first NVIDIA or AMD adapter, else the first one.
SelectPrimaryController(controllers) ==
    LET known == SelectSeq(controllers, LAMBDA c : VendorForController(c) # "unknown")
    IN  IF known # <<>> THEN known[1] ELSE controllers[1]

SelectAppleGPU(gpus) == SelectSeq(gpus, LAMBDA g : g.vendor = "apple")

AppleGPUMemoryBudget(total) == IF total <= 0 THEN Unknown ELSE (total * 65) \div 100

\* Unified memory is the RAM of the machine, read by a probe of its own.
AppleBudget == IF Works("memsize") THEN AppleGPUMemoryBudget(host.ram) ELSE Unknown

LargestVRAM(gpus) == Max({Unknown} \cup {gpus[i].vram : i \in DOMAIN gpus})

-----------------------------------------------------------------------------
(* thirdshift doctor.                                                      *)

checkPlatform ==
    IF host.platform \in {"windows/amd64", "darwin/arm64"} THEN "pass" ELSE "unsupported"

\* The checks of the GPU, with what was found: [gpus, vendor, statuses].
checkNvidia ==
    LET gpus == DetectNvidiaGPUs
    IN  CASE OS # "windows" -> [gpus |-> <<>>, vendor |-> "unknown", checks |-> {"unsupported"}]
          [] OS = "windows" /\ gpus = <<>> ->
                [gpus |-> <<>>, vendor |-> "unknown", checks |-> {"fail"}]
          [] OTHER -> [gpus |-> gpus, vendor |-> "nvidia",
                       checks |-> IF LargestVRAM(gpus) < MinimumVRAM THEN {"pass", "fail"}
                                  ELSE {"pass"}]

checkApple ==
    [gpus |-> SelectAppleGPU(DetectAppleGPUs), vendor |-> "apple",
     checks |-> CASE AppleBudget <= 0 -> {"pass", "warn"}
                  [] AppleBudget > 0 /\ AppleBudget < MinimumVRAM -> {"pass", "fail"}
                  [] OTHER -> {"pass"}]

checkAMD ==
    LET controllers == DetectWindowsVideoControllers
        vram == AdapterVRAM(SelectPrimaryController(controllers))
    IN  [gpus |-> controllers, vendor |-> "amd",
         checks |-> IF vram >= MinimumVRAM THEN {"pass"} ELSE {"pass", "warn"}]

\* NVIDIA first; then Apple on macOS, AMD on Windows; else what NVIDIA gave.
checkGPU ==
    LET controllers == DetectWindowsVideoControllers
    IN  CASE checkNvidia.gpus # <<>> -> checkNvidia
          [] OS = "darwin" /\ SelectAppleGPU(DetectAppleGPUs) # <<>> -> checkApple
          [] /\ OS = "windows" /\ checkNvidia.gpus = <<>> /\ controllers # <<>>
             /\ VendorForController(SelectPrimaryController(controllers)) = "amd" -> checkAMD
          [] OTHER -> checkNvidia

\* The memory is not compared: mutant of checkRAM.
checkRAMUnread == IF ~Works("ram") THEN "warn" ELSE "pass"

checkRAM == IF ~Works("ram") THEN "warn" ELSE IF host.ram < MinimumRAM THEN "fail" ELSE "pass"

checkDisk == IF ~Works("disk") THEN "warn" ELSE IF host.disk < MinimumDisk THEN "fail" ELSE "pass"

checkHTTPS == CASE net.https = "unset" -> "skipped"
                [] net.https = "2xx to 4xx" -> "pass"
                [] net.https \in {"invalid", "unreachable", "5xx"} -> "fail"

checkWSS == CASE net.wss = "unset" -> "skipped"
              [] net.wss = "101" -> "pass"
              [] net.wss \in {"invalid", "unreachable", "no answer", "not 101"} -> "fail"

overallStatus(checks) ==
    CASE "fail" \in checks -> "fail"
      [] "fail" \notin checks /\ "unsupported" \in checks -> "unsupported"
      [] checks \cap {"fail", "unsupported"} = {} /\ checks \cap {"warn", "skipped"} # {} -> "warn"
      [] OTHER -> "pass"

RunDoctor ==
    /\ report' = [overall |-> overallStatus({checkPlatform, checkRAM, checkDisk, checkHTTPS, checkWSS}
                                              \cup checkGPU.checks),
                  vendor |-> checkGPU.vendor]
    /\ UNCHANGED <<host, down, net, folder, cfg, asked, node>>

-----------------------------------------------------------------------------
(* The model.                                                              *)

\* What start measures; RAM and disk must be readable.
DetectHostResources ==
    LET nvidia == DetectNvidiaGPUs
        apple  == SelectAppleGPU(DetectAppleGPUs)
        adapters == DetectWindowsVideoControllers
        primary  == SelectPrimaryController(adapters)
        largest  == SelectSeq(nvidia, LAMBDA g : \A i \in DOMAIN nvidia : nvidia[i].vram <= g.vram)
        gpu == CASE nvidia # <<>> ->
                       [vendor |-> "nvidia", vram |-> LargestVRAM(nvidia), card |-> <<largest[1]>>]
                 [] nvidia = <<>> /\ OS = "darwin" /\ apple # <<>> ->
                       [vendor |-> "apple", vram |-> AppleBudget, card |-> <<apple[1]>>]
                 [] nvidia = <<>> /\ OS = "windows" /\ adapters # <<>> ->
                       [vendor |-> VendorForController(primary), vram |-> AdapterVRAM(primary),
                        card |-> <<primary>>]
                 [] OTHER -> [vendor |-> "unknown", vram |-> Unknown, card |-> <<>>]
    IN  [ok |-> Works("ram") /\ Works("disk"), vendor |-> gpu.vendor, vram |-> gpu.vram,
         card |-> gpu.card, ram |-> host.ram, disk |-> host.disk]

\* The folder's manifests when it has any, else those of the binary.
catalogManifestNames == IF folder # <<>> THEN folder ELSE Embedded

\* Those that parse and are not hidden.
LoadSelectableManifests ==
    SelectSeq(catalogManifestNames, LAMBDA m : m.valid /\ m.listing # "hidden")

\* What is bigger comes first; the name breaks ties.
Larger(a, b) ==
    \/ a.vram > b.vram
    \/ a.vram = b.vram /\ a.ram > b.ram
    \/ a.vram = b.vram /\ a.ram = b.ram /\ a.name < b.name

bySizeDescending(manifests) == SortSeq(manifests, Larger)

UnmeasuredVRAMFloor == 8

Fits(m, have) ==
    /\ m.vram <= (IF have.vram > 0 THEN have.vram ELSE UnmeasuredVRAMFloor)
    /\ have.ram > 0 => m.ram <= have.ram
    /\ have.disk > 0 => m.disk <= have.disk

\* The manifest selected, in a sequence of one; <<>> when none fits.
SelectModel(manifests, have) ==
    LET candidates == SelectSeq(manifests, LAMBDA m : m.listing # "hidden")
        fitting == SelectSeq(bySizeDescending(candidates), LAMBDA m : Fits(m, have))
    IN  IF fitting = <<>> THEN <<>> ELSE <<fitting[1]>>

ResolveModel(requested, manifests, have) ==
    IF requested \in {"", "auto"} THEN SelectModel(manifests, have)
    ELSE LET named == SelectSeq(manifests, LAMBDA m : m.id = requested)
         IN  IF named # <<>> /\ Fits(named[1], have) THEN <<named[1]>> ELSE <<>>

-----------------------------------------------------------------------------
(* The runtime.                                                            *)

BackendForVendor(vendor) ==
    CASE vendor = "nvidia" -> "cuda" [] vendor = "apple" -> "" [] OTHER -> "vulkan"

\* An artifact key is a platform and a backend, "" for the bare key.
ArtifactKeys(platform, vendor) ==
    LET backend == BackendForVendor(vendor)
    IN  IF backend = "" THEN << <<platform, "">> >>
        ELSE << <<platform, backend>>, <<platform, "">> >>

\* The first key the release has, in a sequence of one.
SelectArtifact(platform, vendor) ==
    LET found == SelectSeq(ArtifactKeys(platform, vendor), LAMBDA key : key \in Artifacts)
    IN  IF found = <<>> THEN <<>> ELSE <<found[1]>>

-----------------------------------------------------------------------------
(* thirdshift start.                                                       *)

\* What a start with this request comes to.
Outcome(requested) ==
    LET have == DetectHostResources
        chosen == ResolveModel(requested, LoadSelectableManifests, have)
        key == SelectArtifact(host.platform, have.vendor)
    IN  IF ~have.ok \/ chosen = <<>> \/ key = <<>>
        THEN [state |-> "refused", requested |-> requested, have |-> have]
        ELSE [state |-> "running", requested |-> requested, model |-> chosen[1], key |-> key[1],
              assumed |-> have.vram <= 0, have |-> have, among |-> LoadSelectableManifests]

\* Only a model that was named is remembered.
Remembered(requested, chosen) ==
    IF chosen = <<>> \/ requested \in {"", "auto"} THEN cfg ELSE chosen[1].id

\* The configuration is saved before the runtime is looked up.
runStart(requested) ==
    LET have == DetectHostResources
        chosen == ResolveModel(requested, LoadSelectableManifests, have)
    IN  /\ node' = Outcome(requested)
        /\ cfg' = IF have.ok THEN Remembered(requested, chosen) ELSE cfg
        /\ asked' = asked \cup ({requested} \ {"", "auto"})
        /\ UNCHANGED <<host, down, net, folder, report>>

-----------------------------------------------------------------------------
(* What happens to the machine.                                            *)

Change(h) ==
    /\ host' = h /\ node' = Stopped /\ report' = NoReport
    /\ UNCHANGED <<down, net, folder, cfg, asked>>

ProbeChanges(probe) ==
    /\ down' = (IF probe \in down THEN down \ {probe} ELSE down \cup {probe})
    /\ report' = NoReport
    /\ UNCHANGED <<host, net, folder, cfg, asked, node>>

SettingsChange(n, f) ==
    /\ net' = n /\ folder' = f /\ report' = NoReport
    /\ UNCHANGED <<host, down, cfg, asked, node>>

Init ==
    /\ host \in Hosts /\ down = {} /\ net \in Nets /\ folder \in Folders
    /\ report = NoReport /\ cfg = "" /\ asked = {} /\ node = Stopped

Next ==
    \/ RunDoctor
    \/ \E r \in Requests : runStart(r)
    \/ \E h \in Hosts : Change(h)
    \/ \E probe \in Probes : ProbeChanges(probe)
    \/ \E n \in Nets, f \in Folders : SettingsChange(n, f)

Spec == Init /\ [][Next]_vars

-----------------------------------------------------------------------------
(* Properties.                                                             *)

\* The report and the node have their types, and a node never runs a hidden model.
TypeOK ==
    /\ report.overall \in {"none", "pass", "warn", "fail", "unsupported"}
    /\ report.vendor \in {"none", "nvidia", "amd", "apple", "unknown"}
    /\ node.state = "running" => /\ node.model.valid /\ node.model.listing # "hidden"
                                 /\ node.key \in Artifacts

\* A host that passes doctor can start at once: a model fits it and there is a build
\* of the runtime for it, on the GPU vendor doctor named.
DoctorPassStarts ==
    report.overall = "pass" => /\ Outcome("auto").state = "running"
                               /\ Outcome("auto").have.vendor = report.vendor

\* Whatever probes failed, a Windows host without an NVIDIA card never gets the CUDA
\* build, which the bare key also is.
RunsOnItsCard ==
    node.state = "running" /\ OS = "windows" /\ CardsOf("nvidia") = <<>> => node.key[2] = "vulkan"

\* A model whose memory was measured to fit fits one card of the machine, or the
\* budget of an Apple GPU; what was not measured is said to be assumed.
MeasuredFits ==
    node.state = "running" /\ ~node.assumed =>
        \/ \E i \in DOMAIN host.cards : node.model.vram <= host.cards[i].vram
        \/ OS = "darwin" /\ node.model.vram <= AppleGPUMemoryBudget(host.ram)

\* A start that names no model runs the largest model that fits what was measured,
\* in whatever order the catalog lists them and whatever ran before.
AutoPicksLargest ==
    node.state = "running" /\ node.requested \in {"", "auto"} =>
        /\ Fits(node.model, node.have)
        /\ \A i \in DOMAIN node.among :
              Fits(node.among[i], node.have) => ~Larger(node.among[i], node.model)

\* The configuration remembers only a model that was named on the command line.
RemembersOnlyNamed == cfg # "" => cfg \in asked

\* What doctor promises start keeps, and SelectModel chooses what the machine can run.
SelectionFits ==
    /\ DoctorPassStarts /\ RunsOnItsCard /\ MeasuredFits
    /\ AutoPicksLargest /\ RemembersOnlyNamed

\* Doctor and start see the same GPU vendor.
VendorsAgree ==
    report.overall # "none" /\ DetectHostResources.ok => report.vendor = DetectHostResources.vendor

\* A start that names a model is not refused because the memory of the card cannot be
\* measured, when the card can in truth hold the model.
NamedModelRuns ==
    node.state = "refused" /\ node.have.ok /\ node.have.vram <= 0 =>
        ~\E m \in ToSet(LoadSelectableManifests) :
            /\ m.id = node.requested /\ m.ram <= node.have.ram /\ m.disk <= node.have.disk
            /\ \E i \in DOMAIN host.cards : m.vram <= host.cards[i].vram

\* A discrete card is chosen over an integrated one.
DiscreteWins ==
    node.state # "stopped" /\ OS = "windows" /\ (\E i \in DOMAIN host.cards : host.cards[i].discrete) =>
        \A i \in DOMAIN node.have.card : node.have.card[i].discrete
=============================================================================
