--------------------------- MODULE MCCoordinator ---------------------------
(***************************************************************************)
(* The coordinator's components for TLC, in one run (job routing and the   *)
(* races of the ledger have runs of their own).  Their modules share no    *)
(* variable, so that interleaving them would add no behaviour of any of    *)
(* them: "part" picks the component that takes the steps of a behaviour,   *)
(* and the others are absent.                                              *)
(***************************************************************************)
EXTENDS Integers, Sequences, FiniteSets, TLC

CONSTANTS
    p1, p2,  \* database sessions, handlers or requests
    None,
    Off      \* the value of a variable of an absent component

VARIABLES
    part,
    (* Ledger *)       holds, due, entries, batches, items, audit, done, op,
    (* Reputation *)   rep, quarantined, events, attempts, plan, updating, saw,
    (* Catalog *)      models, releases, versions, limits, keys, sync, held, last,
    (* NodeSessions *) nodes, sess, actions, handler, said, sweeper, tx,
    (* Registration *) invites, registered, slots, disk, cmd, agent, set, refused,
    (* PublicAPI *)    asked, paid, told, minute, bucket, records, req, reply, rows, granted,
                       late, recent, overlap,
    (* JobRules *)     stage, request, model, offer, chosen, usage, status

Pairs == Permutations({p1, p2})
Two   == {p1, p2}
Empty == {}

-----------------------------------------------------------------------------
(* Ledger: a credit that the command line and the API pay out at once.       *)

Credits == {"a1"}
JobOf1  == [a \in Credits |-> a]
NodeOf1 == [a \in Credits |-> "n1"]
PaidBy  == [j \in Credits |-> "org1"]
HostOf  == [n \in {"n1"} |-> "o1"]
Prompts == [a \in Credits |-> 4]
Outputs == [a \in Credits |-> 5]
Batch1  == {"b1"}
Both    == {"cli", "api"}

Payouts == INSTANCE Ledger WITH
    Attempt <- Credits, JobOf <- JobOf1, NodeOf <- NodeOf1, Verifying <- Empty,
    CustomerOf <- PaidBy, HostOrgOf <- HostOf, Prompt <- Prompts, Completion <- Outputs,
    InputPrice <- 1000000, OutputPrice <- 1000000, HostPrice <- 500000, Overhead <- 0,
    Batch <- Batch1, Callers <- Both, Proc <- Two, Poster <- Two, CanFail <- TRUE

-----------------------------------------------------------------------------
(* Reputation: results that race for one node, with challenges and an       *)
(* operator who quarantines it; and its timeouts one after the other.        *)

Racing  == {"a1"}
Queued  == {"a1", "a2", "a3"}
OneNode == {"n1"}
OnOne(A) == [a \in A |-> "n1"]
RacingOn == OnOne(Racing)
QueuedOn == OnOne(Queued)

Outcomes == INSTANCE Reputation WITH
    Node <- OneNode, Attempt <- Racing, NodeOf <- RacingOn, Proc <- Two, Scale <- 10000,
    Threshold <- 2, MaxChallenges <- 3, Operates <- TRUE, CanFail <- TRUE, tx <- updating
Rates == INSTANCE Reputation WITH
    Node <- OneNode, Attempt <- Queued, NodeOf <- QueuedOn, Proc <- Two, Scale <- 4,
    Threshold <- 2, MaxChallenges <- 0, Operates <- FALSE, CanFail <- FALSE, tx <- updating

-----------------------------------------------------------------------------
(* Catalog: a directory of three manifests, the next release of it, and one   *)
(* that withdraws a model.                                                   *)

Hashes(r) == [plat \in {"cuda", "vulkan"} |-> <<r, plat>>]
ManifestOf(m, rev, r) ==
    [valid |-> TRUE, complete |-> TRUE, model |-> m, revision |-> rev, sha |-> <<m, rev>>,
     release |-> r, hashes |-> Hashes(r), terms |-> rev, status |-> "active"]
Placeholder == [ManifestOf("small", "r0", "b1") EXCEPT !.valid = FALSE]
TinyNext    == ManifestOf("tiny", "r2", "b1")
Directories == {<<ManifestOf("tiny", "r1", "b1"), Placeholder, ManifestOf("large", "r1", "b1")>>,
                <<TinyNext, [ManifestOf("large", "r2", "b2") EXCEPT !.complete = FALSE]>>,
                <<[TinyNext EXCEPT !.status = "disabled"]>>}
OneKey  == {"k1"}
OneName == {{"tiny"}, {}}
NoHash  == <<"none">>

Syncs == INSTANCE Catalog WITH
    Catalogs <- Directories, Key <- OneKey, Asks <- OneName, Proc <- Two, MaxClock <- 3,
    LegacyHash <- NoHash, CanFail <- TRUE

-----------------------------------------------------------------------------
(* NodeSessions: a node that reconnects while the operator drains it and the *)
(* coordinator stops; one that reports what it does; and one that the        *)
(* operator pauses, drains and quarantines.                                  *)

Report(state, known) == [state |-> state, clear |-> TRUE, hash |-> known]
OnlyReady   == {Report("AVAILABLE", TRUE)}
SomeReports == {Report("AVAILABLE", TRUE), Report("BUSY", TRUE)}
Drains   == {"drain"}
Controls == {"pause", "drain", "quarantine"}

Sessions == INSTANCE NodeSessions WITH
    Node <- OneNode, MaxSessions <- 2, Reports <- OnlyReady, OperatorDoes <- Drains,
    MaxActions <- 1, CanFail <- FALSE, CanCrash <- TRUE, audit <- actions
Reporting == INSTANCE NodeSessions WITH
    Node <- OneNode, MaxSessions <- 2, Reports <- SomeReports, OperatorDoes <- Empty,
    MaxActions <- 0, CanFail <- FALSE, CanCrash <- FALSE, audit <- actions
Operating == INSTANCE NodeSessions WITH
    Node <- OneNode, MaxSessions <- 1, Reports <- OnlyReady, OperatorDoes <- Controls,
    MaxActions <- 2, CanFail <- TRUE, CanCrash <- FALSE, audit <- actions

-----------------------------------------------------------------------------
(* Registration: two machines enrol, the requests of one may be repeated;     *)
(* and one machine that is stopped in the middle of its commands.             *)

Machines == {"m1", "m2"}
Machine1 == {"m1"}
Invites1 == {"i1"}

Enrolling == INSTANCE Registration WITH
    Machine <- Machines, Invite <- Invites1, Slot <- Two, CanStart <- Empty,
    CanConfigure <- Empty, Lossy <- TRUE, CanCrash <- FALSE, CanExpire <- FALSE,
    nodes <- registered
Restarting == INSTANCE Registration WITH
    Machine <- Machine1, Invite <- Invites1, Slot <- Two, CanStart <- Machine1,
    CanConfigure <- Machine1, Lossy <- TRUE, CanCrash <- TRUE, CanExpire <- TRUE,
    nodes <- registered

-----------------------------------------------------------------------------
(* PublicAPI: chat requests "r1" to "r3" with one Idempotency-Key, "r3" with  *)
(* another body, "r4" without a key: repeated, and with faults; asynchronous  *)
(* requests at the limit.                                                     *)

Repeated == {"r1", "r2", "r3"}
Mixed    == {"r1", "r3", "r4"}
Header(R) == [r \in R |-> IF r = "r4" THEN None ELSE "k1"]
Body(R)   == [r \in R |-> IF r = "r3" THEN "b2" ELSE "b1"]
RepeatedHeader == Header(Repeated)
RepeatedBody   == Body(Repeated)
MixedHeader    == Header(Mixed)
MixedBody      == Body(Mixed)
Polled  == {"a1", "a2", "a3", "a4"}
NoTable == Header(Empty)

Replay == INSTANCE PublicAPI WITH
    Job <- Repeated, Async <- Empty, HeaderOf <- RepeatedHeader, BodyOf <- RepeatedBody,
    LimitPerMinute <- 4, MaxMinute <- 0, CanFail <- FALSE, CanExpire <- FALSE
Api == INSTANCE PublicAPI WITH
    Job <- Mixed, Async <- Empty, HeaderOf <- MixedHeader, BodyOf <- MixedBody,
    LimitPerMinute <- 2, MaxMinute <- 0, CanFail <- TRUE, CanExpire <- TRUE
Limiter == INSTANCE PublicAPI WITH
    Job <- Empty, Async <- Polled, HeaderOf <- NoTable, BodyOf <- NoTable, LimitPerMinute <- 1,
    MaxMinute <- 1, CanFail <- FALSE, CanExpire <- FALSE

-----------------------------------------------------------------------------
(* JobRules: requests, limits and reports at and about the boundaries.       *)

Say(role, runes) == [role |-> role, runes |-> runes]
SomeMessages == {<<>>, <<Say("user", 1)>>, <<Say("system", 4), Say("user", 13)>>,
                 <<Say("user", 16)>>, <<Say("tool", 4)>>, <<Say("user", 0)>>}
Plain == [model |-> "m", bytes |-> 100, stream |-> FALSE, tools |-> FALSE,
          messages |-> <<Say("user", 1)>>, max_tokens |-> 1, temperature |-> 7]
SomeRequests ==
    {[Plain EXCEPT !.bytes = b, !.messages = ms, !.max_tokens = n] :
        b \in {100, 262145}, ms \in SomeMessages, n \in {0 - 1, 0, 1, 256, 257, 1024, 1025}}
    \cup {[Plain EXCEPT !.temperature = h, !.model = x, !.stream = s, !.tools = t] :
        h \in {0 - 1, 0, 20, 21}, x \in {"m", "other"}, s \in BOOLEAN, t \in BOOLEAN}

Limits(input, output, bytes) ==
    [id |-> "m", input |-> input, output |-> output, bytes |-> bytes,
     capabilities |-> {"chat_completions"}]
SomeModels == {Limits(4096, 1024, 262144), Limits(4, 256, 100), Limits(0, 0, 0),
               Limits(4096, 2048, 99), [Limits(4096, 1024, 0) EXCEPT !.capabilities = {}]}

Answer(role, runes, prompt, completion, total, millis) ==
    [message |-> TRUE, role |-> role, runes |-> runes, prompt |-> prompt,
     completion |-> completion, total |-> total, millis |-> millis]
SomeCompletions ==
    {[message |-> FALSE], Answer("user", 4, 5, 1, 6, 1000), Answer("assistant", 0, 5, 0, 5, 1000),
     Answer("assistant", 4, 5, 0 - 1, 4, 1000), Answer("assistant", 4, 5, 1, 7, 1000)}
    \cup {Answer("assistant", r, p, c, p + c, ms) :
            r \in {1, 4000}, p \in {1, 200}, c \in {1, 256, 1024, 2064, 2065}, ms \in {0, 1, 1000}}

Candidate(n, s) == [node |-> n, success |-> s]
Fields1 == {<<Candidate(1, 6000), Candidate(2, 6000)>>, <<Candidate(1, 9999), Candidate(2, 6000)>>,
            <<Candidate(1, 6000), Candidate(2, 9999), Candidate(3, 9999)>>}

Rules == INSTANCE JobRules WITH
    Requests <- SomeRequests, Models <- SomeModels, Completions <- SomeCompletions,
    Fields <- Fields1

-----------------------------------------------------------------------------
(* The composition.                                                          *)

ASSUME PartsAssumption ==
    /\ Payouts!LedgerAssumption /\ Outcomes!ReputationAssumption /\ Rates!ReputationAssumption
    /\ Syncs!CatalogAssumption /\ Sessions!SessionsAssumption /\ Reporting!SessionsAssumption
    /\ Operating!SessionsAssumption /\ Enrolling!RegistrationAssumption
    /\ Restarting!RegistrationAssumption /\ Replay!ApiAssumption /\ Api!ApiAssumption
    /\ Limiter!ApiAssumption /\ Rules!RulesAssumption

ledgerVars == <<holds, due, entries, batches, items, audit, done, op>>
reputationVars == <<rep, quarantined, events, attempts, plan, updating, saw>>
catalogVars == <<models, releases, versions, limits, keys, sync, held, last>>
sessionVars == <<nodes, sess, actions, handler, said, sweeper, tx>>
registrationVars == <<invites, registered, slots, disk, cmd, agent, set, refused>>
apiVars == <<asked, paid, told, minute, bucket, records, req, reply, rows, granted, late,
             recent, overlap>>
rulesVars == <<stage, request, model, offer, chosen, usage, status>>
vars == <<part, ledgerVars, reputationVars, catalogVars, sessionVars, registrationVars, apiVars,
          rulesVars>>

ledgerOff ==
    /\ holds = Off /\ due = Off /\ entries = Off /\ batches = Off /\ items = Off /\ audit = Off
    /\ done = Off /\ op = Off
reputationOff ==
    /\ rep = Off /\ quarantined = Off /\ events = Off /\ attempts = Off /\ plan = Off
    /\ updating = Off /\ saw = Off
catalogOff ==
    /\ models = Off /\ releases = Off /\ versions = Off /\ limits = Off /\ keys = Off
    /\ sync = Off /\ held = Off /\ last = Off
sessionOff ==
    /\ nodes = Off /\ sess = Off /\ actions = Off /\ handler = Off /\ said = Off
    /\ sweeper = Off /\ tx = Off
registrationOff ==
    /\ invites = Off /\ registered = Off /\ slots = Off /\ disk = Off /\ cmd = Off
    /\ agent = Off /\ set = Off /\ refused = Off
apiOff ==
    /\ asked = Off /\ paid = Off /\ told = Off /\ minute = Off /\ bucket = Off /\ records = Off
    /\ req = Off /\ reply = Off /\ rows = Off /\ granted = Off /\ late = Off /\ recent = Off
    /\ overlap = Off
rulesOff ==
    /\ stage = Off /\ request = Off /\ model = Off /\ offer = Off /\ chosen = Off /\ usage = Off
    /\ status = Off

Init ==
    /\ part \in {"payouts", "outcomes", "rates", "catalog", "sessions", "reporting",
                 "operating", "enrolling", "restarting", "replay", "api", "limiter", "rules"}
    /\ CASE part = "payouts" -> Payouts!Init [] OTHER -> ledgerOff
    /\ CASE part = "outcomes" -> Outcomes!Init
         [] part = "rates" -> Rates!Init [] OTHER -> reputationOff
    /\ CASE part = "catalog" -> Syncs!Init [] OTHER -> catalogOff
    /\ CASE part = "sessions" -> Sessions!Init
         [] part = "reporting" -> Reporting!Init
         [] part = "operating" -> Operating!Init [] OTHER -> sessionOff
    /\ CASE part = "enrolling" -> Enrolling!Init
         [] part = "restarting" -> Restarting!Init [] OTHER -> registrationOff
    /\ CASE part = "replay" -> Replay!Init
         [] part = "api" -> Api!Init
         [] part = "limiter" -> Limiter!Init [] OTHER -> apiOff
    /\ CASE part = "rules" -> Rules!Init [] OTHER -> rulesOff

Next ==
    /\ part' = part
    /\ \/ /\ part = "payouts"
          /\ UNCHANGED <<reputationVars, catalogVars, sessionVars, registrationVars, apiVars,
                         rulesVars>>
          /\ Payouts!Next
       \/ /\ part \in {"outcomes", "rates"}
          /\ UNCHANGED <<ledgerVars, catalogVars, sessionVars, registrationVars, apiVars,
                         rulesVars>>
          /\ \/ part = "outcomes" /\ Outcomes!Next
             \/ part = "rates" /\ Rates!Next
       \/ /\ part = "catalog"
          /\ UNCHANGED <<ledgerVars, reputationVars, sessionVars, registrationVars, apiVars,
                         rulesVars>>
          /\ Syncs!Next
       \/ /\ part \in {"sessions", "reporting", "operating"}
          /\ UNCHANGED <<ledgerVars, reputationVars, catalogVars, registrationVars, apiVars,
                         rulesVars>>
          /\ \/ part = "sessions" /\ Sessions!Next
             \/ part = "reporting" /\ Reporting!Next
             \/ part = "operating" /\ Operating!Next
       \/ /\ part \in {"enrolling", "restarting"}
          /\ UNCHANGED <<ledgerVars, reputationVars, catalogVars, sessionVars, apiVars,
                         rulesVars>>
          /\ \/ part = "enrolling" /\ Enrolling!Next
             \/ part = "restarting" /\ Restarting!Next
       \/ /\ part \in {"replay", "api", "limiter"}
          /\ UNCHANGED <<ledgerVars, reputationVars, catalogVars, sessionVars, registrationVars,
                         rulesVars>>
          /\ \/ part = "replay" /\ Replay!Next
             \/ part = "api" /\ Api!Next
             \/ part = "limiter" /\ Limiter!Next
       \/ /\ part = "rules"
          /\ UNCHANGED <<ledgerVars, reputationVars, catalogVars, sessionVars, registrationVars,
                         apiVars>>
          /\ Rules!Next

Spec == Init /\ [][Next]_vars

-----------------------------------------------------------------------------
(* Properties.                                                               *)

\* The variables of the part at work have their types: rows hold what their CHECK
\* constraints and enumerations allow, and nobody idle holds a lock.
TypeOK ==
    /\ part = "payouts" => Payouts!TypeOK
    /\ part = "outcomes" => Outcomes!TypeOK
    /\ part = "rates" => Rates!TypeOK
    /\ part = "catalog" => Syncs!TypeOK
    /\ part = "sessions" => Sessions!TypeOK
    /\ part = "reporting" => Reporting!TypeOK
    /\ part = "operating" => Operating!TypeOK
    /\ part = "enrolling" => Enrolling!TypeOK
    /\ part = "restarting" => Restarting!TypeOK
    /\ part = "replay" => Replay!TypeOK
    /\ part = "api" => Api!TypeOK
    /\ part = "limiter" => Limiter!TypeOK
    /\ part = "rules" => Rules!TypeOK

\* What the tables say of a node's reputation is what happened to it, and the number of
\* timeouts, which is not stored, is recovered from its rounded rate.
ReputationIsTrue ==
    /\ part = "outcomes" => Outcomes!ReputationIsTrue
    /\ part = "rates" => Rates!TimeoutsRecovered

\* Syncs that race, fail or go back to an earlier catalog end, and leave one catalog:
\* all of it stored, shown as it was written, and served by the nodes that run it.
CatalogAgrees == part = "catalog" => Syncs!CatalogAgrees

\* The scheduler's candidates are nodes that said they can work, and the public page and
\* /v1/models, which join other sessions of a node, agree with it.
OfferedIsAvailable ==
    /\ part = "reporting" => Reporting!CandidateSaidAvailable
    /\ part = "sessions" => Sessions!PublicNeverOverstates
    /\ part = "operating" => Operating!PublicNeverOverstates

\* Invites and bootstrap tokens are used once (RegisterNode, ConsumeBootstrap),
\* whoever presents them and however often.
TokensOnce == part = "enrolling" => Enrolling!TokensOnce

\* The key a node was registered with stays on its machine, and the credentials stored
\* there are of a node with that key.
KeysKept ==
    /\ part = "enrolling" => Enrolling!CredentialsMatchKey
    /\ part = "restarting" => Restarting!RegisteredKeyKept

\* A caller's answer is that of a charged job, requests of one key that follow one another
\* have one answer, and one that comes after the answer runs nothing.
AnswersAreRight ==
    /\ part = "api" => Api!AnswersArePaid
    /\ part = "replay" => Replay!SequentialSameAnswer
    /\ part = "replay" => Replay!AnsweredKeyNeverRuns

\* The limiter allows LimitPerMinute requests of a minute and as many again for
\* every call that reaches its lock with an earlier minute (RateLimiter.Allow reads
\* the clock before it locks).
GrantsBounded == part = "limiter" => Limiter!GrantsBounded

\* The rules of a job agree (validation.go, scheduler.go, agent.go, metering.go): what
\* was accepted is taken, the best node gets it, and an honest report is paid while an
\* oversized one is not.
RulesAgree == part = "rules" => Rules!RulesAgree

\* A session leaves "connected" once: what closed it, swept it or drained it is
\* final, although close, sweep and drain race and a drain picks its session before
\* it has the lock.
SessionEndsOnce == [][part = "sessions" => Sessions!EndsOnce]_sessionVars
=============================================================================
