------------------------ MODULE MCCoordinatorLive ------------------------
(***************************************************************************)
(* What must happen in the coordinator in the end, for TLC, in one run:    *)
(* "part" picks the component that takes the steps of a behaviour, under   *)
(* its own fairness, and the others stay in their initial states.          *)
(***************************************************************************)
EXTENDS Integers, Sequences, FiniteSets, Bags, SequencesExt

CONSTANT None

VARIABLES
    part,
    (* Ledger *)     holds, due, entries, batches, items, audit, done, op,
    (* Reputation *) rep, quarantined, events, attempts, plan, updating, saw,
    (* PublicAPI *)  asked, paid, told, minute, bucket, records, req, reply, rows, granted,
                     late, recent, overlap

Two   == {"p1", "p2"}
Empty == {}

-----------------------------------------------------------------------------
(* Ledger: two credits for each of two hosts.                                *)

Credits   == {"a1", "a3", "a4", "a5"}
Jobs      == [a \in Credits |-> a]
Nodes     == [a \in Credits |-> IF a \in {"a1", "a4"} THEN "n1" ELSE "n2"]
Customers == [j \in Credits |-> "org1"]
HostOrgs  == [n \in {"n1", "n2"} |-> IF n = "n1" THEN "o1" ELSE "o2"]
Prompts   == [a \in Credits |-> 4]
Outputs   == [a \in Credits |-> IF a = "a1" THEN 5 ELSE 3]
Batches   == {"b1", "b2"}
Cli       == {"cli"}

Money == INSTANCE Ledger WITH
    Attempt <- Credits, JobOf <- Jobs, NodeOf <- Nodes, Verifying <- Empty,
    CustomerOf <- Customers, HostOrgOf <- HostOrgs, Prompt <- Prompts, Completion <- Outputs,
    InputPrice <- 1000000, OutputPrice <- 1000000, HostPrice <- 500000, Overhead <- 0,
    Batch <- Batches, Proc <- Two, Poster <- Empty, Callers <- Cli, CanFail <- FALSE

\* The state after four accepted jobs, of which the credits "a1" and "a3", one of
\* each host, were released and exported in batch "b1", and the other two are due.
\* A release and a confirmation can now lock the two hosts' accounts in opposite
\* orders.
Exported == {"a1", "a3"}
AfterExport ==
    /\ holds = [h \in Credits |->
                 [amount |-> Money!hostCredit(h),
                  state |-> IF h \in Exported THEN "payout_pending" ELSE "pending",
                  batch |-> IF h \in Exported THEN "b1" ELSE None]]
    /\ due = Credits
    /\ entries = SetToBag(UNION {ToSet(Money!acceptedEntries(h)) : h \in Credits}
                          \cup UNION {ToSet(Money!releaseEntries(h)) : h \in Exported})
    /\ batches = [b \in Batches |-> IF b = "b1" THEN [status |-> "exported", total |-> 5]
                                               ELSE Money!NoBatch]
    /\ items = [b \in Batches |-> [h \in Credits |->
                 IF b = "b1" /\ h \in Exported THEN "exported" ELSE "none"]]
    /\ audit = {} /\ done = {}
    /\ op = [p \in Two |-> Money!Idle]

-----------------------------------------------------------------------------
(* Reputation: an attempt, challenges and an operator who quarantines.        *)

OneNode    == {"n1"}
OneAttempt == {"a1"}
OnOne      == [a \in OneAttempt |-> "n1"]

Outcomes == INSTANCE Reputation WITH
    Node <- OneNode, Attempt <- OneAttempt, NodeOf <- OnOne, Proc <- Two, Scale <- 10000,
    Threshold <- 2, MaxChallenges <- 2, Operates <- TRUE, CanFail <- FALSE, tx <- updating

-----------------------------------------------------------------------------
(* PublicAPI: two chat requests with one key and an asynchronous one.         *)

Chats  == {"r1", "r2"}
Async1 == {"a1"}
Header == [r \in Chats |-> "k1"]
Body   == [r \in Chats |-> "b1"]

Api == INSTANCE PublicAPI WITH
    Job <- Chats, Async <- Async1, HeaderOf <- Header, BodyOf <- Body, LimitPerMinute <- 2,
    MaxMinute <- 1, CanFail <- FALSE, CanExpire <- TRUE

-----------------------------------------------------------------------------
(* The composition.                                                          *)

ASSUME PartsAssumption ==
    /\ Money!LedgerAssumption /\ Outcomes!ReputationAssumption /\ Api!ApiAssumption

ledgerVars == <<holds, due, entries, batches, items, audit, done, op>>
reputationVars == <<rep, quarantined, events, attempts, plan, updating, saw>>
apiVars == <<asked, paid, told, minute, bucket, records, req, reply, rows, granted, late,
             recent, overlap>>
vars == <<part, ledgerVars, reputationVars, apiVars>>

Init ==
    /\ part \in {"ledger", "outcomes", "api"}
    /\ AfterExport
    /\ Outcomes!Init
    /\ Api!Init

Next ==
    /\ part' = part
    /\ \/ /\ part = "ledger"
          /\ UNCHANGED <<reputationVars, apiVars>>
          /\ Money!Next
       \/ /\ part = "outcomes"
          /\ UNCHANGED <<ledgerVars, apiVars>>
          /\ Outcomes!Next
       \/ /\ part = "api"
          /\ UNCHANGED <<ledgerVars, reputationVars>>
          /\ Api!Next

\* The part at work is scheduled as its module says.
FairSpec ==
    /\ Init /\ [][Next]_vars
    /\ \/ part = "ledger" /\ Money!Fairness
       \/ part = "outcomes" /\ Outcomes!Fairness
       \/ part = "api" /\ Api!Fairness

-----------------------------------------------------------------------------
(* Properties.                                                               *)

\* Every transaction ends, although releases and confirmations lock the accounts
\* of two hosts in opposite orders.
\* Every handler makes its calls and ends, also when a challenge and the operator
\* lock the two rows of a node in opposite orders.
EveryTransactionEnds ==
    /\ part = "ledger" => Money!EveryTransactionEnds
    /\ part = "outcomes" => Outcomes!HandlersEnd

\* Every request that arrives is answered (chatCompletionsHandler waits with a
\* timeout).
EveryRequestAnswered == part = "api" => Api!EveryRequestAnswered
=============================================================================
