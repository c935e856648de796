----------------------------- MODULE Reputation -----------------------------
(***************************************************************************)
(* The coordinator's opinion of its nodes: the rows of node_reputation,    *)
(* the quarantine mark of nodes and the verification_events they are       *)
(* updated with, as the handlers of the job service, challenge results and *)
(* the operator change them, concurrently.                                 *)
(*                                                                         *)
(* A handler runs a short list of store calls, each one transaction that   *)
(* locks its rows one by one and shows its writes when it commits.         *)
(* Postgres aborts a transaction of a cycle of waiting ones.  A rate is    *)
(* stored in a numeric(5,4) column, that is in units of 1/Scale; only      *)
(* timeout_rate is read back, the others are quotients of the counters     *)
(* beside them and are left out.                                           *)
(***************************************************************************)
EXTENDS Integers, Sequences, FiniteSets, FiniteSetsExt

CONSTANTS
    Node,
    Attempt,        \* attempts of standard and of duplicate jobs
    NodeOf,         \* job_attempts.node_id
    Proc,           \* handlers that run at a time
    Scale,          \* 10000 in the code
    Threshold,      \* failureThreshold of RecordChallengeOutcome
    MaxChallenges,  \* bound on the challenge results of a node
    Operates,       \* does the operator quarantine nodes?
    CanFail         \* may a statement fail for a reason outside the model?

ReputationAssumption ==
    /\ IsFiniteSet(Attempt) /\ NodeOf \in [Attempt -> Node]
    /\ Scale \in Nat \ {0} /\ Threshold \in Nat \ {0} /\ MaxChallenges \in Nat

VARIABLES
    rep,          \* node_reputation
    quarantined,  \* nodes.quarantined_at is set
    events,       \* verification_events of each node, counted by type and status
    attempts,     \* what the service did with each attempt
    plan,         \* the store calls each handler has still to make
    tx,           \* its transaction: the rows it locked, the row it read
    saw           \* what happened to each node (history)

vars == <<rep, quarantined, events, attempts, plan, tx, saw>>

\* A row as the INSERT ... ON CONFLICT DO NOTHING of every writer creates it.
NewRow == [accepted |-> 0, total |-> 0, failed |-> 0, mismatches |-> 0, timeout_rate |-> 0,
           duplicates |-> 0, disagreements |-> 0, challenges |-> 0, failures |-> 0,
           quarantined |-> FALSE]

Event == {"duplicate accepted", "duplicate rejected", "challenge accepted",
          "challenge rejected", "challenge quarantined"}

NoTx == [held |-> <<>>, read |-> NewRow]

RepRow(n)  == <<"reputation", n>>
NodeRow(n) == <<"node", n>>

-----------------------------------------------------------------------------
(* The updates of a row.                                                   *)

RoundDiv(a, b) == (2 * a + b) \div (2 * b)

\* How many of the attempts so far timed out, as read back from the rate.
timeoutFailures(r) == RoundDiv(r.timeout_rate * r.total, Scale)

\* updateAttemptReputationTx; an accepted attempt has no code.
afterAttempt(r, code) ==
    LET timeouts == timeoutFailures(r) + (IF code = "job_timeout" THEN 1 ELSE 0)
    IN  [r EXCEPT !.total = @ + 1,
                  !.accepted = IF code = "" THEN @ + 1 ELSE @,
                  !.failed = IF code = "" THEN @ ELSE @ + 1,
                  !.mismatches = IF code = "hash_mismatch" THEN @ + 1 ELSE @,
                  !.timeout_rate = RoundDiv(timeouts * Scale, r.total + 1)]

afterDuplicate(r, disagreement) ==
    [r EXCEPT !.duplicates = @ + 1,
              !.disagreements = IF disagreement THEN @ + 1 ELSE @]

\* quarantine of updateChallengeReputationTx, before the counters are written.
Quarantines(r, failure) ==
    failure /\ r.challenges + 1 > 1 /\ r.failures + 1 >= Threshold

afterChallenge(r, failure) ==
    [r EXCEPT !.challenges = @ + 1,
              !.failures = IF failure THEN @ + 1 ELSE @,
              !.quarantined = @ \/ Quarantines(r, failure)]

-----------------------------------------------------------------------------
(* Transactions.  A call names its transaction and what the caller does    *)
(* when it fails: give up (must) or go on with the next call.              *)

Call(kind, n, a, code, must) == [kind |-> kind, node |-> n, att |-> a, code |-> code, must |-> must]

\* The rows a call locks, in the order of its statements.
RowsOf(c, r) ==
    CASE c.kind = "challenge" /\ Quarantines(r, c.code # "") -> <<RepRow(c.node), NodeRow(c.node)>>
      [] c.kind = "quarantine" -> <<NodeRow(c.node), RepRow(c.node)>>
      [] OTHER -> <<RepRow(c.node)>>

Holds(p, row) == \E i \in DOMAIN tx[p].held : tx[p].held[i] = row
Free(row)     == \A p \in Proc : ~Holds(p, row)

Current(p) == Head(plan[p])
Needs(p)   == RowsOf(Current(p), tx[p].read)
Waiting(p) == plan[p] # <<>> /\ Len(tx[p].held) < Len(Needs(p))
NextRow(p) == Needs(p)[Len(tx[p].held) + 1]

WaitsFor(p, q) == p # q /\ Waiting(p) /\ Holds(q, NextRow(p))
Deadlocked(p)  == \E S \in SUBSET Proc : p \in S /\ \A q \in S : \E r \in S : WaitsFor(q, r)

\* Reading the row without locking it: mutant of SelectForUpdate.
SelectPlain(p) ==
    /\ Waiting(p)
    /\ tx' = [tx EXCEPT ![p].held = Append(@, NextRow(p)),
                        ![p].read = IF NextRow(p) = RepRow(Current(p).node)
                                    THEN rep[Current(p).node] ELSE @]
    /\ UNCHANGED <<rep, quarantined, events, attempts, plan, saw>>

\* The next statement of p's transaction locks its row; the reputation row is read
\* under its lock.
SelectForUpdate(p) ==
    /\ Waiting(p) /\ Free(NextRow(p))
    /\ tx' = [tx EXCEPT ![p].held = Append(@, NextRow(p)),
                        ![p].read = IF NextRow(p) = RepRow(Current(p).node)
                                    THEN rep[Current(p).node] ELSE @]
    /\ UNCHANGED <<rep, quarantined, events, attempts, plan, saw>>

Ready(p, kind) == plan[p] # <<>> /\ Current(p).kind = kind /\ ~Waiting(p)

Commit(p) == /\ tx' = [tx EXCEPT ![p] = NoTx]
             /\ plan' = [plan EXCEPT ![p] = Tail(@)]

Add(n, what) == events' = [events EXCEPT ![n] =
                              [e \in Event |-> IF e \in what THEN @[e] + 1 ELSE @[e]]]

\* CompleteJob, FailAttempt, FailJob and the two marks of a verification attempt end
\* with the reputation of the attempt's node; they write the attempt's status if it
\* still is in a state they accept, and the reputation in any case.
updateAttemptReputationTx(p) ==
    /\ Ready(p, "attempt")
    /\ LET c == Current(p) IN
       /\ rep' = [rep EXCEPT ![c.node] = afterAttempt(tx[p].read, c.code)]
       /\ attempts' = [attempts EXCEPT ![c.att].counted = @ + 1]
       /\ saw' = IF c.code = "job_timeout" THEN [saw EXCEPT ![c.node].counted = @ + 1] ELSE saw
    /\ Commit(p)
    /\ UNCHANGED <<quarantined, events>>

RecordDuplicateOutcome(p) ==
    /\ Ready(p, "duplicate")
    /\ LET c == Current(p) IN
       /\ Add(c.node, {IF c.code = "" THEN "duplicate accepted" ELSE "duplicate rejected"})
       /\ rep' = [rep EXCEPT ![c.node] = afterDuplicate(tx[p].read, c.code # "")]
    /\ Commit(p)
    /\ UNCHANGED <<quarantined, attempts, saw>>

RecordChallengeOutcome(p) ==
    /\ Ready(p, "challenge")
    /\ LET c == Current(p)
           failure == c.code # ""
           quarantine == Quarantines(tx[p].read, failure)
       IN  /\ Add(c.node, {IF failure THEN "challenge rejected" ELSE "challenge accepted"}
                          \cup (IF quarantine THEN {"challenge quarantined"} ELSE {}))
           /\ rep' = [rep EXCEPT ![c.node] = afterChallenge(tx[p].read, failure)]
           /\ quarantined' = [quarantined EXCEPT ![c.node] = @ \/ quarantine]
    /\ Commit(p)
    /\ UNCHANGED <<attempts, saw>>

\* The operator's: the node first, then its reputation.
QuarantineNode(p) ==
    /\ Ready(p, "quarantine")
    /\ LET n == Current(p).node IN
       /\ quarantined' = [quarantined EXCEPT ![n] = TRUE]
       /\ rep' = [rep EXCEPT ![n].quarantined = TRUE]
       /\ saw' = [saw EXCEPT ![n].operator = TRUE]
    /\ Commit(p)
    /\ UNCHANGED <<events, attempts>>

\* A statement fails and the deferred Rollback runs.
Rollback(p) ==
    /\ plan[p] # <<>> /\ (CanFail \/ Deadlocked(p))
    /\ tx' = [tx EXCEPT ![p] = NoTx]
    /\ plan' = [plan EXCEPT ![p] = IF Head(@).must THEN <<>> ELSE Tail(@)]
    /\ UNCHANGED <<rep, quarantined, events, attempts, saw>>

-----------------------------------------------------------------------------
(* The handlers.                                                           *)

Counts(a, code, must) == Call("attempt", NodeOf[a], a, code, must)
Duplicate(a, code)    == Call("duplicate", NodeOf[a], a, code, TRUE)

\* An idle handler takes up attempt a, which ends as how, and will make calls.
Handle(p, a, how, calls) ==
    /\ plan[p] = <<>> /\ attempts[a].ended = "no"
    /\ attempts' = [attempts EXCEPT ![a].ended = how]
    /\ plan' = [plan EXCEPT ![p] = calls]
    /\ UNCHANGED <<rep, quarantined, events, tx>>

\* job.completed, verified and accepted.
Completed(p, a) == Handle(p, a, "succeeded", <<Counts(a, "", TRUE)>>) /\ UNCHANGED saw

\* job.completed with another model or runtime hash than the catalog's: the job
\* fails with the code job_failed; the mismatch is in the message.
CompletedUnverified(p, a) ==
    /\ Handle(p, a, "mismatch", <<Counts(a, "job_failed", FALSE)>>)
    /\ saw' = [saw EXCEPT ![NodeOf[a]].mismatches = @ + 1]

\* handleAttemptFailure: the attempt is failed and another scheduled; if that cannot
\* be done, or may not be tried, the job is failed.
handleAttemptFailure(p, a) ==
    /\ \E calls \in {<<Counts(a, "job_failed", TRUE)>>,
                     <<Counts(a, "job_failed", TRUE), Counts(a, "job_failed", TRUE)>>} :
           Handle(p, a, "failed", calls)
    /\ UNCHANGED saw

\* handleExpiredAttempt, once ExpireLeases has marked the attempt.
handleExpiredAttempt(p, a) ==
    /\ \E calls \in {<<>>, <<Counts(a, "job_timeout", TRUE)>>} : Handle(p, a, "expired", calls)
    /\ saw' = [saw EXCEPT ![NodeOf[a]].expired = @ + 1]

\* A duplicate's job.completed, verified or not, and its job.rejected or job.failed.
handleDuplicateCompletion(p, a) ==
    /\ \E calls \in {<<Counts(a, "", TRUE), Duplicate(a, "")>>,
                     <<Counts(a, "job_failed", TRUE), Duplicate(a, "job_failed")>>,
                     <<Counts(a, "job_failed", FALSE), Duplicate(a, "job_failed")>>} :
           Handle(p, a, "duplicate", calls)
    /\ UNCHANGED saw

\* The result of a challenge job and the operator's request.
Challenge(p, n, code) ==
    /\ plan[p] = <<>> /\ saw[n].challenges < MaxChallenges
    /\ plan' = [plan EXCEPT ![p] = <<Call("challenge", n, "", code, TRUE)>>]
    /\ saw' = [saw EXCEPT ![n].challenges = @ + 1]
    /\ UNCHANGED <<rep, quarantined, events, attempts, tx>>

OperatorQuarantines(p, n) ==
    /\ Operates /\ plan[p] = <<>>
    /\ plan' = [plan EXCEPT ![p] = <<Call("quarantine", n, "", "", TRUE)>>]
    /\ UNCHANGED <<rep, quarantined, events, attempts, tx, saw>>

-----------------------------------------------------------------------------
Init ==
    /\ rep = [n \in Node |-> NewRow]
    /\ quarantined = [n \in Node |-> FALSE]
    /\ events = [n \in Node |-> [e \in Event |-> 0]]
    /\ attempts = [a \in Attempt |-> [ended |-> "no", counted |-> 0]]
    /\ plan = [p \in Proc |-> <<>>]
    /\ tx = [p \in Proc |-> NoTx]
    /\ saw = [n \in Node |-> [expired |-> 0, counted |-> 0, mismatches |-> 0,
                              challenges |-> 0, operator |-> FALSE]]

Commits(p) ==
    \/ updateAttemptReputationTx(p) \/ RecordDuplicateOutcome(p)
    \/ RecordChallengeOutcome(p) \/ QuarantineNode(p)

Arrives(p) ==
    \/ \E a \in Attempt : \/ Completed(p, a) \/ CompletedUnverified(p, a)
                          \/ handleAttemptFailure(p, a) \/ handleExpiredAttempt(p, a)
                          \/ handleDuplicateCompletion(p, a)
    \/ \E n \in Node : \/ \E code \in {"", "job_failed"} : Challenge(p, n, code)
                       \/ OperatorQuarantines(p, n)

Next == \E p \in Proc : SelectForUpdate(p) \/ Commits(p) \/ Rollback(p) \/ Arrives(p)

Spec == Init /\ [][Next]_vars

\* A handler goes on, locks are granted in turn and Postgres breaks deadlocks.
Fairness == \A p \in Proc : /\ SF_vars(SelectForUpdate(p))
                            /\ WF_vars(Commits(p))
                            /\ WF_vars(Deadlocked(p) /\ Rollback(p))

-----------------------------------------------------------------------------
(* Properties.                                                             *)

AttemptsOf(n) == {a \in Attempt : NodeOf[a] = n}

\* The counters are within the CHECK constraints of the table and a handler that
\* has no call to make holds no lock.
TypeOK ==
    /\ \A n \in Node : /\ rep[n].timeout_rate \in 0..Scale
                       /\ \A f \in {"accepted", "total", "failed", "mismatches", "duplicates",
                                    "disagreements", "challenges", "failures"} : rep[n][f] \in Nat
    /\ quarantined \in [Node -> BOOLEAN]
    /\ \A p \in Proc : plan[p] = <<>> => tx[p] = NoTx

\* No update of a node's counters is lost to a concurrent one: attempt_total is the
\* number of times its attempts were counted and is what was accepted and what
\* failed together (updateAttemptReputationTx reads under FOR UPDATE).
NoCountLost ==
    \A n \in Node :
        /\ rep[n].total = MapThenSumSet(LAMBDA a : attempts[a].counted, AttemptsOf(n))
        /\ rep[n].total = rep[n].accepted + rep[n].failed

\* A verification event and the counters it explains are committed together,
\* whatever fails in between.
EventsTellReputation ==
    \A n \in Node :
        /\ rep[n].disagreements = events[n]["duplicate rejected"]
        /\ rep[n].duplicates = events[n]["duplicate accepted"] + events[n]["duplicate rejected"]
        /\ rep[n].failures = events[n]["challenge rejected"]
        /\ rep[n].challenges = events[n]["challenge accepted"] + events[n]["challenge rejected"]

\* The two marks of a quarantine agree, though the challenge path and the operator
\* write them in opposite orders.
QuarantineAgrees == \A n \in Node : rep[n].quarantined = quarantined[n]

\* Unless the operator did it, a node is quarantined exactly when Threshold of its
\* challenges failed (a threshold of one is another matter: see OneFailureNeverQuarantines).
QuarantinedAtThreshold ==
    \A n \in Node : ~saw[n].operator =>
        (quarantined[n] <=> rep[n].failures >= Threshold)

\* The number of timeouts is not stored: it is recovered from the rounded rate at
\* every update.  Up to Scale attempts of a node nothing is lost by it.
TimeoutsRecovered ==
    \A n \in Node : rep[n].total <= Scale => timeoutFailures(rep[n]) = saw[n].counted

\* What the tables say of a node is what happened to it: no count is lost, counters
\* and events agree, and so do the marks of a quarantine and its cause.
ReputationIsTrue ==
    NoCountLost /\ EventsTellReputation /\ QuarantineAgrees /\ QuarantinedAtThreshold

\* Every handler makes its calls and ends, also when a challenge and the operator
\* lock the two rows of a node in opposite orders.
HandlersEnd == \A p \in Proc : plan[p] # <<>> ~> plan[p] = <<>>

\* "one disagreement never quarantines" (docs/DECISIONS.md, D-046).
OneFailureNeverQuarantines ==
    \A n \in Node : rep[n].failures <= 1 /\ ~saw[n].operator => ~quarantined[n]

\* Reputation tracks attempt success: an attempt counts once.
AttemptCountsOnce == \A a \in Attempt : attempts[a].counted <= 1

\* Reputation tracks timeouts: when no handler is busy and none of their transactions
\* failed, every lease that expired has been counted.
TimeoutsTracked ==
    (\A p \in Proc : plan[p] = <<>>) => \A n \in Node : saw[n].counted = saw[n].expired

\* Reputation tracks hash mismatches, likewise.
MismatchesTracked ==
    (\A p \in Proc : plan[p] = <<>>) => \A n \in Node : rep[n].mismatches = saw[n].mismatches
=============================================================================
