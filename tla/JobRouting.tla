----------------------------- MODULE JobRouting -----------------------------
(***************************************************************************)
(* How the coordinator routes a chat-completion job to a node.             *)
(*                                                                         *)
(* Three kinds of goroutine share the in-memory jobs.Service and the       *)
(* Postgres rows behind it: the HTTP handler of each job (named by the job *)
(* itself), the websocket reader of each node session (named by the        *)
(* session), and the short operator transactions.  A goroutine advances by *)
(* one step per database transaction and by one step per run of            *)
(* mutex-protected map updates between two transactions; everything else   *)
(* may happen between two of its steps.                                    *)
(*                                                                         *)
(* Clocks are not modelled.  "The lease is over", "the answer came after   *)
(* the two-second window", "the result came after the deadline" and "the   *)
(* caller's timer fired" may each be true whenever the code looks.         *)
(***************************************************************************)
EXTENDS Naturals, Sequences, FiniteSets

CONSTANTS
    Job,          \* jobs.id of the chat completions that may be submitted
    Node,         \* registered nodes
    Sampled,      \* the jobs for which sampleByID asks for a duplicate
    Session,      \* node_sessions.id: <<n, k>> is the k-th connection of node n
    MaxAttempts,  \* bound: job_attempts rows of one job
    MaxOps,       \* bound: operator cancel and retry requests
    MaxCrashes,   \* bound: restarts of the coordinator process
    Faults,       \* the kinds of trouble that may happen, see FaultKind
    None          \* the empty id

Attempt == Job \X (1..MaxAttempts)      \* (job_id, attempt_number), unique
Proc    == Job \cup Session             \* goroutines

\* "db": a database call fails; "late": an acceptance misses its two seconds or a
\* result its deadline; "lease": a lease runs out; "lose": a connection is lost;
\* "send": writing an offer fails; "refuse": a node rejects an offer, its runtime
\* fails, or its result does not pass the checks.
FaultKind == {"db", "late", "lease", "lose", "send", "refuse"}

ASSUME SetAssumption ==
    /\ Session \subseteq Node \X (Nat \ {0})
    /\ Job \cap Session = {}
    /\ None \notin Proc
    /\ None \notin Attempt
    /\ Sampled \subseteq Job
ASSUME BoundAssumption ==
    /\ MaxAttempts \in Nat
    /\ MaxOps \in Nat
    /\ MaxCrashes \in Nat
    /\ Faults \subseteq FaultKind

VARIABLES
    \* Postgres
    job,       \* jobs.state, "none" before the row exists
    att,       \* job_attempts: status, session it was offered on, duplicate or not
    charged,   \* per job, the attempts with a posted job_acceptance transaction
    credited,  \* duplicate attempts with a posted verification_cost transaction
    open,      \* node_sessions rows in state 'connected'
    \* jobs.Service, under s.mu
    sessions,  \* sessions[node]
    active,    \* activeByNode[node]: a job and, once it is known, its attempt
    pending,   \* jobs with a channel in pending
    result,    \* what the channel of a job holds
    run,       \* runs[job]: still in the map?, attempts, excluded
    dups,      \* duplicates
    \* goroutines and callers
    th,        \* program counter and locals of every goroutine
    answer,    \* what the caller of a job was told
    \* websockets and nodes
    conn,      \* number of connections each node has made
    mail,      \* messages from the node, not yet read
    offer,     \* offers sent to the node, not yet read
    work,      \* the attempt the node executes for this session
    \* environment bounds
    ops, crashes

db   == <<job, att, charged, credited, open>>
mem  == <<sessions, active, pending, result, run, dups>>
net  == <<conn, mail, offer, work>>
env  == <<ops, crashes>>
vars == <<db, mem, th, answer, net, env>>

JobState    == {"none", "queued", "leased", "running", "succeeded", "failed", "cancelled"}
Live        == {"offered", "accepted", "running"}
Finished    == {"succeeded", "failed", "expired", "cancelled", "verified"}
AttemptRow  == [st: {"none"} \cup Live \cup Finished, on: Session \cup {None}, dup: BOOLEAN]
Reservation == [job: Job, att: Attempt \cup {None}]
RunState    == [live: BOOLEAN, attempts: Nat, excluded: SUBSET Node]
Message     == [type: {"accepted", "started", "rejected", "failed", "completed"},
                att: Attempt, good: BOOLEAN]
PC == {"off", "expire", "expired", "select", "reserve", "create", "announce", "send",
       "unsend", "failExpired", "expiredDone", "abandon", "abandonFail", "wait", "giveup",
       "done", "attach", "read", "failAttempt", "failJob", "failDone", "complete", "clear", "completed",
       "finish", "dupFail", "dupDone", "credit", "detach", "close", "closed"}
Thread == [pc: PC,
           kind: {"none", "client", "retry", "reject", "plain", "dup", "good", "bad"},
           job: Job \cup {None},      \* the job the handler is about
           att: Attempt \cup {None},  \* and its attempt
           todo: SUBSET Attempt,      \* expired attempts still to be handled
           cur: Attempt \cup {None},  \* the expired attempt being handled
           pick: Session \cup {None}, \* the candidate that wins Choose
           new: Attempt \cup {None},  \* the attempt being created
           closing: BOOLEAN]          \* running inside detach

Rest == [pc |-> "off", kind |-> "none", job |-> None, att |-> None, todo |-> {},
         cur |-> None, pick |-> None, new |-> None, closing |-> FALSE]

-----------------------------------------------------------------------------
(* Helpers.                                                                *)

May(fault) == fault \in Faults

NodeOf(s) == s[1]
JobOf(a)  == a[1]

\* The job the scheduling code is working for: that of the expired attempt
\* inside handleExpiredAttempt, the handler's own otherwise.
Target(t) == IF t.cur # None THEN JobOf(t.cur) ELSE t.job

\* Is the scheduling code running for maybeStartDuplicate?
ForDuplicate(t) == t.cur = None /\ t.kind = "dup"

\* Does the reader of session s still read its websocket?
Listening(s) == th[s].pc \notin {"off", "attach", "detach", "close", "closed"} /\ ~th[s].closing

\* A node reads and writes only its newest websocket.
Connected(s) == conn[NodeOf(s)] = s[2] /\ Listening(s)

\* EligibleNodes: the latest connected session of a node that has no attempt in
\* a live status.  Heartbeat age, node state and hashes are not modelled: any
\* eligible node may be left out of the answer.
Eligible(s) ==
    /\ s \in open
    /\ \A s2 \in open : NodeOf(s2) = NodeOf(s) => s2[2] <= s[2]
    /\ \A a \in Attempt : att[a].st \in Live => NodeOf(att[a].on) # NodeOf(s)

\* COALESCE(max(attempt_number), 0) + 1
NextAttempt(j) ==
    <<j, 1 + Cardinality({a \in Attempt : JobOf(a) = j /\ att[a].st # "none"})>>

CanRetry(j) == run[j].live /\ run[j].attempts < 2

Goto(p, t) == th' = [th EXCEPT ![p] = t]
At(p, pc)  == th[p].pc = pc

\* A handler run by a session reader returns nil, or an error.
Returned(t) == [Rest EXCEPT !.pc = IF t.closing THEN "close" ELSE "read"]
Erred(t)    == [Rest EXCEPT !.pc = IF t.closing THEN "close" ELSE "detach"]

\* The loop of expireLeases goes on with the next expired attempt; after the last
\* one the handler's own job is scheduled.
Expired(t) == [t EXCEPT !.pc = IF t.todo = {} THEN "select" ELSE "expired",
                        !.cur = None, !.pick = None, !.new = None]

\* scheduleAttemptInternal or maybeStartDuplicate returns: the offer went out.
Scheduled(t) ==
    IF t.cur # None THEN Expired(t)
    ELSE CASE t.kind = "client" -> [Rest EXCEPT !.pc = "wait"]
           [] t.kind = "dup"    -> [t EXCEPT !.pc = "finish", !.pick = None, !.new = None]
           [] OTHER             -> Returned(t)

\* It returns an error instead, an APIError ("no capacity") when api holds.
Unscheduled(t, api) ==
    IF t.cur # None THEN [t EXCEPT !.pc = "failExpired", !.pick = None, !.new = None]
    ELSE [t EXCEPT !.pick = None, !.new = None, !.todo = {},
                   !.pc = CASE t.kind = "client" -> IF api THEN "abandonFail" ELSE "abandon"
                            [] t.kind = "dup"    -> "finish"
                            [] OTHER             -> "failJob"]

-----------------------------------------------------------------------------
(* Map and row updates shared by several handlers.                         *)

ClearActive(n) == active' = [active EXCEPT ![n] = None]

\* Mutant: the channel is unbuffered and the send does not block.
NotifyUnbuffered(j, r) ==
    /\ run' = [run EXCEPT ![j].live = FALSE]
    /\ pending' = pending \ {j}
    /\ result' = IF j \in pending /\ At(j, "wait") THEN [result EXCEPT ![j] = r] ELSE result

\* removeRun and notify: the run leaves the map; a registered waiter, taken out
\* of pending, receives r.
Notify(j, r) ==
    /\ run' = [run EXCEPT ![j].live = FALSE]
    /\ pending' = pending \ {j}
    /\ result' = IF j \in pending THEN [result EXCEPT ![j] = r] ELSE result

\* Mutant: the attempt gets a status the table does not have.
FailJobRowsBadStatus(j, a) ==
    /\ job' = [job EXCEPT ![j] = "failed"]
    /\ att' = IF a = None THEN att ELSE [att EXCEPT ![a].st = "error"]

\* PGStore.FailJob: no condition on the attempt's status or the job's state.
FailJobRows(j, a) ==
    /\ job' = [job EXCEPT ![j] = "failed"]
    /\ att' = IF a = None THEN att ELSE [att EXCEPT ![a].st = "failed"]

\* PGStore.FailAttempt.
FailAttemptRows(j, a) ==
    /\ att' = IF att[a].st \in Live THEN [att EXCEPT ![a].st = "failed"] ELSE att
    /\ job' = IF job[j] \in {"leased", "running"} THEN [job EXCEPT ![j] = "queued"] ELSE job

\* The start of handleAttemptFailure for job j and attempt a of node n, up to
\* its first transaction; t is what the reader's locals become.
StartFailure(p, n, j, a, transient) ==
    LET t == [Rest EXCEPT !.kind = "retry", !.job = j, !.att = a, !.closing = At(p, "detach")]
    IN  /\ ClearActive(n)
        /\ \/ /\ transient /\ CanRetry(j)
              /\ run' = [run EXCEPT ![j].excluded = @ \cup {n}]
              /\ Goto(p, [t EXCEPT !.pc = "failAttempt"])
           \/ /\ ~(transient /\ CanRetry(j))
              /\ run' = run
              /\ Goto(p, [t EXCEPT !.pc = "failJob"])

-----------------------------------------------------------------------------
(* The HTTP handler of job j.                                              *)

\* chatCompletionsHandler: CreateJob, RegisterWait, and the map insert of
\* Schedule.
Submit(j) ==
    /\ At(j, "off")
    /\ job' = [job EXCEPT ![j] = "queued"]
    /\ pending' = pending \cup {j}
    /\ run' = [run EXCEPT ![j].live = TRUE]
    /\ Goto(j, [Rest EXCEPT !.pc = "expire", !.kind = "client", !.job = j])
    /\ UNCHANGED <<att, charged, credited, open, sessions, active, result, dups, answer, net, env>>

\* Schedule failed: AbandonWait; an APIError goes on to FailJob, any other error
\* answers 500 and leaves the row as it is.
Abandon(j) ==
    /\ th[j].pc \in {"abandon", "abandonFail"}
    /\ pending' = pending \ {j}
    /\ run' = [run EXCEPT ![j].live = FALSE]
    /\ IF At(j, "abandon")
       THEN /\ answer' = [answer EXCEPT ![j] = "error"]
            /\ Goto(j, [Rest EXCEPT !.pc = "done"])
       ELSE /\ answer' = answer
            /\ Goto(j, [Rest EXCEPT !.pc = "giveup"])
    /\ UNCHANGED <<db, sessions, active, result, dups, net, env>>

\* The channel delivers the result.
TakeResult(j) ==
    /\ At(j, "wait")
    /\ result[j] # "none"
    /\ answer' = [answer EXCEPT ![j] = result[j]]
    /\ result' = [result EXCEPT ![j] = "none"]
    /\ Goto(j, [Rest EXCEPT !.pc = "done"])
    /\ UNCHANGED <<db, sessions, active, pending, run, dups, net, env>>

\* Mutant: the handler waits for the channel alone.
TimeOutNever(j) == FALSE /\ UNCHANGED vars

\* waitCtx is done (deadline or caller gone), even if a result is ready as well:
\* AbandonWait.
TimeOut(j) ==
    /\ At(j, "wait")
    /\ pending' = pending \ {j}
    /\ run' = [run EXCEPT ![j].live = FALSE]
    /\ Goto(j, [Rest EXCEPT !.pc = "giveup"])
    /\ UNCHANGED <<db, sessions, active, result, dups, answer, net, env>>

\* FailJob without an attempt, its error ignored; then the error response.
GiveUp(j) ==
    /\ At(j, "giveup")
    /\ \/ FailJobRows(j, None)
       \/ May("db") /\ UNCHANGED <<job, att>>
    /\ answer' = [answer EXCEPT ![j] = "error"]
    /\ Goto(j, [Rest EXCEPT !.pc = "done"])
    /\ UNCHANGED <<charged, credited, open, mem, net, env>>

-----------------------------------------------------------------------------
(* scheduleAttemptInternal and maybeStartDuplicate, run by a job's handler *)
(* or a session's reader p.                                                *)

\* Store.ExpireLeases: offered attempts whose lease is over become expired,
\* duplicate attempts included; their jobs are not touched.
ExpireLeases(p) ==
    /\ At(p, "expire")
    /\ \/ \E expired \in SUBSET {a \in Attempt : May("lease") /\ att[a].st = "offered"} :
            /\ att' = [a \in Attempt |-> IF a \in expired THEN [att[a] EXCEPT !.st = "expired"]
                                                          ELSE att[a]]
            /\ Goto(p, Expired([th[p] EXCEPT !.todo = expired]))
       \/ May("db") /\ att' = att /\ Goto(p, Unscheduled(th[p], FALSE))
    /\ UNCHANGED <<job, charged, credited, open, mem, answer, net, env>>

\* expireLeases, one round of its loop: handleExpiredAttempt up to its first
\* transaction.
NextExpired(p) ==
    /\ At(p, "expired")
    /\ \E a \in th[p].todo :
          LET n == NodeOf(att[a].on)
              t == [th[p] EXCEPT !.todo = @ \ {a}, !.cur = a]
          IN  /\ ClearActive(n)
              /\ \/ /\ CanRetry(JobOf(a))
                    /\ run' = [run EXCEPT ![JobOf(a)].excluded = @ \cup {n}]
                    /\ Goto(p, [t EXCEPT !.pc = "select"])
                 \/ /\ ~CanRetry(JobOf(a))
                    /\ run' = run
                    /\ Goto(p, [t EXCEPT !.pc = "failExpired"])
    /\ UNCHANGED <<db, sessions, pending, result, dups, answer, net, env>>

\* handleExpiredAttempt without a retry: FailJob.  Its error ends the loop and
\* drops the expired attempts that are left.
FailExpired(p) ==
    /\ At(p, "failExpired")
    /\ \/ /\ FailJobRows(JobOf(th[p].cur), th[p].cur)
          /\ Goto(p, [th[p] EXCEPT !.pc = "expiredDone"])
       \/ /\ May("db")
          /\ Goto(p, Unscheduled([th[p] EXCEPT !.cur = None], FALSE))
          /\ UNCHANGED <<job, att>>
    /\ UNCHANGED <<charged, credited, open, mem, answer, net, env>>

\* The rest of handleExpiredAttempt: removeRun, notify.
ExpiredDone(p) ==
    /\ At(p, "expiredDone")
    /\ Notify(JobOf(th[p].cur), "error")
    /\ Goto(p, Expired(th[p]))
    /\ UNCHANGED <<db, sessions, active, dups, answer, net, env>>

\* The run is looked up (a duplicate brings its own copy), then EligibleNodes is
\* asked.  pick is the candidate that Choose will prefer if it passes the filter.
Select(p) ==
    /\ At(p, "select")
    /\ \/ /\ ForDuplicate(th[p]) \/ run[Target(th[p])].live
          /\ \E s \in {s \in Session : Eligible(s)} \cup {None} :
                Goto(p, [th[p] EXCEPT !.pc = "reserve", !.pick = s])
       \/ /\ May("db") \/ ~(ForDuplicate(th[p]) \/ run[Target(th[p])].live)
          /\ Goto(p, Unscheduled(th[p], FALSE))
    /\ UNCHANGED <<db, mem, answer, net, env>>

\* Mutant: the duplicate may go to the node that did the original.
ReservableAnywhere(p, s) ==
    LET t == th[p] IN
    /\ s # None
    /\ sessions[NodeOf(s)] = s
    /\ active[NodeOf(s)] = None
    /\ ForDuplicate(t) \/ NodeOf(s) \notin run[Target(t)].excluded
    /\ NextAttempt(Target(t)) \in Attempt

\* The filter under the mutex: a retry skips excluded nodes, a duplicate the node
\* that did the original; both need the very session EligibleNodes saw and a node
\* without a reservation.
Reservable(p, s) ==
    LET t == th[p] IN
    /\ s # None
    /\ sessions[NodeOf(s)] = s
    /\ active[NodeOf(s)] = None
    /\ IF ForDuplicate(t) THEN NodeOf(s) # NodeOf(p)
                          ELSE NodeOf(s) \notin run[Target(t)].excluded
    /\ NextAttempt(Target(t)) \in Attempt       \* bound: MaxAttempts

\* Filter, Choose, reserve the node and count the attempt; then the attempt
\* number is read, ahead of the transaction that inserts it.  The run is updated
\* through its pointer, whether or not it still is in the map.
Reserve(p) ==
    /\ At(p, "reserve")
    /\ LET t == th[p]
           j == Target(t)
       IN  \/ /\ Reservable(p, t.pick)
              /\ active' = [active EXCEPT ![NodeOf(t.pick)] = [job |-> j, att |-> None]]
              /\ run' = IF ForDuplicate(t) THEN run ELSE [run EXCEPT ![j].attempts = @ + 1]
              /\ Goto(p, [t EXCEPT !.pc = "create", !.new = NextAttempt(j)])
           \/ /\ ~Reservable(p, t.pick)
              /\ Goto(p, Unscheduled(t, TRUE))
              /\ UNCHANGED <<active, run>>
    /\ UNCHANGED <<db, sessions, pending, result, dups, answer, net, env>>

\* Mutant: the reservation is not dropped when the insert fails.
CreateKeepsReservation(p) ==
    /\ At(p, "create")
    /\ LET t == th[p]
       IN  \/ /\ att[t.new].st = "none"
              /\ att' = [att EXCEPT ![t.new] =
                            [st |-> "offered", on |-> t.pick, dup |-> ForDuplicate(t)]]
              /\ job' = IF ForDuplicate(t) THEN job ELSE [job EXCEPT ![Target(t)] = "leased"]
              /\ Goto(p, [t EXCEPT !.pc = "announce"])
           \/ /\ May("db") \/ att[t.new].st # "none"
              /\ Goto(p, Unscheduled(t, FALSE))
              /\ UNCHANGED <<job, att>>
    /\ UNCHANGED <<charged, credited, open, mem, answer, net, env>>

\* CreateAttempt leases the job whatever its state; CreateVerificationAttempt
\* leaves it alone.  The insert fails when the number is taken by now, and the
\* node's reservation is dropped.
Create(p) ==
    /\ At(p, "create")
    /\ LET t == th[p]
           j == Target(t)
           n == NodeOf(t.pick)
       IN  \/ /\ att[t.new].st = "none"
              /\ att' = [att EXCEPT ![t.new] =
                            [st |-> "offered", on |-> t.pick, dup |-> ForDuplicate(t)]]
              /\ job' = IF ForDuplicate(t) THEN job ELSE [job EXCEPT ![j] = "leased"]
              /\ Goto(p, [t EXCEPT !.pc = "announce"])
              /\ active' = active
           \/ /\ May("db") \/ att[t.new].st # "none"
              /\ ClearActive(n)
              /\ Goto(p, Unscheduled(t, FALSE))
              /\ UNCHANGED <<job, att>>
    /\ UNCHANGED <<charged, credited, open, sessions, pending, result, run, dups, answer, net, env>>

\* setActive and setDuplicateRun.
Announce(p) ==
    /\ At(p, "announce")
    /\ LET t == th[p]
       IN  /\ active' = [active EXCEPT ![NodeOf(t.pick)] = [job |-> Target(t), att |-> t.new]]
           /\ dups' = IF ForDuplicate(t) THEN dups \cup {t.new} ELSE dups
           /\ Goto(p, [t EXCEPT !.pc = "send"])
    /\ UNCHANGED <<db, sessions, pending, result, run, answer, net, env>>

\* The offer is written to the websocket, which may be dead without the
\* coordinator knowing; a failed write undoes the maps.
Send(p) ==
    /\ At(p, "send")
    /\ LET t == th[p]
           s == t.pick
       IN  \/ /\ offer' = IF Listening(s) THEN [offer EXCEPT ![s] = Append(@, t.new)] ELSE offer
              /\ Goto(p, Scheduled(t))
              /\ UNCHANGED <<active, dups>>
           \/ /\ May("send") \/ ~Listening(s)
              /\ ClearActive(NodeOf(s))
              /\ dups' = dups \ {t.new}
              /\ Goto(p, [t EXCEPT !.pc = "unsend"])
              /\ offer' = offer
    /\ UNCHANGED <<db, sessions, pending, result, run, answer, conn, mail, work, env>>

\* FailAttempt, or MarkVerificationAttemptFailed for a duplicate; errors ignored.
Unsend(p) ==
    /\ At(p, "unsend")
    /\ LET t == th[p]
       IN  /\ \/ FailAttemptRows(Target(t), t.new) /\ ~ForDuplicate(t)
              \/ /\ ForDuplicate(t)
                 /\ job' = job
                 /\ att' = IF att[t.new].st \in Live THEN [att EXCEPT ![t.new].st = "failed"] ELSE att
              \/ May("db") /\ UNCHANGED <<job, att>>
           /\ Goto(p, Unscheduled(t, FALSE))
    /\ UNCHANGED <<charged, credited, open, mem, answer, net, env>>

-----------------------------------------------------------------------------
(* The websocket reader of session s: handleSession and HandleNodeMessage.  *)

\* handleSession of a new connection: OpenSession inserts the row.
OpenSession(n) ==
    /\ <<n, conn[n] + 1>> \in Session
    /\ conn' = [conn EXCEPT ![n] = @ + 1]
    /\ open' = open \cup {<<n, conn[n] + 1>>}
    /\ Goto(<<n, conn[n] + 1>>, [Rest EXCEPT !.pc = "attach"])
    /\ UNCHANGED <<job, att, charged, credited, mem, answer, mail, offer, work, env>>

\* session.accepted is written, then AttachSession replaces whatever session of
\* the node is registered, an older or a newer one.  If the write fails the row
\* is closed, and nothing was attached.
AttachSession(s) ==
    /\ At(s, "attach")
    /\ \/ /\ sessions' = [sessions EXCEPT ![NodeOf(s)] = s]
          /\ Goto(s, [Rest EXCEPT !.pc = "read"])
       \/ /\ May("lose")
          /\ Goto(s, [Rest EXCEPT !.pc = "close"])
          /\ sessions' = sessions
    /\ UNCHANGED <<db, active, pending, result, run, dups, answer, net, env>>

\* The reader takes the next message, of this type.
Receive(s, type) ==
    /\ At(s, "read")
    /\ mail[s] # <<>>
    /\ Head(mail[s]).type = type
    /\ mail' = [mail EXCEPT ![s] = Tail(@)]

\* job.accepted: MarkAccepted.  An attempt that is no longer offered, or an
\* acceptance after the window, is an error, and errors end the session.
JobAccepted(s) ==
    /\ Receive(s, "accepted")
    /\ LET a == Head(mail[s]).att
           j == JobOf(a)
       IN  \/ /\ att[a].st = "offered"
              /\ att' = [att EXCEPT ![a].st = "accepted"]
              /\ job' = IF job[j] # "succeeded" THEN [job EXCEPT ![j] = "running"] ELSE job
              /\ th' = th
           \/ /\ May("late") \/ May("db") \/ att[a].st # "offered"
              /\ Goto(s, Erred(th[s]))
              /\ UNCHANGED <<job, att>>
    /\ UNCHANGED <<charged, credited, open, mem, answer, conn, offer, work, env>>

\* Mutant: MarkStarted without its condition on the status.
JobStartedAlways(s) ==
    /\ Receive(s, "started")
    /\ att' = [att EXCEPT ![Head(mail[s]).att].st = "running"]
    /\ UNCHANGED <<job, charged, credited, open, mem, th, answer, conn, offer, work, env>>

\* job.started: MarkStarted.
JobStarted(s) ==
    /\ Receive(s, "started")
    /\ LET a == Head(mail[s]).att
           j == JobOf(a)
       IN  \/ /\ att[a].st \in {"accepted", "running"}
              /\ att' = [att EXCEPT ![a].st = "running"]
              /\ job' = IF job[j] # "succeeded" THEN [job EXCEPT ![j] = "running"] ELSE job
              /\ th' = th
           \/ /\ May("db") \/ att[a].st \notin {"accepted", "running"}
              /\ Goto(s, Erred(th[s]))
              /\ UNCHANGED <<job, att>>
    /\ UNCHANGED <<charged, credited, open, mem, answer, conn, offer, work, env>>

\* job.rejected and job.failed, up to the first transaction: a duplicate is
\* dropped from the maps, anything else is an attempt failure.
JobRefused(s) ==
    /\ Receive(s, "rejected") \/ Receive(s, "failed")
    /\ LET m == Head(mail[s])
           n == NodeOf(s)
       IN  \/ /\ m.att \in dups
              /\ dups' = dups \ {m.att}
              /\ ClearActive(n)
              /\ run' = run
              /\ Goto(s, [Rest EXCEPT !.pc = "dupFail", !.att = m.att])
           \/ /\ m.att \notin dups
              /\ dups' = dups
              /\ StartFailure(s, n, JobOf(m.att), m.att, m.good)
    /\ UNCHANGED <<db, sessions, pending, result, answer, conn, offer, work, env>>

\* job.completed, up to the first transaction.  good says whether
\* verifyCompletion, which reads the database, and
\* ValidateCompletionForAcceptance pass.  A result of an
\* attempt in duplicates is for verification; one that does not pass fails the
\* job; for one that passes, the run is copied for maybeStartDuplicate.
JobCompleted(s) ==
    /\ Receive(s, "completed")
    /\ LET a == Head(mail[s]).att
           t == [Rest EXCEPT !.att = a, !.job = JobOf(a)]
       IN  \E good \in BOOLEAN :
             /\ good = Head(mail[s]).good \/ (May("db") /\ ~good)
             /\ \/ /\ a \in dups
                   /\ dups' = dups \ {a}
                   /\ ClearActive(NodeOf(s))
                   /\ Goto(s, [t EXCEPT !.pc = "dupDone", !.kind = IF good THEN "good" ELSE "bad"])
                \/ /\ a \notin dups /\ ~good
                   /\ ClearActive(NodeOf(s))
                   /\ dups' = dups
                   /\ Goto(s, [t EXCEPT !.pc = "failJob", !.kind = "reject"])
                \/ /\ a \notin dups /\ good
                   /\ UNCHANGED <<active, dups>>
                   /\ Goto(s, [t EXCEPT !.pc = "complete",
                                        !.kind = IF run[t.job].live THEN "dup" ELSE "plain"])
    /\ UNCHANGED <<db, sessions, pending, result, run, answer, conn, offer, work, env>>

\* Mutant: a second success is refused per attempt, not per job.
CanCompletePerAttempt(a) == att[a].st # "succeeded"

\* What CompleteJob requires of the rows.  The last conjunct is the unique index
\* ledger_transactions_one_job_acceptance.
CanComplete(a) ==
    /\ \A b \in Attempt : JobOf(b) = JobOf(a) => att[b].st # "succeeded"
    /\ att[a].st \in {"accepted", "running"}
    /\ charged[JobOf(a)] = {}

\* CompleteJob: result, ledger posting, attempt and job in one transaction.  It
\* fails when CanComplete does not hold or the result came after the deadline.
CompleteJob(s) ==
    /\ At(s, "complete")
    /\ LET a == th[s].att
           j == th[s].job
       IN  \/ /\ CanComplete(a)
              /\ att' = [att EXCEPT ![a].st = "succeeded"]
              /\ job' = [job EXCEPT ![j] = "succeeded"]
              /\ charged' = [charged EXCEPT ![j] = @ \cup {a}]
              /\ Goto(s, [th[s] EXCEPT !.pc = "completed"])
           \/ /\ May("late") \/ May("db") \/ ~CanComplete(a)
              /\ Goto(s, [th[s] EXCEPT !.pc = "clear"])
              /\ UNCHANGED <<job, att, charged>>
    /\ UNCHANGED <<credited, open, mem, answer, net, env>>

\* Mutant: the error of CompleteJob is not returned.
CompleteFailedIgnored(s) ==
    /\ At(s, "clear")
    /\ ClearActive(NodeOf(s))
    /\ Goto(s, [th[s] EXCEPT !.pc = "finish"])
    /\ UNCHANGED <<db, sessions, pending, result, run, dups, answer, net, env>>

\* After a failed CompleteJob: clearActive, and the error ends the session.
CompleteFailed(s) ==
    /\ At(s, "clear")
    /\ ClearActive(NodeOf(s))
    /\ Goto(s, Erred(th[s]))
    /\ UNCHANGED <<db, sessions, pending, result, run, dups, answer, net, env>>

\* After CompleteJob: clearActive; a sampled job whose run was still there goes
\* through maybeStartDuplicate first.
Completed(s) ==
    /\ At(s, "completed")
    /\ ClearActive(NodeOf(s))
    /\ Goto(s, [th[s] EXCEPT !.pc = IF th[s].kind = "dup" /\ th[s].job \in Sampled
                                    THEN "select" ELSE "finish"])
    /\ UNCHANGED <<db, sessions, pending, result, run, dups, answer, net, env>>

\* removeRun, notify with the response.
Finish(s) ==
    /\ At(s, "finish")
    /\ Notify(th[s].job, "ok")
    /\ Goto(s, Returned(th[s]))
    /\ UNCHANGED <<db, sessions, active, dups, answer, net, env>>

\* Mutant: an attempt failure without an attempt id is never finished.
FailAttemptStuck(s) ==
    /\ At(s, "failAttempt") /\ th[s].att # None
    /\ FailAttemptRows(th[s].job, th[s].att)
    /\ Goto(s, [th[s] EXCEPT !.pc = "expire"])
    /\ UNCHANGED <<charged, credited, open, mem, answer, net, env>>

\* handleAttemptFailure with a retry: FailAttempt.  Without an attempt id the
\* reputation update finds no row, and the transaction fails.
FailAttempt(s) ==
    /\ At(s, "failAttempt")
    /\ LET t == th[s]
       IN  \/ /\ t.att # None
              /\ FailAttemptRows(t.job, t.att)
              /\ Goto(s, [t EXCEPT !.pc = "expire"])
           \/ /\ May("db") \/ t.att = None
              /\ Goto(s, Erred(t))
              /\ UNCHANGED <<job, att>>
    /\ UNCHANGED <<charged, credited, open, mem, answer, net, env>>

\* FailJob: the end of handleAttemptFailure, where its error is returned, and of
\* a refused completion, where it is ignored.
FailJob(s) ==
    /\ At(s, "failJob")
    /\ LET t == th[s]
       IN  \/ /\ FailJobRows(t.job, t.att)
              /\ Goto(s, [t EXCEPT !.pc = "failDone"])
           \/ /\ May("db")
              /\ Goto(s, IF t.kind = "reject" THEN [t EXCEPT !.pc = "failDone"] ELSE Erred(t))
              /\ UNCHANGED <<job, att>>
    /\ UNCHANGED <<charged, credited, open, mem, answer, net, env>>

\* removeRun, notify with the error.
FailDone(s) ==
    /\ At(s, "failDone")
    /\ Notify(th[s].job, "error")
    /\ Goto(s, Returned(th[s]))
    /\ UNCHANGED <<db, sessions, active, dups, answer, net, env>>

\* A refused or failed duplicate: MarkVerificationAttemptFailed, errors ignored.
DuplicateFailed(s) ==
    /\ At(s, "dupFail")
    /\ LET a == th[s].att
       IN  \/ att' = IF att[a].st \in Live THEN [att EXCEPT ![a].st = "failed"] ELSE att
           \/ May("db") /\ att' = att
    /\ Goto(s, Returned(th[s]))
    /\ UNCHANGED <<job, charged, credited, open, mem, answer, net, env>>

\* handleDuplicateCompletion: the attempt becomes verified when the contents
\* agree and failed otherwise, provided it still is in a status that allows it;
\* an acceptable result goes on to PostVerificationOverhead either way.  After a
\* result that does not pass, a database error is ignored (verifyCompletion
\* failed) or ends the session (ValidateCompletionForAcceptance failed).
DuplicateCompleted(s) ==
    /\ At(s, "dupDone")
    /\ LET a == th[s].att
           good == th[s].kind = "good"
       IN  \/ /\ good      \* and the contents agree
              /\ att' = IF att[a].st \in {"accepted", "running"}
                        THEN [att EXCEPT ![a].st = "verified"] ELSE att
              /\ Goto(s, [th[s] EXCEPT !.pc = "credit"])
           \/ /\ att' = IF att[a].st \in Live THEN [att EXCEPT ![a].st = "failed"] ELSE att
              /\ Goto(s, IF good THEN [th[s] EXCEPT !.pc = "credit"] ELSE Returned(th[s]))
           \/ /\ May("db") /\ ~good
              /\ att' = IF att[a].st \in Live THEN [att EXCEPT ![a].st = "failed"] ELSE att
              /\ Goto(s, Erred(th[s]))
           \/ /\ May("db")
              /\ att' = att
              /\ Goto(s, Erred(th[s])) \/ (~good /\ Goto(s, Returned(th[s])))
    /\ UNCHANGED <<job, charged, credited, open, mem, answer, net, env>>

\* RecordDuplicateOutcome, whose error ends the session, then
\* PostVerificationOverhead, whose error is ignored; host_credit_holds allows one
\* hold per attempt.
CreditDuplicate(s) ==
    /\ At(s, "credit")
    /\ \/ credited' = credited \cup {th[s].att} /\ Goto(s, Returned(th[s]))
       \/ May("db") /\ credited' = credited /\ Goto(s, Returned(th[s]))
       \/ May("db") /\ credited' = credited /\ Goto(s, Erred(th[s]))
    /\ UNCHANGED <<job, att, charged, open, mem, answer, net, env>>

\* The websocket read fails: the connection is gone.
Lose(s) ==
    /\ At(s, "read") /\ May("lose")
    /\ Goto(s, Erred(th[s]))
    /\ UNCHANGED <<db, mem, answer, net, env>>

\* Mutant: the session to remove is not compared with the registered one.
DetachAny(s) ==
    /\ At(s, "detach")
    /\ LET n == NodeOf(s)
       IN  /\ sessions' = [sessions EXCEPT ![n] = None]
           /\ \/ /\ active[n] = None
                 /\ Goto(s, [Rest EXCEPT !.pc = "close"])
                 /\ UNCHANGED <<active, run>>
              \/ /\ active[n] # None
                 /\ StartFailure(s, n, active[n].job, active[n].att, TRUE)
    /\ mail' = [mail EXCEPT ![s] = <<>>]
    /\ offer' = [offer EXCEPT ![s] = <<>>]
    /\ work' = [work EXCEPT ![s] = None]
    /\ UNCHANGED <<db, pending, result, dups, answer, conn, env>>

\* Mutant: a node without a job is not unregistered.
DetachBusyOnly(s) ==
    /\ At(s, "detach")
    /\ LET n == NodeOf(s)
       IN  \/ /\ sessions[n] # s \/ active[n] = None
              /\ Goto(s, [Rest EXCEPT !.pc = "close"])
              /\ UNCHANGED <<sessions, active, run>>
           \/ /\ sessions[n] = s /\ active[n] # None
              /\ sessions' = [sessions EXCEPT ![n] = None]
              /\ StartFailure(s, n, active[n].job, active[n].att, TRUE)
    /\ mail' = [mail EXCEPT ![s] = <<>>]
    /\ offer' = [offer EXCEPT ![s] = <<>>]
    /\ work' = [work EXCEPT ![s] = None]
    /\ UNCHANGED <<db, pending, result, dups, answer, conn, env>>

\* The function AttachSession returned.  If the node has another session by now
\* it does nothing; otherwise the node is unregistered and the job it was
\* reserved for, if any, has an attempt failure.
Detach(s) ==
    /\ At(s, "detach")
    /\ LET n == NodeOf(s)
           close == Goto(s, [Rest EXCEPT !.pc = "close"])
       IN  \/ /\ sessions[n] # s
              /\ close
              /\ UNCHANGED <<sessions, active, run>>
           \/ /\ sessions[n] = s
              /\ sessions' = [sessions EXCEPT ![n] = None]
              /\ \/ /\ active[n] = None
                    /\ close
                    /\ UNCHANGED <<active, run>>
                 \/ /\ active[n] # None
                    /\ StartFailure(s, n, active[n].job, active[n].att, TRUE)
    /\ mail' = [mail EXCEPT ![s] = <<>>]
    /\ offer' = [offer EXCEPT ![s] = <<>>]
    /\ work' = [work EXCEPT ![s] = None]
    /\ UNCHANGED <<db, pending, result, dups, answer, conn, env>>

\* CloseSession, its error ignored: the row stays connected until it is stale.
CloseSession(s) ==
    /\ At(s, "close")
    /\ \/ open' = open \ {s}
       \/ May("db") /\ open' = open
    /\ Goto(s, [Rest EXCEPT !.pc = "closed"])
    /\ UNCHANGED <<job, att, charged, credited, mem, answer, net, env>>

-----------------------------------------------------------------------------
(* The node at the other end of session s: handleJobOffer.                 *)

Post(s, ms) == mail' = [mail EXCEPT ![s] = @ \o ms]

Msg(type, a, good) == [type |-> type, att |-> a, good |-> good]

\* claimJob refuses the offer; the rejection is always retryable.
NodeReject(s) ==
    /\ May("refuse")
    /\ Connected(s) /\ work[s] = None /\ offer[s] # <<>>
    /\ offer' = [offer EXCEPT ![s] = Tail(@)]
    /\ Post(s, <<Msg("rejected", Head(offer[s]), TRUE)>>)
    /\ UNCHANGED <<db, mem, th, answer, conn, work, env>>

\* claimJob takes it: job.accepted and job.started are written.
NodeAccept(s) ==
    /\ Connected(s) /\ work[s] = None /\ offer[s] # <<>>
    /\ offer' = [offer EXCEPT ![s] = Tail(@)]
    /\ work' = [work EXCEPT ![s] = Head(offer[s])]
    /\ Post(s, <<Msg("accepted", Head(offer[s]), TRUE), Msg("started", Head(offer[s]), TRUE)>>)
    /\ UNCHANGED <<db, mem, th, answer, conn, env>>

\* The runtime answers or fails, retryably or not; a result may or may not pass
\* the coordinator's checks.
NodeFinish(s) ==
    /\ Connected(s) /\ work[s] # None
    /\ work' = [work EXCEPT ![s] = None]
    /\ \E type \in {"failed", "completed"}, good \in BOOLEAN :
          /\ May("refuse") \/ (type = "completed" /\ good)
          /\ Post(s, <<Msg(type, work[s], good)>>)
    /\ UNCHANGED <<db, mem, th, answer, conn, offer, env>>

-----------------------------------------------------------------------------
(* Operators and crashes.                                                  *)

\* operator.CancelJob: the rows only; the maps and the node are not told.
OperatorCancel(j) ==
    /\ ops < MaxOps /\ ops' = ops + 1
    /\ job[j] # "none"
    /\ att' = [a \in Attempt |-> IF JobOf(a) = j /\ att[a].st \in Live
                                 THEN [att[a] EXCEPT !.st = "cancelled"] ELSE att[a]]
    /\ job' = IF job[j] # "succeeded" THEN [job EXCEPT ![j] = "cancelled"] ELSE job
    /\ UNCHANGED <<charged, credited, open, mem, th, answer, net, crashes>>

\* operator.RetryJob.
OperatorRetry(j) ==
    /\ ops < MaxOps /\ ops' = ops + 1
    /\ job[j] \in {"failed", "cancelled"}
    /\ job' = [job EXCEPT ![j] = "queued"]
    /\ UNCHANGED <<att, charged, credited, open, mem, th, answer, net, crashes>>

\* PGStore.CancelJob, for a developer.
CancelJob(j) ==
    /\ ops < MaxOps /\ ops' = ops + 1
    /\ job[j] \in {"queued", "leased"}
    /\ job' = [job EXCEPT ![j] = "cancelled"]
    /\ UNCHANGED <<att, charged, credited, open, mem, th, answer, net, crashes>>

NewRun == [live |-> FALSE, attempts |-> 0, excluded |-> {}]

\* The coordinator process dies and is started again: the maps, the goroutines
\* and the connections are gone, the rows stay, and nothing repairs them.
Restart ==
    /\ crashes < MaxCrashes /\ crashes' = crashes + 1
    /\ sessions' = [n \in Node |-> None]
    /\ active' = [n \in Node |-> None]
    /\ pending' = {}
    /\ result' = [j \in Job |-> "none"]
    /\ run' = [j \in Job |-> NewRun]
    /\ dups' = {}
    /\ th' = [p \in Proc |-> IF At(p, "off") THEN th[p]
                             ELSE [Rest EXCEPT !.pc = IF p \in Job THEN "done" ELSE "closed"]]
    /\ mail' = [s \in Session |-> <<>>]
    /\ offer' = [s \in Session |-> <<>>]
    /\ work' = [s \in Session |-> None]
    /\ answer' = [j \in Job |-> IF At(j, "off") \/ answer[j] # "none" THEN answer[j] ELSE "lost"]
    /\ UNCHANGED <<db, conn, ops>>

-----------------------------------------------------------------------------
Init ==
    /\ job = [j \in Job |-> "none"]
    /\ att = [a \in Attempt |-> [st |-> "none", on |-> None, dup |-> FALSE]]
    /\ charged = [j \in Job |-> {}]
    /\ credited = {}
    /\ open = {}
    /\ sessions = [n \in Node |-> None]
    /\ active = [n \in Node |-> None]
    /\ pending = {}
    /\ result = [j \in Job |-> "none"]
    /\ run = [j \in Job |-> NewRun]
    /\ dups = {}
    /\ th = [p \in Proc |-> Rest]
    /\ answer = [j \in Job |-> "none"]
    /\ conn = [n \in Node |-> 0]
    /\ mail = [s \in Session |-> <<>>]
    /\ offer = [s \in Session |-> <<>>]
    /\ work = [s \in Session |-> None]
    /\ ops = 0
    /\ crashes = 0

\* Scheduling, in whichever goroutine runs it.
ScheduleStep(p) ==
    \/ ExpireLeases(p) \/ NextExpired(p) \/ FailExpired(p) \/ ExpiredDone(p)
    \/ Select(p) \/ Reserve(p) \/ Create(p) \/ Announce(p) \/ Send(p) \/ Unsend(p)

HandlerStep(j) == Abandon(j) \/ TakeResult(j) \/ TimeOut(j) \/ GiveUp(j)

\* What a session's reader does before its first read and between two reads.
ReaderStep(s) ==
    \/ CompleteJob(s) \/ CompleteFailed(s) \/ Completed(s) \/ Finish(s)
    \/ FailAttempt(s) \/ FailJob(s) \/ FailDone(s)
    \/ DuplicateFailed(s) \/ DuplicateCompleted(s) \/ CreditDuplicate(s)
    \/ AttachSession(s) \/ Detach(s) \/ CloseSession(s)

ReceiveStep(s) ==
    \/ JobAccepted(s) \/ JobStarted(s) \/ JobRefused(s) \/ JobCompleted(s)

NodeStep(s) == NodeReject(s) \/ NodeAccept(s) \/ NodeFinish(s)

Next ==
    \/ \E j \in Job : Submit(j) \/ HandlerStep(j)
    \/ \E p \in Proc : ScheduleStep(p)
    \/ \E n \in Node : OpenSession(n)
    \/ \E s \in Session : ReceiveStep(s) \/ ReaderStep(s) \/ NodeStep(s) \/ Lose(s)
    \/ \E j \in Job : OperatorCancel(j) \/ OperatorRetry(j) \/ CancelJob(j)
    \/ Restart

Spec == Init /\ [][Next]_vars

\* A goroutine that can run is run; the timer of a waiting handler fires.  Nothing
\* is assumed of nodes, callers and operators.
Fairness ==
    /\ \A j \in Job : WF_vars(ScheduleStep(j) \/ HandlerStep(j))
    /\ \A s \in Session : WF_vars(ScheduleStep(s) \/ ReaderStep(s))

FairSpec == Spec /\ Fairness

-----------------------------------------------------------------------------
(* Properties.                                                             *)

\* Every row, map, channel, message and local has a value of its type.
TypeOK ==
    /\ job \in [Job -> JobState]
    /\ att \in [Attempt -> AttemptRow]
    /\ charged \in [Job -> SUBSET Attempt]
    /\ credited \in SUBSET Attempt
    /\ open \in SUBSET Session
    /\ sessions \in [Node -> Session \cup {None}]
    /\ active \in [Node -> Reservation \cup {None}]
    /\ pending \in SUBSET Job
    /\ result \in [Job -> {"none", "ok", "error"}]
    /\ run \in [Job -> RunState]
    /\ dups \in SUBSET Attempt
    /\ th \in [Proc -> Thread]
    /\ answer \in [Job -> {"none", "ok", "error", "lost"}]
    /\ conn \in [Node -> Nat]
    /\ mail \in [Session -> Seq(Message)]
    /\ offer \in [Session -> Seq(Attempt)]
    /\ work \in [Session -> Attempt \cup {None}]
    /\ ops \in 0..MaxOps
    /\ crashes \in 0..MaxCrashes

\* A job is charged at most once, for one of its own attempts, and never for a
\* duplicate-verification attempt, however completions, retries, lease expiry,
\* reconnects, operator actions and restarts interleave (CompleteJob).
ChargedOnce ==
    \A j \in Job : \A a, b \in charged[j] : a = b /\ JobOf(a) = j /\ ~att[a].dup

\* No lost wakeup: a handler that waits is registered in pending or its channel
\* already holds the result (RegisterWait, notify, AbandonWait).
WaiterIsReachable ==
    \A j \in Job : At(j, "wait") => j \in pending \/ result[j] # "none"

\* No registration outlives its connection: the session registered for a node is
\* one of its own, and its reader still listens or is about to run the function
\* AttachSession returned.
RegisteredIsServed ==
    \A n \in Node : sessions[n] # None =>
        NodeOf(sessions[n]) = n /\ (Listening(sessions[n]) \/ At(sessions[n], "detach"))

\* And none ends before it: while its reader listens, the registration of a
\* session is taken only by the AttachSession of another connection of the node,
\* never by the late end of an older one.
RegistrationKept ==
    [][\A s \in Session : sessions[NodeOf(s)] = s /\ Listening(s)' =>
          \/ sessions'[NodeOf(s)] = s
          \/ \E r \in Session : /\ NodeOf(r) = NodeOf(s) /\ sessions'[NodeOf(s)] = r
                                /\ At(r, "attach") /\ At(r, "read")']_vars

\* A node is reserved without an attempt only while some goroutine is between
\* the reservation and setActive for that node and job: no path leaks the
\* reservation (scheduleAttemptInternal, maybeStartDuplicate).
NoLeakedReservation ==
    \A n \in Node : active[n] # None /\ active[n].att = None =>
        \E p \in Proc : /\ th[p].pc \in {"create", "announce"}
                        /\ NodeOf(th[p].pick) = n
                        /\ Target(th[p]) = active[n].job

\* A duplicate is made only of work that was charged, and runs on another node
\* than that work did (maybeStartDuplicate); it earns its host a verification
\* credit and never the customer's charge as well.
DuplicateElsewhere ==
    \A d \in Attempt : att[d].dup =>
        /\ \E a \in charged[JobOf(d)] : NodeOf(att[a].on) # NodeOf(att[d].on)
        /\ d \notin charged[JobOf(d)]

\* An attempt that has finished never becomes live again, so a late or repeated
\* acceptance cannot revive work that was expired, failed, cancelled or charged.
FinishedForever ==
    [][\A a \in Attempt : att[a].st \in Finished => att'[a].st \in Finished]_vars

\* A reader that has begun to handle a message or the loss of its session comes
\* back to reading or closes the session.
ReaderReturns ==
    \A s \in Session : th[s].pc \notin {"off", "read", "closed"}
                          ~> th[s].pc \in {"read", "closed"}

\* The caller's contract, implemented: a job is asked for when its handler
\* starts, paid when it has a posted charge, told what its caller was told.
Contract == INSTANCE JobContract WITH
                asked <- {j \in Job : ~At(j, "off")},
                paid  <- {j \in Job : charged[j] # {}},
                told  <- answer

\* Every behaviour of the routing code is one the contract allows: one charge at
\* most, one final answer, success only for a charged job.
KeepsContract == Contract!CSpec

\* And, with the goroutines scheduled and the timer firing, every caller is
\* answered or loses its connection to a crash.
KeepsContractFairly == Contract!CFairSpec

-----------------------------------------------------------------------------
(* Statements of the documentation that the code does not keep.            *)

\* "The scheduler retries transient attempt failures exactly once": a job never
\* has more than two attempts of its own.
RetriedOnce ==
    \A j \in Job : Cardinality({a \in Attempt : /\ JobOf(a) = j
                                                /\ att[a].st # "none"
                                                /\ ~att[a].dup}) <= 2

\* "Result persistence, job success, and ledger posting commit together": a
\* charged job is in state succeeded.
ChargedJobSucceeded ==
    \A j \in Job : charged[j] # {} => job[j] = "succeeded"

\* "A lost session marks the attempt transiently failed": when a session has been
\* closed, no attempt offered on it is live.
LostSessionFailsAttempt ==
    \A a \in Attempt : att[a].st \in Live => ~At(att[a].on, "closed")

\* "A matching duplicate result ... posts verification host credit", "A
\* disagreement records a rejected verification event": credit is for verified
\* duplicates only.
CreditedIsVerified ==
    \A a \in credited : att[a].st = "verified"

\* "Cancellation is best effort after execution starts": a job cancelled before
\* it had any attempt is not leased to a node.
CancelledNotLeased ==
    [][\A j \in Job :
          job[j] = "cancelled" /\ (\A a \in Attempt : JobOf(a) = j => att[a].st = "none")
              => job'[j] # "leased"]_vars
=============================================================================
