------------------------ MODULE JobRoutingInvariant -------------------------
(***************************************************************************)
(* The inductive invariant of JobRouting, for every number of jobs, nodes, *)
(* sessions, attempts, operator requests and crashes, and every set of     *)
(* faults, and the first part of the proof that steps preserve it: types,  *)
(* and what the rows never lose.                                           *)
(*                                                                         *)
(* Its parts say what a goroutine knows at each program counter (Threads), *)
(* what the rows say of each other (Rows), that a node only talks about    *)
(* attempts offered to it (Traffic), what a waiting handler may rely on    *)
(* (Waiting), that a registered session has a reader (RegisteredIsServed), *)
(* that a connection not made yet has none (Fresh), and who fills in a     *)
(* reservation (Reserved).                                                 *)
(***************************************************************************)
EXTENDS JobRouting, TLAPS

Placing     == {"create", "announce", "send", "unsend"}
Scheduling  == Placing \cup {"expire", "expired", "select", "reserve",
                             "failExpired", "expiredDone"}
Unwaiting   == {"off", "abandon", "abandonFail", "giveup", "done"}

Asked(j) == ~At(j, "off")
Known(a) == att[a].st # "none"

\* Goroutine p runs code its kind of goroutine runs: the handler of a job, or the
\* reader of a session.
RightCode(p) ==
    /\ p \in Job => \/ th[p].pc \in Unwaiting \cup {"wait"}
                    \/ th[p].pc \in Scheduling
    /\ p \in Job /\ th[p].pc \in Scheduling \cup {"abandon", "abandonFail"}
            => th[p].kind = "client" /\ th[p].job = p
    /\ p \in Session => th[p].kind # "client" /\ th[p].pc \notin (Unwaiting \ {"off"}) \cup {"wait"}
    /\ th[p].pc \in {"attach", "read"} => ~th[p].closing

\* Inside the scheduling code: the job is known, and so are the chosen session and
\* the new attempt once there are any.
Scheduler(p) ==
    LET t == th[p] IN
    /\ t.pc \in Scheduling => t.job \in Job
    /\ t.pc \in {"failExpired", "expiredDone"} => t.cur # None
    /\ t.pc \in Placing => t.pick \in Session /\ t.new \in Attempt /\ JobOf(t.new) = Target(t)
    /\ t.pc \in Placing \ {"create"} => Known(t.new) /\ att[t.new].on = t.pick
    /\ t.pc \in Placing /\ ForDuplicate(t) => NodeOf(t.pick) # NodeOf(p)
    /\ \A a \in t.todo : Known(a)
    /\ t.cur # None => Known(t.cur)

\* Inside a message handler: the attempt is one of the session's own; past
\* CompleteJob it is the charged one.
Handler(p) ==
    LET t == th[p] IN
    /\ t.job # None => Asked(t.job)
    /\ t.att # None => Known(t.att)
    /\ t.pc \in {"failAttempt", "failJob", "failDone"} => t.job \in Job
    /\ t.pc \in {"complete", "clear", "completed", "dupFail", "dupDone", "credit"} => t.att \in Attempt
    /\ t.pc \in {"complete", "completed"} =>
          t.job = JobOf(t.att) /\ NodeOf(att[t.att].on) = NodeOf(p)
    /\ t.pc \in {"completed", "finish"} \/ (t.kind = "dup" /\ t.pc \notin {"complete", "clear"}) =>
          /\ t.job \in Job
          /\ t.att \in charged[t.job]
          /\ NodeOf(att[t.att].on) = NodeOf(p)

ThreadOK(p) == RightCode(p) /\ Scheduler(p) /\ Handler(p)
Threads == \A p \in Proc : ThreadOK(p)

\* Attempts belong to asked jobs and to the session they were offered on;
\* charges are for known attempts that are no duplicates.
Rows ==
    /\ \A a \in Attempt : Known(a) => att[a].on \in Session /\ Asked(JobOf(a))
    /\ \A a \in Attempt : att[a].dup =>
          Known(a) /\ \E b \in charged[JobOf(a)] : NodeOf(att[b].on) # NodeOf(att[a].on)
    /\ \A j \in Job : \A a, b \in charged[j] : a = b /\ JobOf(a) = j /\ Known(a) /\ ~att[a].dup

\* What travels on session s is about attempts offered on s.
Own(s, a) == Known(a) /\ att[a].on = s
OwnTraffic(s) ==
    /\ \A i \in DOMAIN offer[s] : Own(s, offer[s][i])
    /\ \A i \in DOMAIN mail[s] : Own(s, mail[s][i].att)
    /\ work[s] # None => Own(s, work[s])
Traffic == \A s \in Session : OwnTraffic(s)

\* Until its handler stops waiting a job is registered or its result is there;
\* an "ok" is there only for a charged job; an answer is the handler's last step.
Waiting ==
    \A j \in Job :
        /\ th[j].pc \notin Unwaiting => j \in pending \/ result[j] # "none"
        /\ result[j] = "ok" => charged[j] # {}
        /\ answer[j] # "none" => At(j, "done")

\* A connection that was not made yet has no reader.
Fresh == \A s \in Session : conn[NodeOf(s)] < s[2] => At(s, "off")

\* Nodes are reserved for jobs asked for, with attempts that are there.
Reserved ==
    /\ NoLeakedReservation
    /\ \A n \in Node : active[n] # None =>
          Asked(active[n].job) /\ (active[n].att # None => Known(active[n].att))

IInv ==
    /\ TypeOK
    /\ Threads
    /\ Rows
    /\ Traffic
    /\ Waiting
    /\ RegisteredIsServed
    /\ Fresh
    /\ Reserved

-----------------------------------------------------------------------------
(* The pieces the actions are made of.                                     *)

\* An attempt names its job; a session its node and its rank.
LEMMA Ids ==
    /\ \A a \in Attempt : JobOf(a) \in Job
    /\ \A s \in Session : NodeOf(s) \in Node /\ s[2] \in Nat /\ s = <<NodeOf(s), s[2]>>
    /\ None \notin Proc /\ None \notin Attempt
    /\ Job \cap Session = {}
BY SetAssumption DEF Attempt, Proc, JobOf, NodeOf

\* The locals a goroutine has after each kind of return are of their type.
LEMMA ThreadType ==
    ASSUME NEW t \in Thread, NEW api \in BOOLEAN
    PROVE  /\ Rest \in Thread
           /\ \A pc \in PC : [t EXCEPT !.pc = pc] \in Thread /\ [Rest EXCEPT !.pc = pc] \in Thread
           /\ Returned(t) \in Thread
           /\ Erred(t) \in Thread
           /\ Expired(t) \in Thread
           /\ Scheduled(t) \in Thread
           /\ Unscheduled(t, api) \in Thread
<1>1. Rest \in Thread
  BY DEF Rest, Thread, PC
<1>2. \A pc \in PC : [t EXCEPT !.pc = pc] \in Thread /\ [Rest EXCEPT !.pc = pc] \in Thread
  BY ZenonT(60) DEF Rest, Thread
<1>3. Returned(t) \in Thread /\ Erred(t) \in Thread
  BY ZenonT(60), <1>2 DEF Returned, Erred, PC
<1>4. {"select", "expired", "finish", "wait", "failExpired", "abandon", "abandonFail", "failJob"}
          \subseteq PC
  BY DEF PC
<1>5. Expired(t) \in Thread
  <2>1. CASE t.todo = {}
    BY ZenonT(60), <1>4, <2>1 DEF Expired, Thread
  <2>2. CASE t.todo # {}
    BY ZenonT(60), <1>4, <2>2 DEF Expired, Thread
  <2> QED
    BY <2>1, <2>2
<1>6. Scheduled(t) \in Thread
  <2>1. [t EXCEPT !.pc = "finish", !.pick = None, !.new = None] \in Thread
    BY ZenonT(60), <1>4 DEF Thread
  <2>2. [Rest EXCEPT !.pc = "wait"] \in Thread
    BY ZenonT(60), <1>4 DEF Thread, Rest
  <2> QED
    BY <1>3, <1>5, <2>1, <2>2 DEF Scheduled
<1>7. Unscheduled(t, api) \in Thread
  <2>1. [t EXCEPT !.pc = "failExpired", !.pick = None, !.new = None] \in Thread
    BY ZenonT(60), <1>4 DEF Thread
  <2>2. \A pc \in PC : [t EXCEPT !.pick = None, !.new = None, !.todo = {}, !.pc = pc] \in Thread
    BY ZenonT(60) DEF Thread
  <2> QED
    BY ZenonT(60), <1>4, <2>1, <2>2 DEF Unscheduled
<1> QED
  BY <1>1, <1>2, <1>3, <1>5, <1>6, <1>7

\* Which locals each of them keeps.
Kept(u, t) == u.kind = t.kind /\ u.job = t.job /\ u.att = t.att /\ u.closing = t.closing

\* What the loop of expireLeases keeps when it goes on.
LEMMA ExpiredFields ==
    ASSUME NEW t \in Thread
    PROVE  LET u == Expired(t)
           IN  /\ Kept(u, t) /\ u.todo = t.todo /\ u.cur = None
               /\ u.pc = IF t.todo = {} THEN "select" ELSE "expired"
BY DEF Expired, Thread, Kept

\* What scheduleAttemptInternal keeps when it returns an error, and where it goes.
LEMMA UnscheduledFields ==
    ASSUME NEW t \in Thread, NEW api \in BOOLEAN
    PROVE  LET u == Unscheduled(t, api)
           IN  /\ Kept(u, t)
               /\ t.cur # None => u.pc = "failExpired" /\ u.cur = t.cur /\ u.todo = t.todo
               /\ t.cur = None => /\ u.cur = None /\ u.todo = {}
                                  /\ t.kind = "client" => u.pc \in {"abandon", "abandonFail"}
                                  /\ t.kind = "dup" => u.pc = "finish"
                                  /\ t.kind \notin {"client", "dup"} => u.pc = "failJob"
<1>1. CASE t.cur # None
  BY <1>1 DEF Unscheduled, Thread, Kept
<1>2. CASE t.cur = None /\ t.kind = "client"
  BY <1>2 DEF Unscheduled, Thread, Kept
<1>3. CASE t.cur = None /\ t.kind = "dup"
  BY <1>3 DEF Unscheduled, Thread, Kept
<1>4. CASE t.cur = None /\ t.kind \notin {"client", "dup"}
  BY <1>4 DEF Unscheduled, Thread, Kept
<1> QED
  BY <1>1, <1>2, <1>3, <1>4

\* Where it goes when the offer went out.
LEMMA ScheduledFields ==
    ASSUME NEW t \in Thread
    PROVE  LET u == Scheduled(t)
           IN  /\ t.cur # None => u = Expired(t)
               /\ t.cur = None /\ t.kind = "client" => u = [Rest EXCEPT !.pc = "wait"]
               /\ t.cur = None /\ t.kind = "dup" =>
                     Kept(u, t) /\ u.pc = "finish" /\ u.todo = t.todo /\ u.cur = None
               /\ t.cur = None /\ t.kind \notin {"client", "dup"} => u = Returned(t)
<1>1. CASE t.cur # None
  BY <1>1 DEF Scheduled
<1>2. CASE t.cur = None /\ t.kind = "client"
  BY <1>2 DEF Scheduled
<1>3. CASE t.cur = None /\ t.kind = "dup"
  BY ZenonT(60), <1>3 DEF Scheduled, Thread, Kept
<1>4. CASE t.cur = None /\ t.kind \notin {"client", "dup"}
  BY <1>4 DEF Scheduled
<1> QED
  BY <1>1, <1>2, <1>3, <1>4

\* Goto moves one goroutine.
Moves(p) == \A q \in Proc : q # p => th'[q] = th[q]

\* Goto gives one goroutine new locals and leaves the others theirs.
LEMMA GotoMoves ==
    ASSUME th \in [Proc -> Thread], NEW p \in Proc, NEW t \in Thread, Goto(p, t)
    PROVE  th' \in [Proc -> Thread] /\ th'[p] = t /\ Moves(p)
BY ZenonT(60) DEF Goto, Moves

-----------------------------------------------------------------------------
(* Types.                                                                  *)

\* The rows after FailJob and FailAttempt, and the maps after notify.
LEMMA RowTypes ==
    ASSUME TypeOK
    PROVE  /\ \A a \in Attempt, st \in {"failed", "expired", "cancelled", "accepted", "running",
                                        "succeeded", "verified"} :
                 [att EXCEPT ![a].st = st] \in [Attempt -> AttemptRow]
           /\ \A j \in Job, st \in JobState : [job EXCEPT ![j] = st] \in [Job -> JobState]
           /\ {"failed", "queued", "leased", "running", "succeeded", "cancelled"} \subseteq JobState
<1>1. {"failed", "expired", "cancelled", "accepted", "running", "succeeded", "verified"}
         \subseteq {"none"} \cup Live \cup Finished
  BY DEF Live, Finished
<1>2. \A st \in {"none"} \cup Live \cup Finished, a \in Attempt :
         [att EXCEPT ![a].st = st] \in [Attempt -> AttemptRow]
  <2> TAKE st \in {"none"} \cup Live \cup Finished, a \in Attempt
  <2>1. att \in [Attempt -> AttemptRow]
    BY DEF TypeOK
  <2>2. [att[a] EXCEPT !.st = st] \in AttemptRow
    BY <2>1 DEF AttemptRow
  <2> QED
    BY <2>1, <2>2
<1>3. \A j \in Job, st \in JobState : [job EXCEPT ![j] = st] \in [Job -> JobState]
  BY DEF TypeOK
<1>4. {"failed", "queued", "leased", "running", "succeeded", "cancelled"} \subseteq JobState
  BY DEF JobState
<1> QED
  BY <1>1, <1>2, <1>3, <1>4

\* The updates of a run keep its type.
LEMMA RunTypes ==
    ASSUME TypeOK, NEW j \in Job
    PROVE  /\ \A n \in Node : [run EXCEPT ![j].excluded = @ \cup {n}] \in [Job -> RunState]
           /\ [run EXCEPT ![j].live = TRUE] \in [Job -> RunState]
           /\ [run EXCEPT ![j].live = FALSE] \in [Job -> RunState]
           /\ [run EXCEPT ![j].attempts = @ + 1] \in [Job -> RunState]
<1>1. run \in [Job -> RunState]
  BY DEF TypeOK
<1>2. \A n \in Node : [run[j] EXCEPT !.excluded = @ \cup {n}] \in RunState
  BY <1>1 DEF RunState
<1>3. [run[j] EXCEPT !.live = TRUE] \in RunState /\ [run[j] EXCEPT !.live = FALSE] \in RunState
  BY ZenonT(60), <1>1 DEF RunState
<1>4. [run[j] EXCEPT !.attempts = @ + 1] \in RunState
  BY <1>1 DEF RunState
<1>5. \A n \in Node : [run EXCEPT ![j].excluded = @ \cup {n}] \in [Job -> RunState]
  BY <1>1, <1>2
<1> QED
  BY <1>1, <1>3, <1>4, <1>5

\* FailJob keeps the types of the rows.
LEMMA FailJobTypes ==
    ASSUME TypeOK, NEW j \in Job, NEW a \in Attempt \cup {None}, FailJobRows(j, a)
    PROVE  job' \in [Job -> JobState] /\ att' \in [Attempt -> AttemptRow]
BY ZenonT(60), RowTypes DEF FailJobRows, TypeOK

\* FailAttempt keeps the types of the rows.
LEMMA FailAttemptTypes ==
    ASSUME TypeOK, NEW j \in Job, NEW a \in Attempt, FailAttemptRows(j, a)
    PROVE  job' \in [Job -> JobState] /\ att' \in [Attempt -> AttemptRow]
BY ZenonT(60), RowTypes DEF FailAttemptRows, TypeOK

\* removeRun and notify keep the types of the maps.
LEMMA NotifyTypes ==
    ASSUME TypeOK, NEW j \in Job, NEW r \in {"ok", "error"}, Notify(j, r)
    PROVE  /\ run' \in [Job -> RunState]
           /\ pending' \in SUBSET Job
           /\ result' \in [Job -> {"none", "ok", "error"}]
<1>1. run' \in [Job -> RunState]
  BY ZenonT(60), RunTypes DEF Notify
<1>2. pending' \in SUBSET Job /\ result' \in [Job -> {"none", "ok", "error"}]
  BY ZenonT(60) DEF Notify, TypeOK
<1> QED
  BY <1>1, <1>2

\* A handler's steps keep the types.
LEMMA HandlerTypes ==
    ASSUME TypeOK, NEW j \in Job, Submit(j) \/ HandlerStep(j)
    PROVE  TypeOK'
<1> USE DEF TypeOK, db, mem, net, env
<1>0. j \in Proc /\ {"expire", "done", "giveup"} \subseteq PC /\ Rest \in Thread
  BY ZenonT(60), ThreadType DEF Proc, PC, Rest, Thread
<1>1. CASE Submit(j)
  <2>1. [Rest EXCEPT !.pc = "expire", !.kind = "client", !.job = j] \in Thread
    BY ZenonT(60), <1>0 DEF Rest, Thread
  <2>2. th' \in [Proc -> Thread]
    BY <1>0, <1>1, <2>1, GotoMoves, ZenonT(60) DEF Submit
  <2> QED
    BY ZenonT(60), <1>1, <2>2, RunTypes DEF Submit, JobState
<1>2. \A pc \in {"done", "giveup"} : Goto(j, [Rest EXCEPT !.pc = pc]) => th' \in [Proc -> Thread]
  <2>1. [Rest EXCEPT !.pc = "done"] \in Thread /\ [Rest EXCEPT !.pc = "giveup"] \in Thread
    BY ZenonT(60), <1>0 DEF Rest, Thread
  <2> QED
    BY ZenonT(60), <1>0, <2>1, GotoMoves
<1>3. CASE Abandon(j)
  BY ZenonT(60), <1>2, <1>3, RunTypes DEF Abandon
<1>4. CASE TakeResult(j)
  BY <1>2, <1>4 DEF TakeResult
<1>5. CASE TimeOut(j)
  BY ZenonT(60), <1>2, <1>5, RunTypes DEF TimeOut
<1>6. CASE GiveUp(j)
  BY <1>2, <1>6, FailJobTypes DEF GiveUp
<1> QED
  BY <1>1, <1>3, <1>4, <1>5, <1>6 DEF HandlerStep

\* So do the steps of the scheduling code.
LEMMA ScheduleTypes ==
    ASSUME TypeOK, Threads, Rows, NEW p \in Proc, ScheduleStep(p)
    PROVE  TypeOK'
<1> DEFINE t == th[p]
<1> USE DEF db, mem, net, env
<1>0. /\ t \in Thread /\ th \in [Proc -> Thread] /\ att \in [Attempt -> AttemptRow]
      /\ Scheduler(p)
      /\ TRUE \in BOOLEAN /\ FALSE \in BOOLEAN
  BY DEF TypeOK, Threads, ThreadOK
<1>1. CASE ExpireLeases(p)
  <2>1. PICK expired \in SUBSET Attempt :
            \/ /\ expired \subseteq {a \in Attempt : May("lease") /\ att[a].st = "offered"}
               /\ att' = [a \in Attempt |-> IF a \in expired THEN [att[a] EXCEPT !.st = "expired"]
                                                             ELSE att[a]]
               /\ Goto(p, Expired([t EXCEPT !.todo = expired]))
            \/ att' = att /\ Goto(p, Unscheduled(t, FALSE))
    BY ZenonT(60), <1>1 DEF ExpireLeases
  <2>2. att' \in [Attempt -> AttemptRow]
    <3>1. \A a \in Attempt : [att[a] EXCEPT !.st = "expired"] \in AttemptRow
      BY <1>0 DEF AttemptRow, Finished
    <3> QED
      BY ZenonT(60), <1>0, <2>1, <3>1
  <2>3. [t EXCEPT !.todo = expired] \in Thread
    BY <1>0 DEF Thread
  <2>4. th' \in [Proc -> Thread]
    BY ZenonT(60), <1>0, <2>1, <2>3, ThreadType, GotoMoves
  <2> QED
    BY <1>1, <2>2, <2>4 DEF ExpireLeases, TypeOK
<1>2. CASE NextExpired(p)
  <2>1. PICK a \in t.todo :
            LET n == NodeOf(att[a].on)
                u == [t EXCEPT !.todo = @ \ {a}, !.cur = a]
            IN  /\ ClearActive(n)
                /\ \/ /\ run' = [run EXCEPT ![JobOf(a)].excluded = @ \cup {n}]
                      /\ Goto(p, [u EXCEPT !.pc = "select"])
                   \/ /\ run' = run
                      /\ Goto(p, [u EXCEPT !.pc = "failExpired"])
    BY ZenonT(60), <1>2 DEF NextExpired
  <2>2. a \in Attempt /\ NodeOf(att[a].on) \in Node /\ JobOf(a) \in Job
    BY <1>0, Ids DEF Thread, Scheduler, Rows
  <2>3. active' \in [Node -> Reservation \cup {None}]
    BY ZenonT(60), <2>1 DEF TypeOK, ClearActive
  <2>4. run' \in [Job -> RunState]
    <3>1. \A n \in Node : [run EXCEPT ![JobOf(a)].excluded = @ \cup {n}] \in [Job -> RunState]
      BY ZenonT(60), <2>2, RunTypes
    <3>2. run \in [Job -> RunState]
      BY DEF TypeOK
    <3> QED
      BY <2>1, <2>2, <3>1, <3>2, ZenonT(60)
  <2>5. {"select", "failExpired"} \subseteq PC
    BY DEF PC
  <2>6. th' \in [Proc -> Thread]
    <3>1. [t EXCEPT !.todo = @ \ {a}, !.cur = a] \in Thread
      BY ZenonT(60), <1>0, <2>2 DEF Thread
    <3> QED
      BY ZenonT(60), <1>0, <2>1, <2>5, <3>1, ThreadType, GotoMoves
  <2> QED
    BY <1>2, <2>3, <2>4, <2>6 DEF NextExpired, TypeOK
<1>3. CASE FailExpired(p)
  <2>1. t.cur \in Attempt /\ JobOf(t.cur) \in Job
    BY <1>0, <1>3, Ids DEF FailExpired, At, Scheduler, Thread
  <2>2. job' \in [Job -> JobState] /\ att' \in [Attempt -> AttemptRow]
    BY ZenonT(60), <1>3, <2>1, FailJobTypes DEF FailExpired, TypeOK
  <2>3. [t EXCEPT !.pc = "expiredDone"] \in Thread /\ [t EXCEPT !.cur = None] \in Thread
    <3>1. "expiredDone" \in PC
      BY DEF PC
    <3> QED
      BY <1>0, <3>1 DEF Thread
  <2>4. th' \in [Proc -> Thread]
    BY ZenonT(60), <1>0, <1>3, <2>3, ThreadType, GotoMoves DEF FailExpired
  <2> QED
    BY <1>3, <2>2, <2>4, ZenonT(60) DEF FailExpired, TypeOK
<1>4. CASE ExpiredDone(p)
  <2>1. t.cur \in Attempt /\ JobOf(t.cur) \in Job
    BY <1>0, <1>4, Ids DEF ExpiredDone, At, Scheduler, Thread
  <2>2. th' \in [Proc -> Thread]
    BY ZenonT(60), <1>0, <1>4, ThreadType, GotoMoves DEF ExpiredDone
  <2> QED
    BY <1>4, <2>1, <2>2, NotifyTypes, ZenonT(60) DEF ExpiredDone, TypeOK
<1>5. CASE Select(p)
  <2>1. \A s \in Session \cup {None} : [t EXCEPT !.pc = "reserve", !.pick = s] \in Thread
    <3>1. "reserve" \in PC
      BY DEF PC
    <3> QED
      BY ZenonT(60), <1>0, <3>1 DEF Thread
  <2>2. th' \in [Proc -> Thread]
    BY ZenonT(60), <1>0, <1>5, <2>1, ThreadType, GotoMoves DEF Select
  <2> QED
    BY ZenonT(60), <1>5, <2>2 DEF Select, TypeOK
<1>6. CASE Reserve(p)
  <2>1. "create" \in PC
    BY ZenonT(60) DEF PC
  <2>2. CASE Reservable(p, t.pick)
    <3>1. /\ active' = [active EXCEPT ![NodeOf(t.pick)] = [job |-> Target(t), att |-> None]]
          /\ run' = IF ForDuplicate(t) THEN run ELSE [run EXCEPT ![Target(t)].attempts = @ + 1]
          /\ Goto(p, [t EXCEPT !.pc = "create", !.new = NextAttempt(Target(t))])
      BY <1>6, <2>2, ZenonT(60) DEF Reserve
    <3>2. t.pick \in Session /\ NextAttempt(Target(t)) \in Attempt
      BY <1>0, <2>2, ZenonT(60) DEF Reservable, Thread
    <3>3. Target(t) \in Job
      BY <1>0, <1>6, Ids, ZenonT(60) DEF Reserve, At, Target, Scheduler, Scheduling, Thread
    <3>4. active' \in [Node -> Reservation \cup {None}]
      BY ZenonT(60), <3>1, <3>3 DEF TypeOK, Reservation
    <3>5. run' \in [Job -> RunState]
      BY ZenonT(60), <3>1, <3>3, RunTypes DEF TypeOK
    <3>6. [t EXCEPT !.pc = "create", !.new = NextAttempt(Target(t))] \in Thread
      BY ZenonT(60), <1>0, <2>1, <3>2 DEF Thread
    <3>7. th' \in [Proc -> Thread]
      BY <1>0, <3>1, <3>6, GotoMoves
    <3> QED
      BY <1>6, <3>4, <3>5, <3>7 DEF Reserve, TypeOK
  <2>3. CASE ~Reservable(p, t.pick)
    <3>1. th' \in [Proc -> Thread]
      BY ZenonT(60), <1>0, <1>6, <2>3, ThreadType, GotoMoves DEF Reserve
    <3> QED
      BY ZenonT(60), <1>6, <2>3, <3>1 DEF Reserve, TypeOK
  <2> QED
    BY <2>2, <2>3
<1>7. CASE Create(p)
  <2>1. t.pick \in Session /\ t.new \in Attempt /\ Target(t) \in Job
    BY <1>0, <1>7, Ids DEF Create, At, Target, Scheduler, Scheduling, Placing, Thread
  <2>2. \A d \in BOOLEAN : [st |-> "offered", on |-> t.pick, dup |-> d] \in AttemptRow
    BY <2>1 DEF AttemptRow, Live
  <2>3. ForDuplicate(t) \in BOOLEAN
    BY DEF ForDuplicate
  <2>4. att' \in [Attempt -> AttemptRow]
    BY ZenonT(60), <1>0, <1>7, <2>1, <2>2, <2>3 DEF Create
  <2>5. job' \in [Job -> JobState]
    <3>1. [job EXCEPT ![Target(t)] = "leased"] \in [Job -> JobState] /\ job \in [Job -> JobState]
      BY ZenonT(60), <2>1, RowTypes DEF TypeOK
    <3> QED
      BY ZenonT(60), <1>7, <3>1 DEF Create
  <2>6. active' \in [Node -> Reservation \cup {None}]
    BY ZenonT(60), <1>7 DEF Create, ClearActive, TypeOK
  <2>7. th' \in [Proc -> Thread]
    <3>1. "announce" \in PC
      BY DEF PC
    <3> QED
      BY ZenonT(60), <1>0, <1>7, <3>1, ThreadType, GotoMoves DEF Create
  <2> QED
    BY <1>7, <2>4, <2>5, <2>6, <2>7, ZenonT(60) DEF Create, TypeOK
<1>8. CASE Announce(p)
  <2>1. t.pick \in Session /\ t.new \in Attempt /\ Target(t) \in Job
    BY <1>0, <1>8, Ids DEF Announce, At, Target, Scheduler, Scheduling, Placing, Thread
  <2>2. active' \in [Node -> Reservation \cup {None}] /\ dups' \in SUBSET Attempt
    BY ZenonT(60), <1>8, <2>1 DEF Announce, TypeOK, Reservation
  <2>3. th' \in [Proc -> Thread]
    <3>1. "send" \in PC
      BY DEF PC
    <3> QED
      BY ZenonT(60), <1>0, <1>8, <3>1, ThreadType, GotoMoves DEF Announce
  <2> QED
    BY <1>8, <2>2, <2>3, ZenonT(60) DEF Announce, TypeOK
<1>9. CASE Send(p)
  <2>1. t.pick \in Session /\ t.new \in Attempt
    BY <1>0, <1>9 DEF Send, At, Scheduler, Placing
  <2>2. active' \in [Node -> Reservation \cup {None}] /\ dups' \in SUBSET Attempt
    BY ZenonT(60), <1>9, <2>1 DEF Send, TypeOK, ClearActive
  <2>3. offer' \in [Session -> Seq(Attempt)]
    <3>1. offer \in [Session -> Seq(Attempt)] /\ Append(offer[t.pick], t.new) \in Seq(Attempt)
      BY <2>1 DEF TypeOK
    <3> QED
      BY ZenonT(60), <1>9, <2>1, <3>1 DEF Send
  <2>4. th' \in [Proc -> Thread]
    <3>1. "unsend" \in PC
      BY DEF PC
    <3> QED
      BY ZenonT(60), <1>0, <1>9, <3>1, ThreadType, GotoMoves DEF Send
  <2> QED
    BY <1>9, <2>2, <2>3, <2>4, ZenonT(60) DEF Send, TypeOK
<1>10. CASE Unsend(p)
  <2>1. t.new \in Attempt /\ Target(t) \in Job
    BY <1>0, <1>10, Ids, ZenonT(60) DEF Unsend, At, Target, Scheduler, Scheduling, Placing, Thread
  <2>2. job' \in [Job -> JobState] /\ att' \in [Attempt -> AttemptRow]
    <3>1. [att EXCEPT ![t.new].st = "failed"] \in [Attempt -> AttemptRow]
      BY ZenonT(60), <2>1, RowTypes
    <3>2. job \in [Job -> JobState] /\ att \in [Attempt -> AttemptRow]
      BY DEF TypeOK
    <3>3. CASE FailAttemptRows(Target(t), t.new)
      BY <2>1, <3>3, FailAttemptTypes
    <3> QED
      BY <1>10, <3>1, <3>2, <3>3 DEF Unsend
  <2>3. th' \in [Proc -> Thread]
    BY ZenonT(60), <1>0, <1>10, ThreadType, GotoMoves DEF Unsend
  <2> QED
    BY <1>10, <2>2, <2>3, ZenonT(60) DEF Unsend, TypeOK
<1> QED
  BY <1>1, <1>2, <1>3, <1>4, <1>5, <1>6, <1>7, <1>8, <1>9, <1>10, ZenonT(60) DEF ScheduleStep

\* StartFailure without its conditions, and what it does to the maps and the reader.
Fails(s, n, j, a) ==
    LET t == [Rest EXCEPT !.kind = "retry", !.job = j, !.att = a, !.closing = At(s, "detach")]
    IN  /\ active' = [active EXCEPT ![n] = None]
        /\ \/ /\ run' = [run EXCEPT ![j].excluded = @ \cup {n}]
              /\ Goto(s, [t EXCEPT !.pc = "failAttempt"])
           \/ run' = run /\ Goto(s, [t EXCEPT !.pc = "failJob"])

\* What handleAttemptFailure does to the maps and the reader before its first
\* transaction.
LEMMA StartFailureFacts ==
    ASSUME TypeOK, NEW s \in Session, NEW n \in Node, NEW j \in Job, NEW a \in Attempt \cup {None},
           Fails(s, n, j, a)
    PROVE  /\ active' \in [Node -> Reservation \cup {None}]
           /\ run' \in [Job -> RunState]
           /\ th' \in [Proc -> Thread] /\ Moves(s)
           /\ th'[s].pc \in {"failAttempt", "failJob"} /\ th'[s].kind = "retry"
           /\ th'[s].job = j /\ th'[s].att = a /\ th'[s].closing = At(s, "detach")
           /\ th'[s].todo = {} /\ th'[s].cur = None
<1> DEFINE t == [Rest EXCEPT !.kind = "retry", !.job = j, !.att = a, !.closing = At(s, "detach")]
<1>0. s \in Proc /\ {"failAttempt", "failJob"} \subseteq PC
      /\ th \in [Proc -> Thread] /\ run \in [Job -> RunState] /\ "off" \in PC
      /\ At(s, "detach") \in BOOLEAN
  BY DEF Proc, PC, TypeOK, At
<1>1. active' \in [Node -> Reservation \cup {None}]
  BY DEF Fails, TypeOK
<1>2. \/ run' = [run EXCEPT ![j].excluded = @ \cup {n}] /\ Goto(s, [t EXCEPT !.pc = "failAttempt"])
      \/ run' = run /\ Goto(s, [t EXCEPT !.pc = "failJob"])
  BY DEF Fails
<1>3. run' \in [Job -> RunState]
  <2>1. [run EXCEPT ![j].excluded = @ \cup {n}] \in [Job -> RunState]
    BY ZenonT(60), RunTypes
  <2> QED
    BY ZenonT(60), <1>0, <1>2, <2>1
<1>4. \A pc \in PC : /\ [t EXCEPT !.pc = pc] \in Thread
                     /\ [t EXCEPT !.pc = pc].pc = pc /\ [t EXCEPT !.pc = pc].kind = "retry"
                     /\ [t EXCEPT !.pc = pc].job = j /\ [t EXCEPT !.pc = pc].att = a
                     /\ [t EXCEPT !.pc = pc].closing = At(s, "detach")
                     /\ [t EXCEPT !.pc = pc].todo = {} /\ [t EXCEPT !.pc = pc].cur = None
  BY ZenonT(60), <1>0 DEF Rest, Thread
<1>5. PICK pc \in {"failAttempt", "failJob"} : Goto(s, [t EXCEPT !.pc = pc])
  BY <1>2
<1>6. th' \in [Proc -> Thread] /\ Moves(s) /\ th'[s] = [t EXCEPT !.pc = pc]
  BY ZenonT(60), <1>0, <1>4, <1>5, GotoMoves
<1> HIDE DEF t
<1> QED
  BY <1>0, <1>1, <1>3, <1>4, <1>6, SMTT(60)

\* The first message a reader takes, and what is left.
LEMMA ReceiveTypes ==
    ASSUME TypeOK, NEW s \in Session, NEW type, Receive(s, type)
    PROVE  /\ Head(mail[s]) \in Message /\ Head(mail[s]).att \in Attempt
           /\ JobOf(Head(mail[s]).att) \in Job
           /\ mail' \in [Session -> Seq(Message)]
           /\ At(s, "read")
<1>1. mail \in [Session -> Seq(Message)] /\ mail[s] \in Seq(Message) /\ mail[s] # <<>>
  BY DEF TypeOK, Receive
<1>2. Head(mail[s]) \in Message /\ Tail(mail[s]) \in Seq(Message)
  BY <1>1
<1>3. mail' \in [Session -> Seq(Message)]
  BY <1>1, <1>2 DEF Receive
<1> QED
  BY ZenonT(60), <1>2, <1>3, Ids DEF Message, Receive

\* Reading a message keeps the types.
LEMMA ReceiveStepTypes ==
    ASSUME TypeOK, NEW s \in Session, ReceiveStep(s)
    PROVE  TypeOK'
<1> DEFINE m == Head(mail[s])
<1> USE DEF db, mem, net, env
<1>0. /\ th \in [Proc -> Thread] /\ s \in Proc /\ th[s] \in Thread /\ NodeOf(s) \in Node
      /\ Erred(th[s]) \in Thread
      /\ job \in [Job -> JobState] /\ att \in [Attempt -> AttemptRow]
  BY Ids, ThreadType, ZenonT(60) DEF TypeOK, Proc
<1>1. CASE JobAccepted(s) \/ JobStarted(s)
  <2>1. PICK type : Receive(s, type)
    BY ZenonT(60), <1>1 DEF JobAccepted, JobStarted
  <2>2. m.att \in Attempt /\ JobOf(m.att) \in Job /\ mail' \in [Session -> Seq(Message)]
    BY <2>1, ReceiveTypes
  <2>3. /\ [att EXCEPT ![m.att].st = "accepted"] \in [Attempt -> AttemptRow]
        /\ [att EXCEPT ![m.att].st = "running"] \in [Attempt -> AttemptRow]
        /\ [job EXCEPT ![JobOf(m.att)] = "running"] \in [Job -> JobState]
    BY ZenonT(60), <2>2, RowTypes
  <2>4. att' \in [Attempt -> AttemptRow] /\ job' \in [Job -> JobState]
    BY ZenonT(60), <1>0, <1>1, <2>3 DEF JobAccepted, JobStarted
  <2>5. th' \in [Proc -> Thread]
    BY <1>0, <1>1, GotoMoves, ZenonT(60) DEF JobAccepted, JobStarted
  <2> QED
    BY <1>1, <2>2, <2>4, <2>5, ZenonT(60) DEF JobAccepted, JobStarted, TypeOK
<1>2. CASE JobRefused(s)
  <2>1. PICK type : Receive(s, type)
    BY <1>2 DEF JobRefused
  <2>2. /\ m.att \in Attempt /\ JobOf(m.att) \in Job /\ mail' \in [Session -> Seq(Message)]
        /\ m.good \in BOOLEAN
    BY ZenonT(60), <2>1, ReceiveTypes DEF Message
  <2>3. CASE Fails(s, NodeOf(s), JobOf(m.att), m.att) /\ dups' = dups
    <3>1. /\ active' \in [Node -> Reservation \cup {None}]
          /\ run' \in [Job -> RunState]
          /\ th' \in [Proc -> Thread]
      BY <1>0, <2>2, <2>3, StartFailureFacts, ZenonT(60)
    <3> QED
      BY <1>2, <2>2, <2>3, <3>1, ZenonT(60) DEF JobRefused, TypeOK
  <2>4. CASE /\ dups' = dups \ {m.att} /\ ClearActive(NodeOf(s)) /\ run' = run
             /\ Goto(s, [Rest EXCEPT !.pc = "dupFail", !.att = m.att])
    <3>1. "dupFail" \in PC /\ "off" \in PC
      BY DEF PC
    <3>2. [Rest EXCEPT !.pc = "dupFail", !.att = m.att] \in Thread
      BY ZenonT(60), <2>2, <3>1 DEF Rest, Thread
    <3>3. th' \in [Proc -> Thread]
      BY <1>0, <2>4, <3>2, GotoMoves, ZenonT(60)
    <3> QED
      BY ZenonT(60), <1>2, <2>2, <2>4, <3>3 DEF JobRefused, TypeOK, ClearActive
  <2> QED
    BY <1>2, <2>3, <2>4, ZenonT(60) DEF JobRefused, StartFailure, Fails, ClearActive
<1>3. CASE JobCompleted(s)
  <2>1. Receive(s, "completed")
    BY <1>3 DEF JobCompleted
  <2>2. m.att \in Attempt /\ JobOf(m.att) \in Job /\ mail' \in [Session -> Seq(Message)]
    BY <2>1, ReceiveTypes, ZenonT(60)
  <2>3. active' \in [Node -> Reservation \cup {None}] /\ dups' \in SUBSET Attempt
    BY <1>3 DEF JobCompleted, TypeOK, ClearActive
  <2>4. PICK pc \in {"dupDone", "failJob", "complete"},
             kind \in {"good", "bad", "reject", "plain", "dup"} :
          Goto(s, [[Rest EXCEPT !.att = m.att, !.job = JobOf(m.att)] EXCEPT !.pc = pc, !.kind = kind])
    BY ZenonT(60), <1>3 DEF JobCompleted
  <2>5. [[Rest EXCEPT !.att = m.att, !.job = JobOf(m.att)] EXCEPT !.pc = pc, !.kind = kind] \in Thread
    <3>1. pc \in PC /\ "off" \in PC
      BY DEF PC
    <3> QED
      BY ZenonT(60), <2>2, <3>1 DEF Rest, Thread
  <2>6. th' \in [Proc -> Thread]
    BY <1>0, <2>4, <2>5, GotoMoves
  <2> QED
    BY <1>3, <2>2, <2>3, <2>6, ZenonT(60) DEF JobCompleted, TypeOK
<1> QED
  BY <1>1, <1>2, <1>3 DEF ReceiveStep

\* What a reader does between two reads keeps the types.
LEMMA ReaderTypes ==
    ASSUME TypeOK, Threads, NEW s \in Session, ReaderStep(s)
    PROVE  TypeOK'
<1> DEFINE t == th[s]
<1> USE DEF db, mem, net, env
<1>0. /\ th \in [Proc -> Thread] /\ s \in Proc /\ t \in Thread /\ NodeOf(s) \in Node
      /\ Erred(t) \in Thread /\ Returned(t) \in Thread
      /\ job \in [Job -> JobState] /\ att \in [Attempt -> AttemptRow]
      /\ t.job \in Job \cup {None} /\ t.att \in Attempt \cup {None}
      /\ Handler(s)
  <2>1. th \in [Proc -> Thread] /\ s \in Proc /\ t \in Thread /\ Handler(s)
    BY DEF TypeOK, Proc, Threads, ThreadOK
  <2>2. Erred(t) \in Thread /\ Returned(t) \in Thread
    BY ZenonT(60), <2>1, ThreadType
  <2>3. t.job \in Job \cup {None} /\ t.att \in Attempt \cup {None}
    BY <2>1 DEF Thread
  <2> QED
    BY <2>1, <2>2, <2>3, Ids, ZenonT(60) DEF TypeOK
<1>a. \A pc \in {"completed", "clear", "select", "finish", "expire", "failDone", "credit"} :
          [t EXCEPT !.pc = pc] \in Thread
  <2>1. {"completed", "clear", "select", "finish", "expire", "failDone", "credit"} \subseteq PC
    BY ZenonT(60) DEF PC
  <2> QED
    BY ZenonT(60), <1>0, <2>1, ThreadType
<1>1. CASE CompleteJob(s)
  <2>1. t.att \in Attempt /\ t.job \in Job
    BY <1>0, <1>1, Ids DEF CompleteJob, At, Handler
  <2>2. /\ [att EXCEPT ![t.att].st = "succeeded"] \in [Attempt -> AttemptRow]
        /\ [job EXCEPT ![t.job] = "succeeded"] \in [Job -> JobState]
    BY ZenonT(60), <2>1, RowTypes
  <2>3. att' \in [Attempt -> AttemptRow] /\ job' \in [Job -> JobState]
    BY <1>0, <1>1, <2>2 DEF CompleteJob
  <2>4. charged' \in [Job -> SUBSET Attempt]
    <3>1. charged \in [Job -> SUBSET Attempt] /\ charged[t.job] \cup {t.att} \in SUBSET Attempt
      BY <2>1, ZenonT(60) DEF TypeOK
    <3> QED
      BY <1>1, <3>1, ZenonT(60) DEF CompleteJob
  <2>5. th' \in [Proc -> Thread]
    BY <1>0, <1>1, <1>a, GotoMoves, ZenonT(60) DEF CompleteJob
  <2> QED
    BY <1>1, <2>3, <2>4, <2>5, ZenonT(60) DEF CompleteJob, TypeOK
<1>2. CASE CompleteFailed(s) \/ Completed(s)
  <2>1. th' \in [Proc -> Thread]
    BY <1>0, <1>2, <1>a, GotoMoves DEF CompleteFailed, Completed
  <2> QED
    BY ZenonT(60), <1>2, <2>1 DEF CompleteFailed, Completed, TypeOK, ClearActive
<1>3. CASE Finish(s) \/ FailDone(s)
  <2>1. th' \in [Proc -> Thread]
    BY <1>0, <1>3, GotoMoves, ZenonT(60) DEF Finish, FailDone
  <2>2. PICK r \in {"ok", "error"} : Notify(t.job, r)
    BY <1>3 DEF Finish, FailDone
  <2>3. run' \in [Job -> RunState] /\ pending' \in SUBSET Job /\ result' \in [Job -> {"none", "ok", "error"}]
    <3>1. CASE t.job \in Job
      BY <2>2, <3>1, NotifyTypes
    <3>2. CASE t.job \notin Job
      BY ZenonT(60), <2>2, <3>2 DEF Notify, TypeOK
    <3> QED
      BY <3>1, <3>2
  <2> QED
    BY <1>3, <2>1, <2>3, ZenonT(60) DEF Finish, FailDone, TypeOK
<1>4. CASE FailAttempt(s)
  <2>1. th' \in [Proc -> Thread]
    BY <1>0, <1>4, <1>a, GotoMoves DEF FailAttempt
  <2>2. CASE t.att # None /\ t.job \in Job /\ FailAttemptRows(t.job, t.att)
    <3>1. att' \in [Attempt -> AttemptRow] /\ job' \in [Job -> JobState]
      BY <1>0, <2>2, FailAttemptTypes
    <3> QED
      BY <1>4, <2>1, <3>1, ZenonT(60) DEF FailAttempt, TypeOK
  <2>3. CASE UNCHANGED <<job, att>>
    BY <1>4, <2>1, <2>3, ZenonT(60) DEF FailAttempt, TypeOK
  <2>4. t.job \in Job
    BY <1>0, <1>4 DEF FailAttempt, At, Handler
  <2> QED
    BY <1>4, <2>2, <2>3, <2>4, ZenonT(60) DEF FailAttempt
<1>5. CASE FailJob(s)
  <2>1. th' \in [Proc -> Thread]
    BY <1>0, <1>5, <1>a, GotoMoves, ZenonT(60) DEF FailJob
  <2>2. CASE FailJobRows(t.job, t.att)
    <3>1. t.job \in Job
      BY <1>0, <1>5, ZenonT(60) DEF FailJob, At, Handler
    <3>2. att' \in [Attempt -> AttemptRow] /\ job' \in [Job -> JobState]
      BY <1>0, <2>2, <3>1, FailJobTypes, ZenonT(60)
    <3> QED
      BY <1>5, <2>1, <3>2 DEF FailJob, TypeOK
  <2>3. CASE UNCHANGED <<job, att>>
    BY <1>5, <2>1, <2>3, ZenonT(60) DEF FailJob, TypeOK
  <2> QED
    BY <1>5, <2>2, <2>3 DEF FailJob
<1>6. CASE DuplicateFailed(s) \/ DuplicateCompleted(s)
  <2>1. t.att \in Attempt
    BY <1>0, <1>6 DEF DuplicateFailed, DuplicateCompleted, At, Handler
  <2>2. /\ [att EXCEPT ![t.att].st = "failed"] \in [Attempt -> AttemptRow]
        /\ [att EXCEPT ![t.att].st = "verified"] \in [Attempt -> AttemptRow]
    BY ZenonT(60), <2>1, RowTypes
  <2>3. att' \in [Attempt -> AttemptRow]
    BY <1>0, <1>6, <2>2 DEF DuplicateFailed, DuplicateCompleted
  <2>4. th' \in [Proc -> Thread]
    BY ZenonT(60), <1>0, <1>6, <1>a, GotoMoves DEF DuplicateFailed, DuplicateCompleted
  <2> QED
    BY <1>6, <2>3, <2>4, ZenonT(60) DEF DuplicateFailed, DuplicateCompleted, TypeOK
<1>7. CASE CreditDuplicate(s)
  <2>1. t.att \in Attempt
    BY <1>0, <1>7, ZenonT(60) DEF CreditDuplicate, At, Handler
  <2>2. th' \in [Proc -> Thread]
    BY <1>0, <1>7, GotoMoves DEF CreditDuplicate
  <2> QED
    BY ZenonT(60), <1>7, <2>1, <2>2 DEF CreditDuplicate, TypeOK
<1>b. [Rest EXCEPT !.pc = "close"] \in Thread /\ [Rest EXCEPT !.pc = "closed"] \in Thread
  <2>1. {"close", "closed"} \subseteq PC
    BY ZenonT(60) DEF PC
  <2> QED
    BY ZenonT(60), <1>0, <2>1, ThreadType
<1>8. CASE Detach(s)
  <2>1. /\ mail' = [mail EXCEPT ![s] = <<>>]
        /\ offer' = [offer EXCEPT ![s] = <<>>]
        /\ work' = [work EXCEPT ![s] = None]
        /\ UNCHANGED <<db, pending, result, dups, answer, conn, env>>
    BY <1>8 DEF Detach
  <2>2. /\ mail' \in [Session -> Seq(Message)]
        /\ offer' \in [Session -> Seq(Attempt)]
        /\ work' \in [Session -> Attempt \cup {None}]
    BY <2>1 DEF TypeOK
  <2>3. CASE /\ sessions' \in [Node -> Session \cup {None}]
             /\ Goto(s, [Rest EXCEPT !.pc = "close"]) /\ UNCHANGED <<active, run>>
    <3>1. th' \in [Proc -> Thread]
      BY ZenonT(60), <1>0, <1>b, <2>3, GotoMoves
    <3> QED
      BY <2>1, <2>2, <2>3, <3>1 DEF TypeOK
  <2>4. CASE /\ sessions' \in [Node -> Session \cup {None}] /\ active[NodeOf(s)] # None
             /\ Fails(s, NodeOf(s), active[NodeOf(s)].job, active[NodeOf(s)].att)
    <3>1. active[NodeOf(s)] \in Reservation
      BY <1>0, <2>4 DEF TypeOK
    <3>2. active[NodeOf(s)].job \in Job /\ active[NodeOf(s)].att \in Attempt \cup {None}
      BY <3>1, ZenonT(60) DEF Reservation
    <3>3. /\ active' \in [Node -> Reservation \cup {None}]
          /\ run' \in [Job -> RunState]
          /\ th' \in [Proc -> Thread]
      BY <1>0, <2>4, <3>2, StartFailureFacts
    <3> QED
      BY <2>1, <2>2, <2>4, <3>3, ZenonT(60) DEF TypeOK
  <2>5. sessions' \in [Node -> Session \cup {None}]
    BY ZenonT(60), <1>8 DEF Detach, TypeOK
  <2> QED
    BY <1>8, <2>3, <2>4, <2>5, ZenonT(60) DEF Detach, StartFailure, Fails, ClearActive
<1>9. CASE CloseSession(s)
  <2>1. th' \in [Proc -> Thread]
    BY <1>0, <1>9, <1>b, GotoMoves, ZenonT(60) DEF CloseSession
  <2> QED
    BY <1>9, <2>1 DEF CloseSession, TypeOK
<1>10. CASE AttachSession(s)
  <2>1. [Rest EXCEPT !.pc = "read"] \in Thread
    BY ZenonT(60) DEF Rest, Thread, PC
  <2>2. th' \in [Proc -> Thread]
    BY <1>0, <1>10, <1>b, <2>1, GotoMoves DEF AttachSession
  <2>3. sessions' \in [Node -> Session \cup {None}]
    BY ZenonT(60), <1>10 DEF AttachSession, TypeOK
  <2> QED
    BY <1>10, <2>2, <2>3 DEF AttachSession, TypeOK
<1> QED
  BY <1>1, <1>2, <1>3, <1>4, <1>5, <1>6, <1>7, <1>8, <1>9, <1>10, ZenonT(60) DEF ReaderStep

\* Nodes, connections, operators and restarts keep the types.
LEMMA OutsideTypes ==
    ASSUME TypeOK,
           \/ \E s \in Session : NodeStep(s) \/ Lose(s)
           \/ \E n \in Node : OpenSession(n)
           \/ \E j \in Job : OperatorCancel(j) \/ OperatorRetry(j) \/ CancelJob(j)
           \/ Restart
    PROVE  TypeOK'
<1> USE DEF db, mem, net, env
<1>1. ASSUME NEW s \in Session, NodeStep(s)
      PROVE  TypeOK'
  <2>1. /\ mail \in [Session -> Seq(Message)] /\ offer \in [Session -> Seq(Attempt)]
        /\ work \in [Session -> Attempt \cup {None}]
    BY DEF TypeOK
  <2>2. \A type \in {"accepted", "started", "rejected", "failed", "completed"}, a \in Attempt,
           good \in BOOLEAN : Msg(type, a, good) \in Message
    BY ZenonT(60) DEF Msg, Message
  <2>3. CASE NodeReject(s) \/ NodeAccept(s)
    <3>1. Head(offer[s]) \in Attempt /\ Tail(offer[s]) \in Seq(Attempt)
      BY <2>1, <2>3 DEF NodeReject, NodeAccept
    <3>2. /\ Msg("rejected", Head(offer[s]), TRUE) \in Message
          /\ Msg("accepted", Head(offer[s]), TRUE) \in Message
          /\ Msg("started", Head(offer[s]), TRUE) \in Message
      BY ZenonT(60), <2>2, <3>1
    <3>3. PICK ms \in Seq(Message) : Post(s, ms)
      <4> DEFINE a == Head(offer[s])
      <4>1. /\ <<Msg("rejected", a, TRUE)>> \in Seq(Message)
            /\ <<Msg("accepted", a, TRUE), Msg("started", a, TRUE)>> \in Seq(Message)
        <5>1. \A x, y \in Message : <<x>> \in Seq(Message) /\ <<x, y>> \in Seq(Message)
          BY SMTT(60)
        <5> QED
          BY ZenonT(60), <3>2, <5>1
      <4>2. \/ Post(s, <<Msg("rejected", a, TRUE)>>)
            \/ Post(s, <<Msg("accepted", a, TRUE), Msg("started", a, TRUE)>>)
        BY <2>3 DEF NodeReject, NodeAccept
      <4> QED
        BY ZenonT(60), <4>1, <4>2
    <3>4. mail' \in [Session -> Seq(Message)]
      BY <2>1, <3>3 DEF Post
    <3>5. offer' \in [Session -> Seq(Attempt)] /\ work' \in [Session -> Attempt \cup {None}]
      BY <2>1, <2>3, <3>1, ZenonT(60) DEF NodeReject, NodeAccept
    <3> QED
      BY <2>3, <3>4, <3>5, ZenonT(60) DEF NodeReject, NodeAccept, TypeOK
  <2>4. CASE NodeFinish(s)
    <3>1. work[s] \in Attempt
      BY <2>1, <2>4 DEF NodeFinish
    <3>2. PICK type \in {"failed", "completed"}, good \in BOOLEAN : Post(s, <<Msg(type, work[s], good)>>)
      BY <2>4 DEF NodeFinish
    <3>3. Msg(type, work[s], good) \in Message
      BY <2>2, <3>1
    <3>4. mail' \in [Session -> Seq(Message)]
      BY <2>1, <3>2, <3>3 DEF Post
    <3>5. work' \in [Session -> Attempt \cup {None}]
      BY <2>1, <2>4, ZenonT(60) DEF NodeFinish
    <3> QED
      BY <2>4, <3>4, <3>5, ZenonT(60) DEF NodeFinish, TypeOK
  <2> QED
    BY <1>1, <2>3, <2>4, ZenonT(60) DEF NodeStep
<1>2. ASSUME NEW s \in Session, Lose(s)
      PROVE  TypeOK'
  <2>1. s \in Proc /\ th \in [Proc -> Thread] /\ Erred(th[s]) \in Thread
    BY ZenonT(60), ThreadType DEF TypeOK, Proc
  <2>2. th' \in [Proc -> Thread]
    BY <1>2, <2>1, GotoMoves DEF Lose
  <2> QED
    BY <1>2, <2>2 DEF Lose, TypeOK
<1>3. ASSUME NEW n \in Node, OpenSession(n)
      PROVE  TypeOK'
  <2> DEFINE s == <<n, conn[n] + 1>>
  <2>1. s \in Session /\ s \in Proc /\ th \in [Proc -> Thread] /\ "attach" \in PC /\ "off" \in PC
    BY <1>3 DEF OpenSession, Proc, TypeOK, PC
  <2>2. [Rest EXCEPT !.pc = "attach"] \in Thread
    BY ZenonT(60), <2>1 DEF Rest, Thread
  <2>3. th' \in [Proc -> Thread]
    BY <1>3, <2>1, <2>2, GotoMoves DEF OpenSession
  <2>4. conn' \in [Node -> Nat]
    BY <1>3, SMTT(60) DEF OpenSession, TypeOK
  <2>5. open' \in SUBSET Session
    BY <1>3, <2>1, ZenonT(60) DEF OpenSession, TypeOK
  <2> QED
    BY <1>3, <2>3, <2>4, <2>5, ZenonT(60) DEF OpenSession, TypeOK
<1>4. ASSUME NEW j \in Job, OperatorCancel(j) \/ OperatorRetry(j) \/ CancelJob(j)
      PROVE  TypeOK'
  <2>1. ops' \in 0..MaxOps
    BY <1>4, BoundAssumption DEF OperatorCancel, OperatorRetry, CancelJob, TypeOK
  <2>2. /\ [job EXCEPT ![j] = "queued"] \in [Job -> JobState]
        /\ [job EXCEPT ![j] = "cancelled"] \in [Job -> JobState]
        /\ job \in [Job -> JobState] /\ att \in [Attempt -> AttemptRow]
    BY ZenonT(60), RowTypes DEF TypeOK
  <2>3. job' \in [Job -> JobState]
    BY <1>4, <2>2, ZenonT(60) DEF OperatorCancel, OperatorRetry, CancelJob
  <2>4. att' \in [Attempt -> AttemptRow]
    <3>1. \A a \in Attempt : [att[a] EXCEPT !.st = "cancelled"] \in AttemptRow
      BY <2>2 DEF AttemptRow, Finished
    <3> QED
      BY <1>4, <2>2, <3>1 DEF OperatorCancel, OperatorRetry, CancelJob
  <2> QED
    BY <1>4, <2>1, <2>3, <2>4, ZenonT(60) DEF OperatorCancel, OperatorRetry, CancelJob, TypeOK
<1>5. CASE Restart
  <2>1. crashes' \in 0..MaxCrashes
    BY <1>5, BoundAssumption DEF Restart, TypeOK
  <2>2. th' \in [Proc -> Thread]
    <3>1. {"done", "closed", "off"} \subseteq PC /\ th \in [Proc -> Thread]
      BY DEF PC, TypeOK
    <3>2. [Rest EXCEPT !.pc = "done"] \in Thread /\ [Rest EXCEPT !.pc = "closed"] \in Thread
      BY ZenonT(60), <3>1 DEF Rest, Thread
    <3> QED
      BY <1>5, <3>1, <3>2, ZenonT(60) DEF Restart
  <2>3. run' \in [Job -> RunState]
    <3>1. NewRun \in RunState
      BY DEF NewRun, RunState
    <3> QED
      BY <1>5, <3>1, SMTT(60) DEF Restart
  <2>4. /\ sessions' \in [Node -> Session \cup {None}]
        /\ active' \in [Node -> Reservation \cup {None}]
        /\ pending' \in SUBSET Job /\ dups' \in SUBSET Attempt
        /\ result' \in [Job -> {"none", "ok", "error"}]
        /\ mail' \in [Session -> Seq(Message)]
        /\ offer' \in [Session -> Seq(Attempt)]
        /\ work' \in [Session -> Attempt \cup {None}]
    BY <1>5 DEF Restart
  <2>5. answer' \in [Job -> {"none", "ok", "error", "lost"}]
    BY <1>5 DEF Restart, TypeOK
  <2> QED
    BY <1>5, <2>1, <2>2, <2>3, <2>4, <2>5, ZenonT(60) DEF Restart, TypeOK
<1> QED
  BY <1>1, <1>2, <1>3, <1>4, <1>5

\* Every step keeps the types.
LEMMA TypeStep ==
    ASSUME TypeOK, Threads, Rows, [Next]_vars
    PROVE  TypeOK'
<1>1. CASE UNCHANGED vars
  BY <1>1 DEF vars, db, mem, net, env, TypeOK
<1> QED
  BY <1>1, HandlerTypes, ScheduleTypes, ReceiveStepTypes, ReaderTypes, OutsideTypes,
     ZenonT(60) DEF Next

-----------------------------------------------------------------------------
(* What never goes back: a row once inserted keeps its session and its     *)
(* kind, a charge stays, a job asked for stays asked for.                  *)

RowsGrow ==
    /\ \A a \in Attempt : Known(a) =>
          Known(a)' /\ att'[a].on = att[a].on /\ att'[a].dup = att[a].dup
    /\ \A j \in Job : charged[j] \subseteq charged'[j]

\* Changing the status of an attempt takes nothing back.
LEMMA StatusGrows ==
    ASSUME TypeOK, UNCHANGED charged,
           \/ att' = att
           \/ \E a \in Attempt, st \in Live \cup Finished : att' = [att EXCEPT ![a].st = st]
    PROVE  RowsGrow
<1>1. "none" \notin Live \cup Finished
  BY DEF Live, Finished
<1>2. CASE att' = att
  BY <1>2 DEF RowsGrow, Known
<1>3. ASSUME NEW a \in Attempt, NEW st \in Live \cup Finished, att' = [att EXCEPT ![a].st = st]
      PROVE  RowsGrow
  <2>1. att \in [Attempt -> AttemptRow]
    BY DEF TypeOK
  <2>2. /\ att'[a] = [att[a] EXCEPT !.st = st]
        /\ \A b \in Attempt : b # a => att'[b] = att[b]
    BY <1>3, <2>1
  <2>3. att'[a].st = st /\ att'[a].on = att[a].on /\ att'[a].dup = att[a].dup
    BY <2>1, <2>2 DEF AttemptRow
  <2> QED
    BY ZenonT(60), <1>1, <2>2, <2>3 DEF RowsGrow, Known
<1> QED
  BY <1>2, <1>3

\* The scheduling code takes nothing back.
LEMMA ScheduleRows ==
    ASSUME TypeOK, Threads, NEW p \in Proc, ScheduleStep(p)
    PROVE  RowsGrow
<1> DEFINE t == th[p]
<1> USE DEF db
<1>0. t \in Thread /\ att \in [Attempt -> AttemptRow] /\ Scheduler(p) /\ "failed" \in Live \cup Finished
  BY DEF TypeOK, Threads, ThreadOK, Finished
<1>1. CASE ExpireLeases(p)
  <2>1. CASE att' = att
    BY <1>1, <2>1 DEF ExpireLeases, RowsGrow, Known
  <2>2. ASSUME NEW expired,
               att' = [a \in Attempt |-> IF a \in expired THEN [att[a] EXCEPT !.st = "expired"] ELSE att[a]]
        PROVE  RowsGrow
    <3>1. \A a \in Attempt : \/ att'[a] = att[a]
                             \/ att'[a].st = "expired" /\ att'[a].on = att[a].on /\ att'[a].dup = att[a].dup
      BY <1>0, <2>2 DEF AttemptRow
    <3> QED
      BY <1>1, <3>1 DEF ExpireLeases, RowsGrow, Known
  <2> QED
    BY ZenonT(60), <1>1, <2>1, <2>2 DEF ExpireLeases
<1>2. CASE NextExpired(p) \/ ExpiredDone(p) \/ Select(p) \/ Reserve(p) \/ Announce(p) \/ Send(p)
  BY ZenonT(60), <1>2, StatusGrows DEF NextExpired, ExpiredDone, Select, Reserve, Announce, Send
<1>3. CASE FailExpired(p)
  <2>1. t.cur \in Attempt
    BY <1>0, <1>3 DEF FailExpired, At, Scheduler, Thread
  <2> QED
    BY ZenonT(60), <1>0, <1>3, <2>1, StatusGrows DEF FailExpired, FailJobRows
<1>4. CASE Create(p)
  <2>1. \/ att' = att
        \/ att[t.new].st = "none" /\ \E row \in AttemptRow : att' = [att EXCEPT ![t.new] = row]
    <3>1. t.pick \in Session /\ ForDuplicate(t) \in BOOLEAN
      BY <1>0, <1>4 DEF Create, At, Scheduler, Placing, ForDuplicate
    <3>2. [st |-> "offered", on |-> t.pick, dup |-> ForDuplicate(t)] \in AttemptRow
      BY <3>1 DEF AttemptRow, Live
    <3> QED
      BY ZenonT(60), <1>4, <3>2 DEF Create
  <2> QED
    BY <1>0, <1>4, <2>1 DEF Create, RowsGrow, Known
<1>5. CASE Unsend(p)
  <2>1. t.new \in Attempt
    BY <1>0, <1>5 DEF Unsend, At, Scheduler, Placing
  <2> QED
    BY <1>0, <1>5, <2>1, StatusGrows, ZenonT(60) DEF Unsend, FailAttemptRows
<1> QED
  BY <1>1, <1>2, <1>3, <1>4, <1>5, ZenonT(60) DEF ScheduleStep

\* The message handlers take nothing back.
LEMMA ReaderRows ==
    ASSUME TypeOK, Threads, NEW s \in Session, ReceiveStep(s) \/ ReaderStep(s)
    PROVE  RowsGrow
<1> DEFINE t == th[s]
<1> USE DEF db
<1>0. /\ t \in Thread /\ t.att \in Attempt \cup {None} /\ Handler(s)
      /\ {"failed", "verified", "accepted", "running", "succeeded"} \subseteq Live \cup Finished
  <2>1. t \in Thread /\ Handler(s)
    BY DEF TypeOK, Threads, ThreadOK, Proc
  <2> QED
    BY <2>1 DEF Thread, Live, Finished
<1>1. CASE JobAccepted(s) \/ JobStarted(s)
  <2>1. PICK type : Receive(s, type)
    BY <1>1, ZenonT(60) DEF JobAccepted, JobStarted
  <2>2. Head(mail[s]).att \in Attempt
    BY <2>1, ReceiveTypes
  <2> QED
    BY ZenonT(60), <1>0, <1>1, <2>2, StatusGrows DEF JobAccepted, JobStarted
<1>2. CASE CompleteJob(s)
  <2>1. t.att \in Attempt /\ t.job \in Job
    BY <1>0, <1>2, Ids DEF CompleteJob, At, Handler
  <2>2. CASE UNCHANGED <<att, charged>>
    BY <2>2, StatusGrows
  <2>3. CASE att' = [att EXCEPT ![t.att].st = "succeeded"] /\ charged' = [charged EXCEPT ![t.job] = @ \cup {t.att}]
    <3>1. att \in [Attempt -> AttemptRow] /\ charged \in [Job -> SUBSET Attempt]
      BY DEF TypeOK
    <3>2. \A j \in Job : charged[j] \subseteq charged'[j]
      BY <2>3, <3>1
    <3>3. \A a \in Attempt : Known(a) => Known(a)' /\ att'[a].on = att[a].on /\ att'[a].dup = att[a].dup
      BY <2>1, <2>3, <3>1 DEF Known, AttemptRow
    <3> QED
      BY <3>2, <3>3 DEF RowsGrow
  <2> QED
    BY <1>2, <2>2, <2>3 DEF CompleteJob
<1>3. CASE FailAttempt(s) \/ FailJob(s)
  BY <1>0, <1>3, StatusGrows DEF FailAttempt, FailJob, FailAttemptRows, FailJobRows
<1>4. CASE DuplicateFailed(s) \/ DuplicateCompleted(s)
  <2>1. t.att \in Attempt
    BY <1>0, <1>4 DEF DuplicateFailed, DuplicateCompleted, At, Handler
  <2> QED
    BY <1>0, <1>4, <2>1, StatusGrows, ZenonT(60) DEF DuplicateFailed, DuplicateCompleted
<1>5. CASE \/ JobRefused(s) \/ JobCompleted(s) \/ CompleteFailed(s) \/ Completed(s) \/ Finish(s)
           \/ FailDone(s) \/ CreditDuplicate(s) \/ AttachSession(s) \/ Detach(s) \/ CloseSession(s)
  <2>1. UNCHANGED <<att, charged>>
    BY ZenonT(60), <1>5 DEF JobRefused, JobCompleted, CompleteFailed, Completed, Finish, FailDone,
                CreditDuplicate, AttachSession, Detach, CloseSession
  <2> QED
    BY <2>1, StatusGrows
<1> QED
  BY <1>1, <1>2, <1>3, <1>4, <1>5, ZenonT(60) DEF ReceiveStep, ReaderStep

\* No step takes anything back.
LEMMA RowsStep ==
    ASSUME TypeOK, Threads, [Next]_vars
    PROVE  RowsGrow
<1> USE DEF db
<1>1. CASE UNCHANGED vars
  BY <1>1, StatusGrows DEF vars
<1>2. ASSUME NEW j \in Job, Submit(j) \/ HandlerStep(j)
      PROVE  RowsGrow
  <2>1. UNCHANGED <<att, charged>>
    BY <1>2 DEF Submit, HandlerStep, Abandon, TakeResult, TimeOut, GiveUp, FailJobRows
  <2> QED
    BY <2>1, StatusGrows
<1>3. ASSUME NEW s \in Session, NodeStep(s) \/ Lose(s)
      PROVE  RowsGrow
  BY <1>3, StatusGrows DEF NodeStep, NodeReject, NodeAccept, NodeFinish, Lose
<1>4. ASSUME NEW n \in Node, OpenSession(n)
      PROVE  RowsGrow
  BY <1>4, StatusGrows DEF OpenSession
<1>5. ASSUME NEW j \in Job, OperatorCancel(j) \/ OperatorRetry(j) \/ CancelJob(j)
      PROVE  RowsGrow
  <2>1. att \in [Attempt -> AttemptRow]
    BY DEF TypeOK
  <2>2. CASE OperatorCancel(j)
    <3>1. \A a \in Attempt : \/ att'[a] = att[a]
                             \/ att'[a].st = "cancelled" /\ att'[a].on = att[a].on /\ att'[a].dup = att[a].dup
      BY <2>1, <2>2 DEF OperatorCancel, AttemptRow
    <3> QED
      BY <2>2, <3>1 DEF OperatorCancel, RowsGrow, Known
  <2>3. CASE OperatorRetry(j) \/ CancelJob(j)
    BY <2>3, StatusGrows DEF OperatorRetry, CancelJob
  <2> QED
    BY <1>5, <2>2, <2>3, ZenonT(60)
<1>6. CASE Restart
  BY <1>6, StatusGrows DEF Restart
<1> QED
  BY <1>1, <1>2, <1>3, <1>4, <1>5, <1>6, ScheduleRows, ReaderRows, ZenonT(60) DEF Next
=============================================================================
