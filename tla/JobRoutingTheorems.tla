------------------------- MODULE JobRoutingTheorems -------------------------
(***************************************************************************)
(* What is proved of JobRouting: the inductive invariant IInv holds        *)
(* initially and is kept by every step, and from it follow the safety      *)
(* invariants, the action properties, and that the routing code implements *)
(* JobContract.  First, the rest of the invariant: Fresh and Reserved, the *)
(* parts about the map active of jobs.Service, and Rows and Traffic, the   *)
(* parts about job_attempts, charges, offers and messages.                 *)
(***************************************************************************)
EXTENDS JobRoutingThreads

-----------------------------------------------------------------------------
(* Reservations.                                                           *)

\* Goroutine p is between the reservation of node n for job j and setActive.
Holds(p, n, j) == th[p].pc \in {"create", "announce"} /\ NodeOf(th[p].pick) = n /\ Target(th[p]) = j

\* What Reserved asks of a node that is reserved.
Grounded(n) ==
    /\ Asked(active[n].job)
    /\ active[n].att # None => Known(active[n].att)
    /\ active[n].att = None => \E p \in Proc : Holds(p, n, active[n].job)

\* Reserved, said with Grounded.
LEMMA ReservedIsGrounded == Reserved <=> \A n \in Node : active[n] # None => Grounded(n)
BY DEF Reserved, NoLeakedReservation, Grounded, Holds

\* Reservations are kept when every node is freed, or keeps its reservation while
\* the goroutine that moves does not let go of it, or gets a grounded one.
LEMMA ReservedFrame ==
    ASSUME TypeOK, TypeOK', Reserved, RowsGrow, \A j \in Job : Asked(j) => Asked(j)',
           NEW p \in Proc, Moves(p),
           \A n \in Node : \/ active'[n] = None
                           \/ active'[n] = active[n] /\ \A j \in Job : Holds(p, n, j) => Holds(p, n, j)'
                           \/ Grounded(n)'
    PROVE  Reserved'
<1> SUFFICES ASSUME NEW n \in Node, active'[n] # None
             PROVE  Grounded(n)'
  BY ZenonT(60), ReservedIsGrounded DEF Reserved, NoLeakedReservation, Grounded, Holds
<1>1. CASE active'[n] = active[n] /\ \A j \in Job : Holds(p, n, j) => Holds(p, n, j)'
  <2>1. active[n].job \in Job /\ active[n].att \in Attempt \cup {None} /\ Grounded(n)
    BY ZenonT(60), <1>1, ReservedIsGrounded DEF TypeOK, Reservation
  <2>2. (Asked(active[n].job) /\ (active[n].att # None => Known(active[n].att)))'
    BY ZenonT(60), <1>1, <2>1 DEF Grounded, RowsGrow, Known, Asked
  <2>3. active[n].att = None => \E q \in Proc : Holds(q, n, active[n].job)'
    <3> HAVE active[n].att = None
    <3>1. PICK q \in Proc : Holds(q, n, active[n].job)
      BY ZenonT(60), <2>1 DEF Grounded
    <3>2. CASE q = p
      BY ZenonT(60), <1>1, <2>1, <3>1, <3>2 DEF Holds
    <3>3. CASE q # p
      <4>1. th'[q] = th[q]
        BY ZenonT(60), <3>3 DEF Moves
      <4>2. Holds(q, n, active[n].job)'
        BY ZenonT(60), <1>1, <3>1, <4>1 DEF Holds
      <4> QED
        BY ZenonT(60), <4>2
    <3> QED
      BY ZenonT(60), <3>2, <3>3
  <2> QED
    BY ZenonT(60), <1>1, <2>2, <2>3 DEF Grounded
<1> QED
  BY ZenonT(60), <1>1

\* A step that frees at most one node, and lets go of no other, keeps Reserved.
LEMMA FreeingKeeps ==
    ASSUME TypeOK, TypeOK', Reserved, RowsGrow, \A j \in Job : Asked(j) => Asked(j)',
           NEW p \in Proc, Moves(p), NEW n \in Node,
           active' = active \/ ClearActive(n),
           th[p].pc \notin {"create", "announce"}
    PROVE  Reserved'
<1>1. \A m \in Node : active'[m] = None \/ active'[m] = active[m]
  BY DEF ClearActive, TypeOK
<1>2. \A m \in Node, j \in Job : ~Holds(p, m, j)
  BY DEF Holds
<1> QED
  BY ZenonT(60), <1>1, <1>2, ReservedFrame

\* The scheduling code reserves, fills in and drops the reservation.
LEMMA ScheduleReserves ==
    ASSUME TypeOK, TypeOK', Threads, Rows, Reserved, RowsGrow, \A j \in Job : Asked(j) => Asked(j)',
           NEW p \in Proc, ScheduleStep(p)
    PROVE  Reserved'
<1> USE DEF mem
<1>0. PICK t : t = th[p]
  BY ZenonT(60)
<1>1. /\ t \in Thread /\ th \in [Proc -> Thread] /\ Moves(p) /\ Scheduler(p) /\ Handler(p)
      /\ active \in [Node -> Reservation \cup {None}] /\ att \in [Attempt -> AttemptRow]
  BY ZenonT(60), <1>0, ScheduleMoves DEF TypeOK, Threads, ThreadOK, Stepped, MovesOn
<1>2. t.pc \in Scheduling => Target(t) \in Job /\ Asked(Target(t))
  <2>1. t.cur \in Attempt \cup {None}
    BY <1>1 DEF Thread
  <2>2. CASE t.cur = None
    BY ZenonT(60), <1>0, <1>1, <2>2, Ids DEF Target, Scheduler, Handler, Proc
  <2>3. CASE t.cur # None
    BY ZenonT(60), <1>0, <1>1, <2>1, <2>3, Ids DEF Target, Scheduler, Rows
  <2> QED
    BY ZenonT(60), <2>2, <2>3
<1>3. t.pc \in Placing => t.pick \in Session /\ NodeOf(t.pick) \in Node /\ t.new \in Attempt /\ t.new # None
  BY ZenonT(60), <1>0, <1>1, Ids DEF Scheduler
<1>4. CASE \/ ExpireLeases(p) \/ FailExpired(p) \/ ExpiredDone(p) \/ Select(p) \/ Unsend(p)
  <2>1. active' = active /\ th[p].pc \notin {"create", "announce"}
    BY ZenonT(60), <1>4 DEF ExpireLeases, FailExpired, ExpiredDone, Select, Unsend, At
  <2>2. CASE Node = {}
    BY ZenonT(60), <2>2, ReservedIsGrounded DEF Reserved, NoLeakedReservation
  <2> QED
    BY <1>1, <2>1, <2>2, FreeingKeeps, ZenonT(60)
<1>5. CASE NextExpired(p)
  <2>1. PICK a \in th[p].todo : ClearActive(NodeOf(att[a].on)) /\ th[p].pc \notin {"create", "announce"}
    BY <1>5 DEF NextExpired, At
  <2>2. NodeOf(att[a].on) \in Node
    <3>1. a \in Attempt /\ Known(a)
      BY ZenonT(60), <1>0, <1>1 DEF Scheduler, Thread
    <3> QED
      BY ZenonT(60), <3>1, Ids DEF Rows
  <2> QED
    BY ZenonT(60), <1>1, <2>1, <2>2, FreeingKeeps
<1>6. CASE Send(p)
  <2>1. /\ active' = active \/ ClearActive(NodeOf(t.pick))
        /\ t.pc = "send"
    BY <1>0, <1>6 DEF Send, At
  <2> QED
    BY <1>0, <1>1, <1>3, <2>1, FreeingKeeps, ZenonT(60) DEF Placing
<1>7. CASE Reserve(p)
  <2>0. t.pc = "reserve" /\ \A n \in Node, j \in Job : ~Holds(p, n, j)
    BY <1>0, <1>7 DEF Reserve, At, Holds
  <2>1. CASE Reservable(p, t.pick)
    <3> DEFINE n == NodeOf(t.pick)
               new == NextAttempt(Target(t))
               u == [t EXCEPT !.pc = "create", !.new = new]
    <3>1. t.pick \in Session /\ n \in Node /\ new \in Attempt
      BY ZenonT(60), <1>0, <1>1, <2>1, Ids DEF Reservable, Thread
    <3>2. Target(t) \in Job /\ Asked(Target(t))
      BY <1>2, <2>0, ZenonT(60) DEF Scheduling
    <3>3. active' = [active EXCEPT ![n] = [job |-> Target(t), att |-> None]] /\ Goto(p, u)
      BY <1>0, <1>7, <2>1, ZenonT(60) DEF Reserve
    <3> HIDE DEF new
    <3>4. u.pc = "create" /\ u.pick = t.pick /\ Target(u) = Target(t)
      BY <1>1 DEF Thread, Target
    <3>5. th'[p] = u
      BY <1>1, <3>3, ZenonT(60) DEF Goto
    <3> HIDE DEF u
    <3>6. \A m \in Node : m # n => active'[m] = active[m]
      BY <1>1, <3>3
    <3>7. active'[n].job = Target(t) /\ active'[n].att = None
      BY ZenonT(60), <1>1, <3>1, <3>3
    <3>8. Holds(p, n, Target(t))'
      BY <3>4, <3>5, ZenonT(60) DEF Holds
    <3>9. Grounded(n)'
      BY ZenonT(60), <3>2, <3>7, <3>8 DEF Grounded, Holds, Asked
    <3> QED
      BY <1>1, <2>0, <3>6, <3>9, ReservedFrame, ZenonT(60)
  <2>2. CASE ~Reservable(p, t.pick)
    <3>1. active' = active
      BY ZenonT(60), <1>0, <1>7, <2>2 DEF Reserve
    <3> QED
      BY <1>1, <2>0, <3>1, ReservedFrame, ZenonT(60)
  <2> QED
    BY <2>1, <2>2, ZenonT(60)
<1>8. CASE Create(p)
  <2>0. t.pc = "create" /\ NodeOf(t.pick) \in Node
    BY <1>0, <1>3, <1>8, ZenonT(60) DEF Create, At, Placing
  <2>1. CASE active' = active /\ Goto(p, [t EXCEPT !.pc = "announce"])
    <3>1. th'[p] = [t EXCEPT !.pc = "announce"]
      BY <1>1, <2>1 DEF Goto
    <3>2. th'[p].pc = "announce" /\ th'[p].pick = t.pick /\ Target(th'[p]) = Target(t)
      BY <1>1, <3>1, ZenonT(60) DEF Thread, Target
    <3>3. \A n \in Node, j \in Job : Holds(p, n, j) => Holds(p, n, j)'
      BY <1>0, <3>2 DEF Holds
    <3> QED
      BY <1>1, <2>1, <3>3, ReservedFrame, ZenonT(60)
  <2>2. CASE ClearActive(NodeOf(t.pick))
    <3>1. \A n \in Node : active'[n] = None \/ (active'[n] = active[n] /\ n # NodeOf(t.pick))
      BY <1>1, <2>2 DEF ClearActive
    <3>2. \A n \in Node, j \in Job : Holds(p, n, j) => n = NodeOf(t.pick)
      BY ZenonT(60), <1>0 DEF Holds
    <3> QED
      BY <1>1, <3>1, <3>2, ReservedFrame, ZenonT(60)
  <2> QED
    BY ZenonT(60), <1>0, <1>8, <2>1, <2>2 DEF Create
<1>9. CASE Announce(p)
  <2> DEFINE n == NodeOf(t.pick)
  <2>0. t.pc = "announce" /\ n \in Node /\ t.new \in Attempt /\ t.new # None /\ Known(t.new)
    BY <1>0, <1>1, <1>3, <1>9, ZenonT(60) DEF Announce, At, Placing, Scheduler
  <2>1. active' = [active EXCEPT ![n] = [job |-> Target(t), att |-> t.new]]
    BY <1>0, <1>9 DEF Announce
  <2>2. \A m \in Node : m # n => active'[m] = active[m]
    BY <1>1, <2>1
  <2>3. active'[n].job = Target(t) /\ active'[n].att = t.new
    BY ZenonT(60), <1>1, <2>0, <2>1
  <2>4. Target(t) \in Job /\ Asked(Target(t))
    BY <1>2, <2>0 DEF Scheduling, Placing
  <2>5. Grounded(n)'
    BY ZenonT(60), <2>0, <2>3, <2>4 DEF Grounded, Asked, RowsGrow, Known
  <2>6. \A m \in Node, j \in Job : Holds(p, m, j) => m = n
    BY <1>0 DEF Holds
  <2> QED
    BY ZenonT(60), <1>1, <2>2, <2>5, <2>6, ReservedFrame
<1> QED
  BY ZenonT(60), <1>4, <1>5, <1>6, <1>7, <1>8, <1>9 DEF ScheduleStep

\* A reader that takes a step has begun, and is neither creating nor announcing.
LEMMA ReaderHolds ==
    ASSUME NEW s \in Session, ReceiveStep(s) \/ ReaderStep(s) \/ Lose(s)
    PROVE  th[s].pc \notin {"off", "create", "announce"}
BY ZenonT(60) DEF ReceiveStep, JobAccepted, JobStarted, JobRefused, JobCompleted, Receive,
       ReaderStep, CompleteJob, CompleteFailed, Completed, Finish, FailAttempt, FailJob, FailDone,
       DuplicateFailed, DuplicateCompleted, CreditDuplicate, AttachSession, Detach, CloseSession,
   Lose, At

\* A reader frees its own node at most.
LEMMA ReaderFrees ==
    ASSUME NEW s \in Session, ReceiveStep(s) \/ ReaderStep(s) \/ Lose(s)
    PROVE  active' = active \/ ClearActive(NodeOf(s))
<1> USE DEF mem
<1>1. CASE ReceiveStep(s)
  BY ZenonT(60), <1>1 DEF ReceiveStep, JobAccepted, JobStarted, JobRefused, JobCompleted,
     StartFailure
<1>2. CASE ReaderStep(s)
  BY ZenonT(60), <1>2 DEF ReaderStep, CompleteJob, CompleteFailed, Completed, Finish, FailAttempt,
     FailJob, FailDone,
       DuplicateFailed, DuplicateCompleted, CreditDuplicate, AttachSession, Detach, CloseSession,
     StartFailure
<1>3. CASE Lose(s)
  BY <1>3 DEF Lose
<1> QED
  BY <1>1, <1>2, <1>3, ZenonT(60)

\* Every step leaves the readers of connections to come alone.
LEMMA FreshStep ==
    ASSUME TypeOK, Threads, Rows, Traffic, Reserved, Fresh, [Next]_vars
    PROVE  Fresh'
<1> USE DEF net
<1>0. Session \subseteq Proc /\ Job \subseteq Proc /\ Session \cap Job = {}
      /\ \A s \in Session : NodeOf(s) \in Node /\ s[2] \in Nat
  BY Ids DEF Proc
<1>1. CASE th' = th /\ UNCHANGED conn
  BY <1>1 DEF Fresh, At
<1>2. ASSUME UNCHANGED conn, NEW p \in Proc, Moves(p), p \in Session => th[p].pc # "off"
      PROVE  Fresh'
  BY <1>0, <1>2 DEF Fresh, Moves, At
<1>3. CASE UNCHANGED vars
  BY <1>1, <1>3 DEF vars
<1>4. ASSUME NEW j \in Job, OperatorCancel(j) \/ OperatorRetry(j) \/ CancelJob(j)
      PROVE  Fresh'
  BY <1>1, <1>4, ZenonT(60) DEF OperatorCancel, OperatorRetry, CancelJob
<1>5. ASSUME NEW s \in Session, NodeStep(s)
      PROVE  Fresh'
  BY <1>1, <1>5 DEF NodeStep, NodeReject, NodeAccept, NodeFinish
<1>6. ASSUME NEW j \in Job, Submit(j) \/ HandlerStep(j)
      PROVE  Fresh'
  <2>1. UNCHANGED conn
    BY <1>6 DEF Submit, HandlerStep, Abandon, TakeResult, TimeOut, GiveUp
  <2>2. Moves(j)
    BY ZenonT(60), <1>6, HandlerMoves DEF Stepped, MovesOn
  <2> QED
    BY <1>0, <1>2, <2>1, <2>2, ZenonT(60)
<1>7. ASSUME NEW p \in Proc, ScheduleStep(p)
      PROVE  Fresh'
  <2>1. UNCHANGED conn /\ th[p].pc # "off"
    BY ZenonT(60), <1>7 DEF ScheduleStep, ExpireLeases, NextExpired, FailExpired, ExpiredDone,
       Select, Reserve, Create,
                Announce, Send, Unsend, At
  <2>2. Moves(p)
    BY <1>7, ScheduleMoves DEF Stepped, MovesOn
  <2> QED
    BY <1>2, <2>1, <2>2, ZenonT(60)
<1>8. ASSUME NEW s \in Session, ReceiveStep(s) \/ ReaderStep(s) \/ Lose(s)
      PROVE  Fresh'
  <2>1. UNCHANGED conn
    BY <1>8, ZenonT(60) DEF ReceiveStep, JobAccepted, JobStarted, JobRefused, JobCompleted,
            ReaderStep, CompleteJob, CompleteFailed, Completed, Finish, FailAttempt, FailJob,
       FailDone,
            DuplicateFailed, DuplicateCompleted, CreditDuplicate, AttachSession, Detach,
       CloseSession, Lose
  <2>2. Moves(s)
    BY <1>8, ReceiveMoves, ReaderMoves, ZenonT(60) DEF Stepped, MovesOn
  <2> QED
    BY <1>0, <1>2, <1>8, <2>1, <2>2, ReaderHolds, ZenonT(60)
<1>9. ASSUME NEW n \in Node, OpenSession(n)
      PROVE  Fresh'
  <2> SUFFICES ASSUME NEW s \in Session, conn'[NodeOf(s)] < s[2]
               PROVE  At(s, "off")'
    BY DEF Fresh
  <2>1. conn \in [Node -> Nat] /\ conn'[n] = conn[n] + 1 /\ \A m \in Node : m # n => conn'[m] = conn[m]
    BY <1>9 DEF OpenSession, TypeOK
  <2>2. NodeOf(s) \in Node /\ s[2] \in Nat
    BY <1>0
  <2>3. conn[NodeOf(s)] < s[2] /\ (NodeOf(s) = n => s[2] # conn[n] + 1)
    BY <2>1, <2>2
  <2>4. s # <<n, conn[n] + 1>>
    BY <2>3, SMTT(60) DEF NodeOf
  <2>5. th'[s] = th[s]
    BY <1>0, <1>9, <2>4, ZenonT(60) DEF OpenSession, Goto, TypeOK
  <2> QED
    BY <2>3, <2>5 DEF Fresh, At
<1>10. CASE Restart
  BY <1>0, <1>10, ZenonT(60) DEF Restart, Fresh, At
<1> QED
  BY ZenonT(60), <1>3, <1>4, <1>5, <1>6, <1>7, <1>8, <1>9, <1>10 DEF Next

\* Every step keeps the reservations grounded.
LEMMA ReservedStep ==
    ASSUME TypeOK, TypeOK', Threads, Rows, Traffic, Fresh, Reserved, [Next]_vars
    PROVE  Reserved'
<1> USE DEF mem
<1>0. /\ RowsGrow /\ \A j \in Job : Asked(j) => Asked(j)'
      /\ Session \subseteq Proc /\ Job \subseteq Proc /\ \A s \in Session : NodeOf(s) \in Node
  BY RowsStep, AskedStays, Ids DEF Proc
<1>1. ASSUME active' = active, NEW p \in Proc, Moves(p), th[p].pc \notin {"create", "announce"}
      PROVE  Reserved'
  BY ZenonT(60), <1>0, <1>1, ReservedFrame DEF Holds
<1>2. CASE th' = th /\ active' = active
  <2> SUFFICES ASSUME NEW n \in Node, active'[n] # None
               PROVE  Grounded(n)'
    BY ZenonT(60), ReservedIsGrounded DEF Reserved, NoLeakedReservation, Grounded, Holds
  <2>1. Grounded(n) /\ active[n].att \in Attempt \cup {None}
    BY ZenonT(60), <1>2, ReservedIsGrounded DEF TypeOK, Reservation
  <2> QED
    BY ZenonT(60), <1>0, <1>2, <2>1 DEF Grounded, Holds, Asked, At, RowsGrow, Known
<1>3. CASE UNCHANGED vars
  BY <1>2, <1>3 DEF vars
<1>4. ASSUME NEW j \in Job, OperatorCancel(j) \/ OperatorRetry(j) \/ CancelJob(j)
      PROVE  Reserved'
  BY ZenonT(60), <1>2, <1>4 DEF OperatorCancel, OperatorRetry, CancelJob
<1>5. ASSUME NEW s \in Session, NodeStep(s)
      PROVE  Reserved'
  BY <1>2, <1>5 DEF NodeStep, NodeReject, NodeAccept, NodeFinish
<1>6. ASSUME NEW j \in Job, Submit(j) \/ HandlerStep(j)
      PROVE  Reserved'
  <2>1. active' = active /\ th[j].pc \notin {"create", "announce"}
    BY ZenonT(60), <1>6 DEF Submit, HandlerStep, Abandon, TakeResult, TimeOut, GiveUp, At
  <2>2. Moves(j)
    BY <1>6, HandlerMoves, ZenonT(60) DEF Stepped, MovesOn
  <2> QED
    BY ZenonT(60), <1>0, <1>1, <2>1, <2>2
<1>7. ASSUME NEW p \in Proc, ScheduleStep(p)
      PROVE  Reserved'
  BY <1>0, <1>7, ScheduleReserves, ZenonT(60)
<1>8. ASSUME NEW s \in Session, ReceiveStep(s) \/ ReaderStep(s) \/ Lose(s)
      PROVE  Reserved'
  <2>1. Moves(s)
    BY ZenonT(60), <1>8, ReceiveMoves, ReaderMoves DEF Stepped, MovesOn
  <2>2. th[s].pc \notin {"create", "announce"} /\ (active' = active \/ ClearActive(NodeOf(s)))
    BY ZenonT(60), <1>8, ReaderHolds, ReaderFrees
  <2> QED
    BY ZenonT(60), <1>0, <2>1, <2>2, FreeingKeeps
<1>9. ASSUME NEW n \in Node, OpenSession(n)
      PROVE  Reserved'
  <2> DEFINE s == <<n, conn[n] + 1>>
  <2>1. s \in Session /\ Goto(s, [Rest EXCEPT !.pc = "attach"]) /\ active' = active
    BY <1>9 DEF OpenSession
  <2>2. th[s].pc = "off"
    <3>1. conn[n] \in Nat /\ NodeOf(s) = n /\ s[2] = conn[n] + 1
      BY ZenonT(60) DEF TypeOK, NodeOf
    <3> QED
      BY <2>1, <3>1, SMTT(60) DEF Fresh, At
  <2> HIDE DEF s
  <2>3. Moves(s)
    BY <1>0, <2>1, ZenonT(60) DEF Goto, Moves, TypeOK
  <2> QED
    BY <1>0, <1>1, <2>1, <2>2, <2>3, ZenonT(60)
<1>10. CASE Restart
  <2>1. \A n \in Node : active'[n] = None
    BY <1>10, ZenonT(60) DEF Restart
  <2> QED
    BY ZenonT(60), <2>1 DEF Reserved, NoLeakedReservation
<1> QED
  BY <1>3, <1>4, <1>5, <1>6, <1>7, <1>8, <1>9, <1>10, ZenonT(60) DEF Next
-----------------------------------------------------------------------------
(* Rows.  Only Create inserts an attempt and only CompleteJob charges.     *)

\* Attempts that are not there stay as they are.
NoInsert == \A a \in Attempt : ~Known(a) => att'[a] = att[a]

\* A step that inserts no attempt and charges nothing keeps Rows.
LEMMA RowsFrame ==
    ASSUME TypeOK, Rows, RowsGrow, NoInsert, charged' = charged, \A j \in Job : Asked(j) => Asked(j)'
    PROVE  Rows'
<1>0. \A a \in Attempt : JobOf(a) \in Job
  BY Ids
<1>1. \A a \in Attempt : Known(a)' => Known(a) /\ att'[a].on = att[a].on
  BY DEF NoInsert, RowsGrow, Known
<1>2. \A a \in Attempt : att'[a].dup = att[a].dup
  BY ZenonT(60) DEF NoInsert, RowsGrow
<1>3. \A a \in Attempt : Known(a)' => att'[a].on \in Session /\ Asked(JobOf(a))'
  BY <1>0, <1>1, ZenonT(60) DEF Rows
<1>4. \A a \in Attempt : att'[a].dup =>
          Known(a)' /\ \E b \in charged'[JobOf(a)] : NodeOf(att'[b].on) # NodeOf(att'[a].on)
  <2> TAKE a \in Attempt
  <2> HAVE att'[a].dup
  <2>1. Known(a) /\ JobOf(a) \in Job
    BY <1>0, <1>2, ZenonT(60) DEF Rows
  <2>2. PICK b \in charged[JobOf(a)] : NodeOf(att[b].on) # NodeOf(att[a].on)
    BY <1>2 DEF Rows
  <2>3. b \in Attempt /\ Known(b)
    BY <2>1, <2>2, ZenonT(60) DEF Rows, TypeOK
  <2> QED
    BY <2>1, <2>2, <2>3, ZenonT(60) DEF RowsGrow
<1>5. \A j \in Job : \A a, b \in charged'[j] : a = b /\ JobOf(a) = j /\ Known(a)' /\ ~att'[a].dup
  <2> TAKE j \in Job
  <2>1. charged[j] \subseteq Attempt /\ charged'[j] = charged[j]
    BY DEF TypeOK
  <2> QED
    BY <1>2, <2>1 DEF Rows, RowsGrow
<1> QED
  BY <1>3, <1>4, <1>5, ZenonT(60) DEF Rows

\* Changing the status of a known attempt inserts nothing.
LEMMA StatusOnly ==
    ASSUME TypeOK, \/ att' = att
                   \/ \E a \in Attempt : Known(a) /\ \E st \in Live \cup Finished : att' = [att EXCEPT ![a].st = st]
    PROVE  NoInsert
BY DEF NoInsert, TypeOK

\* Of the scheduling code only Create inserts, and none of it charges.
LEMMA ScheduleNoInsert ==
    ASSUME TypeOK, Threads, NEW p \in Proc, ScheduleStep(p), ~Create(p)
    PROVE  NoInsert /\ charged' = charged
<1> DEFINE t == th[p]
<1> USE DEF db
<1>0. t \in Thread /\ att \in [Attempt -> AttemptRow] /\ Scheduler(p) /\ "failed" \in Live \cup Finished
  BY DEF TypeOK, Threads, ThreadOK, Finished
<1>1. CASE ExpireLeases(p)
  <2>1. CASE att' = att
    BY <1>1, <2>1 DEF ExpireLeases, NoInsert
  <2>2. ASSUME NEW expired \in SUBSET {a \in Attempt : May("lease") /\ att[a].st = "offered"},
               att' = [a \in Attempt |-> IF a \in expired THEN [att[a] EXCEPT !.st = "expired"] ELSE att[a]]
        PROVE  NoInsert
    BY <2>2 DEF NoInsert, Known
  <2> QED
    BY ZenonT(60), <1>1, <2>1, <2>2 DEF ExpireLeases
<1>2. CASE NextExpired(p) \/ ExpiredDone(p) \/ Select(p) \/ Reserve(p) \/ Announce(p) \/ Send(p)
  BY ZenonT(60), <1>2 DEF NextExpired, ExpiredDone, Select, Reserve, Announce, Send, NoInsert
<1>3. CASE FailExpired(p)
  <2>1. t.cur \in Attempt /\ Known(t.cur)
    BY <1>0, <1>3, ZenonT(60) DEF FailExpired, At, Scheduler, Thread
  <2> QED
    BY ZenonT(60), <1>0, <1>3, <2>1, StatusOnly DEF FailExpired, FailJobRows
<1>4. CASE Unsend(p)
  <2>1. t.new \in Attempt /\ Known(t.new)
    BY <1>0, <1>4, ZenonT(60) DEF Unsend, At, Scheduler, Placing
  <2> QED
    BY <1>0, <1>4, <2>1, StatusOnly, ZenonT(60) DEF Unsend, FailAttemptRows
<1> QED
  BY <1>1, <1>2, <1>3, <1>4, ZenonT(60) DEF ScheduleStep

\* No message handler inserts, and only CompleteJob charges.
LEMMA ReaderNoInsert ==
    ASSUME TypeOK, Threads, Rows, Traffic, NEW s \in Session, ReceiveStep(s) \/ ReaderStep(s)
    PROVE  NoInsert /\ (~CompleteJob(s) => charged' = charged)
<1> DEFINE t == th[s]
<1> USE DEF db
<1>0. /\ t \in Thread /\ t.att \in Attempt \cup {None} /\ Handler(s)
      /\ {"failed", "verified", "accepted", "running", "succeeded"} \subseteq Live \cup Finished
  <2>1. t \in Thread /\ Handler(s)
    BY ZenonT(60) DEF TypeOK, Threads, ThreadOK, Proc
  <2> QED
    BY ZenonT(60), <2>1 DEF Thread, Live, Finished
<1>1. CASE JobAccepted(s) \/ JobStarted(s)
  <2>1. PICK type : Receive(s, type)
    BY <1>1, ZenonT(60) DEF JobAccepted, JobStarted
  <2>2. Head(mail[s]).att \in Attempt /\ Known(Head(mail[s]).att)
    BY <2>1, ReceiveTypes, MessageOwn, ZenonT(60)
  <2> QED
    BY ZenonT(60), <1>0, <1>1, <2>2, StatusOnly DEF JobAccepted, JobStarted
<1>2. CASE CompleteJob(s)
  <2>1. t.att \in Attempt /\ Known(t.att)
    BY <1>0, <1>2, Ids, SMTT(60) DEF CompleteJob, At, Handler
  <2> QED
    BY <1>0, <1>2, <2>1, StatusOnly, ZenonT(60) DEF CompleteJob
<1>3. CASE FailAttempt(s) \/ FailJob(s)
  <2>1. t.att # None => t.att \in Attempt /\ Known(t.att)
    BY <1>0 DEF Handler
  <2> QED
    BY <1>0, <1>3, <2>1, StatusOnly, ZenonT(60) DEF FailAttempt, FailJob, FailAttemptRows,
       FailJobRows
<1>4. CASE DuplicateFailed(s) \/ DuplicateCompleted(s)
  <2>1. t.att \in Attempt /\ Known(t.att)
    BY <1>0, <1>4, Ids DEF DuplicateFailed, DuplicateCompleted, At, Handler
  <2> QED
    BY <1>0, <1>4, <2>1, StatusOnly, ZenonT(60) DEF DuplicateFailed, DuplicateCompleted
<1>5. CASE \/ JobRefused(s) \/ JobCompleted(s) \/ CompleteFailed(s) \/ Completed(s) \/ Finish(s)
           \/ FailDone(s) \/ CreditDuplicate(s) \/ AttachSession(s) \/ Detach(s) \/ CloseSession(s)
  <2>1. UNCHANGED <<att, charged>>
    BY ZenonT(60), <1>5 DEF JobRefused, JobCompleted, CompleteFailed, Completed, Finish, FailDone,
                CreditDuplicate, AttachSession, Detach, CloseSession
  <2> QED
    BY <2>1, StatusOnly
<1> QED
  BY <1>1, <1>2, <1>3, <1>4, <1>5 DEF ReceiveStep, ReaderStep

\* The insert: of a job that was asked for, and if a duplicate then of charged work
\* and for another node.
LEMMA CreateRows ==
    ASSUME TypeOK, Threads, Rows, NEW p \in Proc, Create(p), \A j \in Job : Asked(j) => Asked(j)'
    PROVE  Rows'
<1>t. PICK t : t = th[p]
  BY ZenonT(60)
<1>0. t \in Thread /\ ThreadOK(p) /\ th[p] = t /\ att \in [Attempt -> AttemptRow] /\ t.pc = "create"
  BY <1>t DEF TypeOK, Threads, Create, At
<1>1. /\ t.new \in Attempt /\ t.pick \in Session /\ JobOf(t.new) = Target(t)
      /\ ForDuplicate(t) => NodeOf(t.pick) # NodeOf(p)
  BY ZenonT(60), <1>0 DEF ThreadOK, Scheduler, Placing
<1>2. charged' = charged /\ RowsGrow
  BY ZenonT(60), ScheduleRows DEF Create, ScheduleStep
<1>3. CASE att' = att
  BY <1>2, <1>3, RowsFrame, ZenonT(60) DEF NoInsert
<1>4. CASE att[t.new].st = "none" /\ att' = [att EXCEPT ![t.new] =
                            [st |-> "offered", on |-> t.pick, dup |-> ForDuplicate(t)]]
  <2>1. /\ att'[t.new].st = "offered" /\ att'[t.new].on = t.pick /\ att'[t.new].dup = ForDuplicate(t)
        /\ \A a \in Attempt : a # t.new => att'[a] = att[a]
    BY <1>0, <1>1, <1>4, ZenonT(60)
  <2>2. Asked(JobOf(t.new))
    <3>1. t.job \in Job /\ t.cur \in Attempt \cup {None} /\ Asked(t.job) /\ None \notin Proc
      BY ZenonT(60), <1>0, Ids DEF ThreadOK, Scheduler, Handler, Scheduling, Placing, Thread, Proc
    <3>2. CASE t.cur # None
      BY ZenonT(60), <1>0, <1>1, <3>1, <3>2 DEF ThreadOK, Scheduler, Rows, Target
    <3>3. CASE t.cur = None
      BY ZenonT(60), <1>1, <3>1, <3>3 DEF Target
    <3> QED
      BY <3>2, <3>3
  <2>3. \A a \in Attempt : Known(a)' => att'[a].on \in Session /\ Asked(JobOf(a))'
    <3>1. \A a \in Attempt : JobOf(a) \in Job
      BY Ids
    <3> QED
      BY ZenonT(60), <1>1, <2>1, <2>2, <3>1 DEF Rows, Known
  <2>4. \A j \in Job : \A b \in charged[j] : b \in Attempt /\ Known(b) /\ b # t.new /\ att'[b] = att[b]
    <3> TAKE j \in Job
    <3> TAKE b \in charged[j]
    <3>1. b \in Attempt
      BY DEF TypeOK
    <3>2. Known(b)
      BY ZenonT(60) DEF Rows
    <3> QED
      BY <1>4, <2>1, <3>1, <3>2, ZenonT(60) DEF Known
  <2>5. \A a \in Attempt : att'[a].dup =>
            Known(a)' /\ \E b \in charged'[JobOf(a)] : NodeOf(att'[b].on) # NodeOf(att'[a].on)
    <3> TAKE a \in Attempt
    <3> HAVE att'[a].dup
    <3>1. CASE a = t.new
      <4>1. ForDuplicate(t)
        BY <2>1, <3>1
      <4>2. t.job \in Job /\ t.att \in charged[t.job] /\ NodeOf(att[t.att].on) = NodeOf(p) /\ t.job = JobOf(a)
        BY ZenonT(60), <1>0, <1>1, <3>1, <4>1 DEF ForDuplicate, Target, ThreadOK, Handler
      <4> QED
        BY <1>1, <1>2, <2>1, <2>4, <3>1, <4>1, <4>2, ZenonT(60) DEF Known
    <3>2. CASE a # t.new
      <4>1. att'[a] = att[a] /\ att[a].dup /\ JobOf(a) \in Job
        BY <2>1, <3>2, Ids, ZenonT(60)
      <4>2. PICK b \in charged[JobOf(a)] : NodeOf(att[b].on) # NodeOf(att[a].on)
        BY <4>1, ZenonT(60) DEF Rows
      <4>3. Known(a)'
        BY <4>1, ZenonT(60) DEF Rows, Known
      <4> QED
        BY <1>2, <2>4, <4>1, <4>2, <4>3, ZenonT(60)
    <3> QED
      BY <3>1, <3>2, ZenonT(60)
  <2>6. \A j \in Job : \A a, b \in charged'[j] : a = b /\ JobOf(a) = j /\ Known(a)' /\ ~att'[a].dup
    BY <1>2, <2>4 DEF Rows, Known
  <2> QED
    BY <2>3, <2>5, <2>6, ZenonT(60) DEF Rows
<1> QED
  BY ZenonT(60), <1>0, <1>3, <1>4 DEF Create

\* The charge: of a job without one, and never for a duplicate, whose job has one.
LEMMA ChargeRows ==
    ASSUME TypeOK, Threads, Rows, NEW s \in Session, CompleteJob(s), NoInsert, RowsGrow,
           \A j \in Job : Asked(j) => Asked(j)'
    PROVE  Rows'
<1>t. PICK t : t = th[s]
  BY ZenonT(60)
<1>0. /\ t \in Thread /\ th[s] = t /\ charged \in [Job -> SUBSET Attempt]
      /\ t.att \in Attempt /\ t.job = JobOf(t.att) /\ t.job \in Job /\ Known(t.att)
  <2>1. t \in Thread /\ Handler(s) /\ th[s] = t /\ s \in Proc /\ t.pc = "complete"
    BY <1>t DEF TypeOK, Threads, ThreadOK, Proc, CompleteJob, At
  <2> QED
    BY <2>1, Ids, ZenonT(60) DEF Handler, TypeOK
<1>1. CASE charged' = charged
  BY <1>1, RowsFrame
<1>2. CASE charged[t.job] = {} /\ charged' = [charged EXCEPT ![t.job] = @ \cup {t.att}]
  <2>1. /\ charged'[t.job] = {t.att}
        /\ \A j \in Job : j # t.job => charged'[j] = charged[j]
    BY <1>0, <1>2
  <2>2. \A a \in Attempt : att'[a].dup = att[a].dup
    BY DEF NoInsert, RowsGrow
  <2>3. ~att[t.att].dup
    BY ZenonT(60), <1>0, <1>2 DEF Rows
  <2>4. \A a \in Attempt : Known(a)' => att'[a].on \in Session /\ Asked(JobOf(a))'
    <3>1. \A a \in Attempt : JobOf(a) \in Job
      BY Ids
    <3>2. \A a \in Attempt : Known(a)' => Known(a) /\ att'[a].on = att[a].on
      BY ZenonT(60) DEF NoInsert, RowsGrow, Known
    <3> QED
      BY ZenonT(60), <3>1, <3>2 DEF Rows
  <2>5. \A a \in Attempt : att'[a].dup =>
            Known(a)' /\ \E b \in charged'[JobOf(a)] : NodeOf(att'[b].on) # NodeOf(att'[a].on)
    <3> TAKE a \in Attempt
    <3> HAVE att'[a].dup
    <3>1. Known(a) /\ JobOf(a) \in Job
      BY ZenonT(60), <2>2, Ids DEF Rows
    <3>2. PICK b \in charged[JobOf(a)] : NodeOf(att[b].on) # NodeOf(att[a].on)
      BY ZenonT(60), <2>2 DEF Rows
    <3>3. b \in Attempt /\ Known(b) /\ b \in charged'[JobOf(a)]
      BY ZenonT(60), <1>0, <3>1, <3>2 DEF Rows, RowsGrow
    <3> QED
      BY ZenonT(60), <3>1, <3>2, <3>3 DEF RowsGrow
  <2>6. \A j \in Job : \A a, b \in charged'[j] : a = b /\ JobOf(a) = j /\ Known(a)' /\ ~att'[a].dup
    <3> TAKE j \in Job
    <3>1. CASE j = t.job
      BY <1>0, <2>1, <2>2, <2>3, <3>1, SMTT(60) DEF RowsGrow
    <3>2. CASE j # t.job
      <4>1. charged'[j] = charged[j] /\ charged[j] \subseteq Attempt
        BY <1>0, <2>1, <3>2
      <4> QED
        BY <2>2, <4>1, SMTT(60) DEF Rows, RowsGrow
    <3> QED
      BY ZenonT(60), <3>1, <3>2
  <2> QED
    BY ZenonT(60), <2>4, <2>5, <2>6 DEF Rows
<1> QED
  BY <1>0, <1>1, <1>2 DEF CompleteJob, CanComplete

\* Every step keeps what the rows say of each other.
LEMMA RowsKept ==
    ASSUME TypeOK, Threads, Rows, Traffic, Reserved, [Next]_vars
    PROVE  Rows'
<1> USE DEF db
<1>0. RowsGrow /\ \A j \in Job : Asked(j) => Asked(j)'
  BY RowsStep, AskedStays
<1>1. CASE UNCHANGED vars
  BY <1>0, <1>1, RowsFrame DEF vars, NoInsert
<1>2. ASSUME NEW j \in Job, Submit(j) \/ HandlerStep(j)
      PROVE  Rows'
  <2>1. UNCHANGED <<att, charged>>
    BY <1>2 DEF Submit, HandlerStep, Abandon, TakeResult, TimeOut, GiveUp, FailJobRows
  <2> QED
    BY <1>0, <2>1, RowsFrame, ZenonT(60) DEF NoInsert
<1>3. ASSUME NEW p \in Proc, ScheduleStep(p)
      PROVE  Rows'
  <2>1. CASE Create(p)
    BY <1>0, <2>1, CreateRows
  <2>2. CASE ~Create(p)
    BY <1>0, <1>3, <2>2, ScheduleNoInsert, RowsFrame, ZenonT(60)
  <2> QED
    BY <2>1, <2>2
<1>4. ASSUME NEW s \in Session, ReceiveStep(s) \/ ReaderStep(s)
      PROVE  Rows'
  <2>1. CASE CompleteJob(s)
    BY <1>0, <1>4, <2>1, ReaderNoInsert, ChargeRows, ZenonT(60)
  <2>2. CASE ~CompleteJob(s)
    BY <1>0, <1>4, <2>2, ReaderNoInsert, RowsFrame, ZenonT(60)
  <2> QED
    BY <2>1, <2>2
<1>5. ASSUME NEW s \in Session, NodeStep(s) \/ Lose(s)
      PROVE  Rows'
  <2>1. UNCHANGED <<att, charged>>
    BY <1>5 DEF NodeStep, NodeReject, NodeAccept, NodeFinish, Lose
  <2> QED
    BY <1>0, <2>1, RowsFrame, ZenonT(60) DEF NoInsert
<1>6. ASSUME \/ Restart \/ \E n \in Node : OpenSession(n)
             \/ \E j \in Job : OperatorRetry(j) \/ CancelJob(j)
      PROVE  Rows'
  <2>1. UNCHANGED <<att, charged>>
    BY ZenonT(60), <1>6 DEF Restart, OpenSession, OperatorRetry, CancelJob
  <2> QED
    BY <1>0, <2>1, RowsFrame DEF NoInsert
<1>7. ASSUME NEW j \in Job, OperatorCancel(j)
      PROVE  Rows'
  <2>1. NoInsert /\ charged' = charged
    BY <1>7 DEF OperatorCancel, NoInsert, Known, Live
  <2> QED
    BY <1>0, <2>1, RowsFrame
<1> QED
  BY <1>1, <1>2, <1>3, <1>4, <1>5, <1>6, <1>7, ZenonT(60) DEF Next

-----------------------------------------------------------------------------
(* Traffic.                                                                *)

OwnNext(s, a) == att'[a].st # "none" /\ att'[a].on = s

\* What was a session's own stays its own.
LEMMA StillOwn ==
    ASSUME TypeOK, Traffic, RowsGrow, NEW s \in Session
    PROVE  /\ \A i \in DOMAIN offer[s] : offer[s][i] \in Attempt /\ OwnNext(s, offer[s][i])
           /\ \A i \in DOMAIN mail[s] : mail[s][i].att \in Attempt /\ OwnNext(s, mail[s][i].att)
           /\ work[s] # None => work[s] \in Attempt /\ OwnNext(s, work[s])
<1>1. offer[s] \in Seq(Attempt) /\ mail[s] \in Seq(Message) /\ work[s] \in Attempt \cup {None}
  BY DEF TypeOK
<1>2. \A i \in DOMAIN mail[s] : mail[s][i] \in Message
  BY <1>1
<1>3. /\ \A i \in DOMAIN offer[s] : offer[s][i] \in Attempt
      /\ \A i \in DOMAIN mail[s] : mail[s][i].att \in Attempt
      /\ work[s] # None => work[s] \in Attempt
  BY <1>1, <1>2 DEF Message
<1>4. \A a \in Attempt : Own(s, a) => OwnNext(s, a)
  BY ZenonT(60) DEF Own, OwnNext, RowsGrow, Known
<1> QED
  BY ZenonT(60), <1>3, <1>4 DEF Traffic, OwnTraffic

\* Traffic that does not change, does not change hands.
LEMMA TrafficFrame ==
    ASSUME TypeOK, Traffic, RowsGrow, NEW s \in Session,
           offer'[s] = offer[s], mail'[s] = mail[s], work'[s] = work[s]
    PROVE  OwnTraffic(s)'
BY StillOwn DEF OwnTraffic, Own, OwnNext, Known

\* What is left of a sequence after a read, and what is in it after a write.
LEMMA TailParts ==
    ASSUME NEW S, NEW q \in Seq(S), q # <<>>
    PROVE  \A i \in DOMAIN Tail(q) : i + 1 \in DOMAIN q /\ Tail(q)[i] = q[i + 1]
BY SMTT(60)

\* The elements of a sequence with another one appended.
LEMMA AppendParts ==
    ASSUME NEW S, NEW q \in Seq(S), NEW x \in S, NEW y \in S
    PROVE  /\ \A i \in DOMAIN Append(q, x) : (i \in DOMAIN q /\ Append(q, x)[i] = q[i]) \/ Append(q, x)[i] = x
           /\ \A i \in DOMAIN (q \o <<x>>) : (i \in DOMAIN q /\ (q \o <<x>>)[i] = q[i]) \/ (q \o <<x>>)[i] = x
           /\ \A i \in DOMAIN (q \o <<x, y>>) : \/ i \in DOMAIN q /\ (q \o <<x, y>>)[i] = q[i]
                                               \/ (q \o <<x, y>>)[i] \in {x, y}
<1>1. \A i \in DOMAIN Append(q, x) : (i \in DOMAIN q /\ Append(q, x)[i] = q[i]) \/ Append(q, x)[i] = x
  OBVIOUS
<1>2. \A i \in DOMAIN (q \o <<x>>) : (i \in DOMAIN q /\ (q \o <<x>>)[i] = q[i]) \/ (q \o <<x>>)[i] = x
  OBVIOUS
<1>3. \A i \in DOMAIN (q \o <<x, y>>) : \/ i \in DOMAIN q /\ (q \o <<x, y>>)[i] = q[i]
                                       \/ (q \o <<x, y>>)[i] \in {x, y}
  OBVIOUS
<1> QED
  BY <1>1, <1>2, <1>3

\* An offer goes to the session the new attempt is for.
LEMMA SendTraffic ==
    ASSUME TypeOK, Threads, Traffic, RowsGrow, NEW p \in Proc, Send(p)
    PROVE  Traffic'
<1>t. PICK t : t = th[p]
  BY ZenonT(60)
<1>0. /\ th[p] = t /\ t.pick \in Session /\ t.new \in Attempt /\ Known(t.new) /\ att[t.new].on = t.pick
      /\ offer \in [Session -> Seq(Attempt)]
  BY <1>t, ZenonT(60) DEF Send, At, Threads, ThreadOK, Scheduler, Placing, TypeOK
<1>1. UNCHANGED <<mail, work>>
  BY DEF Send
<1> SUFFICES ASSUME NEW s \in Session
             PROVE  OwnTraffic(s)'
  BY DEF Traffic
<1>2. CASE offer'[s] = offer[s]
  BY <1>1, <1>2, TrafficFrame
<1>3. CASE s = t.pick /\ offer'[s] = Append(offer[s], t.new)
  <2>1. offer[s] \in Seq(Attempt) /\ \A i \in DOMAIN offer[s] : OwnNext(s, offer[s][i])
    BY ZenonT(60), <1>0, StillOwn
  <2>2. OwnNext(s, t.new)
    BY ZenonT(60), <1>0, <1>3 DEF OwnNext, RowsGrow, Known
  <2>3. \A i \in DOMAIN offer'[s] : (i \in DOMAIN offer[s] /\ offer'[s][i] = offer[s][i]) \/ offer'[s][i] = t.new
    BY <1>0, <1>3, <2>1, AppendParts
  <2>4. \A i \in DOMAIN offer'[s] : OwnNext(s, offer'[s][i])
    BY <2>1, <2>2, <2>3
  <2> QED
    BY <1>1, <2>4, StillOwn, ZenonT(60) DEF OwnTraffic, Own, OwnNext, Known
<1>4. offer'[s] = offer[s] \/ (s = t.pick /\ offer'[s] = Append(offer[s], t.new))
  BY <1>0 DEF Send
<1> QED
  BY <1>2, <1>3, <1>4

\* What is read from the mail is gone from it.
LEMMA ReceiveTraffic ==
    ASSUME TypeOK, Traffic, RowsGrow, NEW s \in Session, ReceiveStep(s)
    PROVE  Traffic'
<1>1. UNCHANGED <<offer, work>> /\ mail[s] # <<>> /\ mail' = [mail EXCEPT ![s] = Tail(@)]
  BY ZenonT(60) DEF ReceiveStep, JobAccepted, JobStarted, JobRefused, JobCompleted, Receive
<1>2. mail \in [Session -> Seq(Message)]
  BY DEF TypeOK
<1> SUFFICES ASSUME NEW r \in Session
             PROVE  OwnTraffic(r)'
  BY DEF Traffic
<1>3. CASE r # s
  BY <1>1, <1>2, <1>3, TrafficFrame
<1>4. CASE r = s
  <2>1. mail[s] \in Seq(Message) /\ \A i \in DOMAIN mail[s] : OwnNext(s, mail[s][i].att)
    BY ZenonT(60), <1>2, StillOwn
  <2>2. mail'[s] = Tail(mail[s])
    BY <1>1, <1>2
  <2>3. \A i \in DOMAIN mail'[s] : i + 1 \in DOMAIN mail[s] /\ mail'[s][i] = mail[s][i + 1]
    BY <1>1, <2>1, <2>2, TailParts, ZenonT(60)
  <2>4. \A i \in DOMAIN mail'[s] : OwnNext(s, mail'[s][i].att)
    BY <2>1, <2>3
  <2> QED
    BY <1>1, <1>4, <2>4, StillOwn, ZenonT(60) DEF OwnTraffic, Own, OwnNext, Known
<1> QED
  BY <1>3, <1>4

\* A node answers an offer with messages about it, and finishes the work it took.
LEMMA NodeTraffic ==
    ASSUME TypeOK, Traffic, RowsGrow, NEW s \in Session, NodeStep(s)
    PROVE  Traffic'
<1>0. /\ mail \in [Session -> Seq(Message)] /\ offer \in [Session -> Seq(Attempt)]
      /\ work \in [Session -> Attempt \cup {None}]
      /\ mail[s] \in Seq(Message) /\ \A i \in DOMAIN mail[s] : OwnNext(s, mail[s][i].att)
  BY ZenonT(60), StillOwn DEF TypeOK
<1>1. /\ \A r \in Session : r # s => offer'[r] = offer[r] /\ mail'[r] = mail[r] /\ work'[r] = work[r]
      /\ \/ offer'[s] = offer[s]
         \/ offer[s] # <<>> /\ offer'[s] = Tail(offer[s])
  BY ZenonT(60), <1>0 DEF NodeStep, NodeReject, NodeAccept, NodeFinish, Post
<1>2. PICK a \in Attempt, x \in Message, y \in Message :
          /\ OwnNext(s, a) /\ x.att = a /\ y.att = a
          /\ work'[s] \in {None, a, work[s]}
          /\ mail'[s] = mail[s] \o <<x>> \/ mail'[s] = mail[s] \o <<x, y>>
  <2>0. \A a \in Attempt, type \in {"accepted", "started", "rejected", "failed", "completed"}, good \in BOOLEAN :
           Msg(type, a, good) \in Message /\ Msg(type, a, good).att = a
    BY DEF Msg, Message
  <2>1. CASE NodeReject(s) \/ NodeAccept(s)
    <3>1. Head(offer[s]) \in Attempt /\ OwnNext(s, Head(offer[s]))
      <4>1. offer[s] \in Seq(Attempt) /\ offer[s] # <<>>
        BY <1>0, <2>1 DEF NodeReject, NodeAccept
      <4>2. 1 \in DOMAIN offer[s] /\ Head(offer[s]) = offer[s][1]
        BY <4>1, SMTT(60)
      <4> QED
        BY ZenonT(60), <4>2, StillOwn
    <3>2. work'[s] \in {None, Head(offer[s]), work[s]}
      BY <1>0, <2>1 DEF NodeReject, NodeAccept
    <3>3. \/ mail'[s] = mail[s] \o <<Msg("rejected", Head(offer[s]), TRUE)>>
          \/ mail'[s] = mail[s] \o <<Msg("accepted", Head(offer[s]), TRUE), Msg("started", Head(offer[s]), TRUE)>>
      BY ZenonT(60), <1>0, <2>1 DEF NodeReject, NodeAccept, Post
    <3>4. /\ Msg("rejected", Head(offer[s]), TRUE) \in Message /\ Msg("rejected", Head(offer[s]), TRUE).att = Head(offer[s])
          /\ Msg("accepted", Head(offer[s]), TRUE) \in Message /\ Msg("accepted", Head(offer[s]), TRUE).att = Head(offer[s])
          /\ Msg("started", Head(offer[s]), TRUE) \in Message /\ Msg("started", Head(offer[s]), TRUE).att = Head(offer[s])
      BY ZenonT(60), <2>0, <3>1
    <3> QED
      BY ZenonT(60), <3>1, <3>2, <3>3, <3>4
  <2>2. CASE NodeFinish(s)
    <3>1. work[s] \in Attempt /\ OwnNext(s, work[s])
      BY ZenonT(60), <1>0, <2>2, StillOwn DEF NodeFinish
    <3>2. work'[s] = None
      BY <1>0, <2>2 DEF NodeFinish
    <3>3. PICK type \in {"failed", "completed"}, good \in BOOLEAN :
             mail'[s] = mail[s] \o <<Msg(type, work[s], good)>>
      BY <1>0, <2>2, ZenonT(60) DEF NodeFinish, Post
    <3>4. Msg(type, work[s], good) \in Message /\ Msg(type, work[s], good).att = work[s]
      BY <2>0, <3>1
    <3> QED
      BY ZenonT(60), <3>1, <3>2, <3>3, <3>4
  <2> QED
    BY ZenonT(60), <2>1, <2>2 DEF NodeStep
<1> SUFFICES ASSUME NEW r \in Session
             PROVE  OwnTraffic(r)'
  BY DEF Traffic
<1>3. CASE r # s
  BY ZenonT(60), <1>1, <1>3, TrafficFrame
<1>4. CASE r = s
  <2>1. \A i \in DOMAIN offer'[s] : OwnNext(s, offer'[s][i])
    <3>1. CASE offer'[s] = offer[s]
      BY ZenonT(60), <3>1, StillOwn
    <3>2. CASE offer[s] # <<>> /\ offer'[s] = Tail(offer[s])
      <4>1. offer[s] \in Seq(Attempt)
        BY <1>0, ZenonT(60)
      <4>2. \A i \in DOMAIN offer'[s] : i + 1 \in DOMAIN offer[s] /\ offer'[s][i] = offer[s][i + 1]
        BY <3>2, <4>1, TailParts, SMTT(60)
      <4> QED
        BY ZenonT(60), <4>2, StillOwn
    <3> QED
      BY ZenonT(60), <1>1, <3>1, <3>2
  <2>2. \A i \in DOMAIN mail'[s] : OwnNext(s, mail'[s][i].att)
    <3>0. PICK q \in Seq(Message) : q = mail[s]
      BY <1>0
    <3>a. mail'[s] = q \o <<x>> \/ mail'[s] = q \o <<x, y>>
      BY <1>2, <3>0, ZenonT(60)
    <3>1. /\ \A i \in DOMAIN (q \o <<x>>) : (i \in DOMAIN q /\ (q \o <<x>>)[i] = q[i]) \/ (q \o <<x>>)[i] = x
          /\ \A i \in DOMAIN (q \o <<x, y>>) : \/ i \in DOMAIN q /\ (q \o <<x, y>>)[i] = q[i]
                                               \/ (q \o <<x, y>>)[i] \in {x, y}
      BY AppendParts
    <3>2. \A i \in DOMAIN mail'[s] : (i \in DOMAIN q /\ mail'[s][i] = q[i]) \/ mail'[s][i] \in {x, y}
      <4>1. CASE mail'[s] = q \o <<x>>
        BY <3>1, <4>1, ZenonT(60)
      <4>2. CASE mail'[s] = q \o <<x, y>>
        BY <3>1, <4>2, ZenonT(60)
      <4> QED
        BY ZenonT(60), <3>a, <4>1, <4>2
    <3>3. /\ \A i \in DOMAIN q : OwnNext(s, q[i].att)
          /\ x.att = a /\ y.att = a /\ OwnNext(s, a)
      BY <1>0, <1>2, <3>0, ZenonT(60)
    <3> QED
      BY <3>2, <3>3
  <2>3. work'[s] # None => OwnNext(s, work'[s])
    BY <1>2, StillOwn
  <2> QED
    BY <1>4, <2>1, <2>2, <2>3, ZenonT(60) DEF OwnTraffic, Own, OwnNext, Known
<1> QED
  BY <1>3, <1>4

\* Every step keeps each session's traffic its own.
LEMMA TrafficStep ==
    ASSUME TypeOK, Threads, Traffic, [Next]_vars
    PROVE  Traffic'
<1> USE DEF net, env
<1>0. RowsGrow
  BY RowsStep
<1>1. CASE UNCHANGED <<offer, mail, work>>
  BY <1>0, <1>1, TrafficFrame DEF Traffic
<1>2. CASE UNCHANGED vars
  BY <1>1, <1>2, ZenonT(60) DEF vars
<1>3. ASSUME NEW j \in Job, \/ Submit(j) \/ HandlerStep(j)
                            \/ OperatorCancel(j) \/ OperatorRetry(j) \/ CancelJob(j)
      PROVE  Traffic'
  BY <1>1, <1>3 DEF Submit, HandlerStep, Abandon, TakeResult, TimeOut, GiveUp,
                    OperatorCancel, OperatorRetry, CancelJob
<1>4. ASSUME NEW p \in Proc, ScheduleStep(p)
      PROVE  Traffic'
  <2>1. CASE Send(p)
    BY <1>0, <2>1, SendTraffic
  <2>2. CASE ~Send(p)
    BY <1>1, <1>4, <2>2, ZenonT(60) DEF ScheduleStep, ExpireLeases, NextExpired, FailExpired,
       ExpiredDone, Select,
                            Reserve, Create, Announce, Unsend
  <2> QED
    BY <2>1, <2>2
<1>5. ASSUME NEW s \in Session, Detach(s)
      PROVE  Traffic'
  <2> SUFFICES ASSUME NEW r \in Session
               PROVE  OwnTraffic(r)'
    BY DEF Traffic
  <2>1. CASE r # s
    BY <1>0, <1>5, <2>1, TrafficFrame, ZenonT(60) DEF Detach, TypeOK
  <2>2. CASE r = s
    <3>1. mail'[r] = <<>> /\ offer'[r] = <<>> /\ work'[r] = None
      BY <1>5, <2>2, ZenonT(60) DEF Detach, TypeOK
    <3> QED
      BY <3>1 DEF OwnTraffic
  <2> QED
    BY <2>1, <2>2
<1>6. ASSUME NEW s \in Session, ReaderStep(s) \/ Lose(s), ~Detach(s)
      PROVE  Traffic'
  BY <1>1, <1>6, ZenonT(60) DEF Lose, ReaderStep, CompleteJob, CompleteFailed, Completed, Finish,
     FailAttempt, FailJob,
                    FailDone, DuplicateFailed, DuplicateCompleted, CreditDuplicate, AttachSession,
     CloseSession
<1>7. ASSUME NEW n \in Node, OpenSession(n)
      PROVE  Traffic'
  BY <1>1, <1>7 DEF OpenSession
<1>8. CASE Restart
  <2> SUFFICES ASSUME NEW r \in Session
               PROVE  OwnTraffic(r)'
    BY DEF Traffic
  <2>1. mail'[r] = <<>> /\ offer'[r] = <<>> /\ work'[r] = None
    BY <1>8 DEF Restart
  <2> QED
    BY <2>1 DEF OwnTraffic
<1> QED
  BY <1>0, <1>2, <1>3, <1>4, <1>5, <1>6, <1>7, <1>8, ReceiveTraffic, NodeTraffic,
     ZenonT(60) DEF Next

-----------------------------------------------------------------------------
(* Initially, and in every step.                                           *)

\* The coordinator starts with empty maps and no goroutine.
LEMMA InitHolds == Init => IInv
<1> SUFFICES ASSUME Init
             PROVE  IInv
  BY ZenonT(60)
<1> USE DEF Init
<1>0. Rest \in Thread /\ NewRun \in RunState
  BY ZenonT(60) DEF Rest, Thread, PC, NewRun, RunState
<1>1. TypeOK
  <2>1. [st |-> "none", on |-> None, dup |-> FALSE] \in AttemptRow
    BY DEF AttemptRow
  <2>2. /\ job \in [Job -> JobState] /\ att \in [Attempt -> AttemptRow] /\ run \in [Job -> RunState]
        /\ th \in [Proc -> Thread]
    BY <1>0, <2>1, SMTT(60) DEF JobState
  <2>3. mail \in [Session -> Seq(Message)] /\ offer \in [Session -> Seq(Attempt)]
    OBVIOUS
  <2>4. ops \in 0..MaxOps /\ crashes \in 0..MaxCrashes
    BY BoundAssumption, SMTT(60)
  <2>5. /\ charged \in [Job -> SUBSET Attempt] /\ credited \in SUBSET Attempt /\ open \in SUBSET Session
        /\ sessions \in [Node -> Session \cup {None}] /\ active \in [Node -> Reservation \cup {None}]
        /\ pending \in SUBSET Job /\ result \in [Job -> {"none", "ok", "error"}] /\ dups \in SUBSET Attempt
    OBVIOUS
  <2>6. /\ answer \in [Job -> {"none", "ok", "error", "lost"}] /\ conn \in [Node -> Nat]
        /\ work \in [Session -> Attempt \cup {None}]
    BY ZenonT(60)
  <2> QED
    BY ONLY <2>2, <2>3, <2>4, <2>5, <2>6, ZenonT(60) DEF TypeOK
<1>2. \A p \in Proc : /\ th[p].pc = "off" /\ th[p].kind = "none" /\ th[p].job = None /\ th[p].att = None
                      /\ th[p].todo = {} /\ th[p].cur = None /\ ~th[p].closing
  BY DEF Rest
<1>3. Threads
  <2> SUFFICES ASSUME NEW p \in Proc
               PROVE  ThreadOK(p)
    BY ZenonT(60) DEF Threads
  <2>1. RightCode(p)
    BY <1>2, SMTT(60) DEF RightCode, Unwaiting, Scheduling, Placing
  <2>2. Scheduler(p)
    <3>1. /\ th[p].pc \notin Scheduling /\ th[p].pc \notin Placing
          /\ th[p].pc \notin {"failExpired", "expiredDone"}
      BY <1>2, SMTT(60) DEF Scheduling, Placing
    <3> QED
      BY <1>2, <3>1, ZenonT(60) DEF Scheduler
  <2>3. Handler(p)
    BY <1>2, ZenonT(60) DEF Handler
  <2> QED
    BY <2>1, <2>2, <2>3, ZenonT(60) DEF ThreadOK
<1>4. Rows
  BY SMTT(60) DEF Rows, Known
<1>5. Traffic
  BY SMTT(60) DEF Traffic, OwnTraffic
<1>6. Waiting
  BY <1>2, ZenonT(60) DEF Waiting, Unwaiting, Proc
<1>7. RegisteredIsServed /\ Fresh
  BY <1>2, SMTT(60) DEF RegisteredIsServed, Fresh, Proc, At
<1>8. Reserved
  BY DEF Reserved, NoLeakedReservation
<1> QED
  BY <1>1, <1>3, <1>4, <1>5, <1>6, <1>7, <1>8, ZenonT(60) DEF IInv

\* Every step keeps the whole invariant.
LEMMA StepHolds == IInv /\ [Next]_vars => IInv'
<1> SUFFICES ASSUME IInv, [Next]_vars
             PROVE  IInv'
  OBVIOUS
<1> USE DEF IInv
<1>1. TypeOK'
  BY TypeStep
<1>2. Threads'
  BY ThreadsStep
<1>3. Rows'
  BY RowsKept
<1>4. Traffic'
  BY TrafficStep
<1>5. Waiting'
  BY WaitingStep
<1>6. RegisteredIsServed' /\ Fresh'
  BY ServedStep, FreshStep
<1>7. Reserved'
  BY <1>1, ReservedStep
<1> QED
  BY <1>1, <1>2, <1>3, <1>4, <1>5, <1>6, <1>7, ZenonT(60)

\* The invariant holds in every reachable state.
THEOREM Invariance == Spec => []IInv
BY InitHolds, StepHolds, PTL DEF Spec

-----------------------------------------------------------------------------
(* The safety properties.                                                  *)

\* Rows, maps, channels, messages and locals always have their types.
THEOREM Types == Spec => []TypeOK
BY Invariance, PTL DEF IInv

\* CompleteJob charges a job at most once, for one of its own attempts and never
\* for a duplicate.
THEOREM ChargesOnce == Spec => []ChargedOnce
<1>1. IInv => ChargedOnce
  BY ZenonT(60) DEF IInv, Rows, ChargedOnce
<1> QED
  BY <1>1, Invariance, PTL

\* No wakeup of a waiting handler is lost by notify or AbandonWait.
THEOREM WaitersReachable == Spec => []WaiterIsReachable
<1>1. IInv => WaiterIsReachable
  BY DEF IInv, Waiting, WaiterIsReachable, At, Unwaiting
<1> QED
  BY <1>1, Invariance, PTL

\* No registration AttachSession made outlives its connection.
THEOREM RegistrationsServed == Spec => []RegisteredIsServed
BY Invariance, PTL DEF IInv

\* No path of the scheduling code leaks a node's reservation.
THEOREM NoLeaks == Spec => []NoLeakedReservation
<1>1. IInv => NoLeakedReservation
  BY ZenonT(60) DEF IInv, Reserved
<1> QED
  BY <1>1, Invariance, PTL

\* maybeStartDuplicate repeats charged work only, and on another node.
THEOREM DuplicatesElsewhere == Spec => []DuplicateElsewhere
<1>1. IInv => DuplicateElsewhere
  BY Ids DEF IInv, Rows, DuplicateElsewhere
<1> QED
  BY <1>1, Invariance, PTL

\* Attempts that have finished stay finished in this step.
StaysFinished == \A a \in Attempt : att[a].st \in Finished => att'[a].st \in Finished

\* So they do when the status of one attempt changes that is live, or to a finished one.
LEMMA StatusEnds ==
    ASSUME TypeOK,
           \/ att' = att
           \/ \E a \in Attempt, st \in Live \cup Finished :
                 att' = [att EXCEPT ![a].st = st] /\ (att[a].st \in Finished => st \in Finished)
    PROVE  StaysFinished
<1>1. att \in [Attempt -> AttemptRow]
  BY DEF TypeOK
<1>2. CASE att' = att
  BY <1>2 DEF StaysFinished
<1>3. ASSUME NEW a \in Attempt, NEW st \in Live \cup Finished,
             att' = [att EXCEPT ![a].st = st], att[a].st \in Finished => st \in Finished
      PROVE  StaysFinished
  <2>1. att'[a] = [att[a] EXCEPT !.st = st] /\ \A b \in Attempt : b # a => att'[b] = att[b]
    BY <1>1, <1>3
  <2>2. att'[a].st = st
    BY <1>1, <2>1 DEF AttemptRow
  <2> QED
    BY <1>3, <2>1, <2>2 DEF StaysFinished
<1> QED
  BY <1>2, <1>3

\* The scheduling code expires, inserts and fails, but revives nothing.
LEMMA ScheduleRevivesNothing ==
    ASSUME IInv, NEW p \in Proc, ScheduleStep(p)
    PROVE  StaysFinished
<1> DEFINE t == th[p]
<1> USE DEF db
<1>0. /\ t \in Thread /\ att \in [Attempt -> AttemptRow] /\ Scheduler(p) /\ TypeOK
      /\ "failed" \in Finished /\ "expired" \in Finished /\ "none" \notin Finished
  BY DEF IInv, TypeOK, Threads, ThreadOK, Finished
<1>1. CASE ExpireLeases(p)
  <2>1. \A a \in Attempt : att'[a] = att[a] \/ att'[a] = [att[a] EXCEPT !.st = "expired"]
    BY ZenonT(60), <1>0, <1>1 DEF ExpireLeases
  <2>2. \A a \in Attempt : [att[a] EXCEPT !.st = "expired"].st = "expired"
    BY <1>0 DEF AttemptRow
  <2> QED
    BY ZenonT(60), <1>0, <2>1, <2>2 DEF StaysFinished
<1>2. CASE NextExpired(p) \/ ExpiredDone(p) \/ Select(p) \/ Reserve(p) \/ Announce(p) \/ Send(p)
  BY ZenonT(60), <1>2 DEF NextExpired, ExpiredDone, Select, Reserve, Announce, Send, StaysFinished
<1>3. CASE FailExpired(p)
  <2>1. t.cur \in Attempt
    BY <1>0, <1>3, SMTT(60) DEF FailExpired, At, Scheduler, Thread
  <2> QED
    BY <1>0, <1>3, <2>1, StatusEnds, ZenonT(60) DEF FailExpired, FailJobRows
<1>4. CASE Unsend(p)
  <2>1. t.new \in Attempt
    BY <1>0, <1>4, SMTT(60) DEF Unsend, At, Scheduler, Placing
  <2> QED
    BY <1>0, <1>4, <2>1, StatusEnds, ZenonT(60) DEF Unsend, FailAttemptRows
<1>5. CASE Create(p)
  <2>1. \A a \in Attempt : att'[a] = att[a] \/ att[a].st = "none"
    BY ZenonT(60), <1>0, <1>5 DEF Create
  <2> QED
    BY <1>0, <2>1 DEF StaysFinished
<1> QED
  BY <1>1, <1>2, <1>3, <1>4, <1>5, ZenonT(60) DEF ScheduleStep

\* A reader accepts and starts live attempts only.
LEMMA ReaderRevivesNothing ==
    ASSUME IInv, NEW s \in Session, ReceiveStep(s) \/ ReaderStep(s)
    PROVE  StaysFinished
<1> DEFINE t == th[s]
<1> USE DEF db
<1>0. /\ t \in Thread /\ t.att \in Attempt \cup {None} /\ Handler(s) /\ TypeOK
      /\ {"failed", "verified", "succeeded"} \subseteq Finished
      /\ {"accepted", "running", "offered"} \subseteq Live /\ Live \cap Finished = {}
  <2>1. t \in Thread /\ Handler(s) /\ TypeOK
    BY DEF IInv, TypeOK, Threads, ThreadOK, Proc
  <2> QED
    BY <2>1, ZenonT(60) DEF Thread, Live, Finished
<1>1. CASE JobAccepted(s) \/ JobStarted(s)
  <2>1. PICK type : Receive(s, type)
    BY <1>1, ZenonT(60) DEF JobAccepted, JobStarted
  <2>2. PICK a \in Attempt : a = Head(mail[s]).att
    BY <1>0, <2>1, ReceiveTypes
  <2>3. \/ att' = att
        \/ att[a].st \in Live /\ \E st \in Live : att' = [att EXCEPT ![a].st = st]
    BY ZenonT(60), <1>0, <1>1, <2>2 DEF JobAccepted, JobStarted
  <2> QED
    BY <1>0, <2>3, StatusEnds
<1>2. CASE CompleteJob(s)
  <2>1. t.att \in Attempt
    BY <1>0, <1>2, ZenonT(60) DEF CompleteJob, At, Handler
  <2> QED
    BY <1>0, <1>2, <2>1, StatusEnds, ZenonT(60) DEF CompleteJob
<1>3. CASE FailAttempt(s) \/ FailJob(s)
  BY <1>0, <1>3, StatusEnds DEF FailAttempt, FailJob, FailAttemptRows, FailJobRows
<1>4. CASE DuplicateFailed(s) \/ DuplicateCompleted(s)
  <2>1. t.att \in Attempt
    BY <1>0, <1>4, ZenonT(60) DEF DuplicateFailed, DuplicateCompleted, At, Handler
  <2>2. att' = att \/ \E st \in {"failed", "verified"} : att' = [att EXCEPT ![t.att].st = st]
    BY <1>4 DEF DuplicateFailed, DuplicateCompleted
  <2> QED
    BY ZenonT(60), <1>0, <2>1, <2>2, StatusEnds
<1>5. CASE \/ JobRefused(s) \/ JobCompleted(s) \/ CompleteFailed(s) \/ Completed(s) \/ Finish(s)
           \/ FailDone(s) \/ CreditDuplicate(s) \/ AttachSession(s) \/ Detach(s) \/ CloseSession(s)
  <2>1. att' = att
    BY ZenonT(60), <1>5 DEF JobRefused, JobCompleted, CompleteFailed, Completed, Finish, FailDone,
                CreditDuplicate, AttachSession, Detach, CloseSession
  <2> QED
    BY <2>1 DEF StaysFinished
<1> QED
  BY <1>1, <1>2, <1>3, <1>4, <1>5, ZenonT(60) DEF ReceiveStep, ReaderStep

\* A finished attempt never becomes live again: MarkAccepted, MarkStarted,
\* ExpireLeases and CompleteJob all look at the status they find.
THEOREM FinishedIsFinal == Spec => FinishedForever
<1>1. IInv /\ [Next]_vars => StaysFinished
  <2> SUFFICES ASSUME IInv, [Next]_vars
               PROVE  StaysFinished
    OBVIOUS
  <2> USE DEF db
  <2>1. CASE UNCHANGED vars
    BY <2>1, SMTT(60) DEF vars, StaysFinished
  <2>2. ASSUME NEW j \in Job, \/ Submit(j) \/ HandlerStep(j) \/ OperatorRetry(j) \/ CancelJob(j)
        PROVE  StaysFinished
    BY <2>2, SMTT(60) DEF Submit, HandlerStep, Abandon, TakeResult, TimeOut, GiveUp, FailJobRows,
                OperatorRetry, CancelJob, StaysFinished
  <2>3. ASSUME NEW j \in Job, OperatorCancel(j)
        PROVE  StaysFinished
    <3>1. \A a \in Attempt : att'[a] = att[a] \/ att[a].st \in Live
      BY <2>3 DEF OperatorCancel
    <3>2. Live \cap Finished = {}
      BY ZenonT(60) DEF Live, Finished
    <3> QED
      BY <3>1, <3>2 DEF StaysFinished
  <2>4. ASSUME NEW s \in Session, NodeStep(s) \/ Lose(s)
        PROVE  StaysFinished
    BY <2>4 DEF NodeStep, NodeReject, NodeAccept, NodeFinish, Lose, StaysFinished
  <2>5. ASSUME NEW n \in Node, OpenSession(n)
        PROVE  StaysFinished
    BY <2>5 DEF OpenSession, StaysFinished
  <2>6. CASE Restart
    BY <2>6 DEF Restart, StaysFinished
  <2> QED
    BY <2>1, <2>2, <2>3, <2>4, <2>5, <2>6, ScheduleRevivesNothing, ReaderRevivesNothing,
       ZenonT(60) DEF Next
<1> QED
  BY <1>1, Invariance, PTL DEF FinishedForever, StaysFinished, Spec

-----------------------------------------------------------------------------
(* Registrations end with their connection and no sooner.                  *)

\* What RegistrationKept says of one step.
KeepsRegistered ==
    \A s \in Session : sessions[NodeOf(s)] = s /\ Listening(s)' =>
       \/ sessions'[NodeOf(s)] = s
       \/ \E r \in Session : /\ NodeOf(r) = NodeOf(s) /\ sessions'[NodeOf(s)] = r
                             /\ At(r, "attach") /\ At(r, "read")'

\* Only the AttachSession of another connection of the node takes the place of a
\* session whose reader listens: the function AttachSession returned compares the
\* registered session with its own before it drops it.
THEOREM RegistrationsKept == Spec => RegistrationKept
<1>1. IInv /\ [Next]_vars => KeepsRegistered
  <2> SUFFICES ASSUME IInv, [Next]_vars, NEW s \in Session, sessions[NodeOf(s)] = s, Listening(s)'
               PROVE  \/ sessions'[NodeOf(s)] = s
                      \/ \E r \in Session : /\ NodeOf(r) = NodeOf(s) /\ sessions'[NodeOf(s)] = r
                                            /\ At(r, "attach") /\ At(r, "read")'
    BY SMTT(60) DEF KeepsRegistered
  <2>0. TypeOK /\ Session \subseteq Proc /\ \A r \in Session : NodeOf(r) \in Node
    BY Ids, ZenonT(60) DEF IInv, Proc
  <2>1. CASE Restart
    <3>1. th'[s].pc \in {"off", "closed"}
      BY <2>0, <2>1, Ids, SMTT(60) DEF Restart, Rest, At
    <3> QED
      BY <3>1 DEF Listening
  <2>2. ASSUME NEW r \in Session, AttachSession(r), sessions'[NodeOf(s)] # s
        PROVE  \E q \in Session : /\ NodeOf(q) = NodeOf(s) /\ sessions'[NodeOf(s)] = q
                                  /\ At(q, "attach") /\ At(q, "read")'
    <3>1. sessions' = [sessions EXCEPT ![NodeOf(r)] = r] /\ Goto(r, [Rest EXCEPT !.pc = "read"])
      BY <2>2 DEF AttachSession
    <3>2. NodeOf(r) = NodeOf(s) /\ sessions'[NodeOf(s)] = r
      BY <2>0, <2>2, <3>1, ZenonT(60) DEF TypeOK
    <3>3. th'[r].pc = "read"
      BY <2>0, <3>1, ZenonT(60) DEF TypeOK, Goto, Rest
    <3> QED
      BY <2>2, <3>2, <3>3 DEF AttachSession, At
  <2>3. ASSUME NEW r \in Session, Detach(r)
        PROVE  sessions'[NodeOf(s)] = s
    <3>1. r # s
      BY <2>0, <2>3, DetachEnds, ZenonT(60)
    <3> QED
      BY <2>0, <2>3, <3>1, ZenonT(60) DEF Detach, TypeOK
  <2> QED
    BY <2>1, <2>2, <2>3, Registers, ZenonT(60)
<1> QED
  BY <1>1, Invariance, PTL DEF RegistrationKept, KeepsRegistered, Spec

-----------------------------------------------------------------------------
(* The contract.  Only Submit asks, only CompleteJob charges, only the     *)
(* last step of a handler tells, and only a restart crashes.               *)

\* A goroutine that has begun and moves on asks for nothing.
LEMMA AsksNothing ==
    ASSUME NEW p \in Proc, MovesOn(p), p \in Job => th[p].pc # "off"
    PROVE  \A j \in Job : At(j, "off")' <=> At(j, "off")
BY DEF MovesOn, Moves, At, Proc

\* The steps of a job's handler: Submit asks; Abandon, TakeResult and GiveUp tell
\* the caller what Tell allows; TimeOut stutters.
LEMMA HandlerContract ==
    ASSUME IInv, NEW j \in Job, Submit(j) \/ HandlerStep(j)
    PROVE  [Contract!CNext]_(Contract!cvars)
<1> USE DEF db
<1>0. /\ Moves(j) /\ th'[j].pc # "off" /\ Job \subseteq Proc /\ charged' = charged
      /\ answer \in [Job -> {"none", "ok", "error", "lost"}]
  <2>1. charged' = charged
    BY DEF Submit, HandlerStep, Abandon, TakeResult, TimeOut, GiveUp
  <2> QED
    BY <2>1, HandlerMoves, ZenonT(60) DEF IInv, TypeOK, Stepped, MovesOn, Proc
<1>1. CASE Submit(j)
  <2>1. At(j, "off") /\ answer' = answer
    BY <1>1, SMTT(60) DEF Submit
  <2>2. \A k \in Job : At(k, "off")' <=> At(k, "off") /\ k # j
    BY <1>0, ZenonT(60) DEF At, Moves
  <2>3. Contract!Ask(j)
    BY <1>0, <2>1, <2>2 DEF Contract!Ask
  <2> QED
    BY <2>3 DEF Contract!CNext
<1>2. CASE HandlerStep(j)
  <2>1. th[j].pc # "off"
    BY <1>2, ZenonT(60) DEF HandlerStep, Abandon, TakeResult, TimeOut, GiveUp, At
  <2>2. \A k \in Job : At(k, "off")' <=> At(k, "off")
    BY <1>0, <2>1, ZenonT(60) DEF At, Moves
  <2>3. CASE answer' = answer
    BY <1>0, <2>2, <2>3, ZenonT(60) DEF Contract!cvars
  <2>4. CASE answer' # answer
    <3>1. th[j].pc # "done"
      BY <1>2, ZenonT(60) DEF HandlerStep, Abandon, TakeResult, TimeOut, GiveUp, At
    <3>2. answer[j] = "none"
      BY <3>1, ZenonT(60) DEF IInv, Waiting, At
    <3>3. \/ answer' = [answer EXCEPT ![j] = "error"]
          \/ answer' = [answer EXCEPT ![j] = "ok"] /\ charged[j] # {}
      <4>1. CASE TakeResult(j)
        <5>1. result[j] \in {"ok", "error"} /\ answer' = [answer EXCEPT ![j] = result[j]]
          BY <4>1, ZenonT(60) DEF TakeResult, IInv, TypeOK
        <5>2. result[j] = "ok" => charged[j] # {}
          BY DEF IInv, Waiting
        <5> QED
          BY <5>1, <5>2, ZenonT(60)
      <4>2. CASE ~TakeResult(j)
        BY <1>2, <2>4, <4>2, ZenonT(60) DEF HandlerStep, Abandon, TimeOut, GiveUp
      <4> QED
        BY <4>1, <4>2, SMTT(60)
    <3>4. Contract!Tell(j)
      BY <1>0, <2>1, <2>2, <3>2, <3>3, SMTT(60) DEF Contract!Tell, At
    <3> QED
      BY <3>4, SMTT(60) DEF Contract!CNext
  <2> QED
    BY <2>3, <2>4, ZenonT(60)
<1> QED
  BY <1>1, <1>2, ZenonT(60)

\* Every step of the routing code is a step or a stutter of the contract.
LEMMA ContractStep == IInv /\ [Next]_vars => [Contract!CNext]_(Contract!cvars)
<1> SUFFICES ASSUME IInv, [Next]_vars
             PROVE  [Contract!CNext]_(Contract!cvars)
  OBVIOUS
<1> USE DEF db
<1>0. Session \subseteq Proc /\ Job \subseteq Proc /\ Session \cap Job = {}
  BY Ids, SMTT(60) DEF Proc
<1>s. ASSUME \A j \in Job : At(j, "off")' <=> At(j, "off"), charged' = charged, answer' = answer
      PROVE  UNCHANGED Contract!cvars
  BY <1>s, SMTT(60) DEF Contract!cvars
<1>1. CASE UNCHANGED vars
  <2>1. th' = th /\ charged' = charged /\ answer' = answer
    BY <1>1, SMTT(60) DEF vars
  <2> QED
    BY <1>s, <2>1, SMTT(60) DEF At
<1>2. ASSUME NEW j \in Job, OperatorCancel(j) \/ OperatorRetry(j) \/ CancelJob(j)
      PROVE  UNCHANGED Contract!cvars
  <2>1. th' = th /\ charged' = charged /\ answer' = answer
    BY <1>2, SMTT(60) DEF OperatorCancel, OperatorRetry, CancelJob
  <2> QED
    BY <1>s, <2>1 DEF At
<1>3. ASSUME NEW s \in Session, NodeStep(s)
      PROVE  UNCHANGED Contract!cvars
  <2>1. th' = th /\ charged' = charged /\ answer' = answer
    BY <1>3, SMTT(60) DEF NodeStep, NodeReject, NodeAccept, NodeFinish
  <2> QED
    BY <1>s, <2>1, ZenonT(60) DEF At
<1>4. ASSUME NEW p \in Proc, ScheduleStep(p)
      PROVE  UNCHANGED Contract!cvars
  <2>1. charged' = charged /\ answer' = answer /\ th[p].pc # "off"
    BY <1>4, ZenonT(60) DEF ScheduleStep, ExpireLeases, NextExpired, FailExpired, ExpiredDone,
       Select, Reserve, Create,
                Announce, Send, Unsend, At
  <2>2. MovesOn(p)
    BY <1>4, ScheduleMoves DEF IInv, Stepped
  <2> QED
    BY <1>s, <2>1, <2>2, AsksNothing, ZenonT(60)
<1>5. ASSUME NEW s \in Session, ReceiveStep(s) \/ ReaderStep(s) \/ Lose(s)
      PROVE  [Contract!CNext]_(Contract!cvars)
  <2>1. MovesOn(s) /\ s \in Proc /\ s \notin Job
    BY <1>0, <1>5, ReceiveMoves, ReaderMoves, ZenonT(60) DEF IInv, Stepped
  <2>2. \A j \in Job : At(j, "off")' <=> At(j, "off")
    BY <2>1, AsksNothing, SMTT(60)
  <2>3. answer' = answer
    BY ZenonT(60), <1>5 DEF ReceiveStep, JobAccepted, JobStarted, JobRefused, JobCompleted,
            ReaderStep, CompleteJob, CompleteFailed, Completed, Finish, FailAttempt, FailJob,
       FailDone,
            DuplicateFailed, DuplicateCompleted, CreditDuplicate, AttachSession, Detach,
       CloseSession, Lose
  <2>4. CASE charged' = charged
    BY <1>s, <2>2, <2>3, <2>4
  <2>5. CASE charged' # charged
    <3>1. CompleteJob(s)
      BY <1>5, <2>5, ReaderNoInsert DEF IInv, Lose
    <3>2. Handler(s)
      BY <1>0 DEF IInv, Threads, ThreadOK
    <3>3. PICK a, j : a = th[s].att /\ j = th[s].job
      OBVIOUS
    <3>4. a \in Attempt /\ j = JobOf(a) /\ j \in Job /\ Asked(j)
      BY <3>1, <3>2, <3>3, Ids, ZenonT(60) DEF CompleteJob, At, Handler, Proc
    <3>5. charged[j] = {} /\ charged' = [charged EXCEPT ![j] = @ \cup {a}]
      BY <2>5, <3>1, <3>3, <3>4, ZenonT(60) DEF CompleteJob, CanComplete
    <3>6. charged \in [Job -> SUBSET Attempt]
      BY DEF IInv, TypeOK
    <3>7. \A k \in Job : charged'[k] # {} <=> charged[k] # {} \/ k = j
      BY <3>4, <3>5, <3>6, ZenonT(60)
    <3>8. Contract!Charge(j)
      BY <2>2, <2>3, <3>4, <3>5, <3>7, ZenonT(60) DEF Contract!Charge, Asked
    <3> QED
      BY <3>4, <3>8 DEF Contract!CNext
  <2> QED
    BY <2>4, <2>5, SMTT(60)
<1>6. ASSUME NEW n \in Node, OpenSession(n)
      PROVE  UNCHANGED Contract!cvars
  <2>1. PICK s \in Session : Goto(s, [Rest EXCEPT !.pc = "attach"])
    BY <1>6 DEF OpenSession
  <2>2. \A j \in Job : th'[j] = th[j]
    BY <1>0, <2>1 DEF Goto, IInv, TypeOK
  <2>3. charged' = charged /\ answer' = answer
    BY <1>6 DEF OpenSession
  <2> QED
    BY <1>s, <2>2, <2>3 DEF At
<1>7. CASE Restart
  <2>1. charged' = charged
    BY <1>7 DEF Restart
  <2>2. \A j \in Job : At(j, "off")' <=> At(j, "off")
    <3> TAKE j \in Job
    <3>1. th'[j] = IF At(j, "off") THEN th[j] ELSE [Rest EXCEPT !.pc = "done"]
      BY <1>0, <1>7 DEF Restart
    <3> QED
      BY <3>1 DEF At, Rest
  <2>3. answer' = [j \in Job |-> IF ~At(j, "off") /\ answer[j] = "none" THEN "lost" ELSE answer[j]]
    BY <1>7, ZenonT(60) DEF Restart
  <2>4. Contract!Crash
    BY <2>1, <2>2, <2>3 DEF Contract!Crash
  <2> QED
    BY <2>4 DEF Contract!CNext
<1> QED
  BY <1>1, <1>2, <1>3, <1>4, <1>5, <1>6, <1>7, HandlerContract, ZenonT(60) DEF Next

\* The routing code implements the caller's contract: one charge at most, one
\* final answer, success only for a charged job.
THEOREM Implements == Spec => KeepsContract
<1>1. Init => Contract!CInit
  <2> SUFFICES ASSUME Init
               PROVE  Contract!CInit
    BY ZenonT(60)
  <2>1. \A j \in Job : At(j, "off")
    BY ZenonT(60) DEF Init, At, Rest, Proc
  <2>2. \A j \in Job : charged[j] = {}
    BY DEF Init
  <2> QED
    BY <2>1, <2>2, ZenonT(60) DEF Contract!CInit, Init
<1> QED
  BY <1>1, ContractStep, Invariance, PTL DEF KeepsContract, Contract!CSpec, Spec
=============================================================================
