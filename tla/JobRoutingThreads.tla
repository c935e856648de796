------------------------- MODULE JobRoutingThreads --------------------------
(***************************************************************************)
(* Every step preserves Threads, Waiting and RegisteredIsServed.  Threads  *)
(* is the part of the invariant of JobRouting about goroutines: a step     *)
(* moves one goroutine, to a place where it knows what ThreadOK asks for;  *)
(* the others keep what they know.  The two others are about the maps      *)
(* waiting and sessions of jobs.Service.                                   *)
(***************************************************************************)
EXTENDS JobRoutingInvariant

MovesOn(p) == Moves(p) /\ th'[p].pc # "off"

\* A reader that listens goes on listening until it detaches.
Stepped(p) ==
    /\ MovesOn(p)
    /\ p \in Session /\ Listening(p) => Listening(p)' \/ At(p, "detach")'

\* A job asked for stays asked for, whichever goroutine moves.
LEMMA AskedGrows ==
    ASSUME TypeOK, NEW p \in Proc, MovesOn(p)
    PROVE  \A j \in Job : Asked(j) => Asked(j)'
BY DEF MovesOn, Moves, Asked, At, Proc

\* A reader between two messages knows nothing.
LEMMA IdleOK ==
    ASSUME NEW s \in Session, NEW pc \in {"attach", "read", "detach", "close", "closed"},
           th'[s] = [Rest EXCEPT !.pc = pc]
    PROVE  ThreadOK(s)' /\ th'[s].pc # "off"
<1>1. /\ th'[s].pc = pc /\ th'[s].kind = "none" /\ th'[s].job = None
      /\ th'[s].todo = {} /\ th'[s].cur = None /\ th'[s].att = None /\ ~th'[s].closing
  BY DEF Rest
<1>2. s \notin Job
  BY Ids
<1>3. RightCode(s)'
  BY <1>1, <1>2 DEF RightCode, Unwaiting
<1>4. Scheduler(s)'
  BY <1>1 DEF Scheduler, Scheduling, Placing
<1>5. Handler(s)'
  BY <1>1 DEF Handler
<1> QED
  BY <1>1, <1>3, <1>4, <1>5 DEF ThreadOK

\* A handler that returns, with or without an error, leaves its reader in order.
LEMMA BackOK ==
    ASSUME TypeOK, NEW s \in Session, Goto(s, Returned(th[s])) \/ Goto(s, Erred(th[s]))
    PROVE  ThreadOK(s)' /\ Stepped(s)
<1>1. s \in Proc /\ th \in [Proc -> Thread] /\ Returned(th[s]) \in Thread /\ Erred(th[s]) \in Thread
  BY ZenonT(60), ThreadType DEF TypeOK, Proc
<1>2. Moves(s) /\ th'[s] \in {Returned(th[s]), Erred(th[s])}
  BY <1>1, GotoMoves
<1>3. PICK pc \in {"read", "detach", "close", "closed"} :
          th'[s] = [Rest EXCEPT !.pc = pc] /\ (~th[s].closing => pc \in {"read", "detach"})
  BY <1>2 DEF Returned, Erred
<1>4. th'[s].pc = pc /\ ~th'[s].closing
  BY <1>3 DEF Rest
<1>5. Listening(s) => Listening(s)' \/ At(s, "detach")'
  BY <1>3, <1>4 DEF Listening, At
<1> QED
  BY <1>2, <1>3, <1>4, <1>5, IdleOK DEF Stepped, MovesOn

\* The handler of a job.
LEMMA HandlerMoves ==
    ASSUME TypeOK, Threads, NEW j \in Job, Submit(j) \/ HandlerStep(j)
    PROVE  ThreadOK(j)' /\ Stepped(j)
<1>0. /\ j \in Proc /\ j \notin Session /\ th \in [Proc -> Thread] /\ Rest \in Thread
      /\ {"expire", "done", "giveup"} \subseteq PC
  <2>1. j \in Proc /\ th \in [Proc -> Thread] /\ th[j] \in Thread
    BY DEF TypeOK, Proc
  <2>2. {"expire", "done", "giveup"} \subseteq PC
    BY DEF PC
  <2> QED
    BY ZenonT(60), <2>1, <2>2, Ids, ThreadType
<1>1. CASE Submit(j)
  <2> DEFINE u == [Rest EXCEPT !.pc = "expire", !.kind = "client", !.job = j]
  <2>1. /\ u \in Thread /\ u.pc = "expire" /\ u.kind = "client" /\ u.job = j
        /\ u.todo = {} /\ u.cur = None /\ u.att = None
    BY ZenonT(60), <1>0 DEF Rest, Thread
  <2>2. th'[j] = u /\ Moves(j)
    BY <1>0, <1>1, <2>1, GotoMoves DEF Submit
  <2> HIDE DEF u
  <2>3. RightCode(j)'
    BY <1>0, <2>1, <2>2 DEF RightCode, Scheduling, Unwaiting
  <2>4. Scheduler(j)'
    BY <1>0, <2>1, <2>2 DEF Scheduler, Scheduling, Placing
  <2>5. Handler(j)'
    BY ZenonT(60), <1>0, <2>1, <2>2 DEF Handler, Asked, At
  <2> QED
    BY <1>0, <2>1, <2>2, <2>3, <2>4, <2>5 DEF ThreadOK, Stepped, MovesOn
<1>2. CASE HandlerStep(j)
  <2>1. PICK pc \in {"done", "giveup"} : Goto(j, [Rest EXCEPT !.pc = pc])
    BY <1>2 DEF HandlerStep, Abandon, TakeResult, TimeOut, GiveUp
  <2>2. [Rest EXCEPT !.pc = pc] \in Thread
    BY ZenonT(60), <1>0, ThreadType
  <2>3. th'[j] = [Rest EXCEPT !.pc = pc] /\ Moves(j)
    BY <1>0, <2>1, <2>2, GotoMoves
  <2>4. /\ th'[j].pc = pc /\ th'[j].kind = "none" /\ th'[j].job = None
        /\ th'[j].todo = {} /\ th'[j].cur = None /\ th'[j].att = None
    BY <2>3 DEF Rest
  <2>5. RightCode(j)'
    BY <1>0, <2>4 DEF RightCode, Scheduling, Placing, Unwaiting
  <2>6. Scheduler(j)'
    BY ZenonT(60), <2>4 DEF Scheduler, Scheduling, Placing
  <2>7. Handler(j)'
    BY <2>4 DEF Handler
  <2> QED
    BY <1>0, <2>3, <2>4, <2>5, <2>6, <2>7, ZenonT(60) DEF ThreadOK, Stepped, MovesOn
<1> QED
  BY <1>1, <1>2

\* What the scheduling code has to show of its next locals.
Continues(p, u, t) ==
    /\ Kept(u, t)
    /\ u.pc \in Scheduling \cup {"finish", "failJob", "abandon", "abandonFail"}
    /\ u.pc = "finish" => u.kind = "dup"
    /\ p \in Job => u.pc \notin {"finish", "failJob"}
    /\ p \in Session => u.pc \notin {"abandon", "abandonFail"}
    /\ \A a \in u.todo : a \in Attempt /\ Known(a)
    /\ u.cur # None => u.cur \in Attempt /\ Known(u.cur)
    /\ u.pc \in {"failExpired", "expiredDone"} => u.cur # None
    /\ u.pc \in Placing => /\ u.pick \in Session /\ u.new \in Attempt /\ JobOf(u.new) = Target(u)
                           /\ ForDuplicate(u) => NodeOf(u.pick) # NodeOf(p)
    /\ u.pc \in Placing \ {"create"} => att'[u.new].st # "none" /\ att'[u.new].on = u.pick

\* A goroutine that continues in that way knows what it must.
LEMMA ContinuesOK ==
    ASSUME TypeOK, Threads, Rows, RowsGrow, NEW p \in Proc, NEW u, Goto(p, u), u \in Thread,
           th[p].pc \in Scheduling, Continues(p, u, th[p])
    PROVE  ThreadOK(p)' /\ Stepped(p)
<1> DEFINE t == th[p]
<1>0. /\ t \in Thread /\ p \in Job <=> p \notin Session
      /\ ThreadOK(p) /\ None \notin Job
      /\ th'[p] = u /\ Stepped(p)
  <2>1. t \in Thread /\ th'[p] = u /\ Moves(p)
    BY GotoMoves DEF TypeOK
  <2>2. u.pc \notin {"off", "attach", "detach", "close", "closed"}
    BY DEF Continues, Scheduling, Placing
  <2>3. u.closing = t.closing
    BY DEF Continues, Kept
  <2>4. Listening(p) => Listening(p)'
    BY <2>1, <2>2, <2>3, ZenonT(60) DEF Listening
  <2> QED
    BY ZenonT(60), <2>1, <2>2, <2>4, Ids DEF Threads, Proc, Stepped, MovesOn
<1>1. t.job \in Job /\ u.job = t.job /\ u.kind = t.kind /\ u.att = t.att
  BY ZenonT(60), <1>0 DEF ThreadOK, Scheduler, Kept, Continues
<1>2. RightCode(p)'
  BY ZenonT(60), <1>0, <1>1 DEF ThreadOK, RightCode, Continues, Scheduling, Placing, Unwaiting
<1>3. Scheduler(p)'
  <2>1. \A a \in u.todo : Known(a)'
    BY DEF Continues, RowsGrow
  <2>2. u.cur # None => Known(u.cur)'
    BY DEF Continues, RowsGrow
  <2>3. u.pc \in Placing \ {"create"} => Known(u.new)' /\ att'[u.new].on = u.pick
    BY DEF Continues, Known
  <2> QED
    BY ZenonT(60), <1>0, <1>1, <2>1, <2>2, <2>3 DEF Scheduler, Continues
<1>4. Handler(p)'
  <2>1. Asked(u.job)'
    BY ZenonT(60), <1>0, <1>1, AskedGrows DEF ThreadOK, Handler, Stepped
  <2>2. u.kind = "dup" => /\ u.att \in charged'[u.job]
                          /\ NodeOf(att'[u.att].on) = NodeOf(p)
    <3>1. SUFFICES ASSUME u.kind = "dup"
                   PROVE  u.att \in charged'[u.job] /\ NodeOf(att'[u.att].on) = NodeOf(p)
      OBVIOUS
    <3>2. u.att \in charged[u.job] /\ NodeOf(att[u.att].on) = NodeOf(p)
      BY ZenonT(60), <1>0, <1>1, <3>1 DEF ThreadOK, Handler, Scheduling, Placing
    <3>3. u.att \in Attempt /\ Known(u.att)
      BY ZenonT(60), <1>1, <3>2 DEF TypeOK, Rows
    <3> QED
      BY ZenonT(60), <1>1, <3>2, <3>3 DEF RowsGrow
  <2>3. u.att # None => Known(u.att)'
    BY ZenonT(60), <1>0, <1>1 DEF ThreadOK, Handler, Thread, RowsGrow
  <2> QED
    BY ZenonT(60), <1>0, <1>1, <2>1, <2>2, <2>3 DEF Handler, Continues, Scheduling, Placing
<1> QED
  BY <1>0, <1>2, <1>3, <1>4 DEF ThreadOK

\* Giving up on a placement, and going on after an expired attempt, do.
LEMMA UnscheduledContinues ==
    ASSUME TypeOK, Threads, NEW p \in Proc, NEW api \in BOOLEAN, NEW t \in Thread,
           th[p].pc \in Scheduling, Kept(t, th[p]),
           \A a \in t.todo : Known(a), t.cur # None => Known(t.cur)
    PROVE  Continues(p, Unscheduled(t, api), th[p])
<1> SUFFICES ASSUME NEW u, u = Unscheduled(t, api)
             PROVE  Continues(p, u, th[p])
  OBVIOUS
<1>0. t.todo \subseteq Attempt /\ t.cur \in Attempt \cup {None}
  BY DEF Thread
<1>1. /\ Kept(u, t)
      /\ t.cur # None => u.pc = "failExpired" /\ u.cur = t.cur /\ u.todo = t.todo
      /\ t.cur = None => /\ u.cur = None /\ u.todo = {}
                         /\ t.kind = "client" => u.pc \in {"abandon", "abandonFail"}
                         /\ t.kind = "dup" => u.pc = "finish"
                         /\ t.kind \notin {"client", "dup"} => u.pc = "failJob"
  BY UnscheduledFields, ZenonT(60)
<1>2. /\ p \in Job => t.kind = "client"
      /\ p \in Session => t.kind # "client"
  BY DEF Threads, ThreadOK, RightCode, Kept
<1> QED
  BY ZenonT(60), <1>0, <1>1, <1>2 DEF Continues, Kept, Scheduling, Placing

\* Going on with the next expired attempt is such a continuation.
LEMMA ExpiredContinues ==
    ASSUME TypeOK, Threads, NEW p \in Proc, NEW t \in Thread,
           th[p].pc \in Scheduling, Kept(t, th[p]),
           \A a \in t.todo : Known(a)
    PROVE  Continues(p, Expired(t), th[p])
<1> SUFFICES ASSUME NEW u, u = Expired(t)
             PROVE  Continues(p, u, th[p])
  OBVIOUS
<1>0. t.todo \subseteq Attempt
  BY DEF Thread
<1>1. /\ Kept(u, t) /\ u.todo = t.todo /\ u.cur = None
      /\ u.pc \in {"select", "expired"}
  BY ExpiredFields, ZenonT(60)
<1> QED
  BY ZenonT(60), <1>0, <1>1 DEF Continues, Kept, Scheduling, Placing

\* Steps to one of the two places from which scheduling gives up or goes on.
LEMMA GivesUpOrGoesOn ==
    ASSUME TypeOK, Threads, Rows, RowsGrow, NEW p \in Proc, NEW t \in Thread, NEW api \in BOOLEAN,
           th[p].pc \in Scheduling, Kept(t, th[p]), \A a \in t.todo : Known(a)
    PROVE  /\ Goto(p, Expired(t)) => ThreadOK(p)' /\ Stepped(p)
           /\ (t.cur # None => Known(t.cur)) /\ Goto(p, Unscheduled(t, api)) => ThreadOK(p)' /\ Stepped(p)
<1>1. Expired(t) \in Thread /\ Unscheduled(t, api) \in Thread
  BY ThreadType
<1>2. ASSUME Goto(p, Expired(t))
      PROVE  ThreadOK(p)' /\ Stepped(p)
  <2>1. Continues(p, Expired(t), th[p])
    BY ExpiredContinues
  <2> QED
    BY <1>1, <1>2, <2>1, ContinuesOK, ZenonT(60)
<1>3. ASSUME t.cur # None => Known(t.cur), Goto(p, Unscheduled(t, api))
      PROVE  ThreadOK(p)' /\ Stepped(p)
  <2>1. Continues(p, Unscheduled(t, api), th[p])
    BY <1>3, UnscheduledContinues
  <2> QED
    BY <1>1, <1>3, <2>1, ContinuesOK, ZenonT(60)
<1> QED
  BY <1>2, <1>3

\* The scheduling code.
LEMMA ScheduleMoves ==
    ASSUME TypeOK, Threads, Rows, NEW p \in Proc, ScheduleStep(p)
    PROVE  ThreadOK(p)' /\ Stepped(p)
<1> DEFINE t == th[p]
<1>0. /\ t \in Thread /\ th \in [Proc -> Thread] /\ ThreadOK(p) /\ RowsGrow
      /\ TRUE \in BOOLEAN /\ FALSE \in BOOLEAN /\ Kept(t, t)
      /\ \A a \in t.todo : Known(a)
      /\ t.cur # None => Known(t.cur)
  BY ZenonT(60), ScheduleRows DEF TypeOK, Threads, ThreadOK, Scheduler, Kept
<1>a. /\ t.todo \subseteq Attempt /\ t.cur \in Attempt \cup {None}
      /\ t.pick \in Session \cup {None} /\ t.new \in Attempt \cup {None}
  BY <1>0 DEF Thread
<1>b. t.pc \in Scheduling
  BY ZenonT(60) DEF ScheduleStep, ExpireLeases, NextExpired, FailExpired, ExpiredDone, Select,
     Reserve, Create,
         Announce, Send, Unsend, At, Scheduling, Placing
<1>c. \A api \in BOOLEAN : Goto(p, Unscheduled(t, api)) => ThreadOK(p)' /\ Stepped(p)
  BY ZenonT(60), <1>0, <1>b, GivesUpOrGoesOn
<1>1. CASE ExpireLeases(p)
  <2>1. ASSUME NEW expired \in SUBSET {a \in Attempt : May("lease") /\ att[a].st = "offered"},
               Goto(p, Expired([t EXCEPT !.todo = expired]))
        PROVE  ThreadOK(p)' /\ Stepped(p)
    <3> DEFINE u == [t EXCEPT !.todo = expired]
    <3>1. u \in Thread /\ Kept(u, t) /\ u.todo = expired
      BY <1>0 DEF Thread, Kept
    <3>2. \A a \in u.todo : Known(a)
      BY <3>1 DEF Known
    <3> HIDE DEF u
    <3>3. Goto(p, Expired(u))
      BY <2>1 DEF u
    <3> QED
      BY ZenonT(60), <1>0, <1>b, <3>1, <3>2, <3>3, GivesUpOrGoesOn
  <2> QED
    BY ZenonT(60), <1>0, <1>1, <1>c, <2>1 DEF ExpireLeases
<1>2. CASE NextExpired(p)
  <2>1. PICK a \in t.todo, pc \in {"select", "failExpired"} :
            Goto(p, [[t EXCEPT !.todo = @ \ {a}, !.cur = a] EXCEPT !.pc = pc])
    BY ZenonT(60), <1>2 DEF NextExpired
  <2> DEFINE u == [[t EXCEPT !.todo = @ \ {a}, !.cur = a] EXCEPT !.pc = pc]
  <2>2. {"select", "failExpired"} \subseteq PC
    BY DEF PC
  <2>3. u \in Thread /\ Kept(u, t) /\ u.todo = t.todo \ {a} /\ u.cur = a /\ u.pc = pc
    BY ZenonT(60), <1>0, <1>a, <2>2 DEF Thread, Kept
  <2>4. Goto(p, u)
    BY <2>1
  <2> HIDE DEF u
  <2>5. Continues(p, u, t)
    BY ZenonT(60), <1>0, <1>a, <2>3, Ids DEF Continues, Scheduling, Placing
  <2> QED
    BY <1>0, <1>b, <2>3, <2>4, <2>5, ContinuesOK, ZenonT(60)
<1>3. CASE FailExpired(p)
  <2>1. CASE Goto(p, [t EXCEPT !.pc = "expiredDone"])
    <3> DEFINE u == [t EXCEPT !.pc = "expiredDone"]
    <3>1. "expiredDone" \in PC
      BY DEF PC
    <3>2. u \in Thread /\ Kept(u, t) /\ u.todo = t.todo /\ u.cur = t.cur /\ u.pc = "expiredDone"
      BY <1>0, <3>1, ZenonT(60) DEF Thread, Kept
    <3>3. t.cur # None
      BY <1>0, <1>3 DEF FailExpired, At, ThreadOK, Scheduler
    <3>4. Goto(p, u)
      BY <2>1
    <3> HIDE DEF u
    <3>5. Continues(p, u, t)
      BY ZenonT(60), <1>0, <1>a, <3>2, <3>3 DEF Continues, Scheduling, Placing
    <3> QED
      BY ZenonT(60), <1>0, <1>b, <3>2, <3>4, <3>5, ContinuesOK
  <2>2. CASE Goto(p, Unscheduled([t EXCEPT !.cur = None], FALSE))
    <3> DEFINE u == [t EXCEPT !.cur = None]
    <3>1. u \in Thread /\ Kept(u, t) /\ u.todo = t.todo /\ u.cur = None
      BY <1>0 DEF Thread, Kept
    <3>2. Goto(p, Unscheduled(u, FALSE))
      BY ZenonT(60), <2>2
    <3> HIDE DEF u
    <3> QED
      BY ZenonT(60), <1>0, <1>b, <3>1, <3>2, GivesUpOrGoesOn
  <2> QED
    BY <1>3, <2>1, <2>2, ZenonT(60) DEF FailExpired
<1>4. CASE ExpiredDone(p)
  BY ZenonT(60), <1>0, <1>4, <1>b, GivesUpOrGoesOn DEF ExpiredDone
<1>5. CASE Select(p)
  <2>1. ASSUME NEW s \in Session \cup {None}, Goto(p, [t EXCEPT !.pc = "reserve", !.pick = s])
        PROVE  ThreadOK(p)' /\ Stepped(p)
    <3> DEFINE u == [t EXCEPT !.pc = "reserve", !.pick = s]
    <3>1. "reserve" \in PC
      BY DEF PC
    <3>2. u \in Thread /\ Kept(u, t) /\ u.todo = t.todo /\ u.cur = t.cur /\ u.pc = "reserve"
      BY <1>0, <3>1, ZenonT(60) DEF Thread, Kept
    <3>3. Goto(p, u)
      BY <2>1
    <3> HIDE DEF u
    <3>4. Continues(p, u, t)
      BY ZenonT(60), <1>0, <1>a, <3>2 DEF Continues, Scheduling, Placing
    <3> QED
      BY <1>0, <1>b, <3>2, <3>3, <3>4, ContinuesOK, ZenonT(60)
  <2> QED
    BY <1>0, <1>5, <1>c, <2>1, ZenonT(60) DEF Select
<1>6. CASE Reserve(p)
  <2>1. CASE Reservable(p, t.pick)
    <3> DEFINE new == NextAttempt(Target(t))
               u == [t EXCEPT !.pc = "create", !.new = new]
    <3>1. "create" \in PC
      BY DEF PC
    <3>2. /\ t.pick \in Session /\ new \in Attempt /\ JobOf(new) = Target(t)
          /\ ForDuplicate(t) => NodeOf(t.pick) # NodeOf(p)
      BY <1>a, <2>1 DEF Reservable, NextAttempt, JobOf
    <3> HIDE DEF new
    <3>3. /\ u \in Thread /\ Kept(u, t) /\ u.todo = t.todo /\ u.cur = t.cur /\ u.pc = "create"
          /\ u.pick = t.pick /\ u.new = new
      BY ZenonT(60), <1>0, <3>1, <3>2 DEF Thread, Kept
    <3>4. Goto(p, u)
      BY <1>6, <2>1, ZenonT(60) DEF Reserve, new
    <3> HIDE DEF u
    <3>5. Target(u) = Target(t) /\ (ForDuplicate(u) <=> ForDuplicate(t))
      BY <3>3 DEF Target, ForDuplicate, Kept
    <3>6. /\ u.pick \in Session /\ u.new \in Attempt /\ JobOf(u.new) = Target(u)
          /\ ForDuplicate(u) => NodeOf(u.pick) # NodeOf(p)
      BY <3>2, <3>3, <3>5
    <3>7. Continues(p, u, t)
      BY ZenonT(60), <1>0, <1>a, <3>3, <3>6 DEF Continues, Scheduling, Placing
    <3> QED
      BY ZenonT(60), <1>0, <1>b, <3>3, <3>4, <3>7, ContinuesOK
  <2>2. CASE ~Reservable(p, t.pick)
    BY <1>0, <1>6, <1>c, <2>2, ZenonT(60) DEF Reserve
  <2> QED
    BY <2>1, <2>2
<1>d. ASSUME NEW pc \in {"announce", "send", "unsend"}, t.pc \in Placing, Goto(p, [t EXCEPT !.pc = pc]),
             att'[t.new].st # "none" /\ att'[t.new].on = t.pick
      PROVE  ThreadOK(p)' /\ Stepped(p)
  <2> DEFINE u == [t EXCEPT !.pc = pc]
  <2>1. {"announce", "send", "unsend"} \subseteq PC
    BY DEF PC
  <2>2. /\ u \in Thread /\ Kept(u, t) /\ u.todo = t.todo /\ u.cur = t.cur /\ u.pc = pc
        /\ u.pick = t.pick /\ u.new = t.new
    BY <1>0, <2>1 DEF Thread, Kept
  <2>3. Goto(p, u)
    BY <1>d
  <2> HIDE DEF u
  <2>4. Target(u) = Target(t) /\ (ForDuplicate(u) <=> ForDuplicate(t))
    BY <2>2 DEF Target, ForDuplicate, Kept
  <2>5. /\ t.pick \in Session /\ t.new \in Attempt /\ JobOf(t.new) = Target(t)
        /\ ForDuplicate(t) => NodeOf(t.pick) # NodeOf(p)
    BY <1>0, <1>d DEF ThreadOK, Scheduler
  <2>6. Continues(p, u, t)
    BY <1>0, <1>a, <1>d, <2>2, <2>4, <2>5, ZenonT(60) DEF Continues, Scheduling, Placing
  <2> QED
    BY <1>0, <1>b, <2>2, <2>3, <2>6, ContinuesOK, ZenonT(60)
<1>7. CASE Create(p)
  <2>1. t.pc \in Placing /\ t.new \in Attempt
    BY <1>0, <1>7, ZenonT(60) DEF Create, At, Placing, ThreadOK, Scheduler
  <2>2. CASE /\ att' = [att EXCEPT ![t.new] = [st |-> "offered", on |-> t.pick, dup |-> ForDuplicate(t)]]
             /\ Goto(p, [t EXCEPT !.pc = "announce"])
    <3>1. att'[t.new].st # "none" /\ att'[t.new].on = t.pick
      BY <2>1, <2>2 DEF TypeOK
    <3> QED
      BY <1>d, <2>1, <2>2, <3>1, ZenonT(60)
  <2> QED
    BY <1>0, <1>7, <1>c, <2>2, ZenonT(60) DEF Create
<1>e. t.pc \in {"announce", "send"} =>
        t.pc \in Placing /\ t.new \in Attempt /\ att'[t.new].st # "none" /\ att'[t.new].on = t.pick
  BY ZenonT(60), <1>0 DEF Placing, ThreadOK, Scheduler, RowsGrow, Known
<1>8. CASE Announce(p)
  BY <1>8, <1>d, <1>e, ZenonT(60) DEF Announce, At
<1>9. CASE Send(p)
  <2>1. CASE Goto(p, Scheduled(t))
    <3>1. CASE t.cur # None
      BY <1>0, <1>b, <2>1, <3>1, ScheduledFields, GivesUpOrGoesOn, ZenonT(60)
    <3>2. CASE t.cur = None /\ t.kind = "client"
      <4> DEFINE u == [Rest EXCEPT !.pc = "wait"]
      <4>1. "wait" \in PC /\ "off" \in PC
        BY DEF PC
      <4>2. u \in Thread /\ u.pc = "wait" /\ u.kind = "none" /\ u.job = None /\ u.att = None
            /\ u.todo = {} /\ u.cur = None
        BY ZenonT(60), <4>1 DEF Rest, Thread
      <4>3. Goto(p, u)
        BY <1>0, <2>1, <3>2, ScheduledFields, ZenonT(60)
      <4> HIDE DEF u
      <4>4. th'[p] = u /\ Moves(p)
        BY <1>0, <4>2, <4>3, GotoMoves, ZenonT(60)
      <4>5. p \notin Session
        BY <1>0, <3>2 DEF ThreadOK, RightCode
      <4>6. RightCode(p)'
        BY <4>2, <4>4, <4>5, ZenonT(60) DEF RightCode, Scheduling, Placing
      <4>7. Scheduler(p)'
        BY <4>2, <4>4, ZenonT(60) DEF Scheduler, Scheduling, Placing
      <4>8. Handler(p)'
        BY <4>2, <4>4, ZenonT(60) DEF Handler
      <4> QED
        BY <4>2, <4>4, <4>5, <4>6, <4>7, <4>8, ZenonT(60) DEF ThreadOK, Stepped, MovesOn
    <3>3. CASE t.cur = None /\ t.kind = "dup"
      <4> DEFINE u == Scheduled(t)
      <4>1. u \in Thread /\ Kept(u, t) /\ u.pc = "finish" /\ u.todo = t.todo /\ u.cur = None
        BY <1>0, <3>3, ScheduledFields, ThreadType, ZenonT(60)
      <4>2. p \notin Job /\ p \in Session
        BY <1>0, <1>b, <3>3, ZenonT(60) DEF ThreadOK, RightCode, Proc
      <4> HIDE DEF u
      <4>3. Goto(p, u)
        BY <2>1 DEF u
      <4>4. Continues(p, u, t)
        BY <1>0, <1>a, <3>3, <4>1, <4>2, ZenonT(60) DEF Continues, Kept, Scheduling, Placing
      <4> QED
        BY <1>0, <1>b, <4>1, <4>3, <4>4, ContinuesOK, ZenonT(60)
    <3>4. CASE t.cur = None /\ t.kind \notin {"client", "dup"}
      <4>1. p \in Session
        BY <1>0, <1>b, <3>4, ZenonT(60) DEF ThreadOK, RightCode, Proc
      <4> QED
        BY <1>0, <2>1, <3>4, <4>1, ScheduledFields, BackOK, ZenonT(60)
    <3> QED
      BY <3>1, <3>2, <3>3, <3>4, ZenonT(60)
  <2>2. CASE Goto(p, [t EXCEPT !.pc = "unsend"])
    BY <1>9, <1>d, <1>e, <2>2, ZenonT(60) DEF Send, At
  <2> QED
    BY <1>9, <2>1, <2>2, ZenonT(60) DEF Send
<1>10. CASE Unsend(p)
  BY ZenonT(60), <1>0, <1>10, <1>c DEF Unsend
<1> QED
  BY <1>1, <1>2, <1>3, <1>4, <1>5, <1>6, <1>7, <1>8, <1>9, <1>10, ZenonT(60) DEF ScheduleStep

\* A goroutine that does not move keeps what it knows.
LEMMA StayOK ==
    ASSUME TypeOK, Threads, Rows, RowsGrow, \A j \in Job : Asked(j) => Asked(j)',
           NEW q \in Proc, th'[q] = th[q]
    PROVE  ThreadOK(q)'
<1>t. PICK t : t = th[q]
  BY ZenonT(60)
<1>0. t \in Thread /\ ThreadOK(q) /\ th'[q] = t /\ th[q] = t
  BY <1>t DEF TypeOK, Threads
<1>a. /\ t.todo \subseteq Attempt /\ t.cur \in Attempt \cup {None} /\ t.job \in Job \cup {None}
      /\ t.new \in Attempt \cup {None} /\ t.att \in Attempt \cup {None}
  BY ZenonT(60), <1>0 DEF Thread
<1>b. \A a \in Attempt : Known(a) => Known(a)' /\ att'[a].on = att[a].on
  BY DEF RowsGrow
<1>1. RightCode(q)'
  BY <1>0 DEF ThreadOK, RightCode
<1>2. Scheduler(q)'
  <2>1. Scheduler(q) /\ th[q] = t
    BY <1>0 DEF ThreadOK
  <2>2. \A a \in t.todo : Known(a)'
    BY ZenonT(60), <1>a, <1>b, <2>1 DEF Scheduler
  <2>3. t.cur # None => Known(t.cur)'
    BY <1>a, <1>b, <2>1, ZenonT(60) DEF Scheduler
  <2>4. t.pc \in Placing \ {"create"} => Known(t.new)' /\ att'[t.new].on = t.pick
    BY <1>b, <2>1 DEF Scheduler
  <2> QED
    BY <1>0, <2>1, <2>2, <2>3, <2>4, ZenonT(60) DEF Scheduler
<1>3. Handler(q)'
  <2>1. Handler(q) /\ th[q] = t
    BY <1>0, ZenonT(60) DEF ThreadOK
  <2>2. t.job # None => Asked(t.job)'
    BY <1>a, <2>1 DEF Handler
  <2>3. /\ t.att # None => Known(t.att)'
        /\ t.pc \in {"complete", "completed"} => NodeOf(att'[t.att].on) = NodeOf(q)
    BY <1>a, <1>b, <2>1, Ids, ZenonT(60) DEF Handler
  <2>4. t.pc \in {"completed", "finish"} \/ (t.kind = "dup" /\ t.pc \notin {"complete", "clear"}) =>
          t.att \in charged'[t.job] /\ NodeOf(att'[t.att].on) = NodeOf(q)
    <3> SUFFICES ASSUME t.pc \in {"completed", "finish"} \/ (t.kind = "dup" /\ t.pc \notin {"complete", "clear"})
                 PROVE  t.att \in charged'[t.job] /\ NodeOf(att'[t.att].on) = NodeOf(q)
      OBVIOUS
    <3>1. t.job \in Job /\ t.att \in charged[t.job] /\ NodeOf(att[t.att].on) = NodeOf(q)
      BY <2>1 DEF Handler
    <3>2. t.att \in Attempt /\ Known(t.att)
      BY <3>1, ZenonT(60) DEF TypeOK, Rows
    <3> QED
      BY <1>b, <3>1, <3>2, ZenonT(60) DEF RowsGrow
  <2> QED
    BY <1>0, <2>1, <2>2, <2>3, <2>4, ZenonT(60) DEF Handler
<1> QED
  BY <1>1, <1>2, <1>3 DEF ThreadOK

\* A handler that goes on outside the scheduling code.
LEMMA HandlingOK ==
    ASSUME TypeOK, NEW s \in Session, NEW u \in Thread, th'[s] = u, Moves(s),
           u.kind # "client", u.closing => ~Listening(s),
           \A a \in u.todo : att'[a].st # "none",
           u.cur # None => att'[u.cur].st # "none",
           u.pc \in {"failAttempt", "failJob", "failDone", "complete", "clear", "completed", "finish",
                     "dupFail", "dupDone", "credit", "expire", "select"},
           u.job # None => Asked(u.job), u.att # None => att'[u.att].st # "none",
           u.pc \notin {"dupFail", "clear", "dupDone", "credit"} => u.job \in Job,
           u.pc \in {"complete", "clear", "completed", "dupFail", "dupDone", "credit"} => u.att \in Attempt,
           u.pc \in {"complete", "completed"} =>
              u.job = JobOf(u.att) /\ NodeOf(att'[u.att].on) = NodeOf(s),
           u.pc \in {"completed", "finish"} \/ (u.kind = "dup" /\ u.pc \notin {"complete", "clear"}) =>
              u.job \in Job /\ u.att \in charged'[u.job] /\ NodeOf(att'[u.att].on) = NodeOf(s)
    PROVE  ThreadOK(s)' /\ Stepped(s)
<1>0. s \in Proc /\ s \notin Job /\ th \in [Proc -> Thread] /\ u.job \in Job \cup {None}
  BY ZenonT(60), Ids DEF Proc, TypeOK, Thread
<1>1. th'[s] = u /\ Stepped(s)
  BY ZenonT(60) DEF Stepped, MovesOn, Listening
<1>2. RightCode(s)'
  BY <1>0, <1>1 DEF RightCode, Unwaiting
<1>3. Scheduler(s)'
  BY ZenonT(60), <1>0, <1>1 DEF Scheduler, Scheduling, Placing, Known
<1>4. Handler(s)'
  <2>1. u.job # None => Asked(u.job)'
    BY <1>0, <1>1, AskedGrows, ZenonT(60) DEF Stepped
  <2>2. u.att # None => Known(u.att)'
    BY DEF Known
  <2> QED
    BY ZenonT(60), <1>1, <2>1, <2>2 DEF Handler
<1> QED
  BY ZenonT(60), <1>1, <1>2, <1>3, <1>4 DEF ThreadOK

\* The attempt a message is about belongs to the reader's session and to an asked job.
LEMMA MessageOwn ==
    ASSUME TypeOK, Rows, Traffic, NEW s \in Session, NEW type, Receive(s, type)
    PROVE  LET a == Head(mail[s]).att
           IN  Known(a) /\ att[a].on = s /\ Asked(JobOf(a))
<1>1. mail[s] \in Seq(Message) /\ mail[s] # <<>> /\ Head(mail[s]).att \in Attempt
  BY ReceiveTypes, ZenonT(60) DEF TypeOK, Receive
<1>2. 1 \in DOMAIN mail[s] /\ Head(mail[s]) = mail[s][1]
  BY <1>1
<1>3. Own(s, Head(mail[s]).att)
  BY <1>2 DEF Traffic, OwnTraffic
<1> QED
  BY ZenonT(60), <1>1, <1>3 DEF Own, Rows

\* Reading a message.
LEMMA ReceiveMoves ==
    ASSUME TypeOK, Threads, Rows, Traffic, NEW s \in Session, ReceiveStep(s)
    PROVE  ThreadOK(s)' /\ Stepped(s)
<1>m. PICK m : m = Head(mail[s])
  BY ZenonT(60)
<1>0. /\ RowsGrow /\ s \in Proc /\ th \in [Proc -> Thread] /\ th[s] \in Thread /\ NodeOf(s) \in Node
      /\ "off" \in PC
  BY ReaderRows, Ids, ZenonT(60) DEF TypeOK, Proc, PC
<1>1. /\ At(s, "read") /\ m.att \in Attempt /\ JobOf(m.att) \in Job /\ None \notin Attempt /\ None \notin Job
      /\ Known(m.att) /\ att[m.att].on = s /\ Asked(JobOf(m.att))
  <2>1. PICK type : Receive(s, type)
    BY ZenonT(60) DEF ReceiveStep, JobAccepted, JobStarted, JobRefused, JobCompleted
  <2> QED
    BY <1>m, <2>1, MessageOwn, ReceiveTypes, Ids, ZenonT(60) DEF Proc
<1>2. Known(m.att)' /\ att'[m.att].on = s
  BY <1>0, <1>1, ZenonT(60) DEF RowsGrow
<1>3. CASE th' = th
  <2>1. \A j \in Job : Asked(j) => Asked(j)'
    BY <1>3 DEF Asked, At
  <2> QED
    BY <1>0, <1>1, <1>3, <2>1, StayOK, ZenonT(60) DEF Stepped, MovesOn, Moves, Listening, At
<1>4. CASE JobAccepted(s) \/ JobStarted(s)
  BY <1>3, <1>4, BackOK, ZenonT(60) DEF JobAccepted, JobStarted
<1>5. CASE JobRefused(s)
  <2>1. CASE Fails(s, NodeOf(s), JobOf(m.att), m.att)
    <3>1. PICK u : u = th'[s]
      BY ZenonT(60)
    <3>2. /\ u \in Thread /\ Moves(s) /\ u.pc \in {"failAttempt", "failJob"} /\ u.kind = "retry"
          /\ u.job = JobOf(m.att) /\ u.att = m.att /\ u.todo = {} /\ u.cur = None
          /\ u.closing = At(s, "detach")
      BY <1>0, <1>1, <2>1, <3>1, StartFailureFacts, SMTT(60)
    <3>3. ~u.closing
      BY <1>1, <3>2, ZenonT(60) DEF At
    <3> QED
      BY <1>1, <1>2, <3>1, <3>2, <3>3, HandlingOK, ZenonT(60) DEF Known
  <2>2. CASE Goto(s, [Rest EXCEPT !.pc = "dupFail", !.att = m.att])
    <3>1. PICK u : u = [Rest EXCEPT !.pc = "dupFail", !.att = m.att]
      BY ZenonT(60)
    <3>2. "dupFail" \in PC
      BY DEF PC
    <3>3. /\ u \in Thread /\ u.pc = "dupFail" /\ u.kind = "none" /\ u.job = None /\ u.att = m.att
          /\ u.todo = {} /\ u.cur = None /\ ~u.closing
      BY <1>0, <1>1, <3>1, <3>2, ZenonT(60) DEF Rest, Thread
    <3>4. th'[s] = u /\ Moves(s)
      BY <1>0, <2>2, <3>1, <3>3, GotoMoves, ZenonT(60)
    <3> QED
      BY <1>1, <1>2, <3>3, <3>4, HandlingOK, ZenonT(60) DEF Known
  <2> QED
    BY <1>5, <1>m, <2>1, <2>2, ZenonT(60) DEF JobRefused, StartFailure, Fails, ClearActive
<1>6. CASE JobCompleted(s)
  <2>1. PICK pc \in {"dupDone", "failJob", "complete"}, kind \in {"good", "bad", "reject", "plain", "dup"} :
          /\ Goto(s, [[Rest EXCEPT !.att = m.att, !.job = JobOf(m.att)] EXCEPT !.pc = pc, !.kind = kind])
          /\ kind = "dup" => pc = "complete"
    BY <1>6, <1>m, ZenonT(60) DEF JobCompleted
  <2>2. PICK u : u = [[Rest EXCEPT !.att = m.att, !.job = JobOf(m.att)] EXCEPT !.pc = pc, !.kind = kind]
    BY ZenonT(60)
  <2>3. {"dupDone", "failJob", "complete"} \subseteq PC
    BY DEF PC
  <2>4. /\ u \in Thread /\ u.pc = pc /\ u.kind = kind /\ u.job = JobOf(m.att) /\ u.att = m.att
        /\ u.todo = {} /\ u.cur = None /\ ~u.closing
    BY <1>0, <1>1, <2>2, <2>3, ZenonT(60) DEF Rest, Thread
  <2>5. th'[s] = u /\ Moves(s)
    BY <1>0, <2>1, <2>2, <2>4, GotoMoves
  <2>6. att'[u.att].st # "none" /\ NodeOf(att'[u.att].on) = NodeOf(s)
    BY <1>2, <2>4, SMTT(60) DEF Known
  <2> QED
    BY <1>1, <2>1, <2>4, <2>5, <2>6, HandlingOK, ZenonT(60)
<1> QED
  BY <1>4, <1>5, <1>6, SMTT(60) DEF ReceiveStep

\* What a reader does between two reads, and the loss of its connection.
LEMMA ReaderMoves ==
    ASSUME TypeOK, Threads, Rows, Reserved, NEW s \in Session, ReaderStep(s) \/ Lose(s)
    PROVE  ThreadOK(s)' /\ Stepped(s)
<1>t. PICK t : t = th[s]
  BY ZenonT(60)
<1>0. /\ s \in Proc /\ th \in [Proc -> Thread] /\ t \in Thread /\ NodeOf(s) \in Node
      /\ ThreadOK(s) /\ Handler(s) /\ RightCode(s) /\ Scheduler(s) /\ th[s] = t
  BY <1>t, Ids, ZenonT(60) DEF TypeOK, Proc, Threads, ThreadOK
<1>r. RowsGrow
  <2>1. CASE ReaderStep(s)
    BY <2>1, ReaderRows
  <2>2. CASE Lose(s)
    BY <2>2, StatusGrows, ZenonT(60) DEF Lose, db
  <2> QED
    BY <2>1, <2>2
<1>a. /\ t.todo \subseteq Attempt /\ t.cur \in Attempt \cup {None} /\ t.job \in Job \cup {None}
      /\ t.att \in Attempt \cup {None}
  BY <1>0 DEF Thread
<1>b. /\ t.kind # "client"
      /\ \A a \in t.todo : att'[a].st # "none"
      /\ t.cur # None => att'[t.cur].st # "none"
      /\ t.job # None => Asked(t.job)
      /\ t.att # None => att'[t.att].st # "none"
  BY ZenonT(60), <1>0, <1>a, <1>r DEF RightCode, Scheduler, Handler, RowsGrow, Known
<1>c. t.pc \in {"completed", "finish"} \/ (t.kind = "dup" /\ t.pc \notin {"complete", "clear"}) =>
          t.job \in Job /\ t.att \in charged'[t.job] /\ NodeOf(att'[t.att].on) = NodeOf(s)
  <2> SUFFICES ASSUME t.pc \in {"completed", "finish"} \/ (t.kind = "dup" /\ t.pc \notin {"complete", "clear"})
               PROVE  t.job \in Job /\ t.att \in charged'[t.job] /\ NodeOf(att'[t.att].on) = NodeOf(s)
    BY ZenonT(60)
  <2>1. t.job \in Job /\ t.att \in charged[t.job] /\ NodeOf(att[t.att].on) = NodeOf(s)
    BY ZenonT(60), <1>0 DEF Handler
  <2>2. t.att \in Attempt /\ Known(t.att)
    BY <2>1, ZenonT(60) DEF TypeOK, Rows
  <2> QED
    BY <1>r, <2>1, <2>2, ZenonT(60) DEF RowsGrow
\* The handler goes on at pc with the locals it has.
<1>d. ASSUME NEW pc \in {"failDone", "clear", "completed", "finish", "credit", "expire", "select"},
             Goto(s, [t EXCEPT !.pc = pc]),
             pc \notin {"clear", "credit"} => t.job \in Job,
             pc \in {"clear", "completed", "credit"} => t.att \in Attempt,
             pc = "completed" => t.job = JobOf(t.att),
             pc \in {"completed", "finish"} \/ (t.kind = "dup" /\ pc # "clear") =>
                 t.job \in Job /\ t.att \in charged'[t.job] /\ NodeOf(att'[t.att].on) = NodeOf(s)
      PROVE  ThreadOK(s)' /\ Stepped(s)
  <2>1. PICK u : u = [t EXCEPT !.pc = pc]
    BY ZenonT(60)
  <2>2. pc \in PC
    BY DEF PC
  <2>3. /\ u \in Thread /\ u.pc = pc /\ u.kind = t.kind /\ u.job = t.job /\ u.att = t.att
        /\ u.todo = t.todo /\ u.cur = t.cur /\ u.closing = t.closing
    BY <1>0, <2>1, <2>2, SMTT(60) DEF Thread
  <2>4. th'[s] = u /\ Moves(s)
    BY <1>0, <1>d, <2>1, <2>3, GotoMoves, ZenonT(60)
  <2>5. u.closing => ~Listening(s)
    BY <1>0, <2>3 DEF Listening
  <2> QED
    BY <1>0, <1>b, <1>d, <2>3, <2>4, <2>5, HandlingOK, SMTT(60)
<1>1. CASE CompleteJob(s)
  <2>0. t.pc = "complete" /\ t.att \in Attempt /\ t.job = JobOf(t.att) /\ t.job \in Job /\ Known(t.att)
        /\ NodeOf(att[t.att].on) = NodeOf(s)
    BY <1>0, <1>1, Ids, ZenonT(60) DEF CompleteJob, At, Handler
  <2>1. att'[t.att].st # "none" /\ NodeOf(att'[t.att].on) = NodeOf(s)
    BY <1>r, <2>0 DEF RowsGrow, Known
  <2>2. CASE Goto(s, [t EXCEPT !.pc = "completed"]) /\ charged' = [charged EXCEPT ![t.job] = @ \cup {t.att}]
    <3>1. t.att \in charged'[t.job]
      BY <2>0, <2>2, ZenonT(60) DEF TypeOK
    <3> QED
      BY <1>d, <2>0, <2>1, <2>2, <3>1, ZenonT(60)
  <2>3. CASE Goto(s, [t EXCEPT !.pc = "clear"])
    BY <1>d, <2>0, <2>3
  <2> QED
    BY <1>0, <1>1, <2>2, <2>3, ZenonT(60) DEF CompleteJob
<1>2. CASE Completed(s)
  <2>1. PICK pc \in {"select", "finish"} : Goto(s, [t EXCEPT !.pc = pc])
    BY <1>0, <1>2 DEF Completed
  <2>2. t.pc = "completed"
    BY <1>0, <1>2 DEF Completed, At
  <2> QED
    BY <1>c, <1>d, <2>1, <2>2
<1>3. CASE FailAttempt(s)
  <2>1. t.pc = "failAttempt" /\ t.job \in Job
    BY <1>0, <1>3 DEF FailAttempt, At, Handler
  <2>2. CASE Goto(s, [t EXCEPT !.pc = "expire"])
    BY <1>c, <1>d, <2>1, <2>2
  <2> QED
    BY <1>0, <1>3, <2>2, BackOK DEF FailAttempt
<1>4. CASE FailJob(s)
  <2>1. t.pc = "failJob" /\ t.job \in Job
    BY <1>0, <1>4 DEF FailJob, At, Handler
  <2>2. CASE Goto(s, [t EXCEPT !.pc = "failDone"])
    BY <1>c, <1>d, <2>1, <2>2, ZenonT(60)
  <2> QED
    BY <1>0, <1>4, <2>2, BackOK, ZenonT(60) DEF FailJob
<1>5. CASE DuplicateCompleted(s)
  <2>1. t.pc = "dupDone" /\ t.att \in Attempt
    BY <1>0, <1>5 DEF DuplicateCompleted, At, Handler
  <2>2. CASE Goto(s, [t EXCEPT !.pc = "credit"])
    BY <1>c, <1>d, <2>1, <2>2, ZenonT(60)
  <2> QED
    BY <1>0, <1>5, <2>2, BackOK, ZenonT(60) DEF DuplicateCompleted
<1>6. CASE CompleteFailed(s) \/ Finish(s) \/ FailDone(s) \/ DuplicateFailed(s) \/ CreditDuplicate(s) \/ Lose(s)
  BY <1>6, BackOK, ZenonT(60) DEF CompleteFailed, Finish, FailDone, DuplicateFailed,
     CreditDuplicate, Lose
<1>7. CASE AttachSession(s) \/ Detach(s) \/ CloseSession(s)
  <2>0. ~Listening(s)
    BY ZenonT(60), <1>7 DEF AttachSession, Detach, CloseSession, At, Listening
  <2>1. ASSUME NEW pc \in {"read", "close", "closed"}, Goto(s, [Rest EXCEPT !.pc = pc])
        PROVE  ThreadOK(s)' /\ Stepped(s)
    <3>1. pc \in PC
      BY DEF PC
    <3>2. [Rest EXCEPT !.pc = pc] \in Thread
      BY ZenonT(60), <1>0, <3>1, ThreadType
    <3>3. th'[s] = [Rest EXCEPT !.pc = pc] /\ Moves(s)
      BY <1>0, <2>1, <3>2, GotoMoves
    <3>4. th'[s].pc = pc
      BY <3>3 DEF Rest
    <3> QED
      BY <2>0, <3>3, <3>4, IdleOK, ZenonT(60) DEF Stepped, MovesOn
  <2>2. CASE /\ active[NodeOf(s)] # None /\ At(s, "detach")
             /\ Fails(s, NodeOf(s), active[NodeOf(s)].job, active[NodeOf(s)].att)
    <3>0. PICK r : r = active[NodeOf(s)]
      BY ZenonT(60)
    <3>1. r.job \in Job /\ r.att \in Attempt \cup {None} /\ Asked(r.job)
      BY <1>0, <2>2, <3>0, ZenonT(60) DEF TypeOK, Reservation, Reserved
    <3>a. r.att # None => att'[r.att].st # "none"
      BY ZenonT(60), <1>0, <1>r, <2>2, <3>0, <3>1 DEF Reserved, RowsGrow, Known
    <3>2. PICK u : u = th'[s]
      BY ZenonT(60)
    <3>b. Fails(s, NodeOf(s), r.job, r.att)
      BY <2>2, <3>0, ZenonT(60)
    <3>c. /\ th' \in [Proc -> Thread] /\ Moves(s)
          /\ th'[s].pc \in {"failAttempt", "failJob"} /\ th'[s].kind = "retry"
          /\ th'[s].job = r.job /\ th'[s].att = r.att /\ th'[s].closing = At(s, "detach")
          /\ th'[s].todo = {} /\ th'[s].cur = None
      BY <1>0, <3>1, <3>b, StartFailureFacts, SMTT(60)
    <3>3. /\ u \in Thread /\ Moves(s) /\ u.pc \in {"failAttempt", "failJob"} /\ u.kind = "retry"
          /\ u.job = r.job /\ u.att = r.att /\ u.todo = {} /\ u.cur = None /\ u.closing
      BY <1>0, <2>2, <3>2, <3>c, ZenonT(60)
    <3> QED
      BY <2>0, <3>1, <3>2, <3>3, <3>a, HandlingOK, ZenonT(60)
  <2> QED
    BY <1>7, <2>1, <2>2 DEF AttachSession, Detach, CloseSession, StartFailure, Fails, ClearActive
<1> QED
  BY <1>1, <1>2, <1>3, <1>4, <1>5, <1>6, <1>7, ZenonT(60) DEF ReaderStep

\* A step moves no goroutine, or one, or it is a restart.
LEMMA OneMoves ==
    ASSUME TypeOK, Threads, Rows, Traffic, Reserved, [Next]_vars
    PROVE  th' = th \/ Restart \/ \E p \in Proc : ThreadOK(p)' /\ MovesOn(p)
<1>0. Job \subseteq Proc /\ Session \subseteq Proc
  BY DEF Proc
<1>1. CASE UNCHANGED vars
  BY <1>1 DEF vars
<1>2. ASSUME NEW j \in Job, Submit(j) \/ HandlerStep(j)
      PROVE  \E p \in Proc : ThreadOK(p)' /\ MovesOn(p)
  BY <1>0, <1>2, HandlerMoves DEF Stepped
<1>3. ASSUME NEW p \in Proc, ScheduleStep(p)
      PROVE  \E q \in Proc : ThreadOK(q)' /\ MovesOn(q)
  BY <1>3, ScheduleMoves DEF Stepped
<1>4. ASSUME NEW s \in Session, ReceiveStep(s) \/ ReaderStep(s) \/ Lose(s)
      PROVE  \E p \in Proc : ThreadOK(p)' /\ MovesOn(p)
  BY <1>0, <1>4, ReceiveMoves, ReaderMoves, ZenonT(60) DEF Stepped
<1>5. ASSUME NEW s \in Session, NodeStep(s)
      PROVE  th' = th
  BY <1>5 DEF NodeStep, NodeReject, NodeAccept, NodeFinish
<1>6. ASSUME NEW j \in Job, OperatorCancel(j) \/ OperatorRetry(j) \/ CancelJob(j)
      PROVE  th' = th
  BY <1>6 DEF OperatorCancel, OperatorRetry, CancelJob
<1>7. ASSUME NEW n \in Node, OpenSession(n)
      PROVE  \E p \in Proc : ThreadOK(p)' /\ MovesOn(p)
  <2>1. PICK s \in Session : Goto(s, [Rest EXCEPT !.pc = "attach"])
    BY <1>7 DEF OpenSession
  <2>2. s \in Proc /\ th \in [Proc -> Thread] /\ th[s] \in Thread /\ "attach" \in PC
    BY <1>0 DEF TypeOK, PC
  <2>3. [Rest EXCEPT !.pc = "attach"] \in Thread
    BY ZenonT(60), <2>2, ThreadType
  <2>4. th'[s] = [Rest EXCEPT !.pc = "attach"] /\ Moves(s)
    BY <2>1, <2>2, <2>3, GotoMoves, SMTT(60)
  <2> QED
    BY <2>2, <2>4, IdleOK DEF MovesOn
<1> QED
  BY <1>1, <1>2, <1>3, <1>4, <1>5, <1>6, <1>7, ZenonT(60) DEF Next

\* A job asked for stays asked for.
LEMMA AskedStays ==
    ASSUME TypeOK, Threads, Rows, Traffic, Reserved, [Next]_vars
    PROVE  \A j \in Job : Asked(j) => Asked(j)'
<1>1. CASE th' = th
  BY <1>1 DEF Asked, At
<1>2. CASE Restart
  <2>1. \A j \in Job : th'[j] = IF At(j, "off") THEN th[j] ELSE [Rest EXCEPT !.pc = "done"]
    BY <1>2 DEF Restart, Proc
  <2>2. [Rest EXCEPT !.pc = "done"].pc = "done"
    BY DEF Rest
  <2> QED
    BY ZenonT(60), <2>1, <2>2 DEF Asked, At
<1>3. ASSUME NEW p \in Proc, MovesOn(p)
      PROVE  \A j \in Job : Asked(j) => Asked(j)'
  BY <1>3, AskedGrows
<1> QED
  BY <1>1, <1>2, <1>3, OneMoves

\* Every step keeps what the goroutines know.
LEMMA ThreadsStep ==
    ASSUME TypeOK, Threads, Rows, Traffic, Reserved, [Next]_vars
    PROVE  Threads'
<1>0. RowsGrow /\ \A j \in Job : Asked(j) => Asked(j)'
  BY RowsStep, AskedStays
<1>1. CASE th' = th
  BY <1>0, <1>1, StayOK, SMTT(60) DEF Threads
<1>2. ASSUME NEW p \in Proc, ThreadOK(p)', MovesOn(p)
      PROVE  Threads'
  <2>1. \A q \in Proc : q # p => ThreadOK(q)'
    BY <1>0, <1>2, StayOK DEF MovesOn, Moves
  <2> QED
    BY <1>2, <2>1 DEF Threads
<1>3. CASE Restart
  <2> SUFFICES ASSUME NEW p \in Proc
               PROVE  ThreadOK(p)'
    BY DEF Threads
  <2>1. CASE At(p, "off")
    <3>1. th'[p] = th[p]
      BY <1>3, <2>1 DEF Restart
    <3> QED
      BY <1>0, <3>1, StayOK
  <2>2. CASE ~At(p, "off")
    <3>1. th'[p] = [Rest EXCEPT !.pc = IF p \in Job THEN "done" ELSE "closed"]
      BY <1>3, <2>2 DEF Restart
    <3>2. CASE p \in Session
      <4>1. p \notin Job
        BY <3>2, Ids
      <4> QED
        BY <3>1, <3>2, <4>1, IdleOK, SMTT(60)
    <3>3. CASE p \in Job
      <4>1. /\ th'[p].pc = "done" /\ th'[p].kind = "none" /\ th'[p].job = None
            /\ th'[p].todo = {} /\ th'[p].cur = None /\ th'[p].att = None
        BY <3>1, <3>3 DEF Rest
      <4>2. p \notin Session
        BY <3>3, Ids, SMTT(60)
      <4>3. RightCode(p)'
        BY <4>1, <4>2, SMTT(60) DEF RightCode, Scheduling, Placing, Unwaiting
      <4>4. Scheduler(p)'
        BY <4>1, ZenonT(60) DEF Scheduler, Scheduling, Placing
      <4>5. Handler(p)'
        BY <4>1, ZenonT(60) DEF Handler
      <4> QED
        BY <4>3, <4>4, <4>5 DEF ThreadOK
    <3> QED
      BY <3>2, <3>3 DEF Proc
  <2> QED
    BY <2>1, <2>2
<1> QED
  BY <1>1, <1>2, <1>3, OneMoves

-----------------------------------------------------------------------------
(* Waiting.                                                                *)

\* No handler starts to wait, and none that is done goes on.
SameWait == \A j \in Job : /\ th'[j].pc \notin Unwaiting => th[j].pc \notin Unwaiting
                           /\ At(j, "done") => At(j, "done")'

\* Waiting is kept when nobody starts to wait and no answer is given, also by
\* notify: with an error, or with success for a charged job.
LEMMA WaitingFrame ==
    ASSUME TypeOK, Waiting, SameWait, RowsGrow, answer' = answer,
           \/ UNCHANGED <<pending, result>>
           \/ \E j \in Job : \/ Notify(j, "error")
                             \/ Notify(j, "ok") /\ charged[j] # {}
    PROVE  Waiting'
<1> SUFFICES ASSUME NEW j \in Job
             PROVE  /\ th'[j].pc \notin Unwaiting => j \in pending' \/ result'[j] # "none"
                    /\ result'[j] = "ok" => charged'[j] # {}
                    /\ answer'[j] # "none" => At(j, "done")'
  BY ZenonT(60) DEF Waiting
<1>1. answer'[j] # "none" => At(j, "done")'
  BY ZenonT(60) DEF Waiting, SameWait
<1>2. CASE UNCHANGED <<pending, result>>
  BY ZenonT(60), <1>1, <1>2 DEF Waiting, SameWait, RowsGrow
<1>3. ASSUME NEW k \in Job, NEW r \in {"ok", "error"}, Notify(k, r), r = "ok" => charged[k] # {}
      PROVE  /\ th'[j].pc \notin Unwaiting => j \in pending' \/ result'[j] # "none"
             /\ result'[j] = "ok" => charged'[j] # {}
  <2>1. /\ j \in pending' <=> j \in pending /\ j # k
        /\ result'[j] = IF j = k /\ j \in pending THEN r ELSE result[j]
    BY <1>3 DEF Notify, TypeOK
  <2> QED
    BY ZenonT(60), <1>3, <2>1 DEF Waiting, SameWait, RowsGrow
<1>4. PICK k \in Job, r \in {"ok", "error"} :
        UNCHANGED <<pending, result>> \/ (Notify(k, r) /\ (r = "ok" => charged[k] # {}))
  BY ZenonT(60)
<1> QED
  BY <1>1, <1>2, <1>3, <1>4

\* The handler of a job: it registers, and what it leaves it leaves for good.
LEMMA HandlerWaiting ==
    ASSUME TypeOK, Waiting, RowsGrow, NEW j \in Job, Submit(j) \/ HandlerStep(j)
    PROVE  Waiting'
<1>0. j \in Proc /\ th \in [Proc -> Thread] /\ Job \subseteq Proc
  BY DEF TypeOK, Proc
<1> SUFFICES ASSUME NEW k \in Job
             PROVE  /\ th'[k].pc \notin Unwaiting => k \in pending' \/ result'[k] # "none"
                    /\ result'[k] = "ok" => charged'[k] # {}
                    /\ answer'[k] # "none" => At(k, "done")'
  BY ZenonT(60) DEF Waiting
<1>1. result'[k] = "ok" => charged'[k] # {}
  BY ZenonT(60) DEF Waiting, RowsGrow, TypeOK, Submit, HandlerStep, Abandon, TakeResult, TimeOut,
     GiveUp, mem
<1>2. CASE k # j
  <2>1. th'[k] = th[k] /\ (k \in pending' <=> k \in pending) /\ result'[k] = result[k] /\ answer'[k] = answer[k]
    BY <1>0, <1>2, ZenonT(60) DEF TypeOK, Submit, HandlerStep, Abandon, TakeResult, TimeOut, GiveUp,
       Goto, mem
  <2> QED
    BY ZenonT(60), <1>1, <2>1 DEF Waiting, At
<1>3. CASE k = j
  <2>1. CASE Submit(j)
    <3>1. th'[j].pc = "expire" /\ j \in pending' /\ answer' = answer /\ At(j, "off")
      BY <1>0, <2>1 DEF Submit, Goto, Rest
    <3> QED
      BY <1>1, <1>3, <3>1 DEF Waiting, At
  <2>2. CASE HandlerStep(j)
    <3>1. /\ th'[j].pc \in {"done", "giveup"}
          /\ th'[j].pc = "giveup" => answer' = answer
          /\ th[j].pc # "done"
      BY <1>0, <2>2 DEF HandlerStep, Abandon, TakeResult, TimeOut, GiveUp, Goto, Rest, At
    <3> QED
      BY <1>1, <1>3, <3>1, ZenonT(60) DEF Waiting, Unwaiting, At
  <2> QED
    BY <2>1, <2>2
<1> QED
  BY <1>2, <1>3

\* Every step keeps Waiting.
LEMMA WaitingStep ==
    ASSUME TypeOK, Threads, Rows, Traffic, Reserved, Waiting, [Next]_vars
    PROVE  Waiting'
<1> USE DEF mem
<1>0. RowsGrow
  BY RowsStep
<1>1. CASE th' = th /\ UNCHANGED <<pending, result, answer>>
  BY <1>0, <1>1, WaitingFrame DEF SameWait, At
<1>2. CASE UNCHANGED vars
  BY <1>1, <1>2 DEF vars
<1>3. ASSUME NEW p \in Proc, ScheduleStep(p)
      PROVE  Waiting'
  <2>1. Stepped(p) /\ th[p].pc \in Scheduling /\ "done" \notin Scheduling /\ Scheduling \cap Unwaiting = {}
    BY <1>3, ScheduleMoves, ZenonT(60) DEF ScheduleStep, ExpireLeases, NextExpired, FailExpired,
       ExpiredDone, Select,
         Reserve, Create, Announce, Send, Unsend, At, Scheduling, Placing, Unwaiting
  <2>2. SameWait
    BY <2>1 DEF SameWait, Stepped, MovesOn, Moves, At, Proc
  <2>3. CASE ExpiredDone(p)
    <3>1. JobOf(th[p].cur) \in Job
      <4>1. th[p] \in Thread /\ Scheduler(p)
        BY DEF TypeOK, Threads, ThreadOK
      <4> QED
        BY <2>3, <4>1, Ids, ZenonT(60) DEF ExpiredDone, At, Scheduler, Thread
    <3> QED
      BY ZenonT(60), <1>0, <2>2, <2>3, <3>1, WaitingFrame DEF ExpiredDone
  <2>4. CASE ~ExpiredDone(p)
    <3>1. UNCHANGED <<pending, result, answer>>
      BY ZenonT(60), <1>3, <2>4 DEF ScheduleStep, ExpireLeases, NextExpired, FailExpired, Select,
                        Reserve, Create, Announce, Send, Unsend
    <3> QED
      BY <1>0, <2>2, <3>1, WaitingFrame, SMTT(60)
  <2> QED
    BY <2>3, <2>4
<1>4. ASSUME NEW s \in Session, ReceiveStep(s) \/ ReaderStep(s) \/ Lose(s)
      PROVE  Waiting'
  <2>1. SameWait
    <3>1. Moves(s)
      BY <1>4, ReceiveMoves, ReaderMoves DEF Stepped, MovesOn
    <3> QED
      BY <3>1, Ids, SMTT(60) DEF Moves, SameWait, Proc, At
  <2>2. CASE Finish(s) \/ FailDone(s)
    <3>1. Handler(s)
      BY DEF Threads, ThreadOK, Proc
    <3>2. CASE Finish(s)
      <4>1. th[s].job \in Job /\ charged[th[s].job] # {}
        BY ZenonT(60), <3>1, <3>2 DEF Finish, At, Handler
      <4> QED
        BY <1>0, <2>1, <3>2, <4>1, WaitingFrame DEF Finish
    <3>3. CASE FailDone(s)
      <4>1. th[s].job \in Job
        BY ZenonT(60), <3>1, <3>3 DEF FailDone, At, Handler
      <4> QED
        BY <1>0, <2>1, <3>3, <4>1, WaitingFrame DEF FailDone
    <3> QED
      BY <2>2, <3>2, <3>3
  <2>3. CASE ~(Finish(s) \/ FailDone(s))
    <3>1. UNCHANGED <<pending, result, answer>>
      BY <1>4, <2>3, ZenonT(60) DEF ReceiveStep, JobAccepted, JobStarted, JobRefused,
         JobCompleted, ReaderStep, CompleteJob,
            CompleteFailed, Completed, FailAttempt, FailJob, DuplicateFailed, DuplicateCompleted,
            CreditDuplicate, AttachSession, Detach, CloseSession, Lose
    <3> QED
      BY <1>0, <2>1, <3>1, WaitingFrame
  <2> QED
    BY <2>2, <2>3, SMTT(60)
<1>5. ASSUME NEW s \in Session, NodeStep(s)
      PROVE  Waiting'
  BY <1>1, <1>5 DEF NodeStep, NodeReject, NodeAccept, NodeFinish
<1>6. ASSUME NEW j \in Job, OperatorCancel(j) \/ OperatorRetry(j) \/ CancelJob(j)
      PROVE  Waiting'
  BY <1>1, <1>6 DEF OperatorCancel, OperatorRetry, CancelJob
<1>7. ASSUME NEW n \in Node, OpenSession(n)
      PROVE  Waiting'
  <2>1. UNCHANGED <<pending, result, answer>>
    BY <1>7 DEF OpenSession
  <2>2. \A j \in Job : th'[j] = th[j]
    <3>1. PICK s \in Session : Goto(s, [Rest EXCEPT !.pc = "attach"])
      BY <1>7 DEF OpenSession
    <3> QED
      BY <3>1, Ids, ZenonT(60) DEF Goto, TypeOK, Proc
  <2> QED
    BY ZenonT(60), <1>0, <2>1, <2>2, WaitingFrame DEF SameWait, At
<1>8. CASE Restart
  <2> SUFFICES ASSUME NEW j \in Job
               PROVE  /\ th'[j].pc \notin Unwaiting => j \in pending' \/ result'[j] # "none"
                      /\ result'[j] = "ok" => charged'[j] # {}
                      /\ answer'[j] # "none" => At(j, "done")'
    BY ZenonT(60) DEF Waiting
  <2>1. result'[j] = "none" /\ th'[j].pc \in {"off", "done"}
        /\ (th'[j].pc = "off" => At(j, "off") /\ answer'[j] = answer[j])
    BY <1>8 DEF Restart, Proc, At, Rest
  <2> QED
    BY ZenonT(60), <2>1 DEF Waiting, Unwaiting, At
<1> QED
  BY <1>0, <1>2, <1>3, <1>4, <1>5, <1>6, <1>7, <1>8, HandlerWaiting, ZenonT(60) DEF Next

-----------------------------------------------------------------------------
(* Sessions.                                                               *)

\* The registrations change when a reader attaches or detaches, or with a restart.
LEMMA Registers ==
    ASSUME [Next]_vars
    PROVE  \/ sessions' = sessions
           \/ Restart
           \/ \E s \in Session : AttachSession(s) \/ Detach(s)
<1> USE DEF mem
<1>1. CASE UNCHANGED vars
  BY ZenonT(60), <1>1 DEF vars
<1>2. ASSUME NEW j \in Job, \/ Submit(j) \/ HandlerStep(j)
                            \/ OperatorCancel(j) \/ OperatorRetry(j) \/ CancelJob(j)
      PROVE  sessions' = sessions
  BY <1>2 DEF Submit, HandlerStep, Abandon, TakeResult, TimeOut, GiveUp,
              OperatorCancel, OperatorRetry, CancelJob
<1>3. ASSUME NEW p \in Proc, ScheduleStep(p)
      PROVE  sessions' = sessions
  BY ZenonT(60), <1>3 DEF ScheduleStep, ExpireLeases, NextExpired, FailExpired, ExpiredDone,
     Select, Reserve, Create,
              Announce, Send, Unsend
<1>4. ASSUME NEW s \in Session, ReceiveStep(s) \/ NodeStep(s) \/ Lose(s)
      PROVE  sessions' = sessions
  BY ZenonT(60), <1>4 DEF ReceiveStep, JobAccepted, JobStarted, JobRefused, JobCompleted,
              NodeStep, NodeReject, NodeAccept, NodeFinish, Lose
<1>5. ASSUME NEW s \in Session, ReaderStep(s), ~(AttachSession(s) \/ Detach(s))
      PROVE  sessions' = sessions
  BY ZenonT(60), <1>5 DEF ReaderStep, CompleteJob, CompleteFailed, Completed, Finish, FailAttempt,
     FailJob, FailDone,
              DuplicateFailed, DuplicateCompleted, CreditDuplicate, CloseSession
<1>6. ASSUME NEW n \in Node, OpenSession(n)
      PROVE  sessions' = sessions
  BY ZenonT(60), <1>6 DEF OpenSession
<1> QED
  BY ZenonT(60), <1>1, <1>2, <1>3, <1>4, <1>5, <1>6 DEF Next

\* The reader of a session that was detached does not listen any more.
LEMMA DetachEnds ==
    ASSUME TypeOK, NEW s \in Session, Detach(s)
    PROVE  Moves(s) /\ ~Listening(s)'
<1>0. s \in Proc /\ th \in [Proc -> Thread] /\ NodeOf(s) \in Node /\ "close" \in PC
  BY ZenonT(60), Ids DEF Proc, TypeOK, PC
<1>1. CASE Goto(s, [Rest EXCEPT !.pc = "close"])
  <2>1. [Rest EXCEPT !.pc = "close"] \in Thread
    BY ZenonT(60), <1>0, ThreadType
  <2>2. th'[s] = [Rest EXCEPT !.pc = "close"] /\ Moves(s)
    BY <1>0, <1>1, <2>1, GotoMoves
  <2>3. th'[s].pc = "close"
    BY <2>2 DEF Rest
  <2> QED
    BY <2>2, <2>3 DEF Listening
<1>2. CASE /\ active[NodeOf(s)] # None /\ At(s, "detach")
           /\ Fails(s, NodeOf(s), active[NodeOf(s)].job, active[NodeOf(s)].att)
  <2>1. active[NodeOf(s)].job \in Job /\ active[NodeOf(s)].att \in Attempt \cup {None}
    BY ZenonT(60), <1>0, <1>2 DEF TypeOK, Reservation
  <2>2. Moves(s) /\ th'[s].closing
    BY ZenonT(60), <1>0, <1>2, <2>1, StartFailureFacts
  <2> QED
    BY ZenonT(60), <2>2 DEF Listening
<1> QED
  BY <1>1, <1>2 DEF Detach, StartFailure, Fails, ClearActive

\* Registrations are kept by a goroutine that neither attaches nor detaches.
LEMMA ServedFrame ==
    ASSUME TypeOK, RegisteredIsServed, sessions' = sessions,
           NEW p \in Proc, Stepped(p), p \in Session => th[p].pc # "detach"
    PROVE  RegisteredIsServed'
<1> SUFFICES ASSUME NEW n \in Node, sessions[n] # None
             PROVE  NodeOf(sessions[n]) = n /\ (Listening(sessions[n])' \/ At(sessions[n], "detach")')
  BY ZenonT(60) DEF RegisteredIsServed
<1>1. PICK s \in Session : s = sessions[n]
  BY DEF TypeOK
<1>2. NodeOf(s) = n /\ (Listening(s) \/ At(s, "detach")) /\ s \in Proc
  BY ZenonT(60), <1>1 DEF RegisteredIsServed, Proc
<1>3. CASE s = p
  BY <1>1, <1>2, <1>3 DEF Stepped, At
<1>4. CASE s # p
  <2>1. th'[s] = th[s]
    BY <1>2, <1>4 DEF Stepped, MovesOn, Moves
  <2> QED
    BY <1>1, <1>2, <2>1, ZenonT(60) DEF Listening, At
<1> QED
  BY ZenonT(60), <1>3, <1>4

\* Registrations are kept by a reader when its node's registration is dropped or
\* is not its own.
LEMMA ServedOthers ==
    ASSUME TypeOK, RegisteredIsServed, NEW s \in Session, Moves(s),
           \A m \in Node : m # NodeOf(s) => sessions'[m] = sessions[m],
           \/ sessions'[NodeOf(s)] = None
           \/ sessions'[NodeOf(s)] = sessions[NodeOf(s)] /\ sessions[NodeOf(s)] # s
           \/ sessions'[NodeOf(s)] = s /\ Listening(s)'
    PROVE  RegisteredIsServed'
<1> SUFFICES ASSUME NEW n \in Node, NEW r, r = sessions'[n], r # None
             PROVE  NodeOf(r) = n /\ (Listening(r)' \/ At(r, "detach")')
  BY DEF RegisteredIsServed
<1>1. CASE r = s /\ Listening(s)' /\ n = NodeOf(s)
  BY <1>1, ZenonT(60)
<1>2. CASE r = sessions[n] /\ r # s
  <2>1. NodeOf(r) = n /\ (Listening(r) \/ At(r, "detach")) /\ r \in Proc
    BY <1>2, ZenonT(60) DEF RegisteredIsServed, TypeOK, Proc
  <2>2. th'[r] = th[r]
    BY ZenonT(60), <1>2, <2>1 DEF Moves
  <2> QED
    BY <2>1, <2>2 DEF Listening, At
<1>3. n # NodeOf(s) => sessions[n] # s
  BY ZenonT(60) DEF RegisteredIsServed, TypeOK
<1> QED
  BY <1>1, <1>2, <1>3, ZenonT(60)

\* Every step keeps the registrations served: a connection registers itself, and
\* its end unregisters it unless another one has taken its place.
LEMMA ServedStep ==
    ASSUME TypeOK, Threads, Rows, Traffic, Reserved, Fresh, RegisteredIsServed, [Next]_vars
    PROVE  RegisteredIsServed'
<1>0. Session \subseteq Proc /\ Job \subseteq Proc /\ Session \cap Job = {}
      /\ \A s \in Session : NodeOf(s) \in Node
  BY Ids DEF Proc
<1>1. CASE Restart
  BY <1>1 DEF Restart, RegisteredIsServed
<1>2. ASSUME NEW s \in Session, AttachSession(s)
      PROVE  RegisteredIsServed'
  <2>1. {"read", "close"} \subseteq PC /\ th \in [Proc -> Thread] /\ s \in Proc
    BY <1>0 DEF PC, TypeOK
  <2>2. CASE sessions' = [sessions EXCEPT ![NodeOf(s)] = s] /\ Goto(s, [Rest EXCEPT !.pc = "read"])
    <3>1. [Rest EXCEPT !.pc = "read"] \in Thread
      BY ZenonT(60), <2>1, ThreadType
    <3>2. th'[s] = [Rest EXCEPT !.pc = "read"] /\ Moves(s)
      BY <2>1, <2>2, <3>1, GotoMoves
    <3>3. Listening(s)'
      BY <3>2 DEF Listening, Rest
    <3>4. sessions'[NodeOf(s)] = s /\ \A m \in Node : m # NodeOf(s) => sessions'[m] = sessions[m]
      BY <1>0, <2>2 DEF TypeOK
    <3> QED
      BY <3>2, <3>3, <3>4, ServedOthers
  <2>3. CASE sessions' = sessions /\ Goto(s, [Rest EXCEPT !.pc = "close"])
    <3>1. [Rest EXCEPT !.pc = "close"] \in Thread
      BY ZenonT(60), <2>1, ThreadType
    <3>2. Moves(s)
      BY <2>1, <2>3, <3>1, GotoMoves
    <3>3. sessions[NodeOf(s)] # s
      BY <1>0, <1>2, Ids DEF AttachSession, RegisteredIsServed, Listening, At
    <3> QED
      BY <2>3, <3>2, <3>3, ServedOthers
  <2> QED
    BY <1>2, <2>2, <2>3, ZenonT(60) DEF AttachSession
<1>3. ASSUME NEW s \in Session, Detach(s)
      PROVE  RegisteredIsServed'
  <2>1. Moves(s)
    BY <1>3, DetachEnds
  <2>2. /\ \A m \in Node : m # NodeOf(s) => sessions'[m] = sessions[m]
        /\ \/ sessions'[NodeOf(s)] = None
           \/ sessions'[NodeOf(s)] = sessions[NodeOf(s)] /\ sessions[NodeOf(s)] # s
    BY ZenonT(60), <1>0, <1>3 DEF Detach, TypeOK
  <2> QED
    BY ZenonT(60), <2>1, <2>2, ServedOthers
<1>4. CASE sessions' = sessions /\ ~Restart /\ ~\E s \in Session : AttachSession(s) \/ Detach(s)
  <2>0. CASE th' = th
    BY ZenonT(60), <1>4, <2>0 DEF RegisteredIsServed, Listening, At
  <2>1. CASE UNCHANGED vars
    BY <2>0, <2>1 DEF vars
  <2>2. ASSUME NEW j \in Job, OperatorCancel(j) \/ OperatorRetry(j) \/ CancelJob(j)
        PROVE  th' = th
    BY ZenonT(60), <2>2 DEF OperatorCancel, OperatorRetry, CancelJob
  <2>3. ASSUME NEW s \in Session, NodeStep(s)
        PROVE  th' = th
    BY <2>3 DEF NodeStep, NodeReject, NodeAccept, NodeFinish
  <2>4. ASSUME NEW j \in Job, Submit(j) \/ HandlerStep(j)
        PROVE  RegisteredIsServed'
    BY <1>0, <1>4, <2>4, HandlerMoves, ServedFrame, ZenonT(60)
  <2>5. ASSUME NEW p \in Proc, ScheduleStep(p)
        PROVE  RegisteredIsServed'
    <3>1. th[p].pc # "detach"
      BY ZenonT(60), <2>5 DEF ScheduleStep, ExpireLeases, NextExpired, FailExpired, ExpiredDone,
         Select, Reserve, Create,
                  Announce, Send, Unsend, At
    <3> QED
      BY <1>4, <2>5, <3>1, ScheduleMoves, ServedFrame, SMTT(60)
  <2>6. ASSUME NEW s \in Session, ReceiveStep(s) \/ ReaderStep(s) \/ Lose(s)
        PROVE  RegisteredIsServed'
    <3>1. th[s].pc # "detach"
      BY <1>4, <2>6, ZenonT(60) DEF ReceiveStep, JobAccepted, JobStarted, JobRefused,
         JobCompleted, Receive,
            ReaderStep, CompleteJob, CompleteFailed, Completed, Finish, FailAttempt, FailJob,
         FailDone,
            DuplicateFailed, DuplicateCompleted, CreditDuplicate, CloseSession, Lose, At
    <3> QED
      BY <1>0, <1>4, <2>6, <3>1, ReceiveMoves, ReaderMoves, ServedFrame, ZenonT(60)
  <2>7. ASSUME NEW n \in Node, OpenSession(n)
        PROVE  RegisteredIsServed'
    <3>1. PICK s \in Session : s = <<n, conn[n] + 1>>
      BY <2>7, ZenonT(60) DEF OpenSession
    <3>2. th[s].pc = "off"
      BY <2>7, <3>1, SMTT(60) DEF Fresh, At, NodeOf, TypeOK
    <3>3. Moves(s)
      BY <1>0, <2>7, <3>1, ZenonT(60) DEF OpenSession, Goto, Moves, TypeOK
    <3>4. sessions[NodeOf(s)] # s
      BY <1>0, <3>2, Ids DEF RegisteredIsServed, Listening, At
    <3> QED
      BY <1>4, <3>3, <3>4, ServedOthers
  <2> QED
    BY <1>4, <2>0, <2>1, <2>2, <2>3, <2>4, <2>5, <2>6, <2>7, ZenonT(60) DEF Next
<1> QED
  BY <1>1, <1>2, <1>3, <1>4, Registers, SMTT(60)
=============================================================================
