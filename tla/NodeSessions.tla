---------------------------- MODULE NodeSessions ----------------------------
(***************************************************************************)
(* The coordinator's record of its nodes: the rows of nodes, node_sessions *)
(* and node_heartbeats, written by one handler per websocket, the operator *)
(* API and the stale-session sweeper, and read by the scheduler and the    *)
(* status pages.                                                           *)
(*                                                                         *)
(* A transaction takes its row locks one by one in the order of its        *)
(* statements and its writes appear when it commits.  A statement waits    *)
(* for a locked row; Postgres aborts one transaction of a cycle of waiting *)
(* ones (SQLSTATE 40P01).  One that waits for its first row holds nothing  *)
(* and has read nothing, so it begins with that lock; and it commits with  *)
(* its last lock, since nobody can see the difference.                     *)
(*                                                                         *)
(* Sessions are numbered in the order of connected_at.  Time is one bit a  *)
(* session: fresh means that COALESCE(last_heartbeat_at, connected_at) is  *)
(* within StaleAfter.  A heartbeat payload is the state it reports,        *)
(* whether its schedule, thermal, paused and draining fields all permit    *)
(* work (clear) and whether its hashes are those of the catalog (hash).    *)
(***************************************************************************)
EXTENDS Integers, Sequences, FiniteSets, SequencesExt, FiniteSetsExt

CONSTANTS
    Node,          \* registered nodes
    MaxSessions,   \* bound on the sessions opened
    Reports,       \* the heartbeats nodes send
    OperatorDoes,  \* the operator actions taken: "drain", "pause", "quarantine"
    MaxActions,    \* bound on how many
    CanFail,       \* may a statement fail for a reason outside the model?
    CanCrash,      \* may the coordinator stop and start again?
    None

SessionsAssumption ==
    /\ IsFiniteSet(Node) /\ None \notin Node
    /\ MaxSessions \in Nat /\ MaxActions \in Nat
    /\ Reports \subseteq [state : STRING, clear : BOOLEAN, hash : BOOLEAN]
    /\ OperatorDoes \subseteq {"drain", "pause", "quarantine"}

VARIABLES
    nodes,    \* nodes: state and quarantined_at
    sess,     \* node_sessions, with the latest heartbeat of each
    audit,    \* operator_actions
    handler,  \* handleSession of each session
    said,     \* the state each session last reported since its node last connected
              \* (history)
    sweeper,  \* Sweeper.Run
    tx        \* the transaction each process is in

vars == <<nodes, sess, audit, handler, said, sweeper, tx>>

Sid == 1..MaxSessions
SessionState == {"none", "connected", "draining", "closed", "stale"}
NodeState == {"OFFLINE", "DRAINING", "PAUSED"} \cup {r.state : r \in Reports}
NoReport == [state |-> "none", clear |-> FALSE, hash |-> FALSE]

\* Processes and rows.
H(s)       == <<"handler", s>>
Operator   == <<"operator", 0>>
Sweeper    == <<"sweeper", 0>>
Proc       == {H(s) : s \in Sid} \cup {Operator, Sweeper}
NodeRow(n) == <<"node", n>>
SessRow(s) == <<"session", s>>
Row        == {NodeRow(n) : n \in Node} \cup {SessRow(s) : s \in Sid}

Idle == [kind |-> "idle", node |-> None, sess |-> 0, report |-> NoReport,
         second |-> FALSE, todo |-> <<>>, held |-> {}, marked |-> {}]

Opened(n)    == {s \in Sid : sess[s].node = n}
Connected(n) == {s \in Opened(n) : sess[s].state = "connected"}
Latest(S)    == {s \in S : \A t \in S : t <= s}

-----------------------------------------------------------------------------
(* Row locks.                                                              *)

WaitsFor(p, q) == p # q /\ tx[p].todo # <<>> /\ Head(tx[p].todo) \in tx[q].held

Deadlocked(p) ==
    \E S \in SUBSET Proc : p \in S /\ \A q \in S : \E r \in S : WaitsFor(q, r)

Free(row) == \A q \in Proc : row \notin tx[q].held

\* The row p updates next, if any, is its to lock.
Unblocked(p) == \A q \in Proc : ~WaitsFor(p, q)

\* p begins and locks row first; it will go on to lock the rows todo.
Begin(p, kind, n, s, report, first, todo) ==
    /\ tx[p].kind = "idle" /\ Free(first)
    /\ tx' = [tx EXCEPT ![p] = [Idle EXCEPT !.kind = kind, !.node = n, !.sess = s,
                                            !.report = report, !.todo = todo,
                                            !.held = {first}]]

Commit(p) == tx' = [tx EXCEPT ![p] = Idle]

-----------------------------------------------------------------------------
(* The handler of a session.                                               *)

OpenSession(s, n) ==
    /\ handler[s] = "none" /\ \A t \in Sid : t < s => handler[t] # "none"
    /\ sess' = [sess EXCEPT ![s] = [node |-> n, state |-> "connected",
                                    fresh |-> TRUE, hb |-> NoReport]]
    /\ handler' = [handler EXCEPT ![s] = "open"]
    /\ said' = [t \in Sid |-> IF sess[t].node = n THEN "none" ELSE said[t]]
    /\ UNCHANGED <<nodes, audit, sweeper, tx>>

\* Between two messages: no message is read while one is being stored.
Reading(s) == handler[s] = "open" /\ tx[H(s)].kind = "idle"

BeginHeartbeat(s, r) ==
    /\ Reading(s)
    /\ Begin(H(s), "heartbeat", sess[s].node, s, r, NodeRow(sess[s].node), <<SessRow(s)>>)
    /\ UNCHANGED <<nodes, sess, audit, handler, said, sweeper>>

\* A heartbeat that revives only a row that is online: mutant of RecordHeartbeat.
RecordHeartbeatOnline(s) ==
    /\ tx[H(s)].kind = "heartbeat" /\ Unblocked(H(s))
    /\ LET t == tx[H(s)] IN
       /\ nodes' = IF nodes[t.node].state = "OFFLINE" /\ sess[s].hb # NoReport THEN nodes
                   ELSE [nodes EXCEPT ![t.node].state = t.report.state]
       /\ sess' = [sess EXCEPT ![s].fresh = TRUE, ![s].hb = t.report]
       /\ said' = [said EXCEPT ![s] = t.report.state]
    /\ Commit(H(s))
    /\ UNCHANGED <<audit, handler, sweeper>>

\* Inserts the heartbeat and updates the two rows, whatever state they are in.
RecordHeartbeat(s) ==
    /\ tx[H(s)].kind = "heartbeat" /\ Unblocked(H(s))
    /\ LET t == tx[H(s)] IN
       /\ nodes' = [nodes EXCEPT ![t.node].state = t.report.state]
       /\ sess' = [sess EXCEPT ![s].fresh = TRUE, ![s].hb = t.report]
       /\ said' = [said EXCEPT ![s] = t.report.state]
    /\ Commit(H(s))
    /\ UNCHANGED <<audit, handler, sweeper>>

\* A state change that waits for the next heartbeat: mutant of RecordStateChanged.
RecordStateChangedLater(s, r) ==
    /\ Reading(s) /\ Free(NodeRow(sess[s].node))
    /\ said' = [said EXCEPT ![s] = r.state]
    /\ UNCHANGED <<nodes, sess, audit, handler, sweeper, tx>>

\* One statement; that it fails and ends the session is Disconnect.
RecordStateChanged(s, r) ==
    /\ Reading(s) /\ Free(NodeRow(sess[s].node))
    /\ nodes' = [nodes EXCEPT ![sess[s].node].state = r.state]
    /\ said' = [said EXCEPT ![s] = r.state]
    /\ UNCHANGED <<sess, audit, handler, sweeper, tx>>

\* conn.Read, a validation or the store of a state change or a safety event fails
\* and the handler returns.
Disconnect(s) ==
    /\ Reading(s)
    /\ handler' = [handler EXCEPT ![s] = "ending"]
    /\ UNCHANGED <<nodes, sess, audit, said, sweeper, tx>>

\* The deferred CloseSession.
BeginClose(s) ==
    /\ handler[s] = "ending"
    /\ Begin(H(s), "close", sess[s].node, s, NoReport, NodeRow(sess[s].node), <<SessRow(s)>>)
    /\ UNCHANGED <<nodes, sess, audit, handler, said, sweeper>>

\* A close in a state the table does not know: mutant of CloseSession.
CloseSessionUnknown(s) ==
    /\ tx[H(s)].kind = "close" /\ Unblocked(H(s))
    /\ nodes' = [nodes EXCEPT ![tx[H(s)].node].state = "OFFLINE"]
    /\ sess' = [sess EXCEPT ![s].state = IF @ = "connected" THEN "disconnected" ELSE @]
    /\ handler' = [handler EXCEPT ![s] = "gone"]
    /\ Commit(H(s))
    /\ UNCHANGED <<audit, said, sweeper>>

CloseSession(s) ==
    /\ tx[H(s)].kind = "close" /\ Unblocked(H(s))
    /\ nodes' = [nodes EXCEPT ![tx[H(s)].node].state = "OFFLINE"]
    /\ sess' = [sess EXCEPT ![s].state = IF @ = "connected" THEN "closed" ELSE @]
    /\ handler' = [handler EXCEPT ![s] = "gone"]
    /\ Commit(H(s))
    /\ UNCHANGED <<audit, said, sweeper>>

\* An error path that forgets the rollback: mutant of HandlerFails.
HandlerFailsLocked(s) ==
    /\ tx[H(s)].kind # "idle" /\ (CanFail \/ Deadlocked(H(s)))
    /\ handler' = [handler EXCEPT ![s] = IF tx[H(s)].kind = "close" THEN "gone" ELSE "ending"]
    /\ tx' = [tx EXCEPT ![H(s)] = [Idle EXCEPT !.held = tx[H(s)].held]]
    /\ UNCHANGED <<nodes, sess, audit, said, sweeper>>

\* A statement fails: the transaction is rolled back, a failed message ends the
\* session and a failed close is ignored.
HandlerFails(s) ==
    /\ tx[H(s)].kind # "idle" /\ (CanFail \/ Deadlocked(H(s)))
    /\ handler' = [handler EXCEPT ![s] = IF tx[H(s)].kind = "close" THEN "gone" ELSE "ending"]
    /\ tx' = [tx EXCEPT ![H(s)] = Idle]
    /\ UNCHANGED <<nodes, sess, audit, said, sweeper>>

-----------------------------------------------------------------------------
(* The operator API.                                                       *)

OpenedSoFar == Cardinality({s \in Sid : handler[s] # "none"})

\* recordOperatorActionTx; of created_at, taken before the transaction begins, the
\* sessions opened by then are kept.
Record(what, n, at) == audit' = audit \cup {<<what, n, at>>}

Acts(what) == /\ what \in OperatorDoes
              /\ tx[Operator].kind = "idle" /\ Cardinality(audit) < MaxActions

\* A drain that looks for the session before it locks the node: mutant of
\* BeginDrain.
BeginDrainSelecting(n) ==
    /\ Acts("drain")
    /\ \E s \in Latest(Connected(n)) :
         tx' = [tx EXCEPT ![Operator] = [Idle EXCEPT !.kind = "drain", !.node = n,
                              !.sess = OpenedSoFar, !.marked = {s}, !.second = TRUE, !.todo = <<NodeRow(n), SessRow(s)>>]]
    /\ UNCHANGED <<nodes, sess, audit, handler, said, sweeper>>

BeginDrain(n) ==
    /\ Acts("drain")
    /\ Begin(Operator, "drain", n, OpenedSoFar, NoReport, NodeRow(n), <<>>)
    /\ UNCHANGED <<nodes, sess, audit, handler, said, sweeper>>

\* DrainNode's second statement: the subquery picks the row it will lock.
DrainSelect ==
    /\ tx[Operator].kind = "drain" /\ ~tx[Operator].second
    /\ LET L == Latest(Connected(tx[Operator].node)) IN
       tx' = [tx EXCEPT ![Operator].second = TRUE,
                        ![Operator].marked = L,
                        ![Operator].todo = SetToSeq({SessRow(s) : s \in L})]
    /\ UNCHANGED <<nodes, sess, audit, handler, said, sweeper>>

DrainNode ==
    /\ tx[Operator].kind = "drain" /\ tx[Operator].second /\ Unblocked(Operator)
    /\ nodes' = [nodes EXCEPT ![tx[Operator].node].state = "DRAINING"]
    /\ sess' = [s \in Sid |-> IF s \in tx[Operator].marked THEN [sess[s] EXCEPT !.state = "draining"]
                              ELSE sess[s]]
    /\ Record("drain", tx[Operator].node, tx[Operator].sess)
    /\ Commit(Operator)
    /\ UNCHANGED <<handler, said, sweeper>>

DrainFails ==
    /\ tx[Operator].kind # "idle" /\ (CanFail \/ Deadlocked(Operator))
    /\ tx' = [tx EXCEPT ![Operator] = Idle]
    /\ UNCHANGED <<nodes, sess, audit, handler, said, sweeper>>

PauseNode(n) ==
    /\ Acts("pause") /\ Free(NodeRow(n))
    /\ nodes' = [nodes EXCEPT ![n].state = "PAUSED"]
    /\ Record("pause", n, OpenedSoFar)
    /\ UNCHANGED <<sess, handler, said, sweeper, tx>>

\* The node and, in the same transaction, its node_reputation row.
QuarantineNode(n) ==
    /\ Acts("quarantine") /\ Free(NodeRow(n))
    /\ nodes' = [nodes EXCEPT ![n].quarantined = TRUE]
    /\ Record("quarantine", n, OpenedSoFar)
    /\ UNCHANGED <<sess, handler, said, sweeper, tx>>

-----------------------------------------------------------------------------
(* The sweeper.                                                            *)

Overdue == {s \in Sid : sess[s].state = "connected" /\ ~sess[s].fresh}

\* A tick: MarkStale's common table expression finds the sessions ...
RunOnce ==
    /\ sweeper = "running" /\ tx[Sweeper].kind = "idle" /\ Overdue # {}
    /\ \E order \in SetToSeqs({SessRow(s) : s \in Overdue}) :
          tx' = [tx EXCEPT ![Sweeper] = [Idle EXCEPT !.kind = "sweep", !.todo = order]]
    /\ UNCHANGED <<nodes, sess, audit, handler, said, sweeper>>

\* ... locks them one by one, marking those that still qualify as they are once it
\* has the lock, and the outer UPDATE then locks the nodes they belong to.
SweepLock ==
    /\ tx[Sweeper].todo # <<>> /\ Unblocked(Sweeper)
    /\ LET row == Head(tx[Sweeper].todo) IN
       tx' = [tx EXCEPT ![Sweeper].held = @ \cup {row}, ![Sweeper].todo = Tail(@),
                        ![Sweeper].marked = @ \cup {s \in Overdue : row = SessRow(s)}]
    /\ UNCHANGED <<nodes, sess, audit, handler, said, sweeper>>

Swept == tx[Sweeper].kind = "sweep" /\ tx[Sweeper].todo = <<>>

MarkStaleNodes ==
    /\ Swept /\ ~tx[Sweeper].second
    /\ \E order \in SetToSeqs({NodeRow(sess[s].node) : s \in tx[Sweeper].marked}) :
          tx' = [tx EXCEPT ![Sweeper].second = TRUE, ![Sweeper].todo = order]
    /\ UNCHANGED <<nodes, sess, audit, handler, said, sweeper>>

MarkStale ==
    /\ Swept /\ tx[Sweeper].second
    /\ LET marked == tx[Sweeper].marked IN
       /\ sess' = [s \in Sid |-> IF s \in marked THEN [sess[s] EXCEPT !.state = "stale"]
                                 ELSE sess[s]]
       /\ nodes' = [n \in Node |-> IF \E s \in marked : sess[s].node = n
                                   THEN [nodes[n] EXCEPT !.state = "OFFLINE"] ELSE nodes[n]]
    /\ Commit(Sweeper)
    /\ UNCHANGED <<audit, handler, said, sweeper>>

\* Run returns the first error and nothing calls it again.
SweeperFails ==
    /\ tx[Sweeper].kind # "idle" /\ (CanFail \/ Deadlocked(Sweeper))
    /\ sweeper' = "stopped"
    /\ tx' = [tx EXCEPT ![Sweeper] = Idle]
    /\ UNCHANGED <<nodes, sess, audit, handler, said>>

-----------------------------------------------------------------------------
(* What the scheduler and the status pages read.                           *)

\* The session EligibleNodes and Availability join, with its latest heartbeat.
ConnectedSession(n) == Latest(Connected(n))

Servable(n, s) == /\ nodes[n].state = "AVAILABLE" /\ ~nodes[n].quarantined
                  /\ sess[s].fresh /\ sess[s].hb.clear

\* Candidates for an offer, each with the session it would be sent on.
EligibleNodes ==
    {<<n, s>> \in Node \X Sid : s \in ConnectedSession(n) /\ Servable(n, s) /\ sess[s].hb.hash}

\* What /v1/models counts: the hashes are not compared.
Availability == {n \in Node : \E s \in ConnectedSession(n) : Servable(n, s)}

\* The session publicModelCapacity joins: a drained one counts too.
CapacitySession(n) == Latest({s \in Opened(n) : sess[s].state \in {"connected", "draining"}})

freshNodes == {n \in Node : \E s \in CapacitySession(n) : sess[s].fresh /\ sess[s].hb.hash}
availableNodes ==
    {n \in freshNodes : \E s \in CapacitySession(n) :
        Servable(n, s) /\ sess[s].state = "connected"}

\* The availability state of the model on the public page, by its listing.
publicModelState(listing) ==
    CASE listing = "waitlist" /\ availableNodes \cup freshNodes = {} -> "waitlist"
      [] availableNodes # {} -> "available"
      [] availableNodes = {} /\ freshNodes # {} -> "limited"
      [] OTHER -> "offline"

-----------------------------------------------------------------------------
\* StaleAfter passes since the last heartbeat.
Age(s) ==
    /\ sess[s].node # None /\ sess[s].fresh
    /\ sess' = [sess EXCEPT ![s].fresh = FALSE]
    /\ UNCHANGED <<nodes, audit, handler, said, sweeper, tx>>

\* The coordinator stops with its connections and transactions, and starts.
Crash ==
    /\ CanCrash
    /\ handler' = [s \in Sid |-> IF handler[s] = "none" THEN "none" ELSE "gone"]
    /\ tx' = [p \in Proc |-> Idle]
    /\ sweeper' = "running"
    /\ UNCHANGED <<nodes, sess, audit, said>>

Init ==
    /\ nodes = [n \in Node |-> [state |-> "OFFLINE", quarantined |-> FALSE]]
    /\ sess = [s \in Sid |-> [node |-> None, state |-> "none", fresh |-> FALSE, hb |-> NoReport]]
    /\ audit = {}
    /\ handler = [s \in Sid |-> "none"]
    /\ said = [s \in Sid |-> "none"]
    /\ sweeper = "running"
    /\ tx = [p \in Proc |-> Idle]

Session(s) ==
    \/ \E n \in Node : OpenSession(s, n)
    \/ \E r \in Reports : BeginHeartbeat(s, r) \/ RecordStateChanged(s, r)
    \/ RecordHeartbeat(s)
    \/ Disconnect(s) \/ BeginClose(s) \/ CloseSession(s) \/ HandlerFails(s)
    \/ Age(s)

Operate ==
    \/ \E n \in Node : BeginDrain(n) \/ PauseNode(n) \/ QuarantineNode(n)
    \/ DrainSelect \/ DrainNode \/ DrainFails

Sweep == RunOnce \/ SweepLock \/ MarkStaleNodes \/ MarkStale \/ SweeperFails

Next ==
    \/ \E s \in Sid : Session(s)
    \/ Operate \/ Sweep \/ Crash

Spec == Init /\ [][Next]_vars

\* Transactions run to their end, Postgres breaks deadlocks, a handler that
\* returns runs its deferred calls, the ticker fires, and an open connection keeps
\* delivering heartbeats: the agent sends one every HeartbeatInterval.  Row locks are
\* granted in the order they are asked for, so no lock is starved (SF).
Fairness ==
    /\ \A s \in Sid :
         /\ SF_vars(\E r \in Reports : BeginHeartbeat(s, r))
         /\ WF_vars(RecordHeartbeat(s))
         /\ SF_vars(BeginClose(s)) /\ WF_vars(CloseSession(s))
         /\ WF_vars(Deadlocked(H(s)) /\ HandlerFails(s))
    /\ WF_vars(DrainSelect) /\ WF_vars(DrainNode)
    /\ WF_vars(Deadlocked(Operator) /\ DrainFails)
    /\ WF_vars(RunOnce) /\ SF_vars(SweepLock) /\ WF_vars(MarkStaleNodes) /\ WF_vars(MarkStale)
FairSpec == Spec /\ Fairness

-----------------------------------------------------------------------------
(* Properties.                                                             *)

\* The columns hold what their CHECK constraints allow, a handler that is idle
\* holds no locks, and no row is locked twice.
TypeOK ==
    /\ nodes \in [Node -> [state : NodeState, quarantined : BOOLEAN]]
    /\ \A s \in Sid : /\ sess[s].node \in Node \cup {None}
                      /\ sess[s].state \in SessionState
                      /\ sess[s].fresh \in BOOLEAN
                      /\ sess[s].hb \in Reports \cup {NoReport}
    /\ handler \in [Sid -> {"none", "open", "ending", "gone"}]
    /\ sweeper \in {"running", "stopped"}
    /\ \A p \in Proc : tx[p].held \subseteq Row
    /\ \A p, q \in Proc : p # q => tx[p].held \cap tx[q].held = {}

\* A session leaves "connected" once: what closed it, swept it or drained it is
\* final, although close, sweep and drain race and a drain picks its session before
\* it has the lock.
EndsOnce ==
    \A s \in Sid : sess[s].state \in {"draining", "closed", "stale"} => sess'[s].state = sess[s].state

\* The three queries that decide what a customer is told agree, although they join
\* different sessions of a node: when the public page calls the model available,
\* every node it counts is a candidate of the scheduler, and every candidate is
\* counted by /v1/models.
PublicNeverOverstates ==
    /\ publicModelState("live") = "available" =>
          \A n \in availableNodes : \E s \in Sid : <<n, s>> \in EligibleNodes
    /\ \A c \in EligibleNodes : c[1] \in Availability

\* A node is a candidate on its newest session only when the last message there
\* said AVAILABLE, whatever it and older sessions said before, and whichever of
\* them are being closed or swept.  A message of an older session that is stored
\* after the newest connected is the one exception.
CandidateSaidAvailable ==
    \A c \in EligibleNodes :
        (c[2] \in Latest(Opened(c[1])) /\ \A s \in Opened(c[1]) \ {c[2]} : said[s] = "none")
            => said[c[2]] = "AVAILABLE"

\* A node that stays connected and goes on reporting that it can work becomes a
\* candidate again, after the close of an older session marked it OFFLINE or an
\* operator paused it.
ServesAgain ==
    \A n \in Node, s \in Sid :
        <>[](sess[s].node = n /\ handler[s] = "open" /\ s \in Latest(Connected(n)))
            => []<>(<<n, s>> \in EligibleNodes)

\* Every transaction ends: waiting for row locks never lasts.
TransactionsEnd == \A p \in Proc : tx[p].kind # "idle" ~> tx[p].kind = "idle"

\* registration/pgstore.go:228: every transaction that touches both tables locks
\* the nodes row before the node_sessions row.
NodesBeforeSessions ==
    \A p \in Proc : \A i \in DOMAIN tx[p].todo :
        tx[p].todo[i][1] = "node" => \A row \in tx[p].held : row[1] # "session"

\* docs/PROTOCOL.md:72: the sweeper marks a connected session stale after 45
\* seconds without a heartbeat.
StaleIsMarked ==
    \A s \in Sid : s \in Overdue ~> s \notin Overdue

\* docs/PROTOCOL.md:72: stale or closed sessions make the node OFFLINE.
StaleIsOffline ==
    \A n \in Node : \A s \in Latest(Opened(n)) :
        sess[s].state \in {"stale", "closed"} => nodes[n].state = "OFFLINE"

\* docs/PROTOCOL.md:100: a node that is PAUSED or DRAINING gets no offers: none
\* until the node connects again.
StoppedGetsNoOffers ==
    \A a \in audit :
        (a[1] \in {"drain", "pause"} /\ a[3] = OpenedSoFar)
            => \A s \in Sid : <<a[2], s>> \notin EligibleNodes
=============================================================================
