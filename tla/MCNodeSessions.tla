-------------------------- MODULE MCNodeSessions --------------------------
(***************************************************************************)
(* NodeSessions for TLC, under fairness.  "part" picks the instance: a     *)
(* node that connects twice, or one that comes back once while the         *)
(* operator pauses and drains it and the coordinator stops.  Its reports   *)
(* always say that it is ready.                                            *)
(***************************************************************************)
EXTENDS Integers, Sequences, FiniteSets

CONSTANT None

VARIABLES part, nodes, sess, audit, handler, said, sweeper, tx

OneNode   == {"n1"}
OnlyReady == {[state |-> "AVAILABLE", clear |-> TRUE, hash |-> TRUE]}
Nothing   == {}
Stops     == {"pause", "drain"}

Reconnecting == INSTANCE NodeSessions WITH
    Node <- OneNode, MaxSessions <- 2, Reports <- OnlyReady, OperatorDoes <- Nothing,
    MaxActions <- 0, CanFail <- FALSE, CanCrash <- FALSE
Stopping == INSTANCE NodeSessions WITH
    Node <- OneNode, MaxSessions <- 2, Reports <- OnlyReady, OperatorDoes <- Stops,
    MaxActions <- 2, CanFail <- FALSE, CanCrash <- TRUE

ASSUME PartsAssumption == Reconnecting!SessionsAssumption /\ Stopping!SessionsAssumption

\* The state after a first session was opened and closed, long ago.
AfterClose ==
    /\ nodes = [n \in OneNode |-> [state |-> "OFFLINE", quarantined |-> FALSE]]
    /\ sess = [s \in {1, 2} |-> [node |-> IF s = 1 THEN "n1" ELSE None, fresh |-> FALSE,
                                 state |-> IF s = 1 THEN "closed" ELSE "none",
                                 hb |-> Stopping!NoReport]]
    /\ audit = {} /\ sweeper = "running"
    /\ handler = [s \in {1, 2} |-> IF s = 1 THEN "gone" ELSE "none"]
    /\ said = [s \in {1, 2} |-> "none"]
    /\ tx = [p \in Stopping!Proc |-> Stopping!Idle]

vars == <<part, nodes, sess, audit, handler, said, sweeper, tx>>

\* Neither fairness nor the properties depend on the constants in which the parts differ.
FairSpec ==
    /\ \/ part = "reconnecting" /\ Reconnecting!Init
       \/ part = "stopping" /\ AfterClose
    /\ [][/\ UNCHANGED part
          /\ \/ part = "reconnecting" /\ Reconnecting!Next
             \/ part = "stopping" /\ Stopping!Next]_vars
    /\ Reconnecting!Fairness

-----------------------------------------------------------------------------
(* Properties.                                                             *)

\* A node that stays connected and goes on reporting that it can work becomes a
\* candidate again (RecordHeartbeat), after the close of an older session marked it
\* OFFLINE or an operator paused it.
ServesAgain == Reconnecting!ServesAgain

\* Every transaction of the handlers, the operator and the sweeper ends: waiting for row
\* locks never lasts (MarkStale, RecordHeartbeat and CloseSession lock in two orders).
TransactionsEnd == Reconnecting!TransactionsEnd
=============================================================================
