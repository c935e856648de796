---------------------------- MODULE JobContract ----------------------------
(***************************************************************************)
(* What POST /v1/chat/completions promises its caller about one job, with  *)
(* nothing said of nodes, attempts, leases or retries: at most one charge, *)
(* one final answer, a successful answer only for a charged job, and an    *)
(* answer in the end.  A charge may follow an error answer (the caller     *)
(* timed out first); it is never taken back.                               *)
(***************************************************************************)
CONSTANT Job

VARIABLES
    asked,   \* the jobs submitted so far
    paid,    \* the jobs with a posted charge
    told     \* the answer of each job: "none" until there is one

cvars == <<asked, paid, told>>

CInit ==
    /\ asked = {}
    /\ paid = {}
    /\ told = [j \in Job |-> "none"]

Ask(j) ==
    /\ j \notin asked
    /\ asked' = asked \cup {j}
    /\ UNCHANGED <<paid, told>>

Charge(j) ==
    /\ j \in asked \ paid
    /\ paid' = paid \cup {j}
    /\ UNCHANGED <<asked, told>>

Tell(j) ==
    /\ j \in asked
    /\ told[j] = "none"
    /\ \/ told' = [told EXCEPT ![j] = "error"]
       \/ j \in paid /\ told' = [told EXCEPT ![j] = "ok"]
    /\ UNCHANGED <<asked, paid>>

\* The coordinator dies: callers that wait lose their connection.
Crash ==
    /\ told' = [j \in Job |-> IF j \in asked /\ told[j] = "none" THEN "lost" ELSE told[j]]
    /\ UNCHANGED <<asked, paid>>

CNext == Crash \/ \E j \in Job : Ask(j) \/ Charge(j) \/ Tell(j)

CSpec == CInit /\ [][CNext]_cvars

CFairSpec == CSpec /\ \A j \in Job : WF_cvars(Tell(j))
=============================================================================
