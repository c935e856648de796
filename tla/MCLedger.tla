------------------------------ MODULE MCLedger ------------------------------
(* An instance of Ledger for TLC.  Prices are those of the repository's    *)
(* integration tests: 1.0 per prompt token, 1.0 and 0.5 per output token.  *)
EXTENDS Ledger, TLC

CONSTANTS p1, p2
ProcSymmetry == Permutations(Proc)

\* Two results for job "j1" race to be accepted, of which "a2" has no output tokens
\* and earns nothing; "v" is a duplicate verification of the job on the other node.
Racing    == {"a1", "a2", "v"}
Jobs      == [a \in Attempt |-> "j1"]
Nodes     == [a \in Attempt |-> IF a = "a1" THEN "n1" ELSE "n2"]
Customers == [j \in {"j1"} |-> "org1"]
HostOrgs  == [n \in {"n1", "n2"} |-> IF n = "n1" THEN "o1" ELSE "o2"]
Prompts   == [a \in Attempt |-> 4]
Outputs   == [a \in Attempt |-> CASE a = "a1" -> 5 [] a = "a2" -> 0 [] OTHER -> 3]

\* The bound on what the operator API meets: while it is used, and after it has paid, the
\* result "a1" is the only one posted.  The command line meets all of them.
ApiInUse == done # {} \/ \E p \in Proc : op[p].via = "api"
ApiPaysOneJob ==
    ApiInUse => /\ \A p \in Proc : op[p].att \in {None, "a1"}
                /\ \A h \in Attempt \ {"a1"} : holds[h].state = "none"
                /\ entries = EmptyBag \/ holds["a1"].state # "none"
=============================================================================
