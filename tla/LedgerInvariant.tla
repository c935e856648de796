-------------------------- MODULE LedgerInvariant --------------------------
(***************************************************************************)
(* The inductive invariant of Ledger, and what every commit does to it.    *)
(*                                                                         *)
(* The argument is about what a transaction in progress may rely on: the   *)
(* rows it has locked are in the state in which it selected them, and no   *)
(* two transactions have locked the same row.                              *)
(***************************************************************************)
EXTENDS Ledger, TLAPS

OpFields == {"kind", "via", "att", "rows", "batch", "todo", "held", "act"}

\* The part of the types the argument needs.
Shape ==
    /\ holds \in [Attempt -> [state: HoldState, amount: Int, batch: Batch \cup {None}]]
    /\ DOMAIN batches = Batch
    /\ \A b \in Batch : DOMAIN batches[b] = {"status", "total"} /\ batches[b].status \in BatchStatus
    /\ items \in [Batch -> [Attempt -> ItemStatus]]
    /\ DOMAIN op = Proc
    /\ \A p \in Proc : DOMAIN op[p] = OpFields

\* A credit that is not in a payout names no batch.
Unbatched ==
    \A h \in Attempt : holds[h].state \in {"none", "pending", "available"} => holds[h].batch = None

\* What the transaction of p relies on.
Relies(p) ==
    /\ op[p].kind \in {"post", "verify"} => op[p].att \in Attempt
    /\ op[p].kind = "promote" =>
           \A h \in ToSet(op[p].rows) : h \in Attempt /\ holds[h].state = "pending"
    /\ op[p].kind = "create" =>
           /\ op[p].batch \in Batch /\ batches[op[p].batch].status = "none"
           /\ \A h \in ToSet(op[p].rows) : h \in Attempt /\ holds[h].state = "available"
    /\ op[p].kind \in {"export", "confirm", "void"} =>
           op[p].batch \in Batch /\ batches[op[p].batch].status # "none"
    /\ op[p].kind = "confirm" =>
           /\ batches[op[p].batch].status = "exported"
           /\ ToSet(op[p].rows) = Confirmable(op[p].batch)
    /\ op[p].kind = "void" => batches[op[p].batch].status \in {"draft", "exported", "paid"}

\* The row locks of p and q.
Apart(p, q) ==
    /\ op[p].kind \in {"promote", "create"} /\ op[q].kind \in {"promote", "create"} =>
           \A h \in ToSet(op[p].rows) : h \notin ToSet(op[q].rows)
    /\ op[p].kind = "create" /\ op[q].kind = "create" => op[p].batch # op[q].batch
    /\ op[p].kind \in {"export", "confirm", "void"} /\ op[q].kind \in {"export", "confirm", "void"} =>
           op[p].batch # op[q].batch

Locks == \A p, q \in Proc : p # q => Apart(p, q)

\* The inductive invariant.
LInv ==
    /\ Shape /\ Unbatched /\ HoldFollowsBatch /\ Locks
    /\ \A p \in Proc : Relies(p)

-----------------------------------------------------------------------------
(* Ending a transaction, and taking account locks.                         *)

\* The locks of two transactions are a matter of both.
LEMMA ApartSymmetric == \A p, q \in Proc : Apart(p, q) => Apart(q, p)
  BY DEF Apart

\* p leaves its transaction, the others stay in theirs.
Leaves(p) ==
    /\ DOMAIN op' = Proc /\ \A q \in Proc : DOMAIN op'[q] = OpFields
    /\ op'[p].kind \in {"idle", "audit"}
    /\ \A q \in Proc \ {p} : op'[q] = op[q]

\* Idle is a transaction with all its fields, and of no kind.
LEMMA IdleShape == DOMAIN Idle = OpFields /\ Idle.kind = "idle"
  BY DEF Idle, OpFields

\* A rollback, a constraint that fails and the end of an audit leave the transaction.
LEMMA BackToIdle ==
  ASSUME Shape, NEW p \in Proc, op' = [op EXCEPT ![p] = Idle]
  PROVE  Leaves(p)
  BY IdleShape DEF Shape, Leaves

\* So does Commit, for the API by way of the audit.
LEMMA CommitLeaves ==
  ASSUME Shape, NEW p \in Proc, Commit(p)
  PROVE  Leaves(p)
<1> DEFINE r == [Idle EXCEPT !.kind = "audit", !.act = Act(p)]
<1>1. DOMAIN r = OpFields /\ r.kind = "audit"
  BY IdleShape DEF OpFields
<1> HIDE DEF r
<1>2. op' = [op EXCEPT ![p] = r] \/ op' = [op EXCEPT ![p] = Idle]
  BY DEF Commit, r
<1> QED
  BY <1>1, <1>2, IdleShape, ZenonT(60) DEF Shape, Leaves

\* One that leaves holds no lock and relies on nothing.
LEMMA LeavingUnlocks ==
  ASSUME LInv, NEW p \in Proc, Leaves(p)
  PROVE  Locks' /\ Relies(p)'
<1>1. Relies(p)'
  BY DEF Leaves, Relies
<1>2. ASSUME NEW q \in Proc, NEW r \in Proc, q # r
      PROVE  Apart(q, r)'
  <2>1. CASE p \in {q, r}
    BY <2>1 DEF Leaves, Apart
  <2>2. CASE p \notin {q, r}
    <3>1. op'[q] = op[q] /\ op'[r] = op[r]
      BY <2>2 DEF Leaves
    <3>2. Apart(q, r)
      BY <1>2 DEF LInv, Locks
    <3> QED
      BY <3>1, <3>2 DEF Apart
  <2> QED
    BY <2>1, <2>2, ZenonT(60)
<1> QED
  BY <1>1, <1>2, ZenonT(60) DEF Locks

\* When no row changes, the invariant is a matter of the transaction that steps.
LEMMA RowsKept ==
  ASSUME LInv, NEW p \in Proc, UNCHANGED <<holds, batches, items>>,
         DOMAIN op' = Proc, \A q \in Proc : DOMAIN op'[q] = OpFields,
         \A q \in Proc \ {p} : op'[q] = op[q],
         Relies(p)', \A q \in Proc \ {p} : Apart(p, q)'
  PROVE  LInv'
<1>1. Shape' /\ Unbatched'
  BY ZenonT(60) DEF LInv, Shape, Unbatched
<1>2. HoldFollowsBatch'
  BY DEF LInv, HoldFollowsBatch, ExportRows
<1>3. ASSUME NEW q \in Proc
      PROVE  Relies(q)'
  <2>1. CASE q # p
    <3>1. Relies(q) /\ op'[q] = op[q]
      BY <2>1 DEF LInv
    <3> QED
      BY <3>1 DEF Relies, Confirmable
  <2> QED
    BY <2>1, ZenonT(60)
<1>4. ASSUME NEW q \in Proc, NEW r \in Proc, q # r
      PROVE  Apart(q, r)'
  <2>1. CASE p \notin {q, r}
    <3>1. Apart(q, r) /\ op'[q] = op[q] /\ op'[r] = op[r]
      BY <1>4, <2>1, ZenonT(60) DEF LInv, Locks
    <3> QED
      BY <3>1 DEF Apart
  <2>2. CASE q = p
    BY <1>4, <2>2, ZenonT(60)
  <2>3. CASE r = p
    BY <1>4, <2>3, ZenonT(60) DEF Apart
  <2> QED
    BY <2>1, <2>2, <2>3, ZenonT(60)
<1> QED
  BY <1>1, <1>2, <1>3, <1>4, ZenonT(60) DEF LInv, Locks

\* A transaction that leaves without writing (rollback, audit) keeps the invariant.
LEMMA LeavingKeeps ==
  ASSUME LInv, NEW p \in Proc, UNCHANGED <<holds, batches, items>>,
         op' = [op EXCEPT ![p] = Idle]
  PROVE  LInv'
<1>1. Leaves(p)
  BY BackToIdle, ZenonT(60) DEF LInv
<1>2. Relies(p)' /\ \A q \in Proc \ {p} : Apart(p, q)'
  BY <1>1, LeavingUnlocks, ZenonT(60) DEF Locks
<1> QED
  BY <1>1, <1>2, RowsKept, ZenonT(60) DEF Leaves

\* Taking the next account lock keeps it.
LEMMA EnsureKeeps ==
  ASSUME LInv, NEW p \in Proc, ensureAccount(p)
  PROVE  LInv'
<1>1. /\ DOMAIN op' = Proc /\ \A q \in Proc : DOMAIN op'[q] = OpFields
      /\ \A q \in Proc \ {p} : op'[q] = op[q]
      /\ op'[p].kind = op[p].kind /\ op'[p].rows = op[p].rows
      /\ op'[p].batch = op[p].batch /\ op'[p].att = op[p].att
  BY DEF ensureAccount, LInv, Shape, OpFields
<1>2. UNCHANGED <<holds, batches, items>>
  BY ZenonT(60) DEF ensureAccount
<1>3. Relies(p)'
  BY <1>1, <1>2, SMTT(60) DEF LInv, Relies, Confirmable
<1>4. \A q \in Proc \ {p} : Apart(p, q)'
  BY <1>1 DEF LInv, Locks, Apart
<1> QED
  BY <1>1, <1>2, <1>3, <1>4, RowsKept, ZenonT(60)

-----------------------------------------------------------------------------
(* Commits of postings, releases and new batches.                          *)

\* A credit is a whole number of microdollars (chargeForTokens).
LEMMA CreditIsWhole ==
  ASSUME NEW a \in Attempt
  PROVE  hostCredit(a) \in Int
<1>1. Completion[a] \in Int /\ HostPrice \in Int
  BY LedgerAssumption
<1> DEFINE n == Completion[a] * HostPrice + 500000
<1>2. n \in Int
  BY <1>1
<1> HIDE DEF n
<1>3. n \div 1000000 \in Int
  BY <1>2, SMTT(60)
<1> QED
  BY <1>3 DEF n, hostCredit, chargeForTokens

\* The step of CreditLifecycle.
Forward == MovesForward /\ ExportsSame

\* HoldFollowsBatch for one credit, item by item.
Follows(h) ==
    /\ holds[h].state = "payout_pending" =>
           /\ holds[h].batch # None
           /\ \/ batches[holds[h].batch].status = "draft" /\ items[holds[h].batch][h] = "pending"
              \/ batches[holds[h].batch].status = "exported" /\ items[holds[h].batch][h] = "exported"
    /\ holds[h].state = "paid" =>
           /\ holds[h].batch # None
           /\ batches[holds[h].batch].status = "paid" /\ items[holds[h].batch][h] = "paid"
    /\ holds[h].state = "reversed" =>
           holds[h].batch # None /\ batches[holds[h].batch].status = "void"
    /\ \A c \in Batch : items[c][h] \notin {"none", "void"} =>
           c = holds[h].batch /\ holds[h].state \in {"payout_pending", "paid"}

\* HoldFollowsBatch says this of every credit.
LEMMA FollowsEach ==
  /\ HoldFollowsBatch <=> \A h \in Attempt : Follows(h)
  /\ HoldFollowsBatch' <=> \A h \in Attempt : Follows(h)'
  BY DEF HoldFollowsBatch, Follows, ExportRows

\* The invariant after a commit, from what the commit did to the rows.
LEMMA Committed ==
  ASSUME LInv, NEW p \in Proc, Leaves(p),
         holds' \in [Attempt -> [state: HoldState, amount: Int, batch: Batch \cup {None}]],
         DOMAIN batches' = Batch,
         \A b \in Batch : DOMAIN batches'[b] = {"status", "total"} /\ batches'[b].status \in BatchStatus,
         items' \in [Batch -> [Attempt -> ItemStatus]],
         Unbatched', HoldFollowsBatch', \A q \in Proc \ {p} : Relies(q)'
  PROVE  LInv'
<1>1. Shape'
  BY DEF Shape, Leaves
<1>2. Locks' /\ Relies(p)'
  BY LeavingUnlocks, SMTT(60)
<1> QED
  BY <1>1, <1>2, SMTT(60) DEF LInv

\* Until its batch is void, the items of an exported batch stay, and so do the amounts of
\* the credits they are of.
LEMMA ExportsKept ==
  ASSUME LInv,
         \A c \in Batch : batches[c].status \in {"exported", "paid"} =>
             \/ batches'[c].status = "void"
             \/ \A h \in Attempt : items'[c][h] \in {"none", "void"} <=> items[c][h] \in {"none", "void"},
         \A h \in Attempt :
             holds[h].state \in {"payout_pending", "paid"} /\ batches'[holds[h].batch].status # "void" =>
                 holds'[h].amount = holds[h].amount
  PROVE  ExportsSame
<1> SUFFICES ASSUME NEW c \in Batch, batches[c].status \in {"exported", "paid"},
                    batches'[c].status # "void"
             PROVE  /\ ExportRows(c)' = ExportRows(c)
                    /\ \A h \in ExportRows(c) : holds'[h].amount = holds[h].amount
  BY DEF ExportsSame
<1>1. ExportRows(c)' = ExportRows(c)
  BY DEF ExportRows
<1>2. ASSUME NEW h \in ExportRows(c)
      PROVE  holds'[h].amount = holds[h].amount
  <2>1. h \in Attempt /\ c = holds[h].batch /\ holds[h].state \in {"payout_pending", "paid"}
    BY <1>2, SMTT(60) DEF LInv, HoldFollowsBatch, ExportRows
  <2> QED
    BY <2>1, SMTT(60)
<1> QED
  BY <1>1, <1>2, SMTT(60)

\* A posting inserts a pending hold (postAcceptedJob, PostVerificationOverhead).
LEMMA PostCommits ==
  ASSUME LInv, NEW p \in Proc, postAcceptedJob(p) \/ postVerificationOverhead(p)
  PROVE  LInv' /\ Forward
<1> DEFINE a == op[p].att
           n == [state |-> "pending", amount |-> hostCredit(a), batch |-> None]
<1>1. /\ op[p].kind \in {"post", "verify"} /\ holds[a].state = "none"
      /\ holds' = [holds EXCEPT ![a] = n] /\ Commit(p) /\ UNCHANGED <<batches, items>>
  BY SMTT(60) DEF postAcceptedJob, postVerificationOverhead, Ready, Refused, InsertHold
<1>2. a \in Attempt
  BY <1>1 DEF LInv, Relies
<1>3. /\ n \in [state: HoldState, amount: Int, batch: Batch \cup {None}]
      /\ n.state = "pending" /\ n.batch = None
  BY <1>2, CreditIsWhole, SMTT(60) DEF HoldState
<1> HIDE DEF n, a
<1>4. Leaves(p)
  BY <1>1, CommitLeaves, SMTT(60) DEF LInv
<1>5. /\ holds' \in [Attempt -> [state: HoldState, amount: Int, batch: Batch \cup {None}]]
      /\ holds'[a].state = "pending" /\ holds'[a].batch = None
      /\ \A h \in Attempt \ {a} : holds'[h] = holds[h]
  BY <1>1, <1>2, <1>3, SMTT(60) DEF LInv, Shape
<1>6. Unbatched'
  BY <1>5, SMTT(60) DEF LInv, Unbatched
<1>7. HoldFollowsBatch'
  <2> SUFFICES ASSUME NEW h \in Attempt
               PROVE  Follows(h)'
    BY FollowsEach, ZenonT(60)
  <2>1. Follows(h)
    BY FollowsEach, ZenonT(60) DEF LInv
  <2>2. CASE h = a
    <3>1. \A c \in Batch : items'[c][h] \in {"none", "void"}
      BY ONLY <1>1, <2>1, <2>2, SMTT(60) DEF Follows
    <3> QED
      BY ONLY <1>5, <2>2, <3>1, SMTT(60) DEF Follows
  <2>3. CASE h # a
    <3>1. holds'[h] = holds[h] /\ batches' = batches /\ items' = items
      BY <1>1, <1>5, <2>3, ZenonT(60)
    <3> QED
      BY ONLY <2>1, <3>1, SMTT(60) DEF Follows
  <2> QED
    BY <2>2, <2>3, SMTT(60)
<1>8. ASSUME NEW q \in Proc \ {p}
      PROVE  Relies(q)'
  <2>1. Relies(q) /\ op'[q] = op[q]
    BY <1>4, SMTT(60) DEF LInv, Leaves
  <2> QED
    BY <1>1, <1>2, <1>5, <2>1, SMTT(60) DEF Relies, Confirmable
<1>9. Forward
  BY <1>1, <1>5, ExportsKept, SMTT(60) DEF Forward, MovesForward
<1> QED
  BY <1>1, <1>4, <1>5, <1>6, <1>7, <1>8, <1>9, Committed, SMTT(60) DEF LInv, Shape

\* A release makes its locked holds available (PromoteAvailableCredits).
LEMMA PromoteCommits ==
  ASSUME LInv, NEW p \in Proc, CommitPromote(p)
  PROVE  LInv' /\ Forward
<1> DEFINE R == ToSet(op[p].rows)
<1>1. /\ op[p].kind = "promote" /\ Commit(p) /\ UNCHANGED <<batches, items>>
      /\ holds' = [h \in Attempt |-> IF h \in R THEN [holds[h] EXCEPT !.state = "available"]
                                     ELSE holds[h]]
  BY DEF CommitPromote, Ready
<1>2. \A h \in R : h \in Attempt /\ holds[h].state = "pending"
  BY <1>1 DEF LInv, Relies
<1>3. \A q \in Proc \ {p} : op[q].kind \in {"promote", "create"} =>
          \A h \in ToSet(op[q].rows) : h \notin R
  BY <1>1 DEF LInv, Locks, Apart
<1> HIDE DEF R
<1>4. Leaves(p)
  BY <1>1, CommitLeaves, SMTT(60) DEF LInv
<1>5. /\ holds' \in [Attempt -> [state: HoldState, amount: Int, batch: Batch \cup {None}]]
      /\ \A h \in R : holds'[h].state = "available" /\ holds'[h].batch = holds[h].batch
      /\ \A h \in Attempt \ R : holds'[h] = holds[h]
  BY <1>1, <1>2, SMTT(60) DEF LInv, Shape, HoldState
<1>6. Unbatched'
  BY <1>2, <1>5, SMTT(60) DEF LInv, Unbatched
<1>7. HoldFollowsBatch'
  <2> SUFFICES ASSUME NEW h \in Attempt
               PROVE  Follows(h)'
    BY FollowsEach, ZenonT(60)
  <2>1. Follows(h)
    BY FollowsEach, ZenonT(60) DEF LInv
  <2>2. CASE h \in R
    <3>1. \A c \in Batch : items'[c][h] \in {"none", "void"}
      BY ONLY <1>1, <1>2, <2>1, <2>2, SMTT(60) DEF Follows
    <3> QED
      BY ONLY <1>5, <2>2, <3>1, SMTT(60) DEF Follows
  <2>3. CASE h \notin R
    <3>1. holds'[h] = holds[h] /\ batches' = batches /\ items' = items
      BY <1>1, <1>5, <2>3, ZenonT(60)
    <3> QED
      BY ONLY <2>1, <3>1 DEF Follows
  <2> QED
    BY <2>2, <2>3, SMTT(60)
<1>8. ASSUME NEW q \in Proc \ {p}
      PROVE  Relies(q)'
  <2>1. Relies(q) /\ op'[q] = op[q]
    BY <1>4 DEF LInv, Leaves
  <2> QED
    BY <1>1, <1>3, <1>5, <2>1, SMTT(60) DEF Relies, Confirmable
<1>9. Forward
  BY <1>1, <1>2, <1>5, ExportsKept, SMTT(60) DEF Forward, MovesForward
<1> QED
  BY <1>1, <1>4, <1>5, <1>6, <1>7, <1>8, <1>9, Committed, SMTT(60) DEF LInv, Shape

\* A new batch reserves its locked holds (CreatePayoutBatch).
LEMMA CreateCommits ==
  ASSUME LInv, NEW p \in Proc, CommitCreate(p)
  PROVE  LInv' /\ Forward
<1>0. PICK b, R, r : /\ b = op[p].batch /\ R = ToSet(op[p].rows)
                     /\ r = [status |-> "draft", total |-> AmountOf(op[p].rows)]
  BY ZenonT(60)
<1>a. op[p].kind = "create" /\ Commit(p)
  BY ZenonT(60) DEF CommitCreate, Ready
<1>b. batches' = [batches EXCEPT ![b] = r]
  BY <1>0, ZenonT(60) DEF CommitCreate
<1>c. items' = [items EXCEPT ![b] = [h \in Attempt |-> IF h \in R THEN "pending" ELSE "none"]]
  BY <1>0, ZenonT(60) DEF CommitCreate
<1>d. holds' = [h \in Attempt |->
                  IF h \in R THEN [holds[h] EXCEPT !.state = "payout_pending", !.batch = b]
                  ELSE holds[h]]
  BY <1>0, ZenonT(60) DEF CommitCreate
<1>1. Relies(p) /\ \A q \in Proc \ {p} : Apart(p, q)
  BY ZenonT(60) DEF LInv, Locks
<1>2. /\ b \in Batch /\ batches[b].status = "none"
      /\ \A h \in R : h \in Attempt /\ holds[h].state = "available"
  BY <1>0, <1>a, <1>1, ZenonT(60) DEF Relies
<1>3. \A q \in Proc \ {p} :
          /\ op[q].kind \in {"promote", "create"} => \A h \in ToSet(op[q].rows) : h \notin R
          /\ op[q].kind = "create" => op[q].batch # b
  BY ONLY <1>0, <1>a, <1>1, SMTT(60) DEF Apart
<1>4. DOMAIN r = {"status", "total"} /\ r.status = "draft"
  BY ONLY <1>0
<1>5. Leaves(p)
  BY <1>a, CommitLeaves, ZenonT(60) DEF LInv
<1>6. /\ holds' \in [Attempt -> [state: HoldState, amount: Int, batch: Batch \cup {None}]]
      /\ \A h \in R : holds'[h].state = "payout_pending" /\ holds'[h].batch = b
      /\ \A h \in Attempt \ R : holds'[h] = holds[h]
  <2>1. holds \in [Attempt -> [state: HoldState, amount: Int, batch: Batch \cup {None}]]
    BY ZenonT(60) DEF LInv, Shape
  <2> QED
    BY ONLY <1>d, <1>2, <2>1, ZenonT(60) DEF HoldState
<1>7. /\ DOMAIN batches' = Batch
      /\ \A c \in Batch : DOMAIN batches'[c] = {"status", "total"} /\ batches'[c].status \in BatchStatus
      /\ batches'[b].status = "draft" /\ \A c \in Batch \ {b} : batches'[c] = batches[c]
  <2>1. /\ DOMAIN batches = Batch
        /\ \A c \in Batch : DOMAIN batches[c] = {"status", "total"} /\ batches[c].status \in BatchStatus
    BY ZenonT(60) DEF LInv, Shape
  <2> QED
    BY ONLY <1>b, <1>2, <1>4, <2>1, SMTT(60) DEF BatchStatus
<1>8. /\ items' \in [Batch -> [Attempt -> ItemStatus]]
      /\ \A h \in Attempt : items'[b][h] = IF h \in R THEN "pending" ELSE "none"
      /\ \A c \in Batch \ {b} : items'[c] = items[c]
  <2>1. items \in [Batch -> [Attempt -> ItemStatus]]
    BY ZenonT(60) DEF LInv, Shape
  <2> QED
    BY ONLY <1>c, <1>2, <2>1, SMTT(60) DEF ItemStatus
<1>9. Unbatched'
  BY <1>6, SMTT(60) DEF LInv, Unbatched
<1>10. HoldFollowsBatch'
  <2> SUFFICES ASSUME NEW h \in Attempt
               PROVE  Follows(h)'
    BY FollowsEach, ZenonT(60)
  <2>1. Follows(h)
    BY FollowsEach, ZenonT(60) DEF LInv
  <2>2. CASE h \in R
    <3>1. holds'[h].state = "payout_pending" /\ holds'[h].batch = b /\ items'[b][h] = "pending"
      BY ONLY <1>6, <1>8, <2>2, SMTT(60)
    <3>2. \A c \in Batch \ {b} : items'[c][h] \in {"none", "void"}
      BY ONLY <1>2, <1>8, <2>1, <2>2, SMTT(60) DEF Follows
    <3>3. b # None
      BY <1>2, LedgerAssumption, SMTT(60)
    <3> QED
      BY ONLY <1>2, <1>7, <3>1, <3>2, <3>3, SMTT(60) DEF Follows
  <2>3. CASE h \notin R
    <3>1. holds'[h] = holds[h] /\ items'[b][h] = "none"
      BY <1>6, <1>8, <2>3, SMTT(60)
    <3>2. holds[h].state \in {"payout_pending", "paid", "reversed"} =>
              holds[h].batch \in Batch \ {b}
      <4>1. holds[h].batch \in Batch \cup {None}
        BY DEF LInv, Shape
      <4> QED
        BY ONLY <1>2, <2>1, <4>1, SMTT(60) DEF Follows
    <3>3. \A c \in Batch : items'[c][h] \notin {"none", "void"} => items'[c] = items[c]
      BY ONLY <1>8, <3>1, SMTT(60)
    <3> QED
      BY ONLY <1>7, <1>8, <2>1, <3>1, <3>2, <3>3, SMTT(60) DEF Follows
  <2> QED
    BY <2>2, <2>3, SMTT(60)
<1>11. ASSUME NEW q \in Proc \ {p}
       PROVE  Relies(q)'
  <2>1. Relies(q) /\ op'[q] = op[q]
    BY <1>5 DEF LInv, Leaves
  <2>2. op[q].kind \in {"create", "export", "confirm", "void"} => op[q].batch \in Batch \ {b}
    BY <1>2, <1>3, <2>1, SMTT(60) DEF Relies
  <2>3. op[q].kind \in {"create", "export", "confirm", "void"} =>
            /\ batches'[op[q].batch] = batches[op[q].batch]
            /\ items'[op[q].batch] = items[op[q].batch]
    BY <1>7, <1>8, <2>2, SMTT(60)
  <2>4. op[q].kind \in {"promote", "create"} =>
            \A h \in ToSet(op[q].rows) : h \in Attempt => holds'[h] = holds[h]
    BY <1>3, <1>6, SMTT(60)
  <2> QED
    BY <2>1, <2>2, <2>3, <2>4, SMTT(60) DEF Relies, Confirmable
<1>12. Forward
  <2>1. ExportsSame
    BY <1>2, <1>6, <1>7, <1>8, ExportsKept, SMTT(60)
  <2> QED
    BY <1>2, <1>6, <2>1, SMTT(60) DEF Forward, MovesForward
<1> QED
  BY <1>5, <1>6, <1>7, <1>8, <1>9, <1>10, <1>11, <1>12, Committed, SMTT(60)

-----------------------------------------------------------------------------
(* Commits of exports, confirmations and voids.                            *)

\* What others rely on when p commits an operation on the batch row it has locked and
\* leaves the holds alone that are not in a payout.
LEMMA OthersRely ==
  ASSUME LInv, NEW p \in Proc, Leaves(p), op[p].kind \in {"export", "confirm", "void"},
         \A h \in Attempt : holds[h].state \in {"pending", "available"} =>
             holds'[h].state = holds[h].state,
         \A c \in Batch \ {op[p].batch} : batches'[c] = batches[c] /\ items'[c] = items[c]
  PROVE  \A q \in Proc \ {p} : Relies(q)'
<1> SUFFICES ASSUME NEW q \in Proc \ {p}
             PROVE  Relies(q)'
  OBVIOUS
<1> DEFINE b == op[p].batch
<1>1. Relies(q) /\ op'[q] = op[q]
  BY SMTT(60) DEF LInv, Leaves
<1>2. b \in Batch /\ batches[b].status # "none"
  BY SMTT(60) DEF LInv, Relies
<1>3. op[q].kind \in {"export", "confirm", "void"} => op[q].batch # b
  BY SMTT(60) DEF LInv, Locks, Apart
<1> HIDE DEF b
<1>4. op[q].kind \in {"create", "export", "confirm", "void"} => op[q].batch \in Batch \ {b}
  BY <1>1, <1>2, <1>3, SMTT(60) DEF Relies
<1>5. op[q].kind \in {"create", "export", "confirm", "void"} =>
          /\ batches'[op[q].batch] = batches[op[q].batch]
          /\ items'[op[q].batch] = items[op[q].batch]
  BY <1>4, SMTT(60) DEF b
<1> QED
  BY <1>1, <1>4, <1>5, SMTT(60) DEF Relies, Confirmable

\* The first export of a draft marks the batch and its items exported.
LEMMA ExportCommits ==
  ASSUME LInv, NEW p \in Proc, CommitExport(p)
  PROVE  LInv' /\ Forward
<1> DEFINE b == op[p].batch
<1>1. /\ op[p].kind = "export" /\ Commit(p) /\ UNCHANGED holds
      /\ IF batches[b].status = "draft"
         THEN /\ items' = [items EXCEPT ![b] = [h \in Attempt |->
                              IF @[h] = "pending" THEN "exported" ELSE @[h]]]
              /\ batches' = [batches EXCEPT ![b].status = "exported"]
         ELSE UNCHANGED <<items, batches>>
  BY SMTT(60) DEF CommitExport, Ready
<1>2. b \in Batch
  BY <1>1, SMTT(60) DEF LInv, Relies
<1>3. Leaves(p)
  BY <1>1, CommitLeaves, SMTT(60) DEF LInv
<1> HIDE DEF b
<1>4. /\ DOMAIN batches' = Batch
      /\ \A c \in Batch : DOMAIN batches'[c] = {"status", "total"} /\ batches'[c].status \in BatchStatus
      /\ batches'[b].status = IF batches[b].status = "draft" THEN "exported" ELSE batches[b].status
      /\ \A c \in Batch \ {b} : batches'[c] = batches[c]
  BY <1>1, <1>2, SMTT(60) DEF LInv, Shape, BatchStatus
<1>5. /\ items' \in [Batch -> [Attempt -> ItemStatus]]
      /\ \A h \in Attempt : items'[b][h] =
             IF batches[b].status = "draft" /\ items[b][h] = "pending" THEN "exported" ELSE items[b][h]
      /\ \A c \in Batch \ {b} : items'[c] = items[c]
  BY <1>1, <1>2, SMTT(60) DEF LInv, Shape, ItemStatus
<1>6. holds' \in [Attempt -> [state: HoldState, amount: Int, batch: Batch \cup {None}]] /\ Unbatched'
  BY <1>1 DEF LInv, Shape, Unbatched
<1>7. HoldFollowsBatch'
  <2> SUFFICES ASSUME NEW h \in Attempt
               PROVE  Follows(h)'
    BY FollowsEach
  <2>1. Follows(h) /\ holds'[h] = holds[h] /\ holds[h].batch \in Batch \cup {None}
    BY <1>1, FollowsEach, SMTT(60) DEF LInv, Shape
  <2>2. CASE holds[h].batch = b
    BY <1>2, <1>4, <1>5, <2>1, <2>2, SMTT(60) DEF Follows
  <2>3. CASE holds[h].batch # b
    BY <1>2, <1>4, <1>5, <2>1, <2>3, SMTT(60) DEF Follows
  <2> QED
    BY <2>2, <2>3, SMTT(60)
<1>8. \A q \in Proc \ {p} : Relies(q)'
  BY <1>1, <1>3, <1>4, <1>5, OthersRely, SMTT(60) DEF b
<1>9. Forward
  <2>1. ExportsSame
    BY <1>1, <1>2, <1>4, <1>5, ExportsKept, SMTT(60)
  <2> QED
    BY <1>1, <2>1, SMTT(60) DEF Forward, MovesForward
<1> QED
  BY <1>3, <1>4, <1>5, <1>6, <1>7, <1>8, <1>9, Committed, SMTT(60)

\* A confirmation pays every exported item and every reserved hold of the batch.
LEMMA ConfirmCommits ==
  ASSUME LInv, NEW p \in Proc, CommitConfirm(p)
  PROVE  LInv' /\ Forward
<1> DEFINE b == op[p].batch
           R == ToSet(op[p].rows)
<1>1. /\ op[p].kind = "confirm" /\ Commit(p)
      /\ items' = [items EXCEPT ![b] = [h \in Attempt |-> IF h \in R THEN "paid" ELSE @[h]]]
      /\ holds' = [h \in Attempt |->
                     IF holds[h].batch = b /\ holds[h].state = "payout_pending"
                     THEN [holds[h] EXCEPT !.state = "paid"] ELSE holds[h]]
      /\ batches' = [batches EXCEPT ![b].status = "paid"]
  BY SMTT(60) DEF CommitConfirm, Ready
<1>2. /\ b \in Batch /\ batches[b].status = "exported"
      /\ \A h \in Attempt : h \in R <=> items[b][h] = "exported"
  BY <1>1, SMTT(60) DEF LInv, Relies, Confirmable
<1>3. Leaves(p)
  BY <1>1, CommitLeaves, SMTT(60) DEF LInv
<1> HIDE DEF b, R
<1>4. /\ DOMAIN batches' = Batch
      /\ \A c \in Batch : DOMAIN batches'[c] = {"status", "total"} /\ batches'[c].status \in BatchStatus
      /\ batches'[b].status = "paid" /\ \A c \in Batch \ {b} : batches'[c] = batches[c]
  BY <1>1, <1>2, SMTT(60) DEF LInv, Shape, BatchStatus
<1>5. /\ items' \in [Batch -> [Attempt -> ItemStatus]]
      /\ \A h \in Attempt : items'[b][h] = IF items[b][h] = "exported" THEN "paid" ELSE items[b][h]
      /\ \A c \in Batch \ {b} : items'[c] = items[c]
  BY <1>1, <1>2, SMTT(60) DEF LInv, Shape, ItemStatus
<1>6. /\ holds' \in [Attempt -> [state: HoldState, amount: Int, batch: Batch \cup {None}]]
      /\ \A h \in Attempt : /\ holds'[h].batch = holds[h].batch
                            /\ holds'[h].amount = holds[h].amount
                            /\ holds'[h].state =
                                 IF holds[h].batch = b /\ holds[h].state = "payout_pending"
                                 THEN "paid" ELSE holds[h].state
  BY <1>1, SMTT(60) DEF LInv, Shape, HoldState
<1>7. Unbatched'
  BY <1>6, SMTT(60) DEF LInv, Unbatched
<1>8. HoldFollowsBatch'
  <2> SUFFICES ASSUME NEW h \in Attempt
               PROVE  Follows(h)'
    BY FollowsEach
  <2>1. Follows(h) /\ holds[h].batch \in Batch \cup {None}
    BY FollowsEach, SMTT(60) DEF LInv, Shape
  <2>2. CASE holds[h].batch = b
    BY <1>2, <1>4, <1>5, <1>6, <2>1, <2>2, SMTT(60) DEF Follows
  <2>3. CASE holds[h].batch # b
    BY <1>2, <1>4, <1>5, <1>6, <2>1, <2>3, SMTT(60) DEF Follows
  <2> QED
    BY <2>2, <2>3
<1>9. \A q \in Proc \ {p} : Relies(q)'
  BY <1>1, <1>3, <1>4, <1>5, <1>6, OthersRely, SMTT(60) DEF b
<1>10. Forward
  <2>1. ExportsSame
    BY <1>2, <1>4, <1>5, <1>6, ExportsKept, SMTT(60)
  <2> QED
    BY <1>6, <2>1, SMTT(60) DEF Forward, MovesForward
<1> QED
  BY <1>3, <1>4, <1>5, <1>6, <1>7, <1>8, <1>9, <1>10, Committed, SMTT(60)

\* Voiding reverses the credits of a paid batch and releases those of another.
LEMMA VoidCommits ==
  ASSUME LInv, NEW p \in Proc, CommitVoid(p)
  PROVE  LInv' /\ Forward
<1>0. PICK b : b = op[p].batch
  BY ZenonT(60)
<1>a. op[p].kind = "void" /\ Commit(p) /\ holds' = VoidHolds(b)
  BY <1>0, ZenonT(60) DEF CommitVoid, Ready
<1>b. items' = [items EXCEPT ![b] = VoidItems(b)]
  BY <1>0, ZenonT(60) DEF CommitVoid
<1>c. batches' = [batches EXCEPT ![b].status = "void"]
  BY <1>0, ZenonT(60) DEF CommitVoid
<1>d. holds \in [Attempt -> [state: HoldState, amount: Int, batch: Batch \cup {None}]]
  BY ZenonT(60) DEF LInv, Shape
<1>1. Relies(p)
  BY ZenonT(60) DEF LInv
<1>2. b \in Batch /\ batches[b].status \in {"draft", "exported", "paid"} /\ b # None
  BY <1>0, <1>a, <1>1, LedgerAssumption, SMTT(60) DEF Relies
<1>3. Leaves(p)
  BY <1>a, CommitLeaves, ZenonT(60) DEF LInv
<1>4. /\ DOMAIN batches' = Batch
      /\ \A c \in Batch : DOMAIN batches'[c] = {"status", "total"} /\ batches'[c].status \in BatchStatus
      /\ batches'[b].status = "void" /\ \A c \in Batch \ {b} : batches'[c] = batches[c]
  <2>1. /\ DOMAIN batches = Batch
        /\ \A c \in Batch : DOMAIN batches[c] = {"status", "total"} /\ batches[c].status \in BatchStatus
    BY ZenonT(60) DEF LInv, Shape
  <2> QED
    BY ONLY <1>c, <1>2, <2>1, SMTT(60) DEF BatchStatus
<1>5. /\ items' \in [Batch -> [Attempt -> ItemStatus]]
      /\ \A h \in Attempt : items'[b][h] \in {"none", "void"}
      /\ \A c \in Batch \ {b} : items'[c] = items[c]
  <2>1. items \in [Batch -> [Attempt -> ItemStatus]]
    BY ZenonT(60) DEF LInv, Shape
  <2> QED
    BY ONLY <1>b, <1>2, <2>1, SMTT(60) DEF ItemStatus, VoidItems
<1>6. \A h \in Attempt : holds[h].batch = b =>
          holds[h].state = IF batches[b].status = "paid" THEN "paid" ELSE "payout_pending"
  BY <1>2, FollowsEach, SMTT(60) DEF LInv, Follows, Unbatched, Shape, HoldState
<1>7. /\ holds' \in [Attempt -> [state: HoldState, amount: Int, batch: Batch \cup {None}]]
      /\ \A h \in Attempt : holds[h].batch # b => holds'[h] = holds[h]
      /\ \A h \in Attempt : holds[h].batch = b =>
             IF batches[b].status = "paid"
             THEN holds'[h].state = "reversed" /\ holds'[h].batch = b
             ELSE holds'[h].state = "available" /\ holds'[h].batch = None
  <2>1. \A h \in Attempt : holds[h] \in [state: HoldState, amount: Int, batch: Batch \cup {None}]
    BY ONLY <1>d
  <2>2. ASSUME NEW h \in Attempt, holds[h].batch # b
        PROVE  holds'[h] = holds[h]
    BY ONLY <1>a, <2>2, ZenonT(60) DEF VoidHolds
  <2>3. ASSUME NEW h \in Attempt, holds[h].batch = b, batches[b].status = "paid"
        PROVE  holds'[h] = [holds[h] EXCEPT !.state = "reversed"]
    BY ONLY <1>a, <2>3, SMTT(60) DEF VoidHolds
  <2>4. ASSUME NEW h \in Attempt, holds[h].batch = b, batches[b].status # "paid"
        PROVE  holds'[h] = [holds[h] EXCEPT !.state = "available", !.batch = None]
    BY ONLY <1>a, <1>6, <2>4, ZenonT(60) DEF VoidHolds
  <2>5. holds' = [h \in Attempt |-> holds'[h]]
    BY ONLY <1>a, ZenonT(60) DEF VoidHolds
  <2>6. \A h \in Attempt : holds'[h] \in [state: HoldState, amount: Int, batch: Batch \cup {None}]
    <3> TAKE h \in Attempt
    <3>1. CASE holds[h].batch # b
      BY ONLY <2>1, <2>2, <3>1, SMTT(60)
    <3>2. CASE holds[h].batch = b /\ batches[b].status = "paid"
      BY ONLY <2>1, <2>3, <3>2, ZenonT(60) DEF HoldState
    <3>3. CASE holds[h].batch = b /\ batches[b].status # "paid"
      BY ONLY <2>1, <2>4, <3>3, ZenonT(60) DEF HoldState
    <3> QED
      BY <3>1, <3>2, <3>3, SMTT(60)
  <2>7. holds' \in [Attempt -> [state: HoldState, amount: Int, batch: Batch \cup {None}]]
    BY ONLY <2>5, <2>6, SMTT(60)
  <2>8. \A h \in Attempt : holds[h].batch = b =>
            IF batches[b].status = "paid"
            THEN holds'[h].state = "reversed" /\ holds'[h].batch = b
            ELSE holds'[h].state = "available" /\ holds'[h].batch = None
    <3> TAKE h \in Attempt
    <3>1. ASSUME holds[h].batch = b, batches[b].status = "paid"
          PROVE  holds'[h].state = "reversed" /\ holds'[h].batch = b
      BY ONLY <2>1, <2>3, <3>1, ZenonT(60)
    <3>2. ASSUME holds[h].batch = b, batches[b].status # "paid"
          PROVE  holds'[h].state = "available" /\ holds'[h].batch = None
      BY ONLY <2>1, <2>4, <3>2, ZenonT(60)
    <3> QED
      BY ONLY <3>1, <3>2, SMTT(60)
  <2> QED
    BY <2>2, <2>7, <2>8, SMTT(60)
<1>8. Unbatched'
  BY <1>7 DEF LInv, Unbatched
<1>9. HoldFollowsBatch'
  <2> SUFFICES ASSUME NEW h \in Attempt
               PROVE  Follows(h)'
    BY FollowsEach
  <2>1. Follows(h) /\ holds[h].batch \in Batch \cup {None}
    BY FollowsEach DEF LInv, Shape
  <2>2. CASE holds[h].batch = b
    <3>1. \A c \in Batch : items'[c][h] \in {"none", "void"}
      BY <1>5, <2>1, <2>2, SMTT(60) DEF Follows
    <3>2. CASE batches[b].status = "paid"
      BY <1>2, <1>4, <1>7, <2>2, <3>1, <3>2, SMTT(60) DEF Follows
    <3>3. CASE batches[b].status # "paid"
      BY <1>7, <2>2, <3>1, <3>3, SMTT(60) DEF Follows
    <3> QED
      BY <3>2, <3>3, SMTT(60)
  <2>3. CASE holds[h].batch # b
    <3>1. holds'[h] = holds[h]
      BY <1>7, <2>3, SMTT(60)
    <3>2. holds[h].batch # None => /\ batches'[holds[h].batch] = batches[holds[h].batch]
                                   /\ items'[holds[h].batch] = items[holds[h].batch]
      BY <1>4, <1>5, <2>1, <2>3, SMTT(60)
    <3>3. \A c \in Batch : items'[c][h] \notin {"none", "void"} => items'[c] = items[c]
      BY <1>5, SMTT(60)
    <3> QED
      BY <2>1, <3>1, <3>2, <3>3, SMTT(60) DEF Follows
  <2> QED
    BY <2>2, <2>3, SMTT(60)
<1>10. \A q \in Proc \ {p} : Relies(q)'
  <2>1. op[p].kind \in {"export", "confirm", "void"}
    BY <1>a, ZenonT(60)
  <2>2. \A h \in Attempt : holds[h].state \in {"pending", "available"} =>
            holds'[h].state = holds[h].state
    BY <1>6, <1>7, SMTT(60)
  <2>3. \A c \in Batch \ {op[p].batch} : batches'[c] = batches[c] /\ items'[c] = items[c]
    BY <1>0, <1>4, <1>5, SMTT(60)
  <2> QED
    BY <1>3, <2>1, <2>2, <2>3, OthersRely, ZenonT(60)
<1>11. Forward
  <2>1. ExportsSame
    BY <1>4, <1>5, <1>7, ExportsKept, SMTT(60)
  <2> QED
    BY <1>6, <1>7, <2>1, SMTT(60) DEF Forward, MovesForward
<1> QED
  BY <1>3, <1>4, <1>5, <1>7, <1>8, <1>9, <1>10, <1>11, Committed, SMTT(60)

=============================================================================
