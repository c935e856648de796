--------------------------- MODULE LedgerTheorems ---------------------------
(***************************************************************************)
(* What is proved of Ledger for any attempts, hosts, batches and sessions: *)
(* holds, payout items and batches agree, no credit is in two payouts, a   *)
(* credit that was paid never becomes payable again, and what was exported *)
(* stays as it is.                                                         *)
(***************************************************************************)
EXTENDS LedgerInvariant, FiniteSetTheorems, FunctionTheorems

-----------------------------------------------------------------------------
(* Sequences of a finite set's elements.                                   *)

\* The rows a SELECT returns are the rows it selected, each of them (SetToSeqs).
LEMMA AllInOrder ==
  ASSUME NEW S, IsFiniteSet(S), NEW s \in SetToSeqs(S)
  PROVE  ToSet(s) = S
<1> DEFINE D == 1..Cardinality(S)
<1>1. s \in [D -> S] /\ \A i, j \in D : i # j => s[i] # s[j]
  BY DEF SetToSeqs
<1>2. s \in Injection(D, S)
  BY <1>1, Fun_IsInj, ZenonT(60)
<1>3. Cardinality(S) \in Nat
  BY FS_CardinalityType
<1>4. IsFiniteSet(D) /\ Cardinality(D) = Cardinality(S)
  BY <1>3, FS_Interval, SMTT(60)
<1>5. s \in Surjection(D, S)
  BY <1>2, <1>4, FS_Injection, ZenonT(60)
<1> QED
  BY <1>1, <1>5, ZenonT(60) DEF ToSet, Surjection

\* The same of the sequence CreatePayoutBatch works through (SetToSeq).
LEMMA SomeOrder ==
  ASSUME NEW S, IsFiniteSet(S)
  PROVE  ToSet(SetToSeq(S)) \subseteq S
<1> DEFINE D == 1..Cardinality(S)
<1>1. PICK f : f \in Bijection(D, S)
  BY FS_CardinalityType DEF ExistsBijection
<1>2. f \in [D -> S] /\ IsInjective(f)
  BY <1>1 DEF Bijection, Injection, IsInjective
<1>3. SetToSeq(S) \in [D -> S]
  BY <1>2, ZenonT(60) DEF SetToSeq
<1> QED
  BY <1>3, ZenonT(60) DEF ToSet

-----------------------------------------------------------------------------
(* Beginning a transaction.                                                *)

\* What Begin writes.
LEMMA Begun ==
  ASSUME Shape, NEW p \in Proc, NEW kind, NEW via, NEW att, NEW rows, NEW batch, NEW todo,
         Begin(p, kind, via, att, rows, batch, todo)
  PROVE  /\ DOMAIN op' = Proc /\ \A q \in Proc : DOMAIN op'[q] = OpFields
         /\ \A q \in Proc \ {p} : op'[q] = op[q]
         /\ op'[p].kind = kind /\ op'[p].rows = rows /\ op'[p].batch = batch /\ op'[p].att = att
         /\ UNCHANGED <<holds, batches, items>>
<1> DEFINE r == [kind |-> kind, via |-> via, att |-> att, rows |-> rows,
                 batch |-> batch, todo |-> todo, held |-> {}, act |-> <<>>]
<1>1. /\ DOMAIN r = OpFields
      /\ r.kind = kind /\ r.rows = rows /\ r.batch = batch /\ r.att = att
  BY DEF OpFields
<1>2. op' = [op EXCEPT ![p] = r] /\ UNCHANGED <<holds, batches, items>>
  BY DEF Begin, r
<1> HIDE DEF r
<1> QED
  BY <1>1, <1>2, ZenonT(60) DEF Shape

\* A posting begins without row locks.
LEMMA PostBegins ==
  ASSUME LInv, NEW p \in Proc, NEW a \in Attempt,
         PostAcceptedJob(p, a) \/ PostVerificationOverhead(p, a)
  PROVE  LInv'
<1>1. PICK kind, todo :
          kind \in {"post", "verify"} /\ Begin(p, kind, "job", a, <<>>, None, todo)
  BY DEF PostAcceptedJob, PostVerificationOverhead
<1>2. /\ DOMAIN op' = Proc /\ \A q \in Proc : DOMAIN op'[q] = OpFields
      /\ \A q \in Proc \ {p} : op'[q] = op[q]
      /\ op'[p].kind = kind /\ op'[p].att = a
      /\ UNCHANGED <<holds, batches, items>>
  BY <1>1, Begun, ZenonT(60) DEF LInv
<1>3. Relies(p)' /\ \A q \in Proc \ {p} : Apart(p, q)'
  BY <1>1, <1>2, ZenonT(60) DEF Relies, Apart
<1> QED
  BY <1>2, <1>3, RowsKept, ZenonT(60)

\* A release locks pending holds that nobody else has locked.
LEMMA PromoteBegins ==
  ASSUME LInv, NEW p \in Proc, NEW via, PromoteAvailableCredits(p, via)
  PROVE  LInv'
<1>1. PICK rows, todo :
          /\ rows \in SetToSeqs(Releasable)
          /\ \A h \in Releasable : ~RowLocked(p, h)
          /\ Begin(p, "promote", via, None, rows, None, todo)
  BY DEF PromoteAvailableCredits, SelectReleasable
<1>2. Releasable \subseteq Attempt /\ IsFiniteSet(Releasable)
  BY LedgerAssumption, FS_Subset, ZenonT(60) DEF Releasable
<1>3. ToSet(rows) = Releasable
  BY <1>1, <1>2, AllInOrder, ZenonT(60)
<1>4. /\ DOMAIN op' = Proc /\ \A q \in Proc : DOMAIN op'[q] = OpFields
      /\ \A q \in Proc \ {p} : op'[q] = op[q]
      /\ op'[p].kind = "promote" /\ op'[p].rows = rows
      /\ UNCHANGED <<holds, batches, items>>
  BY <1>1, Begun, ZenonT(60) DEF LInv
<1>5. Relies(p)'
  BY <1>3, <1>4, ZenonT(60) DEF Relies, Releasable
<1>6. \A q \in Proc \ {p} : Apart(p, q)'
  BY <1>1, <1>3, <1>4, ZenonT(60) DEF Apart, RowLocked
<1> QED
  BY <1>4, <1>5, <1>6, RowsKept, ZenonT(60)

\* A payout batch is made of available holds that nobody else has locked, under a new id.
LEMMA CreateBegins ==
  ASSUME LInv, NEW p \in Proc, NEW via, NEW org, NEW b \in Batch, CreatePayoutBatch(p, via, org, b)
  PROVE  LInv'
<1> DEFINE rows == SetToSeq(Payable(org))
<1>1. /\ batches[b].status = "none"
      /\ \A q \in Proc : op[q].kind = "create" => op[q].batch # b
      /\ \A h \in Payable(org) : ~RowLocked(p, h)
      /\ Begin(p, "create", via, None, rows, b, <<>>)
  BY SMTT(60) DEF CreatePayoutBatch
<1>2. Payable(org) \subseteq Attempt /\ IsFiniteSet(Payable(org))
  BY LedgerAssumption, FS_Subset, ZenonT(60) DEF Payable
<1>3. ToSet(rows) \subseteq Payable(org)
  BY <1>2, SomeOrder, ZenonT(60)
<1> HIDE DEF rows
<1>4. /\ DOMAIN op' = Proc /\ \A q \in Proc : DOMAIN op'[q] = OpFields
      /\ \A q \in Proc \ {p} : op'[q] = op[q]
      /\ op'[p].kind = "create" /\ op'[p].rows = rows /\ op'[p].batch = b
      /\ UNCHANGED <<holds, batches, items>>
  BY <1>1, Begun, SMTT(60) DEF LInv
<1>5. Relies(p)'
  BY <1>1, <1>3, <1>4, ZenonT(60) DEF Relies, Payable
<1>6. \A q \in Proc \ {p} : Apart(p, q)'
  BY <1>1, <1>3, <1>4, ZenonT(60) DEF Apart, RowLocked
<1> QED
  BY <1>4, <1>5, <1>6, RowsKept, ZenonT(60)

\* An export, a confirmation or a void locks the batch row; a confirmation takes every
\* exported item of it.
LEMMA BatchBegins ==
  ASSUME LInv, NEW p \in Proc, NEW kind \in {"export", "confirm", "void"}, NEW via, NEW rows,
         NEW b \in Batch, NEW todo, batches[b].status # "none", ~BatchLocked(p, b),
         kind = "confirm" => batches[b].status = "exported" /\ ToSet(rows) = Confirmable(b),
         kind = "void" => batches[b].status \in {"draft", "exported", "paid"},
         Begin(p, kind, via, None, rows, b, todo)
  PROVE  LInv'
<1>1. /\ DOMAIN op' = Proc /\ \A q \in Proc : DOMAIN op'[q] = OpFields
      /\ \A q \in Proc \ {p} : op'[q] = op[q]
      /\ op'[p].kind = kind /\ op'[p].rows = rows /\ op'[p].batch = b
      /\ UNCHANGED <<holds, batches, items>>
  BY Begun, SMTT(60) DEF LInv
<1>2. Relies(p)'
  BY <1>1, ZenonT(60) DEF Relies, Confirmable
<1>3. \A q \in Proc \ {p} : Apart(p, q)'
  BY <1>1, ZenonT(60) DEF Apart, BatchLocked
<1> QED
  BY <1>1, <1>2, <1>3, RowsKept, ZenonT(60)

\* ExportPayoutBatch, ConfirmPayoutBatch and VoidPayoutBatch.
LEMMA SelectBegins ==
  ASSUME LInv, NEW p \in Proc, NEW via, NEW b \in Batch,
         \/ ExportPayoutBatch(p, via, b) \/ VoidPayoutBatch(p, b)
         \/ \E csv \in Confirmations(b) : ConfirmPayoutBatch(p, via, b, csv)
  PROVE  LInv'
<1>0. batches[b].status \in BatchStatus
  BY DEF LInv, Shape
<1>1. CASE ExportPayoutBatch(p, via, b)
  <2>1. /\ batches[b].status # "none" /\ ~BatchLocked(p, b)
        /\ Begin(p, "export", via, None, <<>>, b, <<>>)
    BY <1>1, ZenonT(60) DEF ExportPayoutBatch, SelectBatch
  <2> QED
    BY <2>1, BatchBegins, ZenonT(60)
<1>2. CASE VoidPayoutBatch(p, b)
  <2>1. /\ batches[b].status \in {"draft", "exported", "paid"} /\ ~BatchLocked(p, b)
        /\ Begin(p, "void", "cli", None, <<>>, b, <<>>)
    BY <1>2, ZenonT(60) DEF VoidPayoutBatch, SelectBatch
  <2> QED
    BY <2>1, BatchBegins, ZenonT(60)
<1>3. CASE \E csv \in Confirmations(b) : ConfirmPayoutBatch(p, via, b, csv)
  <2>1. PICK rows, todo :
            /\ rows \in SetToSeqs(Confirmable(b))
            /\ batches[b].status = "exported" /\ ~BatchLocked(p, b)
            /\ Begin(p, "confirm", via, None, rows, b, todo)
    BY <1>3, ZenonT(60) DEF ConfirmPayoutBatch
  <2>2. Confirmable(b) \subseteq Attempt /\ IsFiniteSet(Confirmable(b))
    BY LedgerAssumption, FS_Subset, ZenonT(60) DEF Confirmable
  <2>3. ToSet(rows) = Confirmable(b)
    BY <2>1, <2>2, AllInOrder, ZenonT(60)
  <2> QED
    BY <2>1, <2>3, BatchBegins, ZenonT(60)
<1> QED
  BY <1>1, <1>2, <1>3, ZenonT(60)

-----------------------------------------------------------------------------
(* Theorems.                                                               *)

\* An empty ledger satisfies the invariant.
LEMMA LedgerStarts == Init => LInv
<1> SUFFICES ASSUME Init
             PROVE  LInv
  OBVIOUS
<1>1. /\ \A h \in Attempt : holds[h] = NoHold
      /\ \A b \in Batch : batches[b] = NoBatch /\ \A h \in Attempt : items[b][h] = "none"
      /\ \A p \in Proc : op[p] = Idle
  BY DEF Init
<1>2. /\ NoHold \in [state: HoldState, amount: Int, batch: Batch \cup {None}]
      /\ NoHold.state = "none" /\ NoHold.batch = None
      /\ DOMAIN NoBatch = {"status", "total"} /\ NoBatch.status = "none"
  BY DEF NoHold, NoBatch, HoldState
<1>3. Shape
  BY <1>1, <1>2, IdleShape, ZenonT(60) DEF Init, Shape, BatchStatus, ItemStatus
<1>4. Unbatched /\ Locks /\ \A p \in Proc : Relies(p)
  BY <1>1, <1>2, IdleShape, ZenonT(60) DEF Unbatched, Locks, Apart, Relies
<1>5. HoldFollowsBatch
  BY <1>1, <1>2, SMTT(60) DEF HoldFollowsBatch, ExportRows
<1> QED
  BY <1>3, <1>4, <1>5, ZenonT(60) DEF LInv

\* Every step of a transaction, and the passing of time, keeps the invariant and moves
\* credits only forward.
LEMMA LedgerSteps == LInv /\ [Next]_vars => LInv' /\ Forward
<1> SUFFICES ASSUME LInv, [Next]_vars
             PROVE  LInv' /\ Forward
  OBVIOUS
<1>0. UNCHANGED <<holds, batches, items>> => Forward
  BY ExportsKept, ZenonT(60) DEF Forward, MovesForward
<1>1. CASE UNCHANGED <<holds, batches, items, op>>
  <2>1. Shape'
    BY <1>1, ZenonT(60) DEF LInv, Shape
  <2>2. Unbatched'
    BY <1>1, ZenonT(60) DEF LInv, Unbatched
  <2>3. Locks'
    BY <1>1, ZenonT(60) DEF LInv, Locks, Apart
  <2>4. ASSUME NEW p \in Proc
        PROVE  Relies(p)'
    <3>1. Relies(p)
      BY ZenonT(60) DEF LInv
    <3> QED
      BY <1>1, <3>1, ZenonT(60) DEF Relies, Confirmable
  <2>5. HoldFollowsBatch'
    BY <1>1, ZenonT(60) DEF LInv, HoldFollowsBatch, ExportRows
  <2> QED
    BY <1>0, <1>1, <2>1, <2>2, <2>3, <2>4, <2>5, ZenonT(60) DEF LInv
<1>2. ASSUME NEW p \in Proc, Start(p)
      PROVE  LInv' /\ UNCHANGED <<holds, batches, items>>
  <2>1. UNCHANGED <<holds, batches, items>>
    BY <1>2, ZenonT(60) DEF Start, PostAcceptedJob, PostVerificationOverhead, creditsRelease,
       payoutCreate,
                payoutExport, payoutConfirm, payoutVoid, PromoteCredits, ApiCreate, ApiExport,
                ApiConfirm, PromoteAvailableCredits, CreatePayoutBatch, ExportPayoutBatch,
                ConfirmPayoutBatch, VoidPayoutBatch, SelectBatch, Begin
  <2>2. CASE \E a \in Attempt : PostAcceptedJob(p, a) \/ PostVerificationOverhead(p, a)
    BY <2>1, <2>2, PostBegins, SMTT(60)
  <2>3. CASE creditsRelease(p) \/ PromoteCredits(p)
    BY <2>1, <2>3, PromoteBegins, SMTT(60) DEF creditsRelease, PromoteCredits
  <2>4. CASE payoutCreate(p) \/ ApiCreate(p)
    BY <2>1, <2>4, CreateBegins, SMTT(60) DEF payoutCreate, ApiCreate
  <2>5. CASE payoutExport(p) \/ ApiExport(p)
    BY <2>1, <2>5, SelectBegins, SMTT(60) DEF payoutExport, ApiExport
  <2>6. CASE payoutConfirm(p) \/ ApiConfirm(p)
    BY <2>1, <2>6, SelectBegins, ZenonT(60) DEF payoutConfirm, ApiConfirm
  <2>7. CASE payoutVoid(p)
    BY <2>1, <2>7, SelectBegins, SMTT(60) DEF payoutVoid
  <2> QED
    BY <1>2, <2>2, <2>3, <2>4, <2>5, <2>6, <2>7, SMTT(60) DEF Start
<1>3. ASSUME NEW p \in Proc, Finish(p)
      PROVE  LInv' /\ Forward
  <2>1. CASE ConstraintFails(p) \/ RecordOperatorAction(p)
    BY <1>0, <2>1, LeavingKeeps, SMTT(60) DEF ConstraintFails, RecordOperatorAction
  <2>2. CASE postAcceptedJob(p) \/ postVerificationOverhead(p)
    BY <2>2, PostCommits, SMTT(60)
  <2> QED
    BY <1>3, <2>1, <2>2, PromoteCommits, CreateCommits, ExportCommits, ConfirmCommits,
       VoidCommits, SMTT(60) DEF Finish
<1>4. ASSUME NEW p \in Proc, Rollback(p) \/ AuditFails(p)
      PROVE  LInv' /\ UNCHANGED <<holds, batches, items>>
  BY <1>4, LeavingKeeps, SMTT(60) DEF Rollback, AuditFails
<1>5. ASSUME NEW p \in Proc, ensureAccount(p)
      PROVE  LInv' /\ UNCHANGED <<holds, batches, items>>
  BY <1>5, EnsureKeeps, ZenonT(60) DEF ensureAccount
<1>6. CASE \E a \in Attempt : HoldElapses(a)
  BY <1>1, <1>6, SMTT(60) DEF HoldElapses
<1> QED
  BY <1>0, <1>1, <1>2, <1>3, <1>4, <1>5, <1>6, SMTT(60) DEF Next, vars

\* Holds, items and batches agree in every reachable state, however releases, payouts,
\* confirmations, voids and failures interleave.
THEOREM HoldsFollow == Spec => []HoldFollowsBatch
<1>1. Spec => []LInv
  <2>1. LInv /\ [Next]_vars => LInv'
    BY LedgerSteps, SMTT(60)
  <2> QED
    BY LedgerStarts, <2>1, PTL DEF Spec
<1>2. LInv => HoldFollowsBatch
  BY DEF LInv
<1> QED
  BY <1>1, <1>2, PTL

\* No credit is in two payout batches that are not void: no host is paid twice for one
\* accepted result (payout_items, CreatePayoutBatch, VoidPayoutBatch).
THEOREM PaidByOneBatch == Spec => []ReservedOnce
<1>1. HoldFollowsBatch => ReservedOnce
  BY DEF HoldFollowsBatch, ReservedOnce
<1> QED
  BY <1>1, HoldsFollow, PTL

\* A credit moves forward only; a paid or reversed one never becomes payable again.
THEOREM CreditsMoveForward == Spec => CreditLifecycle
<1>1. Spec => []LInv
  <2>1. LInv /\ [Next]_vars => LInv'
    BY LedgerSteps
  <2> QED
    BY LedgerStarts, <2>1, PTL DEF Spec
<1>2. LInv /\ [Next]_vars => [Forward]_vars
  BY LedgerSteps, SMTT(60)
<1>3. Spec => [][Forward]_vars
  BY <1>1, <1>2, PTL DEF Spec
<1> QED
  BY <1>3, SMTT(60) DEF CreditLifecycle, Forward

=============================================================================
