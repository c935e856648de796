------------------------------- MODULE Ledger -------------------------------
(***************************************************************************)
(* The double-entry ledger, host credit holds and payout batches.          *)
(*                                                                         *)
(* Every operation is one Postgres transaction of a process: a coordinator *)
(* goroutine that accepts a result, an operator API handler or a run of    *)
(* admin-cli.  A transaction selects and locks its rows (Begin...), takes  *)
(* the row locks of the ledger accounts one by one in the order of its     *)
(* ensureAccount calls, and commits; it may fail at any point before the   *)
(* commit, which rolls everything back.  The operator API writes its audit *)
(* row in a second transaction.                                            *)
(*                                                                         *)
(* A hold is named by the attempt it pays for (UNIQUE (attempt_id)).       *)
(* A posted transaction is named by its type and what it refers to; its    *)
(* rows are the bag of entries with that name.  Memos, ids and timestamps  *)
(* are left out, except that a hold is or is not due.                      *)
(***************************************************************************)
EXTENDS Integers, Sequences, FiniteSets, Bags, FiniteSetsExt, SequencesExt

CONSTANTS
    Attempt,      \* attempts whose results may be accepted
    JobOf,        \* [Attempt -> job]
    NodeOf,       \* [Attempt -> node]
    Verifying,    \* the attempts that are duplicate verifications
    CustomerOf,   \* [job -> organization that is charged]
    HostOrgOf,    \* [node -> organization that owns the node]
    Prompt,       \* [Attempt -> prompt tokens]
    Completion,   \* [Attempt -> completion tokens]
    InputPrice, OutputPrice, HostPrice,  \* microdollars per million tokens
    Overhead,     \* VerificationOverheadMicrodollars of an accepted-job posting
    Batch,        \* payout batch ids
    Proc,         \* database sessions
    Poster,       \* the sessions that complete jobs
    Callers,      \* who runs accounting operations: "cli", "api"
    CanFail,      \* may a transaction fail before it commits?
    None

Job  == {JobOf[a] : a \in Attempt}
Node == {NodeOf[a] : a \in Attempt}
Org  == {HostOrgOf[n] : n \in Node}

ASSUME LedgerAssumption ==
    /\ Verifying \subseteq Attempt
    /\ IsFiniteSet(Attempt)
    /\ Completion \in [Attempt -> Int] /\ Prompt \in [Attempt -> Int]
    /\ InputPrice \in Int /\ OutputPrice \in Int /\ HostPrice \in Int
    /\ Poster \subseteq Proc
    /\ Callers \subseteq {"cli", "api"}
    /\ None \notin Batch \cup Attempt

VARIABLES
    holds,    \* host_credit_holds
    due,      \* holds whose available_at has passed
    entries,  \* ledger_entries of posted transactions
    batches,  \* payout_batches
    items,    \* payout_items: status by batch and hold
    audit,    \* operator_actions
    done,     \* what the operator API has committed (history)
    op        \* the transaction each process is in

vars == <<holds, due, entries, batches, items, audit, done, op>>

HoldState   == {"none", "pending", "available", "payout_pending", "paid", "reversed"}
BatchStatus == {"none", "draft", "exported", "paid", "void"}
ItemStatus  == {"none", "pending", "exported", "paid", "void"}
Kind == {"idle", "post", "verify", "promote", "create", "export", "confirm", "void", "audit"}

Account == {<<"customer_usage_charge", c>> : c \in {CustomerOf[j] : j \in Job}}
           \cup ({"host_pending_credit", "host_available_credit"} \X Node)
           \cup ({"platform_margin", "platform_verification_overhead",
                  "platform_payout_cash"} \X {"platform"})

Usage(j)      == <<"customer_usage_charge", CustomerOf[j]>>
Pending(n)    == <<"host_pending_credit", n>>
Available(n)  == <<"host_available_credit", n>>
Margin        == <<"platform_margin", "platform">>
Verification  == <<"platform_verification_overhead", "platform">>
Cash          == <<"platform_payout_cash", "platform">>

NoHold  == [state |-> "none", amount |-> 0, batch |-> None]
NoBatch == [status |-> "none", total |-> 0]
Idle    == [kind |-> "idle", via |-> "none", att |-> None, rows |-> <<>>, batch |-> None,
            todo |-> <<>>, held |-> {}, act |-> <<>>]

-----------------------------------------------------------------------------
(* Amounts and entries.                                                    *)

\* Rounds half up to whole microdollars.
chargeForTokens(tokens, price) ==
    IF tokens <= 0 \/ price <= 0 THEN 0
    ELSE (tokens * price + 500000) \div 1000000

hostCredit(a) == chargeForTokens(Completion[a], HostPrice)
customerCharge(a) ==
    chargeForTokens(Prompt[a], InputPrice) + chargeForTokens(Completion[a], OutputPrice)
verificationOverhead == IF Overhead < 0 THEN 0 ELSE Overhead
platformMargin(a) == customerCharge(a) - hostCredit(a) - verificationOverhead

Entry(tx, account, amount) == [tx |-> tx, account |-> account, amount |-> amount]

\* The entries a posting inserts, in order.
acceptedEntries(a) ==
    LET tx == <<"job_acceptance", JobOf[a]>> IN
    <<Entry(tx, Usage(JobOf[a]), customerCharge(a)),
      Entry(tx, Pending(NodeOf[a]), -hostCredit(a))>>
    \o (IF verificationOverhead > 0
        THEN <<Entry(tx, Verification, verificationOverhead)>> ELSE <<>>)
    \o <<Entry(tx, Margin, -platformMargin(a))>>

overheadEntries(a) ==
    LET tx == <<"verification_overhead", a>> IN
    <<Entry(tx, Verification, hostCredit(a)), Entry(tx, Pending(NodeOf[a]), -hostCredit(a))>>

releaseEntries(h) ==
    LET tx == <<"host_credit_release", h>> IN
    <<Entry(tx, Pending(NodeOf[h]), holds[h].amount),
      Entry(tx, Available(NodeOf[h]), -holds[h].amount)>>

AmountOf(rows) == FoldLeft(LAMBDA s, h : s + holds[h].amount, 0, rows)

payoutEntries(b, rows) ==
    LET tx == <<"host_payout", b>> IN
    [i \in 1..Len(rows) |-> Entry(tx, Available(NodeOf[rows[i]]), holds[rows[i]].amount)]
    \o <<Entry(tx, Cash, -AmountOf(rows))>>

\* The exact opposites of the rows of a posted transaction.
reversalEntries(tx) ==
    LET orig == {e \in BagToSet(entries) : e.tx = tx}
        opposite(e) == Entry(<<"ledger_reversal", tx>>, e.account, -e.amount)
    IN [r \in {opposite(e) : e \in orig} |->
            entries[CHOOSE e \in orig : opposite(e) = r]]

\* The table after the entries es have been inserted.
Post(es) == entries (+) [e \in ToSet(es) |-> Cardinality({i \in DOMAIN es : es[i] = e})]

SumEntries(Sel(_)) ==
    MapThenSumSet(LAMBDA e : e.amount * entries[e],
                  {e \in BagToSet(entries) : Sel(e)})
Balance(account) == SumEntries(LAMBDA e : e.account = account)
Posted(tx) == \E e \in BagToSet(entries) : e.tx = tx

-----------------------------------------------------------------------------
(* Row locks.                                                              *)

RowLocked(p, h) ==
    \E q \in Proc \ {p} : op[q].kind \in {"promote", "create"} /\ h \in ToSet(op[q].rows)
BatchLocked(p, b) ==
    \E q \in Proc \ {p} : op[q].kind \in {"export", "confirm", "void"} /\ op[q].batch = b

Begin(p, kind, via, att, rows, batch, todo) ==
    /\ op[p].kind = "idle"
    /\ op' = [op EXCEPT ![p] = [kind |-> kind, via |-> via, att |-> att, rows |-> rows,
                                batch |-> batch, todo |-> todo, held |-> {}, act |-> <<>>]]
    /\ UNCHANGED <<holds, due, entries, batches, items, audit, done>>

\* The row that the next ensureAccount call of p updates is locked by q.
WaitsFor(p, q) == p # q /\ op[p].todo # <<>> /\ Head(op[p].todo) \in op[q].held

\* INSERT ... ON CONFLICT DO UPDATE leaves the account row locked until the end.
ensureAccount(p) ==
    /\ op[p].todo # <<>>
    /\ \A q \in Proc : ~WaitsFor(p, q)
    /\ op' = [op EXCEPT ![p].held = @ \cup {Head(op[p].todo)}, ![p].todo = Tail(@)]
    /\ UNCHANGED <<holds, due, entries, batches, items, audit, done>>

\* Postgres aborts one transaction of a cycle of waiting ones.
Deadlocked(p) ==
    \E S \in SUBSET Proc : p \in S /\ \A q \in S : \E r \in S : WaitsFor(q, r)

Running(p) == op[p].kind \notin {"idle", "audit"}

\* An error path that forgets the rollback: mutant of Rollback.
RollbackKeepsLocks(p) ==
    /\ Running(p) /\ (CanFail \/ Deadlocked(p))
    /\ op' = [op EXCEPT ![p] = [Idle EXCEPT !.held = op[p].held]]
    /\ UNCHANGED <<holds, due, entries, batches, items, audit, done>>

\* defer tx.Rollback: every lock goes, nothing else changes.
Rollback(p) ==
    /\ Running(p) /\ (CanFail \/ Deadlocked(p))
    /\ op' = [op EXCEPT ![p] = Idle]
    /\ UNCHANGED <<holds, due, entries, batches, items, audit, done>>

\* What the operator API records about a finished operation.
Act(p) == <<op[p].kind, op[p].batch, op[p].rows>>

\* The end of the transaction: admin-cli prints and exits, the API goes on to
\* RecordOperatorAction.
Commit(p) ==
    IF op[p].via = "api"
    THEN /\ op' = [op EXCEPT ![p] = [Idle EXCEPT !.kind = "audit", !.act = Act(p)]]
         /\ done' = done \cup {Act(p)}
    ELSE /\ op' = [op EXCEPT ![p] = Idle]
         /\ UNCHANGED done

Ready(p, kind) == op[p].kind = kind /\ op[p].todo = <<>>

-----------------------------------------------------------------------------
(* Postings.                                                               *)

\* Inside the transaction that completes the job, or on its own.
PostAcceptedJob(p, a) ==
    /\ a \notin Verifying
    /\ Begin(p, "post", "job", a, <<>>, None,
             <<Usage(JobOf[a]), Pending(NodeOf[a]), Margin>>
             \o (IF verificationOverhead > 0 THEN <<Verification>> ELSE <<>>))

PostVerificationOverhead(p, a) ==
    /\ a \in Verifying
    /\ Begin(p, "verify", "job", a, <<>>, None, <<Verification, Pending(NodeOf[a])>>)

SumOf(es) == FoldLeft(LAMBDA s, e : s + e.amount, 0, es)

\* payout_items_one_credit_hold allows one item that is not void per hold.
OneCreditHold(h) == \A b \in Batch : items[b][h] \in {"none", "void"}

\* Without the index on posted job acceptances: mutant of Refused.
RefusedPerAttempt(p) ==
    \/ op[p].kind \in {"post", "verify"} /\ holds[op[p].att].state # "none"
    \/ op[p].kind = "post" /\ SumOf(acceptedEntries(op[p].att)) # 0
    \/ op[p].kind = "create" /\ \E h \in ToSet(op[p].rows) : ~OneCreditHold(h)

\* Constraints that end a transaction: UNIQUE (attempt_id) of the holds, the
\* index on posted job acceptances (the draft row never meets it, the update to
\* 'posted' does), the deferred trigger that sums the entries, and the index on
\* payout items.
Refused(p) ==
    \/ op[p].kind \in {"post", "verify"} /\ holds[op[p].att].state # "none"
    \/ op[p].kind = "post" /\ Posted(<<"job_acceptance", JobOf[op[p].att]>>)
    \/ op[p].kind = "post" /\ SumOf(acceptedEntries(op[p].att)) # 0
    \/ op[p].kind = "create" /\ \E h \in ToSet(op[p].rows) : ~OneCreditHold(h)

ConstraintFails(p) ==
    /\ Running(p) /\ op[p].todo = <<>> /\ Refused(p)
    /\ op' = [op EXCEPT ![p] = Idle]
    /\ UNCHANGED <<holds, due, entries, batches, items, audit, done>>

InsertHold(a) ==
    holds' = [holds EXCEPT ![a] = [state |-> "pending", amount |-> hostCredit(a), batch |-> None]]

postAcceptedJob(p) ==
    LET a == op[p].att IN
    /\ Ready(p, "post") /\ ~Refused(p)
    /\ entries' = Post(acceptedEntries(a))
    /\ InsertHold(a)
    /\ Commit(p)
    /\ UNCHANGED <<due, batches, items, audit>>

postVerificationOverhead(p) ==
    LET a == op[p].att IN
    /\ Ready(p, "verify") /\ ~Refused(p)
    /\ entries' = Post(overheadEntries(a))
    /\ InsertHold(a)
    /\ Commit(p)
    /\ UNCHANGED <<due, batches, items, audit>>

\* available_at passes.
HoldElapses(a) ==
    /\ holds[a].state = "pending" /\ a \notin due
    /\ due' = due \cup {a}
    /\ UNCHANGED <<holds, entries, batches, items, audit, done, op>>

-----------------------------------------------------------------------------
(* Credit release.                                                         *)

Releasable == {h \in Attempt : holds[h].state = "pending" /\ h \in due}

\* SELECT ... FOR UPDATE waits for rows another release has locked and skips
\* them once they are no longer pending.  Holds come in the order of available_at.
SelectReleasable(p, rows) ==
    /\ \A h \in Releasable : ~RowLocked(p, h)
    /\ rows \in SetToSeqs(Releasable)

PromoteAvailableCredits(p, via) ==
    \E rows \in SetToSeqs(Releasable) :
        /\ rows # <<>>
        /\ SelectReleasable(p, rows)
        /\ Begin(p, "promote", via, None, rows, None,
                 FlattenSeq([i \in 1..Len(rows) |->
                     <<Pending(NodeOf[rows[i]]), Available(NodeOf[rows[i]])>>]))

CommitPromote(p) ==
    /\ Ready(p, "promote")
    /\ entries' = Post(FlattenSeq([i \in 1..Len(op[p].rows) |-> releaseEntries(op[p].rows[i])]))
    /\ holds' = [h \in Attempt |->
                   IF h \in ToSet(op[p].rows) THEN [holds[h] EXCEPT !.state = "available"]
                   ELSE holds[h]]
    /\ Commit(p)
    /\ UNCHANGED <<due, batches, items, audit>>

-----------------------------------------------------------------------------
(* Payout batches.                                                         *)

\* Takes holds without credit too: mutant of Payable.
PayableWithZero(org) ==
    {h \in Attempt : holds[h].state = "available" /\ org \in {None, HostOrgOf[NodeOf[h]]}}

Payable(org) ==
    {h \in Attempt : /\ holds[h].state = "available" /\ holds[h].amount > 0
                     /\ org \in {None, HostOrgOf[NodeOf[h]]}}

\* ErrNoAvailableCredit when nothing is selected: the draft batch is rolled back.
CreatePayoutBatch(p, via, org, b) ==
    /\ batches[b].status = "none"
    /\ \A q \in Proc : op[q].kind = "create" => op[q].batch # b
    /\ Payable(org) # {}
    /\ \A h \in Payable(org) : ~RowLocked(p, h)
    /\ Begin(p, "create", via, None, SetToSeq(Payable(org)), b, <<>>)

CommitCreate(p) ==
    LET b == op[p].batch  rows == ToSet(op[p].rows) IN
    /\ Ready(p, "create") /\ ~Refused(p)
    /\ batches' = [batches EXCEPT ![b] = [status |-> "draft", total |-> AmountOf(op[p].rows)]]
    /\ items' = [items EXCEPT ![b] = [h \in Attempt |-> IF h \in rows THEN "pending" ELSE "none"]]
    /\ holds' = [h \in Attempt |->
                   IF h \in rows THEN [holds[h] EXCEPT !.state = "payout_pending", !.batch = b]
                   ELSE holds[h]]
    /\ Commit(p)
    /\ UNCHANGED <<due, entries, audit>>

\* SELECT ... FOR UPDATE of the batch row.
SelectBatch(p, kind, via, b, statuses) ==
    /\ batches[b].status \in statuses
    /\ ~BatchLocked(p, b)
    /\ Begin(p, kind, via, None, <<>>, b, <<>>)

\* The CSV of a batch: the items that are not void.
ExportRows(b) == {h \in Attempt : items[b][h] \notin {"none", "void"}}

ExportPayoutBatch(p, via, b) ==
    SelectBatch(p, "export", via, b, BatchStatus \ {"none"})

CommitExport(p) ==
    LET b == op[p].batch IN
    /\ Ready(p, "export")
    /\ IF batches[b].status = "draft"
       THEN /\ items' = [items EXCEPT ![b] = [h \in Attempt |->
                            IF @[h] = "pending" THEN "exported" ELSE @[h]]]
            /\ batches' = [batches EXCEPT ![b].status = "exported"]
       ELSE UNCHANGED <<items, batches>>
    /\ Commit(p)
    /\ UNCHANGED <<holds, due, entries, audit>>

\* Items of the batch that a confirmation pays.
Confirmable(b) == {h \in Attempt : items[b][h] = "exported"}

\* Per host, what the exported items add up to.
expected(b) ==
    [n \in Node |-> MapThenSumSet(LAMBDA h : holds[h].amount,
                                  {h \in Confirmable(b) : NodeOf[h] = n})]

\* csv gives the confirmed amount of every host.  A row with another amount, or
\* a batch that is not exported, is an error and nothing is written.  The items
\* are paid in the order of their random ids.
ConfirmPayoutBatch(p, via, b, csv) ==
    /\ batches[b].status = "exported"
    /\ ~BatchLocked(p, b)
    /\ \A n \in Node : expected(b)[n] - csv[n] = 0
    /\ \E rows \in SetToSeqs(Confirmable(b)) :
        /\ AmountOf(rows) > 0
        /\ Begin(p, "confirm", via, None, rows, b,
                 [i \in 1..Len(rows) |-> Available(NodeOf[rows[i]])] \o <<Cash>>)

CommitConfirm(p) ==
    LET b == op[p].batch IN
    /\ Ready(p, "confirm")
    /\ entries' = Post(payoutEntries(b, op[p].rows))
    /\ items' = [items EXCEPT ![b] = [h \in Attempt |->
                    IF h \in ToSet(op[p].rows) THEN "paid" ELSE @[h]]]
    /\ holds' = [h \in Attempt |->
                   IF holds[h].batch = b /\ holds[h].state = "payout_pending"
                   THEN [holds[h] EXCEPT !.state = "paid"] ELSE holds[h]]
    /\ batches' = [batches EXCEPT ![b].status = "paid"]
    /\ Commit(p)
    /\ UNCHANGED <<due, audit>>

\* A batch that is void already is returned as it is.
VoidPayoutBatch(p, b) ==
    SelectBatch(p, "void", "cli", b, {"draft", "exported", "paid"})

\* Makes the credits of a paid batch available as well: mutant of VoidHolds.
VoidHoldsReleasing(b) ==
    [h \in Attempt |-> IF holds[h].batch = b
                       THEN [holds[h] EXCEPT !.state = "available", !.batch = None]
                       ELSE holds[h]]

\* What voiding does to the holds of the batch: a paid credit is reversed, a
\* reserved one becomes available again.
VoidHolds(b) ==
    [h \in Attempt |->
        CASE holds[h].batch = b /\ batches[b].status = "paid" ->
                 [holds[h] EXCEPT !.state = "reversed"]
          [] holds[h].batch = b /\ batches[b].status # "paid" /\ holds[h].state = "payout_pending" ->
                 [holds[h] EXCEPT !.state = "available", !.batch = None]
          [] OTHER -> holds[h]]

\* Voids only the items that were not sent yet: mutant of VoidItems.
VoidPendingItems(b) == [h \in Attempt |-> IF items[b][h] = "pending" THEN "void" ELSE items[b][h]]

\* The status of the items of a voided batch.
VoidItems(b) == [h \in Attempt |-> IF items[b][h] = "none" THEN "none" ELSE "void"]

CommitVoid(p) ==
    LET b == op[p].batch IN
    /\ Ready(p, "void")
    /\ entries' = IF batches[b].status = "paid"
                  THEN entries (+) reversalEntries(<<"host_payout", b>>)
                  ELSE entries
    /\ holds' = VoidHolds(b)
    /\ items' = [items EXCEPT ![b] = VoidItems(b)]
    /\ batches' = [batches EXCEPT ![b].status = "void"]
    /\ Commit(p)
    /\ UNCHANGED <<due, audit>>

-----------------------------------------------------------------------------
(* Who calls.  admin-cli talks to the database directly and leaves no audit *)
(* row; voiding exists there only.  The operator API adds its audit row.    *)

creditsRelease(p) == PromoteAvailableCredits(p, "cli")
payoutCreate(p)   == \E b \in Batch, org \in Org \cup {None} : CreatePayoutBatch(p, "cli", org, b)
payoutExport(p)   == \E b \in Batch : ExportPayoutBatch(p, "cli", b)
\* The operator confirms with the file that was exported, or with a wrong one.
Confirmations(b)  == {expected(b), [n \in Node |-> 0]}
payoutConfirm(p)  == \E b \in Batch : \E csv \in Confirmations(b) : ConfirmPayoutBatch(p, "cli", b, csv)
payoutVoid(p)     == \E b \in Batch : VoidPayoutBatch(p, b)

PromoteCredits(p) == PromoteAvailableCredits(p, "api")
ApiCreate(p)      == \E b \in Batch, org \in Org \cup {None} : CreatePayoutBatch(p, "api", org, b)
ApiExport(p)      == \E b \in Batch : ExportPayoutBatch(p, "api", b)
ApiConfirm(p)     == \E b \in Batch : \E csv \in Confirmations(b) : ConfirmPayoutBatch(p, "api", b, csv)

RecordOperatorAction(p) ==
    /\ op[p].kind = "audit"
    /\ audit' = audit \cup {op[p].act}
    /\ op' = [op EXCEPT ![p] = Idle]
    /\ UNCHANGED <<holds, due, entries, batches, items, done>>

\* The second transaction fails, or the coordinator stops before it.
AuditFails(p) ==
    /\ op[p].kind = "audit" /\ CanFail
    /\ op' = [op EXCEPT ![p] = Idle]
    /\ UNCHANGED <<holds, due, entries, batches, items, audit, done>>

-----------------------------------------------------------------------------
(* Reports.                                                                *)

HoldsIn(states) == {h \in Attempt : holds[h].state \in states}
SumHolds(S) == MapThenSumSet(LAMBDA h : holds[h].amount, S)

\* Sums by transaction type and account type, over all time.
Reported(type, account) ==
    SumEntries(LAMBDA e : e.tx[1] = type /\ e.account[1] = account)

EconomicsReport ==
    LET revenue == Reported("job_acceptance", "customer_usage_charge")
        credits == -Reported("job_acceptance", "host_pending_credit")
        checks  == Reported("job_acceptance", "platform_verification_overhead")
                   + Reported("verification_overhead", "platform_verification_overhead")
    IN [revenue |-> revenue, credits |-> credits, verification |-> checks,
        margin |-> revenue - credits - checks]

\* Credit on a node's contribution card.
ContributionCard(n) ==
    SumHolds({h \in Attempt \ Verifying : NodeOf[h] = n /\ holds[h].state # "none"})

-----------------------------------------------------------------------------
Init ==
    /\ holds = [h \in Attempt |-> NoHold]
    /\ due = {}
    /\ entries = EmptyBag
    /\ batches = [b \in Batch |-> NoBatch]
    /\ items = [b \in Batch |-> [h \in Attempt |-> "none"]]
    /\ audit = {}
    /\ done = {}
    /\ op = [p \in Proc |-> Idle]

Start(p) ==
    \/ /\ p \in Poster
       /\ \E a \in Attempt : PostAcceptedJob(p, a) \/ PostVerificationOverhead(p, a)
    \/ /\ "cli" \in Callers
       /\ \/ creditsRelease(p) \/ payoutCreate(p) \/ payoutExport(p)
          \/ payoutConfirm(p) \/ payoutVoid(p)
    \/ /\ "api" \in Callers
       /\ PromoteCredits(p) \/ ApiCreate(p) \/ ApiExport(p) \/ ApiConfirm(p)

Finish(p) ==
    \/ ConstraintFails(p)
    \/ postAcceptedJob(p) \/ postVerificationOverhead(p) \/ CommitPromote(p)
    \/ CommitCreate(p) \/ CommitExport(p) \/ CommitConfirm(p) \/ CommitVoid(p)
    \/ RecordOperatorAction(p)

Next ==
    \/ \E a \in Attempt : HoldElapses(a)
    \/ \E p \in Proc : Start(p) \/ ensureAccount(p) \/ Rollback(p) \/ Finish(p) \/ AuditFails(p)

Spec == Init /\ [][Next]_vars

\* A transaction that can go on does, Postgres ends a deadlock, and it serves the
\* waiters of a row lock in turn.
Fairness ==
    \A p \in Proc : /\ WF_vars(Finish(p) \/ (Deadlocked(p) /\ Rollback(p)))
                    /\ SF_vars(ensureAccount(p))

-----------------------------------------------------------------------------
(* Properties.                                                             *)

\* Types of the rows and of the transactions in progress (ledger/store.go and
\* the CHECK constraints of the tables).
TypeOK ==
    /\ holds \in [Attempt -> [state: HoldState, amount: Nat, batch: Batch \cup {None}]]
    /\ due \subseteq Attempt
    /\ IsABag(entries)
    /\ batches \in [Batch -> [status: BatchStatus, total: Nat]]
    /\ items \in [Batch -> [Attempt -> ItemStatus]]
    /\ audit \subseteq done
    /\ \A p \in Proc :
        /\ op[p].kind \in Kind /\ op[p].via \in {"none", "job", "cli", "api"}
        /\ op[p].att \in Attempt \cup {None} /\ ToSet(op[p].rows) \subseteq Attempt
        /\ op[p].batch \in Batch \cup {None}
        /\ ToSet(op[p].todo) \subseteq Account /\ op[p].held \subseteq Account

\* The accounts and the holds tell the same story: a host's pending account is
\* the sum of its pending holds, its available account the sum of the holds that
\* were released and not paid (those of a voided paid batch included: the
\* reversal gives the money back to the account), and the cash account the sum
\* of the paid ones.
AccountsMatchHolds ==
    /\ \A n \in Node :
        LET of(states) == SumHolds({h \in HoldsIn(states) : NodeOf[h] = n}) IN
        /\ -Balance(Pending(n)) = of({"pending"})
        /\ -Balance(Available(n)) = of({"available", "payout_pending", "reversed"})
    /\ -Balance(Cash) = SumHolds(HoldsIn({"paid"}))

\* One accepted result per job is charged, and one release is posted per hold,
\* however many completions and releases race.
PostedOnce ==
    /\ \A j \in Job : Cardinality({a \in Attempt \ Verifying :
                           JobOf[a] = j /\ holds[a].state # "none"}) <= 1
    /\ \A e \in BagToSet(entries) :
        e.tx[1] \in {"job_acceptance", "host_credit_release"} => entries[e] = 1

\* A credit is in at most one payout batch that is not void: no host is sent the
\* same credit by two batches.
ReservedOnce ==
    \A h \in Attempt : \A b1, b2 \in Batch :
        h \in ExportRows(b1) /\ h \in ExportRows(b2) => b1 = b2

\* Hold, item and batch agree: a reserved credit has an unpaid item in the draft
\* or exported batch it names, a paid credit a paid item in a paid batch, and
\* every item that is not void belongs to a credit that names its batch.
HoldFollowsBatch ==
    \A h \in Attempt :
        LET b == holds[h].batch IN
        /\ holds[h].state = "payout_pending" =>
               b # None /\ <<batches[b].status, items[b][h]>> \in
                              {<<"draft", "pending">>, <<"exported", "exported">>}
        /\ holds[h].state = "paid" => b # None /\ batches[b].status = "paid" /\ items[b][h] = "paid"
        /\ holds[h].state = "reversed" => b # None /\ batches[b].status = "void"
        /\ \A c \in Batch : h \in ExportRows(c) =>
               c = b /\ holds[h].state \in {"payout_pending", "paid"}

\* The total written when the batch was created is still the sum of its items.
TotalMatchesItems ==
    \A b \in Batch : batches[b].status \in {"draft", "exported", "paid"} =>
        batches[b].total = SumHolds(ExportRows(b)) /\ batches[b].total > 0

\* The economics report, which sums entries, agrees with the contribution cards,
\* which sum holds, and its margin with the margin account.
ReportAgrees ==
    /\ EconomicsReport.credits = MapThenSumSet(ContributionCard, Node)
    /\ EconomicsReport.margin = -Balance(Margin)
           - Reported("verification_overhead", "platform_verification_overhead")

\* "Exported payout item contents are immutable": until the batch is voided, a
\* second export writes the same rows with the same amounts as the first.
ExportsSame ==
    \A b \in Batch : batches[b].status \in {"exported", "paid"} =>
        \/ batches'[b].status = "void"
        \/ /\ ExportRows(b)' = ExportRows(b)
           /\ \A h \in ExportRows(b) : holds'[h].amount = holds[h].amount

\* A credit only moves forward, except that voiding an unpaid batch releases it:
\* nothing turns a paid or reversed credit into one that can be paid again.
MovesForward ==
    \A h \in Attempt : holds'[h].state # holds[h].state =>
        <<holds[h].state, holds'[h].state>> \in
            {<<"none", "pending">>, <<"pending", "available">>,
             <<"available", "payout_pending">>, <<"payout_pending", "available">>,
             <<"payout_pending", "paid">>, <<"paid", "reversed">>}

\* No transaction moves a credit backwards, and none changes what was exported.
CreditLifecycle == [][MovesForward /\ ExportsSame]_vars

\* Every transaction ends, although releases and confirmations lock the accounts
\* of two hosts in opposite orders.
EveryTransactionEnds == \A p \in Proc : Running(p) ~> ~Running(p)

\* Whatever accounting runs meanwhile, the transaction that accepts a result is
\* never part of a lock cycle: a completed job is not lost to a deadlock.
PostingsNeverDeadlock ==
    \A p \in Proc : op[p].kind \in {"post", "verify"} => ~Deadlocked(p)

\* Results that race to be posted: one of a job is, once, and none of the
\* transactions that accept a result waits in a cycle.
PostingsSafe == PostedOnce /\ PostingsNeverDeadlock

\* Every sum the ledger keeps or shows is the sum of what it stands for: account
\* balances and holds, batch totals and items, the report and the cards.
SumsAgree == AccountsMatchHolds /\ TotalMatchesItems /\ ReportAgrees

\* docs/HANDOFF.md:1408 "Ledger entries balance to zero per transaction.": the
\* entries of a posting that is about to commit add up to zero.
EveryPostingBalances ==
    \A p \in Proc : Ready(p, "post") => SumOf(acceptedEntries(op[p].att)) = 0

\* docs/ARCHITECTURE.md:83: what the operator API has done to credits and
\* payouts has an operator_actions row once the handler has returned.
OperatorActionsAudited ==
    \A a \in done : a \in audit \/ \E p \in Proc : op[p].kind = "audit" /\ op[p].act = a

\* docs/DECISIONS.md:94 "Reversed holds are excluded because that credit was not
\* earned": a node's card shows no reversed credit.
CardExcludesReversed ==
    \A n \in Node : ContributionCard(n) =
        SumHolds({h \in Attempt \ Verifying : NodeOf[h] = n
                                              /\ holds[h].state \notin {"none", "reversed"}})
=============================================================================
