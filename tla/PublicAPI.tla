----------------------------- MODULE PublicAPI -----------------------------
(***************************************************************************)
(* The developer API in front of the job service: bearer keys and the      *)
(* per-minute limiter, Idempotency-Key records around                      *)
(* POST /v1/chat/completions, and the asynchronous jobs endpoints.         *)
(*                                                                         *)
(* The job service is used through JobContract, which JobRouting           *)
(* implements: a chat request r that gets that far asks for a job, which   *)
(* bears its name, and is told "ok" or "error".  Every statement sent to   *)
(* the database and every locked section is one step of its handler.       *)
(***************************************************************************)
EXTENDS JobContract, Integers, FiniteSets

CONSTANTS
    Async,      \* requests to POST /v1/jobs; the others, Job, are chat requests
    HeaderOf,   \* the Idempotency-Key of each chat request, or None
    BodyOf,     \* the body of each chat request
    LimitPerMinute,
    MaxMinute,  \* the clock's bound
    CanFail,    \* may storing the response fail, or the coordinator crash?
    CanExpire,  \* may an idempotency record reach its 24 hours?
    None

Request == Job \cup Async
Keys    == {HeaderOf[r] : r \in Job} \ {None}

ApiAssumption ==
    /\ Job \cap Async = {} /\ Request \cap {None, "error", "lost"} = {}
    /\ DOMAIN HeaderOf = Job /\ DOMAIN BodyOf = Job
    /\ LimitPerMinute \in Nat \ {0} /\ MaxMinute \in Nat

VARIABLES
    minute,   \* the clock, in whole minutes
    bucket,   \* the limiter's bucket of the API key
    records,  \* idempotency_records, by key
    req,      \* the handler of each request
    reply,    \* the job whose response a request was given, or "error"
    rows,     \* the rows of the asynchronous jobs
    granted,  \* requests allowed, by the minute they were counted in (history)
    late,     \* calls of Allow with a minute that was over (history)
    recent,   \* chat requests answered "ok" since their record was made (history)
    overlap   \* keys of which two requests were handled at once (history)

gate  == <<minute, bucket, granted, late>>
vars  == <<cvars, gate, records, req, reply, rows, recent, overlap>>

NewReq   == [pc |-> "new", now |-> 0, seen |-> {}]
NoRecord == [hash |-> None, job |-> None, expired |-> FALSE]
At(r, pc)  == req[r].pc = pc
Goto(r, pc) == req' = [req EXCEPT ![r].pc = pc]

\* writeJSON, writeAPIError: the handler returns.
Answer(r, answer) ==
    /\ reply' = [reply EXCEPT ![r] = answer]
    /\ Goto(r, "done")

InFlight(r) == req[r].pc \notin {"new", "done"}
SameKey(r)  == IF r \in Job /\ HeaderOf[r] # None
               THEN {q \in Job : HeaderOf[q] = HeaderOf[r]} ELSE {}

-----------------------------------------------------------------------------
(* developerOnly.                                                          *)

\* The key is looked up and the clock is read, before the limiter's lock is taken.
Arrive(r) ==
    /\ At(r, "new")
    /\ req' = [req EXCEPT ![r] = [pc |-> "limit", now |-> minute, seen |-> SameKey(r) \cap recent]]
    /\ overlap' = IF \E q \in SameKey(r) : InFlight(q) THEN overlap \cup {HeaderOf[r]} ELSE overlap
    /\ UNCHANGED <<cvars, gate, records, reply, rows, recent>>

\* One request too many: mutant of Allow.
AllowOneMore(r) ==
    /\ At(r, "limit")
    /\ LET count == IF bucket.start = req[r].now THEN bucket.count ELSE 0 IN
       IF count > LimitPerMinute
       THEN bucket' = [start |-> req[r].now, count |-> count] /\ Answer(r, "error")
            /\ UNCHANGED granted
       ELSE bucket' = [start |-> req[r].now, count |-> count + 1] /\ Goto(r, "check")
            /\ granted' = [granted EXCEPT ![req[r].now] = @ + 1] /\ UNCHANGED reply
    /\ late' = IF req[r].now < bucket.start THEN late + 1 ELSE late
    /\ UNCHANGED <<cvars, minute, records, rows, recent, overlap>>

\* RateLimiter.Allow: a bucket of another minute, earlier or later, is replaced.
Allow(r) ==
    /\ At(r, "limit")
    /\ LET count == IF bucket.start = req[r].now THEN bucket.count ELSE 0 IN
       IF count >= LimitPerMinute
       THEN bucket' = [start |-> req[r].now, count |-> count] /\ Answer(r, "error")
            /\ UNCHANGED granted
       ELSE bucket' = [start |-> req[r].now, count |-> count + 1] /\ Goto(r, "check")
            /\ granted' = [granted EXCEPT ![req[r].now] = @ + 1] /\ UNCHANGED reply
    /\ late' = IF req[r].now < bucket.start THEN late + 1 ELSE late
    /\ UNCHANGED <<cvars, minute, records, rows, recent, overlap>>

\* The body is read and decoded, the model is authorized and the request validated.
Check(r) ==
    /\ At(r, "check")
    /\ \/ Answer(r, "error")
       \/ /\ Goto(r, IF r \in Async THEN "insert" ELSE IF HeaderOf[r] = None THEN "create" ELSE "lookup")
          /\ UNCHANGED reply
    /\ UNCHANGED <<cvars, gate, records, rows, recent, overlap>>

-----------------------------------------------------------------------------
(* chatCompletionsHandler.                                                 *)

\* IdempotencyRecord finds records that have not expired.
ResolveIdempotency(r) ==
    LET record == records[HeaderOf[r]] IN
    CASE record.job = None \/ record.expired -> "miss"
      [] record.hash # BodyOf[r] -> "conflict"
      [] OTHER -> "replay"

Answered(r) == IF HeaderOf[r] # None THEN recent \cup {r} ELSE recent

Lookup(r) ==
    /\ At(r, "lookup")
    /\ CASE ResolveIdempotency(r) = "miss" -> Goto(r, "create") /\ UNCHANGED <<reply, recent>>
         [] ResolveIdempotency(r) = "conflict" -> Answer(r, "error") /\ UNCHANGED recent
         [] OTHER -> Answer(r, records[HeaderOf[r]].job) /\ recent' = Answered(r)
    /\ UNCHANGED <<cvars, gate, records, rows, overlap>>

\* CreateJob, RegisterWait and Schedule; a job that cannot be scheduled is told
\* "error" by the contract.
CreateJob(r) ==
    /\ At(r, "create")
    /\ Ask(r)
    /\ Goto(r, "wait")
    /\ UNCHANGED <<gate, records, reply, rows, recent, overlap>>

\* Any outcome is stored: mutant of Told.
ToldStoresErrors(r) ==
    /\ At(r, "wait") /\ told[r] # "none"
    /\ IF HeaderOf[r] = None THEN Answer(r, r) /\ recent' = Answered(r)
                             ELSE Goto(r, "store") /\ UNCHANGED <<reply, recent>>
    /\ UNCHANGED <<cvars, gate, records, rows, overlap>>

\* A wait that only a result ends: mutant of Told.
ToldNoTimeout(r) ==
    /\ At(r, "wait") /\ told[r] = "ok"
    /\ IF HeaderOf[r] = None THEN Answer(r, r) /\ recent' = Answered(r)
                             ELSE Goto(r, "store") /\ UNCHANGED <<reply, recent>>
    /\ UNCHANGED <<cvars, gate, records, rows, overlap>>

\* The wait ends with a result, an error or the timeout.
Told(r) ==
    /\ At(r, "wait") /\ told[r] # "none"
    /\ CASE told[r] # "ok" -> Answer(r, "error") /\ UNCHANGED recent
         [] told[r] = "ok" /\ HeaderOf[r] = None -> Answer(r, r) /\ recent' = Answered(r)
         [] OTHER -> Goto(r, "store") /\ UNCHANGED <<reply, recent>>
    /\ UNCHANGED <<cvars, gate, records, rows, overlap>>

\* INSERT ... ON CONFLICT DO UPDATE: an existing record keeps its request hash and
\* its expiry and takes the new response.
StoreIdempotencyResponse(r) ==
    /\ At(r, "store")
    /\ LET key == HeaderOf[r] IN
       \/ records' = [records EXCEPT ![key] =
                        IF @.job = None THEN [hash |-> BodyOf[r], job |-> r, expired |-> FALSE]
                                        ELSE [@ EXCEPT !.job = r]]
       \/ CanFail /\ UNCHANGED records
    /\ Goto(r, "reread")
    /\ UNCHANGED <<cvars, gate, reply, rows, recent, overlap>>

\* The response is read back, and whatever the record now holds is returned.
Reread(r) ==
    /\ At(r, "reread")
    /\ LET record == records[HeaderOf[r]] IN
       Answer(r, IF record.job # None /\ ~record.expired THEN record.job ELSE r)
    /\ recent' = Answered(r)
    /\ UNCHANGED <<cvars, gate, records, rows, overlap>>

-----------------------------------------------------------------------------
(* The asynchronous jobs.                                                  *)

\* createJobHandler inserts the row and returns it; nothing schedules the job.
CreateAsyncJob(r) ==
    /\ At(r, "insert")
    /\ rows' = [rows EXCEPT ![r] = "queued"]
    /\ Answer(r, r)
    /\ UNCHANGED <<cvars, gate, records, recent, overlap>>

CancelJob(r) ==
    /\ rows[r] = "queued"
    /\ rows' = [rows EXCEPT ![r] = "cancelled"]
    /\ UNCHANGED <<cvars, gate, records, req, reply, recent, overlap>>

-----------------------------------------------------------------------------
(* The job service, the clock and failures.                                *)

JobService ==
    /\ \E j \in Job : Charge(j) \/ Tell(j)
    /\ UNCHANGED <<gate, records, req, reply, rows, recent, overlap>>

Tick ==
    /\ minute < MaxMinute
    /\ minute' = minute + 1
    /\ UNCHANGED <<cvars, bucket, granted, late, records, req, reply, rows, recent, overlap>>

\* No request lives for a day.
Expire(k) ==
    /\ CanExpire /\ records[k].job # None /\ ~records[k].expired
    /\ \A r \in Job : HeaderOf[r] = k => ~InFlight(r)
    /\ records' = [records EXCEPT ![k].expired = TRUE]
    /\ recent' = {r \in recent : HeaderOf[r] # k}
    /\ UNCHANGED <<cvars, gate, req, reply, rows, overlap>>

\* The coordinator dies with its handlers and its buckets.
Die ==
    /\ CanFail /\ Crash
    /\ req' = [r \in Request |-> IF InFlight(r) THEN [req[r] EXCEPT !.pc = "done"] ELSE req[r]]
    /\ reply' = [r \in Request |-> IF InFlight(r) THEN "lost" ELSE reply[r]]
    /\ bucket' = [start |-> minute, count |-> 0]
    /\ granted' = [granted EXCEPT ![minute] = 0]
    /\ UNCHANGED <<minute, late, records, rows, recent, overlap>>

Init ==
    /\ CInit
    /\ minute = 0 /\ bucket = [start |-> 0, count |-> 0]
    /\ records = [k \in Keys |-> NoRecord]
    /\ req = [r \in Request |-> NewReq]
    /\ reply = [r \in Request |-> None]
    /\ rows = [r \in Async |-> "none"]
    /\ granted = [m \in 0..MaxMinute |-> 0] /\ late = 0
    /\ recent = {} /\ overlap = {}

Handler(r) ==
    \/ Allow(r) \/ Check(r)
    \/ r \in Job /\ (Lookup(r) \/ CreateJob(r) \/ Told(r)
                     \/ StoreIdempotencyResponse(r) \/ Reread(r))
    \/ r \in Async /\ CreateAsyncJob(r)

Next ==
    \/ \E r \in Request : Arrive(r) \/ Handler(r)
    \/ \E r \in Async : CancelJob(r)
    \/ JobService \/ Tick \/ Die
    \/ \E k \in Keys : Expire(k)

Spec == Init /\ [][Next]_vars

\* Handlers go on, and the contract tells every job something: CFairSpec.
Fairness ==
    /\ \A r \in Request : WF_vars(Handler(r))
    /\ \A j \in Job : WF_vars(Tell(j) /\ UNCHANGED <<gate, records, req, reply, rows, recent, overlap>>)

-----------------------------------------------------------------------------
(* Properties.                                                             *)

\* The handlers and the tables hold what they can hold, and a record is of a chat
\* request that carried its key.
TypeOK ==
    /\ \A r \in Request :
         /\ req[r].pc \in {"new", "limit", "check", "lookup", "create", "wait", "store", "reread",
                           "insert", "done"}
         /\ reply[r] \in Request \cup {None, "error", "lost"}
         /\ (reply[r] # None) <=> At(r, "done")
    /\ \A k \in Keys : records[k].job # None => HeaderOf[records[k].job] = k
    /\ bucket.start \in 0..MaxMinute /\ bucket.count \in Nat
    /\ \A r \in Async : rows[r] \in {"none", "queued", "cancelled"}

\* A request that arrives after another one with its key was answered "ok" runs no
\* job of its own, whatever else was in flight (IdempotencyRecord,
\* ResolveIdempotency, StoreIdempotencyResponse): true for the 24 hours of the
\* first record, if the response was stored.
AnsweredKeyNeverRuns == \A r \in Job : req[r].seen # {} => r \notin asked

\* One request after the other with one key: all successful answers are one
\* response, and it answers the body they have in common (chatCompletionsHandler).
SequentialSameAnswer ==
    \A q, r \in Job :
      (HeaderOf[q] = HeaderOf[r] /\ HeaderOf[q] \in Keys \ overlap
       /\ reply[q] \in Job /\ reply[r] \in Job)
      => reply[q] = reply[r] /\ BodyOf[q] = BodyOf[r]

\* Every response a caller gets, replayed or not, is that of a charged job
\* (chatCompletionsHandler stores results only): errors are not replayed.
AnswersArePaid == \A r \in Job : reply[r] \in Job => reply[r] \in paid

\* The limiter allows LimitPerMinute requests of a minute and as many again for
\* every call that reaches its lock with an earlier minute (RateLimiter.Allow reads
\* the clock before it locks).
GrantsBounded == \A m \in 0..MaxMinute : granted[m] <= LimitPerMinute * (1 + late)

\* Every request that arrives is answered (chatCompletionsHandler waits with a
\* timeout).
EveryRequestAnswered == \A r \in Request : At(r, "limit") ~> At(r, "done")

\* "Public API rate limiting is an in-memory per-key fixed one-minute window": no
\* more than the limit in one window.
WindowLimit == \A m \in 0..MaxMinute : granted[m] <= LimitPerMinute

\* "Never create two customer-visible successes for one idempotency key": all
\* successful answers of a key are one response.
OneSuccessPerKey ==
    \A q, r \in Job : (HeaderOf[q] = HeaderOf[r] /\ HeaderOf[q] # None
                       /\ reply[q] \in Job /\ reply[r] \in Job) => reply[q] = reply[r]

\* "Idempotency-Key records map a request hash to the completed job response": a
\* record's response is that of a request with its hash.
RecordMatchesHash ==
    \A k \in Keys : records[k].job # None => BodyOf[records[k].job] = records[k].hash

\* "Duplicate idempotency key returns the same result without duplicate credit": of
\* the requests of a key handled one after the other, one is charged.
OneChargePerKey ==
    \A q, r \in Job : (HeaderOf[q] = HeaderOf[r] /\ HeaderOf[q] \in Keys \ overlap
                       /\ q \in paid /\ r \in paid) => q = r

\* "Maximum wall-clock: ... 15 minutes for async": a queued asynchronous job ends.
AsyncJobEnds == \A r \in Async : rows[r] = "queued" ~> rows[r] # "queued"
=============================================================================
