------------------------- MODULE PublicAPITheorems -------------------------
(***************************************************************************)
(* What is proved of PublicAPI, for every set of requests, headers and     *)
(* bodies and every limit: the limiter grants no more than its limit in a  *)
(* minute, an answer is the response of a job that was charged, a request  *)
(* with the key of an answered one never runs, and requests of one key     *)
(* sent one after the other get the same answer.                           *)
(***************************************************************************)
EXTENDS PublicAPI, TLAPS

-----------------------------------------------------------------------------
(* What the handlers and the tables hold.                                  *)

Pcs == {"new", "limit", "check", "lookup", "create", "wait", "store", "reread", "insert", "done"}

\* The requests that may be at each point of their handler.
PcSound ==
    \A r \in Request :
      /\ req[r].pc \in {"lookup", "create", "wait", "store", "reread"} => r \in Job
      /\ req[r].pc \in {"lookup", "store", "reread"} => HeaderOf[r] \in Keys

ApiTypes ==
    /\ minute \in 0..MaxMinute
    /\ req \in [Request -> [pc : Pcs, now : 0..MaxMinute, seen : SUBSET Job]]
    /\ reply \in [Request -> Request \cup {None, "error", "lost"}]
    /\ records \in [Keys -> [hash : {BodyOf[r] : r \in Job} \cup {None},
                                 job : Job \cup {None}, expired : BOOLEAN]]
    /\ recent \in SUBSET Job /\ asked \in SUBSET Job /\ paid \in SUBSET Job
    /\ told \in [Job -> {"none", "ok", "error", "lost"}]
    /\ PcSound

\* A handler that goes on to its next step leaves the other handlers, and what its
\* own has read, alone.
LEMMA Moved ==
  ASSUME ApiTypes, NEW r \in Request, NEW p \in Pcs, Goto(r, p)
  PROVE  /\ req' \in [Request -> [pc : Pcs, now : 0..MaxMinute, seen : SUBSET Job]]
         /\ req'[r].pc = p /\ req'[r].now = req[r].now /\ req'[r].seen = req[r].seen
         /\ \A q \in Request : q # r => req'[q] = req[q]
<1>1. PICK h : h = [req[r] EXCEPT !.pc = p]
  BY ZenonT(60)
<1>2. req[r] \in [pc : Pcs, now : 0..MaxMinute, seen : SUBSET Job]
  BY DEF ApiTypes
<1>3. /\ h \in [pc : Pcs, now : 0..MaxMinute, seen : SUBSET Job]
      /\ h.pc = p /\ h.now = req[r].now /\ h.seen = req[r].seen
  BY <1>1, <1>2
<1>4. req' = [req EXCEPT ![r] = h]
  BY <1>1 DEF Goto
<1> QED
  BY <1>3, <1>4 DEF ApiTypes

\* An answer is the handler's last step.
LEMMA Finished ==
  ASSUME ApiTypes, NEW r \in Request,
         NEW a \in Request \cup {None, "error", "lost"}, Answer(r, a)
  PROVE  /\ Goto(r, "done")
         /\ reply' \in [Request -> Request \cup {None, "error", "lost"}]
         /\ reply'[r] = a /\ \A q \in Request : q # r => reply'[q] = reply[q]
BY DEF ApiTypes, Answer

\* What every step of a handler after Arrive does: it moves on, or it answers.
HandlerMoves(r, p) ==
    /\ Goto(r, p)
    /\ \/ p # "done" /\ reply' = reply
       \/ p = "done" /\ \E a \in Request \cup {"error"} : Answer(r, a)

\* The steps of one handler: where it comes from, where it goes to and what it changes
\* on the way.
Quietly(r, p) == HandlerMoves(r, p) /\ UNCHANGED <<asked, paid, told, minute, records, recent, overlap>>
Admits(r)   == At(r, "limit") /\ Quietly(r, "check")
Inserts(r)  == At(r, "check") /\ Quietly(r, "insert")
Refuses(r)  == Quietly(r, "done") /\ reply'[r] \notin Job
Misses(r)   == At(r, "lookup") /\ ResolveIdempotency(r) = "miss" /\ Quietly(r, "create")
Replays(r)  == /\ At(r, "lookup") /\ ResolveIdempotency(r) = "replay"
               /\ HandlerMoves(r, "done") /\ reply'[r] = records[HeaderOf[r]].job
               /\ recent' = Answered(r) /\ UNCHANGED <<asked, paid, told, minute, records, overlap>>
Creates(r)  == /\ At(r, "create") /\ HandlerMoves(r, "wait")
               /\ asked' = asked \cup {r} /\ UNCHANGED <<paid, told, minute, records, recent, overlap>>
Succeeds(r) == /\ At(r, "wait") /\ told[r] = "ok"
               /\ \/ HeaderOf[r] = None /\ Quietly(r, "done") /\ reply'[r] = r
                  \/ HeaderOf[r] \in Keys /\ Quietly(r, "store")
StoredBy(r) == IF records[HeaderOf[r]].job = None
               THEN [hash |-> BodyOf[r], job |-> r, expired |-> FALSE]
               ELSE [records[HeaderOf[r]] EXCEPT !.job = r]
Stores(r)   == /\ At(r, "store") /\ HandlerMoves(r, "reread")
               /\ \/ CanFail /\ records' = records
                  \/ records' = [records EXCEPT ![HeaderOf[r]] = StoredBy(r)]
               /\ UNCHANGED <<asked, paid, told, minute, recent, overlap>>
Rereads(r)  == /\ At(r, "reread") /\ HandlerMoves(r, "done")
               /\ reply'[r] = IF records[HeaderOf[r]].job # None /\ ~records[HeaderOf[r]].expired
                              THEN records[HeaderOf[r]].job ELSE r
               /\ recent' = Answered(r) /\ UNCHANGED <<asked, paid, told, minute, records, overlap>>

ChatStep(r) ==
    \/ At(r, "check") /\ HeaderOf[r] = None /\ Quietly(r, "create")
    \/ At(r, "check") /\ HeaderOf[r] \in Keys /\ Quietly(r, "lookup")
    \/ Misses(r) \/ Replays(r) \/ Creates(r) \/ Succeeds(r) \/ Stores(r) \/ Rereads(r)

LEMMA HandlerSteps ==
  ASSUME ApiAssumption, ApiTypes, NEW r \in Request, Handler(r)
  PROVE  \/ Admits(r) \/ Inserts(r) \/ Refuses(r)
         \/ r \in Job /\ ChatStep(r)
<1>0. r \in DOMAIN reply /\ DOMAIN reply = Request /\ "error" \notin Job /\ None \notin Job
      /\ Async \cap Job = {} /\ Job \subseteq Request
      /\ (r \in Job => (HeaderOf[r] # None <=> HeaderOf[r] \in Keys))
  BY DEF ApiTypes, ApiAssumption, Request, Keys
<1>1. ASSUME NEW a \in Request \cup {"error"}, Answer(r, a)
      PROVE  HandlerMoves(r, "done") /\ reply'[r] = a
  BY <1>0, <1>1, ZenonT(60) DEF HandlerMoves, Answer
<1>2. CASE Allow(r)
  <2>1. CASE Answer(r, "error")
    <3>1. HandlerMoves(r, "done") /\ reply'[r] = "error"
      BY <1>1, <2>1, ZenonT(60)
    <3> QED
      BY <1>0, <1>2, <3>1 DEF Allow, cvars, Refuses, Quietly
  <2>2. CASE Goto(r, "check") /\ UNCHANGED reply
    <3>1. HandlerMoves(r, "check")
      BY <2>2 DEF HandlerMoves
    <3> QED
      BY <1>2, <3>1 DEF Allow, cvars, Admits, Quietly
  <2> QED
    BY <1>2, <2>1, <2>2 DEF Allow
<1>3. CASE Check(r)
  <2>0. UNCHANGED <<asked, paid, told, minute, records, recent, overlap>>
    BY <1>3 DEF Check, cvars, gate
  <2>1. CASE Answer(r, "error")
    <3>1. HandlerMoves(r, "done") /\ reply'[r] = "error"
      BY <1>1, <2>1, ZenonT(60)
    <3> QED
      BY <1>0, <2>0, <3>1 DEF Refuses, Quietly
  <2>2. CASE Goto(r, "insert") /\ UNCHANGED reply
    BY <1>3, <2>0, <2>2 DEF Check, Inserts, Quietly, HandlerMoves
  <2>3. CASE r \in Job /\ HeaderOf[r] = None /\ Goto(r, "create") /\ UNCHANGED reply
    BY <1>3, <2>0, <2>3 DEF Check, Quietly, HandlerMoves, ChatStep
  <2>4. CASE r \in Job /\ HeaderOf[r] # None /\ Goto(r, "lookup") /\ UNCHANGED reply
    BY <1>0, <1>3, <2>0, <2>4 DEF Check, Quietly, HandlerMoves, ChatStep
  <2> QED
    BY <1>3, <2>1, <2>2, <2>3, <2>4 DEF Check, Request
<1>4. CASE r \in Job /\ Lookup(r)
  <2>0. /\ HeaderOf[r] \in Keys /\ records[HeaderOf[r]].job \in Job \cup {None}
        /\ UNCHANGED <<asked, paid, told, minute, records, overlap>>
    BY <1>4 DEF ApiTypes, PcSound, Lookup, At, cvars, gate
  <2>1. CASE ResolveIdempotency(r) = "miss"
    BY <1>4, <2>0, <2>1 DEF Lookup, Quietly, HandlerMoves, Misses, ChatStep
  <2>2. CASE ResolveIdempotency(r) = "conflict"
    <3>1. Answer(r, "error") /\ UNCHANGED recent
      BY <1>4, <2>2 DEF Lookup
    <3>2. HandlerMoves(r, "done") /\ reply'[r] = "error"
      BY <1>1, <3>1, ZenonT(60)
    <3> QED
      BY <1>0, <2>0, <3>1, <3>2 DEF Refuses, Quietly
  <2>3. CASE ResolveIdempotency(r) \notin {"miss", "conflict"}
    <3>1. ResolveIdempotency(r) = "replay" /\ records[HeaderOf[r]].job # None
      BY <2>3 DEF ResolveIdempotency
    <3>2. /\ Answer(r, records[HeaderOf[r]].job) /\ recent' = Answered(r)
          /\ At(r, "lookup")
      BY <1>4, <2>3 DEF Lookup
    <3>3. HandlerMoves(r, "done") /\ reply'[r] = records[HeaderOf[r]].job
      BY <1>0, <1>1, <2>0, <3>1, <3>2
    <3> QED
      BY <1>4, <2>0, <3>1, <3>2, <3>3 DEF Replays, ChatStep
  <2> QED
    BY <2>1, <2>2, <2>3
<1>5. CASE r \in Job /\ CreateJob(r)
  BY <1>5 DEF CreateJob, Ask, gate, Creates, HandlerMoves, ChatStep
<1>6. CASE r \in Job /\ Told(r)
  <2>0. At(r, "wait") /\ UNCHANGED <<asked, paid, told, minute, records, overlap>>
    BY <1>6 DEF Told, cvars, gate
  <2>1. CASE told[r] # "ok"
    <3>1. Answer(r, "error") /\ UNCHANGED recent
      BY <1>6, <2>1 DEF Told
    <3>2. HandlerMoves(r, "done") /\ reply'[r] = "error"
      BY <1>1, <3>1, ZenonT(60)
    <3> QED
      BY <1>0, <2>0, <3>1, <3>2 DEF Refuses, Quietly
  <2>2. CASE told[r] = "ok" /\ HeaderOf[r] = None
    <3>1. Answer(r, r) /\ UNCHANGED recent
      BY <1>6, <2>2 DEF Told, Answered
    <3>2. HandlerMoves(r, "done") /\ reply'[r] = r
      BY <1>1, <3>1
    <3> QED
      BY <1>6, <2>0, <2>2, <3>1, <3>2 DEF Succeeds, Quietly, ChatStep
  <2>3. CASE told[r] = "ok" /\ HeaderOf[r] # None
    <3>1. Goto(r, "store") /\ UNCHANGED <<reply, recent>>
      BY <1>6, <2>3 DEF Told
    <3> QED
      BY <1>0, <1>6, <2>0, <2>3, <3>1 DEF Succeeds, Quietly, HandlerMoves, ChatStep
  <2> QED
    BY <2>1, <2>2, <2>3
<1>7. CASE r \in Job /\ StoreIdempotencyResponse(r)
  <2>1. HandlerMoves(r, "reread") /\ UNCHANGED <<asked, paid, told, minute, recent, overlap>>
    BY <1>7 DEF StoreIdempotencyResponse, HandlerMoves, cvars, gate
  <2>2. At(r, "store")
    BY <1>7 DEF StoreIdempotencyResponse
  <2>3. HeaderOf[r] \in DOMAIN records
    BY <1>7, <2>2 DEF ApiTypes, PcSound, At
  <2>4. \/ CanFail /\ records' = records
        \/ records' = [records EXCEPT ![HeaderOf[r]] = StoredBy(r)]
    BY <1>7, <2>3 DEF StoreIdempotencyResponse, StoredBy
  <2> QED
    BY <1>7, <2>1, <2>2, <2>4, ZenonT(60) DEF Stores, ChatStep
<1>8. CASE r \in Job /\ Reread(r)
  <2>1. /\ HeaderOf[r] \in Keys /\ records[HeaderOf[r]].job \in Job \cup {None}
        /\ At(r, "reread") /\ recent' = Answered(r)
        /\ UNCHANGED <<asked, paid, told, minute, records, overlap>>
    BY <1>8 DEF ApiTypes, PcSound, Reread, At, cvars, gate
  <2>2. PICK a \in Job : a = IF records[HeaderOf[r]].job # None /\ ~records[HeaderOf[r]].expired
                             THEN records[HeaderOf[r]].job ELSE r
    BY <1>8, <2>1
  <2>3. Answer(r, a)
    BY <1>8, <2>2 DEF Reread
  <2>4. HandlerMoves(r, "done") /\ reply'[r] = a
    BY <1>0, <1>1, <2>3
  <2> QED
    BY <1>8, <2>1, <2>2, <2>4 DEF Rereads, ChatStep
<1>9. CASE r \in Async /\ CreateAsyncJob(r)
  <2>1. Answer(r, r) /\ UNCHANGED <<asked, paid, told, minute, records, recent, overlap>>
    BY <1>9 DEF CreateAsyncJob, cvars, gate
  <2>2. HandlerMoves(r, "done") /\ reply'[r] = r
    BY <1>1, <2>1
  <2> QED
    BY <1>0, <1>9, <2>1, <2>2 DEF Refuses, Quietly
<1> QED
  BY <1>2, <1>3, <1>4, <1>5, <1>6, <1>7, <1>8, <1>9, ZenonT(60) DEF Handler

\* What a handler's step leaves of the other handlers and answers.
LEMMA HandlerFrame ==
  ASSUME ApiTypes, NEW r \in Request, NEW p \in Pcs, HandlerMoves(r, p)
  PROVE  /\ req' \in [Request -> [pc : Pcs, now : 0..MaxMinute, seen : SUBSET Job]]
         /\ req'[r].pc = p /\ req'[r].now = req[r].now /\ req'[r].seen = req[r].seen
         /\ \A q \in Request : q # r => req'[q] = req[q] /\ reply'[q] = reply[q]
         /\ reply' \in [Request -> Request \cup {None, "error", "lost"}]
         /\ p # "done" => reply' = reply
<1>1. Goto(r, p)
  BY DEF HandlerMoves
<1>2. /\ req' \in [Request -> [pc : Pcs, now : 0..MaxMinute, seen : SUBSET Job]]
      /\ req'[r].pc = p /\ req'[r].now = req[r].now /\ req'[r].seen = req[r].seen
      /\ \A q \in Request : q # r => req'[q] = req[q]
  BY <1>1, Moved, ZenonT(60)
<1>3. CASE p # "done" /\ reply' = reply
  BY <1>2, <1>3 DEF ApiTypes
<1>4. CASE p = "done" /\ \E a \in Request \cup {"error"} : Answer(r, a)
  <2>1. PICK a \in Request \cup {"error"} : Answer(r, a)
    BY <1>4
  <2>2. a \in Request \cup {None, "error", "lost"}
    OBVIOUS
  <2>3. /\ reply' \in [Request -> Request \cup {None, "error", "lost"}]
        /\ \A q \in Request : q # r => reply'[q] = reply[q]
    BY <2>1, <2>2, Finished, ZenonT(60)
  <2> QED
    BY <1>2, <1>4, <2>3, ZenonT(60)
<1> QED
  BY <1>3, <1>4, ZenonT(60) DEF HandlerMoves

\* The stored record is one of the chat request's key.
LEMMA StoredTyped ==
  ASSUME ApiTypes, NEW r \in Job, HeaderOf[r] \in Keys
  PROVE  /\ StoredBy(r) \in [hash : {BodyOf[q] : q \in Job} \cup {None}, job : Job \cup {None},
                             expired : BOOLEAN]
         /\ StoredBy(r).job = r
         /\ StoredBy(r).expired => records[HeaderOf[r]].expired
         /\ records[HeaderOf[r]].job = None => StoredBy(r).hash = BodyOf[r]
<1>1. PICK rec : rec = records[HeaderOf[r]]
  BY ZenonT(60)
<1>2. rec \in [hash : {BodyOf[q] : q \in Job} \cup {None}, job : Job \cup {None}, expired : BOOLEAN]
  BY <1>1 DEF ApiTypes
<1>3. CASE rec.job = None
  BY <1>1, <1>3 DEF StoredBy
<1>4. CASE rec.job # None
  <2>1. StoredBy(r) = [rec EXCEPT !.job = r]
    BY <1>1, <1>4 DEF StoredBy
  <2> QED
    BY <1>1, <1>2, <1>4, <2>1
<1> QED
  BY <1>3, <1>4

\* A handler goes only where its kind of request may be.
Goes(r, p) ==
    /\ p \in Pcs /\ HandlerMoves(r, p)
    /\ p \in {"lookup", "create", "wait", "store", "reread"} => r \in Job
    /\ p \in {"lookup", "store", "reread"} => HeaderOf[r] \in Keys

\* A step of a handler keeps the types.
LEMMA HandlerTypes ==
  ASSUME ApiAssumption, ApiTypes, NEW r \in Request, Handler(r)
  PROVE  ApiTypes'
<1>0. \/ Admits(r) \/ Inserts(r) \/ Refuses(r)
      \/ r \in Job /\ ChatStep(r)
  BY HandlerSteps, ZenonT(60)
<1>1. ASSUME NEW p, Goes(r, p), UNCHANGED <<paid, told, minute>>,
             recent' \in SUBSET Job, asked' \in SUBSET Job,
             records' \in [Keys -> [hash : {BodyOf[q] : q \in Job} \cup {None},
                                        job : Job \cup {None}, expired : BOOLEAN]]
      PROVE  ApiTypes'
  <2>1. /\ req' \in [Request -> [pc : Pcs, now : 0..MaxMinute, seen : SUBSET Job]]
        /\ req'[r].pc = p /\ \A q \in Request : q # r => req'[q] = req[q]
        /\ reply' \in [Request -> Request \cup {None, "error", "lost"}]
    <3>1. p \in Pcs /\ HandlerMoves(r, p)
      BY <1>1 DEF Goes
    <3> QED
      BY <3>1, HandlerFrame, ZenonT(60)
  <2>2. PcSound'
    BY <1>1, <2>1, ZenonT(60) DEF ApiTypes, PcSound, Goes
  <2> QED
    BY <1>1, <2>1, <2>2 DEF ApiTypes
<1>2. ASSUME NEW p, Quietly(r, p), Goes(r, p) PROVE ApiTypes'
  <2>1. /\ UNCHANGED <<paid, told, minute>> /\ recent' \in SUBSET Job /\ asked' \in SUBSET Job
        /\ records' \in [Keys -> [hash : {BodyOf[q] : q \in Job} \cup {None},
                                      job : Job \cup {None}, expired : BOOLEAN]]
    BY <1>2 DEF Quietly, ApiTypes
  <2> QED
    BY <1>1, <1>2, <2>1, ZenonT(60)
<1>3. CASE Quietly(r, "check")
  <2>1. Goes(r, "check")
    BY <1>3 DEF Quietly, Goes, Pcs
  <2> QED
    BY <1>2, <1>3, <2>1
<1>4. CASE Quietly(r, "insert")
  <2>1. Goes(r, "insert")
    BY <1>4 DEF Quietly, Goes, Pcs
  <2> QED
    BY <1>2, <1>4, <2>1
<1>5. CASE Quietly(r, "done")
  <2>1. Goes(r, "done")
    BY <1>5 DEF Quietly, Goes, Pcs
  <2> QED
    BY <1>2, <1>5, <2>1
<1>6. CASE r \in Job /\ Quietly(r, "create")
  <2>1. Goes(r, "create")
    BY <1>6 DEF Quietly, Goes, Pcs
  <2> QED
    BY <1>2, <1>6, <2>1
<1>7. CASE r \in Job /\ HeaderOf[r] \in Keys /\ Quietly(r, "lookup")
  <2>1. Goes(r, "lookup")
    BY <1>7 DEF Quietly, Goes, Pcs
  <2> QED
    BY <1>2, <1>7, <2>1
<1>8. CASE r \in Job /\ HeaderOf[r] \in Keys /\ Quietly(r, "store")
  <2>1. Goes(r, "store")
    BY <1>8 DEF Quietly, Goes, Pcs
  <2> QED
    BY <1>2, <1>8, <2>1
<1>9. CASE r \in Job /\ (Replays(r) \/ Rereads(r))
  <2>1. Goes(r, "done") /\ UNCHANGED <<asked, paid, told, minute, records>> /\ recent' = Answered(r)
    BY <1>9 DEF Replays, Rereads, Goes, Pcs
  <2>2. recent' \in SUBSET Job /\ asked' \in SUBSET Job
    BY <1>9, <2>1 DEF ApiTypes, Answered
  <2>3. records' \in [Keys -> [hash : {BodyOf[q] : q \in Job} \cup {None},
                                   job : Job \cup {None}, expired : BOOLEAN]]
    BY <2>1 DEF ApiTypes
  <2> QED
    BY <1>1, <2>1, <2>2, <2>3
<1>10. CASE r \in Job /\ Creates(r)
  <2>1. Goes(r, "wait") /\ UNCHANGED <<paid, told, minute, records, recent>>
    BY <1>10 DEF Creates, Goes, Pcs
  <2>2. recent' \in SUBSET Job /\ asked' \in SUBSET Job
    BY <1>10, <2>1 DEF ApiTypes, Creates
  <2>3. records' \in [Keys -> [hash : {BodyOf[q] : q \in Job} \cup {None},
                                   job : Job \cup {None}, expired : BOOLEAN]]
    BY <2>1 DEF ApiTypes
  <2> QED
    BY <1>1, <2>1, <2>2, <2>3
<1>11. CASE r \in Job /\ Stores(r)
  <2>1. HeaderOf[r] \in Keys
    BY <1>11 DEF ApiTypes, PcSound, Stores, At
  <2>2. Goes(r, "reread") /\ UNCHANGED <<asked, paid, told, minute, recent>>
    BY <1>11, <2>1 DEF Stores, Goes, Pcs
  <2>3. StoredBy(r) \in [hash : {BodyOf[q] : q \in Job} \cup {None}, job : Job \cup {None},
                         expired : BOOLEAN]
    BY <1>11, <2>1, StoredTyped
  <2>4. records' \in [Keys -> [hash : {BodyOf[q] : q \in Job} \cup {None},
                                   job : Job \cup {None}, expired : BOOLEAN]]
    BY <1>11, <2>1, <2>3, ZenonT(60) DEF Stores, ApiTypes
  <2>5. recent' \in SUBSET Job /\ asked' \in SUBSET Job
    BY <2>2 DEF ApiTypes
  <2> QED
    BY <1>1, <2>2, <2>4, <2>5
<1> QED
  BY <1>0, <1>3, <1>4, <1>5, <1>6, <1>7, <1>8, <1>9, <1>10, <1>11, ZenonT(60)
     DEF Admits, Inserts, Refuses, ChatStep, Misses, Succeeds

\* Whatever a handler does, it moves on or answers.
LEMMA HandlerGoes ==
  ASSUME ApiAssumption, ApiTypes, NEW r \in Request, Handler(r)
  PROVE  \E p \in Pcs : HandlerMoves(r, p)
<1>1. \/ Admits(r) \/ Inserts(r) \/ Refuses(r)
      \/ r \in Job /\ ChatStep(r)
  BY HandlerSteps, ZenonT(60)
<1>2. /\ "check" \in Pcs /\ "insert" \in Pcs /\ "done" \in Pcs /\ "create" \in Pcs
      /\ "lookup" \in Pcs /\ "wait" \in Pcs /\ "store" \in Pcs /\ "reread" \in Pcs
  BY DEF Pcs
<1> QED
  BY <1>1, <1>2, ZenonT(60) DEF Quietly, Admits, Inserts, Refuses, ChatStep, Misses, Replays,
     Creates,
     Succeeds, Stores,
                           Rereads

\* The handlers and tables keep their types.
LEMMA TypesStep ==
  ASSUME ApiAssumption, ApiTypes, [Next]_vars
  PROVE  ApiTypes'
<1>0. /\ minute \in 0..MaxMinute /\ MaxMinute \in Nat
      /\ req \in [Request -> [pc : Pcs, now : 0..MaxMinute, seen : SUBSET Job]]
      /\ reply \in [Request -> Request \cup {None, "error", "lost"}]
  BY ZenonT(60) DEF ApiTypes, ApiAssumption
<1>1. ASSUME NEW r \in Request, Arrive(r) PROVE ApiTypes'
  <2>1. PICK h : h = [pc |-> "limit", now |-> minute, seen |-> SameKey(r) \cap recent]
    BY ZenonT(60)
  <2>2. h \in [pc : Pcs, now : 0..MaxMinute, seen : SUBSET Job] /\ h.pc = "limit"
    BY <1>0, <2>1 DEF ApiTypes, Pcs
  <2>3. req' = [req EXCEPT ![r] = h]
    BY <1>1, <2>1 DEF Arrive
  <2>4. /\ req' \in [Request -> [pc : Pcs, now : 0..MaxMinute, seen : SUBSET Job]]
        /\ req'[r].pc = "limit" /\ \A q \in Request : q # r => req'[q] = req[q]
    BY <1>0, <2>2, <2>3
  <2>5. PcSound'
    BY <2>4, ZenonT(60) DEF ApiTypes, PcSound
  <2> QED
    BY <1>1, <2>4, <2>5 DEF ApiTypes, Arrive, cvars, gate
<1>2. ASSUME NEW r \in Request, Handler(r) PROVE ApiTypes'
  BY <1>2, HandlerTypes, ZenonT(60)
<1>3. ASSUME NEW r \in Async, CancelJob(r) PROVE ApiTypes'
  BY <1>3 DEF ApiTypes, PcSound, CancelJob, cvars, gate
<1>4. CASE JobService
  <2>1. UNCHANGED <<minute, req, reply, records, recent>>
    BY <1>4 DEF JobService, gate
  <2>2. asked' \in SUBSET Job /\ paid' \in SUBSET Job /\ told' \in [Job -> {"none", "ok", "error", "lost"}]
    BY <1>4 DEF ApiTypes, JobService, Charge, Tell
  <2> QED
    BY <2>1, <2>2 DEF ApiTypes, PcSound
<1>5. CASE Tick
  <2>1. minute' \in 0..MaxMinute
    BY <1>0, <1>5 DEF Tick
  <2> QED
    BY <1>5, <2>1 DEF ApiTypes, PcSound, Tick, cvars
<1>6. CASE Die
  <2>1. ASSUME NEW r \in Request
        PROVE  /\ req'[r] \in [pc : Pcs, now : 0..MaxMinute, seen : SUBSET Job]
               /\ req'[r].pc = req[r].pc \/ req'[r].pc = "done"
    <3>1. req[r] \in [pc : Pcs, now : 0..MaxMinute, seen : SUBSET Job]
      BY <1>0
    <3>2. req'[r] = IF InFlight(r) THEN [req[r] EXCEPT !.pc = "done"] ELSE req[r]
      BY <1>6 DEF Die
    <3>3. "done" \in Pcs
      BY DEF Pcs
    <3> QED
      BY <3>1, <3>2, <3>3
  <2>2. req' = [r \in Request |-> req'[r]]
    BY <1>6 DEF Die
  <2>3. req' \in [Request -> [pc : Pcs, now : 0..MaxMinute, seen : SUBSET Job]]
    BY <2>1, <2>2, ZenonT(60)
  <2>4. PcSound'
    BY <2>1 DEF ApiTypes, PcSound
  <2>5. /\ reply' \in [Request -> Request \cup {None, "error", "lost"}]
        /\ told' \in [Job -> {"none", "ok", "error", "lost"}]
        /\ UNCHANGED <<minute, records, recent, asked, paid>>
    BY <1>0, <1>6 DEF ApiTypes, Die, Crash
  <2> QED
    BY <2>3, <2>4, <2>5 DEF ApiTypes
<1>7. ASSUME NEW k \in Keys, Expire(k) PROVE ApiTypes'
  <2>1. PICK rec : rec = [records[k] EXCEPT !.expired = TRUE]
    BY ZenonT(60)
  <2>3. records[k] \in [hash : {BodyOf[r] : r \in Job} \cup {None}, job : Job \cup {None},
                        expired : BOOLEAN]
    BY <1>7 DEF ApiTypes
  <2>4. rec \in [hash : {BodyOf[r] : r \in Job} \cup {None}, job : Job \cup {None},
                 expired : BOOLEAN]
    BY <2>1, <2>3, ZenonT(60)
  <2>5. records' = [records EXCEPT ![k] = rec] /\ recent' \subseteq recent
    BY <1>7, <2>1 DEF Expire
  <2>2. /\ records' \in [Keys -> [hash : {BodyOf[r] : r \in Job} \cup {None},
                                      job : Job \cup {None}, expired : BOOLEAN]]
        /\ recent' \in SUBSET Job
    BY <1>7, <2>4, <2>5, ZenonT(60) DEF ApiTypes
  <2> QED
    BY <1>7, <2>2 DEF ApiTypes, PcSound, Expire, cvars, gate
<1>8. CASE UNCHANGED vars
  BY <1>8, ZenonT(60) DEF ApiTypes, PcSound, vars, cvars, gate
<1> QED
  BY <1>1, <1>2, <1>3, <1>4, <1>5, <1>6, <1>7, <1>8, ZenonT(60) DEF Next

\* The tables are empty when the coordinator starts for the first time.
LEMMA TypesInit ==
  ASSUME ApiAssumption, Init
  PROVE  ApiTypes
<1>1. MaxMinute \in Nat
  BY DEF ApiAssumption
<1> QED
  BY <1>1 DEF Init, CInit, NewReq, NoRecord, ApiTypes, PcSound, Pcs

-----------------------------------------------------------------------------
(* The limiter.                                                            *)

\* What the limiter has granted of the minutes before, of and after its bucket.
GrantedSoFar ==
    /\ granted[bucket.start] <= bucket.count + LimitPerMinute * late
    /\ \A m \in 0..MaxMinute :
         /\ m < bucket.start => granted[m] <= LimitPerMinute * (1 + late)
         /\ m > bucket.start => granted[m] <= LimitPerMinute * late

GInv ==
    /\ minute \in 0..MaxMinute /\ late \in Nat
    /\ bucket \in [start : 0..MaxMinute, count : 0..LimitPerMinute] /\ bucket.start <= minute
    /\ granted \in [0..MaxMinute -> Nat]
    /\ DOMAIN req = Request /\ \A r \in Request : req[r].now \in 0..minute
    /\ GrantedSoFar

\* A grant or a refusal of Allow, in the bucket's own minute, in a later or an earlier one.
LEMMA AllowBounded ==
  ASSUME ApiAssumption, GInv, NEW r \in Request, Allow(r)
  PROVE  /\ late' \in Nat
         /\ bucket' \in [start : 0..MaxMinute, count : 0..LimitPerMinute] /\ bucket'.start <= minute
         /\ granted' \in [0..MaxMinute -> Nat]
         /\ GrantedSoFar'
<1>1. PICK now : now = req[r].now
  BY ZenonT(60)
<1>2. /\ now \in 0..MaxMinute /\ now <= minute
      /\ late \in Nat /\ LimitPerMinute \in Nat \ {0} /\ MaxMinute \in Nat
      /\ bucket.start \in 0..MaxMinute /\ bucket.count \in 0..LimitPerMinute
      /\ granted \in [0..MaxMinute -> Nat]
  BY <1>1, SMTT(60) DEF GInv, ApiAssumption
<1>3. PICK count \in 0..LimitPerMinute : count = IF bucket.start = now THEN bucket.count ELSE 0
  BY <1>2
<1>4. late' = IF now < bucket.start THEN late + 1 ELSE late
  BY <1>1, ZenonT(60) DEF Allow
<1>5. \/ bucket' = [start |-> now, count |-> count] /\ granted' = granted /\ count >= LimitPerMinute
      \/ /\ bucket' = [start |-> now, count |-> count + 1] /\ count + 1 <= LimitPerMinute
         /\ granted' = [granted EXCEPT ![now] = granted[now] + 1]
  BY <1>1, <1>2, <1>3, SMTT(60) DEF Allow
<1>6. PICK p \in Nat : p = LimitPerMinute * late
  BY <1>2
<1>7. LimitPerMinute * (1 + late) = p + LimitPerMinute
  BY <1>2, <1>6
<1>8. /\ granted[bucket.start] <= bucket.count + p
      /\ \A m \in 0..MaxMinute : /\ m < bucket.start => granted[m] <= p + LimitPerMinute
                                 /\ m > bucket.start => granted[m] <= p
  BY <1>6, <1>7, ZenonT(60) DEF GInv, GrantedSoFar
<1>9. /\ bucket'.start = now /\ bucket'.count \in 0..LimitPerMinute
      /\ bucket' \in [start : 0..MaxMinute, count : 0..LimitPerMinute]
      /\ granted' \in [0..MaxMinute -> Nat]
      /\ \A m \in 0..MaxMinute : m # now => granted'[m] = granted[m]
      /\ \/ bucket'.count = count /\ granted'[now] = granted[now] /\ count = LimitPerMinute
         \/ bucket'.count = count + 1 /\ granted'[now] = granted[now] + 1
  <2>1. CASE granted' = granted
    BY <1>2, <1>3, <1>5, <2>1, SMTT(60)
  <2>2. CASE /\ bucket' = [start |-> now, count |-> count + 1] /\ count + 1 <= LimitPerMinute
             /\ granted' = [granted EXCEPT ![now] = granted[now] + 1]
    <3>1. granted[now] + 1 \in Nat /\ count + 1 \in 0..LimitPerMinute
      BY <1>2, <1>3, <2>2, SMTT(60)
    <3> QED
      BY <1>2, <2>2, <3>1, ZenonT(60)
  <2> QED
    BY <1>5, <2>1, <2>2
<1>10. \A m \in 0..MaxMinute : granted[m] \in Nat /\ granted'[m] \in Nat
  BY <1>2, <1>9, ZenonT(60)
<1>11. late' \in Nat
  BY <1>2, <1>4
<1>12. CASE now >= bucket.start
  <2>1. late' = late /\ ~(now < bucket.start)
    BY <1>2, <1>4, <1>12
  <2>2. granted'[now] <= bucket'.count + p
    <3>1. CASE now = bucket.start
      <4>1. count = bucket.count /\ granted[now] <= count + p
        BY <1>3, <1>8, <3>1
      <4>2. granted[now] \in Nat /\ count \in Nat
        BY <1>2, <1>10, <4>1
      <4>3. \/ bucket'.count = count /\ granted'[now] = granted[now]
            \/ bucket'.count = count + 1 /\ granted'[now] = granted[now] + 1
        BY <1>9
      <4> QED
        BY ONLY <1>6, <4>1, <4>2, <4>3
    <3>2. CASE now > bucket.start
      <4>1. count = 0 /\ granted[now] <= p
        BY <1>2, <1>3, <1>8, <3>2
      <4> QED
        BY <1>2, <1>9, <1>10, <4>1, SMTT(60)
    <3> QED
      BY <1>2, <1>12, <3>1, <3>2
  <2>3. \A m \in 0..MaxMinute : /\ m < now => granted'[m] <= p + LimitPerMinute
                                /\ m > now => granted'[m] <= p
    <3>1. SUFFICES ASSUME NEW m \in 0..MaxMinute
                   PROVE  /\ m < now => granted'[m] <= p + LimitPerMinute
                          /\ m > now => granted'[m] <= p
      OBVIOUS
    <3>2. granted[m] \in Nat /\ (m # now => granted'[m] = granted[m])
      BY <1>9, <1>10
    <3>3. m = bucket.start => granted[m] <= p + LimitPerMinute
      BY <1>2, <1>8, <3>2, SMTT(60)
    <3> QED
      BY <1>2, <1>8, <1>12, <3>2, <3>3, SMTT(60)
  <2> QED
    BY <1>2, <1>6, <1>7, <1>9, <1>11, <2>1, <2>2, <2>3, ZenonT(60) DEF GrantedSoFar
<1>13. CASE now < bucket.start
  <2>1. /\ late' = late + 1 /\ count = 0
        /\ LimitPerMinute * late' = p + LimitPerMinute
        /\ LimitPerMinute * (1 + late') = p + LimitPerMinute + LimitPerMinute
    BY <1>2, <1>3, <1>4, <1>6, <1>7, <1>13
  <2>2. granted'[now] <= bucket'.count + (p + LimitPerMinute)
    <3>1. granted[now] <= p + LimitPerMinute
      BY <1>2, <1>8, <1>13
    <3> QED
      BY <1>2, <1>9, <1>10, <2>1, <3>1, SMTT(60)
  <2>3. \A m \in 0..MaxMinute : granted[m] <= p + LimitPerMinute
    <3>1. SUFFICES ASSUME NEW m \in 0..MaxMinute PROVE granted[m] <= p + LimitPerMinute
      OBVIOUS
    <3>2. granted[m] \in Nat
      BY <1>10
    <3>3. m = bucket.start => granted[m] <= p + LimitPerMinute
      BY <1>2, <1>8, <3>2, SMTT(60)
    <3>4. /\ m < bucket.start => granted[m] <= p + LimitPerMinute
          /\ m > bucket.start => granted[m] <= p
      BY <1>8
    <3> QED
      BY ONLY <1>2, <1>6, <3>2, <3>3, <3>4, SMTT(60)
  <2>4. \A m \in 0..MaxMinute :
          /\ m < now => granted'[m] <= p + LimitPerMinute + LimitPerMinute
          /\ m > now => granted'[m] <= p + LimitPerMinute
    BY <1>2, <1>9, <1>10, <2>3, SMTT(60)
  <2> QED
    BY <1>2, <1>9, <1>11, <2>1, <2>2, <2>4, ZenonT(60) DEF GrantedSoFar
<1>14. now >= bucket.start \/ now < bucket.start
  BY <1>2
<1> QED
  BY <1>12, <1>13, <1>14, ZenonT(60)

\* The steps that do not touch the limiter keep the minute a handler has read.
LEMMA GateKept ==
  ASSUME ApiAssumption, ApiTypes, Next, ~Tick, ~Die,
         ~(\E r \in Request : Arrive(r) \/ Allow(r))
  PROVE  /\ UNCHANGED gate
         /\ DOMAIN req' = Request /\ \A r \in Request : req'[r].now = req[r].now
<1>1. ASSUME NEW r \in Request, Handler(r), ~Allow(r)
      PROVE  /\ UNCHANGED gate
             /\ DOMAIN req' = Request /\ \A q \in Request : req'[q].now = req[q].now
  <2>1. PICK p \in Pcs : HandlerMoves(r, p)
    BY <1>1, HandlerGoes, ZenonT(60)
  <2>2. /\ req' \in [Request -> [pc : Pcs, now : 0..MaxMinute, seen : SUBSET Job]]
        /\ req'[r].now = req[r].now /\ \A q \in Request : q # r => req'[q] = req[q]
    BY <2>1, HandlerFrame, ZenonT(60)
  <2>3. UNCHANGED gate
    BY <1>1, ZenonT(60) DEF Handler, Check, Lookup, CreateJob, Told,
                       StoreIdempotencyResponse, Reread, CreateAsyncJob
  <2> QED
    BY <2>2, <2>3
<1>2. DOMAIN req = Request
  BY DEF ApiTypes
<1>3. CASE (\E r \in Async : CancelJob(r)) \/ JobService \/ \E k \in Keys : Expire(k)
  <2>1. UNCHANGED <<gate, req>>
    BY <1>3, ZenonT(60) DEF CancelJob, JobService, Expire
  <2> QED
    BY <1>2, <2>1
<1> QED
  BY <1>1, <1>3, ZenonT(60) DEF Next

\* Every step keeps the bound on what was granted.
LEMMA GrantsStep ==
  ASSUME ApiAssumption, ApiTypes, GInv, [Next]_vars
  PROVE  GInv'
<1>0. /\ minute \in 0..MaxMinute /\ MaxMinute \in Nat /\ LimitPerMinute \in Nat /\ late \in Nat
      /\ bucket.start \in 0..minute
  BY DEF GInv, ApiAssumption
<1>1. ASSUME NEW r \in Request, Arrive(r) PROVE GInv'
  <2>1. /\ UNCHANGED gate /\ DOMAIN req' = Request
        /\ \A q \in Request : req'[q].now = IF q = r THEN minute ELSE req[q].now
    BY <1>1 DEF GInv, Arrive
  <2>2. \A q \in Request : req'[q].now \in 0..minute
    BY <1>0, <2>1, SMTT(60) DEF GInv
  <2> QED
    BY <2>1, <2>2 DEF GInv, GrantedSoFar, gate
<1>2. ASSUME NEW r \in Request, Allow(r) PROVE GInv'
  <2>1. /\ UNCHANGED minute /\ DOMAIN req' = Request
        /\ \A q \in Request : req'[q].now = req[q].now
    <3>1. Handler(r) /\ UNCHANGED minute
      BY <1>2, ZenonT(60) DEF Handler, Allow
    <3>2. PICK p \in Pcs : HandlerMoves(r, p)
      BY <3>1, HandlerGoes, ZenonT(60)
    <3>3. /\ req' \in [Request -> [pc : Pcs, now : 0..MaxMinute, seen : SUBSET Job]]
          /\ req'[r].now = req[r].now /\ \A q \in Request : q # r => req'[q] = req[q]
      BY <3>2, HandlerFrame, ZenonT(60)
    <3> QED
      BY <3>1, <3>3, SMTT(60)
  <2> QED
    BY <1>2, <2>1, AllowBounded, ZenonT(60) DEF GInv
<1>3. CASE Tick
  <2>1. /\ minute' \in 0..MaxMinute /\ minute' > minute
        /\ UNCHANGED <<bucket, granted, late, req>>
    BY <1>0, <1>3 DEF Tick
  <2>2. /\ \A r \in Request : req'[r].now \in 0..minute'
        /\ bucket'.start <= minute'
    BY <1>0, <2>1, SMTT(60) DEF GInv
  <2> QED
    BY <2>1, <2>2, ZenonT(60) DEF GInv, GrantedSoFar
<1>4. CASE Die
  <2>1. /\ bucket' = [start |-> minute, count |-> 0] /\ granted' = [granted EXCEPT ![minute] = 0]
        /\ UNCHANGED <<minute, late>>
    BY <1>4 DEF Die
  <2>7. DOMAIN req' = Request /\ \A r \in Request : req'[r].now = req[r].now
    <3>1. ASSUME NEW r \in Request PROVE req'[r].now = req[r].now
      <4>1. req[r] \in [pc : Pcs, now : 0..MaxMinute, seen : SUBSET Job]
        BY DEF ApiTypes
      <4>2. req'[r] = IF InFlight(r) THEN [req[r] EXCEPT !.pc = "done"] ELSE req[r]
        BY <1>4 DEF Die
      <4> QED
        BY <4>1, <4>2
    <3>2. DOMAIN req' = Request
      BY <1>4 DEF Die
    <3> QED
      BY <3>1, <3>2
  <2>2. /\ bucket' \in [start : 0..MaxMinute, count : 0..LimitPerMinute]
        /\ bucket'.start = minute /\ bucket'.count = 0
        /\ granted' \in [0..MaxMinute -> Nat]
        /\ granted'[minute] = 0 /\ \A m \in 0..MaxMinute : m # minute => granted'[m] = granted[m]
    BY <1>0, <2>1 DEF GInv
  <2>3. PICK p \in Nat : p = LimitPerMinute * late /\ LimitPerMinute * (1 + late) = p + LimitPerMinute
    BY <1>0
  <2>4. /\ granted[bucket.start] <= bucket.count + p /\ bucket.count \in 0..LimitPerMinute
        /\ \A m \in 0..MaxMinute : /\ m < bucket.start => granted[m] <= p + LimitPerMinute
                                   /\ m > bucket.start => granted[m] <= p
        /\ \A m \in 0..MaxMinute : granted[m] \in Nat
    BY <2>3, ZenonT(60) DEF GInv, GrantedSoFar
  <2>5. \A m \in 0..MaxMinute : /\ m < minute => granted[m] <= p + LimitPerMinute
                                /\ m > minute => granted[m] <= p
    <3>1. SUFFICES ASSUME NEW m \in 0..MaxMinute
                   PROVE  /\ m < minute => granted[m] <= p + LimitPerMinute
                          /\ m > minute => granted[m] <= p
      OBVIOUS
    <3>2. /\ granted[m] \in Nat
          /\ m < bucket.start => granted[m] <= p + LimitPerMinute
          /\ m > bucket.start => granted[m] <= p
          /\ m = bucket.start => granted[m] <= bucket.count + p
      BY <2>4
    <3> QED
      BY ONLY <1>0, <2>3, <2>4, <3>2
  <2>6. GrantedSoFar'
    BY <1>0, <2>1, <2>2, <2>3, <2>5 DEF GrantedSoFar
  <2> QED
    BY <1>0, <2>1, <2>2, <2>6, <2>7, SMTT(60) DEF GInv
<1>5. CASE ~(\E r \in Request : Arrive(r) \/ Allow(r)) /\ ~Tick /\ ~Die
            /\ Next
  <2>1. /\ UNCHANGED gate
        /\ DOMAIN req' = Request /\ \A r \in Request : req'[r].now = req[r].now
    BY <1>5, GateKept, ZenonT(60)
  <2> QED
    BY <2>1, ZenonT(60) DEF GInv, GrantedSoFar, gate
<1>6. CASE UNCHANGED vars
  BY <1>6 DEF GInv, GrantedSoFar, vars, gate
<1> QED
  BY <1>1, <1>2, <1>3, <1>4, <1>5, <1>6

\* GrantsBounded: whatever calls race for its lock, the limiter allows LimitPerMinute
\* requests of a minute and as many again for every call that comes with an earlier one
\* (apikey.go RateLimiter.Allow).
THEOREM LimiterBounded ==
  ASSUME ApiAssumption
  PROVE  Spec => []GrantsBounded
<1>1. Init => GInv
  BY DEF Init, ApiAssumption, NewReq, GInv, GrantedSoFar
<1>2. GInv => GrantsBounded
  <2>1. SUFFICES ASSUME GInv, NEW m \in 0..MaxMinute
                 PROVE  granted[m] <= LimitPerMinute * (1 + late)
    BY DEF GrantsBounded
  <2>2. PICK p \in Nat : p = LimitPerMinute * late /\ LimitPerMinute * (1 + late) = p + LimitPerMinute
    BY <2>1 DEF GInv, ApiAssumption
  <2>3. /\ granted[m] \in Nat /\ LimitPerMinute \in Nat
        /\ bucket.start \in Int /\ bucket.count \in 0..LimitPerMinute
        /\ m < bucket.start => granted[m] <= p + LimitPerMinute
        /\ m > bucket.start => granted[m] <= p
        /\ m = bucket.start => granted[m] <= bucket.count + p
    BY <2>1, <2>2 DEF GInv, GrantedSoFar, ApiAssumption
  <2> QED
    BY ONLY <2>2, <2>3
<1> QED
  BY <1>1, <1>2, TypesInit, TypesStep, GrantsStep, PTL DEF Spec

-----------------------------------------------------------------------------
(* Idempotency-Key.                                                        *)

\* What a caller may be given is charged: the response a handler holds, those in the
\* records, and those given.
PaidInv ==
    /\ \A r \in Job : told[r] = "ok" => r \in paid
    /\ \A r \in Job : req[r].pc \in {"store", "reread"} => r \in paid
    /\ \A k \in Keys : records[k].job # None => records[k].job \in paid
    /\ \A r \in Job : reply[r] \in Job => reply[r] \in paid

\* A handler's step, by where it goes.
LEMMA PaidHandler ==
  ASSUME ApiAssumption, ApiTypes, PaidInv, NEW r \in Request, Handler(r)
  PROVE  PaidInv'
<1>0. \/ Admits(r) \/ Inserts(r) \/ Refuses(r)
      \/ r \in Job /\ ChatStep(r)
  BY HandlerSteps, ZenonT(60)
<1>1. Job \subseteq Request /\ Job \cap {None, "error", "lost"} = {}
  BY ZenonT(60) DEF ApiAssumption, Request
<1>2. ASSUME NEW p, Goes(r, p), UNCHANGED <<paid, told>>,
             p \in {"store", "reread"} => r \in paid,
             (r \in Job /\ p = "done" /\ reply'[r] \in Job) => reply'[r] \in paid,
             \A k \in Keys : records'[k].job # None => records'[k].job \in paid
      PROVE  PaidInv'
  <2>1. p \in Pcs /\ HandlerMoves(r, p)
    BY <1>2 DEF Goes
  <2>2. /\ req'[r].pc = p
        /\ p # "done" => reply' = reply
        /\ \A q \in Request : q # r => req'[q] = req[q] /\ reply'[q] = reply[q]
    BY <2>1, HandlerFrame, ZenonT(60)
  <2>3. \A q \in Job : req'[q].pc \in {"store", "reread"} => q \in paid
    BY <1>1, <1>2, <2>2, ZenonT(60) DEF PaidInv
  <2>4. \A q \in Job : reply'[q] \in Job => reply'[q] \in paid
    BY <1>1, <1>2, <2>2, ZenonT(60) DEF PaidInv
  <2> QED
    BY <1>2, <2>3, <2>4, ZenonT(60) DEF PaidInv
<1>3. ASSUME NEW p \in {"check", "insert"}, Quietly(r, p) PROVE PaidInv'
  <2>1. Goes(r, p) /\ UNCHANGED <<paid, told, records>>
    BY <1>3, ZenonT(60) DEF Quietly, Goes, Pcs
  <2> QED
    BY <1>2, <1>3, <2>1, ZenonT(60) DEF PaidInv
<1>4. CASE Refuses(r)
  <2>1. Goes(r, "done") /\ UNCHANGED <<paid, told, records>> /\ reply'[r] \notin Job
    BY <1>4, ZenonT(60) DEF Refuses, Quietly, Goes, Pcs
  <2> QED
    BY <1>2, <2>1, ZenonT(60) DEF PaidInv
<1>5. CASE r \in Job /\ At(r, "check") /\ HeaderOf[r] \in Keys /\ Quietly(r, "lookup")
  <2>1. Goes(r, "lookup") /\ UNCHANGED <<paid, told, records>>
    BY <1>5, ZenonT(60) DEF Quietly, Goes, Pcs
  <2> QED
    BY <1>2, <2>1 DEF PaidInv
<1>6. CASE r \in Job /\ Quietly(r, "create")
  <2>1. Goes(r, "create") /\ UNCHANGED <<paid, told, records>>
    BY <1>6, ZenonT(60) DEF Quietly, Goes, Pcs
  <2> QED
    BY <1>2, <2>1 DEF PaidInv
<1>7. CASE r \in Job /\ Replays(r)
  <2>1. /\ Goes(r, "done") /\ UNCHANGED <<paid, told, records>> /\ HeaderOf[r] \in Keys
        /\ reply'[r] = records[HeaderOf[r]].job
    BY <1>7, SMTT(60) DEF Replays, Goes, Pcs, ApiTypes, PcSound, At
  <2>2. reply'[r] \in Job => reply'[r] \in paid
    BY <1>1, <2>1, ZenonT(60) DEF PaidInv
  <2> QED
    BY <1>2, <2>1, <2>2, ZenonT(60) DEF PaidInv
<1>8. CASE r \in Job /\ Creates(r)
  <2>1. Goes(r, "wait") /\ UNCHANGED <<paid, told, records>>
    BY <1>8 DEF Creates, Goes, Pcs
  <2> QED
    BY <1>2, <2>1 DEF PaidInv
<1>9. CASE r \in Job /\ Succeeds(r)
  <2>1. r \in paid
    BY <1>9, ZenonT(60) DEF Succeeds, PaidInv
  <2>2. CASE Quietly(r, "done") /\ reply'[r] = r
    <3>1. Goes(r, "done") /\ UNCHANGED <<paid, told, records>>
      BY <2>2, ZenonT(60) DEF Quietly, Goes, Pcs
    <3> QED
      BY <1>2, <2>1, <2>2, <3>1, SMTT(60) DEF PaidInv
  <2>3. CASE HeaderOf[r] \in Keys /\ Quietly(r, "store")
    <3>1. Goes(r, "store") /\ UNCHANGED <<paid, told, records>>
      BY <1>9, <2>3 DEF Quietly, Goes, Pcs
    <3> QED
      BY <1>2, <2>1, <3>1 DEF PaidInv
  <2> QED
    BY <1>9, <2>2, <2>3, ZenonT(60) DEF Succeeds
<1>10. CASE r \in Job /\ Stores(r)
  <2>1. /\ r \in paid /\ HeaderOf[r] \in Keys
    BY <1>10 DEF Stores, PaidInv, ApiTypes, PcSound, At
  <2>2. Goes(r, "reread") /\ UNCHANGED <<paid, told>>
    BY <1>10, <2>1, SMTT(60) DEF Stores, Goes, Pcs
  <2>3. StoredBy(r).job = r
    BY <1>10, <2>1, StoredTyped, ZenonT(60)
  <2>4. \A k \in Keys : records'[k].job # None => records'[k].job \in paid
    BY <1>10, <2>1, <2>3, SMTT(60) DEF Stores, PaidInv, ApiTypes
  <2> QED
    BY <1>2, <2>1, <2>2, <2>4, SMTT(60)
<1>11. CASE r \in Job /\ Rereads(r)
  <2>1. /\ Goes(r, "done") /\ UNCHANGED <<paid, told, records>> /\ HeaderOf[r] \in Keys
        /\ r \in paid
        /\ reply'[r] = r \/ (reply'[r] = records[HeaderOf[r]].job /\ records[HeaderOf[r]].job # None)
    BY <1>11, ZenonT(60) DEF Rereads, Goes, Pcs, PaidInv, ApiTypes, PcSound, At
  <2>2. reply'[r] \in Job => reply'[r] \in paid
    BY <2>1, ZenonT(60) DEF PaidInv
  <2> QED
    BY <1>2, <2>1, <2>2, ZenonT(60) DEF PaidInv
<1> QED
  BY <1>0, <1>3, <1>4, <1>5, <1>6, <1>7, <1>8, <1>9, <1>10, <1>11
     DEF Admits, Inserts, ChatStep, Misses

\* Every step keeps the responses to charged jobs.
LEMMA PaidStep ==
  ASSUME ApiAssumption, ApiTypes, PaidInv, [Next]_vars
  PROVE  PaidInv'
<1>0. Job \subseteq Request /\ Job \cap {None, "error", "lost"} = {}
  BY SMTT(60) DEF ApiAssumption, Request
<1>1. ASSUME NEW r \in Request, Arrive(r) PROVE PaidInv'
  <2>1. /\ req'[r].pc = "limit" /\ \A q \in Request : q # r => req'[q] = req[q]
        /\ UNCHANGED <<paid, told, records, reply>>
    BY <1>1, ZenonT(60) DEF ApiTypes, Arrive, cvars
  <2> QED
    BY <1>0, <2>1, ZenonT(60) DEF PaidInv
<1>2. ASSUME NEW r \in Request, Handler(r) PROVE PaidInv'
  BY <1>2, PaidHandler, ZenonT(60)
<1>3. CASE (\E r \in Async : CancelJob(r)) \/ Tick
  <2>1. UNCHANGED <<paid, told, records, reply, req>>
    BY <1>3 DEF CancelJob, Tick, cvars
  <2> QED
    BY <2>1 DEF PaidInv
<1>4. CASE JobService
  <2>1. UNCHANGED <<records, reply, req>> /\ paid \subseteq paid'
    BY <1>4, ZenonT(60) DEF JobService, Charge, Tell
  <2>2. \A r \in Job : told'[r] = "ok" => r \in paid'
    BY <1>4, SMTT(60) DEF PaidInv, ApiTypes, JobService, Charge, Tell
  <2> QED
    BY <2>1, <2>2 DEF PaidInv
<1>5. CASE Die
  <2>1. /\ UNCHANGED <<paid, records>>
        /\ \A r \in Job : told'[r] = "ok" => told[r] = "ok"
        /\ \A r \in Request : reply'[r] = "lost" \/ reply'[r] = reply[r]
    BY <1>5 DEF Die, Crash
  <2>2. ASSUME NEW r \in Request PROVE req'[r].pc = req[r].pc \/ req'[r].pc = "done"
    <3>1. req[r] \in [pc : Pcs, now : 0..MaxMinute, seen : SUBSET Job]
      BY DEF ApiTypes
    <3>2. req'[r] = IF InFlight(r) THEN [req[r] EXCEPT !.pc = "done"] ELSE req[r]
      BY <1>5 DEF Die
    <3> QED
      BY <3>1, <3>2, ZenonT(60)
  <2> QED
    BY <1>0, <2>1, <2>2, ZenonT(60) DEF PaidInv
<1>6. ASSUME NEW k \in Keys, Expire(k) PROVE PaidInv'
  <2>1. UNCHANGED <<paid, told, reply, req>>
    BY <1>6 DEF Expire, cvars
  <2>2. \A i \in Keys : records'[i].job = records[i].job
    <3>1. records[k] \in [hash : {BodyOf[r] : r \in Job} \cup {None}, job : Job \cup {None},
                          expired : BOOLEAN]
      BY DEF ApiTypes
    <3>2. records' = [records EXCEPT ![k] = [records[k] EXCEPT !.expired = TRUE]]
      BY <1>6, SMTT(60) DEF Expire
    <3> QED
      BY <3>1, <3>2, ZenonT(60) DEF ApiTypes
  <2> QED
    BY <2>1, <2>2 DEF PaidInv
<1>7. CASE UNCHANGED vars
  BY <1>7, ZenonT(60) DEF PaidInv, vars, cvars
<1> QED
  BY <1>1, <1>2, <1>3, <1>4, <1>5, <1>6, <1>7, ZenonT(60) DEF Next

\* AnswersArePaid: every response a caller gets, replayed or not, is that of a charged
\* job, whatever is stored, overwritten, expired or lost on the way
\* (chatCompletionsHandler, StoreIdempotencyResponse).
THEOREM ResponsesPaid ==
  ASSUME ApiAssumption
  PROVE  Spec => []AnswersArePaid
<1>1. Init => PaidInv
  BY SMTT(60) DEF Init, CInit, NewReq, NoRecord, ApiAssumption, Request, PaidInv
<1>2. PaidInv => AnswersArePaid
  BY ZenonT(60) DEF PaidInv, AnswersArePaid
<1> QED
  BY <1>1, <1>2, TypesInit, TypesStep, PaidStep, PTL DEF Spec

\* A key has been served when its record holds a response; requests that come later, and
\* the jobs asked for, are told apart by what they saw when they arrived.
Served ==
    /\ \A k \in Keys : ~records[k].expired
    /\ \A q \in recent : HeaderOf[q] \in Keys /\ records[HeaderOf[q]].job # None
    /\ \A r \in Job :
         /\ req[r].pc = "reread" => records[HeaderOf[r]].job # None
         /\ req[r].seen # {} => HeaderOf[r] \in Keys /\ records[HeaderOf[r]].job # None
         /\ req[r].pc \in {"create", "wait", "store", "reread"} \/ r \in asked => req[r].seen = {}
         /\ r \in asked => req[r].pc \in {"wait", "store", "reread", "done"}

\* Of a key whose requests never overlapped, one is being handled at most, and the record
\* is of the one response given or about to be given.
InTurn(r) == r \in Job /\ HeaderOf[r] \in Keys \ overlap

Sequential ==
    /\ \A q, r \in Job : (InTurn(q) /\ HeaderOf[q] = HeaderOf[r]
                          /\ InFlight(q) /\ InFlight(r)) => q = r
    /\ \A r \in Job : req[r].pc # "done" => reply[r] \notin Job
    /\ \A r \in Job : InTurn(r) =>
         /\ reply[r] \in Job => /\ records[HeaderOf[r]].job = reply[r]
                                /\ records[HeaderOf[r]].hash = BodyOf[r]
         /\ req[r].pc \in {"create", "wait", "store"} => records[HeaderOf[r]].job = None
         /\ req[r].pc = "reread" => /\ records[HeaderOf[r]].job = r
                                    /\ records[HeaderOf[r]].hash = BodyOf[r]

\* What a handler's step owes to Served ...
LEMMA ServedMove ==
  ASSUME ApiAssumption, ApiTypes, Served, NEW r \in Request, NEW p, Goes(r, p),
         \A k \in Keys : /\ ~records'[k].expired
                         /\ records[k].job # None => records'[k].job # None,
         \/ recent' = recent
         \/ recent' = recent \cup {r} /\ HeaderOf[r] \in Keys /\ records'[HeaderOf[r]].job # None,
         p = "reread" => records'[HeaderOf[r]].job # None,
         p \in {"create", "wait", "store", "reread"} => req[r].seen = {},
         asked' = asked \/ (asked' = asked \cup {r} /\ p = "wait"),
         r \in asked => p \in {"wait", "store", "reread", "done"}
  PROVE  Served'
<1>1. p \in Pcs /\ HandlerMoves(r, p)
  BY ZenonT(60) DEF Goes
<1>2. /\ req'[r].pc = p /\ req'[r].seen = req[r].seen
      /\ \A q \in Request : q # r => req'[q] = req[q]
  BY <1>1, HandlerFrame, ZenonT(60)
<1>3. /\ Job \subseteq Request /\ recent \subseteq Job
      /\ \A q \in Job : req[q].pc \in {"reread"} => HeaderOf[q] \in Keys
  BY ZenonT(60) DEF Request, ApiTypes, PcSound
<1>4. \A q \in recent' : HeaderOf[q] \in Keys /\ records'[HeaderOf[q]].job # None
  BY <1>3, ZenonT(60) DEF Served
<1>5. ASSUME NEW q \in Job
      PROVE  /\ req'[q].pc = "reread" => records'[HeaderOf[q]].job # None
             /\ req'[q].seen # {} => HeaderOf[q] \in Keys /\ records'[HeaderOf[q]].job # None
             /\ req'[q].pc \in {"create", "wait", "store", "reread"} \/ q \in asked' => req'[q].seen = {}
             /\ q \in asked' => req'[q].pc \in {"wait", "store", "reread", "done"}
  <2>1. CASE q = r
    BY <1>2, <1>3, <2>1, ZenonT(60) DEF Served
  <2>2. CASE q # r
    BY <1>2, <1>3, <2>2, ZenonT(60) DEF Served
  <2> QED
    BY <2>1, <2>2, ZenonT(60)
<1> QED
  BY <1>4, <1>5, ZenonT(60) DEF Served

\* ... and to Sequential.
LEMMA SequentialMove ==
  ASSUME ApiAssumption, ApiTypes, Sequential, NEW r \in Request, NEW p, Goes(r, p),
         InFlight(r), overlap' = overlap,
         \/ records' = records
         \/ /\ r \in Job /\ HeaderOf[r] \in Keys /\ At(r, "store")
            /\ \A k \in Keys : k # HeaderOf[r] => records'[k] = records[k],
         InTurn(r) =>
           /\ (p = "done" /\ reply'[r] \in Job) => /\ records'[HeaderOf[r]].job = reply'[r]
                                                   /\ records'[HeaderOf[r]].hash = BodyOf[r]
           /\ p \in {"create", "wait", "store"} => records'[HeaderOf[r]].job = None
           /\ p = "reread" => records'[HeaderOf[r]].job = r /\ records'[HeaderOf[r]].hash = BodyOf[r]
  PROVE  Sequential'
<1>1. p \in Pcs /\ HandlerMoves(r, p)
  BY ZenonT(60) DEF Goes
<1>2. /\ req'[r].pc = p
      /\ p # "done" => reply' = reply
      /\ \A q \in Request : q # r => req'[q] = req[q] /\ reply'[q] = reply[q]
  BY <1>1, HandlerFrame, ZenonT(60)
<1>3. Job \subseteq Request /\ \A q : InTurn(q)' <=> InTurn(q)
  BY ZenonT(60) DEF Request, InTurn
<1>4. \A q \in Request : InFlight(q)' => InFlight(q)
  BY <1>2, ZenonT(60) DEF InFlight
<1>5. \A q, i \in Job : (InTurn(q)' /\ HeaderOf[q] = HeaderOf[i]
                         /\ InFlight(q)' /\ InFlight(i)') => q = i
  BY <1>3, <1>4, ZenonT(60) DEF Sequential
<1>6. \A q \in Job : req'[q].pc # "done" => reply'[q] \notin Job
  BY <1>2, <1>3, ZenonT(60) DEF Sequential, InFlight
<1>7. ASSUME NEW q \in Job, InTurn(q)
      PROVE  /\ reply'[q] \in Job => /\ records'[HeaderOf[q]].job = reply'[q]
                                     /\ records'[HeaderOf[q]].hash = BodyOf[q]
             /\ req'[q].pc \in {"create", "wait", "store"} => records'[HeaderOf[q]].job = None
             /\ req'[q].pc = "reread" => /\ records'[HeaderOf[q]].job = q
                                         /\ records'[HeaderOf[q]].hash = BodyOf[q]
  <2>1. CASE q = r
    BY <1>2, <1>6, <1>7, <2>1, ZenonT(60)
  <2>2. CASE q # r /\ records'[HeaderOf[q]] = records[HeaderOf[q]]
    BY <1>2, <1>3, <1>7, <2>2, ZenonT(60) DEF Sequential
  <2>3. CASE q # r /\ records'[HeaderOf[q]] # records[HeaderOf[q]]
    <3>1. r \in Job /\ HeaderOf[r] = HeaderOf[q] /\ At(r, "store") /\ InTurn(r)
      BY <1>7, <2>3, ZenonT(60) DEF InTurn
    <3>2. records[HeaderOf[q]].job = None
      BY <3>1, ZenonT(60) DEF Sequential, At
    <3>3. ~InFlight(q)
      BY <1>7, <2>3, <3>1, ZenonT(60) DEF Sequential
    <3>4. reply[q] \notin Job
      <4>1. reply[q] \in Job => records[HeaderOf[q]].job = reply[q]
        BY <1>7, ZenonT(60) DEF Sequential
      <4>2. None \notin Job
        BY ZenonT(60) DEF ApiAssumption, Request
      <4> QED
        BY <3>2, <4>1, <4>2, ZenonT(60)
    <3> QED
      BY <1>2, <1>3, <2>3, <3>3, <3>4, ZenonT(60) DEF InFlight
  <2> QED
    BY <2>1, <2>2, <2>3, ZenonT(60)
<1> QED
  BY <1>3, <1>5, <1>6, <1>7, ZenonT(60) DEF Sequential

\* A handler is in flight until it has answered.
LEMMA HandlerInFlight ==
  ASSUME NEW r \in Request, Handler(r)
  PROVE  InFlight(r)
BY DEF Handler, Allow, Check, Lookup, CreateJob, Told,
       StoreIdempotencyResponse, Reread, CreateAsyncJob, At, InFlight

\* The steps of a handler, if responses are stored and kept.
LEMMA IdemHandler ==
  ASSUME ApiAssumption, ~CanFail, ApiTypes, Served, Sequential,
         NEW r \in Request, Handler(r)
  PROVE  Served' /\ Sequential'
<1>0. \/ Admits(r) \/ Inserts(r) \/ Refuses(r)
      \/ r \in Job /\ ChatStep(r)
  BY HandlerSteps, ZenonT(60)
<1>1. InFlight(r)
  BY HandlerInFlight, ZenonT(60)
<1>2. /\ Job \subseteq Request /\ Job \cap {None, "error", "lost"} = {} /\ None \notin Keys
      /\ asked \subseteq Job
      /\ \A k \in Keys : ~records[k].expired
  BY ZenonT(60) DEF ApiAssumption, Request, Keys, ApiTypes, Served
<1>3. ASSUME NEW p, Quietly(r, p), Goes(r, p),
             p \in {"create", "wait", "store"} =>
               req[r].seen = {} /\ (InTurn(r) => records[HeaderOf[r]].job = None),
             p # "reread", r \in asked => p \in {"wait", "store", "reread", "done"},
             (InTurn(r) /\ p = "done") => reply'[r] \notin Job
      PROVE  Served' /\ Sequential'
  <2>1. UNCHANGED <<records, recent, asked, overlap>>
    BY <1>3, ZenonT(60) DEF Quietly
  <2>2. Served'
    BY <1>2, <1>3, <2>1, ServedMove, ZenonT(60)
  <2>3. Sequential'
    BY <1>1, <1>3, <2>1, SequentialMove, ZenonT(60)
  <2> QED
    BY <2>2, <2>3
<1>4. CASE Admits(r) \/ Inserts(r)
  <2>1. r \notin asked
    BY <1>2, <1>4, ZenonT(60) DEF Admits, Inserts, Served, At
  <2>2. \E p \in {"check", "insert"} : Quietly(r, p) /\ Goes(r, p)
    BY <1>4, SMTT(60) DEF Admits, Inserts, Quietly, Goes, Pcs
  <2> QED
    BY <1>3, <2>1, <2>2, ZenonT(60)
<1>5. CASE Refuses(r)
  <2>1. Quietly(r, "done") /\ Goes(r, "done") /\ reply'[r] \notin Job
    BY <1>5, ZenonT(60) DEF Refuses, Quietly, Goes, Pcs
  <2> QED
    BY <1>3, <2>1, ZenonT(60)
<1>6. CASE r \in Job /\ At(r, "check") /\ HeaderOf[r] = None /\ Quietly(r, "create")
  <2>1. Goes(r, "create") /\ ~InTurn(r)
    BY <1>2, <1>6, SMTT(60) DEF Quietly, Goes, Pcs, InTurn
  <2>2. r \notin asked /\ req[r].seen = {}
    BY <1>2, <1>6, ZenonT(60) DEF Served, At
  <2> QED
    BY <1>3, <1>6, <2>1, <2>2, ZenonT(60)
<1>7. CASE r \in Job /\ At(r, "check") /\ HeaderOf[r] \in Keys /\ Quietly(r, "lookup")
  <2>1. Goes(r, "lookup")
    BY <1>7, SMTT(60) DEF Quietly, Goes, Pcs
  <2>2. r \notin asked
    BY <1>2, <1>7, ZenonT(60) DEF Served, At
  <2> QED
    BY <1>3, <1>7, <2>1, <2>2, ZenonT(60)
<1>8. CASE r \in Job /\ Misses(r)
  <2>1. /\ Goes(r, "create") /\ Quietly(r, "create") /\ HeaderOf[r] \in Keys
        /\ r \notin asked
    BY <1>2, <1>8, ZenonT(60) DEF Misses, Quietly, Goes, Pcs, ApiTypes, PcSound, Served, At
  <2>2. records[HeaderOf[r]].job = None
    BY <1>2, <1>8, <2>1, SMTT(60) DEF Misses, ResolveIdempotency
  <2>3. req[r].seen = {}
    BY <1>8, <2>2, ZenonT(60) DEF Served
  <2> QED
    BY <1>3, <2>1, <2>2, <2>3, ZenonT(60)
<1>9. CASE r \in Job /\ Replays(r)
  <2>1. /\ Goes(r, "done") /\ UNCHANGED <<asked, records, overlap>> /\ HeaderOf[r] \in Keys
        /\ reply'[r] = records[HeaderOf[r]].job /\ recent' = recent \cup {r}
    BY <1>2, <1>9, ZenonT(60) DEF Replays, Goes, Pcs, ApiTypes, PcSound, At, Answered
  <2>2. records[HeaderOf[r]].job # None /\ records[HeaderOf[r]].hash = BodyOf[r]
    BY <1>9 DEF Replays, ResolveIdempotency
  <2>3. Served'
    BY <1>2, <2>1, <2>2, ServedMove, ZenonT(60)
  <2>4. Sequential'
    BY <1>1, <2>1, <2>2, SequentialMove, ZenonT(60)
  <2> QED
    BY <2>3, <2>4
<1>10. CASE r \in Job /\ Creates(r)
  <2>1. Goes(r, "wait") /\ UNCHANGED <<records, recent, overlap>> /\ asked' = asked \cup {r}
    BY <1>10, SMTT(60) DEF Creates, Goes, Pcs
  <2>2. req[r].seen = {} /\ (InTurn(r) => records[HeaderOf[r]].job = None)
    BY <1>10, ZenonT(60) DEF Creates, Served, Sequential, At
  <2>3. Served'
    BY <1>2, <2>1, <2>2, ServedMove, ZenonT(60)
  <2>4. Sequential'
    BY <1>1, <2>1, <2>2, SequentialMove, ZenonT(60)
  <2> QED
    BY <2>3, <2>4
<1>11. CASE r \in Job /\ Succeeds(r)
  <2>1. req[r].seen = {} /\ (InTurn(r) => records[HeaderOf[r]].job = None)
    BY <1>11, ZenonT(60) DEF Succeeds, Served, Sequential, At
  <2>2. CASE HeaderOf[r] = None /\ Quietly(r, "done")
    <3>1. Goes(r, "done") /\ ~InTurn(r)
      BY <1>2, <2>2, SMTT(60) DEF Quietly, Goes, Pcs, InTurn
    <3> QED
      BY <1>3, <2>2, <3>1, ZenonT(60)
  <2>3. CASE HeaderOf[r] \in Keys /\ Quietly(r, "store")
    <3>1. Goes(r, "store")
      BY <1>11, <2>3, SMTT(60) DEF Quietly, Goes, Pcs
    <3> QED
      BY <1>3, <2>1, <2>3, <3>1, ZenonT(60)
  <2> QED
    BY <1>11, <2>2, <2>3, ZenonT(60) DEF Succeeds
<1>12. CASE r \in Job /\ Stores(r)
  <2>1. /\ HeaderOf[r] \in Keys /\ At(r, "store")
        /\ req[r].seen = {} /\ (InTurn(r) => records[HeaderOf[r]].job = None)
    BY <1>12, ZenonT(60) DEF Stores, Served, Sequential, ApiTypes, PcSound, At
  <2>2. Goes(r, "reread") /\ UNCHANGED <<recent, asked, overlap>>
    BY <1>12, <2>1, ZenonT(60) DEF Stores, Goes, Pcs
  <2>3. /\ StoredBy(r).job = r /\ ~StoredBy(r).expired
        /\ records[HeaderOf[r]].job = None => StoredBy(r).hash = BodyOf[r]
    BY <1>2, <1>12, <2>1, StoredTyped, ZenonT(60)
  <2>4. /\ records'[HeaderOf[r]] = StoredBy(r)
        /\ \A k \in Keys : k # HeaderOf[r] => records'[k] = records[k]
    BY <1>12, <2>1, ZenonT(60) DEF Stores, ApiTypes
  <2>5. \A k \in Keys : /\ ~records'[k].expired
                        /\ records[k].job # None => records'[k].job # None
    BY <1>2, <1>12, <2>3, <2>4, ZenonT(60)
  <2>6. Served'
    BY <1>2, <1>12, <2>1, <2>2, <2>3, <2>4, <2>5, ServedMove, ZenonT(60)
  <2>7. Sequential'
    BY <1>1, <1>12, <2>1, <2>2, <2>3, <2>4, SequentialMove, ZenonT(60)
  <2> QED
    BY <2>6, <2>7
<1>13. CASE r \in Job /\ Rereads(r)
  <2>1. /\ Goes(r, "done") /\ UNCHANGED <<asked, records, overlap>> /\ HeaderOf[r] \in Keys
        /\ recent' = recent \cup {r} /\ At(r, "reread")
    BY <1>2, <1>13, ZenonT(60) DEF Rereads, Goes, Pcs, ApiTypes, PcSound, At, Answered
  <2>2. records[HeaderOf[r]].job # None /\ reply'[r] = records[HeaderOf[r]].job
    BY <1>2, <1>13, <2>1, ZenonT(60) DEF Rereads, Served, At
  <2>3. InTurn(r) => records[HeaderOf[r]].hash = BodyOf[r]
    BY <1>13, <2>1, ZenonT(60) DEF Sequential, At
  <2>4. Served'
    BY <1>2, <2>1, <2>2, ServedMove, ZenonT(60)
  <2>5. Sequential'
    BY <1>1, <2>1, <2>2, <2>3, SequentialMove, ZenonT(60)
  <2> QED
    BY <2>4, <2>5
<1> QED
  BY <1>0, <1>4, <1>5, <1>6, <1>7, <1>8, <1>9, <1>10, <1>11, <1>12, <1>13, ZenonT(60) DEF ChatStep

\* A request that arrives finds the key served, or in use, or neither.
LEMMA IdemArrive ==
  ASSUME ApiAssumption, ApiTypes, Served, Sequential, NEW r \in Request, Arrive(r)
  PROVE  Served' /\ Sequential'
<1>0. Job \subseteq Request /\ recent \subseteq Job /\ asked \subseteq Job
  BY ZenonT(60) DEF Request, ApiTypes
<1>1. /\ req[r].pc = "new" /\ req'[r].pc = "limit" /\ req'[r].seen = SameKey(r) \cap recent
      /\ \A q \in Request : q # r => req'[q] = req[q]
      /\ UNCHANGED <<asked, records, reply, recent>>
      /\ overlap' = IF \E q \in SameKey(r) : InFlight(q) THEN overlap \cup {HeaderOf[r]} ELSE overlap
  BY ZenonT(60) DEF Arrive, At, ApiTypes, cvars
<1>2. req'[r].seen # {} => HeaderOf[r] \in Keys /\ records[HeaderOf[r]].job # None
  BY <1>1, SMTT(60) DEF Served, SameKey
<1>3. r \notin asked
  BY <1>0, <1>1, ZenonT(60) DEF Served
<1>4. Served'
  <2>1. ASSUME NEW q \in Job
        PROVE  /\ req'[q].pc = "reread" => records'[HeaderOf[q]].job # None
               /\ req'[q].seen # {} => HeaderOf[q] \in Keys /\ records'[HeaderOf[q]].job # None
               /\ req'[q].pc \in {"create", "wait", "store", "reread"} \/ q \in asked' => req'[q].seen = {}
               /\ q \in asked' => req'[q].pc \in {"wait", "store", "reread", "done"}
    <3>1. CASE q = r
      BY <1>1, <1>2, <1>3, <3>1, ZenonT(60)
    <3>2. CASE q # r
      BY <1>0, <1>1, <3>2, ZenonT(60) DEF Served
    <3> QED
      BY <3>1, <3>2, ZenonT(60)
  <2> QED
    BY <1>1, <2>1, ZenonT(60) DEF Served
<1>5. \A q \in Job : InTurn(q)' => InTurn(q)
  BY <1>1, ZenonT(60) DEF InTurn
<1>6. \A q, i \in Job : (InTurn(q)' /\ HeaderOf[q] = HeaderOf[i]
                         /\ InFlight(q)' /\ InFlight(i)') => q = i
  <2>1. SUFFICES ASSUME NEW q \in Job, NEW i \in Job, InTurn(q)', HeaderOf[q] = HeaderOf[i],
                        InFlight(q)', InFlight(i)', q # i
                 PROVE  FALSE
    BY SMTT(60)
  <2>2. HeaderOf[q] \in Keys /\ HeaderOf[q] # None /\ HeaderOf[q] \notin overlap'
    BY <2>1, ZenonT(60) DEF InTurn, Keys
  <2>3. CASE q # r /\ i # r
    BY <1>0, <1>1, <1>5, <2>1, <2>3, ZenonT(60) DEF Sequential, InFlight
  <2>4. CASE q = r
    <3>1. i \in SameKey(r) /\ InFlight(i)
      BY <1>0, <1>1, <2>1, <2>2, <2>4, ZenonT(60) DEF SameKey, InFlight
    <3> QED
      BY <1>1, <2>2, <2>4, <3>1, ZenonT(60)
  <2>5. CASE i = r
    <3>1. q \in SameKey(r) /\ InFlight(q)
      BY <1>0, <1>1, <2>1, <2>2, <2>5, ZenonT(60) DEF SameKey, InFlight
    <3> QED
      BY <1>1, <2>1, <2>2, <2>5, <3>1, ZenonT(60)
  <2> QED
    BY <2>3, <2>4, <2>5, SMTT(60)
<1>7. ASSUME NEW q \in Job
      PROVE  /\ req'[q].pc # "done" => reply'[q] \notin Job
             /\ req'[q].pc \in {"create", "wait", "store", "reread"} => req'[q] = req[q]
  BY <1>0, <1>1, ZenonT(60) DEF Sequential
<1>8. Sequential'
  BY <1>1, <1>5, <1>6, <1>7, ZenonT(60) DEF Sequential
<1> QED
  BY <1>4, <1>8, SMTT(60)

\* Every step, if responses are stored and kept.
LEMMA IdemStep ==
  ASSUME ApiAssumption, ~CanFail, ~CanExpire, ApiTypes, Served, Sequential,
         [Next]_vars
  PROVE  Served' /\ Sequential'
<1>1. ASSUME NEW r \in Request, Arrive(r) PROVE Served' /\ Sequential'
  BY <1>1, IdemArrive, ZenonT(60)
<1>2. ASSUME NEW r \in Request, Handler(r) PROVE Served' /\ Sequential'
  BY <1>2, IdemHandler, ZenonT(60)
<1>3. ASSUME UNCHANGED <<asked, records, req, reply, recent, overlap>> PROVE Served' /\ Sequential'
  BY <1>3, ZenonT(60) DEF Served, Sequential, InTurn, InFlight
<1>4. CASE (\E r \in Async : CancelJob(r)) \/ JobService \/ Tick \/ UNCHANGED vars
  <2>1. UNCHANGED <<asked, records, req, reply, recent, overlap>>
    BY <1>4, ZenonT(60) DEF CancelJob, JobService, Charge, Tell, Tick, vars, cvars
  <2> QED
    BY <1>3, <2>1
<1>5. CASE Die \/ \E k \in Keys : Expire(k)
  BY <1>5, SMTT(60) DEF Die, Expire
<1> QED
  BY <1>1, <1>2, <1>4, <1>5, ZenonT(60) DEF Next

\* Nothing is served at the start.
LEMMA IdemInit ==
  ASSUME ApiAssumption, Init
  PROVE  Served /\ Sequential
BY ZenonT(60) DEF Init, CInit, NewReq, NoRecord, ApiAssumption, Request, Served,
       Sequential, InTurn, InFlight

\* AnsweredKeyNeverRuns: a request that arrives after another one with its key was
\* answered runs no job, if the response was stored and has not expired
\* (ResolveIdempotency, StoreIdempotencyResponse).
THEOREM LaterRequestsReplay ==
  ASSUME ApiAssumption, ~CanFail, ~CanExpire
  PROVE  Spec => []AnsweredKeyNeverRuns
<1>1. Served => AnsweredKeyNeverRuns
  BY ZenonT(60) DEF Served, AnsweredKeyNeverRuns
<1> QED
  BY <1>1, TypesInit, TypesStep, IdemInit, IdemStep, PTL DEF Spec

\* SequentialSameAnswer: requests of a key that follow one another are given one
\* response, and it answers the body they have in common (chatCompletionsHandler).
THEOREM InTurnSameAnswer ==
  ASSUME ApiAssumption, ~CanFail, ~CanExpire
  PROVE  Spec => []SequentialSameAnswer
<1>1. Sequential => SequentialSameAnswer
  BY SMTT(60) DEF Sequential, InTurn, SequentialSameAnswer
<1> QED
  BY <1>1, TypesInit, TypesStep, IdemInit, IdemStep, PTL DEF Spec
=============================================================================
