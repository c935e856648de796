------------------------------ MODULE Catalog ------------------------------
(***************************************************************************)
(* The model catalog in the coordinator's database: catalog sync, which    *)
(* upserts the manifests of a directory one transaction each, possibly     *)
(* from several requests at a time; API keys and the models they may use;  *)
(* and the queries by which models are listed, nodes are chosen and their  *)
(* results verified.                                                       *)
(*                                                                         *)
(* A manifest is what the rows are told apart by: its model, its revision  *)
(* (the version), the hash of its weights, its runtime release with the    *)
(* hash of the binary of each platform, its terms (prices and limits), its *)
(* status, whether it parses (valid) and whether the database and the      *)
(* release file it names accept it (complete).                             *)
(*                                                                         *)
(* upsertManifest locks the row of its model, then that of its release,    *)
(* then the artifact rows of the release in the order in which Go iterates *)
(* over a map, that is in any order.  The other rows belong to the model.  *)
(***************************************************************************)
EXTENDS Integers, Sequences, FiniteSets, FiniteSetsExt, SequencesExt

CONSTANTS
    Catalogs,    \* the directories synced: sequences of manifests
    Key,         \* API keys
    Asks,        \* the sets of models keys are asked for with; {} means none named
    Proc,        \* sync requests that run at a time
    MaxClock,    \* bound on the clock by which transactions begin
    LegacyHash,  \* the hash migration 000012 kept for the releases of before, or NoHash
    CanFail,     \* may a statement fail, or the process stop?
    NoHash

Manifest == UNION {ToSet(dir) : dir \in Catalogs}
Model    == {mf.model : mf \in Manifest}
Revision == {mf.revision : mf \in Manifest}
Release  == {mf.release : mf \in Manifest}
Platform == UNION {DOMAIN mf.hashes : mf \in Manifest}

CatalogAssumption ==
    /\ IsFiniteSet(Catalogs) /\ MaxClock \in Nat
    /\ \A mf \in Manifest : {"valid", "complete", "model", "revision", "sha", "release",
                             "hashes", "terms", "status"} = DOMAIN mf

VARIABLES
    models,    \* models: status
    releases,  \* runtime_release_artifacts of each release, by platform key
    versions,  \* model_versions with their artifacts, profile and price
    limits,    \* model_manifest_limits
    keys,      \* api_keys and api_key_model_permissions
    sync,      \* SyncCatalog of each request
    held,      \* the rows its transaction has locked
    last       \* the manifest last committed for a model (history)

vars == <<models, releases, versions, limits, keys, sync, held, last>>

Absent == [at |-> 0, shas |-> {}, release |-> "none", terms |-> "none"]
Idle   == [state |-> "idle", dir |-> <<>>, i |-> 0, began |-> 0, count |-> 0, skipped |-> FALSE]

ModelRow(m)          == <<"model", m>>
ReleaseRow(r)        == <<"release", r>>
ArtifactRow(r, plat) == <<"artifact", r, plat>>

-----------------------------------------------------------------------------
(* Row locks.                                                              *)

Rows(p) == LET mf == sync[p].dir[sync[p].i]
           IN  {ModelRow(mf.model), ReleaseRow(mf.release)}
                 \cup {ArtifactRow(mf.release, plat) : plat \in DOMAIN mf.hashes}

Free(row) == \A q \in Proc : row \notin held[q]

\* The rows the next statement of p may be about.
NextRows(p) ==
    LET mf == sync[p].dir[sync[p].i]
    IN  CASE ModelRow(mf.model) \notin held[p]     -> {ModelRow(mf.model)}
          [] ReleaseRow(mf.release) \notin held[p] -> {ReleaseRow(mf.release)}
          [] OTHER -> Rows(p) \ held[p]

AtManifest(p) == /\ sync[p].state = "running" /\ sync[p].i <= Len(sync[p].dir)
                 /\ sync[p].dir[sync[p].i].valid
Working(p) == AtManifest(p) /\ sync[p].began # 0

\* Go picks the next platform and the statement then waits for its row: p is stuck
\* when it may have picked one that is locked by a process that is stuck.
Stuck(S) == \A p \in S : /\ Working(p)
                         /\ \E row \in NextRows(p) : \E q \in S \ {p} : row \in held[q]
Deadlocked(p) == \E S \in SUBSET Proc : p \in S /\ Stuck(S)

-----------------------------------------------------------------------------
(* SyncCatalog.                                                            *)

catalogSyncHandler(p, dir) ==
    /\ sync[p].state # "running"
    /\ sync' = [sync EXCEPT ![p] = [Idle EXCEPT !.state = "running", !.dir = dir, !.i = 1]]
    /\ UNCHANGED <<models, releases, versions, limits, keys, held, last>>

\* A manifest that does not parse is passed over.
SkipManifest(p) ==
    /\ sync[p].state = "running" /\ sync[p].i <= Len(sync[p].dir)
    /\ ~sync[p].dir[sync[p].i].valid
    /\ sync' = [sync EXCEPT ![p].i = @ + 1, ![p].skipped = TRUE]
    /\ UNCHANGED <<models, releases, versions, limits, keys, held, last>>

\* The time, by the order of what is recorded of it.
Now == 1 + Max({0} \cup {versions[m][v].at : m \in Model, v \in Revision}
                   \cup {sync[p].began : p \in Proc})

\* upsertManifest begins a transaction: now() is this time until it ends.
BeginTx(p) ==
    /\ AtManifest(p) /\ sync[p].began = 0 /\ Now <= MaxClock
    /\ sync' = [sync EXCEPT ![p].began = Now]
    /\ UNCHANGED <<models, releases, versions, limits, keys, held, last>>

\* The next INSERT ... ON CONFLICT DO UPDATE of upsertManifest locks its row.
UpsertRow(p) ==
    /\ Working(p)
    /\ \E row \in NextRows(p) : Free(row) /\ held' = [held EXCEPT ![p] = @ \cup {row}]
    /\ UNCHANGED <<models, releases, versions, limits, keys, sync, last>>

\* upsertRuntimeArtifacts: the platforms of the release file are set, others stay.
RuntimeArtifacts(mf) ==
    [plat \in Platform \cup {"legacy"} |->
        IF plat \in DOMAIN mf.hashes THEN mf.hashes[plat] ELSE releases[mf.release][plat]]

\* The row of a version that exists keeps its created_at and gains an artifact.
VersionRow(mf, now) ==
    LET row == versions[mf.model][mf.revision]
    IN  [at |-> IF row.at = 0 THEN now ELSE row.at,
         shas |-> row.shas \cup {mf.sha},
         release |-> mf.release,
         terms |-> mf.terms]

\* model_manifest_limits has one row for each model, whatever the version.
LimitsRow(mf) == [limits EXCEPT ![mf.model] = mf.terms]

upsertManifest(p) ==
    /\ Working(p) /\ held[p] = Rows(p)
    /\ LET mf == sync[p].dir[sync[p].i] IN
       /\ mf.complete
       /\ models' = [models EXCEPT ![mf.model] = mf.status]
       /\ releases' = [releases EXCEPT ![mf.release] = RuntimeArtifacts(mf)]
       /\ versions' = [versions EXCEPT ![mf.model][mf.revision] = VersionRow(mf, sync[p].began)]
       /\ limits' = LimitsRow(mf)
       /\ last' = [last EXCEPT ![mf.model] = {mf}]
    /\ sync' = [sync EXCEPT ![p].i = @ + 1, ![p].began = 0, ![p].count = @ + 1]
    /\ held' = [held EXCEPT ![p] = {}]
    /\ UNCHANGED keys

\* The limits are written outside the transaction: mutant of SyncFails.
SyncFailsLimits(p) ==
    /\ Working(p)
    /\ LET mf == sync[p].dir[sync[p].i]
       IN  /\ CanFail \/ (held[p] = Rows(p) /\ ~mf.complete) \/ Deadlocked(p)
           /\ limits' = IF models[mf.model] # "none" THEN LimitsRow(mf) ELSE limits
    /\ sync' = [sync EXCEPT ![p].state = "error", ![p].began = 0]
    /\ held' = [held EXCEPT ![p] = {}]
    /\ UNCHANGED <<models, releases, versions, keys, last>>

\* A statement of upsertManifest fails: its transaction is rolled back and the sync
\* returns; the manifests before stay.
SyncFails(p) ==
    /\ Working(p)
    /\ \/ CanFail
       \/ held[p] = Rows(p) /\ ~sync[p].dir[sync[p].i].complete
       \/ Deadlocked(p)
    /\ sync' = [sync EXCEPT ![p].state = "error", ![p].began = 0]
    /\ held' = [held EXCEPT ![p] = {}]
    /\ UNCHANGED <<models, releases, versions, limits, keys, last>>

\* The end of the directory; a sync that found only manifests it skipped fails.
SyncCatalog(p) ==
    /\ sync[p].state = "running" /\ sync[p].i > Len(sync[p].dir)
    /\ sync' = [sync EXCEPT ![p].state = IF sync[p].count = 0 /\ sync[p].skipped THEN "error"
                                         ELSE "done"]
    /\ UNCHANGED <<models, releases, versions, limits, keys, held, last>>

-----------------------------------------------------------------------------
(* The queries.                                                            *)

Stored(m) == {v \in Revision : versions[m][v].at # 0}
Latest(m) == CHOOSE v \in Stored(m) : \A w \in Stored(m) : versions[m][w].at <= versions[m][v].at
Listed    == {m \in Model : models[m] \in {"alpha", "active"} /\ Stored(m) # {}}

\* What /v1/models says of a listed model: version and price of its latest version,
\* limits of the model.
ListModels(m) == [version |-> Latest(m), price |-> versions[m][Latest(m)].terms,
                  limits |-> limits[m]]

HashesOf(r) == {releases[r][plat] : plat \in Platform \cup {"legacy"}} \ {NoHash}

\* The hashes a result is verified against: those of the latest version; which of
\* the weights of a version that was rebuilt is not determined by the query.
ModelHashes(m) ==
    LET row == versions[m][Latest(m)]
    IN  {[model |-> sha, runtimes |-> HashesOf(row.release)] : sha \in row.shas}

RuntimeHashValid(hashes, hash) == hash \in hashes.runtimes

\* Whatever row the query picks, a result with these hashes passes verifyCompletion.
Verifies(m, sha, hash) ==
    \A hashes \in ModelHashes(m) : hashes.model = sha /\ RuntimeHashValid(hashes, hash)

\* The hashes EligibleNodes accepts: of any version of the model.
EligibleHashes(m) ==
    UNION {versions[m][v].shas \X HashesOf(versions[m][v].release) : v \in Stored(m)}

-----------------------------------------------------------------------------
(* API keys.                                                               *)

\* Without models named, the key gets those the catalog has now.
CreateAPIKey(k, asked) ==
    /\ keys[k].granted = {} /\ asked \subseteq {m \in Model : models[m] # "none"}
    /\ keys' = [keys EXCEPT ![k] =
                  [asked |-> asked,
                   granted |-> IF asked = {} THEN {m \in Model : models[m] \in {"alpha", "active"}}
                               ELSE asked]]
    /\ UNCHANGED <<models, releases, versions, limits, sync, held, last>>

\* A model of a key: it was granted and is listed.
authorizedModel(k, m) == m \in keys[k].granted /\ m \in Listed

-----------------------------------------------------------------------------
Init ==
    /\ models = [m \in Model |-> "none"]
    /\ releases = [r \in Release |-> [plat \in Platform \cup {"legacy"} |->
                                        IF plat = "legacy" THEN LegacyHash ELSE NoHash]]
    /\ versions = [m \in Model |-> [v \in Revision |-> Absent]]
    /\ limits = [m \in Model |-> "none"]
    /\ keys = [k \in Key |-> [asked |-> {}, granted |-> {}]]
    /\ sync = [p \in Proc |-> Idle]
    /\ held = [p \in Proc |-> {}]
    /\ last = [m \in Model |-> {}]

Next ==
    \/ \E p \in Proc : \/ \E dir \in Catalogs : catalogSyncHandler(p, dir)
                       \/ SkipManifest(p) \/ BeginTx(p) \/ UpsertRow(p) \/ upsertManifest(p)
                       \/ SyncFails(p) \/ SyncCatalog(p)
    \/ \E k \in Key, asked \in Asks : CreateAPIKey(k, asked)

Spec == Init /\ [][Next]_vars

-----------------------------------------------------------------------------
(* Properties.                                                             *)

\* The rows have their types, and only a sync that runs holds locks.
TypeOK ==
    /\ models \in [Model -> {"none", "alpha", "active", "deprecated", "disabled"}]
    /\ \A p \in Proc : /\ sync[p].state \in {"idle", "running", "done", "error"}
                       /\ sync[p].state # "running" => held[p] = {}

\* Two syncs never wait for each other, although each takes the artifact rows of a
\* release in an order of its own: the row of the release is updated before them.
SyncsNeverDeadlock == \A p \in Proc : ~Deadlocked(p)

\* A sync that reports success has stored every manifest of its directory that
\* parses, whatever it skipped and whoever synced beside it.
SuccessStoresAll ==
    \A p \in Proc : sync[p].state = "done" =>
        \A i \in DOMAIN sync[p].dir : LET mf == sync[p].dir[i] IN
            mf.valid => mf.sha \in versions[mf.model][mf.revision].shas

\* What is shown of a model comes from one manifest, also when a sync fails half way
\* or two run at a time: once the latest version is the one last committed, its
\* price and limits are that manifest's.
OneManifestShown ==
    \A m \in Listed : \A mf \in last[m] : mf.revision = Latest(m) =>
        ListModels(m) = [version |-> mf.revision, price |-> mf.terms, limits |-> mf.terms]

\* What is shown of a model is what the catalog last synced says of it.
CatalogShown ==
    \A m \in Listed : \A mf \in last[m] :
        ListModels(m) = [version |-> mf.revision, price |-> mf.terms, limits |-> mf.terms]

\* A node that runs the manifest last committed, on any platform of its release,
\* may be given work and its results verify.
LatestNodesServe ==
    \A m \in Listed : \A mf \in last[m] : \A plat \in DOMAIN mf.hashes :
        mf.revision = Latest(m) =>
            /\ <<mf.sha, mf.hashes[plat]>> \in EligibleHashes(m)
            /\ Verifies(m, mf.sha, mf.hashes[plat])

\* Syncs that race, fail or go back to an earlier catalog end, and leave one catalog:
\* all of it stored, shown as it was written, and served by the nodes that run it.
CatalogAgrees == SyncsNeverDeadlock /\ SuccessStoresAll /\ OneManifestShown /\ LatestNodesServe

\* The scheduler offers work only to nodes whose hashes are verified: the result of
\* a node that EligibleNodes accepts passes verifyCompletion.
EligibleVerifies ==
    \A m \in Listed : \A pair \in EligibleHashes(m) : Verifies(m, pair[1], pair[2])

\* A sync of a release replaces the hash kept for it from before.
LegacyEnds ==
    \A p \in Proc : sync[p].state = "done" =>
        \A i \in DOMAIN sync[p].dir : LET mf == sync[p].dir[i] IN
            mf.valid => LegacyHash \notin HashesOf(mf.release)

\* A key may use only models that were named for it.
GrantsAreExplicit == \A k \in Key : \A m \in Model : authorizedModel(k, m) => m \in keys[k].asked
=============================================================================
