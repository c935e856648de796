----------------------------- MODULE ModelCache -----------------------------
(***************************************************************************)
(* The model cache: Cache.Ensure and EnsureLicense, called by the agent's  *)
(* Prepare and by run-local, each a process of its own on one directory.   *)
(*                                                                         *)
(* A file is an inode, the sequence of the blocks written to it; model m's *)
(* artifact is the blocks 1 .. Size[m], and 0 is any other block.  Opening *)
(* gives a process a handle on the inode, which a rename does not change.  *)
(***************************************************************************)
EXTENDS Integers, Sequences, FiniteSets, FiniteSetsExt, SequencesExt, Functions

CONSTANTS
    Proc,            \* processes that use the cache
    Model,           \* models
    Size,            \* blocks of a model's artifact
    QuotaBytes,      \* Cache.QuotaBytes, in blocks
    Inode,           \* inodes
    MaxCrash,        \* how often a process stops
    CanCut,          \* may a connection break?
    CanCorrupt,      \* may a block arrive wrong?
    MaxIgnore,       \* how often the server answers a Range request with 200
    CanFail,         \* may the license file not be written?
    None

CacheAssumption ==
    /\ Size \in [Model -> Nat \ {0}]
    /\ QuotaBytes \in Nat \ {0} /\ MaxCrash \in Nat /\ MaxIgnore \in Nat
    /\ None \notin Inode

VARIABLES
    data,     \* the blocks of an inode
    partial,  \* the inode of <sha>.partial
    final,    \* the inode of <sha>.gguf
    recent,   \* the cached models, by modification time, oldest first
    license,  \* models whose <sha>.LICENSE.txt is there
    proc,     \* the call each process is in
    crashes,  \* how often a process has stopped
    ignored   \* how often the server has ignored a Range

vars == <<data, partial, final, recent, license, proc, crashes, ignored>>

Whole(m) == [i \in 1 .. Size[m] |-> i]
Idle == [pc |-> "idle", model |-> None, fd |-> None, append |-> FALSE, offset |-> 0, written |-> 0]

At(p, pc) == proc[p].pc = pc
M(p) == proc[p].model
Goto(p, pc) == proc' = [proc EXCEPT ![p].pc = pc]
\* A return with an error closes the file.
Fails(p) == proc' = [proc EXCEPT ![p] = [Idle EXCEPT !.pc = "failed", !.model = @]]

Used == Range(partial) \cup Range(final) \cup {proc[p].fd : p \in Proc}
FreeInode == CHOOSE i \in Inode : i \notin Used

Touch(m) == recent' = Append(SelectSeq(recent, LAMBDA x : x # m), m)

-----------------------------------------------------------------------------
(* Ensure.                                                                 *)

Call(p, m) ==
    /\ At(p, "idle") \/ At(p, "loaded") \/ At(p, "failed")
    /\ proc' = [proc EXCEPT ![p] = [Idle EXCEPT !.pc = "check", !.model = m]]
    /\ UNCHANGED <<data, partial, final, recent, license, crashes, ignored>>

\* The length alone: mutant of verifyExisting.
verifyLength(ino, m) == ino # None /\ Len(data[ino]) = Size[m]

\* verifyExisting: a file of the right length and hash.
verifyExisting(ino, m) == ino # None /\ data[ino] = Whole(m)

CheckFinal(p) ==
    /\ At(p, "check")
    /\ IF verifyExisting(final[M(p)], M(p))
       THEN Goto(p, "evict") /\ Touch(M(p))
       ELSE Goto(p, "open") /\ UNCHANGED recent
    /\ UNCHANGED <<data, partial, final, license, crashes, ignored>>

\* A partial file that is there is appended to; an empty one is written from 0.
OpenPartial(p) ==
    /\ At(p, "open")
    /\ LET m == M(p)
           ino == IF partial[m] = None THEN FreeInode ELSE partial[m]
           size == IF partial[m] = None THEN 0 ELSE Len(data[ino])
       IN  /\ proc' = [proc EXCEPT ![p] = [@ EXCEPT !.pc = "request", !.fd = ino,
                                             !.append = size > 0, !.offset = size]]
           /\ partial' = [partial EXCEPT ![m] = ino]
           /\ data' = [data EXCEPT ![ino] = IF size > 0 THEN @ ELSE <<>>]
    /\ UNCHANGED <<final, recent, license, crashes, ignored>>

\* 200 to a Range request: the whole file comes, and replaces what is there.
Restart(p) ==
    /\ proc' = [proc EXCEPT ![p].pc = "copy", ![p].offset = 0]
    /\ data' = [data EXCEPT ![proc[p].fd] = <<>>]
    /\ ignored' = ignored + 1

\* A Range that starts at the end or behind it is answered 416 (RFC 7233).
Request(p) ==
    /\ At(p, "request")
    /\ LET offset == proc[p].offset
       IN  \/ CanCut /\ Fails(p) /\ UNCHANGED <<data, ignored>>
           \/ offset < Size[M(p)] /\ Goto(p, "copy") /\ UNCHANGED <<data, ignored>>
           \/ offset >= Size[M(p)] /\ Fails(p) /\ UNCHANGED <<data, ignored>>
           \/ offset > 0 /\ ignored < MaxIgnore /\ Restart(p)
    /\ UNCHANGED <<partial, final, recent, license, crashes>>

\* A block written at position i; what lies between the end and i reads as zeros.
WriteAt(s, i, b) == [j \in 1 .. Max({i, Len(s)}) |-> IF j = i THEN b ELSE IF j <= Len(s) THEN s[j] ELSE 0]

\* io.Copy.  An O_APPEND handle writes at the end of the file, wherever that is.
CopyBlock(p) ==
    /\ At(p, "copy")
    /\ LET next == proc[p].offset + proc[p].written + 1
           fd == proc[p].fd
       IN  /\ next <= Size[M(p)]
           /\ \/ /\ \E b \in {next} \cup (IF CanCorrupt THEN {0} ELSE {}) :
                      data' = [data EXCEPT ![fd] = IF proc[p].append THEN Append(@, b)
                                                   ELSE WriteAt(@, next, b)]
                 /\ proc' = [proc EXCEPT ![p].written = @ + 1]
              \/ CanCut /\ Fails(p) /\ UNCHANGED data
    /\ UNCHANGED <<partial, final, recent, license, crashes, ignored>>

\* The body has ended: what <sha>.partial names now is verified.
VerifyPartial(p) ==
    /\ At(p, "copy")
    /\ proc[p].offset + proc[p].written = Size[M(p)]
    /\ IF verifyExisting(partial[M(p)], M(p))
       THEN proc' = [proc EXCEPT ![p] = [Idle EXCEPT !.pc = "promote", !.model = M(p)]]
       ELSE Fails(p)
    /\ UNCHANGED <<data, partial, final, recent, license, crashes, ignored>>

\* A link instead of a rename: mutant of Promote.
PromoteLinks(p) ==
    /\ At(p, "promote")
    /\ partial[M(p)] # None
    /\ final' = [final EXCEPT ![M(p)] = partial[M(p)]]
    /\ Touch(M(p))
    /\ Goto(p, "evict")
    /\ UNCHANGED <<data, partial, license, crashes, ignored>>

Promote(p) ==
    /\ At(p, "promote")
    /\ LET m == M(p)
       IN  IF partial[m] = None
           THEN Fails(p) /\ UNCHANGED <<partial, final, recent>>
           ELSE /\ final' = [final EXCEPT ![m] = partial[m]]
                /\ partial' = [partial EXCEPT ![m] = None]
                /\ Touch(m)
                /\ Goto(p, "evict")
    /\ UNCHANGED <<data, license, crashes, ignored>>

Cached == {m \in Model : final[m] # None}
SizeOf(m) == IF final[m] = None THEN 0 ELSE Len(data[final[m]])
Total(ms) == MapThenSumSet(SizeOf, ms)

\* evict: the oldest files, the active one left out, until the rest fits.
Evicted(active) ==
    LET others == SelectSeq(recent, LAMBDA m : m # active)
        Left(k) == Total(Cached \ ToSet(SubSeq(others, 1, k)))
        n == CHOOSE k \in 0 .. Len(others) :
               /\ Left(k) <= QuotaBytes \/ k = Len(others)
               /\ \A j \in 0 .. k - 1 : Left(j) > QuotaBytes
    IN  ToSet(SubSeq(others, 1, n))

\* The caller's own model is the active one.
Evict(p) ==
    /\ At(p, "evict")
    /\ final' = [m \in Model |-> IF m \in Evicted(M(p)) THEN None ELSE final[m]]
    /\ recent' = SelectSeq(recent, LAMBDA m : m \notin Evicted(M(p)))
    /\ Goto(p, "license")
    /\ UNCHANGED <<data, partial, license, crashes, ignored>>

\* EnsureLicense, then StartLlamaServer loads the file.
EnsureLicense(p) ==
    /\ At(p, "license")
    /\ \/ license' = license \cup {M(p)} /\ Goto(p, "loaded")
       \/ CanFail /\ M(p) \notin license /\ Fails(p) /\ UNCHANGED license
    /\ UNCHANGED <<data, partial, final, recent, crashes, ignored>>

-----------------------------------------------------------------------------
\* The process stops; what it has written is there when it starts again.
Crash(p) ==
    /\ crashes < MaxCrash
    /\ ~At(p, "idle")
    /\ proc' = [proc EXCEPT ![p] = Idle]
    /\ crashes' = crashes + 1
    /\ UNCHANGED <<data, partial, final, recent, license, ignored>>

Init ==
    /\ data = [i \in Inode |-> <<>>]
    /\ partial = [m \in Model |-> None] /\ final = [m \in Model |-> None]
    /\ recent = <<>> /\ license = {}
    /\ proc = [p \in Proc |-> Idle]
    /\ crashes = 0 /\ ignored = 0

Ensure(p) ==
    \/ CheckFinal(p) \/ OpenPartial(p) \/ Request(p) \/ CopyBlock(p) \/ VerifyPartial(p)
    \/ Promote(p) \/ Evict(p) \/ EnsureLicense(p)

Next ==
    \E p \in Proc :
      \/ \E m \in Model : Call(p, m)
      \/ Ensure(p)
      \/ Crash(p)

Spec == Init /\ [][Next]_vars

\* A call goes on; its caller calls again after an error; and of the attempts to
\* reach the server, to receive a block and to write the license, some succeed.
Fairness ==
    \A p \in Proc :
      /\ WF_vars(Ensure(p))
      /\ \A m \in Model : WF_vars((At(p, "idle") \/ At(p, "failed")) /\ Call(p, m))
      /\ SF_vars(Request(p) /\ proc'[p].pc = "copy")
      /\ SF_vars(CopyBlock(p) /\ proc'[p].pc = "copy")
      /\ SF_vars(EnsureLicense(p) /\ proc'[p].pc = "loaded")

-----------------------------------------------------------------------------
(* Properties.                                                             *)

\* Files, handles and calls are what they can be; a partial file is no cached one,
\* and recent lists the cached models, each once.
TypeOK ==
    /\ \A m \in Model : partial[m] \in Inode \cup {None} /\ final[m] \in Inode \cup {None}
    /\ (Range(partial) \cap Range(final)) \subseteq {None}
    /\ ToSet(recent) = Cached /\ IsInjective(recent)
    /\ license \subseteq Model
    /\ \A p \in Proc : /\ proc[p].fd \in Inode \cup {None}
                       /\ proc[p].fd # None <=> proc[p].pc \in {"request", "copy"}

\* "Never load an unverified partial file": the file a server was started with is
\* the artifact, block by block, whatever cuts, wrong blocks and stops the download
\* went through (cache.go Ensure verifies before it renames).
LoadedIsGood ==
    \A p \in Proc : At(p, "loaded") /\ final[M(p)] # None => data[final[M(p)]] = Whole(M(p))

\* "excluding the active model": the file of a model that is loaded is in the cache
\* (cache.go evict skips activeSHA256).
ActiveKept == \A p \in Proc : At(p, "loaded") => final[M(p)] # None

\* After a call the cache fits its quota, or holds nothing but the model that was
\* asked for (cache.go evict).
QuotaRespected ==
    \A p \in Proc : At(p, "loaded") => Total(Cached) <= QuotaBytes \/ Cached = {M(p)}

\* A model is loaded only with its license text beside it (cache.go EnsureLicense:
\* "callers treat failure as fatal to model preparation").
LoadedHasLicense == \A p \in Proc : At(p, "loaded") => M(p) \in license

\* A model that Ensure and EnsureLicense prepared is whole, still there, licensed, and
\* within the quota.
CacheSound == LoadedIsGood /\ ActiveKept /\ LoadedHasLicense /\ QuotaRespected

\* "Use HTTP range requests for resumable download": a process that keeps asking
\* for its model has it in the end.
DownloadsInTheEnd == \A p \in Proc : []<>At(p, "loaded")
=============================================================================
