--------------------------- MODULE RuntimeManager ---------------------------
(***************************************************************************)
(* The runtime directory: Manager.Ensure, which the agent and run-local    *)
(* call in processes of their own on one data directory, and               *)
(* Manager.Rollback.                                                       *)
(*                                                                         *)
(* A file or directory operation is one step.  A process may stop before   *)
(* any step, and in the middle of writing a JSON file, which is then       *)
(* unreadable, or of removing a directory, of which anything may be left.  *)
(***************************************************************************)
EXTENDS Integers, FiniteSets

CONSTANTS
    Proc,       \* processes that use the directory
    Release,    \* releases: version, platform key and SHA-256 of the artifact
    DirOf,      \* the directory a release is installed in
    Signed,     \* releases whose manifest carries a valid signature
    CanRollback,\* may Rollback be called?
    MaxCrash,   \* how often a process stops
    CanFail,    \* may a download fail?
    None

Dir == {DirOf[r] : r \in Release}

RuntimeAssumption ==
    /\ DOMAIN DirOf = Release /\ Signed \subseteq Release
    /\ MaxCrash \in Nat /\ None # "torn"
    /\ Release \cap {None, "none", "part", "torn"} = {}

VARIABLES
    dirs,      \* the versioned directories: their files and their marker
    current,   \* current.json
    previous,  \* previous.json
    proc,      \* the call each process is in
    crashes,   \* how often a process has stopped
    before     \* the runtime that current.json named before the one it names (history)

vars == <<dirs, current, previous, proc, crashes, before>>

\* Files: all of one release, a remainder, or no directory.
NoDir == [files |-> "none", marker |-> None]
Idle  == [pc |-> "idle", release |-> None]

\* A JSON file that does not parse reads like one that is not there.
Readable(file) == file # None /\ file # "torn"
At(p, pc) == proc[p].pc = pc
Goto(p, pc) == proc' = [proc EXCEPT ![p].pc = pc]
D(p) == DirOf[proc[p].release]

-----------------------------------------------------------------------------
(* Ensure.                                                                 *)

\* VerifySignature and SelectArtifact.
Call(p, r) ==
    /\ At(p, "idle") \/ At(p, "running") \/ At(p, "failed")
    /\ proc' = [proc EXCEPT ![p] = [pc |-> IF r \in Signed THEN "check" ELSE "failed",
                                    release |-> r]]
    /\ UNCHANGED <<dirs, current, previous, crashes, before>>

Becomes(r) ==
    /\ current' = r
    /\ before' = IF Readable(current) /\ current # r THEN current ELSE before

\* readInstalled: the marker is of this artifact.
Installed(r) == dirs[DirOf[r]].marker = r

\* An installed release becomes current without a download; an error of that write
\* is ignored.
Check(p) ==
    /\ At(p, "check")
    /\ IF Installed(proc[p].release)
       THEN Goto(p, "running") /\ Becomes(proc[p].release)
       ELSE Goto(p, "fetch") /\ UNCHANGED <<current, before>>
    /\ UNCHANGED <<dirs, previous, crashes>>

\* The artifact and its support artifacts are downloaded, verified and extracted in
\* a directory of the process's own, which an error removes.
Fetch(p) ==
    /\ At(p, "fetch")
    /\ \/ Goto(p, "remove")
       \/ CanFail /\ Goto(p, "failed")
    /\ UNCHANGED <<dirs, current, previous, crashes, before>>

\* The old directory left in place: mutant of RemoveTarget.
RemoveNothing(p) ==
    /\ At(p, "remove")
    /\ Goto(p, "promote")
    /\ UNCHANGED <<dirs, current, previous, crashes, before>>

RemoveTarget(p) ==
    /\ At(p, "remove")
    /\ dirs' = [dirs EXCEPT ![D(p)] = NoDir]
    /\ Goto(p, "promote")
    /\ UNCHANGED <<current, previous, crashes, before>>

\* The marker first and then a copy, file by file: mutant of Promote.
PromoteMarked(p) ==
    /\ At(p, "promote")
    /\ dirs' = [dirs EXCEPT ![D(p)] = [files |-> "part", marker |-> proc[p].release]]
    /\ Goto(p, "mark")
    /\ UNCHANGED <<current, previous, crashes, before>>

\* os.Rename fails on a directory that is there again.
Promote(p) ==
    /\ At(p, "promote")
    /\ IF dirs[D(p)].files = "none"
       THEN dirs' = [dirs EXCEPT ![D(p)].files = proc[p].release] /\ Goto(p, "mark")
       ELSE UNCHANGED dirs /\ Goto(p, "failed")
    /\ UNCHANGED <<current, previous, crashes, before>>

\* The marker; writeJSON makes the directory if it is gone.
Mark(p) ==
    /\ At(p, "mark")
    /\ dirs' = [dirs EXCEPT ![D(p)] = [files  |-> IF @.files = "none" THEN "part" ELSE @.files,
                                       marker |-> proc[p].release]]
    /\ Goto(p, "keep")
    /\ UNCHANGED <<current, previous, crashes, before>>

\* The runtime that was current becomes the previous one ...
KeepPrevious(p) ==
    /\ At(p, "keep")
    /\ previous' = IF Readable(current) /\ DirOf[current] # D(p) THEN current ELSE previous
    /\ Goto(p, "switch")
    /\ UNCHANGED <<dirs, current, crashes, before>>

\* ... and the new one current.
Switch(p) ==
    /\ At(p, "switch")
    /\ Becomes(proc[p].release)
    /\ Goto(p, "running")
    /\ UNCHANGED <<dirs, previous, crashes>>

-----------------------------------------------------------------------------
(* Rollback.                                                               *)

Rollback(p) ==
    /\ CanRollback /\ At(p, "idle") /\ Readable(previous)
    /\ proc' = [proc EXCEPT ![p] = [pc |-> "hold", release |-> previous]]
    /\ UNCHANGED <<dirs, current, previous, crashes, before>>

RollbackKeep(p) ==
    /\ At(p, "hold")
    /\ previous' = IF Readable(current) THEN current ELSE previous
    /\ Goto(p, "swap")
    /\ UNCHANGED <<dirs, current, crashes, before>>

RollbackSwitch(p) ==
    /\ At(p, "swap")
    /\ Becomes(proc[p].release)
    /\ proc' = [proc EXCEPT ![p] = Idle]
    /\ UNCHANGED <<dirs, previous, crashes>>

-----------------------------------------------------------------------------
\* What a process that stops leaves of the file or directory it was changing.
Left(p) ==
    \/ UNCHANGED <<dirs, current, previous>>
    \/ At(p, "remove") /\ dirs[D(p)] # NoDir
       /\ \E m \in {dirs[D(p)].marker, None} :
            dirs' = [dirs EXCEPT ![D(p)] = [files |-> "part", marker |-> m]]
       /\ UNCHANGED <<current, previous>>
    \/ At(p, "mark") /\ dirs' = [dirs EXCEPT ![D(p)].marker = "torn"] /\ UNCHANGED <<current, previous>>
    \/ Readable(current) /\ (At(p, "hold") \/ (At(p, "keep") /\ DirOf[current] # D(p)))
       /\ previous' = "torn" /\ UNCHANGED <<dirs, current>>
    \/ (At(p, "switch") \/ At(p, "swap") \/ (At(p, "check") /\ Installed(proc[p].release)))
       /\ current' = "torn" /\ UNCHANGED <<dirs, previous>>

Crash(p) ==
    /\ crashes < MaxCrash
    /\ ~At(p, "idle")
    /\ Left(p)
    /\ crashes' = crashes + 1
    /\ proc' = [proc EXCEPT ![p] = Idle]
    /\ UNCHANGED before

Init ==
    /\ dirs = [d \in Dir |-> NoDir]
    /\ current = None /\ previous = None
    /\ proc = [p \in Proc |-> Idle]
    /\ crashes = 0 /\ before = None

Ensure(p) ==
    \/ Check(p) \/ Fetch(p) \/ RemoveTarget(p) \/ Promote(p)
    \/ Mark(p) \/ KeepPrevious(p) \/ Switch(p)

Next ==
    \E p \in Proc :
      \/ \E r \in Release : Call(p, r)
      \/ Ensure(p)
      \/ Rollback(p) \/ RollbackKeep(p) \/ RollbackSwitch(p)
      \/ Crash(p)

Spec == Init /\ [][Next]_vars

\* A process that is called goes on, downloads succeed now and then, and a process
\* that always wants the same release calls until it has it.
Fairness ==
    \A p \in Proc :
      /\ WF_vars(Ensure(p))
      /\ SF_vars(Fetch(p) /\ proc'[p].pc = "remove")
      /\ \A r \in Release : WF_vars((At(p, "idle") \/ At(p, "failed")) /\ Call(p, r))

-----------------------------------------------------------------------------
(* Properties.                                                             *)

\* The files and the calls are what they can be; a marker is a file of a directory
\* that is there.
TypeOK ==
    /\ \A d \in Dir : /\ dirs[d].files \in Release \cup {"none", "part"}
                      /\ dirs[d].marker \in Release \cup {None, "torn"}
                      /\ dirs[d].marker # None => dirs[d].files # "none"
    /\ current \in Release \cup {None, "torn"}
    /\ previous \in Release \cup {None, "torn"}
    /\ \A p \in Proc : proc[p].pc \in {"idle", "check", "fetch", "remove", "promote", "mark",
                                       "keep", "switch", "hold", "swap", "running", "failed"}

\* A marker that names a release stands in a directory with all of that release's
\* verified files (manager.go Ensure writes it last): whatever step a process
\* stopped at, a later call installs again or finds a whole runtime.  A release
\* built again in the directory of another one is outside it (PromotionIsAtomic).
MarkerTellsTruth == \A d \in Dir : dirs[d].marker \in Release => dirs[d].files = dirs[d].marker

\* current.json and previous.json name releases that are installed, so that a
\* rollback finds its runtime (manager.go Ensure, Rollback).
CurrentInstalled ==
    /\ Readable(current) => dirs[DirOf[current]].files = current
    /\ Readable(previous) => dirs[DirOf[previous]].files = previous

\* Whatever step of Ensure or Rollback a process stopped at, the marker, current.json
\* and previous.json name only runtimes that are there and whole.
RuntimeInstalled == MarkerTellsTruth /\ CurrentInstalled

\* A process that keeps calling has its runtime in the end, whatever a stop left
\* behind (manager.go Ensure removes the target before it renames).
InstallsInTheEnd == \A p \in Proc : []<>At(p, "running")

\* "Node atomically promotes the binary into the versioned runtime directory": a
\* directory that holds a whole release never stops doing so.
PromotionIsAtomic ==
    [][\A d \in Dir : dirs[d].files \in Release => dirs'[d].files \in Release]_vars

\* "The manager verifies the manifest, downloads artifacts to a temporary path,
\* checks SHA-256 and byte length, extracts archives, promotes into a versioned
\* runtime directory": once every call has returned, a process that was given a
\* runtime has all of its files.
RunsItsRelease ==
    (\A p \in Proc : proc[p].pc \in {"idle", "running", "failed"})
    => \A p \in Proc : At(p, "running") => dirs[D(p)].files = proc[p].release

\* "Rollback retains the previous known-good runtime": once another runtime has
\* been current, previous.json names one that is not the current one.
PreviousKept ==
    ((\A p \in Proc : At(p, "idle") \/ At(p, "running")) /\ before # None /\ Readable(current))
    => Readable(previous) /\ previous # current
=============================================================================
