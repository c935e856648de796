----------------------------- MODULE SelfUpdate -----------------------------
(***************************************************************************)
(* `thirdshift update`: Manager.Update downloads a signed release to a     *)
(* directory under the system's temporary one, verifies it and promotes it *)
(* over the binary with renames, each of which is a step a stop may come   *)
(* before.                                                                 *)
(***************************************************************************)
EXTENDS Integers, FiniteSets

CONSTANTS
    Proc,        \* updates that may run at once
    Release,     \* releases a manifest can be of
    Genuine,     \* those whose manifest is signed, for this engine and platform
    First,       \* the binary that is installed at the start
    CanCorrupt,  \* may an artifact arrive changed?
    CanFail,     \* may the new binary not be renamed into place?
    MaxCrash,
    None

\* Binaries: a release's, one with changed bytes, or the first.
Binary == [of : Release \cup {First}, intact : BOOLEAN]

UpdateAssumption ==
    /\ Genuine \subseteq Release /\ First \notin Release
    /\ None \notin Binary /\ MaxCrash \in Nat

VARIABLES
    current,   \* the binary at currentPath
    previous,  \* the binary at previousPath
    upd,       \* the updates under way
    crashes

vars == <<current, previous, upd, crashes>>

Idle == [pc |-> "idle", new |-> None, from |-> None, had |-> FALSE]
At(p, pc) == upd[p].pc = pc
Goto(p, pc) == upd' = [upd EXCEPT ![p].pc = pc]

\* The updater is the binary it replaces.
Update(p, r) ==
    /\ upd[p].pc \in {"idle", "done", "failed"}
    /\ current # None
    /\ \E intact \in {TRUE} \cup (IF CanCorrupt THEN {FALSE} ELSE {}) :
         upd' = [upd EXCEPT ![p] = [pc |-> "verify", new |-> [of |-> r, intact |-> intact],
                                    from |-> current, had |-> previous # None]]
    /\ UNCHANGED <<current, previous, crashes>>

\* VerifySignature, the engine, selectArtifact and VerifyDownloadedArtifact; then the
\* archive is extracted.
Verify(p) ==
    /\ At(p, "verify")
    /\ Goto(p, IF upd[p].new.of \in Genuine /\ upd[p].new.intact THEN "stat" ELSE "failed")
    /\ UNCHANGED <<current, previous, crashes>>

-----------------------------------------------------------------------------
(* promoteBinary.                                                          *)

Stat(p) ==
    /\ At(p, "stat")
    /\ Goto(p, IF current # None THEN "remove" ELSE "promote")
    /\ UNCHANGED <<current, previous, crashes>>

RemovePrevious(p) ==
    /\ At(p, "remove")
    /\ previous' = None
    /\ Goto(p, "retain")
    /\ UNCHANGED <<current, crashes>>

Retain(p) ==
    /\ At(p, "retain")
    /\ IF current = None
       THEN Goto(p, "failed") /\ UNCHANGED <<current, previous>>
       ELSE previous' = current /\ current' = None /\ Goto(p, "promote")
    /\ UNCHANGED crashes

\* A rename out of the temporary directory fails when that is on another volume.
Promote(p) ==
    /\ At(p, "promote")
    /\ \/ current' = upd[p].new /\ Goto(p, "done")
       \/ CanFail /\ Goto(p, "restore") /\ UNCHANGED current
    /\ UNCHANGED <<previous, crashes>>

\* No way back: mutant of Restore.
RestoreNothing(p) ==
    /\ At(p, "restore")
    /\ Goto(p, "failed")
    /\ UNCHANGED <<current, previous, crashes>>

Restore(p) ==
    /\ At(p, "restore")
    /\ IF previous = None
       THEN UNCHANGED <<current, previous>>
       ELSE current' = previous /\ previous' = None
    /\ Goto(p, "failed")
    /\ UNCHANGED crashes

-----------------------------------------------------------------------------
Crash(p) ==
    /\ crashes < MaxCrash
    /\ upd[p].pc \notin {"idle", "done", "failed"}
    /\ upd' = [upd EXCEPT ![p] = Idle]
    /\ crashes' = crashes + 1
    /\ UNCHANGED <<current, previous>>

\* The operator puts the binary that is left back under its name.
PutBack ==
    /\ current = None /\ previous # None
    /\ \A p \in Proc : At(p, "idle")
    /\ current' = previous /\ previous' = None
    /\ UNCHANGED <<upd, crashes>>

Init ==
    /\ current = [of |-> First, intact |-> TRUE]
    /\ previous = None
    /\ upd = [p \in Proc |-> Idle]
    /\ crashes = 0

Step(p) ==
    \/ Verify(p) \/ Stat(p) \/ RemovePrevious(p) \/ Retain(p) \/ Promote(p) \/ Restore(p)

Next ==
    \/ \E p \in Proc : Step(p) \/ Crash(p) \/ \E r \in Release : Update(p, r)
    \/ PutBack

Spec == Init /\ [][Next]_vars

-----------------------------------------------------------------------------
(* Properties.                                                             *)

\* The updates and the two binaries are what they can be; a binary that was promoted
\* is the one that its update verified.
TypeOK ==
    /\ current \in Binary \cup {None} /\ previous \in Binary \cup {None}
    /\ \A p \in Proc : upd[p].pc \in {"stat", "remove", "retain", "promote", "restore", "done"}
                       => upd[p].new.of \in Genuine

\* Neither the binary nor the one kept for rollback is of a release that is not
\* signed, or has other bytes than the manifest says (update.go Update).
OnlyGenuine ==
    \A b \in {current, previous} \ {None} : b.intact /\ b.of \in Genuine \cup {First}

\* Whatever step an update stops at, a binary is left that can be run
\* (update.go promoteBinary renames, and never removes the only one).
SomeBinary == current # None \/ previous # None

\* An update that fails leaves the binary that was there when it began
\* (update.go promoteBinary renames the previous one back).
FailureRestores == \A p \in Proc : At(p, "failed") => current = upd[p].from

\* Update installs nothing but verified releases, and promoteBinary leaves a binary
\* wherever it stops, and the old one when it fails.
UpdateSafe == OnlyGenuine /\ SomeBinary /\ FailureRestores

\* "The previous binary is retained as `thirdshift.previous`": an update that ends
\* leaves a binary to roll back to, if there was one when it began.
PreviousRetained ==
    \A p \in Proc : upd[p].pc \in {"done", "failed"} /\ upd[p].had => previous # None
=============================================================================
