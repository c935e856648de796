---------------------------- MODULE NodeTheorems ----------------------------
(***************************************************************************)
(* What is proved of the programs on a host's machine: the updater, the    *)
(* runtime directory and the runtime processes, for any releases, servers, *)
(* goroutines and numbers of stops.                                        *)
(*                                                                         *)
(* The components share no state.  Where two of them use a name (current,  *)
(* previous, Release), each theorem is about one of them and the name is   *)
(* that component's.                                                       *)
(***************************************************************************)
EXTENDS Integers, FiniteSets, TLAPS

CONSTANTS Proc, Release, MaxCrash, CanFail, None,
          Genuine, First, CanCorrupt,                       \* SelfUpdate
          DirOf, Signed, CanRollback,                       \* RuntimeManager
          Main, Resume, Overlap, Server, Port, CanDie       \* RuntimeProcess

VARIABLES current, previous, crashes,
          upd,                                              \* SelfUpdate
          dirs, proc, before,                               \* RuntimeManager
          servers, running, mu, url, th                     \* RuntimeProcess

Update  == INSTANCE SelfUpdate
Runtime == INSTANCE RuntimeManager
Process == INSTANCE RuntimeProcess

-----------------------------------------------------------------------------
(* SelfUpdate.                                                             *)

UpdatePC == {"idle", "verify", "stat", "remove", "retain", "promote", "restore", "done", "failed"}

UpdateCall == [pc : UpdatePC, new : Update!Binary \cup {None},
               from : Update!Binary \cup {None}, had : BOOLEAN]

\* The binary was verified, or is the first one.
Good(b) == b.intact /\ b.of \in Genuine \cup {First}

\* An update that is past its verification carries a verified binary.
Verified ==
    /\ upd \in [Proc -> UpdateCall]
    /\ current \in Update!Binary \cup {None} /\ previous \in Update!Binary \cup {None}
    /\ current # None => Good(current)
    /\ previous # None => Good(previous)
    /\ \A p \in Proc :
         /\ upd[p].pc \in {"verify", "stat", "remove", "retain", "promote"} =>
                upd[p].new \in Update!Binary
         /\ upd[p].pc \in {"stat", "remove", "retain", "promote"} => Good(upd[p].new)

\* Where the binary an update found is, at each of its steps.
Kept(p) ==
    /\ upd[p].pc \in {"verify", "stat", "remove", "retain", "failed"} =>
           upd[p].from # None /\ current = upd[p].from
    /\ upd[p].pc \in {"promote", "restore"} =>
           upd[p].from # None /\ current = None /\ previous = upd[p].from
    /\ upd[p].pc \in {"idle", "done"} => current # None \/ previous # None

UInv == Verified /\ \A p \in Proc : Kept(p)

\* The first binary is good.
LEMMA UpdateStarts ==
  ASSUME Update!UpdateAssumption, Update!Init
  PROVE  UInv
<1>1. current \in Update!Binary /\ Good(current) /\ previous = None
  BY DEF Update!Init, Update!Binary, Good
<1>2. current # None
  BY <1>1 DEF Update!UpdateAssumption
<1>3. Update!Idle \in UpdateCall /\ Update!Idle.pc = "idle"
  BY DEF Update!Idle, UpdateCall, UpdatePC
<1>4. upd = [p \in Proc |-> Update!Idle]
  BY DEF Update!Init
<1>5. Verified
  BY <1>1, <1>3, <1>4 DEF Verified
<1>6. \A p \in Proc : Kept(p)
  BY <1>2, <1>3, <1>4 DEF Kept
<1> QED
  BY <1>5, <1>6 DEF UInv

\* No step, of any number of updates, brings in a binary that was not verified.
LEMMA VerifiedKept ==
  ASSUME Update!UpdateAssumption, Verified, [Update!Next]_(Update!vars)
  PROVE  Verified'
<1>1. ASSUME NEW p \in Proc, NEW r \in Release, Update!Update(p, r)
      PROVE  Verified'
  <2>1. PICK intact \in BOOLEAN :
          upd' = [upd EXCEPT ![p] = [pc |-> "verify", new |-> [of |-> r, intact |-> intact],
                                     from |-> current, had |-> previous # None]]
    BY <1>1, ZenonT(60) DEF Update!Update
  <2>2. [of |-> r, intact |-> intact] \in Update!Binary
    BY DEF Update!Binary
  <2>3. PICK c : c = [pc |-> "verify", new |-> [of |-> r, intact |-> intact],
                      from |-> current, had |-> previous # None]
    BY ZenonT(60)
  <2>4. c \in UpdateCall /\ c.pc = "verify" /\ c.new \in Update!Binary
    BY <2>2, <2>3, ZenonT(60) DEF UpdateCall, UpdatePC, Verified
  <2> QED
    BY <1>1, <2>1, <2>3, <2>4 DEF Update!Update, Verified
<1>2. ASSUME NEW p \in Proc, Update!Verify(p)
      PROVE  Verified'
  BY <1>2 DEF Update!Verify, Update!At, Update!Goto, Verified, UpdateCall, UpdatePC, Good
<1>3. ASSUME NEW p \in Proc, Update!Stat(p)
      PROVE  Verified'
  BY <1>3 DEF Update!Stat, Update!At, Update!Goto, Verified, UpdateCall, UpdatePC
<1>4. ASSUME NEW p \in Proc, Update!RemovePrevious(p)
      PROVE  Verified'
  BY <1>4 DEF Update!RemovePrevious, Update!At, Update!Goto, Verified, UpdateCall, UpdatePC
<1>5. ASSUME NEW p \in Proc, Update!Retain(p)
      PROVE  Verified'
  BY <1>5 DEF Update!Retain, Update!At, Update!Goto, Verified, UpdateCall, UpdatePC
<1>6. ASSUME NEW p \in Proc, Update!Promote(p)
      PROVE  Verified'
  BY <1>6 DEF Update!Promote, Update!At, Update!Goto, Verified, UpdateCall, UpdatePC
<1>7. ASSUME NEW p \in Proc, Update!Restore(p)
      PROVE  Verified'
  BY <1>7 DEF Update!Restore, Update!At, Update!Goto, Verified, UpdateCall, UpdatePC
<1>8. ASSUME NEW p \in Proc, Update!Crash(p)
      PROVE  Verified'
  BY <1>8 DEF Update!Crash, Update!Idle, Verified, UpdateCall, UpdatePC
<1>9. CASE Update!PutBack
  BY <1>9 DEF Update!PutBack, Verified
<1>10. CASE UNCHANGED Update!vars
  BY <1>10 DEF Update!vars, Verified
<1> QED
  BY <1>1, <1>2, <1>3, <1>4, <1>5, <1>6, <1>7, <1>8, <1>9, <1>10, ZenonT(60) DEF Update!Next,
     Update!Step

\* With one update at a time, the binary it found is where Kept says.
LEMMA KeptStep ==
  ASSUME Update!UpdateAssumption, UInv, [Update!Next]_(Update!vars), NEW u, Proc = {u}
  PROVE  Kept(u)'
<1> USE DEF UInv
<1>1. ASSUME NEW r \in Release, Update!Update(u, r)
      PROVE  Kept(u)'
  BY <1>1 DEF Update!Update, Verified, Kept
<1>2. CASE Update!Verify(u)
  BY <1>2 DEF Update!Verify, Update!At, Update!Goto, Verified, UpdateCall, Kept
<1>3. CASE Update!Stat(u)
  BY <1>3 DEF Update!Stat, Update!At, Update!Goto, Verified, UpdateCall, Kept
<1>4. CASE Update!RemovePrevious(u)
  BY <1>4 DEF Update!RemovePrevious, Update!At, Update!Goto, Verified, UpdateCall, Kept
<1>5. CASE Update!Retain(u)
  BY <1>5 DEF Update!Retain, Update!At, Update!Goto, Verified, UpdateCall, Kept
<1>6. CASE Update!Promote(u)
  BY <1>6 DEF Update!Promote, Update!At, Update!Goto, Verified, UpdateCall, Kept,
     Update!UpdateAssumption
<1>7. CASE Update!Restore(u)
  BY <1>7 DEF Update!Restore, Update!At, Update!Goto, Verified, UpdateCall, Kept
<1>8. CASE Update!Crash(u)
  BY <1>8 DEF Update!Crash, Update!Idle, Verified, UpdateCall, UpdatePC, Kept
<1>9. CASE Update!PutBack
  BY <1>9 DEF Update!PutBack, Update!At, Verified, UpdateCall, Kept
<1>10. CASE UNCHANGED Update!vars
  BY <1>10 DEF Update!vars, Kept
<1> QED
  BY <1>1, <1>2, <1>3, <1>4, <1>5, <1>6, <1>7, <1>8, <1>9, <1>10, ZenonT(60) DEF Update!Next,
     Update!Step

\* However many updates run at once, neither binary is ever one whose manifest or bytes
\* were not verified (update.go Update verifies before promoteBinary).
THEOREM InstallsVerified ==
  ASSUME Update!UpdateAssumption
  PROVE  Update!Spec => []Update!OnlyGenuine
<1>1. Update!Init => Verified
  BY UpdateStarts DEF UInv
<1>2. Verified /\ [Update!Next]_(Update!vars) => Verified'
  BY VerifiedKept
<1>3. Verified => Update!OnlyGenuine
  BY DEF Verified, Update!OnlyGenuine, Good
<1> QED
  BY <1>1, <1>2, <1>3, PTL DEF Update!Spec

\* An update that runs alone leaves a binary wherever it stops, the old one when it
\* fails, and only verified ones (update.go promoteBinary).
THEOREM UpdatesSafely ==
  ASSUME Update!UpdateAssumption, \E u : Proc = {u}
  PROVE  Update!Spec => []Update!UpdateSafe
<1> PICK u : Proc = {u}
  OBVIOUS
<1>1. Update!Init => UInv
  BY UpdateStarts
<1>2. UInv /\ [Update!Next]_(Update!vars) => UInv'
  BY VerifiedKept, KeptStep DEF UInv
<1>3. UInv => Update!UpdateSafe
  BY DEF UInv, Verified, Kept, UpdateCall, UpdatePC, Good, Update!At,
         Update!UpdateSafe, Update!OnlyGenuine, Update!SomeBinary, Update!FailureRestores
<1> QED
  BY <1>1, <1>2, <1>3, PTL DEF Update!Spec

-----------------------------------------------------------------------------
(* RuntimeManager, with one process and a directory for every release.     *)

Alone == /\ \E p : Proc = {p}
         /\ \A r, s \in Release : DirOf[r] = DirOf[s] => r = s

RuntimePC == {"idle", "check", "fetch", "remove", "promote", "mark", "keep", "switch", "hold",
              "swap", "running", "failed"}

\* The directory of a release holds its files, some of them, or nothing, and a marker
\* only beside all of them.
DirSound(r) ==
    /\ dirs[DirOf[r]].files \in {r, "none", "part"}
    /\ dirs[DirOf[r]].marker \in {r, None, "torn"}
    /\ Runtime!Installed(r) => dirs[DirOf[r]].files = r

\* What a call knows of the directory of its release.
CallSound(p) ==
    LET r == proc[p].release IN
    /\ proc[p].pc \notin {"idle", "running", "failed"} => r \in Release
    /\ proc[p].pc \in {"fetch", "remove", "promote", "mark"} => ~Runtime!Installed(r)
    /\ proc[p].pc = "mark" => dirs[DirOf[r]].files = r
    /\ proc[p].pc \in {"keep", "switch", "hold", "swap"} => Runtime!Installed(r)

RInv ==
    /\ dirs \in [Runtime!Dir -> [files : Release \cup {"none", "part"},
                                 marker : Release \cup {None, "torn"}]]
    /\ proc \in [Proc -> [pc : RuntimePC, release : Release \cup {None}]]
    /\ current \in Release \cup {None, "torn"}
    /\ previous \in Release \cup {None, "torn"}
    /\ \A r \in Release : DirSound(r)
    /\ \A p \in Proc : CallSound(p)
    /\ \A r \in {current, previous} \cap Release : Runtime!Installed(r)

\* current.json and previous.json are read as releases exactly when they name one.
LEMMA ReadableNames ==
  ASSUME Runtime!RuntimeAssumption, NEW f \in Release \cup {None, "torn"}
  PROVE  Runtime!Readable(f) <=> f \in Release
  BY DEF Runtime!RuntimeAssumption, Runtime!Readable

\* A data directory without runtimes is sound.
LEMMA RuntimeStarts ==
  ASSUME Runtime!RuntimeAssumption, Runtime!Init
  PROVE  RInv
<1>1. \A r \in Release : DirOf[r] \in Runtime!Dir
  BY DEF Runtime!Dir
<1>2. /\ Runtime!NoDir \in [files : Release \cup {"none", "part"}, marker : Release \cup {None, "torn"}]
      /\ Runtime!NoDir.files = "none" /\ Runtime!NoDir.marker = None
  BY DEF Runtime!NoDir
<1>3. /\ Runtime!Idle \in [pc : RuntimePC, release : Release \cup {None}]
      /\ Runtime!Idle.pc = "idle"
  BY DEF Runtime!Idle, RuntimePC
<1> QED
  BY <1>1, <1>2, <1>3
 , ZenonT(60) DEF Runtime!Init, Runtime!RuntimeAssumption, RInv, DirSound, CallSound,
     Runtime!Installed

\* A step that leaves the directories alone and after which the call, current.json and
\* previous.json name releases as the invariant says.
LEMMA DirsUntouched ==
  ASSUME Runtime!RuntimeAssumption, RInv, UNCHANGED dirs,
         proc' \in [Proc -> [pc : RuntimePC, release : Release \cup {None}]],
         \A p \in Proc : CallSound(p)',
         current' \in Release \cup {None, "torn"}, previous' \in Release \cup {None, "torn"},
         \A r \in {current', previous'} \cap Release : Runtime!Installed(r)
  PROVE  RInv'
  BY DEF RInv, DirSound, Runtime!Installed

\* current.json names nothing, or an installed release.
CurrentSound(r) == r \in Release \cup {None, "torn"} /\ (r \in Release => Runtime!Installed(r))

\* Call p knows of its release what CallSound asks for at program counter c.
Knows(p, c) ==
    /\ c \notin {"idle", "running", "failed"} => proc[p].release \in Release
    /\ c \in {"fetch", "remove", "promote", "mark"} => ~Runtime!Installed(proc[p].release)
    /\ c = "mark" => dirs[DirOf[proc[p].release]].files = proc[p].release
    /\ c \in {"keep", "switch", "hold", "swap"} => Runtime!Installed(proc[p].release)

\* A call that moves on and leaves the directories and previous.json alone.
LEMMA CallMoves ==
  ASSUME Runtime!RuntimeAssumption, RInv, NEW p, Proc = {p}, NEW c \in RuntimePC, Runtime!Goto(p, c),
         UNCHANGED <<dirs, previous>>,
         CurrentSound(current'), Knows(p, c)
  PROVE  RInv'
<1>1. PICK h : h = [proc[p] EXCEPT !.pc = c]
  BY ZenonT(60)
<1>2. proc[p] \in [pc : RuntimePC, release : Release \cup {None}] /\ p \in Proc
  BY ZenonT(60) DEF RInv
<1>3. /\ h \in [pc : RuntimePC, release : Release \cup {None}]
      /\ h.pc = c /\ h.release = proc[p].release
  BY <1>1, <1>2, SMTT(60)
<1>4. proc' = [proc EXCEPT ![p] = h]
  BY <1>1 DEF Runtime!Goto
<1>5. /\ proc' \in [Proc -> [pc : RuntimePC, release : Release \cup {None}]]
      /\ proc'[p].pc = c /\ proc'[p].release = proc[p].release
  BY <1>2, <1>3, <1>4, ZenonT(60) DEF RInv
<1>6. \A q \in Proc : CallSound(q)'
  BY <1>5, ZenonT(60) DEF CallSound, Runtime!Installed, Knows
<1>7. /\ current' \in Release \cup {None, "torn"} /\ previous' \in Release \cup {None, "torn"}
      /\ \A r \in {current', previous'} \cap Release : Runtime!Installed(r)
  BY ZenonT(60) DEF RInv, CurrentSound
<1> QED
  BY <1>5, <1>6, <1>7, DirsUntouched, ZenonT(60)

\* A step that changes the directory of a release that is not installed, and no other.
LEMMA DirChanged ==
  ASSUME Runtime!RuntimeAssumption, RInv, Alone, NEW q \in Release, ~Runtime!Installed(q), NEW d,
         dirs' = [dirs EXCEPT ![DirOf[q]] = d],
         d \in [files : {q, "none", "part"}, marker : {q, None, "torn"}],
         d.marker = q => d.files = q,
         proc' \in [Proc -> [pc : RuntimePC, release : Release \cup {None}]],
         \A p \in Proc : CallSound(p)',
         UNCHANGED <<current, previous>>
  PROVE  RInv'
<1>1. DirOf[q] \in Runtime!Dir /\ dirs'[DirOf[q]] = d
  BY DEF RInv, Runtime!Dir
<1>2. \A r \in Release \ {q} : dirs'[DirOf[r]] = dirs[DirOf[r]]
  BY DEF RInv, Runtime!Dir, Alone
<1>3. dirs' \in [Runtime!Dir -> [files : Release \cup {"none", "part"},
                                 marker : Release \cup {None, "torn"}]]
  BY ZenonT(60) DEF RInv
<1>4. \A r \in Release : DirSound(r)'
  BY <1>1, <1>2 DEF RInv, DirSound, Runtime!Installed
<1>5. \A r \in {current, previous} \cap Release : Runtime!Installed(r)'
  BY <1>2 DEF RInv, Runtime!Installed
<1> QED
  BY <1>3, <1>4, <1>5, ZenonT(60) DEF RInv

\* Every step of the process keeps the directory sound.
LEMMA RuntimeStep ==
  ASSUME Runtime!RuntimeAssumption, RInv, Alone, NEW p, Proc = {p}, [Runtime!Next]_(Runtime!vars)
  PROVE  RInv'
<1> USE DEF Runtime!At, Runtime!Goto, Runtime!D
<1>0. /\ proc[p].pc \in RuntimePC /\ proc[p].release \in Release \cup {None}
      /\ DOMAIN proc[p] = {"pc", "release"}
  BY ZenonT(60) DEF RInv
<1>1. ASSUME NEW r \in Release, Runtime!Call(p, r)
      PROVE  RInv'
  BY <1>1, DirsUntouched, ZenonT(60) DEF Runtime!Call, RInv, CallSound, RuntimePC
<1>c. proc[p].pc \notin {"idle", "running", "failed"} => proc[p].release \in Release
  BY ZenonT(60) DEF RInv, CallSound
<1>g. CurrentSound(current)
  BY ZenonT(60) DEF RInv, CurrentSound
<1>f. {"fetch", "remove", "running", "failed"} \subseteq RuntimePC /\ Knows(p, "running") /\ Knows(p, "failed")
  BY DEF RuntimePC, Knows
<1>2. CASE Runtime!Check(p)
  <2>1. proc[p].release \in Release
    BY <1>2, <1>c, ZenonT(60) DEF Runtime!Check
  <2>2. CASE Runtime!Installed(proc[p].release)
    <3>1. Runtime!Goto(p, "running") /\ current' = proc[p].release /\ UNCHANGED <<dirs, previous>>
      BY <1>2, <2>2, ZenonT(60) DEF Runtime!Check, Runtime!Becomes
    <3>2. CurrentSound(current')
      BY <2>1, <2>2, <3>1, ZenonT(60) DEF CurrentSound
    <3> QED
      BY <1>f, <3>1, <3>2, CallMoves, ZenonT(60)
  <2>3. CASE ~Runtime!Installed(proc[p].release)
    <3>1. Runtime!Goto(p, "fetch") /\ UNCHANGED <<dirs, previous>> /\ CurrentSound(current')
      BY <1>2, <1>g, <2>3, ZenonT(60) DEF Runtime!Check
    <3>2. Knows(p, "fetch")
      BY <2>1, <2>3 DEF Knows
    <3> QED
      BY <1>f, <3>1, <3>2, CallMoves, ZenonT(60)
  <2> QED
    BY <2>2, <2>3, ZenonT(60)
<1>3. CASE Runtime!Fetch(p)
  <2>1. proc[p].release \in Release /\ ~Runtime!Installed(proc[p].release)
    BY <1>3, ZenonT(60) DEF Runtime!Fetch, RInv, CallSound
  <2>2. Knows(p, "remove")
    BY <2>1 DEF Knows
  <2>3. UNCHANGED <<dirs, previous>> /\ CurrentSound(current')
    BY <1>3, <1>g, ZenonT(60) DEF Runtime!Fetch
  <2>4. CASE Runtime!Goto(p, "remove")
    BY <1>f, <2>2, <2>3, <2>4, CallMoves, ZenonT(60)
  <2>5. CASE Runtime!Goto(p, "failed")
    BY <1>f, <2>3, <2>5, CallMoves, ZenonT(60)
  <2> QED
    BY <1>3, <2>4, <2>5, ZenonT(60) DEF Runtime!Fetch
<1>4. CASE Runtime!RemoveTarget(p)
  <2>1. /\ proc[p].release \in Release /\ ~Runtime!Installed(proc[p].release)
    BY <1>4 DEF Runtime!RemoveTarget, RInv, CallSound
  <2>2. /\ Runtime!NoDir \in [files : {"none"}, marker : {None}]
    BY DEF Runtime!NoDir
  <2>3. CallSound(p)'
    BY <1>0, <1>4, <2>1, <2>2, ZenonT(60)
    DEF Runtime!RemoveTarget, RInv, CallSound, Runtime!Installed, Runtime!Dir,
       Runtime!RuntimeAssumption
  <2> QED
    BY <1>0, <1>4, <2>1, <2>2, <2>3, DirChanged, ZenonT(60) DEF Runtime!RemoveTarget, RInv,
       RuntimePC,
       Runtime!RuntimeAssumption
<1>5. CASE Runtime!Promote(p)
  <2>1. /\ proc[p].release \in Release /\ ~Runtime!Installed(proc[p].release)
        /\ DirSound(proc[p].release)
    BY <1>5 DEF Runtime!Promote, RInv, CallSound
  <2>2. CASE dirs[DirOf[proc[p].release]].files = "none"
    <3>1. PICK d : d = [dirs[DirOf[proc[p].release]] EXCEPT !.files = proc[p].release]
      BY ZenonT(60)
    <3>a. DirOf[proc[p].release] \in Runtime!Dir
      BY <2>1, SMTT(60) DEF Runtime!Dir
    <3>b. dirs' = [dirs EXCEPT ![DirOf[proc[p].release]] = d]
      BY <1>5, <2>2, <3>1, ZenonT(60) DEF Runtime!Promote
    <3>2. /\ DirOf[proc[p].release] \in Runtime!Dir
          /\ dirs' = [dirs EXCEPT ![DirOf[proc[p].release]] = d]
      BY <3>a, <3>b, ZenonT(60)
    <3>3. /\ d \in [files : {proc[p].release}, marker : {None, "torn"}]
          /\ d.marker = dirs[DirOf[proc[p].release]].marker
      BY <2>1, <3>1, <3>2, SMTT(60) DEF RInv, DirSound, Runtime!Installed
    <3>4. proc' = [proc EXCEPT ![p].pc = "mark"]
      BY <1>5, <2>2 DEF Runtime!Promote
    <3>5. CallSound(p)'
      BY <1>0, <2>1, <3>2, <3>3, <3>4, ZenonT(60) DEF RInv, CallSound, Runtime!Installed,
         Runtime!RuntimeAssumption
    <3> QED
      BY <1>0, <1>5, <2>1, <3>2, <3>3, <3>4, <3>5, DirChanged, ZenonT(60) DEF Runtime!Promote,
         RInv, RuntimePC, Runtime!RuntimeAssumption
  <2>3. CASE dirs[DirOf[proc[p].release]].files # "none"
    <3>1. Runtime!Goto(p, "failed") /\ UNCHANGED <<dirs, previous>> /\ CurrentSound(current')
      BY <1>5, <1>g, <2>3, ZenonT(60) DEF Runtime!Promote
    <3> QED
      BY <1>f, <3>1, CallMoves, ZenonT(60)
  <2> QED
    BY <2>2, <2>3
<1>6. CASE Runtime!Mark(p)
  <2>1. /\ proc[p].release \in Release /\ ~Runtime!Installed(proc[p].release)
        /\ dirs[DirOf[proc[p].release]].files = proc[p].release
    BY <1>6 DEF Runtime!Mark, RInv, CallSound
  <2>2. PICK d : d = [files |-> proc[p].release, marker |-> proc[p].release]
    BY ZenonT(60)
  <2>3. /\ DirOf[proc[p].release] \in Runtime!Dir
        /\ dirs' = [dirs EXCEPT ![DirOf[proc[p].release]] = d]
    BY <1>6, <2>1, <2>2, ZenonT(60) DEF Runtime!Mark, RInv, Runtime!Dir, Runtime!RuntimeAssumption
  <2>4. /\ d \in [files : {proc[p].release, "none", "part"}, marker : {proc[p].release, None, "torn"}]
        /\ d.files = proc[p].release /\ d.marker = proc[p].release
    BY <2>2, ZenonT(60)
  <2>5. CallSound(p)'
    BY <1>0, <1>6, <2>1, <2>3, <2>4, ZenonT(60) DEF Runtime!Mark, RInv, CallSound, Runtime!Installed
  <2>6. /\ proc' \in [Proc -> [pc : RuntimePC, release : Release \cup {None}]]
        /\ UNCHANGED <<current, previous>>
    BY <1>0, <1>6, ZenonT(60) DEF Runtime!Mark, RInv, RuntimePC
  <2> QED
    BY <2>1, <2>3, <2>4, <2>5, <2>6, DirChanged, ZenonT(60)
<1>7. CASE Runtime!KeepPrevious(p)
  BY <1>0, <1>7, DirsUntouched, ReadableNames, ZenonT(60) DEF Runtime!KeepPrevious, RInv, CallSound,
     RuntimePC, Runtime!Installed
<1>8. CASE Runtime!Switch(p)
  BY <1>0, <1>8, DirsUntouched, SMTT(60) DEF Runtime!Switch, Runtime!Becomes, RInv, CallSound,
     RuntimePC, Runtime!Installed
<1>9. CASE Runtime!Rollback(p)
  BY <1>0, <1>9, DirsUntouched, ReadableNames, ZenonT(60) DEF Runtime!Rollback, RInv, CallSound,
     RuntimePC, Runtime!Installed
<1>10. CASE Runtime!RollbackKeep(p)
  BY <1>0, <1>10, DirsUntouched, ReadableNames, ZenonT(60) DEF Runtime!RollbackKeep, RInv,
     CallSound, RuntimePC, Runtime!Installed
<1>11. CASE Runtime!RollbackSwitch(p)
  BY <1>0, <1>11, DirsUntouched, ZenonT(60) DEF Runtime!RollbackSwitch, Runtime!Becomes,
     Runtime!Idle, RInv, CallSound, RuntimePC, Runtime!Installed
<1>12. CASE Runtime!Crash(p)
  <2>0. /\ proc' \in [Proc -> [pc : RuntimePC, release : Release \cup {None}]]
        /\ CallSound(p)'
    BY <1>12, ZenonT(60) DEF Runtime!Crash, Runtime!Idle, RInv, RuntimePC, CallSound
  <2>1. CASE UNCHANGED dirs
    BY <1>12, <2>0, <2>1, DirsUntouched, SMTT(60) DEF Runtime!Crash, Runtime!Left, RInv,
       Runtime!Installed, Runtime!RuntimeAssumption
  <2>2. ASSUME Runtime!At(p, "remove"),
               NEW m \in {dirs[DirOf[proc[p].release]].marker, None},
               dirs' = [dirs EXCEPT ![DirOf[proc[p].release]] = [files |-> "part", marker |-> m]],
               UNCHANGED <<current, previous>>
        PROVE  RInv'
    <3>1. /\ proc[p].release \in Release /\ ~Runtime!Installed(proc[p].release)
          /\ DirSound(proc[p].release)
      BY <2>2 DEF RInv, CallSound
    <3>2. /\ [files |-> "part", marker |-> m] \in [files : {"part"}, marker : {None, "torn"}]
      BY <3>1, ZenonT(60) DEF DirSound, Runtime!Installed
    <3> QED
      BY <2>0, <2>2, <3>1, <3>2, DirChanged, ZenonT(60) DEF Runtime!RuntimeAssumption
  <2>3. ASSUME Runtime!At(p, "mark"),
               dirs' = [dirs EXCEPT ![DirOf[proc[p].release]].marker = "torn"],
               UNCHANGED <<current, previous>>
        PROVE  RInv'
    <3>1. /\ proc[p].release \in Release /\ ~Runtime!Installed(proc[p].release)
          /\ DirSound(proc[p].release)
      BY <2>3 DEF RInv, CallSound
    <3>2. PICK d : d = [dirs[DirOf[proc[p].release]] EXCEPT !.marker = "torn"]
      BY ZenonT(60)
    <3>3. /\ d \in [files : {proc[p].release, "none", "part"}, marker : {proc[p].release, None, "torn"}]
          /\ d.marker = "torn"
      BY <3>1, <3>2, SMTT(60) DEF DirSound, RInv, Runtime!Dir
    <3>4. dirs' = [dirs EXCEPT ![DirOf[proc[p].release]] = d]
      BY <2>3, <3>2
    <3>5. d.marker # proc[p].release
      BY <3>1, <3>3 DEF Runtime!RuntimeAssumption
    <3>6. UNCHANGED <<current, previous>> /\ \A q \in Proc : CallSound(q)'
      BY <2>0, <2>3, ZenonT(60)
    <3> QED
      BY <2>0, <3>1, <3>3, <3>4, <3>5, <3>6, DirChanged, ZenonT(60)
  <2> QED
    BY <1>12, <2>1, <2>2, <2>3, ZenonT(60) DEF Runtime!Crash, Runtime!Left
<1>13. CASE UNCHANGED Runtime!vars
  BY <1>13, DirsUntouched, ZenonT(60) DEF Runtime!vars, RInv, CallSound, Runtime!Installed
<1> QED
  BY <1>1, <1>2, <1>3, <1>4, <1>5, <1>6, <1>7, <1>8, <1>9, <1>10, <1>11, <1>12, <1>13, ZenonT(60)
    DEF Runtime!Next, Runtime!Ensure

\* A process that has the data directory to itself finds what its markers, current.json
\* and previous.json name, wherever it stopped before and however often (manager.go
\* Ensure, Rollback), if no two releases share a directory.
THEOREM RuntimesInstalled ==
  ASSUME Runtime!RuntimeAssumption, Alone
  PROVE  Runtime!Spec => []Runtime!RuntimeInstalled
<1> PICK p : Proc = {p}
  BY DEF Alone
<1>1. Runtime!Init => RInv
  BY RuntimeStarts
<1>2. RInv /\ [Runtime!Next]_(Runtime!vars) => RInv'
  BY RuntimeStep, ZenonT(60)
<1>3. RInv => Runtime!RuntimeInstalled
  BY ReadableNames
  DEF RInv, DirSound, Runtime!Installed, Runtime!Dir, Runtime!RuntimeAssumption,
      Runtime!RuntimeInstalled, Runtime!MarkerTellsTruth, Runtime!CurrentInstalled
<1> QED
  BY <1>1, <1>2, <1>3, PTL DEF Runtime!Spec

-----------------------------------------------------------------------------
(* RuntimeProcess.                                                         *)

ThreadPC == {"idle", "launch", "health", "lock", "stop", "wait", "stopped", "set", "serve",
             "failed", "exited"}
Goroutine == [pc : ThreadPC, own : Server \cup {None}, stopping : Server \cup {None},
              then : {"idle", "failed", "set", "serve", "exited"}]

Started(s) == s \in Server => servers[s].st # "none"
Ends(t) == th[t].pc \in {"stop", "wait", "stopped"}

\* Server s is in the hands of goroutine t: launched by it, or being stopped by it.
Holds(t, s) ==
    \/ th[t].pc \in {"health", "lock"} /\ th[t].own = s
    \/ th[t].pc \in {"stop", "wait"} /\ th[t].stopping = s
    \/ Ends(t) /\ th[t].then = "set" /\ th[t].own = s

\* What goroutine t knows at its place in Prepare, Stop or Close.
ThreadSound(t) ==
    /\ Started(th[t].own) /\ Started(th[t].stopping)
    /\ th[t].pc \in {"health", "lock", "set"} => th[t].own \in Server
    /\ th[t].pc \in {"stop", "wait"} => th[t].stopping \in Server
    /\ Ends(t) => th[t].then \in {"failed", "set", "serve", "exited"}
    /\ Ends(t) /\ th[t].then = "set" =>
           mu = t /\ running = th[t].stopping /\ running \in Server /\ th[t].own \in Server
    /\ th[t].pc = "stopped" /\ th[t].stopping \in Server => ~Process!Alive(th[t].stopping)

\* Every server alive is the provider's or in somebody's hands.
Accounted ==
    ~Process!Exited => \A s \in Server : Process!Alive(s) =>
        s = running \/ \E t \in Process!Thread : Holds(t, s)

PInv ==
    /\ servers \in [Server -> [st : {"none", "started", "serving", "exited"},
                               port : Port \cup {None}, signal : {"none", "interrupt", "kill"}]]
    /\ th \in [Process!Thread -> Goroutine]
    /\ running \in Server \cup {None} /\ Started(running)
    /\ \A t \in Process!Thread : ThreadSound(t)
    /\ Accounted

\* At the start nothing runs.
LEMMA ProcessStarts ==
  ASSUME Process!ProcessAssumption, Process!Init
  PROVE  PInv
<1>1. /\ Process!NotStarted \in [st : {"none"}, port : {None}, signal : {"none"}]
  BY DEF Process!NotStarted
<1>2. \A t \in Process!Thread :
         th[t] \in [pc : {"launch", "idle"}, own : {None}, stopping : {None}, then : {"idle"}]
  BY DEF Process!Init, Process!IdleThread
<1>3. th \in [Process!Thread -> Goroutine]
  BY <1>2 DEF Process!Init, Goroutine, ThreadPC
<1> QED
  BY <1>1, <1>2, <1>3
  DEF Process!Init, Process!ProcessAssumption, PInv, ThreadSound, Started, Ends, Accounted,
      Process!Alive

\* A step of the servers: none comes to life.
LEMMA ServersStep ==
  ASSUME Process!ProcessAssumption, PInv, NEW s \in Server, Process!Serves(s) \/ Process!Dies(s)
  PROVE  PInv'
<1>1. /\ servers' \in [Server -> [st : {"none", "started", "serving", "exited"},
                               port : Port \cup {None}, signal : {"none", "interrupt", "kill"}]]
      /\ \A r \in Server : servers[r].st # "none" => servers'[r].st # "none"
      /\ \A r \in Server : Process!Alive(r)' => Process!Alive(r)
      /\ UNCHANGED <<running, mu, url, th>>
  BY SMTT(60) DEF PInv, Process!Serves, Process!Dies, Process!Alive
<1>2. \A t \in Process!Thread : ThreadSound(t)'
  BY <1>1, ZenonT(60) DEF PInv, ThreadSound, Started, Ends
<1>3. Accounted'
  BY <1>1 DEF PInv, Accounted, Holds, Ends, Process!Exited, Process!At
<1> QED
  BY <1>1, <1>2, <1>3 DEF PInv, Started

\* A step of goroutine t alone, described by its new record r.  The hypotheses say that
\* no server comes to life unseen and that the lock is kept for whoever holds it.
LEMMA ThreadStep ==
  ASSUME Process!ProcessAssumption, PInv, NEW t \in Process!Thread, NEW r \in Goroutine,
         th' = [th EXCEPT ![t] = r],
         servers' \in [Server -> [st : {"none", "started", "serving", "exited"},
                                  port : Port \cup {None}, signal : {"none", "interrupt", "kill"}]],
         \A s \in Server : servers[s].st # "none" => servers'[s].st # "none",
         \A s \in Server : Process!Alive(s)' => Process!Alive(s) \/ servers[s].st = "none",
         running' \in Server \cup {None}, Started(running'),
         \A q \in Process!Thread \ {t} : Ends(q) /\ th[q].then = "set" => UNCHANGED <<mu, running>>,
         ThreadSound(t)',
         \A s \in Server : Process!Alive(s)' =>
             s = running' \/ Holds(t, s)' \/ (Process!Alive(s) /\ s # running /\ ~Holds(t, s)),
         Process!Exited => Process!Exited'
  PROVE  PInv'
<1>1. /\ th' \in [Process!Thread -> Goroutine]
      /\ \A q \in Process!Thread \ {t} : th'[q] = th[q]
  BY ZenonT(60) DEF PInv
<1>2. \A q \in Process!Thread \ {t} : th[q] \in Goroutine /\ ThreadSound(q)
  BY ZenonT(60) DEF PInv
<1>3. ASSUME NEW q \in Process!Thread \ {t} PROVE ThreadSound(q)'
  <2>1. Started(th[q].own)' /\ Started(th[q].stopping)'
    BY <1>1, <1>2, ZenonT(60) DEF ThreadSound, Started
  <2>2. Ends(q)' = Ends(q)
    BY <1>1, ZenonT(60) DEF Ends
  <2>3. th[q].stopping \in Server /\ ~Process!Alive(th[q].stopping) =>
            ~(Process!Alive(th[q].stopping)')
    BY <1>1, <1>2, ZenonT(60) DEF ThreadSound, Started, Process!Alive
  <2>4. th'[q] = th[q] /\ ThreadSound(q)
    BY <1>1, <1>2, ZenonT(60)
  <2>5. /\ th'[q].pc \in {"health", "lock", "set"} => th'[q].own \in Server
        /\ th'[q].pc \in {"stop", "wait"} => th'[q].stopping \in Server
        /\ Ends(q)' => th'[q].then \in {"failed", "set", "serve", "exited"}
    BY <2>2, <2>4, ZenonT(60) DEF ThreadSound
  <2>6. Ends(q)' /\ th'[q].then = "set" =>
            mu' = q /\ running' = th'[q].stopping /\ running' \in Server /\ th'[q].own \in Server
    BY <2>2, <2>4, ZenonT(60) DEF ThreadSound
  <2>7. th'[q].pc = "stopped" /\ th'[q].stopping \in Server => ~(Process!Alive(th[q].stopping)')
    BY <2>3, <2>4, ZenonT(60) DEF ThreadSound
  <2>8. th'[q].pc = "stopped" /\ th'[q].stopping \in Server => ~(Process!Alive(th[q].stopping))'
    BY <2>4, <2>7, ZenonT(60) DEF Process!Alive
  <2> QED
    BY <2>1, <2>4, <2>5, <2>6, <2>8, ZenonT(60) DEF ThreadSound, Started, Process!Alive
<1>4. Accounted'
  <2>1. SUFFICES ASSUME ~(Process!Exited'), NEW s \in Server, Process!Alive(s)'
                 PROVE  s = running' \/ \E q \in Process!Thread : Holds(q, s)'
    BY ZenonT(60) DEF Accounted
  <2>2. CASE s = running' \/ Holds(t, s)'
    BY <2>2, ZenonT(60)
  <2>3. CASE Process!Alive(s) /\ s # running /\ ~Holds(t, s)
    <3>1. PICK q \in Process!Thread : Holds(q, s)
      BY <2>1, <2>3, ZenonT(60) DEF PInv, Accounted
    <3>2. q # t /\ th'[q] = th[q]
      BY <1>1, <2>3, <3>1, ZenonT(60)
    <3> QED
      BY <3>1, <3>2 DEF Holds, Ends
  <2> QED
    BY <2>1, <2>2, <2>3, ZenonT(60)
<1> QED
  BY <1>1, <1>3, <1>4 DEF PInv, Started

\* The process exits: what is left is not the agent's any more.
LEMMA ExitStep ==
  ASSUME Process!ProcessAssumption, PInv, Process!Exit, UNCHANGED <<servers, running>>
  PROVE  PInv'
<1>1. \A t \in Process!Thread :
         th'[t] = [pc |-> "exited", own |-> None, stopping |-> None, then |-> "idle"]
  BY DEF Process!Exit, Process!IdleThread
<1>2. th' \in [Process!Thread -> Goroutine]
  BY <1>1, ZenonT(60) DEF Process!Exit, Goroutine, ThreadPC
<1>3. Process!Exited'
  BY <1>1, SMTT(60) DEF Process!Exited, Process!At, Process!Thread
<1>4. \A t \in Process!Thread : ThreadSound(t)'
  BY <1>1 DEF ThreadSound, Started, Ends, Process!ProcessAssumption
<1> QED
  BY <1>2, <1>3, <1>4, ZenonT(60) DEF PInv, Accounted, Started

\* A step that leaves the provider's server alone and gives no live server out of hand.
LEMMA GoStep ==
  ASSUME Process!ProcessAssumption, PInv, NEW t \in Process!Thread, NEW r \in Goroutine,
         th' = [th EXCEPT ![t] = r], th[t].pc # "exited", UNCHANGED running,
         servers' \in [Server -> [st : {"none", "started", "serving", "exited"},
                                  port : Port \cup {None}, signal : {"none", "interrupt", "kill"}]],
         \A s \in Server : servers[s].st # "none" => servers'[s].st # "none",
         \A s \in Server : Process!Alive(s)' => Process!Alive(s),
         \A q \in Process!Thread \ {t} : Ends(q) /\ th[q].then = "set" => UNCHANGED mu,
         ThreadSound(t)',
         \A s \in Server : Process!Alive(s)' /\ s # running /\ Holds(t, s) => Holds(t, s)'
  PROVE  PInv'
<1>1. Process!Exited => Process!Exited'
  BY DEF PInv, Process!Exited, Process!At
<1>2. running' \in Server \cup {None} /\ Started(running')
  BY DEF PInv, Started
<1> QED
  BY <1>1, <1>2, ThreadStep, ZenonT(60)

\* StartLlamaServer: the launch of a child and the health check.
LEMMA LaunchStep ==
  ASSUME Process!ProcessAssumption, PInv, NEW t \in Process!Thread,
         Process!Launch(t) \/ Process!Healthy(t) \/ Process!Unhealthy(t)
  PROVE  PInv'
<1>0. th[t] \in Goroutine /\ ThreadSound(t)
  BY DEF PInv
<1>1. CASE Process!Launch(t)
  <2>1. PICK s \in Server, port \in Port :
          /\ servers[s].st = "none"
          /\ servers' = [servers EXCEPT ![s] = [st |-> "started", port |-> port, signal |-> "none"]]
          /\ th' = [th EXCEPT ![t] = [th[t] EXCEPT !.pc = "health", !.own = s]]
    BY <1>1, ZenonT(60) DEF Process!Launch, PInv
  <2>2. /\ th[t].pc = "launch"
        /\ UNCHANGED <<running, mu, url>>
    BY <1>1 DEF Process!Launch, Process!At
  <2>3. PICK r : r = [th[t] EXCEPT !.pc = "health", !.own = s]
    BY ZenonT(60)
  <2>4. /\ r \in Goroutine
        /\ r.pc = "health" /\ r.own = s /\ r.stopping = th[t].stopping
    BY <1>0, <2>3, ZenonT(60) DEF Goroutine, ThreadPC
  <2>5. th' = [th EXCEPT ![t] = r] /\ th'[t] = r
    BY <2>1, <2>3 DEF PInv
  <2>6. /\ servers' \in [Server -> [st : {"none", "started", "serving", "exited"},
                            port : Port \cup {None}, signal : {"none", "interrupt", "kill"}]]
        /\ servers'[s].st # "none"
        /\ \A q \in Server \ {s} : servers'[q] = servers[q]
    BY <2>1, ZenonT(60) DEF PInv
  <2>7. ThreadSound(t)'
    BY <1>0, <2>1, <2>4, <2>5, <2>6, SMTT(60) DEF ThreadSound, Started, Ends
  <2>8. ~Holds(t, s) /\ \A q \in Server : ~Holds(t, q)
    BY <2>2, ZenonT(60) DEF Holds, Ends
  <2>9. \A q \in Server : Process!Alive(q)' =>
           q = running' \/ Holds(t, q)' \/ (Process!Alive(q) /\ q # running /\ ~Holds(t, q))
    BY <2>2, <2>4, <2>5, <2>6, <2>8, ZenonT(60) DEF Holds, Process!Alive
  <2>10. Process!Exited => Process!Exited'
    BY <2>2, <2>5, SMTT(60) DEF PInv, Process!Exited, Process!At
  <2>11. /\ \A q \in Server : servers[q].st # "none" => servers'[q].st # "none"
         /\ \A q \in Server : Process!Alive(q)' => Process!Alive(q) \/ servers[q].st = "none"
         /\ running' \in Server \cup {None} /\ Started(running')
    BY <2>1, <2>2, <2>6 DEF PInv, Started, Process!Alive
  <2> QED
    BY <2>2, <2>4, <2>5, <2>6, <2>7, <2>9, <2>10, <2>11, ThreadStep, ZenonT(60)
<1>2. CASE Process!Healthy(t)
  <2>1. /\ th[t].pc = "health"
        /\ th' = [th EXCEPT ![t] = [th[t] EXCEPT !.pc = "lock"]]
        /\ UNCHANGED <<servers, running, mu, url>>
    BY <1>2 DEF Process!Healthy, Process!At, Process!Goto, PInv
  <2>2. PICK r : r = [th[t] EXCEPT !.pc = "lock"]
    BY ZenonT(60)
  <2>3. /\ r \in Goroutine
        /\ r.pc = "lock" /\ r.own = th[t].own /\ r.stopping = th[t].stopping
    BY <1>0, <2>2 DEF Goroutine, ThreadPC
  <2>4. th' = [th EXCEPT ![t] = r] /\ th'[t] = r
    BY <2>1, <2>2, ZenonT(60) DEF PInv
  <2>5. ThreadSound(t)'
    BY <1>0, <2>1, <2>3, <2>4 DEF ThreadSound, Started, Ends
  <2>6. \A q \in Server : Holds(t, q) => Holds(t, q)'
    BY <2>1, <2>3, <2>4 DEF Holds, Ends
  <2>7. /\ servers' \in [Server -> [st : {"none", "started", "serving", "exited"},
                            port : Port \cup {None}, signal : {"none", "interrupt", "kill"}]]
        /\ \A q \in Server : servers[q].st # "none" => servers'[q].st # "none"
        /\ \A q \in Server : Process!Alive(q)' => Process!Alive(q)
    BY <2>1 DEF PInv, Process!Alive
  <2>8. th[t].pc # "exited"
    BY <2>1
  <2> QED
    BY <2>1, <2>3, <2>4, <2>5, <2>6, <2>7, <2>8, GoStep, ZenonT(60)
<1>3. CASE Process!Unhealthy(t)
  <2>1. /\ th[t].pc = "health"
        /\ th' = [th EXCEPT ![t] = [th[t] EXCEPT !.pc = "stop", !.stopping = th[t].own, !.then = "failed"]]
        /\ UNCHANGED <<servers, running, mu, url>>
    BY <1>3, ZenonT(60) DEF Process!Unhealthy, Process!At, PInv
  <2>2. PICK r : r = [th[t] EXCEPT !.pc = "stop", !.stopping = th[t].own, !.then = "failed"]
    BY ZenonT(60)
  <2>3. /\ r \in Goroutine
        /\ r.pc = "stop" /\ r.own = th[t].own /\ r.stopping = th[t].own /\ r.then = "failed"
    BY <1>0, <2>2, ZenonT(60) DEF Goroutine, ThreadPC
  <2>4. th' = [th EXCEPT ![t] = r] /\ th'[t] = r
    BY <2>1, <2>2, ZenonT(60) DEF PInv
  <2>5. ThreadSound(t)'
    BY <1>0, <2>1, <2>3, <2>4 DEF ThreadSound, Started, Ends
  <2>6. \A q \in Server : Holds(t, q) => Holds(t, q)'
    BY <2>1, <2>3, <2>4 DEF Holds, Ends
  <2>7. /\ servers' \in [Server -> [st : {"none", "started", "serving", "exited"},
                            port : Port \cup {None}, signal : {"none", "interrupt", "kill"}]]
        /\ \A q \in Server : servers[q].st # "none" => servers'[q].st # "none"
        /\ \A q \in Server : Process!Alive(q)' => Process!Alive(q)
    BY <2>1 DEF PInv, Process!Alive
  <2>8. th[t].pc # "exited"
    BY <2>1
  <2> QED
    BY <2>1, <2>3, <2>4, <2>5, <2>6, <2>7, <2>8, GoStep, ZenonT(60)
<1> QED
  BY <1>1, <1>2, <1>3, ZenonT(60)

\* Stop: the interrupt, the wait and the kill.
LEMMA StopStep ==
  ASSUME Process!ProcessAssumption, PInv, NEW t \in Process!Thread,
         Process!Stop(t) \/ Process!Stopped(t) \/ Process!StopTimeout(t)
  PROVE  PInv'
<1>0. th[t] \in Goroutine /\ ThreadSound(t)
  BY DEF PInv
<1>1. /\ th[t].pc \in {"stop", "wait"} /\ th[t].stopping \in Server
      /\ UNCHANGED <<running, mu, url>>
  BY <1>0 DEF Process!Stop, Process!Stopped, Process!StopTimeout, Process!At, ThreadSound
<1>2. /\ servers' \in [Server -> [st : {"none", "started", "serving", "exited"},
                            port : Port \cup {None}, signal : {"none", "interrupt", "kill"}]]
      /\ \A q \in Server : servers'[q].st = servers[q].st
  BY <1>1, SMTT(60) DEF PInv, Process!Stop, Process!Stopped, Process!StopTimeout, Process!Alive
<1>3. \E pc \in {"stop", "wait", "stopped"} :
          /\ th' = [th EXCEPT ![t] = [th[t] EXCEPT !.pc = pc]]
          /\ pc = "stopped" => ~Process!Alive(th[t].stopping)
  <2>1. CASE Process!Stop(t)
    BY <2>1 DEF PInv, Process!Stop, Process!Goto
  <2>2. CASE Process!Stopped(t)
    BY <2>2 DEF PInv, Process!Stopped, Process!Goto
  <2>3. CASE Process!StopTimeout(t)
    <3>1. th' = th /\ th[t].pc = "wait"
      BY <2>3 DEF Process!StopTimeout, Process!At
    <3>2. th[t] = [th[t] EXCEPT !.pc = "wait"]
      BY <1>0, <3>1 DEF Goroutine
    <3>3. th = [th EXCEPT ![t] = [th[t] EXCEPT !.pc = "wait"]]
      BY <3>2 DEF PInv
    <3> QED
      BY <3>1, <3>3
  <2> QED
    BY <2>1, <2>2, <2>3
<1>4. PICK pc \in {"stop", "wait", "stopped"} :
          /\ th' = [th EXCEPT ![t] = [th[t] EXCEPT !.pc = pc]]
          /\ pc = "stopped" => ~Process!Alive(th[t].stopping)
  BY <1>3, ZenonT(60)
<1>5. PICK r : r = [th[t] EXCEPT !.pc = pc]
  BY ZenonT(60)
<1>6. /\ r \in Goroutine
      /\ r.pc = pc /\ r.own = th[t].own /\ r.stopping = th[t].stopping /\ r.then = th[t].then
  BY <1>0, <1>5 DEF Goroutine, ThreadPC
<1>7. th' = [th EXCEPT ![t] = r] /\ th'[t] = r
  BY <1>4, <1>5 DEF PInv
<1>8. \A q \in Server : Process!Alive(q)' <=> Process!Alive(q)
  BY <1>2, ZenonT(60) DEF Process!Alive
<1>9. ThreadSound(t)'
  <2>1. Started(th[t].own)' /\ Started(th[t].stopping)'
    BY <1>0, <1>2, <1>6, <1>7 DEF ThreadSound, Started
  <2>2. Ends(t) /\ Ends(t)'
    BY <1>1, <1>6, <1>7 DEF Ends
  <2>3. th'[t].pc = "stopped" => ~(Process!Alive(th[t].stopping)')
    BY <1>1, <1>4, <1>6, <1>7, <1>8, ZenonT(60)
  <2> QED
    BY <1>0, <1>1, <1>6, <1>7, <2>1, <2>2, <2>3, ZenonT(60) DEF ThreadSound, Process!Alive
<1>10. \A q \in Server : Process!Alive(q)' /\ q # running /\ Holds(t, q) => Holds(t, q)'
  BY <1>1, <1>4, <1>6, <1>7, <1>8, ZenonT(60) DEF Holds, Ends
<1>11. th[t].pc # "exited"
  BY <1>1
<1>12. \A q \in Server : servers[q].st # "none" => servers'[q].st # "none"
  BY <1>2
<1> QED
  BY <1>1, <1>2, <1>6, <1>7, <1>8, <1>9, <1>10, <1>11, <1>12, GoStep, ZenonT(60)

\* The servers do not change.
LEMMA ServersSame ==
  ASSUME PInv, UNCHANGED servers
  PROVE  /\ servers' \in [Server -> [st : {"none", "started", "serving", "exited"},
                            port : Port \cup {None}, signal : {"none", "interrupt", "kill"}]]
         /\ \A s \in Server : servers[s].st # "none" => servers'[s].st # "none"
         /\ \A s \in Server : Process!Alive(s)' <=> Process!Alive(s)
BY DEF PInv, Process!Alive

\* Prepare's swap under the lock: the server that ran is in t's hands until it is dead.
LEMMA SwapStep ==
  ASSUME Process!ProcessAssumption, PInv, NEW t \in Process!Thread, Process!Swap(t)
  PROVE  PInv'
<1>0. th[t] \in Goroutine /\ ThreadSound(t)
  BY DEF PInv
<1>1. th[t].pc = "lock" /\ mu = None /\ UNCHANGED servers /\ th[t].own \in Server
  BY <1>0, ZenonT(60) DEF Process!Swap, Process!At, ThreadSound
<1>2. \A q \in Process!Thread : ~(Ends(q) /\ th[q].then = "set")
  BY <1>1 DEF PInv, ThreadSound, Process!ProcessAssumption
<1>3. CASE running = None
  <2>1. running' = th[t].own /\ th' = [th EXCEPT ![t] = [th[t] EXCEPT !.pc = "set"]]
    BY <1>3 DEF Process!Swap, Process!Goto, PInv
  <2>2. PICK r : r = [th[t] EXCEPT !.pc = "set"]
    BY ZenonT(60)
  <2>3. /\ r \in Goroutine
        /\ r.pc = "set" /\ r.own = th[t].own /\ r.stopping = th[t].stopping
    BY <1>0, <2>2 DEF Goroutine, ThreadPC
  <2>4. th' = [th EXCEPT ![t] = r] /\ th'[t] = r
    BY <2>1, <2>2, ZenonT(60) DEF PInv
  <2>5. ThreadSound(t)'
    BY <1>0, <1>1, <2>3, <2>4 DEF ThreadSound, Started, Ends
  <2>6. running' \in Server \cup {None} /\ Started(running')
    BY <1>0, <1>1, <2>1 DEF ThreadSound, Started
  <2>7. \A q \in Server : Holds(t, q) => q = running'
    BY <1>1, <2>1 DEF Holds, Ends
  <2>8. \A q \in Server : q # running
    BY <1>3 DEF Process!ProcessAssumption
  <2>9. Process!Exited => Process!Exited'
    BY <1>1, <2>4 DEF PInv, Process!Exited, Process!At
  <2> QED
    BY <1>1, <1>2, <2>3, <2>4, <2>5, <2>6, <2>7, <2>8, <2>9, ServersSame, ThreadStep, ZenonT(60)
<1>4. CASE running # None
  <2>1. /\ mu' = t /\ UNCHANGED running
        /\ th' = [th EXCEPT ![t] = [th[t] EXCEPT !.pc = "stop", !.stopping = running, !.then = "set"]]
    BY <1>4, ZenonT(60) DEF Process!Swap, PInv
  <2>2. PICK r : r = [th[t] EXCEPT !.pc = "stop", !.stopping = running, !.then = "set"]
    BY ZenonT(60)
  <2>3. /\ r \in Goroutine
        /\ r.pc = "stop" /\ r.own = th[t].own /\ r.stopping = running /\ r.then = "set"
    BY <1>0, <2>2, ZenonT(60) DEF Goroutine, ThreadPC, PInv
  <2>4. th' = [th EXCEPT ![t] = r] /\ th'[t] = r
    BY <2>1, <2>2 DEF PInv
  <2>5. ThreadSound(t)'
    BY <1>0, <1>1, <1>4, <2>1, <2>3, <2>4, ZenonT(60) DEF PInv, ThreadSound, Started, Ends
  <2>6. \A q \in Server : Holds(t, q) => Holds(t, q)'
    BY <1>1, <2>3, <2>4, ZenonT(60) DEF Holds, Ends
  <2>7. th[t].pc # "exited"
    BY <1>1
  <2> QED
    BY <1>1, <1>2, <2>1, <2>3, <2>4, <2>5, <2>6, <2>7, ServersSame, GoStep, ZenonT(60)
<1> QED
  BY <1>3, <1>4

\* What follows a Stop: the server that was stopped is dead, so nothing is lost.
LEMMA AfterStopStep ==
  ASSUME Process!ProcessAssumption, PInv, NEW t \in Process!Thread, Process!AfterStop(t)
  PROVE  PInv'
<1>0. th[t] \in Goroutine /\ ThreadSound(t)
  BY DEF PInv
<1>1. /\ th[t].pc = "stopped" /\ UNCHANGED servers
      /\ th[t].then \in {"failed", "set", "serve", "exited"}
      /\ th[t].stopping \in Server => ~Process!Alive(th[t].stopping)
  BY <1>0, ZenonT(60) DEF Process!AfterStop, Process!At, ThreadSound, Ends
<1>2. CASE Process!Exit /\ UNCHANGED running
  BY <1>1, <1>2, ExitStep
<1>3. ASSUME NEW pc \in {"failed", "serve"}, UNCHANGED <<running, mu>>, th[t].then # "set",
             th' = [th EXCEPT ![t] = [th[t] EXCEPT !.pc = pc]]
      PROVE  PInv'
  <2>1. PICK r : r = [th[t] EXCEPT !.pc = pc]
    BY ZenonT(60)
  <2>2. /\ r \in Goroutine
        /\ r.pc = pc /\ r.own = th[t].own /\ r.stopping = th[t].stopping
    BY <1>0, <2>1 DEF Goroutine, ThreadPC
  <2>3. th' = [th EXCEPT ![t] = r] /\ th'[t] = r
    BY <1>3, <2>1, ZenonT(60) DEF PInv
  <2>4. ThreadSound(t)'
    BY <1>0, <1>1, <2>2, <2>3, ZenonT(60) DEF ThreadSound, Started, Ends
  <2>5. \A q \in Server : ~Holds(t, q)
    BY <1>1, <1>3, ZenonT(60) DEF Holds, Ends
  <2>6. th[t].pc # "exited"
    BY <1>1
  <2> QED
    BY <1>1, <1>3, <2>2, <2>3, <2>4, <2>5, <2>6, ServersSame, GoStep, ZenonT(60)
<1>4. CASE th[t].then = "set"
  <2>1. running' = th[t].own /\ mu' = None /\ th' = [th EXCEPT ![t] = [th[t] EXCEPT !.pc = "set"]]
    BY <1>4, ZenonT(60) DEF Process!AfterStop, Process!Goto, PInv
  <2>2. mu = t /\ running = th[t].stopping /\ running \in Server /\ th[t].own \in Server
    BY <1>0, <1>1, <1>4, ZenonT(60) DEF ThreadSound, Ends
  <2>3. PICK r : r = [th[t] EXCEPT !.pc = "set"]
    BY ZenonT(60)
  <2>4. /\ r \in Goroutine
        /\ r.pc = "set" /\ r.own = th[t].own /\ r.stopping = th[t].stopping
    BY <1>0, <2>3 DEF Goroutine, ThreadPC
  <2>5. th' = [th EXCEPT ![t] = r] /\ th'[t] = r
    BY <2>1, <2>3, ZenonT(60) DEF PInv
  <2>6. ThreadSound(t)'
    BY <1>0, <1>1, <2>2, <2>4, <2>5, ZenonT(60) DEF ThreadSound, Started, Ends
  <2>7. running' \in Server \cup {None} /\ Started(running')
    BY <1>0, <1>1, <2>1, <2>2 DEF ThreadSound, Started
  <2>8. \A q \in Server : Process!Alive(q) => q # running
    BY <1>1, <2>2
  <2>9. \A q \in Server : Holds(t, q) => q = running'
    BY <1>1, <2>1, ZenonT(60) DEF Holds, Ends
  <2>10. \A q \in Process!Thread \ {t} : ~(Ends(q) /\ th[q].then = "set")
    BY <2>2 DEF PInv, ThreadSound
  <2>11. Process!Exited => Process!Exited'
    BY <1>1, <2>5 DEF PInv, Process!Exited, Process!At
  <2> QED
    BY <1>1, <2>4, <2>5, <2>6, <2>7, <2>8, <2>9, <2>10, <2>11, ServersSame, ThreadStep, ZenonT(60)
<1>5. CASE th[t].then = "failed"
  <2>1. /\ UNCHANGED <<running, mu>>
        /\ Process!Exit \/ th' = [th EXCEPT ![t] = [th[t] EXCEPT !.pc = "failed"]]
    BY <1>5 DEF Process!AfterStop, Process!Goto, PInv
  <2> QED
    BY <1>2, <1>3, <1>5, <2>1
<1>6. CASE th[t].then = "serve"
  <2>1. UNCHANGED <<running, mu>> /\ th' = [th EXCEPT ![t] = [th[t] EXCEPT !.pc = "serve"]]
    BY <1>6 DEF Process!AfterStop, Process!Goto, PInv
  <2> QED
    BY <1>3, <1>6, <2>1
<1>7. CASE th[t].then = "exited"
  <2>1. Process!Exit /\ UNCHANGED running
    BY <1>7 DEF Process!AfterStop
  <2> QED
    BY <1>2, <2>1
<1> QED
  BY <1>1, <1>4, <1>5, <1>6, <1>7

\* LaunchFails, setRuntime and a resume command: t has no server in its hands.
LEMMA PlainStep ==
  ASSUME Process!ProcessAssumption, PInv, NEW t \in Process!Thread,
         Process!LaunchFails(t) \/ Process!SetRuntime(t) \/ Process!ResumeCommand(t)
  PROVE  PInv'
<1>0. th[t] \in Goroutine /\ ThreadSound(t)
  BY DEF PInv
<1>1. /\ th[t].pc \in {"launch", "set", "idle", "failed"}
      /\ UNCHANGED <<servers, running, mu>>
  BY DEF Process!LaunchFails, Process!SetRuntime, Process!ResumeCommand, Process!At
<1>2. CASE Process!Exit
  BY <1>1, <1>2, ExitStep
<1>3. ASSUME NEW r \in Goroutine, th' = [th EXCEPT ![t] = r],
             r.pc \in {"failed", "serve", "idle", "launch"},
             Started(r.own), Started(r.stopping)
      PROVE  PInv'
  <2>1. th'[t] = r
    BY <1>3, ZenonT(60) DEF PInv
  <2>2. ThreadSound(t)'
    BY <1>1, <1>3, <2>1, ZenonT(60) DEF ThreadSound, Started, Ends
  <2>3. \A q \in Server : ~Holds(t, q)
    BY <1>1 DEF Holds, Ends
  <2>4. th[t].pc # "exited"
    BY <1>1
  <2> QED
    BY <1>1, <1>3, <2>2, <2>3, <2>4, ServersSame, GoStep, ZenonT(60)
<1>4. ASSUME NEW pc \in {"failed", "launch"}, th' = [th EXCEPT ![t] = [th[t] EXCEPT !.pc = pc]]
      PROVE  PInv'
  <2>1. PICK r : r = [th[t] EXCEPT !.pc = pc]
    BY ZenonT(60)
  <2>2. /\ r \in Goroutine
        /\ r.pc = pc /\ r.own = th[t].own /\ r.stopping = th[t].stopping
    BY <1>0, <2>1 DEF Goroutine, ThreadPC
  <2>3. th' = [th EXCEPT ![t] = r]
    BY <1>4, <2>1, ZenonT(60)
  <2>4. Started(r.own) /\ Started(r.stopping) /\ r.pc \in {"failed", "serve", "idle", "launch"}
    BY <1>0, <2>2 DEF ThreadSound
  <2> QED
    BY <1>3, <2>2, <2>3, <2>4, ZenonT(60)
<1>5. CASE Process!SetRuntime(t)
  <2>1. PICK r : /\ r = [Process!IdleThread EXCEPT !.pc = IF t = Main THEN "serve" ELSE "idle"]
                 /\ th' = [th EXCEPT ![t] = r]
    BY <1>5, ZenonT(60) DEF Process!SetRuntime
  <2>2. /\ r.pc \in {"serve", "idle"} /\ r \in Goroutine
        /\ r.own = None /\ r.stopping = None
    BY <2>1 DEF Process!IdleThread, Goroutine, ThreadPC
  <2>3. /\ r.pc \in {"failed", "serve", "idle", "launch"}
        /\ Started(r.own) /\ Started(r.stopping)
    BY <2>2 DEF Started, Process!ProcessAssumption
  <2> QED
    BY <1>3, <2>1, <2>2, <2>3, ZenonT(60)
<1>6. CASE Process!LaunchFails(t)
  <2>1. Process!Exit \/ th' = [th EXCEPT ![t] = [th[t] EXCEPT !.pc = "failed"]]
    BY <1>6 DEF Process!LaunchFails, Process!Goto, PInv
  <2> QED
    BY <1>2, <1>4, <2>1
<1>7. CASE Process!ResumeCommand(t)
  <2>1. th' = [th EXCEPT ![t] = [th[t] EXCEPT !.pc = "launch"]]
    BY <1>7 DEF Process!ResumeCommand, Process!Goto, PInv
  <2> QED
    BY <1>4, <2>1
<1> QED
  BY <1>5, <1>6, <1>7

\* Close: the provider's server goes into the hands of Main.
LEMMA CloseStep ==
  ASSUME Process!ProcessAssumption, PInv, NEW then \in {"serve", "exited"}, Process!Close(then)
  PROVE  PInv'
<1>0. Main \in Process!Thread /\ th[Main] \in Goroutine /\ ThreadSound(Main)
  BY DEF PInv, Process!Thread
<1>1. /\ th[Main].pc = "serve" /\ mu = None /\ running' = None
      /\ UNCHANGED <<servers, mu>>
  BY DEF Process!Close, Process!At
<1>2. PICK r : r = [th[Main] EXCEPT !.pc = IF running = None THEN "stopped" ELSE "stop",
                                    !.stopping = running, !.then = then]
  OBVIOUS
<1>3. /\ r \in Goroutine
      /\ r.pc = IF running = None THEN "stopped" ELSE "stop"
      /\ r.own = th[Main].own /\ r.stopping = running /\ r.then = then
  BY <1>0, <1>2, ZenonT(60) DEF Goroutine, ThreadPC, PInv
<1>4. th' = [th EXCEPT ![Main] = r] /\ th'[Main] = r
  BY <1>0, <1>2, ZenonT(60) DEF PInv, Process!Close
<1>5. ThreadSound(Main)'
  BY <1>0, <1>1, <1>3, <1>4 DEF PInv, ThreadSound, Started, Ends, Process!ProcessAssumption
<1>6. /\ running' \in Server \cup {None}
      /\ Started(running')
  BY <1>1, ZenonT(60) DEF Started, Process!ProcessAssumption
<1>7. /\ \A q \in Server : ~Holds(Main, q)
      /\ \A q \in Server : q = running => Holds(Main, q)'
  BY <1>1, <1>3, <1>4, ZenonT(60) DEF Holds, Ends, Process!ProcessAssumption
<1>8. \A q \in Process!Thread : ~(Ends(q) /\ th[q].then = "set")
  BY <1>1 DEF PInv, ThreadSound, Process!ProcessAssumption
<1>9. Process!Exited => Process!Exited'
  BY <1>1 DEF Process!Exited, Process!At
<1> QED
  BY <1>0, <1>1, <1>3, <1>4, <1>5, <1>6, <1>7, <1>8, <1>9, ServersSame, ThreadStep, ZenonT(60)

\* Every step accounts for every server.
LEMMA ProcessStep ==
  ASSUME Process!ProcessAssumption, PInv, [Process!Next]_Process!vars
  PROVE  PInv'
<1>1. CASE UNCHANGED Process!vars
  BY <1>1 DEF PInv, Process!vars, ThreadSound, Started, Ends, Accounted, Holds, Process!Alive,
              Process!Exited, Process!At
<1>2. CASE Process!Unload \/ Process!Shutdown
  BY <1>2, CloseStep DEF Process!Unload, Process!Shutdown
<1>3. ASSUME NEW t \in Process!Thread, Process!Prepare(t) \/ Process!ResumeCommand(t)
      PROVE  PInv'
  BY <1>3, LaunchStep, StopStep, SwapStep, AfterStopStep, PlainStep DEF Process!Prepare
<1>4. ASSUME NEW s \in Server, Process!Serves(s) \/ Process!Dies(s) PROVE PInv'
  BY <1>4, ServersStep
<1> QED
  BY <1>1, <1>2, <1>3, <1>4, ZenonT(60) DEF Process!Next

\* OneServer: however many resume commands prepare at once, while none is under way the
\* only server alive is the one the provider knows (local_runtime.go Prepare and Close,
\* launcher.go StartLlamaServer and Stop).
THEOREM OneServerRuns ==
  ASSUME Process!ProcessAssumption
  PROVE  Process!Spec => []Process!OneServer
<1>1. PInv => Process!OneServer
  BY DEF PInv, Accounted, Holds, Ends, Process!OneServer, Process!Preparing
<1> QED
  BY <1>1, ProcessStarts, ProcessStep, PTL DEF Process!Spec
=============================================================================
