----------------------- MODULE CapturePipeline_proofs -----------------------
(***************************************************************************)
(* Proofs about CapturePipeline, for any set of captures, any assignment of*)
(* short ids, any artifacts and any bounds.                                *)
(***************************************************************************)
EXTENDS CapturePipeline, FiniteSetTheorems, TLAPS

\* The phases of a capture, spelled out.
LEMMA PhaseNames ==
    Phase = {"new", "created", "alerted", "collecting", "writing", "hashing",
             "sealing", "sealed", "succeeded", "failing", "done", "failed", "lost"}
BY DEF Phase, Running, Unsealed, Over

\* A capture that got past Create has a directory.
HasDir == \A c \in Capture : phase[c] \notin {"new", "failing", "failed", "lost"}
                                 => pkg[c] \in Dir

\* No step takes a variable out of its type.
LEMMA TypeStep == TypeOK /\ HasDir /\ [Next]_vars => TypeOK'
<1> SUFFICES ASSUME TypeOK, HasDir, [Next]_vars PROVE TypeOK'
  OBVIOUS
<1> USE MappingAssumption, OrderAssumption, BoundAssumption, SentinelAssumption,
        PhaseNames DEF TypeOK
<1>0. ASSUME NEW E \in SUBSET (AuditAction \X Capture), Written(E) \/ CutShort(E)
      PROVE  /\ audit' \subseteq AuditAction \X Capture /\ open' \in BOOLEAN
             /\ tail' \subseteq audit' /\ cut' \in Nat
  <2>1. CASE Written(E)
    BY <2>1 DEF Written
  <2>2. CASE CutShort(E)
    <3>1. /\ cut' = cut + 1
          /\ \/ UNCHANGED <<audit, open, tail>>
             \/ audit' = audit \ tail /\ open' = TRUE /\ tail' = {}
             \/ audit' = audit \union E /\ open' = TRUE /\ tail' = E
      BY <2>2 DEF CutShort
    <3>2. cut' \in Nat
      BY <3>1
    <3> QED
      BY <3>1, <3>2
  <2> QED
    BY <1>0, <2>1, <2>2
<1>1. ASSUME NEW c \in Capture, Create(c) PROVE TypeOK'
  <2>1. <<clock, ShortOf[c]>> \in Dir
    BY DEF Dir
  <2> QED
    BY <1>1, <2>1 DEF Create, Goto, auditVars, resetVars
<1>2. ASSUME NEW c \in Capture, CreateFails(c) PROVE TypeOK'
  BY <1>2 DEF CreateFails, Goto, auditVars, diskVars, resetVars
<1>3. ASSUME NEW c \in Capture, LogStep(c) PROVE TypeOK'
  <2>1. PICK a \in AuditAction : Log(a, c)
    BY <1>3 DEF LogStep, LogAlert, LogStarted, LogSuccess, LogStored, LogFailure,
                AuditAction
  <2>4. {<<a, c>>} \in SUBSET (AuditAction \X Capture)
    OBVIOUS
  <2>5. /\ audit' \subseteq AuditAction \X Capture /\ open' \in BOOLEAN
        /\ tail' \subseteq audit' /\ cut' \in Nat
    BY <1>0, <2>1, <2>4 DEF Log
  <2>2. phase' \in [Capture -> Phase]
    BY <1>3 DEF LogStep, LogAlert, LogStarted, LogSuccess, LogStored, LogFailure, Goto
  <2>3. UNCHANGED <<clock, diskVars, pkg, got, todo, fd, sha, size, resetVars>>
    BY <1>3 DEF LogStep, LogAlert, LogStarted, LogSuccess, LogStored, LogFailure
  <2> QED
    BY <2>2, <2>3, <2>5 DEF diskVars, resetVars
<1>4. ASSUME NEW c \in Capture, CollectDocker(c) \/ CollectK8s(c) PROVE TypeOK'
  <2>1. PICK S \in SUBSET Artifact : /\ got' = [got EXCEPT ![c] = S]
                                     /\ todo' = [todo EXCEPT ![c] = S]
    BY <1>4 DEF CollectDocker, CollectK8s
  <2>2. /\ Goto(c, "writing")
        /\ UNCHANGED <<clock, diskVars, auditVars, pkg, fd, sha, size, resetVars>>
    BY <1>4 DEF CollectDocker, CollectK8s
  <2>3. S \in SUBSET File
    BY DEF File
  <2> QED
    BY <2>1, <2>2, <2>3 DEF Goto, auditVars, diskVars, resetVars
<1>5. ASSUME NEW c \in Capture, NEW f \in File, OpenFile(c, f)
      PROVE  /\ file' \in [Dir -> [File -> Content]]
             /\ fd' \in [Capture -> File \union {Closed, Unlinked}]
  BY <1>5 DEF OpenFile, Content
<1>6. ASSUME NEW c \in Capture, FillFile(c)
      PROVE  /\ file' \in [Dir -> [File -> Content]]
             /\ fd' \in [Capture -> File \union {Closed, Unlinked}]
  <2>1. CASE fd[c] = Unlinked
    BY <1>6, <2>1 DEF FillFile
  <2>2. CASE fd[c] # Unlinked
    <3>1. PICK x \in {c, Garbage} : file' = [file EXCEPT ![pkg[c]][fd[c]] = x]
      BY <1>6, <2>2 DEF FillFile
    <3>2. x \in Content
      BY DEF Content
    <3> QED
      BY <1>6, <3>1, <3>2 DEF FillFile
  <2> QED
    BY <2>1, <2>2
<1>7. ASSUME NEW c \in Capture, WriteBegin(c) PROVE TypeOK'
  <2>1. PICK f \in todo[c] : OpenFile(c, f) /\ todo' = [todo EXCEPT ![c] = @ \ {f}]
    BY <1>7 DEF WriteBegin
  <2> QED
    BY <1>5, <1>7, <2>1 DEF WriteBegin, auditVars, resetVars
<1>8. ASSUME NEW c \in Capture, WriteEnd(c) PROVE TypeOK'
  BY <1>6, <1>8 DEF WriteEnd, auditVars, resetVars
<1>9. ASSUME NEW c \in Capture, List(c) PROVE TypeOK'
  BY <1>9 DEF List, Listing, Goto, auditVars, diskVars, resetVars
<1>10. ASSUME NEW c \in Capture, Hash(c) PROVE TypeOK'
  <2>1. PICK f \in todo[c] :
           file[pkg[c]][f] # Absent /\ sha' = [sha EXCEPT ![c][f] = file[pkg[c]][f]]
    BY <1>10 DEF Hash
  <2>2. file[pkg[c]][f] \in Content
    <3>1. pkg[c] \in Dir
      BY <1>10 DEF Hash, HasDir
    <3>2. f \in File
      OBVIOUS
    <3> QED
      BY <3>1, <3>2
  <2>3. sha' \in [Capture -> [File -> Content]]
    BY <2>1, <2>2
  <2> QED
    BY <1>10, <2>1, <2>3 DEF Hash, auditVars, diskVars, resetVars
<1>11. ASSUME NEW c \in Capture, Stat(c) PROVE TypeOK'
  <2>1. PICK f \in todo[c] : /\ size' = [size EXCEPT ![c][f] = file[pkg[c]][f]]
                             /\ todo' = [todo EXCEPT ![c] = @ \ {f}]
    BY <1>11 DEF Stat
  <2>2. file[pkg[c]][f] \in Content
    <3>1. pkg[c] \in Dir
      BY <1>11 DEF Stat, HasDir
    <3>2. f \in File
      OBVIOUS
    <3> QED
      BY <3>1, <3>2
  <2>3. size' \in [Capture -> [File -> Content]]
    BY <2>1, <2>2
  <2> QED
    BY <1>11, <2>1, <2>3 DEF Stat, auditVars, diskVars, resetVars
<1>12. ASSUME NEW c \in Capture, SealBegin(c) PROVE TypeOK'
  BY <1>5, <1>12 DEF SealBegin, Goto, File, auditVars, resetVars
<1>13. ASSUME NEW c \in Capture, SealEnd(c) PROVE TypeOK'
  BY <1>6, <1>13 DEF SealEnd, Goto, auditVars, resetVars
<1>20. ASSUME NEW c \in Capture, CloseFails(c) PROVE TypeOK'
  BY <1>6, <1>20 DEF CloseFails, Goto, auditVars, resetVars
<1>21. CASE LogOther
  <2>1. {} \in SUBSET (AuditAction \X Capture)
    OBVIOUS
  <2>2. /\ audit' \subseteq AuditAction \X Capture /\ open' \in BOOLEAN
        /\ tail' \subseteq audit' /\ cut' \in Nat
    BY <1>0, <1>21, <2>1 DEF LogOther
  <2> QED
    BY <1>21, <2>2 DEF LogOther, diskVars, captureVars, resetVars
<1>14. ASSUME NEW S \in SUBSET Capture, Forget(S)
       PROVE  /\ got' \in [Capture -> SUBSET Artifact]
              /\ todo' \in [Capture -> SUBSET File]
              /\ sha' \in [Capture -> [File -> Content]]
              /\ size' \in [Capture -> [File -> Content]]
  BY <1>14 DEF Forget, Content
<1>15. ASSUME NEW c \in Capture, PreserveFails(c) PROVE TypeOK'
  <2>1. file' \in [Dir -> [File -> Content]]
    <3>1. CASE file' = file
      BY <3>1
    <3>2. CASE file' = [file EXCEPT ![pkg[c]][fd[c]] = Garbage]
      BY <3>2 DEF Content
    <3> QED
      BY <1>15, <3>1, <3>2 DEF PreserveFails
  <2> QED
    BY <1>14, <1>15, <2>1 DEF PreserveFails, Goto, auditVars, resetVars
<1>16. CASE ResetStep
  <2>1. CASE ResetList
    <3>1. resets' \in Nat
      <4>1. resets' = resets + 1
        BY <2>1 DEF ResetList
      <4> QED
        BY <4>1
    <3>2. stale' \subseteq Capture
      BY <2>1 DEF ResetList
    <3> QED
      BY <2>1, <3>1, <3>2 DEF ResetList, auditVars, diskVars, captureVars
  <2>2. CASE ResetOpen
    BY <2>2 DEF ResetOpen, Listing, auditVars, diskVars, captureVars
  <2>3. CASE ResetUnlink
    BY <2>3 DEF ResetUnlink, auditVars, Content
  <2>4. CASE ResetRmdir
    <3>1. exists' \subseteq Dir
      BY <2>4 DEF ResetRmdir
    <3>2. wiped' \subseteq Dir
      BY <2>4 DEF ResetRmdir
    <3>3. warned' \in BOOLEAN
      BY <2>4 DEF ResetRmdir
    <3> QED
      BY <2>4, <3>1, <3>2, <3>3 DEF ResetRmdir, auditVars, captureVars
  <2>5. CASE ResetFails
    BY <2>5 DEF ResetFails, auditVars, diskVars, captureVars
  <2>6. CASE ResetTruncate
    BY <2>6 DEF ResetTruncate, auditVars, diskVars, captureVars
  <2> QED
    BY <1>16, <2>1, <2>2, <2>3, <2>4, <2>5, <2>6 DEF ResetStep
<1>17. CASE Tick
  BY <1>17 DEF Tick, auditVars, diskVars, captureVars, resetVars
<1>18. CASE Die
  <2>1. file' \in [Dir -> [File -> Content]]
    BY <1>18 DEF Die, Content
  <2>2. phase' \in [Capture -> Phase]
    BY <1>18 DEF Die
  <2>3. /\ fd' \in [Capture -> File \union {Closed, Unlinked}]
        /\ sweep' \in {"idle", "sweeping", "finished"}
    BY <1>18 DEF Die
  <2> QED
    BY <1>14, <1>18, <2>1, <2>2, <2>3 DEF Die, auditVars
<1>19. CASE UNCHANGED vars
  BY <1>19 DEF vars, auditVars, diskVars, captureVars, resetVars
<1> QED
  BY <1>1, <1>2, <1>3, <1>4, <1>7, <1>8, <1>9, <1>10, <1>11, <1>12, <1>13,
     <1>15, <1>16, <1>17, <1>18, <1>19, <1>20, <1>21 DEF Next, CaptureStep, PreserveStep

LEMMA HasDirStep == TypeOK /\ HasDir /\ [Next]_vars => HasDir'
<1> SUFFICES ASSUME TypeOK, HasDir, [Next]_vars,
                    NEW b \in Capture, phase'[b] \notin {"new", "failing", "failed", "lost"}
             PROVE  pkg'[b] \in Dir
  BY DEF HasDir
<1> USE MappingAssumption, BoundAssumption DEF TypeOK, HasDir
<1>1. ASSUME NEW c \in Capture, Create(c) PROVE pkg'[b] \in Dir
  <2>1. <<clock, ShortOf[c]>> \in Dir
    BY DEF Dir
  <2> QED
    BY <1>1, <2>1 DEF Create, Goto
<1>2. ASSUME NEW c \in Capture, CaptureStep(c), ~ Create(c) PROVE pkg'[b] \in Dir
  BY <1>2 DEF CaptureStep, CreateFails, CollectDocker, CollectK8s, PreserveStep, LogStep,
      WriteBegin, WriteEnd, List, Hash, Stat, SealBegin, SealEnd, CloseFails, PreserveFails,
      LogAlert, LogStarted, LogSuccess, LogStored, LogFailure, Goto
<1>3. CASE ResetStep
  BY <1>3 DEF ResetStep, ResetList, ResetOpen, ResetUnlink, ResetRmdir, ResetFails,
      ResetTruncate, captureVars
<1>4. CASE LogOther \/ Tick \/ UNCHANGED vars
  BY <1>4 DEF LogOther, Tick, vars, captureVars
<1>5. CASE Die
  BY <1>5 DEF Die, Running, Unsealed
<1> QED
  BY <1>1, <1>2, <1>3, <1>4, <1>5 DEF Next

LEMMA TypeInit == Init => TypeOK /\ HasDir
<1> SUFFICES ASSUME Init PROVE TypeOK /\ HasDir
  OBVIOUS
<1>1. clock \in 0 .. MaxSecond /\ resets \in Nat /\ cut \in Nat
  BY BoundAssumption DEF Init
<1>2. file \in [Dir -> [File -> Content]]
  BY DEF Init, Content
<1>3. sha \in [Capture -> [File -> Content]] /\ size \in [Capture -> [File -> Content]]
  BY DEF Init, Content
<1> QED
  BY <1>1, <1>2, <1>3, PhaseNames DEF Init, TypeOK, HasDir

\* Every variable keeps its type.
THEOREM TypeCorrect == Spec => []TypeOK
<1>1. TypeOK /\ HasDir /\ [Next]_vars => (TypeOK /\ HasDir)'
  BY TypeStep, HasDirStep
<1>2. QED
  BY <1>1, TypeInit, PTL DEF Spec

----------------------------------------------------------------------------
(* The inductive invariant behind the safety properties.                   *)

\* Only captures put files into directories.
Owned ==
    \A d \in Dir :
        (\A c \in Capture : pkg[c] # d) => \A f \in File : file[d][f] = Absent

\* A file is open only while Preserve writes, a capture that has not begun has
\* no directory, and the manifest has no entries before the listing is made.
Local(c) ==
    /\ phase[c] \notin {"writing", "sealing"} => fd[c] = Closed
    /\ phase[c] = "new" => pkg[c] = NoDir
    /\ phase[c] \in {"new", "created", "alerted", "collecting", "writing"} =>
          \A f \in File : sha[c][f] = Absent /\ size[c][f] = Absent

\* What the finished package has under the name of artifact f.
Stored(c, f) == IF f \in got[c] THEN c ELSE Absent

\* What an undisturbed package holds at each phase of its capture.
Stage(c) ==
    LET onDisk == file[pkg[c]] IN
    /\ phase[c] \in {"created", "alerted", "collecting"} =>
          \A f \in File : onDisk[f] = Absent
    /\ phase[c] = "writing" =>
          /\ onDisk[Manifest] = Absent
          /\ todo[c] \subseteq got[c]
          /\ fd[c] \in (got[c] \ todo[c]) \union {Closed}
          /\ \A f \in Artifact :
                onDisk[f] = IF f \in todo[c] THEN Absent
                            ELSE IF f = fd[c] THEN Empty ELSE Stored(c, f)
    /\ phase[c] = "hashing" =>
          /\ onDisk[Manifest] = Absent
          /\ todo[c] \subseteq got[c]
          /\ \A f \in Artifact :
                /\ onDisk[f] = Stored(c, f)
                /\ IF f \in todo[c] THEN sha[c][f] \in {Absent, c} /\ size[c][f] = Absent
                   ELSE sha[c][f] = Stored(c, f) /\ size[c][f] = Stored(c, f)
    /\ phase[c] = "sealing" =>
          fd[c] = Manifest /\ onDisk[Manifest] = Empty /\ Matches(c)
    /\ phase[c] \in {"sealed", "succeeded", "done"} =>
          onDisk[Manifest] = c /\ Matches(c)
    /\ phase[c] \in {"failing", "failed", "lost"} => (onDisk[Manifest] = c => Matches(c))

PackageInv ==
    /\ TypeOK
    /\ HasDir
    /\ Owned
    /\ \A c \in Capture : Local(c)
    /\ \A c \in Capture : Undisturbed(c) => Stage(c)

\* A directory is only ever given to a capture, and deletions are remembered.
LEMMA Undisturb ==
    ASSUME PackageInv, [Next]_vars, NEW c \in Capture, Undisturbed(c)', pkg[c] # NoDir
    PROVE  Undisturbed(c) /\ pkg'[c] = pkg[c]
<1> USE DEF PackageInv, TypeOK
<1>1. wiped \subseteq wiped'
  BY DEF Next, CaptureStep, Create, CreateFails, CollectDocker, CollectK8s, PreserveStep,
     LogStep, WriteBegin, WriteEnd, List, Hash, Stat, SealBegin, SealEnd, CloseFails, PreserveFails,
     LogAlert, LogStarted, LogSuccess, LogStored, LogFailure, ResetStep, ResetList,
     ResetOpen, ResetUnlink, ResetRmdir, ResetFails, ResetTruncate, LogOther, Tick, Die, resetVars, vars
<1>2. \A b \in Capture : pkg'[b] = pkg[b] \/ pkg[b] = NoDir
  <2>1. ASSUME NEW a \in Capture, Create(a)
        PROVE  \A b \in Capture : pkg'[b] = pkg[b] \/ pkg[b] = NoDir
    BY <2>1 DEF Create, Local
  <2>2. CASE \A a \in Capture : ~ Create(a)
    BY <2>2 DEF Next, CaptureStep, CreateFails, CollectDocker, CollectK8s, PreserveStep,
       LogStep, WriteBegin, WriteEnd, List, Hash, Stat, SealBegin, SealEnd, CloseFails, PreserveFails,
       LogAlert, LogStarted, LogSuccess, LogStored, LogFailure, ResetStep, ResetList,
       ResetOpen, ResetUnlink, ResetRmdir, ResetFails, ResetTruncate, LogOther, Tick, Die,
       captureVars, vars
  <2> QED
    BY <2>1, <2>2
<1> QED
  BY <1>1, <1>2 DEF Undisturbed, Solo

\* Stage(c) depends on the variables of c and on the contents of its directory.
LEMMA StageFrame ==
    ASSUME NEW c \in Capture, Stage(c), pkg'[c] = pkg[c], file'[pkg[c]] = file[pkg[c]],
           phase'[c] = phase[c], got'[c] = got[c], todo'[c] = todo[c], fd'[c] = fd[c],
           sha'[c] = sha[c], size'[c] = size[c]
    PROVE  Stage(c)'
<1>1. \A f \in File : Stored(c, f)' = Stored(c, f)
  BY DEF Stored
<1>2. Matches(c)' <=> Matches(c)
  BY DEF Matches
<1> QED
  BY <1>1, <1>2 DEF Stage, File

\* A step of another capture changes neither.
LEMMA OtherCapture ==
    ASSUME PackageInv, NEW b \in Capture, CaptureStep(b), NEW c \in Capture, b # c,
           Undisturbed(c), pkg'[c] = pkg[c]
    PROVE  /\ file'[pkg[c]] = file[pkg[c]]
           /\ phase'[c] = phase[c] /\ got'[c] = got[c] /\ todo'[c] = todo[c]
           /\ fd'[c] = fd[c] /\ sha'[c] = sha[c] /\ size'[c] = size[c]
<1> USE DEF PackageInv, TypeOK
<1>1. pkg[b] # pkg[c] /\ pkg[c] \in Dir
  BY DEF Undisturbed, Solo
<1>2. file'[pkg[c]] = file[pkg[c]]
  BY <1>1 DEF CaptureStep, Create, CreateFails, CollectDocker, CollectK8s, PreserveStep,
     LogStep, WriteBegin, WriteEnd, List, Hash, Stat, SealBegin, SealEnd, CloseFails, PreserveFails,
     OpenFile, FillFile,
     LogAlert, LogStarted, LogSuccess, LogStored, LogFailure, diskVars
<1>3. phase'[c] = phase[c]
  BY DEF CaptureStep, Create, CreateFails, CollectDocker, CollectK8s, PreserveStep,
     LogStep, WriteBegin, WriteEnd, List, Hash, Stat, SealBegin, SealEnd, CloseFails, PreserveFails,
     LogAlert, LogStarted, LogSuccess, LogStored, LogFailure, Goto
<1>4. got'[c] = got[c] /\ todo'[c] = todo[c]
  BY DEF CaptureStep, Create, CreateFails, CollectDocker, CollectK8s, PreserveStep,
     LogStep, WriteBegin, WriteEnd, List, Hash, Stat, SealBegin, SealEnd, CloseFails, PreserveFails,
     LogAlert, LogStarted, LogSuccess, LogStored, LogFailure, Forget
<1>5. fd'[c] = fd[c] /\ sha'[c] = sha[c] /\ size'[c] = size[c]
  BY DEF CaptureStep, Create, CreateFails, CollectDocker, CollectK8s, PreserveStep,
     LogStep, WriteBegin, WriteEnd, List, Hash, Stat, SealBegin, SealEnd, CloseFails, PreserveFails,
     OpenFile, FillFile,
     LogAlert, LogStarted, LogSuccess, LogStored, LogFailure, Forget
<1> QED
  BY <1>2, <1>3, <1>4, <1>5

\* What an undisturbed capture does itself takes it from stage to stage.
LEMMA OwnStep ==
    ASSUME PackageInv, NEW c \in Capture, CaptureStep(c), ~ Create(c),
           Undisturbed(c), pkg'[c] = pkg[c]
    PROVE  Stage(c)'
<1> DEFINE d == pkg[c]
<1>0. /\ d \in Dir /\ Stage(c) /\ Local(c) /\ d = pkg'[c]
      /\ c # Absent /\ c # Empty /\ c # Garbage /\ Absent # Empty /\ Absent # Garbage
      /\ Manifest \notin Artifact /\ Closed \notin File /\ Unlinked \notin File
      /\ Closed # Unlinked /\ Empty # Garbage
  BY SentinelAssumption, OrderAssumption DEF PackageInv, TypeOK, Undisturbed, Solo
<1> HIDE DEF d
<1>t. TypeOK
  BY DEF PackageInv
<1>1. CASE CreateFails(c)
  BY <1>1, <1>0, PackageInv DEF CreateFails, PackageInv, Local, Undisturbed, Solo
<1>2. CASE LogStep(c)
  <2>1. UNCHANGED <<file, pkg, got, todo, fd, sha, size>>
    BY <1>2 DEF LogStep, LogAlert, LogStarted, LogSuccess, LogStored, LogFailure, diskVars
  <2>2. Matches(c)' <=> Matches(c)
    BY <2>1 DEF Matches
  <2>3. \/ phase[c] \in {"created", "alerted"} /\ phase'[c] \in {"alerted", "collecting"}
        \/ phase[c] \in {"sealed", "succeeded"} /\ phase'[c] \in {"succeeded", "done"}
        \/ phase[c] = "failing" /\ phase'[c] = "failed"
    BY <1>2, <1>t DEF LogStep, LogAlert, LogStarted, LogSuccess, LogStored, LogFailure,
                      Goto, TypeOK
  <2> QED
    BY <1>0, <2>1, <2>2, <2>3 DEF Stage
<1>3. CASE CollectDocker(c) \/ CollectK8s(c)
  <2>1. /\ phase[c] = "collecting" /\ phase'[c] = "writing"
        /\ UNCHANGED <<file, pkg, fd>>
        /\ got'[c] = todo'[c]
    BY <1>3, <1>t DEF CollectDocker, CollectK8s, Goto, TypeOK, diskVars
  <2>2. got'[c] \subseteq Artifact
    BY <1>3, <1>t DEF CollectDocker, CollectK8s, TypeOK
  <2>3. /\ \A f \in File : file[pkg[c]][f] = Absent
        /\ fd[c] = Closed
    BY <1>0, <2>1 DEF Stage, Local
  <2> QED
    BY <1>0, <2>1, <2>2, <2>3 DEF Stage, Stored, File
<1>4. CASE WriteBegin(c)
  <2>1. PICK f \in todo[c] : OpenFile(c, f) /\ todo' = [todo EXCEPT ![c] = @ \ {f}]
    BY <1>4 DEF WriteBegin
  <2>2. phase[c] = "writing" /\ phase'[c] = "writing" /\ got'[c] = got[c]
    BY <1>4 DEF WriteBegin
  <2>3. f \in got[c] /\ f \in Artifact /\ f # Manifest /\ fd[c] = Closed
    BY <1>0, <1>t, <2>1, <2>2 DEF Stage, OpenFile, TypeOK
  <2>4. /\ todo'[c] = todo[c] \ {f} /\ fd'[c] = f
        /\ \A g \in File : file'[d][g] = IF g = f THEN Empty ELSE file[d][g]
    BY <1>0, <1>t, <2>1, <2>3 DEF OpenFile, TypeOK, d, File
  <2> QED
    BY <1>0, <2>2, <2>3, <2>4 DEF Stage, Stored, File, d
<1>5. CASE WriteEnd(c)
  <2>1. /\ phase[c] = "writing" /\ phase'[c] = "writing"
        /\ got'[c] = got[c] /\ todo'[c] = todo[c]
    BY <1>5 DEF WriteEnd
  <2>2. fd[c] \in got[c] \ todo[c] /\ fd[c] \in Artifact /\ fd[c] # Manifest
    BY <1>0, <1>t, <1>5, <2>1 DEF Stage, WriteEnd, FillFile, TypeOK
  <2>3. file[d][fd[c]] = Empty
    BY <1>0, <2>1, <2>2 DEF Stage, d
  <2>4. /\ fd'[c] = Closed
        /\ \A g \in File : file'[d][g] = IF g = fd[c] THEN c ELSE file[d][g]
    BY <1>0, <1>t, <1>5, <2>2, <2>3 DEF WriteEnd, FillFile, TypeOK, d, File
  <2> QED
    BY <1>0, <2>1, <2>2, <2>4 DEF Stage, Stored, File, d
<1>6. CASE List(c)
  <2>1. /\ phase[c] = "writing" /\ phase'[c] = "hashing" /\ todo[c] = {} /\ fd[c] = Closed
        /\ got'[c] = got[c] /\ todo'[c] = Listing(d) /\ file' = file
        /\ sha'[c] = sha[c] /\ size'[c] = size[c]
    BY <1>6, <1>t DEF List, Goto, TypeOK, diskVars, d
  <2>2. \A f \in Artifact : file[d][f] = Stored(c, f) /\ f # Closed
    BY <1>0, <2>1 DEF Stage, d, File
  <2>3. todo'[c] = got[c]
    BY <1>0, <1>t, <2>1, <2>2 DEF Listing, Stage, Stored, File, TypeOK, d
  <2> QED
    BY <1>0, <1>t, <2>1, <2>2, <2>3 DEF Stage, Stored, Local, File, TypeOK, d
<1>7. CASE Hash(c)
  <2>1. PICK f \in todo[c] : sha' = [sha EXCEPT ![c][f] = file[pkg[c]][f]]
    BY <1>7 DEF Hash
  <2>2. /\ phase[c] = "hashing" /\ phase'[c] = "hashing"
        /\ UNCHANGED <<file, got, todo, size>>
    BY <1>7 DEF Hash, diskVars
  <2>3. f \in got[c] /\ f \in Artifact /\ file[d][f] = c
    BY <1>0, <1>t, <2>1, <2>2 DEF Stage, Stored, TypeOK, d
  <2>4. \A g \in File : sha'[c][g] = IF g = f THEN c ELSE sha[c][g]
    BY <1>t, <2>1, <2>3 DEF TypeOK, d
  <2> QED
    BY <1>0, <2>1, <2>2, <2>3, <2>4 DEF Stage, Stored, File, d
<1>8. CASE Stat(c)
  <2>1. PICK f \in todo[c] : /\ sha[c][f] # Absent
                             /\ size' = [size EXCEPT ![c][f] = file[pkg[c]][f]]
                             /\ todo' = [todo EXCEPT ![c] = @ \ {f}]
    BY <1>8 DEF Stat
  <2>2. /\ phase[c] = "hashing" /\ phase'[c] = "hashing"
        /\ UNCHANGED <<file, got, sha>>
    BY <1>8 DEF Stat, diskVars
  <2>3. f \in got[c] /\ f \in Artifact /\ file[d][f] = c /\ sha[c][f] = c
    BY <1>0, <1>t, <2>1, <2>2 DEF Stage, Stored, TypeOK, d
  <2>4. /\ \A g \in File : size'[c][g] = IF g = f THEN c ELSE size[c][g]
        /\ todo'[c] = todo[c] \ {f}
    BY <1>t, <2>1, <2>3 DEF TypeOK, d
  <2> QED
    BY <1>0, <2>1, <2>2, <2>3, <2>4 DEF Stage, Stored, File, d
<1>9. CASE SealBegin(c)
  <2>1. /\ phase[c] = "hashing" /\ phase'[c] = "sealing" /\ todo[c] = {}
        /\ UNCHANGED <<got, sha, size>>
    BY <1>9, <1>t DEF SealBegin, Goto, TypeOK
  <2>2. /\ fd'[c] = Manifest
        /\ \A g \in File : file'[d][g] = IF g = Manifest THEN Empty ELSE file[d][g]
    BY <1>0, <1>t, <1>9 DEF SealBegin, OpenFile, TypeOK, File, d
  <2> QED
    BY <1>0, <2>1, <2>2 DEF Stage, Stored, Matches, File, d
<1>10. CASE SealEnd(c)
  <2>1. /\ phase[c] = "sealing" /\ phase'[c] = "sealed"
        /\ UNCHANGED <<got, sha, size>>
    BY <1>10, <1>t DEF SealEnd, Goto, TypeOK
  <2>2. fd[c] = Manifest /\ file[d][Manifest] = Empty /\ Matches(c)
    BY <1>0, <2>1 DEF Stage, d
  <2>3. \A g \in File : file'[d][g] = IF g = Manifest THEN c ELSE file[d][g]
    BY <1>0, <1>t, <1>10, <2>2 DEF SealEnd, FillFile, TypeOK, File, d
  <2> QED
    BY <1>0, <2>1, <2>2, <2>3 DEF Stage, Matches, File, d
<1>12. CASE CloseFails(c)
  <2>1. /\ phase[c] = "sealing" /\ phase'[c] = "failing"
        /\ UNCHANGED <<got, sha, size>>
    BY <1>12, <1>t DEF CloseFails, Goto, TypeOK
  <2>2. fd[c] = Manifest /\ file[d][Manifest] = Empty /\ Matches(c)
    BY <1>0, <2>1 DEF Stage, d
  <2>3. \A g \in File : file'[d][g] = IF g = Manifest THEN c ELSE file[d][g]
    BY <1>0, <1>t, <1>12, <2>2 DEF CloseFails, FillFile, TypeOK, File, d
  <2> QED
    BY <1>0, <2>1, <2>2, <2>3 DEF Stage, Matches, File, d
<1>11. CASE PreserveFails(c)
  <2>1. phase'[c] = "failing"
    BY <1>11, <1>t DEF PreserveFails, Goto, TypeOK
  <2>2. file[d][Manifest] # c
    BY <1>0, <1>11 DEF PreserveFails, Stage, d
  <2>3. file'[d][Manifest] # c
    BY <1>0, <1>t, <1>11, <2>2 DEF PreserveFails, TypeOK, File, d
  <2> QED
    BY <1>0, <2>1, <2>3 DEF Stage, d
<1> QED
  BY <1>1, <1>2, <1>3, <1>4, <1>5, <1>6, <1>7, <1>8, <1>9, <1>10, <1>11, <1>12
     DEF CaptureStep, PreserveStep

\* A new package is empty when nobody else was given its directory.
LEMMA CreateStep ==
    ASSUME PackageInv, NEW c \in Capture, Create(c), Undisturbed(c)'
    PROVE  Stage(c)'
<1>1. /\ pkg[c] = NoDir /\ pkg'[c] = <<clock, ShortOf[c]>> /\ pkg'[c] \in Dir
      /\ phase'[c] = "created" /\ file' = file
  BY MappingAssumption DEF PackageInv, TypeOK, Local, Create, Goto, Dir
<1>2. \A b \in Capture : pkg[b] # pkg'[c]
  <2>1. \A b \in Capture \ {c} : pkg'[b] = pkg[b]
    BY DEF Create, PackageInv, TypeOK
  <2> QED
    BY <1>1, <2>1, SentinelAssumption DEF Undisturbed, Solo
<1>3. \A f \in File : file'[pkg'[c]][f] = Absent
  BY <1>1, <1>2 DEF PackageInv, Owned
<1> QED
  BY <1>1, <1>3 DEF Stage

\* A reset that touches the package is remembered in wiped.
LEMMA ResetKeeps ==
    ASSUME PackageInv, ResetStep, NEW c \in Capture, Undisturbed(c)', Undisturbed(c)
    PROVE  Stage(c)'
<1>1. Stage(c) /\ pkg[c] \in Dir
  BY DEF PackageInv, TypeOK, Undisturbed, Solo
<1>2. UNCHANGED <<phase, pkg, got, todo, sha, size>>
  BY DEF ResetStep, ResetList, ResetOpen, ResetUnlink, ResetRmdir, ResetFails,
     ResetTruncate, captureVars
<1>3. file'[pkg[c]] = file[pkg[c]] /\ fd'[c] = fd[c]
  <2>1. CASE ResetUnlink
    <3>1. target # pkg[c]
      BY <1>2, <2>1 DEF ResetUnlink, Undisturbed
    <3> QED
      BY <1>1, <2>1, <3>1 DEF ResetUnlink, PackageInv, TypeOK
  <2>2. CASE ~ ResetUnlink
    BY <2>2 DEF ResetStep, ResetList, ResetOpen, ResetRmdir, ResetFails, ResetTruncate,
       captureVars, diskVars
  <2> QED
    BY <2>1, <2>2
<1> QED
  BY <1>1, <1>2, <1>3, StageFrame

\* Death leaves a manifest behind only where Preserve had finished it.
LEMMA DieKeeps ==
    ASSUME PackageInv, Die, NEW c \in Capture, Undisturbed(c)
    PROVE  Stage(c)'
<1> DEFINE d == pkg[c]
<1>1. /\ Stage(c) /\ Local(c) /\ TypeOK /\ d \in Dir /\ pkg' = pkg
      /\ c # Absent /\ c # Empty /\ c # Garbage
      /\ Closed \notin File /\ Manifest \in File /\ Artifact \subseteq File
  BY SentinelAssumption DEF PackageInv, TypeOK, Undisturbed, Solo, Die, File
<1>2. PICK torn \in SUBSET {b \in Capture : fd[b] \in File} :
         file' = [e \in Dir |-> [f \in File |->
                    IF \E b \in torn : pkg[b] = e /\ fd[b] = f
                    THEN Garbage ELSE file[e][f]]]
  BY DEF Die
<1>3. \A f \in File : file'[d][f] = IF c \in torn /\ fd[c] = f THEN Garbage ELSE file[d][f]
  BY <1>1, <1>2 DEF Undisturbed, Solo
<1>4. phase'[c] = IF phase[c] \in Running THEN "lost" ELSE phase[c]
  BY DEF Die
<1>5. CASE phase[c] \in Unsealed
  <2>1. phase'[c] = "lost"
    BY <1>4, <1>5 DEF Running
  <2>2. file[d][Manifest] # c
    BY <1>1, <1>5 DEF Stage, Unsealed
  <2>3. file'[d][Manifest] # c
    BY <1>1, <1>3, <2>2
  <2> QED
    BY <1>1, <2>1, <2>3 DEF Stage
<1>6. CASE phase[c] \notin Unsealed
  <2>1. fd[c] = Closed
    BY <1>1, <1>6 DEF Local, Unsealed
  <2>2. \A f \in File : file'[d][f] = file[d][f]
    BY <1>1, <1>3, <2>1
  <2>3. got'[c] = got[c] /\ sha'[c] = sha[c] /\ size'[c] = size[c]
    BY <1>1, <1>6 DEF Die, Forget, TypeOK
  <2>4. Matches(c)' <=> Matches(c)
    BY <1>1, <2>2, <2>3 DEF Matches
  <2>5. \/ phase[c] = "new" /\ phase'[c] = "new"
        \/ phase[c] \in {"sealed", "succeeded"} /\ phase'[c] = "lost"
        \/ phase[c] \in {"failing", "lost"} /\ phase'[c] = "lost"
        \/ phase[c] = "failed" /\ phase'[c] = "failed"
        \/ phase[c] = "done" /\ phase'[c] = "done"
    BY <1>1, <1>4, <1>6 DEF TypeOK, Phase, Running, Unsealed, Over
  <2> QED
    BY <1>1, <2>2, <2>4, <2>5 DEF Stage
<1> QED
  BY <1>5, <1>6

LEMMA OwnedStep == PackageInv /\ [Next]_vars => Owned'
<1> SUFFICES ASSUME PackageInv, [Next]_vars, NEW d \in Dir,
                    \A c \in Capture : pkg'[c] # d, NEW f \in File
             PROVE  file'[d][f] = Absent
  BY DEF Owned
<1>1. /\ TypeOK /\ HasDir /\ \A c \in Capture : Local(c)
      /\ Closed \notin File /\ NoDir \notin Dir
  BY SentinelAssumption DEF PackageInv
<1>2. (\A c \in Capture : pkg[c] # d) => file[d][f] = Absent
  BY DEF PackageInv, Owned
<1>3. ASSUME NEW c \in Capture, CaptureStep(c) PROVE file'[d][f] = Absent
  <2>1. \A b \in Capture : pkg[b] # d
    BY <1>1, <1>3 DEF CaptureStep, Create, CreateFails, CollectDocker, CollectK8s,
       PreserveStep, LogStep, WriteBegin, WriteEnd, List, Hash, Stat, SealBegin, SealEnd, CloseFails,
       PreserveFails, LogAlert, LogStarted, LogSuccess, LogStored, LogFailure, Local, TypeOK
  <2>2. file'[d][f] = file[d][f]
    BY <1>1, <1>3, <2>1 DEF CaptureStep, Create, CreateFails, CollectDocker, CollectK8s,
       PreserveStep, LogStep, WriteBegin, WriteEnd, List, Hash, Stat, SealBegin, SealEnd, CloseFails,
       PreserveFails, OpenFile, FillFile,
       LogAlert, LogStarted, LogSuccess, LogStored, LogFailure, diskVars, TypeOK
  <2> QED
    BY <1>2, <2>1, <2>2
<1>4. CASE ResetStep
  <2>1. pkg' = pkg
    BY <1>4 DEF ResetStep, ResetList, ResetOpen, ResetUnlink, ResetRmdir, ResetFails,
       ResetTruncate, captureVars
  <2>2. file'[d][f] \in {file[d][f], Absent}
    BY <1>1, <1>4 DEF ResetStep, ResetList, ResetOpen, ResetUnlink, ResetRmdir, ResetFails,
       ResetTruncate, diskVars, TypeOK
  <2> QED
    BY <1>2, <2>1, <2>2
<1>5. CASE LogOther \/ Tick \/ UNCHANGED vars
  BY <1>2, <1>5 DEF LogOther, Tick, vars, diskVars, captureVars
<1>6. CASE Die
  BY <1>2, <1>6 DEF Die
<1> QED
  BY <1>3, <1>4, <1>5, <1>6 DEF Next

LEMMA LocalStep == PackageInv /\ [Next]_vars => \A c \in Capture : Local(c)'
<1> SUFFICES ASSUME PackageInv, [Next]_vars, NEW c \in Capture PROVE Local(c)'
  OBVIOUS
<1>1. TypeOK /\ Local(c)
  BY DEF PackageInv
<1>2. ASSUME NEW b \in Capture, b # c, CaptureStep(b) PROVE Local(c)'
  <2>1. /\ phase'[c] = phase[c] /\ fd'[c] = fd[c] /\ pkg'[c] = pkg[c]
    BY <1>1, <1>2 DEF CaptureStep, Create, CreateFails, CollectDocker, CollectK8s,
       PreserveStep, LogStep, WriteBegin, WriteEnd, List, Hash, Stat, SealBegin, SealEnd, CloseFails,
       PreserveFails, OpenFile, FillFile,
       LogAlert, LogStarted, LogSuccess, LogStored, LogFailure, Goto, TypeOK
  <2>2. sha'[c] = sha[c] /\ size'[c] = size[c]
    BY <1>1, <1>2 DEF CaptureStep, Create, CreateFails, CollectDocker, CollectK8s,
       PreserveStep, LogStep, WriteBegin, WriteEnd, List, Hash, Stat, SealBegin, SealEnd, CloseFails,
       PreserveFails, LogAlert, LogStarted, LogSuccess, LogStored, LogFailure, Forget, TypeOK
  <2> QED
    BY <1>1, <2>1, <2>2 DEF Local
<1>3. ASSUME CaptureStep(c) PROVE Local(c)'
  <2>1. CASE PreserveStep(c)
    BY <1>1, <2>1 DEF PreserveStep, WriteBegin, WriteEnd, List, Hash, Stat, SealBegin,
       SealEnd, CloseFails, PreserveFails, OpenFile, FillFile, Goto, TypeOK, Local
  <2>2. CASE ~ PreserveStep(c)
    BY <1>1, <1>3, <2>2 DEF CaptureStep, Create, CreateFails, CollectDocker, CollectK8s,
       LogStep, LogAlert, LogStarted, LogSuccess, LogStored, LogFailure, Goto, TypeOK, Local
  <2> QED
    BY <2>1, <2>2
<1>4. CASE ResetStep
  <2>1. UNCHANGED <<phase, pkg, sha, size>>
    BY <1>4 DEF ResetStep, ResetList, ResetOpen, ResetUnlink, ResetRmdir, ResetFails,
       ResetTruncate, captureVars
  <2>2. fd[c] = Closed => fd'[c] = Closed
    BY <1>1, <1>4, SentinelAssumption
       DEF ResetStep, ResetList, ResetOpen, ResetUnlink, ResetRmdir, ResetFails,
           ResetTruncate, captureVars, TypeOK
  <2> QED
    BY <1>1, <2>1, <2>2 DEF Local
<1>5. CASE LogOther \/ Tick \/ UNCHANGED vars
  BY <1>1, <1>5 DEF LogOther, Tick, vars, captureVars, Local
<1>6. CASE Die
  BY <1>1, <1>6 DEF Die, Forget, Local, Running, Unsealed
<1> QED
  BY <1>2, <1>3, <1>4, <1>5, <1>6 DEF Next

LEMMA PackageStep == PackageInv /\ [Next]_vars => PackageInv'
<1> SUFFICES ASSUME PackageInv, [Next]_vars PROVE PackageInv'
  OBVIOUS
<1>1. TypeOK' /\ HasDir' /\ Owned' /\ \A c \in Capture : Local(c)'
  BY TypeStep, HasDirStep, OwnedStep, LocalStep DEF PackageInv
<1>2. ASSUME NEW c \in Capture, Undisturbed(c)' PROVE Stage(c)'
  <2>1. CASE Create(c)
    BY <1>2, <2>1, CreateStep
  <2>2. CASE ~ Create(c)
    <3>1. pkg'[c] = pkg[c]
      BY <2>2 DEF PackageInv, TypeOK, Next, CaptureStep, Create, CreateFails, CollectDocker,
         CollectK8s, PreserveStep, LogStep, WriteBegin, WriteEnd, List, Hash, Stat,
         SealBegin, SealEnd, CloseFails, PreserveFails, LogAlert, LogStarted, LogSuccess, LogStored,
         LogFailure, ResetStep, ResetList, ResetOpen, ResetUnlink, ResetRmdir, ResetFails,
         ResetTruncate, LogOther, Tick, Die, captureVars, vars
    <3>2. Undisturbed(c)
      BY <1>2, <3>1, Undisturb DEF Undisturbed, Solo
    <3>3. Stage(c)
      BY <3>2 DEF PackageInv
    <3>4. CASE CaptureStep(c)
      BY <2>2, <3>1, <3>2, <3>4, OwnStep
    <3>5. ASSUME NEW b \in Capture, CaptureStep(b), b # c PROVE Stage(c)'
      BY <3>1, <3>2, <3>3, <3>5, OtherCapture, StageFrame
    <3>6. CASE ResetStep
      BY <1>2, <3>2, <3>6, ResetKeeps
    <3>7. CASE Die
      BY <3>2, <3>7, DieKeeps
    <3>8. CASE LogOther \/ Tick \/ UNCHANGED vars
      BY <3>1, <3>3, <3>8, StageFrame DEF LogOther, Tick, vars, captureVars, diskVars
    <3> QED
      BY <3>4, <3>5, <3>6, <3>7, <3>8 DEF Next
  <2> QED
    BY <2>1, <2>2
<1> QED
  BY <1>1, <1>2 DEF PackageInv

LEMMA PackageInit == Init => PackageInv
<1> SUFFICES ASSUME Init PROVE PackageInv
  OBVIOUS
<1>1. Owned /\ \A c \in Capture : Local(c) /\ ~ Undisturbed(c)
  BY DEF Init, Owned, Local, Undisturbed, Solo
<1> QED
  BY <1>1, TypeInit DEF PackageInv

\* A package with a complete manifest is complete (the commit record property),
\* in every state the agent and its crashes can reach.
THEOREM ManifestIsSound == Spec => []ManifestSound
<1>1. PackageInv => ManifestSound
  <2> SUFFICES ASSUME PackageInv, NEW c \in Capture, Undisturbed(c),
                      file[pkg[c]][Manifest] = c
               PROVE  Matches(c)
    BY DEF ManifestSound
  <2>1. Stage(c) /\ Local(c) /\ phase[c] \in Phase /\ pkg[c] # NoDir
    BY DEF PackageInv, TypeOK, Undisturbed, Solo
  <2>2. c # Absent /\ c # Empty
    BY SentinelAssumption
  <2> QED
    BY <2>1, <2>2, PhaseNames DEF Stage, Local, File
<1> QED
  BY <1>1, PackageInit, PackageStep, PTL DEF Spec

----------------------------------------------------------------------------
(* Sealed evidence.                                                        *)

\* No step but a reset's changes a package whose manifest is complete.
LEMMA SealedStep ==
    ASSUME PackageInv, [Next]_vars, NEW c \in Capture, pkg[c] # NoDir,
           file[pkg[c]][Manifest] = c, Undisturbed(c)'
    PROVE  file'[pkg[c]] = file[pkg[c]] /\ pkg'[c] = pkg[c] /\ Undisturbed(c)
<1>1. Undisturbed(c) /\ pkg'[c] = pkg[c]
  BY Undisturb
<1> SUFFICES file'[pkg[c]] = file[pkg[c]]
  BY <1>1
<1>2. /\ Stage(c) /\ Local(c) /\ TypeOK /\ pkg[c] \in Dir /\ phase[c] \in Phase
      /\ c # Absent /\ c # Empty
  BY <1>1, SentinelAssumption DEF PackageInv, TypeOK
<1>3. phase[c] \in {"sealed", "succeeded", "done", "failing", "failed", "lost"}
  BY <1>2, PhaseNames DEF Stage, Local, File
<1>4. CASE CaptureStep(c)
  BY <1>3, <1>4 DEF CaptureStep, Create, CreateFails, CollectDocker, CollectK8s,
     PreserveStep, LogStep, WriteBegin, WriteEnd, List, Hash, Stat, SealBegin, SealEnd, CloseFails,
     PreserveFails, LogAlert, LogStarted, LogSuccess, LogStored, LogFailure, diskVars
<1>5. ASSUME NEW b \in Capture, b # c, CaptureStep(b) PROVE file'[pkg[c]] = file[pkg[c]]
  BY <1>1, <1>5, OtherCapture
<1>6. CASE ResetStep
  <2>1. CASE ResetUnlink
    <3>1. target # pkg[c]
      BY <1>1, <2>1 DEF ResetUnlink, Undisturbed
    <3> QED
      BY <1>2, <2>1, <3>1 DEF ResetUnlink, TypeOK
  <2>2. CASE ~ ResetUnlink
    BY <1>6, <2>2 DEF ResetStep, ResetList, ResetOpen, ResetRmdir, ResetFails,
       ResetTruncate, diskVars
  <2> QED
    BY <2>1, <2>2
<1>7. CASE LogOther \/ Tick \/ UNCHANGED vars
  BY <1>7 DEF LogOther, Tick, vars, diskVars
<1>8. CASE Die
  <2>1. PICK torn \in SUBSET {b \in Capture : fd[b] \in File} :
           file' = [e \in Dir |-> [f \in File |->
                      IF \E b \in torn : pkg[b] = e /\ fd[b] = f
                      THEN Garbage ELSE file[e][f]]]
    BY <1>8 DEF Die
  <2>2. \A b \in torn : pkg[b] # pkg[c]
    BY <1>1, <1>2, <1>3, SentinelAssumption DEF Local, Undisturbed, Solo
  <2>3. file'[pkg[c]] = [f \in File |-> file[pkg[c]][f]]
    BY <1>2, <2>1, <2>2
  <2> QED
    BY <1>1, <1>2, <2>3 DEF TypeOK
<1> QED
  BY <1>1, <1>4, <1>5, <1>6, <1>7, <1>8 DEF Next

\* Sealed evidence never changes unless a reset deletes it.
THEOREM SealedStays == Spec => SealedForever
<1>1. PackageInv /\ [Next]_vars =>
        [\A c \in Capture :
            /\ pkg[c] # NoDir /\ file[pkg[c]][Manifest] = c
            /\ Undisturbed(c)'
            => file'[pkg[c]] = file[pkg[c]]]_vars
  BY SealedStep
<1> QED
  BY <1>1, PackageInit, PackageStep, PTL DEF Spec, SealedForever

----------------------------------------------------------------------------
(* The audit file.                                                         *)

Logged(a, c) == <<a, c>> \in audit

\* What the audit file says of c fits where c is.
Verdict(c) ==
    /\ Logged("CAPTURE_FAILURE", c) => phase[c] = "failed"
    /\ Logged("CAPTURE_SUCCESS", c) => phase[c] \in {"succeeded", "done", "lost"}
    /\ Logged("EVIDENCE_STORED", c) => phase[c] = "done"
    /\ Logged("CAPTURE_SUCCESS", c) /\ Undisturbed(c) => file[pkg[c]][Manifest] = c

\* The entries c has asked the logger for, of those it owes in the end.
Told(c) ==
    CASE phase[c] \in {"collecting", "writing", "hashing", "sealing", "sealed"} ->
             {"CAPTURE_STARTED"}
      [] phase[c] = "succeeded" -> {"CAPTURE_STARTED", "CAPTURE_SUCCESS"}
      [] phase[c] = "done" -> {"CAPTURE_STARTED", "CAPTURE_SUCCESS", "EVIDENCE_STORED"}
      [] phase[c] = "failed" -> {"CAPTURE_FAILURE"}
      [] OTHER -> {}

\* Those of them that are not on a line with a newline; and the account that is
\* kept of them: a line without its newline stands for the entry it will cost.
Wanted  == UNION {Told(c) \X {c} : c \in Capture}
Missing == Wanted \ (audit \ tail)
Balance ==
    /\ IsFiniteSet(Missing)
    /\ Cardinality(Missing) + (IF open THEN 1 ELSE 0) <= 2 * cut

AuditInv ==
    /\ PackageInv
    /\ resets = 0 => sweep = "idle"
    /\ ~ open => tail = {}
    /\ \A c \in Capture : Verdict(c)
    /\ resets = 0 => Balance

\* What a write adds to the file is the entry written.
LEMMA LogAdds ==
    ASSUME TypeOK, NEW E, Written(E) \/ CutShort(E)
    PROVE  /\ audit' \subseteq audit \union E
           /\ (~ open => tail = {}) => (~ open' => tail' = {})
<1>1. CASE Written(E)
  BY <1>1 DEF Written
<1>2. CASE CutShort(E)
  BY <1>2 DEF CutShort, TypeOK
<1> QED
  BY <1>1, <1>2

\* A write of entry e, in the file or not, keeps the account.
LEMMA LogBalances ==
    ASSUME TypeOK, ~ open => tail = {}, Balance, NEW e, NEW E \in SUBSET {e},
           Written(E) \/ CutShort(E), Wanted' \subseteq Wanted \union E
    PROVE  Balance'
<1> DEFINE n == Cardinality(Missing)
           m == Cardinality(Missing)'
<1>1. /\ IsFiniteSet(Missing \union {e}) /\ Cardinality(Missing \union {e}) \in {n, n + 1}
      /\ n \in Nat
  BY FS_AddElement, FS_CardinalityType DEF Balance
<1>2. ASSUME Missing' \subseteq Missing \union {e}
      PROVE  IsFiniteSet(Missing)' /\ m \in Nat /\ m <= n + 1
  <2>1. IsFiniteSet(Missing)' /\ m <= Cardinality(Missing \union {e})
    BY <1>1, <1>2, FS_Subset
  <2>2. m \in Nat
    BY <2>1, FS_CardinalityType
  <2> HIDE DEF n, m
  <2> QED
    BY <1>1, <2>1, <2>2
<1>3. ASSUME Missing' \subseteq Missing
      PROVE  IsFiniteSet(Missing)' /\ m \in Nat /\ m <= n
  <2>1. IsFiniteSet(Missing)' /\ m <= n
    BY <1>3, FS_Subset DEF Balance
  <2> QED
    BY <2>1, FS_CardinalityType
<1>4. n + (IF open THEN 1 ELSE 0) <= 2 * cut /\ cut \in Nat
  BY BoundAssumption DEF Balance, TypeOK
<1>5. SUFFICES IsFiniteSet(Missing)' /\ m + (IF open' THEN 1 ELSE 0) <= 2 * cut'
  BY DEF Balance
<1>6. CASE Written(E) /\ ~ open
  <2>1. /\ audit' = (audit \ tail) \union E /\ tail' = {} /\ open' = FALSE /\ cut' = cut
    BY <1>6 DEF Written
  <2>2. Missing' \subseteq Missing
    BY <2>1 DEF Missing
  <2>3. IsFiniteSet(Missing)' /\ m \in Nat /\ m <= n
    BY <1>3, <2>2
  <2> HIDE DEF n, m
  <2> QED
    BY <1>1, <1>4, <1>6, <2>1, <2>3
<1>7. CASE Written(E) /\ open
  <2>1. /\ audit' = audit \ tail /\ tail' = {} /\ open' = FALSE /\ cut' = cut
    BY <1>7 DEF Written
  <2>2. Missing' \subseteq Missing \union {e}
    BY <2>1 DEF Missing
  <2>3. IsFiniteSet(Missing)' /\ m \in Nat /\ m <= n + 1
    BY <1>2, <2>2
  <2> HIDE DEF n, m
  <2> QED
    BY <1>1, <1>4, <1>7, <2>1, <2>3
<1>8. CASE CutShort(E)
  <2>1. cut' = cut + 1
    BY <1>8 DEF CutShort
  <2>2. Missing' \subseteq Missing \union {e} /\ (open' => open' = TRUE)
    <3>1. \/ UNCHANGED <<audit, open, tail>>
          \/ audit' = audit \ tail /\ open' = TRUE /\ tail' = {}
          \/ ~ open /\ audit' = audit \union E /\ open' = TRUE /\ tail' = E
      BY <1>8 DEF CutShort
    <3>2. audit \ tail \subseteq (audit' \ tail') \union {e}
      BY <3>1
    <3> QED
      BY <3>2 DEF Missing
  <2>3. IsFiniteSet(Missing)' /\ m \in Nat /\ m <= n + 1
    BY <1>2, <2>2
  <2>4. \/ open' = open
        \/ open' = TRUE
    BY <1>8 DEF CutShort
  <2> HIDE DEF n, m
  <2> QED
    BY <1>1, <1>4, <2>1, <2>3, <2>4
<1> QED
  BY <1>6, <1>7, <1>8

\* So does a step that writes nothing and leaves no more to be asked for.
LEMMA QuietBalances ==
    ASSUME TypeOK, Balance, UNCHANGED auditVars, \A c \in Capture : Told(c)' \subseteq Told(c)
    PROVE  Balance'
<1>1. Missing' \subseteq Missing
  BY DEF Missing, Wanted, auditVars
<1>2. /\ IsFiniteSet(Missing)' /\ Cardinality(Missing)' <= Cardinality(Missing)
      /\ Cardinality(Missing)' \in Nat /\ Cardinality(Missing) \in Nat
  BY <1>1, FS_Subset, FS_CardinalityType DEF Balance
<1>3. open' = open /\ cut' = cut /\ cut \in Nat
  BY BoundAssumption DEF auditVars, TypeOK
<1>4. Cardinality(Missing) + (IF open THEN 1 ELSE 0) <= 2 * cut
  BY DEF Balance
<1> DEFINE n == Cardinality(Missing)
           m == Cardinality(Missing)'
<1>5. m + (IF open' THEN 1 ELSE 0) <= 2 * cut'
  <2> HIDE DEF n, m
  <2> QED
    BY <1>2, <1>3, <1>4 DEF n, m
<1> QED
  BY <1>2, <1>5 DEF Balance

\* The other steps leave the audit file alone.
LEMMA QuietLog ==
    ASSUME [Next]_vars, ~ LogOther, ~ ResetTruncate, \A c \in Capture : ~ LogStep(c)
    PROVE  UNCHANGED auditVars
<1>1. ASSUME NEW c \in Capture, CaptureStep(c) PROVE UNCHANGED auditVars
  BY <1>1 DEF CaptureStep, Create, CreateFails, CollectDocker, CollectK8s, PreserveStep,
     WriteBegin, WriteEnd, List, Hash, Stat, SealBegin, SealEnd, CloseFails, PreserveFails
<1>2. CASE ResetStep
  BY <1>2 DEF ResetStep, ResetList, ResetOpen, ResetUnlink, ResetRmdir, ResetFails
<1>3. CASE Tick \/ Die \/ UNCHANGED vars
  BY <1>3 DEF Tick, Die, vars
<1> QED
  BY <1>1, <1>2, <1>3 DEF Next

\* A step that logs asks for one entry.
LEMMA LogTells ==
    ASSUME TypeOK, NEW c \in Capture, LogStep(c)
    PROVE  \E a \in AuditAction : Log(a, c) /\ Told(c)' \subseteq Told(c) \union {a}
<1>1. CASE LogAlert(c)
  <2>1. Log("ALERT_RECEIVED", c) /\ phase'[c] = "alerted"
    BY <1>1 DEF LogAlert, Goto, TypeOK
  <2> QED
    BY <2>1 DEF Told, AuditAction
<1>2. CASE LogStarted(c)
  <2>1. Log("CAPTURE_STARTED", c) /\ phase'[c] = "collecting"
    BY <1>2 DEF LogStarted, Goto, TypeOK
  <2> QED
    BY <2>1 DEF Told, AuditAction
<1>3. CASE LogSuccess(c)
  <2>1. Log("CAPTURE_SUCCESS", c) /\ phase[c] = "sealed" /\ phase'[c] = "succeeded"
    BY <1>3 DEF LogSuccess, Goto, TypeOK
  <2> QED
    BY <2>1 DEF Told, AuditAction
<1>4. CASE LogStored(c)
  <2>1. Log("EVIDENCE_STORED", c) /\ phase[c] = "succeeded" /\ phase'[c] = "done"
    BY <1>4 DEF LogStored, Goto, TypeOK
  <2> QED
    BY <2>1 DEF Told, AuditAction
<1>5. CASE LogFailure(c)
  <2>1. Log("CAPTURE_FAILURE", c) /\ phase'[c] = "failed"
    BY <1>5 DEF LogFailure, Goto, TypeOK
  <2> QED
    BY <2>1 DEF Told, AuditAction
<1> QED
  BY <1>1, <1>2, <1>3, <1>4, <1>5 DEF LogStep

\* The other steps ask for none.
LEMMA QuietTold ==
    ASSUME TypeOK, [Next]_vars, ~ LogOther, \A c \in Capture : ~ LogStep(c),
           NEW c \in Capture
    PROVE  Told(c)' \subseteq Told(c)
<1>1. ASSUME NEW b \in Capture, CaptureStep(b)
      PROVE  \/ phase'[c] = phase[c]
             \/ phase'[c] \in {"created", "failing"}
             \/ /\ phase[c] \in {"collecting", "writing", "hashing", "sealing"}
                /\ phase'[c] \in {"writing", "hashing", "sealing", "sealed"}
  BY <1>1 DEF CaptureStep, Create, CreateFails, CollectDocker, CollectK8s, PreserveStep,
     WriteBegin, WriteEnd, List, Hash, Stat, SealBegin, SealEnd, CloseFails, PreserveFails,
     Goto, TypeOK
<1>2. CASE ResetStep \/ Tick \/ UNCHANGED vars
  <2>1. phase' = phase
    BY <1>2 DEF ResetStep, ResetList, ResetOpen, ResetUnlink, ResetRmdir, ResetFails,
       ResetTruncate, Tick, captureVars, vars
  <2> QED
    BY <2>1 DEF Told
<1>3. CASE Die
  <2>1. phase'[c] = phase[c] \/ phase'[c] = "lost"
    BY <1>3 DEF Die
  <2> QED
    BY <2>1 DEF Told
<1>4. ASSUME NEW b \in Capture, CaptureStep(b) PROVE Told(c)' \subseteq Told(c)
  BY <1>1, <1>4 DEF Told
<1> QED
  BY <1>2, <1>3, <1>4 DEF Next

LEMMA AuditStep == AuditInv /\ [Next]_vars => AuditInv'
<1> SUFFICES ASSUME AuditInv, [Next]_vars PROVE AuditInv'
  OBVIOUS
<1>1. PackageInv /\ PackageInv' /\ TypeOK /\ TypeOK'
  BY PackageStep DEF AuditInv, PackageInv
<1>2. (resets = 0 => sweep = "idle")' /\ (resets' = 0 => resets = 0)
  <2>1. resets = 0 => sweep = "idle"
    BY DEF AuditInv
  <2>2. resets \in Nat
    BY <1>1, BoundAssumption DEF TypeOK
  <2>3. \/ sweep' = sweep /\ resets' = resets
        \/ resets' = resets + 1
        \/ sweep = "sweeping" /\ resets' = resets
   BY DEF Next, CaptureStep, Create, CreateFails, CollectDocker, CollectK8s,
     PreserveStep, LogStep, WriteBegin, WriteEnd, List, Hash, Stat, SealBegin, SealEnd, CloseFails,
     PreserveFails, LogAlert, LogStarted, LogSuccess, LogStored, LogFailure, ResetStep,
     ResetList, ResetOpen, ResetUnlink, ResetRmdir, ResetFails, ResetTruncate, LogOther, Tick, Die,
     resetVars, vars
  <2> QED
    BY <2>1, <2>2, <2>3
<1>4. ~ open => tail = {}
  BY DEF AuditInv
<1>5. (~ open => tail = {})'
  <2>1. CASE LogOther
    BY <1>1, <1>4, <2>1, LogAdds DEF LogOther
  <2>2. ASSUME NEW c \in Capture, LogStep(c) PROVE (~ open => tail = {})'
    <3>1. PICK a : Log(a, c)
      BY <2>2 DEF LogStep, LogAlert, LogStarted, LogSuccess, LogStored, LogFailure
    <3> QED
      BY <1>1, <1>4, <3>1, LogAdds DEF Log
  <2>3. CASE ResetTruncate
    BY <1>4, <2>3 DEF ResetTruncate
  <2>4. CASE ~ LogOther /\ ~ ResetTruncate /\ \A c \in Capture : ~ LogStep(c)
    <3>1. UNCHANGED <<open, tail>>
      BY <2>4, QuietLog DEF auditVars
    <3> QED
      BY <1>4, <3>1
  <2> QED
    BY <2>1, <2>2, <2>3, <2>4
<1>6. ASSUME resets' = 0 PROVE Balance'
  <2>1. resets = 0 /\ Balance /\ sweep = "idle"
    BY <1>2, <1>6 DEF AuditInv
  <2>2. ~ ResetTruncate /\ ~ ResetList
    BY <1>1, <1>6, <2>1 DEF ResetTruncate, ResetList
  <2>3. CASE LogOther
    <3>1. Wanted' \subseteq Wanted \union {}
      BY <2>3 DEF LogOther, captureVars, Wanted, Told
    <3> QED
      BY <1>1, <1>4, <2>1, <2>3, <3>1, LogBalances DEF LogOther
  <2>4. ASSUME NEW c \in Capture, LogStep(c) PROVE Balance'
    <3>1. PICK a \in AuditAction : Log(a, c) /\ Told(c)' \subseteq Told(c) \union {a}
      BY <1>1, <2>4, LogTells
    <3>2. \A b \in Capture \ {c} : Told(b)' = Told(b)
      <4>1. \A b \in Capture \ {c} : phase'[b] = phase[b]
        BY <1>1, <2>4 DEF LogStep, LogAlert, LogStarted, LogSuccess, LogStored, LogFailure,
           Goto, TypeOK
      <4> QED
        BY <4>1 DEF Told
    <3>3. Wanted' \subseteq Wanted \union {<<a, c>>}
      BY <3>1, <3>2 DEF Wanted
    <3> QED
      BY <1>1, <1>4, <2>1, <3>1, <3>3, LogBalances DEF Log
  <2>5. CASE ~ LogOther /\ \A c \in Capture : ~ LogStep(c)
    <3>1. UNCHANGED auditVars
      BY <2>2, <2>5, QuietLog
    <3>2. ASSUME NEW c \in Capture PROVE Told(c)' \subseteq Told(c)
      BY <1>1, <2>5, QuietTold
    <3> QED
      BY <1>1, <2>1, <3>1, <3>2, QuietBalances
  <2> QED
    BY <2>3, <2>4, <2>5
<1>3. ASSUME NEW c \in Capture PROVE Verdict(c)'
  <2>1. Verdict(c)
    BY DEF AuditInv
  <2>2. ASSUME Logged("CAPTURE_SUCCESS", c), Undisturbed(c)', pkg'[c] # NoDir
        PROVE  file'[pkg'[c]][Manifest] = c
    <3>1. pkg[c] # NoDir
      BY <1>1, <2>1, <2>2, SentinelAssumption DEF Verdict, PackageInv, Next, CaptureStep,
         Create, CreateFails, CollectDocker, CollectK8s, PreserveStep, LogStep, WriteBegin,
         WriteEnd, List, Hash, Stat, SealBegin, SealEnd, CloseFails, PreserveFails, LogAlert, LogStarted,
         LogSuccess, LogStored, LogFailure, ResetStep, ResetList, ResetOpen, ResetUnlink,
         ResetRmdir, ResetFails, ResetTruncate, LogOther, Tick, Die, captureVars, vars, TypeOK
    <3>2. file[pkg[c]][Manifest] = c
      BY <1>1, <2>1, <2>2, <3>1, Undisturb DEF Verdict
    <3> QED
      BY <1>1, <2>2, <3>1, <3>2, SealedStep
  <2>3. ASSUME NEW b \in Capture, CaptureStep(b), ~ LogStep(b) PROVE Verdict(c)'
    <3>1. audit' = audit
      BY <2>3 DEF auditVars, CaptureStep, Create, CreateFails, CollectDocker, CollectK8s, PreserveStep,
         WriteBegin, WriteEnd, List, Hash, Stat, SealBegin, SealEnd, CloseFails, PreserveFails
    <3>2. \/ phase'[c] = phase[c]
          \/ /\ phase[c] \in {"new", "collecting", "writing", "hashing", "sealing"}
             /\ phase'[c] \in {"created", "failing", "writing", "hashing", "sealing", "sealed"}
             /\ phase'[c] \in {"created", "failing"} \/ phase[c] # "new"
      BY <1>1, <2>3 DEF CaptureStep, Create, CreateFails, CollectDocker, CollectK8s,
         PreserveStep, WriteBegin, WriteEnd, List, Hash, Stat, SealBegin, SealEnd, CloseFails,
         PreserveFails, Goto, TypeOK
    <3> QED
      BY <2>1, <2>2, <3>1, <3>2 DEF Verdict, Logged, Undisturbed, Solo
  <2>4. ASSUME NEW b \in Capture, LogStep(b) PROVE Verdict(c)'
    <3>0. PICK a \in AuditAction :
             /\ audit' \subseteq audit \union {<<a, b>>}
             /\ \/ LogAlert(b) /\ a = "ALERT_RECEIVED"
                \/ LogStarted(b) /\ a = "CAPTURE_STARTED"
                \/ LogSuccess(b) /\ a = "CAPTURE_SUCCESS"
                \/ LogStored(b) /\ a = "EVIDENCE_STORED"
                \/ LogFailure(b) /\ a = "CAPTURE_FAILURE"
      <4>1. PICK x \in AuditAction :
               /\ Log(x, b)
               /\ \/ LogAlert(b) /\ x = "ALERT_RECEIVED"
                  \/ LogStarted(b) /\ x = "CAPTURE_STARTED"
                  \/ LogSuccess(b) /\ x = "CAPTURE_SUCCESS"
                  \/ LogStored(b) /\ x = "EVIDENCE_STORED"
                  \/ LogFailure(b) /\ x = "CAPTURE_FAILURE"
        BY <2>4 DEF LogStep, LogAlert, LogStarted, LogSuccess, LogStored, LogFailure,
           AuditAction
      <4> QED
        BY <1>1, <1>4, <4>1, LogAdds DEF Log
    <3>1. UNCHANGED <<pkg, file, resets>> /\ (Undisturbed(c)' <=> Undisturbed(c))
      BY <2>4 DEF LogStep, LogAlert, LogStarted, LogSuccess, LogStored, LogFailure,
         diskVars, resetVars, Undisturbed, Solo
    <3>2. CASE b # c
      <4>1. phase'[c] = phase[c]
        BY <1>1, <2>4, <3>2 DEF LogStep, LogAlert, LogStarted, LogSuccess, LogStored,
           LogFailure, Goto, TypeOK
      <4>2. \A x \in AuditAction : Logged(x, c)' => Logged(x, c)
        BY <3>0, <3>2 DEF Logged
      <4> QED
        BY <2>1, <3>1, <4>1, <4>2 DEF Verdict, AuditAction
    <3>3. CASE b = c
      <4>1. phase[c] = "sealed" /\ Undisturbed(c) => file[pkg[c]][Manifest] = c
        BY <1>1 DEF PackageInv, Stage
      <4>6. \A x \in AuditAction : Logged(x, c)' => Logged(x, c) \/ x = a
        BY <3>0, <3>3 DEF Logged
      <4>7. /\ Logged("CAPTURE_FAILURE", c)' => Logged("CAPTURE_FAILURE", c) \/ LogFailure(c)
            /\ Logged("CAPTURE_SUCCESS", c)' => Logged("CAPTURE_SUCCESS", c) \/ LogSuccess(c)
            /\ Logged("EVIDENCE_STORED", c)' => Logged("EVIDENCE_STORED", c) \/ LogStored(c)
        BY <3>0, <3>3, <4>6 DEF AuditAction
      <4>8. /\ LogAlert(c) => phase[c] = "created" /\ phase'[c] = "alerted"
            /\ LogStarted(c) => phase[c] \in {"created", "alerted"} /\ phase'[c] = "collecting"
            /\ LogSuccess(c) => phase[c] = "sealed" /\ phase'[c] = "succeeded"
            /\ LogStored(c) => phase[c] = "succeeded" /\ phase'[c] = "done"
            /\ LogFailure(c) => phase[c] = "failing" /\ phase'[c] = "failed"
        BY <1>1 DEF LogAlert, LogStarted, LogSuccess, LogStored, LogFailure, Goto, TypeOK
      <4>2. CASE LogAlert(c) \/ LogStarted(c)
        BY <2>1, <3>1, <4>2, <4>7, <4>8 DEF Verdict
      <4>3. CASE LogSuccess(c)
        BY <2>1, <3>1, <4>1, <4>3, <4>7, <4>8 DEF Verdict
      <4>4. CASE LogStored(c)
        BY <2>1, <3>1, <4>4, <4>7, <4>8 DEF Verdict
      <4>5. CASE LogFailure(c)
        BY <2>1, <3>1, <4>5, <4>7, <4>8 DEF Verdict
      <4> QED
        BY <2>4, <3>3, <4>2, <4>3, <4>4, <4>5 DEF LogStep
    <3> QED
      BY <3>2, <3>3
  <2>5. CASE ResetStep
    <3>1. phase' = phase /\ audit' \subseteq audit
      BY <1>1, <2>5 DEF auditVars, ResetStep, ResetList, ResetOpen, ResetUnlink, ResetRmdir,
         ResetFails, ResetTruncate, captureVars, TypeOK
    <3> QED
      BY <1>2, <2>1, <2>2, <3>1 DEF Verdict, Logged, Undisturbed, Solo
  <2>6. CASE Die
    <3>1. audit' = audit
          /\ phase'[c] = IF phase[c] \in Running THEN "lost" ELSE phase[c]
      BY <2>6 DEF Die, auditVars
    <3> QED
      BY <2>1, <2>2, <3>1 DEF Verdict, Logged, Undisturbed, Solo, Running, Unsealed
  <2>7. CASE Tick \/ UNCHANGED vars
    BY <2>1, <2>7 DEF Tick, vars, auditVars, captureVars, diskVars, resetVars, Verdict,
       Logged, Undisturbed, Solo
  <2>8. CASE LogOther
    <3>1. audit' \subseteq audit
      BY <1>1, <1>4, <2>8, LogAdds DEF LogOther
    <3> QED
      BY <2>1, <2>8, <3>1 DEF LogOther, captureVars, diskVars, resetVars, Verdict, Logged,
         Undisturbed, Solo
  <2> QED
    BY <2>3, <2>4, <2>5, <2>6, <2>7, <2>8 DEF Next
<1> QED
  BY <1>1, <1>2, <1>3, <1>5, <1>6 DEF AuditInv

LEMMA AuditInit == Init => AuditInv
<1> SUFFICES ASSUME Init PROVE AuditInv
  OBVIOUS
<1>1. Missing = {}
  BY DEF Init, Missing, Wanted, Told
<1>2. Balance
  BY <1>1, FS_EmptySet DEF Init, Balance
<1> QED
  BY <1>2, PackageInit DEF Init, AuditInv, Verdict, Logged

\* The audit file never claims evidence that is not on disk with a complete and
\* matching manifest.
THEOREM AuditIsTruthful == Spec => []AuditTruthful
<1>1. AuditInv => AuditTruthful
  <2> SUFFICES ASSUME AuditInv, NEW c \in Capture, Undisturbed(c),
                      {<<"CAPTURE_SUCCESS", c>>, <<"EVIDENCE_STORED", c>>} \intersect audit # {}
               PROVE  file[pkg[c]][Manifest] = c /\ Matches(c)
    BY DEF AuditTruthful
  <2>1. Verdict(c) /\ Stage(c)
    BY DEF AuditInv, PackageInv
  <2>2. Logged("CAPTURE_SUCCESS", c) \/ Logged("EVIDENCE_STORED", c)
    BY DEF Logged
  <2> QED
    BY <2>1, <2>2 DEF Verdict, Stage
<1> QED
  BY <1>1, AuditInit, AuditStep, PTL DEF Spec

\* No capture ever has two verdicts in the audit file; and as long as no reset
\* came, at most two entries that returned captures owe are missing there for
\* each write of the logger that failed or fell short, whoever wrote.
THEOREM VerdictIsUnique == Spec => []OneVerdict
<1>1. AuditInv => OneVerdict
  <2> SUFFICES ASSUME AuditInv PROVE OneVerdict
    OBVIOUS
  <2>1. \A c \in Capture :
           ~ ({<<"CAPTURE_FAILURE", c>>, <<"CAPTURE_SUCCESS", c>>} \subseteq audit)
    BY DEF AuditInv, Verdict, Logged
  <2>2. ASSUME resets = 0 PROVE Cardinality(Due \ audit) <= 2 * cut
    <3>1. Balance /\ cut \in Nat
      BY <2>2, BoundAssumption DEF AuditInv, PackageInv, TypeOK
    <3>2. Due \ audit \subseteq Missing
      <4>1. Due \subseteq Wanted
        BY DEF Due, Owed, Wanted, Told
      <4> QED
        BY <4>1 DEF Missing
    <3>3. /\ Cardinality(Due \ audit) <= Cardinality(Missing)
          /\ Cardinality(Due \ audit) \in Nat /\ Cardinality(Missing) \in Nat
      BY <3>1, <3>2, FS_Subset, FS_CardinalityType DEF Balance
    <3>4. Cardinality(Missing) <= 2 * cut
      BY <3>1, <3>3 DEF Balance
    <3> QED
      BY <3>1, <3>3, <3>4
  <2> QED
    BY <2>1, <2>2 DEF OneVerdict
<1> QED
  BY <1>1, AuditInit, AuditStep, PTL DEF Spec

----------------------------------------------------------------------------
(* The reset.                                                              *)

\* While no warning was logged, a package of a capture that was over when the
\* reset listed is gone, or still on the list of the reset.
SweepInv ==
    /\ PackageInv
    /\ stale \subseteq {c \in Capture : phase[c] \in Over}
    /\ sweep # "sweeping" => doomed = {} /\ target = NoDir
    /\ sweep # "idle" /\ ~ warned =>
          \A c \in stale : Solo(c) /\ pkg[c] \in exists => pkg[c] \in doomed \union {target}
    /\ sweep = "finished" /\ ~ warned =>
          \A c \in stale, a \in AuditAction : <<a, c>> \notin audit

LEMMA SweepStep == SweepInv /\ [Next]_vars => SweepInv'
<1> SUFFICES ASSUME SweepInv, [Next]_vars PROVE SweepInv'
  OBVIOUS
<1>1. PackageInv' /\ TypeOK /\ PackageInv
  BY PackageStep DEF SweepInv, PackageInv
<1>2. ASSUME NEW b \in Capture, CaptureStep(b) PROVE SweepInv'
  <2>1. UNCHANGED resetVars
    BY <1>2 DEF CaptureStep, Create, CreateFails, CollectDocker, CollectK8s, PreserveStep,
       LogStep, WriteBegin, WriteEnd, List, Hash, Stat, SealBegin, SealEnd, CloseFails, PreserveFails,
       LogAlert, LogStarted, LogSuccess, LogStored, LogFailure
  <2>2. phase[b] \notin Over /\ \A c \in Capture \ {b} : phase'[c] = phase[c]
    BY <1>1, <1>2 DEF CaptureStep, Create, CreateFails, CollectDocker, CollectK8s,
       PreserveStep, LogStep, WriteBegin, WriteEnd, List, Hash, Stat, SealBegin, SealEnd, CloseFails,
       PreserveFails, LogAlert, LogStarted, LogSuccess, LogStored, LogFailure, Goto,
       TypeOK, Over
  <2>3. \A c \in Capture \ {b} : pkg'[c] = pkg[c] /\ (Solo(c)' => Solo(c))
    <3>1. \/ pkg' = pkg
          \/ pkg[b] = NoDir /\ pkg' = [pkg EXCEPT ![b] = <<clock, ShortOf[b]>>]
      BY <1>1, <1>2 DEF CaptureStep, Create, CreateFails, CollectDocker, CollectK8s,
         PreserveStep, LogStep, WriteBegin, WriteEnd, List, Hash, Stat, SealBegin, SealEnd, CloseFails,
         PreserveFails, LogAlert, LogStarted, LogSuccess, LogStored, LogFailure,
         PackageInv, Local
    <3> QED
      BY <1>1, <3>1 DEF Solo, TypeOK
  <2>4. \A c \in Capture \ {b} : Solo(c)' /\ pkg[c] \in exists' => pkg[c] \in exists
    <3>1. exists' = exists \/ exists' = exists \union {pkg'[b]}
      BY <1>1, <1>2 DEF CaptureStep, Create, CreateFails, CollectDocker, CollectK8s,
         PreserveStep, LogStep, WriteBegin, WriteEnd, List, Hash, Stat, SealBegin, SealEnd, CloseFails,
         PreserveFails, LogAlert, LogStarted, LogSuccess, LogStored, LogFailure,
         diskVars, TypeOK
    <3> QED
      BY <2>3, <3>1 DEF Solo
  <2>5. \A c \in Capture \ {b}, a \in AuditAction : <<a, c>> \in audit' => <<a, c>> \in audit
    <3>1. CASE LogStep(b)
      <4>1. PICK a : Log(a, b)
        BY <3>1 DEF LogStep, LogAlert, LogStarted, LogSuccess, LogStored, LogFailure
      <4>2. audit' \subseteq audit \union {<<a, b>>}
        BY <1>1, <4>1, LogAdds DEF Log
      <4> QED
        BY <4>2
    <3>2. CASE ~ LogStep(b)
      BY <1>2, <3>2 DEF CaptureStep, Create, CreateFails, CollectDocker, CollectK8s,
         PreserveStep, WriteBegin, WriteEnd, List, Hash, Stat, SealBegin, SealEnd,
         CloseFails, PreserveFails, auditVars
    <3> QED
      BY <3>1, <3>2
  <2>6. b \notin stale
    BY <2>2 DEF SweepInv
  <2> QED
    BY <1>1, <2>1, <2>2, <2>3, <2>4, <2>5, <2>6 DEF SweepInv, resetVars
<1>3. CASE ResetList
  BY <1>1, <1>3 DEF ResetList, SweepInv, Solo, auditVars, captureVars, diskVars
<1>4. CASE ResetOpen
  BY <1>1, <1>4 DEF ResetOpen, SweepInv, Solo, auditVars, captureVars, diskVars
<1>5. CASE ResetUnlink
  BY <1>1, <1>5 DEF ResetUnlink, SweepInv, Solo, auditVars
<1>6. CASE ResetRmdir
  BY <1>1, <1>6 DEF ResetRmdir, SweepInv, Solo, auditVars, captureVars
<1>7. CASE ResetFails
  BY <1>1, <1>7 DEF ResetFails, SweepInv, Solo, auditVars, captureVars, diskVars
<1>8. CASE ResetTruncate
  BY <1>1, <1>8 DEF ResetTruncate, SweepInv, Solo, auditVars, captureVars, diskVars
<1>9. CASE Tick \/ UNCHANGED vars
  BY <1>1, <1>9 DEF Tick, SweepInv, Solo, vars, auditVars, captureVars, diskVars, resetVars
<1>11. CASE LogOther
  <2>1. audit' \subseteq audit
    BY <1>1, <1>11, LogAdds DEF LogOther
  <2> QED
    BY <1>1, <1>11, <2>1 DEF LogOther, SweepInv, Solo, captureVars, diskVars, resetVars
<1>10. CASE Die
  <2>1. \A c \in Capture : phase[c] \in Over => phase'[c] \in Over
    BY <1>10 DEF Die, Over
  <2> QED
    BY <1>1, <1>10, <2>1 DEF Die, SweepInv, Solo, auditVars
<1> QED
  BY <1>2, <1>3, <1>4, <1>5, <1>6, <1>7, <1>8, <1>9, <1>10, <1>11 DEF Next, ResetStep

\* A reset that finished without a warning has removed what was over before it.
THEOREM ResetIsComplete == Spec => []ResetSweeps
<1>1. Init => SweepInv
  BY PackageInit DEF Init, SweepInv
<1>2. SweepInv => ResetSweeps
  <2> SUFFICES ASSUME SweepInv, sweep = "finished", ~ warned, NEW c \in stale
               PROVE  /\ Solo(c) => pkg[c] \notin exists
                      /\ \A a \in AuditAction : <<a, c>> \notin audit
    BY DEF ResetSweeps
  <2>1. Solo(c) => pkg[c] # NoDir
    BY DEF Solo
  <2> QED
    BY <2>1 DEF SweepInv
<1> QED
  BY <1>1, <1>2, SweepStep, PTL DEF Spec

----------------------------------------------------------------------------
(* CapturePipeline implements EvidenceStore.                               *)

\* Directories come from captures and go with a reset only: one that exists, or
\* was wiped, was given to a capture, and one that was given exists or was wiped.
Given == {pkg[c] : c \in Capture}

PlaceInv ==
    /\ (exists \union wiped \union doomed \union {target}) \ {NoDir} \subseteq Given
    /\ (Given \ {NoDir}) \subseteq (exists \union wiped)

RefinementInv == AuditInv /\ SweepInv /\ PlaceInv

\* Only Create gives out directories; a capture keeps the one it has.
LEMMA GivenStep ==
    ASSUME PackageInv, [Next]_vars
    PROVE  \/ pkg' = pkg
           \/ \E c \in Capture : Create(c) /\ pkg[c] = NoDir
BY DEF PackageInv, Local, Next, CaptureStep, CreateFails, Create,
   CollectDocker, CollectK8s, PreserveStep, LogStep, WriteBegin, WriteEnd, List, Hash,
   Stat, SealBegin, SealEnd, CloseFails, PreserveFails, LogAlert, LogStarted, LogSuccess, LogStored,
   LogFailure, ResetStep, ResetList, ResetOpen, ResetUnlink, ResetRmdir, ResetFails,
   ResetTruncate, LogOther, Tick, Die, captureVars, vars

LEMMA PlaceStep == SweepInv /\ PlaceInv /\ [Next]_vars => PlaceInv'
<1> SUFFICES ASSUME SweepInv, PlaceInv, [Next]_vars PROVE PlaceInv'
  OBVIOUS
<1>1. PackageInv /\ TypeOK
  BY DEF SweepInv, PackageInv
<1>2. ASSUME NEW c \in Capture, Create(c) PROVE PlaceInv'
  <2>1. /\ pkg[c] = NoDir /\ pkg'[c] = <<clock, ShortOf[c]>> /\ pkg'[c] # NoDir
        /\ \A b \in Capture \ {c} : pkg'[b] = pkg[b]
        /\ exists' = exists \union {pkg'[c]}
        /\ UNCHANGED <<wiped, doomed, target>>
    <3>1. pkg[c] = NoDir
      BY <1>1, <1>2 DEF Create, PackageInv, Local
    <3>2. <<clock, ShortOf[c]>> \in Dir
      BY <1>1, MappingAssumption DEF TypeOK, Dir
    <3>3. <<clock, ShortOf[c]>> # NoDir
      BY <3>2, SentinelAssumption
    <3> QED
      BY <1>1, <1>2, <3>1, <3>3 DEF Create, TypeOK, resetVars
  <2>2. Given' \ {NoDir} = (Given \ {NoDir}) \union {pkg'[c]}
    BY <2>1 DEF Given
  <2>3. NoDir \notin exists /\ NoDir \notin wiped
    BY <1>1, SentinelAssumption DEF TypeOK
  <2> QED
    BY <2>1, <2>2, <2>3 DEF PlaceInv
<1>3. CASE \A c \in Capture : ~ Create(c)
  <2>1. Given' = Given
    BY <1>1, <1>3, GivenStep DEF Given
  <2>2. CASE ResetStep
    BY <2>1, <2>2 DEF PlaceInv, ResetStep, ResetList, ResetOpen, ResetUnlink, ResetRmdir,
       ResetFails, ResetTruncate, diskVars, captureVars
  <2>3. CASE Die
    BY <2>1, <2>3 DEF PlaceInv, Die
  <2>4. CASE ~ ResetStep /\ ~ Die
    <3>1. UNCHANGED <<exists, wiped, doomed, target>>
      BY <1>3, <2>4 DEF Next, CaptureStep, CreateFails, CollectDocker, CollectK8s,
         PreserveStep, LogStep, WriteBegin, WriteEnd, List, Hash, Stat, SealBegin, SealEnd, CloseFails,
         CloseFails, PreserveFails, LogAlert, LogStarted, LogSuccess, LogStored, LogFailure,
         LogOther, Tick,
         diskVars, resetVars, vars
    <3> QED
      BY <2>1, <3>1 DEF PlaceInv
  <2> QED
    BY <2>2, <2>3, <2>4
<1> QED
  BY <1>2, <1>3

\* What the abstract store has of c, without looking at its artifacts.
Evidence(c) ==
    IF pkg[c] = NoDir THEN "absent"
    ELSE IF ~ Undisturbed(c) THEN "spoilt"
    ELSE IF file[pkg[c]][Manifest] = c THEN "sealed" ELSE "absent"

LEMMA SealMatches ==
    ASSUME PackageInv, NEW c \in Capture, Undisturbed(c), file[pkg[c]][Manifest] = c
    PROVE  Matches(c)
<1>1. Stage(c) /\ Local(c) /\ phase[c] \in Phase /\ pkg[c] # NoDir
  BY DEF PackageInv, TypeOK, Undisturbed, Solo
<1>2. c # Absent /\ c # Empty
  BY SentinelAssumption
<1> QED
  BY <1>1, <1>2, PhaseNames DEF Stage, Local, File

LEMMA EvidenceIs == PackageInv => \A c \in Capture : EvidenceOf(c) = Evidence(c)
BY SealMatches DEF EvidenceOf, Evidence

\* A capture is undisturbed after a step exactly if it was before, unless the
\* step gives out a directory or wipes something.
LEMMA UndisturbedKept ==
    ASSUME NEW c \in Capture, pkg' = pkg, wiped' = wiped
    PROVE  Undisturbed(c)' <=> Undisturbed(c)
BY DEF Undisturbed, Solo

\* Only the end of the write of a manifest completes it, whether the capture
\* goes on or Close returned an error.
Seals(c) == SealEnd(c) \/ CloseFails(c)

LEMMA OnlyManifestSeals ==
    ASSUME PackageInv, [Next]_vars, NEW c \in Capture, ~ Seals(c), pkg[c] # NoDir,
           Undisturbed(c)', file'[pkg[c]][Manifest] = c
    PROVE  file[pkg[c]][Manifest] = c
<1>1. Undisturbed(c) /\ pkg'[c] = pkg[c] /\ TypeOK /\ pkg[c] \in Dir
  BY Undisturb DEF PackageInv, TypeOK
<1>2. /\ c # Absent /\ c # Empty /\ c # Garbage /\ Manifest \in File
      /\ Closed \notin File
  BY SentinelAssumption DEF File
<1>3. phase'[c] \in {"sealed", "succeeded", "done", "failing", "failed", "lost"}
  <2>1. Stage(c)' /\ Local(c)' /\ phase'[c] \in Phase
    BY PackageStep DEF PackageInv, TypeOK
  <2> QED
    BY <1>1, <1>2, <2>1, PhaseNames DEF Stage, Local
<1>4. CASE CaptureStep(c)
  <2>1. CASE LogStep(c)
    BY <2>1 DEF LogStep, LogAlert, LogStarted, LogSuccess, LogStored, LogFailure, diskVars
  <2>2. CASE PreserveFails(c)
    <3>1. \/ file' = file
          \/ fd[c] \in File /\ file' = [file EXCEPT ![pkg[c]][fd[c]] = Garbage]
      BY <2>2 DEF PreserveFails
    <3> QED
      BY <1>1, <1>2, <3>1 DEF TypeOK
  <2>3. CASE ~ LogStep(c) /\ ~ PreserveFails(c)
    <3>1. CASE file' = file
      BY <3>1
    <3>2. CASE file' # file
      BY <1>1, <1>3, <1>4, <2>3, <3>2 DEF CaptureStep, Create, CreateFails, CollectDocker,
         CollectK8s, PreserveStep, WriteBegin, WriteEnd, List, Hash, Stat, SealBegin,
         Seals, Goto, TypeOK, diskVars
    <3> QED
      BY <3>1, <3>2
  <2> QED
    BY <2>1, <2>2, <2>3
<1>5. ASSUME NEW b \in Capture, b # c, CaptureStep(b)
      PROVE  file'[pkg[c]] = file[pkg[c]]
  BY <1>1, <1>5, OtherCapture
<1>6. CASE ResetStep
  <2>1. file' = file \/ \E f \in names : file' = [file EXCEPT ![target][f] = Absent]
    BY <1>6 DEF ResetStep, ResetList, ResetOpen, ResetUnlink, ResetRmdir, ResetFails,
       ResetTruncate, diskVars
  <2>2. file'[pkg[c]][Manifest] \in {Absent, file[pkg[c]][Manifest]}
    <3>1. file \in [Dir -> [File -> Content]]
      BY <1>1 DEF TypeOK
    <3> QED
      BY <1>1, <1>2, <2>1, <3>1
  <2> QED
    BY <1>2, <2>2
<1>7. CASE LogOther \/ Tick \/ UNCHANGED vars
  BY <1>7 DEF LogOther, Tick, vars, diskVars
<1>8. CASE Die
  <2>1. PICK torn \in SUBSET {b \in Capture : fd[b] \in File} :
           file' = [e \in Dir |-> [f \in File |->
                      IF \E b \in torn : pkg[b] = e /\ fd[b] = f
                      THEN Garbage ELSE file[e][f]]]
    BY <1>8 DEF Die
  <2>2. file'[pkg[c]][Manifest] \in {Garbage, file[pkg[c]][Manifest]}
    BY <1>1, <1>2, <2>1
  <2> QED
    BY <1>2, <2>2
<1> QED
  BY <1>4, <1>5, <1>6, <1>7, <1>8 DEF Next

\* So a step that neither gives out directories nor wipes changes the evidence
\* of the capture that seals its manifest at most.
LEMMA EvidenceKept ==
    ASSUME PackageInv, [Next]_vars, pkg' = pkg, wiped' = wiped,
           NEW c \in Capture, Seals(c) => ~ Undisturbed(c)
    PROVE  Evidence(c)' = Evidence(c)
<1>1. Undisturbed(c)' <=> Undisturbed(c)
  BY UndisturbedKept
<1>2. CASE pkg[c] # NoDir /\ Undisturbed(c)
  <2>1. file[pkg[c]][Manifest] = c => file'[pkg[c]][Manifest] = c
    BY <1>1, <1>2, SealedStep
  <2>2. file'[pkg[c]][Manifest] = c => file[pkg[c]][Manifest] = c
    BY <1>1, <1>2, OnlyManifestSeals
  <2> QED
    BY <1>1, <2>1, <2>2 DEF Evidence
<1> QED
  BY <1>1, <1>2 DEF Evidence

\* The state function that EvidenceStore's variables stand for.
LEMMA StoreVars ==
    ASSUME PackageInv, PackageInv'
    PROVE  /\ [c \in Capture |-> EvidenceOf(c)] = [c \in Capture |-> Evidence(c)]
           /\ [c \in Capture |-> EvidenceOf(c)]' = [c \in Capture |-> Evidence(c)']
<1>1. \A c \in Capture : EvidenceOf(c) = Evidence(c)
  BY EvidenceIs
<1>2. \A c \in Capture : EvidenceOf(c)' = Evidence(c)'
  <2>1. (PackageInv => \A c \in Capture : EvidenceOf(c) = Evidence(c))'
    BY EvidenceIs, PTL
  <2> QED
    BY <2>1
<1> QED
  BY <1>1, <1>2

LEMMA StoreStutters ==
    ASSUME PackageInv, PackageInv', UNCHANGED <<pkg, Report, stale>>,
           \A c \in Capture : OutcomeOf(c)' = OutcomeOf(c),
           \A c \in Capture : Evidence(c)' = Evidence(c)
    PROVE  UNCHANGED Store!vars
BY StoreVars DEF Store!vars

LEMMA CreateOpens ==
    ASSUME RefinementInv, PackageInv', [Next]_vars, NEW c \in Capture, Create(c)
    PROVE  Store!Open(c, pkg'[c])
<1> DEFINE d  == pkg'[c]
           in == {b \in Capture : pkg'[b] = d}
<1>1. /\ PackageInv /\ TypeOK /\ PlaceInv /\ Owned /\ phase[c] = "new" /\ pkg[c] = NoDir
      /\ UNCHANGED <<wiped, file, sweep, warned, stale>>
  BY DEF RefinementInv, AuditInv, PackageInv, Local, Create, resetVars
<1>2. /\ d = <<clock, ShortOf[c]>> /\ d \in Dir /\ d # NoDir
      /\ pkg' = [pkg EXCEPT ![c] = d]
  <2>1. <<clock, ShortOf[c]>> \in Dir
    BY <1>1, MappingAssumption DEF TypeOK, Dir
  <2> QED
    BY <1>1, <2>1, SentinelAssumption DEF Create, TypeOK
<1> HIDE DEF d
<1>3. OutcomeOf(c) = "pending"
  BY <1>1 DEF OutcomeOf
<1>4. \A b \in Capture : OutcomeOf(b)' = OutcomeOf(b)
  <2>1. \A b \in Capture : phase'[b] = IF b = c THEN "created" ELSE phase[b]
    BY <1>1 DEF Create, Goto, TypeOK
  <2> QED
    BY <1>1, <2>1 DEF OutcomeOf
<1>5. ASSUME NEW b \in Capture
      PROVE  Evidence(b)' = IF b \in in /\ in # {c} THEN "spoilt" ELSE Evidence(b)
  <2>1. c \in in
    BY DEF d
  <2>2. CASE b \in in /\ in # {c}
    <3>1. \E a \in Capture \ {b} : pkg'[a] = pkg'[b]
      BY <2>1, <2>2 DEF d
    <3>2. ~ Undisturbed(b)' /\ pkg'[b] # NoDir
      BY <1>2, <2>2, <3>1 DEF Undisturbed, Solo
    <3> QED
      BY <2>2, <3>2 DEF Evidence
  <2>3. CASE b \notin in
    <3>1. b # c /\ pkg'[b] = pkg[b] /\ pkg[b] # d
      BY <1>1, <1>2, <2>1, <2>3 DEF TypeOK
    <3>2. pkg[b] # NoDir => (Undisturbed(b)' <=> Undisturbed(b))
      BY <1>1, <1>2, <3>1 DEF Undisturbed, Solo, TypeOK
    <3> QED
      BY <1>1, <2>3, <3>1, <3>2 DEF Evidence
  <2>4. CASE b \in in /\ in = {c}
    <3>1. b = c /\ \A a \in Capture : pkg[a] # d
      BY <1>1, <1>2, <2>4 DEF TypeOK
    <3>2. file'[d][Manifest] = Absent
      BY <1>1, <1>2, <3>1 DEF Owned, File
    <3>3. d \notin wiped'
      BY <1>1, <1>2, <3>1 DEF PlaceInv, Given
    <3>4. Undisturbed(c)'
      BY <1>2, <2>4, <3>3 DEF Undisturbed, Solo, d
    <3>5. Evidence(c)' = "absent"
      BY <1>2, <3>2, <3>4, SentinelAssumption DEF Evidence, d
    <3>6. Evidence(c) = "absent"
      BY <1>1 DEF Evidence
    <3> QED
      BY <2>4, <3>1, <3>5, <3>6
  <2> QED
    BY <2>2, <2>3, <2>4
<1>6. [b \in Capture |-> Evidence(b)']
         = [b \in Capture |-> IF b \in in /\ in # {c} THEN "spoilt" ELSE Evidence(b)]
  BY <1>5
<1>7. UNCHANGED <<[b \in Capture |-> OutcomeOf(b)], Report, stale>>
  BY <1>1, <1>4 DEF Report
<1> QED
  BY <1>1, <1>2, <1>3, <1>6, <1>7, StoreVars DEF Store!Open, d

\* The step that completes a manifest makes the evidence, or does nothing to
\* evidence that is spoilt already.
LEMMA ManifestSeals ==
    ASSUME PackageInv, PackageInv', [Next]_vars, NEW c \in Capture, Seals(c)
    PROVE  Store!Seal(c) \/ UNCHANGED Store!vars
<1>1. /\ TypeOK /\ phase[c] = "sealing" /\ pkg[c] \in Dir /\ pkg[c] # NoDir
      /\ \/ phase' = [phase EXCEPT ![c] = "sealed"]
         \/ phase' = [phase EXCEPT ![c] = "failing"]
      /\ UNCHANGED <<pkg, wiped, sweep, warned, stale>>
  BY SentinelAssumption DEF PackageInv, HasDir, Seals, SealEnd, CloseFails, Goto, resetVars
<1>2. \A b \in Capture : OutcomeOf(b)' = OutcomeOf(b)
  BY <1>1 DEF OutcomeOf, TypeOK
<1>3. Report' = Report
  BY <1>1 DEF Report
<1>4. \A b \in Capture \ {c} : Evidence(b)' = Evidence(b)
  <2>1. \A b \in Capture \ {c} : ~ Seals(b)
    BY <1>1 DEF Seals, SealEnd, CloseFails, Goto, TypeOK
  <2> QED
    BY <1>1, <2>1, EvidenceKept
<1>5. CASE ~ Undisturbed(c)
  <2>1. Evidence(c)' = Evidence(c)
    BY <1>1, <1>5, EvidenceKept
  <2> QED
    BY <1>1, <1>2, <1>3, <1>4, <2>1, StoreStutters
<1>6. CASE Undisturbed(c)
  <2>1. Undisturbed(c)'
    BY <1>1, <1>6, UndisturbedKept
  <2>2. Evidence(c) = "absent"
    <3>1. file[pkg[c]][Manifest] = Empty
      BY <1>1, <1>6 DEF PackageInv, Stage
    <3> QED
      BY <1>1, <1>6, <3>1, SentinelAssumption DEF Evidence
  <2>3. Evidence(c)' = "sealed"
    <3>1. fd[c] = Manifest /\ file[pkg[c]][Manifest] = Empty
      BY <1>1, <1>6 DEF PackageInv, Stage
    <3>2. file' = [file EXCEPT ![pkg[c]][Manifest] = c]
      <4>1. FillFile(c) /\ fd[c] # Unlinked
        BY <3>1, SentinelAssumption DEF Seals, SealEnd, CloseFails, File
      <4> QED
        BY <3>1, <4>1 DEF FillFile
    <3>3. file'[pkg[c]][Manifest] = c
      BY <1>1, <3>2 DEF TypeOK, File
    <3> QED
      BY <1>1, <2>1, <3>3 DEF Evidence
  <2>4. [b \in Capture |-> Evidence(b)']
           = [[b \in Capture |-> Evidence(b)] EXCEPT ![c] = "sealed"]
    BY <1>4, <2>3
  <2>5. OutcomeOf(c) = "pending"
    BY <1>1 DEF OutcomeOf
  <2> QED
    BY <1>1, <1>2, <1>3, <2>2, <2>4, <2>5, StoreVars DEF Store!Seal
<1> QED
  BY <1>5, <1>6

LEMMA StoredSucceeds ==
    ASSUME PackageInv, PackageInv', [Next]_vars, NEW c \in Capture, LogStored(c)
    PROVE  Store!Succeed(c)
<1>1. /\ TypeOK /\ phase[c] = "succeeded" /\ phase' = [phase EXCEPT ![c] = "done"]
      /\ pkg[c] # NoDir
      /\ UNCHANGED <<pkg, wiped, sweep, warned, stale, file>>
  BY SentinelAssumption DEF PackageInv, HasDir, LogStored, Goto, resetVars, diskVars
<1>2. Evidence(c) # "absent"
  BY <1>1 DEF PackageInv, Stage, Evidence
<1>3. [b \in Capture |-> Evidence(b)'] = [b \in Capture |-> Evidence(b)]
  BY <1>1, UndisturbedKept DEF Evidence
<1>4. [b \in Capture |-> OutcomeOf(b)']
         = [[b \in Capture |-> OutcomeOf(b)] EXCEPT ![c] = "success"]
  BY <1>1 DEF OutcomeOf, TypeOK
<1>5. OutcomeOf(c) = "pending" /\ Report' = Report
  BY <1>1 DEF OutcomeOf, Report
<1> QED
  BY <1>1, <1>2, <1>3, <1>4, <1>5, StoreVars DEF Store!Succeed

LEMMA FailureFails ==
    ASSUME PackageInv, PackageInv', [Next]_vars, NEW c \in Capture, LogFailure(c)
    PROVE  Store!Fail(c)
<1>1. /\ TypeOK /\ phase[c] = "failing" /\ phase' = [phase EXCEPT ![c] = "failed"]
      /\ UNCHANGED <<pkg, wiped, sweep, warned, stale, file>>
  BY DEF PackageInv, LogFailure, Goto, resetVars, diskVars
<1>3. [b \in Capture |-> Evidence(b)'] = [b \in Capture |-> Evidence(b)]
  BY <1>1, UndisturbedKept DEF Evidence
<1>4. [b \in Capture |-> OutcomeOf(b)']
         = [[b \in Capture |-> OutcomeOf(b)] EXCEPT ![c] = "failure"]
  BY <1>1 DEF OutcomeOf, TypeOK
<1>5. OutcomeOf(c) = "pending" /\ Report' = Report
  BY <1>1 DEF OutcomeOf, Report
<1> QED
  BY <1>1, <1>3, <1>4, <1>5, StoreVars DEF Store!Fail

\* The other steps of a capture are not seen in the store.
LEMMA QuietCapture ==
    ASSUME PackageInv, PackageInv', [Next]_vars, NEW c \in Capture, CaptureStep(c),
           ~ Create(c), ~ Seals(c), ~ LogStored(c), ~ LogFailure(c)
    PROVE  UNCHANGED Store!vars
<1>1. TypeOK /\ UNCHANGED <<pkg, wiped, sweep, warned, stale>>
  BY DEF PackageInv, CaptureStep, CreateFails, CollectDocker, CollectK8s, PreserveStep,
     LogStep, WriteBegin, WriteEnd, List, Hash, Stat, SealBegin, PreserveFails, LogAlert,
     LogStarted, LogSuccess, Seals, resetVars
<1>2. /\ \A b \in Capture \ {c} : phase'[b] = phase[b]
      /\ phase[c] \notin Over /\ phase'[c] \notin Over
  BY <1>1 DEF TypeOK, CaptureStep, CreateFails, CollectDocker, CollectK8s, PreserveStep,
     LogStep, WriteBegin, WriteEnd, List, Hash, Stat, SealBegin, PreserveFails, LogAlert,
     LogStarted, LogSuccess, Seals, Goto, Over
<1>3. \A b \in Capture : OutcomeOf(b)' = OutcomeOf(b)
  BY <1>2 DEF OutcomeOf, Over
<1>4. \A b \in Capture : ~ Seals(b)
  <2> SUFFICES ASSUME NEW b \in Capture, b # c, Seals(b) PROVE FALSE
    OBVIOUS
  <2>1. phase[b] = "sealing" /\ phase'[b] \in {"sealed", "failing"}
    BY <1>1 DEF Seals, SealEnd, CloseFails, Goto, TypeOK
  <2> QED
    BY <1>2, <2>1
<1>5. \A b \in Capture : Evidence(b)' = Evidence(b)
  BY <1>1, <1>4, EvidenceKept
<1>6. Report' = Report
  BY <1>1 DEF Report
<1> QED
  BY <1>1, <1>3, <1>5, <1>6, StoreStutters

\* What the reset removes is spoilt evidence of all captures in the directory.
LEMMA RemovalWipes ==
    ASSUME RefinementInv, PackageInv', [Next]_vars, target # NoDir,
           UNCHANGED <<pkg, phase, sweep, stale>>, wiped' = wiped \union {target},
           \A d \in Dir : d # target => file'[d] = file[d]
    PROVE  Store!Wipe(target)
<1>1. /\ PackageInv /\ TypeOK /\ sweep = "sweeping" /\ target \in Dir
  BY DEF RefinementInv, SweepInv, PackageInv, TypeOK
<1>2. Report = "running" /\ Report' = Report
  BY <1>1 DEF Report
<1>3. \A c \in Capture : OutcomeOf(c)' = OutcomeOf(c)
  BY DEF OutcomeOf
<1>4. ASSUME NEW c \in Capture
      PROVE  Evidence(c)' = IF pkg[c] = target THEN "spoilt" ELSE Evidence(c)
  <2>1. CASE pkg[c] = target
    BY <2>1 DEF Evidence, Undisturbed
  <2>2. CASE pkg[c] # target /\ pkg[c] # NoDir
    <3>1. pkg[c] \in Dir
      BY <1>1, <2>2 DEF TypeOK
    <3>2. Undisturbed(c)' <=> Undisturbed(c)
      BY <2>2 DEF Undisturbed, Solo
    <3>3. file'[pkg[c]] = file[pkg[c]]
      BY <2>2, <3>1
    <3> QED
      BY <2>2, <3>2, <3>3 DEF Evidence
  <2>3. CASE pkg[c] # target /\ pkg[c] = NoDir
    BY <2>3 DEF Evidence
  <2> QED
    BY <2>1, <2>2, <2>3
<1>5. [c \in Capture |-> Evidence(c)']
         = [c \in Capture |-> IF pkg[c] = target THEN "spoilt" ELSE Evidence(c)]
  BY <1>4
<1> QED
  BY <1>1, <1>2, <1>3, <1>5, StoreVars DEF Store!Wipe

\* Steps after which every capture, directory and verdict is as it was.
LEMMA QuietReset ==
    ASSUME PackageInv, PackageInv', [Next]_vars, UNCHANGED <<pkg, phase, wiped>>
    PROVE  /\ [c \in Capture |-> EvidenceOf(c)]' = [c \in Capture |-> EvidenceOf(c)]
           /\ [c \in Capture |-> OutcomeOf(c)]' = [c \in Capture |-> OutcomeOf(c)]
<1>1. \A c \in Capture : ~ Seals(c)
  BY DEF Seals, SealEnd, CloseFails, Goto, PackageInv, TypeOK
<1>2. \A c \in Capture : Evidence(c)' = Evidence(c)
  BY <1>1, EvidenceKept
<1>3. \A c \in Capture : OutcomeOf(c)' = OutcomeOf(c)
  BY DEF OutcomeOf
<1> QED
  BY <1>2, <1>3, StoreVars

LEMMA ResetRefines ==
    ASSUME RefinementInv, PackageInv', [Next]_vars, ResetStep
    PROVE  Store!Next \/ UNCHANGED Store!vars
<1>1. PackageInv /\ TypeOK /\ SweepInv /\ PlaceInv
  BY DEF RefinementInv, SweepInv, PackageInv
<1>2. UNCHANGED <<pkg, phase>>
  BY DEF ResetStep, ResetList, ResetOpen, ResetUnlink, ResetRmdir, ResetFails,
     ResetTruncate, captureVars
<1>3. CASE ResetList
  <2>1. Report # "running" /\ Report' = "running"
    BY <1>1, <1>3 DEF ResetList, Report, TypeOK
  <2>2. stale' = {c \in Capture : OutcomeOf(c) # "pending"}
    BY <1>3 DEF ResetList, OutcomeOf, Over
  <2>3. wiped' = wiped
    BY <1>3 DEF ResetList
  <2>4. stale' = {c \in Capture : [b \in Capture |-> OutcomeOf(b)][c] # "pending"}
    BY <2>2
  <2>5. Store!BeginReset
    BY <1>1, <1>2, <2>1, <2>3, <2>4, QuietReset DEF Store!BeginReset
  <2> QED
    BY <2>5 DEF Store!Next
<1>4. CASE ResetOpen \/ ResetFails
  <2>1. UNCHANGED <<wiped, sweep, stale>> /\ sweep = "sweeping"
    BY <1>1, <1>4 DEF ResetOpen, ResetFails, SweepInv
  <2>2. Report' = Report
    BY <2>1 DEF Report
  <2> QED
    BY <1>1, <1>2, <2>1, <2>2, QuietReset DEF Store!vars
<1>5. CASE ResetUnlink
  <2>1. target # NoDir /\ UNCHANGED <<sweep, stale>> /\ wiped' = wiped \union {target}
    BY <1>5 DEF ResetUnlink
  <2>2. \A d \in Dir : d # target => file'[d] = file[d]
    BY <1>1, <1>5 DEF ResetUnlink, TypeOK
  <2>3. Store!Wipe(target) /\ target \in Dir
    BY <1>1, <1>2, <2>1, <2>2, RemovalWipes DEF TypeOK
  <2> QED
    BY <2>3 DEF Store!Next
<1>6. CASE ResetRmdir
  <2>1. target # NoDir /\ target \in Dir /\ UNCHANGED <<sweep, stale, file>>
        /\ sweep = "sweeping"
    BY <1>1, <1>6 DEF ResetRmdir, TypeOK, SweepInv
  <2>2. CASE Listing(target) = {}
    <3>1. wiped' = wiped \union {target}
      BY <1>6, <2>2 DEF ResetRmdir
    <3>2. Store!Wipe(target)
      BY <1>2, <2>1, <3>1, RemovalWipes
    <3> QED
      BY <2>1, <3>2 DEF Store!Next
  <2>3. CASE Listing(target) # {}
    <3>1. wiped' = wiped
      BY <1>6, <2>3 DEF ResetRmdir
    <3>2. Report' = Report
      BY <2>1 DEF Report
    <3> QED
      BY <1>1, <1>2, <2>1, <3>1, <3>2, QuietReset DEF Store!vars
  <2> QED
    BY <2>2, <2>3
<1>7. CASE ResetTruncate
  <2>1. /\ sweep = "sweeping" /\ sweep' = "finished" /\ doomed = {} /\ target = NoDir
        /\ UNCHANGED <<wiped, stale>>
        /\ warned' = warned \/ warned' = TRUE
    BY <1>7 DEF ResetTruncate
  <2>2. Report = "running" /\ Report' \in {"clean", "warned"}
    BY <2>1 DEF Report
  <2>3. ASSUME Report' = "clean", NEW c \in stale PROVE Evidence(c) # "sealed"
    <3>1. ~ warned
      BY <2>1, <2>3 DEF Report
    <3>2. c \in Capture /\ (Solo(c) /\ pkg[c] \in exists => pkg[c] = NoDir)
      BY <1>1, <2>1, <2>3, <3>1 DEF SweepInv
    <3>3. Undisturbed(c) => pkg[c] \in exists
      BY <3>2 DEF Undisturbed, Solo, RefinementInv, PlaceInv, Given
    <3> QED
      BY <3>2, <3>3 DEF Evidence, Undisturbed, Solo
  <2>4. stale \subseteq Capture
    BY <1>1 DEF TypeOK
  <2>5. Report' = "clean" =>
           \A c \in stale : [b \in Capture |-> EvidenceOf(b)][c] # "sealed"
    BY <1>1, <2>3, <2>4, StoreVars
  <2>6. Store!EndReset(Report')
    BY <1>1, <1>2, <2>1, <2>2, <2>5, QuietReset DEF Store!EndReset
  <2> QED
    BY <2>2, <2>6 DEF Store!Next
<1> QED
  BY <1>3, <1>4, <1>5, <1>6, <1>7 DEF ResetStep

LEMMA DieCrashes ==
    ASSUME PackageInv, PackageInv', [Next]_vars, Die
    PROVE  Store!Crash
<1> DEFINE S == {c \in Capture : phase[c] \in Running}
<1>1. /\ TypeOK /\ UNCHANGED <<pkg, wiped, stale, warned>>
      /\ phase' = [c \in Capture |-> IF phase[c] \in Running THEN "lost" ELSE phase[c]]
      /\ sweep' = IF sweep = "sweeping" THEN "idle" ELSE sweep
  BY DEF PackageInv, Die
<1>2. \A c \in S : OutcomeOf(c) = "pending"
  BY DEF OutcomeOf, Running, Unsealed
<1>3. \A c \in Capture : OutcomeOf(c)' = IF c \in S THEN "lost" ELSE OutcomeOf(c)
  BY <1>1 DEF OutcomeOf, Running, Unsealed
<1>4. Report' = IF Report = "running" THEN "none" ELSE Report
  BY <1>1 DEF Report, TypeOK
<1>5. \A c \in Capture : ~ Seals(c)
  BY <1>1 DEF Seals, SealEnd, CloseFails, Goto, TypeOK
<1>6. \A c \in Capture : Evidence(c)' = Evidence(c)
  BY <1>1, <1>5, EvidenceKept
<1>7. S \in SUBSET Capture
  OBVIOUS
<1> HIDE DEF S
<1> QED
  BY <1>1, <1>2, <1>3, <1>4, <1>6, <1>7, StoreVars DEF Store!Crash

LEMMA StoreStep ==
    RefinementInv /\ RefinementInv' /\ [Next]_vars => [Store!Next]_(Store!vars)
<1> SUFFICES ASSUME RefinementInv, RefinementInv', [Next]_vars
             PROVE  Store!Next \/ UNCHANGED Store!vars
  OBVIOUS
<1>1. PackageInv /\ PackageInv' /\ TypeOK'
  BY DEF RefinementInv, SweepInv, PackageInv
<1>2. ASSUME NEW c \in Capture, CaptureStep(c)
      PROVE  Store!Next \/ UNCHANGED Store!vars
  <2>1. CASE Create(c)
    <3>1. pkg'[c] \in Dir
      <4>1. phase'[c] = "created"
        BY <1>1, <2>1 DEF Create, Goto, PackageInv, TypeOK
      <4> QED
        BY <1>1, <4>1 DEF PackageInv, HasDir
    <3> QED
      BY <1>1, <2>1, <3>1, CreateOpens DEF Store!Next
  <2>2. CASE Seals(c)
    BY <1>1, <2>2, ManifestSeals DEF Store!Next
  <2>3. CASE LogStored(c)
    BY <1>1, <2>3, StoredSucceeds DEF Store!Next
  <2>4. CASE LogFailure(c)
    BY <1>1, <2>4, FailureFails DEF Store!Next
  <2> QED
    BY <1>1, <1>2, <2>1, <2>2, <2>3, <2>4, QuietCapture
<1>3. CASE ResetStep
  BY <1>1, <1>3, ResetRefines
<1>4. CASE LogOther \/ Tick \/ UNCHANGED vars
  <2>1. UNCHANGED <<pkg, phase, wiped, sweep, warned, stale>>
    BY <1>4 DEF LogOther, Tick, vars, captureVars, resetVars
  <2>2. Report' = Report
    BY <2>1 DEF Report
  <2> QED
    BY <1>1, <2>1, <2>2, QuietReset DEF Store!vars
<1>5. CASE Die
  BY <1>1, <1>5, DieCrashes DEF Store!Next
<1> QED
  BY <1>2, <1>3, <1>4, <1>5 DEF Next

LEMMA RefinementInit == Init => RefinementInv /\ Store!Init
<1> SUFFICES ASSUME Init PROVE RefinementInv /\ Store!Init
  OBVIOUS
<1>1. AuditInv /\ SweepInv
  BY AuditInit, PackageInit DEF Init, SweepInv
<1>2. PlaceInv
  BY DEF Init, PlaceInv, Given
<1>3. \A c \in Capture : EvidenceOf(c) = "absent" /\ OutcomeOf(c) = "pending"
  BY DEF Init, EvidenceOf, OutcomeOf
<1>4. Report = "none"
  BY DEF Init, Report
<1> QED
  BY <1>1, <1>2, <1>3, <1>4 DEF RefinementInv, Store!Init, Init

\* The pipeline implements the abstract store: in every behaviour of captures,
\* resets, crashes and clock, evidence appears whole, is reported truly, and is
\* only ever spoilt by a shared directory or a reset.
THEOREM StoreIsImplemented == Spec => StoreImplemented
<1>1. RefinementInv /\ [Next]_vars => RefinementInv'
  BY AuditStep, SweepStep, PlaceStep DEF RefinementInv
<1> QED
  BY <1>1, RefinementInit, StoreStep, PTL DEF Spec, StoreImplemented, Store!Spec
=============================================================================
