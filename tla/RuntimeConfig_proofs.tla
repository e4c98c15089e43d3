----------------------- MODULE RuntimeConfig_proofs -----------------------
(***************************************************************************)
(* Proofs about RuntimeConfig, for any tabs, settings, defaults and files. *)
(***************************************************************************)
EXTENDS RuntimeConfig, TLAPS

LEMMA UpdatedType ==
    ASSUME NEW s \in [Field -> Value], NEW t \in Tab, form[t] \in [Field -> Value]
    PROVE  Updated(s, t) \in [Field -> Value]
BY DEF Updated

LEMMA ShownType ==
    ASSUME TypeOK, NEW f \in Field
    PROVE  Shown(f) \in Value
BY FieldAssumption DEF TypeOK, Shown

LEMMA TypeStep == TypeOK /\ [Next]_vars => TypeOK'
<1> SUFFICES ASSUME TypeOK, [Next]_vars PROVE TypeOK'
  OBVIOUS
<1> USE DEF TypeOK, Section, Step, Goto, fileVars, tabVars, history
<1>1. ASSUME NEW t \in Tab, Open(t) PROVE TypeOK'
  <2>1. [f \in Field |-> Shown(f)] \in [Field -> Value]
    BY ShownType
  <2> QED
    BY <1>1, <2>1 DEF Open
<1>2. ASSUME NEW t \in Tab, Edit(t) PROVE TypeOK'
  BY <1>2 DEF Edit
<1>3. ASSUME NEW t \in Tab, Submit(t) PROVE TypeOK'
  <2>1. step' \in [Tab -> Step]
    BY <1>3 DEF Submit
  <2> QED
    BY <1>3, <2>1 DEF Submit
<1>4. ASSUME NEW t \in Tab, Apply(t) PROVE TypeOK'
  <2>1. Updated(cfg, t) \in [Field -> Value]
    BY UpdatedType
  <2> QED
    BY <1>4, <2>1 DEF Apply
<1>5. ASSUME NEW t \in Tab, SaveBegin(t) PROVE TypeOK'
  BY <1>5 DEF SaveBegin, Blank
<1>6. ASSUME NEW t \in Tab, SaveEnd(t) \/ SaveFails(t) \/ SaveCut(t) PROVE TypeOK'
  <2>1. Updated(granted, t) \in [Field -> Value]
    BY UpdatedType
  <2>2. disk' \in [Field -> Value \union {Missing}] /\ garbled' \in BOOLEAN
    <3>1. CASE SaveEnd(t) \/ SaveFails(t)
      BY <3>1 DEF SaveEnd, SaveFails
    <3>2. CASE SaveCut(t)
      BY <3>2 DEF SaveCut
    <3> QED
      BY <1>6, <3>1, <3>2
  <2>3. /\ granted' = Updated(granted, t) /\ lock' = Nobody /\ damaged' \in BOOLEAN
        /\ step' = [step EXCEPT ![t] = "answered"]
        /\ UNCHANGED <<agent, cfg, form, edited, want, crashes>>
    BY <1>6 DEF SaveEnd, SaveFails, SaveCut, Answer
  <2> QED
    BY <2>1, <2>2, <2>3
<1>7. CASE Die
  <2>1. crashes' \in 0 .. MaxCrashes
    BY <1>7, FieldAssumption DEF Die
  <2>2. step' \in [Tab -> Step]
    BY <1>7 DEF Die
  <2>3. damaged' \in BOOLEAN
    BY <1>7 DEF Die
  <2> QED
    BY <1>7, <2>1, <2>2, <2>3 DEF Die
<1>8. CASE Restart
  <2>1. cfg' \in [Field -> Value]
    BY <1>8, FieldAssumption DEF Restart
  <2>2. granted' \in [Field -> Value]
    BY <1>8, <2>1 DEF Restart
  <2> QED
    BY <1>8, <2>1, <2>2 DEF Restart
<1>9. CASE Refuse
  BY <1>9 DEF Refuse
<1>10. CASE UNCHANGED vars
  BY <1>10 DEF vars
<1> QED
  BY <1>1, <1>2, <1>3, <1>4, <1>5, <1>6, <1>7, <1>8, <1>9, <1>10 DEF Next, Handler

LEMMA TypeInit == Init => TypeOK
<1> SUFFICES ASSUME Init PROVE TypeOK
  OBVIOUS
<1>1. cfg \in [Field -> Value] /\ granted \in [Field -> Value]
  BY FieldAssumption DEF Init
<1>2. disk \in [Field -> Value \union {Missing}]
  BY <1>1 DEF Init
<1>3. form \in [Tab -> [Field -> Value]] /\ crashes \in 0 .. MaxCrashes
  BY FieldAssumption DEF Init
<1>4. /\ agent = "up" /\ garbled = FALSE /\ lock = Nobody /\ damaged = FALSE
      /\ step \in [Tab -> Step] /\ edited \in [Tab -> SUBSET Field] /\ want \in [Tab -> Section]
  BY DEF Init, Section, Step
<1> QED
  BY <1>1, <1>2, <1>3, <1>4 DEF TypeOK

\* Every variable keeps its type.
THEOREM TypeCorrect == Spec => []TypeOK
BY TypeInit, TypeStep, PTL DEF Spec

----------------------------------------------------------------------------
(* The inductive invariant: what struct and file are while a handler holds *)
(* the lock, and while the process is down.                                *)

Busy == {"applied", "truncated"}

LockHeld ==
    /\ \A t \in Tab : lock = t <=> step[t] \in Busy
    /\ lock # Nobody => agent = "up"

\* The struct is one update ahead of the settings granted while the lock is held.
StructAhead ==
    /\ Idle => cfg = granted
    /\ \A t \in Tab : step[t] \in Busy => cfg = Updated(granted, t)

\* The file has the settings granted so far, except while it is rewritten.
FileCurrent ==
    /\ ~ damaged /\ (\A t \in Tab : step[t] # "truncated") => disk = granted /\ ~ garbled
    /\ (\E t \in Tab : step[t] = "truncated") => ~ garbled

ConfigInv == TypeOK /\ LockHeld /\ StructAhead /\ FileCurrent

\* A tab without a request in the handler leaves the lock, struct and file alone.
LEMMA FormStep ==
    ASSUME ConfigInv, NEW t \in Tab, Open(t) \/ Edit(t) \/ Submit(t)
    PROVE  LockHeld' /\ StructAhead' /\ FileCurrent'
<1> USE DEF ConfigInv, TypeOK
<1>1. /\ step[t] \notin Busy /\ step'[t] \notin Busy
      /\ \A u \in Tab \ {t} : step'[u] = step[u] /\ form'[u] = form[u] /\ want'[u] = want[u]
      /\ UNCHANGED <<agent, cfg, disk, garbled, lock, damaged, granted>>
  BY DEF Open, Edit, Submit, Goto, Busy, fileVars, history
<1>2. \A u \in Tab : step'[u] \in Busy <=> step[u] \in Busy
  BY <1>1
<1>3. \A u \in Tab : step'[u] = "truncated" <=> step[u] = "truncated"
  BY <1>1 DEF Busy
<1>4. \A u \in Tab : step[u] \in Busy => Updated(granted, u)' = Updated(granted, u)
  BY <1>1 DEF Updated
<1>5. LockHeld'
  BY <1>1, <1>2 DEF LockHeld
<1>6. FileCurrent'
  BY <1>1, <1>3 DEF FileCurrent
<1>7. StructAhead'
  BY <1>1, <1>2, <1>4 DEF StructAhead, Idle
<1> QED
  BY <1>5, <1>6, <1>7

LEMMA ApplyStep ==
    ASSUME ConfigInv, NEW t \in Tab, Apply(t)
    PROVE  LockHeld' /\ StructAhead' /\ FileCurrent'
<1> USE DEF ConfigInv, TypeOK
<1>1. /\ agent = "up" /\ agent' = "up" /\ lock = Nobody /\ lock' = t /\ t # Nobody
      /\ cfg' = Updated(cfg, t)
      /\ \A u \in Tab : step'[u] = IF u = t THEN "applied" ELSE step[u]
      /\ UNCHANGED <<disk, garbled, form, want, damaged, granted>>
  BY FieldAssumption DEF Apply, Goto, fileVars, tabVars, history
<1>2. \A u \in Tab : step[u] \notin Busy
  BY <1>1, FieldAssumption DEF LockHeld
<1>3. LockHeld'
  BY <1>1, <1>2 DEF LockHeld, Busy
<1>4. cfg = granted
  BY <1>1 DEF StructAhead, Idle
<1>5. StructAhead'
  BY <1>1, <1>2, <1>4 DEF StructAhead, Idle, Updated, Busy
<1>6. FileCurrent'
  BY <1>1, <1>2 DEF FileCurrent, Busy
<1> QED
  BY <1>3, <1>5, <1>6

LEMMA SaveStep ==
    ASSUME ConfigInv, NEW t \in Tab, SaveBegin(t) \/ SaveEnd(t) \/ SaveFails(t) \/ SaveCut(t)
    PROVE  LockHeld' /\ StructAhead' /\ FileCurrent'
<1> USE DEF ConfigInv, TypeOK
<1>1. /\ step[t] \in Busy /\ lock = t /\ agent = "up" /\ t # Nobody
      /\ \A u \in Tab \ {t} : step[u] \notin Busy
      /\ cfg = Updated(granted, t)
      /\ UNCHANGED <<agent, cfg, form, want>>
  BY FieldAssumption DEF SaveBegin, SaveEnd, SaveFails, SaveCut, Busy, LockHeld, StructAhead, tabVars
<1>2. CASE SaveBegin(t)
  <2>1. /\ \A u \in Tab : step'[u] = IF u = t THEN "truncated" ELSE step[u]
        /\ garbled' = FALSE /\ UNCHANGED <<lock, damaged, granted>>
    BY <1>2 DEF SaveBegin, Goto, history
  <2>2. LockHeld' /\ FileCurrent'
    BY <1>1, <2>1 DEF LockHeld, FileCurrent, Busy
  <2>3. StructAhead'
    BY <1>1, <2>1 DEF StructAhead, Idle, Updated, Busy
  <2> QED
    BY <2>2, <2>3
<1>3. CASE SaveEnd(t) \/ SaveFails(t) \/ SaveCut(t)
  <2>1. /\ \A u \in Tab : step'[u] = IF u = t THEN "answered" ELSE step[u]
        /\ lock' = Nobody /\ granted' = cfg
    BY <1>1, <1>3 DEF SaveEnd, SaveFails, SaveCut, Answer, Goto
  <2>2. \A u \in Tab : step'[u] \notin Busy /\ step'[u] # "truncated"
    BY <1>1, <2>1 DEF Busy
  <2>3. LockHeld' /\ StructAhead'
    BY <1>1, <2>1, <2>2, FieldAssumption DEF LockHeld, StructAhead
  <2>4. damaged' \/ (disk' = cfg /\ ~ garbled')
    BY <1>3 DEF SaveEnd, SaveFails, SaveCut, FileCurrent
  <2>5. FileCurrent'
    BY <2>1, <2>2, <2>4 DEF FileCurrent
  <2> QED
    BY <2>3, <2>5
<1> QED
  BY <1>2, <1>3

LEMMA LifeStep ==
    ASSUME ConfigInv, Die \/ Restart \/ Refuse
    PROVE  LockHeld' /\ StructAhead' /\ FileCurrent'
<1> USE DEF ConfigInv, TypeOK
<1>1. CASE Die
  <2>1. /\ \A t \in Tab : step'[t] \notin Busy /\ step'[t] # "truncated"
        /\ lock' = Nobody /\ agent' = "down" /\ UNCHANGED <<disk, garbled, granted>>
        /\ damaged' = (damaged \/ \E t \in Tab : step[t] = "truncated")
    BY <1>1 DEF Die, Busy, fileVars
  <2>2. LockHeld' /\ StructAhead'
    BY <2>1, FieldAssumption DEF LockHeld, StructAhead, Idle
  <2>3. FileCurrent'
    BY <2>1 DEF FileCurrent
  <2> QED
    BY <2>2, <2>3
<1>2. CASE Restart
  <2>1. /\ agent = "down" /\ ~ garbled /\ UNCHANGED <<disk, garbled, lock, step, damaged>>
        /\ cfg' = [f \in Field |-> IF disk[f] = Missing THEN Default[f] ELSE disk[f]]
        /\ granted' = IF damaged THEN cfg' ELSE granted
    BY <1>2 DEF Restart, fileVars
  <2>2. lock = Nobody /\ \A t \in Tab : step[t] \notin Busy
    BY <2>1, FieldAssumption DEF LockHeld
  <2>3. LockHeld'
    BY <2>1, <2>2, FieldAssumption DEF LockHeld
  <2>4. ASSUME ~ damaged PROVE disk = granted /\ cfg' = granted
    <3>1. disk = granted
      BY <2>2, <2>4 DEF FileCurrent, Busy
    <3>2. \A f \in Field : disk[f] # Missing
      BY <3>1, FieldAssumption
    <3>3. cfg' = disk
      BY <2>1, <3>1, <3>2
    <3> QED
      BY <3>1, <3>3
  <2>5. cfg' = granted'
    BY <2>1, <2>4
  <2>6. StructAhead'
    BY <2>1, <2>2, <2>5 DEF StructAhead
  <2>7. FileCurrent'
    BY <2>1, <2>2, <2>4 DEF FileCurrent, Busy
  <2> QED
    BY <2>3, <2>6, <2>7
<1>3. CASE Refuse
  <2>1. agent = "down" /\ agent' = "refused"
        /\ UNCHANGED <<cfg, disk, garbled, lock, step, form, want, damaged, granted>>
    BY <1>3 DEF Refuse, fileVars, tabVars, history
  <2>2. lock = Nobody
    BY <2>1 DEF LockHeld
  <2> QED
    BY <2>1, <2>2 DEF LockHeld, StructAhead, FileCurrent, Idle, Updated
<1> QED
  BY <1>1, <1>2, <1>3

LEMMA ConfigStep == ConfigInv /\ [Next]_vars => ConfigInv'
<1> SUFFICES ASSUME ConfigInv, [Next]_vars PROVE LockHeld' /\ StructAhead' /\ FileCurrent'
  BY TypeStep DEF ConfigInv
<1>1. CASE UNCHANGED vars
  BY <1>1 DEF ConfigInv, vars, fileVars, tabVars, history, LockHeld, StructAhead, FileCurrent,
     Idle, Updated
<1> QED
  BY <1>1, FormStep, ApplyStep, SaveStep, LifeStep DEF Next, Handler

LEMMA ConfigInit == Init => ConfigInv
<1> SUFFICES ASSUME Init PROVE LockHeld /\ StructAhead /\ FileCurrent
  BY TypeInit DEF ConfigInv
<1>1. \A t \in Tab : step[t] = "closed" /\ t # Nobody
  BY FieldAssumption DEF Init
<1> QED
  BY <1>1 DEF Init, LockHeld, StructAhead, FileCurrent, Idle, Busy

\* Updates survive each other and a restart, unless a save failed or was cut.
THEOREM UpdatesAreKept == Spec => []UpdatesKept
BY ConfigInit, ConfigStep, PTL DEF Spec, ConfigInv, StructAhead, UpdatesKept

\* The file follows the struct, unless the last save failed or was cut.
THEOREM DiskIsCurrent == Spec => []DiskFollowsMemory
<1>1. ConfigInv => DiskFollowsMemory
  <2> SUFFICES ASSUME ConfigInv, Idle, ~ damaged PROVE disk = cfg /\ ~ garbled
    BY DEF DiskFollowsMemory
  <2>1. \A t \in Tab : step[t] # "truncated"
    BY FieldAssumption DEF ConfigInv, LockHeld, Idle, Busy
  <2> QED
    BY <2>1 DEF ConfigInv, FileCurrent, StructAhead
<1> QED
  BY <1>1, ConfigInit, ConfigStep, PTL DEF Spec
=============================================================================
