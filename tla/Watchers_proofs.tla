-------------------------- MODULE Watchers_proofs --------------------------
(***************************************************************************)
(* Proofs about the two watchers of the agent, each by itself.             *)
(*                                                                         *)
(* ContainerWatcher, for any deaths, internal containers and overlong      *)
(* lines: what is in the pipe is there once (HoldsOnce), and a child that  *)
(* still writes is read, or the scan ended at an overlong line.            *)
(*                                                                         *)
(* KubeWatcher, for any pods, anomalies and number of lives: one counted   *)
(* capture for each key in the map, and a list is used up before the next. *)
(***************************************************************************)
EXTENDS ContainerWatcher, KubeWatcher, TLAPS

\* The queue q holds the elements of S once each and nothing else.
HoldsOnce(q, S) ==
    /\ \A e \in Death : e \in S <=> \E i \in 1 .. Len(q) : q[i] = e
    /\ \A i, j \in 1 .. Len(q) : q[i] = q[j] => i = j

LEMMA AppendHolds ==
    ASSUME NEW q \in Seq(Death), NEW S, HoldsOnce(q, S), NEW e \in Death, e \notin S
    PROVE  Append(q, e) \in Seq(Death) /\ HoldsOnce(Append(q, e), S \union {e})
<1> DEFINE r == Append(q, e)
<1>1. /\ r \in Seq(Death) /\ Len(q) \in Nat /\ Len(r) = Len(q) + 1
      /\ \A i \in 1 .. Len(q) : r[i] = q[i]
      /\ r[Len(q) + 1] = e
  OBVIOUS
<1> HIDE DEF r
<1>2. \A i \in 1 .. Len(r) : i \in 1 .. Len(q) \/ i = Len(q) + 1
  BY <1>1
<1>3. \A i \in 1 .. Len(q) : q[i] # e
  BY DEF HoldsOnce
<1>4. Len(q) + 1 \in 1 .. Len(r) /\ \A i \in 1 .. Len(q) : i \in 1 .. Len(r)
  BY <1>1
<1>5. ASSUME NEW d \in Death
      PROVE  d \in S \union {e} <=> \E i \in 1 .. Len(r) : r[i] = d
  <2>1. d \in S <=> \E i \in 1 .. Len(q) : q[i] = d
    BY DEF HoldsOnce
  <2> QED
    BY <1>1, <1>2, <1>4, <2>1
<1>6. ASSUME NEW i \in 1 .. Len(r), NEW j \in 1 .. Len(r), r[i] = r[j] PROVE i = j
  BY <1>1, <1>2, <1>3, <1>6 DEF HoldsOnce
<1>7. HoldsOnce(r, S \union {e})
  BY <1>5, <1>6 DEF HoldsOnce
<1> QED
  BY <1>1, <1>7 DEF r

LEMMA TakeHolds ==
    ASSUME NEW q \in Seq(Death), NEW S, HoldsOnce(q, S), q # <<>>
    PROVE  /\ Head(q) \in Death /\ Head(q) \in S
           /\ Tail(q) \in Seq(Death) /\ HoldsOnce(Tail(q), S \ {Head(q)})
<1> DEFINE h == Head(q)
           r == Tail(q)
<1>1. /\ h \in Death /\ h = q[1] /\ r \in Seq(Death)
      /\ Len(q) \in Nat \ {0} /\ Len(r) = Len(q) - 1
      /\ \A i \in 1 .. Len(r) : r[i] = q[i + 1]
  OBVIOUS
<1> HIDE DEF h, r
<1>2. 1 \in 1 .. Len(q) /\ \A i \in 1 .. Len(r) : i + 1 \in 1 .. Len(q)
  BY <1>1
<1>3. h \in S
  BY <1>1, <1>2 DEF HoldsOnce
<1>4. \A i \in 1 .. Len(r) : r[i] # h
  <2> SUFFICES ASSUME NEW i \in 1 .. Len(r), q[i + 1] = q[1] PROVE FALSE
    BY <1>1
  <2>1. i + 1 = 1
    BY <1>2 DEF HoldsOnce
  <2> QED
    BY <1>1, <2>1
<1>5. ASSUME NEW d \in Death
      PROVE  d \in S \ {h} <=> \E i \in 1 .. Len(r) : r[i] = d
  <2>1. d \in S <=> \E i \in 1 .. Len(q) : q[i] = d
    BY DEF HoldsOnce
  <2>2. ASSUME NEW i \in 1 .. Len(q), q[i] = d, d # h
        PROVE  \E j \in 1 .. Len(r) : r[j] = d
    <3>1. i # 1
      BY <1>1, <2>2
    <3>2. i - 1 \in 1 .. Len(r) /\ r[i - 1] = q[(i - 1) + 1] /\ (i - 1) + 1 = i
      BY <1>1, <3>1
    <3> QED
      BY <2>2, <3>2
  <2>3. ASSUME NEW i \in 1 .. Len(r), r[i] = d
        PROVE  d # h /\ \E j \in 1 .. Len(q) : q[j] = d
    BY <1>1, <1>2, <1>4, <2>3
  <2> QED
    BY <2>1, <2>2, <2>3
<1>6. ASSUME NEW i \in 1 .. Len(r), NEW j \in 1 .. Len(r), r[i] = r[j] PROVE i = j
  <2>1. i + 1 = j + 1
    BY <1>1, <1>2, <1>6 DEF HoldsOnce
  <2> QED
    BY <2>1
<1>7. HoldsOnce(r, S \ {h})
  BY <1>5, <1>6 DEF HoldsOnce
<1> QED
  BY <1>1, <1>3, <1>7 DEF h, r

----------------------------------------------------------------------------
(* The inductive invariant.  A child that still writes is read, or the     *)
(* scan ended at an overlong line.                                         *)

Piped == {e \in Death : fate[e] = "piped"}

OverlongMet == \E e \in Overlong : fate[e] = "too long"

ChildWatched ==
    child \in {"connecting", "open"} =>
        watcher = "reading" \/ (watcher = "reaping" /\ OverlongMet)

LinesKept ==
    /\ HoldsOnce(pipe, Piped)
    /\ pipe # <<>> => watcher = "reading"
    /\ (\E e \in Death : fate[e] = "lost") => OverlongMet

StreamInv == TypeOK /\ DeathCapturedOnce /\ LinesKept /\ ChildWatched

LEMMA LinesKeptIsNoLineLeftBehind == StreamInv => NoLineLeftBehind
BY DEF StreamInv, LinesKept, HoldsOnce, Piped, OverlongMet, NoLineLeftBehind

LEMMA StreamInit == Init => StreamInv
<1> SUFFICES ASSUME Init PROVE StreamInv
  OBVIOUS
<1>1. pipe = <<>> /\ Len(pipe) = 0 /\ 1 .. 0 = {} /\ pipe \in Seq(Death)
  BY DEF Init
<1>2. \A e \in Death : fate[e] = "pending" /\ captures[e] = 0
  BY DEF Init
<1>3. TypeOK
  BY <1>1 DEF Init, TypeOK, Fate
<1>4. HoldsOnce(pipe, Piped)
  BY <1>1, <1>2 DEF HoldsOnce, Piped
<1> QED
  BY <1>1, <1>2, <1>3, <1>4
     DEF Init, StreamInv, DeathCapturedOnce, LinesKept, ChildWatched

\* Steps that touch no line and move neither the watcher away from a child that
\* writes nor from a pipe that is not empty.
LEMMA AsideKeeps ==
    ASSUME StreamInv, UNCHANGED lineVars,
           onExit' \in BOOLEAN, daemon' \in BOOLEAN,
           agent' \in {"up", "stopping", "exited"},
           watcher' \in {"checking", "sleeping", "starting", "reading", "reaping", "pausing",
                         "stopped"},
           child' \in {"none", "connecting", "open", "ended"},
           pipe # <<>> => watcher' = watcher,
           child' \in {"connecting", "open"} =>
               \/ watcher' = "reading"
               \/ watcher' = watcher /\ child \in {"connecting", "open"}
    PROVE  StreamInv'
<1> USE DEF StreamInv, lineVars
<1>1. TypeOK'
  BY DEF TypeOK
<1>2. DeathCapturedOnce'
  BY DEF DeathCapturedOnce
<1>3. Piped' = Piped /\ (OverlongMet' <=> OverlongMet)
  BY DEF Piped, OverlongMet
<1>4. LinesKept'
  BY <1>3 DEF LinesKept, HoldsOnce
<1>5. ChildWatched'
  BY <1>3 DEF ChildWatched
<1> QED
  BY <1>1, <1>2, <1>4, <1>5

\* The head of the pipe is a piped death with no capture yet.
LEMMA HeadFacts ==
    ASSUME StreamInv, pipe # <<>>
    PROVE  /\ Head(pipe) \in Death /\ fate[Head(pipe)] = "piped"
           /\ captures[Head(pipe)] = 0
           /\ Tail(pipe) \in Seq(Death) /\ HoldsOnce(Tail(pipe), Piped \ {Head(pipe)})
<1>1. pipe \in Seq(Death) /\ HoldsOnce(pipe, Piped)
  BY DEF StreamInv, TypeOK, LinesKept
<1>2. /\ Head(pipe) \in Piped
      /\ Tail(pipe) \in Seq(Death) /\ HoldsOnce(Tail(pipe), Piped \ {Head(pipe)})
  BY <1>1, TakeHolds
<1>3. Head(pipe) \in Death /\ fate[Head(pipe)] = "piped"
  BY <1>2 DEF Piped
<1>4. captures[Head(pipe)] = 0
  BY <1>3 DEF StreamInv, DeathCapturedOnce
<1> QED
  BY <1>2, <1>3, <1>4

\* A line is consumed and answered, by a capture or by nothing.
LEMMA AnswerKeeps ==
    ASSUME StreamInv, pipe # <<>>, NEW f \in {"captured", "skipped"},
           f = "captured" => Head(pipe) \notin Internal,
           watcher = "reading", UNCHANGED <<envVars, watcher, child>>,
           pipe' = Tail(pipe),
           fate' = [fate EXCEPT ![Head(pipe)] = f],
           captures' = [captures EXCEPT ![Head(pipe)] = IF f = "captured" THEN 1 ELSE 0]
    PROVE  StreamInv'
<1> DEFINE h == Head(pipe)
<1>1. /\ h \in Death /\ fate[h] = "piped"
      /\ Tail(pipe) \in Seq(Death) /\ HoldsOnce(Tail(pipe), Piped \ {h})
  BY HeadFacts
<1> HIDE DEF h
<1>2. \A e \in Death : fate'[e] = IF e = h THEN f ELSE fate[e]
  BY DEF h, StreamInv, TypeOK
<1>3. \A e \in Death : captures'[e] = IF e = h THEN (IF f = "captured" THEN 1 ELSE 0)
                                      ELSE captures[e]
  BY DEF h, StreamInv, TypeOK
<1>4. TypeOK'
  <2>1. fate' \in [Death -> Fate] /\ captures' \in [Death -> Nat]
    BY DEF StreamInv, TypeOK, Fate
  <2> QED
    BY <1>1, <2>1 DEF StreamInv, TypeOK, envVars
<1>5. DeathCapturedOnce'
  BY <1>2, <1>3 DEF h, StreamInv, DeathCapturedOnce
<1>6. Piped' = Piped \ {h}
  BY <1>2 DEF Piped
<1>7. OverlongMet => OverlongMet'
  BY <1>1, <1>2, DeathAssumption DEF OverlongMet
<1>8. LinesKept'
  BY <1>1, <1>2, <1>6, <1>7 DEF StreamInv, LinesKept
<1>9. ChildWatched'
  BY DEF ChildWatched
<1> QED
  BY <1>4, <1>5, <1>8, <1>9 DEF StreamInv

LEMMA ReadOverlongKeeps ==
    ASSUME StreamInv, ReadOverlong PROVE StreamInv'
<1> DEFINE h == Head(pipe)
<1>1. h \in Death /\ fate[h] = "piped" /\ h \in Overlong
  BY HeadFacts DEF ReadOverlong
<1> HIDE DEF h
<1>2. /\ \A e \in Death : fate'[e] = IF e = h THEN "too long"
                                     ELSE IF fate[e] = "piped" THEN "lost" ELSE fate[e]
      /\ pipe' = <<>> /\ watcher' = "reaping" /\ captures' = captures
  BY DEF h, ReadOverlong, Goto
<1>3. TypeOK'
  <2>1. fate' \in [Death -> Fate]
    BY DEF StreamInv, TypeOK, ReadOverlong, Fate
  <2>2. <<>> \in Seq(Death)
    OBVIOUS
  <2> QED
    BY <1>2, <2>1, <2>2 DEF StreamInv, TypeOK, ReadOverlong, envVars
<1>4. DeathCapturedOnce'
  BY <1>1, <1>2 DEF StreamInv, DeathCapturedOnce
<1>5. OverlongMet'
  BY <1>1, <1>2 DEF OverlongMet
<1>6. Piped' = {}
  BY <1>2 DEF Piped
<1>7. HoldsOnce(pipe', {})
  <2>1. HoldsOnce(<<>>, {})
    BY DEF HoldsOnce
  <2> QED
    BY <1>2, <2>1
<1>8. LinesKept'
  BY <1>2, <1>5, <1>6, <1>7 DEF LinesKept
<1> QED
  BY <1>2, <1>3, <1>4, <1>5, <1>8 DEF StreamInv, ChildWatched

LEMMA DieKeeps ==
    ASSUME StreamInv, NEW e \in Death, Die(e) PROVE StreamInv'
<1>1. /\ fate[e] = "pending" /\ captures' = captures /\ UNCHANGED <<envVars, watcher, child>>
  BY DEF Die
<1>2. PICK f \in {"piped", "lost", "missed"} :
         /\ fate' = [fate EXCEPT ![e] = f]
         /\ f = "piped" => pipe' = Append(pipe, e) /\ watcher = "reading"
         /\ f # "piped" => pipe' = pipe
         /\ f = "lost" => child = "open" /\ watcher # "reading"
  BY DEF Die
<1>3. \A d \in Death : fate'[d] = IF d = e THEN f ELSE fate[d]
  BY <1>2 DEF StreamInv, TypeOK
<1>4. pipe \in Seq(Death) /\ HoldsOnce(pipe, Piped) /\ e \notin Piped
  BY <1>1 DEF StreamInv, TypeOK, LinesKept, Piped
<1>5. pipe' \in Seq(Death) /\ HoldsOnce(pipe', Piped')
  <2>1. CASE f = "piped"
    <3>1. Piped' = Piped \union {e}
      BY <1>3, <2>1 DEF Piped
    <3> QED
      BY <1>2, <1>4, <2>1, <3>1, AppendHolds
  <2>2. CASE f # "piped"
    <3>1. Piped' = Piped
      BY <1>1, <1>3, <2>2 DEF Piped
    <3> QED
      BY <1>2, <1>4, <2>2, <3>1
  <2> QED
    BY <2>1, <2>2
<1>6. TypeOK'
  <2>1. fate' \in [Death -> Fate]
    BY <1>2 DEF StreamInv, TypeOK, Fate
  <2> QED
    BY <1>1, <1>5, <2>1 DEF StreamInv, TypeOK, envVars
<1>7. DeathCapturedOnce'
  BY <1>1, <1>3 DEF StreamInv, DeathCapturedOnce
<1>8. OverlongMet => OverlongMet'
  BY <1>1, <1>3, DeathAssumption DEF OverlongMet
<1>9. f = "lost" => OverlongMet
  BY <1>2 DEF StreamInv, ChildWatched
<1>10. LinesKept'
  BY <1>1, <1>2, <1>3, <1>5, <1>8, <1>9 DEF StreamInv, LinesKept
<1>11. ChildWatched'
  BY <1>1, <1>8 DEF StreamInv, ChildWatched
<1> QED
  BY <1>6, <1>7, <1>10, <1>11 DEF StreamInv

LEMMA StreamStep == StreamInv /\ [Next]_vars => StreamInv'
<1> SUFFICES ASSUME StreamInv, [Next]_vars PROVE StreamInv'
  OBVIOUS
<1>0. /\ onExit \in BOOLEAN /\ daemon \in BOOLEAN /\ agent \in {"up", "stopping", "exited"}
      /\ watcher \in {"checking", "sleeping", "starting", "reading", "reaping", "pausing",
                      "stopped"}
      /\ child \in {"none", "connecting", "open", "ended"}
      /\ pipe # <<>> => watcher = "reading"
  BY DEF StreamInv, TypeOK, LinesKept
<1>1. CASE Check \/ Continue \/ Stop \/ StartFails
  <2>1. /\ watcher \in {"checking", "sleeping", "starting", "pausing"}
        /\ watcher' \in {"checking", "sleeping", "starting", "pausing", "stopped"}
        /\ UNCHANGED <<envVars, child, lineVars>>
    BY <1>1 DEF Check, Continue, Stop, StartFails, AfterError, Goto
  <2>2. child \notin {"connecting", "open"}
    BY <2>1 DEF StreamInv, ChildWatched
  <2> QED
    BY <1>0, <2>1, <2>2, AsideKeeps DEF envVars
<1>2. CASE Start
  BY <1>0, <1>2, AsideKeeps DEF Start, Goto, envVars
<1>3. CASE ReadDeath
  <2>1. Head(pipe) \in Death /\ captures[Head(pipe)] = 0
    BY <1>3, HeadFacts DEF ReadDeath
  <2>2. captures' = [captures EXCEPT ![Head(pipe)] = 1]
    BY <1>3, <2>1 DEF ReadDeath
  <2> QED
    BY <1>3, <2>2, AnswerKeeps DEF ReadDeath
<1>4. CASE ReadInternal
  <2>1. Head(pipe) \in Death /\ captures[Head(pipe)] = 0
    BY <1>4, HeadFacts DEF ReadInternal
  <2>2. captures' = [captures EXCEPT ![Head(pipe)] = 0]
    BY <1>4, <2>1 DEF ReadInternal, StreamInv, TypeOK
  <2> QED
    BY <1>4, <2>2, AnswerKeeps DEF ReadInternal
<1>5. CASE ReadOverlong
  BY <1>5, ReadOverlongKeeps
<1>6. CASE Eof
  BY <1>0, <1>6, AsideKeeps DEF Eof, Goto, envVars
<1>7. CASE Reaped
  BY <1>0, <1>7, AsideKeeps DEF Reaped, AfterError, Goto, envVars
<1>8. CASE Connect \/ ChildEnds
  BY <1>0, <1>8, AsideKeeps DEF Connect, ChildEnds, envVars
<1>9. ASSUME NEW e \in Death, Die(e) PROVE StreamInv'
  BY <1>9, DieKeeps
<1>10. CASE DaemonChanges \/ Toggle
  <2>1. /\ onExit' \in BOOLEAN /\ daemon' \in BOOLEAN
        /\ UNCHANGED <<agent, watcher, child, lineVars>>
    BY <1>0, <1>10 DEF DaemonChanges, Toggle
  <2> QED
    BY <1>0, <2>1, AsideKeeps
<1>11. CASE Signal \/ Exit
  BY <1>0, <1>11, AsideKeeps DEF Signal, Exit
<1>12. CASE UNCHANGED vars
  BY <1>0, <1>12, AsideKeeps DEF vars, envVars
<1> QED
  BY <1>1, <1>2, <1>3, <1>4, <1>5, <1>6, <1>7, <1>8, <1>9, <1>10, <1>11, <1>12
     DEF Next, Watcher, Read

LEMMA StreamHolds == Spec => []StreamInv
BY StreamInit, StreamStep, PTL DEF Spec

\* Every variable of the watcher keeps its type.
THEOREM TypeCorrect == Spec => []TypeOK
<1>1. StreamInv => TypeOK
  BY DEF StreamInv
<1> QED
  BY <1>1, StreamHolds, PTL

\* A death is captured once at most, that of an internal container never.
THEOREM DeathsCapturedOnce == Spec => []DeathCapturedOnce
<1>1. StreamInv => DeathCapturedOnce
  BY DEF StreamInv
<1> QED
  BY <1>1, StreamHolds, PTL

\* Every line docker wrote is read, but for those behind an overlong one.
THEOREM LinesAreRead == Spec => []NoLineLeftBehind
BY LinesKeptIsNoLineLeftBehind, StreamHolds, PTL

----------------------------------------------------------------------------
(* KubeWatcher: types.                                                     *)

LEMMA FirstStepType ==
    ASSUME NEW on \in BOOLEAN PROVE FirstStep(on) \in {"listing", "stopped"}
BY DEF FirstStep

LEMMA KubeTypeInit == KubeInit => KubeTypeOK
<1> SUFFICES ASSUME KubeInit PROVE KubeTypeOK
  OBVIOUS
<1>1. poller \in {"listing", "walking", "waiting", "stopped"} /\ enabled \in BOOLEAN
  BY FirstStepType DEF KubeInit
<1>2. lives \in 1 .. MaxLives /\ started \in [Key -> Nat]
  BY WatcherAssumption DEF KubeInit
<1>3. /\ running \subseteq Pod /\ shown \subseteq Key
      /\ list \subseteq Key /\ seen \subseteq Key /\ reported \subseteq Key
  BY DEF KubeInit
<1>4. /\ process = "up" /\ ticked = FALSE
      /\ capture = [k \in Key |-> "none"] /\ procs = [k \in Key |-> "none"]
  BY DEF KubeInit
<1> QED
  BY <1>1, <1>2, <1>3, <1>4 DEF KubeTypeOK

\* What kctl's helper returns for a process list, placeholder or not.
LEMMA ProcessListType ==
    ASSUME NEW p, NEW entered \in BOOLEAN
    PROVE  ProcessList(p, entered) \in {"table", "error", "placeholder"}
BY DEF ProcessList

LEMMA KubeTypeStep == KubeTypeOK /\ [KubeNext]_kubeVars => KubeTypeOK'
<1> SUFFICES ASSUME KubeTypeOK, [KubeNext]_kubeVars PROVE KubeTypeOK'
  OBVIOUS
<1> USE WatcherAssumption
        DEF KubeTypeOK, clusterVars, processVars, pollerVars, captureVars, history, Alive
<1>1. ASSUME NEW p \in Pod, Change(p) PROVE KubeTypeOK'
  BY <1>1 DEF Change
<1>2. CASE List
  BY <1>2 DEF List
<1>3. CASE ListFails
  BY <1>3 DEF ListFails
<1>4. ASSUME NEW k \in Key, Look(k) PROVE KubeTypeOK'
  <2>1. CASE k \in seen
    BY <1>4, <2>1 DEF Look
  <2>2. CASE k \notin seen
    BY <1>4, <2>2 DEF Look, Begin
  <2> QED
    BY <2>1, <2>2
<1>5. CASE EndWalk
  BY <1>5 DEF EndWalk
<1>6. CASE Wake
  BY <1>6 DEF Wake
<1>7. CASE StopPolling \/ Poll
  BY <1>7 DEF StopPolling, Poll
<1>8. ASSUME NEW k \in Key, ReadProcesses(k) PROVE KubeTypeOK'
  <2>1. PICK entered \in BOOLEAN :
           procs' = [procs EXCEPT ![k] = ProcessList(PodOf[k], entered)]
    BY <1>8 DEF ReadProcesses
  <2>2. ProcessList(PodOf[k], entered) \in {"table", "error", "placeholder"}
    BY ProcessListType
  <2>3. procs' \in [Key -> {"none", "table", "error", "placeholder"}]
    BY <2>1, <2>2
  <2> QED
    BY <1>8, <2>3 DEF ReadProcesses
<1>9. ASSUME NEW k \in Key, Store(k) \/ Fail(k) PROVE KubeTypeOK'
  BY <1>9 DEF Store, Fail
<1>10. CASE Interrupt \/ EndProcess
  BY <1>10 DEF Interrupt, EndProcess
<1>11. CASE Restart
  <2>1. enabled' \in BOOLEAN /\ poller' \in {"listing", "walking", "waiting", "stopped"}
    BY <1>11, FirstStepType DEF Restart
  <2>2. lives' \in 1 .. MaxLives /\ started' \in [Key -> Nat]
    BY <1>11 DEF Restart
  <2> QED
    BY <1>11, <2>1, <2>2 DEF Restart
<1>12. CASE UNCHANGED kubeVars
  BY <1>12 DEF kubeVars
<1> QED
  BY <1>1, <1>2, <1>3, <1>4, <1>5, <1>6, <1>7, <1>8, <1>9, <1>10, <1>11, <1>12
     DEF KubeNext, Poller, Capture

\* Every variable of the watcher keeps its type.
THEOREM KubeTypeCorrect == KubeSpec => []KubeTypeOK
BY KubeTypeInit, KubeTypeStep, PTL DEF KubeSpec

----------------------------------------------------------------------------
(* What the walk relies on: one counted capture per key in the map, and no *)
(* key of any list outside the map and the list in hand.                   *)

WatchInv == KubeTypeOK /\ OncePerLife /\ NothingOverlooked

LEMMA WatchInit == KubeInit => WatchInv
BY KubeTypeInit DEF KubeInit, WatchInv, OncePerLife, NothingOverlooked

\* Steps that leave map, list and history alone, and do not end a walk.
LEMMA PollerAsideKeeps ==
    ASSUME WatchInv, UNCHANGED <<seen, list, history>>,
           poller' \in {"waiting", "listing"} => poller \in {"waiting", "listing"}
    PROVE  OncePerLife' /\ NothingOverlooked'
BY DEF WatchInv, OncePerLife, NothingOverlooked, history

LEMMA WatchStep == WatchInv /\ [KubeNext]_kubeVars => WatchInv'
<1> SUFFICES ASSUME WatchInv, [KubeNext]_kubeVars PROVE WatchInv'
  OBVIOUS
<1>0. KubeTypeOK /\ KubeTypeOK'
  BY KubeTypeStep DEF WatchInv
<1> SUFFICES OncePerLife' /\ NothingOverlooked'
  BY <1>0 DEF WatchInv
<1>1. ASSUME NEW p \in Pod, Change(p) PROVE OncePerLife' /\ NothingOverlooked'
  BY <1>1, PollerAsideKeeps DEF Change, pollerVars
<1>2. CASE List
  \* The list in hand was used up, so that nothing is lost when it is replaced.
  <2>1. list = {} /\ list' = shown /\ reported' = reported \union shown
    BY <1>2 DEF List, WatchInv, NothingOverlooked
  <2>2. reported' \subseteq seen' \union list'
    BY <1>2, <2>1 DEF List, WatchInv, NothingOverlooked
  <2> QED
    BY <1>2, <2>2 DEF List, WatchInv, OncePerLife, NothingOverlooked
<1>3. CASE ListFails \/ Wake \/ StopPolling \/ Poll
  BY <1>3, PollerAsideKeeps DEF ListFails, Wake, StopPolling, Poll
<1>4. ASSUME NEW k \in Key, Look(k) PROVE OncePerLife' /\ NothingOverlooked'
  <2>1. CASE k \in seen
    BY <1>4, <2>1 DEF Look, WatchInv, OncePerLife, NothingOverlooked
  <2>2. CASE k \notin seen
    <3>1. /\ seen' = seen \union {k} /\ list' = list \ {k}
          /\ started' = [started EXCEPT ![k] = @ + 1]
          /\ reported' = reported /\ poller' = "walking"
      BY <1>4, <2>2 DEF Look, Begin
    <3>2. started[k] = 0
      BY <2>2 DEF WatchInv, OncePerLife
    <3>3. OncePerLife'
      BY <1>0, <3>1, <3>2 DEF WatchInv, OncePerLife, KubeTypeOK
    <3>4. NothingOverlooked'
      BY <3>1 DEF WatchInv, NothingOverlooked
    <3> QED
      BY <3>3, <3>4
  <2> QED
    BY <2>1, <2>2
<1>5. CASE EndWalk
  BY <1>5 DEF EndWalk, WatchInv, OncePerLife, NothingOverlooked, history
<1>6. ASSUME NEW k \in Key, Capture(k) PROVE OncePerLife' /\ NothingOverlooked'
  BY <1>6, PollerAsideKeeps DEF Capture, ReadProcesses, Store, Fail, pollerVars
<1>7. CASE Interrupt \/ EndProcess
  BY <1>7, PollerAsideKeeps DEF Interrupt, EndProcess, pollerVars
<1>8. CASE Restart
  BY <1>8 DEF Restart, OncePerLife, NothingOverlooked
<1>9. CASE UNCHANGED kubeVars
  BY <1>9, PollerAsideKeeps DEF kubeVars, pollerVars
<1> QED
  BY <1>1, <1>2, <1>3, <1>4, <1>5, <1>6, <1>7, <1>8, <1>9 DEF KubeNext, Poller

LEMMA WatchHolds == KubeSpec => []WatchInv
BY WatchInit, WatchStep, PTL DEF KubeSpec

\* In one life of the agent no anomaly is captured twice, and none is in the map
\* without its capture, for any pods and any changes of the cluster.
THEOREM AnomaliesCapturedOnce == KubeSpec => []OncePerLife
<1>1. WatchInv => OncePerLife
  BY DEF WatchInv
<1> QED
  BY <1>1, WatchHolds, PTL

\* No anomaly kubectl reported is passed over by the walk.
THEOREM NoneOverlooked == KubeSpec => []NothingOverlooked
<1>1. WatchInv => NothingOverlooked
  BY DEF WatchInv
<1> QED
  BY <1>1, WatchHolds, PTL
=============================================================================
