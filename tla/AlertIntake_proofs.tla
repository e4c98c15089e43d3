------------------------- MODULE AlertIntake_proofs -------------------------
(***************************************************************************)
(* Proofs about AlertIntake, for any alerts, any window and any lag that   *)
(* TimeAssumption admits.                                                  *)
(***************************************************************************)
EXTENDS AlertIntake, TLAPS

LEMMA KeepNat == Keep \in Nat
BY TimeAssumption DEF Keep

LEMMA TypeStep == TypeOK /\ [Next]_vars => TypeOK'
<1> SUFFICES ASSUME TypeOK, [Next]_vars PROVE TypeOK'
  OBVIOUS
<1> USE DEF TypeOK, Stage
<1>1. ASSUME NEW a \in Alert, RejectRequest(a) \/ SkipAlert(a) \/ HandOn(a) PROVE TypeOK'
  BY <1>1 DEF RejectRequest, SkipAlert, HandOn
<1>2. ASSUME NEW a \in Alert, ReadClock(a) PROVE TypeOK'
  BY <1>2 DEF ReadClock
<1>3. ASSUME NEW a \in Alert, Suppress(a) \/ LogReceived(a) PROVE TypeOK'
  BY <1>3 DEF Suppress, LogReceived
<1>4. ASSUME NEW a \in Alert, Accept(a) PROVE TypeOK'
  <2>1. CASE stamp[a] \in Time \union {NoTime}
    BY <1>4, <2>1 DEF Accept, Noted
  <2> QED
    BY <2>1
<1>5. CASE Tick
  BY <1>5, TimeAssumption DEF Tick, Time
<1>6. CASE UNCHANGED vars
  BY <1>6 DEF vars
<1> QED
  BY <1>1, <1>2, <1>3, <1>4, <1>5, <1>6 DEF Next, Handler

\* Every variable keeps its type.
THEOREM TypeCorrect == Spec => []TypeOK
<1>1. Init => TypeOK
  BY TimeAssumption DEF Init, TypeOK, Stage, Time
<1> QED
  BY <1>1, TypeStep, PTL DEF Spec

----------------------------------------------------------------------------
(* The inductive invariant.                                                *)

Timed == {"timed", "accepted", "suppressed", "logged"}

\* Readings lie in the past, and recent ones are not further back than MaxLag.
Readings ==
    \A a \in Alert :
        /\ stage[a] \in Timed \union {"handed"} => KeyOf[a] \in Key
        /\ stage[a] \in Timed => stamp[a] \in Time /\ stamp[a] <= now
        /\ stage[a] = "timed" => now - stamp[a] <= MaxLag

\* An entry of the map is the reading of an accepted alert.
EntryOwned ==
    \A k \in Key : lastSeen[k] # NoTime =>
        \E b \in Accepted : KeyOf[b] = k /\ stamp[b] = lastSeen[k]

\* The map remembers the latest accepted alert of a key, or forgot it only
\* after Keep.
EntryLatest ==
    \A b \in Accepted :
        IF lastSeen[KeyOf[b]] # NoTime THEN stamp[b] <= lastSeen[KeyOf[b]]
        ELSE now > stamp[b] + Keep

DedupInv ==
    /\ TypeOK
    /\ Readings
    /\ EntryOwned
    /\ EntryLatest
    /\ WindowRespected
    /\ SuppressedJustified

\* Steps that accept nobody, take no reading and leave map and clock alone.
LEMMA QuietStep ==
    ASSUME DedupInv, NEW a \in Alert,
           RejectRequest(a) \/ SkipAlert(a) \/ HandOn(a) \/ LogReceived(a)
    PROVE  Readings' /\ EntryOwned' /\ EntryLatest' /\ WindowRespected' /\ SuppressedJustified'
<1> USE DEF DedupInv, TypeOK
<1>1. UNCHANGED <<now, stamp, lastSeen>>
  BY DEF RejectRequest, SkipAlert, HandOn, LogReceived
<1>2. Accepted' = Accepted
  BY DEF RejectRequest, SkipAlert, HandOn, LogReceived, Accepted
<1>3. \A b \in Alert : stage'[b] \in {"timed", "suppressed"} => stage'[b] = stage[b]
  BY DEF RejectRequest, SkipAlert, HandOn, LogReceived
<1>4. \A b \in Alert : stage'[b] \in Timed => stage[b] \in Timed
  BY DEF RejectRequest, SkipAlert, HandOn, LogReceived, Timed
<1>5. \A b \in Alert : stage'[b] = "handed" => KeyOf[b] \in Key
  BY AlertAssumption DEF RejectRequest, SkipAlert, HandOn, LogReceived, Readings
<1>6. Readings'
  BY <1>1, <1>3, <1>4, <1>5 DEF Readings, Timed
<1>7. EntryOwned' /\ EntryLatest' /\ WindowRespected'
  BY <1>1, <1>2 DEF EntryOwned, EntryLatest, WindowRespected
<1>8. SuppressedJustified'
  BY <1>1, <1>2, <1>3 DEF SuppressedJustified, NearAccepted
<1> QED
  BY <1>6, <1>7, <1>8

LEMMA ReadStep ==
    ASSUME DedupInv, NEW a \in Alert, ReadClock(a)
    PROVE  Readings' /\ EntryOwned' /\ EntryLatest' /\ WindowRespected' /\ SuppressedJustified'
<1> USE DEF DedupInv, TypeOK
<1>1. UNCHANGED <<now, lastSeen>> /\ Accepted' = Accepted /\ a \notin Accepted
  BY DEF ReadClock, Accepted
<1>2. \A b \in Alert \ {a} : stamp'[b] = stamp[b] /\ stage'[b] = stage[b]
  BY DEF ReadClock
<1>3. stage[a] = "handed" /\ stage'[a] = "timed" /\ stamp'[a] = now
  BY DEF ReadClock
<1>4. Readings'
  BY <1>1, <1>2, <1>3, TimeAssumption DEF Readings, Timed, Time
<1>5. \A b \in Accepted : stamp'[b] = stamp[b]
  BY <1>1, <1>2 DEF Accepted
<1>6. EntryOwned' /\ EntryLatest' /\ WindowRespected'
  BY <1>1, <1>5 DEF EntryOwned, EntryLatest, WindowRespected
<1>7. SuppressedJustified'
  BY <1>1, <1>2, <1>3, <1>5 DEF SuppressedJustified, NearAccepted
<1> QED
  BY <1>4, <1>6, <1>7

LEMMA SuppressStep ==
    ASSUME DedupInv, NEW a \in Alert, Suppress(a)
    PROVE  Readings' /\ EntryOwned' /\ EntryLatest' /\ WindowRespected' /\ SuppressedJustified'
<1> USE DEF DedupInv, TypeOK
<1>1. UNCHANGED <<now, stamp, lastSeen>> /\ Accepted' = Accepted
  BY DEF Suppress, Accepted
<1>2. \A b \in Alert : stage'[b] = stage[b] \/ b = a
  BY DEF Suppress
<1>3. stage[a] = "timed" /\ stage'[a] = "suppressed"
  BY DEF Suppress
<1>4. Readings'
  BY <1>1, <1>2, <1>3 DEF Readings, Timed
<1>5. EntryOwned' /\ EntryLatest' /\ WindowRespected'
  BY <1>1 DEF EntryOwned, EntryLatest, WindowRespected
<1>6. NearAccepted(a)
  <2>1. /\ KeyOf[a] \in Key /\ stamp[a] \in Time /\ now - stamp[a] <= MaxLag
        /\ lastSeen[KeyOf[a]] # NoTime /\ stamp[a] - lastSeen[KeyOf[a]] < Window
    BY <1>3 DEF Readings, Timed, Suppress, IsDuplicate
  <2>2. PICK b \in Accepted : KeyOf[b] = KeyOf[a] /\ stamp[b] = lastSeen[KeyOf[a]]
    BY <2>1 DEF EntryOwned
  <2>3. stamp[b] \in Time /\ stamp[b] <= now
    BY <2>2 DEF Readings, Timed, Accepted
  <2>4. stamp[b] - stamp[a] <= MaxLag
    BY <2>1, <2>3, TimeAssumption DEF Time
  <2> QED
    BY <2>1, <2>2, <2>4 DEF NearAccepted, SameKey
<1>7. SuppressedJustified'
  BY <1>1, <1>2, <1>6 DEF SuppressedJustified, NearAccepted
<1> QED
  BY <1>4, <1>5, <1>7

\* The heart of the argument: whatever the map still knows or has forgotten,
\* the alert that is accepted was read a window after every earlier one.
LEMMA AcceptStep ==
    ASSUME DedupInv, NEW a \in Alert, Accept(a)
    PROVE  Readings' /\ EntryOwned' /\ EntryLatest' /\ WindowRespected' /\ SuppressedJustified'
<1>0. TypeOK /\ Readings /\ EntryOwned /\ EntryLatest /\ WindowRespected /\ SuppressedJustified
  BY DEF DedupInv
<1>1. UNCHANGED <<now, stamp>> /\ stage[a] = "timed" /\ stage'[a] = "accepted"
  BY <1>0 DEF Accept, TypeOK
<1>2. \A b \in Alert : stage'[b] = stage[b] \/ b = a
  BY <1>0 DEF Accept, TypeOK
<1>3. Accepted' = Accepted \union {a} /\ a \notin Accepted
  BY <1>0 DEF Accept, Accepted, TypeOK
<1>4. /\ KeyOf[a] \in Key /\ stamp[a] \in Time /\ stamp[a] <= now /\ now - stamp[a] <= MaxLag
  BY <1>0, <1>1 DEF Readings, Timed
<1>5. \A b \in Accepted : /\ KeyOf[b] \in Key /\ stamp[b] \in Time /\ stamp[b] <= now
  BY <1>0 DEF Readings, Timed, Accepted
<1>6. /\ \A k \in Key : lastSeen'[k] = Noted(k, KeyOf[a], stamp[a])
      /\ \A k \in Key : lastSeen[k] # NoTime => lastSeen[k] \in Nat
      /\ \A t \in Time : t \in Nat /\ t # NoTime
      /\ now \in Nat /\ Window \in Nat /\ MaxLag \in Nat /\ Keep \in Nat
      /\ Window + MaxLag <= Keep
  BY <1>0, TimeAssumption, KeepNat DEF Accept, Time, TypeOK
<1>a. stamp[a] \in Nat /\ \A b \in Accepted : stamp[b] \in Nat
  BY <1>4, <1>5, <1>6
<1>7. \A b \in Accepted : KeyOf[b] = KeyOf[a] => stamp[a] - stamp[b] >= Window
  <2> SUFFICES ASSUME NEW b \in Accepted, KeyOf[b] = KeyOf[a]
               PROVE  stamp[a] - stamp[b] >= Window
    OBVIOUS
  <2>1. CASE lastSeen[KeyOf[a]] # NoTime
    <3>1. ~ (stamp[a] - lastSeen[KeyOf[a]] < Window)
      BY <2>1 DEF Accept, IsDuplicate
    <3>2. stamp[b] <= lastSeen[KeyOf[a]] /\ lastSeen[KeyOf[a]] \in Nat
      BY <1>0, <1>4, <1>6, <2>1 DEF EntryLatest
    <3>3. stamp[a] \in Nat /\ stamp[b] \in Nat /\ Window \in Nat
      BY <1>6, <1>a
    <3> QED
      BY <3>1, <3>2, <3>3
  <2>2. CASE lastSeen[KeyOf[a]] = NoTime
    <3>1. now > stamp[b] + Keep
      BY <1>0, <2>2 DEF EntryLatest
    <3>2. /\ stamp[a] \in Nat /\ stamp[b] \in Nat /\ Window \in Nat /\ now \in Nat
          /\ MaxLag \in Nat /\ Keep \in Nat /\ Window + MaxLag <= Keep
          /\ now - stamp[a] <= MaxLag
      BY <1>4, <1>6, <1>a
    <3> QED
      BY <3>1, <3>2
  <2> QED
    BY <2>1, <2>2
<1>8. Readings'
  BY <1>0, <1>1, <1>2 DEF Readings, Timed
<1>9. EntryOwned'
  <2> SUFFICES ASSUME NEW k \in Key, lastSeen'[k] # NoTime
               PROVE  \E b \in Accepted' : KeyOf[b] = k /\ stamp'[b] = lastSeen'[k]
    BY DEF EntryOwned
  <2>1. CASE k = KeyOf[a]
    BY <1>1, <1>3, <1>6, <2>1 DEF Noted
  <2>2. CASE k # KeyOf[a]
    <3>1. lastSeen'[k] = lastSeen[k]
      BY <1>6, <2>2 DEF Noted
    <3> QED
      BY <1>0, <1>1, <1>3, <3>1 DEF EntryOwned
  <2> QED
    BY <2>1, <2>2
<1>10. EntryLatest'
  <2> SUFFICES ASSUME NEW b \in Accepted'
               PROVE  IF lastSeen'[KeyOf[b]] # NoTime THEN stamp[b] <= lastSeen'[KeyOf[b]]
                      ELSE now > stamp[b] + Keep
    BY <1>1 DEF EntryLatest
  <2>1. CASE KeyOf[b] = KeyOf[a]
    <3>1. lastSeen'[KeyOf[b]] = stamp[a] /\ stamp[a] # NoTime
      BY <1>4, <1>6, <2>1 DEF Noted
    <3>2. stamp[b] <= stamp[a]
      <4>1. CASE b = a
        BY <1>a, <4>1
      <4>2. CASE b \in Accepted
        <5>1. stamp[a] - stamp[b] >= Window
          BY <1>7, <2>1, <4>2
        <5>2. stamp[a] \in Nat /\ stamp[b] \in Nat /\ Window \in Nat
          BY <1>6, <1>a, <4>2
        <5> QED
          BY <5>1, <5>2
      <4> QED
        BY <1>3, <4>1, <4>2
    <3> QED
      BY <3>1, <3>2
  <2>2. CASE KeyOf[b] # KeyOf[a]
    <3>1. b \in Accepted /\ KeyOf[b] \in Key
      BY <1>3, <1>5, <2>2
    <3>2. CASE lastSeen'[KeyOf[b]] = lastSeen[KeyOf[b]]
      BY <1>0, <3>1, <3>2 DEF EntryLatest
    <3>3. CASE lastSeen'[KeyOf[b]] # lastSeen[KeyOf[b]]
      <4>1. /\ lastSeen'[KeyOf[b]] = NoTime
            /\ lastSeen[KeyOf[b]] # NoTime /\ stamp[a] - lastSeen[KeyOf[b]] > Keep
        BY <1>6, <2>2, <3>1, <3>3 DEF Noted
      <4>2. stamp[b] <= lastSeen[KeyOf[b]] /\ lastSeen[KeyOf[b]] \in Nat
        BY <1>0, <1>6, <3>1, <4>1 DEF EntryLatest
      <4>3. now > stamp[b] + Keep
        <5>1. /\ now \in Nat /\ Keep \in Nat /\ stamp[a] \in Nat /\ stamp[b] \in Nat
              /\ stamp[a] <= now
          BY <1>4, <1>6, <1>a, <3>1
        <5> QED
          BY <4>1, <4>2, <5>1
      <4> QED
        BY <4>1, <4>3
    <3> QED
      BY <3>2, <3>3
  <2> QED
    BY <2>1, <2>2
<1>11. WindowRespected'
  BY <1>0, <1>1, <1>3, <1>7 DEF WindowRespected, SameKey
<1>12. SuppressedJustified'
  BY <1>0, <1>1, <1>2, <1>3 DEF SuppressedJustified, NearAccepted
<1> QED
  BY <1>8, <1>9, <1>10, <1>11, <1>12

LEMMA TickStep ==
    ASSUME DedupInv, Tick
    PROVE  Readings' /\ EntryOwned' /\ EntryLatest' /\ WindowRespected' /\ SuppressedJustified'
<1>0. Readings
  BY DEF DedupInv
<1> USE DEF DedupInv, TypeOK
<1>1. UNCHANGED <<stage, stamp, lastSeen>> /\ now' = now + 1 /\ Accepted' = Accepted
  BY DEF Tick, Accepted
<1>2. \A a \in Alert : stage[a] = "timed" => now - stamp[a] < MaxLag
  BY DEF Tick
<1>3. now \in Nat /\ MaxLag \in Nat /\ Keep \in Nat /\ \A t \in Time : t \in Nat
  BY TimeAssumption, KeepNat DEF Time
<1>4. Readings'
  <2> HIDE DEF DedupInv, TypeOK
  <2> SUFFICES ASSUME NEW a \in Alert
               PROVE  (/\ stage[a] \in Timed \union {"handed"} => KeyOf[a] \in Key
                       /\ stage[a] \in Timed => stamp[a] \in Time /\ stamp[a] <= now
                       /\ stage[a] = "timed" => now - stamp[a] <= MaxLag)'
    BY DEF Readings
  <2>1. /\ stage[a] \in Timed \union {"handed"} => KeyOf[a] \in Key
        /\ stage[a] \in Timed => stamp[a] \in Time /\ stamp[a] <= now
    BY <1>0 DEF Readings
  <2>2. CASE stage[a] \in Timed
    <3>1. stamp[a] \in Nat /\ now \in Nat /\ MaxLag \in Nat /\ stamp[a] <= now
      BY <1>3, <2>1, <2>2
    <3>2. stage[a] = "timed" => now - stamp[a] < MaxLag
      BY <1>2
    <3>3. stamp[a] <= now + 1
      BY <3>1
    <3>4. ASSUME stage[a] = "timed" PROVE now + 1 - stamp[a] <= MaxLag
      <4>1. now - stamp[a] < MaxLag
        BY <3>2, <3>4
      <4> QED
        BY <3>1, <4>1
    <3>5. stage' = stage /\ stamp' = stamp /\ now' = now + 1
      BY <1>1
    <3>6. stamp'[a] <= now' /\ (stage'[a] = "timed" => now' - stamp'[a] <= MaxLag)
      BY <3>1, <3>3, <3>4, <3>5
    <3> QED
      BY <2>1, <2>2, <3>5, <3>6
  <2>3. CASE stage[a] \notin Timed
    BY <1>1, <2>1, <2>3 DEF Timed
  <2> QED
    BY <2>2, <2>3
<1>5. EntryLatest'
  <2>1. \A b \in Accepted : stamp[b] \in Nat
    BY <1>3 DEF Readings, Accepted, Timed
  <2> QED
    BY <1>1, <1>3, <2>1 DEF EntryLatest
<1>6. EntryOwned' /\ WindowRespected' /\ SuppressedJustified'
  BY <1>1 DEF EntryOwned, WindowRespected, SuppressedJustified, NearAccepted
<1> QED
  BY <1>4, <1>5, <1>6

LEMMA DedupStep == DedupInv /\ [Next]_vars => DedupInv'
<1> SUFFICES ASSUME DedupInv, [Next]_vars PROVE DedupInv'
  OBVIOUS
<1>1. TypeOK'
  BY TypeStep DEF DedupInv
<1>2. CASE UNCHANGED vars
  BY <1>1, <1>2 DEF vars, DedupInv, Readings, EntryOwned, EntryLatest, WindowRespected,
     SuppressedJustified, NearAccepted, Accepted
<1> QED
  BY <1>1, <1>2, QuietStep, ReadStep, SuppressStep, AcceptStep, TickStep
     DEF Next, Handler, DedupInv

LEMMA DedupInit == Init => DedupInv
BY TimeAssumption DEF Init, DedupInv, TypeOK, Stage, Time, Readings, Timed, EntryOwned,
   EntryLatest, WindowRespected, SuppressedJustified, Accepted

\* Two accepted alerts of one rule and container are a window apart.
THEOREM WindowIsRespected == Spec => []WindowRespected
BY DedupInit, DedupStep, PTL DEF Spec, DedupInv

\* Every suppressed alert has an accepted one of its rule and container nearby.
THEOREM SuppressionIsJustified == Spec => []SuppressedJustified
BY DedupInit, DedupStep, PTL DEF Spec, DedupInv
=============================================================================
