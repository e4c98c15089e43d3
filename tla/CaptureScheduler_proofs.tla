---------------------- MODULE CaptureScheduler_proofs ----------------------
(***************************************************************************)
(* Proofs about CaptureScheduler, for any requests, any capacity of the    *)
(* channel and any intervals.                                              *)
(***************************************************************************)
EXTENDS CaptureScheduler, TLAPS

\* What Append and Take do to a queue.
LEMMA AppendFacts ==
    ASSUME NEW q \in Seq(Request), NEW r \in Request
    PROVE  /\ Append(q, r) \in Seq(Request)
           /\ Len(Append(q, r)) = Len(q) + 1
           /\ \A i \in 1 .. Len(q) : Append(q, r)[i] = q[i]
           /\ Append(q, r)[Len(q) + 1] = r
OBVIOUS

LEMMA TakeFacts ==
    ASSUME NEW q \in Seq(Request), q # <<>>
    PROVE  /\ Head(q) \in Request /\ Head(q) = q[1]
           /\ Tail(q) \in Seq(Request)
           /\ Len(Tail(q)) = Len(q) - 1 /\ Len(q) \in Nat \ {0}
           /\ \A i \in 1 .. Len(q) - 1 : Tail(q)[i] = q[i + 1]
OBVIOUS

----------------------------------------------------------------------------
(* Types.                                                                  *)

LEMMA TypeStep == TypeOK /\ [Next]_vars => TypeOK'
<1> SUFFICES ASSUME TypeOK, [Next]_vars PROVE TypeOK'
  OBVIOUS
<1> USE SchedulerAssumption DEF TypeOK, Place, modeVars, schedVars, MinInterval
<1>1. ASSUME NEW r \in Request, Receive(r) \/ ReadScheduled(r) \/ Drop(r) \/ FinishNow(r)
      PROVE  TypeOK'
  BY <1>1 DEF Receive, ReadScheduled, Drop, FinishNow, Move
<1>2. ASSUME NEW r \in Request, RunNow(r) PROVE TypeOK'
  BY <1>2 DEF RunNow, Move
<1>3. ASSUME NEW r \in Request, Enqueue(r) PROVE TypeOK'
  BY <1>3, AppendFacts DEF Enqueue, Move
<1>4. CASE Wake
  <2>1. CASE enabled /\ since >= interval
    <3>1. sched' = "draining" /\ since' = 0 /\ ticked' = FALSE
      BY <1>4, <2>1 DEF Wake
    <3>2. UNCHANGED <<enabled, interval, place, captures, queue, job, agent>>
      BY <1>4 DEF Wake
    <3>3. 0 \in 0 .. Longest
      OBVIOUS
    <3> QED
      BY <3>1, <3>2, <3>3
  <2>2. CASE ~ (enabled /\ since >= interval)
    BY <1>4, <2>2 DEF Wake
  <2> QED
    BY <2>1, <2>2
<1>5. CASE Take
  <2>1. queue \in Seq(Request) /\ queue # <<>>
    BY <1>5 DEF Take
  <2>2. Head(queue) \in Request /\ Tail(queue) \in Seq(Request)
    BY <2>1, TakeFacts
  <2> QED
    BY <1>5, <2>2 DEF Take, Move
<1>6. CASE FinishJob
  BY <1>6 DEF FinishJob, Move
<1>7. CASE EndBatch \/ Stop \/ Signal \/ Exit
  BY <1>7 DEF EndBatch, Stop, Signal, Exit
<1>8. CASE UpdateSchedule
  BY <1>8 DEF UpdateSchedule
<1>9. CASE Poll
  BY <1>9 DEF Poll
<1>10. CASE UNCHANGED vars
  BY <1>10 DEF vars
<1> QED
  BY <1>1, <1>2, <1>3, <1>4, <1>5, <1>6, <1>7, <1>8, <1>9, <1>10 DEF Next, Handler, Scheduler

LEMMA TypeInit == Init => TypeOK
<1> SUFFICES ASSUME Init PROVE TypeOK
  OBVIOUS
<1>1. interval \in MinInterval .. Longest /\ since \in 0 .. Longest
  BY SchedulerAssumption DEF Init, MinInterval
<1>2. queue \in Seq(Request)
  BY DEF Init
<1>3. /\ enabled \in BOOLEAN
      /\ place \in [Request -> Place] /\ captures \in [Request -> Nat]
      /\ sched = "waiting" /\ job = NoJob /\ ticked = FALSE /\ agent = "up"
  BY DEF Init, Place
<1> QED
  BY <1>1, <1>2, <1>3 DEF TypeOK

\* Every variable keeps its type.
THEOREM TypeCorrect == Spec => []TypeOK
BY TypeInit, TypeStep, PTL DEF Spec

----------------------------------------------------------------------------
(* The inductive invariant: place, counter and channel agree, and the      *)
(* scheduler has a job exactly while it is capturing.                      *)

JobRuns ==
    /\ sched = "capturing" <=> job # NoJob
    /\ job # NoJob => place[job] = "running"

ChannelInv == TypeOK /\ JobRuns /\ CapturedOnce /\ QueueExact

\* A step that moves one request between places off the channel, and counts a
\* capture exactly if it starts one.
LEMMA MoveKeeps ==
    ASSUME ChannelInv, TypeOK', NEW r \in Request, NEW p \in Place, Move(r, p),
           queue' = queue, place[r] # "queued", p # "queued",
           captures' = [captures EXCEPT ![r] = IF p \in {"running", "captured"} THEN 1 ELSE 0]
    PROVE  CapturedOnce' /\ QueueExact'
<1> USE DEF ChannelInv, TypeOK, Move
<1>1. \A s \in Request : place'[s] = IF s = r THEN p ELSE place[s]
  OBVIOUS
<1>2. \A s \in Request :
         captures'[s] = IF s = r THEN (IF p \in {"running", "captured"} THEN 1 ELSE 0)
                        ELSE captures[s]
  OBVIOUS
<1>3. CapturedOnce'
  BY <1>1, <1>2 DEF CapturedOnce
<1>4. \A s \in Request : place'[s] = "queued" <=> place[s] = "queued"
  BY <1>1
<1>5. QueueExact'
  BY <1>4 DEF QueueExact
<1> QED
  BY <1>3, <1>5

LEMMA EnqueueKeeps ==
    ASSUME ChannelInv, NEW r \in Request, Enqueue(r)
    PROVE  CapturedOnce' /\ QueueExact'
<1> USE DEF ChannelInv, TypeOK
<1>1. /\ \A s \in Request : place'[s] = IF s = r THEN "queued" ELSE place[s]
      /\ captures' = captures /\ queue' = Append(queue, r)
      /\ place[r] = "bound" /\ Len(queue) < Capacity
  BY DEF Enqueue, Move
<1>2. CapturedOnce'
  BY <1>1 DEF CapturedOnce
<1>3. /\ Len(queue) \in Nat /\ Len(queue') = Len(queue) + 1
      /\ \A i \in 1 .. Len(queue) : queue'[i] = queue[i]
      /\ queue'[Len(queue) + 1] = r
  BY <1>1, AppendFacts
<1>4. Len(queue') <= Capacity
  BY <1>1, <1>3, SchedulerAssumption
<1>5. \A i \in 1 .. Len(queue) : queue[i] # r
  BY <1>1 DEF QueueExact
<1>6. ASSUME NEW s \in Request
      PROVE  place'[s] = "queued" <=> \E i \in 1 .. Len(queue') : queue'[i] = s
  <2>1. CASE s = r
    <3>1. Len(queue) + 1 \in 1 .. Len(queue')
      BY <1>3
    <3> QED
      BY <1>1, <1>3, <2>1, <3>1
  <2>2. CASE s # r
    <3>1. place'[s] = "queued" <=> \E i \in 1 .. Len(queue) : queue[i] = s
      BY <1>1, <2>2 DEF QueueExact
    <3>2. ASSUME NEW i \in 1 .. Len(queue'), queue'[i] = s PROVE i \in 1 .. Len(queue)
      BY <1>3, <2>2, <3>2
    <3>3. \A i \in 1 .. Len(queue) : i \in 1 .. Len(queue')
      BY <1>3
    <3> QED
      BY <1>3, <3>1, <3>2, <3>3
  <2> QED
    BY <2>1, <2>2
<1>7. ASSUME NEW i \in 1 .. Len(queue'), NEW j \in 1 .. Len(queue'), queue'[i] = queue'[j]
      PROVE  i = j
  <2>1. i \in 1 .. Len(queue) \/ i = Len(queue) + 1
    BY <1>3
  <2>2. j \in 1 .. Len(queue) \/ j = Len(queue) + 1
    BY <1>3
  <2>3. CASE i \in 1 .. Len(queue) /\ j \in 1 .. Len(queue)
    <3>1. queue[i] = queue[j]
      BY <1>3, <1>7, <2>3
    <3> QED
      BY <2>3, <3>1 DEF QueueExact
  <2> QED
    BY <1>3, <1>5, <1>7, <2>1, <2>2, <2>3
<1> QED
  BY <1>2, <1>4, <1>6, <1>7 DEF QueueExact

LEMMA TakeKeeps ==
    ASSUME ChannelInv, Take
    PROVE  CapturedOnce' /\ QueueExact'
<1> DEFINE h == Head(queue)
<1> USE DEF ChannelInv, TypeOK
<1>1. /\ queue # <<>> /\ queue' = Tail(queue)
      /\ place' = [place EXCEPT ![h] = "running"]
      /\ captures' = [captures EXCEPT ![h] = @ + 1]
  BY DEF Take, Move
<1>2. /\ h \in Request /\ h = queue[1] /\ Len(queue) \in Nat \ {0}
      /\ Len(queue') = Len(queue) - 1
      /\ \A i \in 1 .. Len(queue') : queue'[i] = queue[i + 1]
  BY <1>1, TakeFacts
<1> HIDE DEF h
<1>3. 1 \in 1 .. Len(queue) /\ \A i \in 1 .. Len(queue') : i + 1 \in 1 .. Len(queue)
  BY <1>2
<1>4. place[h] = "queued"
  BY <1>2, <1>3 DEF QueueExact
<1>5. CapturedOnce'
  BY <1>1, <1>2, <1>4 DEF CapturedOnce
<1>6. \A i \in 1 .. Len(queue') : queue'[i] # h
  <2> SUFFICES ASSUME NEW i \in 1 .. Len(queue'), queue[i + 1] = queue[1] PROVE FALSE
    BY <1>2
  <2>1. i + 1 = 1
    BY <1>3 DEF QueueExact
  <2> QED
    BY <1>2, <2>1
<1>7. ASSUME NEW s \in Request
      PROVE  place'[s] = "queued" <=> \E i \in 1 .. Len(queue') : queue'[i] = s
  <2>1. CASE s = h
    BY <1>1, <1>2, <1>6, <2>1
  <2>2. CASE s # h
    <3>1. place'[s] = "queued" <=> \E i \in 1 .. Len(queue) : queue[i] = s
      BY <1>1, <2>2 DEF QueueExact
    <3>2. ASSUME NEW i \in 1 .. Len(queue), queue[i] = s
          PROVE  \E j \in 1 .. Len(queue') : queue'[j] = s
      <4>1. i # 1
        BY <1>2, <2>2, <3>2
      <4>2. i - 1 \in 1 .. Len(queue') /\ queue'[i - 1] = queue[(i - 1) + 1] /\ (i - 1) + 1 = i
        BY <1>2, <4>1
      <4> QED
        BY <3>2, <4>2
    <3>3. ASSUME NEW i \in 1 .. Len(queue'), queue'[i] = s
          PROVE  \E j \in 1 .. Len(queue) : queue[j] = s
      BY <1>2, <1>3, <3>3
    <3> QED
      BY <3>1, <3>2, <3>3
  <2> QED
    BY <2>1, <2>2
<1>8. ASSUME NEW i \in 1 .. Len(queue'), NEW j \in 1 .. Len(queue'), queue'[i] = queue'[j]
      PROVE  i = j
  <2>1. queue[i + 1] = queue[j + 1]
    BY <1>2, <1>8
  <2>2. i + 1 = j + 1
    BY <1>3, <2>1 DEF QueueExact
  <2> QED
    BY <2>2
<1>9. Len(queue') <= Capacity
  BY <1>2, SchedulerAssumption DEF QueueExact
<1> QED
  BY <1>5, <1>7, <1>8, <1>9 DEF QueueExact

LEMMA JobStep == ChannelInv /\ [Next]_vars => JobRuns'
<1> SUFFICES ASSUME ChannelInv, [Next]_vars PROVE JobRuns'
  OBVIOUS
<1> USE SchedulerAssumption DEF ChannelInv, TypeOK, JobRuns, schedVars
<1>1. ASSUME NEW r \in Request,
             Receive(r) \/ ReadScheduled(r) \/ RunNow(r) \/ Enqueue(r) \/ Drop(r) \/ FinishNow(r)
      PROVE  JobRuns'
  BY <1>1 DEF Receive, ReadScheduled, RunNow, Enqueue, Drop, FinishNow, Move
<1>2. CASE Take
  <2>1. Head(queue) \in Request
    BY <1>2, TakeFacts DEF Take
  <2> QED
    BY <1>2, <2>1 DEF Take, Move
<1>3. CASE FinishJob
  BY <1>3 DEF FinishJob, Move
<1>4. CASE Wake \/ EndBatch \/ Stop \/ UpdateSchedule \/ Poll \/ Signal \/ Exit
  BY <1>4 DEF Wake, EndBatch, Stop, UpdateSchedule, Poll, Signal, Exit
<1>5. CASE UNCHANGED vars
  BY <1>5 DEF vars
<1> QED
  BY <1>1, <1>2, <1>3, <1>4, <1>5 DEF Next, Handler, Scheduler

LEMMA ChannelStep == ChannelInv /\ [Next]_vars => ChannelInv'
<1> SUFFICES ASSUME ChannelInv, [Next]_vars PROVE CapturedOnce' /\ QueueExact'
  BY TypeStep, JobStep DEF ChannelInv
<1>1. TypeOK'
  BY TypeStep DEF ChannelInv
<1>2. \A r \in Request : captures[r] = IF place[r] \in {"running", "captured"} THEN 1 ELSE 0
  BY DEF ChannelInv, CapturedOnce
<1>3. captures \in [Request -> Nat] /\ place \in [Request -> Place]
  BY DEF ChannelInv, TypeOK
<1>4. ASSUME NEW r \in Request, Receive(r) \/ ReadScheduled(r) \/ Drop(r)
      PROVE  CapturedOnce' /\ QueueExact'
  <2>1. PICK p \in {"received", "bound", "dropped"} : Move(r, p)
    <3>1. Move(r, "received") \/ Move(r, "bound") \/ Move(r, "dropped")
      BY <1>4 DEF Receive, ReadScheduled, Drop
    <3> QED
      BY <3>1
  <2>2. queue' = queue /\ captures' = captures /\ place[r] \in {"outside", "received", "bound"}
    BY <1>4 DEF Receive, ReadScheduled, Drop
  <2>3. captures' = [captures EXCEPT ![r] = 0]
    BY <1>2, <1>3, <2>2
  <2> QED
    BY <1>1, <2>1, <2>2, <2>3, MoveKeeps DEF Place
<1>5. ASSUME NEW r \in Request, RunNow(r) PROVE CapturedOnce' /\ QueueExact'
  <2>1. Move(r, "running") /\ queue' = queue /\ place[r] = "received"
    BY <1>5 DEF RunNow
  <2>2. captures[r] = 0 /\ captures' = [captures EXCEPT ![r] = captures[r] + 1]
    BY <1>2, <1>5, <2>1 DEF RunNow
  <2>3. captures' = [captures EXCEPT ![r] = 1]
    BY <2>2
  <2> QED
    BY <1>1, <2>1, <2>3, MoveKeeps DEF Place
<1>6. ASSUME NEW r \in Request, FinishNow(r) PROVE CapturedOnce' /\ QueueExact'
  <2>1. Move(r, "captured") /\ queue' = queue /\ captures' = captures /\ place[r] = "running"
    BY <1>6 DEF FinishNow
  <2>2. captures' = [captures EXCEPT ![r] = 1]
    BY <1>2, <1>3, <2>1
  <2> QED
    BY <1>1, <2>1, <2>2, MoveKeeps DEF Place
<1>7. CASE FinishJob
  <2>1. job \in Request /\ place[job] = "running"
    BY <1>7 DEF FinishJob, ChannelInv, JobRuns, TypeOK
  <2>2. Move(job, "captured") /\ queue' = queue /\ captures' = captures
    BY <1>7 DEF FinishJob
  <2>3. captures' = [captures EXCEPT ![job] = 1]
    BY <1>2, <1>3, <2>1, <2>2
  <2> QED
    BY <1>1, <2>1, <2>2, <2>3, MoveKeeps DEF Place
<1>8. CASE Wake \/ EndBatch \/ Stop \/ UpdateSchedule \/ Poll \/ Signal \/ Exit \/ UNCHANGED vars
  <2>1. UNCHANGED <<place, captures, queue>>
    BY <1>8 DEF Wake, EndBatch, Stop, UpdateSchedule, Poll, Signal, Exit, vars
  <2> QED
    BY <2>1 DEF ChannelInv, CapturedOnce, QueueExact
<1> QED
  BY <1>4, <1>5, <1>6, <1>7, <1>8, EnqueueKeeps, TakeKeeps DEF Next, Handler, Scheduler

LEMMA ChannelInit == Init => ChannelInv
<1> SUFFICES ASSUME Init PROVE ChannelInv
  OBVIOUS
<1>1. queue = <<>> /\ Len(queue) = 0 /\ 1 .. 0 = {}
  BY DEF Init
<1>2. CapturedOnce /\ JobRuns
  BY DEF Init, CapturedOnce, JobRuns
<1>3. QueueExact
  BY <1>1, SchedulerAssumption DEF Init, QueueExact
<1> QED
  BY <1>2, <1>3, TypeInit DEF ChannelInv

\* No alert is captured twice.
THEOREM AlertsCapturedOnce == Spec => []CapturedOnce
BY ChannelInit, ChannelStep, PTL DEF Spec, ChannelInv

\* The channel never overflows and holds each queued alert once.
THEOREM QueueIsExact == Spec => []QueueExact
BY ChannelInit, ChannelStep, PTL DEF Spec, ChannelInv
=============================================================================
