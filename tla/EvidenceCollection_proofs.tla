--------------------- MODULE EvidenceCollection_proofs ---------------------
(***************************************************************************)
(* Proofs about EvidenceCollection, for any updates, loaded options and    *)
(* timeouts.                                                               *)
(*                                                                         *)
(* OptionsInv ties the options to inForce while they are read.  CollectInv *)
(* accounts for each docker command: it is not wanted, waits in todo, was  *)
(* spared because docker top was enough, or its end is recorded; what      *)
(* waits is a queue without repetition in which ps stands behind top.      *)
(***************************************************************************)
EXTENDS EvidenceCollection, SequenceTheorems, TLAPS

\* What an option can be set to.
Given == UNION {{f[o] : o \in Option} : f \in Form \union Loaded}

\* While a capture reads the options, inForce keeps up with them.
OptionsInv ==
    /\ DOMAIN options = Option
    /\ \A o \in Option : options[o] \in Given
    /\ form \in Form \union {Unset}
    /\ applied \in 0 .. 5
    /\ opts \in Seq(Given)
    /\ Len(opts) <= 5
    /\ DOMAIN inForce = Option
    /\ stage = "reading" => \A o \in Option : options[o] \in inForce[o]
    /\ OptionsInForce

\* Both orders are of the five options.
LEMMA Orders ==
    /\ Len(ReadOrder) = 5 /\ Len(WriteOrder) = 5
    /\ \A i \in 1 .. 5 : ReadOrder[i] \in Option /\ WriteOrder[i] \in Option
BY DEF ReadOrder, WriteOrder, Option, Artifact

\* OptionsInv holds at the start and is kept by every step.
LEMMA OptionsInit == CollectionAssumption /\ Init => OptionsInv
<1> SUFFICES ASSUME CollectionAssumption, Init PROVE OptionsInv
  OBVIOUS
<1>1. DOMAIN options = Option
  BY DEF Init, CollectionAssumption
<1>2. \A o \in Option : options[o] \in Given
  BY DEF Init, Given
<1> QED
  BY <1>1, <1>2 DEF Init, OptionsInv, OptionsInForce, NoValues

LEMMA OptionsStep == CollectionAssumption /\ OptionsInv /\ [Next]_vars => OptionsInv'
<1> SUFFICES ASSUME CollectionAssumption, OptionsInv, [Next]_vars PROVE OptionsInv'
  OBVIOUS
<1> USE DEF OptionsInv, OptionsInForce
<1>1. ASSUME NEW f \in Form, Post(f) PROVE OptionsInv'
  BY <1>1 DEF Post, captureVars
<1>2. CASE SetField
  <2> DEFINE o == WriteOrder[applied + 1]
             sets == form[o] # Unset /\ (o = "timeout" => form[o] > 0)
  <2>1. /\ form # Unset /\ applied < 5 /\ o \in Option /\ form \in Form
        /\ options' = IF sets THEN [options EXCEPT ![o] = form[o]] ELSE options
        /\ inForce' = IF stage = "reading"
                      THEN [inForce EXCEPT ![o] = @ \union {options'[o]}] ELSE inForce
        /\ applied' = applied + 1
        /\ UNCHANGED <<form, stage, opts>>
    BY <1>2, Orders DEF SetField, captureVars
  <2> HIDE DEF o, sets
  <2>2. form[o] \in Given
    BY <2>1 DEF Given
  <2>3. /\ DOMAIN options' = Option
        /\ \A x \in Option : options'[x] \in Given
        /\ \A x \in Option : x # o => options'[x] = options[x]
    BY <2>1, <2>2
  <2>4. /\ DOMAIN inForce' = Option
        /\ stage = "reading" =>
              \A x \in Option :
                 /\ inForce[x] \subseteq inForce'[x]
                 /\ options'[x] \in inForce'[x]
    BY <2>1, <2>3
  <2>5. stage' = "reading" => \A i \in DOMAIN opts' : opts'[i] \in inForce'[ReadOrder[i]]
    <3> SUFFICES ASSUME stage = "reading", NEW i \in DOMAIN opts
                 PROVE  opts[i] \in inForce'[ReadOrder[i]]
      BY <2>1
    <3>1. ReadOrder[i] \in Option
      BY Orders
    <3> QED
      BY <2>4, <3>1
  <2> QED
    BY <2>1, <2>3, <2>4, <2>5
<1>3. CASE Posted
  BY <1>3 DEF Posted, captureVars
<1>4. CASE Start
  <2>1. \A x \in Option : options'[x] \in inForce'[x]
    BY <1>4 DEF Start, updateVars
  <2> QED
    BY <1>4, <2>1 DEF Start, updateVars
<1>5. CASE ReadOption
  <2> DEFINE o == ReadOrder[Len(opts) + 1]
  <2>1. /\ stage = "reading" /\ Len(opts) < 5 /\ o \in Option
        /\ opts' = Append(opts, options[o])
        /\ UNCHANGED <<options, form, applied, stage, inForce>>
    BY <1>5, Orders DEF ReadOption, updateVars
  <2>2. \A i \in DOMAIN opts' : opts'[i] \in inForce'[ReadOrder[i]]
    <3> SUFFICES ASSUME NEW i \in DOMAIN opts' PROVE opts'[i] \in inForce[ReadOrder[i]]
      BY <2>1
    <3>1. CASE i \in DOMAIN opts
      BY <2>1, <3>1
    <3>2. CASE i = Len(opts) + 1
      BY <2>1, <3>2
    <3> QED
      BY <2>1, <3>1, <3>2
  <2> QED
    BY <2>1, <2>2
<1>6. CASE BeginCollect
  BY <1>6 DEF BeginCollect, updateVars, NoValues
<1>7. CASE Succeeds \/ Fails \/ Killed \/ Elapse \/ Return
  BY <1>7 DEF Succeeds, Fails, Killed, Elapse, Return, updateVars
<1>8. CASE UNCHANGED vars
  BY <1>8 DEF vars, updateVars, captureVars
<1> QED
  BY <1>1, <1>2, <1>3, <1>4, <1>5, <1>6, <1>7, <1>8 DEF Next, Update, Reading, Collecting

\* Every option a capture has read was in force while it was reading, however
\* its reads and the writes of handleUpdateCollector interleave.
THEOREM OptionsAreInForce == Spec => []OptionsInForce
<1>1. OptionsInv => OptionsInForce
  BY DEF OptionsInv
<1> QED
  BY <1>1, OptionsInit, OptionsStep, CollectionAssumption, PTL DEF Spec

----------------------------------------------------------------------------
(* The docker commands: those of an artifact, and of a capture.            *)

\* No command waits twice, and ps waits right behind docker top.
Queued(q) ==
    /\ q \in Seq(Command)
    /\ \A i, j \in DOMAIN q : q[i] = q[j] => i = j
    /\ \A i \in DOMAIN q : q[i] = "top" => i + 1 \in DOMAIN q /\ q[i + 1] = "ps"

\* ps is not run in the container if docker top was enough.
Spared(c) == c = "ps" /\ ran["top"] = "ok"

\* How a command ended and what became of its output.
Accounted(c) ==
    /\ c \in evidence[ArtifactOf(c)] <=> ran[c] = "ok"
    /\ \A a \in Artifact : c \in evidence[a] => a = ArtifactOf(c)
    /\ ran[c] = "not" <=> ArtifactOf(c) \notin Wanted \/ c \in ToSet(todo) \/ Spared(c)

CollectInv ==
    /\ Queued(todo)
    /\ ran \in [Command -> {"not", "ok", "failed"}]
    /\ evidence \in [Artifact -> SUBSET Command]
    /\ stage # "collecting" => todo = <<>>
    /\ stage = "reading" => evidence = NoOutput /\ \A c \in Command : ran[c] = "not"
    /\ \A c \in ToSet(todo) : ran[c] = "not" /\ ArtifactOf(c) \in Wanted
    /\ "ps" \in ToSet(todo) => ran["top"] # "ok"
    /\ stage \in {"collecting", "done"} => \A c \in Command : Accounted(c)

\* The commands of each artifact, written out.
LEMMA AttemptsAre ==
    /\ Attempts("metadata") = <<"inspect">>
    /\ Attempts("process")  = <<"top", "ps">>
    /\ Attempts("logs")     = <<"logs">>
    /\ Attempts("network")  = <<"ss", "netstat", "tcp", "tcp6", "udp">>
BY DEF Attempts, collectMetadata, collectProcessList, collectLogs, collectNetwork

LEMMA One ==
    ASSUME NEW x
    PROVE  DOMAIN <<x>> = 1 .. 1 /\ <<x>>[1] = x /\ ToSet(<<x>>) = {x}
<1>1. DOMAIN <<x>> = 1 .. 1 /\ <<x>>[1] = x
  OBVIOUS
<1> QED
  BY <1>1 DEF ToSet

LEMMA Process ==
    /\ DOMAIN Attempts("process") = 1 .. 2
    /\ Attempts("process")[1] = "top" /\ Attempts("process")[2] = "ps"
    /\ ToSet(Attempts("process")) = {"top", "ps"}
<1> DEFINE q == Attempts("process")
<1>0. q = <<"top", "ps">>
  BY AttemptsAre
<1> HIDE DEF q
<1>1. DOMAIN q = 1 .. 2 /\ q[1] = "top" /\ q[2] = "ps"
  BY <1>0
<1>2. \A i : i \in 1 .. 2 <=> i = 1 \/ i = 2
  OBVIOUS
<1>3. \A c : c \in ToSet(q) <=> \E i \in DOMAIN q : q[i] = c
  BY DEF ToSet
<1>4. \A c : c \in ToSet(q) <=> c = "top" \/ c = "ps"
  BY <1>1, <1>2, <1>3
<1>5. ToSet(q) = {"top", "ps"}
  BY <1>4
<1> QED
  BY <1>1, <1>5 DEF q

LEMMA Network ==
    /\ DOMAIN Attempts("network") = 1 .. 5
    /\ Attempts("network")[1] = "ss" /\ Attempts("network")[2] = "netstat"
    /\ Attempts("network")[3] = "tcp" /\ Attempts("network")[4] = "tcp6"
    /\ Attempts("network")[5] = "udp"
    /\ ToSet(Attempts("network")) = {"ss", "netstat", "tcp", "tcp6", "udp"}
<1> DEFINE q == Attempts("network")
<1>0. q = <<"ss", "netstat", "tcp", "tcp6", "udp">>
  BY AttemptsAre
<1> HIDE DEF q
<1>1. DOMAIN q = 1 .. 5 /\ q[1] = "ss" /\ q[2] = "netstat" /\ q[3] = "tcp"
      /\ q[4] = "tcp6" /\ q[5] = "udp"
  BY <1>0
<1>2. \A i : i \in 1 .. 5 <=> i = 1 \/ i = 2 \/ i = 3 \/ i = 4 \/ i = 5
  OBVIOUS
<1>3. \A c : c \in ToSet(q) <=> \E i \in DOMAIN q : q[i] = c
  BY DEF ToSet
<1>4. ToSet(q) = {"ss", "netstat", "tcp", "tcp6", "udp"}
  BY <1>1, <1>2, <1>3
<1> QED
  BY <1>1, <1>4 DEF q

LEMMA Commands ==
    /\ Command = {"inspect", "top", "ps", "logs", "ss", "netstat", "tcp", "tcp6", "udp"}
    /\ ToSet(Attempts("metadata")) = {"inspect"}
    /\ ToSet(Attempts("process"))  = {"top", "ps"}
    /\ ToSet(Attempts("logs"))     = {"logs"}
    /\ ToSet(Attempts("network"))  = {"ss", "netstat", "tcp", "tcp6", "udp"}
<1>1. ToSet(Attempts("metadata")) = {"inspect"} /\ ToSet(Attempts("logs")) = {"logs"}
  BY AttemptsAre, One
<1>2. \A c : c \in Command <=> \E a \in Artifact : c \in ToSet(Attempts(a))
  BY DEF Command
<1>3. \A c : c \in Command <=> \/ c \in ToSet(Attempts("metadata"))
                              \/ c \in ToSet(Attempts("process"))
                              \/ c \in ToSet(Attempts("logs"))
                              \/ c \in ToSet(Attempts("network"))
  BY <1>2 DEF Artifact
<1> QED
  BY <1>1, <1>3, Process, Network

\* A command belongs to one artifact.
LEMMA ArtifactIs ==
    ASSUME NEW c \in Command
    PROVE  /\ ArtifactOf(c) \in Artifact
           /\ \A a \in Artifact : c \in ToSet(Attempts(a)) <=> a = ArtifactOf(c)
<1>1. \E a \in Artifact : c \in ToSet(Attempts(a))
  BY DEF Command
<1>2. ArtifactOf(c) \in Artifact /\ c \in ToSet(Attempts(ArtifactOf(c)))
  BY <1>1 DEF ArtifactOf
<1>3. \A a, b \in Artifact : c \in ToSet(Attempts(a)) /\ c \in ToSet(Attempts(b)) => a = b
  BY Commands DEF Artifact
<1> QED
  BY <1>2, <1>3

\* The commands planned for one artifact are a queue.
LEMMA PlannedIs ==
    ASSUME NEW a \in Artifact
    PROVE  /\ Queued(Planned(a))
           /\ \A c : c \in ToSet(Planned(a)) <=> c \in Command /\ ArtifactOf(c) = a /\ a \in Wanted
<1>1. \A c : c \in ToSet(Attempts(a)) => c \in Command
  BY DEF Command
<1>2. Attempts(a) \in Seq(Command)
  <2>1. CASE a = "metadata"
    BY <2>1, AttemptsAre, Commands
  <2>2. CASE a = "process"
    <3>1. <<"top", "ps">> \in Seq(Command)
      BY Commands
    <3> QED
      BY <2>2, <3>1, AttemptsAre
  <2>3. CASE a = "logs"
    BY <2>3, AttemptsAre, Commands
  <2>4. CASE a = "network"
    <3>1. <<"ss", "netstat", "tcp", "tcp6", "udp">> \in Seq(Command)
      BY Commands
    <3> QED
      BY <2>4, <3>1, AttemptsAre
  <2> QED
    BY <2>1, <2>2, <2>3, <2>4 DEF Artifact
<1>3. Queued(Attempts(a))
  <2> DEFINE q == Attempts(a)
  <2>1. CASE a = "metadata" \/ a = "logs"
    <3>1. DOMAIN q = 1 .. 1 /\ q[1] # "top"
      BY <2>1, AttemptsAre, One
    <3> HIDE DEF q
    <3>2. \A i : i \in 1 .. 1 <=> i = 1
      OBVIOUS
    <3>3. /\ \A i, j \in DOMAIN q : q[i] = q[j] => i = j
          /\ \A i \in DOMAIN q : q[i] # "top"
      BY <3>1, <3>2
    <3> QED
      BY <1>2, <3>3 DEF Queued, q
  <2>2. CASE a = "process"
    <3>1. DOMAIN q = 1 .. 2 /\ q[1] = "top" /\ q[2] = "ps"
      BY <2>2, Process
    <3> HIDE DEF q
    <3>2. \A i : i \in 1 .. 2 <=> i = 1 \/ i = 2
      OBVIOUS
    <3>3. /\ \A i, j \in DOMAIN q : q[i] = q[j] => i = j
          /\ \A i \in DOMAIN q : q[i] = "top" => i + 1 \in DOMAIN q /\ q[i + 1] = "ps"
      BY <3>1, <3>2
    <3> QED
      BY <1>2, <3>3 DEF Queued, q
  <2>3. CASE a = "network"
    <3>1. /\ DOMAIN q = 1 .. 5 /\ q[1] = "ss" /\ q[2] = "netstat" /\ q[3] = "tcp"
          /\ q[4] = "tcp6" /\ q[5] = "udp"
      BY <2>3, Network
    <3> HIDE DEF q
    <3>2. \A i : i \in 1 .. 5 <=> i = 1 \/ i = 2 \/ i = 3 \/ i = 4 \/ i = 5
      OBVIOUS
    <3>3. /\ \A i, j \in DOMAIN q : q[i] = q[j] => i = j
          /\ \A i \in DOMAIN q : q[i] # "top"
      BY <3>1, <3>2
    <3> QED
      BY <1>2, <3>3 DEF Queued, q
  <2> QED
    BY <2>1, <2>2, <2>3 DEF Artifact
<1>4. Queued(<<>>) /\ ToSet(<<>>) = {}
  BY DEF Queued, ToSet
<1> QED
  BY <1>1, <1>3, <1>4, ArtifactIs DEF Planned

\* Two queues without a common command are one behind the other.
LEMMA QueuesJoin ==
    ASSUME NEW q, NEW r, Queued(q), Queued(r), ToSet(q) \cap ToSet(r) = {}
    PROVE  Queued(q \o r) /\ ToSet(q \o r) = ToSet(q) \union ToSet(r)
<1> DEFINE b == q \o r
           n == Len(q)
           m == Len(r)
<1>1. q \in Seq(Command) /\ r \in Seq(Command)
  BY DEF Queued
<1>2. /\ b \in Seq(Command) /\ Len(b) = n + m
      /\ \A i \in 1 .. n + m : b[i] = IF i <= n THEN q[i] ELSE r[i - n]
  BY <1>1, ConcatProperties
<1>3. /\ n \in Nat /\ m \in Nat
      /\ DOMAIN q = 1 .. n /\ DOMAIN r = 1 .. m
  BY <1>1
<1>4. DOMAIN b = 1 .. n + m
  <2> HIDE DEF b, n, m
  <2> QED
    BY <1>2
<1>5. \A i \in 1 .. n, j \in 1 .. m : q[i] # r[j]
  BY <1>3 DEF ToSet
<1> HIDE DEF b, n, m
<1>6. \A i \in 1 .. n : i \in DOMAIN b /\ b[i] = q[i]
  BY <1>2, <1>3, <1>4
<1>7. ASSUME NEW i \in 1 .. m PROVE n + i \in DOMAIN b /\ b[n + i] = r[i]
  <2>1. n + i \in 1 .. n + m /\ ~(n + i <= n) /\ (n + i) - n = i
    BY <1>3
  <2> QED
    BY <1>2, <1>4, <2>1
<1>8. \A i \in DOMAIN b : \/ i \in 1 .. n /\ b[i] = q[i]
                          \/ \E j \in 1 .. m : i = n + j /\ b[i] = r[j]
  <2> SUFFICES ASSUME NEW i \in DOMAIN b, i \notin 1 .. n
               PROVE  \E j \in 1 .. m : i = n + j /\ b[i] = r[j]
    BY <1>6
  <2>1. i - n \in 1 .. m /\ i = n + (i - n)
    BY <1>3, <1>4
  <2> QED
    BY <1>7, <2>1
<1>9. ASSUME NEW i \in DOMAIN b, NEW j \in DOMAIN b, b[i] = b[j] PROVE i = j
  <2>1. CASE i \in 1 .. n /\ j \in 1 .. n
    BY <1>3, <1>6, <1>9, <2>1 DEF Queued
  <2>2. ASSUME NEW k \in 1 .. m, NEW l \in 1 .. m,
               i = n + k, b[i] = r[k], j = n + l, b[j] = r[l]
        PROVE  i = j
    <3>1. k = l
      BY <1>3, <1>9, <2>2 DEF Queued
    <3> QED
      BY <2>2, <3>1
  <2> QED
    BY <1>5, <1>8, <1>9, <2>1, <2>2
<1>10. ASSUME NEW i \in DOMAIN b, b[i] = "top" PROVE i + 1 \in DOMAIN b /\ b[i + 1] = "ps"
  <2>1. CASE i \in 1 .. n /\ b[i] = q[i]
    <3>1. i + 1 \in 1 .. n /\ q[i + 1] = "ps"
      BY <1>3, <1>10, <2>1 DEF Queued
    <3> QED
      BY <1>6, <3>1
  <2>2. ASSUME NEW k \in 1 .. m, i = n + k, b[i] = r[k]
        PROVE  i + 1 \in DOMAIN b /\ b[i + 1] = "ps"
    <3>1. k + 1 \in 1 .. m /\ r[k + 1] = "ps"
      BY <1>3, <1>10, <2>2 DEF Queued
    <3>2. n + (k + 1) = i + 1
      BY <1>3, <2>2
    <3>3. n + (k + 1) \in DOMAIN b /\ b[n + (k + 1)] = r[k + 1]
      BY <1>7, <3>1
    <3> QED
      BY <3>1, <3>2, <3>3
  <2> QED
    BY <1>8, <2>1, <2>2
<1>11. ToSet(b) = ToSet(q) \union ToSet(r)
  <2>1. \A c : c \in ToSet(b) <=> \E i \in DOMAIN b : b[i] = c
    BY DEF ToSet
  <2>2. \A c : c \in ToSet(q) <=> \E i \in 1 .. n : q[i] = c
    BY <1>3 DEF ToSet
  <2>3. \A c : c \in ToSet(r) <=> \E i \in 1 .. m : r[i] = c
    BY <1>3 DEF ToSet
  <2>4. \A c : c \in ToSet(b) => c \in ToSet(q) \/ c \in ToSet(r)
    BY <1>8, <2>1, <2>2, <2>3
  <2>5. \A c : c \in ToSet(q) => c \in ToSet(b)
    BY <1>6, <2>1, <2>2
  <2>6. \A c : c \in ToSet(r) => c \in ToSet(b)
    BY <1>7, <2>1, <2>3
  <2> QED
    BY <2>4, <2>5, <2>6
<1> QED
  BY <1>2, <1>9, <1>10, <1>11 DEF Queued, b

\* What is left of a queue when its first command has ended; behind docker top
\* stands ps.
LEMMA QueueGoesOn ==
    ASSUME NEW q, Queued(q), q # <<>>
    PROVE  /\ Head(q) \in Command /\ Head(q) \in ToSet(q)
           /\ Queued(Tail(q)) /\ ToSet(Tail(q)) = ToSet(q) \ {Head(q)}
           /\ Head(q) = "top" => Tail(q) # <<>> /\ Head(Tail(q)) = "ps"
<1> DEFINE b == Tail(q)
           h == Head(q)
           n == Len(b)
<1>1. q \in Seq(Command)
  BY DEF Queued
<1>2. /\ b \in Seq(Command) /\ Len(q) = n + 1 /\ n \in Nat /\ h = q[1] /\ h \in Command
      /\ \A i \in 1 .. n : b[i] = q[i + 1]
  BY <1>1, HeadTailProperties
<1>3. DOMAIN q = 1 .. n + 1 /\ DOMAIN b = 1 .. n /\ (n # 0 => b # <<>> /\ Head(b) = b[1])
  BY <1>1, <1>2
<1> HIDE DEF b, h, n
<1>4. \A i \in DOMAIN q : i = 1 \/ \E j \in DOMAIN b : i = j + 1
  <2> SUFFICES ASSUME NEW i \in 1 .. n + 1, i # 1 PROVE i - 1 \in 1 .. n /\ i = (i - 1) + 1
    BY <1>3
  <2> QED
    BY <1>2
<1>5. 1 \in DOMAIN q /\ \A i \in DOMAIN b : i + 1 \in DOMAIN q /\ i + 1 # 1
  BY <1>2, <1>3
<1>6. ASSUME NEW i \in DOMAIN b, NEW j \in DOMAIN b, b[i] = b[j] PROVE i = j
  <2>1. i + 1 \in DOMAIN q /\ j + 1 \in DOMAIN q /\ q[i + 1] = q[j + 1]
    BY <1>2, <1>3, <1>5, <1>6
  <2>2. i + 1 = j + 1
    BY <2>1 DEF Queued
  <2> QED
    BY <1>2, <1>3, <2>2
<1>7. ASSUME NEW i \in DOMAIN b, b[i] = "top" PROVE i + 1 \in DOMAIN b /\ b[i + 1] = "ps"
  <2>1. q[i + 1] = "top"
    BY <1>2, <1>3, <1>7
  <2>2. (i + 1) + 1 \in DOMAIN q /\ q[(i + 1) + 1] = "ps"
    BY <1>5, <2>1 DEF Queued
  <2>3. i \in Nat /\ (i + 1) + 1 <= n + 1
    BY <1>2, <1>3, <2>2
  <2>4. i + 1 \in DOMAIN b
    BY <1>2, <1>3, <2>3
  <2> QED
    BY <1>2, <1>3, <2>2, <2>4
<1>8. ToSet(b) = ToSet(q) \ {h}
  <2>1. \A c : c \in ToSet(b) <=> \E i \in DOMAIN b : b[i] = c
    BY DEF ToSet
  <2>2. \A c : c \in ToSet(q) <=> \E i \in DOMAIN q : q[i] = c
    BY DEF ToSet
  <2>3. \A i \in DOMAIN b : b[i] \in ToSet(q) /\ b[i] # h
    <3> SUFFICES ASSUME NEW i \in DOMAIN b PROVE q[i + 1] \in ToSet(q) /\ q[i + 1] # q[1]
      BY <1>2, <1>3
    <3>1. i + 1 \in DOMAIN q /\ i + 1 # 1 /\ 1 \in DOMAIN q
      BY <1>5
    <3> QED
      BY <2>2, <3>1 DEF Queued
  <2>4. \A i \in DOMAIN q : q[i] = h \/ \E j \in DOMAIN b : b[j] = q[i]
    BY <1>2, <1>3, <1>4
  <2> QED
    BY <2>1, <2>2, <2>3, <2>4
<1>9. ASSUME h = "top" PROVE b # <<>> /\ Head(b) = "ps"
  <2>1. 1 + 1 \in DOMAIN q /\ q[1 + 1] = "ps"
    BY <1>2, <1>5, <1>9 DEF Queued
  <2>2. 1 + 1 <= n + 1
    BY <1>2, <1>3, <2>1
  <2>3. n # 0 /\ 1 \in 1 .. n
    BY <1>2, <2>2
  <2> QED
    BY <1>2, <1>3, <2>1, <2>3
<1>10. h \in ToSet(q)
  BY <1>2, <1>5 DEF ToSet
<1> QED
  BY <1>2, <1>6, <1>7, <1>8, <1>9, <1>10 DEF Queued, b, h
\* All four plans behind one another.
LEMMA PlanIs ==
    LET q == Planned("metadata") \o Planned("process") \o Planned("logs") \o Planned("network") IN
    Queued(q) /\ \A c : c \in ToSet(q) <=> c \in Command /\ ArtifactOf(c) \in Wanted
<1> DEFINE q2 == Planned("metadata") \o Planned("process")
           q3 == q2 \o Planned("logs")
           q4 == q3 \o Planned("network")
<1>1. \A a \in Artifact : /\ Queued(Planned(a))
                         /\ \A c : c \in ToSet(Planned(a)) <=>
                                  c \in Command /\ ArtifactOf(c) = a /\ a \in Wanted
  BY PlannedIs
<1>2. Artifact = {"metadata", "process", "logs", "network"}
  BY DEF Artifact
<1>3. Queued(q2) /\ ToSet(q2) = ToSet(Planned("metadata")) \union ToSet(Planned("process"))
  BY <1>1, <1>2, QueuesJoin
<1> HIDE DEF q2
<1>4. Queued(q3) /\ ToSet(q3) = ToSet(q2) \union ToSet(Planned("logs"))
  BY <1>1, <1>2, <1>3, QueuesJoin
<1> HIDE DEF q3
<1>5. Queued(q4) /\ ToSet(q4) = ToSet(q3) \union ToSet(Planned("network"))
  BY <1>1, <1>2, <1>3, <1>4, QueuesJoin
<1> HIDE DEF q4
<1>6. \A c : c \in ToSet(q4) <=> \E a \in Artifact : c \in ToSet(Planned(a))
  BY <1>2, <1>3, <1>4, <1>5
<1>7. \A c : c \in ToSet(q4) <=> c \in Command /\ ArtifactOf(c) \in Wanted
  BY <1>1, <1>6, ArtifactIs
<1> QED
  BY <1>5, <1>7 DEF q4, q3, q2

----------------------------------------------------------------------------
(* CollectInv is inductive.                                                *)

LEMMA CollectInit == Init => CollectInv
<1> SUFFICES ASSUME Init PROVE CollectInv
  OBVIOUS
<1>1. Queued(<<>>) /\ ToSet(<<>>) = {}
  BY DEF Queued, ToSet
<1> QED
  BY <1>1 DEF Init, CollectInv, NoOutput

\* The steps that take the first command from the queue, and the one after it if
\* docker top was enough.
LEMMA CommandEnds ==
    ASSUME CollectInv, Succeeds \/ Fails \/ Killed
    PROVE  CollectInv'
<1> DEFINE h == Head(todo)
<1>1. stage = "collecting" /\ todo # <<>> /\ stage' = "collecting" /\ opts' = opts
  BY DEF Succeeds, Fails, Killed
<1>2. /\ Queued(todo) /\ ran \in [Command -> {"not", "ok", "failed"}]
      /\ evidence \in [Artifact -> SUBSET Command]
      /\ \A c \in ToSet(todo) : ran[c] = "not" /\ ArtifactOf(c) \in Wanted
      /\ "ps" \in ToSet(todo) => ran["top"] # "ok"
      /\ \A c \in Command : Accounted(c)
  BY <1>1 DEF CollectInv
<1>3. /\ h \in Command /\ h \in ToSet(todo)
      /\ Queued(Tail(todo)) /\ ToSet(Tail(todo)) = ToSet(todo) \ {h}
      /\ h = "top" => Tail(todo) # <<>> /\ Head(Tail(todo)) = "ps"
  BY <1>1, <1>2, QueueGoesOn
<1> HIDE DEF h
<1>4. Wanted' = Wanted
  BY <1>1 DEF Wanted, Read
<1>5. ToSet(todo) \subseteq Command
  BY <1>2 DEF Queued, ToSet
<1>6. ArtifactOf(h) \in Artifact /\ ArtifactOf(h) \in Wanted /\ ran[h] = "not"
  BY <1>2, <1>3, ArtifactIs
<1>7. "top" \in Command /\ "ps" \in Command
  BY Commands
<1>8. CASE Fails \/ Killed
  <2>1. todo' = Tail(todo) /\ ran' = [ran EXCEPT ![h] = "failed"] /\ evidence' = evidence
    BY <1>8 DEF Fails, Killed, h
  <2>2. ran' \in [Command -> {"not", "ok", "failed"}] /\ ran'[h] = "failed"
        /\ \A c \in Command : c # h => ran'[c] = ran[c]
    BY <1>2, <1>3, <2>1
  <2>3. ran["top"] = "ok" <=> ran'["top"] = "ok"
    BY <1>6, <1>7, <2>2
  <2>4. ASSUME NEW c \in Command PROVE Accounted(c)'
    <3>1. Accounted(c) /\ Accounted(h)
      BY <1>2, <1>3
    <3>2. CASE c = h
      <4>1. ~(h = "ps" /\ ran'["top"] = "ok")
        BY <1>2, <1>3, <2>3
      <4> QED
        BY <1>3, <1>4, <1>6, <2>1, <2>2, <3>1, <3>2, <4>1 DEF Accounted, Spared, ArtifactOf
    <3>3. CASE c # h
      BY <1>3, <2>1, <2>2, <2>3, <3>1, <3>3, <1>4 DEF Accounted, Spared, ArtifactOf
    <3> QED
      BY <3>2, <3>3
  <2>5. \A c \in ToSet(todo') : ran'[c] = "not" /\ ArtifactOf(c) \in Wanted'
    BY <1>2, <1>3, <1>4, <1>5, <2>1, <2>2
  <2>6. "ps" \in ToSet(todo') => ran'["top"] # "ok"
    BY <1>2, <1>3, <2>1, <2>3
  <2> QED
    BY <1>1, <1>2, <1>3, <2>1, <2>2, <2>4, <2>5, <2>6 DEF CollectInv
<1>9. CASE Succeeds
  <2>1. /\ todo' = IF h = "top" THEN Tail(Tail(todo)) ELSE Tail(todo)
        /\ ran' = [ran EXCEPT ![h] = "ok"]
        /\ evidence' = [evidence EXCEPT ![ArtifactOf(h)] = @ \union {h}]
    BY <1>9 DEF Succeeds, AfterSuccess, h
  <2>2. ran' \in [Command -> {"not", "ok", "failed"}] /\ ran'[h] = "ok"
        /\ \A c \in Command : c # h => ran'[c] = ran[c]
    BY <1>2, <1>3, <2>1
  <2>3. /\ evidence' \in [Artifact -> SUBSET Command]
        /\ evidence'[ArtifactOf(h)] = evidence[ArtifactOf(h)] \union {h}
        /\ \A a \in Artifact : a # ArtifactOf(h) => evidence'[a] = evidence[a]
    BY <1>2, <1>3, <1>6, <2>1
  <2>4. /\ Queued(todo')
        /\ ToSet(todo') = ToSet(todo) \ (IF h = "top" THEN {"top", "ps"} ELSE {h})
    <3>1. CASE h = "top"
      <4>1. Queued(Tail(Tail(todo))) /\ ToSet(Tail(Tail(todo))) = ToSet(Tail(todo)) \ {"ps"}
        BY <1>3, <3>1, QueueGoesOn
      <4> QED
        BY <1>3, <2>1, <3>1, <4>1
    <3>2. CASE h # "top"
      BY <1>3, <2>1, <3>2
    <3> QED
      BY <3>1, <3>2
  <2>5. h = "top" => "ps" \in ToSet(todo) /\ ran["ps"] = "not"
    <3> SUFFICES ASSUME h = "top" PROVE "ps" \in ToSet(todo)
      BY <1>2
    <3>1. Head(Tail(todo)) \in ToSet(Tail(todo))
      BY <1>3, QueueGoesOn
    <3> QED
      BY <1>3, <3>1
  <2>6. ASSUME NEW c \in Command PROVE Accounted(c)'
    <3>1. Accounted(c)
      BY <1>2
    <3>2. c \in evidence'[ArtifactOf(c)] <=> ran'[c] = "ok"
      BY <1>3, <1>6, <2>2, <2>3, <3>1, ArtifactIs DEF Accounted
    <3>3. \A a \in Artifact : c \in evidence'[a] => a = ArtifactOf(c)
      BY <2>3, <3>1 DEF Accounted
    <3>4. ran'[c] = "not" <=> ArtifactOf(c) \notin Wanted \/ c \in ToSet(todo')
                              \/ (c = "ps" /\ ran'["top"] = "ok")
      <4>1. CASE c = h
        <5>1. ~(h = "ps" /\ ran'["top"] = "ok")
          BY <1>2, <1>3, <1>7, <2>2
        <5> QED
          BY <1>6, <2>2, <2>4, <4>1, <5>1
      <4>2. CASE c # h /\ ~(h = "top" /\ c = "ps")
        <5>1. ran'[c] = ran[c] /\ (c \in ToSet(todo') <=> c \in ToSet(todo))
          BY <2>2, <2>4, <4>2
        <5>2. c = "ps" => (ran'["top"] = "ok" <=> ran["top"] = "ok")
          BY <1>7, <2>2, <4>2
        <5> QED
          BY <3>1, <5>1, <5>2 DEF Accounted, Spared
      <4>3. CASE h = "top" /\ c = "ps"
        BY <1>7, <2>2, <2>5, <4>3
      <4> QED
        BY <4>1, <4>2, <4>3
    <3> QED
      BY <1>4, <3>2, <3>3, <3>4 DEF Accounted, Spared, ArtifactOf
  <2>7. \A c \in ToSet(todo') : ran'[c] = "not" /\ ArtifactOf(c) \in Wanted'
    BY <1>2, <1>4, <1>5, <2>2, <2>4
  <2>8. "ps" \in ToSet(todo') => ran'["top"] # "ok"
    BY <1>2, <1>3, <1>7, <2>2, <2>4
  <2> QED
    BY <1>1, <2>2, <2>3, <2>4, <2>6, <2>7, <2>8 DEF CollectInv
<1> QED
  BY <1>8, <1>9
LEMMA CollectStep == CollectInv /\ [Next]_vars => CollectInv'
<1> SUFFICES ASSUME CollectInv, [Next]_vars PROVE CollectInv'
  OBVIOUS
<1>1. ASSUME UNCHANGED <<stage, opts, todo, evidence, ran>> PROVE CollectInv'
  BY <1>1 DEF CollectInv, Queued, Accounted, Spared, Wanted, Read, NoOutput, ArtifactOf
<1>2. CASE UNCHANGED vars
  BY <1>1, <1>2 DEF vars, captureVars
<1>3. CASE Update \/ Elapse
  BY <1>1, <1>3 DEF Update, Post, SetField, Posted, Elapse, captureVars, updateVars
<1>4. CASE Start
  <2>1. Queued(<<>>) /\ ToSet(<<>>) = {}
    BY DEF Queued, ToSet
  <2>2. /\ stage' = "reading" /\ todo' = <<>> /\ evidence' = NoOutput
        /\ ran' = [c \in Command |-> "not"]
    BY <1>4 DEF Start
  <2> QED
    BY <2>1, <2>2 DEF CollectInv, NoOutput
<1>5. CASE ReadOption
  <2>1. stage = "reading" /\ UNCHANGED <<stage, todo, evidence, ran>>
    BY <1>5 DEF ReadOption
  <2>2. todo = <<>> /\ todo' = <<>>
    BY <2>1 DEF CollectInv
  <2>3. ToSet(<<>>) = {}
    BY DEF ToSet
  <2> QED
    BY <2>1, <2>2, <2>3 DEF CollectInv, Queued, NoOutput
<1>6. CASE BeginCollect
  <2>1. /\ stage = "reading" /\ stage' = "collecting" /\ UNCHANGED <<opts, evidence, ran>>
        /\ todo' = Planned("metadata") \o Planned("process")
                      \o Planned("logs") \o Planned("network")
    BY <1>6 DEF BeginCollect
  <2>2. Queued(todo') /\ \A c : c \in ToSet(todo') <=> c \in Command /\ ArtifactOf(c) \in Wanted
    BY <2>1, PlanIs
  <2>3. Wanted' = Wanted
    BY <2>1 DEF Wanted, Read
  <2>4. evidence = NoOutput /\ \A c \in Command : ran[c] = "not"
    BY <2>1 DEF CollectInv
  <2>5. "top" \in Command
    BY Commands
  <2>6. ASSUME NEW c \in Command PROVE Accounted(c)'
    <3>1. \A a \in Artifact : c \notin evidence'[a]
      BY <2>1, <2>4 DEF NoOutput
    <3>2. ran'[c] = "not" /\ ran'["top"] = "not"
      BY <2>1, <2>4, <2>5
    <3> QED
      BY <2>2, <2>3, <3>1, <3>2, ArtifactIs DEF Accounted, Spared, ArtifactOf
  <2> QED
    BY <2>1, <2>2, <2>3, <2>4, <2>5, <2>6 DEF CollectInv
<1>7. CASE Return
  <2>1. /\ stage = "collecting" /\ todo = <<>> /\ stage' = "done"
        /\ UNCHANGED <<opts, todo, evidence, ran>>
    BY <1>7 DEF Return
  <2>2. \A c \in Command : Accounted(c)'
    BY <2>1 DEF CollectInv, Accounted, Spared, Wanted, Read, ArtifactOf
  <2>3. Wanted' = Wanted
    BY <2>1 DEF Wanted, Read
  <2> QED
    BY <2>1, <2>2, <2>3 DEF CollectInv, Queued
<1> QED
  BY <1>2, <1>3, <1>4, <1>5, <1>6, <1>7, CommandEnds DEF Next, Reading, Collecting

\* When nothing waits any more, the accounts of an artifact's commands say what
\* became of it.
LEMMA CollectImplies == CollectInv => BestEffort
<1> SUFFICES ASSUME CollectInv, stage = "done", NEW a \in Artifact
             PROVE  /\ evidence[a] = {c \in ToSet(Attempts(a)) : ran[c] = "ok"}
                    /\ evidence[a] = {} =>
                          IF a \in Wanted THEN \A c \in ToSet(Attempts(a)) : ran[c] = "failed"
                          ELSE \A c \in ToSet(Attempts(a)) : ran[c] = "not"
  BY DEF BestEffort
<1>1. /\ ran \in [Command -> {"not", "ok", "failed"}] /\ evidence[a] \subseteq Command
      /\ ToSet(todo) = {} /\ \A c \in Command : Accounted(c)
  <2>1. todo = <<>>
    BY DEF CollectInv
  <2>2. ToSet(<<>>) = {}
    BY DEF ToSet
  <2> QED
    BY <2>1, <2>2 DEF CollectInv
<1>2. ToSet(Attempts(a)) \subseteq Command
  BY DEF Command
<1>3. \A c \in Command : c \in evidence[a] <=> c \in ToSet(Attempts(a)) /\ ran[c] = "ok"
  BY <1>1, ArtifactIs DEF Accounted
<1>4. evidence[a] = {c \in ToSet(Attempts(a)) : ran[c] = "ok"}
  BY <1>1, <1>2, <1>3
<1>5. ASSUME evidence[a] = {}, NEW c \in ToSet(Attempts(a))
      PROVE  ran[c] = IF a \in Wanted THEN "failed" ELSE "not"
  <2>1. c \in Command /\ ArtifactOf(c) = a /\ ran[c] # "ok"
    BY <1>2, <1>4, <1>5, ArtifactIs
  <2>2. ~Spared(c)
    <3> SUFFICES ASSUME c = "ps", ran["top"] = "ok" PROVE FALSE
      BY DEF Spared
    <3>1. a = "process" /\ "top" \in Command
      BY <2>1, ArtifactIs, Commands DEF Artifact
    <3>2. "top" \in ToSet(Attempts(a))
      BY <3>1, Commands
    <3> QED
      BY <1>4, <1>5, <3>2
  <2>3. ran[c] = "not" <=> a \notin Wanted
    BY <1>1, <2>1, <2>2 DEF Accounted
  <2> QED
    BY <1>1, <2>1, <2>3
<1> QED
  BY <1>4, <1>5

\* Whatever fails, hangs or runs out of time, a capture keeps the output of each
\* command that ended well and lacks a wanted artifact only if all its commands
\* failed; what is not wanted was not tried.
THEOREM CollectionIsBestEffort == Spec => []BestEffort
BY CollectInit, CollectStep, CollectImplies, PTL DEF Spec
=============================================================================
