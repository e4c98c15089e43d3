---------------------------- MODULE EvidenceStore ----------------------------
(***************************************************************************)
(* What the evidence store promises, without files, goroutines and logs.   *)
(*                                                                         *)
(* A capture is given a place (repository.Create).  Its evidence comes into*)
(* being whole, with the manifest as its seal (preserver.Preserve), and is *)
(* never half there.  Sealed evidence is spoilt in two ways only: another  *)
(* capture is given the same place, or a reset (handleReset) wipes it.  A  *)
(* capture that reports success has sealed its evidence.  CapturePipeline  *)
(* implements this specification at the granularity of system calls.       *)
(***************************************************************************)
CONSTANTS
    Capture,    \* one identity per capture
    Dir,        \* the places packages can have
    NoDir       \* no place yet

VARIABLES
    place,      \* the place of each capture
    evidence,   \* "absent", "sealed", or "spoilt" for good
    outcome,    \* "pending" until the capture reports or its process ends
    report,     \* the last reset: "none", "running", "clean" or "warned"
    doomed      \* captures that had an outcome when that reset began

vars == <<place, evidence, outcome, report, doomed>>

StoreTypeOK ==
    /\ place \in [Capture -> Dir \union {NoDir}]
    /\ evidence \in [Capture -> {"absent", "sealed", "spoilt"}]
    /\ outcome \in [Capture -> {"pending", "success", "failure", "lost"}]
    /\ report \in {"none", "running", "clean", "warned"}
    /\ doomed \subseteq Capture

Init ==
    /\ place = [c \in Capture |-> NoDir]
    /\ evidence = [c \in Capture |-> "absent"]
    /\ outcome = [c \in Capture |-> "pending"]
    /\ report = "none"
    /\ doomed = {}

\* c is given place d; whoever has it already is spoilt, and so is c then.
Open(c, d) ==
    /\ place[c] = NoDir /\ outcome[c] = "pending"
    /\ place' = [place EXCEPT ![c] = d]
    /\ LET here == {b \in Capture : place'[b] = d} IN
       evidence' = [b \in Capture |->
                      IF b \in here /\ here # {c} THEN "spoilt" ELSE evidence[b]]
    /\ UNCHANGED <<outcome, report, doomed>>

\* The evidence of c is there, all of it at once.
Seal(c) ==
    /\ place[c] # NoDir /\ outcome[c] = "pending"
    /\ evidence[c] = "absent"
    /\ evidence' = [evidence EXCEPT ![c] = "sealed"]
    /\ UNCHANGED <<place, outcome, report, doomed>>

\* Success is reported of evidence that was sealed.
Succeed(c) ==
    /\ outcome[c] = "pending"
    /\ evidence[c] # "absent"
    /\ outcome' = [outcome EXCEPT ![c] = "success"]
    /\ UNCHANGED <<place, evidence, report, doomed>>

\* Failure may be reported of evidence that is there: the seal was written, and
\* closing it failed.
Fail(c) ==
    /\ outcome[c] = "pending"
    /\ outcome' = [outcome EXCEPT ![c] = "failure"]
    /\ UNCHANGED <<place, evidence, report, doomed>>

\* The process ends: its captures have no outcome, what was sealed stays.
Crash ==
    \E S \in SUBSET Capture :
        /\ \A c \in S : outcome[c] = "pending"
        /\ outcome' = [c \in Capture |-> IF c \in S THEN "lost" ELSE outcome[c]]
        /\ report' = IF report = "running" THEN "none" ELSE report
        /\ UNCHANGED <<place, evidence, doomed>>

BeginReset ==
    /\ report # "running"
    /\ report' = "running"
    /\ doomed' = {c \in Capture : outcome[c] # "pending"}
    /\ UNCHANGED <<place, evidence, outcome>>

\* A reset takes something away at place d.
Wipe(d) ==
    /\ report = "running"
    /\ evidence' = [c \in Capture |->
                      IF place[c] = d THEN "spoilt" ELSE evidence[c]]
    /\ UNCHANGED <<place, outcome, report, doomed>>

\* A reset that reports no problem has left no evidence of its victims.
EndReset(r) ==
    /\ report = "running" /\ r \in {"clean", "warned"}
    /\ r = "clean" => \A c \in doomed : evidence[c] # "sealed"
    /\ report' = r
    /\ UNCHANGED <<place, evidence, outcome, doomed>>

Next ==
    \/ \E c \in Capture :
          \/ \E d \in Dir : Open(c, d)
          \/ Seal(c) \/ Succeed(c) \/ Fail(c)
    \/ Crash
    \/ BeginReset
    \/ \E d \in Dir : Wipe(d)
    \/ \E r \in {"clean", "warned"} : EndReset(r)

Spec == Init /\ [][Next]_vars
=============================================================================
