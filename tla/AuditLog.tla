------------------------------ MODULE AuditLog ------------------------------
(***************************************************************************)
(* The audit file: internal/audit, the truncation by handleReset, and what *)
(* the end of the process or a full disk leaves behind.                    *)
(*                                                                         *)
(* Every goroutine of the agent calls Log.  The time stamp is taken before *)
(* the lock, the line is written under it, and the result of Write is      *)
(* ignored.  A line cut short has no end: the next entry continues it, and *)
(* json.Unmarshal refuses both.  The wall clock is taken not to step back, *)
(* so that the order of the calls is the order of the time stamps.         *)
(***************************************************************************)
EXTENDS Naturals, Sequences, FiniteSets

CONSTANTS
    Entry,      \* one identity per call of Log
    Long,       \* the entries whose line is over 64 KB: the webhook takes 1 MB
    Torn,       \* a line that is no JSON object
    TornLong,   \* one that is over 64 KB
    MaxCalls,   \* bound: calls of Log in one behaviour
    MaxResets   \* bound: truncations of the file

ASSUME EntryAssumption ==
    /\ Long \subseteq Entry
    /\ Torn \notin Entry /\ TornLong \notin Entry /\ Torn # TornLong
    /\ MaxCalls \in Nat /\ MaxResets \in Nat

VARIABLES
    call,       \* where the call of Log for an entry is
    lines,      \* the lines of the file
    open,       \* the last line has no newline yet
    resets,     \* truncations so far
    before,     \* history: the calls that had returned when this one began
    short,      \* history: calls whose write was cut short
    erased      \* history: entries some truncation removed

\* Lines no reader can parse.
Scrap == {Torn, TornLong}

logVars == <<call, lines, open, resets, before, short, erased>>

LogTypeOK ==
    /\ call \in [Entry -> {"new", "stamped", "written", "failed", "lost"}]
    /\ lines \in Seq(Entry \union Scrap)
    /\ open \in BOOLEAN
    /\ open => lines # <<>>
    /\ resets \in 0 .. MaxResets
    /\ before \in [Entry -> SUBSET Entry]
    /\ short \subseteq Entry
    /\ erased \subseteq Entry

\* NewLogger appends to whatever file there is; it is taken to be empty.
LogInit ==
    /\ call = [e \in Entry |-> "new"]
    /\ lines = <<>>
    /\ open = FALSE
    /\ resets = 0
    /\ before = [e \in Entry |-> {}]
    /\ short = {}
    /\ erased = {}

\* The entries a reader of the file gets.
Readable == {lines[i] : i \in DOMAIN lines} \ Scrap

Returned == {e \in Entry : call[e] \in {"written", "failed"}}

Overlong == Long \union {TornLong}

\* What is left of a line when only a part of it was written.
Pieces(e) == IF e \in Long THEN Scrap ELSE {Torn}

\* The unfinished last line continued by x.
Joined(x) ==
    IF {lines[Len(lines)], x} \intersect Overlong # {} THEN {TornLong} ELSE Scrap

\* The file once x was added behind an unfinished line, or as a line.
Extended(x) ==
    IF open THEN {[lines EXCEPT ![Len(lines)] = y] : y \in Joined(x)}
    ELSE {Append(lines, x)}

\* Log reads the clock; it does not hold the lock yet.
Stamp(e) ==
    /\ call[e] = "new"
    /\ Cardinality({x \in Entry : call[x] # "new"}) < MaxCalls
    /\ call' = [call EXCEPT ![e] = "stamped"]
    /\ before' = [before EXCEPT ![e] = Returned]
    /\ UNCHANGED <<lines, open, resets, short, erased>>

\* Mutant: Log hands the entry to a goroutine that writes it, and returns.
WriteBehind(e) ==
    /\ \/ call[e] = "stamped" /\ lines' = lines /\ open' = open
       \/ /\ call[e] = "written" /\ e \notin Readable
          /\ lines' \in Extended(e) /\ open' = FALSE
    /\ call' = [call EXCEPT ![e] = "written"]
    /\ UNCHANGED <<resets, before, short, erased>>

\* Under the lock: one write of the line with its newline.
Write(e) ==
    /\ call[e] = "stamped"
    /\ lines' \in Extended(e)
    /\ open' = FALSE
    /\ call' = [call EXCEPT ![e] = "written"]
    /\ UNCHANGED <<resets, before, short, erased>>

\* What a write that is cut short leaves: nothing, a part of the object, or all
\* of it without the newline.
CutShort(e) ==
    \/ lines' = lines /\ open' = open /\ short' = short
    \/ /\ \E x \in {e} \union Pieces(e) : lines' \in Extended(x)
       /\ open' = TRUE
       /\ short' = short \union {e}

\* Write returns an error; Log ignores it.
WriteFails(e) ==
    /\ call[e] = "stamped"
    /\ CutShort(e)
    /\ call' = [call EXCEPT ![e] = "failed"]
    /\ UNCHANGED <<resets, before, erased>>

\* Mutant: the file was opened without O_APPEND: the next line is written where
\* the last one ended, behind a gap of zero bytes.
TruncateKeepsOffset ==
    /\ resets < MaxResets
    /\ resets' = resets + 1
    /\ erased' = erased \union Readable
    /\ lines' = IF lines = <<>> THEN <<>> ELSE <<Torn>>
    /\ open' = (lines # <<>>)
    /\ UNCHANGED <<call, before, short>>

\* The last write of handleReset, which knows nothing of the lock: the file is
\* emptied, and O_APPEND puts the next line at its new end.
Truncate ==
    /\ resets < MaxResets
    /\ resets' = resets + 1
    /\ erased' = erased \union Readable
    /\ lines' = <<>>
    /\ open' = FALSE
    /\ UNCHANGED <<call, before, short>>

\* The process ends in the middle of its calls, perhaps of one write; entries
\* not begun are those of the next process, which opens the file to append.
Die ==
    /\ \E e \in Entry : call[e] = "stamped"
    /\ \/ \E e \in Entry : call[e] = "stamped" /\ CutShort(e)
       \/ UNCHANGED <<lines, open, short>>
    /\ call' = [e \in Entry |-> IF call[e] = "stamped" THEN "lost" ELSE call[e]]
    /\ UNCHANGED <<resets, before, erased>>

LogStep ==
    \/ \E e \in Entry : Stamp(e) \/ Write(e) \/ WriteFails(e)
    \/ Truncate

----------------------------------------------------------------------------
(* Properties.                                                             *)

\* Entries are out of order only if their calls overlapped: what was logged
\* before another call of Log began never stands behind its entry.
CallOrderKept ==
    \A i, j \in DOMAIN lines :
        /\ i < j
        /\ {lines[i], lines[j]} \subseteq Entry
        => lines[j] \notin before[lines[i]]

\* Entries written whole and not erased are in the file, but for one at most
\* for each write that was cut short: the one that continued its line.
TornLineCostsOne ==
    Cardinality({e \in Entry : call[e] = "written"} \ (erased \union Readable))
        <= Cardinality(short)
=============================================================================
