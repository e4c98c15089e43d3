------------------------ MODULE AlertBrowser_proofs ------------------------
(***************************************************************************)
(* Proofs about the audit file and the alert list over it, for any         *)
(* entries, alerts, filters, requests and page size.                       *)
(*                                                                         *)
(* CallOrderKept is inductive once two facts join it: an entry in the file *)
(* has begun, so that taking a time stamp changes the history of no entry  *)
(* in the file; and only calls that have returned are in a history, so     *)
(* that the entry being written is in none.                                *)
(*                                                                         *)
(* TornLineCostsOne needs the account to be closed earlier: a line without *)
(* an end is a loss to come, and the write that left it has been counted.  *)
(* What is on such a line is of no call that succeeded.                    *)
(*                                                                         *)
(* NewestFirst needs the order of what a request has found and of what it  *)
(* still has to read behind it.                                            *)
(*                                                                         *)
(* AlertsAllShown: an alert the walk has not shown has at least as many    *)
(* matching alerts behind it in the file as the walk has shown rows; new   *)
(* ones only add to them.  Only what stands before the first line over     *)
(* 64 KB counts: a line without an end may grow to be that one, and then   *)
(* no request has passed it, as it was the last it could read.             *)
(***************************************************************************)
EXTENDS AlertBrowser, FiniteSetTheorems, TLAPS

LinesBegun == \A i \in DOMAIN lines : lines[i] \notin Scrap => call[lines[i]] # "new"

HistoryReturned == \A e \in Entry : before[e] \subseteq Returned

LogInv == LogTypeOK /\ LinesBegun /\ HistoryReturned /\ CallOrderKept

LEMMA JoinedIsScrap == \A x : Joined(x) \subseteq Scrap
BY DEF Joined, Scrap

LEMMA PiecesAreScrap == \A e : Pieces(e) \subseteq Scrap
BY DEF Pieces, Scrap

LEMMA EntryIsNoScrap == Entry \intersect Scrap = {}
BY EntryAssumption DEF Scrap

\* The file after a write: each line is an old one in its place, is torn, or
\* is the new one, behind all others.
LEMMA ExtendedLines ==
    ASSUME LogTypeOK, NEW x \in Entry \union Scrap, NEW s \in Extended(x)
    PROVE  /\ s \in Seq(Entry \union Scrap)
           /\ s # <<>>
           /\ \A i \in DOMAIN s :
                 \/ i \in DOMAIN lines /\ s[i] = lines[i]
                 \/ s[i] \in Scrap
                 \/ i = Len(s) /\ s[i] = x
<1>1. lines \in Seq(Entry \union Scrap)
  BY DEF LogTypeOK
<1>2. CASE open
  <2>1. lines # <<>>
    BY <1>2 DEF LogTypeOK
  <2>2. Len(lines) \in 1 .. Len(lines)
    BY <1>1, <2>1
  <2>3. PICK y \in Scrap : s = [lines EXCEPT ![Len(lines)] = y]
    BY <1>2, JoinedIsScrap DEF Extended
  <2> QED
    BY <1>1, <2>2, <2>3
<1>3. CASE ~open
  <2>1. s = Append(lines, x)
    BY <1>3 DEF Extended
  <2> QED
    BY <1>1, <2>1
<1> QED
  BY <1>2, <1>3

\* Lines that are old ones in their places, torn, or at the end that of an
\* entry whose call has begun and not returned keep the order.
LEMMA OrderAfterWrite ==
    ASSUME LogInv, NEW e \in Entry, call[e] = "stamped", before' = before,
           lines' \in Seq(Entry \union Scrap),
           \A i \in DOMAIN lines' :
              \/ i \in DOMAIN lines /\ lines'[i] = lines[i]
              \/ lines'[i] \in Scrap
              \/ i = Len(lines') /\ lines'[i] = e
    PROVE  CallOrderKept'
<1> SUFFICES ASSUME NEW i \in DOMAIN lines', NEW j \in DOMAIN lines', i < j,
                    lines'[i] \notin Scrap, lines'[j] \notin Scrap
             PROVE  lines'[j] \notin before[lines'[i]]
  BY EntryIsNoScrap DEF CallOrderKept
<1>1. i # Len(lines') /\ DOMAIN lines' = 1 .. Len(lines') /\ Len(lines') \in Nat
  OBVIOUS
<1>2. i \in DOMAIN lines /\ lines'[i] = lines[i] /\ lines[i] \in Entry
  <2>1. i \in DOMAIN lines /\ lines'[i] = lines[i]
    BY <1>1
  <2> QED
    BY <2>1 DEF LogInv, LogTypeOK
<1>3. CASE j \in DOMAIN lines /\ lines'[j] = lines[j]
  BY <1>2, <1>3 DEF LogInv, CallOrderKept
<1>4. CASE lines'[j] = e
  BY <1>2, <1>4 DEF LogInv, HistoryReturned, Returned
<1> QED
  BY <1>3, <1>4

\* What Write, WriteFails and the end of the process do to the lines.
LEMMA LinesAfterCut ==
    ASSUME LogTypeOK, NEW e \in Entry, CutShort(e)
    PROVE  /\ lines' \in Seq(Entry \union Scrap)
           /\ open' \in BOOLEAN
           /\ open' => lines' # <<>>
           /\ short' \subseteq Entry
           /\ \A i \in DOMAIN lines' :
                 \/ i \in DOMAIN lines /\ lines'[i] = lines[i]
                 \/ lines'[i] \in Scrap
                 \/ i = Len(lines') /\ lines'[i] = e
<1>1. CASE lines' = lines /\ open' = open /\ short' = short
  BY <1>1 DEF LogTypeOK
<1>2. ASSUME NEW x \in {e} \union Scrap, lines' \in Extended(x), open' = TRUE,
             short' = short \union {e}
      PROVE  /\ lines' \in Seq(Entry \union Scrap)
             /\ open' \in BOOLEAN
             /\ open' => lines' # <<>>
             /\ short' \subseteq Entry
             /\ \A i \in DOMAIN lines' :
                   \/ i \in DOMAIN lines /\ lines'[i] = lines[i]
                   \/ lines'[i] \in Scrap
                   \/ i = Len(lines') /\ lines'[i] = e
  <2>1. short' \subseteq Entry
    BY <1>2 DEF LogTypeOK
  <2> QED
    BY <1>2, <2>1, ExtendedLines
<1> QED
  BY <1>1, <1>2, PiecesAreScrap DEF CutShort

LEMMA StampStep ==
    ASSUME LogInv, NEW e \in Entry, Stamp(e)
    PROVE  LogInv'
<1>1. LogTypeOK'
  BY DEF LogInv, LogTypeOK, Stamp, Returned
<1>2. LinesBegun'
  <2> SUFFICES ASSUME NEW i \in DOMAIN lines, lines[i] \notin Scrap
               PROVE  call'[lines[i]] # "new"
    BY DEF LinesBegun, Stamp
  <2>1. lines[i] \in Entry /\ call[lines[i]] # "new"
    BY DEF LogInv, LogTypeOK, LinesBegun
  <2> QED
    BY <2>1 DEF LogInv, LogTypeOK, Stamp
<1>3. HistoryReturned'
  <2>1. Returned \subseteq Returned'
    BY DEF Returned, LogInv, LogTypeOK, Stamp
  <2> QED
    BY <2>1 DEF HistoryReturned, LogInv, LogTypeOK, Stamp
<1>4. CallOrderKept'
  <2> SUFFICES ASSUME NEW i \in DOMAIN lines, NEW j \in DOMAIN lines, i < j,
                      lines[i] \notin Scrap, lines[j] \notin Scrap
               PROVE  lines[j] \notin before'[lines[i]]
    BY EntryIsNoScrap DEF CallOrderKept, Stamp
  <2>1. lines[i] \in Entry /\ lines[j] \in Entry /\ lines[i] # e
    BY DEF LogInv, LogTypeOK, LinesBegun, Stamp
  <2>2. before'[lines[i]] = before[lines[i]]
    BY <2>1 DEF LogInv, LogTypeOK, Stamp
  <2> QED
    BY <2>1, <2>2 DEF LogInv, CallOrderKept
<1> QED
  BY <1>1, <1>2, <1>3, <1>4 DEF LogInv

\* Both ends of a write whose call returns.
LEMMA ReturnStep ==
    ASSUME LogInv, NEW e \in Entry, call[e] = "stamped",
           NEW r \in {"written", "failed"}, call' = [call EXCEPT ![e] = r],
           UNCHANGED <<resets, before, erased>>,
           lines' \in Seq(Entry \union Scrap), open' \in BOOLEAN,
           open' => lines' # <<>>, short' \subseteq Entry,
           \A i \in DOMAIN lines' :
              \/ i \in DOMAIN lines /\ lines'[i] = lines[i]
              \/ lines'[i] \in Scrap
              \/ i = Len(lines') /\ lines'[i] = e
    PROVE  LogInv'
<1>1. LogTypeOK'
  BY DEF LogInv, LogTypeOK
<1>2. LinesBegun'
  <2> SUFFICES ASSUME NEW i \in DOMAIN lines', lines'[i] \notin Scrap
               PROVE  call'[lines'[i]] # "new"
    BY DEF LinesBegun
  <2>1. CASE lines'[i] = e
    BY <2>1 DEF LogInv, LogTypeOK
  <2>2. CASE i \in DOMAIN lines /\ lines'[i] = lines[i]
    <3>1. lines[i] \in Entry /\ call[lines[i]] # "new"
      BY <2>2 DEF LogInv, LogTypeOK, LinesBegun
    <3> QED
      BY <2>2, <3>1 DEF LogInv, LogTypeOK
  <2> QED
    BY <2>1, <2>2
<1>3. HistoryReturned'
  <2>1. Returned \subseteq Returned'
    BY DEF Returned, LogInv, LogTypeOK
  <2> QED
    BY <2>1 DEF HistoryReturned, LogInv
<1>4. CallOrderKept'
  BY OrderAfterWrite
<1> QED
  BY <1>1, <1>2, <1>3, <1>4 DEF LogInv

LEMMA WriteStep ==
    ASSUME LogInv, NEW e \in Entry, Write(e)
    PROVE  LogInv'
<1>1. /\ call[e] = "stamped" /\ call' = [call EXCEPT ![e] = "written"]
      /\ lines' \in Extended(e) /\ open' = FALSE
      /\ UNCHANGED <<resets, before, short, erased>>
  BY DEF Write
<1>2. LogTypeOK /\ short' \subseteq Entry
  BY <1>1 DEF LogInv, LogTypeOK
<1>3. /\ lines' \in Seq(Entry \union Scrap)
      /\ \A i \in DOMAIN lines' :
            \/ i \in DOMAIN lines /\ lines'[i] = lines[i]
            \/ lines'[i] \in Scrap
            \/ i = Len(lines') /\ lines'[i] = e
  BY <1>1, <1>2, ExtendedLines
<1> QED
  BY <1>1, <1>2, <1>3, ReturnStep

LEMMA WriteFailsStep ==
    ASSUME LogInv, NEW e \in Entry, WriteFails(e)
    PROVE  LogInv'
<1>1. /\ call[e] = "stamped" /\ call' = [call EXCEPT ![e] = "failed"]
      /\ CutShort(e) /\ UNCHANGED <<resets, before, erased>>
  BY DEF WriteFails
<1>2. LogTypeOK
  BY DEF LogInv
<1>3. /\ lines' \in Seq(Entry \union Scrap)
      /\ open' \in BOOLEAN
      /\ open' => lines' # <<>>
      /\ short' \subseteq Entry
      /\ \A i \in DOMAIN lines' :
            \/ i \in DOMAIN lines /\ lines'[i] = lines[i]
            \/ lines'[i] \in Scrap
            \/ i = Len(lines') /\ lines'[i] = e
  BY <1>1, <1>2, LinesAfterCut
<1> QED
  BY <1>1, <1>3, ReturnStep

LEMMA TruncateStep ==
    ASSUME LogInv, Truncate
    PROVE  LogInv'
<1>1. Readable \subseteq Entry
  BY DEF Readable, LogInv, LogTypeOK
<1>2. LogTypeOK'
  <2>1. lines' \in Seq(Entry \union Scrap) /\ open' = FALSE
    BY DEF Truncate
  <2>2. resets' \in 0 .. MaxResets
    BY EntryAssumption DEF LogInv, LogTypeOK, Truncate
  <2>3. erased' \subseteq Entry /\ UNCHANGED <<call, before, short>>
    BY <1>1 DEF LogInv, LogTypeOK, Truncate
  <2> QED
    BY <2>1, <2>2, <2>3 DEF LogInv, LogTypeOK
<1>3. LinesBegun' /\ CallOrderKept'
  BY DEF LinesBegun, CallOrderKept, Truncate
<1>4. HistoryReturned'
  BY DEF HistoryReturned, Returned, LogInv, Truncate
<1> QED
  BY <1>2, <1>3, <1>4 DEF LogInv

LEMMA DieStep ==
    ASSUME LogInv, Die
    PROVE  LogInv'
<1>1. /\ call' = [e \in Entry |-> IF call[e] = "stamped" THEN "lost" ELSE call[e]]
      /\ UNCHANGED <<resets, before, erased>>
  BY DEF Die
<1>2. HistoryReturned'
  <2>1. Returned \subseteq Returned'
    BY <1>1 DEF Returned
  <2> QED
    BY <1>1, <2>1 DEF HistoryReturned, LogInv
<1>3. PICK e \in Entry :
        /\ call[e] = "stamped"
        /\ lines' \in Seq(Entry \union Scrap)
        /\ open' \in BOOLEAN
        /\ open' => lines' # <<>>
        /\ short' \subseteq Entry
        /\ \A i \in DOMAIN lines' :
              \/ i \in DOMAIN lines /\ lines'[i] = lines[i]
              \/ lines'[i] \in Scrap
              \/ i = Len(lines') /\ lines'[i] = e
  <2>1. CASE \E e \in Entry : call[e] = "stamped" /\ CutShort(e)
    BY <2>1, LinesAfterCut DEF LogInv
  <2>2. CASE UNCHANGED <<lines, open, short>>
    BY <2>2 DEF Die, LogInv, LogTypeOK
  <2> QED
    BY <2>1, <2>2 DEF Die
<1>4. LogTypeOK'
  BY <1>1, <1>3 DEF LogInv, LogTypeOK
<1>5. LinesBegun'
  <2> SUFFICES ASSUME NEW i \in DOMAIN lines', lines'[i] \notin Scrap
               PROVE  call'[lines'[i]] # "new"
    BY DEF LinesBegun
  <2>1. lines'[i] \in Entry /\ call[lines'[i]] # "new"
    BY <1>3 DEF LogInv, LogTypeOK, LinesBegun
  <2> QED
    BY <1>1, <2>1
<1>6. CallOrderKept'
  BY <1>1, <1>3, OrderAfterWrite
<1> QED
  BY <1>2, <1>4, <1>5, <1>6 DEF LogInv

LEMMA LogInvStep == LogInv /\ [Next]_vars => LogInv'
<1> SUFFICES ASSUME LogInv, [Next]_vars PROVE LogInv'
  OBVIOUS
<1>1. CASE AgentWorks
  BY <1>1, StampStep, WriteStep, WriteFailsStep, TruncateStep DEF AgentWorks, LogStep
<1>2. CASE AgentDies
  BY <1>2, DieStep DEF AgentDies
<1>3. CASE UNCHANGED logVars
  BY <1>3 DEF logVars, LogInv, LogTypeOK, LinesBegun, HistoryReturned, Returned,
              CallOrderKept
<1>4. ASSUME NEW q \in Request, Handler(q) \/ Tab(q) \/ Disconnect(q)
      PROVE  UNCHANGED logVars
  BY <1>4 DEF Handler, Tab, Disconnect, ReadLine, ReadEnd, ReadBreaks, Load, Show, ShowError
<1>5. CASE UNCHANGED vars
  BY <1>3, <1>5 DEF vars
<1> QED
  BY <1>1, <1>2, <1>3, <1>4, <1>5 DEF Next

LEMMA LogInvInit == Init => LogInv
<1> SUFFICES ASSUME Init PROVE LogInv
  OBVIOUS
<1>1. lines = <<>> /\ open = FALSE /\ before = [e \in Entry |-> {}]
  BY DEF Init, LogInit
<1>2. LogTypeOK
  <2>1. lines \in Seq(Entry \union Scrap)
    BY <1>1
  <2>2. before \in [Entry -> SUBSET Entry]
    BY <1>1
  <2>3. /\ call \in [Entry -> {"new", "stamped", "written", "failed", "lost"}]
        /\ short \subseteq Entry /\ erased \subseteq Entry
    BY DEF Init, LogInit
  <2>4. resets \in 0 .. MaxResets
    BY EntryAssumption DEF Init, LogInit
  <2> QED
    BY <1>1, <2>1, <2>2, <2>3, <2>4 DEF LogTypeOK
<1>3. LinesBegun /\ CallOrderKept
  BY <1>1 DEF LinesBegun, CallOrderKept
<1>4. HistoryReturned
  BY <1>1 DEF HistoryReturned
<1> QED
  BY <1>2, <1>3, <1>4 DEF LogInv

\* Goroutines that call Log at the same time may swap their lines, but what was
\* logged before another call of Log began never stands behind its entry: over
\* any number of calls, short writes, truncations, and ends of the process.
THEOREM CallOrderIsKept == Spec => []CallOrderKept
<1>1. LogInv => CallOrderKept
  BY DEF LogInv
<1> QED
  BY <1>1, LogInvInit, LogInvStep, PTL DEF Spec

----------------------------------------------------------------------------
(* Entries lost to torn lines.                                             *)

Swallowed == {e \in Entry : call[e] = "written"} \ (erased \union Readable)

Ended(e) == call[e] \in {"failed", "lost"}

ShortEnded == \A e \in short : Ended(e)

OpenLineFailed ==
    open => \/ lines[Len(lines)] \in Scrap
            \/ Ended(lines[Len(lines)])

AccountOK ==
    /\ IsFiniteSet(short) /\ IsFiniteSet(Swallowed)
    /\ Cardinality(Swallowed) + (IF open THEN 1 ELSE 0) <= Cardinality(short)

LossInv == LogTypeOK /\ ShortEnded /\ OpenLineFailed /\ AccountOK

\* A write takes an entry from the readers only where it continues a line.
LEMMA ExtendedKeeps ==
    ASSUME LogTypeOK, NEW x \in Entry \union Scrap, NEW s \in Extended(x),
           NEW i \in DOMAIN lines
    PROVE  /\ i \in DOMAIN s
           /\ s[i] = lines[i] \/ (open /\ i = Len(lines))
<1>1. lines \in Seq(Entry \union Scrap)
  BY DEF LogTypeOK
<1>2. CASE open
  BY <1>1, <1>2 DEF Extended
<1>3. CASE ~open
  BY <1>1, <1>3 DEF Extended
<1> QED
  BY <1>2, <1>3

LEMMA ExtendedEnd ==
    ASSUME LogTypeOK, NEW x \in Entry \union Scrap, NEW s \in Extended(x)
    PROVE  /\ Len(s) \in DOMAIN s
           /\ IF open THEN s[Len(s)] \in Scrap ELSE s[Len(s)] = x
<1>1. lines \in Seq(Entry \union Scrap)
  BY DEF LogTypeOK
<1>2. CASE open
  <2>1. Len(lines) \in 1 .. Len(lines)
    BY <1>1, <1>2 DEF LogTypeOK
  <2>2. PICK y \in Scrap : s = [lines EXCEPT ![Len(lines)] = y]
    BY <1>2, JoinedIsScrap DEF Extended
  <2>3. Len(s) = Len(lines) /\ DOMAIN s = 1 .. Len(lines)
    BY <1>1, <2>1, <2>2
  <2>4. s[Len(lines)] \in Scrap
    BY <1>1, <2>1, <2>2
  <2> QED
    BY <1>2, <2>1, <2>3, <2>4
<1>3. CASE ~open
  <2>1. s = Append(lines, x)
    BY <1>3 DEF Extended
  <2> QED
    BY <1>1, <1>3, <2>1
<1> QED
  BY <1>2, <1>3

\* What a call wrote with success is not on an unfinished line, and so stays
\* readable when that line is continued.
LEMMA WrittenStays ==
    ASSUME LossInv, NEW x \in Entry \union Scrap, lines' \in Extended(x),
           NEW e \in Readable, call[e] = "written"
    PROVE  e \in Readable'
<1>1. PICK i \in DOMAIN lines : lines[i] = e /\ e \notin Scrap
  BY DEF Readable
<1>2. ~(open /\ i = Len(lines))
  BY <1>1 DEF LossInv, OpenLineFailed, Ended
<1>3. i \in DOMAIN lines' /\ lines'[i] = e
  BY <1>1, <1>2, ExtendedKeeps DEF LossInv
<1> QED
  BY <1>1, <1>3 DEF Readable

\* The account stays balanced when nothing is lost and nothing is owed.
LEMMA NothingLost ==
    ASSUME AccountOK, Swallowed' \subseteq Swallowed, short' = short,
           open' \in BOOLEAN, open' => open
    PROVE  AccountOK'
<1>1. /\ IsFiniteSet(Swallowed')
      /\ Cardinality(Swallowed') <= Cardinality(Swallowed)
  BY FS_Subset DEF AccountOK
<1>2. /\ Cardinality(Swallowed) \in Nat /\ Cardinality(Swallowed') \in Nat
      /\ Cardinality(short) \in Nat
  BY <1>1, FS_CardinalityType DEF AccountOK
<1>3. Cardinality(Swallowed') + (IF open' THEN 1 ELSE 0) <= Cardinality(short)
  BY <1>1, <1>2 DEF AccountOK
<1>4. IsFiniteSet(short)
  BY DEF AccountOK
<1> QED
  BY <1>1, <1>3, <1>4 DEF AccountOK

\* A write that is cut short is counted, and owes one entry at most.
LEMMA CutKeepsAccount ==
    ASSUME LossInv, LogTypeOK', NEW e \in Entry, call[e] = "stamped", CutShort(e),
           erased' = erased, Ended(e)',
           \A x \in Entry : call'[x] = "written" => call[x] = "written",
           \A x \in Entry : Ended(x) => Ended(x)'
    PROVE  ShortEnded' /\ OpenLineFailed' /\ AccountOK'
<1>1. CASE lines' = lines /\ open' = open /\ short' = short
  <2>1. ShortEnded'
    BY <1>1 DEF LossInv, LogTypeOK, ShortEnded
  <2>2. OpenLineFailed'
    <3>1. open => Len(lines) \in DOMAIN lines /\ lines[Len(lines)] \in Entry \union Scrap
      BY DEF LossInv, LogTypeOK
    <3> QED
      BY <1>1, <3>1 DEF LossInv, OpenLineFailed
  <2>3. Swallowed' \subseteq Swallowed
    BY <1>1 DEF Swallowed, Readable
  <2>4. open' \in BOOLEAN
    BY DEF LogTypeOK
  <2> QED
    BY <1>1, <2>1, <2>2, <2>3, <2>4, NothingLost DEF LossInv
<1>2. ASSUME NEW x \in {e} \union Scrap, lines' \in Extended(x), open' = TRUE,
             short' = short \union {e}
      PROVE  ShortEnded' /\ OpenLineFailed' /\ AccountOK'
  <2>1. e \notin short
    BY DEF LossInv, ShortEnded, Ended
  <2>2. ShortEnded'
    BY <1>2 DEF LossInv, LogTypeOK, ShortEnded
  <2>3. OpenLineFailed'
    <3>1. lines'[Len(lines')] \in {e} \union Scrap
      BY <1>2, ExtendedEnd DEF LossInv
    <3> QED
      BY <3>1 DEF OpenLineFailed
  <2>4. Swallowed' \subseteq Swallowed
    <3> SUFFICES ASSUME NEW y \in Swallowed' PROVE y \in Swallowed
      OBVIOUS
    <3>1. y \in Entry /\ call[y] = "written" /\ y \notin erased /\ y \notin Readable'
      BY DEF Swallowed
    <3>2. y \notin Readable
      BY <1>2, <3>1, WrittenStays
    <3> QED
      BY <3>1, <3>2 DEF Swallowed
  <2>5. /\ IsFiniteSet(Swallowed) /\ IsFiniteSet(short)
        /\ Cardinality(Swallowed) + (IF open THEN 1 ELSE 0) <= Cardinality(short)
    BY DEF LossInv, AccountOK
  <2>6. IsFiniteSet(Swallowed') /\ Cardinality(Swallowed') <= Cardinality(Swallowed)
    BY <2>4, <2>5, FS_Subset
  <2>7. IsFiniteSet(short') /\ Cardinality(short') = Cardinality(short) + 1
    BY <1>2, <2>1, <2>5, FS_AddElement
  <2>8. /\ Cardinality(Swallowed) \in Nat /\ Cardinality(Swallowed') \in Nat
        /\ Cardinality(short) \in Nat
    BY <2>5, <2>6, FS_CardinalityType
  <2>9. Cardinality(Swallowed') + 1 <= Cardinality(short')
    BY <2>5, <2>6, <2>7, <2>8
  <2> QED
    BY <1>2, <2>2, <2>3, <2>6, <2>7, <2>9 DEF AccountOK
<1> QED
  BY <1>1, <1>2, PiecesAreScrap DEF CutShort

\* A write that succeeds pays with its own entry where it continues a line.
LEMMA WriteKeepsAccount ==
    ASSUME LossInv, LogTypeOK', NEW e \in Entry, Write(e)
    PROVE  LossInv'
<1>1. /\ call[e] = "stamped" /\ call' = [call EXCEPT ![e] = "written"]
      /\ lines' \in Extended(e) /\ open' = FALSE /\ short' = short /\ erased' = erased
  BY DEF Write
<1>2. ShortEnded'
  <2> SUFFICES ASSUME NEW x \in short PROVE Ended(x)'
    BY <1>1 DEF ShortEnded
  <2>1. x \in Entry /\ Ended(x)
    BY DEF LossInv, LogTypeOK, ShortEnded
  <2>2. x # e
    BY <1>1, <2>1 DEF Ended
  <2> QED
    BY <1>1, <2>1, <2>2 DEF Ended, LossInv, LogTypeOK
<1>3. OpenLineFailed'
  BY <1>1 DEF OpenLineFailed
<1>4. ASSUME NEW y \in Swallowed', y # e PROVE y \in Swallowed
  <2>1. y \in Entry /\ call[y] = "written" /\ y \notin erased /\ y \notin Readable'
    BY <1>1, <1>4 DEF Swallowed, LossInv, LogTypeOK
  <2>2. y \notin Readable
    BY <1>1, <2>1, WrittenStays
  <2> QED
    BY <2>1, <2>2 DEF Swallowed
<1>5. AccountOK'
  <2>1. CASE ~open
    <3>1. e \in Readable'
      <4>1. /\ Len(lines') \in DOMAIN lines' /\ lines'[Len(lines')] = e
        BY <1>1, <2>1, ExtendedEnd DEF LossInv
      <4>2. e \notin Scrap
        BY EntryIsNoScrap
      <4> QED
        BY <4>1, <4>2 DEF Readable
    <3>2. Swallowed' \subseteq Swallowed
      BY <1>4, <3>1 DEF Swallowed
    <3> QED
      BY <1>1, <3>2, NothingLost DEF LossInv
  <2>2. CASE open
    <3>1. /\ IsFiniteSet(Swallowed) /\ IsFiniteSet(short)
          /\ Cardinality(Swallowed) + 1 <= Cardinality(short)
      BY <2>2 DEF LossInv, AccountOK
    <3>2. /\ IsFiniteSet(Swallowed \union {e})
          /\ Cardinality(Swallowed \union {e})
                = IF e \in Swallowed THEN Cardinality(Swallowed)
                  ELSE Cardinality(Swallowed) + 1
      BY <3>1, FS_AddElement
    <3>3. Swallowed' \subseteq Swallowed \union {e}
      BY <1>4
    <3>4. /\ IsFiniteSet(Swallowed')
          /\ Cardinality(Swallowed') <= Cardinality(Swallowed \union {e})
      BY <3>2, <3>3, FS_Subset
    <3>5. /\ Cardinality(Swallowed) \in Nat /\ Cardinality(Swallowed') \in Nat
          /\ Cardinality(short) \in Nat
      BY <3>1, <3>4, FS_CardinalityType
    <3>6. Cardinality(Swallowed') + 0 <= Cardinality(short)
      BY <3>1, <3>2, <3>4, <3>5
    <3> QED
      BY <1>1, <3>1, <3>4, <3>6 DEF AccountOK
  <2> QED
    BY <2>1, <2>2 DEF LossInv, LogTypeOK
<1> QED
  BY <1>2, <1>3, <1>5 DEF LossInv

LEMMA WriteFailsKeepsAccount ==
    ASSUME LossInv, LogTypeOK', NEW e \in Entry, WriteFails(e)
    PROVE  LossInv'
<1>1. /\ call[e] = "stamped" /\ call' = [call EXCEPT ![e] = "failed"]
      /\ CutShort(e) /\ erased' = erased
  BY DEF WriteFails
<1>2. /\ Ended(e)'
      /\ \A x \in Entry : call'[x] = "written" => call[x] = "written"
      /\ \A x \in Entry : Ended(x) => Ended(x)'
  BY <1>1 DEF Ended, LossInv, LogTypeOK
<1> QED
  BY <1>1, <1>2, CutKeepsAccount DEF LossInv

LEMMA DieKeepsAccount ==
    ASSUME LossInv, LogTypeOK', Die
    PROVE  LossInv'
<1>1. /\ call' = [e \in Entry |-> IF call[e] = "stamped" THEN "lost" ELSE call[e]]
      /\ erased' = erased
  BY DEF Die
<1>2. /\ \A x \in Entry : call[x] = "stamped" => Ended(x)'
      /\ \A x \in Entry : call'[x] = "written" => call[x] = "written"
      /\ \A x \in Entry : Ended(x) => Ended(x)'
  BY <1>1 DEF Ended
<1>3. CASE \E e \in Entry : call[e] = "stamped" /\ CutShort(e)
  BY <1>1, <1>2, <1>3, CutKeepsAccount DEF LossInv
<1>4. CASE UNCHANGED <<lines, open, short>>
  <2>1. ShortEnded'
    BY <1>2, <1>4 DEF LossInv, LogTypeOK, ShortEnded
  <2>2. OpenLineFailed'
    <3>1. open => Len(lines) \in DOMAIN lines /\ lines[Len(lines)] \in Entry \union Scrap
      BY DEF LossInv, LogTypeOK
    <3> QED
      BY <1>2, <1>4, <3>1 DEF LossInv, OpenLineFailed
  <2>3. Swallowed' \subseteq Swallowed
    BY <1>1, <1>2, <1>4 DEF Swallowed, Readable
  <2>4. open' \in BOOLEAN /\ (open' => open)
    BY <1>4 DEF LogTypeOK
  <2>5. AccountOK'
    BY <1>4, <2>3, <2>4, NothingLost DEF LossInv
  <2> QED
    BY <2>1, <2>2, <2>5 DEF LossInv
<1> QED
  BY <1>3, <1>4 DEF Die

LEMMA QuietKeepsAccount ==
    ASSUME LossInv, LogTypeOK', \/ Truncate
                                \/ \E e \in Entry : Stamp(e)
                                \/ UNCHANGED logVars
    PROVE  LossInv'
<1>1. CASE Truncate
  <2>1. ShortEnded' /\ OpenLineFailed'
    BY <1>1 DEF LossInv, ShortEnded, OpenLineFailed, Ended, Truncate
  <2>2. Swallowed' \subseteq Swallowed
    BY <1>1 DEF Truncate, Swallowed
  <2>3. short' = short /\ open' = FALSE
    BY <1>1 DEF Truncate
  <2> QED
    BY <2>1, <2>2, <2>3, NothingLost DEF LossInv
<1>2. CASE \E e \in Entry : Stamp(e)
  <2>1. PICK e \in Entry : Stamp(e)
    BY <1>2
  <2>2. /\ call[e] = "new" /\ call' = [call EXCEPT ![e] = "stamped"]
        /\ lines' = lines /\ open' = open /\ short' = short /\ erased' = erased
    BY <2>1 DEF Stamp
  <2>3. /\ \A x \in Entry : call'[x] = "written" => call[x] = "written"
        /\ \A x \in Entry : Ended(x) => Ended(x)'
    BY <2>2 DEF Ended, LossInv, LogTypeOK
  <2>4. ShortEnded'
    BY <2>2, <2>3 DEF LossInv, LogTypeOK, ShortEnded
  <2>5. OpenLineFailed'
    <3>1. open => Len(lines) \in DOMAIN lines /\ lines[Len(lines)] \in Entry \union Scrap
      BY DEF LossInv, LogTypeOK
    <3> QED
      BY <2>2, <2>3, <3>1 DEF LossInv, OpenLineFailed
  <2>6. Swallowed' \subseteq Swallowed
    BY <2>2, <2>3 DEF Swallowed, Readable
  <2>7. open' \in BOOLEAN
    BY DEF LogTypeOK
  <2> QED
    BY <2>2, <2>4, <2>5, <2>6, <2>7, NothingLost DEF LossInv
<1>3. CASE UNCHANGED logVars
  BY <1>3 DEF logVars, LossInv, ShortEnded, OpenLineFailed, AccountOK, Swallowed,
              Readable, Ended
<1> QED
  BY <1>1, <1>2, <1>3

LEMMA LossInvStep == LogInv /\ LossInv /\ [Next]_vars => LossInv'
<1> SUFFICES ASSUME LogInv, LossInv, [Next]_vars PROVE LossInv'
  OBVIOUS
<1>1. LogTypeOK'
  BY LogInvStep DEF LogInv
<1>2. CASE AgentWorks
  BY <1>1, <1>2, WriteKeepsAccount, WriteFailsKeepsAccount, QuietKeepsAccount
     DEF AgentWorks, LogStep
<1>3. CASE AgentDies
  BY <1>1, <1>3, DieKeepsAccount DEF AgentDies
<1>4. ASSUME NEW q \in Request, Handler(q) \/ Tab(q) \/ Disconnect(q)
      PROVE  UNCHANGED logVars
  BY <1>4 DEF Handler, Tab, Disconnect, ReadLine, ReadEnd, ReadBreaks, Load, Show, ShowError
<1>5. CASE UNCHANGED logVars
  BY <1>1, <1>5, QuietKeepsAccount
<1>6. CASE UNCHANGED vars
  BY <1>5, <1>6 DEF vars
<1> QED
  BY <1>2, <1>3, <1>4, <1>5, <1>6 DEF Next

LEMMA LossInvInit == Init => LossInv
<1> SUFFICES ASSUME Init PROVE LossInv
  OBVIOUS
<1>1. short = {} /\ open = FALSE /\ call = [e \in Entry |-> "new"]
  BY DEF Init, LogInit
<1>2. Swallowed = {}
  BY <1>1 DEF Swallowed
<1>3. AccountOK
  BY <1>1, <1>2, FS_EmptySet DEF AccountOK
<1>4. ShortEnded /\ OpenLineFailed
  BY <1>1 DEF ShortEnded, OpenLineFailed
<1> QED
  BY <1>3, <1>4, LogInvInit DEF LossInv, LogInv

\* A write that is cut short costs at most one entry of another call, however
\* many are cut short and wherever truncations and restarts come between.
THEOREM TornLineIsCheap == Spec => []TornLineCostsOne
<1>1. LossInv => TornLineCostsOne
  <2> SUFFICES ASSUME LossInv PROVE TornLineCostsOne
    OBVIOUS
  <2>1. Cardinality(Swallowed) \in Nat /\ Cardinality(short) \in Nat
    BY FS_CardinalityType DEF LossInv, AccountOK
  <2>2. Cardinality(Swallowed) <= Cardinality(short)
    BY <2>1 DEF LossInv, AccountOK
  <2> QED
    BY <2>2 DEF TornLineCostsOne, Swallowed
<1> QED
  BY <1>1, LogInvInit, LogInvStep, LossInvInit, LossInvStep, PTL DEF Spec
----------------------------------------------------------------------------
(* The requests of the tab, and the order of what they find.               *)

Reading == [stage : {"reading"}, page : Nat, filter : Filter, pos : Nat,
            found : Seq(Alert), epoch : Nat]

AnsweredRec == [stage : {"answered"}, answer : [rows : Seq(Alert), total : Nat]]

Stopped == {Idle, [stage |-> "failed"]}

TabTypeOK ==
    /\ request \in [Request -> Stopped \union Reading \union AnsweredRec]
    /\ current \in Nat
    /\ table \in Seq(Alert)
    /\ total \in Nat

LEMMA StageTells ==
    ASSUME TabTypeOK, NEW q \in Request
    PROVE  /\ request[q].stage = "reading" => request[q] \in Reading
           /\ request[q].stage = "answered" => request[q] \in AnsweredRec
           /\ request[q].stage \in {"idle", "reading", "answered", "failed"}
<1>1. request[q] \in Stopped \union Reading \union AnsweredRec
  BY DEF TabTypeOK
<1>2. \A r \in Stopped : r.stage \in {"idle", "failed"}
  BY DEF Stopped, Idle
<1>3. \A r \in Reading : r.stage = "reading"
  BY DEF Reading
<1>4. \A r \in AnsweredRec : r.stage = "answered"
  BY DEF AnsweredRec
<1> QED
  BY <1>1, <1>2, <1>3, <1>4

\* The page that is answered: a part of what was found, backwards.
LEMMA RowsOfAnswer ==
    ASSUME NEW found \in Seq(Alert), NEW p \in Nat
    PROVE  /\ Answer(found, p) \in [rows : Seq(Alert), total : Nat]
           /\ Answer(found, p).total = Len(found)
           /\ LET rows == Answer(found, p).rows
                  left == Len(found) - p * PageSize IN
              /\ Len(rows) = IF left <= 0 THEN 0
                             ELSE IF left <= PageSize THEN left ELSE PageSize
              /\ \A i \in DOMAIN rows :
                    /\ Len(found) + 1 - p * PageSize - i \in DOMAIN found
                    /\ rows[i] = found[Len(found) + 1 - p * PageSize - i]
<1> DEFINE all  == Reverse(found)
           n    == Len(found)
           off  == p * PageSize
           last == Min({off + PageSize, Len(all)})
           rows == SubSeq(all, off + 1, last)
<1>1. all \in Seq(Alert) /\ Len(all) = n /\ \A i \in 1 .. n : all[i] = found[n - i + 1]
  BY DEF Reverse
<1>2. n \in Nat /\ off \in Nat /\ PageSize \in Nat \ {0}
  BY BrowserAssumption
<1>3. last = IF off + PageSize <= n THEN off + PageSize ELSE n
  <2>1. \E m \in {off + PageSize, n} : \A x \in {off + PageSize, n} : m <= x
    BY <1>2
  <2> QED
    BY <1>1, <1>2, <2>1 DEF Min
<1>4. Answer(found, p) = [rows |-> rows, total |-> n]
  BY <1>1 DEF Answer, Matching, Page
<1> HIDE DEF all, off, last
<1>5. /\ rows \in Seq(Alert)
      /\ Len(rows) = IF off + 1 <= last THEN last - off ELSE 0
      /\ \A i \in 1 .. Len(rows) : rows[i] = all[off + i]
  BY <1>1, <1>2, <1>3
<1>6. Len(rows) = IF n - off <= 0 THEN 0
                  ELSE IF n - off <= PageSize THEN n - off ELSE PageSize
  BY <1>2, <1>3, <1>5
<1>7. ASSUME NEW i \in DOMAIN rows
      PROVE  n + 1 - off - i \in DOMAIN found /\ rows[i] = found[n + 1 - off - i]
  <2>1. i \in 1 .. Len(rows) /\ off + i \in 1 .. n
    BY <1>2, <1>5, <1>6
  <2>2. rows[i] = found[n - (off + i) + 1]
    BY <1>1, <1>5, <2>1
  <2>3. n - (off + i) + 1 = n + 1 - off - i /\ n + 1 - off - i \in 1 .. n
    BY <1>2, <2>1
  <2>4. DOMAIN found = 1 .. n
    OBVIOUS
  <2>5. n + 1 - off - i \in DOMAIN found
    BY <2>3, <2>4
  <2>6. rows[i] = found[n + 1 - off - i]
    BY <2>2, <2>3
  <2> QED
    BY <2>5, <2>6
<1> QED
  BY <1>4, <1>5, <1>6, <1>7 DEF off

LEMMA ReadOn ==
    ASSUME NEW r \in Reading, NEW s \in Seq(Alert)
    PROVE  [r EXCEPT !.pos = r.pos + 1, !.found = s] \in Reading
<1> DEFINE on == [r EXCEPT !.pos = r.pos + 1]
<1>1. on \in Reading
  BY DEF Reading
<1>2. [on EXCEPT !.found = s] \in Reading
  BY <1>1 DEF Reading
<1> QED
  BY <1>2

\* What is answered: what was found, perhaps with a last line that has no end.
LEMMA EndOfReading ==
    ASSUME NEW q \in Request, request[q] \in Reading, ReadEnd(q) \/ ReadBreaks(q)
    PROVE  \E found \in Seq(Alert) :
              /\ Answered(q, found)
              /\ \/ found = request[q].found
                 \/ /\ request[q].pos < Len(lines)
                    /\ \E x \in {lines[request[q].pos + 1], Torn} :
                          found = Parsed(request[q].found, x, request[q].filter)
<1>1. request[q].found \in Seq(Alert) /\ request[q].pos \in Nat
  BY DEF Reading
<1>2. ASSUME NEW x PROVE Parsed(request[q].found, x, request[q].filter) \in Seq(Alert)
  BY <1>1 DEF Parsed
<1>3. CASE Answered(q, request[q].found)
  BY <1>1, <1>3
<1>4. ASSUME NEW x \in LineAt(request[q]), request[q].pos + 1 = Len(lines),
             Answered(q, Parsed(request[q].found, x, request[q].filter))
      PROVE  \E found \in Seq(Alert) :
                /\ Answered(q, found)
                /\ request[q].pos < Len(lines)
                /\ \E y \in {lines[request[q].pos + 1], Torn} :
                      found = Parsed(request[q].found, y, request[q].filter)
  <2>1. request[q].pos < Len(lines)
    BY <1>1, <1>4
  <2>2. x \in {lines[request[q].pos + 1], Torn}
    BY <1>4 DEF LineAt
  <2> QED
    BY <1>2, <1>4, <2>1, <2>2
<1> QED
  BY <1>3, <1>4 DEF ReadEnd, ReadBreaks

LEMMA TabTypeInit == Init => TabTypeOK
BY DEF Init, TabTypeOK, Stopped

LEMMA OfferedPages == TabTypeOK => Offered \subseteq Nat
BY BrowserAssumption DEF TabTypeOK, Offered

LEMMA TabTypeStep == TabTypeOK /\ LogTypeOK /\ [Next]_vars => TabTypeOK'
<1> SUFFICES ASSUME TabTypeOK, LogTypeOK, [Next]_vars PROVE TabTypeOK'
  OBVIOUS
<1>1. CASE AgentWorks \/ UNCHANGED vars
  BY <1>1 DEF AgentWorks, vars, tabVars, TabTypeOK
<1>2. CASE AgentDies
  BY <1>2 DEF AgentDies, TabTypeOK, Stopped
<1>3. ASSUME NEW q \in Request, ReadLine(q) PROVE TabTypeOK'
  <2>1. request[q] \in Reading
    BY <1>3, StageTells DEF ReadLine
  <2>2. PICK x : request' = [request EXCEPT ![q].pos = request[q].pos + 1,
                    ![q].found = Parsed(request[q].found, x, request[q].filter)]
    BY <1>3 DEF ReadLine
  <2>3. Parsed(request[q].found, x, request[q].filter) \in Seq(Alert)
    BY <2>1 DEF Parsed, Reading
  <2>4. [request[q] EXCEPT !.pos = request[q].pos + 1,
            !.found = Parsed(request[q].found, x, request[q].filter)] \in Reading
    BY <2>1, <2>3, ReadOn
  <2> QED
    BY <1>3, <2>2, <2>4 DEF TabTypeOK, ReadLine
<1>4. ASSUME NEW q \in Request, ReadEnd(q) \/ ReadBreaks(q) PROVE TabTypeOK'
  <2>1. request[q] \in Reading
    BY <1>4, StageTells DEF ReadEnd, ReadBreaks
  <2>2. PICK found \in Seq(Alert) : Answered(q, found)
    BY <1>4, <2>1, EndOfReading
  <2>3. Answer(found, request[q].page) \in [rows : Seq(Alert), total : Nat]
    BY <2>1, RowsOfAnswer DEF Reading
  <2>4. [stage |-> "answered", answer |-> Answer(found, request[q].page)] \in AnsweredRec
    BY <2>3 DEF AnsweredRec
  <2> QED
    BY <1>4, <2>2, <2>4 DEF TabTypeOK, ReadEnd, ReadBreaks, Answered
<1>5. ASSUME NEW q \in Request, NEW p \in Offered \union {0}, NEW f \in Filter,
             Load(q, p, f)
      PROVE  TabTypeOK'
  <2>1. p \in Nat /\ resets \in Nat
    BY OfferedPages DEF LogTypeOK
  <2>2. [stage |-> "reading", page |-> p, filter |-> f, pos |-> 0, found |-> <<>>,
         epoch |-> resets] \in Reading
    BY <2>1 DEF Reading
  <2> QED
    BY <1>5, <2>1, <2>2 DEF TabTypeOK, Load
<1>6. ASSUME NEW q \in Request, Show(q) PROVE TabTypeOK'
  <2>1. request[q] \in AnsweredRec
    BY <1>6, StageTells DEF Show
  <2> QED
    BY <1>6, <2>1 DEF TabTypeOK, Show, Stopped, AnsweredRec
<1>7. ASSUME NEW q \in Request, ShowError(q) \/ Disconnect(q) PROVE TabTypeOK'
  BY <1>7 DEF TabTypeOK, ShowError, Disconnect, Stopped
<1> QED
  BY <1>1, <1>2, <1>3, <1>4, <1>5, <1>6, <1>7 DEF Next, Handler, Tab

\* What every step of the log keeps: the history of a call that has begun, and
\* the order of the file behind any place in it.
LEMMA LogMoves ==
    ASSUME LogInv, LogStep \/ Die
    PROVE  /\ \A x \in Entry : call[x] # "new" =>
                 call'[x] # "new" /\ before'[x] = before[x]
           /\ \A k \in DOMAIN lines' :
                 \/ lines'[k] \in Scrap
                 \/ k \in DOMAIN lines /\ lines'[k] = lines[k]
                 \/ lines'[k] \in Entry /\ call[lines'[k]] = "stamped"
<1>1. ASSUME NEW e \in Entry, Stamp(e)
      PROVE  /\ call' = [call EXCEPT ![e] = "stamped"] /\ call[e] = "new"
             /\ before' = [before EXCEPT ![e] = Returned] /\ lines' = lines
  BY <1>1 DEF Stamp
<1>2. ASSUME NEW e \in Entry, Write(e)
      PROVE  /\ call' = [call EXCEPT ![e] = "written"] /\ call[e] = "stamped"
             /\ before' = before /\ lines' \in Extended(e)
  BY <1>2 DEF Write
<1>3. ASSUME NEW e \in Entry, WriteFails(e)
      PROVE  /\ call' = [call EXCEPT ![e] = "failed"] /\ call[e] = "stamped"
             /\ before' = before /\ CutShort(e)
  BY <1>3 DEF WriteFails
<1>4. LogTypeOK
  BY DEF LogInv
<1>5. CASE Truncate
  BY <1>5, <1>4 DEF Truncate
<1>6. CASE \E e \in Entry : Stamp(e)
  BY <1>1, <1>4, <1>6 DEF LogTypeOK
<1>7. CASE \E e \in Entry : Write(e)
  <2>1. PICK e \in Entry : Write(e)
    BY <1>7
  <2>2. \A k \in DOMAIN lines' :
          \/ k \in DOMAIN lines /\ lines'[k] = lines[k]
          \/ lines'[k] \in Scrap
          \/ lines'[k] = e
    BY <1>2, <1>4, <2>1, ExtendedLines
  <2>3. \A x \in Entry : call[x] # "new" => call'[x] # "new" /\ before'[x] = before[x]
    BY <1>2, <1>4, <2>1 DEF LogTypeOK
  <2> QED
    BY <1>2, <2>1, <2>2, <2>3
<1>8. CASE \E e \in Entry : WriteFails(e)
  <2>1. PICK e \in Entry : WriteFails(e)
    BY <1>8
  <2>2. \A k \in DOMAIN lines' :
          \/ k \in DOMAIN lines /\ lines'[k] = lines[k]
          \/ lines'[k] \in Scrap
          \/ lines'[k] = e
    BY <1>3, <1>4, <2>1, LinesAfterCut
  <2>3. \A x \in Entry : call[x] # "new" => call'[x] # "new" /\ before'[x] = before[x]
    BY <1>3, <1>4, <2>1 DEF LogTypeOK
  <2> QED
    BY <1>3, <2>1, <2>2, <2>3
<1>9. CASE Die
  <2>1. /\ \A x \in Entry : call[x] # "new" => call'[x] # "new"
        /\ before' = before
    BY <1>9 DEF Die
  <2>2. CASE UNCHANGED <<lines, open, short>>
    BY <2>1, <2>2
  <2>3. CASE \E e \in Entry : call[e] = "stamped" /\ CutShort(e)
    <3>1. PICK e \in Entry : call[e] = "stamped" /\ CutShort(e)
      BY <2>3
    <3>2. \A k \in DOMAIN lines' :
            \/ k \in DOMAIN lines /\ lines'[k] = lines[k]
            \/ lines'[k] \in Scrap
            \/ lines'[k] = e
      BY <1>4, <3>1, LinesAfterCut
    <3> QED
      BY <2>1, <3>1, <3>2
  <2> QED
    BY <1>9, <2>2, <2>3 DEF Die
<1> QED
  BY <1>5, <1>6, <1>7, <1>8, <1>9 DEF LogStep

\* Rows as they are shown: begun, and none above one that began after it.
RowsInOrder(s) ==
    /\ \A i \in DOMAIN s : call[s[i]] # "new"
    /\ \A i, j \in DOMAIN s : i < j => s[i] \notin before[s[j]]

\* What a request has found is in the order of the file, and so is what is
\* still to be read with respect to it.
FoundInOrder(r) ==
    /\ \A i \in DOMAIN r.found : call[r.found[i]] # "new"
    /\ \A i, j \in DOMAIN r.found : i < j => r.found[j] \notin before[r.found[i]]
    /\ \A i \in DOMAIN r.found, k \in DOMAIN lines :
          k > r.pos /\ lines[k] \notin Scrap => lines[k] \notin before[r.found[i]]

InOrder(r) ==
    /\ r.stage = "reading" => FoundInOrder(r)
    /\ r.stage = "answered" => RowsInOrder(r.answer.rows)

OrderInv ==
    /\ TabTypeOK
    /\ \A q \in Request : InOrder(request[q])
    /\ RowsInOrder(table)

LEMMA RowsStayInOrder ==
    ASSUME LogInv, LogStep \/ Die, NEW s \in Seq(Alert), RowsInOrder(s)
    PROVE  RowsInOrder(s)'
<1>1. \A i \in DOMAIN s : s[i] \in Entry
  BY BrowserAssumption
<1> QED
  BY <1>1, LogMoves DEF RowsInOrder

LEMMA FoundStaysInOrder ==
    ASSUME LogInv, LogStep \/ Die, NEW r \in Reading, FoundInOrder(r)
    PROVE  FoundInOrder(r)'
<1>1. r.found \in Seq(Alert) /\ \A i \in DOMAIN r.found : r.found[i] \in Entry
  BY BrowserAssumption DEF Reading
<1>2. \A i \in DOMAIN r.found : /\ call[r.found[i]] # "new"
                                /\ call'[r.found[i]] # "new"
                                /\ before'[r.found[i]] = before[r.found[i]]
  BY <1>1, LogMoves DEF FoundInOrder
<1>3. ASSUME NEW i \in DOMAIN r.found, NEW k \in DOMAIN lines', k > r.pos,
             lines'[k] \notin Scrap
      PROVE  lines'[k] \notin before[r.found[i]]
  <2>1. CASE k \in DOMAIN lines /\ lines'[k] = lines[k]
    BY <1>3, <2>1 DEF FoundInOrder
  <2>2. CASE lines'[k] \in Entry /\ call[lines'[k]] = "stamped"
    <3>1. before[r.found[i]] \subseteq Returned
      BY <1>1 DEF LogInv, HistoryReturned
    <3> QED
      BY <2>2, <3>1 DEF Returned
  <2> QED
    BY <1>3, <2>1, <2>2, LogMoves
<1> QED
  BY <1>2, <1>3 DEF FoundInOrder

\* A line that is read keeps the order, whether it is the next one or, in a
\* file that was emptied, a part of one.
LEMMA FoundByLine ==
    ASSUME LogInv, NEW r \in Reading, FoundInOrder(r), r.pos < Len(lines),
           NEW x \in {lines[r.pos + 1], Torn}, NEW found \in Seq(Alert),
           found = Parsed(r.found, x, r.filter)
    PROVE  FoundInOrder([r EXCEPT !.pos = r.pos + 1, !.found = found])
<1> DEFINE on == [r EXCEPT !.pos = r.pos + 1, !.found = found]
<1>1. on.pos = r.pos + 1 /\ on.found = found
  BY DEF Reading
<1>2. /\ r.found \in Seq(Alert) /\ r.pos \in Nat /\ lines \in Seq(Entry \union Scrap)
      /\ r.pos + 1 \in DOMAIN lines
  BY DEF Reading, LogInv, LogTypeOK
<1>3. CASE found = r.found
  BY <1>1, <1>2, <1>3 DEF FoundInOrder
<1>4. CASE found = Append(r.found, x) /\ x \in Alert
  <2>1. x = lines[r.pos + 1] /\ x \notin Scrap /\ x \in Entry
    BY <1>4, BrowserAssumption, EntryAssumption, EntryIsNoScrap
  <2>2. call[x] # "new"
    BY <1>2, <2>1 DEF LogInv, LinesBegun
  <2>3. \A i \in DOMAIN r.found : x \notin before[r.found[i]]
    BY <1>2, <2>1 DEF FoundInOrder
  <2>4. \A k \in DOMAIN lines : k > r.pos + 1 /\ lines[k] \notin Scrap => lines[k] \notin before[x]
    BY <1>2, <2>1 DEF LogInv, CallOrderKept
  <2>5. /\ DOMAIN found = DOMAIN r.found \union {Len(r.found) + 1}
        /\ \A i \in DOMAIN r.found : found[i] = r.found[i] /\ i < Len(r.found) + 1
        /\ found[Len(r.found) + 1] = x
    BY <1>2, <1>4
  <2>6. \A i \in DOMAIN found : call[found[i]] # "new"
    BY <2>2, <2>5 DEF FoundInOrder
  <2>7. \A i, j \in DOMAIN found : i < j => found[j] \notin before[found[i]]
    <3> SUFFICES ASSUME NEW i \in DOMAIN found, NEW j \in DOMAIN found, i < j
                 PROVE  found[j] \notin before[found[i]]
      OBVIOUS
    <3>1. i \in DOMAIN r.found
      BY <1>2, <1>4
    <3> QED
      BY <2>3, <2>5, <3>1 DEF FoundInOrder
  <2>8. \A i \in DOMAIN found, k \in DOMAIN lines :
          k > r.pos + 1 /\ lines[k] \notin Scrap => lines[k] \notin before[found[i]]
    <3>1. \A k \in DOMAIN lines : k > r.pos + 1 => k > r.pos
      BY <1>2
    <3> QED
      BY <2>4, <2>5, <3>1 DEF FoundInOrder
  <2> HIDE DEF on
  <2> QED
    BY <1>1, <2>6, <2>7, <2>8 DEF FoundInOrder
<1> QED
  BY <1>3, <1>4 DEF Parsed

\* The answer turns the order of the file round.
LEMMA AnswerInOrder ==
    ASSUME NEW r \in Reading, FoundInOrder(r)
    PROVE  RowsInOrder(Answer(r.found, r.page).rows)
<1> DEFINE n    == Len(r.found)
           off  == r.page * PageSize
           rows == Answer(r.found, r.page).rows
<1>1. r.found \in Seq(Alert) /\ r.page \in Nat /\ n \in Nat /\ off \in Nat
  BY BrowserAssumption DEF Reading
<1>2. /\ Len(rows) \in Nat /\ DOMAIN rows = 1 .. Len(rows)
      /\ \A i \in DOMAIN rows : /\ n + 1 - off - i \in DOMAIN r.found
                                /\ rows[i] = r.found[n + 1 - off - i]
  <2>1. rows \in Seq(Alert)
    BY <1>1, RowsOfAnswer
  <2>2. \A i \in DOMAIN rows :
           /\ Len(r.found) + 1 - r.page * PageSize - i \in DOMAIN r.found
           /\ rows[i] = r.found[Len(r.found) + 1 - r.page * PageSize - i]
    BY <1>1, RowsOfAnswer, Zenon
  <2>3. Len(rows) \in Nat /\ DOMAIN rows = 1 .. Len(rows)
    <3> HIDE DEF rows
    <3> QED
      BY <2>1
  <2> QED
    BY <2>2, <2>3
<1> HIDE DEF rows, off, n
<1>3. \A i, j \in DOMAIN rows : i < j => n + 1 - off - j < n + 1 - off - i
  BY <1>1, <1>2
<1>4. \A i, j \in DOMAIN rows : i < j => rows[i] \notin before[rows[j]]
  BY <1>2, <1>3 DEF FoundInOrder
<1>5. \A i \in DOMAIN rows : call[rows[i]] # "new"
  BY <1>2 DEF FoundInOrder
<1>6. RowsInOrder(rows)
  BY <1>4, <1>5 DEF RowsInOrder
<1> QED
  BY <1>6 DEF rows

LEMMA OrderInit == Init => OrderInv
<1> SUFFICES ASSUME Init PROVE OrderInv
  OBVIOUS
<1>1. \A q \in Request : InOrder(request[q])
  BY DEF Init, Idle, InOrder
<1>2. RowsInOrder(table)
  BY DEF Init, RowsInOrder
<1> QED
  BY <1>1, <1>2, TabTypeInit DEF OrderInv

\* A step of the tab or of a handler that gives one request a new state.
LEMMA OneRequest ==
    ASSUME OrderInv, UNCHANGED logVars, NEW q \in Request, NEW r,
           request' = [request EXCEPT ![q] = r], InOrder(r)
    PROVE  \A o \in Request : InOrder(request[o])'
<1>1. \A o \in Request : InOrder(request'[o])
  BY DEF OrderInv, TabTypeOK
<1> QED
  BY <1>1 DEF InOrder, FoundInOrder, RowsInOrder, logVars

LEMMA OrderStep == LogInv /\ OrderInv /\ [Next]_vars => OrderInv'
<1> SUFFICES ASSUME LogInv, OrderInv, [Next]_vars PROVE OrderInv'
  OBVIOUS
<1>1. TabTypeOK'
  BY TabTypeStep DEF OrderInv, LogInv
<1>2. TabTypeOK /\ table \in Seq(Alert)
  BY DEF OrderInv, TabTypeOK
<1>3. ASSUME UNCHANGED logVars, UNCHANGED table PROVE RowsInOrder(table)'
  BY <1>3 DEF OrderInv, RowsInOrder, logVars
<1>4. ASSUME LogStep \/ Die, UNCHANGED table,
             \A q \in Request : request'[q] \in {request[q], [stage |-> "failed"]}
      PROVE  OrderInv'
  <2>1. RowsInOrder(table)'
    <3>1. \A s \in Seq(Alert) : RowsInOrder(s) => RowsInOrder(s)'
      BY <1>4, RowsStayInOrder
    <3>2. RowsInOrder(table) /\ table' = table
      BY <1>4 DEF OrderInv
    <3> QED
      BY <1>2, <3>1, <3>2 DEF RowsInOrder
  <2>2. ASSUME NEW q \in Request PROVE InOrder(request[q])'
    <3>1. request'[q].stage = "reading" =>
             request'[q] = request[q] /\ request[q] \in Reading /\ FoundInOrder(request[q])
      BY <1>2, <1>4, StageTells DEF OrderInv, InOrder
    <3>2. \A r \in Reading : FoundInOrder(r) => FoundInOrder(r)'
      BY <1>4, FoundStaysInOrder
    <3>3. request'[q].stage = "answered" =>
             /\ request'[q] = request[q] /\ request[q].answer.rows \in Seq(Alert)
             /\ RowsInOrder(request[q].answer.rows)
      BY <1>2, <1>4, StageTells DEF OrderInv, InOrder, AnsweredRec
    <3>4. \A s \in Seq(Alert) : RowsInOrder(s) => RowsInOrder(s)'
      BY <1>4, RowsStayInOrder
    <3>5. request'[q].stage = "reading" => FoundInOrder(request[q])'
      BY <3>1, <3>2 DEF FoundInOrder
    <3>6. request'[q].stage = "answered" => RowsInOrder(request[q].answer.rows)'
      BY <3>3, <3>4 DEF RowsInOrder
    <3> QED
      BY <3>5, <3>6 DEF InOrder
  <2> QED
    BY <1>1, <2>1, <2>2 DEF OrderInv
<1>5. CASE AgentWorks
  <2>1. LogStep /\ table' = table /\ request' = request
    BY <1>5 DEF AgentWorks, tabVars
  <2> QED
    BY <1>4, <2>1
<1>6. CASE AgentDies
  BY <1>4, <1>6 DEF AgentDies
<1>7. ASSUME NEW q \in Request, ReadLine(q) PROVE OrderInv'
  <2>1. request[q] \in Reading /\ FoundInOrder(request[q])
    BY <1>2, <1>7, StageTells DEF ReadLine, OrderInv, InOrder
  <2>2. PICK x \in {lines[request[q].pos + 1], Torn} :
           request' = [request EXCEPT ![q].pos = request[q].pos + 1,
                    ![q].found = Parsed(request[q].found, x, request[q].filter)]
    BY <1>7 DEF ReadLine, LineAt
  <2> DEFINE found == Parsed(request[q].found, x, request[q].filter)
             on    == [request[q] EXCEPT !.pos = request[q].pos + 1, !.found = found]
  <2>3. found \in Seq(Alert)
    BY <2>1 DEF Parsed, Reading
  <2>4. request[q].pos < Len(lines)
    <3>1. Len(lines) \in Nat /\ request[q].pos \in Nat
      BY <2>1 DEF LogInv, LogTypeOK, Reading
    <3> QED
      BY <1>7, <3>1 DEF ReadLine
  <2>5. FoundInOrder(on)
    BY <2>1, <2>3, <2>4, FoundByLine
  <2>6. on.stage = "reading"
    BY <2>1 DEF Reading
  <2>7. InOrder(on)
    BY <2>5, <2>6 DEF InOrder
  <2>8. request' = [request EXCEPT ![q] = on]
    BY <1>2, <2>2 DEF TabTypeOK
  <2>9. UNCHANGED logVars /\ UNCHANGED table
    BY <1>7 DEF ReadLine
  <2> HIDE DEF on
  <2> QED
    BY <1>1, <1>3, <2>7, <2>8, <2>9, OneRequest DEF OrderInv
<1>8. ASSUME NEW q \in Request, ReadEnd(q) \/ ReadBreaks(q) PROVE OrderInv'
  <2>1. request[q] \in Reading /\ FoundInOrder(request[q])
    BY <1>2, <1>8, StageTells DEF ReadEnd, ReadBreaks, OrderInv, InOrder
  <2>2. PICK found \in Seq(Alert) :
           /\ Answered(q, found)
           /\ \/ found = request[q].found
              \/ /\ request[q].pos < Len(lines)
                 /\ \E x \in {lines[request[q].pos + 1], Torn} :
                       found = Parsed(request[q].found, x, request[q].filter)
    BY <1>8, <2>1, EndOfReading
  <2> DEFINE r  == [stage |-> "answered", answer |-> Answer(found, request[q].page)]
             on == [request[q] EXCEPT !.pos = request[q].pos + 1, !.found = found]
  <2>3. RowsInOrder(Answer(found, request[q].page).rows)
    <3>1. CASE found = request[q].found
      BY <2>1, <3>1, AnswerInOrder
    <3>2. CASE found # request[q].found
      <4>1. FoundInOrder(on)
        BY <2>1, <2>2, <3>2, FoundByLine
      <4>2. on \in Reading /\ on.found = found /\ on.page = request[q].page
        BY <2>1, ReadOn DEF Reading
      <4> HIDE DEF on
      <4> QED
        BY <4>1, <4>2, AnswerInOrder
    <3> QED
      BY <3>1, <3>2
  <2>4. InOrder(r)
    BY <2>3 DEF InOrder
  <2>5. request' = [request EXCEPT ![q] = r] /\ UNCHANGED logVars /\ UNCHANGED table
    BY <1>8, <2>2 DEF ReadEnd, ReadBreaks, Answered
  <2> HIDE DEF r
  <2> QED
    BY <1>1, <1>3, <2>4, <2>5, OneRequest DEF OrderInv
<1>9. ASSUME NEW q \in Request, NEW p, NEW f, Load(q, p, f) PROVE OrderInv'
  <2> DEFINE r == [stage |-> "reading", page |-> p, filter |-> f, pos |-> 0,
                   found |-> <<>>, epoch |-> resets]
  <2>1. InOrder(r)
    BY DEF InOrder, FoundInOrder
  <2>2. request' = [request EXCEPT ![q] = r] /\ UNCHANGED logVars /\ UNCHANGED table
    BY <1>9 DEF Load
  <2> HIDE DEF r
  <2> QED
    BY <1>1, <1>3, <2>1, <2>2, OneRequest DEF OrderInv
<1>10. ASSUME NEW r \in Stopped PROVE InOrder(r)
  BY DEF Stopped, Idle, InOrder
<1>11. ASSUME NEW q \in Request, Show(q) PROVE OrderInv'
  <2>1. RowsInOrder(request[q].answer.rows)
    BY <1>11 DEF Show, OrderInv, InOrder
  <2>2. /\ request' = [request EXCEPT ![q] = Idle] /\ UNCHANGED logVars
        /\ table' = request[q].answer.rows
    BY <1>11 DEF Show
  <2>3. RowsInOrder(table)'
    BY <2>1, <2>2 DEF RowsInOrder, logVars
  <2>4. InOrder(Idle)
    BY <1>10 DEF Stopped
  <2> QED
    BY <1>1, <2>2, <2>3, <2>4, OneRequest DEF OrderInv
<1>12. ASSUME NEW q \in Request, ShowError(q) \/ Disconnect(q) PROVE OrderInv'
  <2>1. PICK r \in Stopped : /\ request' = [request EXCEPT ![q] = r]
                             /\ UNCHANGED logVars /\ UNCHANGED table
    BY <1>12 DEF ShowError, Disconnect, Stopped
  <2> QED
    BY <1>1, <1>3, <1>10, <2>1, OneRequest DEF OrderInv
<1>13. CASE UNCHANGED vars
  BY <1>1, <1>13 DEF vars, tabVars, logVars, OrderInv, InOrder, FoundInOrder, RowsInOrder
<1> QED
  BY <1>5, <1>6, <1>7, <1>8, <1>9, <1>11, <1>12, <1>13 DEF Next, Handler, Tab

\* "Reverse so newest first": the table shown respects the order of the calls of
\* Log: no alert in it stands above one whose call began only after it had been
\* logged, for any number of alerts, requests, filters and pages, whichever
\* answers arrive first and wherever the file is emptied while it is read.
THEOREM NewestOnTop == Spec => []NewestFirst
<1>1. OrderInv => NewestFirst
  BY DEF OrderInv, RowsInOrder, NewestFirst
<1> QED
  BY <1>1, LogInvInit, LogInvStep, OrderInit, OrderStep, PTL DEF Spec

----------------------------------------------------------------------------
(* Entries stand in the file once, and readers who lose none can go on     *)
(* counting from where they were.                                          *)

Done == {"written", "failed", "lost"}

LinesOnce ==
    /\ \A i \in DOMAIN lines : lines[i] \notin Scrap => call[lines[i]] \in Done
    /\ \A i, j \in DOMAIN lines : lines[i] = lines[j] /\ lines[i] \notin Scrap => i = j

LEMMA LogWrites ==
    ASSUME LogTypeOK, LogStep \/ Die
    PROVE  /\ \A y \in Entry : call[y] \in Done => call'[y] \in Done
           /\ \/ lines' = lines /\ resets' = resets /\ open' = open
              \/ lines' = <<>>
              \/ \E e \in Entry, x \in Entry \union Scrap :
                    /\ call[e] = "stamped" /\ call'[e] \in Done /\ x \in {e} \union Scrap
                    /\ lines' \in Extended(x) /\ resets' = resets
<1>1. CASE \E e \in Entry : Stamp(e)
  BY <1>1 DEF Stamp, LogTypeOK, Done
<1>2. CASE \E e \in Entry : Write(e)
  BY <1>2 DEF Write, LogTypeOK, Done
<1>3. CASE \E e \in Entry : WriteFails(e)
  <2>1. PICK e \in Entry : WriteFails(e)
    BY <1>3
  <2>2. /\ call[e] = "stamped" /\ call' = [call EXCEPT ![e] = "failed"]
        /\ CutShort(e) /\ resets' = resets
    BY <2>1 DEF WriteFails
  <2>3. call'[e] \in Done /\ \A y \in Entry : call[y] \in Done => call'[y] \in Done
    BY <2>2 DEF LogTypeOK, Done
  <2> QED
    BY <2>2, <2>3, PiecesAreScrap DEF CutShort
<1>4. CASE Truncate
  BY <1>4 DEF Truncate, Done
<1>5. CASE Die
  <2>1. /\ \A y \in Entry : call[y] \in Done => call'[y] \in Done
        /\ \A y \in Entry : call[y] = "stamped" => call'[y] \in Done
        /\ resets' = resets
    BY <1>5 DEF Die, Done
  <2> QED
    BY <1>5, <2>1, PiecesAreScrap DEF Die, CutShort
<1> QED
  BY <1>1, <1>2, <1>3, <1>4, <1>5 DEF LogStep

LEMMA OnceStep == LogTypeOK /\ LinesOnce /\ [Next]_vars => LinesOnce'
<1> SUFFICES ASSUME LogTypeOK, LinesOnce, [Next]_vars PROVE LinesOnce'
  OBVIOUS
<1>1. CASE LogStep \/ Die
  <2>1. \A y \in Entry : call[y] \in Done => call'[y] \in Done
    BY <1>1, LogWrites
  <2>2. \A i \in DOMAIN lines : lines[i] \notin Scrap => lines[i] \in Entry
    BY DEF LogTypeOK
  <2>3. CASE lines' = lines
    BY <2>1, <2>2, <2>3 DEF LinesOnce
  <2>4. CASE lines' = <<>>
    BY <2>4 DEF LinesOnce
  <2>5. ASSUME NEW e \in Entry, NEW x \in Entry \union Scrap, call[e] = "stamped",
               call'[e] \in Done, x \in {e} \union Scrap, lines' \in Extended(x)
        PROVE  LinesOnce'
    <3>1. \A k \in DOMAIN lines' :
             \/ k \in DOMAIN lines /\ lines'[k] = lines[k]
             \/ lines'[k] \in Scrap
             \/ k = Len(lines') /\ lines'[k] = x
      BY <2>5, ExtendedLines
    <3>2. \A k \in DOMAIN lines : lines[k] # e
      BY <2>2, <2>5, EntryIsNoScrap DEF LinesOnce, Done
    <3>3. \A k \in DOMAIN lines' : lines'[k] \notin Scrap => call'[lines'[k]] \in Done
      BY <2>1, <2>2, <2>5, <3>1 DEF LinesOnce
    <3>4. \A i, j \in DOMAIN lines' : lines'[i] = lines'[j] /\ lines'[i] \notin Scrap => i = j
      BY <2>5, <3>1, <3>2 DEF LinesOnce
    <3> QED
      BY <3>3, <3>4 DEF LinesOnce
  <2> QED
    BY <1>1, <2>3, <2>4, <2>5, LogWrites
<1>2. CASE UNCHANGED logVars
  BY <1>2 DEF logVars, LinesOnce, Done
<1>3. ASSUME NEW q \in Request, Handler(q) \/ Tab(q) \/ Disconnect(q)
      PROVE  UNCHANGED logVars
  BY <1>3 DEF Handler, Tab, Disconnect, ReadLine, ReadEnd, ReadBreaks, Load, Show, ShowError
<1> QED
  BY <1>1, <1>2, <1>3 DEF Next, AgentWorks, AgentDies, vars

\* What stands behind a line without an end stays where it is while no entry is
\* lost to the readers, and no line they did not reach comes to be reached.
LEMMA ReadersGoOn ==
    ASSUME LogTypeOK, LogTypeOK', LinesOnce, LogStep \/ Die, Visible \subseteq Visible',
           Visible # {}
    PROVE  /\ resets' = resets
           /\ Len(lines) <= Len(lines')
           /\ open' /\ Len(lines') = Len(lines) => open
           /\ \A k \in DOMAIN lines : lines'[k] = lines[k] \/ (open /\ k = Len(lines))
           /\ \A k \in Reached(lines) : lines[k] \notin Scrap =>
                 k \in Reached(lines') /\ lines'[k] = lines[k]
           /\ \A k \in Reached(lines') : k <= Len(lines) =>
                 k \in Reached(lines) /\ lines'[k] = lines[k]
<1>1. /\ lines \in Seq(Entry \union Scrap) /\ lines' \in Seq(Entry \union Scrap)
      /\ open => Len(lines) \in DOMAIN lines
      /\ DOMAIN lines = 1 .. Len(lines) /\ Len(lines) \in Nat
      /\ DOMAIN lines' = 1 .. Len(lines') /\ Len(lines') \in Nat
  BY DEF LogTypeOK
<1>2. CASE lines' = lines /\ resets' = resets /\ open' = open
  BY <1>1, <1>2 DEF Reached
<1>3. lines' # <<>>
  BY DEF Visible, Reached
<1>4. ASSUME NEW e \in Entry, NEW x \in Entry \union Scrap,
             lines' \in Extended(x), resets' = resets
      PROVE  /\ Len(lines) <= Len(lines')
             /\ open' /\ Len(lines') = Len(lines) => open
             /\ \A k \in DOMAIN lines : lines'[k] = lines[k] \/ (open /\ k = Len(lines))
             /\ \A k \in Reached(lines) : lines[k] \notin Scrap =>
                   k \in Reached(lines') /\ lines'[k] = lines[k]
             /\ \A k \in Reached(lines') : k <= Len(lines) =>
                   k \in Reached(lines) /\ lines'[k] = lines[k]
  <2>1. CASE ~open
    <3>1. lines' = Append(lines, x)
      BY <1>4, <2>1 DEF Extended
    <3>2. /\ Len(lines') = Len(lines) + 1
          /\ \A k \in DOMAIN lines : lines'[k] = lines[k] /\ k \in DOMAIN lines'
      BY <1>1, <3>1
    <3>3. \A k \in DOMAIN lines : 1 .. k \subseteq DOMAIN lines
      BY <1>1
    <3>4. \A k \in DOMAIN lines : k \in Reached(lines) <=> k \in Reached(lines')
      BY <3>2, <3>3 DEF Reached
    <3>5. \A k \in DOMAIN lines' : k <= Len(lines) => k \in DOMAIN lines
      BY <1>1
    <3>6. Reached(lines) \subseteq DOMAIN lines /\ Reached(lines') \subseteq DOMAIN lines'
      BY DEF Reached
    <3>7. \A k \in Reached(lines) : k \in Reached(lines') /\ lines'[k] = lines[k]
      BY <3>2, <3>4, <3>6
    <3>8. \A k \in Reached(lines') : k <= Len(lines) =>
             k \in Reached(lines) /\ lines'[k] = lines[k]
      BY <3>2, <3>4, <3>5, <3>6
    <3>9. Len(lines) <= Len(lines') /\ ~(Len(lines') = Len(lines))
      <4>1. Len(lines) \in Nat /\ Len(lines') = Len(lines) + 1
        BY <1>1, <3>2
      <4> QED
        BY <4>1
    <3>10. \A k \in DOMAIN lines : lines'[k] = lines[k]
      BY <3>2
    <3> QED
      <4>1. open' /\ Len(lines') = Len(lines) => open
        BY <3>9
      <4>2. \A k \in DOMAIN lines : lines'[k] = lines[k] \/ (open /\ k = Len(lines))
        BY <3>10
      <4>3. \A k \in Reached(lines) : lines[k] \notin Scrap =>
               k \in Reached(lines') /\ lines'[k] = lines[k]
        BY <3>7
      <4> QED
        BY <3>8, <3>9, <4>1, <4>2, <4>3
  <2>2. CASE open
    <3> DEFINE n == Len(lines)
    <3>1. PICK y \in Joined(x) : lines' = [lines EXCEPT ![n] = y]
      BY <1>4, <2>2 DEF Extended
    <3>2. /\ n \in DOMAIN lines /\ Len(lines') = n /\ DOMAIN lines' = DOMAIN lines
          /\ lines'[n] = y /\ \A k \in DOMAIN lines : k # n => lines'[k] = lines[k]
      BY <1>1, <2>2, <3>1
    <3>3. /\ y \in Scrap
          /\ y \notin Overlong => y = Torn /\ lines[n] \notin Overlong
      BY <3>1 DEF Joined, Scrap, Overlong
    <3>4. ASSUME n \in Reached(lines) PROVE lines[n] = Torn
      <4> SUFFICES ASSUME lines[n] # Torn PROVE FALSE
        OBVIOUS
      <4>1. lines[n] \in Visible'
        BY <3>4 DEF Visible
      <4>2. PICK i \in DOMAIN lines' : lines'[i] = lines[n]
        BY <4>1 DEF Visible, Reached
      <4>3. lines[n] \notin Scrap
        <5>1. n \in 1 .. n
          BY <1>1, <3>2
        <5>2. lines[n] \notin Overlong
          BY <3>4, <5>1 DEF Reached
        <5> QED
          BY <5>2 DEF Scrap, Overlong
      <4>4. i # n /\ lines[i] = lines[n] /\ i \in DOMAIN lines
        BY <3>2, <3>3, <4>2, <4>3
      <4> QED
        BY <3>2, <4>3, <4>4 DEF LinesOnce
    <3>5. \A k \in DOMAIN lines : /\ 1 .. k \subseteq DOMAIN lines
                                  /\ k # n => n \notin 1 .. k
      BY <1>1, <3>2
    <3>6. \A k \in DOMAIN lines : k # n =>
             (k \in Reached(lines) <=> k \in Reached(lines'))
      BY <3>2, <3>5 DEF Reached
    <3>7. ASSUME n \in Reached(lines') PROVE n \in Reached(lines) /\ lines'[n] = lines[n]
      <4>1. n \in 1 .. n
        BY <1>1, <3>2
      <4>2. y \notin Overlong
        BY <3>2, <3>7, <4>1 DEF Reached
      <4>3. \A m \in 1 .. n : lines[m] \notin Overlong
        BY <3>2, <3>3, <3>5, <3>7, <4>2 DEF Reached
      <4>4. n \in Reached(lines)
        BY <3>2, <4>3 DEF Reached
      <4> QED
        BY <3>2, <3>3, <3>4, <4>2, <4>4
    <3>8. Reached(lines) \subseteq DOMAIN lines /\ Reached(lines') \subseteq DOMAIN lines
      BY <3>2 DEF Reached
    <3>9. Torn \in Scrap
      BY DEF Scrap
    <3> HIDE DEF n
    <3>10. Len(lines) = n /\ n \in Nat
      BY <1>1 DEF n
    <3> QED
      BY <2>2, <3>2, <3>4, <3>6, <3>7, <3>8, <3>9, <3>10
  <2> QED
    BY <2>1, <2>2
<1> QED
  BY <1>2, <1>3, <1>4, LogWrites

\* The places in file L a reader reaches that hold an alert of f and come after
\* g, and of those the ones a reader at pos has read.
Behind(L, f, g) ==
    {k \in Reached(L) : L[k] \in f /\ \E i \in Reached(L) : i < k /\ L[i] = g}

ReadBehind(L, f, g, pos) == {k \in Behind(L, f, g) : k <= pos}

LEMMA BehindCounted ==
    ASSUME NEW L \in Seq(Entry \union Scrap), NEW f, NEW g
    PROVE  /\ IsFiniteSet(Behind(L, f, g)) /\ Cardinality(Behind(L, f, g)) \in Nat
           /\ \A pos : /\ IsFiniteSet(ReadBehind(L, f, g, pos))
                       /\ Cardinality(ReadBehind(L, f, g, pos)) \in Nat
<1>1. DOMAIN L = 1 .. Len(L) /\ Len(L) \in Nat
  OBVIOUS
<1>2. IsFiniteSet(DOMAIN L)
  BY <1>1, FS_Interval
<1>3. /\ Behind(L, f, g) \subseteq DOMAIN L
      /\ \A pos : ReadBehind(L, f, g, pos) \subseteq DOMAIN L
  BY DEF Behind, ReadBehind, Reached
<1> QED
  BY <1>2, <1>3, FS_Subset, FS_CardinalityType

\* What comes after an alert grows with the file; what was read of it stays.
LEMMA BehindGrows ==
    ASSUME NEW L \in Seq(Entry \union Scrap), NEW M \in Seq(Entry \union Scrap),
           \A k \in Reached(L) : L[k] \notin Scrap => k \in Reached(M) /\ M[k] = L[k],
           \A k \in Reached(M) : k <= Len(L) => k \in Reached(L) /\ M[k] = L[k],
           NEW f \in SUBSET Entry, NEW g \in Entry
    PROVE  /\ Cardinality(Behind(L, f, g)) <= Cardinality(Behind(M, f, g))
           /\ \A pos \in Nat : pos <= Len(L) =>
                 ReadBehind(M, f, g, pos) = ReadBehind(L, f, g, pos)
<1>1. /\ DOMAIN L = 1 .. Len(L) /\ DOMAIN M = 1 .. Len(M)
      /\ Len(L) \in Nat /\ Len(M) \in Nat
      /\ Reached(L) \subseteq DOMAIN L /\ Reached(M) \subseteq DOMAIN M
  BY DEF Reached
<1>2. \A k \in Reached(L) : L[k] \in f \/ L[k] = g => k \in Reached(M) /\ M[k] = L[k]
  BY EntryIsNoScrap
<1>3. Behind(L, f, g) \subseteq Behind(M, f, g)
  BY <1>2 DEF Behind
<1>4. IsFiniteSet(Behind(M, f, g))
  BY BehindCounted
<1>5. ASSUME NEW pos \in Nat, pos <= Len(L)
      PROVE  ReadBehind(M, f, g, pos) \subseteq ReadBehind(L, f, g, pos)
  <2> SUFFICES ASSUME NEW k \in ReadBehind(M, f, g, pos)
               PROVE  k \in ReadBehind(L, f, g, pos)
    OBVIOUS
  <2>1. k \in Reached(M) /\ k <= pos /\ M[k] \in f
    BY DEF Behind, ReadBehind
  <2>2. PICK i \in Reached(M) : i < k /\ M[i] = g
    BY DEF Behind, ReadBehind
  <2>3. k <= Len(L) /\ i <= Len(L)
    BY <1>1, <1>5, <2>1, <2>2
  <2>4. k \in Reached(L) /\ i \in Reached(L) /\ L[k] \in f /\ L[i] = g
    BY <2>1, <2>2, <2>3
  <2> QED
    BY <2>1, <2>2, <2>4 DEF Behind, ReadBehind
<1>6. \A pos \in Nat : ReadBehind(L, f, g, pos) \subseteq ReadBehind(M, f, g, pos)
  BY <1>3 DEF ReadBehind
<1> QED
  BY <1>3, <1>4, <1>5, <1>6, FS_Subset

\* One more line read behind g is one more alert if the filter lets it through.
LEMMA BehindByLine ==
    ASSUME NEW L \in Seq(Entry \union Scrap), NEW f, NEW g, NEW pos \in Nat,
           pos < Len(L), pos + 1 \in Reached(L), NEW i \in Reached(L), L[i] = g, i <= pos
    PROVE  Cardinality(ReadBehind(L, f, g, pos + 1)) =
              Cardinality(ReadBehind(L, f, g, pos)) + (IF L[pos + 1] \in f THEN 1 ELSE 0)
<1>1. i < pos + 1 /\ Reached(L) \subseteq Nat
  BY DEF Reached
<1>2. \A k \in Reached(L) : k <= pos + 1 <=> k <= pos \/ k = pos + 1
  BY <1>1
<1>3. ~(pos + 1 <= pos)
  OBVIOUS
<1>4. ReadBehind(L, f, g, pos + 1) =
         IF L[pos + 1] \in f THEN ReadBehind(L, f, g, pos) \union {pos + 1}
         ELSE ReadBehind(L, f, g, pos)
  BY <1>1, <1>2 DEF ReadBehind, Behind
<1>5. pos + 1 \notin ReadBehind(L, f, g, pos)
  BY <1>3 DEF ReadBehind
<1>6. /\ IsFiniteSet(ReadBehind(L, f, g, pos))
      /\ Cardinality(ReadBehind(L, f, g, pos)) \in Nat
  BY BehindCounted
<1>7. CASE L[pos + 1] \in f
  <2>1. /\ IsFiniteSet(ReadBehind(L, f, g, pos) \union {pos + 1})
        /\ Cardinality(ReadBehind(L, f, g, pos) \union {pos + 1}) =
              Cardinality(ReadBehind(L, f, g, pos)) + 1
    BY <1>5, <1>6, FS_AddElement
  <2> QED
    BY <1>4, <1>7, <2>1
<1> QED
  BY <1>4, <1>6, <1>7

----------------------------------------------------------------------------
(* The walk through the pages.  An alert not yet shown has at least as many*)
(* alerts behind it as the walk has shown rows, so it is on the next page  *)
(* or on a later one, wherever new alerts have moved it.                   *)

Walks == [on : BOOLEAN, next : Nat, filter : Filter, goal : SUBSET Alert,
          seen : SUBSET Alert]

WalkTypeOK == walk \in {[on |-> FALSE]} \union Walks

\* A walk has one request under way at most, and it is for the next page.
WalkAsks ==
    /\ \A p, q \in Outstanding : p = q
    /\ walk.next = 0 => Outstanding # {}
    /\ \A q \in Request : request[q].stage = "reading" =>
          request[q].page = walk.next /\ request[q].filter = walk.filter

\* A request has found each alert it has passed, and all that came after it.
FoundFollows(r, g) ==
    /\ r.epoch = resets
    /\ r.pos <= Len(lines)
    /\ \A k \in 1 .. r.pos : lines[k] \notin Overlong
    /\ \A i \in DOMAIN lines : lines[i] = g /\ i <= r.pos =>
          \E j \in DOMAIN r.found :
             /\ r.found[j] = g
             /\ Len(r.found) - j = Cardinality(ReadBehind(lines, r.filter, g, r.pos))

\* A line without an end is the last one a request reads.
BeforeOpen(r) == open => r.pos < Len(lines)

\* An alert is among the rows or on a later page.
RowsFollow(a, g) ==
    \/ g \in ToSet(a.rows)
    \/ /\ a.total > (walk.next + 1) * PageSize
       /\ Cardinality(Behind(lines, walk.filter, g)) >= (walk.next + 1) * PageSize

Ahead(g) ==
    /\ Cardinality(Behind(lines, walk.filter, g)) >= walk.next * PageSize
    /\ walk.next > 0 => total > walk.next * PageSize

GoalKept(g) ==
    /\ g \in Visible /\ g \in walk.filter
    /\ g \notin walk.seen => Ahead(g)
    /\ \A q \in Request :
          /\ request[q].stage = "reading" =>
                FoundFollows(request[q], g) /\ BeforeOpen(request[q])
          /\ request[q].stage = "answered" /\ g \notin walk.seen =>
                RowsFollow(request[q].answer, g)

WalkKept == walk.on => WalkAsks /\ \A g \in walk.goal : GoalKept(g)

WalkInv == TabTypeOK /\ LinesOnce /\ WalkTypeOK /\ WalkKept

LEMMA WalkOn == WalkTypeOK /\ walk.on => walk \in Walks
<1>1. [on |-> FALSE].on = FALSE
  OBVIOUS
<1> QED
  BY <1>1 DEF WalkTypeOK

LEMMA WalkTypeStep ==
    ASSUME TabTypeOK, WalkTypeOK, [Next]_vars
    PROVE  WalkTypeOK'
<1>2. ASSUME NEW q \in Request, NEW p \in Offered \union {0}, NEW f \in Filter,
             Load(q, p, f)
      PROVE  WalkTypeOK'
  <2>1. f \subseteq Alert
    BY BrowserAssumption
  <2>2. [on |-> TRUE, next |-> 0, filter |-> f, goal |-> Visible \intersect f,
         seen |-> {}] \in Walks
    BY <2>1 DEF Walks
  <2> QED
    BY <1>2, <2>2 DEF Load, WalkAt, WalkTypeOK
<1>3. ASSUME NEW q \in Request, Show(q) PROVE WalkTypeOK'
  <2>1. request[q] \in AnsweredRec /\ table' = request[q].answer.rows
    BY <1>3, StageTells DEF Show
  <2>2. ToSet(table') \subseteq Alert
    BY <2>1 DEF AnsweredRec, ToSet
  <2>3. ASSUME NEW w \in Walks
        PROVE  [w EXCEPT !.next = @ + 1, !.seen = @ \union ToSet(table')] \in Walks
    <3> DEFINE on == [w EXCEPT !.next = @ + 1]
    <3>1. on \in Walks
      BY DEF Walks
    <3>2. [on EXCEPT !.seen = @ \union ToSet(table')] \in Walks
      BY <2>2, <3>1 DEF Walks
    <3> QED
      BY <3>2
  <2> QED
    BY <1>3, <2>3, WalkOn DEF Show, WalkTypeOK
<1>4. ASSUME NEW q \in Request, Handler(q) \/ ShowError(q) \/ Disconnect(q)
      PROVE  WalkTypeOK'
  BY <1>4 DEF Handler, ReadLine, ReadEnd, ReadBreaks, ShowError, Disconnect, WalkTypeOK
<1>5. CASE AgentWorks \/ AgentDies
  BY <1>5 DEF AgentWorks, AgentDies, WalkOverLog, WalkTypeOK
<1>6. CASE UNCHANGED vars
  BY <1>6 DEF vars, WalkTypeOK
<1> QED
  BY <1>2, <1>3, <1>4, <1>5, <1>6 DEF Next, Tab

LEMMA WalkInit == Init => WalkInv
<1> SUFFICES ASSUME Init PROVE WalkInv
  OBVIOUS
<1>1. walk = [on |-> FALSE] /\ lines = <<>>
  BY DEF Init, LogInit
<1>2. LinesOnce
  BY <1>1 DEF LinesOnce
<1> QED
  BY <1>1, <1>2, TabTypeInit DEF WalkInv, WalkTypeOK, WalkKept

\* The log takes no alert of the goal from the walk and adds only behind them.
LEMMA WalkOverLogStep ==
    ASSUME LogTypeOK, LogTypeOK', WalkInv, LogStep \/ Die, WalkOverLog,
           UNCHANGED <<current, table, total>>,
           \A q \in Request : \/ request'[q] = request[q]
                              \/ request[q] # Idle /\ request'[q] = [stage |-> "failed"]
    PROVE  WalkKept'
<1> SUFFICES ASSUME walk'.on PROVE WalkAsks' /\ \A g \in walk'.goal : GoalKept(g)'
  BY DEF WalkKept
<1>1. walk' = walk /\ Visible \subseteq Visible' /\ walk \in Walks
  BY WalkOn DEF WalkOverLog, WalkInv
<1>2. Outstanding' = Outstanding
  BY DEF Outstanding, Idle
<1>3. \A q \in Request : request'[q].stage \in {"reading", "answered"} =>
                            request'[q] = request[q]
  OBVIOUS
<1>4. WalkAsks'
  BY <1>1, <1>2, <1>3 DEF WalkInv, WalkKept, WalkAsks
<1>5. ASSUME NEW g \in walk'.goal PROVE GoalKept(g)'
  <2>1. GoalKept(g)
    BY <1>1, <1>5 DEF WalkInv, WalkKept
  <2>2. /\ resets' = resets
        /\ Len(lines) <= Len(lines')
        /\ open' /\ Len(lines') = Len(lines) => open
        /\ \A k \in DOMAIN lines : lines'[k] = lines[k] \/ (open /\ k = Len(lines))
        /\ \A k \in Reached(lines) : lines[k] \notin Scrap =>
              k \in Reached(lines') /\ lines'[k] = lines[k]
        /\ \A k \in Reached(lines') : k <= Len(lines) =>
              k \in Reached(lines) /\ lines'[k] = lines[k]
    BY <1>1, <2>1, ReadersGoOn DEF WalkInv, GoalKept
  <2>3. /\ lines \in Seq(Entry \union Scrap) /\ lines' \in Seq(Entry \union Scrap)
        /\ Len(lines) \in Nat /\ Len(lines') \in Nat
        /\ DOMAIN lines = 1 .. Len(lines) /\ DOMAIN lines' = 1 .. Len(lines')
    BY DEF LogTypeOK
  <2>4. g \in Entry
    BY <1>1, <1>5, BrowserAssumption DEF Walks
  <2>5. \A f \in Filter :
           /\ Cardinality(Behind(lines, f, g)) \in Nat
           /\ Cardinality(Behind(lines', f, g)) \in Nat
           /\ Cardinality(Behind(lines, f, g)) <= Cardinality(Behind(lines', f, g))
           /\ \A pos \in Nat : pos <= Len(lines) =>
                 ReadBehind(lines', f, g, pos) = ReadBehind(lines, f, g, pos)
    <3> SUFFICES ASSUME NEW f \in Filter
                 PROVE  /\ Cardinality(Behind(lines, f, g)) \in Nat
                        /\ Cardinality(Behind(lines', f, g)) \in Nat
                        /\ Cardinality(Behind(lines, f, g)) <= Cardinality(Behind(lines', f, g))
                        /\ \A pos \in Nat : pos <= Len(lines) =>
                              ReadBehind(lines', f, g, pos) = ReadBehind(lines, f, g, pos)
      OBVIOUS
    <3>1. f \in SUBSET Entry
      BY BrowserAssumption
    <3> QED
      BY <2>2, <2>3, <2>4, <3>1, BehindCounted, BehindGrows
  <2>6. /\ walk.next \in Nat /\ walk.next * PageSize \in Nat
        /\ (walk.next + 1) * PageSize \in Nat /\ walk.filter \in Filter
    BY <1>1, BrowserAssumption DEF Walks
  <2>7. g \notin walk.seen => Ahead(g)'
    BY <1>1, <2>1, <2>5, <2>6 DEF GoalKept, Ahead
  <2>8. ASSUME NEW q \in Request, request'[q].stage = "reading"
        PROVE  FoundFollows(request[q], g)' /\ BeforeOpen(request[q])'
    <3>1. /\ request'[q] = request[q] /\ request[q] \in Reading
          /\ FoundFollows(request[q], g) /\ BeforeOpen(request[q])
      BY <1>3, <2>1, <2>8, StageTells DEF GoalKept, WalkInv
    <3> DEFINE pos == request[q].pos
    <3>2. pos \in Nat /\ pos <= Len(lines) /\ request[q].filter \in Filter
      BY <3>1 DEF Reading, FoundFollows
    <3> HIDE DEF pos
    <3>10. open => pos < Len(lines)
      BY <3>1 DEF BeforeOpen, pos
    <3>3. pos <= Len(lines') /\ (open' => pos < Len(lines'))
      <4>1. CASE Len(lines') = Len(lines)
        BY <2>2, <3>2, <3>10, <4>1
      <4>2. CASE Len(lines) < Len(lines')
        BY <2>3, <3>2, <4>2
      <4>3. Len(lines) <= Len(lines')
        BY <2>2
      <4>4. Len(lines') = Len(lines) \/ Len(lines) < Len(lines')
        <5>1. Len(lines) \in Nat /\ Len(lines') \in Nat
          BY <2>3
        <5> QED
          BY <4>3, <5>1
      <4> QED
        BY <4>1, <4>2, <4>4
    <3>4. \A k \in 1 .. pos : k \in DOMAIN lines /\ ~(open /\ k = Len(lines))
      <4>1. CASE open
        <5>1. pos < Len(lines) /\ Len(lines) \in Nat /\ pos \in Nat
          BY <2>3, <3>2, <3>10, <4>1
        <5>2. \A k \in 1 .. pos : k \in 1 .. Len(lines) /\ k # Len(lines)
          BY <5>1
        <5> QED
          BY <2>3, <5>2
      <4>2. CASE ~open
        <5>1. pos <= Len(lines) /\ Len(lines) \in Nat /\ pos \in Nat
          BY <2>3, <3>2
        <5>2. \A k \in 1 .. pos : k \in 1 .. Len(lines)
          BY <5>1
        <5> QED
          BY <2>3, <4>2, <5>2
      <4> QED
        BY <4>1, <4>2
    <3>5. \A k \in 1 .. pos : lines'[k] = lines[k] /\ lines[k] \notin Overlong
      BY <2>2, <3>1, <3>4 DEF FoundFollows, pos
    <3>6. ASSUME NEW i \in DOMAIN lines', lines'[i] = g, i <= pos
          PROVE  i \in DOMAIN lines /\ lines[i] = g
      <4>1. i \in 1 .. pos
        BY <2>3, <3>2, <3>6
      <4> QED
        BY <3>4, <3>5, <3>6, <4>1
    <3>7. ReadBehind(lines', request[q].filter, g, pos) =
             ReadBehind(lines, request[q].filter, g, pos)
      BY <2>5, <3>2
    <3>8. request[q].epoch = resets'
      BY <2>2, <3>1 DEF FoundFollows
    <3>9. \A i \in DOMAIN lines : lines[i] = g /\ i <= pos =>
            \E j \in DOMAIN request[q].found :
               /\ request[q].found[j] = g
               /\ Len(request[q].found) - j =
                     Cardinality(ReadBehind(lines, request[q].filter, g, pos))
      BY <3>1 DEF FoundFollows, pos
    <3> QED
      BY <3>1, <3>3, <3>5, <3>6, <3>7, <3>8, <3>9 DEF FoundFollows, BeforeOpen, pos
  <2>9. ASSUME NEW q \in Request, request'[q].stage = "answered", g \notin walk.seen
        PROVE  RowsFollow(request[q].answer, g)'
    <3>1. request'[q] = request[q] /\ RowsFollow(request[q].answer, g)
      BY <1>3, <2>1, <2>9 DEF GoalKept
    <3> QED
      BY <1>1, <2>5, <2>6, <3>1 DEF RowsFollow
  <2>10. g \in Visible'
    BY <1>1, <2>1 DEF GoalKept
  <2> QED
    BY <1>1, <2>1, <2>7, <2>8, <2>9, <2>10 DEF GoalKept
<1> QED
  BY <1>4, <1>5

\* A step of a handler or of the network changes one request under way.
LEMMA WalkOneRequest ==
    ASSUME WalkInv, UNCHANGED <<logVars, total, walk>>, NEW q \in Request, NEW r,
           request[q] # Idle, r # Idle, request' = [request EXCEPT ![q] = r],
           walk.on /\ r.stage = "reading" => r.page = walk.next /\ r.filter = walk.filter,
           \A g \in walk.goal : walk.on /\ GoalKept(g) =>
              /\ r.stage = "reading" => FoundFollows(r, g) /\ BeforeOpen(r)
              /\ r.stage = "answered" /\ g \notin walk.seen => RowsFollow(r.answer, g)
    PROVE  WalkKept'
<1> SUFFICES ASSUME walk.on PROVE WalkAsks' /\ \A g \in walk.goal : GoalKept(g)'
  BY DEF WalkKept
<1>1. WalkAsks /\ \A g \in walk.goal : GoalKept(g)
  BY DEF WalkInv, WalkKept
<1>2. \A o \in Request : request'[o] = IF o = q THEN r ELSE request[o]
  BY DEF WalkInv, TabTypeOK
<1>3. Outstanding' = Outstanding
  BY <1>2 DEF Outstanding
<1>4. WalkAsks'
  BY <1>1, <1>2, <1>3 DEF WalkAsks
<1>5. ASSUME NEW g \in walk.goal PROVE GoalKept(g)'
  <2>1. GoalKept(g)
    BY <1>1
  <2>2. /\ \A a : RowsFollow(a, g)' = RowsFollow(a, g)
        /\ \A a : FoundFollows(a, g)' = FoundFollows(a, g)
        /\ \A a : BeforeOpen(a)' = BeforeOpen(a)
        /\ Ahead(g)' = Ahead(g) /\ Visible' = Visible
    BY DEF RowsFollow, FoundFollows, BeforeOpen, Ahead, Visible, logVars
  <2>3. ASSUME NEW o \in Request
        PROVE  /\ request'[o].stage = "reading" =>
                     FoundFollows(request'[o], g) /\ BeforeOpen(request'[o])
               /\ request'[o].stage = "answered" /\ g \notin walk.seen =>
                     RowsFollow(request'[o].answer, g)
    BY <1>2, <2>1 DEF GoalKept
  <2>4. \A o \in Request :
           /\ request'[o].stage = "reading" =>
                 FoundFollows(request[o], g)' /\ BeforeOpen(request[o])'
           /\ request'[o].stage = "answered" /\ g \notin walk.seen =>
                 RowsFollow(request[o].answer, g)'
    BY <2>3 DEF FoundFollows, BeforeOpen, RowsFollow, logVars
  <2> QED
    BY <2>1, <2>2, <2>4 DEF GoalKept
<1> QED
  BY <1>4, <1>5

LEMMA GoalIsEntry ==
    ASSUME WalkTypeOK, walk.on
    PROVE  \A g \in walk.goal : g \in Entry /\ g \notin Scrap
BY WalkOn, BrowserAssumption, EntryIsNoScrap DEF Walks

\* The next line of the file is found if the filter lets it through.
LEMMA NextLineFollows ==
    ASSUME LogTypeOK, LinesOnce, NEW r \in Reading, r.pos < Len(lines),
           lines[r.pos + 1] \notin Overlong,
           NEW g \in r.filter, g \notin Scrap, FoundFollows(r, g),
           NEW found \in Seq(Alert), found = Parsed(r.found, lines[r.pos + 1], r.filter)
    PROVE  FoundFollows([r EXCEPT !.pos = r.pos + 1, !.found = found], g)
<1> DEFINE on == [r EXCEPT !.pos = r.pos + 1, !.found = found]
           x  == lines[r.pos + 1]
           f  == r.filter
<1>1. on.pos = r.pos + 1 /\ on.found = found /\ on.filter = f /\ on.epoch = r.epoch
  BY DEF Reading
<1>2. /\ r.found \in Seq(Alert) /\ r.pos \in Nat /\ lines \in Seq(Entry \union Scrap)
      /\ r.pos + 1 \in DOMAIN lines /\ f \subseteq Alert
  BY BrowserAssumption DEF Reading, LogTypeOK
<1>3. /\ on.epoch = resets /\ on.pos <= Len(lines)
      /\ \A k \in 1 .. on.pos : lines[k] \notin Overlong
  <2>1. \A k \in 1 .. r.pos + 1 : k \in 1 .. r.pos \/ k = r.pos + 1
    BY <1>2
  <2> QED
    BY <1>1, <1>2, <2>1 DEF FoundFollows
<1>10. \A i \in DOMAIN lines : i <= r.pos + 1 => i \in Reached(lines)
  <2>1. \A i \in DOMAIN lines : i <= r.pos + 1 => 1 .. i \subseteq 1 .. r.pos + 1
    BY <1>2
  <2> QED
    BY <1>1, <1>3, <2>1 DEF Reached
<1>4. found = IF x \in f THEN Append(r.found, x) ELSE r.found
  BY <1>2 DEF Parsed
<1>5. ASSUME NEW i \in DOMAIN lines, lines[i] = g, i <= r.pos
      PROVE  \E j \in DOMAIN found :
                /\ found[j] = g
                /\ Len(found) - j = Cardinality(ReadBehind(lines, f, g, r.pos + 1))
  <2>1. PICK j \in DOMAIN r.found :
           /\ r.found[j] = g
           /\ Len(r.found) - j = Cardinality(ReadBehind(lines, f, g, r.pos))
    BY <1>5 DEF FoundFollows
  <2>2. Cardinality(ReadBehind(lines, f, g, r.pos + 1)) =
           Cardinality(ReadBehind(lines, f, g, r.pos)) + (IF x \in f THEN 1 ELSE 0)
    <3>1. r.pos + 1 \in Reached(lines) /\ i \in Reached(lines)
      BY <1>2, <1>5, <1>10
    <3> QED
      BY <1>2, <1>5, <3>1, BehindByLine
  <2>3. /\ j \in DOMAIN found /\ found[j] = g /\ j \in Nat /\ Len(r.found) \in Nat
        /\ Len(found) = Len(r.found) + (IF x \in f THEN 1 ELSE 0)
    <3>1. CASE x \in f
      <4>1. found = Append(r.found, x)
        BY <1>4, <3>1
      <4> QED
        BY <1>2, <2>1, <3>1, <4>1
    <3>2. CASE x \notin f
      <4>1. found = r.found
        BY <1>4, <3>2
      <4> QED
        BY <1>2, <2>1, <3>2, <4>1
    <3> QED
      BY <3>1, <3>2
  <2>4. Len(found) - j = Cardinality(ReadBehind(lines, f, g, r.pos + 1))
    <3>1. CASE x \in f
      BY <2>1, <2>2, <2>3, <3>1
    <3>2. CASE x \notin f
      BY <2>1, <2>2, <2>3, <3>2
    <3> QED
      BY <3>1, <3>2
  <2> QED
    BY <2>3, <2>4
<1>6. ASSUME NEW i \in DOMAIN lines, lines[i] = g, i = r.pos + 1
      PROVE  \E j \in DOMAIN found :
                /\ found[j] = g
                /\ Len(found) - j = Cardinality(ReadBehind(lines, f, g, r.pos + 1))
  <2>1. \A k \in DOMAIN lines : lines[k] = g => k = i
    BY <1>6 DEF LinesOnce
  <2>2. \A k \in DOMAIN lines : i < k => ~(k <= i)
    BY <1>2
  <2>3. ReadBehind(lines, f, g, r.pos + 1) = {}
    BY <1>6, <2>1, <2>2 DEF ReadBehind, Behind, Reached
  <2>4. Cardinality(ReadBehind(lines, f, g, r.pos + 1)) = 0
    BY <2>3, FS_EmptySet
  <2>5. found = Append(r.found, g)
    BY <1>4, <1>6
  <2>6. /\ Len(found) \in DOMAIN found /\ found[Len(found)] = g
        /\ Len(found) - Len(found) = 0
    BY <1>2, <2>5
  <2> QED
    BY <2>4, <2>6
<1>7. \A i \in DOMAIN lines : i <= r.pos + 1 => i <= r.pos \/ i = r.pos + 1
  BY <1>2
<1> HIDE DEF on
<1>8. \A i \in DOMAIN lines : lines[i] = g /\ i <= on.pos =>
          \E j \in DOMAIN on.found :
             /\ on.found[j] = g
             /\ Len(on.found) - j = Cardinality(ReadBehind(lines, on.filter, g, on.pos))
  BY <1>1, <1>5, <1>6, <1>7
<1>9. FoundFollows(on, g)
  BY <1>3, <1>8 DEF FoundFollows
<1> QED
  BY <1>9 DEF on

LEMMA WalkReadLine ==
    ASSUME LogTypeOK, WalkInv, NEW q \in Request, ReadLine(q)
    PROVE  WalkKept'
<1>1. request[q] \in Reading
  BY StageTells DEF ReadLine, WalkInv
<1>2. PICK x \in LineAt(request[q]) \ Overlong :
         request' = [request EXCEPT ![q].pos = request[q].pos + 1,
                  ![q].found = Parsed(request[q].found, x, request[q].filter)]
  BY DEF ReadLine
<1> DEFINE found == Parsed(request[q].found, x, request[q].filter)
           on    == [request[q] EXCEPT !.pos = request[q].pos + 1, !.found = found]
<1>3. found \in Seq(Alert)
  BY <1>1 DEF Parsed, Reading
<1>4. /\ on.stage = "reading" /\ on.page = request[q].page
      /\ on.filter = request[q].filter /\ on.pos = request[q].pos + 1
  BY <1>1 DEF Reading
<1>5. request' = [request EXCEPT ![q] = on] /\ UNCHANGED <<logVars, total, walk>>
  BY <1>2 DEF WalkInv, TabTypeOK, ReadLine
<1>6. request[q] # Idle /\ on # Idle
  <2>1. request[q].stage = "reading"
    BY DEF ReadLine
  <2> HIDE DEF on
  <2> QED
    BY <1>4, <2>1 DEF Idle
<1>7. walk.on => on.page = walk.next /\ on.filter = walk.filter
  BY <1>1, <1>4 DEF WalkInv, WalkKept, WalkAsks, Reading
<1>8. request[q].pos < Len(lines) /\ BeforeOpen(on)
  <2>1. /\ request[q].pos \in Nat /\ Len(lines) \in Nat
        /\ request[q].pos + (IF open THEN 1 ELSE 0) < Len(lines)
    BY <1>1 DEF ReadLine, Reading, LogTypeOK
  <2> HIDE DEF on
  <2> QED
    BY <1>4, <2>1 DEF BeforeOpen
<1>9. ASSUME NEW g \in walk.goal, walk.on, GoalKept(g) PROVE FoundFollows(on, g)
  <2>1. FoundFollows(request[q], g) /\ g \notin Scrap /\ g \in request[q].filter
    BY <1>1, <1>4, <1>7, <1>9, GoalIsEntry DEF GoalKept, Reading, WalkInv
  <2>2. x = lines[request[q].pos + 1]
    BY <2>1 DEF FoundFollows, LineAt
  <2> QED
    BY <1>1, <1>2, <1>3, <1>8, <2>1, <2>2, NextLineFollows DEF WalkInv
<1> HIDE DEF on
<1> QED
  BY <1>4, <1>5, <1>6, <1>7, <1>8, <1>9, WalkOneRequest

\* The page that is cut out where the reading ends has the alert, or a later one
\* has.
LEMMA AnswerFollows ==
    ASSUME LogTypeOK, walk \in Walks, NEW r \in Reading,
           r.pos >= Len(lines) \/ lines[r.pos + 1] \in Overlong,
           r.page = walk.next, r.filter = walk.filter,
           NEW g \in Visible, FoundFollows(r, g),
           Cardinality(Behind(lines, walk.filter, g)) >= walk.next * PageSize
    PROVE  RowsFollow(Answer(r.found, r.page), g)
<1> DEFINE n    == Len(r.found)
           off  == r.page * PageSize
           rows == Answer(r.found, r.page).rows
           c    == Cardinality(Behind(lines, walk.filter, g))
<1>1. /\ lines \in Seq(Entry \union Scrap) /\ r.found \in Seq(Alert)
      /\ r.page \in Nat /\ r.pos \in Nat /\ r.pos <= Len(lines)
  BY DEF LogTypeOK, Reading, FoundFollows
<1>9. \A k \in Reached(lines) : k \in DOMAIN lines /\ k <= r.pos
  <2> SUFFICES ASSUME NEW k \in Reached(lines), ~(k <= r.pos) PROVE FALSE
    BY DEF Reached
  <2>1. k \in 1 .. Len(lines) /\ \A m \in 1 .. k : lines[m] \notin Overlong
    BY <1>1 DEF Reached
  <2>2. r.pos + 1 \in 1 .. k /\ r.pos < Len(lines)
    BY <1>1, <2>1
  <2> QED
    BY <1>1, <2>1, <2>2
<1>2. ReadBehind(lines, r.filter, g, r.pos) = Behind(lines, walk.filter, g)
  BY <1>9 DEF ReadBehind, Behind
<1>3. PICK j \in DOMAIN r.found : r.found[j] = g /\ n - j = c
  <2>1. PICK i \in Reached(lines) : lines[i] = g
    BY DEF Visible
  <2>2. i \in DOMAIN lines /\ i <= r.pos
    BY <1>9
  <2> QED
    BY <1>2, <2>1, <2>2 DEF FoundFollows
<1>4. n \in Nat /\ off \in Nat /\ c \in Nat /\ j \in 1 .. n /\ PageSize \in Nat \ {0}
  <2>1. c \in Nat
    BY <1>1, BehindCounted
  <2>2. n \in Nat /\ off \in Nat /\ j \in 1 .. n /\ PageSize \in Nat \ {0}
    BY <1>1, BrowserAssumption
  <2> QED
    BY <2>1, <2>2
<1>5. c >= off /\ (walk.next + 1) * PageSize = off + PageSize
  BY <1>1, BrowserAssumption DEF Walks
<1>6. /\ Answer(r.found, r.page).total = n
      /\ Len(rows) = IF n - off <= 0 THEN 0
                     ELSE IF n - off <= PageSize THEN n - off ELSE PageSize
      /\ DOMAIN rows = 1 .. Len(rows)
      /\ \A i \in DOMAIN rows : rows[i] = r.found[n + 1 - off - i]
  <2>1. /\ rows \in Seq(Alert)
        /\ Answer(r.found, r.page).total = n
    BY <1>1, RowsOfAnswer
  <2>2. Len(rows) = IF n - off <= 0 THEN 0
                    ELSE IF n - off <= PageSize THEN n - off ELSE PageSize
    BY <1>1, RowsOfAnswer
  <2>3. \A i \in DOMAIN rows : rows[i] = r.found[n + 1 - off - i]
    BY <1>1, RowsOfAnswer, Zenon
  <2>4. DOMAIN rows = 1 .. Len(rows)
    <3> HIDE DEF rows
    <3> QED
      BY <2>1
  <2> QED
    BY <2>1, <2>2, <2>3, <2>4
<1> HIDE DEF n, off, rows, c
<1>7. CASE c < off + PageSize
  <2>1. c - off + 1 \in DOMAIN rows
    BY <1>3, <1>4, <1>5, <1>6, <1>7
  <2>2. n + 1 - off - (c - off + 1) = j
    BY <1>3, <1>4
  <2>3. rows[c - off + 1] = g
    BY <1>3, <1>6, <2>1, <2>2
  <2>4. g \in ToSet(rows)
    BY <2>1, <2>3 DEF ToSet
  <2> QED
    BY <2>4 DEF RowsFollow, rows
<1>8. CASE c >= off + PageSize
  <2>1. n > off + PageSize
    BY <1>3, <1>4, <1>8
  <2> QED
    BY <1>5, <1>6, <1>8, <2>1 DEF RowsFollow, c
<1> QED
  BY <1>4, <1>7, <1>8

LEMMA WalkReadEnd ==
    ASSUME LogTypeOK, WalkInv, NEW q \in Request, ReadEnd(q)
    PROVE  WalkKept'
<1>1. request[q] \in Reading /\ request[q].stage = "reading"
  BY StageTells DEF ReadEnd, WalkInv
<1>2. PICK found \in Seq(Alert) :
         /\ Answered(q, found)
         /\ \/ /\ found = request[q].found
               /\ \/ request[q].pos >= Len(lines)
                  \/ request[q].pos < Len(lines) /\ LineAt(request[q]) \intersect Overlong # {}
            \/ /\ request[q].pos + 1 = Len(lines)
               /\ \E x \in LineAt(request[q]) \ Overlong :
                     found = Parsed(request[q].found, x, request[q].filter)
  <2>1. /\ request[q].found \in Seq(Alert)
        /\ \A x : Parsed(request[q].found, x, request[q].filter) \in Seq(Alert)
    BY <1>1 DEF Parsed, Reading
  <2> QED
    BY <2>1 DEF ReadEnd
<1> DEFINE a  == Answer(found, request[q].page)
           on == [stage |-> "answered", answer |-> a]
           r  == [request[q] EXCEPT !.pos = request[q].pos + 1, !.found = found]
<1>3. request' = [request EXCEPT ![q] = on] /\ UNCHANGED <<logVars, total, walk>>
  BY <1>2 DEF ReadEnd, Answered
<1>4. on.stage = "answered" /\ on.answer = a
  OBVIOUS
<1>5. request[q] # Idle /\ on # Idle
  BY <1>1, <1>4 DEF Idle
<1>6. ASSUME NEW g \in walk.goal, walk.on, GoalKept(g), g \notin walk.seen
      PROVE  RowsFollow(a, g)
  <2>1. request[q].page = walk.next /\ request[q].filter = walk.filter
    BY <1>1, <1>6 DEF WalkInv, WalkKept, WalkAsks
  <2>2. FoundFollows(request[q], g) /\ Ahead(g) /\ g \in Visible
    BY <1>1, <1>6 DEF GoalKept
  <2>3. walk \in Walks /\ g \notin Scrap /\ g \in request[q].filter
    BY <1>6, <2>1, WalkOn, GoalIsEntry DEF WalkInv, GoalKept
  <2>4. LineAt(request[q]) = {lines[request[q].pos + 1]}
    BY <2>2 DEF FoundFollows, LineAt
  <2>5. CASE /\ found = request[q].found
             /\ request[q].pos >= Len(lines) \/ lines[request[q].pos + 1] \in Overlong
    BY <1>1, <2>1, <2>2, <2>3, <2>5, AnswerFollows DEF Ahead
  <2>6. CASE /\ request[q].pos + 1 = Len(lines) /\ lines[request[q].pos + 1] \notin Overlong
             /\ found = Parsed(request[q].found, lines[request[q].pos + 1], request[q].filter)
    <3>1. request[q].pos < Len(lines)
      BY <1>1, <2>6 DEF Reading
    <3>2. FoundFollows(r, g)
      BY <1>1, <2>2, <2>3, <2>6, <3>1, NextLineFollows DEF WalkInv
    <3>3. /\ r \in Reading /\ r.pos >= Len(lines) /\ r.found = found
          /\ r.page = request[q].page /\ r.filter = request[q].filter
      <4>1. r \in Reading
        BY <1>1, ReadOn
      <4>2. /\ r.pos = request[q].pos + 1 /\ r.found = found
            /\ r.page = request[q].page /\ r.filter = request[q].filter
        BY <1>1 DEF Reading
      <4>3. r.pos >= Len(lines)
        <5>1. Len(lines) \in Nat
          BY DEF LogTypeOK
        <5> HIDE DEF r
        <5> QED
          BY <2>6, <4>2, <5>1
      <4> QED
        BY <4>1, <4>2, <4>3
    <3>4. Cardinality(Behind(lines, walk.filter, g)) >= walk.next * PageSize
      BY <2>2 DEF Ahead
    <3> HIDE DEF r
    <3>5. RowsFollow(Answer(r.found, r.page), g)
      BY <2>1, <2>2, <2>3, <3>2, <3>3, <3>4, AnswerFollows
    <3> QED
      BY <3>3, <3>5
  <2> QED
    BY <1>2, <2>4, <2>5, <2>6
<1> HIDE DEF on, a
<1> QED
  BY <1>3, <1>4, <1>5, <1>6, WalkOneRequest

LEMMA WalkLoad ==
    ASSUME LogTypeOK, WalkInv, NEW q \in Request, NEW p \in Nat, NEW f \in Filter,
           Load(q, p, f)
    PROVE  WalkKept'
<1> DEFINE r == [stage |-> "reading", page |-> p, filter |-> f, pos |-> 0,
                 found |-> <<>>, epoch |-> resets]
<1>1. /\ request' = [request EXCEPT ![q] = r] /\ walk' = WalkAt(p, f)
      /\ UNCHANGED <<logVars, table, total>>
  BY DEF Load
<1>2. [on |-> FALSE].on = FALSE
  OBVIOUS
<1>3. CASE walk' = [on |-> FALSE]
  BY <1>2, <1>3 DEF WalkKept
<1> SUFFICES ASSUME walk' # [on |-> FALSE] PROVE WalkKept'
  BY <1>3
<1>4. Outstanding = {}
  BY <1>1 DEF WalkAt
<1>5. r # Idle /\ r.stage = "reading"
  BY DEF Idle
<1> HIDE DEF r
<1>6. \A o \in Request : request'[o] = IF o = q THEN r ELSE Idle
  BY <1>1, <1>4 DEF Outstanding, WalkInv, TabTypeOK
<1>7. Outstanding' = {q}
  BY <1>5, <1>6 DEF Outstanding
<1>8. walk'.next = p /\ walk'.filter = f
  BY <1>1, <1>4 DEF WalkAt
<1>9. WalkAsks'
  BY <1>5, <1>6, <1>7, <1>8 DEF WalkAsks, r, Idle
<1>10. /\ lines \in Seq(Entry \union Scrap) /\ DOMAIN lines \subseteq Nat \ {0}
       /\ open => Len(lines) \in DOMAIN lines
  BY DEF LogTypeOK
<1>11. ASSUME NEW g \in walk'.goal PROVE GoalKept(g)'
  <2>1. /\ g \in Visible' /\ g \in walk'.filter
        /\ g \notin walk'.seen => Ahead(g)'
    <3>1. CASE p = 0
      <4>1. walk'.goal = Visible \intersect f /\ walk'.filter = f /\ walk'.next = 0
        BY <1>1, <1>4, <3>1 DEF WalkAt
      <4>2. Visible' = Visible
        BY <1>1 DEF logVars, Visible
      <4>3. Cardinality(Behind(lines, f, g)) \in Nat
        BY <1>10, BehindCounted
      <4>4. Cardinality(Behind(lines', walk'.filter, g)) >= walk'.next * PageSize
        BY <1>1, <4>1, <4>3, BrowserAssumption DEF logVars
      <4> QED
        BY <1>11, <4>1, <4>2, <4>4 DEF Ahead
    <3>2. CASE p # 0
      <4>1. walk' = walk /\ walk.on
        BY <1>1, <1>4, <3>2 DEF WalkAt
      <4>2. GoalKept(g)
        BY <1>11, <4>1 DEF WalkInv, WalkKept
      <4> QED
        BY <1>1, <4>1, <4>2 DEF GoalKept, Ahead, Visible, logVars
    <3> QED
      BY <3>1, <3>2
  <2>2. /\ r.epoch = resets /\ r.pos = 0 /\ \A i \in DOMAIN lines : ~(i <= 0)
        /\ 1 .. 0 = {}
    BY <1>10 DEF r
  <2>3. FoundFollows(r, g) /\ BeforeOpen(r)
    BY <1>10, <2>2 DEF FoundFollows, BeforeOpen
  <2>4. request'[q].stage = "reading" => FoundFollows(request[q], g)' /\ BeforeOpen(request[q])'
    BY <1>1, <1>6, <2>3 DEF FoundFollows, BeforeOpen, logVars
  <2>5. \A o \in Request : /\ request'[o].stage = "reading" => o = q
                           /\ request'[o].stage # "answered"
    BY <1>5, <1>6 DEF Idle
  <2> QED
    BY <2>1, <2>4, <2>5 DEF GoalKept
<1> QED
  BY <1>9, <1>11 DEF WalkKept

LEMMA WalkShow ==
    ASSUME LogTypeOK, WalkInv, NEW q \in Request, Show(q)
    PROVE  WalkKept'
<1>1. /\ request' = [request EXCEPT ![q] = Idle] /\ UNCHANGED logVars
      /\ table' = request[q].answer.rows /\ total' = request[q].answer.total
      /\ request[q].stage = "answered"
      /\ walk' = IF walk.on
                 THEN [walk EXCEPT !.next = @ + 1, !.seen = @ \union ToSet(table')]
                 ELSE walk
  BY DEF Show
<1>2. CASE ~walk.on
  BY <1>1, <1>2 DEF WalkKept
<1>3. CASE walk.on
  <2>1. walk \in Walks
    BY <1>3, WalkOn DEF WalkInv
  <2>2. /\ walk'.next = walk.next + 1 /\ walk'.seen = walk.seen \union ToSet(table')
        /\ walk'.filter = walk.filter /\ walk'.goal = walk.goal
    BY <1>1, <1>3, <2>1 DEF Walks
  <2>3. \A o \in Request : o # q => request[o] = Idle
    BY <1>1, <1>3 DEF WalkInv, WalkKept, WalkAsks, Outstanding, Idle
  <2>4. \A o \in Request : request'[o] = Idle
    BY <1>1, <2>3 DEF WalkInv, TabTypeOK
  <2>5. Outstanding' = {} /\ walk'.next # 0
    BY <2>1, <2>2, <2>4 DEF Outstanding, Walks
  <2>6. \A o \in Request : request'[o].stage \notin {"reading", "answered"}
    BY <2>4 DEF Idle
  <2>7. WalkAsks'
    BY <2>5, <2>6 DEF WalkAsks
  <2>8. ASSUME NEW g \in walk.goal PROVE GoalKept(g)'
    <3>1. GoalKept(g)
      BY <1>3 DEF WalkInv, WalkKept
    <3>2. g \notin walk'.seen => RowsFollow(request[q].answer, g) /\ g \notin ToSet(table')
      BY <1>1, <2>2, <3>1 DEF GoalKept
    <3>3. g \notin walk'.seen => Ahead(g)'
      BY <1>1, <2>2, <3>2 DEF RowsFollow, Ahead, logVars
    <3> QED
      BY <1>1, <2>2, <2>6, <3>1, <3>3 DEF GoalKept, Visible, logVars
  <2> QED
    BY <2>2, <2>7, <2>8 DEF WalkKept
<1> QED
  BY <1>2, <1>3

LEMMA WalkStep == LogInv /\ WalkInv /\ [Next]_vars => WalkInv'
<1> SUFFICES ASSUME LogInv, WalkInv, [Next]_vars PROVE WalkInv'
  OBVIOUS
<1>1. LogTypeOK /\ LogTypeOK'
  BY LogInvStep DEF LogInv
<1>2. TabTypeOK' /\ LinesOnce' /\ WalkTypeOK'
  BY <1>1, TabTypeStep, OnceStep, WalkTypeStep DEF WalkInv
<1> SUFFICES WalkKept'
  BY <1>2 DEF WalkInv
<1>3. CASE AgentWorks
  BY <1>1, <1>3, WalkOverLogStep DEF AgentWorks, tabVars
<1>4. CASE AgentDies
  <2>1. \A q \in Request : \/ request'[q] = request[q]
                           \/ request[q] # Idle /\ request'[q] = [stage |-> "failed"]
    BY <1>4 DEF AgentDies, Idle
  <2> QED
    BY <1>1, <1>4, <2>1, WalkOverLogStep DEF AgentDies
<1>5. ASSUME NEW q \in Request, NEW p \in Offered \union {0}, NEW f \in Filter,
             Load(q, p, f)
      PROVE  WalkKept'
  BY <1>1, <1>5, OfferedPages, WalkLoad DEF WalkInv
<1>6. ASSUME NEW q \in Request, ShowError(q) \/ ReadBreaks(q) PROVE WalkKept'
  <2>1. [on |-> FALSE].on = FALSE
    OBVIOUS
  <2> QED
    BY <1>6, <2>1 DEF ShowError, ReadBreaks, WalkKept
<1>7. ASSUME NEW q \in Request, Disconnect(q) PROVE WalkKept'
  <2> DEFINE r == [stage |-> "failed"]
  <2>1. r # Idle /\ r.stage = "failed" /\ request[q] # Idle
    BY <1>7 DEF Disconnect, Idle
  <2>2. request' = [request EXCEPT ![q] = r] /\ UNCHANGED <<logVars, total, walk>>
    BY <1>7 DEF Disconnect
  <2> HIDE DEF r
  <2> QED
    BY <2>1, <2>2, WalkOneRequest
<1>8. CASE UNCHANGED vars
  BY <1>8 DEF vars, tabVars, logVars, WalkInv, WalkKept, WalkAsks, GoalKept, Ahead,
              FoundFollows, BeforeOpen, RowsFollow, Outstanding, Visible
<1> QED
  BY <1>1, <1>3, <1>4, <1>5, <1>6, <1>7, <1>8, WalkReadLine, WalkReadEnd, WalkShow
     DEF Next, Handler, Tab

\* Whoever walks through the pages to the last one has been shown every alert
\* that stood in the file at the beginning before the first line over 64 KB and
\* passes the filter, for any number of alerts that come in between two pages or
\* while one is read, of requests, filters, long lines and any page size, as long
\* as the file can be opened and read and loses none.
THEOREM WalkShowsAll == Spec => []AlertsAllShown
<1>1. WalkInv => AlertsAllShown
  <2> SUFFICES ASSUME WalkInv, walk.on, Outstanding = {},
                      walk.next * PageSize >= total, NEW g \in walk.goal,
                      g \notin walk.seen
               PROVE  FALSE
    BY DEF AlertsAllShown
  <2>1. walk \in Walks /\ total \in Nat /\ PageSize \in Nat
    BY WalkOn, BrowserAssumption DEF WalkInv, TabTypeOK
  <2>2. walk.next \in Nat /\ walk.next # 0
    BY <2>1 DEF WalkInv, WalkKept, WalkAsks, Walks
  <2>3. total > walk.next * PageSize
    BY <2>2 DEF WalkInv, WalkKept, GoalKept, Ahead
  <2>4. walk.next * PageSize \in Nat
    BY <2>1, <2>2
  <2> QED
    BY <2>1, <2>3, <2>4
<1> QED
  BY <1>1, LogInvInit, LogInvStep, WalkInit, WalkStep, PTL DEF Spec

\* The variables of the log and of the tab keep their types.
THEOREM TypeCorrect == Spec => []TypeOK
<1>1. LogTypeOK /\ TabTypeOK => TypeOK
  BY StageTells DEF TypeOK, TabTypeOK
<1>2. LogInv /\ OrderInv => TypeOK
  BY <1>1 DEF LogInv, OrderInv
<1> QED
  BY <1>2, LogInvInit, LogInvStep, OrderInit, OrderStep, PTL DEF Spec
=============================================================================
