---------------------------- MODULE AlertBrowser ----------------------------
(***************************************************************************)
(* The alert list of the web interface over a growing audit file.          *)
(*                                                                         *)
(* handleAlerts (internal/api) reads the audit file line by line while the *)
(* agent appends to it and a reset empties it, filters, reverses, cuts out *)
(* a page and counts.  Its bufio.Scanner takes lines of 64 KB and stops for*)
(* good at a longer one; nobody asks it why it stopped.  alerts.js asks for*)
(* pages, remembers the page number at once and shows the rows when an     *)
(* answer arrives, whatever request it belongs to.  Filters stand for the  *)
(* priority and the search field: the alerts they let through.             *)
(***************************************************************************)
EXTENDS AuditLog, SequencesExt

CONSTANTS
    Alert,      \* the entries with action ALERT_RECEIVED
    Filter,     \* sets of alerts, one for each setting of the two fields
    PageSize,   \* PAGE_SIZE, sent as the limit
    Request     \* requests one tab may have under way

ASSUME BrowserAssumption ==
    /\ Alert \subseteq Entry
    /\ Filter \subseteq SUBSET Alert
    /\ PageSize \in Nat \ {0}

VARIABLES
    request,    \* each request: its stage, what it asks, what was read so far
    current,    \* currentPage
    table,      \* currentAlerts
    total,      \* totalAlerts
    walk        \* history: a reader who goes through the pages one by one

tabVars == <<request, current, table, total>>
vars    == <<logVars, tabVars, walk>>

Idle == [stage |-> "idle"]

TypeOK ==
    /\ LogTypeOK
    /\ current \in Nat
    /\ table \in Seq(Alert)
    /\ total \in Nat
    /\ \A q \in Request :
          request[q].stage \in {"idle", "reading", "answered", "failed"}

Init ==
    /\ LogInit
    /\ request = [q \in Request |-> Idle]
    /\ current = 0
    /\ table = <<>>
    /\ total = 0
    /\ walk = [on |-> FALSE]

\* The places in a file before its first line that is too long, and the entries
\* there: those readAlertEntries finds.
Reached(L) == {j \in DOMAIN L : \A k \in 1 .. j : L[k] \notin Overlong}

Visible == {lines[i] : i \in Reached(lines)} \ {Torn}

Outstanding == {q \in Request : request[q] # Idle}

----------------------------------------------------------------------------
(* handleAlerts.                                                           *)

\* One round of readAlertEntries: what cannot be parsed is passed over, and so
\* is every entry of another action.  The filters of handleAlerts look at one
\* alert each, so they are applied at once.
Parsed(s, x, f) == IF x \in Alert /\ x \in f THEN Append(s, x) ELSE s

\* Mutant: the order of the file is kept.
MatchingInOrder(found) == found

\* The alerts that passed the filter, the last of the file first.
Matching(found) == Reverse(found)

\* The part of s that begins after offset and has limit elements at most.
Page(s, limit, offset) == SubSeq(s, offset + 1, Min({offset + limit, Len(s)}))

\* Mutant: the total is taken after the page was cut out.
AnswerOfPage(found, p) ==
    LET rows == Page(Matching(found), PageSize, p * PageSize) IN
    [rows |-> rows, total |-> Len(rows)]

Answer(found, p) ==
    LET all == Matching(found) IN
    [rows |-> Page(all, PageSize, p * PageSize), total |-> Len(all)]

\* What is read where the last line ended.  If the file was emptied in between,
\* this may be in the middle of a line of the new contents.
LineAt(r) == {lines[r.pos + 1]} \union (IF r.epoch = resets THEN {} ELSE {Torn})

ReadLine(q) ==
    /\ request[q].stage = "reading"
    /\ request[q].pos + (IF open THEN 1 ELSE 0) < Len(lines)
    /\ LET r == request[q] IN
       \E x \in LineAt(r) \ Overlong :
          request' = [request EXCEPT ![q].pos = r.pos + 1,
                                     ![q].found = Parsed(r.found, x, r.filter)]
    /\ UNCHANGED <<logVars, current, table, total, walk>>

Answered(q, found) ==
    request' = [request EXCEPT ![q] =
                  [stage |-> "answered", answer |-> Answer(found, @.page)]]

\* The reading ends and the answer is sent: at the end of the file as it is now,
\* behind a last line without an end, or at a line too long for the scanner.
ReadEnd(q) ==
    /\ request[q].stage = "reading"
    /\ LET r == request[q] IN
       \/ r.pos >= Len(lines) /\ Answered(q, r.found)
       \/ /\ open /\ r.pos + 1 = Len(lines)
          /\ \E x \in LineAt(r) \ Overlong : Answered(q, Parsed(r.found, x, r.filter))
       \/ /\ r.pos < Len(lines) /\ LineAt(r) \intersect Overlong # {}
          /\ Answered(q, r.found)
    /\ UNCHANGED <<logVars, current, table, total, walk>>

\* The file cannot be opened, or reading it fails: the answer has what was
\* found so far and does not tell.
ReadBreaks(q) ==
    /\ request[q].stage = "reading"
    /\ Answered(q, request[q].found)
    /\ walk' = [on |-> FALSE]
    /\ UNCHANGED <<logVars, current, table, total>>

----------------------------------------------------------------------------
(* alerts.js.                                                              *)

\* The pages renderPagination offers beside the current one; Apply and the
\* navigation bar load the first page at any time.
Offered == {p \in 0 .. ((total + PageSize - 1) \div PageSize) - 1 :
              current - 2 <= p /\ p <= current + 2}

\* The walk begins with a first page, goes on with the next one, and is over
\* when the reader does anything else.
WalkAt(p, f) ==
    IF Outstanding # {} THEN [on |-> FALSE]
    ELSE IF p = 0
         THEN [on |-> TRUE, next |-> 0, filter |-> f, goal |-> Visible \intersect f,
               seen |-> {}]
    ELSE IF walk.on /\ walk.next = p /\ walk.filter = f THEN walk
    ELSE [on |-> FALSE]

\* load: the page number is set before the answer is there.
Load(q, p, f) ==
    /\ request[q] = Idle
    /\ current' = p
    /\ request' = [request EXCEPT ![q] =
                     [stage |-> "reading", page |-> p, filter |-> f,
                      pos |-> 0, found |-> <<>>, epoch |-> resets]]
    /\ walk' = WalkAt(p, f)
    /\ UNCHANGED <<logVars, table, total>>

\* load goes on when its answer arrives, in whatever order the answers do.
Show(q) ==
    /\ request[q].stage = "answered"
    /\ table' = request[q].answer.rows
    /\ total' = request[q].answer.total
    /\ request' = [request EXCEPT ![q] = Idle]
    /\ walk' = IF walk.on
               THEN [walk EXCEPT !.next = @ + 1, !.seen = @ \union ToSet(table')]
               ELSE walk
    /\ UNCHANGED <<logVars, current>>

\* fetch fails: the table shows the error and the page number stays.
ShowError(q) ==
    /\ request[q].stage = "failed"
    /\ request' = [request EXCEPT ![q] = Idle]
    /\ walk' = [on |-> FALSE]
    /\ UNCHANGED <<logVars, current, table, total>>

----------------------------------------------------------------------------
(* The agent and the network.                                              *)

\* The walk ends when an alert it may still have to show is lost to the reader.
WalkOverLog ==
    walk' = IF Visible \subseteq Visible' THEN walk ELSE [on |-> FALSE]

AgentWorks ==
    /\ LogStep
    /\ WalkOverLog
    /\ UNCHANGED tabVars

\* The end of the process takes the requests it was answering with it.
AgentDies ==
    /\ Die
    /\ request' = [q \in Request |->
                     IF request[q].stage = "reading" THEN [stage |-> "failed"]
                     ELSE request[q]]
    /\ WalkOverLog
    /\ UNCHANGED <<current, table, total>>

\* The connection breaks before the answer is there.
Disconnect(q) ==
    /\ request[q].stage \in {"reading", "answered"}
    /\ request' = [request EXCEPT ![q] = [stage |-> "failed"]]
    /\ UNCHANGED <<logVars, current, table, total, walk>>

Handler(q) == ReadLine(q) \/ ReadEnd(q) \/ ReadBreaks(q)

Tab(q) ==
    \/ \E p \in Offered \union {0}, f \in Filter : Load(q, p, f)
    \/ Show(q) \/ ShowError(q)

Next ==
    \/ AgentWorks \/ AgentDies
    \/ \E q \in Request : Handler(q) \/ Tab(q) \/ Disconnect(q)

Spec == Init /\ [][Next]_vars

----------------------------------------------------------------------------
(* Properties.                                                             *)

\* "Reverse so newest first" (handlers.go): no alert is shown above one whose
\* call of Log began only after it had been logged.
NewestFirst ==
    \A i, j \in DOMAIN table :
        i < j => table[i] \notin before[table[j]]

\* Whoever walks through the pages to the last one has been shown every alert
\* that stood in the file at the beginning before the first line over 64 KB,
\* however many came in meanwhile, as long as the file can be read and loses
\* none of them.
AlertsAllShown ==
    /\ walk.on /\ Outstanding = {}
    /\ walk.next * PageSize >= total
    => walk.goal \subseteq walk.seen
=============================================================================
