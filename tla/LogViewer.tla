------------------------------ MODULE LogViewer ------------------------------
(***************************************************************************)
(* The console log view of the dashboard: LogParser makes an entry of each *)
(* line, LogViewer inserts it among its rows and numbers them, and the     *)
(* page switches the view from one resource to another.  The code of view  *)
(* and page runs on the circuit, which is free for other code at an await  *)
(* that has to wait, and only there.  Batches of lines arrive on other     *)
(* threads and are posted to the circuit.                                  *)
(***************************************************************************)
EXTENDS Integers, Sequences, FiniteSets

F == INSTANCE FiniteSetsExt

CONSTANTS
    Stamp,       \* timestamps; 0 stands for none
    FirstNumber, \* the number of the first line of each log that is opened
    MaxLines     \* bound: lines that arrive

ASSUME StampAssumption == Stamp \subseteq Nat \ {0}
ASSUME NumberAssumption == FirstNumber \in Seq(Nat \ {0})
ASSUME BoundAssumption == MaxLines \in Nat

Source == DOMAIN FirstNumber

\* What a line starts with: a timestamp, a log level header, or neither.
Kind == [stamp : Stamp, header : {FALSE}] \cup [stamp : {0}, header : BOOLEAN]

\* The code that may have the circuit: that of a source, which is the page's
\* for opening it and the view's for showing it, or of the page's handler for a
\* resource that is selected or deleted.
Handler == 0
Nobody == -1

VARIABLES
    rows,         \* _logEntries
    base,         \* _baseLineNumber, 0 for null
    loop,         \* the enumeration of each source in SetLogSourceAsync
    viewer,       \* whose token is current in the view's _cancellationSeries,
    subscription, \* and in the page's _logSubscriptionCancellationSeries; 0 for null
    leaving,      \* the step of HandleSelectedOptionChangedAsync
    circuit,      \* whose code goes on without having awaited anything
    ids,          \* how many entries were created: the last one's Id
    arrived,      \* history: the Ids inserted since the rows were cleared
    closed        \* history: the sources cancelled when they were cleared

page == <<viewer, subscription, leaving>>
vars == <<rows, base, loop, page, circuit, ids, arrived, closed>>

\* parent, pstamp and index are the state of the LogParser of the enumeration,
\* left counts the lines of its batch that are not inserted yet.
Unopened == [at |-> "unopened", cancelled |-> FALSE, parent |-> 0, pstamp |-> 0,
             index |-> 0, read |-> 0, left |-> 0, batch |-> 0]

Init ==
    /\ rows = <<>>
    /\ base = 0
    /\ loop = [k \in Source |-> Unopened]
    /\ viewer = 0 /\ subscription = 0 /\ leaving = "no"
    /\ circuit = Nobody
    /\ ids = 0 /\ arrived = <<>> /\ closed = {}

Received == F!MapThenSumSet(LAMBDA k : loop[k].read, Source)

\* The code of w can run: it is the one that goes on, or may start.
Runs(w) == circuit \in {Nobody, w}

\* It awaits the cancellation of a token; with none there it goes on at once.
Awaits(token, w) == circuit' = IF token = 0 THEN w ELSE Nobody

-----------------------------------------------------------------------------
(* LogParser.CreateLogEntry.  Definitions marked "Faulty" are plausible    *)
(* mistakes in the definition that follows them.                           *)

IsFirstLine(kind) == kind.stamp # 0 \/ kind.header

CreateLogEntry(k, kind, id) ==
    LET p == loop[k]
        follows == ~IsFirstLine(kind) /\ p.parent # 0
    IN  [id |-> id, source |-> k, batch |-> p.batch, stamp |-> kind.stamp, number |-> 0,
         parent |-> IF follows THEN p.parent ELSE 0,
         pstamp |-> IF follows THEN p.pstamp ELSE 0,
         index  |-> IF follows THEN p.index + 1 ELSE 0]

\* What CreateLogEntry leaves in the parser.
ParserAfter(p, kind, id) ==
    CASE IsFirstLine(kind) -> [p EXCEPT !.parent = id, !.pstamp = kind.stamp,
                                        !.index = 0]
      [] ~IsFirstLine(kind) /\ p.parent # 0 -> [p EXCEPT !.index = @ + 1]
      [] OTHER -> p

-----------------------------------------------------------------------------
(* InsertSorted.                                                           *)

\* Faulty: a line without a timestamp of its own does not count.
OwnStamp(row) == row.stamp

\* current.Timestamp ?? current.ParentTimestamp
StampOf(row) == IF row.stamp # 0 THEN row.stamp ELSE row.pstamp

\* Faulty: the rows are searched from the first.
FirstOrEnd(places, entries) == IF places = {} THEN Len(entries) ELSE F!Min(places)

\* The rows are searched from the last; a row that finds no place goes to the
\* end.
LastOrEnd(places, entries) == IF places = {} THEN Len(entries) ELSE F!Max(places)

\* How many rows go before the entry.
InsertSorted(entries, e) ==
    LastOrEnd({i \in DOMAIN entries :
                 IF e.parent # 0
                 THEN entries[i].id = e.parent /\ e.index - 1 = entries[i].index
                 ELSE e.stamp # 0 /\ StampOf(entries[i]) # 0
                                  /\ StampOf(entries[i]) < e.stamp},
              entries)

\* Faulty: the rows behind the new one keep their numbers.
NoShift(n) == n

\* logEntries[i].LineNumber++ for the rows behind the new one.
Shift(n) == n + 1

InsertLogEntry(entries, index, e, first) ==
    LET number == IF index = 0 THEN first ELSE entries[index].number + 1
    IN  SubSeq(entries, 1, index)
        \o <<[e EXCEPT !.number = number]>>
        \o [i \in 1 .. Len(entries) - index |->
              [entries[index + i] EXCEPT !.number = Shift(@)]]

-----------------------------------------------------------------------------
(* SetLogSourceAsync.                                                      *)

\* Faulty: the batches go on after the token was cancelled.
EvenCancelled(k) == TRUE

\* GetBatchesAsync looks at the token before it yields a batch.
NotCancelled(k) == ~loop[k].cancelled

\* The lines of a log are numbered consecutively: that of the next line of
\* the batch.
LineNumber(k) == FirstNumber[k] + loop[k].read - loop[k].left

\* A batch of n lines is yielded, on some thread, and posted to the circuit.
PostBatch(k, n) ==
    /\ loop[k].at = "reading" /\ NotCancelled(k)
    /\ Received + n <= MaxLines
    /\ loop' = [loop EXCEPT ![k] = [@ EXCEPT
                  !.at = "posted", !.left = n,
                  !.read = loop[k].read + n, !.batch = loop[k].batch + 1]]
    /\ UNCHANGED <<rows, base, page, circuit, ids, arrived, closed>>

\* The body of the loop inserts one line after the other.  It does not look at
\* the token, and leaves the circuit after the last line only.
InsertLine(k, kind) ==
    LET id == ids + 1
        entry == CreateLogEntry(k, kind, id)
        first == IF base = 0 THEN LineNumber(k) ELSE base
        last == loop[k].left = 1
    IN  /\ loop[k].at = "posted" /\ Runs(k)
        /\ base' = first
        /\ rows' = InsertLogEntry(rows, InsertSorted(rows, entry), entry, first)
        /\ loop' = [loop EXCEPT ![k] = [ParserAfter(@, kind, id) EXCEPT
                      !.left = loop[k].left - 1, !.at = IF last THEN "reading" ELSE "posted"]]
        /\ circuit' = IF last THEN Nobody ELSE k
        /\ ids' = id
        /\ arrived' = Append(arrived, id)
        /\ UNCHANGED <<page, closed>>

\* The enumeration ends with its log, or because its token is cancelled.
EndOfLog(k) ==
    /\ loop[k].at = "reading"
    /\ loop' = [loop EXCEPT ![k].at = "ended"]
    /\ UNCHANGED <<rows, base, page, circuit, ids, arrived, closed>>
-----------------------------------------------------------------------------
(* The page.  It is navigated to one source after the other, and may be    *)
(* navigated on before it is done.  A CancellationSeries cancels the token *)
(* that was current; an enumeration has one token of each series.          *)

Cancelled(k, token) == loop[k].cancelled \/ k = token

Cancel(token) == [k \in Source |-> [loop[k] EXCEPT !.cancelled = Cancelled(k, token)]]

RowsCleared == <<>>

\* ClearLogsAsync of the view, after its await.  _baseLineNumber keeps its
\* value.
ClearRows(token) ==
    /\ rows' = RowsCleared
    /\ arrived' = <<>>
    /\ closed' = {k \in Source : Cancelled(k, token)}
    /\ UNCHANGED <<base, ids>>

\* OnParametersSetAsync calls ClearLogsAsync,
OnParametersSet(k) ==
    /\ loop[k].at = "unopened" /\ \A j \in 1 .. k - 1 : loop[j].at # "unopened"
    /\ Runs(k)
    /\ viewer' = 0
    /\ loop' = [Cancel(viewer) EXCEPT ![k].at = "clearing"]
    /\ Awaits(viewer, k)
    /\ UNCHANGED <<rows, base, subscription, leaving, ids, arrived, closed>>

\* which clears the rows, and LoadLogsAsync takes the next subscription token;
ClearLogs(k) ==
    /\ loop[k].at = "clearing" /\ Runs(k)
    /\ ClearRows(subscription)
    /\ subscription' = k
    /\ loop' = [Cancel(subscription) EXCEPT ![k].at = "subscribing"]
    /\ Awaits(subscription, k)
    /\ UNCHANGED <<viewer, leaving>>

\* or no resource is selected, and StopWatchingLogsAsync is called.
ClearWithoutResource(k) ==
    /\ loop[k].at = "clearing" /\ Runs(k)
    /\ ClearRows(subscription)
    /\ subscription' = 0
    /\ loop' = [Cancel(subscription) EXCEPT ![k].at = "ended"]
    /\ circuit' = Nobody
    /\ UNCHANGED <<viewer, leaving>>

\* It subscribes, and SetLogSourceAsync takes the next token of the view.
SetLogSource(k) ==
    /\ loop[k].at = "subscribing" /\ Runs(k)
    /\ viewer' = k
    /\ loop' = [Cancel(viewer) EXCEPT ![k].at = "reading"]
    /\ circuit' = Nobody
    /\ UNCHANGED <<rows, base, subscription, leaving, ids, arrived, closed>>

\* HandleSelectedOptionChangedAsync: the subscription is stopped,
StopWatchingLogs ==
    /\ leaving = "no" /\ Runs(Handler)
    /\ subscription' = 0
    /\ loop' = Cancel(subscription)
    /\ leaving' = "stopped"
    /\ Awaits(subscription, Handler)
    /\ UNCHANGED <<rows, base, viewer, ids, arrived, closed>>

\* the source of the view is cancelled, and the rows are cleared; then the page
\* navigates.
LeaveSource ==
    /\ leaving = "stopped" /\ Runs(Handler)
    /\ viewer' = 0
    /\ loop' = Cancel(viewer)
    /\ leaving' = "cancelled"
    /\ Awaits(viewer, Handler)
    /\ UNCHANGED <<rows, base, subscription, ids, arrived, closed>>

LeaveRows ==
    /\ leaving = "cancelled" /\ Runs(Handler)
    /\ ClearRows(0)
    /\ leaving' = "no"
    /\ circuit' = Nobody
    /\ UNCHANGED <<loop, viewer, subscription>>

-----------------------------------------------------------------------------
Next ==
    \/ StopWatchingLogs \/ LeaveSource \/ LeaveRows
    \/ \E k \in Source :
         \/ OnParametersSet(k) \/ ClearLogs(k) \/ ClearWithoutResource(k)
         \/ SetLogSource(k) \/ EndOfLog(k)
         \/ \E n \in 1 .. MaxLines : PostBatch(k, n)
         \/ \E kind \in Kind : InsertLine(k, kind)

Spec == Init /\ [][Next]_vars

-----------------------------------------------------------------------------
(* Properties.                                                             *)

\* Wherever rows were inserted, the numbers shown are consecutive: the loop of
\* InsertLogEntry that counts up the rows behind the new one keeps them so.  As
\* long as the first line ever inserted is shown, they start at its number.
NumbersConsecutive ==
    \A i \in DOMAIN rows :
      /\ rows[i].number = rows[1].number + i - 1
      /\ rows[i].id = 1 => rows[1].number = FirstNumber[rows[i].source]

\* The second line of an entry stands right behind the first, whatever was
\* inserted before, between and after them, as long as the first is shown.
SecondLineFollows ==
    \A i, j \in DOMAIN rows :
      rows[j].index = 1 /\ rows[i].id = rows[j].parent => j = i + 1

\* A log whose lines come in order is shown in that order: rows with
\* increasing timestamps, each with its further lines, or no timestamps.
ArrivalOrderKept ==
    LET At(id) == CHOOSE i \in DOMAIN rows : rows[i].id = id
        E(n) == rows[At(arrived[n])]
        stamped == {n \in DOMAIN arrived : E(n).stamp # 0}
        orderly == \/ stamped = {}
                   \/ /\ \A m, n \in stamped : m < n => E(m).stamp < E(n).stamp
                      /\ \A n \in DOMAIN arrived : E(n).stamp # 0 \/ E(n).parent # 0
        oneLog == \A m, n \in DOMAIN arrived : E(m).source = E(n).source
    IN  orderly /\ oneLog => \A n \in DOMAIN arrived : rows[n].id = arrived[n]

\* A batch posted before its log was closed is still inserted, into the rows
\* of the next log, with all its lines and however often the page has switched
\* since; no second batch of a closed log is.
OneStaleBatch ==
    \A k \in closed : \A i, j \in DOMAIN rows :
      rows[i].source = k /\ rows[j].source = k => rows[i].batch = rows[j].batch

\* "Keep track of the base line number to ensure that we can calculate the line
\* number of each log entry": the rows of a log that is shown from its first
\* line and alone are numbered as its lines are.
NumberedAsItsLog ==
    \A k \in Source :
      Len(rows) = loop[k].read - loop[k].left /\ (\A i \in DOMAIN rows : rows[i].source = k)
        => \A i \in DOMAIN rows : rows[i].number = FirstNumber[k] + i - 1

\* "set up operations with cancellation and no overlap": once the page is done
\* switching, the view reads the source it subscribed to last.
LastSourceIsRead ==
    leaving = "no" /\ (\A k \in Source : loop[k].at \notin {"clearing", "subscribing"})
      => viewer = 0 \/ subscription = 0 \/ viewer = subscription

\* "we're on a non-timestamped line that is part of a multi-line log entry. We
\* need to find the prior line from that entry": every further line of an
\* entry stands right behind the line before it.
EntryStaysTogether ==
    \A i, j \in DOMAIN rows :
      rows[j].parent = rows[i].parent /\ rows[i].parent # 0
        /\ rows[j].index = rows[i].index + 1 => j = i + 1
=============================================================================
