------------------------ MODULE ResourceLoggerService ------------------------
(***************************************************************************)
(* The log of one resource.  Writers add lines to a bounded backlog and    *)
(* call the callbacks of the subscribers; a watcher (an enumeration of     *)
(* WatchAsync) adds its callback, takes a snapshot of the backlog, and     *)
(* yields first the snapshot and then what the callback put into its       *)
(* channel.  A monitor (WatchAnySubscribersAsync) is told when the log     *)
(* gets its first and loses its last subscriber.  A line is its number,    *)
(* and author[n] is the writer of line n.                                  *)
(***************************************************************************)
EXTENDS Integers, Sequences, FiniteSets

Seqs == INSTANCE SequencesExt

CONSTANTS
    Writer,   \* threads that call Log
    Watcher,  \* enumerations of WatchAsync
    Capacity, \* of the backlog
    Bound,    \* bounds: who takes part, and how many lines are logged
    MaxClears \* bound: calls of ClearBacklog

ASSUME CapacityAssumption == Capacity \in Nat \ {0}
ASSUME BoundAssumption ==
    /\ Bound \subseteq [writers : SUBSET Writer, watchers : SUBSET Watcher,
                         lines : Nat, monitored : BOOLEAN]
    /\ MaxClears \in Nat

VARIABLES
    bound,     \* the bounds of this behaviour
    created,   \* whether GetOrAdd's factory has run, and the state is in _loggers
    author,    \* the writer of each line; its length is _lineNumber
    backlog,   \* _backlog
    clears,    \* calls of ClearBacklog
    completed, \* _logStreamCts is cancelled
    closing,   \* watchers whose callback registered with _logStreamCts is to run
    onNewLog,  \* the callbacks of _onNewLog, in the order they are invoked
    writing,   \* of each writer: its step, its line, the callbacks to invoke
    pc,        \* the next step of each watcher
    token,     \* the watcher's cancellation token is cancelled
    flushed,   \* flushBacklogSync is set
    snapshot,  \* backlogSnapshot
    open,      \* the watcher's channel is not completed
    channel,   \* the lines in the watcher's channel
    received,  \* the lines yielded after the snapshot
    since,     \* history: lines logged before the callback was added
    cut,       \* history: lines whose callbacks were not all invoked
    listening, \* _loggerAdded has the monitor's handler
    attached,  \* how many times _onSubscribersChanged has the monitor's handler
    mpc,       \* the next step of the monitor
    events,    \* what the monitor was told
    told       \* history: told TRUE since the first of the present subscribers

writerVars == <<author, backlog, clears, writing, cut>>
watcherVars == <<onNewLog, pc, token, flushed, snapshot, received, since>>
monitorVars == <<bound, created, listening, attached, mpc>>
closingVars == <<completed, closing, open>>
vars == <<bound, created, author, backlog, clears, completed, closing, onNewLog, writing,
          pc, token, flushed, snapshot, open, channel, received, since, cut,
          listening, attached, mpc, events, told>>

Line == 1 .. bound.lines

WatcherStep == {"idle", "registered", "raiseOn", "added", "snapped", "backlog",
                "listening", "batch", "removing", "raiseOff", "done", "gone"}

TypeOK ==
    /\ bound \in Bound
    /\ created \in {"absent", "invoked", "present"}
    /\ author \in Seq(Writer) /\ Len(author) <= bound.lines
    /\ backlog \in Seq(Line) /\ Len(backlog) <= Capacity
    /\ clears \in 0 .. MaxClears
    /\ completed \in BOOLEAN /\ closing \subseteq Watcher
    /\ onNewLog \in Seq(Watcher)
    /\ writing \in [Writer -> [at : {"idle", "checked", "added", "calling", "waiting"},
                               line : Line \cup {0}, targets : Seq(Watcher)]]
    /\ pc \in [Watcher -> WatcherStep]
    /\ token \in [Watcher -> BOOLEAN]
    /\ flushed \in [Watcher -> BOOLEAN]
    /\ open \in [Watcher -> BOOLEAN]
    /\ snapshot \in [Watcher -> Seq(Line)]
    /\ channel \in [Watcher -> Seq(Line)]
    /\ received \in [Watcher -> Seq(Line)]
    /\ since \in [Watcher -> Line \cup {0}]
    /\ cut \subseteq Line
    /\ listening \in BOOLEAN /\ attached \in 0 .. 2
    /\ mpc \in {"none", "idle", "added", "check", "raise", "ready", "stopped"}
    /\ events \in Seq(BOOLEAN) /\ told \in BOOLEAN

Idle == [at |-> "idle", line |-> 0, targets |-> <<>>]

\* A log that no monitor will watch, or one that is about to be created.
Init ==
    /\ bound \in Bound
    /\ created = IF bound.monitored THEN "absent" ELSE "present"
    /\ mpc = IF bound.monitored THEN "idle" ELSE "none"
    /\ author = <<>> /\ backlog = <<>> /\ clears = 0
    /\ completed = FALSE /\ closing = {}
    /\ onNewLog = <<>>
    /\ writing = [w \in Writer |-> Idle]
    /\ pc = [s \in Watcher |-> "idle"]
    /\ token = [s \in Watcher |-> FALSE]
    /\ flushed = [s \in Watcher |-> FALSE]
    /\ snapshot = [s \in Watcher |-> <<>>]
    /\ open = [s \in Watcher |-> FALSE]
    /\ channel = [s \in Watcher |-> <<>>]
    /\ received = [s \in Watcher |-> <<>>]
    /\ since = [s \in Watcher |-> 0]
    /\ cut = {}
    /\ listening = FALSE /\ attached = 0
    /\ events = <<>> /\ told = FALSE

Goto(s, step) == pc' = [pc EXCEPT ![s] = step]

-----------------------------------------------------------------------------
(* GetResourceLoggerState: the factory tells the handler of LoggerAdded    *)
(* before GetOrAdd puts the state into _loggers.                           *)

InvokeLoggerAdded ==
    /\ created = "absent"
    /\ created' = "invoked"
    /\ attached' = IF listening THEN 1 ELSE 0
    /\ UNCHANGED <<writerVars, watcherVars, closingVars, channel, bound, listening,
                   mpc, events, told>>

AddLogger ==
    /\ created = "invoked"
    /\ created' = "present"
    /\ UNCHANGED <<writerVars, watcherVars, closingVars, channel, bound, listening,
                   attached, mpc, events, told>>

-----------------------------------------------------------------------------
(* Log.  Definitions marked "Faulty" are plausible mistakes in the         *)
(* definition that follows them.                                           *)

\* Faulty: the callbacks are invoked before the lock on _backlog is released.
LockedWhileInvoking == \A w \in Writer : writing[w].at \notin {"calling", "waiting"}

\* What is done under the lock on _backlog is one step, so that no step finds
\* it taken.
BacklogLockFree == TRUE

\* Logging after the stream was completed is a no-op.
CheckCompleted(w) ==
    /\ created = "present" /\ w \in bound.writers
    /\ writing[w].at = "idle" /\ ~completed
    /\ Len(author) + Cardinality({v \in Writer : writing[v].at = "checked"}) < bound.lines
    /\ writing' = [writing EXCEPT ![w].at = "checked"]
    /\ UNCHANGED <<author, backlog, clears, cut, watcherVars, closingVars,
                   channel, monitorVars, events, told>>

\* Faulty: a full backlog keeps its first line.
BacklogKept == backlog

\* A full backlog drops its first line for the next one.
RoomInBacklog == IF Len(backlog) = Capacity THEN Tail(backlog) ELSE backlog

\* The line gets its number and goes into the backlog.
AddLine(w) ==
    LET n == Len(author) + 1 IN
    /\ writing[w].at = "checked"
    /\ BacklogLockFree
    /\ author' = Append(author, w)
    /\ backlog' = Append(RoomInBacklog, n)
    /\ writing' = [writing EXCEPT ![w] = [@ EXCEPT !.at = "added", !.line = n]]
    /\ UNCHANGED <<clears, cut, watcherVars, closingVars, channel,
                   monitorVars, events, told>>

\* _onNewLog?.Invoke(logLine) reads the delegate without a lock ...
ReadDelegate(w) ==
    /\ writing[w].at = "added"
    /\ writing' = [writing EXCEPT ![w] =
                     IF onNewLog = <<>> THEN Idle
                     ELSE [@ EXCEPT !.at = "calling", !.targets = onNewLog]]
    /\ UNCHANGED <<author, backlog, clears, cut, watcherVars, closingVars,
                   channel, monitorVars, events, told>>

\* The writer is done with the callback at the head of its list.
NextTarget(w) ==
    writing' = [writing EXCEPT ![w] =
                  IF Len(@.targets) = 1 THEN Idle
                  ELSE [@ EXCEPT !.at = "calling",
                                 !.targets = Tail(writing[w].targets)]]

\* channel.Writer.TryWrite(log)
TryWrite(s, n) ==
    channel' = IF open[s] THEN [channel EXCEPT ![s] = Append(@, n)] ELSE channel

\* Faulty: a line is taken to be in the snapshot when its number is not above
\* the last one there.
NotPast(s, n) == snapshot[s] # <<>> /\ n <= Seqs!Last(snapshot[s])

\* backlogSnapshot.Contains(log)
InSnapshot(s, n) == Seqs!Contains(snapshot[s], n)

\* ... and invokes the callbacks one after the other.  A callback that finds
\* flushBacklogSync set writes the line to its channel at once,
CallFlushed(w) ==
    LET s == Head(writing[w].targets) IN
    /\ writing[w].at = "calling" /\ flushed[s]
    /\ TryWrite(s, writing[w].line)
    /\ NextTarget(w)
    /\ UNCHANGED <<author, backlog, clears, cut, watcherVars, closingVars,
                   monitorVars, events, told>>

\* otherwise it waits,
CallWaits(w) ==
    /\ writing[w].at = "calling" /\ ~flushed[Head(writing[w].targets)]
    /\ writing' = [writing EXCEPT ![w].at = "waiting"]
    /\ UNCHANGED <<author, backlog, clears, cut, watcherVars, closingVars,
                   channel, monitorVars, events, told>>

\* and writes the line unless the snapshot contains it.
WaitEnds(w) ==
    LET s == Head(writing[w].targets) n == writing[w].line IN
    /\ writing[w].at = "waiting" /\ flushed[s]
    /\ IF InSnapshot(s, n) THEN UNCHANGED channel ELSE TryWrite(s, n)
    /\ NextTarget(w)
    /\ UNCHANGED <<author, backlog, clears, cut, watcherVars, closingVars,
                   monitorVars, events, told>>

\* The wait ends with an exception when the watcher is cancelled: it leaves
\* Invoke, and the callbacks behind this one are not invoked.
WaitCancelled(w) ==
    /\ writing[w].at = "waiting" /\ token[Head(writing[w].targets)]
    /\ writing' = [writing EXCEPT ![w] = Idle]
    /\ cut' = cut \cup {writing[w].line}
    /\ UNCHANGED <<author, backlog, clears, watcherVars, closingVars, channel,
                   monitorVars, events, told>>

ClearBacklog ==
    /\ created = "present"
    /\ clears < MaxClears /\ backlog # <<>>
    /\ clears' = clears + 1
    /\ backlog' = <<>>
    /\ UNCHANGED <<author, writing, cut, watcherVars, closingVars, channel,
                   monitorVars, events, told>>

-----------------------------------------------------------------------------
(* Complete cancels _logStreamCts, and then the registered callbacks       *)
(* complete the channels.                                                  *)

Complete ==
    /\ created = "present" /\ ~completed
    /\ completed' = TRUE
    /\ closing' = {s \in Watcher : pc[s] \notin {"idle", "done", "gone"}}
    /\ UNCHANGED <<writerVars, watcherVars, open, channel, monitorVars, events, told>>

CompleteChannel(s) ==
    /\ s \in closing
    /\ closing' = closing \ {s}
    /\ open' = [open EXCEPT ![s] = FALSE]
    /\ UNCHANGED <<writerVars, watcherVars, completed, channel, monitorVars,
                   events, told>>

-----------------------------------------------------------------------------
(* WatchAsync.                                                             *)

\* Faulty: a token that is already cancelled does not complete the channel.
OpenWhenRegistered == TRUE

\* Register runs the callback at once when _logStreamCts is already cancelled.
OpenAfterRegister == ~completed

Register(s) ==
    /\ created = "present"
    /\ pc[s] = "idle" /\ s \in bound.watchers
    /\ open' = [open EXCEPT ![s] = OpenAfterRegister]
    /\ Goto(s, "registered")
    /\ UNCHANGED <<writerVars, onNewLog, token, flushed, snapshot, received, since,
                   completed, closing, channel, monitorVars, events, told>>

\* The caller's token may be cancelled at any time.
Cancel(s) ==
    /\ pc[s] \notin {"idle", "done", "gone"} /\ ~token[s]
    /\ token' = [token EXCEPT ![s] = TRUE]
    /\ UNCHANGED <<writerVars, onNewLog, pc, flushed, snapshot, received, since,
                   closingVars, channel, monitorVars, events, told>>

\* Faulty: the delegate is compared with null after the callback was added.
NullAfterAdd == FALSE

\* The lock region of OnNewLog's add: whether this is the first subscriber.
FirstSubscriber == onNewLog = <<>>

AddCallback(s) ==
    /\ pc[s] = "registered"
    /\ onNewLog' = Append(onNewLog, s)
    /\ since' = [since EXCEPT ![s] = Len(author)]
    /\ told' = (told /\ onNewLog # <<>>)
    /\ Goto(s, IF FirstSubscriber THEN "raiseOn" ELSE "added")
    /\ UNCHANGED <<writerVars, token, flushed, snapshot, received, closingVars,
                   channel, monitorVars, events>>

\* _onSubscribersChanged?.Invoke(hasSubscribers), outside the lock.
Raise(hasSubscribers) ==
    /\ events' = events \o [i \in 1 .. attached |-> hasSubscribers]
    /\ told' = (told \/ (hasSubscribers /\ attached > 0))

RaiseOn(s) ==
    /\ pc[s] = "raiseOn"
    /\ Raise(TRUE)
    /\ Goto(s, "added")
    /\ UNCHANGED <<writerVars, onNewLog, token, flushed, snapshot, received, since,
                   closingVars, channel, monitorVars>>

GetBacklogSnapshot(s) ==
    /\ pc[s] = "added"
    /\ BacklogLockFree
    /\ snapshot' = [snapshot EXCEPT ![s] = backlog]
    /\ Goto(s, "snapped")
    /\ UNCHANGED <<writerVars, onNewLog, token, flushed, received, since, closingVars,
                   channel, monitorVars, events, told>>

\* flushBacklogSync is set, and a snapshot that is not empty is yielded.
SetFlushed(s) ==
    /\ pc[s] = "snapped"
    /\ flushed' = [flushed EXCEPT ![s] = TRUE]
    /\ Goto(s, IF snapshot[s] = <<>> THEN "listening" ELSE "backlog")
    /\ UNCHANGED <<writerVars, onNewLog, token, snapshot, received, since, closingVars,
                   channel, monitorVars, events, told>>

\* The caller asks for more.
MoveNext(s) ==
    /\ pc[s] \in {"backlog", "batch"}
    /\ Goto(s, "listening")
    /\ UNCHANGED <<writerVars, onNewLog, token, flushed, snapshot, received, since,
                   closingVars, channel, monitorVars, events, told>>

\* Faulty: the batch is built from its end.
ReversedBatch(lines) == Seqs!Reverse(lines)

\* GetBatchesAsync reads all there is, in the order it was written.
Batch(lines) == lines

GetBatch(s) ==
    /\ pc[s] = "listening" /\ ~token[s]
    /\ channel[s] # <<>>
    /\ received' = [received EXCEPT ![s] = @ \o Batch(channel[s])]
    /\ channel' = [channel EXCEPT ![s] = <<>>]
    /\ Goto(s, "batch")
    /\ UNCHANGED <<writerVars, onNewLog, token, flushed, snapshot, since, closingVars,
                   monitorVars, events, told>>

\* The batches end when the channel is completed and empty, or by cancellation.
EndOfBatches(s) ==
    /\ pc[s] = "listening"
    /\ token[s] \/ (~open[s] /\ channel[s] = <<>>)
    /\ Goto(s, "removing")
    /\ UNCHANGED <<writerVars, onNewLog, token, flushed, snapshot, received, since,
                   closingVars, channel, monitorVars, events, told>>

\* The caller stops at a yield.  The finally block belongs to the batches only:
\* a caller that stops at the backlog leaves the callback where it is.
Dispose(s) ==
    /\ \/ pc[s] = "batch" /\ Goto(s, "removing") /\ UNCHANGED closing
       \/ pc[s] = "backlog" /\ Goto(s, "gone") /\ closing' = closing \ {s}
    /\ UNCHANGED <<writerVars, onNewLog, token, flushed, snapshot, received, since,
                   completed, open, channel, monitorVars, events, told>>

\* Faulty: the last subscriber leaves in silence.
NeverLast(s) == FALSE

\* _onNewLog -= value: the callback of the enumeration, which is there once.
Unsubscribed(s) ==
    Seqs!RemoveAt(onNewLog, CHOOSE i \in DOMAIN onNewLog : onNewLog[i] = s)

\* The lock region of OnNewLog's remove: whether this was the last subscriber.
LastSubscriber(s) == Unsubscribed(s) = <<>>

\* The end of the finally block completes the channel, and the locals of the
\* enumeration go out of scope.
LeaveWatch(s) ==
    /\ closing' = closing \ {s}
    /\ open' = [open EXCEPT ![s] = FALSE]
    /\ snapshot' = [snapshot EXCEPT ![s] = <<>>]
    /\ received' = [received EXCEPT ![s] = <<>>]
    /\ channel' = [channel EXCEPT ![s] = <<>>]

RemoveCallback(s) ==
    /\ pc[s] = "removing"
    /\ onNewLog' = Unsubscribed(s)
    /\ IF LastSubscriber(s)
       THEN Goto(s, "raiseOff") /\ UNCHANGED <<closing, open, snapshot, received, channel>>
       ELSE Goto(s, "done") /\ LeaveWatch(s)
    /\ UNCHANGED <<writerVars, token, flushed, since, completed, monitorVars, events,
                   told>>

RaiseOff(s) ==
    /\ pc[s] = "raiseOff"
    /\ Raise(FALSE)
    /\ Goto(s, "done") /\ LeaveWatch(s)
    /\ UNCHANGED <<writerVars, onNewLog, token, flushed, since, completed,
                   monitorVars>>

-----------------------------------------------------------------------------
(* WatchAnySubscribersAsync: LoggerAdded's add, then OnSubscribersChanged's *)
(* add for a logger that is in _loggers.                                   *)

ListenToLoggers ==
    /\ mpc = "idle"
    /\ listening' = TRUE
    /\ mpc' = "added"
    /\ UNCHANGED <<writerVars, watcherVars, closingVars, channel, bound, created, attached,
                   events, told>>

VisitLogger ==
    /\ mpc = "added"
    /\ IF created = "present"
       THEN attached' = attached + 1 /\ mpc' = "check"
       ELSE attached' = attached /\ mpc' = "ready"
    /\ UNCHANGED <<writerVars, watcherVars, closingVars, channel, bound, created, listening,
                   events, told>>

\* Faulty: a log that already has subscribers is not reported.
HasSubscribersUnknown == FALSE

\* The lock region of OnSubscribersChanged's add.
HasSubscribers == onNewLog # <<>>

CheckSubscribers ==
    /\ mpc = "check"
    /\ mpc' = IF HasSubscribers THEN "raise" ELSE "ready"
    /\ UNCHANGED <<writerVars, watcherVars, closingVars, channel, bound, created, listening,
                   attached, events, told>>

RaisePresent ==
    /\ mpc = "raise"
    /\ mpc' = "ready"
    /\ events' = Append(events, TRUE)
    /\ told' = TRUE
    /\ UNCHANGED <<writerVars, watcherVars, closingVars, channel, bound, created, listening,
                   attached>>

\* The finally block removes the handler of LoggerAdded; that of
\* OnSubscribersChanged stays, and writes to a channel nobody reads.
StopListening ==
    /\ mpc = "ready"
    /\ listening' = FALSE
    /\ mpc' = "stopped"
    /\ UNCHANGED <<writerVars, watcherVars, closingVars, channel, bound, created, attached,
                   events, told>>

-----------------------------------------------------------------------------
WriterNext(w) ==
    \/ CheckCompleted(w) \/ AddLine(w) \/ ReadDelegate(w)
    \/ CallFlushed(w) \/ CallWaits(w) \/ WaitEnds(w) \/ WaitCancelled(w)

\* The steps of a watcher, and of a caller that keeps asking for more.
WatcherRuns(s) ==
    \/ AddCallback(s) \/ RaiseOn(s) \/ GetBacklogSnapshot(s) \/ SetFlushed(s)
    \/ MoveNext(s) \/ GetBatch(s) \/ EndOfBatches(s) \/ RemoveCallback(s)
    \/ RaiseOff(s) \/ CompleteChannel(s)

MonitorNext ==
    \/ ListenToLoggers \/ VisitLogger \/ CheckSubscribers \/ RaisePresent \/ StopListening

Next ==
    \/ InvokeLoggerAdded \/ AddLogger \/ MonitorNext
    \/ ClearBacklog \/ Complete
    \/ \E w \in Writer : WriterNext(w)
    \/ \E s \in Watcher : Register(s) \/ Cancel(s) \/ Dispose(s) \/ WatcherRuns(s)

Spec == Init /\ [][Next]_vars

\* Threads that were started go on, and a caller that was yielded a batch asks
\* for the next or disposes the enumeration.
Fairness ==
    /\ \A w \in Writer : WF_vars(writing[w].at # "idle" /\ WriterNext(w))
    /\ \A s \in Watcher : WF_vars(WatcherRuns(s))

FairSpec == Spec /\ Fairness

-----------------------------------------------------------------------------
(* Properties.                                                             *)

\* All that the watcher's caller has been given or is going to read.
Seen(s) == snapshot[s] \o received[s] \o channel[s]

\* The line is on its way to the watcher.
InFlight(n, s) ==
    \E w \in Writer : /\ writing[w].line = n
                      /\ writing[w].at = "added" \/ Seqs!Contains(writing[w].targets, s)

\* No line logged after the callback was added is lost, whether it fell into
\* the snapshot or not, as long as the channel is open: not by the
\* hand-over from the snapshot to the channel, by ClearBacklog or by the
\* backlog's capacity.  The one exception is a line whose Invoke ended with
\* the exception of another watcher's cancelled wait.
NoLineLost ==
    \A s \in Watcher :
      flushed[s] /\ open[s] /\ Seqs!Contains(onNewLog, s) =>
        \A n \in since[s] + 1 .. Len(author) :
          Seqs!Contains(Seen(s), n) \/ InFlight(n, s) \/ n \in cut

\* A watcher gets the lines of one writer in the order they were logged, even
\* when the last of them comes twice.
WriterOrder ==
    \A s \in Watcher : \A i, j \in DOMAIN Seen(s) :
      i < j /\ author[Seen(s)[i]] = author[Seen(s)[j]] => Seen(s)[i] <= Seen(s)[j]

\* When the log has subscribers and no event is being raised, a monitor whose
\* handler is attached has been told so since the first of them came.
MonitorTold ==
    /\ attached > 0 /\ mpc = "ready"
    /\ onNewLog # <<>>
    /\ \A s \in Watcher : pc[s] # "raiseOn"
    => told

\* "Future subscribers will not receive any updates and will complete
\* immediately": after Complete, every watcher comes to its end.
CompletedWatchersEnd ==
    \A s \in Watcher :
      completed /\ pc[s] # "idle" ~> pc[s] \in {"done", "gone"}

\* A writer is not kept in Log: the wait for the snapshot always ends.
WriterReturns == \A w \in Writer : writing[w].at # "idle" ~> writing[w].at = "idle"

\* "An async enumerable that returns when the first subscriber is added to a
\* log, or when the last subscriber is removed": the last event is right when
\* no event is being raised.
LastEventIsRight ==
    /\ attached = 1 /\ mpc = "ready" /\ events # <<>>
    /\ \A s \in Watcher : pc[s] \notin {"raiseOn", "raiseOff"}
    => Seqs!Last(events) = (onNewLog # <<>>)
=============================================================================
