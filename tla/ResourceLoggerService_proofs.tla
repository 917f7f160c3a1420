--------------------- MODULE ResourceLoggerService_proofs ---------------------
(***************************************************************************)
(* What the watchers and the monitor of ResourceLoggerService are given,   *)
(* for any writers, watchers, capacity and number of lines.                *)
(***************************************************************************)
EXTENDS ResourceLoggerService, FiniteSetTheorems, SequenceTheorems, TLAPS

-----------------------------------------------------------------------------
(* The inductive invariant.                                                *)

\* The writers that are going to add a line have room for it.
Checked == {w \in Writer : writing[w].at = "checked"}

RoomForLines ==
    IsFiniteSet(Checked) /\ Len(author) + Cardinality(Checked) <= bound.lines

\* The steps of a watcher with its callback in _onNewLog.
Subscribing == {"raiseOn", "added", "snapped", "backlog", "listening", "batch",
                "removing"}

Subscribed ==
    \A s \in Watcher : pc[s] \in Subscribing => Seqs!Contains(onNewLog, s)

\* Nobody can watch a log that is not in _loggers.
NotCreated ==
    created # "present" => onNewLog = <<>> /\ \A s \in Watcher : pc[s] = "idle"

\* The handler is attached once before the monitor has visited the log.
AttachedOnce == mpc \in {"none", "idle", "added"} => attached <= 1

\* A monitor that is not about to look for subscribers has been told of them,
\* or a watcher is about to tell it.
ToldOfFirst ==
    /\ attached > 0 /\ mpc \notin {"check", "raise"}
    /\ onNewLog # <<>>
    /\ \A s \in Watcher : pc[s] # "raiseOn"
    => told

\* Nothing is written to a channel before flushBacklogSync is set.
BeforeFlush ==
    \A s \in Watcher :
      /\ pc[s] \in {"idle", "registered", "raiseOn", "added", "snapped"} => ~flushed[s]
      /\ ~flushed[s] => channel[s] = <<>> /\ received[s] = <<>>

\* The backlog holds lines in the order they were logged.
BacklogInOrder ==
    \A j \in DOMAIN backlog : /\ backlog[j] \in DOMAIN author
                              /\ \A i \in 1 .. j - 1 : backlog[i] < backlog[j]

\* A writer is busy with the last line it has logged.
BusyWriters ==
    \A w \in Writer :
      /\ writing[w].at \in {"idle", "checked"} => writing[w].targets = <<>>
      /\ writing[w].at \in {"calling", "waiting"} => writing[w].targets # <<>>
      /\ writing[w].at \in {"added", "calling", "waiting"} =>
           /\ writing[w].line \in DOMAIN author /\ author[writing[w].line] = w
           /\ \A n \in DOMAIN author : author[n] = w => n <= writing[w].line

\* What a watcher is given was logged.
SeenLines == \A s \in Watcher : \A i \in DOMAIN Seen(s) : Seen(s)[i] \in DOMAIN author

\* Until the watcher has its snapshot, a line logged after its callback was
\* added has not come past it.
HeldBack ==
    \A s \in Watcher :
      ~flushed[s] /\ Seqs!Contains(onNewLog, s) =>
        \A n \in since[s] + 1 .. Len(author) : InFlight(n, s) \/ n \in cut

IInv ==
    /\ TypeOK /\ RoomForLines
    /\ Subscribed /\ NotCreated /\ AttachedOnce /\ ToldOfFirst
    /\ BeforeFlush /\ BacklogInOrder /\ BusyWriters
    /\ SeenLines /\ WriterOrder
    /\ HeldBack /\ NoLineLost

-----------------------------------------------------------------------------
(* Sequences.                                                              *)

\* A sequence that is not empty has a head, and its tail has all the others.
LEMMA HeadTail ==
    ASSUME NEW T, NEW q \in Seq(T), q # <<>>
    PROVE  /\ Len(q) \in Nat /\ Len(q) > 0
           /\ Head(q) = q[1] /\ Head(q) \in T
           /\ Tail(q) \in Seq(T) /\ Len(Tail(q)) = Len(q) - 1
           /\ \A i \in 1 .. Len(Tail(q)) :
                 i + 1 \in 1 .. Len(q) /\ Tail(q)[i] = q[i + 1]
           /\ \A i \in 2 .. Len(q) :
                 i - 1 \in 1 .. Len(Tail(q)) /\ Tail(q)[i - 1] = q[i]
           /\ Len(q) # 1 => Tail(q) # <<>>
<1> DEFINE r == Tail(q)
<1>1. /\ Len(q) \in Nat /\ Len(q) > 0
      /\ Head(q) = q[1] /\ Head(q) \in T
      /\ r \in Seq(T) /\ Len(r) = Len(q) - 1
      /\ \A i \in 1 .. Len(r) : i + 1 \in 1 .. Len(q) /\ r[i] = q[i + 1]
      /\ \A i \in 2 .. Len(q) : i - 1 \in 1 .. Len(r) /\ r[i - 1] = q[i]
  OBVIOUS
<1>2. Len(q) # 1 => r # <<>>
  <2> HIDE DEF r
  <2> QED BY <1>1
<1> QED BY <1>1, <1>2

\* What is appended comes last.
LEMMA AppendLast ==
    ASSUME NEW T, NEW q \in Seq(T), NEW e \in T
    PROVE  /\ Append(q, e) \in Seq(T)
           /\ Len(q) \in Nat /\ Len(Append(q, e)) = Len(q) + 1
           /\ \A i \in 1 .. Len(q) : Append(q, e)[i] = q[i]
           /\ Append(q, e)[Len(q) + 1] = e
OBVIOUS

\* A sequence contains what was appended and what it contained before.
LEMMA ContainsAppended ==
    ASSUME NEW T, NEW q \in Seq(T), NEW e \in T, NEW x
    PROVE  Seqs!Contains(Append(q, e), x) <=> (x = e \/ Seqs!Contains(q, x))
<1>1. ASSUME Seqs!Contains(Append(q, e), x)
      PROVE  x = e \/ Seqs!Contains(q, x)
  BY <1>1, AppendLast DEF Seqs!Contains
<1>2. ASSUME x = e \/ Seqs!Contains(q, x)
      PROVE  Seqs!Contains(Append(q, e), x)
  <2>1. /\ Len(q) \in Nat /\ Len(Append(q, e)) = Len(q) + 1
        /\ \A i \in 1 .. Len(q) : Append(q, e)[i] = q[i]
        /\ Append(q, e)[Len(q) + 1] = e
    BY AppendLast
  <2>2. CASE x = e
    BY <2>1, <2>2 DEF Seqs!Contains
  <2>3. CASE Seqs!Contains(q, x)
    BY <2>1, <2>3 DEF Seqs!Contains
  <2> QED BY <1>2, <2>2, <2>3
<1> QED BY <1>1, <1>2

\* The tail contains all but the head.
LEMMA ContainsTail ==
    ASSUME NEW T, NEW q \in Seq(T), q # <<>>, NEW x, x # Head(q), Seqs!Contains(q, x)
    PROVE  Len(q) # 1 /\ Seqs!Contains(Tail(q), x)
<1>1. PICK i \in 1 .. Len(q) : q[i] = x
  BY DEF Seqs!Contains
<1>2. /\ Len(q) \in Nat /\ Head(q) = q[1]
      /\ \A j \in 2 .. Len(q) : j - 1 \in 1 .. Len(Tail(q)) /\ Tail(q)[j - 1] = q[j]
  BY HeadTail
<1>3. i \in 2 .. Len(q)
  BY <1>1, <1>2
<1> QED BY <1>1, <1>2, <1>3 DEF Seqs!Contains

\* Removing the callback of a watcher leaves those of the others.
LEMMA UnsubscribedOthers ==
    ASSUME onNewLog \in Seq(Watcher), NEW s \in Watcher, Seqs!Contains(onNewLog, s)
    PROVE  /\ onNewLog # <<>>
           /\ Unsubscribed(s) \in Seq(Watcher)
           /\ \A x : Seqs!Contains(Unsubscribed(s), x) => Seqs!Contains(onNewLog, x)
           /\ \A x : x # s /\ Seqs!Contains(onNewLog, x) => Seqs!Contains(Unsubscribed(s), x)
<1> DEFINE k == CHOOSE i \in DOMAIN onNewLog : onNewLog[i] = s
           n == Len(onNewLog)
           A == SubSeq(onNewLog, 1, k - 1)
           B == SubSeq(onNewLog, k + 1, n)
<1>1. n \in Nat /\ DOMAIN onNewLog = 1 .. n /\ \A i \in 1 .. n : onNewLog[i] \in Watcher
  OBVIOUS
<1>2. k \in 1 .. n /\ onNewLog[k] = s
  BY <1>1 DEF Seqs!Contains
<1>3. Unsubscribed(s) = A \o B
  BY DEF Unsubscribed, Seqs!RemoveAt
<1> HIDE DEF k
<1>4. /\ A \in Seq(Watcher) /\ Len(A) = k - 1
      /\ \A i \in 1 .. k - 1 : A[i] = onNewLog[i]
  <2>1. 1 \in Int /\ k - 1 \in Int /\ \A i \in 1 .. k - 1 : onNewLog[i] \in Watcher
    BY <1>1, <1>2
  <2>2. /\ A \in Seq(Watcher)
        /\ Len(A) = IF 1 <= k - 1 THEN k - 1 - 1 + 1 ELSE 0
        /\ \A i \in 1 .. k - 1 - 1 + 1 : A[i] = onNewLog[1 + i - 1]
    BY <2>1, SubSeqProperties
  <2> HIDE DEF A
  <2> QED BY <1>1, <1>2, <2>2
<1>5. /\ B \in Seq(Watcher) /\ Len(B) = n - k
      /\ \A i \in 1 .. n - k : B[i] = onNewLog[k + i]
  <2>1. k + 1 \in Int /\ n \in Int /\ \A i \in k + 1 .. n : onNewLog[i] \in Watcher
    BY <1>1, <1>2
  <2>2. /\ B \in Seq(Watcher)
        /\ Len(B) = IF k + 1 <= n THEN n - (k + 1) + 1 ELSE 0
        /\ \A i \in 1 .. n - (k + 1) + 1 : B[i] = onNewLog[k + 1 + i - 1]
    BY <2>1, SubSeqProperties
  <2> HIDE DEF B, n
  <2> QED BY <1>1, <1>2, <2>2
<1> HIDE DEF A, B
<1>6. /\ A \o B \in Seq(Watcher)
      /\ Len(A \o B) = Len(A) + Len(B)
      /\ \A i \in 1 .. Len(A) + Len(B) :
            (A \o B)[i] = IF i <= Len(A) THEN A[i] ELSE B[i - Len(A)]
  BY <1>4, <1>5, ConcatProperties
<1> DEFINE u == Unsubscribed(s)
<1> HIDE DEF n
<1>7. /\ Len(u) = n - 1
      /\ \A i \in 1 .. n - 1 : u[i] = IF i < k THEN onNewLog[i] ELSE onNewLog[i + 1]
  BY <1>1, <1>2, <1>3, <1>4, <1>5, <1>6
<1> HIDE DEF u
<1>8. ASSUME NEW x, Seqs!Contains(u, x)
      PROVE  Seqs!Contains(onNewLog, x)
  <2>1. PICK i \in 1 .. n - 1 : u[i] = x
    BY <1>7, <1>8 DEF Seqs!Contains
  <2>2. i \in 1 .. n /\ i + 1 \in 1 .. n
    BY <1>1
  <2> QED BY <1>7, <2>1, <2>2 DEF n, Seqs!Contains
<1>9. ASSUME NEW x, x # s, Seqs!Contains(onNewLog, x)
      PROVE  Seqs!Contains(u, x)
  <2>1. PICK i \in 1 .. n : onNewLog[i] = x
    BY <1>9 DEF n, Seqs!Contains
  <2>2. CASE i < k
    <3>1. i \in 1 .. n - 1
      BY <1>1, <1>2, <2>2
    <3> QED BY <1>7, <2>1, <2>2, <3>1 DEF Seqs!Contains
  <2>3. CASE i > k
    <3>1. i - 1 \in 1 .. n - 1 /\ ~(i - 1 < k) /\ (i - 1) + 1 = i
      BY <1>1, <1>2, <2>3
    <3> QED BY <1>7, <2>1, <3>1 DEF Seqs!Contains
  <2>4. i # k
    BY <1>2, <1>9, <2>1
  <2> QED BY <1>1, <1>2, <2>2, <2>3, <2>4
<1>10. onNewLog # <<>>
  BY <1>1, <1>2 DEF n
<1> QED BY <1>3, <1>6, <1>8, <1>9, <1>10 DEF u

-----------------------------------------------------------------------------
(* What a step of Log does to the writer.                                  *)

Write == [at : {"idle", "checked", "added", "calling", "waiting"},
          line : Line \cup {0}, targets : Seq(Watcher)]

Becomes(w, at, line, targets) ==
    writing' = [writing EXCEPT ![w] = [at |-> at, line |-> line, targets |-> targets]]

\* The writer has its new step, line and callbacks, and the others have theirs.
LEMMA BecomesFields ==
    ASSUME TypeOK, NEW w \in Writer, NEW at, NEW line, NEW targets,
           Becomes(w, at, line, targets)
    PROVE  /\ writing'[w].at = at /\ writing'[w].line = line
           /\ writing'[w].targets = targets
           /\ \A v \in Writer : v # w => writing'[v] = writing[v]
BY DEF TypeOK, Becomes

\* Another step leaves the rest of a writer's record.
LEMMA WriteExcept ==
    ASSUME NEW q \in Write
    PROVE  [q EXCEPT !.at = "checked"] =
             [at |-> "checked", line |-> q.line, targets |-> q.targets]
BY DEF Write

\* The steps of Log.
LEMMA WriterEffects ==
    ASSUME TypeOK, NEW w \in Writer
    PROVE  LET line == writing[w].line
               targets == writing[w].targets
           IN  /\ CheckCompleted(w) => Becomes(w, "checked", line, targets)
               /\ AddLine(w) => Becomes(w, "added", Len(author) + 1, targets)
               /\ ReadDelegate(w) => IF onNewLog = <<>> THEN Becomes(w, "idle", 0, <<>>)
                                     ELSE Becomes(w, "calling", line, onNewLog)
               /\ NextTarget(w) => IF Len(targets) = 1 THEN Becomes(w, "idle", 0, <<>>)
                                   ELSE Becomes(w, "calling", line, Tail(targets))
               /\ CallWaits(w) => Becomes(w, "waiting", line, targets)
               /\ WaitCancelled(w) => Becomes(w, "idle", 0, <<>>)
<1> DEFINE q == writing[w]
<1>1. q \in Write
  BY DEF TypeOK, Write
<1>2. CheckCompleted(w) => Becomes(w, "checked", writing[w].line, writing[w].targets)
  <2>1. CheckCompleted(w) => writing' = [writing EXCEPT ![w].at = "checked"]
    BY DEF CheckCompleted
  <2>2. [q EXCEPT !.at = "checked"] =
          [at |-> "checked", line |-> q.line, targets |-> q.targets]
    BY <1>1, WriteExcept
  <2> QED BY <2>1, <2>2 DEF Becomes, TypeOK
<1>3. AddLine(w) => Becomes(w, "added", Len(author) + 1, writing[w].targets)
  BY DEF AddLine, Becomes, TypeOK
<1>4. ReadDelegate(w) => IF onNewLog = <<>> THEN Becomes(w, "idle", 0, <<>>)
                         ELSE Becomes(w, "calling", writing[w].line, onNewLog)
  BY DEF ReadDelegate, Becomes, Idle, TypeOK
<1>5. NextTarget(w) =>
        IF Len(writing[w].targets) = 1 THEN Becomes(w, "idle", 0, <<>>)
        ELSE Becomes(w, "calling", writing[w].line, Tail(writing[w].targets))
  BY DEF NextTarget, Becomes, Idle, TypeOK
<1>6. CallWaits(w) => Becomes(w, "waiting", writing[w].line, writing[w].targets)
  BY DEF CallWaits, Becomes, TypeOK
<1>7. WaitCancelled(w) => Becomes(w, "idle", 0, <<>>)
  BY DEF WaitCancelled, Becomes, Idle
<1> QED BY <1>2, <1>3, <1>4, <1>5, <1>6, <1>7

-----------------------------------------------------------------------------
(* What the groups of steps leave alone.                                   *)

\* A step of Log changes the lines, its writer and a channel.
LEMMA WriterFrame ==
    ASSUME NEW w \in Writer, WriterNext(w)
    PROVE  UNCHANGED <<watcherVars, closingVars, monitorVars, events, told, clears>>
<1>1. CASE CheckCompleted(w)
  BY <1>1 DEF CheckCompleted
<1>2. CASE AddLine(w)
  BY <1>2 DEF AddLine
<1>3. CASE ReadDelegate(w)
  BY <1>3 DEF ReadDelegate
<1>4. CASE CallFlushed(w)
  BY <1>4 DEF CallFlushed
<1>5. CASE CallWaits(w)
  BY <1>5 DEF CallWaits
<1>6. CASE WaitEnds(w)
  BY <1>6 DEF WaitEnds
<1>7. CASE WaitCancelled(w)
  BY <1>7 DEF WaitCancelled
<1> QED BY <1>1, <1>2, <1>3, <1>4, <1>5, <1>6, <1>7 DEF WriterNext

\* A step of the monitor, or of the log's creation, changes what the monitor
\* knows.
LEMMA MonitorFrame ==
    ASSUME InvokeLoggerAdded \/ AddLogger \/ MonitorNext
    PROVE  UNCHANGED <<writerVars, watcherVars, closingVars, channel, bound>>
BY DEF InvokeLoggerAdded, AddLogger, MonitorNext, ListenToLoggers, VisitLogger,
       CheckSubscribers, RaisePresent, StopListening

WatcherNext(s) == Register(s) \/ Cancel(s) \/ Dispose(s) \/ WatcherRuns(s)

\* A step of a watcher changes nothing of the writers, and the monitor only by
\* what it is told.
LEMMA WatcherFrame ==
    ASSUME NEW s \in Watcher, WatcherNext(s)
    PROVE  UNCHANGED <<writerVars, monitorVars, completed>>
<1>1. CASE Register(s) \/ Cancel(s) \/ Dispose(s)
  BY <1>1 DEF Register, Cancel, Dispose, closingVars
<1>2. CASE AddCallback(s) \/ RaiseOn(s) \/ GetBacklogSnapshot(s) \/ SetFlushed(s)
  BY <1>2 DEF AddCallback, RaiseOn, GetBacklogSnapshot, SetFlushed, closingVars
<1>3. CASE MoveNext(s) \/ GetBatch(s) \/ EndOfBatches(s)
  BY <1>3 DEF MoveNext, GetBatch, EndOfBatches, closingVars
<1>4. CASE RemoveCallback(s) \/ RaiseOff(s) \/ CompleteChannel(s)
  BY <1>4 DEF RemoveCallback, RaiseOff, CompleteChannel
<1> QED BY <1>1, <1>2, <1>3, <1>4 DEF WatcherNext, WatcherRuns

\* The bounds are chosen once.
LEMMA BoundFixed ==
    ASSUME [Next]_vars
    PROVE  bound' = bound /\ Line' = Line
<1>1. CASE InvokeLoggerAdded \/ AddLogger \/ MonitorNext
  BY <1>1, MonitorFrame DEF Line
<1>2. CASE ClearBacklog \/ Complete
  BY <1>2 DEF ClearBacklog, Complete, monitorVars, Line
<1>3. ASSUME NEW w \in Writer, WriterNext(w)
      PROVE  bound' = bound /\ Line' = Line
  BY <1>3, WriterFrame DEF monitorVars, Line
<1>4. ASSUME NEW s \in Watcher, WatcherNext(s)
      PROVE  bound' = bound /\ Line' = Line
  BY <1>4, WatcherFrame DEF monitorVars, Line
<1>5. CASE UNCHANGED vars
  BY <1>5 DEF vars, Line
<1> QED BY <1>1, <1>2, <1>3, <1>4, <1>5 DEF Next, WatcherNext

-----------------------------------------------------------------------------
(* Types.                                                                  *)

WriterTypes ==
    /\ author \in Seq(Writer) /\ Len(author) <= bound.lines
    /\ backlog \in Seq(Line) /\ Len(backlog) <= Capacity
    /\ clears \in 0 .. MaxClears
    /\ writing \in [Writer -> Write]
    /\ cut \subseteq Line

WatcherTypes ==
    /\ closing \subseteq Watcher
    /\ onNewLog \in Seq(Watcher)
    /\ pc \in [Watcher -> WatcherStep]
    /\ snapshot \in [Watcher -> Seq(Line)]
    /\ channel \in [Watcher -> Seq(Line)]
    /\ received \in [Watcher -> Seq(Line)]
    /\ since \in [Watcher -> Line \cup {0}]

MonitorTypes ==
    /\ bound \in Bound
    /\ created \in {"absent", "invoked", "present"}
    /\ attached \in 0 .. 2
    /\ mpc \in {"none", "idle", "added", "check", "raise", "ready", "stopped"}

FlagTypes ==
    /\ completed \in BOOLEAN
    /\ token \in [Watcher -> BOOLEAN]
    /\ flushed \in [Watcher -> BOOLEAN]
    /\ open \in [Watcher -> BOOLEAN]
    /\ listening \in BOOLEAN
    /\ events \in Seq(BOOLEAN) /\ told \in BOOLEAN

\* The types in four groups.
LEMMA TypeParts == TypeOK = (WriterTypes /\ WatcherTypes /\ MonitorTypes /\ FlagTypes)
BY DEF TypeOK, WriterTypes, WatcherTypes, MonitorTypes, FlagTypes, Write

\* A writer that is about to add a line has a number left for it.
LEMMA NextLine ==
    ASSUME TypeOK, RoomForLines, NEW w \in Writer, writing[w].at = "checked"
    PROVE  /\ Len(author) \in Nat /\ bound.lines \in Nat
           /\ Len(author) + 1 <= bound.lines /\ Len(author) + 1 \in Line
           /\ Cardinality(Checked) \in Nat \ {0}
<1>1. bound.lines \in Nat /\ Len(author) \in Nat
  BY BoundAssumption DEF TypeOK
<1>2. Checked # {} /\ IsFiniteSet(Checked)
  BY DEF Checked, RoomForLines
<1>3. Cardinality(Checked) \in Nat /\ Cardinality(Checked) # 0
  BY <1>2, FS_CardinalityType, FS_EmptySet
<1> QED BY <1>1, <1>3 DEF RoomForLines, Line

\* Room for the next line is made by dropping the first.
LEMMA RoomMade ==
    ASSUME TypeOK
    PROVE  /\ RoomInBacklog \in Seq(Line) /\ Len(RoomInBacklog) \in Nat
           /\ Len(RoomInBacklog) + 1 <= Capacity
           /\ \E d \in 0 .. 1 :
                 \A i \in 1 .. Len(RoomInBacklog) :
                    i + d \in DOMAIN backlog /\ RoomInBacklog[i] = backlog[i + d]
<1>1. backlog \in Seq(Line) /\ Len(backlog) \in Nat /\ Len(backlog) <= Capacity
      /\ Capacity \in Nat \ {0}
  BY CapacityAssumption DEF TypeOK
<1>2. CASE Len(backlog) = Capacity
  <2>1. backlog # <<>> /\ RoomInBacklog = Tail(backlog)
    BY <1>1, <1>2 DEF RoomInBacklog
  <2>2. /\ Tail(backlog) \in Seq(Line) /\ Len(Tail(backlog)) = Len(backlog) - 1
        /\ \A i \in 1 .. Len(Tail(backlog)) :
              i + 1 \in 1 .. Len(backlog) /\ Tail(backlog)[i] = backlog[i + 1]
    BY <1>1, <2>1, HeadTail
  <2> QED BY <1>1, <2>1, <2>2
<1>3. CASE Len(backlog) # Capacity
  <2>1. RoomInBacklog = backlog
    BY <1>3 DEF RoomInBacklog
  <2>2. \A i \in 1 .. Len(backlog) : i + 0 \in DOMAIN backlog /\ backlog[i] = backlog[i + 0]
    BY <1>1
  <2> QED BY <1>1, <1>3, <2>1, <2>2
<1> QED BY <1>2, <1>3

\* The lines, the backlog and the writers keep their types: a line gets a
\* number within the bound, and the backlog its room before it grows.
LEMMA WriterTypesNext ==
    ASSUME TypeOK, RoomForLines, BusyWriters, [Next]_vars
    PROVE  WriterTypes'
<1>1. bound' = bound /\ Line' = Line
  BY BoundFixed
<1>2. Write' = Write
  BY <1>1 DEF Write
<1>3. WriterTypes
  BY TypeParts
<1>4. ASSUME NEW w \in Writer, WriterNext(w)
      PROVE  WriterTypes'
  <2> DEFINE q == writing[w]
  <2>1. q \in Write /\ q.line \in Line \cup {0} /\ q.targets \in Seq(Watcher)
        /\ onNewLog \in Seq(Watcher)
    BY DEF TypeOK, Write
  <2>2. ASSUME NEW at \in {"idle", "checked", "added", "calling", "waiting"},
               NEW line \in Line \cup {0}, NEW targets \in Seq(Watcher),
               Becomes(w, at, line, targets)
        PROVE  writing' \in [Writer -> Write]
    BY <1>3, <2>2 DEF Becomes, Write, WriterTypes
  <2>3. <<>> \in Seq(Watcher)
    OBVIOUS
  <2>4. CASE CheckCompleted(w)
    <3>1. writing' \in [Writer -> Write]
      BY <2>1, <2>2, <2>4, WriterEffects
    <3>2. UNCHANGED <<author, backlog, clears, cut>>
      BY <2>4 DEF CheckCompleted
    <3> QED BY <1>1, <1>2, <1>3, <3>1, <3>2 DEF WriterTypes
  <2>5. CASE AddLine(w)
    <3> DEFINE n == Len(author) + 1
    <3>1. writing[w].at = "checked"
      BY <2>5 DEF AddLine
    <3>2. Len(author) \in Nat /\ n <= bound.lines /\ n \in Line
      BY <3>1, NextLine
    <3>3. writing' \in [Writer -> Write]
      BY <2>1, <2>2, <2>5, <3>2, WriterEffects
    <3>4. author' = Append(author, w) /\ backlog' = Append(RoomInBacklog, n)
          /\ UNCHANGED <<clears, cut>>
      BY <2>5 DEF AddLine
    <3>5. author' \in Seq(Writer) /\ Len(author') = n
      BY <1>3, <3>4, AppendLast DEF WriterTypes
    <3> HIDE DEF n
    <3>6. RoomInBacklog \in Seq(Line) /\ Len(RoomInBacklog) + 1 <= Capacity
      BY RoomMade
    <3>7. backlog' \in Seq(Line) /\ Len(backlog') = Len(RoomInBacklog) + 1
      BY <3>2, <3>4, <3>6, AppendLast
    <3> QED BY <1>1, <1>2, <1>3, <3>2, <3>3, <3>4, <3>5, <3>6, <3>7 DEF WriterTypes
  <2>6. CASE ReadDelegate(w)
    <3>1. writing' \in [Writer -> Write]
      BY <2>1, <2>2, <2>3, <2>6, WriterEffects
    <3>2. UNCHANGED <<author, backlog, clears, cut>>
      BY <2>6 DEF ReadDelegate
    <3> QED BY <1>1, <1>2, <1>3, <3>1, <3>2 DEF WriterTypes
  <2>7. CASE CallFlushed(w) \/ WaitEnds(w)
    <3>1. NextTarget(w) /\ UNCHANGED <<author, backlog, clears, cut>>
          /\ q.at \in {"calling", "waiting"}
      BY <2>7 DEF CallFlushed, WaitEnds
    <3>2. q.targets # <<>>
      BY <3>1 DEF BusyWriters
    <3>3. Tail(q.targets) \in Seq(Watcher)
      BY <2>1, <3>2, HeadTail
    <3>4. writing' \in [Writer -> Write]
      BY <2>1, <2>2, <2>3, <3>1, <3>3, WriterEffects
    <3> QED BY <1>1, <1>2, <1>3, <3>1, <3>4 DEF WriterTypes
  <2>8. CASE CallWaits(w)
    <3>1. writing' \in [Writer -> Write]
      BY <2>1, <2>2, <2>8, WriterEffects
    <3>2. UNCHANGED <<author, backlog, clears, cut>>
      BY <2>8 DEF CallWaits
    <3> QED BY <1>1, <1>2, <1>3, <3>1, <3>2 DEF WriterTypes
  <2>9. CASE WaitCancelled(w)
    <3>1. writing' \in [Writer -> Write]
      BY <2>1, <2>2, <2>3, <2>9, WriterEffects
    <3>2. UNCHANGED <<author, backlog, clears>> /\ cut' = cut \cup {q.line}
          /\ q.at = "waiting"
      BY <2>9 DEF WaitCancelled
    <3>3. q.line \in DOMAIN author
      BY <3>2 DEF BusyWriters
    <3>4. q.line \in Line
      BY <2>1, <3>3, <1>3 DEF WriterTypes
    <3> QED BY <1>1, <1>2, <1>3, <3>1, <3>2, <3>4 DEF WriterTypes
  <2> QED BY <1>4, <2>4, <2>5, <2>6, <2>7, <2>8, <2>9 DEF WriterNext
<1>5. ASSUME UNCHANGED writerVars
      PROVE  WriterTypes'
  BY <1>1, <1>2, <1>3, <1>5 DEF WriterTypes, writerVars
<1>6. CASE ClearBacklog
  BY <1>1, <1>2, <1>3, <1>6, BoundAssumption, CapacityAssumption
     DEF ClearBacklog, WriterTypes
<1>7. CASE InvokeLoggerAdded \/ AddLogger \/ MonitorNext
  BY <1>5, <1>7, MonitorFrame
<1>8. CASE Complete
  BY <1>5, <1>8 DEF Complete
<1>9. ASSUME NEW s \in Watcher, WatcherNext(s)
      PROVE  WriterTypes'
  BY <1>5, <1>9, WatcherFrame
<1>10. CASE UNCHANGED vars
  BY <1>5, <1>10 DEF vars, writerVars
<1> QED BY <1>4, <1>6, <1>7, <1>8, <1>9, <1>10 DEF Next, WatcherNext

\* The line a writer is busy with, and the callbacks it is to invoke.
LEMMA BusyFields ==
    ASSUME TypeOK, BusyWriters, NEW w \in Writer,
           writing[w].at \in {"added", "calling", "waiting"}
    PROVE  /\ writing[w].line \in Line /\ writing[w].line \in DOMAIN author
           /\ writing[w].targets \in Seq(Watcher)
           /\ writing[w].at # "added" =>
                writing[w].targets # <<>> /\ Head(writing[w].targets) \in Watcher
<1>1. writing[w].line \in DOMAIN author
  BY DEF BusyWriters
<1>2. writing[w].line \in Line
  BY <1>1 DEF TypeOK
<1>3. writing[w].targets \in Seq(Watcher)
  BY DEF TypeOK
<1>4. writing[w].at # "added" => writing[w].targets # <<>>
  BY DEF BusyWriters
<1> QED BY <1>1, <1>2, <1>3, <1>4, HeadTail

\* The callbacks and the channels of the watchers keep their types.
LEMMA WatcherTypesNext ==
    ASSUME TypeOK, BusyWriters, Subscribed, [Next]_vars
    PROVE  WatcherTypes'
<1>1. bound' = bound /\ Line' = Line
  BY BoundFixed
<1>2. WatcherTypes
  BY TypeParts
<1>3. ASSUME UNCHANGED <<watcherVars, channel>>, closing' \subseteq Watcher
      PROVE  WatcherTypes'
  BY <1>1, <1>2, <1>3 DEF WatcherTypes, watcherVars
<1>4. ASSUME NEW w \in Writer, WriterNext(w)
      PROVE  WatcherTypes'
  <2>1. UNCHANGED watcherVars /\ closing' = closing
    BY <1>4, WriterFrame DEF closingVars
  <2>2. CASE CallFlushed(w) \/ WaitEnds(w)
    <3> DEFINE s == Head(writing[w].targets)
               n == writing[w].line
    <3>1. /\ writing[w].at \in {"calling", "waiting"}
          /\ channel' = channel \/ channel' = [channel EXCEPT ![s] = Append(@, n)]
      BY <2>2 DEF CallFlushed, WaitEnds, TryWrite
    <3>2. n \in Line /\ s \in Watcher
      BY <3>1, BusyFields
    <3> HIDE DEF s, n
    <3>3. Append(channel[s], n) \in Seq(Line)
      BY <1>2, <3>2, AppendLast DEF WatcherTypes
    <3>4. channel' \in [Watcher -> Seq(Line)]
      BY <1>2, <3>1, <3>2, <3>3 DEF WatcherTypes
    <3> QED BY <1>1, <1>2, <2>1, <3>4 DEF WatcherTypes, watcherVars
  <2>3. CASE ~(CallFlushed(w) \/ WaitEnds(w))
    <3>1. channel' = channel
      BY <1>4, <2>3 DEF WriterNext, CheckCompleted, AddLine, ReadDelegate, CallWaits,
                        WaitCancelled
    <3> QED BY <1>2, <1>3, <2>1, <3>1 DEF WatcherTypes
  <2> QED BY <2>2, <2>3
<1>5. ASSUME NEW s \in Watcher, WatcherNext(s)
      PROVE  WatcherTypes'
  <2>1. CASE Register(s)
    BY <1>1, <1>2, <2>1 DEF Register, Goto, WatcherTypes, WatcherStep
  <2>2. CASE Cancel(s)
    BY <1>1, <1>2, <2>2 DEF Cancel, WatcherTypes, closingVars
  <2>3. CASE Dispose(s)
    BY <1>1, <1>2, <2>3 DEF Dispose, Goto, WatcherTypes, WatcherStep
  <2>4. CASE AddCallback(s)
    <3>1. Len(author) \in Line \cup {0}
      BY BoundAssumption DEF TypeOK, Line
    <3>2. onNewLog' \in Seq(Watcher)
      BY <1>2, <2>4, AppendLast DEF AddCallback, WatcherTypes
    <3>3. since' \in [Watcher -> Line \cup {0}]
      BY <1>2, <2>4, <3>1 DEF AddCallback, WatcherTypes
    <3> QED BY <1>1, <1>2, <2>4, <3>2, <3>3
            DEF AddCallback, Goto, WatcherTypes, WatcherStep, closingVars
  <2>5. CASE RaiseOn(s)
    BY <1>1, <1>2, <2>5 DEF RaiseOn, Goto, WatcherTypes, WatcherStep, closingVars
  <2>6. CASE GetBacklogSnapshot(s)
    <3>1. snapshot' \in [Watcher -> Seq(Line)]
      BY <2>6 DEF GetBacklogSnapshot, TypeOK
    <3> QED BY <1>1, <1>2, <2>6, <3>1
            DEF GetBacklogSnapshot, Goto, WatcherTypes, WatcherStep, closingVars
  <2>7. CASE SetFlushed(s)
    BY <1>1, <1>2, <2>7 DEF SetFlushed, Goto, WatcherTypes, WatcherStep, closingVars
  <2>8. CASE MoveNext(s)
    BY <1>1, <1>2, <2>8 DEF MoveNext, Goto, WatcherTypes, WatcherStep, closingVars
  <2>9. CASE GetBatch(s)
    <3>1. received[s] \in Seq(Line) /\ channel[s] \in Seq(Line)
      BY <1>2 DEF WatcherTypes
    <3>2. received[s] \o channel[s] \in Seq(Line)
      BY <3>1, ConcatProperties
    <3>3. received' \in [Watcher -> Seq(Line)]
      BY <1>2, <2>9, <3>2 DEF GetBatch, Batch, WatcherTypes
    <3> QED BY <1>1, <1>2, <2>9, <3>3
            DEF GetBatch, Goto, WatcherTypes, WatcherStep, closingVars
  <2>10. CASE EndOfBatches(s)
    BY <1>1, <1>2, <2>10 DEF EndOfBatches, Goto, WatcherTypes, WatcherStep, closingVars
  <2>11. CASE RemoveCallback(s)
    <3>1. onNewLog \in Seq(Watcher) /\ Seqs!Contains(onNewLog, s)
      BY <1>2, <2>11 DEF RemoveCallback, Subscribed, Subscribing, WatcherTypes
    <3>2. onNewLog' \in Seq(Watcher)
      BY <2>11, <3>1, UnsubscribedOthers DEF RemoveCallback
    <3>3. since' = since
          /\ pc' \in [Watcher -> WatcherStep]
      BY <1>2, <2>11 DEF RemoveCallback, Goto, WatcherTypes, WatcherStep
    <3>4. CASE LastSubscriber(s)
      BY <1>1, <1>2, <2>11, <3>2, <3>3, <3>4 DEF RemoveCallback, WatcherTypes
    <3>5. CASE ~LastSubscriber(s)
      <4>1. LeaveWatch(s)
        BY <2>11, <3>5 DEF RemoveCallback
      <4> QED BY <1>1, <1>2, <3>2, <3>3, <4>1 DEF LeaveWatch, WatcherTypes
    <3> QED BY <3>4, <3>5
  <2>12. CASE RaiseOff(s)
    BY <1>1, <1>2, <2>12 DEF RaiseOff, LeaveWatch, Goto, WatcherTypes, WatcherStep
  <2>13. CASE CompleteChannel(s)
    BY <1>2, <1>3, <2>13 DEF CompleteChannel, WatcherTypes
  <2> QED BY <1>5, <2>1, <2>2, <2>3, <2>4, <2>5, <2>6, <2>7, <2>8, <2>9, <2>10, <2>11,
             <2>12, <2>13 DEF WatcherNext, WatcherRuns
<1>6. CASE InvokeLoggerAdded \/ AddLogger \/ MonitorNext
  BY <1>2, <1>3, <1>6, MonitorFrame DEF closingVars, WatcherTypes
<1>7. CASE ClearBacklog
  BY <1>2, <1>3, <1>7 DEF ClearBacklog, closingVars, WatcherTypes
<1>8. CASE Complete
  BY <1>3, <1>8 DEF Complete
<1>9. CASE UNCHANGED vars
  BY <1>2, <1>3, <1>9 DEF vars, watcherVars, WatcherTypes
<1> QED BY <1>4, <1>5, <1>6, <1>7, <1>8, <1>9 DEF Next, WatcherNext

\* The handler of a monitor is attached by the factory, by the visit, or by
\* both.
LEMMA MonitorTypesNext ==
    ASSUME TypeOK, AttachedOnce, [Next]_vars
    PROVE  MonitorTypes' /\ AttachedOnce'
<1>1. MonitorTypes
  BY TypeParts
<1>2. CASE InvokeLoggerAdded \/ AddLogger
  BY <1>1, <1>2 DEF InvokeLoggerAdded, AddLogger, MonitorTypes, AttachedOnce
<1>3. CASE ListenToLoggers
  BY <1>1, <1>3 DEF ListenToLoggers, MonitorTypes, AttachedOnce
<1>4. CASE VisitLogger
  BY <1>1, <1>4 DEF VisitLogger, MonitorTypes, AttachedOnce
<1>5. CASE CheckSubscribers \/ RaisePresent \/ StopListening
  BY <1>1, <1>5 DEF CheckSubscribers, RaisePresent, StopListening, MonitorTypes,
                    AttachedOnce
<1>6. CASE UNCHANGED monitorVars
  BY <1>1, <1>6 DEF monitorVars, MonitorTypes, AttachedOnce
<1>7. CASE ClearBacklog \/ Complete
  BY <1>6, <1>7 DEF ClearBacklog, Complete
<1>8. ASSUME NEW w \in Writer, WriterNext(w)
      PROVE  UNCHANGED monitorVars
  BY <1>8, WriterFrame
<1>9. ASSUME NEW s \in Watcher, WatcherNext(s)
      PROVE  UNCHANGED monitorVars
  BY <1>9, WatcherFrame
<1>10. CASE UNCHANGED vars
  BY <1>6, <1>10 DEF vars, monitorVars
<1> QED BY <1>2, <1>3, <1>4, <1>5, <1>6, <1>7, <1>8, <1>9, <1>10
        DEF Next, MonitorNext, WatcherNext

\* A sequence and n times one more event.
LEMMA Repeated ==
    ASSUME NEW T, NEW q \in Seq(T), NEW n \in Nat, NEW e \in T
    PROVE  q \o [i \in 1 .. n |-> e] \in Seq(T)
<1> DEFINE r == [i \in 1 .. n |-> e]
<1>1. r \in [1 .. n -> T]
  OBVIOUS
<1>2. r \in Seq(T)
  BY <1>1, SeqDef
<1> HIDE DEF r
<1> QED BY <1>2, ConcatProperties

\* What Raise adds to the events.
LEMMA EventTypes ==
    ASSUME events \in Seq(BOOLEAN), attached \in Nat, NEW e \in BOOLEAN
    PROVE  events \o [i \in 1 .. attached |-> e] \in Seq(BOOLEAN)
BY Repeated, Zenon

\* The flags stay Boolean.
LEMMA FlagTypesNext ==
    ASSUME TypeOK, [Next]_vars
    PROVE  FlagTypes'
<1>1. FlagTypes /\ MonitorTypes
  BY TypeParts
<1>2. FlagTypes /\ attached \in Nat
  BY <1>1 DEF MonitorTypes
<1>3. CASE UNCHANGED <<completed, token, flushed, open, listening, events, told>>
  BY <1>2, <1>3, Zenon DEF FlagTypes
<1>4. ASSUME NEW s \in Watcher, WatcherNext(s)
      PROVE  FlagTypes'
  <2>1. CASE Register(s)
    BY <1>2, <2>1 DEF Register, OpenAfterRegister, FlagTypes, monitorVars
  <2>2. CASE Cancel(s)
    BY <1>2, <2>2 DEF Cancel, FlagTypes, monitorVars, closingVars
  <2>3. CASE Dispose(s) \/ GetBacklogSnapshot(s) \/ MoveNext(s) \/ GetBatch(s)
             \/ EndOfBatches(s)
    BY <1>3, <2>3 DEF Dispose, GetBacklogSnapshot, MoveNext, GetBatch, EndOfBatches,
                      monitorVars, closingVars
  <2>4. CASE AddCallback(s)
    <3>1. told' \in BOOLEAN
      BY <2>4 DEF AddCallback
    <3>2. UNCHANGED <<completed, token, flushed, open, listening, events>>
      BY <2>4 DEF AddCallback, monitorVars, closingVars
    <3> QED BY <1>2, <3>1, <3>2, Zenon DEF FlagTypes
  <2>5. CASE RaiseOn(s)
    <3>1. told' \in BOOLEAN /\ events' \in Seq(BOOLEAN)
      BY <1>2, <2>5, EventTypes DEF RaiseOn, Raise, FlagTypes
    <3> QED BY <1>2, <2>5, <3>1, Zenon DEF RaiseOn, FlagTypes, monitorVars, closingVars
  <2>6. CASE SetFlushed(s)
    BY <1>2, <2>6 DEF SetFlushed, FlagTypes, monitorVars, closingVars
  <2>7. CASE RemoveCallback(s)
    BY <1>2, <2>7 DEF RemoveCallback, LeaveWatch, FlagTypes, monitorVars
  <2>8. CASE RaiseOff(s)
    <3>1. told' \in BOOLEAN /\ events' \in Seq(BOOLEAN)
      BY <1>2, <2>8, EventTypes DEF RaiseOff, Raise, FlagTypes
    <3>2. open' \in [Watcher -> BOOLEAN]
      BY <1>2, <2>8 DEF RaiseOff, LeaveWatch, FlagTypes
    <3> QED BY <1>2, <2>8, <3>1, <3>2, Zenon DEF RaiseOff, FlagTypes, monitorVars
  <2>9. CASE CompleteChannel(s)
    BY <1>2, <2>9 DEF CompleteChannel, FlagTypes, monitorVars, watcherVars
  <2> QED BY <1>4, <2>1, <2>2, <2>3, <2>4, <2>5, <2>6, <2>7, <2>8, <2>9
          DEF WatcherNext, WatcherRuns
<1>5. CASE InvokeLoggerAdded \/ AddLogger \/ VisitLogger \/ CheckSubscribers
  BY <1>3, <1>5 DEF InvokeLoggerAdded, AddLogger, VisitLogger, CheckSubscribers,
                    watcherVars, closingVars
<1>6. CASE ListenToLoggers \/ StopListening
  <2>1. /\ UNCHANGED <<completed, token, flushed, open, events, told>>
        /\ listening' \in BOOLEAN
    BY <1>6 DEF ListenToLoggers, StopListening, watcherVars, closingVars
  <2> QED BY <1>2, <2>1, Zenon DEF FlagTypes
<1>7. CASE RaisePresent
  <2>1. events' \in Seq(BOOLEAN)
    BY <1>2, <1>7, AppendLast DEF RaisePresent, FlagTypes
  <2>2. /\ UNCHANGED <<completed, token, flushed, open, listening>>
        /\ told' \in BOOLEAN
    BY <1>7 DEF RaisePresent, watcherVars, closingVars
  <2> QED BY <1>2, <2>1, <2>2, Zenon DEF FlagTypes
<1>8. ASSUME NEW w \in Writer, WriterNext(w)
      PROVE  FlagTypes'
  BY <1>3, <1>8, WriterFrame DEF watcherVars, closingVars, monitorVars
<1>9. CASE ClearBacklog
  BY <1>3, <1>9 DEF ClearBacklog, watcherVars, closingVars, monitorVars
<1>10. CASE Complete
  BY <1>2, <1>10 DEF Complete, watcherVars, monitorVars, FlagTypes
<1>11. CASE UNCHANGED vars
  BY <1>3, <1>11 DEF vars
<1> QED BY <1>4, <1>5, <1>6, <1>7, <1>8, <1>9, <1>10, <1>11
        DEF Next, MonitorNext, WatcherNext

\* Every step keeps the types.
LEMMA TypeNext ==
    ASSUME IInv, [Next]_vars
    PROVE  TypeOK' /\ AttachedOnce'
<1>1. TypeOK' = (WriterTypes' /\ WatcherTypes' /\ MonitorTypes' /\ FlagTypes')
  BY DEF TypeOK, WriterTypes, WatcherTypes, MonitorTypes, FlagTypes, Write
<1>2. WriterTypes'
  BY WriterTypesNext DEF IInv
<1>3. WatcherTypes'
  BY WatcherTypesNext DEF IInv
<1>4. MonitorTypes' /\ AttachedOnce'
  BY MonitorTypesNext DEF IInv
<1>5. FlagTypes'
  BY FlagTypesNext DEF IInv
<1> QED BY <1>1, <1>2, <1>3, <1>4, <1>5

-----------------------------------------------------------------------------
(* The log.                                                                *)

\* Only Log and ClearBacklog change the lines and the writers.
LEMMA LogUnchanged ==
    ASSUME [Next]_vars, ~ClearBacklog, \A w \in Writer : ~WriterNext(w)
    PROVE  UNCHANGED writerVars
<1>1. CASE InvokeLoggerAdded \/ AddLogger \/ MonitorNext
  BY <1>1, MonitorFrame
<1>2. CASE Complete
  BY <1>2 DEF Complete
<1>3. ASSUME NEW s \in Watcher, WatcherNext(s)
      PROVE  UNCHANGED writerVars
  BY <1>3, WatcherFrame
<1>4. CASE UNCHANGED vars
  BY <1>4 DEF vars, writerVars
<1> QED BY <1>1, <1>2, <1>3, <1>4 DEF Next, WatcherNext

\* Only AddLine adds a line, and it adds one.
LEMMA LinesGrow ==
    ASSUME [Next]_vars
    PROVE  author' = author \/ \E w \in Writer : AddLine(w)
<1>1. CASE ClearBacklog
  BY <1>1 DEF ClearBacklog
<1>2. ASSUME NEW w \in Writer, WriterNext(w), ~AddLine(w)
      PROVE  author' = author
  BY <1>2 DEF WriterNext, CheckCompleted, ReadDelegate, CallFlushed, CallWaits, WaitEnds,
              WaitCancelled
<1> QED BY <1>1, <1>2, LogUnchanged DEF writerVars

\* CheckCompleted takes the room that AddLine uses up.
LEMMA RoomNext ==
    ASSUME IInv, [Next]_vars
    PROVE  RoomForLines'
<1>1. TypeOK /\ RoomForLines /\ BusyWriters
  BY DEF IInv
<1>2. bound' = bound
  BY BoundFixed
<1>3. /\ Len(author) \in Nat /\ bound.lines \in Nat
      /\ IsFiniteSet(Checked) /\ Cardinality(Checked) \in Nat
  BY <1>1, BoundAssumption, FS_CardinalityType DEF TypeOK, RoomForLines
<1>4. CASE Checked' = Checked /\ author' = author
  BY <1>1, <1>2, <1>4 DEF RoomForLines
<1>5. ASSUME NEW w \in Writer, WriterNext(w)
      PROVE  RoomForLines'
  <2>1. ASSUME NEW at, NEW line, NEW targets, Becomes(w, at, line, targets)
        PROVE  Checked' = IF at = "checked" THEN Checked \cup {w} ELSE Checked \ {w}
    <3>1. writing'[w].at = at /\ \A v \in Writer : v # w => writing'[v] = writing[v]
      BY <1>1, <2>1, BecomesFields
    <3> QED BY <3>1 DEF Checked
  <2>2. CASE CheckCompleted(w)
    <3>1. w \notin Checked
      BY <2>2 DEF CheckCompleted, Checked
    <3>2. Becomes(w, "checked", writing[w].line, writing[w].targets)
      BY <1>1, <2>2, WriterEffects
    <3>3. Checked' = Checked \cup {w}
      BY <2>1, <3>2
    <3>4. author' = author /\ Len(author) + Cardinality(Checked) < bound.lines
      BY <2>2 DEF CheckCompleted, Checked
    <3>5. IsFiniteSet(Checked') /\ Cardinality(Checked') = Cardinality(Checked) + 1
      BY <1>3, <3>1, <3>3, FS_AddElement
    <3> QED BY <1>2, <1>3, <3>4, <3>5 DEF RoomForLines
  <2>3. CASE AddLine(w)
    <3>1. w \in Checked
      BY <2>3 DEF AddLine, Checked
    <3>2. Becomes(w, "added", Len(author) + 1, writing[w].targets)
      BY <1>1, <2>3, WriterEffects
    <3>3. Checked' = Checked \ {w}
      BY <2>1, <3>2
    <3>4. IsFiniteSet(Checked') /\ Cardinality(Checked') = Cardinality(Checked) - 1
      BY <1>3, <3>1, <3>3, FS_RemoveElement
    <3>5. Len(author') = Len(author) + 1
      BY <1>1, <2>3, AppendLast DEF AddLine, TypeOK
    <3> QED BY <1>1, <1>2, <1>3, <3>4, <3>5 DEF RoomForLines
  <2>4. CASE ReadDelegate(w) \/ CallFlushed(w) \/ CallWaits(w) \/ WaitEnds(w)
             \/ WaitCancelled(w)
    <3>1. w \notin Checked /\ author' = author
      BY <2>4 DEF ReadDelegate, CallFlushed, CallWaits, WaitEnds, WaitCancelled, Checked
    <3>2. NextTarget(w) \/ ReadDelegate(w) \/ CallWaits(w) \/ WaitCancelled(w)
      BY <2>4 DEF CallFlushed, WaitEnds
    <3>3. \E at, line, targets : at # "checked" /\ Becomes(w, at, line, targets)
      BY <1>1, <3>2, WriterEffects
    <3>4. Checked' = Checked
      BY <2>1, <3>1, <3>3
    <3> QED BY <1>4, <3>1, <3>4
  <2> QED BY <1>5, <2>2, <2>3, <2>4 DEF WriterNext
<1>6. CASE ClearBacklog
  BY <1>4, <1>6 DEF ClearBacklog, Checked
<1>7. CASE UNCHANGED writerVars
  BY <1>4, <1>7 DEF writerVars, Checked
<1> QED BY <1>5, <1>6, <1>7, LogUnchanged

\* A new line comes last in the backlog, whether or not the first was dropped.
LEMMA BacklogNext ==
    ASSUME IInv, [Next]_vars
    PROVE  BacklogInOrder'
<1>1. TypeOK /\ RoomForLines /\ BacklogInOrder
  BY DEF IInv
<1>2. ASSUME NEW w \in Writer, AddLine(w)
      PROVE  BacklogInOrder'
  <2> DEFINE room == RoomInBacklog
             n == Len(author) + 1
  <2>1. author' = Append(author, w) /\ backlog' = Append(room, n)
        /\ writing[w].at = "checked"
    BY <1>2 DEF AddLine
  <2>2. Len(author) \in Nat /\ n \in Line
    BY <1>1, <2>1, NextLine
  <2>3. PICK d \in 0 .. 1 : \A i \in 1 .. Len(room) :
                               i + d \in DOMAIN backlog /\ room[i] = backlog[i + d]
    BY <1>1, RoomMade
  <2>4. room \in Seq(Line) /\ Len(room) \in Nat
    BY <1>1, RoomMade
  <2>5. DOMAIN author = 1 .. Len(author) /\ DOMAIN author' = 1 .. n
    BY <1>1, <2>1 DEF TypeOK
  <2> HIDE DEF room, n
  <2>6. /\ DOMAIN backlog' = 1 .. Len(room) + 1
        /\ \A i \in 1 .. Len(room) : backlog'[i] = room[i]
        /\ backlog'[Len(room) + 1] = n
    BY <2>1, <2>2, <2>4, AppendLast
  <2>7. ASSUME NEW j \in DOMAIN backlog'
        PROVE  /\ backlog'[j] \in DOMAIN author'
               /\ \A i \in 1 .. j - 1 : backlog'[i] < backlog'[j]
    <3>1. CASE j = Len(room) + 1
      <4>1. \A i \in 1 .. Len(room) : backlog'[i] \in 1 .. Len(author)
        BY <1>1, <2>3, <2>5, <2>6 DEF BacklogInOrder
      <4> QED BY <2>2, <2>4, <2>5, <2>6, <3>1, <4>1 DEF n
    <3>2. CASE j \in 1 .. Len(room)
      <4>1. backlog'[j] = backlog[j + d] /\ j + d \in DOMAIN backlog
        BY <2>3, <2>6, <3>2
      <4>2. backlog[j + d] \in DOMAIN author
            /\ \A i \in 1 .. (j + d) - 1 : backlog[i] < backlog[j + d]
        BY <1>1, <4>1 DEF BacklogInOrder
      <4>3. \A i \in 1 .. j - 1 : /\ i \in 1 .. Len(room) /\ i + d \in 1 .. (j + d) - 1
                                  /\ backlog'[i] = backlog[i + d]
        BY <2>3, <2>4, <2>6, <3>2
      <4> QED BY <2>2, <2>5, <4>1, <4>2, <4>3 DEF n
    <3> QED BY <2>4, <2>6, <3>1, <3>2
  <2> QED BY <2>7 DEF BacklogInOrder
<1>3. ASSUME NEW w \in Writer, WriterNext(w), ~AddLine(w)
      PROVE  BacklogInOrder'
  <2>1. backlog' = backlog /\ author' = author
    BY <1>3 DEF WriterNext, CheckCompleted, ReadDelegate, CallFlushed, CallWaits,
                WaitEnds, WaitCancelled
  <2> QED BY <1>1, <2>1 DEF BacklogInOrder
<1>4. CASE ClearBacklog
  BY <1>4 DEF ClearBacklog, BacklogInOrder
<1>5. CASE UNCHANGED writerVars
  BY <1>1, <1>5 DEF writerVars, BacklogInOrder
<1> QED BY <1>2, <1>3, <1>4, <1>5, LogUnchanged

\* What BusyWriters says of one writer.
Busy(w) ==
    /\ writing[w].at \in {"idle", "checked"} => writing[w].targets = <<>>
    /\ writing[w].at \in {"calling", "waiting"} => writing[w].targets # <<>>
    /\ writing[w].at \in {"added", "calling", "waiting"} =>
         /\ writing[w].line \in DOMAIN author /\ author[writing[w].line] = w
         /\ \A n \in DOMAIN author : author[n] = w => n <= writing[w].line

\* A writer keeps its line until it is done, and adds no other meanwhile.
LEMMA BusyNext ==
    ASSUME IInv, [Next]_vars
    PROVE  BusyWriters'
<1>1. TypeOK /\ RoomForLines /\ BusyWriters
  BY DEF IInv
<1>2. \A v \in Writer : Busy(v)
  BY <1>1 DEF BusyWriters, Busy
<1>3. SUFFICES ASSUME NEW v \in Writer
               PROVE  Busy(v)'
  BY DEF BusyWriters, Busy
<1>4. CASE writing'[v] = writing[v] /\ author' = author
  BY <1>2, <1>4 DEF Busy
<1>5. ASSUME NEW w \in Writer, AddLine(w)
      PROVE  Busy(v)'
  <2> DEFINE n == Len(author) + 1
  <2>1. author' = Append(author, w) /\ writing[w].at = "checked"
    BY <1>5 DEF AddLine
  <2>2. author \in Seq(Writer) /\ Len(author) \in Nat /\ DOMAIN author = 1 .. Len(author)
    BY <1>1 DEF TypeOK
  <2>3. /\ DOMAIN author' = 1 .. n /\ author'[n] = w
        /\ \A i \in 1 .. Len(author) : author'[i] = author[i]
    BY <2>1, <2>2, AppendLast
  <2>4. Becomes(w, "added", n, writing[w].targets)
    BY <1>1, <1>5, WriterEffects
  <2>5. /\ writing'[w].at = "added" /\ writing'[w].line = n
        /\ \A u \in Writer : u # w => writing'[u] = writing[u]
    BY <1>1, <2>4, BecomesFields
  <2> HIDE DEF n
  <2>6. n = Len(author) + 1 /\ \A i \in 1 .. n : i <= n
    BY <2>2 DEF n
  <2>7. CASE v = w
    BY <2>2, <2>3, <2>5, <2>6, <2>7 DEF Busy
  <2>8. CASE v # w
    <3>1. Busy(v) /\ writing'[v] = writing[v]
      BY <1>2, <2>5, <2>8
    <3>2. \A i \in DOMAIN author' : author'[i] = v => i \in DOMAIN author /\ author[i] = v
      BY <2>2, <2>3, <2>6, <2>8
    <3>3. \A i \in DOMAIN author : i \in DOMAIN author' /\ author'[i] = author[i]
      BY <2>2, <2>3, <2>6
    <3> QED BY <3>1, <3>2, <3>3 DEF Busy
  <2> QED BY <2>7, <2>8
<1>6. ASSUME NEW w \in Writer, WriterNext(w), ~AddLine(w)
      PROVE  Busy(v)'
  <2>1. author' = author
    BY <1>6 DEF WriterNext, CheckCompleted, ReadDelegate, CallFlushed, CallWaits,
                WaitEnds, WaitCancelled
  <2>2. ASSUME NEW at, NEW line, NEW targets, Becomes(w, at, line, targets),
               at \in {"idle", "checked"} => targets = <<>>,
               at \in {"calling", "waiting"} =>
                  /\ targets # <<>> /\ line = writing[w].line
                  /\ writing[w].at \in {"added", "calling", "waiting"},
               at # "added"
        PROVE  Busy(v)'
    <3>1. /\ writing'[w].at = at /\ writing'[w].line = line
          /\ writing'[w].targets = targets
          /\ \A u \in Writer : u # w => writing'[u] = writing[u]
      BY <1>1, <2>2, BecomesFields
    <3>2. CASE v = w
      BY <1>2, <2>1, <2>2, <3>1, <3>2 DEF Busy
    <3>3. CASE v # w
      BY <1>4, <2>1, <3>1, <3>3
    <3> QED BY <3>2, <3>3
  <2>3. Busy(w) /\ writing[w].targets \in Seq(Watcher)
    BY <1>1, <1>2 DEF TypeOK
  <2>4. CASE CheckCompleted(w)
    <3>1. Becomes(w, "checked", writing[w].line, writing[w].targets)
      BY <1>1, <2>4, WriterEffects
    <3>2. writing[w].targets = <<>>
      BY <2>3, <2>4 DEF CheckCompleted, Busy
    <3> QED BY <2>2, <3>1, <3>2
  <2>5. CASE ReadDelegate(w)
    <3>1. writing[w].at = "added"
      BY <2>5 DEF ReadDelegate
    <3>2. IF onNewLog = <<>> THEN Becomes(w, "idle", 0, <<>>)
          ELSE Becomes(w, "calling", writing[w].line, onNewLog)
      BY <1>1, <2>5, WriterEffects
    <3> QED BY <2>2, <3>1, <3>2
  <2>6. CASE CallFlushed(w) \/ WaitEnds(w)
    <3>1. writing[w].at \in {"calling", "waiting"} /\ NextTarget(w)
      BY <2>6 DEF CallFlushed, WaitEnds
    <3>2. IF Len(writing[w].targets) = 1 THEN Becomes(w, "idle", 0, <<>>)
          ELSE Becomes(w, "calling", writing[w].line, Tail(writing[w].targets))
      BY <1>1, <3>1, WriterEffects
    <3>3. writing[w].targets # <<>>
      BY <2>3, <3>1 DEF Busy
    <3>4. Len(writing[w].targets) # 1 => Tail(writing[w].targets) # <<>>
      BY <2>3, <3>3, HeadTail
    <3> QED BY <2>2, <3>1, <3>2, <3>4
  <2>7. CASE CallWaits(w)
    <3>1. Becomes(w, "waiting", writing[w].line, writing[w].targets)
      BY <1>1, <2>7, WriterEffects
    <3>2. writing[w].at = "calling" /\ writing[w].targets # <<>>
      BY <2>3, <2>7 DEF CallWaits, Busy
    <3> QED BY <2>2, <3>1, <3>2
  <2>8. CASE WaitCancelled(w)
    BY <1>1, <2>2, <2>8, WriterEffects
  <2> QED BY <1>6, <2>4, <2>5, <2>6, <2>7, <2>8 DEF WriterNext
<1>7. CASE ClearBacklog
  BY <1>4, <1>7 DEF ClearBacklog
<1>8. CASE UNCHANGED writerVars
  BY <1>4, <1>8 DEF writerVars
<1> QED BY <1>5, <1>6, <1>7, <1>8, LogUnchanged

-----------------------------------------------------------------------------
(* The subscribers and the monitor.                                        *)

\* Only its own steps change a watcher.
LEMMA WatchersUnchanged ==
    ASSUME [Next]_vars, \A s \in Watcher : ~WatcherNext(s)
    PROVE  UNCHANGED watcherVars
<1>1. CASE InvokeLoggerAdded \/ AddLogger \/ MonitorNext
  BY <1>1, MonitorFrame
<1>2. CASE Complete \/ ClearBacklog
  BY <1>2 DEF Complete, ClearBacklog
<1>3. ASSUME NEW w \in Writer, WriterNext(w)
      PROVE  UNCHANGED watcherVars
  BY <1>3, WriterFrame
<1>4. CASE UNCHANGED vars
  BY <1>4 DEF vars, watcherVars
<1> QED BY <1>1, <1>2, <1>3, <1>4 DEF Next, WatcherNext

\* A watcher takes its steps in order, and puts its callback into _onNewLog
\* and takes it out again.
Moves(s, x, y) == pc[s] = x /\ pc' = [pc EXCEPT ![s] = y]

\* Every step of a watcher is one of these moves.
LEMMA WatcherMoves ==
    ASSUME NEW s \in Watcher, WatcherNext(s)
    PROVE  \/ Moves(s, "idle", "registered") /\ onNewLog' = onNewLog /\ created = "present"
           \/ /\ Moves(s, "registered", "raiseOn") \/ Moves(s, "registered", "added")
              /\ onNewLog' = Append(onNewLog, s)
           \/ /\ Moves(s, "removing", "raiseOff") \/ Moves(s, "removing", "done")
              /\ onNewLog' = Unsubscribed(s)
           \/ /\ onNewLog' = onNewLog
              /\ \/ pc' = pc
                 \/ Moves(s, "raiseOn", "added") \/ Moves(s, "added", "snapped")
                 \/ Moves(s, "snapped", "listening") \/ Moves(s, "snapped", "backlog")
                 \/ Moves(s, "backlog", "listening") \/ Moves(s, "batch", "listening")
                 \/ Moves(s, "listening", "batch") \/ Moves(s, "listening", "removing")
                 \/ Moves(s, "batch", "removing") \/ Moves(s, "backlog", "gone")
                 \/ Moves(s, "raiseOff", "done")
<1> USE DEF Goto, Moves
<1>1. CASE Register(s) \/ Cancel(s) \/ Dispose(s)
  BY <1>1 DEF Register, Cancel, Dispose
<1>2. CASE AddCallback(s)
  BY <1>2 DEF AddCallback
<1>3. CASE RaiseOn(s) \/ GetBacklogSnapshot(s) \/ SetFlushed(s)
  BY <1>3 DEF RaiseOn, GetBacklogSnapshot, SetFlushed
<1>4. CASE MoveNext(s)
  BY <1>4 DEF MoveNext
<1>5. CASE GetBatch(s) \/ EndOfBatches(s)
  BY <1>5 DEF GetBatch, EndOfBatches
<1>6. CASE RemoveCallback(s)
  BY <1>6 DEF RemoveCallback
<1>7. CASE RaiseOff(s)
  BY <1>7 DEF RaiseOff
<1>8. CASE CompleteChannel(s)
  BY <1>8 DEF CompleteChannel, watcherVars
<1> QED BY <1>1, <1>2, <1>3, <1>4, <1>5, <1>6, <1>7, <1>8 DEF WatcherNext, WatcherRuns

\* A watcher that moved is the only one.
LEMMA MovesFields ==
    ASSUME TypeOK, NEW s \in Watcher, NEW x, NEW y, Moves(s, x, y)
    PROVE  /\ pc[s] = x /\ pc'[s] = y
           /\ \A u \in Watcher : u # s => pc'[u] = pc[u]
BY DEF TypeOK, Moves

\* The callbacks of the other watchers stay.
LEMMA OthersStay ==
    ASSUME TypeOK, Subscribed, NEW s \in Watcher, WatcherNext(s)
    PROVE  \A u : u # s => (Seqs!Contains(onNewLog', u) <=> Seqs!Contains(onNewLog, u))
<1>1. onNewLog \in Seq(Watcher)
  BY DEF TypeOK
<1>2. CASE onNewLog' = onNewLog
  BY <1>2
<1>3. CASE onNewLog' = Append(onNewLog, s)
  BY <1>1, <1>3, ContainsAppended
<1>4. CASE onNewLog' = Unsubscribed(s) /\ pc[s] = "removing"
  <2>1. Seqs!Contains(onNewLog, s)
    BY <1>4 DEF Subscribed, Subscribing
  <2> QED BY <1>1, <1>4, <2>1, UnsubscribedOthers
<1> QED BY <1>2, <1>3, <1>4, WatcherMoves DEF Moves

\* A watcher takes out its own callback only, and only to leave.
LEMMA SubscribedNext ==
    ASSUME IInv, [Next]_vars
    PROVE  Subscribed'
<1>1. TypeOK /\ Subscribed /\ onNewLog \in Seq(Watcher)
  BY DEF IInv, TypeOK
<1>2. ASSUME NEW s \in Watcher, WatcherNext(s), NEW u \in Watcher, pc'[u] \in Subscribing
      PROVE  Seqs!Contains(onNewLog', u)
  <2>1. CASE u # s
    <3>1. pc'[u] = pc[u]
      BY <1>1, <1>2, <2>1, WatcherMoves, MovesFields
    <3>2. Seqs!Contains(onNewLog, u)
      BY <1>1, <1>2, <3>1 DEF Subscribed
    <3> QED BY <1>1, <1>2, <2>1, <3>2, OthersStay
  <2>2. CASE u = s
    <3>1. CASE onNewLog' = Append(onNewLog, s)
      BY <1>1, <2>2, <3>1, ContainsAppended
    <3>2. CASE onNewLog' = onNewLog /\ pc' = pc
      BY <1>1, <1>2, <3>2 DEF Subscribed
    <3>3. CASE ~(onNewLog' = Append(onNewLog, s)) /\ ~(onNewLog' = onNewLog /\ pc' = pc)
      <4>1. onNewLog' = onNewLog /\ pc[s] \in Subscribing
        BY <1>1, <1>2, <2>2, <3>3, WatcherMoves, MovesFields DEF Subscribing
      <4> QED BY <1>1, <2>2, <4>1 DEF Subscribed
    <3> QED BY <3>1, <3>2, <3>3
  <2> QED BY <2>1, <2>2
<1>3. CASE UNCHANGED watcherVars
  BY <1>1, <1>3 DEF watcherVars, Subscribed
<1> QED BY <1>2, <1>3, WatchersUnchanged DEF Subscribed

\* A log that is not in _loggers gets no watcher.
LEMMA NotCreatedNext ==
    ASSUME IInv, [Next]_vars
    PROVE  NotCreated'
<1>1. TypeOK /\ NotCreated
  BY DEF IInv
<1>2. ASSUME NEW s \in Watcher, WatcherNext(s)
      PROVE  NotCreated'
  <2>1. created' = created
    BY <1>2, WatcherFrame DEF monitorVars
  <2>2. CASE created = "present"
    BY <2>1, <2>2 DEF NotCreated
  <2>3. CASE created # "present"
    <3>1. pc[s] = "idle" /\ onNewLog = <<>>
      BY <1>1, <2>3 DEF NotCreated
    <3>2. pc' = pc /\ onNewLog' = onNewLog
      BY <1>2, <2>3, <3>1, WatcherMoves DEF Moves
    <3> QED BY <1>1, <2>1, <3>2 DEF NotCreated
  <2> QED BY <2>2, <2>3
<1>3. created = "present" => created' = "present"
  <2>1. CASE InvokeLoggerAdded \/ AddLogger \/ MonitorNext
    BY <2>1 DEF InvokeLoggerAdded, AddLogger, MonitorNext, ListenToLoggers, VisitLogger,
                CheckSubscribers, RaisePresent, StopListening
  <2>2. CASE ClearBacklog \/ Complete
    BY <2>2 DEF ClearBacklog, Complete, monitorVars
  <2>3. ASSUME NEW w \in Writer, WriterNext(w)
        PROVE  created' = created
    BY <2>3, WriterFrame DEF monitorVars
  <2>4. ASSUME NEW s \in Watcher, WatcherNext(s)
        PROVE  created' = created
    BY <2>4, WatcherFrame DEF monitorVars
  <2>5. CASE UNCHANGED vars
    BY <2>5 DEF vars
  <2> QED BY <2>1, <2>2, <2>3, <2>4, <2>5 DEF Next, WatcherNext
<1>4. CASE UNCHANGED watcherVars
  BY <1>1, <1>3, <1>4 DEF watcherVars, NotCreated
<1> QED BY <1>2, <1>4, WatchersUnchanged

\* The first subscriber raises the event, or the monitor finds it there.
LEMMA ToldNext ==
    ASSUME IInv, [Next]_vars
    PROVE  ToldOfFirst'
<1>1. TypeOK /\ ToldOfFirst /\ NotCreated /\ Subscribed /\ onNewLog \in Seq(Watcher)
      /\ attached \in Nat
  BY DEF IInv, TypeOK
<1>2. CASE UNCHANGED <<onNewLog, pc, attached, mpc, told>>
  BY <1>1, <1>2 DEF ToldOfFirst
<1>3. ASSUME NEW s \in Watcher, WatcherNext(s)
      PROVE  ToldOfFirst'
  <2>1. attached' = attached /\ mpc' = mpc
    BY <1>3, WatcherFrame DEF monitorVars
  <2>2. CASE AddCallback(s)
    <3>1. /\ told' = (told /\ onNewLog # <<>>) /\ pc[s] = "registered"
          /\ pc' = [pc EXCEPT ![s] = IF onNewLog = <<>> THEN "raiseOn" ELSE "added"]
      BY <2>2 DEF AddCallback, Goto, FirstSubscriber
    <3>2. CASE onNewLog = <<>>
      <4>1. pc'[s] = "raiseOn"
        BY <1>1, <3>1, <3>2 DEF TypeOK
      <4> QED BY <4>1 DEF ToldOfFirst
    <3>3. CASE onNewLog # <<>>
      <4>1. (\A u \in Watcher : pc'[u] # "raiseOn") => (\A u \in Watcher : pc[u] # "raiseOn")
        BY <1>1, <3>1, <3>3 DEF TypeOK
      <4> QED BY <1>1, <2>1, <3>1, <3>3, <4>1 DEF ToldOfFirst
    <3> QED BY <3>2, <3>3
  <2>3. CASE RaiseOn(s)
    <3>1. told' = (told \/ attached > 0)
      BY <2>3 DEF RaiseOn, Raise
    <3> QED BY <2>1, <3>1 DEF ToldOfFirst
  <2>4. CASE ~AddCallback(s) /\ ~RaiseOn(s)
    <3>1. told' = told
      <4>1. CASE RaiseOff(s)
        <5>1. told \in BOOLEAN
          BY <1>1 DEF TypeOK
        <5>2. told' = (told \/ (FALSE /\ attached > 0))
          BY <4>1, Zenon DEF RaiseOff, Raise
        <5> QED BY <5>1, <5>2
      <4>2. CASE ~RaiseOff(s)
        BY <1>3, <2>4, <4>2
           DEF WatcherNext, WatcherRuns, Register, Cancel, Dispose, GetBacklogSnapshot,
               SetFlushed, MoveNext, GetBatch, EndOfBatches, RemoveCallback, CompleteChannel
      <4> QED BY <4>1, <4>2
    <3>2. onNewLog' = onNewLog
          \/ (onNewLog' = Unsubscribed(s) /\ pc[s] = "removing")
      BY <1>3, <2>4 DEF WatcherNext, WatcherRuns, Register, Cancel, Dispose,
               GetBacklogSnapshot, SetFlushed, MoveNext, GetBatch, EndOfBatches,
               RemoveCallback, RaiseOff, CompleteChannel, watcherVars
    <3>3. onNewLog' # <<>> => onNewLog # <<>>
      <4>1. CASE onNewLog' = onNewLog
        BY <4>1
      <4>2. CASE onNewLog' = Unsubscribed(s) /\ pc[s] = "removing"
        <5>1. Seqs!Contains(onNewLog, s)
          BY <1>1, <4>2 DEF Subscribed, Subscribing
        <5> QED BY <1>1, <5>1, UnsubscribedOthers
      <4> QED BY <3>2, <4>1, <4>2
    <3>4. pc[s] # "raiseOn" \/ pc' = pc
      BY <1>3, <2>4 DEF WatcherNext, WatcherRuns, Register, Cancel, Dispose,
               GetBacklogSnapshot, SetFlushed, MoveNext, GetBatch, EndOfBatches,
               RemoveCallback, RaiseOff, CompleteChannel, watcherVars
    <3>5. \A u \in Watcher : u # s => pc'[u] = pc[u]
      BY <1>1, <1>3, WatcherMoves, MovesFields
    <3>6. (\A u \in Watcher : pc'[u] # "raiseOn") => (\A u \in Watcher : pc[u] # "raiseOn")
      BY <3>4, <3>5
    <3> QED BY <1>1, <2>1, <3>1, <3>3, <3>6 DEF ToldOfFirst
  <2> QED BY <2>2, <2>3, <2>4
<1>4. CASE InvokeLoggerAdded
  <2>1. onNewLog' = <<>>
    BY <1>1, <1>4 DEF InvokeLoggerAdded, NotCreated, watcherVars
  <2> QED BY <2>1 DEF ToldOfFirst
<1>5. CASE AddLogger
  BY <1>2, <1>5 DEF AddLogger, watcherVars
<1>6. CASE ListenToLoggers \/ StopListening
  BY <1>1, <1>6 DEF ListenToLoggers, StopListening, watcherVars, ToldOfFirst
<1>7. CASE VisitLogger
  BY <1>1, <1>7 DEF VisitLogger, watcherVars, ToldOfFirst
<1>8. CASE CheckSubscribers
  BY <1>1, <1>8 DEF CheckSubscribers, HasSubscribers, watcherVars, ToldOfFirst
<1>9. CASE RaisePresent
  BY <1>9 DEF RaisePresent, ToldOfFirst
<1>10. CASE ClearBacklog \/ Complete
  BY <1>2, <1>10 DEF ClearBacklog, Complete, watcherVars, monitorVars
<1>11. ASSUME NEW w \in Writer, WriterNext(w)
       PROVE  ToldOfFirst'
  BY <1>2, <1>11, WriterFrame DEF watcherVars, monitorVars
<1>12. CASE UNCHANGED vars
  BY <1>2, <1>12 DEF vars
<1> QED BY <1>3, <1>4, <1>5, <1>6, <1>7, <1>8, <1>9, <1>10, <1>11, <1>12
        DEF Next, MonitorNext, WatcherNext

-----------------------------------------------------------------------------
(* What a watcher is given.                                                *)

\* A callback writes its line to the channel of a watcher whose
\* flushBacklogSync is set, unless it is in the snapshot or the channel is
\* completed.
LEMMA CallWrites ==
    ASSUME TypeOK, BusyWriters, NEW w \in Writer, CallFlushed(w) \/ WaitEnds(w)
    PROVE  LET s == Head(writing[w].targets)
               n == writing[w].line
           IN  /\ writing[w].at \in {"calling", "waiting"}
               /\ s \in Watcher /\ n \in Line /\ flushed[s]
               /\ \/ channel' = channel /\ (~open[s] \/ InSnapshot(s, n))
                  \/ channel' = [channel EXCEPT ![s] = Append(channel[s], n)]
<1>1. writing[w].at \in {"calling", "waiting"}
  BY DEF CallFlushed, WaitEnds
<1>2. Head(writing[w].targets) \in Watcher /\ writing[w].line \in Line
  BY <1>1, BusyFields
<1>3. flushed[Head(writing[w].targets)]
  BY DEF CallFlushed, WaitEnds
<1> QED BY <1>1, <1>2, <1>3 DEF CallFlushed, WaitEnds, TryWrite

\* Callbacks write to a channel, and batches are read from it, only after
\* flushBacklogSync was set.
LEMMA BeforeFlushNext ==
    ASSUME IInv, [Next]_vars
    PROVE  BeforeFlush'
<1>1. TypeOK /\ BeforeFlush /\ BusyWriters
  BY DEF IInv
<1>2. CASE UNCHANGED <<pc, flushed, channel, received>>
  BY <1>1, <1>2 DEF BeforeFlush
<1>3. ASSUME NEW w \in Writer, WriterNext(w)
      PROVE  BeforeFlush'
  <2>1. UNCHANGED <<pc, flushed, received>>
    BY <1>3, WriterFrame DEF watcherVars
  <2>2. CASE CallFlushed(w) \/ WaitEnds(w)
    <3> DEFINE s == Head(writing[w].targets)
    <3>1. s \in Watcher /\ flushed[s]
      BY <1>1, <2>2, CallWrites
    <3>2. \A u \in Watcher : u # s => channel'[u] = channel[u]
      BY <1>1, <2>2, CallWrites DEF TypeOK
    <3> QED BY <1>1, <2>1, <3>1, <3>2 DEF BeforeFlush
  <2>3. CASE ~(CallFlushed(w) \/ WaitEnds(w))
    <3>1. channel' = channel
      BY <1>3, <2>3 DEF WriterNext, CheckCompleted, AddLine, ReadDelegate, CallWaits,
                        WaitCancelled
    <3> QED BY <1>2, <2>1, <3>1
  <2> QED BY <2>2, <2>3
<1>4. ASSUME NEW s \in Watcher, WatcherNext(s)
      PROVE  BeforeFlush'
  <2>1. CASE Register(s)
    BY <1>1, <2>1 DEF Register, Goto, BeforeFlush, TypeOK
  <2>2. CASE AddCallback(s)
    BY <1>1, <2>2 DEF AddCallback, Goto, BeforeFlush, TypeOK
  <2>3. CASE RaiseOn(s)
    BY <1>1, <2>3 DEF RaiseOn, Goto, BeforeFlush, TypeOK
  <2>4. CASE GetBacklogSnapshot(s)
    BY <1>1, <2>4 DEF GetBacklogSnapshot, Goto, BeforeFlush, TypeOK
  <2>5. CASE SetFlushed(s)
    BY <1>1, <2>5 DEF SetFlushed, Goto, BeforeFlush, TypeOK
  <2>6. CASE MoveNext(s)
    BY <1>1, <2>6 DEF MoveNext, Goto, BeforeFlush, TypeOK
  <2>7. CASE GetBatch(s)
    <3>1. flushed[s]
      BY <1>1, <2>7 DEF GetBatch, BeforeFlush
    <3>2. /\ flushed' = flushed /\ pc'[s] = "batch"
          /\ \A u \in Watcher : u # s => /\ pc'[u] = pc[u] /\ channel'[u] = channel[u]
                                         /\ received'[u] = received[u]
      BY <1>1, <2>7 DEF GetBatch, Goto, TypeOK
    <3> QED BY <1>1, <3>1, <3>2 DEF BeforeFlush
  <2>8. CASE EndOfBatches(s)
    BY <1>1, <2>8 DEF EndOfBatches, Goto, BeforeFlush, TypeOK
  <2>9. CASE Dispose(s)
    BY <1>1, <2>9 DEF Dispose, Goto, BeforeFlush, TypeOK
  <2>10. CASE RemoveCallback(s) \/ RaiseOff(s)
    <3>1. /\ flushed' = flushed /\ pc'[s] \in {"raiseOff", "done"}
          /\ \A u \in Watcher : u # s => pc'[u] = pc[u]
      BY <1>1, <2>10 DEF RemoveCallback, RaiseOff, Goto, TypeOK
    <3>2. \/ UNCHANGED <<channel, received>>
          \/ LeaveWatch(s)
      BY <2>10 DEF RemoveCallback, RaiseOff
    <3>3. \A u \in Watcher : channel'[u] \in {channel[u], <<>>}
                             /\ received'[u] \in {received[u], <<>>}
      BY <1>1, <3>2 DEF LeaveWatch, TypeOK
    <3> QED BY <1>1, <3>1, <3>3 DEF BeforeFlush
  <2>11. CASE Cancel(s) \/ CompleteChannel(s)
    BY <1>2, <2>11 DEF Cancel, CompleteChannel, watcherVars
  <2> QED BY <1>4, <2>1, <2>2, <2>3, <2>4, <2>5, <2>6, <2>7, <2>8, <2>9, <2>10, <2>11
          DEF WatcherNext, WatcherRuns
<1>5. CASE InvokeLoggerAdded \/ AddLogger \/ MonitorNext
  BY <1>2, <1>5, MonitorFrame DEF watcherVars
<1>6. CASE ClearBacklog \/ Complete
  BY <1>2, <1>6 DEF ClearBacklog, Complete, watcherVars
<1>7. CASE UNCHANGED vars
  BY <1>2, <1>7 DEF vars
<1> QED BY <1>3, <1>4, <1>5, <1>6, <1>7 DEF Next, WatcherNext

\* The three parts of what a watcher is given.
Joined(a, b, c) == (a \o b) \o c

\* The parts of a sequence are in it one after the other.
LEMMA JoinedType ==
    ASSUME NEW T, NEW a \in Seq(T), NEW b \in Seq(T), NEW c \in Seq(T)
    PROVE  Joined(a, b, c) \in Seq(T)
<1> DEFINE ab == a \o b
<1>1. ab \in Seq(T)
  BY ConcatProperties
<1> HIDE DEF ab
<1>2. ab \o c \in Seq(T)
  BY <1>1, ConcatProperties
<1> QED BY <1>2 DEF ab, Joined

\* The third part may be moved to the second.
LEMMA JoinedBatch ==
    ASSUME NEW T, NEW a \in Seq(T), NEW b \in Seq(T), NEW c \in Seq(T)
    PROVE  Joined(a, b \o c, <<>>) = Joined(a, b, c)
<1> DEFINE abc == (a \o b) \o c
           moved == a \o (b \o c)
<1>1. abc = moved
  BY ConcatAssociative
<1>2. abc \in Seq(T)
  BY JoinedType DEF Joined
<1>3. Joined(a, b \o c, <<>>) = moved \o <<>> /\ Joined(a, b, c) = abc
  BY DEF Joined
<1> HIDE DEF abc, moved
<1>4. abc \o <<>> = abc
  BY <1>2, ConcatEmptySeq
<1> QED BY <1>1, <1>3, <1>4

\* Only the first part is there.
LEMMA JoinedFirst ==
    ASSUME NEW T, NEW a \in Seq(T)
    PROVE  Joined(a, <<>>, <<>>) = a
<1>1. a \o <<>> = a
  BY ConcatEmptySeq
<1> QED BY <1>1 DEF Joined

\* What is appended to the third part comes last.
LEMMA JoinedAppend ==
    ASSUME NEW a \in Seq(Line), NEW b \in Seq(Line), NEW c \in Seq(Line), NEW n \in Line
    PROVE  Joined(a, b, Append(c, n)) = Append(Joined(a, b, c), n)
<1> DEFINE ab == a \o b
           abc == ab \o c
           e == <<n>>
<1>1. ab \in Seq(Line) /\ e \in Seq(Line)
  BY ConcatProperties
<1>2. Append(c, n) = c \o e
  BY AppendIsConcat
<1>3. abc \in Seq(Line)
  BY JoinedType DEF Joined
<1>4. Joined(a, b, Append(c, n)) = ab \o Append(c, n) /\ Joined(a, b, c) = abc
  BY DEF Joined
<1> HIDE DEF ab
<1>5. abc \o e = ab \o (c \o e)
  <2> HIDE DEF e
  <2>1. ab \in Seq(Line) /\ c \in Seq(Line) /\ e \in Seq(Line)
    BY <1>1
  <2>2. (ab \o c) \o e = ab \o (c \o e)
    BY <2>1, ConcatAssociative
  <2> QED BY <2>2
<1> HIDE DEF abc
<1>6. Append(abc, n) = abc \o e
  BY <1>3, AppendIsConcat
<1> HIDE DEF e
<1> QED BY <1>2, <1>4, <1>5, <1>6

\* What the first part contains is contained in the whole.
LEMMA JoinedContains ==
    ASSUME NEW T, NEW a \in Seq(T), NEW b \in Seq(T), NEW c \in Seq(T), NEW x,
           Seqs!Contains(a, x)
    PROVE  Seqs!Contains(Joined(a, b, c), x)
<1> DEFINE ab == a \o b
           abc == ab \o c
<1>1. ab \in Seq(T) /\ Len(ab) = Len(a) + Len(b)
      /\ \A i \in 1 .. Len(a) + Len(b) :
            ab[i] = IF i <= Len(a) THEN a[i] ELSE b[i - Len(a)]
  BY ConcatProperties
<1>2. Joined(a, b, c) = abc
  BY DEF Joined
<1> HIDE DEF ab
<1>3. ab \in Seq(T) /\ c \in Seq(T)
  BY <1>1
<1>4. Len(abc) = Len(ab) + Len(c)
      /\ \A i \in 1 .. Len(ab) + Len(c) :
            abc[i] = IF i <= Len(ab) THEN ab[i] ELSE c[i - Len(ab)]
  BY <1>3, ConcatProperties
<1> HIDE DEF abc
<1>5. PICK i \in 1 .. Len(a) : a[i] = x
  BY DEF Seqs!Contains
<1>6. Len(a) \in Nat /\ Len(b) \in Nat /\ Len(c) \in Nat
  OBVIOUS
<1>7. i \in 1 .. Len(abc) /\ abc[i] = a[i]
  BY <1>1, <1>4, <1>6
<1>8. Seqs!Contains(abc, x)
  BY <1>5, <1>7 DEF Seqs!Contains
<1> QED BY <1>2, <1>8

\* What is given to a watcher stays, and grows by the line of a writer that
\* calls it, until the watcher takes its snapshot or leaves.
SeenStep(s) ==
    \/ Seen(s)' = Seen(s)
    \/ \E w \in Writer : /\ writing[w].at \in {"calling", "waiting"}
                         /\ Seen(s)' = Append(Seen(s), writing[w].line)
    \/ Seen(s)' = backlog /\ ~flushed'[s]
    \/ Seen(s)' = <<>> /\ ~open'[s]

\* The snapshot, the batches and the channel.
LEMMA SeenJoined ==
    ASSUME NEW s \in Watcher
    PROVE  /\ Seen(s) = Joined(snapshot[s], received[s], channel[s])
           /\ Seen(s)' = Joined(snapshot'[s], received'[s], channel'[s])
BY DEF Seen, Joined

\* The parts are lines.
LEMMA PartTypes ==
    ASSUME TypeOK, NEW s \in Watcher
    PROVE  snapshot[s] \in Seq(Line) /\ received[s] \in Seq(Line) /\ channel[s] \in Seq(Line)
BY DEF TypeOK

\* A line written to the channel comes after all that is given already.
LEMMA ChannelAppend ==
    ASSUME TypeOK, NEW s \in Watcher, NEW n \in Line
    PROVE  Joined(snapshot[s], received[s], Append(channel[s], n)) =
             Append(Joined(snapshot[s], received[s], channel[s]), n)
<1> DEFINE a == snapshot[s]
           b == received[s]
           c == channel[s]
<1>1. a \in Seq(Line) /\ b \in Seq(Line) /\ c \in Seq(Line)
  BY PartTypes
<1> HIDE DEF a, b, c
<1>2. Joined(a, b, Append(c, n)) = Append(Joined(a, b, c), n)
  BY <1>1, JoinedAppend
<1> QED BY <1>2 DEF a, b, c

\* What a watcher is given are lines.
LEMMA SeenType ==
    ASSUME TypeOK, NEW s \in Watcher
    PROVE  Seen(s) \in Seq(Line)
BY PartTypes, JoinedType, SeenJoined

\* No other step changes what a watcher is given.
LEMMA SeenSteps ==
    ASSUME IInv, [Next]_vars, NEW u \in Watcher
    PROVE  SeenStep(u)
<1>1. TypeOK /\ BusyWriters /\ BeforeFlush
  BY DEF IInv
<1>2. snapshot[u] \in Seq(Line) /\ received[u] \in Seq(Line) /\ channel[u] \in Seq(Line)
  BY <1>1, PartTypes
<1>3. CASE /\ snapshot'[u] = snapshot[u] /\ received'[u] = received[u]
           /\ channel'[u] = channel[u]
  BY <1>3, SeenJoined DEF SeenStep
<1>4. ASSUME NEW w \in Writer, WriterNext(w)
      PROVE  SeenStep(u)
  <2>1. UNCHANGED <<snapshot, received>>
    BY <1>4, WriterFrame DEF watcherVars
  <2>2. CASE channel'[u] = channel[u]
    BY <1>3, <2>1, <2>2
  <2>3. CASE channel'[u] # channel[u]
    <3> DEFINE n == writing[w].line
    <3>1. CallFlushed(w) \/ WaitEnds(w)
      BY <1>4, <2>3 DEF WriterNext, CheckCompleted, AddLine, ReadDelegate, CallWaits,
                        WaitCancelled
    <3>2. writing[w].at \in {"calling", "waiting"} /\ n \in Line
      BY <1>1, <3>1, CallWrites
    <3>3. channel'[u] = Append(channel[u], n)
      <4> DEFINE s == Head(writing[w].targets)
      <4>1. channel' # channel
        BY <2>3
      <4>2. s \in Watcher /\ channel' = [channel EXCEPT ![s] = Append(channel[s], n)]
        BY <1>1, <3>1, <4>1, CallWrites
      <4> HIDE DEF s, n
      <4> QED BY <1>1, <2>3, <4>2 DEF TypeOK
    <3>4. Seen(u)' = Joined(snapshot[u], received[u], Append(channel[u], n))
      BY <2>1, <3>3, SeenJoined
    <3> HIDE DEF n
    <3>5. Joined(snapshot[u], received[u], Append(channel[u], n)) =
            Append(Joined(snapshot[u], received[u], channel[u]), n)
      BY <1>1, <3>2, ChannelAppend
    <3>6. Seen(u)' = Append(Seen(u), n)
      BY <3>4, <3>5, SeenJoined
    <3> QED BY <3>2, <3>6 DEF SeenStep, n
  <2> QED BY <2>2, <2>3
<1>5. ASSUME NEW s \in Watcher, WatcherNext(s), s # u
      PROVE  SeenStep(u)
  <2>1. /\ snapshot'[u] = snapshot[u] /\ received'[u] = received[u]
        /\ channel'[u] = channel[u]
    <3>1. CASE GetBacklogSnapshot(s)
      BY <1>1, <1>5, <3>1 DEF GetBacklogSnapshot, TypeOK
    <3>2. CASE GetBatch(s)
      BY <1>1, <1>5, <3>2 DEF GetBatch, TypeOK
    <3>3. CASE RemoveCallback(s) \/ RaiseOff(s)
      <4>1. UNCHANGED <<snapshot, received, channel>> \/ LeaveWatch(s)
        BY <3>3 DEF RemoveCallback, RaiseOff
      <4> QED BY <1>1, <1>5, <4>1 DEF LeaveWatch, TypeOK
    <3>4. CASE ~GetBacklogSnapshot(s) /\ ~GetBatch(s) /\ ~RemoveCallback(s) /\ ~RaiseOff(s)
      BY <1>5, <3>4 DEF WatcherNext, WatcherRuns, Register, Cancel, Dispose, AddCallback,
                        RaiseOn, SetFlushed, MoveNext, EndOfBatches, CompleteChannel,
                        watcherVars
    <3> QED BY <3>1, <3>2, <3>3, <3>4
  <2> QED BY <1>3, <2>1
<1>6. CASE GetBacklogSnapshot(u)
  <2>1. channel[u] = <<>> /\ received[u] = <<>> /\ ~flushed[u]
    BY <1>1, <1>6 DEF GetBacklogSnapshot, BeforeFlush
  <2>2. /\ snapshot'[u] = backlog /\ channel'[u] = <<>> /\ received'[u] = <<>>
        /\ flushed' = flushed
    BY <1>1, <1>6, <2>1 DEF GetBacklogSnapshot, TypeOK
  <2>3. backlog \in Seq(Line)
    BY <1>1 DEF TypeOK
  <2>4. Seen(u)' = Joined(backlog, <<>>, <<>>)
    BY <2>2, SeenJoined
  <2>5. Seen(u)' = backlog
    BY <2>3, <2>4, JoinedFirst
  <2> QED BY <2>1, <2>2, <2>5 DEF SeenStep
<1>7. CASE GetBatch(u)
  <2>1. /\ snapshot'[u] = snapshot[u] /\ channel'[u] = <<>>
        /\ received'[u] = received[u] \o channel[u]
    BY <1>1, <1>7 DEF GetBatch, Batch, TypeOK
  <2>2. Seen(u)' = Joined(snapshot[u], received[u] \o channel[u], <<>>)
    BY <2>1, SeenJoined
  <2>3. Joined(snapshot[u], received[u] \o channel[u], <<>>) =
          Joined(snapshot[u], received[u], channel[u])
    BY <1>2, JoinedBatch
  <2>4. Seen(u)' = Seen(u)
    BY <2>2, <2>3, SeenJoined, Zenon
  <2> QED BY <2>4 DEF SeenStep
<1>8. CASE RemoveCallback(u) \/ RaiseOff(u)
  <2>1. UNCHANGED <<snapshot, received, channel>> \/ LeaveWatch(u)
    BY <1>8 DEF RemoveCallback, RaiseOff
  <2>2. CASE LeaveWatch(u)
    <3>1. /\ snapshot'[u] = <<>> /\ channel'[u] = <<>> /\ received'[u] = <<>>
          /\ ~open'[u]
      BY <1>1, <2>2 DEF LeaveWatch, TypeOK
    <3>2. Seen(u)' = Joined(<<>>, <<>>, <<>>)
      BY <3>1, SeenJoined
    <3>3. <<>> \in Seq(Line)
      OBVIOUS
    <3>4. Seen(u)' = <<>>
      BY <3>2, <3>3, JoinedFirst
    <3> QED BY <3>1, <3>4 DEF SeenStep
  <2> QED BY <1>3, <2>1, <2>2
<1>9. CASE WatcherNext(u) /\ ~GetBacklogSnapshot(u) /\ ~GetBatch(u) /\ ~RemoveCallback(u)
           /\ ~RaiseOff(u)
  <2>1. UNCHANGED <<snapshot, received, channel>>
    BY <1>9 DEF WatcherNext, WatcherRuns, Register, Cancel, Dispose, AddCallback, RaiseOn,
                SetFlushed, MoveNext, EndOfBatches, CompleteChannel, watcherVars
  <2> QED BY <1>3, <2>1
<1>10. CASE InvokeLoggerAdded \/ AddLogger \/ MonitorNext
  BY <1>3, <1>10, MonitorFrame DEF watcherVars
<1>11. CASE ClearBacklog \/ Complete
  BY <1>3, <1>11 DEF ClearBacklog, Complete, watcherVars
<1>12. CASE UNCHANGED vars
  BY <1>3, <1>12 DEF vars
<1> QED BY <1>4, <1>5, <1>6, <1>7, <1>8, <1>9, <1>10, <1>11, <1>12 DEF Next, WatcherNext

\* A line keeps its author.
LEMMA AuthorKept ==
    ASSUME TypeOK, [Next]_vars
    PROVE  \A n \in DOMAIN author : n \in DOMAIN author' /\ author'[n] = author[n]
<1>1. CASE author' = author
  BY <1>1
<1>2. ASSUME NEW w \in Writer, AddLine(w)
      PROVE  \A n \in DOMAIN author : n \in DOMAIN author' /\ author'[n] = author[n]
  <2>1. author' = Append(author, w) /\ author \in Seq(Writer)
    BY <1>2 DEF AddLine, TypeOK
  <2> QED BY <2>1, AppendLast
<1> QED BY <1>1, <1>2, LinesGrow

\* What a watcher is given was logged, and is in the order of each writer: the
\* backlog is sorted, and a writer calls with its latest line.
LEMMA SeenNext ==
    ASSUME IInv, [Next]_vars
    PROVE  SeenLines' /\ WriterOrder'
<1>1. TypeOK /\ SeenLines /\ WriterOrder /\ BusyWriters /\ BacklogInOrder
  BY DEF IInv
<1>2. \A n \in DOMAIN author : n \in DOMAIN author' /\ author'[n] = author[n]
  BY <1>1, AuthorKept
<1>3. SUFFICES ASSUME NEW u \in Watcher
               PROVE  /\ \A i \in DOMAIN Seen(u)' : Seen(u)'[i] \in DOMAIN author'
                      /\ \A i, j \in DOMAIN Seen(u)' :
                           i < j /\ author'[Seen(u)'[i]] = author'[Seen(u)'[j]] =>
                             Seen(u)'[i] <= Seen(u)'[j]
  BY DEF SeenLines, WriterOrder
<1> DEFINE q == Seen(u)
           r == Seen(u)'
<1>4. q \in Seq(Line) /\ DOMAIN q = 1 .. Len(q) /\ Len(q) \in Nat
  BY <1>1, SeenType
<1>5. /\ \A i \in DOMAIN q : q[i] \in DOMAIN author
      /\ \A i, j \in DOMAIN q : i < j /\ author[q[i]] = author[q[j]] => q[i] <= q[j]
  BY <1>1 DEF SeenLines, WriterOrder
<1>6. SeenStep(u)
  BY SeenSteps
<1>7. CASE r = q
  <2> HIDE DEF q, r
  <2> QED BY <1>2, <1>5, <1>7 DEF r
<1>8. ASSUME NEW w \in Writer, writing[w].at \in {"calling", "waiting"},
             r = Append(q, writing[w].line)
      PROVE  /\ \A i \in DOMAIN r : r[i] \in DOMAIN author'
             /\ \A i, j \in DOMAIN r :
                  i < j /\ author'[r[i]] = author'[r[j]] => r[i] <= r[j]
  <2> DEFINE n == writing[w].line
  <2>1. /\ n \in DOMAIN author /\ author[n] = w /\ n \in Line
        /\ \A m \in DOMAIN author : author[m] = w => m <= n
    BY <1>1, <1>8, BusyFields DEF BusyWriters
  <2> HIDE DEF n, q, r
  <2>2. /\ DOMAIN r = 1 .. Len(q) + 1 /\ r[Len(q) + 1] = n
        /\ \A i \in 1 .. Len(q) : r[i] = q[i]
    <3>1. r = Append(q, n)
      BY <1>8 DEF n
    <3> QED BY <1>4, <2>1, <3>1, AppendLast
  <2>3. \A i \in DOMAIN r : r[i] \in DOMAIN author
    BY <1>4, <1>5, <2>1, <2>2
  <2>4. ASSUME NEW i \in DOMAIN r, NEW j \in DOMAIN r, i < j,
               author'[r[i]] = author'[r[j]]
        PROVE  r[i] <= r[j]
    <3>1. author[r[i]] = author[r[j]]
      BY <1>2, <2>3, <2>4
    <3>2. i \in 1 .. Len(q)
      BY <1>4, <2>2, <2>4
    <3>3. CASE j = Len(q) + 1
      BY <2>1, <2>2, <2>3, <3>1, <3>3
    <3>4. CASE j \in 1 .. Len(q)
      BY <1>4, <1>5, <2>2, <2>4, <3>1, <3>2, <3>4
    <3> QED BY <1>4, <2>2, <3>3, <3>4
  <2> QED BY <1>2, <2>3, <2>4
<1>9. CASE r = backlog
  <2> HIDE DEF r
  <2>1. /\ backlog \in Seq(Line) /\ DOMAIN backlog = 1 .. Len(backlog)
        /\ \A i \in DOMAIN backlog : backlog[i] \in Int
    <3>1. bound.lines \in Nat
      BY <1>1, BoundAssumption DEF TypeOK
    <3>2. Line \subseteq Int
      BY <3>1 DEF Line
    <3>3. backlog \in Seq(Line)
      BY <1>1 DEF TypeOK
    <3>4. DOMAIN backlog = 1 .. Len(backlog) /\ \A i \in DOMAIN backlog : backlog[i] \in Line
      BY <3>3
    <3> QED BY <3>2, <3>3, <3>4
  <2>2. \A i, j \in DOMAIN backlog : i < j => backlog[i] < backlog[j]
    BY <1>1, <2>1 DEF BacklogInOrder
  <2>3. \A i \in DOMAIN backlog : backlog[i] \in DOMAIN author'
    BY <1>1, <1>2 DEF BacklogInOrder
  <2>4. \A i, j \in DOMAIN backlog : i < j => backlog[i] <= backlog[j]
    BY <2>1, <2>2
  <2> QED BY <1>9, <2>3, <2>4 DEF r
<1>10. CASE r = <<>>
  <2> HIDE DEF r
  <2>1. DOMAIN r = {}
    BY <1>10
  <2> QED BY <2>1 DEF r
<1> QED BY <1>6, <1>7, <1>8, <1>9, <1>10 DEF SeenStep

-----------------------------------------------------------------------------
(* No line is lost.                                                        *)

\* A line on its way stays on its way, or its Invoke was ended by an
\* exception, or it has come to the watcher.
LEMMA FlightSteps ==
    ASSUME IInv, [Next]_vars, NEW u \in Watcher, NEW n,
           Seqs!Contains(onNewLog, u), InFlight(n, u)
    PROVE  \/ InFlight(n, u)'
           \/ n \in cut'
           \/ flushed[u] /\ (open[u] => Seqs!Contains(Seen(u)', n))
<1>1. TypeOK /\ BusyWriters
  BY DEF IInv
<1>2. PICK v \in Writer : /\ writing[v].line = n
                          /\ writing[v].at = "added" \/ Seqs!Contains(writing[v].targets, u)
  BY DEF InFlight
<1>3. CASE writing'[v] = writing[v]
  BY <1>2, <1>3 DEF InFlight
<1>4. ASSUME WriterNext(v)
      PROVE  \/ InFlight(n, u)'
             \/ n \in cut'
             \/ flushed[u] /\ (open[u] => Seqs!Contains(Seen(u)', n))
  <2> DEFINE targets == writing[v].targets
  <2>1. ASSUME NEW at, NEW ts, Becomes(v, at, n, ts), at = "added" \/ Seqs!Contains(ts, u)
        PROVE  InFlight(n, u)'
    <3>1. writing'[v].at = at /\ writing'[v].line = n /\ writing'[v].targets = ts
      BY <1>1, <2>1, BecomesFields
    <3> QED BY <2>1, <3>1 DEF InFlight
  <2>2. ~Seqs!Contains(<<>>, u)
    BY DEF Seqs!Contains
  <2>3. writing[v].at \notin {"idle", "checked"}
    BY <1>1, <1>2, <2>2 DEF BusyWriters
  <2>4. CASE CheckCompleted(v) \/ AddLine(v)
    BY <2>3, <2>4 DEF CheckCompleted, AddLine
  <2>5. CASE ReadDelegate(v)
    <3>1. onNewLog # <<>>
      BY <2>2
    <3>2. Becomes(v, "calling", n, onNewLog)
      BY <1>1, <1>2, <2>5, <3>1, WriterEffects
    <3> QED BY <2>1, <3>2
  <2>6. CASE CallFlushed(v) \/ WaitEnds(v)
    <3> DEFINE s == Head(targets)
    <3>1. /\ writing[v].at \in {"calling", "waiting"} /\ NextTarget(v)
      BY <2>6 DEF CallFlushed, WaitEnds
    <3>2. targets \in Seq(Watcher) /\ targets # <<>> /\ Seqs!Contains(targets, u)
      BY <1>1, <1>2, <3>1, BusyFields
    <3>3. CASE u # s
      <4>1. Len(targets) # 1 /\ Seqs!Contains(Tail(targets), u)
        BY <3>2, <3>3, ContainsTail
      <4>2. Becomes(v, "calling", n, Tail(targets))
        BY <1>1, <1>2, <3>1, <4>1, WriterEffects
      <4> QED BY <2>1, <4>1, <4>2
    <3>4. CASE u = s
      <4>1. flushed[u] /\ n \in Line
        BY <1>1, <1>2, <2>6, <3>4, CallWrites
      <4>2. \/ channel' = channel /\ (~open[u] \/ InSnapshot(u, n))
            \/ channel' = [channel EXCEPT ![u] = Append(channel[u], n)]
        BY <1>1, <1>2, <2>6, <3>4, CallWrites
      <4>3. UNCHANGED <<snapshot, received>>
        BY <1>4, WriterFrame DEF watcherVars
      <4>4. CASE channel' = channel /\ InSnapshot(u, n)
        <5>1. Seen(u)' = Seen(u)
          BY <4>3, <4>4 DEF Seen
        <5>2. Seqs!Contains(snapshot[u], n)
          BY <4>4 DEF InSnapshot
        <5>3. Seqs!Contains(Seen(u), n)
          <6>1. /\ snapshot[u] \in Seq(Line) /\ received[u] \in Seq(Line)
                /\ channel[u] \in Seq(Line)
            BY <1>1, PartTypes
          <6>2. Seqs!Contains(Joined(snapshot[u], received[u], channel[u]), n)
            BY <5>2, <6>1, JoinedContains
          <6> QED BY <6>2, SeenJoined
        <5> QED BY <4>1, <5>1, <5>3
      <4>5. CASE channel' = [channel EXCEPT ![u] = Append(channel[u], n)]
        <5>1. channel'[u] = Append(channel[u], n)
          BY <1>1, <4>5 DEF TypeOK
        <5>2. Joined(snapshot[u], received[u], Append(channel[u], n)) =
                Append(Joined(snapshot[u], received[u], channel[u]), n)
          BY <1>1, <4>1, ChannelAppend
        <5>3. Seen(u)' = Append(Seen(u), n)
          BY <4>3, <5>1, <5>2, SeenJoined
        <5>4. Seen(u) \in Seq(Line)
          BY <1>1, SeenType
        <5>5. Seqs!Contains(Append(Seen(u), n), n)
          BY <4>1, <5>4, ContainsAppended
        <5> QED BY <4>1, <5>3, <5>5
      <4>6. CASE ~open[u]
        BY <4>1, <4>6
      <4> QED BY <4>2, <4>4, <4>5, <4>6
    <3> QED BY <3>3, <3>4
  <2>7. CASE CallWaits(v)
    <3>1. writing[v].at = "calling"
      BY <2>7 DEF CallWaits
    <3>2. Becomes(v, "waiting", n, targets) /\ Seqs!Contains(targets, u)
      BY <1>1, <1>2, <2>7, <3>1, WriterEffects
    <3> QED BY <2>1, <3>2
  <2>8. CASE WaitCancelled(v)
    BY <1>2, <2>8 DEF WaitCancelled
  <2> QED BY <1>4, <2>4, <2>5, <2>6, <2>7, <2>8 DEF WriterNext
<1>5. ASSUME NEW w \in Writer, WriterNext(w), w # v
      PROVE  writing'[v] = writing[v]
  <2>1. \E at, line, targets : Becomes(w, at, line, targets)
    <3>1. CheckCompleted(w) \/ AddLine(w) \/ ReadDelegate(w) \/ NextTarget(w)
          \/ CallWaits(w) \/ WaitCancelled(w)
      BY <1>5 DEF WriterNext, CallFlushed, WaitEnds
    <3> QED BY <1>1, <3>1, WriterEffects
  <2> QED BY <1>1, <1>5, <2>1, BecomesFields
<1>6. CASE ClearBacklog
  BY <1>3, <1>6 DEF ClearBacklog
<1>7. CASE UNCHANGED writerVars
  BY <1>3, <1>7 DEF writerVars
<1> QED BY <1>3, <1>4, <1>5, <1>6, <1>7, LogUnchanged

\* Nothing is taken from the lines whose Invoke was ended.
LEMMA CutGrows ==
    ASSUME [Next]_vars
    PROVE  cut \subseteq cut'
<1>1. CASE ClearBacklog
  BY <1>1 DEF ClearBacklog
<1>2. ASSUME NEW w \in Writer, WriterNext(w)
      PROVE  cut \subseteq cut'
  BY <1>2 DEF WriterNext, CheckCompleted, AddLine, ReadDelegate, CallFlushed, CallWaits,
              WaitEnds, WaitCancelled
<1>3. CASE UNCHANGED writerVars
  BY <1>3 DEF writerVars
<1> QED BY <1>1, <1>2, <1>3, LogUnchanged

\* A watcher with its callback in _onNewLog had it there before, or has just
\* put it there.
LEMMA SinceSteps ==
    ASSUME IInv, [Next]_vars, NEW u \in Watcher, Seqs!Contains(onNewLog', u)
    PROVE  \/ Seqs!Contains(onNewLog, u) /\ since'[u] = since[u]
           \/ since'[u] = Len(author')
<1>1. TypeOK /\ Subscribed /\ onNewLog \in Seq(Watcher)
  BY DEF IInv, TypeOK
<1>2. ASSUME NEW s \in Watcher, WatcherNext(s)
      PROVE  \/ Seqs!Contains(onNewLog, u) /\ since'[u] = since[u]
             \/ since'[u] = Len(author')
  <2>1. author' = author
    BY <1>2, WatcherFrame DEF writerVars
  <2>2. CASE AddCallback(s) /\ u = s
    BY <1>1, <2>1, <2>2 DEF AddCallback, TypeOK
  <2>3. CASE AddCallback(s) /\ u # s
    <3>1. since'[u] = since[u]
      BY <1>1, <2>3 DEF AddCallback, TypeOK
    <3> QED BY <1>1, <1>2, <2>3, <3>1, OthersStay
  <2>4. CASE ~AddCallback(s)
    <3>1. since' = since /\ (onNewLog' = onNewLog \/ RemoveCallback(s))
      BY <1>2, <2>4 DEF WatcherNext, WatcherRuns, Register, Cancel, Dispose, RaiseOn,
                        GetBacklogSnapshot, SetFlushed, MoveNext, GetBatch, EndOfBatches,
                        RemoveCallback, RaiseOff, CompleteChannel, watcherVars
    <3>2. CASE RemoveCallback(s)
      <4>1. pc[s] = "removing" /\ onNewLog' = Unsubscribed(s)
        BY <3>2 DEF RemoveCallback
      <4>2. Seqs!Contains(onNewLog, s)
        BY <1>1, <4>1 DEF Subscribed, Subscribing
      <4>3. Seqs!Contains(onNewLog, u)
        BY <1>1, <4>1, <4>2, UnsubscribedOthers
      <4> QED BY <3>1, <4>3
    <3> QED BY <3>1, <3>2
  <2> QED BY <2>2, <2>3, <2>4
<1>3. CASE UNCHANGED watcherVars
  BY <1>3 DEF watcherVars
<1> QED BY <1>2, <1>3, WatchersUnchanged

\* flushBacklogSync stays set, and a channel is opened before it is set.
LEMMA FlagSteps ==
    ASSUME IInv, [Next]_vars, NEW u \in Watcher
    PROVE  /\ flushed[u] => flushed'[u]
           /\ flushed'[u] /\ open'[u] => open[u]
<1>1. TypeOK /\ BeforeFlush
  BY DEF IInv
<1>2. CASE UNCHANGED <<flushed, open>>
  BY <1>2
<1>3. ASSUME NEW s \in Watcher, WatcherNext(s)
      PROVE  /\ flushed[u] => flushed'[u]
             /\ flushed'[u] /\ open'[u] => open[u]
  <2>1. CASE Register(s)
    <3>1. flushed' = flushed /\ ~flushed[s]
      BY <1>1, <2>1 DEF Register, BeforeFlush
    <3>2. u # s => open'[u] = open[u]
      BY <1>1, <2>1 DEF Register, TypeOK
    <3> QED BY <3>1, <3>2
  <2>2. CASE SetFlushed(s)
    BY <1>1, <2>2 DEF SetFlushed, closingVars, TypeOK
  <2>3. CASE ~Register(s) /\ ~SetFlushed(s)
    <3>1. flushed' = flushed
      BY <1>3, <2>3 DEF WatcherNext, WatcherRuns, Cancel, Dispose, AddCallback, RaiseOn,
                        GetBacklogSnapshot, MoveNext, GetBatch, EndOfBatches,
                        RemoveCallback, RaiseOff, CompleteChannel, watcherVars
    <3>2. open' = open \/ open' = [open EXCEPT ![s] = FALSE]
      BY <1>3, <2>3 DEF WatcherNext, WatcherRuns, Cancel, Dispose, AddCallback, RaiseOn,
                        GetBacklogSnapshot, MoveNext, GetBatch, EndOfBatches,
                        RemoveCallback, RaiseOff, CompleteChannel, LeaveWatch, closingVars
    <3>3. open'[u] => open[u]
      BY <1>1, <3>2 DEF TypeOK
    <3> QED BY <3>1, <3>3
  <2> QED BY <2>1, <2>2, <2>3
<1>4. CASE InvokeLoggerAdded \/ AddLogger \/ MonitorNext
  BY <1>2, <1>4, MonitorFrame DEF watcherVars, closingVars
<1>5. CASE ClearBacklog \/ Complete
  BY <1>2, <1>5 DEF ClearBacklog, Complete, watcherVars, closingVars
<1>6. ASSUME NEW w \in Writer, WriterNext(w)
      PROVE  UNCHANGED <<flushed, open>>
  BY <1>6, WriterFrame DEF watcherVars, closingVars
<1>7. CASE UNCHANGED vars
  BY <1>2, <1>7 DEF vars
<1> QED BY <1>2, <1>3, <1>4, <1>5, <1>6, <1>7 DEF Next, WatcherNext

\* What has been given to a watcher stays while its channel is open.
LEMMA SeenStays ==
    ASSUME IInv, [Next]_vars, NEW u \in Watcher, NEW n, Seqs!Contains(Seen(u), n),
           flushed'[u], open'[u]
    PROVE  Seqs!Contains(Seen(u)', n)
<1>1. SeenStep(u) /\ TypeOK /\ BusyWriters
  BY SeenSteps DEF IInv
<1>2. CASE Seen(u)' = Seen(u)
  BY <1>2
<1>3. ASSUME NEW w \in Writer, writing[w].at \in {"calling", "waiting"},
             Seen(u)' = Append(Seen(u), writing[w].line)
      PROVE  Seqs!Contains(Seen(u)', n)
  <2>1. Seen(u) \in Seq(Line) /\ writing[w].line \in Line
    BY <1>1, <1>3, SeenType, BusyFields
  <2>2. Seqs!Contains(Append(Seen(u), writing[w].line), n)
    BY <2>1, ContainsAppended
  <2> QED BY <1>3, <2>2
<1> QED BY <1>1, <1>2, <1>3 DEF SeenStep

\* A line that was held back before the snapshot comes to the watcher after it.
LEMMA NoLineLostNext ==
    ASSUME IInv, [Next]_vars
    PROVE  HeldBack' /\ NoLineLost'
<1>1. TypeOK /\ HeldBack /\ NoLineLost
  BY DEF IInv
<1>2. SUFFICES ASSUME NEW u \in Watcher, Seqs!Contains(onNewLog', u),
                      NEW n \in since'[u] + 1 .. Len(author')
               PROVE  /\ ~flushed'[u] => InFlight(n, u)' \/ n \in cut'
                      /\ flushed'[u] /\ open'[u] =>
                           Seqs!Contains(Seen(u)', n) \/ InFlight(n, u)' \/ n \in cut'
  BY DEF HeldBack, NoLineLost
<1>3. TypeOK' /\ Len(author') \in Nat /\ since'[u] \in Nat
  <2>1. TypeOK'
    BY TypeNext
  <2>2. bound.lines \in Nat /\ Line' = Line
    BY <1>1, BoundFixed, BoundAssumption DEF TypeOK
  <2>3. Line \cup {0} \subseteq Nat
    BY <2>2 DEF Line
  <2>4. author' \in Seq(Writer) /\ since' \in [Watcher -> Line \cup {0}]
    BY <2>1, <2>2 DEF TypeOK
  <2> QED BY <2>1, <2>3, <2>4
<1>4. Seqs!Contains(onNewLog, u) /\ since'[u] = since[u]
  BY <1>2, <1>3, SinceSteps
<1>5. CASE n \in since[u] + 1 .. Len(author)
  <2>1. flushed[u] => flushed'[u]
    BY FlagSteps
  <2>2. n \in cut => n \in cut'
    BY CutGrows
  <2>3. CASE ~flushed[u]
    <3>1. InFlight(n, u) \/ n \in cut
      BY <1>1, <1>4, <1>5, <2>3 DEF HeldBack
    <3> QED BY <1>4, <2>2, <2>3, <3>1, FlightSteps
  <2>4. CASE flushed[u] /\ flushed'[u] /\ open'[u]
    <3>1. open[u]
      BY <2>4, FlagSteps
    <3>2. Seqs!Contains(Seen(u), n) \/ InFlight(n, u) \/ n \in cut
      BY <1>1, <1>4, <1>5, <2>4, <3>1 DEF NoLineLost
    <3> QED BY <1>4, <2>2, <2>4, <3>1, <3>2, FlightSteps, SeenStays
  <2> QED BY <2>1, <2>3, <2>4
<1>6. CASE n \notin since[u] + 1 .. Len(author)
  <2>1. author' # author
    BY <1>4, <1>6
  <2>2. PICK w \in Writer : AddLine(w)
    BY <2>1, LinesGrow
  <2>3. author \in Seq(Writer) /\ Len(author) \in Nat /\ since[u] \in Nat
    BY <1>1, <1>3, <1>4 DEF TypeOK
  <2>4. Len(author') = Len(author) + 1
    BY <2>2, <2>3, AppendLast DEF AddLine
  <2>5. n = Len(author) + 1
    BY <1>3, <1>4, <1>6, <2>3, <2>4
  <2>6. Becomes(w, "added", n, writing[w].targets)
    BY <1>1, <2>2, <2>5, WriterEffects
  <2>7. writing'[w].line = n /\ writing'[w].at = "added"
    BY <1>1, <2>6, BecomesFields
  <2>8. InFlight(n, u)'
    BY <2>7 DEF InFlight
  <2> QED BY <2>8
<1> QED BY <1>5, <1>6

-----------------------------------------------------------------------------
(* The theorems.                                                           *)

\* The invariant holds of a log nobody has written to.
LEMMA InitInv == Init => IInv
<1> SUFFICES ASSUME Init
             PROVE  IInv
  OBVIOUS
<1>1. bound.lines \in Nat
  BY BoundAssumption DEF Init
<1>2. WriterTypes
  BY <1>1, BoundAssumption, CapacityAssumption DEF Init, WriterTypes, Write, Idle
<1>3. WatcherTypes
  BY DEF Init, WatcherTypes, WatcherStep
<1>4. MonitorTypes /\ FlagTypes
  <2>1. MonitorTypes
    BY DEF Init, MonitorTypes
  <2>2. events \in Seq(BOOLEAN)
    BY DEF Init
  <2>3. /\ completed \in BOOLEAN /\ listening \in BOOLEAN /\ told \in BOOLEAN
        /\ token \in [Watcher -> BOOLEAN] /\ flushed \in [Watcher -> BOOLEAN]
        /\ open \in [Watcher -> BOOLEAN]
    BY DEF Init
  <2> QED BY <2>1, <2>2, <2>3, Zenon DEF FlagTypes
<1>5. TypeOK
  BY <1>2, <1>3, <1>4, TypeParts
<1>6. RoomForLines
  <2>1. Checked = {}
    BY DEF Init, Checked, Idle
  <2> QED BY <1>1, <2>1, FS_EmptySet DEF Init, RoomForLines
<1>7. Subscribed /\ NotCreated /\ AttachedOnce /\ ToldOfFirst /\ BeforeFlush
  BY DEF Init, Subscribed, Subscribing, NotCreated, AttachedOnce, ToldOfFirst, BeforeFlush
<1>8. BacklogInOrder /\ BusyWriters
  BY DEF Init, BacklogInOrder, BusyWriters, Idle
<1>9. SeenLines /\ WriterOrder
  <2>1. ASSUME NEW s \in Watcher
        PROVE  DOMAIN Seen(s) = {}
    <3>1. Seen(s) = Joined(<<>>, <<>>, <<>>)
      BY SeenJoined DEF Init
    <3>2. <<>> \in Seq(Line)
      OBVIOUS
    <3>3. Seen(s) = <<>>
      BY <3>1, <3>2, JoinedFirst
    <3> QED BY <3>3
  <2> QED BY <2>1 DEF SeenLines, WriterOrder
<1>10. HeldBack /\ NoLineLost
  <2>1. \A s \in Watcher : ~Seqs!Contains(onNewLog, s)
    BY DEF Init, Seqs!Contains
  <2> QED BY <2>1 DEF HeldBack, NoLineLost
<1> QED BY <1>5, <1>6, <1>7, <1>8, <1>9, <1>10 DEF IInv

\* The inductive invariant holds in every reachable state of a log, whoever
\* writes to it and watches it.
THEOREM LoggerInvariant == Spec => []IInv
<1>1. Init => IInv
  BY InitInv
<1>2. IInv /\ [Next]_vars => IInv'
  <2> SUFFICES ASSUME IInv, [Next]_vars
               PROVE  IInv'
    OBVIOUS
  <2>1. TypeOK' /\ AttachedOnce'
    BY TypeNext
  <2>2. RoomForLines' /\ BacklogInOrder' /\ BusyWriters'
    BY RoomNext, BacklogNext, BusyNext
  <2>3. Subscribed' /\ NotCreated' /\ ToldOfFirst' /\ BeforeFlush'
    BY SubscribedNext, NotCreatedNext, ToldNext, BeforeFlushNext
  <2>4. SeenLines' /\ WriterOrder'
    BY SeenNext
  <2>5. HeldBack' /\ NoLineLost'
    BY NoLineLostNext
  <2> QED BY <2>1, <2>2, <2>3, <2>4, <2>5 DEF IInv
<1> QED BY <1>1, <1>2, PTL DEF Spec

\* Every variable keeps its type: a backlog never holds more than its capacity,
\* and _onSubscribersChanged never has the monitor's handler more than twice.
THEOREM TypeCorrect == Spec => []TypeOK
<1>1. IInv => TypeOK
  BY DEF IInv
<1> QED BY <1>1, LoggerInvariant, PTL

\* No line logged after a watcher's callback was added is lost between the
\* snapshot of the backlog and the channel.
THEOREM NothingLost == Spec => []NoLineLost
<1>1. IInv => NoLineLost
  BY DEF IInv
<1> QED BY <1>1, LoggerInvariant, PTL

\* A watcher gets the lines of one writer in the order they were logged.
THEOREM WritersInOrder == Spec => []WriterOrder
<1>1. IInv => WriterOrder
  BY DEF IInv
<1> QED BY <1>1, LoggerInvariant, PTL

\* A monitor that is attached has been told of the present subscribers once
\* nobody is about to tell it.
THEOREM MonitorIsTold == Spec => []MonitorTold
<1>1. IInv => MonitorTold
  BY DEF IInv, ToldOfFirst, MonitorTold
<1> QED BY <1>1, LoggerInvariant, PTL
=============================================================================
