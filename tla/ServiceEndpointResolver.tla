----------------------- MODULE ServiceEndpointResolver -----------------------
(***************************************************************************)
(* ServiceEndpointResolver caches one watcher per service name in a        *)
(* ConcurrentDictionary of ResolverEntry.  Callers of GetEndpointsAsync    *)
(* use an entry without a lock: a single word, _status, holds the number   *)
(* of concurrent callers, a RecentUse flag and a Disposing flag, and is    *)
(* only touched with interlocked operations.  A periodic cleanup task      *)
(* expires the entries nobody uses, and DisposeAsync closes all of them.   *)
(*                                                                         *)
(* An action is the code between two points where another thread can       *)
(* interfere: an interlocked operation, a dictionary operation, a lock     *)
(* region or an await.                                                     *)
(***************************************************************************)
EXTENDS Integers, FiniteSets

CONSTANTS
    Caller,      \* threads that call GetEndpointsAsync
    Name,        \* service names
    Entry,       \* identities of the ResolverEntry objects and their watchers
    NoEntry,     \* a missing dictionary value
    MaxCalls,    \* bound: calls of GetEndpointsAsync
    MaxTicks     \* bound: expirations of the cleanup timer

ASSUME CallerAssumption == IsFiniteSet(Caller)
ASSUME EntryAssumption == NoEntry \notin Entry

VARIABLES
    resolvers,   \* _resolvers: the entry of each name, or NoEntry
    disposed,    \* _disposed
    timer,       \* _cleanupTimer is not null
    callback,    \* a timer callback was queued and has not run yet
    count,       \* ResolverEntry._status: the number of concurrent callers,
    recent,      \*    the RecentUse flag
    disposing,   \*    and the Disposing flag of each entry
    onDisposed,  \* ResolverEntry._onDisposed: "null", "pending" or "set"
    watcher,     \* the entry's watcher: "fresh", "started" or "stopped"
    pc,          \* the next step of each caller
    name,        \* the service name a caller asked for
    entry,       \* the entry a caller holds
    valid,       \* the Valid result of the caller's last use of an entry
    closing,     \* the next step of each call of ResolverEntry.DisposeAsync
    cleanupAt,    \* the cleanup task: its step,
    cleanupTodo,  \*    the names it has not visited
    cleanupName,  \*    and the name and entry at hand
    cleanupEntry,
    disposeAt,    \* DisposeAsync: its step,
    disposeTodo,  \*    the names it has not visited
    disposeEntry, \*    and the entry it awaits
    used,        \* history: entries used since the last CanExpire of theirs
    lostRace,    \* history: entries GetOrAdd created and did not add
    calls, ticks \* counters for the bounds

statusVars == <<count, recent, disposing>>
entryVars == <<statusVars, onDisposed, watcher, used>>
callerVars == <<pc, name, entry, valid, calls>>
cleanupVars == <<cleanupAt, cleanupTodo, cleanupName, cleanupEntry>>
disposeVars == <<disposeAt, disposeTodo, disposeEntry>>
vars == <<resolvers, disposed, timer, callback, entryVars, callerVars,
          closing, cleanupVars, disposeVars, lostRace, ticks>>

(***************************************************************************)
(* ResolverEntry.DisposeAsync is called by the cleanup task, which keeps   *)
(* several calls in flight, and by ServiceEndpointResolver.DisposeAsync.   *)
(***************************************************************************)
Closer == {"cleanup", "dispose"}

CallerStep == {"idle", "timer", "check", "lookup", "create", "add",
               "increment", "resolving", "recent", "decrement",
               "core", "set", "return"}
CloseStep == {"none", "create", "flag", "core", "set", "await", "done", "fault"}

\* The steps between a caller's Increment and its Decrement.
CountedStep == {"resolving", "recent", "decrement"}

\* The steps in which a caller's use of the entry is not recorded yet.
UsingStep == {"resolving", "recent"}

TypeOK ==
    /\ resolvers \in [Name -> Entry \cup {NoEntry}]
    /\ disposed \in BOOLEAN
    /\ timer \in BOOLEAN
    /\ callback \in BOOLEAN
    /\ count \in [Entry -> Nat]
    /\ recent \in [Entry -> BOOLEAN]
    /\ disposing \in [Entry -> BOOLEAN]
    /\ onDisposed \in [Entry -> {"null", "pending", "set"}]
    /\ watcher \in [Entry -> {"fresh", "started", "stopped"}]
    /\ pc \in [Caller -> CallerStep]
    /\ name \in [Caller -> Name]
    /\ entry \in [Caller -> Entry \cup {NoEntry}]
    /\ valid \in [Caller -> BOOLEAN]
    /\ closing \in [Closer \X Entry -> CloseStep]
    /\ cleanupAt \in {"idle", "scan", "expire", "remove", "whenAll"}
    /\ cleanupTodo \subseteq Name
    /\ cleanupName \in Name
    /\ cleanupEntry \in Entry \cup {NoEntry}
    /\ disposeAt \in {"idle", "scan", "wait", "join", "done", "fault"}
    /\ disposeTodo \subseteq Name
    /\ disposeEntry \in Entry \cup {NoEntry}
    /\ used \subseteq Entry
    /\ lostRace \subseteq Entry
    /\ calls \in Nat
    /\ ticks \in Nat

Init ==
    /\ resolvers = [n \in Name |-> NoEntry]
    /\ disposed = FALSE
    /\ timer = FALSE
    /\ callback = FALSE
    /\ count = [e \in Entry |-> 0]
    /\ recent = [e \in Entry |-> FALSE]
    /\ disposing = [e \in Entry |-> FALSE]
    /\ onDisposed = [e \in Entry |-> "null"]
    /\ watcher = [e \in Entry |-> "fresh"]
    /\ pc = [c \in Caller |-> "idle"]
    /\ name \in [Caller -> Name]
    /\ entry = [c \in Caller |-> NoEntry]
    /\ valid = [c \in Caller |-> TRUE]
    /\ closing = [k \in Closer \X Entry |-> "none"]
    /\ cleanupAt = "idle" /\ cleanupTodo = {}
    /\ cleanupName \in Name /\ cleanupEntry = NoEntry
    /\ disposeAt = "idle" /\ disposeTodo = {} /\ disposeEntry = NoEntry
    /\ used = {}
    /\ lostRace = {}
    /\ calls = 0
    /\ ticks = 0

-----------------------------------------------------------------------------
\* _lock: the cleanup task runs inside it until it awaits Task.WhenAll.
LockFree == cleanupAt \notin {"scan", "expire", "remove"}

(* GetEndpointsAsync: the loop over the dictionary.                        *)

Goto(c, step) == pc' = [pc EXCEPT ![c] = step]

\* The call returns or throws, and its locals are gone.
Finish(c) ==
    /\ Goto(c, "idle")
    /\ entry' = [entry EXCEPT ![c] = NoEntry]
    /\ valid' = [valid EXCEPT ![c] = TRUE]

\* The entry check of the call; a disposed resolver throws.
Call(c, n) ==
    /\ pc[c] = "idle"
    /\ calls < MaxCalls
    /\ calls' = calls + 1
    /\ name' = [name EXCEPT ![c] = n]
    /\ Goto(c, IF disposed THEN "idle" ELSE "timer")
    /\ UNCHANGED <<resolvers, disposed, timer, callback, entryVars, entry,
                   valid, closing, cleanupVars, disposeVars, lostRace, ticks>>

\* The timer is created under the lock, once; _disposed is not looked at.
EnsureCleanupTimerStarted(c) ==
    /\ pc[c] = "timer"
    /\ timer \/ LockFree
    /\ timer' = TRUE
    /\ Goto(c, "check")
    /\ UNCHANGED <<resolvers, disposed, callback, entryVars, name, entry,
                   valid, calls, closing, cleanupVars, disposeVars, lostRace,
                   ticks>>

\* The head of the loop throws when the resolver is disposed or the caller's
\* token is cancelled, which it may be at any time.
LoopCheck(c) ==
    /\ pc[c] = "check"
    /\ \/ Finish(c)
       \/ ~disposed /\ Goto(c, "lookup") /\ UNCHANGED <<entry, valid>>
    /\ UNCHANGED <<resolvers, disposed, timer, callback, entryVars, name,
                   calls, closing, cleanupVars, disposeVars, lostRace, ticks>>

\* GetOrAdd looks the name up and, on a miss, calls the factory.
Lookup(c) ==
    /\ pc[c] = "lookup"
    /\ entry' = [entry EXCEPT ![c] = resolvers[name[c]]]
    /\ Goto(c, IF resolvers[name[c]] = NoEntry THEN "create" ELSE "increment")
    /\ UNCHANGED <<resolvers, disposed, timer, callback, entryVars, name,
                   valid, calls, closing, cleanupVars, disposeVars, lostRace,
                   ticks>>

\* The identity of a new object: any that is not in use stands for all of them.
IsNext(e) == e = CHOOSE f \in Entry : watcher[f] = "fresh"

\* The factory creates and starts a watcher, or throws when no provider fits.
CreateResolver(c) ==
    /\ pc[c] = "create"
    /\ \/ \E e \in Entry :
             /\ watcher[e] = "fresh"
             /\ IsNext(e)
             /\ watcher' = [watcher EXCEPT ![e] = "started"]
             /\ entry' = [entry EXCEPT ![c] = e]
             /\ Goto(c, "add")
             /\ UNCHANGED valid
       \/ Finish(c) /\ UNCHANGED watcher
    /\ UNCHANGED <<resolvers, disposed, timer, callback, statusVars,
                   onDisposed, used, name, calls, closing, cleanupVars,
                   disposeVars, lostRace, ticks>>

\* GetOrAdd adds the new entry unless another caller did so first; the loser
\* uses the winner's entry and forgets its own, whose watcher has started.
AddResolver(c) ==
    /\ pc[c] = "add"
    /\ IF resolvers[name[c]] = NoEntry
       THEN /\ resolvers' = [resolvers EXCEPT ![name[c]] = entry[c]]
            /\ UNCHANGED <<entry, lostRace>>
       ELSE /\ entry' = [entry EXCEPT ![c] = resolvers[name[c]]]
            /\ lostRace' = lostRace \cup {entry[c]}
            /\ UNCHANGED resolvers
    /\ Goto(c, "increment")
    /\ UNCHANGED <<disposed, timer, callback, entryVars, name, valid, calls,
                   closing, cleanupVars, disposeVars, ticks>>

-----------------------------------------------------------------------------
(* ResolverEntry.GetEndpointsAsync.                                        *)
(* Definitions marked "Faulty" are plausible mistakes in the definition    *)
(* that follows them; the runs show which property notices each.           *)

\* Faulty: only callers that may resolve are counted.
CountIncrementedIfValid(e) == IF disposing[e] THEN count[e] ELSE count[e] + 1

CountIncremented(e) == count[e] + 1

Increment(c) ==
    /\ pc[c] = "increment"
    /\ count' = [count EXCEPT ![entry[c]] = CountIncremented(entry[c])]
    /\ IF disposing[entry[c]]
       THEN Goto(c, "recent") /\ UNCHANGED used
       ELSE Goto(c, "resolving") /\ used' = used \cup {entry[c]}
    /\ valid' = [valid EXCEPT ![c] = ~disposing[entry[c]]]
    /\ UNCHANGED <<resolvers, disposed, timer, callback, recent, disposing,
                   onDisposed, watcher, name, entry, calls, closing,
                   cleanupVars, disposeVars, lostRace, ticks>>

\* The watcher's GetEndpointsAsync completes, or throws (a provider's error
\* or the caller's cancellation): the finally block runs either way.
Resolve(c) ==
    /\ pc[c] = "resolving"
    /\ Goto(c, "recent")
    /\ UNCHANGED <<resolvers, disposed, timer, callback, entryVars, name,
                   entry, valid, calls, closing, cleanupVars, disposeVars,
                   lostRace, ticks>>

\* Faulty: the RecentUse flag is not set.
SetNoRecentUse(c) ==
    /\ pc[c] = "recent"
    /\ Goto(c, "decrement")
    /\ UNCHANGED <<resolvers, disposed, timer, callback, entryVars, name, entry,
                   valid, calls, closing, cleanupVars, disposeVars, lostRace,
                   ticks>>

\* The finally block, first half: the RecentUse flag is set.
SetRecentUse(c) ==
    /\ pc[c] = "recent"
    /\ recent' = [recent EXCEPT ![entry[c]] = TRUE]
    /\ Goto(c, "decrement")
    /\ UNCHANGED <<resolvers, disposed, timer, callback, count, disposing,
                   onDisposed, watcher, used, name, entry, valid, calls,
                   closing, cleanupVars, disposeVars, lostRace, ticks>>

\* Faulty: any caller that leaves a disposing entry disposes it.
LastOrNot(e) == disposing[e]

\* Faulty: the count is compared before it is decremented.
LastBeforeDecrement(e) == disposing[e] /\ count[e] = 0

\* After the decrement the Disposing flag is set and the count is 0.
LastCaller(e) == disposing[e] /\ count[e] = 1

\* Second half: the caller that leaves a disposing entry last disposes it.
Decrement(c) ==
    /\ pc[c] = "decrement"
    /\ count' = [count EXCEPT ![entry[c]] = @ - 1]
    /\ Goto(c, IF LastCaller(entry[c]) THEN "core" ELSE "return")
    /\ UNCHANGED <<resolvers, disposed, timer, callback, recent, disposing,
                   onDisposed, watcher, used, name, entry, valid, calls,
                   closing, cleanupVars, disposeVars, lostRace, ticks>>

\* DisposeAsyncCore: the watcher is disposed, then _onDisposed is completed.
\* Disposing a watcher again does nothing.
StopWatcher(e) == watcher' = [watcher EXCEPT ![e] = "stopped"]

\* SetResult throws when the task has been completed already.
SetResultThrows(e) == onDisposed[e] = "set"

CallerStopsWatcher(c) ==
    /\ pc[c] = "core"
    /\ StopWatcher(entry[c])
    /\ Goto(c, "set")
    /\ UNCHANGED <<resolvers, disposed, timer, callback, statusVars,
                   onDisposed, used, name, entry, valid, calls, closing,
                   cleanupVars, disposeVars, lostRace, ticks>>

CallerSetsResult(c) ==
    /\ pc[c] = "set"
    /\ onDisposed' = [onDisposed EXCEPT ![entry[c]] = "set"]
    /\ IF SetResultThrows(entry[c])
       THEN Finish(c)
       ELSE Goto(c, "return") /\ UNCHANGED <<entry, valid>>
    /\ UNCHANGED <<resolvers, disposed, timer, callback, statusVars, watcher,
                   used, name, calls, closing, cleanupVars, disposeVars,
                   lostRace, ticks>>

\* Faulty: the result of the entry is tested the wrong way round.
ReturnInverted(c) ==
    /\ pc[c] = "return"
    /\ IF valid[c] THEN Goto(c, "check") /\ UNCHANGED <<entry, valid>>
                   ELSE Finish(c)
    /\ UNCHANGED <<resolvers, disposed, timer, callback, entryVars, name, calls,
                   closing, cleanupVars, disposeVars, lostRace, ticks>>

\* A valid result is returned (or its exception thrown); an invalid entry is
\* taken out of the dictionary, if it is still the one there, and the loop
\* starts over.
Return(c) ==
    /\ pc[c] = "return"
    /\ IF valid[c]
       THEN Finish(c) /\ UNCHANGED resolvers
       ELSE /\ resolvers' = [resolvers EXCEPT ![name[c]] =
                                IF @ = entry[c] THEN NoEntry ELSE @]
            /\ Goto(c, "check")
            /\ UNCHANGED <<entry, valid>>
    /\ UNCHANGED <<disposed, timer, callback, entryVars, name, calls, closing,
                   cleanupVars, disposeVars, lostRace, ticks>>

-----------------------------------------------------------------------------
(* ResolverEntry.DisposeAsync, by closer k of entry e.                     *)

CloseGoto(k, e, step) == closing' = [closing EXCEPT ![<<k, e>>] = step]

\* Faulty: the completion source is not created.
NoOnDisposed(e) == onDisposed[e]

\* CompareExchange: the first closer creates the completion source.
NewOnDisposed(e) == IF onDisposed[e] = "null" THEN "pending" ELSE onDisposed[e]

\* The completion source is created before the flag is set.
CreateOnDisposed(k, e) ==
    /\ closing[<<k, e>>] = "create"
    /\ onDisposed' = [onDisposed EXCEPT ![e] = NewOnDisposed(e)]
    /\ CloseGoto(k, e, "flag")
    /\ UNCHANGED <<resolvers, disposed, timer, callback, statusVars, watcher,
                   used, callerVars, cleanupVars, disposeVars, lostRace,
                   ticks>>

\* Faulty: the RecentUse flag is not masked out of the status.
DisposesUnused(e) == ~disposing[e] /\ count[e] = 0 /\ ~recent[e]

\* This closer flipped the Disposing flag, and no caller is counted.
DisposesNow(e) == ~disposing[e] /\ count[e] = 0

\* Whoever flips the flag while nobody is counted disposes the watcher; the
\* others wait for the last caller, or the other closer, to do so.
SetDisposing(k, e) ==
    /\ closing[<<k, e>>] = "flag"
    /\ disposing' = [disposing EXCEPT ![e] = TRUE]
    /\ CloseGoto(k, e, IF DisposesNow(e) THEN "core" ELSE "await")
    /\ UNCHANGED <<resolvers, disposed, timer, callback, count, recent,
                   onDisposed, watcher, used, callerVars, cleanupVars,
                   disposeVars, lostRace, ticks>>

CloserStopsWatcher(k, e) ==
    /\ closing[<<k, e>>] = "core"
    /\ StopWatcher(e)
    /\ CloseGoto(k, e, "set")
    /\ UNCHANGED <<resolvers, disposed, timer, callback, statusVars,
                   onDisposed, used, callerVars, cleanupVars, disposeVars,
                   lostRace, ticks>>

CloserSetsResult(k, e) ==
    /\ closing[<<k, e>>] = "set"
    /\ onDisposed' = [onDisposed EXCEPT ![e] = "set"]
    /\ CloseGoto(k, e, IF SetResultThrows(e) THEN "fault" ELSE "done")
    /\ UNCHANGED <<resolvers, disposed, timer, callback, statusVars, watcher,
                   used, callerVars, cleanupVars, disposeVars, lostRace,
                   ticks>>

AwaitOnDisposed(k, e) ==
    /\ closing[<<k, e>>] = "await"
    /\ onDisposed[e] = "set"
    /\ CloseGoto(k, e, "done")
    /\ UNCHANGED <<resolvers, disposed, timer, callback, entryVars,
                   callerVars, cleanupVars, disposeVars, lostRace, ticks>>

-----------------------------------------------------------------------------
(* The cleanup task.                                                       *)

\* The period elapses: the callback is queued to the thread pool, where
\* disposing the timer no longer stops it.
TimerTick ==
    /\ timer
    /\ ~callback
    /\ ticks < MaxTicks
    /\ ticks' = ticks + 1
    /\ callback' = TRUE
    /\ UNCHANGED <<resolvers, disposed, timer, entryVars, callerVars, closing,
                   cleanupVars, disposeVars, lostRace>>

\* The callback starts a task unless the previous one is still running.
CleanupResolvers ==
    /\ callback
    /\ LockFree
    /\ callback' = FALSE
    /\ IF cleanupAt = "idle"
       THEN cleanupAt' = "scan" /\ cleanupTodo' = Name
       ELSE UNCHANGED <<cleanupAt, cleanupTodo>>
    /\ UNCHANGED <<resolvers, disposed, timer, entryVars, callerVars, closing,
                   cleanupName, cleanupEntry, disposeVars, lostRace, ticks>>

\* The calls of DisposeAsync run on the task's thread up to their first await.
CleanupIsBusy ==
    \E e \in Entry : closing[<<"cleanup", e>>] \in {"create", "flag", "core"}

\* The enumeration of a ConcurrentDictionary takes no lock: each name is
\* visited in the state it has at that moment.
CleanupVisit(n) ==
    /\ cleanupAt = "scan"
    /\ ~CleanupIsBusy
    /\ n \in cleanupTodo
    /\ cleanupAt' = IF resolvers[n] = NoEntry THEN "scan" ELSE "expire"
    /\ cleanupTodo' = cleanupTodo \ {n}
    /\ cleanupName' = n
    /\ cleanupEntry' = resolvers[n]
    /\ UNCHANGED <<resolvers, disposed, timer, callback, entryVars,
                   callerVars, closing, disposeVars, lostRace, ticks>>

\* Clears the RecentUse flag; an entry can expire when the flag was not set
\* and nobody is counted.
CanExpire ==
    /\ cleanupAt = "expire"
    /\ recent' = [recent EXCEPT ![cleanupEntry] = FALSE]
    /\ cleanupAt' = IF count[cleanupEntry] = 0 /\ ~recent[cleanupEntry]
                    THEN "remove" ELSE "scan"
    /\ used' = used \ {e \in {cleanupEntry} :
                        \A c \in Caller : pc[c] \in UsingStep => entry[c] # e}
    /\ UNCHANGED <<resolvers, disposed, timer, callback, count, disposing,
                   onDisposed, watcher, callerVars, closing, cleanupTodo,
                   cleanupName, cleanupEntry, disposeVars, lostRace, ticks>>

\* Faulty: the entry is removed and not disposed.
ForgetResolver ==
    /\ cleanupAt = "remove"
    /\ cleanupAt' = "scan"
    /\ resolvers' = [resolvers EXCEPT ![cleanupName] = NoEntry]
    /\ UNCHANGED <<disposed, timer, callback, entryVars, callerVars, closing,
                   cleanupTodo, cleanupName, cleanupEntry, disposeVars,
                   lostRace, ticks>>

\* TryRemove is by name: it removes whatever entry the name has by now.
ExpireResolver ==
    /\ cleanupAt = "remove"
    /\ cleanupAt' = "scan"
    /\ IF resolvers[cleanupName] = NoEntry
       THEN UNCHANGED <<resolvers, closing>>
       ELSE /\ resolvers' = [resolvers EXCEPT ![cleanupName] = NoEntry]
            /\ CloseGoto("cleanup", cleanupEntry, "create")
    /\ UNCHANGED <<disposed, timer, callback, entryVars, callerVars,
                   cleanupTodo, cleanupName, cleanupEntry, disposeVars,
                   lostRace, ticks>>

CleanupScanned ==
    /\ cleanupAt = "scan"
    /\ ~CleanupIsBusy
    /\ cleanupTodo = {}
    /\ cleanupAt' = "whenAll"
    /\ UNCHANGED <<resolvers, disposed, timer, callback, entryVars,
                   callerVars, closing, cleanupTodo, cleanupName,
                   cleanupEntry, disposeVars, lostRace, ticks>>

\* Task.WhenAll completes when every call has, with or without an exception.
CleanupCompletes ==
    /\ cleanupAt = "whenAll"
    /\ \A e \in Entry : closing[<<"cleanup", e>>] \in {"none", "done", "fault"}
    /\ cleanupAt' = "idle"
    /\ UNCHANGED <<resolvers, disposed, timer, callback, entryVars,
                   callerVars, closing, cleanupTodo, cleanupName,
                   cleanupEntry, disposeVars, lostRace, ticks>>

-----------------------------------------------------------------------------
(* ServiceEndpointResolver.DisposeAsync.                                   *)

DisposeBegin ==
    /\ disposeAt = "idle"
    /\ LockFree
    /\ disposed' = TRUE
    /\ timer' = FALSE
    /\ disposeAt' = "scan"
    /\ disposeTodo' = Name
    /\ UNCHANGED <<resolvers, callback, entryVars, callerVars, closing,
                   cleanupVars, disposeEntry, lostRace, ticks>>

DisposeVisit(n) ==
    /\ disposeAt = "scan"
    /\ n \in disposeTodo
    /\ disposeTodo' = disposeTodo \ {n}
    /\ IF resolvers[n] = NoEntry
       THEN UNCHANGED <<closing, disposeAt, disposeEntry>>
       ELSE /\ disposeAt' = "wait"
            /\ disposeEntry' = resolvers[n]
            /\ CloseGoto("dispose", resolvers[n], "create")
    /\ UNCHANGED <<resolvers, disposed, timer, callback, entryVars,
                   callerVars, cleanupVars, lostRace, ticks>>

\* An exception of the entry's DisposeAsync ends DisposeAsync.
DisposeAwait ==
    /\ disposeAt = "wait"
    /\ \/ closing[<<"dispose", disposeEntry>>] = "done" /\ disposeAt' = "scan"
       \/ closing[<<"dispose", disposeEntry>>] = "fault" /\ disposeAt' = "fault"
    /\ UNCHANGED <<resolvers, disposed, timer, callback, entryVars,
                   callerVars, closing, cleanupVars, disposeTodo,
                   disposeEntry, lostRace, ticks>>

DisposeClear ==
    /\ disposeAt = "scan"
    /\ disposeTodo = {}
    /\ resolvers' = [n \in Name |-> NoEntry]
    /\ disposeAt' = "join"
    /\ UNCHANGED <<disposed, timer, callback, entryVars, callerVars, closing,
                   cleanupVars, disposeTodo, disposeEntry, lostRace, ticks>>

\* _cleanupTask is awaited; its exceptions are suppressed.  It is assigned when
\* the task comes to its first await: while the dictionary is enumerated the
\* field holds null or the previous task, which has completed.
DisposeEnd ==
    /\ disposeAt = "join"
    /\ cleanupAt # "whenAll"
    /\ disposeAt' = "done"
    /\ UNCHANGED <<resolvers, disposed, timer, callback, entryVars,
                   callerVars, closing, cleanupVars, disposeTodo,
                   disposeEntry, lostRace, ticks>>

-----------------------------------------------------------------------------
\* What a caller does by itself once it has called.
CallerProgress(c) ==
    \/ EnsureCleanupTimerStarted(c)
    \/ LoopCheck(c)
    \/ Lookup(c)
    \/ CreateResolver(c)
    \/ AddResolver(c)
    \/ Increment(c)
    \/ Resolve(c)
    \/ SetRecentUse(c)
    \/ Decrement(c)
    \/ CallerStopsWatcher(c)
    \/ CallerSetsResult(c)
    \/ Return(c)

CloserProgress(k, e) ==
    \/ CreateOnDisposed(k, e)
    \/ SetDisposing(k, e)
    \/ CloserStopsWatcher(k, e)
    \/ CloserSetsResult(k, e)
    \/ AwaitOnDisposed(k, e)

CleanupProgress ==
    \/ CleanupResolvers
    \/ \E n \in Name : CleanupVisit(n)
    \/ CanExpire
    \/ ExpireResolver
    \/ CleanupScanned
    \/ CleanupCompletes

DisposeProgress ==
    \/ \E n \in Name : DisposeVisit(n)
    \/ DisposeAwait
    \/ DisposeClear
    \/ DisposeEnd

Next ==
    \/ \E c \in Caller, n \in Name : Call(c, n)
    \/ \E c \in Caller : CallerProgress(c)
    \/ \E k \in Closer, e \in Entry : CloserProgress(k, e)
    \/ TimerTick
    \/ CleanupProgress
    \/ DisposeBegin
    \/ DisposeProgress

Spec == Init /\ [][Next]_vars

\* Running threads are scheduled: each caller, each task that the cleanup
\* collects and awaits, the cleanup itself, and DisposeAsync, which disposes
\* one entry after the other.  Nobody has to call, to dispose, or to let the
\* timer expire.
Fairness ==
    /\ \A c \in Caller : WF_vars(CallerProgress(c))
    /\ \A e \in Entry : WF_vars(CloserProgress("cleanup", e))
    /\ WF_vars(CleanupProgress)
    /\ WF_vars(DisposeProgress \/ \E e \in Entry : CloserProgress("dispose", e))

FairSpec == Spec /\ Fairness

-----------------------------------------------------------------------------
(* Properties.                                                             *)

\* "We ensure that it will not be disposed while we are resolving"
\* (ServiceEndpointResolver.cs:198): while a caller awaits the watcher, no
\* closer and no other caller has disposed it.
NotDisposedWhileResolving ==
    \A c \in Caller : pc[c] = "resolving" => watcher[entry[c]] = "started"

\* Debug.Assert(_onDisposed is not null) in DisposeAsyncCore, whichever
\* thread runs it: the flag that lets a caller dispose is set only after the
\* completion source exists.
OnDisposedExists ==
    /\ \A c \in Caller :
          pc[c] \in {"core", "set"} => onDisposed[entry[c]] # "null"
    /\ \A k \in Closer, e \in Entry :
          closing[<<k, e>>] \in {"core", "set"} => onDisposed[e] # "null"

\* Between two visits of the cleanup, an entry that was in use is protected
\* at every instant, by its count or by the RecentUse flag: there is no gap
\* in the finally block in which CanExpire would find neither.
RecentUseKept ==
    \A e \in used : count[e] > 0 \/ recent[e]

InDictionary(e) == \E n \in Name : resolvers[n] = e
Held(e) == \E c \in Caller : entry[c] = e /\ pc[c] = "add"
BeingClosed(e) ==
    \E k \in Closer : closing[<<k, e>>] \notin {"none", "done", "fault"}

\* Before DisposeAsync, a started watcher that is neither reachable through
\* the dictionary, nor about to be added, nor on its way to be disposed, is
\* one that lost the race in GetOrAdd.  In particular the cleanup task, which
\* removes by name, never drops an entry other than the one it disposes.
LeaksOnlyRaceLosers ==
    ~disposed =>
       \A e \in Entry : watcher[e] = "started" =>
           InDictionary(e) \/ Held(e) \/ BeingClosed(e) \/ e \in lostRace

\* "dispose the resolver now. DisposeAsync was prevented by concurrent
\* requests." (ServiceEndpointResolver.cs:212-213) and "Concurrent requests
\* are prevented from starting by the Disposing flag." (232-233): exactly one
\* thread disposes an entry, so SetResult never meets a completed task.
DisposedOnce ==
    /\ \A c \in Caller : pc[c] = "set" => onDisposed[entry[c]] = "pending"
    /\ \A k \in Closer, e \in Entry :
          closing[<<k, e>>] = "set" => onDisposed[e] = "pending"

\* A call to GetEndpointsAsync ends: no caller waits for a closer, and the
\* loop is left once the cleanup stops expiring the entries it finds.
CallReturns == \A c \in Caller : pc[c] # "idle" ~> pc[c] = "idle"

\* An entry whose Disposing flag was set while callers were using it is
\* disposed by the last of them, and everyone who awaits that is released.
DisposingEntryStops ==
    \A e \in Entry : disposing[e] ~>
        watcher[e] = "stopped" /\ \A k \in Closer : closing[<<k, e>>] # "await"

\* DisposeAsync terminates, normally or with the exception of an entry.
DisposeTerminates == disposed ~> disposeAt \in {"done", "fault"}
=============================================================================
