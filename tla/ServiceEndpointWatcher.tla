------------------------ MODULE ServiceEndpointWatcher ------------------------
(***************************************************************************)
(* ServiceEndpointWatcher keeps the endpoints of one service in a cache.   *)
(* A refresh, of which at most one runs at a time, asks the providers,     *)
(* registers for the change token of what they returned (or, when there is *)
(* none, schedules a one-shot polling timer), notifies OnEndpointsUpdated  *)
(* and publishes the result.  Refreshes are started by Start, by callers   *)
(* of GetEndpointsAsync, by the change token and by the timer.             *)
(*                                                                         *)
(* What the providers know is abstracted to a version number, world, and a *)
(* set of endpoints to the version it was built from.                      *)
(***************************************************************************)
EXTENDS Integers

CONSTANTS
    Caller,       \* threads that call GetEndpointsAsync
    Refresh,      \* identities of the tasks of RefreshAsyncInternal
    Active,       \* the versions whose change token calls back when it fires
    MaxChanges,   \* bound: changes of the providers' data
    MaxFailures,  \* bound: refreshes that fail
    MaxPolls      \* bound: expirations of the polling timer

ASSUME RefreshAssumption ==
    Refresh # {} /\ {"free", "dispose"} \cap Refresh = {}
ASSUME BoundsAssumption ==
    MaxChanges \in Nat /\ MaxFailures \in Nat /\ MaxPolls \in Nat

Version == 0 .. MaxChanges
None == -1    \* a null reference
Failed == -2  \* the new endpoints of a refresh that threw

ASSUME TokenAssumption == Active \subseteq Version

VARIABLES
    world,      \* the version the providers would return now
    started,    \* Start has been called
    cancelled,  \* _disposalCancellation.IsCancellationRequested
    lock,       \* "free", or who holds _lock across a blocking call
    cached,     \* _cachedEndpoints
    cacheState, \* _cacheState
    registered, \* _changeTokenRegistration: the version of its token
    calling,    \* the callback of registered is running and has not got _lock
    timer,      \* _pollingTimer is "null", "armed" or "expired"
    poll,       \* an expired timer's callback has not got _lock yet
    task,       \* _refreshTask
    refresh,    \* the next step of each task, "done" when it IsCompleted
    snapshot,   \* newEndpoints of each task
    notified,   \* the last version passed to OnEndpointsUpdated
    pc,         \* the next step of each caller
    awaits,     \* the task a caller awaits
    disposeAt,  \* the next step of DisposeAsync
    failures, polls \* counters for the bounds

counters == <<failures, polls>>
cacheVars == <<cached, cacheState>>
tokenVars == <<registered, calling, timer, poll>>
refreshVars == <<task, refresh, snapshot, notified>>
callerVars == <<pc, awaits>>
vars == <<world, started, cancelled, lock, cacheVars, tokenVars, refreshVars,
          callerVars, disposeAt, counters>>

TypeOK ==
    /\ world \in Version
    /\ started \in BOOLEAN
    /\ cancelled \in BOOLEAN
    /\ lock \in {"free", "dispose"} \cup Refresh
    /\ cached \in Version \cup {None}
    /\ cacheState \in {"Invalid", "Refreshing", "Valid"}
    /\ registered \in Version \cup {None}
    /\ calling \in BOOLEAN
    /\ timer \in {"null", "armed", "expired"}
    /\ poll \in BOOLEAN
    /\ task \in Refresh
    /\ refresh \in [Refresh -> {"done", "start", "populate", "register",
                                "failed", "invalidate", "notify", "publish",
                                "complete"}]
    /\ snapshot \in [Refresh -> Version \cup {None, Failed}]
    /\ notified \in Version \cup {None}
    /\ pc \in [Caller -> {"idle", "check", "lock", "wait", "read"}]
    /\ awaits \in [Caller -> Refresh \cup {None}]
    /\ disposeAt \in {"idle", "lock", "await", "done"}
    /\ failures \in 0 .. MaxFailures
    /\ polls \in 0 .. MaxPolls

Init ==
    /\ world = 0
    /\ started = FALSE
    /\ cancelled = FALSE
    /\ lock = "free"
    /\ cached = None
    /\ cacheState = "Invalid"
    /\ registered = None
    /\ calling = FALSE
    /\ timer = "null"
    /\ poll = FALSE
    /\ task \in Refresh
    /\ refresh = [t \in Refresh |-> "done"]
    /\ snapshot = [t \in Refresh |-> None]
    /\ notified = None
    /\ pc = [c \in Caller |-> "idle"]
    /\ awaits = [c \in Caller |-> None]
    /\ disposeAt = "idle"
    /\ failures = 0
    /\ polls = 0

-----------------------------------------------------------------------------
(* RefreshAsync(force), inside _lock.                                      *)
(* Definitions marked "Faulty" are plausible mistakes in the definition    *)
(* that follows them; the runs show which property notices each.           *)

\* ChangeToken.HasChanged of endpoints of version v.
HasChanged(v) == v \in Active /\ v < world

\* Faulty: a refresh is started while another one is running.
RefreshNeededAnyway(force) ==
    /\ ~cancelled
    /\ cacheState = "Invalid" \/ cached = None \/ HasChanged(cached) \/ force

RefreshNeeded(force) ==
    /\ ~cancelled
    /\ refresh[task] = "done"
    /\ cacheState = "Invalid" \/ cached = None \/ HasChanged(cached) \/ force

\* A new task replaces _refreshTask; task identities are used again.
RefreshAsync(force) ==
    IF RefreshNeeded(force)
    THEN /\ cacheState' = "Refreshing"
         /\ \E t \in Refresh \ {task} :
               /\ refresh[t] = "done"
               /\ task' = t
               /\ refresh' = [refresh EXCEPT ![t] = "start"]
               /\ snapshot' = [snapshot EXCEPT ![t] = None]
    ELSE UNCHANGED <<cacheState, task, refresh, snapshot>>

Start ==
    /\ ~started
    /\ lock = "free"
    /\ started' = TRUE
    /\ RefreshAsync(FALSE)
    /\ UNCHANGED <<world, cancelled, lock, cached, tokenVars, notified,
                   callerVars, disposeAt, counters>>

-----------------------------------------------------------------------------
(* The environment: the providers' data changes, tokens and timers fire.   *)

\* The token of what the providers returned before has changed from now on.
Change ==
    /\ world < MaxChanges
    /\ world' = world + 1
    /\ UNCHANGED <<started, cancelled, lock, cacheVars, tokenVars,
                   refreshVars, callerVars, disposeAt, counters>>

\* A token that has changed runs the callback of its registration, on a thread
\* of its own, unless the registration is disposed before.
TokenCallsBack ==
    /\ registered # None
    /\ registered < world
    /\ ~calling
    /\ calling' = TRUE
    /\ UNCHANGED <<world, started, cancelled, lock, cacheVars, registered,
                   timer, poll, refreshVars, callerVars, disposeAt, counters>>

\* The callback gets _lock.  A registration calls back once: it is spent, and
\* disposing it does nothing, as if it were null.
ChangeTokenCallback ==
    /\ calling
    /\ lock = "free"
    /\ calling' = FALSE
    /\ registered' = None
    /\ RefreshAsync(FALSE)
    /\ UNCHANGED <<world, started, cancelled, lock, cached, timer, poll,
                   notified, callerVars, disposeAt, counters>>

PollingTimerExpires ==
    /\ timer = "armed"
    /\ ~poll
    /\ polls < MaxPolls
    /\ timer' = "expired"
    /\ poll' = TRUE
    /\ polls' = polls + 1
    /\ UNCHANGED <<world, started, cancelled, lock, cacheVars, registered,
                   calling, refreshVars, callerVars, disposeAt, failures>>

PollingAction ==
    /\ poll
    /\ lock = "free"
    /\ poll' = FALSE
    /\ RefreshAsync(TRUE)
    /\ UNCHANGED <<world, started, cancelled, lock, cached, registered,
                   calling, timer, notified, callerVars, disposeAt,
                   counters>>

-----------------------------------------------------------------------------
(* RefreshAsyncInternal, as task t.                                        *)

Goto(t, step) == refresh' = [refresh EXCEPT ![t] = step]

\* Disposing the registration, inside _lock.  The token is a CompositeChangeToken
\* and its registration a CancellationTokenRegistration, whose Dispose waits
\* for a callback that is running.  That callback waits for _lock.
Unregister(who) ==
    IF calling
    THEN lock' = who /\ UNCHANGED registered
    ELSE registered' = None /\ UNCHANGED lock

RefreshBegins(t) ==
    /\ refresh[t] = "start"
    /\ lock = "free"
    /\ Unregister(t)
    /\ Goto(t, "populate")
    /\ UNCHANGED <<world, started, cancelled, cacheVars, calling, timer,
                   poll, task, snapshot, notified, callerVars, disposeAt,
                   counters>>

\* The providers are asked, unless the watcher is being disposed.
Populate(t) ==
    /\ refresh[t] = "populate"
    /\ lock # t
    /\ ~cancelled
    /\ snapshot' = [snapshot EXCEPT ![t] = world]
    /\ Goto(t, "register")
    /\ UNCHANGED <<world, started, cancelled, lock, cacheVars, tokenVars,
                   task, notified, callerVars, disposeAt, counters>>

PopulateThrows(t) ==
    /\ refresh[t] = "populate"
    /\ lock # t
    /\ \/ cancelled /\ UNCHANGED failures
       \/ failures < MaxFailures /\ failures' = failures + 1
    /\ snapshot' = [snapshot EXCEPT ![t] = Failed]
    /\ Goto(t, "failed")
    /\ UNCHANGED <<world, started, cancelled, lock, cacheVars, tokenVars,
                   task, notified, callerVars, disposeAt, polls>>

\* Faulty: the timer is armed after disposal.
AlwaysSchedulePollingTimer == timer' = "armed"

SchedulePollingTimer == timer' = IF cancelled THEN "null" ELSE "armed"

\* A token that has changed before the registration calls back at once, on this
\* thread, where RefreshAsync finds the refresh running and does nothing, and
\* returns an empty registration.
Register(t) ==
    /\ refresh[t] = "register"
    /\ lock = "free"
    /\ IF snapshot[t] \in Active
       THEN /\ registered' = IF snapshot[t] < world THEN None ELSE snapshot[t]
            /\ timer' = "null"
       ELSE SchedulePollingTimer /\ UNCHANGED registered
    /\ Goto(t, "invalidate")
    /\ UNCHANGED <<world, started, cancelled, lock, cacheVars, calling,
                   poll, task, snapshot, notified, callerVars, disposeAt,
                   counters>>

\* Faulty: a failed refresh starts over.
RefreshRetries(t) ==
    /\ refresh[t] = "failed"
    /\ lock = "free"
    /\ SchedulePollingTimer
    /\ Goto(t, "start")
    /\ UNCHANGED <<world, started, cancelled, lock, cacheVars, registered,
                   calling, poll, task, snapshot, notified, callerVars,
                   disposeAt, counters>>

RefreshFails(t) ==
    /\ refresh[t] = "failed"
    /\ lock = "free"
    /\ SchedulePollingTimer
    /\ Goto(t, "notify")
    /\ UNCHANGED <<world, started, cancelled, lock, cacheVars, registered,
                   calling, poll, task, snapshot, notified, callerVars,
                   disposeAt, counters>>

\* Faulty: the cache is not invalidated before the callback.
KeepCache == cached' = cached

\* Interlocked.Exchange(ref _cachedEndpoints, null)
ClearCache == cached' = None

Invalidate(t) ==
    /\ refresh[t] = "invalidate"
    /\ ClearCache
    /\ Goto(t, "notify")
    /\ UNCHANGED <<world, started, cancelled, lock, cacheState, tokenVars,
                   task, snapshot, notified, callerVars, disposeAt, counters>>

Notify(t) ==
    /\ refresh[t] = "notify"
    /\ notified' = IF snapshot[t] = Failed THEN notified ELSE snapshot[t]
    /\ Goto(t, "publish")
    /\ UNCHANGED <<world, started, cancelled, lock, cacheVars, tokenVars,
                   task, snapshot, callerVars, disposeAt, counters>>

\* Faulty: the result is published without looking at the new cache state.
PublishedAnyway(t) == snapshot[t]

Published(t) == IF snapshot[t] = Failed THEN cached ELSE snapshot[t]

Publish(t) ==
    /\ refresh[t] = "publish"
    /\ lock = "free"
    /\ cached' = Published(t)
    /\ cacheState' = IF snapshot[t] = Failed THEN "Invalid" ELSE "Valid"
    /\ Goto(t, "complete")
    /\ UNCHANGED <<world, started, cancelled, lock, tokenVars, task, snapshot,
                   notified, callerVars, disposeAt, counters>>

\* Faulty: a failed refresh does not complete the task.
ReleasedOnSuccess(t) == IF snapshot[t] = Failed THEN "wait" ELSE "read"

\* Awaiting a completed task goes on, or rethrows its exception.
Released(t) == IF snapshot[t] = Failed THEN "idle" ELSE "read"

RefreshCompletes(t) ==
    /\ refresh[t] = "complete"
    /\ Goto(t, "done")
    /\ snapshot' = [snapshot EXCEPT ![t] = IF @ = Failed THEN @ ELSE None]
    /\ pc' = [c \in Caller |-> IF awaits[c] = t THEN Released(t) ELSE pc[c]]
    /\ awaits' = [c \in Caller |-> IF awaits[c] = t THEN None ELSE awaits[c]]
    /\ UNCHANGED <<world, started, cancelled, lock, cacheVars, tokenVars,
                   task, notified, disposeAt, counters>>

-----------------------------------------------------------------------------
(* GetEndpointsAsync.                                                      *)

\* A disposed watcher throws; a cached value that has not changed is returned.
GetEndpointsAsync(c) ==
    /\ pc[c] = "idle"
    /\ started
    /\ ~cancelled
    /\ cached = None \/ HasChanged(cached)
    /\ pc' = [pc EXCEPT ![c] = "check"]
    /\ UNCHANGED <<world, started, cancelled, lock, cacheVars, tokenVars,
                   refreshVars, awaits, disposeAt, counters>>

\* The head of the loop throws when the watcher is disposed.
LoopCheck(c) ==
    /\ pc[c] = "check"
    /\ pc' = [pc EXCEPT ![c] = IF cancelled THEN "idle" ELSE "lock"]
    /\ UNCHANGED <<world, started, cancelled, lock, cacheVars, tokenVars,
                   refreshVars, awaits, disposeAt, counters>>

\* The task RefreshAsync returns is awaited unless it has completed.
AwaitRefresh(c) ==
    /\ pc[c] = "lock"
    /\ lock = "free"
    /\ RefreshAsync(FALSE)
    /\ IF refresh'[task'] = "done"
       THEN pc' = [pc EXCEPT ![c] = Released(task')] /\ UNCHANGED awaits
       ELSE /\ pc' = [pc EXCEPT ![c] = "wait"]
            /\ awaits' = [awaits EXCEPT ![c] = task']
    /\ UNCHANGED <<world, started, cancelled, lock, cached, tokenVars,
                   notified, disposeAt, counters>>

\* WaitAsync throws when the caller's token is cancelled.
CallerCancels(c) ==
    /\ pc[c] = "wait"
    /\ pc' = [pc EXCEPT ![c] = "idle"]
    /\ awaits' = [awaits EXCEPT ![c] = None]
    /\ UNCHANGED <<world, started, cancelled, lock, cacheVars, tokenVars,
                   refreshVars, disposeAt, counters>>

ReadCached(c) ==
    /\ pc[c] = "read"
    /\ pc' = [pc EXCEPT ![c] = IF cached = None THEN "check" ELSE "idle"]
    /\ UNCHANGED <<world, started, cancelled, lock, cacheVars, tokenVars,
                   refreshVars, awaits, disposeAt, counters>>

-----------------------------------------------------------------------------
(* DisposeAsync.                                                           *)

DisposeCancels ==
    /\ disposeAt = "idle"
    /\ started
    /\ cancelled' = TRUE
    /\ disposeAt' = "lock"
    /\ UNCHANGED <<world, started, lock, cacheVars, tokenVars, refreshVars,
                   callerVars, counters>>

DisposeTimer ==
    /\ disposeAt = "lock"
    /\ lock = "free"
    /\ Unregister("dispose")
    /\ timer' = IF lock' = "free" THEN "null" ELSE timer
    /\ disposeAt' = "await"
    /\ UNCHANGED <<world, started, cancelled, cacheVars, calling, poll,
                   refreshVars, callerVars, counters>>

\* The refresh task is awaited, then the providers are disposed.
DisposeAwaits ==
    /\ disposeAt = "await"
    /\ lock # "dispose"
    /\ refresh[task] = "done"
    /\ disposeAt' = "done"
    /\ UNCHANGED <<world, started, cancelled, lock, cacheVars, tokenVars,
                   refreshVars, callerVars, counters>>

-----------------------------------------------------------------------------
RefreshProgress(t) ==
    \/ RefreshBegins(t)
    \/ Populate(t)
    \/ PopulateThrows(t)
    \/ Register(t)
    \/ RefreshFails(t)
    \/ Invalidate(t)
    \/ Notify(t)
    \/ Publish(t)
    \/ RefreshCompletes(t)

CallbackProgress ==
    \/ ChangeTokenCallback
    \/ PollingAction

CallerProgress(c) == LoopCheck(c) \/ AwaitRefresh(c) \/ ReadCached(c)

Next ==
    \/ Start
    \/ Change
    \/ TokenCallsBack
    \/ PollingTimerExpires
    \/ CallbackProgress
    \/ \E t \in Refresh : RefreshProgress(t)
    \/ \E c \in Caller : \/ GetEndpointsAsync(c)
                         \/ CallerProgress(c)
                         \/ CallerCancels(c)
    \/ DisposeCancels
    \/ DisposeTimer
    \/ DisposeAwaits

Spec == Init /\ [][Next]_vars

\* Running threads and queued calling are scheduled.  Nothing has to
\* change, nobody has to call, give up or dispose.
Fairness ==
    /\ \A t \in Refresh : WF_vars(RefreshProgress(t))
    /\ WF_vars(TokenCallsBack)
    /\ WF_vars(CallbackProgress)
    /\ \A c \in Caller : WF_vars(CallerProgress(c))
    /\ WF_vars(DisposeTimer)
    /\ WF_vars(DisposeAwaits)

FairSpec == Spec /\ Fairness

-----------------------------------------------------------------------------
(* Properties.                                                             *)

\* "To ensure coherence between the value returned by calls made to
\* GetEndpointsAsync and value passed to the callback"
\* (ServiceEndpointWatcher.cs:188-191): at no moment can a caller read, from
\* the cache, endpoints older than those the callback was given.
Coherence == cached # None => cached >= notified

\* The callback is never given older endpoints than before: refreshes do not
\* overlap, whichever of the caller, the token and the timer started them.
NotifiedInOrder == [][notified' >= notified]_vars

\* When DisposeAsync has completed there is no timer and no refresh left, and
\* no callback that arrives late starts one.
QuietAfterDispose ==
    disposeAt = "done" =>
       timer = "null" /\ \A t \in Refresh : refresh[t] = "done"

\* "Wait for the cache refresh to complete and return the cached value."
\* (ServiceEndpointWatcher.cs:74): a call of GetEndpointsAsync ends, if the
\* watcher is not disposed meanwhile.
CallReturns == \A c \in Caller : pc[c] # "idle" ~> pc[c] = "idle" \/ cancelled

\* Nothing but a registration disposed while its callback waits for _lock keeps
\* a call of GetEndpointsAsync from ending: it is not left behind by a refresh
\* that fails, is disposed of, or completes just as the call looks at it.
CallReturnsOrLockBlocks ==
    \A c \in Caller : pc[c] # "idle" ~> pc[c] = "idle" \/ lock # "free"

\* In the same way DisposeAsync ends, whatever it finds running.
DisposeEndsOrLockBlocks == cancelled ~> disposeAt = "done" \/ lock # "free"

\* "Initiate a background refresh when the change token fires."
\* (ServiceEndpointWatcher.cs:161): what the callback was given catches up
\* with a change of the providers' data, unless the watcher is disposed, a
\* refresh fails or the disposal of a registration blocks.
ChangeIsRefreshed ==
    \A v \in Version :
       started /\ world = v ~>
          notified >= v \/ cancelled \/ failures > 0 \/ lock # "free"
=============================================================================
