--------------------- MODULE ServiceEndpointWatcher_proofs ---------------------
(***************************************************************************)
(* The safety properties of ServiceEndpointWatcher for any callers, any    *)
(* tokens and any number of changes, failures and polls.                   *)
(***************************************************************************)
EXTENDS ServiceEndpointWatcher, TLAPS

-----------------------------------------------------------------------------
(* The inductive invariant.                                                *)

\* Refreshes do not overlap: only _refreshTask may be running.
OneRefresh == \A t \in Refresh : t # task => refresh[t] = "done"

\* The result a running refresh has, by the step it has come to.
ResultKnown ==
    \A t \in Refresh :
       /\ refresh[t] \in {"register", "invalidate"} => snapshot[t] \in Version
       /\ refresh[t] = "failed" => snapshot[t] = Failed
       /\ refresh[t] \in {"notify", "publish", "complete"} =>
             snapshot[t] \in Version \cup {Failed}

\* Nothing is newer than what the providers know.
FromTheProviders ==
    /\ notified <= world
    /\ \A t \in Refresh : snapshot[t] <= world

\* Until it is published, a result is at least as new as what the callback
\* has been given.
NotOlderThanNotified ==
    \A t \in Refresh :
       /\ refresh[t] \in {"register", "invalidate", "notify", "publish"}
       /\ snapshot[t] # Failed
       => notified <= snapshot[t]

\* From the invalidation to the publication of a result the cache is empty.
CacheEmpty ==
    \A t \in Refresh :
       refresh[t] \in {"notify", "publish"} /\ snapshot[t] # Failed =>
          cached = None

\* A caller that waits has a task that will release it: no caller was left
\* behind by the completion of the task it awaits.
NobodyLeftBehind ==
    \A c \in Caller :
       pc[c] = "wait" => awaits[c] \in Refresh /\ refresh[awaits[c]] # "done"

\* There is no registration from its disposal to the next one, a registered
\* token is one that calls back, and its callback runs only when it changed.
Registration ==
    /\ \A t \in Refresh :
          refresh[t] \in {"populate", "register"} =>
             lock = t \/ registered = None
    /\ registered # None => registered \in Active
    /\ calling => registered # None /\ registered < world

\* _lock is held across a blocking call only by the disposal of the registration
\* of a token that has changed, whose callback is running and waits for _lock.
BlockedByCallback ==
    lock # "free" => calling /\ HasChanged(registered)

\* Once DisposeAsync has been through its lock region there is no timer, and
\* when it has awaited the refresh there is none.
Disposing ==
    /\ disposeAt # "idle" => cancelled
    /\ disposeAt \in {"await", "done"} /\ lock # "dispose" => timer = "null"
    /\ disposeAt = "done" => lock # "dispose" /\ refresh[task] = "done"

DataInv ==
    /\ OneRefresh
    /\ ResultKnown
    /\ FromTheProviders
    /\ NotOlderThanNotified
    /\ CacheEmpty
    /\ Coherence

ControlInv ==
    /\ NobodyLeftBehind
    /\ Registration
    /\ (lock # "free" => calling)
    /\ Disposing

IInv == TypeOK /\ DataInv /\ ControlInv

-----------------------------------------------------------------------------
(* RefreshAsync.                                                           *)

\* RefreshAsync either starts a task that was done, when none is running, or
\* leaves the tasks alone.
LEMMA RefreshAsyncSteps ==
    ASSUME NEW force, TypeOK, OneRefresh, RefreshAsync(force)
    PROVE  \/ /\ task' = task /\ refresh' = refresh /\ snapshot' = snapshot
              /\ cacheState' = cacheState
           \/ /\ ~cancelled
              /\ cacheState' = "Refreshing"
              /\ \A t \in Refresh : refresh[t] = "done"
              /\ task' \in Refresh
              /\ refresh' = [refresh EXCEPT ![task'] = "start"]
              /\ snapshot' = [snapshot EXCEPT ![task'] = None]
<1>1. CASE ~RefreshNeeded(force)
  BY <1>1 DEF RefreshAsync
<1>2. CASE RefreshNeeded(force)
  <2>1. ~cancelled /\ \A t \in Refresh : refresh[t] = "done"
    BY <1>2 DEF RefreshNeeded, OneRefresh, TypeOK
  <2> QED BY <1>2, <2>1 DEF RefreshAsync
<1> QED BY <1>1, <1>2

\* RefreshAsync preserves the types of what it assigns.
LEMMA RefreshAsyncType ==
    ASSUME NEW force, TypeOK, RefreshAsync(force)
    PROVE  /\ cacheState' \in {"Invalid", "Refreshing", "Valid"}
           /\ task' \in Refresh
           /\ refresh' \in [Refresh -> {"done", "start", "populate", "register",
                                        "failed", "invalidate", "notify",
                                        "publish", "complete"}]
           /\ snapshot' \in [Refresh -> Version \cup {None, Failed}]
<1>1. CASE ~RefreshNeeded(force)
  BY <1>1 DEF RefreshAsync, TypeOK
<1>2. CASE RefreshNeeded(force)
  BY <1>2 DEF RefreshAsync, TypeOK
<1> QED BY <1>1, <1>2

\* RefreshAsync preserves the relations between versions.
LEMMA RefreshAsyncData ==
    ASSUME NEW force, TypeOK, DataInv, RefreshAsync(force),
           world' = world, notified' = notified, cached' = cached
    PROVE  DataInv'
<1> USE BoundsAssumption DEF DataInv, None
<1>1. CASE task' = task /\ refresh' = refresh /\ snapshot' = snapshot
  BY <1>1 DEF OneRefresh, ResultKnown, FromTheProviders,
     NotOlderThanNotified, CacheEmpty, Coherence
<1>2. CASE /\ \A t \in Refresh : refresh[t] = "done"
           /\ task' \in Refresh
           /\ refresh' = [refresh EXCEPT ![task'] = "start"]
           /\ snapshot' = [snapshot EXCEPT ![task'] = None]
  <2>1. \A t \in Refresh : refresh'[t] = IF t = task' THEN "start" ELSE "done"
    BY <1>2 DEF TypeOK
  <2>2. \A t \in Refresh : snapshot'[t] = IF t = task' THEN None ELSE snapshot[t]
    BY <1>2 DEF TypeOK
  <2>3. OneRefresh' /\ ResultKnown' /\ NotOlderThanNotified' /\ CacheEmpty'
    BY <2>1 DEF OneRefresh, ResultKnown, NotOlderThanNotified, CacheEmpty
  <2>4. FromTheProviders'
    BY <2>2 DEF FromTheProviders, TypeOK, Version
  <2>5. Coherence'
    BY DEF Coherence
  <2> QED BY <2>3, <2>4, <2>5
<1> QED BY <1>1, <1>2, RefreshAsyncSteps

-----------------------------------------------------------------------------
(* Types.                                                                  *)

\* The Boolean variables, which the proofs treat apart from the others.
Flags ==
    /\ started \in BOOLEAN
    /\ cancelled \in BOOLEAN
    /\ poll \in BOOLEAN
    /\ calling \in BOOLEAN

\* Every step preserves the types of the Boolean variables.
LEMMA FlagsStep ==
    ASSUME TypeOK, Next
    PROVE  Flags'
<1> USE Zenon DEF TypeOK, Flags, counters, cacheVars, tokenVars, refreshVars
<1>1. ASSUME Start PROVE Flags'
  BY <1>1 DEF Start
<1>2. ASSUME Change \/ TokenCallsBack PROVE Flags'
  BY <1>2 DEF Change, TokenCallsBack
<1>3. ASSUME PollingTimerExpires PROVE Flags'
  BY <1>3 DEF PollingTimerExpires
<1>4. ASSUME CallbackProgress PROVE Flags'
  BY <1>4 DEF CallbackProgress, ChangeTokenCallback, PollingAction
<1>5. ASSUME NEW t \in Refresh, RefreshProgress(t) PROVE Flags'
  <2> USE DEF RefreshBegins, Populate, PopulateThrows, Register, RefreshFails,
              Invalidate, Notify, Publish, RefreshCompletes
  <2> QED BY <1>5 DEF RefreshProgress
<1>6. ASSUME NEW c \in Caller,
             GetEndpointsAsync(c) \/ CallerProgress(c) \/ CallerCancels(c)
      PROVE  Flags'
  BY <1>6 DEF CallerProgress, GetEndpointsAsync, LoopCheck, AwaitRefresh,
     ReadCached, CallerCancels
<1>7. ASSUME DisposeCancels \/ DisposeTimer \/ DisposeAwaits PROVE Flags'
  BY <1>7 DEF DisposeCancels, DisposeTimer, DisposeAwaits
<1> QED BY <1>1, <1>2, <1>3, <1>4, <1>5, <1>6, <1>7 DEF Next

\* Every step preserves the types.
LEMMA TypeStep ==
    ASSUME TypeOK, Next
    PROVE  TypeOK'
<1> USE FlagsStep, BoundsAssumption, TokenAssumption
    DEF TypeOK, Flags, counters, cacheVars, tokenVars, refreshVars, callerVars
<1>1. ASSUME Start PROVE TypeOK'
  BY <1>1, RefreshAsyncType DEF Start
<1>2. ASSUME Change \/ TokenCallsBack PROVE TypeOK'
  BY <1>2 DEF Change, TokenCallsBack, Version
<1>3. ASSUME PollingTimerExpires PROVE TypeOK'
  BY <1>3 DEF PollingTimerExpires
<1>4. ASSUME ChangeTokenCallback PROVE TypeOK'
  BY <1>4, RefreshAsyncType DEF ChangeTokenCallback
<1>5. ASSUME PollingAction PROVE TypeOK'
  BY <1>5, RefreshAsyncType DEF PollingAction
<1>6. ASSUME NEW t \in Refresh, RefreshProgress(t) PROVE TypeOK'
  <2> USE DEF Goto
  <2>1. CASE RefreshBegins(t)
    BY <2>1 DEF RefreshBegins, Unregister
  <2>2. CASE Populate(t)
    BY <2>2 DEF Populate
  <2>3. CASE PopulateThrows(t)
    BY <2>3 DEF PopulateThrows
  <2>4. CASE Register(t)
    BY <2>4 DEF Register, SchedulePollingTimer
  <2>5. CASE RefreshFails(t)
    BY <2>5 DEF RefreshFails, SchedulePollingTimer
  <2>6. CASE Invalidate(t)
    BY <2>6 DEF Invalidate, ClearCache
  <2>7. CASE Notify(t)
    BY <2>7 DEF Notify
  <2>8. CASE Publish(t)
    BY <2>8 DEF Publish, Published
  <2>9. CASE RefreshCompletes(t)
    BY <2>9 DEF RefreshCompletes, Released
  <2> QED BY <1>6, <2>1, <2>2, <2>3, <2>4, <2>5, <2>6, <2>7, <2>8, <2>9
          DEF RefreshProgress
<1>7. ASSUME NEW c \in Caller,
             GetEndpointsAsync(c) \/ CallerProgress(c) \/ CallerCancels(c)
      PROVE  TypeOK'
  <2>1. CASE GetEndpointsAsync(c)
    BY <2>1 DEF GetEndpointsAsync
  <2>2. CASE LoopCheck(c)
    BY <2>2 DEF LoopCheck
  <2>3. CASE AwaitRefresh(c)
    BY <2>3, RefreshAsyncType DEF AwaitRefresh, Released
  <2>4. CASE ReadCached(c)
    BY <2>4 DEF ReadCached
  <2>5. CASE CallerCancels(c)
    BY <2>5 DEF CallerCancels
  <2> QED BY <1>7, <2>1, <2>2, <2>3, <2>4, <2>5 DEF CallerProgress
<1>8. ASSUME DisposeCancels \/ DisposeTimer \/ DisposeAwaits PROVE TypeOK'
  BY <1>8 DEF DisposeCancels, DisposeTimer, DisposeAwaits, Unregister
<1> QED BY <1>1, <1>2, <1>3, <1>4, <1>5, <1>6, <1>7, <1>8
        DEF Next, CallbackProgress

-----------------------------------------------------------------------------
(* Versions.                                                               *)

\* Every step of a refresh preserves the relations between versions.
LEMMA RefreshData ==
    ASSUME NEW t \in Refresh, TypeOK, DataInv, RefreshProgress(t)
    PROVE  DataInv'
<1> USE BoundsAssumption DEF TypeOK, DataInv, Goto, Version, None, Failed,
        counters, cacheVars, tokenVars, refreshVars, callerVars
<1>1. refresh[t] # "done" /\ t = task
  BY DEF OneRefresh, RefreshProgress, RefreshBegins, Populate, PopulateThrows,
     Register, RefreshFails, Invalidate, Notify, Publish, RefreshCompletes
<1>2. task' = task /\ world' = world
  BY DEF RefreshProgress, RefreshBegins, Populate, PopulateThrows,
     Register, RefreshFails, Invalidate, Notify, Publish, RefreshCompletes
<1>3. \A u \in Refresh : u # t => refresh[u] = "done"
  BY <1>1 DEF OneRefresh
<1>4. \A u \in Refresh : u # t => refresh'[u] = "done"
  BY <1>3 DEF RefreshProgress, RefreshBegins, Populate, PopulateThrows,
     Register, RefreshFails, Invalidate, Notify, Publish, RefreshCompletes
<1>5. OneRefresh'
  BY <1>1, <1>2, <1>4 DEF OneRefresh
<1> DEFINE Rest == /\ ResultKnown /\ FromTheProviders /\ NotOlderThanNotified
                   /\ CacheEmpty /\ Coherence
<1>6. Rest'
  <2> USE <1>2, <1>4 DEF ResultKnown, FromTheProviders, NotOlderThanNotified,
          CacheEmpty, Coherence
  <2>1. CASE RefreshBegins(t)
    BY <2>1 DEF RefreshBegins
  <2>2. CASE Populate(t)
    BY <2>2 DEF Populate
  <2>3. CASE PopulateThrows(t)
    BY <2>3 DEF PopulateThrows
  <2>4. CASE Register(t)
    BY <2>4 DEF Register
  <2>5. CASE RefreshFails(t)
    BY <2>5 DEF RefreshFails
  <2>6. CASE Invalidate(t)
    BY <2>6 DEF Invalidate, ClearCache
  <2>7. CASE Notify(t)
    BY <2>7 DEF Notify
  <2>8. CASE Publish(t)
    BY <2>8 DEF Publish, Published
  <2>9. CASE RefreshCompletes(t)
    BY <2>9 DEF RefreshCompletes
  <2> QED BY <2>1, <2>2, <2>3, <2>4, <2>5, <2>6, <2>7, <2>8, <2>9
          DEF RefreshProgress
<1> QED BY <1>5, <1>6

\* Every step preserves the relations between versions.
LEMMA DataStep ==
    ASSUME TypeOK, DataInv, Next
    PROVE  DataInv'
<1> USE DEF counters, cacheVars, tokenVars, refreshVars, callerVars
<1>1. CASE UNCHANGED <<world, cached, refreshVars>>
  BY <1>1 DEF DataInv, OneRefresh, ResultKnown, FromTheProviders,
     NotOlderThanNotified, CacheEmpty, Coherence
<1>2. ASSUME NEW force, RefreshAsync(force),
             world' = world, notified' = notified, cached' = cached
      PROVE  DataInv'
  BY <1>2, RefreshAsyncData
<1>3. CASE Change
  <2>1. world \in Int /\ world' = world + 1
    BY <1>3, BoundsAssumption DEF Change, TypeOK, Version
  <2>2. UNCHANGED <<cached, refreshVars>>
    BY <1>3 DEF Change
  <2>3. FromTheProviders'
    BY <2>1, <2>2, BoundsAssumption
       DEF DataInv, FromTheProviders, TypeOK, Version, None, Failed
  <2> QED BY <2>2, <2>3 DEF DataInv, OneRefresh, ResultKnown,
             NotOlderThanNotified, CacheEmpty, Coherence
<1>4. CASE Start \/ CallbackProgress
  BY <1>2, <1>4 DEF Start, CallbackProgress, ChangeTokenCallback, PollingAction
<1>5. CASE TokenCallsBack \/ PollingTimerExpires
  BY <1>1, <1>5 DEF TokenCallsBack, PollingTimerExpires
<1>6. ASSUME NEW c \in Caller,
             GetEndpointsAsync(c) \/ CallerProgress(c) \/ CallerCancels(c)
      PROVE  DataInv'
  <2>1. CASE AwaitRefresh(c)
    BY <1>2, <2>1 DEF AwaitRefresh
  <2>2. CASE GetEndpointsAsync(c) \/ LoopCheck(c) \/ ReadCached(c)
             \/ CallerCancels(c)
    BY <1>1, <2>2 DEF GetEndpointsAsync, LoopCheck, ReadCached, CallerCancels
  <2> QED BY <1>6, <2>1, <2>2 DEF CallerProgress
<1>7. CASE DisposeCancels \/ DisposeTimer \/ DisposeAwaits
  BY <1>1, <1>7 DEF DisposeCancels, DisposeTimer, DisposeAwaits
<1> QED BY <1>3, <1>4, <1>5, <1>6, <1>7, RefreshData DEF Next

-----------------------------------------------------------------------------
(* Waiting and disposal.                                                   *)

\* RefreshAsync leaves no caller behind.
LEMMA RefreshAsyncWaiting ==
    ASSUME NEW force, TypeOK, OneRefresh, NobodyLeftBehind, RefreshAsync(force)
    PROVE  \A c \in Caller :
              pc[c] = "wait" =>
                 awaits[c] \in Refresh /\ refresh'[awaits[c]] # "done"
BY RefreshAsyncSteps DEF NobodyLeftBehind, TypeOK

\* Every step leaves no caller behind.
LEMMA WaitingStep ==
    ASSUME TypeOK, OneRefresh, NobodyLeftBehind, Next
    PROVE  NobodyLeftBehind'
<1> USE DEF TypeOK, counters, cacheVars, tokenVars, refreshVars, callerVars
<1>1. CASE Start \/ CallbackProgress
  BY <1>1, RefreshAsyncWaiting DEF NobodyLeftBehind, Start, CallbackProgress,
     ChangeTokenCallback, PollingAction
<1>2. CASE Change \/ TokenCallsBack \/ PollingTimerExpires
           \/ DisposeCancels \/ DisposeTimer \/ DisposeAwaits
  BY <1>2 DEF NobodyLeftBehind, Change, TokenCallsBack, PollingTimerExpires,
     DisposeCancels, DisposeTimer, DisposeAwaits
<1>3. ASSUME NEW t \in Refresh, RefreshProgress(t)
      PROVE  NobodyLeftBehind'
  <2>1. CASE RefreshCompletes(t)
    BY <2>1 DEF NobodyLeftBehind, RefreshCompletes, Released, Goto
  <2>2. CASE ~RefreshCompletes(t)
    <3>1. pc' = pc /\ awaits' = awaits /\ refresh'[t] # "done"
          /\ \A u \in Refresh : u # t => refresh'[u] = refresh[u]
      BY <1>3, <2>2 DEF RefreshProgress, RefreshBegins, Populate,
         PopulateThrows, Register, RefreshFails, Invalidate, Notify, Publish,
         Goto
    <3> QED BY <3>1 DEF NobodyLeftBehind
  <2> QED BY <2>1, <2>2
<1>4. ASSUME NEW c \in Caller,
             GetEndpointsAsync(c) \/ CallerProgress(c) \/ CallerCancels(c)
      PROVE  NobodyLeftBehind'
  <2>1. CASE AwaitRefresh(c)
    <3>1. task' \in Refresh
      BY <2>1, RefreshAsyncType DEF AwaitRefresh
    <3> QED BY <2>1, <3>1, RefreshAsyncWaiting
            DEF NobodyLeftBehind, AwaitRefresh, Released
  <2>2. CASE GetEndpointsAsync(c) \/ LoopCheck(c) \/ ReadCached(c)
             \/ CallerCancels(c)
    BY <2>2 DEF NobodyLeftBehind, GetEndpointsAsync, LoopCheck, ReadCached,
       CallerCancels
  <2> QED BY <1>4, <2>1, <2>2 DEF CallerProgress
<1> QED BY <1>1, <1>2, <1>3, <1>4 DEF Next

\* RefreshAsync leaves no refresh past the disposal of the registration that
\* was not past it before.
LEMMA RefreshAsyncStart ==
    ASSUME NEW force, TypeOK, OneRefresh, RefreshAsync(force),
           NEW t \in Refresh, refresh'[t] \in {"populate", "register"}
    PROVE  refresh'[t] = refresh[t]
BY RefreshAsyncSteps DEF TypeOK

\* Every step preserves what is known about the registration, and about _lock
\* when it is held across a blocking call.
LEMMA RegistrationStep ==
    ASSUME TypeOK, OneRefresh, Registration, lock # "free" => calling, Next
    PROVE  Registration' /\ (lock' # "free" => calling')
<1> USE RefreshAssumption, TokenAssumption, BoundsAssumption
    DEF TypeOK, Registration, Version, None, counters, cacheVars, tokenVars,
        refreshVars, callerVars
<1>0. ASSUME NEW force, RefreshAsync(force),
             UNCHANGED <<world, lock, registered, calling>>
      PROVE  Registration' /\ (lock' # "free" => calling')
  <2>1. \A t \in Refresh :
           refresh'[t] \in {"populate", "register"} => refresh'[t] = refresh[t]
    BY <1>0, RefreshAsyncStart
  <2> QED BY <1>0, <2>1
<1>1. CASE Start \/ PollingAction
  BY <1>0, <1>1 DEF Start, PollingAction
<1>2. CASE ChangeTokenCallback
  BY <1>2, RefreshAsyncStart DEF ChangeTokenCallback
<1>3. CASE Change \/ TokenCallsBack \/ PollingTimerExpires
  BY <1>3 DEF Change, TokenCallsBack, PollingTimerExpires
<1>4. ASSUME NEW t \in Refresh, RefreshProgress(t)
      PROVE  Registration' /\ (lock' # "free" => calling')
  <2> USE DEF Goto
  <2>0. \A u \in Refresh : u # t => refresh[u] = "done"
    BY <1>4 DEF OneRefresh, RefreshProgress, RefreshBegins, Populate,
       PopulateThrows, Register, RefreshFails, Invalidate, Notify, Publish,
       RefreshCompletes
  <2>1. CASE RefreshBegins(t)
    BY <2>0, <2>1 DEF RefreshBegins, Unregister
  <2>2. CASE Populate(t) \/ PopulateThrows(t)
    BY <2>2 DEF Populate, PopulateThrows
  <2>3. CASE Register(t)
    <3>1. registered = None /\ ~calling
      BY <2>3 DEF Register
    <3> QED BY <2>0, <2>3, <3>1 DEF Register
  <2>4. CASE \/ RefreshFails(t) \/ Invalidate(t) \/ Notify(t) \/ Publish(t)
             \/ RefreshCompletes(t)
    BY <2>4 DEF RefreshFails, Invalidate, Notify, Publish, RefreshCompletes
  <2> QED BY <1>4, <2>1, <2>2, <2>3, <2>4 DEF RefreshProgress
<1>5. ASSUME NEW c \in Caller,
             GetEndpointsAsync(c) \/ CallerProgress(c) \/ CallerCancels(c)
      PROVE  Registration' /\ (lock' # "free" => calling')
  <2>1. CASE AwaitRefresh(c)
    BY <1>0, <2>1 DEF AwaitRefresh
  <2>2. CASE GetEndpointsAsync(c) \/ LoopCheck(c) \/ ReadCached(c)
             \/ CallerCancels(c)
    BY <2>2 DEF GetEndpointsAsync, LoopCheck, ReadCached, CallerCancels
  <2> QED BY <1>5, <2>1, <2>2 DEF CallerProgress
<1>6. CASE DisposeCancels \/ DisposeAwaits
  BY <1>6 DEF DisposeCancels, DisposeAwaits
<1>7. CASE DisposeTimer
  <2>1. CASE calling
    BY <1>7, <2>1 DEF DisposeTimer, Unregister
  <2>2. CASE ~calling
    BY <1>7, <2>2 DEF DisposeTimer, Unregister
  <2> QED BY <2>1, <2>2
<1> QED BY <1>1, <1>2, <1>3, <1>4, <1>5, <1>6, <1>7
        DEF Next, CallbackProgress

\* No refresh and no timer is started behind the back of DisposeAsync.
LEMMA DisposingStep ==
    ASSUME TypeOK, OneRefresh, Disposing, Next
    PROVE  Disposing'
<1> USE RefreshAssumption DEF TypeOK, Disposing, counters, cacheVars,
        tokenVars, refreshVars, callerVars
<1>1. ASSUME NEW force, RefreshAsync(force), disposeAt' = disposeAt,
             cancelled' = cancelled, lock' = lock, timer' = timer
      PROVE  Disposing'
  BY <1>1, RefreshAsyncSteps
<1>2. CASE Start \/ CallbackProgress
  BY <1>1, <1>2 DEF Start, CallbackProgress, ChangeTokenCallback, PollingAction
<1>3. CASE Change \/ TokenCallsBack \/ PollingTimerExpires
  BY <1>3 DEF Change, TokenCallsBack, PollingTimerExpires
<1>4. ASSUME NEW t \in Refresh, RefreshProgress(t)
      PROVE  Disposing'
  <2>1. disposeAt # "done"
    BY <1>4 DEF OneRefresh, RefreshProgress, RefreshBegins, Populate,
       PopulateThrows, Register, RefreshFails, Invalidate, Notify, Publish,
       RefreshCompletes
  <2>2. disposeAt' = disposeAt /\ cancelled' = cancelled
    BY <1>4 DEF RefreshProgress, RefreshBegins, Populate, PopulateThrows,
       Register, RefreshFails, Invalidate, Notify, Publish, RefreshCompletes
  <2>3. timer' = timer \/ timer' = "null" \/ ~cancelled
    BY <1>4 DEF RefreshProgress, RefreshBegins, Populate, PopulateThrows,
       Register, RefreshFails, Invalidate, Notify, Publish, RefreshCompletes,
       SchedulePollingTimer
  <2>4. lock' = lock \/ lock = "free"
    BY <1>4 DEF RefreshProgress, RefreshBegins, Populate, PopulateThrows,
       Register, RefreshFails, Invalidate, Notify, Publish, RefreshCompletes,
       Unregister
  <2> QED BY <2>1, <2>2, <2>3, <2>4
<1>5. ASSUME NEW c \in Caller,
             GetEndpointsAsync(c) \/ CallerProgress(c) \/ CallerCancels(c)
      PROVE  Disposing'
  <2>1. CASE AwaitRefresh(c)
    BY <1>1, <2>1 DEF AwaitRefresh
  <2>2. CASE GetEndpointsAsync(c) \/ LoopCheck(c) \/ ReadCached(c)
             \/ CallerCancels(c)
    BY <2>2 DEF GetEndpointsAsync, LoopCheck, ReadCached, CallerCancels
  <2> QED BY <1>5, <2>1, <2>2 DEF CallerProgress
<1>6. CASE DisposeCancels \/ DisposeTimer \/ DisposeAwaits
  BY <1>6 DEF DisposeCancels, DisposeTimer, DisposeAwaits, Unregister
<1> QED BY <1>2, <1>3, <1>4, <1>5, <1>6 DEF Next

-----------------------------------------------------------------------------
(* The theorems.                                                           *)

\* A new watcher satisfies the inductive invariant.
LEMMA IInvInit == Init => IInv
<1> SUFFICES ASSUME Init PROVE IInv
  OBVIOUS
<1> USE BoundsAssumption DEF Init, Version, None, Failed
<1>1. Flags
  BY Zenon DEF Flags
<1>2. TypeOK
  BY <1>1 DEF TypeOK, Flags
<1>3. DataInv
  BY DEF DataInv, OneRefresh, ResultKnown, FromTheProviders,
     NotOlderThanNotified, CacheEmpty, Coherence
<1>4. ControlInv
  BY DEF ControlInv, NobodyLeftBehind, Registration, Disposing
<1> QED BY <1>2, <1>3, <1>4 DEF IInv

\* Every step preserves the inductive invariant.
LEMMA IInvStep == IInv /\ [Next]_vars => IInv'
<1> SUFFICES ASSUME IInv, [Next]_vars PROVE IInv'
  OBVIOUS
<1>1. CASE Next
  <2>1. TypeOK' /\ DataInv'
    BY <1>1, TypeStep, DataStep DEF IInv
  <2>2. ControlInv'
    BY <1>1, WaitingStep, RegistrationStep, DisposingStep
       DEF IInv, DataInv, ControlInv
  <2> QED BY <2>1, <2>2 DEF IInv
<1>2. CASE UNCHANGED vars
  <2> USE <1>2 DEF vars, counters, cacheVars, tokenVars, refreshVars,
          callerVars
  <2>1. TypeOK'
    <3>1. Flags'
      BY Zenon DEF IInv, TypeOK, Flags
    <3> QED BY <3>1 DEF IInv, TypeOK, Flags
  <2>2. DataInv'
    BY DEF IInv, DataInv, OneRefresh, ResultKnown, FromTheProviders,
       NotOlderThanNotified, CacheEmpty, Coherence
  <2>3. ControlInv'
    BY DEF IInv, ControlInv, NobodyLeftBehind, Registration, Disposing
  <2> QED BY <2>1, <2>2, <2>3 DEF IInv
<1> QED BY <1>1, <1>2

\* The inductive invariant of ServiceEndpointWatcher holds in every state.
THEOREM WatcherInvariant == Spec => []IInv
BY IInvInit, IInvStep, PTL DEF Spec

\* The variables of ServiceEndpointWatcher keep their types, and its counters
\* their bounds.
THEOREM TypeCorrect == Spec => []TypeOK
<1>1. IInv => TypeOK
  BY DEF IInv
<1> QED BY <1>1, WatcherInvariant, PTL

\* GetEndpointsAsync never reads endpoints from _cachedEndpoints that are older
\* than those OnEndpointsUpdated was given, however refreshes, callers, tokens
\* and timers interleave.
THEOREM CacheCoherent == Spec => []Coherence
<1>1. IInv => Coherence
  BY DEF IInv, DataInv
<1> QED BY <1>1, WatcherInvariant, PTL

\* OnEndpointsUpdated is never given older endpoints than before.
THEOREM CallbackInOrder == Spec => NotifiedInOrder
<1>1. ASSUME IInv, [Next]_vars
      PROVE  [notified' >= notified]_vars
  <2>1. notified \in Int
    BY <1>1, BoundsAssumption DEF IInv, TypeOK, Version, None
  <2>2. CASE notified' = notified
    BY <2>1, <2>2
  <2>3. ASSUME NEW t \in Refresh, Notify(t)
        PROVE  notified' >= notified
    <3>1. notified' = notified \/ notified <= snapshot[t]
      BY <1>1, <2>3 DEF IInv, DataInv, NotOlderThanNotified, Notify
    <3> QED BY <1>1, <2>1, <2>3, <3>1, BoundsAssumption
            DEF Notify, IInv, TypeOK, Version, None, Failed
  <2>4. (\E t \in Refresh : Notify(t)) \/ notified' = notified
    BY <1>1 DEF Next, Start, Change, TokenCallsBack, PollingTimerExpires,
       CallbackProgress,
       ChangeTokenCallback, PollingAction, RefreshProgress, RefreshBegins,
       Populate, PopulateThrows, Register, RefreshFails, Invalidate, Publish,
       RefreshCompletes, CallerProgress, GetEndpointsAsync, LoopCheck,
       AwaitRefresh, ReadCached, CallerCancels, DisposeCancels, DisposeTimer,
       DisposeAwaits, refreshVars, vars
  <2> QED BY <2>2, <2>3, <2>4
<1> QED BY <1>1, WatcherInvariant, PTL DEF Spec, NotifiedInOrder

\* When DisposeAsync has completed no timer is armed and no refresh runs, and
\* no late callback, timer or caller starts one again.
THEOREM DisposedIsQuiet == Spec => []QuietAfterDispose
<1>1. IInv => QuietAfterDispose
  BY DEF IInv, DataInv, OneRefresh, ControlInv, Disposing, QuietAfterDispose
<1> QED BY <1>1, WatcherInvariant, PTL

\* No caller of GetEndpointsAsync awaits a refresh that has completed: there is
\* no lost wake-up between RefreshAsync and the completion of the task.
THEOREM NoLostWakeUp == Spec => []NobodyLeftBehind
<1>1. IInv => NobodyLeftBehind
  BY DEF IInv, ControlInv
<1> QED BY <1>1, WatcherInvariant, PTL

\* _lock is held across a blocking call only by the disposal of the registration
\* of a token that has changed and whose callback is waiting for that very lock:
\* no other refresh, call, timer or disposal can stop a watcher, and a watcher
\* of polled providers, which has no such token, never stops.
THEOREM OnlyACallbackBlocks == Spec => []BlockedByCallback
<1>1. IInv => BlockedByCallback
  BY DEF IInv, ControlInv, Registration, BlockedByCallback, HasChanged
<1> QED BY <1>1, WatcherInvariant, PTL
=============================================================================
