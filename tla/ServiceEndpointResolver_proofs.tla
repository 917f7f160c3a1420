-------------------- MODULE ServiceEndpointResolver_proofs --------------------
(***************************************************************************)
(* Proofs of the safety properties of ServiceEndpointResolver, for any     *)
(* number of callers, names and entries.                                   *)
(***************************************************************************)
EXTENDS ServiceEndpointResolver, FiniteSetTheorems, TLAPS

\* The callers that _status counts on entry e.
Counted(e) == {c \in Caller : pc[c] \in CountedStep /\ entry[c] = e}

\* The steps in which a caller's local refers to an entry.
HoldingStep == CallerStep \ {"idle", "timer", "check", "lookup", "create"}

\* Locals refer to entries where the code dereferences them.
LocalsInv ==
    /\ \A c \in Caller : pc[c] \in HoldingStep => entry[c] \in Entry
    /\ cleanupAt \in {"expire", "remove"} => cleanupEntry \in Entry

\* An entry somebody can reach has a watcher.
CreatedInv ==
    /\ \A c \in Caller : entry[c] \in Entry => watcher[entry[c]] # "fresh"
    /\ \A n \in Name : resolvers[n] \in Entry => watcher[resolvers[n]] # "fresh"

\* The count is the number of callers between Increment and Decrement.
CountInv == \A e \in Entry : count[e] = Cardinality(Counted(e))

\* The Disposing flag comes after the completion source and before anyone
\* runs DisposeAsyncCore.
FlagInv ==
    /\ \A e \in Entry : disposing[e] => onDisposed[e] # "null"
    /\ \A k \in Closer, e \in Entry :
          /\ closing[<<k, e>>] = "flag" => onDisposed[e] # "null"
          /\ closing[<<k, e>>] \in {"core", "set"} => disposing[e]
    /\ \A c \in Caller : pc[c] \in {"core", "set"} => disposing[entry[c]]

\* The watcher of e is disposed, or a thread has decided to dispose it.
Stopping(e) ==
    \/ watcher[e] = "stopped"
    \/ \E c \in Caller : pc[c] = "core" /\ entry[c] = e
    \/ \E k \in Closer : closing[<<k, e>>] = "core"

\* From that decision on the entry is flagged and nobody resolves with it.
StopInv ==
    \A e \in Entry : Stopping(e) =>
        /\ disposing[e]
        /\ \A c \in Caller : ~(pc[c] = "resolving" /\ entry[c] = e)

\* A recorded use is protected by the flag or by a caller that will set it.
UseInv ==
    \A e \in used : \/ recent[e]
                    \/ \E c \in Caller : pc[c] \in UsingStep /\ entry[c] = e

IndInv ==
    /\ TypeOK
    /\ LocalsInv
    /\ CreatedInv
    /\ CountInv
    /\ FlagInv
    /\ StopInv
    /\ UseInv

-----------------------------------------------------------------------------
(* The count.                                                              *)

\* The set of counted callers is finite, because the set of callers is.
LEMMA CountedFinite ==
  ASSUME NEW e
  PROVE  IsFiniteSet(Counted(e)) /\ Cardinality(Counted(e)) \in Nat
  BY CallerAssumption, FS_Subset, FS_CardinalityType DEF Counted

\* One more or one fewer counted caller.
LEMMA CountedPlusMinus ==
  ASSUME NEW e, NEW c
  PROVE  /\ c \notin Counted(e) =>
               Cardinality(Counted(e) \cup {c}) = Cardinality(Counted(e)) + 1
         /\ c \in Counted(e) =>
               Cardinality(Counted(e) \ {c}) = Cardinality(Counted(e)) - 1
  BY CountedFinite, FS_AddElement, FS_RemoveElement

\* A caller between Increment and Decrement makes the count positive, so
\* Decrement does not wrap around.
LEMMA CountedPositive ==
  ASSUME TypeOK, CountInv, LocalsInv, NEW c \in Caller, pc[c] \in CountedStep
  PROVE  entry[c] \in Entry /\ count[entry[c]] - 1 \in Nat
  <1>1. entry[c] \in Entry
    BY DEF LocalsInv, HoldingStep, CallerStep, CountedStep
  <1>2. c \in Counted(entry[c])
    BY DEF Counted
  <1>3. Cardinality(Counted(entry[c])) # 0
    BY <1>2, CountedFinite, FS_EmptySet
  <1>4. QED
    BY <1>1, <1>3, CountedFinite DEF CountInv

\* A count of 0 means that no caller is between Increment and Decrement.
LEMMA NobodyCounted ==
  ASSUME CountInv, NEW e \in Entry, count[e] = 0,
         NEW c \in Caller, entry[c] = e
  PROVE  pc[c] \notin CountedStep
  <1>1. Counted(e) = {}
    BY CountedFinite, FS_EmptySet DEF CountInv
  <1>2. QED
    BY <1>1 DEF Counted

\* A count of 1 means that a counted caller is the only one.
LEMMA OnlyOneCounted ==
  ASSUME CountInv, NEW e \in Entry, count[e] = 1,
         NEW c \in Caller, pc[c] \in CountedStep, entry[c] = e,
         NEW d \in Caller, pc[d] \in CountedStep, entry[d] = e
  PROVE  c = d
  <1>1. PICK x : Counted(e) = {x}
    BY CountedFinite, FS_Singleton DEF CountInv
  <1>2. c \in Counted(e) /\ d \in Counted(e)
    BY DEF Counted
  <1>3. QED
    BY <1>1, <1>2

-----------------------------------------------------------------------------
(* Every step preserves each part of the invariant.                        *)

\* The locals of a call that ends are reset.
LEMMA FinishType ==
  ASSUME TypeOK, NEW c \in Caller, Finish(c)
  PROVE  /\ pc' \in [Caller -> CallerStep]
         /\ entry' \in [Caller -> Entry \cup {NoEntry}]
         /\ valid' \in [Caller -> BOOLEAN]
  BY DEF TypeOK, Finish, Goto, CallerStep

\* Expiring an entry starts a call of its DisposeAsync.
LEMMA ExpireStartsClosing ==
  ASSUME TypeOK, ExpireResolver
  PROVE  \A k \in Closer, e \in Entry :
            closing'[<<k, e>>] \in {"create", closing[<<k, e>>]}
  <1>1. closing \in [Closer \X Entry -> CloseStep]
    BY DEF TypeOK
  <1>2. \/ closing' = closing
        \/ closing' = [closing EXCEPT ![<<"cleanup", cleanupEntry>>] = "create"]
    BY DEF ExpireResolver, CloseGoto
  <1>3. QED
    BY <1>1, <1>2

\* So does DisposeAsync of the resolver for each entry it finds.
LEMMA DisposeStartsClosing ==
  ASSUME TypeOK, NEW n \in Name, DisposeVisit(n)
  PROVE  \A k \in Closer, e \in Entry :
            closing'[<<k, e>>] \in {"create", closing[<<k, e>>]}
  <1>1. closing \in [Closer \X Entry -> CloseStep]
    BY DEF TypeOK
  <1>2. \/ closing' = closing
        \/ closing' = [closing EXCEPT ![<<"dispose", resolvers[n]>>] = "create"]
    BY DEF DisposeVisit, CloseGoto
  <1>3. QED
    BY <1>1, <1>2

\* The type invariant; the only delicate step is Decrement.
LEMMA TypeOKNext == TypeOK /\ LocalsInv /\ CountInv /\ [Next]_vars => TypeOK'
  <1> SUFFICES ASSUME TypeOK, LocalsInv, CountInv, [Next]_vars
               PROVE  TypeOK'
    OBVIOUS
  <1> USE EntryAssumption DEF TypeOK, LocalsInv, HoldingStep, CallerStep,
          CloseStep, Closer, statusVars, entryVars, callerVars, cleanupVars,
          disposeVars
  <1>1. ASSUME NEW c \in Caller, NEW n \in Name, Call(c, n) PROVE TypeOK'
    BY <1>1 DEF Call, Goto
  <1>2. ASSUME NEW c \in Caller, EnsureCleanupTimerStarted(c) PROVE TypeOK'
    BY <1>2 DEF EnsureCleanupTimerStarted, Goto
  <1>3. ASSUME NEW c \in Caller, LoopCheck(c) PROVE TypeOK'
    <2>1. CASE Finish(c)
      BY <1>3, <2>1, FinishType DEF LoopCheck
    <2>2. CASE ~Finish(c)
      BY <1>3, <2>2 DEF LoopCheck, Goto
    <2>3. QED
      BY <2>1, <2>2
  <1>4. ASSUME NEW c \in Caller, Lookup(c) PROVE TypeOK'
    BY <1>4 DEF Lookup, Goto
  <1>5. ASSUME NEW c \in Caller, CreateResolver(c) PROVE TypeOK'
    <2>1. CASE Finish(c)
      BY <1>5, <2>1, FinishType DEF CreateResolver
    <2>2. CASE ~Finish(c)
      BY <1>5, <2>2 DEF CreateResolver, Goto
    <2>3. QED
      BY <2>1, <2>2
  <1>6. ASSUME NEW c \in Caller, AddResolver(c) PROVE TypeOK'
    BY <1>6 DEF AddResolver, Goto
  <1>7. ASSUME NEW c \in Caller, Increment(c) PROVE TypeOK'
    BY <1>7 DEF Increment, CountIncremented, Goto
  <1>8. ASSUME NEW c \in Caller, Resolve(c) PROVE TypeOK'
    BY <1>8 DEF Resolve, Goto
  <1>9. ASSUME NEW c \in Caller, SetRecentUse(c) PROVE TypeOK'
    BY <1>9 DEF SetRecentUse, Goto
  <1>10. ASSUME NEW c \in Caller, Decrement(c) PROVE TypeOK'
    BY <1>10, CountedPositive DEF Decrement, LastCaller, Goto, CountedStep
  <1>11. ASSUME NEW c \in Caller, CallerStopsWatcher(c) PROVE TypeOK'
    BY <1>11 DEF CallerStopsWatcher, Goto, StopWatcher
  <1>12. ASSUME NEW c \in Caller, CallerSetsResult(c) PROVE TypeOK'
    <2>1. onDisposed' \in [Entry -> {"null", "pending", "set"}]
      BY <1>12 DEF CallerSetsResult
    <2>2. CASE SetResultThrows(entry[c])
      <3>1. Finish(c)
        BY <1>12, <2>2 DEF CallerSetsResult
      <3>2. QED
        BY <1>12, <2>1, <3>1, FinishType DEF CallerSetsResult
    <2>3. CASE ~SetResultThrows(entry[c])
      BY <1>12, <2>1, <2>3 DEF CallerSetsResult, Goto
    <2>4. QED
      BY <2>2, <2>3
  <1>13. ASSUME NEW c \in Caller, Return(c) PROVE TypeOK'
    <2>1. CASE valid[c]
      BY <1>13, <2>1, FinishType DEF Return
    <2>2. CASE ~valid[c]
      BY <1>13, <2>2 DEF Return, Goto
    <2>3. QED
      BY <2>1, <2>2
  <1>14. ASSUME NEW k \in Closer, NEW e \in Entry, CreateOnDisposed(k, e)
         PROVE TypeOK'
    BY <1>14 DEF CreateOnDisposed, NewOnDisposed, CloseGoto
  <1>15. ASSUME NEW k \in Closer, NEW e \in Entry, SetDisposing(k, e)
         PROVE TypeOK'
    BY <1>15 DEF SetDisposing, DisposesNow, CloseGoto
  <1>16. ASSUME NEW k \in Closer, NEW e \in Entry, CloserStopsWatcher(k, e)
         PROVE TypeOK'
    BY <1>16 DEF CloserStopsWatcher, StopWatcher, CloseGoto
  <1>17. ASSUME NEW k \in Closer, NEW e \in Entry, CloserSetsResult(k, e)
         PROVE TypeOK'
    BY <1>17 DEF CloserSetsResult, CloseGoto, SetResultThrows
  <1>18. ASSUME NEW k \in Closer, NEW e \in Entry, AwaitOnDisposed(k, e)
         PROVE TypeOK'
    BY <1>18 DEF AwaitOnDisposed, CloseGoto
  <1>19. ASSUME TimerTick PROVE TypeOK'
    BY <1>19 DEF TimerTick
  <1>20. ASSUME CleanupResolvers PROVE TypeOK'
    BY <1>20 DEF CleanupResolvers
  <1>21. ASSUME CanExpire PROVE TypeOK'
    BY <1>21 DEF CanExpire
  <1>22. ASSUME ExpireResolver PROVE TypeOK'
    BY <1>22 DEF ExpireResolver, CloseGoto
  <1>23. ASSUME CleanupScanned PROVE TypeOK'
    BY <1>23 DEF CleanupScanned
  <1>24. ASSUME CleanupCompletes PROVE TypeOK'
    BY <1>24 DEF CleanupCompletes
  <1>25. ASSUME NEW n \in Name, CleanupVisit(n) PROVE TypeOK'
    BY <1>25 DEF CleanupVisit
  <1>26. ASSUME DisposeBegin PROVE TypeOK'
    BY <1>26 DEF DisposeBegin
  <1>27. ASSUME DisposeAwait PROVE TypeOK'
    BY <1>27 DEF DisposeAwait
  <1>28. ASSUME DisposeClear PROVE TypeOK'
    BY <1>28 DEF DisposeClear
  <1>29. ASSUME DisposeEnd PROVE TypeOK'
    BY <1>29 DEF DisposeEnd
  <1>30. ASSUME NEW n \in Name, DisposeVisit(n) PROVE TypeOK'
    BY <1>30 DEF DisposeVisit, CloseGoto
  <1>31. CASE UNCHANGED vars
    BY <1>31 DEF vars
  <1>32. QED
    BY <1>1, <1>2, <1>3, <1>4, <1>5, <1>6, <1>7, <1>8, <1>9, <1>10, <1>11,
       <1>12, <1>13, <1>14, <1>15, <1>16, <1>17, <1>18, <1>19, <1>20, <1>21,
       <1>22, <1>23, <1>24, <1>25, <1>26, <1>27, <1>28, <1>29, <1>30, <1>31
       DEF Next, CallerProgress, CloserProgress, CleanupProgress,
           DisposeProgress

\* Locals refer to entries where they are used.
LEMMA LocalsInvNext == TypeOK /\ LocalsInv /\ [Next]_vars => LocalsInv'
  <1> SUFFICES ASSUME TypeOK, LocalsInv, [Next]_vars
               PROVE  LocalsInv'
    OBVIOUS
  <1> USE EntryAssumption DEF TypeOK, LocalsInv, HoldingStep, CallerStep,
          CloseStep, Closer, statusVars, entryVars, callerVars, cleanupVars,
          disposeVars
  <1>1. ASSUME NEW c \in Caller, NEW n \in Name, Call(c, n)
        PROVE  LocalsInv'
    BY <1>1 DEF Call, Goto
  <1>2. ASSUME NEW c \in Caller, CallerProgress(c)
        PROVE  LocalsInv'
    BY <1>2 DEF CallerProgress, EnsureCleanupTimerStarted, LoopCheck, Lookup,
       CreateResolver, AddResolver, Increment, CountIncremented, Resolve,
       SetRecentUse, Decrement, LastCaller, CallerStopsWatcher,
       CallerSetsResult, Return, Goto, Finish, StopWatcher, SetResultThrows
  <1>3. ASSUME NEW k \in Closer, NEW e \in Entry, CloserProgress(k, e)
        PROVE  LocalsInv'
    BY <1>3 DEF CloserProgress, CreateOnDisposed, NewOnDisposed, SetDisposing,
       DisposesNow, CloserStopsWatcher, CloserSetsResult, AwaitOnDisposed,
       CloseGoto, StopWatcher, SetResultThrows
  <1>4. CASE CleanupProgress
    BY <1>4 DEF CleanupProgress, CleanupResolvers, CleanupVisit, CanExpire,
       ExpireResolver, CleanupScanned, CleanupCompletes, CloseGoto
  <1>5. CASE DisposeProgress
    BY <1>5 DEF DisposeProgress, DisposeVisit, DisposeAwait, DisposeClear,
       DisposeEnd, CloseGoto
  <1>6. CASE TimerTick \/ DisposeBegin \/ UNCHANGED vars
    BY <1>6 DEF TimerTick, DisposeBegin, vars
  <1>7. QED
    BY <1>1, <1>2, <1>3, <1>4, <1>5, <1>6 DEF Next

\* What can be reached has been created.
LEMMA CreatedInvNext ==
  TypeOK /\ LocalsInv /\ CreatedInv /\ [Next]_vars => CreatedInv'
  <1> SUFFICES ASSUME TypeOK, LocalsInv, CreatedInv, [Next]_vars
               PROVE  CreatedInv'
    OBVIOUS
  <1> USE EntryAssumption DEF TypeOK, LocalsInv, HoldingStep, CallerStep,
          CloseStep, Closer, statusVars, entryVars, callerVars, cleanupVars,
          disposeVars, CreatedInv
  <1>1. ASSUME NEW c \in Caller, NEW n \in Name, Call(c, n)
        PROVE  CreatedInv'
    BY <1>1 DEF Call, Goto
  <1>2. ASSUME NEW c \in Caller, CallerProgress(c)
        PROVE  CreatedInv'
    <2>1. CASE Lookup(c)
      BY <2>1 DEF Lookup, Goto
    <2>2. CASE CreateResolver(c)
      BY <2>2 DEF CreateResolver, Goto, Finish
    <2>3. CASE AddResolver(c)
      BY <2>3 DEF AddResolver, Goto
    <2>4. CASE Return(c)
      BY <2>4 DEF Return, Goto, Finish
    <2>5. CASE \/ EnsureCleanupTimerStarted(c) \/ LoopCheck(c)
              \/ Increment(c) \/ Resolve(c) \/ SetRecentUse(c)
              \/ Decrement(c) \/ CallerStopsWatcher(c)
              \/ CallerSetsResult(c)
      BY <1>2, <2>5 DEF EnsureCleanupTimerStarted, LoopCheck, Increment,
         CountIncremented, Resolve, SetRecentUse, Decrement, LastCaller,
         CallerStopsWatcher, CallerSetsResult, Goto, Finish, StopWatcher,
         SetResultThrows
    <2>6. QED
      BY <1>2, <2>1, <2>2, <2>3, <2>4, <2>5 DEF CallerProgress
  <1>3. ASSUME NEW k \in Closer, NEW e \in Entry, CloserProgress(k, e)
        PROVE  CreatedInv'
    BY <1>3 DEF CloserProgress, CreateOnDisposed, NewOnDisposed, SetDisposing,
       DisposesNow, CloserStopsWatcher, CloserSetsResult, AwaitOnDisposed,
       CloseGoto, StopWatcher, SetResultThrows
  <1>4. CASE CleanupProgress
    BY <1>4 DEF CleanupProgress, CleanupResolvers, CleanupVisit, CanExpire,
       ExpireResolver, CleanupScanned, CleanupCompletes, CloseGoto
  <1>5. CASE DisposeProgress
    <2>1. CASE \E n \in Name : DisposeVisit(n)
      BY <2>1 DEF DisposeVisit, CloseGoto
    <2>2. CASE \/ DisposeAwait \/ DisposeClear \/ DisposeEnd
      BY <1>5, <2>2 DEF DisposeAwait, DisposeClear, DisposeEnd
    <2>3. QED
      BY <1>5, <2>1, <2>2 DEF DisposeProgress
  <1>6. CASE TimerTick \/ DisposeBegin \/ UNCHANGED vars
    BY <1>6 DEF TimerTick, DisposeBegin, vars
  <1>7. QED
    BY <1>1, <1>2, <1>3, <1>4, <1>5, <1>6 DEF Next

\* The completion source, then the flag, then DisposeAsyncCore.
LEMMA FlagInvNext == TypeOK /\ LocalsInv /\ FlagInv /\ [Next]_vars => FlagInv'
  <1> SUFFICES ASSUME TypeOK, LocalsInv, FlagInv, [Next]_vars
               PROVE  FlagInv'
    OBVIOUS
  <1> USE EntryAssumption DEF TypeOK, LocalsInv, HoldingStep, CallerStep,
          CloseStep, Closer, statusVars, entryVars, callerVars, cleanupVars,
          disposeVars, FlagInv
  <1>1. ASSUME NEW c \in Caller, NEW n \in Name, Call(c, n)
        PROVE  FlagInv'
    BY <1>1 DEF Call, Goto
  <1>2. ASSUME NEW c \in Caller, CallerProgress(c)
        PROVE  FlagInv'
    BY <1>2 DEF CallerProgress, EnsureCleanupTimerStarted, LoopCheck, Lookup,
       CreateResolver, AddResolver, Increment, CountIncremented, Resolve,
       SetRecentUse, Decrement, LastCaller, CallerStopsWatcher,
       CallerSetsResult, Return, Goto, Finish, StopWatcher, SetResultThrows
  <1>3. ASSUME NEW k \in Closer, NEW e \in Entry, CloserProgress(k, e)
        PROVE  FlagInv'
    <2>1. CASE CreateOnDisposed(k, e)
      BY <2>1 DEF CreateOnDisposed, NewOnDisposed, CloseGoto
    <2>2. CASE SetDisposing(k, e)
      BY <2>2 DEF SetDisposing, DisposesNow, CloseGoto
    <2>3. CASE CloserStopsWatcher(k, e)
      BY <2>3 DEF CloserStopsWatcher, StopWatcher, CloseGoto
    <2>4. CASE CloserSetsResult(k, e)
      <3>1. closing' \in [Closer \X Entry -> CloseStep]
            /\ closing'[<<k, e>>] \in {"fault", "done"}
            /\ \A l \in Closer, f \in Entry :
                  <<l, f>> # <<k, e>> => closing'[<<l, f>>] = closing[<<l, f>>]
        BY <2>4 DEF CloserSetsResult, CloseGoto
      <3>2. \A f \in Entry : onDisposed'[f] \in {"set", onDisposed[f]}
        BY <2>4 DEF CloserSetsResult
      <3>3. QED
        BY <2>4, <3>1, <3>2 DEF CloserSetsResult
    <2>5. CASE AwaitOnDisposed(k, e)
      BY <2>5 DEF AwaitOnDisposed, CloseGoto
    <2>6. QED
      BY <1>3, <2>1, <2>2, <2>3, <2>4, <2>5 DEF CloserProgress
  <1>4. CASE CleanupProgress
    <2>1. CASE ExpireResolver
      BY <2>1, ExpireStartsClosing DEF ExpireResolver
    <2>2. CASE CleanupProgress /\ ~ExpireResolver
      BY <2>2 DEF CleanupProgress, CleanupResolvers, CleanupVisit, CanExpire,
         CleanupScanned, CleanupCompletes
    <2>3. QED
      BY <1>4, <2>1, <2>2
  <1>5. CASE DisposeProgress
    <2>1. CASE \E n \in Name : DisposeVisit(n)
      BY <2>1, DisposeStartsClosing DEF DisposeVisit
    <2>2. CASE \/ DisposeAwait \/ DisposeClear \/ DisposeEnd
      BY <1>5, <2>2 DEF DisposeAwait, DisposeClear, DisposeEnd
    <2>3. QED
      BY <1>5, <2>1, <2>2 DEF DisposeProgress
  <1>6. CASE TimerTick \/ DisposeBegin \/ UNCHANGED vars
    BY <1>6 DEF TimerTick, DisposeBegin, vars
  <1>7. QED
    BY <1>1, <1>2, <1>3, <1>4, <1>5, <1>6 DEF Next

\* The RecentUse flag is set before the caller is uncounted.
LEMMA UseInvNext == TypeOK /\ LocalsInv /\ UseInv /\ [Next]_vars => UseInv'
  <1> SUFFICES ASSUME TypeOK, LocalsInv, UseInv, [Next]_vars
               PROVE  UseInv'
    OBVIOUS
  <1> USE EntryAssumption DEF TypeOK, LocalsInv, HoldingStep, CallerStep,
          CloseStep, Closer, statusVars, entryVars, callerVars, cleanupVars,
          disposeVars, UseInv, UsingStep
  <1>1. ASSUME NEW c \in Caller, NEW n \in Name, Call(c, n)
        PROVE  UseInv'
    BY <1>1 DEF Call, Goto
  <1>2. ASSUME NEW c \in Caller, CallerProgress(c)
        PROVE  UseInv'
    BY <1>2 DEF CallerProgress, EnsureCleanupTimerStarted, LoopCheck, Lookup,
       CreateResolver, AddResolver, Increment, CountIncremented, Resolve,
       SetRecentUse, Decrement, LastCaller, CallerStopsWatcher,
       CallerSetsResult, Return, Goto, Finish, StopWatcher, SetResultThrows
  <1>3. ASSUME NEW k \in Closer, NEW e \in Entry, CloserProgress(k, e)
        PROVE  UseInv'
    BY <1>3 DEF CloserProgress, CreateOnDisposed, NewOnDisposed, SetDisposing,
       DisposesNow, CloserStopsWatcher, CloserSetsResult, AwaitOnDisposed,
       CloseGoto, StopWatcher, SetResultThrows
  <1>4. CASE CleanupProgress
    BY <1>4 DEF CleanupProgress, CleanupResolvers, CleanupVisit, CanExpire,
       ExpireResolver, CleanupScanned, CleanupCompletes, CloseGoto
  <1>5. CASE DisposeProgress
    <2>1. CASE \E n \in Name : DisposeVisit(n)
      BY <2>1 DEF DisposeVisit, CloseGoto
    <2>2. CASE \/ DisposeAwait \/ DisposeClear \/ DisposeEnd
      BY <1>5, <2>2 DEF DisposeAwait, DisposeClear, DisposeEnd
    <2>3. QED
      BY <1>5, <2>1, <2>2 DEF DisposeProgress
  <1>6. CASE TimerTick \/ DisposeBegin \/ UNCHANGED vars
    BY <1>6 DEF TimerTick, DisposeBegin, vars
  <1>7. QED
    BY <1>1, <1>2, <1>3, <1>4, <1>5, <1>6 DEF Next

\* Only Increment and Decrement change the set of counted callers.
LEMMA CountInvNext ==
  TypeOK /\ LocalsInv /\ CountInv /\ [Next]_vars => CountInv'
  <1> SUFFICES ASSUME TypeOK, LocalsInv, CountInv, [Next]_vars
               PROVE  CountInv'
    OBVIOUS
  <1> DEFINE Same == count' = count /\ \A e \in Entry : Counted(e)' = Counted(e)
  <1> USE EntryAssumption DEF TypeOK, LocalsInv, HoldingStep, CallerStep,
          CountedStep, statusVars, entryVars, callerVars
  <1>1. Same => CountInv'
    BY DEF CountInv
  <1>2. ASSUME NEW c \in Caller, Increment(c)
        PROVE  CountInv'
    <2>1. Counted(entry[c])' = Counted(entry[c]) \cup {c}
          /\ c \notin Counted(entry[c])
      BY <1>2 DEF Increment, CountIncremented, Counted, Goto
    <2>2. \A e \in Entry \ {entry[c]} : Counted(e)' = Counted(e)
      BY <1>2 DEF Increment, CountIncremented, Counted, Goto
    <2>3. Cardinality(Counted(entry[c])') = Cardinality(Counted(entry[c])) + 1
      BY <2>1, CountedPlusMinus
    <2>4. QED
      BY <1>2, <2>2, <2>3 DEF CountInv, Increment, CountIncremented
  <1>3. ASSUME NEW c \in Caller, Decrement(c)
        PROVE  CountInv'
    <2>1. Counted(entry[c])' = Counted(entry[c]) \ {c}
          /\ c \in Counted(entry[c])
      BY <1>3 DEF Decrement, LastCaller, Counted, Goto
    <2>2. \A e \in Entry \ {entry[c]} : Counted(e)' = Counted(e)
      BY <1>3 DEF Decrement, LastCaller, Counted, Goto
    <2>3. Cardinality(Counted(entry[c])') = Cardinality(Counted(entry[c])) - 1
      BY <2>1, CountedPlusMinus
    <2>4. QED
      BY <1>3, <2>2, <2>3 DEF CountInv, Decrement
  <1>4. ASSUME NEW c \in Caller,
               \/ EnsureCleanupTimerStarted(c) \/ LoopCheck(c) \/ Lookup(c)
               \/ CreateResolver(c) \/ AddResolver(c) \/ Resolve(c)
               \/ SetRecentUse(c) \/ CallerStopsWatcher(c)
               \/ CallerSetsResult(c) \/ Return(c)
        PROVE  Same
    BY <1>4 DEF EnsureCleanupTimerStarted, LoopCheck, Lookup, CreateResolver,
       AddResolver, Resolve, SetRecentUse, CallerStopsWatcher,
       CallerSetsResult, Return, Goto, Finish, StopWatcher, Counted
  <1>5. ASSUME NEW c \in Caller, NEW n \in Name, Call(c, n)
        PROVE  Same
    BY <1>5 DEF Call, Goto, Counted
  <1>6. ASSUME NEW k \in Closer, NEW e \in Entry, CloserProgress(k, e)
        PROVE  Same
    BY <1>6 DEF CloserProgress, CreateOnDisposed, NewOnDisposed, SetDisposing,
       DisposesNow, Counted, CloserStopsWatcher, CloserSetsResult,
       AwaitOnDisposed, StopWatcher
  <1>7. CASE TimerTick \/ DisposeBegin \/ UNCHANGED vars
    <2>1. Same
      BY <1>7 DEF TimerTick, DisposeBegin, vars, Counted
    <2>2. QED
      BY <1>1, <2>1
  <1>8. CASE CleanupProgress
    <2>1. Same
      BY <1>8 DEF CleanupProgress, CleanupResolvers, CleanupVisit, CanExpire,
         ExpireResolver, CleanupScanned, CleanupCompletes, Counted
    <2>2. QED
      BY <1>1, <2>1
  <1>9. CASE DisposeProgress
    <2>1. Same
      BY <1>9 DEF DisposeProgress, DisposeVisit, DisposeAwait, DisposeClear,
         DisposeEnd, Counted
    <2>2. QED
      BY <1>1, <2>1
  <1>10. QED
    BY <1>1, <1>2, <1>3, <1>4, <1>5, <1>6, <1>7, <1>8, <1>9 DEF Next,
       CallerProgress

\* The two ways to decide that the watcher is disposed, SetDisposing and
\* Decrement, both see a count that excludes a resolving caller; after
\* either, Increment no longer lets a caller resolve.
LEMMA StopInvNext ==
  IndInv /\ [Next]_vars => StopInv'
  <1> SUFFICES ASSUME TypeOK, LocalsInv, CreatedInv, CountInv, FlagInv, StopInv,
                      [Next]_vars
               PROVE  StopInv'
    BY DEF IndInv
  <1> USE EntryAssumption DEF TypeOK, LocalsInv, HoldingStep, CallerStep,
          CountedStep, Closer, CloseStep, statusVars, entryVars, callerVars,
          StopInv, Stopping
  <1>1. ASSUME NEW c \in Caller, Decrement(c)
        PROVE  StopInv'
    <2>1. ASSUME NEW d \in Caller, count[entry[c]] = 1, entry[d] = entry[c],
                 pc[d] = "resolving"
          PROVE  FALSE
      <3>1. pc[c] = "decrement" /\ entry[c] \in Entry
        BY <1>1 DEF Decrement, LastCaller
      <3>2. c = d
        BY <2>1, <3>1, OnlyOneCounted
      <3>3. QED
        BY <2>1, <3>1, <3>2
    <2>2. QED
      BY <1>1, <2>1 DEF Decrement, LastCaller, Goto
  <1>2. ASSUME NEW k \in Closer, NEW e \in Entry, SetDisposing(k, e)
        PROVE  StopInv'
    <2>1. \A c \in Caller :
             count[e] = 0 /\ entry[c] = e => pc[c] # "resolving"
      BY NobodyCounted
    <2>2. QED
      BY <1>2, <2>1 DEF SetDisposing, DisposesNow, CloseGoto
  <1>3. ASSUME NEW c \in Caller, Increment(c)
        PROVE  StopInv'
    BY <1>3 DEF Increment, CountIncremented, Goto
  <1>4. ASSUME NEW c \in Caller, CreateResolver(c)
        PROVE  StopInv'
    BY <1>4 DEF CreateResolver, Goto, Finish
  <1>5. ASSUME NEW c \in Caller,
               \/ EnsureCleanupTimerStarted(c) \/ LoopCheck(c) \/ Lookup(c)
               \/ AddResolver(c) \/ Resolve(c) \/ SetRecentUse(c)
               \/ CallerSetsResult(c) \/ Return(c)
        PROVE  StopInv'
    BY <1>5 DEF EnsureCleanupTimerStarted, LoopCheck, Lookup, AddResolver,
       Resolve, SetRecentUse, CallerSetsResult, Return, Goto, Finish
  <1>6. ASSUME NEW c \in Caller, CallerStopsWatcher(c)
        PROVE  StopInv'
    BY <1>6 DEF CallerStopsWatcher, StopWatcher, Goto
  <1>7. ASSUME NEW k \in Closer, NEW e \in Entry, CloserStopsWatcher(k, e)
        PROVE  StopInv'
    BY <1>7 DEF CloserStopsWatcher, StopWatcher, CloseGoto
  <1>8. ASSUME NEW k \in Closer, NEW e \in Entry,
               \/ CreateOnDisposed(k, e) \/ CloserSetsResult(k, e)
               \/ AwaitOnDisposed(k, e)
        PROVE  StopInv'
    <2>1. \E step \in CloseStep \ {"core"} :
             closing' = [closing EXCEPT ![<<k, e>>] = step]
      BY <1>8 DEF CreateOnDisposed, NewOnDisposed, CloserSetsResult,
         AwaitOnDisposed, CloseGoto
    <2>2. UNCHANGED <<watcher, disposing, pc, entry>>
      BY <1>8 DEF CreateOnDisposed, NewOnDisposed, CloserSetsResult,
         AwaitOnDisposed
    <2>3. QED
      BY <2>1, <2>2
  <1>9. ASSUME NEW c \in Caller, NEW n \in Name, Call(c, n)
        PROVE  StopInv'
    BY <1>9 DEF Call, Goto
  <1>10. CASE TimerTick \/ DisposeBegin \/ UNCHANGED vars
    BY <1>10 DEF TimerTick, DisposeBegin, vars
  <1>11. CASE CleanupProgress
    <2>1. CASE ExpireResolver
      BY <2>1, ExpireStartsClosing DEF ExpireResolver
    <2>2. CASE CleanupProgress /\ ~ExpireResolver
      BY <2>2 DEF CleanupProgress, CleanupResolvers, CleanupVisit, CanExpire,
         CleanupScanned, CleanupCompletes
    <2>3. QED
      BY <1>11, <2>1, <2>2
  <1>12. CASE \E n \in Name : DisposeVisit(n)
    BY <1>12, DisposeStartsClosing DEF DisposeVisit
  <1>13. CASE DisposeAwait \/ DisposeClear \/ DisposeEnd
    BY <1>13 DEF DisposeAwait, DisposeClear, DisposeEnd
  <1>14. QED
    BY <1>1, <1>2, <1>3, <1>4, <1>5, <1>6, <1>7, <1>8, <1>9, <1>10, <1>11,
       <1>12, <1>13 DEF Next, CallerProgress, CloserProgress, DisposeProgress

-----------------------------------------------------------------------------
(* The theorems.                                                           *)

\* An empty resolver satisfies the invariant.
LEMMA IndInvInit == Init => IndInv
  <1> SUFFICES ASSUME Init PROVE IndInv
    OBVIOUS
  <1> USE EntryAssumption DEF Init
  <1>1. TypeOK
    BY DEF TypeOK, CallerStep, CloseStep
  <1>2. LocalsInv /\ CreatedInv /\ FlagInv /\ StopInv /\ UseInv
    BY DEF LocalsInv, HoldingStep, CallerStep, CreatedInv, FlagInv, StopInv,
       Stopping, UseInv, Closer
  <1>3. \A e \in Entry : Counted(e) = {}
    BY DEF Counted, CountedStep
  <1>4. CountInv
    BY <1>3, FS_EmptySet DEF CountInv
  <1>5. QED
    BY <1>1, <1>2, <1>4 DEF IndInv

\* The inductive invariant holds in every reachable state.
THEOREM Invariance == Spec => []IndInv
  <1>1. IndInv /\ [Next]_vars => IndInv'
    BY TypeOKNext, LocalsInvNext, CreatedInvNext, CountInvNext, FlagInvNext,
       StopInvNext, UseInvNext DEF IndInv
  <1>2. QED
    BY <1>1, IndInvInit, PTL DEF Spec

\* Every variable keeps its type; in particular the 62-bit caller count of
\* _status is never decremented below zero.
THEOREM TypeCorrect == Spec => []TypeOK
  BY Invariance, PTL DEF IndInv

\* "We ensure that it will not be disposed while we are resolving"
\* (ServiceEndpointResolver.cs:198), for any number of callers, services,
\* entries, cleanups and calls.
THEOREM ResolvingIsSafe == Spec => []NotDisposedWhileResolving
  <1>1. IndInv => NotDisposedWhileResolving
    <2> SUFFICES ASSUME IndInv, NEW c \in Caller, pc[c] = "resolving"
                 PROVE  watcher[entry[c]] = "started"
      BY DEF NotDisposedWhileResolving
    <2>1. entry[c] \in Entry
      BY DEF IndInv, LocalsInv, HoldingStep, CallerStep
    <2>2. watcher[entry[c]] # "fresh"
      BY <2>1 DEF IndInv, CreatedInv
    <2>3. watcher[entry[c]] # "stopped"
      BY <2>1 DEF IndInv, StopInv, Stopping
    <2>4. QED
      BY <2>1, <2>2, <2>3 DEF IndInv, TypeOK
  <1>2. QED
    BY <1>1, Invariance, PTL

\* The Debug.Assert of DisposeAsyncCore (ServiceEndpointResolver.cs:250)
\* never fails, on whichever thread DisposeAsyncCore runs.
THEOREM AssertHolds == Spec => []OnDisposedExists
  <1>1. IndInv => OnDisposedExists
    BY DEF IndInv, FlagInv, OnDisposedExists, LocalsInv, HoldingStep,
       CallerStep
  <1>2. QED
    BY <1>1, Invariance, PTL

\* A use of an entry is visible to the cleanup from its start until the first
\* CanExpire after its end.
THEOREM RecentUseIsKept == Spec => []RecentUseKept
  <1>1. IndInv => RecentUseKept
    <2> SUFFICES ASSUME IndInv, NEW e \in used, ~recent[e]
                 PROVE  count[e] > 0
      BY DEF RecentUseKept
    <2>1. PICK c \in Caller : pc[c] \in UsingStep /\ entry[c] = e
      BY DEF IndInv, UseInv
    <2>2. count[e] - 1 \in Nat
      BY <2>1, CountedPositive DEF IndInv, UsingStep, CountedStep
    <2>3. count[e] \in Nat
      BY DEF IndInv, TypeOK
    <2>4. QED
      BY <2>2, <2>3
  <1>2. QED
    BY <1>1, Invariance, PTL

-----------------------------------------------------------------------------
(* No watcher is lost before DisposeAsync, except by the race in GetOrAdd. *)

\* The steps of a caller between its Increment and the end of the call.
AfterIncrement == {"resolving", "recent", "decrement", "core", "set", "return"}

\* A caller is told that its entry is not valid only when the entry is flagged.
InvalidInv ==
    \A c \in Caller :
       pc[c] \in AfterIncrement /\ ~valid[c] => disposing[entry[c]]

\* _onDisposed is completed only after the watcher has been disposed.
SetInv ==
    /\ \A e \in Entry : onDisposed[e] = "set" => watcher[e] = "stopped"
    /\ \A c \in Caller : pc[c] = "set" => watcher[entry[c]] = "stopped"
    /\ \A k \in Closer, e \in Entry :
          closing[<<k, e>>] = "set" => watcher[e] = "stopped"

\* An entry is in one place: under one name, or held by the one caller that
\* has created it and will try to add it.
OnePlace ==
    /\ \A n, m \in Name :
          resolvers[n] \in Entry /\ resolvers[n] = resolvers[m] => n = m
    /\ \A c \in Caller, n \in Name : pc[c] = "add" => resolvers[n] # entry[c]
    /\ \A c, d \in Caller :
          pc[c] = "add" /\ pc[d] = "add" /\ entry[c] = entry[d] => c = d

\* Nobody has called DisposeAsync of an entry that is in such a place, or that
\* does not exist yet.
NotClosedYet ==
    \A e \in Entry : InDictionary(e) \/ Held(e) \/ watcher[e] = "fresh" =>
       closing[<<"cleanup", e>>] = "none"

\* The entry the cleanup task looks at is still the one of its name: TryRemove,
\* which is by name, removes that very entry.
SameEntry ==
    cleanupAt \in {"expire", "remove"} => resolvers[cleanupName] = cleanupEntry

\* Only a call of DisposeAsync of the entry sets its Disposing flag.
FlaggedByCleanup ==
    \A e \in Entry : disposing[e] => closing[<<"cleanup", e>>] # "none"

\* The entries are disposed by the cleanup task alone.
NotDisposed ==
    disposeAt = "idle" /\ \A e \in Entry : closing[<<"dispose", e>>] = "none"

BeforeDispose ==
    ~disposed => /\ NotDisposed
                 /\ OnePlace
                 /\ NotClosedYet
                 /\ SameEntry
                 /\ FlaggedByCleanup

LeakInv == InvalidInv /\ SetInv /\ BeforeDispose /\ LeaksOnlyRaceLosers

\* The result of Increment stays true, because the flag is never cleared.
LEMMA InvalidInvNext ==
  TypeOK /\ LocalsInv /\ InvalidInv /\ [Next]_vars => InvalidInv'
  <1> SUFFICES ASSUME TypeOK, LocalsInv, InvalidInv, [Next]_vars
               PROVE  InvalidInv'
    OBVIOUS
  <1> USE EntryAssumption DEF TypeOK, LocalsInv, HoldingStep, CallerStep,
          CloseStep, Closer, statusVars, entryVars, callerVars, cleanupVars,
          disposeVars, InvalidInv, AfterIncrement
  <1>1. ASSUME NEW c \in Caller, NEW n \in Name, Call(c, n)
        PROVE  InvalidInv'
    BY <1>1 DEF Call, Goto
  <1>2. ASSUME NEW c \in Caller, CallerProgress(c)
        PROVE  InvalidInv'
    <2>1. disposing' = disposing
      BY <1>2 DEF CallerProgress, EnsureCleanupTimerStarted, LoopCheck, Lookup,
         CreateResolver, AddResolver, Increment, Resolve, SetRecentUse,
         Decrement, CallerStopsWatcher, CallerSetsResult, Return
    <2>2. CASE Increment(c)
      <3>1. entry' = entry
            /\ \A d \in Caller : d # c => pc'[d] = pc[d] /\ valid'[d] = valid[d]
        BY <2>2 DEF Increment, Goto
      <3>2. valid'[c] = ~disposing[entry[c]]
        BY <2>2, Zenon DEF Increment
      <3>3. ~valid'[c] => disposing[entry[c]]
        BY <3>2
      <3>4. QED
        BY <2>1, <3>1, <3>3
    <2>3. CASE \/ Resolve(c) \/ SetRecentUse(c) \/ Decrement(c)
               \/ CallerStopsWatcher(c)
      BY <2>1, <2>3 DEF Resolve, SetRecentUse, Decrement, CallerStopsWatcher,
         Goto
    <2>4. CASE \/ EnsureCleanupTimerStarted(c) \/ LoopCheck(c) \/ Lookup(c)
               \/ CreateResolver(c) \/ AddResolver(c)
      BY <2>1, <2>4 DEF EnsureCleanupTimerStarted, LoopCheck, Lookup,
         CreateResolver, AddResolver, Goto, Finish
    <2>5. CASE CallerSetsResult(c)
      BY <2>1, <2>5 DEF CallerSetsResult, Goto, Finish
    <2>6. CASE Return(c)
      BY <2>1, <2>6 DEF Return, Goto, Finish
    <2>7. QED
      BY <1>2, <2>2, <2>3, <2>4, <2>5, <2>6 DEF CallerProgress
  <1>3. ASSUME NEW k \in Closer, NEW e \in Entry, CloserProgress(k, e)
        PROVE  InvalidInv'
    BY <1>3 DEF CloserProgress, CreateOnDisposed, NewOnDisposed, SetDisposing,
       DisposesNow, CloserStopsWatcher, CloserSetsResult, AwaitOnDisposed,
       CloseGoto, StopWatcher, SetResultThrows
  <1>4. CASE CleanupProgress
    BY <1>4 DEF CleanupProgress, CleanupResolvers, CleanupVisit, CanExpire,
       ExpireResolver, CleanupScanned, CleanupCompletes, CloseGoto
  <1>5. CASE DisposeProgress
    <2>1. UNCHANGED <<pc, entry, valid, disposing>>
      BY <1>5 DEF DisposeProgress, DisposeVisit, DisposeAwait, DisposeClear,
         DisposeEnd
    <2>2. QED
      BY <2>1
  <1>6. CASE TimerTick \/ DisposeBegin \/ UNCHANGED vars
    BY <1>6 DEF TimerTick, DisposeBegin, vars
  <1>7. QED
    BY <1>1, <1>2, <1>3, <1>4, <1>5, <1>6 DEF Next

\* DisposeAsyncCore completes _onDisposed after it has disposed the watcher,
\* which stays disposed.
LEMMA SetInvNext == TypeOK /\ LocalsInv /\ SetInv /\ [Next]_vars => SetInv'
  <1> SUFFICES ASSUME TypeOK, LocalsInv, SetInv, [Next]_vars
               PROVE  SetInv'
    OBVIOUS
  <1> USE EntryAssumption DEF TypeOK, LocalsInv, HoldingStep, CallerStep,
          CloseStep, Closer, statusVars, entryVars, callerVars, cleanupVars,
          disposeVars, SetInv
  <1>1. ASSUME NEW c \in Caller, NEW n \in Name, Call(c, n)
        PROVE  SetInv'
    BY <1>1 DEF Call, Goto
  <1>2. ASSUME NEW c \in Caller, CallerProgress(c)
        PROVE  SetInv'
    BY <1>2 DEF CallerProgress, EnsureCleanupTimerStarted, LoopCheck, Lookup,
       CreateResolver, AddResolver, Increment, CountIncremented, Resolve,
       SetRecentUse, Decrement, LastCaller, CallerStopsWatcher,
       CallerSetsResult, Return, Goto, Finish, StopWatcher, SetResultThrows
  <1>3. ASSUME NEW k \in Closer, NEW e \in Entry, CloserProgress(k, e)
        PROVE  SetInv'
    <2>1. CASE CreateOnDisposed(k, e)
      BY <2>1 DEF CreateOnDisposed, NewOnDisposed, CloseGoto
    <2>2. CASE SetDisposing(k, e)
      BY <2>2 DEF SetDisposing, DisposesNow, CloseGoto
    <2>3. CASE CloserStopsWatcher(k, e)
      BY <2>3 DEF CloserStopsWatcher, StopWatcher, CloseGoto
    <2>4. CASE CloserSetsResult(k, e)
      BY <2>4 DEF CloserSetsResult, CloseGoto, SetResultThrows
    <2>5. CASE AwaitOnDisposed(k, e)
      BY <2>5 DEF AwaitOnDisposed, CloseGoto
    <2>6. QED
      BY <1>3, <2>1, <2>2, <2>3, <2>4, <2>5 DEF CloserProgress
  <1>4. CASE CleanupProgress
    <2>1. CASE ExpireResolver
      BY <2>1, ExpireStartsClosing DEF ExpireResolver
    <2>2. CASE CleanupProgress /\ ~ExpireResolver
      BY <2>2 DEF CleanupProgress, CleanupResolvers, CleanupVisit, CanExpire,
         CleanupScanned, CleanupCompletes
    <2>3. QED
      BY <1>4, <2>1, <2>2
  <1>5. CASE DisposeProgress
    <2>1. CASE \E n \in Name : DisposeVisit(n)
      BY <2>1, DisposeStartsClosing DEF DisposeVisit
    <2>2. CASE DisposeAwait \/ DisposeClear \/ DisposeEnd
      BY <2>2 DEF DisposeAwait, DisposeClear, DisposeEnd
    <2>3. QED
      BY <1>5, <2>1, <2>2 DEF DisposeProgress
  <1>6. CASE TimerTick \/ DisposeBegin \/ UNCHANGED vars
    BY <1>6 DEF TimerTick, DisposeBegin, vars
  <1>7. QED
    BY <1>1, <1>2, <1>3, <1>4, <1>5, <1>6 DEF Next

\* _disposed is never cleared.
LEMMA DisposedStays ==
  ASSUME [Next]_vars, ~disposed'
  PROVE  ~disposed
  <1> USE DEF statusVars, entryVars, callerVars, cleanupVars, disposeVars
  <1>1. disposed' = disposed \/ DisposeBegin
    BY DEF Next, Call, CallerProgress, EnsureCleanupTimerStarted, LoopCheck,
       Lookup, CreateResolver, AddResolver, Increment, Resolve, SetRecentUse,
       Decrement, CallerStopsWatcher, CallerSetsResult, Return,
       CloserProgress, CreateOnDisposed, SetDisposing, CloserStopsWatcher,
       CloserSetsResult, AwaitOnDisposed, TimerTick, CleanupProgress,
       CleanupResolvers, CleanupVisit, CanExpire, ExpireResolver,
       CleanupScanned, CleanupCompletes, DisposeProgress, DisposeVisit,
       DisposeAwait, DisposeClear, DisposeEnd, vars
  <1>2. ~DisposeBegin
    BY DEF DisposeBegin
  <1>3. QED
    BY <1>1, <1>2

\* Before _disposed is set no step is one of DisposeAsync.
LEMMA StillNotDisposed ==
  ASSUME TypeOK, NotDisposed, [Next]_vars, ~disposed'
  PROVE  /\ ~DisposeBegin /\ ~DisposeProgress
         /\ \A e \in Entry : ~CloserProgress("dispose", e)
         /\ NotDisposed'
  <1> USE DEF statusVars, entryVars, callerVars, cleanupVars, disposeVars,
          NotDisposed
  <1>1. ~DisposeBegin
    BY DEF DisposeBegin
  <1>2. ~DisposeProgress
    BY DEF DisposeProgress, DisposeVisit, DisposeAwait, DisposeClear,
       DisposeEnd
  <1>3. \A e \in Entry : ~CloserProgress("dispose", e)
    BY DEF CloserProgress, CreateOnDisposed, SetDisposing,
       CloserStopsWatcher, CloserSetsResult, AwaitOnDisposed
  <1>4. ASSUME NEW c \in Caller, CallerProgress(c) \/ \E n \in Name : Call(c, n)
        PROVE  UNCHANGED <<disposed, disposeAt, closing>>
    BY <1>4 DEF CallerProgress, EnsureCleanupTimerStarted, LoopCheck, Lookup,
       CreateResolver, AddResolver, Increment, CountIncremented, Resolve,
       SetRecentUse, Decrement, LastCaller, CallerStopsWatcher,
       CallerSetsResult, Return, Goto, Finish, StopWatcher, SetResultThrows, Call
  <1>5. ASSUME NEW e \in Entry, CloserProgress("cleanup", e)
        PROVE  UNCHANGED <<disposed, disposeAt>>
               /\ \A f \in Entry : closing'[<<"dispose", f>>] = closing[<<"dispose", f>>]
    BY <1>5 DEF CloserProgress, CreateOnDisposed, NewOnDisposed, SetDisposing,
       DisposesNow, CloserStopsWatcher, CloserSetsResult, AwaitOnDisposed,
       CloseGoto, StopWatcher, SetResultThrows, TypeOK, Closer
  <1>6. CASE CleanupProgress
    <2>1. UNCHANGED <<disposed, disposeAt>>
      BY <1>6 DEF CleanupProgress, CleanupResolvers, CleanupVisit, CanExpire,
       ExpireResolver, CleanupScanned, CleanupCompletes, CloseGoto
    <2>2. \A f \in Entry : closing'[<<"dispose", f>>] = closing[<<"dispose", f>>]
      BY <1>6 DEF CleanupProgress, CleanupResolvers, CleanupVisit, CanExpire,
       ExpireResolver, CleanupScanned, CleanupCompletes, CloseGoto, TypeOK, Closer
    <2>3. QED
      BY <1>1, <1>2, <1>3, <2>1, <2>2
  <1>7. CASE TimerTick \/ UNCHANGED vars
    BY <1>1, <1>2, <1>3, <1>7 DEF TimerTick, vars
  <1>8. QED
    BY <1>1, <1>2, <1>3, <1>4, <1>5, <1>6, <1>7 DEF Next, Closer

\* An entry that a caller takes out of the dictionary, because it is flagged,
\* is not there any more: the cleanup task removed it first.
LEMMA ReturnRemovesNothing ==
  ASSUME TypeOK, LocalsInv, InvalidInv, NotClosedYet, FlaggedByCleanup,
         NEW c \in Caller, Return(c)
  PROVE  resolvers' = resolvers
  <1>1. CASE valid[c]
    BY <1>1 DEF Return
  <1>2. CASE ~valid[c]
    <2>1. entry[c] \in Entry /\ disposing[entry[c]]
      BY <1>2 DEF Return, LocalsInv, HoldingStep, CallerStep, InvalidInv,
         AfterIncrement
    <2>2. closing[<<"cleanup", entry[c]>>] # "none"
      BY <2>1 DEF FlaggedByCleanup
    <2>3. name[c] \in Name /\ resolvers \in [Name -> Entry \cup {NoEntry}]
      BY DEF TypeOK
    <2>4. resolvers[name[c]] # entry[c]
      BY <2>1, <2>2, <2>3 DEF NotClosedYet, InDictionary
    <2>5. resolvers' = [resolvers EXCEPT ![name[c]] =
                          IF resolvers[name[c]] = entry[c]
                          THEN NoEntry ELSE resolvers[name[c]]]
      BY <1>2 DEF Return
    <2>6. QED
      BY <2>3, <2>4, <2>5
  <1>3. QED
    BY <1>1, <1>2

\* The step moves no entry into the dictionary, out of it, or into the hands
\* of a caller that will add it.
SamePlaces ==
    /\ resolvers' = resolvers
    /\ \A c \in Caller : IF pc[c] = "add"
                         THEN pc'[c] = "add" /\ entry'[c] = entry[c]
                         ELSE pc'[c] # "add"

\* Entry e is created and held by caller c.
Creates(c, e) ==
    /\ watcher[e] = "fresh"
    /\ watcher' = [watcher EXCEPT ![e] = "started"]
    /\ pc[c] = "create" /\ pc' = [pc EXCEPT ![c] = "add"]
    /\ entry' = [entry EXCEPT ![c] = e]
    /\ UNCHANGED <<resolvers, closing, disposing, cleanupVars, lostRace>>

\* The cleanup task removes the entry it has looked at and disposes it.
Expires ==
    /\ cleanupAt' = "scan"
    /\ resolvers[cleanupName] = cleanupEntry
    /\ cleanupEntry \in Entry
    /\ resolvers' = [resolvers EXCEPT ![cleanupName] = NoEntry]
    /\ closing' = [closing EXCEPT ![<<"cleanup", cleanupEntry>>] = "create"]
    /\ UNCHANGED <<pc, entry, watcher, disposing, lostRace>>

\* TryRemove by name takes the entry the cleanup task has looked at.
LEMMA ExpireMoves ==
  ASSUME LocalsInv, SameEntry, ExpireResolver
  PROVE  Expires
  <1>1. resolvers[cleanupName] = cleanupEntry /\ cleanupEntry \in Entry
    BY DEF ExpireResolver, SameEntry, LocalsInv
  <1>2. QED
    BY <1>1, EntryAssumption DEF ExpireResolver, Expires, CloseGoto, entryVars,
       statusVars, callerVars

\* Before DisposeAsync, the steps that move an entry.
LEMMA MovingSteps ==
  ASSUME TypeOK, LocalsInv, InvalidInv, BeforeDispose, [Next]_vars, ~disposed'
  PROVE  \/ SamePlaces
         \/ \E c \in Caller, e \in Entry : Creates(c, e)
         \/ \E c \in Caller : AddResolver(c)
         \/ ExpireResolver
  <1> USE DEF statusVars, entryVars, callerVars, cleanupVars, disposeVars
  <1> pc \in [Caller -> CallerStep] /\ entry \in [Caller -> Entry \cup {NoEntry}]
    BY DEF TypeOK
  <1>1. NotDisposed /\ NotClosedYet /\ FlaggedByCleanup
    BY DisposedStays DEF BeforeDispose
  <1>2. ~DisposeBegin /\ ~DisposeProgress
    BY <1>1, StillNotDisposed
  <1>3. ASSUME NEW c \in Caller, CreateResolver(c)
        PROVE  SamePlaces \/ \E e \in Entry : Creates(c, e)
    <2>1. CASE Finish(c)
      BY <1>3, <2>1 DEF CreateResolver, SamePlaces, Finish, Goto
    <2>2. CASE ~Finish(c)
      BY <1>3, <2>2 DEF CreateResolver, Creates, Goto
    <2>3. QED
      BY <2>1, <2>2
  <1>4. ASSUME NEW c \in Caller, Return(c)
        PROVE  SamePlaces
    <2>1. resolvers' = resolvers
      BY <1>1, <1>4, ReturnRemovesNothing
    <2>2. QED
      BY <1>4, <2>1 DEF Return, SamePlaces, Finish, Goto
  <1>5. ASSUME NEW c \in Caller, NEW n \in Name, Call(c, n)
        PROVE  SamePlaces
    BY <1>5 DEF Call, SamePlaces, Goto
  <1>6. ASSUME NEW c \in Caller,
               \/ EnsureCleanupTimerStarted(c) \/ LoopCheck(c) \/ Lookup(c)
               \/ Increment(c) \/ Resolve(c) \/ SetRecentUse(c)
               \/ Decrement(c) \/ CallerStopsWatcher(c)
               \/ CallerSetsResult(c)
        PROVE  SamePlaces
    BY <1>6 DEF EnsureCleanupTimerStarted, LoopCheck, Lookup, Increment,
       Resolve, SetRecentUse, Decrement, CallerStopsWatcher,
       CallerSetsResult, SamePlaces, Finish, Goto
  <1>7. ASSUME NEW k \in Closer, NEW e \in Entry, CloserProgress(k, e)
        PROVE  SamePlaces
    BY <1>7 DEF CloserProgress, CreateOnDisposed, SetDisposing,
       CloserStopsWatcher, CloserSetsResult, AwaitOnDisposed, SamePlaces
  <1>8. CASE CleanupProgress /\ ~ExpireResolver
    BY <1>8 DEF CleanupProgress, CleanupResolvers, CleanupVisit, CanExpire,
       CleanupScanned, CleanupCompletes, SamePlaces
  <1>9. CASE TimerTick \/ UNCHANGED vars
    BY <1>9 DEF TimerTick, vars, SamePlaces
  <1>10. QED
    BY <1>2, <1>3, <1>4, <1>5, <1>6, <1>7, <1>8, <1>9
       DEF Next, CallerProgress

\* Calls of an entry's DisposeAsync are started by ExpireResolver and do not
\* start over.
LEMMA ClosingSteps ==
  ASSUME TypeOK, NotDisposed, [Next]_vars, ~disposed', NEW e \in Entry
  PROVE  /\ closing[<<"cleanup", e>>] # "none" =>
               closing'[<<"cleanup", e>>] # "none"
         /\ closing[<<"cleanup", e>>] = "none" =>
               \/ closing'[<<"cleanup", e>>] = "none"
               \/ ExpireResolver /\ e = cleanupEntry
  <1> USE DEF statusVars, entryVars, callerVars, cleanupVars, disposeVars
  <1> closing \in [Closer \X Entry -> CloseStep] /\ "cleanup" \in Closer
    BY DEF TypeOK, Closer
  <1>1. ~DisposeBegin /\ ~DisposeProgress
    BY StillNotDisposed
  <1>2. ASSUME NEW c \in Caller, CallerProgress(c) \/ \E n \in Name : Call(c, n)
        PROVE  closing' = closing
    BY <1>2 DEF Call, CallerProgress, EnsureCleanupTimerStarted, LoopCheck, Lookup,
       CreateResolver, AddResolver, Increment, Resolve, SetRecentUse,
       Decrement, CallerStopsWatcher, CallerSetsResult, Return
  <1>3. ASSUME NEW k \in Closer, NEW f \in Entry, CloserProgress(k, f)
        PROVE  /\ closing[<<"cleanup", e>>] # "none" =>
                     closing'[<<"cleanup", e>>] # "none"
               /\ closing[<<"cleanup", e>>] = "none" =>
                     closing'[<<"cleanup", e>>] = "none"
    BY <1>3 DEF CloserProgress, CreateOnDisposed, SetDisposing,
       CloserStopsWatcher, CloserSetsResult, AwaitOnDisposed, CloseGoto
  <1>4. CASE ExpireResolver
    BY <1>4 DEF ExpireResolver, CloseGoto
  <1>5. CASE CleanupProgress /\ ~ExpireResolver
    BY <1>5 DEF CleanupProgress, CleanupResolvers, CleanupVisit, CanExpire,
       CleanupScanned, CleanupCompletes
  <1>6. CASE TimerTick \/ UNCHANGED vars
    BY <1>6 DEF TimerTick, vars
  <1>7. QED
    BY <1>1, <1>2, <1>3, <1>4, <1>5, <1>6 DEF Next

\* Watchers are created, and started, by CreateResolver alone.
LEMMA WatcherSteps ==
  ASSUME TypeOK, [Next]_vars, NEW e \in Entry
  PROVE  /\ watcher'[e] = "fresh" => watcher[e] = "fresh"
         /\ watcher'[e] = "started" =>
               watcher[e] = "started" \/ \E c \in Caller : Creates(c, e)
  <1> USE DEF statusVars, entryVars, callerVars, cleanupVars, disposeVars
  <1> watcher \in [Entry -> {"fresh", "started", "stopped"}]
    BY DEF TypeOK
  <1>1. ASSUME NEW c \in Caller, CreateResolver(c)
        PROVE  watcher' = watcher \/ \E f \in Entry : Creates(c, f)
    BY <1>1 DEF CreateResolver, Creates, Goto
  <1>2. ASSUME NEW c \in Caller, NEW f \in Entry, Creates(c, f)
        PROVE  /\ watcher'[e] = "fresh" => watcher[e] = "fresh"
               /\ watcher'[e] = "started" => watcher[e] = "started" \/ f = e
    BY <1>2 DEF Creates
  <1>3. CASE /\ ~\E c \in Caller : CreateResolver(c)
    <2>1. watcher'[e] \in {watcher[e], "stopped"}
      BY <1>3 DEF Next, Call, CallerProgress, EnsureCleanupTimerStarted, LoopCheck, Lookup,
       CreateResolver, AddResolver, Increment, Resolve, SetRecentUse,
       Decrement, CallerStopsWatcher, CallerSetsResult, Return,
         CloserProgress, CreateOnDisposed, SetDisposing, CloserStopsWatcher,
         CloserSetsResult, AwaitOnDisposed, StopWatcher, TimerTick,
         CleanupProgress, CleanupResolvers, CleanupVisit, CanExpire,
         ExpireResolver, CleanupScanned, CleanupCompletes, DisposeBegin,
         DisposeProgress, DisposeVisit, DisposeAwait, DisposeClear,
         DisposeEnd, vars
    <2>2. QED
      BY <2>1
  <1>4. QED
    BY <1>1, <1>2, <1>3

\* Only a call of DisposeAsync sets the flag.
LEMMA FlagSteps ==
  ASSUME TypeOK, NotDisposed, [Next]_vars, ~disposed', NEW e \in Entry,
         disposing'[e]
  PROVE  disposing[e] \/ closing[<<"cleanup", e>>] # "none"
  <1> USE DEF statusVars, entryVars, callerVars, cleanupVars, disposeVars
  <1>1. CASE \E k \in Closer, f \in Entry : SetDisposing(k, f)
    <2>1. PICK k \in Closer, f \in Entry : SetDisposing(k, f)
      BY <1>1
    <2>2. closing[<<k, f>>] = "flag" /\ disposing' = [disposing EXCEPT ![f] = TRUE]
      BY <2>1 DEF SetDisposing
    <2>3. k = "cleanup"
      BY <2>2 DEF NotDisposed, Closer
    <2>4. CASE e = f
      BY <2>2, <2>3, <2>4
    <2>5. CASE e # f
      BY <2>2, <2>5 DEF TypeOK
    <2>6. QED
      BY <2>4, <2>5
  <1>2. CASE ~\E k \in Closer, f \in Entry : SetDisposing(k, f)
    <2>1. disposing' = disposing
      BY <1>2 DEF Next, Call, CallerProgress, EnsureCleanupTimerStarted, LoopCheck, Lookup,
       CreateResolver, AddResolver, Increment, Resolve, SetRecentUse,
       Decrement, CallerStopsWatcher, CallerSetsResult, Return,
         CloserProgress, CreateOnDisposed, CloserStopsWatcher,
         CloserSetsResult, AwaitOnDisposed, TimerTick,
         CleanupProgress, CleanupResolvers, CleanupVisit, CanExpire,
         ExpireResolver, CleanupScanned, CleanupCompletes, DisposeBegin,
         DisposeProgress, DisposeVisit, DisposeAwait, DisposeClear,
         DisposeEnd, vars
    <2>2. QED
      BY <2>1
  <1>3. QED
    BY <1>1, <1>2

\* Every entry stays in one place.
LEMMA OnePlaceNext ==
  ASSUME TypeOK, LocalsInv, CreatedInv, InvalidInv, BeforeDispose,
         [Next]_vars, ~disposed'
  PROVE  OnePlace'
  <1> USE EntryAssumption DEF OnePlace
  <1> /\ resolvers \in [Name -> Entry \cup {NoEntry}]
      /\ pc \in [Caller -> CallerStep]
      /\ entry \in [Caller -> Entry \cup {NoEntry}]
      /\ name \in [Caller -> Name]
      /\ cleanupName \in Name
    BY DEF TypeOK
  <1>1. OnePlace /\ SameEntry
    BY DisposedStays DEF BeforeDispose
  <1>2. CASE SamePlaces
    BY <1>1, <1>2 DEF SamePlaces
  <1>3. ASSUME NEW c \in Caller, NEW e \in Entry, Creates(c, e)
        PROVE  OnePlace'
    <2>1. \A d \in Caller : entry[d] # e
      BY <1>3 DEF Creates, CreatedInv
    <2>2. \A n \in Name : resolvers[n] # e
      BY <1>3 DEF Creates, CreatedInv
    <2>3. QED
      BY <1>1, <1>3, <2>1, <2>2 DEF Creates
  <1>4. ASSUME NEW c \in Caller, AddResolver(c)
        PROVE  OnePlace'
    <2>1. entry[c] \in Entry /\ pc[c] = "add"
      BY <1>4 DEF AddResolver, LocalsInv, HoldingStep, CallerStep
    <2>2. \A d \in Caller : d # c => pc'[d] = pc[d] /\ entry'[d] = entry[d]
      BY <1>4 DEF AddResolver, Goto
    <2>3. pc'[c] # "add"
      BY <1>4 DEF AddResolver, Goto
    <2>4. CASE resolvers[name[c]] = NoEntry
      <3>1. resolvers' = [resolvers EXCEPT ![name[c]] = entry[c]]
        BY <1>4, <2>4 DEF AddResolver
      <3>2. \A n \in Name : resolvers'[n] = IF n = name[c] THEN entry[c] ELSE resolvers[n]
        BY <3>1
      <3>3. QED
        BY <1>1, <2>1, <2>2, <2>3, <3>2
    <2>5. CASE resolvers[name[c]] # NoEntry
      <3>1. resolvers' = resolvers
        BY <1>4, <2>5 DEF AddResolver
      <3>2. QED
        BY <1>1, <2>2, <2>3, <3>1
    <2>6. QED
      BY <2>4, <2>5
  <1>5. CASE ExpireResolver
    <2>1. Expires
      BY <1>1, <1>5, ExpireMoves
    <2>2. UNCHANGED <<pc, entry>>
      BY <2>1 DEF Expires
    <2>3. \A n \in Name : resolvers'[n] \in {resolvers[n], NoEntry}
      BY <2>1 DEF Expires
    <2>4. \A c \in Caller : pc[c] = "add" => entry[c] \in Entry
      BY DEF LocalsInv, HoldingStep, CallerStep
    <2>5. QED
      BY <1>1, <2>2, <2>3, <2>4
  <1>6. QED
    BY <1>2, <1>3, <1>4, <1>5, MovingSteps

\* No entry is disposed in its place: the cleanup task removes it first.
LEMMA NotClosedYetNext ==
  ASSUME TypeOK, LocalsInv, CreatedInv, InvalidInv, BeforeDispose,
         [Next]_vars, ~disposed'
  PROVE  NotClosedYet'
  <1> USE EntryAssumption
  <1> /\ resolvers \in [Name -> Entry \cup {NoEntry}]
      /\ pc \in [Caller -> CallerStep]
      /\ entry \in [Caller -> Entry \cup {NoEntry}]
      /\ name \in [Caller -> Name]
      /\ cleanupName \in Name
    BY DEF TypeOK
  <1>1. OnePlace /\ NotClosedYet /\ NotDisposed /\ SameEntry
    BY DisposedStays DEF BeforeDispose
  <1> SUFFICES ASSUME NEW e \in Entry,
                      InDictionary(e)' \/ Held(e)' \/ watcher'[e] = "fresh"
               PROVE  closing'[<<"cleanup", e>>] = "none"
    BY DEF NotClosedYet
  <1>2. ASSUME InDictionary(e) \/ Held(e) \/ watcher[e] = "fresh",
               ~(ExpireResolver /\ e = cleanupEntry)
        PROVE  closing'[<<"cleanup", e>>] = "none"
    BY <1>1, <1>2, ClosingSteps DEF NotClosedYet
  <1>3. InDictionary(e)' \/ Held(e)' \/ watcher[e] = "fresh"
    BY WatcherSteps
  <1>4. CASE ~ExpireResolver
    <2>1. CASE SamePlaces
      BY <1>2, <1>3, <1>4, <2>1 DEF SamePlaces, InDictionary, Held
    <2>2. ASSUME NEW c \in Caller, NEW f \in Entry, Creates(c, f)
          PROVE  closing'[<<"cleanup", e>>] = "none"
      <3>1. InDictionary(e) \/ Held(e) \/ watcher[e] = "fresh"
        BY <1>3, <2>2 DEF Creates, InDictionary, Held
      <3>2. QED
        BY <1>2, <1>4, <3>1
    <2>3. ASSUME NEW c \in Caller, AddResolver(c)
          PROVE  closing'[<<"cleanup", e>>] = "none"
      <3>1. pc[c] = "add" /\ \A d \in Caller : pc'[d] = "add" =>
               pc[d] = "add" /\ entry'[d] = entry[d]
        BY <2>3 DEF AddResolver, Goto
      <3>2. \A n \in Name : resolvers'[n] \in {resolvers[n], entry[c]}
        BY <2>3 DEF AddResolver
      <3>3. InDictionary(e) \/ Held(e) \/ watcher[e] = "fresh"
        BY <1>3, <3>1, <3>2 DEF InDictionary, Held
      <3>4. QED
        BY <1>2, <1>4, <3>3
    <2>4. QED
      BY <1>4, <2>1, <2>2, <2>3, MovingSteps
  <1>5. CASE ExpireResolver
    <2>1. Expires
      BY <1>1, <1>5, ExpireMoves
    <2>2. \A n \in Name : resolvers'[n] = IF n = cleanupName THEN NoEntry
                                          ELSE resolvers[n]
      BY <2>1 DEF Expires
    <2>3. \A n \in Name : resolvers'[n] # cleanupEntry
      BY <1>1, <2>1, <2>2 DEF Expires, OnePlace
    <2>4. \A c \in Caller : pc'[c] = "add" => entry'[c] # cleanupEntry
      BY <1>1, <2>1 DEF Expires, OnePlace
    <2>5. watcher[cleanupEntry] # "fresh"
      BY <2>1 DEF Expires, CreatedInv
    <2>6. e # cleanupEntry
      BY <1>3, <2>3, <2>4, <2>5 DEF InDictionary, Held
    <2>7. InDictionary(e) \/ Held(e) \/ watcher[e] = "fresh"
      BY <1>3, <2>1, <2>2 DEF Expires, InDictionary, Held
    <2>8. QED
      BY <1>2, <2>6, <2>7
  <1>6. QED
    BY <1>4, <1>5

\* Nothing takes the entry the cleanup task looks at out of the dictionary.
LEMMA SameEntryNext ==
  ASSUME TypeOK, LocalsInv, InvalidInv, BeforeDispose, [Next]_vars, ~disposed'
  PROVE  SameEntry'
  <1> USE EntryAssumption DEF statusVars, entryVars, callerVars, cleanupVars,
          disposeVars
  <1>1. SameEntry /\ NotDisposed
    BY DisposedStays DEF BeforeDispose
  <1> SUFFICES ASSUME cleanupAt' \in {"expire", "remove"}
               PROVE  resolvers'[cleanupName'] = cleanupEntry'
    BY DEF SameEntry
  <1>2. CASE \E n \in Name : CleanupVisit(n)
    BY <1>2 DEF CleanupVisit
  <1>3. CASE ~\E n \in Name : CleanupVisit(n)
    <2>1. ~DisposeBegin /\ ~DisposeProgress
      BY <1>1, StillNotDisposed
    <2>2. /\ cleanupAt \in {"expire", "remove"}
          /\ UNCHANGED <<cleanupName, cleanupEntry>>
          /\ ~ExpireResolver
      BY <1>3, <2>1 DEF Next, Call, CallerProgress, EnsureCleanupTimerStarted, LoopCheck, Lookup,
       CreateResolver, AddResolver, Increment, Resolve, SetRecentUse,
       Decrement, CallerStopsWatcher, CallerSetsResult, Return,
         CloserProgress, CreateOnDisposed, SetDisposing, CloserStopsWatcher,
         CloserSetsResult, AwaitOnDisposed, TimerTick, CleanupProgress,
         CleanupResolvers, CanExpire, ExpireResolver, CleanupScanned,
         CleanupCompletes, vars
    <2>3. resolvers[cleanupName] = cleanupEntry /\ cleanupEntry \in Entry
          /\ cleanupName \in Name
      BY <1>1, <2>2 DEF SameEntry, LocalsInv, TypeOK
    <2>4. ASSUME NEW c \in Caller, AddResolver(c)
          PROVE  resolvers'[cleanupName] = resolvers[cleanupName]
      BY <2>3, <2>4 DEF AddResolver, TypeOK
    <2>5. resolvers'[cleanupName] = resolvers[cleanupName]
      BY <2>2, <2>4, MovingSteps DEF SamePlaces, Creates
    <2>6. QED
      BY <2>2, <2>3, <2>5
  <1>4. QED
    BY <1>2, <1>3

\* While the resolver is not disposed, every step preserves BeforeDispose.
LEMMA BeforeDisposeNext ==
  TypeOK /\ LocalsInv /\ CreatedInv /\ InvalidInv /\ BeforeDispose
    /\ [Next]_vars => BeforeDispose'
  <1> SUFFICES ASSUME TypeOK, LocalsInv, CreatedInv, InvalidInv,
                      BeforeDispose, [Next]_vars, ~disposed'
               PROVE  /\ NotDisposed' /\ OnePlace' /\ NotClosedYet'
                      /\ SameEntry' /\ FlaggedByCleanup'
    BY DEF BeforeDispose
  <1>1. NotDisposed /\ FlaggedByCleanup
    BY DisposedStays DEF BeforeDispose
  <1>2. NotDisposed'
    BY <1>1, StillNotDisposed
  <1>3. FlaggedByCleanup'
    <2> SUFFICES ASSUME NEW e \in Entry, disposing'[e]
                 PROVE  closing'[<<"cleanup", e>>] # "none"
      BY DEF FlaggedByCleanup
    <2>1. closing[<<"cleanup", e>>] # "none"
      BY <1>1, FlagSteps DEF FlaggedByCleanup
    <2>2. QED
      BY <1>1, <2>1, ClosingSteps
  <1>4. QED
    BY <1>2, <1>3, OnePlaceNext, NotClosedYetNext, SameEntryNext

\* A call of DisposeAsync ends only when the watcher is disposed.
LEMMA ClosedIsStopped ==
  ASSUME TypeOK, SetInv, NotDisposed, [Next]_vars, ~disposed', NEW e \in Entry,
         BeingClosed(e)
  PROVE  BeingClosed(e)' \/ watcher[e] = "stopped"
  <1> USE DEF statusVars, entryVars, callerVars, cleanupVars, disposeVars
  <1> closing \in [Closer \X Entry -> CloseStep] /\ "cleanup" \in Closer
    BY DEF TypeOK, Closer
  <1>1. closing[<<"cleanup", e>>] \notin {"none", "done", "fault"}
    BY DEF BeingClosed, NotDisposed, Closer
  <1> SUFFICES ASSUME watcher[e] # "stopped"
               PROVE  closing'[<<"cleanup", e>>] \notin {"none", "done", "fault"}
    BY DEF BeingClosed
  <1>2. closing[<<"cleanup", e>>] # "set" /\ onDisposed[e] # "set"
    BY DEF SetInv
  <1>3. ~DisposeBegin /\ ~DisposeProgress
    BY StillNotDisposed
  <1>4. ASSUME NEW c \in Caller, CallerProgress(c) \/ \E n \in Name : Call(c, n)
        PROVE  closing' = closing
    BY <1>4 DEF Call, CallerProgress, EnsureCleanupTimerStarted, LoopCheck, Lookup,
       CreateResolver, AddResolver, Increment, Resolve, SetRecentUse,
       Decrement, CallerStopsWatcher, CallerSetsResult, Return
  <1>5. ASSUME NEW k \in Closer, NEW f \in Entry, CloserProgress(k, f)
        PROVE  closing'[<<"cleanup", e>>] \notin {"none", "done", "fault"}
    <2>1. CASE <<k, f>> = <<"cleanup", e>>
      BY <1>1, <1>2, <1>5, <2>1 DEF CloserProgress, CreateOnDisposed,
         SetDisposing, CloserStopsWatcher, CloserSetsResult, AwaitOnDisposed,
         CloseGoto
    <2>2. CASE <<k, f>> # <<"cleanup", e>>
      BY <1>1, <1>5, <2>2 DEF CloserProgress, CreateOnDisposed, SetDisposing,
         CloserStopsWatcher, CloserSetsResult, AwaitOnDisposed, CloseGoto
    <2>3. QED
      BY <2>1, <2>2
  <1>6. CASE CleanupProgress
    BY <1>1, <1>6, ExpireStartsClosing
       DEF CleanupProgress, CleanupResolvers, CleanupVisit, CanExpire,
       CleanupScanned, CleanupCompletes
  <1>7. CASE TimerTick \/ UNCHANGED vars
    BY <1>1, <1>7 DEF TimerTick, vars
  <1>8. QED
    BY <1>1, <1>3, <1>4, <1>5, <1>6, <1>7 DEF Next

\* Every step keeps hold of every started watcher, or records a lost race.
LEMMA LeaksNext ==
  TypeOK /\ LocalsInv /\ CreatedInv /\ LeakInv /\ [Next]_vars =>
    LeaksOnlyRaceLosers'
  <1> SUFFICES ASSUME TypeOK, LocalsInv, CreatedInv, LeakInv, [Next]_vars,
                      ~disposed', NEW e \in Entry, watcher'[e] = "started"
               PROVE  InDictionary(e)' \/ Held(e)' \/ BeingClosed(e)'
                      \/ e \in lostRace'
    BY DEF LeaksOnlyRaceLosers
  <1> USE EntryAssumption
  <1> /\ resolvers \in [Name -> Entry \cup {NoEntry}]
      /\ pc \in [Caller -> CallerStep]
      /\ entry \in [Caller -> Entry \cup {NoEntry}]
      /\ name \in [Caller -> Name]
      /\ cleanupName \in Name
    BY DEF TypeOK
  <1>1. ~disposed /\ NotDisposed /\ SameEntry /\ SetInv /\ InvalidInv
        /\ BeforeDispose
    BY DisposedStays DEF LeakInv, BeforeDispose
  <1>2. ASSUME NEW c \in Caller, Creates(c, e)
        PROVE  Held(e)'
    BY <1>2 DEF Creates, Held
  <1>3. CASE watcher[e] = "started"
    <2>1. InDictionary(e) \/ Held(e) \/ BeingClosed(e) \/ e \in lostRace
      BY <1>1, <1>3 DEF LeakInv, LeaksOnlyRaceLosers
    <2>2. CASE BeingClosed(e)
      BY <1>1, <1>3, <2>2, ClosedIsStopped
    <2>3. CASE e \in lostRace
      <3>1. lostRace \subseteq lostRace'
        BY DEF Next, Call, CallerProgress, EnsureCleanupTimerStarted, LoopCheck, Lookup,
       CreateResolver, AddResolver, Increment, Resolve, SetRecentUse,
       Decrement, CallerStopsWatcher, CallerSetsResult, Return,
           CloserProgress, CreateOnDisposed, SetDisposing,
           CloserStopsWatcher, CloserSetsResult, AwaitOnDisposed, TimerTick,
           CleanupProgress, CleanupResolvers, CleanupVisit, CanExpire,
           ExpireResolver, CleanupScanned, CleanupCompletes, DisposeBegin,
           DisposeProgress, DisposeVisit, DisposeAwait, DisposeClear,
           DisposeEnd, vars
      <3>2. QED
        BY <2>3, <3>1
    <2>4. CASE InDictionary(e) \/ Held(e)
      <3>1. CASE SamePlaces
        BY <2>4, <3>1 DEF SamePlaces, InDictionary, Held
      <3>2. ASSUME NEW c \in Caller, NEW f \in Entry, Creates(c, f)
            PROVE  InDictionary(e)' \/ Held(e)'
        BY <2>4, <3>2 DEF Creates, InDictionary, Held
      <3>3. ASSUME NEW c \in Caller, AddResolver(c)
            PROVE  InDictionary(e)' \/ Held(e)' \/ e \in lostRace'
        <4>1. \A d \in Caller : d # c => pc'[d] = pc[d] /\ entry'[d] = entry[d]
          BY <3>3 DEF AddResolver, Goto
        <4>2. \A n \in Name : resolvers[n] # NoEntry => resolvers'[n] = resolvers[n]
          BY <3>3 DEF AddResolver
        <4>3. resolvers'[name[c]] = entry[c] \/ entry[c] \in lostRace'
          BY <3>3 DEF AddResolver
        <4>4. QED
          BY <2>4, <4>1, <4>2, <4>3 DEF InDictionary, Held
      <3>4. CASE ExpireResolver
        <4>1. Expires
          BY <1>1, <3>4, ExpireMoves
        <4>2. CASE e = cleanupEntry
          <5>1. closing'[<<"cleanup", e>>] = "create"
            BY <4>1, <4>2 DEF Expires, TypeOK, Closer
          <5>2. QED
            BY <5>1 DEF BeingClosed, Closer
        <4>3. CASE e # cleanupEntry
          BY <2>4, <4>1, <4>3 DEF Expires, InDictionary, Held
        <4>4. QED
          BY <4>2, <4>3
      <3>5. QED
        BY <1>1, <3>1, <3>2, <3>3, <3>4, MovingSteps
    <2>5. QED
      BY <2>1, <2>2, <2>3, <2>4
  <1>4. QED
    BY <1>2, <1>3, WatcherSteps

\* LeakInv holds initially.
LEMMA LeakInvInit == Init => LeakInv
  <1> SUFFICES ASSUME Init PROVE LeakInv
    OBVIOUS
  <1> USE EntryAssumption DEF Init
  <1>1. InvalidInv /\ SetInv
    BY DEF InvalidInv, AfterIncrement, SetInv, Closer
  <1>2. NotDisposed /\ OnePlace /\ NotClosedYet /\ SameEntry
    BY DEF NotDisposed, OnePlace, NotClosedYet, SameEntry, Closer
  <1>3. FlaggedByCleanup
    BY DEF FlaggedByCleanup
  <1>4. LeaksOnlyRaceLosers
    BY DEF LeaksOnlyRaceLosers
  <1>5. QED
    BY <1>1, <1>2, <1>3, <1>4 DEF LeakInv, BeforeDispose

\* Before DisposeAsync, a started watcher that nobody can reach any more, and
\* nobody is disposing, is one that lost the race in GetOrAdd: the cleanup
\* task, which removes by name, drops no other.
THEOREM OnlyRaceLosersLeak == Spec => []LeaksOnlyRaceLosers
  <1>1. IndInv /\ LeakInv /\ [Next]_vars => LeakInv'
    BY InvalidInvNext, SetInvNext, BeforeDisposeNext, LeaksNext
       DEF IndInv, LeakInv
  <1>2. LeakInv => LeaksOnlyRaceLosers
    BY DEF LeakInv
  <1>3. QED
    BY <1>1, <1>2, LeakInvInit, Invariance, PTL DEF Spec
=============================================================================
