---------------------- MODULE ResourceNotificationService ----------------------
(***************************************************************************)
(* ResourceNotificationService keeps the last snapshot of every resource   *)
(* and raises OnResourceUpdated when one is published.  WatchAsync yields  *)
(* the last snapshots, then subscribes an unbounded channel and yields     *)
(* what arrives there; WaitForResourceAsync watches until a resource is in *)
(* a target state.  A snapshot is abstracted to its version, the number of *)
(* updates published for the resource, 0 standing for no snapshot.         *)
(***************************************************************************)
EXTENDS Integers, Sequences

CONSTANTS
    Resource,   \* the resources
    Watcher,    \* enumerations of WatchAsync
    WaitsFor,   \* the resource a watcher's WaitForResourceAsync names,
    NoResource, \*    or none, for a watcher that enumerates WatchAsync itself
    Target,     \* the versions whose state is a target state
    MaxVersion  \* bound: updates published for a resource

Version == 0 .. MaxVersion

ASSUME BoundAssumption == MaxVersion \in Nat
ASSUME TargetAssumption == Target \subseteq Version \ {0}
ASSUME WaitAssumption == WaitsFor \in [Watcher -> Resource \cup {NoResource}]

VARIABLES
    last,     \* LastSnapshot of each resource's ResourceNotificationState
    invoking, \* versions stored whose OnResourceUpdated has not been raised
    handlers, \* OnResourceUpdated: the watchers whose channel is subscribed
    copy,     \* the delegate a watcher has read and is about to replace
    channel,  \* the events in each watcher's channel
    seen,     \* the last version of each resource a watcher has yielded
    todo,     \* resources whose last snapshot the watcher has not visited
    pc        \* the next step of each watcher

vars == <<last, invoking, handlers, copy, channel, seen, todo, pc>>

Step == {"idle", "snapshots", "set", "listen", "remove", "reset", "done"}

TypeOK ==
    /\ last \in [Resource -> Version]
    /\ invoking \in [Resource -> SUBSET Version]
    /\ handlers \subseteq Watcher
    /\ copy \in [Watcher -> SUBSET Watcher]
    /\ channel \in [Watcher -> Seq(Resource \X Version)]
    /\ seen \in [Watcher -> [Resource -> Version]]
    /\ todo \in [Watcher -> SUBSET Resource]
    /\ pc \in [Watcher -> Step]

Init ==
    /\ last = [r \in Resource |-> 0]
    /\ invoking = [r \in Resource |-> {}]
    /\ handlers = {}
    /\ copy = [w \in Watcher |-> {}]
    /\ channel = [w \in Watcher |-> <<>>]
    /\ seen = [w \in Watcher |-> [r \in Resource |-> 0]]
    /\ todo = [w \in Watcher |-> Resource]
    /\ pc = [w \in Watcher |-> "idle"]

-----------------------------------------------------------------------------
(* PublishUpdateAsync.                                                     *)
(* Definitions marked "Faulty" are plausible mistakes in the definition    *)
(* that follows them; the runs show which property notices each.           *)

\* Faulty: the lock is released before the event is raised.
LockFreeAfterStore(r) == TRUE

\* The lock on the notification state is held until the event was raised.
LockFree(r) == invoking[r] = {}

\* Faulty: the state factory is applied twice to a snapshot that exists.
UpdatedTwice(r) == IF last[r] = 0 THEN 1 ELSE last[r] + 2

\* stateFactory(previousState)
NewState(r) == last[r] + 1

\* The first half of the lock region: the new snapshot is stored.
StoreSnapshot(r) ==
    /\ LockFree(r)
    /\ last[r] < MaxVersion
    /\ last' = [last EXCEPT ![r] = NewState(r)]
    /\ invoking' = [invoking EXCEPT ![r] = @ \cup {NewState(r)}]
    /\ UNCHANGED <<handlers, copy, channel, seen, todo, pc>>

\* The second half: the event is written to the subscribed channels.  A
\* completed channel refuses it.
RaiseOnResourceUpdated(r) ==
    \E v \in invoking[r] :
       /\ invoking' = [invoking EXCEPT ![r] = @ \ {v}]
       /\ channel' = [w \in Watcher |->
                        IF w \in handlers /\ pc[w] # "done"
                        THEN Append(channel[w], <<r, v>>) ELSE channel[w]]
       /\ UNCHANGED <<last, handlers, copy, seen, todo, pc>>

-----------------------------------------------------------------------------
(* WatchAsync, and WaitForResourceAsync around it.                         *)

Goto(w, step) == pc' = [pc EXCEPT ![w] = step]

Watch(w) ==
    /\ pc[w] = "idle"
    /\ Goto(w, "snapshots")
    /\ UNCHANGED <<last, invoking, handlers, copy, channel, seen, todo>>

\* The event ends a WaitForResourceAsync.
Matches(w, r, v) == r = WaitsFor[w] /\ v \in Target

\* Faulty: the last snapshots are not replayed.
NoSnapshot(r) == 0

\* state.Value.LastSnapshot
LastSnapshot(r) == last[r]

\* One turn of the first loop; the enumeration takes no lock.
YieldSnapshot(w, r) ==
    /\ pc[w] = "snapshots"
    /\ r \in todo[w]
    /\ todo' = [todo EXCEPT ![w] = @ \ {r}]
    /\ seen' = [seen EXCEPT ![w][r] =
                  IF LastSnapshot(r) = 0 THEN @ ELSE LastSnapshot(r)]
    /\ Goto(w, IF Matches(w, r, LastSnapshot(r)) THEN "done" ELSE "snapshots")
    /\ UNCHANGED <<last, invoking, handlers, copy, channel>>

\* OnResourceUpdated is a property: += reads it, combines and sets it.
AddHandler(w) ==
    /\ pc[w] = "snapshots"
    /\ todo[w] = {}
    /\ copy' = [copy EXCEPT ![w] = handlers]
    /\ Goto(w, "set")
    /\ UNCHANGED <<last, invoking, handlers, channel, seen, todo>>

SetHandlers(w) ==
    /\ pc[w] = "set"
    /\ handlers' = copy[w] \cup {w}
    /\ Goto(w, "listen")
    /\ UNCHANGED <<last, invoking, copy, channel, seen, todo>>

NextEvent(w) == Head(channel[w])

YieldEvent(w) ==
    /\ pc[w] = "listen"
    /\ channel[w] # <<>>
    /\ channel' = [channel EXCEPT ![w] = Tail(@)]
    /\ LET r == NextEvent(w)[1]
           v == NextEvent(w)[2]
       IN  /\ seen' = [seen EXCEPT ![w][r] = v]
           /\ Goto(w, IF Matches(w, r, v) THEN "remove" ELSE "listen")
    /\ UNCHANGED <<last, invoking, handlers, copy, todo>>

\* The consumer leaves the loop, or its token is cancelled; the replay of the
\* snapshots does not look at the token.
CancelWatch(w) ==
    /\ \/ pc[w] = "listen" /\ Goto(w, "remove")
       \/ pc[w] = "snapshots" /\ WaitsFor[w] = NoResource /\ Goto(w, "done")
    /\ UNCHANGED <<last, invoking, handlers, copy, channel, seen, todo>>

\* The finally block: -= reads and sets the property, too.
RemoveHandler(w) ==
    /\ pc[w] = "remove"
    /\ copy' = [copy EXCEPT ![w] = handlers]
    /\ Goto(w, "reset")
    /\ UNCHANGED <<last, invoking, handlers, channel, seen, todo>>

CompleteChannel(w) ==
    /\ pc[w] = "reset"
    /\ handlers' = copy[w] \ {w}
    /\ Goto(w, "done")
    /\ UNCHANGED <<last, invoking, copy, channel, seen, todo>>

-----------------------------------------------------------------------------
WatcherProgress(w) ==
    \/ \E r \in Resource : YieldSnapshot(w, r)
    \/ AddHandler(w)
    \/ SetHandlers(w)
    \/ YieldEvent(w)
    \/ RemoveHandler(w)
    \/ CompleteChannel(w)

Next ==
    \/ \E r \in Resource : StoreSnapshot(r) \/ RaiseOnResourceUpdated(r)
    \/ \E w \in Watcher : Watch(w) \/ WatcherProgress(w) \/ CancelWatch(w)

Spec == Init /\ [][Next]_vars

\* A publisher inside the lock and a running enumeration are scheduled.
\* Nobody has to publish, to watch or to cancel.
Fairness ==
    /\ \A r \in Resource : WF_vars(RaiseOnResourceUpdated(r))
    /\ \A w \in Watcher : WF_vars(WatcherProgress(w))

FairSpec == Spec /\ Fairness

-----------------------------------------------------------------------------
(* Properties.                                                             *)

\* A watcher never sees a resource go back to an older snapshot, although
\* its first events are read from the states and the others come through the
\* channel; it may see the same snapshot twice.
SeenInOrder ==
    [][\A w \in Watcher, r \in Resource : seen'[w][r] >= seen[w][r]]_vars

\* "If the resource is already in the target state, the method will return
\* immediately." (ResourceNotificationService.cs:57-58, 78-79): a wait that
\* starts when the state has been reached, and is kept, does not depend on
\* any further event.
AlreadyInTargetReturns ==
    \A w \in Watcher :
       /\ pc[w] = "snapshots"
       /\ WaitsFor[w] \in todo[w]
       /\ last[WaitsFor[w]] = MaxVersion
       /\ MaxVersion \in Target
       ~> pc[w] = "done"

\* "This method returns a task that will complete when the resource reaches
\* the specified target state." (ResourceNotificationService.cs:57)
WaitCompletes ==
    \A w \in Watcher :
       /\ pc[w] # "idle"
       /\ WaitsFor[w] \in Resource
       /\ last[WaitsFor[w]] = MaxVersion
       /\ MaxVersion \in Target
       ~> pc[w] = "done"
=============================================================================
