------------------- MODULE ResourceNotificationService_proofs -------------------
(***************************************************************************)
(* What a watcher of ResourceNotificationService sees, for any resources,  *)
(* any watchers and any number of updates.                                 *)
(***************************************************************************)
EXTENDS ResourceNotificationService, TLAPS

-----------------------------------------------------------------------------
(* The inductive invariant.                                                *)

Event == Resource \X Version

\* Inside the lock of a resource there is one publisher, with the snapshot it
\* has just stored.
OnePublisher == \A r \in Resource : invoking[r] \subseteq {last[r]}

\* Only a watcher that has come to its second loop is, or ever was, among the
\* handlers of OnResourceUpdated, lost and restored handlers included.
SubscribedLate ==
    \A w \in Watcher :
       (w \in handlers \/ \E x \in Watcher : w \in copy[x]) =>
          pc[w] \in {"listen", "remove", "reset", "done"}

\* The channel stays empty while the last snapshots are replayed.
EmptyAtFirst ==
    \A w \in Watcher : pc[w] \in {"idle", "snapshots", "set"} =>
                          channel[w] = <<>>

\* Nothing that was seen or is on its way is newer than the last snapshot.
NotAhead ==
    \A w \in Watcher :
       /\ \A r \in Resource : seen[w][r] <= last[r]
       /\ \A i \in 1 .. Len(channel[w]) :
             channel[w][i][2] <= last[channel[w][i][1]]

\* An event on its way is not older than what was seen of its resource.
NotBehindSeen ==
    \A w \in Watcher : \A i \in 1 .. Len(channel[w]) :
       seen[w][channel[w][i][1]] <= channel[w][i][2]

\* The events of a resource are in a channel in the order of their versions.
ChannelInOrder ==
    \A w \in Watcher : \A i, j \in 1 .. Len(channel[w]) :
       i <= j /\ channel[w][i][1] = channel[w][j][1] =>
          channel[w][i][2] <= channel[w][j][2]

ChannelInv == NotAhead /\ NotBehindSeen /\ ChannelInOrder

IInv ==
    TypeOK /\ OnePublisher /\ SubscribedLate /\ EmptyAtFirst /\ ChannelInv

-----------------------------------------------------------------------------
(* Types.                                                                  *)

\* The head of a channel is an event, and its tail a channel.
LEMMA HeadTail ==
    ASSUME NEW s \in Seq(Event), s # <<>>
    PROVE  /\ Len(s) \in Nat /\ Len(s) > 0
           /\ Head(s) = s[1] /\ Head(s)[1] \in Resource /\ Head(s)[2] \in Version
           /\ Tail(s) \in Seq(Event)
           /\ Len(Tail(s)) = Len(s) - 1
           /\ \A i \in 1 .. Len(Tail(s)) :
                 i + 1 \in 1 .. Len(s) /\ Tail(s)[i] = s[i + 1]
BY DEF Event

\* An event appended to a channel comes last.
LEMMA AppendEvent ==
    ASSUME NEW s \in Seq(Event), NEW e \in Event
    PROVE  /\ Append(s, e) \in Seq(Event)
           /\ Len(s) \in Nat /\ Len(Append(s, e)) = Len(s) + 1
           /\ \A i \in 1 .. Len(s) : Append(s, e)[i] = s[i]
           /\ Append(s, e)[Len(s) + 1] = e
OBVIOUS

\* What is in a channel are events.
LEMMA ChannelEvents ==
    ASSUME TypeOK, NEW w \in Watcher, NEW i \in 1 .. Len(channel[w])
    PROVE  channel[w][i][1] \in Resource /\ channel[w][i][2] \in Version
BY DEF TypeOK

\* Every step preserves the types.
LEMMA TypeStep ==
    ASSUME TypeOK, Next
    PROVE  TypeOK'
<1> USE BoundAssumption DEF TypeOK, Goto, Step
<1>1. ASSUME NEW r \in Resource, StoreSnapshot(r)
      PROVE  TypeOK'
  <2>1. NewState(r) \in Version
    BY <1>1 DEF StoreSnapshot, NewState, Version
  <2> QED BY <1>1, <2>1 DEF StoreSnapshot
<1>2. ASSUME NEW r \in Resource, RaiseOnResourceUpdated(r)
      PROVE  TypeOK'
  <2>1. PICK v \in invoking[r] :
          /\ invoking' = [invoking EXCEPT ![r] = @ \ {v}]
          /\ channel' = [w \in Watcher |->
                           IF w \in handlers /\ pc[w] # "done"
                           THEN Append(channel[w], <<r, v>>) ELSE channel[w]]
    BY <1>2 DEF RaiseOnResourceUpdated
  <2>2. <<r, v>> \in Event
    BY DEF Event
  <2>3. channel' \in [Watcher -> Seq(Resource \X Version)]
    BY <2>1, <2>2, AppendEvent DEF Event
  <2> QED BY <1>2, <2>1, <2>3 DEF RaiseOnResourceUpdated
<1>3. ASSUME NEW w \in Watcher, Watch(w) \/ CancelWatch(w)
      PROVE  TypeOK'
  BY <1>3 DEF Watch, CancelWatch
<1>4. ASSUME NEW w \in Watcher, NEW r \in Resource, YieldSnapshot(w, r)
      PROVE  TypeOK'
  BY <1>4 DEF YieldSnapshot, LastSnapshot
<1>5. ASSUME NEW w \in Watcher, AddHandler(w) \/ SetHandlers(w)
      PROVE  TypeOK'
  BY <1>5 DEF AddHandler, SetHandlers
<1>6. ASSUME NEW w \in Watcher, YieldEvent(w)
      PROVE  TypeOK'
  <2>1. channel[w] \in Seq(Event) /\ channel[w] # <<>>
    BY <1>6 DEF YieldEvent, Event
  <2>2. NextEvent(w)[1] \in Resource /\ NextEvent(w)[2] \in Version
        /\ Tail(channel[w]) \in Seq(Resource \X Version)
    BY <2>1, HeadTail DEF NextEvent, Event
  <2> QED BY <1>6, <2>2 DEF YieldEvent
<1>7. ASSUME NEW w \in Watcher, RemoveHandler(w) \/ CompleteChannel(w)
      PROVE  TypeOK'
  BY <1>7 DEF RemoveHandler, CompleteChannel
<1> QED BY <1>1, <1>2, <1>3, <1>4, <1>5, <1>6, <1>7 DEF Next, WatcherProgress

-----------------------------------------------------------------------------
(* Publishers and subscribers.                                             *)

\* Every step leaves one publisher in the lock of a resource.
LEMMA PublisherStep ==
    ASSUME TypeOK, OnePublisher, Next
    PROVE  OnePublisher'
<1>1. ASSUME NEW r \in Resource, StoreSnapshot(r)
      PROVE  OnePublisher'
  BY <1>1 DEF TypeOK, OnePublisher, StoreSnapshot, LockFree
<1>2. ASSUME NEW r \in Resource, RaiseOnResourceUpdated(r)
      PROVE  OnePublisher'
  BY <1>2 DEF TypeOK, OnePublisher, RaiseOnResourceUpdated
<1>3. ASSUME NEW w \in Watcher, Watch(w) \/ WatcherProgress(w) \/ CancelWatch(w)
      PROVE  OnePublisher'
  BY <1>3 DEF OnePublisher, Watch, WatcherProgress, CancelWatch, YieldSnapshot,
     AddHandler, SetHandlers, YieldEvent, RemoveHandler, CompleteChannel
<1> QED BY <1>1, <1>2, <1>3 DEF Next

\* No step subscribes a watcher before its second loop, whatever it does to
\* the handlers of the others.
LEMMA SubscribedStep ==
    ASSUME TypeOK, SubscribedLate, Next
    PROVE  SubscribedLate'
<1> USE DEF TypeOK, SubscribedLate, Goto
<1>1. ASSUME NEW r \in Resource, StoreSnapshot(r) \/ RaiseOnResourceUpdated(r)
      PROVE  SubscribedLate'
  BY <1>1 DEF StoreSnapshot, RaiseOnResourceUpdated
<1>2. ASSUME NEW w \in Watcher,
             Watch(w) \/ CancelWatch(w) \/ YieldEvent(w)
                      \/ \E r \in Resource : YieldSnapshot(w, r)
      PROVE  SubscribedLate'
  <2>1. UNCHANGED <<handlers, copy>>
    BY <1>2 DEF Watch, CancelWatch, YieldSnapshot, YieldEvent
  <2>2. pc[w] \in {"idle", "snapshots"} \/ pc'[w] \in {"listen", "remove"}
    BY <1>2 DEF Watch, CancelWatch, YieldSnapshot, YieldEvent
  <2>3. \A x \in Watcher : x # w => pc'[x] = pc[x]
    BY <1>2 DEF Watch, CancelWatch, YieldSnapshot, YieldEvent
  <2> QED BY <2>1, <2>2, <2>3
<1>3. ASSUME NEW w \in Watcher, AddHandler(w)
      PROVE  SubscribedLate'
  BY <1>3 DEF AddHandler
<1>4. ASSUME NEW w \in Watcher, SetHandlers(w)
      PROVE  SubscribedLate'
  BY <1>4 DEF SetHandlers
<1>5. ASSUME NEW w \in Watcher, RemoveHandler(w)
      PROVE  SubscribedLate'
  BY <1>5 DEF RemoveHandler
<1>6. ASSUME NEW w \in Watcher, CompleteChannel(w)
      PROVE  SubscribedLate'
  BY <1>6 DEF CompleteChannel
<1> QED BY <1>1, <1>2, <1>3, <1>4, <1>5, <1>6 DEF Next, WatcherProgress

\* No step writes to the channel of a watcher before its second loop.
LEMMA EmptyStep ==
    ASSUME TypeOK, SubscribedLate, EmptyAtFirst, Next
    PROVE  EmptyAtFirst'
<1> USE DEF TypeOK, EmptyAtFirst, Goto
<1>1. ASSUME NEW r \in Resource, StoreSnapshot(r)
      PROVE  EmptyAtFirst'
  BY <1>1 DEF StoreSnapshot
<1>2. ASSUME NEW r \in Resource, RaiseOnResourceUpdated(r)
      PROVE  EmptyAtFirst'
  <2>1. \A w \in Watcher : w \notin handlers => channel'[w] = channel[w]
    BY <1>2 DEF RaiseOnResourceUpdated
  <2>2. pc' = pc
    BY <1>2 DEF RaiseOnResourceUpdated
  <2>3. \A w \in Watcher : pc[w] \in {"idle", "snapshots", "set"} => w \notin handlers
    BY DEF SubscribedLate
  <2> QED BY <2>1, <2>2, <2>3
<1>3. ASSUME NEW w \in Watcher, Watch(w) \/ WatcherProgress(w) \/ CancelWatch(w)
      PROVE  EmptyAtFirst'
  <2>1. CASE YieldEvent(w)
    BY <2>1 DEF YieldEvent
  <2>2. CASE ~YieldEvent(w)
    <3>1. channel' = channel
      BY <1>3, <2>2 DEF Watch, WatcherProgress, CancelWatch, YieldSnapshot,
         AddHandler, SetHandlers, RemoveHandler, CompleteChannel
    <3>2. pc'[w] \in {"idle", "snapshots", "set"} =>
             pc[w] \in {"idle", "snapshots", "set"}
      BY <1>3, <2>2 DEF Watch, WatcherProgress, CancelWatch, YieldSnapshot,
         AddHandler, SetHandlers, RemoveHandler, CompleteChannel
    <3>3. \A x \in Watcher : x # w => pc'[x] = pc[x]
      BY <1>3, <2>2 DEF Watch, WatcherProgress, CancelWatch, YieldSnapshot,
         AddHandler, SetHandlers, RemoveHandler, CompleteChannel
    <3> QED BY <3>1, <3>2, <3>3
  <2> QED BY <2>1, <2>2
<1> QED BY <1>1, <1>2, <1>3 DEF Next

-----------------------------------------------------------------------------
(* The order of versions.                                                  *)

\* A new snapshot is newer than everything seen and on its way.
LEMMA StoreChannel ==
    ASSUME TypeOK, ChannelInv, NEW r \in Resource, StoreSnapshot(r)
    PROVE  ChannelInv'
<1>1. \A x \in Resource : last[x] \in Int /\ last[x] <= last'[x]
  BY BoundAssumption DEF TypeOK, StoreSnapshot, NewState, Version
<1>2. UNCHANGED <<seen, channel>> /\ last' \in [Resource -> Int]
  BY BoundAssumption DEF TypeOK, StoreSnapshot, NewState, Version
<1>3. NotAhead'
  <2> SUFFICES ASSUME NEW w \in Watcher
               PROVE  /\ \A x \in Resource : seen[w][x] <= last'[x]
                      /\ \A i \in 1 .. Len(channel[w]) :
                            channel[w][i][2] <= last'[channel[w][i][1]]
    BY <1>2 DEF NotAhead
  <2>1. \A x \in Resource : seen[w][x] \in Int
    BY BoundAssumption DEF TypeOK, Version
  <2>2. \A i \in 1 .. Len(channel[w]) :
           channel[w][i][1] \in Resource /\ channel[w][i][2] \in Int
    BY ChannelEvents, BoundAssumption DEF Version
  <2> QED BY <1>1, <1>2, <2>1, <2>2 DEF ChannelInv, NotAhead
<1> QED BY <1>2, <1>3 DEF ChannelInv, NotBehindSeen, ChannelInOrder

\* The event that is raised is the newest of its resource.
LEMMA RaiseChannel ==
    ASSUME TypeOK, OnePublisher, ChannelInv,
           NEW r \in Resource, RaiseOnResourceUpdated(r)
    PROVE  ChannelInv'
<1> USE BoundAssumption
<1>1. UNCHANGED <<last, seen>>
  BY DEF RaiseOnResourceUpdated
<1>2. <<r, last[r]>> \in Event /\ last[r] \in Int
  BY DEF TypeOK, Event, Version
<1>3. \A w \in Watcher : \/ channel'[w] = channel[w]
                         \/ channel'[w] = Append(channel[w], <<r, last[r]>>)
  BY DEF OnePublisher, RaiseOnResourceUpdated
<1> SUFFICES ASSUME NEW w \in Watcher
             PROVE  /\ \A i \in 1 .. Len(channel'[w]) :
                          /\ channel'[w][i][2] <= last[channel'[w][i][1]]
                          /\ seen[w][channel'[w][i][1]] <= channel'[w][i][2]
                    /\ \A i, j \in 1 .. Len(channel'[w]) :
                          i <= j /\ channel'[w][i][1] = channel'[w][j][1] =>
                             channel'[w][i][2] <= channel'[w][j][2]
  BY <1>1 DEF ChannelInv, NotAhead, NotBehindSeen, ChannelInOrder
<1>4. CASE channel'[w] = channel[w]
  BY <1>4 DEF ChannelInv, NotAhead, NotBehindSeen, ChannelInOrder
<1>5. CASE channel'[w] = Append(channel[w], <<r, last[r]>>)
  <2> DEFINE n == Len(channel[w])
  <2>1. /\ n \in Nat /\ Len(channel'[w]) = n + 1
        /\ \A i \in 1 .. n : channel'[w][i] = channel[w][i]
        /\ channel'[w][n + 1] = <<r, last[r]>>
    BY <1>2, <1>5, AppendEvent DEF TypeOK, Event
  <2> HIDE DEF n
  <2>2. \A i \in 1 .. n : /\ channel[w][i][2] <= last[channel[w][i][1]]
                          /\ seen[w][channel[w][i][1]] <= channel[w][i][2]
    BY DEF n, ChannelInv, NotAhead, NotBehindSeen
  <2>3. seen[w][r] <= last[r]
    BY DEF ChannelInv, NotAhead
  <2>4. \A i \in 1 .. n + 1 : /\ channel'[w][i][2] <= last[channel'[w][i][1]]
                              /\ seen[w][channel'[w][i][1]] <= channel'[w][i][2]
    BY <1>2, <2>1, <2>2, <2>3
  <2>5. ASSUME NEW i \in 1 .. n + 1, NEW j \in 1 .. n + 1,
               i <= j, channel'[w][i][1] = channel'[w][j][1]
        PROVE  channel'[w][i][2] <= channel'[w][j][2]
    <3>1. CASE j = n + 1
      BY <2>1, <2>4, <2>5, <3>1
    <3>2. CASE j # n + 1
      <4>1. i \in 1 .. n /\ j \in 1 .. n
        BY <2>1, <2>5, <3>2
      <4> QED BY <2>1, <2>5, <4>1 DEF n, ChannelInv, ChannelInOrder
    <3> QED BY <3>1, <3>2
  <2> QED BY <2>1, <2>4, <2>5
<1> QED BY <1>3, <1>4, <1>5

\* A replayed snapshot is as new as any, and nothing is on its way yet.
LEMMA YieldSnapshotChannel ==
    ASSUME TypeOK, EmptyAtFirst, ChannelInv,
           NEW w \in Watcher, NEW r \in Resource, YieldSnapshot(w, r)
    PROVE  ChannelInv' /\ seen'[w][r] >= seen[w][r]
<1> USE BoundAssumption
<1>1. UNCHANGED <<last, channel>> /\ Len(channel[w]) = 0
  BY DEF YieldSnapshot, EmptyAtFirst
<1>2. \A x \in Watcher : x # w => seen'[x] = seen[x]
  BY DEF TypeOK, YieldSnapshot
<1>3. \A x \in Resource : x # r => seen'[w][x] = seen[w][x]
  BY DEF TypeOK, YieldSnapshot
<1>4. seen'[w][r] = IF last[r] = 0 THEN seen[w][r] ELSE last[r]
  BY DEF TypeOK, YieldSnapshot, LastSnapshot
<1>5. seen[w][r] <= last[r] /\ seen[w][r] \in Int /\ last[r] \in Int
  BY DEF TypeOK, Version, ChannelInv, NotAhead
<1>6. NotAhead'
  BY <1>1, <1>2, <1>3, <1>4, <1>5 DEF ChannelInv, NotAhead
<1>7. NotBehindSeen' /\ ChannelInOrder'
  BY <1>1, <1>2 DEF ChannelInv, NotBehindSeen, ChannelInOrder
<1> QED BY <1>4, <1>5, <1>6, <1>7 DEF ChannelInv

\* An event read from the channel is not older than what was seen, and not
\* newer than what is still on its way.
LEMMA YieldEventChannel ==
    ASSUME TypeOK, ChannelInv, NEW w \in Watcher, YieldEvent(w)
    PROVE  /\ ChannelInv'
           /\ \A r \in Resource : seen'[w][r] >= seen[w][r]
<1> USE BoundAssumption
<1> DEFINE s == channel[w]
           h == s[1][1]
           v == s[1][2]
<1>1. /\ s # <<>> /\ s \in Seq(Event) /\ last' = last
      /\ channel' = [channel EXCEPT ![w] = Tail(s)]
      /\ seen' = [seen EXCEPT ![w][Head(s)[1]] = Head(s)[2]]
  BY DEF TypeOK, Event, YieldEvent, NextEvent
<1>2. /\ Len(s) \in Nat /\ Len(s) > 0 /\ h \in Resource /\ v \in Int
      /\ Head(s) = s[1]
      /\ Len(Tail(s)) = Len(s) - 1
      /\ \A i \in 1 .. Len(Tail(s)) :
            i + 1 \in 1 .. Len(s) /\ Tail(s)[i] = s[i + 1]
  BY <1>1, HeadTail DEF Version
<1>3. \A x \in Watcher : x # w => seen'[x] = seen[x] /\ channel'[x] = channel[x]
  BY <1>1 DEF TypeOK
<1>4. channel'[w] = Tail(s)
  BY <1>1 DEF TypeOK
<1>5. \A r \in Resource : seen'[w][r] = IF r = h THEN v ELSE seen[w][r]
  BY <1>1, <1>2 DEF TypeOK
<1>6. seen[w][h] <= v /\ v <= last[h]
  BY <1>2 DEF ChannelInv, NotAhead, NotBehindSeen
<1>7. \A i \in 1 .. Len(s) : s[i][1] \in Resource /\ s[i][2] \in Int
  BY ChannelEvents DEF Version
<1>8. \A i \in 1 .. Len(s) : s[i][1] = h => v <= s[i][2]
  BY <1>2 DEF ChannelInv, ChannelInOrder
<1>9. \A i \in 1 .. Len(s) : s[i][2] <= last[s[i][1]] /\ seen[w][s[i][1]] <= s[i][2]
  BY DEF ChannelInv, NotAhead, NotBehindSeen
<1>10. \A r \in Resource : seen[w][r] \in Int /\ seen[w][r] <= last[r]
  BY DEF TypeOK, Version, ChannelInv, NotAhead
<1>11. \A i, j \in 1 .. Len(s) : i <= j /\ s[i][1] = s[j][1] => s[i][2] <= s[j][2]
  BY DEF ChannelInv, ChannelInOrder
<1> HIDE DEF s, h, v
<1>12. NotAhead'
  <2>1. \A r \in Resource : seen'[w][r] <= last[r]
    BY <1>5, <1>6, <1>10
  <2>2. \A i \in 1 .. Len(Tail(s)) : Tail(s)[i][2] <= last[Tail(s)[i][1]]
    BY <1>2, <1>9
  <2> QED BY <1>1, <1>3, <1>4, <2>1, <2>2 DEF ChannelInv, NotAhead
<1>13. NotBehindSeen'
  <2>1. \A i \in 1 .. Len(Tail(s)) : seen'[w][Tail(s)[i][1]] <= Tail(s)[i][2]
    BY <1>2, <1>5, <1>7, <1>8, <1>9
  <2> QED BY <1>3, <1>4, <2>1 DEF ChannelInv, NotBehindSeen
<1>14. ChannelInOrder'
  <2>1. \A i, j \in 1 .. Len(Tail(s)) :
          i <= j /\ Tail(s)[i][1] = Tail(s)[j][1] => Tail(s)[i][2] <= Tail(s)[j][2]
    BY <1>2, <1>11
  <2> QED BY <1>3, <1>4, <2>1 DEF ChannelInv, ChannelInOrder
<1> QED BY <1>5, <1>6, <1>10, <1>12, <1>13, <1>14 DEF ChannelInv

\* The other steps of a watcher touch neither versions nor events.
LEMMA OtherWatcherSteps ==
    ASSUME NEW w \in Watcher,
           Watch(w) \/ CancelWatch(w) \/ AddHandler(w) \/ SetHandlers(w)
           \/ RemoveHandler(w) \/ CompleteChannel(w)
    PROVE  UNCHANGED <<last, seen, channel>>
BY DEF Watch, CancelWatch, AddHandler, SetHandlers, RemoveHandler,
   CompleteChannel

\* Every step preserves the order of versions, and no watcher goes back.
LEMMA ChannelStep ==
    ASSUME TypeOK, OnePublisher, EmptyAtFirst, ChannelInv, Next
    PROVE  /\ ChannelInv'
           /\ \A w \in Watcher, r \in Resource : seen'[w][r] >= seen[w][r]
<1>1. \A w \in Watcher, r \in Resource : seen[w][r] \in Int
  BY BoundAssumption DEF TypeOK, Version
<1>2. ASSUME NEW r \in Resource, StoreSnapshot(r) \/ RaiseOnResourceUpdated(r)
      PROVE  ChannelInv' /\ seen' = seen
  BY <1>2, StoreChannel, RaiseChannel DEF StoreSnapshot, RaiseOnResourceUpdated
<1>3. ASSUME UNCHANGED <<last, seen, channel>>
      PROVE  ChannelInv' /\ seen' = seen
  BY <1>3 DEF ChannelInv, NotAhead, NotBehindSeen, ChannelInOrder
<1>4. ASSUME NEW w \in Watcher, NEW r \in Resource, YieldSnapshot(w, r)
      PROVE  /\ ChannelInv' /\ seen'[w][r] >= seen[w][r]
             /\ \A x \in Watcher, y \in Resource :
                   x # w \/ y # r => seen'[x][y] = seen[x][y]
  <2>1. \A x \in Watcher, y \in Resource :
           x # w \/ y # r => seen'[x][y] = seen[x][y]
    BY <1>4 DEF TypeOK, YieldSnapshot
  <2> QED BY <1>4, <2>1, YieldSnapshotChannel
<1>5. ASSUME NEW w \in Watcher, YieldEvent(w)
      PROVE  /\ ChannelInv' /\ \A r \in Resource : seen'[w][r] >= seen[w][r]
             /\ \A x \in Watcher : x # w => seen'[x] = seen[x]
  <2>1. \A x \in Watcher : x # w => seen'[x] = seen[x]
    BY <1>5 DEF TypeOK, YieldEvent
  <2> QED BY <1>5, <2>1, YieldEventChannel
<1>6. ASSUME NEW w \in Watcher, Watch(w) \/ WatcherProgress(w) \/ CancelWatch(w)
      PROVE  /\ ChannelInv'
             /\ \A x \in Watcher, y \in Resource : seen'[x][y] >= seen[x][y]
  <2>1. CASE \E r \in Resource : YieldSnapshot(w, r)
    BY <1>1, <1>4, <2>1
  <2>2. CASE YieldEvent(w)
    BY <1>1, <1>5, <2>2
  <2>3. CASE UNCHANGED <<last, seen, channel>>
    BY <1>1, <1>3, <2>3
  <2> QED BY <1>6, <2>1, <2>2, <2>3, OtherWatcherSteps DEF WatcherProgress
<1> QED BY <1>1, <1>2, <1>6 DEF Next

-----------------------------------------------------------------------------
(* The theorems.                                                           *)

\* A new service satisfies the inductive invariant.
LEMMA IInvInit == Init => IInv
<1> SUFFICES ASSUME Init PROVE IInv
  OBVIOUS
<1> USE BoundAssumption DEF Init
<1>1. TypeOK
  BY DEF TypeOK, Step, Version
<1>2. OnePublisher /\ SubscribedLate /\ EmptyAtFirst
  BY DEF OnePublisher, SubscribedLate, EmptyAtFirst
<1>3. ChannelInv
  BY DEF ChannelInv, NotAhead, NotBehindSeen, ChannelInOrder
<1> QED BY <1>1, <1>2, <1>3 DEF IInv

\* Every step preserves the inductive invariant.
LEMMA IInvStep == IInv /\ [Next]_vars => IInv'
<1> SUFFICES ASSUME IInv, [Next]_vars PROVE IInv'
  OBVIOUS
<1>1. CASE Next
  BY <1>1, TypeStep, PublisherStep, SubscribedStep, EmptyStep, ChannelStep
     DEF IInv
<1>2. CASE UNCHANGED vars
  BY <1>2 DEF vars, IInv, TypeOK, OnePublisher, SubscribedLate, EmptyAtFirst,
     ChannelInv, NotAhead, NotBehindSeen, ChannelInOrder
<1> QED BY <1>1, <1>2

\* The inductive invariant of ResourceNotificationService holds in every state.
THEOREM NotificationInvariant == Spec => []IInv
BY IInvInit, IInvStep, PTL DEF Spec

\* The variables of ResourceNotificationService keep their types.
THEOREM TypeCorrect == Spec => []TypeOK
<1>1. IInv => TypeOK
  BY DEF IInv
<1> QED BY <1>1, NotificationInvariant, PTL

\* However publishers, watchers and their subscriptions interleave, the
\* snapshots WatchAsync yields of a resource never go back.
THEOREM WatchersSeeInOrder == Spec => SeenInOrder
<1>1. ASSUME IInv, [Next]_vars
      PROVE  [\A w \in Watcher, r \in Resource : seen'[w][r] >= seen[w][r]]_vars
  BY <1>1, ChannelStep DEF IInv
<1> QED BY <1>1, NotificationInvariant, PTL DEF Spec, SeenInOrder

\* What a watcher has seen of a resource, and what is on its way to it, is
\* never newer than the last snapshot: nothing is announced before it is
\* stored.
THEOREM StoredBeforeAnnounced == Spec => []NotAhead
<1>1. IInv => NotAhead
  BY DEF IInv, ChannelInv
<1> QED BY <1>1, NotificationInvariant, PTL
=============================================================================
