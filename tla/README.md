# A TLA+ model of .NET Aspire: concurrent core and dashboard scripts

The repository is a copy of .NET Aspire: an application host, a dashboard,
service discovery and a large number of integrations. Most of it is
configuration and input/output. This project models the parts whose correctness
depends on the order in which threads, callbacks, timers and messages run: service
discovery, the notification and log services of the application host, the buffer
under the dashboard's storage, and the dashboard's own scripts together with the
server code they talk to. Paths below are
relative to the repository's `src/` directory.

## Inventory

| component | state it keeps | operations | what is hard about it |
|---|---|---|---|
| `ServiceEndpointResolver` | a dictionary of entries; per entry a status word (caller count, RecentUse, Disposing), a completion source and a watcher; a cleanup timer and task | `GetEndpointsAsync`, `CleanupResolvers`, `DisposeAsync` | lock-free use of an entry that two other parties may be disposing |
| `ServiceEndpointWatcher` | cached endpoints, cache state, refresh task, change token registration, polling timer | `Start`, `GetEndpointsAsync`, `RefreshAsync`, token and timer callbacks, `DisposeAsync` | refreshes started from four places, callbacks under a lock, coherence of cache and callback |
| `ResourceNotificationService` | last snapshot of each resource, the `OnResourceUpdated` delegate, a channel per watcher | `PublishUpdateAsync`, `WatchAsync`, `WaitForResourceAsync` | replay of the past followed by a live stream |
| `CircularBuffer` | a list and two positions | `Add`, `Insert`, `RemoveAt`, indexer, `Clear` | index arithmetic around the wrap |
| `ResourceLoggerService` | backlog per resource, subscriber channels | `Log`, `WatchAsync`, `WatchAnySubscribersAsync`, `Complete`, `ClearBacklog` | replay plus live stream with de-duplication |
| `ResourcePublisher`, `DashboardServiceData`, `DashboardClient` | resources by name, subscriber channels, the connection | integrate, subscribe, retry | initial data versus changes, reconnects |
| `TelemetryRepository`, `Subscription` | logs and traces in circular buffers, applications, throttled callbacks | add logs, traces and metrics; notify | ordered insertion, callbacks racing disposal |
| `ApplicationExecutor`, `KubernetesService`, `DcpHostService` | mapping between the application model and the orchestrator | start, watch, log, stop | watch streams and shutdown |
| `HttpServiceEndpointResolver`, DNS and configuration providers | the same entry protocol with a selector; cached DNS answers | resolve, refresh | as above |
| console log view (`LogViewer`, `LogParser`, `ConsoleLogs`) | rows, base line number, an enumeration per log, the parser's last entry | insert a batch, clear, switch to another log | batches posted to the circuit while the page switches logs; lines of one entry and of several sources arriving mixed |
| theme (`theme.js`, `ThemeManager`, `MainLayout`, `SettingsDialog`) | a cookie, the document's theme, the circuit's theme, subscriptions | load, pick, apply | browser and server are connected by messages; callbacks of overlapping picks |
| shortcuts (`app.js`, `ShortcutManager`, `MainLayout`) | whether the keydown listener is registered; the open dialog | key press, open and close dialogs | focus inside nested shadow roots, modifiers, presses before registration |
| charts (`app.js`, `ChartBase`, `ChartContainer`) | what was drawn, in which colors, the order of the trace nodes | draw, update, theme change | a chart reads the document's colors when it is drawn |
| page scripts (`app.js`) | scroll flag and last height, observers; per button a timeout | follow the end of a list; copy to the clipboard | scroll events and observers run frames later; timeouts and the clipboard race |
| integrations, templates, markup, vendored code | none of their own | registration, rendering | nothing that a model checker reaches better than a test |

How they interact: callers of service discovery reach the watcher through the
resolver, which starts and disposes watchers; providers reach the watcher through
change tokens. The application executor publishes snapshots to
`ResourceNotificationService` and log lines to `ResourceLoggerService`;
`DashboardServiceData` watches both and forwards them to the dashboard.
`CircularBuffer` is the storage of the log backlog, of the dashboard's logs and
traces, and of metric values. In the dashboard the server calls functions of
`app.js` and `theme.js` over the circuit's connection and receives their replies
and the user's events on it; `ThemeManager` passes a picked theme on to
`MainLayout`, to charts and to the settings dialog; the console page feeds
`LogViewer` from batches of lines.

## Modules

| module | models |
|---|---|
| `ServiceEndpointResolver` | `Microsoft.Extensions.ServiceDiscovery/ServiceEndpointResolver.cs` |
| `ServiceEndpointResolver_proofs` | inductive invariant and theorems about it |
| `ServiceEndpointWatcher` | `Microsoft.Extensions.ServiceDiscovery/ServiceEndpointWatcher.cs` |
| `ServiceEndpointWatcher_proofs` | inductive invariant and theorems about it |
| `ResourceNotificationService` | `Aspire.Hosting/ApplicationModel/ResourceNotificationService.cs` |
| `ResourceNotificationService_proofs` | inductive invariant and theorems about it |
| `BoundedList` | the abstract specification of `CircularBuffer` |
| `CircularBuffer` | `Shared/CircularBuffer.cs` |
| `CircularBuffer_proofs` | the refinement theorem for the append-only use |
| `ResourceLoggerService` | `Aspire.Hosting/ApplicationModel/ResourceLoggerService.cs`, `Shared/ChannelExtensions.cs` |
| `ResourceLoggerService_proofs` | inductive invariant and theorems about it |
| `LogViewer` | `Aspire.Dashboard/Components/Controls/LogViewer.razor.cs`, `ConsoleLogs/LogParser.cs`, `Utils/CancellationSeries.cs`, the log switching of `Components/Pages/ConsoleLogs.razor.cs` |
| `LogViewer_proofs` | inductive invariant and theorems about it |
| `InputElements` | whether the element with the focus is an input: `wwwroot/js/app.js` |
| `Shortcuts` | which key presses are shortcuts: `wwwroot/js/app.js`, `ShortcutManager.cs` |
| `MainLayout` | `wwwroot/js/theme.js`, `ThemeManager.cs`, `MainLayout.razor.cs`, `SettingsDialog.razor.cs`, the charts of `app.js`, `ChartBase.cs`; uses `Shortcuts` |
| `MainLayout_proofs` | inductive invariant and theorems about it |
| `ContinuousScroll` | lists kept at their end: `app.js` |
| `CopyButton` | copy buttons: `app.js` |
| `PageScripts` | a page with both, and the way to the next page |
| `PageScripts_proofs` | inductive invariants and theorems about the page scripts |
| `MC...` | constants and symmetry sets for TLC |

An action is the code between two points where another thread can interfere: an
interlocked operation, an operation of a concurrent dictionary, a lock region or
an await. A lock region that contains no wait is one action. Definitions marked
*Faulty* are plausible mistakes; they are not part of the specifications and
serve to show that a property notices them.

### ServiceEndpointResolver

`count`, `recent` and `disposing` are the three fields of `_status`; each
interlocked operation on the word is one action that reads and writes all three.
`resolvers` is the dictionary; its enumeration takes no lock, so each name is
visited in the state it has at that moment. `GetOrAdd` is three actions
(`Lookup`, `CreateResolver`, `AddResolver`), because the factory runs outside the
dictionary's locks. `closing` holds, per closer and entry, the program counter of
`ResolverEntry.DisposeAsync`. The cleanup task runs inside `_lock` up to
`Task.WhenAll`, which `LockFree` expresses. `used` and `lostRace` are history
variables; the code has no counterpart. A watcher is abstracted to fresh, started
or stopped; that its `GetEndpointsAsync` ends is what `ServiceEndpointWatcher`
shows under its own assumptions. One call of `DisposeAsync` is modelled.

`DisposeEnd` waits for a cleanup that has reached `Task.WhenAll`, which is where
`_cleanupTask` is set; a cleanup that is still in its synchronous part is not
awaited.

Bounds: two callers and one name, because every interaction is about one entry at
a time and different names share only the lock; two entries, so that an entry can be
replaced, or lose the `GetOrAdd` race; two calls and one timer expiration.
`ServiceEndpointResolverLarge.cfg` checks the invariants with three entries, three
calls and two expirations, so that a call can begin after a complete cleanup.

Fairness: threads that are running are scheduled (weak fairness of the steps of
each caller, closer, the cleanup task and `DisposeAsync`). Nobody has to call or
dispose, and the timer need not expire.

### ServiceEndpointWatcher

The providers' data is a version number, `world`; endpoints are the version they
were built from, and their change token has fired when the world has moved on.
`refresh` is the program counter of each task of `RefreshAsyncInternal` and `task`
is `_refreshTask`; tasks have identities so that overlapping refreshes could be
seen if the code allowed them. `Active` is the set of versions whose token calls
back; for the other versions the one-shot polling timer is used. `TokenCallsBack`
starts the callback of a registered token on a thread of its own, where it waits for
`_lock` (`calling`). The tokens are those of `ServiceEndpointBuilder.Build`, a
`CompositeChangeToken`: its registration is a `CancellationTokenRegistration`, whose
`Dispose` waits for a callback that is running. Both places that dispose it do so
inside `_lock`, which the callback needs, so that `Unregister` with `calling` blocks
for ever and keeps the lock. A token that fired before it was registered calls back
at once on the registering thread, which holds `_lock` already and finds the refresh
running.

This deadlock is what the run `WatcherDeadlock` shows. The liveness properties of the
passing run therefore read "the call returns, or `_lock` is blocked", and theorem
`OnlyACallbackBlocks` says that nothing else blocks it.

Bounds: two callers; two changes, one failure, two expirations of the timer:
enough for a change before, during and after a refresh. In the passing run the
middle one of the three versions has an active token, so that the watcher goes
from polling to a token and back.

Fairness: a refresh that is running, a queued callback, a caller inside the loop
and `DisposeAsync` go on when nothing blocks them. Changes, expirations, new
calls, cancellation by a caller and disposal need not happen.

### ResourceNotificationService

A snapshot is the number of updates published for its resource. The lock region
of `PublishUpdateAsync` is two actions, because `WatchAsync` reads the snapshot
without the lock. `OnResourceUpdated` is an auto-property, so that `+=` and `-=`
are a read followed by a write (`copy`). A handler's channel is a sequence.
Bounds: one wait and one plain enumeration, two resources, two updates each. The
violated run needs one watcher and one update only. Fairness: a publisher inside
the lock and a running enumeration go on; nobody has to publish or to cancel.

### CircularBuffer

The List is a sequence, positions are those of the code. `ToArray` is what the
indexer and the enumerator give and is the refinement mapping to `BoundedList`.
Three specifications describe the three ways the repository uses the class:
`AppendSpec` (log backlog, metric values), `InsertSpec` (log entries in order of
their timestamps) and `Spec` (every operation). `AppendImplements` is refinement;
the other properties compare operation by operation: an `Add` must be the abstract
`Add` and not merely some step of the list. `InsertSpec` implements the list at
capacity 3 and no longer at 4; with removals, capacity 3 is too much already.
`BufferInsertLoses` and `BufferAddMisplaces` show these two limits.

### ResourceLoggerService

One log. A line is its number, `author[n]` its writer. `Log` is the steps
`CheckCompleted`, `AddLine` (the lock region that numbers the line and adds it to
the backlog), `ReadDelegate` (the delegate is read after the lock was released)
and one step per callback; a callback that finds `flushBacklogSync` not set waits
(`CallWaits`, `WaitEnds`, `WaitCancelled`). An enumeration of `WatchAsync` goes
through registration with the completion token, the addition of its callback (and
the event for the first subscriber, which is raised after the lock), the snapshot,
the flag, the yield of the snapshot and the batches of its channel, and its
`finally` block. A caller may cancel at any time and may stop at any yield.
`WatchAnySubscribersAsync` is the monitor; `created` splits `GetOrAdd` into its
factory, which raises `LoggerAdded`, and the insertion. `since`, `cut` and `told`
are history variables.

Bounds: `MCBound` is a set of scenarios, each with its writers, watchers, lines and
whether a monitor takes part: two lines by two writers seen by one watcher, one
line seen by two watchers, and a monitor with two watchers. The capacity of the
backlog is 1, so that the second line already drops the first; one `ClearBacklog`.
Fairness: a writer inside `Log` and a watcher that was started go on, and a caller
that was given a batch asks for the next; nobody has to log, watch, cancel or
complete. `CompletedWatchersEnd` and `WriterReturns` need no more than that.

`WriterOrder` allows a line to be given twice to a watcher, once in the snapshot and
once from the channel: a writer that reads `flushBacklogSync` after it was set does not
compare its line with the snapshot. The comments at `ResourceLoggerService.cs:238` and
`245-246` speak of de-duplication, which covers only the writers that waited.
`MonitorTold` speaks of a monitor whose handler is attached (`attached > 0`); a log that
is between its factory and its insertion into the dictionary when the monitor looks is
outside it.

### LogViewer

The rows are a sequence of entries with timestamp, parent and line index; 0 stands
for no timestamp and no parent. A timestamp is a number, as `InsertSorted` compares
parsed `DateTimeOffset` values. A batch has any number of lines. It is posted to the
circuit from another thread (`PostBatch`) after a look at the token, and `InsertLine`
is one turn of the loop of `SetLogSourceAsync`: parser, `InsertSorted`, numbering.
The loop keeps the circuit until the batch is done and does not look at the token
again, so that a whole batch may be inserted after its log was cancelled.

`circuit` says whose code goes on without having awaited anything. Opening a log is
`OnParametersSet`, `ClearLogs` (or `ClearWithoutResource`) and `SetLogSource`, one
action for the code up to an await of one of the two cancellation series; where such
a series has a token to cancel the await yields, and another navigation, or
`HandleSelectedOptionChangedAsync` (`StopWatchingLogs`, `LeaveSource`, `LeaveRows`),
may run in between. `viewer` and `subscription` are the current tokens of the two
series. `closed` is history: the logs that were cancelled when the rows were last
cleared. One `HandleSelectedOptionChangedAsync` runs at a time; an await of
`CancelAsync` on a token is taken to yield, which it may or may not.

Bounds: two logs with different first numbers, three timestamps, four lines in
batches of any size; `LogViewerLarge.cfg` has five lines. The run of
`EntryStaysTogether` has one log and six lines, enough for the lines of an entry to be
separated by the line of another one.

Two more things the code does wrong are shown by configurations beside the runs.
`_baseLineNumber` is never reset, so that the rows of every log but the first are
numbered from the first log's base (`NumberedAsItsLog`, against the comment at
`LogViewer.razor.cs:60`); `NumbersConsecutive`, which holds, says no more than that
there are no gaps, and that the first log has its own numbers. Of two quick
navigations the earlier one may be the last to call `SetLogSourceAsync`: it cancels
the token of the later one, its own subscription is cancelled already, and the page
shows nothing further (`LastSourceIsRead`, against `CancellationSeries.cs:26`).

Two details of the code are in the model and in no property: a line that is earlier
than every row goes to the end, and of two lines with one timestamp, behind an earlier
row, the one that came later stands first.

### Shortcuts and MainLayout

One browser window and its circuit. Calls of scripts (`calls`) and replies and
events (`replies`) are queues, as one connection delivers them in order. Actions
are grouped by where they run: in the browser, by the user, on the server. The
server's code between two awaits is one action. `raises` holds, for each pick, the
subscribers `RaiseThemeChangedAsync` still has to call; callbacks of different
picks interleave. `Shortcuts` decides on key presses: what has a modifier or goes into an input is not
a shortcut. Whether the active element is an input is a constant operator of
`Shortcuts` (`ActiveElementInput`), as is in `MainLayout` what really takes text
(`TextElement`); the run gives them the search through nested shadow roots and its
reference definition, both of `InputElements`. `""` is what the scripts and the
server use for no theme and is called `None`. Dialogs of the UI library are represented by opening, closing and the
element that has the focus. History: `lost` (a pick before `theme.js` was
imported, which the code drops), `rushed` (a pick while another one is applied),
`undrawn` (a pick before the chart is drawn for the one before), `stolen`. Bounds: two picks, two shortcuts or clicks, one reload, pick in another
window or chart change, and at most four of these together; three traces. Two picks are needed to overlap, and the
second key press finds a dialog open.

`TracesReversed` takes from Plotly that `newPlot` and `update` leave the nodes of the
traces in the order of the data (`PlotlyOrder`, external); what it checks is the loop
over the live node list that follows each of them. `TakesText`, the reference for
`NothingStolen`, has the inputs of the dashboard's pages, which are components of the UI
library and `input` elements. A bare `textarea` or `select` is not among them; the pages
have none, and `isActiveElementInput` would not recognise one (`app.js:316`).

`ChartAgrees` used to be stated without `undrawn`, and within the bounds of the run
it holds so. The proof showed that it does not in general: of three quick picks, say
Light, Dark and Light, the chart can be drawn in the colors of the second, and since
`_renderedTheme` (`ChartBase.cs`) is compared with the theme's name only, it is not
drawn again. TLC finds this with three picks and five events. With `undrawn` the
property and the whole inductive invariant pass at that size (6.2 million states),
and the theorem has no bound.

What the code does beside its comments, as the model shows: `getThemeCookieValue`
returns the empty string and not `System` when there is no cookie (the two have the
same effect everywhere); `ThemeManager` is a scoped service, so that another window
does not hear of a theme, whatever the comments at `MainLayout.razor.cs:61` and
`SettingsDialog.razor.cs:27` suggest. `MainLayout` passes to
`unregisterGlobalKeydownListener` the object that the registration returned, not
the function in it, so that the listener stays until the document is unloaded; the
model has no step in which a layout goes and its document stays.

### ContinuousScroll, CopyButton, PageScripts

A frame of the browser is one action: pending scroll events, layout, resize
observers, in this order. The user scrolls and the server changes the list at any
time between frames. `scrollHeight` is what the list is, `laidOut` what was shown
last. Another page replaces the container and the button but not the script's
variables, and the observer of the old container has its removal still to report.
`away` says where the user really went; `early` marks a user who scrolled before
the observer had first reported, whose position the script compares with the height
of another list. A scroll whose event is pending when the position is reset counts as a
new one, and the user as away: that the event undoes the reset of `app.js:40` is not a
violation of `KnowsWhereUserIs` or `NewItemsShown`. A copy button has a pending timeout in its data set; the clipboard
answers at any time, or refuses. An answer that comes after the timeout leaves its icon
on the button; `late` marks it, and `BackToCopy` excludes it. Bounds: heights below, above and far above that of
the window, two scrolls, five changes (grow, shrink, another page, reset), two
clicks. The theorems below have no bounds.

## Runs

| run | result |
|---|---|
| `ServiceEndpointResolver` | passes: type invariant, no disposal under a caller, completion source exists, recent use protects, only race losers leak; calls return, disposing entries stop, `DisposeAsync` terminates |
| `Watcher` | passes: coherence, ordered notification, nothing left after disposal; calls and disposal end unless the lock is blocked |
| `WatcherDeadlock` | violated: a registration is disposed inside the lock while its callback waits for that lock |
| `Notification` | passes: no step back to an older snapshot, a state already reached is reported |
| `NotificationGap` | violated: an update between replay and subscription is lost |
| `BufferAppend` | passes: a buffer of capacity 5 that is only added to implements the bounded list |
| `BufferInsertLoses` | violated at capacity 4: the wrong item is overwritten |
| `ResourceLogger` | passes: no line lost at the hand-over, order of one writer's lines, the monitor is told, watchers end after `Complete`, writers return |
| `LogViewer` | passes: numbers are consecutive, a second line follows its first, order of arrival is kept, at most one late batch of a closed log |
| `LogViewerEntry` | violated: the third line of an entry can be separated from the second |
| `MainLayout` | passes: document, cookie, dialog and chart agree on the theme, traces are in reverse order, no typed key is taken |
| `PageScripts` | passes: the script knows where the user is, new items are shown, the copy button shows its result and returns to its first look |

`CHECK_DEADLOCK FALSE` is set throughout: the systems may come to rest when
nobody calls, and the bounds stop the environment. Every run ends within four
minutes on two cores; the largest, `LogViewer`, has 1.2 million states.

What the violated runs show is recorded under `findings` in `PROJECT.json`, each
with the line of the repository it contradicts.

Further configurations are kept beside the runs:

| configuration | module | result |
|---|---|---|
| `ServiceEndpointResolverLarge.cfg` | `MCServiceEndpointResolver` | passes: the invariants of the run with three entries (1.8 million states) |
| `ServiceEndpointResolverOnce.cfg` | `MCServiceEndpointResolver` | `DisposedOnce` is violated: an entry can be disposed twice |
| `WatcherLost.cfg` | `ServiceEndpointWatcher` | `ChangeIsRefreshed` is violated: a change during a refresh is not refreshed until somebody asks |
| `BufferInsert.cfg` | `CircularBuffer` | passes: `Insert` and `Add` are those of the list at capacity 3 |
| `BufferAddMisplaces.cfg` | `CircularBuffer` | `AddImplements` is violated at capacity 3: an item added after removals is read first |
| `ResourceLoggerEvents.cfg` | `MCResourceLoggerService` | `LastEventIsRight` is violated: events are raised outside the lock and may overtake each other |
| `LogViewerLarge.cfg` | `MCLogViewer` | passes: the properties of the run with five lines (10.5 million states) |
| `LogViewerNumbers.cfg` | `MCLogViewer` | `NumberedAsItsLog` is violated: the second log is numbered from the base of the first |
| `LogViewerSwitch.cfg` | `MCLogViewer` | `LastSourceIsRead` is violated: an earlier navigation cancels the source of a later one |

## Proofs

`ServiceEndpointResolver_proofs` proves, for every finite set of callers and any
sets of names and entries, that the specification satisfies its type invariant
and the four safety invariants of the run. None of them is inductive. The
strengthening, `IndInv`, says in addition that the count of an entry is the number
of callers between their increment and their decrement (a cardinality, which is
why callers must be finite), which program counters imply that a caller or closer
holds an entry, that a completion source exists once the Disposing flag is set or
a closer is past creating it, and that a watcher is stopped, or being stopped,
only when the flag is set and no caller that saw the flag clear is still counted.
That last part is the argument of the status word: a caller counted before the
flag was set keeps the count above zero, so neither the closer nor another caller
can find it zero; a caller counted afterwards does not use the watcher. Assumed:
callers are finite, and the missing entry is not an entry. `OnlyRaceLosersLeak`
needs a second invariant, `LeakInv`: before `DisposeAsync` an entry is under one
name or with the one caller that created it, nobody has begun to dispose an entry
in such a place, and the entry the cleanup task looks at is still the one of its
name. This is why the removal by name, which could remove another entry, does not.

`ServiceEndpointWatcher_proofs` proves the type invariant, `Coherence`,
`NotifiedInOrder` and `QuietAfterDispose` for any callers and tokens and any number
of changes, failures and expirations. The argument is that refreshes do not overlap
(`OneRefresh`: only `_refreshTask` may be running), so that a result that is not yet
published is at least as new as what the callback was given, and that the cache is
empty from the invalidation to the publication. Two parts of the invariant are
theorems of their own: `NoLostWakeUp` (no caller awaits a refresh that has
completed) and `OnlyACallbackBlocks` (whoever holds the lock across a blocking call is
disposing the registration of a token that has changed, and the callback of that token
is running and waits for the lock).

`ResourceNotificationService_proofs` proves the type invariant and `SeenInOrder` for
any resources, watchers and updates. The invariant relates the three places of a
snapshot: nothing seen or in a channel is newer than what is stored, nothing in a
channel is older than what was seen of its resource, and a channel holds the events
of a resource in order. It holds because an event is written to the channels inside
the lock of its resource, by one publisher at a time, and because a channel is empty
while the stored snapshots are replayed; a handler that a racing `+=` or `-=` loses
or restores belongs to a watcher that is past the replay (`SubscribedLate`).
`StoredBeforeAnnounced` states the first part.

`ResourceLoggerService_proofs` proves every invariant of the run `ResourceLogger`:
the type invariant, `NoLineLost`, `WriterOrder` and `MonitorTold`, for any writers,
watchers, capacity and number of lines.

- For `NoLineLost` the invariant adds `HeldBack`: before the watcher has its
  snapshot no later line has come past it, so that each is with a writer that waits
  or has not called yet. Setting the flag then turns `HeldBack` into `NoLineLost`:
  a writer that waited finds its line in the snapshot or writes it to the channel.
  Neither `ClearBacklog` nor the capacity can lose the line, because the snapshot is
  only ever used to leave a line out that it contains.
- For `WriterOrder` it adds that the backlog is sorted (`BacklogInOrder`), that a
  writer is busy with the last line it has logged (`BusyWriters`), so that what it
  writes is not before any of its lines, and that nothing is in the channel when the
  snapshot is taken (`BeforeFlush`). A line may come twice, and then it is the
  writer's last one.
- For `MonitorTold` it adds that the same holds of a monitor at any step but the two
  between its registration and the event it raises itself (`ToldOfFirst`).
- For the types it adds that a writer past its check has a number left for its line
  (`RoomForLines`, a cardinality).

Assumed: the capacity is above zero.

`LogViewer_proofs` proves every property of the run `LogViewer` for any logs,
timestamps, batches of any size, page switches and number of lines. The rows are
counted from `_baseLineNumber`, which the first line ever inserted sets (`Numbered`).
Rows keep unique Ids and know their parents (`ParentRows`); the parser of a log knows
the entry its next line belongs to and how many lines it has (`ParserParent`,
`ParserIndex`). Since the rows may be cleared in the middle of an entry, `EntryLines`
and `ParserLines` say that what is shown of a log between a parent and one of its lines
belongs to the same entry. A log that was closed posts no further batch, so that its
rows have the number of its last one (`StaleBatches`), which is `OneStale`.
`ArrivalOrder` is proved of the rows first (`RowsInOrder`) and then carried over to the
lines in the order they arrived, of which `ArrivalOrderKept` speaks.

`CircularBuffer_proofs` proves that `AppendSpec` implements the bounded list for
every capacity above zero. The invariant is that the buffer is not rotated until
it is full and that afterwards the next item replaces the first one; the step of a
full buffer is an argument about remainders, which `Wrapped` isolates. Capacities
in use, such as 10000 lines of backlog, are far beyond what TLC explores.

`PageScripts_proofs` proves every property of the run `PageScripts` for lists and
windows of every height and any bounds. For the button the invariant adds that
there is at most one timeout, the last click's, and that the data set names it:
that is what `clearTimeout` is for. For the list it adds that a list which is
observed is the one whose height the script knows and that was shown last; that
before the first report nothing has moved; and that afterwards the flag is right
unless a scroll event is to come, when the position says what the flag will be.
The last part is needed because a list may grow between a scroll and its event:
the event is judged by the height known to the script, which is the height the user
saw. Assumed: heights are above zero (zero stands for a height that is not known).

`MainLayout_proofs` proves every property of the run `MainLayout` but `NothingStolen`,
for any number of picks, key presses, page loads, chart changes and traces. All of them speak of
moments when nothing is on its way; the invariant `IInv` says of every other moment
what is owed to whom.

- A pending call of `updateTheme`, or its reply, belongs to a pick whose first
  subscriber, `MainLayout`, waits for it (`UpdatesWait`), and there is one per pick
  (`OneEach`). So a reply never lets another pick go on.
- The last pending `updateTheme` carries the theme of `ThemeManager`; with none
  pending, document and cookie have it (`Follows`). This is `DocumentFollows`.
- `MainLayout` is the first subscription, and an open dialog and a shown chart are
  subscribed (`Subscribed`); without overlaps only the last pick has callbacks left
  and they read its theme (`LastOnly`, `ReadsNext`).
- The cookie a dialog asks for is current, or the dialog's callback is still to come
  and comes after the answer, because the answer to `updateTheme` is behind it on the
  same connection (`AsksOnce`, `AskedInTime`). From this follows `OpenAgrees`: an open
  dialog has the theme or has a callback left.
- A chart was told the theme or will be (`ChartTold`), and what was drawn for the
  current theme was drawn, or will be, behind its `updateTheme` (`ChartDrawn`).
- `TracesReversed` rests on `FixedIsReverse`: the loop of `fixTraceLineRendering`,
  a recursive function, reverses every sequence. The induction is over the set of indices at
  which it would be wrong, which has a least element (`LeastNumber`); stated of a set
  and not of an operator it is within the prover's reach.

A page load empties the connection and starts from the cookie, where the invariant
holds as it does at first. Assumed: the system's theme is Light or Dark, the
traces are a sequence and the bounds are natural numbers; elements and keys are
arbitrary.

Every inductive invariant was first checked by TLC, as an invariant of the
instance of its run.

Only model-checked:

- the liveness properties (`CallReturns`, `DisposingEntryStops`, `DisposeTerminates`,
  `CallReturnsOrLockBlocks`, `DisposeEndsOrLockBlocks`, `AlreadyInTargetReturns`,
  `CompletedWatchersEnd`, `WriterReturns`), because fairness is outside the prover;
- `NothingStolen`, which is a question about `isActiveElementInput`. That is recursive
  over trees of elements, and with a recursive operator the prover loses its
  arithmetic, so `InputElements` is a module of its own that only the run uses;
- `Insert` at small capacities, which is false at larger ones;
- the violated properties, whose counterexamples are the result.

## Plan

1. `TelemetryRepository` on top of `CircularBuffer` (ordered insertion, removal
   and re-insertion of traces) and `Subscription`.
2. `ResourcePublisher`, `DashboardServiceData` and their composition with
   `ResourceNotificationService`; the abstract specification is a watcher that
   sees every resource's latest snapshot eventually.
3. `HttpServiceEndpointResolver`, and the DNS provider's refresh with back-off as
   a real source of changes for `ServiceEndpointWatcher`.
4. `DashboardClient` reconnects; `ApplicationExecutor` watch and shutdown.
5. Composition of resolver and watcher: the cleanup task disposes a watcher inside
   the resolver's lock.
6. Proofs: capacity 3 of `InsertSpec`; `isActiveElementInput` as a recursive
   function on the depth of the tree, so that `NothingStolen` can be proved for all
   trees and not only for those of the run.

## Not modelled

The components listed in `PROJECT.json` as `not_modelled`, each with its reason.

Of the JavaScript in the repository only the dashboard's own files are modelled:
`app.js` and `theme.js`. `LogViewer.razor.js` is not: it holds an older insertion of
log lines, which compares timestamps as strings, and nothing imports it. Nearly all the other script lines are
copies of third-party libraries inside example projects (the same jQuery validation
adapter twenty times, for instance), which are not the program's own logic and
which no code of the application runs. They make up most of the repository's
JavaScript; the modelled scripts are a small part of it by lines.

Within the modelled components: logging, the suppression of the execution context,
argument checks, exceptions of user callbacks, which are caught and logged; colors
and links of log lines; the data of charts and its formatting; listeners that
single pages add for panel shortcuts; helpers of `app.js` without state (time zone,
focus, classes of the body). The behaviour of the UI library's dialogs and of the
browser's events, observers and clipboard is taken from how the scripts use them. A
watcher that stops at the yield of the backlog leaves its callback subscribed, a
monitor that ends leaves its handler, and a theme picked before the script was
imported is dropped: the model has these steps, and no property speaks about them.
