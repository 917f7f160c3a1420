----------------------------- MODULE MainLayout -----------------------------
(***************************************************************************)
(* One browser window of the dashboard and its circuit on the server.  The *)
(* server calls scripts (app.js, theme.js) in the browser; calls, replies  *)
(* and the user's events are messages on one connection, delivered in      *)
(* order both ways.  A theme picked in the settings dialog goes through    *)
(* ThemeManager to its subscribers one after the other: MainLayout, which  *)
(* has the browser apply it and awaits that, a chart, which is drawn again *)
(* in the colors of the document, and the dialog itself.  The cookie is    *)
(* shared with other windows; ThemeManager is not (it is scoped).          *)
(***************************************************************************)
EXTENDS Shortcuts, Sequences

S == INSTANCE SequencesExt

CONSTANTS
    SystemTheme, \* prefers-color-scheme: "Light" or "Dark"
    Focusable,   \* the elements that can have the focus
    KeyEvent,    \* the key presses
    TextElement(_), \* whether text is typed into an element, as InputElements has it
    Trace,       \* the traces of a chart, in the order of its data
    MaxPicks,    \* bound: themes picked in the dialog
    MaxKeys,     \* bound: shortcuts and clicks on the settings button
    MaxOther,    \* bound: page reloads, themes set by another window and changes
                 \*    of what a chart shows, together
    MaxEvents    \* bound: all of these together

ASSUME SystemAssumption == SystemTheme \in {"Light", "Dark"}
ASSUME TraceAssumption == Trace \in Seq(STRING)
ASSUME BoundAssumption ==
    \A n \in {MaxPicks, MaxKeys, MaxOther, MaxEvents} : n \in Nat

Setting == {"System", "Light", "Dark"}

\* No theme: a cookie that is not set, a ThemeManager before the first change.
None == ""

VARIABLES
    cookie,   \* currentTheme, "" when it is not set
    document, \* the theme applied to the document
    calls,    \* script calls on the way to the browser
    replies,  \* replies and events on the way to the server
    keys,     \* the keydown listener is registered in the browser
    layout,   \* MainLayout's first render: importing, registering, ready
    theme,    \* ThemeManager.Theme, "" before the first change
    subs,     \* its subscriptions
    raises,   \* per pick, whom RaiseThemeChangedAsync has to call, and the theme
              \*    that the callback of the first of them has read, "" for none
    dialog,   \* the settings dialog: which one, its step and _currentSetting
    chart,    \* the chart and its view model
    count,    \* bounds
    lost,     \* history: a pick came before theme.js was imported
    rushed,   \* history: a pick was made while another one was being applied
    undrawn,  \* history: a pick was made before the chart was drawn in its theme
    stolen    \* history: a key press that was not the dashboard's was taken

historyVars == <<lost, rushed, undrawn, stolen>>
serverVars == <<layout, theme, subs, raises, dialog>>
vars == <<cookie, document, calls, replies, keys, serverVars, chart, count, historyVars>>

NoChart == [shown |-> "no", theme |-> None, rendered |-> "none",
            back |-> None, order |-> <<>>]

Message(f, arg, n) == [f |-> f, arg |-> arg, n |-> n]
Send(c) == calls' = Append(calls, c)
Reply(c) == replies' = Append(replies, c)

Layout == [who |-> "layout", n |-> 0]
Chart == [who |-> "chart", n |-> 0]
Dialog(n) == [who |-> "dialog", n |-> n]
Subscription == [who : {"layout", "chart", "dialog"}, n : Nat]

ThemeOrNone == Setting \cup {None}

CallOf == [f : {"import", "register", "importForDialog", "getThemeCookieValue", "updateTheme",
                "initializeChart", "updateChart"},
           arg : ThemeOrNone, n : Nat]

ReplyOf == [f : {"imported", "registered", "importedForDialog", "cookie", "applied",
                 "button", "pick", "close"},
            arg : ThemeOrNone, n : Nat]

KeyOf == [f : {"key"}, arg : {keydownListener(active, e) : active \in Focusable, e \in KeyEvent},
          n : Nat]

TypeOK ==
    /\ cookie \in ThemeOrNone
    /\ document \in {"Light", "Dark"}
    /\ calls \in Seq(CallOf)
    /\ \A i \in DOMAIN calls : calls[i].f = "updateTheme" => calls[i].arg \in Setting
    /\ replies \in Seq(ReplyOf \cup KeyOf)
    /\ \A i \in DOMAIN replies : replies[i].f = "pick" => replies[i].arg \in Setting
    /\ keys \in BOOLEAN
    /\ layout \in {"importing", "registering", "ready"}
    /\ theme \in ThemeOrNone
    /\ subs \in Seq(Subscription)
    /\ raises \in Seq([todo : Seq(Subscription), read : ThemeOrNone])
    /\ dialog \in [n : Nat, at : {"closed", "importing", "reading", "open"},
                   setting : ThemeOrNone]
    /\ chart \in [shown : {"no", "yes", "gone"}, theme : ThemeOrNone,
                  rendered : ThemeOrNone \cup {"none"}, back : {None, "Light", "Dark"},
                  order : Seq(STRING)]
    /\ count \in [picks : Nat, keys : Nat, loads : Nat, foreign : Nat, redraws : Nat]
    /\ historyVars \in BOOLEAN \X BOOLEAN \X BOOLEAN \X BOOLEAN

-----------------------------------------------------------------------------
(* theme.js.  Definitions marked "Faulty" are plausible mistakes in the    *)
(* definition that follows them.                                           *)

getSystemTheme == SystemTheme

getEffectiveTheme(specified) ==
    IF specified \in {"Light", "Dark"} THEN specified ELSE getSystemTheme

\* Faulty: the value of a cookie that is not there is not replaced.
UndefinedCookie == IF cookie = None THEN "undefined" ELSE cookie

\* getCookieValue returns the empty string when there is no cookie, which ??
\* does not replace by System.
getThemeCookieValue == cookie

\* initializeTheme, when theme.js is loaded.
initializeTheme == getEffectiveTheme(getThemeCookieValue)

\* The document is given the effective theme, and the cookie the specified one.
updateTheme(specified) ==
    /\ document' = getEffectiveTheme(specified)
    /\ cookie' = specified

-----------------------------------------------------------------------------
(* The chart functions of app.js.                                          *)

\* The node at position i + 1 is moved to the front, for i = 1, 2, ...
MoveToFront(nodes, i) ==
    <<nodes[i]>> \o SubSeq(nodes, 1, i - 1) \o SubSeq(nodes, i + 1, Len(nodes))

\* Faulty: the loop ends one node too early.
FixedShort(nodes) ==
    LET Fixed[i \in 1 .. Len(nodes)] == IF i = 1 THEN nodes ELSE MoveToFront(Fixed[i - 1], i)
    IN  IF Len(nodes) < 2 THEN nodes ELSE Fixed[Len(nodes) - 1]

fixTraceLineRendering(nodes) ==
    LET Fixed[i \in 1 .. Len(nodes)] == IF i = 1 THEN nodes ELSE MoveToFront(Fixed[i - 1], i)
    IN  IF nodes = <<>> THEN nodes ELSE Fixed[Len(nodes)]

\* Plotly draws the traces in the order of the data.
PlotlyOrder == Trace

\* A new chart has the colors of the document; one that is updated keeps its
\* background, whatever the document's is by then.
initializeChart ==
    chart' = [chart EXCEPT !.back = document,
                           !.order = fixTraceLineRendering(PlotlyOrder)]

updateChart ==
    chart' = [chart EXCEPT !.order = fixTraceLineRendering(PlotlyOrder)]

-----------------------------------------------------------------------------
(* A page load: theme.js applies the theme of the cookie, and a new circuit *)
(* has nothing of the old one.                                              *)

FirstCall == <<Message("import", None, 0)>>
NoDialog == [n |-> 0, at |-> "closed", setting |-> "System"]

\* The first load has no cookie yet, a reload or another window sets one.
Init ==
    /\ cookie = None
    /\ document = initializeTheme
    /\ calls = FirstCall /\ replies = <<>> /\ keys = FALSE
    /\ layout = "importing" /\ theme = None /\ subs = <<Layout>> /\ raises = <<>>
    /\ dialog = NoDialog /\ chart = NoChart
    /\ lost = FALSE /\ rushed = FALSE /\ undrawn = FALSE /\ stolen = FALSE
    /\ count = [picks |-> 0, keys |-> 0, loads |-> 0, foreign |-> 0, redraws |-> 0]

Other == count.loads + count.foreign + count.redraws
EventsLeft == count.picks + count.keys + Other < MaxEvents
OtherLeft == Other < MaxOther /\ EventsLeft

Reload ==
    /\ OtherLeft
    /\ count' = [count EXCEPT !.loads = @ + 1]
    /\ cookie' = cookie /\ document' = initializeTheme
    /\ calls' = FirstCall /\ replies' = <<>> /\ keys' = FALSE
    /\ layout' = "importing" /\ theme' = None /\ subs' = <<Layout>> /\ raises' = <<>>
    /\ dialog' = NoDialog /\ chart' = NoChart
    /\ lost' = FALSE /\ rushed' = FALSE /\ undrawn' = FALSE /\ UNCHANGED stolen

\* updateTheme in another window of the browser.
OtherWindow(v) ==
    /\ OtherLeft
    /\ count' = [count EXCEPT !.foreign = @ + 1]
    /\ cookie' = v
    /\ UNCHANGED <<document, calls, replies, keys, serverVars, chart, historyVars>>

-----------------------------------------------------------------------------
(* The browser takes the next script call.                                 *)

Take(f) ==
    /\ calls # <<>> /\ Head(calls).f = f
    /\ calls' = Tail(calls)

Import ==
    /\ Take("import")
    /\ Reply(Message("imported", None, 0))
    /\ UNCHANGED <<cookie, document, keys, serverVars, chart, count, historyVars>>

registerGlobalKeydownListener ==
    /\ Take("register")
    /\ keys' = TRUE
    /\ Reply(Message("registered", None, 0))
    /\ UNCHANGED <<cookie, document, serverVars, chart, count, historyVars>>

ImportForDialog ==
    /\ Take("importForDialog")
    /\ Reply(Message("importedForDialog", None, Head(calls).n))
    /\ UNCHANGED <<cookie, document, keys, serverVars, chart, count, historyVars>>

ReadCookie ==
    /\ Take("getThemeCookieValue")
    /\ Reply(Message("cookie", getThemeCookieValue, Head(calls).n))
    /\ UNCHANGED <<cookie, document, keys, serverVars, chart, count, historyVars>>

ApplyTheme ==
    /\ Take("updateTheme")
    /\ updateTheme(Head(calls).arg)
    /\ Reply(Message("applied", None, Head(calls).n))
    /\ UNCHANGED <<keys, serverVars, chart, count, historyVars>>

DrawChart ==
    /\ \/ Take("initializeChart") /\ initializeChart
       \/ Take("updateChart") /\ updateChart
    /\ UNCHANGED <<cookie, document, replies, keys, serverVars, count, historyVars>>

-----------------------------------------------------------------------------
(* The user.                                                               *)

CountKey == count.keys < MaxKeys /\ EventsLeft /\ count' = [count EXCEPT !.keys = @ + 1]

KeyDown(active, e) ==
    LET shortcut == keydownListener(active, e) IN
    /\ keys /\ shortcut # NoShortcut
    /\ CountKey
    /\ Reply(Message("key", shortcut, 0))
    /\ stolen' = (stolen \/ TextElement(active) \/ e.modifiers \cap {"ctrl", "alt", "meta"} # {})
    /\ UNCHANGED <<cookie, document, calls, keys, serverVars, chart, lost, rushed,
                   undrawn>>

SettingsButton ==
    /\ CountKey
    /\ Reply(Message("button", None, 0))
    /\ UNCHANGED <<cookie, document, calls, keys, serverVars, chart, historyVars>>

\* The value that the radio buttons of the dialog show.
Shown ==
    LET last == S!SelectLastInSubSeq(replies, 1, Len(replies),
                                     LAMBDA c : c.f = "pick" /\ c.n = dialog.n)
    IN  IF last = 0 THEN dialog.setting ELSE replies[last].arg

\* Another theme is picked in the dialog, or the dialog is closed.
Pick(v) ==
    /\ dialog.at # "closed" /\ v # Shown /\ count.picks < MaxPicks /\ EventsLeft
    /\ count' = [count EXCEPT !.picks = @ + 1]
    /\ Reply(Message("pick", v, dialog.n))
    /\ UNCHANGED <<cookie, document, calls, keys, serverVars, chart, historyVars>>

CloseDialog ==
    /\ dialog.at # "closed"
    /\ ~\E i \in DOMAIN replies : replies[i].f = "close"
    /\ Reply(Message("close", None, dialog.n))
    /\ UNCHANGED <<cookie, document, calls, keys, serverVars, chart, count, historyVars>>

-----------------------------------------------------------------------------
(* The server takes the next reply or event.                               *)

Receive(f) ==
    /\ replies # <<>> /\ Head(replies).f = f
    /\ replies' = Tail(replies)

\* OnAfterRenderAsync of MainLayout goes on: _jsModule is set ...
Imported ==
    /\ Receive("imported")
    /\ layout' = "registering"
    /\ Send(Message("register", None, 0))
    /\ UNCHANGED <<cookie, document, keys, theme, subs, raises, dialog, chart, count,
                   historyVars>>

\* ... and MainLayout becomes a listener of the ShortcutManager.
Registered ==
    /\ Receive("registered")
    /\ layout' = "ready"
    /\ UNCHANGED <<cookie, document, calls, keys, theme, subs, raises, dialog, chart,
                   count, historyVars>>

\* OnThemeChanged adds to the end of _subscriptions.
OnThemeChanged(s) == Append(subs, s)

\* Disposing a subscription; there is one of each.
RemoveSubscription(s) ==
    IF S!Contains(subs, s) THEN S!RemoveAt(subs, CHOOSE i \in DOMAIN subs : subs[i] = s)
    ELSE subs

\* A dialog that is open is not opened again.
LaunchSettings ==
    IF dialog.at # "closed" THEN UNCHANGED <<dialog, subs, calls>>
    ELSE /\ dialog' = [n |-> dialog.n + 1, at |-> "importing", setting |-> "System"]
         /\ subs' = OnThemeChanged(Dialog(dialog.n + 1))
         /\ Send(Message("importForDialog", None, dialog.n + 1))

ButtonClicked ==
    /\ Receive("button")
    /\ LaunchSettings
    /\ UNCHANGED <<cookie, document, keys, layout, theme, raises, chart, count, historyVars>>

DisposeDialog ==
    /\ dialog' = [dialog EXCEPT !.at = "closed"]
    /\ subs' = RemoveSubscription(Dialog(dialog.n))

DialogClosed ==
    /\ Receive("close")
    /\ IF dialog.at = "closed" THEN UNCHANGED <<dialog, subs>> ELSE DisposeDialog
    /\ UNCHANGED <<cookie, document, calls, keys, layout, theme, raises, chart, count,
                   historyVars>>

\* The page with the chart is shown, or left; it is visited once per load.
ShowMetrics ==
    IF chart.shown # "no" THEN UNCHANGED <<chart, subs>>
    ELSE chart' = [chart EXCEPT !.shown = "yes"] /\ subs' = OnThemeChanged(Chart)

LeaveMetrics ==
    /\ chart' = [chart EXCEPT !.shown = IF @ = "yes" THEN "gone" ELSE @]
    /\ subs' = RemoveSubscription(Chart)

\* OnGlobalKeyDown calls the listeners that subscribe to the shortcut.  Help
\* closes the settings dialog.
OnGlobalKeyDown ==
    LET shortcut == Head(replies).arg IN
    /\ Receive("key")
    /\ \/ layout # "ready" /\ UNCHANGED <<dialog, subs, calls, chart>>
       \/ layout = "ready" /\ shortcut \notin SubscribedShortcuts
          /\ UNCHANGED <<dialog, subs, calls, chart>>
       \/ layout = "ready" /\ shortcut = Settings /\ LaunchSettings /\ UNCHANGED chart
       \/ layout = "ready" /\ shortcut = Help /\ UNCHANGED <<calls, chart>>
          /\ IF dialog.at = "closed" THEN UNCHANGED <<dialog, subs>> ELSE DisposeDialog
       \/ layout = "ready" /\ shortcut = GoToMetrics /\ ShowMetrics
          /\ UNCHANGED <<dialog, calls>>
       \/ layout = "ready" /\ shortcut \in SubscribedShortcuts \ {Settings, Help, GoToMetrics}
          /\ LeaveMetrics /\ UNCHANGED <<dialog, calls>>
    /\ UNCHANGED <<cookie, document, keys, layout, theme, raises, count, historyVars>>

\* OnAfterRenderAsync of the dialog: it imports theme.js and asks for the cookie.
DialogImported ==
    /\ Receive("importedForDialog")
    /\ IF dialog.at = "importing" /\ dialog.n = Head(replies).n
       THEN dialog' = [dialog EXCEPT !.at = "reading"]
            /\ Send(Message("getThemeCookieValue", None, dialog.n))
       ELSE UNCHANGED <<dialog, calls>>
    /\ UNCHANGED <<cookie, document, keys, layout, theme, subs, raises, chart, count,
                   historyVars>>

CookieRead ==
    /\ Receive("cookie")
    /\ dialog' = IF dialog.at = "reading" /\ dialog.n = Head(replies).n
                 THEN [dialog EXCEPT !.at = "open", !.setting = Head(replies).arg]
                 ELSE dialog
    /\ UNCHANGED <<cookie, document, calls, keys, layout, theme, subs, raises, chart,
                   count, historyVars>>

-----------------------------------------------------------------------------
(* SettingChangedAsync of the dialog and RaiseThemeChangedAsync.           *)

\* Faulty: MainLayout is given the theme that was set before.
ThemeBefore(v) == IF theme = None THEN v ELSE theme

NewTheme(v) == v

\* Up to the first await: the theme is set, the subscriptions are copied and
\* MainLayout, the first of them, calls updateTheme.  When theme.js is not
\* imported yet, it does nothing, and the others are called at once.
RaiseThemeChanged(v) ==
    /\ theme' = v
    /\ IF layout # "importing"
       THEN /\ raises' = Append(raises, [todo |-> subs, read |-> None])
            /\ Send(Message("updateTheme", NewTheme(v), Len(raises) + 1))
            /\ UNCHANGED <<chart, lost>>
       ELSE /\ chart' = IF S!Contains(subs, Chart) THEN [chart EXCEPT !.theme = v] ELSE chart
            /\ lost' = TRUE
            /\ UNCHANGED <<raises, calls>>

\* Faulty: a new theme does not count as a change of the chart.
NeverDrawn == chart.rendered = "none"

\* The chart is to be drawn anew: its theme is not the one it was drawn in.
ThemeChanged == chart.rendered # chart.theme

InProgress == \E i \in DOMAIN raises : raises[i].todo # <<>>

PickReceived ==
    LET pick == Head(replies) IN
    /\ Receive("pick")
    /\ \/ /\ dialog.at # "closed" /\ dialog.n = pick.n
          /\ dialog' = [dialog EXCEPT !.setting = pick.arg]
          /\ RaiseThemeChanged(pick.arg)
          /\ rushed' = (rushed \/ InProgress)
          /\ undrawn' = (undrawn \/ (chart.shown = "yes" /\ ThemeChanged))
       \/ /\ dialog.at = "closed" \/ dialog.n # pick.n
          /\ UNCHANGED <<dialog, theme, raises, calls, chart, lost, rushed, undrawn>>
    /\ UNCHANGED <<cookie, document, keys, layout, subs, count, stolen>>

Called(i) == raises' = [raises EXCEPT ![i] = [todo |-> Tail(@.todo), read |-> None]]

\* The callback of MainLayout returns; the others run on a pool thread.
Applied ==
    /\ Receive("applied")
    /\ Called(Head(replies).n)
    /\ UNCHANGED <<cookie, document, calls, keys, layout, theme, subs, dialog, chart,
                   count, historyVars>>

\* The next callback, of a chart or a dialog, reads the theme ...
CallbackReads(i) ==
    /\ raises[i].todo # <<>> /\ Head(raises[i].todo) # Layout
    /\ raises[i].read = None
    /\ raises' = [raises EXCEPT ![i].read = theme]
    /\ UNCHANGED <<cookie, document, calls, replies, keys, layout, theme, subs, dialog,
                   chart, count, historyVars>>

\* Faulty: the dialog leaves its setting to the radio buttons.
SettingKept(i) == dialog.setting

SettingAfter(i) ==
    IF Head(raises[i].todo) = Dialog(dialog.n) THEN raises[i].read ELSE dialog.setting

\* ... and sets it in its component, which is rendered later on.
CallbackSets(i) ==
    /\ raises[i].read # None
    /\ chart' = IF Head(raises[i].todo) = Chart
                THEN [chart EXCEPT !.theme = raises[i].read] ELSE chart
    /\ dialog' = [dialog EXCEPT !.setting = SettingAfter(i)]
    /\ Called(i)
    /\ UNCHANGED <<cookie, document, calls, replies, keys, layout, theme, subs, count,
                   historyVars>>

-----------------------------------------------------------------------------
(* OnAfterRenderAsync of the chart: it is drawn anew when its theme is not *)
(* the one it was drawn in, or when it shows something else, and updated   *)
(* five times a second otherwise.  For the bound, not while a drawing is   *)
(* on its way.                                                             *)

DrawingSent ==
    \E i \in DOMAIN calls : calls[i].f \in {"initializeChart", "updateChart"}

RenderChart ==
    /\ chart.shown = "yes"
    /\ IF ThemeChanged
       THEN /\ chart' = [chart EXCEPT !.rendered = chart.theme]
            /\ Send(Message("initializeChart", None, 0))
       ELSE ~DrawingSent /\ Send(Message("updateChart", None, 0)) /\ UNCHANGED chart
    /\ UNCHANGED <<cookie, document, replies, keys, serverVars, count, historyVars>>

Redraw ==
    /\ chart.shown = "yes" /\ OtherLeft
    /\ count' = [count EXCEPT !.redraws = @ + 1]
    /\ chart' = [chart EXCEPT !.rendered = chart.theme]
    /\ Send(Message("initializeChart", None, 0))
    /\ UNCHANGED <<cookie, document, replies, keys, serverVars, historyVars>>

-----------------------------------------------------------------------------
Browser == \/ Import \/ registerGlobalKeydownListener \/ ImportForDialog
           \/ ReadCookie \/ ApplyTheme \/ DrawChart

User ==
    \/ \E active \in Focusable, e \in KeyEvent : KeyDown(active, e)
    \/ \E v \in Setting : Pick(v) \/ OtherWindow(v)
    \/ SettingsButton \/ CloseDialog \/ Reload

Server ==
    \/ Imported \/ Registered \/ ButtonClicked \/ DialogClosed \/ OnGlobalKeyDown
    \/ DialogImported \/ CookieRead \/ PickReceived \/ Applied
    \/ RenderChart \/ Redraw
    \/ \E i \in DOMAIN raises : CallbackReads(i) \/ CallbackSets(i)

Next == Browser \/ User \/ Server

Spec == Init /\ [][Next]_vars

-----------------------------------------------------------------------------
(* Properties.                                                             *)

\* Nothing is on its way and no callback is left to run.
Quiet == calls = <<>> /\ replies = <<>> /\ ~InProgress

\* Once everything has settled, the document shows the theme of the cookie,
\* which is the last theme that was picked, however picks, page loads and the
\* calls of updateTheme overlapped.
DocumentFollows ==
    Quiet /\ ~lost /\ count.foreign = 0
      => document = getEffectiveTheme(cookie) /\ theme \in {None, cookie}

\* A dialog that was asking for the cookie when a theme was picked ends up with
\* the theme of the ThemeManager: the callback repairs what a late answer
\* overwrote.  Only picks in quick succession may leave it with an older one.
DialogAgrees ==
    Quiet /\ dialog.at = "open" /\ theme # None /\ ~lost /\ ~rushed /\ count.foreign = 0
      => dialog.setting = theme

\* A chart has the colors of the document: MainLayout is called before the
\* charts, so that no chart is drawn in the colors of the theme before, and
\* none is left undrawn.  (A theme that is picked while another one is being
\* applied, or before the chart is drawn in the other one, may leave the chart
\* with the older theme, or with the new one in the colors of the other.)
ChartAgrees ==
    Quiet /\ chart.shown = "yes" /\ ~ThemeChanged /\ ~lost /\ ~rushed /\ ~undrawn
      => chart.back = document

\* However often a chart is drawn and updated, its traces are in the reverse
\* order of its data: "the fix is to reverse the order of traces".
TracesReversed == chart.back # None => chart.order = S!Reverse(Trace)

\* A key press is not taken from an element that text is typed into, and not
\* from a combination of the browser.
NothingStolen == ~stolen
=============================================================================
