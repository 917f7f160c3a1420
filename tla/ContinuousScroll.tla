-------------------------- MODULE ContinuousScroll --------------------------
(***************************************************************************)
(* A list of the dashboard stays at its end while items are added to it,   *)
(* "unless the user has scrolled to view content" (app.js).  The script    *)
(* learns of a scroll, the user's or its own, by an event of a later frame *)
(* of the browser, and of a new height by a ResizeObserver at the end of a *)
(* frame; items are added at any time in between.  The position is that of *)
(* the top of what is shown, in pixels.                                    *)
(***************************************************************************)
EXTENDS Integers, FiniteSets

CONSTANTS
    clientHeight, \* how much of the list is shown at once
    Height,       \* the heights a list can have
    MaxScrolls,   \* bound: times that the user scrolls
    MaxChanges    \* bound: changes of the list, pages and resets

ASSUME HeightAssumption == clientHeight \in Nat /\ Height \subseteq Nat \ {0}
ASSUME ScrollBoundAssumption == MaxScrolls \in Nat /\ MaxChanges \in Nat

VARIABLES
    isScrolledToContent,
    lastScrollHeight, \* 0 for null
    scrollHeight,     \* the height of the list in the current container
    laidOut,          \* the height that was shown in the last frame
    scrollTop,        \* the position in the current container
    scrollEvent,      \* a scroll event will be dispatched in the next frame
    listening,        \* initializeContinuousScroll has run for the container
    observed,         \* the height its ResizeObserver has reported, 0 for none
    removed,          \* the observer of an older container has its removal to report
    away,             \* history: the user has scrolled away from the end
    early,            \* history: the user scrolled before the observer's first report
    scrolls, changes  \* bounds

pageVars == <<scrollHeight, laidOut, scrollTop, scrollEvent, listening, observed, removed>>
scrollVars == <<isScrolledToContent, lastScrollHeight, pageVars, away, early, scrolls,
                changes>>

ScrollTypeOK ==
    /\ isScrolledToContent \in BOOLEAN
    /\ lastScrollHeight \in Height \cup {0}
    /\ scrollHeight \in Height /\ laidOut \in Height \cup {0} /\ observed \in Height \cup {0}
    /\ scrollTop \in Nat
    /\ scrollEvent \in BOOLEAN /\ listening \in BOOLEAN /\ removed \in BOOLEAN
    /\ away \in BOOLEAN /\ early \in BOOLEAN
    /\ scrolls \in 0 .. MaxScrolls /\ changes \in 0 .. MaxChanges

\* The greatest position in a list of height h.
Bottom(h) == IF h > clientHeight THEN h - clientHeight ELSE 0

\* Layout keeps the position within the list.
Clamped(h) == IF scrollTop > Bottom(h) THEN Bottom(h) ELSE scrollTop

\* Within a few pixels of the end.
AtEnd(h, position) == Bottom(h) - position < 5

\* A list that is too short to be scrolled when it is opened.
ScrollInit ==
    /\ isScrolledToContent = FALSE /\ lastScrollHeight = 0
    /\ scrollHeight \in {h \in Height : h <= clientHeight}
    /\ laidOut = 0 /\ scrollTop = 0
    /\ scrollEvent = FALSE /\ listening = FALSE /\ observed = 0 /\ removed = FALSE
    /\ away = FALSE /\ early = FALSE
    /\ scrolls = 0 /\ changes = 0

-----------------------------------------------------------------------------
(* The page and its server.                                                *)

CountChange == changes < MaxChanges /\ changes' = changes + 1

\* Items are added to the list, or removed from it.
ChangeContent(h) ==
    /\ CountChange
    /\ h # scrollHeight /\ scrollHeight' = h
    /\ UNCHANGED <<isScrolledToContent, lastScrollHeight, laidOut, scrollTop, scrollEvent,
                   listening, observed, removed, away, early, scrolls>>

\* Another page is shown, with a container of its own.  The variables of the
\* script live on, and so does the observer of the old container.
NewContainer(h) ==
    /\ CountChange
    /\ scrollHeight' = h /\ laidOut' = 0 /\ scrollTop' = 0 /\ scrollEvent' = FALSE
    /\ removed' = (removed \/ (listening /\ observed # 0))
    /\ listening' = FALSE /\ observed' = 0
    /\ away' = FALSE /\ early' = FALSE
    /\ UNCHANGED <<isScrolledToContent, lastScrollHeight, scrolls>>

\* Faulty: the value of the page before is taken over.  (Definitions marked
\* "Faulty" are plausible mistakes in the definition that follows them.)
RememberedPosition == UNCHANGED isScrolledToContent

InitialPosition == isScrolledToContent' = FALSE

\* The server calls it when the page was rendered for the first time.
initializeContinuousScroll ==
    /\ ~listening /\ listening' = TRUE
    /\ InitialPosition
    /\ UNCHANGED <<lastScrollHeight, scrollHeight, laidOut, scrollTop, scrollEvent, observed,
                   removed, away, early, scrolls, changes>>

\* The list of another resource is shown.  A scroll whose event is still to
\* come counts from then on, as if the user had scrolled afterwards.
resetContinuousScrollPosition ==
    /\ listening /\ CountChange
    /\ isScrolledToContent' = FALSE
    /\ away' = (away /\ scrollEvent)
    /\ UNCHANGED <<lastScrollHeight, pageVars, early, scrolls>>

-----------------------------------------------------------------------------
(* The user scrolls what the last frame has shown.                         *)

UserScroll(position) ==
    /\ scrolls < MaxScrolls /\ scrolls' = scrolls + 1
    /\ position \in 0 .. Bottom(laidOut) /\ position # scrollTop
    /\ scrollTop' = position /\ scrollEvent' = TRUE
    /\ away' = ~AtEnd(laidOut, position)
    /\ early' = (early \/ observed = 0)
    /\ UNCHANGED <<isScrolledToContent, lastScrollHeight, scrollHeight, laidOut, listening,
                   observed, removed, changes>>

-----------------------------------------------------------------------------
(* A frame of the browser: scroll events, layout, observers.               *)

\* Faulty: the position is compared with the height the list has by now.
CurrentHeight == scrollHeight

\* lastScrollHeight || container.scrollHeight
KnownHeight == IF lastScrollHeight = 0 THEN scrollHeight ELSE lastScrollHeight

\* The handler asks for the height and the position, which has the browser lay
\* out the list first.
isScrolledToBottom == KnownHeight - clientHeight - Clamped(scrollHeight) < 5

\* Faulty: the end is shown whatever the user looks at.
AlwaysFollow(flag) == TRUE

FollowsEnd(flag) == ~flag

\* The listener sets isScrolledToContent; then the observer of a removed
\* container finds no height, and that of the current one a new height.
Frame ==
    LET heard == scrollEvent /\ listening
        flag == IF heard THEN ~isScrolledToBottom ELSE isScrolledToContent
        resized == listening /\ observed # scrollHeight
        position == IF resized /\ FollowsEnd(flag) THEN Bottom(scrollHeight)
                                                   ELSE Clamped(scrollHeight)
    IN  /\ scrollEvent \/ resized \/ removed \/ laidOut # scrollHeight
        /\ isScrolledToContent' = flag
        /\ lastScrollHeight' = IF resized THEN scrollHeight
                               ELSE IF removed THEN 0
                               ELSE IF heard THEN KnownHeight ELSE lastScrollHeight
        /\ laidOut' = scrollHeight
        /\ scrollTop' = position /\ scrollEvent' = (position # scrollTop)
        /\ observed' = IF resized THEN scrollHeight ELSE observed
        /\ removed' = FALSE
        /\ away' = (away /\ Clamped(scrollHeight) = scrollTop)
        /\ UNCHANGED <<scrollHeight, listening, early, scrolls, changes>>

ScrollNext ==
    \/ \E h \in Height : ChangeContent(h)
    \/ initializeContinuousScroll \/ resetContinuousScrollPosition
    \/ \E position \in UNION {0 .. Bottom(h) : h \in Height} : UserScroll(position)
    \/ Frame

-----------------------------------------------------------------------------
(* Properties.                                                             *)

\* Between frames, with every event handled, the script takes the user to be
\* looking at content exactly when that is so: its own scrolling, items added
\* before its event arrives and lists that get shorter do not confuse it.
KnowsWhereUserIs ==
    listening /\ ~scrollEvent /\ observed = scrollHeight /\ ~early
      => isScrolledToContent = away

\* "This ensures that the logs are scrolled to the bottom when there are new
\* logs unless the user has scrolled to view content" (app.js): a frame that
\* shows a new height shows the end of the list.
NewItemsShown ==
    [][observed' \notin {0, observed} /\ ~away' /\ ~early
         => scrollTop' = Bottom(scrollHeight)]_scrollVars
=============================================================================
