-------------------------- MODULE PageScripts_proofs --------------------------
(***************************************************************************)
(* The properties of PageScripts for lists and windows of every height and *)
(* any number of scrolls, changes and clicks.                              *)
(***************************************************************************)
EXTENDS PageScripts, TLAPS

-----------------------------------------------------------------------------
(* The copy button.                                                        *)

\* There is at most one timeout, that of the last click, and the button knows
\* it.
OneTimeout ==
    \/ timeouts = {} /\ copyTimeout = 0
    \/ clicks # 0 /\ timeouts = {clicks} /\ copyTimeout = clicks

\* BackToCopy while writes are still to be settled.
LooksAsBefore == timeouts = {} /\ ~late => icon = "copy" /\ tooltip = "precopy"

CopyInv == CopyTypeOK /\ OneTimeout /\ ShownUntilTimeout /\ LooksAsBefore

\* Every step of a copy button preserves CopyInv.
LEMMA CopyStep ==
    ASSUME CopyInv, CopyNext
    PROVE  CopyInv'
<1> USE ClickBoundAssumption
<1>1. CASE copyTextToClipboard
  <2>1. /\ clicks' \in 1 .. MaxClicks /\ clicks \in Nat /\ clicks' = clicks + 1
        /\ writing \subseteq 1 .. clicks
    BY <1>1 DEF CopyInv, CopyTypeOK, copyTextToClipboard
  <2>2. timeouts' = {clicks'} /\ copyTimeout' = clicks'
    BY <1>1 DEF CopyInv, OneTimeout, copyTextToClipboard, ClearedTimeouts
  <2>3. OneTimeout'
    BY <2>1, <2>2 DEF OneTimeout
  <2>4. writing' \subseteq 1 .. clicks'
    <3>1. \A n \in 1 .. clicks : n \in 1 .. clicks'
      BY <2>1
    <3> QED BY <1>1, <2>1, <3>1 DEF copyTextToClipboard
  <2>5. CopyTypeOK'
    BY <1>1, <2>1, <2>2, <2>4 DEF CopyInv, CopyTypeOK, copyTextToClipboard
  <2>6. ShownUntilTimeout' /\ LooksAsBefore'
    BY <1>1, <2>2 DEF ShownUntilTimeout, LooksAsBefore, copyTextToClipboard
  <2> QED BY <2>3, <2>5, <2>6 DEF CopyInv
<1>2. ASSUME NEW n \in 1 .. clicks, Written(n) \/ Refused(n)
      PROVE  CopyInv'
  <2>1. PICK result \in {"postcopy", "failed"} :
          Settled(n, result) /\ icon' \in {icon, "checkmark"}
    BY <1>2 DEF Written, Refused
  <2>2. CopyTypeOK'
    BY <2>1 DEF CopyInv, CopyTypeOK, Settled
  <2>3. OneTimeout'
    BY <2>1 DEF CopyInv, OneTimeout, Settled
  <2>4. ShownUntilTimeout'
    BY <2>1 DEF CopyInv, ShownUntilTimeout, Settled
  <2>5. LooksAsBefore'
    BY <2>1 DEF CopyInv, LooksAsBefore, Settled
  <2> QED BY <2>2, <2>3, <2>4, <2>5 DEF CopyInv
<1>3. ASSUME NEW n \in 1 .. clicks, Timeout(n)
      PROVE  CopyInv'
  <2>1. timeouts' = {} /\ copyTimeout' = 0 /\ clicks' = clicks
    BY <1>3 DEF CopyInv, OneTimeout, Timeout
  <2>2. CopyTypeOK'
    <3>1. writing' = writing /\ answered' = answered /\ late' = FALSE
          /\ icon' = "copy" /\ tooltip' = "precopy"
      BY <1>3 DEF Timeout, IconReset
    <3>2. 0 \in 0 .. clicks
      BY DEF CopyInv, CopyTypeOK
    <3> QED BY <2>1, <3>1, <3>2 DEF CopyInv, CopyTypeOK
  <2>3. OneTimeout' /\ ShownUntilTimeout'
    BY <2>1 DEF OneTimeout, ShownUntilTimeout
  <2>4. LooksAsBefore'
    BY <1>3 DEF LooksAsBefore, Timeout, IconReset
  <2> QED BY <2>2, <2>3, <2>4 DEF CopyInv
<1> QED BY <1>1, <1>2, <1>3 DEF CopyNext

-----------------------------------------------------------------------------
(* The list that is kept at its end.                                       *)

\* The user looks at a place of the list that was shown last.
InList == scrollTop <= Bottom(laidOut)

\* A list that is observed is the one whose height the script knows and that
\* was shown last; no older observer has anything to report.
ObservedIsKnown ==
    observed # 0 =>
        listening /\ ~removed /\ lastScrollHeight = observed /\ laidOut = observed

\* Until the observer's first report a user who has not scrolled is at the
\* beginning of a list that nothing has moved.
Untouched ==
    observed = 0 /\ ~early =>
        /\ scrollTop = 0 /\ ~scrollEvent /\ ~away
        /\ listening => ~isScrolledToContent

\* Afterwards the script knows where the user is unless a scroll event is to
\* come, and then the position says it.
Known ==
    observed # 0 /\ ~early =>
        /\ ~scrollEvent => isScrolledToContent = away
        /\ scrollEvent => away = ~AtEnd(laidOut, scrollTop)

ScrollInv == ScrollTypeOK /\ InList /\ ObservedIsKnown /\ Untouched /\ Known

\* The greatest position is a number that is zero for no list.
LEMMA BottomType ==
    /\ \A h \in Nat : Bottom(h) \in Nat
    /\ Bottom(0) = 0
BY HeightAssumption DEF Bottom

\* What a frame finds out: a user who was not moved by the layout is followed
\* to the end exactly when not away from it.
LEMMA FlagIsAway ==
    ASSUME ScrollInv, ~early, listening, Clamped(scrollHeight) = scrollTop
    PROVE  (IF scrollEvent THEN ~isScrolledToBottom ELSE isScrolledToContent) = away
<1> USE HeightAssumption
<1>1. CASE observed = 0
  BY <1>1 DEF ScrollInv, ScrollTypeOK, Untouched
<1>2. CASE observed # 0 /\ ~scrollEvent
  BY <1>2 DEF ScrollInv, ScrollTypeOK, Known
<1>3. CASE observed # 0 /\ scrollEvent
  <2>1. /\ lastScrollHeight = laidOut /\ lastScrollHeight # 0
        /\ laidOut \in Nat /\ scrollTop \in Nat /\ clientHeight \in Nat
        /\ scrollTop <= Bottom(laidOut)
    BY <1>3 DEF ScrollInv, ScrollTypeOK, ObservedIsKnown, InList
  <2>2. isScrolledToBottom <=> laidOut - clientHeight - scrollTop < 5
    BY <2>1 DEF isScrolledToBottom, KnownHeight
  <2>3. AtEnd(laidOut, scrollTop) <=> laidOut - clientHeight - scrollTop < 5
    BY <2>1 DEF AtEnd, Bottom
  <2>4. away = ~AtEnd(laidOut, scrollTop)
    BY <1>3 DEF ScrollInv, Known
  <2> QED BY <1>3, <2>2, <2>3, <2>4 DEF ScrollInv, ScrollTypeOK
<1> QED BY <1>1, <1>2, <1>3 DEF ScrollInv, ScrollTypeOK

\* Where a frame leaves the user: within the list, at its end if the frame has
\* moved the user at all, and there too if the script follows the end.
LEMMA FramePosition ==
    ASSUME ScrollInv, Frame
    PROVE  /\ scrollTop' \in Nat /\ scrollTop' <= Bottom(scrollHeight)
           /\ scrollEvent' = (scrollTop' # scrollTop)
           /\ scrollTop' \in {Bottom(scrollHeight), Clamped(scrollHeight)}
           /\ scrollTop' # scrollTop => scrollTop' = Bottom(scrollHeight)
           /\ Clamped(scrollHeight) # scrollTop => scrollTop' = Bottom(scrollHeight)
<1>1. scrollHeight \in Nat /\ scrollTop \in Nat /\ Bottom(scrollHeight) \in Nat
  BY HeightAssumption, BottomType DEF ScrollInv, ScrollTypeOK
<1>2. /\ scrollTop' \in {Bottom(scrollHeight), Clamped(scrollHeight)}
      /\ scrollEvent' = (scrollTop' # scrollTop)
  BY DEF Frame
<1>3. Clamped(scrollHeight) \in {Bottom(scrollHeight), scrollTop}
      /\ Clamped(scrollHeight) \in Nat /\ Clamped(scrollHeight) <= Bottom(scrollHeight)
  BY <1>1 DEF Clamped
<1> QED BY <1>1, <1>2, <1>3

\* A frame in which the observer reports a new height shows the end to a user
\* who is not away from it afterwards.
LEMMA FrameFollows ==
    ASSUME ScrollInv, Frame, ~early, listening, observed # scrollHeight, ~away'
    PROVE  scrollTop' = Bottom(scrollHeight)
<1>1. CASE Clamped(scrollHeight) # scrollTop
  BY <1>1, FramePosition
<1>2. CASE Clamped(scrollHeight) = scrollTop
  <2>1. ~away
    BY <1>2 DEF Frame
  <2> DEFINE flag == IF scrollEvent THEN ~isScrolledToBottom ELSE isScrolledToContent
  <2>2. flag = away
    BY <1>2, FlagIsAway
  <2>3. ~flag
    <3> HIDE DEF flag
    <3> QED BY <2>1, <2>2, Zenon
  <2> QED BY <2>3 DEF Frame, FollowsEnd
<1> QED BY <1>1, <1>2

\* A frame preserves ScrollInv.
LEMMA FrameStep ==
    ASSUME ScrollInv, Frame
    PROVE  ScrollInv'
<1> USE HeightAssumption
<1>1. /\ scrollHeight' = scrollHeight /\ scrollHeight \in Nat \ {0}
      /\ laidOut' = scrollHeight /\ listening' = listening /\ early' = early
      /\ removed' = FALSE
      /\ observed' = IF listening THEN scrollHeight ELSE observed
  BY DEF Frame, ScrollInv, ScrollTypeOK
<1>2. ~listening => observed = 0
  BY DEF ScrollInv, ObservedIsKnown
<1>3. ScrollTypeOK'
  <2>1. lastScrollHeight' \in Height \cup {0}
    <3>1. lastScrollHeight' \in {scrollHeight, 0, KnownHeight, lastScrollHeight}
      BY DEF Frame
    <3> QED BY <3>1 DEF KnownHeight, ScrollInv, ScrollTypeOK
  <2>2. isScrolledToContent' \in BOOLEAN
    <3>1. isScrolledToContent' \in {isScrolledToContent, ~isScrolledToBottom}
      BY DEF Frame
    <3>2. (~isScrolledToBottom) \in BOOLEAN
      OBVIOUS
    <3> QED BY <3>1, <3>2, Zenon DEF ScrollInv, ScrollTypeOK
  <2>3. scrollEvent' \in BOOLEAN /\ away' \in BOOLEAN
    BY Zenon DEF Frame
  <2>4. scrollTop' \in Nat
    BY FramePosition
  <2>5. scrolls' = scrolls /\ changes' = changes
    BY DEF Frame
  <2> QED BY <1>1, <2>1, <2>2, <2>3, <2>4, <2>5 DEF ScrollInv, ScrollTypeOK
<1>4. InList'
  BY <1>1, FramePosition DEF InList, Bottom
<1>5. ObservedIsKnown'
  <2>1. CASE ~listening
    BY <1>1, <1>2, <2>1 DEF ObservedIsKnown
  <2>2. CASE listening /\ observed # scrollHeight
    BY <1>1, <2>2 DEF ObservedIsKnown, Frame
  <2>3. CASE listening /\ observed = scrollHeight
    <3>1. ~removed /\ lastScrollHeight = observed /\ observed # 0
      BY <1>1, <2>3 DEF ScrollInv, ObservedIsKnown
    <3> QED BY <1>1, <2>3, <3>1 DEF ObservedIsKnown, Frame, KnownHeight
  <2> QED BY <2>1, <2>2, <2>3
<1>6. Untouched'
  <2>1. SUFFICES ASSUME observed' = 0, ~early
                 PROVE  /\ scrollTop' = 0 /\ ~scrollEvent' /\ ~away'
                        /\ ~listening'
    BY <1>1 DEF Untouched
  <2>2. ~listening /\ observed = 0
    BY <1>1, <1>2, <2>1
  <2>3. scrollTop = 0 /\ ~away
    BY <2>1, <2>2 DEF ScrollInv, Untouched
  <2>4. Clamped(scrollHeight) = 0
    BY <1>1, <2>3, BottomType DEF Clamped
  <2>5. scrollTop' = Clamped(scrollHeight)
    BY <2>2 DEF Frame
  <2>6. ~scrollEvent'
    BY <2>3, <2>4, <2>5, FramePosition
  <2>7. ~away'
    BY <2>3 DEF Frame
  <2> QED BY <1>1, <2>2, <2>4, <2>5, <2>6, <2>7
<1>7. Known'
  <2>1. SUFFICES ASSUME observed' # 0, ~early
                 PROVE  /\ scrollTop' = scrollTop => isScrolledToContent' = away'
                        /\ scrollTop' # scrollTop => away' = FALSE
                        /\ scrollTop' # scrollTop => AtEnd(scrollHeight, scrollTop')
    BY <1>1, FramePosition DEF Known, AtEnd, Bottom
  <2>2. listening
    BY <1>1, <1>2, <2>1
  <2>3. isScrolledToContent'
          = IF scrollEvent THEN ~isScrolledToBottom ELSE isScrolledToContent
    BY <2>2 DEF Frame
  <2>4. away' = (away /\ Clamped(scrollHeight) = scrollTop)
    BY DEF Frame
  <2>5. ASSUME Clamped(scrollHeight) = scrollTop
        PROVE  isScrolledToContent' = away'
    BY <2>1, <2>2, <2>3, <2>4, <2>5, FlagIsAway DEF ScrollInv, ScrollTypeOK
  <2>6. ASSUME scrollTop' = scrollTop
        PROVE  isScrolledToContent' = away'
    <3>1. Clamped(scrollHeight) = scrollTop
      BY <1>1, <2>6, FramePosition DEF Clamped, ScrollInv, ScrollTypeOK
    <3> QED BY <2>5, <3>1
  <2>7. ASSUME scrollTop' # scrollTop
        PROVE  away' = FALSE
    <3>1. CASE Clamped(scrollHeight) # scrollTop
      BY <2>4, <3>1
    <3>2. CASE Clamped(scrollHeight) = scrollTop
      <4>1. ~isScrolledToContent'
        BY <2>3, <2>7, <3>2 DEF Frame, FollowsEnd
      <4> QED BY <1>3, <2>5, <3>2, <4>1 DEF ScrollTypeOK
    <3> QED BY <3>1, <3>2
  <2>8. ASSUME scrollTop' # scrollTop
        PROVE  AtEnd(scrollHeight, scrollTop')
    BY <1>1, <2>8, FramePosition, BottomType DEF AtEnd
  <2> QED BY <2>6, <2>7, <2>8
<1> QED BY <1>3, <1>4, <1>5, <1>6, <1>7 DEF ScrollInv

\* Every step of the list preserves ScrollInv.
LEMMA ScrollStep ==
    ASSUME ScrollInv, ScrollNext
    PROVE  ScrollInv'
<1> USE HeightAssumption, ScrollBoundAssumption
<1>1. ASSUME NEW h \in Height, ChangeContent(h)
      PROVE  ScrollInv'
  BY <1>1 DEF ScrollInv, ScrollTypeOK, InList, ObservedIsKnown, Untouched, Known, AtEnd,
              Bottom, ChangeContent, CountChange
<1>2. CASE initializeContinuousScroll
  <2>1. observed = 0 /\ observed' = 0
    BY <1>2 DEF ScrollInv, ObservedIsKnown, initializeContinuousScroll
  <2>2. ScrollTypeOK'
    BY <1>2 DEF ScrollInv, ScrollTypeOK, initializeContinuousScroll, InitialPosition
  <2>3. InList'
    BY <1>2 DEF ScrollInv, InList, initializeContinuousScroll, Bottom
  <2>4. ObservedIsKnown' /\ Known'
    BY <2>1 DEF ObservedIsKnown, Known
  <2>5. Untouched'
    BY <1>2 DEF ScrollInv, Untouched, initializeContinuousScroll, InitialPosition
  <2> QED BY <2>2, <2>3, <2>4, <2>5 DEF ScrollInv
<1>3. CASE resetContinuousScrollPosition
  <2> USE <1>3 DEF resetContinuousScrollPosition, CountChange, pageVars
  <2>1. ScrollTypeOK'
    <3>1. away' \in BOOLEAN
      OBVIOUS
    <3>2. changes' \in 0 .. MaxChanges
      BY DEF ScrollInv, ScrollTypeOK
    <3> QED BY <3>1, <3>2 DEF ScrollInv, ScrollTypeOK
  <2>2. InList' /\ ObservedIsKnown'
    BY DEF ScrollInv, InList, ObservedIsKnown, Bottom
  <2>3. Untouched'
    BY DEF ScrollInv, Untouched
  <2>4. Known'
    BY DEF ScrollInv, ScrollTypeOK, Known, AtEnd, Bottom
  <2> QED BY <2>1, <2>2, <2>3, <2>4 DEF ScrollInv
<1>4. ASSUME NEW position \in UNION {0 .. Bottom(h) : h \in Height}, UserScroll(position)
      PROVE  ScrollInv'
  <2>1. laidOut \in Nat /\ Bottom(laidOut) \in Nat /\ position \in Nat
    BY <1>4, BottomType DEF ScrollInv, ScrollTypeOK, UserScroll
  <2>2. away' \in BOOLEAN /\ early' \in BOOLEAN
    BY <1>4 DEF UserScroll
  <2>3. ScrollTypeOK'
    BY <1>4, <2>1, <2>2 DEF ScrollInv, ScrollTypeOK, UserScroll
  <2>4. InList'
    BY <1>4, <2>1 DEF InList, UserScroll, Bottom
  <2>5. ObservedIsKnown'
    BY <1>4 DEF ScrollInv, ObservedIsKnown, UserScroll
  <2>6. Untouched'
    BY <1>4 DEF Untouched, UserScroll
  <2>7. Known'
    BY <1>4 DEF Known, UserScroll, AtEnd, Bottom
  <2> QED BY <2>3, <2>4, <2>5, <2>6, <2>7 DEF ScrollInv
<1>5. CASE Frame
  BY <1>5, FrameStep
<1> QED BY <1>1, <1>2, <1>3, <1>4, <1>5 DEF ScrollNext

-----------------------------------------------------------------------------
(* The page.                                                               *)

PageInv == ScrollInv /\ CopyInv

\* The inductive invariant holds when the page is opened.
LEMMA PageInit == Init => PageInv
<1> SUFFICES ASSUME Init PROVE PageInv
  OBVIOUS
<1> USE HeightAssumption, ScrollBoundAssumption, ClickBoundAssumption
<1>1. CopyInv
  <2>1. 0 \in 0 .. MaxClicks /\ 0 \in 0 .. 0
    OBVIOUS
  <2>2. CopyTypeOK
    BY <2>1 DEF Init, CopyInit, CopyTypeOK
  <2>3. OneTimeout /\ ShownUntilTimeout /\ LooksAsBefore
    BY DEF Init, CopyInit, OneTimeout, ShownUntilTimeout, LooksAsBefore
  <2> QED BY <2>2, <2>3 DEF CopyInv
<1>2. ScrollInv
  <2>1. ScrollTypeOK
    <3>1. scrollHeight \in Height
      BY DEF Init, ScrollInit
    <3>2. scrolls \in 0 .. MaxScrolls /\ changes \in 0 .. MaxChanges /\ scrollTop \in Nat
      BY DEF Init, ScrollInit
    <3> QED BY <3>1, <3>2, Zenon DEF Init, ScrollInit, ScrollTypeOK
  <2>2. InList
    BY DEF Init, ScrollInit, InList, Bottom
  <2>3. ObservedIsKnown /\ Untouched /\ Known
    BY DEF Init, ScrollInit, ObservedIsKnown, Untouched, Known
  <2> QED BY <2>1, <2>2, <2>3 DEF ScrollInv
<1> QED BY <1>1, <1>2 DEF PageInv

\* Another page begins with what was true of the first one, the variables of
\* the script excepted.
LEMMA NavigateStep ==
    ASSUME PageInv, Navigate
    PROVE  PageInv'
<1> USE HeightAssumption, ScrollBoundAssumption, ClickBoundAssumption
<1>1. PICK h \in Height : NewContainer(h)
  BY DEF Navigate
<1>2. NewButton
  BY DEF Navigate
<1>3. CopyInv'
  <2>1. 0 \in 0 .. MaxClicks /\ 0 \in 0 .. 0
    OBVIOUS
  <2>2. CopyTypeOK'
    BY <1>2, <2>1 DEF NewButton, CopyTypeOK
  <2>3. OneTimeout' /\ ShownUntilTimeout' /\ LooksAsBefore'
    BY <1>2 DEF NewButton, OneTimeout, ShownUntilTimeout, LooksAsBefore
  <2> QED BY <2>2, <2>3 DEF CopyInv
<1>4. ScrollTypeOK'
  <2>1. removed' \in BOOLEAN
    BY <1>1, Zenon DEF NewContainer
  <2>2. changes' \in 0 .. MaxChanges
    BY <1>1 DEF PageInv, ScrollInv, ScrollTypeOK, NewContainer, CountChange
  <2> QED BY <1>1, <2>1, <2>2 DEF PageInv, ScrollInv, ScrollTypeOK, NewContainer
<1>5. InList' /\ ObservedIsKnown' /\ Untouched' /\ Known'
  BY <1>1 DEF NewContainer, InList, ObservedIsKnown, Untouched, Known, Bottom
<1> QED BY <1>3, <1>4, <1>5 DEF PageInv, ScrollInv

\* Steps of the button leave the list alone.
LEMMA ScrollUnchanged ==
    ASSUME ScrollInv, UNCHANGED scrollVars
    PROVE  ScrollInv'
BY DEF scrollVars, pageVars, ScrollInv, ScrollTypeOK, InList, ObservedIsKnown, Untouched,
       Known, AtEnd, Bottom

\* Steps of the list leave the button alone.
LEMMA CopyUnchanged ==
    ASSUME CopyInv, UNCHANGED copyVars
    PROVE  CopyInv'
BY DEF copyVars, CopyInv, CopyTypeOK, OneTimeout, ShownUntilTimeout, LooksAsBefore

\* The inductive invariant of the page.
LEMMA PageStep == PageInv /\ [Next]_vars => PageInv'
<1> SUFFICES ASSUME PageInv, [Next]_vars PROVE PageInv'
  OBVIOUS
<1>1. CASE ScrollNext /\ UNCHANGED copyVars
  BY <1>1, ScrollStep, CopyUnchanged DEF PageInv
<1>2. CASE CopyNext /\ UNCHANGED scrollVars
  BY <1>2, CopyStep, ScrollUnchanged DEF PageInv
<1>3. CASE Navigate
  BY <1>3, NavigateStep
<1>4. CASE UNCHANGED vars
  BY <1>4, ScrollUnchanged, CopyUnchanged DEF PageInv, vars
<1> QED BY <1>1, <1>2, <1>3, <1>4 DEF Next

\* PageInv is an invariant of the page.
LEMMA PageInvariant == Spec => []PageInv
BY PageInit, PageStep, PTL DEF Spec

\* The variables of the page's scripts keep their types (app.js), with heights
\* and positions of any size.
THEOREM PageTypeCorrect == Spec => []TypeOK
<1>1. PageInv => TypeOK
  BY DEF PageInv, ScrollInv, CopyInv, TypeOK
<1> QED BY <1>1, PageInvariant, PTL

\* Whatever the heights of lists and window and however often the user scrolls,
\* the script knows between frames whether the user looks at content (the
\* scroll listener and the observer of initializeContinuousScroll).
THEOREM ScriptKnowsWhereUserIs == Spec => []KnowsWhereUserIs
<1>1. PageInv => KnowsWhereUserIs
  <2> SUFFICES ASSUME PageInv, listening, ~scrollEvent, observed = scrollHeight, ~early
               PROVE  isScrolledToContent = away
    BY DEF KnowsWhereUserIs
  <2>1. observed # 0
    BY HeightAssumption DEF PageInv, ScrollInv, ScrollTypeOK
  <2> QED BY <2>1 DEF PageInv, ScrollInv, Known
<1> QED BY <1>1, PageInvariant, PTL

\* Every frame that shows a new height shows the end of the list, unless the
\* user has scrolled to view content.
THEOREM NewItemsAreShown == Spec => NewItemsShown
<1>1. ASSUME PageInv, [Next]_vars
      PROVE  [observed' \notin {0, observed} /\ ~away' /\ ~early
                => scrollTop' = Bottom(scrollHeight)]_scrollVars
  <2> SUFFICES ASSUME observed' # 0, observed' # observed, ~away', ~early
               PROVE  scrollTop' = Bottom(scrollHeight)
    OBVIOUS
  <2>1. CASE Frame
    <3>1. listening /\ observed # scrollHeight
      BY <2>1 DEF Frame
    <3> QED BY <1>1, <2>1, <3>1, FrameFollows DEF PageInv
  <2>2. CASE ScrollNext /\ ~Frame
    BY <2>2 DEF ScrollNext, ChangeContent, initializeContinuousScroll, UserScroll,
                resetContinuousScrollPosition, pageVars
  <2>3. CASE Navigate
    BY <2>3 DEF Navigate, NewContainer
  <2>4. CASE UNCHANGED scrollVars
    BY <2>4 DEF scrollVars, pageVars
  <2> QED BY <1>1, <2>1, <2>2, <2>3, <2>4 DEF Next, vars
<1> QED BY <1>1, PageInvariant, PTL DEF Spec, NewItemsShown

\* However fast and often the button is clicked, a result stays visible until
\* the timeout of the last click (copyTextToClipboard).
THEOREM ResultIsShown == Spec => []ShownUntilTimeout
<1>1. PageInv => ShownUntilTimeout
  BY DEF PageInv, CopyInv
<1> QED BY <1>1, PageInvariant, PTL

\* After any number of clicks the button looks as before once all is done.
THEOREM ButtonIsReset == Spec => []BackToCopy
<1>1. PageInv => BackToCopy
  BY DEF PageInv, CopyInv, LooksAsBefore, BackToCopy
<1> QED BY <1>1, PageInvariant, PTL
=============================================================================
