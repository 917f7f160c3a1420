----------------------------- MODULE CopyButton -----------------------------
(***************************************************************************)
(* A copy button of the dashboard (app.js).  A click writes to the         *)
(* clipboard, which answers some time later, and sets a timeout of 1.5     *)
(* seconds after which the button looks as before.  Timeouts expire in the *)
(* order they were set.                                                    *)
(***************************************************************************)
EXTENDS Integers

CONSTANT MaxClicks \* bound: clicks on a button

ASSUME ClickBoundAssumption == MaxClicks \in Nat

VARIABLES
    clicks,      \* how many there were; the last one's number
    writing,     \* the clicks whose writeText is not settled
    timeouts,    \* the clicks whose timeout is set
    copyTimeout, \* button.dataset.copyTimeout, 0 when it is deleted
    icon,        \* copy or checkmark
    tooltip,     \* precopy, postcopy or failed
    answered,    \* history: the result of the last click, "none" before it has one
    late         \* history: a write was settled when no timeout was set

copyVars == <<clicks, writing, timeouts, copyTimeout, icon, tooltip, answered, late>>

CopyTypeOK ==
    /\ clicks \in 0 .. MaxClicks
    /\ writing \subseteq 1 .. clicks /\ timeouts \subseteq 1 .. clicks
    /\ copyTimeout \in 0 .. clicks
    /\ icon \in {"copy", "checkmark"}
    /\ tooltip \in {"precopy", "postcopy", "failed"}
    /\ answered \in {"none", "postcopy", "failed"} /\ late \in BOOLEAN

CopyInit ==
    /\ clicks = 0 /\ writing = {} /\ timeouts = {} /\ copyTimeout = 0
    /\ icon = "copy" /\ tooltip = "precopy"
    /\ answered = "none" /\ late = FALSE

\* Another page has other buttons.
NewButton ==
    /\ clicks' = 0 /\ writing' = {} /\ timeouts' = {} /\ copyTimeout' = 0
    /\ icon' = "copy" /\ tooltip' = "precopy"
    /\ answered' = "none" /\ late' = FALSE

\* Faulty: a pending timeout is not cleared.  (Definitions marked "Faulty" are
\* plausible mistakes in the definition that follows them.)
AllTimeouts == timeouts

\* clearTimeout of the pending one, if there is one.
ClearedTimeouts == timeouts \ {copyTimeout}

copyTextToClipboard ==
    /\ clicks < MaxClicks
    /\ clicks' = clicks + 1
    /\ writing' = writing \cup {clicks'}
    /\ timeouts' = ClearedTimeouts \cup {clicks'}
    /\ copyTimeout' = clicks'
    /\ answered' = "none"
    /\ UNCHANGED <<icon, tooltip, late>>

Settled(n, result) ==
    /\ n \in writing /\ writing' = writing \ {n}
    /\ tooltip' = result
    /\ answered' = IF n = clicks THEN result ELSE answered
    /\ late' = (late \/ timeouts = {})
    /\ UNCHANGED <<clicks, timeouts, copyTimeout>>

\* then, and catch, which leaves the icon alone
Written(n) == Settled(n, "postcopy") /\ icon' = "checkmark"
Refused(n) == Settled(n, "failed") /\ UNCHANGED icon

\* Faulty: the button gets an icon it does not have.
IconUndefined == "undefined"

\* Faulty: the icon is not reset.
IconKept == icon

IconReset == "copy"

Timeout(n) ==
    /\ n \in timeouts /\ \A m \in timeouts : n <= m
    /\ timeouts' = timeouts \ {n}
    /\ copyTimeout' = 0
    /\ icon' = IconReset /\ tooltip' = "precopy"
    /\ late' = FALSE
    /\ UNCHANGED <<clicks, writing, answered>>

CopyNext ==
    \/ copyTextToClipboard
    \/ \E n \in 1 .. clicks : Written(n) \/ Refused(n) \/ Timeout(n)

-----------------------------------------------------------------------------
(* Properties.                                                             *)

\* "Otherwise the pending timeout will prematurely reset values" (app.js):
\* however fast the clicks are, a result that is shown stays until the timeout
\* of the last click.
ShownUntilTimeout ==
    clicks \in timeouts /\ answered # "none" => tooltip # "precopy"

\* When all is done the button looks as it did, unless the clipboard took
\* longer than the timeout.
BackToCopy ==
    writing = {} /\ timeouts = {} /\ ~late => icon = "copy" /\ tooltip = "precopy"
=============================================================================
