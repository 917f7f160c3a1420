------------------------------ MODULE Shortcuts ------------------------------
(***************************************************************************)
(* What a key press means to the dashboard (app.js): nothing while the     *)
(* focus is in an input, otherwise the shortcut that calculateShortcut     *)
(* finds.                                                                  *)
(***************************************************************************)
EXTENDS Integers

CONSTANTS
    NoShortcut,
    ActiveElementInput(_) \* isActiveElementInput, as InputElements has it

modifierKeysExceptShiftNotPressed(e) == e.modifiers \subseteq {"shift"}

hasNoModifiers(e) == e.modifiers = {}

General == [key \in {"?", "S", "T", "X", "R", "+", "_", "-"} |->
              CASE key = "?" -> 100 [] key = "S" -> 110
                [] key = "T" -> 300 [] key = "X" -> 310 [] key = "R" -> 320
                [] key = "+" -> 330 [] key \in {"_", "-"} -> 340]

Navigation == [key \in {"r", "c", "s", "t", "m"} |->
                 CASE key = "r" -> 200 [] key = "c" -> 210 [] key = "s" -> 220
                   [] key = "t" -> 230 [] key = "m" -> 240]

calculateShortcut(e) ==
    IF modifierKeysExceptShiftNotPressed(e) /\ e.key \in DOMAIN General
    THEN General[e.key]
    ELSE IF hasNoModifiers(e) /\ e.key \in DOMAIN Navigation THEN Navigation[e.key]
    ELSE NoShortcut

\* The shortcut the keydown listener passes to OnGlobalKeyDown.
keydownListener(active, e) ==
    IF ActiveElementInput(active) THEN NoShortcut ELSE calculateShortcut(e)

\* AspireKeyboardShortcut, as far as MainLayout subscribes to it.
Help == 100
Settings == 110
GoToMetrics == 240
SubscribedShortcuts == {Help, Settings, 200, 210, 220, 230, GoToMetrics}
=============================================================================
