---------------------------- MODULE PageScripts ----------------------------
(***************************************************************************)
(* A page of the dashboard with a list that is kept at its end and a copy  *)
(* button, and the way to another page, which replaces the elements of the *)
(* document but not the variables of the scripts.                          *)
(***************************************************************************)
EXTENDS ContinuousScroll, CopyButton

vars == <<scrollVars, copyVars>>

TypeOK == ScrollTypeOK /\ CopyTypeOK

Init == ScrollInit /\ CopyInit

\* An enhanced navigation: the document is not loaded again.
Navigate == \E h \in Height : NewContainer(h) /\ NewButton

Next ==
    \/ ScrollNext /\ UNCHANGED copyVars
    \/ CopyNext /\ UNCHANGED scrollVars
    \/ Navigate

Spec == Init /\ [][Next]_vars
=============================================================================
