---------------------------- MODULE InputElements ----------------------------
(***************************************************************************)
(* Which elements of the document text is typed into, as app.js finds it   *)
(* out from the element that has the focus.  An element is a record with   *)
(* its tag, its children and the children of its shadow root.              *)
(***************************************************************************)
EXTENDS Integers, Sequences, FiniteSets

Element(tag, children, shadow) == [tag |-> tag, children |-> children, shadow |-> shadow]

InputTag == {"input", "textarea", "select", "fluent-select"}

\* tagName.toLowerCase().startsWith("fluent"), for the tags of the dashboard.
IsFluent(tag) == tag \in {"fluent-select", "fluent-text-field", "fluent-search",
                          "fluent-button", "fluent-dialog"}

\* The loop over children and the loop over the children of the shadow root.
\* Definitions marked "Faulty" are plausible mistakes in the one behind them.
RECURSIVE isInputElement(_, _, _)
isInputElement(element, isRoot, isShadowRoot) ==
    \/ element.tag \in InputTag
    \/ /\ isShadowRoot \/ isRoot
       /\ \E i \in DOMAIN element.children :
            isInputElement(element.children[i], FALSE, isShadowRoot)
    \/ \E i \in DOMAIN element.shadow : isInputElement(element.shadow[i], FALSE, TRUE)

\* Faulty: only the element itself is looked at.
IsInputItself(active) == active.tag \in InputTag

isActiveElementInput(active) ==
    (active.tag = "input" \/ IsFluent(active.tag)) /\ isInputElement(active, FALSE, FALSE)

-----------------------------------------------------------------------------
(* The reference: an element takes text when it is an input, or a fluent   *)
(* component that has one in the tree below its shadow root.  A textarea   *)
(* or a select that is not part of a component is not in it: the pages of  *)
(* the dashboard have none, and isActiveElementInput would not know it.    *)

SeqRange(s) == {s[i] : i \in DOMAIN s}

RECURSIVE Below(_)
Below(elements) ==
    IF elements = {} THEN {}
    ELSE elements \cup Below(UNION {SeqRange(e.children) \cup SeqRange(e.shadow) : e \in elements})

TakesText(active) ==
    \/ active.tag \in {"input", "fluent-select"}
    \/ IsFluent(active.tag) /\ \E e \in Below(SeqRange(active.shadow)) : e.tag \in InputTag
=============================================================================
