---------------------------- MODULE MCMainLayout ----------------------------
(* Elements of the dashboard and keys for the model checker.               *)
EXTENDS MainLayout, InputElements

Leaf(tag) == Element(tag, <<>>, <<>>)

\* A text field has its input in a div of its shadow root; a dialog is given
\* the focus with a button; a search field nests one component in another.
Elements == {
    Leaf("body"), Leaf("input"), Leaf("fluent-select"),
    Element("fluent-text-field", <<>>, <<Element("div", <<Leaf("input")>>, <<>>)>>),
    Element("fluent-search", <<>>,
            <<Element("div", <<Element("fluent-text-field", <<>>, <<Leaf("input")>>)>>, <<>>)>>),
    Element("fluent-button", <<>>, <<Leaf("button")>>),
    Element("fluent-dialog", <<Leaf("input")>>, <<Element("div", <<Leaf("slot")>>, <<>>)>>)}

Key(k, modifiers) == [key |-> k, modifiers |-> modifiers]

Keys == {Key("S", {"shift"}), Key("?", {"shift"}), Key("m", {}), Key("r", {}), Key("T", {"shift"}),
         Key("S", {"ctrl", "shift"}), Key("r", {"ctrl"}), Key("r", {"shift"})}

ThreeTraces == <<"P50", "P90", "P99">>
=============================================================================
