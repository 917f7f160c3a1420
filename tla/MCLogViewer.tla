----------------------------- MODULE MCLogViewer -----------------------------
(* Instances of LogViewer for TLC.                                         *)
EXTENDS LogViewer

\* The second log has lost its first lines.
TwoLogs == <<1, 5>>
OneLog == <<1>>
ThreeLogs == <<1, 5, 1>>
=============================================================================
