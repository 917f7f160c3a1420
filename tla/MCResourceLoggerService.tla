----------------------- MODULE MCResourceLoggerService -----------------------
(* Instances of ResourceLoggerService for TLC.                             *)
EXTENDS ResourceLoggerService

CONSTANTS a, b, s1, s2

Bounds(writers, watchers, lines, monitored) ==
    [writers |-> writers, watchers |-> watchers, lines |-> lines,
     monitored |-> monitored]

\* Two writers and a watcher; a writer and two watchers; two watchers and the
\* monitor.
MCBound == {Bounds({a, b}, {s1}, 2, FALSE), Bounds({a}, {s1, s2}, 1, FALSE),
            Bounds({}, {s1, s2}, 0, TRUE)}
=============================================================================
