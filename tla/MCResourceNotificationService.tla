--------------------- MODULE MCResourceNotificationService ---------------------
(* Instances of ResourceNotificationService for TLC.                       *)
EXTENDS ResourceNotificationService, TLC

CONSTANTS w1, w2, r1, r2

\* One waits for r1, the other enumerates WatchAsync.
WaiterAndWatcher == w1 :> r1 @@ w2 :> NoResource
OneWaiter == w1 :> r1
=============================================================================
