--------------------------- MODULE MCTaskManager ---------------------------
(* Instances of TaskManager for TLC.                                       *)
EXTENDS TaskManager

\* Services a user steers: the shell itself, the watchdog, one that nothing else
\* in the model depends on and one that is not started at boot.
SomeServices == {"cli", "storagemanager", "heartbeat", "watchdog"}
Reboots == {"taskmanager"}

\* Typed, and pasted.
BothPaces == {0, 3}
SlowPace  == {2}
=============================================================================
