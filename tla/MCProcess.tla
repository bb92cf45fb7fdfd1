----------------------------- MODULE MCProcess -----------------------------
(* Slot 1 is init, slot 2 the test thread, which only sleeps and yields.   *)
EXTENDS Process
=============================================================================
