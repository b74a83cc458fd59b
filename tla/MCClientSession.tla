-------------------------- MODULE MCClientSession ---------------------------
(* One application thread, one IoService thread and the poller's. *)
EXTENDS ClientSession

CONSTANTS a1, w1

OneApp == {a1}
OneWorker == {w1}
WriteTimeout == {"write"}
OtherTimeouts == {{"connection", "read"}}
=============================================================================
