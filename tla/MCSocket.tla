------------------------------- MODULE MCSocket -------------------------------
(* EventStreamSocket with a tick of 5 seconds, so that its times are the   *)
(* real ones: reconnect after 5 s, ping every 10 s, give up after 60 s.    *)
EXTENDS EventStreamSocket
=============================================================================
