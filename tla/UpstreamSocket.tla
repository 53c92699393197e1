---------------------------- MODULE UpstreamSocket ----------------------------
(***************************************************************************)
(* The life of one upstream socket as its owner sees it: the behaviour     *)
(* that EventStreamProxy builds on and EventStreamSocket implements with   *)
(* a websocket, timers and flags.                                          *)
(*                                                                         *)
(* Closing stops a socket while it is connecting or open.  In the backoff  *)
(* between two connections it stops nothing: the released socket returns,  *)
(* and keeps returning, since its owner closes it only once.               *)
(***************************************************************************)
VARIABLES
  state,    \* "none", "connecting", "open", "backoff" or "closed"
  released  \* the owner has closed the socket and forgotten it

vars == <<state, released>>

Init == state = "none" /\ released = FALSE

Create == state = "none" /\ state' = "connecting" /\ UNCHANGED released

Open == state = "connecting" /\ state' = "open" /\ UNCHANGED released

Drop ==
  /\ state \in {"connecting", "open"}
  /\ state' = "backoff"
  /\ UNCHANGED released

Reconnect == state = "backoff" /\ state' = "connecting" /\ UNCHANGED released

Close ==
  /\ state # "none" /\ ~released
  /\ released' = TRUE
  /\ state' = IF state = "backoff" THEN "backoff" ELSE "closed"

Next == Create \/ Open \/ Drop \/ Reconnect \/ Close

Spec == Init /\ [][Next]_vars

=============================================================================
