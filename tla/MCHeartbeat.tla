----------------------------- MODULE MCHeartbeat -----------------------------
(* A prompt client, one that just makes it, and one that is too slow.      *)
(* Ticks of one second: PING_INTERVAL is 5 s.                              *)
EXTENDS ClientHeartbeat, TLC

CONSTANTS prompt, late, slow

LatencyOfEach == prompt :> 0 @@ late :> PING_INTERVAL - 1 @@ slow :> PING_INTERVAL + 1
=============================================================================
