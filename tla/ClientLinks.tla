----------------------------- MODULE ClientLinks -----------------------------
(***************************************************************************)
(* What the gateway may rely on about its clients' connections: a client   *)
(* comes, may fall silent without closing its connection, and is gone in   *)
(* the end if it did.  ClientHeartbeat implements this with pings, and     *)
(* EventStreamProxy takes a silent client's departure for granted.         *)
(***************************************************************************)
CONSTANT Clients

VARIABLE link \* the life of each connection

Init == link = [c \in Clients |-> "absent"]

Life == {<<"absent", "connected">>, <<"connected", "silent">>,
         <<"connected", "gone">>, <<"silent", "gone">>}

\* Any number of connections may take a step: the process may end.
Next == /\ DOMAIN link' = Clients
        /\ \A c \in Clients : link'[c] # link[c] => <<link[c], link'[c]>> \in Life

Spec == Init /\ [][Next]_link

\* A silent client does not stay.
SilentGo == \A c \in Clients : (link[c] = "silent") ~> (link[c] = "gone")

Promise == Spec /\ SilentGo
=============================================================================
