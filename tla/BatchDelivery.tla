---------------------------- MODULE BatchDelivery ----------------------------
(***************************************************************************)
(* What the event stream proxy promises, without the proxy.                *)
(*                                                                         *)
(* Each namespace has a stream of numbered batches.  A batch is delivered  *)
(* to some client, a client that received it confirms it, and only then    *)
(* does the stream move its checkpoint past it.  A batch may be delivered  *)
(* and confirmed many times, but never before all the earlier ones are     *)
(* behind the checkpoint.                                                  *)
(***************************************************************************)
EXTENDS Naturals

CONSTANTS Namespaces,  \* the FireFly namespaces, one event stream each
          MaxBatch     \* number of batches each stream holds

VARIABLES checkpoint,  \* checkpoint[ns]: batches the stream will not resend
          delivered,   \* delivered[ns]: batches some client has received
          confirmed    \* confirmed[ns]: batches some client has acknowledged

vars == <<checkpoint, delivered, confirmed>>

Batches == 1..MaxBatch

Init == /\ checkpoint = [ns \in Namespaces |-> 0]
        /\ delivered = [ns \in Namespaces |-> {}]
        /\ confirmed = [ns \in Namespaces |-> {}]

\* A client receives batch b: the next one, or again one already behind the
\* checkpoint.
Deliver(ns, b) ==
  /\ b <= checkpoint[ns] + 1
  /\ delivered' = [delivered EXCEPT ![ns] = @ \cup {b}]
  /\ UNCHANGED <<checkpoint, confirmed>>

\* A client acknowledges a batch that was delivered.
Confirm(ns, b) ==
  /\ b \in delivered[ns]
  /\ confirmed' = [confirmed EXCEPT ![ns] = @ \cup {b}]
  /\ UNCHANGED <<checkpoint, delivered>>

\* The stream moves past the next batch, which a client has confirmed.
Advance(ns) ==
  /\ checkpoint[ns] + 1 \in confirmed[ns]
  /\ checkpoint' = [checkpoint EXCEPT ![ns] = @ + 1]
  /\ UNCHANGED <<delivered, confirmed>>

Next == \E ns \in Namespaces :
          \/ \E b \in Batches : Deliver(ns, b) \/ Confirm(ns, b)
          \/ Advance(ns)

Spec == Init /\ [][Next]_vars

=============================================================================
