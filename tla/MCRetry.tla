------------------------------- MODULE MCRetry -------------------------------
(* Settings for BlockchainRetry; delays in units of 100 ms.                *)
EXTENDS BlockchainRetry

CONSTANTS r1, r2

\* The defaults' shape with few retries: with and without a condition, an
\* initial delay below and above the limit, factors that grow or do not.
Bounded ==
  [retriesMax : 0..3, fromEnvironment : {TRUE}, factor : 1..3, initial : {1, 5},
   limit : {4}, condition : {TRUE}]
  \cup [retriesMax : {2}, fromEnvironment : {FALSE}, factor : {2}, initial : {1},
        limit : {100}, condition : BOOLEAN]

\* RETRY_MAX_ATTEMPTS=-1 in the environment.
Unbounded ==
  [retriesMax : {-1}, fromEnvironment : {TRUE}, factor : {2}, initial : {1},
   limit : {100}, condition : {TRUE}]

=============================================================================
