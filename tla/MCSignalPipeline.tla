-------------------------- MODULE MCSignalPipeline --------------------------
(***************************************************************************)
(* Small instances of SignalPipeline: three communications of two accounts *)
(* of different tenants, the worker, and a request that drains one tenant. *)
(***************************************************************************)
EXTENDS SignalPipeline, TLC

CONSTANTS a1, a2, c1, c2, worker, request

MCCustomerOf == (a1 :> c1) @@ (a2 :> c2)

\* Row 2 belongs to the second tenant, so its rows interleave with the first's.
MCAccountOf == [i \in Rows |-> IF i = 2 THEN a2 ELSE a1]

\* The worker takes every tenant's rows, the request those of c1 only.
MCScope == [d \in Drain |-> IF d \in Worker THEN Account ELSE {a1}]
MCLimitTwo == [d \in Drain |-> 2]
MCLimitOne == [d \in Drain |-> 1]
=============================================================================
