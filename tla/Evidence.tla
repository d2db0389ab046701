------------------------------ MODULE Evidence ------------------------------
(***************************************************************************)
(* What the signal engine promises its callers, without saying how: a      *)
(* communication that was accepted is queued, is held by at most one       *)
(* drain, may be put back, and becomes evidence once.  The detailed        *)
(* specification is SignalPipeline, which implements this one.             *)
(***************************************************************************)
EXTENDS Naturals

CONSTANT Rows        \* the ids a stored communication can have

VARIABLES
  status,            \* what has become of each row
  produced           \* how many times evidence was written for it

vars == <<status, produced>>

Status == {"absent", "queued", "held", "evidence"}

Init ==
  /\ status = [i \in Rows |-> "absent"]
  /\ produced = [i \in Rows |-> 0]

Submit(i) ==
  /\ status[i] = "absent"
  /\ status' = [status EXCEPT ![i] = "queued"]
  /\ UNCHANGED produced

\* A drain takes a whole batch in one step.
Take(S) ==
  /\ S # {}
  /\ \A i \in S : status[i] = "queued"
  /\ status' = [i \in Rows |-> IF i \in S THEN "held" ELSE status[i]]
  /\ UNCHANGED produced

PutBack(i) ==
  /\ status[i] = "held"
  /\ status' = [status EXCEPT ![i] = "queued"]
  /\ UNCHANGED produced

Produce(i) ==
  /\ status[i] = "held"
  /\ status' = [status EXCEPT ![i] = "evidence"]
  /\ produced' = [produced EXCEPT ![i] = @ + 1]

Next ==
  \/ \E i \in Rows : Submit(i) \/ PutBack(i) \/ Produce(i)
  \/ \E S \in SUBSET Rows : Take(S)

Spec == Init /\ [][Next]_vars
=============================================================================
