----------------------------- MODULE MCAssessment -----------------------------
(* Requests and bounds for model-checking Assessment. *)
EXTENDS Assessment, TLC

CONSTANTS c1, c2, c3

Replicas == Permutations(Workers)

It(c, k) == [cell |-> c, key |-> k]
Job(kind, items) == [kind |-> kind, items |-> items]

\* Every kind of request on one cell, batches without keys that take two cells
\* in opposite orders, and requests about a cell with a record of the old format.
MCJobs ==
  {Job("single", <<It(c1, "k")>>), Job("schedule", <<It(c1, "none")>>),
   Job("ingest", <<It(c1, "none")>>), Job("batch", <<It(c1, "none")>>),
   Job("batch", <<It(c1, "none"), It(c2, "none")>>),
   Job("batch", <<It(c2, "none"), It(c1, "none")>>),
   Job("batch", <<It(c3, "none")>>), Job("ingest", <<It(c3, "none")>>)}

\* Re-assessments without a key.
JobsNoKey == {Job("single", <<It(c1, "none")>>), Job("batch", <<It(c1, "none")>>)}
=============================================================================
