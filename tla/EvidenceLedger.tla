---------------------------- MODULE EvidenceLedger ----------------------------
(***************************************************************************)
(* What the write path promises about evidence, as app/services/           *)
(* assessment.py states it above evidence_store.store: an artifact is in   *)
(* the store before any row promises it, rows and artifacts are only ever  *)
(* added, and an artifact that no row mentions does no harm.               *)
(***************************************************************************)
VARIABLES stored,   \* artifacts in the evidence store
          evidence  \* EvidenceMeta rows

Init == evidence = stored

\* An artifact is added; nothing is promised yet.
Put ==
  /\ stored \subseteq stored' /\ stored' # stored
  /\ UNCHANGED evidence

\* Rows are added for artifacts that are already there.
Promise ==
  /\ evidence \subseteq evidence' /\ evidence' \subseteq stored
  /\ UNCHANGED stored

Spec == Init /\ [][Put \/ Promise]_<<stored, evidence>>
=============================================================================
