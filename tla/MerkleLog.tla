------------------------------ MODULE MerkleLog ------------------------------
(***************************************************************************)
(* The Merkle anchors of app/services/merkle.py over one tenant's evidence *)
(* rows.  A row's created_at is set when it is made and it is seen when    *)
(* its transaction commits, so rows may appear before rows that are        *)
(* already anchored.                                                       *)
(*                                                                         *)
(* Hashes are terms: <<0, leaf>> and <<1, {left, right}>>, so equal hashes *)
(* are hashes of equal things (sorted pairs hash alike).                   *)
(***************************************************************************)
EXTENDS Integers, SequencesExt

CONSTANTS Unhashed,   \* rows made before record_hash existed
          MaxRows,    \* bound: evidence rows
          MaxAnchors, \* bound: anchors taken
          MaxDamage   \* bound: rows altered or removed

MerkleAssumption ==
  /\ MaxRows \in Nat /\ MaxAnchors \in Nat /\ MaxDamage \in Nat
  /\ Unhashed \subseteq 1..MaxRows

VARIABLES
  made,     \* rows made so far, numbered by (created_at, evidence_id)
  rows,     \* committed rows
  altered,  \* rows whose record_hash was changed since
  damage,   \* rows altered or removed so far
  anchors   \* MerkleAnchor rows: [root, leaves], leaves for the properties only

vars == <<made, rows, altered, damage, anchors>>

-----------------------------------------------------------------------------
(* build_tree, inclusion_proof, verify_proof *)

Leaf(x) == <<0, x>>
Node(a, b) == <<1, {a, b}>>

\* Mutant of Above: an odd hash is dropped.
AboveDroppingOdd(level) ==
  [i \in 1..(Len(level) \div 2) |-> Node(level[2 * i - 1], level[2 * i])]

\* The next level: pairs hashed, an odd one promoted.
Above(level) ==
  [i \in 1..((Len(level) + 1) \div 2) |->
     IF 2 * i <= Len(level) THEN Node(level[2 * i - 1], level[2 * i]) ELSE level[2 * i - 1]]

\* One more level, until there is the root.
Grown(levels) ==
  LET top == levels[Len(levels)]
  IN  IF Len(top) <= 1 THEN levels ELSE Append(levels, Above(top))

\* All levels from the leaves' hashes up to the root.
Levels(leaves) ==
  LET grow[n \in 0..Len(leaves)] ==
        IF n = 0 THEN <<[i \in 1..Len(leaves) |-> Leaf(leaves[i])]>> ELSE Grown(grow[n - 1])
  IN  grow[Len(leaves)]

EmptyRoot == <<2, 0>>
Root(leaves) == IF leaves = <<>> THEN EmptyRoot ELSE Levels(leaves)[Len(Levels(leaves))][1]

Sibling(i) == IF i % 2 = 0 THEN i + 1 ELSE i - 1

\* A step up from the node at an index, counted from 0: its sibling, where
\* there is one, is what the proof needs.
Climbed(step, level) ==
  LET sib == Sibling(step.index)
  IN  [index |-> step.index \div 2,
       proof |-> IF sib < Len(level) THEN Append(step.proof, level[sib + 1]) ELSE step.proof]

\* The siblings on the way from leaf number index to the root.
InclusionProof(levels, index) ==
  LET climb[k \in 0..(Len(levels) - 1)] ==
        IF k = 0 THEN [index |-> index, proof |-> <<>>] ELSE Climbed(climb[k - 1], levels[k])
  IN  climb[Len(levels) - 1].proof

\* The leaf's hash combined with one sibling after another.
Combined(leaf, proof) ==
  LET hash[n \in 0..Len(proof)] ==
        IF n = 0 THEN Leaf(leaf) ELSE Node(hash[n - 1], proof[n])
  IN  hash[Len(proof)]

VerifyProof(leaf, proof, root) == Combined(leaf, proof) = root

-----------------------------------------------------------------------------
\* record_hash of row e, or "".
RecordHash(e) == IF e \in Unhashed THEN 0 ELSE IF e \in altered THEN -e ELSE e

\* _ordered_leaves: committed rows by number.
Ordered ==
  [i \in 1..Cardinality(rows) |-> CHOOSE e \in rows : Cardinality({f \in rows : f <= e}) = i]
OrderedLeaves == [i \in 1..Len(Ordered) |-> RecordHash(Ordered[i])]

Init ==
  /\ made = {} /\ rows = {} /\ altered = {} /\ damage = {}
  /\ anchors = <<>>

\* A transaction makes the next row; it is not visible yet.
Make ==
  /\ Cardinality(made) < MaxRows
  /\ made' = made \cup {Cardinality(made) + 1}
  /\ UNCHANGED <<rows, altered, damage, anchors>>

\* Transactions commit in any order.
Commit(e) ==
  /\ e \in made \ (rows \cup damage)
  /\ rows' = rows \cup {e}
  /\ UNCHANGED <<made, altered, damage, anchors>>

\* anchor(): the root and the number of leaves are signed and stored.
Anchor ==
  /\ Len(anchors) < MaxAnchors
  /\ anchors' = Append(anchors, [root |-> Root(OrderedLeaves), leaves |-> OrderedLeaves])
  /\ UNCHANGED <<made, rows, altered, damage>>

\* proof(): everything is computed from the rows as they are now.
Proof(e) ==
  LET levels == Levels(OrderedLeaves)
      index == CHOOSE i \in 0..(Len(Ordered) - 1) : Ordered[i + 1] = e
      proof == InclusionProof(levels, index)
  IN  [proof |-> proof, root |-> Root(OrderedLeaves),
       verified |-> VerifyProof(RecordHash(e), proof, Root(OrderedLeaves))]

\* A committed row's hash is altered, or the row is removed.
Damage(e) ==
  /\ Cardinality(damage) < MaxDamage
  /\ e \in rows \ damage
  /\ damage' = damage \cup {e}
  /\ \/ altered' = altered \cup {e} /\ UNCHANGED rows
     \/ rows' = rows \ {e} /\ UNCHANGED altered
  /\ UNCHANGED <<made, anchors>>

\* The bounds are reached.
Quiet == Cardinality(made) = MaxRows /\ Len(anchors) = MaxAnchors /\ UNCHANGED vars

Next ==
  \/ Make
  \/ Anchor
  \/ \E e \in 1..MaxRows : Commit(e) \/ Damage(e)
  \/ Quiet

Spec == Init /\ [][Next]_vars

-----------------------------------------------------------------------------
Count(leaves, x) == Cardinality({i \in 1..Len(leaves) : leaves[i] = x})

\* "Lets auditors prove no record was altered" (MerkleAnchor): the tree over
\* the rows has the root of an anchor only if it is over the very leaves that
\* were anchored, nothing added, altered or removed; and every record is
\* provable, at every position of a tree of every size, by a proof that proves
\* no other leaf.
TreeIsBinding ==
  /\ \A i \in 1..Len(anchors) :
       Root(OrderedLeaves) = anchors[i].root =>
         \A x \in ToSet(OrderedLeaves) \cup ToSet(anchors[i].leaves) :
           Count(OrderedLeaves, x) = Count(anchors[i].leaves, x)
  /\ \A e \in rows :
       LET p == Proof(e) IN
         /\ p.verified
         /\ \A x \in (ToSet(OrderedLeaves) \cup {MaxRows + 1}) \ {RecordHash(e)} :
              ~VerifyProof(x, p.proof, p.root)
=============================================================================
