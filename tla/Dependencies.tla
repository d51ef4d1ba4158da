---------------------------- MODULE Dependencies ----------------------------
(***************************************************************************)
(* The dependency graph of controls, app/services/dependency_graph.py, and *)
(* the blast radius of hypothetical failures over it, simulator.py.  The   *)
(* graph merges three sources of edges.  A simulation visits controls      *)
(* breadth first: a hard edge carries a failure on, a soft one only        *)
(* weakens the control it ends in.                                         *)
(*                                                                         *)
(* A severity of 1.0 is One; weights are percentages.                      *)
(***************************************************************************)
EXTENDS Naturals, Sequences, FiniteSets, FiniteSetsExt, SequencesExt

CONSTANTS Controls,
          Canonical,  \* spelling -> control
          Sharing,    \* concept -> set of the controls it maps to
          Related,    \* spelling -> set of the spellings NIST relates to it
          Datasets,   \* sequences of curated edges [source, target, weight]
          Questions   \* [changes, depth, least, excluded] that may be asked

DependenciesAssumption ==
  /\ Canonical \in [DOMAIN Canonical -> Controls]
  /\ \A q \in Questions : q.depth \in Nat

VARIABLES curated,   \* the data file's hard edges
          graph,     \* what _graph keeps of the three sources, in order
          question,
          seeds,     \* control -> severity of its own change
          frontier,  \* queue of [control, severity, depth, path]
          impact     \* control -> [severity, impact, via]

vars == <<curated, graph, question, seeds, frontier, impact>>

One == 1000000

Nothing == [c \in {} |-> <<>>]

-----------------------------------------------------------------------------
(* The graph. *)

Edge(source, target, kind, weight) ==
  [source |-> Canonical[source], target |-> Canonical[target], kind |-> kind, weight |-> weight]

Soft(pairs, weight) ==
  {Edge(pair[1], pair[2], "soft", weight) : pair \in pairs}

Concepts ==
  UNION {Soft({<<a, b>> \in Sharing[k] \X Sharing[k] : a # b}, 50) : k \in DOMAIN Sharing}

Relations ==
  Soft(UNION {{s} \X Related[s] : s \in DOMAIN Related}, 25)

Known(edges, e) == \E f \in Range(edges) : f.source = e.source /\ f.target = e.target

\* Hard beats soft, then the heavier edge beats the lighter; no loops.
Put(edges, e) ==
  LET better(f) == (e.kind = "hard" /\ f.kind # "hard") \/ (e.kind = f.kind /\ e.weight > f.weight)
  IN  CASE e.source = e.target -> edges
        [] e.source # e.target /\ ~Known(edges, e) -> Append(edges, e)
        [] OTHER -> [i \in DOMAIN edges |->
                       IF edges[i].source = e.source /\ edges[i].target = e.target /\ better(edges[i])
                       THEN e ELSE edges[i]]

Graph ==
  LET hard == [i \in DOMAIN curated |->
                 Edge(curated[i].source, curated[i].target, "hard", curated[i].weight)]
      also(edges, soft) == FoldSet(LAMBDA e, known : Put(known, e), edges, soft)
  IN  also(also(FoldLeft(Put, <<>>, hard), Concepts), Relations)

OutEdges(control) == SelectSeq(graph, LAMBDA e : e.source = control)

-----------------------------------------------------------------------------
(* The simulation. *)

\* A failed control is lost; a degraded one, or one in a state nobody knows,
\* counts 0.6.  Of two changes to one control the graver counts.
Seeds(changes) ==
  LET severity(i) == IF changes[i].state = "failed" THEN One ELSE 600000
      named == {changes[i].control : i \in DOMAIN changes}
  IN  [c \in named |-> Max({severity(i) : i \in {j \in DOMAIN changes : changes[j].control = c}})]

\* The seeds in the order they were first named.
Order(changes) ==
  LET first(i) == \A j \in 1 .. i - 1 : changes[j].control # changes[i].control
  IN  [n \in 1 .. Cardinality({i \in DOMAIN changes : first(i)}) |->
         LET i == CHOOSE i \in DOMAIN changes :
                    first(i) /\ Cardinality({j \in 1 .. i : first(j)}) = n
         IN  changes[i].control]

Ask ==
  /\ curated \in Datasets
  /\ graph = Graph
  /\ question \in Questions
  /\ seeds = Seeds(question.changes)
  /\ frontier = [n \in DOMAIN Order(question.changes) |->
                   [control |-> Order(question.changes)[n],
                    severity |-> seeds[Order(question.changes)[n]],
                    depth |-> 0, path |-> <<Order(question.changes)[n]>>]]
  /\ impact = Nothing

Init == Ask

Level(severity, kind) ==
  IF kind = "hard" /\ severity >= One \div 2 THEN "failed"
  ELSE IF severity >= 300000 THEN "weakened" ELSE "at_risk"

Propagated(severity, e) == (severity * e.weight) \div 100

\* round(_, 3)
Rounded(severity) == ((severity + 500) \div 1000) * 1000

\* An edge is followed unless the question rules it out, its effect is too
\* small, or it ends in a control that was changed directly.
Followed(severity, e) ==
  /\ e.weight >= question.least
  /\ <<e.source, e.target>> \notin question.excluded
  /\ Propagated(severity, e) >= 150000
  /\ e.target \notin DOMAIN seeds

\* The strongest effect on a control is kept, rounded.
Struck(known, node, e) ==
  LET prop == Propagated(node.severity, e)
      new == [severity |-> Rounded(prop), impact |-> Level(prop, e.kind),
              via |-> Append(node.path, e.target)]
  IN  IF e.target \in DOMAIN known /\ prop <= known[e.target].severity THEN known
      ELSE [c \in DOMAIN known \cup {e.target} |-> IF c = e.target THEN new ELSE known[c]]

\* MUTANT: a node is expanded however it was reached.
CarriesOnAny(node, e) == e.target \notin Range(node.path)

\* Only a failure through a hard edge is carried on, and never in a circle.
CarriesOn(node, e) ==
  /\ e.kind = "hard" /\ Level(Propagated(node.severity, e), e.kind) = "failed"
  /\ e.target \notin Range(node.path)

Visit ==
  /\ frontier # <<>>
  /\ LET node == Head(frontier)
         followed == IF node.depth >= question.depth THEN <<>>
                     ELSE SelectSeq(OutEdges(node.control), LAMBDA e : Followed(node.severity, e))
         next == SelectSeq(followed, LAMBDA e : CarriesOn(node, e))
     IN  /\ impact' = FoldLeft(LAMBDA known, e : Struck(known, node, e), impact, followed)
         /\ frontier' = Tail(frontier) \o
              [i \in DOMAIN next |->
                 [control |-> next[i].target, severity |-> Propagated(node.severity, next[i]),
                  depth |-> node.depth + 1, path |-> Append(node.path, next[i].target)]]
  /\ UNCHANGED <<curated, graph, question, seeds>>

Next == Visit

Spec == Init /\ [][Next]_vars

-----------------------------------------------------------------------------
(* What the blast radius is, told by rounds instead of by paths. *)

\* The heaviest edge of the strongest kind between two controls, if any.
Hard(a, b) ==
  {e.weight : e \in {f \in Range(curated) : Canonical[f.source] = a /\ Canonical[f.target] = b}}

Weak(a, b) == {e.weight : e \in {f \in Concepts \cup Relations : f.source = a /\ f.target = b}}

Open(a, b, weight) ==
  a # b /\ weight >= question.least /\ <<a, b>> \notin question.excluded

\* Effects on b of a, which has itself severity s.
Hits(s, a, b) ==
  LET kind == IF Hard(a, b) # {} THEN "hard" ELSE "soft"
      weights == IF Hard(a, b) # {} THEN Hard(a, b) ELSE Weak(a, b)
  IN  {[kind |-> kind, severity |-> (s * w) \div 100] :
         w \in {x \in weights : x = Max(weights) /\ Open(a, b, x) /\ (s * x) \div 100 >= 150000}}

Fails(effects) ==
  Max({0} \cup {e.severity : e \in {f \in effects : f.kind = "hard" /\ f.severity >= One \div 2}})

\* How badly each control has failed after some rounds; 0 if it has not.
Failing[round \in Nat] ==
  IF round = 0 THEN [c \in Controls |-> IF c \in DOMAIN seeds THEN seeds[c] ELSE 0]
  ELSE LET before == Failing[round - 1]
       IN  [c \in Controls |->
              IF c \in DOMAIN seeds THEN seeds[c]
              ELSE Max({before[c], Fails(UNION {Hits(before[a], a, c) : a \in Controls})})]

Effects ==
  LET failing == Failing[question.depth - 1]
  IN  [c \in Controls |-> IF question.depth = 0 \/ c \in DOMAIN seeds THEN {}
                          ELSE UNION {Hits(failing[a], a, c) : a \in Controls}]

\* A simulation reports exactly the controls the changes reach within the
\* depth asked, each with its gravest effect; a control has failed only if a
\* chain of hard edges fails it, and is said to have unless a soft edge weighs
\* the same (simulator.py).
BlastIsExact ==
  frontier = <<>> =>
    \A effects \in {Effects} :
      /\ DOMAIN impact = {c \in Controls : effects[c] # {}}
      /\ \A c \in DOMAIN impact :
           LET most == Rounded(Max({e.severity : e \in effects[c]}))
           IN  /\ impact[c].severity = most
               /\ impact[c].impact \in
                    {Level(e.severity, e.kind) : e \in {f \in effects[c] : Rounded(f.severity) = most}}
=============================================================================
