----------------------------- MODULE Telemetry -----------------------------
(***************************************************************************)
(* What a connector reports and what is concluded from it: the signals of  *)
(* a probe, the probe that serves a check, and the verdict on the check.   *)
(*                                                                         *)
(* Telemetry is the set of the pairs <<signal, value>> the code knows: a   *)
(* field that is None and one left out of the dict are alike absent, as    *)
(* they are to evaluate().  A boolean stands for itself; a number stands   *)
(* for the one comparison the checks make with it ("days since rotation    *)
(* <= 90"), named by the signal.                                           *)
(*                                                                         *)
(* A world w is what is true at the vendor and what of it can be read:     *)
(*   w.facts   settings that are in force (and things that exist),         *)
(*   w.denied  reads that fail (permission, API error),                    *)
(*   w.items   for a probe over a list: what is true of each member,       *)
(*   w.hidden  the members whose own read fails,                           *)
(*   w.absent  settings that are missing from an answer that did arrive,   *)
(*             or "items", the list itself.                                *)
(***************************************************************************)
EXTENDS FiniteSets, Integers, TLC

\* ConnectorError: no telemetry at all.
Error == {<<"connector_error", TRUE>>}

\* What the answers say.  bool(doc.get(...)), an equality with a missing value
\* and any() over a missing list all read as no.
Said(w) == w.facts \ w.absent
Items(w) == IF "items" \in w.absent THEN <<>> ELSE w.items

Flags(S, w) == {<<s, s \in Said(w)>> : s \in S}

\* A setting that is copied as it came, or read three ways: unknown if missing.
Told(S, w) == Flags(S \ w.absent, w)

All(S, value) == S \X {value}
Values(signal, obs) == {o[2] : o \in {p \in obs : p[1] = signal}}

\* A read guarded on its own: what it would have told stays unknown.
Seen(read, w, obs) == IF read \in w.denied THEN {} ELSE obs

\* A read that is not guarded: its failure is the connector's.
Must(reads, w, obs) == IF reads \cap w.denied # {} THEN Error ELSE obs

\* MUTANT: every failure of the read is taken for "not configured".
SeenOrFalse(read, w, object, S) ==
    IF read \in w.denied \/ object \notin w.facts THEN All(S, FALSE) ELSE Flags(S, w)

\* A read of something that may not be configured: the vendor answers an
\* absent configuration and a refusal with different errors.
Configured(read, w, object, S) ==
    Seen(read, w, IF object \in w.facts THEN Flags(S, w) ELSE All(S, FALSE))

\* What can be said of a list of which some members cannot be read: nothing
\* if none could be.
Listed(w, obs(_)) ==
    LET readable == DOMAIN Items(w) \ w.hidden
    IN  IF DOMAIN Items(w) # {} /\ readable = {} THEN {} ELSE obs(readable)

-----------------------------------------------------------------------------
\* Checks: the asset type they apply to, the signals they require, and the
\* expression as its alternatives, each a set of the values it asks for.

Simple(asset, signal, value) ==
    [asset |-> asset, requires |-> {signal}, holds |-> {{<<signal, value>>}}]

Probe(asset, signals) == [asset |-> asset, signals |-> signals]

\* CapabilitySurface.resolve: among the probes of the asset type that emit
\* all the required signals, one with the fewest.
Resolve(surface, asset, required) ==
    LET candidates == {p \in DOMAIN surface :
                          surface[p].asset = asset /\ required \subseteq surface[p].signals}
    IN  {p \in candidates :
            \A q \in candidates : Cardinality(surface[p].signals) <= Cardinality(surface[q].signals)}

\* control_checks.evaluate: a required signal that is absent decides nothing.
EvaluateCheck(check, obs) ==
    IF \E s \in check.requires : Values(s, obs) = {} THEN "not_applicable"
    ELSE IF \E alternative \in check.holds : alternative \subseteq obs THEN "pass" ELSE "fail"

\* RuleEngine: a built-in control is one signal read three ways.
EvaluateBuiltIn(signal, obs) ==
    IF TRUE \in Values(signal, obs) THEN "pass"
    ELSE IF FALSE \in Values(signal, obs) THEN "fail" ELSE "not_applicable"

-----------------------------------------------------------------------------
\* How the Azure and GCP connectors reduce ingress rules to the signals of the
\* network checks.  A rule has a source that is the world or is not, and either
\* every port or one range of ports.  Which protocol it is for is not read.

SshPort == 22
RdpPort == 3389
WideRange == 4096
IngressSignals == {"unrestricted_ingress", "ssh_open_to_world", "rdp_open_to_world"}

\* _expand_ports: a range wider than WideRange is taken for every port.
AllPorts(rule) == rule.all \/ rule.hi - rule.lo > WideRange

Reaches(rule, port) == AllPorts(rule) \/ (rule.lo <= port /\ port <= rule.hi)

IngressExposure(rules) ==
    LET open == {r \in rules : r.world}
    IN  {<<"unrestricted_ingress", open # {}>>,
         <<"ssh_open_to_world", \E r \in open : Reaches(r, SshPort)>>,
         <<"rdp_open_to_world", \E r \in open : Reaches(r, RdpPort)>>}
=============================================================================
