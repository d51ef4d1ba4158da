----------------------------- MODULE Enforcement -----------------------------
(***************************************************************************)
(* The enforcement control plane, app/services/enforcement.py and app.py:  *)
(* switching a host between shadow and enforce rewrites the bundle's       *)
(* data.json in place, readers parse it once per version, and the decision *)
(* logs of the policy nodes are counted.                                   *)
(*                                                                         *)
(* Requests run on threads.  A switch reads the file, opens it, which      *)
(* empties it, and writes the new text from the start, three steps that    *)
(* nothing keeps apart from another request's.  A text is one character    *)
(* longer for every host it enforces and ends in a line end; a shorter     *)
(* text written over a longer one leaves the longer one's end behind it.   *)
(* A batch of decision logs is counted in one step, on the event loop.     *)
(***************************************************************************)
EXTENDS Naturals, Sequences, FiniteSets, SequencesExt

CONSTANTS Hosts,
          Requests,     \* requests in progress
          MaxSwitches,  \* bound: switches begun
          MaxVersions,  \* versions of the file remembered, 4
          Nodes,        \* policy decision points
          Batches,      \* sequences of log entries a node may post
          MaxPosts,     \* bound: batches posted
          MaxDecisions, \* length of the ring buffer
          None

\* What a decision names is known: the counters are made as names come up.
IsDecision(e) ==
  /\ e.kind = "decision"
  /\ e.host \in Hosts /\ e.node \in Nodes /\ e.allowed \in BOOLEAN /\ e.would_block \in BOOLEAN

EnforcementAssumption ==
  /\ IsFiniteSet(Hosts) /\ IsFiniteSet(Nodes)
  /\ \A batch \in Batches :
       /\ batch \in Seq({batch[i] : i \in DOMAIN batch})
       /\ \A i \in DOMAIN batch :
            /\ batch[i].kind = "decision" => IsDecision(batch[i])
            /\ batch[i].kind = "unhashable" => batch[i].node \in Nodes
  /\ None \notin [Hosts -> {"shadow", "enforce"}]
  /\ MaxVersions \in Nat \ {0} /\ MaxDecisions \in Nat \ {0}

VARIABLES file,     \* [doc, length, ends]: data.json; doc is None if unreadable
          stamp,    \* <<time of the last change, length>>
          cache,    \* stamp -> the systems parsed for it
          request,  \* what each request has still to do
          switches, \* switches begun
          shown,    \* history variable: the modes as acknowledged
          spoiled,  \* history variable: switches overlapped, died or shared a tick
          ring, counts, seen, \* decisions, counters of hosts and nodes
          posts,    \* batches posted
          acked,    \* history variable: decisions of the acknowledged batches
          failed,   \* history variable: a batch was refused half way
          partial   \* history variable: entries counted for their node alone

bundleVars == <<file, stamp, cache, request, switches, shown, spoiled>>
logVars    == <<ring, counts, seen, posts, acked, failed, partial>>
vars       == <<bundleVars, logVars>>

Modes == {"shadow", "enforce"}

\* A request that is not in progress.
Idle == [todo |-> "idle"]

NoSystems == [h \in {} |-> "shadow"]

Length(doc) == 1 + Cardinality({h \in Hosts : doc[h] = "enforce"})

Whole(doc) == [doc |-> doc, length |-> Length(doc), ends |-> 1]

Emptied == [doc |-> None, length |-> 0, ends |-> 0]

NoCounts == [h \in Hosts |-> [requests |-> 0, allow |-> 0, denied |-> 0, blocked |-> 0]]

NoNodes == [n \in Nodes |-> [decisions |-> 0, online |-> FALSE]]

Init ==
  /\ \E doc \in [Hosts -> Modes] :
       file = Whole(doc) /\ stamp = <<0, Length(doc)>> /\ shown = doc
  /\ cache = [s \in {} |-> NoSystems]
  /\ request = [r \in Requests |-> Idle]
  /\ switches = 0
  /\ spoiled = FALSE
  /\ ring = <<>>
  /\ counts = NoCounts /\ seen = NoNodes
  /\ posts = 0 /\ acked = 0
  /\ failed = FALSE
  /\ partial = 0

-----------------------------------------------------------------------------
\* set_mode.

At(r, step) == request[r].todo = step

Switching == {r \in Requests : At(r, "open") \/ At(r, "write")}

Finish(r) == request' = [request EXCEPT ![r] = Idle]

\* A text that cannot be parsed fails the request, which changes nothing.
Switch(r, h, mode) ==
  /\ request[r] = Idle /\ switches < MaxSwitches
  /\ switches' = switches + 1
  /\ \/ file.doc = None /\ UNCHANGED <<request, spoiled>>
     \/ /\ file.doc # None
        /\ request' = [request EXCEPT ![r] =
                         [todo |-> "open", host |-> h, doc |-> [file.doc EXCEPT ![h] = mode]]]
        /\ spoiled' = (spoiled \/ Switching # {})
  /\ UNCHANGED <<file, stamp, cache, shown, logVars>>

\* Time may have moved since the last change, or not enough to show.
Open(r) ==
  /\ At(r, "open")
  /\ file' = Emptied
  /\ \E later \in {0, 1} :
       /\ stamp' = <<stamp[1] + later, 0>>
       /\ spoiled' = (spoiled \/ later = 0)
  /\ request' = [request EXCEPT ![r] = [todo |-> "write", host |-> @.host, doc |-> @.doc]]
  /\ UNCHANGED <<cache, switches, shown, logVars>>

\* What the file holds once doc is written from its start.
Over(doc) ==
  LET rest == file.length - Length(doc) IN
  IF file.length <= Length(doc) THEN Whole(doc)
  ELSE [doc |-> IF rest <= file.ends THEN doc ELSE None,
        length |-> file.length,
        ends |-> IF rest <= file.ends THEN rest + 1 ELSE file.ends]

Write(r) ==
  /\ At(r, "write")
  /\ file' = Over(request[r].doc)
  /\ \E later \in {0, 1} : stamp' = <<stamp[1] + later, file'.length>>
  /\ shown' = [shown EXCEPT ![request[r].host] = request[r].doc[request[r].host]]
  /\ Finish(r)
  /\ UNCHANGED <<cache, switches, spoiled, logVars>>

\* The process is killed; what it remembered goes with it.
Kill ==
  /\ request' = [r \in Requests |-> Idle]
  /\ cache' = [s \in {} |-> NoSystems]
  /\ spoiled' = (spoiled \/ \E r \in Requests : At(r, "write"))
  /\ ring' = <<>> /\ counts' = NoCounts /\ seen' = NoNodes
  /\ acked' = 0 /\ partial' = 0
  /\ UNCHANGED <<file, stamp, switches, shown, posts, failed>>

-----------------------------------------------------------------------------
\* _systems_config: the version is looked up, then the text is read, as it
\* has become by then, unless that version was read before.

\* MUTANT: a version is its time.
VersionIsTime == <<stamp[1], 1>>

Version == stamp

LookUp(r) ==
  /\ request[r] = Idle
  /\ request' = [request EXCEPT ![r] = [todo |-> "parse", version |-> Version]]
  /\ UNCHANGED <<file, stamp, cache, switches, shown, spoiled, logVars>>

Parsed == IF file.doc = None THEN NoSystems ELSE file.doc

\* When as many versions as may be are remembered, one is forgotten.
Forgetting(v) ==
  IF Cardinality(DOMAIN cache) < MaxVersions THEN {cache}
  ELSE {[s \in DOMAIN cache \ {old} |-> cache[s]] : old \in DOMAIN cache}

Parse(r) ==
  /\ At(r, "parse")
  /\ LET v == request[r].version IN
     IF v \in DOMAIN cache THEN UNCHANGED cache
     ELSE \E kept \in Forgetting(v) :
            cache' = [s \in DOMAIN kept \cup {v} |-> IF s = v THEN Parsed ELSE kept[s]]
  /\ Finish(r)
  /\ UNCHANGED <<file, stamp, switches, shown, spoiled, logVars>>

\* The systems a request that looks now is told of.
SystemsConfig == IF Version \in DOMAIN cache THEN cache[Version] ELSE Parsed

-----------------------------------------------------------------------------
\* The decision log.  An entry is a decision, one of another path ("other"),
\* one whose headers or labels are no objects or whose node cannot be a key
\* ("malformed"), or one whose host cannot be a key ("unhashable").

\* MUTANT: a node begins anew with every batch.
BeginNode(n, new) == [decisions |-> new, online |-> TRUE]

TouchNode(n, new) == [decisions |-> seen[n].decisions + new, online |-> TRUE]

Entries(news, Test(_)) == Cardinality({i \in DOMAIN news : Test(news[i])})

Counted(h, news) ==
  [requests |-> counts[h].requests + Entries(news, LAMBDA e : e.host = h),
   allow    |-> counts[h].allow + Entries(news, LAMBDA e : e.host = h /\ e.allowed),
   denied   |-> counts[h].denied + Entries(news, LAMBDA e : e.host = h /\ ~e.allowed),
   blocked  |-> counts[h].blocked + Entries(news, LAMBDA e : e.host = h /\ e.would_block)]

LastOf(s, n) == SubSeq(s, (IF Len(s) > n THEN Len(s) - n ELSE 0) + 1, Len(s))

\* The decisions among the first n entries.
Decisions(batch) ==
  LET among[n \in 0..Len(batch)] ==
        IF n = 0 THEN <<>>
        ELSE IF batch[n].kind = "decision" THEN Append(among[n - 1], batch[n]) ELSE among[n - 1]
  IN  among

\* The first n entries do not end the request.
Passes(batch, n) == \A i \in 1..n : batch[i].kind \in {"decision", "other"}

\* Any other entry ends the request, and what came before it has counted.
Taken(batch) ==
  LET good == {n \in 0..Len(batch) : Passes(batch, n)}
  IN  Decisions(batch)[CHOOSE n \in good : \A m \in good : m <= n]

\* The place, if any, of an entry whose node is counted before its host is found
\* to be no key, which ends the request.
HalfCounted(batch) == {k \in DOMAIN batch : batch[k].kind = "unhashable" /\ Passes(batch, k - 1)}

Ingest(batch) ==
  /\ posts < MaxPosts
  /\ posts' = posts + 1
  /\ LET news   == Taken(batch)
         lone   == HalfCounted(batch)
         New(n) == Entries(news, LAMBDA e : e.node = n) + Cardinality({k \in lone : batch[k].node = n})
     IN /\ seen' = [n \in Nodes |-> IF New(n) = 0 THEN seen[n] ELSE TouchNode(n, New(n))]
        /\ counts' = [h \in Hosts |-> Counted(h, news)]
        /\ ring' = LastOf(ring \o news, MaxDecisions)
        /\ partial' = partial + Cardinality(lone)
        /\ \/ ~Passes(batch, Len(batch)) /\ failed' = TRUE /\ UNCHANGED acked
           \/ Passes(batch, Len(batch)) /\ acked' = acked + Len(news) /\ UNCHANGED failed
  /\ UNCHANGED bundleVars

\* A node says nothing for two minutes.
FallSilent(n) ==
  /\ seen[n].online
  /\ seen' = [seen EXCEPT ![n].online = FALSE]
  /\ UNCHANGED <<bundleVars, ring, counts, posts, acked, failed, partial>>

BundleNext ==
  \E r \in Requests :
    \/ \E h \in Hosts, mode \in Modes : Switch(r, h, mode)
    \/ Open(r) \/ Write(r) \/ LookUp(r) \/ Parse(r)

LogNext ==
  \/ \E batch \in Batches : Ingest(batch)
  \/ \E n \in Nodes : FallSilent(n)

Next == BundleNext \/ LogNext \/ Kill

Spec == Init /\ [][Next]_vars

-----------------------------------------------------------------------------
\* status_snapshot: sums over the counters, and the nodes heard of of late.

Total(of(_)) == SumFunctionOnSet([h \in Hosts |-> of(counts[h])], Hosts)

PdpNodes == {n \in Nodes : seen[n].decisions > 0}

PepsOnline == {n \in Nodes : seen[n].online}

\* "set_mode() rewrites this file: an unconditional cache would keep serving
\* shadow after an operator switched a system to enforce": while no switch is
\* writing, every reader is told the modes last acknowledged for all hosts,
\* whatever it or another read in the middle of a switch -- unless switches
\* overlapped, one was killed as it wrote, or two changes fell into one tick
\* of the file system's clock.
AcknowledgedModeShows ==
  ~spoiled /\ (\A r \in Requests : ~At(r, "write")) => SystemsConfig = shown

\* The three accounts of the decisions agree: by host, by node, and the ring of
\* the latest ones; a node has what the hosts have and, besides, the entries
\* that were refused once they had been counted for it.  They agree with what
\* was acknowledged to the nodes unless a batch was refused half way.
AccountsAgree ==
  LET requests == Total(LAMBDA c : c.requests)
      decisions == SumFunctionOnSet([n \in Nodes |-> seen[n].decisions], Nodes)
  IN /\ decisions = requests + partial
     /\ Len(ring) = (IF requests < MaxDecisions THEN requests ELSE MaxDecisions)
     /\ requests = Total(LAMBDA c : c.allow) + Total(LAMBDA c : c.denied)
     /\ ~failed => requests = acked
     /\ \A e \in Range(ring) : e.node \in PdpNodes /\ counts[e.host].requests > 0
     /\ PepsOnline \subseteq PdpNodes
=============================================================================
