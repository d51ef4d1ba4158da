-------------------------------- MODULE MCHttp --------------------------------
(* Bounds for model-checking the HTTP edges of the system: the connectors'   *)
(* client (Paging, ResilientClient) on the way out, the layers around the    *)
(* application and its routes (Hardening, Api) on the way in.  A walk is one *)
(* caller's; what the breaker and the retries do to one of its requests is   *)
(* Fetch or FailedFetch there.  A behaviour exercises one part, the others   *)
(* stay as they began.                                                       *)
EXTENDS Paging, Api

CONSTANTS
  Callers, FailThreshold, Cooldown, MaxRetries, Never,
  Clients, Forged, ApiKeys, NoKey, Hops, Limit, Window, SweepEvery, MaxBuckets, MaxNow

VARIABLES
  part,
  failures, opened, pc, attempt, mayBeAbsent, up, leaked,
  now, hits, counted, admitted, promised, said,
  accepts, toSend, had, start, through, got, over

clientVars == <<failures, opened, pc, attempt, mayBeAbsent, up, leaked>>

Client == INSTANCE ResilientClient
Edge == INSTANCE Hardening

ASSUME Client!ClientAssumption /\ Edge!LimiterAssumption

\* The table of the routes is one value: evaluating this settles it.
ASSUME TableAssumption == TableIsGuarded /\ TableIsReached

------------------------------------------------------------------------------
(* The entries of COMP_LENS_API_KEYS: every single one, and pairs in which   *)
(* the same key is declared twice or a second key is declared beside it.     *)

Scopes == {{}, {"t1"}, {"*"}, {"t1", "*"}}
RoleNames == {"", "viewer", "auditor", "operator", "admin", "typo"}

Scoped(key, tenants, role) == [key |-> key, scoped |-> TRUE, tenants |-> tenants, role |-> role]
Unscoped(key) == [key |-> key, scoped |-> FALSE, tenants |-> {}, role |-> ""]

Entries ==
  {Scoped("k1", tenants, role) : tenants \in Scopes, role \in RoleNames}
    \cup {Unscoped("k1"), Unscoped(""), Scoped("", {"t1"}, "")}

Second == {Scoped("k1", {"t2"}, "auditor"), Scoped("k2", {"t2"}, "admin"), Scoped("k1", {}, "admin")}
First2 == {Scoped("k1", {"t1"}, ""), Scoped("k1", {}, ""), Unscoped("k1")}

Declared ==
  {<<>>} \cup {<<e>> : e \in Entries} \cup {<<e, f>> : e \in First2, f \in Second}

------------------------------------------------------------------------------
MCInit ==
  /\ part \in {"walk", "client", "limiter", "gzip", "api"}
  /\ Init /\ Client!Init /\ Edge!LimiterInit
  /\ part # "walk" => link = [p \in Pages |-> None]
  /\ part # "client" => up
  /\ IF part = "gzip" THEN Edge!GzipInit
     ELSE /\ accepts = FALSE /\ toSend = <<>> /\ over = FALSE
          /\ had = <<>> /\ start = <<>> /\ through = FALSE /\ got = <<>>
  /\ IF part = "api" THEN keys \in Declared /\ production \in BOOLEAN
     ELSE keys = <<>> /\ production = FALSE
  /\ ApiInit

edgeVars == <<now, hits, counted, admitted, promised, said>>
gzipVars == <<accepts, toSend, had, start, through, got, over>>

WalkStep ==
  part = "walk" /\ Next /\ UNCHANGED <<part, clientVars, edgeVars, gzipVars, apiVars>>

ClientStep ==
  part = "client" /\ Client!Next /\ UNCHANGED <<part, vars, edgeVars, gzipVars, apiVars>>

LimiterStep ==
  part = "limiter" /\ Edge!LimiterNext /\ UNCHANGED <<part, vars, clientVars, gzipVars, apiVars>>

GzipStep ==
  part = "gzip" /\ Edge!GzipNext /\ UNCHANGED <<part, vars, clientVars, edgeVars, apiVars>>

ApiStep ==
  part = "api" /\ ApiNext /\ UNCHANGED <<part, vars, clientVars, edgeVars, gzipVars>>

\* A response delivered and a request answered are the end of their parts.
Rest ==
  /\ (part = "gzip" /\ over) \/ (part = "api" /\ answer.status # 0)
  /\ UNCHANGED <<part, vars, clientVars, edgeVars, gzipVars, apiVars>>

MCNext == WalkStep \/ ClientStep \/ LimiterStep \/ GzipStep \/ ApiStep \/ Rest

\* The client's fairness, where the client moves.
MCSpec ==
  /\ MCInit /\ [][MCNext]_<<part, vars, clientVars, edgeVars, gzipVars, apiVars>>
  /\ part = "client" => Client!Fairness

\* ResilientClient: what an open circuit lets through is bounded.
LeakIsBounded == Client!LeakIsBounded

\* ResilientClient: an open circuit does not stay open.
OpenEnds == Client!OpenEnds

\* Hardening: no caller gets more than the limit into any window, and a
\* refusal keeps its promise.
LimitIsHonoured == Edge!LimitIsHonoured

\* Hardening: the client gets what the application sent, in order and once.
ResponseIsDelivered == Edge!ResponseIsDelivered
=============================================================================
