------------------------------ MODULE Hardening -------------------------------
(* The layers around the application (app/hardening.py): the sliding-window  *)
(* rate limiter, the order of the layers, and the compression of responses.  *)
(* Time is counted in half seconds, so that the whole seconds of Retry-After *)
(* are rounded as the code rounds them.                                      *)
EXTENDS Naturals, Sequences, FiniteSets, SequencesExt

CONSTANTS
  Clients,     \* the addresses requests really come from
  Forged,      \* an address a client may write into X-Forwarded-For
  ApiKeys,     \* the values of X-API-Key requests carry
  NoKey,       \* no such header
  Hops,        \* trusted_proxy_hops: the proxies in front of the application
  Limit,       \* max_requests
  Window,      \* window_seconds, in half seconds
  SweepEvery,  \* the limiter is swept at every n-th request
  MaxBuckets,  \* and only when it holds more buckets than this
  MaxNow       \* bound of the clock

LimiterAssumption ==
  /\ Limit \in Nat \ {0} /\ SweepEvery \in Nat \ {0} /\ Hops \in Nat
  /\ Window \in Nat /\ MaxBuckets \in Nat /\ MaxNow \in Nat

------------------------------------------------------------------------------
VARIABLES
  now,       \* half seconds since the start
  hits,      \* _hits: the times admitted, by bucket
  counted,   \* _n: the requests counted, modulo SweepEvery
  admitted,  \* the times each caller was let in: a key, or an address without one
  promised,  \* when a refused caller was told to come back, 0 when not refused
  said       \* the last answer: its status and the layers that saw it go by

limiterVars == <<now, hits, counted, admitted, promised, said>>

Identities == Clients \cup ApiKeys

\* add_middleware puts each layer around the ones added before it.
Added == <<"security headers", "gzip", "rate limit", "request context", "metrics", "cors">>
Stack == Reverse(Added)

\* The layers an answer made by one of them still passes on its way out.
PassedFrom(layer) ==
  {Stack[i] : i \in {j \in DOMAIN Stack : \E k \in DOMAIN Stack : j < k /\ Stack[k] = layer}}

\* MUTANT: the leftmost entry is believed.
ClientIpLeft(chain, peer) == IF Hops > 0 /\ chain # <<>> THEN chain[1] ELSE peer

\* The entry of X-Forwarded-For the outermost trusted proxy wrote: counted
\* from the right, what is further left is the client's own.
ClientIp(chain, peer) ==
  IF Hops > 0 /\ Len(chain) >= Hops THEN chain[Len(chain) - Hops + 1] ELSE peer

\* The bucket of a request: its key, whole, or its address.
Bucket(key, chain, peer) == IF key # NoKey THEN key ELSE ClientIp(chain, peer)

HitsOf(b) == IF b \in DOMAIN hits THEN hits[b] ELSE <<>>

\* A bucket without the times at its front that have left the window.
FirstLive(q) ==
  CHOOSE i \in 1..Len(q) + 1 :
    /\ \A j \in 1..i - 1 : q[j] + Window < now
    /\ i <= Len(q) => q[i] + Window >= now

Live(q) == SubSeq(q, FirstLive(q), Len(q))

Put(b, q) == [x \in DOMAIN hits \cup {b} |-> IF x = b THEN q ELSE hits[x]]

\* The whole seconds of Retry-After, one more than the time left.
RetryAfter(q) == ((Window + q[1]) - now) \div 2 + 1

\* Every SweepEvery-th request drops the buckets with nothing left inside.
Swept(table, count) ==
  IF count # 0 \/ Cardinality(DOMAIN table) <= MaxBuckets THEN table
  ELSE [b \in {x \in DOMAIN table : Live(table[x]) # <<>>} |-> Live(table[b])]

\* check, and the answer of the middleware.
Request(key, client, prefix) ==
  LET chain == IF Hops = 0 THEN prefix ELSE Append(prefix, client) \o [i \in 1..Hops - 1 |-> "proxy"]
      b == Bucket(key, chain, client)
      who == IF key # NoKey THEN key ELSE client
      q == Live(HitsOf(b))
      count == (counted + 1) % SweepEvery
  IN  /\ counted' = count
      /\ UNCHANGED now
      /\ \/ /\ Len(q) < Limit
            /\ hits' = Swept(Put(b, Append(q, now)), count)
            /\ admitted' = [admitted EXCEPT ![who] = Append(@, now)]
            /\ promised' = [promised EXCEPT ![who] = 0]
            /\ said' = [status |-> 200, passed |-> PassedFrom("security headers")]
         \/ /\ Len(q) >= Limit
            /\ hits' = Swept(Put(b, q), count)
            /\ promised' = [promised EXCEPT ![who] = now + 2 * RetryAfter(q)]
            /\ said' = [status |-> 429, passed |-> PassedFrom("rate limit")]
            /\ UNCHANGED admitted

Tick ==
  /\ now < MaxNow /\ now' = now + 1
  /\ UNCHANGED <<hits, counted, admitted, promised, said>>

LimiterInit ==
  /\ now = 0 /\ counted = 0 /\ hits = << >>
  /\ admitted = [c \in Identities |-> <<>>] /\ promised = [c \in Identities |-> 0]
  /\ said = [status |-> 0, passed |-> {}]

\* Paths under /health, /docs and /dashboard are exempt and never get here.
LimiterNext ==
  \/ Tick
  \/ \E key \in ApiKeys \cup {NoKey}, client \in Clients, prefix \in {<<>>, <<Forged>>} :
       Request(key, client, prefix)

LimiterSpec == LimiterInit /\ [][LimiterNext]_limiterVars

(* No caller gets more than Limit requests into any window, whatever it      *)
(* writes into X-Forwarded-For and whenever the buckets are swept.  A caller *)
(* that waits as long as Retry-After told it is not refused again, unless    *)
(* its bucket let a request in meanwhile; and a refusal still passes the     *)
(* layers that give it its request id and count it.                          *)
LimitIsHonoured ==
  /\ \A c \in Identities : \A t \in 0..now :
       Cardinality({i \in DOMAIN admitted[c] : admitted[c][i] \in t..(t + Window)}) <= Limit
  /\ \A c \in Identities : promised[c] \in 1..now => Len(Live(HitsOf(c))) < Limit
  /\ said.status = 429 => {"request context", "metrics", "cors"} \subseteq said.passed

------------------------------------------------------------------------------
(* CompressibleGZipMiddleware: the messages of one response as the           *)
(* application sends them and as the client gets them.  A body is "small" or *)
(* "large", and "more" when another chunk follows.                           *)
VARIABLES
  accepts,   \* whether the request accepts gzip
  toSend,    \* the messages the application has yet to send
  had,       \* the ones it has sent
  start,     \* the start message held back, as a sequence of at most one
  through,   \* sent_through
  got,       \* what went out
  over       \* whether the application returned, or raised

gzipVars == <<accepts, toSend, had, start, through, got, over>>

Start(encoded, type) == [kind |-> "start", encoded |-> encoded, type |-> type]
Body(size, more) == [kind |-> "body", size |-> size, more |-> more, form |-> "plain"]

Starts == {Start(e, t) : e \in {"none", "gzip", "br"}, t \in {"text", "image"}}
Chunks == {Body(s, m) : s \in {"small", "large"}, m \in BOOLEAN}

\* A response: a start, then chunks of which the last alone says it is.
Responses ==
  {<<s>> : s \in Starts} \cup {<<s, c>> : s \in Starts, c \in {x \in Chunks : ~ x.more}}
    \cup {<<s, c, d>> : s \in Starts, c \in {x \in Chunks : x.more},
                       d \in {x \in Chunks : ~ x.more}}

\* Already encoded, one of several chunks, small, or of a compressed type.
Skips(s, c) ==
  s.encoded # "none" \/ c.more \/ c.size = "small" \/ s.type = "image"

Packed(s, c) == <<[s EXCEPT !.encoded = "gzip"], [c EXCEPT !.form = "gzip"]>>

\* _send, with the next message of the application.
Send ==
  /\ ~ over /\ toSend # <<>>
  /\ toSend' = Tail(toSend) /\ had' = Append(had, Head(toSend))
  /\ LET m == Head(toSend)
     IN  \/ /\ ~ accepts \/ through
            /\ got' = Append(got, m) /\ UNCHANGED <<start, through>>
         \/ /\ accepts /\ ~ through /\ m.kind = "start"
            /\ start' = <<m>> /\ UNCHANGED <<got, through>>
         \/ /\ accepts /\ ~ through /\ m.kind = "body"
            /\ through' = TRUE /\ UNCHANGED start
            /\ got' = IF Skips(start[1], m) THEN got \o <<start[1], m>>
                      ELSE got \o Packed(start[1], m)
  /\ UNCHANGED <<accepts, over>>

\* MUTANT: what is held back at the end is dropped.
ReturnSilently ==
  /\ ~ over /\ toSend = <<>> /\ over' = TRUE
  /\ UNCHANGED <<accepts, toSend, had, start, through, got>>

\* The application is done: a start without a body still goes out.
Return ==
  /\ ~ over /\ toSend = <<>> /\ over' = TRUE
  /\ got' = IF through THEN got ELSE got \o start
  /\ UNCHANGED <<accepts, toSend, had, start, through>>

GzipInit ==
  /\ accepts \in BOOLEAN /\ toSend \in Responses
  /\ had = <<>> /\ start = <<>> /\ through = FALSE /\ got = <<>> /\ over = FALSE

GzipNext == Send \/ Return

GzipSpec == GzipInit /\ [][GzipNext]_gzipVars

\* The response unpacked again, by a client that believes its headers.
Unpacked(sent) ==
  IF sent # <<>> /\ \E i \in DOMAIN sent : sent[i].kind = "body" /\ sent[i].form = "gzip"
  THEN [i \in DOMAIN sent |->
          IF sent[i].kind = "start" THEN [sent[i] EXCEPT !.encoded = "none"]
          ELSE [sent[i] EXCEPT !.form = "plain"]]
  ELSE sent

(* Whatever is held back, the client gets the messages the application sent, *)
(* in their order and each once: a prefix of them at any time and all of     *)
(* them in the end.  A body is packed only for a client that said so, whole, *)
(* once, and under a start that announces it.                                *)
ResponseIsDelivered ==
  /\ IsPrefix(Unpacked(got), had) /\ (over => Unpacked(got) = had)
  /\ \A i \in DOMAIN got :
       got[i].kind = "body" /\ got[i].form = "gzip" =>
         accepts /\ Len(had) = 2 /\ toSend = <<>> /\ ~ got[i].more
           /\ got[1].encoded = "gzip" /\ had[1].encoded = "none"
=============================================================================
