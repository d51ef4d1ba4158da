------------------------------- MODULE Paging -------------------------------
(***************************************************************************)
(* ResilientClient.get_all_pages, app/connectors/http_client.py: a walk    *)
(* along the next links of a collection until there is none, or until one  *)
(* of its limits makes it refuse.                                          *)
(*                                                                         *)
(* A page stands for its URL and its items.  The collection is any         *)
(* function from pages to next links, so it may end, loop, or be longer    *)
(* than the cap.  The clock is whether the budget has run out; it is read  *)
(* before each page, not while one is fetched.  The caller's parameters    *)
(* select the first page whatever URL they are added to.                   *)
(***************************************************************************)
EXTENDS Naturals, Sequences

CONSTANTS Pages,     \* URLs of the service
          First,     \* the URL the caller asks for
          Delimited, \* those of Pages with a comma or a semicolon in them
          MaxPages,  \* max_pages
          None       \* no next link

ASSUME FirstAssumption == First \in Pages
ASSUME CapAssumption   == MaxPages \in Nat
ASSUME NoneAssumption  == None \notin Pages

VARIABLES link,    \* the rel="next" URL each page is answered with
          next,    \* next_url
          first,   \* the request about to be made is the first
          out,     \* the pages collected
          late,    \* time.monotonic() > deadline
          result   \* "walking", "returned", or what the walk raised for

vars == <<link, next, first, out, late, result>>

Results == {"walking", "returned", "late", "loop", "failed", "exceeded"}

Init ==
  /\ link \in [Pages -> Pages \cup {None}]
  /\ next = First
  /\ first = TRUE
  /\ out = <<>>
  /\ late = FALSE
  /\ result = "walking"

\* seen, the URLs requested: each one that was answered is in out.
Seen == {out[i] : i \in 1..Len(out)}

\* The range of the loop is used up: one pass per page collected.
CapReached == Len(out) >= MaxPages

End(how) == result' = how /\ UNCHANGED <<link, next, first, out, late>>

Return == ~CapReached /\ next = None /\ End("returned")

TooLate == ~CapReached /\ next # None /\ late /\ End("late")

Loop == ~CapReached /\ next \in Seen /\ ~late /\ End("loop")

\* The page the server answers with: the parameters of the first request
\* select the first page, a later request carries the cursor alone.
Answered == IF first THEN First ELSE next

Fetches == ~CapReached /\ next # None /\ ~late /\ next \notin Seen

\* _next_link splits the header at every comma and each link at its semicolons:
\* it does not make out a URL that holds one, and reads that there is no next.
NextLink(page) == IF link[page] \in Delimited THEN None ELSE link[page]

Fetch ==
  /\ Fetches
  /\ out' = Append(out, Answered)
  /\ next' = NextLink(Answered)
  /\ first' = FALSE
  /\ UNCHANGED <<link, late, result>>

\* The request fails for good, or the page is not a JSON list.
FailedFetch == Fetches /\ End("failed")

\* MUTANT: the pages so far are returned when the range of the loop ends.
ExceededQuietly == CapReached /\ End("returned")

\* The statement after the loop: it does not look at next.
Exceeded == CapReached /\ End("exceeded")

Walk ==
  /\ result = "walking"
  /\ Return \/ TooLate \/ Loop \/ Fetch \/ FailedFetch \/ Exceeded

Expire ==
  /\ result = "walking" /\ ~late
  /\ late' = TRUE
  /\ UNCHANGED <<link, next, first, out, result>>

\* The call is over.
Over == result # "walking" /\ UNCHANGED vars

Next == Walk \/ Expire \/ Over

Spec == Init /\ [][Next]_vars

-----------------------------------------------------------------------------
\* Every value is in range, and the parameters are for the first request only.
TypeOK ==
  /\ link \in [Pages -> Pages \cup {None}]
  /\ next \in Pages \cup {None}
  /\ first \in BOOLEAN
  /\ out \in Seq(Pages)
  /\ late \in BOOLEAN
  /\ result \in Results
  /\ first <=> out = <<>>

\* path follows the links from the first page on.
IsWalk(path) ==
  /\ Len(path) > 0 => path[1] = First
  /\ \A i \in 1..Len(path) - 1 : link[path[i]] = path[i + 1]

\* What is returned is the collection and not a part of it: every page from
\* the first to the one without a next link, in order, none of them twice;
\* a next link with a comma or a semicolon in its URL ends it too.
CompleteOrNothing ==
  result = "returned" =>
    /\ Len(out) > 0
    /\ IsWalk(out)
    /\ link[out[Len(out)]] \in {None} \cup Delimited
    /\ \A i, j \in 1..Len(out) : out[i] = out[j] => i = j
=============================================================================
