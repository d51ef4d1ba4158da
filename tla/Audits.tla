------------------------------- MODULE Audits -------------------------------
(***************************************************************************)
(* Audit engagements, app/services/audit_service.py: an audit, the         *)
(* checklist of controls seeded for it, the reviewers' decisions on its    *)
(* lines, the evidence requests, and the refresh that copies the current   *)
(* posture into the checklist while decisions are made.                    *)
(*                                                                         *)
(* Transactions are READ COMMITTED.  A request that loads a row writes, at *)
(* its commit, only the columns whose value it changed, and fails when the *)
(* row is gone by then.  A flush and its commit are one step.  A checklist *)
(* has one line for a control, named <<audit, control>>.  Nothing deletes  *)
(* a posture row, the assessments (Assessment) insert and update them.     *)
(***************************************************************************)
EXTENDS Naturals, Sequences

CONSTANTS Controls,    \* the catalogue
          Frameworks,
          InScope,     \* framework -> the controls that crosswalk to it
          Assets,
          Stages,      \* of an audit, "planning" among them
          Reviews,     \* of a line, "not_started" among them
          Answers,     \* to an evidence request, "open" among them
          Callers,     \* requests in progress
          MaxCallers,  \* bound: requests of several steps in all
          MaxAudits,   \* bound: audits ever created
          MaxRequests, \* bound: evidence requests ever made
          MaxMoves,    \* bound: changes of posture
          None

Statuses == {"pass", "fail", "error", "not_applicable"}

AuditAssumption ==
  /\ Assets # {} /\ None \notin Statuses
  /\ InScope \in [Frameworks -> SUBSET Controls]
  /\ "planning" \in Stages /\ "not_started" \in Reviews /\ "open" \in Answers

VARIABLES audits,    \* id -> [framework, status], or None once deleted
          lines,     \* <<audit, control>> -> [review, auto]
          asked,     \* evidence requests: id -> [audit, state], or None
          assessed,  \* <<control, asset>> -> status, or None
          call,      \* what each request has still to do
          made,      \* requests made
          moves,     \* changes of posture
          clean,     \* history variable: refreshes that read the posture as it is,
                     \* of audits that none that read an older one is refreshing
          fresh      \* history variable: audits refreshed since the last change

vars == <<audits, lines, asked, assessed, call, made, moves, clean, fresh>>

\* A request that is not in progress.
Idle == [todo |-> "idle"]

Audits == {a \in DOMAIN audits : audits[a] # None}

Init ==
  /\ audits = <<>> /\ asked = <<>>
  /\ lines = [l \in {} |-> None]
  /\ assessed \in [Controls \X Assets -> {None, "fail"}]
  /\ call = [k \in Callers |-> Idle]
  /\ made = 0 /\ moves = 0
  /\ clean = {} /\ fresh = {}

-----------------------------------------------------------------------------
\* One word for a control: the worst over its assets.

Rank == [s \in Statuses \cup {None} |->
           CASE s = "fail" -> 4 [] s = "error" -> 3 [] s = "pass" -> 2
             [] s = "not_applicable" -> 1 [] s = None -> 0]

\* MUTANT: the asset looked at last has the word.
WorstIsLast(c) ==
  LET seen == {assessed[<<c, x>>] : x \in Assets} \ {None}
  IN IF seen = {} THEN None ELSE CHOOSE s \in seen : \A t \in seen : Rank[s] <= Rank[t]

PostureByControl(c) ==
  CHOOSE s \in Statuses \cup {None} :
    /\ \E x \in Assets : s = assessed[<<c, x>>]
    /\ \A x \in Assets : Rank[assessed[<<c, x>>]] <= Rank[s]

-----------------------------------------------------------------------------
\* Steps of a request.

Begin(k, todo) ==
  /\ call[k] = Idle /\ made < MaxCallers
  /\ made' = made + 1
  /\ call' = [call EXCEPT ![k] = todo]
  /\ UNCHANGED clean

At(k, step) == call[k].todo = step

Done(k) == call' = [call EXCEPT ![k] = Idle] /\ clean' = clean \ {k} /\ UNCHANGED made

\* The audit is committed before its checklist is.
Create(k, f) ==
  /\ Len(audits) < MaxAudits
  /\ Begin(k, [todo |-> "reload", audit |-> Len(audits) + 1])
  /\ audits' = Append(audits, [framework |-> f, status |-> "planning"])
  /\ UNCHANGED <<lines, asked, assessed, moves, fresh>>

\* A framework that no control crosswalks to gets the whole catalogue.
ControlsForFramework(f) == IF InScope[f] = {} THEN Controls ELSE InScope[f]

Reload(k) ==
  /\ At(k, "reload")
  /\ \/ /\ call[k].audit \in Audits
        /\ call' = [call EXCEPT ![k] =
                      [todo |-> "seed", audit |-> @.audit,
                       scope |-> ControlsForFramework(audits[@.audit].framework)]]
        /\ UNCHANGED <<made, clean>>
     \/ call[k].audit \notin Audits /\ Done(k)
  /\ UNCHANGED <<audits, lines, asked, assessed, moves, fresh>>

Seeded(k) == {call[k].audit} \X call[k].scope

Seed(k) ==
  /\ At(k, "seed")
  /\ lines' = [l \in DOMAIN lines \cup Seeded(k) |->
                 IF l \in Seeded(k) THEN [review |-> "not_started", auto |-> None] ELSE lines[l]]
  /\ call' = [call EXCEPT ![k] = [todo |-> "look", audit |-> @.audit]]
  /\ fresh' = fresh \ {call[k].audit}
  /\ UNCHANGED <<audits, asked, assessed, made, moves, clean>>

Refresh(k, a) ==
  /\ Begin(k, [todo |-> "look", audit |-> a])
  /\ UNCHANGED <<audits, lines, asked, assessed, moves, fresh>>

\* The requests that are refreshing the checklist of a.
Refreshing(a) ==
  {k \in Callers : call[k].todo \in {"load", "write"} /\ call[k].audit = a}

\* Nothing is refreshed for an audit that is not there.
Look(k) ==
  /\ At(k, "look")
  /\ LET a == call[k].audit IN
     \/ /\ a \in Audits
        /\ call' = [call EXCEPT ![k] =
                      [todo |-> "load", audit |-> a,
                       latest |-> [c \in Controls |-> PostureByControl(c)]]]
        /\ clean' = IF Refreshing(a) \subseteq clean THEN clean \cup {k} ELSE clean
        /\ UNCHANGED made
     \/ a \notin Audits /\ Done(k)
  /\ UNCHANGED <<audits, lines, asked, assessed, moves, fresh>>

LinesOf(a) == {l \in DOMAIN lines : l[1] = a}

Load(k) ==
  /\ At(k, "load")
  /\ call' = [call EXCEPT ![k] =
                [todo |-> "write", audit |-> @.audit, latest |-> @.latest,
                 seen |-> [l \in LinesOf(@.audit) |-> lines[l]]]]
  /\ UNCHANGED <<audits, lines, asked, assessed, made, moves, clean, fresh>>

\* The lines whose status is not what the posture says.
Outdated(k) == {l \in DOMAIN call[k].seen : call[k].seen[l].auto # call[k].latest[l[2]]}

\* MUTANT: the line is written as it was loaded.
RefreshedWhole(k, l) == [call[k].seen[l] EXCEPT !.auto = call[k].latest[l[2]]]

Refreshed(k, l) == [lines[l] EXCEPT !.auto = call[k].latest[l[2]]]

Write(k) ==
  /\ At(k, "write")
  /\ \/ /\ Outdated(k) \subseteq DOMAIN lines
        /\ lines' = [l \in DOMAIN lines |-> IF l \in Outdated(k) THEN Refreshed(k, l) ELSE lines[l]]
        /\ fresh' = IF k \in clean /\ LinesOf(call[k].audit) = DOMAIN call[k].seen
                    THEN fresh \cup ({call[k].audit} \cap Audits) ELSE fresh
     \/ /\ ~ Outdated(k) \subseteq DOMAIN lines
        /\ UNCHANGED <<lines, fresh>>
  /\ Done(k)
  /\ UNCHANGED <<audits, asked, assessed, moves>>

\* A reviewer's decision.  What was decided already is not written again.
Review(k, l) ==
  /\ l \in DOMAIN lines
  /\ \E r \in Reviews : Begin(k, [todo |-> "decide", line |-> l, had |-> lines[l].review, review |-> r])
  /\ UNCHANGED <<audits, lines, asked, assessed, moves, fresh>>

Decide(k) ==
  /\ At(k, "decide")
  /\ LET d == call[k] IN
     \/ /\ d.line \in DOMAIN lines /\ d.review # d.had
        /\ lines' = [lines EXCEPT ![d.line].review = d.review]
     \/ (d.line \notin DOMAIN lines \/ d.review = d.had) /\ UNCHANGED lines
  /\ Done(k)
  /\ UNCHANGED <<audits, asked, assessed, moves, fresh>>

\* A request dies between two commits.
Die(k) ==
  /\ call[k] # Idle /\ Done(k)
  /\ UNCHANGED <<audits, lines, asked, assessed, moves, fresh>>

-----------------------------------------------------------------------------
\* Requests of one transaction.

Update(a) ==
  /\ \E s \in Stages : audits' = [audits EXCEPT ![a].status = s]
  /\ UNCHANGED <<lines, asked, assessed, call, made, moves, clean, fresh>>

Delete(a) ==
  /\ audits' = [audits EXCEPT ![a] = None]
  /\ lines' = [l \in DOMAIN lines \ LinesOf(a) |-> lines[l]]
  /\ asked' = [i \in DOMAIN asked |->
                 IF asked[i] # None /\ asked[i].audit = a THEN None ELSE asked[i]]
  /\ fresh' = fresh \ {a}
  /\ UNCHANGED <<assessed, call, made, moves, clean>>

\* No one looks whether the audit is there.
CreateRequest(a) ==
  /\ Len(asked) < MaxRequests
  /\ asked' = Append(asked, [audit |-> a, state |-> "open"])
  /\ UNCHANGED <<audits, lines, assessed, call, made, moves, clean, fresh>>

UpdateRequest(i) ==
  /\ \E s \in Answers : asked' = [asked EXCEPT ![i].state = s]
  /\ UNCHANGED <<audits, lines, assessed, call, made, moves, clean, fresh>>

DeleteRequest(i) ==
  /\ asked' = [asked EXCEPT ![i] = None]
  /\ UNCHANGED <<audits, lines, assessed, call, made, moves, clean, fresh>>

\* An assessment commits a posture row.
Assess(c, x) ==
  /\ moves < MaxMoves
  /\ moves' = moves + 1
  /\ \E s \in Statuses \ {assessed[<<c, x>>]} : assessed' = [assessed EXCEPT ![<<c, x>>] = s]
  /\ clean' = {} /\ fresh' = {}
  /\ UNCHANGED <<audits, lines, asked, call, made>>

\* The bounds are reached.
Quiet ==
  /\ Audits = {} /\ made = MaxCallers
  /\ \A k \in Callers : call[k] = Idle
  /\ UNCHANGED vars

Next ==
  \/ \E k \in Callers :
       \/ \E f \in Frameworks : Create(k, f)
       \/ Reload(k) \/ Seed(k) \/ Look(k) \/ Load(k) \/ Write(k) \/ Decide(k) \/ Die(k)
       \/ \E a \in 1..MaxAudits : Refresh(k, a)
       \/ \E l \in DOMAIN lines : Review(k, l)
  \/ \E a \in Audits : Update(a) \/ Delete(a)
  \/ \E a \in 1..MaxAudits : CreateRequest(a)
  \/ \E i \in DOMAIN asked : asked[i] # None /\ (UpdateRequest(i) \/ DeleteRequest(i))
  \/ \E c \in Controls, x \in Assets : Assess(c, x)
  \/ Quiet

Spec == Init /\ [][Next]_vars

-----------------------------------------------------------------------------
\* "the checklist the auditor signs off line by line": a decision changes only
\* when a reviewer's request for that very line commits, never by a refresh
\* that loaded the line before it, and a line goes only with its audit.
ReviewStands ==
  [][\A l \in DOMAIN lines :
       \/ l \in DOMAIN lines' /\ lines'[l].review = lines[l].review
       \/ \E k \in Callers : At(k, "decide") /\ call[k].line = l /\ call'[k] = Idle
       \/ l \notin DOMAIN lines' /\ l[1] \notin {a \in DOMAIN audits' : audits'[a] # None}]_lines

\* "auto_status is the current assessed posture for that control across every
\* system and asset in scope, reduced worst-first ... refreshed when this audit
\* was last synced": once a refresh has read the posture as it is, and none
\* that read an older one was then under way, every line says the worst there
\* is, whatever reviews, creations and other refreshes overlap it.
ChecklistIsCurrent ==
  \A a \in fresh : \A l \in LinesOf(a) :
    LET found == {assessed[<<l[2], x>>] : x \in Assets} IN
    /\ (lines[l].auto = "fail") = ("fail" \in found)
    /\ (lines[l].auto = "error") = ("error" \in found /\ "fail" \notin found)
    /\ (lines[l].auto = "pass") => found \subseteq {"pass", "not_applicable", None}
    /\ (lines[l].auto = None) = (found = {None})
=============================================================================
