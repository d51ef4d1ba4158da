----------------------------- MODULE Documents -----------------------------
(***************************************************************************)
(* Documents as evidence: app/services/evidence_graph.py extracts concepts *)
(* from an uploaded text, a person confirms them or signs a control off    *)
(* (attestation.py), and evidence_policy.py and resolver.py say from what  *)
(* is on record whether a control is met.                                  *)
(*                                                                         *)
(* Requests run on threads, each with a session of its own.  A session     *)
(* writes at its commit only the columns that differ from what it loaded;  *)
(* a row's updated_at moves only with such a write.  A DELETE takes the    *)
(* rows its statement found when it began, waits for whoever holds them    *)
(* and passes over those that have gone meanwhile.  A day of the model is  *)
(* DayLength days of the code.                                             *)
(***************************************************************************)
EXTENDS Naturals, Sequences, FiniteSets

CONSTANTS Contents,    \* texts that are uploaded, equal iff their hashes are
          Answers,     \* what detecting concepts in a text may return
          Controls,
          Maps,        \* concept_lexicon.json: concept -> sequence of controls
          Strategies,  \* control_bindings.json: control -> concepts of its document strategy
          Default, ByConcept, ByControl, \* evidence_policy.json
          Owners,      \* owners a sign-off may name, None among them
          Requests,    \* requests in progress
          DayLength,   \* days in a step of the clock
          MaxDay,      \* bound: steps of the clock
          MaxBegun,    \* bound: requests begun
          None

\* The two data files are kept apart and agree on every control.
StrategiesFollowTheLexicon ==
  \A c \in Controls :
    Strategies[c] = {k \in DOMAIN Maps : \E i \in DOMAIN Maps[k] : Maps[k][i] = c}

DocumentsAssumption ==
  /\ None \in Owners /\ None \notin Nat
  /\ \A answer \in Answers : DOMAIN answer.raw \subseteq Nat
  /\ \A concept \in DOMAIN Maps : Maps[concept] \in Seq(Controls)
  /\ DOMAIN ByConcept \subseteq DOMAIN Maps /\ None \notin DOMAIN Maps
  /\ DOMAIN ByControl \subseteq Controls
  /\ StrategiesFollowTheLexicon
  /\ DayLength \in Nat \ {0}

VARIABLES docs,     \* committed documents
          hits,     \* committed concept hits
          att,      \* the attestation of each control, or None
          day,
          req,      \* what each request has still to do
          begun,    \* requests begun
          issued,   \* identifiers given to documents and hits
          acted,    \* history variable: the day a person last vouched for a control
          signed,   \* history variable: the day of the last acknowledged sign-off
          crossed   \* history variable: documents two requests rewrote at a time

rows == <<docs, hits, att>>
history == <<acted, signed, crossed>>
vars == <<rows, day, req, begun, issued, history>>

Idle == [kind |-> "idle"]

Init ==
  /\ docs = {} /\ hits = {}
  /\ att = [c \in Controls |-> None]
  /\ day = 0
  /\ req = [p \in Requests |-> Idle]
  /\ begun = 0
  /\ issued = 0
  /\ acted = [c \in Controls |-> None]
  /\ signed = [c \in Controls |-> None]
  /\ crossed = {}

-----------------------------------------------------------------------------
(* What a text is evidence of. *)

\* A concept is kept if the lexicon knows it and the text bears its quote,
\* the first time it is named.
Extracted(answer) ==
  LET kept == {i \in DOMAIN answer.raw : answer.raw[i].concept \in DOMAIN Maps /\ answer.raw[i].quoted}
  IN  {[concept |-> answer.raw[i].concept, conf |-> answer.raw[i].conf] :
         i \in {j \in kept : \A k \in kept : k < j => answer.raw[k].concept # answer.raw[j].concept}}

Age(then) == (day - then) * DayLength

Rule(control, concept) ==
  LET says(f, x, part) == x \in DOMAIN f /\ part \in DOMAIN f[x]
  IN  [part \in DOMAIN Default |->
         IF says(ByControl, control, part) THEN ByControl[control][part]
         ELSE IF says(ByConcept, concept, part) THEN ByConcept[concept][part]
         ELSE Default[part]]

\* Full weight for 180 days, then falling to nothing at 365.
Weighs(conf, age, least) ==
  \/ age <= 180 /\ conf >= least
  \/ age > 180 /\ age < 365 /\ conf * (365 - age) >= least * (365 - 180)
  \/ age >= 365 /\ least = 0

Bearing(control) ==
  {h \in hits : \E i \in DOMAIN Maps[h.concept] : Maps[h.concept][i] = control}

Qualifies(control, h) ==
  LET rule == Rule(control, h.concept)
  IN  /\ rule.confirmation => h.confirmed
      /\ Weighs(h.conf, Age(h.at), rule.least)
      /\ Age(h.at) <= rule.age
      /\ rule.owner => att[control] # None /\ att[control].owner # None

\* MUTANT: a sign-off stands for ever.
SignedOffForEver(control) == att[control] # None /\ att[control].status = "compliant"

SignedOff(control) ==
  /\ att[control] # None /\ att[control].status = "compliant"
  /\ Age(att[control].at) <= Rule(control, None).age

\* evidence_policy.evaluate, with its own engine.
Evaluate(control) ==
  IF SignedOff(control) \/ \E h \in Bearing(control) : Qualifies(control, h) THEN "compliant"
  ELSE IF Bearing(control) # {} \/ att[control] # None THEN "insufficient_evidence"
  ELSE "not_assessed"

\* resolver.resolve for a control without a telemetry strategy: whether there
\* are hits it reads by the binding, before it asks the policy.
HitsFor(control) == {h \in hits : h.concept \in Strategies[control]}

Resolve(control) ==
  IF HitsFor(control) # {} THEN Evaluate(control)
  ELSE IF att[control] # None THEN att[control].status ELSE "not_assessed"

Satisfied(control) == Evaluate(control) = "compliant"

\* app/data/evidence_policy.json: people are asked, and asked again within the year.
RulesAreStrict ==
  \A control \in Controls, concept \in DOMAIN Maps \cup {None} :
    Rule(control, concept).confirmation /\ Rule(control, concept).age \in 0..365

-----------------------------------------------------------------------------
(* Documents come, come again and go. *)

Rewrites(p, id) == req[p].kind \in {"upload", "delete"} /\ req[p].doc.id = id

\* Hits a transaction has deleted and not committed.
Held(p) == IF req[p].kind \in {"upload", "delete"} THEN req[p].erased ELSE {}

Begin(p, r) ==
  /\ req[p].kind = "idle" /\ begun < MaxBegun
  /\ begun' = begun + 1
  /\ req' = [req EXCEPT ![p] = r]

Rewriting(kind, doc, at) ==
  [kind |-> kind, doc |-> doc, at |-> at, found |-> {}, erased |-> {}]

Meet(id) ==
  crossed' = crossed \cup {x \in {id} : \E q \in Requests : Rewrites(q, id)}

\* get_or_create finds the text's document or inserts it; an insert waits
\* for another of the same text.
Upload(p, content) ==
  /\ \A q \in Requests :
       req[q].kind = "upload" => ~(req[q].at = "new" /\ req[q].doc.content = content)
  /\ \/ \E d \in docs :
          /\ d.content = content
          /\ Begin(p, Rewriting("upload", d, "clear"))
          /\ Meet(d.id)
          /\ UNCHANGED issued
     \/ /\ \A d \in docs : d.content # content
        /\ Begin(p, Rewriting("upload", [id |-> issued, content |-> content, method |-> None], "new"))
        /\ issued' = issued + 1
        /\ UNCHANGED crossed
  /\ UNCHANGED <<rows, day, acted, signed>>

Delete(p, d) ==
  /\ d \in docs
  /\ Begin(p, Rewriting("delete", d, "clear"))
  /\ Meet(d.id)
  /\ UNCHANGED <<rows, day, issued, acted, signed>>

\* DELETE FROM evidence_concept_hits begins ...
Clear(p) ==
  /\ req[p].kind \in {"upload", "delete"} /\ req[p].at = "clear"
  /\ req' = [req EXCEPT ![p].at = "clearing",
                        ![p].found = {h.id : h \in {x \in hits : x.doc = req[p].doc.id}}]
  /\ UNCHANGED <<rows, day, begun, issued, history>>

\* ... and ends when nobody else holds what it found.
Cleared(p) ==
  /\ req[p].kind \in {"upload", "delete"} /\ req[p].at = "clearing"
  /\ \A q \in Requests \ {p} : Held(q) \cap req[p].found = {}
  /\ req' = [req EXCEPT ![p].at = "cleared", ![p].found = {},
                        ![p].erased = req[p].found \cap {h.id : h \in hits}]
  /\ UNCHANGED <<rows, day, begun, issued, history>>

Remaining(p) == {h \in hits : h.id \notin req[p].erased}

\* The concepts are extracted, then one commit.  A document deleted meanwhile
\* is missed only if one of its columns changes.
Store(p, answer) ==
  LET doc == [req[p].doc EXCEPT !.method = answer.method]
      there == \E d \in docs : d.id = doc.id
      found == Extracted(answer)
      new == {[id |-> <<issued, h>>, doc |-> doc.id, concept |-> h.concept, conf |-> h.conf,
               confirmed |-> FALSE, at |-> day] : h \in found}
  IN  /\ req[p].kind = "upload" /\ req[p].at \in {"new", "cleared"}
      /\ \/ /\ req[p].at = "new" \/ there
            /\ docs' = {d \in docs : d.id # doc.id} \cup {doc}
            /\ hits' = Remaining(p) \cup new
         \/ /\ req[p].at = "cleared" /\ ~there /\ doc = req[p].doc
            /\ hits' = Remaining(p) \cup new
            /\ UNCHANGED docs
         \/ /\ req[p].at = "cleared" /\ ~there /\ doc # req[p].doc
            /\ UNCHANGED <<docs, hits>>
      /\ issued' = issued + 1
      /\ req' = [req EXCEPT ![p] = Idle]
      /\ UNCHANGED <<att, day, begun, history>>

\* The document goes with the hits the request saw.
Remove(p) ==
  /\ req[p].kind = "delete" /\ req[p].at = "cleared"
  /\ hits' = Remaining(p)
  /\ docs' = {d \in docs : d.id # req[p].doc.id}
  /\ req' = [req EXCEPT ![p] = Idle]
  /\ UNCHANGED <<att, day, begun, issued, history>>

-----------------------------------------------------------------------------
(* A person confirms a hit, or signs a control off. *)

NoHit == [id |-> None, doc |-> None]

Vouching(kind, hit, to, todo, entry) ==
  [kind |-> kind, hit |-> hit, to |-> to, todo |-> todo, entry |-> entry,
   dirty |-> kind = "confirm" /\ hit.confirmed # to,
   filed |-> kind = "confirm" /\ \E d \in docs : d.id = hit.doc,
   first |-> TRUE, seen |-> None, at |-> "load"]

\* With auto_attest, a confirmation signs off every control of the concept.
Confirm(p, h, to, attest) ==
  /\ h \in hits
  /\ Begin(p, Vouching("confirm", h, to, IF to /\ attest THEN Maps[h.concept] ELSE <<>>,
                       [status |-> "compliant", owner |-> None, ref |-> <<h.doc>>]))
  /\ UNCHANGED <<rows, day, issued, history>>

Attest(p, c, status, owner) ==
  /\ Begin(p, Vouching("attest", NoHit, FALSE, <<c>>,
                       [status |-> status, owner |-> owner, ref |-> None]))
  /\ UNCHANGED <<rows, day, issued, history>>

At(p, at) == req[p].kind \in {"confirm", "attest"} /\ req[p].at = at

Known(p) == \E h \in hits : h.id = req[p].hit.id

\* After a commit the session reads its objects again when they are used.
Readable(p) ==
  \/ req[p].kind = "attest" \/ req[p].first
  \/ Known(p) /\ (req[p].filed => \E d \in docs : d.id = req[p].hit.doc)

Load(p) ==
  /\ At(p, "load") /\ req[p].todo # <<>> /\ Readable(p)
  /\ req' = [req EXCEPT ![p].at = "save", ![p].seen = att[Head(req[p].todo)]]
  /\ UNCHANGED <<rows, day, begun, issued, history>>

Refused(p) ==
  /\ At(p, "load") /\ req[p].todo # <<>> /\ ~Readable(p)
  /\ req' = [req EXCEPT ![p] = Idle]
  /\ UNCHANGED <<rows, day, begun, issued, history>>

\* The commit carries the hit's new state, unless the hit has gone.
Writable(p) ==
  req[p].dirty => Known(p) /\ \A q \in Requests : req[p].hit.id \notin Held(q)

Marked(p) ==
  IF req[p].dirty
  THEN {IF h.id = req[p].hit.id THEN [h EXCEPT !.confirmed = req[p].to] ELSE h : h \in hits}
  ELSE hits

Vouched(p, others) ==
  LET by == IF req[p].kind = "confirm" /\ req[p].to
            THEN {Maps[req[p].hit.concept][i] : i \in DOMAIN Maps[req[p].hit.concept]} ELSE {}
  IN  acted' = [c \in Controls |-> IF c \in by \cup others THEN day ELSE acted[c]]

\* AttestationService.upsert: a new row, or the columns that change.
Save(p) ==
  LET c == Head(req[p].todo)
      entry == req[p].entry
      seen == req[p].seen
      changed == {f \in DOMAIN entry : entry[f] # None /\ entry[f] # seen[f]}
      updated == [f \in DOMAIN entry \cup {"at"} |->
                    IF f = "at" THEN day ELSE IF f \in changed THEN entry[f] ELSE att[c][f]]
  IN  /\ At(p, "save") /\ Writable(p)
      /\ \/ /\ seen = None /\ att[c] = None
            /\ att' = [att EXCEPT ![c] = [status |-> entry.status, owner |-> entry.owner,
                                          ref |-> entry.ref, at |-> day]]
         \/ /\ seen # None /\ changed # {}
            /\ att' = [att EXCEPT ![c] = updated]
         \/ /\ seen # None /\ changed = {}
            /\ UNCHANGED att
      /\ hits' = Marked(p)
      /\ Vouched(p, {c})
      /\ signed' = IF req[p].kind = "attest" /\ entry.status = "compliant"
                   THEN [signed EXCEPT ![c] = day] ELSE signed
      /\ req' = [req EXCEPT ![p] =
                   IF Len(req[p].todo) = 1 THEN Idle
                   ELSE [req[p] EXCEPT !.todo = Tail(req[p].todo), !.dirty = FALSE,
                                       !.first = FALSE, !.at = "load"]]
      /\ UNCHANGED <<docs, day, begun, issued, crossed>>

\* Another request inserted the row first, or the hit has gone: a 500.
Fail(p) ==
  /\ At(p, "save")
  /\ \/ req[p].seen = None /\ att[Head(req[p].todo)] # None
     \/ req[p].dirty /\ ~Known(p)
  /\ req' = [req EXCEPT ![p] = Idle]
  /\ UNCHANGED <<rows, day, begun, issued, history>>

\* A confirmation that attests nothing.
Settle(p) ==
  /\ At(p, "load") /\ req[p].todo = <<>>
  /\ \/ Writable(p) /\ hits' = Marked(p) /\ Vouched(p, {})
     \/ req[p].dirty /\ ~Known(p) /\ UNCHANGED <<hits, acted>>
  /\ req' = [req EXCEPT ![p] = Idle]
  /\ UNCHANGED <<docs, att, day, begun, issued, signed, crossed>>

-----------------------------------------------------------------------------
\* A request dies, and the database rolls it back.
Kill(p) ==
  /\ req[p].kind # "idle"
  /\ req' = [req EXCEPT ![p] = Idle]
  /\ UNCHANGED <<rows, day, begun, issued, history>>

Pass ==
  /\ day < MaxDay
  /\ day' = day + 1
  /\ UNCHANGED <<rows, req, begun, issued, history>>

Next ==
  \/ \E p \in Requests :
       \/ \E content \in Contents : Upload(p, content)
       \/ \E d \in docs : Delete(p, d)
       \/ Clear(p) \/ Cleared(p) \/ Remove(p)
       \/ \E answer \in Answers : Store(p, answer)
       \/ \E h \in hits, to, attest \in BOOLEAN : Confirm(p, h, to, attest)
       \/ \E c \in Controls, status \in {"compliant", "non_compliant"}, owner \in Owners :
            Attest(p, c, status, owner)
       \/ Load(p) \/ Refused(p) \/ Save(p) \/ Fail(p) \/ Settle(p)
       \/ Kill(p)
  \/ Pass

Spec == Init /\ [][Next]_vars

-----------------------------------------------------------------------------
\* Whatever is said to be met, a person vouched for within the year: what was
\* extracted is not believed until confirmed, and neither it nor a sign-off
\* outlives its age (evidence_policy.py).
VouchedWithinTheYear ==
  \A c \in Controls : Satisfied(c) => acted[c] # None /\ Age(acted[c]) <= 365

\* Evidence is of a document on file, and of one reading of it, unless two
\* requests rewrote that document at a time.
OneReading ==
  \A h \in hits :
    \/ h.doc \in crossed
    \/ /\ \E d \in docs : d.id = h.doc
       /\ \A g \in hits : g.doc = h.doc /\ g.concept = h.concept => g = h

\* The resolver and the policy give one answer, save that the resolver does
\* not mind the age of a sign-off that nothing else backs.
OneAnswer ==
  \A c \in Controls :
    Resolve(c) = "compliant" <=>
      Satisfied(c) \/ (Bearing(c) = {} /\ att[c] # None /\ att[c].status = "compliant")

\* What counts as evidence stands: vouched for, on file, and told alike.
EvidenceStands == VouchedWithinTheYear /\ OneReading /\ OneAnswer

\* evidence_policy.py: a sign-off has to be renewed to keep standing; one
\* renewed within the year stands, as long as nobody withdraws it.
RenewalRenews ==
  \A c \in Controls :
    /\ signed[c] # None /\ Age(signed[c]) <= 365
    /\ att[c].status = "compliant"
    => Satisfied(c)
=============================================================================
