---------------------------- MODULE DamageDossier ----------------------------
(***************************************************************************)
(* The correspondence of a damage case with its insurer: the step of the   *)
(* insurer's pipeline, and the history of inspection notes, requests for a *)
(* reinspection and the documents that approve them.                       *)
(*                                                                         *)
(*   api/src/service-cases/service-cases.service.ts                        *)
(*     patchDamageClaim, sendDamageQuoteToInsurer,                         *)
(*     sendDamageAvizareToInsurer, requestDamageReinspection,              *)
(*     decideDamageReinspection                                            *)
(*                                                                         *)
(* Each endpoint reads the case, talks to the mail server for as long as   *)
(* that takes (three of them), and then writes the pipeline, and the whole *)
(* history as one JSON value, made from what it read.  A mail that fails   *)
(* is recorded like one that is sent.                                      *)
(*                                                                         *)
(* Abstractions: one damage case with the insurer as payer and an address  *)
(* for the mails.  The log of the mails, which nothing reads, is left out. *)
(* Of the pipeline's steps ready_to_notify and air are left out, as each   *)
(* is treated like the step after it.  RepairOrder has what the claim does *)
(* to the work order.                                                      *)
(***************************************************************************)
EXTENDS Integers, Sequences, FiniteSets

CONSTANTS
    KEEP,           \* entries of the history that are kept
    MaxEntries,     \* bound: entries ever made
    Steps,          \* steps of the pipeline that may be set by hand
    Calls           \* requests in flight


VARIABLES
    pipeline,   \* ServiceCase.damageInsurerPipelineStatus
    history,    \* damageInspectionNotesJson; the newest entry has the greatest id
    clock,      \* Date.now(): the entries made so far, and the id of the last
    call,       \* what each request in flight has read
    grounded    \* history: the pipeline rests on what is in the history

dossierVars == <<pipeline, history, clock, call, grounded>>

PIPELINE_ORDER == <<"docs_pending", "notified", "inspection_note",
                    "reinspection_requested", "quote_ready", "payment_accepted">>
\* "other": no step yet, or a step of the tenant's own, which PIPELINE_ORDER lacks.
Pipeline == {PIPELINE_ORDER[i] : i \in DOMAIN PIPELINE_ORDER} \cup {"other"}
Rank(p) == IF p = "other" THEN 0
           ELSE CHOOSE i \in DOMAIN PIPELINE_ORDER : PIPELINE_ORDER[i] = p

ASSUME DossierAssumption ==
    /\ KEEP \in Nat \ {0} /\ MaxEntries \in Nat
    /\ Steps \subseteq Pipeline /\ Steps # {}

EntryIds == 1..MaxEntries
Entry == [id : EntryIds, kind : {"inspection_note", "reinspection_request", "pvs"},
          sequence : 0..MaxEntries,
          status : {"none", "pending", "approved", "rejected"},
          requestId : 0..MaxEntries]
IdleCall == [pipeline |-> "idle", history |-> {}]

DossierTypeOK ==
    /\ pipeline \in Pipeline
    /\ history \subseteq Entry /\ Cardinality(history) =< KEEP
    /\ clock \in 0..MaxEntries
    /\ \A c \in Calls : \/ call[c] = IdleCall
                        \/ call[c].pipeline \in Pipeline /\ call[c].history \subseteq Entry
    /\ grounded \in BOOLEAN

DossierInit ==
    /\ pipeline = "other"
    /\ history = {}
    /\ clock = 0
    /\ call = [c \in Calls |-> IdleCall]
    /\ grounded = TRUE
-----------------------------------------------------------------------------
RequestsIn(h) == {e \in h : e.kind = "reinspection_request"}
PendingIn(h) == {e \in RequestsIn(h) : e.status = "pending"}
Pvs(h) == {e \in h : e.kind = "pvs"}

NewEntry(kind, sequence, status, requestId) ==
    [id |-> clock + 1, kind |-> kind, sequence |-> sequence, status |-> status,
     requestId |-> requestId]

\* [entry, ...history].slice(0, 50)
Prepended(h, e) == LET all == h \cup {e}
                   IN  {x \in all : Cardinality({y \in all : y.id >= x.id}) =< KEEP}

Writing(c) == call[c] # IdleCall
Fresh(c) == call[c].pipeline = pipeline /\ call[c].history = history

ReadCase(c) ==
    /\ ~Writing(c)
    /\ call' = [call EXCEPT ![c] = [pipeline |-> pipeline, history |-> history]]
    /\ UNCHANGED <<pipeline, history, clock, grounded>>

\* A check refuses the request, or the process ends while it talks to the mail server.
DropCall(c) ==
    /\ Writing(c)
    /\ call' = [call EXCEPT ![c] = IdleCall]
    /\ UNCHANGED <<pipeline, history, clock, grounded>>

\* The update: step p, and history h, in which new of whose entries are new.
Write(c, p, h, new) ==
    /\ Writing(c)
    /\ pipeline' = p /\ history' = h
    /\ clock + new =< MaxEntries /\ clock' = clock + new
    /\ call' = [call EXCEPT ![c] = IdleCall]
    /\ grounded' = (p # "reinspection_requested" \/ (grounded /\ Fresh(c)))

SendQuote(c) ==
    Write(c, IF call[c].pipeline = "payment_accepted" THEN "payment_accepted"
             ELSE "quote_ready", history, 0)

\* A step of the tenant's own counts as one before notified.
SendAvizare(c) ==
    Write(c, IF Rank(call[c].pipeline) < Rank("notified") THEN "notified"
             ELSE call[c].pipeline, history, 0)

RequestReinspection(c) ==
    LET s == call[c]
        request == NewEntry("reinspection_request", Cardinality(RequestsIn(s.history)) + 1,
                        "pending", 0)
    IN  /\ Writing(c) /\ clock < MaxEntries
        /\ pipeline' = IF s.pipeline = "payment_accepted" THEN s.pipeline
                       ELSE "reinspection_requested"
        /\ history' = Prepended(s.history, request)
        /\ clock' = clock + 1
        /\ call' = [call EXCEPT ![c] = IdleCall]
        /\ grounded' = TRUE

Decided(h, e, status) == (h \ {e}) \cup {[e EXCEPT !.status = status]}

\* An approval needs no step of the pipeline, and takes it back to inspection_note.
Decidable_Flaw(h) == RequestsIn(h)
Decidable(h) == PendingIn(h)

Approve(c) ==
    \E e \in Decidable(call[c].history) :
        LET h == call[c].history
            pvs == NewEntry("pvs", Cardinality(Pvs(h)) + 1, "none", e.id)
        IN  Write(c, "inspection_note", Prepended(Decided(h, e, "approved"), pvs), 1)

Reject(c) ==
    \E e \in Decidable(call[c].history) :
        LET h == Decided(call[c].history, e, "rejected")
            p == call[c].pipeline
        IN  Write(c, IF p = "reinspection_requested" /\ PendingIn(h) = {}
                     THEN "inspection_note" ELSE p, h, 0)

(***************************************************************************)
(* patchDamageClaim: a step of the pipeline, the insurer's quote, a note   *)
(* and the acceptance of payment, any of them.  A pvs is uploaded to an    *)
(* approved request that has none: ApprovedHasDocument says none lacks it. *)
(***************************************************************************)
Given == {"step", "quote", "note", "acceptance"}

\* "keep": the update does not write the pipeline.
PatchedPipeline(s, step, given) ==
    LET byHand == "step" \in given
        open == ~byHand /\ s.pipeline # "payment_accepted"
        afterQuote == IF byHand THEN step
                      ELSE IF open /\ "quote" \in given THEN "quote_ready" ELSE "keep"
        current == IF afterQuote = "keep" THEN s.pipeline ELSE afterQuote
        early == Rank(current) < Rank("inspection_note") \/ current = "reinspection_requested"
    IN  IF open /\ "acceptance" \in given THEN "payment_accepted"
        ELSE IF "note" \in given /\ early THEN "inspection_note" ELSE afterQuote

PatchDamageClaim(c, step, given) ==
    LET s == call[c]
        p == PatchedPipeline(s, step, given)
        noted == "note" \in given
    IN  /\ Writing(c)
        /\ pipeline' = IF p = "keep" THEN pipeline ELSE p
        /\ history' = IF noted THEN Prepended(s.history, NewEntry("inspection_note", 0, "none", 0))
                      ELSE history
        /\ noted => clock < MaxEntries
        /\ clock' = IF noted THEN clock + 1 ELSE clock
        /\ call' = [call EXCEPT ![c] = IdleCall]
        /\ grounded' = \/ pipeline' # "reinspection_requested"
                       \/ grounded /\ Fresh(c) /\ "step" \notin given

DossierNext ==
    \E c \in Calls :
        \/ ReadCase(c) \/ DropCall(c)
        \/ SendQuote(c) \/ SendAvizare(c)
        \/ RequestReinspection(c) \/ Approve(c) \/ Reject(c)
        \/ \E step \in Steps, given \in SUBSET Given :
             /\ PatchDamageClaim(c, step, given)

DossierSpec == DossierInit /\ [][DossierNext]_dossierVars
-----------------------------------------------------------------------------
(***************************************************************************)
(* Properties.                                                             *)
(***************************************************************************)
\* An approved request has exactly one document in the history, and no other request
\* has any: a document is newer than its request, so that it is never cut off first.
ApprovedHasDocument ==
    \A e \in RequestsIn(history) :
        Cardinality({d \in Pvs(history) : d.requestId = e.id})
            = (IF e.status = "approved" THEN 1 ELSE 0)

\* The requests in the history are numbered from 1 on, in their order, whatever
\* requests have overlapped and overwritten each other: until the first of them is cut
\* off, from when on numbers repeat.
RequestsNumbered ==
    LET requests == RequestsIn(history)
        place(e) == Cardinality({f \in requests : f.id =< e.id})
    IN  (\E e \in requests : place(e) = 1 /\ e.sequence = 1)
            => \A e \in requests : e.sequence = place(e)

\* The pipeline waits for the insurer's reinspection only as long as a request is
\* pending: but for a step that was set by hand, or written by an endpoint that had
\* read the case before it changed.
WaitsForPending ==
    grounded /\ pipeline = "reinspection_requested" => PendingIn(history) # {}

\* The history of a damage case agrees with itself and with its pipeline.
DossierAgrees == ApprovedHasDocument /\ RequestsNumbered /\ WaitsForPending
=============================================================================
