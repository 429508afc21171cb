---------------------------- MODULE RepairOrder -----------------------------
(***************************************************************************)
(* One repair: the service case (dosar), its work order, the quotes        *)
(* (devize) of the order, the costs made of them, the replacement car and  *)
(* the damage claim that gates it all.                                     *)
(*                                                                         *)
(*   api/src/work-orders/work-order-quotes.service.ts   quotes             *)
(*   api/src/work-orders/work-orders.service.ts         the order          *)
(*   api/src/work-orders/damage-repair-gates.ts         the repair gate    *)
(*   api/src/service-cases/service-cases.service.ts     case and claim     *)
(*   api/src/mobility/mobility.service.ts               replacement car    *)
(*                                                                         *)
(* Every endpoint reads the rows it needs outside a transaction, validates *)
(* what it read, and then writes without checking again.  An endpoint is   *)
(* therefore one action over the databases it has read and tests, and db,  *)
(* which it writes, column by column: over s, when one query returns all   *)
(* it tests (a quote with its lines, order and case; the rows of an order) *)
(* and over s and then t, when it takes two.  Each is db itself for a      *)
(* request that nothing overlapped, or one of the states in past, the      *)
(* last MaxPast states that other requests have replaced since.  overlaps  *)
(* counts the requests that have written on the strength of such a state;  *)
(* what the code promises only to requests that do not overlap is stated   *)
(* for overlaps = 0.  The synchronisation of a damage claim commits each   *)
(* of its statements, and is a chain of actions.                           *)
(*                                                                         *)
(* Abstractions: the case comes from a ticket and has one work order; an   *)
(* amount is the set of the lines it adds up; a date is set or not; access *)
(* rules, approval limits, kilometres, photos and inputs that are merely   *)
(* invalid only refuse a request and are left out; a quote version deleted *)
(* and made anew counts as the same row; visits from the third on, the     *)
(* warranty and the odometer of recordServiceTimes are left out.           *)
(*                                                                         *)
(* A definition Name_Flaw is Name with a programming mistake in it; Next   *)
(* uses none of them.  PROJECT.json names the property each would break.   *)
(***************************************************************************)
EXTENDS Integers, Sequences, FiniteSets

CONSTANTS
    Lines,       \* ids of quote lines
    CostIds,     \* CostEntry ids
    MaxVersion,  \* bound: quote versions of the order
    MaxPast,     \* bound: commits between the read and the write of a request
    MaxOverlaps, \* bound: requests that write on an older state
    Syncs,       \* bound: synchronisations of the damage claim under way at once
    Scenes,      \* workflow and endpoints each behaviour may be about
    Ref,         \* the line of no value that stands for the insurer's quote
    NoCost       \* costEntryId = null

Versions == 1 .. MaxVersion
Value(lines) == lines \ {Ref}

StageOrder == <<"intake", "scheduled", "work_order", "in_service", "out_service",
                "quote", "approval", "invoiced", "cost", "closed">>
Stages == {StageOrder[i] : i \in DOMAIN StageOrder}
Rank(stage) == CHOOSE i \in DOMAIN StageOrder : StageOrder[i] = stage

OrderStatuses == {"sent", "in_progress", "waiting_parts", "done", "cancelled"}
QuoteStatuses == {"absent", "draft", "submitted", "approved", "rejected"}
Paths == {"none", "immediate", "reschedule"}
Pipeline == {"earlier", "quote_ready", "payment_accepted"}
CarStatuses == {"none", "reserved", "active", "returned", "waived"}

Endpoints == {"createDraft", "updateDraft", "deleteDraft", "submit", "resubmit",
              "moveLucrareIndex", "approve", "reject", "parts", "recordInvoice",
              "postCost", "deleteCost", "patch", "markReady", "startSupplement",
              "serviceTimes", "complete", "advance", "postApproval", "claim",
              "photos", "mobility"}

Scene == [workflow : {"service", "damage"}, payer : {"insurer", "client"},
          received : BOOLEAN, ops : SUBSET Endpoints]

ASSUME ConstantsAssumption ==
    /\ MaxVersion \in Nat \ {0} /\ MaxPast \in Nat /\ MaxOverlaps \in Nat
    /\ Ref \in Lines
    /\ NoCost \notin CostIds
    /\ Scenes \subseteq Scene

VARIABLES
    scene,   \* the scene of this behaviour, never changed
    db,      \* the rows, as the last transaction left them
    past,    \* the states before it, newest first
    syncs,   \* how far each syncWorkOrdersFromDamageClaim has come
    overlaps, \* history: how many requests have written on an older state
    agreed,  \* history: a quote has been approved or the insurer has accepted
    cleared, \* history: a request could have found the repair gate open
    cut      \* history: versions approved by a synchronisation that ended before their lines

rows == <<scene, db, past, overlaps, agreed, cleared>>
vars == <<rows, syncs, cut>>

Quote == [status : QuoteStatuses, lines : SUBSET Lines,
          approvedLines : SUBSET Lines,    \* approvalStatus = approved
          approved : SUBSET Lines,         \* approvedNetCents and approvedVatCents
          lucrareIndex : {1, 2}, invoiced : BOOLEAN, cost : CostIds \cup {NoCost}]
NoQuote == [status |-> "absent", lines |-> {}, approvedLines |-> {}, approved |-> {},
            lucrareIndex |-> 1, invoiced |-> FALSE, cost |-> NoCost]

CostEntry == [id : CostIds, quote : Versions, amount : SUBSET Lines]

Database ==
    [\* ServiceCase and its ticket
     stage : Stages, completed : BOOLEAN, awaiting : BOOLEAN, path : Paths,
     pipeline : Pipeline, agreedAt : BOOLEAN, repaired : BOOLEAN,
     linked : BOOLEAN, resolved : BOOLEAN,
     \* MaintenanceWorkOrder
     status : OrderStatuses, est : {"none", "short", "long"},
     in1 : BOOLEAN, out1 : BOOLEAN, in2 : BOOLEAN, out2 : BOOLEAN,
     ready : BOOLEAN, ready1 : BOOLEAN, supplement : BOOLEAN,
     supplementVersion : 0 .. MaxVersion,
     \* WorkOrderQuote, CostEntry, MobilityAssignment
     quotes : [Versions -> Quote], costs : SUBSET CostEntry, car : CarStatuses]

\* A synchronisation: its next statement, what its copy of the claim says, the quote
\* it decides; repaired turns FALSE when it has read an order that is ready.
Sync == [step : {"idle", "due", "lines", "case", "ready"}, quoted : BOOLEAN,
         accepted : BOOLEAN, repaired : BOOLEAN, version : Versions]
NoSync == [step |-> "idle", quoted |-> FALSE, accepted |-> FALSE, repaired |-> FALSE,
           version |-> 1]

TypeOK ==
    /\ scene \in Scenes
    /\ db \in Database
    /\ past \in Seq(Database) /\ Len(past) <= MaxPast
    /\ syncs \in [Syncs -> Sync]
    /\ overlaps \in Nat
    /\ agreed \in BOOLEAN /\ cleared \in BOOLEAN
    /\ cut \subseteq Versions

isDamage == scene.workflow = "damage"

\* assertDamageReadyForRepair: the claim is of the case the endpoint has read, the
\* replacement car is looked for afterwards.
InsurerReady(s) == s.pipeline = "payment_accepted" \/ s.agreedAt
GateOpen(s, t) ==
    isDamage =>
        /\ IF scene.payer = "client" THEN s.agreedAt ELSE InsurerReady(s)
        /\ t.car \in {"reserved", "active", "returned"}

\* A work order just opened, or one whose vehicle has been received.
Opened ==
    [stage |-> "work_order", completed |-> FALSE, awaiting |-> FALSE, path |-> "none",
     pipeline |-> "earlier", agreedAt |-> FALSE, repaired |-> FALSE,
     linked |-> FALSE, resolved |-> FALSE,
     status |-> "sent", est |-> "none",
     in1 |-> FALSE, out1 |-> FALSE, in2 |-> FALSE, out2 |-> FALSE,
     ready |-> FALSE, ready1 |-> FALSE, supplement |-> FALSE, supplementVersion |-> 0,
     quotes |-> [v \in Versions |-> NoQuote], costs |-> {}, car |-> "none"]
Received(workflow) ==
    [Opened EXCEPT !.stage = "in_service", !.in1 = TRUE, !.est = "long",
                   !.status = IF workflow = "damage" THEN "sent" ELSE "in_progress"]

Init ==
    /\ scene \in Scenes
    /\ db = IF scene.received THEN Received(scene.workflow) ELSE Opened
    /\ past = <<>>
    /\ syncs = [k \in Syncs |-> NoSync]
    /\ overlaps = 0 /\ agreed = FALSE /\ cleared = GateOpen(db, db) /\ cut = {}
-----------------------------------------------------------------------------
(***************************************************************************)
(* Reading and writing.                                                    *)
(***************************************************************************)
With(s, status) == {v \in Versions : s.quotes[v].status = status}
Exists(s, v) == s.quotes[v].status # "absent"
Newest(s, vs) == CHOOSE v \in vs : \A w \in vs : w <= v
NextVersion(s) == IF \E v \in Versions : Exists(s, v)
                  THEN Newest(s, {v \in Versions : Exists(s, v)}) + 1 ELSE 1

\* ensureCaseStageAtLeast reads the case inside the transaction.
AtLeast(d, stage) ==
    [d EXCEPT !.stage = IF Rank(stage) > Rank(@) THEN stage ELSE @]

Allowed(op) == op \in scene.ops

\* The states a request may be acting on, and those that it may read after s.
Snapshots == {db} \cup {past[i] : i \in DOMAIN past}
Later(s) == {db} \cup {past[j] : j \in {j \in DOMAIN past :
                                         \E i \in DOMAIN past : i >= j /\ past[i] = s}}
Older(s, t) == IF t = db THEN s ELSE t

\* A request writes that read s: it counts if another has written since.
Count(s) ==
    /\ s # db => overlaps < MaxOverlaps
    /\ overlaps' = IF s = db THEN overlaps ELSE overlaps + 1

\* It leaves the database as new.
Commit(s, new) ==
    /\ new # db
    /\ db' = new
    /\ Count(s)
    /\ past' = IF overlaps' = MaxOverlaps THEN <<>>  \* nobody will act on them
               ELSE SubSeq(<<db>> \o past, 1, IF Len(past) < MaxPast THEN Len(past) + 1
                                              ELSE MaxPast)
    /\ agreed' = (agreed \/ With(new, "approved") # {} \/ InsurerReady(new))
    /\ cleared' = (cleared \/ \E r \in Snapshots' : GateOpen(r, new))
    /\ UNCHANGED <<scene, cut>>

\* A request that changes a quote it has read: the row must still be there.
ChangeQuote(s, v, d, quote) ==
    /\ Exists(db, v)
    /\ Commit(s, [d EXCEPT !.quotes[v] = quote])
    /\ UNCHANGED syncs
-----------------------------------------------------------------------------
(***************************************************************************)
(* Quotes: work-order-quotes.service.ts.                                   *)
(***************************************************************************)
DraftOf_Flaw(s, lines) ==
    [NoQuote EXCEPT !.status = "draft", !.lines = lines,
                    !.lucrareIndex = IF s.supplement THEN 2 ELSE 0]
DraftOf(s, lines) ==
    [NoQuote EXCEPT !.status = "draft", !.lines = lines,
                    !.lucrareIndex = IF s.supplement THEN 2 ELSE 1]

\* The insert fails when the version is taken: @@unique([workOrderId, version]).
\* The order and the drafts are read first, the greatest version later, so that two
\* requests may insert a draft each, with versions of their own.
CreateDraft(s, t, lines) ==
    /\ Allowed("createDraft")
    /\ With(s, "draft") = {}
    /\ NextVersion(t) \in Versions
    /\ ~Exists(db, NextVersion(t))
    /\ Commit(Older(s, t),
              AtLeast([db EXCEPT !.quotes[NextVersion(t)] = DraftOf(s, lines)], "quote"))
    /\ UNCHANGED syncs

\* importApply: into the draft there is, or else into a new one.
UpdateDraft(s, v, lines) ==
    /\ Allowed("updateDraft")
    /\ s.quotes[v].status = "draft"
    /\ ChangeQuote(s, v, db, [db.quotes[v] EXCEPT !.lines = lines, !.approvedLines = {}])

DeleteDraft(s, v) ==
    /\ Allowed("deleteDraft")
    /\ s.quotes[v].status = "draft"
    /\ s.quotes[v].cost = NoCost /\ ~s.quotes[v].invoiced
    /\ ChangeQuote(s, v, db, NoQuote)

Submit(s, v) ==
    /\ Allowed("submit")
    /\ s.quotes[v].status = "draft"
    /\ s.quotes[v].lines # {}
    /\ s.est # "none"
    /\ ChangeQuote(s, v, AtLeast(db, "approval"),
                   [db.quotes[v] EXCEPT !.status = "submitted"])

\* Decisions on the lines are taken back; the repair gets a new estimate.
AskAgain(s, v, est) ==
    /\ Allowed("resubmit")
    /\ s.quotes[v].lines # {}
    /\ ChangeQuote(s, v, AtLeast([db EXCEPT !.est = est], "approval"),
                   [db.quotes[v] EXCEPT !.approvedLines = {}])

Resubmit_Flaw(s, v, est) ==
    /\ s.quotes[v].status \in {"submitted", "approved"}
    /\ AskAgain(s, v, est)
Resubmit(s, v, est) ==
    /\ s.quotes[v].status = "submitted"
    /\ AskAgain(s, v, est)

MoveLucrareIndex(s, v, index) ==
    /\ Allowed("moveLucrareIndex")
    /\ Exists(s, v)
    /\ index = 2 => s.supplement \/ s.ready1
    /\ s.quotes[v].lucrareIndex # index
    /\ ChangeQuote(s, v, db, [db.quotes[v] EXCEPT !.lucrareIndex = index])

(***************************************************************************)
(* approve: what it does to the case and to the order depends on the order *)
(* it has read.  The second job (Lucrare #2) is opened by the approval of  *)
(* a later version while the vehicle is in service and the job is ready.   *)
(***************************************************************************)
OutUnreturned(s) == s.out1 /\ ~s.in2
OpensSecondJob(s, v) == v >= 2 /\ s.ready /\ s.in1 /\ ~OutUnreturned(s)
JoinsSecondJob(s) == s.supplement /\ ~s.ready

OpenSecondJob_Flaw(d, v) ==
    [d EXCEPT !.ready = FALSE, !.status = "in_progress",
              !.supplement = TRUE, !.supplementVersion = v]
OpenSecondJob(d, v) ==
    [d EXCEPT !.ready1 = TRUE, !.ready = FALSE, !.status = "in_progress",
              !.supplement = TRUE, !.supplementVersion = v]

ApprovedOrder(s, v) ==
    LET d == [db EXCEPT !.awaiting = (s.path = "none" \/ OutUnreturned(s)),
                        !.stage = "approval"]
    IN  IF OpensSecondJob(s, v) THEN OpenSecondJob(d, v)
        ELSE IF JoinsSecondJob(s) /\ v >= s.supplementVersion
             THEN [d EXCEPT !.supplementVersion = v]
             ELSE d

Approve(s, v, lines) ==
    /\ Allowed("approve")
    /\ s.quotes[v].status = "submitted"
    /\ lines # {} /\ lines \subseteq s.quotes[v].lines
    /\ lines \subseteq db.quotes[v].lines  \* each is updated by its id
    /\ ChangeQuote(s, v, ApprovedOrder(s, v),
                   [db.quotes[v] EXCEPT
                       !.status = "approved", !.approvedLines = lines,
                       !.approved = Value(lines),
                       !.lucrareIndex = IF OpensSecondJob(s, v) \/ JoinsSecondJob(s)
                                        THEN 2 ELSE @])

Reject(s, v) ==
    /\ Allowed("reject")
    /\ s.quotes[v].status = "submitted"
    /\ ChangeQuote(s, v, db, [db.quotes[v] EXCEPT !.status = "rejected"])

\* patchLineParts with status ordered, and launchPartsOrders.
OrderParts(s, v) ==
    /\ Allowed("parts")
    /\ s.quotes[v].lines # {}
    /\ s.status \notin {"done", "cancelled"}
    /\ Exists(db, v)
    /\ Commit(s, [db EXCEPT !.status = "waiting_parts"])
    /\ UNCHANGED syncs

RecordInvoice(s, v) ==
    /\ Allowed("recordInvoice")
    /\ s.quotes[v].status = "approved"
    /\ ~s.quotes[v].invoiced
    /\ ChangeQuote(s, v, AtLeast(db, "invoiced"), [db.quotes[v] EXCEPT !.invoiced = TRUE])

AddCost(s, v, c) ==
    /\ Allowed("postCost")
    /\ s.quotes[v].status = "approved"
    /\ s.quotes[v].invoiced
    /\ ~\E e \in db.costs : e.id = c
    /\ ChangeQuote(s, v,
                   AtLeast([db EXCEPT !.costs = @ \cup {[id |-> c, quote |-> v,
                                              amount |-> s.quotes[v].approved]},
                                      !.linked = TRUE], "cost"),
                   [db.quotes[v] EXCEPT !.cost = c])

PostCost_Flaw(s, v, c) == AddCost(s, v, c)
PostCost(s, v, c) ==
    /\ s.quotes[v].cost = NoCost
    /\ AddCost(s, v, c)

\* CostsService.delete; the reference of the quote is set to null, the link of
\* the ticket stays.
DeleteCost(s, e) ==
    /\ Allowed("deleteCost")
    /\ e \in s.costs /\ e \in db.costs
    /\ Commit(s, [db EXCEPT !.costs = @ \ {e},
                            !.quotes = [v \in Versions |->
                                IF @[v].cost = e.id THEN [@[v] EXCEPT !.cost = NoCost]
                                                    ELSE @[v]]])
    /\ UNCHANGED syncs
-----------------------------------------------------------------------------
(***************************************************************************)
(* The work order: work-orders.service.ts.                                 *)
(***************************************************************************)
Write(s, new) == Commit(s, new) /\ UNCHANGED syncs

QuoteLocked(s) == With(s, "submitted") \cup With(s, "approved") # {}

\* patch: an estimate, frozen once a quote is submitted; or any status.
PatchEstimate(s, t, est) ==
    /\ Allowed("patch")
    /\ QuoteLocked(t) => s.est = "none"
    /\ Write(Older(s, t), [db EXCEPT !.est = est])

PatchStatus(s, t, status) ==
    /\ Allowed("patch")
    /\ status = "in_progress" /\ s.status # "in_progress" => GateOpen(s, t)
    /\ Write(Older(s, t), [db EXCEPT !.status = status])

MarkReady(s) ==
    /\ Allowed("markReady")
    /\ ~s.ready
    /\ With(s, "approved") # {} \/ (isDamage /\ InsurerReady(s))
    /\ Write(s, [db EXCEPT !.ready = TRUE])

StartSupplement(s) ==
    /\ Allowed("startSupplement")
    /\ s.in1
    /\ ~OutUnreturned(s)
    /\ s.ready
    /\ ~(s.supplement \/ s.ready1)
    /\ Write(s, [db EXCEPT !.ready1 = TRUE, !.ready = FALSE, !.status = "in_progress",
                           !.supplement = TRUE, !.supplementVersion = 0])

(***************************************************************************)
(* recordServiceTimes: reception and departure, each kept, set or cleared. *)
(* They are those of the second visit once the repair is rescheduled and   *)
(* the vehicle has left.  The reception for a repair waits for the gate;   *)
(* the first reception of a damaged vehicle does not start the repair.     *)
(***************************************************************************)
SecondVisit(s) == s.path = "reschedule" /\ s.out1

Stamp(old, change) == IF change = "keep" THEN old ELSE change = "set"

ServiceTimes(s, t, in, out) ==
    LET second == SecondVisit(s)
        starts == in = "set" /\ (second \/ ~isDamage)
                             /\ s.status \in {"sent", "waiting_parts"}
        d1 == IF second
              THEN [db EXCEPT !.in2 = Stamp(@, in), !.out2 = Stamp(@, out)]
              ELSE [db EXCEPT !.in1 = Stamp(@, in), !.out1 = Stamp(@, out)]
        d2 == IF starts THEN [d1 EXCEPT !.status = "in_progress"] ELSE d1
        d3 == IF in = "set" THEN AtLeast(d2, "in_service") ELSE d2
        d4 == IF out = "set" THEN AtLeast(d3, "out_service") ELSE d3
    IN  /\ Allowed("serviceTimes")
        /\ second /\ in = "set" /\ ~s.in2 => GateOpen(s, t)
        /\ Write(Older(s, t), d4)

OutDone(s) == s.out1 \/ (s.path = "reschedule" /\ s.out2)

\* complete, by the partner: the order only.
CompleteByPartner(s) ==
    /\ Allowed("complete")
    /\ s.status \notin {"done", "cancelled"}
    /\ OutDone(s)
    /\ Write(s, [db EXCEPT !.status = "done"])

\* complete, by the fleet: order, case and ticket, when the repair has left
\* some record: the cost of the newest approved quote or, looked for later, a link
\* of the ticket.
Settled(s, t) ==
    \/ t.linked
    \/ /\ With(s, "approved") # {}
       /\ s.quotes[Newest(s, With(s, "approved"))].cost # NoCost

CaseClosed(s) == s.completed \/ s.stage = "closed"

\* The case is closed with the order, or alone when the order was closed before.
CloseCase_Flaw(s) ==
    IF CaseClosed(s) \/ s.status = "done" THEN db
    ELSE [db EXCEPT !.stage = "closed", !.completed = TRUE]
CloseCase(s) ==
    IF CaseClosed(s) THEN db ELSE [db EXCEPT !.stage = "closed", !.completed = TRUE]

Complete(s, t) ==
    /\ Allowed("complete")
    /\ Settled(s, t)
    /\ s.status # "cancelled"
    /\ ~(s.status = "done" /\ CaseClosed(s))
    /\ s.status # "done" => OutDone(s)
    /\ Write(Older(s, t),
             [CloseCase(s) EXCEPT !.status = IF s.status = "done" THEN @ ELSE "done",
                                  !.resolved = TRUE])

\* CrmTicketsService.transform: the repair is recorded as a maintenance entry,
\* a cost or a document, and the ticket linked to it.
Transform(s) ==
    /\ Allowed("complete")
    /\ Write(s, [db EXCEPT !.linked = TRUE])
-----------------------------------------------------------------------------
(***************************************************************************)
(* The case and the damage claim: service-cases.service.ts.                *)
(***************************************************************************)
Advance(s, stage) ==
    /\ Allowed("advance")
    /\ ~s.completed
    /\ Rank(stage) >= Rank(s.stage)
    /\ Write(s, [db EXCEPT !.stage = stage,
                           !.completed = IF stage = "closed" THEN TRUE ELSE @])

TakePath(s, t, path) ==
    LET d == [db EXCEPT !.awaiting = FALSE, !.path = path,
                        !.stage = IF path = "immediate" THEN "work_order" ELSE "scheduled"]
        starts == path = "immediate" /\ db.status \in {"sent", "waiting_parts"}
    IN  /\ Allowed("postApproval")
        /\ s.awaiting
        /\ Write(Older(s, t), IF starts THEN [d EXCEPT !.status = "in_progress"] ELSE d)

ApplyPostApproval_Flaw(s, t, path) == TakePath(s, t, path)
ApplyPostApproval(s, t, path) ==
    /\ path = "immediate" => GateOpen(s, t)
    /\ TakePath(s, t, path)

(***************************************************************************)
(* patchDamageClaim: the step of the pipeline (the last one records the    *)
(* insurer's agreement), the insurer's quote, the acceptance of payment    *)
(* (which does not), the agreement itself, a photo of the repaired car.    *)
(***************************************************************************)
Claimed(s) ==
    {[db EXCEPT !.pipeline = p,
                !.agreedAt = (@ \/ (p = "payment_accepted" /\ scene.payer = "insurer"))] :
        p \in Pipeline}
    \cup {[db EXCEPT !.pipeline = IF s.pipeline = "payment_accepted" THEN @
                                  ELSE "quote_ready"],
          [db EXCEPT !.pipeline = "payment_accepted"],
          [db EXCEPT !.agreedAt = TRUE],
          db}  \* a field the order does not depend on
    \cup {d \in {[db EXCEPT !.repaired = TRUE]} : Allowed("photos")}

Quoted(d) == d.pipeline # "earlier" \/ InsurerReady(d)

\* The order is synchronised after the commit, from a copy of the claim it wrote, if
\* there is anything in it for the order.
Due(d) ==
    IF Quoted(d) \/ d.repaired
    THEN [NoSync EXCEPT !.step = "due", !.quoted = Quoted(d),
                        !.accepted = InsurerReady(d), !.repaired = d.repaired]
    ELSE NoSync

\* A write that may find everything as it is.
Rewrite(s, new) ==
    \/ Commit(s, new)
    \/ /\ new = db /\ Count(s)
       /\ past' = IF overlaps' = MaxOverlaps THEN <<>> ELSE past
       /\ UNCHANGED <<scene, db, agreed, cleared, cut>>

PatchDamageClaim(s) ==
    /\ Allowed("claim") /\ isDamage
    /\ \E k \in Syncs, d \in Claimed(s) :
          /\ syncs[k].step = "idle"
          /\ Rewrite(s, d)
          /\ syncs' = [syncs EXCEPT ![k] = Due(d)]

(***************************************************************************)
(* syncWorkOrdersFromDamageClaim reads the order and its quotes, s, and    *)
(* makes the newest quote follow the claim, then its lines, then the case  *)
(* and the order, each in a statement of its own.                          *)
(***************************************************************************)
Proceed(k, step) == syncs' = [syncs EXCEPT ![k] = step]

\* What follows the quote: the insurer's acceptance alone is carried on.
AfterQuote_Flaw(c, s, v, step) ==
    [c EXCEPT !.step = step, !.version = v, !.repaired = @ /\ ~s.ready]
AfterQuote(c, s, v, step) ==
    IF c.accepted
    THEN [c EXCEPT !.step = step, !.version = v, !.repaired = @ /\ ~s.ready]
    ELSE NoSync

Decision(c) == IF c.accepted THEN "approved" ELSE "submitted"

\* An order without a quote gets the insurer's.
SyncCreates(k, s) ==
    LET c == syncs[k]
    IN  /\ c.step = "due" /\ c.quoted
        /\ NextVersion(s) = 1
        /\ ~Exists(db, 1)
        /\ Commit(s, [db EXCEPT !.quotes[1] =
                         [NoQuote EXCEPT !.status = Decision(c), !.lines = {Ref},
                              !.approvedLines = IF c.accepted THEN {Ref} ELSE {}]])
        /\ Proceed(k, AfterQuote(c, s, 1, "case"))

\* The newest quote is decided when it is a draft, or submitted and now accepted.
Decidable(c, q) == q.status = "draft" \/ (q.status = "submitted" /\ c.accepted)

\* Its lines are still to be approved, if it had any.
LinesNext_Flaw(q) == IF q.status = "submitted" /\ q.lines # {} THEN "lines" ELSE "case"
LinesNext(q) == IF q.lines # {} THEN "lines" ELSE "case"

SyncDecides(k, s) ==
    LET c == syncs[k]
        v == NextVersion(s) - 1
        q == s.quotes[v]
    IN  /\ c.step = "due" /\ c.quoted
        /\ v # 0 /\ Decidable(c, q)
        /\ Exists(db, v)
        /\ Rewrite(s, [db EXCEPT !.quotes[v] =
                [@ EXCEPT !.status = Decision(c),
                          !.approved = IF c.accepted THEN Value(q.lines) ELSE q.approved]])
        /\ Proceed(k, AfterQuote(c, s, v, LinesNext(q)))

\* There is nothing to decide: the quote was, or the claim has no quote yet.
SyncPasses(k, s) ==
    LET c == syncs[k]
        v == NextVersion(s) - 1
    IN  /\ c.step = "due"
        /\ c.quoted => v # 0 /\ ~Decidable(c, s.quotes[v])
        /\ Proceed(k, AfterQuote(c, s, IF v = 0 THEN 1 ELSE v, "case"))
        /\ UNCHANGED <<rows, cut>>

\* All the lines the quote has by now.
SyncLines(k) ==
    LET v == syncs[k].version
    IN  /\ syncs[k].step = "lines"
        /\ Rewrite(db, [db EXCEPT !.quotes[v] = [@ EXCEPT !.approvedLines = db.quotes[v].lines]])
        /\ Proceed(k, [syncs[k] EXCEPT !.step = "case"])

\* The case waits for the decision on the repair, ...
SyncCase(k) ==
    /\ syncs[k].step = "case"
    /\ Rewrite(db, [db EXCEPT !.awaiting = TRUE, !.stage = "approval"])
    /\ Proceed(k, IF syncs[k].repaired THEN [syncs[k] EXCEPT !.step = "ready"] ELSE NoSync)

\* ... and the repair is ready when the claim has a photo of it.
SyncReady(k) ==
    /\ syncs[k].step = "ready"
    /\ Rewrite(db, [db EXCEPT !.ready = TRUE])
    /\ Proceed(k, NoSync)

\* The process ends, or a statement fails, before the next one.
LoseSync(k) ==
    /\ syncs[k].step # "idle"
    /\ Proceed(k, NoSync)
    /\ cut' = IF syncs[k].step = "lines" THEN cut \cup {syncs[k].version} ELSE cut
    /\ UNCHANGED rows
-----------------------------------------------------------------------------
(***************************************************************************)
(* The replacement car: mobility.service.ts.  More than 72 hours in        *)
(* service, by the estimate or by what has passed, make the order          *)
(* eligible; giving the benefit up needs no eligibility, and PATCH writes  *)
(* any status.                                                             *)
(***************************************************************************)
Eligible(s) == s.in1 /\ (s.out1 \/ s.est # "short")

CreateMobility(s, t, status) ==
    /\ Allowed("mobility")
    /\ status # "waived" => Eligible(s)
    /\ t.car \notin {"reserved", "active"}
    /\ Write(Older(s, t), [db EXCEPT !.car = status])

PatchMobility(s, status) ==
    /\ Allowed("mobility")
    /\ s.car # "none"
    /\ Write(s, [db EXCEPT !.car = status])
-----------------------------------------------------------------------------
QuoteStep(s, v) ==
    \/ DeleteDraft(s, v) \/ Submit(s, v) \/ Reject(s, v) \/ OrderParts(s, v)
    \/ RecordInvoice(s, v)
    \/ \E est \in {"short", "long"} : Resubmit(s, v, est)
    \/ \E index \in {1, 2} : MoveLucrareIndex(s, v, index)
    \/ \E lines \in SUBSET Lines : Approve(s, v, lines)
    \/ \E lines \in SUBSET (Lines \ {Ref}) : UpdateDraft(s, v, lines)
    \/ \E c \in CostIds : PostCost(s, v, c)

OrderStep(s) ==
    \/ MarkReady(s) \/ StartSupplement(s) \/ CompleteByPartner(s) \/ Transform(s)
    \/ \E status \in CarStatuses \ {"none"} : PatchMobility(s, status)
    \/ \E stage \in Stages : Advance(s, stage)
    \/ PatchDamageClaim(s)

\* Requests that read twice.
TwoReadStep(s, t) ==
    \/ \E lines \in SUBSET (Lines \ {Ref}) : CreateDraft(s, t, lines)
    \/ Complete(s, t)
    \/ \E est \in {"short", "long"} : PatchEstimate(s, t, est)
    \/ \E status \in OrderStatuses : PatchStatus(s, t, status)
    \/ \E in, out \in {"keep", "set", "clear"} : ServiceTimes(s, t, in, out)
    \/ \E path \in {"immediate", "reschedule"} : ApplyPostApproval(s, t, path)
    \/ \E status \in {"reserved", "active", "waived"} : CreateMobility(s, t, status)

SyncStep(k) ==
    \/ \E s \in Snapshots : SyncCreates(k, s) \/ SyncDecides(k, s) \/ SyncPasses(k, s)
    \/ SyncLines(k) \/ SyncCase(k) \/ SyncReady(k) \/ LoseSync(k)

Next ==
    \/ \E s \in Snapshots :
          \/ \E e \in s.costs : DeleteCost(s, e)
          \/ \E v \in Versions : QuoteStep(s, v)
          \/ OrderStep(s)
          \/ \E t \in Later(s) : TwoReadStep(s, t)
    \/ \E k \in Syncs : SyncStep(k)

Spec == Init /\ [][Next]_vars
-----------------------------------------------------------------------------
(***************************************************************************)
(* What must hold.                                                         *)
(***************************************************************************)

\* The statements that approve a quote and those that approve its lines belong
\* together: lines are owed between the two.
Owed(v) == \E k \in Syncs : syncs[k].step = "lines" /\ syncs[k].version = v

\* What an approved quote grants is the amount of its approved lines, whoever approved
\* it, a manager line by line or the synchronisation of the claim in two statements,
\* unless the second is still to come or was lost.
ApprovalIsWhole ==
    overlaps = 0 => \A v \in Versions \ cut :
        LET q == db.quotes[v]
        IN  q.status = "approved" => Owed(v) \/ q.approved = Value(q.approvedLines)

\* A cost entry made of a quote is the only one of that quote, and it is for
\* the amount that was approved, however often the quote was edited,
\* resubmitted or decided on the way.
CostIsApproved ==
    overlaps = 0 => \A e \in db.costs :
        LET q == db.quotes[e.quote]
        IN  /\ q.status = "approved" /\ q.invoiced
            /\ q.cost = e.id
            /\ e.amount = q.approved

\* A decision is final: nothing a later request, the claim included, does
\* changes what an approved quote says, or revives a rejected one.  Only the
\* synchronisation that approved it may complete it, by approving its lines.
DecisionsAreFinal ==
    [][overlaps' = 0 => \A v \in Versions :
           /\ db.quotes[v].status = "approved" =>
                 /\ db'.quotes[v].status = "approved"
                 /\ db'.quotes[v].lines = db.quotes[v].lines
                 /\ db'.quotes[v].approved = db.quotes[v].approved
                 /\ \/ db'.quotes[v].approvedLines = db.quotes[v].approvedLines
                    \/ Owed(v) /\ db'.quotes[v].approvedLines = db.quotes[v].lines
           /\ db.quotes[v].status = "rejected" => db'.quotes[v].status = "rejected"]_vars

\* No repair is ready, and no way of repairing decided on, before somebody has
\* approved it: a manager a quote or the insurer the claim.  Overlapping
\* requests, lost synchronisations and reopened jobs make no exception.
RepairIsApproved ==
    db.ready \/ db.ready1 \/ db.awaiting \/ db.path # "none" => agreed

\* The first job of a damaged vehicle is not under way unless a request could once
\* find the gate open: the insurer's word and, at that time or within the reach of
\* the same request, a replacement car.
FirstJobGated ==
    isDamage /\ db.status = "in_progress" /\ ~db.supplement => cleared

\* There is a second job exactly when the first has been finished, and quotes
\* are filed under it only then.
SecondJobAfterFirst ==
    /\ db.supplement <=> db.ready1
    /\ db.supplementVersion # 0 => db.supplement
    /\ \A v \in Versions : db.quotes[v].lucrareIndex = 2 => db.supplement

\* A resolved ticket has a closed case, whichever of order, case and ticket the
\* partner, the fleet and the stages of the case have closed first.
ResolvedIsClosed ==
    /\ db.resolved => db.completed
    /\ db.stage = "closed" => db.completed
=============================================================================
