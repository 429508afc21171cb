----------------------------- MODULE RsaMission -----------------------------
(***************************************************************************)
(* Roadside assistance: an intervention, the tow mission that carries it   *)
(* out, its two handover protocols, and the cost entry that settles it.    *)
(*                                                                         *)
(*   api/src/roadside/rsa-mission.service.ts   missions and protocols      *)
(*   api/src/roadside/roadside.service.ts      interventions               *)
(*   api/src/roadside/rsa-broker.service.ts    the supplier's gateway      *)
(*   api/src/ops/costs.service.ts              deletion of a cost entry    *)
(*                                                                         *)
(* As everywhere in this API, an endpoint reads outside any transaction,   *)
(* validates what it read and then writes.  A request is a read step and a *)
(* write step; two transactions are split once more: patchMission holds    *)
(* the mission row while it reads and then writes the intervention, and    *)
(* RoadsideService.patch holds the intervention row while it reads the     *)
(* usage counter and cascades to the mission.  What an open transaction    *)
(* has written is seen by nobody, so it is applied at its commit.          *)
(*                                                                         *)
(* Abstractions: one enrolment; every intervention has a supplier and a    *)
(* vehicle; a signer is the driver, the counterparty the protocol needs    *)
(* (customer at pickup, receiver at dropoff) or somebody else; a checklist *)
(* and its notes have no effect on anything and are left out; the amount   *)
(* of a cost entry is a function of the kilometres it was computed for.    *)
(*                                                                         *)
(* A definition Name_Flaw is Name with a programming mistake in it; Next   *)
(* uses none of them.  PROJECT.json names the property each would break.   *)
(***************************************************************************)
EXTENDS Integers, FiniteSets

CONSTANTS
    Interventions,  \* intervention ids, used or not yet used
    CostIds,        \* CostEntry ids
    Kms,            \* tow distances
    Signers,        \* who may sign a protocol
    Covered,        \* whether an entitlement may be, and may not be, covered
    Requests,       \* concurrent HTTP requests
    Endpoints,      \* endpoints an instance exercises
    MaxUsed,        \* bound: no increment of the counter is asked for above it
    NoKm,           \* distanceKm = null
    NoCost          \* settlementCostEntryId = null

InterventionStatuses == {"draft", "requested", "dispatched", "on_site", "completed",
                         "cancelled"}
Kinds == {"pickup", "dropoff"}

\* EDGES of rsa-mission-transitions.ts.
Edges == [assigned   |-> {"en_route", "cancelled"},
          en_route   |-> {"on_scene", "cancelled"},
          on_scene   |-> {"picked_up", "cancelled"},
          picked_up  |-> {"in_transit", "cancelled"},
          in_transit |-> {"delivered", "cancelled"},
          delivered  |-> {"closed"},
          closed     |-> {},
          cancelled  |-> {}]
MissionStatuses == DOMAIN Edges
Over == {"delivered", "closed", "cancelled"}

AllEndpoints == {"createIntervention", "patchIntervention", "createMission",
                 "patchMission", "settle", "protocol", "dispatch", "webhook",
                 "deleteCost"}

ASSUME ConstantsAssumption ==
    /\ NoKm \notin Kms
    /\ NoCost \notin CostIds
    /\ {"driver", "counterparty"} \subseteq Signers /\ IsFiniteSet(Signers)
    /\ Covered \subseteq BOOLEAN
    /\ MaxUsed \in Nat
    /\ Endpoints \subseteq AllEndpoints

VARIABLES
    intervention,  \* RoadsideIntervention rows; status "absent" for an unused id
    mission,       \* RsaTowMission rows, at most one per intervention
    protocol,      \* RsaHandoverProtocol rows, at most one per mission and kind
    costs,         \* CostEntry rows made by a settlement
    used,          \* RsaVehicleEnrollment.interventionsUsedCount
    req,           \* what each request in flight has read and decided
    overlap        \* history: two requests have been in flight at once

vars == <<intervention, mission, protocol, costs, used, req, overlap>>

OptKm == Kms \cup {NoKm}

\* counts: the entitlement is covered or partial.
InterventionRow == [status : InterventionStatuses \cup {"absent"}, counts : BOOLEAN]
MissionRow == [status : MissionStatuses \cup {"absent"}, km : OptKm,
               cost : CostIds \cup {NoCost}]
ProtocolRow == [status : {"absent", "draft", "signed"}, signers : SUBSET Signers,
                media : BOOLEAN]
CostEntry == [id : CostIds, of : Interventions, km : Kms]

NoIntervention == [status |-> "absent", counts |-> FALSE]
NoMission == [status |-> "absent", km |-> NoKm, cost |-> NoCost]
NoProtocol == [status |-> "absent", signers |-> {}, media |-> FALSE]

(***************************************************************************)
(* A request: to is the status it will write ("keep" for none), setKm and  *)
(* km the distance, kind and signer the protocol and the signature, delta  *)
(* what it owes the counter, changes that it changes the status; count and *)
(* gone are what its open transaction has read: the counter it will        *)
(* decrement, and that the intervention is cancelled.                      *)
(***************************************************************************)
Ops == {"none", "patchIntervention", "createMission", "patchMission", "settle",
        "sign", "dispatch"}
Request == [pc : {"idle", "write", "held"}, op : Ops, i : Interventions \cup {"none"},
            to : InterventionStatuses \cup MissionStatuses \cup {"keep"},
            setKm : BOOLEAN, km : OptKm, kind : Kinds, signer : Signers,
            delta : {-1, 0, 1}, count : Nat, gone : BOOLEAN,
            changes : BOOLEAN]
Idle == [pc |-> "idle", op |-> "none", i |-> "none", to |-> "keep", setKm |-> FALSE,
         km |-> NoKm, kind |-> "pickup", signer |-> "driver", delta |-> 0,
         count |-> 0, gone |-> FALSE, changes |-> TRUE]

TypeOK ==
    /\ intervention \in [Interventions -> InterventionRow]
    /\ mission \in [Interventions -> MissionRow]
    /\ protocol \in [Interventions -> [Kinds -> ProtocolRow]]
    /\ costs \subseteq CostEntry
    /\ used \in Nat
    /\ req \in [Requests -> Request]
    /\ \A r \in Requests : req[r].pc # "idle" => req[r].i \in Interventions
    /\ overlap \in BOOLEAN

Init ==
    /\ intervention = [i \in Interventions |-> NoIntervention]
    /\ mission = [i \in Interventions |-> NoMission]
    /\ protocol = [i \in Interventions |-> [k \in Kinds |-> NoProtocol]]
    /\ costs = {}
    /\ used = 0
    /\ req = [r \in Requests |-> Idle]
    /\ overlap = FALSE
-----------------------------------------------------------------------------
(***************************************************************************)
(* Steps of a request and the row locks of open transactions.              *)
(***************************************************************************)
rows == <<intervention, mission, protocol, costs, used>>

Overlaps == overlap' = (overlap \/ \E q \in Requests : req[q].pc # "idle")

Begin(r, new) ==
    /\ req[r].pc = "idle"
    /\ req' = [req EXCEPT ![r] = new]
    /\ Overlaps
    /\ UNCHANGED rows

\* A request that is one step.
Whole == UNCHANGED req /\ Overlaps

Asked(op, i) == [Idle EXCEPT !.pc = "write", !.op = op, !.i = i]

CanWrite(r, op) == req[r].pc = "write" /\ req[r].op = op

Done(r) == req' = [req EXCEPT ![r] = Idle] /\ UNCHANGED overlap

HoldsMission(r, i) == req[r].pc = "held" /\ req[r].op = "patchMission" /\ req[r].i = i
HoldsIntervention(r, i) ==
    req[r].pc = "held" /\ req[r].op = "patchIntervention" /\ req[r].i = i

MissionFree(i) == \A r \in Requests : ~HoldsMission(r, i)
InterventionFree(i) == \A r \in Requests : ~HoldsIntervention(r, i)

Exists(i) == intervention[i].status # "absent"
Tows(i) == mission[i].status # "absent"
-----------------------------------------------------------------------------
(***************************************************************************)
(* Interventions (roadside.service.ts).                                    *)
(***************************************************************************)
\* countsTowardYearlyCap
Counts(status, counts) == counts /\ status \notin {"absent", "draft", "cancelled"}

CreateIntervention(i, status, counts) ==
    /\ "createIntervention" \in Endpoints
    /\ ~Exists(i)
    /\ intervention' = [intervention EXCEPT ![i] = [status |-> status, counts |-> counts]]
    /\ used' = IF Counts(status, counts) THEN used + 1 ELSE used
    /\ UNCHANGED <<mission, protocol, costs>>
    /\ Whole

\* usageDelta
Owed(from, to, counts) ==
    CASE Counts(to, counts) /\ ~Counts(from, counts) -> 1
      [] Counts(from, counts) /\ ~Counts(to, counts) -> -1
      [] OTHER -> 0

\* A body may repeat the status it has read: it is written, and changes nothing
\* else.
BeginPatch(r, i, to) ==
    LET row == intervention[i]
        delta == Owed(row.status, to, row.counts) IN
    /\ "patchIntervention" \in Endpoints
    /\ Exists(i)
    /\ delta = 1 => used < MaxUsed
    /\ Begin(r, [Asked("patchIntervention", i) EXCEPT !.to = to, !.delta = delta,
                   !.changes = to # row.status])

ReadPatchIntervention_Unasked(r, i, to) == BeginPatch(r, i, to)
\* patch: any status may follow any other; a completion asks for the mission
\* to be over.
ReadPatchIntervention(r, i, to) ==
    /\ to = "completed" /\ intervention[i].status # to
         => mission[i].status \in Over \cup {"absent"}
    /\ BeginPatch(r, i, to)

Cancels(r) == req[r].to = "cancelled" /\ req[r].changes

WriteIntervention(r) ==
    /\ CanWrite(r, "patchIntervention")
    /\ ~Cancels(r) /\ req[r].delta # -1
    /\ InterventionFree(req[r].i)
    /\ intervention' = [intervention EXCEPT ![req[r].i].status = req[r].to]
    /\ used' = used + req[r].delta
    /\ Done(r)
    /\ UNCHANGED <<mission, protocol, costs>>

\* The transaction has updated the intervention; it will decrement the counter
\* it has read, or cancel the mission.
HoldIntervention(r) ==
    /\ CanWrite(r, "patchIntervention")
    /\ Cancels(r) \/ req[r].delta = -1
    /\ InterventionFree(req[r].i)
    /\ req' = [req EXCEPT ![r].pc = "held",
                            ![r].count = IF req[r].delta = -1 THEN used ELSE 0]
    /\ UNCHANGED <<rows, overlap>>

Adjusted_BelowZero(r) == IF req[r].delta = 0 THEN used ELSE req[r].count - 1

\* adjustEnrollmentUsage: an increment is done by the database, a decrement
\* writes what it computed from the value read.
Adjusted(r) == IF req[r].delta = 0 THEN used
               ELSE IF req[r].count = 0 THEN 0 ELSE req[r].count - 1

Cascades_Always(r) == Cancels(r) /\ Tows(req[r].i)
\* The cancellation cascades to a mission that is not over.
Cascades(r) == Cancels(r) /\ mission[req[r].i].status \notin Over \cup {"absent"}

CommitIntervention(r) ==
    LET i == req[r].i IN
    /\ HoldsIntervention(r, i)
    /\ Cascades(r) => MissionFree(i)
    /\ intervention' = [intervention EXCEPT ![i].status = req[r].to]
    /\ used' = Adjusted(r)
    /\ mission' = IF Cascades(r) THEN [mission EXCEPT ![i].status = "cancelled"] ELSE mission
    /\ Done(r)
    /\ UNCHANGED <<protocol, costs>>
-----------------------------------------------------------------------------
(***************************************************************************)
(* Missions (rsa-mission.service.ts).                                      *)
(***************************************************************************)
Waiting == {"draft", "requested"}

ReadCreateMission(r, i) ==
    /\ "createMission" \in Endpoints
    /\ Exists(i)
    /\ ~Tows(i)
    /\ Begin(r, [Asked("createMission", i) EXCEPT
                   !.to = IF intervention[i].status \in Waiting THEN "dispatched" ELSE "keep"])

\* interventionId is unique: the second of two creates fails.
WriteCreateMission(r) ==
    LET i == req[r].i IN
    /\ CanWrite(r, "createMission")
    /\ \/ /\ Tows(i)
          /\ UNCHANGED <<intervention, mission>>
       \/ /\ ~Tows(i)
          /\ req[r].to # "keep" => InterventionFree(i)
          /\ mission' = [mission EXCEPT ![i] = [NoMission EXCEPT !.status = "assigned"]]
          /\ intervention' = IF req[r].to = "keep" THEN intervention
                             ELSE [intervention EXCEPT ![i].status = req[r].to]
    /\ Done(r)
    /\ UNCHANGED <<protocol, costs, used>>

\* canTransitionMission
CanTransition(from, to) == from = to \/ to \in Edges[from]

Gate_PickupOnly(i, to) == to = "picked_up" => protocol[i]["pickup"].status = "signed"
\* requiresSignedProtocol
Gate(i, to) ==
    /\ to = "picked_up" => protocol[i]["pickup"].status = "signed"
    /\ to = "delivered" => protocol[i]["dropoff"].status = "signed"

\* distanceKm may not change after the settlement.
MayMeasure(i) == mission[i].cost = NoCost

\* A body has a status, a distance, or both.
ReadPatchMission(r, i, to, setKm, km) ==
    LET from == mission[i].status IN
    /\ "patchMission" \in Endpoints
    /\ Tows(i)
    /\ setKm => MayMeasure(i)
    /\ CanTransition(from, to)
    /\ to # from => Gate(i, to)
    /\ to # from \/ setKm
    /\ Begin(r, [Asked("patchMission", i) EXCEPT !.to = IF to = from THEN "keep" ELSE to,
                                                 !.setKm = setKm, !.km = km])

Patched(r) ==
    [mission EXCEPT ![req[r].i] =
       [@ EXCEPT !.status = IF req[r].to = "keep" THEN mission[req[r].i].status ELSE req[r].to,
                 !.km = IF req[r].setKm THEN req[r].km ELSE mission[req[r].i].km]]

\* What a mission's status makes of its intervention.
Synced == [en_route |-> "dispatched", on_scene |-> "on_site", delivered |-> "completed",
           closed |-> "completed", cancelled |-> "cancelled"]

WriteMission(r) ==
    /\ CanWrite(r, "patchMission")
    /\ req[r].to \notin DOMAIN Synced
    /\ MissionFree(req[r].i)
    /\ mission' = Patched(r)
    /\ Done(r)
    /\ UNCHANGED <<intervention, protocol, costs, used>>

\* The transaction has updated the mission and read the intervention again.
HoldMission(r) ==
    /\ CanWrite(r, "patchMission")
    /\ req[r].to \in DOMAIN Synced
    /\ MissionFree(req[r].i)
    /\ req' = [req EXCEPT ![r].pc = "held",
                            ![r].gone = intervention[req[r].i].status = "cancelled"]
    /\ UNCHANGED <<rows, overlap>>

Syncs_Always(r) == TRUE
\* A cancelled intervention is not brought back.
Syncs(r) == ~req[r].gone

CommitMission(r) ==
    LET i == req[r].i IN
    /\ HoldsMission(r, i)
    /\ Syncs(r) => InterventionFree(i)
    /\ mission' = Patched(r)
    /\ intervention' = IF Syncs(r) THEN [intervention EXCEPT ![i].status = Synced[req[r].to]]
                                   ELSE intervention
    /\ Done(r)
    /\ UNCHANGED <<protocol, costs, used>>

\* patchMission takes the mission and then the intervention, patch the
\* intervention and then the mission: when each waits for the other, the
\* database aborts one.
Abort(r) ==
    /\ \E q \in Requests, i \in Interventions :
         /\ \/ HoldsMission(r, i) /\ HoldsIntervention(q, i)
            \/ HoldsMission(q, i) /\ HoldsIntervention(r, i)
         /\ \A p \in {r, q} : HoldsMission(p, i) => Syncs(p)
         /\ \A p \in {r, q} : HoldsIntervention(p, i) => Cascades(p)
    /\ Done(r)
    /\ UNCHANGED rows
-----------------------------------------------------------------------------
(***************************************************************************)
(* settleMission.                                                          *)
(***************************************************************************)
\* km is the distance of the body, NoKm for none.
ReadSettle(r, i, km) ==
    LET m == mission[i]
        distance == IF km = NoKm THEN m.km ELSE km IN
    /\ "settle" \in Endpoints
    /\ m.cost = NoCost
    /\ m.status \in {"delivered", "closed"}
    /\ protocol[i]["dropoff"].status = "signed"
    /\ distance # NoKm
    /\ Begin(r, [Asked("settle", i) EXCEPT !.km = distance])

Settle(r) ==
    LET i == req[r].i IN
    /\ \E c \in CostIds \ {d.id : d \in costs} :
         /\ costs' = costs \cup {[id |-> c, of |-> i, km |-> req[r].km]}
         /\ mission' = [mission EXCEPT ![i] =
              [@ EXCEPT !.km = req[r].km, !.cost = c,
                        !.status = IF mission[i].status = "delivered" THEN "closed"
                                                                      ELSE mission[i].status]]
    /\ Done(r)
    /\ UNCHANGED <<intervention, protocol, used>>

WriteSettle_Unlocked(r) ==
    /\ CanWrite(r, "settle")
    /\ MissionFree(req[r].i)
    /\ Settle(r)

\* Under FOR UPDATE the mission is read again.
WriteSettle(r) ==
    /\ CanWrite(r, "settle")
    /\ MissionFree(req[r].i)
    /\ mission[req[r].i].cost = NoCost
    /\ Settle(r)

\* Somebody else has settled it: the same cost entry is returned.
SettledAlready(r) ==
    /\ CanWrite(r, "settle")
    /\ MissionFree(req[r].i)
    /\ mission[req[r].i].cost # NoCost
    /\ Done(r)
    /\ UNCHANGED rows

\* CostsService.delete; the foreign key of the mission is set to null.
DeleteCost(c) ==
    /\ "deleteCost" \in Endpoints
    /\ c \in costs
    /\ MissionFree(c.of)
    /\ costs' = costs \ {c}
    /\ mission' = [i \in Interventions |->
                     IF mission[i].cost = c.id THEN [mission[i] EXCEPT !.cost = NoCost]
                                               ELSE mission[i]]
    /\ UNCHANGED <<intervention, protocol, used>>
    /\ Whole
-----------------------------------------------------------------------------
(***************************************************************************)
(* Handover protocols.                                                     *)
(***************************************************************************)
\* getOrCreateProtocol, whatever the mission's status.
GetOrCreateProtocol(i, k) ==
    /\ "protocol" \in Endpoints
    /\ Tows(i)
    /\ protocol[i][k].status = "absent"
    /\ protocol' = [protocol EXCEPT ![i][k] = [NoProtocol EXCEPT !.status = "draft"]]
    /\ UNCHANGED <<intervention, mission, costs, used>>
    /\ Whole

\* addSignature.
ReadSign(r, i, k, s) ==
    /\ "protocol" \in Endpoints
    /\ protocol[i][k].status = "draft"
    /\ s \notin protocol[i][k].signers
    /\ Begin(r, [Asked("sign", i) EXCEPT !.kind = k, !.signer = s])

WriteSign(r) ==
    /\ CanWrite(r, "sign")
    /\ protocol' = [protocol EXCEPT ![req[r].i][req[r].kind].signers = @ \cup {req[r].signer}]
    /\ Done(r)
    /\ UNCHANGED <<intervention, mission, costs, used>>

\* addMedia and finalizeProtocol are single steps: media and signatures are
\* never taken away, so what they have validated still holds when they write.
AddMedia(i, k) ==
    /\ "protocol" \in Endpoints
    /\ protocol[i][k].status = "draft"
    /\ protocol' = [protocol EXCEPT ![i][k].media = TRUE]
    /\ UNCHANGED <<intervention, mission, costs, used>>
    /\ Whole

\* What finalizeProtocol asks of a protocol.
Complete(p) ==
    /\ Cardinality(p.signers) >= 2
    /\ {"driver", "counterparty"} \subseteq p.signers
    /\ p.media

Finalize(i, k) ==
    /\ "protocol" \in Endpoints
    /\ protocol[i][k].status = "draft"
    /\ Complete(protocol[i][k])
    /\ protocol' = [protocol EXCEPT ![i][k].status = "signed"]
    /\ UNCHANGED <<intervention, mission, costs, used>>
    /\ Whole
-----------------------------------------------------------------------------
(***************************************************************************)
(* The supplier's broker.                                                  *)
(***************************************************************************)
\* dispatchIntervention: between the read and the write lies a call to the
\* broker of up to fifteen seconds, which has accepted.
ReadDispatch(r, i) ==
    /\ "dispatch" \in Endpoints
    /\ intervention[i].status \in Waiting
    /\ Begin(r, [Asked("dispatch", i) EXCEPT !.to = "dispatched"])

WriteDispatch(r) ==
    /\ CanWrite(r, "dispatch")
    /\ InterventionFree(req[r].i)
    /\ intervention' = [intervention EXCEPT ![req[r].i].status = req[r].to]
    /\ Done(r)
    /\ UNCHANGED <<mission, protocol, costs, used>>

\* mapInboundEventToInterventionStatus
Reported == {"dispatched", "on_site", "completed", "cancelled"}

\* handleInboundWebhook: the broker reports, in any order, as often as it
\* likes; what it reports is written whatever the row says.
Webhook(i, to) ==
    /\ "webhook" \in Endpoints
    /\ Exists(i)
    /\ InterventionFree(i)
    /\ to \in Reported
    /\ intervention' = [intervention EXCEPT ![i].status = to]
    /\ UNCHANGED <<mission, protocol, costs, used>>
    /\ Whole
-----------------------------------------------------------------------------
Read(r) == \E i \in Interventions :
    \/ \E to \in InterventionStatuses : ReadPatchIntervention(r, i, to)
    \/ ReadCreateMission(r, i)
    \/ \E to \in MissionStatuses, setKm \in BOOLEAN, km \in OptKm :
          (~setKm => km = NoKm) /\ ReadPatchMission(r, i, to, setKm, km)
    \/ \E km \in OptKm : ReadSettle(r, i, km)
    \/ \E k \in Kinds, s \in Signers : ReadSign(r, i, k, s)
    \/ ReadDispatch(r, i)

Write(r) ==
    \/ WriteIntervention(r)
    \/ HoldIntervention(r)
    \/ CommitIntervention(r)
    \/ WriteCreateMission(r)
    \/ WriteMission(r)
    \/ HoldMission(r)
    \/ CommitMission(r)
    \/ Abort(r)
    \/ WriteSettle(r)
    \/ SettledAlready(r)
    \/ WriteSign(r)
    \/ WriteDispatch(r)

Next ==
    \/ \E r \in Requests : Read(r) \/ Write(r)
    \/ \E i \in Interventions, status \in InterventionStatuses, counts \in Covered :
          CreateIntervention(i, status, counts)
    \/ \E i \in Interventions, k \in Kinds :
          GetOrCreateProtocol(i, k) \/ AddMedia(i, k) \/ Finalize(i, k)
    \/ \E i \in Interventions, to \in Reported : Webhook(i, to)
    \/ \E c \in costs : DeleteCost(c)

Spec == Init /\ [][Next]_vars
-----------------------------------------------------------------------------
(***************************************************************************)
(* Properties.  Several hold as long as requests do not overlap: then      *)
(* overlap is FALSE, and each request writes what it has validated.        *)
(***************************************************************************)
\* A mission has at most one cost entry, the one it names, however many
\* settlements race and whichever cost entries are deleted and made again
\* (settleMission: the second call returns the same costEntryId).
OneCostPerMission == \A i \in Interventions :
    {c.id : c \in {d \in costs : d.of = i}} = {mission[i].cost} \ {NoCost}

\* Custody is documented: a vehicle has been picked up only under a pickup
\* protocol, and delivered only under a dropoff protocol, that is signed off
\* with the driver's and the counterparty's signatures and a photo, even when
\* requests overlap (rsa-roadmap.md, S2b).
CustodyDocumented == \A i \in Interventions :
    LET documented(k) == protocol[i][k].status = "signed" /\ Complete(protocol[i][k]) IN
    /\ mission[i].status \in {"picked_up", "in_transit", "delivered", "closed"}
         => documented("pickup")
    /\ mission[i].status \in {"delivered", "closed"} => documented("dropoff")

\* Only a delivered mission is paid for, and what was paid for stays delivered,
\* over the distance that was paid for: neither a cancelled intervention, a
\* late status nor a late distance takes it back.
SettledIsDelivered == ~overlap => \A c \in costs :
    mission[c.of].status \in {"delivered", "closed"} /\ mission[c.of].km = c.km

\* A step of a mission never brings a cancelled intervention back; only a
\* patch of the intervention itself or the broker may
\* (rsa-mission.service.ts: "Nu resuscita o interventie deja anulata").
NoMissionRevives == [][
    ~overlap => \A r \in Requests, i \in Interventions :
        /\ intervention[i].status = "cancelled" /\ intervention'[i].status # "cancelled"
        /\ req[r].i = i /\ req'[r].i # i
        => req[r].op \in {"patchIntervention", "dispatch"} ]_vars

\* Nobody completes an intervention over the head of a mission under way,
\* except the broker (RoadsideService.patch refuses while the mission is open).
CompletedWhenOver == [][
    ~overlap => \A r \in Requests, i \in Interventions :
        /\ intervention[i].status # "completed" /\ intervention'[i].status = "completed"
        /\ req[r].i = i /\ req'[r].i # i
        => mission'[i].status \in Over \cup {"absent"} ]_vars

\* The enrolment's counter is the number of interventions that count toward
\* the yearly cap: cancelled ones and drafts do not (countsTowardYearlyCap).
UsageCounted ==
    used = Cardinality({i \in Interventions :
                          Counts(intervention[i].status, intervention[i].counts)})
=============================================================================
