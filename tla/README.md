# Verification of the fleet API

TLA+ models of the parts of `src/api` that coordinate several parties over
shared database rows, checked with TLC and proved about with TLAPS. `PROJECT.json`
is the machine-readable side of this file: components, runs, mutants, the map
from definitions to source lines, findings, hazards and theorems.

    tlc -workers 2 -config rsa_custody.cfg MCRsaMission
    tlapm RsaMission_proofs.tla

## The system

`src/api` is a NestJS service over Prisma and PostgreSQL for fleets of several
tenants; `src/web` is a Next.js front end and a proxy to it; `src/docs` describes
the flows. Nothing else keeps state: there is one database, requests run
concurrently, and the only background work is the mail timer of
`partner/partner-notification.processor.ts`.

Nearly every endpoint has one shape: **read** rows outside any transaction,
**validate** what was read, **write** in a READ COMMITTED `$transaction`. The only
explicit row lock is the `FOR UPDATE` of `settleMission`; a few writes are
guarded by `updateMany ... where` or by unique indexes. So what an endpoint has
validated may be stale when it writes, and inside a transaction what was read may
be stale when the next statement runs. That is the subject of the models.

| Part (under `api/src`) | State | Operations | Interacts with | Hard part | Correct when |
|---|---|---|---|---|---|
| Service appointments: `service-cases`, `appointments` | `ServiceAppointment` rows: status, slot, stamps of manager and driver, refusal, counter party | create (2), confirm, acknowledge, decline, repropose, supplier validate, request cancel, patch (2) | client settings, case stage, work orders, supplier capacity | three parties negotiate; last signature opens the order | stamps belong to the current slot; the order opens exactly when the keys are there; one order per case |
| Work order creation: `ensureWorkOrderTx`, `work-order-display-number` | `MaintenanceWorkOrder` rows | find or create, number | appointments | find-or-create and `max + 1` in concurrent transactions | one order per case, consecutive numbers |
| Repair: `work-orders`, quotes, `service-cases`, `mobility` | order status, visits, quotes and lines, costs, case stage, claim, replacement car | about forty endpoints | all four with each other, tickets | decisions on rows read earlier, by one query or two; claim synchronised after its commit, statement by statement; second job | costs are what was approved; nothing repaired unapproved; gate respected; second job after the first |
| Damage dossier: `service-cases` | JSON history of notes, reinspection requests and approvals; pipeline step | send quote, send claim, request and decide reinspection, patch | insurer's mail | whole JSON value written back after a mail was sent | history agrees with itself and with the pipeline |
| Roadside: `roadside` | interventions, tow missions, two handover protocols per mission, enrolment counter | create, patch, dispatch, webhook, mission create/patch/settle, protocol sign/finalise | cost entries, broker (HTTP), tickets | two status machines that write each other; settlement races; broker out of order | one cost per mission; custody documented; statuses agree |
| Roadside amounts: `rsa-entitlement`, `rsa-settlement`, `rsa.service` | plans, rate cards, enrolments; two snapshots | upsert and patch, entitlement, preview, settlement | missions | terms frozen at two moments; cents, caps, percentages | the bill is the preview; a plan never makes help dearer |
| Tyres: `fleet/tires`, wheels, tyre close | placements, sets, hotel stays, fitment sheet | mount, clear, layout, create and scrap a set, check-in, relocate, check-out, swap, store, dispose | work orders, costs | many rows in one transaction; sheet is a projection | one tyre per wheel; one set mounted, stays cover the hotel where nothing was overtaken; one close per order |
| Odometer: `ops`, `fleet`, `crm`, `work-orders` | readings, stored value | five kinds of writer | trips, costs, maintenance, tickets, visits | three statements without a transaction | stored value is the timeline's |
| Partner outbox and mail: `partner` | outbox rows, attempts | enqueue, timer run | SMTP | overlapping runs, crash between send and mark | every mail sent or given up; sent once but for what explains more |
| Offline queue: `web/src/lib`, `web/src/hooks` | IndexedDB store | enqueue, flush | API | lost answers, two flushes, closed pages | nothing lost, in order |
| Membership: `iam`, `suppliers`, `tenant` | account, tenant role, client and supplier memberships, invitations | invite, accept, direct membership, team member, remove | access context | check and acceptance apart, row-by-row writers | one kind of member; an invitation spent once |
| Reminders and inspection date: `ops`, `fleet` | reminder rows; date, offsets and menu flag of five kinds of entry | create, patch and delete of entries and reminders, mark performed | documents, costs, maintenance, plan items, vehicle profile, quotes | a copy brought up to date afterwards, whose failure is swallowed; one date in three places | the menu shows what is due; profile and certificate agree |
| CRM tickets, trips, drivers, insurers, imports, bot, OCR, audit, storage | single rows | record keeping | | little or none | see `PROJECT.json` |

## Modules

| Module | Models | Checked by |
|---|---|---|
| `ServiceAppointment` | every endpoint that writes a `ServiceAppointment` row and the only creator of work orders | `MCServiceAppointment` |
| `DualConfirm` | what the signatures promise, abstractly; `ServiceAppointment` implements it | `MCServiceAppointment` |
| `RsaMission` | interventions, missions, protocols, settlement, broker, usage counter | `MCRsaMission` |
| `RepairOrder` | one repair: order, quotes, costs, case, claim, replacement car | `MCRepairOrder` |
| `TyreStore` | tyres, sets, hotel stays and tyre closes of a vehicle | `MCFleetRecords` |
| `VehicleOdometer` | readings and stored kilometres of a vehicle, and their writers | `MCFleetRecords` |
| `PartnerOutbox` | the mails to partners and the timer that sends them | `MCFleetRecords` |
| `RsaOfflineQueue` | the browser's queue of a roadside driver | `MCFleetRecords` |
| `DamageDossier` | history and pipeline of a damage claim | `MCFleetRecords` |
| `Membership` | invitations, role and memberships of a person in a tenant | `MCFleetRecords` |
| `RsaSettlement` | entitlement and amount of a roadside mission | `MCFleetRecords` |
| `ReminderMenu` | a vehicle's dated entries, their reminders and the date of its inspection | `MCFleetRecords` |
| `ServiceAppointment_proofs`, `RsaMission_proofs`, `RepairOrder_proofs`, `Membership_proofs`, `PartnerOutbox_proofs`, `RsaOfflineQueue_proofs`, `TyreStore_proofs` | the theorems about these modules (see Proofs) | tlapm |
| `FleetRecords_proofs` | the theorems about `RsaSettlement`, `ReminderMenu`, `DamageDossier` and `VehicleOdometer`, and about the composition of the eight parts in `MCFleetRecords` | tlapm |

`RepairOrder` composes four services that share the rows of one repair;
`RsaMission` composes interventions, missions and costs. The eight modules of
`MCFleetRecords` share no rows, so they are checked side by side, one per
behaviour (`focus`).

How code becomes TLA+:

- Rows are records in functions indexed by id, with a status `"absent"` for an
  unused id; a nullable timestamp that is only tested for presence is a Boolean.
- In `ServiceAppointment`, `RsaMission` and most of the others a request is a record:
  `pc` is its position, the rest what it decided when it validated. `Read...` is the
  code up to the transaction, its conjuncts the early returns; `Write...` is the
  transaction.
- In `ServiceAppointment` and `RsaMission` a transaction is one step where its first
  write locks the row its later statements depend on. Where they read others, it is
  split: the order-opening transaction (`write`, `number`, `insert`), `patchMission` and
  `RoadsideService.patch` (`write`, `held`). A split
  transaction holds the lock of the row it updated first, what it has written
  appears at its commit, and two that wait for each other are resolved by `Abort`.
- `RepairOrder` has too many endpoints for that: each is one action that *tests* what
  it has read and *writes* `db`. What it has read is a state `s`, which is `db` or one
  of the last `MaxPast` states; an endpoint that needs a second query outside its
  transaction tests a state `t` in it, which is `s` or a later one (`Later`). Statements
  that commit one by one are actions of their own (`SyncStep`).
- `TyreStore` has transactions of many queries that take no lock before they read. An
  operation is an action that writes the rows as they are, with a number `k`: its first
  `k` queries have seen `past`, the rows before the last commit, and the others the
  rows with it (`Seen`). `Locked` and the unique indexes are what stops it.
- History variables record what a property needs of the past or what it makes an
  exception of: `agreed`, `overlap`, `overlaps`, `cleared`, `drifted`, `alone`, `exact`,
  `lapses`, `excuses`, `grounded`, `redeemed`, `raced`, `strayed`, `remade`, `preview`,
  `recast`, `astray`, `muddled`, `lapped`, `cut`. No action's guard reads one, but for
  `overlaps`, which its bound `MaxOverlaps` stops.
- `Endpoints` and `Scenes` select the endpoints an instance exercises. The theorems
  hold for every choice of `Endpoints` unless they say otherwise.
- `Name_Flaw` operators are plausible bugs, used by no action: they show that each
  property can fail (`"mutants"` in `PROJECT.json`).

### ServiceAppointment

`ReadConfirm`/`ReadAcknowledge` -> `WriteSignature` is `confirmAppointment` and
`acknowledgeAppointment`; `ReuseOrder`, `MissOrder`, `TakeNumber`, `InsertOrder`,
`NumberTaken` are `maybeCreateWorkOrderAfterDualConfirmTx` with
`ensureWorkOrderTx` and `nextWorkOrderDisplayNumber`, split at their reads. The
proposals of `reproposeAppointment` and `supplierValidateAppointment` share
`WriteProposal`. The two PATCH endpoints write any status, slot, supplier or
override (`ReadPatch...`, `WritePatch`). `policy` is what
`parseClientIamSettings` can return. `agreed` is a history variable: the slot
each party last put its name to.

Left out: tickets, audit, notes, mail, who may send which request, the year in an
order number, several suppliers with different capacities, slots that overlap
partly. `completed` and `no_show` are reached by the PATCH endpoints only.

### RsaMission

`ReadPatchMission` ... `CommitMission` is `patchMission` with its effect on the
intervention (`Synced`, `Syncs`); `ReadPatchIntervention` ... `CommitIntervention`
is `RoadsideService.patch` with the usage counter (`Adjusted`) and the cascade
(`Cascades`); `ReadSettle`, `WriteSettle`, `SettledAlready` is `settleMission`
before and under `FOR UPDATE`; `DeleteCost` is `CostsService.delete` with the
`SetNull` of the schema. Protocols are signed by `ReadSign`/`WriteSign` and signed
off by `Finalize`. `ReadDispatch`/`WriteDispatch` surround the broker's HTTP call,
`Webhook` is its report, in any order and as often as it likes. `overlap`
remembers whether two requests were ever in flight together: what the code
promises only to requests that come one after the other is stated under `~overlap`.

`Webhook`, `AddMedia`, `Finalize`, `GetOrCreateProtocol`, `CreateIntervention` and
`DeleteCost` are single steps: what they write does not depend on what a
concurrent request could change after their read (a signature or a photo is never
taken away, a webhook writes whatever the row says).

Left out: `patchProtocol` (a checklist nothing reads), PDF and SLA text, driver,
plate and ETA of a mission, the log of broker events, the amount of a settlement.
One enrolment and one supplier.

### DualConfirm

Two variables: the appointments that are confirmed with every required key, and the
orders as pairs of a case and a number. `Open` adds both at once, `Join` uses the
order there is, `Withdraw` takes a key back. `SignsLikeDualConfirm` maps `signed` to
the appointments for which `BothKeys` holds and `opened` to the orders' cases and
numbers: every step of `ServiceAppointment` is then a step of `DualConfirm` or changes
neither. It does not hold with two appointments of one case
(`appointment_duplicate_order`), nor with the acknowledgement waived
(`appointment_waived_ack`).

### RepairOrder

`db` holds the rows of one repair after the ticket became a case. Quote endpoints:
`CreateDraft` (which looks for a draft in `s` and takes the
next version in `t`; the unique version included), `UpdateDraft` (also the import), `Submit`,
`Resubmit`, `Approve` (with `OpensSecondJob`/`JoinsSecondJob`), `Reject`, `OrderParts`,
`RecordInvoice`, `PostCost`, `DeleteCost`. Order: `PatchEstimate`, `PatchStatus`,
`MarkReady`, `StartSupplement`, `ServiceTimes` (first and second visit, set or
cleared), `CompleteByPartner`, `Complete`, `Transform`. Case: `Advance`,
`ApplyPostApproval`, `PatchDamageClaim` and, after its commit and from a copy of the
claim (`Due`), `syncWorkOrdersFromDamageClaim`, one action per statement it commits:
`SyncCreates` or `SyncDecides` on the quote it has read, or `SyncPasses` when there is
nothing to decide, then `SyncLines`, `SyncCase`, `SyncReady`. Any request, and any other
synchronisation, may come between two of them, and `LoseSync` is the process that ends
there; `cut` remembers the quotes it leaves approved with lines that are not. `GateOpen(s, t)` is
`assertDamageReadyForRepair`: the claim of the case in `s`, the replacement car in `t`.

An amount is the set of lines it adds up, so that "the cost is what was approved"
does not depend on prices. Left out: prices and VAT, approval limits, photos,
warranty, visits from the third on, the odometer (in `VehicleOdometer`).

### TyreStore

A tyre has a set, whether it is still an item of it, and one open placement (kind,
wheel, hotel). `Placed` is `placeAssetTx`, `Project` is `syncFitmentProjectionTx`;
operations that move tyres without it are marked by `NoProject`. `BeginClose` is the
check of `applyTyreClose` outside the transaction, `ClaimOrder` the conditional update
inside, followed by the payload: `CloseOutcomes`, `SeasonalSwap` or `StoreSet`.
`ReadScrap`/`ScrapSet` are the two halves of `scrapSet`.

Every other operation has its queries numbered in the order of the code and takes the
number `k` of those that another commit has overtaken: `MountedSet` is then a find of the
mounted tyres, a find of the named set and a create, each on what it sees; `Relocate` and
`CheckOut` update the stay they have seen, by its id, whatever has become of it;
`RecordStay` and `CheckIn` meet the unique index of open stays when they create one;
`Commit` meets the one of the wheels. A row that the operation has itself written before
a query is as it wrote it (`Locked`, and the guards of `MountNew` and `SetLayout`).
`lapped` collects the kinds of operation (wheels, hotel, closes) that have written on
overtaken reads, and each property names the kinds it does not survive. One commit
overtakes an operation; two that together do what neither does alone are not in the
model.

Left out: tread, make, rims, costs, the event log, several hotels' prices.

### VehicleOdometer

Five writers (`sync` of a trip, cost or maintenance entry, `manual`, `ticket`,
`visit`, `reconcile`) each read the vehicle and its readings, decide
(`Validated`), and write statement by statement: `DeleteOwn`, `CreateReading`,
`UpdateVehicle`; a visit writes both in one transaction. `Trusted` is
`computeTrustedOdometerState`. `FailWriter` ends one between two statements.

### PartnerOutbox

`StartTick` reads a batch, `SendMail` succeeds or throws, `MarkSent` and
`CountAttempt` update the row, `MarkFails`, `TickFails` and `CrashOutbox` are the
faults. Several runs may be under way: the timer does not wait for the last one.

### RsaOfflineQueue

Each `useRsaOfflineSync` is a flusher: `StartFlush` lists the store, `ExecuteOp` sends
the oldest, `RemoveOp` or `PutBack` follows. An answer may be lost, a page closed, two
flushes may hold the same list, two operations may bear the same millisecond.

### DamageDossier

Every endpoint reads the case (`ReadCase`), talks to a mail server, and writes
pipeline and history back (`SendQuote`, `SendAvizare`, `RequestReinspection`,
`Approve`, `Reject`, `PatchDamageClaim`). The history keeps the newest `KEEP` entries.

### Membership

One e-mail address in one tenant. `ExpireOlder`/`InsertInvite` are the two statements
of `insertInvite` (a supplier's invitation has the second alone). `BeginAccept` is the
check of the token, `MakeAccount` the account made with a password, `JoinTenant` and
`CommitAccept` the transaction, at its read and at its writes with the unique indexes.
`UpsertAccount`, `UpsertRole`, `UpsertMembership` are the three statements of a direct
membership, `ReadMember`/`ReadRole`/`WriteMember` the tenant's own team. Left out:
passwords, the role within a client or supplier, disabled accounts, who may do this.

### RsaSettlement

`AskHelp` is the creation of an intervention as far as money goes: `Pick` an enrolment,
find its `EntitlementOf`, take the plan's terms down. `MakeMission` takes the rate card
down. `SettlementLines` is `computeRsaSettlement`, with Math.round of the surcharge in
`Percent`. `PatchIntervention`, `PatchPlan`, `UpsertProfile`, `CreateEnrolment` and
`PatchEnrolment` change everything else at any time. Left out: when and how often a
mission is settled (in `RsaMission`), missions without a snapshot of the rate card
(from before the column).

### ReminderMenu

One entry of each kind: the vehicle's profile, a certificate, a cost, a maintenance entry,
an item of the maintenance plan. `SaveEntry` is the statement that writes the entry in
create and patch, `RereadEntry` the second read that some of them make, `SyncReminder`
the five `syncFrom...`, `FailSync` their swallowed failure, `CopyToProfile` and
`CopyToCertificate` what is done with an inspection's date, `Link` the cost that comes
with a document or the document that comes with a cost. `TakeOff` and `Unlist` are the two
statements of deleting a reminder. A deleted entry takes its reminder with it by the
foreign key. Left out: due kilometres (which go the way of the date), titles, a second
certificate, when a reminder counts as overdue.

## Runs

| Run | Question | Result |
|---|---|---|
| `appointment_protocol` | all policies, one request at a time, two appointments of one case, two slots, capacity 1 | all properties hold |
| `appointment_concurrent` | two overlapping requests, two appointments of two cases | one order per case, and a refinement: the rows behave like `DualConfirm` |
| `appointment_edits` | calendar endpoints, recurrence, both PATCH endpoints | gate and planned date hold |
| `appointment_duplicate_order` | overlapping last signatures of two appointments of one case | **violated**: two work orders |
| `appointment_refused_confirmed` | confirm overlapping a refusal | **violated**: a refused appointment is confirmed |
| `appointment_unasked_supplier` | calendar create with the supplier of the case | **violated**: confirmed without the supplier |
| `appointment_waived_ack` | negotiation with the acknowledgement waived | **violated**: every key there, no order |
| `rsa_custody` | two overlapping requests from draft to settled, with deletion of the cost and cancellation anywhere | all properties hold |
| `rsa_intervention` | intervention, mission, broker and counter with overlapping requests | all properties hold |
| `rsa_usage` | one request at a time: is the usage counter the number of counted interventions? | **violated**: `createMission` dispatches a draft uncounted |
| `repair_order` | one repair from the reception to its cost, in seven scenes, with requests that act on one or two older reads and a synchronisation of separate statements | all properties hold |
| `fleet_records` | eight parts that share no rows, each under overlapping requests and the faults it may meet | all properties hold |

What the violated runs show is described under `"findings"`, each with the line of
the document, comment or message it contradicts.

`KeysOpenOrder` is the central property of the appointments: whichever signature
comes last, in whatever interleaving, the order is there when both are.
`OrderNeedsBothKeys` is its converse as an action property.
`OneCostPerMission` says that the cost entries of a mission are exactly the one it
names: it fails both on a double payment and on an orphan. `CustodyDocumented`
relates the mission's status to the *content* of the protocols, and holds although
`patchMission` reads them outside its transaction, because a signed protocol can
lose nothing. `SettledIsDelivered` relates costs to a status and a
distance that four endpoints write.

In a repair, `RepairIsApproved`, `FirstJobGated`, `SecondJobAfterFirst` and
`ResolvedIsClosed` hold under overlapping requests and synchronisations cut short, each
over several endpoints of different services. `CostIsApproved`, `ApprovalIsWhole` and
`DecisionsAreFinal` are promised only to requests that do not overlap (`overlaps = 0`), and so
the code leaves open what two simultaneous decisions do; they hold *between* the
statements of a synchronisation, whose second one `ApprovalIsWhole` and
`DecisionsAreFinal` speak of (`Owed`). A cost posted there is for the amount that was
approved, while the lines that add up to it still wait for theirs. There is
no property on the number of drafts: two overlapping requests do create two, with
versions of their own.

Of the eight parts: `MountedInPlace` is why an operation that nothing overlaps does not
meet the partial unique index of the placements, that the tyres mounted are of one set and
that the fitment sheet lists them. The second stops with a wheel or a close that wrote on
overtaken reads (two finds of the mounted set may each create one), the third with any
operation that did. `HotelTyreHasStay` is what a release starts from; it stops with a hotel
move or a close that was overtaken, as `relocateTx` by a check-out;
`OdometerIsTimeline` says when the stored value can be trusted although some writers
do not look at the timeline, and that it heals; `MailedOnce` and `QueuedIsSent` bound
the repetitions by what explains them; `MailSettles` is liveness; `FirstInOrder` holds
although flushes overlap; `DossierAgrees` survives overwritten histories;
`OneKindOfMember` and `InviteSpentOnce` survive overlapping acceptances except where
`remade` and `raced` say; `SettlementAgrees` is a contract of amounts (preview equals
bill, monotone, never dearer within a plan) that a row of examples does not settle;
`MenuFollowsEntries` and `ItpDatesAgree` relate copies to their originals over every order
of writes, deletions and failures, and say by `astray` and `muddled` what parts them.

Met while modelling, with no document that says otherwise, and so not listed as
findings:

- The repair gate wants a replacement car reserved, active or returned, and a car can
  only be created when more than 72 hours in service are expected or have passed
  (`mobility-eligibility.ts:1`): a damage repair estimated shorter cannot start.
- `advance` may move a stage back that has advanced since it was read.
- An inspection recorded by one entry changes the date of the profile and the certificate,
  whose own reminders keep the old date until the entry is saved again (`itp-sync.ts:24`).
- A certificate recorded along with a cost (`costs.service.ts:535`) bears its own date,
  which is not copied to the profile. With two certificates, an edit of the older one moves
  the profile, and an inspection recorded elsewhere moves the newer one only.
- `createAssignment` ends a vehicle's assignment before it inserts the new one
  (`drivers.service.ts:455`): of two that overlap, neither sees the other's, and the vehicle
  has two active drivers.
- An offline operation the API refuses for good stays first and holds up the queue.
- A direct client or supplier membership overwrites the tenant role of a person who
  has another kind (`client-memberships.service.ts:156`), where an acceptance answers
  that a dedicated e-mail is needed; a removed membership leaves the tenant role.
- Changing the kind of an intervention keeps the entitlement found for the old kind.

### Bounds

- Two appointments, two slots: enough for a second appointment of a case, a
  re-proposal to another date and back, and a full slot (`Capacity` 1). Two
  requests: every race in this code is between a read and one other write. In
  `appointment_edits` there is one request and one written status (`cancelled`),
  because the number of PATCH bodies is what grows there.
- `rsa_*`: one intervention, as no action relates two of them except through the
  counter, which counts whatever its size; two cost ids, so that a deleted entry
  and its successor are told apart and a second entry could appear; one distance
  and none, so that the mission's distance may be missing or be taken away.
  `Signers` are the driver and the counterparty; the witness, who could make up
  the number of signatures without the right people, is covered by the theorem.
- `MaxUsed` (in `BeginPatch`) bounds the counter: nobody asks for an increment above
  it. In `rsa_custody`, where no property reads the counter, `Covered = {FALSE}`
  takes it out. In `rsa_intervention` it reaches 2 with one intervention, by way of
  statuses changed past the counter.
- `InOrder` (state constraint of `rsa_custody`) opens the dropoff protocol after the
  pickup protocol is signed and takes the photo before anybody signs; it bounds the
  orders of filling in a form, none of which changes the mission. The theorem on
  custody has no such constraint.
- `Own`, `Towing`, `Brokered` select endpoints: the broker only writes the
  intervention, the protocols and the settlement never read it, so each is checked
  where it matters.
- `WithoutHistory` (a VIEW) identifies states that differ in `agreed` alone, in runs
  whose properties do not read it. Symmetry is used in safety runs only; no
  constant of a symmetric set is named in a definition.
- `repair_order`: two versions and two lines tell a quote from its successor and a part
  from the whole; one older state (`MaxPast`) and one request acting on it
  (`MaxOverlaps`) are one race per behaviour, between a read and a write or between two
  reads; one synchronisation at a time (`Syncs`), whose statements requests and further
  claims may separate. A scene is a workflow with the endpoints that meet in it:
  `Quoting`, the life of a quote; `Visiting`, the visits and the second job; `Claiming`, a
  claim that decides the repair; `Paying`, a claim and the costs; `Gating` and `Returning`,
  the four ways to start a damage repair; `Closing`, order, case and ticket.
- `fleet_records`: `focus` picks one part per behaviour. Tyres: up to three tyres
  in two sets, with two hotels and two closes or a late `scrapSet` (`TwoHotels`); up to four,
  for a swap of two for two (`TwoWheels`), on the layout of the first tyre; and, on any
  layout, one operation overtaken by another's commit, as the last step of the behaviour
  (`Overlap`): what comes after it the properties mostly except, and the theorems cover.
  Odometer: one kilometre up or not, two moments, two writers. Outbox: two mails in batches
  of one, two overlapping runs, one fault. Queue: two operations, two flushers, two mishaps. Dossier: three entries of which two are kept,
  two overlapping calls, one note at a time (`OneNote`). Membership: two invitations,
  two requests, a client and a supplier; `Regular` stops at the exceptions the
  properties make. Settlement: two suppliers, two plans, two cards, three kilometres;
  `Orderly` fixes an order of the changes that do not interact. Reminders: two dates, so that
  a reminder can be out of date, one entry besides the profile (`MenuNext`), while a second
  request may write the profile; the inspection with the certificate and one other entry, off
  the menu, by one request at a time (`ItpNext`): more are what the properties except.
- Larger instances were checked once, part by part, with no error: odometer to two kilometres
  (1.47 million), three mails in batches of two (486,000), three queued operations
  (272,000), a dossier of four entries of which three are kept (373,000), memberships
  past the exceptions (1.8 million), settlements in any order of changes (942,000), reminders
  with two requests of any kind (the first 8 million states only).
- `CHECK_DEADLOCK FALSE` everywhere: when all ids are used and all appointments and
  missions are over, no request need be possible. The deadlock of row locks is
  modelled and is left by `Abort`.

### Fairness

The specifications of requests are safety specifications: nothing obliges a person to
answer or a client to send its request again, so no fairness would be justified. The
mail timer does justify one. `OutboxFairness` is weak fairness of `StartTick` (the
`setInterval` starts a run every minute while the service is up) and of the steps of a
run (an SMTP connection and a database update end in success or failure). It says
nothing of which of the two, nor does it force an enqueue; faults are bounded by
`MaxFaults`, because a database that fails for ever settles nothing. Under it,
`MailSettles`: every queued mail is sent or given up after `MAX_ATTEMPTS`, also behind
mails that always fail. `Spec` of `MCFleetRecords` has this one fairness condition; in
the other parts no mail exists and it is met trivially.

## Proofs

The theorems hold for any sets and any number of concurrent requests. Each rests on the
assumption on the constants of its module, which TLC evaluates in the runs
(constants have their types, nulls are not ids, what the code counts is finite), and on the
further assumption given here. All but those marked \* are of the form `Spec => []Inv`, or
`Spec /\ []P => []Inv` where the table says `[]P`: for the behaviours in which `P` always
holds. `Apart` is that no two requests in flight are about the same appointment; the
`P` about PATCHes say what those in flight do not write, and leave every other PATCH in.

| Module | Theorem | States | Further assumption |
|---|---|---|---|
| `ServiceAppointment_proofs` | `TypeCorrect` | `TypeOK` | |
| | `OneOrder` | `OneOrderPerCase` | no two appointments share a case |
| | `KeysOpen` | `KeysOpenOrder` | no row waives the acknowledgement; `[]QuietPatches`: no PATCH confirms a row or asks less of the driver |
| | `OrderNeedsKeys` \* | `OrderNeedsBothKeys` | |
| | `ImplementsDualConfirm` \* | `SignsLikeDualConfirm` | those of `OneOrder` and `KeysOpen` |
| | `StampsAreCurrent` | `StampsMatchSlot` | `[]Apart`, `[]Unpatched({"patchSlot"})`: no PATCH of a slot |
| | `DatesStayNegotiated` \* | `StampsMatchSlot` and `NamedMoves` | `[]Apart`, `[]Dated`: every appointment has a date; the fleet writes only statuses of the negotiation |
| | `RefusalIsParked` | `RefusalParks` | `[]Apart`, no PATCH of a status; no row created as refused |
| | `SupplierWasAsked` | `SupplierAccepted` | `[]Apart`, no PATCH of the supplier; creates that ask first (`AsksFirst`) |
| | `NeverOverbooked` | `CapacityRespected` | `[]Apart`, `[]OneSeat`; creates and PATCHes that count the load (`CountsLoad`, `[]CountedPatches`) |
| | `PlannedWhereAgreed` | `PlannedAtAppointment` | `[]Apart` |
| | `PeerWasAsked` \* | `PeerBeforeSupplier` | `[]Apart`; no create writes that a row waits for a peer (`PeerOnly`), no PATCH that it waits for the supplier (`[]NoneSentByPatch`) |
| `RsaMission_proofs` | `TypeCorrect` | `TypeOK` | |
| | `OneCost` | `OneCostPerMission` | |
| | `Custody` | `CustodyDocumented` | |
| | `PaidIsDelivered` | `SettledIsDelivered` | |
| | `CancelledStays` \* | `NoMissionRevives` | |
| | `CompletedIsOver` \* | `CompletedWhenOver` | |
| | `LocksFromTheReadSuffice` \* | the last three without their exception | `[][Undisturbed]_vars`: nobody writes the intervention or the mission a request in flight has read |
| `RepairOrder_proofs` | `TypeCorrect` | `TypeOK` | |
| | `ApprovedBeforeRepair` | `RepairIsApproved` | |
| | `GateBeforeFirstJob` | `FirstJobGated` | |
| | `SecondJobFollows` | `SecondJobAfterFirst` | |
| | `ClosedTogether` | `ResolvedIsClosed` | |
| | `FinalDecisions` \* | `DecisionsAreFinal` | |
| | `CostsFollowApproval` | `CostIsApproved` | |
| | `ApprovalsAreWhole` | `ApprovalIsWhole` | |
| | `RowVersionsSuffice` \* | `DecisionsAreFinal` and `CostIsApproved` without their exception of overlaps | `ReadAsIs`: every request and synchronisation has read as they are the quotes it changes |
| `Membership_proofs` | `MembershipTypeCorrect` | `MembershipTypeOK` | |
| | `MemberOfOneKind` | `OneKindOfMember` | |
| | `InviteOnce` | `InviteSpentOnce` | |
| `PartnerOutbox_proofs` | `OutboxTypeCorrect` | `OutboxTypeOK` | |
| | `MailOnce` | `MailedOnce` | |
| `RsaOfflineQueue_proofs` | `QueueTypeCorrect` | `QueueTypeOK` | |
| | `NothingLost` | `QueuedIsSent` | |
| | `InOrder` | `FirstInOrder` | |
| `TyreStore_proofs` | `TyreTypeCorrect` | `TyreTypeOK` | |
| | `FittedInPlace` | `MountedInPlace`, with its exceptions `lapped` | |
| | `StayForHotelTyre` | `HotelTyreHasStay`, with its exceptions `lapped` | |
| | `ClosesOnce` | `ClosedOnce` | |
| `FleetRecords_proofs` | `SettlementTypeCorrect` | `SettlementTypeOK` | |
| | `BillIsPreview` | `SettlementAgrees` | |
| | `RemindersTypeCorrect` | `ReminderTypeOK` | |
| | `MenuShowsDue` | `MenuFollowsEntries` | |
| | `InspectionsAgree` | `ItpDatesAgree` | |
| | `DossierTypeCorrect` | `DossierTypeOK` | |
| | `DossierKeepsOrder` | `DossierAgrees` | |
| | `OdometerTypeCorrect` | `OdometerTypeOK` | |
| | `StoredIsTimeline` | `OdometerIsTimeline` | |
| | `RecordsImplementParts` \* | the specification of each of the eight parts | there is a request slot (`Savers # {}`) |
| | `RecordsTyped` | `TypeOK` of `MCFleetRecords` | the same |
| | `RecordsCorrect` | the thirteen state invariants of the eight parts, together | the same |

The further assumptions are where the code breaks. Two appointments of a case:
`appointment_duplicate_order`. A waiver: `appointment_waived_ack`. Requests that overlap:
`appointment_refused_confirmed`. A calendar create, which takes the supplier of the case
without asking it: `appointment_unasked_supplier`. Of the PATCHes, which do not look at
stamps and refusals, each property has its own to fear: one that confirms a row or drops
the acknowledgement completes the signatures without the gate; one of a status lifts a
refusal; one of the supplier puts another in an accepted appointment; one of a slot gives
a date to an appointment that has none, which the supplier accepts with the manager's stamp
on it, and moves one that has left the negotiation (`completed`, `cancelled`) with the
stamps it has. Dates *in* negotiation are safe from it: `blocksSilentScheduledAtEdit` is what
`DatesStayNegotiated` rests on. A slot can be overbooked by two requests that count before
either writes, by rows created as `no_show`, which the count leaves out and a
re-proposal brings back, and by a PATCH that takes a row out of `cancelled` or comes by the
endpoint that does not count. `PlannedWhereAgreed` needs none of these but the first-come
order: under overlapping requests an order may be planned at a slot that has just changed.

### Appointments

- *OneOrder*, `OrderInv`: as long as a request is between looking for an order
  and inserting one, its case has none, and no other request is there for the same
  appointment, whose row is locked.
- *KeysOpen*, `KeysInv`: what a request carries from its read to its write cannot
  complete the signatures, unless it is one of the two that sign (`Calm`) or a PATCH, of which
  `QuietPatches` speaks; those that sign look at the row under its lock, so whoever is last
  sees the other's key, and the last key and the order become visible in one commit, or
  neither does.
- *OrderNeedsKeys*: `IdInv`, the rows a create will write are unused and nobody else's, so
  it cannot write over a row that is being signed; `LockInv`, a request that is opening an
  order has both keys in the row it is about to write and is alone on it. The second
  is kept because every write to a row waits for its lock.
- *ImplementsDualConfirm*, `SigningInv`: the four invariants above and `NumInv`, the
  numbers of the orders are 1 to their count and the number a transaction has taken
  is at most one more; so an insert takes the next number, or meets the unique index. Then
  the initial states map to initial states and each step to `Open`, `Join`, `Withdraw` or a
  stutter: the mapping is over `SignedSet` and `Opened`, and no fairness is involved.
- The theorems under `Apart`, any number of requests of which no two in flight are about the
  same appointment (one at a time is the special case): `ReadInv` says of each request what it
  decided when it read, in terms of the row *as it is now* (`SignHeld`, `ProposalHeld`,
  `HeldNew`). `OthersStay` is why that lasts: a write leaves the rows of the others in flight
  alone, those of creates because their ids are new (`IdInv`). It is also the reason why
  requests about the same appointment break the properties. `RowsInv(F)` says of a row that its
  stamps are of its slot according to `agreed` (`Stamped`), that a refusal is parked (`Parked`)
  and that a supplier has accepted (`Accepted`), each unless a PATCH of a field it depends on is
  in `F`, the PATCHes that change anything (`PatchedOnly`); one induction serves four theorems.
  For `DatesStayNegotiated` the PATCHes of slots are in flight and shown to change nothing
  (`PatchesLeaveSlots`). `PlannedStep` follows an order through the writes that move its
  appointments.
- *NeverOverbooked*: the load of a slot is a fact about all rows, so `Apart` is not enough:
  `OneSeat` says that no two requests in flight take the same slot of the supplier. `CapInv`
  counts the load of each slot, which changes by the written row alone (`SeatEffect`), a
  PATCH of the calendar included;
  `RoomInv`, the room a request has counted is still there, holds because the only other
  writes that add to a load take another slot.
- *PeerWasAsked*, `AskedInv`: a row that waits for a peer bears the stamp of manager or
  driver, and whoever's stamp it is has named a slot; `PeerReadInv`: a request that will
  send the row on has read the *other* party's stamp. So the step that does completes the pair.

### Roadside

- *TypeCorrect*, `TypeInv`: what a request will write depends on its
  operation (`Typed`), or a mission's status could end up in an intervention.
- *OneCost*, `CostInv`: every cost entry belongs to a mission that names it
  (`Named`), what a mission names exists and is its own (`Backed`), no id is used
  twice (`Distinct`), no unused mission names one (`Clean`), and a request that
  patches or settles a mission is about an existing one (`Towed`). It needs no
  fact about what a settlement has *read*: the second look under the lock is enough.
- *Custody*, `CustodyInv`: a signed protocol is complete and stays signed
  (`SignedOff`), and a mission's status and the status a request in flight will
  write are both covered by signed protocols (`OnPaper`, `Approved`).
- *PaidIsDelivered*, *CancelledStays*, *CompletedIsOver*, `SoloInv`: the properties except
  behaviours in which requests overlapped, so the invariant is about the others (`~overlap`).
  There is one request in flight, what it decided is true of the rows as they are
  (`Current`), and a cost entry is for a delivered mission over that distance (`Paid`).
  The two action properties follow because a status is written from a `Current` decision.
- *LocksFromTheReadSuffice*: `Current` decisions are all these three rest on. A step keeps
  them `Current` when it writes no row that a request still in flight has read
  (`Undisturbed`, `CurrentStep`), and then keeps `Paid` (`PaidStep`), however many requests
  overlap. A request alone is undisturbed (`AloneStep`), which gives the theorems above;
  row locks taken with the reads, and not with the writes, would make every request so.

### Repair

A request tests a state that may be gone. `IInv` therefore says of *every* state a request
may still act on (`Snapshots`) what it says of the database: the second job follows the first
(`Jobs`), a closed case is completed (`ClosedCase`), decisions and work under way have
been agreed or cleared (`Recorded`), and what such a state has, the database has kept
(`Kept`: the supplement and the completion are never taken back). A stale test of something
that is never taken back is as good as a fresh one; that is why `RepairIsApproved`,
`FirstJobGated`, `SecondJobAfterFirst` and `ResolvedIsClosed`
hold under overlapping requests. The gate takes two reads, so `IInv` says of any snapshot and any
*later* one that a gate found open by the two is `cleared`. An action is proved once, from "`s` is
a snapshot" to "`db'` fits" (`Fits`), whatever `s` is. A synchronisation carries a copy of the
claim, so `IInv` has the clause that what it carries on the insurer had accepted (`Carried`).

`FinalDecisions`, `CostsFollowApproval` and `ApprovalsAreWhole` are about `overlaps`. Their
proofs are about `Orderly` steps: the request, or the synchronisation, has read as they
are the quotes it *changes*, whatever else it has read (`Current`). `Careful` says of each
endpoint what becomes of a quote it has read so (`Final`, `Entire`, `Paid`); `Halved` is what
the first statement of a synchronisation makes of one, and nothing but its second may
approve the lines it owes. `Costs` adds what a cost rests on: an
approved and invoiced quote that names it and grants its amount; `Whole`, that an
approved quote grants the amount of its approved lines or, while they are owed, of all its
lines. With `overlaps = 0` every step is orderly (`UnracedOrderly`).
`RowVersionsSuffice` assumes orderly steps
instead and drops the exception: the requests that undo a decision or pay a quote twice
are those that write a quote which has changed since they read it, and no
others. A check of the row's version when a quote is written would refuse them. Drafts
are another matter: a creation changes no row, and no version of one keeps two apart.

### Membership, mail, queue

- *MemberOfOneKind*, `KindInv`: a request about to insert a membership has seen or written the role that
  goes with it (`CallOfKind`) and no other request changes that role, but for the
  administrator's who sets `remade`.
- *InviteOnce*, `SpentInv`: an invitation not in `raced` is held by at most one request, by
  none once redeemed; of a target not in `strayed` at most one request is about to insert,
  and has closed the others. Both statements speak of requests in flight because
  the token is checked apart from its acceptance.
- *MailOnce*, `MailInv`: what the addressee has received and the runs that hold the row and
  have not sent it, *together*, are at most `1 + lapses`; a queued row nobody holds has
  one to spare. Sending moves one from the second term to the first, a failed mark or a second
  run adds a lapse with its run: the sum is what is inductive, neither term is.
- *NothingLost*, `SentInv`, has the same form with `excuses`, per operation; and a
  stored or executed operation is all there is: an entry leaves the store only after an
  answer. *InOrder*, `OrderInv`: an older operation not yet carried out is on every list a
  newer one is on, though lists overlap, because a list is a snapshot of the store and a
  flush stops at its first failure.

### Tyres

What one operation may do is stated for its queries as they were (`Carried(operation, k)`):
whatever `k` is, rows stay sound (`Sound`: tyres are numbered without gaps and a row agrees
with its kind of place) and typed; with `k = 0`, or when it is of a kind that cannot, it
keeps one set on the vehicle (`OneSet`), every tyre at a hotel in the care of a stay of
its set there (`Covered`) and an item of that set (`AllItems`: a stay is found by the set, its
tyres by their items), and the sheet as mounted unless it has `drifted` (`SheetShown`).
`TyreInv` says the same of the states: `Sound` and one tyre per wheel always, `OneSet`
while neither a wheel nor a close is in `lapped`, `Covered` while neither a hotel move nor a
close is, `SheetShown` while nothing is; and that the rows remembered in `past` are older
rows of the same tyres (`Remembered`). `CommitKept` adds the index of the wheels, which is all
that keeps an overtaken operation from putting two tyres on one. So the exceptions in the
properties are shown to be enough for each kind of operation, and an operation not named
in one may be overtaken at will. Every operation is reduced to
two lemmas, one on making tyres and one on moving some to their places; a swap is a move
off, a move on, a projection.

### Amounts, reminders, dossier, odometer

- *BillIsPreview*: no invariant is needed beyond the types; the work is in the amounts. A
  settlement is its base and a rounded percentage of it (`TotalIsDue`), both grow with what
  they are made of (`DueGrows`, `MoreIsNoCheaper`), and within a plan each line is at most
  what it is without (`PlanIsNoDearer`). The five lines are added one by one; no
  induction over them.
- *MenuShowsDue*, `MenuInv`: what a request still has to do to the menu is right for the entry
  as it is now (`Unsaid`), so that each of the statements may be the last one. An entry
  with two requests at once is astray. *InspectionsAgree*, `ItpInv`: where profile and certificate
  differ, a request is in flight that *owes* one of them its date (`Owes`).
- *DossierKeepsOrder*, `DossierInv`: requests write back whole histories they read long ago, so
  the invariant is about any history stored or read (`Kept`) and never compares two of
  them: ids are of before now, documents are later than their requests and there for the approved ones
  alone, and if the first request is still there the others are numbered after it. `CutSound`
  says that keeping the newest `KEEP` entries preserves all that, since what a request's document
  and number rest on is newer or older as a whole.
- *StoredIsTimeline*, `OdometerInv`: a writer alone on the vehicle has decided on the highest of
  the readings there will be when it ends (`DecidedRight`, over `Ahead`). `TrustedAt` is a
  recursive function, `CHOOSE` a function that satisfies the equation; `TrustedAtDefined` shows
  that one does (the function that gives the highest reading) and `TrustedIsHighest` that
  every one that does gives the highest, by the smallest set of readings where it would not,
  so no induction theorem with an operator as parameter is needed.

### The eight parts together

`MCFleetRecords`, the specification TLC runs, implements each part's own
(`RecordsImplementParts`): the initial states fix more than the parts ask (`StartsTogether`),
and a step, however narrowed for the run, is a step of one part that leaves the others alone
(`StepsApart`; the two ways of driving the reminders are `MenuSteps` and `ItpSteps`). The
fairness of the outbox is common to both sides. So the run explores behaviours the
parts really have, and `RecordsTyped` and `RecordsCorrect` follow from the
parts' theorems without another induction.

### Only model-checked

- `MailSettles`: liveness is out of the prover's reach.
- `UsageCounted`, which the code violates (`rsa_usage`), has no theorem; the properties of the
  other four violation runs have one under the assumption that run drops.
- The theorems under `Apart` say nothing about requests in flight for the same appointment:
  there a decision may be stale when it is written, as `appointment_refused_confirmed` shows.

## Plan

Done: the models of the plan, and a theorem for every property of a passing run but
`MailSettles`, with the overlaps and PATCHes each of them does not survive named in its
assumption or in the property itself. For the quotes and the roadside missions `RowVersionsSuffice` and
`LocksFromTheReadSuffice` say what the code would have to do to need none.

## Not modelled

- Who may send which request (`client-access.ts`, guards): every party may send every
  request, which only adds behaviours.
- CRM ticket handling, trips, trip sheets, consumption, equipment, clients, drivers, suppliers, insurers, imports, settings: endpoints
  that validate and write a row of their own. Where such a row steers a modelled part
  (a ticket's link and kilometres, a deleted cost, a supplier's capacity), the part has
  it.
- OCR and CSV parsing, PDF and mail texts: heuristics and layout without state.
- The front end but for its offline queue: it keeps nothing of its own. It is about
  half of the repository's lines, and with the record keeping above it is why the map
  covers a small share of them.
