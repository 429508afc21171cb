------------------------- MODULE ServiceAppointment -------------------------
(***************************************************************************)
(* The negotiation of a workshop appointment between the fleet manager,    *)
(* the driver and the supplier, and the work order that opens once the     *)
(* required signatures are there.                                          *)
(*                                                                         *)
(*   api/src/service-cases/service-cases.service.ts   (nine endpoints)     *)
(*   api/src/appointments/appointments.service.ts     (calendar endpoints) *)
(*                                                                         *)
(* Every endpoint reads the appointment row outside any transaction,       *)
(* validates what it read, and then writes in one READ COMMITTED           *)
(* transaction.  A request is therefore two steps (Read.., Write..), and   *)
(* what it decided in the first may be stale in the second.  The two       *)
(* endpoints that may open a work order are split further, because inside  *)
(* their transaction they look for a work order, compute a display number  *)
(* and insert, and another transaction may commit in between.              *)
(*                                                                         *)
(* Abstractions: one supplier; two appointments overlap exactly when they  *)
(* have the same slot; counter stamps "manager" and "admin" are one value  *)
(* (no branch tells them apart); notes, tickets, audit and mail are left   *)
(* out; identity and document checks only decide who may send a request.   *)
(*                                                                         *)
(* A definition Name_Flaw is Name with a programming mistake in it; Next   *)
(* uses none of them.  PROJECT.json names the property each would break.   *)
(***************************************************************************)
EXTENDS Integers, FiniteSets

CONSTANTS
    Cases,          \* service cases (dosare)
    Appts,          \* appointment ids, used or not yet used
    CaseOf,         \* the case an appointment belongs to
    Slots,          \* dates an appointment can be set on
    Requests,       \* concurrent HTTP requests
    Policies,       \* client IAM settings an instance considers
    Overrides,      \* values of requireDriverAckOverride an instance considers
    Endpoints,      \* endpoints an instance exercises
    FleetStatuses,  \* statuses the fleet writes straight into a row
    Capacity,       \* Supplier.slotCapacity
    NoSlot,         \* scheduledAt = null
    NoAppt          \* no second row (a create without recurrence)

Statuses == {"scheduled", "pending_supplier", "pending_fleet_peer", "confirmed",
             "needs_repropose", "completed", "cancelled", "no_show"}
Counters == {"none", "manager", "driver", "supplier"}
Parties == {"manager", "driver", "supplier"}

AllEndpoints == {"create", "calendarCreate", "update", "calendarUpdate", "confirm",
                 "acknowledge", "decline", "repropose", "supplierValidate",
                 "requestCancel"}

ASSUME ConstantsAssumption ==
    /\ CaseOf \in [Appts -> Cases]
    /\ NoSlot \notin Slots
    /\ NoAppt \notin Appts
    /\ Capacity \in Nat \ {0}
    /\ Policies \subseteq [negotiate : BOOLEAN, fleetFirst : BOOLEAN, requireAck : BOOLEAN]
    /\ Overrides \subseteq {"inherit", "required", "waived"}
    /\ Endpoints \subseteq AllEndpoints
    /\ FleetStatuses \subseteq Statuses

VARIABLES
    policy,   \* Client.iamSettings, fixed during a run
    appt,     \* ServiceAppointment rows; status "absent" for an unused id
    case,     \* ServiceCase rows: stage and supplier
    orders,   \* MaintenanceWorkOrder rows
    req,      \* what each request in flight has read and decided
    agreed    \* history: the slot each party last put its name to

vars == <<policy, appt, case, orders, req, agreed>>

(***************************************************************************)
(* Rows.  mgr, ack, declined and cancelReq stand for the timestamps        *)
(* managerConfirmedAt, driverAcknowledgedAt, driverDeclinedAt and          *)
(* cancellationRequestedAt being set.                                      *)
(***************************************************************************)
OptSlot == Slots \cup {NoSlot}

ApptRow == [status : Statuses \cup {"absent"}, slot : OptSlot, supplier : BOOLEAN,
            mgr : BOOLEAN, ack : BOOLEAN, declined : BOOLEAN, cancelReq : BOOLEAN,
            counter : Counters, override : {"inherit", "required", "waived"}]

\* The row of an unused id, and the carrier of a request's pending write.
Blank == [status |-> "absent", slot |-> NoSlot, supplier |-> FALSE,
          mgr |-> FALSE, ack |-> FALSE, declined |-> FALSE, cancelReq |-> FALSE,
          counter |-> "none", override |-> "inherit"]

CaseRow == [stage : {"intake", "scheduled", "work_order"}, supplier : BOOLEAN]

WorkOrder == [case : Cases, num : Nat, planned : OptSlot, supplier : BOOLEAN,
              status : {"draft", "sent"}]

(***************************************************************************)
(* A request: its step, its endpoint, the appointment, the second row of a *)
(* recurring create, the pending write, the case row it read and the work  *)
(* order number it computed.                                               *)
(***************************************************************************)
Ops == {"none", "confirm", "confirmPeer", "acknowledge", "acknowledgePeer", "decline",
        "proposeManager", "proposeDriver", "validate", "requestCancel", "create",
        "createPartner", "createCalendar", "patchStatus", "patchSlot",
        "patchSupplier", "patchOverride"}

Request == [pc : {"idle", "write", "number", "insert"}, op : Ops,
            a : Appts \cup {NoAppt}, second : Appts \cup {NoAppt}, slot2 : OptSlot,
            row : ApptRow, read : CaseRow, num : Nat]

NoCase == [stage |-> "intake", supplier |-> FALSE]
Idle == [pc |-> "idle", op |-> "none", a |-> NoAppt, second |-> NoAppt,
         slot2 |-> NoSlot, row |-> Blank, read |-> NoCase, num |-> 0]

Agreement == [Parties -> OptSlot]
NoAgreement == [p \in Parties |-> NoSlot]

TypeOK ==
    /\ policy \in [negotiate : BOOLEAN, fleetFirst : BOOLEAN, requireAck : BOOLEAN]
    /\ appt \in [Appts -> ApptRow]
    /\ case \in [Cases -> CaseRow]
    /\ orders \subseteq WorkOrder
    /\ req \in [Requests -> Request]
    /\ \A r \in Requests : req[r].pc # "idle" => req[r].a \in Appts
    /\ agreed \in [Appts -> Agreement]

Init ==
    /\ policy \in Policies
    /\ appt = [a \in Appts |-> Blank]
    /\ case \in [Cases -> [stage : {"intake"}, supplier : BOOLEAN]]
    /\ orders = {}
    /\ req = [r \in Requests |-> Idle]
    /\ agreed = [a \in Appts |-> NoAgreement]
-----------------------------------------------------------------------------
(***************************************************************************)
(* Policy of the client (client-iam-settings.ts).                          *)
(***************************************************************************)
FleetFirst == policy.negotiate /\ policy.fleetFirst

AckRequired(override) ==
    \/ override = "required"
    \/ override = "inherit" /\ (policy.negotiate \/ policy.requireAck)

Exists(a) == appt[a].status # "absent"

\* The rows assertSupplierSlotCapacity counts against a slot.
Load(s, a) == {b \in Appts \ {a} :
    /\ appt[b].status \notin {"absent", "cancelled", "no_show"}
    /\ appt[b].supplier
    /\ appt[b].slot = s}
HasCapacity_OffByOne(s, a) == Cardinality(Load(s, a)) <= Capacity
HasCapacity(s, a) == Cardinality(Load(s, a)) < Capacity

OrdersOf(c) == {o \in orders : o.case = c}

Replan_Forgotten(c, s) == orders
\* updateMany on the work orders of a case.
Replan(c, s) == {IF o.case = c THEN [o EXCEPT !.planned = s] ELSE o : o \in orders}

Locked_Never(a) == FALSE
\* The row lock an open transaction holds on its appointment.
Locked(a) == \E r \in Requests : req[r].pc \in {"number", "insert"} /\ req[r].a = a

(***************************************************************************)
(* Steps of a request.                                                     *)
(***************************************************************************)
Begin(r, op, a, row) ==
    /\ req[r].pc = "idle"
    /\ req' = [req EXCEPT ![r] = [Idle EXCEPT !.pc = "write", !.op = op, !.a = a,
                                              !.row = row]]
    /\ UNCHANGED <<policy, appt, case, orders, agreed>>

CanWrite(r, ops) ==
    /\ req[r].pc = "write"
    /\ req[r].op \in ops
    /\ ~Locked(req[r].a)

Done(r) == req' = [req EXCEPT ![r] = Idle]
-----------------------------------------------------------------------------
(***************************************************************************)
(* createAppointment.  bySupplier records a date the supplier gave; st is  *)
(* dto.status, or "absent" when the body has none.                         *)
(***************************************************************************)
\* The id a create will use: unused, and not taken by another create.
Fresh(a) == ~Exists(a) /\ \A r \in Requests : a \notin {req[r].a, req[r].second}

\* resolveInitialAppointmentStatus
InitialStatus(supplier, bySupplier) ==
    IF bySupplier \/ ~supplier THEN "scheduled" ELSE "pending_supplier"

InitialCounter_RawRole(status, bySupplier) ==
    IF status = "pending_supplier" THEN "client_manager" ELSE "none"

InitialCounter(status, bySupplier) ==
    CASE status = "pending_supplier" -> "manager"
      [] status # "pending_supplier" /\ bySupplier -> "supplier"
      [] OTHER -> "none"

NewRow(s, supplier, status, bySupplier, override) ==
    [Blank EXCEPT !.status = status, !.slot = s, !.supplier = supplier,
                  !.counter = InitialCounter(status, bySupplier),
                  !.override = override]

Create(r, op, a, row, second, slot2) ==
    /\ req[r].pc = "idle"
    /\ second # NoAppt => Fresh(second) /\ second # a /\ CaseOf[second] = CaseOf[a]
    /\ (second = NoAppt) = (slot2 = NoSlot)
    /\ req' = [req EXCEPT ![r] = [Idle EXCEPT !.pc = "write", !.op = op, !.a = a,
                                              !.second = second, !.slot2 = slot2,
                                              !.row = row, !.read = case[CaseOf[a]]]]
    /\ UNCHANGED <<policy, appt, case, orders, agreed>>

ReadCreate(r, a, s, supplier, bySupplier, st, override) ==
    LET status == IF st = "absent" THEN InitialStatus(supplier, bySupplier) ELSE st IN
    /\ "create" \in Endpoints
    /\ s # NoSlot \/ (supplier /\ ~bySupplier)
    /\ supplier /\ s # NoSlot => HasCapacity(s, a)
    /\ Create(r, "create", a, NewRow(s, supplier, status, bySupplier, override),
              NoAppt, NoSlot)

\* Who has named the slot of a created row: whoever its counter stamp names,
\* the fleet when it has no stamp.
Creator(row) == IF row.counter = "none" THEN "manager" ELSE row.counter

WriteCreate(r) ==
    LET a == req[r].a
        c == CaseOf[a]
        row == req[r].row
        read == req[r].read IN
    /\ CanWrite(r, {"create"})
    /\ appt' = [appt EXCEPT ![a] = row]
    /\ agreed' = [agreed EXCEPT ![a] = [NoAgreement EXCEPT ![Creator(row)] = row.slot]]
    /\ case' = [case EXCEPT ![c] =
                  IF read.stage = "intake"
                  THEN [stage |-> "scheduled", supplier |-> row.supplier]
                  ELSE IF row.supplier # read.supplier
                       THEN [@ EXCEPT !.supplier = row.supplier]
                       ELSE @]
    /\ orders' = {IF o.case # c THEN o
                  ELSE [o EXCEPT !.planned = IF row.slot = NoSlot THEN @ ELSE row.slot,
                                 !.supplier = row.supplier] : o \in orders}
    /\ Done(r)
    /\ UNCHANGED policy

(***************************************************************************)
(* AppointmentsService.create, the calendar.  A body without a supplier    *)
(* falls back, inside the transaction, to the supplier of the case; the    *)
(* status and the capacity check have used the body's supplier.  A         *)
(* recurring create also writes later occurrences (one here, twelve in the *)
(* code), whose slots are not checked.                                     *)
(***************************************************************************)
ReadCalendarCreate(r, a, s, supplier, partner, bySupplier, override, second, slot2) ==
    /\ "calendarCreate" \in Endpoints
    /\ partner => supplier /\ bySupplier
    /\ supplier => HasCapacity(s, a)
    /\ slot2 # s
    /\ Create(r, IF partner THEN "createPartner" ELSE "createCalendar", a,
              NewRow(s, supplier, InitialStatus(supplier, bySupplier), bySupplier, override),
              second, slot2)

WriteCalendarCreate(r) ==
    LET a == req[r].a
        c == CaseOf[a]
        partner == req[r].op = "createPartner"
        row == [req[r].row EXCEPT !.supplier = @ \/ case[c].supplier]
        rows == IF req[r].second = NoAppt THEN {a} ELSE {a, req[r].second}
        slotOf(b) == IF b = a THEN row.slot ELSE req[r].slot2 IN
    /\ CanWrite(r, {"createPartner", "createCalendar"})
    /\ \/ /\ partner /\ \A o \in OrdersOf(c) : ~o.supplier      \* not this supplier's case
          /\ UNCHANGED <<appt, case, orders, agreed>>
       \/ /\ partner => \E o \in OrdersOf(c) : o.supplier
          /\ appt' = [b \in Appts |-> IF b \in rows THEN [row EXCEPT !.slot = slotOf(b)]
                                                    ELSE appt[b]]
          /\ agreed' = [b \in Appts |->
                          IF b \in rows
                          THEN [NoAgreement EXCEPT ![Creator(row)] = slotOf(b)]
                          ELSE agreed[b]]
          /\ case' = [case EXCEPT ![c] = IF @.stage = "intake"
                        THEN [stage |-> "scheduled", supplier |-> row.supplier] ELSE @]
          /\ orders' = {IF o.case # c \/ (partner /\ ~o.supplier) THEN o
                        ELSE [o EXCEPT !.planned = row.slot,
                                       !.supplier = @ \/ req[r].row.supplier] : o \in orders}
    /\ Done(r)
    /\ UNCHANGED policy
-----------------------------------------------------------------------------
(***************************************************************************)
(* confirmAppointment and acknowledgeAppointment: the two signatures.  In  *)
(* fleet-first mode the first of them sends the proposal on to the         *)
(* supplier; otherwise each one tries to open the work order.              *)
(***************************************************************************)
\* What a signing request carries: the slot and the supplier it has read.
Seen(a) == [Blank EXCEPT !.slot = appt[a].slot,
                         !.supplier = appt[a].supplier \/ case[CaseOf[a]].supplier]

ReadConfirm(r, a) ==
    LET row == appt[a] IN
    /\ "confirm" \in Endpoints
    /\ row.status \notin {"absent", "cancelled", "needs_repropose", "pending_supplier"}
    /\ ~row.declined
    /\ row.slot # NoSlot
    /\ \/ /\ row.status = "pending_fleet_peer"
          /\ FleetFirst /\ row.counter = "driver"
          /\ Begin(r, "confirmPeer", a, Seen(a))
       \/ /\ row.status # "pending_fleet_peer"
          /\ Begin(r, "confirm", a, Seen(a))

ReadAcknowledge(r, a) ==
    LET row == appt[a]
        waiting == /\ row.status = "pending_fleet_peer"
                   /\ FleetFirst /\ row.counter = "manager" IN
    /\ "acknowledge" \in Endpoints
    /\ AckRequired(row.override)
    /\ row.status \notin {"absent", "needs_repropose", "pending_supplier"}
    /\ ~row.declined
    /\ row.ack => waiting
    /\ policy.negotiate \/ row.mgr
    /\ row.status = "pending_fleet_peer" => waiting
    /\ row.slot # NoSlot
    /\ Begin(r, IF waiting THEN "acknowledgePeer" ELSE "acknowledge", a, Seen(a))

Signer(op) == IF op \in {"confirm", "confirmPeer"} THEN "manager" ELSE "driver"

\* The party has signed the slot it had read.
Sign(r) == agreed' = [agreed EXCEPT ![req[r].a][Signer(req[r].op)] = req[r].row.slot]

WritePeerSignature(r) ==
    LET row == appt[req[r].a]
        manager == req[r].op = "confirmPeer" IN
    /\ CanWrite(r, {"confirmPeer", "acknowledgePeer"})
    /\ appt' = [appt EXCEPT ![req[r].a] =
                  [row EXCEPT !.status = "pending_supplier",
                              !.mgr = row.mgr \/ manager, !.ack = row.ack \/ ~manager]]
    /\ Sign(r)
    /\ Done(r)
    /\ UNCHANGED <<policy, case, orders>>

\* The row once the signature is on it.
Signed(r) ==
    LET row == appt[req[r].a] IN
    IF req[r].op = "confirm"
    THEN [row EXCEPT !.status = "confirmed", !.mgr = TRUE, !.counter = "none"]
    ELSE [row EXCEPT !.ack = TRUE]

\* The gate of maybeCreateWorkOrderAfterDualConfirmTx, on the row it re-reads.
BothKeys(row) ==
    /\ row.mgr
    /\ row.status = "confirmed"
    /\ AckRequired(row.override) => row.ack

\* What the transaction writes when the gate is open: read is the case row it
\* has re-read, new the work order it inserted, if any.
OpenGate(r, read, new) ==
    LET a == req[r].a
        c == CaseOf[a]
        supplier == req[r].row.supplier \/ read.supplier IN
    /\ appt' = [appt EXCEPT ![a] = Signed(r)]
    /\ Sign(r)
    /\ case' = [case EXCEPT ![c].stage = IF read.stage = "work_order" THEN @
                                                                      ELSE "work_order"]
    /\ orders' = {IF o.case = c
                  THEN [o EXCEPT !.planned = req[r].row.slot, !.supplier = supplier]
                  ELSE o : o \in orders \cup new}
    /\ Done(r)
    /\ UNCHANGED policy

WriteSignature_OpensNever(r) ==
    /\ CanWrite(r, {"confirm", "acknowledge"})
    /\ appt' = [appt EXCEPT ![req[r].a] = Signed(r)]
    /\ Sign(r)
    /\ Done(r)
    /\ UNCHANGED <<policy, case, orders>>

\* The signature opens nothing.
WriteSignature(r) ==
    /\ CanWrite(r, {"confirm", "acknowledge"})
    /\ ~BothKeys(Signed(r))
    /\ appt' = [appt EXCEPT ![req[r].a] = Signed(r)]
    /\ Sign(r)
    /\ Done(r)
    /\ UNCHANGED <<policy, case, orders>>

\* The gate is open and the case has a work order, which is used again.
ReuseOrder(r) ==
    /\ CanWrite(r, {"confirm", "acknowledge"})
    /\ BothKeys(Signed(r))
    /\ OrdersOf(CaseOf[req[r].a]) # {}
    /\ OpenGate(r, case[CaseOf[req[r].a]], {})

Miss(r) ==
    /\ req' = [req EXCEPT ![r].pc = "number", ![r].read = case[CaseOf[req[r].a]]]
    /\ UNCHANGED <<policy, appt, case, orders, agreed>>

MissOrder_NeverReuses(r) ==
    /\ CanWrite(r, {"confirm", "acknowledge"})
    /\ BothKeys(Signed(r))
    /\ Miss(r)

MissOrder_NoGate(r) ==
    /\ CanWrite(r, {"confirm", "acknowledge"})
    /\ OrdersOf(CaseOf[req[r].a]) = {}
    /\ Miss(r)

\* The gate is open and the transaction sees no work order of the case.  It
\* goes on, holding the lock of the appointment row.
MissOrder(r) ==
    /\ CanWrite(r, {"confirm", "acknowledge"})
    /\ BothKeys(Signed(r))
    /\ OrdersOf(CaseOf[req[r].a]) = {}
    /\ Miss(r)

\* nextWorkOrderDisplayNumber: one more than the largest committed number.
TakeNumber(r) ==
    /\ req[r].pc = "number"
    /\ \E n \in {1} \cup {o.num + 1 : o \in orders} :
         /\ \A o \in orders : o.num < n
         /\ req' = [req EXCEPT ![r].pc = "insert", ![r].num = n]
    /\ UNCHANGED <<policy, appt, case, orders, agreed>>

\* The row maintenanceWorkOrder.create inserts.
NewOrder(r) ==
    LET supplier == req[r].row.supplier \/ req[r].read.supplier IN
    [case |-> CaseOf[req[r].a], num |-> req[r].num, planned |-> NoSlot,
     supplier |-> supplier, status |-> IF supplier THEN "sent" ELSE "draft"]

InsertOrder(r) ==
    /\ req[r].pc = "insert"
    /\ \A o \in orders : o.num # req[r].num
    /\ OpenGate(r, req[r].read, {NewOrder(r)})

NumberTaken_Swallowed(r) ==
    /\ req[r].pc = "insert"
    /\ \E o \in orders : o.num = req[r].num
    /\ appt' = [appt EXCEPT ![req[r].a] = Signed(r)]
    /\ Sign(r)
    /\ Done(r)
    /\ UNCHANGED <<policy, case, orders>>

\* The unique index on (tenantId, displayNumber) refuses the insert: the
\* transaction rolls back, signature included.
NumberTaken(r) ==
    /\ req[r].pc = "insert"
    /\ \E o \in orders : o.num = req[r].num
    /\ Done(r)
    /\ UNCHANGED <<policy, appt, case, orders, agreed>>
-----------------------------------------------------------------------------
(***************************************************************************)
(* declineAppointment: the driver refuses.                                 *)
(***************************************************************************)
ReadDecline(r, a) ==
    LET row == appt[a] IN
    /\ "decline" \in Endpoints
    /\ policy.negotiate \/ row.mgr
    /\ ~row.ack
    /\ ~row.declined
    /\ row.status \in {"confirmed", "scheduled"}
    /\ Begin(r, "decline", a, Blank)

WriteDecline_KeepsStamps(r) ==
    /\ CanWrite(r, {"decline"})
    /\ appt' = [appt EXCEPT ![req[r].a] =
                  [@ EXCEPT !.status = "needs_repropose", !.declined = TRUE]]
    /\ Done(r)
    /\ UNCHANGED <<policy, case, orders, agreed>>

WriteDecline(r) ==
    /\ CanWrite(r, {"decline"})
    /\ appt' = [appt EXCEPT ![req[r].a] =
                  [@ EXCEPT !.status = "needs_repropose", !.declined = TRUE,
                            !.mgr = FALSE, !.ack = FALSE]]
    /\ Done(r)
    /\ UNCHANGED <<policy, case, orders, agreed>>

(***************************************************************************)
(* reproposeAppointment: the manager, or a driver who may negotiate, sets  *)
(* another date.                                                           *)
(***************************************************************************)
Reproposable(row) ==
    \/ row.status = "needs_repropose" \/ row.declined
    \/ /\ row.status = "scheduled" /\ row.slot # NoSlot
       /\ ~row.mgr /\ ~row.ack
    \/ /\ policy.negotiate
       /\ row.status \in {"scheduled", "confirmed"} /\ row.slot # NoSlot
       /\ ~(row.mgr /\ (AckRequired(row.override) => row.ack))
    \/ FleetFirst /\ row.status = "pending_fleet_peer" /\ row.slot # NoSlot

NextStatus_SkipsPeer(row, by) ==
    IF row.supplier THEN "pending_supplier" ELSE "scheduled"

NextStatus_SkipsSupplier(row, by) ==
    IF row.supplier /\ FleetFirst THEN "pending_fleet_peer" ELSE "scheduled"

\* Where a proposal of party "by" goes.
NextStatus(row, by) ==
    LET exits == /\ FleetFirst /\ row.status = "pending_fleet_peer" /\ row.slot # NoSlot
                 /\ {row.counter, by} = {"manager", "driver"} IN
    CASE ~row.supplier -> "scheduled"
      [] row.supplier /\ FleetFirst /\ ~exits -> "pending_fleet_peer"
      [] OTHER -> "pending_supplier"

ReadRepropose(r, a, s, by) ==
    LET row == appt[a]
        next == NextStatus(row, by)
        preAck == policy.negotiate /\ next = "scheduled" IN
    /\ "repropose" \in Endpoints
    /\ Exists(a)
    /\ by = "driver" => policy.negotiate
    /\ Reproposable(row)
    /\ s # row.slot
    /\ row.supplier => HasCapacity(s, a)
    /\ Begin(r, IF by = "manager" THEN "proposeManager" ELSE "proposeDriver", a,
             [Blank EXCEPT
                !.slot = s,
                !.status = IF preAck /\ by = "manager" THEN "confirmed" ELSE next,
                !.mgr = preAck /\ by = "manager",
                !.ack = preAck /\ by = "driver",
                !.counter = IF next = "scheduled" THEN "none" ELSE by])

(***************************************************************************)
(* supplierValidateAppointment: the supplier accepts the slot (s = NoSlot, *)
(* a body without a date) or gives another one.                            *)
(***************************************************************************)
ReadValidate(r, a, s) ==
    LET row == appt[a]
        slot == IF s = NoSlot THEN row.slot ELSE s
        preAck == IF policy.negotiate /\ s = NoSlot THEN row.counter ELSE "none" IN
    /\ "supplierValidate" \in Endpoints
    /\ row.status \in {"pending_supplier", "needs_repropose"}
    /\ s # NoSlot => s # row.slot
    /\ slot # NoSlot
    /\ row.supplier => HasCapacity(slot, a)
    /\ Begin(r, "validate", a,
             [Blank EXCEPT
                !.slot = slot,
                !.status = IF preAck = "manager" THEN "confirmed" ELSE "scheduled",
                !.mgr = (preAck = "manager"),
                !.ack = (preAck = "driver"),
                !.counter = IF s = NoSlot THEN "none" ELSE "supplier"])

Proposer(op) == CASE op = "proposeManager" -> "manager"
                  [] op = "proposeDriver" -> "driver"
                  [] OTHER -> "supplier"

WriteProposal_KeepsStamps(r) ==
    LET a == req[r].a
        w == req[r].row IN
    /\ CanWrite(r, {"proposeManager", "proposeDriver", "validate"})
    /\ appt' = [appt EXCEPT ![a] =
                  [appt[a] EXCEPT !.slot = w.slot, !.status = w.status,
                                  !.declined = FALSE, !.counter = w.counter]]
    /\ orders' = Replan(CaseOf[a], w.slot)
    /\ agreed' = [agreed EXCEPT ![a][Proposer(req[r].op)] = w.slot]
    /\ Done(r)
    /\ UNCHANGED <<policy, case>>

\* Both end in the same write: slot, status and stamps as decided, the
\* refusal cleared, the case's work orders re-planned.
WriteProposal(r) ==
    LET a == req[r].a
        w == req[r].row IN
    /\ CanWrite(r, {"proposeManager", "proposeDriver", "validate"})
    /\ appt' = [appt EXCEPT ![a] =
                  [@ EXCEPT !.slot = w.slot, !.status = w.status, !.mgr = w.mgr,
                            !.ack = w.ack, !.declined = FALSE, !.counter = w.counter]]
    /\ orders' = Replan(CaseOf[a], w.slot)
    /\ agreed' = [agreed EXCEPT ![a][Proposer(req[r].op)] = w.slot]
    /\ Done(r)
    /\ UNCHANGED <<policy, case>>

(***************************************************************************)
(* requestCancelAppointment: the supplier asks the fleet to cancel.        *)
(***************************************************************************)
ReadRequestCancel(r, a) ==
    /\ "requestCancel" \in Endpoints
    /\ appt[a].status \notin {"absent", "cancelled", "completed"}
    /\ ~appt[a].cancelReq
    /\ appt[a].supplier
    /\ Begin(r, "requestCancel", a, Blank)

WriteRequestCancel(r) ==
    /\ CanWrite(r, {"requestCancel"})
    /\ appt' = [appt EXCEPT ![req[r].a].cancelReq = TRUE]
    /\ Done(r)
    /\ UNCHANGED <<policy, case, orders, agreed>>
-----------------------------------------------------------------------------
(***************************************************************************)
(* The PATCH endpoints: updateAppointment (the case) and                   *)
(* AppointmentsService.update (the calendar, which alone checks capacity). *)
(* A body with several fields is modelled as one PATCH per field, slot     *)
(* first.  Nobody signs anything here.                                     *)
(***************************************************************************)
Patches == {"update", "calendarUpdate"} \cap Endpoints

ReadPatchStatus(r, a, st) ==
    /\ Patches # {}
    /\ Exists(a)
    /\ Begin(r, "patchStatus", a, [Blank EXCEPT !.status = st])

\* blocksSilentScheduledAtEdit
BlocksSilentEdit(row, s) ==
    /\ row.slot \notin {NoSlot, s}
    /\ row.status \in {"pending_supplier", "pending_fleet_peer", "scheduled",
                       "confirmed", "needs_repropose"}

ReadPatchSlot(r, a, s, endpoint) ==
    /\ endpoint \in Patches
    /\ Exists(a)
    /\ ~BlocksSilentEdit(appt[a], s)
    /\ endpoint = "calendarUpdate" /\ appt[a].supplier => HasCapacity(s, a)
    /\ Begin(r, "patchSlot", a, [Blank EXCEPT !.slot = s])

ReadPatchSupplier(r, a, supplier, endpoint) ==
    /\ endpoint \in Patches
    /\ Exists(a)
    /\ endpoint = "calendarUpdate" /\ supplier /\ appt[a].slot # NoSlot
         => HasCapacity(appt[a].slot, a)
    /\ Begin(r, "patchSupplier", a, [Blank EXCEPT !.supplier = supplier])

ReadPatchOverride(r, a, override) ==
    /\ Patches # {}
    /\ Exists(a)
    /\ Begin(r, "patchOverride", a, [Blank EXCEPT !.override = override])

WritePatch(r) ==
    LET op == req[r].op
        a == req[r].a
        c == CaseOf[a]
        row == appt[a]
        w == req[r].row IN
    /\ CanWrite(r, {"patchStatus", "patchSlot", "patchSupplier", "patchOverride"})
    /\ appt' = [appt EXCEPT ![a] =
         [row EXCEPT
            !.status = IF op = "patchStatus" THEN w.status ELSE row.status,
            !.slot = IF op = "patchSlot" THEN w.slot ELSE row.slot,
            !.supplier = IF op = "patchSupplier" THEN w.supplier ELSE row.supplier,
            !.override = IF op = "patchOverride" THEN w.override ELSE row.override]]
    /\ case' = IF op = "patchSupplier"
               THEN [case EXCEPT ![c].supplier = w.supplier] ELSE case
    /\ orders' = CASE op = "patchSlot" -> Replan(c, w.slot)
                   [] op = "patchSupplier" ->
                        {IF o.case = c THEN [o EXCEPT !.supplier = w.supplier] ELSE o :
                           o \in orders}
                   [] OTHER -> orders
    /\ Done(r)
    /\ UNCHANGED <<policy, agreed>>
-----------------------------------------------------------------------------
ReadNew(r) == \E a \in {b \in Appts : Fresh(b)} :
    \/ \E s \in OptSlot, supplier, bySupplier \in BOOLEAN, override \in Overrides,
          st \in FleetStatuses \cup {"absent"} :
            ReadCreate(r, a, s, supplier, bySupplier, st, override)
    \/ \E s \in Slots, supplier, partner, bySupplier \in BOOLEAN, override \in Overrides,
          second \in Appts \cup {NoAppt}, slot2 \in OptSlot :
            ReadCalendarCreate(r, a, s, supplier, partner, bySupplier, override,
                               second, slot2)

ReadRow(r) == \E a \in Appts :
    \/ ReadConfirm(r, a)
    \/ ReadAcknowledge(r, a)
    \/ ReadDecline(r, a)
    \/ \E s \in Slots, by \in {"manager", "driver"} : ReadRepropose(r, a, s, by)
    \/ \E s \in OptSlot : ReadValidate(r, a, s)
    \/ ReadRequestCancel(r, a)
    \/ \E st \in FleetStatuses : ReadPatchStatus(r, a, st)
    \/ \E s \in Slots, endpoint \in Patches : ReadPatchSlot(r, a, s, endpoint)
    \/ \E supplier \in BOOLEAN, endpoint \in Patches :
            ReadPatchSupplier(r, a, supplier, endpoint)
    \/ \E override \in Overrides : ReadPatchOverride(r, a, override)

Write(r) ==
    \/ WriteCreate(r)
    \/ WriteCalendarCreate(r)
    \/ WritePeerSignature(r)
    \/ WriteSignature(r)
    \/ ReuseOrder(r)
    \/ MissOrder(r)
    \/ TakeNumber(r)
    \/ InsertOrder(r)
    \/ NumberTaken(r)
    \/ WriteDecline(r)
    \/ WriteProposal(r)
    \/ WriteRequestCancel(r)
    \/ WritePatch(r)

Next == \E r \in Requests : ReadNew(r) \/ ReadRow(r) \/ Write(r)

Spec == Init /\ [][Next]_vars
-----------------------------------------------------------------------------
(***************************************************************************)
(* Properties.                                                             *)
(***************************************************************************)
\* A confirmed appointment with every required signature has its work order:
\* whichever signature comes last, and however the two interleave, the order
\* is opened (maybeCreateWorkOrderAfterDualConfirmTx is called by both).
KeysOpenOrder == \A a \in Appts : BothKeys(appt[a]) => OrdersOf(CaseOf[a]) # {}

\* A case has one work order: a second confirmed appointment uses it again
\* (docs/crm-service-flow-spec.md, 1.3).
OneOrderPerCase == \A o, p \in orders : o.case = p.case => o = p

\* A work order appears only in a step that leaves an appointment of its case
\* confirmed, signed by the manager, and by the driver when that is required.
OrderNeedsBothKeys == [][
    \A o \in orders' : (\A p \in orders : p.num # o.num) =>
        \E a \in Appts : CaseOf[a] = o.case /\ BothKeys(appt'[a]) ]_vars

\* A confirmed appointment at a supplier has a slot the supplier accepted or
\* gave (resolveInitialAppointmentStatus: what the fleet proposes waits for the
\* supplier's validation when there is a supplier).
SupplierAccepted == \A a \in Appts :
    appt[a].status = "confirmed" /\ appt[a].supplier
      => agreed[a]["supplier"] = appt[a].slot

\* Whoever's stamp is on an appointment named the slot the appointment has
\* now: a new date takes every other stamp off.
StampsMatchSlot == \A a \in Appts :
    /\ appt[a].mgr => agreed[a]["manager"] = appt[a].slot
    /\ appt[a].ack => agreed[a]["driver"] = appt[a].slot

\* A refusal stays on the table: while driverDeclinedAt is set the appointment
\* waits for another date and carries no signature (confirmAppointment answers
\* that a refused appointment needs a new date).
RefusalParks == \A a \in Appts :
    /\ appt[a].declined <=> appt[a].status = "needs_repropose"
    /\ appt[a].declined => ~appt[a].mgr /\ ~appt[a].ack

\* A supplier never has more overlapping active appointments than its
\* slotCapacity (SCHED-004).
CapacityRespected == \A s \in Slots : Cardinality(Load(s, NoAppt)) <= Capacity

\* A work order is planned at the slot of an appointment of its case: every
\* endpoint that moves a slot re-plans the orders.
PlannedAtAppointment == \A o \in orders :
    \E a \in Appts : CaseOf[a] = o.case /\ Exists(a) /\ appt[a].slot = o.planned

\* Fleet-first mode: an appointment that goes back to the supplier has passed
\* through the other half of the fleet, which has named a slot too.
PeerBeforeSupplier == [][
    \A a \in Appts :
        /\ FleetFirst
        /\ appt[a].status \notin {"absent", "pending_supplier"}
        /\ appt'[a].status = "pending_supplier"
        => /\ appt[a].status = "pending_fleet_peer"
           /\ agreed'[a]["manager"] # NoSlot
           /\ agreed'[a]["driver"] # NoSlot ]_vars

\* What a client of the signing endpoints sees of the rows is a behaviour of
\* DualConfirm: with one appointment per case, however the requests interleave, the
\* order appears with the last signature, once per case, and numbers are consecutive.
Dual == INSTANCE DualConfirm WITH
            signed <- {a \in Appts : BothKeys(appt[a])},
            opened <- {<<o.case, o.num>> : o \in orders}
SignsLikeDualConfirm == Dual!Spec
=============================================================================
