---------------------- MODULE ServiceAppointment_proofs ----------------------
(***************************************************************************)
(* Proofs about ServiceAppointment, for every set of cases, appointments,  *)
(* slots and concurrent requests: the types; one order per case; the order *)
(* and the signatures, each way; the refinement of DualConfirm; and, while *)
(* no two requests are about the same appointment, the stamps, refusals,   *)
(* the supplier's answer and capacity, the date of the orders, the peers.  *)
(***************************************************************************)
EXTENDS ServiceAppointment, FiniteSetTheorems, TLAPS

-----------------------------------------------------------------------------
(***************************************************************************)
(* Type correctness.                                                       *)
(***************************************************************************)
LEMMA BlankTyped == Blank \in ApptRow
BY DEF Blank, ApptRow, OptSlot, Statuses, Counters

LEMMA IdleTyped == Idle \in Request /\ Idle.pc = "idle"
<1>1. NoCase \in CaseRow
  BY DEF NoCase, CaseRow
<1> QED
  BY <1>1, BlankTyped DEF Idle, Request, Ops, OptSlot

LEMMA BeginTyped ==
  ASSUME TypeOK, NEW r \in Requests, NEW op \in Ops, NEW a \in Appts,
         NEW row \in ApptRow, Begin(r, op, a, row)
  PROVE  TypeOK'
<1>1. [Idle EXCEPT !.pc = "write", !.op = op, !.a = a, !.row = row] \in Request
  BY IdleTyped DEF Request
<1> DEFINE new == [Idle EXCEPT !.pc = "write", !.op = op, !.a = a, !.row = row]
<1>2. new.a = a
  BY DEF Idle
<1> HIDE DEF new
<1>3. req' = [req EXCEPT ![r] = new]
  BY DEF Begin, new
<1>4. req' \in [Requests -> Request]
  BY <1>1, <1>3 DEF TypeOK, new
<1>5. \A q \in Requests : req'[q].pc # "idle" => req'[q].a \in Appts
  BY <1>2, <1>3 DEF TypeOK
<1> QED
  BY <1>4, <1>5 DEF TypeOK, Begin

\* A request that ends leaves a well-typed request table.
LEMMA DoneTyped ==
  ASSUME TypeOK, NEW r \in Requests, Done(r)
  PROVE  /\ req' \in [Requests -> Request]
         /\ \A q \in Requests : req'[q].pc # "idle" => req'[q].a \in Appts
BY IdleTyped DEF TypeOK, Done

LEMMA SeenTyped ==
  ASSUME TypeOK, ConstantsAssumption, NEW a \in Appts
  PROVE  Seen(a) \in ApptRow
<1>1. CaseOf[a] \in Cases /\ case[CaseOf[a]] \in CaseRow /\ appt[a] \in ApptRow
  BY DEF TypeOK, ConstantsAssumption
<1>2. appt[a].slot \in OptSlot /\ (appt[a].supplier \/ case[CaseOf[a]].supplier) \in BOOLEAN
  BY <1>1 DEF ApptRow
<1> QED
  BY <1>2, BlankTyped DEF Seen, ApptRow

\* A read step of an endpoint on an existing row.
LEMMA ReadRowTyped ==
  ASSUME TypeOK, ConstantsAssumption, NEW r \in Requests, ReadRow(r)
  PROVE  TypeOK'
<1> PICK a \in Appts :
      \/ ReadConfirm(r, a)
      \/ ReadAcknowledge(r, a)
      \/ ReadDecline(r, a)
      \/ \E s \in Slots, by \in {"manager", "driver"} : ReadRepropose(r, a, s, by)
      \/ \E s \in OptSlot : ReadValidate(r, a, s)
      \/ ReadRequestCancel(r, a)
      \/ \E st \in FleetStatuses : ReadPatchStatus(r, a, st)
      \/ \E s \in Slots, endpoint \in Patches : ReadPatchSlot(r, a, s, endpoint)
      \/ \E supplier \in BOOLEAN, endpoint \in Patches :
            ReadPatchSupplier(r, a, supplier, endpoint)
      \/ \E override \in Overrides : ReadPatchOverride(r, a, override)
  BY DEF ReadRow
<1>1. CASE ReadConfirm(r, a) \/ ReadAcknowledge(r, a)
  <2>1. PICK op \in Ops : Begin(r, op, a, Seen(a))
    BY <1>1 DEF ReadConfirm, ReadAcknowledge, Ops
  <2> QED
    BY <2>1, SeenTyped, BeginTyped
<1>2. CASE ReadDecline(r, a) \/ ReadRequestCancel(r, a)
  <2>1. PICK op \in Ops : Begin(r, op, a, Blank)
    BY <1>2 DEF ReadDecline, ReadRequestCancel, Ops
  <2> QED
    BY <2>1, BlankTyped, BeginTyped
<1>3. CASE \E s \in Slots, by \in {"manager", "driver"} : ReadRepropose(r, a, s, by)
  <2> PICK s \in Slots, by \in {"manager", "driver"} : ReadRepropose(r, a, s, by)
    BY <1>3
  <2> DEFINE next == NextStatus(appt[a], by)
             preAck == policy.negotiate /\ next = "scheduled"
             row == [Blank EXCEPT
                !.slot = s,
                !.status = IF preAck /\ by = "manager" THEN "confirmed" ELSE next,
                !.mgr = preAck /\ by = "manager",
                !.ack = preAck /\ by = "driver",
                !.counter = IF next = "scheduled" THEN "none" ELSE by]
             op == IF by = "manager" THEN "proposeManager" ELSE "proposeDriver"
  <2>1. next \in Statuses
    BY DEF NextStatus, Statuses
  <2>2. row \in ApptRow
    <3> DEFINE status == IF preAck /\ by = "manager" THEN "confirmed" ELSE next
               mgr == preAck /\ by = "manager"
               ack == preAck /\ by = "driver"
               counter == IF next = "scheduled" THEN "none" ELSE by
    <3>1. status \in Statuses
      BY <2>1 DEF Statuses
    <3>2. mgr \in BOOLEAN /\ ack \in BOOLEAN
      OBVIOUS
    <3>3. counter \in Counters /\ s \in OptSlot
      BY DEF Counters, OptSlot
    <3>4. row = [Blank EXCEPT !.slot = s, !.status = status, !.mgr = mgr, !.ack = ack,
                              !.counter = counter]
      OBVIOUS
    <3> HIDE DEF row, status, mgr, ack, counter
    <3> QED
      BY <3>1, <3>2, <3>3, <3>4, BlankTyped DEF ApptRow
  <2>3. Begin(r, op, a, row)
    BY DEF ReadRepropose
  <2>4. op \in Ops
    BY DEF Ops
  <2> HIDE DEF row, op
  <2> QED
    BY <2>2, <2>3, <2>4, BeginTyped
<1>4. CASE \E s \in OptSlot : ReadValidate(r, a, s)
  <2> PICK s \in OptSlot : ReadValidate(r, a, s)
    BY <1>4
  <2> DEFINE slot == IF s = NoSlot THEN appt[a].slot ELSE s
             preAck == IF policy.negotiate /\ s = NoSlot THEN appt[a].counter ELSE "none"
             row == [Blank EXCEPT
                !.slot = slot,
                !.status = IF preAck = "manager" THEN "confirmed" ELSE "scheduled",
                !.mgr = (preAck = "manager"),
                !.ack = (preAck = "driver"),
                !.counter = IF s = NoSlot THEN "none" ELSE "supplier"]
  <2>1. slot \in OptSlot
    BY DEF TypeOK, ApptRow
  <2>2. row \in ApptRow
    <3> HIDE DEF slot, preAck
    <3> QED
      BY ZenonT(30), <2>1, BlankTyped DEF ApptRow, Counters, Statuses
  <2>3. Begin(r, "validate", a, row)
    BY DEF ReadValidate
  <2> HIDE DEF row
  <2> QED
    BY <2>2, <2>3, BeginTyped DEF Ops
<1>5. CASE \E st \in FleetStatuses : ReadPatchStatus(r, a, st)
  <2> PICK st \in FleetStatuses : Begin(r, "patchStatus", a, [Blank EXCEPT !.status = st])
    BY <1>5 DEF ReadPatchStatus
  <2>1. [Blank EXCEPT !.status = st] \in ApptRow
    BY BlankTyped DEF ApptRow, ConstantsAssumption
  <2> QED
    BY <2>1, BeginTyped DEF Ops
<1>6. CASE \E s \in Slots, endpoint \in Patches : ReadPatchSlot(r, a, s, endpoint)
  <2> PICK s \in Slots : Begin(r, "patchSlot", a, [Blank EXCEPT !.slot = s])
    BY <1>6 DEF ReadPatchSlot
  <2>1. [Blank EXCEPT !.slot = s] \in ApptRow
    BY BlankTyped DEF ApptRow, OptSlot
  <2> QED
    BY <2>1, BeginTyped DEF Ops
<1>7. CASE \E supplier \in BOOLEAN, endpoint \in Patches :
             ReadPatchSupplier(r, a, supplier, endpoint)
  <2> PICK supplier \in BOOLEAN :
           Begin(r, "patchSupplier", a, [Blank EXCEPT !.supplier = supplier])
    BY <1>7 DEF ReadPatchSupplier
  <2>1. [Blank EXCEPT !.supplier = supplier] \in ApptRow
    BY BlankTyped DEF ApptRow
  <2> QED
    BY <2>1, BeginTyped DEF Ops
<1>8. CASE \E override \in Overrides : ReadPatchOverride(r, a, override)
  <2> PICK override \in Overrides :
           Begin(r, "patchOverride", a, [Blank EXCEPT !.override = override])
    BY <1>8 DEF ReadPatchOverride
  <2>1. [Blank EXCEPT !.override = override] \in ApptRow
    BY BlankTyped DEF ApptRow, ConstantsAssumption
  <2> QED
    BY <2>1, BeginTyped DEF Ops
<1> QED
  BY <1>1, <1>2, <1>3, <1>4, <1>5, <1>6, <1>7, <1>8

LEMMA CreateTyped ==
  ASSUME TypeOK, ConstantsAssumption, NEW r \in Requests, NEW op \in Ops,
         NEW a \in Appts, NEW row \in ApptRow, NEW second \in Appts \cup {NoAppt},
         NEW slot2 \in OptSlot, Create(r, op, a, row, second, slot2)
  PROVE  TypeOK'
<1> DEFINE new == [Idle EXCEPT !.pc = "write", !.op = op, !.a = a, !.second = second,
                               !.slot2 = slot2, !.row = row, !.read = case[CaseOf[a]]]
<1>1. case[CaseOf[a]] \in CaseRow
  BY DEF TypeOK, ConstantsAssumption
<1>2. new \in Request /\ new.a = a
  BY <1>1, IdleTyped DEF Request
<1>3. req' = [req EXCEPT ![r] = new]
  BY DEF Create
<1> HIDE DEF new
<1>4. req' \in [Requests -> Request]
  BY <1>2, <1>3 DEF TypeOK
<1>5. \A q \in Requests : req'[q].pc # "idle" => req'[q].a \in Appts
  BY <1>2, <1>3 DEF TypeOK
<1> QED
  BY <1>4, <1>5 DEF TypeOK, Create

LEMMA NewRowTyped ==
  ASSUME NEW s \in OptSlot, NEW supplier \in BOOLEAN, NEW status \in Statuses,
         NEW bySupplier \in BOOLEAN, NEW override \in {"inherit", "required", "waived"}
  PROVE  NewRow(s, supplier, status, bySupplier, override) \in ApptRow
<1>1. InitialCounter(status, bySupplier) \in Counters
  BY DEF InitialCounter, Counters
<1> QED
  BY <1>1, BlankTyped DEF NewRow, ApptRow

\* A read step of an endpoint that makes a row.
LEMMA ReadNewTyped ==
  ASSUME TypeOK, ConstantsAssumption, NEW r \in Requests, ReadNew(r)
  PROVE  TypeOK'
<1> PICK a \in Appts :
      \/ \E s \in OptSlot, supplier, bySupplier \in BOOLEAN, override \in Overrides,
            st \in FleetStatuses \cup {"absent"} :
              ReadCreate(r, a, s, supplier, bySupplier, st, override)
      \/ \E s \in Slots, supplier, partner, bySupplier \in BOOLEAN, override \in Overrides,
            second \in Appts \cup {NoAppt}, slot2 \in OptSlot :
              ReadCalendarCreate(r, a, s, supplier, partner, bySupplier, override,
                                 second, slot2)
  BY DEF ReadNew
<1>1. CASE \E s \in OptSlot, supplier, bySupplier \in BOOLEAN, override \in Overrides,
             st \in FleetStatuses \cup {"absent"} :
               ReadCreate(r, a, s, supplier, bySupplier, st, override)
  <2> PICK s \in OptSlot, supplier \in BOOLEAN, bySupplier \in BOOLEAN,
           override \in Overrides, st \in FleetStatuses \cup {"absent"} :
             ReadCreate(r, a, s, supplier, bySupplier, st, override)
    BY <1>1
  <2> DEFINE status == IF st = "absent" THEN InitialStatus(supplier, bySupplier) ELSE st
             row == NewRow(s, supplier, status, bySupplier, override)
  <2>1. status \in Statuses
    BY DEF InitialStatus, Statuses, ConstantsAssumption
  <2>2. override \in {"inherit", "required", "waived"}
    BY DEF ConstantsAssumption
  <2>3. Create(r, "create", a, row, NoAppt, NoSlot)
    BY DEF ReadCreate
  <2> HIDE DEF status
  <2>4. row \in ApptRow
    BY <2>1, <2>2, NewRowTyped
  <2> HIDE DEF row
  <2>5. "create" \in Ops /\ NoSlot \in OptSlot
    BY DEF Ops, OptSlot
  <2> QED
    BY <2>3, <2>4, <2>5, CreateTyped
<1>2. CASE \E s \in Slots, supplier, partner, bySupplier \in BOOLEAN,
             override \in Overrides, second \in Appts \cup {NoAppt}, slot2 \in OptSlot :
               ReadCalendarCreate(r, a, s, supplier, partner, bySupplier, override,
                                  second, slot2)
  <2> PICK s \in Slots, supplier \in BOOLEAN, partner \in BOOLEAN, bySupplier \in BOOLEAN,
           override \in Overrides, second \in Appts \cup {NoAppt}, slot2 \in OptSlot :
             ReadCalendarCreate(r, a, s, supplier, partner, bySupplier, override,
                                second, slot2)
    BY <1>2
  <2> DEFINE row == NewRow(s, supplier, InitialStatus(supplier, bySupplier), bySupplier,
                           override)
             op == IF partner THEN "createPartner" ELSE "createCalendar"
  <2>1. InitialStatus(supplier, bySupplier) \in Statuses /\ s \in OptSlot
    BY DEF InitialStatus, Statuses, OptSlot
  <2>2. override \in {"inherit", "required", "waived"}
    BY DEF ConstantsAssumption
  <2>3. Create(r, op, a, row, second, slot2)
    BY DEF ReadCalendarCreate
  <2>4. row \in ApptRow
    BY <2>1, <2>2, NewRowTyped
  <2>5. op \in Ops
    BY DEF Ops
  <2> HIDE DEF row, op
  <2> QED
    BY <2>3, <2>4, <2>5, CreateTyped
<1> QED
  BY <1>1, <1>2

\* The transaction of a request writes the row of its appointment.
LEMMA RowWritten ==
  ASSUME TypeOK, NEW a, NEW row \in ApptRow, appt' = [appt EXCEPT ![a] = row]
  PROVE  appt' \in [Appts -> ApptRow]
BY DEF TypeOK

LEMMA AgreementWritten ==
  ASSUME TypeOK, NEW a, NEW p \in Parties, NEW s \in OptSlot,
         agreed' = [agreed EXCEPT ![a][p] = s]
  PROVE  agreed' \in [Appts -> Agreement]
BY DEF TypeOK, Agreement

LEMMA ReplanTyped ==
  ASSUME TypeOK, NEW c, NEW s \in OptSlot
  PROVE  Replan(c, s) \subseteq WorkOrder
BY DEF TypeOK, Replan, WorkOrder

LEMMA SignedTyped ==
  ASSUME TypeOK, NEW r \in Requests, req[r].a \in Appts
  PROVE  Signed(r) \in ApptRow
<1>1. appt[req[r].a] \in ApptRow
  BY DEF TypeOK
<1> QED
  BY <1>1 DEF Signed, ApptRow, Statuses, Counters

LEMMA SignTyped ==
  ASSUME TypeOK, NEW r \in Requests, Sign(r)
  PROVE  agreed' \in [Appts -> Agreement]
<1>1. Signer(req[r].op) \in Parties /\ req[r].row.slot \in OptSlot
  BY DEF Signer, Parties, TypeOK, Request, ApptRow
<1> QED
  BY <1>1, AgreementWritten DEF Sign

LEMMA OpenGateTyped ==
  ASSUME TypeOK, NEW r \in Requests, NEW read \in CaseRow, NEW new \in SUBSET WorkOrder,
         req[r].a \in Appts, OpenGate(r, read, new)
  PROVE  TypeOK'
<1> DEFINE c == CaseOf[req[r].a]
           supplier == req[r].row.supplier \/ read.supplier
<1>1. appt' \in [Appts -> ApptRow]
  BY SignedTyped, RowWritten DEF OpenGate
<1>2. agreed' \in [Appts -> Agreement]
  BY SignTyped DEF OpenGate
<1>3. case' \in [Cases -> CaseRow]
  <2> DEFINE stage == IF read.stage = "work_order" THEN case[c].stage ELSE "work_order"
  <2>1. c \in Cases => stage \in {"intake", "scheduled", "work_order"}
    BY DEF TypeOK, CaseRow
  <2>2. case' = [case EXCEPT ![c].stage = stage]
    BY DEF OpenGate
  <2> HIDE DEF stage, c
  <2> QED
    BY <2>1, <2>2 DEF TypeOK, CaseRow
<1>4. orders' \subseteq WorkOrder
  <2>1. supplier \in BOOLEAN /\ req[r].row.slot \in OptSlot
    BY DEF TypeOK, Request, ApptRow
  <2>2. orders' = {IF o.case = c
                   THEN [o EXCEPT !.planned = req[r].row.slot, !.supplier = supplier]
                   ELSE o : o \in orders \cup new}
    BY DEF OpenGate
  <2>3. orders \cup new \subseteq WorkOrder
    BY DEF TypeOK
  <2> HIDE DEF supplier, c
  <2> QED
    BY <2>1, <2>2, <2>3 DEF WorkOrder
<1> QED
  BY <1>1, <1>2, <1>3, <1>4, DoneTyped DEF TypeOK, OpenGate

LEMMA CreatorTyped ==
  ASSUME NEW row \in ApptRow
  PROVE  Creator(row) \in Parties
BY DEF Creator, Parties, ApptRow, Counters

LEMMA WriteCreateTyped ==
  ASSUME TypeOK, ConstantsAssumption, NEW r \in Requests, WriteCreate(r)
  PROVE  TypeOK'
<1> DEFINE a == req[r].a
           c == CaseOf[a]
           row == req[r].row
           read == req[r].read
<1>1. a \in Appts /\ c \in Cases /\ row \in ApptRow /\ read \in CaseRow
  BY DEF WriteCreate, CanWrite, TypeOK, Request, ConstantsAssumption
<1>2. appt' \in [Appts -> ApptRow]
  BY <1>1, RowWritten DEF WriteCreate
<1>3. agreed' \in [Appts -> Agreement]
  <2>1. row.slot \in OptSlot /\ Creator(row) \in Parties
    BY <1>1, CreatorTyped DEF ApptRow
  <2>2. NoAgreement \in Agreement
    BY DEF NoAgreement, Agreement, OptSlot
  <2>3. [NoAgreement EXCEPT ![Creator(row)] = row.slot] \in Agreement
    BY <2>1, <2>2 DEF Agreement
  <2>4. agreed' = [agreed EXCEPT ![a] = [NoAgreement EXCEPT ![Creator(row)] = row.slot]]
    BY DEF WriteCreate
  <2> QED
    BY <2>3, <2>4 DEF TypeOK
<1>4. case' \in [Cases -> CaseRow]
  <2> DEFINE new == IF read.stage = "intake"
                    THEN [stage |-> "scheduled", supplier |-> row.supplier]
                    ELSE IF row.supplier # read.supplier
                         THEN [case[c] EXCEPT !.supplier = row.supplier]
                         ELSE case[c]
  <2>1. new \in CaseRow
    BY <1>1 DEF TypeOK, CaseRow, ApptRow
  <2>2. case' = [case EXCEPT ![c] = new]
    BY DEF WriteCreate
  <2> HIDE DEF new
  <2> QED
    BY <2>1, <2>2 DEF TypeOK
<1>5. orders' \subseteq WorkOrder
  <2>1. orders' = {IF o.case # c THEN o
                   ELSE [o EXCEPT !.planned = IF row.slot = NoSlot THEN @ ELSE row.slot,
                                  !.supplier = row.supplier] : o \in orders}
    BY DEF WriteCreate
  <2>2. row.slot \in OptSlot /\ row.supplier \in BOOLEAN
    BY <1>1 DEF ApptRow
  <2>3. ASSUME NEW o \in orders
        PROVE  [o EXCEPT !.planned = IF row.slot = NoSlot THEN @ ELSE row.slot,
                         !.supplier = row.supplier] \in WorkOrder
    BY <2>2 DEF TypeOK, WorkOrder
  <2> DEFINE change(o) == [o EXCEPT !.planned = IF row.slot = NoSlot THEN @ ELSE row.slot,
                                    !.supplier = row.supplier]
  <2>4. orders' = {IF o.case # c THEN o ELSE change(o) : o \in orders}
    BY <2>1
  <2>5. \A o \in orders : o \in WorkOrder /\ change(o) \in WorkOrder
    BY <2>3 DEF TypeOK
  <2> HIDE DEF change, c
  <2> QED
    BY <2>4, <2>5
<1> QED
  BY <1>2, <1>3, <1>4, <1>5, DoneTyped DEF TypeOK, WriteCreate

LEMMA WriteCalendarCreateTyped ==
  ASSUME TypeOK, ConstantsAssumption, NEW r \in Requests, WriteCalendarCreate(r)
  PROVE  TypeOK'
<1> DEFINE a == req[r].a
           c == CaseOf[a]
           partner == req[r].op = "createPartner"
           row == [req[r].row EXCEPT !.supplier = @ \/ case[c].supplier]
           rows == IF req[r].second = NoAppt THEN {a} ELSE {a, req[r].second}
           slotOf(b) == IF b = a THEN row.slot ELSE req[r].slot2
<1>1. a \in Appts /\ c \in Cases /\ row \in ApptRow /\ req[r].row.supplier \in BOOLEAN
  <2>1. a \in Appts /\ c \in Cases
    BY DEF WriteCalendarCreate, CanWrite, TypeOK, ConstantsAssumption
  <2>2. case[c].supplier \in BOOLEAN /\ req[r].row \in ApptRow
    BY <2>1 DEF TypeOK, CaseRow, Request
  <2> HIDE DEF a, c
  <2>3. req[r].row.supplier \in BOOLEAN
    BY <2>2 DEF ApptRow
  <2>4. row \in ApptRow
    BY <2>2, <2>3 DEF ApptRow
  <2> QED
    BY <2>1, <2>3, <2>4
<1>2. \A b : slotOf(b) \in OptSlot
  BY <1>1 DEF TypeOK, Request, ApptRow
<1>3. Done(r) /\ UNCHANGED policy
  BY DEF WriteCalendarCreate
<1>4. CASE UNCHANGED <<appt, case, orders, agreed>>
  BY <1>3, <1>4, DoneTyped DEF TypeOK
<1>5. CASE ~UNCHANGED <<appt, case, orders, agreed>>
  <2>1. /\ appt' = [b \in Appts |-> IF b \in rows THEN [row EXCEPT !.slot = slotOf(b)]
                                                  ELSE appt[b]]
        /\ agreed' = [b \in Appts |->
                        IF b \in rows
                        THEN [NoAgreement EXCEPT ![Creator(row)] = slotOf(b)]
                        ELSE agreed[b]]
        /\ case' = [case EXCEPT ![c] = IF @.stage = "intake"
                      THEN [stage |-> "scheduled", supplier |-> row.supplier] ELSE @]
        /\ orders' = {IF o.case # c \/ (partner /\ ~o.supplier) THEN o
                      ELSE [o EXCEPT !.planned = row.slot,
                                     !.supplier = @ \/ req[r].row.supplier] : o \in orders}
    BY <1>5 DEF WriteCalendarCreate
  <2> HIDE DEF rows, row, c, a, slotOf, partner
  <2>2. appt' \in [Appts -> ApptRow]
    <3>1. \A b \in Appts : [row EXCEPT !.slot = slotOf(b)] \in ApptRow
      BY <1>1, <1>2 DEF ApptRow
    <3> QED
      BY <2>1, <3>1 DEF TypeOK
  <2>3. agreed' \in [Appts -> Agreement]
    <3>1. NoAgreement \in Agreement
      BY DEF NoAgreement, Agreement, OptSlot
    <3>2. \A b \in Appts : [NoAgreement EXCEPT ![Creator(row)] = slotOf(b)] \in Agreement
      BY <1>2, <3>1 DEF Agreement
    <3> QED
      BY <2>1, <3>2 DEF TypeOK
  <2>4. case' \in [Cases -> CaseRow]
    <3> DEFINE new == IF case[c].stage = "intake"
                      THEN [stage |-> "scheduled", supplier |-> row.supplier] ELSE case[c]
    <3>1. new \in CaseRow
      BY <1>1 DEF TypeOK, CaseRow, ApptRow
    <3>2. case' = [case EXCEPT ![c] = new]
      BY <2>1
    <3> HIDE DEF new
    <3> QED
      BY <3>1, <3>2 DEF TypeOK
  <2>5. orders' \subseteq WorkOrder
    <3>1. ASSUME NEW o \in orders
          PROVE  [o EXCEPT !.planned = row.slot,
                           !.supplier = @ \/ req[r].row.supplier] \in WorkOrder
      BY ZenonT(30), <1>1 DEF TypeOK, WorkOrder, ApptRow
    <3> QED
      BY ZenonT(30), <2>1, <3>1 DEF TypeOK
  <2> QED
    BY <1>3, <2>2, <2>3, <2>4, <2>5, DoneTyped DEF TypeOK
<1> QED
  BY <1>4, <1>5

LEMMA SignatureTyped ==
  ASSUME TypeOK, ConstantsAssumption, NEW r \in Requests,
         \/ WritePeerSignature(r)
         \/ WriteSignature(r)
         \/ ReuseOrder(r)
         \/ MissOrder(r)
         \/ TakeNumber(r)
         \/ InsertOrder(r)
         \/ NumberTaken(r)
  PROVE  TypeOK'
<1> DEFINE a == req[r].a
           c == CaseOf[a]
<1>0. a \in Appts /\ c \in Cases /\ case[c] \in CaseRow /\ req[r] \in Request
  BY DEF WritePeerSignature, WriteSignature, ReuseOrder, MissOrder, TakeNumber, InsertOrder,
         NumberTaken, CanWrite, TypeOK, ConstantsAssumption
<1>1. CASE WritePeerSignature(r)
  <2> DEFINE manager == req[r].op = "confirmPeer"
             mgr == appt[a].mgr \/ manager
             ack == appt[a].ack \/ ~manager
             row == [appt[a] EXCEPT !.status = "pending_supplier", !.mgr = mgr, !.ack = ack]
  <2>1. appt[a] \in ApptRow
    BY <1>0 DEF TypeOK
  <2>2. mgr \in BOOLEAN /\ ack \in BOOLEAN
    OBVIOUS
  <2>3. row \in ApptRow
    <3> HIDE DEF mgr, ack
    <3> QED
      BY <2>1, <2>2 DEF ApptRow, Statuses
  <2>4. appt' = [appt EXCEPT ![a] = row]
    BY <1>1 DEF WritePeerSignature
  <2> HIDE DEF row, a
  <2>5. appt' \in [Appts -> ApptRow]
    BY <2>3, <2>4, RowWritten
  <2> QED
    BY <1>1, <2>5, SignTyped, DoneTyped DEF TypeOK, WritePeerSignature
<1>2. CASE WriteSignature(r)
  <2>1. appt' \in [Appts -> ApptRow]
    BY <1>0, <1>2, SignedTyped, RowWritten DEF WriteSignature
  <2> QED
    BY <1>2, <2>1, SignTyped, DoneTyped DEF TypeOK, WriteSignature
<1>3. CASE ReuseOrder(r)
  BY <1>0, <1>3, OpenGateTyped DEF ReuseOrder
<1>4. CASE MissOrder(r)
  <2> DEFINE new == [req[r] EXCEPT !.pc = "number", !.read = case[c]]
  <2>1. new \in Request /\ new.a = a
    BY <1>0 DEF Request
  <2>2. req' = [req EXCEPT ![r] = new]
    BY <1>4 DEF MissOrder, Miss
  <2> HIDE DEF new
  <2>3. req' \in [Requests -> Request]
    BY <2>1, <2>2 DEF TypeOK
  <2>4. \A q \in Requests : req'[q].pc # "idle" => req'[q].a \in Appts
    BY <1>0, <2>1, <2>2 DEF TypeOK
  <2> QED
    BY <1>4, <2>3, <2>4 DEF TypeOK, MissOrder, Miss
<1>5. CASE TakeNumber(r)
  <2> PICK n \in {1} \cup {o.num + 1 : o \in orders} :
             req' = [req EXCEPT ![r].pc = "insert", ![r].num = n]
    BY <1>5 DEF TakeNumber
  <2>0. n \in Nat
    BY DEF TypeOK, WorkOrder
  <2> DEFINE new == [req[r] EXCEPT !.pc = "insert", !.num = n]
  <2>1. new \in Request /\ new.a = a
    BY <1>0, <2>0 DEF Request
  <2>2. req' = [req EXCEPT ![r] = new]
    OBVIOUS
  <2> HIDE DEF new
  <2>3. req' \in [Requests -> Request]
    BY <2>1, <2>2 DEF TypeOK
  <2>4. \A q \in Requests : req'[q].pc # "idle" => req'[q].a \in Appts
    BY <1>0, <2>1, <2>2 DEF TypeOK
  <2> QED
    BY <1>5, <2>3, <2>4 DEF TypeOK, TakeNumber
<1>6. CASE InsertOrder(r)
  <2> DEFINE supplier == req[r].row.supplier \/ req[r].read.supplier
             order == [case |-> c, num |-> req[r].num, planned |-> NoSlot,
                       supplier |-> supplier,
                       status |-> IF supplier THEN "sent" ELSE "draft"]
  <2>1. req[r].num \in Nat /\ req[r].read \in CaseRow
    BY <1>0 DEF Request
  <2>2. order \in WorkOrder
    BY <1>0, <2>1 DEF WorkOrder, OptSlot
  <2>3. OpenGate(r, req[r].read, {order})
    BY <1>6 DEF InsertOrder, NewOrder
  <2> HIDE DEF order
  <2>4. {order} \in SUBSET WorkOrder
    BY <2>2
  <2> QED
    BY <1>0, <2>1, <2>3, <2>4, OpenGateTyped
<1>7. CASE NumberTaken(r)
  BY <1>7, DoneTyped DEF TypeOK, NumberTaken
<1> QED
  BY <1>1, <1>2, <1>3, <1>4, <1>5, <1>6, <1>7

LEMMA OtherWriteTyped ==
  ASSUME TypeOK, ConstantsAssumption, NEW r \in Requests,
         WriteDecline(r) \/ WriteProposal(r) \/ WriteRequestCancel(r) \/ WritePatch(r)
  PROVE  TypeOK'
<1> DEFINE a == req[r].a
           c == CaseOf[a]
           w == req[r].row
           op == req[r].op
<1>0. a \in Appts /\ c \in Cases /\ appt[a] \in ApptRow /\ w \in ApptRow
  BY DEF WriteDecline, WriteProposal, WriteRequestCancel, WritePatch, CanWrite, TypeOK,
         Request, ConstantsAssumption
<1>1. CASE WriteDecline(r)
  <2> DEFINE row == [appt[a] EXCEPT !.status = "needs_repropose", !.declined = TRUE,
                                    !.mgr = FALSE, !.ack = FALSE]
  <2>1. row \in ApptRow
    BY <1>0 DEF ApptRow, Statuses
  <2>2. appt' = [appt EXCEPT ![a] = row]
    BY <1>1 DEF WriteDecline
  <2> HIDE DEF row, a
  <2> QED
    BY <1>1, <2>1, <2>2, RowWritten, DoneTyped DEF TypeOK, WriteDecline
<1>2. CASE WriteProposal(r)
  <2> DEFINE row == [appt[a] EXCEPT !.slot = w.slot, !.status = w.status, !.mgr = w.mgr,
                               !.ack = w.ack, !.declined = FALSE, !.counter = w.counter]
  <2>1. row \in ApptRow
    BY <1>0 DEF ApptRow
  <2>2. appt' = [appt EXCEPT ![a] = row]
    BY <1>2 DEF WriteProposal
  <2>3. Proposer(op) \in Parties /\ w.slot \in OptSlot
    BY <1>0 DEF Proposer, Parties, ApptRow
  <2>4. agreed' = [agreed EXCEPT ![a][Proposer(op)] = w.slot] /\ orders' = Replan(c, w.slot)
    BY <1>2 DEF WriteProposal
  <2> HIDE DEF row, a, c, op, w
  <2>5. agreed' \in [Appts -> Agreement] /\ orders' \subseteq WorkOrder
    BY <2>3, <2>4, AgreementWritten, ReplanTyped
  <2> QED
    BY <1>2, <2>1, <2>2, <2>5, RowWritten, DoneTyped DEF TypeOK, WriteProposal
<1>3. CASE WriteRequestCancel(r)
  <2> DEFINE row == [appt[a] EXCEPT !.cancelReq = TRUE]
  <2>1. row \in ApptRow
    BY <1>0 DEF ApptRow
  <2>2. appt' = [appt EXCEPT ![a] = row]
    BY <1>3 DEF WriteRequestCancel
  <2> HIDE DEF row, a
  <2> QED
    BY <1>3, <2>1, <2>2, RowWritten, DoneTyped DEF TypeOK, WriteRequestCancel
<1>4. CASE WritePatch(r)
  <2> DEFINE status == IF op = "patchStatus" THEN w.status ELSE appt[a].status
             slot == IF op = "patchSlot" THEN w.slot ELSE appt[a].slot
             supplier == IF op = "patchSupplier" THEN w.supplier ELSE appt[a].supplier
             override == IF op = "patchOverride" THEN w.override ELSE appt[a].override
             row == [appt[a] EXCEPT !.status = status, !.slot = slot,
                                    !.supplier = supplier, !.override = override]
  <2>1. /\ status \in Statuses \cup {"absent"} /\ slot \in OptSlot
        /\ supplier \in BOOLEAN /\ override \in {"inherit", "required", "waived"}
        /\ w.slot \in OptSlot /\ w.supplier \in BOOLEAN
    BY <1>0 DEF ApptRow
  <2>2. appt' = [appt EXCEPT ![a] = row]
    BY <1>4 DEF WritePatch
  <2>3. row \in ApptRow
    <3> HIDE DEF status, slot, supplier, override
    <3> QED
      BY <1>0, <2>1 DEF ApptRow
  <2>4. case' \in [Cases -> CaseRow]
    <3> DEFINE new == [case[c] EXCEPT !.supplier = w.supplier]
    <3>1. case' = [case EXCEPT ![c] = new] \/ case' = case
      BY <1>4 DEF WritePatch
    <3>2. new \in CaseRow
      <4> HIDE DEF c, w
      <4> QED
        BY <1>0, <2>1 DEF TypeOK, CaseRow
    <3> HIDE DEF new
    <3> QED
      BY <3>1, <3>2 DEF TypeOK
  <2>5. orders' \subseteq WorkOrder
    <3> DEFINE resupplied == {IF o.case = c THEN [o EXCEPT !.supplier = w.supplier] ELSE o :
                                o \in orders}
    <3>1. orders' \in {Replan(c, w.slot), resupplied, orders}
      BY <1>4 DEF WritePatch
    <3>2. resupplied \subseteq WorkOrder
      <4> HIDE DEF c, w
      <4> QED
        BY <2>1 DEF TypeOK, WorkOrder
    <3> HIDE DEF resupplied, c, w
    <3>3. Replan(c, w.slot) \subseteq WorkOrder
      BY <2>1, ReplanTyped
    <3> QED
      BY <3>1, <3>2, <3>3 DEF TypeOK
  <2> HIDE DEF row, a
  <2>6. appt' \in [Appts -> ApptRow]
    BY <2>2, <2>3, RowWritten
  <2> QED
    BY <1>4, <2>4, <2>5, <2>6, DoneTyped DEF TypeOK, WritePatch
<1> QED
  BY <1>1, <1>2, <1>3, <1>4

LEMMA NextTyped ==
  ASSUME TypeOK, ConstantsAssumption, Next
  PROVE  TypeOK'
<1> PICK r \in Requests : ReadNew(r) \/ ReadRow(r) \/ Write(r)
  BY DEF Next
<1>1. CASE Write(r)
  BY <1>1, WriteCreateTyped, WriteCalendarCreateTyped, SignatureTyped, OtherWriteTyped DEF Write
<1> QED
  BY <1>1, ReadNewTyped, ReadRowTyped

LEMMA InitTyped == ConstantsAssumption /\ Init => TypeOK
<1> SUFFICES ASSUME ConstantsAssumption, Init
             PROVE  TypeOK
  OBVIOUS
<1>1. NoAgreement \in Agreement
  BY DEF NoAgreement, Agreement, OptSlot
<1>2. case \in [Cases -> CaseRow]
  BY DEF Init, CaseRow
<1>3. policy \in [negotiate : BOOLEAN, fleetFirst : BOOLEAN, requireAck : BOOLEAN]
  BY DEF Init, ConstantsAssumption
<1> QED
  BY <1>1, <1>2, <1>3, BlankTyped, IdleTyped DEF Init, TypeOK

\* Every reachable state of the negotiation is well typed, and every request in
\* flight is about an appointment.
THEOREM TypeCorrect == Spec => []TypeOK
<1>1. Init => TypeOK
  BY InitTyped, ConstantsAssumption
<1>2. TypeOK /\ [Next]_vars => TypeOK'
  <2> SUFFICES ASSUME TypeOK, [Next]_vars
               PROVE  TypeOK'
    OBVIOUS
  <2>1. CASE Next
    BY <2>1, NextTyped, ConstantsAssumption
  <2>2. CASE UNCHANGED vars
    BY <2>2 DEF vars, TypeOK
  <2> QED
    BY <2>1, <2>2
<1> QED
  BY <1>1, <1>2, PTL DEF Spec

-----------------------------------------------------------------------------
(***************************************************************************)
(* One work order per case, when a case has one appointment.  The order of *)
(* a case is inserted by a transaction that has looked for one and found   *)
(* none.  What keeps a second transaction from doing the same is the row   *)
(* lock of the appointment they both sign; with two appointments in a case *)
(* there are two locks, and the run appointment_duplicate_order shows the  *)
(* second order.                                                           *)
(***************************************************************************)
Opening(r) == req[r].pc \in {"number", "insert"}

OrderInv ==
    /\ TypeOK
    /\ OneOrderPerCase
    /\ \A r \in Requests : Opening(r) => OrdersOf(CaseOf[req[r].a]) = {}
    /\ \A r, q \in Requests : Opening(r) /\ Opening(q) /\ r # q => req[r].a # req[q].a

\* A step that inserts no work order and leaves its request before or after
\* the transaction.
LEMMA QuietStep ==
  ASSUME OrderInv, TypeOK', OneOrderPerCase', NEW r \in Requests,
         \A o \in orders' : \E p \in orders : p.case = o.case,
         \A q \in Requests \ {r} : req'[q] = req[q],
         req'[r].pc \in {"idle", "write"}
  PROVE  OrderInv'
<1>1. \A q \in Requests : Opening(q)' => q # r /\ Opening(q) /\ req'[q] = req[q]
  BY DEF Opening
<1>2. \A c : OrdersOf(c) = {} => OrdersOf(c)' = {}
  BY DEF OrdersOf
<1> QED
  BY <1>1, <1>2 DEF OrderInv

\* A step that changes no work order.
LEMMA SameOrders ==
  ASSUME OrderInv, TypeOK', NEW r \in Requests, orders' = orders,
         \A q \in Requests \ {r} : req'[q] = req[q],
         req'[r].pc \in {"idle", "write"}
  PROVE  OrderInv'
<1>1. OneOrderPerCase' /\ \A o \in orders' : \E p \in orders : p.case = o.case
  BY DEF OrderInv, OneOrderPerCase
<1> QED
  BY <1>1, QuietStep

LEMMA BeginStep ==
  ASSUME OrderInv, TypeOK', NEW r \in Requests, ReadNew(r) \/ ReadRow(r)
  PROVE  OrderInv'
<1>1. PICK new : new.pc = "write" /\ req' = [req EXCEPT ![r] = new] /\ orders' = orders
  <2>1. \A op, a, row : Begin(r, op, a, row) =>
            \E new : new.pc = "write" /\ req' = [req EXCEPT ![r] = new] /\ orders' = orders
    BY DEF Begin, Idle
  <2>2. \A op, a, row, second, slot2 : Create(r, op, a, row, second, slot2) =>
            \E new : new.pc = "write" /\ req' = [req EXCEPT ![r] = new] /\ orders' = orders
    BY ZenonT(30) DEF Create, Idle
  <2>3. CASE ReadNew(r)
    BY <2>2, <2>3 DEF ReadNew, ReadCreate, ReadCalendarCreate
  <2>4. CASE ReadRow(r)
    <3> DEFINE Begun == \E op, a, row : Begin(r, op, a, row)
    <3>1. ASSUME NEW a, NEW s, NEW by, ReadRepropose(r, a, s, by)
          PROVE  Begun
      BY <3>1 DEF ReadRepropose
    <3>2. ASSUME NEW a, NEW s, ReadValidate(r, a, s)
          PROVE  Begun
      BY <3>2 DEF ReadValidate
    <3>3. ASSUME NEW a, ReadConfirm(r, a) \/ ReadAcknowledge(r, a)
          PROVE  Begun
      BY <3>3 DEF ReadConfirm, ReadAcknowledge
    <3>4. ASSUME NEW a, ReadDecline(r, a) \/ ReadRequestCancel(r, a)
          PROVE  Begun
      BY <3>4 DEF ReadDecline, ReadRequestCancel
    <3>5. ASSUME NEW a, NEW x, NEW endpoint,
                 \/ ReadPatchStatus(r, a, x)
                 \/ ReadPatchSlot(r, a, x, endpoint)
                 \/ ReadPatchSupplier(r, a, x, endpoint)
                 \/ ReadPatchOverride(r, a, x)
          PROVE  Begun
      BY <3>5 DEF ReadPatchStatus, ReadPatchSlot, ReadPatchSupplier, ReadPatchOverride
    <3> HIDE DEF Begun
    <3>6. Begun
      BY <2>4, <3>1, <3>2, <3>3, <3>4, <3>5 DEF ReadRow
    <3> QED
      BY <2>1, <3>6 DEF Begun
  <2> QED
    BY <2>3, <2>4
<1>2. req'[r].pc = "write" /\ \A q \in Requests \ {r} : req'[q] = req[q]
  BY <1>1 DEF OrderInv, TypeOK
<1> QED
  BY <1>1, <1>2, SameOrders

LEMMA DoneStep ==
  ASSUME TypeOK, NEW r \in Requests, Done(r)
  PROVE  req'[r].pc = "idle" /\ \A q \in Requests \ {r} : req'[q] = req[q]
BY IdleTyped DEF TypeOK, Done

\* The writes that insert no work order.
WritesKept(r) ==
    \/ WriteCreate(r)
    \/ WriteCalendarCreate(r)
    \/ WritePeerSignature(r)
    \/ WriteSignature(r)
    \/ ReuseOrder(r)
    \/ NumberTaken(r)
    \/ WriteDecline(r)
    \/ WriteProposal(r)
    \/ WriteRequestCancel(r)
    \/ WritePatch(r)

\* They map the work orders one by one and leave each its case and its number.
LEMMA OrdersMapped ==
  ASSUME TypeOK, NEW r \in Requests, WritesKept(r)
  PROVE  \E f : /\ orders' = {f[o] : o \in orders}
               /\ \A o \in orders : f[o].case = o.case /\ f[o].num = o.num
<1>1. orders \subseteq WorkOrder
  BY DEF TypeOK
<1>2. CASE orders' = orders
  <2> DEFINE f == [o \in orders |-> o]
  <2>1. orders' = {f[o] : o \in orders}
    BY <1>2
  <2>2. \A o \in orders : f[o].case = o.case /\ f[o].num = o.num
    OBVIOUS
  <2> HIDE DEF f
  <2> QED
    BY <2>1, <2>2
<1>3. CASE WriteCreate(r)
  <2> DEFINE f == [o \in orders |->
        IF o.case # CaseOf[req[r].a] THEN o
        ELSE [o EXCEPT !.planned = IF req[r].row.slot = NoSlot THEN @ ELSE req[r].row.slot,
                       !.supplier = req[r].row.supplier]]
  <2>1. orders' = {f[o] : o \in orders}
    BY <1>3 DEF WriteCreate
  <2>2. \A o \in orders : f[o].case = o.case /\ f[o].num = o.num
    BY <1>1 DEF WorkOrder
  <2> HIDE DEF f
  <2> QED
    BY <2>1, <2>2
<1>4. CASE WriteCalendarCreate(r) /\ orders' # orders
  <2> DEFINE f == [o \in orders |->
        IF o.case # CaseOf[req[r].a] \/ (req[r].op = "createPartner" /\ ~o.supplier) THEN o
        ELSE [o EXCEPT !.planned = req[r].row.slot,
                       !.supplier = @ \/ req[r].row.supplier]]
  <2>1. orders' = {f[o] : o \in orders}
    <3>1. \A b : [req[r].row EXCEPT !.supplier = b].slot = req[r].row.slot
      BY DEF TypeOK, Request, ApptRow
    <3> DEFINE c == CaseOf[req[r].a]
               partner == req[r].op = "createPartner"
               row == [req[r].row EXCEPT !.supplier = @ \/ case[c].supplier]
               image(o) == IF o.case # c \/ (partner /\ ~o.supplier) THEN o
                           ELSE [o EXCEPT !.planned = row.slot,
                                          !.supplier = @ \/ req[r].row.supplier]
    <3>2. orders' = {image(o) : o \in orders}
      BY <1>4 DEF WriteCalendarCreate
    <3>3. row.slot = req[r].row.slot
      BY <3>1
    <3>4. \A o \in orders : f[o] = image(o)
      <4> HIDE DEF row
      <4> QED
        BY <3>3
    <3> HIDE DEF image, f
    <3> QED
      BY <3>2, <3>4
  <2>2. \A o \in orders : f[o].case = o.case /\ f[o].num = o.num
    BY <1>1 DEF WorkOrder
  <2> HIDE DEF f
  <2> QED
    BY <2>1, <2>2
<1>5. CASE ReuseOrder(r)
  <2> DEFINE f == [o \in orders |->
        IF o.case = CaseOf[req[r].a]
        THEN [o EXCEPT !.planned = req[r].row.slot,
                       !.supplier = req[r].row.supplier \/ case[CaseOf[req[r].a]].supplier]
        ELSE o]
  <2>1. orders' = {f[o] : o \in orders}
    BY <1>5 DEF ReuseOrder, OpenGate
  <2>2. \A o \in orders : f[o].case = o.case /\ f[o].num = o.num
    BY <1>1 DEF WorkOrder
  <2> HIDE DEF f
  <2> QED
    BY <2>1, <2>2
<1>6. CASE WriteProposal(r)
  <2> DEFINE f == [o \in orders |->
        IF o.case = CaseOf[req[r].a] THEN [o EXCEPT !.planned = req[r].row.slot] ELSE o]
  <2>1. orders' = {f[o] : o \in orders}
    BY <1>6 DEF WriteProposal, Replan
  <2>2. \A o \in orders : f[o].case = o.case /\ f[o].num = o.num
    BY <1>1 DEF WorkOrder
  <2> HIDE DEF f
  <2> QED
    BY <2>1, <2>2
<1>7. CASE WritePatch(r) /\ req[r].op = "patchSlot"
  <2> DEFINE f == [o \in orders |->
        IF o.case = CaseOf[req[r].a] THEN [o EXCEPT !.planned = req[r].row.slot] ELSE o]
  <2>1. orders' = {f[o] : o \in orders}
    BY <1>7 DEF WritePatch, Replan
  <2>2. \A o \in orders : f[o].case = o.case /\ f[o].num = o.num
    BY <1>1 DEF WorkOrder
  <2> HIDE DEF f
  <2> QED
    BY <2>1, <2>2
<1>8. CASE WritePatch(r) /\ req[r].op = "patchSupplier"
  <2> DEFINE f == [o \in orders |->
        IF o.case = CaseOf[req[r].a]
        THEN [o EXCEPT !.supplier = req[r].row.supplier] ELSE o]
  <2>1. orders' = {f[o] : o \in orders}
    BY <1>8 DEF WritePatch
  <2>2. \A o \in orders : f[o].case = o.case /\ f[o].num = o.num
    BY <1>1 DEF WorkOrder
  <2> HIDE DEF f
  <2> QED
    BY <2>1, <2>2
<1>9. CASE WritePatch(r) /\ req[r].op \notin {"patchSlot", "patchSupplier"}
  BY <1>2, <1>9 DEF WritePatch
<1> QED
  BY <1>2, <1>3, <1>4, <1>5, <1>6, <1>7, <1>8, <1>9
     DEF WritesKept, WritePeerSignature, WriteSignature, NumberTaken, WriteDecline,
         WriteRequestCancel

LEMMA WriteDone ==
  ASSUME NEW r \in Requests, WritesKept(r)
  PROVE  Done(r) /\ policy' = policy
BY DEF WritesKept, WriteCreate, WriteCalendarCreate, WritePeerSignature, WriteSignature,
       ReuseOrder, OpenGate, NumberTaken, WriteDecline, WriteProposal, WriteRequestCancel,
       WritePatch

LEMMA WriteQuiet ==
  ASSUME OrderInv, TypeOK', NEW r \in Requests, WritesKept(r)
  PROVE  OrderInv'
<1>1. req'[r].pc = "idle" /\ \A q \in Requests \ {r} : req'[q] = req[q]
  BY WriteDone, DoneStep DEF OrderInv
<1>2. PICK f : /\ orders' = {f[o] : o \in orders}
               /\ \A o \in orders : f[o].case = o.case /\ f[o].num = o.num
  BY OrdersMapped DEF OrderInv
<1>3. OneOrderPerCase' /\ \A o \in orders' : \E p \in orders : p.case = o.case
  BY <1>2 DEF OrderInv, OneOrderPerCase
<1> QED
  BY <1>1, <1>3, QuietStep

\* A transaction that starts to open an order: nobody else is at it for the
\* same appointment, because the row is not locked, and the case has no order.
LEMMA MissStep ==
  ASSUME OrderInv, TypeOK', NEW r \in Requests, MissOrder(r)
  PROVE  OrderInv'
<1>1. /\ orders' = orders
      /\ \A q \in Requests \ {r} : req'[q] = req[q]
      /\ req'[r].a = req[r].a
  BY DEF MissOrder, Miss, OrderInv, TypeOK
<1>2. \A q \in Requests \ {r} : Opening(q) => req[q].a # req[r].a
  BY DEF MissOrder, CanWrite, Locked, Opening
<1>3. OrdersOf(CaseOf[req[r].a]) = {}
  BY DEF MissOrder, Miss
<1>4. \A q \in Requests \ {r} : Opening(q)' => Opening(q)
  BY <1>1 DEF Opening
<1>5. \A c : OrdersOf(c)' = OrdersOf(c)
  BY <1>1 DEF OrdersOf
<1>6. OneOrderPerCase'
  BY <1>1 DEF OrderInv, OneOrderPerCase
<1>7. \A q \in Requests : Opening(q)' => OrdersOf(CaseOf[req[q].a])' = {}
  BY <1>1, <1>3, <1>4, <1>5 DEF OrderInv
<1>8. \A p, q \in Requests : Opening(p)' /\ Opening(q)' /\ p # q => req'[p].a # req'[q].a
  BY <1>1, <1>2, <1>4 DEF OrderInv
<1> QED
  BY <1>6, <1>7, <1>8 DEF OrderInv

LEMMA NumberStep ==
  ASSUME OrderInv, TypeOK', NEW r \in Requests, TakeNumber(r)
  PROVE  OrderInv'
<1>1. /\ orders' = orders
      /\ \A q \in Requests : req'[q].a = req[q].a
      /\ \A q \in Requests : Opening(q)' => Opening(q)
  BY DEF TakeNumber, OrderInv, TypeOK, Request, Opening
<1>2. \A c : OrdersOf(c)' = OrdersOf(c)
  BY <1>1 DEF OrdersOf
<1> QED
  BY <1>1, <1>2 DEF OrderInv, OneOrderPerCase

LEMMA InsertStep ==
  ASSUME \A a, b \in Appts : CaseOf[a] = CaseOf[b] => a = b,
         OrderInv, TypeOK', NEW r \in Requests, InsertOrder(r)
  PROVE  OrderInv'
<1> DEFINE c == CaseOf[req[r].a]
<1>1. req'[r].pc = "idle" /\ \A q \in Requests \ {r} : req'[q] = req[q]
  BY DoneStep DEF InsertOrder, OpenGate, OrderInv
<1>2. Opening(r) /\ OrdersOf(c) = {} /\ orders \subseteq WorkOrder
  BY DEF InsertOrder, Opening, OrderInv, TypeOK
<1>3. PICK new : /\ new.case = c
                 /\ orders' = orders \cup {new}
  <2> DEFINE supplier == req[r].row.supplier \/ req[r].read.supplier
             row == [case |-> c, num |-> req[r].num, planned |-> NoSlot,
                     supplier |-> supplier, status |-> IF supplier THEN "sent" ELSE "draft"]
             new == [row EXCEPT !.planned = req[r].row.slot, !.supplier = supplier]
  <2>1. orders' = {IF o.case = c
                   THEN [o EXCEPT !.planned = req[r].row.slot, !.supplier = supplier]
                   ELSE o : o \in orders \cup {row}}
    BY DEF InsertOrder, NewOrder, OpenGate
  <2>2. row.case = c /\ new.case = c
    OBVIOUS
  <2>3. \A o \in orders : o.case # c
    BY <1>2 DEF OrdersOf
  <2> HIDE DEF row, c, supplier
  <2>4. orders' = orders \cup {new}
    BY <2>1, <2>2, <2>3
  <2> QED
    BY <2>2, <2>4
<1>4. \A o \in orders : o.case # c
  BY <1>2 DEF OrdersOf
<1>5. OneOrderPerCase'
  BY <1>3, <1>4 DEF OrderInv, OneOrderPerCase
<1>6. \A q \in Requests : Opening(q)' => q # r /\ Opening(q) /\ req'[q] = req[q]
  BY <1>1 DEF Opening
<1>7. ASSUME NEW q \in Requests, Opening(q)'
      PROVE  OrdersOf(CaseOf[req[q].a])' = {}
  <2>1. req[q].a # req[r].a /\ req[q].a \in Appts /\ req[r].a \in Appts
    BY <1>2, <1>6, <1>7 DEF OrderInv, TypeOK, Opening
  <2>2. CaseOf[req[q].a] # c /\ OrdersOf(CaseOf[req[q].a]) = {}
    BY <1>6, <1>7, <2>1 DEF OrderInv
  <2> QED
    BY <1>3, <1>6, <1>7, <2>2 DEF OrdersOf
<1> QED
  BY <1>5, <1>6, <1>7 DEF OrderInv

LEMMA OrderStart == Init => OrderInv
<1> SUFFICES ASSUME Init PROVE OrderInv
  OBVIOUS
<1>1. TypeOK
  BY InitTyped, ConstantsAssumption
<1> QED
  BY <1>1, IdleTyped DEF Init, OrderInv, OneOrderPerCase, Opening

LEMMA OrderStep ==
  ASSUME \A a, b \in Appts : CaseOf[a] = CaseOf[b] => a = b
  PROVE  OrderInv /\ [Next]_vars => OrderInv'
<1> SUFFICES ASSUME OrderInv, [Next]_vars
             PROVE  OrderInv'
  OBVIOUS
<1>1. CASE Next
  <2>1. TypeOK'
    BY <1>1, NextTyped, ConstantsAssumption DEF OrderInv
  <2>2. PICK r \in Requests : ReadNew(r) \/ ReadRow(r) \/ Write(r)
    BY <1>1 DEF Next
  <2>3. CASE ReadNew(r) \/ ReadRow(r)
    BY <2>1, <2>3, BeginStep
  <2>4. CASE Write(r)
    BY <2>1, <2>4, WriteQuiet, MissStep, NumberStep, InsertStep DEF Write, WritesKept
  <2> QED
    BY <2>2, <2>3, <2>4
<1>2. CASE UNCHANGED vars
  BY <1>2 DEF vars, OrderInv, TypeOK, OneOrderPerCase, Opening, OrdersOf
<1> QED
  BY <1>1, <1>2

\* One work order per case, for any number of concurrent requests, as long as
\* no two appointments share a case.
THEOREM OneOrder ==
  ASSUME \A a, b \in Appts : CaseOf[a] = CaseOf[b] => a = b
  PROVE  Spec => []OneOrderPerCase
<1>1. OrderInv => OneOrderPerCase
  BY DEF OrderInv
<1>2. OrderInv /\ [Next]_vars => OrderInv'
  BY OrderStep
<1> QED
  BY <1>1, <1>2, OrderStart, PTL DEF Spec

-----------------------------------------------------------------------------
(***************************************************************************)
(* A confirmed appointment with every required signature has its work      *)
(* order, when no row waives the driver's acknowledgement and no PATCH,    *)
(* which writes status and override without looking, completes what is     *)
(* required.  Every transaction that can complete the signatures looks,    *)
(* under the row lock, at the row it has just written, and opens the order *)
(* if they are all there; a proposal that signs in advance leaves one of   *)
(* the two signatures off.                                                 *)
(***************************************************************************)
NoWaiver == "waived" \notin Overrides

InFlight(r) == req[r].pc # "idle"
PatchOps == {"patchStatus", "patchSlot", "patchSupplier", "patchOverride"}

\* No PATCH in flight confirms a row or relaxes what it asks of the driver.
QuietPatches == \A r \in Requests : InFlight(r) =>
    /\ req[r].op = "patchStatus" => req[r].row.status # "confirmed"
    /\ req[r].op = "patchOverride" => req[r].row.override = "required"

\* What a request carries to its write step cannot complete the signatures
\* except by the two signing endpoints, or by a PATCH.
Calm(r) == req[r].pc # "idle" =>
    /\ req[r].row.override # "waived"
    /\ req[r].op \in {"create", "createPartner", "createCalendar"} => ~req[r].row.mgr
    /\ req[r].op \in {"proposeManager", "proposeDriver", "validate"} /\ req[r].row.mgr
         => policy.negotiate /\ ~req[r].row.ack

KeysInv ==
    /\ TypeOK
    /\ KeysOpenOrder
    /\ \A a \in Appts : appt[a].override # "waived"
    /\ \A r \in Requests : Calm(r)

\* A step that ends a request and keeps an order in every case that has one:
\* what is left to show is about the appointments it writes.
LEMMA KeysKept ==
  ASSUME KeysInv, TypeOK', policy' = policy,
         \A r \in Requests : Calm(r)',
         \A c \in Cases : OrdersOf(c) # {} => OrdersOf(c)' # {},
         \A a \in Appts : appt'[a] = appt[a] \/
            /\ appt'[a].override # "waived"
            /\ BothKeys(appt'[a]) => OrdersOf(CaseOf[a])' # {}
  PROVE  KeysInv'
<1>1. \A row : BothKeys(row)' <=> BothKeys(row)
  BY DEF BothKeys, AckRequired
<1>2. \A a \in Appts : appt'[a].override # "waived"
  BY DEF KeysInv
<1>3. \A a \in Appts : CaseOf[a] \in Cases
  BY ConstantsAssumption DEF ConstantsAssumption
<1>4. \A a \in Appts : BothKeys(appt'[a]) => OrdersOf(CaseOf[a])' # {}
  BY <1>3 DEF KeysInv, KeysOpenOrder
<1>5. KeysOpenOrder'
  BY <1>4 DEF KeysOpenOrder, BothKeys, AckRequired
<1> QED
  BY <1>2, <1>5 DEF KeysInv

\* The requests after a step that ends one of them.
LEMMA DoneCalm ==
  ASSUME KeysInv, NEW r \in Requests, Done(r), policy' = policy
  PROVE  \A q \in Requests : Calm(q)'
BY DoneStep DEF KeysInv, Calm

\* The requests after a step that starts one of them.
LEMMA BegunCalm ==
  ASSUME KeysInv, NEW r \in Requests, NEW new,
         req' = [req EXCEPT ![r] = new], policy' = policy, appt' = appt, orders' = orders,
         TypeOK', new.row.override # "waived",
         new.op \in {"create", "createPartner", "createCalendar"} => ~new.row.mgr,
         new.op \in {"proposeManager", "proposeDriver", "validate"} /\ new.row.mgr
           => policy.negotiate /\ ~new.row.ack
  PROVE  KeysInv'
<1>1. req'[r] = new /\ \A q \in Requests \ {r} : req'[q] = req[q]
  BY DEF KeysInv, TypeOK
<1>2. \A q \in Requests : Calm(q)'
  BY <1>1 DEF KeysInv, Calm
<1> QED
  BY <1>2, KeysKept DEF OrdersOf

\* A request begun on an existing row.
LEMMA BegunOnRow ==
  ASSUME KeysInv, TypeOK', NEW r \in Requests, NEW op, NEW a, NEW row, Begin(r, op, a, row),
         row.override # "waived",
         op \notin {"create", "createPartner", "createCalendar"},
         op \in {"proposeManager", "proposeDriver", "validate"} /\ row.mgr
           => policy.negotiate /\ ~row.ack
  PROVE  KeysInv'
<1> DEFINE new == [Idle EXCEPT !.pc = "write", !.op = op, !.a = a, !.row = row]
<1>1. new.op = op /\ new.row = row
  BY DEF Idle
<1>2. req' = [req EXCEPT ![r] = new] /\ policy' = policy /\ appt' = appt /\ orders' = orders
  BY DEF Begin
<1> HIDE DEF new
<1> QED
  BY <1>1, <1>2, BegunCalm

LEMMA BlankUnsigned ==
  /\ Blank.override = "inherit" /\ ~Blank.mgr
  /\ DOMAIN Blank = {"status", "slot", "supplier", "mgr", "ack", "declined", "cancelReq",
                     "counter", "override"}
BY DEF Blank

LEMMA ReadRowCalm ==
  ASSUME KeysInv, TypeOK', NoWaiver, NEW r \in Requests, ReadRow(r)
  PROVE  KeysInv'
<1>1. ASSUME NEW a \in Appts, ReadConfirm(r, a) \/ ReadAcknowledge(r, a)
      PROVE  KeysInv'
  <2>1. PICK op \in {"confirm", "confirmPeer", "acknowledge", "acknowledgePeer"} :
            Begin(r, op, a, Seen(a))
    BY <1>1 DEF ReadConfirm, ReadAcknowledge
  <2>2. Seen(a).override # "waived"
    BY BlankUnsigned DEF Seen, Blank
  <2> QED
    BY <2>1, <2>2, BegunOnRow
<1>2. ASSUME NEW a \in Appts, ReadDecline(r, a) \/ ReadRequestCancel(r, a)
      PROVE  KeysInv'
  <2>1. PICK op \in {"decline", "requestCancel"} : Begin(r, op, a, Blank)
    BY <1>2 DEF ReadDecline, ReadRequestCancel
  <2> QED
    BY <2>1, BlankUnsigned, BegunOnRow
<1>3. ASSUME NEW a \in Appts, NEW s \in Slots, NEW by \in {"manager", "driver"},
             ReadRepropose(r, a, s, by)
      PROVE  KeysInv'
  <2> DEFINE next == NextStatus(appt[a], by)
             preAck == policy.negotiate /\ next = "scheduled"
             status == IF preAck /\ by = "manager" THEN "confirmed" ELSE next
             mgr == preAck /\ by = "manager"
             ack == preAck /\ by = "driver"
             counter == IF next = "scheduled" THEN "none" ELSE by
             row == [Blank EXCEPT !.slot = s, !.status = status, !.mgr = mgr,
                                  !.ack = ack, !.counter = counter]
             op == IF by = "manager" THEN "proposeManager" ELSE "proposeDriver"
  <2>1. Begin(r, op, a, row)
    BY <1>3 DEF ReadRepropose
  <2>2. row.override = "inherit" /\ row.mgr = mgr /\ row.ack = ack
    BY DEF Blank
  <2>3. mgr => policy.negotiate /\ ~ack
    OBVIOUS
  <2> HIDE DEF row, mgr, ack
  <2> QED
    BY <2>1, <2>2, <2>3, BegunOnRow
<1>4. ASSUME NEW a \in Appts, NEW s \in OptSlot, ReadValidate(r, a, s)
      PROVE  KeysInv'
  <2> DEFINE slot == IF s = NoSlot THEN appt[a].slot ELSE s
             preAck == IF policy.negotiate /\ s = NoSlot THEN appt[a].counter ELSE "none"
             status == IF preAck = "manager" THEN "confirmed" ELSE "scheduled"
             mgr == preAck = "manager"
             ack == preAck = "driver"
             counter == IF s = NoSlot THEN "none" ELSE "supplier"
             row == [Blank EXCEPT !.slot = slot, !.status = status, !.mgr = mgr,
                                  !.ack = ack, !.counter = counter]
  <2>1. Begin(r, "validate", a, row)
    BY <1>4 DEF ReadValidate
  <2>2. row.override = "inherit" /\ row.mgr = mgr /\ row.ack = ack
    BY DEF Blank
  <2>3. mgr => policy.negotiate /\ ~ack
    OBVIOUS
  <2> HIDE DEF row, mgr, ack
  <2> QED
    BY <2>1, <2>2, <2>3, BegunOnRow
<1>5. ASSUME NEW a \in Appts, NEW x, NEW endpoint,
             \/ ReadPatchStatus(r, a, x)
             \/ ReadPatchSlot(r, a, x, endpoint)
             \/ ReadPatchSupplier(r, a, x, endpoint)
      PROVE  KeysInv'
  <2>1. /\ [Blank EXCEPT !.status = x].override = "inherit"
        /\ [Blank EXCEPT !.slot = x].override = "inherit"
        /\ [Blank EXCEPT !.supplier = x].override = "inherit"
    BY DEF Blank
  <2>2. PICK op, row : /\ Begin(r, op, a, row) /\ op \in PatchOps
                       /\ row.override = "inherit"
    BY <1>5, <2>1 DEF ReadPatchStatus, ReadPatchSlot, ReadPatchSupplier, PatchOps
  <2> QED
    BY <2>2, BegunOnRow DEF PatchOps
<1>6. ASSUME NEW a \in Appts, NEW x \in Overrides, ReadPatchOverride(r, a, x)
      PROVE  KeysInv'
  <2> DEFINE row == [Blank EXCEPT !.override = x]
  <2>1. row.override # "waived"
    BY DEF Blank, NoWaiver
  <2>2. Begin(r, "patchOverride", a, row)
    BY <1>6 DEF ReadPatchOverride
  <2> HIDE DEF row
  <2> QED
    BY <2>1, <2>2, BegunOnRow
<1> QED
  BY <1>1, <1>2, <1>3, <1>4, <1>5, <1>6 DEF ReadRow

LEMMA ReadNewCalm ==
  ASSUME KeysInv, TypeOK', NoWaiver, NEW r \in Requests, ReadNew(r)
  PROVE  KeysInv'
<1>1. \A s, supplier, status, bySupplier : \A override \in Overrides :
        LET row == NewRow(s, supplier, status, bySupplier, override)
        IN  row.override # "waived" /\ ~row.mgr
  BY DEF NewRow, Blank, NoWaiver
<1>2. PICK op, a, row, second, slot2 :
        /\ op \in {"create", "createPartner", "createCalendar"}
        /\ Create(r, op, a, row, second, slot2)
        /\ row.override # "waived" /\ ~row.mgr
  BY <1>1 DEF ReadNew, ReadCreate, ReadCalendarCreate
<1> DEFINE new == [Idle EXCEPT !.pc = "write", !.op = op, !.a = a,
                               !.second = second, !.slot2 = slot2,
                               !.row = row, !.read = case[CaseOf[a]]]
<1>3. new.op = op /\ new.row = row
  BY DEF Idle
<1>4. req' = [req EXCEPT ![r] = new] /\ policy' = policy /\ appt' = appt /\ orders' = orders
  BY <1>2 DEF Create
<1> HIDE DEF new
<1> QED
  BY <1>2, <1>3, <1>4, BegunCalm

\* What a PATCH writes: the one field it is about.
LEMMA PatchedRow ==
  ASSUME TypeOK, NEW r \in Requests, WritePatch(r), NEW a, a = req[r].a
  PROVE  /\ a \in Appts /\ InFlight(r) /\ req[r].op \in PatchOps /\ agreed' = agreed
         /\ appt'[a].status = IF req[r].op = "patchStatus" THEN req[r].row.status
                                                          ELSE appt[a].status
         /\ appt'[a].slot = IF req[r].op = "patchSlot" THEN req[r].row.slot ELSE appt[a].slot
         /\ appt'[a].supplier = IF req[r].op = "patchSupplier" THEN req[r].row.supplier
                                                              ELSE appt[a].supplier
         /\ appt'[a].override = IF req[r].op = "patchOverride" THEN req[r].row.override
                                                              ELSE appt[a].override
         /\ appt'[a].mgr = appt[a].mgr /\ appt'[a].ack = appt[a].ack
         /\ appt'[a].declined = appt[a].declined /\ appt'[a].counter = appt[a].counter
         /\ \A b \in Appts \ {a} : appt'[b] = appt[b]
<1> DEFINE w == req[r].row
           op == req[r].op
           st == IF op = "patchStatus" THEN w.status ELSE appt[a].status
           sl == IF op = "patchSlot" THEN w.slot ELSE appt[a].slot
           sup == IF op = "patchSupplier" THEN w.supplier ELSE appt[a].supplier
           ov == IF op = "patchOverride" THEN w.override ELSE appt[a].override
           row == [appt[a] EXCEPT !.status = st, !.slot = sl, !.supplier = sup, !.override = ov]
<1>1. /\ op \in PatchOps /\ InFlight(r) /\ a \in Appts /\ appt[a] \in ApptRow
      /\ agreed' = agreed /\ appt' = [appt EXCEPT ![a] = row]
  BY DEF TypeOK, WritePatch, CanWrite, PatchOps, InFlight
<1>2. /\ row.status = st /\ row.slot = sl /\ row.supplier = sup /\ row.override = ov
      /\ row.mgr = appt[a].mgr /\ row.ack = appt[a].ack
      /\ row.declined = appt[a].declined /\ row.counter = appt[a].counter
  <2> HIDE DEF st, sl, sup, ov
  <2> QED
    BY <1>1 DEF ApptRow
<1>3. appt'[a] = row /\ \A b \in Appts \ {a} : appt'[b] = appt[b]
  <2> HIDE DEF row
  <2> QED
    BY <1>1 DEF TypeOK
<1> HIDE DEF row
<1> QED
  BY <1>1, <1>2, <1>3

\* The appointments after a write that inserts no work order: each is as it was, or
\* was the request's to write and has every signature only if it had them before or
\* has just been signed in a case that has its order.
LEMMA WrittenKeys ==
  ASSUME KeysInv, QuietPatches, NEW r \in Requests, WritesKept(r), NEW b \in Appts
  PROVE  \/ appt'[b] = appt[b]
         \/ /\ b \in {req[r].a, req[r].second}
            /\ appt'[b].override # "waived"
            /\ BothKeys(appt'[b]) => BothKeys(appt[b]) \/ (ReuseOrder(r) /\ b = req[r].a)
<1> DEFINE a == req[r].a
           row == req[r].row
           now == appt[a]
<1>0. a = req[r].a
  OBVIOUS
<1>1. appt \in [Appts -> ApptRow] /\ req[r] \in Request /\ row \in ApptRow
  BY DEF KeysInv, TypeOK, Request
<1>2. \A w : ~w.mgr \/ w.status # "confirmed" => ~BothKeys(w)
  BY DEF BothKeys
<1>3. req[r].pc # "idle" => a \in Appts /\ now \in ApptRow /\ now.override # "waived"
  BY DEF KeysInv, TypeOK
<1>4. Calm(r)
  BY DEF KeysInv
<1>5. CASE WriteCreate(r)
  <2>1. row.override # "waived" /\ ~row.mgr
    BY <1>4, <1>5 DEF WriteCreate, CanWrite, Calm
  <2>2. appt' = [appt EXCEPT ![a] = row]
    BY <1>5 DEF WriteCreate
  <2> HIDE DEF row, a
  <2> QED
    BY <1>0, <1>1, <1>2, <2>1, <2>2
<1>6. CASE WriteCalendarCreate(r)
  <2>1. row.override # "waived" /\ ~row.mgr
    BY <1>4, <1>6 DEF WriteCalendarCreate, CanWrite, Calm
  <2> DEFINE full == [row EXCEPT !.supplier = @ \/ case[CaseOf[a]].supplier]
             rows == IF req[r].second = NoAppt THEN {a} ELSE {a, req[r].second}
             slotOf(x) == IF x = a THEN full.slot ELSE req[r].slot2
  <2>2. \/ appt' = appt
        \/ appt' = [x \in Appts |-> IF x \in rows THEN [full EXCEPT !.slot = slotOf(x)]
                                                  ELSE appt[x]]
    BY <1>6 DEF WriteCalendarCreate
  <2>3. \A x : /\ [full EXCEPT !.slot = x].override = row.override
               /\ [full EXCEPT !.slot = x].mgr = row.mgr
    <3> HIDE DEF row
    <3> QED
      BY <1>1 DEF ApptRow
  <2>4. rows \subseteq {a, req[r].second}
    OBVIOUS
  <2> HIDE DEF full, rows, slotOf, row, a
  <2>5. CASE appt' # appt /\ b \in rows
    <3>1. appt'[b].override # "waived" /\ ~appt'[b].mgr
      BY <2>1, <2>2, <2>3, <2>5
    <3> QED
      BY <1>0, <1>2, <2>4, <2>5, <3>1
  <2>6. CASE appt' # appt /\ b \notin rows
    BY <2>2, <2>6
  <2> QED
    BY <2>5, <2>6
<1>7. CASE WritePeerSignature(r)
  <2> DEFINE manager == req[r].op = "confirmPeer"
             mgr == now.mgr \/ manager
             ack == now.ack \/ ~manager
             new == [now EXCEPT !.status = "pending_supplier", !.mgr = mgr, !.ack = ack]
  <2>1. appt' = [appt EXCEPT ![a] = new] /\ req[r].pc # "idle"
    BY <1>7 DEF WritePeerSignature, CanWrite
  <2>2. new.override = now.override /\ new.status = "pending_supplier"
    BY <1>3, <2>1 DEF ApptRow
  <2> HIDE DEF new, a, now
  <2> QED
    BY <1>0, <1>1, <1>2, <1>3, <2>1, <2>2
<1>8. CASE WriteSignature(r) \/ ReuseOrder(r)
  <2>1. /\ appt' = [appt EXCEPT ![a] = Signed(r)] /\ req[r].pc # "idle"
        /\ BothKeys(Signed(r)) => ReuseOrder(r)
    BY <1>8 DEF WriteSignature, ReuseOrder, OpenGate, CanWrite
  <2>2. Signed(r).override = now.override
    BY <1>3, <2>1 DEF Signed, ApptRow
  <2> HIDE DEF a, now
  <2> QED
    BY <1>0, <1>1, <1>3, <2>1, <2>2
<1>9. CASE NumberTaken(r)
  BY <1>9 DEF NumberTaken
<1>10. CASE WriteDecline(r)
  <2> DEFINE new == [now EXCEPT !.status = "needs_repropose", !.declined = TRUE,
                                !.mgr = FALSE, !.ack = FALSE]
  <2>1. appt' = [appt EXCEPT ![a] = new] /\ req[r].pc # "idle"
    BY <1>10 DEF WriteDecline, CanWrite
  <2>2. new.override = now.override /\ new.status = "needs_repropose"
    BY <1>3, <2>1 DEF ApptRow
  <2> HIDE DEF new, a, now
  <2> QED
    BY <1>0, <1>1, <1>2, <1>3, <2>1, <2>2
<1>11. CASE WriteProposal(r)
  <2> DEFINE new == [now EXCEPT !.slot = row.slot, !.status = row.status, !.mgr = row.mgr,
                                !.ack = row.ack, !.declined = FALSE,
                                !.counter = row.counter]
  <2>1. appt' = [appt EXCEPT ![a] = new] /\ req[r].pc # "idle"
    BY <1>11 DEF WriteProposal, CanWrite
  <2>2. new.override = now.override /\ new.mgr = row.mgr /\ new.ack = row.ack
    <3> HIDE DEF row
    <3> QED
      BY <1>3, <2>1 DEF ApptRow
  <2>3. row.mgr => policy.negotiate /\ ~row.ack
    BY <1>4, <1>11 DEF WriteProposal, CanWrite, Calm
  <2>4. now.override \in {"inherit", "required"}
    BY <1>3, <2>1 DEF ApptRow
  <2>5. ~BothKeys(new)
    <3> HIDE DEF new, row, now
    <3> QED
      BY <2>2, <2>3, <2>4 DEF BothKeys, AckRequired
  <2> HIDE DEF new, a, now
  <2> QED
    BY <1>0, <1>1, <1>3, <2>1, <2>2, <2>5
<1>12. CASE WriteRequestCancel(r)
  <2> DEFINE new == [now EXCEPT !.cancelReq = TRUE]
  <2>1. appt' = [appt EXCEPT ![a] = new] /\ req[r].pc # "idle"
    BY <1>12 DEF WriteRequestCancel, CanWrite
  <2>2. /\ new.override = now.override
        /\ BothKeys(new) => BothKeys(now)
    BY <1>3, <2>1 DEF ApptRow, BothKeys, AckRequired
  <2>3. b = a => appt[b] = now
    OBVIOUS
  <2> HIDE DEF new, a, now
  <2> QED
    BY <1>0, <1>1, <1>3, <2>1, <2>2, <2>3
<1>13. CASE WritePatch(r)
  <2>1. CASE b # a
    BY <1>13, <2>1, PatchedRow DEF KeysInv
  <2>2. CASE b = a
    <3>1. /\ InFlight(r) /\ req[r].op \in PatchOps
          /\ appt'[b].mgr = appt[b].mgr /\ appt'[b].ack = appt[b].ack
          /\ req[r].op # "patchStatus" => appt'[b].status = appt[b].status
          /\ req[r].op = "patchStatus" => appt'[b].status = req[r].row.status
          /\ req[r].op # "patchOverride" => appt'[b].override = appt[b].override
          /\ req[r].op = "patchOverride" => appt'[b].override = req[r].row.override
      BY <1>13, <2>2, PatchedRow DEF KeysInv
    <3>2. /\ req[r].op = "patchStatus" => appt'[b].status # "confirmed"
          /\ req[r].op = "patchOverride" => appt'[b].override = "required"
      BY <3>1 DEF QuietPatches
    <3>3. appt'[b].override # "waived"
      BY <3>1, <3>2 DEF KeysInv
    <3>4. BothKeys(appt'[b]) => BothKeys(appt[b])
      BY <3>1, <3>2 DEF BothKeys, AckRequired
    <3> QED
      BY <2>2, <3>3, <3>4
  <2> QED
    BY <2>1, <2>2
<1> QED
  BY <1>5, <1>6, <1>7, <1>8, <1>9, <1>10, <1>11, <1>12, <1>13 DEF WritesKept

LEMMA WrittenRows ==
  ASSUME KeysInv, QuietPatches, NEW r \in Requests, WritesKept(r), NEW b \in Appts
  PROVE  \/ appt'[b] = appt[b]
         \/ /\ appt'[b].override # "waived"
            /\ BothKeys(appt'[b]) => OrdersOf(CaseOf[b]) # {}
<1>1. BothKeys(appt[b]) => OrdersOf(CaseOf[b]) # {}
  BY DEF KeysInv, KeysOpenOrder
<1>2. ReuseOrder(r) /\ b = req[r].a => OrdersOf(CaseOf[b]) # {}
  BY DEF ReuseOrder
<1> QED
  BY <1>1, <1>2, WrittenKeys

LEMMA WriteKeepsKeys ==
  ASSUME KeysInv, QuietPatches, TypeOK', NEW r \in Requests, WritesKept(r)
  PROVE  KeysInv'
<1>1. policy' = policy /\ \A q \in Requests : Calm(q)'
  BY WriteDone, DoneCalm
<1>2. \A c : OrdersOf(c) # {} => OrdersOf(c)' # {}
  <2>1. PICK f : /\ orders' = {f[o] : o \in orders}
                 /\ \A o \in orders : f[o].case = o.case /\ f[o].num = o.num
    BY OrdersMapped DEF KeysInv
  <2> QED
    BY <2>1 DEF OrdersOf
<1>3. \A a \in Appts : CaseOf[a] \in Cases
  BY ConstantsAssumption DEF ConstantsAssumption
<1>4. \A a \in Appts : appt'[a] = appt[a] \/
        /\ appt'[a].override # "waived"
        /\ BothKeys(appt'[a]) => OrdersOf(CaseOf[a])' # {}
  BY <1>2, WrittenRows
<1> QED
  BY <1>1, <1>2, <1>4, KeysKept

\* Inside a transaction that opens an order only its step advances.
LEMMA AdvanceKeepsKeys ==
  ASSUME KeysInv, TypeOK', NEW r \in Requests, MissOrder(r) \/ TakeNumber(r)
  PROVE  KeysInv'
<1>1. /\ req'[r].pc # "idle" /\ req[r].pc # "idle"
      /\ req'[r].op = req[r].op /\ req'[r].row = req[r].row
      /\ \A q \in Requests \ {r} : req'[q] = req[q]
      /\ UNCHANGED <<policy, appt, orders>>
  BY DEF MissOrder, Miss, TakeNumber, CanWrite, KeysInv, TypeOK, Request
<1>2. \A q \in Requests : Calm(q)'
  BY <1>1 DEF KeysInv, Calm
<1> QED
  BY <1>1, <1>2, KeysKept DEF OrdersOf

LEMMA InsertKeepsKeys ==
  ASSUME KeysInv, TypeOK', NEW r \in Requests, InsertOrder(r)
  PROVE  KeysInv'
<1> PICK a : a = req[r].a
  OBVIOUS
<1> DEFINE now == appt[a]
<1>1. a \in Appts /\ now \in ApptRow /\ now.override # "waived" /\ CaseOf[a] \in Cases
  BY ConstantsAssumption DEF InsertOrder, KeysInv, TypeOK, ConstantsAssumption
<1>2. policy' = policy /\ \A q \in Requests : Calm(q)'
  BY DoneCalm DEF InsertOrder, OpenGate
<1>3. appt' = [appt EXCEPT ![a] = Signed(r)] /\ Signed(r).override = now.override
  BY <1>1 DEF InsertOrder, OpenGate, Signed, ApptRow
<1> DEFINE supplier == req[r].row.supplier \/ req[r].read.supplier
           new == [case |-> CaseOf[a], num |-> req[r].num, planned |-> NoSlot,
                   supplier |-> supplier, status |-> IF supplier THEN "sent" ELSE "draft"]
           f == [o \in orders \cup {new} |->
                   IF o.case = CaseOf[a]
                   THEN [o EXCEPT !.planned = req[r].row.slot, !.supplier = supplier] ELSE o]
<1>4. /\ orders' = {f[o] : o \in orders \cup {new}}
      /\ \A o \in orders \cup {new} : f[o].case = o.case
      /\ new.case = CaseOf[a]
  <2>1. orders' = {f[o] : o \in orders \cup {new}}
    BY DEF InsertOrder, NewOrder, OpenGate
  <2>2. \A o \in orders : f[o].case = o.case
    BY DEF KeysInv, TypeOK, WorkOrder
  <2>3. f[new].case = new.case
    <3> HIDE DEF supplier
    <3> QED
      OBVIOUS
  <2>4. new.case = CaseOf[a]
    OBVIOUS
  <2> HIDE DEF f, new
  <2> QED
    BY <2>1, <2>2, <2>3, <2>4
<1> HIDE DEF f, new, supplier, now
<1>5. /\ \A c : OrdersOf(c) # {} => OrdersOf(c)' # {}
      /\ OrdersOf(CaseOf[a])' # {}
  <2>1. \A o \in orders \cup {new} : f[o] \in orders' /\ f[o].case = o.case
    BY <1>4
  <2>2. ASSUME NEW c, OrdersOf(c) # {}
        PROVE  OrdersOf(c)' # {}
    BY <2>1, <2>2 DEF OrdersOf
  <2>3. f[new] \in orders' /\ f[new].case = CaseOf[a]
    BY <1>4, <2>1
  <2>4. OrdersOf(CaseOf[a])' # {}
    BY <2>3 DEF OrdersOf
  <2> QED
    BY <2>2, <2>4
<1>6. \A b \in Appts : appt'[b] = appt[b] \/
        /\ appt'[b].override # "waived"
        /\ BothKeys(appt'[b]) => OrdersOf(CaseOf[b])' # {}
  <2>1. \A b \in Appts : b # a => appt'[b] = appt[b]
    BY <1>3 DEF KeysInv, TypeOK
  <2>2. appt'[a].override # "waived"
    BY <1>1, <1>3 DEF KeysInv, TypeOK
  <2>3. (OrdersOf(CaseOf[a]) # {})'
    BY <1>5
  <2> QED
    BY <2>1, <2>2, <2>3
<1> QED
  BY <1>2, <1>5, <1>6, KeysKept

LEMMA KeysStart == Init => KeysInv
<1> SUFFICES ASSUME Init PROVE KeysInv
  OBVIOUS
<1>1. TypeOK
  BY InitTyped, ConstantsAssumption
<1>2. \A a \in Appts : appt[a].override # "waived" /\ ~appt[a].mgr
  BY BlankUnsigned DEF Init
<1> QED
  BY <1>1, <1>2, IdleTyped DEF Init, KeysInv, KeysOpenOrder, BothKeys, Calm

LEMMA KeysStep ==
  ASSUME NoWaiver
  PROVE  KeysInv /\ QuietPatches /\ [Next]_vars => KeysInv'
<1> SUFFICES ASSUME KeysInv, QuietPatches, [Next]_vars
             PROVE  KeysInv'
  OBVIOUS
<1>1. CASE Next
  <2>1. TypeOK'
    BY <1>1, NextTyped, ConstantsAssumption DEF KeysInv
  <2>2. PICK r \in Requests : ReadNew(r) \/ ReadRow(r) \/ Write(r)
    BY <1>1 DEF Next
  <2>3. CASE ReadNew(r) \/ ReadRow(r)
    BY <2>1, <2>3, ReadNewCalm, ReadRowCalm
  <2>4. CASE Write(r)
    BY <2>1, <2>4, WriteKeepsKeys, AdvanceKeepsKeys, InsertKeepsKeys DEF Write, WritesKept
  <2> QED
    BY <2>2, <2>3, <2>4
<1>2. CASE UNCHANGED vars
  <2>1. TypeOK'
    BY <1>2 DEF vars, KeysInv, TypeOK
  <2>2. \A q \in Requests : Calm(q)'
    BY <1>2 DEF vars, KeysInv, Calm
  <2> QED
    BY <1>2, <2>1, <2>2, KeysKept DEF vars, OrdersOf
<1> QED
  BY <1>1, <1>2

\* No signature is lost: for any number of requests, appointments and cases, a
\* confirmed appointment with every required signature has a work order in its
\* case, as long as no row waives the acknowledgement and no PATCH confirms a row or
\* takes the driver's part away.
THEOREM KeysOpen ==
  ASSUME NoWaiver
  PROVE  Spec /\ []QuietPatches => []KeysOpenOrder
<1>1. KeysInv => KeysOpenOrder
  BY DEF KeysInv
<1>2. KeysInv /\ QuietPatches /\ [Next]_vars => KeysInv'
  BY KeysStep
<1> QED
  BY <1>1, <1>2, KeysStart, PTL DEF Spec
-----------------------------------------------------------------------------
(***************************************************************************)
(* What a request may write.  A create writes rows nobody else has read:   *)
(* their ids are unused, and no other request in flight has them; every    *)
(* other request writes the one row it has read.                           *)
(***************************************************************************)
Creates == {"create", "createPartner", "createCalendar"}

IdInv == \A r \in Requests : req[r].pc # "idle" =>
    /\ req[r].op \notin Creates => req[r].second = NoAppt
    /\ req[r].op \in Creates =>
         /\ req[r].pc = "write" /\ ~Exists(req[r].a)
         /\ req[r].second # NoAppt => ~Exists(req[r].second)
         /\ \A q \in Requests \ {r} : req[q].pc # "idle" =>
              /\ req[r].a \notin {req[q].a, req[q].second}
              /\ req[r].second # NoAppt => req[r].second \notin {req[q].a, req[q].second}

\* Beginning a request changes the request alone.
Begun(r, new) ==
    /\ req' = [req EXCEPT ![r] = new] /\ new.pc = "write" /\ new.a \in Appts
    /\ UNCHANGED <<policy, appt, case, orders, agreed>>

LEMMA ReadRowShape ==
  ASSUME NEW r \in Requests, ReadRow(r)
  PROVE  \E new : /\ Begun(r, new)
                  /\ new.second = NoAppt /\ new.op \notin Creates /\ Exists(new.a)
<1> DEFINE Goal == \E op, a, row : /\ Begin(r, op, a, row) /\ a \in Appts
                                   /\ op \notin Creates /\ Exists(a)
<1>1. ASSUME NEW a \in Appts, NEW s, NEW by, ReadRepropose(r, a, s, by)
      PROVE  Goal
  BY <1>1 DEF ReadRepropose, Creates
<1>2. ASSUME NEW a \in Appts, NEW s, ReadValidate(r, a, s)
      PROVE  Goal
  BY <1>2 DEF ReadValidate, Creates, Exists
<1>3. ASSUME NEW a \in Appts, ReadConfirm(r, a) \/ ReadAcknowledge(r, a)
      PROVE  Goal
  BY <1>3 DEF ReadConfirm, ReadAcknowledge, Creates, Exists
<1>4. ASSUME NEW a \in Appts, ReadDecline(r, a) \/ ReadRequestCancel(r, a)
      PROVE  Goal
  BY <1>4 DEF ReadDecline, ReadRequestCancel, Creates, Exists
<1>5. ASSUME NEW a \in Appts, NEW x, NEW endpoint,
             \/ ReadPatchStatus(r, a, x)
             \/ ReadPatchSlot(r, a, x, endpoint)
             \/ ReadPatchSupplier(r, a, x, endpoint)
             \/ ReadPatchOverride(r, a, x)
      PROVE  Goal
  BY <1>5 DEF ReadPatchStatus, ReadPatchSlot, ReadPatchSupplier, ReadPatchOverride,
              Creates, Exists
<1> HIDE DEF Goal
<1>6. Goal
  BY <1>1, <1>2, <1>3, <1>4, <1>5 DEF ReadRow
<1>7. PICK op, a, row : /\ Begin(r, op, a, row) /\ a \in Appts
                        /\ op \notin Creates /\ Exists(a)
  BY <1>6 DEF Goal
<1> DEFINE new == [Idle EXCEPT !.pc = "write", !.op = op, !.a = a, !.row = row]
<1>8. Begun(r, new) /\ new.second = NoAppt /\ new.op = op /\ new.a = a
  BY <1>7 DEF Begin, Begun, Idle
<1> HIDE DEF new
<1> QED
  BY <1>7, <1>8

LEMMA ReadNewShape ==
  ASSUME NEW r \in Requests, ReadNew(r)
  PROVE  \E new : /\ Begun(r, new) /\ new.op \in Creates
                  /\ Fresh(new.a)
                  /\ new.second # NoAppt => Fresh(new.second) /\ new.second # new.a
<1>1. PICK a, op, row, second, slot2 :
        a \in Appts /\ op \in Creates /\ Fresh(a) /\ Create(r, op, a, row, second, slot2)
  BY DEF ReadNew, ReadCreate, ReadCalendarCreate, Creates
<1> DEFINE new == [Idle EXCEPT !.pc = "write", !.op = op, !.a = a, !.second = second,
                               !.slot2 = slot2, !.row = row, !.read = case[CaseOf[a]]]
<1>2. Begun(r, new) /\ new.second = second /\ new.op = op /\ new.a = a
  BY <1>1 DEF Create, Begun, Idle
<1>3. second # NoAppt => Fresh(second) /\ second # a
  BY <1>1 DEF Create
<1> HIDE DEF new
<1> QED
  BY <1>1, <1>2, <1>3

\* A write step ends its request, or goes on inside its transaction.
Continued(r) ==
    /\ \A q \in Requests \ {r} : req'[q] = req[q]
    /\ req[r].pc # "idle" /\ req'[r].op = req[r].op /\ req'[r].a = req[r].a
    /\ req'[r].second = req[r].second /\ req'[r].row = req[r].row
    /\ UNCHANGED <<policy, appt, case, orders, agreed>>

LEMMA ContinuedStep ==
  ASSUME TypeOK, NEW r \in Requests, MissOrder(r) \/ TakeNumber(r)
  PROVE  Continued(r)
BY DEF MissOrder, Miss, TakeNumber, CanWrite, TypeOK, Request, Continued

\* The rows a write step leaves alone.
LEMMA OtherRows ==
  ASSUME TypeOK, NEW r \in Requests, Write(r),
         NEW b \in Appts, b \notin {req[r].a, req[r].second}
  PROVE  appt'[b] = appt[b]
<1>1. CASE \E row : appt' = [appt EXCEPT ![req[r].a] = row]
  BY <1>1 DEF TypeOK
<1>2. CASE WriteCalendarCreate(r)
  <2> DEFINE rows == IF req[r].second = NoAppt THEN {req[r].a} ELSE {req[r].a, req[r].second}
             row == [req[r].row EXCEPT !.supplier = @ \/ case[CaseOf[req[r].a]].supplier]
             slotOf(d) == IF d = req[r].a THEN row.slot ELSE req[r].slot2
             new(d) == [row EXCEPT !.slot = slotOf(d)]
  <2>1. \/ appt' = appt
        \/ appt' = [d \in Appts |-> IF d \in rows THEN new(d) ELSE appt[d]]
    BY <1>2, Zenon DEF WriteCalendarCreate
  <2>2. b \notin rows
    OBVIOUS
  <2> HIDE DEF rows, new
  <2> QED
    BY <2>1, <2>2
<1>3. CASE appt' = appt
  BY <1>3
<1>4. CASE WriteDecline(r) \/ WriteRequestCancel(r)
  BY <1>4 DEF WriteDecline, WriteRequestCancel, TypeOK
<1>5. CASE WriteProposal(r)
  BY <1>1, <1>5 DEF WriteProposal
<1>6. CASE WritePatch(r)
  BY <1>1, <1>6 DEF WritePatch
<1>7. CASE WritePeerSignature(r)
  BY <1>1, <1>7 DEF WritePeerSignature
<1>8. CASE WriteCreate(r)
  BY <1>1, <1>8 DEF WriteCreate
<1>9. CASE WriteSignature(r) \/ ReuseOrder(r) \/ InsertOrder(r)
  BY <1>1, <1>9 DEF WriteSignature, ReuseOrder, InsertOrder, OpenGate
<1>10. CASE MissOrder(r) \/ TakeNumber(r) \/ NumberTaken(r)
  BY <1>3, <1>10 DEF MissOrder, Miss, TakeNumber, NumberTaken
<1> QED
  BY <1>2, <1>4, <1>5, <1>6, <1>7, <1>8, <1>9, <1>10 DEF Write

LEMMA WriteEnds ==
  ASSUME TypeOK, NEW r \in Requests, Write(r)
  PROVE  /\ req[r].pc # "idle" /\ policy' = policy
         /\ \A q \in Requests \ {r} : req'[q] = req[q]
         /\ req'[r].pc = "idle" \/ (Continued(r) /\ (MissOrder(r) \/ TakeNumber(r)))
<1>1. CASE MissOrder(r) \/ TakeNumber(r)
  BY <1>1, ContinuedStep DEF Continued
<1>2. CASE WritesKept(r)
  <2>1. req[r].pc # "idle"
    BY <1>2 DEF WritesKept, WriteCreate, WriteCalendarCreate, WritePeerSignature,
         WriteSignature, ReuseOrder, NumberTaken, WriteDecline, WriteProposal,
         WriteRequestCancel, WritePatch, CanWrite
  <2> QED
    BY <1>2, <2>1, WriteDone, DoneStep
<1>3. CASE InsertOrder(r)
  <2>1. Done(r) /\ policy' = policy /\ req[r].pc # "idle"
    BY <1>3 DEF InsertOrder, OpenGate
  <2> QED
    BY <2>1, DoneStep
<1> QED
  BY <1>1, <1>2, <1>3 DEF Write, WritesKept

LEMMA IdStep == TypeOK /\ IdInv /\ [Next]_vars => IdInv'
<1> SUFFICES ASSUME TypeOK, IdInv, [Next]_vars
             PROVE  IdInv'
  OBVIOUS
<1>0. \A r \in Requests : req[r].pc # "idle" => req[r].a \in Appts /\ req[r].a # NoAppt
  BY ConstantsAssumption DEF TypeOK, ConstantsAssumption
<1>1. CASE UNCHANGED vars
  BY <1>1 DEF vars, IdInv, Exists
<1>2. ASSUME NEW r \in Requests, ReadRow(r)
      PROVE  IdInv'
  <2>1. PICK new : /\ Begun(r, new)
                   /\ new.second = NoAppt /\ new.op \notin Creates /\ Exists(new.a)
    BY <1>2, ReadRowShape
  <2>2. /\ req'[r] = new /\ \A q \in Requests \ {r} : req'[q] = req[q]
        /\ appt' = appt /\ new.pc = "write" /\ new.a \in Appts
    BY <2>1 DEF Begun, TypeOK
  <2> QED
    BY <2>1, <2>2, <1>0 DEF IdInv, Exists
<1>3. ASSUME NEW r \in Requests, ReadNew(r)
      PROVE  IdInv'
  <2>1. PICK new : /\ Begun(r, new) /\ new.op \in Creates
                   /\ Fresh(new.a)
                   /\ new.second # NoAppt => Fresh(new.second) /\ new.second # new.a
    BY <1>3, ReadNewShape
  <2>2. /\ req'[r] = new /\ \A q \in Requests \ {r} : req'[q] = req[q]
        /\ appt' = appt /\ new.pc = "write" /\ new.a \in Appts
    BY <2>1 DEF Begun, TypeOK
  <2> QED
    BY <2>1, <2>2, <1>0 DEF IdInv, Exists, Fresh
<1>4. ASSUME NEW r \in Requests, Write(r)
      PROVE  IdInv'
  <2>1. /\ req[r].pc # "idle"
        /\ \A q \in Requests \ {r} : req'[q] = req[q]
        /\ req'[r].pc = "idle" \/ (Continued(r) /\ (MissOrder(r) \/ TakeNumber(r)))
    BY <1>4, WriteEnds
  <2>2. CASE Continued(r) /\ (MissOrder(r) \/ TakeNumber(r))
    <3>1. TypeOK' /\ appt' = appt
      BY <1>4, <2>2, NextTyped, ConstantsAssumption DEF Continued, Next
    <3>2. req[r].op \notin Creates
      <4>1. req[r].pc = "number" \/ req[r].op \in {"confirm", "acknowledge"}
        BY <2>2 DEF MissOrder, TakeNumber, CanWrite
      <4> QED
        BY <2>1, <4>1 DEF Creates, IdInv
    <3> QED
      BY <2>2, <3>1, <3>2 DEF IdInv, Exists, Continued
  <2>3. CASE req'[r].pc = "idle"
    <3>1. ASSUME NEW q \in Requests, req'[q].pc # "idle", req'[q].op \in Creates
          PROVE  /\ req'[q].pc = "write" /\ appt'[req'[q].a].status = "absent"
                 /\ req'[q].second # NoAppt => appt'[req'[q].second].status = "absent"
      <4>1. q # r /\ req'[q] = req[q]
        BY <2>1, <2>3, <3>1
      <4>2. /\ req[q].a \notin {req[r].a, req[r].second}
            /\ req[q].second # NoAppt => req[q].second \notin {req[r].a, req[r].second}
        BY <2>1, <3>1, <4>1 DEF IdInv
      <4>3. appt'[req[q].a] = appt[req[q].a] /\ req[q].a \in Appts
        BY <1>0, <1>4, <3>1, <4>1, <4>2, OtherRows
      <4>4. req[q].second # NoAppt => appt'[req[q].second] = appt[req[q].second]
        <5>1. req[q].second \in Appts \cup {NoAppt}
          BY DEF TypeOK, Request
        <5> QED
          BY <1>4, <4>2, <5>1, OtherRows
      <4> QED
        BY <3>1, <4>1, <4>3, <4>4 DEF IdInv, Exists
    <3> QED
      BY <2>1, <2>3, <3>1 DEF IdInv, Exists
  <2> QED
    BY <2>1, <2>2, <2>3
<1> QED
  BY <1>1, <1>2, <1>3, <1>4 DEF Next

-----------------------------------------------------------------------------
(***************************************************************************)
(* A transaction that opens an order holds the lock of the row it signs,   *)
(* from the moment it has looked at the signatures to the insert: no other *)
(* step writes that row, so the signatures are still there.                *)
(***************************************************************************)
LockInv ==
    /\ \A r \in Requests : Opening(r) =>
         req[r].op \in {"confirm", "acknowledge"} /\ BothKeys(Signed(r))
    /\ \A r, q \in Requests : Opening(r) /\ Opening(q) /\ r # q => req[r].a # req[q].a

\* What is signed depends on the row and the policy alone.
LEMMA SignedKept ==
  ASSUME NEW q, req'[q].a = req[q].a, req'[q].op = req[q].op,
         appt'[req[q].a] = appt[req[q].a], policy' = policy
  PROVE  BothKeys(Signed(q))' <=> BothKeys(Signed(q))
BY DEF BothKeys, Signed, AckRequired

\* A write by one request leaves the row another one holds the lock of.
LEMMA LockedRowKept ==
  ASSUME TypeOK, IdInv, LockInv, NEW r \in Requests, Write(r),
         NEW q \in Requests \ {r}, Opening(q)
  PROVE  appt'[req[q].a] = appt[req[q].a]
<1>1. req[q].a \in Appts /\ req[q].a # NoAppt /\ req[q].pc # "idle"
  BY ConstantsAssumption DEF TypeOK, ConstantsAssumption, Opening
<1>2. req[q].a # req[r].a
  <2>1. CASE Opening(r)
    BY <2>1 DEF LockInv
  <2>2. CASE \E ops : CanWrite(r, ops)
    BY <2>2 DEF CanWrite, Locked, Opening
  <2> QED
    BY <2>1, <2>2 DEF Write, Opening, WriteCreate, WriteCalendarCreate, WritePeerSignature,
       WriteSignature, ReuseOrder, MissOrder, TakeNumber, InsertOrder, NumberTaken,
       WriteDecline, WriteProposal, WriteRequestCancel, WritePatch
<1>3. req[q].a # req[r].second
  <2>1. req[r].pc # "idle"
    BY WriteEnds
  <2> QED
    BY <1>1, <2>1 DEF IdInv
<1> QED
  BY <1>1, <1>2, <1>3, OtherRows

LEMMA LockStep == TypeOK /\ IdInv /\ LockInv /\ [Next]_vars => LockInv'
<1> SUFFICES ASSUME TypeOK, IdInv, LockInv, [Next]_vars
             PROVE  LockInv'
  OBVIOUS
<1>1. CASE UNCHANGED vars
  BY <1>1 DEF vars, LockInv, Opening, BothKeys, Signed, AckRequired
<1>2. ASSUME NEW r \in Requests, ReadNew(r) \/ ReadRow(r)
      PROVE  LockInv'
  <2>1. PICK new : Begun(r, new)
    BY <1>2, ReadNewShape, ReadRowShape
  <2>2. /\ req'[r].pc = "write" /\ \A q \in Requests \ {r} : req'[q] = req[q]
        /\ appt' = appt /\ policy' = policy
    BY <2>1 DEF Begun, TypeOK
  <2>3. \A q \in Requests : Opening(q)' => q # r /\ Opening(q) /\ req'[q] = req[q]
    BY <2>2 DEF Opening
  <2>4. \A q \in Requests : Opening(q)' => BothKeys(Signed(q))'
    BY <2>2, <2>3, SignedKept DEF LockInv
  <2> QED
    BY <2>3, <2>4 DEF LockInv
<1>3. ASSUME NEW r \in Requests, Write(r)
      PROVE  LockInv'
  <2>1. /\ policy' = policy /\ \A q \in Requests \ {r} : req'[q] = req[q]
        /\ req'[r].pc = "idle" \/ (Continued(r) /\ (MissOrder(r) \/ TakeNumber(r)))
    BY <1>3, WriteEnds
  <2>2. \A q \in Requests \ {r} : Opening(q)' <=> Opening(q)
    BY <2>1 DEF Opening
  <2>3. \A q \in Requests \ {r} : Opening(q) => BothKeys(Signed(q))'
    BY <1>3, <2>1, LockedRowKept, SignedKept DEF LockInv
  <2>4. CASE req'[r].pc = "idle"
    BY <2>1, <2>2, <2>3, <2>4 DEF LockInv, Opening
  <2>5. CASE Continued(r) /\ (MissOrder(r) \/ TakeNumber(r))
    <3>1. BothKeys(Signed(r)) /\ req[r].op \in {"confirm", "acknowledge"}
      BY <2>5 DEF MissOrder, CanWrite, TakeNumber, LockInv, Opening
    <3>2. BothKeys(Signed(r))' /\ req'[r].op \in {"confirm", "acknowledge"}
      BY <2>5, <3>1, SignedKept DEF Continued
    <3>3. \A q \in Requests \ {r} : Opening(q) => req[q].a # req[r].a
      BY <2>5 DEF MissOrder, CanWrite, Locked, TakeNumber, LockInv, Opening
    <3>4. req'[r].a = req[r].a
      BY <2>5 DEF Continued
    <3> QED
      BY <2>1, <2>2, <2>3, <3>2, <3>3, <3>4 DEF LockInv
  <2> QED
    BY <2>1, <2>4, <2>5
<1> QED
  BY <1>2, <1>3, <1>1 DEF Next

LEMMA LockStart == Init => TypeOK /\ IdInv /\ LockInv
<1> SUFFICES ASSUME Init
             PROVE  TypeOK /\ IdInv /\ LockInv
  OBVIOUS
<1>1. TypeOK
  BY InitTyped, ConstantsAssumption
<1>2. \A r \in Requests : req[r].pc = "idle"
  BY IdleTyped DEF Init
<1> QED
  BY <1>1, <1>2 DEF IdInv, LockInv, Opening

LEMMA TypeStep == TypeOK /\ [Next]_vars => TypeOK'
<1> SUFFICES ASSUME TypeOK, [Next]_vars
             PROVE  TypeOK'
  OBVIOUS
<1>1. CASE Next
  BY <1>1, NextTyped, ConstantsAssumption
<1>2. CASE UNCHANGED vars
  BY <1>2 DEF vars, TypeOK
<1> QED
  BY <1>1, <1>2

LEMMA InsertSigned ==
  ASSUME TypeOK, LockInv, NEW r \in Requests, InsertOrder(r), NEW o \in orders',
         \A p \in orders : p.num # o.num
  PROVE  /\ req[r].a \in Appts /\ o.case = CaseOf[req[r].a] /\ o.num = req[r].num
         /\ BothKeys(appt'[req[r].a])
<1> DEFINE c == CaseOf[req[r].a]
           supplier == req[r].row.supplier \/ req[r].read.supplier
           image(x) == IF x.case = c
                       THEN [x EXCEPT !.planned = req[r].row.slot, !.supplier = supplier]
                       ELSE x
<1>1. orders' = {image(x) : x \in orders \cup {NewOrder(r)}}
  BY DEF InsertOrder, OpenGate
<1>2. \A x \in orders : image(x).num = x.num
  BY DEF TypeOK, WorkOrder
<1>3. image(NewOrder(r)).case = c /\ image(NewOrder(r)).num = req[r].num
  BY DEF NewOrder
<1>4. Opening(r) /\ req[r].a \in Appts /\ appt' = [appt EXCEPT ![req[r].a] = Signed(r)]
  BY DEF InsertOrder, OpenGate, Opening, TypeOK
<1>5. appt'[req[r].a] = Signed(r) /\ BothKeys(Signed(r))
  BY <1>4 DEF TypeOK, LockInv
<1> HIDE DEF image
<1>6. o = image(NewOrder(r))
  BY <1>1, <1>2
<1> QED
  BY <1>3, <1>4, <1>5, <1>6

\* A work order appears only with the signatures, whatever else is going on: for any
\* number of concurrent requests, every policy, and all the endpoints, the PATCHes and
\* the calendar included.
THEOREM OrderNeedsKeys == Spec => OrderNeedsBothKeys
<1> DEFINE Signing == \A o \in orders' : (\A p \in orders : p.num # o.num) =>
                         \E a \in Appts : CaseOf[a] = o.case /\ BothKeys(appt'[a])
<1>1. TypeOK /\ IdInv /\ LockInv /\ [Next]_vars => [Signing]_vars
  <2> SUFFICES ASSUME TypeOK, LockInv, [Next]_vars, NEW o \in orders',
                      \A p \in orders : p.num # o.num
               PROVE  \E a \in Appts : CaseOf[a] = o.case /\ BothKeys(appt'[a])
    OBVIOUS
  <2>1. CASE orders' = orders
    BY <2>1
  <2>2. ASSUME NEW r \in Requests, WritesKept(r)
        PROVE  FALSE
    BY <2>2, OrdersMapped
  <2>3. ASSUME NEW r \in Requests, InsertOrder(r)
        PROVE  \E a \in Appts : CaseOf[a] = o.case /\ BothKeys(appt'[a])
    BY <2>3, InsertSigned
  <2>4. ASSUME NEW r \in Requests, ReadNew(r) \/ ReadRow(r)
        PROVE  orders' = orders
    BY <2>4, ReadNewShape, ReadRowShape DEF Begun
  <2>5. ASSUME NEW r \in Requests, MissOrder(r) \/ TakeNumber(r)
        PROVE  orders' = orders
    BY <2>5 DEF MissOrder, Miss, TakeNumber
  <2> QED
    BY <2>1, <2>2, <2>3, <2>4, <2>5 DEF Next, Write, WritesKept, vars
<1> QED
  BY <1>1, LockStart, LockStep, IdStep, TypeStep, PTL DEF Spec, OrderNeedsBothKeys

-----------------------------------------------------------------------------
(***************************************************************************)
(* The numbers of the work orders.  A transaction takes the number after   *)
(* the last one it sees; when it inserts, either that is still the next,   *)
(* or another transaction has taken it and the unique index refuses it.    *)
(***************************************************************************)
Opened == {<<o.case, o.num>> : o \in orders}

NumInv ==
    /\ IsFiniteSet(Opened)
    /\ \A n : (\E o \in orders : o.num = n) <=> n \in 1..Cardinality(Opened)
    /\ \A r \in Requests : req[r].pc = "insert" => req[r].num \in 1..(Cardinality(Opened) + 1)

LEMMA OpenedKept ==
  ASSUME TypeOK, NEW r \in Requests, WritesKept(r)
  PROVE  /\ Opened' = Opened
         /\ \A n : (\E o \in orders' : o.num = n) <=> (\E o \in orders : o.num = n)
<1>1. PICK f : /\ orders' = {f[o] : o \in orders}
               /\ \A o \in orders : f[o].case = o.case /\ f[o].num = o.num
  BY OrdersMapped
<1>2. Opened' = {<<o.case, o.num>> : o \in orders'}
  BY DEF Opened
<1>3. {<<o.case, o.num>> : o \in orders'} = Opened
  <2>1. \A o \in orders' : <<o.case, o.num>> \in Opened
    BY <1>1 DEF Opened
  <2>2. \A o \in orders : <<o.case, o.num>> \in {<<p.case, p.num>> : p \in orders'}
    <3> SUFFICES ASSUME NEW o \in orders
                 PROVE  \E p \in orders' : <<o.case, o.num>> = <<p.case, p.num>>
      OBVIOUS
    <3>1. f[o] \in orders' /\ f[o].case = o.case /\ f[o].num = o.num
      BY <1>1
    <3> QED
      BY <3>1
  <2> QED
    BY <2>1, <2>2 DEF Opened
<1>4. \A n : (\E o \in orders' : o.num = n) <=> (\E o \in orders : o.num = n)
  BY <1>1
<1> QED
  BY <1>2, <1>3, <1>4

LEMMA OpenedInserted ==
  ASSUME TypeOK, NEW r \in Requests, InsertOrder(r)
  PROVE  /\ Opened' = Opened \cup {<<CaseOf[req[r].a], req[r].num>>}
         /\ \A n : (\E o \in orders' : o.num = n) <=>
                      (\E o \in orders : o.num = n) \/ n = req[r].num
         /\ \A o \in orders : o.num # req[r].num
<1> DEFINE c == CaseOf[req[r].a]
           supplier == req[r].row.supplier \/ req[r].read.supplier
           image(x) == IF x.case = c
                       THEN [x EXCEPT !.planned = req[r].row.slot, !.supplier = supplier]
                       ELSE x
           all == orders \cup {NewOrder(r)}
<1>1. orders' = {image(x) : x \in all}
  BY DEF InsertOrder, OpenGate
<1>2. \A x \in orders : image(x).case = x.case /\ image(x).num = x.num
  BY DEF TypeOK, WorkOrder
<1>3. /\ image(NewOrder(r)).case = c /\ image(NewOrder(r)).num = req[r].num
      /\ NewOrder(r).case = c /\ NewOrder(r).num = req[r].num
  BY DEF NewOrder
<1> HIDE DEF image
<1>4. \A x \in all : image(x).case = x.case /\ image(x).num = x.num
  BY <1>2, <1>3
<1>5. Opened' = {<<o.case, o.num>> : o \in orders'}
  BY DEF Opened
<1>6. {<<o.case, o.num>> : o \in orders'} = {<<x.case, x.num>> : x \in all}
  <2>1. ASSUME NEW o \in orders'
        PROVE  \E x \in all : <<o.case, o.num>> = <<x.case, x.num>>
    BY <1>1, <1>4
  <2>2. ASSUME NEW x \in all
        PROVE  \E o \in orders' : <<o.case, o.num>> = <<x.case, x.num>>
    <3>1. image(x) \in orders'
      BY <1>1
    <3> QED
      BY <1>4, <3>1
  <2> QED
    BY <2>1, <2>2
<1>7. {<<x.case, x.num>> : x \in all} = Opened \cup {<<c, req[r].num>>}
  <2> HIDE DEF c
  <2> QED
    BY <1>3 DEF Opened
<1>8. \A n : (\E o \in orders' : o.num = n) <=>
               (\E o \in orders : o.num = n) \/ n = req[r].num
  BY <1>1, <1>3, <1>4
<1>9. \A o \in orders : o.num # req[r].num
  BY DEF InsertOrder
<1> QED
  BY <1>5, <1>6, <1>7, <1>8, <1>9

\* An insert that is not refused has the next number.
LEMMA NextNumber ==
  ASSUME TypeOK, NumInv, NEW r \in Requests, InsertOrder(r)
  PROVE  /\ Cardinality(Opened) \in Nat /\ req[r].num = Cardinality(Opened) + 1
         /\ IsFiniteSet(Opened') /\ Cardinality(Opened') = Cardinality(Opened) + 1
<1>1. Cardinality(Opened) \in Nat /\ IsFiniteSet(Opened)
  BY FS_CardinalityType DEF NumInv
<1>2. req[r].num \in 1..(Cardinality(Opened) + 1) /\ req[r].num \notin 1..Cardinality(Opened)
  BY OpenedInserted DEF NumInv, InsertOrder
<1>3. req[r].num = Cardinality(Opened) + 1
  BY <1>1, <1>2
<1>4. <<CaseOf[req[r].a], req[r].num>> \notin Opened
  BY OpenedInserted DEF Opened
<1>5. Opened' = Opened \cup {<<CaseOf[req[r].a], req[r].num>>}
  BY OpenedInserted
<1>6. IsFiniteSet(Opened') /\ Cardinality(Opened') = Cardinality(Opened) + 1
  BY <1>1, <1>4, <1>5, FS_AddElement
<1> QED
  BY <1>1, <1>3, <1>6

LEMMA NumStep == TypeOK /\ NumInv /\ [Next]_vars => NumInv'
<1> SUFFICES ASSUME TypeOK, NumInv, [Next]_vars
             PROVE  NumInv'
  OBVIOUS
<1>0. Cardinality(Opened) \in Nat
  BY FS_CardinalityType DEF NumInv
<1>1. CASE UNCHANGED vars
  BY <1>1 DEF vars, NumInv, Opened
<1>2. ASSUME NEW r \in Requests, ReadNew(r) \/ ReadRow(r)
      PROVE  NumInv'
  <2>1. PICK new : Begun(r, new)
    BY <1>2, ReadNewShape, ReadRowShape
  <2>2. /\ req'[r].pc = "write" /\ \A q \in Requests \ {r} : req'[q] = req[q]
        /\ orders' = orders
    BY <2>1 DEF Begun, TypeOK
  <2> QED
    BY <2>2 DEF NumInv, Opened
<1>3. ASSUME NEW r \in Requests, WritesKept(r)
      PROVE  NumInv'
  <2>1. req'[r].pc = "idle" /\ \A q \in Requests \ {r} : req'[q] = req[q]
    BY <1>3, WriteDone, DoneStep
  <2> QED
    BY <1>3, <2>1, OpenedKept DEF NumInv
<1>4. ASSUME NEW r \in Requests, MissOrder(r)
      PROVE  NumInv'
  <2>1. /\ req'[r].pc = "number" /\ \A q \in Requests \ {r} : req'[q] = req[q]
        /\ orders' = orders
    BY <1>4 DEF MissOrder, Miss, TypeOK, Request
  <2> QED
    BY <2>1 DEF NumInv, Opened
<1>5. ASSUME NEW r \in Requests, TakeNumber(r)
      PROVE  NumInv'
  <2>1. PICK n \in {1} \cup {o.num + 1 : o \in orders} :
             req' = [req EXCEPT ![r].pc = "insert", ![r].num = n]
    BY <1>5 DEF TakeNumber
  <2>2. n \in 1..(Cardinality(Opened) + 1)
    <3>1. \A o \in orders : o.num \in 1..Cardinality(Opened)
      BY DEF NumInv
    <3> QED
      BY <1>0, <2>1, <3>1
  <2>3. /\ req'[r].num = n /\ \A q \in Requests \ {r} : req'[q] = req[q]
        /\ orders' = orders
    BY <1>5, <2>1 DEF TakeNumber, TypeOK, Request
  <2> QED
    BY <2>2, <2>3 DEF NumInv, Opened
<1>6. ASSUME NEW r \in Requests, InsertOrder(r)
      PROVE  NumInv'
  <2>1. req'[r].pc = "idle" /\ \A q \in Requests \ {r} : req'[q] = req[q]
    BY <1>6, DoneStep DEF InsertOrder, OpenGate
  <2>2. /\ req[r].num = Cardinality(Opened) + 1
        /\ IsFiniteSet(Opened') /\ Cardinality(Opened') = Cardinality(Opened) + 1
    BY <1>6, NextNumber
  <2>3. \A n : (\E o \in orders' : o.num = n) <=> n \in 1..Cardinality(Opened')
    <3>1. \A n : (\E o \in orders' : o.num = n) <=>
                   n \in 1..Cardinality(Opened) \/ n = Cardinality(Opened) + 1
      BY <1>6, <2>2, OpenedInserted DEF NumInv
    <3> QED
      BY <1>0, <2>2, <3>1
  <2>4. \A q \in Requests : req'[q].pc = "insert" =>
            req'[q].num \in 1..(Cardinality(Opened') + 1)
    BY <1>0, <2>1, <2>2 DEF NumInv
  <2> QED
    BY <2>2, <2>3, <2>4 DEF NumInv
<1> QED
  BY <1>1, <1>2, <1>3, <1>4, <1>5, <1>6 DEF Next, Write, WritesKept

LEMMA NumStart == Init => NumInv
<1> SUFFICES ASSUME Init
             PROVE  NumInv
  OBVIOUS
<1>1. orders = {} /\ \A r \in Requests : req[r].pc = "idle"
  BY IdleTyped DEF Init
<1>2. Opened = {}
  BY <1>1 DEF Opened
<1> QED
  BY <1>1, <1>2, FS_EmptySet DEF NumInv

-----------------------------------------------------------------------------
(***************************************************************************)
(* The endpoints implement DualConfirm, when every case has one            *)
(* appointment, no row waives the acknowledgement and no PATCH is sent.    *)
(***************************************************************************)
SignedSet == {a \in Appts : BothKeys(appt[a])}

LEMMA SignedSetPrimed ==
  ASSUME policy' = policy
  PROVE  SignedSet' = {a \in Appts : BothKeys(appt'[a])}
BY DEF SignedSet, BothKeys, AckRequired

\* Steps of the abstract specification.
LEMMA AbstractQuiet ==
  ASSUME NEW a \in Appts, Opened' = Opened,
         SignedSet' = SignedSet \/ SignedSet' = SignedSet \ {a}
  PROVE  [Dual!Next]_(Dual!dualVars)
<1>1. CASE SignedSet' = SignedSet
  BY <1>1 DEF Dual!dualVars, SignedSet, Opened
<1>2. CASE SignedSet' = SignedSet \ {a} /\ a \in SignedSet
  <2>1. Dual!Withdraw(a)
    BY <1>2 DEF Dual!Withdraw, SignedSet, Opened
  <2> QED
    BY <2>1 DEF Dual!Next
<1> QED
  BY <1>1, <1>2

LEMMA AbstractJoin ==
  ASSUME NEW a \in Appts, Opened' = Opened, SignedSet' = SignedSet \cup {a},
         OrdersOf(CaseOf[a]) # {}
  PROVE  [Dual!Next]_(Dual!dualVars)
<1>1. Dual!HasOrder(CaseOf[a])
  <2>1. PICK o \in orders : o.case = CaseOf[a]
    BY DEF OrdersOf
  <2>2. <<o.case, o.num>> \in Opened /\ <<o.case, o.num>>[1] = CaseOf[a]
    BY <2>1 DEF Opened
  <2> QED
    BY <2>2 DEF Dual!HasOrder, Opened
<1>2. CASE a \in SignedSet
  <2>1. SignedSet' = SignedSet
    BY <1>2
  <2> QED
    BY <2>1 DEF Dual!dualVars, SignedSet, Opened
<1>3. CASE a \notin SignedSet
  <2>1. Dual!Join(a)
    BY <1>1, <1>3 DEF Dual!Join, SignedSet, Opened
  <2> QED
    BY <2>1 DEF Dual!Next
<1> QED
  BY <1>2, <1>3

\* DualConfirm counts with its own instance of FiniteSets.
LEMMA SameCardinality == \A S : Dual!Cardinality(S) = Cardinality(S)
BY Zenon DEF Cardinality, Dual!Cardinality

LEMMA AbstractOpen ==
  ASSUME NEW a \in Appts, a \notin SignedSet, OrdersOf(CaseOf[a]) = {},
         SignedSet' = SignedSet \cup {a},
         Opened' = Opened \cup {<<CaseOf[a], Cardinality(Opened) + 1>>}
  PROVE  [Dual!Next]_(Dual!dualVars)
<1>1. ~Dual!HasOrder(CaseOf[a])
  BY DEF Dual!HasOrder, OrdersOf
<1>2. Dual!Open(a)
  BY <1>1, SameCardinality DEF Dual!Open, SignedSet, Opened
<1> QED
  BY <1>2 DEF Dual!Next

SigningInv == TypeOK /\ OrderInv /\ KeysInv /\ IdInv /\ LockInv /\ NumInv

LEMMA SigningStep ==
  ASSUME SigningInv, QuietPatches, [Next]_vars
  PROVE  [Dual!Next]_(Dual!dualVars)
<1> USE DEF SigningInv
<1>1. CASE orders' = orders /\ appt' = appt /\ policy' = policy
  <2>1. Opened' = Opened /\ SignedSet' = SignedSet
    BY <1>1 DEF Opened, SignedSet, BothKeys, AckRequired
  <2> QED
    BY <2>1 DEF Dual!dualVars, SignedSet, Opened
<1>2. ASSUME NEW r \in Requests, ReadNew(r) \/ ReadRow(r)
      PROVE  UNCHANGED <<orders, appt, policy>>
  BY <1>2, ReadNewShape, ReadRowShape DEF Begun
<1>3. ASSUME NEW r \in Requests, MissOrder(r) \/ TakeNumber(r)
      PROVE  UNCHANGED <<orders, appt, policy>>
  BY <1>3 DEF MissOrder, Miss, TakeNumber
<1>4. ASSUME NEW r \in Requests, ReuseOrder(r)
      PROVE  [Dual!Next]_(Dual!dualVars)
  <2> DEFINE a == req[r].a
  <2>1. /\ a \in Appts /\ appt' = [appt EXCEPT ![a] = Signed(r)] /\ BothKeys(Signed(r))
        /\ OrdersOf(CaseOf[a]) # {} /\ policy' = policy
    BY <1>4 DEF ReuseOrder, OpenGate, CanWrite, TypeOK
  <2>2. SignedSet' = SignedSet \cup {a}
    BY <2>1, SignedSetPrimed DEF SignedSet, TypeOK
  <2>3. Opened' = Opened
    BY <1>4, OpenedKept DEF WritesKept
  <2> HIDE DEF a
  <2> QED
    BY <2>1, <2>2, <2>3, AbstractJoin
<1>5. ASSUME NEW r \in Requests, InsertOrder(r)
      PROVE  [Dual!Next]_(Dual!dualVars)
  <2> DEFINE a == req[r].a
  <2>1. /\ a \in Appts /\ appt' = [appt EXCEPT ![a] = Signed(r)] /\ policy' = policy
        /\ Opening(r)
    BY <1>5 DEF InsertOrder, OpenGate, TypeOK, Opening
  <2>2. BothKeys(Signed(r)) /\ OrdersOf(CaseOf[a]) = {}
    BY <2>1 DEF LockInv, OrderInv
  <2>3. SignedSet' = SignedSet \cup {a}
    BY <2>1, <2>2, SignedSetPrimed DEF SignedSet, TypeOK
  <2>4. a \notin SignedSet
    BY <2>2 DEF SignedSet, KeysInv, KeysOpenOrder
  <2>5. Opened' = Opened \cup {<<CaseOf[a], Cardinality(Opened) + 1>>}
    BY <1>5, OpenedInserted, NextNumber
  <2> HIDE DEF a
  <2> QED
    BY <2>1, <2>2, <2>3, <2>4, <2>5, AbstractOpen
<1>6. ASSUME NEW r \in Requests, WritesKept(r), ~ReuseOrder(r)
      PROVE  [Dual!Next]_(Dual!dualVars)
  <2> DEFINE a == req[r].a
  <2>0. Write(r) /\ req[r].pc # "idle"
    BY <1>6, WriteEnds DEF Write, WritesKept
  <2>1. Opened' = Opened /\ policy' = policy /\ a \in Appts
    BY <1>6, <2>0, OpenedKept, WriteDone DEF TypeOK
  <2>2. \A b \in Appts : BothKeys(appt'[b]) => BothKeys(appt[b])
    BY <1>6, WrittenKeys
  <2>3. \A b \in Appts \ {a} : BothKeys(appt[b]) => BothKeys(appt'[b])
    <3> SUFFICES ASSUME NEW b \in Appts \ {a}, BothKeys(appt[b])
                 PROVE  BothKeys(appt'[b])
      OBVIOUS
    <3>1. b # req[r].second
      <4>1. appt[b].status = "confirmed"
        BY DEF BothKeys
      <4>2. b # NoAppt
        BY ConstantsAssumption DEF ConstantsAssumption
      <4> QED
        BY <2>0, <4>1, <4>2 DEF IdInv, Exists
    <3>2. appt'[b] = appt[b]
      BY <2>0, <3>1, OtherRows
    <3> QED
      BY <3>2
  <2>4. SignedSet' = SignedSet \/ SignedSet' = SignedSet \ {a}
    BY <2>1, <2>2, <2>3, SignedSetPrimed DEF SignedSet
  <2> HIDE DEF a
  <2> QED
    BY <2>1, <2>4, AbstractQuiet
<1>7. CASE UNCHANGED vars
  BY <1>1, <1>7 DEF vars
<1> QED
  BY <1>1, <1>2, <1>3, <1>4, <1>5, <1>6, <1>7 DEF Next, Write, WritesKept

LEMMA SigningStart == Init => Dual!Init
<1> SUFFICES ASSUME Init
             PROVE  Dual!Init
  OBVIOUS
<1>1. orders = {} /\ \A a \in Appts : ~appt[a].mgr
  BY BlankUnsigned DEF Init
<1> QED
  BY <1>1 DEF Dual!Init, BothKeys

\* What the rows show of the signing is a behaviour of DualConfirm: the last signature
\* and the order come in one step, a case has one order and the orders are numbered one
\* after another, for any number of concurrent requests, PATCHes that complete no
\* signatures among them.
THEOREM ImplementsDualConfirm ==
  ASSUME \A a, b \in Appts : CaseOf[a] = CaseOf[b] => a = b, NoWaiver
  PROVE  Spec /\ []QuietPatches => SignsLikeDualConfirm
<1>1. Init => SigningInv
  BY OrderStart, KeysStart, LockStart, NumStart DEF SigningInv
<1>2. SigningInv /\ QuietPatches /\ [Next]_vars => SigningInv'
  BY OrderStep, KeysStep, LockStep, IdStep, TypeStep, NumStep DEF SigningInv
<1>3. SigningInv /\ QuietPatches /\ [Next]_vars => [Dual!Next]_(Dual!dualVars)
  BY SigningStep
<1> QED
  BY <1>1, <1>2, <1>3, SigningStart, PTL DEF Spec, SignsLikeDualConfirm, Dual!Spec

-----------------------------------------------------------------------------
(***************************************************************************)
(* What each write does to its row and to the record of who named which    *)
(* slot.                                                                   *)
(***************************************************************************)
LEMMA SignEffect ==
  ASSUME TypeOK, LockInv, NEW r \in Requests, NEW a \in Appts, a = req[r].a,
         WriteSignature(r) \/ ReuseOrder(r) \/ InsertOrder(r)
  PROVE  /\ req[r].op \in {"confirm", "acknowledge"}
         /\ appt'[a].slot = appt[a].slot /\ appt'[a].supplier = appt[a].supplier
         /\ appt'[a].declined = appt[a].declined
         /\ req[r].op = "confirm" =>
              /\ appt'[a].status = "confirmed" /\ appt'[a].counter = "none"
              /\ appt'[a].mgr /\ appt'[a].ack = appt[a].ack
              /\ agreed'[a] = [agreed[a] EXCEPT !["manager"] = req[r].row.slot]
         /\ req[r].op = "acknowledge" =>
              /\ appt'[a].status = appt[a].status /\ appt'[a].counter = appt[a].counter
              /\ appt'[a].mgr = appt[a].mgr /\ appt'[a].ack
              /\ agreed'[a] = [agreed[a] EXCEPT !["driver"] = req[r].row.slot]
<1>1. req[r].op \in {"confirm", "acknowledge"}
  BY DEF WriteSignature, ReuseOrder, InsertOrder, CanWrite, LockInv, Opening
<1>2. appt' = [appt EXCEPT ![a] = Signed(r)] /\ Sign(r) /\ appt[a] \in ApptRow
  BY DEF WriteSignature, ReuseOrder, InsertOrder, OpenGate, TypeOK
<1>3. agreed'[a] = [agreed[a] EXCEPT ![Signer(req[r].op)] = req[r].row.slot]
  BY <1>2 DEF Sign, TypeOK
<1>4. appt'[a] = Signed(r)
  BY <1>2 DEF TypeOK
<1>5. CASE req[r].op = "confirm"
  <2>1. Signer(req[r].op) = "manager"
    BY <1>5 DEF Signer
  <2> DEFINE row == [appt[a] EXCEPT !.status = "confirmed", !.mgr = TRUE, !.counter = "none"]
  <2>2. appt'[a] = row
    BY <1>4, <1>5 DEF Signed
  <2>3. /\ row.slot = appt[a].slot /\ row.supplier = appt[a].supplier
        /\ row.declined = appt[a].declined /\ row.counter = "none"
        /\ row.status = "confirmed" /\ row.mgr /\ row.ack = appt[a].ack
    BY <1>2 DEF ApptRow
  <2> HIDE DEF row
  <2> QED
    BY <1>3, <1>5, <2>1, <2>2, <2>3
<1>6. CASE req[r].op = "acknowledge"
  <2>1. Signer(req[r].op) = "driver"
    BY <1>6 DEF Signer
  <2> DEFINE row == [appt[a] EXCEPT !.ack = TRUE]
  <2>2. appt'[a] = row
    BY <1>4, <1>6 DEF Signed
  <2>3. /\ row.slot = appt[a].slot /\ row.supplier = appt[a].supplier
        /\ row.declined = appt[a].declined /\ row.counter = appt[a].counter
        /\ row.status = appt[a].status /\ row.mgr = appt[a].mgr /\ row.ack
    BY <1>2 DEF ApptRow
  <2> HIDE DEF row
  <2> QED
    BY <1>3, <1>6, <2>1, <2>2, <2>3
<1> QED
  BY <1>1, <1>5, <1>6

LEMMA PeerEffect ==
  ASSUME TypeOK, NEW r \in Requests, NEW a \in Appts, a = req[r].a, WritePeerSignature(r)
  PROVE  /\ req[r].op \in {"confirmPeer", "acknowledgePeer"}
         /\ appt'[a].slot = appt[a].slot /\ appt'[a].supplier = appt[a].supplier
         /\ appt'[a].declined = appt[a].declined /\ appt'[a].counter = appt[a].counter
         /\ appt'[a].status = "pending_supplier"
         /\ req[r].op = "confirmPeer" =>
              /\ appt'[a].mgr /\ appt'[a].ack = appt[a].ack
              /\ agreed'[a] = [agreed[a] EXCEPT !["manager"] = req[r].row.slot]
         /\ req[r].op = "acknowledgePeer" =>
              /\ appt'[a].mgr = appt[a].mgr /\ appt'[a].ack
              /\ agreed'[a] = [agreed[a] EXCEPT !["driver"] = req[r].row.slot]
<1> DEFINE manager == req[r].op = "confirmPeer"
           mgr == appt[a].mgr \/ manager
           ack == appt[a].ack \/ ~manager
           row == [appt[a] EXCEPT !.status = "pending_supplier", !.mgr = mgr, !.ack = ack]
<1>1. /\ req[r].op \in {"confirmPeer", "acknowledgePeer"} /\ Sign(r)
      /\ appt[a] \in ApptRow /\ appt' = [appt EXCEPT ![a] = row]
  BY DEF WritePeerSignature, CanWrite, TypeOK
<1>2. agreed'[a] = [agreed[a] EXCEPT ![Signer(req[r].op)] = req[r].row.slot]
  BY <1>1 DEF Sign, TypeOK
<1>3. appt'[a] = row
  BY <1>1 DEF TypeOK
<1>4. /\ req[r].op = "confirmPeer" => mgr /\ ack = appt[a].ack
      /\ req[r].op = "acknowledgePeer" => ack /\ mgr = appt[a].mgr
  BY <1>1 DEF ApptRow
<1>5. /\ row.slot = appt[a].slot /\ row.supplier = appt[a].supplier
      /\ row.declined = appt[a].declined /\ row.counter = appt[a].counter
      /\ row.status = "pending_supplier" /\ row.mgr = mgr /\ row.ack = ack
  <2> HIDE DEF mgr, ack
  <2> QED
    BY <1>1 DEF ApptRow
<1>6. /\ Signer("confirmPeer") = "manager" /\ Signer("acknowledgePeer") = "driver"
  BY DEF Signer
<1> HIDE DEF row, mgr, ack
<1> QED
  BY <1>1, <1>2, <1>3, <1>4, <1>5, <1>6

LEMMA DeclineEffect ==
  ASSUME TypeOK, NEW r \in Requests, NEW a \in Appts, a = req[r].a, WriteDecline(r)
  PROVE  /\ appt'[a].slot = appt[a].slot /\ appt'[a].supplier = appt[a].supplier
         /\ appt'[a].declined /\ appt'[a].counter = appt[a].counter
         /\ appt'[a].status = "needs_repropose" /\ ~appt'[a].mgr /\ ~appt'[a].ack
         /\ agreed' = agreed /\ req[r].op = "decline" /\ orders' = orders
<1> DEFINE row == [appt[a] EXCEPT !.status = "needs_repropose", !.declined = TRUE,
                                  !.mgr = FALSE, !.ack = FALSE]
<1>1. /\ appt' = [appt EXCEPT ![a] = row] /\ appt[a] \in ApptRow
      /\ agreed' = agreed /\ req[r].op = "decline" /\ orders' = orders
  BY DEF WriteDecline, CanWrite, TypeOK
<1>2. /\ row.slot = appt[a].slot /\ row.supplier = appt[a].supplier
      /\ row.declined /\ row.counter = appt[a].counter
      /\ row.status = "needs_repropose" /\ ~row.mgr /\ ~row.ack
  BY <1>1 DEF ApptRow
<1> HIDE DEF row
<1> QED
  BY <1>1, <1>2 DEF TypeOK

LEMMA ProposalEffect ==
  ASSUME TypeOK, NEW r \in Requests, NEW a \in Appts, a = req[r].a, WriteProposal(r)
  PROVE  /\ req[r].op \in {"proposeManager", "proposeDriver", "validate"}
         /\ appt'[a].slot = req[r].row.slot /\ appt'[a].supplier = appt[a].supplier
         /\ ~appt'[a].declined /\ appt'[a].counter = req[r].row.counter
         /\ appt'[a].status = req[r].row.status
         /\ appt'[a].mgr = req[r].row.mgr /\ appt'[a].ack = req[r].row.ack
         /\ agreed'[a] = [agreed[a] EXCEPT ![Proposer(req[r].op)] = req[r].row.slot]
         /\ orders' = Replan(CaseOf[a], req[r].row.slot)
<1> DEFINE w == req[r].row
           row == [appt[a] EXCEPT !.slot = w.slot, !.status = w.status, !.mgr = w.mgr,
                                  !.ack = w.ack, !.declined = FALSE, !.counter = w.counter]
<1>1. /\ appt' = [appt EXCEPT ![a] = row] /\ appt[a] \in ApptRow
      /\ agreed' = [agreed EXCEPT ![a][Proposer(req[r].op)] = w.slot]
      /\ orders' = Replan(CaseOf[a], w.slot)
      /\ req[r].op \in {"proposeManager", "proposeDriver", "validate"}
  BY DEF WriteProposal, CanWrite, TypeOK
<1>2. /\ row.slot = w.slot /\ row.supplier = appt[a].supplier
      /\ ~row.declined /\ row.counter = w.counter /\ row.status = w.status
      /\ row.mgr = w.mgr /\ row.ack = w.ack
  <2> HIDE DEF w
  <2> QED
    BY <1>1 DEF ApptRow
<1>3. appt'[a] = row
  BY <1>1 DEF TypeOK
<1>4. agreed'[a] = [agreed[a] EXCEPT ![Proposer(req[r].op)] = w.slot]
  BY <1>1 DEF TypeOK
<1> HIDE DEF row
<1> QED
  BY <1>1, <1>2, <1>3, <1>4

LEMMA CancelEffect ==
  ASSUME TypeOK, NEW r \in Requests, NEW a \in Appts, a = req[r].a, WriteRequestCancel(r)
  PROVE  /\ appt'[a].slot = appt[a].slot /\ appt'[a].supplier = appt[a].supplier
         /\ appt'[a].declined = appt[a].declined /\ appt'[a].counter = appt[a].counter
         /\ appt'[a].status = appt[a].status
         /\ appt'[a].mgr = appt[a].mgr /\ appt'[a].ack = appt[a].ack
         /\ agreed' = agreed /\ req[r].op = "requestCancel" /\ orders' = orders
<1> DEFINE row == [appt[a] EXCEPT !.cancelReq = TRUE]
<1>1. /\ appt' = [appt EXCEPT ![a] = row] /\ appt[a] \in ApptRow
      /\ agreed' = agreed /\ req[r].op = "requestCancel" /\ orders' = orders
  BY DEF WriteRequestCancel, CanWrite, TypeOK
<1>2. /\ row.slot = appt[a].slot /\ row.supplier = appt[a].supplier
      /\ row.declined = appt[a].declined /\ row.counter = appt[a].counter
      /\ row.status = appt[a].status /\ row.mgr = appt[a].mgr /\ row.ack = appt[a].ack
  BY <1>1 DEF ApptRow
<1> HIDE DEF row
<1> QED
  BY <1>1, <1>2 DEF TypeOK

LEMMA CreateEffect ==
  ASSUME TypeOK, NEW r \in Requests, NEW a \in Appts, a = req[r].a, WriteCreate(r)
  PROVE  /\ req[r].op = "create" /\ appt'[a] = req[r].row
         /\ agreed'[a] = [NoAgreement EXCEPT ![Creator(req[r].row)] = req[r].row.slot]
         /\ \A b \in Appts \ {a} : appt'[b] = appt[b] /\ agreed'[b] = agreed[b]
BY DEF WriteCreate, CanWrite, TypeOK

\* A row as a calendar create has decided it, at slot s.
Placed(r, b, s) ==
    /\ appt'[b].slot = s
    /\ appt'[b].status = req[r].row.status /\ appt'[b].counter = req[r].row.counter
    /\ appt'[b].mgr = req[r].row.mgr /\ appt'[b].ack = req[r].row.ack
    /\ appt'[b].declined = req[r].row.declined
    /\ agreed'[b] = [NoAgreement EXCEPT ![Creator(req[r].row)] = s]

\* The calendar create of a partner for somebody else's case writes nothing.
LEMMA CalendarEffect ==
  ASSUME TypeOK, NEW r \in Requests, NEW a \in Appts, a = req[r].a, WriteCalendarCreate(r)
  PROVE  /\ req[r].op \in {"createPartner", "createCalendar"}
         /\ \/ appt' = appt /\ agreed' = agreed /\ orders' = orders
            \/ /\ Placed(r, a, req[r].row.slot)
               /\ \A b \in Appts \ {a} : b = req[r].second => Placed(r, b, req[r].slot2)
<1> DEFINE was == case[CaseOf[req[r].a]].supplier
           full == [req[r].row EXCEPT !.supplier = @ \/ was]
           rows == IF req[r].second = NoAppt THEN {req[r].a} ELSE {req[r].a, req[r].second}
           slotOf(b) == IF b = req[r].a THEN full.slot ELSE req[r].slot2
<1>1. req[r].op \in {"createPartner", "createCalendar"} /\ req[r].pc # "idle"
  BY DEF WriteCalendarCreate, CanWrite
<1>2. CASE appt' = appt /\ agreed' = agreed /\ orders' = orders
  BY <1>1, <1>2
<1>3. CASE /\ appt' = [b \in Appts |-> IF b \in rows THEN [full EXCEPT !.slot = slotOf(b)]
                                                     ELSE appt[b]]
           /\ agreed' = [b \in Appts |->
                           IF b \in rows THEN [NoAgreement EXCEPT ![Creator(full)] = slotOf(b)]
                                         ELSE agreed[b]]
  <2>1. /\ full \in ApptRow /\ full.slot = req[r].row.slot
        /\ full.status = req[r].row.status /\ full.counter = req[r].row.counter
        /\ full.mgr = req[r].row.mgr /\ full.ack = req[r].row.ack
        /\ full.declined = req[r].row.declined
    <3> DEFINE supplier == req[r].row.supplier \/ was
    <3>1. supplier \in BOOLEAN /\ req[r].row \in ApptRow
      BY DEF TypeOK, Request, ApptRow
    <3>2. full = [req[r].row EXCEPT !.supplier = supplier]
      OBVIOUS
    <3> HIDE DEF supplier, full
    <3> QED
      BY <3>1, <3>2 DEF ApptRow
  <2>2. Creator(full) = Creator(req[r].row)
    BY <2>1 DEF Creator
  <2>3. slotOf(a) = req[r].row.slot /\ \A b \in Appts \ {a} : slotOf(b) = req[r].slot2
    BY <2>1
  <2>4. a \in rows /\ \A b \in Appts : b = req[r].second => b \in rows
    BY ConstantsAssumption
  <2> HIDE DEF full, slotOf, rows
  <2>5. ASSUME NEW b \in Appts, b \in rows
        PROVE  Placed(r, b, slotOf(b))
    <3>1. /\ appt'[b] = [full EXCEPT !.slot = slotOf(b)]
          /\ agreed'[b] = [NoAgreement EXCEPT ![Creator(full)] = slotOf(b)]
      BY <1>3, <2>5
    <3> QED
      BY <2>1, <2>2, <3>1 DEF Placed, ApptRow
  <2> QED
    BY <1>1, <2>3, <2>4, <2>5
<1> QED
  BY <1>2, <1>3 DEF WriteCalendarCreate

\* The record of who named what follows the rows.
LEMMA OtherAgreements ==
  ASSUME TypeOK, NEW r \in Requests, Write(r),
         NEW b \in Appts, b \notin {req[r].a, req[r].second}
  PROVE  agreed'[b] = agreed[b]
<1>1. CASE agreed' = agreed
  BY <1>1
<1>2. CASE Sign(r)
  BY <1>2 DEF Sign, TypeOK
<1>3. CASE WriteCreate(r)
  BY <1>3 DEF WriteCreate, TypeOK
<1>4. CASE WriteCalendarCreate(r)
  BY <1>4 DEF WriteCalendarCreate
<1>5. CASE WriteProposal(r)
  BY <1>5 DEF WriteProposal, TypeOK
<1>6. CASE WriteSignature(r) \/ ReuseOrder(r) \/ InsertOrder(r) \/ WritePeerSignature(r)
  BY <1>2, <1>6 DEF WriteSignature, ReuseOrder, InsertOrder, OpenGate, WritePeerSignature
<1>7. CASE \/ MissOrder(r) \/ TakeNumber(r) \/ NumberTaken(r) \/ WriteDecline(r)
           \/ WriteRequestCancel(r) \/ WritePatch(r)
  BY <1>1, <1>7 DEF MissOrder, Miss, TakeNumber, NumberTaken, WriteDecline,
     WriteRequestCancel, WritePatch
<1> QED
  BY <1>3, <1>4, <1>5, <1>6, <1>7 DEF Write

-----------------------------------------------------------------------------
(***************************************************************************)
(* Requests about different appointments.  As long as no two in flight are *)
(* about the same one, nothing else writes a row between the two steps of  *)
(* a request about it: what the request decided when it read still holds   *)
(* when it writes.                                                         *)
(***************************************************************************)
Apart == \A r, q \in Requests :
    InFlight(r) /\ InFlight(q) /\ req[r].a = req[q].a => r = q

Signs == {"confirm", "confirmPeer", "acknowledge", "acknowledgePeer"}
Proposals == {"proposeManager", "proposeDriver", "validate"}

\* A signature: the slot is the one of the row, and the row may be signed.
SignHeld(op, a, row) ==
    /\ row.slot = appt[a].slot /\ ~appt[a].declined
    /\ appt[a].status \notin {"needs_repropose", "pending_supplier"}
    /\ op = "confirm" => appt[a].status \notin {"cancelled", "pending_fleet_peer"}
    /\ op = "acknowledge" => appt[a].status # "pending_fleet_peer"
    /\ op \in {"confirmPeer", "acknowledgePeer"} => appt[a].status = "pending_fleet_peer"

\* A proposal: the supplier has to be asked unless it is the
\* supplier's own answer; the stamp that stays is of who proposes, or of who had named
\* the slot the supplier accepts.
ProposalHeld(op, a, row) ==
    /\ row.slot # NoSlot
    /\ row.status \in {"scheduled", "confirmed", "pending_supplier", "pending_fleet_peer"}
    /\ appt[a].supplier /\ op # "validate" =>
         row.status \in {"pending_supplier", "pending_fleet_peer"}
    /\ row.counter \in {"none", Proposer(op)}
    /\ row.mgr => \/ op = "proposeManager"
                  \/ op = "validate" /\ appt[a].counter = "manager" /\ row.slot = appt[a].slot
    /\ row.ack => \/ op = "proposeDriver"
                  \/ op = "validate" /\ appt[a].counter = "driver" /\ row.slot = appt[a].slot

\* A request on an existing row.
Held(op, a, row) ==
    /\ Exists(a)
    /\ op \in Signs => SignHeld(op, a, row)
    /\ op \in Proposals => ProposalHeld(op, a, row)
    /\ op = "decline" => appt[a].status \in {"confirmed", "scheduled"}
    /\ op = "patchStatus" => row.status \in FleetStatuses
    /\ op = "patchSlot" => ~BlocksSilentEdit(appt[a], row.slot)

\* A create.
HeldNew(op, a, row, second) ==
    /\ ~row.mgr /\ ~row.ack /\ ~row.declined
    /\ row.status \in FleetStatuses \cup {"scheduled", "pending_supplier"}
    /\ second # NoAppt => CaseOf[second] = CaseOf[a]
    /\ op # "create" => "calendarCreate" \in Endpoints
    /\ op # "create" => row.status \in {"scheduled", "pending_supplier"}
    /\ op = "create" /\ row.supplier
         /\ row.status = "scheduled" /\ row.status \notin FleetStatuses =>
         row.counter = "supplier" /\ row.slot # NoSlot

HeldReq(q) == IF q.op \in Creates THEN HeldNew(q.op, q.a, q.row, q.second)
                                  ELSE Held(q.op, q.a, q.row)

ReadInv == \A r \in Requests : req[r].pc # "idle" => HeldReq(req[r])

\* A request that will set a row at slot s of a supplier.
Takes(q, s) ==
    \/ q.op \in Proposals \cup {"patchSlot"} /\ appt[q.a].supplier /\ q.row.slot = s
    \/ q.op = "patchSupplier" /\ q.row.supplier /\ appt[q.a].slot = s
    \/ q.op = "create" /\ q.row.supplier /\ q.row.slot = s

\* It has counted the load there; of the two PATCH endpoints the calendar alone does.
Room(q) == \A s \in Slots :
    Takes(q, s) /\ (q.op \in PatchOps => "update" \notin Endpoints) => HasCapacity(s, q.a)

Decided(q) == HeldReq(q) /\ Room(q)

LEMMA BeginHeld ==
  ASSUME NEW r, NEW op, NEW a \in Appts, NEW row, Begin(r, op, a, row),
         op \notin Creates, Held(op, a, row),
         op \in Proposals => (appt[a].supplier => HasCapacity(row.slot, a)),
         op = "patchSlot" /\ "update" \notin Endpoints =>
           (appt[a].supplier => HasCapacity(row.slot, a)),
         op = "patchSupplier" /\ "update" \notin Endpoints =>
           (row.supplier /\ appt[a].slot \in Slots => HasCapacity(appt[a].slot, a))
  PROVE  \E new : Begun(r, new) /\ Decided(new)
<1> DEFINE new == [Idle EXCEPT !.pc = "write", !.op = op, !.a = a, !.row = row]
<1>1. Begun(r, new) /\ new.op = op /\ new.a = a /\ new.row = row
  BY DEF Begin, Begun, Idle
<1> HIDE DEF new
<1> QED
  BY <1>1 DEF Decided, HeldReq, Room, Takes, Creates, Proposals, PatchOps

LEMMA SeenSlot == \A a : Seen(a).slot = appt[a].slot
BY DEF Seen, Blank

LEMMA SignRead ==
  ASSUME NEW r, NEW a \in Appts, ReadConfirm(r, a) \/ ReadAcknowledge(r, a)
  PROVE  \E new : Begun(r, new) /\ Decided(new)
<1>1. CASE ReadConfirm(r, a)
  <2>1. CASE appt[a].status = "pending_fleet_peer"
    <3>1. Begin(r, "confirmPeer", a, Seen(a))
      BY <1>1, <2>1 DEF ReadConfirm
    <3>2. Held("confirmPeer", a, Seen(a))
      BY <1>1, <2>1, SeenSlot DEF ReadConfirm, Held, SignHeld, Signs, Proposals, PatchOps, Exists
    <3> QED
      BY <3>1, <3>2, BeginHeld DEF Creates, Proposals
  <2>2. CASE appt[a].status # "pending_fleet_peer"
    <3>1. Begin(r, "confirm", a, Seen(a))
      BY <1>1, <2>2 DEF ReadConfirm
    <3>2. Held("confirm", a, Seen(a))
      BY <1>1, <2>2, SeenSlot DEF ReadConfirm, Held, SignHeld, Signs, Proposals, PatchOps, Exists
    <3> QED
      BY <3>1, <3>2, BeginHeld DEF Creates, Proposals
  <2> QED
    BY <2>1, <2>2
<1>2. CASE ReadAcknowledge(r, a)
  <2> DEFINE waiting == /\ appt[a].status = "pending_fleet_peer"
                        /\ FleetFirst /\ appt[a].counter = "manager"
  <2>1. CASE waiting
    <3>1. Begin(r, "acknowledgePeer", a, Seen(a))
      BY <1>2, <2>1 DEF ReadAcknowledge
    <3>2. Held("acknowledgePeer", a, Seen(a))
      BY <1>2, <2>1, SeenSlot DEF ReadAcknowledge, Held, SignHeld, Signs, Proposals, PatchOps,
         Exists
    <3> QED
      BY <3>1, <3>2, BeginHeld DEF Creates, Proposals
  <2>2. CASE ~waiting
    <3>1. Begin(r, "acknowledge", a, Seen(a))
      BY <1>2, <2>2 DEF ReadAcknowledge
    <3>2. Held("acknowledge", a, Seen(a))
      BY <1>2, <2>2, SeenSlot DEF ReadAcknowledge, Held, SignHeld, Signs, Proposals, PatchOps,
         Exists
    <3> QED
      BY <3>1, <3>2, BeginHeld DEF Creates, Proposals
  <2> QED
    BY <2>1, <2>2
<1> QED
  BY <1>1, <1>2

\* Where a proposal goes: to somebody who has to answer, or straight into the agenda.
LEMMA NextStatusAsks ==
  ASSUME NEW row, NEW by
  PROVE  /\ NextStatus(row, by) \in {"scheduled", "pending_supplier", "pending_fleet_peer"}
         /\ row.supplier =>
              NextStatus(row, by) \in {"pending_supplier", "pending_fleet_peer"}
BY DEF NextStatus

LEMMA ReproposeRead ==
  ASSUME NEW r, NEW a \in Appts, NEW s \in Slots, NEW by \in {"manager", "driver"},
         ReadRepropose(r, a, s, by)
  PROVE  \E new : Begun(r, new) /\ Decided(new)
<1> DEFINE row == appt[a]
           next == NextStatus(row, by)
           preAck == policy.negotiate /\ next = "scheduled"
           op == IF by = "manager" THEN "proposeManager" ELSE "proposeDriver"
           st == IF preAck /\ by = "manager" THEN "confirmed" ELSE next
           mgr == preAck /\ by = "manager"
           ack == preAck /\ by = "driver"
           counter == IF next = "scheduled" THEN "none" ELSE by
           w == [Blank EXCEPT !.slot = s, !.status = st, !.mgr = mgr, !.ack = ack,
                              !.counter = counter]
<1>1. /\ Exists(a)
      /\ row.supplier => HasCapacity(s, a)
      /\ Begin(r, op, a, w)
  BY DEF ReadRepropose
<1>2. /\ st \in {"scheduled", "confirmed", "pending_supplier", "pending_fleet_peer"}
      /\ row.supplier => st \in {"pending_supplier", "pending_fleet_peer"}
  BY NextStatusAsks
<1>3. op \in {"proposeManager", "proposeDriver"} /\ counter \in {"none", Proposer(op)}
  BY DEF Proposer
<1>4. (mgr => op = "proposeManager") /\ (ack => op = "proposeDriver")
  OBVIOUS
<1>5. mgr \in BOOLEAN /\ ack \in BOOLEAN
  OBVIOUS
<1>6. /\ w.slot = s /\ w.status = st /\ w.mgr = mgr /\ w.ack = ack /\ w.counter = counter
  <2> HIDE DEF mgr, ack, st, counter
  <2> QED
    BY <1>5 DEF Blank
<1> HIDE DEF w, mgr, ack, st, counter, op
<1>7. (w.mgr => op = "proposeManager") /\ (w.ack => op = "proposeDriver")
  BY <1>4, <1>6, Zenon
<1>8. ProposalHeld(op, a, w)
  <2>1. appt[a].supplier => w.status \in {"pending_supplier", "pending_fleet_peer"}
    BY <1>2, <1>6
  <2>2. /\ w.status \in {"scheduled", "confirmed", "pending_supplier", "pending_fleet_peer"}
        /\ w.counter \in {"none", Proposer(op)} /\ w.slot # NoSlot
    BY <1>2, <1>3, <1>6, ConstantsAssumption DEF ConstantsAssumption
  <2> QED
    BY <1>7, <2>1, <2>2, Zenon DEF ProposalHeld
<1>9. Held(op, a, w) /\ (appt[a].supplier => HasCapacity(w.slot, a))
  BY <1>1, <1>3, <1>6, <1>8 DEF Held, Signs, Proposals, PatchOps
<1> QED
  BY <1>1, <1>3, <1>9, BeginHeld DEF Creates, Proposals

LEMMA ValidateRead ==
  ASSUME NEW r, NEW a \in Appts, NEW s \in OptSlot, ReadValidate(r, a, s)
  PROVE  \E new : Begun(r, new) /\ Decided(new)
<1> DEFINE row == appt[a]
           slot == IF s = NoSlot THEN row.slot ELSE s
           preAck == IF policy.negotiate /\ s = NoSlot THEN row.counter ELSE "none"
           st == IF preAck = "manager" THEN "confirmed" ELSE "scheduled"
           mgr == (preAck = "manager")
           ack == (preAck = "driver")
           counter == IF s = NoSlot THEN "none" ELSE "supplier"
           w == [Blank EXCEPT !.slot = slot, !.status = st, !.mgr = mgr, !.ack = ack,
                              !.counter = counter]
<1>1. /\ Exists(a) /\ slot # NoSlot
      /\ row.supplier => HasCapacity(slot, a)
      /\ Begin(r, "validate", a, w)
  BY DEF ReadValidate, Exists
<1>2. st \in {"scheduled", "confirmed"}
  OBVIOUS
<1>3. counter \in {"none", Proposer("validate")}
  BY DEF Proposer
<1>4. /\ mgr => appt[a].counter = "manager" /\ slot = appt[a].slot
      /\ ack => appt[a].counter = "driver" /\ slot = appt[a].slot
  OBVIOUS
<1>5. mgr \in BOOLEAN /\ ack \in BOOLEAN
  OBVIOUS
<1>6. /\ w.slot = slot /\ w.status = st /\ w.mgr = mgr /\ w.ack = ack /\ w.counter = counter
  <2> HIDE DEF mgr, ack, st, counter, slot
  <2> QED
    BY <1>5 DEF Blank
<1> HIDE DEF w, mgr, ack, st, counter, slot
<1>7. /\ w.mgr => appt[a].counter = "manager" /\ w.slot = appt[a].slot
      /\ w.ack => appt[a].counter = "driver" /\ w.slot = appt[a].slot
  BY <1>4, <1>6, Zenon
<1>8. ProposalHeld("validate", a, w)
  <2>1. /\ w.status \in {"scheduled", "confirmed", "pending_supplier", "pending_fleet_peer"}
        /\ w.counter \in {"none", Proposer("validate")} /\ w.slot # NoSlot
    BY <1>1, <1>2, <1>3, <1>6
  <2> QED
    BY <1>7, <2>1, Zenon DEF ProposalHeld
<1>9. Held("validate", a, w) /\ (appt[a].supplier => HasCapacity(w.slot, a))
  BY <1>1, <1>6, <1>8 DEF Held, Signs, Proposals, PatchOps
<1> QED
  BY <1>1, <1>9, BeginHeld DEF Creates, Proposals

LEMMA RowRead ==
  ASSUME NEW r \in Requests, ReadRow(r)
  PROVE  \E new : Begun(r, new) /\ Decided(new)
<1>1. ASSUME NEW a \in Appts, ReadDecline(r, a)
      PROVE  \E new : Begun(r, new) /\ Decided(new)
  <2>1. Begin(r, "decline", a, Blank) /\ Held("decline", a, Blank)
    BY <1>1 DEF ReadDecline, Held, Exists, Signs, Proposals, PatchOps
  <2> QED
    BY <2>1, BeginHeld DEF Creates, Proposals
<1>2. ASSUME NEW a \in Appts, ReadRequestCancel(r, a)
      PROVE  \E new : Begun(r, new) /\ Decided(new)
  <2>1. Begin(r, "requestCancel", a, Blank) /\ Held("requestCancel", a, Blank)
    BY <1>2 DEF ReadRequestCancel, Held, Exists, Signs, Proposals, PatchOps
  <2> QED
    BY <2>1, BeginHeld DEF Creates, Proposals
<1>3. ASSUME NEW a \in Appts, NEW st \in FleetStatuses, ReadPatchStatus(r, a, st)
      PROVE  \E new : Begun(r, new) /\ Decided(new)
  <2> DEFINE row == [Blank EXCEPT !.status = st]
  <2>1. row.status = st
    BY DEF Blank
  <2>2. Begin(r, "patchStatus", a, row) /\ Exists(a)
    BY <1>3 DEF ReadPatchStatus
  <2> HIDE DEF row
  <2>3. Held("patchStatus", a, row)
    BY <2>1, <2>2 DEF Held, Signs, Proposals, PatchOps
  <2> QED
    BY <2>2, <2>3, BeginHeld DEF Creates, Proposals
<1>4. ASSUME NEW a \in Appts, NEW x \in Slots, NEW endpoint \in Patches,
             ReadPatchSlot(r, a, x, endpoint)
      PROVE  \E new : Begun(r, new) /\ Decided(new)
  <2> DEFINE row == [Blank EXCEPT !.slot = x]
  <2>1. row.slot = x
    BY DEF Blank
  <2>2. /\ Begin(r, "patchSlot", a, row) /\ Exists(a) /\ ~BlocksSilentEdit(appt[a], x)
        /\ "update" \in Endpoints \/ (appt[a].supplier => HasCapacity(x, a))
    BY <1>4 DEF ReadPatchSlot, Patches
  <2> HIDE DEF row
  <2>3. Held("patchSlot", a, row)
    BY <2>1, <2>2 DEF Held, Signs, Proposals
  <2> QED
    BY <2>1, <2>2, <2>3, BeginHeld DEF Creates, Proposals
<1>6. ASSUME NEW a \in Appts, NEW x \in BOOLEAN, NEW endpoint \in Patches,
             ReadPatchSupplier(r, a, x, endpoint)
      PROVE  \E new : Begun(r, new) /\ Decided(new)
  <2> DEFINE row == [Blank EXCEPT !.supplier = x]
  <2>1. row.supplier = x
    BY DEF Blank
  <2>2. /\ Begin(r, "patchSupplier", a, row) /\ Exists(a)
        /\ "update" \in Endpoints
           \/ (x /\ appt[a].slot # NoSlot => HasCapacity(appt[a].slot, a))
    BY <1>6 DEF ReadPatchSupplier, Patches
  <2> HIDE DEF row
  <2>3. Held("patchSupplier", a, row)
    BY <2>1, <2>2 DEF Held, Signs, Proposals
  <2> QED
    BY <2>1, <2>2, <2>3, BeginHeld, ConstantsAssumption
       DEF Creates, Proposals, ConstantsAssumption
<1>5. ASSUME NEW a \in Appts, NEW x, ReadPatchOverride(r, a, x)
      PROVE  \E new : Begun(r, new) /\ Decided(new)
  <2>1. PICK row : Begin(r, "patchOverride", a, row) /\ Exists(a)
    BY <1>5 DEF ReadPatchOverride
  <2>2. Held("patchOverride", a, row)
    BY <2>1 DEF Held, Signs, Proposals, PatchOps
  <2> QED
    BY <2>1, <2>2, BeginHeld DEF Creates, Proposals
<1> QED
  BY <1>1, <1>2, <1>3, <1>4, <1>5, <1>6, SignRead, ReproposeRead, ValidateRead DEF ReadRow

\* What a create decides: the supplier has been asked, unless the date is the supplier's.
LEMMA NewRowHeld ==
  ASSUME NEW s, NEW supplier \in BOOLEAN, NEW status, NEW bySupplier \in BOOLEAN, NEW override,
         NEW row, row = NewRow(s, supplier, status, bySupplier, override)
  PROVE  /\ row.slot = s /\ row.supplier = supplier /\ row.status = status
         /\ ~row.mgr /\ ~row.ack /\ ~row.declined
         /\ row.counter = InitialCounter(status, bySupplier)
<1> DEFINE counter == InitialCounter(status, bySupplier)
<1>1. row = [Blank EXCEPT !.status = status, !.slot = s, !.supplier = supplier,
                          !.counter = counter, !.override = override]
  BY DEF NewRow
<1> HIDE DEF counter
<1>2. /\ row.slot = s /\ row.supplier = supplier /\ row.status = status
      /\ ~row.mgr /\ ~row.ack /\ ~row.declined /\ row.counter = counter
  BY <1>1 DEF Blank
<1> QED
  BY <1>2 DEF counter

LEMMA CreateHeld ==
  ASSUME NEW r, NEW op \in Creates, NEW a \in Appts, NEW row, NEW second, NEW slot2,
         Create(r, op, a, row, second, slot2), HeldNew(op, a, row, second),
         op = "create" /\ row.supplier /\ row.slot # NoSlot => HasCapacity(row.slot, a)
  PROVE  \E new : Begun(r, new) /\ Decided(new)
<1> DEFINE new == [Idle EXCEPT !.pc = "write", !.op = op, !.a = a, !.second = second,
                               !.slot2 = slot2, !.row = row, !.read = case[CaseOf[a]]]
<1>1. Begun(r, new) /\ new.op = op /\ new.a = a /\ new.row = row /\ new.second = second
  BY DEF Create, Begun, Idle
<1> HIDE DEF new
<1> QED
  BY <1>1, ConstantsAssumption DEF Decided, HeldReq, Room, Takes, Creates, Proposals,
     ConstantsAssumption

LEMMA NewRead ==
  ASSUME NEW r \in Requests, ReadNew(r)
  PROVE  \E new : Begun(r, new) /\ Decided(new)
<1>1. ASSUME NEW a \in Appts, NEW s \in OptSlot, NEW supplier \in BOOLEAN,
             NEW bySupplier \in BOOLEAN, NEW override \in Overrides,
             NEW st \in FleetStatuses \cup {"absent"},
             ReadCreate(r, a, s, supplier, bySupplier, st, override)
      PROVE  \E new : Begun(r, new) /\ Decided(new)
  <2> DEFINE status == IF st = "absent" THEN InitialStatus(supplier, bySupplier) ELSE st
  <2>0. PICK row : row = NewRow(s, supplier, status, bySupplier, override)
    OBVIOUS
  <2>1. /\ Create(r, "create", a, row, NoAppt, NoSlot)
        /\ supplier /\ s # NoSlot => HasCapacity(s, a)
        /\ s # NoSlot \/ (supplier /\ ~bySupplier)
    BY <1>1, <2>0 DEF ReadCreate
  <2>2. /\ row.slot = s /\ row.supplier = supplier /\ row.status = status
        /\ ~row.mgr /\ ~row.ack /\ ~row.declined
        /\ row.counter = InitialCounter(status, bySupplier)
    <3> HIDE DEF status
    <3> QED
      BY <2>0, NewRowHeld
  <2>3. /\ status \in FleetStatuses \cup {"scheduled", "pending_supplier"}
        /\ supplier /\ status = "scheduled" /\ status \notin FleetStatuses
             => bySupplier /\ InitialCounter(status, bySupplier) = "supplier"
    BY DEF InitialStatus, InitialCounter
  <2> HIDE DEF status
  <2>4. HeldNew("create", a, row, NoAppt)
    BY <2>1, <2>2, <2>3 DEF HeldNew
  <2> QED
    BY <2>1, <2>2, <2>4, CreateHeld DEF Creates
<1>2. ASSUME NEW a \in Appts, NEW s \in Slots, NEW supplier \in BOOLEAN,
             NEW partner \in BOOLEAN, NEW bySupplier \in BOOLEAN, NEW override \in Overrides,
             NEW second \in Appts \cup {NoAppt}, NEW slot2 \in OptSlot,
             ReadCalendarCreate(r, a, s, supplier, partner, bySupplier, override,
                                second, slot2)
      PROVE  \E new : Begun(r, new) /\ Decided(new)
  <2> DEFINE status == InitialStatus(supplier, bySupplier)
             op == IF partner THEN "createPartner" ELSE "createCalendar"
  <2>0. PICK row : row = NewRow(s, supplier, status, bySupplier, override)
    OBVIOUS
  <2>1. Create(r, op, a, row, second, slot2) /\ "calendarCreate" \in Endpoints
    BY <1>2, <2>0 DEF ReadCalendarCreate
  <2>2. ~row.mgr /\ ~row.ack /\ ~row.declined /\ row.status = status
    <3> HIDE DEF status
    <3> QED
      BY <2>0, NewRowHeld
  <2>3. status \in {"scheduled", "pending_supplier"}
    BY DEF InitialStatus
  <2>4. second # NoAppt => CaseOf[second] = CaseOf[a]
    BY <2>1 DEF Create
  <2>5. op \in Creates /\ op # "create"
    BY DEF Creates
  <2> HIDE DEF status, op
  <2>6. HeldNew(op, a, row, second)
    BY <2>1, <2>2, <2>3, <2>4, <2>5 DEF HeldNew
  <2> QED
    BY <2>1, <2>5, <2>6, CreateHeld
<1> QED
  BY <1>1, <1>2 DEF ReadNew

\* While a request writes, the rows of the others in flight stay.
LEMMA OthersStay ==
  ASSUME Apart, TypeOK, IdInv, NEW r \in Requests, Write(r),
         NEW q \in Requests \ {r}, InFlight(q)
  PROVE  req'[q] = req[q] /\ appt'[req[q].a] = appt[req[q].a] /\ policy' = policy
<1>1. InFlight(r) /\ req'[q] = req[q] /\ policy' = policy /\ req[q].a \in Appts
  BY WriteEnds DEF InFlight, TypeOK
<1>2. req[q].a # req[r].a
  BY <1>1 DEF Apart
<1>3. req[q].a # req[r].second
  BY <1>1, ConstantsAssumption DEF IdInv, InFlight, ConstantsAssumption
<1> QED
  BY <1>1, <1>2, <1>3, OtherRows

LEMMA ReadStep == Apart /\ TypeOK /\ IdInv /\ ReadInv /\ [Next]_vars => ReadInv'
<1> SUFFICES ASSUME Apart, TypeOK, IdInv, ReadInv, [Next]_vars
             PROVE  ReadInv'
  OBVIOUS
<1>1. ASSUME policy' = policy, NEW q, appt'[q.a] = appt[q.a], HeldReq(q)
      PROVE  HeldReq(q)'
  BY <1>1 DEF HeldReq, HeldNew, Held, SignHeld, ProposalHeld, Exists, BlocksSilentEdit
<1>2. CASE UNCHANGED vars
  BY <1>1, <1>2 DEF vars, ReadInv, InFlight
<1>3. ASSUME NEW r \in Requests, ReadNew(r) \/ ReadRow(r)
      PROVE  ReadInv'
  <2>1. PICK new : Begun(r, new) /\ HeldReq(new)
    BY <1>3, RowRead, NewRead DEF Decided
  <2>2. /\ req'[r] = new /\ UNCHANGED <<policy, appt>>
        /\ \A q \in Requests \ {r} : req'[q] = req[q]
    BY <2>1 DEF Begun, TypeOK
  <2>3. HeldReq(new)'
    BY <1>1, <2>1, <2>2
  <2>4. \A q \in Requests \ {r} : InFlight(q) => HeldReq(req[q])'
    BY <1>1, <2>2 DEF ReadInv, InFlight
  <2> QED
    BY <2>2, <2>3, <2>4 DEF ReadInv, InFlight
<1>4. ASSUME NEW r \in Requests, Write(r)
      PROVE  ReadInv'
  <2>1. ASSUME NEW q \in Requests \ {r}, InFlight(q)
        PROVE  HeldReq(req[q])'
    BY <1>1, <1>4, <2>1, OthersStay DEF ReadInv, InFlight
  <2>2. ASSUME InFlight(r)', Continued(r)
        PROVE  HeldReq(req[r])'
    BY <2>2 DEF Continued, ReadInv, InFlight, HeldReq, HeldNew, Held, SignHeld,
       ProposalHeld, Exists, BlocksSilentEdit
  <2>3. \A q \in Requests \ {r} : req'[q] = req[q]
    BY <1>4, WriteEnds
  <2> QED
    BY <1>4, <2>1, <2>2, <2>3, WriteEnds DEF ReadInv, InFlight
<1> QED
  BY <1>2, <1>3, <1>4 DEF Next

-----------------------------------------------------------------------------
(***************************************************************************)
(* The negotiation.  What a row says goes with who named its slot: RowFits *)
(* is the common invariant of the theorems, each conjunct guarded by what  *)
(* its theorem assumes of the instance and of F, the PATCHes that change   *)
(* something.                                                              *)
(***************************************************************************)
\* The fleet's creates write no status that only an answer or a visit leads to.
AsksFirst ==
    /\ "calendarCreate" \notin Endpoints
    /\ FleetStatuses \subseteq {"pending_supplier", "needs_repropose", "cancelled"}

Known(row) == row.status \in FleetStatuses \cup
    {"absent", "scheduled", "confirmed", "pending_supplier", "pending_fleet_peer",
     "needs_repropose"}

\* The PATCHes in flight change no field but those F is about (what a row asks of the
\* driver aside, which RowFits does not look at).
PatchedOnly(F) == \A r \in Requests : InFlight(r) /\ req[r].op \in PatchOps \ F =>
    LET q == req[r]
        row == appt[q.a] IN
    /\ q.op = "patchStatus" => q.row.status = row.status
    /\ q.op = "patchSlot" => q.row.slot = row.slot
    /\ q.op = "patchSupplier" => q.row.supplier = row.supplier

Stamped(row, named, F) == "patchSlot" \notin F =>
    /\ row.mgr => named["manager"] = row.slot
    /\ row.ack => named["driver"] = row.slot
    /\ row.counter # "none" => named[row.counter] = row.slot

Parked(row, F) == "needs_repropose" \notin FleetStatuses /\ "patchStatus" \notin F =>
    /\ row.declined <=> row.status = "needs_repropose"
    /\ row.declined => ~row.mgr /\ ~row.ack

Accepted(row, named, F) == AsksFirst /\ "patchSupplier" \notin F =>
    (row.supplier /\ row.status \in {"scheduled", "confirmed"} =>
         row.slot # NoSlot /\ named["supplier"] = row.slot)

RowFits(row, named, F) ==
    Known(row) /\ Stamped(row, named, F) /\ Parked(row, F) /\ Accepted(row, named, F)

RowsInv(F) == \A a \in Appts : RowFits(appt[a], agreed[a], F)

\* The invariants a write step is judged by.
Sequential == TypeOK /\ IdInv /\ LockInv /\ ReadInv

LEMMA WrittenRow ==
  ASSUME TypeOK, NEW r \in Requests, Write(r)
  PROVE  /\ req[r].a \in Appts /\ req[r].pc # "idle"
         /\ appt'[req[r].a] \in ApptRow /\ appt[req[r].a] \in ApptRow
         /\ agreed[req[r].a] \in Agreement
<1>1. TypeOK' /\ req[r].pc # "idle"
  BY WriteEnds, NextTyped, ConstantsAssumption DEF Next
<1> QED
  BY <1>1 DEF TypeOK

LEMMA NamedByCreator ==
  ASSUME NEW row \in ApptRow, NEW s
  PROVE  row.counter # "none" =>
           [NoAgreement EXCEPT ![Creator(row)] = s][row.counter] = s
BY DEF Creator, NoAgreement, Parties, ApptRow, Counters

LEMMA SignFits ==
  ASSUME NEW CONSTANT F, Sequential, RowsInv(F), NEW r \in Requests, NEW a \in Appts, a = req[r].a, Write(r),
         WriteSignature(r) \/ ReuseOrder(r) \/ InsertOrder(r)
  PROVE  RowFits(appt'[a], agreed'[a], F)
<1>1. /\ req[r].op \in {"confirm", "acknowledge"} /\ req[r].pc # "idle"
      /\ appt'[a] \in ApptRow /\ appt[a] \in ApptRow /\ agreed[a] \in Agreement
  BY WrittenRow, SignEffect DEF Sequential
<1>2. SignHeld(req[r].op, a, req[r].row) /\ Exists(a)
  BY <1>1 DEF Sequential, ReadInv, HeldReq, Held, Creates, Signs
<1>3. RowFits(appt[a], agreed[a], F)
  BY DEF RowsInv
<1>4. /\ appt'[a].slot = appt[a].slot /\ appt'[a].supplier = appt[a].supplier
      /\ appt'[a].declined = appt[a].declined /\ ~appt[a].declined
  BY <1>2, SignEffect DEF Sequential, SignHeld
<1>5. CASE req[r].op = "confirm"
  <2>1. /\ appt'[a].status = "confirmed" /\ appt'[a].counter = "none"
        /\ appt'[a].mgr /\ appt'[a].ack = appt[a].ack
        /\ agreed'[a] = [agreed[a] EXCEPT !["manager"] = req[r].row.slot]
    BY <1>5, SignEffect DEF Sequential
  <2>2. /\ agreed'[a]["manager"] = appt[a].slot
        /\ agreed'[a]["driver"] = agreed[a]["driver"]
        /\ agreed'[a]["supplier"] = agreed[a]["supplier"]
    BY <1>1, <1>2, <2>1 DEF SignHeld, Agreement, Parties
  <2>3. Stamped(appt'[a], agreed'[a], F)
    BY <1>3, <1>4, <2>1, <2>2 DEF RowFits, Stamped
  <2>4. AsksFirst => appt[a].status \in {"scheduled", "confirmed"}
    BY <1>2, <1>3, <1>5 DEF AsksFirst, RowFits, Known, SignHeld, Exists
  <2>5. Accepted(appt'[a], agreed'[a], F)
    BY <1>3, <1>4, <2>1, <2>2, <2>4 DEF RowFits, Accepted
  <2>6. Parked(appt'[a], F) /\ Known(appt'[a])
    BY <1>4, <2>1 DEF Parked, Known
  <2> QED
    BY <2>3, <2>5, <2>6 DEF RowFits
<1>6. CASE req[r].op = "acknowledge"
  <2>1. /\ appt'[a].status = appt[a].status /\ appt'[a].counter = appt[a].counter
        /\ appt'[a].mgr = appt[a].mgr /\ appt'[a].ack
        /\ agreed'[a] = [agreed[a] EXCEPT !["driver"] = req[r].row.slot]
    BY <1>6, SignEffect DEF Sequential
  <2>2. /\ agreed'[a]["driver"] = appt[a].slot
        /\ agreed'[a]["manager"] = agreed[a]["manager"]
        /\ agreed'[a]["supplier"] = agreed[a]["supplier"]
    BY <1>1, <1>2, <2>1 DEF SignHeld, Agreement, Parties
  <2>3. appt[a].counter \in Counters
    BY <1>1 DEF ApptRow
  <2>4. Stamped(appt'[a], agreed'[a], F)
    BY <1>3, <1>4, <2>1, <2>2, <2>3 DEF RowFits, Stamped, Counters
  <2>5. Accepted(appt'[a], agreed'[a], F)
    BY <1>3, <1>4, <2>1, <2>2 DEF RowFits, Accepted
  <2>6. Parked(appt'[a], F) /\ Known(appt'[a])
    BY <1>2, <1>3, <1>4, <2>1 DEF RowFits, Parked, Known, SignHeld
  <2> QED
    BY <2>4, <2>5, <2>6 DEF RowFits
<1> QED
  BY <1>1, <1>5, <1>6

LEMMA PeerFits ==
  ASSUME NEW CONSTANT F, Sequential, RowsInv(F), NEW r \in Requests, NEW a \in Appts, a = req[r].a, Write(r),
         WritePeerSignature(r)
  PROVE  RowFits(appt'[a], agreed'[a], F)
<1>1. /\ req[r].op \in {"confirmPeer", "acknowledgePeer"} /\ req[r].pc # "idle"
      /\ appt'[a] \in ApptRow /\ appt[a] \in ApptRow /\ agreed[a] \in Agreement
  BY WrittenRow, PeerEffect DEF Sequential
<1>2. req[r].row.slot = appt[a].slot /\ ~appt[a].declined
  BY <1>1 DEF Sequential, ReadInv, HeldReq, Held, Creates, Signs, SignHeld
<1>3. RowFits(appt[a], agreed[a], F) /\ appt[a].counter \in Counters
  BY <1>1 DEF RowsInv, ApptRow
<1>4. /\ appt'[a].slot = appt[a].slot /\ appt'[a].counter = appt[a].counter
      /\ appt'[a].declined = appt[a].declined /\ appt'[a].status = "pending_supplier"
  BY PeerEffect DEF Sequential
<1>5. Accepted(appt'[a], agreed'[a], F) /\ Parked(appt'[a], F) /\ Known(appt'[a])
  BY <1>2, <1>4 DEF Accepted, Parked, Known
<1>6. Stamped(appt'[a], agreed'[a], F)
  <2>1. CASE req[r].op = "confirmPeer"
    <3>1. /\ appt'[a].mgr /\ appt'[a].ack = appt[a].ack
          /\ agreed'[a] = [agreed[a] EXCEPT !["manager"] = req[r].row.slot]
      BY <2>1, PeerEffect DEF Sequential
    <3>2. /\ agreed'[a]["manager"] = appt[a].slot
          /\ agreed'[a]["driver"] = agreed[a]["driver"]
          /\ agreed'[a]["supplier"] = agreed[a]["supplier"]
      BY <1>1, <1>2, <3>1 DEF Agreement, Parties
    <3> QED
      BY <1>3, <1>4, <3>1, <3>2 DEF RowFits, Stamped, Counters
  <2>2. CASE req[r].op = "acknowledgePeer"
    <3>1. /\ appt'[a].mgr = appt[a].mgr /\ appt'[a].ack
          /\ agreed'[a] = [agreed[a] EXCEPT !["driver"] = req[r].row.slot]
      BY <2>2, PeerEffect DEF Sequential
    <3>2. /\ agreed'[a]["driver"] = appt[a].slot
          /\ agreed'[a]["manager"] = agreed[a]["manager"]
          /\ agreed'[a]["supplier"] = agreed[a]["supplier"]
      BY <1>1, <1>2, <3>1 DEF Agreement, Parties
    <3> QED
      BY <1>3, <1>4, <3>1, <3>2 DEF RowFits, Stamped, Counters
  <2> QED
    BY <1>1, <2>1, <2>2
<1> QED
  BY <1>5, <1>6 DEF RowFits

LEMMA DeclineFits ==
  ASSUME NEW CONSTANT F, Sequential, RowsInv(F), NEW r \in Requests, NEW a \in Appts, a = req[r].a, Write(r),
         WriteDecline(r)
  PROVE  RowFits(appt'[a], agreed'[a], F)
<1>1. /\ appt'[a].slot = appt[a].slot /\ appt'[a].counter = appt[a].counter
      /\ appt'[a].declined /\ appt'[a].status = "needs_repropose"
      /\ ~appt'[a].mgr /\ ~appt'[a].ack /\ agreed' = agreed
  BY DeclineEffect DEF Sequential
<1>2. RowFits(appt[a], agreed[a], F)
  BY DEF RowsInv
<1> QED
  BY <1>1, <1>2 DEF RowFits, Known, Stamped, Parked, Accepted

LEMMA CancelFits ==
  ASSUME NEW CONSTANT F, Sequential, RowsInv(F), NEW r \in Requests, NEW a \in Appts, a = req[r].a, Write(r),
         WriteRequestCancel(r)
  PROVE  RowFits(appt'[a], agreed'[a], F)
<1>1. /\ appt'[a].slot = appt[a].slot /\ appt'[a].supplier = appt[a].supplier
      /\ appt'[a].declined = appt[a].declined /\ appt'[a].counter = appt[a].counter
      /\ appt'[a].status = appt[a].status
      /\ appt'[a].mgr = appt[a].mgr /\ appt'[a].ack = appt[a].ack /\ agreed' = agreed
  BY CancelEffect DEF Sequential
<1>2. RowFits(appt[a], agreed[a], F)
  BY DEF RowsInv
<1>3. Known(appt'[a]) /\ Stamped(appt'[a], agreed'[a], F)
  BY <1>1, <1>2 DEF RowFits, Known, Stamped
<1>4. Parked(appt'[a], F) /\ Accepted(appt'[a], agreed'[a], F)
  BY <1>1, <1>2 DEF RowFits, Parked, Accepted
<1> QED
  BY <1>3, <1>4 DEF RowFits

LEMMA ProposalFits ==
  ASSUME NEW CONSTANT F, Sequential, RowsInv(F), NEW r \in Requests, NEW a \in Appts, a = req[r].a, Write(r),
         WriteProposal(r)
  PROVE  RowFits(appt'[a], agreed'[a], F)
<1> DEFINE w == req[r].row
           op == req[r].op
<1>1. /\ op \in Proposals /\ req[r].pc # "idle" /\ op \notin Creates
      /\ appt'[a] \in ApptRow /\ appt[a] \in ApptRow /\ agreed[a] \in Agreement
  BY WrittenRow, ProposalEffect DEF Sequential, Proposals, Creates
<1>2. ProposalHeld(op, a, w)
  BY <1>1 DEF Sequential, ReadInv, HeldReq, Held
<1>3. RowFits(appt[a], agreed[a], F)
  BY DEF RowsInv
<1>4. /\ appt'[a].slot = w.slot /\ appt'[a].supplier = appt[a].supplier
      /\ ~appt'[a].declined /\ appt'[a].counter = w.counter
      /\ appt'[a].status = w.status
      /\ appt'[a].mgr = w.mgr /\ appt'[a].ack = w.ack
      /\ agreed'[a] = [agreed[a] EXCEPT ![Proposer(op)] = w.slot]
  BY ProposalEffect DEF Sequential
<1> HIDE DEF w, op
<1>5. Proposer(op) \in Parties
  BY DEF Proposer, Parties
<1>6. /\ agreed'[a][Proposer(op)] = w.slot
      /\ \A p \in Parties \ {Proposer(op)} : agreed'[a][p] = agreed[a][p]
  BY <1>1, <1>4, <1>5 DEF Agreement
<1>7. Known(appt'[a]) /\ Parked(appt'[a], F)
  BY <1>2, <1>4 DEF ProposalHeld, Known, Parked
<1>8. Accepted(appt'[a], agreed'[a], F)
  <2>1. op = "validate" => Proposer(op) = "supplier"
    BY DEF Proposer
  <2>2. appt[a].supplier /\ op # "validate" => w.status \notin {"scheduled", "confirmed"}
    BY <1>2 DEF ProposalHeld
  <2> QED
    BY <1>2, <1>4, <1>6, <2>1, <2>2 DEF Accepted, ProposalHeld
<1>9. Stamped(appt'[a], agreed'[a], F)
  <2> SUFFICES ASSUME "patchSlot" \notin F
               PROVE  Stamped(appt'[a], agreed'[a], F)
    BY DEF Stamped
  <2>1. w.counter # "none" => agreed'[a][w.counter] = w.slot
    BY <1>2, <1>6 DEF ProposalHeld
  <2>2. w.mgr => agreed'[a]["manager"] = w.slot
    <3>1. CASE op = "proposeManager"
      BY <1>6, <3>1 DEF Proposer
    <3>2. CASE op = "validate" /\ appt[a].counter = "manager" /\ w.slot = appt[a].slot
      BY <1>3, <1>6, <3>2 DEF Proposer, RowFits, Stamped, Parties
    <3> QED
      BY <1>2, <3>1, <3>2 DEF ProposalHeld
  <2>3. w.ack => agreed'[a]["driver"] = w.slot
    <3>1. CASE op = "proposeDriver"
      BY <1>6, <3>1 DEF Proposer
    <3>2. CASE op = "validate" /\ appt[a].counter = "driver" /\ w.slot = appt[a].slot
      BY <1>3, <1>6, <3>2 DEF Proposer, RowFits, Stamped, Parties
    <3> QED
      BY <1>2, <3>1, <3>2 DEF ProposalHeld
  <2> QED
    BY <1>4, <2>1, <2>2, <2>3 DEF Stamped
<1> QED
  BY <1>7, <1>8, <1>9 DEF RowFits

LEMMA CreateFits ==
  ASSUME NEW CONSTANT F, Sequential, RowsInv(F), NEW r \in Requests, NEW a \in Appts, a = req[r].a, Write(r),
         WriteCreate(r)
  PROVE  RowFits(appt'[a], agreed'[a], F)
<1> DEFINE w == req[r].row
<1>1. /\ req[r].op = "create" /\ req[r].pc # "idle" /\ req[r].op \in Creates
      /\ appt'[a] = w /\ w \in ApptRow
      /\ agreed'[a] = [NoAgreement EXCEPT ![Creator(w)] = w.slot]
  BY WrittenRow, CreateEffect DEF Sequential, Creates
<1>2. HeldNew("create", a, w, req[r].second)
  BY <1>1 DEF Sequential, ReadInv, HeldReq
<1> HIDE DEF w
<1>3. w.counter # "none" => agreed'[a][w.counter] = w.slot
  <2>1. w.counter # "none" => [NoAgreement EXCEPT ![Creator(w)] = w.slot][w.counter] = w.slot
    BY <1>1, NamedByCreator
  <2> QED
    BY <1>1, <2>1
<1>4. Known(w) /\ Parked(w, F)
  BY <1>2 DEF HeldNew, Known, Parked
<1>5. Stamped(w, agreed'[a], F)
  BY <1>2, <1>3 DEF HeldNew, Stamped
<1>6. Accepted(w, agreed'[a], F)
  BY <1>2, <1>3 DEF HeldNew, Accepted, AsksFirst
<1> QED
  BY <1>1, <1>4, <1>5, <1>6 DEF RowFits

LEMMA PlacedFits ==
  ASSUME NEW CONSTANT F, Sequential, RowsInv(F), NEW r \in Requests, Write(r), NEW b \in Appts, NEW s,
         req[r].op \in {"createPartner", "createCalendar"}, Placed(r, b, s)
  PROVE  RowFits(appt'[b], agreed'[b], F)
<1> DEFINE w == req[r].row
<1>1. req[r].pc # "idle" /\ req[r].op \in Creates /\ w \in ApptRow
  BY WrittenRow DEF Sequential, Creates, TypeOK, Request
<1>2. /\ ~w.mgr /\ ~w.ack /\ ~w.declined /\ w.status \in {"scheduled", "pending_supplier"}
      /\ "calendarCreate" \in Endpoints
  BY <1>1 DEF Sequential, ReadInv, HeldReq, HeldNew
<1>3. /\ appt'[b].slot = s /\ appt'[b].status = w.status /\ appt'[b].counter = w.counter
      /\ appt'[b].mgr = w.mgr /\ appt'[b].ack = w.ack /\ appt'[b].declined = w.declined
      /\ agreed'[b] = [NoAgreement EXCEPT ![Creator(w)] = s]
  BY DEF Placed
<1> HIDE DEF w
<1>4. w.counter # "none" => agreed'[b][w.counter] = s
  <2>1. w.counter # "none" => [NoAgreement EXCEPT ![Creator(w)] = s][w.counter] = s
    BY <1>1, NamedByCreator
  <2> QED
    BY <1>3, <2>1
<1>5. Known(appt'[b]) /\ Parked(appt'[b], F) /\ Accepted(appt'[b], agreed'[b], F)
  BY <1>2, <1>3 DEF Known, Parked, Accepted, AsksFirst
<1>6. Stamped(appt'[b], agreed'[b], F)
  BY <1>2, <1>3, <1>4 DEF Stamped
<1> QED
  BY <1>5, <1>6 DEF RowFits

LEMMA PatchFits ==
  ASSUME NEW CONSTANT F, Sequential, RowsInv(F), PatchedOnly(F),
         NEW r \in Requests, NEW a \in Appts, a = req[r].a, WritePatch(r)
  PROVE  RowFits(appt'[a], agreed'[a], F)
<1> DEFINE w == req[r].row
           op == req[r].op
<1>1. /\ InFlight(r) /\ op \in PatchOps /\ agreed' = agreed
      /\ appt'[a].status = IF op = "patchStatus" THEN w.status ELSE appt[a].status
      /\ appt'[a].slot = IF op = "patchSlot" THEN w.slot ELSE appt[a].slot
      /\ appt'[a].supplier = IF op = "patchSupplier" THEN w.supplier ELSE appt[a].supplier
      /\ appt'[a].mgr = appt[a].mgr /\ appt'[a].ack = appt[a].ack
      /\ appt'[a].declined = appt[a].declined /\ appt'[a].counter = appt[a].counter
  BY PatchedRow DEF Sequential
<1>2. Held(op, a, w)
  BY <1>1 DEF Sequential, ReadInv, HeldReq, InFlight, PatchOps, Creates
<1>3. /\ op = "patchStatus" => w.status \in FleetStatuses
      /\ op = "patchSlot" => ~BlocksSilentEdit(appt[a], w.slot)
  BY <1>2 DEF Held
<1>4. op \notin F =>
        /\ op = "patchStatus" => w.status = appt[a].status
        /\ op = "patchSlot" => w.slot = appt[a].slot
        /\ op = "patchSupplier" => w.supplier = appt[a].supplier
  BY <1>1 DEF PatchedOnly
<1>5. RowFits(appt[a], agreed[a], F)
  BY DEF RowsInv
<1> HIDE DEF w, op
<1>6. Known(appt'[a])
  BY <1>1, <1>3, <1>5 DEF RowFits, Known
<1>7. Stamped(appt'[a], agreed'[a], F)
  <2>1. "patchSlot" \notin F => appt'[a].slot = appt[a].slot
    BY <1>1, <1>4
  <2> QED
    BY <1>1, <1>5, <2>1 DEF RowFits, Stamped
<1>8. Parked(appt'[a], F)
  <2>1. "patchStatus" \notin F => appt'[a].status = appt[a].status
    BY <1>1, <1>4
  <2> QED
    BY <1>1, <1>5, <2>1 DEF RowFits, Parked
<1>9. Accepted(appt'[a], agreed'[a], F)
  <2> SUFFICES ASSUME AsksFirst, "patchSupplier" \notin F, appt'[a].supplier,
                      appt'[a].status \in {"scheduled", "confirmed"}
               PROVE  appt'[a].slot # NoSlot /\ agreed'[a]["supplier"] = appt'[a].slot
    BY DEF Accepted
  <2>1. appt'[a].supplier = appt[a].supplier /\ appt'[a].status = appt[a].status
    BY <1>1, <1>3, <1>4 DEF AsksFirst
  <2>2. appt[a].slot # NoSlot /\ agreed[a]["supplier"] = appt[a].slot
    BY <1>5, <2>1 DEF RowFits, Accepted
  <2>3. appt'[a].slot = appt[a].slot
    BY <1>1, <1>3, <2>1, <2>2 DEF BlocksSilentEdit
  <2> QED
    BY <1>1, <2>2, <2>3
<1> QED
  BY <1>6, <1>7, <1>8, <1>9 DEF RowFits

LEMMA RowsStep ==
  ASSUME NEW CONSTANT F
  PROVE  Sequential /\ PatchedOnly(F) /\ RowsInv(F) /\ [Next]_vars => RowsInv(F)'
<1> SUFFICES ASSUME Sequential, PatchedOnly(F), RowsInv(F), [Next]_vars
             PROVE  RowsInv(F)'
  OBVIOUS
<1>1. CASE UNCHANGED <<appt, agreed>>
  BY <1>1 DEF RowsInv
<1>2. ASSUME NEW r \in Requests, ReadNew(r) \/ ReadRow(r)
      PROVE  RowsInv(F)'
  BY <1>1, <1>2, ReadNewShape, ReadRowShape DEF Begun
<1>3. ASSUME NEW r \in Requests, Write(r)
      PROVE  RowsInv(F)'
  <2>1. PICK a \in Appts : a = req[r].a
    BY <1>3, WrittenRow DEF Sequential
  <2>2. req[r].pc # "idle" /\ req[r].a # NoAppt
    BY <1>3, <2>1, WrittenRow, ConstantsAssumption DEF Sequential, ConstantsAssumption
  <2>3. ASSUME NEW b \in Appts, b \notin {a, req[r].second}
        PROVE  RowFits(appt'[b], agreed'[b], F)
    BY <1>3, <2>1, <2>3, OtherRows, OtherAgreements DEF RowsInv, Sequential
  <2>4. ASSUME RowFits(appt'[a], agreed'[a], F), req[r].op \notin Creates
        PROVE  RowsInv(F)'
    <3>1. req[r].second \notin Appts
      BY <2>2, <2>4, ConstantsAssumption DEF Sequential, IdInv, ConstantsAssumption
    <3> QED
      BY <2>3, <2>4, <3>1 DEF RowsInv
  <2>5. CASE WriteSignature(r) \/ ReuseOrder(r) \/ InsertOrder(r)
    BY <1>3, <2>1, <2>4, <2>5, SignFits, SignEffect DEF Sequential, Creates
  <2>6. CASE WritePeerSignature(r)
    BY <1>3, <2>1, <2>4, <2>6, PeerFits, PeerEffect DEF Sequential, Creates
  <2>7. CASE WriteDecline(r)
    BY <1>3, <2>1, <2>4, <2>7, DeclineFits, DeclineEffect DEF Sequential, Creates
  <2>8. CASE WriteRequestCancel(r)
    BY <1>3, <2>1, <2>4, <2>8, CancelFits, CancelEffect DEF Sequential, Creates
  <2>9. CASE WriteProposal(r)
    BY <1>3, <2>1, <2>4, <2>9, ProposalFits, ProposalEffect DEF Sequential, Creates
  <2>10. CASE WritePatch(r)
    <3>1. req[r].op \notin Creates
      BY <2>10 DEF WritePatch, CanWrite, Creates
    <3> QED
      BY <2>1, <2>4, <2>10, <3>1, PatchFits
  <2>11. CASE WriteCreate(r)
    <3>1. \A b \in Appts \ {a} : appt'[b] = appt[b] /\ agreed'[b] = agreed[b]
      BY <2>1, <2>11, CreateEffect DEF Sequential
    <3> QED
      BY <1>3, <2>1, <2>11, <3>1, CreateFits DEF RowsInv
  <2>12. CASE WriteCalendarCreate(r)
    <3>1. /\ req[r].op \in {"createPartner", "createCalendar"}
          /\ \/ appt' = appt /\ agreed' = agreed
             \/ /\ Placed(r, a, req[r].row.slot)
                /\ \A b \in Appts \ {a} : b = req[r].second => Placed(r, b, req[r].slot2)
      BY <2>1, <2>12, CalendarEffect DEF Sequential
    <3>2. CASE /\ Placed(r, a, req[r].row.slot)
               /\ \A b \in Appts \ {a} : b = req[r].second => Placed(r, b, req[r].slot2)
      <4>1. RowFits(appt'[a], agreed'[a], F)
        BY <1>3, <3>1, <3>2, PlacedFits
      <4>2. \A b \in Appts \ {a} : b = req[r].second => RowFits(appt'[b], agreed'[b], F)
        BY <1>3, <3>1, <3>2, PlacedFits
      <4> QED
        BY <2>3, <4>1, <4>2 DEF RowsInv
    <3> QED
      BY <1>1, <3>1, <3>2
  <2>13. CASE MissOrder(r) \/ TakeNumber(r) \/ NumberTaken(r)
    BY <1>1, <2>13 DEF MissOrder, Miss, TakeNumber, NumberTaken
  <2> QED
    BY <1>3, <2>5, <2>6, <2>7, <2>8, <2>9, <2>10, <2>11, <2>12, <2>13 DEF Write
<1> QED
  BY <1>1, <1>2, <1>3 DEF Next, vars

LEMMA SequentialStart == Init => Sequential
<1> SUFFICES ASSUME Init
             PROVE  Sequential
  OBVIOUS
<1>1. \A r \in Requests : req[r].pc = "idle"
  BY IdleTyped DEF Init
<1> QED
  BY <1>1, LockStart DEF Sequential, ReadInv

LEMMA SequentialStep == Apart /\ Sequential /\ [Next]_vars => Sequential'
BY TypeStep, IdStep, LockStep, ReadStep DEF Sequential

LEMMA RowsStart ==
  ASSUME NEW CONSTANT F
  PROVE  Init => RowsInv(F)
<1> SUFFICES ASSUME Init, NEW a \in Appts
             PROVE  RowFits(appt[a], agreed[a], F)
  BY DEF RowsInv
<1>1. appt[a] = Blank
  BY DEF Init
<1> QED
  BY <1>1 DEF RowFits, Known, Stamped, Parked, Accepted, Blank

\* The requests in flight are no PATCHes of these fields.
Unpatched(ops) == \A r \in Requests : InFlight(r) => req[r].op \notin ops

LEMMA UnpatchedFields ==
  ASSUME NEW CONSTANT ops
  PROVE  Unpatched(ops) => PatchedOnly(PatchOps \ ops)
BY DEF Unpatched, PatchedOnly

\* While no two requests in flight are about the same appointment, and no PATCH is about
\* its slot, every stamp on an appointment is of the slot it has now: a proposal takes off
\* the stamps of all but the party that has named the new slot.
THEOREM StampsAreCurrent ==
  Spec /\ []Apart /\ []Unpatched({"patchSlot"}) => []StampsMatchSlot
<1> DEFINE F == PatchOps \ {"patchSlot"}
<1>1. RowsInv(F) => StampsMatchSlot
  BY DEF RowsInv, RowFits, Stamped, StampsMatchSlot
<1>2. Unpatched({"patchSlot"}) => PatchedOnly(F)
  BY UnpatchedFields
<1> HIDE DEF F
<1>3. /\ Init => RowsInv(F)
      /\ Sequential /\ PatchedOnly(F) /\ RowsInv(F) /\ [Next]_vars => RowsInv(F)'
  BY RowsStart, RowsStep
<1> QED
  BY <1>1, <1>2, <1>3, SequentialStart, SequentialStep, PTL DEF Spec

\* blocksSilentScheduledAtEdit: a PATCH does not move a date that is being negotiated.
Negotiating == {"scheduled", "pending_supplier", "pending_fleet_peer", "confirmed",
                "needs_repropose"}
Dated == \A a \in Appts : Exists(a) => appt[a].slot # NoSlot
NamedMoves == [][\A a \in Appts :
    Exists(a) /\ appt'[a].slot # appt[a].slot
      => \E p \in Parties : agreed'[a][p] = appt'[a].slot]_vars

LEMMA PatchesLeaveSlots ==
  ASSUME NEW CONSTANT F, FleetStatuses \subseteq Negotiating, Sequential, RowsInv(F), Dated
  PROVE  PatchedOnly(PatchOps \ {"patchSlot"})
<1> SUFFICES ASSUME NEW r \in Requests, InFlight(r), req[r].op = "patchSlot"
             PROVE  req[r].row.slot = appt[req[r].a].slot
  BY DEF PatchedOnly
<1> DEFINE a == req[r].a
<1>1. a \in Appts /\ Held("patchSlot", a, req[r].row)
  BY DEF Sequential, TypeOK, ReadInv, HeldReq, InFlight, Creates
<1>2. Known(appt[a])
  BY <1>1 DEF RowsInv, RowFits
<1> HIDE DEF a
<1>3. appt[a].slot # NoSlot /\ appt[a].status \in Negotiating
  BY <1>1, <1>2 DEF Held, Dated, Exists, Known, Negotiating
<1> QED
  BY <1>1, <1>3 DEF Held, BlocksSilentEdit, Negotiating, a

LEMMA SlotsMoveByName ==
  ASSUME Sequential, PatchedOnly(PatchOps \ {"patchSlot"}), [Next]_vars,
         NEW a \in Appts, Exists(a), appt'[a].slot # appt[a].slot
  PROVE  \E p \in Parties : agreed'[a][p] = appt'[a].slot
<1>1. PICK r \in Requests : Write(r)
  BY ReadNewShape, ReadRowShape DEF Next, vars, Begun
<1>2. InFlight(r) /\ agreed[a] \in Agreement
  BY <1>1, WrittenRow DEF Sequential, InFlight, TypeOK
<1>3. req[r].op \notin Creates
  BY <1>1, <1>2, OtherRows, ConstantsAssumption
     DEF Sequential, IdInv, InFlight, Exists, ConstantsAssumption
<1>4. a = req[r].a
  BY <1>1, <1>2, <1>3, OtherRows, ConstantsAssumption
     DEF Sequential, IdInv, InFlight, ConstantsAssumption
<1>5. CASE WriteProposal(r)
  <2>1. /\ appt'[a].slot = req[r].row.slot
        /\ agreed'[a] = [agreed[a] EXCEPT ![Proposer(req[r].op)] = req[r].row.slot]
    BY <1>4, <1>5, ProposalEffect DEF Sequential
  <2>2. Proposer(req[r].op) \in Parties
    BY DEF Proposer, Parties
  <2> QED
    BY <1>2, <2>1, <2>2 DEF Agreement
<1>6. CASE WritePatch(r)
  <2>1. appt'[a].slot = appt[a].slot
    BY <1>2, <1>4, <1>6, PatchedRow DEF Sequential, PatchedOnly, PatchOps
  <2> QED
    BY <2>1
<1>7. CASE WriteSignature(r) \/ ReuseOrder(r) \/ InsertOrder(r)
  BY <1>4, <1>7, SignEffect DEF Sequential
<1>8. CASE WritePeerSignature(r)
  BY <1>4, <1>8, PeerEffect DEF Sequential
<1>9. CASE WriteDecline(r)
  BY <1>4, <1>9, DeclineEffect DEF Sequential
<1>10. CASE WriteRequestCancel(r)
  BY <1>4, <1>10, CancelEffect DEF Sequential
<1>11. CASE WriteCreate(r) \/ WriteCalendarCreate(r)
  BY <1>3, <1>11 DEF WriteCreate, WriteCalendarCreate, CanWrite, Creates
<1>12. CASE MissOrder(r) \/ TakeNumber(r) \/ NumberTaken(r)
  BY <1>12 DEF MissOrder, Miss, TakeNumber, NumberTaken
<1> QED
  BY <1>1, <1>5, <1>6, <1>7, <1>8, <1>9, <1>10, <1>11, <1>12 DEF Write

\* If the fleet writes only statuses of the negotiation and every appointment has a date,
\* PATCHes of the slot may be sent too: a slot changes only to one that a party has named,
\* and the stamps are of it.
THEOREM DatesStayNegotiated ==
  ASSUME FleetStatuses \subseteq Negotiating
  PROVE  Spec /\ []Apart /\ []Dated => []StampsMatchSlot /\ NamedMoves
<1> DEFINE F == PatchOps \ {"patchSlot"}
<1>1. RowsInv(F) => StampsMatchSlot
  BY DEF RowsInv, RowFits, Stamped, StampsMatchSlot
<1>2. Sequential /\ RowsInv(F) /\ Dated => PatchedOnly(F)
  BY PatchesLeaveSlots
<1>3. Sequential /\ PatchedOnly(F) /\ [Next]_vars =>
        [\A a \in Appts : Exists(a) /\ appt'[a].slot # appt[a].slot
           => \E p \in Parties : agreed'[a][p] = appt'[a].slot]_vars
  BY SlotsMoveByName
<1> HIDE DEF F
<1>4. /\ Init => RowsInv(F)
      /\ Sequential /\ PatchedOnly(F) /\ RowsInv(F) /\ [Next]_vars => RowsInv(F)'
  BY RowsStart, RowsStep
<1> QED
  BY <1>1, <1>2, <1>3, <1>4, SequentialStart, SequentialStep, PTL DEF Spec, NamedMoves

\* A refused appointment waits for another date and carries no signature, as long as the
\* fleet does not create one as refused and no PATCH is about a status.
THEOREM RefusalIsParked ==
  ASSUME "needs_repropose" \notin FleetStatuses
  PROVE  Spec /\ []Apart /\ []Unpatched({"patchStatus"}) => []RefusalParks
<1> DEFINE F == PatchOps \ {"patchStatus"}
<1>1. RowsInv(F) => RefusalParks
  BY DEF RowsInv, RowFits, Parked, RefusalParks
<1>2. Unpatched({"patchStatus"}) => PatchedOnly(F)
  BY UnpatchedFields
<1> HIDE DEF F
<1>3. /\ Init => RowsInv(F)
      /\ Sequential /\ PatchedOnly(F) /\ RowsInv(F) /\ [Next]_vars => RowsInv(F)'
  BY RowsStart, RowsStep
<1> QED
  BY <1>1, <1>2, <1>3, SequentialStart, SequentialStep, PTL DEF Spec

\* And at a supplier nothing is confirmed before the supplier has named or accepted the
\* slot, as long as the fleet's creates and PATCHes of a status ask first and no PATCH
\* brings in a supplier: the calendar's create takes the supplier of the case after it has
\* decided the status, and is left out.  PATCHes of the slot are not.
THEOREM SupplierWasAsked ==
  ASSUME AsksFirst
  PROVE  Spec /\ []Apart /\ []Unpatched({"patchSupplier"}) => []SupplierAccepted
<1> DEFINE F == PatchOps \ {"patchSupplier"}
<1>1. RowsInv(F) => SupplierAccepted
  BY DEF RowsInv, RowFits, Accepted, SupplierAccepted
<1>2. Unpatched({"patchSupplier"}) => PatchedOnly(F)
  BY UnpatchedFields
<1> HIDE DEF F
<1>3. /\ Init => RowsInv(F)
      /\ Sequential /\ PatchedOnly(F) /\ RowsInv(F) /\ [Next]_vars => RowsInv(F)'
  BY RowsStart, RowsStep
<1> QED
  BY <1>1, <1>2, <1>3, SequentialStart, SequentialStep, PTL DEF Spec

-----------------------------------------------------------------------------
(***************************************************************************)
(* The capacity of the supplier.  A row that joins the load of a slot has  *)
(* been counted against it: by the create, the proposal or the PATCH that  *)
(* sets it there.  No other write wakes a row up, as long as nothing       *)
(* brings back a cancelled row or one whose visit did not happen.          *)
(***************************************************************************)
Active(row, s) ==
    row.status \notin {"absent", "cancelled", "no_show"} /\ row.supplier /\ row.slot = s

CapInv == \A s \in Slots :
    IsFiniteSet(Load(s, NoAppt)) /\ Cardinality(Load(s, NoAppt)) <= Capacity

LEMMA LoadIsActive ==
  ASSUME NEW s
  PROVE  /\ Load(s, NoAppt) = {b \in Appts : Active(appt[b], s)}
         /\ \A a : Load(s, a) = {b \in Appts : Active(appt[b], s)} \ {a}
BY ConstantsAssumption DEF Load, Active, ConstantsAssumption

\* The load of a slot after one row has changed.
LEMMA CapKept ==
  ASSUME CapInv, NEW a \in Appts, \A b \in Appts \ {a} : appt'[b] = appt[b],
         \A s \in Slots : Active(appt'[a], s) => Active(appt[a], s) \/ HasCapacity(s, a)
  PROVE  CapInv'
<1> SUFFICES ASSUME NEW s \in Slots
             PROVE  /\ IsFiniteSet(Load(s, NoAppt)')
                    /\ Cardinality(Load(s, NoAppt)') <= Capacity
  BY DEF CapInv
<1> DEFINE Old == {b \in Appts : Active(appt[b], s)}
           New == {b \in Appts : Active(appt'[b], s)}
<1>1. Load(s, NoAppt) = Old /\ Load(s, a) = Old \ {a}
  BY LoadIsActive
<1>2. Load(s, NoAppt)' = New
  BY ConstantsAssumption DEF Load, Active, ConstantsAssumption
<1>3. IsFiniteSet(Old) /\ Cardinality(Old) <= Capacity /\ Cardinality(Old) \in Nat
  BY <1>1, FS_CardinalityType DEF CapInv
<1>4. Capacity \in Nat
  BY ConstantsAssumption DEF ConstantsAssumption
<1>5. New \subseteq Old \cup {a}
  OBVIOUS
<1>6. CASE New \subseteq Old
  <2>1. IsFiniteSet(New) /\ Cardinality(New) <= Cardinality(Old)
    BY <1>3, <1>6, FS_Subset
  <2>2. Cardinality(New) \in Nat
    BY <2>1, FS_CardinalityType
  <2> QED
    BY <1>2, <1>3, <1>4, <2>1, <2>2
<1>7. CASE HasCapacity(s, a)
  <2> DEFINE Rest == Old \ {a}
  <2>1. /\ IsFiniteSet(Rest) /\ Cardinality(Rest) \in Nat
        /\ IsFiniteSet(Rest \cup {a}) /\ Cardinality(Rest \cup {a}) = Cardinality(Rest) + 1
    <3>1. IsFiniteSet(Rest)
      BY <1>3, FS_Subset
    <3>2. a \notin Rest
      OBVIOUS
    <3> HIDE DEF Rest
    <3> QED
      BY <3>1, <3>2, FS_CardinalityType, FS_AddElement
  <2>2. Cardinality(Rest) < Capacity
    BY <1>1, <1>7 DEF HasCapacity
  <2>3. New \subseteq Rest \cup {a}
    BY <1>5
  <2> HIDE DEF Rest, New
  <2>4. IsFiniteSet(New) /\ Cardinality(New) <= Cardinality(Rest \cup {a})
    BY <2>1, <2>3, FS_Subset
  <2>5. Cardinality(New) \in Nat
    BY <2>4, FS_CardinalityType
  <2> QED
    BY <1>2, <1>4, <2>1, <2>2, <2>4, <2>5
<1> QED
  BY <1>5, <1>6, <1>7

\* The calendar is left out: the supplier the transaction falls back to, and the later
\* occurrences, have not been counted.
CountsLoad == "calendarCreate" \notin Endpoints /\ "no_show" \notin FleetStatuses

\* No PATCH in flight brings a cancelled row back, and those of slot and supplier are of
\* the calendar, which counts; the other PATCH endpoint does not.
CountedPatches == \A r \in Requests : InFlight(r) =>
    /\ req[r].op = "patchStatus" /\ appt[req[r].a].status = "cancelled"
         => req[r].row.status = "cancelled"
    /\ req[r].op \in {"patchSlot", "patchSupplier"} => "update" \notin Endpoints

\* No two requests in flight take the same slot of the supplier.
OneSeat == \A r, q \in Requests : \A s \in Slots :
    InFlight(r) /\ InFlight(q) /\ Takes(req[r], s) /\ Takes(req[q], s) => r = q

\* What a request in flight has counted still holds.
RoomInv == \A r \in Requests : InFlight(r) => Room(req[r])

\* A write touches one row, and seats it only where its request has counted.
LEMMA SeatEffect ==
  ASSUME NEW CONSTANT F, CountsLoad, CountedPatches, Sequential, RowsInv(F),
         NEW r \in Requests, Write(r), NEW a \in Appts, a = req[r].a
  PROVE  /\ \A b \in Appts \ {a} : appt'[b] = appt[b]
         /\ \A s \in Slots : Active(appt'[a], s) => Active(appt[a], s) \/ Takes(req[r], s)
<1> DEFINE Goal == /\ \A b \in Appts \ {a} : appt'[b] = appt[b]
                   /\ \A s \in Slots :
                        Active(appt'[a], s) => Active(appt[a], s) \/ Takes(req[r], s)
<1>1. UNCHANGED appt => Goal
  OBVIOUS
<1>2. req[r].pc # "idle" /\ req[r].a # NoAppt
  BY WrittenRow, ConstantsAssumption DEF Sequential, ConstantsAssumption
<1>3. req[r].op \notin Creates => \A b \in Appts \ {a} : appt'[b] = appt[b]
  <2> SUFFICES ASSUME req[r].op \notin Creates, NEW b \in Appts \ {a}
               PROVE  appt'[b] = appt[b]
    OBVIOUS
  <2>1. req[r].second \notin Appts
    BY <1>2, ConstantsAssumption DEF Sequential, IdInv, ConstantsAssumption
  <2> QED
    BY <2>1, OtherRows DEF Sequential
<1>4. ASSUME req[r].op \notin Creates,
             \A s \in Slots : Active(appt'[a], s) => Active(appt[a], s) \/ Takes(req[r], s)
      PROVE  Goal
  BY <1>3, <1>4
<1>5. ASSUME req[r].op \notin Creates
      PROVE  Held(req[r].op, a, req[r].row)
  BY <1>2, <1>5 DEF Sequential, ReadInv, InFlight, HeldReq
<1>6. Known(appt[a])
  BY DEF RowsInv, RowFits
<1> SUFFICES Goal
  OBVIOUS
<1> HIDE DEF Goal
<1>7. CASE WriteSignature(r) \/ ReuseOrder(r) \/ InsertOrder(r)
  <2>1. /\ req[r].op \in {"confirm", "acknowledge"}
        /\ appt'[a].slot = appt[a].slot /\ appt'[a].supplier = appt[a].supplier
        /\ req[r].op = "acknowledge" => appt'[a].status = appt[a].status
    BY <1>7, SignEffect DEF Sequential
  <2>2. req[r].op = "confirm" => appt[a].status \notin {"absent", "cancelled", "no_show"}
    BY <1>5, <1>6, <2>1 DEF Held, SignHeld, Signs, Creates, Exists, Known, CountsLoad
  <2> QED
    BY <1>4, <2>1, <2>2 DEF Active, Creates
<1>8. CASE WritePeerSignature(r)
  <2>1. /\ req[r].op \in {"confirmPeer", "acknowledgePeer"}
        /\ appt'[a].slot = appt[a].slot /\ appt'[a].supplier = appt[a].supplier
    BY <1>8, PeerEffect DEF Sequential
  <2>2. appt[a].status = "pending_fleet_peer"
    BY <1>5, <2>1 DEF Held, SignHeld, Signs, Creates
  <2> QED
    BY <1>4, <2>1, <2>2 DEF Active, Creates
<1>9. CASE WriteDecline(r)
  <2>1. /\ appt'[a].slot = appt[a].slot /\ appt'[a].supplier = appt[a].supplier
        /\ req[r].op = "decline"
    BY <1>9, DeclineEffect DEF Sequential
  <2>2. appt[a].status \in {"confirmed", "scheduled"}
    BY <1>5, <2>1 DEF Held, Creates
  <2> QED
    BY <1>4, <2>1, <2>2 DEF Active, Creates
<1>10. CASE WriteRequestCancel(r)
  BY <1>4, <1>10, CancelEffect DEF Sequential, Active, Creates
<1>11. CASE WriteProposal(r)
  <2>1. /\ req[r].op \in Proposals
        /\ appt'[a].slot = req[r].row.slot /\ appt'[a].supplier = appt[a].supplier
    BY <1>11, ProposalEffect DEF Sequential, Proposals
  <2> QED
    BY <1>4, <2>1 DEF Active, Takes, Creates, Proposals
<1>12. CASE WritePatch(r)
  <2> DEFINE w == req[r].row
             op == req[r].op
  <2>1. /\ InFlight(r) /\ op \in PatchOps /\ op \notin Creates
        /\ appt'[a].status = IF op = "patchStatus" THEN w.status ELSE appt[a].status
        /\ appt'[a].slot = IF op = "patchSlot" THEN w.slot ELSE appt[a].slot
        /\ appt'[a].supplier = IF op = "patchSupplier" THEN w.supplier ELSE appt[a].supplier
    BY <1>12, PatchedRow DEF Sequential, PatchOps, Creates
  <2>2. appt[a].status # "no_show" /\ appt[a].status # "absent"
    BY <1>5, <1>6, <2>1 DEF Held, Exists, Known, CountsLoad
  <2>3. op = "patchStatus" /\ appt[a].status = "cancelled" => w.status = "cancelled"
    BY <2>1 DEF CountedPatches
  <2>4. ASSUME NEW s \in Slots, Active(appt'[a], s)
        PROVE  Active(appt[a], s) \/ Takes(req[r], s)
    <3>1. CASE op = "patchStatus"
      BY <2>1, <2>2, <2>3, <2>4, <3>1 DEF Active
    <3>2. CASE op = "patchSlot"
      BY <2>1, <2>4, <3>2 DEF Active, Takes
    <3>3. CASE op = "patchSupplier"
      BY <2>1, <2>4, <3>3 DEF Active, Takes
    <3>4. CASE op = "patchOverride"
      BY <2>1, <2>4, <3>4 DEF Active
    <3> QED
      BY <2>1, <3>1, <3>2, <3>3, <3>4 DEF PatchOps
  <2> QED
    BY <1>4, <2>1, <2>4
<1>13. CASE WriteCreate(r)
  <2>1. /\ req[r].op = "create" /\ appt'[a] = req[r].row
        /\ \A b \in Appts \ {a} : appt'[b] = appt[b]
    BY <1>13, CreateEffect DEF Sequential
  <2> QED
    BY <2>1 DEF Active, Takes, Goal
<1>14. CASE WriteCalendarCreate(r)
  <2>1. req[r].op \in {"createPartner", "createCalendar"}
    BY <1>14 DEF WriteCalendarCreate, CanWrite
  <2> QED
    BY <1>2, <2>1 DEF Sequential, ReadInv, InFlight, HeldReq, HeldNew, Creates, CountsLoad
<1>15. CASE MissOrder(r) \/ TakeNumber(r) \/ NumberTaken(r)
  BY <1>1, <1>15 DEF MissOrder, Miss, TakeNumber, NumberTaken
<1> QED
  BY <1>7, <1>8, <1>9, <1>10, <1>11, <1>12, <1>13, <1>14, <1>15 DEF Write

LEMMA CapStep ==
  ASSUME NEW CONSTANT F, CountsLoad
  PROVE  CountedPatches /\ Sequential /\ RowsInv(F) /\ RoomInv /\ CapInv /\ [Next]_vars
           => CapInv'
<1> SUFFICES ASSUME CountedPatches, Sequential, RowsInv(F), RoomInv, CapInv, [Next]_vars
             PROVE  CapInv'
  OBVIOUS
<1>1. CASE UNCHANGED appt
  BY <1>1 DEF CapInv, Load
<1>2. ASSUME NEW r \in Requests, ReadNew(r) \/ ReadRow(r)
      PROVE  CapInv'
  BY <1>1, <1>2, ReadNewShape, ReadRowShape DEF Begun
<1>3. ASSUME NEW r \in Requests, Write(r)
      PROVE  CapInv'
  <2>1. PICK a \in Appts : a = req[r].a
    BY <1>3, WrittenRow DEF Sequential
  <2>2. \A s \in Slots : Takes(req[r], s) => HasCapacity(s, a)
    <3>1. InFlight(r)
      BY <1>3, WriteEnds DEF Sequential, InFlight
    <3>2. \A s \in Slots : Takes(req[r], s) /\ req[r].op \in PatchOps
                            => "update" \notin Endpoints
      BY <3>1 DEF CountedPatches, Takes, PatchOps, Proposals
    <3> QED
      BY <2>1, <3>1, <3>2 DEF RoomInv, Room
  <2> QED
    BY <1>3, <2>1, <2>2, SeatEffect, CapKept
<1> QED
  BY <1>1, <1>2, <1>3 DEF Next, vars

\* The room of a slot after a write that seats nobody there.
LEMMA RoomKept ==
  ASSUME CapInv, NEW s \in Slots, NEW a, HasCapacity(s, a),
         \A b \in Appts : Active(appt'[b], s) => Active(appt[b], s)
  PROVE  HasCapacity(s, a)'
<1> DEFINE Old == {b \in Appts : Active(appt[b], s)} \ {a}
           New == {b \in Appts : Active(appt'[b], s)} \ {a}
<1>1. Load(s, a) = Old /\ Load(s, NoAppt) = {b \in Appts : Active(appt[b], s)}
  BY LoadIsActive
<1>2. Load(s, a)' = New
  BY ConstantsAssumption DEF Load, Active, ConstantsAssumption
<1>3. IsFiniteSet(Old)
  BY <1>1, FS_Subset DEF CapInv
<1>4. New \subseteq Old
  OBVIOUS
<1>5. Cardinality(Old) < Capacity /\ Capacity \in Nat
  BY <1>1, ConstantsAssumption DEF HasCapacity, ConstantsAssumption
<1> HIDE DEF Old, New
<1>6. /\ Cardinality(New) <= Cardinality(Old) /\ Cardinality(New) \in Nat
      /\ Cardinality(Old) \in Nat
  BY <1>3, <1>4, FS_Subset, FS_CardinalityType
<1>7. Cardinality(New) < Capacity
  BY <1>5, <1>6
<1> QED
  BY <1>2, <1>7 DEF HasCapacity

LEMMA RoomStep ==
  ASSUME NEW CONSTANT F, CountsLoad
  PROVE  Apart /\ OneSeat /\ CountedPatches /\ Sequential /\ RowsInv(F) /\ RoomInv /\ CapInv
            /\ [Next]_vars => RoomInv'
<1> SUFFICES ASSUME Apart, OneSeat, CountedPatches, Sequential, RowsInv(F), RoomInv, CapInv,
                    [Next]_vars
             PROVE  RoomInv'
  OBVIOUS
<1>1. ASSUME UNCHANGED appt, NEW q, Room(q)
      PROVE  Room(q)'
  BY <1>1 DEF Room, Takes, HasCapacity, Load
<1>2. CASE UNCHANGED vars
  BY <1>1, <1>2 DEF vars, RoomInv, InFlight
<1>3. ASSUME NEW r \in Requests, ReadNew(r) \/ ReadRow(r)
      PROVE  RoomInv'
  <2>1. PICK new : Begun(r, new) /\ Room(new)
    BY <1>3, RowRead, NewRead DEF Decided
  <2>2. /\ req'[r] = new /\ UNCHANGED appt
        /\ \A q \in Requests \ {r} : req'[q] = req[q]
    BY <2>1 DEF Begun, Sequential, TypeOK
  <2>3. Room(new)'
    BY <1>1, <2>1, <2>2
  <2>4. \A q \in Requests \ {r} : InFlight(q) => Room(req[q])'
    BY <1>1, <2>2 DEF RoomInv
  <2> QED
    BY <2>2, <2>3, <2>4 DEF RoomInv, InFlight
<1>4. ASSUME NEW r \in Requests, Write(r)
      PROVE  RoomInv'
  <2>1. /\ InFlight(r) /\ \A q \in Requests \ {r} : req'[q] = req[q]
        /\ req'[r].pc = "idle" \/ (Continued(r) /\ (MissOrder(r) \/ TakeNumber(r)))
    BY <1>4, WriteEnds DEF Sequential, InFlight
  <2>2. ASSUME NEW q \in Requests \ {r}, InFlight(q), NEW s \in Slots, Takes(req[q], s)',
               req'[q].op \in PatchOps => "update" \notin Endpoints
        PROVE  HasCapacity(s, req[q].a)'
    <3>1. Takes(req[q], s)
      BY <1>4, <2>2, OthersStay DEF Sequential, Takes
    <3>2. ~Takes(req[r], s)
      BY <2>1, <2>2, <3>1 DEF OneSeat
    <3>3. \A b \in Appts : Active(appt'[b], s) => Active(appt[b], s)
      BY <1>4, <3>2, SeatEffect, WrittenRow DEF Sequential
    <3>4. PICK a : a = req[q].a /\ a = req'[q].a /\ req'[q].op = req[q].op
      BY <2>1, <2>2
    <3>5. HasCapacity(s, a)
      BY <2>2, <3>1, <3>4 DEF RoomInv, Room
    <3>6. HasCapacity(s, a)'
      BY <3>3, <3>5, RoomKept
    <3> QED
      BY <3>4, <3>6 DEF HasCapacity, Load
  <2>3. ASSUME NEW q \in Requests \ {r}, InFlight(q)
        PROVE  Room(req[q])'
    BY <2>2, <2>3 DEF Room
  <2>4. ASSUME Continued(r), UNCHANGED appt
        PROVE  Room(req[r])'
    BY <2>1, <2>4 DEF Continued, RoomInv, Room, Takes, HasCapacity, Load
  <2>5. MissOrder(r) \/ TakeNumber(r) => UNCHANGED appt
    BY DEF MissOrder, Miss, TakeNumber
  <2> QED
    BY <2>1, <2>3, <2>4, <2>5 DEF RoomInv, InFlight
<1> QED
  BY <1>2, <1>3, <1>4 DEF Next

LEMMA RoomStart == Init => RoomInv
BY IdleTyped DEF Init, RoomInv, InFlight

LEMMA CapStart == Init => CapInv
<1> SUFFICES ASSUME Init, NEW s \in Slots
             PROVE  IsFiniteSet(Load(s, NoAppt)) /\ Cardinality(Load(s, NoAppt)) <= Capacity
  BY DEF CapInv
<1>1. Load(s, NoAppt) = {}
  BY DEF Init, Load, Blank
<1>2. Capacity \in Nat \ {0}
  BY ConstantsAssumption DEF ConstantsAssumption
<1> QED
  BY <1>1, <1>2, FS_EmptySet

\* A supplier's slot is never overbooked, whatever the capacity and the number of slots,
\* appointments and requests, while no two requests in flight are about the same
\* appointment or take the same slot.  Two that take the same slot may overbook it: the
\* count and the write are in different transactions.
THEOREM NeverOverbooked ==
  ASSUME CountsLoad
  PROVE  Spec /\ []Apart /\ []OneSeat /\ []CountedPatches => []CapacityRespected
<1>1. CapInv => CapacityRespected
  BY DEF CapInv, CapacityRespected
<1>2. PatchedOnly(PatchOps)
  BY DEF PatchedOnly
<1> DEFINE F == PatchOps
<1> HIDE DEF F
<1>3. /\ Init => RowsInv(F)
      /\ Sequential /\ RowsInv(F) /\ [Next]_vars => RowsInv(F)'
  BY <1>2, RowsStart, RowsStep DEF F
<1>4. /\ CountedPatches /\ Sequential /\ RowsInv(F) /\ RoomInv /\ CapInv /\ [Next]_vars
           => CapInv'
      /\ Apart /\ OneSeat /\ CountedPatches /\ Sequential /\ RowsInv(F) /\ RoomInv /\ CapInv
           /\ [Next]_vars => RoomInv'
  BY CapStep, RoomStep
<1> QED
  BY <1>1, <1>3, <1>4, SequentialStart, SequentialStep, CapStart, RoomStart, PTL DEF Spec

-----------------------------------------------------------------------------
(***************************************************************************)
(* The date of the work orders.  A write that moves a row re-plans every   *)
(* order of its case at the new slot; the others leave the rows that exist *)
(* where they are.  All the endpoints are in, PATCHes and calendar too.    *)
(***************************************************************************)
\* An order as the write leaves it: as it was, or planned at the row written.
Carried(p, a) ==
    \/ \E o \in orders : p.case = o.case /\ p.planned = o.planned
    \/ p.case = CaseOf[a] /\ p.planned = appt'[a].slot

LEMMA StaysPlanned ==
  ASSUME PlannedAtAppointment, NEW a \in Appts, appt'[a].status # "absent",
         \A b \in Appts : Exists(b) => appt'[b].status # "absent" /\ appt'[b].slot = appt[b].slot,
         \A p \in orders' : Carried(p, a)
  PROVE  PlannedAtAppointment'
<1> SUFFICES ASSUME NEW p \in orders'
             PROVE  \E b \in Appts : /\ CaseOf[b] = p.case /\ appt'[b].status # "absent"
                                     /\ appt'[b].slot = p.planned
  BY DEF PlannedAtAppointment, Exists
<1>1. CASE \E o \in orders : p.case = o.case /\ p.planned = o.planned
  BY <1>1 DEF PlannedAtAppointment
<1>2. CASE p.case = CaseOf[a] /\ p.planned = appt'[a].slot
  BY <1>2
<1> QED
  BY <1>1, <1>2 DEF Carried

LEMMA MovesPlanned ==
  ASSUME PlannedAtAppointment, NEW a \in Appts, appt'[a].status # "absent",
         \A b \in Appts \ {a} : appt'[b] = appt[b],
         \A p \in orders' : IF p.case = CaseOf[a] THEN p.planned = appt'[a].slot
                                                  ELSE p \in orders
  PROVE  PlannedAtAppointment'
<1> SUFFICES ASSUME NEW p \in orders'
             PROVE  \E b \in Appts : /\ CaseOf[b] = p.case /\ appt'[b].status # "absent"
                                     /\ appt'[b].slot = p.planned
  BY DEF PlannedAtAppointment, Exists
<1>1. CASE p.case = CaseOf[a]
  BY <1>1
<1>2. CASE p.case # CaseOf[a]
  BY <1>2 DEF PlannedAtAppointment, Exists
<1> QED
  BY <1>1, <1>2

LEMMA ReplanMoves ==
  ASSUME orders \subseteq WorkOrder, NEW c, NEW s
  PROVE  \A p \in Replan(c, s) : IF p.case = c THEN p.planned = s ELSE p \in orders
BY DEF Replan, WorkOrder

LEMMA SignCarries ==
  ASSUME Sequential, NEW r \in Requests, NEW a \in Appts, a = req[r].a, Write(r),
         WriteSignature(r) \/ ReuseOrder(r) \/ InsertOrder(r)
  PROVE  /\ appt'[a].status # "absent" /\ appt'[a].slot = appt[a].slot
         /\ \A p \in orders' : Carried(p, a)
<1>1. /\ req[r].op \in {"confirm", "acknowledge"} /\ req[r].pc # "idle"
      /\ appt'[a].slot = appt[a].slot /\ orders \subseteq WorkOrder
      /\ req[r].op = "confirm" => appt'[a].status = "confirmed"
      /\ req[r].op = "acknowledge" => appt'[a].status = appt[a].status
  BY WrittenRow, SignEffect DEF Sequential, TypeOK
<1>2. Exists(a) /\ req[r].row.slot = appt[a].slot
  BY <1>1 DEF Sequential, ReadInv, HeldReq, Held, SignHeld, Creates, Signs
<1>3. appt'[a].status # "absent"
  BY <1>1, <1>2 DEF Exists
<1>4. ASSUME NEW read, NEW new, OpenGate(r, read, new), new \subseteq {NewOrder(r)},
             NEW p \in orders'
      PROVE  Carried(p, a)
  <2> DEFINE supplier == req[r].row.supplier \/ read.supplier
  <2>1. PICK o \in orders \cup new :
             p = IF o.case = CaseOf[a]
                 THEN [o EXCEPT !.planned = req[r].row.slot, !.supplier = supplier] ELSE o
    BY <1>4 DEF OpenGate
  <2> HIDE DEF supplier
  <2>2. CASE o \in orders
    BY <1>1, <1>2, <2>1, <2>2 DEF Carried, WorkOrder
  <2>3. CASE o = NewOrder(r)
    <3> DEFINE to == req[r].row.supplier \/ req[r].read.supplier
               st == IF to THEN "sent" ELSE "draft"
    <3>1. o = [case |-> CaseOf[a], num |-> req[r].num, planned |-> NoSlot,
               supplier |-> to, status |-> st]
      BY <2>3 DEF NewOrder
    <3> HIDE DEF to, st
    <3> QED
      BY <1>1, <1>2, <2>1, <3>1 DEF Carried
  <2> QED
    BY <1>4, <2>1, <2>2, <2>3
<1>5. CASE WriteSignature(r)
  BY <1>1, <1>3, <1>5 DEF WriteSignature, Carried
<1>6. CASE ReuseOrder(r)
  BY <1>1, <1>3, <1>4, <1>6 DEF ReuseOrder
<1>7. CASE InsertOrder(r)
  BY <1>1, <1>3, <1>4, <1>7 DEF InsertOrder
<1> QED
  BY <1>5, <1>6, <1>7

LEMMA CreateCarries ==
  ASSUME Sequential, NEW r \in Requests, NEW a \in Appts, a = req[r].a, Write(r),
         WriteCreate(r)
  PROVE  /\ appt'[a].status # "absent" /\ req[r].op \in Creates
         /\ \A p \in orders' : Carried(p, a)
<1> DEFINE w == req[r].row
<1>1. /\ req[r].op = "create" /\ req[r].pc # "idle" /\ appt'[a] = w
      /\ orders \subseteq WorkOrder
  BY WrittenRow, CreateEffect DEF Sequential, TypeOK
<1>2. appt'[a].status # "absent"
  BY <1>1, ConstantsAssumption DEF Sequential, ReadInv, HeldReq, HeldNew, Creates,
     ConstantsAssumption, Statuses
<1>3. ASSUME NEW p \in orders'
      PROVE  Carried(p, a)
  <2>1. PICK o \in orders :
             p = IF o.case # CaseOf[a] THEN o
                 ELSE [o EXCEPT !.planned = IF w.slot = NoSlot THEN @ ELSE w.slot,
                                !.supplier = w.supplier]
    BY <1>3 DEF WriteCreate
  <2> HIDE DEF w
  <2> QED
    BY <1>1, <2>1 DEF Carried, WorkOrder
<1> QED
  BY <1>1, <1>2, <1>3 DEF Creates

LEMMA CalendarCarries ==
  ASSUME Sequential, NEW r \in Requests, NEW a \in Appts, a = req[r].a, Write(r),
         WriteCalendarCreate(r)
  PROVE  \/ appt' = appt /\ orders' = orders
         \/ /\ appt'[a].status # "absent" /\ req[r].op \in Creates
            /\ \A p \in orders' : Carried(p, a)
<1> DEFINE was == case[CaseOf[req[r].a]].supplier
           full == [req[r].row EXCEPT !.supplier = @ \/ was]
           partner == req[r].op = "createPartner"
           asked == req[r].row.supplier
           image(o) == IF o.case # CaseOf[req[r].a] \/ (partner /\ ~o.supplier) THEN o
                       ELSE [o EXCEPT !.planned = full.slot, !.supplier = @ \/ asked]
<1>1. /\ req[r].op \in {"createPartner", "createCalendar"} /\ req[r].pc # "idle"
      /\ orders \subseteq WorkOrder /\ full.slot = req[r].row.slot
      /\ \/ appt' = appt /\ orders' = orders
         \/ Placed(r, a, req[r].row.slot)
  BY WrittenRow, CalendarEffect DEF Sequential, TypeOK, Request, ApptRow
<1>2. CASE Placed(r, a, req[r].row.slot) /\ ~(appt' = appt /\ orders' = orders)
  <2>1. appt'[a].slot = req[r].row.slot /\ appt'[a].status = req[r].row.status
    BY <1>2 DEF Placed
  <2>2. req[r].row.status # "absent" /\ req[r].op \in Creates
    BY <1>1, ConstantsAssumption DEF Sequential, ReadInv, HeldReq, HeldNew, Creates,
       ConstantsAssumption, Statuses
  <2>3. ASSUME NEW p \in orders'
        PROVE  Carried(p, a)
    <3>1. orders' = {image(o) : o \in orders}
      BY <1>2 DEF WriteCalendarCreate
    <3>2. PICK o \in orders : p = image(o)
      BY <2>3, <3>1
    <3> DEFINE to == o.supplier \/ asked
    <3>3. \/ p = o
          \/ o.case = CaseOf[a] /\ p = [o EXCEPT !.planned = full.slot, !.supplier = to]
      BY <3>2
    <3> HIDE DEF to, full
    <3> QED
      BY <1>1, <2>1, <3>3 DEF Carried, WorkOrder
  <2> QED
    BY <2>1, <2>2, <2>3
<1> QED
  BY <1>1, <1>2

LEMMA PatchPlans ==
  ASSUME Sequential, NEW r \in Requests, NEW a \in Appts, a = req[r].a, Write(r), WritePatch(r)
  PROVE  /\ appt'[a].status # "absent" /\ req[r].op \notin Creates
         /\ \/ orders' = Replan(CaseOf[a], appt'[a].slot)
            \/ appt'[a].slot = appt[a].slot /\ \A p \in orders' : Carried(p, a)
<1> DEFINE w == req[r].row
           op == req[r].op
           st == IF op = "patchStatus" THEN w.status ELSE appt[a].status
           sl == IF op = "patchSlot" THEN w.slot ELSE appt[a].slot
           sup == IF op = "patchSupplier" THEN w.supplier ELSE appt[a].supplier
           ov == IF op = "patchOverride" THEN w.override ELSE appt[a].override
           row == [appt[a] EXCEPT !.status = st, !.slot = sl, !.supplier = sup, !.override = ov]
<1>1. /\ op \in PatchOps /\ op \notin Creates /\ req[r].pc # "idle"
      /\ appt[a] \in ApptRow /\ orders \subseteq WorkOrder
      /\ appt' = [appt EXCEPT ![a] = row]
  BY WrittenRow DEF Sequential, TypeOK, WritePatch, CanWrite, PatchOps, Creates
<1>2. orders' = CASE op = "patchSlot" -> Replan(CaseOf[a], w.slot)
                  [] op = "patchSupplier" ->
                       {IF o.case = CaseOf[a] THEN [o EXCEPT !.supplier = w.supplier] ELSE o :
                          o \in orders}
                  [] OTHER -> orders
  BY DEF WritePatch
<1>3. appt'[a].status = st /\ appt'[a].slot = sl
  <2>1. row.status = st /\ row.slot = sl
    <3> HIDE DEF st, sl, sup, ov
    <3> QED
      BY <1>1 DEF ApptRow
  <2> HIDE DEF row
  <2> QED
    BY <1>1, <2>1 DEF Sequential, TypeOK
<1>4. st # "absent"
  BY <1>1, ConstantsAssumption DEF Sequential, ReadInv, HeldReq, Held, Exists,
     ConstantsAssumption, Statuses
<1> HIDE DEF w, op
<1>5. CASE op = "patchSlot"
  BY <1>1, <1>2, <1>3, <1>4, <1>5 DEF op
<1>6. CASE op = "patchSupplier"
  <2>1. orders' = {IF o.case = CaseOf[a] THEN [o EXCEPT !.supplier = w.supplier] ELSE o :
                     o \in orders}
    BY <1>2, <1>6
  <2>2. \A p \in orders' : Carried(p, a)
    BY <1>1, <2>1 DEF Carried, WorkOrder
  <2> QED
    BY <1>1, <1>3, <1>4, <1>6, <2>2 DEF op
<1>7. CASE op \notin {"patchSlot", "patchSupplier"}
  <2>1. orders' = orders
    BY <1>2, <1>7
  <2>2. \A p \in orders' : Carried(p, a)
    BY <2>1 DEF Carried
  <2> QED
    BY <1>1, <1>3, <1>4, <1>7, <2>2 DEF op
<1> QED
  BY <1>5, <1>6, <1>7

LEMMA PlannedStep ==
  Sequential /\ PlannedAtAppointment /\ [Next]_vars => PlannedAtAppointment'
<1> SUFFICES ASSUME Sequential, PlannedAtAppointment, [Next]_vars
             PROVE  PlannedAtAppointment'
  OBVIOUS
<1>1. CASE UNCHANGED <<appt, orders>>
  BY <1>1 DEF PlannedAtAppointment, Exists
<1>2. ASSUME NEW r \in Requests, ReadNew(r) \/ ReadRow(r)
      PROVE  PlannedAtAppointment'
  BY <1>1, <1>2, ReadNewShape, ReadRowShape DEF Begun
<1>3. ASSUME NEW r \in Requests, Write(r)
      PROVE  PlannedAtAppointment'
  <2>1. PICK a \in Appts : a = req[r].a
    BY <1>3, WrittenRow DEF Sequential
  <2>2. req[r].pc # "idle" /\ a # NoAppt /\ orders \subseteq WorkOrder
    BY <1>3, <2>1, WrittenRow, ConstantsAssumption DEF Sequential, TypeOK, ConstantsAssumption
  <2>3. req[r].op \notin Creates =>
          Exists(a) /\ \A b \in Appts \ {a} : appt'[b] = appt[b]
    <3> SUFFICES ASSUME req[r].op \notin Creates
                 PROVE  Exists(a) /\ \A b \in Appts \ {a} : appt'[b] = appt[b]
      OBVIOUS
    <3>1. req[r].second \notin Appts
      BY <2>2, ConstantsAssumption DEF Sequential, IdInv, ConstantsAssumption
    <3>2. Exists(a)
      BY <2>1, <2>2 DEF Sequential, ReadInv, HeldReq, Held
    <3> QED
      BY <1>3, <2>1, <3>1, <3>2, OtherRows DEF Sequential
  <2>4. ASSUME req[r].op \notin Creates, appt'[a].status # "absent",
               appt'[a].slot = appt[a].slot, \A p \in orders' : Carried(p, a)
        PROVE  PlannedAtAppointment'
    BY <2>3, <2>4, StaysPlanned DEF Exists
  <2>5. ASSUME req[r].op \notin Creates, appt'[a].status # "absent",
               orders' = Replan(CaseOf[a], appt'[a].slot)
        PROVE  PlannedAtAppointment'
    BY <2>2, <2>3, <2>5, ReplanMoves, MovesPlanned
  <2>6. ASSUME orders' = orders
        PROVE  \A p \in orders' : Carried(p, a)
    BY <2>6 DEF Carried
  <2>7. ASSUME req[r].op \in Creates, appt'[a].status # "absent",
               \A p \in orders' : Carried(p, a)
        PROVE  PlannedAtAppointment'
    <3>1. ASSUME NEW b \in Appts, Exists(b)
          PROVE  appt'[b] = appt[b]
      <4>1. b \notin {req[r].a, req[r].second}
        BY <2>2, <2>7, <3>1, ConstantsAssumption DEF Sequential, IdInv, ConstantsAssumption
      <4> QED
        BY <1>3, <4>1, OtherRows DEF Sequential
    <3> QED
      BY <2>7, <3>1, StaysPlanned DEF Exists
  <2>8. CASE WriteSignature(r) \/ ReuseOrder(r) \/ InsertOrder(r)
    <3>1. req[r].op \notin Creates
      BY <2>1, <2>8, SignEffect DEF Sequential, Creates
    <3> QED
      BY <1>3, <2>1, <2>4, <2>8, <3>1, SignCarries
  <2>9. CASE WritePeerSignature(r)
    <3>1. /\ req[r].op \notin Creates /\ appt'[a].slot = appt[a].slot
          /\ appt'[a].status # "absent" /\ orders' = orders
      BY <2>1, <2>9, PeerEffect DEF Sequential, Creates, WritePeerSignature
    <3> QED
      BY <2>4, <2>6, <3>1
  <2>10. CASE WriteDecline(r)
    <3>1. /\ req[r].op \notin Creates /\ appt'[a].slot = appt[a].slot
          /\ appt'[a].status # "absent" /\ orders' = orders
      BY <2>1, <2>10, DeclineEffect DEF Sequential, Creates
    <3> QED
      BY <2>4, <2>6, <3>1
  <2>11. CASE WriteRequestCancel(r)
    <3>1. /\ req[r].op \notin Creates /\ appt'[a].slot = appt[a].slot
          /\ appt'[a].status = appt[a].status /\ orders' = orders
      BY <2>1, <2>11, CancelEffect DEF Sequential, Creates
    <3> QED
      BY <2>3, <2>4, <2>6, <3>1 DEF Exists
  <2>12. CASE WriteProposal(r)
    <3>1. /\ req[r].op \in Proposals /\ req[r].op \notin Creates
          /\ appt'[a].slot = req[r].row.slot /\ appt'[a].status = req[r].row.status
          /\ orders' = Replan(CaseOf[a], req[r].row.slot)
      BY <2>1, <2>12, ProposalEffect DEF Sequential, Creates, Proposals
    <3>2. req[r].row.status # "absent"
      BY <2>2, <3>1 DEF Sequential, ReadInv, HeldReq, Held, ProposalHeld
    <3> QED
      BY <2>5, <3>1, <3>2
  <2>13. CASE WritePatch(r)
    BY <1>3, <2>1, <2>4, <2>5, <2>13, PatchPlans
  <2>14. CASE WriteCreate(r)
    BY <1>3, <2>1, <2>7, <2>14, CreateCarries
  <2>15. CASE WriteCalendarCreate(r)
    BY <1>1, <1>3, <2>1, <2>7, <2>15, CalendarCarries
  <2>16. CASE MissOrder(r) \/ TakeNumber(r) \/ NumberTaken(r)
    BY <1>1, <2>16 DEF MissOrder, Miss, TakeNumber, NumberTaken
  <2> QED
    BY <1>3, <2>8, <2>9, <2>10, <2>11, <2>12, <2>13, <2>14, <2>15, <2>16 DEF Write
<1> QED
  BY <1>1, <1>2, <1>3 DEF Next, vars

\* While no two requests in flight are about the same appointment, every work order is
\* planned at the slot of an appointment of the case, whichever endpoints move the slots:
\* the negotiation, the PATCHes and the calendar, with its later occurrences and its
\* partner creates.
THEOREM PlannedWhereAgreed ==
  Spec /\ []Apart => []PlannedAtAppointment
<1>1. Init => PlannedAtAppointment
  BY DEF Init, PlannedAtAppointment
<1> QED
  BY <1>1, SequentialStart, SequentialStep, PlannedStep, PTL DEF Spec
-----------------------------------------------------------------------------
(***************************************************************************)
(* Fleet first: the supplier is not asked before the other half of the     *)
(* fleet.  The stamp of a row that waits for a peer is of the party that   *)
(* named its slot, and a request that sends the row on is of the other.    *)
(***************************************************************************)
\* No status from outside puts a row before the peer.
PeerOnly == "pending_fleet_peer" \notin FleetStatuses

\* No PATCH in flight sends a row to the supplier.
NoneSentByPatch == \A r \in Requests :
    InFlight(r) /\ req[r].op = "patchStatus" => req[r].row.status # "pending_supplier"

\* What a request has read of the row it sends on.
PeerHeld(q) ==
    /\ q.op = "confirmPeer" => appt[q.a].counter = "driver" /\ q.row.slot # NoSlot
    /\ q.op = "acknowledgePeer" => appt[q.a].counter = "manager" /\ q.row.slot # NoSlot
    /\ q.op = "validate" => q.row.status \in {"scheduled", "confirmed"}
    /\ q.op \in {"proposeManager", "proposeDriver"} =>
         /\ q.row.slot # NoSlot
         /\ q.row.status = "pending_fleet_peer" => q.row.counter = Proposer(q.op)
         /\ FleetFirst /\ q.row.status = "pending_supplier" =>
              /\ appt[q.a].status = "pending_fleet_peer"
              /\ {appt[q.a].counter, Proposer(q.op)} = {"manager", "driver"}

PeerReadInv == \A r \in Requests : req[r].pc # "idle" => PeerHeld(req[r])

\* The party whose stamp a waiting row bears has named a slot.
Asked(row, named) == row.status = "pending_fleet_peer" =>
    row.counter \in {"manager", "driver"} /\ named[row.counter] # NoSlot

AskedInv == \A a \in Appts : Asked(appt[a], agreed[a])

LEMMA BeginRequest ==
  ASSUME NEW r, NEW op, NEW a \in Appts, NEW row, Begin(r, op, a, row)
  PROVE  \E new : Begun(r, new) /\ new.op = op /\ new.a = a /\ new.row = row
<1> DEFINE new == [Idle EXCEPT !.pc = "write", !.op = op, !.a = a, !.row = row]
<1>1. Begun(r, new) /\ new.op = op /\ new.a = a /\ new.row = row
  BY DEF Begin, Begun, Idle
<1> HIDE DEF new
<1> QED
  BY <1>1

\* A proposal reaches the supplier first when the row waits for the proposer.
LEMMA NextStatusPeer ==
  ASSUME NEW row, NEW by, FleetFirst, NextStatus(row, by) = "pending_supplier"
  PROVE  row.status = "pending_fleet_peer" /\ {row.counter, by} = {"manager", "driver"}
BY DEF NextStatus

LEMMA ReproposePeer ==
  ASSUME NEW r, NEW a \in Appts, NEW s \in Slots, NEW by \in {"manager", "driver"},
         ReadRepropose(r, a, s, by)
  PROVE  \E new : Begun(r, new) /\ PeerHeld(new)
<1> DEFINE next == NextStatus(appt[a], by)
           preAck == policy.negotiate /\ next = "scheduled"
           op == IF by = "manager" THEN "proposeManager" ELSE "proposeDriver"
           st == IF preAck /\ by = "manager" THEN "confirmed" ELSE next
           mgr == preAck /\ by = "manager"
           ack == preAck /\ by = "driver"
           counter == IF next = "scheduled" THEN "none" ELSE by
           w == [Blank EXCEPT !.slot = s, !.status = st, !.mgr = mgr, !.ack = ack,
                              !.counter = counter]
<1>1. Begin(r, op, a, w)
  BY DEF ReadRepropose
<1>2. w.slot = s /\ w.status = st /\ w.counter = counter
  <2> HIDE DEF mgr, ack, st, counter
  <2> QED
    BY DEF Blank
<1>3. op \in {"proposeManager", "proposeDriver"} /\ Proposer(op) = by /\ s # NoSlot
  BY ConstantsAssumption DEF Proposer, ConstantsAssumption
<1>4. /\ st = "pending_fleet_peer" => counter = by
      /\ FleetFirst /\ st = "pending_supplier" => next = "pending_supplier"
  OBVIOUS
<1>5. FleetFirst /\ st = "pending_supplier" =>
        /\ appt[a].status = "pending_fleet_peer"
        /\ {appt[a].counter, by} = {"manager", "driver"}
  BY <1>4, NextStatusPeer
<1> HIDE DEF w, mgr, ack, st, counter, op
<1>6. PICK new : Begun(r, new) /\ new.op = op /\ new.a = a /\ new.row = w
  BY <1>1, BeginRequest
<1>7. PeerHeld(new)
  BY <1>2, <1>3, <1>4, <1>5, <1>6 DEF PeerHeld
<1> QED
  BY <1>6, <1>7

LEMMA ValidatePeer ==
  ASSUME NEW r, NEW a \in Appts, NEW s \in OptSlot, ReadValidate(r, a, s)
  PROVE  \E new : Begun(r, new) /\ PeerHeld(new)
<1> DEFINE slot == IF s = NoSlot THEN appt[a].slot ELSE s
           preAck == IF policy.negotiate /\ s = NoSlot THEN appt[a].counter ELSE "none"
           st == IF preAck = "manager" THEN "confirmed" ELSE "scheduled"
           mgr == (preAck = "manager")
           ack == (preAck = "driver")
           counter == IF s = NoSlot THEN "none" ELSE "supplier"
           w == [Blank EXCEPT !.slot = slot, !.status = st, !.mgr = mgr, !.ack = ack,
                              !.counter = counter]
<1>1. Begin(r, "validate", a, w)
  BY DEF ReadValidate
<1>2. w.status = st
  <2> HIDE DEF mgr, ack, st, counter, slot
  <2> QED
    BY DEF Blank
<1>3. st \in {"scheduled", "confirmed"}
  OBVIOUS
<1> HIDE DEF w, st
<1>4. PICK new : Begun(r, new) /\ new.op = "validate" /\ new.a = a /\ new.row = w
  BY <1>1, BeginRequest
<1> QED
  BY <1>2, <1>3, <1>4 DEF PeerHeld

LEMMA SignPeer ==
  ASSUME NEW r, NEW a \in Appts, ReadConfirm(r, a) \/ ReadAcknowledge(r, a)
  PROVE  \E new : Begun(r, new) /\ PeerHeld(new)
<1>1. PICK op : /\ op \in Signs /\ Begin(r, op, a, Seen(a)) /\ appt[a].slot # NoSlot
                /\ op = "confirmPeer" => appt[a].counter = "driver"
                /\ op = "acknowledgePeer" => appt[a].counter = "manager"
  BY DEF ReadConfirm, ReadAcknowledge, Signs
<1>2. PICK new : Begun(r, new) /\ new.op = op /\ new.a = a /\ new.row = Seen(a)
  BY <1>1, BeginRequest
<1> QED
  BY <1>1, <1>2, SeenSlot DEF PeerHeld, Signs

LEMMA RowPeer ==
  ASSUME NEW r \in Requests, ReadRow(r)
  PROVE  \E new : Begun(r, new) /\ PeerHeld(new)
<1>1. ASSUME NEW op, NEW a \in Appts, NEW row, Begin(r, op, a, row),
             op \in PatchOps \cup {"decline", "requestCancel"}
      PROVE  \E new : Begun(r, new) /\ PeerHeld(new)
  <2>1. PICK new : Begun(r, new) /\ new.op = op
    BY <1>1, BeginRequest
  <2> QED
    BY <1>1, <2>1 DEF PeerHeld, PatchOps
<1>2. ASSUME NEW a \in Appts, ReadDecline(r, a) \/ ReadRequestCancel(r, a)
      PROVE  \E new : Begun(r, new) /\ PeerHeld(new)
  BY <1>1, <1>2 DEF ReadDecline, ReadRequestCancel
<1>3. ASSUME NEW a \in Appts, NEW x, NEW endpoint,
             \/ ReadPatchStatus(r, a, x)
             \/ ReadPatchSlot(r, a, x, endpoint)
             \/ ReadPatchSupplier(r, a, x, endpoint)
             \/ ReadPatchOverride(r, a, x)
      PROVE  \E new : Begun(r, new) /\ PeerHeld(new)
  <2>1. PICK op, row : op \in PatchOps /\ Begin(r, op, a, row)
    BY <1>3 DEF ReadPatchStatus, ReadPatchSlot, ReadPatchSupplier, ReadPatchOverride, PatchOps
  <2> QED
    BY <1>1, <2>1
<1> QED
  BY <1>2, <1>3, SignPeer, ReproposePeer, ValidatePeer DEF ReadRow

LEMMA PeerReadStep ==
  Apart /\ TypeOK /\ IdInv /\ PeerReadInv /\ [Next]_vars => PeerReadInv'
<1> SUFFICES ASSUME Apart, TypeOK, IdInv, PeerReadInv, [Next]_vars
             PROVE  PeerReadInv'
  OBVIOUS
<1>1. ASSUME policy' = policy, NEW q, appt'[q.a] = appt[q.a], PeerHeld(q)
      PROVE  PeerHeld(q)'
  BY <1>1 DEF PeerHeld, FleetFirst
<1>2. CASE UNCHANGED vars
  BY <1>1, <1>2 DEF vars, PeerReadInv
<1>3. ASSUME NEW r \in Requests, NEW new, Begun(r, new), PeerHeld(new)
      PROVE  PeerReadInv'
  <2>1. /\ req'[r] = new /\ UNCHANGED <<policy, appt>>
        /\ \A q \in Requests \ {r} : req'[q] = req[q]
    BY <1>3 DEF Begun, TypeOK
  <2>2. PeerHeld(new)'
    BY <1>1, <1>3, <2>1
  <2>3. \A q \in Requests \ {r} : req[q].pc # "idle" => PeerHeld(req[q])'
    BY <1>1, <2>1 DEF PeerReadInv
  <2> QED
    BY <2>1, <2>2, <2>3 DEF PeerReadInv
<1>4. ASSUME NEW r \in Requests, ReadNew(r)
      PROVE  PeerReadInv'
  <2>1. PICK new : Begun(r, new) /\ new.op \in Creates
    BY <1>4, ReadNewShape
  <2> QED
    BY <1>3, <1>4, <2>1 DEF PeerHeld, Creates
<1>5. ASSUME NEW r \in Requests, Write(r)
      PROVE  PeerReadInv'
  <2>1. ASSUME NEW q \in Requests \ {r}, req[q].pc # "idle"
        PROVE  PeerHeld(req[q])'
    BY <1>1, <1>5, <2>1, OthersStay DEF PeerReadInv, InFlight
  <2>2. ASSUME Continued(r), req[r].pc # "idle"
        PROVE  PeerHeld(req[r])'
    BY <2>2 DEF Continued, PeerReadInv, PeerHeld, FleetFirst
  <2>3. \A q \in Requests \ {r} : req'[q] = req[q]
    BY <1>5, WriteEnds
  <2> QED
    BY <1>5, <2>1, <2>2, <2>3, WriteEnds DEF PeerReadInv
<1> QED
  BY <1>2, <1>3, <1>4, <1>5, RowPeer DEF Next

\* What a PATCH leaves of the negotiation.
LEMMA PatchEffect ==
  ASSUME Sequential, NoneSentByPatch, NEW r \in Requests, NEW a \in Appts, a = req[r].a,
         WritePatch(r)
  PROVE  /\ req[r].op \in PatchOps
         /\ appt'[a].counter = appt[a].counter /\ agreed' = agreed
         /\ \/ appt'[a].status = appt[a].status
            \/ appt'[a].status \in FleetStatuses \ {"pending_supplier"}
<1>1. /\ req[r].op \in PatchOps /\ InFlight(r)
      /\ appt'[a].counter = appt[a].counter /\ agreed' = agreed
      /\ appt'[a].status = IF req[r].op = "patchStatus" THEN req[r].row.status
                                                       ELSE appt[a].status
  BY PatchedRow DEF Sequential
<1>2. req[r].op = "patchStatus" => req[r].row.status \in FleetStatuses \ {"pending_supplier"}
  BY <1>1 DEF Sequential, ReadInv, HeldReq, Held, InFlight, Creates, NoneSentByPatch
<1> QED
  BY <1>1, <1>2

\* A row after a write: it waits for a peer who can be told who asked, and it goes to the
\* supplier with two names on it.
SentOn(a) ==
    /\ Asked(appt'[a], agreed'[a])
    /\ FleetFirst /\ appt[a].status \notin {"absent", "pending_supplier"}
         /\ appt'[a].status = "pending_supplier" =>
           /\ appt[a].status = "pending_fleet_peer"
           /\ agreed'[a]["manager"] # NoSlot /\ agreed'[a]["driver"] # NoSlot

LEMMA PeerSendsOn ==
  ASSUME Sequential, PeerReadInv, AskedInv, NEW r \in Requests, NEW a \in Appts,
         a = req[r].a, Write(r), WritePeerSignature(r)
  PROVE  SentOn(a) /\ req[r].op \notin Creates
<1> DEFINE s == req[r].row.slot
<1>1. /\ req[r].op \in {"confirmPeer", "acknowledgePeer"} /\ req[r].pc # "idle"
      /\ agreed[a] \in Agreement
  BY WrittenRow, PeerEffect DEF Sequential
<1>2. appt[a].status = "pending_fleet_peer" /\ appt'[a].status = "pending_supplier"
  BY <1>1, PeerEffect DEF Sequential, ReadInv, HeldReq, Held, Creates, Signs, SignHeld
<1>3. agreed[a][appt[a].counter] # NoSlot
  BY <1>2 DEF AskedInv, Asked
<1>4. /\ req[r].op = "confirmPeer" => appt[a].counter = "driver" /\ s # NoSlot
      /\ req[r].op = "acknowledgePeer" => appt[a].counter = "manager" /\ s # NoSlot
  BY <1>1 DEF PeerReadInv, PeerHeld
<1>5. CASE req[r].op = "confirmPeer"
  <2>1. agreed'[a] = [agreed[a] EXCEPT !["manager"] = s]
    BY <1>5, PeerEffect DEF Sequential
  <2> HIDE DEF s
  <2>2. agreed'[a]["manager"] = s /\ agreed'[a]["driver"] = agreed[a]["driver"]
    BY <1>1, <2>1 DEF Agreement, Parties
  <2> QED
    BY <1>1, <1>2, <1>3, <1>4, <1>5, <2>2 DEF SentOn, Asked, Creates
<1>6. CASE req[r].op = "acknowledgePeer"
  <2>1. agreed'[a] = [agreed[a] EXCEPT !["driver"] = s]
    BY <1>6, PeerEffect DEF Sequential
  <2> HIDE DEF s
  <2>2. agreed'[a]["driver"] = s /\ agreed'[a]["manager"] = agreed[a]["manager"]
    BY <1>1, <2>1 DEF Agreement, Parties
  <2> QED
    BY <1>1, <1>2, <1>3, <1>4, <1>6, <2>2 DEF SentOn, Asked, Creates
<1> QED
  BY <1>1, <1>5, <1>6

LEMMA ProposalSendsOn ==
  ASSUME Sequential, PeerReadInv, AskedInv, NEW r \in Requests, NEW a \in Appts,
         a = req[r].a, Write(r), WriteProposal(r)
  PROVE  SentOn(a) /\ req[r].op \notin Creates
<1> DEFINE w == req[r].row
           op == req[r].op
<1>1. /\ op \in Proposals /\ req[r].pc # "idle" /\ agreed[a] \in Agreement
      /\ appt'[a].status = w.status /\ appt'[a].counter = w.counter
      /\ agreed'[a] = [agreed[a] EXCEPT ![Proposer(op)] = w.slot]
  BY WrittenRow, ProposalEffect DEF Sequential, Proposals
<1>2. PeerHeld(req[r])
  BY <1>1 DEF PeerReadInv
<1>3. /\ op = "validate" => w.status \in {"scheduled", "confirmed"}
      /\ op \in {"proposeManager", "proposeDriver"} =>
           /\ w.slot # NoSlot
           /\ w.status = "pending_fleet_peer" => w.counter = Proposer(op)
           /\ FleetFirst /\ w.status = "pending_supplier" =>
                /\ appt[a].status = "pending_fleet_peer"
                /\ {appt[a].counter, Proposer(op)} = {"manager", "driver"}
  BY <1>2 DEF PeerHeld
<1> HIDE DEF w, op
<1>4. op \notin Creates
  BY <1>1 DEF Proposals, Creates
<1>5. CASE op = "validate"
  BY <1>1, <1>3, <1>4, <1>5 DEF SentOn, Asked, op
<1>6. CASE op \in {"proposeManager", "proposeDriver"}
  <2>1. Proposer(op) \in {"manager", "driver"}
    BY <1>6 DEF Proposer
  <2>2. /\ agreed'[a][Proposer(op)] # NoSlot
        /\ \A p \in Parties \ {Proposer(op)} : agreed'[a][p] = agreed[a][p]
    BY <1>1, <1>3, <1>6, <2>1 DEF Agreement, Parties
  <2>3. Asked(appt'[a], agreed'[a])
    BY <1>1, <1>3, <1>6, <2>1, <2>2 DEF Asked
  <2>4. ASSUME FleetFirst, w.status = "pending_supplier"
        PROVE  /\ appt[a].status = "pending_fleet_peer"
               /\ agreed'[a]["manager"] # NoSlot /\ agreed'[a]["driver"] # NoSlot
    <3>1. /\ appt[a].status = "pending_fleet_peer"
          /\ {appt[a].counter, Proposer(op)} = {"manager", "driver"}
      BY <1>3, <1>6, <2>4
    <3>2. agreed[a][appt[a].counter] # NoSlot
      BY <3>1 DEF AskedInv, Asked
    <3> QED
      BY <2>1, <2>2, <3>1, <3>2 DEF Parties
  <2> QED
    BY <1>1, <1>4, <2>3, <2>4 DEF SentOn, op
<1> QED
  BY <1>1, <1>5, <1>6 DEF Proposals

\* The other writes on an existing row.
LEMMA RowSentOn ==
  ASSUME PeerOnly, NoneSentByPatch, Sequential, AskedInv, NEW r \in Requests,
         NEW a \in Appts, a = req[r].a, Write(r),
         \/ WriteSignature(r) \/ ReuseOrder(r) \/ InsertOrder(r)
         \/ WriteDecline(r) \/ WriteRequestCancel(r) \/ WritePatch(r)
  PROVE  SentOn(a) /\ req[r].op \notin Creates
<1>1. Asked(appt[a], agreed[a]) /\ req[r].pc # "idle"
  BY WrittenRow DEF AskedInv, Sequential
<1>2. CASE WriteSignature(r) \/ ReuseOrder(r) \/ InsertOrder(r)
  <2>1. /\ req[r].op \in {"confirm", "acknowledge"}
        /\ req[r].op = "confirm" => appt'[a].status = "confirmed"
        /\ req[r].op = "acknowledge" => appt'[a].status = appt[a].status
    BY <1>2, SignEffect DEF Sequential
  <2>2. appt[a].status \notin {"pending_fleet_peer", "pending_supplier"}
    BY <1>1, <2>1 DEF Sequential, ReadInv, HeldReq, Held, Creates, Signs, SignHeld
  <2> QED
    BY <2>1, <2>2 DEF SentOn, Asked, Creates
<1>3. CASE WriteDecline(r)
  BY <1>3, DeclineEffect DEF Sequential, SentOn, Asked, Creates
<1>4. CASE WriteRequestCancel(r)
  BY <1>1, <1>4, CancelEffect DEF Sequential, SentOn, Asked, Creates
<1>5. CASE WritePatch(r)
  <2>1. /\ req[r].op \in PatchOps
        /\ appt'[a].counter = appt[a].counter /\ agreed' = agreed
        /\ \/ appt'[a].status = appt[a].status
           \/ appt'[a].status \in FleetStatuses \ {"pending_supplier"}
    BY <1>5, PatchEffect
  <2> QED
    BY <1>1, <2>1 DEF SentOn, Asked, Creates, PatchOps, PeerOnly
<1> QED
  BY <1>2, <1>3, <1>4, <1>5

\* A create fills unused rows, and none of them waits for a peer.
LEMMA NewSentOn ==
  ASSUME PeerOnly, Sequential, AskedInv, NEW r \in Requests, Write(r),
         WriteCreate(r) \/ WriteCalendarCreate(r), NEW b \in Appts
  PROVE  SentOn(b)
<1>1. /\ req[r].op \in Creates /\ req[r].pc # "idle" /\ req[r].a \in Appts
      /\ Asked(appt[b], agreed[b])
  BY WrittenRow DEF WriteCreate, WriteCalendarCreate, CanWrite, Creates, AskedInv, Sequential
<1>2. req[r].row.status # "pending_fleet_peer"
  BY <1>1 DEF Sequential, ReadInv, HeldReq, HeldNew, PeerOnly
<1>3. CASE b \notin {req[r].a, req[r].second}
  BY <1>1, <1>3, OtherRows, OtherAgreements DEF Sequential, SentOn
<1>4. CASE b \in {req[r].a, req[r].second}
  <2>1. appt[b].status = "absent"
    BY <1>1, <1>4, ConstantsAssumption DEF Sequential, IdInv, Exists, ConstantsAssumption
  <2>2. CASE WriteCreate(r)
    <3>1. /\ appt'[req[r].a] = req[r].row
          /\ \A d \in Appts \ {req[r].a} : appt'[d] = appt[d]
      BY <1>1, <2>2, CreateEffect DEF Sequential
    <3>2. appt'[b].status # "pending_fleet_peer"
      BY <1>2, <2>1, <3>1
    <3> QED
      BY <2>1, <3>2 DEF SentOn, Asked
  <2>3. CASE WriteCalendarCreate(r)
    <3>1. \/ appt' = appt
          \/ /\ Placed(r, req[r].a, req[r].row.slot)
             /\ \A d \in Appts \ {req[r].a} : d = req[r].second => Placed(r, d, req[r].slot2)
      BY <1>1, <2>3, CalendarEffect DEF Sequential
    <3>2. appt'[b].status # "pending_fleet_peer"
      BY <1>2, <1>4, <2>1, <3>1 DEF Placed
    <3> QED
      BY <2>1, <3>2 DEF SentOn, Asked
  <2> QED
    BY <2>2, <2>3
<1> QED
  BY <1>3, <1>4

LEMMA SentOnStep ==
  ASSUME PeerOnly
  PROVE  NoneSentByPatch /\ Sequential /\ PeerReadInv /\ AskedInv /\ [Next]_vars
           => \A b \in Appts : SentOn(b)
<1> SUFFICES ASSUME NoneSentByPatch, Sequential, PeerReadInv, AskedInv, [Next]_vars,
                    NEW b \in Appts
             PROVE  SentOn(b)
  OBVIOUS
<1>1. CASE appt'[b] = appt[b] /\ agreed'[b] = agreed[b]
  BY <1>1 DEF SentOn, AskedInv
<1>2. ASSUME NEW r \in Requests, ReadNew(r) \/ ReadRow(r)
      PROVE  SentOn(b)
  BY <1>1, <1>2, ReadNewShape, ReadRowShape DEF Begun
<1>3. ASSUME NEW r \in Requests, Write(r)
      PROVE  SentOn(b)
  <2>1. PICK a \in Appts : a = req[r].a
    BY <1>3, WrittenRow DEF Sequential
  <2>2. ASSUME SentOn(a), req[r].op \notin Creates
        PROVE  SentOn(b)
    <3>1. req[r].second \notin Appts
      BY <1>3, <2>2, WrittenRow, ConstantsAssumption DEF Sequential, IdInv, ConstantsAssumption
    <3>2. CASE b = a
      BY <2>2, <3>2
    <3>3. CASE b # a
      BY <1>1, <1>3, <2>1, <3>1, <3>3, OtherRows, OtherAgreements DEF Sequential
    <3> QED
      BY <3>2, <3>3
  <2>3. CASE \/ WriteSignature(r) \/ ReuseOrder(r) \/ InsertOrder(r)
             \/ WriteDecline(r) \/ WriteRequestCancel(r) \/ WritePatch(r)
    BY <1>3, <2>1, <2>2, <2>3, RowSentOn
  <2>4. CASE WritePeerSignature(r)
    BY <1>3, <2>1, <2>2, <2>4, PeerSendsOn
  <2>5. CASE WriteProposal(r)
    BY <1>3, <2>1, <2>2, <2>5, ProposalSendsOn
  <2>6. CASE WriteCreate(r) \/ WriteCalendarCreate(r)
    BY <1>3, <2>6, NewSentOn
  <2>7. CASE MissOrder(r) \/ TakeNumber(r) \/ NumberTaken(r)
    BY <1>1, <2>7 DEF MissOrder, Miss, TakeNumber, NumberTaken
  <2> QED
    BY <1>3, <2>3, <2>4, <2>5, <2>6, <2>7 DEF Write
<1> QED
  BY <1>1, <1>2, <1>3 DEF Next, vars

LEMMA PeerStart == Init => PeerReadInv /\ AskedInv
<1> SUFFICES ASSUME Init
             PROVE  PeerReadInv /\ AskedInv
  OBVIOUS
<1>1. \A r \in Requests : req[r].pc = "idle"
  BY IdleTyped DEF Init
<1>2. \A a \in Appts : appt[a].status = "absent"
  BY DEF Init, Blank
<1> QED
  BY <1>1, <1>2 DEF PeerReadInv, AskedInv, Asked

\* While no two requests in flight are about the same appointment, in fleet-first mode no
\* appointment goes back to the supplier before the manager and the driver have both named
\* a slot: whichever signs or proposes last has read the other's stamp.  Creates and
\* PATCHes may not put a row before the peer, nor PATCHes before the supplier.
THEOREM PeerWasAsked ==
  ASSUME PeerOnly
  PROVE  Spec /\ []Apart /\ []NoneSentByPatch => PeerBeforeSupplier
<1> DEFINE Inv == Sequential /\ PeerReadInv /\ AskedInv
           Goes == \A a \in Appts :
                     /\ FleetFirst
                     /\ appt[a].status \notin {"absent", "pending_supplier"}
                     /\ appt'[a].status = "pending_supplier"
                     => /\ appt[a].status = "pending_fleet_peer"
                        /\ agreed'[a]["manager"] # NoSlot
                        /\ agreed'[a]["driver"] # NoSlot
<1>1. Init => Inv
  BY SequentialStart, PeerStart
<1>2. Apart /\ NoneSentByPatch /\ Inv /\ [Next]_vars => Inv'
  <2>1. NoneSentByPatch /\ Inv /\ [Next]_vars => AskedInv'
    BY SentOnStep DEF SentOn, AskedInv
  <2> QED
    BY <2>1, SequentialStep, PeerReadStep DEF Sequential
<1>3. NoneSentByPatch /\ Inv /\ [Next]_vars => [Goes]_vars
  BY SentOnStep DEF SentOn
<1> QED
  BY <1>1, <1>2, <1>3, PTL DEF Spec, PeerBeforeSupplier
=============================================================================
