--------------------------- MODULE VehicleOdometer ---------------------------
(***************************************************************************)
(* The kilometres of one vehicle: the readings in its history, the current *)
(* value stored beside them, and the parts of the system that write both.  *)
(*                                                                         *)
(*   api/src/ops/vehicle-odometer-timeline.ts       the valid chain        *)
(*   api/src/ops/vehicle-odometer-sync.service.ts   sync and reconcile     *)
(*   api/src/fleet/fleet.service.ts                 manual readings        *)
(*   api/src/crm/crm-tickets.service.ts             a ticket's kilometres  *)
(*   api/src/work-orders/work-orders.service.ts     a visit's kilometres   *)
(*                                                                         *)
(* A writer reads the vehicle and its readings, decides, and then writes   *)
(* the readings and the vehicle one statement at a time, in no transaction *)
(* (a work order's two writes are in one, made of what it read before).    *)
(*                                                                         *)
(* Abstractions: a record is a trip, cost or maintenance entry, whose      *)
(* reading bears its sourceRef; the other writers write at the present     *)
(* moment, the last of Times, and their readings are never replaced.       *)
(* Deleting a record leaves its reading, so it is no step.                 *)
(***************************************************************************)
EXTENDS Integers, FiniteSets

CONSTANTS
    MaxKm,      \* bound: odometer values
    MaxTime,    \* bound: moments; the last is the present
    Records,    \* operations records with an odometer value
    Writers     \* requests in flight

Kilometres == 0..MaxKm
Times == 1..MaxTime

ASSUME OdometerAssumption ==
    /\ MaxKm \in Nat \ {0} /\ MaxTime \in Nat \ {0}
    /\ "none" \notin Records

VARIABLES
    odometer,   \* Vehicle.odometerKm
    readings,   \* OdometerReading rows
    writer,     \* what each request in flight has decided
    alone,      \* history: no two requests in flight since there was none
    exact       \* history: the last writer left the timeline's value

odometerVars == <<odometer, readings, writer, alone, exact>>

Reading == [ref : Records \cup {"none"}, km : Kilometres, at : Times]
WriterKinds == {"sync", "manual", "ticket", "visit", "reconcile"}
Writer == [pc : {"idle", "delete", "create", "update"}, kind : WriterKinds \cup {"none"},
           entry : Reading, set : BOOLEAN, km : Kilometres, critical : BOOLEAN]
IdleWriter == [pc |-> "idle", kind |-> "none",
               entry |-> [ref |-> "none", km |-> 0, at |-> MaxTime],
               set |-> FALSE, km |-> 0, critical |-> FALSE]

OdometerTypeOK ==
    /\ odometer \in Kilometres
    /\ readings \subseteq Reading
    /\ writer \in [Writers -> Writer]
    /\ alone \in BOOLEAN /\ exact \in BOOLEAN

\* FleetService.create stores the first reading when it is given kilometres.
OdometerInit ==
    /\ odometer \in Kilometres
    /\ readings = IF odometer = 0 THEN {}
                  ELSE {[ref |-> "none", km |-> odometer, at |-> 1]}
    /\ writer = [w \in Writers |-> IdleWriter]
    /\ alone = TRUE /\ exact = TRUE
-----------------------------------------------------------------------------
(***************************************************************************)
(* The timeline.                                                           *)
(***************************************************************************)
\* sortReadingsAsc: by moment, then by kilometres.
Sooner(a, b) == a.at < b.at \/ (a.at = b.at /\ a.km < b.km)
Equal(a, b) == a.at = b.at /\ a.km = b.km

\* computeTrustedOdometerState: the last of the chain that starts with the first
\* reading and goes on to each one that is not below the last of the chain so far.
TrustedAt[S \in SUBSET Reading] ==
    LET last == CHOOSE r \in S : \A q \in S : ~Sooner(r, q)
        before == TrustedAt[{q \in S : Sooner(q, last)}]
    IN  IF \A r, q \in S : Equal(r, q) THEN last.km
        ELSE IF last.km >= before THEN last.km ELSE before
Trusted(S, stored) == IF S = {} THEN stored ELSE TrustedAt[S]

\* validateNewOdometerEntry: below the reading before it or above the one after it.
Critical(S, e) ==
    \/ \E p \in S : Sooner(p, e) /\ (\A q \in S : Sooner(q, e) => ~Sooner(p, q)) /\ e.km < p.km
    \/ \E n \in S : Sooner(e, n) /\ (\A q \in S : Sooner(e, q) => ~Sooner(q, n)) /\ e.km > n.km
-----------------------------------------------------------------------------
(***************************************************************************)
(* The writers.                                                            *)
(***************************************************************************)
Begin(w, next) ==
    /\ writer[w] = IdleWriter
    /\ writer' = [writer EXCEPT ![w] = next]
    /\ alone' = \A v \in Writers : writer[v] = IdleWriter
    /\ UNCHANGED <<odometer, readings, exact>>

\* The others, without the record's own old reading.
Others(e) == {r \in readings : e.ref = "none" \/ r.ref # e.ref}

Validated(kind, pc, e) ==
    LET new == Trusted(Others(e) \cup {e}, odometer)
        critical == Critical(Others(e), e)
    IN  [pc |-> pc, kind |-> kind, entry |-> e,
         set |-> ~critical /\ new # odometer,
         km |-> IF critical THEN odometer ELSE new, critical |-> critical]

\* syncFromOps, after a record is created or its kilometres are changed.
ReadSync(w, e) ==
    /\ e.ref # "none"
    /\ Begin(w, Validated("sync", "delete", e))

\* recordOdometerReading.
ReadManual(w, km) ==
    Begin(w, Validated("manual", "create", [ref |-> "none", km |-> km, at |-> MaxTime]))

\* syncTicketOdometer, PATCH of the service times and of a further visit: not below
\* the stored value; nothing else is looked at.
ReadAtLeast(w, kind, km) ==
    /\ km >= odometer
    /\ Begin(w, [pc |-> "create", kind |-> kind,
                 entry |-> [ref |-> "none", km |-> km, at |-> MaxTime],
                 set |-> TRUE, km |-> km, critical |-> FALSE])

\* The list of the readings, and the endpoint that is asked to, reconcile.
ReadReconcile(w) ==
    /\ readings # {} /\ Trusted(readings, odometer) # odometer
    /\ Begin(w, [IdleWriter EXCEPT !.pc = "update", !.kind = "reconcile", !.set = TRUE,
                                   !.km = Trusted(readings, odometer)])

\* A writer that ends leaves the timeline's value if it had the vehicle to itself and
\* took it from the timeline, or kept to it.
Finish(w) ==
    /\ writer' = [writer EXCEPT ![w] = IdleWriter]
    /\ exact' = /\ alone /\ ~writer[w].critical
                /\ writer[w].kind \in {"ticket", "visit"} => exact
    /\ UNCHANGED alone

Move(w, pc) == writer' = [writer EXCEPT ![w].pc = pc] /\ UNCHANGED <<alone, exact>>

DeleteOwn_Flaw(w) ==
    /\ writer[w].pc = "delete"
    /\ Move(w, "create")
    /\ UNCHANGED <<odometer, readings>>
DeleteOwn(w) ==
    /\ writer[w].pc = "delete"
    /\ readings' = Others(writer[w].entry)
    /\ Move(w, "create")
    /\ UNCHANGED odometer

CreateReading(w) ==
    /\ writer[w].pc = "create" /\ writer[w].kind # "visit"
    /\ readings' = readings \cup {writer[w].entry}
    /\ IF writer[w].set THEN Move(w, "update") ELSE Finish(w)
    /\ UNCHANGED odometer

UpdateVehicle(w) ==
    /\ writer[w].pc = "update"
    /\ odometer' = writer[w].km
    /\ Finish(w)
    /\ UNCHANGED readings

\* A work order writes both in one transaction.
WriteVisit(w) ==
    /\ writer[w].kind = "visit"
    /\ readings' = readings \cup {writer[w].entry}
    /\ odometer' = writer[w].km
    /\ Finish(w)

\* The process stops, or a statement fails, between two writes.
FailWriter(w) ==
    /\ writer[w] # IdleWriter
    /\ writer' = [writer EXCEPT ![w] = IdleWriter]
    /\ exact' = FALSE
    /\ UNCHANGED <<odometer, readings, alone>>

OdometerNext ==
    \E w \in Writers :
        \/ \E e \in Reading : ReadSync(w, e)
        \/ \E km \in Kilometres :
             ReadManual(w, km) \/ ReadAtLeast(w, "ticket", km) \/ ReadAtLeast(w, "visit", km)
        \/ ReadReconcile(w)
        \/ DeleteOwn(w) \/ CreateReading(w) \/ UpdateVehicle(w) \/ WriteVisit(w)
        \/ FailWriter(w)

OdometerSpec == OdometerInit /\ [][OdometerNext]_odometerVars
-----------------------------------------------------------------------------
\* Between requests the stored value is the highest of the readings, the timeline's
\* value, whichever parts of the system wrote it and although tickets and visits do
\* not look at the readings: until two writers overlap, one stops half way, or one
\* records a value that the timeline rejects; and it is again once a writer that
\* consults the timeline, or a reconciliation, has had the vehicle to itself.
OdometerIsTimeline ==
    exact /\ (\A w \in Writers : writer[w] = IdleWriter) /\ readings # {}
        => /\ \E r \in readings : r.km = odometer
           /\ \A r \in readings : r.km =< odometer
=============================================================================
