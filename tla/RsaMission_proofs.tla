-------------------------- MODULE RsaMission_proofs --------------------------
(***************************************************************************)
(* Proofs about RsaMission, for every set of interventions, cost entries,  *)
(* distances, signers and concurrent requests.                             *)
(***************************************************************************)
EXTENDS RsaMission, FiniteSetTheorems, TLAPS

-----------------------------------------------------------------------------
(***************************************************************************)
(* Type correctness.  TypeOK is not inductive: what a request will write   *)
(* depends on its operation.                                               *)
(***************************************************************************)
Typed(q) ==
    /\ q.op = "patchIntervention" => q.to \in InterventionStatuses
    /\ q.op = "createMission" => q.to \in {"dispatched", "keep"}
    /\ q.op = "patchMission" => q.to \in MissionStatuses \cup {"keep"}
    /\ q.op = "patchMission" /\ q.pc = "held" => q.to \in DOMAIN Synced
    /\ q.op = "dispatch" => q.to = "dispatched"
    /\ q.op = "settle" => q.km \in Kms

TypeInv == TypeOK /\ \A r \in Requests : Typed(req[r])

LEMMA StatusSets ==
  /\ MissionStatuses = {"assigned", "en_route", "on_scene", "picked_up", "in_transit",
                        "delivered", "closed", "cancelled"}
  /\ DOMAIN Synced = {"en_route", "on_scene", "delivered", "closed", "cancelled"}
  /\ \A s \in DOMAIN Synced : Synced[s] \in InterventionStatuses
BY DEF MissionStatuses, Edges, Synced, InterventionStatuses

LEMMA IdleTyped == Idle \in Request /\ Typed(Idle) /\ Idle.pc = "idle"
BY ConstantsAssumption DEF Idle, Request, Typed, OptKm, Kinds, Ops

LEMMA AskedTyped ==
  ASSUME NEW op \in Ops, NEW i \in Interventions
  PROVE  /\ Asked(op, i) \in Request
         /\ Asked(op, i).op = op
         /\ Asked(op, i).i = i
         /\ Asked(op, i).pc = "write"
         /\ Asked(op, i).to = "keep"
<1>1. Asked(op, i) \in Request
  BY IdleTyped DEF Asked, Request
<1> QED
  BY <1>1 DEF Asked, Idle

LEMMA BeginTyped ==
  ASSUME TypeInv, NEW r \in Requests, NEW new \in Request, new.pc = "write",
         new.i \in Interventions, Typed(new), Begin(r, new)
  PROVE  TypeInv'
<1>1. req' = [req EXCEPT ![r] = new]
  BY DEF Begin
<1>2. req' \in [Requests -> Request]
  BY <1>1 DEF TypeInv, TypeOK
<1>3. \A q \in Requests : req'[q].pc # "idle" => req'[q].i \in Interventions
  BY <1>1 DEF TypeInv, TypeOK
<1>4. \A q \in Requests : Typed(req'[q])
  BY <1>1 DEF TypeInv, TypeOK
<1>5. overlap' \in BOOLEAN
  BY DEF Begin, Overlaps
<1> QED
  BY <1>2, <1>3, <1>4, <1>5 DEF TypeInv, TypeOK, Begin, rows, Typed

LEMMA ReadTyped ==
  ASSUME TypeInv, NEW r \in Requests, Read(r)
  PROVE  TypeInv'
<1> PICK i \in Interventions :
      \/ \E to \in InterventionStatuses : ReadPatchIntervention(r, i, to)
      \/ ReadCreateMission(r, i)
      \/ \E to \in MissionStatuses, setKm \in BOOLEAN, km \in OptKm :
            (~setKm => km = NoKm) /\ ReadPatchMission(r, i, to, setKm, km)
      \/ \E km \in OptKm : ReadSettle(r, i, km)
      \/ \E k \in Kinds, s \in Signers : ReadSign(r, i, k, s)
      \/ ReadDispatch(r, i)
  BY DEF Read
<1>1. CASE \E to \in InterventionStatuses : ReadPatchIntervention(r, i, to)
  <2> PICK to \in InterventionStatuses : BeginPatch(r, i, to)
    BY <1>1 DEF ReadPatchIntervention
  <2> DEFINE delta == Owed(intervention[i].status, to, intervention[i].counts)
             changes == to # intervention[i].status
             new == [Asked("patchIntervention", i) EXCEPT
                       !.to = to, !.delta = delta, !.changes = changes]
  <2>1. delta \in {-1, 0, 1} /\ changes \in BOOLEAN
    BY DEF Owed
  <2>2. Begin(r, new)
    BY DEF BeginPatch
  <2> HIDE DEF delta, changes
  <2>3. new \in Request /\ new.pc = "write" /\ new.i = i /\ Typed(new)
    <3> DEFINE asked == Asked("patchIntervention", i)
    <3>1. /\ asked \in Request /\ asked.op = "patchIntervention"
          /\ asked.i = i /\ asked.pc = "write"
      BY AskedTyped DEF Ops
    <3> HIDE DEF asked
    <3>2. new = [asked EXCEPT !.to = to, !.delta = delta, !.changes = changes]
      BY DEF asked
    <3>3. new \in Request
      BY <2>1, <3>1, <3>2 DEF Request
    <3>4. new.op = asked.op /\ new.pc = "write" /\ new.i = i
      BY <3>1, <3>2 DEF Request
    <3> QED
      BY <2>1, <3>1, <3>2, <3>3, <3>4 DEF Request, Typed
  <2> HIDE DEF new
  <2> QED
    BY <2>2, <2>3, BeginTyped
<1>2. CASE ReadCreateMission(r, i)
  <2> DEFINE to == IF intervention[i].status \in Waiting THEN "dispatched" ELSE "keep"
             new == [Asked("createMission", i) EXCEPT !.to = to]
  <2>1. to \in {"dispatched", "keep"}
    OBVIOUS
  <2>2. Begin(r, new)
    BY <1>2 DEF ReadCreateMission
  <2> HIDE DEF to
  <2>3. new \in Request /\ new.pc = "write" /\ new.i = i /\ Typed(new)
    <3> DEFINE asked == Asked("createMission", i)
    <3>1. /\ asked \in Request /\ asked.op = "createMission"
          /\ asked.i = i /\ asked.pc = "write"
      BY AskedTyped DEF Ops
    <3>2. to \in InterventionStatuses \cup MissionStatuses \cup {"keep"}
      BY <2>1 DEF InterventionStatuses
    <3> HIDE DEF asked
    <3>3. new = [asked EXCEPT !.to = to]
      BY DEF asked
    <3>4. new.op = asked.op /\ new.pc = "write" /\ new.i = i
      BY <3>1, <3>3 DEF Request
    <3> QED
      BY <2>1, <3>1, <3>2, <3>3, <3>4 DEF Request, Typed
  <2> HIDE DEF new
  <2> QED
    BY <2>2, <2>3, BeginTyped
<1>3. CASE \E to \in MissionStatuses, setKm \in BOOLEAN, km \in OptKm :
             ReadPatchMission(r, i, to, setKm, km)
  <2> PICK to \in MissionStatuses, setKm \in BOOLEAN, km \in OptKm :
        ReadPatchMission(r, i, to, setKm, km)
    BY <1>3
  <2> DEFINE next == IF to = mission[i].status THEN "keep" ELSE to
             new == [Asked("patchMission", i) EXCEPT !.to = next, !.setKm = setKm,
                                                     !.km = km]
  <2>1. next \in MissionStatuses \cup {"keep"}
    OBVIOUS
  <2>2. Begin(r, new)
    BY DEF ReadPatchMission
  <2> HIDE DEF next
  <2>3. new \in Request /\ new.pc = "write" /\ new.i = i /\ Typed(new)
    <3> DEFINE asked == Asked("patchMission", i)
    <3>1. /\ asked \in Request /\ asked.op = "patchMission"
          /\ asked.i = i /\ asked.pc = "write"
      BY AskedTyped DEF Ops
    <3> HIDE DEF asked
    <3>2. new = [asked EXCEPT !.to = next, !.setKm = setKm, !.km = km]
      BY DEF asked
    <3>3. new \in Request
      BY <2>1, <3>1, <3>2 DEF Request
    <3>4. new.op = asked.op /\ new.pc = "write" /\ new.i = i
      BY <3>1, <3>2 DEF Request
    <3> QED
      BY <2>1, <3>1, <3>2, <3>3, <3>4 DEF Request, Typed
  <2> HIDE DEF new
  <2> QED
    BY <2>2, <2>3, BeginTyped
<1>4. CASE \E km \in OptKm : ReadSettle(r, i, km)
  <2> PICK km \in OptKm : ReadSettle(r, i, km)
    BY <1>4
  <2> DEFINE distance == IF km = NoKm THEN mission[i].km ELSE km
             new == [Asked("settle", i) EXCEPT !.km = distance]
  <2>1. distance \in Kms
    BY DEF ReadSettle, TypeInv, TypeOK, MissionRow, OptKm
  <2>2. Begin(r, new)
    BY DEF ReadSettle
  <2> HIDE DEF distance
  <2>3. new \in Request /\ new.pc = "write" /\ new.i = i /\ Typed(new)
    <3> DEFINE asked == Asked("settle", i)
    <3>1. asked \in Request /\ asked.op = "settle" /\ asked.i = i /\ asked.pc = "write"
      BY AskedTyped DEF Ops
    <3>2. distance \in OptKm
      BY <2>1 DEF OptKm
    <3> HIDE DEF asked
    <3>3. new = [asked EXCEPT !.km = distance]
      BY DEF asked
    <3>4. new.op = asked.op /\ new.pc = "write" /\ new.i = i
      BY <3>1, <3>3 DEF Request
    <3> QED
      BY <2>1, <3>1, <3>2, <3>3, <3>4 DEF Request, Typed
  <2> HIDE DEF new
  <2> QED
    BY <2>2, <2>3, BeginTyped
<1>5. CASE \E k \in Kinds, s \in Signers : ReadSign(r, i, k, s)
  <2> PICK k \in Kinds, s \in Signers : ReadSign(r, i, k, s)
    BY <1>5
  <2> DEFINE new == [Asked("sign", i) EXCEPT !.kind = k, !.signer = s]
  <2>1. Begin(r, new)
    BY DEF ReadSign
  <2>2. new \in Request /\ new.pc = "write" /\ new.i = i /\ Typed(new)
    <3> DEFINE asked == Asked("sign", i)
    <3>1. asked \in Request /\ asked.op = "sign" /\ asked.i = i /\ asked.pc = "write"
      BY AskedTyped DEF Ops
    <3> HIDE DEF asked
    <3>2. new = [asked EXCEPT !.kind = k, !.signer = s]
      BY DEF asked
    <3> QED
      BY <3>1, <3>2 DEF Request, Typed
  <2> HIDE DEF new
  <2> QED
    BY <2>1, <2>2, BeginTyped
<1>6. CASE ReadDispatch(r, i)
  <2> DEFINE new == [Asked("dispatch", i) EXCEPT !.to = "dispatched"]
  <2>1. Begin(r, new)
    BY <1>6 DEF ReadDispatch
  <2>2. new \in Request /\ new.pc = "write" /\ new.i = i /\ Typed(new)
    BY AskedTyped DEF Ops, Request, Typed, InterventionStatuses
  <2> HIDE DEF new
  <2> QED
    BY <2>1, <2>2, BeginTyped
<1> QED
  BY <1>1, <1>2, <1>3, <1>4, <1>5, <1>6

\* A request that ends leaves a well-typed request table.
LEMMA DoneTyped ==
  ASSUME TypeInv, NEW r \in Requests, Done(r)
  PROVE  /\ req' \in [Requests -> Request]
         /\ \A q \in Requests : req'[q].pc # "idle" => req'[q].i \in Interventions
         /\ \A q \in Requests : Typed(req'[q])
         /\ overlap' \in BOOLEAN
BY IdleTyped DEF TypeInv, TypeOK, Done

\* What a request that is one step leaves of the request table.
LEMMA WholeTyped ==
  ASSUME TypeInv, Whole
  PROVE  /\ req' \in [Requests -> Request]
         /\ \A q \in Requests : req'[q].pc # "idle" => req'[q].i \in Interventions
         /\ \A q \in Requests : Typed(req'[q])
         /\ overlap' \in BOOLEAN
BY DEF TypeInv, TypeOK, Whole, Overlaps

\* A status written to an intervention is one of an intervention.
LEMMA StatusTyped ==
  ASSUME TypeInv, NEW i \in Interventions, NEW to \in InterventionStatuses
  PROVE  [intervention EXCEPT ![i].status = to] \in [Interventions -> InterventionRow]
BY DEF TypeInv, TypeOK, InterventionRow

LEMMA PatchedTyped ==
  ASSUME TypeInv, NEW r \in Requests, req[r].pc # "idle", req[r].op = "patchMission"
  PROVE  Patched(r) \in [Interventions -> MissionRow]
<1> DEFINE i == req[r].i
           status == IF req[r].to = "keep" THEN mission[i].status ELSE req[r].to
           km == IF req[r].setKm THEN req[r].km ELSE mission[i].km
<1>1. i \in Interventions /\ mission[i] \in MissionRow /\ req[r] \in Request
  BY DEF TypeInv, TypeOK
<1>2. req[r].to \in MissionStatuses \cup {"keep"}
  BY DEF TypeInv, Typed
<1>3. status \in MissionStatuses \cup {"absent"} /\ km \in OptKm
  BY <1>1, <1>2 DEF MissionRow, Request
<1>4. Patched(r) = [mission EXCEPT ![i] = [@ EXCEPT !.status = status, !.km = km]]
  BY DEF Patched
<1> HIDE DEF status, km
<1> QED
  BY <1>1, <1>3, <1>4 DEF TypeInv, TypeOK, MissionRow

LEMMA WriteTyped ==
  ASSUME TypeInv, NEW r \in Requests, Write(r)
  PROVE  TypeInv'
<1>1. CASE WriteIntervention(r)
  <2>1. req[r].i \in Interventions /\ req[r].to \in InterventionStatuses
    BY <1>1 DEF WriteIntervention, CanWrite, TypeInv, TypeOK, Typed
  <2>2. intervention' \in [Interventions -> InterventionRow]
    BY <1>1, <2>1, StatusTyped DEF WriteIntervention
  <2>3. req[r].delta \in {0, 1} /\ used \in Nat
    BY <1>1 DEF WriteIntervention, TypeInv, TypeOK, Request
  <2>4. used' \in Nat
    BY <1>1, <2>3 DEF WriteIntervention
  <2> QED
    BY <1>1, <2>2, <2>4, DoneTyped DEF WriteIntervention, TypeInv, TypeOK, Typed
<1>2. CASE HoldIntervention(r)
  <2> DEFINE count == IF req[r].delta = -1 THEN used ELSE 0
  <2>1. count \in Nat /\ req[r] \in Request /\ req[r].op = "patchIntervention"
    BY <1>2 DEF HoldIntervention, CanWrite, TypeInv, TypeOK
  <2>2. req' = [req EXCEPT ![r].pc = "held", ![r].count = count]
    BY <1>2 DEF HoldIntervention
  <2> HIDE DEF count
  <2>3. req' \in [Requests -> Request]
    BY <2>1, <2>2 DEF TypeInv, TypeOK, Request
  <2>4. \A q \in Requests : req'[q].pc # "idle" => req'[q].i \in Interventions
    BY <1>2, <2>1, <2>2 DEF TypeInv, TypeOK, Request, HoldIntervention, CanWrite
  <2>5. \A q \in Requests : Typed(req'[q])
    BY <2>1, <2>2 DEF TypeInv, TypeOK, Request, Typed
  <2> QED
    BY <1>2, <2>3, <2>4, <2>5 DEF HoldIntervention, rows, TypeInv, TypeOK
<1>3. CASE CommitIntervention(r)
  <2> DEFINE i == req[r].i
  <2>1. /\ i \in Interventions /\ req[r].to \in InterventionStatuses
        /\ req[r].count \in Nat /\ req[r].delta \in {-1, 0, 1}
    BY <1>3 DEF CommitIntervention, HoldsIntervention, TypeInv, TypeOK, Typed, Request
  <2>2. intervention' \in [Interventions -> InterventionRow]
    BY <1>3, <2>1, StatusTyped DEF CommitIntervention
  <2>3. used' \in Nat
    <3>1. used \in Nat /\ used' = Adjusted(r)
      BY <1>3 DEF CommitIntervention, TypeInv, TypeOK
    <3> QED
      BY <2>1, <3>1 DEF Adjusted
  <2>4. mission' \in [Interventions -> MissionRow]
    <3>1. mission \in [Interventions -> MissionRow] /\ "cancelled" \in MissionStatuses
      BY StatusSets DEF TypeInv, TypeOK
    <3>2. \/ mission' = mission
          \/ mission' = [mission EXCEPT ![i].status = "cancelled"]
      BY <1>3 DEF CommitIntervention
    <3> HIDE DEF i
    <3> QED
      BY <2>1, <3>1, <3>2 DEF MissionRow
  <2> QED
    BY <1>3, <2>2, <2>3, <2>4, DoneTyped DEF CommitIntervention, TypeInv, TypeOK, Typed
<1>4. CASE WriteCreateMission(r)
  <2> DEFINE i == req[r].i
  <2>1. i \in Interventions /\ req[r].to \in {"dispatched", "keep"}
    BY <1>4 DEF WriteCreateMission, CanWrite, TypeInv, TypeOK, Typed
  <2>2. [NoMission EXCEPT !.status = "assigned"] \in MissionRow
    BY StatusSets DEF NoMission, MissionRow, OptKm
  <2>3. mission' \in [Interventions -> MissionRow]
    BY <1>4, <2>1, <2>2 DEF WriteCreateMission, TypeInv, TypeOK
  <2>4. intervention' \in [Interventions -> InterventionRow]
    BY SMTT(30), <1>4, <2>1 DEF WriteCreateMission, TypeInv, TypeOK, InterventionRow,
       InterventionStatuses
  <2> QED
    BY <1>4, <2>3, <2>4, DoneTyped DEF WriteCreateMission, TypeInv, TypeOK, Typed
<1>5. CASE WriteMission(r)
  BY <1>5, PatchedTyped, DoneTyped DEF WriteMission, CanWrite, TypeInv, TypeOK, Typed
<1>6. CASE HoldMission(r)
  <2> DEFINE gone == intervention[req[r].i].status = "cancelled"
  <2>1. /\ gone \in BOOLEAN /\ req[r] \in Request /\ req[r].op = "patchMission"
        /\ req[r].to \in DOMAIN Synced /\ req[r].pc = "write"
    BY <1>6 DEF HoldMission, CanWrite, TypeInv, TypeOK
  <2>2. req' = [req EXCEPT ![r].pc = "held", ![r].gone = gone]
    BY <1>6 DEF HoldMission
  <2> HIDE DEF gone
  <2>3. req' \in [Requests -> Request]
    BY <2>1, <2>2 DEF TypeInv, TypeOK, Request
  <2>4. \A q \in Requests : req'[q].pc # "idle" => req'[q].i \in Interventions
    BY <2>1, <2>2 DEF TypeInv, TypeOK, Request
  <2>5. \A q \in Requests : Typed(req'[q])
    BY <2>1, <2>2 DEF TypeInv, TypeOK, Request, Typed
  <2> QED
    BY <1>6, <2>3, <2>4, <2>5 DEF HoldMission, rows, TypeInv, TypeOK
<1>7. CASE CommitMission(r)
  <2> DEFINE i == req[r].i
  <2>1. /\ i \in Interventions /\ req[r].op = "patchMission" /\ req[r].pc = "held"
        /\ req[r].to \in DOMAIN Synced
    BY <1>7 DEF CommitMission, HoldsMission, TypeInv, TypeOK, Typed
  <2>2. Synced[req[r].to] \in InterventionStatuses
    BY <2>1, StatusSets
  <2>3. mission' \in [Interventions -> MissionRow]
    BY <1>7, <2>1, PatchedTyped DEF CommitMission
  <2>4. intervention' \in [Interventions -> InterventionRow]
    BY <1>7, <2>1, <2>2, StatusTyped DEF CommitMission, TypeInv, TypeOK
  <2> QED
    BY <1>7, <2>3, <2>4, DoneTyped DEF CommitMission, TypeInv, TypeOK, Typed
<1>8. CASE Abort(r) \/ SettledAlready(r)
  BY <1>8, DoneTyped DEF Abort, SettledAlready, rows, TypeInv, TypeOK, Typed
<1>9. CASE WriteSettle(r)
  <2> DEFINE i == req[r].i
  <2> PICK c \in CostIds :
        /\ costs' = costs \cup {[id |-> c, of |-> i, km |-> req[r].km]}
        /\ mission' = [mission EXCEPT ![i] =
             [@ EXCEPT !.km = req[r].km, !.cost = c,
                       !.status = IF mission[i].status = "delivered" THEN "closed"
                                                                     ELSE mission[i].status]]
    BY <1>9 DEF WriteSettle, Settle
  <2>1. i \in Interventions /\ req[r].km \in Kms
    BY <1>9 DEF WriteSettle, CanWrite, TypeInv, TypeOK, Typed
  <2>2. costs' \subseteq CostEntry
    BY <2>1 DEF TypeInv, TypeOK, CostEntry
  <2>3. mission' \in [Interventions -> MissionRow]
    <3> DEFINE status == IF mission[i].status = "delivered" THEN "closed"
                                                           ELSE mission[i].status
               km == req[r].km
    <3>1. mission \in [Interventions -> MissionRow] /\ "closed" \in MissionStatuses
      BY StatusSets DEF TypeInv, TypeOK
    <3>2. status \in MissionStatuses \cup {"absent"} /\ km \in OptKm
      BY <2>1, <3>1 DEF MissionRow, OptKm
    <3>3. mission' = [mission EXCEPT ![i] = [@ EXCEPT !.km = km, !.cost = c,
                                                     !.status = status]]
      OBVIOUS
    <3> HIDE DEF i, status, km
    <3> QED
      BY ZenonT(30), <2>1, <3>1, <3>2, <3>3 DEF MissionRow
  <2> QED
    BY <1>9, <2>2, <2>3, DoneTyped DEF WriteSettle, Settle, TypeInv, TypeOK, Typed
<1>10. CASE WriteSign(r)
  <2>1. req[r].i \in Interventions /\ req[r].kind \in Kinds /\ req[r].signer \in Signers
    BY <1>10 DEF WriteSign, CanWrite, TypeInv, TypeOK, Request
  <2>2. protocol' \in [Interventions -> [Kinds -> ProtocolRow]]
    <3> PICK i \in Interventions, k \in Kinds, s \in Signers :
          i = req[r].i /\ k = req[r].kind /\ s = req[r].signer
      BY <2>1
    <3> DEFINE row == [protocol[i][k] EXCEPT !.signers = @ \cup {s}]
    <3>1. protocol \in [Interventions -> [Kinds -> ProtocolRow]]
      BY DEF TypeInv, TypeOK
    <3>2. protocol[i][k] \in ProtocolRow /\ protocol[i][k].signers \cup {s} \subseteq Signers
      BY <3>1 DEF ProtocolRow
    <3>3. row \in ProtocolRow
      BY <3>2 DEF ProtocolRow
    <3>4. protocol' = [protocol EXCEPT ![i][k] = row]
      BY <1>10 DEF WriteSign
    <3> HIDE DEF row
    <3> QED
      BY <3>1, <3>3, <3>4
  <2> QED
    BY <1>10, <2>2, DoneTyped DEF WriteSign, TypeInv, TypeOK, Typed
<1>11. CASE WriteDispatch(r)
  <2>1. req[r].i \in Interventions /\ req[r].to \in InterventionStatuses
    BY <1>11 DEF WriteDispatch, CanWrite, TypeInv, TypeOK, Typed, InterventionStatuses
  <2>2. intervention' \in [Interventions -> InterventionRow]
    BY <1>11, <2>1, StatusTyped DEF WriteDispatch
  <2> QED
    BY <1>11, <2>2, DoneTyped DEF WriteDispatch, TypeInv, TypeOK, Typed
<1> QED
  BY <1>1, <1>2, <1>3, <1>4, <1>5, <1>6, <1>7, <1>8, <1>9, <1>10, <1>11 DEF Write

\* The other endpoints: one step each.
LEMMA WholeStepTyped ==
  ASSUME TypeInv,
         \/ \E i \in Interventions, status \in InterventionStatuses, counts \in Covered :
               CreateIntervention(i, status, counts)
         \/ \E i \in Interventions, k \in Kinds :
               GetOrCreateProtocol(i, k) \/ AddMedia(i, k) \/ Finalize(i, k)
         \/ \E i \in Interventions, to \in Reported : Webhook(i, to)
         \/ \E c \in costs : DeleteCost(c)
  PROVE  TypeInv'
<1>1. CASE \E i \in Interventions, status \in InterventionStatuses, counts \in Covered :
             CreateIntervention(i, status, counts)
  <2> PICK i \in Interventions, status \in InterventionStatuses, counts \in Covered :
        CreateIntervention(i, status, counts)
    BY <1>1
  <2>1. intervention' \in [Interventions -> InterventionRow]
    BY ConstantsAssumption DEF CreateIntervention, TypeInv, TypeOK, InterventionRow
  <2>2. used' \in Nat
    BY DEF CreateIntervention, TypeInv, TypeOK
  <2> QED
    BY <2>1, <2>2, WholeTyped DEF CreateIntervention, TypeInv, TypeOK, Typed
<1>2. CASE \E i \in Interventions, k \in Kinds :
             GetOrCreateProtocol(i, k) \/ AddMedia(i, k) \/ Finalize(i, k)
  <2> PICK i \in Interventions, k \in Kinds :
        GetOrCreateProtocol(i, k) \/ AddMedia(i, k) \/ Finalize(i, k)
    BY <1>2
  <2>1. protocol \in [Interventions -> [Kinds -> ProtocolRow]] /\ protocol[i][k] \in ProtocolRow
    BY DEF TypeInv, TypeOK
  <2>2. PICK row \in ProtocolRow : protocol' = [protocol EXCEPT ![i][k] = row]
    <3>1. [NoProtocol EXCEPT !.status = "draft"] \in ProtocolRow
      BY DEF NoProtocol, ProtocolRow
    <3>2. [protocol[i][k] EXCEPT !.media = TRUE] \in ProtocolRow
      BY <2>1 DEF ProtocolRow
    <3>3. [protocol[i][k] EXCEPT !.status = "signed"] \in ProtocolRow
      BY <2>1 DEF ProtocolRow
    <3> QED
      BY <3>1, <3>2, <3>3 DEF GetOrCreateProtocol, AddMedia, Finalize
  <2>3. protocol' \in [Interventions -> [Kinds -> ProtocolRow]]
    BY <2>1, <2>2
  <2> QED
    BY <2>3, WholeTyped DEF GetOrCreateProtocol, AddMedia, Finalize, TypeInv, TypeOK, Typed
<1>3. CASE \E i \in Interventions, to \in Reported : Webhook(i, to)
  <2> PICK i \in Interventions, to \in Reported : Webhook(i, to)
    BY <1>3
  <2>1. to \in InterventionStatuses
    BY DEF Reported, InterventionStatuses
  <2>2. intervention' \in [Interventions -> InterventionRow]
    BY <2>1, StatusTyped DEF Webhook
  <2> QED
    BY <2>2, WholeTyped DEF Webhook, TypeInv, TypeOK, Typed
<1>4. CASE \E c \in costs : DeleteCost(c)
  <2> PICK c \in costs : DeleteCost(c)
    BY <1>4
  <2>1. mission' \in [Interventions -> MissionRow]
    BY ZenonT(30) DEF DeleteCost, TypeInv, TypeOK, MissionRow
  <2>2. costs' \subseteq CostEntry
    BY DEF DeleteCost, TypeInv, TypeOK
  <2> QED
    BY <2>1, <2>2, WholeTyped DEF DeleteCost, TypeInv, TypeOK, Typed
<1> QED
  BY <1>1, <1>2, <1>3, <1>4

LEMMA TypeStep == TypeInv /\ [Next]_vars => TypeInv'
<1> SUFFICES ASSUME TypeInv, [Next]_vars PROVE TypeInv'
  OBVIOUS
<1>1. CASE UNCHANGED vars
  BY <1>1 DEF vars, TypeInv, TypeOK, Typed
<1>2. CASE \E r \in Requests : Read(r) \/ Write(r)
  BY <1>2, ReadTyped, WriteTyped
<1> QED
  BY <1>1, <1>2, WholeStepTyped DEF Next

LEMMA TypeInit == Init => TypeInv
<1> SUFFICES ASSUME Init PROVE TypeInv
  OBVIOUS
<1>1. NoIntervention \in InterventionRow /\ NoMission \in MissionRow
  BY DEF NoIntervention, InterventionRow, NoMission, MissionRow, OptKm
<1>2. NoProtocol \in ProtocolRow
  BY DEF NoProtocol, ProtocolRow
<1>3. protocol \in [Interventions -> [Kinds -> ProtocolRow]]
  BY <1>2 DEF Init
<1>4. intervention \in [Interventions -> InterventionRow] /\
        mission \in [Interventions -> MissionRow]
  BY <1>1 DEF Init
<1>5. \A r \in Requests : req[r] = Idle
  BY DEF Init
<1>6. req \in [Requests -> Request]
  BY IdleTyped DEF Init
<1> QED
  BY <1>3, <1>4, <1>5, <1>6, IdleTyped DEF Init, TypeInv, TypeOK

LEMMA AlwaysTyped == Spec => []TypeInv
BY TypeInit, TypeStep, PTL DEF Spec

\* Every reachable state is well typed: in particular a request in flight
\* holds the id of an intervention and the usage counter is never negative.
THEOREM TypeCorrect == Spec => []TypeOK
<1>1. TypeInv => TypeOK
  BY DEF TypeInv
<1> QED
  BY <1>1, AlwaysTyped, PTL
-----------------------------------------------------------------------------
(***************************************************************************)
(* One cost entry per mission.  The mission row and the cost entries agree *)
(* both ways; nothing is settled before there is a mission to settle.      *)
(***************************************************************************)
Named == \A c \in costs : mission[c.of].cost = c.id
Backed == \A i \in Interventions : mission[i].cost # NoCost =>
             \E c \in costs : c.of = i /\ c.id = mission[i].cost
Distinct == \A c, d \in costs : c.id = d.id => c = d
Clean == \A i \in Interventions : ~Tows(i) => mission[i].cost = NoCost
Towed == \A r \in Requests :
             req[r].pc # "idle" /\ req[r].op \in {"patchMission", "settle"} => Tows(req[r].i)

CostInv == Named /\ Backed /\ Distinct /\ Clean /\ Towed

LEMMA CostInvSuffices == TypeOK /\ CostInv => OneCostPerMission
<1> SUFFICES ASSUME TypeOK, CostInv, NEW i \in Interventions
             PROVE  {c.id : c \in {d \in costs : d.of = i}} = {mission[i].cost} \ {NoCost}
  BY DEF OneCostPerMission
<1>1. \A c \in costs : c.id # NoCost
  BY ConstantsAssumption DEF TypeOK, CostEntry
<1> QED
  BY <1>1 DEF CostInv, Named, Backed

\* Steps that touch neither cost entries nor what missions say of them.
LEMMA CostsKept ==
  ASSUME TypeInv, CostInv, costs' = costs,
         \A i \in Interventions : mission'[i].cost = mission[i].cost
  PROVE  Named' /\ Backed' /\ Distinct'
<1>1. \A c \in costs : c.of \in Interventions
  BY DEF TypeInv, TypeOK, CostEntry
<1> QED
  BY <1>1 DEF CostInv, Named, Backed, Distinct

\* The steps that write missions and cost entries.
Tow ==
    \/ \E r \in Requests : \/ CommitIntervention(r) \/ WriteCreateMission(r)
                            \/ WriteMission(r) \/ CommitMission(r) \/ WriteSettle(r)
    \/ \E c \in costs : DeleteCost(c)

LEMMA OthersKeepMissions ==
  ASSUME [Next]_vars, ~Tow
  PROVE  mission' = mission /\ costs' = costs
<1>1. ASSUME NEW r \in Requests, Read(r) PROVE mission' = mission /\ costs' = costs
  BY ZenonT(30), <1>1 DEF Read, ReadPatchIntervention, BeginPatch, ReadCreateMission,
     ReadPatchMission, ReadSettle, ReadSign, ReadDispatch, Begin, rows
<1>2. ASSUME NEW r \in Requests, Write(r) PROVE mission' = mission /\ costs' = costs
  BY <1>2 DEF Tow, Write, WriteIntervention, HoldIntervention, HoldMission, Abort,
     SettledAlready, WriteSign, WriteDispatch, rows
<1>3. ASSUME NEW i \in Interventions, NEW k \in Kinds,
             GetOrCreateProtocol(i, k) \/ AddMedia(i, k) \/ Finalize(i, k)
      PROVE  mission' = mission /\ costs' = costs
  BY <1>3 DEF GetOrCreateProtocol, AddMedia, Finalize
<1>4. ASSUME NEW i \in Interventions, NEW to \in Reported, Webhook(i, to)
      PROVE  mission' = mission /\ costs' = costs
  BY <1>4 DEF Webhook
<1>5. ASSUME NEW i \in Interventions, NEW s \in InterventionStatuses, NEW b \in Covered,
             CreateIntervention(i, s, b)
      PROVE  mission' = mission /\ costs' = costs
  BY <1>5 DEF CreateIntervention
<1>6. CASE UNCHANGED vars
  BY <1>6 DEF vars
<1>7. ~\E c \in costs : DeleteCost(c)
  BY DEF Tow
<1> QED
  BY <1>1, <1>2, <1>3, <1>4, <1>5, <1>6, <1>7 DEF Next

\* What a step may make of a mission.
LEMMA MissionStep ==
  ASSUME TypeInv, [Next]_vars, NEW j \in Interventions
  PROVE  \/ mission'[j] = mission[j]
         \/ ~Tows(j) /\ mission'[j].status = "assigned" /\ mission'[j].cost = NoCost
         \/ Tows(j) /\ mission'[j].status = "cancelled" /\ mission'[j].cost = mission[j].cost
         \/ /\ mission'[j].cost = mission[j].cost
            /\ \E r \in Requests :
                 /\ req[r].pc # "idle" /\ req[r].op = "patchMission" /\ req[r].i = j
                 /\ mission'[j].status \in {mission[j].status, req[r].to} \ {"keep"}
                 /\ req[r].to \in MissionStatuses \cup {"keep"}
         \/ /\ \E r \in Requests : WriteSettle(r) /\ req[r].i = j
            /\ \/ mission'[j].status = mission[j].status
               \/ mission[j].status = "delivered" /\ mission'[j].status = "closed"
         \/ mission'[j].status = mission[j].status /\ \E c \in costs : DeleteCost(c)
<1> USE DEF TypeInv, TypeOK
<1>0. mission[j] \in MissionRow /\ mission[j].status # "keep"
  BY StatusSets DEF MissionRow
<1>1. CASE ~Tow
  BY <1>1, OthersKeepMissions
<1>2. ASSUME NEW r \in Requests, CommitIntervention(r)
      PROVE  \/ mission'[j] = mission[j]
             \/ Tows(j) /\ mission'[j].status = "cancelled" /\ mission'[j].cost = mission[j].cost
  BY <1>0, <1>2 DEF CommitIntervention, Cascades, Tows, MissionRow
<1>3. ASSUME NEW r \in Requests, WriteCreateMission(r)
      PROVE  \/ mission'[j] = mission[j]
             \/ ~Tows(j) /\ mission'[j].status = "assigned" /\ mission'[j].cost = NoCost
  BY <1>3 DEF WriteCreateMission, NoMission
<1>4. ASSUME NEW r \in Requests, WriteMission(r) \/ CommitMission(r)
      PROVE  \/ mission'[j] = mission[j]
             \/ /\ mission'[j].cost = mission[j].cost
                /\ \E q \in Requests :
                     /\ req[q].pc # "idle" /\ req[q].op = "patchMission" /\ req[q].i = j
                     /\ mission'[j].status \in {mission[j].status, req[q].to} \ {"keep"}
                     /\ req[q].to \in MissionStatuses \cup {"keep"}
  <2>1. mission' = Patched(r) /\ req[r].pc # "idle" /\ req[r].op = "patchMission"
    BY <1>4 DEF WriteMission, CommitMission, CanWrite, HoldsMission
  <2>2. req[r].to \in MissionStatuses \cup {"keep"}
    BY <2>1 DEF Typed
  <2>3. CASE req[r].i # j
    BY <2>1, <2>3 DEF Patched
  <2>4. CASE req[r].i = j
    <3>1. /\ mission'[j].status = IF req[r].to = "keep" THEN mission[j].status ELSE req[r].to
          /\ mission'[j].cost = mission[j].cost
      BY <1>0, <2>1, <2>4 DEF Patched, MissionRow
    <3> QED
      BY <1>0, <2>1, <2>2, <2>4, <3>1
  <2> QED
    BY <2>3, <2>4
<1>5. ASSUME NEW r \in Requests, WriteSettle(r)
      PROVE  \/ mission'[j] = mission[j]
             \/ /\ req[r].i = j
                /\ \/ mission'[j].status = mission[j].status
                   \/ mission[j].status = "delivered" /\ mission'[j].status = "closed"
  BY <1>0, <1>5 DEF WriteSettle, Settle, MissionRow
<1>6. ASSUME NEW c \in costs, DeleteCost(c)
      PROVE  mission'[j].status = mission[j].status
  BY <1>0, <1>6 DEF DeleteCost, MissionRow
<1> QED
  BY <1>1, <1>2, <1>3, <1>4, <1>5, <1>6 DEF Tow

\* A mission row is created once and never taken away.
LEMMA TowsStays ==
  ASSUME TypeInv, [Next]_vars, NEW j \in Interventions, Tows(j)
  PROVE  Tows(j)'
BY MissionStep, StatusSets DEF Tows

NeedsTow(q) == q.pc # "idle" /\ q.op \in {"patchMission", "settle"}

\* A request that begins knows its intervention, and has seen a mission there
\* if it will write one.
LEMMA ReadTows ==
  ASSUME TypeInv, NEW r \in Requests, Read(r)
  PROVE  /\ \A q \in Requests : q # r => req'[q] = req[q]
         /\ NeedsTow(req'[r]) => req'[r].i \in Interventions /\ Tows(req'[r].i)
<1> PICK i \in Interventions :
      \/ \E to \in InterventionStatuses : ReadPatchIntervention(r, i, to)
      \/ ReadCreateMission(r, i)
      \/ \E to \in MissionStatuses, setKm \in BOOLEAN, km \in OptKm :
            ReadPatchMission(r, i, to, setKm, km)
      \/ \E km \in OptKm : ReadSettle(r, i, km)
      \/ \E k \in Kinds, s \in Signers : ReadSign(r, i, k, s)
      \/ ReadDispatch(r, i)
  BY DEF Read
<1>0. req \in [Requests -> Request]
  BY DEF TypeInv, TypeOK
<1>1. \A q \in Requests : q # r => req'[q] = req[q]
  BY <1>0 DEF ReadPatchIntervention, BeginPatch, ReadCreateMission, ReadPatchMission,
     ReadSettle, ReadSign, ReadDispatch, Begin
<1>2. CASE \E to \in InterventionStatuses : ReadPatchIntervention(r, i, to)
  <2>1. req'[r].op = "patchIntervention"
    BY ZenonT(30), <1>0, <1>2 DEF ReadPatchIntervention, BeginPatch, Begin, Asked, Idle
  <2> QED
    BY <1>1, <2>1 DEF NeedsTow, Tows
<1>3. CASE ReadCreateMission(r, i)
  <2>1. req'[r].op = "createMission"
    BY <1>0, <1>3 DEF ReadCreateMission, Begin, Asked, Idle
  <2> QED
    BY <1>1, <2>1 DEF NeedsTow, Tows
<1>4. CASE \E to \in MissionStatuses, setKm \in BOOLEAN, km \in OptKm :
             ReadPatchMission(r, i, to, setKm, km)
  <2>1. req'[r].i = i /\ Tows(i)
    <3> PICK to \in MissionStatuses, setKm \in BOOLEAN, km \in OptKm :
          ReadPatchMission(r, i, to, setKm, km)
      BY <1>4
    <3> DEFINE next == IF to = mission[i].status THEN "keep" ELSE to
    <3>1. Tows(i) /\ req' = [req EXCEPT ![r] =
            [Asked("patchMission", i) EXCEPT !.to = next, !.setKm = setKm, !.km = km]]
      BY DEF ReadPatchMission, Begin
    <3> HIDE DEF next
    <3> QED
      BY <1>0, <3>1 DEF Asked, Idle
  <2> QED
    BY <1>1, <2>1 DEF NeedsTow, Tows
<1>5. CASE \E km \in OptKm : ReadSettle(r, i, km)
  <2>1. req'[r].i = i /\ mission[i].status # "absent"
    BY ZenonT(30), <1>0, <1>5 DEF ReadSettle, Begin, Asked, Idle
  <2> QED
    BY <1>1, <2>1 DEF NeedsTow, Tows
<1>6. CASE \E k \in Kinds, s \in Signers : ReadSign(r, i, k, s)
  <2>1. req'[r].op = "sign"
    BY ZenonT(30), <1>0, <1>6 DEF ReadSign, Begin, Asked, Idle
  <2> QED
    BY <1>1, <2>1 DEF NeedsTow, Tows
<1>7. CASE ReadDispatch(r, i)
  <2>1. req'[r].op = "dispatch"
    BY <1>0, <1>7 DEF ReadDispatch, Begin, Asked, Idle
  <2> QED
    BY <1>1, <2>1 DEF NeedsTow, Tows
<1> QED
  BY <1>2, <1>3, <1>4, <1>5, <1>6, <1>7

\* A request that will write a mission has seen one.
LEMMA TowedStep ==
  ASSUME TypeInv, CostInv, [Next]_vars
  PROVE  Towed'
<1> SUFFICES ASSUME NEW q \in Requests, NeedsTow(req'[q])
             PROVE  mission'[req'[q].i].status # "absent"
  BY DEF Towed, NeedsTow, Tows
<1>0. req \in [Requests -> Request]
  BY DEF TypeInv, TypeOK
<1>1. ASSUME NeedsTow(req[q]), req'[q].i = req[q].i
      PROVE  mission'[req'[q].i].status # "absent"
  <2>1. req[q].i \in Interventions /\ Tows(req[q].i)
    BY <1>1 DEF CostInv, Towed, TypeInv, TypeOK, NeedsTow
  <2>2. \A j \in Interventions : Tows(j) => mission'[j].status # "absent"
    BY TowsStays DEF Tows
  <2> QED
    BY <1>1, <2>1, <2>2
<1>2. ASSUME UNCHANGED req PROVE mission'[req'[q].i].status # "absent"
  BY <1>1, <1>2
<1>3. ASSUME NEW r \in Requests, Done(r) PROVE mission'[req'[q].i].status # "absent"
  <2>1. q # r /\ req'[q] = req[q]
    BY <1>0, <1>3, IdleTyped DEF Done, NeedsTow
  <2> QED
    BY <1>1, <2>1
<1>4. ASSUME NEW r \in Requests, Read(r) PROVE mission'[req'[q].i].status # "absent"
  <2>1. CASE q # r
    <3>1. req'[q] = req[q]
      BY <1>4, <2>1, ReadTows
    <3> QED
      BY <1>1, <3>1
  <2>2. CASE q = r
    <3>1. req'[q].i \in Interventions /\ Tows(req'[q].i)
      BY <1>4, <2>2, ReadTows
    <3>2. \A j \in Interventions : Tows(j) => mission'[j].status # "absent"
      BY TowsStays DEF Tows
    <3> QED
      BY <3>1, <3>2
  <2> QED
    BY <2>1, <2>2
<1>5. ASSUME NEW r \in Requests, HoldIntervention(r) \/ HoldMission(r)
      PROVE  mission'[req'[q].i].status # "absent"
  <2>1. req[q].pc # "idle" /\ req[q].op = req'[q].op /\ req[q].i = req'[q].i
    BY <1>0, <1>5 DEF HoldIntervention, HoldMission, CanWrite, Request, NeedsTow
  <2> QED
    BY <1>1, <2>1 DEF NeedsTow
<1>6. ASSUME NEW r \in Requests, Write(r) PROVE mission'[req'[q].i].status # "absent"
  BY <1>3, <1>5, <1>6 DEF Write, WriteIntervention, CommitIntervention, WriteCreateMission,
     WriteMission, CommitMission, Abort, WriteSettle, Settle, SettledAlready, WriteSign,
     WriteDispatch
<1>7. CASE \/ UNCHANGED vars
           \/ \E i \in Interventions, s \in InterventionStatuses, b \in Covered :
                 CreateIntervention(i, s, b)
           \/ \E i \in Interventions, k \in Kinds :
                 GetOrCreateProtocol(i, k) \/ AddMedia(i, k) \/ Finalize(i, k)
           \/ \E i \in Interventions, to \in Reported : Webhook(i, to)
           \/ \E c \in costs : DeleteCost(c)
  BY <1>2, <1>7 DEF vars, CreateIntervention, GetOrCreateProtocol, AddMedia, Finalize,
     Webhook, DeleteCost, Whole
<1> QED
  BY <1>4, <1>6, <1>7 DEF Next

LEMMA CleanStep ==
  ASSUME TypeInv, CostInv, [Next]_vars
  PROVE  Clean'
<1> SUFFICES ASSUME NEW j \in Interventions, ~Tows(j)' PROVE mission'[j].cost = NoCost
  BY DEF Clean
<1>1. ~Tows(j) /\ mission[j].cost = NoCost
  BY TowsStays DEF CostInv, Clean
<1>2. \A c \in costs : DeleteCost(c) => mission'[j].cost \in {mission[j].cost, NoCost}
  BY DEF DeleteCost, TypeInv, TypeOK, MissionRow
<1>3. \A r \in Requests : WriteSettle(r) => Tows(req[r].i)
  BY DEF WriteSettle, CanWrite, CostInv, Towed
<1> QED
  BY <1>1, <1>2, <1>3, MissionStep

LEMMA CostStep ==
  ASSUME TypeInv, CostInv, [Next]_vars
  PROVE  Named' /\ Backed' /\ Distinct'
<1>1. CASE ~Tow
  BY <1>1, OthersKeepMissions, CostsKept
<1>2. ASSUME NEW r \in Requests,
             CommitIntervention(r) \/ WriteCreateMission(r) \/ WriteMission(r) \/ CommitMission(r)
      PROVE  Named' /\ Backed' /\ Distinct'
  <2>1. costs' = costs
    BY <1>2 DEF CommitIntervention, WriteCreateMission, WriteMission, CommitMission
  <2> SUFFICES ASSUME NEW j \in Interventions PROVE mission'[j].cost = mission[j].cost
    BY <2>1, CostsKept
  <2>0. mission \in [Interventions -> MissionRow]
    BY DEF TypeInv, TypeOK
  <2>2. CASE CommitIntervention(r)
    BY <2>0, <2>2 DEF CommitIntervention, MissionRow
  <2>3. CASE WriteCreateMission(r)
    BY <2>0, <2>3 DEF WriteCreateMission, NoMission, CostInv, Clean
  <2>4. CASE WriteMission(r) \/ CommitMission(r)
    <3>1. mission' = Patched(r)
      BY <2>4 DEF WriteMission, CommitMission
    <3> QED
      BY <2>0, <3>1 DEF Patched, MissionRow
  <2> QED
    BY <1>2, <2>2, <2>3, <2>4
<1>3. ASSUME NEW r \in Requests, WriteSettle(r) PROVE Named' /\ Backed' /\ Distinct'
  <2> DEFINE i == req[r].i
  <2> PICK c \in CostIds \ {d.id : d \in costs} :
        /\ costs' = costs \cup {[id |-> c, of |-> i, km |-> req[r].km]}
        /\ mission' = [mission EXCEPT ![i] =
             [@ EXCEPT !.km = req[r].km, !.cost = c,
                       !.status = IF mission[i].status = "delivered" THEN "closed"
                                                                     ELSE mission[i].status]]
    BY <1>3 DEF WriteSettle, Settle
  <2>1. /\ i \in Interventions /\ mission[i].cost = NoCost
        /\ mission \in [Interventions -> MissionRow] /\ costs \subseteq CostEntry
    BY <1>3 DEF WriteSettle, CanWrite, TypeInv, TypeOK
  <2>2. \A d \in costs : d.of # i /\ d.id # c /\ d.of \in Interventions
    BY <2>1, ConstantsAssumption DEF CostInv, Named, CostEntry
  <2>3. mission'[i].cost = c /\ \A j \in Interventions \ {i} : mission'[j] = mission[j]
    BY <2>1 DEF MissionRow
  <2> DEFINE entry == [id |-> c, of |-> i, km |-> req[r].km]
  <2>4. entry.id = c /\ entry.of = i /\ costs' = costs \cup {entry}
    OBVIOUS
  <2> HIDE DEF i, entry
  <2>5. Named'
    BY <2>2, <2>3, <2>4 DEF CostInv, Named
  <2>6. Backed'
    BY <2>3, <2>4 DEF CostInv, Backed
  <2>7. Distinct'
    BY <2>2, <2>4 DEF CostInv, Distinct
  <2> QED
    BY <2>5, <2>6, <2>7
<1>4. ASSUME NEW c \in costs, DeleteCost(c) PROVE Named' /\ Backed' /\ Distinct'
  <2>1. /\ costs' = costs \ {c} /\ c \in CostEntry /\ costs \subseteq CostEntry
        /\ mission \in [Interventions -> MissionRow]
    BY <1>4 DEF DeleteCost, TypeInv, TypeOK
  <2>2. \A j \in Interventions :
          mission'[j].cost = IF mission[j].cost = c.id THEN NoCost ELSE mission[j].cost
    BY <1>4, <2>1 DEF DeleteCost, MissionRow
  <2>3. Named'
    BY <2>1, <2>2 DEF CostInv, Named, Distinct, CostEntry
  <2>4. Backed'
    BY <2>1, <2>2 DEF CostInv, Backed
  <2>5. Distinct'
    BY <2>1 DEF CostInv, Distinct
  <2> QED
    BY <2>3, <2>4, <2>5
<1> QED
  BY <1>1, <1>2, <1>3, <1>4 DEF Tow

\* A mission has at most one cost entry, the one it names, for any number of
\* settlements in flight and any cost entries deleted meanwhile: settleMission
\* reads the mission again under its row lock.
THEOREM OneCost == Spec => []OneCostPerMission
<1>1. Init => CostInv
  BY DEF Init, CostInv, Named, Backed, Distinct, Clean, Towed, NoMission, Idle
<1>2. TypeInv /\ CostInv /\ [Next]_vars => CostInv'
  BY TowedStep, CleanStep, CostStep DEF CostInv
<1>3. TypeInv /\ CostInv => OneCostPerMission
  BY CostInvSuffices DEF TypeInv
<1> QED
  BY <1>1, <1>2, <1>3, AlwaysTyped, PTL DEF Spec
-----------------------------------------------------------------------------
(***************************************************************************)
(* Custody is documented.  A signed protocol stays signed and complete,    *)
(* and what a request will write was approved by signed protocols.         *)
(***************************************************************************)
Signed(i, k) == protocol[i][k].status = "signed"
Moved == {"picked_up", "in_transit", "delivered", "closed"}
Arrived == {"delivered", "closed"}

SignedOff == \A i \in Interventions, k \in Kinds : Signed(i, k) => Complete(protocol[i][k])
OnPaper == \A i \in Interventions :
    /\ mission[i].status \in Moved => Signed(i, "pickup")
    /\ mission[i].status \in Arrived => Signed(i, "dropoff")
Approved(q) == q.pc # "idle" /\ q.op = "patchMission" =>
    /\ q.to \in Moved => Signed(q.i, "pickup")
    /\ q.to \in Arrived => Signed(q.i, "dropoff")

CustodyInv == SignedOff /\ OnPaper /\ \A r \in Requests : Approved(req[r])

\* Another signature or a photo leaves a complete protocol complete.
LEMMA MoreIsComplete ==
  ASSUME NEW p \in ProtocolRow, NEW q \in ProtocolRow, Complete(p),
         p.signers \subseteq q.signers, q.media
  PROVE  Complete(q)
<1>1. IsFiniteSet(q.signers)
  BY ConstantsAssumption, FS_Subset DEF ProtocolRow
<1>2. /\ Cardinality(p.signers) <= Cardinality(q.signers)
      /\ Cardinality(p.signers) \in Nat /\ Cardinality(q.signers) \in Nat
  BY <1>1, FS_Subset, FS_CardinalityType
<1> QED
  BY <1>2 DEF Complete

\* What a step may make of a protocol.
LEMMA ProtocolStep ==
  ASSUME TypeInv, [Next]_vars, NEW i \in Interventions, NEW k \in Kinds
  PROVE  \/ protocol'[i][k] = protocol[i][k]
         \/ ~Signed(i, k) /\ protocol'[i][k].status # "signed"
         \/ /\ protocol'[i][k] \in ProtocolRow
            /\ protocol[i][k].status = protocol'[i][k].status
            /\ protocol[i][k].media = protocol'[i][k].media
            /\ protocol[i][k].signers \subseteq protocol'[i][k].signers
         \/ Complete(protocol[i][k]) /\
              protocol'[i][k] = [protocol[i][k] EXCEPT !.status = "signed"]
<1>0. protocol \in [Interventions -> [Kinds -> ProtocolRow]] /\ protocol[i][k] \in ProtocolRow
  BY DEF TypeInv, TypeOK
<1>1. ASSUME NEW r \in Requests, Read(r) PROVE protocol' = protocol
  BY ZenonT(30), <1>1 DEF Read, ReadPatchIntervention, BeginPatch, ReadCreateMission,
     ReadPatchMission, ReadSettle, ReadSign, ReadDispatch, Begin, rows
<1>2. ASSUME NEW r \in Requests, WriteSign(r)
      PROVE  /\ protocol'[i][k] \in ProtocolRow
             /\ protocol[i][k].status = protocol'[i][k].status
             /\ protocol[i][k].media = protocol'[i][k].media
             /\ protocol[i][k].signers \subseteq protocol'[i][k].signers
  <2>1. req[r] \in Request /\ req[r].i \in Interventions
    BY <1>2 DEF WriteSign, CanWrite, TypeInv, TypeOK
  <2>2. PICK i1 \in Interventions, k1 \in Kinds, s \in Signers :
          protocol' = [protocol EXCEPT ![i1][k1].signers = @ \cup {s}]
    BY <1>2, <2>1 DEF WriteSign, Request
  <2>3. CASE i1 = i /\ k1 = k
    <3>1. protocol'[i][k] = [protocol[i][k] EXCEPT !.signers = @ \cup {s}]
      BY <1>0, <2>2, <2>3
    <3>2. protocol[i][k].signers \cup {s} \subseteq Signers
      BY <1>0 DEF ProtocolRow
    <3> QED
      BY <1>0, <3>1, <3>2 DEF ProtocolRow
  <2>4. CASE ~(i1 = i /\ k1 = k)
    <3>1. protocol'[i][k] = protocol[i][k]
      BY <1>0, <2>2, <2>4
    <3> QED
      BY <1>0, <3>1
  <2> QED
    BY <2>3, <2>4
<1>3. ASSUME NEW r \in Requests, Write(r), ~WriteSign(r) PROVE protocol' = protocol
  BY <1>3 DEF Write, WriteIntervention, HoldIntervention, CommitIntervention,
     WriteCreateMission, WriteMission, HoldMission, CommitMission, Abort, WriteSettle, Settle,
     SettledAlready, WriteDispatch, rows
<1>4. ASSUME NEW i1 \in Interventions, NEW k1 \in Kinds, GetOrCreateProtocol(i1, k1)
      PROVE  \/ protocol'[i][k] = protocol[i][k]
             \/ ~Signed(i, k) /\ protocol'[i][k].status # "signed"
  BY <1>0, <1>4 DEF GetOrCreateProtocol, Signed, NoProtocol
<1>5. ASSUME NEW i1 \in Interventions, NEW k1 \in Kinds, AddMedia(i1, k1)
      PROVE  \/ protocol'[i][k] = protocol[i][k]
             \/ ~Signed(i, k) /\ protocol'[i][k].status # "signed"
  BY <1>0, <1>5 DEF AddMedia, Signed, ProtocolRow
<1>6. ASSUME NEW i1 \in Interventions, NEW k1 \in Kinds, Finalize(i1, k1)
      PROVE  \/ protocol'[i][k] = protocol[i][k]
             \/ /\ Complete(protocol[i][k])
                /\ protocol'[i][k] = [protocol[i][k] EXCEPT !.status = "signed"]
  BY <1>0, <1>6 DEF Finalize
<1>7. CASE \/ UNCHANGED vars
           \/ \E j \in Interventions, s \in InterventionStatuses, b \in Covered :
                 CreateIntervention(j, s, b)
           \/ \E j \in Interventions, to \in Reported : Webhook(j, to)
           \/ \E c \in costs : DeleteCost(c)
  BY <1>7 DEF vars, CreateIntervention, Webhook, DeleteCost
<1> QED
  BY <1>1, <1>2, <1>3, <1>4, <1>5, <1>6, <1>7 DEF Next

LEMMA SignedStays ==
  ASSUME TypeInv, SignedOff, [Next]_vars, NEW i \in Interventions, NEW k \in Kinds
  PROVE  /\ Signed(i, k) => protocol'[i][k].status = "signed"
         /\ protocol'[i][k].status = "signed" => Complete(protocol'[i][k])
<1>0. protocol[i][k] \in ProtocolRow
  BY DEF TypeInv, TypeOK
<1>1. CASE protocol'[i][k] = protocol[i][k]
  BY <1>1 DEF SignedOff, Signed
<1>2. CASE ~Signed(i, k) /\ protocol'[i][k].status # "signed"
  BY <1>2
<1>3. CASE /\ protocol'[i][k] \in ProtocolRow
           /\ protocol[i][k].status = protocol'[i][k].status
           /\ protocol[i][k].media = protocol'[i][k].media
           /\ protocol[i][k].signers \subseteq protocol'[i][k].signers
  BY <1>0, <1>3, MoreIsComplete DEF SignedOff, Signed, Complete
<1>4. CASE /\ Complete(protocol[i][k])
           /\ protocol'[i][k] = [protocol[i][k] EXCEPT !.status = "signed"]
  BY <1>0, <1>4 DEF ProtocolRow, Complete
<1> QED
  BY <1>1, <1>2, <1>3, <1>4, ProtocolStep

LEMMA EdgesInto ==
  ASSUME NEW from \in MissionStatuses
  PROVE  /\ "in_transit" \in Edges[from] => from = "picked_up"
         /\ "delivered" \in Edges[from] => from = "in_transit"
         /\ "closed" \in Edges[from] => from = "delivered"
BY StatusSets DEF Edges

LEMMA ReadApproved ==
  ASSUME TypeInv, CustodyInv, NEW r \in Requests, Read(r), NeedsTow(req'[r]),
         req'[r].op = "patchMission"
  PROVE  /\ req'[r].i \in Interventions
         /\ req'[r].to \in Moved => Signed(req'[r].i, "pickup")
         /\ req'[r].to \in Arrived => Signed(req'[r].i, "dropoff")
<1>0. req \in [Requests -> Request]
  BY DEF TypeInv, TypeOK
<1> PICK i \in Interventions :
      \/ \E to \in InterventionStatuses : ReadPatchIntervention(r, i, to)
      \/ ReadCreateMission(r, i)
      \/ \E to \in MissionStatuses, setKm \in BOOLEAN, km \in OptKm :
            ReadPatchMission(r, i, to, setKm, km)
      \/ \E km \in OptKm : ReadSettle(r, i, km)
      \/ \E k \in Kinds, s \in Signers : ReadSign(r, i, k, s)
      \/ ReadDispatch(r, i)
  BY DEF Read
<1>1. CASE \/ \E to \in InterventionStatuses : ReadPatchIntervention(r, i, to)
           \/ ReadCreateMission(r, i)
           \/ \E km \in OptKm : ReadSettle(r, i, km)
           \/ \E k \in Kinds, s \in Signers : ReadSign(r, i, k, s)
           \/ ReadDispatch(r, i)
  <2>1. \A to \in InterventionStatuses : ReadPatchIntervention(r, i, to) =>
          req'[r].op = "patchIntervention"
    BY ZenonT(30), <1>0 DEF ReadPatchIntervention, BeginPatch, Begin, Asked, Idle
  <2>2. ReadCreateMission(r, i) => req'[r].op = "createMission"
    BY <1>0 DEF ReadCreateMission, Begin, Asked, Idle
  <2>3. \A km \in OptKm : ReadSettle(r, i, km) => req'[r].op = "settle"
    BY ZenonT(30), <1>0 DEF ReadSettle, Begin, Asked, Idle
  <2>4. \A k \in Kinds, s \in Signers : ReadSign(r, i, k, s) => req'[r].op = "sign"
    BY <1>0 DEF ReadSign, Begin, Asked, Idle
  <2>5. ReadDispatch(r, i) => req'[r].op = "dispatch"
    BY <1>0 DEF ReadDispatch, Begin, Asked, Idle
  <2> QED
    BY <1>1, <2>1, <2>2, <2>3, <2>4, <2>5
<1>2. ASSUME NEW to \in MissionStatuses, NEW setKm \in BOOLEAN, NEW km \in OptKm,
             ReadPatchMission(r, i, to, setKm, km)
      PROVE  /\ req'[r].i = i
             /\ req'[r].to \in Moved => Signed(i, "pickup")
             /\ req'[r].to \in Arrived => Signed(i, "dropoff")
  <2> DEFINE from == mission[i].status
             next == IF to = from THEN "keep" ELSE to
  <2>1. req' = [req EXCEPT ![r] =
          [Asked("patchMission", i) EXCEPT !.to = next, !.setKm = setKm, !.km = km]]
    BY <1>2 DEF ReadPatchMission, Begin
  <2>2. /\ from \in MissionStatuses
        /\ to # from => to \in Edges[from] /\ Gate(i, to)
    BY <1>2 DEF ReadPatchMission, CanTransition, Tows, TypeInv, TypeOK, MissionRow
  <2>3. /\ next \in Moved => Signed(i, "pickup")
        /\ next \in Arrived => Signed(i, "dropoff")
    BY <2>2, EdgesInto DEF Gate, Moved, Arrived, CustodyInv, OnPaper, Signed
  <2> HIDE DEF next
  <2>4. req'[r].i = i /\ req'[r].to = next
    BY <1>0, <2>1 DEF Asked, Idle
  <2> QED
    BY <2>3, <2>4
<1> QED
  BY <1>1, <1>2

LEMMA ApprovedStep ==
  ASSUME TypeInv, CustodyInv, [Next]_vars, NEW q \in Requests,
         req'[q].pc # "idle", req'[q].op = "patchMission"
  PROVE  /\ req'[q].to \in Moved => protocol'[req'[q].i]["pickup"].status = "signed"
         /\ req'[q].to \in Arrived => protocol'[req'[q].i]["dropoff"].status = "signed"
<1> DEFINE Goal == /\ req'[q].to \in Moved => protocol'[req'[q].i]["pickup"].status = "signed"
                   /\ req'[q].to \in Arrived => protocol'[req'[q].i]["dropoff"].status = "signed"
<1>0. req \in [Requests -> Request]
  BY DEF TypeInv, TypeOK
<1>1. \A i \in Interventions, k \in Kinds : Signed(i, k) => protocol'[i][k].status = "signed"
  BY SignedStays DEF CustodyInv
<1>2. ASSUME req[q].pc # "idle", req[q].op = "patchMission", req'[q].i = req[q].i,
             req'[q].to = req[q].to
      PROVE  Goal
  <2>1. req[q].i \in Interventions /\ Approved(req[q])
    BY <1>2 DEF CustodyInv, TypeInv, TypeOK
  <2> QED
    BY <1>1, <1>2, <2>1 DEF Approved, Kinds
<1>3. ASSUME UNCHANGED req PROVE Goal
  BY <1>2, <1>3
<1>4. ASSUME NEW r \in Requests, Done(r) PROVE Goal
  <2>1. q # r /\ req'[q] = req[q]
    BY <1>0, <1>4, IdleTyped DEF Done
  <2> QED
    BY <1>2, <2>1
<1>5. ASSUME NEW r \in Requests, Read(r) PROVE Goal
  <2>1. CASE q # r
    BY <1>2, <1>5, <2>1, ReadTows
  <2>2. CASE q = r
    BY <1>1, <1>5, <2>2, ReadApproved DEF NeedsTow, Kinds
  <2> QED
    BY <2>1, <2>2
<1>6. ASSUME NEW r \in Requests, HoldIntervention(r) \/ HoldMission(r) PROVE Goal
  <2>1. /\ req[q].pc # "idle" /\ req[q].op = req'[q].op /\ req[q].i = req'[q].i
        /\ req'[q].to = req[q].to
    BY <1>0, <1>6 DEF HoldIntervention, HoldMission, CanWrite, Request
  <2> QED
    BY <1>2, <2>1
<1> HIDE DEF Goal
<1>7. ASSUME NEW r \in Requests, Write(r) PROVE Goal
  BY <1>4, <1>6, <1>7 DEF Write, WriteIntervention, CommitIntervention, WriteCreateMission,
     WriteMission, CommitMission, Abort, WriteSettle, Settle, SettledAlready, WriteSign,
     WriteDispatch
<1>8. ASSUME \/ UNCHANGED vars
             \/ \E i \in Interventions, s \in InterventionStatuses, b \in Covered :
                   CreateIntervention(i, s, b)
             \/ \E i \in Interventions, k \in Kinds :
                   GetOrCreateProtocol(i, k) \/ AddMedia(i, k) \/ Finalize(i, k)
             \/ \E i \in Interventions, to \in Reported : Webhook(i, to)
             \/ \E c \in costs : DeleteCost(c)
      PROVE  UNCHANGED req
  BY <1>8 DEF vars, CreateIntervention, GetOrCreateProtocol, AddMedia, Finalize,
     Webhook, DeleteCost, Whole
<1>9. \/ \E r \in Requests : Read(r) \/ Write(r)
      \/ UNCHANGED req
  BY <1>8 DEF Next
<1>10. Goal
  BY <1>3, <1>5, <1>7, <1>9
<1> QED
  BY <1>10 DEF Goal

LEMMA CustodyStep ==
  ASSUME TypeInv, CustodyInv, [Next]_vars
  PROVE  CustodyInv'
<1>1. SignedOff'
  BY SignedStays DEF CustodyInv, SignedOff, Signed
<1>2. OnPaper'
  <2> SUFFICES ASSUME NEW j \in Interventions
      PROVE  /\ mission'[j].status \in Moved => protocol'[j]["pickup"].status = "signed"
             /\ mission'[j].status \in Arrived => protocol'[j]["dropoff"].status = "signed"
    BY DEF OnPaper, Signed
  <2>1. \A k \in Kinds : Signed(j, k) => protocol'[j][k].status = "signed"
    BY SignedStays DEF CustodyInv
  <2>2. /\ mission'[j].status \in Moved => Signed(j, "pickup")
        /\ mission'[j].status \in Arrived => Signed(j, "dropoff")
    <3>1. /\ mission[j].status \in Moved => Signed(j, "pickup")
          /\ mission[j].status \in Arrived => Signed(j, "dropoff")
      BY DEF CustodyInv, OnPaper
    <3>2. \A r \in Requests :
            req[r].pc # "idle" /\ req[r].op = "patchMission" /\ req[r].i = j =>
              /\ req[r].to \in Moved => Signed(j, "pickup")
              /\ req[r].to \in Arrived => Signed(j, "dropoff")
      BY DEF CustodyInv, Approved
    <3> QED
      BY <3>1, <3>2, MissionStep DEF Moved, Arrived
  <2> QED
    BY <2>1, <2>2 DEF Kinds
<1>3. \A r \in Requests : Approved(req[r])'
  BY ApprovedStep DEF Approved, Signed
<1> QED
  BY <1>1, <1>2, <1>3 DEF CustodyInv

\* A vehicle is picked up and delivered only under protocols that are signed
\* off by both parties with a photo, for any number of overlapping requests:
\* what patchMission reads of the protocols cannot be undone before it writes.
THEOREM Custody == Spec => []CustodyDocumented
<1>1. Init => CustodyInv
  BY DEF Init, CustodyInv, SignedOff, OnPaper, Approved, Signed, Moved, Arrived, NoMission,
     NoProtocol, Idle
<1>2. TypeInv /\ CustodyInv /\ [Next]_vars => CustodyInv'
  BY CustodyStep
<1>3. CustodyInv => CustodyDocumented
  BY DEF CustodyInv, CustodyDocumented, SignedOff, OnPaper, Signed, Moved, Arrived, Kinds
<1> QED
  BY <1>1, <1>2, <1>3, AlwaysTyped, PTL DEF Spec
-----------------------------------------------------------------------------
(***************************************************************************)
(* Requests that do not overlap.  Until two have been in flight at once,   *)
(* there is one at most, what it has read is still so, and every cost      *)
(* entry is for a mission that was delivered over its distance.            *)
(***************************************************************************)
InFlight(r) == req[r].pc # "idle"
Alone == \A r, q \in Requests : InFlight(r) /\ InFlight(q) => r = q

Current(q) ==
    /\ q.op = "patchIntervention" =>
         /\ q.to # intervention[q.i].status => q.changes = TRUE
         /\ q.to = "completed" /\ q.to # intervention[q.i].status
              => mission[q.i].status \in Over \cup {"absent"}
    /\ q.op = "createMission" /\ q.to # "keep" => intervention[q.i].status \in Waiting
    /\ q.op = "patchMission" =>
         /\ mission[q.i].status \in MissionStatuses
         /\ q.to # "keep" => q.to \in Edges[mission[q.i].status]
         /\ q.setKm => mission[q.i].cost = NoCost
         /\ q.pc = "held" /\ q.gone = FALSE => intervention[q.i].status # "cancelled"
    /\ q.op = "settle" => mission[q.i].status \in Arrived

Paid == \A c \in costs : mission[c.of].status \in Arrived /\ mission[c.of].km = c.km

AllCurrent == \A r \in Requests : InFlight(r) => Current(req[r])

SoloInv == ~overlap => Alone /\ Paid /\ AllCurrent

\* A step does not write the intervention and the mission that a request still in flight
\* has read.
Undisturbed == \A r \in Requests : InFlight(r) /\ req'[r] = req[r] =>
    intervention'[req[r].i] = intervention[req[r].i] /\ mission'[req[r].i] = mission[req[r].i]

\* The steps of a request that has read.
LEMMA ReadCurrent ==
  ASSUME TypeInv, NEW r \in Requests, Read(r)
  PROVE  /\ UNCHANGED rows /\ req[r].pc = "idle"
         /\ ~overlap' => ~overlap /\ \A q \in Requests : ~InFlight(q)
         /\ \A q \in Requests : q # r => req'[q] = req[q]
         /\ Current(req'[r])
<1>0. req \in [Requests -> Request]
  BY DEF TypeInv, TypeOK
<1> PICK i \in Interventions :
      \/ \E to \in InterventionStatuses : ReadPatchIntervention(r, i, to)
      \/ ReadCreateMission(r, i)
      \/ \E to \in MissionStatuses, setKm \in BOOLEAN, km \in OptKm :
            ReadPatchMission(r, i, to, setKm, km)
      \/ \E km \in OptKm : ReadSettle(r, i, km)
      \/ \E k \in Kinds, s \in Signers : ReadSign(r, i, k, s)
      \/ ReadDispatch(r, i)
  BY DEF Read
<1>1. ASSUME NEW new, Begin(r, new), Current(new)
      PROVE  /\ UNCHANGED rows /\ req[r].pc = "idle"
             /\ ~overlap' => ~overlap /\ \A q \in Requests : ~InFlight(q)
             /\ \A q \in Requests : q # r => req'[q] = req[q]
             /\ Current(req'[r])
  <2>1. req' = [req EXCEPT ![r] = new] /\ UNCHANGED rows /\ req[r].pc = "idle" /\ Overlaps
    BY <1>1 DEF Begin
  <2>2. req'[r] = new /\ \A q \in Requests : q # r => req'[q] = req[q]
    BY <1>0, <2>1
  <2>3. ~overlap' => ~overlap /\ \A q \in Requests : ~InFlight(q)
    BY <2>1 DEF Overlaps, InFlight
  <2> QED
    BY <1>1, <2>1, <2>2, <2>3
<1>2. ASSUME NEW to \in InterventionStatuses, ReadPatchIntervention(r, i, to)
      PROVE  \E new : Begin(r, new) /\ Current(new)
  <2> DEFINE delta == Owed(intervention[i].status, to, intervention[i].counts)
             changes == to # intervention[i].status
             asked == Asked("patchIntervention", i)
             new == [asked EXCEPT !.to = to, !.delta = delta, !.changes = changes]
  <2>1. Begin(r, new) /\ (to = "completed" /\ intervention[i].status # to
                             => mission[i].status \in Over \cup {"absent"})
    BY <1>2 DEF ReadPatchIntervention, BeginPatch
  <2>2. asked \in Request /\ asked.op = "patchIntervention" /\ asked.i = i
    BY AskedTyped DEF Ops
  <2>3. changes = TRUE <=> to # intervention[i].status
    OBVIOUS
  <2> HIDE DEF delta, changes, asked
  <2>4. new.op = "patchIntervention" /\ new.i = i /\ new.to = to /\ new.changes = changes
    BY <2>2 DEF Request
  <2> HIDE DEF new
  <2>5. Current(new)
    BY <2>1, <2>3, <2>4 DEF Current
  <2> QED
    BY <2>1, <2>5
<1>3. ASSUME ReadCreateMission(r, i)
      PROVE  \E new : Begin(r, new) /\ Current(new)
  <2> DEFINE to == IF intervention[i].status \in Waiting THEN "dispatched" ELSE "keep"
             asked == Asked("createMission", i)
             new == [asked EXCEPT !.to = to]
  <2>1. Begin(r, new) /\ (to # "keep" => intervention[i].status \in Waiting)
    BY <1>3 DEF ReadCreateMission
  <2>2. asked \in Request /\ asked.op = "createMission" /\ asked.i = i
    BY AskedTyped DEF Ops
  <2> HIDE DEF to, asked
  <2>3. new.op = "createMission" /\ new.i = i /\ new.to = to
    BY <2>2 DEF Request
  <2> HIDE DEF new
  <2>4. Current(new)
    BY <2>1, <2>3 DEF Current
  <2> QED
    BY <2>1, <2>4
<1>4. ASSUME NEW to \in MissionStatuses, NEW setKm \in BOOLEAN, NEW km \in OptKm,
             ReadPatchMission(r, i, to, setKm, km)
      PROVE  \E new : Begin(r, new) /\ Current(new)
  <2> DEFINE from == mission[i].status
             next == IF to = from THEN "keep" ELSE to
             asked == Asked("patchMission", i)
             new == [asked EXCEPT !.to = next, !.setKm = setKm, !.km = km]
  <2>1. /\ Begin(r, new) /\ Tows(i) /\ (setKm => mission[i].cost = NoCost)
        /\ next # "keep" => next \in Edges[from]
    BY <1>4 DEF ReadPatchMission, CanTransition, MayMeasure
  <2>2. from \in MissionStatuses
    BY <2>1 DEF Tows, TypeInv, TypeOK, MissionRow
  <2>3. asked \in Request /\ asked.op = "patchMission" /\ asked.i = i /\ asked.pc = "write"
    BY AskedTyped DEF Ops
  <2> HIDE DEF next, asked
  <2>4. /\ new.op = "patchMission" /\ new.i = i /\ new.to = next /\ new.setKm = setKm
        /\ new.pc = "write"
    BY <2>3 DEF Request
  <2> HIDE DEF new
  <2>5. Current(new)
    BY <2>1, <2>2, <2>4 DEF Current
  <2> QED
    BY <2>1, <2>5
<1>5. ASSUME NEW km \in OptKm, ReadSettle(r, i, km)
      PROVE  \E new : Begin(r, new) /\ Current(new)
  <2> DEFINE distance == IF km = NoKm THEN mission[i].km ELSE km
             asked == Asked("settle", i)
             new == [asked EXCEPT !.km = distance]
  <2>1. Begin(r, new) /\ mission[i].status \in Arrived
    BY <1>5 DEF ReadSettle, Arrived
  <2>2. asked \in Request /\ asked.op = "settle" /\ asked.i = i
    BY AskedTyped DEF Ops
  <2> HIDE DEF distance, asked
  <2>3. new.op = "settle" /\ new.i = i
    BY <2>2 DEF Request
  <2> HIDE DEF new
  <2>4. Current(new)
    BY <2>1, <2>3 DEF Current
  <2> QED
    BY <2>1, <2>4
<1>6. ASSUME NEW op \in {"sign", "dispatch"}, NEW new, Begin(r, new), new.op = op
      PROVE  \E x : Begin(r, x) /\ Current(x)
  BY <1>6 DEF Current
<1>7. ASSUME NEW k \in Kinds, NEW s \in Signers, ReadSign(r, i, k, s)
      PROVE  \E new : Begin(r, new) /\ Current(new)
  <2> DEFINE asked == Asked("sign", i)
             new == [asked EXCEPT !.kind = k, !.signer = s]
  <2>1. Begin(r, new)
    BY <1>7 DEF ReadSign
  <2>2. asked \in Request /\ asked.op = "sign"
    BY AskedTyped DEF Ops
  <2> HIDE DEF asked
  <2>3. new.op = "sign"
    BY <2>2 DEF Request
  <2> HIDE DEF new
  <2> QED
    BY <1>6, <2>1, <2>3
<1>8. ASSUME ReadDispatch(r, i)
      PROVE  \E new : Begin(r, new) /\ Current(new)
  <2> DEFINE asked == Asked("dispatch", i)
             new == [asked EXCEPT !.to = "dispatched"]
  <2>1. Begin(r, new)
    BY <1>8 DEF ReadDispatch
  <2>2. asked \in Request /\ asked.op = "dispatch"
    BY AskedTyped DEF Ops
  <2> HIDE DEF asked
  <2>3. new.op = "dispatch"
    BY <2>2 DEF Request
  <2> HIDE DEF new
  <2> QED
    BY <1>6, <2>1, <2>3
<1>9. \E new : Begin(r, new) /\ Current(new)
  BY <1>2, <1>3, <1>4, <1>5, <1>7, <1>8
<1> QED
  BY <1>1, <1>9

\* Cost entries stay paid for when missions keep what their cost entries say of them.
LEMMA StaysPaid ==
  ASSUME TypeInv, CostInv, Paid, costs' \subseteq costs,
         \A i \in Interventions : mission[i].cost # NoCost /\ mission[i].status \in Arrived
            => mission'[i].status \in Arrived /\ mission'[i].km = mission[i].km
  PROVE  Paid'
<1>1. \A c \in costs : c.of \in Interventions /\ c.id # NoCost /\ mission[c.of].cost = c.id
  BY ConstantsAssumption DEF TypeInv, TypeOK, CostEntry, CostInv, Named
<1> QED
  BY <1>1 DEF Paid

\* What the row of a request that stays in flight becomes.
LEMMA StaysCurrent ==
  ASSUME Undisturbed, NEW r \in Requests, InFlight(r), req'[r] = req[r], Current(req[r])
  PROVE  Current(req[r])'
BY DEF Undisturbed, Current

\* A request whose transaction is opened has still read what is so.
LEMMA HoldCurrent ==
  ASSUME TypeInv, NEW r \in Requests, Current(req[r]), HoldIntervention(r) \/ HoldMission(r)
  PROVE  Current(req[r])'
<1>0. req \in [Requests -> Request] /\ UNCHANGED rows
  BY DEF TypeInv, TypeOK, HoldIntervention, HoldMission
<1>1. CASE HoldIntervention(r)
  <2> DEFINE count == IF req[r].delta = -1 THEN used ELSE 0
  <2>1. req' = [req EXCEPT ![r].pc = "held", ![r].count = count]
    BY <1>1 DEF HoldIntervention
  <2> HIDE DEF count
  <2>2. /\ req'[r].op = req[r].op /\ req'[r].i = req[r].i /\ req'[r].to = req[r].to
        /\ req'[r].changes = req[r].changes /\ req[r].op = "patchIntervention"
    BY <1>0, <1>1, <2>1 DEF Request, HoldIntervention, CanWrite
  <2> QED
    BY <1>0, <2>2 DEF Current, rows
<1>2. CASE HoldMission(r)
  <2> DEFINE gone == intervention[req[r].i].status = "cancelled"
  <2>1. req' = [req EXCEPT ![r].pc = "held", ![r].gone = gone]
    BY <1>2 DEF HoldMission
  <2>2. gone = FALSE => intervention[req[r].i].status # "cancelled"
    OBVIOUS
  <2> HIDE DEF gone
  <2>3. /\ req'[r].op = req[r].op /\ req'[r].i = req[r].i /\ req'[r].to = req[r].to
        /\ req'[r].setKm = req[r].setKm /\ req[r].op = "patchMission" /\ req'[r].gone = gone
    BY <1>0, <1>2, <2>1 DEF Request, HoldMission, CanWrite
  <2> QED
    BY <1>0, <2>2, <2>3 DEF Current, rows
<1> QED
  BY <1>1, <1>2

\* A step of Next begins a request, opens its transaction, ends it, or is a request of one
\* step.
LEMMA Steps ==
  ASSUME Next
  PROVE  \/ \E r \in Requests : \/ Read(r) \/ HoldIntervention(r) \/ HoldMission(r)
                                \/ (Write(r) /\ Done(r) /\ InFlight(r))
         \/ Whole
<1>1. ASSUME NEW r \in Requests, Write(r)
      PROVE  HoldIntervention(r) \/ HoldMission(r) \/ (Done(r) /\ InFlight(r))
  BY <1>1 DEF Write, WriteIntervention, CommitIntervention, WriteCreateMission, WriteMission,
     CommitMission, Abort, WriteSettle, Settle, SettledAlready, WriteSign, WriteDispatch,
     CanWrite, HoldsMission, HoldsIntervention, InFlight
<1>2. ASSUME NEW i \in Interventions, NEW s \in InterventionStatuses, NEW b \in Covered,
             CreateIntervention(i, s, b)
      PROVE  Whole
  BY <1>2 DEF CreateIntervention
<1> QED
  BY <1>1, <1>2 DEF Next, GetOrCreateProtocol, AddMedia, Finalize, Webhook, DeleteCost

\* What every request in flight has read stays so, where nobody else writes it.
LEMMA CurrentStep ==
  ASSUME TypeInv, AllCurrent, Undisturbed, [Next]_vars
  PROVE  AllCurrent'
<1>0. req \in [Requests -> Request]
  BY DEF TypeInv, TypeOK
<1>1. ASSUME NEW r \in Requests, NEW q \in Requests, q # r, InFlight(q)',
             \A p \in Requests : p # r => req'[p] = req[p]
      PROVE  Current(req[q])'
  BY <1>1, StaysCurrent DEF AllCurrent, InFlight
<1>2. ASSUME NEW r \in Requests, Read(r)
      PROVE  AllCurrent'
  <2>1. /\ UNCHANGED rows /\ \A q \in Requests : q # r => req'[q] = req[q]
        /\ Current(req'[r])
    BY <1>2, ReadCurrent
  <2>2. Current(req[r])'
    BY <2>1 DEF Current, rows
  <2> QED
    BY <1>1, <2>1, <2>2 DEF AllCurrent
<1>3. ASSUME NEW r \in Requests, HoldIntervention(r) \/ HoldMission(r)
      PROVE  AllCurrent'
  <2>1. \A q \in Requests : q # r => req'[q] = req[q]
    BY <1>0, <1>3 DEF HoldIntervention, HoldMission
  <2>2. InFlight(r)
    BY <1>3 DEF HoldIntervention, HoldMission, CanWrite, InFlight
  <2>3. Current(req[r])'
    BY <1>3, <2>2, HoldCurrent DEF AllCurrent
  <2> QED
    BY <1>1, <2>1, <2>3 DEF AllCurrent
<1>4. ASSUME NEW r \in Requests, Done(r)
      PROVE  AllCurrent'
  <2>1. /\ \A q \in Requests : q # r => req'[q] = req[q]
        /\ ~InFlight(r)'
    BY <1>0, <1>4, IdleTyped DEF Done, InFlight
  <2> QED
    BY <1>1, <2>1 DEF AllCurrent
<1>5. CASE Whole \/ UNCHANGED vars
  <2>1. req' = req
    BY <1>5 DEF Whole, vars
  <2> QED
    BY <2>1, StaysCurrent DEF AllCurrent, InFlight
<1> QED
  BY <1>2, <1>3, <1>4, <1>5, Steps

\* Nobody takes back what is paid for, while what the requests in flight have read is so.
LEMMA PaidStep ==
  ASSUME TypeInv, CostInv, Paid, AllCurrent, [Next]_vars
  PROVE  Paid'
<1>0. req \in [Requests -> Request] /\ mission \in [Interventions -> MissionRow]
  BY DEF TypeInv, TypeOK
<1>1. CASE UNCHANGED <<mission, costs>>
  BY <1>1 DEF Paid
<1>2. ASSUME costs' = costs, NEW j \in Interventions,
             \A i \in Interventions \ {j} : mission'[i] = mission[i],
             mission[j].cost # NoCost /\ mission[j].status \in Arrived
                => mission'[j].status \in Arrived /\ mission'[j].km = mission[j].km
      PROVE  Paid'
  BY <1>2, StaysPaid
<1>3. ASSUME NEW r \in Requests, Read(r)
      PROVE  Paid'
  BY <1>1, <1>3, ReadCurrent DEF rows
<1>4. ASSUME NEW r \in Requests, \/ WriteIntervention(r) \/ HoldIntervention(r) \/ Abort(r)
                                 \/ HoldMission(r) \/ SettledAlready(r) \/ WriteSign(r)
                                 \/ WriteDispatch(r)
      PROVE  Paid'
  BY <1>1, <1>4 DEF WriteIntervention, HoldIntervention, Abort, HoldMission, SettledAlready,
     WriteSign, WriteDispatch, rows
<1>5. ASSUME NEW r \in Requests, CommitIntervention(r)
      PROVE  Paid'
  <2>1. costs' = costs /\ req[r].i \in Interventions
    BY <1>5 DEF CommitIntervention, HoldsIntervention, TypeInv, TypeOK
  <2>2. /\ \A i \in Interventions \ {req[r].i} : mission'[i] = mission[i]
        /\ mission[req[r].i].status \in Arrived => mission' = mission
    BY <1>5 DEF CommitIntervention, Cascades, Over, Arrived
  <2> QED
    BY <1>2, <2>1, <2>2
<1>6. ASSUME NEW r \in Requests, WriteCreateMission(r)
      PROVE  Paid'
  <2>1. costs' = costs /\ req[r].i \in Interventions
    BY <1>6 DEF WriteCreateMission, CanWrite, TypeInv, TypeOK
  <2>2. CASE mission' = mission
    BY <1>1, <2>1, <2>2
  <2>3. CASE mission' # mission
    <3>1. /\ mission' = [mission EXCEPT ![req[r].i] = [NoMission EXCEPT !.status = "assigned"]]
          /\ mission[req[r].i].status = "absent"
      BY <1>6, <2>3 DEF WriteCreateMission, Tows
    <3> DEFINE made == [NoMission EXCEPT !.status = "assigned"]
    <3> HIDE DEF made
    <3>2. mission' = [mission EXCEPT ![req[r].i] = made]
      BY <3>1 DEF made
    <3>3. \A i \in Interventions \ {req[r].i} : mission'[i] = mission[i]
      BY <1>0, <3>2
    <3> QED
      BY <1>2, <2>1, <3>1, <3>3 DEF Arrived
  <2> QED
    BY <2>2, <2>3
<1>7. ASSUME NEW r \in Requests, WriteMission(r) \/ CommitMission(r)
      PROVE  Paid'
  <2>1. /\ InFlight(r) /\ costs' = costs /\ req[r].i \in Interventions
        /\ mission' = Patched(r) /\ req[r].op = "patchMission"
    BY <1>7 DEF WriteMission, CommitMission, CanWrite, HoldsMission, InFlight, TypeInv, TypeOK
  <2>2. /\ \A i \in Interventions \ {req[r].i} : mission'[i] = mission[i]
        /\ mission'[req[r].i].status = IF req[r].to = "keep" THEN mission[req[r].i].status
                                       ELSE req[r].to
        /\ req[r].setKm = FALSE => mission'[req[r].i].km = mission[req[r].i].km
    BY <1>0, <2>1 DEF Patched, MissionRow
  <2>3. Current(req[r]) /\ req[r].setKm \in BOOLEAN
    BY <1>0, <2>1 DEF AllCurrent, Request
  <2>4. ASSUME mission[req[r].i].cost # NoCost, mission[req[r].i].status \in Arrived
        PROVE  /\ mission'[req[r].i].status \in Arrived
               /\ mission'[req[r].i].km = mission[req[r].i].km
    <3>1. req[r].setKm = FALSE
      BY <2>1, <2>3, <2>4 DEF Current
    <3>2. req[r].to # "keep" => req[r].to \in Edges[mission[req[r].i].status]
      BY <2>1, <2>3 DEF Current
    <3>3. \A s \in Arrived : Edges[s] \subseteq Arrived
      BY DEF Edges, Arrived
    <3> QED
      BY <2>2, <2>4, <3>1, <3>2, <3>3
  <2> QED
    BY <1>2, <2>1, <2>2, <2>4
<1>8. ASSUME NEW r \in Requests, WriteSettle(r)
      PROVE  Paid'
  <2>1. /\ InFlight(r) /\ req[r].i \in Interventions /\ req[r].op = "settle"
        /\ mission[req[r].i].cost = NoCost
    BY <1>8 DEF WriteSettle, Settle, CanWrite, InFlight, TypeInv, TypeOK
  <2>2. mission[req[r].i].status \in Arrived
    BY <2>1 DEF AllCurrent, Current
  <2>3. /\ \A i \in Interventions \ {req[r].i} : mission'[i] = mission[i]
        /\ mission'[req[r].i].status \in Arrived /\ mission'[req[r].i].km = req[r].km
        /\ \A c \in costs' : c \in costs \/ (c.of = req[r].i /\ c.km = req[r].km)
    BY <1>0, <1>8, <2>1, <2>2 DEF WriteSettle, Settle, MissionRow, Arrived
  <2>4. \A c \in costs : c.of \in Interventions \ {req[r].i}
    BY <2>1, ConstantsAssumption DEF CostInv, Named, TypeInv, TypeOK, CostEntry
  <2> QED
    BY <2>2, <2>3, <2>4 DEF Paid
<1>9. ASSUME NEW c \in costs, DeleteCost(c)
      PROVE  Paid'
  <2>1. costs' \subseteq costs
    BY <1>9 DEF DeleteCost
  <2>2. \A i \in Interventions : /\ mission'[i].status = mission[i].status
                                 /\ mission'[i].km = mission[i].km
    BY <1>0, <1>9 DEF DeleteCost, MissionRow
  <2> QED
    BY <2>1, <2>2, StaysPaid
<1>10. ASSUME \/ \E i \in Interventions, s \in InterventionStatuses, b \in Covered :
                    CreateIntervention(i, s, b)
              \/ \E i \in Interventions, k \in Kinds :
                    GetOrCreateProtocol(i, k) \/ AddMedia(i, k) \/ Finalize(i, k)
              \/ \E i \in Interventions, to \in Reported : Webhook(i, to)
       PROVE  Paid'
  <2>1. UNCHANGED <<mission, costs>>
    BY <1>10 DEF CreateIntervention, GetOrCreateProtocol, AddMedia, Finalize, Webhook
  <2> QED
    BY <1>1, <2>1
<1>11. CASE UNCHANGED vars
  BY <1>1, <1>11 DEF vars
<1> QED
  BY <1>3, <1>4, <1>5, <1>6, <1>7, <1>8, <1>9, <1>10, <1>11 DEF Next, Write

\* As long as no two requests overlap, there is one at most, and nobody else writes what it
\* has read.
LEMMA AloneStep ==
  ASSUME TypeInv, SoloInv, ~overlap', [Next]_vars
  PROVE  ~overlap /\ Alone' /\ Undisturbed
<1>0. req \in [Requests -> Request]
  BY DEF TypeInv, TypeOK
<1>1. ASSUME NEW r \in Requests, Read(r)
      PROVE  ~overlap /\ Alone' /\ Undisturbed
  <2>1. /\ UNCHANGED rows /\ ~overlap /\ \A q \in Requests : ~InFlight(q)
        /\ \A q \in Requests : q # r => req'[q] = req[q]
    BY <1>1, ReadCurrent
  <2> QED
    BY <2>1 DEF Alone, InFlight, Undisturbed
<1>2. ASSUME NEW r \in Requests, HoldIntervention(r) \/ HoldMission(r)
      PROVE  ~overlap /\ Alone' /\ Undisturbed
  <2>1. /\ UNCHANGED rows /\ ~overlap /\ InFlight(r)
        /\ \A q \in Requests : q # r => req'[q] = req[q]
    BY <1>0, <1>2 DEF HoldIntervention, HoldMission, CanWrite, InFlight
  <2> QED
    BY <2>1 DEF SoloInv, Alone, InFlight, Undisturbed, rows
<1>3. ASSUME NEW r \in Requests, InFlight(r), Done(r)
      PROVE  ~overlap /\ Alone' /\ Undisturbed
  <2>1. ~overlap /\ Alone
    BY <1>3 DEF Done, SoloInv
  <2>2. /\ req'[r].pc = "idle" /\ \A q \in Requests : q # r => req'[q] = req[q]
    BY <1>0, <1>3, IdleTyped DEF Done
  <2> QED
    BY <1>3, <2>1, <2>2 DEF Alone, InFlight, Undisturbed
<1>4. CASE Whole
  BY <1>4 DEF Whole, Overlaps, Alone, InFlight, Undisturbed
<1>5. CASE UNCHANGED vars
  BY <1>5 DEF vars, SoloInv, Alone, InFlight, Undisturbed
<1> QED
  BY <1>1, <1>2, <1>3, <1>4, <1>5, Steps

\* The one request in flight writes what it has read; what ends or begins alone
\* leaves nothing stale.
LEMMA SoloStep ==
  ASSUME TypeInv, CostInv, SoloInv, [Next]_vars
  PROVE  SoloInv'
<1> SUFFICES ASSUME ~overlap'
             PROVE  Alone' /\ Paid' /\ AllCurrent'
  BY DEF SoloInv
<1>1. Alone' /\ Undisturbed /\ Paid /\ AllCurrent
  BY AloneStep DEF SoloInv
<1> QED
  BY <1>1, PaidStep, CurrentStep

\* Until requests overlap, nobody writes what is not so any more.
LEMMA AlwaysSolo == Spec => [](TypeInv /\ CostInv /\ SoloInv)
<1>1. Init => CostInv /\ SoloInv
  <2>1. Init => CostInv
    BY DEF Init, CostInv, Named, Backed, Distinct, Clean, Towed, NoMission, Idle
  <2>2. Init => SoloInv
    BY DEF Init, SoloInv, Alone, AllCurrent, Paid, InFlight, Idle
  <2> QED
    BY <2>1, <2>2
<1>2. TypeInv /\ CostInv /\ [Next]_vars => CostInv'
  BY TowedStep, CleanStep, CostStep DEF CostInv
<1>3. TypeInv /\ CostInv /\ SoloInv /\ [Next]_vars => SoloInv'
  BY SoloStep
<1> QED
  BY <1>1, <1>2, <1>3, AlwaysTyped, PTL DEF Spec

\* As long as requests do not overlap, only a delivered mission is paid for,
\* and what was paid for stays delivered over that distance: no cancellation,
\* late status or late distance, of however many interventions, takes it back.
THEOREM PaidIsDelivered == Spec => []SettledIsDelivered
<1>1. SoloInv => SettledIsDelivered
  BY DEF SoloInv, Paid, Arrived, SettledIsDelivered
<1> QED
  BY <1>1, AlwaysSolo, PTL

\* The steps that end a request and write an intervention.
LEMMA EndsWriting ==
  ASSUME TypeInv, [Next]_vars, NEW r \in Requests, req'[r].i # req[r].i,
         intervention' # intervention
  PROVE  /\ InFlight(r)
         /\ \/ WriteIntervention(r) \/ CommitIntervention(r) \/ WriteCreateMission(r)
            \/ CommitMission(r) \/ WriteDispatch(r)
<1>0. req \in [Requests -> Request]
  BY DEF TypeInv, TypeOK
<1>1. ~UNCHANGED vars /\ ~Whole
  BY DEF vars, Whole
<1>2. ~\E q \in Requests : Read(q)
  BY ReadCurrent DEF rows
<1>3. PICK q \in Requests : Write(q)
  BY <1>1, <1>2 DEF Next, CreateIntervention, GetOrCreateProtocol, AddMedia, Finalize, Webhook,
     DeleteCost
<1>4. \/ WriteIntervention(q) \/ CommitIntervention(q) \/ WriteCreateMission(q)
      \/ CommitMission(q) \/ WriteDispatch(q)
  BY <1>3 DEF Write, HoldIntervention, WriteMission, HoldMission, Abort, WriteSettle, Settle,
     SettledAlready, WriteSign, rows
<1>5. Done(q)
  BY <1>4 DEF WriteIntervention, CommitIntervention, WriteCreateMission, CommitMission,
     WriteDispatch
<1>6. q = r
  BY <1>0, <1>5 DEF Done
<1> QED
  BY <1>4, <1>6 DEF InFlight, WriteIntervention, CommitIntervention, WriteCreateMission,
     CommitMission, WriteDispatch, CanWrite, HoldsMission, HoldsIntervention

\* What the request that ends makes of its intervention, when what it has read is so.
LEMMA CurrentWrite ==
  ASSUME TypeInv, AllCurrent, [Next]_vars, NEW r \in Requests,
         NEW i \in Interventions, req[r].i = i, req'[r].i # i,
         intervention'[i].status # intervention[i].status
  PROVE  /\ intervention[i].status = "cancelled"
              => req[r].op \in {"patchIntervention", "dispatch"}
         /\ intervention'[i].status = "completed"
              => mission'[i].status \in Over \cup {"absent"}
<1>0. /\ intervention \in [Interventions -> InterventionRow] /\ req[r] \in Request
      /\ mission \in [Interventions -> MissionRow]
  BY DEF TypeInv, TypeOK
<1>1. /\ InFlight(r) /\ Current(req[r]) /\ Typed(req[r])
      /\ \/ WriteIntervention(r) \/ CommitIntervention(r) \/ WriteCreateMission(r)
         \/ CommitMission(r) \/ WriteDispatch(r)
  BY EndsWriting DEF AllCurrent, TypeInv
<1>2. CASE WriteIntervention(r) \/ CommitIntervention(r)
  <2>1. /\ req[r].op = "patchIntervention" /\ intervention'[i].status = req[r].to
        /\ mission' = mission \/ mission' = [mission EXCEPT ![i].status = "cancelled"]
    BY <1>0, <1>2 DEF WriteIntervention, CommitIntervention, CanWrite, HoldsIntervention,
       InterventionRow
  <2>2. mission'[i].status \in {mission[i].status, "cancelled"}
    BY <1>0, <2>1 DEF MissionRow
  <2> QED
    BY <1>1, <2>1, <2>2 DEF Current, Over
<1>3. CASE WriteCreateMission(r)
  <2>1. /\ req[r].op = "createMission" /\ req[r].to # "keep"
        /\ intervention'[i].status = req[r].to
    BY <1>0, <1>3 DEF WriteCreateMission, CanWrite, InterventionRow
  <2> QED
    BY <1>1, <2>1 DEF Current, Typed, Waiting
<1>4. CASE CommitMission(r)
  <2>1. /\ req[r].op = "patchMission" /\ req[r].pc = "held" /\ mission' = Patched(r)
        /\ Syncs(r) /\ intervention'[i].status = Synced[req[r].to]
    BY <1>0, <1>4 DEF CommitMission, HoldsMission, InterventionRow
  <2>2. req[r].gone = FALSE /\ req[r].to \in DOMAIN Synced /\ req[r].to # "keep"
    BY <1>0, <1>1, <2>1, StatusSets DEF Syncs, Typed, Request
  <2>3. mission'[i].status = req[r].to
    BY <1>0, <2>1, <2>2 DEF Patched, MissionRow
  <2>4. Synced[req[r].to] = "completed" => req[r].to \in Over
    BY <2>2 DEF Synced, Over
  <2> QED
    BY <1>1, <2>1, <2>2, <2>3, <2>4 DEF Current
<1>5. CASE WriteDispatch(r)
  <2>1. req[r].op = "dispatch" /\ intervention'[i].status = req[r].to
    BY <1>0, <1>5 DEF WriteDispatch, CanWrite, InterventionRow
  <2> QED
    BY <1>1, <2>1 DEF Typed
<1> QED
  BY <1>1, <1>2, <1>3, <1>4, <1>5

\* A step of a mission never brings a cancelled intervention back, for any
\* number of interventions: patchMission reads the intervention again under
\* the mission's row lock, createMission wrote only where one was waiting.
THEOREM CancelledStays == Spec => NoMissionRevives
<1> DEFINE A == ~overlap => \A r \in Requests, i \in Interventions :
                  /\ intervention[i].status = "cancelled" /\ intervention'[i].status # "cancelled"
                  /\ req[r].i = i /\ req'[r].i # i
                  => req[r].op \in {"patchIntervention", "dispatch"}
<1>1. TypeInv /\ SoloInv /\ [Next]_vars => A
  BY CurrentWrite DEF SoloInv
<1>2. TypeInv /\ SoloInv /\ [Next]_vars => [A]_vars
  BY <1>1
<1> QED
  BY <1>2, AlwaysSolo, PTL DEF Spec, NoMissionRevives

\* Whoever completes an intervention leaves its mission over, or there is
\* none: RoadsideService.patch refuses a completion while the mission is open,
\* and a mission completes its intervention only when it is delivered.
THEOREM CompletedIsOver == Spec => CompletedWhenOver
<1> DEFINE A == ~overlap => \A r \in Requests, i \in Interventions :
                  /\ intervention[i].status # "completed" /\ intervention'[i].status = "completed"
                  /\ req[r].i = i /\ req'[r].i # i
                  => mission'[i].status \in Over \cup {"absent"}
<1>1. TypeInv /\ SoloInv /\ [Next]_vars => A
  BY CurrentWrite DEF SoloInv
<1>2. TypeInv /\ SoloInv /\ [Next]_vars => [A]_vars
  BY <1>1
<1> QED
  BY <1>2, AlwaysSolo, PTL DEF Spec, CompletedWhenOver

\* What a lock taken with the read would give: as long as the rows of a request in flight
\* are written by nobody else, a cost entry stays that of a mission delivered over its
\* distance, no step of a mission brings a cancelled intervention back, and whoever
\* completes an intervention leaves its mission over, however many requests overlap: it is
\* the read outside the transaction (rsa-mission.service.ts, roadside.service.ts) that
\* these three depend on.
THEOREM LocksFromTheReadSuffice ==
  Spec /\ [][Undisturbed]_vars =>
    /\ []Paid
    /\ [][\A r \in Requests, i \in Interventions :
            /\ intervention[i].status = "cancelled" /\ intervention'[i].status # "cancelled"
            /\ req[r].i = i /\ req'[r].i # i
            => req[r].op \in {"patchIntervention", "dispatch"}]_vars
    /\ [][\A r \in Requests, i \in Interventions :
            /\ intervention[i].status # "completed" /\ intervention'[i].status = "completed"
            /\ req[r].i = i /\ req'[r].i # i
            => mission'[i].status \in Over \cup {"absent"}]_vars
<1> DEFINE Revives == \A r \in Requests, i \in Interventions :
                  /\ intervention[i].status = "cancelled" /\ intervention'[i].status # "cancelled"
                  /\ req[r].i = i /\ req'[r].i # i
                  => req[r].op \in {"patchIntervention", "dispatch"}
           Completes == \A r \in Requests, i \in Interventions :
                  /\ intervention[i].status # "completed" /\ intervention'[i].status = "completed"
                  /\ req[r].i = i /\ req'[r].i # i
                  => mission'[i].status \in Over \cup {"absent"}
<1>1. Init => Paid /\ AllCurrent
  BY DEF Init, Paid, AllCurrent, InFlight, Idle
<1>2. TypeInv /\ CostInv /\ Paid /\ AllCurrent /\ [Next]_vars => Paid'
  BY PaidStep
<1>3. UNCHANGED vars => Undisturbed
  BY DEF vars, Undisturbed
<1>4. TypeInv /\ AllCurrent /\ [Next]_vars /\ [Undisturbed]_vars => AllCurrent'
  BY <1>3, CurrentStep
<1>5. TypeInv /\ AllCurrent /\ [Next]_vars => [Revives]_vars /\ [Completes]_vars
  BY CurrentWrite
<1>6. Spec => [](TypeInv /\ CostInv)
  BY AlwaysSolo, PTL
<1> HIDE DEF Revives, Completes
<1>7. Spec /\ [][Undisturbed]_vars => []Paid /\ [][Revives]_vars /\ [][Completes]_vars
  BY <1>1, <1>2, <1>4, <1>5, <1>6, PTL DEF Spec
<1> QED
  BY <1>7 DEF Revives, Completes
=============================================================================
