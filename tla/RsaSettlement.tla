---------------------------- MODULE RsaSettlement ---------------------------
(***************************************************************************)
(* What a roadside intervention costs: from the enrolments of the vehicle, *)
(* by the entitlement found when help is asked for and the rate card found *)
(* when the mission is made, to the breakdown of the settlement.           *)
(*                                                                         *)
(*   api/src/roadside/rsa-entitlement.ts      entitlement of an enrolment  *)
(*   api/src/roadside/rsa-settlement.ts       computeRsaSettlement         *)
(*   api/src/roadside/rsa.service.ts          plans, profiles, enrolments  *)
(*   api/src/roadside/roadside.service.ts     the snapshot of the plan     *)
(*   api/src/roadside/rsa-mission.service.ts  the snapshot of the card     *)
(*                                                                         *)
(* RsaMission has when and how often a mission is settled, and the counter *)
(* of interventions; here is one mission, settled once, and its amount.    *)
(*                                                                         *)
(* Abstractions: a supplier has one plan; an enrolment is valid or it is   *)
(* not (status, dates, active plan); lines of no amount are left out.      *)
(* Amounts are whole cents and not negative.                               *)
(***************************************************************************)
EXTENDS Integers, Sequences, FiniteSets

CONSTANTS
    RsaSuppliers,   \* roadside suppliers
    Plans,          \* the contents a plan may have
    Cards,          \* the rate cards a supplier's profile may have
    MaxEnrolments,  \* bound: enrolments of the vehicle
    MaxDistance,    \* bound: kilometres of a tow
    NoSupplier,     \* supplierId = null
    NoCap           \* maxInterventionsPerYear = null

Features == {"tow", "other"}
Entitlements == {"covered", "partial", "out_of_plan", "pay_per_use"}
Plan == [features : SUBSET Features, cap : Nat \cup {NoCap}, included : Nat, overage : Nat]
Card == [callout : Nat, hook : Nat, perKm : Nat, winch : Nat, nightPct : Nat]

ASSUME SettlementAssumption ==
    /\ Plans \subseteq Plan /\ Cards \subseteq Card
    /\ MaxEnrolments \in Nat /\ MaxDistance \in Nat
    /\ NoSupplier \notin RsaSuppliers /\ NoCap \notin Nat

VARIABLES
    plan,       \* RsaPlan of each supplier
    card,       \* the rates of each supplier's RsaSupplierProfile
    enrolled,   \* RsaVehicleEnrollment rows of the vehicle, newest first
    help,       \* the intervention with the entitlement it was made with
    towing,     \* the mission with the rate card it was made with
    bill,       \* the settlement
    preview,    \* history: what previewSettlement showed when the mission was made
    recast      \* history: the kind of help has been changed

settlementVars == <<plan, card, enrolled, help, towing, bill, preview, recast>>

LineCodes == {"callout", "hook", "km", "winch", "night_weekend"}
Terms == [km : 0..MaxDistance, night : BOOLEAN, winch : BOOLEAN]
NoHelp == [status |-> "none"]
NoTowing == [made |-> FALSE]
NoBill == [paid |-> FALSE]

SettlementTypeOK ==
    /\ plan \in [RsaSuppliers -> Plans] /\ card \in [RsaSuppliers -> Cards]
    /\ enrolled \in Seq([supplier : RsaSuppliers, valid : BOOLEAN])
    /\ help # NoHelp => /\ help.status \in Entitlements /\ help.kind \in Features
                        /\ help.supplier \in RsaSuppliers \cup {NoSupplier}
                        /\ help.included \in Nat /\ help.overage \in Nat
    /\ towing # NoTowing => towing.card \in Cards /\ preview \in [Terms -> Nat]
    /\ recast \in BOOLEAN
    /\ bill # NoBill => bill.terms \in Terms /\ bill.lines \in [LineCodes -> Nat]

SettlementInit ==
    /\ plan \in [RsaSuppliers -> Plans]
    /\ card \in [RsaSuppliers -> Cards]
    /\ enrolled = <<>>
    /\ help = NoHelp /\ towing = NoTowing /\ bill = NoBill
    /\ preview = <<>> /\ recast = FALSE
-----------------------------------------------------------------------------
(***************************************************************************)
(* Entitlement.                                                            *)
(***************************************************************************)
\* pickActiveEnrollment: the newest valid one of the supplier asked for, else the
\* newest valid one.  The result is the supplier it is with.
Pick(s) ==
    LET valid == {i \in DOMAIN enrolled : enrolled[i].valid}
        newest == CHOOSE i \in valid : \A j \in valid : i =< j
    IN  IF valid = {} THEN NoSupplier
        ELSE IF \E i \in valid : enrolled[i].supplier = s THEN s
        ELSE enrolled[newest].supplier

\* resolveEntitlementFromEnrollment.
EntitlementOf(p, kind, usedThisYear) ==
    IF kind \notin p.features THEN "out_of_plan"
    ELSE IF p.cap # NoCap /\ usedThisYear >= p.cap THEN "partial"
    ELSE "covered"

\* createIntervention takes the entitlement and the terms of the plan down; help without
\* an enrolment has no terms.
AskHelp(kind, s, usedThisYear) ==
    LET by == Pick(s)
        supplier == IF s = NoSupplier THEN by ELSE s
    IN
    /\ help = NoHelp
    /\ help' = IF by = NoSupplier
               THEN [status |-> "pay_per_use", kind |-> kind, supplier |-> supplier,
                     terms |-> FALSE, included |-> 0, overage |-> 0]
               ELSE [status |-> EntitlementOf(plan[by], kind, usedThisYear), kind |-> kind,
                     supplier |-> supplier, terms |-> TRUE,
                     included |-> plan[by].included, overage |-> plan[by].overage]
    /\ UNCHANGED <<plan, card, enrolled, towing, bill, preview, recast>>

\* patch changes the kind of help and the supplier, and leaves the entitlement.
PatchIntervention(kind, s) ==
    /\ help # NoHelp
    /\ help' = [help EXCEPT !.kind = kind, !.supplier = s]
    /\ recast' = (recast \/ kind # help.kind)
    /\ UNCHANGED <<plan, card, enrolled, towing, bill, preview>>
-----------------------------------------------------------------------------
(***************************************************************************)
(* computeRsaSettlement, for the help h, the rate card r and the terms x.  *)
(***************************************************************************)
InPlan(h) == h.status \in {"covered", "partial"}
Nothing == [l \in LineCodes |-> 0]
Total(lines) ==
    lines["callout"] + lines["hook"] + lines["km"] + lines["winch"] + lines["night_weekend"]

\* Math.round of a percentage.
Percent(cents, pct) == (2 * cents * pct + 100) \div 200

\* applyNightWeekend.
Surcharged(lines, r, x) ==
    IF x.night THEN [lines EXCEPT !.night_weekend = Percent(Total(lines), r.nightPct)]
               ELSE lines

RateCardLines(h, r, x) ==
    [Nothing EXCEPT !.callout = r.callout,
                    !.hook = IF h.kind = "tow" THEN r.hook ELSE 0,
                    !.km = IF h.kind = "tow" THEN x.km * r.perKm ELSE 0,
                    !.winch = IF x.winch THEN r.winch ELSE 0]

BillableKm_Flaw(h, x) == x.km
BillableKm(h, x) == IF x.km > h.included THEN x.km - h.included ELSE 0

\* planOverageSettlement.
OverageLines(h, r, x) ==
    [Nothing EXCEPT !.km = BillableKm(h, x) * h.overage,
                    !.winch = IF x.winch THEN r.winch ELSE 0]

SettlementLines(h, r, x) ==
    IF InPlan(h) /\ h.kind # "tow" THEN Nothing
    ELSE IF InPlan(h) /\ h.terms THEN Surcharged(OverageLines(h, r, x), r, x)
    ELSE Surcharged(RateCardLines(h, r, x), r, x)

\* createMission takes the rate card of the supplier down.
MakeMission ==
    /\ help # NoHelp /\ help.supplier # NoSupplier
    /\ towing = NoTowing
    /\ towing' = [made |-> TRUE, card |-> card[help.supplier]]
    /\ preview' = [x \in Terms |-> Total(SettlementLines(help, towing'.card, x))]
    /\ UNCHANGED <<plan, card, enrolled, help, bill, recast>>

SettleMission(x) ==
    /\ towing # NoTowing /\ bill = NoBill
    /\ bill' = [paid |-> TRUE, terms |-> x, help |-> help,
                lines |-> SettlementLines(help, towing.card, x)]
    /\ UNCHANGED <<plan, card, enrolled, help, towing, preview, recast>>
-----------------------------------------------------------------------------
(***************************************************************************)
(* Plans, profiles and enrolments change at any time.                      *)
(***************************************************************************)
PatchPlan(s, p) ==
    /\ plan[s] # p /\ plan' = [plan EXCEPT ![s] = p]
    /\ UNCHANGED <<card, enrolled, help, towing, bill, preview, recast>>

UpsertProfile(s, r) ==
    /\ card[s] # r /\ card' = [card EXCEPT ![s] = r]
    /\ UNCHANGED <<plan, enrolled, help, towing, bill, preview, recast>>

\* createEnrollment refuses a second active one with a supplier; patchEnrollment can
\* make a former one active beside it.
CreateEnrolment(s) ==
    /\ Len(enrolled) < MaxEnrolments
    /\ ~\E i \in DOMAIN enrolled : enrolled[i] = [supplier |-> s, valid |-> TRUE]
    /\ enrolled' = <<[supplier |-> s, valid |-> TRUE]>> \o enrolled
    /\ UNCHANGED <<plan, card, help, towing, bill, preview, recast>>

PatchEnrolment(i) ==
    /\ enrolled' = [enrolled EXCEPT ![i].valid = ~@]
    /\ UNCHANGED <<plan, card, help, towing, bill, preview, recast>>

SettlementNext ==
    \/ \E kind \in Features, s \in RsaSuppliers \cup {NoSupplier} :
         \/ \E usedThisYear \in {0, 1} : AskHelp(kind, s, usedThisYear)
         \/ PatchIntervention(kind, s)
    \/ MakeMission
    \/ \E x \in Terms : SettleMission(x)
    \/ \E s \in RsaSuppliers :
         \/ \E p \in Plans : PatchPlan(s, p)
         \/ \E r \in Cards : UpsertProfile(s, r)
         \/ CreateEnrolment(s)
    \/ \E i \in DOMAIN enrolled : PatchEnrolment(i)

SettlementSpec == SettlementInit /\ [][SettlementNext]_settlementVars
-----------------------------------------------------------------------------
\* The charge that help h would have with the rate card of the mission.
Charge(h, x) == Total(SettlementLines(h, towing.card, x))

\* A settlement charges what the preview showed when the mission was made, whatever
\* became of plans, rate cards and enrolments since, unless the kind of help has been
\* changed.  Nothing is due for a tow within the kilometres of the plan without a winch;
\* a kilometre more, the winch or the night never lowers the amount; and help within a
\* plan whose kilometre is no dearer than the rate card's never costs more than help
\* without one.
SettlementAgrees ==
    bill # NoBill =>
        LET x == bill.terms
            h == bill.help
            due == Total(bill.lines)
        IN  /\ recast \/ due = preview[x]
            /\ InPlan(h) /\ x.km =< h.included /\ ~x.winch => due = 0
            /\ \A y \in Terms :
                 y.km >= x.km /\ (x.night => y.night) /\ (x.winch => y.winch)
                     => Charge(h, y) >= due
            /\ InPlan(h) /\ h.overage =< towing.card.perKm
                 => due =< Charge([h EXCEPT !.status = "pay_per_use"], x)
=============================================================================
