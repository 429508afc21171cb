------------------------- MODULE FleetRecords_proofs -------------------------
(***************************************************************************)
(* Proofs about the records that have no part in each other's steps: the   *)
(* amounts of RsaSettlement, for any plans, rate cards and distances, the  *)
(* menu of ReminderMenu, for any number of requests at once, the history   *)
(* of DamageDossier, for any bound on it and any number of calls, and the  *)
(* kilometres of VehicleOdometer, for any records, moments and writers;    *)
(* and that the eight parts put together in MCFleetRecords behave each as  *)
(* its own module says.                                                    *)
(***************************************************************************)
EXTENDS MCFleetRecords, TyreStore_proofs, PartnerOutbox_proofs, RsaOfflineQueue_proofs,
        Membership_proofs, SequenceTheorems, FiniteSetTheorems, TLAPS
-----------------------------------------------------------------------------
(***************************************************************************)
(* Amounts.  A settlement adds up what it charges before the surcharge,    *)
(* Base, and a percentage of it.                                           *)
(***************************************************************************)
Help == [status : Entitlements, kind : Features, supplier : RsaSuppliers \cup {NoSupplier},
         terms : BOOLEAN, included : Nat, overage : Nat]
Towing == [made : {TRUE}, card : Cards]
Enrolment == [supplier : RsaSuppliers, valid : BOOLEAN]

WinchPart(r, x) == IF x.winch THEN r.winch ELSE 0
TowPart(h, r, x) == IF h.kind = "tow" THEN r.hook + x.km * r.perKm ELSE 0
Base(h, r, x) ==
    IF InPlan(h) /\ h.kind # "tow" THEN 0
    ELSE IF InPlan(h) /\ h.terms THEN BillableKm(h, x) * h.overage + WinchPart(r, x)
    ELSE r.callout + TowPart(h, r, x) + WinchPart(r, x)
Due(h, r, x) ==
    IF x.night THEN Base(h, r, x) + Percent(Base(h, r, x), r.nightPct) ELSE Base(h, r, x)

LEMMA ProductGrows ==
  \A a, b, c, d \in Nat : /\ a * c \in Nat
                          /\ a =< b /\ c =< d => a * c =< b * d
                          /\ a = 0 => a * c = 0
<1>1. \A a, c \in Nat : a * c \in Nat
  OBVIOUS
<1>2. ASSUME NEW a \in Nat, NEW b \in Nat, NEW c \in Nat, NEW d \in Nat, a =< b, c =< d
      PROVE  a * c =< b * d
  <2>1. PICK e \in Nat : b = a + e
    <3>1. b - a \in Nat /\ b = a + (b - a)
      BY <1>2
    <3> QED
      BY <3>1
  <2>2. PICK f \in Nat : d = c + f
    <3>1. d - c \in Nat /\ d = c + (d - c)
      BY <1>2
    <3> QED
      BY <3>1
  <2>3. b * d = a * c + (a * f + e * c + e * f)
    BY <2>1, <2>2
  <2>4. a * f \in Nat /\ e * c \in Nat /\ e * f \in Nat /\ a * c \in Nat
    BY <1>1
  <2> QED
    BY <2>3, <2>4
<1> QED
  BY <1>1, <1>2

LEMMA PercentGrows ==
  \A a, b, p \in Nat : /\ Percent(a, p) \in Nat
                       /\ Percent(0, p) = 0
                       /\ a =< b => Percent(a, p) =< Percent(b, p)
<1> SUFFICES ASSUME NEW a \in Nat, NEW b \in Nat, NEW p \in Nat
             PROVE  /\ Percent(a, p) \in Nat /\ Percent(0, p) = 0
                    /\ a =< b => Percent(a, p) =< Percent(b, p)
  OBVIOUS
<1>1. /\ (2 * a) * p \in Nat /\ (2 * b) * p \in Nat
      /\ a =< b => (2 * a) * p =< (2 * b) * p
      /\ (2 * 0) * p = 0
  <2>1. 2 * a \in Nat /\ 2 * b \in Nat /\ (a =< b => 2 * a =< 2 * b) /\ 2 * 0 = 0
    OBVIOUS
  <2> QED
    BY <2>1, ProductGrows
<1>2. \A m, n \in Nat : /\ (m + 100) \div 200 \in Nat
                        /\ m =< n => (m + 100) \div 200 =< (n + 100) \div 200
  OBVIOUS
<1>3. (0 + 100) \div 200 = 0
  OBVIOUS
<1> QED
  BY <1>1, <1>2, <1>3 DEF Percent

LEMMA AmountTypes ==
  ASSUME NEW h \in Help, NEW r \in Card, NEW x \in Terms
  PROVE  /\ x.km \in Nat /\ BillableKm(h, x) \in Nat /\ BillableKm(h, x) =< x.km
         /\ BillableKm(h, x) * h.overage \in Nat /\ x.km * r.perKm \in Nat
         /\ WinchPart(r, x) \in Nat /\ TowPart(h, r, x) \in Nat
         /\ Base(h, r, x) \in Nat /\ Percent(Base(h, r, x), r.nightPct) \in Nat
<1>1. x.km \in Nat /\ h.included \in Nat /\ h.overage \in Nat
  BY SettlementAssumption DEF SettlementAssumption, Terms, Help
<1>2. /\ r.callout \in Nat /\ r.hook \in Nat /\ r.perKm \in Nat /\ r.winch \in Nat
      /\ r.nightPct \in Nat
  BY DEF Card
<1>3. BillableKm(h, x) \in Nat /\ BillableKm(h, x) =< x.km
  BY <1>1 DEF BillableKm
<1>4. BillableKm(h, x) * h.overage \in Nat /\ x.km * r.perKm \in Nat
  BY <1>1, <1>2, <1>3, ProductGrows
<1>5. WinchPart(r, x) \in Nat /\ TowPart(h, r, x) \in Nat
  BY <1>2, <1>4 DEF WinchPart, TowPart
<1>6. Base(h, r, x) \in Nat
  BY <1>2, <1>4, <1>5 DEF Base
<1> QED
  BY <1>1, <1>2, <1>3, <1>4, <1>5, <1>6, PercentGrows

LEMMA NothingTotal ==
  /\ Nothing \in [LineCodes -> Nat] /\ Total(Nothing) = 0
  /\ \A l \in LineCodes : Nothing[l] = 0
BY DEF Nothing, LineCodes, Total

\* What applyNightWeekend does to a total.
LEMMA SurchargedTotal ==
  ASSUME NEW lines \in [LineCodes -> Nat], lines["night_weekend"] = 0,
         NEW r \in Card, NEW x \in Terms
  PROVE  /\ Surcharged(lines, r, x) \in [LineCodes -> Nat]
         /\ Total(lines) \in Nat
         /\ Total(Surcharged(lines, r, x)) =
              IF x.night THEN Total(lines) + Percent(Total(lines), r.nightPct) ELSE Total(lines)
<1>1. Total(lines) \in Nat
  BY DEF Total, LineCodes
<1>2. r.nightPct \in Nat
  BY DEF Card
<1>3. Percent(Total(lines), r.nightPct) \in Nat
  BY <1>1, <1>2, PercentGrows
<1> DEFINE extra == Percent(Total(lines), r.nightPct)
<1> HIDE DEF extra
<1>4. ASSUME x.night
      PROVE  /\ Surcharged(lines, r, x) \in [LineCodes -> Nat]
             /\ Total(Surcharged(lines, r, x)) = Total(lines) + extra
  <2>1. Surcharged(lines, r, x) = [lines EXCEPT !["night_weekend"] = extra]
    BY <1>4 DEF Surcharged, extra
  <2>2. extra \in Nat
    BY <1>3 DEF extra
  <2> QED
    BY <2>1, <2>2 DEF Total, LineCodes
<1> QED
  BY <1>1, <1>4 DEF Surcharged, extra

\* The lines of a settlement add up to the amount due.
LEMMA TotalIsDue ==
  ASSUME NEW h \in Help, NEW r \in Card, NEW x \in Terms
  PROVE  /\ SettlementLines(h, r, x) \in [LineCodes -> Nat]
         /\ Total(SettlementLines(h, r, x)) = Due(h, r, x)
         /\ Due(h, r, x) \in Nat
<1> USE AmountTypes
<1>0. r.nightPct \in Nat /\ r.callout \in Nat /\ r.hook \in Nat
  BY DEF Card
<1>1. CASE InPlan(h) /\ h.kind # "tow"
  <2>1. Percent(0, r.nightPct) = 0
    BY <1>0, PercentGrows
  <2> QED
    BY <1>1, <2>1, NothingTotal DEF SettlementLines, Due, Base
<1>2. CASE ~(InPlan(h) /\ h.kind # "tow") /\ InPlan(h) /\ h.terms
  <2> DEFINE lines == OverageLines(h, r, x)
             km == BillableKm(h, x) * h.overage
             winch == IF x.winch THEN r.winch ELSE 0
  <2>1. km \in Nat /\ winch \in Nat /\ winch = WinchPart(r, x)
    BY DEF WinchPart
  <2>2. lines = [[Nothing EXCEPT !["km"] = km] EXCEPT !["winch"] = winch]
    BY DEF OverageLines
  <2> HIDE DEF km, winch
  <2>3. lines \in [LineCodes -> Nat] /\ lines["night_weekend"] = 0 /\ Total(lines) = km + winch
    BY <2>1, <2>2, NothingTotal DEF LineCodes, Total
  <2>4. SettlementLines(h, r, x) = Surcharged(lines, r, x)
    BY <1>2 DEF SettlementLines
  <2>5. Base(h, r, x) = km + winch
    BY <1>2, <2>1 DEF Base, km
  <2> HIDE DEF lines
  <2> QED
    BY <2>3, <2>4, <2>5, SurchargedTotal DEF Due
<1>3. CASE ~(InPlan(h) /\ h.kind # "tow") /\ ~(InPlan(h) /\ h.terms)
  <2> DEFINE lines == RateCardLines(h, r, x)
             hook == IF h.kind = "tow" THEN r.hook ELSE 0
             km == IF h.kind = "tow" THEN x.km * r.perKm ELSE 0
             winch == IF x.winch THEN r.winch ELSE 0
  <2>1. /\ hook \in Nat /\ km \in Nat /\ winch \in Nat /\ winch = WinchPart(r, x)
        /\ hook + km = TowPart(h, r, x)
    BY <1>0 DEF WinchPart, TowPart
  <2>2. lines = [[[[Nothing EXCEPT !["callout"] = r.callout] EXCEPT !["hook"] = hook]
                    EXCEPT !["km"] = km] EXCEPT !["winch"] = winch]
    BY DEF RateCardLines
  <2> HIDE DEF hook, km, winch
  <2>3. /\ lines \in [LineCodes -> Nat] /\ lines["night_weekend"] = 0
        /\ Total(lines) = r.callout + hook + km + winch
    BY <1>0, <2>1, <2>2, NothingTotal DEF LineCodes, Total
  <2>4. SettlementLines(h, r, x) = Surcharged(lines, r, x)
    BY <1>3 DEF SettlementLines
  <2>5. Base(h, r, x) = r.callout + hook + km + winch
    BY <1>0, <1>3, <2>1 DEF Base
  <2> HIDE DEF lines
  <2> QED
    BY <2>3, <2>4, <2>5, SurchargedTotal DEF Due
<1> QED
  BY <1>1, <1>2, <1>3

\* The surcharge keeps the order of amounts.
LEMMA DueGrows ==
  ASSUME NEW h \in Help, NEW g \in Help, NEW r \in Card, NEW x \in Terms, NEW y \in Terms,
         Base(h, r, x) =< Base(g, r, y), x.night => y.night
  PROVE  Due(h, r, x) =< Due(g, r, y)
<1>0. r.nightPct \in Nat
  BY DEF Card
<1> DEFINE a == Base(h, r, x)
           b == Base(g, r, y)
<1>1. a \in Nat /\ b \in Nat /\ a =< b
  BY AmountTypes
<1> HIDE DEF a, b
<1>2. /\ Percent(a, r.nightPct) \in Nat /\ Percent(b, r.nightPct) \in Nat
      /\ Percent(a, r.nightPct) =< Percent(b, r.nightPct)
  BY <1>0, <1>1, PercentGrows
<1>3. /\ Due(h, r, x) = IF x.night THEN a + Percent(a, r.nightPct) ELSE a
      /\ Due(g, r, y) = IF y.night THEN b + Percent(b, r.nightPct) ELSE b
  BY DEF Due, a, b
<1> QED
  BY <1>1, <1>2, <1>3

\* The three facts about amounts.
LEMMA FreeWithinPlan ==
  ASSUME NEW h \in Help, NEW r \in Card, NEW x \in Terms,
         InPlan(h), h.terms, x.km =< h.included, ~x.winch
  PROVE  Due(h, r, x) = 0
<1>1. r.nightPct \in Nat /\ h.overage \in Nat /\ h.included \in Nat /\ x.km \in Nat
  BY AmountTypes DEF Card, Help
<1>2. BillableKm(h, x) = 0 /\ WinchPart(r, x) = 0
  BY <1>1 DEF BillableKm, WinchPart
<1>3. 0 * h.overage = 0
  BY <1>1, ProductGrows
<1>4. Base(h, r, x) = 0
  BY <1>2, <1>3 DEF Base
<1>5. Percent(0, r.nightPct) = 0
  BY <1>1, PercentGrows
<1> QED
  BY <1>4, <1>5 DEF Due

LEMMA MoreIsNoCheaper ==
  ASSUME NEW h \in Help, NEW r \in Card, NEW x \in Terms, NEW y \in Terms,
         y.km >= x.km, x.night => y.night, x.winch => y.winch
  PROVE  Due(h, r, x) =< Due(h, r, y)
<1>1. /\ x.km \in Nat /\ y.km \in Nat /\ h.included \in Nat /\ h.overage \in Nat
      /\ r.perKm \in Nat /\ r.winch \in Nat /\ r.hook \in Nat /\ r.callout \in Nat
  BY AmountTypes DEF Card, Help
<1>2. BillableKm(h, x) \in Nat /\ BillableKm(h, y) \in Nat /\ BillableKm(h, x) =< BillableKm(h, y)
  BY <1>1 DEF BillableKm
<1>3. /\ BillableKm(h, x) * h.overage =< BillableKm(h, y) * h.overage
      /\ x.km * r.perKm =< y.km * r.perKm
  BY <1>1, <1>2, ProductGrows
<1>4. WinchPart(r, x) =< WinchPart(r, y)
  BY <1>1 DEF WinchPart
<1>5. TowPart(h, r, x) =< TowPart(h, r, y)
  <2>1. x.km * r.perKm \in Nat /\ y.km * r.perKm \in Nat
    BY AmountTypes
  <2> QED
    BY <1>1, <1>3, <2>1 DEF TowPart
<1>6. Base(h, r, x) =< Base(h, r, y)
  <2>1. /\ BillableKm(h, x) * h.overage \in Nat /\ BillableKm(h, y) * h.overage \in Nat
        /\ WinchPart(r, x) \in Nat /\ WinchPart(r, y) \in Nat
        /\ TowPart(h, r, x) \in Nat /\ TowPart(h, r, y) \in Nat
    BY AmountTypes
  <2> QED
    BY <1>1, <1>3, <1>4, <1>5, <2>1 DEF Base
<1> QED
  BY <1>6, DueGrows

LEMMA PlanIsNoDearer ==
  ASSUME NEW h \in Help, NEW g \in Help, NEW r \in Card, NEW x \in Terms,
         InPlan(h), h.terms, ~InPlan(g), g.kind = h.kind, h.overage =< r.perKm
  PROVE  Due(h, r, x) =< Due(g, r, x)
<1>1. /\ x.km \in Nat /\ h.overage \in Nat /\ r.perKm \in Nat /\ r.hook \in Nat
      /\ r.callout \in Nat /\ BillableKm(h, x) \in Nat /\ BillableKm(h, x) =< x.km
  BY AmountTypes DEF Card, Help
<1>2. BillableKm(h, x) * h.overage =< x.km * r.perKm
  BY <1>1, ProductGrows
<1>3. /\ BillableKm(h, x) * h.overage \in Nat /\ x.km * r.perKm \in Nat
      /\ WinchPart(r, x) \in Nat /\ Base(g, r, x) \in Nat
  BY AmountTypes
<1>4. Base(h, r, x) =< Base(g, r, x)
  <2>1. CASE h.kind # "tow"
    BY <1>3, <2>1 DEF Base
  <2>2. CASE h.kind = "tow"
    BY <1>1, <1>2, <1>3, <2>2 DEF Base, TowPart
  <2> QED
    BY <2>1, <2>2
<1> QED
  BY <1>4, DueGrows
-----------------------------------------------------------------------------
(***************************************************************************)
(* The mission and its amounts.  Help within a plan has its terms; what    *)
(* the preview showed is due as long as the kind of help is the same; and  *)
(* a bill is for the help, the rate card and the terms it was made with.   *)
(***************************************************************************)
Termed(h) == h \in Help /\ (InPlan(h) => h.terms)

SettlementInv ==
    /\ plan \in [RsaSuppliers -> Plans] /\ card \in [RsaSuppliers -> Cards]
    /\ enrolled \in Seq(Enrolment)
    /\ recast \in BOOLEAN
    /\ help = NoHelp \/ Termed(help)
    /\ towing = NoTowing \/ (towing \in Towing /\ help # NoHelp)
    /\ towing # NoTowing => /\ preview \in [Terms -> Nat]
                            /\ recast \/ \A x \in Terms : preview[x] = Due(help, towing.card, x)
    /\ bill # NoBill => /\ towing # NoTowing /\ bill.terms \in Terms /\ Termed(bill.help)
                        /\ bill.lines = SettlementLines(bill.help, towing.card, bill.terms)
                        /\ recast \/ Total(bill.lines) = preview[bill.terms]

LEMMA NoRows ==
  /\ \A h \in Help : h # NoHelp
  /\ \A t \in Towing : t # NoTowing /\ t.card \in Card
<1>1. \A h \in Help : h.status # "none"
  BY DEF Help, Entitlements
<1>2. NoHelp.status = "none"
  BY DEF NoHelp
<1>3. \A t \in Towing : t.made = TRUE
  BY DEF Towing
<1>4. NoTowing.made = FALSE
  BY DEF NoTowing
<1>5. \A t \in Towing : t.card \in Card
  BY SettlementAssumption DEF SettlementAssumption, Towing
<1> QED
  BY <1>1, <1>2, <1>3, <1>4, <1>5

\* A nonempty set of enrolments has a newest.
LEMMA NewestExists ==
  ASSUME NEW n \in Nat, NEW S \in SUBSET (1..n), S # {}
  PROVE  \E l \in S : \A i \in S : l =< i
<1> DEFINE Below(x) == {y \in S : y < x}
           F == {Below(x) : x \in S}
           R == StrictSubsetOrdering(S)
<1>1. IsFiniteSet(S) /\ S \subseteq Int
  <2>1. IsFiniteSet(1..n) /\ 1..n \subseteq Int
    BY FS_Interval
  <2> QED
    BY <2>1, FS_Subset
<1>2. IsWellFoundedOn(R, SUBSET S)
  BY <1>1, FS_StrictSubsetOrderingWellFounded, FS_FiniteSubsetsOfFinite
<1>3. F \subseteq SUBSET S /\ F # {}
  OBVIOUS
<1> HIDE DEF R
<1>4. PICK T \in F : \A U \in F : <<U, T>> \notin R
  BY <1>2, <1>3, WFMin
<1>5. PICK m \in S : T = Below(m)
  BY <1>4
<1>6. ASSUME NEW x \in S, x < m
      PROVE  FALSE
  <2>1. Below(x) \subseteq Below(m) /\ Below(x) # Below(m)
    <3>1. x \in Below(m) /\ x \notin Below(x)
      BY <1>1, <1>6
    <3>2. \A y \in Below(x) : y \in Below(m)
      BY <1>1, <1>6
    <3> QED
      BY <3>1, <3>2
  <2>2. <<Below(x), Below(m)>> \in R
    BY <2>1, <1>3 DEF R, StrictSubsetOrdering
  <2> QED
    BY <2>2, <1>4, <1>5
<1> QED
  BY <1>1, <1>6

LEMMA PickTyped ==
  ASSUME SettlementInv, NEW s \in RsaSuppliers \cup {NoSupplier}
  PROVE  Pick(s) \in RsaSuppliers \cup {NoSupplier}
<1> DEFINE valid == {i \in DOMAIN enrolled : enrolled[i].valid}
           newest == CHOOSE i \in valid : \A j \in valid : i =< j
<1>1. /\ Len(enrolled) \in Nat /\ DOMAIN enrolled = 1..Len(enrolled)
      /\ \A i \in DOMAIN enrolled : enrolled[i] \in Enrolment
  BY LenProperties, ElementOfSeq DEF SettlementInv
<1>2. valid # {} => newest \in valid
  BY <1>1, NewestExists
<1>3. \A i \in valid : enrolled[i].supplier \in RsaSuppliers
  BY <1>1 DEF Enrolment
<1>4. Pick(s) = IF valid = {} THEN NoSupplier
                ELSE IF \E i \in valid : enrolled[i].supplier = s THEN s
                ELSE enrolled[newest].supplier
  BY DEF Pick
<1> HIDE DEF valid, newest
<1> QED
  BY <1>2, <1>3, <1>4

LEMMA SettlementStart == SettlementInit => SettlementInv
<1>1. <<>> \in Seq(Enrolment)
  BY EmptySeq
<1> QED
  BY <1>1 DEF SettlementInit, SettlementInv

LEMMA SettlementStep == SettlementInv /\ [SettlementNext]_settlementVars => SettlementInv'
<1> SUFFICES ASSUME SettlementInv, [SettlementNext]_settlementVars
             PROVE  SettlementInv'
  OBVIOUS
<1>0. /\ plan \in [RsaSuppliers -> Plans] /\ card \in [RsaSuppliers -> Cards]
      /\ enrolled \in Seq(Enrolment) /\ recast \in BOOLEAN
  BY DEF SettlementInv
<1>1. ASSUME NEW kind \in Features, NEW s \in RsaSuppliers \cup {NoSupplier},
             NEW used \in {0, 1}, AskHelp(kind, s, used)
      PROVE  SettlementInv'
  <2> DEFINE by == Pick(s)
             supplier == IF s = NoSupplier THEN by ELSE s
             open == [status |-> "pay_per_use", kind |-> kind, supplier |-> supplier,
                      terms |-> FALSE, included |-> 0, overage |-> 0]
             covered == [status |-> EntitlementOf(plan[by], kind, used), kind |-> kind,
                         supplier |-> supplier, terms |-> TRUE,
                         included |-> plan[by].included, overage |-> plan[by].overage]
  <2>1. by \in RsaSuppliers \cup {NoSupplier}
    BY PickTyped
  <2>2. /\ help = NoHelp /\ help' = IF by = NoSupplier THEN open ELSE covered
        /\ UNCHANGED <<plan, card, enrolled, towing, bill, preview, recast>>
    BY <1>1 DEF AskHelp
  <2>3. towing = NoTowing /\ bill = NoBill
    BY <2>2, NoRows DEF SettlementInv
  <2>4. Termed(open)
    BY <2>1 DEF Termed, Help, Entitlements, InPlan
  <2>5. by # NoSupplier => Termed(covered)
    <3> SUFFICES ASSUME by # NoSupplier
                 PROVE  Termed(covered)
      OBVIOUS
    <3>1. plan[by] \in Plan
      BY <1>0, <2>1, SettlementAssumption DEF SettlementAssumption
    <3>2. plan[by].included \in Nat /\ plan[by].overage \in Nat
      BY <3>1 DEF Plan
    <3>3. EntitlementOf(plan[by], kind, used) \in Entitlements
      BY DEF EntitlementOf, Entitlements
    <3> HIDE DEF by
    <3>4. supplier \in RsaSuppliers \cup {NoSupplier}
      BY <2>1
    <3> HIDE DEF supplier
    <3> QED
      BY <3>2, <3>3, <3>4 DEF Termed, Help
  <2> HIDE DEF open, covered, by
  <2>6. Termed(help')
    BY <2>2, <2>4, <2>5
  <2> QED
    BY <1>0, <2>2, <2>3, <2>6 DEF SettlementInv, Termed
<1>2. ASSUME NEW kind \in Features, NEW s \in RsaSuppliers \cup {NoSupplier},
             PatchIntervention(kind, s)
      PROVE  SettlementInv'
  <2>1. /\ help # NoHelp /\ help' = [help EXCEPT !.kind = kind, !.supplier = s]
        /\ recast' = (recast \/ kind # help.kind)
        /\ UNCHANGED <<plan, card, enrolled, towing, bill, preview>>
    BY <1>2 DEF PatchIntervention
  <2>2. Termed(help)
    BY <2>1 DEF SettlementInv
  <2>3. /\ help' \in Help /\ help'.status = help.status /\ help'.terms = help.terms
        /\ help'.included = help.included /\ help'.overage = help.overage /\ help'.kind = kind
    BY <2>1, <2>2 DEF Termed, Help
  <2>4. Termed(help')
    BY <2>2, <2>3 DEF Termed, InPlan
  <2>5. help'.kind = help.kind => \A r, x : Due(help', r, x) = Due(help, r, x)
    BY <2>3 DEF Due, Base, TowPart, WinchPart, BillableKm, InPlan
  <2>6. towing # NoTowing /\
          ~recast' => \A x \in Terms : preview'[x] = Due(help', towing'.card, x)
    BY <2>1, <2>3, <2>5 DEF SettlementInv
  <2>7. help' # NoHelp
    BY <2>4, NoRows DEF Termed
  <2> QED
    BY <1>0, <2>1, <2>4, <2>6, <2>7 DEF SettlementInv
<1>3. ASSUME MakeMission
      PROVE  SettlementInv'
  <2>1. /\ help # NoHelp /\ help.supplier # NoSupplier /\ towing = NoTowing
        /\ towing' = [made |-> TRUE, card |-> card[help.supplier]]
        /\ preview' = [x \in Terms |-> Total(SettlementLines(help, towing'.card, x))]
        /\ UNCHANGED <<plan, card, enrolled, help, bill, recast>>
    BY <1>3 DEF MakeMission
  <2>2. Termed(help) /\ bill = NoBill
    BY <2>1 DEF SettlementInv
  <2>3. towing' \in Towing
    BY <1>0, <2>1, <2>2 DEF Termed, Help, Towing
  <2>4. \A x \in Terms : preview'[x] = Due(help, towing'.card, x) /\ preview'[x] \in Nat
    BY <2>1, <2>2, <2>3, TotalIsDue, NoRows DEF Termed
  <2>5. preview' \in [Terms -> Nat]
    BY <2>1, <2>4
  <2> QED
    BY <1>0, <2>1, <2>2, <2>3, <2>4, <2>5, NoRows DEF SettlementInv
<1>4. ASSUME NEW x \in Terms, SettleMission(x)
      PROVE  SettlementInv'
  <2>1. /\ towing # NoTowing /\ bill = NoBill
        /\ bill'.terms = x /\ bill'.help = help
        /\ bill'.lines = SettlementLines(help, towing.card, x)
        /\ UNCHANGED <<plan, card, enrolled, help, towing, preview, recast>>
    BY <1>4 DEF SettleMission
  <2>2. Termed(help) /\ towing.card \in Card
    BY <2>1, NoRows DEF SettlementInv
  <2>3. Total(bill'.lines) = Due(help, towing.card, x)
    BY <2>1, <2>2, TotalIsDue DEF Termed
  <2>4. ~recast => Total(bill'.lines) = preview[x]
    BY <2>1, <2>3 DEF SettlementInv
  <2> QED
    BY <1>0, <2>1, <2>2, <2>4 DEF SettlementInv
\* Plans, rate cards and enrolments have no part in it.
<1>5. ASSUME UNCHANGED <<help, towing, bill, preview, recast>>,
             plan' \in [RsaSuppliers -> Plans], card' \in [RsaSuppliers -> Cards],
             enrolled' \in Seq(Enrolment)
      PROVE  SettlementInv'
  BY <1>5 DEF SettlementInv
<1>6. ASSUME NEW s \in RsaSuppliers, NEW p \in Plans, PatchPlan(s, p)
      PROVE  SettlementInv'
  BY <1>0, <1>5, <1>6 DEF PatchPlan
<1>7. ASSUME NEW s \in RsaSuppliers, NEW r \in Cards, UpsertProfile(s, r)
      PROVE  SettlementInv'
  BY <1>0, <1>5, <1>7 DEF UpsertProfile
<1>8. ASSUME NEW s \in RsaSuppliers, CreateEnrolment(s)
      PROVE  SettlementInv'
  <2> DEFINE row == [supplier |-> s, valid |-> TRUE]
  <2>1. row \in Enrolment
    BY DEF Enrolment
  <2>2. <<row>> \in Seq(Enrolment)
    BY <2>1
  <2>3. <<row>> \o enrolled \in Seq(Enrolment)
    BY <1>0, <2>2, ConcatProperties
  <2> QED
    BY <1>0, <1>5, <1>8, <2>3 DEF CreateEnrolment
<1>9. ASSUME NEW i \in DOMAIN enrolled, PatchEnrolment(i)
      PROVE  SettlementInv'
  <2> DEFINE row == [enrolled[i] EXCEPT !.valid = ~@]
  <2>1. i \in 1..Len(enrolled) /\ enrolled[i] \in Enrolment
    BY <1>0, LenProperties, ElementOfSeq
  <2>2. row \in Enrolment
    BY <2>1 DEF Enrolment
  <2>3. enrolled' = [enrolled EXCEPT ![i] = row]
    BY <1>9 DEF PatchEnrolment
  <2> HIDE DEF row
  <2>4. enrolled' \in Seq(Enrolment)
    BY <1>0, <2>1, <2>2, <2>3, ExceptSeq
  <2> QED
    BY <1>0, <1>5, <1>9, <2>4 DEF PatchEnrolment
<1>10. CASE UNCHANGED settlementVars
  BY <1>0, <1>5, <1>10 DEF settlementVars
<1> QED
  BY <1>1, <1>2, <1>3, <1>4, <1>6, <1>7, <1>8, <1>9, <1>10 DEF SettlementNext

\* Types: every amount and every line of a settlement is a natural number of cents.
THEOREM SettlementTypeCorrect == SettlementSpec => []SettlementTypeOK
<1>1. SettlementInv => SettlementTypeOK
  <2> SUFFICES ASSUME SettlementInv
               PROVE  SettlementTypeOK
    OBVIOUS
  <2>1. bill # NoBill => bill.lines \in [LineCodes -> Nat]
    BY TotalIsDue, NoRows DEF SettlementInv, Termed
  <2>2. help # NoHelp => /\ help.status \in Entitlements /\ help.kind \in Features
                         /\ help.supplier \in RsaSuppliers \cup {NoSupplier}
                         /\ help.included \in Nat /\ help.overage \in Nat
    BY DEF SettlementInv, Termed, Help
  <2> QED
    BY <2>1, <2>2 DEF SettlementInv, SettlementTypeOK, Towing, Enrolment
<1> QED
  BY <1>1, SettlementStart, SettlementStep, PTL DEF SettlementSpec

\* For any plans, rate cards and enrolments and whatever becomes of them, a settlement is
\* what its preview showed, is free within the plan, never falls with distance, winch or
\* night, and is no dearer within a plan than without when the plan's kilometre is not.
THEOREM BillIsPreview == SettlementSpec => []SettlementAgrees
<1>1. SettlementInv => SettlementAgrees
  <2> SUFFICES ASSUME SettlementInv, bill # NoBill
               PROVE  SettlementAgrees
    BY DEF SettlementAgrees
  <2> DEFINE x == bill.terms
             h == bill.help
             r == towing.card
             g == [h EXCEPT !.status = "pay_per_use"]
  <2>1. /\ x \in Terms /\ h \in Help /\ r \in Card /\ (InPlan(h) => h.terms)
        /\ recast \/ Total(bill.lines) = preview[x]
        /\ Total(bill.lines) = Total(SettlementLines(h, r, x))
    BY NoRows DEF SettlementInv, Termed
  <2>2. g \in Help /\ ~InPlan(g) /\ g.kind = h.kind
    BY <2>1 DEF Help, Entitlements, InPlan
  <2>3. \A y \in Terms : Charge(h, y) = Due(h, r, y) /\ Charge(g, y) = Due(g, r, y)
    BY <2>1, <2>2, TotalIsDue DEF Charge
  <2>4. Total(bill.lines) = Due(h, r, x)
    BY <2>1, TotalIsDue
  <2>5. InPlan(h) /\ x.km =< h.included /\ ~x.winch => Due(h, r, x) = 0
    BY <2>1, FreeWithinPlan
  <2>6. \A y \in Terms : y.km >= x.km /\ (x.night => y.night) /\ (x.winch => y.winch)
                           => Due(h, r, y) >= Due(h, r, x)
    <3> SUFFICES ASSUME NEW y \in Terms, y.km >= x.km, x.night => y.night, x.winch => y.winch
                 PROVE  Due(h, r, y) >= Due(h, r, x)
      OBVIOUS
    <3>1. Due(h, r, x) =< Due(h, r, y) /\ Due(h, r, x) \in Nat /\ Due(h, r, y) \in Nat
      BY <2>1, MoreIsNoCheaper, TotalIsDue
    <3> HIDE DEF x, h, r
    <3> QED
      BY <3>1
  <2>7. InPlan(h) /\ h.overage =< r.perKm => Due(h, r, x) =< Due(g, r, x)
    BY <2>1, <2>2, PlanIsNoDearer
  <2> HIDE DEF x, h, r, g
  <2>8. /\ recast \/ Total(bill.lines) = preview[x]
        /\ InPlan(h) /\ x.km =< h.included /\ ~x.winch => Total(bill.lines) = 0
        /\ \A y \in Terms : y.km >= x.km /\ (x.night => y.night) /\ (x.winch => y.winch)
                              => Charge(h, y) >= Total(bill.lines)
        /\ InPlan(h) /\ h.overage =< r.perKm => Total(bill.lines) =< Charge(g, x)
    BY <2>1, <2>3, <2>4, <2>5, <2>6, <2>7
  <2> QED
    BY <2>8 DEF SettlementAgrees, x, h, r, g
<1> QED
  BY <1>1, SettlementStart, SettlementStep, PTL DEF SettlementSpec
-----------------------------------------------------------------------------
(***************************************************************************)
(* The menu of reminders, and the date of the inspection.                  *)
(***************************************************************************)
\* What a request writes is an entry of its kind, and only entries that are read again
\* before the menu is written wait for that.
SaveRow(s, save) ==
    /\ save.pc # "idle"
    /\ save.pc = "reread" => s \in {"cost", "service", "profile"}
    /\ save.pc \notin {"idle", "unlist"} => save.row.type \in TypesOf(s)

SavesInv == \A c \in Savers :
    \/ saves[c] = NoSave
    \/ saves[c].of \in Sources /\ SaveRow(saves[c].of, saves[c])

KindsInv ==
    /\ \A s \in Sources : entries[s] = NoEntry \/ entries[s].type \in TypesOf(s)
    /\ entries["profile"].type = "itp"

RowsInv == ReminderTypeOK /\ KindsInv /\ SavesInv

(***************************************************************************)
(* The menu.  Of an entry that is not astray there is at most one request  *)
(* in flight, and what it will do to the menu is right.                    *)
(***************************************************************************)
Shown(s) == menu[s] = IF entries[s].sync /\ entries[s].warn THEN entries[s].due ELSE NoDate
Unwanted(save, row) == save.off = FALSE \/ row.sync = FALSE

Unsaid(s, save) ==
    /\ save.pc = "reread" => Unwanted(save, entries[s])
    /\ save.pc = "sync" => Unwanted(save, save.row) /\ (Exists(s) => save.row = entries[s])
    /\ save.pc = "unlist" => entries[s].sync = FALSE
    /\ save.pc \notin {"reread", "sync", "unlist"} => Shown(s)

Follows(s) ==
    /\ \A c, d \in Savers : saves[c].of = s /\ saves[d].of = s => c = d
    /\ ~InFlight(s) => Shown(s)
    /\ \A c \in Savers : saves[c].of = s => Unsaid(s, saves[c])

NoOrphan(s) == ~Exists(s) => menu[s] = NoDate

MenuInv == \A s \in Sources : NoOrphan(s) /\ (s \notin astray => Follows(s))

(***************************************************************************)
(* The inspection.  Unless muddled, one request at a time is about it, an  *)
(* entry has one request at a time, which has its date and kind; and where *)
(* the dates differ a request is there that will still copy one.           *)
(***************************************************************************)
Busy(c) == saves[c].pc \notin {"idle", "unlist"}
Touching(c) == Busy(c) /\ TouchesItp(saves[c].of, saves[c].row)
Agree ==
    \/ entries["cert"].type # "itp"
    \/ NoDate \in {entries["cert"].due, entries["profile"].due}
    \/ entries["cert"].due = entries["profile"].due
Owes(c) ==
    \/ saves[c].of \in {"cert", "profile"} /\ saves[c].pc \in {"reread", "sync", "profile"}
    \/ saves[c].pc = "certificate"

Alike(row, entry) == entry.type = "none" \/ (row.type = entry.type /\ row.due = entry.due)
Copies(save) ==
    /\ save.pc \in {"profile", "certificate"} => save.row.type = "itp" /\ save.row.due # NoDate
    /\ save.pc = "profile" => save.of # "profile"
    /\ save.pc = "certificate" => entries["profile"].due = save.row.due /\ save.of # "cert"

DatesInv ==
    /\ \A c, d \in Savers : Touching(c) /\ Touching(d) => c = d
    /\ \A c, d \in Savers : Busy(c) /\ Busy(d) /\ saves[c].of = saves[d].of => c = d
    /\ \A c \in Savers : Busy(c) => Alike(saves[c].row, entries[saves[c].of]) /\ Copies(saves[c])
    /\ Agree \/ \E c \in Savers : Touching(c) /\ Owes(c)

ItpInv == ~muddled => DatesInv
-----------------------------------------------------------------------------
LEMMA ReminderTable ==
  /\ NoEntry \in OpsEntry /\ NoEntry.type = "none" /\ NoEntry.due = NoDate
  /\ NoEntry.sync = FALSE /\ NoEntry.warn = FALSE
  /\ NoSave \in Save /\ NoSave.pc = "idle" /\ NoSave.of = "none" /\ NoSave.of \notin Sources
  /\ NoSave.off = FALSE
  /\ MaxDate \in Nat /\ NoDate \in DueDates
  /\ \A s \in Sources : TypesOf(s) \in SUBSET {"itp", "other"}
  /\ TypesOf("profile") = {"itp"} /\ "other" \in TypesOf("plan")
  /\ TypesOf("plan") = {"other"}
  /\ \A s \in {"cert", "cost"} : TypesOf(s) = {"itp", "other"}
<1>1. MaxDate \in Nat /\ NoDate \in DueDates
  BY ReminderAssumption DEF ReminderAssumption, DueDates, NoDate
<1>2. NoEntry \in OpsEntry
  BY <1>1 DEF NoEntry, OpsEntry
<1>3. NoSave \in Save
  BY <1>2 DEF NoSave, Save, SaveSteps
<1> QED
  BY <1>1, <1>2, <1>3 DEF NoEntry, NoSave, TypesOf, Sources

\* One request goes on, or ends; one entry is written.
LEMMA SaveWritten ==
  ASSUME RowsInv, NEW c \in Savers, NEW save \in Save, saves' = [saves EXCEPT ![c] = save],
         save = NoSave \/ (save.of \in Sources /\ SaveRow(save.of, save))
  PROVE  saves' \in [Savers -> Save] /\ SavesInv'
BY DEF RowsInv, ReminderTypeOK, SavesInv

LEMMA EntryWritten ==
  ASSUME RowsInv, NEW s \in Sources, NEW row \in OpsEntry, entries' = [entries EXCEPT ![s] = row],
         \/ row.type \in TypesOf(s)
         \/ row = NoEntry /\ s # "profile"
  PROVE  entries' \in [Sources -> OpsEntry] /\ entries'["profile"] # NoEntry /\ KindsInv'
<1>1. entries' \in [Sources -> OpsEntry] /\ entries'[s] = row
  BY DEF RowsInv, ReminderTypeOK
<1>2. \A t \in Sources \ {s} : entries'[t] = entries[t]
  BY DEF RowsInv, ReminderTypeOK
<1>3. "profile" \in Sources /\ (s = "profile" => row.type = "itp")
  BY ReminderTable DEF Sources
<1>4. KindsInv'
  BY <1>1, <1>2, <1>3 DEF RowsInv, KindsInv
<1> QED
  BY <1>1, <1>4, ReminderTable DEF KindsInv

\* A request that goes from one step to another keeps what it is about.
LEMMA StepTyped ==
  ASSUME RowsInv, NEW c \in Savers, NEW pc \in SaveSteps,
         ~SaverAt(c, "idle"), pc # "idle" => saves[c].pc # "unlist", pc # "reread", GoesTo(c, pc)
  PROVE  saves' \in [Savers -> Save] /\ SavesInv'
<1>0. saves[c] \in Save /\ saves[c].of \in Sources /\ SaveRow(saves[c].of, saves[c])
  BY ReminderTable DEF RowsInv, ReminderTypeOK, SavesInv, SaverAt
<1>1. CASE pc = "idle"
  BY <1>1, SaveWritten, ReminderTable DEF GoesTo
<1>2. CASE pc # "idle"
  <2> DEFINE save == [saves[c] EXCEPT !.pc = pc]
  <2>1. save \in Save /\ save.of = saves[c].of /\ save.pc = pc /\ save.row = saves[c].row
    BY <1>0 DEF Save
  <2>2. saves' = [saves EXCEPT ![c] = save]
    BY <1>2 DEF GoesTo
  <2> HIDE DEF save
  <2>3. SaveRow(save.of, save)
    BY <1>0, <1>2, <2>1 DEF SaveRow
  <2> QED
    BY <1>0, <2>1, <2>2, <2>3, SaveWritten
<1> QED
  BY <1>1, <1>2

LEMMA AfterSteps ==
  \A save : /\ AfterSync(save) \in {"idle", "profile", "certificate", "link"}
            /\ AfterCopy(save) \in {"idle", "link"}
BY DEF AfterSync, AfterCopy

LEMMA RowsStep == RowsInv /\ [ReminderNext]_reminderVars => RowsInv'
<1> SUFFICES ASSUME RowsInv, [ReminderNext]_reminderVars
             PROVE  RowsInv'
  OBVIOUS
<1>0. /\ entries \in [Sources -> OpsEntry] /\ menu \in [Sources -> DueDates]
      /\ saves \in [Savers -> Save] /\ astray \subseteq Sources /\ muddled \in BOOLEAN
      /\ entries["profile"] # NoEntry /\ SavesInv /\ KindsInv
  BY DEF RowsInv, ReminderTypeOK
<1>1. \A c \in Savers : ~SaverAt(c, "idle") =>
        /\ saves[c] \in Save /\ saves[c].row \in OpsEntry /\ saves[c].row.due \in DueDates
        /\ saves[c].of \in Sources /\ SaveRow(saves[c].of, saves[c])
  <2> SUFFICES ASSUME NEW c \in Savers, ~SaverAt(c, "idle")
               PROVE  /\ saves[c] \in Save /\ saves[c].row \in OpsEntry
                      /\ saves[c].row.due \in DueDates
                      /\ saves[c].of \in Sources /\ SaveRow(saves[c].of, saves[c])
    OBVIOUS
  <2>1. saves[c] \in Save /\ saves[c].of \in Sources /\ SaveRow(saves[c].of, saves[c])
    BY <1>0, ReminderTable DEF SavesInv, SaverAt
  <2>2. saves[c].row \in OpsEntry
    BY <2>1 DEF Save
  <2> QED
    BY <2>1, <2>2 DEF OpsEntry
<1>2. ASSUME NEW c \in Savers, WriteNext(c)
      PROVE  RowsInv'
  <2>1. PICK s \in Sources, off \in BOOLEAN, link \in BOOLEAN :
           \E row \in EntriesOf[s] : SaveEntry(c, s, row, off, link)
    BY <1>2 DEF WriteNext
  <2>2. PICK row \in EntriesOf[s] : SaveEntry(c, s, row, off, link)
    BY <2>1
  <2>3. row \in OpsEntry /\ row.type \in TypesOf(s)
    BY <2>2 DEF EntriesOf
  <2>4. PICK pc \in StepsAfterWrite(s) :
           saves' = [saves EXCEPT ![c] =
                       [pc |-> pc, of |-> s, row |-> row, off |-> off, link |-> link]]
    BY <2>2 DEF SaveEntry
  <2>5. pc \in {"sync", "reread"} /\ (pc = "reread" => s \in {"cost", "service", "profile"})
    BY DEF StepsAfterWrite
  <2> DEFINE save == [pc |-> pc, of |-> s, row |-> row, off |-> off, link |-> link]
  <2>6. save \in Save /\ SaveRow(s, save) /\ save.of = s
    BY <2>3, <2>5 DEF Save, SaveSteps, SaveRow
  <2>7. saves' = [saves EXCEPT ![c] = save]
    BY <2>4
  <2> HIDE DEF save
  <2>8. saves' \in [Savers -> Save] /\ SavesInv'
    BY <2>6, <2>7, SaveWritten
  <2>9. entries' \in [Sources -> OpsEntry] /\ entries'["profile"] # NoEntry /\ KindsInv'
    BY <2>2, <2>3, EntryWritten DEF SaveEntry
  <2>10. menu' = menu /\ astray' \subseteq Sources /\ muddled' \in BOOLEAN
    BY <1>0, <2>2 DEF SaveEntry, Overlaps, GoesAstray
  <2> QED
    BY <1>0, <2>8, <2>9, <2>10 DEF RowsInv, ReminderTypeOK
<1>3. ASSUME NEW c \in Savers, NEW due \in DueDates, MarkPerformed(c, due)
      PROVE  RowsInv'
  <2> DEFINE row == [entries["plan"] EXCEPT !.due = due]
             save == [NoSave EXCEPT !.pc = "sync", !.of = "plan", !.row = row]
  <2>1. "plan" \in Sources /\ entries["plan"] \in OpsEntry /\ entries["plan"].type = "other"
    BY <1>0, <1>3, ReminderTable DEF MarkPerformed, KindsInv, Exists, Sources
  <2>2. row \in OpsEntry /\ row.type = "other"
    BY <2>1 DEF OpsEntry
  <2>3. entries' = [entries EXCEPT !["plan"] = row] /\ saves' = [saves EXCEPT ![c] = save]
    BY <1>3 DEF MarkPerformed
  <2> HIDE DEF row
  <2>4. save \in Save /\ save.of = "plan" /\ SaveRow("plan", save)
    BY <2>1, <2>2, ReminderTable DEF NoSave, Save, SaveSteps, SaveRow
  <2> HIDE DEF save
  <2>5. saves' \in [Savers -> Save] /\ SavesInv'
    BY <2>1, <2>3, <2>4, SaveWritten
  <2>6. entries' \in [Sources -> OpsEntry] /\ entries'["profile"] # NoEntry /\ KindsInv'
    BY <2>1, <2>2, <2>3, EntryWritten, ReminderTable
  <2>7. menu' = menu /\ astray' \subseteq Sources /\ muddled' \in BOOLEAN
    BY <1>0, <1>3, <2>1 DEF MarkPerformed, Overlaps, GoesAstray
  <2> QED
    BY <1>0, <2>5, <2>6, <2>7 DEF RowsInv, ReminderTypeOK
<1>4. ASSUME NEW c \in Savers, RereadEntry(c)
      PROVE  RowsInv'
  <2> DEFINE s == saves[c].of
             save == [saves[c] EXCEPT !.pc = "sync", !.row = entries[s]]
  <2>1. s \in Sources /\ saves[c] \in Save /\ entries[s] \in OpsEntry
    BY <1>0, <1>1, <1>4 DEF RereadEntry, SaverAt
  <2>2. Exists(s) => saves' = [saves EXCEPT ![c] = save]
    BY <1>4 DEF RereadEntry
  <2>3. save \in Save /\ save.of = s /\ save.pc = "sync" /\ save.row = entries[s]
    BY <2>1 DEF Save, SaveSteps
  <2>4. Exists(s) => SaveRow(s, save)
    BY <1>0, <2>1, <2>3 DEF SaveRow, KindsInv, Exists
  <2> HIDE DEF save
  <2>5. ~Exists(s) => saves' = [saves EXCEPT ![c] = NoSave]
    BY <1>4 DEF RereadEntry
  <2>6. saves' \in [Savers -> Save] /\ SavesInv'
    BY <2>1, <2>2, <2>3, <2>4, <2>5, SaveWritten, ReminderTable
  <2> QED
    BY <1>0, <1>4, <2>6 DEF RowsInv, ReminderTypeOK, KindsInv, RereadEntry
<1>5. ASSUME NEW c \in Savers, SyncReminder(c)
      PROVE  RowsInv'
  <2>1. saves' \in [Savers -> Save] /\ SavesInv'
    BY <1>5, StepTyped, AfterSteps DEF SyncReminder, SaverAt, SaveSteps
  <2>2. menu' \in [Sources -> DueDates]
    BY <1>0, <1>1, <1>5, ReminderTable DEF SyncReminder, SaverAt
  <2> QED
    BY <1>0, <1>5, <2>1, <2>2 DEF RowsInv, ReminderTypeOK, KindsInv, SyncReminder
<1>6. ASSUME NEW c \in Savers, FailSync(c)
      PROVE  RowsInv'
  <2>1. saves' \in [Savers -> Save] /\ SavesInv'
    BY <1>6, StepTyped, AfterSteps DEF FailSync, SaverAt, SaveSteps
  <2>2. astray' \subseteq Sources
    BY <1>0, <1>1, <1>6 DEF FailSync, SaverAt, GoesAstray
  <2> QED
    BY <1>0, <1>6, <2>1, <2>2 DEF RowsInv, ReminderTypeOK, KindsInv, FailSync
<1>7. ASSUME NEW c \in Savers, CopyToProfile(c) \/ CopyToCertificate(c)
      PROVE  RowsInv'
  <2>1. saves' \in [Savers -> Save] /\ SavesInv'
    BY <1>7, StepTyped, AfterSteps DEF CopyToProfile, CopyToCertificate, SaverAt, SaveSteps
  <2>2. saves[c].row.due \in DueDates
    BY <1>1, <1>7 DEF CopyToProfile, CopyToCertificate, SaverAt
  <2>3. ASSUME NEW s \in {"profile", "cert"}, CopyDate(s, saves[c].row.due),
               entries[s].type = "itp"
        PROVE  /\ entries' \in [Sources -> OpsEntry] /\ entries'["profile"] # NoEntry /\ KindsInv'
               /\ astray' \subseteq Sources
    <3> DEFINE row == [entries[s] EXCEPT !.due = saves[c].row.due]
    <3>1. s \in Sources /\ entries[s] \in OpsEntry
      BY <1>0 DEF Sources
    <3>2. row \in OpsEntry /\ row.type = "itp"
      BY <2>2, <2>3, <3>1 DEF OpsEntry
    <3>3. entries' = [entries EXCEPT ![s] = row] /\ astray' \subseteq Sources
      BY <1>0, <2>3, <3>1 DEF CopyDate, GoesAstray
    <3> HIDE DEF row
    <3> QED
      BY <3>1, <3>2, <3>3, EntryWritten, ReminderTable
  <2>4. /\ entries' \in [Sources -> OpsEntry] /\ entries'["profile"] # NoEntry /\ KindsInv'
        /\ astray' \subseteq Sources
    <3>1. CASE CopyToProfile(c)
      BY <1>0, <2>3, <3>1 DEF CopyToProfile, KindsInv
    <3>2. CASE CopyToCertificate(c) /\ entries["cert"].type = "itp"
      BY <2>3, <3>2 DEF CopyToCertificate
    <3>3. CASE CopyToCertificate(c) /\ entries["cert"].type # "itp"
      BY <1>0, <3>3 DEF CopyToCertificate, KindsInv
    <3> QED
      BY <1>7, <3>1, <3>2, <3>3
  <2> QED
    BY <1>0, <1>7, <2>1, <2>4 DEF RowsInv, ReminderTypeOK, CopyToProfile, CopyToCertificate
<1>8. ASSUME NEW c \in Savers, FailCopy(c)
      PROVE  RowsInv'
  <2>1. saves' \in [Savers -> Save] /\ SavesInv'
    BY <1>8, StepTyped, AfterSteps DEF FailCopy, SaverAt, SaveSteps
  <2> QED
    BY <1>0, <1>8, <2>1 DEF RowsInv, ReminderTypeOK, KindsInv, FailCopy
<1>9. ASSUME NEW c \in Savers, NEW type \in {"itp", "other"}, NEW due \in DueDates,
             Link(c, type, due)
      PROVE  RowsInv'
  <2> DEFINE to == IF saves[c].of = "cert" THEN "cost" ELSE "cert"
             row == [type |-> type, due |-> due, warn |-> FALSE, sync |-> TRUE]
  <2>1. to \in {"cert", "cost"} /\ to \in Sources /\ row \in OpsEntry /\ row.type = type
    BY DEF Sources, OpsEntry
  <2>2. entries' = [entries EXCEPT ![to] = row] /\ GoesTo(c, "idle") /\ muddled' \in BOOLEAN
    BY <1>0, <1>9 DEF Link
  <2> HIDE DEF to, row
  <2>3. entries' \in [Sources -> OpsEntry] /\ entries'["profile"] # NoEntry /\ KindsInv'
    BY <2>1, <2>2, EntryWritten, ReminderTable
  <2>4. saves' \in [Savers -> Save] /\ SavesInv'
    BY <1>9, <2>2, StepTyped DEF Link, SaverAt, SaveSteps
  <2> QED
    BY <1>0, <1>9, <2>2, <2>3, <2>4 DEF RowsInv, ReminderTypeOK, Link
<1>10. ASSUME NEW c \in Savers, NEW s \in Sources, TakeOff(c, s)
       PROVE  RowsInv'
  <2> DEFINE row == [entries[s] EXCEPT !.sync = FALSE]
             save == [NoSave EXCEPT !.pc = "unlist", !.of = s]
  <2>1. entries' = [entries EXCEPT ![s] = row] /\ saves' = [saves EXCEPT ![c] = save]
    BY <1>10 DEF TakeOff
  <2>2. row \in OpsEntry /\ row.type = entries[s].type
    BY <1>0 DEF OpsEntry
  <2>3. entries[s] = NoEntry => row = NoEntry
    <3> SUFFICES ASSUME entries[s] = NoEntry
                 PROVE  row = NoEntry
      OBVIOUS
    <3>1. /\ row \in OpsEntry /\ NoEntry \in OpsEntry
          /\ row.type = NoEntry.type /\ row.due = NoEntry.due /\ row.warn = NoEntry.warn
          /\ row.sync = NoEntry.sync
      BY <2>2, ReminderTable DEF OpsEntry
    <3> HIDE DEF row
    <3> QED
      BY <3>1 DEF OpsEntry
  <2>4. save \in Save /\ save.of = s /\ SaveRow(s, save)
    BY ReminderTable DEF NoSave, Save, SaveSteps, SaveRow
  <2> HIDE DEF row, save
  <2>5. row.type \in TypesOf(s) \/ (row = NoEntry /\ s # "profile")
    BY <1>0, <2>2, <2>3 DEF KindsInv
  <2>6. entries' \in [Sources -> OpsEntry] /\ entries'["profile"] # NoEntry /\ KindsInv'
    BY <2>1, <2>2, <2>5, EntryWritten
  <2>7. saves' \in [Savers -> Save] /\ SavesInv'
    BY <2>1, <2>4, SaveWritten
  <2>8. menu' = menu /\ astray' \subseteq Sources /\ muddled' = muddled
    BY <1>0, <1>10 DEF TakeOff, GoesAstray
  <2> QED
    BY <1>0, <2>6, <2>7, <2>8 DEF RowsInv, ReminderTypeOK
<1>11. ASSUME NEW c \in Savers, Unlist(c)
       PROVE  RowsInv'
  <2>1. saves' \in [Savers -> Save] /\ SavesInv'
    BY <1>11, StepTyped DEF Unlist, SaverAt, SaveSteps
  <2>2. menu' \in [Sources -> DueDates]
    BY <1>0, <1>11, ReminderTable DEF Unlist
  <2> QED
    BY <1>0, <1>11, <2>1, <2>2 DEF RowsInv, ReminderTypeOK, KindsInv, Unlist
<1>12. ASSUME NEW c \in Savers, DropSave(c)
       PROVE  RowsInv'
  <2>1. saves' \in [Savers -> Save] /\ SavesInv'
    BY <1>12, StepTyped DEF DropSave, SaverAt, SaveSteps
  <2>2. astray' \subseteq Sources /\ muddled' \in BOOLEAN
    BY <1>0, <1>1, <1>12 DEF DropSave, SaverAt, GoesAstray
  <2> QED
    BY <1>0, <1>12, <2>1, <2>2 DEF RowsInv, ReminderTypeOK, KindsInv, DropSave
<1>13. ASSUME NEW s \in Sources, DeleteEntry(s)
       PROVE  RowsInv'
  <2>1. entries' \in [Sources -> OpsEntry] /\ entries'["profile"] # NoEntry /\ KindsInv'
    BY <1>13, EntryWritten, ReminderTable DEF DeleteEntry
  <2>2. menu' \in [Sources -> DueDates]
    BY <1>0, <1>13, ReminderTable DEF DeleteEntry
  <2> QED
    BY <1>0, <1>13, <2>1, <2>2 DEF RowsInv, ReminderTypeOK, SavesInv, DeleteEntry
<1>14. ASSUME NEW s \in Sources, NEW due \in DueDates, WriteReminder(s, due)
       PROVE  RowsInv'
  <2>1. menu' \in [Sources -> DueDates] /\ astray' \subseteq Sources
    BY <1>0, <1>14 DEF WriteReminder, GoesAstray
  <2> QED
    BY <1>0, <1>14, <2>1 DEF RowsInv, ReminderTypeOK, SavesInv, KindsInv, WriteReminder
<1>15. CASE UNCHANGED reminderVars
  BY <1>0, <1>15 DEF RowsInv, ReminderTypeOK, SavesInv, KindsInv, reminderVars
<1> QED
  BY <1>2, <1>3, <1>4, <1>5, <1>6, <1>7, <1>8, <1>9, <1>10, <1>11, <1>12, <1>13, <1>14, <1>15
     DEF ReminderNext, SyncNext, RowNext
-----------------------------------------------------------------------------
\* The menu follows an entry that the step is not about.
LEMMA FollowsOther ==
  ASSUME NEW s \in Sources, Follows(s), entries'[s] = entries[s], menu'[s] = menu[s],
         \A c \in Savers : saves'[c] = saves[c] \/ (saves[c].of # s /\ saves'[c].of # s)
  PROVE  Follows(s)'
<1>1. Shown(s)' = Shown(s) /\ (InFlight(s)' <=> InFlight(s))
  BY DEF Shown, InFlight
<1>2. ASSUME NEW c \in Savers, saves'[c].of = s
      PROVE  Unsaid(s, saves[c])' /\ saves[c].of = s
  <2>1. saves'[c] = saves[c]
    BY <1>2
  <2>2. Unsaid(s, saves[c])
    BY <1>2, <2>1 DEF Follows
  <2> QED
    BY <1>1, <1>2, <2>1, <2>2 DEF Unsaid, Exists
<1> QED
  BY <1>1, <1>2 DEF Follows

\* The entry a request is about.
LEMMA FollowsIts ==
  ASSUME NEW s \in Sources, NEW c \in Savers, \A d \in Savers \ {c} : saves'[d].of # s,
         saves'[c].of = s => Unsaid(s, saves[c])', saves'[c].of # s => Shown(s)'
  PROVE  Follows(s)'
<1>1. \A d \in Savers : saves'[d].of = s => d = c
  OBVIOUS
<1>2. InFlight(s)' <=> saves'[c].of = s
  BY <1>1 DEF InFlight
<1> QED
  BY <1>1, <1>2 DEF Follows

LEMMA MenuStep == RowsInv /\ MenuInv /\ [ReminderNext]_reminderVars => MenuInv'
<1> SUFFICES ASSUME RowsInv, MenuInv, [ReminderNext]_reminderVars
             PROVE  MenuInv'
  OBVIOUS
<1>0. /\ entries \in [Sources -> OpsEntry] /\ menu \in [Sources -> DueDates]
      /\ saves \in [Savers -> Save]
      /\ SavesInv /\ KindsInv
      /\ "profile" \in Sources /\ "none" \notin Sources
  BY DEF RowsInv, ReminderTypeOK, Sources
<1>1. \A c \in Savers : ~SaverAt(c, "idle") =>
        saves[c].of \in Sources /\ SaveRow(saves[c].of, saves[c])
  BY <1>0, ReminderTable DEF SavesInv, SaverAt
<1>2. \A c \in Savers : SaverAt(c, "idle") => saves[c] = NoSave
  BY <1>0 DEF SavesInv, SaverAt, SaveRow
<1>3. \A s \in Sources : NoOrphan(s) /\ (s \notin astray => Follows(s))
  BY DEF MenuInv
<1>4. ASSUME NEW c \in Savers, WriteNext(c)
      PROVE  MenuInv'
  <2>1. PICK s \in Sources, off \in BOOLEAN, link \in BOOLEAN :
           \E row \in EntriesOf[s] : SaveEntry(c, s, row, off, link)
    BY <1>4 DEF WriteNext
  <2>2. PICK row \in EntriesOf[s] : SaveEntry(c, s, row, off, link)
    BY <2>1
  <2>3. row.type \in {"itp", "other"} /\ row # NoEntry /\ (off = FALSE \/ row.sync = FALSE)
    BY <2>2, ReminderTable DEF EntriesOf, SaveEntry, SyncFlag
  <2>4. PICK pc \in StepsAfterWrite(s) :
           saves' = [saves EXCEPT ![c] =
                       [pc |-> pc, of |-> s, row |-> row, off |-> off, link |-> link]]
    BY <2>2 DEF SaveEntry
  <2>5. pc \in {"sync", "reread"}
    BY DEF StepsAfterWrite
  <2>6. /\ saves'[c].pc = pc /\ saves'[c].of = s /\ saves'[c].row = row /\ saves'[c].off = off
        /\ \A d \in Savers \ {c} : saves'[d] = saves[d]
    BY <1>0, <2>4
  <2>7. entries' = [entries EXCEPT ![s] = row] /\ menu' = menu
    BY <2>2 DEF SaveEntry
  <2>8. astray' = astray \cup {t \in {s} : InFlight(t)}
    BY <2>2 DEF SaveEntry, Overlaps, GoesAstray
  <2>9. \A t \in Sources : NoOrphan(t)'
    BY <1>0, <1>3, <2>3, <2>7 DEF NoOrphan, Exists
  <2>10. \A t \in Sources \ {s} : t \notin astray' => Follows(t)'
    BY <1>0, <1>2, <1>3, <1>4, <2>6, <2>7, <2>8, FollowsOther, ReminderTable DEF WriteNext
  <2>11. s \notin astray' => Follows(s)'
    <3>1. Unsaid(s, saves[c])'
      BY <1>0, <2>3, <2>5, <2>6, <2>7 DEF Unsaid, Unwanted, Exists
    <3>2. s \notin astray' => \A d \in Savers \ {c} : saves'[d].of # s
      BY <2>6, <2>8 DEF InFlight
    <3> QED
      BY <2>6, <3>1, <3>2, FollowsIts
  <2> QED
    BY <2>9, <2>10, <2>11 DEF MenuInv
<1>5. ASSUME NEW c \in Savers, NEW due \in DueDates, MarkPerformed(c, due)
      PROVE  MenuInv'
  <2> DEFINE row == [entries["plan"] EXCEPT !.due = due]
             save == [NoSave EXCEPT !.pc = "sync", !.of = "plan", !.row = row]
  <2>1. "plan" \in Sources /\ entries["plan"] \in OpsEntry /\ entries["plan"].type = "other"
    BY <1>0, <1>5, ReminderTable DEF MarkPerformed, KindsInv, Exists, Sources
  <2>2. row \in OpsEntry /\ row.type = "other" /\ row # NoEntry
    BY <2>1, ReminderTable DEF OpsEntry
  <2>3. entries' = [entries EXCEPT !["plan"] = row] /\ saves' = [saves EXCEPT ![c] = save]
    BY <1>5 DEF MarkPerformed
  <2> HIDE DEF row
  <2>4. save.of = "plan" /\ save.row = row /\ save.pc = "sync" /\ save.off = FALSE
    BY DEF NoSave
  <2> HIDE DEF save
  <2>5. menu' = menu /\ astray' = astray \cup {t \in {"plan"} : InFlight(t)} /\ SaverAt(c, "idle")
    BY <1>5 DEF MarkPerformed, Overlaps, GoesAstray
  <2>6. saves'[c] = save /\ \A d \in Savers \ {c} : saves'[d] = saves[d]
    BY <1>0, <2>3
  <2>7. \A t \in Sources : NoOrphan(t)'
    BY <1>0, <1>3, <2>2, <2>3, <2>5 DEF NoOrphan, Exists
  <2>8. \A t \in Sources \ {"plan"} : t \notin astray' => Follows(t)'
    BY <1>0, <1>2, <1>3, <2>3, <2>4, <2>5, <2>6, FollowsOther, ReminderTable
  <2>9. "plan" \notin astray' => Follows("plan")'
    <3>1. Unsaid("plan", saves[c])'
      BY <1>0, <2>1, <2>3, <2>4, <2>6 DEF Unsaid, Unwanted, Exists
    <3>2. "plan" \notin astray' => \A d \in Savers \ {c} : saves'[d].of # "plan"
      BY <2>5, <2>6 DEF InFlight
    <3> QED
      BY <2>1, <2>4, <2>6, <3>1, <3>2, FollowsIts
  <2> QED
    BY <2>7, <2>8, <2>9 DEF MenuInv
<1>6. ASSUME NEW c \in Savers, RereadEntry(c)
      PROVE  MenuInv'
  <2>0. PICK s \in Sources : s = saves[c].of
    BY <1>1, <1>6 DEF RereadEntry, SaverAt
  <2>1. s = saves[c].of /\ saves[c].pc = "reread" /\ saves[c] \in Save
    BY <1>0, <1>6, <2>0 DEF RereadEntry, SaverAt
  <2>2. entries' = entries /\ menu' = menu /\ astray' = astray
    BY <1>6 DEF RereadEntry
  <2>3. /\ Exists(s) => /\ saves'[c].pc = "sync" /\ saves'[c].of = s
                        /\ saves'[c].row = entries[s] /\ saves'[c].off = saves[c].off
        /\ ~Exists(s) => saves'[c] = NoSave
        /\ \A d \in Savers \ {c} : saves'[d] = saves[d]
    BY <1>0, <1>6, <2>1 DEF RereadEntry, Save
  <2>4. \A t \in Sources : NoOrphan(t)'
    BY <1>3, <2>2 DEF NoOrphan, Exists
  <2>5. \A t \in Sources \ {s} : t \notin astray' => Follows(t)'
    BY <1>0, <1>3, <2>1, <2>2, <2>3, FollowsOther, ReminderTable
  <2>6. s \notin astray' => Follows(s)'
    <3> SUFFICES ASSUME s \notin astray
                 PROVE  Follows(s)'
      BY <2>2
    <3>1. Unsaid(s, saves[c]) /\ \A d \in Savers \ {c} : saves[d].of # s
      BY <1>3, <2>1 DEF Follows
    <3>2. Exists(s) => Unsaid(s, saves[c])'
      BY <2>1, <2>2, <2>3, <3>1 DEF Unsaid, Unwanted, Exists
    <3>3. ~Exists(s) => Shown(s)'
      BY <1>3, <2>1, <2>2, ReminderTable DEF Shown, NoOrphan, Exists
    <3> QED
      BY <2>1, <2>3, <3>1, <3>2, <3>3, FollowsIts, ReminderTable
  <2> QED
    BY <2>4, <2>5, <2>6 DEF MenuInv
\* A request that ends or goes past its reminder.
<1>7. ASSUME NEW c \in Savers, NEW pc \in {"idle", "profile", "certificate", "link"},
             GoesTo(c, pc), ~SaverAt(c, "idle")
      PROVE  /\ saves'[c].pc = pc
             /\ saves'[c].of \in {saves[c].of, "none"}
             /\ \A d \in Savers \ {c} : saves'[d] = saves[d]
  <2>1. saves[c] \in Save
    BY <1>0
  <2> QED
    BY <1>0, <1>7, <2>1, ReminderTable DEF GoesTo, Save
<1>8. ASSUME NEW c \in Savers, SyncReminder(c)
      PROVE  MenuInv'
  <2>0. PICK s \in Sources : s = saves[c].of
    BY <1>1, <1>8 DEF SyncReminder, SaverAt
  <2> DEFINE listed == Listed(s, saves[c].row, saves[c].off)
  <2>1. s = saves[c].of /\ saves[c].pc = "sync" /\ ~SaverAt(c, "idle")
    BY <1>8, <2>0 DEF SyncReminder, SaverAt
  <2>2. PICK pc \in {"idle", "profile", "certificate", "link"} : GoesTo(c, pc)
    BY <1>8, AfterSteps DEF SyncReminder
  <2>3. /\ entries' = entries /\ astray' = astray /\ (listed => Exists(s))
        /\ menu' = [menu EXCEPT ![s] = IF listed THEN saves[c].row.due ELSE NoDate]
    BY <1>8, <2>1 DEF SyncReminder
  <2>4. /\ saves'[c].pc \notin {"reread", "sync", "unlist"} /\ saves'[c].of \in {s, "none"}
        /\ \A d \in Savers \ {c} : saves'[d] = saves[d]
    BY <1>7, <2>1, <2>2
  <2>5. \A t \in Sources : NoOrphan(t)'
    BY <1>0, <1>3, <2>1, <2>3 DEF NoOrphan, Exists
  <2>6. \A t \in Sources \ {s} : t \notin astray' => Follows(t)'
    BY <1>0, <1>3, <2>1, <2>3, <2>4, FollowsOther
  <2>7. s \notin astray' => Follows(s)'
    <3> SUFFICES ASSUME s \notin astray
                 PROVE  Follows(s)'
      BY <2>3
    <3>1. Unsaid(s, saves[c]) /\ \A d \in Savers \ {c} : saves[d].of # s
      BY <1>3, <2>1 DEF Follows
    <3>2. ASSUME Exists(s)
          PROVE  Shown(s)'
      <4>1. saves[c].row = entries[s] /\ Unwanted(saves[c], entries[s]) /\ entries[s] \in OpsEntry
        BY <1>0, <2>1, <3>1, <3>2 DEF Unsaid
      <4>2. listed <=> entries[s].sync /\ entries[s].due # NoDate /\ entries[s].warn
        BY <4>1 DEF Listed, Unwanted
      <4>3. menu'[s] = IF listed THEN entries[s].due ELSE NoDate
        BY <1>0, <2>1, <2>3, <4>1
      <4> HIDE DEF listed
      <4>4. CASE entries[s].sync /\ entries[s].warn
        <5>1. menu'[s] = entries[s].due
          BY <4>2, <4>3, <4>4
        <5> QED
          BY <2>3, <4>4, <5>1 DEF Shown
      <4>5. CASE ~(entries[s].sync /\ entries[s].warn)
        <5>1. menu'[s] = NoDate
          BY <4>2, <4>3, <4>5
        <5> QED
          BY <2>3, <4>5, <5>1 DEF Shown
      <4> QED
        BY <4>4, <4>5
    <3>3. ASSUME ~Exists(s)
          PROVE  Shown(s)'
      <4>1. menu'[s] = NoDate
        BY <1>0, <2>1, <2>3, <3>3
      <4>2. entries'[s] = NoEntry
        BY <2>3, <3>3 DEF Exists
      <4> QED
        BY <4>1, <4>2, ReminderTable DEF Shown
    <3>4. Shown(s)'
      BY <3>2, <3>3
    <3>5. Unsaid(s, saves[c])'
      BY <2>4, <3>4 DEF Unsaid
    <3> QED
      BY <2>1, <2>4, <3>1, <3>4, <3>5, FollowsIts
  <2> QED
    BY <2>5, <2>6, <2>7 DEF MenuInv
\* The menu stays, and what happens to the entry written is an exception.
<1>9. ASSUME NEW c \in Savers, NEW pc \in {"idle", "profile", "certificate", "link"},
             GoesTo(c, pc), ~SaverAt(c, "idle"),
             menu' = menu, astray \subseteq astray',
             saves[c].pc \in {"reread", "sync", "unlist"} => saves[c].of \in astray',
             NEW t \in Sources, t \notin astray', entries'[t] = entries[t]
      PROVE  Follows(t)'
  <2>1. /\ saves'[c].pc = pc /\ saves'[c].of \in {saves[c].of, "none"}
        /\ \A d \in Savers \ {c} : saves'[d] = saves[d]
    BY <1>7, <1>9
  <2>2. Follows(t) /\ (Shown(t)' <=> Shown(t))
    BY <1>3, <1>9 DEF Shown
  <2>3. CASE saves[c].of # t
    BY <1>0, <1>9, <2>1, <2>2, <2>3, FollowsOther
  <2>4. CASE saves[c].of = t
    <3>1. Unsaid(t, saves[c]) /\ \A d \in Savers \ {c} : saves[d].of # t
      BY <2>2, <2>4 DEF Follows
    <3>2. Shown(t)'
      BY <1>9, <2>2, <2>4, <3>1 DEF Unsaid
    <3>3. Unsaid(t, saves[c])'
      BY <2>1, <3>2 DEF Unsaid
    <3> QED
      BY <2>1, <3>1, <3>2, <3>3, FollowsIts
  <2> QED
    BY <2>3, <2>4
<1>10. ASSUME NEW c \in Savers, FailSync(c) \/ FailCopy(c) \/ DropSave(c)
       PROVE  MenuInv'
  <2>1. /\ entries' = entries /\ menu' = menu /\ astray \subseteq astray' /\ ~SaverAt(c, "idle")
        /\ saves[c].pc \in {"reread", "sync", "unlist"} => saves[c].of \in astray'
    BY <1>10 DEF FailSync, FailCopy, DropSave, GoesAstray, SaverAt
  <2>2. PICK pc \in {"idle", "profile", "certificate", "link"} : GoesTo(c, pc)
    BY <1>10, AfterSteps DEF FailSync, FailCopy, DropSave
  <2>3. \A t \in Sources : t \notin astray' => Follows(t)'
    BY <1>9, <2>1, <2>2
  <2> QED
    BY <1>3, <2>1, <2>3 DEF MenuInv, NoOrphan, Exists
<1>11. ASSUME NEW c \in Savers, NEW s \in Sources, CopyDate(s, saves[c].row.due),
              entries[s] # NoEntry, menu' = menu,
              NEW pc \in {"idle", "profile", "certificate", "link"},
              GoesTo(c, pc), saves[c].pc \in {"profile", "certificate"}
       PROVE  MenuInv'
  <2>1. entries' = [entries EXCEPT ![s].due = saves[c].row.due]
    BY <1>11 DEF CopyDate
  <2>2. astray' = astray \cup {t \in {s} : entries[t].due # saves[c].row.due}
    BY <1>11 DEF CopyDate, GoesAstray
  <2>3. entries[s].due = saves[c].row.due => entries'[s] = entries[s]
    <3>1. entries[s] \in OpsEntry
      BY <1>0
    <3>2. entries'[s] = [entries[s] EXCEPT !.due = saves[c].row.due]
      BY <1>0, <2>1
    <3> QED
      BY <3>1, <3>2 DEF OpsEntry
  <2>4. \A t \in Sources : t \notin astray' => entries'[t] = entries[t]
    BY <1>0, <2>1, <2>2, <2>3
  <2>5. ~SaverAt(c, "idle")
    BY <1>11 DEF SaverAt
  <2>6. \A t \in Sources : t \notin astray' => Follows(t)'
    BY <1>9, <1>11, <2>2, <2>4, <2>5
  <2>7. entries'[s] # NoEntry
    <3>1. entries[s].type # "none" /\ entries'[s].type = entries[s].type
      BY <1>0, <1>11, <2>1, ReminderTable DEF KindsInv
    <3> QED
      BY <3>1, ReminderTable
  <2>8. \A t \in Sources : NoOrphan(t)'
    BY <1>0, <1>3, <1>11, <2>1, <2>7 DEF NoOrphan, Exists
  <2> QED
    BY <2>6, <2>8 DEF MenuInv
<1>12. ASSUME NEW c \in Savers, CopyToProfile(c)
       PROVE  MenuInv'
  <2>1. PICK pc \in {"idle", "profile", "certificate", "link"} : GoesTo(c, pc)
    BY <1>12, AfterSteps DEF CopyToProfile
  <2>2. entries["profile"] # NoEntry
    BY ReminderTable DEF RowsInv, ReminderTypeOK
  <2> QED
    BY <1>0, <1>11, <1>12, <2>1, <2>2 DEF CopyToProfile, SaverAt
<1>13. ASSUME NEW c \in Savers, CopyToCertificate(c)
       PROVE  MenuInv'
  <2>1. PICK pc \in {"idle", "profile", "certificate", "link"} : GoesTo(c, pc)
    BY <1>13, AfterSteps DEF CopyToCertificate
  <2>2. CASE entries["cert"].type = "itp"
    <3>1. entries["cert"] # NoEntry /\ "cert" \in Sources
      BY <2>2, ReminderTable DEF Sources
    <3> QED
      BY <1>11, <1>13, <2>1, <2>2, <3>1 DEF CopyToCertificate, SaverAt
  <2>3. CASE entries["cert"].type # "itp"
    <3>1. entries' = entries /\ menu' = menu /\ astray' = astray /\ saves[c].pc = "certificate"
      BY <1>13, <2>3 DEF CopyToCertificate, SaverAt
    <3>2. \A t \in Sources : t \notin astray' => Follows(t)'
      BY <1>9, <2>1, <3>1 DEF SaverAt
    <3> QED
      BY <1>3, <3>1, <3>2 DEF MenuInv, NoOrphan, Exists
  <2> QED
    BY <2>2, <2>3
<1>14. ASSUME NEW c \in Savers, NEW type \in {"itp", "other"}, NEW due \in DueDates,
              Link(c, type, due)
       PROVE  MenuInv'
  <2>0. PICK to \in Sources : to = IF saves[c].of = "cert" THEN "cost" ELSE "cert"
    BY DEF Sources
  <2> DEFINE row == [type |-> type, due |-> due, warn |-> FALSE, sync |-> TRUE]
  <2>1. /\ entries' = [entries EXCEPT ![to] = row] /\ menu' = menu /\ astray' = astray
        /\ saves[c].pc = "link" /\ ~Exists(to) /\ ~InFlight(to) /\ GoesTo(c, "idle")
        /\ ~SaverAt(c, "idle")
    BY <1>14, <2>0 DEF Link, SaverAt
  <2>2. row # NoEntry /\ row.warn = FALSE /\ saves[c].of # to
    BY <1>0, <2>1, ReminderTable DEF InFlight
  <2> HIDE DEF row
  <2>3. \A t \in Sources \ {to} : t \notin astray' => Follows(t)'
    BY <1>0, <1>9, <2>1, <2>2
  <2>4. Follows(to)'
    <3>1. menu'[to] = NoDate /\ entries'[to] = row
      BY <1>0, <1>3, <2>1, <2>2 DEF NoOrphan
    <3>2. Shown(to)'
      BY <2>2, <3>1 DEF Shown
    <3>3. \A d \in Savers : saves'[d].of # to
      BY <1>0, <1>7, <2>1, <2>2 DEF InFlight
    <3> QED
      BY <2>2, <3>2, <3>3, FollowsIts
  <2>5. \A t \in Sources : NoOrphan(t)'
    BY <1>0, <1>3, <2>1, <2>2 DEF NoOrphan, Exists
  <2> QED
    BY <2>3, <2>4, <2>5 DEF MenuInv
<1>15. ASSUME NEW c \in Savers, NEW s \in Sources, TakeOff(c, s)
       PROVE  MenuInv'
  <2> DEFINE row == [entries[s] EXCEPT !.sync = FALSE]
             save == [NoSave EXCEPT !.pc = "unlist", !.of = s]
  <2>1. /\ entries' = [entries EXCEPT ![s] = row] /\ saves' = [saves EXCEPT ![c] = save]
        /\ menu' = menu /\ SaverAt(c, "idle") /\ menu[s] # NoDate
        /\ astray' = astray \cup {t \in {s} : InFlight(t)}
    BY <1>15 DEF TakeOff, GoesAstray
  <2>2. row.sync = FALSE /\ save.of = s /\ save.pc = "unlist"
    <3>1. entries[s] \in OpsEntry
      BY <1>0
    <3> QED
      BY <3>1 DEF OpsEntry, NoSave
  <2>3. row # NoEntry
    <3>1. entries[s] # NoEntry /\ entries[s].type # "none"
      BY <1>0, <1>3, <2>1, ReminderTable DEF NoOrphan, Exists, KindsInv
    <3>2. row.type = entries[s].type
      OBVIOUS
    <3> QED
      BY <3>1, <3>2, ReminderTable
  <2> HIDE DEF row, save
  <2>4. saves'[c] = save /\ \A d \in Savers \ {c} : saves'[d] = saves[d]
    BY <1>0, <2>1
  <2>5. \A t \in Sources : NoOrphan(t)'
    BY <1>0, <1>3, <2>1, <2>3 DEF NoOrphan, Exists
  <2>6. \A t \in Sources \ {s} : t \notin astray' => Follows(t)'
    BY <1>0, <1>2, <1>3, <2>1, <2>2, <2>4, FollowsOther, ReminderTable
  <2>7. s \notin astray' => Follows(s)'
    <3>1. Unsaid(s, saves[c])'
      BY <1>0, <2>1, <2>2, <2>4 DEF Unsaid
    <3>2. s \notin astray' => \A d \in Savers \ {c} : saves'[d].of # s
      BY <2>1, <2>4 DEF InFlight
    <3> QED
      BY <2>2, <2>4, <3>1, <3>2, FollowsIts
  <2> QED
    BY <2>5, <2>6, <2>7 DEF MenuInv
<1>16. ASSUME NEW c \in Savers, Unlist(c)
       PROVE  MenuInv'
  <2>0. PICK s \in Sources : s = saves[c].of
    BY <1>1, <1>16 DEF Unlist, SaverAt
  <2>1. /\ entries' = entries /\ astray' = astray /\ menu' = [menu EXCEPT ![s] = NoDate]
        /\ saves[c].pc = "unlist" /\ saves' = [saves EXCEPT ![c] = NoSave] /\ s = saves[c].of
    BY <1>16, <2>0 DEF Unlist, SaverAt, GoesTo
  <2>2. saves'[c] = NoSave /\ \A d \in Savers \ {c} : saves'[d] = saves[d]
    BY <1>0, <2>1
  <2>3. \A t \in Sources : NoOrphan(t)'
    BY <1>0, <1>3, <2>1 DEF NoOrphan, Exists
  <2>4. \A t \in Sources \ {s} : t \notin astray' => Follows(t)'
    BY <1>0, <1>3, <2>1, <2>2, FollowsOther, ReminderTable
  <2>5. s \notin astray' => Follows(s)'
    <3> SUFFICES ASSUME s \notin astray
                 PROVE  Follows(s)'
      BY <2>1
    <3>1. Unsaid(s, saves[c]) /\ \A d \in Savers \ {c} : saves[d].of # s
      BY <1>3, <2>1 DEF Follows
    <3>2. Shown(s)'
      BY <1>0, <2>1, <3>1 DEF Shown, Unsaid
    <3> QED
      BY <2>1, <2>2, <3>1, <3>2, FollowsIts, ReminderTable
  <2> QED
    BY <2>3, <2>4, <2>5 DEF MenuInv
<1>17. ASSUME NEW s \in Sources, DeleteEntry(s)
       PROVE  MenuInv'
  <2>1. /\ entries' = [entries EXCEPT ![s] = NoEntry] /\ menu' = [menu EXCEPT ![s] = NoDate]
        /\ saves' = saves /\ astray' = astray
    BY <1>17 DEF DeleteEntry
  <2>2. \A t \in Sources : NoOrphan(t)'
    BY <1>0, <1>3, <2>1 DEF NoOrphan, Exists
  <2>3. \A t \in Sources \ {s} : t \notin astray' => Follows(t)'
    BY <1>0, <1>3, <2>1, FollowsOther
  <2>4. s \notin astray' => Follows(s)'
    <3> SUFFICES ASSUME s \notin astray
                 PROVE  Follows(s)'
      BY <2>1
    <3>1. entries'[s] = NoEntry /\ Shown(s)' /\ ~Exists(s)'
      BY <1>0, <2>1, ReminderTable DEF Shown, Exists
    <3>2. \A c \in Savers : saves[c].of = s => Unsaid(s, saves[c])'
      <4> SUFFICES ASSUME NEW c \in Savers, saves[c].of = s
                   PROVE  Unsaid(s, saves[c])'
        OBVIOUS
      <4>1. Unsaid(s, saves[c])
        BY <1>3 DEF Follows
      <4> QED
        BY <2>1, <3>1, <4>1, ReminderTable DEF Unsaid, Unwanted
    <3> QED
      BY <1>3, <2>1, <3>1, <3>2 DEF Follows
  <2> QED
    BY <2>2, <2>3, <2>4 DEF MenuInv
<1>18. ASSUME NEW s \in Sources, NEW due \in DueDates, WriteReminder(s, due)
       PROVE  MenuInv'
  <2>1. /\ entries' = entries /\ saves' = saves /\ astray' = astray \cup {s}
        /\ menu' = [menu EXCEPT ![s] = due] /\ (menu[s] # NoDate \/ Exists(s))
    BY <1>18 DEF WriteReminder, GoesAstray
  <2>2. \A t \in Sources : NoOrphan(t)'
    BY <1>0, <1>3, <2>1 DEF NoOrphan, Exists
  <2>3. \A t \in Sources : t \notin astray' => Follows(t)'
    BY <1>0, <1>3, <2>1, FollowsOther
  <2> QED
    BY <2>2, <2>3 DEF MenuInv
<1>19. CASE UNCHANGED reminderVars
  <2>1. entries' = entries /\ menu' = menu /\ saves' = saves /\ astray' = astray
    BY <1>19 DEF reminderVars
  <2>2. \A t \in Sources : t \notin astray' => Follows(t)'
    BY <1>3, <2>1, FollowsOther
  <2> QED
    BY <1>3, <2>1, <2>2 DEF MenuInv, NoOrphan, Exists
<1> QED
  BY <1>4, <1>5, <1>6, <1>8, <1>10, <1>12, <1>13, <1>14, <1>15, <1>16, <1>17, <1>18, <1>19
     DEF ReminderNext, SyncNext, RowNext
-----------------------------------------------------------------------------
\* The other requests, when one entry and one request change and what is in flight
\* about the inspection, or about that entry, is the request alone.
LEMMA OthersKept ==
  ASSUME RowsInv, DatesInv, NEW c \in Savers, NEW d \in Savers, d # c, saves'[d] = saves[d],
         Busy(d), NEW s \in Sources, \A t \in Sources \ {s} : entries'[t] = entries[t],
         \/ entries'[s].type = entries[s].type /\ entries'[s].due = entries[s].due
         \/ s # "profile" /\ entries'[s] = NoEntry
         \/ saves[d].of # s /\ (s = "profile" => ~Touching(d))
  PROVE  Alike(saves[d].row, entries[saves[d].of])' /\ Copies(saves[d])'
<1>1. /\ saves[d].of \in Sources /\ SaveRow(saves[d].of, saves[d])
      /\ Alike(saves[d].row, entries[saves[d].of]) /\ Copies(saves[d])
      /\ "profile" \in Sources
  BY ReminderTable DEF RowsInv, SavesInv, DatesInv, Busy, Sources
<1>2. saves[d].pc = "certificate" => Touching(d)
  BY <1>1 DEF Copies, Touching, TouchesItp
<1>3. saves[d].pc = "certificate" => entries'["profile"].due = entries["profile"].due
  BY <1>1, <1>2
<1>4. Copies(saves[d])'
  BY <1>1, <1>3 DEF Copies
<1>5. saves[d].of # s => entries'[saves[d].of] = entries[saves[d].of]
  BY <1>1
<1>6. ASSUME saves[d].of = s
      PROVE  Alike(saves[d].row, entries[saves[d].of])'
  <2>1. \/ entries'[s].type = "none"
        \/ entries'[s].type = entries[s].type /\ entries'[s].due = entries[s].due
    BY <1>6, ReminderTable
  <2> QED
    BY <1>1, <1>6, <2>1 DEF Alike
<1> QED
  BY <1>1, <1>4, <1>5, <1>6 DEF Alike

\* The step of one request, of which the others know nothing.
LEMMA DatesFrom ==
  ASSUME DatesInv, NEW c \in Savers, \A d \in Savers \ {c} : saves'[d] = saves[d],
         Touching(c)' => \A d \in Savers \ {c} : ~Touching(d),
         Busy(c)' => \A d \in Savers \ {c} : Busy(d) => saves[d].of # saves'[c].of,
         Busy(c)' => Alike(saves[c].row, entries[saves[c].of])' /\ Copies(saves[c])',
         \A d \in Savers \ {c} :
            Busy(d) => Alike(saves[d].row, entries[saves[d].of])' /\ Copies(saves[d])',
         Agree' \/ (Touching(c) /\ Owes(c))' \/ \E d \in Savers \ {c} : Touching(d) /\ Owes(d)
  PROVE  DatesInv'
<1>1. \A d \in Savers \ {c} : /\ (Busy(d)' <=> Busy(d)) /\ (Touching(d)' <=> Touching(d))
                              /\ (Owes(d)' <=> Owes(d))
  BY DEF Busy, Touching, Owes
<1>2. \A d \in Savers \ {c} : Busy(d)' =>
         Alike(saves[d].row, entries[saves[d].of])' /\ Copies(saves[d])'
  BY <1>1
<1>3. \A d, e \in Savers : Touching(d)' /\ Touching(e)' => d = e
  BY <1>1 DEF DatesInv
<1>4. \A d, e \in Savers : Busy(d)' /\ Busy(e)' /\ saves'[d].of = saves'[e].of => d = e
  BY <1>1 DEF DatesInv
<1>5. Agree' \/ \E d \in Savers : (Touching(d) /\ Owes(d))'
  BY <1>1
<1> QED
  BY <1>2, <1>3, <1>4, <1>5 DEF DatesInv

\* Dates that agree still do when neither changes, or the certificate is gone.
LEMMA AgreeKept ==
  ASSUME entries'["profile"].due = entries["profile"].due,
         \/ entries'["cert"].type = entries["cert"].type /\
              entries'["cert"].due = entries["cert"].due
         \/ entries'["cert"].type = "none"
  PROVE  Agree => Agree'
BY DEF Agree

LEMMA ItpStep == RowsInv /\ MenuInv /\ ItpInv /\ [ReminderNext]_reminderVars => ItpInv'
<1> SUFFICES ASSUME RowsInv, MenuInv, DatesInv, [ReminderNext]_reminderVars, ~muddled, ~muddled'
             PROVE  DatesInv'
  <2>1. ASSUME NEW c \in Savers, WriteNext(c) \/ SyncNext(c), ~muddled'
        PROVE  ~muddled
    BY <2>1 DEF WriteNext, SyncNext, SaveEntry, MarkPerformed, RereadEntry, SyncReminder,
       FailSync, CopyToProfile, CopyToCertificate, FailCopy, Link, TakeOff, Unlist, DropSave,
       Overlaps
  <2>2. RowNext \/ UNCHANGED reminderVars => muddled' = muddled
    BY DEF RowNext, DeleteEntry, WriteReminder, reminderVars
  <2> QED
    BY <2>1, <2>2 DEF ItpInv, ReminderNext
<1>0. /\ entries \in [Sources -> OpsEntry] /\ saves \in [Savers -> Save] /\ SavesInv /\ KindsInv
      /\ "profile" \in Sources /\ "cert" \in Sources /\ "none" \notin Sources
      /\ entries["profile"].type = "itp"
  BY DEF RowsInv, ReminderTypeOK, Sources, KindsInv
<1>1. \A c \in Savers : ~SaverAt(c, "idle") =>
        saves[c].of \in Sources /\ SaveRow(saves[c].of, saves[c])
  BY <1>0, ReminderTable DEF SavesInv, SaverAt
<1>2. \A c \in Savers : Busy(c) => Alike(saves[c].row, entries[saves[c].of]) /\ Copies(saves[c])
  BY DEF DatesInv
\* An entry is written by a new request.
<1>3. ASSUME NEW c \in Savers, NEW s \in Sources, NEW row, SaverAt(c, "idle"), Overlaps(s, row),
             entries' = [entries EXCEPT ![s] = row], saves'[c].of = s, saves'[c].row = row,
             saves'[c].pc \in {"sync", "reread"},
             \A d \in Savers \ {c} : saves'[d] = saves[d]
      PROVE  DatesInv'
  <2>1. \A d \in Savers : /\ saves[d].of # s
                          /\ ~(~SaverAt(d, "idle") /\ TouchesItp(s, row)
                               /\ TouchesItp(saves[d].of, saves[d].row))
    BY <1>3 DEF Overlaps
  <2>2. entries'[s] = row /\ \A t \in Sources \ {s} : entries'[t] = entries[t]
    BY <1>0, <1>3
  <2>3. Touching(c)' => TouchesItp(s, row)
    BY <1>3 DEF Touching
  <2>4. \A d \in Savers : TouchesItp(s, row) => ~Touching(d)
    BY <2>1 DEF Touching, Busy, SaverAt
  <2>5. s \in {"profile", "cert"} => TouchesItp(s, row)
    BY DEF TouchesItp
  <2>6. ASSUME NEW d \in Savers \ {c}, Busy(d)
        PROVE  Alike(saves[d].row, entries[saves[d].of])' /\ Copies(saves[d])'
    BY <1>3, <2>1, <2>2, <2>4, <2>5, <2>6, OthersKept
  <2>7. Alike(saves[c].row, entries[saves[c].of])' /\ Copies(saves[c])'
    BY <1>3, <2>2 DEF Alike, Copies
  <2>8. Agree' \/ (Touching(c) /\ Owes(c))' \/ \E d \in Savers \ {c} : Touching(d) /\ Owes(d)
    <3>1. CASE s \in {"profile", "cert"}
      BY <1>3, <3>1 DEF Touching, Busy, TouchesItp, Owes
    <3>2. CASE s \notin {"profile", "cert"}
      <4>1. Agree => Agree'
        BY <1>0, <2>2, <3>2, AgreeKept
      <4>2. ~Touching(c)
        BY <1>3 DEF Touching, Busy, SaverAt
      <4> QED
        BY <4>1, <4>2 DEF DatesInv
    <3> QED
      BY <3>1, <3>2
  <2> QED
    BY <1>3, <2>1, <2>3, <2>4, <2>6, <2>7, <2>8, DatesFrom
<1>4. ASSUME NEW c \in Savers, WriteNext(c)
      PROVE  DatesInv'
  <2>1. PICK s \in Sources, off \in BOOLEAN, link \in BOOLEAN :
           \E row \in EntriesOf[s] : SaveEntry(c, s, row, off, link)
    BY <1>4 DEF WriteNext
  <2>2. PICK row \in EntriesOf[s] : SaveEntry(c, s, row, off, link)
    BY <2>1
  <2>3. PICK pc \in StepsAfterWrite(s) :
           saves' = [saves EXCEPT ![c] =
                       [pc |-> pc, of |-> s, row |-> row, off |-> off, link |-> link]]
    BY <2>2 DEF SaveEntry
  <2>4. pc \in {"sync", "reread"}
    BY DEF StepsAfterWrite
  <2>5. /\ saves'[c].pc = pc /\ saves'[c].of = s /\ saves'[c].row = row
        /\ \A d \in Savers \ {c} : saves'[d] = saves[d]
    BY <1>0, <2>3
  <2> QED
    BY <1>3, <1>4, <2>2, <2>4, <2>5 DEF SaveEntry, WriteNext
<1>5. ASSUME NEW c \in Savers, NEW due \in DueDates, MarkPerformed(c, due)
      PROVE  DatesInv'
  <2> DEFINE row == [entries["plan"] EXCEPT !.due = due]
             save == [NoSave EXCEPT !.pc = "sync", !.of = "plan", !.row = row]
  <2>1. /\ entries' = [entries EXCEPT !["plan"] = row] /\ saves' = [saves EXCEPT ![c] = save]
        /\ SaverAt(c, "idle") /\ Overlaps("plan", row) /\ "plan" \in Sources
    BY <1>5 DEF MarkPerformed, Sources
  <2> HIDE DEF row
  <2>2. save.of = "plan" /\ save.row = row /\ save.pc = "sync"
    BY DEF NoSave
  <2> HIDE DEF save
  <2>3. saves'[c] = save /\ \A d \in Savers \ {c} : saves'[d] = saves[d]
    BY <1>0, <2>1
  <2> QED
    BY <1>3, <2>1, <2>2, <2>3
\* A request goes on, with what it has, and writes no entry.
<1>6. ASSUME NEW c \in Savers, entries' = entries,
             \A d \in Savers \ {c} : saves'[d] = saves[d],
             Busy(c)' => /\ Busy(c) /\ saves'[c].of = saves[c].of
                         /\ saves'[c].row.type = saves[c].row.type
                         /\ saves'[c].row.due = saves[c].row.due
                         /\ Copies(saves[c])',
             Touching(c) /\ Owes(c) => Agree \/ (Touching(c) /\ Owes(c))'
      PROVE  DatesInv'
  <2>1. ASSUME NEW d \in Savers \ {c}, Busy(d)
        PROVE  Alike(saves[d].row, entries[saves[d].of])' /\ Copies(saves[d])'
    BY <1>2, <1>6, <2>1 DEF Alike, Copies
  <2>2. Busy(c)' => /\ Alike(saves[c].row, entries[saves[c].of])'
                    /\ \A d \in Savers \ {c} : Busy(d) => saves[d].of # saves'[c].of
    BY <1>2, <1>6 DEF Alike, DatesInv
  <2>3. Touching(c)' => Touching(c)
    BY <1>6 DEF Touching, TouchesItp
  <2>4. Touching(c)' => \A d \in Savers \ {c} : ~Touching(d)
    BY <2>3 DEF DatesInv
  <2>5. Agree' \/ (Touching(c) /\ Owes(c))' \/ \E d \in Savers \ {c} : Touching(d) /\ Owes(d)
    <3>1. Agree' <=> Agree
      BY <1>6 DEF Agree
    <3> QED
      BY <1>6, <3>1 DEF DatesInv
  <2> QED
    BY <1>6, <2>1, <2>2, <2>4, <2>5, DatesFrom
<1>7. ASSUME NEW c \in Savers, RereadEntry(c)
      PROVE  DatesInv'
  <2>0. PICK s \in Sources : s = saves[c].of
    BY <1>1, <1>7 DEF RereadEntry, SaverAt
  <2>1. /\ saves[c].pc = "reread" /\ saves[c] \in Save /\ entries' = entries /\ Busy(c)
        /\ s \in {"cost", "service", "profile"} /\ saves[c].row.type \in TypesOf(s)
    BY <1>0, <1>1, <1>7, <2>0 DEF RereadEntry, SaverAt, SaveRow, Busy
  <2>2. /\ Exists(s) => /\ saves'[c].pc = "sync" /\ saves'[c].of = s
                        /\ saves'[c].row = entries[s]
        /\ ~Exists(s) => saves'[c] = NoSave
        /\ \A d \in Savers \ {c} : saves'[d] = saves[d]
    BY <1>0, <1>7, <2>0, <2>1 DEF RereadEntry, Save
  <2>3. Exists(s) => saves[c].row.type = entries[s].type /\ saves[c].row.due = entries[s].due
    BY <1>0, <1>2, <2>0, <2>1, ReminderTable DEF Alike, Exists, KindsInv
  <2>4. CASE Exists(s)
    <3>1. Copies(saves[c])'
      BY <2>2, <2>4 DEF Copies
    <3>2. Touching(c) /\ Owes(c) => (Touching(c) /\ Owes(c))'
      BY <2>0, <2>1, <2>2, <2>3, <2>4 DEF Touching, Owes, TouchesItp, Busy
    <3> QED
      BY <1>6, <2>0, <2>1, <2>2, <2>3, <2>4, <3>1, <3>2
  <2>5. CASE ~Exists(s)
    <3>1. s # "profile"
      BY <1>0, <2>5, ReminderTable DEF Exists
    <3>2. ~Owes(c) /\ ~Busy(c)'
      BY <2>0, <2>1, <2>2, <2>5, <3>1, ReminderTable DEF Owes, Busy
    <3> QED
      BY <1>6, <2>1, <2>2, <3>2
  <2> QED
    BY <2>4, <2>5
<1>8. ASSUME NEW c \in Savers, NEW pc, GoesTo(c, pc), saves[c].pc = "sync",
             pc = AfterSync(saves[c]), entries' = entries
      PROVE  DatesInv'
  <2>0. PICK s \in Sources : s = saves[c].of
    BY <1>1, <1>8 DEF SaverAt
  <2>1. saves[c] \in Save /\ Busy(c) /\ saves[c].row.type \in TypesOf(s)
    BY <1>0, <1>1, <1>8, <2>0 DEF SaverAt, SaveRow, Busy
  <2>2. /\ pc = "idle" => saves'[c] = NoSave
        /\ pc # "idle" => /\ saves'[c].pc = pc /\ saves'[c].of = s
                          /\ saves'[c].row = saves[c].row
        /\ \A d \in Savers \ {c} : saves'[d] = saves[d]
    BY <1>0, <1>8, <2>0, <2>1 DEF GoesTo, Save
  <2>3. Busy(c)' => pc # "idle"
    BY <2>2, ReminderTable DEF Busy
  <2>4. \/ entries[s].type = "none"
        \/ saves[c].row.type = entries[s].type /\ saves[c].row.due = entries[s].due
    BY <1>2, <2>0, <2>1 DEF Alike
  <2>5. pc # "idle" => Copies(saves[c])'
    <3>1. pc = "profile" => saves[c].row.type = "itp" /\ saves[c].row.due # NoDate /\
            s # "profile"
      BY <1>8, <2>0 DEF AfterSync
    <3>2. pc = "certificate" => /\ saves[c].row.type = "itp" /\ saves[c].row.due # NoDate
                                /\ s = "profile"
      BY <1>8, <2>0 DEF AfterSync
    <3>3. pc = "certificate" => entries'["profile"].due = saves[c].row.due
      BY <1>0, <1>8, <2>4, <3>2
    <3> QED
      BY <2>2, <3>1, <3>2, <3>3 DEF Copies
  <2>6. Touching(c) /\ Owes(c) => Agree \/ (Touching(c) /\ Owes(c))'
    <3> SUFFICES ASSUME Owes(c)
                 PROVE  Agree \/ (Touching(c) /\ Owes(c))'
      OBVIOUS
    <3>1. s \in {"cert", "profile"}
      BY <1>8, <2>0 DEF Owes
    <3>2. CASE saves[c].row.type = "itp" /\ saves[c].row.due # NoDate
      <4>1. pc = IF s = "profile" THEN "certificate" ELSE "profile"
        BY <1>8, <2>0, <3>2 DEF AfterSync
      <4> QED
        BY <2>2, <3>1, <4>1 DEF Touching, Busy, TouchesItp, Owes
    <3>3. CASE saves[c].row.type # "itp"
      <4>1. s = "cert" /\ entries["cert"].type # "itp"
        BY <2>1, <2>4, <3>1, <3>3, ReminderTable
      <4> QED
        BY <4>1 DEF Agree
    <3>4. CASE saves[c].row.due = NoDate
      BY <1>0, <2>4, <3>1, <3>4 DEF Agree
    <3> QED
      BY <3>2, <3>3, <3>4
  <2> QED
    BY <1>6, <1>8, <2>0, <2>1, <2>2, <2>3, <2>5, <2>6
<1>9. ASSUME NEW c \in Savers, SyncReminder(c) \/ FailSync(c)
      PROVE  DatesInv'
  BY <1>8, <1>9 DEF SyncReminder, FailSync, SaverAt
\* A request that has copied its date for the last time.
<1>10. ASSUME NEW c \in Savers, ~SaverAt(c, "idle"), NEW pc \in {"idle", "link"}, GoesTo(c, pc)
       PROVE  /\ Busy(c)' => pc = "link" /\ saves'[c].of = saves[c].of /\
                   saves'[c].row = saves[c].row
              /\ Busy(c)' => saves'[c].pc = "link" /\ Copies(saves[c])'
              /\ \A d \in Savers \ {c} : saves'[d] = saves[d]
  <2>1. saves[c] \in Save
    BY <1>0
  <2>2. /\ pc = "idle" => saves'[c] = NoSave
        /\ pc # "idle" => /\ saves'[c].pc = pc /\ saves'[c].of = saves[c].of
                          /\ saves'[c].row = saves[c].row
        /\ \A d \in Savers \ {c} : saves'[d] = saves[d]
    BY <1>0, <1>10, <2>1 DEF GoesTo, Save
  <2> QED
    BY <1>10, <2>2, ReminderTable DEF Busy, Copies
<1>11. ASSUME NEW c \in Savers, CopyToProfile(c)
       PROVE  DatesInv'
  <2>0. PICK s \in Sources : s = saves[c].of
    BY <1>1, <1>11 DEF CopyToProfile, SaverAt
  <2>1. /\ saves[c].pc = "profile" /\ saves[c] \in Save /\ Busy(c) /\ s # "profile"
        /\ saves[c].row.type = "itp" /\ Touching(c)
    BY <1>0, <1>2, <1>11, <2>0 DEF CopyToProfile, SaverAt, Busy, Copies, Touching, TouchesItp
  <2>2. PICK pc \in {"idle", "link", "certificate"} :
           GoesTo(c, pc) /\ (s = "cert" <=> pc # "certificate")
    BY <1>11, <2>0, AfterSteps DEF CopyToProfile
  <2>3. /\ entries'["profile"].type = "itp" /\ entries'["profile"].due = saves[c].row.due
        /\ \A t \in Sources \ {"profile"} : entries'[t] = entries[t]
    <3>1. entries' = [entries EXCEPT !["profile"].due = saves[c].row.due]
      BY <1>11 DEF CopyToProfile, CopyDate
    <3> QED
      BY <1>0, <3>1
  <2>4. /\ pc = "idle" => saves'[c] = NoSave
        /\ pc # "idle" => /\ saves'[c].pc = pc /\ saves'[c].of = s
                          /\ saves'[c].row = saves[c].row
        /\ \A d \in Savers \ {c} : saves'[d] = saves[d]
    BY <1>0, <2>0, <2>1, <2>2 DEF GoesTo, Save
  <2>5. Busy(c)' => pc # "idle"
    BY <2>4, ReminderTable DEF Busy
  <2>6. \A d \in Savers \ {c} : ~Touching(d) /\ (Busy(d) => saves[d].of # s)
    BY <2>0, <2>1 DEF DatesInv
  <2>7. ASSUME NEW d \in Savers \ {c}, Busy(d)
        PROVE  Alike(saves[d].row, entries[saves[d].of])' /\ Copies(saves[d])'
    <3>1. saves[d].of # "profile"
      BY <2>6, <2>7 DEF Touching, TouchesItp
    <3> QED
      BY <1>0, <2>3, <2>4, <2>6, <2>7, <3>1, OthersKept
  <2>8. Busy(c)' => Alike(saves[c].row, entries[saves[c].of])' /\ Copies(saves[c])'
    BY <1>0, <1>2, <2>0, <2>1, <2>2, <2>3, <2>4, <2>5 DEF Alike, Copies
  <2>9. Agree' \/ (Touching(c) /\ Owes(c))'
    <3>1. CASE s = "cert"
      <4>1. entries'["cert"] = entries["cert"] /\ Alike(saves[c].row, entries["cert"])
        BY <1>0, <1>2, <2>0, <2>1, <2>3, <3>1
      <4> QED
        BY <2>3, <4>1 DEF Alike, Agree
    <3>2. CASE s # "cert"
      BY <2>1, <2>2, <2>4, <3>2 DEF Touching, Busy, TouchesItp, Owes
    <3> QED
      BY <3>1, <3>2
  <2> QED
    BY <2>4, <2>5, <2>6, <2>7, <2>8, <2>9, DatesFrom
<1>12. ASSUME NEW c \in Savers, CopyToCertificate(c)
       PROVE  DatesInv'
  <2>0. PICK s \in Sources : s = saves[c].of
    BY <1>1, <1>12 DEF CopyToCertificate, SaverAt
  <2>1. /\ saves[c].pc = "certificate" /\ saves[c] \in Save /\ Busy(c) /\ s # "cert"
        /\ saves[c].row.type = "itp" /\ Touching(c) /\ entries["profile"].due = saves[c].row.due
    BY <1>0, <1>2, <1>12, <2>0 DEF CopyToCertificate, SaverAt, Busy, Copies, Touching, TouchesItp
  <2>2. PICK pc \in {"idle", "link"} : GoesTo(c, pc)
    BY <1>12, AfterSteps DEF CopyToCertificate
  <2>3. /\ entries'["cert"].type = entries["cert"].type
        /\ entries["cert"].type = "itp" => entries'["cert"].due = saves[c].row.due
        /\ \A t \in Sources \ {"cert"} : entries'[t] = entries[t]
    <3>1. CASE entries["cert"].type = "itp"
      <4>1. entries' = [entries EXCEPT !["cert"].due = saves[c].row.due]
        BY <1>12, <3>1 DEF CopyToCertificate, CopyDate
      <4> QED
        BY <1>0, <4>1
    <3>2. CASE entries["cert"].type # "itp"
      BY <1>12, <3>2 DEF CopyToCertificate
    <3> QED
      BY <3>1, <3>2
  <2>4. /\ Busy(c)' => saves'[c].of = s /\ saves'[c].row = saves[c].row /\ Copies(saves[c])'
        /\ \A d \in Savers \ {c} : saves'[d] = saves[d]
    BY <1>10, <2>0, <2>1, <2>2 DEF SaverAt
  <2>5. \A d \in Savers \ {c} : ~Touching(d) /\ (Busy(d) => saves[d].of # s)
    BY <2>0, <2>1 DEF DatesInv
  <2>6. ASSUME NEW d \in Savers \ {c}, Busy(d)
        PROVE  Alike(saves[d].row, entries[saves[d].of])' /\ Copies(saves[d])'
    <3>1. saves[d].of # "cert"
      BY <2>5, <2>6 DEF Touching, TouchesItp
    <3> QED
      BY <1>0, <2>3, <2>4, <2>5, <2>6, <3>1, OthersKept
  <2>7. Busy(c)' => Alike(saves[c].row, entries[saves[c].of])'
    BY <1>2, <2>0, <2>1, <2>3, <2>4 DEF Alike
  <2>8. Agree'
    BY <1>0, <2>1, <2>3 DEF Agree
  <2> QED
    BY <2>4, <2>5, <2>6, <2>7, <2>8, DatesFrom
<1>13. ASSUME NEW c \in Savers, FailCopy(c)
       PROVE  DatesInv'
  BY <1>13 DEF FailCopy
<1>14. ASSUME NEW c \in Savers, NEW type \in {"itp", "other"}, NEW due \in DueDates,
              Link(c, type, due)
       PROVE  DatesInv'
  <2>0. PICK to \in Sources : to = IF saves[c].of = "cert" THEN "cost" ELSE "cert"
    BY DEF Sources
  <2>1. /\ saves[c].pc = "link" /\ ~InFlight(to) /\ GoesTo(c, "idle") /\ ~SaverAt(c, "idle")
        /\ entries' = [entries EXCEPT ![to] =
                          [type |-> type, due |-> due, warn |-> FALSE, sync |-> TRUE]]
        /\ ~(to = "cert" /\ type = "itp" /\ due # entries["profile"].due)
    BY <1>14, <2>0 DEF Link, SaverAt
  <2>2. to # "profile" /\ \A d \in Savers : saves[d].of # to
    BY <2>0, <2>1 DEF InFlight
  <2>3. /\ entries'[to].type = type /\ entries'[to].due = due
        /\ \A t \in Sources \ {to} : entries'[t] = entries[t]
    BY <1>0, <2>1
  <2>4. ~Busy(c)' /\ \A d \in Savers \ {c} : saves'[d] = saves[d]
    BY <1>10, <2>1
  <2>5. ASSUME NEW d \in Savers \ {c}, Busy(d)
        PROVE  Alike(saves[d].row, entries[saves[d].of])' /\ Copies(saves[d])'
    BY <2>2, <2>3, <2>4, <2>5, OthersKept
  <2>6. Agree' \/ \E d \in Savers \ {c} : Touching(d) /\ Owes(d)
    <3>1. CASE to = "cert"
      BY <1>0, <2>1, <2>3, <3>1 DEF Agree
    <3>2. CASE to # "cert"
      <4>1. Agree => Agree'
        BY <1>0, <2>2, <2>3, <3>2, AgreeKept
      <4>2. ~Owes(c)
        BY <2>1 DEF Owes
      <4> QED
        BY <4>1, <4>2 DEF DatesInv
    <3> QED
      BY <3>1, <3>2
  <2> QED
    BY <2>4, <2>5, <2>6, DatesFrom DEF Touching
<1>15. ASSUME NEW c \in Savers, NEW s \in Sources, TakeOff(c, s)
       PROVE  DatesInv'
  <2>1. /\ entries' = [entries EXCEPT ![s].sync = FALSE] /\ SaverAt(c, "idle")
        /\ saves' = [saves EXCEPT ![c] = [NoSave EXCEPT !.pc = "unlist", !.of = s]]
    BY <1>15 DEF TakeOff
  <2>2. /\ entries'[s].type = entries[s].type /\ entries'[s].due = entries[s].due
        /\ \A t \in Sources \ {s} : entries'[t] = entries[t]
    BY <1>0, <2>1
  <2>3. saves'[c].pc = "unlist" /\ \A d \in Savers \ {c} : saves'[d] = saves[d]
    BY <1>0, <2>1 DEF NoSave
  <2>4. ~Busy(c)' /\ ~Busy(c)
    BY <2>1, <2>3 DEF Busy, SaverAt
  <2>5. ASSUME NEW d \in Savers \ {c}, Busy(d)
        PROVE  Alike(saves[d].row, entries[saves[d].of])' /\ Copies(saves[d])'
    BY <2>2, <2>3, <2>5, OthersKept
  <2>6. Agree => Agree'
    BY <1>0, <2>2, AgreeKept
  <2>7. Agree' \/ \E d \in Savers \ {c} : Touching(d) /\ Owes(d)
    BY <2>4, <2>6 DEF DatesInv, Touching
  <2> QED
    BY <2>3, <2>4, <2>5, <2>7, DatesFrom DEF Touching
<1>16. ASSUME NEW c \in Savers, Unlist(c) \/ DropSave(c)
       PROVE  DatesInv'
  <2>1. entries' = entries /\ GoesTo(c, "idle") /\ ~SaverAt(c, "idle")
    BY <1>16 DEF Unlist, DropSave, SaverAt
  <2>2. ~Busy(c)' /\ \A d \in Savers \ {c} : saves'[d] = saves[d]
    BY <1>10, <2>1
  <2>3. ~Touching(c)
    BY <1>16 DEF Unlist, DropSave, Touching, Busy, SaverAt
  <2> QED
    BY <1>6, <2>1, <2>2, <2>3
<1>17. ASSUME NEW s \in Sources, DeleteEntry(s)
       PROVE  DatesInv'
  <2>1. s # "profile" /\ entries' = [entries EXCEPT ![s] = NoEntry] /\ saves' = saves
    BY <1>17 DEF DeleteEntry
  <2>2. entries'[s] = NoEntry /\ \A t \in Sources \ {s} : entries'[t] = entries[t]
    BY <1>0, <2>1
  <2>3. ASSUME NEW d \in Savers, Busy(d)
        PROVE  Alike(saves[d].row, entries[saves[d].of])' /\ Copies(saves[d])'
    <3>1. /\ Alike(saves[d].row, entries[saves[d].of]) /\ Copies(saves[d])
          /\ saves[d].of \in Sources
      BY <1>1, <1>2, <2>3 DEF Busy, SaverAt
    <3>2. Copies(saves[d])'
      BY <1>0, <2>1, <2>2, <3>1 DEF Copies
    <3>3. Alike(saves[d].row, entries[saves[d].of])'
      BY <2>1, <2>2, <3>1, ReminderTable DEF Alike
    <3> QED
      BY <3>2, <3>3
  <2>4. Agree => Agree'
    BY <1>0, <2>1, <2>2, AgreeKept, ReminderTable
  <2>5. \A d \in Savers : (Busy(d)' <=> Busy(d)) /\ (Touching(d)' <=> Touching(d)) /\
          (Owes(d)' <=> Owes(d))
    BY <2>1 DEF Busy, Touching, Owes
  <2>6. \A d \in Savers : Busy(d)' => Alike(saves[d].row, entries[saves[d].of])' /\
          Copies(saves[d])'
    BY <2>3, <2>5
  <2>7. \A c, d \in Savers : Busy(c)' /\ Busy(d)' /\ saves'[c].of = saves'[d].of => c = d
    BY <2>1, <2>5 DEF DatesInv
  <2>8. \A c, d \in Savers : Touching(c)' /\ Touching(d)' => c = d
    BY <2>5 DEF DatesInv
  <2>9. Agree' \/ \E d \in Savers : (Touching(d) /\ Owes(d))'
    BY <2>4, <2>5 DEF DatesInv
  <2> QED
    BY <2>6, <2>7, <2>8, <2>9 DEF DatesInv
<1>18. ASSUME entries' = entries, saves' = saves
       PROVE  DatesInv'
  BY <1>18 DEF DatesInv, Busy, Touching, Owes, Agree, Alike, Copies
<1>19. ASSUME NEW s \in Sources, NEW due \in DueDates, WriteReminder(s, due)
       PROVE  DatesInv'
  BY <1>18, <1>19 DEF WriteReminder
<1>20. CASE UNCHANGED reminderVars
  BY <1>18, <1>20 DEF reminderVars
<1> QED
  BY <1>4, <1>5, <1>7, <1>9, <1>11, <1>12, <1>13, <1>14, <1>15, <1>16, <1>17, <1>19, <1>20
     DEF ReminderNext, SyncNext, RowNext

LEMMA ReminderStart == ReminderInit => RowsInv /\ MenuInv /\ ItpInv
<1> SUFFICES ASSUME ReminderInit
             PROVE  RowsInv /\ MenuInv /\ ItpInv
  OBVIOUS
<1>1. /\ \A s \in Sources : menu[s] = NoDate /\ entries[s].due = NoDate
      /\ \A c \in Savers : saves[c] = NoSave
      /\ entries["profile"].type = "itp" /\ "profile" \in Sources /\ "cert" \in Sources
      /\ \A s \in Sources \ {"profile"} : entries[s] = NoEntry
  BY ReminderTable DEF ReminderInit, Sources
<1>2. RowsInv
  <2>1. [type |-> "itp", due |-> NoDate, warn |-> FALSE, sync |-> TRUE] \in OpsEntry
    BY ReminderTable DEF OpsEntry
  <2>2. entries \in [Sources -> OpsEntry] /\ menu \in [Sources -> DueDates] /\
          saves \in [Savers -> Save]
    BY <2>1, ReminderTable DEF ReminderInit
  <2> QED
    BY <1>1, <2>2, ReminderTable DEF RowsInv, ReminderTypeOK, KindsInv, SavesInv, ReminderInit
<1>3. MenuInv
  BY <1>1, ReminderTable DEF MenuInv, NoOrphan, Follows, Shown, InFlight
<1>4. ItpInv
  BY <1>1, ReminderTable DEF ItpInv, DatesInv, Busy, Touching, Agree
<1> QED
  BY <1>2, <1>3, <1>4

\* Types: an entry has a type of its kind, and a request about it writes such a one.
THEOREM RemindersTypeCorrect == ReminderSpec => []ReminderTypeOK
<1>1. RowsInv => ReminderTypeOK
  BY DEF RowsInv
<1> QED
  BY <1>1, ReminderStart, RowsStep, PTL DEF ReminderSpec

\* However requests about different entries overlap, fail, stop and are repeated, the
\* reminder of an entry that is not astray shows its date when no request about it is in
\* flight, and no reminder outlives its entry.
THEOREM MenuShowsDue == ReminderSpec => []MenuFollowsEntries
<1>1. MenuInv => MenuFollowsEntries
  BY DEF MenuInv, MenuFollowsEntries, NoOrphan, Follows, Shown
<1> QED
  BY <1>1, ReminderStart, RowsStep, MenuStep, PTL DEF ReminderSpec

\* Wherever inspections are recorded, edited and deleted, and whichever other requests
\* overlap, profile and certificate bear the same date when nothing is in flight about it.
THEOREM InspectionsAgree == ReminderSpec => []ItpDatesAgree
<1>1. ItpInv => ItpDatesAgree
  BY DEF ItpInv, DatesInv, ItpDatesAgree, Touching, Agree
<1> QED
  BY <1>1, ReminderStart, RowsStep, MenuStep, ItpStep, PTL DEF ReminderSpec
-----------------------------------------------------------------------------
(***************************************************************************)
(* The dossier.  Every history that is stored or has been read is sound by *)
(* itself, as a request writes the whole of it: an id stands for one entry *)
(* made before now; a document is newer than its request, the only one of  *)
(* it, and of an approved one; and a request numbered 1 is the first, with *)
(* the others numbered after it.                                           *)
(***************************************************************************)
Position(h, e) == Cardinality({f \in RequestsIn(h) : f.id =< e.id})
Numbered(h) ==
    (\E e \in RequestsIn(h) : e.sequence = 1) => \A e \in RequestsIn(h) : e.sequence = Position(h, e)
Identified(h, n) ==
    /\ h \subseteq Entry /\ IsFiniteSet(h)
    /\ \A e \in h : e.id =< n
    /\ \A e, f \in h : e.id = f.id => e = f
Later(h) ==
    /\ \A d \in Pvs(h) : d.requestId < d.id
    /\ \A d, f \in Pvs(h) : d.requestId = f.requestId => d = f
Documented(h) ==
    \A e \in RequestsIn(h) : e.status = "approved" <=> \E d \in Pvs(h) : d.requestId = e.id

Dossier(h, n) == Identified(h, n) /\ Numbered(h) /\ Later(h) /\ Documented(h)
Kept(h, n) == Dossier(h, n) /\ Cardinality(h) =< KEEP

DossierInv ==
    /\ pipeline \in Pipeline /\ clock \in 0..MaxEntries /\ grounded \in BOOLEAN
    /\ Kept(history, clock)
    /\ DOMAIN call = Calls
    /\ \A c \in Calls : \/ call[c] = IdleCall
                        \/ /\ call[c].pipeline \in Pipeline
                           /\ Kept(call[c].history, clock)
    /\ WaitsForPending

LEMMA DossierTable ==
  /\ KEEP \in Nat /\ KEEP >= 1 /\ MaxEntries \in Nat /\ Steps \subseteq Pipeline
  /\ Pipeline = {"docs_pending", "notified", "inspection_note", "reinspection_requested",
                 "quote_ready", "payment_accepted", "other"}
  /\ IdleCall.pipeline \notin Pipeline
<1>1. DOMAIN PIPELINE_ORDER = 1..6
  BY DEF PIPELINE_ORDER
<1>2. {PIPELINE_ORDER[i] : i \in 1..6} =
        {"docs_pending", "notified", "inspection_note", "reinspection_requested",
         "quote_ready", "payment_accepted"}
  <2>1. 1..6 = {1, 2, 3, 4, 5, 6}
    OBVIOUS
  <2> QED
    BY <2>1 DEF PIPELINE_ORDER
<1>3. Pipeline = {"docs_pending", "notified", "inspection_note", "reinspection_requested",
                 "quote_ready", "payment_accepted", "other"}
  BY <1>1, <1>2 DEF Pipeline
<1> QED
  BY <1>3, DossierAssumption DEF DossierAssumption, IdleCall

\* A history has no more entries than ids.
LEMMA FewEntries ==
  ASSUME NEW n \in Nat, NEW h, Identified(h, n)
  PROVE  /\ Cardinality(h) \in 0..n
         /\ \A g \in SUBSET h : IsFiniteSet(g) /\ Cardinality(g) \in 0..n
<1>1. \A e \in h : e.id \in 1..n
  BY DEF Identified, Entry, EntryIds
<1> DEFINE f == [e \in h |-> e.id]
<1>2. f \in Injection(h, 1..n)
  BY <1>1 DEF Identified, Injection, IsInjective
<1>3. IsFiniteSet(1..n) /\ Cardinality(1..n) = n
  BY FS_Interval
<1>4. IsFiniteSet(h) /\ Cardinality(h) =< n
  BY <1>2, <1>3, FS_Injection
<1>5. \A g \in SUBSET h : IsFiniteSet(g) /\ Cardinality(g) =< Cardinality(h)
  BY <1>4, FS_Subset
<1> QED
  BY <1>4, <1>5, FS_CardinalityType

\* What is cut off a history is its oldest part.
LEMMA Cut ==
  ASSUME NEW n \in Nat, NEW h, NEW e, Identified(h \cup {e}, n)
  PROVE  /\ Prepended(h, e) \subseteq h \cup {e}
         /\ \A x \in Prepended(h, e), y \in h \cup {e} : y.id >= x.id => y \in Prepended(h, e)
         /\ Cardinality(Prepended(h, e)) =< KEEP
         /\ (\A x \in h : x.id < e.id) => e \in Prepended(h, e)
<1> DEFINE all == h \cup {e}
           After(x) == {y \in all : y.id >= x.id}
           p == Prepended(h, e)
<1>1. p = {x \in all : Cardinality(After(x)) =< KEEP}
  BY DEF Prepended
<1>2. \A x \in all : x.id \in 1..n
  BY DEF Identified, Entry, EntryIds
<1>3. \A x \in all : IsFiniteSet(After(x)) /\ Cardinality(After(x)) \in Nat
  BY FewEntries
<1>4. ASSUME NEW x \in p, NEW y \in all, y.id >= x.id
      PROVE  y \in p
  <2>1. After(y) \subseteq After(x)
    BY <1>1, <1>2, <1>4
  <2>2. x \in all /\ Cardinality(After(x)) =< KEEP
    BY <1>1, <1>4
  <2>3. Cardinality(After(y)) =< Cardinality(After(x))
    BY <1>3, <2>1, <2>2, FS_Subset
  <2>4. Cardinality(After(y)) \in Nat /\ Cardinality(After(x)) \in Nat
    BY <1>3, <2>2
  <2> HIDE DEF After
  <2>5. Cardinality(After(y)) =< KEEP
    BY <2>2, <2>3, <2>4, DossierTable
  <2> QED
    BY <1>1, <2>5
<1>5. Cardinality(p) =< KEEP
  <2>1. p = {} => Cardinality(p) =< KEEP
    BY FS_EmptySet, DossierTable
  <2>2. ASSUME p # {}
        PROVE  Cardinality(p) =< KEEP
    <3> DEFINE ids == {x.id : x \in p}
    <3>1. ids \subseteq 1..n /\ ids # {}
      BY <1>1, <1>2, <2>2
    <3>2. PICK l \in ids : \A i \in ids : l =< i
      BY <3>1, NewestExists
    <3>3. PICK x \in p : x.id = l
      BY <3>2
    <3>4. p \subseteq After(x)
      BY <1>1, <1>2, <3>2, <3>3
    <3>5. x \in all /\ Cardinality(After(x)) =< KEEP
      BY <1>1
    <3>6. Cardinality(p) =< Cardinality(After(x)) /\ IsFiniteSet(p)
      BY <1>3, <3>4, <3>5, FS_Subset
    <3>7. Cardinality(p) \in Nat
      BY <3>6, FS_CardinalityType
    <3> QED
      BY <1>3, <3>5, <3>6, <3>7, DossierTable
  <2> QED
    BY <2>1, <2>2
<1>6. ASSUME \A x \in h : x.id < e.id
      PROVE  e \in p
  <2>1. After(e) = {e}
    BY <1>2, <1>6
  <2> QED
    BY <1>1, <2>1, FS_Singleton, DossierTable
<1> QED
  BY <1>1, <1>4, <1>5, <1>6

\* What is left of a sound history is sound.
LEMMA CutSound ==
  ASSUME NEW n \in Nat, NEW h, NEW e, Dossier(h \cup {e}, n)
  PROVE  Kept(Prepended(h, e), n)
<1> DEFINE all == h \cup {e}
           p == Prepended(h, e)
<1>0. Identified(all, n) /\ Numbered(all) /\ Later(all) /\ Documented(all)
  BY DEF Dossier
<1>1. /\ p \subseteq all /\ Cardinality(p) =< KEEP
      /\ \A x \in p, y \in all : y.id >= x.id => y \in p
  BY <1>0, Cut
<1> HIDE DEF p, all
<1>2. Identified(p, n)
  <2>1. IsFiniteSet(p)
    BY <1>0, <1>1, FS_Subset DEF Identified
  <2> QED
    BY <1>0, <1>1, <2>1 DEF Identified
<1>3. \A x \in all : x.id \in Nat /\ x.requestId \in Nat
  BY <1>0, DossierTable DEF Identified, Entry, EntryIds
<1>4. Later(p)
  BY <1>0, <1>1 DEF Later, Pvs
<1>5. Documented(p)
  <2>1. \A x \in RequestsIn(p) : x \in RequestsIn(all)
    BY <1>1 DEF RequestsIn
  <2>2. \A d \in Pvs(p) : d \in Pvs(all)
    BY <1>1 DEF Pvs
  <2>3. ASSUME NEW x \in RequestsIn(p), NEW d \in Pvs(all), d.requestId = x.id
        PROVE  d \in Pvs(p)
    <3>1. d \in all /\ x \in p /\ x \in all /\ d.requestId < d.id
      BY <1>0, <1>1, <2>3 DEF RequestsIn, Pvs, Later
    <3>2. d.id >= x.id
      BY <1>3, <2>3, <3>1
    <3> QED
      BY <1>1, <2>3, <3>1, <3>2 DEF Pvs
  <2> QED
    BY <1>0, <2>1, <2>2, <2>3 DEF Documented
<1>6. Numbered(p)
  <2> SUFFICES ASSUME NEW x \in RequestsIn(p), x.sequence = 1
               PROVE  \A y \in RequestsIn(p) : y.sequence = Position(p, y)
    BY DEF Numbered
  <2>1. x \in RequestsIn(all) /\ x \in all /\ x \in p
    BY <1>1 DEF RequestsIn
  <2>2. \A y \in RequestsIn(all) : y.sequence = Position(all, y)
    BY <1>0, <2>1 DEF Numbered
  <2> DEFINE upTo == {y \in RequestsIn(all) : y.id =< x.id}
  <2>3. Cardinality(upTo) = 1
    BY <2>1, <2>2 DEF Position
  <2>4. IsFiniteSet(upTo) /\ x \in upTo
    <3>1. upTo \subseteq all
      BY DEF RequestsIn
    <3> QED
      BY <1>0, <1>3, <2>1, <3>1, FS_Subset DEF Identified
  <2>5. upTo = {x}
    BY <2>3, <2>4, FS_Singleton
  <2>6. \A y \in RequestsIn(all) : y.id >= x.id
    BY <1>3, <2>1, <2>5 DEF RequestsIn
  <2>7. RequestsIn(p) = RequestsIn(all)
    BY <1>1, <2>1, <2>6 DEF RequestsIn
  <2> QED
    BY <2>2, <2>7 DEF Position
<1> QED
  BY <1>1, <1>2, <1>4, <1>5, <1>6 DEF Kept, Dossier, p

\* A new entry, with an id of its own, keeps a history apart and numbered.
LEMMA Appended ==
  ASSUME NEW n \in Nat, n < MaxEntries, NEW h, Identified(h, n), Numbered(h),
         NEW e \in Entry, e.id = n + 1,
         e.kind = "reinspection_request" => e.sequence = Cardinality(RequestsIn(h)) + 1
  PROVE  Identified(h \cup {e}, n + 1) /\ Numbered(h \cup {e}) /\ \A x \in h : x.id < e.id
<1> DEFINE all == h \cup {e}
<1>0. \A x \in h : x.id \in Nat /\ x.id < e.id
  BY DEF Identified, Entry, EntryIds
<1>1. Identified(all, n + 1)
  <2>1. IsFiniteSet(all)
    BY FS_AddElement DEF Identified
  <2> QED
    BY <1>0, <2>1 DEF Identified
<1>2. CASE e.kind # "reinspection_request"
  <2>1. RequestsIn(all) = RequestsIn(h)
    BY <1>2 DEF RequestsIn
  <2>2. Numbered(all)
    BY <2>1 DEF Numbered, Position
  <2> QED
    BY <1>0, <1>1, <2>2
<1>3. CASE e.kind = "reinspection_request"
  <2>1. RequestsIn(all) = RequestsIn(h) \cup {e}
    BY <1>3 DEF RequestsIn
  <2>2. IsFiniteSet(RequestsIn(h)) /\ Cardinality(RequestsIn(h)) \in Nat
    BY FewEntries DEF RequestsIn
  <2>3. e \notin RequestsIn(h) /\ \A x \in RequestsIn(h) : x.id < e.id /\ x.id \in Nat
    BY <1>0 DEF RequestsIn
  <2> HIDE DEF all
  <2>4. Position(all, e) = Cardinality(RequestsIn(h)) + 1
    <3>1. {f \in RequestsIn(all) : f.id =< e.id} = RequestsIn(h) \cup {e}
      BY <2>1, <2>3
    <3> QED
      BY <2>2, <2>3, <3>1, FS_AddElement DEF Position
  <2>5. \A x \in RequestsIn(h) : Position(all, x) = Position(h, x)
    <3> SUFFICES ASSUME NEW x \in RequestsIn(h)
                 PROVE  Position(all, x) = Position(h, x)
      OBVIOUS
    <3>1. {f \in RequestsIn(all) : f.id =< x.id} = {f \in RequestsIn(h) : f.id =< x.id}
      BY <2>1, <2>3
    <3> QED
      BY <3>1 DEF Position
  <2>6. ASSUME NEW x \in RequestsIn(all), x.sequence = 1
        PROVE  \A y \in RequestsIn(h) : y.sequence = Position(h, y)
    <3>1. CASE x \in RequestsIn(h)
      BY <2>6, <3>1 DEF Numbered
    <3>2. CASE x = e
      BY <1>3, <2>2, <2>6, <3>2, FS_EmptySet
    <3> QED
      BY <2>1, <3>1, <3>2
  <2>7. Numbered(all)
    BY <1>3, <2>1, <2>4, <2>5, <2>6 DEF Numbered
  <2> QED
    BY <1>0, <1>1, <2>7 DEF all
<1> QED
  BY <1>2, <1>3

\* A decision changes the status of one request.
LEMMA DecisionSound ==
  ASSUME NEW n \in Nat, NEW h, Kept(h, n), NEW e \in PendingIn(h),
         NEW status \in {"approved", "rejected"},
         NEW x, x = [e EXCEPT !.status = status], NEW g, g = Decided(h, e, status)
  PROVE  /\ x \in Entry /\ x.id = e.id /\ x.status = status
         /\ Identified(g, n) /\ Numbered(g) /\ Later(g) /\ Cardinality(g) =< KEEP
         /\ Pvs(g) = Pvs(h) /\ ~\E d \in Pvs(h) : d.requestId = e.id
         /\ RequestsIn(g) = (RequestsIn(h) \ {e}) \cup {x}
         /\ \A y \in RequestsIn(h) : y.id = e.id => y = e
<1>0. /\ e \in h /\ e \in RequestsIn(h) /\ e.kind = "reinspection_request" /\ e.status = "pending"
      /\ Identified(h, n) /\ Numbered(h) /\ Later(h) /\ Documented(h) /\ Cardinality(h) =< KEEP
      /\ e \in Entry /\ e.id \in Nat
  BY DEF PendingIn, RequestsIn, Kept, Dossier, Identified, Entry, EntryIds
<1>1. /\ x \in Entry /\ x.id = e.id /\ x.status = status /\ x.kind = e.kind
      /\ x.sequence = e.sequence /\ x # e
  BY <1>0 DEF Entry
<1>2. g = (h \ {e}) \cup {x}
  BY DEF Decided
<1>3. x \notin h
  BY <1>0, <1>1 DEF Identified
<1>4. IsFiniteSet(h \ {e}) /\ Cardinality(h \ {e}) = Cardinality(h) - 1 /\ Cardinality(h) \in Nat
  BY <1>0, FS_RemoveElement, FS_CardinalityType DEF Identified
<1>5. IsFiniteSet(g) /\ Cardinality(g) = Cardinality(h)
  <2> DEFINE rest == h \ {e}
  <2>1. /\ IsFiniteSet(rest) /\ Cardinality(rest) = Cardinality(h) - 1 /\ x \notin rest
        /\ g = rest \cup {x}
    BY <1>2, <1>3, <1>4
  <2> HIDE DEF rest
  <2>2. /\ IsFiniteSet(rest \cup {x})
        /\ Cardinality(rest \cup {x}) = Cardinality(rest) + 1
    BY <2>1, FS_AddElement
  <2> QED
    BY <1>4, <2>1, <2>2
<1>6. Identified(g, n)
  <2>1. h \subseteq Entry /\ (\A y \in h : y.id =< n) /\ \A y, z \in h : y.id = z.id => y = z
    BY <1>0 DEF Identified
  <2>2. \A y \in g : y \in h \ {e} \/ y = x
    BY <1>2
  <2>3. g \subseteq Entry /\ \A y \in g : y.id =< n
    BY <1>0, <1>1, <2>1, <2>2
  <2>4. ASSUME NEW y \in g, NEW z \in g, y.id = z.id
        PROVE  y = z
    <3>1. \A u \in h \ {e} : u.id # x.id
      BY <1>0, <1>1, <2>1
    <3> QED
      BY <2>1, <2>2, <2>4, <3>1
  <2> QED
    BY <1>5, <2>3, <2>4 DEF Identified
<1>7. RequestsIn(g) = (RequestsIn(h) \ {e}) \cup {x} /\ Pvs(g) = Pvs(h)
  <2>1. x.kind = "reinspection_request" /\ e.kind = "reinspection_request"
    BY <1>0, <1>1
  <2>2. RequestsIn(g) = (RequestsIn(h) \ {e}) \cup {x}
    BY <1>2, <2>1 DEF RequestsIn
  <2>3. Pvs(g) = Pvs(h)
    BY <1>2, <2>1 DEF Pvs
  <2> QED
    BY <2>2, <2>3
<1>8. Later(g)
  BY <1>0, <1>7 DEF Later
<1>9. \A y \in RequestsIn(h) : y.id = e.id => y = e
  BY <1>0 DEF Identified, RequestsIn
\* Places stay the same, as x stands where e stood.
<1>10. ASSUME NEW i \in Nat
       PROVE  Cardinality({y \in RequestsIn(g) : y.id =< i}) =
                Cardinality({y \in RequestsIn(h) : y.id =< i})
  <2> DEFINE old == {y \in RequestsIn(h) : y.id =< i}
             new == {y \in RequestsIn(g) : y.id =< i}
  <2>1. IsFiniteSet(old) /\ Cardinality(old) \in Nat
    <3>1. old \subseteq h
      BY DEF RequestsIn
    <3> QED
      BY <1>0, <3>1, FewEntries
  <2>2. CASE e.id =< i
    <3>1. new = (old \ {e}) \cup {x} /\ e \in old /\ x \notin old \ {e}
      BY <1>0, <1>1, <1>3, <1>7, <2>2 DEF RequestsIn
    <3> HIDE DEF old, new
    <3>2. IsFiniteSet(old \ {e}) /\ Cardinality(old \ {e}) = Cardinality(old) - 1
      BY <2>1, <3>1, FS_RemoveElement
    <3>3. Cardinality(new) = Cardinality(old \ {e}) + 1
      BY <3>1, <3>2, FS_AddElement
    <3> QED
      BY <2>1, <3>2, <3>3 DEF old, new
  <2>3. CASE ~(e.id =< i)
    <3>1. new = old
      BY <1>1, <1>7, <2>3
    <3> QED
      BY <3>1
  <2> QED
    BY <2>2, <2>3
<1>11. Numbered(g)
  <2> SUFFICES ASSUME NEW y \in RequestsIn(g), y.sequence = 1, NEW z \in RequestsIn(g)
               PROVE  z.sequence = Position(g, z)
    BY DEF Numbered
  <2>1. \E v \in RequestsIn(h) : v.sequence = 1
    BY <1>0, <1>1, <1>7
  <2>2. PICK w \in RequestsIn(h) : w.id = z.id /\ w.sequence = z.sequence
    BY <1>0, <1>1, <1>7
  <2>3. z.id \in Nat /\ w.sequence = Position(h, w)
    BY <1>0, <2>1, <2>2 DEF Numbered, RequestsIn, Identified, Entry, EntryIds
  <2> QED
    BY <1>10, <2>2, <2>3 DEF Position
<1>12. ~\E d \in Pvs(h) : d.requestId = e.id
  BY <1>0 DEF Documented
<1> QED
  BY <1>0, <1>1, <1>5, <1>6, <1>7, <1>8, <1>9, <1>11, <1>12

LEMMA KeptOn ==
  ASSUME NEW n \in Nat, NEW h, Kept(h, n)
  PROVE  Kept(h, n + 1)
<1>1. \A e \in h : e.id \in Nat
  BY DEF Kept, Dossier, Identified, Entry, EntryIds
<1>2. Identified(h, n + 1)
  BY <1>1 DEF Kept, Dossier, Identified
<1> QED
  BY <1>2 DEF Kept, Dossier

\* A note, or a request.
LEMMA AppendKept ==
  ASSUME NEW n \in Nat, n < MaxEntries, NEW h, Kept(h, n), NEW e \in Entry, e.id = n + 1,
         \/ e.kind = "inspection_note"
         \/ /\ e.kind = "reinspection_request" /\ e.status = "pending"
            /\ e.sequence = Cardinality(RequestsIn(h)) + 1
  PROVE  Kept(Prepended(h, e), n + 1) /\ e \in Prepended(h, e)
<1> DEFINE all == h \cup {e}
<1>0. Identified(h, n) /\ Numbered(h) /\ Later(h) /\ Documented(h)
  BY DEF Kept, Dossier
<1>1. Identified(all, n + 1) /\ Numbered(all) /\ \A x \in h : x.id < e.id
  BY <1>0, Appended
<1>2. Pvs(all) = Pvs(h) /\ \A d \in Pvs(h) : d.requestId # e.id
  <2>1. Pvs(all) = Pvs(h)
    BY DEF Pvs
  <2>2. ASSUME NEW d \in Pvs(h)
        PROVE  d.requestId # e.id
    <3>1. d.requestId \in Nat /\ d.id \in Nat /\ d.id < e.id /\ d.requestId < d.id
      BY <1>0, <1>1, <2>2, DossierTable DEF Pvs, Identified, Later, Entry, EntryIds
    <3> QED
      BY <3>1
  <2> QED
    BY <2>1, <2>2
<1>3. RequestsIn(all) = RequestsIn(h) \/
        (RequestsIn(all) = RequestsIn(h) \cup {e} /\ e.status = "pending")
  BY DEF RequestsIn
<1> HIDE DEF all
<1>4. Later(all)
  BY <1>0, <1>2 DEF Later
<1>5. Documented(all)
  BY <1>0, <1>2, <1>3 DEF Documented
<1>6. Dossier(all, n + 1)
  BY <1>1, <1>4, <1>5 DEF Dossier
<1> QED
  BY <1>1, <1>6, Cut, CutSound DEF all

\* The document of an approval goes with the decision.
LEMMA ApproveKept ==
  ASSUME NEW n \in Nat, n < MaxEntries, NEW h, Kept(h, n), NEW e \in PendingIn(h),
         NEW d \in Entry, d.id = n + 1, d.kind = "pvs", d.requestId = e.id
  PROVE  Kept(Prepended(Decided(h, e, "approved"), d), n + 1)
<1> DEFINE x == [e EXCEPT !.status = "approved"]
           g == Decided(h, e, "approved")
           all == g \cup {d}
<1>1. /\ x \in Entry /\ x.id = e.id /\ x.status = "approved"
      /\ Identified(g, n) /\ Numbered(g) /\ Later(g)
      /\ Pvs(g) = Pvs(h) /\ ~\E f \in Pvs(h) : f.requestId = e.id
      /\ RequestsIn(g) = (RequestsIn(h) \ {e}) \cup {x}
      /\ \A y \in RequestsIn(h) : y.id = e.id => y = e
  BY DecisionSound
<1> HIDE DEF x, g
<1>2. Identified(all, n + 1) /\ Numbered(all) /\ \A y \in g : y.id < d.id
  BY <1>1, Appended
<1>3. Pvs(all) = Pvs(h) \cup {d} /\ RequestsIn(all) = RequestsIn(g)
  BY <1>1 DEF Pvs, RequestsIn
<1>4. e.id =< n /\ e.id \in Nat
  BY DEF PendingIn, RequestsIn, Kept, Dossier, Identified, Entry, EntryIds
<1> HIDE DEF all
<1>5. Later(all)
  <2>1. d.requestId < d.id
    BY <1>4
  <2> QED
    BY <1>1, <1>3, <2>1 DEF Later
<1>6. Documented(all)
  <2>1. Documented(h)
    BY DEF Kept, Dossier
  <2>2. ASSUME NEW y \in RequestsIn(h) \ {e}
        PROVE  y.status = "approved" <=> \E f \in Pvs(all) : f.requestId = y.id
    BY SMTT(30), <1>1, <1>3, <2>1, <2>2 DEF Documented
  <2>3. x.status = "approved" /\ \E f \in Pvs(all) : f.requestId = x.id
    BY <1>1, <1>3
  <2>4. RequestsIn(all) = (RequestsIn(h) \ {e}) \cup {x}
    BY <1>1, <1>3
  <2>5. ASSUME NEW y \in RequestsIn(all)
        PROVE  y.status = "approved" <=> \E f \in Pvs(all) : f.requestId = y.id
    <3>1. CASE y \in RequestsIn(h) \ {e}
      BY <2>2, <3>1
    <3>2. CASE y = x
      BY <2>3, <3>2
    <3> QED
      BY <2>4, <3>1, <3>2
  <2> QED
    BY <2>5 DEF Documented
<1>7. Dossier(all, n + 1)
  BY <1>2, <1>5, <1>6 DEF Dossier
<1>8. Dossier(g \cup {d}, n + 1)
  BY <1>7 DEF all
<1>9. Kept(Prepended(g, d), n + 1)
  BY <1>8, CutSound
<1> QED
  BY <1>9 DEF g

LEMMA RejectKept ==
  ASSUME NEW n \in Nat, NEW h, Kept(h, n), NEW e \in PendingIn(h)
  PROVE  Kept(Decided(h, e, "rejected"), n)
<1> DEFINE x == [e EXCEPT !.status = "rejected"]
           g == Decided(h, e, "rejected")
<1>1. /\ x \in Entry /\ x.id = e.id /\ x.status = "rejected"
      /\ Identified(g, n) /\ Numbered(g) /\ Later(g) /\ Cardinality(g) =< KEEP
      /\ Pvs(g) = Pvs(h) /\ ~\E f \in Pvs(h) : f.requestId = e.id
      /\ RequestsIn(g) = (RequestsIn(h) \ {e}) \cup {x}
  BY DecisionSound
<1> HIDE DEF x, g
<1>2. Documented(g)
  BY <1>1 DEF Kept, Dossier, Documented
<1> QED
  BY <1>1, <1>2 DEF Kept, Dossier, g

LEMMA DossierStart == DossierInit => DossierInv
<1> SUFFICES ASSUME DossierInit
             PROVE  DossierInv
  OBVIOUS
<1>1. Kept({}, 0)
  <2>1. Identified({}, 0) /\ Cardinality({}) =< KEEP
    BY FS_EmptySet, DossierTable DEF Identified
  <2>2. Numbered({}) /\ Later({}) /\ Documented({})
    BY DEF Numbered, Later, Documented, RequestsIn, Pvs
  <2> QED
    BY <2>1, <2>2 DEF Kept, Dossier
<1> QED
  BY <1>1, DossierTable DEF DossierInit, DossierInv, WaitsForPending

LEMMA DossierStep == DossierInv /\ [DossierNext]_dossierVars => DossierInv'
<1> SUFFICES ASSUME DossierInv, [DossierNext]_dossierVars
             PROVE  DossierInv'
  OBVIOUS
<1>0. /\ pipeline \in Pipeline /\ clock \in 0..MaxEntries /\ clock \in Nat /\ grounded \in BOOLEAN
      /\ Kept(history, clock) /\ DOMAIN call = Calls /\ WaitsForPending
  BY DossierTable DEF DossierInv
<1>1. \A c \in Calls : Writing(c) => call[c].pipeline \in Pipeline /\ Kept(call[c].history, clock)
  BY DEF DossierInv, Writing
\* The update of a request, whose history is the one it made or the one that is there.
<1>2. ASSUME NEW c \in Calls, Writing(c), call' = [call EXCEPT ![c] = IdleCall],
             clock' = clock \/ clock' = clock + 1, clock' \in 0..MaxEntries,
             Kept(history', clock'), pipeline' \in Pipeline, grounded' \in BOOLEAN,
             WaitsForPending'
      PROVE  DossierInv'
  <2>1. \A d \in Calls : call'[d] = IdleCall \/ (call'[d] = call[d] /\ Writing(d))
    BY <1>0, <1>2 DEF Writing
  <2>2. \A d \in Calls : Writing(d) => Kept(call[d].history, clock')
    BY <1>0, <1>1, <1>2, KeptOn
  <2>3. \A d \in Calls : \/ call'[d] = IdleCall
                         \/ call'[d].pipeline \in Pipeline /\ Kept(call'[d].history, clock')
    BY <1>1, <2>1, <2>2
  <2> QED
    BY <1>0, <1>2, <2>3 DEF DossierInv
<1>3. ASSUME NEW c \in Calls, ReadCase(c)
      PROVE  DossierInv'
  <2>1. /\ DOMAIN call' = Calls
        /\ \A d \in Calls : \/ call'[d] = call[d]
                            \/ call'[d].pipeline = pipeline /\ call'[d].history = history
    BY <1>0, <1>3 DEF ReadCase
  <2> QED
    BY <1>0, <1>3, <2>1 DEF DossierInv, ReadCase, WaitsForPending
<1>4. ASSUME NEW c \in Calls, DropCall(c)
      PROVE  DossierInv'
  BY <1>0, <1>2, <1>4 DEF DropCall, WaitsForPending
<1>5. ASSUME NEW c \in Calls, SendQuote(c)
      PROVE  DossierInv'
  <2>1. pipeline' \in {"payment_accepted", "quote_ready"} /\ history' = history /\ clock' = clock
    BY <1>0, <1>5 DEF SendQuote, Write
  <2> QED
    BY <1>0, <1>2, <1>5, <2>1, DossierTable DEF SendQuote, Write, WaitsForPending
<1>6. ASSUME NEW c \in Calls, SendAvizare(c)
      PROVE  DossierInv'
  <2>1. /\ pipeline' = call[c].pipeline \/ pipeline' = "notified"
        /\ history' = history /\ clock' = clock
    BY <1>0, <1>6 DEF SendAvizare, Write
  <2>2. WaitsForPending'
    BY <1>0, <1>6, <2>1 DEF SendAvizare, Write, WaitsForPending, Fresh
  <2> QED
    BY <1>0, <1>1, <1>2, <1>6, <2>1, <2>2, DossierTable DEF SendAvizare, Write
<1>7. ASSUME NEW c \in Calls, RequestReinspection(c)
      PROVE  DossierInv'
  <2> DEFINE h == call[c].history
             count == Cardinality(RequestsIn(h))
             request == NewEntry("reinspection_request", count + 1, "pending", 0)
  <2>1. /\ Writing(c) /\ clock < MaxEntries /\ clock' = clock + 1 /\ grounded' = TRUE
        /\ call' = [call EXCEPT ![c] = IdleCall] /\ history' = Prepended(h, request)
        /\ pipeline' = call[c].pipeline \/ pipeline' = "reinspection_requested"
    BY <1>7 DEF RequestReinspection
  <2>2. Kept(h, clock) /\ call[c].pipeline \in Pipeline
    BY <1>1, <2>1
  <2>3. count \in 0..clock
    BY <1>0, <2>2, FewEntries DEF Kept, Dossier, RequestsIn
  <2>4. /\ request \in Entry /\ request.id = clock + 1 /\ request.kind = "reinspection_request"
        /\ request.status = "pending" /\ request.sequence = count + 1
    BY <1>0, <2>1, <2>3, DossierTable DEF NewEntry, Entry, EntryIds
  <2> HIDE DEF request
  <2>5. Kept(history', clock') /\ request \in history'
    BY <1>0, <2>1, <2>2, <2>4, AppendKept
  <2>6. WaitsForPending'
    BY <2>4, <2>5 DEF WaitsForPending, PendingIn, RequestsIn
  <2>7. pipeline' \in Pipeline /\ clock' \in 0..MaxEntries
    BY <1>0, <2>1, <2>2, DossierTable
  <2> HIDE DEF h
  <2> QED
    BY <1>2, <2>1, <2>5, <2>6, <2>7
<1>8. ASSUME NEW c \in Calls, Approve(c)
      PROVE  DossierInv'
  <2> DEFINE h == call[c].history
  <2>1. PICK e \in PendingIn(h) :
           Write(c, "inspection_note",
                 Prepended(Decided(h, e, "approved"),
                           NewEntry("pvs", Cardinality(Pvs(h)) + 1, "none", e.id)), 1)
    BY <1>8 DEF Approve, Decidable
  <2> DEFINE count == Cardinality(Pvs(h))
             pvs == NewEntry("pvs", count + 1, "none", e.id)
  <2>2. /\ Writing(c) /\ clock + 1 =< MaxEntries /\ clock' = clock + 1
        /\ call' = [call EXCEPT ![c] = IdleCall] /\ pipeline' = "inspection_note"
        /\ history' = Prepended(Decided(h, e, "approved"), pvs) /\ grounded' = TRUE
    BY <2>1 DEF Write
  <2>3. Kept(h, clock)
    BY <1>1, <2>2
  <2>4. count \in 0..clock /\ e.id \in 0..MaxEntries
    <3>1. Identified(h, clock) /\ e \in h
      BY <2>3 DEF Kept, Dossier, PendingIn, RequestsIn
    <3>2. e.id \in 0..MaxEntries
      BY <3>1, DossierTable DEF Identified, Entry, EntryIds
    <3> QED
      BY <1>0, <3>1, <3>2, FewEntries DEF Pvs
  <2>5. pvs \in Entry /\ pvs.id = clock + 1 /\ pvs.kind = "pvs" /\ pvs.requestId = e.id
    BY <1>0, <2>2, <2>4, DossierTable DEF NewEntry, Entry, EntryIds
  <2> HIDE DEF pvs
  <2>6. Kept(history', clock')
    BY <1>0, <2>2, <2>3, <2>5, DossierTable, ApproveKept
  <2>7. pipeline' \in Pipeline /\ clock' \in 0..MaxEntries /\ WaitsForPending'
    BY <1>0, <2>2, DossierTable DEF WaitsForPending
  <2> HIDE DEF h
  <2> QED
    BY <1>2, <2>2, <2>6, <2>7
<1>9. ASSUME NEW c \in Calls, Reject(c)
      PROVE  DossierInv'
  <2> DEFINE h == call[c].history
  <2>1. PICK e \in PendingIn(h) :
           LET g == Decided(h, e, "rejected")
               p == call[c].pipeline
           IN  Write(c, IF p = "reinspection_requested" /\ PendingIn(g) = {}
                        THEN "inspection_note" ELSE p, g, 0)
    BY <1>9 DEF Reject, Decidable
  <2> DEFINE g == Decided(h, e, "rejected")
  <2>2. /\ Writing(c) /\ clock' = clock /\ history' = g
        /\ call' = [call EXCEPT ![c] = IdleCall] /\ grounded' \in BOOLEAN
        /\ pipeline' = IF call[c].pipeline = "reinspection_requested" /\ PendingIn(g) = {}
                       THEN "inspection_note" ELSE call[c].pipeline
    BY <1>0, <2>1 DEF Write
  <2>3. Kept(history', clock') /\ call[c].pipeline \in Pipeline
    BY <1>0, <1>1, <2>2, RejectKept
  <2> HIDE DEF g
  <2>4. WaitsForPending'
    BY <2>2 DEF WaitsForPending
  <2> QED
    BY <1>0, <1>2, <2>2, <2>3, <2>4, DossierTable
<1>10. ASSUME NEW c \in Calls, NEW step \in Steps, NEW given \in SUBSET Given,
              PatchDamageClaim(c, step, given)
       PROVE  DossierInv'
  <2> DEFINE s == call[c]
             p == PatchedPipeline(s, step, given)
             noted == "note" \in given
             note == NewEntry("inspection_note", 0, "none", 0)
  <2>1. /\ Writing(c) /\ call' = [call EXCEPT ![c] = IdleCall]
        /\ pipeline' = IF p = "keep" THEN pipeline ELSE p
        /\ history' = IF noted THEN Prepended(s.history, note) ELSE history
        /\ noted => clock < MaxEntries
        /\ clock' = IF noted THEN clock + 1 ELSE clock
        /\ grounded' = (pipeline' # "reinspection_requested"
                           \/ (grounded /\ Fresh(c) /\ "step" \notin given))
    BY <1>10 DEF PatchDamageClaim
  <2>2. s.pipeline \in Pipeline /\ Kept(s.history, clock) /\ step \in Pipeline
    BY <1>1, <2>1, DossierTable
  <2>3. p \in Pipeline \cup {"keep"}
    BY <2>2, DossierTable DEF PatchedPipeline
  <2>4. "step" \notin given =>
          p \in {"keep", "quote_ready", "payment_accepted", "inspection_note"}
    BY DEF PatchedPipeline
  <2>5. "step" \notin given /\ noted /\ s.pipeline = "reinspection_requested" => p # "keep"
    BY DEF PatchedPipeline
  <2> HIDE DEF p
  <2>6. Kept(history', clock')
    <3>1. CASE ~noted
      BY <1>0, <2>1, <3>1
    <3>2. CASE noted
      <4>1. note \in Entry /\ note.id = clock + 1 /\ note.kind = "inspection_note"
        BY <1>0, <2>1, <3>2, DossierTable DEF NewEntry, Entry, EntryIds
      <4> HIDE DEF note
      <4> QED
        BY <1>0, <2>1, <2>2, <3>2, <4>1, AppendKept
    <3> QED
      BY <3>1, <3>2
  <2>7. WaitsForPending'
    <3> SUFFICES ASSUME grounded', pipeline' = "reinspection_requested"
                 PROVE  PendingIn(history') # {}
      BY DEF WaitsForPending
    <3>1. grounded /\ Fresh(c) /\ "step" \notin given
      BY <2>1
    <3>2. p = "keep" /\ pipeline = "reinspection_requested" /\ s.pipeline = pipeline
      BY <2>1, <2>4, <3>1 DEF Fresh
    <3>3. history' = history
      BY <2>1, <2>5, <3>1, <3>2
    <3> QED
      BY <1>0, <3>1, <3>2, <3>3 DEF WaitsForPending
  <2>8. grounded' \in BOOLEAN /\ clock' \in 0..MaxEntries
    BY <1>0, <2>1, DossierTable
  <2> QED
    BY <1>0, <1>2, <2>1, <2>3, <2>6, <2>7, <2>8
<1>11. CASE UNCHANGED dossierVars
  BY <1>11 DEF dossierVars, DossierInv, WaitsForPending, Kept, Dossier
<1> QED
  BY <1>3, <1>4, <1>5, <1>6, <1>7, <1>8, <1>9, <1>10, <1>11 DEF DossierNext

LEMMA DossierInvIsInvariant == DossierSpec => []DossierInv
BY DossierStart, DossierStep, PTL DEF DossierSpec

\* Types: an entry is well formed, and a history has no more than KEEP of them.
THEOREM DossierTypeCorrect == DossierSpec => []DossierTypeOK
<1>1. DossierInv => DossierTypeOK
  BY DEF DossierInv, DossierTypeOK, Kept, Dossier, Identified
<1> QED
  BY <1>1, DossierInvIsInvariant, PTL

\* Whatever requests overlap and overwrite each other's histories, an approved request
\* keeps its one document, the requests are numbered in their order until the first is cut
\* off, and the pipeline waits for a reinspection only while one is pending.
THEOREM DossierKeepsOrder == DossierSpec => []DossierAgrees
<1>1. DossierInv => ApprovedHasDocument
  <2> SUFFICES ASSUME DossierInv, NEW e \in RequestsIn(history)
               PROVE  Cardinality({d \in Pvs(history) : d.requestId = e.id})
                        = IF e.status = "approved" THEN 1 ELSE 0
    BY DEF ApprovedHasDocument
  <2> DEFINE documents == {d \in Pvs(history) : d.requestId = e.id}
  <2>1. Later(history) /\ Documented(history)
    BY DEF DossierInv, Kept, Dossier
  <2>2. ASSUME e.status = "approved"
        PROVE  Cardinality(documents) = 1
    <3>1. PICK d \in Pvs(history) : d.requestId = e.id
      BY <2>1, <2>2 DEF Documented
    <3>2. documents = {d}
      BY <2>1, <3>1 DEF Later
    <3> QED
      BY <3>2, FS_Singleton
  <2>3. ASSUME e.status # "approved"
        PROVE  Cardinality(documents) = 0
    <3>1. documents = {}
      BY <2>1, <2>3 DEF Documented
    <3> QED
      BY <3>1, FS_EmptySet
  <2> QED
    BY <2>2, <2>3
<1>2. DossierInv => RequestsNumbered
  BY DEF DossierInv, Kept, Dossier, Numbered, Position, RequestsNumbered
<1>3. DossierInv => DossierAgrees
  BY <1>1, <1>2 DEF DossierInv, DossierAgrees
<1> QED
  BY <1>3, DossierInvIsInvariant, PTL
-----------------------------------------------------------------------------
(***************************************************************************)
(* VehicleOdometer: what the timeline computes.  TrustedAt is defined by   *)
(* recursion on the readings before the last; some function satisfies the  *)
(* definition, and every one that does yields the highest reading.         *)
(***************************************************************************)
Tops(S, km) == (\E r \in S : r.km = km) /\ \A r \in S : r.km =< km

Last(S) == CHOOSE r \in S : \A q \in S : ~Sooner(r, q)
Before(S) == {q \in S : Sooner(q, Last(S))}
Same(S) == \A r, q \in S : Equal(r, q)
Chain(f, S) == IF Same(S) THEN Last(S).km
               ELSE IF Last(S).km >= f[Before(S)] THEN Last(S).km ELSE f[Before(S)]

\* A nonempty set of numbers up to a bound has a lowest and a highest.
LEMMA Extremes ==
  ASSUME NEW n \in Nat, NEW S \in SUBSET (0..n), S # {}
  PROVE  /\ \E l \in S : \A i \in S : l =< i
         /\ \E h \in S : \A i \in S : i =< h
<1> DEFINE Up == {i + 1 : i \in S}
           Down == {n + 1 - i : i \in S}
<1>0. n + 1 \in Nat /\ \A i \in S : i \in Int /\ 0 =< i /\ i =< n
  OBVIOUS
<1>1. Up \in SUBSET (1..(n + 1)) /\ Down \in SUBSET (1..(n + 1)) /\ Up # {} /\ Down # {}
  <2>1. \A i \in S : i + 1 \in 1..(n + 1) /\ n + 1 - i \in 1..(n + 1)
    BY <1>0
  <2> QED
    BY <2>1
<1>2. PICK l \in S : \A i \in S : l + 1 =< i + 1
  <2>1. \E u \in Up : \A v \in Up : u =< v
    BY <1>0, <1>1, NewestExists
  <2> QED
    BY <2>1
<1>3. PICK h \in S : \A i \in S : n + 1 - h =< n + 1 - i
  <2>1. \E u \in Down : \A v \in Down : u =< v
    BY <1>0, <1>1, NewestExists
  <2> QED
    BY <2>1
<1> QED
  BY <1>2, <1>3

\* Readings have a first and a last.
LEMMA FirstAndLast ==
  ASSUME NEW S \in SUBSET Reading, S # {}
  PROVE  /\ \E r \in S : \A q \in S : ~Sooner(q, r)
         /\ \E r \in S : \A q \in S : ~Sooner(r, q)
<1> USE OdometerAssumption
<1>0. \A r \in S : r.at \in 0..MaxTime /\ r.km \in 0..MaxKm
  BY DEF Reading, Times, Kilometres
<1>1. MaxTime \in Nat /\ MaxKm \in Nat
  OBVIOUS
<1> DEFINE Moments == {r.at : r \in S}
           Kms(at) == {r.km : r \in {q \in S : q.at = at}}
<1>2. Moments \in SUBSET (0..MaxTime) /\ Moments # {}
  BY <1>0
<1>3. \A at \in Moments : Kms(at) \in SUBSET (0..MaxKm) /\ Kms(at) # {}
  BY <1>0
<1>4. PICK first \in Moments : \A at \in Moments : first =< at
  BY <1>1, <1>2, Extremes
<1>5. PICK last \in Moments : \A at \in Moments : at =< last
  BY <1>1, <1>2, Extremes
<1>6. PICK low \in Kms(first) : \A km \in Kms(first) : low =< km
  BY <1>1, <1>3, Extremes
<1>7. PICK high \in Kms(last) : \A km \in Kms(last) : km =< high
  BY <1>1, <1>3, Extremes
<1>8. PICK r \in S : r.at = first /\ r.km = low
  BY <1>6
<1>9. PICK s \in S : s.at = last /\ s.km = high
  BY <1>7
<1>10. \A q \in S : first =< q.at /\ (q.at = first => low =< q.km)
  BY <1>4, <1>6
<1>11. \A q \in S : q.at =< last /\ (q.at = last => q.km =< high)
  BY <1>5, <1>7
<1>12. \A q \in S : ~Sooner(q, r)
  BY <1>0, <1>8, <1>10 DEF Sooner
<1>13. \A q \in S : ~Sooner(s, q)
  BY <1>0, <1>9, <1>11 DEF Sooner
<1> QED
  BY <1>12, <1>13

\* What lies before the last reading, and what is like it.
LEMMA LastOf ==
  ASSUME NEW S \in SUBSET Reading, S # {}
  PROVE  /\ Last(S) \in S /\ Last(S) \in Reading
         /\ \A q \in S : Equal(q, Last(S)) \/ q \in Before(S)
         /\ Before(S) \in SUBSET Reading
         /\ Before(S) # {} => Sooner(Last(Before(S)), Last(S))
         /\ ~Same(S) => Before(S) # {}
         /\ Same(S) => \A q \in S : q.km = Last(S).km
<1>1. Last(S) \in S /\ \A q \in S : ~Sooner(Last(S), q)
  BY FirstAndLast DEF Last
<1>2. \A q \in S : q.at \in Int /\ q.km \in Int
  BY DEF Reading, Times, Kilometres
<1>3. \A q \in S : Equal(q, Last(S)) \/ q \in Before(S)
  BY <1>1, <1>2 DEF Sooner, Equal, Before
<1>4. Before(S) \in SUBSET Reading
  BY DEF Before
<1>5. Before(S) # {} => Last(Before(S)) \in Before(S)
  BY <1>4, FirstAndLast DEF Last
<1>6. ASSUME Before(S) = {} PROVE Same(S)
  BY <1>3, <1>6 DEF Same, Equal
<1> QED
  BY <1>1, <1>3, <1>4, <1>5, <1>6 DEF Before, Same, Equal

\* If the chain before the last reading ends with the highest, so does the chain.
LEMMA ChainTops ==
  ASSUME NEW S \in SUBSET Reading, S # {}, NEW f,
         Before(S) # {} => Tops(Before(S), f[Before(S)])
  PROVE  Tops(S, Chain(f, S))
<1>0. \A r \in S : r.km \in Int
  BY DEF Reading, Kilometres
<1>1. CASE Same(S)
  BY <1>0, <1>1, LastOf DEF Tops, Chain
<1>2. CASE ~Same(S)
  <2>1. Before(S) # {} /\ Before(S) \subseteq S
    BY <1>2, LastOf DEF Before
  <2>2. PICK r \in Before(S) : r.km = f[Before(S)] /\ \A q \in Before(S) : q.km =< f[Before(S)]
    BY <2>1 DEF Tops
  <2>3. /\ Last(S) \in S
        /\ \A q \in S : q.km = Last(S).km \/ q \in Before(S)
    BY LastOf DEF Equal
  <2> DEFINE top == Chain(f, S)
  <2>4. top = IF Last(S).km >= f[Before(S)] THEN Last(S).km ELSE f[Before(S)]
    BY <1>2 DEF Chain
  <2> HIDE DEF top
  <2>5. \E q \in S : q.km = top
    BY <2>1, <2>2, <2>3, <2>4
  <2>6. \A q \in S : q.km =< top
    BY <1>0, <2>1, <2>2, <2>3, <2>4
  <2> QED
    BY <2>5, <2>6 DEF Tops, top
<1> QED
  BY <1>1, <1>2

LEMMA TopsOnce ==
  ASSUME NEW S \in SUBSET Reading, NEW k, NEW j, Tops(S, k), Tops(S, j)
  PROVE  k = j /\ k \in Kilometres
BY DEF Tops, Reading, Kilometres

\* TrustedAt satisfies its own definition.
LEMMA TrustedAtDefined ==
  TrustedAt = [S \in SUBSET Reading |-> Chain(TrustedAt, S)]
<1> DEFINE Highest(S) == CHOOSE k \in Kilometres : Tops(S, k)
           H == [S \in SUBSET Reading |-> IF Same(S) THEN Last(S).km ELSE Highest(S)]
<1>1. ASSUME NEW S \in SUBSET Reading, S # {}
      PROVE  \E k \in Kilometres : Tops(S, k)
  <2> DEFINE Kms == {r.km : r \in S}
  <2>1. Kms \in SUBSET (0..MaxKm) /\ Kms # {} /\ MaxKm \in Nat
    BY <1>1, OdometerAssumption DEF Reading, Kilometres
  <2>2. PICK h \in Kms : \A i \in Kms : i =< h
    BY <2>1, Extremes
  <2> QED
    BY <2>1, <2>2 DEF Tops, Kilometres
<1>2. ASSUME NEW S \in SUBSET Reading, S # {}
      PROVE  Tops(S, H[S])
  <2>1. CASE Same(S)
    <3>1. \A q \in S : q.km = Last(S).km /\ q.km \in Int
      BY <1>2, <2>1, LastOf DEF Reading, Kilometres
    <3>2. Last(S) \in S
      BY <1>2, LastOf
    <3>3. Tops(S, Last(S).km)
      BY <3>1, <3>2 DEF Tops
    <3> QED
      BY <2>1, <3>3
  <2>2. CASE ~Same(S)
    <3>1. Tops(S, Highest(S))
      BY <1>1, <1>2
    <3> QED
      BY <2>2, <3>1
  <2> QED
    BY <2>1, <2>2
<1>3. ASSUME NEW S \in SUBSET Reading
      PROVE  H[S] = Chain(H, S)
  <2>1. CASE Same(S)
    BY <2>1 DEF Chain
  <2>2. CASE ~Same(S)
    <3>1. S # {} /\ Before(S) \in SUBSET Reading
      BY <2>2 DEF Same, Before
    <3> HIDE DEF H
    <3>2. Tops(S, Chain(H, S))
      BY <1>2, <3>1, ChainTops
    <3> QED
      BY <1>2, <3>1, <3>2, TopsOnce
  <2> QED
    BY <2>1, <2>2
<1>4. H = [S \in SUBSET Reading |-> Chain(H, S)]
  BY <1>3
<1> HIDE DEF H
<1> QED
  BY <1>4 DEF TrustedAt, Chain, Last, Before, Same

\* The timeline's value is the highest of the readings: what is below the chain so far
\* is passed over and cannot be higher.
LEMMA TrustedIsHighest ==
  ASSUME NEW S \in SUBSET Reading, S # {}, NEW stored
  PROVE  Tops(S, Trusted(S, stored)) /\ Trusted(S, stored) \in Kilometres
<1> DEFINE Wrong == {T \in SUBSET Reading : T # {} /\ ~Tops(T, TrustedAt[T])}
           Heads == {Last(T) : T \in Wrong}
<1>1. ASSUME Wrong # {} PROVE FALSE
  <2>1. Heads \in SUBSET Reading /\ Heads # {}
    BY <1>1, LastOf
  <2>2. PICK T \in Wrong : \A U \in Wrong : ~Sooner(Last(U), Last(T))
    BY <2>1, FirstAndLast
  <2>3. Before(T) # {} => Tops(Before(T), TrustedAt[Before(T)])
    BY <2>2, LastOf
  <2>4. Tops(T, Chain(TrustedAt, T))
    BY <2>2, <2>3, ChainTops
  <2> QED
    BY <2>2, <2>4, TrustedAtDefined
<1>2. Tops(S, TrustedAt[S])
  BY <1>1
<1> QED
  BY <1>2, TopsOnce DEF Trusted

\* Another reading that is not below the highest becomes the highest.
LEMMA TopsGrows ==
  ASSUME NEW S \in SUBSET Reading, NEW e \in Reading, NEW k, S # {} => Tops(S, k), e.km >= k,
         k \in Kilometres
  PROVE  Tops(S \cup {e}, e.km)
BY DEF Tops, Reading, Kilometres
-----------------------------------------------------------------------------
(***************************************************************************)
(* The stored value.  A writer that has had the vehicle to itself since it *)
(* began has decided on the highest of the readings there will be when it  *)
(* ends: Ahead is what it will have made of them.                          *)
(***************************************************************************)
Flies(w) == writer[w] # IdleWriter
ByTimeline(x) == x.kind \notin {"ticket", "visit"}

Shaped(x) ==
    /\ x.pc \in {"delete", "create", "update"}
    /\ x.pc = "update" => x.set = TRUE
    /\ x.kind = "visit" => x.pc = "create" /\ x.set = TRUE
Ahead(x) == IF x.pc = "delete" THEN Others(x.entry) \cup {x.entry}
            ELSE IF x.pc = "create" THEN readings \cup {x.entry} ELSE readings
Leaves(x) == IF x.set THEN x.km ELSE odometer
DecidedRight(x) == x.critical = FALSE /\ (ByTimeline(x) \/ exact) => Tops(Ahead(x), Leaves(x))

Stored == readings # {} => Tops(readings, odometer)

OdometerInv ==
    /\ OdometerTypeOK
    /\ alone => \A v, w \in Writers : Flies(v) /\ Flies(w) => v = w
    /\ \A w \in Writers : Flies(w) => Shaped(writer[w])
    /\ alone => \A w \in Writers : Flies(w) => DecidedRight(writer[w])
    /\ exact /\ (\A w \in Writers : ~Flies(w)) => Stored

LEMMA IdleTypes == IdleWriter \in Writer /\ IdleWriter.pc = "idle"
<1>1. 0 \in Kilometres /\ MaxTime \in Times
  BY OdometerAssumption DEF Kilometres, Times
<1>2. [ref |-> "none", km |-> 0, at |-> MaxTime] \in Reading
  BY <1>1 DEF Reading
<1> QED
  BY <1>1, <1>2 DEF IdleWriter, Writer

\* A request that begins with something decided.
LEMMA BeginKeeps ==
  ASSUME OdometerInv, NEW w \in Writers, NEW x \in Writer, Begin(w, x), Shaped(x),
         Stored \/ ~exact => DecidedRight(x)
  PROVE  OdometerInv'
<1>1. /\ writer' = [writer EXCEPT ![w] = x] /\ writer \in [Writers -> Writer]
      /\ UNCHANGED <<odometer, readings, exact>>
      /\ alone' = \A v \in Writers : ~Flies(v)
  BY DEF Begin, OdometerInv, OdometerTypeOK, Flies
<1>2. writer' \in [Writers -> Writer] /\ writer'[w] = x
      /\ \A v \in Writers : v # w => writer'[v] = writer[v]
  BY <1>1
<1>3. x # IdleWriter
  BY IdleTypes DEF Shaped
<1>4. OdometerTypeOK'
  BY <1>1, <1>2 DEF OdometerInv, OdometerTypeOK
<1>5. \A v \in Writers : Flies(v)' => Shaped(writer[v])'
  BY <1>2 DEF OdometerInv, Flies, Shaped
<1>6. ASSUME alone'
      PROVE  /\ \A u, v \in Writers : Flies(u)' /\ Flies(v)' => u = v
             /\ \A v \in Writers : Flies(v)' => DecidedRight(writer[v])'
  <2>1. \A v \in Writers : ~Flies(v)
    BY <1>1, <1>6
  <2>2. \A v \in Writers : Flies(v)' => v = w
    BY <1>2, <2>1 DEF Flies
  <2>3. DecidedRight(x)
    BY <2>1 DEF OdometerInv
  <2>4. DecidedRight(writer[w])'
    BY <1>1, <1>2, <2>3 DEF DecidedRight, Ahead, Others, Leaves, ByTimeline
  <2> QED
    BY <2>2, <2>4
<1>7. Flies(w)'
  BY <1>2, <1>3 DEF Flies
<1> QED
  BY <1>4, <1>5, <1>6, <1>7 DEF OdometerInv

LEMMA ValidatedKeeps ==
  ASSUME OdometerInv, NEW w \in Writers, NEW e \in Reading,
         NEW kind \in {"sync", "manual"}, NEW pc \in {"delete", "create"},
         Begin(w, Validated(kind, pc, e)), pc = "create" => e.ref = "none"
  PROVE  OdometerInv'
<1> DEFINE S == Others(e) \cup {e}
           new == Trusted(S, odometer)
           critical == Critical(Others(e), e)
           set == ~critical /\ new # odometer
           km == IF critical THEN odometer ELSE new
           x == [pc |-> pc, kind |-> kind, entry |-> e, set |-> set, km |-> km,
                 critical |-> critical]
<1>1. S \in SUBSET Reading /\ S # {} /\ odometer \in Kilometres
  BY DEF OdometerInv, OdometerTypeOK, Others
<1>2. Tops(S, new) /\ new \in Kilometres
  BY <1>1, TrustedIsHighest
<1>3. critical \in BOOLEAN
  BY DEF Critical
<1>4. x = Validated(kind, pc, e)
  BY DEF Validated
<1> HIDE DEF critical, new
<1>5. set \in BOOLEAN /\ km \in Kilometres /\
        (critical = FALSE => (IF set THEN km ELSE odometer) = new)
  BY <1>1, <1>2, <1>3
<1> HIDE DEF set, km
<1>6. x \in Writer /\ Shaped(x)
  BY <1>3, <1>5 DEF Writer, WriterKinds, Shaped
<1>7. pc = "create" => S = readings \cup {e}
  BY DEF Others
<1>8. Ahead(x) = S /\ (critical = FALSE => Leaves(x) = new)
  BY <1>5, <1>7 DEF Ahead, Leaves
<1>9. DecidedRight(x)
  BY <1>2, <1>8 DEF DecidedRight
<1> QED
  BY <1>4, <1>6, <1>9, BeginKeeps

LEMMA ReadKeeps ==
  ASSUME OdometerInv, NEW w \in Writers
  PROVE  /\ \A e \in Reading : ReadSync(w, e) => OdometerInv'
         /\ \A km \in Kilometres : ReadManual(w, km) => OdometerInv'
         /\ \A km \in Kilometres, kind \in {"ticket", "visit"} :
               ReadAtLeast(w, kind, km) => OdometerInv'
         /\ ReadReconcile(w) => OdometerInv'
<1>0. MaxTime \in Times /\ odometer \in Kilometres /\ readings \in SUBSET Reading
  BY OdometerAssumption DEF Times, OdometerInv, OdometerTypeOK
<1>1. ASSUME NEW e \in Reading, ReadSync(w, e) PROVE OdometerInv'
  BY <1>1, ValidatedKeeps DEF ReadSync
<1>2. ASSUME NEW km \in Kilometres, ReadManual(w, km) PROVE OdometerInv'
  <2> DEFINE e == [ref |-> "none", km |-> km, at |-> MaxTime]
  <2>1. e \in Reading /\ e.ref = "none" /\ Begin(w, Validated("manual", "create", e))
    BY <1>0, <1>2 DEF Reading, ReadManual
  <2> HIDE DEF e
  <2> QED
    BY <2>1, ValidatedKeeps
<1>3. ASSUME NEW km \in Kilometres, NEW kind \in {"ticket", "visit"}, ReadAtLeast(w, kind, km)
      PROVE  OdometerInv'
  <2> DEFINE e == [ref |-> "none", km |-> km, at |-> MaxTime]
             x == [pc |-> "create", kind |-> kind, entry |-> e, set |-> TRUE, km |-> km,
                   critical |-> FALSE]
  <2>1. e \in Reading /\ e.km = km /\ km >= odometer /\ Begin(w, x)
    BY <1>0, <1>3 DEF Reading, ReadAtLeast
  <2> HIDE DEF e
  <2>2. x \in Writer /\ Shaped(x)
    BY <2>1 DEF Writer, WriterKinds, Shaped
  <2>3. Stored => Tops(readings \cup {e}, km)
    BY <1>0, <2>1, TopsGrows DEF Stored
  <2>4. Stored \/ ~exact => DecidedRight(x)
    BY <2>3 DEF DecidedRight, Ahead, Leaves, ByTimeline
  <2> HIDE DEF x
  <2> QED
    BY <2>1, <2>2, <2>4, BeginKeeps
<1>4. ASSUME ReadReconcile(w) PROVE OdometerInv'
  <2> DEFINE km == Trusted(readings, odometer)
             x == [IdleWriter EXCEPT !.pc = "update", !.kind = "reconcile", !.set = TRUE,
                                     !.km = km]
  <2>1. readings # {} /\ Begin(w, x)
    BY <1>4 DEF ReadReconcile
  <2>2. Tops(readings, km) /\ km \in Kilometres
    BY <1>0, <2>1, TrustedIsHighest
  <2> HIDE DEF km
  <2>3. x \in Writer /\ x.pc = "update" /\ x.kind = "reconcile" /\ x.set = TRUE /\ x.km = km
    BY <2>2, IdleTypes DEF Writer, WriterKinds
  <2> HIDE DEF x
  <2>4. Shaped(x) /\ DecidedRight(x)
    BY <2>2, <2>3 DEF Shaped, DecidedRight, Ahead, Leaves
  <2> QED
    BY <2>1, <2>3, <2>4, BeginKeeps
<1> QED
  BY <1>1, <1>2, <1>3, <1>4

\* A writer that goes from one of its writes to the next.
LEMMA MoveKeeps ==
  ASSUME OdometerInv, NEW w \in Writers, NEW pc \in {"create", "update"}, Flies(w), Move(w, pc),
         writer[w].kind # "visit", pc = "update" => writer[w].set = TRUE,
         odometer' = odometer, readings' \in SUBSET Reading,
         DecidedRight(writer[w]) => DecidedRight(writer[w])'
  PROVE  OdometerInv'
<1> DEFINE x == [writer[w] EXCEPT !.pc = pc]
<1>1. writer[w] \in Writer /\ Shaped(writer[w])
  BY DEF OdometerInv, OdometerTypeOK
<1>2. /\ x \in Writer /\ x.pc = pc /\ x.kind = writer[w].kind /\ x.set = writer[w].set
  BY <1>1 DEF Writer
<1>3. /\ writer' = [writer EXCEPT ![w] = x] /\ writer \in [Writers -> Writer]
      /\ UNCHANGED <<alone, exact>>
  BY DEF Move, OdometerInv, OdometerTypeOK
<1> HIDE DEF x
<1>4. /\ writer' \in [Writers -> Writer] /\ writer'[w] = x
      /\ \A v \in Writers : v # w => writer'[v] = writer[v]
  BY <1>2, <1>3
<1>5. Shaped(x) /\ x # IdleWriter
  BY <1>2, IdleTypes DEF Shaped
<1>6. \A v \in Writers : Flies(v)' <=> Flies(v)
  BY <1>4, <1>5 DEF Flies
<1>7. \A v \in Writers : Flies(v)' => Shaped(writer[v])'
  BY <1>4, <1>5 DEF Flies, OdometerInv, Shaped
<1>8. alone' => \A v \in Writers : Flies(v)' => DecidedRight(writer[v])'
  BY <1>3, <1>6 DEF OdometerInv
<1> QED
  BY <1>3, <1>4, <1>6, <1>7, <1>8 DEF OdometerInv, OdometerTypeOK

\* A writer that ends.
LEMMA FinishKeeps ==
  ASSUME OdometerInv, NEW w \in Writers, Flies(w), writer' = [writer EXCEPT ![w] = IdleWriter],
         alone' = alone,
         exact' \in BOOLEAN, odometer' \in Kilometres, readings' \in SUBSET Reading,
         exact' => alone /\ Stored'
  PROVE  OdometerInv'
<1>1. writer \in [Writers -> Writer]
  BY DEF OdometerInv, OdometerTypeOK
<1>2. /\ writer' \in [Writers -> Writer] /\ writer'[w] = IdleWriter
      /\ \A v \in Writers : v # w => writer'[v] = writer[v]
  BY <1>1, IdleTypes
<1>3. \A v \in Writers : Flies(v)' => v # w /\ Flies(v)
  BY <1>2 DEF Flies
<1>4. \A v \in Writers : Flies(v)' => Shaped(writer[v])'
  BY <1>2, <1>3 DEF OdometerInv, Shaped
<1>5. alone => \A v \in Writers : ~Flies(v)'
  BY <1>3 DEF OdometerInv
<1> QED
  BY <1>2, <1>4, <1>5 DEF OdometerInv, OdometerTypeOK

LEMMA WriteKeeps ==
  ASSUME OdometerInv, NEW w \in Writers,
         DeleteOwn(w) \/ CreateReading(w) \/ UpdateVehicle(w) \/ WriteVisit(w) \/ FailWriter(w)
  PROVE  OdometerInv'
<1>0. /\ writer[w] \in Writer /\ readings \in SUBSET Reading /\ odometer \in Kilometres
      /\ exact \in BOOLEAN
      /\ alone => (Flies(w) => DecidedRight(writer[w]))
      /\ Flies(w) => Shaped(writer[w])
  BY DEF OdometerInv, OdometerTypeOK
<1>1. Flies(w)
  BY IdleTypes DEF DeleteOwn, CreateReading, UpdateVehicle, WriteVisit, FailWriter, Flies,
     IdleWriter
<1> DEFINE e == writer[w].entry
<1>2. e \in Reading /\ writer[w].km \in Kilometres /\ writer[w].set \in BOOLEAN
      /\ writer[w].critical \in BOOLEAN
  BY <1>0 DEF Writer
\* What Finish says of a writer that leaves the highest reading.
<1>3. ASSUME Finish(w), odometer' \in Kilometres, readings' \in SUBSET Reading,
             readings' = Ahead(writer[w]), odometer' = Leaves(writer[w])
      PROVE  OdometerInv'
  <2>1. exact' => alone /\ writer[w].critical = FALSE /\ (ByTimeline(writer[w]) \/ exact)
    BY <1>2, <1>3 DEF Finish, ByTimeline
  <2>2. exact' => Stored'
    BY <1>0, <1>1, <1>3, <2>1 DEF DecidedRight, Stored
  <2>3. exact' \in BOOLEAN
    BY <1>3 DEF Finish
  <2> QED
    BY <1>1, <1>3, <2>1, <2>2, <2>3, FinishKeeps DEF Finish
<1>4. CASE DeleteOwn(w)
  <2>1. /\ readings' = Others(e) /\ writer[w].pc = "delete" /\ Move(w, "create")
        /\ odometer' = odometer
    BY <1>4 DEF DeleteOwn
  <2>2. readings' \in SUBSET Reading /\ writer[w].kind # "visit"
    BY <1>0, <1>1, <2>1 DEF Others, Shaped
  <2>3. DecidedRight(writer[w]) => DecidedRight(writer[w])'
    <3>1. writer'[w] = [writer[w] EXCEPT !.pc = "create"] /\ exact' = exact
      BY <2>1 DEF Move, OdometerInv, OdometerTypeOK
    <3>2. /\ writer'[w].pc = "create" /\ writer'[w].entry = e /\ writer'[w].km = writer[w].km
          /\ writer'[w].set = writer[w].set /\ writer'[w].kind = writer[w].kind
          /\ writer'[w].critical = writer[w].critical
      BY <1>0, <3>1 DEF Writer
    <3>3. Ahead(writer[w])' = Ahead(writer[w]) /\ Leaves(writer[w])' = Leaves(writer[w])
      BY <2>1, <3>2 DEF Ahead, Leaves
    <3> QED
      BY <3>1, <3>2, <3>3 DEF DecidedRight, ByTimeline
  <2> QED
    BY <1>1, <2>1, <2>2, <2>3, MoveKeeps
<1>5. CASE CreateReading(w) /\ writer[w].set = TRUE
  <2>1. /\ readings' = readings \cup {e} /\ writer[w].pc = "create" /\ Move(w, "update")
        /\ odometer' = odometer /\ writer[w].kind # "visit"
    BY <1>5 DEF CreateReading
  <2>2. readings' \in SUBSET Reading
    BY <1>0, <1>2, <2>1
  <2>3. DecidedRight(writer[w]) => DecidedRight(writer[w])'
    <3>1. writer'[w] = [writer[w] EXCEPT !.pc = "update"] /\ exact' = exact
      BY <2>1 DEF Move, OdometerInv, OdometerTypeOK
    <3>2. /\ writer'[w].pc = "update" /\ writer'[w].km = writer[w].km
          /\ writer'[w].set = writer[w].set /\ writer'[w].kind = writer[w].kind
          /\ writer'[w].critical = writer[w].critical
      BY <1>0, <3>1 DEF Writer
    <3>3. Ahead(writer[w])' = Ahead(writer[w]) /\ Leaves(writer[w])' = Leaves(writer[w])
      BY <2>1, <3>2 DEF Ahead, Leaves
    <3> QED
      BY <3>1, <3>2, <3>3 DEF DecidedRight, ByTimeline
  <2> QED
    BY <1>1, <1>5, <2>1, <2>2, <2>3, MoveKeeps
<1>6. CASE CreateReading(w) /\ writer[w].set = FALSE
  <2>1. /\ readings' = readings \cup {e} /\ writer[w].pc = "create" /\ Finish(w)
        /\ odometer' = odometer
    BY <1>6 DEF CreateReading
  <2> QED
    BY <1>0, <1>2, <1>3, <1>6, <2>1 DEF Ahead, Leaves
<1>7. CASE UpdateVehicle(w)
  <2>1. /\ readings' = readings /\ writer[w].pc = "update" /\ Finish(w)
        /\ odometer' = writer[w].km /\ writer[w].set = TRUE
    BY <1>0, <1>1, <1>7 DEF UpdateVehicle, Shaped
  <2> QED
    BY <1>0, <1>2, <1>3, <2>1 DEF Ahead, Leaves
<1>8. CASE WriteVisit(w)
  <2>1. /\ readings' = readings \cup {e} /\ writer[w].pc = "create" /\ Finish(w)
        /\ odometer' = writer[w].km /\ writer[w].set = TRUE
    BY <1>0, <1>1, <1>8 DEF WriteVisit, Shaped
  <2> QED
    BY <1>0, <1>2, <1>3, <2>1 DEF Ahead, Leaves
<1>9. CASE FailWriter(w)
  BY <1>0, <1>1, <1>9, FinishKeeps DEF FailWriter
<1> QED
  BY <1>2, <1>4, <1>5, <1>6, <1>7, <1>8, <1>9

LEMMA OdometerInvIsInvariant == OdometerSpec => []OdometerInv
<1>1. OdometerInit => OdometerInv
  <2> SUFFICES ASSUME OdometerInit PROVE OdometerInv
    OBVIOUS
  <2>1. \A w \in Writers : ~Flies(w)
    BY DEF OdometerInit, Flies
  <2>2. OdometerTypeOK
    BY IdleTypes, OdometerAssumption DEF OdometerInit, OdometerTypeOK, Reading, Times
  <2>3. Stored
    BY DEF OdometerInit, Stored, Tops, Kilometres
  <2> QED
    BY <2>1, <2>2, <2>3 DEF OdometerInv
<1>2. OdometerInv /\ [OdometerNext]_odometerVars => OdometerInv'
  <2> SUFFICES ASSUME OdometerInv, [OdometerNext]_odometerVars PROVE OdometerInv'
    OBVIOUS
  <2>1. CASE UNCHANGED odometerVars
    BY <2>1 DEF odometerVars, OdometerInv, OdometerTypeOK, Flies, Shaped, DecidedRight,
       ByTimeline, Ahead, Others, Leaves, Stored
  <2>2. CASE OdometerNext
    BY <2>2, ReadKeeps, WriteKeeps DEF OdometerNext
  <2> QED
    BY <2>1, <2>2
<1> QED
  BY <1>1, <1>2, PTL DEF OdometerSpec

\* Types: in particular the timeline's value is always kilometres a vehicle can have.
THEOREM OdometerTypeCorrect == OdometerSpec => []OdometerTypeOK
<1>1. OdometerInv => OdometerTypeOK
  BY DEF OdometerInv
<1> QED
  BY <1>1, OdometerInvIsInvariant, PTL

\* Between requests the stored value is the highest of the readings, for any records,
\* moments and kilometres and any number of writers, until two overlap, one stops half
\* way or one records what the timeline rejects, and again after the next that had the
\* vehicle to itself.
THEOREM StoredIsTimeline == OdometerSpec => []OdometerIsTimeline
<1>1. OdometerInv => OdometerIsTimeline
  BY DEF OdometerInv, OdometerIsTimeline, Flies, Stored, Tops
<1> QED
  BY <1>1, OdometerInvIsInvariant, PTL
-----------------------------------------------------------------------------
(***************************************************************************)
(* The eight parts together.  A step of MCFleetRecords is a step of one    *)
(* part, chosen by focus and narrowed there to what the run explores, and  *)
(* leaves the variables of the others alone.  So the composition           *)
(* implements the specification of each part, and what is proved of a part *)
(* holds of the composition.                                               *)
(***************************************************************************)
LEMMA StartsTogether ==
  Init => /\ TyreInit /\ OdometerInit /\ OutboxInit /\ QueueInit /\ DossierInit
          /\ MembershipInit /\ SettlementInit /\ ReminderInit
BY DEF Init

LEMMA MenuSteps == Savers # {} /\ MenuNext => ReminderNext
<1> SUFFICES ASSUME Savers # {}, MenuNext
             PROVE  ReminderNext
  OBVIOUS
<1>1. OneSaver \in Savers
  BY DEF OneSaver
<1>2. ASSUME NEW c \in Savers, SecondSaver(c)
      PROVE  ReminderNext
  <2>1. "profile" \in Sources /\ Undated \in EntriesOf["profile"]
    <3>1. Undated \in OpsEntry
      BY ReminderAssumption DEF Undated, OpsEntry, DueDates, NoDate, ReminderAssumption
    <3> QED
      BY <3>1 DEF Sources, Undated, EntriesOf, TypesOf
  <2> QED
    BY <1>2, <2>1, Zenon DEF SecondSaver, ReminderNext, WriteNext, SyncNext
<1> QED
  BY <1>1, <1>2 DEF MenuNext, ReminderNext

LEMMA ItpSteps == Savers # {} /\ ItpNext => ReminderNext
<1> SUFFICES ASSUME Savers # {}, ItpNext
             PROVE  ReminderNext
  OBVIOUS
<1>1. OneSaver \in Savers
  BY DEF OneSaver
<1>2. \A s \in Sources : Unlisted(s) \subseteq EntriesOf[s]
  BY DEF Unlisted
<1>3. WriteNext(OneSaver) \/ SyncNext(OneSaver) \/ RowNext
  BY <1>2 DEF ItpNext, WriteNext, RowNext
<1> QED
  BY <1>1, <1>3 DEF ReminderNext

LEMMA StepsApart ==
  ASSUME Savers # {}
  PROVE  [Next]_recordVars =>
           /\ [TyreNext]_tyreVars /\ [OdometerNext]_odometerVars /\ [OutboxNext]_outboxVars
           /\ [QueueNext]_queueVars /\ [DossierNext]_dossierVars
           /\ [MembershipNext]_membershipVars /\ [SettlementNext]_settlementVars
           /\ [ReminderNext]_reminderVars
BY MenuSteps, ItpSteps DEF Next, recordVars

\* Whichever part a behaviour of the composition is about and however the run narrows its
\* steps, every part behaves as its own module specifies, with the fairness of the outbox.
THEOREM RecordsImplementParts ==
  ASSUME Savers # {}
  PROVE  Spec => /\ TyreSpec /\ OdometerSpec /\ OutboxSpec /\ QueueSpec /\ DossierSpec
                 /\ MembershipSpec /\ SettlementSpec /\ ReminderSpec
BY StartsTogether, StepsApart, PTL
   DEF Spec, TyreSpec, OdometerSpec, OutboxSpec, QueueSpec, DossierSpec, MembershipSpec,
       SettlementSpec, ReminderSpec

\* Every reachable state of the eight parts together is well typed.
THEOREM RecordsTyped ==
  ASSUME Savers # {}
  PROVE  Spec => []TypeOK
<1>1. /\ TyreTypeOK /\ OdometerTypeOK /\ OutboxTypeOK /\ QueueTypeOK /\ DossierTypeOK
      /\ MembershipTypeOK /\ SettlementTypeOK /\ ReminderTypeOK
      => TypeOK
  BY DEF TypeOK
<1> QED
  BY <1>1, RecordsImplementParts, TyreTypeCorrect, OdometerTypeCorrect, OutboxTypeCorrect,
     QueueTypeCorrect, DossierTypeCorrect, MembershipTypeCorrect, SettlementTypeCorrect,
     RemindersTypeCorrect, PTL

\* And what is proved of the parts holds of them together, with the exceptions each of
\* them states: tyres in place and their stays open until overlapping commits have moved
\* them, closes and mails and invitations once, operations sent in order, bills, menus,
\* dossiers and kilometres in agreement.
THEOREM RecordsCorrect ==
  ASSUME Savers # {}
  PROVE  Spec => [](/\ MountedInPlace /\ HotelTyreHasStay /\ ClosedOnce
                    /\ MailedOnce /\ QueuedIsSent /\ FirstInOrder
                    /\ OneKindOfMember /\ InviteSpentOnce /\ SettlementAgrees
                    /\ MenuFollowsEntries /\ ItpDatesAgree /\ DossierAgrees
                    /\ OdometerIsTimeline)
BY RecordsImplementParts, FittedInPlace, StayForHotelTyre, ClosesOnce, MailOnce, NothingLost,
   InOrder, MemberOfOneKind, InviteOnce, BillIsPreview, MenuShowsDue, InspectionsAgree,
   DossierKeepsOrder, StoredIsTimeline, PTL
==============================================================================
