--------------------------- MODULE MCFleetRecords ---------------------------
(***************************************************************************)
(* Instances, for TLC, of the parts of the system that share no rows with  *)
(* one another: a vehicle's tyres, its odometer, the mails to partners,    *)
(* the offline queue of a roadside driver, the history of a damage case, a *)
(* person's memberships, the price of a roadside mission and a vehicle's   *)
(* reminders.  A behaviour is about one of them and leaves the others as   *)
(* they began.                                                             *)
(***************************************************************************)
EXTENDS TyreStore, VehicleOdometer, PartnerOutbox, RsaOfflineQueue, DamageDossier,
        Membership, RsaSettlement, ReminderMenu

VARIABLE focus

recordVars == <<focus, tyreVars, odometerVars, outboxVars, queueVars, dossierVars,
                membershipVars, settlementVars, reminderVars>>

\* The tyres in three sizes, and the layout as it is when the first tyre is made: with two
\* hotels and two closes at once, or a late scrapSet; with a tyre more (a set of two for a
\* set of two); and with any layout and an operation that writes on the strength of older
\* rows, as the last step.
OneLayout == layout' # layout => tyres'[1] = NoTyre
OneClose == /\ \A w \in TyreOrders : closing'[w] =< 1
            /\ \A s \in SetIds : stays'[s] \in {NoHotel, CHOOSE h \in Hotels : TRUE}
TwoHotels == /\ past' = Now' /\ OneLayout /\ tyres'[MaxTyres] = NoTyre
             /\ scrapping' # NoScrap => OneClose
TwoWheels == past' = Now' /\ OneLayout /\ OneClose /\ scrapping' = NoScrap
Overlap == /\ OneClose /\ scrapping' = NoScrap
           /\ IF past = Now THEN lapped' = {} /\ tyres'[MaxTyres - 1] = NoTyre
                            ELSE lapped' # {} /\ past' = Now'

\* One inspection note at a time in the history of the case.
OneNote == Cardinality({e \in history' : e.kind = "inspection_note"}) =< 1

\* No viewer of the team, and no step after one the properties make an exception of.
Regular == /\ ~remade /\ raced = {} /\ strayed = {}
           /\ \A c \in Callers : calls'[c].to # "tenant_viewer"

\* One supplier changes its terms, the enrolments change before the call for help, the
\* help is sent to another supplier before the mission is made, and nothing changes after
\* the bill.
OneSupplier == CHOOSE s \in RsaSuppliers : TRUE
Orderly == /\ bill = NoBill
           /\ \A s \in RsaSuppliers \ {OneSupplier} : plan'[s] = plan[s] /\ card'[s] = card[s]
           /\ help # NoHelp => enrolled' = enrolled
           /\ towing # NoTowing => help'.supplier = help.supplier

\* A plan for tows alone and one with a yearly limit, a full rate card and a bare one.
TowPlan == [features |-> {"tow"}, cap |-> NoCap, included |-> 2, overage |-> 3]
CappedPlan == [features |-> {"tow", "other"}, cap |-> 1, included |-> 1, overage |-> 1]
SomePlans == {TowPlan, CappedPlan}
FullCard == [callout |-> 5, hook |-> 4, perKm |-> 2, winch |-> 7, nightPct |-> 25]
BareCard == [callout |-> 0, hook |-> 0, perKm |-> 3, winch |-> 0, nightPct |-> 0]
SomeCards == {FullCard, BareCard}

\* The menu: one entry that is no inspection and the profile, undated while there is
\* another entry; a second request may meanwhile write such a profile.
OneSaver == CHOOSE c \in Savers : TRUE
Undated == [type |-> "itp", due |-> NoDate, warn |-> FALSE, sync |-> TRUE]
OneEntry ==
    /\ astray = {}
    /\ Cardinality({s \in Sources : Exists(s)'}) =< 2
    /\ \A s \in Sources : entries'[s].type = "itp" => s = "profile"
    /\ (\E s \in Sources \ {"profile"} : Exists(s)') =>
         entries'["profile"] \in {Undated, [Undated EXCEPT !.sync = FALSE]}
SecondSaver(c) ==
    \/ SaverAt(c, "idle") /\ SaveEntry(c, "profile", Undated, FALSE, FALSE)
    \/ RereadEntry(c) \/ SyncReminder(c)
MenuNext ==
    /\ \/ WriteNext(OneSaver) \/ SyncNext(OneSaver) \/ RowNext
       \/ \E c \in Savers \ {OneSaver} : SecondSaver(c)
    /\ OneEntry

\* The inspection: the profile, the certificate and a cost or a maintenance entry, without
\* warnings, and undated unless an inspection; one request at a time.
Unlisted(s) == {row \in EntriesOf[s] : /\ ~row.warn /\ row.sync
                                       /\ row.type = "other" => row.due = NoDate}
ItpNext ==
    /\ \/ /\ SaverAt(OneSaver, "idle")
          /\ \E s \in Sources \ {"plan"}, link \in BOOLEAN :
               \E row \in Unlisted(s) : SaveEntry(OneSaver, s, row, FALSE, link)
       \/ SyncNext(OneSaver)
       \/ \E s \in Sources : DeleteEntry(s)
    /\ ~muddled /\ ~(Exists("cost") /\ Exists("service"))'

Init ==
    /\ focus \in {"tyres", "swap", "overlap", "odometer", "outbox", "queue", "dossier",
                 "membership", "settlement", "menu", "itp"}
    /\ TyreInit /\ (focus \notin {"tyres", "swap", "overlap"} => sheet = {})
    /\ OdometerInit /\ (focus # "odometer" => odometer = 0)
    /\ OutboxInit
    /\ QueueInit
    /\ DossierInit
    /\ MembershipInit /\ (focus # "membership" => ~account)
    /\ SettlementInit
    /\ ReminderInit
    /\ \A s \in RsaSuppliers : plan[s] = TowPlan /\ card[s] = FullCard

Next ==
    /\ UNCHANGED focus
    /\ \/ /\ focus \in {"tyres", "swap", "overlap"} /\ lapped = {}
          /\ TyreNext
          /\ \/ focus = "tyres" /\ TwoHotels
             \/ focus = "swap" /\ TwoWheels
             \/ focus = "overlap" /\ Overlap
          /\ UNCHANGED <<odometerVars, outboxVars, queueVars, dossierVars,
                         membershipVars, settlementVars, reminderVars>>
       \/ /\ focus = "odometer" /\ OdometerNext
          /\ UNCHANGED <<tyreVars, outboxVars, queueVars, dossierVars,
                         membershipVars, settlementVars, reminderVars>>
       \/ /\ focus = "outbox" /\ OutboxNext
          /\ UNCHANGED <<tyreVars, odometerVars, queueVars, dossierVars,
                         membershipVars, settlementVars, reminderVars>>
       \/ /\ focus = "queue" /\ QueueNext
          /\ UNCHANGED <<tyreVars, odometerVars, outboxVars, dossierVars,
                         membershipVars, settlementVars, reminderVars>>
       \/ /\ focus = "dossier" /\ DossierNext /\ OneNote
          /\ UNCHANGED <<tyreVars, odometerVars, outboxVars, queueVars,
                         membershipVars, settlementVars, reminderVars>>
       \/ /\ focus = "membership" /\ MembershipNext /\ Regular
          /\ UNCHANGED <<tyreVars, odometerVars, outboxVars, queueVars,
                         dossierVars, settlementVars, reminderVars>>
       \/ /\ focus = "settlement" /\ SettlementNext /\ Orderly
          /\ UNCHANGED <<tyreVars, odometerVars, outboxVars, queueVars,
                         dossierVars, membershipVars, reminderVars>>
       \/ /\ \/ focus = "menu" /\ MenuNext
             \/ focus = "itp" /\ ItpNext
          /\ UNCHANGED <<tyreVars, odometerVars, outboxVars, queueVars,
                         dossierVars, membershipVars, settlementVars>>

Spec == Init /\ [][Next]_recordVars /\ OutboxFairness

TypeOK == TyreTypeOK /\ OdometerTypeOK /\ OutboxTypeOK /\ QueueTypeOK /\ DossierTypeOK
          /\ MembershipTypeOK /\ SettlementTypeOK /\ ReminderTypeOK
=============================================================================
