----------------------------- MODULE TyreStore ------------------------------
(***************************************************************************)
(* The tyres of one vehicle: where each tyre is, the sets they belong to,  *)
(* the stays of the sets at a tyre hotel, the vehicle's fitment sheet, and *)
(* the closing of tyre work orders that moves them.                        *)
(*                                                                         *)
(*   api/src/fleet/tires/tire-domain.service.ts      placements, sets      *)
(*   api/src/fleet/tires/tire-hotel.service.ts       stays at a hotel      *)
(*   api/src/fleet/vehicle-wheels.service.ts         the fitment sheet     *)
(*   api/src/work-orders/work-order-tyre-close.service.ts                  *)
(*   api/prisma/schema.prisma                        TirePlacement, ...    *)
(*                                                                         *)
(* Every operation is a transaction at READ COMMITTED: what it has read    *)
(* may be replaced by another commit before it writes.  So an operation is *)
(* an action with a number k, which writes to the rows as they are, but    *)
(* whose first k queries have seen past, the rows before the last commit:  *)
(* Seen(i, k) is what its query i has seen.  The queries are numbered in   *)
(* the order of the code.  What stops such an operation is a row that it   *)
(* has written before it reads, and a unique index: of the open placements *)
(* of a tyre and of a wheel, and of the open stays of a set; there is none *)
(* for the sets.  lapped says which kinds of operation have written so.    *)
(* Two operations check before their transaction what they act on inside   *)
(* it, however many commits later: scrapSet, and applyTyreClose with the   *)
(* mark of the work order, which is then claimed.                          *)
(*                                                                         *)
(* Abstractions: of a tyre's closed placements, its make, tread and rim    *)
(* nothing is kept, nor TireEvent rows, fees and cost links.  The wheels   *)
(* are a rear one and the two it becomes under dual rear wheels.  A tyre   *)
(* is created in a set and keeps it for its placements' setId; item says   *)
(* that it is still a TireSetItem of it.  Tyres and sets are numbered in   *)
(* the order they are created in.                                          *)
(*                                                                         *)
(* A definition Name_Flaw is Name with a programming mistake in it.        *)
(***************************************************************************)
EXTENDS Integers, FiniteSets

CONSTANTS
    MaxTyres,       \* bound: TireAsset rows
    MaxSets,        \* bound: TireSet rows
    MaxClosing,     \* bound: applyTyreClose requests in flight
    Hotels,         \* suppliers with the tire_storage capability
    ReleaseKinds,   \* where checkOut may release a set to
    Disposals,      \* what may become of a replaced tyre
    TyreOrders,     \* work orders of type R
    NoHotel         \* no open TireStorageStay; supplierId = null

TyreIds == 1..MaxTyres
SetIds == 1..MaxSets
Wheels == {"rl", "rlo", "rli"}
LayoutPositions == [four |-> {"rl"}, six_dual_rear |-> {"rlo", "rli"}]

PlacementKinds == {"on_vehicle", "at_client", "at_supplier_hotel", "in_transit", "scrap",
                   "quarantine"}

ASSUME TyreAssumption ==
    /\ MaxTyres \in Nat /\ MaxSets \in Nat /\ MaxClosing \in Nat
    /\ NoHotel \notin Hotels
    /\ ReleaseKinds \subseteq PlacementKinds \ {"on_vehicle", "at_supplier_hotel"}
    /\ Disposals \subseteq {"scrap", "quarantine"}

VARIABLES
    tyres,      \* TireAsset rows, each with its one open TirePlacement
    sets,       \* TireSet rows of the vehicle
    stays,      \* the hotel of the open TireStorageStay of each set
    sheet,      \* positions with a VehicleWheelFitment row
    layout,     \* Vehicle.wheelLayout
    closes,     \* history: how many closes each work order has had
    closing,    \* applyTyreClose requests that found their order unmarked
    scrapping,  \* what a scrapSet in flight has read
    past,       \* the rows before the last commit, if some request is still to use them
    lapped,     \* history: the operations that wrote on the strength of such rows
    drifted     \* history: a step left the sheet behind the placements

tyreVars == <<tyres, sets, stays, sheet, layout, closes, closing, scrapping, past, lapped,
              drifted>>

Place == [kind : PlacementKinds, pos : Wheels \cup {"none"}, hotel : Hotels \cup {NoHotel}]
Tyre == [set : SetIds, item : BOOLEAN, at : Place]
NoTyre == [set |-> 0, item |-> FALSE,
           at |-> [kind |-> "none", pos |-> "none", hotel |-> NoHotel]]
TyreSet == [status : {"open", "archived"}, mounted : BOOLEAN]
NoSet == [status |-> "absent", mounted |-> FALSE]
NoScrap == [set |-> 0, items |-> {}]
Rows == [tyres : [TyreIds -> Tyre \cup {NoTyre}], sets : [SetIds -> TyreSet \cup {NoSet}],
         stays : [SetIds -> Hotels \cup {NoHotel}], sheet : SUBSET Wheels,
         layout : DOMAIN LayoutPositions]
Now == [tyres |-> tyres, sets |-> sets, stays |-> stays, sheet |-> sheet, layout |-> layout]

TyreTypeOK ==
    /\ Now \in Rows /\ past \in Rows
    /\ closes \in [TyreOrders -> Nat]
    /\ closing \in [TyreOrders -> 0..MaxClosing]
    /\ scrapping \in [set : SetIds \cup {0}, items : SUBSET TyreIds]
    /\ lapped \subseteq {"wheels", "hotel", "closes"}
    /\ drifted \in BOOLEAN

\* A vehicle from before tyres were tracked has a sheet and no tyres.
TyreInit ==
    /\ tyres = [a \in TyreIds |-> NoTyre]
    /\ sets = [s \in SetIds |-> NoSet]
    /\ stays = [s \in SetIds |-> NoHotel]
    /\ sheet \in {{}, {"rl"}}
    /\ layout = "four"
    /\ closes = [w \in TyreOrders |-> 0]
    /\ closing = [w \in TyreOrders |-> 0]
    /\ scrapping = NoScrap
    /\ past = Now /\ lapped = {}
    /\ drifted = (sheet # {})
-----------------------------------------------------------------------------
(***************************************************************************)
(* Rows.                                                                   *)
(***************************************************************************)
Made == Cardinality({a \in TyreIds : tyres[a] # NoTyre})
Used == Cardinality({s \in SetIds : sets[s] # NoSet})

ItemsIn(rows, s) == {a \in TyreIds : rows[a].set = s /\ rows[a].item}
MountedIn(rows) == {a \in TyreIds : rows[a].at.kind = "on_vehicle"}
WheelsIn(rows) == {rows[a].at.pos : a \in MountedIn(rows)}
MountedOf(rows, s) == {a \in MountedIn(rows) : rows[a].set = s}

At(kind, hotel) == [kind |-> kind, pos |-> "none", hotel |-> hotel]
OnWheel(p) == [kind |-> "on_vehicle", pos |-> p, hotel |-> NoHotel]

\* placeAssetTx for each tyre of place: its open placement, whatever it is by then, is
\* closed, and place says where the one that is opened has it.
Placed(rows, place) ==
    [a \in TyreIds |-> IF a \in DOMAIN place THEN [rows[a] EXCEPT !.at = place[a]]
                                             ELSE rows[a]]

\* Create the tyres of place in set s, where place says.
CanMake(n) == Made + n =< MaxTyres
NewIds(n) == Made + 1 .. Made + n
WithNew(rows, s, place) ==
    [a \in TyreIds |-> IF a \in DOMAIN place
                       THEN [set |-> s, item |-> TRUE, at |-> place[a]]
                       ELSE rows[a]]

\* One new tyre on each of the wheels.
OnWheels(wheels) ==
    LET on == CHOOSE f \in [NewIds(Cardinality(wheels)) -> wheels] :
                  \A a, b \in DOMAIN f : f[a] = f[b] => a = b
    IN  [a \in DOMAIN on |-> OnWheel(on[a])]

AddSet(mounted) ==
    /\ Used < MaxSets
    /\ sets' = [sets EXCEPT ![Used + 1] = [status |-> "open", mounted |-> mounted]]

\* A step that moves tyres without the projection.
NoProject(moved) ==
    /\ drifted' = (drifted \/ moved \cap MountedIn(tyres) # {})
    /\ UNCHANGED sheet
-----------------------------------------------------------------------------
(***************************************************************************)
(* Reading and committing.                                                 *)
(***************************************************************************)
Queries == 0..7
Overtaken == IF past = Now THEN {0} ELSE Queries
Seen(i, k) == IF i =< k THEN past ELSE Now

\* A transaction that has written tyres before its query i: no other has since.
Locked(written, i, k) == i =< k => \A a \in written : tyres[a] = past.tyres[a]

\* A commit, refused by the index of the wheels when the transaction saw a wheel free
\* that is taken.  It may fall between the queries of the next one, or not.
OneTyrePerWheel == \A a, b \in MountedIn(tyres) : tyres[a].at.pos = tyres[b].at.pos => a = b
Commit(operation, k) ==
    /\ k > 0 => OneTyrePerWheel'
    /\ lapped' = IF k = 0 THEN lapped ELSE lapped \cup {operation}
    /\ past' \in {Now, Now'}

\* syncFitmentProjectionTx: the sheet becomes the positions of the tyres that the
\* transaction, which has moved some, sees on the vehicle; it deletes the other rows it
\* then finds, and fails on one that is gone.
Project(moved, i, k) ==
    LET seen == [a \in TyreIds |-> IF a \in moved \/ tyres'[a] # tyres[a]
                                   THEN tyres'[a] ELSE Seen(i, k).tyres[a]]
        found == Seen(i + 1, k).sheet
    IN  /\ Locked(moved, i, k)
        /\ found \ WheelsIn(seen) \subseteq sheet
        /\ sheet' = WheelsIn(seen) \cup (sheet \ found)
        /\ drifted' = FALSE
-----------------------------------------------------------------------------
(***************************************************************************)
(* The fitment sheet.                                                      *)
(***************************************************************************)
\* ensureMountedSetFromFitmentTx, run before a list of the wheels or of the sets.
BootstrapMountedSet(k) ==
    LET rows == Seen(4, k).sheet
    IN  /\ MountedIn(Seen(1, k).tyres) = {}
        /\ \A s \in SetIds : Seen(2, k).sets[s] = NoSet
        /\ \A a \in TyreIds : ~Seen(3, k).tyres[a].item
        /\ rows # {} /\ CanMake(Cardinality(rows))
        /\ AddSet(TRUE)
        /\ tyres' = WithNew(tyres, Used + 1, OnWheels(rows))
        /\ drifted' = FALSE
        /\ UNCHANGED <<stays, sheet, layout, closes, closing, scrapping>>

\* getOrCreateMountedSetIdTx: the set of a mounted tyre, else the open set that bears
\* the name of the mounted one, else a new set.
NamedSets(rows) == {s \in SetIds : rows[s].mounted /\ rows[s].status = "open"}
MountedSet_Flaw(s, i, k) ==
    LET named == NamedSets(Seen(i + 1, k).sets)
    IN  \/ s \in named /\ UNCHANGED sets
        \/ named = {} /\ s = Used + 1 /\ AddSet(TRUE)
MountedSet(s, i, k) ==
    LET mounted == Seen(i, k).tyres
        named == NamedSets(Seen(i + 1, k).sets)
    IN  \/ s \in {mounted[a].set : a \in MountedIn(mounted)} /\ UNCHANGED sets
        \/ MountedIn(mounted) = {} /\ s \in named /\ UNCHANGED sets
        \/ MountedIn(mounted) = {} /\ named = {} /\ s = Used + 1 /\ AddSet(TRUE)

\* syncFromFitmentUpsert for each wheel, whose row of the sheet has just been written: a
\* wheel with no tyre gets a new one.
MountNew(wheels, i, k) ==
    LET bare == wheels \ WheelsIn(Seen(i, k).tyres)
    IN  /\ i =< k => wheels \cap sheet = wheels \cap past.sheet
        /\ sheet' = sheet \cup wheels
        /\ \/ bare = {} /\ UNCHANGED <<tyres, sets>>
           \/ /\ bare # {} /\ CanMake(Cardinality(bare))
              /\ \E s \in SetIds :
                   /\ MountedSet(s, i + 1, k)
                   /\ tyres' = WithNew(tyres, s, OnWheels(bare))

UpsertWheel(p, k) ==
    /\ p \in LayoutPositions[Seen(1, k).layout]
    /\ MountNew({p}, 2, k)
    /\ UNCHANGED <<stays, layout, closes, closing, scrapping, drifted>>

\* clearPosition: the tyre is demounted to the client, the row deleted.
ClearPosition(p, k) ==
    LET seen == Seen(1, k).tyres
        there == {a \in MountedIn(seen) : seen[a].at.pos = p}
    IN  /\ Locked(there, 2, k)
        /\ tyres' = Placed(tyres, [a \in there |-> At("at_client", NoHotel)])
        /\ sheet' = sheet \ (Seen(2, k).sheet \cap {p})
        /\ UNCHANGED <<sets, stays, layout, closes, closing, scrapping, drifted>>

\* The row of a single rear wheel is copied to both of the wheels that replace it; it
\* keeps its own row, and its tyre stays mounted.  The row of the vehicle is written first.
SetLayout(l, k) ==
    LET dual == Seen(1, k).layout = "four" /\ l = "six_dual_rear"
        copied == IF dual /\ "rl" \in Seen(2, k).sheet THEN {"rlo", "rli"} ELSE {}
    IN  /\ k >= 2 => layout = past.layout
        /\ layout' = l
        /\ MountNew(copied, 3, k)
        /\ UNCHANGED <<stays, closes, closing, scrapping, drifted>>
-----------------------------------------------------------------------------
(***************************************************************************)
(* Sets.                                                                   *)
(***************************************************************************)
\* createSet: empty, or with a copy of each mounted wheel (of each row, with none
\* mounted) that has data to copy, at the client.
CreateSet(k) ==
    /\ AddSet(FALSE)
    /\ LET wheels == WheelsIn(Seen(1, k).tyres)
       IN  \E seed \in SUBSET (IF wheels # {} THEN wheels ELSE Seen(2, k).sheet) :
             /\ CanMake(Cardinality(seed))
             /\ tyres' = WithNew(tyres, Used + 1,
                         [a \in NewIds(Cardinality(seed)) |-> At("at_client", NoHotel)])
    /\ UNCHANGED <<stays, sheet, layout, closes, closing, scrapping, drifted>>

\* scrapSet reads the set, its tyres and stays outside its transaction ...
ReadScrap(s) ==
    /\ scrapping = NoScrap
    /\ sets[s].status = "open" /\ stays[s] = NoHotel
    /\ MountedOf(tyres, s) = {}
    /\ scrapping' = [set |-> s, items |-> ItemsIn(tyres, s)]
    /\ UNCHANGED <<tyres, sets, stays, sheet, layout, closes, closing, past, lapped, drifted>>

\* ... and scraps what it read in it.
ScrapSet ==
    /\ scrapping # NoScrap
    /\ tyres' = Placed(tyres, [a \in scrapping.items |-> At("scrap", NoHotel)])
    /\ sets' = [sets EXCEPT ![scrapping.set].status = "archived"]
    /\ scrapping' = NoScrap
    /\ NoProject(scrapping.items)
    /\ UNCHANGED <<stays, layout, closes, closing>>
-----------------------------------------------------------------------------
(***************************************************************************)
(* The tyre hotel.                                                         *)
(***************************************************************************)
CheckIn(s, h, k) ==
    LET items == ItemsIn(Seen(1, k).tyres, s)
        placed == Seen(3, k).tyres
    IN  /\ Seen(1, k).sets[s].status = "open" /\ items # {}
        /\ Seen(2, k).stays[s] = NoHotel /\ stays[s] = NoHotel
        /\ \A a \in TyreIds : placed[a].set = s => placed[a].at.hotel \in {h, NoHotel}
        /\ items \cap MountedIn(Seen(4, k).tyres) = {}
        /\ stays' = [stays EXCEPT ![s] = h]
        /\ tyres' = Placed(tyres, [a \in items |-> At("at_supplier_hotel", h)])
        /\ Project(items, 5, k)
        /\ UNCHANGED <<sets, layout, closes, closing, scrapping>>

\* relocateTx places the set's tyres in their new bay, wherever they are, and updates
\* the stay it has read by its id, open or not.
Relocate(s, k) ==
    LET hotel == Seen(1, k).stays[s]
        items == ItemsIn(Seen(1, k).tyres, s)
    IN  /\ hotel # NoHotel
        /\ tyres' = Placed(tyres, [a \in items |-> At("at_supplier_hotel", hotel)])
        /\ NoProject(items)
        /\ UNCHANGED <<sets, stays, layout, closes, closing, scrapping>>

\* So does checkOutTx with the stay it closes.
CheckOut(s, kind, k) ==
    LET items == ItemsIn(Seen(1, k).tyres, s)
    IN  /\ Seen(1, k).stays[s] # NoHotel
        /\ tyres' = Placed(tyres, [a \in items |-> At(kind, NoHotel)])
        /\ stays' = [stays EXCEPT ![s] = NoHotel]
        /\ Project(items, 2, k)
        /\ UNCHANGED <<sets, layout, closes, closing, scrapping>>

\* recordStayAfterStoreTx: a stay at another hotel refuses the store.
RecordStay_Flaw(s, h, i, k) ==
    stays' = IF stays[s] = NoHotel THEN [stays EXCEPT ![s] = h] ELSE stays
RecordStay(s, h, i, k) ==
    \/ Seen(i, k).stays[s] = h /\ UNCHANGED stays
    \/ /\ Seen(i, k).stays[s] = NoHotel /\ stays[s] = NoHotel
       /\ stays' = [stays EXCEPT ![s] = h]

Store(s, kind, h, i, k) ==
    IF kind = "at_supplier_hotel" THEN h \in Hotels /\ RecordStay(s, h, i, k)
                                  ELSE h = NoHotel /\ UNCHANGED stays
-----------------------------------------------------------------------------
(***************************************************************************)
(* applyTyreClose.  The order is read unmarked, then claimed in the        *)
(* transaction by an update of the rows still unmarked.                    *)
(***************************************************************************)
BeginClose(w) ==
    /\ closes[w] = 0
    /\ closing[w] < MaxClosing
    /\ closing' = [closing EXCEPT ![w] = @ + 1]
    /\ UNCHANGED <<tyres, sets, stays, sheet, layout, closes, scrapping, past, lapped,
                   drifted>>

ClaimOrder_Flaw(w) == closing[w] > 0 /\ closes' = [closes EXCEPT ![w] = @ + 1]
ClaimOrder(w) ==
    /\ closing[w] > 0 /\ closes[w] = 0
    /\ closes' = [closes EXCEPT ![w] = @ + 1]

\* applyPositionOutcomeTx, in a transaction that has made the rows before of those it
\* has seen: nothing moves, or the tyre on a wheel is disposed of and a new one takes its
\* place in the set and on the wheel.
Outcome(rows, seen) ==
    \/ tyres' = rows
    \/ \E old \in MountedIn(seen), disposal \in Disposals :
         /\ CanMake(1)
         /\ tyres' = [rows EXCEPT
              ![old].at = At(disposal, NoHotel), ![old].item = FALSE,
              ![Made + 1] = [set |-> seen[old].set, item |-> TRUE, at |-> seen[old].at]]

\* What a close does before and after its payload.
ClaimClose(w) ==
    /\ ClaimOrder(w)
    /\ closing' = [closing EXCEPT ![w] = @ - 1]
    /\ UNCHANGED <<sets, layout, scrapping>>

\* The rest of a close that places tyres: the outcomes and the projection.
FinishClose(place, k) ==
    /\ Locked(DOMAIN place, 5, k)
    /\ Outcome(Placed(tyres, place), Placed(Seen(5, k).tyres, place))
    /\ Project(DOMAIN place, 6, k)

CloseOutcomes(w, k) ==
    /\ ClaimClose(w)
    /\ FinishClose(<<>>, k)
    /\ UNCHANGED stays

\* The tyres of set out leave their wheels, those of set in take them, one for one.
SeasonalSwap(w, out, in, kind, h, k) ==
    LET seen == Seen(3, k).tyres
        demounted == MountedOf(seen, out)
        freed == {seen[a].at.pos : a \in demounted}
        items == ItemsIn(Seen(2, k).tyres, in)
    IN  /\ ClaimClose(w)
        /\ out # in
        /\ Seen(1, k).sets[out].status = "open" /\ Seen(1, k).sets[in].status = "open"
        /\ demounted # {} /\ Cardinality(items) = Cardinality(demounted)
        /\ Locked(demounted, 4, k) /\ Store(out, kind, h, 4, k)
        /\ \E f \in [items -> freed] :
             /\ \A a, b \in items : f[a] = f[b] => a = b
             /\ FinishClose([a \in demounted \cup items |->
                               IF a \in items THEN OnWheel(f[a]) ELSE At(kind, h)], k)

\* storageOnly: the set's mounted tyres, or all of its tyres when none is mounted.
StoreSet(w, s, kind, h, k) ==
    LET items == ItemsIn(Seen(2, k).tyres, s)
        onVehicle == MountedOf(Seen(3, k).tyres, s)
        moved == IF onVehicle # {} THEN onVehicle ELSE items
    IN  /\ ClaimClose(w)
        /\ Seen(1, k).sets[s].status = "open" /\ items # {}
        /\ Locked(moved, 4, k) /\ Store(s, kind, h, 4, k)
        /\ FinishClose([a \in moved |-> At(kind, h)], k)

\* The transaction is refused, by the claim or by a check of its payload.
RefuseClose(w) ==
    /\ closing[w] > 0
    /\ closing' = [closing EXCEPT ![w] = @ - 1]
    /\ UNCHANGED <<tyres, sets, stays, sheet, layout, closes, scrapping, past, lapped,
                   drifted>>

StoreKinds == {"at_client", "at_supplier_hotel"}

WheelsStep(k) ==
    \/ BootstrapMountedSet(k)
    \/ \E p \in Wheels : UpsertWheel(p, k) \/ ClearPosition(p, k)
    \/ \E l \in DOMAIN LayoutPositions : SetLayout(l, k)
    \/ CreateSet(k)

HotelStep(k) ==
    \E s \in SetIds :
      \/ Relocate(s, k)
      \/ \E h \in Hotels : CheckIn(s, h, k)
      \/ \E kind \in ReleaseKinds : CheckOut(s, kind, k)

CloseStep(k) ==
    \E w \in TyreOrders :
      \/ CloseOutcomes(w, k)
      \/ \E s \in SetIds, kind \in StoreKinds, h \in Hotels \cup {NoHotel} :
           \/ StoreSet(w, s, kind, h, k)
           \/ \E in \in SetIds : SeasonalSwap(w, s, in, kind, h, k)

TyreNext ==
    \/ \E k \in Overtaken :
         \/ WheelsStep(k) /\ Commit("wheels", k)
         \/ HotelStep(k) /\ Commit("hotel", k)
         \/ CloseStep(k) /\ Commit("closes", k)
    \/ ScrapSet /\ Commit("sets", 0)
    \/ \E s \in SetIds : ReadScrap(s)
    \/ \E w \in TyreOrders : BeginClose(w) \/ RefuseClose(w)

TyreSpec == TyreInit /\ [][TyreNext]_tyreVars
-----------------------------------------------------------------------------
(***************************************************************************)
(* Properties.                                                             *)
(***************************************************************************)
\* No operation leaves two tyres on a wheel (OneTyrePerWheel); one that nothing overlaps
\* does not meet the index either: what a swap frees is what it fills.

\* The tyres on the vehicle are of one set, which is what a swap demounts when it is
\* told that set: a wheel given a tyre joins the set that is mounted.  No index keeps
\* them so: a wheel, or a close, whose reads another commit has replaced does not.
OneSetMounted ==
    lapped \cap {"wheels", "closes"} = {} =>
        \A a, b \in MountedIn(tyres) : tyres[a].set = tyres[b].set

\* Every mounted tyre is on the fitment sheet; and the sheet lists no other wheel, but on
\* a vehicle whose tyres were not tracked yet, and after a hotel move or a late scrapSet
\* has taken mounted tyres off without the projection.
SheetIsMounted ==
    lapped = {} =>
        /\ WheelsIn(tyres) \subseteq sheet
        /\ ~drifted => sheet = WheelsIn(tyres)

\* All three, whatever the order of swaps, scraps, hotel moves and edits of the sheet.
MountedInPlace == OneTyrePerWheel /\ OneSetMounted /\ SheetIsMounted

\* A tyre recorded at a hotel is covered by an open stay of its set at that hotel,
\* the record its release is made from: a store, a check-in and a relocation never
\* leave a tyre there that nobody can check out, unless one of them, or a close, acts on
\* a stay or on tyres that another commit has changed since it read them.
HotelTyreHasStay ==
    lapped \cap {"hotel", "closes"} = {} =>
        \A a \in TyreIds : tyres[a].at.kind = "at_supplier_hotel" =>
            stays[tyres[a].set] = tyres[a].at.hotel

\* A work order is closed once, however many closes found it unmarked.
ClosedOnce == \A w \in TyreOrders : closes[w] =< 1
=============================================================================
