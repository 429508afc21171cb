--------------------------- MODULE TyreStore_proofs ---------------------------
(***************************************************************************)
(* Proofs about TyreStore, for any number of tyres, sets, hotels, tyre     *)
(* work orders, concurrent closes and overlapping operations: where the    *)
(* tyres on the vehicle are, which stays cover the tyres at a hotel, how   *)
(* often an order is closed.                                               *)
(***************************************************************************)
EXTENDS TyreStore, FiniteSetTheorems, TLAPS

-----------------------------------------------------------------------------
(***************************************************************************)
(* The rows.  Tyres are numbered without gaps, so that a new one takes an  *)
(* unused number; what a row says agrees with the kind of its place.       *)
(***************************************************************************)
MadeIn(rows) == {a \in TyreIds : rows[a] # NoTyre}

\* A place as its kind says: a wheel on the vehicle, a hotel exactly at a hotel.
Proper(q) ==
    /\ q \in Place
    /\ q.kind = "on_vehicle" => q.pos \in Wheels
    /\ q.kind = "at_supplier_hotel" <=> q.hotel # NoHotel

Sound(rows) ==
    /\ rows \in [TyreIds -> Tyre \cup {NoTyre}]
    /\ \E n \in 0..MaxTyres : MadeIn(rows) = 1..n
    /\ \A a \in MadeIn(rows) : Proper(rows[a].at)

\* One tyre on a wheel; one set on the vehicle; a tyre on the vehicle or at a hotel is
\* still an item of its set.
OneWheel(rows) == \A a, b \in MountedIn(rows) : rows[a].at.pos = rows[b].at.pos => a = b
OneSet(rows) == \A a, b \in MountedIn(rows) : rows[a].set = rows[b].set
AllItems(rows) == \A a \in TyreIds :
    rows[a].at.kind \in {"on_vehicle", "at_supplier_hotel"} => rows[a].item

\* Every tyre at a hotel is in the care of a stay of its set there.
Covered(rows, st) == \A a \in TyreIds :
    rows[a].at.kind = "at_supplier_hotel" => st[rows[a].set] = rows[a].at.hotel

LEMMA NoTyreApart ==
  /\ NoTyre \notin Tyre /\ NoTyre.at.kind = "none" /\ NoTyre.set = 0 /\ ~NoTyre.item
  /\ "none" \notin PlacementKinds
BY TyreAssumption DEF NoTyre, Tyre, SetIds, PlacementKinds, TyreAssumption

LEMMA SoundRow ==
  ASSUME NEW rows, Sound(rows), NEW a \in MadeIn(rows)
  PROVE  a \in TyreIds /\ rows[a] \in Tyre /\ rows[a].at \in Place /\ rows[a].set \in SetIds
BY DEF Sound, MadeIn, Tyre

\* A tyre that is somewhere, or in a set, has been made.
LEMMA MadeWhere ==
  ASSUME NEW rows, Sound(rows), NEW a \in TyreIds,
         rows[a].at.kind \in PlacementKinds \/ rows[a].item \/ rows[a].set # 0
  PROVE  a \in MadeIn(rows)
BY NoTyreApart DEF MadeIn

LEMMA MadeCount ==
  ASSUME Sound(tyres)
  PROVE  /\ Made \in 0..MaxTyres /\ MadeIn(tyres) = 1..Made
         /\ \A n \in Nat : CanMake(n) =>
              NewIds(n) \subseteq TyreIds /\ NewIds(n) \cap MadeIn(tyres) = {}
<1>1. PICK n \in 0..MaxTyres : MadeIn(tyres) = 1..n
  BY DEF Sound
<1>2. Made = n
  <2>1. Made = Cardinality(1..n)
    BY <1>1 DEF Made, MadeIn
  <2> QED
    BY <2>1, FS_Interval
<1>3. MaxTyres \in Nat
  BY TyreAssumption DEF TyreAssumption
<1> QED
  BY <1>1, <1>2, <1>3 DEF CanMake, NewIds, TyreIds

LEMMA MountedMade ==
  ASSUME NEW rows, Sound(rows), NEW a \in MountedIn(rows)
  PROVE  a \in MadeIn(rows) /\ a \in TyreIds /\ rows[a].at.pos \in Wheels
BY MadeWhere DEF MountedIn, Sound, Proper, PlacementKinds

LEMMA WheelsSubset ==
  ASSUME NEW rows, Sound(rows)
  PROVE  WheelsIn(rows) \subseteq Wheels
BY MountedMade DEF WheelsIn

LEMMA ItemsMade ==
  ASSUME NEW rows, Sound(rows), NEW s \in SetIds
  PROVE  /\ ItemsIn(rows, s) \in SUBSET MadeIn(rows)
         /\ MountedOf(rows, s) \in SUBSET MadeIn(rows)
<1>1. \A a \in ItemsIn(rows, s) : a \in MadeIn(rows)
  BY MadeWhere DEF ItemsIn
<1>2. \A a \in MountedOf(rows, s) : a \in MadeIn(rows)
  BY MountedMade DEF MountedOf
<1> QED
  BY <1>1, <1>2

(***************************************************************************)
(* Moving tyres that exist.                                                *)
(***************************************************************************)
Moved(rows, place, next) ==
    /\ Sound(next) /\ MadeIn(next) = MadeIn(rows)
    /\ \A a \in TyreIds : next[a].set = rows[a].set /\ next[a].item = rows[a].item
    /\ \A a \in DOMAIN place : next[a].at = place[a]
    /\ \A a \in TyreIds \ DOMAIN place : next[a] = rows[a]

LEMMA MoveSound ==
  ASSUME NEW rows, Sound(rows), NEW place, DOMAIN place \in SUBSET MadeIn(rows),
         \A a \in DOMAIN place : Proper(place[a]),
         NEW next, next = Placed(rows, place)
  PROVE  Moved(rows, place, next)
<1> DEFINE D == DOMAIN place
           new(a) == [rows[a] EXCEPT !.at = place[a]]
<1>1. next = [a \in TyreIds |-> IF a \in D THEN new(a) ELSE rows[a]]
  BY DEF Placed
<1>2. ASSUME NEW a \in D
      PROVE  /\ rows[a] \in Tyre /\ new(a) \in Tyre /\ new(a) # NoTyre
             /\ new(a).at = place[a] /\ new(a).set = rows[a].set /\ new(a).item = rows[a].item
  <2>1. rows[a] \in Tyre /\ place[a] \in Place
    BY SoundRow DEF Proper
  <2> QED
    BY <2>1, NoTyreApart DEF Tyre
<1>3. D \subseteq TyreIds
  BY DEF MadeIn
<1> HIDE DEF new
<1>4. \A a \in TyreIds : next[a] = IF a \in D THEN new(a) ELSE rows[a]
  BY <1>1
<1>5. MadeIn(next) = MadeIn(rows)
  <2>1. \A a \in D : rows[a] # NoTyre /\ next[a] # NoTyre
    BY <1>2, <1>3, <1>4, NoTyreApart
  <2> QED
    BY <1>4, <2>1 DEF MadeIn
<1>6. next \in [TyreIds -> Tyre \cup {NoTyre}]
  BY <1>1, <1>2 DEF Sound
<1>7. ASSUME NEW a \in MadeIn(next)
      PROVE  Proper(next[a].at)
  <2>1. a \in TyreIds /\ a \in MadeIn(rows)
    BY <1>5 DEF MadeIn
  <2> QED
    BY <1>2, <1>4, <2>1 DEF Sound
<1>8. Sound(next)
  BY <1>5, <1>6, <1>7 DEF Sound
<1> QED
  BY <1>2, <1>3, <1>4, <1>5, <1>8 DEF Moved

\* Moved off the vehicle, they leave the others as they are.
LEMMA MoveApart ==
  ASSUME NEW rows, NEW place, NEW next, Moved(rows, place, next), DOMAIN place \subseteq TyreIds,
         \A a \in DOMAIN place : place[a].kind # "on_vehicle"
  PROVE  /\ MountedIn(next) = MountedIn(rows) \ DOMAIN place
         /\ OneWheel(rows) => OneWheel(next)
         /\ OneSet(rows) => OneSet(next)
<1>1. MountedIn(next) = MountedIn(rows) \ DOMAIN place
  BY DEF Moved, MountedIn
<1>2. \A a \in MountedIn(next) : a \in MountedIn(rows) /\ next[a] = rows[a]
  BY <1>1 DEF Moved, MountedIn
<1> QED
  BY <1>1, <1>2 DEF OneWheel, OneSet

LEMMA MoveListed ==
  ASSUME NEW rows, NEW place, NEW next, Moved(rows, place, next), AllItems(rows),
         \A a \in DOMAIN place :
            place[a].kind \in {"on_vehicle", "at_supplier_hotel"} => rows[a].item
  PROVE  AllItems(next)
BY DEF Moved, AllItems

(***************************************************************************)
(* New tyres, of one set.                                                  *)
(***************************************************************************)
LEMMA MakeSound ==
  ASSUME Sound(tyres), NEW n \in Nat, CanMake(n), NEW s \in SetIds, NEW place,
         DOMAIN place = NewIds(n),
         \A a \in NewIds(n) : Proper(place[a]),
         NEW next, next = WithNew(tyres, s, place)
  PROVE  /\ Sound(next)
         /\ MountedIn(next) = MountedIn(tyres) \cup
                              {a \in NewIds(n) : place[a].kind = "on_vehicle"}
         /\ \A a \in NewIds(n) : next[a].set = s /\ next[a].at = place[a] /\ next[a].item
         /\ \A a \in TyreIds \ NewIds(n) : next[a] = tyres[a]
         /\ MadeIn(tyres) \subseteq MadeIn(next)
<1> DEFINE new(a) == [set |-> s, item |-> TRUE, at |-> place[a]]
<1>1. next = [a \in TyreIds |-> IF a \in NewIds(n) THEN new(a) ELSE tyres[a]]
  BY DEF WithNew
<1>2. /\ Made \in 0..MaxTyres /\ MadeIn(tyres) = 1..Made
      /\ NewIds(n) \subseteq TyreIds /\ NewIds(n) \cap MadeIn(tyres) = {}
  BY MadeCount
<1>3. \A a \in NewIds(n) : /\ new(a) \in Tyre /\ new(a) # NoTyre
                           /\ new(a).set = s /\ new(a).item /\ new(a).at = place[a]
  BY NoTyreApart DEF Tyre, Proper
<1> HIDE DEF new
<1>4. /\ \A a \in NewIds(n) : next[a] = new(a)
      /\ \A a \in TyreIds \ NewIds(n) : next[a] = tyres[a]
  BY <1>1, <1>2
<1>5. next \in [TyreIds -> Tyre \cup {NoTyre}]
  BY <1>1, <1>3 DEF Sound
<1>6. MadeIn(next) = MadeIn(tyres) \cup NewIds(n)
  BY <1>2, <1>3, <1>4 DEF MadeIn
<1>7. MadeIn(next) = 1..(Made + n) /\ Made + n \in 0..MaxTyres
  BY <1>2, <1>6, TyreAssumption DEF NewIds, CanMake, TyreAssumption
<1>8. MountedIn(next) = MountedIn(tyres) \cup {a \in NewIds(n) : place[a].kind = "on_vehicle"}
  <2>1. \A a \in NewIds(n) : a \notin MountedIn(tyres)
    BY <1>2, MadeWhere DEF MountedIn, PlacementKinds
  <2> QED
    BY <1>2, <1>3, <1>4, <2>1 DEF MountedIn
<1>9. ASSUME NEW a \in MadeIn(next)
      PROVE  Proper(next[a].at)
  <2>1. CASE a \in NewIds(n)
    BY <1>3, <1>4, <2>1
  <2>2. CASE a \in MadeIn(tyres) /\ a \notin NewIds(n)
    BY <1>4, <2>2 DEF Sound, MadeIn
  <2> QED
    BY <1>6, <1>9, <2>1, <2>2
<1>10. Sound(next)
  BY <1>5, <1>7, <1>9 DEF Sound
<1> QED
  BY <1>3, <1>4, <1>6, <1>8, <1>10

(***************************************************************************)
(* A new tyre on each of some wheels.                                      *)
(***************************************************************************)
LEMMA OnWheelsPlaces ==
  ASSUME Sound(tyres), NEW wheels \in SUBSET Wheels
  PROVE  /\ Cardinality(wheels) \in Nat
         /\ \E on \in [NewIds(Cardinality(wheels)) -> wheels] :
              /\ \A a, b \in NewIds(Cardinality(wheels)) : on[a] = on[b] => a = b
              /\ \A p \in wheels : \E a \in NewIds(Cardinality(wheels)) : on[a] = p
              /\ OnWheels(wheels) =
                   [a \in NewIds(Cardinality(wheels)) |-> OnWheel(on[a])]
<1> DEFINE n == Cardinality(wheels)
           injective(f) == \A a, b \in DOMAIN f : f[a] = f[b] => a = b
           on == CHOOSE f \in [NewIds(n) -> wheels] : injective(f)
<1>1. IsFiniteSet(Wheels)
  <2>1. IsFiniteSet({"rl"})
    BY FS_Singleton
  <2>2. IsFiniteSet({"rl"} \cup {"rlo"})
    BY <2>1, FS_AddElement
  <2>3. IsFiniteSet(({"rl"} \cup {"rlo"}) \cup {"rli"})
    BY <2>2, FS_AddElement
  <2>4. Wheels = ({"rl"} \cup {"rlo"}) \cup {"rli"}
    BY DEF Wheels
  <2> QED
    BY <2>3, <2>4
<1>2. IsFiniteSet(wheels) /\ n \in Nat
  BY <1>1, FS_Subset, FS_CardinalityType
<1>3. IsFiniteSet(NewIds(n)) /\ Cardinality(NewIds(n)) = n
  <2>1. Made \in Nat
    BY MadeCount
  <2> HIDE DEF n
  <2>2. /\ IsFiniteSet((Made + 1)..(Made + n))
        /\ Cardinality((Made + 1)..(Made + n)) =
             IF Made + 1 > Made + n THEN 0 ELSE (Made + n) - (Made + 1) + 1
    BY <1>2, <2>1, FS_Interval
  <2> QED
    BY <1>2, <2>1, <2>2 DEF NewIds
<1>4. \E f \in [NewIds(n) -> wheels] : injective(f)
  <2>1. ExistsBijection(NewIds(n), wheels)
    BY <1>2, <1>3, FS_SameCardinalityBij
  <2> QED
    BY <2>1 DEF ExistsBijection, Bijection, Injection, IsInjective
<1>5. on \in [NewIds(n) -> wheels] /\ injective(on)
  BY <1>4
<1>6. on \in Injection(NewIds(n), wheels)
  BY <1>5 DEF Injection, IsInjective
<1>7. on \in Surjection(NewIds(n), wheels)
  BY <1>2, <1>3, <1>6, FS_Injection
<1>8. OnWheels(wheels) = [a \in NewIds(n) |-> OnWheel(on[a])]
  BY <1>5 DEF OnWheels
<1> HIDE DEF on
<1>9. \A p \in wheels : \E a \in NewIds(n) : on[a] = p
  BY <1>7 DEF Surjection
<1> QED
  BY <1>2, <1>5, <1>8, <1>9

\* They are mounted there, and nothing else is.
LEMMA WheelsMade ==
  ASSUME Sound(tyres), NEW wheels \in SUBSET Wheels, CanMake(Cardinality(wheels)),
         NEW s \in SetIds, NEW next, next = WithNew(tyres, s, OnWheels(wheels))
  PROVE  /\ Sound(next) /\ WheelsIn(next) = WheelsIn(tyres) \cup wheels
         /\ \A a \in TyreIds :
              \/ next[a] = tyres[a]
              \/ a \in MountedIn(next) /\ next[a].set = s /\ next[a].item
         /\ \A a \in MountedIn(tyres) : next[a] = tyres[a]
         /\ MadeIn(tyres) \subseteq MadeIn(next)
         /\ \A a \in MountedIn(next) :
              \/ a \in MountedIn(tyres) /\ next[a] = tyres[a]
              \/ next[a].set = s /\ next[a].at.pos \in wheels
         /\ \A a, b \in MountedIn(next) \ MountedIn(tyres) :
              next[a].at.pos = next[b].at.pos => a = b
<1> DEFINE n == Cardinality(wheels)
           place == OnWheels(wheels)
<1>1. n \in Nat
  BY OnWheelsPlaces
<1>2. PICK on \in [NewIds(n) -> wheels] :
        /\ \A a, b \in NewIds(n) : on[a] = on[b] => a = b
        /\ \A p \in wheels : \E a \in NewIds(n) : on[a] = p
        /\ place = [a \in NewIds(n) |-> OnWheel(on[a])]
  BY OnWheelsPlaces
<1>3. /\ DOMAIN place = NewIds(n)
      /\ \A a \in NewIds(n) : /\ place[a] = OnWheel(on[a]) /\ Proper(place[a])
                              /\ place[a].kind = "on_vehicle" /\ place[a].hotel = NoHotel
                              /\ place[a].pos = on[a] /\ on[a] \in Wheels
  BY <1>2 DEF OnWheel, Place, PlacementKinds, Proper
<1>4. NewIds(n) \subseteq TyreIds /\ NewIds(n) \cap MadeIn(tyres) = {}
  BY <1>1, MadeCount
<1>5. next = WithNew(tyres, s, place)
  OBVIOUS
<1> HIDE DEF place, n
<1>6. CanMake(n)
  BY DEF n
<1>7. /\ Sound(next)
      /\ MountedIn(next) = MountedIn(tyres) \cup
                           {a \in NewIds(n) : place[a].kind = "on_vehicle"}
      /\ \A a \in NewIds(n) : next[a].set = s /\ next[a].at = place[a] /\ next[a].item
      /\ \A a \in TyreIds \ NewIds(n) : next[a] = tyres[a]
      /\ MadeIn(tyres) \subseteq MadeIn(next)
  BY <1>1, <1>3, <1>5, <1>6, MakeSound
<1>8. MountedIn(next) = MountedIn(tyres) \cup NewIds(n)
  BY <1>3, <1>7
<1>9. \A a \in MountedIn(tyres) : a \in TyreIds /\ a \notin NewIds(n) /\ next[a] = tyres[a]
  BY <1>4, <1>7, MadeWhere DEF MountedIn, PlacementKinds
<1>10. \A a \in NewIds(n) : next[a].at.pos = on[a]
  BY <1>3, <1>7
<1>11. WheelsIn(next) = WheelsIn(tyres) \cup wheels
  <2>1. ASSUME NEW p \in WheelsIn(next)
        PROVE  p \in WheelsIn(tyres) \cup wheels
    <3>1. PICK a \in MountedIn(next) : p = next[a].at.pos
      BY <2>1 DEF WheelsIn
    <3> QED
      BY <1>2, <1>8, <1>9, <1>10, <3>1 DEF WheelsIn
  <2>2. ASSUME NEW p \in WheelsIn(tyres)
        PROVE  p \in WheelsIn(next)
    <3>1. PICK a \in MountedIn(tyres) : p = tyres[a].at.pos
      BY <2>2 DEF WheelsIn
    <3> QED
      BY <1>8, <1>9, <3>1 DEF WheelsIn
  <2>3. ASSUME NEW p \in wheels
        PROVE  p \in WheelsIn(next)
    <3>1. PICK a \in NewIds(n) : on[a] = p
      BY <1>2, <2>3
    <3> QED
      BY <1>8, <1>10, <3>1 DEF WheelsIn
  <2> QED
    BY <2>1, <2>2, <2>3
<1>12. ASSUME NEW a \in TyreIds
       PROVE  \/ next[a] = tyres[a]
              \/ a \in MountedIn(next) /\ next[a].set = s /\ next[a].item
  <2>1. CASE a \in NewIds(n)
    BY <1>7, <1>8, <2>1
  <2>2. CASE a \notin NewIds(n)
    BY <1>7, <2>2
  <2> QED
    BY <2>1, <2>2
<1>13. ASSUME NEW a \in MountedIn(next)
       PROVE  \/ a \in MountedIn(tyres) /\ next[a] = tyres[a]
              \/ next[a].set = s /\ next[a].at.pos \in wheels
  <2>1. CASE a \in MountedIn(tyres)
    BY <1>9, <2>1
  <2>2. CASE a \in NewIds(n)
    BY <1>2, <1>7, <1>10, <2>2
  <2> QED
    BY <1>8, <2>1, <2>2
<1>14. ASSUME NEW a \in MountedIn(next) \ MountedIn(tyres),
              NEW b \in MountedIn(next) \ MountedIn(tyres), next[a].at.pos = next[b].at.pos
       PROVE  a = b
  BY <1>2, <1>8, <1>10, <1>14
<1> QED
  BY <1>7, <1>9, <1>11, <1>12, <1>13, <1>14

\* What they keep: one tyre on a wheel when the wheels are bare, one set when it is
\* theirs, and the items.
LEMMA WheelsApart ==
  ASSUME Sound(tyres), NEW wheels \in SUBSET Wheels, CanMake(Cardinality(wheels)),
         NEW s \in SetIds, NEW next, next = WithNew(tyres, s, OnWheels(wheels))
  PROVE  /\ OneWheel(tyres) /\ wheels \cap WheelsIn(tyres) = {} => OneWheel(next)
         /\ (\A a \in MountedIn(tyres) : tyres[a].set = s) => OneSet(next)
         /\ AllItems(tyres) => AllItems(next)
         /\ \A st : Covered(tyres, st) => Covered(next, st)
<1>1. /\ \A a \in MountedIn(next) :
           \/ a \in MountedIn(tyres) /\ next[a] = tyres[a]
           \/ next[a].set = s /\ next[a].at.pos \in wheels
      /\ \A a, b \in MountedIn(next) \ MountedIn(tyres) :
           next[a].at.pos = next[b].at.pos => a = b
      /\ \A a \in MountedIn(tyres) : next[a] = tyres[a]
      /\ \A a \in TyreIds : \/ next[a] = tyres[a]
                            \/ a \in MountedIn(next) /\ next[a].set = s /\ next[a].item
  BY WheelsMade
<1>2. (\A a \in MountedIn(tyres) : tyres[a].set = s) => OneSet(next)
  BY <1>1 DEF OneSet
<1>3. ASSUME OneWheel(tyres), wheels \cap WheelsIn(tyres) = {},
             NEW a \in MountedIn(next), NEW b \in MountedIn(next),
             next[a].at.pos = next[b].at.pos
      PROVE  a = b
  <2>1. \A c \in MountedIn(tyres) : tyres[c].at.pos \notin wheels
    BY <1>3 DEF WheelsIn
  <2>2. CASE a \in MountedIn(tyres) /\ b \in MountedIn(tyres)
    BY <1>1, <1>3, <2>2 DEF OneWheel
  <2>3. CASE a \in MountedIn(tyres) /\ b \notin MountedIn(tyres)
    BY <1>1, <1>3, <2>1, <2>3
  <2>4. CASE a \notin MountedIn(tyres) /\ b \in MountedIn(tyres)
    BY <1>1, <1>3, <2>1, <2>4
  <2>5. CASE a \notin MountedIn(tyres) /\ b \notin MountedIn(tyres)
    BY <1>1, <1>3, <2>5
  <2> QED
    BY <2>2, <2>3, <2>4, <2>5
<1>4. OneWheel(tyres) /\ wheels \cap WheelsIn(tyres) = {} => OneWheel(next)
  BY <1>3 DEF OneWheel
<1>5. \A a \in TyreIds : next[a] = tyres[a] \/ (next[a].at.kind = "on_vehicle" /\ next[a].item)
  BY <1>1 DEF MountedIn
<1>6. AllItems(tyres) => AllItems(next)
  BY <1>5 DEF AllItems
<1>7. \A st : Covered(tyres, st) => Covered(next, st)
  BY <1>5 DEF Covered
<1> QED
  BY <1>2, <1>4, <1>6, <1>7

(***************************************************************************)
(* The replacement of a tyre on its wheel, in a close of a work order that *)
(* leaves the others as rows has them and has seen them as seen has them.  *)
(***************************************************************************)
LEMMA OutcomeSound ==
  ASSUME Sound(tyres), NEW rows, Sound(rows), MadeIn(rows) = MadeIn(tyres),
         NEW seen, Sound(seen), MadeIn(seen) \subseteq MadeIn(tyres), Outcome(rows, seen)
  PROVE  /\ Sound(tyres') /\ MadeIn(tyres) \subseteq MadeIn(tyres')
         /\ seen = rows => /\ OneWheel(rows) => OneWheel(tyres')
                           /\ OneSet(rows) => OneSet(tyres')
                           /\ AllItems(rows) => AllItems(tyres')
                           /\ \A st : Covered(rows, st) => Covered(tyres', st)
<1>1. CASE tyres' = rows
  BY <1>1
<1>2. ASSUME NEW old \in MountedIn(seen), NEW disposal \in Disposals, CanMake(1),
             tyres' = [rows EXCEPT
               ![old].at = At(disposal, NoHotel), ![old].item = FALSE,
               ![Made + 1] = [set |-> seen[old].set, item |-> TRUE, at |-> seen[old].at]]
      PROVE  /\ Sound(tyres') /\ MadeIn(tyres) \subseteq MadeIn(tyres')
             /\ seen = rows => /\ OneWheel(rows) => OneWheel(tyres')
                               /\ OneSet(rows) => OneSet(tyres')
                               /\ AllItems(rows) => AllItems(tyres')
                               /\ \A st : Covered(rows, st) => Covered(tyres', st)
  <2> DEFINE new == Made + 1
             gone == [set |-> rows[old].set, item |-> FALSE, at |-> At(disposal, NoHotel)]
             fresh == [set |-> seen[old].set, item |-> TRUE, at |-> seen[old].at]
  <2>1. /\ Made \in 0..MaxTyres /\ MadeIn(rows) = 1..Made /\ new \in TyreIds
        /\ new \notin MadeIn(rows)
    BY <1>2, MadeCount, TyreAssumption DEF CanMake, TyreIds, TyreAssumption
  <2>2. /\ old \in MadeIn(rows) /\ old \in TyreIds /\ old # new /\ rows[old] \in Tyre
        /\ seen[old] \in Tyre /\ Proper(seen[old].at) /\ seen[old].at.kind = "on_vehicle"
    <3>1. old \in MadeIn(seen) /\ seen[old].at.kind = "on_vehicle"
      BY MountedMade DEF MountedIn
    <3> QED
      BY <2>1, <3>1, SoundRow DEF Sound
  <2>3. disposal \in {"scrap", "quarantine"}
    BY TyreAssumption DEF TyreAssumption
  <2>4. /\ Proper(At(disposal, NoHotel)) /\ At(disposal, NoHotel) \in Place
        /\ At(disposal, NoHotel).kind = disposal
    BY <2>3 DEF At, Place, PlacementKinds, Proper
  <2>5. /\ gone \in Tyre /\ fresh \in Tyre /\ gone # NoTyre /\ fresh # NoTyre
    <3>1. rows[old].set \in SetIds /\ seen[old].set \in SetIds /\ seen[old].at \in Place
      BY <2>2 DEF Tyre
    <3>2. gone \in Tyre /\ fresh \in Tyre
      BY <2>4, <3>1 DEF Tyre
    <3> QED
      BY <3>2, NoTyreApart
  <2>6. /\ tyres'[old] = gone /\ tyres'[new] = fresh
        /\ \A a \in TyreIds \ {old, new} : tyres'[a] = rows[a]
    BY <1>2, <2>1, <2>2 DEF Sound, Tyre
  <2>7. DOMAIN tyres' = TyreIds /\ tyres' = [a \in TyreIds |-> tyres'[a]]
    BY <1>2 DEF Sound
  <2>8. /\ gone.set = rows[old].set /\ gone.at.kind = disposal /\ Proper(gone.at)
        /\ fresh.set = seen[old].set /\ fresh.item /\ fresh.at = seen[old].at
    BY <2>4
  <2> HIDE DEF gone, fresh
  <2>9. tyres' \in [TyreIds -> Tyre \cup {NoTyre}]
    BY <2>5, <2>6, <2>7 DEF Sound
  <2>10. MadeIn(tyres') = MadeIn(rows) \cup {new}
    BY <2>1, <2>2, <2>5, <2>6 DEF MadeIn
  <2>11. MadeIn(tyres') = 1..(Made + 1) /\ Made + 1 \in 0..MaxTyres
    <3>1. Made \in Nat /\ MaxTyres \in Nat
      BY <2>1, TyreAssumption DEF TyreAssumption
    <3>2. (1..Made) \cup {Made + 1} = 1..(Made + 1)
      BY <3>1
    <3>3. Made + 1 \in 0..MaxTyres
      BY <1>2, <3>1 DEF CanMake
    <3> QED
      BY <2>1, <2>10, <3>2, <3>3
  <2>12. Sound(tyres')
    <3>1. ASSUME NEW a \in MadeIn(tyres')
          PROVE  Proper(tyres'[a].at)
      <4>1. CASE a = old
        BY <2>6, <2>8, <4>1
      <4>2. CASE a = new
        BY <2>2, <2>6, <2>8, <4>2
      <4>3. CASE a \notin {old, new}
        BY <2>6, <2>10, <3>1, <4>3 DEF Sound, MadeIn
      <4> QED
        BY <4>1, <4>2, <4>3
    <3> QED
      BY <2>9, <2>11, <3>1 DEF Sound
  <2>13. ASSUME seen = rows
         PROVE  /\ OneWheel(rows) => OneWheel(tyres')
                /\ OneSet(rows) => OneSet(tyres')
                /\ AllItems(rows) => AllItems(tyres')
                /\ \A st : Covered(rows, st) => Covered(tyres', st)
    <3>1. old \in MountedIn(rows) /\ MountedIn(tyres') = (MountedIn(rows) \ {old}) \cup {new}
      BY <2>1, <2>2, <2>3, <2>6, <2>8, <2>13 DEF MountedIn
    <3>2. \A a \in MountedIn(tyres') : a # new => a \in MountedIn(rows) \ {old} /\
            tyres'[a] = rows[a]
      BY <2>6, <3>1 DEF MountedIn
    <3>3. tyres'[new].set = rows[old].set /\ tyres'[new].at.pos = rows[old].at.pos
      BY <2>6, <2>8, <2>13
    <3>4. OneWheel(rows) => OneWheel(tyres')
      BY <3>1, <3>2, <3>3 DEF OneWheel
    <3>5. OneSet(rows) => OneSet(tyres')
      BY <3>1, <3>2, <3>3 DEF OneSet
    <3>6. tyres'[old].at.kind \in {"scrap", "quarantine"} /\
            tyres'[new].item /\ tyres'[new].at.kind = "on_vehicle"
      BY <2>2, <2>3, <2>6, <2>8
    <3>7. AllItems(rows) => AllItems(tyres')
      BY <2>6, <3>6 DEF AllItems
    <3>8. \A st : Covered(rows, st) => Covered(tyres', st)
      BY <2>6, <3>6 DEF Covered
    <3> QED
      BY <3>4, <3>5, <3>7, <3>8
  <2> QED
    BY <2>10, <2>12, <2>13
<1> QED
  BY <1>1, <1>2 DEF Outcome

(***************************************************************************)
(* The invariant.  What the operations keep whatever overlaps them, and    *)
(* what they keep unless some kinds of them have overlapped.               *)
(***************************************************************************)
\* The tyres of the rows before the last commit, and those that a scrapSet in flight
\* has read, exist.
Counted ==
    /\ sets \in [SetIds -> TyreSet \cup {NoSet}]
    /\ stays \in [SetIds -> Hotels \cup {NoHotel}]
    /\ sheet \subseteq Wheels
    /\ layout \in DOMAIN LayoutPositions
    /\ closes \in [TyreOrders -> 0..1]
    /\ closing \in [TyreOrders -> 0..MaxClosing]
    /\ scrapping \in [set : SetIds \cup {0}, items : SUBSET MadeIn(tyres)]
    /\ drifted \in BOOLEAN
Remembered ==
    /\ past \in Rows /\ Sound(past.tyres) /\ MadeIn(past.tyres) \subseteq MadeIn(tyres)
    /\ lapped \subseteq {"wheels", "hotel", "closes"}

SheetShown ==
    /\ WheelsIn(tyres) \subseteq sheet
    /\ ~drifted => sheet = WheelsIn(tyres)

TyreInv ==
    /\ Counted /\ Remembered
    /\ Sound(tyres) /\ OneWheel(tyres)
    /\ lapped \cap {"wheels", "closes"} = {} => OneSet(tyres)
    /\ lapped \cap {"hotel", "closes"} = {} => AllItems(tyres) /\ Covered(tyres, stays)
    /\ lapped = {} => SheetShown

\* What an operation does to it before its commit.
Carried(operation, k) ==
    /\ Sound(tyres') /\ MadeIn(tyres) \subseteq MadeIn(tyres') /\ Counted'
    /\ k = 0 => OneWheel(tyres')
    /\ k = 0 \/ operation \notin {"wheels", "closes"} => (OneSet(tyres) => OneSet(tyres'))
    /\ k = 0 \/ operation \notin {"hotel", "closes"} =>
         (AllItems(tyres) /\ Covered(tyres, stays) =>
            AllItems(tyres') /\ Covered(tyres', stays'))
    /\ k = 0 => (SheetShown => SheetShown')

LEMMA CommitKept ==
  ASSUME TyreInv, NEW k \in Queries,
         NEW operation \in {"wheels", "hotel", "closes", "sets"},
         operation = "sets" => k = 0, Carried(operation, k), Commit(operation, k)
  PROVE  TyreInv'
<1>1. /\ lapped' = IF k = 0 THEN lapped ELSE lapped \cup {operation}
      /\ past' \in {Now, Now'} /\ k \in 0..7
  BY DEF Commit, Queries
<1>2. lapped \subseteq lapped' /\ (k # 0 => operation \in lapped')
  BY <1>1
<1>3. OneWheel(tyres')
  <2>1. CASE k = 0
    BY <2>1 DEF Carried
  <2>2. CASE k # 0
    BY <1>1, <2>2 DEF Commit, OneTyrePerWheel, OneWheel
  <2> QED
    BY <2>1, <2>2
<1>4. lapped' \subseteq {"wheels", "hotel", "closes"}
  BY <1>1 DEF TyreInv, Remembered
<1>5. Remembered'
  <2>1. /\ tyres \in [TyreIds -> Tyre \cup {NoTyre}] /\ Sound(tyres)
        /\ tyres' \in [TyreIds -> Tyre \cup {NoTyre}] /\ Sound(tyres')
        /\ MadeIn(tyres) \subseteq MadeIn(tyres') /\ Counted /\ Counted'
    BY DEF Carried, Sound, TyreInv
  <2>2. Now \in Rows /\ Now.tyres = tyres
    BY <2>1 DEF Now, Rows, Counted
  <2>3. Now' \in Rows /\ Now'.tyres = tyres'
    BY <2>1 DEF Now, Rows, Counted
  <2> HIDE DEF Now
  <2> QED
    BY <1>1, <1>4, <2>1, <2>2, <2>3 DEF Remembered
<1>6. lapped' \cap {"wheels", "closes"} = {} => OneSet(tyres')
  BY <1>2 DEF TyreInv, Carried
<1>7. lapped' \cap {"hotel", "closes"} = {} => AllItems(tyres') /\ Covered(tyres', stays')
  BY <1>2 DEF TyreInv, Carried
<1>8. lapped' = {} => SheetShown'
  BY <1>2 DEF TyreInv, Carried
<1> QED
  BY <1>3, <1>5, <1>6, <1>7, <1>8 DEF TyreInv, Carried

\* What a query has seen.
LEMMA SeenRows ==
  ASSUME TyreInv, NEW i, NEW k
  PROVE  /\ Seen(i, k) \in Rows /\ Sound(Seen(i, k).tyres)
         /\ MadeIn(Seen(i, k).tyres) \subseteq MadeIn(tyres)
<1>1. Now \in Rows /\ Now.tyres = tyres
  BY DEF TyreInv, Counted, Sound, Now, Rows
<1> QED
  BY <1>1 DEF TyreInv, Remembered, Seen

LEMMA SeenNow ==
  ASSUME NEW i \in Nat \ {0}
  PROVE  Seen(i, 0) = Now
BY DEF Seen

LEMMA NowRows ==
  /\ Now.tyres = tyres /\ Now.sets = sets /\ Now.stays = stays /\ Now.sheet = sheet
  /\ Now.layout = layout
BY DEF Now

\* A later query sees at least the tyres an earlier one has seen.
LEMMA SeenLater ==
  ASSUME TyreInv, NEW k \in Queries, NEW i \in Nat, NEW j \in Nat, i =< j
  PROVE  MadeIn(Seen(i, k).tyres) \subseteq MadeIn(Seen(j, k).tyres)
<1>1. MadeIn(past.tyres) \subseteq MadeIn(tyres) /\ Now.tyres = tyres
  BY NowRows DEF TyreInv, Remembered
<1> HIDE DEF Now
<1> QED
  BY <1>1 DEF Seen, Queries

(***************************************************************************)
(* The sheet after a step.                                                 *)
(***************************************************************************)
LEMMA ProjectSheet ==
  ASSUME TyreInv, Sound(tyres'), NEW moved, NEW i \in Nat \ {0}, NEW k \in Queries,
         Project(moved, i, k)
  PROVE  sheet' \subseteq Wheels /\ drifted' \in BOOLEAN /\ (k = 0 => SheetShown')
<1> DEFINE seen == [a \in TyreIds |-> IF a \in moved \/ tyres'[a] # tyres[a]
                                      THEN tyres'[a] ELSE Seen(i, k).tyres[a]]
           found == Seen(i + 1, k).sheet
<1>1. sheet' = WheelsIn(seen) \cup (sheet \ found) /\ drifted' = FALSE
  BY DEF Project
<1>2. Sound(Seen(i, k).tyres) /\ sheet \subseteq Wheels
  BY SeenRows DEF TyreInv, Counted
<1>3. \A a \in TyreIds : seen[a] = tyres'[a] \/ seen[a] = Seen(i, k).tyres[a]
  OBVIOUS
<1>4. ASSUME k = 0
      PROVE  seen = tyres' /\ found = sheet
  <2>1. Seen(i, k).tyres = tyres /\ Seen(i + 1, k).sheet = sheet
    BY <1>4, SeenNow, NowRows
  <2>2. \A a \in TyreIds : seen[a] = tyres'[a]
    BY <2>1
  <2>3. tyres' = [a \in TyreIds |-> tyres'[a]]
    BY DEF Sound
  <2> QED
    BY <2>1, <2>2, <2>3
<1> HIDE DEF seen, found
<1>5. WheelsIn(seen) \subseteq Wheels
  <2>1. ASSUME NEW a \in MountedIn(seen)
        PROVE  seen[a].at.pos \in Wheels
    <3>1. CASE seen[a] = tyres'[a]
      <4>1. a \in MountedIn(tyres')
        BY <3>1 DEF MountedIn
      <4> QED
        BY <3>1, <4>1, MountedMade
    <3>2. CASE seen[a] = Seen(i, k).tyres[a]
      <4>1. a \in MountedIn(Seen(i, k).tyres)
        BY <3>2 DEF MountedIn
      <4> QED
        BY <1>2, <3>2, <4>1, MountedMade
    <3> QED
      BY <1>3, <3>1, <3>2 DEF MountedIn
  <2> QED
    BY <2>1 DEF WheelsIn
<1>6. k = 0 => sheet' = WheelsIn(tyres')
  BY <1>1, <1>4
<1> QED
  BY <1>1, <1>2, <1>5, <1>6 DEF SheetShown

\* A step that takes tyres to a place off the vehicle without the projection.
LEMMA NoProjectSheet ==
  ASSUME sheet \subseteq Wheels, drifted \in BOOLEAN, NEW moved, NoProject(moved),
         MountedIn(tyres') = MountedIn(tyres) \ moved,
         \A a \in TyreIds \ moved : tyres'[a] = tyres[a]
  PROVE  sheet' \subseteq Wheels /\ drifted' \in BOOLEAN /\ (SheetShown => SheetShown')
<1>1. sheet' = sheet /\ drifted' = (drifted \/ moved \cap MountedIn(tyres) # {})
  BY DEF NoProject
<1>2. WheelsIn(tyres') \subseteq WheelsIn(tyres)
  BY DEF WheelsIn, MountedIn
<1>3. moved \cap MountedIn(tyres) = {} => WheelsIn(tyres') = WheelsIn(tyres)
  BY DEF WheelsIn, MountedIn
<1>4. drifted' \in BOOLEAN
  BY <1>1
<1>5. SheetShown => WheelsIn(tyres') \subseteq sheet' /\ (~drifted' => sheet' = WheelsIn(tyres'))
  BY <1>1, <1>2, <1>3 DEF SheetShown
<1> QED
  BY <1>1, <1>4, <1>5 DEF SheetShown

LEMMA UsedCount == MaxSets \in Nat /\ Used \in 0..MaxSets
<1>1. MaxSets \in Nat
  BY TyreAssumption DEF TyreAssumption
<1>2. IsFiniteSet(SetIds) /\ Cardinality(SetIds) = MaxSets
  BY <1>1, FS_Interval DEF SetIds
<1>3. /\ IsFiniteSet({s \in SetIds : sets[s] # NoSet})
      /\ Cardinality({s \in SetIds : sets[s] # NoSet}) =< MaxSets
  BY <1>2, FS_Subset
<1>4. Used \in Nat
  BY <1>3, FS_CardinalityType DEF Used
<1> QED
  BY <1>1, <1>3, <1>4 DEF Used

LEMMA AddSetType ==
  ASSUME sets \in [SetIds -> TyreSet \cup {NoSet}], NEW mounted \in BOOLEAN, AddSet(mounted)
  PROVE  Used + 1 \in SetIds /\ sets' \in [SetIds -> TyreSet \cup {NoSet}]
<1>1. Used + 1 \in SetIds
  BY UsedCount DEF AddSet, SetIds
<1>2. [status |-> "open", mounted |-> mounted] \in TyreSet
  BY DEF TyreSet
<1> QED
  BY <1>1, <1>2 DEF AddSet

(***************************************************************************)
(* The steps that give wheels of the sheet a tyre.                         *)
(***************************************************************************)
LEMMA MountNewKept ==
  ASSUME TyreInv, NEW wheels \in SUBSET Wheels, NEW i \in Nat \ {0}, NEW k \in Queries,
         MountNew(wheels, i, k), layout' \in DOMAIN LayoutPositions,
         UNCHANGED <<stays, closes, closing, scrapping, drifted>>
  PROVE  Carried("wheels", k)
<1> DEFINE bare == wheels \ WheelsIn(Seen(i, k).tyres)
<1>1. bare \in SUBSET Wheels /\ Sound(tyres) /\ bare \subseteq wheels
  BY DEF TyreInv
<1>2. k = 0 => bare \cap WheelsIn(tyres) = {} /\ wheels \subseteq WheelsIn(tyres) \cup bare
  BY SeenNow, NowRows
<1>3. /\ sheet' = sheet \cup wheels
      /\ \/ UNCHANGED <<tyres, sets>> /\ bare = {}
         \/ \E s \in SetIds : /\ CanMake(Cardinality(bare)) /\ MountedSet(s, i + 1, k)
                              /\ tyres' = WithNew(tyres, s, OnWheels(bare))
  BY DEF MountNew
<1> HIDE DEF bare
<1>4. sheet' \subseteq Wheels
  BY <1>3 DEF TyreInv, Counted
<1>5. CASE UNCHANGED <<tyres, sets>> /\ bare = {}
  <2>1. Counted'
    BY <1>4, <1>5 DEF TyreInv, Counted, MadeIn
  <2>2. k = 0 => (SheetShown => SheetShown')
    BY <1>2, <1>3, <1>5 DEF SheetShown
  <2> QED
    BY <1>1, <1>5, <2>1, <2>2 DEF TyreInv, Carried
<1>6. ASSUME NEW s \in SetIds, CanMake(Cardinality(bare)), MountedSet(s, i + 1, k),
             tyres' = WithNew(tyres, s, OnWheels(bare))
      PROVE  Carried("wheels", k)
  <2>1. /\ Sound(tyres') /\ WheelsIn(tyres') = WheelsIn(tyres) \cup bare
        /\ MadeIn(tyres) \subseteq MadeIn(tyres')
    BY <1>1, <1>6, WheelsMade
  <2>2. /\ OneWheel(tyres) /\ bare \cap WheelsIn(tyres) = {} => OneWheel(tyres')
        /\ (\A a \in MountedIn(tyres) : tyres[a].set = s) => OneSet(tyres')
        /\ AllItems(tyres) => AllItems(tyres')
        /\ \A st : Covered(tyres, st) => Covered(tyres', st)
    BY <1>1, <1>6, WheelsApart
  <2>3. k = 0 /\ OneSet(tyres) => \A a \in MountedIn(tyres) : tyres[a].set = s
    <3>1. k = 0 => Seen(i + 1, k).tyres = tyres
      BY SeenNow, NowRows
    <3> QED
      BY <1>6, <3>1 DEF MountedSet, OneSet
  <2>4. sets' \in [SetIds -> TyreSet \cup {NoSet}]
    BY <1>6, AddSetType DEF MountedSet, TyreInv, Counted
  <2>5. Counted'
    BY <1>4, <2>1, <2>4 DEF Counted, TyreInv
  <2>6. k = 0 => (SheetShown => SheetShown')
    BY <1>1, <1>2, <1>3, <2>1 DEF SheetShown
  <2> QED
    BY <1>2, <2>1, <2>2, <2>3, <2>5, <2>6 DEF TyreInv, Carried
<1> QED
  BY <1>3, <1>5, <1>6

LEMMA BootstrapKept ==
  ASSUME TyreInv, NEW k \in Queries, BootstrapMountedSet(k)
  PROVE  Carried("wheels", k)
<1> DEFINE rows == Seen(4, k).sheet
           s == Used + 1
<1>1. rows \in SUBSET Wheels /\ Sound(tyres)
  BY SeenRows DEF Rows, TyreInv
<1>2. CanMake(Cardinality(rows)) /\ tyres' = WithNew(tyres, s, OnWheels(rows))
  BY DEF BootstrapMountedSet
<1>3. s \in SetIds /\ sets' \in [SetIds -> TyreSet \cup {NoSet}]
  BY AddSetType DEF BootstrapMountedSet, TyreInv, Counted
<1>4. k = 0 => MountedIn(tyres) = {} /\ rows = sheet
  BY SeenNow, NowRows DEF BootstrapMountedSet
<1> HIDE DEF rows, s
<1>5. /\ Sound(tyres') /\ WheelsIn(tyres') = WheelsIn(tyres) \cup rows
      /\ MadeIn(tyres) \subseteq MadeIn(tyres')
  BY <1>1, <1>2, <1>3, WheelsMade
<1>6. /\ OneWheel(tyres) /\ rows \cap WheelsIn(tyres) = {} => OneWheel(tyres')
      /\ (\A a \in MountedIn(tyres) : tyres[a].set = s) => OneSet(tyres')
      /\ AllItems(tyres) => AllItems(tyres')
      /\ \A st : Covered(tyres, st) => Covered(tyres', st)
  BY <1>1, <1>2, <1>3, WheelsApart
<1>7. k = 0 => WheelsIn(tyres) = {}
  BY <1>4 DEF WheelsIn
<1>8. Counted'
  BY <1>3, <1>5 DEF Counted, TyreInv, BootstrapMountedSet
<1>9. k = 0 => SheetShown'
  BY <1>4, <1>5, <1>7 DEF SheetShown, BootstrapMountedSet
<1>10. UNCHANGED stays
  BY DEF BootstrapMountedSet
<1> QED
  BY <1>4, <1>5, <1>6, <1>7, <1>8, <1>9, <1>10 DEF TyreInv, Carried

LEMMA CreateSetKept ==
  ASSUME TyreInv, NEW k \in Queries, CreateSet(k)
  PROVE  Carried("wheels", k)
<1>1. Used + 1 \in SetIds /\ sets' \in [SetIds -> TyreSet \cup {NoSet}]
  BY AddSetType DEF CreateSet, TyreInv, Counted
<1>2. PICK seed \in SUBSET Wheels :
        /\ CanMake(Cardinality(seed))
        /\ tyres' = WithNew(tyres, Used + 1,
                      [a \in NewIds(Cardinality(seed)) |-> At("at_client", NoHotel)])
  <2>1. WheelsIn(Seen(1, k).tyres) \subseteq Wheels /\ Seen(2, k).sheet \subseteq Wheels
    BY SeenRows, WheelsSubset DEF Rows
  <2> QED
    BY <2>1 DEF CreateSet
<1>3. Cardinality(seed) \in Nat
  BY OnWheelsPlaces DEF TyreInv
<1> DEFINE n == Cardinality(seed)
           place == [a \in NewIds(n) |-> At("at_client", NoHotel)]
<1>4. /\ DOMAIN place = NewIds(n)
      /\ \A a \in NewIds(n) : Proper(place[a]) /\ place[a].kind = "at_client"
  BY DEF At, Place, PlacementKinds, Proper
<1>5. tyres' = WithNew(tyres, Used + 1, place) /\ CanMake(n) /\ n \in Nat /\ Sound(tyres)
  BY <1>2, <1>3 DEF TyreInv
<1> HIDE DEF n, place
<1>6. /\ Sound(tyres') /\ MadeIn(tyres) \subseteq MadeIn(tyres')
      /\ MountedIn(tyres') = MountedIn(tyres) \cup
                             {a \in NewIds(n) : place[a].kind = "on_vehicle"}
      /\ \A a \in NewIds(n) : tyres'[a].set = Used + 1 /\ tyres'[a].at = place[a]
      /\ \A a \in TyreIds \ NewIds(n) : tyres'[a] = tyres[a]
  BY <1>1, <1>4, <1>5, MakeSound
<1>7. MountedIn(tyres') = MountedIn(tyres)
  BY <1>4, <1>6
<1>8. \A a \in MountedIn(tyres) : tyres'[a] = tyres[a]
  <2>1. ASSUME NEW a \in MountedIn(tyres)
        PROVE  a \in TyreIds \ NewIds(n)
    BY <1>4, <1>6, <1>7 DEF MountedIn
  <2> QED
    BY <1>6, <2>1
<1>9. OneWheel(tyres') /\ (OneSet(tyres) => OneSet(tyres'))
  BY <1>7, <1>8 DEF OneWheel, OneSet, TyreInv
<1>10. ASSUME NEW a \in TyreIds
       PROVE  tyres'[a] = tyres[a] \/ tyres'[a].at.kind = "at_client"
  BY <1>4, <1>6
<1>11. AllItems(tyres) => AllItems(tyres')
  BY <1>10 DEF AllItems
<1>12. Covered(tyres, stays) => Covered(tyres', stays')
  BY <1>10 DEF Covered, CreateSet
<1>13. Counted'
  BY <1>1, <1>6 DEF Counted, TyreInv, CreateSet
<1>14. SheetShown => SheetShown'
  <2>1. WheelsIn(tyres') = WheelsIn(tyres)
    BY <1>7, <1>8 DEF WheelsIn
  <2> QED
    BY <2>1 DEF SheetShown, CreateSet
<1> QED
  BY <1>6, <1>9, <1>11, <1>12, <1>13, <1>14 DEF Carried

(***************************************************************************)
(* The steps that take tyres off the vehicle without a close.              *)
(***************************************************************************)
LEMMA OffVehicle ==
  ASSUME TyreInv, NEW D \in SUBSET MadeIn(tyres), NEW q, Proper(q), q.kind # "on_vehicle",
         tyres' = Placed(tyres, [a \in D |-> q])
  PROVE  /\ Sound(tyres') /\ MadeIn(tyres') = MadeIn(tyres)
         /\ MountedIn(tyres') = MountedIn(tyres) \ D
         /\ \A a \in TyreIds : tyres'[a].set = tyres[a].set /\ tyres'[a].item = tyres[a].item
         /\ \A a \in D : tyres'[a].at = q
         /\ \A a \in TyreIds \ D : tyres'[a] = tyres[a]
         /\ OneWheel(tyres') /\ (OneSet(tyres) => OneSet(tyres'))
         /\ (q.kind = "at_supplier_hotel" => \A a \in D : tyres[a].item) =>
              (AllItems(tyres) => AllItems(tyres'))
<1> DEFINE place == [a \in D |-> q]
<1>1. DOMAIN place = D /\ \A a \in D : place[a] = q
  OBVIOUS
<1>2. tyres' = Placed(tyres, place) /\ Sound(tyres) /\ OneWheel(tyres) /\ D \subseteq TyreIds
  BY DEF TyreInv, MadeIn
<1> HIDE DEF place
<1>3. Moved(tyres, place, tyres')
  BY <1>1, <1>2, MoveSound
<1>4. /\ MountedIn(tyres') = MountedIn(tyres) \ D
      /\ OneWheel(tyres') /\ (OneSet(tyres) => OneSet(tyres'))
  BY <1>1, <1>2, <1>3, MoveApart
<1>5. ASSUME q.kind = "at_supplier_hotel" => \A a \in D : tyres[a].item, AllItems(tyres)
      PROVE  AllItems(tyres')
  BY <1>1, <1>3, <1>5, MoveListed
<1> QED
  BY <1>1, <1>3, <1>4, <1>5 DEF Moved

LEMMA ClearKept ==
  ASSUME TyreInv, NEW k \in Queries, NEW p \in Wheels, ClearPosition(p, k)
  PROVE  Carried("wheels", k)
<1> DEFINE seen == Seen(1, k).tyres
           D == {a \in MountedIn(seen) : seen[a].at.pos = p}
           q == At("at_client", NoHotel)
           found == Seen(2, k).sheet
<1>1. D \in SUBSET MadeIn(tyres)
  <2>1. Sound(seen) /\ MadeIn(seen) \subseteq MadeIn(tyres)
    BY SeenRows
  <2> HIDE DEF seen
  <2> QED
    BY <2>1, MountedMade
<1>2. Proper(q) /\ q.kind = "at_client"
  BY DEF Proper, At, Place, PlacementKinds
<1>3. /\ tyres' = Placed(tyres, [a \in D |-> q]) /\ sheet' = sheet \ (found \cap {p})
      /\ UNCHANGED <<sets, stays, layout, closes, closing, scrapping, drifted>>
  BY DEF ClearPosition
<1>4. k = 0 => found = sheet /\ D = {a \in MountedIn(tyres) : tyres[a].at.pos = p}
  BY SeenNow, NowRows
<1> HIDE DEF D, q, found, seen
<1>5. /\ Sound(tyres') /\ MadeIn(tyres') = MadeIn(tyres)
      /\ MountedIn(tyres') = MountedIn(tyres) \ D
      /\ \A a \in D : tyres'[a].at = q
      /\ \A a \in TyreIds \ D : tyres'[a] = tyres[a]
      /\ OneWheel(tyres') /\ (OneSet(tyres) => OneSet(tyres'))
      /\ AllItems(tyres) => AllItems(tyres')
  BY <1>1, <1>2, <1>3, OffVehicle
<1>6. Covered(tyres, stays) => Covered(tyres', stays')
  BY <1>2, <1>3, <1>5 DEF Covered
<1>7. Counted'
  BY <1>3, <1>5 DEF Counted, TyreInv
<1>8. ASSUME k = 0, SheetShown
      PROVE  SheetShown'
  <2>1. \A a \in MountedIn(tyres') : /\ a \in MountedIn(tyres) /\ tyres'[a] = tyres[a]
                                     /\ tyres[a].at.pos # p
    BY <1>4, <1>5, <1>8 DEF MountedIn
  <2>2. \A a \in MountedIn(tyres) : tyres[a].at.pos # p => a \in MountedIn(tyres') /\
          tyres'[a] = tyres[a]
    BY <1>4, <1>5, <1>8 DEF MountedIn
  <2>3. WheelsIn(tyres') = WheelsIn(tyres) \ {p}
    BY <2>1, <2>2 DEF WheelsIn
  <2>4. sheet' = sheet \ {p}
    BY <1>3, <1>4, <1>8
  <2> QED
    BY <1>3, <1>8, <2>3, <2>4 DEF SheetShown
<1> QED
  BY <1>5, <1>6, <1>7, <1>8 DEF Carried

LEMMA ScrapKept ==
  ASSUME TyreInv, ScrapSet
  PROVE  Carried("sets", 0)
<1> DEFINE D == scrapping.items
           q == At("scrap", NoHotel)
<1>1. D \in SUBSET MadeIn(tyres)
  BY DEF TyreInv, Counted
<1>2. Proper(q) /\ q.kind = "scrap"
  BY DEF Proper, At, Place, PlacementKinds
<1>3. tyres' = Placed(tyres, [a \in D |-> q]) /\ NoProject(D)
  BY DEF ScrapSet
<1> HIDE DEF D, q
<1>4. /\ Sound(tyres') /\ MadeIn(tyres') = MadeIn(tyres)
      /\ MountedIn(tyres') = MountedIn(tyres) \ D
      /\ \A a \in D : tyres'[a].at = q
      /\ \A a \in TyreIds \ D : tyres'[a] = tyres[a]
      /\ OneWheel(tyres') /\ (OneSet(tyres) => OneSet(tyres'))
      /\ AllItems(tyres) => AllItems(tyres')
  BY <1>1, <1>2, <1>3, OffVehicle
<1>5. Covered(tyres, stays) => Covered(tyres', stays')
  BY <1>2, <1>4 DEF ScrapSet, Covered
<1>6. sheet' \subseteq Wheels /\ drifted' \in BOOLEAN /\ (SheetShown => SheetShown')
  BY <1>3, <1>4, NoProjectSheet DEF TyreInv, Counted
<1>7. sets' \in [SetIds -> TyreSet \cup {NoSet}]
  <2>1. ASSUME NEW s \in SetIds
        PROVE  [sets[s] EXCEPT !.status = "archived"] \in TyreSet
    <3>1. CASE sets[s] \in TyreSet
      BY <3>1 DEF TyreSet
    <3>2. CASE sets[s] = NoSet
      <4>1. [NoSet EXCEPT !.status = "archived"] \in TyreSet
        BY DEF NoSet, TyreSet
      <4> QED
        BY <3>2, <4>1
    <3> QED
      BY <3>1, <3>2 DEF TyreInv, Counted
  <2>2. sets' = [sets EXCEPT ![scrapping.set] = [sets[scrapping.set] EXCEPT !.status = "archived"]]
    BY DEF ScrapSet
  <2> QED
    BY <2>1, <2>2 DEF TyreInv, Counted
<1>8. scrapping' \in [set : SetIds \cup {0}, items : SUBSET MadeIn(tyres')]
  BY DEF ScrapSet, NoScrap
<1>9. Counted'
  BY <1>6, <1>7, <1>8 DEF Counted, TyreInv, ScrapSet
<1> QED
  BY <1>4, <1>5, <1>6, <1>9 DEF Carried

\* The items of a set that a query has seen are tyres that exist; seen as they are, they
\* are items of it.
LEMMA SeenItems ==
  ASSUME TyreInv, NEW s \in SetIds, NEW i \in Nat \ {0}, NEW k \in Queries
  PROVE  /\ ItemsIn(Seen(i, k).tyres, s) \in SUBSET MadeIn(tyres)
         /\ k = 0 => ItemsIn(Seen(i, k).tyres, s) = ItemsIn(tyres, s)
<1>1. Sound(Seen(i, k).tyres) /\ MadeIn(Seen(i, k).tyres) \subseteq MadeIn(tyres)
  BY SeenRows
<1>2. ItemsIn(Seen(i, k).tyres, s) \in SUBSET MadeIn(Seen(i, k).tyres)
  BY <1>1, ItemsMade
<1>3. k = 0 => Seen(i, k).tyres = tyres
  BY SeenNow, NowRows
<1> QED
  BY <1>1, <1>2, <1>3

LEMMA RelocateKept ==
  ASSUME TyreInv, NEW k \in Queries, NEW s \in SetIds, Relocate(s, k)
  PROVE  Carried("hotel", k)
<1> DEFINE hotel == Seen(1, k).stays[s]
           D == ItemsIn(Seen(1, k).tyres, s)
           q == At("at_supplier_hotel", hotel)
<1>1. D \in SUBSET MadeIn(tyres) /\ (k = 0 => D = ItemsIn(tyres, s) /\ hotel = stays[s])
  BY SeenItems, SeenNow, NowRows
<1>2. /\ Proper(q) /\ q.kind = "at_supplier_hotel" /\ q.hotel = hotel
  <2>1. hotel \in Hotels /\ hotel # NoHotel
    BY SeenRows DEF Rows, Relocate
  <2> QED
    BY <2>1 DEF Proper, At, Place, PlacementKinds
<1>3. /\ tyres' = Placed(tyres, [a \in D |-> q]) /\ NoProject(D)
      /\ UNCHANGED <<sets, stays, layout, closes, closing, scrapping>>
  BY DEF Relocate
<1> HIDE DEF D, q, hotel
<1>4. /\ Sound(tyres') /\ MadeIn(tyres') = MadeIn(tyres)
      /\ MountedIn(tyres') = MountedIn(tyres) \ D
      /\ \A a \in TyreIds : tyres'[a].set = tyres[a].set /\ tyres'[a].item = tyres[a].item
      /\ \A a \in D : tyres'[a].at = q
      /\ \A a \in TyreIds \ D : tyres'[a] = tyres[a]
      /\ OneWheel(tyres') /\ (OneSet(tyres) => OneSet(tyres'))
      /\ (\A a \in D : tyres[a].item) => (AllItems(tyres) => AllItems(tyres'))
  BY <1>1, <1>2, <1>3, OffVehicle
<1>5. ASSUME k = 0, AllItems(tyres), Covered(tyres, stays)
      PROVE  AllItems(tyres') /\ Covered(tyres', stays')
  <2>1. \A a \in D : tyres[a].item /\ tyres[a].set = s
    BY <1>1, <1>5 DEF ItemsIn
  <2> QED
    BY <1>1, <1>2, <1>3, <1>4, <1>5, <2>1 DEF Covered
<1>6. sheet' \subseteq Wheels /\ drifted' \in BOOLEAN /\ (SheetShown => SheetShown')
  BY <1>3, <1>4, NoProjectSheet DEF TyreInv, Counted
<1>7. Counted'
  BY <1>3, <1>4, <1>6 DEF Counted, TyreInv
<1> QED
  BY <1>4, <1>5, <1>6, <1>7 DEF Carried

LEMMA CheckInKept ==
  ASSUME TyreInv, NEW k \in Queries, NEW s \in SetIds, NEW h \in Hotels, CheckIn(s, h, k)
  PROVE  Carried("hotel", k)
<1> DEFINE D == ItemsIn(Seen(1, k).tyres, s)
           q == At("at_supplier_hotel", h)
<1>1. D \in SUBSET MadeIn(tyres) /\ (k = 0 => D = ItemsIn(tyres, s))
  BY SeenItems
<1>2. /\ Proper(q) /\ q.kind = "at_supplier_hotel" /\ q.hotel = h
  BY TyreAssumption DEF Proper, At, Place, PlacementKinds, TyreAssumption
<1>3. /\ tyres' = Placed(tyres, [a \in D |-> q]) /\ Project(D, 5, k)
      /\ stays[s] = NoHotel /\ stays' = [stays EXCEPT ![s] = h]
      /\ UNCHANGED <<sets, layout, closes, closing, scrapping>>
  BY DEF CheckIn
<1> HIDE DEF D, q
<1>4. /\ Sound(tyres') /\ MadeIn(tyres') = MadeIn(tyres)
      /\ \A a \in TyreIds : tyres'[a].set = tyres[a].set /\ tyres'[a].item = tyres[a].item
      /\ \A a \in D : tyres'[a].at = q
      /\ \A a \in TyreIds \ D : tyres'[a] = tyres[a]
      /\ OneWheel(tyres') /\ (OneSet(tyres) => OneSet(tyres'))
      /\ (\A a \in D : tyres[a].item) => (AllItems(tyres) => AllItems(tyres'))
  BY <1>1, <1>2, <1>3, OffVehicle
<1>5. /\ stays' \in [SetIds -> Hotels \cup {NoHotel}] /\ stays'[s] = h
      /\ \A r \in SetIds \ {s} : stays'[r] = stays[r]
  BY <1>3 DEF TyreInv, Counted
<1>6. ASSUME k = 0, AllItems(tyres), Covered(tyres, stays)
      PROVE  AllItems(tyres') /\ Covered(tyres', stays')
  <2>1. \A a \in D : tyres[a].item /\ tyres[a].set = s
    BY <1>1, <1>6 DEF ItemsIn
  <2>2. ASSUME NEW a \in TyreIds \ D, tyres[a].at.kind = "at_supplier_hotel"
        PROVE  stays'[tyres[a].set] = stays[tyres[a].set]
    <3>1. a \in MadeIn(tyres) /\ tyres[a].at.hotel # NoHotel /\ tyres[a].set \in SetIds
      BY <2>2, MadeWhere, SoundRow DEF TyreInv, Sound, Proper, PlacementKinds
    <3>2. stays[tyres[a].set] = tyres[a].at.hotel
      BY <1>6, <2>2 DEF Covered
    <3>3. tyres[a].set # s
      BY <1>3, <3>1, <3>2
    <3> QED
      BY <1>5, <3>1, <3>3
  <2>3. \A a \in D : stays'[tyres[a].set] = q.hotel
    BY <1>2, <1>5, <2>1
  <2>4. Covered(tyres', stays')
    BY <1>4, <1>6, <2>2, <2>3 DEF Covered
  <2> QED
    BY <1>4, <1>6, <2>1, <2>4
<1>7. sheet' \subseteq Wheels /\ drifted' \in BOOLEAN /\ (k = 0 => SheetShown')
  BY <1>3, <1>4, ProjectSheet
<1>8. Counted'
  BY <1>3, <1>4, <1>5, <1>7 DEF Counted, TyreInv
<1> QED
  BY <1>4, <1>6, <1>7, <1>8 DEF Carried

LEMMA CheckOutKept ==
  ASSUME TyreInv, NEW k \in Queries, NEW s \in SetIds, NEW kind \in ReleaseKinds,
         CheckOut(s, kind, k)
  PROVE  Carried("hotel", k)
<1> DEFINE D == ItemsIn(Seen(1, k).tyres, s)
           q == At(kind, NoHotel)
<1>1. D \in SUBSET MadeIn(tyres) /\ (k = 0 => D = ItemsIn(tyres, s))
  BY SeenItems
<1>2. Proper(q) /\ q.kind \notin {"at_supplier_hotel", "on_vehicle"}
  BY TyreAssumption DEF Proper, At, Place, TyreAssumption
<1>3. /\ tyres' = Placed(tyres, [a \in D |-> q]) /\ Project(D, 2, k)
      /\ stays' = [stays EXCEPT ![s] = NoHotel]
      /\ UNCHANGED <<sets, layout, closes, closing, scrapping>>
  BY DEF CheckOut
<1> HIDE DEF D, q
<1>4. /\ Sound(tyres') /\ MadeIn(tyres') = MadeIn(tyres)
      /\ \A a \in TyreIds : tyres'[a].set = tyres[a].set /\ tyres'[a].item = tyres[a].item
      /\ \A a \in D : tyres'[a].at = q
      /\ \A a \in TyreIds \ D : tyres'[a] = tyres[a]
      /\ OneWheel(tyres') /\ (OneSet(tyres) => OneSet(tyres'))
      /\ AllItems(tyres) => AllItems(tyres')
  BY <1>1, <1>2, <1>3, OffVehicle
<1>5. /\ stays' \in [SetIds -> Hotels \cup {NoHotel}]
      /\ \A r \in SetIds \ {s} : stays'[r] = stays[r]
  BY <1>3 DEF TyreInv, Counted
<1>6. ASSUME k = 0, AllItems(tyres), Covered(tyres, stays)
      PROVE  Covered(tyres', stays')
  <2>1. ASSUME NEW a \in TyreIds \ D, tyres[a].at.kind = "at_supplier_hotel"
        PROVE  stays'[tyres[a].set] = stays[tyres[a].set]
    <3>1. a \in MadeIn(tyres) /\ tyres[a].item /\ tyres[a].set \in SetIds
      BY <1>6, <2>1, MadeWhere, SoundRow DEF TyreInv, AllItems, PlacementKinds
    <3>2. tyres[a].set # s
      BY <1>1, <1>6, <2>1, <3>1 DEF ItemsIn
    <3> QED
      BY <1>5, <3>1, <3>2
  <2> QED
    BY <1>2, <1>4, <1>6, <2>1 DEF Covered
<1>7. sheet' \subseteq Wheels /\ drifted' \in BOOLEAN /\ (k = 0 => SheetShown')
  BY <1>3, <1>4, ProjectSheet
<1>8. Counted'
  BY <1>3, <1>4, <1>5, <1>7 DEF Counted, TyreInv
<1> QED
  BY <1>4, <1>6, <1>7, <1>8 DEF Carried

(***************************************************************************)
(* The close of a work order.                                              *)
(***************************************************************************)
LEMMA ClaimTypes ==
  ASSUME TyreInv, NEW w \in TyreOrders, ClaimClose(w)
  PROVE  /\ closes' \in [TyreOrders -> 0..1]
         /\ closing' \in [TyreOrders -> 0..MaxClosing]
         /\ UNCHANGED <<sets, layout, scrapping>>
<1>1. /\ closes \in [TyreOrders -> 0..1] /\ closing \in [TyreOrders -> 0..MaxClosing]
      /\ MaxClosing \in Nat
  BY TyreAssumption DEF TyreInv, Counted, TyreAssumption
<1>2. closes' = [closes EXCEPT ![w] = @ + 1] /\ closes[w] = 0
  BY DEF ClaimClose, ClaimOrder
<1>3. closing' = [closing EXCEPT ![w] = @ - 1] /\ closing[w] > 0
  BY DEF ClaimClose, ClaimOrder
<1> QED
  BY <1>1, <1>2, <1>3 DEF ClaimClose

\* A stay recorded for a store is at the hotel the tyres go to, and a set with tyres at
\* a hotel keeps the stay it has.
LEMMA StoreStay ==
  ASSUME TyreInv, NEW k \in Queries, NEW s \in SetIds, NEW kind \in StoreKinds, NEW h,
         NEW i \in Nat \ {0}, Store(s, kind, h, i, k)
  PROVE  /\ stays' \in [SetIds -> Hotels \cup {NoHotel}]
         /\ k = 0 /\ kind = "at_supplier_hotel" => stays'[s] = h
         /\ \A r \in SetIds : stays[r] # NoHotel => stays'[r] = stays[r]
         /\ Proper(At(kind, h))
         /\ At(kind, h).kind = kind /\ At(kind, h).hotel = h /\ kind # "on_vehicle"
<1>1. stays \in [SetIds -> Hotels \cup {NoHotel}]
  BY DEF TyreInv, Counted
<1>2. CASE kind = "at_supplier_hotel"
  <2>1. h \in Hotels /\ h # NoHotel /\ RecordStay(s, h, i, k)
    BY <1>2, TyreAssumption DEF Store, TyreAssumption
  <2>2. Proper(At(kind, h))
    BY <1>2, <2>1 DEF Proper, At, Place, PlacementKinds
  <2>3. k = 0 => Seen(i, k).stays = stays
    BY SeenNow, NowRows
  <2> HIDE DEF Seen
  <2> QED
    BY <1>1, <1>2, <2>1, <2>2, <2>3 DEF RecordStay, At
<1>3. CASE kind = "at_client"
  <2>1. h = NoHotel /\ UNCHANGED stays
    BY <1>3 DEF Store
  <2>2. Proper(At(kind, h))
    BY <1>3, <2>1 DEF Proper, At, Place, PlacementKinds
  <2> QED
    BY <1>1, <1>3, <2>1, <2>2 DEF At
<1> QED
  BY <1>2, <1>3 DEF StoreKinds

\* The places of the tyres after a close, given where it puts them: it replaces at most
\* one of them, and projects.
LEMMA ClosedKept ==
  ASSUME TyreInv, NEW k \in Queries, NEW w \in TyreOrders, ClaimClose(w),
         stays' \in [SetIds -> Hotels \cup {NoHotel}],
         NEW place, DOMAIN place \in SUBSET MadeIn(Seen(5, k).tyres),
         \A a \in DOMAIN place : Proper(place[a]), FinishClose(place, k),
         NEW rows, rows = Placed(tyres, place),
         k = 0 => /\ OneWheel(rows) /\ (OneSet(tyres) => OneSet(rows))
                  /\ AllItems(tyres) /\ Covered(tyres, stays) =>
                       AllItems(rows) /\ Covered(rows, stays')
  PROVE  Carried("closes", k)
<1> DEFINE before == Seen(5, k).tyres
           seen == Placed(before, place)
<1>1. /\ Sound(before) /\ MadeIn(before) \subseteq MadeIn(tyres) /\ Sound(tyres)
      /\ (k = 0 => before = tyres)
  BY SeenRows, SeenNow, NowRows DEF TyreInv
<1>2. Outcome(rows, seen) /\ Project(DOMAIN place, 6, k)
  BY DEF FinishClose
<1> HIDE DEF before
<1>3. DOMAIN place \in SUBSET MadeIn(before) /\ DOMAIN place \in SUBSET MadeIn(tyres)
  BY <1>1 DEF before
<1>4. Moved(tyres, place, rows)
  BY <1>1, <1>3, MoveSound
<1>5. Moved(before, place, seen)
  BY <1>1, <1>3, MoveSound
<1>6. k = 0 => seen = rows
  BY <1>1
<1> HIDE DEF seen
<1>7. /\ Sound(tyres') /\ MadeIn(tyres) \subseteq MadeIn(tyres')
      /\ seen = rows => /\ OneWheel(rows) => OneWheel(tyres')
                        /\ OneSet(rows) => OneSet(tyres')
                        /\ AllItems(rows) => AllItems(tyres')
                        /\ \A st : Covered(rows, st) => Covered(tyres', st)
  BY <1>1, <1>2, <1>4, <1>5, OutcomeSound DEF Moved
<1>8. sheet' \subseteq Wheels /\ drifted' \in BOOLEAN /\ (k = 0 => SheetShown')
  BY <1>2, <1>7, ProjectSheet
<1>9. Counted'
  BY <1>7, <1>8, ClaimTypes DEF Counted, TyreInv
<1> QED
  BY <1>6, <1>7, <1>8, <1>9 DEF Carried

LEMMA OutcomesKept ==
  ASSUME TyreInv, NEW k \in Queries, NEW w \in TyreOrders, CloseOutcomes(w, k)
  PROVE  Carried("closes", k)
<1> DEFINE place == <<>>
           rows == Placed(tyres, place)
<1>1. ClaimClose(w) /\ FinishClose(place, k) /\ stays' = stays
  BY DEF CloseOutcomes
<1>2. DOMAIN place = {}
  OBVIOUS
<1>3. rows = tyres
  <2>1. tyres = [a \in TyreIds |-> tyres[a]]
    BY DEF TyreInv, Sound
  <2> QED
    BY <1>2, <2>1 DEF Placed
<1>4. stays' \in [SetIds -> Hotels \cup {NoHotel}] /\ OneWheel(tyres)
  BY <1>1 DEF TyreInv, Counted
<1> HIDE DEF place
<1>5. /\ OneWheel(rows) /\ (OneSet(tyres) => OneSet(rows))
      /\ AllItems(tyres) /\ Covered(tyres, stays) => AllItems(rows) /\ Covered(rows, stays')
  BY <1>1, <1>3, <1>4
<1> QED
  BY <1>1, <1>2, <1>4, <1>5, ClosedKept

\* The tyres of one set go where the store has them.
LEMMA StoreCovered ==
  ASSUME TyreInv, Covered(tyres, stays), NEW s \in SetIds, NEW q,
         q.kind = "at_supplier_hotel" => stays'[s] = q.hotel,
         \A r \in SetIds : stays[r] # NoHotel => stays'[r] = stays[r],
         NEW place, NEW rows, Moved(tyres, place, rows),
         \A a \in DOMAIN place : \/ place[a] = q /\ tyres[a].set = s
                                 \/ place[a].kind = "on_vehicle"
  PROVE  Covered(rows, stays')
<1>1. ASSUME NEW a \in TyreIds \ DOMAIN place, rows[a].at.kind = "at_supplier_hotel"
      PROVE  stays'[rows[a].set] = rows[a].at.hotel
  <2>1. rows[a] = tyres[a]
    BY DEF Moved
  <2>2. a \in MadeIn(tyres) /\ tyres[a].at.hotel # NoHotel /\ tyres[a].set \in SetIds
    BY <1>1, <2>1, MadeWhere, SoundRow DEF TyreInv, Sound, Proper, PlacementKinds
  <2>3. stays[tyres[a].set] = tyres[a].at.hotel
    BY <1>1, <2>1 DEF Covered
  <2> QED
    BY <2>1, <2>2, <2>3
<1>2. ASSUME NEW a \in TyreIds, a \in DOMAIN place, rows[a].at.kind = "at_supplier_hotel"
      PROVE  stays'[rows[a].set] = rows[a].at.hotel
  <2>1. rows[a].at = place[a] /\ rows[a].set = tyres[a].set
    BY <1>2 DEF Moved
  <2> QED
    BY <1>2, <2>1
<1> QED
  BY <1>1, <1>2 DEF Covered

LEMMA StoreSetKept ==
  ASSUME TyreInv, NEW k \in Queries, NEW w \in TyreOrders, NEW s \in SetIds,
         NEW kind \in StoreKinds, NEW h \in Hotels \cup {NoHotel}, StoreSet(w, s, kind, h, k)
  PROVE  Carried("closes", k)
<1> DEFINE items == ItemsIn(Seen(2, k).tyres, s)
           onVehicle == MountedOf(Seen(3, k).tyres, s)
           D == IF onVehicle # {} THEN onVehicle ELSE items
           q == At(kind, h)
           place == [a \in D |-> q]
           rows == Placed(tyres, place)
<1>1. ClaimClose(w) /\ Store(s, kind, h, 4, k) /\ FinishClose(place, k)
  BY DEF StoreSet
<1>2. /\ stays' \in [SetIds -> Hotels \cup {NoHotel}]
      /\ k = 0 /\ kind = "at_supplier_hotel" => stays'[s] = h
      /\ \A r \in SetIds : stays[r] # NoHotel => stays'[r] = stays[r]
      /\ Proper(q) /\ q.kind = kind /\ q.hotel = h /\ kind # "on_vehicle"
  BY <1>1, StoreStay
<1>3. D \in SUBSET MadeIn(Seen(5, k).tyres) /\ MadeIn(Seen(5, k).tyres) \subseteq MadeIn(tyres)
  <2>1. /\ Sound(Seen(2, k).tyres) /\ Sound(Seen(3, k).tyres)
        /\ MadeIn(Seen(5, k).tyres) \subseteq MadeIn(tyres)
    BY SeenRows
  <2>2. /\ items \in SUBSET MadeIn(Seen(2, k).tyres)
        /\ onVehicle \in SUBSET MadeIn(Seen(3, k).tyres)
    BY <2>1, ItemsMade
  <2>3. /\ MadeIn(Seen(2, k).tyres) \subseteq MadeIn(Seen(5, k).tyres)
        /\ MadeIn(Seen(3, k).tyres) \subseteq MadeIn(Seen(5, k).tyres)
    BY SeenLater
  <2> QED
    BY <2>1, <2>2, <2>3
<1>4. k = 0 => /\ onVehicle = MountedOf(tyres, s) /\ items = ItemsIn(tyres, s)
  BY SeenNow, NowRows
<1>5. k = 0 => \A a \in D : /\ tyres[a].set = s
                            /\ AllItems(tyres) => tyres[a].item
  <2>1. ASSUME k = 0, NEW a \in onVehicle
        PROVE  tyres[a].set = s /\ (AllItems(tyres) => tyres[a].item)
    BY <1>4, <2>1 DEF MountedOf, MountedIn, AllItems
  <2>2. ASSUME k = 0, NEW a \in items
        PROVE  tyres[a].set = s /\ tyres[a].item
    BY <1>4, <2>2 DEF ItemsIn
  <2> QED
    BY <2>1, <2>2
<1>6. DOMAIN place = D /\ \A a \in D : place[a] = q
  OBVIOUS
<1> HIDE DEF D, q, place, items, onVehicle
<1>7. Moved(tyres, place, rows)
  BY <1>2, <1>3, <1>6, MoveSound DEF TyreInv
<1> HIDE DEF rows
<1>8. OneWheel(rows) /\ (OneSet(tyres) => OneSet(rows))
  <2>1. DOMAIN place \subseteq TyreIds /\ \A a \in DOMAIN place : place[a].kind # "on_vehicle"
    BY <1>2, <1>3, <1>6 DEF MadeIn
  <2> QED
    BY <1>7, <2>1, MoveApart DEF TyreInv
<1>9. ASSUME k = 0, AllItems(tyres), Covered(tyres, stays)
      PROVE  AllItems(rows) /\ Covered(rows, stays')
  <2>1. AllItems(rows)
    BY <1>5, <1>6, <1>7, <1>9, MoveListed
  <2>2. /\ q.kind = "at_supplier_hotel" => stays'[s] = q.hotel
        /\ \A a \in DOMAIN place : place[a] = q /\ tyres[a].set = s
    BY <1>2, <1>5, <1>6, <1>9
  <2>3. Covered(rows, stays')
    BY <1>2, <1>7, <1>9, <2>2, StoreCovered
  <2> QED
    BY <2>1, <2>3
<1>10. \A a \in DOMAIN place : Proper(place[a])
  BY <1>2, <1>6
<1> QED
  BY <1>1, <1>2, <1>3, <1>6, <1>8, <1>9, <1>10, ClosedKept DEF rows

LEMMA SwapKept ==
  ASSUME TyreInv, NEW k \in Queries, NEW w \in TyreOrders, NEW out \in SetIds,
         NEW in \in SetIds, NEW kind \in StoreKinds, NEW h \in Hotels \cup {NoHotel},
         SeasonalSwap(w, out, in, kind, h, k)
  PROVE  Carried("closes", k)
<1> DEFINE seen == Seen(3, k).tyres
           D == MountedOf(seen, out)
           freed == {seen[a].at.pos : a \in D}
           items == ItemsIn(Seen(2, k).tyres, in)
           q == At(kind, h)
<1>1. ClaimClose(w) /\ Store(out, kind, h, 4, k) /\ out # in /\ D # {}
  BY DEF SeasonalSwap
<1>2. PICK f \in [items -> freed] :
        /\ \A a, b \in items : f[a] = f[b] => a = b
        /\ FinishClose([a \in D \cup items |-> IF a \in items THEN OnWheel(f[a]) ELSE q], k)
  BY DEF SeasonalSwap
<1> DEFINE place == [a \in D \cup items |-> IF a \in items THEN OnWheel(f[a]) ELSE q]
           rows == Placed(tyres, place)
<1>3. /\ stays' \in [SetIds -> Hotels \cup {NoHotel}]
      /\ k = 0 /\ kind = "at_supplier_hotel" => stays'[out] = h
      /\ \A r \in SetIds : stays[r] # NoHotel => stays'[r] = stays[r]
      /\ Proper(q) /\ q.kind = kind /\ q.hotel = h /\ kind # "on_vehicle"
  BY <1>1, StoreStay
<1>4. Sound(Seen(2, k).tyres) /\ Sound(seen) /\ MadeIn(Seen(5, k).tyres) \subseteq MadeIn(tyres)
  BY SeenRows
<1>5. D \cup items \in SUBSET MadeIn(Seen(5, k).tyres)
  <2>1. items \in SUBSET MadeIn(Seen(2, k).tyres) /\ D \in SUBSET MadeIn(seen)
    BY <1>4, ItemsMade
  <2>2. /\ MadeIn(Seen(2, k).tyres) \subseteq MadeIn(Seen(5, k).tyres)
        /\ MadeIn(Seen(3, k).tyres) \subseteq MadeIn(Seen(5, k).tyres)
    BY SeenLater
  <2> QED
    BY <2>1, <2>2
<1>6. \A p \in freed : p \in Wheels
  <2>1. \A a \in D : a \in MountedIn(seen)
    BY DEF MountedOf
  <2> HIDE DEF seen, D
  <2> QED
    BY <1>4, <2>1, MountedMade
<1>7. k = 0 => seen = tyres /\ items = ItemsIn(tyres, in)
  BY SeenNow, NowRows
<1>8. /\ DOMAIN place = D \cup items
      /\ \A a \in items : place[a] = OnWheel(f[a])
      /\ \A a \in D \ items : place[a] = q
  OBVIOUS
<1>9. FinishClose(place, k)
  BY <1>2
<1>10. k = 0 => /\ D \subseteq MountedIn(tyres)
                /\ \A a \in MountedIn(tyres) : a \in D <=> tyres[a].set = out
                /\ \A p \in freed : \E a \in D : p = tyres[a].at.pos
                /\ \A a \in items : tyres[a].set = in /\ tyres[a].item
  BY <1>7 DEF MountedOf, ItemsIn
<1> HIDE DEF seen, D, freed, items, q, place
<1>11. \A a \in items : /\ Proper(OnWheel(f[a])) /\ OnWheel(f[a]).kind = "on_vehicle"
                        /\ OnWheel(f[a]).pos = f[a]
  BY <1>2, <1>6 DEF Proper, OnWheel, Place, PlacementKinds
<1>12. \A a \in DOMAIN place : Proper(place[a])
  BY <1>3, <1>8, <1>11
<1>13. Moved(tyres, place, rows)
  BY <1>4, <1>5, <1>8, <1>12, MoveSound DEF TyreInv
<1>14. D \cup items \subseteq TyreIds
  BY <1>4, <1>5 DEF MadeIn
<1> HIDE DEF rows
<1>15. ASSUME k = 0
       PROVE  /\ OneWheel(rows) /\ (OneSet(tyres) => OneSet(rows))
              /\ AllItems(tyres) /\ Covered(tyres, stays) =>
                   AllItems(rows) /\ Covered(rows, stays')
  <2>1. \A a \in MountedIn(rows) :
          \/ /\ a \in items /\ rows[a].at.pos = f[a] /\ rows[a].set = tyres[a].set
          \/ a \in MountedIn(tyres) \ D /\ rows[a] = tyres[a]
    <3>1. ASSUME NEW a \in MountedIn(rows), a \notin items
          PROVE  a \in MountedIn(tyres) \ D /\ rows[a] = tyres[a]
      <4>1. a \notin D
        BY <1>3, <1>8, <1>13, <3>1 DEF Moved, MountedIn
      <4>2. rows[a] = tyres[a]
        BY <1>8, <1>13, <3>1, <4>1 DEF Moved, MountedIn
      <4> QED
        BY <3>1, <4>1, <4>2 DEF MountedIn
    <3>2. ASSUME NEW a \in items
          PROVE  rows[a].at.pos = f[a] /\ rows[a].set = tyres[a].set
      BY <1>8, <1>11, <1>13, <1>14, <3>2 DEF Moved
    <3> QED
      BY <3>1, <3>2
  <2>2. ASSUME NEW a \in items, NEW b \in MountedIn(tyres) \ D
        PROVE  f[a] # tyres[b].at.pos
    <3>1. PICK d \in D : f[a] = tyres[d].at.pos
      BY <1>2, <1>10, <1>15
    <3>2. OneWheel(tyres) /\ d \in MountedIn(tyres) /\ d # b
      BY <1>10, <1>15, <3>1 DEF TyreInv
    <3> QED
      BY <3>1, <3>2 DEF OneWheel
  <2>3. OneWheel(rows)
    <3>1. ASSUME NEW a \in MountedIn(rows), NEW b \in MountedIn(rows),
                 rows[a].at.pos = rows[b].at.pos
          PROVE  a = b
      <4>1. CASE a \in items /\ rows[a].at.pos = f[a] /\ b \in items /\ rows[b].at.pos = f[b]
        BY <1>2, <3>1, <4>1
      <4>2. CASE /\ a \in items /\ rows[a].at.pos = f[a]
                 /\ b \in MountedIn(tyres) \ D /\ rows[b] = tyres[b]
        BY <2>2, <3>1, <4>2
      <4>3. CASE /\ b \in items /\ rows[b].at.pos = f[b]
                 /\ a \in MountedIn(tyres) \ D /\ rows[a] = tyres[a]
        BY <2>2, <3>1, <4>3
      <4>4. CASE /\ a \in MountedIn(tyres) \ D /\ rows[a] = tyres[a]
                 /\ b \in MountedIn(tyres) \ D /\ rows[b] = tyres[b]
        BY <3>1, <4>4 DEF OneWheel, TyreInv
      <4> QED
        BY <2>1, <4>1, <4>2, <4>3, <4>4
    <3> QED
      BY <3>1 DEF OneWheel
  <2>4. ASSUME OneSet(tyres)
        PROVE  OneSet(rows)
    <3>1. PICK d \in D : TRUE
      BY <1>1 DEF D
    <3>2. MountedIn(tyres) \ D = {}
      BY <1>10, <1>15, <2>4, <3>1 DEF OneSet
    <3>3. \A a \in MountedIn(rows) : rows[a].set = in
      BY <1>10, <1>15, <2>1, <3>2
    <3> QED
      BY <3>3 DEF OneSet
  <2>5. ASSUME AllItems(tyres), Covered(tyres, stays)
        PROVE  AllItems(rows) /\ Covered(rows, stays')
    <3>1. \A a \in D \cup items : tyres[a].item
      BY <1>10, <1>15, <2>5 DEF AllItems, MountedIn
    <3>2. AllItems(rows)
      BY <1>8, <1>13, <2>5, <3>1, MoveListed
    <3>3. /\ q.kind = "at_supplier_hotel" => stays'[out] = q.hotel
          /\ \A a \in DOMAIN place : \/ place[a] = q /\ tyres[a].set = out
                                     \/ place[a].kind = "on_vehicle"
      BY <1>3, <1>8, <1>10, <1>11, <1>15
    <3>4. Covered(rows, stays')
      BY <1>3, <1>13, <2>5, <3>3, StoreCovered
    <3> QED
      BY <3>2, <3>4
  <2> QED
    BY <2>3, <2>4, <2>5
<1> QED
  BY <1>1, <1>3, <1>5, <1>8, <1>9, <1>12, <1>15, ClosedKept DEF rows

(***************************************************************************)
(* The theorems.                                                           *)
(***************************************************************************)
LEMMA InitTyreInv ==
  ASSUME TyreInit
  PROVE  TyreInv
<1>1. \A a \in TyreIds : tyres[a] = NoTyre
  BY DEF TyreInit
<1>2. MountedIn(tyres) = {} /\ MadeIn(tyres) = {}
  BY <1>1, NoTyreApart DEF MountedIn, MadeIn, PlacementKinds
<1>3. 0 \in 0..MaxTyres /\ 1..0 = {} /\ MaxClosing \in Nat
  BY TyreAssumption DEF TyreAssumption
<1>4. Sound(tyres)
  BY <1>2, <1>3 DEF Sound, TyreInit
<1>5. OneWheel(tyres) /\ OneSet(tyres)
  BY <1>2 DEF OneWheel, OneSet
<1>6. AllItems(tyres) /\ Covered(tyres, stays)
  BY <1>1, NoTyreApart DEF AllItems, Covered, PlacementKinds
<1>7. Counted
  <2>1. "four" \in DOMAIN LayoutPositions
    BY DEF LayoutPositions
  <2>2. scrapping \in [set : SetIds \cup {0}, items : SUBSET MadeIn(tyres)]
    BY DEF TyreInit, NoScrap
  <2>3. sheet \subseteq Wheels /\ drifted \in BOOLEAN
    BY DEF TyreInit, Wheels
  <2> QED
    BY <1>3, <2>1, <2>2, <2>3 DEF Counted, TyreInit
<1>8. Remembered
  <2>1. Now \in Rows /\ Now.tyres = tyres /\ past = Now /\ lapped = {}
    BY <1>4, <1>7 DEF Now, Rows, Counted, Sound, TyreInit
  <2> HIDE DEF Now
  <2> QED
    BY <1>4, <2>1 DEF Remembered
<1>9. SheetShown
  <2>1. WheelsIn(tyres) = {}
    BY <1>2 DEF WheelsIn
  <2> QED
    BY <2>1 DEF SheetShown, TyreInit
<1> QED
  BY <1>4, <1>5, <1>6, <1>7, <1>8, <1>9 DEF TyreInv

LEMMA WheelsKept ==
  ASSUME TyreInv, NEW k \in Queries, WheelsStep(k)
  PROVE  Carried("wheels", k)
<1>1. CASE BootstrapMountedSet(k)
  BY <1>1, BootstrapKept
<1>2. ASSUME NEW p \in Wheels, UpsertWheel(p, k)
      PROVE  Carried("wheels", k)
  <2>1. {p} \in SUBSET Wheels /\ layout' \in DOMAIN LayoutPositions /\ 2 \in Nat \ {0}
    BY <1>2 DEF UpsertWheel, TyreInv, Counted
  <2>2. MountNew({p}, 2, k) /\ UNCHANGED <<stays, closes, closing, scrapping, drifted>>
    BY <1>2 DEF UpsertWheel
  <2> QED
    BY <2>1, <2>2, MountNewKept
<1>3. ASSUME NEW p \in Wheels, ClearPosition(p, k)
      PROVE  Carried("wheels", k)
  BY <1>3, ClearKept
<1>4. ASSUME NEW l \in DOMAIN LayoutPositions, SetLayout(l, k)
      PROVE  Carried("wheels", k)
  <2> DEFINE dual == Seen(1, k).layout = "four" /\ l = "six_dual_rear"
             copied == IF dual /\ "rl" \in Seen(2, k).sheet THEN {"rlo", "rli"} ELSE {}
  <2>1. copied \in SUBSET Wheels /\ 3 \in Nat \ {0}
    BY DEF Wheels
  <2>2. /\ MountNew(copied, 3, k) /\ layout' = l
        /\ UNCHANGED <<stays, closes, closing, scrapping, drifted>>
    BY <1>4 DEF SetLayout
  <2> HIDE DEF copied
  <2> QED
    BY <2>1, <2>2, MountNewKept
<1>5. CASE CreateSet(k)
  BY <1>5, CreateSetKept
<1> QED
  BY <1>1, <1>2, <1>3, <1>4, <1>5 DEF WheelsStep

LEMMA HotelKept ==
  ASSUME TyreInv, NEW k \in Queries, HotelStep(k)
  PROVE  Carried("hotel", k)
BY RelocateKept, CheckInKept, CheckOutKept DEF HotelStep

LEMMA ClosesKept ==
  ASSUME TyreInv, NEW k \in Queries, CloseStep(k)
  PROVE  Carried("closes", k)
<1>1. ASSUME NEW w \in TyreOrders, CloseOutcomes(w, k)
      PROVE  Carried("closes", k)
  BY <1>1, OutcomesKept
<1>2. ASSUME NEW w \in TyreOrders, NEW s \in SetIds, NEW kind \in StoreKinds,
             NEW h \in Hotels \cup {NoHotel}, StoreSet(w, s, kind, h, k)
      PROVE  Carried("closes", k)
  BY <1>2, StoreSetKept
<1>3. ASSUME NEW w \in TyreOrders, NEW s \in SetIds, NEW kind \in StoreKinds,
             NEW h \in Hotels \cup {NoHotel}, NEW in \in SetIds,
             SeasonalSwap(w, s, in, kind, h, k)
      PROVE  Carried("closes", k)
  BY <1>3, SwapKept
<1> QED
  BY <1>1, <1>2, <1>3 DEF CloseStep

\* The steps that move no tyre.
LEMMA QuietSteps ==
  ASSUME TyreInv,
         \/ \E s \in SetIds : ReadScrap(s)
         \/ \E w \in TyreOrders : BeginClose(w) \/ RefuseClose(w)
  PROVE  TyreInv'
<1>1. UNCHANGED <<tyres, sets, stays, sheet, layout, closes, past, lapped, drifted>>
  BY DEF ReadScrap, BeginClose, RefuseClose
<1>2. closing' \in [TyreOrders -> 0..MaxClosing]
  <2>1. closing \in [TyreOrders -> 0..MaxClosing] /\ MaxClosing \in Nat
    BY TyreAssumption DEF TyreInv, Counted, TyreAssumption
  <2>2. ASSUME NEW w \in TyreOrders, BeginClose(w)
        PROVE  closing' \in [TyreOrders -> 0..MaxClosing]
    BY <2>1, <2>2 DEF BeginClose
  <2>3. ASSUME NEW w \in TyreOrders, RefuseClose(w)
        PROVE  closing' \in [TyreOrders -> 0..MaxClosing]
    BY <2>1, <2>3 DEF RefuseClose
  <2> QED
    BY <2>1, <2>2, <2>3 DEF ReadScrap
<1>3. scrapping' \in [set : SetIds \cup {0}, items : SUBSET MadeIn(tyres)]
  <2>1. scrapping \in [set : SetIds \cup {0}, items : SUBSET MadeIn(tyres)] /\ Sound(tyres)
    BY DEF TyreInv, Counted
  <2>2. ASSUME NEW s \in SetIds, ReadScrap(s)
        PROVE  scrapping' \in [set : SetIds \cup {0}, items : SUBSET MadeIn(tyres)]
    BY <2>1, <2>2, ItemsMade DEF ReadScrap
  <2> QED
    BY <2>1, <2>2 DEF BeginClose, RefuseClose
<1>4. Counted'
  BY <1>1, <1>2, <1>3 DEF TyreInv, Counted, MadeIn
<1>5. Remembered' /\ (SheetShown => SheetShown')
  BY <1>1 DEF TyreInv, Remembered, MadeIn, SheetShown, WheelsIn, MountedIn
<1> QED
  BY <1>1, <1>4, <1>5 DEF TyreInv

LEMMA TyreStep ==
  ASSUME TyreInv, [TyreNext]_tyreVars
  PROVE  TyreInv'
<1>1. Overtaken \subseteq Queries /\ 0 \in Queries
  BY DEF Overtaken, Queries
<1>2. ASSUME NEW k \in Queries, WheelsStep(k), Commit("wheels", k)
      PROVE  TyreInv'
  BY <1>2, WheelsKept, CommitKept
<1>3. ASSUME NEW k \in Queries, HotelStep(k), Commit("hotel", k)
      PROVE  TyreInv'
  BY <1>3, HotelKept, CommitKept
<1>4. ASSUME NEW k \in Queries, CloseStep(k), Commit("closes", k)
      PROVE  TyreInv'
  BY <1>4, ClosesKept, CommitKept
<1>5. CASE ScrapSet /\ Commit("sets", 0)
  BY <1>1, <1>5, ScrapKept, CommitKept
<1>6. CASE \/ \E s \in SetIds : ReadScrap(s)
           \/ \E w \in TyreOrders : BeginClose(w) \/ RefuseClose(w)
  BY <1>6, QuietSteps
<1>7. CASE UNCHANGED tyreVars
  <2>1. UNCHANGED <<tyres, sets, stays, sheet, layout, closes, closing, scrapping, past,
                    lapped, drifted>>
    BY <1>7 DEF tyreVars
  <2>2. Counted' /\ Remembered' /\ (SheetShown => SheetShown')
    BY <2>1 DEF TyreInv, Counted, Remembered, MadeIn, SheetShown, WheelsIn, MountedIn
  <2> QED
    BY <2>1, <2>2 DEF TyreInv
<1> QED
  BY <1>1, <1>2, <1>3, <1>4, <1>5, <1>6, <1>7 DEF TyreNext

LEMMA TyreInvIsInvariant == TyreSpec => []TyreInv
<1>1. TyreInit => TyreInv
  BY InitTyreInv
<1>2. TyreInv /\ [TyreNext]_tyreVars => TyreInv'
  BY TyreStep
<1> QED
  BY <1>1, <1>2, PTL DEF TyreSpec

LEMMA TyreInvImplies ==
  ASSUME TyreInv
  PROVE  TyreTypeOK /\ MountedInPlace /\ HotelTyreHasStay /\ ClosedOnce
<1>1. TyreTypeOK
  <2>1. tyres \in [TyreIds -> Tyre \cup {NoTyre}] /\ Counted /\ Remembered
    BY DEF TyreInv, Sound
  <2>2. Now \in Rows
    BY <2>1 DEF Now, Rows, Counted
  <2>3. scrapping \in [set : SetIds \cup {0}, items : SUBSET TyreIds]
    BY <2>1 DEF Counted, MadeIn
  <2>4. closes \in [TyreOrders -> Nat]
    BY <2>1 DEF Counted
  <2> HIDE DEF Now
  <2> QED
    BY <2>1, <2>2, <2>3, <2>4 DEF TyreTypeOK, Counted, Remembered
<1>2. MountedInPlace
  BY DEF TyreInv, OneWheel, OneSet, SheetShown, MountedInPlace, OneTyrePerWheel,
         OneSetMounted, SheetIsMounted
<1>3. HotelTyreHasStay
  BY DEF TyreInv, Covered, HotelTyreHasStay
<1>4. ClosedOnce
  BY DEF TyreInv, Counted, ClosedOnce
<1> QED
  BY <1>1, <1>2, <1>3, <1>4

\* Types, of the rows and of what an overtaken operation has seen of them.
THEOREM TyreTypeCorrect == TyreSpec => []TyreTypeOK
BY TyreInvIsInvariant, TyreInvImplies, PTL

\* Whatever the order of swaps, scraps, hotel moves and edits of the sheet, and whatever
\* overlaps, no wheel ever carries two tyres.  The tyres on the vehicle are of one set
\* until a wheel or a close is written on reads that another commit has replaced, however
\* hotel moves overlap; until any operation is, the sheet shows them.
THEOREM FittedInPlace == TyreSpec => []MountedInPlace
BY TyreInvIsInvariant, TyreInvImplies, PTL

\* Until a hotel move or a close acts on a stay, or on tyres, that another commit has
\* changed since it read them, a tyre recorded at a hotel can be checked out: an open stay
\* of its set is there.  Edits of the sheet and of the wheels may overlap as they like.
THEOREM StayForHotelTyre == TyreSpec => []HotelTyreHasStay
BY TyreInvIsInvariant, TyreInvImplies, PTL

\* However many closes found a tyre work order unmarked, one of them closes it.
THEOREM ClosesOnce == TyreSpec => []ClosedOnce
BY TyreInvIsInvariant, TyreInvImplies, PTL
=============================================================================
