------------------------ MODULE PartnerOutbox_proofs ------------------------
(***************************************************************************)
(* Proofs about PartnerOutbox, for any number of mails, overlapping runs,  *)
(* faults, rows a run reads and attempts.                                  *)
(***************************************************************************)
EXTENDS PartnerOutbox, FiniteSetTheorems, WellFoundedInduction, TLAPS

-----------------------------------------------------------------------------
(***************************************************************************)
(* The row a run is at.                                                    *)
(***************************************************************************)

\* A nonempty set of mails has an oldest, which is the one Least chooses.
LEMMA LeastIsLeast ==
  ASSUME NEW S \in SUBSET MailIds, S # {}
  PROVE  Least(S) \in S /\ \A n \in S : Least(S) =< n
<1> DEFINE Below(x) == {y \in S : y < x}
           F == {Below(x) : x \in S}
           R == StrictSubsetOrdering(S)
<1>1. IsFiniteSet(S) /\ S \subseteq Int
  <2>1. IsFiniteSet(MailIds) /\ MailIds \subseteq Int
    BY OutboxAssumption, FS_Interval DEF MailIds
  <2> QED
    BY <2>1, FS_Subset
<1>2. IsWellFoundedOn(R, SUBSET S)
  BY <1>1, FS_StrictSubsetOrderingWellFounded, FS_FiniteSubsetsOfFinite
<1>3. F \subseteq SUBSET S /\ F # {}
  OBVIOUS
<1> HIDE DEF R
<1>4. PICK T \in F : \A U \in F : <<U, T>> \notin R
  BY <1>2, <1>3, WFMin
<1>5. PICK m \in S : T = Below(m)
  BY <1>4
<1>6. ASSUME NEW x \in S, x < m
      PROVE  FALSE
  <2>1. Below(x) \subseteq Below(m) /\ Below(x) # Below(m)
    <3>1. x \in Below(m) /\ x \notin Below(x)
      BY <1>1, <1>6
    <3>2. \A y \in Below(x) : y \in Below(m)
      BY <1>1, <1>6
    <3> QED
      BY <3>1, <3>2
  <2>2. <<Below(x), Below(m)>> \in R
    BY <2>1, <1>3 DEF R, StrictSubsetOrdering
  <2> QED
    BY <2>2, <1>4, <1>5
<1>7. \E l \in S : \A n \in S : l =< n
  BY <1>1, <1>6
<1> QED
  BY <1>7 DEF Least

LEMMA CurrentIsHeld ==
  ASSUME OutboxTypeOK, NEW t \in Ticks, tick[t].pc # "idle"
  PROVE  Current(t) \in tick[t].batch /\ Current(t) \in MailIds
<1>1. tick[t] \in TickState /\ (tick[t].batch = {} => tick[t] = IdleTick)
  BY DEF OutboxTypeOK
<1>2. tick[t].batch \in SUBSET MailIds /\ tick[t].batch # {}
  BY <1>1 DEF TickState, IdleTick
<1> QED
  BY <1>2, LeastIsLeast DEF Current

-----------------------------------------------------------------------------
(***************************************************************************)
(* What a run is about to do to each mail of its batch.                    *)
(***************************************************************************)
\* The run has sent the mail and not yet marked its row.
Marks(t, m) == tick[t].pc = "mark" /\ Current(t) = m

\* The runs that may still send the mail, or leave its row queued.
Unmarked(m) == {t \in Ticks : m \in tick[t].batch /\ ~Marks(t, m)}

\* A step of one run t: what it leaves of its batch, and of its place in it.
LEMMA TickTable ==
  ASSUME OutboxTypeOK, NEW t \in Ticks, NEW STATE new, new \in TickState,
         tick' = [tick EXCEPT ![t] = new], new.batch = {} <=> new = IdleTick
  PROVE  /\ tick' \in [Ticks -> TickState] /\ tick'[t] = new
         /\ \A u \in Ticks : u # t => tick'[u] = tick[u]
         /\ \A u \in Ticks : tick'[u].batch = {} <=> tick'[u] = IdleTick
BY DEF OutboxTypeOK

LEMMA IdleTickTyped == IdleTick \in TickState /\ IdleTick.batch = {} /\ IdleTick.pc = "idle"
BY DEF IdleTick, TickState

\* The run goes on to another step with the same row.
LEMMA GoesEffect ==
  ASSUME OutboxTypeOK, NEW t \in Ticks, NEW pc \in {"mark", "count"},
         tick[t].pc # "idle", Goes(t, pc)
  PROVE  /\ tick' \in [Ticks -> TickState]
         /\ \A u \in Ticks : tick'[u].batch = {} <=> tick'[u] = IdleTick
         /\ \A u \in Ticks : u # t => tick'[u] = tick[u]
         /\ tick'[t].batch = tick[t].batch /\ tick'[t].pc = pc
         /\ Current(t)' = Current(t)
<1> DEFINE new == [tick[t] EXCEPT !.pc = pc]
<1>1. tick[t] \in TickState /\ tick[t].batch # {}
  BY CurrentIsHeld DEF OutboxTypeOK
<1>2. new \in TickState /\ new.batch = tick[t].batch /\ new.pc = pc
  BY <1>1 DEF TickState
<1>3. tick' = [tick EXCEPT ![t] = new]
  BY DEF Goes, OutboxTypeOK
<1>4. new.batch # {} /\ new # IdleTick
  BY <1>1, <1>2, IdleTickTyped
<1> HIDE DEF new
<1>5. /\ tick' \in [Ticks -> TickState] /\ tick'[t] = new
      /\ \A u \in Ticks : u # t => tick'[u] = tick[u]
      /\ \A u \in Ticks : tick'[u].batch = {} <=> tick'[u] = IdleTick
  BY <1>2, <1>3, <1>4, TickTable
<1> QED
  BY <1>2, <1>5 DEF Current

\* The run leaves its row for the next one, or ends.
LEMMA AdvanceEffect ==
  ASSUME OutboxTypeOK, NEW t \in Ticks, tick[t].pc # "idle",
         tick' = [tick EXCEPT ![t] = Advanced(t)]
  PROVE  /\ tick' \in [Ticks -> TickState]
         /\ \A u \in Ticks : tick'[u].batch = {} <=> tick'[u] = IdleTick
         /\ \A u \in Ticks : u # t => tick'[u] = tick[u]
         /\ tick'[t].batch = tick[t].batch \ {Current(t)}
         /\ tick'[t].pc \in {"idle", "send"}
<1> DEFINE rest == tick[t].batch \ {Current(t)}
           onward == [pc |-> "send", batch |-> rest]
<1>1. tick[t].batch \in SUBSET MailIds
  BY DEF OutboxTypeOK, TickState
<1>2. onward \in TickState /\ onward.batch = rest /\ onward.pc = "send"
  BY <1>1 DEF TickState
<1>3. Advanced(t) = IF rest = {} THEN IdleTick ELSE onward
  BY DEF Advanced
<1> HIDE DEF onward
<1>4. CASE rest = {}
  BY <1>3, <1>4, IdleTickTyped, TickTable
<1>5. CASE rest # {}
  BY <1>2, <1>3, <1>5, IdleTickTyped, TickTable
<1> QED
  BY <1>4, <1>5

LEMMA CountTyped ==
  ASSUME NEW S \in SUBSET Ticks
  PROVE  IsFiniteSet(S) /\ Cardinality(S) \in Nat /\ (Cardinality(S) = 0 <=> S = {})
<1>1. IsFiniteSet(S)
  BY OutboxAssumption, FS_Subset
<1> QED
  BY <1>1, FS_CardinalityType, FS_EmptySet

LEMMA OutboxTypeStep == OutboxTypeOK /\ [OutboxNext]_outboxVars => OutboxTypeOK'
<1> SUFFICES ASSUME OutboxTypeOK, [OutboxNext]_outboxVars
             PROVE  OutboxTypeOK'
  OBVIOUS
<1>1. /\ outbox \in [MailIds -> MailRow] /\ faults \in 0..MaxFaults /\ MaxFaults \in Nat
      /\ received \in [MailIds -> Nat] /\ lapses \in [MailIds -> Nat]
      /\ \A t \in Ticks : tick[t] \in TickState
  BY OutboxAssumption DEF OutboxTypeOK
<1>2. CASE UNCHANGED outboxVars
  BY <1>2 DEF outboxVars, OutboxTypeOK
<1>3. ASSUME NEW m \in MailIds, Enqueue(m)
      PROVE  OutboxTypeOK'
  <2>1. outbox' \in [MailIds -> MailRow]
    BY <1>1, <1>3 DEF Enqueue, MailRow
  <2> QED
    BY <1>3, <2>1 DEF Enqueue, OutboxTypeOK
<1>4. ASSUME NEW t \in Ticks, StartTick(t)
      PROVE  OutboxTypeOK'
  <2> DEFINE new == [pc |-> "send", batch |-> Taken]
  <2>1. Taken \subseteq MailIds /\ Taken # {}
    BY <1>4 DEF StartTick, Taken, FirstOf, Pending
  <2>2. new \in TickState /\ new.batch # {} /\ new # IdleTick
    BY <2>1, IdleTickTyped DEF TickState
  <2>3. tick' = [tick EXCEPT ![t] = new] /\ UNCHANGED <<outbox, received, faults>>
    BY <1>4 DEF StartTick
  <2>4. lapses' \in [MailIds -> Nat]
    <3> DEFINE n(m) == Cardinality({u \in Ticks : m \in tick[u].batch})
    <3>1. \A m : n(m) \in Nat
      BY CountTyped
    <3>2. lapses' = [m \in MailIds |-> IF m \in Taken THEN lapses[m] + n(m) ELSE lapses[m]]
      BY <1>4 DEF StartTick
    <3> HIDE DEF n
    <3> QED
      BY <1>1, <3>1, <3>2
  <2> HIDE DEF new
  <2> QED
    BY <2>2, <2>3, <2>4, TickTable DEF OutboxTypeOK
<1>5. ASSUME NEW t \in Ticks, SendMail(t)
      PROVE  OutboxTypeOK'
  <2>1. tick[t].pc # "idle" /\ UNCHANGED <<outbox, lapses, faults>>
        /\ (Goes(t, "mark") \/ Goes(t, "count"))
    BY <1>5 DEF SendMail
  <2>2. received' \in [MailIds -> Nat]
    BY <1>1, <1>5, <2>1, CurrentIsHeld DEF SendMail
  <2> QED
    BY <2>1, <2>2, GoesEffect DEF OutboxTypeOK
<1>6. ASSUME NEW t \in Ticks, MarkSent(t) \/ CountAttempt(t)
      PROVE  OutboxTypeOK'
  <2>1. /\ tick[t].pc # "idle" /\ UNCHANGED <<received, lapses, faults>>
        /\ tick' = [tick EXCEPT ![t] = Advanced(t)]
    BY <1>6 DEF MarkSent, CountAttempt
  <2>2. outbox' \in [MailIds -> MailRow]
    BY <1>1, <1>6, <2>1, CurrentIsHeld DEF MarkSent, CountAttempt, MailRow
  <2> QED
    BY <2>1, <2>2, AdvanceEffect DEF OutboxTypeOK
<1>7. ASSUME NEW t \in Ticks, MarkFails(t)
      PROVE  OutboxTypeOK'
  <2>1. tick[t].pc # "idle" /\ Goes(t, "count") /\ UNCHANGED <<outbox, received>>
    BY <1>7 DEF MarkFails
  <2>2. lapses' \in [MailIds -> Nat] /\ faults' \in 0..MaxFaults
    BY <1>1, <1>7, <2>1, CurrentIsHeld DEF MarkFails, Fault
  <2> QED
    BY <2>1, <2>2, GoesEffect DEF OutboxTypeOK
<1>8. ASSUME NEW t \in Ticks, TickFails(t)
      PROVE  OutboxTypeOK'
  <2>1. tick' = [tick EXCEPT ![t] = IdleTick] /\ UNCHANGED <<outbox, received, lapses>>
    BY <1>8 DEF TickFails
  <2>2. faults' \in 0..MaxFaults
    BY <1>1, <1>8 DEF TickFails, Fault
  <2> QED
    BY <2>1, <2>2, IdleTickTyped, TickTable DEF OutboxTypeOK
<1>9. CASE CrashOutbox
  <2>1. tick' = [t \in Ticks |-> IdleTick] /\ UNCHANGED <<outbox, received>>
    BY <1>9 DEF CrashOutbox
  <2>2. lapses' \in [MailIds -> Nat]
    <3> DEFINE n(m) == Cardinality({t \in Ticks : tick[t].pc = "mark" /\ Current(t) = m})
    <3>1. \A m : n(m) \in Nat
      BY CountTyped
    <3>2. lapses' = [m \in MailIds |-> lapses[m] + n(m)]
      BY <1>9 DEF CrashOutbox
    <3> HIDE DEF n
    <3> QED
      BY <1>1, <3>1, <3>2
  <2>3. faults' \in 0..MaxFaults
    BY <1>1, <1>9 DEF CrashOutbox, Fault
  <2> QED
    BY <2>1, <2>2, <2>3, IdleTickTyped DEF OutboxTypeOK
<1> QED
  BY <1>2, <1>3, <1>4, <1>5, <1>6, <1>7, <1>8, <1>9 DEF OutboxNext, TickStep

LEMMA OutboxTypeStart == OutboxInit => OutboxTypeOK
<1> SUFFICES ASSUME OutboxInit
             PROVE  OutboxTypeOK
  OBVIOUS
<1>1. [status |-> "absent", attempts |-> 0] \in MailRow
  BY DEF MailRow
<1> QED
  BY <1>1, IdleTickTyped, OutboxAssumption DEF OutboxInit, OutboxTypeOK

\* A run between two rows is at one of its batch, and ends with it.
THEOREM OutboxTypeCorrect == OutboxSpec => []OutboxTypeOK
BY OutboxTypeStart, OutboxTypeStep, PTL DEF OutboxSpec

LEMMA OutboxTyped == OutboxSpec => []OutboxTypeOK
BY OutboxTypeCorrect

-----------------------------------------------------------------------------
(***************************************************************************)
(* How often a mail goes.  What has reached the addressee and what the     *)
(* runs may still send is paid for together: by the first run that takes   *)
(* the row, and by the lapses.  A run that has sent the mail and will mark *)
(* it is not one of those, and joins them again when the mark fails.  A    *)
(* queued row no run holds has kept the first for the next run.            *)
(***************************************************************************)
MailInv ==
    /\ \A m \in MailIds : outbox[m].status = "absent" =>
         received[m] = 0 /\ \A t \in Ticks : m \notin tick[t].batch
    /\ \A m \in MailIds : outbox[m].status = "sent" => received[m] > 0
    /\ \A t \in Ticks : tick[t].pc = "mark" => received[Current(t)] > 0
    /\ \A m \in MailIds : received[m] + Cardinality(Unmarked(m)) =< 1 + lapses[m]
    /\ \A m \in MailIds :
         outbox[m].status = "queued" /\ (\A t \in Ticks : m \notin tick[t].batch)
            => received[m] =< lapses[m]

LEMMA UnmarkedCount ==
  ASSUME NEW m
  PROVE  /\ Cardinality(Unmarked(m)) \in Nat
         /\ Unmarked(m) = {} => Cardinality(Unmarked(m)) = 0
         /\ \A t \in Unmarked(m) : Cardinality(Unmarked(m)) >= 1
<1>1. Unmarked(m) \in SUBSET Ticks
  BY DEF Unmarked
<1> QED
  BY <1>1, CountTyped

LEMMA CountChange ==
  ASSUME NEW A \in SUBSET Ticks, NEW B \in SUBSET Ticks, NEW t, A \ {t} = B \ {t}
  PROVE  /\ (t \in A <=> t \in B) => Cardinality(B) = Cardinality(A)
         /\ t \in A /\ t \notin B => Cardinality(B) = Cardinality(A) - 1
         /\ t \notin A /\ t \in B => Cardinality(B) = Cardinality(A) + 1
<1>1. /\ IsFiniteSet(A) /\ Cardinality(A) \in Nat
      /\ IsFiniteSet(B) /\ Cardinality(B) \in Nat
  BY CountTyped
<1>2. (t \in A <=> t \in B) => A = B
  OBVIOUS
<1>3. t \in A /\ t \notin B => B = A \ {t}
  OBVIOUS
<1>4. t \notin A /\ t \in B => A = B \ {t}
  OBVIOUS
<1>5. /\ t \in A => Cardinality(A \ {t}) = Cardinality(A) - 1
      /\ t \in B => Cardinality(B \ {t}) = Cardinality(B) - 1
  BY <1>1, FS_RemoveElement
<1>6. t \notin A /\ t \in B => Cardinality(B) = Cardinality(A) + 1
  <2> SUFFICES ASSUME t \notin A, t \in B
               PROVE  Cardinality(B) = Cardinality(A) + 1
    OBVIOUS
  <2>1. Cardinality(A) = Cardinality(B) - 1
    BY <1>4, <1>5
  <2> QED
    BY <1>1, <2>1
<1> QED
  BY <1>2, <1>3, <1>5, <1>6

\* One run changes the count by its own part in it.
LEMMA UnmarkedChange ==
  ASSUME NEW t \in Ticks, NEW m, \A u \in Ticks : u # t => tick'[u] = tick[u]
  PROVE  /\ (t \in Unmarked(m) <=> t \in Unmarked(m)') =>
              Cardinality(Unmarked(m)') = Cardinality(Unmarked(m))
         /\ t \in Unmarked(m) /\ t \notin Unmarked(m)' =>
              Cardinality(Unmarked(m)') = Cardinality(Unmarked(m)) - 1
         /\ t \notin Unmarked(m) /\ t \in Unmarked(m)' =>
              Cardinality(Unmarked(m)') = Cardinality(Unmarked(m)) + 1
<1> DEFINE before == Unmarked(m)
           after == Unmarked(m)'
<1>1. before \ {t} = after \ {t}
  BY DEF Unmarked, Marks, Current
<1>2. before \in SUBSET Ticks /\ after \in SUBSET Ticks
  BY DEF Unmarked
<1> HIDE DEF before, after
<1>3. /\ (t \in before <=> t \in after) => Cardinality(after) = Cardinality(before)
      /\ t \in before /\ t \notin after => Cardinality(after) = Cardinality(before) - 1
      /\ t \notin before /\ t \in after => Cardinality(after) = Cardinality(before) + 1
  BY <1>1, <1>2, CountChange
<1> QED
  BY <1>3 DEF before, after

\* The steps of a run that keep its batch: send, and a mark that fails.
LEMMA StayStep ==
  ASSUME OutboxTypeOK, MailInv, NEW t \in Ticks, SendMail(t) \/ MarkFails(t)
  PROVE  MailInv'
<1> DEFINE c == Current(t)
<1>1. /\ received \in [MailIds -> Nat] /\ lapses \in [MailIds -> Nat]
      /\ \A m \in MailIds : Cardinality(Unmarked(m)) \in Nat
  BY UnmarkedCount DEF OutboxTypeOK
<1>2. /\ tick[t].pc \in {"send", "mark"} /\ outbox' = outbox
      /\ \E pc \in {"mark", "count"} : Goes(t, pc)
  BY DEF SendMail, MarkFails
<1>3. c \in MailIds /\ c \in tick[t].batch
  BY <1>2, CurrentIsHeld
<1>4. /\ \A u \in Ticks : u # t => tick'[u] = tick[u]
      /\ tick'[t].batch = tick[t].batch /\ tick'[t].pc \in {"mark", "count"}
      /\ Current(t)' = c
  BY <1>2, GoesEffect
<1>5. \A u \in Ticks : u # t => Current(u)' = Current(u)
  BY <1>4 DEF Current
<1>6. \/ /\ SendMail(t) /\ tick[t].pc = "send" /\ lapses' = lapses
         /\ \/ received' = [received EXCEPT ![c] = received[c] + 1] /\ tick'[t].pc = "mark"
            \/ received' = received /\ tick'[t].pc = "count"
      \/ /\ MarkFails(t) /\ tick[t].pc = "mark" /\ received' = received
         /\ lapses' = [lapses EXCEPT ![c] = lapses[c] + 1] /\ tick'[t].pc = "count"
  <2>1. \A pc \in {"mark", "count"} : Goes(t, pc) => tick'[t].pc = pc
    BY <1>2, GoesEffect
  <2>2. CASE SendMail(t)
    BY <2>1, <2>2 DEF SendMail
  <2>3. CASE MarkFails(t)
    BY <2>1, <2>3 DEF MarkFails
  <2> QED
    BY <2>2, <2>3
<1> HIDE DEF c
<1>7. \A m \in MailIds \ {c} : /\ t \in Unmarked(m)' <=> t \in Unmarked(m)
                               /\ received'[m] = received[m] /\ lapses'[m] = lapses[m]
  BY <1>1, <1>4, <1>6 DEF Unmarked, Marks, c
<1>8. \A m \in MailIds : m = c => /\ t \in Unmarked(m) <=> tick[t].pc = "send"
                                  /\ t \in Unmarked(m)' <=> tick'[t].pc = "count"
  BY <1>2, <1>3, <1>4 DEF Unmarked, Marks, c
<1>9. \A m \in MailIds : received'[m] >= received[m]
  BY <1>1, <1>3, <1>6
<1>10. ASSUME NEW m \in MailIds
       PROVE  received'[m] + Cardinality(Unmarked(m)') =< 1 + lapses'[m]
  <2>1. received[m] + Cardinality(Unmarked(m)) =< 1 + lapses[m]
    BY DEF MailInv
  <2>2. CASE m # c
    <3>1. Cardinality(Unmarked(m)') = Cardinality(Unmarked(m))
      BY <1>4, <1>7, <2>2, UnmarkedChange
    <3> QED
      BY <1>7, <2>1, <2>2, <3>1
  <2>3. CASE m = c
    <3>1. received[m] + Cardinality(Unmarked(m)) =< 1 + lapses[m]
      BY <2>1
    <3>2. received[m] \in Nat /\ lapses[m] \in Nat /\ Cardinality(Unmarked(m)) \in Nat
      BY <1>1
    <3>3. CASE tick[t].pc = "send" /\ tick'[t].pc = "mark"
      <4>1. Cardinality(Unmarked(m)') = Cardinality(Unmarked(m)) - 1
        BY <1>4, <1>8, <2>3, <3>3, UnmarkedChange
      <4>2. received'[m] = received[m] + 1 /\ lapses'[m] = lapses[m]
        BY <1>1, <1>6, <2>3, <3>3
      <4> QED
        BY <3>1, <3>2, <4>1, <4>2
    <3>4. CASE tick[t].pc = "send" /\ tick'[t].pc = "count"
      <4>1. Cardinality(Unmarked(m)') = Cardinality(Unmarked(m))
        BY <1>4, <1>8, <2>3, <3>4, UnmarkedChange
      <4>2. received'[m] = received[m] /\ lapses'[m] = lapses[m]
        BY <1>6, <2>3, <3>4
      <4> QED
        BY <3>1, <4>1, <4>2
    <3>5. CASE tick[t].pc = "mark"
      <4>1. tick'[t].pc = "count"
        BY <1>6, <3>5
      <4>2. Cardinality(Unmarked(m)') = Cardinality(Unmarked(m)) + 1
        BY <1>4, <1>8, <2>3, <3>5, <4>1, UnmarkedChange
      <4>3. received'[m] = received[m] /\ lapses'[m] = lapses[m] + 1
        BY <1>1, <1>6, <2>3, <3>5
      <4> QED
        BY <3>1, <3>2, <4>2, <4>3
    <3> QED
      BY <1>2, <1>4, <3>3, <3>4, <3>5
  <2> QED
    BY <2>2, <2>3
<1>11. ASSUME NEW u \in Ticks, tick'[u].pc = "mark"
       PROVE  received'[Current(u)'] > 0
  <2>1. CASE u = t
    BY <1>1, <1>3, <1>4, <1>6, <1>11, <2>1
  <2>2. CASE u # t
    <3>1. tick[u].pc = "mark" /\ Current(u) \in MailIds /\ received[Current(u)] > 0
      BY <1>4, <1>11, <2>2, CurrentIsHeld DEF MailInv
    <3> QED
      BY <1>1, <1>3, <1>5, <1>6, <1>9, <2>2, <3>1
  <2> QED
    BY <2>1, <2>2
<1>12. \A u \in Ticks : tick'[u].batch = tick[u].batch
  BY <1>4
<1>13. \A m \in MailIds : outbox[m].status = "absent" =>
         received'[m] = 0 /\ \A u \in Ticks : m \notin tick'[u].batch
  <2>1. outbox[c].status # "absent"
    BY <1>3 DEF MailInv
  <2> QED
    BY <1>7, <1>12, <2>1 DEF MailInv
<1>14. \A m \in MailIds : outbox[m].status = "sent" => received'[m] > 0
  BY <1>1, <1>3, <1>6, <1>9 DEF MailInv
<1>15. \A m \in MailIds :
         outbox[m].status = "queued" /\ (\A u \in Ticks : m \notin tick'[u].batch)
            => received'[m] =< lapses'[m]
  BY <1>3, <1>7, <1>12 DEF MailInv
<1> QED
  BY <1>2, <1>10, <1>11, <1>13, <1>14, <1>15 DEF MailInv

\* The steps of a run that end its work on a row, or all of it.
LEMMA LeaveStep ==
  ASSUME OutboxTypeOK, MailInv, NEW t \in Ticks,
         MarkSent(t) \/ CountAttempt(t) \/ TickFails(t)
  PROVE  MailInv'
<1> DEFINE c == Current(t)
<1>1. /\ received \in [MailIds -> Nat] /\ lapses \in [MailIds -> Nat]
      /\ outbox \in [MailIds -> MailRow]
      /\ \A m \in MailIds : Cardinality(Unmarked(m)) \in Nat
  BY UnmarkedCount DEF OutboxTypeOK
<1>2. tick[t].pc \in {"mark", "count"} /\ UNCHANGED <<received, lapses>>
  BY DEF MarkSent, CountAttempt, TickFails
<1>3. c \in MailIds /\ c \in tick[t].batch
  BY <1>2, CurrentIsHeld
<1>4. /\ \A u \in Ticks : u # t => tick'[u] = tick[u]
      /\ tick'[t].pc \in {"idle", "send"}
      /\ \/ tick'[t].batch = tick[t].batch \ {c}
         \/ tick'[t].batch = {} /\ TickFails(t)
  <2>1. CASE MarkSent(t) \/ CountAttempt(t)
    <3>1. tick' = [tick EXCEPT ![t] = Advanced(t)]
      BY <2>1 DEF MarkSent, CountAttempt
    <3> QED
      BY <1>2, <3>1, AdvanceEffect
  <2>2. CASE TickFails(t)
    <3>1. tick' = [tick EXCEPT ![t] = IdleTick]
      BY <2>2 DEF TickFails
    <3> QED
      BY <2>2, <3>1, IdleTickTyped, TickTable
  <2> QED
    BY <2>1, <2>2
<1>5. \A u \in Ticks : u # t => Current(u)' = Current(u)
  BY <1>4 DEF Current
<1>6. /\ \A m \in MailIds \ {c} : outbox'[m] = outbox[m]
      /\ MarkSent(t) => outbox'[c].status = "sent"
      /\ ~MarkSent(t) => outbox'[c].status = outbox[c].status
  BY <1>1, <1>3 DEF MarkSent, CountAttempt, TickFails, MailRow
<1> HIDE DEF c
<1>7. tick[t].pc = "mark" <=> MarkSent(t)
  BY DEF MarkSent, CountAttempt, TickFails
<1>8. \A m : t \in Unmarked(m)' => t \in Unmarked(m)
  BY <1>4 DEF Unmarked, Marks, c
<1>9. \A m \in MailIds : received'[m] + Cardinality(Unmarked(m)') =< 1 + lapses'[m]
  <2> SUFFICES ASSUME NEW m \in MailIds
               PROVE  received[m] + Cardinality(Unmarked(m)') =< 1 + lapses[m]
    BY <1>2
  <2>1. received[m] + Cardinality(Unmarked(m)) =< 1 + lapses[m]
    BY DEF MailInv
  <2>2. \/ Cardinality(Unmarked(m)') = Cardinality(Unmarked(m))
        \/ Cardinality(Unmarked(m)') = Cardinality(Unmarked(m)) - 1
    BY <1>4, <1>8, UnmarkedChange
  <2> QED
    BY <1>1, <2>1, <2>2
<1>10. ASSUME NEW u \in Ticks, tick'[u].pc = "mark"
       PROVE  received'[Current(u)'] > 0
  BY <1>2, <1>4, <1>5, <1>10 DEF MailInv
<1>11. outbox[c].status # "absent" /\ (tick[t].pc = "mark" => received[c] > 0)
  BY <1>3 DEF MailInv, c
<1>12. \A u \in Ticks : tick'[u].batch \subseteq tick[u].batch
  BY <1>4
<1>13. \A m \in MailIds :
         /\ outbox'[m].status = "absent" =>
              received'[m] = 0 /\ \A u \in Ticks : m \notin tick'[u].batch
         /\ outbox'[m].status = "sent" => received'[m] > 0
  BY <1>2, <1>6, <1>7, <1>11, <1>12 DEF MailInv
<1>14. ASSUME NEW m \in MailIds, outbox'[m].status = "queued",
              \A u \in Ticks : m \notin tick'[u].batch
       PROVE  received'[m] =< lapses'[m]
  <2>1. outbox[m].status = "queued"
    BY <1>6, <1>7, <1>14
  <2>2. CASE t \in Unmarked(m)
    <3>1. Cardinality(Unmarked(m)) >= 1 /\ received[m] + Cardinality(Unmarked(m)) =< 1 + lapses[m]
      BY <2>2, UnmarkedCount DEF MailInv
    <3> QED
      BY <1>1, <1>2, <3>1
  <2>3. CASE t \notin Unmarked(m)
    <3>1. m \notin tick[t].batch
      <4>1. ASSUME m \in tick[t].batch
            PROVE  FALSE
        <5>1. m = c /\ tick[t].pc = "mark"
          BY <2>3, <4>1 DEF Unmarked, Marks, c
        <5> QED
          BY <1>6, <1>7, <1>14, <5>1
      <4> QED
        BY <4>1
    <3> QED
      BY <1>2, <1>4, <1>14, <2>1, <3>1 DEF MailInv
  <2> QED
    BY <2>2, <2>3
<1> QED
  BY <1>9, <1>10, <1>13, <1>14 DEF MailInv

\* A run that takes a row another run holds is paid for by a lapse; one that takes a
\* row no run holds, by what the queued row has kept.
LEMMA StartStep ==
  ASSUME OutboxTypeOK, MailInv, NEW t \in Ticks, StartTick(t)
  PROVE  MailInv'
<1> DEFINE n(m) == Cardinality({u \in Ticks : m \in tick[u].batch})
           new == [pc |-> "send", batch |-> Taken]
<1>1. /\ received \in [MailIds -> Nat] /\ lapses \in [MailIds -> Nat]
      /\ \A m \in MailIds : Cardinality(Unmarked(m)) \in Nat /\ n(m) \in Nat
  BY UnmarkedCount, CountTyped DEF OutboxTypeOK
<1>2. \A m \in MailIds : (\A u \in Ticks : m \notin tick[u].batch) \/ n(m) >= 1
  <2> SUFFICES ASSUME NEW m \in MailIds, ~(\A u \in Ticks : m \notin tick[u].batch)
               PROVE  n(m) >= 1
    OBVIOUS
  <2> DEFINE H == {u \in Ticks : m \in tick[u].batch}
  <2>1. H \in SUBSET Ticks /\ H # {}
    OBVIOUS
  <2> HIDE DEF H
  <2>2. Cardinality(H) >= 1
    BY <2>1, CountTyped
  <2> QED
    BY <2>2 DEF H
<1>3. /\ tick' = [tick EXCEPT ![t] = new] /\ tick[t] = IdleTick
      /\ lapses' = [m \in MailIds |-> IF m \in Taken THEN lapses[m] + n(m) ELSE lapses[m]]
      /\ UNCHANGED <<outbox, received>>
  BY DEF StartTick
<1>4. Taken \subseteq MailIds /\ \A m \in Taken : outbox[m].status = "queued"
  BY DEF Taken, FirstOf, Pending
<1> HIDE DEF n
<1>5. /\ \A u \in Ticks : u # t => tick'[u] = tick[u]
      /\ tick'[t].pc = "send" /\ tick'[t].batch = Taken
      /\ tick[t].batch = {}
  BY <1>3, IdleTickTyped DEF OutboxTypeOK
<1>6. ASSUME NEW m \in MailIds
      PROVE  received'[m] + Cardinality(Unmarked(m)') =< 1 + lapses'[m]
  <2>1. received[m] + Cardinality(Unmarked(m)) =< 1 + lapses[m]
    BY DEF MailInv
  <2>2. t \notin Unmarked(m) /\ (t \in Unmarked(m)' <=> m \in Taken)
    BY <1>5 DEF Unmarked, Marks
  <2>3. CASE m \notin Taken
    <3>1. Cardinality(Unmarked(m)') = Cardinality(Unmarked(m))
      BY <1>5, <2>2, <2>3, UnmarkedChange
    <3>2. lapses'[m] = lapses[m]
      BY <1>3, <2>3
    <3> QED
      BY <1>3, <2>1, <3>1, <3>2
  <2>4. CASE m \in Taken
    <3>1. Cardinality(Unmarked(m)') = Cardinality(Unmarked(m)) + 1
      BY <1>5, <2>2, <2>4, UnmarkedChange
    <3>2. lapses'[m] = lapses[m] + n(m) /\ received'[m] = received[m]
      BY <1>3, <2>4
    <3>3. received[m] \in Nat /\ lapses[m] \in Nat
          /\ n(m) \in Nat /\ Cardinality(Unmarked(m)) \in Nat
      BY <1>1
    <3>4. CASE n(m) >= 1
      BY <2>1, <3>1, <3>2, <3>3, <3>4
    <3>5. CASE \A u \in Ticks : m \notin tick[u].batch
      <4>1. Unmarked(m) = {} /\ received[m] =< lapses[m]
        BY <1>4, <2>4, <3>5 DEF MailInv, Unmarked
      <4>2. Cardinality(Unmarked(m)) = 0
        BY <4>1, UnmarkedCount
      <4> QED
        BY <3>1, <3>2, <3>3, <4>1, <4>2
    <3> QED
      BY <1>2, <3>4, <3>5
  <2> QED
    BY <2>3, <2>4
<1>7. ASSUME NEW u \in Ticks, tick'[u].pc = "mark"
      PROVE  received'[Current(u)'] > 0
  <2>1. tick'[u] = tick[u]
    BY <1>5, <1>7
  <2> QED
    BY <1>3, <1>7, <2>1 DEF MailInv, Current
<1>8. \A m \in MailIds : outbox'[m].status = "absent" =>
        received'[m] = 0 /\ \A u \in Ticks : m \notin tick'[u].batch
  BY <1>3, <1>4, <1>5 DEF MailInv
<1>9. \A m \in MailIds : outbox'[m].status = "sent" => received'[m] > 0
  BY <1>3 DEF MailInv
<1>10. ASSUME NEW m \in MailIds, outbox'[m].status = "queued",
              \A u \in Ticks : m \notin tick'[u].batch
       PROVE  received'[m] =< lapses'[m]
  <2>1. m \notin Taken /\ \A u \in Ticks : m \notin tick[u].batch
    BY <1>5, <1>10
  <2>2. lapses'[m] = lapses[m]
    BY <1>3, <2>1
  <2> QED
    BY <1>3, <1>10, <2>1, <2>2 DEF MailInv
<1> QED
  BY <1>6, <1>7, <1>8, <1>9, <1>10 DEF MailInv

\* A crash lets every row go: a run that had sent the mail and not marked it leaves a
\* lapse, and one that had still to send it gives back what it was allowed.
LEMMA CrashStep ==
  ASSUME OutboxTypeOK, MailInv, CrashOutbox
  PROVE  MailInv'
<1> DEFINE n(m) == Cardinality({t \in Ticks : tick[t].pc = "mark" /\ Current(t) = m})
<1>1. /\ received \in [MailIds -> Nat] /\ lapses \in [MailIds -> Nat]
      /\ \A m \in MailIds : Cardinality(Unmarked(m)) \in Nat /\ n(m) \in Nat
  BY UnmarkedCount, CountTyped DEF OutboxTypeOK
<1>2. \A m \in MailIds, t \in Ticks : Marks(t, m) => n(m) >= 1
  <2> SUFFICES ASSUME NEW m \in MailIds, NEW t \in Ticks, Marks(t, m)
               PROVE  n(m) >= 1
    OBVIOUS
  <2> DEFINE H == {u \in Ticks : tick[u].pc = "mark" /\ Current(u) = m}
  <2>1. H \in SUBSET Ticks /\ H # {}
    BY DEF Marks
  <2> HIDE DEF H
  <2>2. Cardinality(H) >= 1
    BY <2>1, CountTyped
  <2> QED
    BY <2>2 DEF H
<1>3. /\ tick' = [t \in Ticks |-> IdleTick]
      /\ lapses' = [m \in MailIds |-> lapses[m] + n(m)]
      /\ UNCHANGED <<outbox, received>>
  BY DEF CrashOutbox
<1> HIDE DEF n
<1>4. \A t \in Ticks : tick'[t].batch = {} /\ tick'[t].pc = "idle"
  BY <1>3, IdleTickTyped
<1>5. ASSUME NEW m \in MailIds
      PROVE  /\ received[m] \in Nat /\ lapses[m] \in Nat /\ n(m) \in Nat
             /\ Cardinality(Unmarked(m)) \in Nat
             /\ lapses'[m] = lapses[m] + n(m) /\ received'[m] = received[m]
             /\ received[m] + Cardinality(Unmarked(m)) =< 1 + lapses[m]
  BY <1>1, <1>3 DEF MailInv
<1>6. ASSUME NEW m \in MailIds
      PROVE  received'[m] + Cardinality(Unmarked(m)') =< 1 + lapses'[m]
  <2>1. Unmarked(m)' = {}
    BY <1>4 DEF Unmarked
  <2>2. Cardinality(Unmarked(m)') = 0
    BY <2>1, FS_EmptySet
  <2> QED
    BY <1>5, <2>2
<1>7. ASSUME NEW m \in MailIds, outbox[m].status = "queued"
      PROVE  received'[m] =< lapses'[m]
  <2>1. CASE \A t \in Ticks : m \notin tick[t].batch
    <3>1. received[m] =< lapses[m]
      BY <1>7, <2>1 DEF MailInv
    <3> QED
      BY <1>5, <3>1
  <2>2. ASSUME NEW t \in Ticks, m \in tick[t].batch
        PROVE  received'[m] =< lapses'[m]
    <3>1. CASE Marks(t, m)
      <4>1. n(m) >= 1
        BY <1>2, <3>1
      <4> QED
        BY <1>5, <4>1
    <3>2. CASE t \in Unmarked(m)
      <4>1. Cardinality(Unmarked(m)) >= 1
        BY <3>2, UnmarkedCount
      <4> QED
        BY <1>5, <4>1
    <3> QED
      BY <2>2, <3>1, <3>2 DEF Unmarked
  <2> QED
    BY <2>1, <2>2
<1> QED
  BY <1>3, <1>4, <1>6, <1>7 DEF MailInv

LEMMA EnqueueStep ==
  ASSUME OutboxTypeOK, MailInv, NEW e \in MailIds, Enqueue(e)
  PROVE  MailInv'
<1>1. /\ received \in [MailIds -> Nat] /\ lapses \in [MailIds -> Nat]
      /\ outbox \in [MailIds -> MailRow]
  BY DEF OutboxTypeOK
<1>2. UNCHANGED <<tick, received, lapses>> /\ outbox[e].status = "absent"
  BY DEF Enqueue
<1>3. /\ outbox'[e].status = "queued"
      /\ \A m \in MailIds \ {e} : outbox'[m] = outbox[m]
  BY <1>1 DEF Enqueue, MailRow
<1>4. received[e] = 0
  BY <1>2 DEF MailInv
<1>5. \A m \in MailIds : received'[m] + Cardinality(Unmarked(m)') =< 1 + lapses'[m]
  BY <1>2 DEF MailInv, Unmarked, Marks, Current
<1>6. \A t \in Ticks : tick'[t].pc = "mark" => received'[Current(t)'] > 0
  BY <1>2 DEF MailInv, Current
<1>7. \A m \in MailIds :
        /\ outbox'[m].status = "absent" =>
             received'[m] = 0 /\ \A t \in Ticks : m \notin tick'[t].batch
        /\ outbox'[m].status = "sent" => received'[m] > 0
  BY <1>2, <1>3 DEF MailInv
<1>8. \A m \in MailIds :
        outbox'[m].status = "queued" /\ (\A t \in Ticks : m \notin tick'[t].batch)
           => received'[m] =< lapses'[m]
  BY <1>1, <1>2, <1>3, <1>4 DEF MailInv
<1> QED
  BY <1>5, <1>6, <1>7, <1>8 DEF MailInv

LEMMA MailStep == OutboxTypeOK /\ MailInv /\ [OutboxNext]_outboxVars => MailInv'
<1> SUFFICES ASSUME OutboxTypeOK, MailInv, [OutboxNext]_outboxVars
             PROVE  MailInv'
  OBVIOUS
<1>1. CASE UNCHANGED outboxVars
  BY <1>1 DEF outboxVars, MailInv, Unmarked, Marks, Current
<1>2. CASE \E m \in MailIds : Enqueue(m)
  BY <1>2, EnqueueStep
<1>3. CASE \E t \in Ticks : StartTick(t)
  BY <1>3, StartStep
<1>4. CASE \E t \in Ticks : SendMail(t) \/ MarkFails(t)
  BY <1>4, StayStep
<1>5. CASE \E t \in Ticks : MarkSent(t) \/ CountAttempt(t) \/ TickFails(t)
  BY <1>5, LeaveStep
<1>6. CASE CrashOutbox
  BY <1>6, CrashStep
<1> QED
  BY <1>1, <1>2, <1>3, <1>4, <1>5, <1>6 DEF OutboxNext, TickStep

LEMMA MailStart == OutboxInit => MailInv
<1> SUFFICES ASSUME OutboxInit
             PROVE  MailInv
  OBVIOUS
<1>1. /\ \A t \in Ticks : tick[t].batch = {} /\ tick[t].pc = "idle"
      /\ \A m \in MailIds : /\ outbox[m].status = "absent"
                            /\ received[m] = 0 /\ lapses[m] = 0
  BY IdleTickTyped DEF OutboxInit
<1>2. \A m : Cardinality(Unmarked(m)) = 0
  <2>1. \A m : Unmarked(m) = {}
    BY <1>1 DEF Unmarked
  <2> QED
    BY <2>1, FS_EmptySet
<1> QED
  BY <1>1, <1>2 DEF MailInv

\* A mail reaches its addressee once, and once more at most for each run that took
\* its row from under another, each mark that failed and each crash before a mark;
\* and a row is marked sent only when its mail has gone.
THEOREM MailOnce == OutboxSpec => []MailedOnce
<1>1. OutboxTypeOK /\ MailInv => MailedOnce
  <2> SUFFICES ASSUME OutboxTypeOK, MailInv, NEW m \in MailIds
               PROVE  /\ received[m] =< 1 + lapses[m]
                      /\ outbox[m].status = "sent" => received[m] > 0
    BY DEF MailedOnce
  <2>1. /\ received[m] \in Nat /\ lapses[m] \in Nat /\ Cardinality(Unmarked(m)) \in Nat
        /\ received[m] + Cardinality(Unmarked(m)) =< 1 + lapses[m]
    BY UnmarkedCount DEF OutboxTypeOK, MailInv
  <2> QED
    BY <2>1 DEF MailInv
<1> QED
  BY <1>1, MailStart, MailStep, OutboxTypeStart, OutboxTypeStep, PTL DEF OutboxSpec
=============================================================================
