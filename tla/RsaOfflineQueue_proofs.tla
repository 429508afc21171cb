----------------------- MODULE RsaOfflineQueue_proofs -----------------------
(***************************************************************************)
(* Proofs about RsaOfflineQueue, for any number of operations, flushes and *)
(* mishaps.                                                                *)
(***************************************************************************)
EXTENDS RsaOfflineQueue, FiniteSetTheorems, TLAPS

-----------------------------------------------------------------------------
(***************************************************************************)
(* Types, and what is in step with what: the numbering of the operations   *)
(* with their times, and a flush with the operations it has listed.        *)
(***************************************************************************)
FlushTyped(flush) ==
    /\ flush.pc = "idle" => flush = IdleFlush
    /\ flush.pc = "execute" => flush.op = 0
    /\ flush.pc \in {"remove", "putBack"} => flush.op \in flush.list
    /\ \A o \in flush.list : made[o] # 0

QueueTypes ==
    /\ QueueTypeOK
    /\ \A f \in Flushers : FlushTyped(flusher[f])
    /\ \A o \in store : made[o] # 0
    /\ \A o \in OpIds : made[o] =< o /\ (executed[o] > 0 => made[o] # 0)
    /\ \A o, p \in OpIds : o < p /\ made[p] # 0 => made[o] # 0 /\ made[o] =< made[p]

\* A new operation is no older than any.
LEMMA EnqueueEffect ==
  ASSUME QueueTypes, NEW o \in OpIds, EnqueueOp(o)
  PROVE  /\ made \in [OpIds -> 0..MaxOps] /\ made' \in [OpIds -> 0..MaxOps]
         /\ made[o] = 0 /\ made'[o] # 0 /\ made'[o] =< o
         /\ \A p \in OpIds : /\ p # o => made'[p] = made[p]
                             /\ made'[p] =< made'[o]
                             /\ p < o => made[p] # 0
         /\ store' = store \cup {o}
         /\ UNCHANGED <<online, flusher, executed, excuses, mishaps>>
<1>1. /\ made \in [OpIds -> 0..MaxOps] /\ MaxOps \in Nat
      /\ \A p \in OpIds : made[p] =< p
      /\ \A p, q \in OpIds : p < q /\ made[q] # 0 => made[p] # 0 /\ made[p] =< made[q]
  BY QueueAssumption DEF QueueTypes, QueueTypeOK
<1> DEFINE before == IF o = 1 THEN 0 ELSE made[o - 1]
<1>2. /\ o \in 1..MaxOps /\ made[o] = 0 /\ (o = 1 \/ before # 0)
      /\ store' = store \cup {o}
      /\ UNCHANGED <<online, flusher, executed, excuses, mishaps>>
  BY DEF EnqueueOp, OpIds
<1>3. PICK at \in {before, before + 1} \ {0} : made' = [made EXCEPT ![o] = at]
  BY DEF EnqueueOp
<1>4. before \in Nat /\ before < o
  BY <1>1, <1>2 DEF OpIds
<1>5. at \in Nat /\ before =< at /\ at =< o /\ at # 0
  BY <1>3, <1>4, <1>2
<1>6. \A p \in OpIds : made[p] =< before
  <2> SUFFICES ASSUME NEW p \in OpIds
               PROVE  made[p] =< before
    OBVIOUS
  <2>1. CASE p < o
    BY SMTT(30), <1>1, <1>2, <2>1 DEF OpIds
  <2>2. CASE p = o
    BY <1>2, <1>4, <2>2
  <2>3. CASE o < p
    BY <1>1, <1>2, <1>4, <2>3 DEF OpIds
  <2> QED
    BY <1>2, <2>1, <2>2, <2>3 DEF OpIds
<1>7. \A p \in OpIds : p < o => made[p] # 0
  BY <1>1, <1>2 DEF OpIds
<1> HIDE DEF before
<1>8. /\ made'[o] = at /\ \A p \in OpIds : p # o => made'[p] = made[p]
      /\ made' \in [OpIds -> 0..MaxOps]
  BY <1>1, <1>2, <1>3, <1>5 DEF OpIds
<1>9. \A p \in OpIds : made'[p] =< made'[o]
  BY <1>1, <1>4, <1>5, <1>6, <1>8
<1> QED
  BY <1>1, <1>2, <1>5, <1>7, <1>8, <1>9

\* What the steps of a flush do to it.
LEMMA FlushTable ==
  ASSUME QueueTypes, NEW f \in Flushers, NEW STATE flush, flush \in FlushState,
         flusher' = [flusher EXCEPT ![f] = flush]
  PROVE  /\ flusher' \in [Flushers -> FlushState] /\ flusher'[f] = flush
         /\ \A g \in Flushers : g # f => flusher'[g] = flusher[g]
BY DEF QueueTypes, QueueTypeOK

LEMMA IdleFlushTyped == IdleFlush \in FlushState /\ IdleFlush.list = {} /\ IdleFlush.pc = "idle"
BY DEF IdleFlush, FlushState

\* A flush lists the store; it has then one operation, of the oldest, carried out,
\* or not; it removes it, or it puts it back and ends.
LEMMA StartEffect ==
  ASSUME QueueTypes, NEW f \in Flushers, StartFlush(f)
  PROVE  /\ flusher' \in [Flushers -> FlushState]
         /\ flusher[f] = IdleFlush
         /\ flusher'[f] = [pc |-> "execute", list |-> store, op |-> 0]
         /\ \A g \in Flushers : g # f => flusher'[g] = flusher[g]
         /\ excuses' \in [OpIds -> Nat] /\ mishaps' \in 0..MaxMishaps
         /\ \A o \in OpIds : excuses'[o] =
              IF o \in store /\ \E g \in Flushers : o \in flusher[g].list
              THEN excuses[o] + 1 ELSE excuses[o]
         /\ UNCHANGED <<online, made, store, executed>>
<1> DEFINE flush == [pc |-> "execute", list |-> store, op |-> 0]
           held == UNION {flusher[g].list : g \in Flushers}
<1>1. flush \in FlushState /\ flusher' = [flusher EXCEPT ![f] = flush]
  BY DEF StartFlush, FlushState, QueueTypes, QueueTypeOK
<1>2. \A o : o \in held <=> \E g \in Flushers : o \in flusher[g].list
  OBVIOUS
<1>3. /\ excuses \in [OpIds -> Nat] /\ mishaps \in 0..MaxMishaps
      /\ store \subseteq OpIds /\ MaxMishaps \in Nat
  BY QueueAssumption DEF QueueTypes, QueueTypeOK
<1>4. /\ UNCHANGED <<online, made, store, executed>> /\ flusher[f] = IdleFlush
      /\ IF held \cap store = {} THEN UNCHANGED <<excuses, mishaps>>
                                 ELSE Mishap /\ Excuse(held \cap store)
  BY DEF StartFlush
<1> HIDE DEF flush, held
<1>5. /\ excuses' \in [OpIds -> Nat] /\ mishaps' \in 0..MaxMishaps
      /\ \A o \in OpIds : excuses'[o] =
           IF o \in held \cap store THEN excuses[o] + 1 ELSE excuses[o]
  BY <1>3, <1>4 DEF Mishap, Excuse
<1>6. /\ flusher' \in [Flushers -> FlushState] /\ flusher'[f] = flush
      /\ \A g \in Flushers : g # f => flusher'[g] = flusher[g]
  BY <1>1, FlushTable
<1> QED
  BY <1>2, <1>4, <1>5, <1>6 DEF flush

LEMMA ExecuteEffect ==
  ASSUME QueueTypes, NEW f \in Flushers, ExecuteOp(f)
  PROVE  \E o \in flusher[f].list :
           /\ \A p \in flusher[f].list : made[o] =< made[p]
           /\ flusher[f].pc = "execute" /\ o \in OpIds
           /\ flusher' \in [Flushers -> FlushState]
           /\ flusher'[f].list = flusher[f].list /\ flusher'[f].op = o
           /\ flusher'[f].pc \in {"remove", "putBack"}
           /\ \A g \in Flushers : g # f => flusher'[g] = flusher[g]
           /\ executed' \in [OpIds -> Nat] /\ excuses' \in [OpIds -> Nat]
           /\ mishaps' \in 0..MaxMishaps
           /\ \A p \in OpIds : p # o => /\ executed'[p] = executed[p]
                                        /\ excuses'[p] = excuses[p]
           /\ \/ /\ flusher'[f].pc = "remove"
                 /\ executed'[o] = executed[o] + 1 /\ excuses'[o] = excuses[o]
              \/ /\ flusher'[f].pc = "putBack"
                 /\ executed'[o] = executed[o] /\ excuses'[o] = excuses[o]
              \/ /\ flusher'[f].pc = "putBack"
                 /\ executed'[o] = executed[o] + 1 /\ excuses'[o] = excuses[o] + 1
           /\ UNCHANGED <<online, made, store>>
<1>1. /\ flusher \in [Flushers -> FlushState] /\ flusher[f] \in FlushState
      /\ flusher[f].list \subseteq OpIds
      /\ executed \in [OpIds -> Nat] /\ excuses \in [OpIds -> Nat]
      /\ mishaps \in 0..MaxMishaps /\ MaxMishaps \in Nat
  BY QueueAssumption DEF QueueTypes, QueueTypeOK, FlushState
<1> DEFINE Next(o, pc) == flusher' = [flusher EXCEPT ![f] = [@ EXCEPT !.pc = pc, !.op = o]]
           Reached(o) == executed' = [executed EXCEPT ![o] = @ + 1]
<1>2. PICK o \in Oldest(flusher[f].list) :
        \/ Reached(o) /\ Next(o, "remove") /\ UNCHANGED <<excuses, mishaps>>
        \/ Next(o, "putBack") /\ UNCHANGED <<executed, excuses, mishaps>>
        \/ Reached(o) /\ Next(o, "putBack") /\ Mishap /\ Excuse({o})
  BY DEF ExecuteOp
<1>3. o \in flusher[f].list /\ o \in OpIds /\ \A p \in flusher[f].list : made[o] =< made[p]
  BY <1>1, <1>2 DEF Oldest
<1>4. \A pc \in {"remove", "putBack"} : Next(o, pc) =>
        /\ flusher' \in [Flushers -> FlushState]
        /\ flusher'[f].list = flusher[f].list /\ flusher'[f].op = o /\ flusher'[f].pc = pc
        /\ \A g \in Flushers : g # f => flusher'[g] = flusher[g]
  <2> SUFFICES ASSUME NEW pc \in {"remove", "putBack"}, Next(o, pc)
               PROVE  /\ flusher' \in [Flushers -> FlushState]
                      /\ flusher'[f].list = flusher[f].list /\ flusher'[f].op = o
                      /\ flusher'[f].pc = pc
                      /\ \A g \in Flushers : g # f => flusher'[g] = flusher[g]
    BY Zenon
  <2>1. flusher[f] \in FlushState /\ o \in OpIds
    BY <1>1, <1>3
  <2> DEFINE flush == [flusher[f] EXCEPT !.pc = pc, !.op = o]
  <2>2. flush \in FlushState /\ flush.list = flusher[f].list /\ flush.op = o /\ flush.pc = pc
    BY <2>1 DEF FlushState
  <2>3. flusher' = [flusher EXCEPT ![f] = flush]
    OBVIOUS
  <2> HIDE DEF flush
  <2> QED
    BY <2>2, <2>3, FlushTable
<1>5. Reached(o) => /\ executed' \in [OpIds -> Nat] /\ executed'[o] = executed[o] + 1
                    /\ \A p \in OpIds : p # o => executed'[p] = executed[p]
  BY <1>1, <1>3
<1>6. Mishap /\ Excuse({o}) =>
        /\ excuses' \in [OpIds -> Nat] /\ mishaps' \in 0..MaxMishaps
        /\ excuses'[o] = excuses[o] + 1
        /\ \A p \in OpIds : p # o => excuses'[p] = excuses[p]
  BY <1>1, <1>3 DEF Mishap, Excuse
<1>7. flusher[f].pc = "execute" /\ UNCHANGED <<online, made, store>>
  BY DEF ExecuteOp
<1> HIDE DEF Next, Reached
<1>8. /\ flusher' \in [Flushers -> FlushState]
      /\ flusher'[f].list = flusher[f].list /\ flusher'[f].op = o
      /\ flusher'[f].pc \in {"remove", "putBack"}
      /\ \A g \in Flushers : g # f => flusher'[g] = flusher[g]
  BY <1>2, <1>4
<1>9. /\ executed' \in [OpIds -> Nat] /\ excuses' \in [OpIds -> Nat]
      /\ mishaps' \in 0..MaxMishaps
      /\ \A p \in OpIds : p # o => executed'[p] = executed[p] /\ excuses'[p] = excuses[p]
  BY <1>1, <1>2, <1>5, <1>6
<1>10. \/ /\ flusher'[f].pc = "remove"
          /\ executed'[o] = executed[o] + 1 /\ excuses'[o] = excuses[o]
       \/ /\ flusher'[f].pc = "putBack"
          /\ executed'[o] = executed[o] /\ excuses'[o] = excuses[o]
       \/ /\ flusher'[f].pc = "putBack"
          /\ executed'[o] = executed[o] + 1 /\ excuses'[o] = excuses[o] + 1
  BY <1>2, <1>4, <1>5, <1>6
<1> QED
  BY <1>3, <1>7, <1>8, <1>9, <1>10

LEMMA ReleaseEffect ==
  ASSUME QueueTypes, NEW f \in Flushers, RemoveOp(f) \/ PutBack(f) \/ ClosePage(f)
  PROVE  /\ flusher' \in [Flushers -> FlushState]
         /\ \A g \in Flushers : g # f => flusher'[g] = flusher[g]
         /\ flusher[f].pc # "idle"
         /\ \/ /\ flusher'[f] = IdleFlush /\ flusher'[f].list = {}
            \/ /\ flusher'[f].pc = "execute" /\ flusher'[f].op = 0
               /\ flusher[f].pc = "remove"
               /\ flusher'[f].list = flusher[f].list \ {flusher[f].op}
         /\ UNCHANGED <<online, made, executed>>
<1>1. flusher[f] \in FlushState /\ FlushTyped(flusher[f])
  BY DEF QueueTypes, QueueTypeOK
<1> DEFINE rest == flusher[f].list \ {flusher[f].op}
           onward == [pc |-> "execute", list |-> rest, op |-> 0]
<1>2. onward \in FlushState
  BY <1>1 DEF FlushState
<1>3. \/ flusher' = [flusher EXCEPT ![f] = IdleFlush]
      \/ flusher[f].pc = "remove" /\ flusher' = [flusher EXCEPT ![f] = onward]
  BY DEF RemoveOp, PutBack, ClosePage
<1>4. flusher[f].pc # "idle" /\ UNCHANGED <<online, made, executed>>
  BY <1>1 DEF RemoveOp, PutBack, ClosePage, FlushTyped
<1>5. onward.pc = "execute" /\ onward.op = 0 /\ onward.list = rest
  OBVIOUS
<1> HIDE DEF onward
<1>6. CASE flusher' = [flusher EXCEPT ![f] = IdleFlush]
  BY <1>4, <1>6, IdleFlushTyped, FlushTable
<1>7. CASE flusher[f].pc = "remove" /\ flusher' = [flusher EXCEPT ![f] = onward]
  BY <1>2, <1>4, <1>5, <1>7, FlushTable
<1> QED
  BY <1>3, <1>6, <1>7

\* Only a page closed before the removal excuses, and only the operation it had sent.
LEMMA ReleaseMore ==
  ASSUME QueueTypes, NEW f \in Flushers, RemoveOp(f) \/ PutBack(f) \/ ClosePage(f)
  PROVE  /\ excuses' \in [OpIds -> Nat] /\ mishaps' \in 0..MaxMishaps
         /\ \A o \in OpIds : excuses'[o] =
              IF /\ ClosePage(f) /\ flusher[f].pc = "remove" /\ o = flusher[f].op
              THEN excuses[o] + 1 ELSE excuses[o]
         /\ \/ /\ flusher[f].pc = "remove" /\ store' = store \ {flusher[f].op}
            \/ flusher[f].pc = "putBack" /\ store' = store \cup {flusher[f].op}
            \/ ClosePage(f) /\ store' = store
<1>1. /\ excuses \in [OpIds -> Nat] /\ mishaps \in 0..MaxMishaps /\ MaxMishaps \in Nat
  BY QueueAssumption DEF QueueTypes, QueueTypeOK
<1>2. ClosePage(f) => flusher'[f] = IdleFlush
  BY DEF ClosePage, QueueTypes, QueueTypeOK
<1>3. CASE ClosePage(f)
  <2>1. Excuse(IF flusher[f].pc = "remove" THEN {flusher[f].op} ELSE {})
        /\ Mishap /\ store' = store
    BY <1>3 DEF ClosePage
  <2> QED
    BY <1>1, <1>3, <2>1 DEF Excuse, Mishap
<1>4. CASE ~ClosePage(f)
  BY <1>1, <1>4 DEF RemoveOp, PutBack
<1> QED
  BY <1>3, <1>4

LEMMA QueueTypeStep == QueueTypes /\ [QueueNext]_queueVars => QueueTypes'
<1> SUFFICES ASSUME QueueTypes, [QueueNext]_queueVars
             PROVE  QueueTypes'
  OBVIOUS
<1>1. /\ QueueTypeOK /\ OpIds = 1..MaxOps
      /\ \A f \in Flushers : FlushTyped(flusher[f]) /\ flusher[f] \in FlushState
      /\ \A o \in store : made[o] # 0
      /\ \A o \in OpIds : made[o] =< o /\ (executed[o] > 0 => made[o] # 0)
      /\ \A o, p \in OpIds : o < p /\ made[p] # 0 => made[o] # 0 /\ made[o] =< made[p]
  BY DEF QueueTypes, QueueTypeOK, OpIds
<1>2. CASE UNCHANGED queueVars
  BY <1>1, <1>2 DEF queueVars, QueueTypes, QueueTypeOK, FlushTyped
<1>3. CASE Network
  BY <1>1, <1>3 DEF Network, QueueTypes, QueueTypeOK, FlushTyped
<1>4. ASSUME NEW o \in OpIds, EnqueueOp(o)
      PROVE  QueueTypes'
  <2>1. /\ made \in [OpIds -> 0..MaxOps] /\ made' \in [OpIds -> 0..MaxOps]
        /\ made[o] = 0 /\ made'[o] # 0 /\ made'[o] =< o
        /\ \A p \in OpIds : /\ p # o => made'[p] = made[p]
                            /\ made'[p] =< made'[o]
                            /\ p < o => made[p] # 0
        /\ store' = store \cup {o}
        /\ UNCHANGED <<online, flusher, executed, excuses, mishaps>>
    BY <1>4, EnqueueEffect
  <2>2. QueueTypeOK'
    BY <1>1, <2>1 DEF QueueTypeOK
  <2>3. ASSUME NEW f \in Flushers
        PROVE  FlushTyped(flusher[f])'
    <3>1. flusher[f].list \subseteq OpIds
      BY <1>1 DEF FlushState
    <3> QED
      BY <1>1, <2>1, <3>1 DEF FlushTyped
  <2>4. \A p \in store' : made'[p] # 0
    BY <1>1, <2>1 DEF QueueTypeOK
  <2>5. \A p \in OpIds : made'[p] =< p /\ (executed'[p] > 0 => made'[p] # 0)
    BY <1>1, <2>1
  <2>6. \A p, q \in OpIds : p < q /\ made'[q] # 0 => made'[p] # 0 /\ made'[p] =< made'[q]
    BY <1>1, <2>1
  <2> QED
    BY <2>2, <2>3, <2>4, <2>5, <2>6 DEF QueueTypes
<1>5. ASSUME NEW f \in Flushers, StartFlush(f)
      PROVE  QueueTypes'
  <2>1. QueueTypeOK' /\ UNCHANGED <<made, store, executed>>
    BY <1>1, <1>5, StartEffect DEF QueueTypeOK
  <2>2. ASSUME NEW g \in Flushers
        PROVE  FlushTyped(flusher'[g])
    BY <1>1, <1>5, <2>1, StartEffect DEF FlushTyped
  <2> QED
    BY <1>1, <2>1, <2>2 DEF QueueTypes, FlushTyped
<1>6. ASSUME NEW f \in Flushers, ExecuteOp(f)
      PROVE  QueueTypes'
  <2>1. PICK o \in flusher[f].list :
           /\ o \in OpIds
           /\ flusher' \in [Flushers -> FlushState]
           /\ flusher'[f].list = flusher[f].list /\ flusher'[f].op = o
           /\ flusher'[f].pc \in {"remove", "putBack"}
           /\ \A g \in Flushers : g # f => flusher'[g] = flusher[g]
           /\ executed' \in [OpIds -> Nat] /\ excuses' \in [OpIds -> Nat]
           /\ mishaps' \in 0..MaxMishaps
           /\ \A p \in OpIds : p # o => executed'[p] = executed[p]
           /\ UNCHANGED <<online, made, store>>
    BY <1>6, ExecuteEffect
  <2>2. QueueTypeOK'
    BY <1>1, <2>1 DEF QueueTypeOK
  <2>3. ASSUME NEW g \in Flushers
        PROVE  FlushTyped(flusher'[g])
    BY <1>1, <2>1 DEF FlushTyped
  <2>4. made[o] # 0
    BY <1>1, <2>1 DEF FlushTyped
  <2> QED
    BY <1>1, <2>1, <2>2, <2>3, <2>4 DEF QueueTypes, FlushTyped
<1>7. ASSUME NEW f \in Flushers, RemoveOp(f) \/ PutBack(f) \/ ClosePage(f)
      PROVE  QueueTypes'
  <2>1. flusher[f].op \in OpIds \cup {0} /\ flusher[f].list \subseteq OpIds
    BY <1>1 DEF FlushState
  <2>2. store' \subseteq OpIds /\ \A o \in store' : made[o] # 0
    <3>1. \/ flusher[f].pc = "remove" /\ store' = store \ {flusher[f].op}
          \/ flusher[f].pc = "putBack" /\ store' = store \cup {flusher[f].op}
          \/ store' = store
      BY <1>7, ReleaseMore
    <3>2. store \subseteq OpIds /\ \A o \in store : made[o] # 0
      BY <1>1 DEF QueueTypeOK
    <3>3. flusher[f].pc = "putBack" => flusher[f].op \in OpIds /\ made[flusher[f].op] # 0
      BY <1>1, <2>1 DEF FlushTyped
    <3> QED
      BY <3>1, <3>2, <3>3
  <2>3. QueueTypeOK' /\ UNCHANGED <<made, executed>>
    BY <1>1, <1>7, <2>2, ReleaseEffect, ReleaseMore DEF QueueTypeOK
  <2>4. ASSUME NEW g \in Flushers
        PROVE  FlushTyped(flusher'[g])
    <3>1. CASE g = f
      BY <1>1, <1>7, <2>3, <3>1, ReleaseEffect, IdleFlushTyped DEF FlushTyped
    <3>2. CASE g # f
      BY <1>1, <1>7, <2>3, <3>2, ReleaseEffect DEF FlushTyped
    <3> QED
      BY <3>1, <3>2
  <2> QED
    BY <1>1, <2>2, <2>3, <2>4 DEF QueueTypes, FlushTyped
<1> QED
  BY <1>2, <1>3, <1>4, <1>5, <1>6, <1>7 DEF QueueNext

LEMMA QueueTypeStart == QueueInit => QueueTypes
<1> SUFFICES ASSUME QueueInit
             PROVE  QueueTypes
  OBVIOUS
<1>1. QueueTypeOK
  <2>1. online \in BOOLEAN
    BY Zenon DEF QueueInit
  <2>2. /\ made \in [OpIds -> 0..MaxOps] /\ store \subseteq OpIds /\ mishaps \in 0..MaxMishaps
        /\ executed \in [OpIds -> Nat] /\ excuses \in [OpIds -> Nat]
    BY QueueAssumption DEF QueueInit
  <2>3. flusher \in [Flushers -> FlushState]
    BY IdleFlushTyped DEF QueueInit
  <2> QED
    BY <2>1, <2>2, <2>3 DEF QueueTypeOK
<1>2. \A f \in Flushers : FlushTyped(flusher[f])
  BY IdleFlushTyped DEF QueueInit, FlushTyped
<1> QED
  BY <1>1, <1>2 DEF QueueInit, QueueTypes, OpIds

LEMMA QueueTyped == QueueSpec => []QueueTypes
BY QueueTypeStart, QueueTypeStep, PTL DEF QueueSpec

\* In particular an operation in the store, listed or carried out has been made, and
\* the times of the operations do not go back, as a flush's order relies on.
THEOREM QueueTypeCorrect == QueueSpec => []QueueTypeOK
BY QueueTyped, PTL DEF QueueTypes

-----------------------------------------------------------------------------
(***************************************************************************)
(* Carried out, and how often.  A flush may still carry out an operation   *)
(* it has listed, unless it is about to remove it; what has been carried   *)
(* out and what still may be are paid for together, by the first flush and *)
(* by the excuses, and an operation left in the store for a flush to come  *)
(* has kept the first for it.                                              *)
(***************************************************************************)
Held(o) == \E f \in Flushers : o \in flusher[f].list
Sendable(o) == {f \in Flushers : /\ o \in flusher[f].list
                                   /\ ~(flusher[f].pc = "remove" /\ flusher[f].op = o)}

SentInv ==
    /\ \A o \in OpIds : made[o] # 0 => o \in store \/ executed[o] > 0
    /\ \A f \in Flushers : flusher[f].pc = "remove" => executed[flusher[f].op] > 0
    /\ \A o \in OpIds : executed[o] + Cardinality(Sendable(o)) =< 1 + excuses[o]
    /\ \A o \in store : ~Held(o) => executed[o] =< excuses[o]

LEMMA PendingCount ==
  ASSUME NEW o
  PROVE  /\ IsFiniteSet(Sendable(o)) /\ Cardinality(Sendable(o)) \in Nat
         /\ Sendable(o) = {} => Cardinality(Sendable(o)) = 0
         /\ \A f \in Sendable(o) : Cardinality(Sendable(o)) >= 1
<1>1. IsFiniteSet(Sendable(o))
  BY QueueAssumption, FS_Subset DEF Sendable
<1>2. Cardinality(Sendable(o)) \in Nat /\ (Cardinality(Sendable(o)) = 0 <=> Sendable(o) = {})
  BY <1>1, FS_CardinalityType, FS_EmptySet
<1> QED
  BY <1>1, <1>2

\* One flush changes the count by its own part in it.
LEMMA PendingChange ==
  ASSUME NEW f \in Flushers, NEW o, \A g \in Flushers : g # f => flusher'[g] = flusher[g]
  PROVE  Cardinality(Sendable(o)') =
           IF f \in Sendable(o)
           THEN IF f \in Sendable(o)' THEN Cardinality(Sendable(o)) ELSE Cardinality(Sendable(o)) - 1
           ELSE IF f \in Sendable(o)' THEN Cardinality(Sendable(o)) + 1 ELSE Cardinality(Sendable(o))
<1> DEFINE before == Sendable(o)
           after == Sendable(o)'
<1>1. before \ {f} = after \ {f}
  BY DEF Sendable
<1>2. IsFiniteSet(before) /\ IsFiniteSet(after)
  BY QueueAssumption, FS_Subset DEF Sendable
<1>3. Cardinality(before) \in Nat /\ Cardinality(after) \in Nat
  BY <1>2, FS_CardinalityType
<1> HIDE DEF before, after
<1>4. Cardinality(before \ {f}) = IF f \in before THEN Cardinality(before) - 1
                                                  ELSE Cardinality(before)
  BY <1>2, FS_RemoveElement
<1>5. Cardinality(after \ {f}) = IF f \in after THEN Cardinality(after) - 1
                                                ELSE Cardinality(after)
  BY <1>2, FS_RemoveElement
<1>6. Cardinality(after) =
        IF f \in before
        THEN IF f \in after THEN Cardinality(before) ELSE Cardinality(before) - 1
        ELSE IF f \in after THEN Cardinality(before) + 1 ELSE Cardinality(before)
  BY <1>1, <1>3, <1>4, <1>5
<1> QED
  BY <1>6 DEF before, after

LEMMA SentStart == QueueInit => SentInv
<1> SUFFICES ASSUME QueueInit
             PROVE  SentInv
  OBVIOUS
<1>1. \A f \in Flushers : flusher[f].list = {} /\ flusher[f].pc = "idle"
  BY IdleFlushTyped DEF QueueInit
<1>2. \A o : Cardinality(Sendable(o)) = 0
  <2> SUFFICES ASSUME NEW o
               PROVE  Cardinality(Sendable(o)) = 0
    OBVIOUS
  <2>1. Sendable(o) = {}
    BY <1>1 DEF Sendable
  <2> QED
    BY <2>1, PendingCount
<1> QED
  BY <1>1, <1>2 DEF QueueInit, SentInv

LEMMA SentStep == QueueTypes /\ SentInv /\ [QueueNext]_queueVars => SentInv'
<1> SUFFICES ASSUME QueueTypes, SentInv, [QueueNext]_queueVars
             PROVE  SentInv'
  OBVIOUS
<1>1. /\ executed \in [OpIds -> Nat] /\ excuses \in [OpIds -> Nat] /\ store \subseteq OpIds
      /\ \A f \in Flushers : /\ flusher[f] \in FlushState /\ FlushTyped(flusher[f])
                             /\ flusher[f].list \subseteq OpIds
      /\ \A o \in OpIds : Cardinality(Sendable(o)) \in Nat
      /\ \A o \in OpIds : executed[o] > 0 => made[o] # 0
  BY PendingCount DEF QueueTypes, QueueTypeOK, FlushState
<1>2. CASE UNCHANGED <<made, store, flusher, executed, excuses>>
  BY <1>2 DEF SentInv, Held, Sendable
<1>3. ASSUME NEW o \in OpIds, EnqueueOp(o)
      PROVE  SentInv'
  <2>1. /\ made[o] = 0 /\ \A p \in OpIds : p # o => made'[p] = made[p]
        /\ store' = store \cup {o} /\ UNCHANGED <<flusher, executed, excuses>>
    BY <1>3, EnqueueEffect
  <2>2. executed[o] = 0
    BY <1>1, <2>1
  <2> QED
    BY <1>1, <2>1, <2>2 DEF SentInv, Held, Sendable
<1>4. ASSUME NEW f \in Flushers, StartFlush(f)
      PROVE  SentInv'
  <2>1. /\ flusher[f] = IdleFlush
        /\ flusher'[f].pc = "execute" /\ flusher'[f].list = store
        /\ \A g \in Flushers : g # f => flusher'[g] = flusher[g]
        /\ \A o \in OpIds : excuses'[o] =
              IF o \in store /\ Held(o) THEN excuses[o] + 1 ELSE excuses[o]
        /\ UNCHANGED <<online, made, store, executed>>
    BY <1>4, StartEffect DEF Held
  <2>2. \A o \in OpIds : f \notin Sendable(o) /\ (f \in Sendable(o)' <=> o \in store)
    BY <2>1, IdleFlushTyped DEF Sendable
  <2>3. ASSUME NEW o \in OpIds
        PROVE  executed'[o] + Cardinality(Sendable(o)') =< 1 + excuses'[o]
    <3>1. Cardinality(Sendable(o)') = IF o \in store THEN Cardinality(Sendable(o)) + 1
                                                    ELSE Cardinality(Sendable(o))
      BY <2>1, <2>2, PendingChange
    <3>2. executed[o] + Cardinality(Sendable(o)) =< 1 + excuses[o]
      BY DEF SentInv
    <3>3. ~Held(o) => Cardinality(Sendable(o)) = 0
      <4>1. ~Held(o) => Sendable(o) = {}
        BY DEF Held, Sendable
      <4> QED
        BY <4>1, PendingCount
    <3>4. o \in store /\ ~Held(o) => executed[o] =< excuses[o]
      BY DEF SentInv
    <3> QED
      BY <1>1, <2>1, <3>1, <3>2, <3>3, <3>4
  <2>4. \A o \in store' : Held(o)'
    BY <2>1 DEF Held
  <2>5. \A g \in Flushers : flusher'[g].pc = "remove" => executed'[flusher'[g].op] > 0
    BY <2>1 DEF SentInv
  <2> QED
    BY <2>1, <2>3, <2>4, <2>5 DEF SentInv
<1>5. ASSUME NEW f \in Flushers, ExecuteOp(f)
      PROVE  SentInv'
  <2>1. PICK o \in flusher[f].list :
           /\ flusher[f].pc = "execute" /\ o \in OpIds
           /\ flusher'[f].list = flusher[f].list /\ flusher'[f].op = o
           /\ flusher'[f].pc \in {"remove", "putBack"}
           /\ \A g \in Flushers : g # f => flusher'[g] = flusher[g]
           /\ executed' \in [OpIds -> Nat] /\ excuses' \in [OpIds -> Nat]
           /\ \A p \in OpIds : p # o => /\ executed'[p] = executed[p]
                                        /\ excuses'[p] = excuses[p]
           /\ \/ /\ flusher'[f].pc = "remove"
                 /\ executed'[o] = executed[o] + 1 /\ excuses'[o] = excuses[o]
              \/ /\ flusher'[f].pc = "putBack"
                 /\ executed'[o] = executed[o] /\ excuses'[o] = excuses[o]
              \/ /\ flusher'[f].pc = "putBack"
                 /\ executed'[o] = executed[o] + 1 /\ excuses'[o] = excuses[o] + 1
           /\ UNCHANGED <<online, made, store>>
    BY <1>5, ExecuteEffect
  <2>2. \A p \in OpIds : Held(p)' <=> Held(p)
    BY <2>1 DEF Held
  <2>3. /\ f \in Sendable(o) /\ (f \in Sendable(o)' <=> flusher'[f].pc = "putBack")
        /\ \A p \in OpIds \ {o} : f \in Sendable(p)' <=> f \in Sendable(p)
    BY <2>1 DEF Sendable
  <2>4. ASSUME NEW p \in OpIds
        PROVE  executed'[p] + Cardinality(Sendable(p)') =< 1 + excuses'[p]
    <3>1. executed[p] + Cardinality(Sendable(p)) =< 1 + excuses[p]
      BY DEF SentInv
    <3>2. CASE p # o
      <4>1. Cardinality(Sendable(p)') = Cardinality(Sendable(p))
        BY <2>1, <2>3, <3>2, PendingChange
      <4> QED
        BY <2>1, <3>1, <3>2, <4>1
    <3>3. CASE p = o
      <4>1. Cardinality(Sendable(o)') = IF flusher'[f].pc = "putBack"
                                       THEN Cardinality(Sendable(o))
                                       ELSE Cardinality(Sendable(o)) - 1
        BY <2>1, <2>3, PendingChange
      <4> QED
        BY <1>1, <2>1, <3>1, <3>3, <4>1
    <3> QED
      BY <3>2, <3>3
  <2>5. \A p \in OpIds : executed'[p] >= executed[p]
    BY <1>1, <2>1
  <2>6. ASSUME NEW g \in Flushers, flusher'[g].pc = "remove"
        PROVE  executed'[flusher'[g].op] > 0
    <3>1. CASE g = f
      BY <1>1, <2>1, <2>6, <3>1
    <3>2. CASE g # f
      <4>1. flusher[g].op \in OpIds /\ executed[flusher[g].op] > 0
        BY <1>1, <2>1, <2>6, <3>2 DEF SentInv, FlushTyped
      <4> QED
        BY <1>1, <2>1, <2>5, <3>2, <4>1
    <3> QED
      BY <3>1, <3>2
  <2>7. \A p \in store' : ~Held(p)' => executed'[p] =< excuses'[p]
    <3>1. Held(o)
      BY <2>1 DEF Held
    <3> QED
      BY <1>1, <2>1, <2>2, <3>1 DEF SentInv
  <2>8. \A p \in OpIds : made'[p] # 0 => p \in store' \/ executed'[p] > 0
    BY <1>1, <2>1, <2>5 DEF SentInv
  <2> QED
    BY <2>4, <2>6, <2>7, <2>8 DEF SentInv
<1>6. ASSUME NEW f \in Flushers, RemoveOp(f) \/ PutBack(f) \/ ClosePage(f)
      PROVE  SentInv'
  <2>1. /\ \A g \in Flushers : g # f => flusher'[g] = flusher[g]
        /\ UNCHANGED <<online, made, executed>>
        /\ \/ flusher'[f].list = {}
           \/ flusher'[f].list = flusher[f].list \ {flusher[f].op}
        /\ flusher'[f].pc \in {"idle", "execute"}
    BY <1>6, ReleaseEffect, IdleFlushTyped
  <2>2. /\ excuses' \in [OpIds -> Nat]
        /\ \A o \in OpIds : excuses'[o] >= excuses[o]
    BY <1>1, <1>6, ReleaseMore
  <2>3. ASSUME NEW o \in OpIds
        PROVE  executed'[o] + Cardinality(Sendable(o)') =< 1 + excuses'[o]
    <3>1. executed[o] + Cardinality(Sendable(o)) =< 1 + excuses[o]
      BY DEF SentInv
    <3>2. f \in Sendable(o)' => f \in Sendable(o)
      BY <2>1 DEF Sendable
    <3>3. Cardinality(Sendable(o)') =< Cardinality(Sendable(o))
      BY <1>1, <2>1, <3>2, PendingChange
    <3>4. Cardinality(Sendable(o)') \in Nat
      BY <1>1, <2>1, <3>2, PendingChange, PendingCount
    <3> QED
      BY <1>1, <2>1, <2>2, <3>1, <3>3, <3>4
  <2>4. ASSUME NEW o \in store', ~Held(o)'
        PROVE  executed'[o] =< excuses'[o]
    <3>1. \/ flusher[f].pc = "remove" /\ store' = store \ {flusher[f].op}
          \/ flusher[f].pc = "putBack" /\ store' = store \cup {flusher[f].op}
          \/ ClosePage(f) /\ store' = store
      BY <1>6, ReleaseMore
    <3>2. flusher[f].pc \in {"remove", "putBack"} => /\ flusher[f].op \in flusher[f].list
                                                     /\ flusher[f].op \in OpIds
      BY <1>1 DEF FlushTyped
    <3>3. o \in OpIds
      BY <1>1, <3>1, <3>2
    <3>4. CASE ~Held(o)
      <4>1. o \in store
        BY <3>1, <3>2, <3>4 DEF Held
      <4> QED
        BY <1>1, <2>1, <2>2, <3>3, <3>4, <4>1 DEF SentInv
    <3>5. CASE f \in Sendable(o)
      <4>1. Cardinality(Sendable(o)) >= 1 /\
              executed[o] + Cardinality(Sendable(o)) =< 1 + excuses[o]
        BY <3>3, <3>5, PendingCount DEF SentInv
      <4> QED
        BY <1>1, <2>1, <2>2, <3>3, <4>1
    <3>6. CASE Held(o) /\ f \notin Sendable(o)
      <4>1. o \in flusher[f].list /\ flusher[f].pc = "remove" /\ flusher[f].op = o
        BY <2>1, <2>4, <3>6 DEF Held, Sendable
      <4>2. ClosePage(f)
        BY <3>1, <4>1
      <4>3. excuses'[o] = excuses[o] + 1
        BY <1>6, <3>3, <4>1, <4>2, ReleaseMore
      <4> QED
        BY <1>1, <2>1, <3>3, <4>3 DEF SentInv
    <3> QED
      BY <3>4, <3>5, <3>6
  <2>5. \A g \in Flushers : flusher'[g].pc = "remove" => executed'[flusher'[g].op] > 0
    BY <2>1 DEF SentInv
  <2>6. ASSUME NEW o \in OpIds, made'[o] # 0
        PROVE  o \in store' \/ executed'[o] > 0
    <3>1. \/ flusher[f].pc = "remove" /\ store' = store \ {flusher[f].op}
          \/ store \subseteq store'
      BY <1>6, ReleaseMore
    <3> QED
      BY <2>1, <2>6, <3>1 DEF SentInv
  <2> QED
    BY <2>3, <2>4, <2>5, <2>6 DEF SentInv
<1> QED
  BY <1>2, <1>3, <1>4, <1>5, <1>6 DEF QueueNext, Network, queueVars

\* Nothing a driver does without a network is lost: through failures, reloads and
\* any number of overlapping flushes an operation is stored until it has been
\* carried out; and it is carried out again only for a mishap of its own.
THEOREM NothingLost == QueueSpec => []QueuedIsSent
<1>1. QueueTypes /\ SentInv => QueuedIsSent
  BY PendingCount DEF QueueTypes, QueueTypeOK, SentInv, QueuedIsSent
<1> QED
  BY <1>1, SentStart, SentStep, QueueTyped, PTL DEF QueueSpec

-----------------------------------------------------------------------------
(***************************************************************************)
(* Order.  An older operation that has not been carried out is on every    *)
(* list a newer one is on, since it was in the store when the list was     *)
(* made and only what has been carried out leaves a list that goes on.     *)
(***************************************************************************)
OrderInv ==
    /\ \A f \in Flushers, p \in OpIds : \A o \in flusher[f].list :
         made[p] # 0 /\ made[p] < made[o] /\ executed[p] = 0 => p \in flusher[f].list
    /\ FirstInOrder

LEMMA OrderStep == QueueTypes /\ SentInv /\ OrderInv /\ [QueueNext]_queueVars => OrderInv'
<1> SUFFICES ASSUME QueueTypes, SentInv, OrderInv, [QueueNext]_queueVars
             PROVE  OrderInv'
  OBVIOUS
<1>1. /\ executed \in [OpIds -> Nat] /\ store \subseteq OpIds /\ made \in [OpIds -> 0..MaxOps]
      /\ \A f \in Flushers : /\ flusher[f] \in FlushState /\ FlushTyped(flusher[f])
                             /\ flusher[f].list \subseteq OpIds
      /\ \A o \in OpIds : executed[o] > 0 => made[o] # 0
  BY DEF QueueTypes, QueueTypeOK, FlushState
<1>2. CASE UNCHANGED <<made, store, flusher, executed, excuses>>
  BY <1>2 DEF OrderInv, FirstInOrder
<1>3. ASSUME NEW o \in OpIds, EnqueueOp(o)
      PROVE  OrderInv'
  <2>1. /\ made[o] = 0 /\ made' \in [OpIds -> 0..MaxOps]
        /\ \A p \in OpIds : (p # o => made'[p] = made[p]) /\ made'[p] =< made'[o]
        /\ UNCHANGED <<flusher, executed>>
    BY <1>3, EnqueueEffect
  <2>2. \A p \in OpIds : ~(made'[o] < made'[p])
    BY <2>1
  <2>3. executed[o] = 0 /\ \A f \in Flushers : o \notin flusher[f].list
    BY <1>1, <2>1 DEF FlushTyped
  <2>4. FirstInOrder'
    BY <1>1, <2>1, <2>2, <2>3 DEF OrderInv, FirstInOrder
  <2>5. ASSUME NEW f \in Flushers, NEW p \in OpIds, NEW q \in flusher'[f].list,
               made'[p] # 0, made'[p] < made'[q], executed'[p] = 0
        PROVE  p \in flusher'[f].list
    <3>1. p # o /\ q # o /\ q \in OpIds
      BY <1>1, <2>1, <2>2, <2>3, <2>5
    <3> QED
      BY <2>1, <2>5, <3>1 DEF OrderInv
  <2> QED
    BY <2>4, <2>5 DEF OrderInv
<1>4. ASSUME NEW f \in Flushers, StartFlush(f)
      PROVE  OrderInv'
  <2>1. /\ flusher'[f].list = store
        /\ \A g \in Flushers : g # f => flusher'[g] = flusher[g]
        /\ UNCHANGED <<online, made, store, executed>>
    BY <1>4, StartEffect
  <2>2. \A p \in OpIds : made[p] # 0 /\ executed[p] = 0 => p \in store
    BY DEF SentInv
  <2> QED
    BY <2>1, <2>2 DEF OrderInv, FirstInOrder
<1>5. ASSUME NEW f \in Flushers, ExecuteOp(f)
      PROVE  OrderInv'
  <2>1. PICK o \in flusher[f].list :
           /\ \A p \in flusher[f].list : made[o] =< made[p]
           /\ o \in OpIds
           /\ flusher'[f].list = flusher[f].list
           /\ \A g \in Flushers : g # f => flusher'[g] = flusher[g]
           /\ executed' \in [OpIds -> Nat]
           /\ \A p \in OpIds : p # o => executed'[p] = executed[p]
           /\ executed'[o] \in {executed[o], executed[o] + 1}
           /\ UNCHANGED <<online, made, store>>
    BY <1>5, ExecuteEffect
  <2>2. \A p \in OpIds : executed'[p] = 0 => executed[p] = 0
    BY <1>1, <2>1
  <2>3. \A g \in Flushers : flusher'[g].list = flusher[g].list
    BY <2>1
  <2>4. \A p \in OpIds : made[p] # 0 /\ made[p] < made[o] => executed[p] > 0
    <3>1. \A p \in OpIds : made[p] < made[o] => p \notin flusher[f].list
      BY <1>1, <2>1
    <3> QED
      BY <1>1, <2>1, <3>1 DEF OrderInv
  <2>5. FirstInOrder'
    BY <1>1, <2>1, <2>2, <2>4 DEF OrderInv, FirstInOrder
  <2> QED
    BY <2>1, <2>2, <2>3, <2>5 DEF OrderInv
<1>6. ASSUME NEW f \in Flushers, RemoveOp(f) \/ PutBack(f) \/ ClosePage(f)
      PROVE  OrderInv'
  <2>1. /\ \A g \in Flushers : g # f => flusher'[g] = flusher[g]
        /\ UNCHANGED <<online, made, executed>>
        /\ \/ flusher'[f].list = {}
           \/ /\ flusher[f].pc = "remove"
              /\ flusher'[f].list = flusher[f].list \ {flusher[f].op}
    BY <1>6, ReleaseEffect, IdleFlushTyped
  <2>2. flusher[f].pc = "remove" => executed[flusher[f].op] > 0
    BY DEF SentInv
  <2> QED
    BY <1>1, <2>1, <2>2 DEF OrderInv, FirstInOrder
<1> QED
  BY <1>2, <1>3, <1>4, <1>5, <1>6 DEF QueueNext, Network, queueVars

\* The API never carries out an operation before an older one, whichever flushes
\* overlap and whatever fails: each of them holds back what comes after a failure.
THEOREM InOrder == QueueSpec => []FirstInOrder
<1>1. QueueInit => OrderInv
  BY IdleFlushTyped DEF QueueInit, OrderInv, FirstInOrder
<1>2. OrderInv => FirstInOrder
  BY DEF OrderInv
<1> QED
  BY <1>1, <1>2, SentStart, SentStep, OrderStep, QueueTyped, PTL DEF QueueSpec
=============================================================================
