--------------------------- MODULE RsaOfflineQueue ---------------------------
(***************************************************************************)
(* The queue in the browser of a roadside driver: what is done without a   *)
(* network is stored in IndexedDB and sent to the API, in order, when the  *)
(* network is back.                                                        *)
(*                                                                         *)
(*   web/src/lib/rsa-offline-queue.ts      the store and the flush         *)
(*   web/src/hooks/useRsaOfflineSync.ts    who flushes, and when           *)
(*                                                                         *)
(* Every mounted banner, in every tab, has a hook of its own that flushes  *)
(* on the browser's online event and on its button, and the store is one   *)
(* for all of them.  A flush lists the queue once and then sends and       *)
(* removes operation by operation; at the first failure it puts the        *)
(* operation back as it listed it and stops.                               *)
(*                                                                         *)
(* Abstractions: operations are numbered as they are made, and the device  *)
(* clock does not go back; payload, attempts and lastError decide nothing  *)
(* and are left out.                                                       *)
(***************************************************************************)
EXTENDS Integers, FiniteSets

CONSTANTS
    MaxOps,         \* bound: operations made without a network
    Flushers,       \* useRsaOfflineSync instances
    MaxMishaps      \* bound: lost answers, closed pages, overlapping flushes

OpIds == 1..MaxOps

ASSUME QueueAssumption ==
    /\ MaxOps \in Nat /\ MaxMishaps \in Nat
    /\ IsFiniteSet(Flushers)

VARIABLES
    online,     \* navigator.onLine
    made,       \* createdAt of each operation made, 0 before it is made
    store,      \* operations in the IndexedDB store
    flusher,    \* the flush of each hook
    executed,   \* history: how often the API has carried out each operation
    excuses,    \* history: mishaps that may have an operation carried out again
    mishaps     \* mishaps so far

queueVars == <<online, made, store, flusher, executed, excuses, mishaps>>

FlushState == [pc : {"idle", "execute", "remove", "putBack"}, list : SUBSET OpIds,
               op : OpIds \cup {0}]
IdleFlush == [pc |-> "idle", list |-> {}, op |-> 0]

QueueTypeOK ==
    /\ online \in BOOLEAN
    /\ made \in [OpIds -> 0..MaxOps]
    /\ store \subseteq OpIds
    /\ flusher \in [Flushers -> FlushState]
    /\ executed \in [OpIds -> Nat]
    /\ excuses \in [OpIds -> Nat]
    /\ mishaps \in 0..MaxMishaps

QueueInit ==
    /\ online = FALSE
    /\ made = [o \in OpIds |-> 0]
    /\ store = {}
    /\ flusher = [f \in Flushers |-> IdleFlush]
    /\ executed = [o \in OpIds |-> 0]
    /\ excuses = [o \in OpIds |-> 0]
    /\ mishaps = 0
-----------------------------------------------------------------------------
Mishap == mishaps < MaxMishaps /\ mishaps' = mishaps + 1
Excuse(S) == excuses' = [o \in OpIds |-> IF o \in S THEN excuses[o] + 1 ELSE excuses[o]]

Network ==
    /\ online' = ~online
    /\ UNCHANGED <<made, store, flusher, executed, excuses, mishaps>>

\* enqueueRsaOfflineOp, possibly in the millisecond of the operation before it.
EnqueueOp(o) ==
    LET before == IF o = 1 THEN 0 ELSE made[o - 1]
    IN  /\ ~online
        /\ made[o] = 0 /\ (o = 1 \/ before # 0)
        /\ \E at \in {before, before + 1} \ {0} : made' = [made EXCEPT ![o] = at]
        /\ store' = store \cup {o}
        /\ UNCHANGED <<online, flusher, executed, excuses, mishaps>>

\* A flush of one hook does not know of the flush of another.
StartFlush(f) ==
    LET held == UNION {flusher[g].list : g \in Flushers}
    IN  /\ online /\ store # {} /\ flusher[f] = IdleFlush
        /\ flusher' = [flusher EXCEPT ![f] = [pc |-> "execute", list |-> store, op |-> 0]]
        /\ IF held \cap store = {} THEN UNCHANGED <<excuses, mishaps>>
                                   ELSE Mishap /\ Excuse(held \cap store)
        /\ UNCHANGED <<online, made, store, executed>>

\* The oldest of the list; createdAt does not tell operations of one millisecond apart.
Oldest(list) == {o \in list : \A p \in list : made[o] =< made[p]}

\* Removed as it is sent: a failure puts it back.
ExecuteOp_Flaw(f) ==
    /\ flusher[f].pc = "execute"
    /\ \E o \in Oldest(flusher[f].list) :
        LET next(pc) == flusher' = [flusher EXCEPT ![f] = [@ EXCEPT !.pc = pc, !.op = o]]
        IN  /\ store' = store \ {o}
            /\ \/ executed' = [executed EXCEPT ![o] = @ + 1] /\ next("remove")
               \/ UNCHANGED executed /\ next("putBack")
    /\ UNCHANGED <<online, made, excuses, mishaps>>
\* The API carries the operation out and answers, or it is not reached or refuses, or
\* its answer is lost.
ExecuteOp(f) ==
    /\ flusher[f].pc = "execute"
    /\ \E o \in Oldest(flusher[f].list) :
        LET next(pc) == flusher' = [flusher EXCEPT ![f] = [@ EXCEPT !.pc = pc, !.op = o]]
            reached == executed' = [executed EXCEPT ![o] = @ + 1]
        IN  \/ reached /\ next("remove") /\ UNCHANGED <<excuses, mishaps>>
            \/ next("putBack") /\ UNCHANGED <<executed, excuses, mishaps>>
            \/ reached /\ next("putBack") /\ Mishap /\ Excuse({o})
    /\ UNCHANGED <<online, made, store>>

RemoveOp(f) ==
    /\ flusher[f].pc = "remove"
    /\ store' = store \ {flusher[f].op}
    /\ LET rest == flusher[f].list \ {flusher[f].op}
       IN  flusher' = [flusher EXCEPT ![f] = IF rest = {} THEN IdleFlush
                                             ELSE [pc |-> "execute", list |-> rest, op |-> 0]]
    /\ UNCHANGED <<online, made, executed, excuses, mishaps>>

\* updateRsaOfflineOp and break: a put stores the operation, removed or not.
PutBack_Flaw(f) ==
    /\ flusher[f].pc = "putBack"
    /\ store' = store \cup {flusher[f].op}
    /\ LET rest == flusher[f].list \ {flusher[f].op}
       IN  flusher' = [flusher EXCEPT ![f] = IF rest = {} THEN IdleFlush
                                             ELSE [pc |-> "execute", list |-> rest, op |-> 0]]
    /\ UNCHANGED <<online, made, executed, excuses, mishaps>>
PutBack(f) ==
    /\ flusher[f].pc = "putBack"
    /\ store' = store \cup {flusher[f].op}
    /\ flusher' = [flusher EXCEPT ![f] = IdleFlush]
    /\ UNCHANGED <<online, made, executed, excuses, mishaps>>

\* The page is closed or reloaded in the middle of a flush.
ClosePage(f) ==
    /\ flusher[f] # IdleFlush /\ Mishap
    /\ flusher' = [flusher EXCEPT ![f] = IdleFlush]
    /\ Excuse(IF flusher[f].pc = "remove" THEN {flusher[f].op} ELSE {})
    /\ UNCHANGED <<online, made, store, executed>>

QueueNext ==
    \/ Network
    \/ \E o \in OpIds : EnqueueOp(o)
    \/ \E f \in Flushers :
         StartFlush(f) \/ ExecuteOp(f) \/ RemoveOp(f) \/ PutBack(f) \/ ClosePage(f)

QueueSpec == QueueInit /\ [][QueueNext]_queueVars
-----------------------------------------------------------------------------
\* An operation is in the store until the API has carried it out, through failures,
\* reloads and flushes that remove and put back what another has sent; and it is
\* carried out once, and once more at most for each lost answer, page closed before
\* the removal, and flush that listed it while another held it.
QueuedIsSent ==
    \A o \in OpIds :
        /\ made[o] # 0 => o \in store \/ executed[o] > 0
        /\ executed[o] =< 1 + excuses[o]

\* The API never carries out an operation before one made in an earlier millisecond:
\* a failure holds back all that comes after it, and so does every other flush.
FirstInOrder ==
    \A o, p \in OpIds :
        made[p] # 0 /\ made[p] < made[o] /\ executed[o] > 0 => executed[p] > 0
=============================================================================
