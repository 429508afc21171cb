----------------------------- MODULE DualConfirm -----------------------------
(***************************************************************************)
(* What the signing of an appointment promises, without rows, requests and *)
(* transactions: the last of the required signatures and the work order of *)
(* the case appear in one step, a case has one work order, and the work    *)
(* orders are numbered one after another.  ServiceAppointment implements   *)
(* it.                                                                     *)
(*                                                                         *)
(*   api/src/service-cases/service-cases.service.ts                        *)
(*     maybeCreateWorkOrderAfterDualConfirmTx                              *)
(***************************************************************************)
EXTENDS Naturals, FiniteSets

CONSTANTS
    Appts,      \* appointments
    CaseOf      \* the case of each

VARIABLES
    signed,     \* appointments that are confirmed and have every required signature
    opened      \* work orders: pairs of a case and a number

dualVars == <<signed, opened>>

HasOrder(c) == \E o \in opened : o[1] = c

Init == signed = {} /\ opened = {}

\* The first appointment of a case to have its signatures opens the work order, with
\* the number after the last one.
Open(a) ==
    /\ a \notin signed /\ ~HasOrder(CaseOf[a])
    /\ signed' = signed \cup {a}
    /\ opened' = opened \cup {<<CaseOf[a], Cardinality(opened) + 1>>}

\* Another one, or the same one again, uses the order again.
Join(a) ==
    /\ a \notin signed /\ HasOrder(CaseOf[a])
    /\ signed' = signed \cup {a}
    /\ UNCHANGED opened

\* A new date, a refusal, a cancellation: the order stays.
Withdraw(a) ==
    /\ a \in signed
    /\ signed' = signed \ {a}
    /\ UNCHANGED opened

Next == \E a \in Appts : Open(a) \/ Join(a) \/ Withdraw(a)

Spec == Init /\ [][Next]_dualVars
=============================================================================
