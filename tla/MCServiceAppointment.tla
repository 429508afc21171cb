------------------------ MODULE MCServiceAppointment ------------------------
(***************************************************************************)
(* Instances of ServiceAppointment for TLC.                                *)
(***************************************************************************)
EXTENDS ServiceAppointment, TLC

\* All appointments belong to one case.
SameCase == [a \in Appts |-> CHOOSE c \in Cases : TRUE]

\* One appointment per case.
OwnCase == CHOOSE f \in [Appts -> Cases] : \A a, b \in Appts : f[a] = f[b] => a = b

\* The four settings parseClientIamSettings can return.
AllPolicies == {
    [negotiate |-> FALSE, fleetFirst |-> FALSE, requireAck |-> FALSE],
    [negotiate |-> FALSE, fleetFirst |-> FALSE, requireAck |-> TRUE],
    [negotiate |-> TRUE,  fleetFirst |-> FALSE, requireAck |-> TRUE],
    [negotiate |-> TRUE,  fleetFirst |-> TRUE,  requireAck |-> TRUE]}
\* The driver must acknowledge, without and with negotiation.
AckPolicies == {p \in AllPolicies : p.requireAck /\ ~p.fleetFirst}
ParallelPolicy == {p \in AckPolicies : p.negotiate}
SignPolicy == AckPolicies \ ParallelPolicy

\* The endpoints of the negotiation, without the calendar and the PATCHes.
NegotiationCore == {"create", "confirm", "acknowledge", "decline", "repropose",
                    "supplierValidate"}
Negotiation == NegotiationCore \cup {"requestCancel"}
WithEdits == AllEndpoints \ {"decline", "requestCancel"}
SignAndRefuse == {"create", "confirm", "acknowledge", "decline"}

\* Nothing but StampsMatchSlot and PeerBeforeSupplier looks at agreed: a run
\* without them identifies states that differ in it alone.
WithoutHistory == <<policy, appt, case, orders, req>>

\* Appointments of one case are interchangeable; those of different cases
\* together with their cases.
SameCaseSymmetry == Permutations(Slots) \cup Permutations(Appts) \cup Permutations(Requests)
OwnCaseSymmetry == Permutations(Slots) \cup Permutations(Requests) \cup
    {f \in Permutations(Appts \cup Cases) :
        \A a \in Appts : f[a] \in Appts /\ CaseOf[f[a]] = f[CaseOf[a]]}
=============================================================================
