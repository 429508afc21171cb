---------------------------- MODULE MCRsaMission ----------------------------
(***************************************************************************)
(* Instances of RsaMission for TLC.                                        *)
(***************************************************************************)
EXTENDS RsaMission, TLC

Symmetry == Permutations(Interventions) \cup Permutations(CostIds)
            \cup Permutations(Kms) \cup Permutations(Requests)

\* Without the broker; and without protocols and settlements: missions then
\* come as far as on_scene.
Own == AllEndpoints \ {"dispatch", "webhook"}
Towing == {"createIntervention", "patchIntervention", "createMission", "patchMission"}
Brokered == Towing \cup {"dispatch", "webhook"}

\* State constraint, a bound on the orders in which protocols are filled in:
\* the dropoff protocol is opened after the pickup protocol is signed, and the
\* photo is taken before anybody signs.
InOrder == \A i \in Interventions :
    /\ protocol[i]["dropoff"].status # "absent" => protocol[i]["pickup"].status = "signed"
    /\ \A k \in Kinds : protocol[i][k].signers # {} => protocol[i][k].media
=============================================================================
