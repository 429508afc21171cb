--------------------------- MODULE MCRepairOrder ----------------------------
(***************************************************************************)
(* Instances of RepairOrder for TLC.                                       *)
(***************************************************************************)
EXTENDS RepairOrder, TLC

Symmetry == Permutations(CostIds) \cup Permutations(Lines \ {Ref})

\* A quote from its draft to its cost; the visits of a repair; a claim that decides the
\* repair; a claim and the costs.
Quoting == [workflow |-> "service", payer |-> "insurer", received |-> TRUE,
            ops |-> {"createDraft", "updateDraft", "deleteDraft", "submit", "resubmit",
                     "approve", "reject", "parts", "recordInvoice", "postCost",
                     "deleteCost"}]
Visiting == [workflow |-> "service", payer |-> "insurer", received |-> TRUE,
             ops |-> {"createDraft", "submit", "approve", "moveLucrareIndex", "markReady",
                      "startSupplement", "serviceTimes", "postApproval"}]
Claiming == [workflow |-> "damage", payer |-> "insurer", received |-> TRUE,
             ops |-> {"createDraft", "claim", "photos", "startSupplement", "postApproval"}]
Paying == [workflow |-> "damage", payer |-> "insurer", received |-> TRUE,
           ops |-> {"createDraft", "updateDraft", "submit", "approve", "reject", "claim",
                    "recordInvoice", "postCost"}]
Gating == [workflow |-> "damage", payer |-> "insurer", received |-> TRUE,
           ops |-> {"claim", "patch", "mobility"}]
Returning == [workflow |-> "damage", payer |-> "client", received |-> TRUE,
              ops |-> {"claim", "serviceTimes", "postApproval", "mobility"}]
Closing == [workflow |-> "service", payer |-> "insurer", received |-> FALSE,
            ops |-> {"patch", "serviceTimes", "complete", "advance"}]

AllScenes == {Quoting, Visiting, Claiming, Paying, Gating, Returning, Closing}
=============================================================================
