--------------------------- MODULE MCRewardLedger ---------------------------
(***************************************************************************)
(* Instances of the reward ledger for TLC.                                 *)
(***************************************************************************)
EXTENDS RewardLedger, TLC

CONSTANTS p1, p2, s1, c1, c2

MCFactCampaign == [f \in Facts |-> c1]

Coupon == [campaign |-> c1, slot |-> s1, version |-> 1, kind |-> "store_coupon",
           allowed |-> {"staff_observed_submission"}, store |-> AnyStore,
           total |-> 1, from |-> 0, until |-> 9]

\* The next rule version: official confirmations only, paid from a code pool.
OfficialPool == [Coupon EXCEPT !.version = 2, !.kind = "imported_code",
                               !.allowed = {Official}, !.total = 2]

\* The same slot promised by another campaign, from a coupon batch or a code pool.
Foreign     == [Coupon EXCEPT !.campaign = c2, !.allowed = {"staff_verified_post"}]
ForeignPool == [Foreign EXCEPT !.kind = "imported_code"]

GrantInputs == {Coupon, OfficialPool}
BatchMix    == {Coupon, ForeignPool}

Interchangeable == Permutations(Participations) \cup Permutations(Events)
=============================================================================
