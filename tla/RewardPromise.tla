---------------------------- MODULE RewardPromise ---------------------------
(***************************************************************************)
(* What the reward ledger promises, with no batch, stock, code, clock or   *)
(* event in it: the life of the one promise a participation may hold for a *)
(* benefit slot (the state machine of the package comment of rewardops and *)
(* of the CHECK constraints of migration 0024).                            *)
(*                                                                         *)
(* Holds may lapse and be taken up again; a grant records its evidence     *)
(* once; an official grant spends a fact nothing else has spent; a burnt   *)
(* promise stays burnt.  Any number of holds may lapse as part of another  *)
(* step, because the ledger sweeps inside its transactions.                *)
(***************************************************************************)
CONSTANTS Keys, Facts, Evidences, Official, Unspent

VARIABLES
    promise,   \* promise[k]: none / reserved / expired / issued / redeemed / reversed
    evidence,  \* evidence[k]: "" until the grant
    spentOn    \* spentOn[f]: the key an official fact was spent on

Open == {"none", "reserved", "expired"}

Lapsed(S) == [k \in Keys |-> IF k \in S THEN "expired" ELSE promise[k]]

Hold(S, k) ==
    /\ promise[k] \in Open
    /\ promise' = [Lapsed(S) EXCEPT ![k] = "reserved"]
    /\ UNCHANGED <<evidence, spentOn>>

Spend(ev, k) ==
    IF ev = Official
    THEN \E f \in Facts : /\ spentOn[f] = Unspent
                          /\ spentOn' = [spentOn EXCEPT ![f] = k]
    ELSE UNCHANGED spentOn

Grant(S, k, ev, to) ==
    /\ promise[k] \in Open
    /\ promise' = [Lapsed(S) EXCEPT ![k] = to]
    /\ evidence' = [evidence EXCEPT ![k] = ev]
    /\ Spend(ev, k)

Redeem(S, k) ==
    /\ promise[k] = "issued"
    /\ promise' = [Lapsed(S) EXCEPT ![k] = "redeemed"]
    /\ UNCHANGED <<evidence, spentOn>>

Burn(k) ==
    /\ promise[k] \in {"reserved", "issued", "redeemed"}
    /\ promise' = [promise EXCEPT ![k] = "reversed"]
    /\ UNCHANGED <<evidence, spentOn>>

Lapse(S) ==
    /\ promise' = Lapsed(S)
    /\ UNCHANGED <<evidence, spentOn>>

Init ==
    /\ promise = [k \in Keys |-> "none"]
    /\ evidence = [k \in Keys |-> ""]
    /\ spentOn = [f \in Facts |-> Unspent]

Next ==
    \/ \E S \in SUBSET {k \in Keys : promise[k] = "reserved"} :
        \/ Lapse(S)
        \/ \E k \in Keys : Hold(S, k) \/ Redeem(S, k)
        \/ \E k \in Keys, ev \in Evidences, to \in {"issued", "redeemed"} : Grant(S, k, ev, to)
    \/ \E k \in Keys : Burn(k)

Spec == Init /\ [][Next]_<<promise, evidence, spentOn>>
=============================================================================
