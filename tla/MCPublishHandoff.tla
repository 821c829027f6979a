-------------------------- MODULE MCPublishHandoff --------------------------
(***************************************************************************)
(* Instances of the publish handoff: the receipts that arrive and the      *)
(* symmetry.                                                               *)
(***************************************************************************)
EXTENDS PublishHandoff, TLC

CONSTANTS a1, x1, x2

receipt(id, content, genuine, published) ==
    [id |-> id, attempt |-> a1, content |-> content, genuine |-> genuine,
     published |-> published]

\* The platform's word on attempt a1 with content x1, a forgery of the same for
\* x2, and a genuine receipt that does not confirm.
MixedReceipts ==
    {receipt("e1", x1, TRUE, TRUE), receipt("e2", x2, FALSE, TRUE),
     receipt("e3", x1, TRUE, FALSE)}

\* Races are between two handoffs; what is final shows in one.
HandoffsByMode == [parallel |-> 2, serial |-> 1]

Interchangeable == Permutations(Customers) \cup Permutations(Requests)
=============================================================================
