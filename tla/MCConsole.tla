------------------------------ MODULE MCConsole ------------------------------
(* The console for TLC: what its constants are in the run, and what of them may *)
(* be interchanged.                                                             *)
EXTENDS Console, TLC

CONSTANTS r1, r2, q1, q2, a1, d1, d2, d3, d4   \* requests, platforms, an asset, drafts

MCPackAssets == {a1}

admitted == [status |-> "admitted", closed |-> FALSE, until |-> 0, binding |-> "platform_app",
             reward |-> TRUE]
closed   == [admitted EXCEPT !.closed = TRUE]
MCRecords == {admitted, closed}

\* Everybody is admitted; or the tenant's own record closes the route for it.
MCSeeds ==
    {[key \in Routes \X {Tenant, Anyone} |-> IF key[2] = Anyone THEN admitted ELSE own] :
        own \in {None, closed}}

\* One picture slot, filled or not.
MCContents == {{[media |-> "image", asset |-> a]} : a \in {a1, Unbound}}

\* The end of d1's offer is moved: d2.  The campaign changes its video: d3.  d4 has none.
MCDrafts     == {d1, d2, d3, d4}
MCVideos     == {d1, d2, d3}
MCActivityOf == (d4 :> "autumn") @@ [d \in {d1, d2, d3} |-> "spring"]
MCWireOf     == (d1 :> "first") @@ (d2 :> "first") @@ (d3 :> "second") @@ (d4 :> "other")
MCExpiryOf   == (d1 :> 1) @@ [d \in {d2, d3, d4} |-> 2]

patch(role, enabled, scope) == [role |-> role, enabled |-> enabled, scope |-> scope]

\* Switched off; made a clerk; made a manager of a shop and switched on.
MCPatches == {patch(None, FALSE, None), patch("staff", None, None)}
                 \cup {patch("store_manager", TRUE, s) : s \in Shops}

swap(x, y)   == (x :> y) @@ (y :> x)
either(perm) == {perm, [x \in DOMAIN perm |-> x]}

Interchangeable ==
    {p @@ q : p \in either(swap(r1, r2)), q \in either(swap(q1, q2))}

=============================================================================
