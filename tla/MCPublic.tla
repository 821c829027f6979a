------------------------------ MODULE MCPublic ------------------------------
(* What customers reach, for TLC: what the constants are in the run, and what of *)
(* them may be interchanged.                                                     *)
EXTENDS Public, TLC

CONSTANTS r1, r2, c1, c2, a1, a2, x1, x2, y1, y2   \* members of the sets

\* Without an end, or until instant 0.
MCWindows == {[from |-> None, until |-> None], [from |-> None, until |-> 0]}

address(f, h)               == [form |-> f, host |-> h, plain |-> TRUE]
jump(href, revoked, expires) ==
    [enabled |-> TRUE, href |-> href, revoked |-> revoked, expires |-> expires]

elsewhere == address("https", "wifi.example")

\* A jump that was revoked, and one that ends at instant 1.
MCJumpRows == {jump(elsewhere, TRUE, {}), jump(elsewhere, FALSE, {1})}

\* A return to brand A's host, one to a host that is never registered, and one into a
\* private network.
MCReturnRows == {jump(address("https", "a.example"), FALSE, {1}), jump(elsewhere, FALSE, {}),
                 jump(address("https", "10.0.0.1"), FALSE, {})}

brandAt(kind, brand) == [kind |-> kind, brand |-> brand, admitted |-> TRUE]

\* Host a is brand A's, ready or suspended, and b is brand B's.
MCRegistries ==
    {[h \in Hosts |-> CASE h = "a.example" -> brandAt(kind, "A")
                        [] h = "b.example" -> brandAt("ready", "B")
                        [] OTHER -> brandAt("unknown", "")] : kind \in {"ready", "suspended"}}

\* A link published under brand A, and one without a brand, which may be stamped yet.
MCStamps == {[brand |-> "A", host |-> "a.example"], [brand |-> "", host |-> ""]}

swap(x, y)   == (x :> y) @@ (y :> x)
either(perm) == {perm, [x \in DOMAIN perm |-> x]}

\* Only the component in focus is there to be permuted: one swap does for two.
Interchangeable ==
    {p @@ q @@ r : p \in either(swap(r1, r2)),
                   q \in either(swap(c1, c2) @@ swap(y1, y2)),
                   r \in either(swap(a1, a2) @@ swap(x1, x2))}

=============================================================================
