----------------------------- MODULE ExtraJumps -----------------------------
(***************************************************************************)
(* Jumps from a campaign's page to addresses outside, and the authorised   *)
(* way back (extrajump, store_extra_jump.go, handlers_extra_jump.go): what *)
(* the merchant saves, and what a guest on some host is offered.           *)
(*                                                                         *)
(* A guest's request reads the link's brand, asks the registry for the     *)
(* guest's host and perhaps for the link's, reads the tenant, the jumps,   *)
(* the return and the registered hosts, each on its own, and the clock     *)
(* last.  One campaign with the link the guests come by, which is there;   *)
(* clicks are recorded and never read here.                                *)
(***************************************************************************)
EXTENDS Integers, Sequences, FiniteSets, SequencesExt

CONSTANTS
    Kinds,        \* wifi, navigate, review, wecom, follow
    JumpRows, ReturnRows,   \* what merchants send for a kind, and for the return
    Hosts,        \* hosts guests come through
    Base,         \* the host of the public base URL
    Registries,   \* what the brand registry may say of the hosts
    Stamps,       \* brands and hosts stamped on links, or neither
    Guests, Editors,        \* requests of either
    None,
    MaxTime, MaxChanges

\* What the brand registry may say of a host.
RegistryKinds == {"ready", "unknown", "domain", "suspended", "retired", "unavailable", "invalid"}

\* What the instances assume of the constants.
JumpsAssumption ==
    /\ {MaxTime, MaxChanges} \subseteq Nat
    /\ Base \in Hosts /\ Guests \cap Editors = {} /\ Kinds \cap {"page", "return"} = {}
    /\ \A item \in JumpRows \cup ReturnRows : item.expires \subseteq Nat
    /\ \A registry \in Registries, host \in Hosts : registry[host].kind \in RegistryKinds
    /\ \A s \in Stamps : s.host \in Hosts \cup {""}

VARIABLES
    clock,
    worlds,   \* what was stored and what the registry said, the last one holds
    desk      \* [Guests \cup Editors -> where a request stands, or None]

jumpVars == <<clock, worlds, desk>>

world == Last(worlds)

\* A step that changes what is stored, or the registry.
Becomes(w) == /\ Len(worlds) <= MaxChanges
              /\ worlds' = IF w = world THEN worlds ELSE Append(worlds, w)

-----------------------------------------------------------------------------
(* Addresses and expiries *)

\* An address is [form, host, plain]: "site" for a path of our own pages, else the
\* scheme; `plain` without user, query and fragment.
privateHosts == {"localhost", "10.0.0.1", "printer.local", "x.invalid"}

OfficialAddress(a) == a.form = "https" /\ a.host \notin privateHosts

AllowReturn(a, registered) ==
    \/ a.form = "site"
    \/ OfficialAddress(a) /\ a.plain /\ a.host \in registered

\* expires_at holds an instant or nothing; other texts are not saved.
expired(expires) == \E t \in expires : t <= clock

\* Mutant: a revoked row is offered on.
UsableIfEnabled(row) == row # None /\ row.enabled /\ ~ expired(row.expires)

Usable(row) == row # None /\ row.enabled /\ ~ row.revoked /\ ~ expired(row.expires)

\* The jumps that are shown.  Closed ones go without their address.
PresentAt(jumps) ==
    {[kind |-> k, href |-> jumps[k].href] :
        k \in {k \in Kinds : Usable(jumps[k]) /\ OfficialAddress(jumps[k].href)}}

DecideReturn(ret, registered) ==
    IF Usable(ret) /\ AllowReturn(ret.href, registered)
    THEN {[kind |-> "return", href |-> ret.href]} ELSE {}

CanonicalHref(shown, kind) == {s \in shown : s.kind = kind}

returnHosts(hosts) == hosts \cup {Base}

-----------------------------------------------------------------------------
(* Requests *)

Free(r)     == desk[r] = None
At(r, step) == desk[r] # None /\ desk[r].at = step
Goto(r, t)  == desk' = [desk EXCEPT ![r] = t]
Return(r)   == Goto(r, None)
Read(r)     == UNCHANGED <<clock, worlds>>

\* `since` and `from` are when the request arrived.
arrives(r, want, host) ==
    /\ Free(r)
    /\ Goto(r, [at |-> "link", want |-> want, host |-> host,
                since |-> Len(worlds), from |-> clock])
    /\ Read(r)

handlePublicExtraJumps(r, host)             == arrives(r, "page", host)
handlePublicExtraJumpClick(r, host, kind)   == arrives(r, kind, host)
handlePublicReturnClick(r, host)            == arrives(r, "return", host)

-----------------------------------------------------------------------------
(* The brand: who is not let in is told so *)

decides(r, link, step) ==
    Goto(r, [at |-> step, link |-> link, want |-> desk[r].want, host |-> desk[r].host,
             since |-> desk[r].since, from |-> desk[r].from])

letIn(r) == Goto(r, [at |-> "jumps", want |-> desk[r].want, host |-> desk[r].host,
                     since |-> desk[r].since, from |-> desk[r].from])

admits(context) == context.kind = "ready" /\ context.admitted

\* The host belongs to no other brand, and an unknown one serves the page only if it
\* was published there, or by the base URL.
serves(host, context, link) ==
    /\ context.kind \notin {"unavailable", "invalid", "domain"}
    /\ context.brand \in {"", link.brand}
    /\ context.kind = "unknown" => host \in {link.host, Base}

\* A page without a brand is open to all.
LinkPublication(r) ==
    /\ At(r, "link")
    /\ IF world.link.brand = "" THEN letIn(r) ELSE decides(r, world.link, "host")
    /\ Read(r)

\* What the registry says of the guest's host: its own brand decides.
ReadHost(r) ==
    /\ At(r, "host")
    /\ LET link    == desk[r].link
           context == world.registry[desk[r].host]
       IN  IF ~ serves(desk[r].host, context, link) THEN Return(r)
           ELSE IF context.brand # link.brand /\ link.host # "" THEN decides(r, link, "shell")
           ELSE IF admits(context) THEN decides(r, link, "tenant") ELSE Return(r)
    /\ Read(r)

\* Without one, the brand of the host the page was published on.
ReadShell(r) ==
    /\ At(r, "shell")
    /\ IF admits(world.registry[desk[r].link.host])
       THEN decides(r, desk[r].link, "tenant") ELSE Return(r)
    /\ Read(r)

GetTenant(r) ==
    /\ At(r, "tenant")
    /\ IF world.lifecycle = "active" THEN letIn(r) ELSE Return(r)
    /\ Read(r)

-----------------------------------------------------------------------------
(* The jumps *)

offers(r, offer) == IF offer = {} /\ desk[r].want # "page" THEN Return(r)
                    ELSE Goto(r, [at |-> "answer", offer |-> offer, host |-> desk[r].host,
                                  since |-> desk[r].since, from |-> desk[r].from,
                                  want |-> desk[r].want])

\* A click looks at the jumps alone, and takes its address from them.
ListExtraJumps(r) ==
    /\ At(r, "jumps")
    /\ IF desk[r].want \in Kinds
       THEN offers(r, CanonicalHref(PresentAt(world.jumps), desk[r].want))
       ELSE Goto(r, [at |-> "return", jumps |-> world.jumps, want |-> desk[r].want,
                     host |-> desk[r].host, since |-> desk[r].since, from |-> desk[r].from])
    /\ Read(r)

GetAuthorizedReturn(r) ==
    /\ At(r, "return")
    /\ Goto(r, [at |-> "hosts", ret |-> world.ret, jumps |-> desk[r].jumps,
                want |-> desk[r].want, host |-> desk[r].host, since |-> desk[r].since,
                from |-> desk[r].from])
    /\ Read(r)

\* The last read, and then the clock.
jumpDocument(r) ==
    /\ At(r, "hosts")
    /\ offers(r, DecideReturn(desk[r].ret, returnHosts(world.hosts))
                     \cup IF desk[r].want = "page" THEN PresentAt(desk[r].jumps) ELSE {})
    /\ Read(r)

\* A click is stored and answered with its address, a page just answered.
RecordClick(r) == At(r, "answer") /\ Return(r) /\ Read(r)

\* A return names a registered address; jumps may name any.  Either half may be left
\* out and then stays; of one kind the last item counts, unknown kinds are dropped.
handleExtraJumpsPut(r, jumps, ret) ==
    /\ Free(r)
    /\ jumps # None \/ ret # None
    /\ ret # None => AllowReturn(ret.href, returnHosts(world.hosts))
    /\ Goto(r, [at |-> "save", jumps |-> jumps, ret |-> ret])
    /\ Read(r)

\* One transaction.
SaveJumpMatrix(r) ==
    /\ At(r, "save")
    /\ Becomes([world EXCEPT !.jumps = IF desk[r].jumps = None THEN @ ELSE desk[r].jumps,
                             !.ret   = IF desk[r].ret = None THEN @ ELSE desk[r].ret])
    /\ Return(r)
    /\ UNCHANGED clock

-----------------------------------------------------------------------------
(* What happens around *)

\* A link of the campaign is stamped once it is minted: this one, or another.
StampLinkBrand(s) ==
    /\ s.brand # ""
    /\ \E link \in {world.link} \cup IF world.link.brand = "" THEN {s} ELSE {} :
          Becomes([world EXCEPT !.link = link, !.hosts = @ \cup ({s.host} \ {""})])
    /\ UNCHANGED <<clock, desk>>

SetTenantLifecycle(lifecycle) ==
    /\ Becomes([world EXCEPT !.lifecycle = lifecycle])
    /\ UNCHANGED <<clock, desk>>

\* The registry is platform-brand's.
Registry(registry) ==
    /\ Becomes([world EXCEPT !.registry = registry])
    /\ UNCHANGED <<clock, desk>>

Tick ==
    /\ clock < MaxTime
    /\ clock' = clock + 1
    /\ UNCHANGED <<worlds, desk>>

JumpsInit ==
    /\ clock = 0
    /\ \E registry \in Registries, s \in Stamps :
          worlds = <<[jumps |-> [k \in Kinds |-> None], ret |-> None, link |-> s,
                      hosts |-> {s.host} \ {""}, lifecycle |-> "active",
                      registry |-> registry]>>
    /\ desk = [r \in Guests \cup Editors |-> None]

JumpsStep(r) ==
    \/ LinkPublication(r) \/ ReadHost(r) \/ ReadShell(r) \/ GetTenant(r)
    \/ ListExtraJumps(r) \/ GetAuthorizedReturn(r) \/ jumpDocument(r) \/ RecordClick(r)
    \/ SaveJumpMatrix(r)

Matrices == [Kinds -> JumpRows \cup {None}]

JumpsNext ==
    \/ \E r \in Guests, host \in Hosts :
          \/ handlePublicExtraJumps(r, host) \/ handlePublicReturnClick(r, host)
          \/ \E kind \in Kinds : handlePublicExtraJumpClick(r, host, kind)
    \/ \E r \in Editors, jumps \in Matrices \cup {None}, ret \in ReturnRows \cup {None} :
          handleExtraJumpsPut(r, jumps, ret)
    \/ \E r \in Guests \cup Editors : JumpsStep(r)
    \/ \E s \in Stamps : StampLinkBrand(s)
    \/ \E lifecycle \in {"active", "suspended"} : SetTenantLifecycle(lifecycle)
    \/ \E registry \in Registries : Registry(registry)
    \/ Tick

JumpsSpec == JumpsInit /\ [][JumpsNext]_jumpVars

-----------------------------------------------------------------------------
(* Properties *)

\* What was stored and said since a request arrived.
Seen(t) == {worlds[i] : i \in t.since .. Len(worlds)}

row(w, kind) == IF kind = "return" THEN w.ret ELSE w.jumps[kind]

\* The page carried no brand, or its brand was open to the guest: his host was not
\* another brand's, it or the page's host was ready for guests, the tenant active; each
\* of them at some time, for the request asks one after the other.
brandOpen(seen, host) ==
    \E link \in {w.link : w \in seen} :
       \/ link.brand = ""
       \/ /\ \E w \in seen : w.registry[host].brand \in {"", link.brand}
          /\ \E w \in seen, h \in {host, link.host} :
                w.registry[h].kind = "ready" /\ w.registry[h].admitted
          /\ \E w \in seen : w.lifecycle = "active"

\* Whatever the merchant, the registry and the clock do between the reads of a request,
\* an address a guest is given was, while the request was under way, stored as it is
\* given, enabled, not revoked and not due; the page was open to guests of that host,
\* brand, registry and tenant each at some time of the request; and a return leads to
\* our own pages or to a registered host.
OfferedWasOpen ==
    \A r \in Guests : At(r, "answer") =>
        /\ brandOpen(Seen(desk[r]), desk[r].host)
        /\ \A o \in desk[r].offer :
           /\ \E w \in Seen(desk[r]) :
                 LET stored == row(w, o.kind) IN
                 /\ stored # None
                 /\ stored.enabled /\ ~ stored.revoked /\ stored.href = o.href
                 /\ \A t \in stored.expires : t > desk[r].from
           /\ o.kind = "return" =>
                 \/ o.href.form = "site"
                 \/ \E w \in Seen(desk[r]) : o.href.host \in w.hosts \cup {Base}
           /\ o.href.form = "https" => o.href.host \notin privateHosts

=============================================================================
