----------------------------- MODULE Memberships -----------------------------
(***************************************************************************)
(* Who works for a merchant: the members of a tenant with their roles and  *)
(* shops (store.go, handlers_auth.go), the agents a merchant has taken on, *)
(* and the sub-accounts they open with their trail (store_agency.go,       *)
(* handlers_agency.go, the roles of authz.go).                             *)
(*                                                                         *)
(* One tenant.  The owner whose requests change members and agents stands  *)
(* outside `members` and is never refused; every other request takes its   *)
(* authority from the rows, one read after the other.  Names are left out. *)
(***************************************************************************)
EXTENDS Integers, Sequences

CONSTANTS
    Principals, Shops,
    Agents,     \* the principals somebody would take on
    Patches,    \* what a member is changed to: [role, enabled, scope], None unasked
    None, Idle,
    Requests,
    MaxRelations

\* What the instances assume of the constants.
RelationsAssumption == MaxRelations \in Nat /\ Agents \subseteq Principals

VARIABLES
    alone,      \* whether requests come one at a time
    members,    \* members[p]: [role, scope, enabled], or None
    relations,  \* agency_relations in the order they were made: [agent, revoked]
    trail,      \* agency_subaccount_trail
    hand        \* hand[r]: what a request holds, or Idle

memberVars == <<alone, members, relations, trail, hand>>

Relations == DOMAIN relations

active(p) == {i \in Relations : relations[i].agent = p /\ ~relations[i].revoked}

member(role, scope) == [role |-> role, scope |-> scope, enabled |-> TRUE]

IssuedRoles == {"org_owner", "store_manager", "staff"}

\* The roles and shops that a request may ask for together (parseMemberRole,
\* validateMemberScope).
fits(role, scope) == (role = "store_manager") <=> (scope # None)

-----------------------------------------------------------------------------
(* Requests *)

At(r, step) == hand[r] # Idle /\ hand[r].at = step

\* One request at a time, or as many as there are.
Free(r) == hand[r] = Idle /\ (alone => \A q \in Requests : hand[q] = Idle)

Hold(r, task) == hand' = [hand EXCEPT ![r] = task]
Go(r, step)   == hand' = [hand EXCEPT ![r].at = step]
Done(r)       == hand' = [hand EXCEPT ![r] = Idle]

\* What a request carries through UpdateMemberScoped: the changes it asks for, where
\* None leaves a column alone, and how it goes on.
changing(p, role, enabled, scope, goes) ==
    [at |-> "reread", who |-> p, role |-> role, enabled |-> enabled, scope |-> scope,
     goes |-> goes]

-----------------------------------------------------------------------------
(* Members *)

handleMemberCreate(p, role, scope) ==
    /\ members[p] = None /\ fits(role, scope)
    /\ members' = [members EXCEPT ![p] = member(role, scope)]
    /\ UNCHANGED <<alone, relations, trail, hand>>

\* The shop a patch writes: the one it asks for; or, unasked, the one of the row that
\* was read, which a row of another role does not keep.
keptScope(row, role, scope) ==
    IF scope # None THEN scope
    ELSE IF role = "store_manager" THEN row.scope ELSE None

\* The handler reads the row and makes out role and shop; a change of either must fit.
handleMemberPatch(r, p, patch) ==
    /\ Free(r) /\ members[p] # None
    /\ LET target == IF patch.role = None THEN members[p].role ELSE patch.role
           shop   == keptScope(members[p], target, patch.scope)
       IN  /\ patch.role # None \/ patch.scope # None => fits(target, shop)
           /\ Hold(r, changing(p, patch.role, patch.enabled, [set |-> shop], "done"))
    /\ UNCHANGED <<alone, members, relations, trail>>

\* UpdateMemberScoped reads the whole row ...
ReadMember(r) ==
    /\ At(r, "reread")
    /\ LET task == hand[r]
           row  == members[task.who]
           new  == [role    |-> IF task.role = None THEN row.role ELSE task.role,
                    enabled |-> IF task.enabled = None THEN row.enabled ELSE task.enabled,
                    scope   |-> IF task.scope = None THEN row.scope ELSE task.scope.set]
       IN  Hold(r, [at |-> "write", who |-> task.who, row |-> new, goes |-> task.goes])
    /\ UNCHANGED <<alone, members, relations, trail>>

\* ... and writes it back whole.
WriteMember(r) ==
    /\ At(r, "write")
    /\ members' = [members EXCEPT ![hand[r].who] = hand[r].row]
    /\ IF hand[r].goes = "done" THEN Done(r)
       ELSE Hold(r, [at |-> "relate", who |-> hand[r].who])
    /\ UNCHANGED <<alone, relations, trail>>

-----------------------------------------------------------------------------
(* Agents *)

\* Taking on an agent who is one already is answered with the relation there is.
handleAgencyRelationCreate(r, p) ==
    /\ Free(r) /\ active(p) = {}
    /\ Hold(r, [at |-> "ensure", who |-> p])
    /\ UNCHANGED <<alone, members, relations, trail>>

\* EnsureAgentMember: a member of another role is not made an agent.
EnsureAgentMember(r) ==
    /\ At(r, "ensure")
    /\ LET p == hand[r].who IN
           IF members[p] = None THEN Go(r, "join")
           ELSE IF members[p].role # "agent" THEN Done(r)
           ELSE IF members[p].enabled THEN Go(r, "relate")
           ELSE Hold(r, changing(p, None, TRUE, None, "relate"))
    /\ UNCHANGED <<alone, members, relations, trail>>

\* The insertion fails if the principal has become a member since.
InsertAgentMember(r) ==
    /\ At(r, "join")
    /\ LET p == hand[r].who IN
           IF members[p] = None
           THEN members' = [members EXCEPT ![p] = member("agent", None)] /\ Go(r, "relate")
           ELSE Done(r) /\ UNCHANGED members
    /\ UNCHANGED <<alone, relations, trail>>

\* One active relation per agent: a second one is answered with the first.
CreateAgencyRelation(r) ==
    /\ At(r, "relate")
    /\ LET p == hand[r].who IN
           \/ active(p) # {} /\ UNCHANGED relations
           \/ /\ active(p) = {} /\ Len(relations) < MaxRelations
              /\ relations' = Append(relations, [agent |-> p, revoked |-> FALSE])
    /\ Done(r)
    /\ UNCHANGED <<alone, members, trail>>

\* RevokeAgencyRelation reads the relation; one that is revoked is refused.
handleAgencyRelationRevoke(r, i) ==
    /\ Free(r) /\ ~relations[i].revoked
    /\ Hold(r, [at |-> "tombstone", relation |-> i])
    /\ UNCHANGED <<alone, members, relations, trail>>

RevokeAgencyRelation(r) ==
    /\ At(r, "tombstone")
    /\ relations' = [relations EXCEPT ![hand[r].relation].revoked = TRUE]
    /\ Go(r, "disable")
    /\ UNCHANGED <<alone, members, trail>>

\* The agent's row is switched off, if it is still an agent's.
DisableAgentMember(r) ==
    /\ At(r, "disable")
    /\ LET p == relations[hand[r].relation].agent IN
           members' = IF members[p] # None /\ members[p].role = "agent"
                      THEN [members EXCEPT ![p].enabled = FALSE] ELSE members
    /\ Done(r)
    /\ UNCHANGED <<alone, relations, trail>>

-----------------------------------------------------------------------------
(* Sub-accounts *)

\* A caller is who the member row says when the request comes in.  What was revoked
\* by then is remembered for the property.
SignIn(r, p) ==
    /\ Free(r)
    /\ members[p] # None /\ members[p].enabled
    /\ members[p].role \in {"org_owner", "agent"}
    /\ Hold(r, [at |-> "authorise", by |-> p, role |-> members[p].role, relation |-> None,
                gone |-> {i \in Relations : relations[i].revoked}])
    /\ UNCHANGED <<alone, members, relations, trail>>

\* An agent opens sub-accounts while a relation is active, an owner always
\* (Authorize, with HasActiveAgencyRelation).
Authorize(r) ==
    /\ At(r, "authorise")
    /\ IF hand[r].role = "org_owner" THEN Go(r, "issue")
       ELSE IF active(hand[r].by) # {} THEN Go(r, "name") ELSE Done(r)
    /\ UNCHANGED <<alone, members, relations, trail>>

\* Mutant: any relation will do.
nameAny(p) == {i \in Relations : relations[i].agent = p}

\* The relation a sub-account is opened under (GetActiveAgencyRelation).
name(p) == active(p)

NameRelation(r) ==
    /\ At(r, "name")
    /\ \/ \E i \in name(hand[r].by) :
              hand' = [hand EXCEPT ![r].at = "issue", ![r].relation = i]
       \/ name(hand[r].by) = {} /\ Done(r)
    /\ UNCHANGED <<alone, members, relations, trail>>

\* Row and trail in one transaction; whoever is a member is left as he is.  The
\* request names principal and shop, and a shop makes a manager.
IssueSubAccount(r, new, scope) ==
    /\ At(r, "issue")
    /\ IF members[new] # None THEN UNCHANGED <<members, trail>>
       ELSE /\ members' = [members EXCEPT ![new] =
                              member(IF scope = None THEN "staff" ELSE "store_manager", scope)]
            /\ trail' = trail \cup
                   {[member |-> new, by |-> hand[r].by, role |-> hand[r].role,
                     relation |-> hand[r].relation, gone |-> hand[r].gone]}
    /\ Done(r)
    /\ UNCHANGED <<alone, relations>>

-----------------------------------------------------------------------------

\* A request dies between two of its statements.
Crash(r) ==
    /\ ~alone /\ hand[r] # Idle
    /\ Done(r)
    /\ UNCHANGED <<alone, members, relations, trail>>

MembersInit ==
    /\ alone \in BOOLEAN
    /\ members = [p \in Principals |-> None]
    /\ relations = <<>> /\ trail = {}
    /\ hand = [r \in Requests |-> Idle]

MembersNext ==
    \/ \E p \in Principals, role \in IssuedRoles, scope \in Shops \cup {None} :
           handleMemberCreate(p, role, scope)
    \/ \E r \in Requests, p \in Principals, patch \in Patches : handleMemberPatch(r, p, patch)
    \/ \E r \in Requests, p \in Agents : handleAgencyRelationCreate(r, p)
    \/ \E r \in Requests, i \in Relations : handleAgencyRelationRevoke(r, i)
    \/ \E r \in Requests, p \in Principals : SignIn(r, p)
    \/ \E r \in Requests, new \in Principals, scope \in Shops \cup {None} :
           IssueSubAccount(r, new, scope)
    \/ \E r \in Requests :
           \/ ReadMember(r) \/ WriteMember(r)
           \/ EnsureAgentMember(r) \/ InsertAgentMember(r) \/ CreateAgencyRelation(r)
           \/ RevokeAgencyRelation(r) \/ DisableAgentMember(r)
           \/ Authorize(r) \/ NameRelation(r)
           \/ Crash(r)

MembersSpec == MembersInit /\ [][MembersNext]_memberVars

-----------------------------------------------------------------------------
(* Properties *)

\* A sub-account an agent opened is on record with a relation of that agent that was
\* not yet revoked when his request came in, however rows were revoked, renewed and
\* rewritten meanwhile; what an owner opened names none (handleAgencySubAccountCreate).
IssuedUnderActive ==
    \A t \in trail :
        IF t.role = "agent"
        THEN t.relation # None /\ relations[t.relation].agent = t.by /\ t.relation \notin t.gone
        ELSE t.relation = None

\* One membership, one record of how it was opened.
OneRecordPerAccount == \A t, u \in trail : t.member = u.member => t = u

\* With one request at a time, managers have a shop and nobody else does.
ScopeFitsRole ==
    alone => \A p \in Principals : members[p] # None => fits(members[p].role, members[p].scope)

-----------------------------------------------------------------------------
(* What the comments say and the code does not do *)

\* handlers_auth.go:155 says that managers alone carry a shop.  A patch that keeps the
\* shop of the row it read is overtaken by one that changes the role.
ScopeAlwaysFitsRole ==
    \A p \in Principals : members[p] # None => fits(members[p].role, members[p].scope)

\* store_agency.go:165: "an existing non-agent membership is never re-roled".  An
\* agent's row that is switched on again is written back whole.
NeverMadeAgent ==
    [][\A p \in Principals :
           members[p] # None /\ members[p].role # "agent" => members'[p].role # "agent"]_memberVars

\* store_agency.go:9 says that revoking disables the agent's row as well.  It is not
\* undone by hand only: a revocation may die in between, and is then refused as done,
\* and a patch or a renewal that read the row before writes it back enabled.
RevokedIsDisabled ==
    (\A r \in Requests : hand[r] = Idle) =>
        \A p \in Principals :
            active(p) = {} /\ (\E i \in Relations : relations[i].agent = p)
                => ~(members[p].role = "agent" /\ members[p].enabled)
=============================================================================
