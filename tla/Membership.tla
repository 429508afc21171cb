----------------------------- MODULE Membership -----------------------------
(***************************************************************************)
(* What one person (one e-mail address) is in one tenant: the account, the *)
(* role in the tenant, the clients and suppliers the person works for, and *)
(* the invitations sent to the address.                                    *)
(*                                                                         *)
(*   api/src/iam/user-invites.service.ts            team and client invites*)
(*   api/src/suppliers/supplier-invites.service.ts  supplier invites       *)
(*   api/src/iam/client-memberships.service.ts      direct memberships     *)
(*   api/src/iam/supplier-memberships.service.ts                           *)
(*   api/src/tenant/tenant.service.ts               the tenant's own team  *)
(*                                                                         *)
(* Only the acceptance of an invitation writes in a transaction, after a   *)
(* check of the invitation before it; the others write row by row.  Unique *)
(* indexes on the rows refuse the second of two inserts.                   *)
(*                                                                         *)
(* Abstractions: who may do this; passwords; the role within a client or a *)
(* supplier, the driver's record and the functional profile.               *)
(***************************************************************************)
EXTENDS Integers, FiniteSets

CONSTANTS
    Clients, Suppliers,
    MaxInvites,     \* bound: UserInvite and SupplierInvite rows
    Callers         \* requests in flight

TeamRoles == {"tenant_admin", "tenant_viewer"}
InviteIds == 1..MaxInvites

\* What a person may be invited to or made: a team role, or to work for a client or a
\* supplier; and the TenantMembership.role that goes with it.
Targets == TeamRoles \cup Clients \cup Suppliers
RoleFor(t) == IF t \in Clients THEN "client_user"
              ELSE IF t \in Suppliers THEN "supplier_user" ELSE t
Roles == {RoleFor(t) : t \in Targets}

ASSUME MembershipAssumption ==
    /\ MaxInvites \in Nat
    /\ Clients \cap Suppliers = {}
    /\ (Clients \cup Suppliers) \cap (TeamRoles \cup {"none"}) = {}

VARIABLES
    account,    \* a User row bears the address
    role,       \* TenantMembership.role, or "none"
    worksFor,   \* ClientMembership and SupplierMembership rows
    invites,    \* the invitations to the address
    calls,      \* what each request in flight has read
    redeemed,   \* history: how often each invitation has been accepted
    raced,      \* history: invitations with an acceptance begun during another
    strayed,    \* history: targets with an invitation begun during another
    remade      \* history: a direct membership has changed a role the person had

membershipVars == <<account, role, worksFor, invites, calls, redeemed, raced, strayed, remade>>

Invite == [status : {"absent", "open", "expired", "accepted"}, to : Targets \cup {"none"}]
CallSteps == {"idle", "insert", "account", "join", "commit", "role", "member", "create", "update"}
Call == [pc : CallSteps, to : Targets \cup {"none"}, invite : InviteIds \cup {0},
         role : Roles \cup {"none"}, member : BOOLEAN]
NoCall == [pc |-> "idle", to |-> "none", invite |-> 0, role |-> "none", member |-> FALSE]

MembershipTypeOK ==
    /\ account \in BOOLEAN /\ remade \in BOOLEAN
    /\ role \in Roles \cup {"none"}
    /\ worksFor \subseteq Clients \cup Suppliers
    /\ invites \in [InviteIds -> Invite]
    /\ calls \in [Callers -> Call]
    /\ redeemed \in [InviteIds -> Nat]
    /\ raced \subseteq InviteIds /\ strayed \subseteq Targets
    \* A role and a membership belong to an account, and a member has a role.
    /\ role # "none" => account
    /\ worksFor # {} => role # "none"

MembershipInit ==
    /\ account \in BOOLEAN
    /\ role = "none" /\ worksFor = {}
    /\ invites = [i \in InviteIds |-> [status |-> "absent", to |-> "none"]]
    /\ calls = [c \in Callers |-> NoCall]
    /\ redeemed = [i \in InviteIds |-> 0]
    /\ raced = {} /\ strayed = {}
    /\ remade = FALSE
-----------------------------------------------------------------------------
Uncalled(c) == calls[c] = NoCall
AtStep(c, pc) == calls[c].pc = pc
Proceeds(c, pc) == calls' = [calls EXCEPT ![c].pc = pc]
Ends(c) == calls' = [calls EXCEPT ![c] = NoCall]

histories == <<redeemed, raced, strayed, remade>>

(***************************************************************************)
(* Invitations.                                                            *)
(***************************************************************************)
\* insertInvite first expires the open invitations to the same target; the invitations
\* of a supplier leave the older ones open.
Outdated_Flaw(t) == {}
Outdated(t) == IF t \in Suppliers THEN {}
               ELSE {i \in InviteIds : invites[i].status = "open" /\ invites[i].to = t}

ExpireOlder(c, t) ==
    /\ Uncalled(c)
    /\ calls' = [calls EXCEPT ![c] = [NoCall EXCEPT !.pc = "insert", !.to = t]]
    /\ invites' = [i \in InviteIds |-> IF i \in Outdated(t)
                                       THEN [invites[i] EXCEPT !.status = "expired"]
                                       ELSE invites[i]]
    /\ strayed' = IF \E d \in Callers : AtStep(d, "insert") /\ calls[d].to = t
                  THEN strayed \cup {t} ELSE strayed
    /\ UNCHANGED <<account, role, worksFor, redeemed, raced, remade>>

InsertInvite(c) ==
    /\ AtStep(c, "insert")
    /\ \E i \in InviteIds :
         /\ invites[i].status = "absent" /\ \A j \in 1..(i - 1) : invites[j].status # "absent"
         /\ invites' = [invites EXCEPT ![i] = [status |-> "open", to |-> calls[c].to]]
    /\ Ends(c)
    /\ UNCHANGED <<account, role, worksFor, histories>>

\* Seven days pass.
ExpireInvite(i) ==
    /\ invites[i].status = "open"
    /\ invites' = [invites EXCEPT ![i].status = "expired"]
    /\ UNCHANGED <<account, role, worksFor, calls, histories>>

\* findValidInvite, with a session or with a password: without an account one is made.
BeginAccept(c, i) ==
    /\ Uncalled(c)
    /\ invites[i].status = "open"
    /\ calls' = [calls EXCEPT ![c] =
         [NoCall EXCEPT !.pc = IF account THEN "join" ELSE "account", !.invite = i,
                        !.to = invites[i].to]]
    /\ raced' = IF \E d \in Callers : calls[d].invite = i THEN raced \cup {i} ELSE raced
    /\ UNCHANGED <<account, role, worksFor, invites, redeemed, strayed, remade>>

MakeAccount(c) ==
    /\ AtStep(c, "account") /\ ~account
    /\ account' = TRUE
    /\ Proceeds(c, "join")
    /\ UNCHANGED <<role, worksFor, invites, histories>>

\* finalizeAccept reads the role the person has, which refuses the acceptance when it is
\* another one, and for a supplier whether there is a membership ...
JoinTenant_Flaw(c) ==
    /\ AtStep(c, "join")
    /\ calls' = [calls EXCEPT ![c] = [@ EXCEPT !.pc = "commit", !.role = role,
                                               !.member = calls[c].to \in worksFor]]
    /\ UNCHANGED <<account, role, worksFor, invites, histories>>
JoinTenant(c) ==
    /\ AtStep(c, "join")
    /\ role \in {"none", RoleFor(calls[c].to)}
    /\ calls' = [calls EXCEPT ![c] = [@ EXCEPT !.pc = "commit", !.role = role,
                                               !.member = calls[c].to \in worksFor]]
    /\ UNCHANGED <<account, role, worksFor, invites, histories>>

\* ... and inserts what it has not found, if no one else has since.
CommitAccept(c) ==
    LET t == calls[c].to
        i == calls[c].invite
        inserts == t \in Suppliers /\ ~calls[c].member
    IN
    /\ AtStep(c, "commit")
    /\ calls[c].role = "none" => role = "none"
    /\ inserts => t \notin worksFor
    /\ role' = IF calls[c].role = "none" THEN RoleFor(t) ELSE role
    /\ worksFor' = IF inserts \/ t \in Clients THEN worksFor \cup {t} ELSE worksFor
    /\ invites' = [invites EXCEPT ![i].status = "accepted"]
    /\ redeemed' = [redeemed EXCEPT ![i] = @ + 1]
    /\ Ends(c)
    /\ UNCHANGED <<account, raced, strayed, remade>>
-----------------------------------------------------------------------------
(***************************************************************************)
(* Memberships made by an administrator.                                   *)
(***************************************************************************)
\* create of a client's or a supplier's membership: account, role and membership, each
\* made or overwritten in a statement of its own.
UpsertAccount(c, t) ==
    /\ Uncalled(c) /\ t \in Clients \cup Suppliers
    /\ account' = TRUE
    /\ calls' = [calls EXCEPT ![c] = [NoCall EXCEPT !.pc = "role", !.to = t]]
    /\ UNCHANGED <<role, worksFor, invites, histories>>

UpsertRole(c) ==
    /\ AtStep(c, "role")
    /\ role' = RoleFor(calls[c].to)
    /\ remade' = (remade \/ role \notin {"none", RoleFor(calls[c].to)})
    /\ Proceeds(c, "member")
    /\ UNCHANGED <<account, worksFor, invites, redeemed, raced, strayed>>

UpsertMembership(c) ==
    /\ AtStep(c, "member")
    /\ worksFor' = worksFor \cup {calls[c].to}
    /\ Ends(c)
    /\ UNCHANGED <<account, role, invites, histories>>

\* remove leaves the person's role in the tenant.
RemoveMembership(t) ==
    /\ t \in worksFor
    /\ worksFor' = worksFor \ {t}
    /\ UNCHANGED <<account, role, invites, calls, histories>>

\* createMember of the tenant's team refuses a person of a client or a supplier, whose
\* account it has made or changed by then.
ReadMember(c, t) ==
    /\ Uncalled(c) /\ t \in TeamRoles
    /\ account' = TRUE
    /\ IF role \in TeamRoles \cup {"none"}
       THEN calls' = [calls EXCEPT ![c] =
              [NoCall EXCEPT !.pc = IF role = "none" THEN "create" ELSE "update", !.to = t]]
       ELSE UNCHANGED calls
    /\ UNCHANGED <<role, worksFor, invites, histories>>

\* setMemberRole.
ReadRole(c, t) ==
    /\ Uncalled(c) /\ t \in TeamRoles
    /\ role \in TeamRoles
    /\ calls' = [calls EXCEPT ![c] = [NoCall EXCEPT !.pc = "update", !.to = t]]
    /\ UNCHANGED <<account, role, worksFor, invites, histories>>

WriteMember(c) ==
    /\ AtStep(c, "create") \/ AtStep(c, "update")
    /\ AtStep(c, "create") => role = "none"
    /\ role' = calls[c].to
    /\ Ends(c)
    /\ UNCHANGED <<account, worksFor, invites, histories>>

\* A check or a unique index refuses, or the process stops between two statements.
DropMembershipCall(c) ==
    /\ ~Uncalled(c)
    /\ Ends(c)
    /\ UNCHANGED <<account, role, worksFor, invites, histories>>

MembershipNext ==
    \/ \E c \in Callers :
         \/ \E t \in Targets : ExpireOlder(c, t) \/ UpsertAccount(c, t)
                               \/ ReadMember(c, t) \/ ReadRole(c, t)
         \/ \E i \in InviteIds : BeginAccept(c, i)
         \/ InsertInvite(c) \/ MakeAccount(c) \/ JoinTenant(c) \/ CommitAccept(c)
         \/ UpsertRole(c) \/ UpsertMembership(c) \/ WriteMember(c)
         \/ DropMembershipCall(c)
    \/ \E i \in InviteIds : ExpireInvite(i)
    \/ \E t \in worksFor : RemoveMembership(t)

MembershipSpec == MembershipInit /\ [][MembershipNext]_membershipVars
-----------------------------------------------------------------------------
(***************************************************************************)
(* Properties.                                                             *)
(***************************************************************************)
\* The access of a person is computed from the role and the memberships together, and
\* only agrees when they are of one kind ("use a dedicated e-mail"): whichever
\* invitations, team changes and removals overlap, who works for a client is a
\* client_user and who works for a supplier a supplier_user, as long as no direct
\* membership has been made for a person who was something else.
OneKindOfMember ==
    ~remade => \A t \in worksFor : role = RoleFor(t)

\* An invitation is accepted once, unless a second acceptance began while another was
\* under way; and a newer invitation of the team or of a client leaves no older one to
\* the same target open, unless the two were sent at the same time.
InviteSpentOnce ==
    /\ \A i \in InviteIds \ raced : redeemed[i] =< 1
    /\ \A i, j \in InviteIds :
         /\ invites[i].status = "open" /\ invites[j].status = "open"
         /\ invites[i].to = invites[j].to /\ invites[i].to \notin strayed \cup Suppliers
         => i = j
=============================================================================
