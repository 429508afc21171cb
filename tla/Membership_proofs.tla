------------------------- MODULE Membership_proofs -------------------------
(***************************************************************************)
(* Proofs about Membership, for any clients, suppliers and invitations and *)
(* any number of requests in flight.                                       *)
(***************************************************************************)
EXTENDS Membership, TLAPS

-----------------------------------------------------------------------------
(***************************************************************************)
(* Types.  What a request in flight may still write depends on the step it *)
(* has come to: MembershipTypeOK is not inductive without it.              *)
(***************************************************************************)
Organisations == Clients \cup Suppliers

CallTyped(call) ==
    /\ call.pc = "insert" => call.to \in Targets
    /\ call.pc \in {"account", "join", "commit"} =>
         call.to \in Targets /\ call.invite \in InviteIds
    /\ call.pc \in {"role", "member"} => call.to \in Organisations
    /\ call.pc \in {"create", "update"} => call.to \in TeamRoles

\* A request past its first statement has an account; one that has found or written
\* a role, a role: no request takes either away.
CallFounded(call, known, has) ==
    /\ call.pc \in {"join", "commit", "role", "member", "create", "update"} => known
    /\ call.pc = "member" => has # "none"
    /\ call.pc = "commit" /\ call.role # "none" => has # "none"

MemberTypes ==
    /\ MembershipTypeOK
    /\ \A i \in InviteIds : invites[i].status = "open" => invites[i].to \in Targets
    /\ \A c \in Callers : CallTyped(calls[c]) /\ CallFounded(calls[c], account, role)

LEMMA RoleForTyped ==
  /\ \A t \in Targets : RoleFor(t) \in Roles /\ RoleFor(t) # "none"
  /\ \A t \in TeamRoles : RoleFor(t) = t /\ t \in Targets /\ t \in Roles
  /\ \A t \in Organisations : t \in Targets /\ RoleFor(t) \notin TeamRoles
<1>1. \A t \in Targets : RoleFor(t) \in Roles
  BY DEF Roles
<1>2. \A t \in TeamRoles : RoleFor(t) = t /\ t \in Targets
  BY MembershipAssumption DEF RoleFor, Targets
<1>3. \A t \in Organisations : t \in Targets /\ RoleFor(t) \in {"client_user", "supplier_user"}
  BY DEF RoleFor, Targets, Organisations
<1>4. {"client_user", "supplier_user"} \cap (TeamRoles \cup {"none"}) = {}
      /\ "none" \notin TeamRoles
  BY DEF TeamRoles
<1> QED
  BY <1>1, <1>2, <1>3, <1>4 DEF Targets, Organisations

LEMMA NoCallTyped ==
  /\ NoCall \in Call /\ CallTyped(NoCall)
  /\ CallFounded(NoCall, account, role) /\ CallFounded(NoCall, account', role')
BY DEF NoCall, Call, CallSteps, CallTyped, CallFounded

\* A request that goes on, and a request table it leaves well typed.
LEMMA CallStep ==
  ASSUME MemberTypes, NEW c \in Callers, NEW STATE call, call \in Call, CallTyped(call),
         calls' = [calls EXCEPT ![c] = call], CallFounded(call, account', role'),
         account => account', role # "none" => role' # "none"
  PROVE  /\ calls' \in [Callers -> Call]
         /\ \A d \in Callers : CallTyped(calls'[d]) /\ CallFounded(calls'[d], account', role')
<1>1. calls' \in [Callers -> Call]
  BY DEF MemberTypes, MembershipTypeOK
<1>2. ASSUME NEW d \in Callers
      PROVE  CallTyped(calls'[d]) /\ CallFounded(calls'[d], account', role')
  <2>1. calls'[d] = IF d = c THEN call ELSE calls[d]
    BY DEF MemberTypes, MembershipTypeOK
  <2>2. CASE d = c
    BY <2>1, <2>2 DEF CallFounded
  <2>3. CASE d # c
    BY <2>1, <2>3 DEF MemberTypes, CallFounded
  <2> QED
    BY <2>2, <2>3
<1> QED
  BY <1>1, <1>2

\* What JoinTenant makes of a request.
LEMMA ReadTyped ==
  ASSUME NEW call \in Call, NEW r \in Roles \cup {"none"}, NEW found \in BOOLEAN
  PROVE  [call EXCEPT !.pc = "commit", !.role = r, !.member = found] \in Call
BY DEF Call, CallSteps

\* What a request reads first leaves the rest of it as NoCall has it.
LEMMA CallsTyped ==
  ASSUME MemberTypes, NEW c \in Callers
  PROVE  /\ calls[c] \in Call /\ CallTyped(calls[c]) /\ CallFounded(calls[c], account, role)
         /\ \A pc \in CallSteps : [calls[c] EXCEPT !.pc = pc] \in Call
BY DEF MemberTypes, MembershipTypeOK, Call

\* Invitations: sent, outdated, accepted.
LEMMA InviteStepTyped ==
  ASSUME MemberTypes, NEW c \in Callers,
         \/ \E t \in Targets : ExpireOlder(c, t)
         \/ InsertInvite(c)
         \/ \E i \in InviteIds : ExpireInvite(i)
  PROVE  MemberTypes'
<1>1. UNCHANGED <<account, role, worksFor, redeemed, raced, remade>>
  BY DEF ExpireOlder, InsertInvite, ExpireInvite, histories
<1>2. CASE \E t \in Targets : ExpireOlder(c, t)
  <2>1. PICK t \in Targets : ExpireOlder(c, t)
    BY <1>2
  <2> DEFINE call == [NoCall EXCEPT !.pc = "insert", !.to = t]
  <2>2. call \in Call /\ CallTyped(call) /\ CallFounded(call, account', role')
    BY DEF NoCall, Call, CallSteps, CallTyped, CallFounded
  <2>3. calls' = [calls EXCEPT ![c] = call]
    BY <2>1 DEF ExpireOlder
  <2> HIDE DEF call
  <2>4. /\ calls' \in [Callers -> Call]
        /\ \A d \in Callers : CallTyped(calls'[d]) /\ CallFounded(calls'[d], account', role')
    BY <1>1, <2>2, <2>3, CallStep
  <2>5. /\ invites' \in [InviteIds -> Invite]
        /\ \A i \in InviteIds : invites'[i].status = "open" => invites'[i].to \in Targets
    BY <2>1 DEF ExpireOlder, Outdated, MemberTypes, MembershipTypeOK, Invite
  <2>6. strayed' \subseteq Targets
    BY <2>1 DEF ExpireOlder, MemberTypes, MembershipTypeOK
  <2> QED
    BY <1>1, <2>4, <2>5, <2>6 DEF MemberTypes, MembershipTypeOK
<1>3. CASE InsertInvite(c)
  <2>1. calls[c].to \in Targets
    BY <1>3, CallsTyped DEF InsertInvite, AtStep, CallTyped
  <2>2. PICK i \in InviteIds :
          invites' = [invites EXCEPT ![i] = [status |-> "open", to |-> calls[c].to]]
    BY <1>3 DEF InsertInvite
  <2>3. /\ invites' \in [InviteIds -> Invite]
        /\ \A j \in InviteIds : invites'[j].status = "open" => invites'[j].to \in Targets
    BY <2>1, <2>2 DEF MemberTypes, MembershipTypeOK, Invite
  <2>4. calls' = [calls EXCEPT ![c] = NoCall]
    BY <1>3 DEF InsertInvite, Ends
  <2>5. /\ calls' \in [Callers -> Call]
        /\ \A d \in Callers : CallTyped(calls'[d]) /\ CallFounded(calls'[d], account', role')
    BY <1>1, <2>4, NoCallTyped, CallStep
  <2> QED
    BY <1>1, <1>3, <2>3, <2>5 DEF MemberTypes, MembershipTypeOK, InsertInvite, histories
<1>4. CASE \E i \in InviteIds : ExpireInvite(i)
  <2>1. /\ invites' \in [InviteIds -> Invite]
        /\ \A j \in InviteIds : invites'[j].status = "open" => invites'[j].to \in Targets
    BY <1>4 DEF ExpireInvite, MemberTypes, MembershipTypeOK, Invite
  <2>2. UNCHANGED <<calls, strayed>>
    BY <1>4 DEF ExpireInvite, histories
  <2> QED
    BY <1>1, <2>1, <2>2 DEF MemberTypes, MembershipTypeOK, CallFounded
<1> QED
  BY <1>2, <1>3, <1>4

\* The first steps of an acceptance.
LEMMA AcceptStepTyped ==
  ASSUME MemberTypes, NEW c \in Callers,
         \/ \E i \in InviteIds : BeginAccept(c, i)
         \/ MakeAccount(c)
         \/ JoinTenant(c)
  PROVE  MemberTypes'
<1>1. UNCHANGED <<role, worksFor, invites, redeemed, strayed, remade>>
      /\ (account => account') /\ account' \in BOOLEAN
  BY DEF BeginAccept, MakeAccount, JoinTenant, histories, MemberTypes, MembershipTypeOK
<1>2. raced' \subseteq InviteIds
  BY DEF BeginAccept, MakeAccount, JoinTenant, histories, MemberTypes, MembershipTypeOK
<1>3. /\ calls' \in [Callers -> Call]
      /\ \A d \in Callers : CallTyped(calls'[d]) /\ CallFounded(calls'[d], account', role')
  <2>1. CASE \E i \in InviteIds : BeginAccept(c, i)
    <3>1. PICK i \in InviteIds : BeginAccept(c, i)
      BY <2>1
    <3>2. invites[i].to \in Targets
      BY <3>1 DEF BeginAccept, MemberTypes
    <3> DEFINE call == [NoCall EXCEPT !.pc = IF account THEN "join" ELSE "account",
                                      !.invite = i, !.to = invites[i].to]
    <3>3. call \in Call /\ CallTyped(call) /\ CallFounded(call, account', role')
      BY <1>1, <3>2 DEF NoCall, Call, CallSteps, CallTyped, CallFounded
    <3>4. calls' = [calls EXCEPT ![c] = call]
      BY <3>1 DEF BeginAccept
    <3> HIDE DEF call
    <3> QED
      BY <1>1, <3>3, <3>4, CallStep
  <2>2. CASE MakeAccount(c)
    <3> DEFINE call == [calls[c] EXCEPT !.pc = "join"]
    <3>1. call \in Call /\ calls' = [calls EXCEPT ![c] = call] /\ account'
      BY <2>2, CallsTyped DEF MakeAccount, Proceeds, CallSteps, MemberTypes, MembershipTypeOK
    <3>2. CallTyped(call) /\ CallFounded(call, account', role')
      BY <2>2, <3>1, CallsTyped DEF MakeAccount, AtStep, CallTyped, CallFounded, Call
    <3> HIDE DEF call
    <3> QED
      BY <1>1, <3>1, <3>2, CallStep
  <2>3. CASE JoinTenant(c)
    <3> DEFINE found == calls[c].to \in worksFor
               call == [calls[c] EXCEPT !.pc = "commit", !.role = role, !.member = found]
    <3>1. calls' = [calls EXCEPT ![c] = call]
      BY <2>3 DEF JoinTenant
    <3>2. found \in BOOLEAN
      OBVIOUS
    <3> HIDE DEF found
    <3>4. call \in Call
      BY <3>2, CallsTyped, ReadTyped DEF MemberTypes, MembershipTypeOK
    <3>3. CallTyped(call) /\ CallFounded(call, account', role')
      BY <1>1, <2>3, CallsTyped DEF JoinTenant, AtStep, CallTyped, CallFounded, Call
    <3> HIDE DEF call
    <3> QED
      BY <1>1, <3>1, <3>3, <3>4, CallStep
  <2> QED
    BY <2>1, <2>2, <2>3
<1> QED
  BY <1>1, <1>2, <1>3 DEF MemberTypes, MembershipTypeOK

\* Requests that end, having written at most a role, a membership or an invitation.
LEMMA EndStepTyped ==
  ASSUME MemberTypes, NEW c \in Callers, Ends(c),
         UNCHANGED <<account, raced, strayed, remade>>,
         role' \in Roles \cup {"none"}, role # "none" => role' # "none",
         role' # "none" => account,
         worksFor' \subseteq Organisations, worksFor' # {} => role' # "none",
         invites' \in [InviteIds -> Invite], redeemed' \in [InviteIds -> Nat],
         \A i \in InviteIds : invites'[i].status = "open" => invites'[i].to \in Targets
  PROVE  MemberTypes'
<1>1. calls' = [calls EXCEPT ![c] = NoCall]
  BY DEF Ends
<1>2. /\ calls' \in [Callers -> Call]
      /\ \A d \in Callers : CallTyped(calls'[d]) /\ CallFounded(calls'[d], account', role')
  BY <1>1, NoCallTyped, CallStep
<1> QED
  BY <1>2 DEF MemberTypes, MembershipTypeOK, Organisations

\* The last step of an acceptance; the requests that only end.
LEMMA CommitStepTyped ==
  ASSUME MemberTypes, NEW c \in Callers,
         CommitAccept(c) \/ UpsertMembership(c) \/ WriteMember(c) \/ DropMembershipCall(c)
  PROVE  MemberTypes'
<1>1. /\ calls[c] \in Call /\ CallTyped(calls[c]) /\ CallFounded(calls[c], account, role)
      /\ role \in Roles \cup {"none"} /\ worksFor \subseteq Organisations
      /\ role # "none" => account
      /\ worksFor # {} => role # "none"
      /\ invites \in [InviteIds -> Invite] /\ redeemed \in [InviteIds -> Nat]
      /\ \A i \in InviteIds : invites[i].status = "open" => invites[i].to \in Targets
  BY DEF MemberTypes, MembershipTypeOK, Organisations
<1>2. CASE CommitAccept(c)
  <2> DEFINE t == calls[c].to
             i == calls[c].invite
  <2>1. t \in Targets /\ i \in InviteIds /\ account
    BY <1>1, <1>2 DEF CommitAccept, AtStep, CallTyped, CallFounded
  <2>2. role' = IF calls[c].role = "none" THEN RoleFor(t) ELSE role
    BY <1>2 DEF CommitAccept
  <2>3. /\ role' \in Roles \cup {"none"} /\ role' # "none"
    <3>1. calls[c].role # "none" => role # "none"
      BY <1>1, <1>2 DEF CommitAccept, AtStep, CallFounded
    <3> QED
      BY <1>1, <2>1, <2>2, <3>1, RoleForTyped
  <2>4. worksFor' \subseteq Organisations
    BY <1>1, <1>2 DEF CommitAccept, Organisations
  <2>5. invites' = [invites EXCEPT ![i].status = "accepted"]
    BY <1>2 DEF CommitAccept
  <2>6. redeemed' \in [InviteIds -> Nat]
    BY <1>1, <1>2, <2>1 DEF CommitAccept
  <2>7. UNCHANGED <<account, raced, strayed, remade>> /\ Ends(c)
    BY <1>2 DEF CommitAccept
  <2> HIDE DEF t, i
  <2>8. /\ invites' \in [InviteIds -> Invite]
        /\ \A j \in InviteIds : invites'[j].status = "open" => invites'[j].to \in Targets
    BY <1>1, <2>1, <2>5 DEF Invite
  <2> QED
    BY <1>1, <2>1, <2>3, <2>4, <2>6, <2>7, <2>8, EndStepTyped
<1>3. CASE UpsertMembership(c)
  <2>1. calls[c].to \in Organisations /\ role # "none"
    BY <1>1, <1>3 DEF UpsertMembership, AtStep, CallTyped, CallFounded
  <2>2. worksFor' \subseteq Organisations /\ Ends(c)
        /\ UNCHANGED <<account, role, invites, histories>>
    BY <1>1, <1>3, <2>1 DEF UpsertMembership
  <2> QED
    BY <1>1, <2>1, <2>2, EndStepTyped DEF histories
<1>4. CASE WriteMember(c)
  <2>1. calls[c].to \in TeamRoles /\ account
    BY <1>1, <1>4 DEF WriteMember, AtStep, CallTyped, CallFounded
  <2>2. role' = calls[c].to /\ Ends(c) /\ UNCHANGED <<account, worksFor, invites, histories>>
    BY <1>4 DEF WriteMember
  <2>3. role' \in Roles /\ role' # "none"
    BY <2>1, <2>2, RoleForTyped
  <2> QED
    BY <1>1, <2>1, <2>2, <2>3, EndStepTyped DEF histories
<1>5. CASE DropMembershipCall(c)
  <2>1. Ends(c) /\ UNCHANGED <<account, role, worksFor, invites, histories>>
    BY <1>5 DEF DropMembershipCall
  <2> QED
    BY <1>1, <2>1, EndStepTyped DEF histories
<1> QED
  BY <1>2, <1>3, <1>4, <1>5

\* The first steps of an administrator's request, and the removal of a membership.
LEMMA DirectStepTyped ==
  ASSUME MemberTypes,
         \/ \E c \in Callers : \/ \E t \in Targets : UpsertAccount(c, t) \/ ReadMember(c, t)
                                                     \/ ReadRole(c, t)
                               \/ UpsertRole(c)
         \/ \E t \in worksFor : RemoveMembership(t)
  PROVE  MemberTypes'
<1>1. CASE \E t \in worksFor : RemoveMembership(t)
  BY <1>1 DEF RemoveMembership, histories, MemberTypes, MembershipTypeOK
<1>2. ASSUME NEW c \in Callers, NEW t \in Targets,
             UpsertAccount(c, t) \/ ReadMember(c, t) \/ ReadRole(c, t)
      PROVE  MemberTypes'
  <2>1. /\ UNCHANGED <<role, worksFor, invites, histories>>
        /\ account' \in BOOLEAN /\ (account => account') /\ (role # "none" => account')
    BY <1>2 DEF UpsertAccount, ReadMember, ReadRole, MemberTypes, MembershipTypeOK
  <2>2. CASE UNCHANGED calls
    <3>1. \A d \in Callers : CallTyped(calls'[d]) /\ CallFounded(calls'[d], account', role')
      BY <2>1, <2>2 DEF MemberTypes, CallFounded
    <3> QED
      BY <2>1, <2>2, <3>1 DEF MemberTypes, MembershipTypeOK, histories
  <2>3. ASSUME NEW pc \in {"role", "create", "update"},
               calls' = [calls EXCEPT ![c] = [NoCall EXCEPT !.pc = pc, !.to = t]],
               IF pc = "role" THEN t \in Organisations ELSE t \in TeamRoles,
               account'
        PROVE  MemberTypes'
    <3> DEFINE call == [NoCall EXCEPT !.pc = pc, !.to = t]
    <3>1. call \in Call /\ CallTyped(call) /\ CallFounded(call, account', role')
      BY <2>3 DEF NoCall, Call, CallSteps, CallTyped, CallFounded
    <3>2. calls' = [calls EXCEPT ![c] = call]
      BY <2>3
    <3> HIDE DEF call
    <3>3. /\ calls' \in [Callers -> Call]
          /\ \A d \in Callers : CallTyped(calls'[d]) /\ CallFounded(calls'[d], account', role')
      BY <2>1, <3>1, <3>2, CallStep
    <3> QED
      BY <2>1, <3>3 DEF MemberTypes, MembershipTypeOK, histories
  <2>4. CASE UpsertAccount(c, t)
    BY <2>3, <2>4 DEF UpsertAccount, Organisations
  <2>5. CASE ReadMember(c, t)
    BY <2>2, <2>3, <2>5 DEF ReadMember
  <2>6. CASE ReadRole(c, t)
    <3>1. account' /\ t \in TeamRoles
      BY <2>1, <2>6 DEF ReadRole, TeamRoles
    <3> QED
      BY <2>3, <2>6, <3>1 DEF ReadRole
  <2> QED
    BY <1>2, <2>4, <2>5, <2>6
<1>3. ASSUME NEW c \in Callers, UpsertRole(c)
      PROVE  MemberTypes'
  <2> DEFINE call == [calls[c] EXCEPT !.pc = "member"]
  <2>1. /\ calls[c] \in Call /\ CallTyped(calls[c]) /\ CallFounded(calls[c], account, role)
        /\ calls[c].pc = "role"
    BY <1>3 DEF UpsertRole, AtStep, MemberTypes, MembershipTypeOK
  <2>2. calls[c].to \in Organisations /\ account
    BY <2>1 DEF CallTyped, CallFounded
  <2>3. role' \in Roles /\ role' # "none"
    BY <1>3, <2>2, RoleForTyped DEF UpsertRole
  <2>4. calls' = [calls EXCEPT ![c] = call] /\ UNCHANGED <<account, worksFor, invites,
                                                           redeemed, raced, strayed>>
    BY <1>3 DEF UpsertRole, Proceeds, MemberTypes, MembershipTypeOK
  <2>5. call \in Call /\ CallTyped(call) /\ CallFounded(call, account', role')
    BY <2>1, <2>2, <2>3, <2>4 DEF Call, CallSteps, CallTyped, CallFounded
  <2>6. remade' \in BOOLEAN
    BY <1>3 DEF UpsertRole, MemberTypes, MembershipTypeOK
  <2> HIDE DEF call
  <2>7. /\ calls' \in [Callers -> Call]
        /\ \A d \in Callers : CallTyped(calls'[d]) /\ CallFounded(calls'[d], account', role')
    BY <2>3, <2>4, <2>5, CallStep
  <2> QED
    BY <2>2, <2>3, <2>4, <2>6, <2>7 DEF MemberTypes, MembershipTypeOK
<1> QED
  BY <1>1, <1>2, <1>3

LEMMA MemberTypeStep == MemberTypes /\ [MembershipNext]_membershipVars => MemberTypes'
<1> SUFFICES ASSUME MemberTypes, [MembershipNext]_membershipVars
             PROVE  MemberTypes'
  OBVIOUS
<1>1. CASE UNCHANGED membershipVars
  BY <1>1 DEF membershipVars, MemberTypes, MembershipTypeOK, CallFounded
<1>2. CASE \E i \in InviteIds : ExpireInvite(i)
  <2>1. PICK i \in InviteIds : ExpireInvite(i)
    BY <1>2
  <2>2. /\ invites' \in [InviteIds -> Invite]
        /\ \A j \in InviteIds : invites'[j].status = "open" => invites'[j].to \in Targets
    BY <2>1 DEF ExpireInvite, MemberTypes, MembershipTypeOK, Invite
  <2> QED
    BY <2>1, <2>2 DEF ExpireInvite, histories, MemberTypes, MembershipTypeOK, CallFounded
<1>3. ASSUME NEW c \in Callers,
             \/ \E t \in Targets : ExpireOlder(c, t)
             \/ InsertInvite(c)
             \/ \E i \in InviteIds : BeginAccept(c, i)
             \/ MakeAccount(c) \/ JoinTenant(c)
             \/ CommitAccept(c) \/ UpsertMembership(c) \/ WriteMember(c)
             \/ DropMembershipCall(c)
      PROVE  MemberTypes'
  BY <1>3, InviteStepTyped, AcceptStepTyped, CommitStepTyped
<1> QED
  BY <1>1, <1>2, <1>3, DirectStepTyped DEF MembershipNext

LEMMA MemberTypeStart == MembershipInit => MemberTypes
<1> SUFFICES ASSUME MembershipInit
             PROVE  MemberTypes
  OBVIOUS
<1>1. calls \in [Callers -> Call]
      /\ \A c \in Callers : CallTyped(calls[c]) /\ CallFounded(calls[c], account, role)
  BY NoCallTyped DEF MembershipInit
<1>2. /\ invites \in [InviteIds -> Invite]
      /\ \A i \in InviteIds : invites[i].status = "absent"
  BY DEF MembershipInit, Invite
<1> QED
  BY <1>1, <1>2 DEF MembershipInit, MemberTypes, MembershipTypeOK

LEMMA MembersTyped == MembershipSpec => []MemberTypes
BY MemberTypeStart, MemberTypeStep, PTL DEF MembershipSpec

\* A role belongs to an account and a membership to a role, whichever requests
\* overlap and wherever they are dropped.
THEOREM MembershipTypeCorrect == MembershipSpec => []MembershipTypeOK
BY MembersTyped, PTL DEF MemberTypes

-----------------------------------------------------------------------------
(***************************************************************************)
(* One kind of member.  A request that will insert a membership has seen   *)
(* or written the role that goes with it, and until then no request can    *)
(* change that role: an acceptance and the creation of a team member keep  *)
(* a role that is there, a change of a team member's role found one of the *)
(* team's, and an administrator who writes over it makes the exception.    *)
(***************************************************************************)
CallOfKind(call) ==
    /\ call.pc = "member" => role = RoleFor(call.to)
    /\ call.pc = "update" => role \in TeamRoles
    /\ call.pc = "commit" /\ call.role # "none" /\ call.to \in Organisations =>
         role = RoleFor(call.to)

KindInv ==
    ~remade => /\ \A t \in worksFor : role = RoleFor(t)
               /\ \A c \in Callers : CallOfKind(calls[c])

\* No step but an administrator's exception changes a role to one of another kind.
LEMMA RoleStep ==
  ASSUME MemberTypes, KindInv, [MembershipNext]_membershipVars, ~remade'
  PROVE  /\ ~remade
         /\ \/ role' = role
            \/ role = "none"
            \/ role \in TeamRoles /\ role' \in TeamRoles
<1> USE DEF histories
<1>1. CASE \E c \in Callers : UpsertRole(c)
  BY <1>1 DEF UpsertRole, MemberTypes, MembershipTypeOK
<1>2. CASE \E c \in Callers : WriteMember(c)
  <2>1. PICK c \in Callers : WriteMember(c)
    BY <1>2
  <2>2. CallTyped(calls[c]) /\ ~remade /\ CallOfKind(calls[c])
    BY <2>1 DEF WriteMember, MemberTypes, KindInv
  <2>3. calls[c].to \in TeamRoles
    BY <2>1, <2>2 DEF WriteMember, AtStep, CallTyped
  <2> QED
    BY <2>1, <2>2, <2>3 DEF WriteMember, AtStep, CallOfKind
<1>3. CASE \E c \in Callers : CommitAccept(c)
  BY <1>3 DEF CommitAccept
<1>4. CASE UNCHANGED <<role, remade>>
  BY <1>4
<1>5. CASE \E c \in Callers :
             \/ \E t \in Targets : ExpireOlder(c, t) \/ UpsertAccount(c, t)
                                   \/ ReadMember(c, t) \/ ReadRole(c, t)
             \/ \E i \in InviteIds : BeginAccept(c, i)
             \/ InsertInvite(c) \/ MakeAccount(c) \/ JoinTenant(c)
             \/ UpsertMembership(c) \/ DropMembershipCall(c)
  BY <1>4, <1>5 DEF ExpireOlder, UpsertAccount, ReadMember, ReadRole, BeginAccept,
                    InsertInvite, MakeAccount, JoinTenant, UpsertMembership,
                    DropMembershipCall
<1>6. CASE \/ \E i \in InviteIds : ExpireInvite(i)
           \/ \E t \in worksFor : RemoveMembership(t)
           \/ UNCHANGED membershipVars
  BY <1>4, <1>6 DEF ExpireInvite, RemoveMembership, membershipVars
<1> QED
  BY <1>1, <1>2, <1>3, <1>5, <1>6 DEF MembershipNext

\* What a step may make of a request.
LEMMA CallAfter ==
  ASSUME MemberTypes, [MembershipNext]_membershipVars, NEW d \in Callers
  PROVE  \/ calls'[d] = calls[d]
         \/ calls'[d].pc \in {"idle", "insert", "join", "account", "role", "create"}
         \/ calls'[d].pc = "member" /\ role' = RoleFor(calls'[d].to)
         \/ calls'[d].pc = "update" /\ role' \in TeamRoles
         \/ /\ calls'[d].pc = "commit" /\ role' = role
            /\ calls'[d].role = role
            /\ role \in {"none", RoleFor(calls'[d].to)}
<1> USE DEF histories
<1>1. calls \in [Callers -> Call] /\ NoCall.pc = "idle"
  BY DEF MemberTypes, MembershipTypeOK, NoCall
<1>2. CASE UNCHANGED calls
  BY <1>2
<1>3. ASSUME NEW c \in Callers, NEW call,
             calls' = [calls EXCEPT ![c] = call],
             \/ call.pc \in {"idle", "insert", "join", "account", "role", "create"}
             \/ call.pc = "member" /\ role' = RoleFor(call.to)
             \/ call.pc = "update" /\ role' \in TeamRoles
             \/ /\ call.pc = "commit" /\ role' = role
                /\ call.role = role
                /\ role \in {"none", RoleFor(call.to)}
      PROVE  \/ calls'[d] = calls[d]
             \/ calls'[d].pc \in {"idle", "insert", "join", "account", "role", "create"}
             \/ calls'[d].pc = "member" /\ role' = RoleFor(calls'[d].to)
             \/ calls'[d].pc = "update" /\ role' \in TeamRoles
             \/ /\ calls'[d].pc = "commit" /\ role' = role
                /\ calls'[d].role = role
                /\ role \in {"none", RoleFor(calls'[d].to)}
  <2>1. CASE c = d
    BY <1>1, <1>3, <2>1
  <2>2. CASE c # d
    BY <1>1, <1>3, <2>2
  <2> QED
    BY <2>1, <2>2
<1>4. CASE \E c \in Callers :
             \/ InsertInvite(c) \/ CommitAccept(c) \/ UpsertMembership(c)
             \/ WriteMember(c) \/ DropMembershipCall(c)
  <2>1. PICK c \in Callers : calls' = [calls EXCEPT ![c] = NoCall]
    BY <1>4 DEF InsertInvite, CommitAccept, UpsertMembership, WriteMember,
                DropMembershipCall, Ends
  <2> QED
    BY <1>1, <1>3, <2>1
<1>5. CASE \E c \in Callers : \E t \in Targets :
             ExpireOlder(c, t) \/ UpsertAccount(c, t) \/ ReadMember(c, t) \/ ReadRole(c, t)
  <2>1. PICK c \in Callers, t \in Targets :
          ExpireOlder(c, t) \/ UpsertAccount(c, t) \/ ReadMember(c, t) \/ ReadRole(c, t)
    BY <1>5
  <2>2. \/ UNCHANGED calls
        \/ \E pc \in {"insert", "role", "create", "update"} :
             /\ calls' = [calls EXCEPT ![c] = [NoCall EXCEPT !.pc = pc, !.to = t]]
             /\ pc = "update" => role' \in TeamRoles
    BY <2>1 DEF ExpireOlder, UpsertAccount, ReadMember, ReadRole
  <2>3. \A pc : [NoCall EXCEPT !.pc = pc, !.to = t].pc = pc
    BY DEF NoCall
  <2> QED
    BY ZenonT(30), <1>2, <1>3, <2>2, <2>3
<1>6. CASE \E c \in Callers : \E i \in InviteIds : BeginAccept(c, i)
  <2>1. PICK c \in Callers, i \in InviteIds : BeginAccept(c, i)
    BY <1>6
  <2> DEFINE call == [NoCall EXCEPT !.pc = IF account THEN "join" ELSE "account",
                                    !.invite = i, !.to = invites[i].to]
  <2>2. calls' = [calls EXCEPT ![c] = call] /\ call.pc \in {"join", "account"}
    BY <2>1 DEF BeginAccept, NoCall
  <2> HIDE DEF call
  <2> QED
    BY <1>3, <2>2
<1>7. CASE \E c \in Callers : MakeAccount(c) \/ UpsertRole(c)
  <2>1. PICK c \in Callers : MakeAccount(c) \/ UpsertRole(c)
    BY <1>7
  <2>2. PICK pc \in {"join", "member"} :
          /\ calls' = [calls EXCEPT ![c] = [calls[c] EXCEPT !.pc = pc]]
          /\ pc = "member" => role' = RoleFor(calls[c].to)
    BY <1>1, <2>1 DEF MakeAccount, UpsertRole, Proceeds
  <2>3. /\ [calls[c] EXCEPT !.pc = pc].pc = pc
        /\ [calls[c] EXCEPT !.pc = pc].to = calls[c].to
    BY <1>1 DEF Call
  <2> QED
    BY <1>3, <2>2, <2>3
<1>8. CASE \E c \in Callers : JoinTenant(c)
  <2>1. PICK c \in Callers : JoinTenant(c)
    BY <1>8
  <2> DEFINE found == calls[c].to \in worksFor
             call == [calls[c] EXCEPT !.pc = "commit", !.role = role, !.member = found]
  <2>2. calls' = [calls EXCEPT ![c] = call]
    BY <2>1 DEF JoinTenant
  <2>3. calls[c] \in Call /\ UNCHANGED role /\ role \in {"none", RoleFor(calls[c].to)}
    BY <1>1, <2>1 DEF JoinTenant
  <2> HIDE DEF found
  <2>4. call.pc = "commit" /\ call.role = role /\ call.to = calls[c].to
    BY <2>3 DEF Call
  <2> HIDE DEF call
  <2> QED
    BY <1>3, <2>2, <2>3, <2>4
<1>9. CASE \/ \E i \in InviteIds : ExpireInvite(i)
           \/ \E t \in worksFor : RemoveMembership(t)
           \/ UNCHANGED membershipVars
  BY <1>2, <1>9 DEF ExpireInvite, RemoveMembership, membershipVars
<1> QED
  BY <1>4, <1>5, <1>6, <1>7, <1>8, <1>9 DEF MembershipNext

\* A membership is added by a request that knows its role.
LEMMA WorksAfter ==
  ASSUME MemberTypes, KindInv, [MembershipNext]_membershipVars, ~remade, NEW t \in worksFor'
  PROVE  t \in worksFor \/ role' = RoleFor(t)
<1> USE DEF histories
<1>1. ASSUME NEW c \in Callers, UpsertMembership(c)
      PROVE  t \in worksFor \/ role' = RoleFor(t)
  BY <1>1 DEF UpsertMembership, AtStep, KindInv, CallOfKind
<1>2. ASSUME NEW c \in Callers, CommitAccept(c), t \notin worksFor
      PROVE  role' = RoleFor(t)
  <2>1. t = calls[c].to /\ t \in Organisations
    BY <1>2 DEF CommitAccept, Organisations
  <2> QED
    BY <1>2, <2>1 DEF CommitAccept, AtStep, KindInv, CallOfKind
<1>3. CASE worksFor' \subseteq worksFor
  BY <1>3
<1>4. CASE \E c \in Callers :
             \/ \E u \in Targets : ExpireOlder(c, u) \/ UpsertAccount(c, u)
                                   \/ ReadMember(c, u) \/ ReadRole(c, u)
             \/ \E i \in InviteIds : BeginAccept(c, i)
             \/ InsertInvite(c) \/ MakeAccount(c) \/ JoinTenant(c)
             \/ UpsertRole(c) \/ WriteMember(c) \/ DropMembershipCall(c)
  BY <1>3, <1>4 DEF ExpireOlder, UpsertAccount, ReadMember, ReadRole, BeginAccept,
                    InsertInvite, MakeAccount, JoinTenant, UpsertRole, WriteMember,
                    DropMembershipCall
<1>5. CASE \/ \E i \in InviteIds : ExpireInvite(i)
           \/ \E u \in worksFor : RemoveMembership(u)
           \/ UNCHANGED membershipVars
  BY <1>3, <1>5 DEF ExpireInvite, RemoveMembership, membershipVars
<1> QED
  BY <1>1, <1>2, <1>4, <1>5 DEF MembershipNext

LEMMA KindStep == MemberTypes /\ KindInv /\ [MembershipNext]_membershipVars => KindInv'
<1> SUFFICES ASSUME MemberTypes, KindInv, [MembershipNext]_membershipVars, ~remade'
             PROVE  /\ \A t \in worksFor' : role' = RoleFor(t)
                    /\ \A c \in Callers : CallOfKind(calls[c])'
  BY DEF KindInv
<1>1. /\ ~remade
      /\ \/ role' = role
         \/ role = "none"
         \/ role \in TeamRoles /\ role' \in TeamRoles
  BY RoleStep
<1>2. \A t \in Organisations : role = RoleFor(t) => role' = role
  BY <1>1, RoleForTyped
<1>3. \A t \in worksFor' : role' = RoleFor(t)
  BY <1>1, <1>2, WorksAfter DEF KindInv, MemberTypes, MembershipTypeOK, Organisations
<1>4. ASSUME NEW c \in Callers
      PROVE  CallOfKind(calls[c])'
  <2>1. CASE calls'[c] = calls[c]
    <3>1. CallOfKind(calls[c]) /\ CallTyped(calls[c])
      BY <1>1 DEF KindInv, MemberTypes
    <3>2. calls[c].pc = "member" => calls[c].to \in Organisations
      BY <3>1 DEF CallTyped
    <3>3. "none" \notin TeamRoles
      BY DEF TeamRoles
    <3> QED
      BY <1>1, <1>2, <2>1, <3>1, <3>2, <3>3 DEF CallOfKind
  <2>2. CASE calls'[c] # calls[c]
    BY <2>2, CallAfter DEF CallOfKind
  <2> QED
    BY <2>1, <2>2
<1> QED
  BY <1>3, <1>4

\* Whichever invitations, team changes and direct memberships overlap, the role of
\* a person is the one their memberships need, as long as no administrator has
\* written a membership for a person who was something else.
THEOREM MemberOfOneKind == MembershipSpec => []OneKindOfMember
<1>1. MembershipInit => KindInv
  BY DEF MembershipInit, KindInv, CallOfKind, NoCall
<1>2. KindInv => OneKindOfMember
  BY DEF KindInv, OneKindOfMember
<1> QED
  BY <1>1, <1>2, KindStep, MembersTyped, PTL DEF MembershipSpec

-----------------------------------------------------------------------------
(***************************************************************************)
(* Invitations.  Of an invitation no two acceptances have overlapped for,  *)
(* at most one request holds it, and none once it has been accepted: only  *)
(* an open one is taken up, and an accepted one is never opened again.  Of *)
(* a target no two invitations were sent to at the same time, at most one  *)
(* request is about to insert one, and it has just closed the others.      *)
(***************************************************************************)
SpentOnce(i) ==
    /\ redeemed[i] =< 1
    /\ redeemed[i] = 1 => invites[i].status = "accepted"
    /\ \A c \in Callers : calls[c].invite = i =>
         /\ redeemed[i] = 0
         /\ \A d \in Callers : calls[d].invite = i => c = d

Inserting(c, t) == calls[c].pc = "insert" /\ calls[c].to = t
OpenTo(i, t) == invites[i].status = "open" /\ invites[i].to = t

SoleOpen(t) ==
    /\ \A i, j \in InviteIds : OpenTo(i, t) /\ OpenTo(j, t) => i = j
    /\ \A c \in Callers : Inserting(c, t) =>
         /\ \A i \in InviteIds : ~OpenTo(i, t)
         /\ \A d \in Callers : Inserting(d, t) => c = d

SpentInv ==
    /\ \A i \in InviteIds \ raced : SpentOnce(i)
    /\ \A t \in Targets \ (strayed \cup Suppliers) : SoleOpen(t)

\* What a step does to invitations, and to the invitation a request holds.
LEMMA InviteCases ==
  ASSUME MemberTypes, [MembershipNext]_membershipVars
  PROVE  \/ \E c \in Callers, t \in Targets : ExpireOlder(c, t)
         \/ \E c \in Callers : InsertInvite(c)
         \/ \E c \in Callers, i \in InviteIds : BeginAccept(c, i)
         \/ \E c \in Callers : CommitAccept(c)
         \/ /\ UNCHANGED <<redeemed, raced, strayed>>
            /\ \A i \in InviteIds : \/ invites'[i] = invites[i]
                                    \/ /\ invites[i].status = "open"
                                       /\ invites'[i].status = "expired"
            /\ \A c \in Callers :
                 \/ calls'[c] = calls[c]
                 \/ calls'[c].invite \in {0, calls[c].invite} /\ calls'[c].pc # "insert"
<1> USE DEF histories
<1>1. /\ calls \in [Callers -> Call] /\ NoCall.pc = "idle" /\ NoCall.invite = 0
      /\ invites \in [InviteIds -> Invite]
  BY DEF MemberTypes, MembershipTypeOK, NoCall
<1> DEFINE Plain == /\ UNCHANGED <<redeemed, raced, strayed>>
                    /\ \A i \in InviteIds : \/ invites'[i] = invites[i]
                                            \/ /\ invites[i].status = "open"
                                               /\ invites'[i].status = "expired"
                    /\ \A c \in Callers :
                         \/ calls'[c] = calls[c]
                         \/ calls'[c].invite \in {0, calls[c].invite} /\ calls'[c].pc # "insert"
<1>2. ASSUME NEW c \in Callers, NEW call,
             UNCHANGED <<invites, redeemed, raced, strayed>>,
             calls' = [calls EXCEPT ![c] = call],
             call.invite \in {0, calls[c].invite}, call.pc # "insert"
      PROVE  Plain
  BY <1>1, <1>2
<1>3. CASE UNCHANGED <<invites, calls, redeemed, raced, strayed>>
  BY <1>3
<1>4. CASE \/ \E t \in worksFor : RemoveMembership(t)
           \/ UNCHANGED membershipVars
  BY <1>3, <1>4 DEF RemoveMembership, membershipVars
<1>5. CASE \E i \in InviteIds : ExpireInvite(i)
  <2>1. PICK i \in InviteIds : ExpireInvite(i)
    BY <1>5
  <2>2. \A j \in InviteIds : j # i => invites'[j] = invites[j]
    BY <1>1, <2>1 DEF ExpireInvite
  <2>3. invites[i].status = "open" /\ invites'[i].status = "expired"
    BY <1>1, <2>1 DEF ExpireInvite, Invite
  <2>4. Plain
    BY <2>1, <2>2, <2>3 DEF ExpireInvite
  <2> QED
    BY <2>4
<1>6. CASE \E c \in Callers : UpsertMembership(c) \/ WriteMember(c) \/ DropMembershipCall(c)
  <2>1. PICK c \in Callers : calls' = [calls EXCEPT ![c] = NoCall]
    BY <1>6 DEF UpsertMembership, WriteMember, DropMembershipCall, Ends
  <2>2. UNCHANGED <<invites, redeemed, raced, strayed>>
    BY <1>6 DEF UpsertMembership, WriteMember, DropMembershipCall
  <2>3. Plain
    BY <1>1, <1>2, <2>1, <2>2
  <2> QED
    BY <2>3
<1>7. CASE \E c \in Callers : \E t \in Targets :
             UpsertAccount(c, t) \/ ReadMember(c, t) \/ ReadRole(c, t)
  <2>1. PICK c \in Callers, t \in Targets :
          UpsertAccount(c, t) \/ ReadMember(c, t) \/ ReadRole(c, t)
    BY <1>7
  <2>2. UNCHANGED <<invites, redeemed, raced, strayed>>
    BY <2>1 DEF UpsertAccount, ReadMember, ReadRole
  <2>3. \/ UNCHANGED calls
        \/ \E pc \in {"role", "create", "update"} :
             calls' = [calls EXCEPT ![c] = [NoCall EXCEPT !.pc = pc, !.to = t]]
    BY <2>1 DEF UpsertAccount, ReadMember, ReadRole
  <2>4. \A pc : /\ [NoCall EXCEPT !.pc = pc, !.to = t].pc = pc
                /\ [NoCall EXCEPT !.pc = pc, !.to = t].invite = 0
    BY DEF NoCall
  <2>5. Plain
    BY <1>2, <1>3, <2>2, <2>3, <2>4
  <2> QED
    BY <2>5
<1>8. CASE \E c \in Callers : MakeAccount(c) \/ UpsertRole(c)
  <2>1. PICK c \in Callers : MakeAccount(c) \/ UpsertRole(c)
    BY <1>8
  <2>2. UNCHANGED <<invites, redeemed, raced, strayed>>
    BY <2>1 DEF MakeAccount, UpsertRole
  <2>3. PICK pc \in {"join", "member"} :
          calls' = [calls EXCEPT ![c] = [calls[c] EXCEPT !.pc = pc]]
    BY <1>1, <2>1 DEF MakeAccount, UpsertRole, Proceeds
  <2>4. /\ [calls[c] EXCEPT !.pc = pc].pc = pc
        /\ [calls[c] EXCEPT !.pc = pc].invite = calls[c].invite
    BY <1>1 DEF Call
  <2>5. Plain
    BY <1>2, <2>2, <2>3, <2>4
  <2> QED
    BY <2>5
<1>9. CASE \E c \in Callers : JoinTenant(c)
  <2>1. PICK c \in Callers : JoinTenant(c)
    BY <1>9
  <2> DEFINE found == calls[c].to \in worksFor
             call == [calls[c] EXCEPT !.pc = "commit", !.role = role, !.member = found]
  <2>2. calls' = [calls EXCEPT ![c] = call] /\ UNCHANGED <<invites, redeemed, raced, strayed>>
    BY <2>1 DEF JoinTenant
  <2> HIDE DEF found
  <2>3. call.pc = "commit" /\ call.invite = calls[c].invite
    BY <1>1 DEF Call
  <2> HIDE DEF call
  <2>4. Plain
    BY <1>2, <2>2, <2>3
  <2> QED
    BY <2>4
<1> QED
  BY <1>4, <1>5, <1>6, <1>7, <1>8, <1>9 DEF MembershipNext

\* An acceptance begun, or committed, or a new invitation: what it does to the
\* others that hold.
LEMMA SpentOnceStep ==
  ASSUME MemberTypes, SpentInv, [MembershipNext]_membershipVars, NEW i \in InviteIds \ raced'
  PROVE  SpentOnce(i)'
<1>1. /\ calls \in [Callers -> Call] /\ NoCall.invite = 0 /\ i # 0
      /\ invites \in [InviteIds -> Invite] /\ redeemed \in [InviteIds -> Nat]
      /\ NoCall \in Call
  BY NoCallTyped, MembershipAssumption DEF MemberTypes, MembershipTypeOK, NoCall, InviteIds
<1>2. raced \subseteq raced'
  BY InviteCases DEF ExpireOlder, InsertInvite, BeginAccept, CommitAccept, histories
<1>3. i \in InviteIds /\ SpentOnce(i)
  BY <1>2 DEF SpentInv
<1>4. ASSUME redeemed'[i] = redeemed[i],
             invites[i].status = "accepted" => invites'[i].status = "accepted",
             \A c \in Callers : calls'[c].invite = i => calls[c].invite = i
      PROVE  SpentOnce(i)'
  BY <1>3, <1>4 DEF SpentOnce
<1>5. CASE \E c \in Callers, t \in Targets : ExpireOlder(c, t)
  <2>1. PICK c \in Callers, t \in Targets : ExpireOlder(c, t)
    BY <1>5
  <2> DEFINE call == [NoCall EXCEPT !.pc = "insert", !.to = t]
  <2>2. call.invite = 0 /\ calls' = [calls EXCEPT ![c] = call] /\ redeemed' = redeemed
    BY <2>1 DEF ExpireOlder, NoCall
  <2> HIDE DEF call
  <2>3. invites[i].status = "accepted" => invites'[i].status = "accepted"
    BY <1>3, <2>1 DEF ExpireOlder, Outdated
  <2> QED
    BY <1>1, <1>4, <2>2, <2>3
<1>6. CASE \E c \in Callers : InsertInvite(c)
  <2>1. PICK c \in Callers : InsertInvite(c)
    BY <1>6
  <2>2. calls' = [calls EXCEPT ![c] = NoCall] /\ redeemed' = redeemed
    BY <2>1 DEF InsertInvite, Ends, histories
  <2>3. invites[i].status = "accepted" => invites'[i].status = "accepted"
    BY <1>1, <1>3, <2>1 DEF InsertInvite
  <2> QED
    BY <1>1, <1>4, <2>2, <2>3
<1>7. CASE \E c \in Callers, j \in InviteIds : BeginAccept(c, j)
  <2>1. PICK c \in Callers, j \in InviteIds : BeginAccept(c, j)
    BY <1>7
  <2> DEFINE call == [NoCall EXCEPT !.pc = IF account THEN "join" ELSE "account",
                                    !.invite = j, !.to = invites[j].to]
  <2>2. call.invite = j /\ calls' = [calls EXCEPT ![c] = call]
        /\ UNCHANGED <<redeemed, invites>>
    BY <2>1 DEF BeginAccept, NoCall
  <2> HIDE DEF call
  <2>3. CASE j = i
    <3>1. \A d \in Callers : calls[d].invite # i
      BY <1>3, <2>1, <2>3 DEF BeginAccept
    <3>2. redeemed[i] = 0
      <4>1. invites[i].status = "open"
        BY <2>1, <2>3 DEF BeginAccept
      <4> QED
        BY <1>1, <1>3, <4>1 DEF SpentOnce
    <3>3. \A d \in Callers : calls'[d].invite = i => d = c
      BY <1>1, <2>2, <3>1
    <3> QED
      BY <2>2, <3>2, <3>3 DEF SpentOnce
  <2>4. CASE j # i
    BY <1>1, <1>4, <2>2, <2>4
  <2> QED
    BY <2>3, <2>4
<1>8. CASE \E c \in Callers : CommitAccept(c)
  <2>1. PICK c \in Callers : CommitAccept(c)
    BY <1>8
  <2> DEFINE j == calls[c].invite
  <2>2. /\ invites' = [invites EXCEPT ![j].status = "accepted"]
        /\ redeemed' = [redeemed EXCEPT ![j] = redeemed[j] + 1]
        /\ calls' = [calls EXCEPT ![c] = NoCall]
    BY <2>1 DEF CommitAccept, Ends
  <2>3. CASE j = i
    <3>1. redeemed[i] = 0 /\ \A d \in Callers : calls[d].invite = i => d = c
      BY <1>3, <2>3 DEF SpentOnce
    <3>2. \A d \in Callers : calls'[d].invite # i
      BY <1>1, <2>2, <3>1
    <3>3. redeemed'[i] = 1
      BY <1>1, <1>3, <2>2, <2>3, <3>1
    <3>4. invites'[i].status = "accepted"
      BY <1>1, <1>3, <2>2, <2>3 DEF Invite
    <3> QED
      BY <3>2, <3>3, <3>4 DEF SpentOnce
  <2>4. CASE j # i
    <3> HIDE DEF j
    <3> QED
      BY <1>1, <1>3, <1>4, <2>2, <2>4
  <2> QED
    BY <2>3, <2>4
<1>9. CASE /\ UNCHANGED <<redeemed, raced, strayed>>
           /\ \A k \in InviteIds : \/ invites'[k] = invites[k]
                                   \/ /\ invites[k].status = "open"
                                      /\ invites'[k].status = "expired"
           /\ \A c \in Callers :
                \/ calls'[c] = calls[c]
                \/ calls'[c].invite \in {0, calls[c].invite} /\ calls'[c].pc # "insert"
  BY <1>1, <1>3, <1>4, <1>9
<1> QED
  BY <1>5, <1>6, <1>7, <1>8, <1>9, InviteCases

LEMMA SoleOpenStep ==
  ASSUME MemberTypes, SpentInv, [MembershipNext]_membershipVars,
         NEW t \in Targets \ (strayed' \cup Suppliers)
  PROVE  SoleOpen(t)'
<1>1. /\ calls \in [Callers -> Call] /\ NoCall.pc = "idle"
      /\ invites \in [InviteIds -> Invite]
  BY DEF MemberTypes, MembershipTypeOK, NoCall
<1>2. strayed \subseteq strayed'
  BY InviteCases DEF ExpireOlder, InsertInvite, BeginAccept, CommitAccept, histories
<1>3. t \in Targets /\ t \notin Suppliers /\ SoleOpen(t)
  BY <1>2 DEF SpentInv
<1>4. ASSUME \A i \in InviteIds : OpenTo(i, t)' => OpenTo(i, t),
             \A c \in Callers : Inserting(c, t)' => Inserting(c, t)
      PROVE  SoleOpen(t)'
  BY <1>3, <1>4 DEF SoleOpen
<1>5. CASE \E c \in Callers, u \in Targets : ExpireOlder(c, u)
  <2>1. PICK c \in Callers, u \in Targets : ExpireOlder(c, u)
    BY <1>5
  <2> DEFINE call == [NoCall EXCEPT !.pc = "insert", !.to = u]
  <2>2. call.pc = "insert" /\ call.to = u /\ calls' = [calls EXCEPT ![c] = call]
    BY <2>1 DEF ExpireOlder, NoCall
  <2>3. \A i \in InviteIds : invites'[i] = IF i \in Outdated(u)
                                           THEN [invites[i] EXCEPT !.status = "expired"]
                                           ELSE invites[i]
    BY <2>1 DEF ExpireOlder
  <2>4. \A i \in InviteIds : OpenTo(i, t)' => OpenTo(i, t)
    BY <1>1, <2>3 DEF OpenTo, Invite
  <2> HIDE DEF call
  <2>5. CASE u = t
    <3>1. \A d \in Callers : ~Inserting(d, t)
      BY <1>3, <2>1, <2>5 DEF ExpireOlder, AtStep, Inserting
    <3>2. \A d \in Callers : Inserting(d, t)' => d = c
      BY <1>1, <2>2, <3>1 DEF Inserting
    <3>3. \A i \in InviteIds : OpenTo(i, t) => i \in Outdated(u)
      BY <1>3, <2>5 DEF Outdated, OpenTo
    <3>4. \A i \in InviteIds : ~OpenTo(i, t)'
      <4>1. \A i \in InviteIds : i \in Outdated(u) => invites'[i].status = "expired"
        BY <1>1, <2>3 DEF Invite
      <4> QED
        BY <2>4, <3>3, <4>1 DEF OpenTo
    <3> QED
      BY <3>2, <3>4 DEF SoleOpen
  <2>6. CASE u # t
    <3>1. \A d \in Callers : Inserting(d, t)' => Inserting(d, t)
      BY <1>1, <2>2, <2>6 DEF Inserting
    <3> QED
      BY <1>4, <2>4, <3>1
  <2> QED
    BY <2>5, <2>6
<1>6. CASE \E c \in Callers : InsertInvite(c)
  <2>1. PICK c \in Callers : InsertInvite(c)
    BY <1>6
  <2>2. calls' = [calls EXCEPT ![c] = NoCall] /\ calls[c].pc = "insert"
    BY <2>1 DEF InsertInvite, Ends, AtStep
  <2>3. PICK i \in InviteIds :
          invites' = [invites EXCEPT ![i] = [status |-> "open", to |-> calls[c].to]]
    BY <2>1 DEF InsertInvite
  <2>4. \A d \in Callers : Inserting(d, t)' => d # c /\ Inserting(d, t)
    BY <1>1, <2>2 DEF Inserting
  <2>5. \A j \in InviteIds : OpenTo(j, t)' => OpenTo(j, t) \/ (j = i /\ calls[c].to = t)
    BY <1>1, <2>3 DEF OpenTo
  <2>6. CASE calls[c].to = t
    <3>1. Inserting(c, t)
      BY <2>2, <2>6 DEF Inserting
    <3>2. (\A j \in InviteIds : ~OpenTo(j, t)) /\ \A d \in Callers : Inserting(d, t) => d = c
      BY <1>3, <3>1 DEF SoleOpen
    <3> QED
      BY <2>4, <2>5, <3>2 DEF SoleOpen
  <2>7. CASE calls[c].to # t
    BY <1>4, <2>4, <2>5, <2>7
  <2> QED
    BY <2>6, <2>7
<1>7. CASE \E c \in Callers, j \in InviteIds : BeginAccept(c, j)
  <2>1. PICK c \in Callers, j \in InviteIds : BeginAccept(c, j)
    BY <1>7
  <2> DEFINE call == [NoCall EXCEPT !.pc = IF account THEN "join" ELSE "account",
                                    !.invite = j, !.to = invites[j].to]
  <2>2. call.pc # "insert" /\ calls' = [calls EXCEPT ![c] = call] /\ UNCHANGED invites
    BY <2>1 DEF BeginAccept, NoCall
  <2> HIDE DEF call
  <2>3. \A d \in Callers : Inserting(d, t)' => Inserting(d, t)
    BY <1>1, <2>2 DEF Inserting
  <2> QED
    BY <1>4, <2>2, <2>3 DEF OpenTo
<1>8. CASE \E c \in Callers : CommitAccept(c)
  <2>1. PICK c \in Callers : CommitAccept(c)
    BY <1>8
  <2> DEFINE j == calls[c].invite
  <2>2. /\ invites' = [invites EXCEPT ![j].status = "accepted"]
        /\ calls' = [calls EXCEPT ![c] = NoCall]
    BY <2>1 DEF CommitAccept, Ends
  <2> HIDE DEF j
  <2>3. \A d \in Callers : Inserting(d, t)' => Inserting(d, t)
    BY <1>1, <2>2 DEF Inserting
  <2>4. \A i \in InviteIds : OpenTo(i, t)' => OpenTo(i, t)
    BY <1>1, <2>2 DEF OpenTo, Invite
  <2> QED
    BY <1>4, <2>3, <2>4
<1>9. CASE /\ UNCHANGED <<redeemed, raced, strayed>>
           /\ \A i \in InviteIds : \/ invites'[i] = invites[i]
                                   \/ /\ invites[i].status = "open"
                                      /\ invites'[i].status = "expired"
           /\ \A c \in Callers :
                \/ calls'[c] = calls[c]
                \/ calls'[c].invite \in {0, calls[c].invite} /\ calls'[c].pc # "insert"
  BY <1>4, <1>9 DEF OpenTo, Inserting
<1> QED
  BY <1>5, <1>6, <1>7, <1>8, <1>9, InviteCases

\* An invitation is accepted once unless two acceptances overlapped, and no two
\* invitations to one target stay open unless they were sent at the same time: the
\* check of findValidInvite and the expiry in insertInvite are undone by nothing
\* the other requests do in between.
THEOREM InviteOnce == MembershipSpec => []InviteSpentOnce
<1>1. MembershipInit => SpentInv
  BY DEF MembershipInit, SpentInv, SpentOnce, SoleOpen, OpenTo, Inserting, NoCall, InviteIds
<1>2. MemberTypes /\ SpentInv /\ [MembershipNext]_membershipVars => SpentInv'
  BY SpentOnceStep, SoleOpenStep DEF SpentInv
<1>3. MemberTypes /\ SpentInv => InviteSpentOnce
  BY DEF MemberTypes, SpentInv, SpentOnce, SoleOpen, OpenTo, InviteSpentOnce
<1> QED
  BY <1>1, <1>2, <1>3, MembersTyped, PTL DEF MembershipSpec
=============================================================================
