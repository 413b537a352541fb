---------------------------- MODULE Memberships ----------------------------
(***************************************************************************)
(* The memberships and invitations of one organisation                     *)
(* (services/authorization.py, api/security_routes.py, the bootstrap       *)
(* command of admin.py).  A request first resolves its scope - the role of *)
(* its user as the row says at that moment - and acts later, in a          *)
(* transaction that locks the organisation; other requests commit in       *)
(* between.                                                                *)
(***************************************************************************)
EXTENDS Naturals, FiniteSets

CONSTANTS
  Users,
  Legacy,        \* active users once the organisation is bootstrapped
  LegacyAdmins,  \* those of them with the legacy admin flag
  Invitations,
  Requests       \* requests in flight at once

ASSUME MembershipsAssumption ==
  /\ IsFiniteSet(Users)
  /\ LegacyAdmins \subseteq Legacy /\ Legacy \subseteq Users

VARIABLES
  bootstrapped,
  member,     \* [role, active]; role "none" when there is no row
  invite,     \* [state, expired, invitee, role, by]
  session,    \* per user: "none", "open", or "scoped" to the organisation
  request     \* [user, role]: the scope a request resolved

memberVars == <<bootstrapped, member, invite, session, request>>

\* No rule about memberships tells OPERATOR and VIEWER apart: one of them.
Role == {"OWNER", "ADMIN", "OPERATOR"}
Managers == {"OWNER", "ADMIN"}   \* hold MEMBERS_MANAGE and ROLES_MANAGE

NoMember == [role |-> "none", active |-> FALSE]
NoInvite == [state |-> "none", expired |-> FALSE, invitee |-> "none",
             role |-> "none", by |-> "none"]
NoRequest == [user |-> "none", role |-> "none"]

MembersTypeOK ==
  /\ bootstrapped \in BOOLEAN
  /\ member \in [Users -> [role : Role, active : BOOLEAN] \cup {NoMember}]
  /\ invite \in [Invitations ->
       [state : {"PENDING", "ACCEPTED", "REVOKED"}, expired : BOOLEAN,
        invitee : Users, role : Role, by : Users] \cup {NoInvite}]
  /\ session \in [Users -> {"none", "open", "scoped"}]
  /\ request \in [Requests -> [user : Users, role : Role] \cup {NoRequest}]

MembersInit ==
  /\ bootstrapped = FALSE
  /\ member = [u \in Users |-> NoMember]
  /\ invite = [i \in Invitations |-> NoInvite]
  /\ session = [u \in Users |-> "none"]
  /\ request = [r \in Requests |-> NoRequest]

Owners(m) == {u \in Users : m[u].active /\ m[u].role = "OWNER"}

----------------------------------------------------------------------------

LegacyRole(u, owner) ==
  IF u = owner THEN "OWNER" ELSE IF u \in LegacyAdmins THEN "ADMIN" ELSE "OPERATOR"

\* bootstrap-owner, once, under an advisory lock: every existing user gets a
\* membership and every session is revoked.
Bootstrap(owner) ==
  /\ ~bootstrapped
  /\ bootstrapped' = TRUE
  /\ member' = [u \in Users |->
       IF u \in Legacy
       THEN [role |-> LegacyRole(u, owner), active |-> TRUE] ELSE NoMember]
  /\ session' = [u \in Users |-> "none"]
  /\ UNCHANGED <<invite, request>>

OpenSession(u) ==
  /\ session[u] = "none"
  /\ session' = [session EXCEPT ![u] = "open"]
  /\ UNCHANGED <<bootstrapped, member, invite, request>>

\* require_user: the session is live and the membership active.
ResolveSessionScope(r, u) ==
  /\ request[r] = NoRequest
  /\ session[u] # "none" /\ member[u].active
  /\ request' = [request EXCEPT ![r] = [user |-> u, role |-> member[u].role]]
  /\ UNCHANGED <<bootstrapped, member, invite, session>>

\* The same on a session whose organisation is lost: the scope is cleared.
ResolveLostScope(u) ==
  /\ session[u] = "scoped" /\ ~member[u].active
  /\ session' = [session EXCEPT ![u] = "open"]
  /\ UNCHANGED <<bootstrapped, member, invite, request>>

\* What the commit of a request does to its own session row: the scope it
\* resolved is stored; a revocation committed meanwhile stays.
Stored(s, u) == IF s[u] = "open" THEN [s EXCEPT ![u] = "scoped"] ELSE s

\* Sessions scoped to the organisation end with the role they were given.
Ended(s, v) == IF s[v] = "scoped" THEN [s EXCEPT ![v] = "none"] ELSE s

\* A request that only reads, or that is refused.
EndRequest(r, ok) ==
  /\ request[r] # NoRequest
  /\ request' = [request EXCEPT ![r] = NoRequest]
  /\ session' = IF ok THEN Stored(session, request[r].user) ELSE session
  /\ UNCHANGED <<bootstrapped, member, invite>>

\* The role of the locked row.  SELECT ... FOR UPDATE does not refresh a row
\* the request already holds: its own membership, read with the scope.
SeenRole(actor, v) == IF v = actor.user THEN actor.role ELSE member[v].role

MayChangeRole(actor, v, role) ==
  /\ actor.role \in Managers
  /\ member[v] # NoMember
  /\ role = "OWNER" => actor.role = "OWNER"
  /\ actor.role = "ADMIN" => SeenRole(actor, v) \notin Managers /\ role \notin Managers

\* Wrong variant: removed owners are counted too.
NotLastOwnerEver(actor, v) ==
  SeenRole(actor, v) = "OWNER" => Cardinality({u \in Users : member[u].role = "OWNER"}) > 1

\* _owner_count, under the organisation's lock.
NotLastOwner(actor, v) ==
  SeenRole(actor, v) = "OWNER" => Cardinality(Owners(member)) > 1

\* A role equal to the one the request sees is not written.
ChangeRole(r, v, role) ==
  LET actor == request[r]
  IN  /\ actor # NoRequest
      /\ MayChangeRole(actor, v, role)
      /\ role # "OWNER" => NotLastOwner(actor, v)
      /\ member' = IF role = SeenRole(actor, v) THEN member
                   ELSE [member EXCEPT ![v].role = role]
      /\ session' = Ended(Stored(session, actor.user), v)
      /\ request' = [request EXCEPT ![r] = NoRequest]
      /\ UNCHANGED <<bootstrapped, invite>>

Remove(r, v) ==
  LET actor == request[r]
  IN  /\ actor # NoRequest /\ actor.role \in Managers
      /\ member[v] # NoMember
      /\ actor.role = "ADMIN" => SeenRole(actor, v) \notin Managers
      /\ NotLastOwner(actor, v)
      /\ member' = [member EXCEPT ![v].active = FALSE]
      /\ session' = Ended(Stored(session, actor.user), v)
      /\ request' = [request EXCEPT ![r] = NoRequest]
      /\ UNCHANGED <<bootstrapped, invite>>

CreateInvitation(r, i, u, role) ==
  LET actor == request[r]
  IN  /\ actor # NoRequest /\ actor.role \in Managers
      /\ invite[i] = NoInvite
      /\ actor.role = "ADMIN" => role \notin Managers
      /\ invite' = [invite EXCEPT ![i] =
           [state |-> "PENDING", expired |-> FALSE, invitee |-> u, role |-> role, by |-> actor.user]]
      /\ session' = Stored(session, actor.user)
      /\ request' = [request EXCEPT ![r] = NoRequest]
      /\ UNCHANGED <<bootstrapped, member>>

RevokeInvitation(r, i) ==
  LET actor == request[r]
  IN  /\ actor # NoRequest /\ actor.role \in Managers
      /\ invite[i].state = "PENDING"
      /\ actor.role = "ADMIN" => invite[i].role \notin Managers
      /\ invite' = [invite EXCEPT ![i].state = "REVOKED"]
      /\ session' = Stored(session, actor.user)
      /\ request' = [request EXCEPT ![r] = NoRequest]
      /\ UNCHANGED <<bootstrapped, member>>

\* Time passes; accept_invitation's own EXPIRED mark is rolled back with the
\* refusal, so the stored state stays PENDING.
InvitationLapses(i) ==
  /\ invite[i].state = "PENDING" /\ ~invite[i].expired
  /\ invite' = [invite EXCEPT ![i].expired = TRUE]
  /\ UNCHANGED <<bootstrapped, member, session, request>>

\* Wrong variant: what the inviter could grant when inviting is enough.
InviterActive(i) == member[invite[i].by].active

\* The inviter's membership is read again, under a lock.
InviterMayStillGrant(i) ==
  LET by == member[invite[i].by]
  IN  /\ by.active
      /\ by.role \in Managers
      /\ by.role = "ADMIN" => invite[i].role \notin Managers

AcceptInvitation(u, i) ==
  /\ session[u] # "none"
  /\ invite[i].state = "PENDING" /\ ~invite[i].expired
  /\ invite[i].invitee = u
  /\ InviterMayStillGrant(i)
  /\ ~member[u].active
  /\ member' = [member EXCEPT ![u] = [role |-> invite[i].role, active |-> TRUE]]
  /\ invite' = [invite EXCEPT ![i].state = "ACCEPTED"]
  /\ UNCHANGED <<bootstrapped, session, request>>

MembersNext ==
  \/ \E u \in Legacy : Bootstrap(u)
  \/ \E u \in Users : OpenSession(u) \/ ResolveLostScope(u)
  \/ \E r \in Requests :
       \/ \E u \in Users : ResolveSessionScope(r, u)
       \/ \E ok \in BOOLEAN : EndRequest(r, ok)
       \/ \E v \in Users, role \in Role : ChangeRole(r, v, role)
       \/ \E v \in Users : Remove(r, v)
       \/ \E i \in Invitations, u \in Users, role \in Role : CreateInvitation(r, i, u, role)
       \/ \E i \in Invitations : RevokeInvitation(r, i)
  \/ \E i \in Invitations : InvitationLapses(i)
  \/ \E i \in Invitations, u \in Users : AcceptInvitation(u, i)

MembersSpec == MembersInit /\ [][MembersNext]_memberVars

----------------------------------------------------------------------------

\* However requests of several owners interleave - two owners demoting or
\* removing one another, an owner stepping down while another is removed -
\* the organisation keeps an active OWNER ("last OWNER cannot be demoted",
\* "last OWNER cannot be removed" in change_role and remove).
LastOwnerStays == bootstrapped => Owners(member) # {}

\* Of one step: whoever becomes a manager by invitation is invited by an OWNER.
ElevatedByOwner ==
  \A i \in Invitations :
    invite[i].state = "PENDING" /\ invite'[i].state = "ACCEPTED" /\ invite[i].role \in Managers
      => invite[i].by \in Owners(member)

\* An invitation makes somebody OWNER or ADMIN only while its author still is
\* an active OWNER, whatever happened to the author since it was written
\* (accept_invitation reads the inviter's membership again).
InvitationsStayBacked == [][ElevatedByOwner]_memberVars

============================================================================
