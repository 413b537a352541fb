----------------------- MODULE AdministrationProofs -----------------------
(* Proofs about the administrators' side, for any number of users, requests, *)
(* sessions, printers, edits and versions.                                   *)
EXTENDS Administration, FiniteSetTheorems, TLAPS

----------------------------------------------------------------------------
(* Members: the organisation keeps an active OWNER, and only an OWNER's      *)
(* invitation makes managers.                                                *)

Written == [state : {"PENDING", "ACCEPTED", "REVOKED"}, expired : BOOLEAN,
            invitee : Users, role : Role, by : Users]

\* What the owner rule needs to know of the rows: an active membership, a
\* resolved scope and a written invitation carry a role.
RowsInv ==
  /\ bootstrapped \in BOOLEAN
  /\ member \in [Users -> [role : Role, active : BOOLEAN] \cup {NoMember}]
  /\ request \in [Requests -> [user : Users, role : Role] \cup {NoRequest}]
  /\ invite \in [Invitations -> Written \cup {NoInvite}]

OwnersInv == RowsInv /\ LastOwnerStays

\* One of several owners leaves at least one behind.
LEMMA OthersRemain ==
  ASSUME NEW m, NEW v, Cardinality(Owners(m)) > 1
  PROVE  Owners(m) \ {v} # {}
<1>1. IsFiniteSet(Owners(m))
  BY FS_Subset, MembershipsAssumption DEF Owners
<1> DEFINE S == Owners(m)
<1>2. Cardinality(S) \in Nat
  BY <1>1, FS_CardinalityType
<1>3. Cardinality(S \ {v}) = IF v \in S THEN Cardinality(S) - 1 ELSE Cardinality(S)
  BY <1>1, FS_RemoveElement
<1>4. Cardinality(S \ {v}) # 0
  BY <1>2, <1>3
<1> HIDE DEF S
<1> QED
  BY <1>4, FS_EmptySet DEF S

\* A request that is not refused by the owner rule leaves an owner other than
\* the member it changes, if that member counts as one: an ADMIN never sees
\* itself as anything else, so a stale own row does no harm.
LEMMA OwnerRuleSuffices ==
  ASSUME OwnersInv, bootstrapped, NEW r \in Requests, NEW v \in Users,
         request[r] # NoRequest, request[r].role \in Managers,
         request[r].role = "ADMIN" => SeenRole(request[r], v) \notin Managers,
         NotLastOwner(request[r], v)
  PROVE  Owners(member) \ {v} # {}
<1>1. CASE SeenRole(request[r], v) = "OWNER"
  BY <1>1, OthersRemain DEF NotLastOwner
<1>2. CASE SeenRole(request[r], v) # "OWNER"
  <2>1. v # request[r].user
    BY <1>2 DEF SeenRole, Managers
  <2>2. member[v].role # "OWNER"
    BY <1>2, <2>1 DEF SeenRole
  <2>3. v \notin Owners(member)
    BY <2>2 DEF Owners
  <2> QED
    BY <2>3 DEF OwnersInv, LastOwnerStays
<1> QED
  BY <1>1, <1>2

LEMMA InitOwners == MembersInit => OwnersInv
<1> SUFFICES ASSUME MembersInit PROVE OwnersInv
  OBVIOUS
<1>1. RowsInv
  BY DEF MembersInit, RowsInv, NoInvite
<1> QED
  BY <1>1 DEF MembersInit, OwnersInv, LastOwnerStays

LEMMA BootstrapKeeps ==
  ASSUME OwnersInv, NEW o \in Legacy, Bootstrap(o)
  PROVE  OwnersInv'
<1>1. member'[o].active /\ member'[o].role = "OWNER" /\ o \in Users
  BY MembershipsAssumption DEF Bootstrap, LegacyRole
<1>2. RowsInv'
  BY DEF OwnersInv, RowsInv, Bootstrap, LegacyRole, Role
<1> QED
  BY <1>1, <1>2 DEF OwnersInv, LastOwnerStays, Owners

LEMMA ChangeRoleKeeps ==
  ASSUME OwnersInv, NEW r \in Requests, NEW v \in Users, NEW role \in Role, ChangeRole(r, v, role)
  PROVE  OwnersInv'
<1> DEFINE actor == request[r]
<1>1. /\ actor # NoRequest /\ actor.role \in Managers /\ member[v] # NoMember
      /\ actor.role = "ADMIN" => SeenRole(actor, v) \notin Managers
      /\ role # "OWNER" => NotLastOwner(actor, v)
      /\ bootstrapped' = bootstrapped
  BY DEF ChangeRole, MayChangeRole
<1>2. member' = member \/ member' = [member EXCEPT ![v].role = role]
  BY DEF ChangeRole
<1>3. RowsInv'
  <2>1. member' \in [Users -> [role : Role, active : BOOLEAN] \cup {NoMember}]
    BY <1>1, <1>2 DEF OwnersInv, RowsInv
  <2>2. request' \in [Requests -> [user : Users, role : Role] \cup {NoRequest}]
    BY DEF OwnersInv, RowsInv, ChangeRole
  <2> QED
    BY <2>1, <2>2 DEF OwnersInv, RowsInv, ChangeRole
<1>4. LastOwnerStays'
  <2> SUFFICES ASSUME bootstrapped PROVE Owners(member') # {}
    BY <1>1 DEF LastOwnerStays
  <2>1. CASE member' = member
    BY <2>1 DEF OwnersInv, LastOwnerStays
  <2>2. CASE member' = [member EXCEPT ![v].role = role] /\ role = "OWNER"
    <3>1. \A u \in Users : u \in Owners(member) => u \in Owners(member')
      BY <2>2 DEF Owners, OwnersInv, RowsInv
    <3> QED
      BY <3>1 DEF OwnersInv, LastOwnerStays, Owners
  <2>3. CASE member' = [member EXCEPT ![v].role = role] /\ role # "OWNER"
    <3>1. Owners(member) \ {v} # {}
      BY <1>1, <2>3, OwnerRuleSuffices
    <3>2. Owners(member) \ {v} \subseteq Owners(member')
      BY <2>3 DEF Owners, OwnersInv, RowsInv
    <3> QED
      BY <3>1, <3>2
  <2> QED
    BY <1>2, <2>1, <2>2, <2>3
<1> QED
  BY <1>3, <1>4 DEF OwnersInv

LEMMA RemoveKeeps ==
  ASSUME OwnersInv, NEW r \in Requests, NEW v \in Users, Remove(r, v)
  PROVE  OwnersInv'
<1>1. /\ request[r] # NoRequest /\ request[r].role \in Managers /\ member[v] # NoMember
      /\ request[r].role = "ADMIN" => SeenRole(request[r], v) \notin Managers
      /\ NotLastOwner(request[r], v)
      /\ bootstrapped' = bootstrapped /\ member' = [member EXCEPT ![v].active = FALSE]
  BY DEF Remove
<1>2. RowsInv'
  <2>1. member' \in [Users -> [role : Role, active : BOOLEAN] \cup {NoMember}]
    BY <1>1 DEF OwnersInv, RowsInv
  <2>2. request' \in [Requests -> [user : Users, role : Role] \cup {NoRequest}]
    BY DEF OwnersInv, RowsInv, Remove
  <2> QED
    BY <2>1, <2>2 DEF OwnersInv, RowsInv, Remove
<1>3. LastOwnerStays'
  <2> SUFFICES ASSUME bootstrapped PROVE Owners(member') # {}
    BY <1>1 DEF LastOwnerStays
  <2>1. Owners(member) \ {v} # {}
    BY <1>1, OwnerRuleSuffices
  <2>2. Owners(member) \ {v} \subseteq Owners(member')
    BY <1>1 DEF Owners, OwnersInv, RowsInv
  <2> QED
    BY <2>1, <2>2
<1> QED
  BY <1>2, <1>3 DEF OwnersInv

LEMMA AcceptKeeps ==
  ASSUME OwnersInv, NEW u \in Users, NEW i \in Invitations, AcceptInvitation(u, i)
  PROVE  OwnersInv'
<1>1. /\ invite[i].state = "PENDING" /\ ~member[u].active
      /\ bootstrapped' = bootstrapped
      /\ member' = [member EXCEPT ![u] = [role |-> invite[i].role, active |-> TRUE]]
      /\ invite' = [invite EXCEPT ![i].state = "ACCEPTED"] /\ request' = request
  BY DEF AcceptInvitation
<1>2. invite[i] \in Written
  BY <1>1 DEF OwnersInv, RowsInv, NoInvite
<1>3. RowsInv'
  BY <1>1, <1>2 DEF OwnersInv, RowsInv, Written
<1>4. Owners(member) \subseteq Owners(member')
  BY <1>1 DEF Owners, OwnersInv, RowsInv
<1> QED
  BY <1>1, <1>3, <1>4 DEF OwnersInv, LastOwnerStays

LEMMA CreateInvitationKeeps ==
  ASSUME OwnersInv, NEW r \in Requests, NEW i \in Invitations, NEW u \in Users, NEW role \in Role,
         CreateInvitation(r, i, u, role)
  PROVE  OwnersInv'
<1>1. request' \in [Requests -> [user : Users, role : Role] \cup {NoRequest}]
  BY DEF OwnersInv, RowsInv, CreateInvitation
<1>2. request[r].user \in Users
  BY DEF OwnersInv, RowsInv, CreateInvitation
<1>3. invite' \in [Invitations -> Written \cup {NoInvite}]
  BY <1>2 DEF OwnersInv, RowsInv, CreateInvitation, Written
<1>4. RowsInv'
  BY <1>1, <1>3 DEF OwnersInv, RowsInv, CreateInvitation
<1> QED
  BY <1>4 DEF OwnersInv, LastOwnerStays, CreateInvitation

LEMMA InvitationsKeep ==
  ASSUME OwnersInv, NEW i \in Invitations,
         (\E r \in Requests : RevokeInvitation(r, i)) \/ InvitationLapses(i)
  PROVE  OwnersInv'
<1>1. request' \in [Requests -> [user : Users, role : Role] \cup {NoRequest}]
  BY DEF OwnersInv, RowsInv, RevokeInvitation, InvitationLapses
<1>2. invite[i].state = "PENDING" /\ UNCHANGED <<bootstrapped, member>>
  BY DEF RevokeInvitation, InvitationLapses
<1>3. \/ invite' = [invite EXCEPT ![i].state = "REVOKED"]
      \/ invite' = [invite EXCEPT ![i].expired = TRUE]
  BY DEF RevokeInvitation, InvitationLapses
<1>4. invite[i] \in Written
  BY <1>2 DEF OwnersInv, RowsInv, NoInvite
<1>5. invite' \in [Invitations -> Written \cup {NoInvite}]
  <2>1. [invite[i] EXCEPT !.state = "REVOKED"] \in Written
    BY <1>4 DEF Written
  <2>2. [invite[i] EXCEPT !.expired = TRUE] \in Written
    BY <1>4 DEF Written
  <2>3. PICK row \in Written : invite' = [invite EXCEPT ![i] = row]
    BY <1>3, <2>1, <2>2
  <2> QED
    BY <2>3 DEF OwnersInv, RowsInv
<1>6. RowsInv'
  BY <1>1, <1>2, <1>5 DEF OwnersInv, RowsInv
<1> QED
  BY <1>6 DEF OwnersInv, LastOwnerStays, RevokeInvitation, InvitationLapses

LEMMA SessionsKeep ==
  ASSUME OwnersInv,
         \/ \E u \in Users : OpenSession(u) \/ ResolveLostScope(u)
         \/ \E r \in Requests, u \in Users : ResolveSessionScope(r, u)
         \/ \E r \in Requests, ok \in BOOLEAN : EndRequest(r, ok)
  PROVE  OwnersInv'
<1>1. UNCHANGED <<bootstrapped, member, invite>>
  BY DEF OpenSession, ResolveLostScope, ResolveSessionScope, EndRequest
<1>2. request' \in [Requests -> [user : Users, role : Role] \cup {NoRequest}]
  BY DEF OwnersInv, RowsInv, OpenSession, ResolveLostScope, ResolveSessionScope, EndRequest, NoMember
<1> QED
  BY <1>1, <1>2 DEF OwnersInv, RowsInv, LastOwnerStays

\* Every request keeps the owner invariant.
LEMMA StepKeepsOwners == OwnersInv /\ [MembersNext]_memberVars => OwnersInv'
<1> SUFFICES ASSUME OwnersInv, [MembersNext]_memberVars PROVE OwnersInv'
  OBVIOUS
<1>1. CASE UNCHANGED memberVars
  BY <1>1 DEF OwnersInv, RowsInv, LastOwnerStays, memberVars
<1>2. CASE MembersNext
  BY <1>2, BootstrapKeeps, ChangeRoleKeeps, RemoveKeeps, AcceptKeeps, CreateInvitationKeeps,
     InvitationsKeep, SessionsKeep DEF MembersNext
<1> QED
  BY <1>1, <1>2

\* However change_role, remove and accept_invitation interleave, a
\* bootstrapped organisation has an active OWNER, for any number of users,
\* invitations and requests in flight.
THEOREM OwnerRemains == MembersSpec => []LastOwnerStays
<1>1. OwnersInv => LastOwnerStays
  BY DEF OwnersInv
<1> QED
  BY <1>1, InitOwners, StepKeepsOwners, PTL DEF MembersSpec

----------------------------------------------------------------------------
(* Invitations                                                             *)

LEMMA AcceptedIsBacked ==
  ASSUME OwnersInv, NEW u \in Users, NEW i \in Invitations, AcceptInvitation(u, i)
  PROVE  ElevatedByOwner
<1>1. /\ invite[i].state = "PENDING" /\ InviterMayStillGrant(i)
      /\ invite' = [invite EXCEPT ![i].state = "ACCEPTED"]
  BY DEF AcceptInvitation
<1>2. invite[i].by \in Users
  BY <1>1 DEF OwnersInv, RowsInv, Written, NoInvite
<1>3. \A k \in Invitations : k # i => invite'[k] = invite[k]
  BY <1>1 DEF OwnersInv, RowsInv
<1>4. invite[i].role \in Managers => invite[i].by \in Owners(member)
  BY <1>1, <1>2 DEF InviterMayStillGrant, Managers, Owners
<1> QED
  BY <1>3, <1>4 DEF ElevatedByOwner

LEMMA OthersAcceptNothing ==
  ASSUME OwnersInv, NEW i \in Invitations,
         \/ \E r \in Requests, u \in Users, role \in Role : CreateInvitation(r, i, u, role)
         \/ \E r \in Requests : RevokeInvitation(r, i)
         \/ InvitationLapses(i)
  PROVE  ElevatedByOwner
<1>1. \A k \in Invitations : k # i => invite'[k] = invite[k]
  BY DEF OwnersInv, RowsInv, CreateInvitation, RevokeInvitation, InvitationLapses
<1>2. invite[i].state = "PENDING" => invite'[i].state # "ACCEPTED"
  BY DEF OwnersInv, RowsInv, Written, NoInvite, CreateInvitation, RevokeInvitation, InvitationLapses
<1> QED
  BY <1>1, <1>2 DEF ElevatedByOwner

LEMMA UnchangedInvitations ==
  ASSUME invite' = invite PROVE ElevatedByOwner
  BY DEF ElevatedByOwner

LEMMA StepIsBacked == OwnersInv /\ [MembersNext]_memberVars => ElevatedByOwner
<1> SUFFICES ASSUME OwnersInv, [MembersNext]_memberVars PROVE ElevatedByOwner
  OBVIOUS
<1>1. CASE invite' = invite
  BY <1>1, UnchangedInvitations
<1>2. CASE invite' # invite
  <2>1. \/ \E i \in Invitations, u \in Users : AcceptInvitation(u, i)
        \/ \E i \in Invitations :
             \/ \E r \in Requests, u \in Users, role \in Role : CreateInvitation(r, i, u, role)
             \/ \E r \in Requests : RevokeInvitation(r, i)
             \/ InvitationLapses(i)
    BY <1>2 DEF MembersNext, memberVars, Bootstrap, OpenSession, ResolveLostScope,
       ResolveSessionScope, EndRequest, ChangeRole, Remove
  <2> QED
    BY <2>1, AcceptedIsBacked, OthersAcceptNothing
<1> QED
  BY <1>1, <1>2

\* Nobody becomes OWNER or ADMIN by an invitation whose author is not an active
\* OWNER when it is accepted, for any number of users, invitations and requests
\* in flight: accept_invitation reads the author's membership again, and what
\* was allowed when the invitation was written counts for nothing.
THEOREM InvitationsBacked == MembersSpec => InvitationsStayBacked
  BY InitOwners, StepKeepsOwners, StepIsBacked, PTL DEF MembersSpec, InvitationsStayBacked

----------------------------------------------------------------------------
(* Label templates: the current version is the newest.                       *)

\* The edits that have read the template and not ended.
Editing(e) == edit[e].step \in {"loaded", "numbered", "flushed"}

\* A number that was read is at most the next one, a number that was flushed
\* is the next one, and only one transaction has flushed it.
NumbersInv ==
  \A e \in Edits :
    /\ Editing(e) => template.state # "none" /\ edit[e].layout \in GoodLayouts
    /\ edit[e].step = "numbered" => edit[e].number >= 1 /\ edit[e].number <= template.current + 1
    /\ edit[e].step = "flushed" =>
         /\ edit[e].number = template.current + 1
         /\ \A f \in Edits : edit[f].step = "flushed" => f = e

TemplateInv == TemplateTypeOK /\ CurrentIsNewest /\ NumbersInv

\* The number that select(func.max(version_number)) answers is that of the
\* current version.
LEMMA NewestIsCurrent ==
  ASSUME TemplateTypeOK, CurrentIsNewest
  PROVE  Newest = template.current
<1>1. template.current \in Nat
  BY TemplateAssumption DEF TemplateTypeOK
<1>2. template.current \in Numbers \cup {0} /\ \A m \in Numbers : m <= template.current
  BY <1>1 DEF CurrentIsNewest
<1>3. \A n \in Numbers \cup {0} : (\A m \in Numbers : m <= n) => n = template.current
  BY <1>1, <1>2 DEF CurrentIsNewest
<1> QED
  BY <1>2, <1>3 DEF Newest

LEMMA InitInv == TemplateInit => TemplateInv
<1> SUFFICES ASSUME TemplateInit PROVE TemplateInv
  OBVIOUS
<1>1. TemplateTypeOK
  BY TemplateAssumption DEF TemplateInit, TemplateTypeOK, NoTemplate, NoEdit
<1>2. CurrentIsNewest
  BY DEF TemplateInit, CurrentIsNewest, Numbers, NoTemplate
<1>3. NumbersInv
  BY DEF TemplateInit, NumbersInv, Editing, NoTemplate, NoEdit
<1> QED
  BY <1>1, <1>2, <1>3 DEF TemplateInv

LEMMA CreateKeepsInv ==
  ASSUME TemplateInv, NEW e \in Edits, NEW l \in Layouts, CreateTemplate(e, l)
  PROVE  TemplateInv'
<1>1. TemplateTypeOK'
  BY TemplateAssumption DEF TemplateInv, TemplateTypeOK, CreateTemplate, LayoutAccepted, Version
<1>2. CurrentIsNewest'
  BY DEF CreateTemplate, CurrentIsNewest, Numbers, Version
<1>3. NumbersInv'
  <2>1. template.state = "none" /\ template.current = 0
    BY DEF CreateTemplate, NoTemplate
  <2>2. \A f \in Edits : ~Editing(f)
    BY <2>1 DEF TemplateInv, NumbersInv
  <2>3. \A f \in Edits : edit'[f].step = IF f = e THEN "done" ELSE edit[f].step
    BY DEF CreateTemplate, TemplateInv, TemplateTypeOK
  <2> QED
    BY <2>2, <2>3 DEF NumbersInv, Editing
<1> QED
  BY <1>1, <1>2, <1>3 DEF TemplateInv

LEMMA NumberKeepsInv ==
  ASSUME TemplateInv, NEW e \in Edits, NumberVersion(e)
  PROVE  TemplateInv'
<1>1. template.current \in Nat /\ template.current < MaxVersions /\ MaxVersions \in Nat
  BY NewestIsCurrent, TemplateAssumption DEF TemplateInv, TemplateTypeOK, NumberVersion
<1>2. edit' = [edit EXCEPT ![e].step = "numbered", ![e].number = template.current + 1]
  BY NewestIsCurrent DEF NumberVersion, TemplateInv
<1>3. UNCHANGED <<template, versions>> /\ edit[e].step = "loaded"
  BY DEF NumberVersion
<1>4. TemplateTypeOK'
  <2> DEFINE rows == [step : {"none", "loaded", "numbered", "flushed", "archiving", "done"},
                      number : 0..MaxVersions, layout : GoodLayouts \cup {"none"}]
             new == [edit[e] EXCEPT !.step = "numbered", !.number = template.current + 1]
  <2>1. edit \in [Edits -> rows] /\ edit[e] \in rows
    BY DEF TemplateInv, TemplateTypeOK
  <2>2. template.current + 1 \in 0..MaxVersions
    BY <1>1
  <2>3. new \in rows
    BY <2>1, <2>2
  <2>4. edit' = [edit EXCEPT ![e] = new]
    BY <1>2
  <2>5. edit' \in [Edits -> rows]
    BY <2>1, <2>3, <2>4
  <2> QED
    BY <1>3, <2>5 DEF TemplateInv, TemplateTypeOK
<1>5. CurrentIsNewest'
  BY <1>3 DEF TemplateInv, CurrentIsNewest, Numbers
<1>6. NumbersInv'
  BY <1>1, <1>2, <1>3 DEF TemplateInv, TemplateTypeOK, NumbersInv, Editing
<1> QED
  BY <1>4, <1>5, <1>6 DEF TemplateInv

LEMMA InsertKeepsInv ==
  ASSUME TemplateInv, NEW e \in Edits, InsertVersion(e)
  PROVE  TemplateInv'
<1>1. UNCHANGED <<template, versions>> /\ edit[e].step = "numbered"
      /\ edit' = [edit EXCEPT ![e].step = "flushed"]
  BY DEF InsertVersion
<1>2. TemplateTypeOK'
  BY <1>1 DEF TemplateInv, TemplateTypeOK
<1>3. CurrentIsNewest'
  BY <1>1 DEF TemplateInv, CurrentIsNewest, Numbers
<1>4. edit[e].number = template.current + 1
  <2>1. edit[e].number \in Nat /\ template.current \in Nat
    BY TemplateAssumption DEF TemplateInv, TemplateTypeOK
  <2>2. edit[e].number \notin 1..template.current
    BY DEF InsertVersion, NumberUnique, TemplateInv, CurrentIsNewest
  <2> QED
    BY <1>1, <2>1, <2>2 DEF TemplateInv, NumbersInv
<1>5. \A f \in Edits : edit[f].step # "flushed"
  BY <1>1, <1>4 DEF InsertVersion, NumberUnique, TemplateInv, NumbersInv
<1>6. NumbersInv'
  BY <1>1, <1>4, <1>5 DEF TemplateInv, TemplateTypeOK, NumbersInv, Editing
<1> QED
  BY <1>2, <1>3, <1>6 DEF TemplateInv

LEMMA CommitKeepsInv ==
  ASSUME TemplateInv, NEW e \in Edits, CommitVersion(e)
  PROVE  TemplateInv'
<1> DEFINE n == template.current + 1
<1>1. /\ edit[e].step = "flushed" /\ edit[e].number = n
      /\ edit[e].layout \in GoodLayouts
  BY DEF CommitVersion, TemplateInv, NumbersInv, Editing
<1>2. template.current \in Nat /\ n \in 1..MaxVersions
  BY <1>1, TemplateAssumption DEF TemplateInv, TemplateTypeOK
<1>3. /\ versions' = versions \cup {Version(n, edit[e].layout)}
      /\ template' = [template EXCEPT !.current = n]
      /\ edit' = [edit EXCEPT ![e].step = "done"]
  BY <1>1 DEF CommitVersion
<1>4. TemplateTypeOK'
  <2>1. template' \in [state : {"none", "ACTIVE", "ARCHIVED"}, current : 0..MaxVersions]
    BY <1>2, <1>3 DEF TemplateInv, TemplateTypeOK
  <2>2. versions' \subseteq [number : 1..MaxVersions, layout : GoodLayouts]
    BY <1>1, <1>2, <1>3 DEF TemplateInv, TemplateTypeOK, Version
  <2> QED
    BY <1>3, <2>1, <2>2 DEF TemplateInv, TemplateTypeOK
<1>5. CurrentIsNewest'
  <2>1. Numbers' = Numbers \cup {n}
    <3>1. Version(n, edit[e].layout).number = n
      BY DEF Version
    <3>2. Numbers' = {v.number : v \in versions \cup {Version(n, edit[e].layout)}}
      BY <1>3 DEF Numbers
    <3> HIDE DEF n
    <3> QED
      BY <3>1, <3>2 DEF Numbers
  <2>2. template'.current = n
    BY <1>3 DEF TemplateInv, TemplateTypeOK
  <2>3. Numbers' = 1..template'.current
    BY <1>2, <2>1, <2>2 DEF TemplateInv, CurrentIsNewest
  <2>4. n \notin Numbers
    BY <1>2 DEF TemplateInv, CurrentIsNewest
  <2>5. \A v \in versions : v.number # n
    BY <2>4 DEF Numbers
  <2>6. \A v, w \in versions' : v.number = w.number => v = w
    BY <1>3, <2>5 DEF TemplateInv, CurrentIsNewest, Version
  <2> QED
    BY <2>3, <2>6 DEF CurrentIsNewest
<1>6. NumbersInv'
  <2>1. template'.current = n /\ template'.state = template.state
    BY <1>3 DEF TemplateInv, TemplateTypeOK
  <2>2. \A f \in Edits : edit'[f].number = edit[f].number /\ edit'[f].layout = edit[f].layout
                         /\ edit'[f].step = IF f = e THEN "done" ELSE edit[f].step
    BY <1>3 DEF TemplateInv, TemplateTypeOK
  <2>3. \A f \in Edits : f # e => edit[f].step # "flushed"
    BY <1>1 DEF TemplateInv, NumbersInv
  <2>4. \A f \in Edits : edit[f].number \in Nat
    BY TemplateAssumption DEF TemplateInv, TemplateTypeOK
  <2> QED
    BY <1>2, <2>1, <2>2, <2>3, <2>4 DEF TemplateInv, NumbersInv, Editing
<1> QED
  BY <1>4, <1>5, <1>6 DEF TemplateInv

LEMMA OthersKeepInv ==
  ASSUME TemplateInv, NEW e \in Edits,
         \/ \E l \in Layouts : LoadTemplate(e, l)
         \/ LoadForArchive(e) \/ CommitArchive(e) \/ AbandonEdit(e)
  PROVE  TemplateInv'
<1>1. versions' = versions /\ template'.current = template.current
  BY DEF LoadTemplate, LoadForArchive, CommitArchive, AbandonEdit, TemplateInv, TemplateTypeOK
<1>2. TemplateTypeOK'
  BY TemplateAssumption DEF TemplateInv, TemplateTypeOK, LoadTemplate, LoadForArchive,
                            CommitArchive, AbandonEdit, LayoutAccepted, NoEdit
<1>3. CurrentIsNewest'
  BY <1>1 DEF TemplateInv, CurrentIsNewest, Numbers
<1>4. NumbersInv'
  BY <1>1 DEF TemplateInv, TemplateTypeOK, NumbersInv, Editing, LoadTemplate, LoadForArchive,
              CommitArchive, AbandonEdit, LayoutAccepted, NoEdit
<1> QED
  BY <1>2, <1>3, <1>4 DEF TemplateInv

\* Every step of an edit keeps the invariant.
LEMMA StepKeepsInv == TemplateInv /\ [TemplateNext]_templateVars => TemplateInv'
<1> SUFFICES ASSUME TemplateInv, [TemplateNext]_templateVars PROVE TemplateInv'
  OBVIOUS
<1>1. CASE UNCHANGED templateVars
  BY <1>1 DEF TemplateInv, TemplateTypeOK, CurrentIsNewest, Numbers, NumbersInv, Editing, templateVars
<1>2. CASE TemplateNext
  <2> PICK e \in Edits :
        \/ \E l \in Layouts : CreateTemplate(e, l) \/ LoadTemplate(e, l)
        \/ NumberVersion(e) \/ InsertVersion(e) \/ CommitVersion(e)
        \/ LoadForArchive(e) \/ CommitArchive(e) \/ AbandonEdit(e)
    BY <1>2 DEF TemplateNext
  <2> QED
    BY CreateKeepsInv, NumberKeepsInv, InsertKeepsInv, CommitKeepsInv, OthersKeepInv
<1> QED
  BY <1>1, <1>2

\* Whatever edits overlap, one number names one layout, no number is skipped
\* and the current version is the newest (create_template_version), for any
\* number of edits, layouts and versions.
THEOREM TemplatesCurrent == TemplateSpec => []CurrentIsNewest
<1>1. TemplateInv => CurrentIsNewest
  BY DEF TemplateInv
<1> QED
  BY <1>1, InitInv, StepKeepsInv, PTL DEF TemplateSpec

----------------------------------------------------------------------------
(* Sessions: a session the server accepts carries the password of today.     *)

\* What was read from the user row, or written with what was read, is of an
\* earlier password version, or of the password of today.
UpToDate(version, pw) ==
  version < account.version \/ (version = account.version /\ pw = account.pw)

SessionRows == [version : 0 .. MaxPasswordChanges, pw : Passwords]
CurrentRows == {s \in SessionRows : UpToDate(s.version, s.pw)}

\* Bounds the types rest on: the failure that reaches the limit locks the
\* account, and a change is only begun while a version is left.
LimitsInv ==
  /\ throttle.locked \/ throttle.failures < LockFailures
  /\ \A c \in Changes : change[c] # NoChange => change[c].read.version < MaxPasswordChanges

\* Nothing in flight and nothing stored is ahead of the user row, as long as
\* no change was written over another.
VersionsInv ==
  overlaid \/ /\ live \in Seq(CurrentRows)
              /\ \A l \in Logins : login[l] # NoLogin => UpToDate(login[l].read.version, login[l].read.pw)

SessionsInv == SessionsTypeOK /\ LimitsInv /\ VersionsInv

LEMMA WithoutType ==
  ASSUME NEW S, NEW s \in Seq(S), NEW i \in Int
  PROVE  Without(s, i) \in Seq(S) /\ Len(Without(s, i)) <= Len(s)
<1>1. CASE i \notin DOMAIN s
  BY <1>1 DEF Without
<1>2. CASE i \in DOMAIN s
  <2>1. i \in 1 .. Len(s)
    BY <1>2
  <2> DEFINE a == SubSeq(s, 1, i - 1)
             b == SubSeq(s, i + 1, Len(s))
  <2>2. a \in Seq(S) /\ Len(a) = i - 1
    BY <2>1
  <2>3. b \in Seq(S) /\ Len(b) = Len(s) - i
    BY <2>1
  <2>4. Without(s, i) = a \o b
    BY <1>2 DEF Without
  <2> HIDE DEF a, b
  <2> QED
    BY <2>1, <2>2, <2>3, <2>4
<1> QED
  BY <1>1, <1>2

\* A login makes room before it adds its session.
LEMMA RotatedType ==
  ASSUME NEW S, live \in Seq(S), Len(live) <= MaxSessions, NEW i \in 0 .. Len(live), NEW x \in S
  PROVE  Append(Rotated(i), x) \in Seq(S) /\ Len(Append(Rotated(i), x)) <= MaxSessions
<1> DEFINE o == Overflowed(live)
           k == IF Len(live) >= MaxSessions THEN i - 1 ELSE i
<1>1. o \in Seq(S) /\ Len(o) < MaxSessions
  BY SessionsAssumption DEF Overflowed
<1>2. k \in Int /\ Len(live) \in Nat
  OBVIOUS
<1>3. Rotated(i) = Without(o, k)
  BY DEF Rotated
<1> HIDE DEF o, k
<1>4. Rotated(i) \in Seq(S) /\ Len(Rotated(i)) <= Len(o)
  BY <1>1, <1>2, <1>3, WithoutType
<1> QED
  BY <1>1, <1>4, SessionsAssumption

Throttles == [failures : 0 .. LockFailures, delayed : BOOLEAN, locked : BOOLEAN]

LEMMA CalmType == Calm \in Throttles /\ Calm.failures < LockFailures
  BY SessionsAssumption DEF Calm, Throttles

LEMMA InitSessions == SessionsInit => SessionsInv
<1> SUFFICES ASSUME SessionsInit PROVE SessionsInv
  OBVIOUS
<1>1. SessionsTypeOK
  <2>1. live \in Seq(SessionRows) /\ Len(live) <= MaxSessions
    BY SessionsAssumption DEF SessionsInit
  <2>2. account \in Accounts
    BY DEF SessionsInit
  <2>3. throttle \in Throttles
    BY CalmType DEF SessionsInit
  <2>4. login \in [Logins -> [try : Passwords, read : Accounts] \cup {NoLogin}]
    BY DEF SessionsInit
  <2>5. change \in [Changes -> [new : Passwords, read : Accounts] \cup {NoChange}]
    BY DEF SessionsInit
  <2> QED
    BY <2>1, <2>2, <2>3, <2>4, <2>5 DEF SessionsInit, SessionsTypeOK, SessionRows, Throttles
<1>2. LimitsInv
  BY CalmType DEF SessionsInit, LimitsInv
<1>3. VersionsInv
  BY DEF SessionsInit, VersionsInv
<1> QED
  BY <1>1, <1>2, <1>3 DEF SessionsInv

\* While the user row stays, what was up to date stays so.
LEMMA SameRowKeeps ==
  ASSUME account' = account
  PROVE  /\ CurrentRows' = CurrentRows
         /\ \A v, pw : UpToDate(v, pw)' <=> UpToDate(v, pw)
  BY DEF CurrentRows, UpToDate

LEMMA LoginReadsKeeps ==
  ASSUME SessionsInv, NEW l \in Logins, NEW p \in Passwords, LoginReads(l, p)
  PROVE  SessionsInv'
<1> DEFINE r == [try |-> p, read |-> account]
<1>1. /\ login' = [login EXCEPT ![l] = r] /\ account' = account /\ live' = live
      /\ UNCHANGED <<history, throttle, change, overlaid>>
  BY DEF LoginReads
<1>2. r \in [try : Passwords, read : Accounts] /\ r.read = account
  BY DEF SessionsInv, SessionsTypeOK
<1> HIDE DEF r
<1>3. SessionsTypeOK'
  BY <1>1, <1>2 DEF SessionsInv, SessionsTypeOK
<1>4. LimitsInv'
  BY <1>1 DEF SessionsInv, LimitsInv
<1>5. UpToDate(account.version, account.pw)
  BY DEF UpToDate
<1>6. ASSUME NEW m \in Logins, ~overlaid, login'[m] # NoLogin
      PROVE  UpToDate(login'[m].read.version, login'[m].read.pw)
  <2>1. CASE m = l
    BY <1>1, <1>2, <1>5, <2>1 DEF SessionsInv, SessionsTypeOK
  <2>2. CASE m # l
    BY <1>1, <1>6, <2>2 DEF SessionsInv, SessionsTypeOK, VersionsInv
  <2> QED
    BY <2>1, <2>2
<1>7. VersionsInv'
  BY <1>1, <1>6, SameRowKeeps DEF SessionsInv, VersionsInv
<1> QED
  BY <1>3, <1>4, <1>7 DEF SessionsInv

LEMMA LoginDecidesKeeps ==
  ASSUME SessionsInv, NEW l \in Logins, NEW i \in 0 .. Len(live), LoginDecides(l, i)
  PROVE  SessionsInv'
<1> DEFINE r == login[l]
           x == [version |-> r.read.version, pw |-> r.try]
<1>1. /\ r # NoLogin /\ login' = [login EXCEPT ![l] = NoLogin]
      /\ account' = account /\ UNCHANGED <<history, change, overlaid>>
  BY DEF LoginDecides
<1>2. r \in [try : Passwords, read : Accounts]
  BY <1>1 DEF SessionsInv, SessionsTypeOK
<1>3. live \in Seq(SessionRows) /\ Len(live) <= MaxSessions
  BY DEF SessionsInv, SessionsTypeOK, SessionRows
<1>4. \/ throttle' = throttle /\ live' = live
      \/ throttle' = Failure /\ live' = live /\ ~throttle.locked
      \/ throttle' = Calm /\ r.try = r.read.pw /\ live' = Append(Rotated(i), x)
  BY DEF LoginDecides
<1>5. x \in SessionRows
  BY <1>2 DEF SessionRows, Accounts
<1>6. live' \in Seq(SessionRows) /\ Len(live') <= MaxSessions
  BY <1>3, <1>4, <1>5, RotatedType
<1>7. throttle' \in Throttles /\ (throttle'.locked \/ throttle'.failures < LockFailures)
  <2>1. CASE throttle' = Failure /\ ~throttle.locked
    <3>1. throttle.failures \in 0 .. LockFailures /\ throttle.failures < LockFailures
      BY <2>1 DEF SessionsInv, SessionsTypeOK, LimitsInv
    <3> QED
      BY <2>1, <3>1, SessionsAssumption DEF Failure, Throttles
  <2>2. CASE throttle' = throttle
    BY <2>2 DEF SessionsInv, SessionsTypeOK, LimitsInv, Throttles
  <2>3. CASE throttle' = Calm
    BY <2>3, CalmType
  <2> QED
    BY <1>4, <2>1, <2>2, <2>3
<1>8. SessionsTypeOK'
  BY <1>1, <1>6, <1>7 DEF SessionsInv, SessionsTypeOK, SessionRows, Throttles
<1>9. LimitsInv'
  BY <1>1, <1>7 DEF SessionsInv, LimitsInv
<1>10. ASSUME ~overlaid PROVE live' \in Seq(CurrentRows)
  <2>1. live \in Seq(CurrentRows)
    BY <1>10 DEF SessionsInv, VersionsInv
  <2>2. UpToDate(r.read.version, r.read.pw)
    BY <1>1, <1>10 DEF SessionsInv, VersionsInv
  <2>3. CASE r.try = r.read.pw /\ live' = Append(Rotated(i), x)
    <3>1. x \in CurrentRows
      BY <1>5, <2>2, <2>3 DEF CurrentRows
    <3> QED
      BY <1>3, <2>1, <2>3, <3>1, RotatedType
  <2> QED
    BY <1>4, <2>1, <2>3
<1>11. ASSUME NEW m \in Logins, ~overlaid, login'[m] # NoLogin
       PROVE  UpToDate(login'[m].read.version, login'[m].read.pw)
  BY <1>1, <1>11 DEF SessionsInv, SessionsTypeOK, VersionsInv
<1>12. VersionsInv'
  BY <1>1, <1>10, <1>11, SameRowKeeps DEF VersionsInv
<1> QED
  BY <1>8, <1>9, <1>12 DEF SessionsInv

LEMMA ThrottleKeeps ==
  ASSUME SessionsInv, DelayPasses \/ ResetPasswordAuthenticatorLock
  PROVE  SessionsInv'
<1>1. /\ account' = account /\ live' = live /\ login' = login
      /\ UNCHANGED <<history, change, overlaid>>
  BY DEF DelayPasses, ResetPasswordAuthenticatorLock
<1>2. throttle' \in Throttles /\ (throttle'.locked \/ throttle'.failures < LockFailures)
  <2>1. CASE DelayPasses
    <3>1. throttle \in Throttles /\ (throttle.locked \/ throttle.failures < LockFailures)
      BY DEF SessionsInv, SessionsTypeOK, LimitsInv, Throttles
    <3>2. throttle' = [throttle EXCEPT !.delayed = FALSE]
      BY <2>1 DEF DelayPasses
    <3> QED
      BY <3>1, <3>2 DEF Throttles
  <2>2. CASE ResetPasswordAuthenticatorLock
    BY <2>2, CalmType DEF ResetPasswordAuthenticatorLock
  <2> QED
    BY <2>1, <2>2
<1>3. SessionsTypeOK'
  BY <1>1, <1>2 DEF SessionsInv, SessionsTypeOK, Throttles
<1>4. LimitsInv'
  BY <1>1, <1>2 DEF SessionsInv, LimitsInv
<1>5. VersionsInv'
  BY <1>1, SameRowKeeps DEF SessionsInv, VersionsInv
<1> QED
  BY <1>3, <1>4, <1>5 DEF SessionsInv

\* Sessions only end.
LEMMA EndsKeep ==
  ASSUME SessionsInv, LogoutAll \/ \E i \in DOMAIN live : SessionEnds(i)
  PROVE  SessionsInv'
<1>1. /\ account' = account /\ login' = login
      /\ UNCHANGED <<history, throttle, change, overlaid>>
  BY DEF LogoutAll, SessionEnds
<1>2. live \in Seq(SessionRows) /\ Len(live) <= MaxSessions
  BY DEF SessionsInv, SessionsTypeOK, SessionRows
<1>3. live' = <<>> \/ \E i \in Int : live' = Without(live, i)
  BY <1>2 DEF LogoutAll, SessionEnds
<1>4. live' \in Seq(SessionRows) /\ Len(live') <= MaxSessions
  <2>1. CASE live' = <<>>
    BY <2>1, SessionsAssumption
  <2>2. CASE \E i \in Int : live' = Without(live, i)
    <3>1. PICK i \in Int : live' = Without(live, i)
      BY <2>2
    <3> HIDE DEF SessionRows
    <3>2. Without(live, i) \in Seq(SessionRows) /\ Len(Without(live, i)) <= Len(live)
      BY <1>2, WithoutType
    <3>3. Len(live) \in Nat /\ Len(Without(live, i)) \in Nat
      BY <1>2, <3>2
    <3> QED
      BY <1>2, <3>1, <3>2, <3>3, SessionsAssumption
  <2> QED
    BY <1>3, <2>1, <2>2
<1>5. ASSUME ~overlaid PROVE live' \in Seq(CurrentRows)
  <2>1. live \in Seq(CurrentRows)
    BY <1>5 DEF SessionsInv, VersionsInv
  <2>2. \A i \in Int : Without(live, i) \in Seq(CurrentRows)
    BY <2>1, WithoutType
  <2>3. CASE live' = <<>>
    BY <2>3
  <2> QED
    BY <1>3, <2>2, <2>3
<1>6. SessionsTypeOK'
  BY <1>1, <1>4 DEF SessionsInv, SessionsTypeOK, SessionRows
<1>7. LimitsInv'
  BY <1>1 DEF SessionsInv, LimitsInv
<1>8. VersionsInv'
  BY <1>1, <1>5, SameRowKeeps DEF SessionsInv, VersionsInv
<1> QED
  BY <1>6, <1>7, <1>8 DEF SessionsInv

LEMMA ChangeReadsKeeps ==
  ASSUME SessionsInv, NEW c \in Changes, NEW i \in DOMAIN live, NEW p \in Passwords,
         ChangePasswordReads(c, i, p)
  PROVE  SessionsInv'
<1> DEFINE r == [new |-> p, read |-> account]
<1>1. /\ change' = [change EXCEPT ![c] = r] /\ account' = account /\ live' = live
      /\ account.version < MaxPasswordChanges
      /\ UNCHANGED <<history, throttle, login, overlaid>>
  BY DEF ChangePasswordReads
<1>2. r \in [new : Passwords, read : Accounts] /\ r.read = account
  BY DEF SessionsInv, SessionsTypeOK
<1> HIDE DEF r
<1>3. SessionsTypeOK'
  BY <1>1, <1>2 DEF SessionsInv, SessionsTypeOK
<1>4. LimitsInv'
  BY <1>1, <1>2 DEF SessionsInv, SessionsTypeOK, LimitsInv
<1>5. VersionsInv'
  BY <1>1, SameRowKeeps DEF SessionsInv, VersionsInv
<1> QED
  BY <1>3, <1>4, <1>5 DEF SessionsInv

\* The change revokes every session and puts the user row one version ahead
\* of all that was read before, unless it was itself overtaken.
LEMMA ChangeKeeps ==
  ASSUME SessionsInv, NEW c \in Changes, ChangePassword(c)
  PROVE  SessionsInv'
<1> DEFINE r == change[c]
<1>1. /\ r # NoChange /\ change' = [change EXCEPT ![c] = NoChange]
      /\ account' = [account EXCEPT !.pw = r.new, !.version = r.read.version + 1]
      /\ overlaid' = (overlaid \/ r.read.version # account.version)
      /\ history' = history \cup {r.read.pw}
      /\ throttle' = Calm /\ live' = <<>> /\ login' = login
  BY DEF ChangePassword, Rewritten
<1>2. r \in [new : Passwords, read : Accounts] /\ r.read.version < MaxPasswordChanges
  BY <1>1 DEF SessionsInv, SessionsTypeOK, LimitsInv
<1>a. /\ r.new \in Passwords /\ r.read \in Accounts /\ r.read.version \in 0 .. MaxPasswordChanges
      /\ r.read.pw \in Passwords /\ account \in Accounts
      /\ r.read.version < MaxPasswordChanges /\ r.read.version + 1 \in 0 .. MaxPasswordChanges
  BY <1>2, SessionsAssumption DEF SessionsInv, SessionsTypeOK, Accounts
<1> HIDE DEF r
<1>3. account' \in Accounts /\ account'.version = r.read.version + 1
  BY <1>1, <1>a DEF Accounts
<1>4. SessionsTypeOK'
  <2>1. change' \in [Changes -> [new : Passwords, read : Accounts] \cup {NoChange}]
    BY <1>1 DEF SessionsInv, SessionsTypeOK
  <2>2. history' \in SUBSET Passwords /\ overlaid' \in BOOLEAN
    BY <1>1, <1>a DEF SessionsInv, SessionsTypeOK
  <2>3. live' \in Seq(SessionRows) /\ Len(live') <= MaxSessions
    BY <1>1, SessionsAssumption
  <2> QED
    BY <1>1, <1>3, <2>1, <2>2, <2>3, CalmType DEF SessionsInv, SessionsTypeOK, SessionRows, Throttles
<1>5. LimitsInv'
  BY <1>1, CalmType DEF SessionsInv, SessionsTypeOK, LimitsInv
<1>6. ASSUME NEW m \in Logins, ~overlaid', login'[m] # NoLogin
      PROVE  login'[m].read.version < account'.version
  <2>1. UpToDate(login[m].read.version, login[m].read.pw)
    BY <1>1, <1>6 DEF SessionsInv, VersionsInv
  <2>2. login[m].read \in Accounts
    BY <1>1, <1>6 DEF SessionsInv, SessionsTypeOK
  <2>a. account.version = r.read.version
    BY <1>1, <1>6, Zenon
  <2>3. /\ login[m].read.version \in Nat /\ account.version \in Nat
        /\ login'[m] = login[m] /\ account.version = r.read.version
    BY <1>1, <1>a, <2>2, <2>a DEF Accounts
  <2>4. login[m].read.version <= account.version
    BY <2>1, <2>3 DEF UpToDate
  <2> QED
    BY <1>3, <2>3, <2>4
<1>7. VersionsInv'
  <2>1. live' \in Seq(CurrentRows')
    BY <1>1
  <2>2. ASSUME NEW m \in Logins, ~overlaid', login'[m] # NoLogin
        PROVE  UpToDate(login[m].read.version, login[m].read.pw)'
    <3>1. login'[m].read.version < account'.version
      BY <1>6, <2>2
    <3> QED
      BY <3>1 DEF UpToDate
  <2> QED
    BY <1>1, <2>1, <2>2 DEF VersionsInv
<1> QED
  BY <1>4, <1>5, <1>7 DEF SessionsInv

LEMMA DisableKeeps ==
  ASSUME SessionsInv, DisableUser
  PROVE  SessionsInv'
<1>1. /\ account' = [account EXCEPT !.active = FALSE] /\ live' = <<>>
      /\ UNCHANGED <<history, throttle, login, change, overlaid>>
  BY DEF DisableUser
<1>2. account' \in Accounts /\ account'.version = account.version /\ account'.pw = account.pw
  BY <1>1 DEF SessionsInv, SessionsTypeOK, Accounts
<1>3. SessionsTypeOK'
  BY <1>1, <1>2, SessionsAssumption DEF SessionsInv, SessionsTypeOK
<1>4. LimitsInv'
  BY <1>1 DEF SessionsInv, LimitsInv
<1>5. VersionsInv'
  BY <1>1, <1>2 DEF SessionsInv, VersionsInv, UpToDate
<1> QED
  BY <1>3, <1>4, <1>5 DEF SessionsInv

LEMMA StepKeepsSessions == SessionsInv /\ [SessionsNext]_sessionVars => SessionsInv'
<1> SUFFICES ASSUME SessionsInv, [SessionsNext]_sessionVars PROVE SessionsInv'
  OBVIOUS
<1>1. CASE UNCHANGED sessionVars
  <2>1. SessionsTypeOK' /\ LimitsInv'
    BY <1>1 DEF SessionsInv, SessionsTypeOK, LimitsInv, sessionVars
  <2>2. VersionsInv'
    BY <1>1, SameRowKeeps DEF SessionsInv, VersionsInv, sessionVars
  <2> QED
    BY <2>1, <2>2 DEF SessionsInv
<1>2. CASE SessionsNext
  BY <1>2, LoginReadsKeeps, LoginDecidesKeeps, ThrottleKeeps, EndsKeep, ChangeReadsKeeps,
     ChangeKeeps, DisableKeeps DEF SessionsNext
<1> QED
  BY <1>1, <1>2

\* Rows, requests and the throttle have their shapes, and a user never has more
\* live sessions than max_active_sessions_per_user, however logins race.
THEOREM SessionsTyped == SessionsSpec => []SessionsTypeOK
<1>1. SessionsInv => SessionsTypeOK
  BY DEF SessionsInv
<1> QED
  BY <1>1, InitSessions, StepKeepsSessions, PTL DEF SessionsSpec

\* A session that authenticate_token accepts was opened with the password of
\* today, whatever logins and changes were in flight, unless two changes were
\* written from the same row.
THEOREM SessionsCurrent == SessionsSpec => []UsableMeansCurrent
<1>1. SessionsInv => UsableMeansCurrent
  <2> SUFFICES ASSUME SessionsInv, ~overlaid, NEW i \in DOMAIN live, Usable(live[i])
               PROVE  live[i].pw = account.pw
    BY DEF UsableMeansCurrent
  <2>1. live[i] \in CurrentRows
    BY DEF SessionsInv, VersionsInv
  <2> QED
    BY <2>1 DEF CurrentRows, SessionRows, UpToDate, Usable, SessionsInv, SessionsTypeOK, Accounts
<1> QED
  BY <1>1, InitSessions, StepKeepsSessions, PTL DEF SessionsSpec

----------------------------------------------------------------------------
(* Printers: a profile that may be printed with was seen as it is.           *)

\* The agent works on a discovery that exists, or on none.
PrinterInv ==
  PrinterTypeOK /\ ActiveMeansSeen /\ (agent = NoWork \/ agent.run \in Runs)

Profiles ==
  [state : {"ACTIVE", "INCOMPATIBLE", "STALE", "MISSING", "DISABLED"}, shape : Shapes]

RunStates == {"none", "PENDING", "RUNNING", "COMPLETED", "FAILED"}
JobStates == {"none", "PENDING", "LEASED", "LAPSED", "COMPLETED"}

\* What the profiles of the printers rest on.
ProfilesInv ==
  /\ obs \in [Runs -> [Printers -> Seen]]
  /\ profile \in [Printers -> Profiles \cup {NoProfile}]
  /\ latest \in Runs \cup {0}
  /\ approved \in SUBSET Printers
  /\ ActiveMeansSeen

\* A discovery and its agent job are open together.
DiscoveriesInv ==
  /\ looks \in [Printers -> Look]
  /\ fresh \in BOOLEAN
  /\ run \in [Runs -> RunStates]
  /\ job \in [Runs -> JobStates]
  /\ \A r \in Runs : (run[r] \in Open) = (job[r] \in {"PENDING", "LEASED", "LAPSED"})
  /\ agent \in [run : Runs \cup {0}, seen : [Printers -> Seen]]
  /\ agent = NoWork \/ agent.run \in Runs

LEMMA PrinterHalves == PrinterInv <=> ProfilesInv /\ DiscoveriesInv
  BY DEF PrinterInv, PrinterTypeOK, ProfilesInv, DiscoveriesInv, Profiles, RunStates, JobStates

LEMMA PrinterHalvesNext == PrinterInv' <=> ProfilesInv' /\ DiscoveriesInv'
  BY DEF PrinterInv, PrinterTypeOK, ProfilesInv, DiscoveriesInv, Profiles, RunStates, JobStates

LEMMA InitPrinters == PrinterInit => PrinterInv
<1> SUFFICES ASSUME PrinterInit PROVE PrinterInv
  OBVIOUS
<1>1. Unseen \in [Printers -> Seen]
  BY DEF Unseen, Seen
<1>2. ProfilesInv
  BY <1>1 DEF PrinterInit, ProfilesInv, ActiveMeansSeen, NoProfile
<1>3. NoWork \in [run : Runs \cup {0}, seen : [Printers -> Seen]]
  BY <1>1 DEF NoWork
<1>4. DiscoveriesInv
  BY <1>3 DEF PrinterInit, DiscoveriesInv, RunStates, JobStates, Open, Look
<1> QED
  BY <1>2, <1>4, PrinterHalves

\* Steps that leave the profiles and what they rest on alone.
LEMMA ProfilesKeep ==
  ASSUME ProfilesInv, UNCHANGED <<obs, profile, latest, approved>>
  PROVE  ProfilesInv'
  BY DEF ProfilesInv, ActiveMeansSeen

LEMMA DiscoveriesKeep ==
  ASSUME DiscoveriesInv, UNCHANGED <<looks, fresh, run, job, agent>>
  PROVE  DiscoveriesInv'
  BY DEF DiscoveriesInv

LEMMA MachineKeeps ==
  ASSUME PrinterInv,
         \/ \E p \in Printers, s \in Look : PrinterChanges(p, s)
         \/ BindingGoesQuiet \/ BindingReports \/ AgentStops
  PROVE  PrinterInv'
<1>1. ProfilesInv /\ DiscoveriesInv
  BY PrinterHalves
<1>2. ProfilesInv'
  BY <1>1, ProfilesKeep DEF PrinterChanges, BindingGoesQuiet, BindingReports, AgentStops
<1>3. UNCHANGED <<run, job>>
  BY DEF PrinterChanges, BindingGoesQuiet, BindingReports, AgentStops
<1>4. looks' \in [Printers -> Look]
  BY <1>1 DEF DiscoveriesInv, PrinterChanges, BindingGoesQuiet, BindingReports, AgentStops
<1>5. fresh' \in BOOLEAN
  BY <1>1 DEF DiscoveriesInv, PrinterChanges, BindingGoesQuiet, BindingReports, AgentStops
<1>6. agent' = agent \/ agent' = NoWork
  BY DEF PrinterChanges, BindingGoesQuiet, BindingReports, AgentStops
<1>7. NoWork \in [run : Runs \cup {0}, seen : [Printers -> Seen]]
  BY DEF NoWork, Unseen, Seen
<1>8. NoWork' = NoWork
  BY DEF NoWork, Unseen
<1>9. DiscoveriesInv'
  BY <1>1, <1>3, <1>4, <1>5, <1>6, <1>7, <1>8 DEF DiscoveriesInv
<1> QED
  BY <1>2, <1>9, PrinterHalvesNext

LEMMA QueueKeeps ==
  ASSUME PrinterInv, NEW r \in Runs, RequestDiscovery(r) \/ LeaseLapses(r)
  PROVE  PrinterInv'
<1>1. ProfilesInv /\ DiscoveriesInv
  BY PrinterHalves
<1>2. ProfilesInv'
  BY <1>1, ProfilesKeep DEF RequestDiscovery, LeaseLapses
<1>3. DiscoveriesInv'
  <2>1. CASE RequestDiscovery(r)
    BY <1>1, <2>1 DEF DiscoveriesInv, RequestDiscovery, RunStates, JobStates, Open
  <2>2. CASE LeaseLapses(r)
    BY <1>1, <2>2 DEF DiscoveriesInv, LeaseLapses, RunStates, JobStates, Open
  <2> QED
    BY <2>1, <2>2
<1> QED
  BY <1>2, <1>3, PrinterHalvesNext

LEMMA FetchKeeps ==
  ASSUME PrinterInv, NEW r \in Runs, NEW slow \in SUBSET Printers, FetchAgentJob(r, slow)
  PROVE  PrinterInv'
<1>1. ProfilesInv /\ DiscoveriesInv
  BY PrinterHalves
<1>2. ProfilesInv'
  BY <1>1, ProfilesKeep DEF FetchAgentJob
<1>3. Discovered(slow) \in [Printers -> Seen]
  BY <1>1 DEF Discovered, DiscoveriesInv, Look, Seen
<1>4. /\ job[r] \in {"PENDING", "LAPSED"}
      /\ job' = [job EXCEPT ![r] = "LEASED"] /\ run' = [run EXCEPT ![r] = "RUNNING"]
      /\ agent' = [run |-> r, seen |-> Discovered(slow)]
      /\ UNCHANGED <<looks, fresh>>
  BY DEF FetchAgentJob
<1>5. agent' \in [run : Runs \cup {0}, seen : [Printers -> Seen]] /\ agent'.run \in Runs
  BY <1>3, <1>4
<1>6. DiscoveriesInv'
  BY <1>1, <1>4, <1>5 DEF DiscoveriesInv, RunStates, JobStates, Open
<1> QED
  BY <1>2, <1>6, PrinterHalvesNext

\* The discovery and its job end together.
LEMMA EndKeeps ==
  ASSUME DiscoveriesInv, CompleteAgentJob \/ FailAgentJob
  PROVE  DiscoveriesInv'
<1> DEFINE r == agent.run
<1>1. /\ agent # NoWork /\ job[r] = "LEASED"
      /\ run' = [run EXCEPT ![r] = "COMPLETED"] \/ run' = [run EXCEPT ![r] = "FAILED"]
      /\ job' = [job EXCEPT ![r] = "COMPLETED"]
      /\ agent' = NoWork /\ UNCHANGED <<looks, fresh>>
  BY DEF CompleteAgentJob, FailAgentJob
<1>2. r \in Runs
  BY <1>1 DEF DiscoveriesInv
<1>3. NoWork \in [run : Runs \cup {0}, seen : [Printers -> Seen]] /\ NoWork' = NoWork
  BY DEF NoWork, Unseen, Seen
<1> HIDE DEF r
<1> QED
  BY <1>1, <1>2, <1>3 DEF DiscoveriesInv, RunStates, JobStates, Open

LEMMA ReconciledFacts ==
  ASSUME NEW prof \in Profiles \cup {NoProfile}, NEW seen \in Seen
  PROVE  /\ Reconciled(prof, seen) \in Profiles \cup {NoProfile}
         /\ Reconciled(prof, seen).state = "ACTIVE" =>
              seen \in UsableShapes /\ Reconciled(prof, seen).shape = seen
<1>1. CASE prof.state \in {"none", "DISABLED"}
  BY <1>1 DEF Reconciled
<1>2. CASE prof.state \notin {"none", "DISABLED"}
  <2>1. prof \in Profiles
    BY <1>2 DEF NoProfile
  <2>2. PICK s : /\ s = (IF seen \in {"absent", "broken"} THEN "MISSING"
                         ELSE IF seen # prof.shape THEN "STALE" ELSE Fits(seen))
                 /\ Reconciled(prof, seen) = [prof EXCEPT !.state = s]
    BY <1>2 DEF Reconciled
  <2>3. s \in {"ACTIVE", "INCOMPATIBLE", "STALE", "MISSING"}
    BY <2>2 DEF Fits
  <2>4. s = "ACTIVE" => seen \in UsableShapes /\ seen = prof.shape
    BY <2>2 DEF Fits
  <2> QED
    BY <2>1, <2>2, <2>3, <2>4 DEF Profiles
<1> QED
  BY <1>1, <1>2

LEMMA CompleteKeeps ==
  ASSUME PrinterInv, CompleteAgentJob
  PROVE  PrinterInv'
<1>1. ProfilesInv /\ DiscoveriesInv
  BY PrinterHalves
<1>2. PICK r : r = agent.run
  OBVIOUS
<1>3. PICK seen : seen = agent.seen
  OBVIOUS
<1>4. r \in Runs /\ seen \in [Printers -> Seen]
  BY <1>1, <1>2, <1>3 DEF CompleteAgentJob, DiscoveriesInv
<1>5. /\ obs' = [obs EXCEPT ![r] = seen]
      /\ profile' = [p \in Printers |-> Reconciled(profile[p], seen[p])]
      /\ latest' = r /\ approved' = {}
  BY <1>2, <1>3 DEF CompleteAgentJob
<1>6. obs' \in [Runs -> [Printers -> Seen]] /\ obs'[r] = seen
  BY <1>1, <1>4, <1>5 DEF ProfilesInv
<1>7. \A p \in Printers : profile[p] \in Profiles \cup {NoProfile} /\ seen[p] \in Seen
  BY <1>1, <1>4 DEF ProfilesInv
<1>8. \A p \in Printers : /\ profile'[p] \in Profiles \cup {NoProfile}
                          /\ profile'[p].state = "ACTIVE" =>
                               seen[p] \in UsableShapes /\ profile'[p].shape = seen[p]
  BY <1>5, <1>7, ReconciledFacts
<1>9. profile' \in [Printers -> Profiles \cup {NoProfile}]
  BY <1>5, <1>8
<1>10. ActiveMeansSeen'
  BY <1>4, <1>5, <1>6, <1>8 DEF ActiveMeansSeen
<1>11. ProfilesInv'
  BY <1>4, <1>5, <1>6, <1>9, <1>10 DEF ProfilesInv
<1> QED
  BY <1>1, <1>11, EndKeeps, PrinterHalvesNext

LEMMA FailKeeps ==
  ASSUME PrinterInv, FailAgentJob
  PROVE  PrinterInv'
<1>1. ProfilesInv /\ DiscoveriesInv
  BY PrinterHalves
<1>2. ProfilesInv'
  BY <1>1, ProfilesKeep DEF FailAgentJob
<1> QED
  BY <1>1, <1>2, EndKeeps, PrinterHalvesNext

LEMMA ApproveKeeps ==
  ASSUME PrinterInv, NEW r \in Runs, NEW p \in Printers, ApproveObservation(r, p)
  PROVE  PrinterInv'
<1>1. ProfilesInv /\ DiscoveriesInv
  BY PrinterHalves
<1>2. PICK s : s = obs[r][p]
  OBVIOUS
<1>3. PICK x : x = [state |-> Fits(s), shape |-> s]
  OBVIOUS
<1>4. /\ s \in Shapes /\ profile' = [profile EXCEPT ![p] = x]
      /\ approved' = approved \cup {p}
      /\ UNCHANGED <<looks, fresh, run, job, obs, agent, latest>>
  BY <1>2, <1>3 DEF ApproveObservation
<1>5. x \in Profiles /\ x.shape = s /\ (x.state = "ACTIVE" => s \in UsableShapes)
  BY <1>3, <1>4 DEF Profiles, Fits
<1>6. ActiveMeansSeen'
  <2> SUFFICES ASSUME NEW q \in Printers, profile'[q].state = "ACTIVE"
               PROVE  /\ profile'[q].shape \in UsableShapes
                      /\ \E k \in Runs : /\ obs'[k][q] = profile'[q].shape
                                         /\ k = latest' \/ q \in approved'
    BY DEF ActiveMeansSeen
  <2>1. CASE q = p
    BY <1>1, <1>2, <1>4, <1>5, <2>1 DEF ProfilesInv
  <2>2. CASE q # p
    BY <1>1, <1>4, <2>2 DEF ProfilesInv, ActiveMeansSeen
  <2> QED
    BY <2>1, <2>2
<1>7. ProfilesInv'
  BY <1>1, <1>4, <1>5, <1>6 DEF ProfilesInv
<1> QED
  BY <1>1, <1>4, <1>7, DiscoveriesKeep, PrinterHalvesNext

LEMMA DisableProfileKeeps ==
  ASSUME PrinterInv, NEW p \in Printers, DisableProfile(p)
  PROVE  PrinterInv'
<1>1. ProfilesInv /\ DiscoveriesInv
  BY PrinterHalves
<1>2. /\ profile[p] # NoProfile /\ profile' = [profile EXCEPT ![p].state = "DISABLED"]
      /\ UNCHANGED <<looks, fresh, run, job, obs, agent, latest, approved>>
  BY DEF DisableProfile
<1>3. profile[p] \in Profiles
  BY <1>1, <1>2 DEF ProfilesInv
<1>4. profile' \in [Printers -> Profiles \cup {NoProfile}]
  BY <1>1, <1>2, <1>3 DEF ProfilesInv, Profiles
<1>5. \A q \in Printers : profile'[q].state = "ACTIVE" => profile'[q] = profile[q]
  BY <1>1, <1>2, <1>3 DEF ProfilesInv, Profiles
<1>6. ActiveMeansSeen'
  BY <1>1, <1>2, <1>5 DEF ProfilesInv, ActiveMeansSeen
<1>7. ProfilesInv'
  BY <1>1, <1>2, <1>4, <1>6 DEF ProfilesInv
<1> QED
  BY <1>1, <1>2, <1>7, DiscoveriesKeep, PrinterHalvesNext

LEMMA StepKeepsPrinters == PrinterInv /\ [PrinterNext]_printerVars => PrinterInv'
<1> SUFFICES ASSUME PrinterInv, [PrinterNext]_printerVars PROVE PrinterInv'
  OBVIOUS
<1>1. CASE UNCHANGED printerVars
  BY <1>1, PrinterHalves, PrinterHalvesNext, ProfilesKeep, DiscoveriesKeep DEF printerVars
<1>2. CASE PrinterNext
  BY <1>2, MachineKeeps, QueueKeeps, FetchKeeps, CompleteKeeps, FailKeeps, ApproveKeeps,
     DisableProfileKeeps DEF PrinterNext
<1> QED
  BY <1>1, <1>2

\* Every row has its shape, and the agent job of a discovery is open exactly as
\* long as the discovery, whatever leases lapse and results come late
\* (request_discovery, complete_agent_job, fail_agent_job).
THEOREM PrintersTyped == PrinterSpec => []PrinterTypeOK
<1>1. PrinterInv => PrinterTypeOK
  BY DEF PrinterInv
<1> QED
  BY <1>1, InitPrinters, StepKeepsPrinters, PTL DEF PrinterSpec

\* A profile labels may be printed with has a usable shape that the latest
\* discovery saw, or that a user approved since (_reconcile_profile,
\* approve_observation).
THEOREM ProfilesSeen == PrinterSpec => []ActiveMeansSeen
<1>1. PrinterInv => ActiveMeansSeen
  BY DEF PrinterInv
<1> QED
  BY <1>1, InitPrinters, StepKeepsPrinters, PTL DEF PrinterSpec

----------------------------------------------------------------------------
(* The whole: a behaviour of Administration is one of each part.             *)

\* A step of the composition is a step of each part or leaves its rows alone,
\* so what holds of the parts holds of the whole.
THEOREM AdministrationIsSound ==
  Spec => [](LastOwnerStays /\ CurrentIsNewest /\ UsableMeansCurrent /\ ActiveMeansSeen)
<1>1. Init => MembersInit /\ TemplateInit /\ SessionsInit /\ PrinterInit
  BY DEF Init
<1>2. [Next]_vars => [MembersNext]_memberVars /\ [TemplateNext]_templateVars
  BY DEF Next, vars
<1>3. [Next]_vars => [SessionsNext]_sessionVars /\ [PrinterNext]_printerVars
  BY DEF Next, vars
<1>4. Spec => MembersSpec /\ TemplateSpec /\ SessionsSpec /\ PrinterSpec
  BY <1>1, <1>2, <1>3, PTL DEF Spec, MembersSpec, TemplateSpec, SessionsSpec, PrinterSpec
<1> QED
  BY <1>4, OwnerRemains, TemplatesCurrent, SessionsCurrent, ProfilesSeen, PTL

=============================================================================
