---------------------------- MODULE AccessProofs ----------------------------
(***************************************************************************)
(* Proofs about the guards of a workspace: its members with the checks of  *)
(* its last owner, the rate of requests, and how long its settings keep    *)
(* what it has.                                                            *)
(***************************************************************************)
EXTENDS Membership, RateLimit, RetentionPolicy, FiniteSetTheorems, TLAPS

-----------------------------------------------------------------------------
(* The members of a workspace.                                             *)

(* What a request that no write has raced still knows: the row it read is *)
(* the row there is, and whom it would take a role from is not the last   *)
(* owner.                                                                 *)
KnowsTarget(a) ==
    /\ a.pc = "decide" => a.seen = member[a.target]
    /\ a.pc = "write" /\ a.kind = "role" =>
           /\ a.seen = member[a.target]
           /\ a.actor # a.target /\ member[a.actor].role = "OWNER"
    /\ a.pc = "write" /\ a.kind = "remove" =>
           /\ a.seen = member[a.target]
           /\ a.seen.role = "OWNER" => a.actor # a.target /\ member[a.actor].role = "OWNER"
    /\ a.pc = "write" /\ a.kind = "close" => Owners # {a.target}

Unraced == \A r \in AccessRequests : ~access[r].raced => KnowsTarget(access[r])

\* The requests, and the rows they read.
AccessRecords ==
    [pc : {"idle", "load", "decide", "write", "join"}, kind : Kinds,
     actor : People, target : People, role : Roles,
     seen : [role : DOMAIN Rank, id : 0 .. AccessBudget], raced : BOOLEAN]
Rows == [role : DOMAIN Rank, id : 0 .. AccessBudget]

MembershipInv == MembershipTypeOK /\ Unraced

\* The roles that are ranked: those a member may have, and "none".
LEMMA RankDomain ==
    /\ DOMAIN Rank = {"none", "VIEWER", "MEMBER", "ADMIN", "OWNER"}
    /\ Roles = {"VIEWER", "MEMBER", "ADMIN", "OWNER"}
BY DEF Rank, Roles

(* The record of a request that is not there, and the row of whom is no    *)
(* member.                                                                 *)
LEMMA IdleRecord ==
    /\ NoAccess \in AccessRecords /\ Stranger \in Rows
    /\ NoAccess.pc = "idle" /\ ~NoAccess.raced
BY AccessAssumption, RankDomain DEF NoAccess, AccessRecords, Rows, Stranger, Kinds

\* A request that ends leaves every other one at its place, raced if it is in flight.
LEMMA EndedAccess ==
    ASSUME access \in [AccessRequests -> AccessRecords], NEW r \in AccessRequests, EndAccess(r)
    PROVE  /\ access' \in [AccessRequests -> AccessRecords]
           /\ access'[r] = NoAccess
           /\ \A q \in AccessRequests : access'[q].pc # "idle" => access'[q].raced
<1>1. \A q \in AccessRequests \ {r} :
          access'[q] = IF q \in InFlight THEN [access[q] EXCEPT !.raced = TRUE] ELSE access[q]
  BY DEF EndAccess
<1>2. access'[r] = NoAccess
  BY DEF EndAccess
<1>3. \A q \in AccessRequests \ {r} :
          access'[q] \in AccessRecords /\ (access'[q].pc # "idle" => access'[q].raced)
  <2> SUFFICES ASSUME NEW q \in AccessRequests \ {r}
               PROVE  /\ access'[q] \in AccessRecords
                      /\ access'[q].pc # "idle" => access'[q].raced
    OBVIOUS
  <2>1. access[q] \in AccessRecords
    OBVIOUS
  <2>2. CASE q \in InFlight
    <3>1. access'[q] = [access[q] EXCEPT !.raced = TRUE]
      BY <1>1, <2>2
    <3> QED
      BY <2>1, <3>1 DEF AccessRecords
  <2>3. CASE q \notin InFlight
    <3>1. access'[q] = access[q]
      BY <1>1, <2>3
    <3> QED
      BY <2>1, <2>3, <3>1 DEF InFlight
  <2> QED
    BY <2>2, <2>3
<1>4. DOMAIN access' = AccessRequests /\ access' = [q \in AccessRequests |-> access'[q]]
  BY DEF EndAccess
<1> QED
  BY <1>2, <1>3, <1>4, IdleRecord

\* No request has read anything yet.
LEMMA MembershipInitial == MembershipInit => MembershipInv
<1> SUFFICES ASSUME MembershipInit PROVE MembershipInv
  OBVIOUS
<1>1. PICK role \in [People -> StartRoles] : member = [u \in People |-> [role |-> role[u], id |-> 0]]
  BY DEF MembershipInit
<1>2. member \in [People -> Rows] /\ accessCount \in 0 .. AccessBudget
  BY <1>1, AccessAssumption DEF MembershipInit, Rows
<1>3. access \in [AccessRequests -> AccessRecords]
  BY IdleRecord DEF MembershipInit
<1>4. workspace \in BOOLEAN /\ account \in [People -> {"none", "active", "inactive"}]
  BY DEF MembershipInit
<1>5. Unraced
  BY IdleRecord DEF MembershipInit, Unraced, KnowsTarget
<1> QED
  BY <1>2, <1>3, <1>4, <1>5 DEF MembershipInv, MembershipTypeOK, AccessRecords, Rows

\* Where a request ends with a write, nobody who is left knows anything.
LEMMA WriteRaces ==
    ASSUME access \in [AccessRequests -> AccessRecords], NEW r \in AccessRequests, EndAccess(r)
    PROVE  Unraced'
BY EndedAccess DEF Unraced, KnowsTarget

\* Where the members stay, a request keeps what it knew.
LEMMA QuietAccess ==
    ASSUME Unraced, access \in [AccessRequests -> AccessRecords], NEW r \in AccessRequests,
           UNCHANGED member, access' \in [AccessRequests -> AccessRecords],
           \A q \in AccessRequests \ {r} : access'[q] = access[q],
           ~access'[r].raced => KnowsTarget(access[r])'
    PROVE  Unraced'
<1>1. Owners' = Owners
  BY DEF Owners
<1> QED
  BY <1>1 DEF Unraced, KnowsTarget

(* A request that decides on a row other than the one there is has been    *)
(* raced.                                                                  *)
LEMMA MembershipStep == MembershipInv /\ [MembershipNext]_accessVars => MembershipInv'
<1> SUFFICES ASSUME MembershipInv, [MembershipNext]_accessVars PROVE MembershipInv'
  OBVIOUS
<1>1. /\ workspace \in BOOLEAN /\ member \in [People -> Rows]
      /\ account \in [People -> {"none", "active", "inactive"}]
      /\ access \in [AccessRequests -> AccessRecords]
      /\ accessCount \in 0 .. AccessBudget
      /\ Unraced
  BY DEF MembershipInv, MembershipTypeOK, AccessRecords, Rows
<1>2. SuperAdmin \in People /\ AccessBudget \in Nat /\ GrantedRoles \subseteq Roles
  BY AccessAssumption
<1> DEFINE Typed ==
      /\ workspace' \in BOOLEAN /\ member' \in [People -> Rows]
      /\ account' \in [People -> {"none", "active", "inactive"}]
      /\ access' \in [AccessRequests -> AccessRecords]
      /\ accessCount' \in 0 .. AccessBudget
<1> SUFFICES Typed /\ Unraced'
  BY DEF MembershipInv, MembershipTypeOK, AccessRecords, Rows
<1>3. \A r \in AccessRequests : Refuse(r) => Typed /\ Unraced'
  <2> SUFFICES ASSUME NEW r \in AccessRequests, Refuse(r) PROVE Typed /\ Unraced'
    OBVIOUS
  <2>1. access' \in [AccessRequests -> AccessRecords] /\ access'[r] = NoAccess
        /\ \A q \in AccessRequests \ {r} : access'[q] = access[q]
    BY <1>1, IdleRecord DEF Refuse
  <2>2. KnowsTarget(access[r])'
    BY <2>1, IdleRecord DEF KnowsTarget
  <2> QED
    BY <1>1, <2>1, <2>2, QuietAccess DEF Refuse
<1>4. \A r \in AccessRequests, pc \in {"write", "join"} : Proceed(r, pc) =>
          /\ access' \in [AccessRequests -> AccessRecords]
          /\ access'[r].pc = pc /\ access'[r].raced = access[r].raced
          /\ access'[r].kind = access[r].kind /\ access'[r].seen = access[r].seen
          /\ access'[r].actor = access[r].actor /\ access'[r].target = access[r].target
          /\ \A q \in AccessRequests \ {r} : access'[q] = access[q]
  BY <1>1 DEF Proceed, AccessRecords
<1>5. ASSUME NEW r \in AccessRequests, StartAccess(r) PROVE Typed /\ Unraced'
  <2>1. PICK kind \in Kinds, actor \in People, target \in People, role \in GrantedRoles :
            /\ account[actor] = "active"
            /\ kind \notin {"create", "close"} =>
                   workspace /\ Rank[member[actor].role] >= Rank[Required(kind)]
            /\ kind \in {"create", "delete", "close"} => target = actor
            /\ kind \notin {"add", "invite", "role"} => role = "OWNER"
            /\ kind = "create" => ~workspace
            /\ access' = [access EXCEPT ![r] = [NoAccess EXCEPT
                  !.pc = IF kind = "create" THEN "write" ELSE "load",
                  !.kind = kind, !.actor = actor, !.target = target, !.role = role]]
    BY <1>5, Zenon DEF StartAccess
  <2> DEFINE pc == IF kind = "create" THEN "write" ELSE "load"
             asked == [NoAccess EXCEPT !.pc = pc, !.kind = kind, !.actor = actor,
                                       !.target = target, !.role = role]
  <2>6. asked \in AccessRecords /\ asked.kind = kind /\ asked.pc = pc
    <3>1. pc \in {"write", "load"} /\ role \in Roles
      BY <1>2
    <3> HIDE DEF pc
    <3> QED
      BY <3>1, IdleRecord DEF AccessRecords
  <2>7. access' = [access EXCEPT ![r] = asked]
    BY <2>1
  <2>2. access' \in [AccessRequests -> AccessRecords]
        /\ access'[r].pc = (IF kind = "create" THEN "write" ELSE "load")
        /\ access'[r].kind = kind
        /\ \A q \in AccessRequests \ {r} : access'[q] = access[q]
    <3> HIDE DEF asked
    <3> QED
      BY <1>1, <2>6, <2>7
  <2>3. KnowsTarget(access[r])'
    BY <2>2 DEF KnowsTarget
  <2>4. accessCount' \in 0 .. AccessBudget
    BY <1>1, <1>2, <1>5 DEF StartAccess
  <2> QED
    BY <1>1, <1>5, <2>2, <2>3, <2>4, QuietAccess DEF StartAccess
<1>6. ASSUME NEW r \in AccessRequests, LoadTarget(r) PROVE Typed /\ Unraced'
  <2>1. CASE Refuse(r)
    BY <1>3, <2>1
  <2>2. CASE ~Refuse(r)
    <3>1. /\ access' = [access EXCEPT ![r].seen = member[access[r].target],
                   ![r].pc = IF access[r].kind \in {"role", "remove", "delete", "close"}
                             THEN "decide" ELSE "write"]
          /\ UNCHANGED <<workspace, member, account, accessCount>>
      BY <1>6, <2>2 DEF LoadTarget
    <3>2. access[r] \in AccessRecords /\ member[access[r].target] \in Rows
      BY <1>1 DEF AccessRecords
    <3>3. /\ access'[r] = [access[r] EXCEPT !.seen = member[access[r].target],
                   !.pc = IF access[r].kind \in {"role", "remove", "delete", "close"}
                          THEN "decide" ELSE "write"]
          /\ \A q \in AccessRequests \ {r} : access'[q] = access[q]
      BY <1>1, <3>1
    <3>4. access'[r] \in AccessRecords
      BY <3>2, <3>3 DEF AccessRecords, Rows
    <3>5. access' \in [AccessRequests -> AccessRecords]
      BY <1>1, <3>1, <3>3, <3>4
    <3>6. /\ access'[r].seen = member[access[r].target] /\ access'[r].target = access[r].target
          /\ access'[r].kind = access[r].kind
          /\ access'[r].pc = IF access[r].kind \in {"role", "remove", "delete", "close"}
                             THEN "decide" ELSE "write"
      BY <3>2, <3>3 DEF AccessRecords
    <3>7. KnowsTarget(access[r])'
      BY <3>1, <3>6 DEF KnowsTarget
    <3> QED
      BY <1>1, <3>1, <3>3, <3>5, <3>7, QuietAccess
  <2> QED
    BY <2>1, <2>2
<1>7. ASSUME NEW r \in AccessRequests, Decide(r) PROVE Typed /\ Unraced'
  <2>1. CASE Refuse(r)
    BY <1>3, <2>1
  <2>2. CASE ~Refuse(r)
    <3>1. /\ Proceed(r, "write") /\ UNCHANGED <<workspace, member, account, accessCount>>
          /\ access[r].pc = "decide" /\ access[r].kind # "close"
      BY <1>7, <2>2 DEF Decide
    <3>2. CASE access[r].kind = "role"
      <4>1. member[access[r].actor].role = "OWNER" /\ access[r].actor # access[r].target
        BY <1>7, <2>2, <3>2 DEF Decide
      <4>2. ~access[r].raced => access[r].seen = member[access[r].target]
        BY <1>1, <3>1 DEF Unraced, KnowsTarget
      <4> QED
        <5>1. KnowsTarget(access[r])' \/ access'[r].raced
          BY <1>4, <3>1, <3>2, <4>1, <4>2 DEF KnowsTarget
        <5> QED
          BY <1>1, <1>4, <3>1, <5>1, QuietAccess
    <3>3. CASE access[r].kind = "remove"
      <4>1. access[r].seen.role = "OWNER" =>
                access[r].actor # access[r].target /\ member[access[r].actor].role = "OWNER"
        BY <1>7, <2>2, <3>3 DEF Decide
      <4>2. ~access[r].raced => access[r].seen = member[access[r].target]
        BY <1>1, <3>1 DEF Unraced, KnowsTarget
      <4> QED
        <5>1. KnowsTarget(access[r])' \/ access'[r].raced
          BY <1>4, <3>1, <3>3, <4>1, <4>2 DEF KnowsTarget
        <5> QED
          BY <1>1, <1>4, <3>1, <5>1, QuietAccess
    <3>4. CASE access[r].kind \notin {"role", "remove"}
      BY <1>1, <1>4, <3>1, <3>4, QuietAccess DEF KnowsTarget, AccessRecords
    <3> QED
      BY <3>2, <3>3, <3>4
  <2> QED
    BY <2>1, <2>2
<1>8. ASSUME NEW r \in AccessRequests, CountOwners(r) PROVE Typed /\ Unraced'
  <2>1. CASE Owners = {access[r].target}
    <3>1. /\ EndAccess(r) /\ UNCHANGED <<workspace, member, accessCount>>
          /\ account' = [account EXCEPT ![access[r].target] = IF @ = "none" THEN @ ELSE "inactive"]
      BY <1>8, <2>1 DEF CountOwners
    <3>2. account' \in [People -> {"none", "active", "inactive"}]
      BY <1>1, <3>1 DEF AccessRecords
    <3> QED
      BY <1>1, <3>1, <3>2, EndedAccess, WriteRaces
  <2>2. CASE Owners # {access[r].target}
    <3>1. /\ Proceed(r, "write") /\ UNCHANGED <<workspace, member, account, accessCount>>
          /\ access[r].kind = "close"
      BY <1>8, <2>2 DEF CountOwners
    <3>2. Owners' = Owners
      BY <3>1 DEF Owners
    <3>3. /\ access' \in [AccessRequests -> AccessRecords]
          /\ access'[r].kind = "close" /\ access'[r].target = access[r].target
          /\ \A q \in AccessRequests \ {r} : access'[q] = access[q]
      BY <1>1, <1>4, <3>1 DEF AccessRecords
    <3>4. access'[r].pc = "write"
      BY <1>4, <3>1
    <3>5. KnowsTarget(access[r])'
      BY <2>2, <3>2, <3>3, <3>4 DEF KnowsTarget
    <3> QED
      BY <1>1, <3>1, <3>3, <3>5, QuietAccess
  <2> QED
    BY <2>1, <2>2
<1>9. ASSUME NEW r \in AccessRequests, CreateWorkspace(r) PROVE Typed /\ Unraced'
  <2>1. KnowsTarget(access[r])'
    BY <1>1, <1>4, <1>9 DEF CreateWorkspace, KnowsTarget, AccessRecords
  <2> QED
    BY <1>1, <1>4, <1>9, <2>1, QuietAccess DEF CreateWorkspace
<1>10. ASSUME NEW r \in AccessRequests, MembershipWrite(r) PROVE Typed /\ Unraced'
  <2>1. CASE Refuse(r)
    BY <1>3, <2>1
  <2>2. CASE ~Refuse(r)
    <3>1. access[r] \in AccessRecords
      BY <1>1
    <3>2. EndAccess(r)
      BY <1>10, <2>2 DEF MembershipWrite, SaveRole, InsertMember, RemoveMember, DeleteWorkspace,
                         DeleteAccount, JoinCreated
    <3>3. access' \in [AccessRequests -> AccessRecords] /\ Unraced'
      BY <1>1, <3>2, EndedAccess, WriteRaces
    <3>4. CASE SaveRole(r)
      <4>1. /\ UNCHANGED <<workspace, account, accessCount>>
            /\ member' = [member EXCEPT ![access[r].target] =
                              [role |-> access[r].role, id |-> access[r].seen.id]]
        BY <2>2, <3>4 DEF SaveRole
      <4>2. [role |-> access[r].role, id |-> access[r].seen.id] \in Rows
        BY <3>1, RankDomain DEF AccessRecords, Rows
      <4> QED
        BY <1>1, <3>1, <3>3, <4>1, <4>2 DEF AccessRecords
    <3>5. CASE InsertMember(r)
      <4>1. /\ Insert(access[r].target, access[r].role) /\ UNCHANGED <<workspace, accessCount>>
            /\ account' = [account EXCEPT ![access[r].target] = IF @ = "none" THEN "active" ELSE @]
        BY <2>2, <3>5 DEF InsertMember
      <4>2. account' \in [People -> {"none", "active", "inactive"}]
        BY <1>1, <3>1, <4>1 DEF AccessRecords
      <4>3. member' \in [People -> Rows]
        BY <1>1, <3>1, <4>1, RankDomain DEF AccessRecords, Insert, Rows
      <4> QED
        BY <1>1, <3>3, <4>1, <4>2, <4>3
    <3>6. CASE RemoveMember(r)
      BY <1>1, <3>1, <3>3, <3>6, IdleRecord DEF RemoveMember, AccessRecords
    <3>7. CASE DeleteWorkspace(r)
      BY <1>1, <3>3, <3>7, IdleRecord DEF DeleteWorkspace
    <3>8. CASE DeleteAccount(r)
      BY <1>1, <3>1, <3>3, <3>8, IdleRecord DEF DeleteAccount, AccessRecords
    <3>9. CASE JoinCreated(r)
      <4>1. Insert(access[r].actor, "OWNER") /\ UNCHANGED <<workspace, account, accessCount>>
        BY <2>2, <3>9 DEF JoinCreated
      <4>2. member' \in [People -> Rows]
        BY <1>1, <3>1, <4>1, RankDomain DEF AccessRecords, Insert, Rows
      <4> QED
        BY <1>1, <3>3, <4>1, <4>2
    <3> QED
      BY <1>10, <3>4, <3>5, <3>6, <3>7, <3>8, <3>9 DEF MembershipWrite
  <2> QED
    BY <2>1, <2>2
<1>11. CASE RestartServer
  <2>1. access' \in [AccessRequests -> AccessRecords] /\ Unraced'
    BY <1>11, IdleRecord DEF RestartServer, Unraced, KnowsTarget
  <2>2. accessCount' \in 0 .. AccessBudget
    BY <1>1, <1>2, <1>11 DEF RestartServer
  <2>3. account' \in [People -> {"none", "active", "inactive"}]
    BY <1>1, <1>2, <1>11 DEF RestartServer
  <2>4. member' \in [People -> Rows]
    <3>1. CASE workspace
      <4>1. member' = [member EXCEPT ![SuperAdmin] =
                [role |-> "OWNER", id |-> IF member[SuperAdmin].role = "none" THEN accessCount'
                                          ELSE member[SuperAdmin].id]]
        BY <1>1, <1>11, <3>1 DEF RestartServer
      <4>2. member[SuperAdmin].id \in 0 .. AccessBudget
        BY <1>1, <1>2 DEF Rows
      <4> QED
        BY <1>1, <2>2, <4>1, <4>2, RankDomain DEF Rows
    <3>2. CASE ~workspace
      BY <1>1, <1>11, <3>2 DEF RestartServer
    <3> QED
      BY <3>1, <3>2
  <2> QED
    BY <1>1, <1>11, <2>1, <2>2, <2>3, <2>4 DEF RestartServer
<1>12. CASE UNCHANGED accessVars
  <2>1. Unraced'
    BY <1>1, <1>12 DEF Unraced, KnowsTarget, accessVars, Owners
  <2> QED
    BY <1>1, <1>12, <2>1 DEF accessVars
<1> QED
  BY <1>5, <1>6, <1>7, <1>8, <1>9, <1>10, <1>11, <1>12 DEF MembershipNext

(* However the requests interleave, the records of members, accounts and    *)
(* requests stay well formed.                                              *)
THEOREM MembersTyped == MembershipSpec => []MembershipTypeOK
<1>1. MembershipInv => MembershipTypeOK
  BY DEF MembershipInv
<1> QED
  BY <1>1, MembershipInitial, MembershipStep, PTL DEF MembershipSpec

\* An owner who is not the row a write changes stays one.
LEMMA LosingLastOwner ==
    ASSUME MembershipInv, MembershipNext, workspace, workspace', Owners # {}, Owners' = {}
    PROVE  \E r \in AccessRequests : access[r].raced /\ MembershipWrite(r)
<1>1. /\ member \in [People -> Rows] /\ Unraced
      /\ access \in [AccessRequests -> AccessRecords]
  BY DEF MembershipInv, MembershipTypeOK, AccessRecords, Rows
<1>2. \A u \in People : member'[u].role # "OWNER"
  BY DEF Owners
<1>3. PICK owner \in People : member[owner].role = "OWNER"
  BY DEF Owners
<1>4. member' # member
  BY <1>2, <1>3
<1>5. ~RestartServer
  <2>1. SUFFICES ASSUME RestartServer PROVE FALSE
    OBVIOUS
  <2>2. member'[SuperAdmin].role = "OWNER"
    BY <1>1, <2>1, AccessAssumption DEF RestartServer
  <2> QED
    BY <1>2, <2>2, AccessAssumption
<1>6. PICK r \in AccessRequests : MembershipWrite(r)
  BY <1>4, <1>5 DEF MembershipNext, StartAccess, LoadTarget, Decide, CountOwners, CreateWorkspace,
                    Refuse
<1>7. SUFFICES ASSUME ~access[r].raced PROVE FALSE
  BY <1>6
<1>8. KnowsTarget(access[r]) /\ access[r] \in AccessRecords /\ ~Refuse(r)
  BY <1>1, <1>4, <1>7 DEF Unraced, Refuse
<1>9. ~SaveRole(r)
  BY <1>1, <1>2, <1>8 DEF SaveRole, KnowsTarget, AccessRecords
<1>10. ~InsertMember(r)
  BY <1>1, <1>2, <1>3, <1>8 DEF InsertMember, Insert, AccessRecords
<1>11. ~RemoveMember(r)
  BY <1>1, <1>2, <1>3, <1>8 DEF RemoveMember, KnowsTarget, AccessRecords
<1>12. ~DeleteWorkspace(r)
  BY DEF DeleteWorkspace
<1>13. ~DeleteAccount(r)
  <2>1. SUFFICES ASSUME DeleteAccount(r) PROVE FALSE
    OBVIOUS
  <2>2. PICK other \in Owners : other # access[r].target
    BY <1>8, <2>1, <1>3 DEF DeleteAccount, KnowsTarget, Owners
  <2>3. member'[other].role = "OWNER"
    BY <1>1, <2>1, <2>2 DEF DeleteAccount, Owners
  <2> QED
    BY <1>2, <2>2, <2>3 DEF Owners
<1>14. ~JoinCreated(r)
  BY <1>1, <1>2, <1>3, <1>8 DEF JoinCreated, Insert, AccessRecords
<1> QED
  BY <1>6, <1>9, <1>10, <1>11, <1>12, <1>13, <1>14 DEF MembershipWrite

(* A workspace loses its last owner only where a write of another request  *)
(* fell between the reads and the write of the one that takes him away:    *)
(* the checks of the handlers hold against every order of whole requests.  *)
THEOREM OwnersKept == MembershipSpec => OwnerLostOnlyByOverlap
<1>1. MembershipInv /\ [MembershipNext]_accessVars =>
        [workspace /\ workspace' /\ Owners # {} /\ Owners' = {}
           => \E r \in AccessRequests : access[r].raced /\ MembershipWrite(r)]_accessVars
  BY LosingLastOwner
<1> QED
  BY <1>1, MembershipInitial, MembershipStep, PTL DEF MembershipSpec, OwnerLostOnlyByOverlap

-----------------------------------------------------------------------------
(* The rate of requests.                                                   *)

\* The largest limit, and the times and numbers of stamps.
MostPassed == Max(Limits)
Times == Int \X Nat

\* It is one of the limits, and none is larger.
LEMMA LargestLimit ==
    /\ MostPassed \in Limits /\ MostPassed \in Nat
    /\ \A limit \in Limits : limit <= MostPassed
<1>1. PICK most \in Limits : \A limit \in Limits : limit <= most
  BY RateAssumption
<1>2. Limits \subseteq Nat
  BY RateAssumption
<1>3. \A limit \in Limits : most >= limit
  BY <1>1, <1>2
<1>4. MostPassed \in Limits /\ \A limit \in Limits : MostPassed >= limit
  BY <1>1, <1>3, Zenon DEF MostPassed, Max
<1> QED
  BY <1>2, <1>4

\* How many there are since a time: a number, and one more with a new stamp of that time.
LEMMA CountSince ==
    ASSUME NEW stamps, IsFiniteSet(stamps), NEW from
    PROVE  Cardinality(Since(stamps, from)) \in Nat /\ IsFiniteSet(Since(stamps, from))
<1>1. Since(stamps, from) \in SUBSET stamps
  BY DEF Since
<1> QED
  BY <1>1, FS_Subset, FS_CardinalityType

\* A new stamp adds one to each stretch that holds its time.
LEMMA CountAdded ==
    ASSUME NEW stamps, IsFiniteSet(stamps), NEW new, new \notin stamps, NEW from
    PROVE  /\ IsFiniteSet(stamps \cup {new})
           /\ Cardinality(Since(stamps \cup {new}, from)) =
                  IF new[1] >= from THEN Cardinality(Since(stamps, from)) + 1
                  ELSE Cardinality(Since(stamps, from))
<1>1. IsFiniteSet(Since(stamps, from)) /\ new \notin Since(stamps, from)
  BY CountSince DEF Since
<1>2. CASE new[1] >= from
  <2>1. Since(stamps \cup {new}, from) = Since(stamps, from) \cup {new}
    BY <1>2 DEF Since
  <2> QED
    BY <1>1, <1>2, <2>1, FS_AddElement
<1>3. CASE ~(new[1] >= from)
  <2>1. Since(stamps \cup {new}, from) = Since(stamps, from)
    BY <1>3 DEF Since
  <2> QED
    BY <1>3, <2>1, FS_AddElement
<1> QED
  BY <1>2, <1>3

(* None is later than now, and those of now are numbered below how many are*)
(* counted.                                                                *)
Numbered(stamps, counted) ==
    \A s \in stamps : s[1] <= tick /\ (s[1] = tick => s[2] < Cardinality(Since(counted, tick)))

(* In every last stretch of the minute the record holds at most the largest *)
(* limit, and what passed is in the record or in one that was dropped.      *)
RateInv ==
    /\ IsFiniteSet(limits.requests) /\ IsFiniteSet(passed) /\ IsFiniteSet(dropped)
    /\ limits = [requests |-> limits.requests, resetAt |-> limits.resetAt]
    /\ Numbered(limits.requests, passed) /\ Numbered(passed, passed) /\ Numbered(dropped, dropped)
    /\ \A s \in passed \cup dropped : tick - s[1] < Minute
    /\ \A from \in Int : tick - from < Minute =>
           /\ Cardinality(Since(limits.requests, from)) <= MostPassed
           /\ Cardinality(Since(passed, from)) <=
                  Cardinality(Since(limits.requests, from))
                  + MostPassed * Cardinality(Since(dropped, from))

\* The next number is of no stamp yet.
LEMMA StampIsNew ==
    ASSUME NEW counted, IsFiniteSet(counted), NEW stamps, Numbered(stamps, counted)
    PROVE  Stamp(counted) \notin stamps
<1>1. Cardinality(Since(counted, tick)) \in Nat
  BY CountSince
<1> QED
  BY <1>1 DEF Numbered, Stamp

\* Nothing passed and nothing was dropped.
LEMMA RateInitial == RateInit => RateTypeOK /\ RateInv
<1> SUFFICES ASSUME RateInit PROVE RateTypeOK /\ RateInv
  OBVIOUS
<1>1. \A from : Since({}, from) = {}
  BY DEF Since
<1>2. IsFiniteSet({}) /\ Cardinality({}) = 0
  BY FS_EmptySet
<1>3. limits.requests = {} /\ limits.resetAt = 0 /\ passed = {} /\ dropped = {} /\ tick = 1
      /\ limits = [requests |-> limits.requests, resetAt |-> limits.resetAt]
  BY DEF RateInit, NoRecord
<1>4. RateTypeOK
  BY <1>3, RateAssumption DEF RateTypeOK
<1>5. RateInv
  BY <1>1, <1>2, <1>3, LargestLimit DEF RateInv, Numbered
<1> QED
  BY <1>4, <1>5

\* A stretch of the minute loses nothing when the day is swept.
LEMMA OpenedRecord ==
    ASSUME RateTypeOK, RateInv
    PROVE  /\ IsFiniteSet(Opened.requests) /\ Opened.requests \subseteq limits.requests
           /\ Opened = [requests |-> Opened.requests, resetAt |-> Opened.resetAt]
           /\ Opened.resetAt \in 0 .. LastTick + Day
           /\ Expired => Opened.requests = {}
           /\ ~Expired => \A from \in Int : tick - from < Minute =>
                  Since(Opened.requests, from) = Since(limits.requests, from)
           /\ Within(Opened.requests, Minute) = Since(Opened.requests, tick + 1 - Minute)
<1>1. /\ tick \in Nat /\ Minute \in Nat /\ Day \in Nat /\ Minute < Day /\ LastTick \in Nat
      /\ tick <= LastTick /\ limits.requests \subseteq (1 .. LastTick) \X Nat
      /\ limits.resetAt \in 0 .. LastTick + Day
  BY RateAssumption DEF RateTypeOK, Stamps
<1>2. limits = [requests |-> limits.requests, resetAt |-> limits.resetAt]
  BY DEF RateInv
<1>3. CASE limits = NoRecord \/ Expired
  <2>1. Opened = [requests |-> {}, resetAt |-> tick + Day]
    BY <1>3 DEF Opened
  <2>2. limits = NoRecord => limits.requests = {}
    BY DEF NoRecord
  <2> QED
    BY <1>1, <1>3, <2>1, <2>2, FS_EmptySet DEF Since, Within
<1>4. CASE limits # NoRecord /\ ~Expired
  <2>1. Opened = [requests |-> Within(limits.requests, Day), resetAt |-> limits.resetAt]
    BY <1>2, <1>4 DEF Opened
  <2>2. Within(limits.requests, Day) \subseteq limits.requests
    BY DEF Within
  <2>3. IsFiniteSet(Within(limits.requests, Day))
    BY <2>2, FS_Subset DEF RateInv
  <2>4. \A from \in Int : tick - from < Minute =>
            Since(Opened.requests, from) = Since(limits.requests, from)
    <3>1. \A s \in limits.requests : s[1] \in Int
      BY <1>1
    <3> QED
      BY <1>1, <2>1, <3>1 DEF Since, Within
  <2>5. Within(Opened.requests, Minute) = Since(Opened.requests, tick + 1 - Minute)
    <3>1. \A s \in Opened.requests : s[1] \in Int
      BY <1>1, <2>1, <2>2
    <3> QED
      BY <1>1, <3>1 DEF Since, Within
  <2> QED
    BY <1>1, <1>4, <2>1, <2>2, <2>3, <2>4, <2>5
<1> QED
  BY <1>3, <1>4

\* Multiples, whose step is all that the provers need of them.
LEMMA OneMoreTimes ==
    ASSUME NEW m \in Nat, NEW d \in Nat
    PROVE  m * d \in Nat /\ m * (d + 1) = m * d + m
OBVIOUS

\* One drop more allows for what the record held.
LEMMA OneDropAllows ==
    ASSUME NEW m \in Nat, NEW d \in Nat, NEW r \in Nat, NEW p \in Nat,
           r <= m, p <= r + m * d
    PROVE  p <= m * (d + 1)
<1>1. m * d \in Nat /\ m * (d + 1) = m * d + m
  BY OneMoreTimes
<1> DEFINE x == m * d
           y == m * (d + 1)
<1>2. x \in Nat /\ y = x + m /\ p <= r + x
  BY <1>1
<1> HIDE DEF x, y
<1>3. p <= y
  BY <1>2
<1> QED
  BY <1>3 DEF y

\* An empty record adds nothing.
LEMMA NoneLeft ==
    ASSUME NEW m \in Nat, NEW d \in Nat, NEW r, NEW p \in Nat, r = 0
    PROVE  p <= r + m * d <=> p <= m * d
<1>1. m * d \in Nat
  BY OneMoreTimes
<1> DEFINE x == m * d
<1>2. x \in Nat
  BY <1>1
<1> HIDE DEF x
<1>3. p <= r + x <=> p <= x
  BY <1>2
<1> QED
  BY <1>3 DEF x

\* A record that is dropped held at most what one drop allows for.
LEMMA DroppedRecord ==
    ASSUME RateTypeOK, RateInv, dropped' = dropped \cup {Stamp(dropped)}, UNCHANGED tick
    PROVE  /\ dropped' \subseteq Stamps /\ IsFiniteSet(dropped') /\ Numbered(dropped', dropped')
           /\ \A s \in dropped' : tick - s[1] < Minute
           /\ \A from \in Int : tick - from < Minute =>
                  Cardinality(Since(passed, from)) <= MostPassed * Cardinality(Since(dropped', from))
<1>1. /\ tick \in Nat /\ tick \in 1 .. LastTick /\ Minute \in Nat \ {0}
      /\ limits.requests \subseteq Stamps /\ passed \subseteq Stamps /\ dropped \subseteq Stamps
  BY RateAssumption DEF RateTypeOK
<1>2. IsFiniteSet(limits.requests) /\ IsFiniteSet(passed) /\ IsFiniteSet(dropped)
      /\ Numbered(dropped, dropped) /\ \A s \in dropped : tick - s[1] < Minute
  BY DEF RateInv
<1>3. \A from : /\ Cardinality(Since(limits.requests, from)) \in Nat
                /\ Cardinality(Since(passed, from)) \in Nat
                /\ Cardinality(Since(dropped, from)) \in Nat
  BY <1>2, CountSince
<1>4. Stamp(dropped) \notin dropped
  BY <1>2, StampIsNew
<1>5. Stamp(dropped) \in Stamps /\ Stamp(dropped)[1] = tick
      /\ Stamp(dropped)[2] = Cardinality(Since(dropped, tick))
  BY <1>1, <1>3 DEF Stamp, Stamps
<1>6. /\ IsFiniteSet(dropped')
      /\ \A from : Cardinality(Since(dropped', from)) =
             IF tick >= from THEN Cardinality(Since(dropped, from)) + 1
             ELSE Cardinality(Since(dropped, from))
  <2> DEFINE new == Stamp(dropped)
  <2>1. new \notin dropped /\ new[1] = tick /\ dropped' = dropped \cup {new}
    BY <1>4, <1>5
  <2> HIDE DEF new
  <2>2. \A from : Cardinality(Since(dropped', from)) =
            IF new[1] >= from THEN Cardinality(Since(dropped, from)) + 1
            ELSE Cardinality(Since(dropped, from))
    <3>1. SUFFICES ASSUME NEW from
                   PROVE  Cardinality(Since(dropped \cup {new}, from)) =
                              IF new[1] >= from THEN Cardinality(Since(dropped, from)) + 1
                              ELSE Cardinality(Since(dropped, from))
      BY <2>1
    <3>2. IsFiniteSet(dropped) /\ new \notin dropped
      BY <1>2, <2>1
    <3> QED
      BY <3>2, CountAdded
  <2>3. IsFiniteSet(dropped')
    BY <1>2, <2>1, FS_AddElement
  <2> QED
    BY <2>1, <2>2, <2>3
<1>7. Numbered(dropped', dropped')
  <2>1. Cardinality(Since(dropped', tick)) = Cardinality(Since(dropped, tick)) + 1
    BY <1>1, <1>6
  <2>2. SUFFICES ASSUME NEW s \in dropped'
                 PROVE  s[1] <= tick /\ (s[1] = tick => s[2] < Cardinality(Since(dropped', tick)))
    BY DEF Numbered
  <2>3. CASE s = Stamp(dropped)
    BY <1>1, <1>3, <1>5, <2>1, <2>3
  <2>4. CASE s \in dropped
    <3>1. s \in (1 .. LastTick) \X Nat
      BY <1>1, <2>4 DEF Stamps
    <3>2. s[2] \in Nat
      BY <3>1
    <3> QED
      BY <1>2, <1>3, <2>1, <2>4, <3>2 DEF Numbered
  <2> QED
    BY <2>3, <2>4
<1>8. \A s \in dropped' : tick - s[1] < Minute
  BY <1>1, <1>2, <1>5
<1>9. ASSUME NEW from \in Int, tick - from < Minute
      PROVE  Cardinality(Since(passed, from)) <= MostPassed * Cardinality(Since(dropped', from))
  <2>1. /\ Cardinality(Since(limits.requests, from)) <= MostPassed
        /\ Cardinality(Since(passed, from)) <= Cardinality(Since(limits.requests, from))
                                               + MostPassed * Cardinality(Since(dropped, from))
    BY <1>9 DEF RateInv
  <2>2. MostPassed \in Nat
    BY LargestLimit
  <2>4. CASE tick >= from
    <3>1. Cardinality(Since(dropped', from)) = Cardinality(Since(dropped, from)) + 1
      BY <1>6, <2>4
    <3> QED
      BY <1>3, <2>1, <2>2, <3>1, OneDropAllows
  <2>5. CASE ~(tick >= from)
    <3>1. Since(limits.requests, from) = {}
      <4>1. \A s \in limits.requests : s[1] \in Nat /\ s[1] <= tick
        BY <1>1 DEF RateInv, Numbered, Stamps
      <4> QED
        BY <1>1, <2>5, <4>1 DEF Since
    <3>2. Cardinality(Since(limits.requests, from)) = 0
      BY <3>1, FS_EmptySet
    <3>3. Cardinality(Since(dropped', from)) = Cardinality(Since(dropped, from))
      BY <1>6, <2>5
    <3> QED
      BY <1>3, <2>1, <2>2, <3>2, <3>3, NoneLeft
  <2> QED
    BY <2>4, <2>5
<1> QED
  BY <1>1, <1>5, <1>6, <1>7, <1>8, <1>9

\* What a request finds of the record, when cleanup() has swept it.
LEMMA SweptRecord ==
    ASSUME RateTypeOK, RateInv, Sweep, UNCHANGED tick
    PROVE  /\ dropped' \subseteq Stamps /\ IsFiniteSet(dropped') /\ Numbered(dropped', dropped')
           /\ \A s \in dropped' : tick - s[1] < Minute
           /\ \A from \in Int : tick - from < Minute =>
                  /\ Cardinality(Since(Opened.requests, from)) <= MostPassed
                  /\ Cardinality(Since(passed, from)) <=
                         Cardinality(Since(Opened.requests, from))
                         + MostPassed * Cardinality(Since(dropped', from))
<1>1. CASE Expired
  <2>1. dropped' = dropped \cup {Stamp(dropped)}
    BY <1>1 DEF Sweep
  <2>2. Opened.requests = {}
    BY <1>1, OpenedRecord
  <2>3. \A from : Cardinality(Since(Opened.requests, from)) = 0
    <3>1. \A from : Since(Opened.requests, from) = {}
      BY <2>2 DEF Since
    <3> QED
      BY <3>1, FS_EmptySet
  <2>4. IsFiniteSet(dropped') /\ \A from : Cardinality(Since(dropped', from)) \in Nat
    BY <2>1, DroppedRecord, CountSince
  <2>5. \A from : Cardinality(Since(passed, from)) \in Nat
    BY CountSince DEF RateInv
  <2>6. ASSUME NEW from \in Int, tick - from < Minute
        PROVE  Cardinality(Since(passed, from)) <= Cardinality(Since(Opened.requests, from))
                                                   + MostPassed * Cardinality(Since(dropped', from))
    BY <2>1, <2>3, <2>4, <2>5, <2>6, DroppedRecord, LargestLimit, NoneLeft
  <2>7. \A from : Cardinality(Since(Opened.requests, from)) <= MostPassed
    BY <2>3, LargestLimit
  <2>8. /\ dropped' \subseteq Stamps /\ IsFiniteSet(dropped') /\ Numbered(dropped', dropped')
        /\ \A s \in dropped' : tick - s[1] < Minute
    BY <2>1, DroppedRecord
  <2> QED
    BY <2>6, <2>7, <2>8
<1>2. CASE ~Expired
  <2>1. dropped' = dropped
    BY <1>2 DEF Sweep
  <2>2. \A from \in Int : tick - from < Minute =>
            Since(Opened.requests, from) = Since(limits.requests, from)
    BY <1>2, OpenedRecord
  <2>3. Numbered(dropped', dropped')
    BY <2>1 DEF RateInv, Numbered
  <2> QED
    BY <2>1, <2>2, <2>3 DEF RateInv, RateTypeOK
<1> QED
  BY <1>1, <1>2

(* A request that passes is one more in the record, which held less than   *)
(* the limit.                                                              *)
LEMMA RatePass ==
    ASSUME RateTypeOK, RateInv, NEW limit \in Limits, Pass(limit)
    PROVE  RateTypeOK' /\ RateInv'
<1>1. /\ tick \in Nat /\ tick \in 1 .. LastTick /\ Minute \in Nat \ {0} /\ UNCHANGED tick
      /\ limits.requests \subseteq Stamps /\ passed \subseteq Stamps
      /\ IsFiniteSet(limits.requests) /\ IsFiniteSet(passed)
      /\ Numbered(limits.requests, passed) /\ Numbered(passed, passed)
      /\ \A s \in passed : tick - s[1] < Minute
  BY RateAssumption DEF RateTypeOK, RateInv, Pass
<1> DEFINE new == Stamp(passed)
<1>2. /\ IsFiniteSet(Opened.requests) /\ Opened.requests \subseteq limits.requests
      /\ Opened = [requests |-> Opened.requests, resetAt |-> Opened.resetAt]
      /\ Opened.resetAt \in 0 .. LastTick + Day
      /\ Within(Opened.requests, Minute) = Since(Opened.requests, tick + 1 - Minute)
  BY OpenedRecord
<1>3. \A from : /\ Cardinality(Since(Opened.requests, from)) \in Nat
                /\ Cardinality(Since(passed, from)) \in Nat
  BY <1>1, <1>2, CountSince
<1>4. new \notin passed /\ new \notin Opened.requests
  BY <1>1, <1>2, StampIsNew
<1>5. new \in Stamps /\ new[1] = tick /\ new[2] = Cardinality(Since(passed, tick))
  BY <1>1, <1>3 DEF Stamp, Stamps
<1>6. /\ limits'.requests = Opened.requests \cup {new} /\ limits'.resetAt = Opened.resetAt
      /\ limits' = [requests |-> limits'.requests, resetAt |-> limits'.resetAt]
      /\ passed' = passed \cup {new}
  <2>1. limits' = [Opened EXCEPT !.requests = @ \cup {new}] /\ passed' = passed \cup {new}
    BY DEF Pass
  <2> HIDE DEF new
  <2>2. limits' = [requests |-> Opened.requests \cup {new}, resetAt |-> Opened.resetAt]
    BY <1>2, <2>1
  <2> QED
    BY <2>1, <2>2
<1> HIDE DEF new
<1>7. IsFiniteSet(limits'.requests) /\ IsFiniteSet(passed')
  BY <1>1, <1>2, <1>4, <1>6, CountAdded
<1>8. \A from : Cardinality(Since(passed', from)) =
          IF new[1] >= from THEN Cardinality(Since(passed, from)) + 1
          ELSE Cardinality(Since(passed, from))
  BY <1>1, <1>4, <1>6, CountAdded
<1>9. \A from : Cardinality(Since(limits'.requests, from)) =
          IF new[1] >= from THEN Cardinality(Since(Opened.requests, from)) + 1
          ELSE Cardinality(Since(Opened.requests, from))
  BY <1>2, <1>4, <1>6, CountAdded
<1>10. /\ dropped' \subseteq Stamps /\ IsFiniteSet(dropped') /\ Numbered(dropped', dropped')
       /\ \A s \in dropped' : tick - s[1] < Minute
       /\ \A from \in Int : tick - from < Minute =>
              /\ Cardinality(Since(Opened.requests, from)) <= MostPassed
              /\ Cardinality(Since(passed, from)) <=
                     Cardinality(Since(Opened.requests, from))
                     + MostPassed * Cardinality(Since(dropped', from))
  BY <1>1, SweptRecord DEF Pass
<1>11. RateTypeOK'
  BY <1>1, <1>2, <1>5, <1>6, <1>10 DEF RateTypeOK, Stamps
<1>12. ASSUME NEW stamps, stamps \subseteq passed \cup limits.requests
       PROVE  Numbered(stamps \cup {new}, passed')
  <2>1. Cardinality(Since(passed', tick)) = Cardinality(Since(passed, tick)) + 1
    BY <1>1, <1>5, <1>8
  <2>2. SUFFICES ASSUME NEW s \in stamps \cup {new}
                 PROVE  s[1] <= tick /\ (s[1] = tick => s[2] < Cardinality(Since(passed', tick)))
    BY <1>1 DEF Numbered
  <2>3. CASE s = new
    BY <1>1, <1>3, <1>5, <2>1, <2>3
  <2>4. CASE s \in stamps
    <3>1. s \in (1 .. LastTick) \X Nat
      BY <1>1, <1>12, <2>4 DEF Stamps
    <3>2. s[2] \in Nat
      BY <3>1
    <3> QED
      BY <1>1, <1>3, <1>12, <2>1, <2>4, <3>2 DEF Numbered
  <2> QED
    BY <2>3, <2>4
<1>13. Numbered(limits.requests, passed)' /\ Numbered(passed, passed)' /\ Numbered(dropped, dropped)'
  <2>1. Numbered(limits'.requests, passed') /\ Numbered(passed', passed')
    BY <1>2, <1>6, <1>12
  <2> QED
    BY <1>1, <1>10, <2>1 DEF Numbered
<1>14. ASSUME NEW from \in Int, tick - from < Minute
       PROVE  /\ Cardinality(Since(limits'.requests, from)) <= MostPassed
              /\ Cardinality(Since(passed', from)) <=
                     Cardinality(Since(limits'.requests, from))
                     + MostPassed * Cardinality(Since(dropped', from))
  <2> DEFINE more == MostPassed * Cardinality(Since(dropped', from))
  <2>1. more \in Nat
    BY <1>10, CountSince, LargestLimit, OneMoreTimes
  <2>2. Cardinality(Since(passed, from)) <= Cardinality(Since(Opened.requests, from)) + more
        /\ Cardinality(Since(Opened.requests, from)) <= MostPassed
    BY <1>10, <1>14
  <2> HIDE DEF more
  <2>3. Cardinality(Since(passed', from)) <= Cardinality(Since(limits'.requests, from)) + more
    BY <1>3, <1>8, <1>9, <2>1, <2>2
  <2>4. CASE tick >= from
    <3>1. Cardinality(Since(Opened.requests, tick + 1 - Minute)) < limit
      <4>1. ~Busy(limit)
        BY DEF Pass
      <4>2. limit \in Nat
        BY RateAssumption
      <4> QED
        BY <1>2, <1>3, <4>1, <4>2 DEF Busy
    <3>2. Cardinality(Since(Opened.requests, from)) <= Cardinality(Since(Opened.requests, tick + 1 - Minute))
      <4>1. Since(Opened.requests, from) \in SUBSET Since(Opened.requests, tick + 1 - Minute)
        <5>1. \A s \in Opened.requests : s[1] \in Int
          BY <1>1, <1>2 DEF Stamps
        <5> QED
          BY <1>1, <1>14, <5>1 DEF Since
      <4> QED
        BY <1>2, <4>1, CountSince, FS_Subset
    <3>3. limit \in Nat /\ limit <= MostPassed /\ MostPassed \in Nat
      BY LargestLimit, RateAssumption
    <3> QED
      BY <1>3, <1>5, <1>9, <2>3, <2>4, <3>1, <3>2, <3>3 DEF more
  <2>5. CASE ~(tick >= from)
    BY <1>5, <1>9, <2>2, <2>3, <2>5 DEF more
  <2> QED
    BY <2>4, <2>5
<1>15. \A s \in passed' \cup dropped' : tick - s[1] < Minute
  BY <1>1, <1>5, <1>6, <1>10
<1>16. RateInv'
  BY <1>1, <1>6, <1>7, <1>10, <1>13, <1>14, <1>15 DEF RateInv
<1> QED
  BY <1>11, <1>16

\* A request that is turned away leaves only what it swept.
LEMMA RateTooMany ==
    ASSUME RateTypeOK, RateInv, NEW limit \in Limits, TooMany(limit)
    PROVE  RateTypeOK' /\ RateInv'
<1>1. limits' = Opened /\ Sweep /\ UNCHANGED <<tick, passed>>
  BY DEF TooMany
<1>2. /\ IsFiniteSet(Opened.requests) /\ Opened.requests \subseteq limits.requests
      /\ Opened = [requests |-> Opened.requests, resetAt |-> Opened.resetAt]
      /\ Opened.resetAt \in 0 .. LastTick + Day
  BY OpenedRecord
<1>3. /\ dropped' \subseteq Stamps /\ IsFiniteSet(dropped') /\ Numbered(dropped', dropped')
      /\ \A s \in dropped' : tick - s[1] < Minute
      /\ \A from \in Int : tick - from < Minute =>
             /\ Cardinality(Since(Opened.requests, from)) <= MostPassed
             /\ Cardinality(Since(passed, from)) <=
                    Cardinality(Since(Opened.requests, from))
                    + MostPassed * Cardinality(Since(dropped', from))
  BY <1>1, SweptRecord
<1>4. RateTypeOK'
  BY <1>1, <1>2, <1>3 DEF RateTypeOK, Stamps
<1>5. Numbered(limits.requests, passed)' /\ Numbered(passed, passed)' /\ Numbered(dropped, dropped)'
  BY <1>1, <1>2, <1>3 DEF Numbered, RateInv
<1>6. RateInv'
  BY <1>1, <1>2, <1>3, <1>5 DEF RateInv
<1> QED
  BY <1>4, <1>6

\* What is older than the minute is forgotten, and nothing else changes.
LEMMA RateTick == RateTypeOK /\ RateInv /\ Tick => RateTypeOK' /\ RateInv'
<1> SUFFICES ASSUME RateTypeOK, RateInv, Tick PROVE RateTypeOK' /\ RateInv'
  OBVIOUS
<1>1. /\ tick \in Nat /\ tick \in 1 .. LastTick /\ LastTick \in Nat /\ Minute \in Nat \ {0}
      /\ limits.requests \subseteq Stamps /\ passed \subseteq Stamps /\ dropped \subseteq Stamps
      /\ tick < LastTick /\ tick' = tick + 1 /\ limits' = limits
      /\ passed' = {s \in passed : tick' - s[1] < Minute}
      /\ dropped' = {s \in dropped : tick' - s[1] < Minute}
  BY RateAssumption DEF RateTypeOK, Tick
<1>2. RateTypeOK'
  BY <1>1 DEF RateTypeOK, Stamps
<1>3. IsFiniteSet(limits'.requests) /\ IsFiniteSet(passed') /\ IsFiniteSet(dropped')
  <2>1. passed' \in SUBSET passed /\ dropped' \in SUBSET dropped
    BY <1>1
  <2> QED
    BY <1>1, <2>1, FS_Subset DEF RateInv
<1>4. \A s \in limits.requests \cup passed \cup dropped : s[1] \in Int /\ s[1] < tick'
  BY <1>1 DEF RateInv, Numbered, Stamps
<1>5. Numbered(limits.requests, passed)' /\ Numbered(passed, passed)' /\ Numbered(dropped, dropped)'
  <2>1. \A s \in limits'.requests \cup passed' \cup dropped' : s[1] <= tick' /\ s[1] # tick'
    BY <1>1, <1>4
  <2> QED
    BY <2>1 DEF Numbered
<1>6. ASSUME NEW from \in Int, tick' - from < Minute
      PROVE  /\ tick - from < Minute
             /\ Since(passed', from) = Since(passed, from)
             /\ Since(dropped', from) = Since(dropped, from)
  BY <1>1, <1>4, <1>6 DEF Since
<1>7. RateInv'
  BY <1>1, <1>3, <1>5, <1>6 DEF RateInv
<1> QED
  BY <1>2, <1>7

\* A restart drops the record, and leaves an empty one.
LEMMA RateRestart == RateTypeOK /\ RateInv /\ RestartGuard => RateTypeOK' /\ RateInv'
<1> SUFFICES ASSUME RateTypeOK, RateInv, RestartGuard PROVE RateTypeOK' /\ RateInv'
  OBVIOUS
<1>1. /\ dropped' = dropped \cup {Stamp(dropped)} /\ UNCHANGED <<tick, passed>>
      /\ limits'.requests = {} /\ limits'.resetAt = 0
      /\ limits' = [requests |-> limits'.requests, resetAt |-> limits'.resetAt]
  BY DEF RestartGuard, NoRecord
<1>2. /\ dropped' \subseteq Stamps /\ IsFiniteSet(dropped') /\ Numbered(dropped', dropped')
      /\ \A s \in dropped' : tick - s[1] < Minute
      /\ \A from \in Int : tick - from < Minute =>
             Cardinality(Since(passed, from)) <= MostPassed * Cardinality(Since(dropped', from))
  BY <1>1, DroppedRecord
<1>3. RateTypeOK'
  <2>1. 0 \in 0 .. LastTick + Day
    BY RateAssumption
  <2> QED
    BY <1>1, <1>2, <2>1 DEF RateTypeOK, Stamps
<1>4. Numbered(limits.requests, passed)' /\ Numbered(passed, passed)' /\ Numbered(dropped, dropped)'
  BY <1>1, <1>2 DEF Numbered, RateInv
<1>5. \A from : Cardinality(Since(limits'.requests, from)) = 0
  <2>1. \A from : Since(limits'.requests, from) = {}
    BY <1>1 DEF Since
  <2> QED
    BY <2>1, FS_EmptySet
<1>6. \A from \in Int : tick - from < Minute =>
          /\ Cardinality(Since(limits'.requests, from)) <= MostPassed
          /\ Cardinality(Since(passed, from)) <=
                 Cardinality(Since(limits'.requests, from))
                 + MostPassed * Cardinality(Since(dropped', from))
  <2>1. \A from : Cardinality(Since(passed, from)) \in Nat /\ Cardinality(Since(dropped', from)) \in Nat
    BY <1>2, CountSince DEF RateInv
  <2> QED
    BY <1>2, <1>5, <2>1, LargestLimit, NoneLeft
<1>7. RateInv'
  BY <1>1, <1>2, <1>4, <1>6, FS_EmptySet DEF RateInv
<1> QED
  BY <1>3, <1>7

\* Every step keeps the bound of every last stretch of the minute.
LEMMA RateStep == RateTypeOK /\ RateInv /\ [RateNext]_rateVars => RateTypeOK' /\ RateInv'
<1>1. RateTypeOK /\ RateInv /\ UNCHANGED rateVars => RateTypeOK' /\ RateInv'
  BY DEF rateVars, RateTypeOK, RateInv, Numbered
<1> QED
  BY <1>1, RatePass, RateTooMany, RateTick, RateRestart DEF RateNext

\* All that passed in the minute is what passed since its first tick.
LEMMA RateBound == RateTypeOK /\ RateInv => MinuteRateKept
<1> SUFFICES ASSUME RateTypeOK, RateInv PROVE MinuteRateKept
  OBVIOUS
<1>1. tick \in Nat /\ Minute \in Nat \ {0} /\ passed \subseteq Stamps /\ dropped \subseteq Stamps
  BY RateAssumption DEF RateTypeOK
<1> DEFINE first == tick + 1 - Minute
<1>2. \A s \in passed \cup dropped : s[1] \in Int /\ tick - s[1] < Minute
  BY <1>1 DEF RateInv, Stamps
<1>3. Since(passed, first) = passed /\ Since(dropped, first) = dropped
  BY <1>1, <1>2 DEF Since
<1>4. first \in Int /\ tick - first < Minute
  BY <1>1
<1>5. /\ Cardinality(Since(limits.requests, first)) <= MostPassed
      /\ Cardinality(passed) <=
             Cardinality(Since(limits.requests, first)) + MostPassed * Cardinality(dropped)
  BY <1>3, <1>4 DEF RateInv
<1>6. /\ Cardinality(Since(limits.requests, first)) \in Nat
      /\ Cardinality(passed) \in Nat /\ Cardinality(dropped) \in Nat
  BY CountSince, FS_CardinalityType DEF RateInv
<1> HIDE DEF first
<1>7. Cardinality(passed) <= MostPassed * (Cardinality(dropped) + 1)
  BY <1>5, <1>6, LargestLimit, OneDropAllows
<1>8. Cardinality(dropped) + 1 = 1 + Cardinality(dropped)
  BY <1>6
<1> QED
  BY <1>7, <1>8 DEF MinuteRateKept, MostPassed

(* The clock, the record of the key and what is counted of it stay well    *)
(* formed for every length of the windows and every choice of limits.      *)
THEOREM RateTyped == RateSpec => []RateTypeOK
<1> QED
  BY RateInitial, RateStep, PTL DEF RateSpec

(* Whatever the limits of the handlers that share a record and whenever it *)
(* is swept, reset or lost, no minute lets through more than the largest   *)
(* limit, once for the record and once for every record dropped in it.     *)
THEOREM RateKept == RateSpec => []MinuteRateKept
<1> QED
  BY RateInitial, RateStep, RateBound, PTL DEF RateSpec

-----------------------------------------------------------------------------
(* How long things are kept.                                               *)

(* Rows that differ at most in whether they are stored.                     *)
Agree(row, other) ==
    /\ row.days = other.days /\ row.override = other.override /\ row.noLogs = other.noLogs

\* The requests on the settings.
RetentionWriters == [pc : {"idle", "save", "done"}, change : {"get", "days", "override", "noLogs"},
                     kind : Kinds2, days : Nat, loaded : SettingsRows, stale : BOOLEAN]

(* While no stale row was saved the settings are what the answered updates  *)
(* made of them, and a request that no save has crossed still has the row.  *)
RetentionInv ==
    /\ settings \in SettingsRows /\ acked \in SettingsRows
    /\ writer \in [Writers -> RetentionWriters]
    /\ cleaning \in [todo : SUBSET Items, expired : SUBSET Items]
    /\ (\A w \in Writers : writer[w].pc = "done" => ~writer[w].stale) => Agree(settings, acked)
    /\ \A w \in Writers :
           writer[w].pc = "save" /\ ~writer[w].stale => Agree(writer[w].loaded, settings)

\* The settings before they are stored, and the request that is not there.
LEMMA RowsTyped ==
    /\ NoSettings \in SettingsRows /\ DefaultSettings \in SettingsRows
    /\ Agree(NoSettings, DefaultSettings)
    /\ NoWriter \in RetentionWriters /\ NoWriter.pc = "idle" /\ ~NoWriter.stale
<1>1. DefaultDays \in [Kinds2 -> Nat] /\ "file" \in Kinds2
  BY RetentionAssumption DEF Kinds2
<1>2. [k \in Kinds2 |-> 0] \in [Kinds2 -> Nat]
  OBVIOUS
<1>3. NoSettings \in SettingsRows
  BY <1>1, <1>2 DEF NoSettings, SettingsRows
<1>4. DefaultSettings \in SettingsRows /\ Agree(NoSettings, DefaultSettings)
  BY <1>3 DEF DefaultSettings, SettingsRows, Agree
<1>5. NoWriter \in RetentionWriters /\ NoWriter.pc = "idle" /\ ~NoWriter.stale
  BY <1>1, <1>3 DEF NoWriter, RetentionWriters
<1> QED
  BY <1>3, <1>4, <1>5

\* What an update makes of two rows that agree agrees, and a row stays a row.
LEMMA ChangedAgrees ==
    ASSUME NEW row \in SettingsRows, NEW other \in SettingsRows, NEW w \in RetentionWriters
    PROVE  /\ Changed(row, w) \in SettingsRows
           /\ Agree(row, other) => Agree(Changed(row, w), Changed(other, w))
<1>1. CASE w.change = "days"
  <2>1. Changed(row, w) = [row EXCEPT !.days = [@ EXCEPT ![w.kind] = w.days]]
        /\ Changed(other, w) = [other EXCEPT !.days = [@ EXCEPT ![w.kind] = w.days]]
    BY <1>1 DEF Changed
  <2>2. [row.days EXCEPT ![w.kind] = w.days] \in [Kinds2 -> Nat]
    BY DEF SettingsRows, RetentionWriters
  <2> QED
    BY <2>1, <2>2 DEF SettingsRows, Agree
<1>2. CASE w.change = "override"
  <2>1. Changed(row, w) = [row EXCEPT !.override = [@ EXCEPT ![w.kind] = w.days]]
        /\ Changed(other, w) = [other EXCEPT !.override = [@ EXCEPT ![w.kind] = w.days]]
    BY <1>2 DEF Changed
  <2>2. [row.override EXCEPT ![w.kind] = w.days] \in [Kinds2 -> Nat]
    BY DEF SettingsRows, RetentionWriters
  <2> QED
    BY <2>1, <2>2 DEF SettingsRows, Agree
<1>3. CASE w.change = "noLogs"
  <2>1. Changed(row, w) = [row EXCEPT !.noLogs = ~row.noLogs]
        /\ Changed(other, w) = [other EXCEPT !.noLogs = ~other.noLogs]
    BY <1>3 DEF Changed
  <2> QED
    BY <2>1 DEF SettingsRows, Agree
<1>4. CASE w.change = "get"
  BY <1>4 DEF Changed
<1> QED
  BY <1>1, <1>2, <1>3, <1>4 DEF RetentionWriters

\* Nothing was answered, and the settings are the defaults.
LEMMA RetentionInitial == RetentionInit => RetentionInv
<1> SUFFICES ASSUME RetentionInit PROVE RetentionInv
  OBVIOUS
<1>1. /\ settings \in {NoSettings, DefaultSettings} /\ acked = DefaultSettings
      /\ \A w \in Writers : writer[w] = NoWriter
      /\ writer \in [Writers -> RetentionWriters]
      /\ cleaning \in [todo : SUBSET Items, expired : SUBSET Items]
  BY RowsTyped DEF RetentionInit, Idle
<1>2. Agree(settings, acked)
  BY <1>1, RowsTyped DEF Agree
<1> QED
  BY <1>1, <1>2, RowsTyped DEF RetentionInv

\* A save makes the requests that have read before it stale.
LEMMA RetentionStep == RetentionInv /\ [RetentionNext]_retentionVars => RetentionInv'
<1> SUFFICES ASSUME RetentionInv, [RetentionNext]_retentionVars PROVE RetentionInv'
  OBVIOUS
<1>1. /\ settings \in SettingsRows /\ acked \in SettingsRows
      /\ writer \in [Writers -> RetentionWriters]
      /\ cleaning \in [todo : SUBSET Items, expired : SUBSET Items]
      /\ (\A w \in Writers : writer[w].pc = "done" => ~writer[w].stale) => Agree(settings, acked)
      /\ \A w \in Writers :
             writer[w].pc = "save" /\ ~writer[w].stale => Agree(writer[w].loaded, settings)
  BY DEF RetentionInv
<1>2. ASSUME NEW w \in Writers, LoadSettings(w) PROVE RetentionInv'
  <2>1. PICK change \in {"get", "days", "override", "noLogs"}, kind \in Kinds2, days \in Days :
            writer' = [writer EXCEPT ![w] = [pc |-> "save", change |-> change, kind |-> kind,
                                             days |-> days, loaded |-> settings, stale |-> FALSE]]
    BY <1>2 DEF LoadSettings
  <2> DEFINE new == [pc |-> "save", change |-> change, kind |-> kind,
                     days |-> days, loaded |-> settings, stale |-> FALSE]
  <2>2. new \in RetentionWriters /\ new.pc = "save" /\ new.loaded = settings
    BY <1>1, RetentionAssumption DEF RetentionWriters
  <2>3. writer' = [writer EXCEPT ![w] = new]
    BY <2>1
  <2> HIDE DEF new
  <2>4. /\ writer' \in [Writers -> RetentionWriters] /\ writer'[w] = new
        /\ \A v \in Writers \ {w} : writer'[v] = writer[v]
    BY <1>1, <2>2, <2>3
  <2>5. writer[w].pc = "idle" /\ UNCHANGED <<settings, acked, cleaning>>
    BY <1>2 DEF LoadSettings
  <2>6. Agree(settings, settings)
    BY DEF Agree
  <2>7. (\A v \in Writers : writer'[v].pc = "done" => ~writer'[v].stale) => Agree(settings', acked')
    BY <1>1, <2>4, <2>5
  <2>8. \A v \in Writers :
            writer'[v].pc = "save" /\ ~writer'[v].stale => Agree(writer'[v].loaded, settings')
    BY <1>1, <2>2, <2>4, <2>5, <2>6
  <2> QED
    BY <1>1, <2>4, <2>5, <2>7, <2>8 DEF RetentionInv
<1>3. ASSUME NEW w \in Writers, SaveSettings(w) PROVE RetentionInv'
  <2> DEFINE a == writer[w]
             row == [a.loaded EXCEPT !.exists = TRUE]
             done == Answered(a)
             missed == [done EXCEPT !.stale = FALSE]
  <2>1. /\ a \in RetentionWriters /\ a.pc = "save" /\ a.loaded \in SettingsRows
        /\ UNCHANGED cleaning
    BY <1>1, <1>3 DEF SaveSettings, RetentionWriters
  <2>2. /\ done \in RetentionWriters /\ done.pc = "done" /\ done.stale = a.stale
        /\ missed \in RetentionWriters /\ missed.pc = "done" /\ ~missed.stale
    BY <2>1, RowsTyped DEF Answered, RetentionWriters
  <2>3. row \in SettingsRows /\ Agree(row, a.loaded)
    BY <2>1 DEF SettingsRows, Agree
  <2>4. \/ writer' = [writer EXCEPT ![w] = missed] /\ UNCHANGED <<settings, acked>>
        \/ /\ settings' = Changed(row, a) /\ acked' = Changed(acked, a)
           /\ writer' = [v \in Writers |->
                  IF v = w THEN done
                  ELSE IF writer[v].pc = "save" THEN [writer[v] EXCEPT !.stale = TRUE] ELSE writer[v]]
    BY <1>3 DEF SaveSettings
  <2> HIDE DEF done, missed, row
  <2>5. CASE writer' = [writer EXCEPT ![w] = missed] /\ UNCHANGED <<settings, acked>>
    <3>1. /\ writer' \in [Writers -> RetentionWriters] /\ writer'[w] = missed
          /\ \A v \in Writers \ {w} : writer'[v] = writer[v]
      BY <1>1, <2>2, <2>5
    <3>2. (\A v \in Writers : writer'[v].pc = "done" => ~writer'[v].stale) => Agree(settings', acked')
      BY <1>1, <2>1, <2>5, <3>1
    <3>3. \A v \in Writers :
              writer'[v].pc = "save" /\ ~writer'[v].stale => Agree(writer'[v].loaded, settings')
      BY <1>1, <2>2, <2>5, <3>1
    <3> QED
      BY <1>1, <2>1, <2>5, <3>1, <3>2, <3>3 DEF RetentionInv
  <2>6. CASE /\ settings' = Changed(row, a) /\ acked' = Changed(acked, a)
             /\ writer' = [v \in Writers |->
                    IF v = w THEN done
                    ELSE IF writer[v].pc = "save" THEN [writer[v] EXCEPT !.stale = TRUE] ELSE writer[v]]
    <3>1. ASSUME NEW v \in Writers, v # w, writer[v].pc = "save"
          PROVE  /\ [writer[v] EXCEPT !.stale = TRUE] \in RetentionWriters
                 /\ [writer[v] EXCEPT !.stale = TRUE].pc = "save"
                 /\ [writer[v] EXCEPT !.stale = TRUE].stale
      BY <1>1, <3>1 DEF RetentionWriters
    <3>2. /\ writer' \in [Writers -> RetentionWriters] /\ writer'[w] = done
          /\ \A v \in Writers \ {w} :
                 \/ writer[v].pc # "save" /\ writer'[v] = writer[v]
                 \/ writer[v].pc = "save" /\ writer'[v].pc = "save" /\ writer'[v].stale
      BY <1>1, <2>2, <2>6, <3>1
    <3>3. settings' \in SettingsRows /\ acked' \in SettingsRows
      BY <1>1, <2>1, <2>3, <2>6, ChangedAgrees
    <3>4. ASSUME \A v \in Writers : writer'[v].pc = "done" => ~writer'[v].stale
          PROVE  Agree(settings', acked')
      <4>1. ~a.stale
        BY <2>2, <3>2, <3>4
      <4>2. \A v \in Writers : writer[v].pc = "done" => ~writer[v].stale
        BY <2>1, <3>2, <3>4
      <4>3. Agree(settings, acked) /\ Agree(a.loaded, settings)
        BY <1>1, <2>1, <4>1, <4>2
      <4>4. Agree(row, acked)
        BY <2>3, <4>3 DEF Agree
      <4> QED
        BY <1>1, <2>1, <2>3, <2>6, <4>4, ChangedAgrees
    <3>5. \A v \in Writers :
              writer'[v].pc = "save" /\ ~writer'[v].stale => Agree(writer'[v].loaded, settings')
      BY <2>2, <3>2
    <3> QED
      BY <1>1, <2>1, <3>2, <3>3, <3>4, <3>5 DEF RetentionInv
  <2> QED
    BY <2>4, <2>5, <2>6
<1>4. ASSUME NEW i \in Items, JudgeItem(i) PROVE RetentionInv'
  <2>1. /\ settings' = [settings EXCEPT !.exists = TRUE] /\ UNCHANGED <<writer, acked>>
        /\ cleaning' \in [todo : SUBSET Items, expired : SUBSET Items]
    BY <1>1, <1>4 DEF JudgeItem
  <2>2. settings' \in SettingsRows /\ Agree(settings, settings')
    BY <1>1, <2>1 DEF SettingsRows, Agree
  <2>3. \A row : Agree(row, settings) => Agree(row, settings')
    BY <2>2 DEF Agree
  <2>4. Agree(settings, acked) => Agree(settings', acked')
    BY <2>1, <2>2 DEF Agree
  <2> QED
    BY <1>1, <2>1, <2>2, <2>3, <2>4 DEF RetentionInv
<1>5. CASE /\ UNCHANGED <<settings, writer, acked>>
           /\ cleaning' \in [todo : SUBSET Items, expired : SUBSET Items]
  BY <1>1, <1>5 DEF RetentionInv
<1>6. CASE StartCleaning \/ NextDay \/ UNCHANGED retentionVars
  BY <1>1, <1>5, <1>6 DEF StartCleaning, NextDay, retentionVars, Idle
<1>7. ASSUME NEW i \in Items, SkipItem(i) \/ RemoveObject(i) \/ RemoveRow(i) PROVE RetentionInv'
  <2>1. cleaning' \in [todo : SUBSET Items, expired : SUBSET Items]
    BY <1>1, <1>7 DEF SkipItem, RemoveObject, RemoveRow
  <2> QED
    BY <1>1, <1>5, <1>7, <2>1 DEF SkipItem, RemoveObject, RemoveRow
<1> QED
  BY <1>2, <1>3, <1>4, <1>6, <1>7 DEF RetentionNext, CleaningStep

\* An item is judged by the settings, which are then what the answers say.
LEMMA JudgedByPolicy ==
    ASSUME RetentionInv, [RetentionNext]_retentionVars,
           NEW i \in Items, i \in cleaning'.expired \ cleaning.expired, \A w \in Writers : ~writer[w].stale
    PROVE  item[i].age >= DaysKept(acked, KindOf[i])
<1>1. Agree(settings, acked)
  BY DEF RetentionInv
<1>2. DaysKept(settings, KindOf[i]) = DaysKept(acked, KindOf[i])
  BY <1>1 DEF DaysKept, Agree
<1>3. ASSUME NEW j \in Items, JudgeItem(j) PROVE item[i].age >= DaysKept(acked, KindOf[i])
  <2>1. i = j /\ item[j].age >= DaysKept(settings, KindOf[j])
    BY <1>3 DEF JudgeItem
  <2> QED
    BY <1>2, <2>1
<1>4. ASSUME NEW j \in Items, SkipItem(j) \/ RemoveObject(j) \/ RemoveRow(j) PROVE FALSE
  BY <1>4 DEF SkipItem, RemoveObject, RemoveRow, RetentionInv
<1>5. ASSUME NEW w \in Writers, LoadSettings(w) \/ SaveSettings(w) PROVE FALSE
  BY <1>5 DEF LoadSettings, SaveSettings
<1>6. ~StartCleaning /\ ~NextDay /\ ~UNCHANGED retentionVars
  BY DEF StartCleaning, NextDay, retentionVars, Idle
<1> QED
  BY <1>3, <1>4, <1>5, <1>6 DEF RetentionNext, CleaningStep

(* For any items, policies and requests on the settings: what the purge     *)
(* finds expired is older than the answered updates keep it, unless one of  *)
(* them saved a row that another had changed.                               *)
THEOREM PolicyHonoured == RetentionSpec => PolicyIsHonoured
<1>1. RetentionInv /\ [RetentionNext]_retentionVars =>
          [\A i \in Items :
               i \in cleaning'.expired \ cleaning.expired /\ (\A w \in Writers : ~writer[w].stale)
                   => item[i].age >= DaysKept(acked, KindOf[i])]_retentionVars
  BY JudgedByPolicy
<1> QED
  BY <1>1, RetentionInitial, RetentionStep, PTL DEF RetentionSpec, PolicyIsHonoured
=============================================================================
