----------------------------- MODULE Membership -----------------------------
(***************************************************************************)
(* Members of one workspace and the accounts behind them: the requests of  *)
(* WorkspaceController and AccountController, each a sequence of reads     *)
(* followed by one write, and the superadmin that every start of the API   *)
(* makes an owner.                                                         *)
(***************************************************************************)
EXTENDS Naturals

CONSTANTS People,          \* email addresses
          SuperAdmin,      \* the one configured by SUPERADMIN_EMAIL
          StartRoles,      \* bound: the roles members have at first
          GrantedRoles,    \* bound: the roles requests give
          AccessRequests,  \* requests in flight at a time
          AccessBudget     \* bound: requests, restarts, in one behaviour

Rank == [none |-> 0, VIEWER |-> 1, MEMBER |-> 2, ADMIN |-> 3, OWNER |-> 4]
Roles == DOMAIN Rank \ {"none"}

ASSUME AccessAssumption ==
    /\ SuperAdmin \in People /\ AccessBudget \in Nat
    /\ StartRoles \subseteq DOMAIN Rank /\ GrantedRoles \subseteq Roles /\ "OWNER" \in GrantedRoles

VARIABLES workspace,  \* whether the row of the workspace exists
          member,     \* the row (workspaceId, userId): its role and its id
          account,    \* the row of the user
          access,     \* the requests
          accessCount \* requests started, and ids given to rows

accessVars == <<workspace, member, account, access, accessCount>>

Stranger == [role |-> "none", id |-> 0]
Kinds == {"create", "add", "invite", "role", "remove", "delete", "close"}
NoAccess == [pc |-> "idle", kind |-> "create", actor |-> SuperAdmin, target |-> SuperAdmin,
             role |-> "VIEWER", seen |-> Stranger, raced |-> FALSE]

Owners == {u \in People : member[u].role = "OWNER"}
InFlight == {r \in AccessRequests : access[r].pc # "idle"}

\* @Roles of the handler; a request on the account itself, or that creates
\* the workspace, passes no workspace guard.
Required(kind) ==
    CASE kind \in {"role", "delete"} -> "OWNER"
      [] kind \in {"add", "invite", "remove"} -> "ADMIN"
      [] OTHER -> "none"

MembershipInit ==
    /\ workspace \in BOOLEAN
    /\ account \in [People -> {"none", "active"}]
    /\ account[SuperAdmin] = "active"
    /\ \E role \in [People -> StartRoles] :
           /\ \A u \in People : role[u] # "none" => workspace /\ account[u] = "active"
           /\ workspace => \E u \in People : role[u] = "OWNER"
           /\ member = [u \in People |-> [role |-> role[u], id |-> 0]]
    /\ access = [r \in AccessRequests |-> NoAccess]
    /\ accessCount = 0

\* A write ends request r, and happened during every other request in flight.
EndAccess(r) ==
    access' = [q \in AccessRequests |->
                  IF q = r THEN NoAccess
                  ELSE IF q \in InFlight THEN [access[q] EXCEPT !.raced = TRUE] ELSE access[q]]
Refuse(r) ==
    /\ access' = [access EXCEPT ![r] = NoAccess]
    /\ UNCHANGED <<workspace, member, account, accessCount>>
Proceed(r, pc) == access' = [access EXCEPT ![r].pc = pc]
Insert(u, role) == member' = [member EXCEPT ![u] = [role |-> role, id |-> accessCount]]

-----------------------------------------------------------------------------
\* JwtStrategy.validate admits active accounts; WorkspaceGuard and RolesGuard
\* members of the required rank. A request they refuse changes nothing.
StartAccess(r) ==
    /\ access[r].pc = "idle" /\ accessCount < AccessBudget
    /\ accessCount' = accessCount + 1
    /\ \E kind \in Kinds, actor \in People, target \in People, role \in GrantedRoles :
           /\ account[actor] = "active"
           /\ kind \notin {"create", "close"} =>
                  workspace /\ Rank[member[actor].role] >= Rank[Required(kind)]
           /\ kind \in {"create", "delete", "close"} => target = actor
           /\ kind \notin {"add", "invite", "role"} => role = "OWNER"
           /\ kind = "create" => ~workspace
           /\ access' = [access EXCEPT ![r] = [NoAccess EXCEPT
                  !.pc = IF kind = "create" THEN "write" ELSE "load",
                  !.kind = kind, !.actor = actor, !.target = target, !.role = role]]
    /\ UNCHANGED <<workspace, member, account>>

\* What the handler reads of its target before it decides.
LoadTarget(r) ==
    /\ access[r].pc = "load"
    /\ LET a == access[r]
           refused == \/ a.kind \in {"add", "invite"} /\ (~workspace \/ member[a.target].role # "none")
                      \/ a.kind = "invite" /\ account[a.target] = "inactive"
                      \/ a.kind \in {"role", "remove"} /\ member[a.target].role = "none"
                      \/ a.kind = "close" /\ account[a.target] = "none"
       IN  IF refused THEN Refuse(r)
           ELSE /\ access' = [access EXCEPT ![r].seen = member[a.target],
                                 ![r].pc = IF a.kind \in {"role", "remove", "delete", "close"}
                                           THEN "decide" ELSE "write"]
                /\ UNCHANGED <<workspace, member, account, accessCount>>

\* Mutant: an owner may take the role from himself.
MutantDecide(r) ==
    /\ access[r].pc = "decide" /\ access[r].kind # "close"
    /\ LET a == access[r]
           allowed == (a.kind = "remove" /\ a.seen.role # "OWNER") \/ member[a.actor].role = "OWNER"
       IN  IF allowed THEN Proceed(r, "write") /\ UNCHANGED <<workspace, member, account, accessCount>>
           ELSE Refuse(r)

\* updateMemberRole and removeMember read the role of the current user after
\* the membership of the target; delete reads it again.
Decide(r) ==
    /\ access[r].pc = "decide" /\ access[r].kind # "close"
    /\ LET a == access[r]
           actorRole == member[a.actor].role
           allowed == CASE a.kind = "role" -> actorRole = "OWNER" /\ a.actor # a.target
                        [] a.kind = "remove" -> /\ a.seen.role = "OWNER" => a.actor # a.target
                                                /\ a.seen.role = "OWNER" => actorRole = "OWNER"
                        [] OTHER -> actorRole = "OWNER"
       IN  IF allowed THEN Proceed(r, "write") /\ UNCHANGED <<workspace, member, account, accessCount>>
           ELSE Refuse(r)

\* deleteAccount counts the owners of a workspace of which the user is one:
\* the last one is deactivated instead, and the request fails.
CountOwners(r) ==
    /\ access[r].pc = "decide" /\ access[r].kind = "close"
    /\ IF Owners = {access[r].target}
       THEN /\ EndAccess(r)
            /\ account' = [account EXCEPT ![access[r].target] = IF @ = "none" THEN @ ELSE "inactive"]
            /\ UNCHANGED <<workspace, member, accessCount>>
       ELSE Proceed(r, "write") /\ UNCHANGED <<workspace, member, account, accessCount>>

\* save() of a membership as it was loaded: an update of that row, or the
\* row inserted again if it is gone; a row of another id is a unique violation.
SaveRole(r) ==
    LET a == access[r] IN
    /\ a.pc = "write" /\ a.kind = "role"
    /\ IF /\ workspace /\ account[a.target] # "none"
          /\ member[a.target].role = "none" \/ member[a.target].id = a.seen.id
       THEN /\ EndAccess(r)
            /\ member' = [member EXCEPT ![a.target] = [role |-> a.role, id |-> a.seen.id]]
            /\ UNCHANGED <<workspace, account, accessCount>>
       ELSE Refuse(r)

\* addMember, after inviteMember has created the user if there was none.
InsertMember(r) ==
    LET a == access[r] IN
    /\ a.pc = "write" /\ a.kind \in {"add", "invite"}
    /\ IF workspace /\ member[a.target].role = "none" /\ (a.kind = "invite" \/ account[a.target] # "none")
       THEN /\ EndAccess(r) /\ Insert(a.target, a.role)
            /\ account' = [account EXCEPT ![a.target] = IF @ = "none" THEN "active" ELSE @]
            /\ UNCHANGED <<workspace, accessCount>>
       ELSE Refuse(r)

RemoveMember(r) ==
    LET a == access[r] IN
    /\ a.pc = "write" /\ a.kind = "remove"
    /\ EndAccess(r)
    /\ member' = [member EXCEPT ![a.target] = IF @.id = a.seen.id THEN Stranger ELSE @]
    /\ UNCHANGED <<workspace, account, accessCount>>

\* The cascade of the foreign keys removes the memberships.
DeleteWorkspace(r) ==
    /\ access[r].pc = "write" /\ access[r].kind = "delete"
    /\ EndAccess(r)
    /\ workspace' = FALSE /\ member' = [u \in People |-> Stranger]
    /\ UNCHANGED <<account, accessCount>>

DeleteAccount(r) ==
    LET u == access[r].target IN
    /\ access[r].pc = "write" /\ access[r].kind = "close"
    /\ EndAccess(r)
    /\ account' = [account EXCEPT ![u] = "none"]
    /\ member' = [member EXCEPT ![u] = Stranger]
    /\ UNCHANGED <<workspace, accessCount>>

\* create saves the workspace, the membership and the settings one by one.
CreateWorkspace(r) ==
    /\ access[r].pc = "write" /\ access[r].kind = "create" /\ ~workspace
    /\ workspace' = TRUE /\ Proceed(r, "join")
    /\ UNCHANGED <<member, account, accessCount>>
JoinCreated(r) ==
    /\ access[r].pc = "join"
    /\ IF workspace /\ account[access[r].actor] # "none" /\ member[access[r].actor].role = "none"
       THEN EndAccess(r) /\ Insert(access[r].actor, "OWNER") /\ UNCHANGED <<workspace, account, accessCount>>
       ELSE Refuse(r)

\* A restart of the API ends every request where it is; onModuleInit then
\* makes the superadmin, created if need be, an owner of every workspace.
RestartServer ==
    /\ accessCount < AccessBudget /\ accessCount' = accessCount + 1
    /\ access' = [r \in AccessRequests |-> NoAccess]
    /\ account' = [account EXCEPT ![SuperAdmin] = IF @ = "none" THEN "active" ELSE @]
    /\ member' = IF ~workspace THEN member
                 ELSE [member EXCEPT ![SuperAdmin] =
                          [role |-> "OWNER", id |-> IF @.role = "none" THEN accessCount' ELSE @.id]]
    /\ UNCHANGED workspace

MembershipWrite(r) ==
    \/ SaveRole(r) \/ InsertMember(r) \/ RemoveMember(r) \/ DeleteWorkspace(r)
    \/ DeleteAccount(r) \/ JoinCreated(r)

MembershipNext ==
    \/ \E r \in AccessRequests :
           \/ StartAccess(r) \/ LoadTarget(r) \/ Decide(r) \/ CountOwners(r)
           \/ CreateWorkspace(r) \/ MembershipWrite(r)
    \/ RestartServer

MembershipSpec == MembershipInit /\ [][MembershipNext]_accessVars

-----------------------------------------------------------------------------
MembershipTypeOK ==
    /\ workspace \in BOOLEAN
    /\ member \in [People -> [role : DOMAIN Rank, id : 0 .. AccessBudget]]
    /\ account \in [People -> {"none", "active", "inactive"}]
    /\ access \in [AccessRequests ->
           [pc : {"idle", "load", "decide", "write", "join"}, kind : Kinds,
            actor : People, target : People, role : Roles,
            seen : [role : DOMAIN Rank, id : 0 .. AccessBudget], raced : BOOLEAN]]
    /\ accessCount \in 0 .. AccessBudget

(* A workspace loses its last owner only where a write of another request  *)
(* fell between the reads and the write of the one that takes him away.    *)
OwnerLostOnlyByOverlap ==
    [][workspace /\ workspace' /\ Owners # {} /\ Owners' = {}
           => \E r \in AccessRequests : access[r].raced /\ MembershipWrite(r)]_accessVars
===============================================================================
