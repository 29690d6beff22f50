--------------------------- MODULE WorkspacePages ----------------------------
(***************************************************************************)
(* Two pages of workspaces.  The one with a user's workspaces: a list asked *)
(* for again after every creation and deletion, the card a creation adds by *)
(* itself, and a logo for each card, loaded again with every list and every *)
(* upload; no request is given up, not even when the page is left.  And an *)
(* owner's page of the members: the form that adds one in two requests, or *)
(* registers and adds one after the first found nobody, a table loaded again *)
(* after every change, its selected row and its menu.                      *)
(***************************************************************************)
EXTENDS Naturals, FiniteSets

(***************************************************************************)
(* The page of the workspaces.                                             *)
(***************************************************************************)
CONSTANTS Works,       \* workspaces, there or to be created
          LogoUrls,    \* bound: object URLs made
          WorkSteps    \* bound: creations, deletions, uploads, refusals

ASSUME WorksAssumption == WorkSteps \in Nat

VARIABLES works,       \* external: of each workspace: unborn, there, gone
          cards, doubled, \* workspaces(): those shown, and those shown twice
          workLists,   \* loadWorkspaces under way: the rows, once read
          workCalls,   \* creations and deletions under way
          busyWorks,   \* loading
          uploadingLogo,   \* by their logos
          logoUrls, logoLoads, url, \* the logos shown and asked for, and every object URL
          worksOpen, listFailed, workSteps

logoVars == <<logoUrls, logoLoads, url>>
workVars == <<works, cards, doubled, workLists, workCalls, busyWorks, uploadingLogo, logoVars, worksOpen,
              listFailed, workSteps>>

NoUrl == 0
ASSUME UrlAssumption == NoUrl \notin LogoUrls

There == {w \in Works : works[w] = "there"}
AList == [st |-> "asked", rows |-> {}, nr |-> workSteps]

WorksInit ==
    /\ works \in [Works -> {"unborn", "there"}]
    /\ cards = {} /\ doubled = {} /\ workLists = {[st |-> "asked", rows |-> {}, nr |-> 0]} /\ workCalls = {}
    /\ busyWorks = FALSE /\ uploadingLogo = {}
    /\ logoUrls = [w \in Works |-> NoUrl] /\ logoLoads = {} /\ url = [b \in LogoUrls |-> "unmade"]
    /\ worksOpen = TRUE /\ listFailed = FALSE /\ workSteps = 0

\* loadWorkspaceLogoUrl: what is shown now is what its answer will revoke. Two
\* loads with no step of the user between them count as one.
LogoAsks(ws) == logoLoads' = logoLoads \cup {[work |-> w, prev |-> logoUrls[w], nr |-> workSteps] : w \in ws}

WorkStep == workSteps < WorkSteps /\ workSteps' = workSteps + 1

-----------------------------------------------------------------------------
(* The list.                                                               *)
WorksRead(l) ==
    /\ l.st = "asked"
    /\ workLists' = (workLists \ {l}) \cup {[l EXCEPT !.st = "read", !.rows = There]}
    /\ UNCHANGED <<works, cards, doubled, workCalls, busyWorks, uploadingLogo, logoVars, worksOpen, listFailed,
                   workSteps>>

WorksAnswer(l) ==
    /\ l.st = "read"
    /\ workLists' = workLists \ {l}
    /\ cards' = l.rows /\ doubled' = {} /\ LogoAsks(l.rows)
    /\ UNCHANGED <<works, workCalls, busyWorks, uploadingLogo, logoUrls, url, worksOpen, listFailed, workSteps>>

\* The error is only written to the console.
WorksFail(l) ==
    /\ WorkStep
    /\ workLists' = workLists \ {l} /\ listFailed' = TRUE
    /\ UNCHANGED <<works, cards, doubled, workCalls, busyWorks, uploadingLogo, logoVars, worksOpen>>

-----------------------------------------------------------------------------
(* Creations and deletions; the context menu deletes whatever is loading.  *)
SendWork(op, w) ==
    /\ worksOpen /\ WorkStep
    /\ workCalls' = workCalls \cup {[op |-> op, work |-> w, st |-> "sent"]}
    /\ busyWorks' = TRUE
    /\ UNCHANGED <<works, cards, doubled, workLists, uploadingLogo, logoVars, worksOpen, listFailed>>

OnCreate(w) ==
    /\ ~busyWorks /\ works[w] = "unborn" /\ ~\E c \in workCalls : c.work = w
    /\ SendWork("create", w)

DeleteWorkspace(w) == w \in cards /\ SendWork("delete", w)

ServeWork(c) ==
    /\ c.st = "sent"
    /\ workCalls' = (workCalls \ {c}) \cup {[c EXCEPT !.st = "done"]}
    /\ works' = [works EXCEPT ![c.work] = IF c.op = "create" THEN "there" ELSE "gone"]
    /\ UNCHANGED <<cards, doubled, workLists, busyWorks, uploadingLogo, logoVars, worksOpen, listFailed,
                   workSteps>>

Created(c) ==
    /\ c.st = "done" /\ c.op = "create"
    /\ workCalls' = workCalls \ {c} /\ busyWorks' = FALSE
    /\ cards' = cards \cup {c.work} /\ doubled' = doubled \cup ({c.work} \cap cards)
    /\ workLists' = workLists \cup {AList}
    /\ UNCHANGED <<works, uploadingLogo, logoVars, worksOpen, listFailed,
                   workSteps>>

Deleted(c) ==
    /\ c.st = "done" /\ c.op = "delete"
    /\ workCalls' = workCalls \ {c} /\ busyWorks' = FALSE
    /\ workLists' = workLists \cup {AList}
    /\ UNCHANGED <<works, cards, doubled, uploadingLogo, logoVars, worksOpen, listFailed,
                   workSteps>>

\* Before it was served, or after.
WorkFails(c) ==
    /\ WorkStep
    /\ workCalls' = workCalls \ {c} /\ busyWorks' = FALSE
    /\ UNCHANGED <<works, cards, doubled, workLists, uploadingLogo, logoVars, worksOpen, listFailed>>

-----------------------------------------------------------------------------
(* Logos.                                                                  *)
OnWorkspaceLogoSelected(w) ==
    /\ worksOpen /\ w \in cards /\ w \notin uploadingLogo /\ WorkStep
    /\ uploadingLogo' = uploadingLogo \cup {w}
    /\ UNCHANGED <<works, cards, doubled, workLists, workCalls, busyWorks, logoVars, worksOpen, listFailed>>

LogoUploaded(w) ==
    /\ w \in uploadingLogo /\ uploadingLogo' = uploadingLogo \ {w}
    /\ LogoAsks({w}) \/ UNCHANGED logoLoads
    /\ UNCHANGED <<works, cards, doubled, workLists, workCalls, busyWorks, logoUrls, url, worksOpen,
                   listFailed, workSteps>>

Revoking(b) == [u \in LogoUrls |-> IF u = b THEN "revoked" ELSE url[u]]

\* No URL for a workspace without a logo, or for one whose logo is refused.
LogoShown(l, b) ==
    /\ url' = IF b = NoUrl THEN Revoking(l.prev) ELSE [Revoking(l.prev) EXCEPT ![b] = "live"]
    /\ logoUrls' = [logoUrls EXCEPT ![l.work] = b]

LogoLoaded(l, b) ==
    /\ b # NoUrl => url[b] = "unmade"
    /\ logoLoads' = logoLoads \ {l}
    /\ LogoShown(l, b)
    /\ UNCHANGED <<works, cards, doubled, workLists, workCalls, busyWorks, uploadingLogo, worksOpen,
                   listFailed, workSteps>>

\* ngOnDestroy.
LeaveWorks ==
    /\ worksOpen /\ worksOpen' = FALSE
    /\ url' = [u \in LogoUrls |-> IF \E w \in Works : logoUrls[w] = u THEN "revoked" ELSE url[u]]
    /\ UNCHANGED <<works, cards, doubled, workLists, workCalls, busyWorks, uploadingLogo, logoUrls, logoLoads,
                   listFailed, workSteps>>

WorksNext ==
    \/ \E l \in workLists : WorksRead(l) \/ WorksAnswer(l) \/ WorksFail(l)
    \/ \E w \in Works : OnCreate(w) \/ DeleteWorkspace(w) \/ OnWorkspaceLogoSelected(w) \/ LogoUploaded(w)
    \/ \E c \in workCalls : ServeWork(c) \/ Created(c) \/ Deleted(c) \/ WorkFails(c)
    \/ \E l \in logoLoads, b \in LogoUrls \cup {NoUrl} : LogoLoaded(l, b)
    \/ LeaveWorks

WorksSpec == WorksInit /\ [][WorksNext]_workVars

-----------------------------------------------------------------------------
WorksTypeOK ==
    LET nrs == 0 .. WorkSteps
        urls == LogoUrls \cup {NoUrl}
    IN  /\ works \in [Works -> {"unborn", "there", "gone"}]
        /\ {cards, doubled, uploadingLogo} \subseteq SUBSET Works
        /\ workLists \subseteq [st : {"asked", "read"}, rows : SUBSET Works, nr : nrs]
        /\ workCalls \subseteq [op : {"create", "delete"}, work : Works, st : {"sent", "done"}]
        /\ logoUrls \in [Works -> urls] /\ logoLoads \subseteq [work : Works, prev : urls, nr : nrs]
        /\ url \in [LogoUrls -> {"unmade", "live", "revoked"}]
        /\ {busyWorks, worksOpen, listFailed} \subseteq BOOLEAN /\ workSteps \in nrs

(* A logo that is shown is never one whose object URL was revoked, however *)
(* many loads of it are under way.                                         *)
LogosShownAreAlive == worksOpen => \A w \in Works : logoUrls[w] # NoUrl => url[logoUrls[w]] = "live"

(* A workspace is shown twice, the card of its creation beside the list's, *)
(* only while a list that will mend it is under way, or after one failed.  *)
TwiceOnlyUntilReload == doubled # {} => workLists # {} \/ listFailed

-----------------------------------------------------------------------------
(***************************************************************************)
(* The page of the members.                                                *)
(***************************************************************************)
CONSTANTS Addresses,     \* of others than the owner
          GivenRoles,    \* roles the form offers
          MenuRoles,     \* roles the menu of a row offers
          MemberSteps    \* bound: presses, and changes by other owners

ASSUME MembersAssumption ==
    MemberSteps \in Nat /\ {"MEMBER", "OWNER"} \subseteq GivenRoles /\ "OWNER" \notin MenuRoles

VARIABLES roleOf, registered,  \* external: the members' roles; who has an account
          members, selectedMember,
          memberLists,   \* loadMembers under way: the rows, once read
          memberCalls,   \* role changes and removals under way
          addMemberForm, showAddForm, showRegisterFields, addingMember,
          adding,        \* the press of the form that is being answered
          pressed,       \* history: address and role of the last press
          muddled,       \* history: lists overlapped, one failed, or another owner changed something
          memberSteps

addFormVars == <<addMemberForm, showAddForm, showRegisterFields>>
tableVars == <<members, selectedMember, memberLists>>
membersVars == <<roleOf, registered, tableVars, memberCalls, addFormVars, addingMember, adding, pressed,
                 muddled, memberSteps>>

NotMember == "none"
NoAddress == "no address"
NobodySelected == [who |-> NoAddress, role |-> NotMember]
EmptyForm == [email |-> NoAddress, role |-> "MEMBER", details |-> "absent"]
NotAdding == [st |-> "idle", email |-> NoAddress, role |-> "MEMBER"]
ASSUME MemberNames == NoAddress \notin Addresses /\ NotMember \notin GivenRoles \cup MenuRoles

NewList == [nr |-> memberSteps, st |-> "asked", rows |-> [a \in Addresses |-> NotMember]]

MembersInit ==
    /\ roleOf \in [Addresses -> {NotMember, "MEMBER"}]
    /\ registered \in SUBSET Addresses /\ \A a \in Addresses : roleOf[a] # NotMember => a \in registered
    /\ members = [a \in Addresses |-> NotMember] /\ selectedMember = NobodySelected
    /\ memberLists = {[nr |-> 0, st |-> "asked", rows |-> [a \in Addresses |-> NotMember]]}
    /\ memberCalls = {}
    /\ addMemberForm = EmptyForm /\ showAddForm = FALSE /\ showRegisterFields = FALSE
    /\ addingMember = FALSE /\ adding = NotAdding
    /\ pressed = <<NoAddress, "MEMBER">> /\ muddled = FALSE /\ memberSteps = 0

Press == memberSteps < MemberSteps /\ memberSteps' = memberSteps + 1

\* loadMembers; the lists before it are not given up.
AskMembers ==
    /\ memberLists' = memberLists \cup {NewList}
    /\ muddled' = (muddled \/ memberLists # {})

-----------------------------------------------------------------------------
(* The form.  Its fields can be edited while a press is answered.          *)
EditAddForm ==
    /\ showAddForm
    /\ \/ \E email \in Addresses \cup {NoAddress} : addMemberForm' = [addMemberForm EXCEPT !.email = email]
       \/ \E role \in GivenRoles : addMemberForm' = [addMemberForm EXCEPT !.role = role]
       \/ /\ showRegisterFields
          /\ \E details \in {"empty", "filled"} : addMemberForm' = [addMemberForm EXCEPT !.details = details]
    /\ UNCHANGED <<roleOf, registered, tableVars, memberCalls, showAddForm, showRegisterFields,
                   addingMember, adding, pressed, muddled, memberSteps>>

\* The button of the toolbar hides the fields of a registration; the form
\* still has their controls.
OpenAddForm ==
    /\ showRegisterFields' = FALSE /\ showAddForm' = TRUE
    /\ UNCHANGED <<roleOf, registered, tableVars, memberCalls, addMemberForm, addingMember, adding,
                   pressed, muddled, memberSteps>>

ResetAddForm == addMemberForm' = EmptyForm /\ showAddForm' = FALSE /\ showRegisterFields' = FALSE

CancelAdding ==
    /\ showAddForm /\ ~addingMember
    /\ ResetAddForm
    /\ UNCHANGED <<roleOf, registered, tableVars, memberCalls, addingMember, adding, pressed, muddled,
                   memberSteps>>

\* onAddMember, onRegisterAndAdd: what is sent is what the form holds now.
SubmitAdding ==
    /\ showAddForm /\ ~addingMember /\ Press
    /\ addMemberForm.email # NoAddress /\ addMemberForm.details # "empty"
    /\ showRegisterFields => addMemberForm.details = "filled"
    /\ addingMember' = TRUE
    /\ adding' = [st |-> IF showRegisterFields THEN "invite" ELSE "search",
                  email |-> addMemberForm.email, role |-> addMemberForm.role]
    /\ pressed' = <<addMemberForm.email, addMemberForm.role>>
    /\ UNCHANGED <<roleOf, registered, tableVars, memberCalls, addFormVars, muddled>>

\* The search and its answer; one that finds the user sends the second request.
SearchAnswered ==
    /\ adding.st = "search"
    /\ IF adding.email \in registered
       THEN adding' = [adding EXCEPT !.st = "add"] /\ UNCHANGED <<addFormVars, addingMember>>
       ELSE /\ adding' = NotAdding /\ addingMember' = FALSE /\ showRegisterFields' = TRUE
            /\ addMemberForm' = [addMemberForm EXCEPT !.details = IF @ = "absent" THEN "empty" ELSE @]
            /\ UNCHANGED showAddForm
    /\ UNCHANGED <<roleOf, registered, tableVars, memberCalls, pressed, muddled, memberSteps>>

\* addMember, inviteMember: a member already is refused.
ServeAdding ==
    /\ adding.st \in {"add", "invite"}
    /\ IF roleOf[adding.email] = NotMember
       THEN /\ roleOf' = [roleOf EXCEPT ![adding.email] = adding.role]
            /\ registered' = registered \cup {adding.email}
            /\ adding' = [adding EXCEPT !.st = "added"]
       ELSE adding' = [adding EXCEPT !.st = "refused"] /\ UNCHANGED <<roleOf, registered>>
    /\ UNCHANGED <<tableVars, memberCalls, addFormVars, addingMember, pressed, muddled, memberSteps>>

\* What was typed since is thrown away with the form.
MemberAdded ==
    /\ adding.st = "added"
    /\ ResetAddForm /\ AskMembers
    /\ adding' = NotAdding /\ addingMember' = FALSE
    /\ UNCHANGED <<roleOf, registered, members, selectedMember, memberCalls, pressed, memberSteps>>

\* A refusal, or a failure of any request of the press, done or not.
AddingFails ==
    /\ \/ adding.st = "refused" /\ UNCHANGED <<muddled, memberSteps>>
       \/ adding.st # "idle" /\ Press /\ muddled' = TRUE
    /\ adding' = NotAdding /\ addingMember' = FALSE
    /\ UNCHANGED <<roleOf, registered, tableVars, memberCalls, addFormVars, pressed>>

-----------------------------------------------------------------------------
(* The table.                                                              *)
SelectMember(a) ==
    /\ members[a] # NotMember
    /\ selectedMember' = [who |-> a, role |-> members[a]]
    /\ UNCHANGED <<roleOf, registered, members, memberLists, memberCalls, addFormVars, addingMember, adding,
                   pressed, muddled, memberSteps>>

SendChange(op, a, role) ==
    /\ Press
    /\ memberCalls' = memberCalls \cup {[op |-> op, who |-> a, role |-> role, st |-> "sent", nr |-> memberSteps]}
    /\ UNCHANGED <<roleOf, registered, tableVars, addFormVars, addingMember, adding, pressed, muddled>>

\* updateMemberRole, from the menu of the row.
UpdateMemberRole(a, role) ==
    /\ members[a] \notin {NotMember, "OWNER", role}
    /\ SendChange("role", a, role)

\* removeMember, from the menu of the row, or of the selection: the row as it
\* was when it was selected.
RemoveMemberOf(a) ==
    /\ \/ members[a] \notin {NotMember, "OWNER"}
       \/ selectedMember.who = a /\ selectedMember.role # "OWNER"
    /\ SendChange("remove", a, NotMember)

ServeChange(c) ==
    /\ c.st = "sent"
    /\ roleOf' = [roleOf EXCEPT ![c.who] = IF @ = NotMember THEN @ ELSE c.role]
    /\ memberCalls' = (memberCalls \ {c}) \cup
           {[c EXCEPT !.st = IF roleOf[c.who] = NotMember THEN "refused" ELSE "done"]}
    /\ UNCHANGED <<registered, tableVars, addFormVars, addingMember, adding, pressed, muddled, memberSteps>>

ChangeDone(c) ==
    /\ c.st = "done"
    /\ memberCalls' = memberCalls \ {c}
    /\ selectedMember' = IF c.op = "remove" THEN NobodySelected ELSE selectedMember
    /\ AskMembers
    /\ UNCHANGED <<roleOf, registered, members, addFormVars, addingMember, adding, pressed, memberSteps>>

ChangeFails(c) ==
    /\ \/ c.st = "refused" /\ UNCHANGED <<muddled, memberSteps>>
       \/ Press /\ muddled' = TRUE
    /\ memberCalls' = memberCalls \ {c}
    /\ UNCHANGED <<roleOf, registered, tableVars, addFormVars, addingMember, adding, pressed>>

MembersRead(l) ==
    /\ l.st = "asked"
    /\ memberLists' = (memberLists \ {l}) \cup {[l EXCEPT !.st = "read", !.rows = roleOf]}
    /\ UNCHANGED <<roleOf, registered, members, selectedMember, memberCalls, addFormVars, addingMember, adding,
                   pressed, muddled, memberSteps>>

MembersAnswer(l) ==
    /\ l.st = "read"
    /\ memberLists' = memberLists \ {l} /\ members' = l.rows
    /\ UNCHANGED <<roleOf, registered, selectedMember, memberCalls, addFormVars, addingMember, adding, pressed,
                   muddled, memberSteps>>

MembersFail(l) ==
    /\ Press
    /\ memberLists' = memberLists \ {l} /\ muddled' = TRUE
    /\ UNCHANGED <<roleOf, registered, members, selectedMember, memberCalls, addFormVars, addingMember, adding,
                   pressed>>

\* External: another owner's page.
OtherOwnerChanges(a, role) ==
    /\ Press /\ a \in registered
    /\ roleOf' = [roleOf EXCEPT ![a] = role] /\ muddled' = TRUE
    /\ UNCHANGED <<registered, tableVars, memberCalls, addFormVars, addingMember, adding, pressed>>

MembersNext ==
    \/ EditAddForm \/ OpenAddForm \/ CancelAdding \/ SubmitAdding
    \/ SearchAnswered \/ ServeAdding \/ MemberAdded \/ AddingFails
    \/ \E a \in Addresses : SelectMember(a) \/ RemoveMemberOf(a)
    \/ \E a \in Addresses, role \in MenuRoles : UpdateMemberRole(a, role)
    \/ \E c \in memberCalls : ServeChange(c) \/ ChangeDone(c) \/ ChangeFails(c)
    \/ \E l \in memberLists : MembersRead(l) \/ MembersAnswer(l) \/ MembersFail(l)
    \/ \E a \in Addresses, role \in GivenRoles \cup {NotMember} : OtherOwnerChanges(a, role)

MembersSpec == MembersInit /\ [][MembersNext]_membersVars

-----------------------------------------------------------------------------
MembersTypeOK ==
    LET ranks == GivenRoles \cup MenuRoles \cup {NotMember}
        emails == Addresses \cup {NoAddress}
    IN  /\ {roleOf, members} \subseteq [Addresses -> ranks] /\ registered \subseteq Addresses
        /\ selectedMember \in [who : emails, role : ranks]
        /\ memberLists \subseteq [nr : 0 .. MemberSteps, st : {"asked", "read"}, rows : [Addresses -> ranks]]
        /\ memberCalls \subseteq [op : {"role", "remove"}, who : Addresses, role : ranks,
                                  st : {"sent", "done", "refused"}, nr : 0 .. MemberSteps]
        /\ addMemberForm \in [email : emails, role : GivenRoles, details : {"absent", "empty", "filled"}]
        /\ adding \in [st : {"idle", "search", "add", "invite", "added", "refused"}, email : emails,
                        role : GivenRoles]
        /\ addingMember = (adding.st # "idle")
        /\ {showAddForm, showRegisterFields, muddled} \subseteq BOOLEAN
        /\ pressed \in emails \X GivenRoles /\ memberSteps \in 0 .. MemberSteps

(* Whoever the form is adding, in the one request or in the two, gets the  *)
(* role that stood beside that very address when its button was pressed,   *)
(* whatever is typed while the requests are answered.                      *)
AddedAsPressed == adding.st # "idle" => <<adding.email, adding.role>> = pressed

(* With nothing under way the table shows the members and their roles:     *)
(* unless two lists overlapped, a request failed, or another owner was at  *)
(* work.                                                                   *)
TableShowsMembers == ~muddled /\ memberLists = {} /\ memberCalls = {} /\ ~addingMember => members = roleOf
=============================================================================
