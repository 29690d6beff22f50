------------------------------ MODULE Accounts ------------------------------
(***************************************************************************)
(* Accounts, at the server and in the browser.  First the users table:     *)
(* registrations and invitations of one address in its spellings, the      *)
(* superadmin every instance makes when it starts, and the deletion of an  *)
(* account with what belongs to it.  Then the browser's tab, which shares  *)
(* no variable with the table.                                             *)
(***************************************************************************)
EXTENDS Naturals, FiniteSets

CONSTANTS Spellings,    \* of one address
          Normal,       \* the one that is trimmed and in lower case
          Passwords,
          AccountCalls  \* bound: requests and starts in one behaviour

ASSUME AccountAssumption == Normal \in Spellings /\ AccountCalls \in Nat

VARIABLES users,        \* rows
          creating,     \* register, createUserOnly, ensureSuperadmin under way
          removing,     \* account deletions under way
          belongings,   \* avatar and storage configuration of each id
          uploading,    \* avatars on their way
          envPassword,  \* SUPERADMIN_PASSWORD
          confirmed,    \* history: rows a caller was told of
          asked,        \* history: ids whose deletion was asked
          raced,        \* history: two starts ran beside each other
          late,         \* history: ids with an avatar on its way when deleted
          accountCalls

accountVars == <<users, creating, removing, belongings, uploading, envPassword, confirmed, asked,
                 raced, late, accountCalls>>

Root == "root"
Emails == Spellings \cup {Root}
Ids == 1 .. AccountCalls
Nobody == [id |-> 0, email |-> Normal, password |-> "", isActive |-> FALSE]
ASSUME RootAssumption == Root \notin Spellings

Normalized(email) == IF email \in Spellings THEN Normal ELSE email
WithEmail(email) == {u \in users : u.email = email}
WithId(id) == {u \in users : u.id = id}

\* validateUser, for whichever row is found.
LogsIn(email, password) ==
    LET found == WithEmail(Normalized(email))
    IN  found # {} /\ \A u \in found : u.isActive /\ u.password = password

AccountsInit ==
    /\ users = {} /\ creating = {} /\ removing = {} /\ belongings = {} /\ uploading = {}
    /\ envPassword \in Passwords
    /\ confirmed = {} /\ asked = {} /\ raced = FALSE /\ late = {} /\ accountCalls = 0

-----------------------------------------------------------------------------
(* Users made.                                                             *)
Begin(op, email, password) ==
    /\ accountCalls < AccountCalls /\ accountCalls' = accountCalls + 1
    /\ creating' = creating \cup {[id |-> accountCalls', op |-> op, email |-> email,
                                   password |-> password, st |-> "find", seen |-> Nobody]}
    /\ UNCHANGED <<users, removing, belongings, uploading, confirmed, asked, late>>

\* register keeps the address as it was typed, createUserOnly does not.
Register(email, password) == Begin("register", email, password) /\ UNCHANGED <<envPassword, raced>>
CreateUserOnly(password) == Begin("invite", Normal, password) /\ UNCHANGED <<envPassword, raced>>

\* An instance starts, with the environment of its time.
OnModuleInit(password) ==
    /\ envPassword' = password
    /\ raced' = (raced \/ \E c \in creating : c.op = "start")
    /\ Begin("start", Root, password)

FindUser(c) ==
    /\ c.st = "find"
    /\ LET found == WithEmail(c.email)
       IN  creating' = (creating \ {c}) \cup
               {[c EXCEPT !.st = IF found = {} THEN "hash" ELSE "sync", !.seen = u] :
                   u \in IF found = {} THEN {Nobody} ELSE IF c.op = "start" THEN found ELSE {}}
    /\ UNCHANGED <<users, removing, belongings, uploading, envPassword, confirmed, asked, raced, late,
                   accountCalls>>

\* The unique e-mail of the table.
Insertable(email) == WithEmail(email) = {}

\* save() of a new row; a start that comes second takes the row there is.
CreateUser(c) ==
    LET u == [id |-> c.id, email |-> c.email, password |-> c.password, isActive |-> TRUE]
    IN  /\ c.st = "hash"
        /\ creating' = creating \ {c}
        /\ IF Insertable(c.email)
           THEN users' = users \cup {u} /\ confirmed' = confirmed \cup {u}
           ELSE UNCHANGED <<users, confirmed>>
        /\ UNCHANGED <<removing, belongings, uploading, envPassword, asked, raced, late, accountCalls>>

\* Mutant: the password is that of the first start.
MutantSynced(c) == c.seen

Synced(c) == [c.seen EXCEPT !.password = c.password]

\* save() of the row as it was found, with the password of the environment: a
\* row deleted since is inserted again, unless another has the address.
SyncPassword(c) ==
    /\ c.st = "sync"
    /\ creating' = creating \ {c}
    /\ LET rest == users \ WithId(c.seen.id)
       IN  users' = IF \E u \in rest : u.email = c.seen.email THEN users ELSE rest \cup {Synced(c)}
    /\ UNCHANGED <<removing, belongings, uploading, envPassword, confirmed, asked, raced, late,
                   accountCalls>>

-----------------------------------------------------------------------------
(* Accounts deleted: the avatar, the configuration, then the user.         *)
\* The request is authenticated now and stored later; only the configuration
\* has a foreign key.
UploadAvatar(u) ==
    /\ u.isActive /\ u.id \notin uploading
    /\ uploading' = uploading \cup {u.id}
    /\ UNCHANGED <<users, creating, removing, belongings, envPassword, confirmed, asked, raced, late,
                   accountCalls>>

AvatarStored(id) ==
    /\ id \in uploading
    /\ uploading' = uploading \ {id}
    /\ belongings' = belongings \cup {<<id, "avatar">>}
    /\ late' = late \cup (asked \cap {id})
    /\ UNCHANGED <<users, creating, removing, envPassword, confirmed, asked, raced, accountCalls>>

UpdateStorage(u) ==
    /\ u.isActive
    /\ belongings' = belongings \cup {<<u.id, "storage">>}
    /\ UNCHANGED <<users, creating, removing, uploading, envPassword, confirmed, asked, raced, late,
                   accountCalls>>

DeleteAccount(u) ==
    /\ u.isActive /\ ~\E r \in removing : r.id = u.id
    /\ removing' = removing \cup {[id |-> u.id, st |-> "avatar", seen |-> u]}
    /\ asked' = asked \cup {u.id}
    /\ UNCHANGED <<users, creating, belongings, uploading, envPassword, confirmed, raced, late,
                   accountCalls>>

Goes(r, st) == removing' = (removing \ {r}) \cup {[r EXCEPT !.st = st]}

DeleteBelonging(r) ==
    /\ \/ r.st = "avatar" /\ Goes(r, "storage")
       \/ r.st = "storage" /\ Goes(r, "find")
    /\ belongings' = belongings \ {<<r.id, r.st>>}
    /\ UNCHANGED <<users, creating, uploading, envPassword, confirmed, asked, raced, late, accountCalls>>

\* A user who is gone already is no error.
FindDeleted(r) ==
    /\ r.st = "find"
    /\ removing' = (removing \ {r}) \cup {[r EXCEPT !.st = "decide", !.seen = u] : u \in WithId(r.id)}
    /\ UNCHANGED <<users, creating, belongings, uploading, envPassword, confirmed, asked, raced, late,
                   accountCalls>>

\* The only owner of a workspace is deactivated instead, and told so by an
\* error; another is removed, and the configuration with the row.
Decide(r, onlyOwner) ==
    /\ r.st = "decide"
    /\ removing' = removing \ {r}
    /\ users' = (users \ WithId(r.id))
                \cup (IF onlyOwner THEN {[r.seen EXCEPT !.isActive = FALSE]} ELSE {})
    /\ belongings' = IF onlyOwner THEN belongings ELSE belongings \ {<<r.id, "storage">>}
    /\ late' = IF r.id \in uploading THEN late \cup {r.id} ELSE late
    /\ UNCHANGED <<creating, uploading, envPassword, confirmed, asked, raced, accountCalls>>

AccountsNext ==
    \/ \E password \in Passwords :
           \/ \E email \in Spellings : Register(email, password)
           \/ CreateUserOnly(password) \/ OnModuleInit(password)
    \/ \E c \in creating : FindUser(c) \/ CreateUser(c) \/ SyncPassword(c)
    \/ \E u \in users : UploadAvatar(u) \/ UpdateStorage(u) \/ DeleteAccount(u)
    \/ \E id \in uploading : AvatarStored(id)
    \/ \E r \in removing :
           DeleteBelonging(r) \/ FindDeleted(r) \/ \E onlyOwner \in BOOLEAN : Decide(r, onlyOwner)

AccountsSpec == AccountsInit /\ [][AccountsNext]_accountVars

-----------------------------------------------------------------------------
AccountsTypeOK ==
    LET rows == [id : Ids, email : Emails, password : Passwords, isActive : BOOLEAN]
    IN  /\ users \subseteq rows /\ confirmed \subseteq rows
        /\ creating \subseteq [id : Ids, op : {"register", "invite", "start"}, email : Emails,
                               password : Passwords, st : {"find", "hash", "sync"}, seen : rows \cup {Nobody}]
        /\ removing \subseteq [id : Ids, st : {"avatar", "storage", "find", "decide"}, seen : rows]
        /\ belongings \subseteq Ids \X {"avatar", "storage"}
        /\ uploading \cup asked \cup late \subseteq Ids
        /\ envPassword \in Passwords /\ raced \in BOOLEAN /\ accountCalls \in 0 .. AccountCalls

(* Whoever was registered under the normal spelling, by himself or by an   *)
(* invitation, and has not asked to be deleted, logs in with the password  *)
(* given then, however registrations of the address raced.                 *)
RegisteredStays ==
    \A u \in confirmed :
        u.email = Normal /\ u.id \notin asked => LogsIn(u.email, u.password)

(* Once every instance has started, the superadmin logs in with the        *)
(* password of the last start, unless two starts ran beside each other or  *)
(* that account was to be deleted.                                         *)
RestartSetsPassword ==
    LET started == \E u \in users : u.email = Root
    IN  started /\ ~raced /\ ~(\E c \in creating : c.op = "start")
        /\ ~(\E u \in confirmed : u.email = Root /\ u.id \in asked)
            => LogsIn(Root, envPassword)

(* Nothing belongs to a user who is gone, unless an avatar was on its way  *)
(* while the deletion ran.                                                 *)
GoneLeavesNothing ==
    \A u \in confirmed :
        WithId(u.id) = {} /\ u.id \notin late \cup uploading => ~\E t \in belongings : t[1] = u.id

-----------------------------------------------------------------------------
(***************************************************************************)
(* Who is signed in, as one browser tab keeps it: the token and the user   *)
(* in localStorage, the user that is shown, the settings page with its own *)
(* copy, and the object URLs of avatars.  Answers come to whoever is       *)
(* signed in by then, and to a page that may have been left.               *)
(***************************************************************************)

CONSTANTS Persons,
          Choices,       \* similarity thresholds of the answer cache
          Blobs,         \* bound: object URLs made
          AccountSteps   \* bound: sign-ins, pages opened, requests of the user

ASSUME ClientAccountAssumption == AccountSteps \in Nat /\ Choices # {}

VARIABLES profiles,      \* external: what the server has of each person
          token, storedUser, \* localStorage
          currentUser,
          requests,      \* of the account, under way: sent, answered
          downloads,     \* avatars for the sidebar and for the page
          blob,          \* each object URL: live or revoked
          sidebarBlob, pageBlob, \* avatarBlobUrl of both
          settingsPage,  \* the settings page that is open, 0 for none
          pageUser, chatPreferencesLoading, chatSaving,
          similarityThreshold,   \* chatForm
          picked,        \* history: what the user chose since the form was shown
          twice,         \* history: preferences were being loaded twice
          tardy,         \* history: an answer came to another than who asked
          abandoned,     \* history: an avatar came to a page that was gone
          wrong,         \* history: other than the choice was saved
          accountSteps

formState == <<pageUser, chatPreferencesLoading, chatSaving, similarityThreshold, picked>>
clientAccountVars == <<profiles, token, storedUser, currentUser, requests, downloads, blob, sidebarBlob,
                       pageBlob, settingsPage, formState, twice, tardy, abandoned, wrong, accountSteps>>

NoOne == "no one"
NoUser == [id |-> NoOne, custom |-> FALSE]
NoBlob == 0
NoPage == 0
NoChoice == "no choice"
ASSUME ClientNames == NoOne \notin Persons /\ NoBlob \notin Blobs /\ NoChoice \notin Choices

User(p) == [id |-> p, custom |-> profiles[p].custom]

ClientAccountInit ==
    /\ profiles \in [Persons -> [custom : BOOLEAN, threshold : {CHOOSE c \in Choices : TRUE}]]
    /\ token = NoOne /\ storedUser = NoUser /\ currentUser = NoUser
    /\ requests = {} /\ downloads = {}
    /\ blob = [b \in Blobs |-> "unmade"] /\ sidebarBlob = NoBlob /\ pageBlob = NoBlob
    /\ settingsPage = NoPage /\ pageUser = NoUser /\ chatPreferencesLoading = FALSE /\ chatSaving = FALSE
    /\ similarityThreshold = NoChoice /\ picked = NoChoice
    /\ twice = FALSE /\ tardy = FALSE /\ abandoned = FALSE /\ wrong = FALSE /\ accountSteps = 0

AccountStep == accountSteps < AccountSteps /\ accountSteps' = accountSteps + 1

Asking(op, page) == [nr |-> accountSteps', op |-> op, by |-> token', page |-> page, st |-> "sent",
                     seen |-> NoUser, value |-> similarityThreshold]
Loading == {r \in requests : r.op = "load"}

\* A page that is gone takes no preferences; its other answers still count.
WithoutLoads == requests \ Loading

\* The effect of the sidebar, run for every user it is given: the download
\* before it is cancelled, the object URL revoked.
Shown(user, others) ==
    /\ currentUser' = user
    /\ sidebarBlob' = NoBlob
    /\ downloads' = {d \in others : d.for # "sidebar"}
                    \cup (IF user.custom THEN {[for |-> "sidebar", page |-> NoPage, nr |-> 0]} ELSE {})

Revoked(held) == [b \in Blobs |-> IF b \in held THEN "revoked" ELSE blob[b]]

-----------------------------------------------------------------------------
(* The session.                                                            *)
\* login, register
Login(p) ==
    /\ token = NoOne /\ AccountStep
    /\ token' = p /\ storedUser' = User(p)
    /\ Shown(User(p), downloads) /\ blob' = Revoked({sidebarBlob})
    /\ UNCHANGED <<profiles, requests, pageBlob, settingsPage, formState, twice, tardy, abandoned, wrong>>

\* The requests under way go on, those of the page too.
Logout ==
    /\ token # NoOne
    /\ token' = NoOne /\ storedUser' = NoUser
    /\ Shown(NoUser, downloads)
    /\ settingsPage' = NoPage /\ pageBlob' = NoBlob /\ blob' = Revoked({sidebarBlob, pageBlob})
    /\ requests' = WithoutLoads
    /\ UNCHANGED <<profiles, formState, twice, tardy, abandoned, wrong, accountSteps>>

\* The tab is loaded again: what it had is gone, localStorage is not. A token
\* that has expired is cleared, any other is asked about.
Reload(expired) ==
    /\ AccountStep
    /\ token' = IF expired THEN NoOne ELSE token
    /\ storedUser' = IF expired THEN NoUser ELSE storedUser
    /\ requests' = IF token' = NoOne THEN {} ELSE {Asking("refresh", NoPage)}
    /\ Shown(storedUser', {})
    /\ blob' = [b \in Blobs |-> IF blob[b] = "live" THEN "revoked" ELSE blob[b]]
    /\ pageBlob' = NoBlob /\ settingsPage' = NoPage
    /\ UNCHANGED <<profiles, formState, twice, tardy, abandoned, wrong>>

\* Who asked is who the server knows by the request's token.
Serve(r) ==
    /\ r.st = "sent"
    /\ profiles' = [profiles EXCEPT ![r.by] =
           CASE r.op = "upload" -> [@ EXCEPT !.custom = TRUE]
             [] r.op = "remove" -> [@ EXCEPT !.custom = FALSE]
             [] r.op = "save"   -> [@ EXCEPT !.threshold = r.value]
             [] OTHER -> @]
    /\ requests' = (requests \ {r}) \cup
           {[r EXCEPT !.st = "answered", !.seen = [id |-> r.by, custom |-> profiles'[r.by].custom],
                      !.value = profiles'[r.by].threshold]}
    /\ UNCHANGED <<token, storedUser, currentUser, downloads, blob, sidebarBlob, pageBlob, settingsPage,
                   formState, twice, tardy, abandoned, wrong, accountSteps>>

\* updateUser with the answer; the page that asked, open or not, then reloads
\* its avatar again if that was changed.
UserAnswers(r) ==
    LET here == settingsPage # NoPage /\ r.page = settingsPage
        reloads == r.op \in {"upload", "remove"}
        none == reloads /\ here /\ ~r.seen.custom
    IN  /\ r.st = "answered" /\ r.op # "load"
        /\ requests' = requests \ {r}
        /\ storedUser' = r.seen
        /\ pageUser' = IF here THEN r.seen ELSE pageUser
        /\ Shown(r.seen, downloads \cup {[for |-> "page", page |-> r.page, nr |-> n] :
                                           n \in IF reloads /\ r.seen.custom THEN {r.nr} ELSE {}})
        /\ blob' = Revoked({sidebarBlob} \cup (IF none THEN {pageBlob} ELSE {}))
        /\ pageBlob' = IF none THEN NoBlob ELSE pageBlob
        /\ chatSaving' = (chatSaving /\ ~(here /\ r.op = "save"))
        /\ tardy' = (tardy \/ r.by # token)
        /\ UNCHANGED <<profiles, token, settingsPage, chatPreferencesLoading, similarityThreshold, picked,
                       twice, abandoned, wrong, accountSteps>>

\* The request, its answer, or the look at the account after a removal.
RequestFails(r) ==
    /\ requests' = requests \ {r}
    /\ chatSaving' = (chatSaving /\ ~(r.page = settingsPage /\ r.op = "save"))
    /\ chatPreferencesLoading' = (chatPreferencesLoading /\ r.op # "load")
    /\ UNCHANGED <<profiles, token, storedUser, currentUser, downloads, blob, sidebarBlob, pageBlob,
                   settingsPage, pageUser, similarityThreshold, picked, twice, tardy, abandoned, wrong,
                   accountSteps>>

-----------------------------------------------------------------------------
(* The settings page.                                                      *)
OpenSettings ==
    /\ token # NoOne /\ settingsPage = NoPage /\ AccountStep
    /\ settingsPage' = accountSteps' /\ pageUser' = currentUser /\ chatPreferencesLoading' = TRUE /\ chatSaving' = FALSE
    /\ similarityThreshold' = NoChoice /\ picked' = NoChoice
    /\ UNCHANGED token
    /\ requests' = requests \cup {Asking("load", accountSteps')}
    /\ downloads' = downloads \cup {[for |-> "page", page |-> accountSteps', nr |-> n] :
                                       n \in IF currentUser.custom THEN {accountSteps'} ELSE {}}
    /\ twice' = FALSE
    /\ UNCHANGED <<profiles, storedUser, currentUser, blob, sidebarBlob, pageBlob, tardy, abandoned, wrong>>

LeaveSettings ==
    /\ settingsPage # NoPage
    /\ settingsPage' = NoPage /\ pageBlob' = NoBlob /\ blob' = Revoked({pageBlob})
    /\ requests' = WithoutLoads
    /\ UNCHANGED <<profiles, token, storedUser, currentUser, downloads, sidebarBlob, formState, twice,
                   tardy, abandoned, wrong, accountSteps>>

\* setActiveTab, whatever is being loaded already.
SelectChatTab ==
    /\ settingsPage # NoPage /\ AccountStep
    /\ chatPreferencesLoading' = TRUE /\ picked' = NoChoice
    /\ UNCHANGED token
    /\ requests' = requests \cup {Asking("load", settingsPage)}
    /\ twice' = (twice \/ Loading # {})
    /\ UNCHANGED <<profiles, storedUser, currentUser, downloads, blob, sidebarBlob, pageBlob, settingsPage,
                   pageUser, chatSaving, similarityThreshold, tardy, abandoned, wrong>>

PreferencesLoaded(r) ==
    /\ r.st = "answered" /\ r.op = "load"
    /\ requests' = requests \ {r}
    /\ similarityThreshold' = r.value /\ chatPreferencesLoading' = FALSE
    /\ UNCHANGED <<profiles, token, storedUser, currentUser, downloads, blob, sidebarBlob, pageBlob,
                   settingsPage, pageUser, chatSaving, picked, twice, tardy, abandoned, wrong, accountSteps>>

Choose(c) ==
    /\ settingsPage # NoPage /\ ~chatPreferencesLoading
    /\ similarityThreshold' = c /\ picked' = c
    /\ UNCHANGED <<profiles, token, storedUser, currentUser, requests, downloads, blob, sidebarBlob,
                   pageBlob, settingsPage, pageUser, chatPreferencesLoading, chatSaving, twice, tardy, abandoned,
                   wrong, accountSteps>>

SaveChatPreferences ==
    /\ settingsPage # NoPage /\ ~chatPreferencesLoading /\ ~chatSaving /\ similarityThreshold # NoChoice
    /\ AccountStep
    /\ chatSaving' = TRUE
    /\ UNCHANGED token
    /\ requests' = requests \cup {Asking("save", settingsPage)}
    /\ wrong' = (wrong \/ (~twice /\ picked \notin {NoChoice, similarityThreshold}))
    /\ UNCHANGED <<profiles, storedUser, currentUser, downloads, blob, sidebarBlob, pageBlob, settingsPage,
                   pageUser, chatPreferencesLoading, similarityThreshold, picked, twice, tardy, abandoned>>

\* onAvatarFileSelected, removeAvatar: each waits for the last of its kind.
ChangeAvatar(op) ==
    /\ settingsPage # NoPage /\ ~\E r \in requests : r.op = op /\ r.page = settingsPage
    /\ op = "remove" => pageUser.custom
    /\ AccountStep /\ UNCHANGED token
    /\ requests' = requests \cup {Asking(op, settingsPage)}
    /\ UNCHANGED <<profiles, storedUser, currentUser, downloads, blob, sidebarBlob, pageBlob, settingsPage,
                   formState, twice, tardy, abandoned, wrong>>

-----------------------------------------------------------------------------
(* The avatar's object URLs.                                               *)
\* A page takes its avatar when it is gone, too.
TakesUrl(d, b) ==
    IF d.for = "sidebar"
    THEN /\ blob' = [Revoked({sidebarBlob}) EXCEPT ![b] = "live"]
         /\ sidebarBlob' = b /\ UNCHANGED <<pageBlob, abandoned>>
    ELSE IF d.page = settingsPage
    THEN /\ blob' = [Revoked({pageBlob}) EXCEPT ![b] = "live"]
         /\ pageBlob' = b /\ UNCHANGED <<sidebarBlob, abandoned>>
    ELSE /\ blob' = [blob EXCEPT ![b] = "live"]
         /\ abandoned' = TRUE /\ UNCHANGED <<sidebarBlob, pageBlob>>

AvatarLoaded(d, b) ==
    /\ d \in downloads /\ blob[b] = "unmade"
    /\ downloads' = downloads \ {d}
    /\ TakesUrl(d, b)
    /\ UNCHANGED <<profiles, token, storedUser, currentUser, requests, settingsPage, formState, twice,
                   tardy, wrong, accountSteps>>

\* catchError: no avatar.
AvatarFails(d) ==
    /\ d \in downloads
    /\ downloads' = downloads \ {d}
    /\ IF d.for = "sidebar"
       THEN blob' = Revoked({sidebarBlob}) /\ sidebarBlob' = NoBlob /\ UNCHANGED pageBlob
       ELSE IF d.page = settingsPage
       THEN blob' = Revoked({pageBlob}) /\ pageBlob' = NoBlob /\ UNCHANGED sidebarBlob
       ELSE UNCHANGED <<blob, sidebarBlob, pageBlob>>
    /\ UNCHANGED <<profiles, token, storedUser, currentUser, requests, settingsPage, formState, twice,
                   tardy, abandoned, wrong, accountSteps>>

ClientAccountNext ==
    \/ \E p \in Persons : Login(p)
    \/ Logout \/ \E expired \in BOOLEAN : Reload(expired)
    \/ \E r \in requests : Serve(r) \/ UserAnswers(r) \/ RequestFails(r) \/ PreferencesLoaded(r)
    \/ OpenSettings \/ LeaveSettings \/ SelectChatTab \/ SaveChatPreferences
    \/ \E c \in Choices : Choose(c)
    \/ \E op \in {"upload", "remove"} : ChangeAvatar(op)
    \/ \E d \in downloads : AvatarFails(d) \/ \E b \in Blobs : AvatarLoaded(d, b)

ClientAccountSpec == ClientAccountInit /\ [][ClientAccountNext]_clientAccountVars

-----------------------------------------------------------------------------
Held == {sidebarBlob, pageBlob} \ {NoBlob}
Alive == {b \in Blobs : blob[b] = "live"}

ClientAccountTypeOK ==
    LET someone == [id : Persons \cup {NoOne}, custom : BOOLEAN]
    IN  /\ profiles \in [Persons -> [custom : BOOLEAN, threshold : Choices]]
        /\ token \in Persons \cup {NoOne} /\ {storedUser, currentUser} \subseteq someone
        /\ requests \subseteq [nr : 1 .. AccountSteps, op : {"refresh", "upload", "remove", "save", "load"},
                               by : Persons,
                               page : 0 .. AccountSteps, st : {"sent", "answered"}, seen : someone,
                               value : Choices \cup {NoChoice}]
        /\ downloads \subseteq [for : {"sidebar", "page"}, page : 0 .. AccountSteps, nr : 0 .. AccountSteps]
        /\ blob \in [Blobs -> {"unmade", "live", "revoked"}]
        /\ {sidebarBlob, pageBlob} \subseteq Blobs \cup {NoBlob}
        /\ settingsPage \in 0 .. AccountSteps /\ pageUser \in someone
        /\ {chatPreferencesLoading, chatSaving, twice, tardy, abandoned, wrong} \subseteq BOOLEAN
        /\ {similarityThreshold, picked} \subseteq Choices \cup {NoChoice}
        /\ accountSteps \in 0 .. AccountSteps

(* The user who is shown, in the tab and in its storage, is the one whose  *)
(* token its requests carry, and nobody is shown without a token: unless   *)
(* an answer came after its caller had signed out.                         *)
ShownIsSignedIn == ~tardy => currentUser.id = token /\ storedUser.id = token

(* Every avatar's object URL that is alive is one the sidebar or the page  *)
(* holds, so that its next load or its end revokes it: unless an avatar    *)
(* came to a page that had been left.                                      *)
AvatarsAreHeld == ~abandoned => Alive \subseteq Held

(* What a save of the preferences sends is what the user chose since the   *)
(* form was shown, unless the preferences were being loaded twice.         *)
ChoiceIsSaved == ~wrong
=============================================================================
