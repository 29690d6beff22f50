--------------------------- MODULE RetentionPolicy ---------------------------
(***************************************************************************)
(* The settings row of one workspace, which three services read, change    *)
(* and save as a whole, and the daily purge of its files and of the chunks *)
(* of its documents, which reads the row again for every item.             *)
(***************************************************************************)
EXTENDS Naturals

CONSTANTS Items,         \* files and documents
          KindOf,        \* "file" or "text", of each item
          DefaultDays,   \* the row's defaults, of each kind
          Days,          \* bound: days that updates ask for
          Writers,       \* requests on the settings, each used once
          RetentionFaults \* bound: storage and database failures

Kinds2 == {"file", "text"}

ASSUME RetentionAssumption ==
    /\ KindOf \in [Items -> Kinds2] /\ DefaultDays \in [Kinds2 -> Nat \ {0}]
    /\ Days \subseteq Nat /\ RetentionFaults \in Nat

VARIABLES settings,  \* the row, or NoSettings
          writer,    \* the requests on it
          item,      \* of each item: age in days, whether its row (a document:
                     \* its chunks) and its object in the storage exist
          cleaning,  \* the purge: items left, and the one found expired
          acked,     \* history: the row as acknowledged updates made it
          retentionFaults

retentionVars == <<settings, writer, item, cleaning, acked, retentionFaults>>

NoSettings == [days |-> DefaultDays, override |-> [k \in Kinds2 |-> 0], noLogs |-> FALSE, exists |-> FALSE]
DefaultSettings == [NoSettings EXCEPT !.exists = TRUE]
NoWriter == [pc |-> "idle", change |-> "get", kind |-> "file", days |-> 0, loaded |-> NoSettings,
           stale |-> FALSE]
Answered(w) == [NoWriter EXCEPT !.pc = "done", !.stale = w.stale]
Idle == [todo |-> {}, expired |-> {}]
LastDay == CHOOSE d \in Days \cup {DefaultDays[k] : k \in Kinds2} :
               \A e \in Days \cup {DefaultDays[k] : k \in Kinds2} : e <= d

RetentionInit ==
    /\ settings \in {NoSettings, DefaultSettings} /\ acked = DefaultSettings
    /\ writer = [w \in Writers |-> NoWriter]
    /\ item = [i \in Items |-> [age |-> 0, row |-> TRUE, object |-> KindOf[i] = "file"]]
    /\ cleaning = Idle /\ retentionFaults = 0

-----------------------------------------------------------------------------
\* A request has passed validation and reads the row. The limits on default
\* days reject 0; overrides are not validated.
LoadSettings(w) ==
    /\ writer[w].pc = "idle"
    /\ \E change \in {"get", "days", "override", "noLogs"}, kind \in Kinds2, days \in Days :
           /\ change = "days" => days > 0
           /\ change \in {"get", "noLogs"} => kind = "file" /\ days = LastDay
           /\ writer' = [writer EXCEPT ![w] = [pc |-> "save", change |-> change, kind |-> kind,
                                               days |-> days, loaded |-> settings, stale |-> FALSE]]
    /\ UNCHANGED <<settings, item, cleaning, acked, retentionFaults>>

Changed(row, w) ==
    CASE w.change = "days" -> [row EXCEPT !.days[w.kind] = w.days]
      [] w.change = "override" -> [row EXCEPT !.override[w.kind] = w.days]
      [] w.change = "noLogs" -> [row EXCEPT !.noLogs = ~row.noLogs]
      [] OTHER -> row

\* save() of the row as it was read: what others saved since is undone. A row
\* created since is a unique violation: the request fails. getSettings only
\* saves a row it has not found.
SaveSettings(w) ==
    LET a == writer[w] IN
    /\ a.pc = "save"
    /\ IF (a.loaded.exists /\ a.change = "get") \/ (~a.loaded.exists /\ settings.exists)
       THEN /\ writer' = [writer EXCEPT ![w] = [Answered(a) EXCEPT !.stale = FALSE]] /\ UNCHANGED <<settings, acked>>
       ELSE /\ settings' = Changed([a.loaded EXCEPT !.exists = TRUE], a)
            /\ acked' = Changed(acked, a)
            /\ writer' = [v \in Writers |->
                   IF v = w THEN Answered(a)
                   ELSE IF writer[v].pc = "save" THEN [writer[v] EXCEPT !.stale = TRUE] ELSE writer[v]]
    /\ UNCHANGED <<item, cleaning, retentionFaults>>

-----------------------------------------------------------------------------
\* An override of 0 counts as none (||).
DaysKept(row, kind) == IF row.override[kind] # 0 THEN row.override[kind] ELSE row.days[kind]

\* The cron job starts when the last run is over; it takes the files, then
\* the documents, as they are listed at that moment.
StartCleaning ==
    /\ cleaning = Idle /\ \E i \in Items : item[i].row
    /\ cleaning' = [Idle EXCEPT !.todo = {i \in Items : item[i].row}]
    /\ UNCHANGED <<settings, writer, item, acked, retentionFaults>>

\* Mutant: an item expires a day early.
MutantJudgeItem(i) ==
    /\ i \in cleaning.todo /\ cleaning.expired = {}
    /\ KindOf[i] = "text" => \A j \in cleaning.todo : KindOf[j] = "text"
    /\ settings' = [settings EXCEPT !.exists = TRUE]
    /\ cleaning' = [todo |-> cleaning.todo \ {i},
                    expired |-> IF item[i].age + 1 >= DaysKept(settings, KindOf[i]) THEN {i} ELSE {}]
    /\ UNCHANGED <<writer, item, acked, retentionFaults>>

\* getRetentionConfig creates a missing row; isFileExpired, isTextExpired.
JudgeItem(i) ==
    /\ i \in cleaning.todo /\ cleaning.expired = {}
    /\ KindOf[i] = "text" => \A j \in cleaning.todo : KindOf[j] = "text"
    /\ settings' = [settings EXCEPT !.exists = TRUE]
    /\ cleaning' = [todo |-> cleaning.todo \ {i},
                    expired |-> IF item[i].age >= DaysKept(settings, KindOf[i]) THEN {i} ELSE {}]
    /\ UNCHANGED <<writer, item, acked, retentionFaults>>

\* A database error is counted and the run goes on with the next item.
SkipItem(i) ==
    /\ i \in cleaning.todo \cup cleaning.expired /\ retentionFaults < RetentionFaults
    /\ cleaning' = [todo |-> cleaning.todo \ {i}, expired |-> cleaning.expired \ {i}]
    /\ retentionFaults' = retentionFaults + 1
    /\ UNCHANGED <<settings, writer, item, acked>>

\* The object goes first; an error of the storage is only logged.
RemoveObject(i) ==
    /\ i \in cleaning.expired /\ item[i].object
    /\ item' = [item EXCEPT ![i].object = FALSE]
    /\ UNCHANGED <<settings, writer, cleaning, acked, retentionFaults>>
RemoveRow(i) ==
    /\ i \in cleaning.expired
    /\ IF item[i].object THEN /\ retentionFaults < RetentionFaults
                              /\ retentionFaults' = retentionFaults + 1
       ELSE UNCHANGED retentionFaults
    /\ item' = [item EXCEPT ![i].row = FALSE]
    /\ cleaning' = [cleaning EXCEPT !.expired = {}]
    /\ UNCHANGED <<settings, writer, acked>>

CleaningStep ==
    \/ StartCleaning
    \/ \E i \in Items : JudgeItem(i) \/ RemoveObject(i) \/ (~item[i].object /\ RemoveRow(i))

\* A day passes between two runs, or before this one is over. Ages above
\* every policy are all alike.
NextDay ==
    /\ \E i \in Items : item[i].row /\ item[i].age <= LastDay
    /\ item' = [i \in Items |-> [item[i] EXCEPT !.age = IF @ > LastDay \/ ~item[i].row THEN @ ELSE @ + 1]]
    /\ UNCHANGED <<settings, writer, cleaning, acked, retentionFaults>>

RetentionNext ==
    \/ \E w \in Writers : LoadSettings(w) \/ SaveSettings(w)
    \/ CleaningStep
    \/ \E i \in Items : SkipItem(i) \/ (item[i].object /\ RemoveRow(i))
    \/ NextDay

(* The scheduler runs the purge every day, and a run ends. *)
RetentionFairness == WF_retentionVars(CleaningStep)
RetentionSpec == RetentionInit /\ [][RetentionNext]_retentionVars /\ RetentionFairness

-----------------------------------------------------------------------------
SettingsRows == [days : [Kinds2 -> Nat], override : [Kinds2 -> Nat], noLogs : BOOLEAN, exists : BOOLEAN]
RetentionTypeOK ==
    /\ settings \in SettingsRows /\ acked \in SettingsRows
    /\ \A w \in Writers : writer[w].pc \in {"idle", "save", "done"} /\ writer[w].loaded \in SettingsRows
    /\ item \in [Items -> [age : 0 .. LastDay + 1, row : BOOLEAN, object : BOOLEAN]]
    /\ cleaning \in [todo : SUBSET Items, expired : SUBSET Items]
    /\ retentionFaults \in 0 .. RetentionFaults

(* The purge finds expired only what is older than every update that was   *)
(* answered keeps it, unless one of the updates was saved from a row that  *)
(* another one had changed since.                                          *)
PolicyIsHonoured ==
    [][\A i \in Items :
           i \in cleaning'.expired \ cleaning.expired /\ (\A w \in Writers : ~writer[w].stale)
               => item[i].age >= DaysKept(acked, KindOf[i])]_retentionVars

Overdue(i) == item[i].row /\ item[i].age > LastDay

(* All that is older than every policy is in the end removed by the daily  *)
(* run, whatever failed before.                                            *)
ExpiredIsPurged == (\E i \in Items : Overdue(i)) ~> \A i \in Items : ~Overdue(i)

(* The policy removes no more than it says, and in the end no less.        *)
PolicyIsCarriedOut == PolicyIsHonoured /\ ExpiredIsPurged
=============================================================================
