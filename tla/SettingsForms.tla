--------------------------- MODULE SettingsForms ----------------------------
(***************************************************************************)
(* The forms of the settings that save by themselves.  First the tabs of a *)
(* workspace's settings: a choice is shown and sent at once, the plan of a *)
(* provider shown as the answer says, an API key sent by its button and    *)
(* then everything loaded again.  The server reads the whole row, changes a*)
(* field, saves the whole row and answers with the row it reads then.      *)
(* Then the editors of prompts, which share no variable with the tabs.     *)
(***************************************************************************)
EXTENDS Naturals

CONSTANTS Keys,          \* providers that need an API key
          SettingSteps   \* bound: presses of the user, failures

ASSUME SettingsAssumption == SettingSteps \in Nat

VARIABLES tab,           \* "voice" or "parsers"
          settingsRow,   \* external: the settings row, a bit for each field
          shownSettings, \* the signals of the tab
          settingUpdates,\* updateWorkspaceSettings under way
          settingLoads,  \* load under way
          loadingTab,    \* loading: no control is there
          savingKey,     \* the key whose button is held
          lastSaved,     \* history: the newest update saved, of each field
          crossing,      \* history: requests met in a way that ShownIsStored names
          settingSteps

settingsVars == <<tab, settingsRow, shownSettings, settingUpdates, settingLoads, loadingTab, savingKey, lastSaved,
                  crossing, settingSteps>>

\* A preferred provider, parser, or response mode; the plan of a provider.
Fields == {"choice", "plan"} \cup Keys
NoKey == "none"
ASSUME KeyNames == NoKey \notin Keys /\ {"choice", "plan"} \cap Keys = {}

Bits == [Fields -> BOOLEAN]
Unset == [f \in Fields |-> FALSE]

\* In the voice tab the spinner takes the place of the controls; in the parsers
\* tab it waits for the list of parsers, not for the settings.
Controls == tab = "parsers" \/ ~loadingTab

SettingsInit ==
    /\ tab \in {"voice", "parsers"}
    /\ settingsRow = Unset /\ shownSettings = Unset
    /\ settingUpdates = {} /\ settingLoads = {[nr |-> 0, st |-> "asked", rows |-> Unset]} /\ loadingTab = TRUE
    /\ savingKey = NoKey
    /\ lastSaved = [f \in Fields |-> 0] /\ crossing = FALSE /\ settingSteps = 0

SettingStep == settingSteps < SettingSteps /\ settingSteps' = settingSteps + 1

-----------------------------------------------------------------------------
(* The user.                                                               *)
SendUpdate(f, value) ==
    /\ Controls /\ SettingStep
    /\ settingUpdates' = settingUpdates \cup
           {[nr |-> settingSteps', field |-> f, value |-> value, st |-> "sent", rows |-> Unset]}
    /\ UNCHANGED <<tab, settingsRow, settingLoads, loadingTab, lastSaved>>

\* onPreferredProviderChange, onDefaultParserChange, onChatResponseModeChange:
\* the select may be changed again while it is being saved.
ChangeChoice ==
    /\ SendUpdate("choice", ~shownSettings["choice"])
    /\ shownSettings' = [shownSettings EXCEPT !["choice"] = ~@]
    /\ crossing' = (crossing \/ \E l \in settingLoads : TRUE)
    /\ UNCHANGED savingKey

\* onTtsProviderPlanChange, held while it is being saved.
ChangePlan ==
    /\ tab = "voice" /\ ~\E u \in settingUpdates : u.field = "plan"
    /\ SendUpdate("plan", ~shownSettings["plan"])
    /\ UNCHANGED <<shownSettings, savingKey, crossing>>

\* saveApiKey; one of them is held at a time, the last.
SaveApiKey(k, value) ==
    /\ k # savingKey
    /\ SendUpdate(k, value)
    /\ savingKey' = k
    /\ UNCHANGED <<shownSettings, crossing>>

-----------------------------------------------------------------------------
(* The server.                                                             *)
LoadSettingsRow(u) ==
    /\ u.st = "sent"
    /\ settingUpdates' = (settingUpdates \ {u}) \cup {[u EXCEPT !.st = "loaded", !.rows = settingsRow]}
    /\ UNCHANGED <<tab, settingsRow, shownSettings, settingLoads, loadingTab, savingKey, lastSaved, crossing,
                   settingSteps>>

SaveSettingsRow(u) ==
    /\ u.st = "loaded"
    /\ settingsRow' = [u.rows EXCEPT ![u.field] = u.value]
    /\ settingUpdates' = (settingUpdates \ {u}) \cup {[u EXCEPT !.st = "saved"]}
    /\ lastSaved' = [lastSaved EXCEPT ![u.field] = IF @ < u.nr THEN u.nr ELSE @]
    /\ crossing' = (crossing \/ u.rows # settingsRow \/ lastSaved[u.field] > u.nr)
    /\ UNCHANGED <<tab, shownSettings, settingLoads, loadingTab, savingKey, settingSteps>>

\* getSettings, for the answer to an update.
ReadAnswer(u) ==
    /\ u.st = "saved"
    /\ settingUpdates' = (settingUpdates \ {u}) \cup {[u EXCEPT !.st = "answered", !.rows = settingsRow]}
    /\ UNCHANGED <<tab, settingsRow, shownSettings, settingLoads, loadingTab, savingKey, lastSaved, crossing,
                   settingSteps>>

\* getSettings, for a load: an update of a choice may be on its way.
ReadSettings(l) ==
    /\ l.st = "asked"
    /\ settingLoads' = (settingLoads \ {l}) \cup {[l EXCEPT !.st = "read", !.rows = settingsRow]}
    /\ crossing' = (crossing \/ \E u \in settingUpdates : u.st \in {"sent", "loaded"} /\ u.field # "plan")
    /\ UNCHANGED <<tab, settingsRow, shownSettings, settingUpdates, loadingTab, savingKey, lastSaved, settingSteps>>

-----------------------------------------------------------------------------
(* The answers.                                                            *)
ChoiceSaved(u) ==
    /\ u.st = "answered" /\ u.field \in {"choice", "plan"}
    /\ settingUpdates' = settingUpdates \ {u}
    /\ shownSettings' = IF u.field = "plan" THEN [shownSettings EXCEPT !["plan"] = u.rows["plan"]] ELSE shownSettings
    /\ UNCHANGED <<tab, settingsRow, settingLoads, loadingTab, savingKey, lastSaved, crossing, settingSteps>>

\* The last key's button is released, whichever key was saved.
KeySaved(u) ==
    /\ u.st = "answered" /\ u.field \in Keys
    /\ settingUpdates' = settingUpdates \ {u} /\ savingKey' = NoKey
    /\ loadingTab' = TRUE
    /\ settingLoads' = settingLoads \cup {[nr |-> u.nr, st |-> "asked", rows |-> Unset]}
    /\ UNCHANGED <<tab, settingsRow, shownSettings, lastSaved, crossing, settingSteps>>

\* A load that is not the newest shows what it read all the same.
SettingsLoaded(l) ==
    /\ l.st = "read"
    /\ settingLoads' = settingLoads \ {l} /\ loadingTab' = FALSE
    /\ shownSettings' = l.rows
    /\ crossing' = (crossing \/ settingsRow # l.rows)
    /\ UNCHANGED <<tab, settingsRow, settingUpdates, savingKey, lastSaved, settingSteps>>

\* A choice that was refused is not taken back.
SettingsRequestFails(r) ==
    /\ SettingStep
    /\ settingUpdates' = settingUpdates \ {r} /\ settingLoads' = settingLoads \ {r}
    /\ loadingTab' = (loadingTab /\ r \notin settingLoads)
    /\ savingKey' = IF r \in settingUpdates /\ r.field \in Keys THEN NoKey ELSE savingKey
    /\ crossing' = TRUE
    /\ UNCHANGED <<tab, settingsRow, shownSettings, lastSaved>>

SettingsNext ==
    \/ ChangeChoice \/ ChangePlan
    \/ \E k \in Keys, value \in BOOLEAN : SaveApiKey(k, value)
    \/ \E u \in settingUpdates :
           \/ LoadSettingsRow(u) \/ SaveSettingsRow(u) \/ ReadAnswer(u)
           \/ ChoiceSaved(u) \/ KeySaved(u) \/ SettingsRequestFails(u)
    \/ \E l \in settingLoads : ReadSettings(l) \/ SettingsLoaded(l) \/ SettingsRequestFails(l)

SettingsSpec == SettingsInit /\ [][SettingsNext]_settingsVars

-----------------------------------------------------------------------------
SettingsFormsTypeOK ==
    /\ tab \in {"voice", "parsers"} /\ {settingsRow, shownSettings} \subseteq Bits
    /\ settingUpdates \subseteq [nr : 1 .. SettingSteps, field : Fields, value : BOOLEAN,
                          st : {"sent", "loaded", "saved", "answered"}, rows : Bits]
    /\ settingLoads \subseteq [nr : 0 .. SettingSteps, st : {"asked", "read"}, rows : Bits]
    /\ {loadingTab, crossing} \subseteq BOOLEAN /\ savingKey \in Keys \cup {NoKey}
    /\ lastSaved \in [Fields -> 0 .. SettingSteps] /\ settingSteps \in 0 .. SettingSteps

(* With nothing under way a tab shows what the row holds, keys and choices *)
(* alike: unless a request failed, an update saved a row another had       *)
(* changed since it read it or came after a newer one of its field, or a   *)
(* load met a choice on its way.                                           *)
ShownIsStored == settingUpdates = {} /\ settingLoads = {} /\ ~crossing => shownSettings = settingsRow

-----------------------------------------------------------------------------
(***************************************************************************)
(* The editors of prompts.  A document's shows several, saves or resets    *)
(* each by its button and then reloads a resource, whose value fills every *)
(* field again; a workspace's or an account's shows one, which a save puts *)
(* in place by itself and a reset loads again.  Both have a switch that    *)
(* saves at once.                                                          *)
(***************************************************************************)

CONSTANTS PromptKeys,    \* of one document
          Wordings,      \* texts that are typed
          EditorSteps    \* bound: presses of the user, failures

ASSUME PromptEditorsAssumption == EditorSteps \in Nat /\ PromptKeys # {}

VARIABLES editor,        \* "document" or "single"
          overrides,        \* external: the override of each prompt, or Standard
          storedScope,   \* external: whether the prompts are included
          promptsShown,  \* the value of the resource, or prompt()
          editedContent,
          puts,          \* saves and resets under way
          promptsLoad,   \* the one load of the prompts: none, asked, read
          savingPrompt,  \* savingKey, saving
          scopeShown, pendingScope, savingScope, \* the switch
          scopePut, scopeLoad,
          outOfStep,         \* history: a request failed, or a resource under way was not reloaded
          editorSteps

promptState == <<overrides, promptsShown, editedContent, puts, promptsLoad, savingPrompt>>
scopeState == <<storedScope, scopeShown, pendingScope, savingScope, scopePut, scopeLoad>>
editorVars == <<editor, promptState, scopeState, outOfStep, editorSteps>>

Standard == "standard"
BlankText == ""
NoPrompt == "none"
NoPromptsLoad == [st |-> "none", rows |-> [k \in PromptKeys |-> Standard]]
NoScope == [st |-> "none", value |-> TRUE]
ASSUME PromptNames == {Standard, BlankText} \cap Wordings = {} /\ NoPrompt \notin PromptKeys

EditorInit ==
    /\ editor \in {"document", "single"}
    /\ overrides = [k \in PromptKeys |-> Standard] /\ storedScope = TRUE
    /\ promptsShown = overrides /\ editedContent = overrides /\ puts = {}
    /\ promptsLoad = [NoPromptsLoad EXCEPT !.st = "asked"] /\ savingPrompt = NoPrompt
    /\ scopeShown = TRUE /\ pendingScope = {} /\ savingScope = FALSE
    /\ scopePut = NoScope /\ scopeLoad = [NoScope EXCEPT !.st = "asked"]
    /\ outOfStep = FALSE /\ editorSteps = 0

EditorStep == editorSteps < EditorSteps /\ editorSteps' = editorSteps + 1

\* The fields are there once nothing is being loaded.
FieldsShown == promptsLoad.st = "none"
KeysShown == IF editor = "document" THEN PromptKeys ELSE {CHOOSE k \in PromptKeys : TRUE}

-----------------------------------------------------------------------------
(* Prompts.                                                                *)
OnContentChange(k, text) ==
    /\ FieldsShown
    /\ editedContent' = [editedContent EXCEPT ![k] = text]
    /\ UNCHANGED <<editor, overrides, promptsShown, puts, promptsLoad, savingPrompt, scopeState, outOfStep, editorSteps>>

Put(k, text) ==
    /\ FieldsShown /\ savingPrompt # k /\ EditorStep
    /\ savingPrompt' = k
    /\ puts' = puts \cup {[nr |-> editorSteps, key |-> k, text |-> text, st |-> "sent"]}
    /\ UNCHANGED <<editor, overrides, promptsShown, editedContent, promptsLoad, scopeState, outOfStep>>

\* onSave; a blank text is refused with a warning.
OnSave(k) == editedContent[k] \notin {promptsShown[k], BlankText} /\ Put(k, editedContent[k])

\* onReset, of a prompt that is shown as overridden.
OnReset(k) == promptsShown[k] # Standard /\ Put(k, Standard)

ServePut(u) ==
    /\ u.st = "sent"
    /\ overrides' = [overrides EXCEPT ![u.key] = u.text]
    /\ puts' = (puts \ {u}) \cup {[u EXCEPT !.st = "done"]}
    /\ UNCHANGED <<editor, promptsShown, editedContent, promptsLoad, savingPrompt, scopeState, outOfStep, editorSteps>>

\* A resource is not reloaded while it is loading.
ReloadPrompts ==
    IF promptsLoad.st = "none"
    THEN promptsLoad' = [NoPromptsLoad EXCEPT !.st = "asked"] /\ UNCHANGED outOfStep
    ELSE outOfStep' = TRUE /\ UNCHANGED promptsLoad

\* Whichever button is held is released.
PutDone(u) ==
    /\ u.st = "done"
    /\ puts' = puts \ {u} /\ savingPrompt' = NoPrompt
    /\ editedContent' = IF u.text = Standard THEN editedContent ELSE [editedContent EXCEPT ![u.key] = u.text]
    /\ IF editor = "document" \/ u.text = Standard
       THEN ReloadPrompts /\ UNCHANGED promptsShown
       ELSE promptsShown' = [promptsShown EXCEPT ![u.key] = u.text] /\ UNCHANGED <<promptsLoad, outOfStep>>
    /\ UNCHANGED <<editor, overrides, scopeState, editorSteps>>

PutFails(u) ==
    /\ EditorStep
    /\ puts' = puts \ {u} /\ savingPrompt' = NoPrompt /\ outOfStep' = TRUE
    /\ UNCHANGED <<editor, overrides, promptsShown, editedContent, promptsLoad, scopeState>>

ReadPrompts ==
    /\ promptsLoad.st = "asked"
    /\ promptsLoad' = [st |-> "read", rows |-> overrides]
    /\ UNCHANGED <<editor, overrides, promptsShown, editedContent, puts, savingPrompt, scopeState, outOfStep, editorSteps>>

\* Every field is filled again, those that were being edited too.
PromptsLoaded ==
    /\ promptsLoad.st = "read"
    /\ promptsLoad' = NoPromptsLoad
    /\ promptsShown' = promptsLoad.rows /\ editedContent' = promptsLoad.rows
    /\ UNCHANGED <<editor, overrides, puts, savingPrompt, scopeState, outOfStep, editorSteps>>

PromptsFail ==
    /\ promptsLoad.st # "none" /\ EditorStep
    /\ promptsLoad' = NoPromptsLoad /\ outOfStep' = TRUE
    /\ UNCHANGED <<editor, overrides, promptsShown, editedContent, puts, savingPrompt, scopeState>>

-----------------------------------------------------------------------------
(* The switch: pendingScope holds the value a document's editor shows      *)
(* while it is being saved; a single editor sets its signal.               *)
IncludeShown == IF pendingScope # {} THEN CHOOSE v \in pendingScope : TRUE ELSE scopeShown

ToggleScope ==
    /\ ~savingScope /\ EditorStep
    /\ savingScope' = TRUE /\ scopePut' = [st |-> "sent", value |-> ~IncludeShown]
    /\ IF editor = "document" THEN pendingScope' = {~IncludeShown} /\ UNCHANGED scopeShown
       ELSE scopeShown' = ~IncludeShown /\ UNCHANGED pendingScope
    /\ UNCHANGED <<editor, promptState, storedScope, scopeLoad, outOfStep>>

ServeScope ==
    /\ scopePut.st = "sent"
    /\ storedScope' = scopePut.value /\ scopePut' = [scopePut EXCEPT !.st = "done"]
    /\ UNCHANGED <<editor, promptState, scopeShown, pendingScope, savingScope, scopeLoad, outOfStep, editorSteps>>

\* The document is loaded again; its editor does not wait for that.
ScopeSaved ==
    /\ scopePut.st = "done"
    /\ savingScope' = FALSE /\ scopePut' = NoScope /\ pendingScope' = {}
    /\ IF editor = "single" THEN scopeShown' = scopePut.value /\ UNCHANGED <<scopeLoad, outOfStep>>
       ELSE /\ UNCHANGED scopeShown
            /\ IF scopeLoad.st = "none" THEN scopeLoad' = [NoScope EXCEPT !.st = "asked"] /\ UNCHANGED outOfStep
               ELSE outOfStep' = TRUE /\ UNCHANGED scopeLoad
    /\ UNCHANGED <<editor, promptState, storedScope, editorSteps>>

\* Before it was served, or after: what was shown before is shown again.
ScopeFails ==
    /\ scopePut.st # "none" /\ EditorStep
    /\ savingScope' = FALSE /\ scopePut' = NoScope /\ pendingScope' = {} /\ outOfStep' = TRUE
    /\ scopeShown' = IF editor = "single" THEN ~scopePut.value ELSE scopeShown
    /\ UNCHANGED <<editor, promptState, storedScope, scopeLoad>>

ReadScope ==
    /\ scopeLoad.st = "asked"
    /\ scopeLoad' = [st |-> "read", value |-> storedScope]
    /\ UNCHANGED <<editor, promptState, storedScope, scopeShown, pendingScope, savingScope, scopePut, outOfStep,
                   editorSteps>>

\* A single editor loads it once; a switch pressed before is set back.
ScopeLoaded ==
    /\ scopeLoad.st = "read"
    /\ scopeShown' = scopeLoad.value /\ scopeLoad' = NoScope
    /\ UNCHANGED <<editor, promptState, storedScope, pendingScope, savingScope, scopePut, outOfStep,
                   editorSteps>>

EditorNext ==
    \/ \E k \in KeysShown :
           OnSave(k) \/ OnReset(k) \/ \E text \in Wordings \cup {BlankText} : OnContentChange(k, text)
    \/ \E u \in puts : ServePut(u) \/ PutDone(u) \/ PutFails(u)
    \/ ReadPrompts \/ PromptsLoaded \/ PromptsFail
    \/ ToggleScope \/ ServeScope \/ ScopeSaved \/ ScopeFails \/ ReadScope \/ ScopeLoaded

EditorSpec == EditorInit /\ [][EditorNext]_editorVars

-----------------------------------------------------------------------------
PromptEditorsTypeOK ==
    LET texts == Wordings \cup {Standard}
        ofAll == [PromptKeys -> texts]
        sts == {"none", "asked", "sent", "read", "done"}
    IN  /\ editor \in {"document", "single"} /\ {overrides, promptsShown} \subseteq ofAll
        /\ editedContent \in [PromptKeys -> texts \cup {BlankText}]
        /\ puts \subseteq [nr : 0 .. EditorSteps, key : PromptKeys, text : texts, st : sts]
        /\ promptsLoad \in [st : sts, rows : ofAll] /\ savingPrompt \in PromptKeys \cup {NoPrompt}
        /\ {storedScope, scopeShown, savingScope, outOfStep} \subseteq BOOLEAN /\ pendingScope \subseteq BOOLEAN
        /\ {scopePut, scopeLoad} \subseteq [st : sts, value : BOOLEAN] /\ editorSteps \in 0 .. EditorSteps

(* With no save, reset or load under way the prompts shown are those       *)
(* overrides, so that hasChanges tells what is not saved: unless a request    *)
(* failed, or one was answered while a reload was under way.               *)
EditorShowsStored == puts = {} /\ promptsLoad.st = "none" /\ ~outOfStep => promptsShown = overrides
=============================================================================
