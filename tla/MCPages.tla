------------------------------- MODULE MCPages -------------------------------
(***************************************************************************)
(* What a browser keeps of documents, files, prompts, workspaces and of    *)
(* the user who is signed in, and the accounts behind it, on one small     *)
(* instance.  The components share no variable, so a behaviour shows one   *)
(* of them while the others stay as they began: every state and step of    *)
(* each is here, and nothing of their product.                             *)
(***************************************************************************)
EXTENDS SpokenChat, FileViewers, FileList, DocumentsPage, Onboarding, Accounts,
        WorkspacePages, SettingsForms, TLC

VARIABLE scene

MCPageCount == "a" :> 2 @@ "b" :> 3
MCFormatOf == "f" :> "pdf" @@ "g" :> "xlsx"
MCReads == "dpt2" :> {"pdf"} @@ "docling" :> {"pdf", "xlsx"}
MCParserOrder == <<"dpt2", "docling">>
MCMatching == "" :> {1, 2} @@ "a" :> {1}

AllVars == <<scene, onePageVars, speechVars, voiceVars, previewVars, pdfVars, fileListVars, uploadVars,
             pageVars, onboardingVars, accountVars, clientAccountVars, workVars, membersVars, settingsVars,
             editorVars>>

\* Documents, titles, addresses and passwords are alike, so one of the starts
\* that differ in their names will do.
AlikeCards == {NoCards} \cup {h \in Cards : h["d1"] = "t1"}
AlikeMembers ==
    /\ "n" \in registered => "m" \in registered
    /\ roleOf["n"] # NotMember => roleOf["m"] # NotMember

\* What a scene does not show begins in one way.
ScenesInit ==
    /\ scene \in {"speech", "voice", "preview", "pdf", "files", "upload", "documents", "head", "review", "onboarding",
                  "accounts", "tab", "workspaces", "members", "settings", "prompts"}
    /\ SpeechInit /\ (scene = "speech" \/ \A index \in Slots : spoken[index] = Silent)
    /\ VoiceInit /\ (scene = "voice" \/ autoSend)
    /\ PreviewInit
    /\ PdfInit /\ (scene = "pdf" \/ fileUrl = "a")
    /\ FileListInit /\ (scene = "files" \/ stored = {})
    /\ UploadInit /\ keyed = KeyParsers /\ preferred = "dpt2"
    /\ PageInit /\ loads[1].st = "asked" /\ library \in (IF scene = "documents" THEN AlikeCards ELSE {NoCards})
    /\ HeadInit /\ (scene = "head" \/ docSaved = CHOOSE h \in PageHead : h.title # NoTitle)
    /\ scene = "review" \/ reviewSaved = NoReview
    /\ OnboardingInit /\ (scene = "onboarding" \/ row = NoRow)
    /\ AccountsInit /\ envPassword = CHOOSE p \in Passwords : TRUE
    /\ ClientAccountInit /\ (scene = "tab" \/ \A p \in Persons : ~profiles[p].custom)
    /\ WorksInit /\ (scene = "workspaces" \/ There = {})
    /\ MembersInit /\ AlikeMembers /\ (scene = "members" \/ registered = {})
    /\ SettingsInit /\ (scene = "settings" \/ tab = "voice")
    /\ EditorInit /\ (scene = "prompts" \/ editor = "single")

\* What stays while one of them has its turn.
BesideSpeech ==
    UNCHANGED <<scene, onePageVars, uploadVars, voiceVars, previewVars, pdfVars, fileListVars, pageVars, onboardingVars,
                accountVars, clientAccountVars, workVars, membersVars, settingsVars, editorVars>>
BesideVoice ==
    UNCHANGED <<scene, onePageVars, uploadVars, speechVars, previewVars, pdfVars, fileListVars, pageVars, onboardingVars,
                accountVars, clientAccountVars, workVars, membersVars, settingsVars, editorVars>>
BesidePreview ==
    UNCHANGED <<scene, onePageVars, uploadVars, speechVars, voiceVars, pdfVars, fileListVars, pageVars, onboardingVars,
                accountVars, clientAccountVars, workVars, membersVars, settingsVars, editorVars>>
BesidePdf ==
    UNCHANGED <<scene, onePageVars, uploadVars, speechVars, voiceVars, previewVars, fileListVars, pageVars, onboardingVars,
                accountVars, clientAccountVars, workVars, membersVars, settingsVars, editorVars>>
BesideFiles ==
    UNCHANGED <<scene, onePageVars, uploadVars, speechVars, voiceVars, previewVars, pdfVars, pageVars, onboardingVars,
                accountVars, clientAccountVars, workVars, membersVars, settingsVars, editorVars>>
BesideDocuments ==
    UNCHANGED <<scene, onePageVars, uploadVars, speechVars, voiceVars, previewVars, pdfVars, fileListVars, onboardingVars,
                accountVars, clientAccountVars, workVars, membersVars, settingsVars, editorVars>>
BesideOnboarding ==
    UNCHANGED <<scene, onePageVars, uploadVars, speechVars, voiceVars, previewVars, pdfVars, fileListVars, pageVars,
                accountVars, clientAccountVars, workVars, membersVars, settingsVars, editorVars>>
BesideAccounts ==
    UNCHANGED <<scene, onePageVars, uploadVars, speechVars, voiceVars, previewVars, pdfVars, fileListVars, pageVars,
                onboardingVars, clientAccountVars, workVars, membersVars, settingsVars, editorVars>>
BesideTab ==
    UNCHANGED <<scene, onePageVars, uploadVars, speechVars, voiceVars, previewVars, pdfVars, fileListVars, pageVars,
                onboardingVars, accountVars, workVars, membersVars, settingsVars, editorVars>>
BesideWorkspaces ==
    UNCHANGED <<scene, onePageVars, uploadVars, speechVars, voiceVars, previewVars, pdfVars, fileListVars, pageVars,
                onboardingVars, accountVars, clientAccountVars, membersVars, settingsVars,
                editorVars>>
BesideMembers ==
    UNCHANGED <<scene, onePageVars, uploadVars, speechVars, voiceVars, previewVars, pdfVars, fileListVars, pageVars,
                onboardingVars, accountVars, clientAccountVars, workVars, settingsVars, editorVars>>
BesideSettings ==
    UNCHANGED <<scene, onePageVars, uploadVars, speechVars, voiceVars, previewVars, pdfVars, fileListVars, pageVars,
                onboardingVars, accountVars, clientAccountVars, workVars, membersVars, editorVars>>
BesidePrompts ==
    UNCHANGED <<scene, onePageVars, uploadVars, speechVars, voiceVars, previewVars, pdfVars, fileListVars, pageVars,
                onboardingVars, accountVars, clientAccountVars, workVars, membersVars, settingsVars>>
BesideUpload ==
    UNCHANGED <<scene, onePageVars, speechVars, voiceVars, previewVars, pdfVars, fileListVars, pageVars,
                onboardingVars, accountVars, clientAccountVars, workVars, membersVars, settingsVars,
                editorVars>>
BesideHead ==
    UNCHANGED <<scene, uploadVars, speechVars, voiceVars, previewVars, pdfVars, fileListVars, pageVars,
                onboardingVars, accountVars, clientAccountVars, workVars, membersVars, settingsVars,
                editorVars>>

ScenesNext ==
    \/ scene = "speech" /\ SpeechNext /\ BesideSpeech
    \/ scene = "voice" /\ VoiceNext /\ BesideVoice
    \/ scene = "preview" /\ PreviewNext /\ BesidePreview
    \/ scene = "pdf" /\ PdfNext /\ BesidePdf
    \/ scene = "files" /\ FileListNext /\ BesideFiles
    \/ scene = "upload" /\ UploadNext /\ BesideUpload
    \/ scene = "documents" /\ PageNext /\ BesideDocuments
    \/ scene = "head" /\ HeadNext /\ BesideHead
    \/ scene = "review" /\ ReviewTabNext /\ BesideHead
    \/ scene = "onboarding" /\ OnboardingNext /\ BesideOnboarding
    \/ scene = "accounts" /\ AccountsNext /\ BesideAccounts
    \/ scene = "tab" /\ ClientAccountNext /\ BesideTab
    \/ scene = "workspaces" /\ WorksNext /\ BesideWorkspaces
    \/ scene = "members" /\ MembersNext /\ BesideMembers
    \/ scene = "settings" /\ SettingsNext /\ BesideSettings
    \/ scene = "prompts" /\ EditorNext /\ BesidePrompts

ScenesSpec == ScenesInit /\ [][ScenesNext]_AllVars

-----------------------------------------------------------------------------
(* Every component keeps its state within its types.                       *)
PagesTypeOK ==
    /\ SpeechTypeOK /\ VoiceTypeOK /\ PreviewTypeOK /\ PdfTypeOK /\ FileListTypeOK
    /\ UploadTypeOK /\ PageTypeOK /\ HeadTypeOK
    /\ OnboardingTypeOK /\ AccountsTypeOK /\ ClientAccountTypeOK /\ WorksTypeOK
    /\ MembersTypeOK /\ SettingsFormsTypeOK /\ PromptEditorsTypeOK

(* With nothing under way, each page shows what the server holds, but for  *)
(* the overlaps of its own calls that its part names: the table of files,  *)
(* the cards of documents and workspaces, a document's head and review,    *)
(* the members, the settings, the prompts, the user and his choice.        *)
PagesShowTheServer ==
    /\ TableListsTheSearch /\ DeletedFileIsGone /\ CardsAreCurrent
    /\ HeadShowsTheRow /\ TabShowsTheReview
    /\ TwiceOnlyUntilReload /\ TableShowsMembers
    /\ ShownIsStored /\ EditorShowsStored
    /\ ShownIsSignedIn /\ ChoiceIsSaved

(* What the browser handed out and the page holds is alive and within      *)
(* reach: the sound that plays, the microphone, the URLs of avatars and    *)
(* logos.                                                                  *)
HandlesAreAlive ==
    /\ HeardIsReachable /\ MicrophoneIsHeld /\ AvatarsAreHeld /\ LogosShownAreAlive

(* An answer that comes late is shown for what was asked and for nothing   *)
(* else: the text of a file, a page of a PDF, the file of a dialog, a      *)
(* generated prompt, a member who is added, the parser of an upload.       *)
LateAnswersFit ==
    /\ ViewedIsShown /\ TurnedIsDrawn /\ DialogShowsItsFile
    /\ PromptFitsDocument /\ AddedAsPressed
    /\ ParsedAsSent /\ DialogHasItsBatch

(* Whoever was told that he is registered is, with the superadmin's        *)
(* password that of the last start, and who is deleted leaves nothing.     *)
AccountsAreKept == RegisteredStays /\ RestartSetsPassword /\ GoneLeavesNothing
=============================================================================
