------------------------------- MODULE MCChat -------------------------------
(***************************************************************************)
(* Everything around a question, on one small instance.  The components    *)
(* share no variable, so a behaviour shows one of them while the others    *)
(* stay as they began: every state and step of each is here, and nothing   *)
(* of their product.                                                       *)
(***************************************************************************)
EXTENDS Conversations, PreparedChat, ChatView, WebSearch, Answering

VARIABLE scene

MCAsker == [t \in Turns |-> "u"]

MCOwner == [th \in OldThreads |-> "u"]

AllVars == <<scene, chatVars, preparedVars, viewVars, searchVars, answeringVars>>

ScenesInit ==
    /\ scene \in {"chat", "prepared", "view", "search", "answers"}
    /\ ConversationInit /\ PreparedInit /\ ViewInit /\ SearchInit /\ AnsweringInit
    /\ scene = "answers" \/ (legalMode /\ trigger = "off" /\ chosen = OpenAI)

\* What stays while one of them has its turn.
BesideChat     == UNCHANGED <<scene, preparedVars, viewVars, searchVars, answeringVars>>
BesidePrepared == UNCHANGED <<scene, chatVars, viewVars, searchVars, answeringVars>>
BesideView     == UNCHANGED <<scene, chatVars, preparedVars, searchVars, answeringVars>>
BesideSearch   == UNCHANGED <<scene, chatVars, preparedVars, viewVars, answeringVars>>
BesideAnswers  == UNCHANGED <<scene, chatVars, preparedVars, viewVars, searchVars>>

ScenesNext ==
    \/ scene = "chat" /\ ConversationNext /\ BesideChat
    \/ scene = "prepared" /\ PreparedNext /\ BesidePrepared
    \/ scene = "view" /\ ViewNext /\ BesideView
    \/ scene = "search" /\ SearchNext /\ BesideSearch
    \/ scene = "answers" /\ AnsweringNext /\ BesideAnswers

\* Each component's own fairness, in the behaviours that show it.
ScenesFairness ==
    /\ WF_AllVars(scene = "chat" /\ PurgeStep /\ BesideChat)
    /\ WF_AllVars(scene = "search" /\ CallProvider /\ BesideSearch)
    /\ WF_AllVars(scene = "search" /\ EndCall /\ BesideSearch)
    /\ WF_AllVars(scene = "search" /\ SearchTick /\ BesideSearch)

ScenesSpec == ScenesInit /\ [][ScenesNext]_AllVars /\ ScenesFairness
=============================================================================
