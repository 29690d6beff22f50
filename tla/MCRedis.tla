------------------------------- MODULE MCRedis -------------------------------
(***************************************************************************)
(* What the processes share through Redis, on one small instance: the      *)
(* cache of answers and the stream of progress.  They share no key, so a   *)
(* behaviour shows one of them while the other stays as it began.          *)
(***************************************************************************)
EXTENDS RagCache, JobProgressStream

VARIABLE scene

CONSTANTS p1, p2

\* Two processes of one host have different pids.
OwnNames == [p \in {p1, p2} |-> p]

AllVars == <<scene, vars, streamVars>>

BesideCache  == UNCHANGED <<scene, streamVars>>
BesideStream == UNCHANGED <<scene, vars>>

ScenesInit == scene \in {"cache", "stream"} /\ Init /\ StreamInit

ScenesNext ==
    \/ scene = "cache" /\ Next /\ BesideCache
    \/ scene = "stream" /\ StreamNext /\ BesideStream

\* Each component's own fairness, in the behaviours that show it.
ScenesFairness ==
    /\ \A k \in Answers : WF_AllVars(scene = "cache" /\ Expire(k) /\ BesideCache)
    /\ \A m \in Messages : WF_AllVars(scene = "stream" /\ Age(m) /\ BesideStream)
    /\ \A p \in Procs :
        /\ WF_AllVars(scene = "stream" /\ LoopStep(p) /\ BesideStream)
        /\ WF_AllVars(scene = "stream" /\ RecoveryStep(p) /\ BesideStream)

ScenesSpec == ScenesInit /\ [][ScenesNext]_AllVars /\ ScenesFairness
=============================================================================
