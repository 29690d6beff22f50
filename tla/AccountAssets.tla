---------------------------- MODULE AccountAssets ----------------------------
(***************************************************************************)
(* The avatar of one user: AssetManagerService keeps one row per owner and *)
(* one object in the storage that the user's own configuration selects at  *)
(* the moment of each call.                                                *)
(***************************************************************************)
EXTENDS Naturals, FiniteSets

CONSTANTS AssetCalls,   \* uploads and deletions; an upload's key is its own name
          AssetFaults   \* bound: failures, restarts and changes of storage

NoKey == "none"
ASSUME AssetAssumption == NoKey \notin AssetCalls /\ AssetFaults \in Nat

VARIABLES avatar,    \* the key in the row of image_assets
          objects,   \* what the storages hold
          storage,   \* the storage that getStorageForUser resolves to
          call,      \* the calls
          disturbed, \* history: the row's object was cut off from it
          assetFaults

assetVars == <<avatar, objects, storage, call, disturbed, assetFaults>>
Storages == {"default", "own"}

AssetInit ==
    /\ avatar = NoKey /\ objects = {} /\ storage \in Storages
    /\ call = [c \in AssetCalls |-> [pc |-> "idle", kind |-> "upload", old |-> NoKey,
                                   storage |-> storage]]
    /\ disturbed = FALSE /\ assetFaults = 0

Move(c, pc) == call' = [call EXCEPT ![c].pc = pc]
AssetFault == assetFaults < AssetFaults /\ assetFaults' = assetFaults + 1

\* Validation and scan have passed; the new object is stored first.
UploadImage(c) ==
    /\ call[c].pc = "idle"
    /\ objects' = objects \cup {<<storage, c>>}
    /\ call' = [call EXCEPT ![c].pc = "find", ![c].storage = storage]
    /\ UNCHANGED <<avatar, storage, disturbed, assetFaults>>
DeleteImage(c) ==
    /\ call[c].pc = "idle"
    /\ call' = [call EXCEPT ![c].pc = "find", ![c].kind = "delete"]
    /\ UNCHANGED <<avatar, objects, storage, disturbed, assetFaults>>

FindImage(c) ==
    /\ call[c].pc = "find"
    /\ call' = [call EXCEPT ![c].old = avatar,
                   ![c].pc = IF avatar # NoKey THEN "unlink"
                             ELSE IF call[c].kind = "upload" THEN "save" ELSE "done"]
    /\ UNCHANGED <<avatar, objects, storage, disturbed, assetFaults>>

\* Mutant: the row stays when the object is gone.
MutantUnlinkOld(c) ==
    /\ call[c].pc = "unlink"
    /\ objects' = objects \ {<<storage, call[c].old>>}
    /\ Move(c, "done")
    /\ UNCHANGED <<avatar, storage, disturbed, assetFaults>>

\* The old object is looked for where the configuration points now; one that
\* is not there is no error.
UnlinkOld(c) ==
    /\ call[c].pc = "unlink"
    /\ objects' = objects \ {<<storage, call[c].old>>}
    /\ Move(c, "remove")
    /\ UNCHANGED <<avatar, storage, disturbed, assetFaults>>

\* remove() of a row that another call removed is no error either.
RemoveOld(c) ==
    /\ call[c].pc = "remove"
    /\ avatar' = IF avatar = call[c].old THEN NoKey ELSE avatar
    /\ disturbed' = IF avatar' = NoKey THEN FALSE ELSE disturbed
    /\ Move(c, IF call[c].kind = "upload" THEN "save" ELSE "done")
    /\ UNCHANGED <<objects, storage, assetFaults>>

\* The unique index (context, ownerId) rejects a second row.
SaveImage(c) ==
    /\ call[c].pc = "save"
    /\ avatar' = IF avatar = NoKey THEN c ELSE avatar
    /\ disturbed' = IF avatar = NoKey THEN call[c].storage # storage ELSE disturbed
    /\ Move(c, "done")
    /\ UNCHANGED <<objects, storage, assetFaults>>

\* The storage refuses a deletion, or the process ends: the call stops where
\* it is.
CallFails(c) ==
    /\ call[c].pc \notin {"idle", "done"} /\ AssetFault
    /\ disturbed' = (disturbed \/ (call[c].pc = "remove" /\ avatar = call[c].old))
    /\ Move(c, "done")
    /\ UNCHANGED <<avatar, objects, storage>>

\* updateConfig and deleteConfig of the user's storage move no object.
ChangeStorage ==
    /\ AssetFault
    /\ storage' \in Storages \ {storage}
    /\ disturbed' = (avatar # NoKey)
    /\ UNCHANGED <<avatar, objects, call>>

AssetNext ==
    \/ \E c \in AssetCalls :
           \/ UploadImage(c) \/ DeleteImage(c) \/ FindImage(c) \/ UnlinkOld(c)
           \/ RemoveOld(c) \/ SaveImage(c) \/ CallFails(c)
    \/ ChangeStorage

AssetSpec == AssetInit /\ [][AssetNext]_assetVars

-----------------------------------------------------------------------------
AssetTypeOK ==
    /\ avatar \in AssetCalls \cup {NoKey}
    /\ objects \subseteq Storages \X AssetCalls /\ storage \in Storages
    /\ call \in [AssetCalls -> [pc : {"idle", "find", "unlink", "remove", "save", "done"},
                                kind : {"upload", "delete"}, old : AssetCalls \cup {NoKey},
                                storage : Storages]]
    /\ disturbed \in BOOLEAN /\ assetFaults \in 0 .. AssetFaults

(* However uploads and deletions of one user overlap, the avatar a client  *)
(* is told of can be read, or the call that took its object away is about  *)
(* to remove its row: unless a call was cut off right there, or the user   *)
(* changed the storage.                                                    *)
AvatarReadable ==
    avatar # NoKey /\ ~disturbed =>
        \/ <<storage, avatar>> \in objects
        \/ \E c \in AssetCalls : call[c].pc = "remove" /\ call[c].old = avatar
=============================================================================
