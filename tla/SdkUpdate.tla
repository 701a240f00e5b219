----------------------------- MODULE SdkUpdate -----------------------------
(***************************************************************************)
(* devtool sdk-update: sdk_update of scripts/lib/devtool/sdk.py, the       *)
(* server it updates from, where scripts/oe-publish-sdk unpacks a new SDK  *)
(* and then commits its layers, and a client that may be killed.  The      *)
(* state of a file, of the layers and of the uninative tarball is the      *)
(* version of the SDK it comes from, or one of Gone and Torn: what is not  *)
(* there cannot be removed before it is replaced, what is torn can.        *)
(***************************************************************************)
EXTENDS Naturals

CONSTANTS ConfFiles,      \* the files that sdk-conf-manifest lists
          MaxPublished,   \* bound on the versions published
          MaxUpdates      \* bound on the runs of sdk-update

ASSUME SdkAssumption == ConfFiles # {} /\ MaxPublished \in Nat \ {0}

VARIABLES served,         \* version of the conf files, manifest and sstate of the server
          servedGit,      \* version of the commit in its layers/.git
          sdkConf,        \* [ConfFiles -> version] of the client
          sdkManifest,    \* the client has conf/sdk-conf-manifest
          sdkLayers, sdkGit, \* version of the client's layers, and whether they are a clone
          sdkUninative,   \* version of the client's uninative tarball
          fetched,        \* in the temporary directory: [layers, conf, files, uninative],
                          \* the version of the changed files and which they are; Gone for
                          \* layers or a tarball that are not replaced
          sdkStep, sdkResult,
          prepared,       \* version that the build system was prepared for
          met,            \* the server published during this run
          behind,         \* this run, or the last, took or kept layers that are not of the
                          \* version of the conf files
          updates
sdkVars == <<served, servedGit, sdkConf, sdkManifest, sdkLayers, sdkGit, sdkUninative,
             fetched, sdkStep, sdkResult, prepared, met, behind, updates>>
Client == <<sdkConf, sdkManifest, sdkLayers, sdkGit, sdkUninative, prepared>>
Server == <<served, servedGit>>
Excuses == <<met, behind>>
Gone == 0
Torn == MaxPublished + 1

NothingFetched == [layers |-> Gone, conf |-> Gone, files |-> {}, uninative |-> Gone]
Changed == {f \in ConfFiles : sdkConf[f] # served}

SdkInit ==
    /\ served = 1 /\ servedGit = 1 /\ sdkConf = [f \in ConfFiles |-> 1]
    /\ sdkManifest = TRUE /\ sdkLayers = 1 /\ sdkGit = FALSE /\ sdkUninative = 1
    /\ fetched = NothingFetched /\ sdkStep = "idle" /\ sdkResult = "none"
    /\ prepared = 1 /\ met = FALSE /\ behind = FALSE /\ updates = 0

(* oe-publish-sdk: the SDK is unpacked, then the layers are committed.     *)
Publish ==
    /\ \/ /\ served = servedGit /\ served < MaxPublished /\ served' = served + 1
          /\ met' = (met \/ sdkStep # "idle") /\ behind' = (behind \/ sdkStep # "idle")
          /\ UNCHANGED servedGit
       \/ served # servedGit /\ servedGit' = served /\ UNCHANGED <<served, Excuses>>
    /\ UNCHANGED <<Client, fetched, sdkStep, sdkResult, updates>>

Ends(result) == sdkStep' = "idle" /\ sdkResult' = result /\ fetched' = NothingFetched
Goes(step) == sdkStep' = step /\ UNCHANGED sdkResult

(***************************************************************************)
(* The manifest is fetched, an empty one when the server is not reached,   *)
(* and the checksums in it compared with the files.  A file that is not    *)
(* there is an exception, and layers that are not whole may hold a BitBake *)
(* or a devtool that does not start.                                       *)
(***************************************************************************)
StartUpdate ==
    /\ sdkStep = "idle" /\ updates < MaxUpdates /\ updates' = updates + 1 /\ met' = FALSE
    /\ \/ Ends("notReached")
       \/ (sdkLayers \in {Gone, Torn} \/ \E f \in ConfFiles : sdkConf[f] = Gone) /\ Ends("failed")
       \/ (\A f \in ConfFiles : sdkConf[f] # Gone) /\ Changed = {} /\ Ends("upToDate")
       \/ (\A f \in ConfFiles : sdkConf[f] # Gone) /\ Changed # {} /\ sdkStep' = "fetchLayers"
          /\ sdkResult' = "none" /\ fetched' = [fetched EXCEPT !.files = Changed]
    /\ UNCHANGED <<Server, Client, behind>>

(***************************************************************************)
(* Layers that are a clone already are fetched and reset to the commit     *)
(* they are at, unless they were changed, as torn ones are; others, or     *)
(* when that fails, are cloned anew.                                       *)
(***************************************************************************)
FetchLayers ==
    /\ sdkStep = "fetchLayers"
    /\ \/ Ends("failed") /\ UNCHANGED behind
       \/ sdkGit /\ sdkLayers # Torn /\ Goes("fetchConf") /\ UNCHANGED fetched
          /\ behind' = (sdkLayers # served)
       \/ (sdkGit => sdkLayers # Torn) /\ Goes("fetchConf")
          /\ fetched' = [fetched EXCEPT !.layers = servedGit] /\ behind' = (servedGit # served)
    /\ UNCHANGED <<Server, Client, met, updates>>

(* The changed files and, when its checksum changed, the tarball, whose    *)
(* fetching is not looked at.                                              *)
FetchConf ==
    /\ sdkStep = "fetchConf"
    /\ \/ Ends("failed")
       \/ /\ Goes("moveLayers")
          /\ \E u \in {Gone} \cup (IF "local.conf" \in fetched.files THEN {served, Torn} ELSE {}) :
               fetched' = [fetched EXCEPT !.conf = served, !.uninative = u]
    /\ UNCHANGED <<Server, Client, Excuses, updates>>

(***************************************************************************)
(* Everything is moved over: the layers, one file after the other, the     *)
(* manifest, the tarball.  What was there is removed before each move, and *)
(* it is an exception when it is not there.                                *)
(***************************************************************************)
\* mistake: the files are moved before the layers
MoveLayersLast ==
    /\ sdkStep = "moveLayers"
    /\ \/ \E f \in fetched.files :
            /\ sdkConf' = [sdkConf EXCEPT ![f] = fetched.conf]
            /\ fetched' = [fetched EXCEPT !.files = @ \ {f}]
            /\ Goes("moveLayers") /\ UNCHANGED <<sdkLayers, sdkGit>>
       \/ /\ fetched.files = {} /\ Goes("moveManifest") /\ UNCHANGED <<sdkConf, fetched>>
          /\ IF fetched.layers = Gone THEN UNCHANGED <<sdkLayers, sdkGit>>
             ELSE sdkLayers' = fetched.layers /\ sdkGit' = TRUE
    /\ UNCHANGED <<Server, sdkManifest, sdkUninative, prepared, Excuses, updates>>

MoveLayers ==
    /\ sdkStep = "moveLayers"
    /\ \/ /\ fetched.layers = Gone /\ Goes("moveConf")
          /\ UNCHANGED <<sdkLayers, sdkGit, fetched>>
       \/ fetched.layers # Gone /\ sdkLayers = Gone /\ Ends("failed") /\ UNCHANGED <<sdkLayers, sdkGit>>
       \/ /\ fetched.layers # Gone /\ sdkLayers # Gone /\ Goes("moveConf")
          /\ sdkLayers' = fetched.layers /\ sdkGit' = TRUE /\ UNCHANGED fetched
    /\ UNCHANGED <<Server, sdkConf, sdkManifest, sdkUninative, prepared, Excuses, updates>>

MoveConf ==
    /\ sdkStep = "moveConf"
    /\ \E f \in fetched.files :
         /\ sdkConf' = [sdkConf EXCEPT ![f] = fetched.conf]
         /\ fetched' = [fetched EXCEPT !.files = @ \ {f}]
         /\ Goes(IF fetched.files = {f} THEN "moveManifest" ELSE "moveConf")
    /\ UNCHANGED <<Server, sdkManifest, sdkLayers, sdkGit, sdkUninative, prepared, Excuses, updates>>

MoveRest ==
    /\ sdkStep = "moveManifest"
    /\ \/ (~sdkManifest \/ (fetched.uninative # Gone /\ sdkUninative = Gone)) /\ Ends("failed")
          /\ UNCHANGED sdkUninative
       \/ /\ sdkManifest /\ Goes("prepare") /\ UNCHANGED fetched
          /\ \/ fetched.uninative = Gone /\ UNCHANGED sdkUninative
             \/ /\ fetched.uninative # Gone /\ sdkUninative # Gone
                /\ sdkUninative' = fetched.uninative
    /\ UNCHANGED <<Server, sdkConf, sdkManifest, sdkLayers, sdkGit, prepared, Excuses, updates>>

(* bitbake --setscene-only, then a dry run that must find nothing to do,   *)
(* unless the preparation is to be skipped.                                *)
PrepareBuild ==
    /\ sdkStep = "prepare"
    /\ \/ Ends("failed") /\ UNCHANGED prepared
       \/ Ends("updated") /\ prepared' \in {prepared, sdkLayers}
    /\ UNCHANGED <<Server, sdkConf, sdkManifest, sdkLayers, sdkGit, sdkUninative, Excuses, updates>>

(* sdk-update is killed, perhaps within the removal and the move of one.   *)
UpdateKilled ==
    /\ sdkStep # "idle" /\ Ends("killed")
    /\ \/ UNCHANGED Client
       \/ /\ sdkStep = "moveLayers" /\ fetched.layers # Gone /\ sdkLayers # Gone
          /\ \/ sdkLayers' = Gone /\ sdkGit' = FALSE
             \/ sdkLayers' = Torn /\ sdkGit' \in BOOLEAN
          /\ UNCHANGED <<sdkConf, sdkManifest, sdkUninative, prepared>>
       \/ /\ sdkStep = "moveConf"
          /\ \E f \in fetched.files, left \in {Gone, Torn} : sdkConf' = [sdkConf EXCEPT ![f] = left]
          /\ UNCHANGED <<sdkManifest, sdkLayers, sdkGit, sdkUninative, prepared>>
       \/ /\ sdkStep = "moveManifest" /\ sdkManifest
          /\ \/ sdkManifest' = FALSE /\ UNCHANGED sdkUninative
             \/ /\ fetched.uninative # Gone /\ sdkUninative # Gone
                /\ sdkUninative' \in {Gone, Torn} /\ UNCHANGED sdkManifest
          /\ UNCHANGED <<sdkConf, sdkLayers, sdkGit, prepared>>
    /\ UNCHANGED <<Server, Excuses, updates>>

SdkNext == \/ Publish \/ StartUpdate \/ FetchLayers \/ FetchConf \/ MoveLayers \/ MoveConf
           \/ MoveRest \/ PrepareBuild \/ UpdateKilled

SdkSpec == SdkInit /\ [][SdkNext]_sdkVars

-----------------------------------------------------------------------------
Versions == Gone..Torn
SdkTypeOK ==
    /\ {served, servedGit} \subseteq 1..MaxPublished
    /\ {sdkLayers, sdkUninative, prepared} \subseteq Versions
    /\ sdkConf \in [ConfFiles -> Versions]
    /\ fetched \in [layers : 0..MaxPublished, conf : 0..MaxPublished, files : SUBSET ConfFiles,
                    uninative : Versions]
    /\ {sdkManifest, sdkGit, met, behind} \subseteq BOOLEAN

(* An update that was killed at any point, or failed, is never taken for   *)
(* done: when sdk-update says that it has updated the SDK, or has reached  *)
(* the server and says that there is nothing to do, the layers are whole,  *)
(* the conf files are those of the server unless it published during this  *)
(* run, and the layers are the server's too unless this run, or the last   *)
(* one that got to them, met a publish or half of one, or kept a clone,    *)
(* which is reset to its own commit (sdk.py:148, 158, 199).  Nothing is    *)
(* said of the preparation: a run that fails in it leaves nothing that the *)
(* next one looks at.                                                      *)
SdkRecovers ==
    [][ /\ sdkStep # "idle" \/ updates' # updates
        /\ sdkStep' = "idle" /\ sdkResult' \in {"updated", "upToDate"}
        => /\ sdkLayers' \notin {Gone, Torn}
           /\ ~met' => \A f \in ConfFiles : sdkConf'[f] = served
           /\ ~behind' => sdkLayers' = served ]_sdkVars
=============================================================================
