----------------------------- MODULE MCServices -----------------------------
(***************************************************************************)
(* The services around the engine for TLC: model downloads, the swapping   *)
(* of models on the GPU, the render cache, automatic render restarts,      *)
(* uploads and the analytics of a channel.  They share no state: a         *)
(* behaviour picks one of them and takes only its steps, so that one run   *)
(* checks all without multiplying them.                                    *)
(***************************************************************************)
EXTENDS MCGpuSlot, ModelPull, RenderCache, RenderRestart, VideoUpload, ChannelSync

CONSTANTS pa, pb, pm1, pm2, pf, rm1, rm2, rs, u1, u2, e1, e2, cv

VARIABLE focus  \* the component of this behaviour

\* Two models that share their one file.
SharedFile == (pm1 :> <<pf>>) @@ (pm2 :> <<pf>>)
\* Two renders that share their subtitles.
SharedSubtitles == (rm1 :> {rs}) @@ (rm2 :> {rs})

\* A video of the first day.
OldVideo == cv :> 1

\* Where uploads are not the subject, all have ended.
UploadsOver ==
    /\ changed = [u \in Uploads |-> {}] /\ kept = [u \in Uploads |-> FALSE]
    /\ session = [u \in Uploads |-> NoSession] /\ videos = [u \in Uploads |-> [n |-> 0, ok |-> TRUE]]
    /\ uploader = [u \in Uploads |-> [NotUploading EXCEPT !.pc = "failed"]]
    /\ units = 0 /\ spent = 0 /\ uploadFaults = 0

ServicesInit ==
    /\ focus \in {"pull", "gpu", "cache", "restart", "upload", "channel"}
    /\ PullInit /\ CacheInit /\ Init /\ RestartInit /\ ChannelInit
    /\ focus # "pull" => finalFile = [f \in PullFiles |-> "absent"]
    /\ focus # "cache" => entry = [h \in Hashes |-> FALSE]
    /\ focus = "channel" <=> channel = "connected"
    /\ IF focus = "upload" THEN UploadInit ELSE UploadsOver

ServicesNext ==
    /\ \/ focus = "pull" /\ PullNext /\ UNCHANGED <<vars, cacheVars, restartVars, uploadVars, channelVars>>
       \/ focus = "gpu" /\ Next /\ UNCHANGED <<pullVars, cacheVars, restartVars, uploadVars, channelVars>>
       \/ focus = "cache" /\ CacheNext /\ UNCHANGED <<pullVars, vars, restartVars, uploadVars, channelVars>>
       \/ focus = "restart" /\ RestartNext /\ UNCHANGED <<pullVars, vars, cacheVars, uploadVars, channelVars>>
       \/ focus = "upload" /\ UploadNext /\ UNCHANGED <<pullVars, vars, cacheVars, restartVars, channelVars>>
       \/ focus = "channel" /\ ChannelNext /\ UNCHANGED <<pullVars, vars, cacheVars, restartVars, uploadVars>>
    /\ UNCHANGED focus

\* No fair action can change the initial state of a component that the
\* behaviour leaves alone.
ServicesSpec ==
    /\ ServicesInit /\ [][ServicesNext]_<<pullVars, vars, cacheVars, restartVars, uploadVars, channelVars, focus>>
    /\ PullFairness /\ CacheFairness /\ RestartFairness /\ UploadFairness /\ ChannelFairness
=============================================================================
