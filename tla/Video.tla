------------------------------- MODULE Video --------------------------------
(***************************************************************************)
(* The renderers of the video stream of which platform_get_video returns   *)
(* one.                                                                    *)
(***************************************************************************)
EXTENDS RkVideo, SoftwareVideo, ImxVideo

VARIABLE renderer

videoVars == <<renderer, rkVars, softwareVars, imxVars>>

VideoInit ==
    /\ renderer \in {"rk", "software", "imx"}
    /\ RkInit /\ SoftwareInit /\ ImxInit

(* platform_get_video: the callbacks of the platform. *)
VideoNext ==
    /\ \/ renderer = "rk" /\ rkNext /\ UNCHANGED <<softwareVars, imxVars>>
       \/ renderer = "software" /\ softwareNext /\ UNCHANGED <<rkVars, imxVars>>
       \/ renderer = "imx" /\ imxNext /\ UNCHANGED <<rkVars, softwareVars>>
    /\ UNCHANGED renderer

VideoFairness ==
    /\ WF_videoVars(renderer = "rk" /\ frame_thread
                    /\ UNCHANGED <<softwareVars, imxVars, renderer>>)
    /\ WF_videoVars(renderer = "rk" /\ display_thread
                    /\ UNCHANGED <<softwareVars, imxVars, renderer>>)
    /\ WF_videoVars(renderer = "rk" /\ rk_cleanup
                    /\ UNCHANGED <<softwareVars, imxVars, renderer>>)

VideoSpec == VideoInit /\ [][VideoNext]_videoVars /\ VideoFairness
=============================================================================
