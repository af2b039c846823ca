------------------------------ MODULE RkVideo -------------------------------
(***************************************************************************)
(* video/rk.c: on Rockchip boards the decoder works on its own.  A thread  *)
(* takes the frames from it and leaves the number of a framebuffer for a   *)
(* second thread, which puts it on the plane and waits for the screen;     *)
(* rk_cleanup stops and joins them.  The critical sections are short and   *)
(* the code holds no second lock in them, so each is one step; frm_eos is  *)
(* read and written outside of them.  A frame and its framebuffer are the  *)
(* number of the frame.                                                    *)
(***************************************************************************)
EXTENDS Integers

CONSTANT MaxRkFrames    \* bound: so many frames are decoded

ASSUME RkAssumption == MaxRkFrames \in Nat \ {0, 1}

VARIABLES
    rkDecoded,      \* the frames the decoder has put out
    rkFetched,      \* the frames decode_get_frame has returned
    rkReset,        \* the decoder was reset: it puts out nothing more
    rkFrame,        \* frame_thread: where it is, its frame, its count
    rkDisplay,      \* display_thread: where it is, its _fb_id
    rkCleanup,      \* rk_cleanup: where it is
    fb_id, frm_eos,
    rkLock,         \* the mutex and the condition exist
    rkPlane,        \* what drmModeSetPlane was called with last
    rkAborted       \* an assertion has failed

rkVars == <<rkDecoded, rkFetched, rkReset, rkFrame, rkDisplay, rkCleanup, fb_id,
            frm_eos, rkLock, rkPlane, rkAborted>>

(* rk_setup, up to the start of the threads. *)
RkInit ==
    /\ rkDecoded = 0 /\ rkFetched = 0 /\ rkReset = FALSE
    /\ rkFrame = [pc |-> "top", frame |-> 0, count |-> 0]
    /\ rkDisplay = [pc |-> "top", fb |-> 0]
    /\ rkCleanup = "none"
    /\ fb_id = 0 /\ frm_eos = FALSE
    /\ rkLock = TRUE /\ rkPlane = 0 /\ rkAborted = FALSE

-----------------------------------------------------------------------------
(* rk_submit_decode_unit: a unit that is not too long becomes a frame; the *)
(* first thing the decoder puts out tells the resolution.  LiStopConnection *)
(* sends nothing more when it calls the cleanup.                           *)
RkSubmit ==
    /\ rkCleanup = "none" /\ rkDecoded < MaxRkFrames
    /\ rkDecoded' = rkDecoded + 1
    /\ UNCHANGED <<rkFetched, rkReset, rkFrame, rkDisplay, rkCleanup, fb_id, frm_eos,
                   rkLock, rkPlane, rkAborted>>

frameUnchanged == <<rkDecoded, rkReset, rkCleanup, rkPlane>>

FrameTop ==
    /\ rkFrame.pc = "top"
    /\ rkFrame' = [rkFrame EXCEPT !.pc = IF frm_eos THEN "done" ELSE "get"]
    /\ UNCHANGED <<frameUnchanged, rkFetched, rkDisplay, fb_id, frm_eos, rkLock,
                   rkAborted>>

(* decode_get_frame blocks until there is a frame.  Three errors in all    *)
(* are forgiven; then, and after the reset, the thread ends.               *)
FrameGet ==
    /\ rkFrame.pc = "get"
    /\ \/ /\ rkFetched < rkDecoded /\ ~rkReset
          /\ rkFetched' = rkFetched + 1
          /\ rkFrame' = [rkFrame EXCEPT !.pc = "got", !.frame = rkFetched']
       \/ /\ rkReset \/ rkFrame.count = 3
          /\ rkFrame' = [rkFrame EXCEPT !.pc = "done"]
          /\ UNCHANGED rkFetched
       \/ /\ rkFrame.count < 3
          /\ rkFrame' = [rkFrame EXCEPT !.pc = "top", !.count = @ + 1]
          /\ UNCHANGED rkFetched
    /\ UNCHANGED <<frameUnchanged, rkDisplay, fb_id, frm_eos, rkLock,
                   rkAborted>>

(* The resolution is known: the framebuffers are made.  It does not change *)
(* again, which the code asserts.                                          *)
InfoChange ==
    /\ rkFrame.pc = "got" /\ rkFrame.frame = 1
    /\ rkFrame' = [rkFrame EXCEPT !.pc = "eos"]
    /\ UNCHANGED <<frameUnchanged, rkFetched, rkDisplay, fb_id, frm_eos, rkLock,
                   rkAborted>>

Signalled == IF rkDisplay.pc = "waiting" THEN [rkDisplay EXCEPT !.pc = "woken"]
                                         ELSE rkDisplay

(* The framebuffer is left for the display thread.  A mutex that has been  *)
(* destroyed fails the assertion, if the build has any.  A frame without a  *)
(* buffer is passed over.                                                  *)
HandOver ==
    /\ rkFrame.pc = "got" /\ rkFrame.frame > 1
    /\ \/ /\ fb_id' = rkFrame.frame
          /\ rkDisplay' = Signalled
          /\ rkFrame' = [rkFrame EXCEPT !.pc = "eos"]
          /\ UNCHANGED rkAborted
       \/ /\ ~rkLock /\ rkAborted' = TRUE
          /\ UNCHANGED <<fb_id, rkDisplay, rkFrame>>
       \/ /\ rkFrame' = [rkFrame EXCEPT !.pc = "eos"]
          /\ UNCHANGED <<fb_id, rkDisplay, rkAborted>>
    /\ UNCHANGED <<frameUnchanged, rkFetched, frm_eos, rkLock>>

(* frm_eos = mpp_frame_get_eos: no unit ever carries the mark, so this     *)
(* takes back what rk_cleanup may have written.                            *)
FrameEos ==
    /\ rkFrame.pc = "eos"
    /\ frm_eos' = FALSE
    /\ rkFrame' = [rkFrame EXCEPT !.pc = "top", !.frame = 0]
    /\ UNCHANGED <<frameUnchanged, rkFetched, rkDisplay, fb_id, rkLock,
                   rkAborted>>

frame_thread ==
    ~rkAborted /\ (FrameTop \/ FrameGet \/ InfoChange \/ HandOver \/ FrameEos)

-----------------------------------------------------------------------------
displayUnchanged == <<rkDecoded, rkFetched, rkReset, rkFrame, rkCleanup, frm_eos,
                      rkLock, rkAborted>>

DisplayTop ==
    /\ rkDisplay.pc = "top"
    /\ rkDisplay' = [rkDisplay EXCEPT !.pc = IF frm_eos THEN "done" ELSE "lock"]
    /\ UNCHANGED <<displayUnchanged, fb_id, rkPlane>>

(* Faulty: the thread does not look again when it is woken. *)
MustWait_once == fb_id = 0 /\ rkDisplay.pc = "lock"
MustWait == fb_id = 0

(* Faulty: the number is taken back without the lock, when the framebuffer *)
(* has been shown.                                                         *)
Retake_shown(step) == step = "show"
Retake(step) == step = "take"

Stopped == rkDisplay.pc = "woken" /\ fb_id = 0 /\ frm_eos

(* The critical section of display_thread, from its start or from a wake.  *)
DisplayTake ==
    /\ rkDisplay.pc \in {"lock", "woken"}
    /\ \/ /\ Stopped
          /\ rkDisplay' = [rkDisplay EXCEPT !.pc = "done"]
          /\ UNCHANGED fb_id
       \/ /\ ~Stopped /\ MustWait
          /\ rkDisplay' = [rkDisplay EXCEPT !.pc = "waiting"]
          /\ UNCHANGED fb_id
       \/ /\ ~Stopped /\ ~MustWait
          /\ rkDisplay' = [pc |-> "show", fb |-> fb_id]
          /\ fb_id' = IF Retake("take") THEN 0 ELSE fb_id
    /\ UNCHANGED <<displayUnchanged, rkPlane>>

(* pthread_cond_wait may return without a signal. *)
SpuriousWake ==
    /\ ~rkAborted /\ rkDisplay.pc = "waiting"
    /\ rkDisplay' = [rkDisplay EXCEPT !.pc = "woken"]
    /\ UNCHANGED <<displayUnchanged, fb_id, rkPlane>>

(* drmModeSetPlane, which waits for the screen. *)
DisplayShow ==
    /\ rkDisplay.pc = "show"
    /\ rkPlane' = rkDisplay.fb
    /\ rkDisplay' = [pc |-> "top", fb |-> 0]
    /\ fb_id' = IF Retake("show") THEN 0 ELSE fb_id
    /\ UNCHANGED displayUnchanged

display_thread == ~rkAborted /\ (DisplayTop \/ DisplayTake \/ DisplayShow)

-----------------------------------------------------------------------------
(* rk_cleanup, in the main thread. *)

cleanupUnchanged == <<rkDecoded, rkFetched, rkFrame, fb_id, rkPlane,
                      rkAborted>>

CleanupFlag ==
    /\ ~rkAborted /\ rkCleanup = "none"
    /\ frm_eos' = TRUE
    /\ rkCleanup' = "flagged"
    /\ UNCHANGED <<cleanupUnchanged, rkDisplay, rkReset, rkLock>>

CleanupSignal ==
    /\ rkCleanup = "flagged"
    /\ rkDisplay' = Signalled
    /\ rkCleanup' = "signalled"
    /\ UNCHANGED <<cleanupUnchanged, frm_eos, rkReset, rkLock>>

CleanupJoinDisplay ==
    /\ rkCleanup = "signalled" /\ rkDisplay.pc = "done"
    /\ rkLock' = FALSE /\ rkReset' = TRUE
    /\ rkCleanup' = "joined"
    /\ UNCHANGED <<cleanupUnchanged, frm_eos, rkDisplay>>

CleanupJoinFrame ==
    /\ rkCleanup = "joined" /\ rkFrame.pc = "done"
    /\ rkCleanup' = "freed"
    /\ UNCHANGED <<cleanupUnchanged, frm_eos, rkDisplay, rkReset, rkLock>>

rk_cleanup ==
    ~rkAborted /\ (CleanupSignal \/ CleanupJoinDisplay \/ CleanupJoinFrame)

rkNext ==
    \/ ~rkAborted /\ RkSubmit
    \/ frame_thread \/ display_thread \/ SpuriousWake
    \/ CleanupFlag \/ rk_cleanup

-----------------------------------------------------------------------------
(* rk.c:88: the plane never goes back to an older framebuffer and never to *)
(* none, however the threads are woken.                                    *)
RkInOrder == [][rkPlane' > rkPlane]_rkPlane

(* rk.c:97: a framebuffer that was left for the display thread is shown,   *)
(* or a later one is, unless the stream is ended before.                   *)
RkLatestShown ==
    \A n \in 2..MaxRkFrames :
        fb_id = n ~> rkPlane >= n \/ rkCleanup # "none" \/ rkAborted

(* docs/README.pod:196 "Use Ctrl+Alt+Shift+Q or Play+Back+LeftShoulder+    *)
(* RightShoulder to quit the streaming session": rk_cleanup, which         *)
(* quitting leads to, comes to its end.                                    *)
RkCleanupEnds == rkCleanup = "flagged" ~> rkCleanup = "freed" \/ rkAborted
=============================================================================
