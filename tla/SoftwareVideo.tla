--------------------------- MODULE SoftwareVideo ----------------------------
(***************************************************************************)
(* video/ffmpeg.c with video/x11.c, or with video/sdl.c and sdl_loop of    *)
(* sdl.c.  The thread of the video stream decodes into a ring of           *)
(* dec_frames_cnt frames and tells the main thread, which draws: on X11 a  *)
(* pointer goes through a pipe, on SDL an event through its queue and a    *)
(* mutex guards the ring.  A frame is its number; what a place of the ring *)
(* holds while it is written is undefined.                                 *)
(***************************************************************************)
EXTENDS Integers, Sequences, SequencesExt

CONSTANTS
    dec_frames_cnt,     \* two, on both platforms
    MaxDecoded          \* bound: so many frames are decoded

ASSUME SoftwareAssumption ==
    /\ dec_frames_cnt \in Nat \ {0, 1}
    /\ MaxDecoded \in Nat

VARIABLES
    system,         \* "x11" or "sdl"
    ready,          \* "no", "yes" or "gone": the decoder and its ring
    decoded,        \* how many frames there were
    dec_frames,     \* of each place the frame it holds, or 0
    next_frame,
    decoder,        \* the thread of the stream: "idle", "wait", "receive", "tell"
    channel,        \* the pipe or the queue: <<[place, frame], ...>>
    lockedBy,       \* SDL's mutex: "nobody", "decoder" or "main"
    sdlNextFrame, sdlCurrentFrame,
    drawing,        \* the main thread: where it is, with which place
    shown           \* the frame that was drawn last

ringVars == <<ready, decoded, dec_frames, next_frame, sdlNextFrame>>
softwareVars == <<system, ringVars, decoder, channel, lockedBy, sdlCurrentFrame,
                  drawing, shown>>

Places == 0..(dec_frames_cnt - 1)
NoDraw == [pc |-> "idle", place |-> 0, frame |-> 0]

SoftwareInit ==
    /\ system \in {"x11", "sdl"}
    /\ ready = "no" /\ decoded = 0
    /\ dec_frames = [p \in Places |-> 0] /\ next_frame = 0
    /\ decoder = "idle" /\ channel = <<>> /\ lockedBy = "nobody"
    /\ sdlNextFrame = 0 /\ sdlCurrentFrame = 0
    /\ drawing = NoDraw /\ shown = 0

-----------------------------------------------------------------------------
(* ffmpeg_init, called by x11_setup or sdl_setup.  When it fails no unit   *)
(* is ever submitted.                                                      *)
Setup ==
    /\ ready = "no"
    /\ ready' \in {"yes", "gone"}
    /\ UNCHANGED <<system, decoded, dec_frames, next_frame, sdlNextFrame, decoder,
                   channel, lockedBy, sdlCurrentFrame, drawing, shown>>

(* Faulty: the mutex is not taken. *)
Guarded_never == FALSE
Guarded == system = "sdl"

(* x11_submit_decode_unit and sdl_submit_decode_unit, step by step: a unit *)
(* is decoded; SDL takes the mutex.                                        *)
Submit ==
    /\ ready = "yes" /\ decoder = "idle" /\ decoded < MaxDecoded
    /\ decoder' = IF Guarded THEN "wait" ELSE "receive"
    /\ UNCHANGED <<system, ringVars, channel, lockedBy, sdlCurrentFrame, drawing, shown>>

SubmitLock ==
    /\ decoder = "wait" /\ lockedBy = "nobody"
    /\ lockedBy' = "decoder"
    /\ decoder' = "receive"
    /\ UNCHANGED <<system, ringVars, channel, sdlCurrentFrame, drawing, shown>>

Unlocked == lockedBy' = IF lockedBy = "decoder" THEN "nobody" ELSE lockedBy

NextPlace(p) == (p + 1) % dec_frames_cnt

(* ffmpeg_get_frame: avcodec_receive_frame gives the place free first,     *)
(* also when it has no frame for it.                                       *)
Receive ==
    /\ decoder = "receive"
    /\ \/ /\ decoded' = decoded + 1
          /\ dec_frames' = [dec_frames EXCEPT ![next_frame] = decoded + 1]
          /\ next_frame' = NextPlace(next_frame)
          /\ sdlNextFrame' = sdlNextFrame + 1
          /\ decoder' = "tell"
          /\ UNCHANGED lockedBy
       \/ /\ dec_frames' = [dec_frames EXCEPT ![next_frame] = 0]
          /\ decoder' = "idle"
          /\ Unlocked
          /\ UNCHANGED <<decoded, next_frame, sdlNextFrame>>
    /\ UNCHANGED <<system, ready, channel, sdlCurrentFrame, drawing, shown>>

PlaceOf(frame) == CHOOSE p \in Places : dec_frames[p] = frame

Tell ==
    /\ decoder = "tell"
    /\ channel' = Append(channel, [place |-> PlaceOf(decoded), frame |-> decoded])
    /\ decoder' = "idle"
    /\ Unlocked
    /\ UNCHANGED <<system, ringVars, sdlCurrentFrame, drawing, shown>>

-----------------------------------------------------------------------------
(* Faulty: the oldest of the pointers is drawn. *)
Chosen_first(pointers) == Head(pointers)
Chosen(pointers) == Last(pointers)

(* frame_handle: the pipe is emptied, and the last pointer drawn. *)
FrameHandle ==
    /\ system = "x11" /\ drawing.pc = "idle" /\ channel # <<>> /\ ready = "yes"
    /\ drawing' = [pc |-> "draw", place |-> Chosen(channel).place,
                   frame |-> Chosen(channel).frame]
    /\ channel' = <<>>
    /\ UNCHANGED <<system, ringVars, decoder, lockedBy, sdlCurrentFrame, shown>>

(* sdl_loop: an event that another one has overtaken is skipped.  The      *)
(* counters are compared without the mutex.                                *)
FrameEvent ==
    /\ system = "sdl" /\ drawing.pc = "idle" /\ channel # <<>> /\ ready = "yes"
    /\ sdlCurrentFrame' = sdlCurrentFrame + 1
    /\ drawing' = IF sdlCurrentFrame' <= sdlNextFrame - dec_frames_cnt THEN NoDraw
                  ELSE [pc |-> "wait", place |-> Head(channel).place,
                        frame |-> Head(channel).frame]
    /\ channel' = Tail(channel)
    /\ UNCHANGED <<system, ringVars, decoder, lockedBy, shown>>

DrawLock ==
    /\ drawing.pc = "wait" /\ lockedBy = "nobody"
    /\ lockedBy' = "main"
    /\ drawing' = [drawing EXCEPT !.pc = "draw"]
    /\ UNCHANGED <<system, ringVars, decoder, channel, sdlCurrentFrame, shown>>

(* egl_draw, or SDL_UpdateYUVTexture and what follows. *)
Draw ==
    /\ drawing.pc = "draw"
    /\ shown' = IF dec_frames[drawing.place] = 0 THEN shown ELSE dec_frames[drawing.place]
    /\ drawing' = NoDraw
    /\ lockedBy' = IF lockedBy = "main" THEN "nobody" ELSE lockedBy
    /\ UNCHANGED <<system, ringVars, decoder, channel, sdlCurrentFrame>>

(* ffmpeg_destroy.  LiStopConnection has stopped the stream's thread, and  *)
(* is called by the main thread.                                           *)
Cleanup ==
    /\ ready = "yes" /\ decoder = "idle" /\ drawing.pc = "idle"
    /\ ready' = "gone"
    /\ dec_frames' = [p \in Places |-> 0]
    /\ UNCHANGED <<system, decoded, next_frame, sdlNextFrame, decoder, channel, lockedBy,
                   sdlCurrentFrame, drawing, shown>>

softwareNext ==
    \/ Setup \/ Cleanup
    \/ Submit \/ SubmitLock \/ Receive \/ Tell
    \/ FrameHandle \/ FrameEvent \/ DrawLock \/ Draw

-----------------------------------------------------------------------------
(* ffmpeg.c:147, sdl.c:96: nothing is drawn while it is written.  The      *)
(* mutex sees to that on SDL; on X11 nothing does, and it holds as long as *)
(* the decoder does not begin the frame that comes a whole ring after the  *)
(* drawn one.                                                              *)
DrawnWhole ==
    drawing.pc = "draw" /\ decoder = "receive" /\ drawing.place = next_frame =>
        system = "x11" /\ decoded + 1 >= drawing.frame + dec_frames_cnt

(* sdl.c:94, video/x11.c:56: whatever is skipped, once both threads rest   *)
(* the newest frame is on the screen.                                      *)
NewestShown ==
    ready = "yes" /\ decoder = "idle" /\ drawing.pc = "idle" /\ channel = <<>> =>
        shown = decoded
=============================================================================
