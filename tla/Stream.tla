------------------------------- MODULE Stream -------------------------------
(***************************************************************************)
(* A stream from the choice of the platform to its end: the main thread,   *)
(* the devices of /dev/input, the window, and the threads of the           *)
(* connection that call back into them.                                    *)
(***************************************************************************)
EXTENDS Evdev, WindowInput

vars == <<streamingVars, evdevVars, windowVars>>

Init == StreamingInit /\ EvdevInit /\ WindowInit

mainNext ==
    /\ \/ PlatformCheck
       \/ Start(evdev_gamepads + IF platform = "sdl" THEN joysticks ELSE 0)
       \/ Connect \/ Terminated \/ Signal \/ LoopSignal \/ Stop
    /\ UNCHANGED <<evdevVars, windowVars>>

Next ==
    \/ mainNext
    \/ evdevNext /\ UNCHANGED windowVars
    \/ windowNext /\ UNCHANGED evdevVars

Spec == Init /\ [][Next]_vars

(* The main thread goes on when it can; loop_main serves every descriptor  *)
(* that poll found ready before it polls again, the signalfd among them.   *)
(* Nothing is assumed of users, devices and the connection.                *)
Fairness ==
    /\ WF_vars(AddInput /\ UNCHANGED windowVars)
    /\ WF_vars(SdlInit /\ UNCHANGED evdevVars)
    /\ WF_vars((Start(evdev_gamepads + IF platform = "sdl" THEN joysticks ELSE 0)
                \/ Connect \/ LoopSignal \/ Stop) /\ UNCHANGED <<evdevVars, windowVars>>)

FairSpec == Spec /\ Fairness

-----------------------------------------------------------------------------
StreamTypeOK == EvdevTypeOK /\ WindowTypeOK

(* While it streams the host never believes a key to be down that nobody   *)
(* holds, unless its release was lost with a report or a device, came in a *)
(* combination of SDL's, or went to another window (evdev.c:238,           *)
(* x11.c:86, sdl.c:180).                                                   *)
NoGhostKeys ==
    stage = "loop" => remote.keys \subseteq Down \union keysDown \union missed

(* evdev.c:229, sdl.c:168, x11.c:58: whatever it is left by, the stream is *)
(* left by its user only: QuitMeant and WindowQuitMeant.                   *)
QuitAlwaysMeant == QuitMeant /\ WindowQuitMeant

(* evdev.c:189, input/sdl.c:49: gamepads are told apart by the host, those *)
(* of /dev/input by their numbers and those of SDL by their slots:         *)
(* PadsApart and SlotsApart.                                               *)
NumbersApart == PadsApart /\ SlotsApart

(* connection.c:30: when the connection ends by itself the program does,   *)
(* but on SDL, where no thread is sent the signal.                         *)
TerminatedEnds ==
    connection = "terminated" /\ IS_EMBEDDED(platform) ~> stage = "stopped"

(* loop.c:39, and SDL's own handler: the program ends after a signal.      *)
SignalEnds == signalled ~> stage \in {"stopped", "exited"}
=============================================================================
