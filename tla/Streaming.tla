----------------------------- MODULE Streaming -----------------------------
(***************************************************************************)
(* The main thread of moonlight-embedded while it streams: the choice of   *)
(* the platform (platform.c, main.c), stream() of main.c, the event loop   *)
(* (loop.c) with its signals, and the callbacks that other threads run     *)
(* (connection.c).  moonlight-common-c is not part of the repository: of   *)
(* it the model has what the host was told last, and that the connection   *)
(* may end at any moment.                                                  *)
(*                                                                         *)
(* The input handlers, which Evdev and WindowInput add, run in the main    *)
(* thread while stage is "loop".                                           *)
(***************************************************************************)
EXTENDS Integers, Sequences, FiniteSets, SequencesExt, FiniteSetsExt

CONSTANTS
    Built,              \* the platforms this program was compiled with
    PlatformNames,      \* what users give as -platform
    MAX_CONTROLLERS,    \* four in the code: "i < 4"
    ModifierOf,         \* a function from keys to modifiers or None
    None,
    QUIT_KEY,
    QUIT_BUTTONS        \* play, back and both shoulders

ACTION_MODIFIERS == {"shift", "alt", "ctrl"}

ASSUME StreamingAssumption ==
    /\ Built \subseteq {"imx", "pi", "aml", "rk", "x11", "sdl"}
    /\ MAX_CONTROLLERS \in Nat \ {0}
    /\ \A k \in DOMAIN ModifierOf : ModifierOf[k] \in ACTION_MODIFIERS \union {None}
    /\ ModifierOf[QUIT_KEY] = None
    /\ QUIT_BUTTONS # {}

VARIABLES
    platform,       \* what platform_check returned
    stage,          \* where the main thread is
    connection,     \* "none", "up", "failed" or "terminated"
    signalled,      \* a signal waits at the signalfd, or is an event of SDL
    main_thread_id, \* whether connection.c knows the main thread
    blanked,        \* the console of the framebuffer is blanked
    leftBy,         \* history: what made the loop return
    remote          \* what the host was told last: keys down, and of each
                    \* controller number the buttons and the stick; its mask

streamingVars == <<platform, stage, connection, signalled, main_thread_id,
                   blanked, leftBy, remote>>

ControllerIds == 0..(MAX_CONTROLLERS - 1)
Stages == {"check", "inputs", "start", "connect", "loop", "stopping", "stopped",
           "exited"}
Nobody == [how |-> "nobody"]
Pad == [buttons |-> {}, stick |-> 0]

IS_EMBEDDED(system) == system # "sdl"

StreamingInit ==
    /\ platform = "none" /\ stage = "check" /\ connection = "none"
    /\ signalled = FALSE /\ main_thread_id = FALSE /\ blanked = FALSE
    /\ leftBy = Nobody
    /\ remote = [keys |-> {}, pads |-> [id \in ControllerIds |-> Pad], mask |-> {}]

-----------------------------------------------------------------------------
(* platform_check: the first platform that was built, is asked for and is  *)
(* there.  The X11 one counts as there although no display could be opened. *)
platform_check(name, there) ==
    LET Asked(p) == p \in Built /\ name \in {"auto", p}
        order == <<"imx", "pi", "aml", "rk", "x11", "sdl">>
        i == SelectInSeq(order, LAMBDA p :
                Asked(p) /\ (p \in there \/ p \in {"x11", "sdl"}))
    IN  IF i # 0 THEN order[i] ELSE IF name = "fake" THEN "fake" ELSE "none"

(* The program ends with exit(-1) without a platform, or when options are  *)
(* given that SDL does not take, or without a mapping file.                *)
PlatformCheck ==
    /\ stage = "check"
    /\ \E name \in PlatformNames, there \in SUBSET Built :
          platform' = platform_check(name, there)
    /\ \/ platform' # "none" /\ stage' = "inputs"
       \/ stage' = "exited"
    /\ UNCHANGED <<connection, signalled, main_thread_id, blanked, leftBy, remote>>

(* stream(): the mask of the launch request says how many pads there are,  *)
(* and not which numbers they will have.                                   *)
GamepadMask(gamepads) ==
    {id \in ControllerIds : id < gamepads}

(* Faulty: the callbacks are not told which thread to send the signal to. *)
LoopInit_noThread ==
    UNCHANGED main_thread_id

(* loop_init: from here on signals are read from the signalfd. *)
LoopInit ==
    main_thread_id' = IS_EMBEDDED(platform)

(* platform_start blanks the console of two platforms. *)
Blanks(system) == system \in {"aml", "pi"}

(* The host starts the application, or the program ends: see Gamestream. *)
Start(gamepads) ==
    /\ stage = "start"
    /\ \/ /\ remote' = [remote EXCEPT !.mask = GamepadMask(gamepads)]
          /\ LoopInit
          /\ blanked' = Blanks(platform)
          /\ stage' = "connect"
       \/ /\ stage' = "exited"
          /\ UNCHANGED <<remote, main_thread_id, blanked>>
    /\ UNCHANGED <<platform, connection, signalled, leftBy>>

(* LiStartConnection, whose result nobody reads; then evdev_start. *)
Connect ==
    /\ stage = "connect"
    /\ connection' \in {"up", "failed"}
    /\ stage' = "loop"
    /\ UNCHANGED <<platform, signalled, main_thread_id, blanked, leftBy, remote>>

(* connection_terminated, in a thread of the connection. *)
Terminated ==
    /\ connection = "up" /\ stage \in {"loop", "stopping"}
    /\ connection' = "terminated"
    /\ signalled' = (signalled \/ main_thread_id)
    /\ UNCHANGED <<platform, stage, main_thread_id, blanked, leftBy, remote>>

(* SIGINT and the like.  Nothing handles them before loop_init, or before  *)
(* SDL_Init on the platform of that name.                                  *)
Signal ==
    /\ stage \notin {"stopped", "exited"}
    /\ \/ /\ stage = "check" \/ (stage \in {"inputs", "start"} /\ IS_EMBEDDED(platform))
          /\ stage' = "exited"
          /\ UNCHANGED signalled
       \/ /\ stage \in {"connect", "loop", "stopping"} \/ ~IS_EMBEDDED(platform)
          /\ stage # "check"
          /\ signalled' = TRUE
          /\ UNCHANGED stage
    /\ UNCHANGED <<platform, connection, main_thread_id, blanked, leftBy, remote>>

(* The loop returns: LOOP_RETURN of a handler, or done in sdl_loop. *)
Leave(reason) ==
    /\ stage' = "stopping"
    /\ leftBy' = reason

Stays == UNCHANGED <<stage, leftBy>>

(* Faulty: the signal is read and the loop goes on. *)
OnSignal_stays == Stays
(* loop_sig_handler, or SDL_QUIT. *)
OnSignal == Leave([how |-> "signal"])

LoopSignal ==
    /\ stage = "loop" /\ signalled
    /\ signalled' = FALSE
    /\ OnSignal
    /\ UNCHANGED <<platform, connection, main_thread_id, blanked, remote>>

(* The rest of stream(): evdev_stop, LiStopConnection, gs_quit_app and     *)
(* platform_stop.                                                          *)
Stop ==
    /\ stage = "stopping"
    /\ stage' = "stopped"
    /\ connection' = "none"
    /\ blanked' = (blanked /\ ~Blanks(platform))
    /\ UNCHANGED <<platform, signalled, main_thread_id, leftBy, remote>>

-----------------------------------------------------------------------------
(* What LiSendKeyboardEvent, LiSendMouseButtonEvent and                    *)
(* LiSendMultiControllerEvent make the host believe.                       *)

Modifiers(keys) == {ModifierOf[k] : k \in keys \intersect DOMAIN ModifierOf} \ {None}

SendKey(key, down) ==
    remote' = [remote EXCEPT !.keys = IF down THEN @ \union {key} ELSE @ \ {key}]

SendPad(id, mask, buttons, stick) ==
    remote' = [remote EXCEPT !.mask = mask,
                             !.pads[id] = [buttons |-> buttons, stick |-> stick]]

InLoop == UNCHANGED <<platform, connection, signalled, main_thread_id, blanked>>
=============================================================================
