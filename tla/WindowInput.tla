---------------------------- MODULE WindowInput ----------------------------
(***************************************************************************)
(* Input through a window: input/x11.c on the X11 platforms, input/sdl.c   *)
(* with sdl_loop of sdl.c on SDL.  Both see the keyboard and the mouse     *)
(* through the window system; SDL also opens the gamepads that are there   *)
(* at the start, and those only.                                           *)
(***************************************************************************)
EXTENDS Streaming

CONSTANTS
    WindowKeys,     \* the keys that are used, and buttons of the mouse
    MouseButtons,
    FULLSCREEN_KEY,
    PadButtons,
    MaxJoysticks    \* bound: so many gamepads at the start

ASSUME WindowInputAssumption ==
    /\ MouseButtons \subseteq WindowKeys
    /\ WindowKeys \subseteq DOMAIN ModifierOf
    /\ \A k \in MouseButtons \union {FULLSCREEN_KEY} : ModifierOf[k] = None
    /\ MaxJoysticks \in Nat

VARIABLES
    keysDown,           \* the keys that are physically down
    keyboard_modifiers,
    grabbed,            \* the pointer belongs to the window
    fullscreen,
    joysticks,          \* how many gamepads there are
    opened,             \* how many sdlinput_init has opened
    padDown,            \* the buttons that are down on each
    gamepads,           \* the slots of SDL's gamepads, 0 .. 3
    padEffects,         \* the effects each gamepad plays
    missed              \* history: keys whose coming up was not taken for one: in
                        \* a combination of SDL's, or while another window had
                        \* the focus

windowKeyVars == <<keysDown, keyboard_modifiers, grabbed, fullscreen, missed>>
windowPadVars == <<joysticks, opened, padDown, gamepads, padEffects>>
windowVars == <<windowKeyVars, windowPadVars>>

Joysticks == 0..(joysticks - 1)
EmptySlot == [initialized |-> FALSE, sdl_id |-> -1, buttons |-> {}, haptic |-> -1,
              haptic_effect_id |-> -1]

WindowInit ==
    /\ keysDown = {} /\ keyboard_modifiers = {}
    /\ grabbed = TRUE /\ fullscreen \in BOOLEAN
    /\ joysticks \in 0..MaxJoysticks /\ opened = 0
    /\ padDown = [j \in 0..(MaxJoysticks - 1) |-> {}]
    /\ gamepads = [id \in ControllerIds |-> EmptySlot]
    /\ padEffects = [j \in 0..(MaxJoysticks - 1) |-> {}]
    /\ missed = {}

-----------------------------------------------------------------------------
(* Keys.  X11 and SDL repeat a key that is held; X11 does so with a        *)
(* release and a press.                                                    *)

QuitX11(key, down) ==
    ~down /\ ACTION_MODIFIERS \subseteq keyboard_modifiers /\ key = QUIT_KEY


UpdateModifiers(key, down) ==
    keyboard_modifiers' =
        IF down THEN keyboard_modifiers \union Modifiers({key})
                ELSE keyboard_modifiers \ Modifiers({key})

(* x11_handler: any other key that comes up while the modifiers are down,  *)
(* one of them too, gives the pointer free or takes it.                    *)
X11Key(key, down) ==
    IF QuitX11(key, down)
    THEN /\ Leave([how |-> "window", key |-> key])
         /\ UNCHANGED <<keyboard_modifiers, grabbed, fullscreen, remote, missed>>
    ELSE /\ grabbed' = IF ~down /\ ACTION_MODIFIERS \subseteq keyboard_modifiers
                       THEN ~grabbed ELSE grabbed
         /\ UpdateModifiers(key, down)
         /\ SendKey(key, down)
         /\ missed' = IF down THEN missed ELSE missed \ {key}
         /\ Stays
         /\ UNCHANGED fullscreen

InCombination(modifiers) == ACTION_MODIFIERS \subseteq modifiers

(* sdlinput_handle_event and sdl_loop: while all modifiers are down no key *)
(* is sent; the combination quits, changes to full screen, or gives the    *)
(* pointer free.                                                           *)
SdlKey(key, down) ==
    /\ UpdateModifiers(key, down)
    /\ IF InCombination(keyboard_modifiers')
       THEN /\ IF ~down /\ key = QUIT_KEY THEN Leave([how |-> "window", key |-> key]) ELSE Stays
            /\ fullscreen' = (fullscreen # (~down /\ key = FULLSCREEN_KEY))
            /\ grabbed' = IF ~down /\ key = QUIT_KEY THEN grabbed
                          ELSE ~down /\ key = FULLSCREEN_KEY
            /\ missed' = IF down THEN missed ELSE missed \union {key}
            /\ UNCHANGED remote
       ELSE /\ SendKey(key, down)
            /\ Stays
            /\ missed' = IF down THEN missed ELSE missed \ {key}
            /\ UNCHANGED <<fullscreen, grabbed>>

(* Faulty: buttons are sent only while the pointer is grabbed. *)
SendButton_grabbed(button, down) ==
    IF grabbed THEN SendKey(button, down) ELSE UNCHANGED remote
SendButton(button, down) == SendKey(button, down)

(* Buttons of the mouse; one that goes down or up in SDL's window grabs    *)
(* the pointer again.                                                      *)
MouseButton(button, down) ==
    /\ SendButton(button, down)
    /\ grabbed' = (grabbed \/ platform = "sdl")
    /\ missed' = IF down THEN missed ELSE missed \ {button}
    /\ Stays
    /\ UNCHANGED <<keyboard_modifiers, fullscreen>>

InWindow ==
    /\ stage = "loop" /\ platform \in {"x11", "sdl"}
    /\ platform = "x11" => connection # "failed"

WindowEvent(key, down) ==
    IF key \in MouseButtons THEN MouseButton(key, down)
    ELSE IF platform = "x11" THEN X11Key(key, down) ELSE SdlKey(key, down)

KeyEvent(key) ==
    /\ InWindow
    /\ keysDown' = IF key \in keysDown THEN keysDown \ {key} ELSE keysDown \union {key}
    /\ WindowEvent(key, key \in keysDown')
    /\ InLoop
    /\ UNCHANGED windowPadVars

(* X11's repetition of a key that is held: the release is handled as one   *)
(* when the key comes up, the press after it as any.                       *)
Repeat(key) ==
    /\ InWindow /\ platform = "x11" /\ key \in keysDown \ MouseButtons
    /\ ModifierOf[key] = None
    /\ X11Key(key, FALSE)
    /\ keysDown' = keysDown \ {key}
    /\ InLoop
    /\ UNCHANGED windowPadVars

(* Keys come up while another window has the focus.  SDL makes releases of *)
(* its own when its window loses the focus; x11.c does not.                *)
OutOfFocus ==
    /\ InWindow /\ platform = "x11" /\ keysDown # {}
    /\ missed' = missed \union keysDown
    /\ keysDown' = {}
    /\ UNCHANGED <<streamingVars, keyboard_modifiers, grabbed, fullscreen, windowPadVars>>

(* WM_DELETE_WINDOW or SDL_QUIT. *)
WindowClosed ==
    /\ InWindow
    /\ Leave([how |-> "closed"])
    /\ InLoop
    /\ UNCHANGED <<remote, windowVars>>

-----------------------------------------------------------------------------
(* The gamepads of SDL. *)

(* get_gamepad: the slot of the gamepad, or else the first free one, or    *)
(* else slot 0.                                                            *)
SlotOf(pads, j) ==
    LET fits == {id \in ControllerIds : ~pads[id].initialized \/ pads[id].sdl_id = j}
    IN  IF fits # {} THEN Min(fits) ELSE 0

get_gamepad(pads, j) ==
    LET id == SlotOf(pads, j)
    IN  IF pads[id].initialized THEN pads
        ELSE [pads EXCEPT ![id] = [EmptySlot EXCEPT !.initialized = TRUE, !.sdl_id = j]]

(* init_gamepad; one gamepad more than there are slots takes the haptic    *)
(* device of slot 0.                                                       *)
init_gamepad(pads, j) ==
    LET id == SlotOf(pads, j)
    IN  [get_gamepad(pads, j) EXCEPT ![id].haptic = j, ![id].haptic_effect_id = -1]

activeGamepadMask(pads) == {id \in ControllerIds : pads[id].initialized}

(* sdl_init and sdlinput_init: the gamepads one by one. *)
SdlInit ==
    /\ stage = "inputs" /\ platform = "sdl"
    /\ IF opened < joysticks
       THEN /\ gamepads' = init_gamepad(gamepads, opened)
            /\ opened' = opened + 1
            /\ UNCHANGED stage
       ELSE stage' = "start" /\ UNCHANGED <<gamepads, opened>>
    /\ UNCHANGED <<platform, connection, signalled, main_thread_id, blanked, leftBy,
                   remote, windowKeyVars, joysticks, padDown, padEffects>>

PadEvent(j, b) ==
    LET id == SlotOf(gamepads, j)
        down == b \notin padDown[j]
        pads == [get_gamepad(gamepads, j) EXCEPT ![id].buttons =
                    IF down THEN @ \union {b} ELSE @ \ {b}]
    IN  /\ stage = "loop" /\ platform = "sdl" /\ j \in Joysticks
        /\ padDown' = [padDown EXCEPT ![j] = IF down THEN @ \union {b} ELSE @ \ {b}]
        /\ gamepads' = pads
        /\ IF QUIT_BUTTONS \subseteq pads[id].buttons
           THEN Leave([how |-> "pad", joystick |-> j]) /\ UNCHANGED remote
           ELSE Stays /\ SendPad(id, activeGamepadMask(pads), pads[id].buttons, 0)
        /\ InLoop
        /\ UNCHANGED <<windowKeyVars, joysticks, opened, padEffects>>

HapticOf(id) == gamepads[id].haptic

(* sdlinput_rumble: the number of an effect that was stopped stays in the  *)
(* slot.  A gamepad has room for one effect here.                          *)
SdlRumble(id, on) ==
    LET j == HapticOf(id)
        left == padEffects[j] \ {gamepads[id].haptic_effect_id}
    IN  /\ connection = "up" /\ stage \in {"loop", "stopping"} /\ platform = "sdl"
        /\ j # -1
        /\ padEffects' = [padEffects EXCEPT ![j] = IF on THEN left \union {0} ELSE left]
        /\ gamepads' = IF on THEN [gamepads EXCEPT ![id].haptic_effect_id = 0]
                             ELSE gamepads
        /\ UNCHANGED <<streamingVars, windowKeyVars, joysticks, opened, padDown>>

windowNext ==
    \/ \E key \in WindowKeys : KeyEvent(key) \/ Repeat(key)
    \/ OutOfFocus \/ WindowClosed
    \/ SdlInit
    \/ \E j \in Joysticks, b \in PadButtons : PadEvent(j, b)
    \/ \E id \in ControllerIds, on \in BOOLEAN : SdlRumble(id, on)

-----------------------------------------------------------------------------
WindowTypeOK ==
    /\ keysDown \subseteq WindowKeys
    /\ keyboard_modifiers \subseteq ACTION_MODIFIERS
    /\ grabbed \in BOOLEAN /\ fullscreen \in BOOLEAN
    /\ \A j \in DOMAIN padDown : padDown[j] \subseteq PadButtons
    /\ \A id \in ControllerIds : gamepads[id].sdl_id \in Joysticks \union {-1}

(* sdl.c:168, x11.c:58: the window is left by a key only if it is the quit *)
(* key and each modifier is down, or came up out of sight.                 *)
WindowQuitMeant ==
    leftBy.how = "window" =>
        /\ leftBy.key = QUIT_KEY
        /\ ACTION_MODIFIERS \subseteq Modifiers(keysDown \union missed)

(* input/sdl.c:49: the gamepads of SDL have a slot each as long as there   *)
(* are not more gamepads than slots, and it is theirs that shakes.         *)
SlotsApart ==
    platform = "sdl" /\ stage = "loop" /\ joysticks <= MAX_CONTROLLERS =>
        \A j \in Joysticks : \E id \in ControllerIds :
            /\ {k \in ControllerIds : gamepads[k].sdl_id = j} = {id}
            /\ gamepads[id].haptic = j
            /\ gamepads[id].buttons = padDown[j]
=============================================================================
