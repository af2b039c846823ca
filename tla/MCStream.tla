------------------------------ MODULE MCStream ------------------------------
(***************************************************************************)
(* Values for checking Stream with TLC: two keyboards; more gamepads than  *)
(* controller numbers; one gamepad with a hat and a stick.                 *)
(***************************************************************************)
EXTENDS Stream

MCModifierOf ==
    [k \in {"LShift", "RShift", "Alt", "Ctrl", "Q", "F", "Left"} |->
        CASE k \in {"LShift", "RShift"} -> "shift"
          [] k = "Alt" -> "alt"
          [] k = "Ctrl" -> "ctrl"
          [] OTHER -> None]

Keyboard(keys) == [kind |-> "keyboard", controls |-> keys, axis |-> None]
Gamepad(buttons) == [kind |-> "gamepad", controls |-> buttons, axis |-> None]
Stick(min, max, flat, reverse) ==
    [kind |-> "gamepad", controls |-> {},
     axis |-> [min |-> min, max |-> max, flat |-> flat, reverse |-> reverse]]

MCMachines ==
    { <<>>,
      <<Keyboard({"LShift", "RShift", "Alt", "Ctrl", "Q"}), Keyboard({"Alt"})>>,
      <<Gamepad({"play", "back"}), Gamepad({"play"}), Gamepad({"play"})>>,
      <<Stick(0, 7, 1, FALSE)>>, <<Stick(-4, 4, 1, TRUE)>>, <<Stick(0, 8, 0, FALSE)>> }

(* Bound: what does not meet is not multiplied.  The devices are there     *)
(* where /dev/input can be opened, the gamepads of SDL without its keys;   *)
(* reports are lost of keyboards, gamepads rumble without a signal, and    *)
(* before there are more of them than numbers.                             *)
Instance ==
    /\ machine # <<>> => platform \in Privileged \union {"none"}
    /\ platform \in Privileged => machine # <<>>
    /\ joysticks > 0 => /\ platform \in {"sdl", "none"}
                        /\ keysDown = {} /\ ~fullscreen /\ ~signalled
    /\ fullscreen => platform \in {"sdl", "none"}
    /\ cecHeld # {} => Len(machine) < 2
    /\ Len(machine) > 1 => ~signalled /\ connection # "failed"
    /\ overrun => Len(machine) < 3
    /\ Len(machine) = 3 /\ status[3] # "out" =>
          rumbler.pc = "idle" /\ \A n \in Nodes : effects[n] = {}
=============================================================================
