------------------------------- MODULE Evdev -------------------------------
(***************************************************************************)
(* input/evdev.c, input/udev.c and input/cec.c: keyboards and gamepads     *)
(* read from /dev/input.  Devices are plugged and pulled while the main    *)
(* thread reads their events, and the thread of the control stream makes   *)
(* gamepads rumble.  One report of a device is its events up to EV_SYN,    *)
(* which are handled in one step; the kernel's buffer of events may        *)
(* overflow, and then a report is never read.                              *)
(***************************************************************************)
EXTENDS Streaming

CONSTANTS
    Machines,       \* the sets of devices to look at: sequences of
                    \* [kind, controls, axis]
    Privileged      \* the platforms on which /dev/input can be opened

(* axis: [min, max, flat, reverse] of the left stick, or None.  No device  *)
(* is a keyboard and a gamepad in one, a stick has a place between its     *)
(* ends, and who has a hat has no buttons for its directions.              *)
ASSUME EvdevAssumption ==
    /\ \A m \in Machines : \A n \in DOMAIN m :
         /\ m[n].kind \in {"keyboard", "gamepad"}
         /\ m[n].kind = "keyboard" =>
              m[n].controls \subseteq DOMAIN ModifierOf /\ m[n].axis = None
         /\ m[n].axis # None =>
              /\ m[n].axis.min \in Int /\ m[n].axis.max \in Int
              /\ m[n].axis.flat \in Nat /\ m[n].axis.reverse \in BOOLEAN
              /\ m[n].axis.max - m[n].axis.min > 1
              /\ 2 * m[n].axis.flat < m[n].axis.max - m[n].axis.min
              /\ m[n].controls \intersect {"up", "down", "left", "right"} = {}
    /\ Machines \subseteq Seq(UNION {{m[n] : n \in DOMAIN m} : m \in Machines})
    /\ QUIT_BUTTONS \intersect {"up", "down", "left", "right"} = {}

VARIABLES
    machine,    \* the devices there are, or may be plugged
    status,     \* of each: "out", "announced" by udev, "open", "pulled" while
                \* it was open, or "removed"
    held,       \* the controls of each that are physically down
    hat,        \* where its hat is, <<x, y>>
    raw,        \* where its stick is
    devices,    \* devices[0 .. numDevices - 1]
    assignedControllerIds,
    evdev_gamepads,
    rumbler,    \* evdev_rumble: where it is, with which element of devices
    effects,    \* the effects the kernel holds for each device
    cecHeld,    \* keys of the TV's remote control that are down
    lost,       \* history: <<device, control>> whose release was never read
    overrun,    \* history: a report was lost
    crowded,    \* history: more than MAX_CONTROLLERS gamepads were open
    raced       \* history: devices changed while evdev_rumble used one

physicalVars == <<machine, status, held, hat, raw>>
historyVars == <<lost, overrun, crowded, raced>>
rumbleVars == <<rumbler, effects>>
evdevVars == <<physicalVars, devices, assignedControllerIds, evdev_gamepads,
               rumbleVars, cecHeld, historyVars>>

Nodes == DOMAIN machine
HatPositions == {-1, 0, 1} \X {-1, 0, 1}
NoDevice == [node |-> 0, modifiers |-> {}, controllerId |-> -1, buttonFlags |-> {},
             leftStickX |-> 0, haptic_effect_id |-> -1]
Idle == [pc |-> "idle", at |-> 0, entry |-> NoDevice, on |-> FALSE]

EvdevInit ==
    /\ machine \in Machines
    /\ \E n \in 0..Len(machine) :
          status = [d \in Nodes |-> IF d <= n THEN "announced" ELSE "out"]
    /\ held = [d \in Nodes |-> {}]
    /\ hat = [d \in Nodes |-> <<0, 0>>]
    /\ raw = [d \in Nodes |-> IF machine[d].axis = None THEN 0
                              ELSE (machine[d].axis.min + machine[d].axis.max) \div 2]
    /\ devices = <<>> /\ assignedControllerIds = {} /\ evdev_gamepads = 0
    /\ rumbler = Idle /\ effects = [d \in Nodes |-> {}]
    /\ cecHeld = {}
    /\ lost = {} /\ overrun = FALSE /\ crowded = FALSE /\ raced = FALSE

Gamepads(devs) == {i \in DOMAIN devs : machine[devs[i].node].kind = "gamepad"}

-----------------------------------------------------------------------------
(* Plugging and pulling: udev_handle, evdev_create, evdev_remove.  When    *)
(* the element that evdev_rumble has a pointer to is moved or freed, that  *)
(* thread goes on with the bytes that are left there.                      *)

noteRace == raced' = (raced \/ rumbler.pc # "idle")
LeftBehind == [rumbler EXCEPT !.at = 0, !.entry = devices[rumbler.at]]

(* evdev_create: the array grows, in place or not, by an element that has  *)
(* no number yet; or the device cannot be opened.                          *)
evdev_create(n) ==
    \/ /\ platform \in Privileged
       /\ status' = [status EXCEPT ![n] = "open"]
       /\ devices' = Append(devices, [NoDevice EXCEPT !.node = n])
       /\ evdev_gamepads' = evdev_gamepads + IF machine[n].kind = "gamepad" THEN 1 ELSE 0
       /\ crowded' = (crowded \/ Cardinality(Gamepads(devices')) > MAX_CONTROLLERS)
       /\ noteRace
       /\ rumbler' \in {rumbler} \union IF rumbler.at # 0 THEN {LeftBehind} ELSE {}
    \/ /\ status' = [status EXCEPT ![n] = "removed"]
       /\ UNCHANGED <<devices, evdev_gamepads, crowded, rumbler, raced>>

(* udev_init for the devices that are there at the start, one by one;      *)
(* then the main thread goes on.                                           *)
AddInput ==
    /\ stage = "inputs" /\ IS_EMBEDDED(platform)
    /\ IF \E n \in Nodes : status[n] = "announced"
       THEN /\ evdev_create(CHOOSE n \in Nodes : status[n] = "announced")
            /\ UNCHANGED stage
       ELSE /\ stage' = "start"
            /\ UNCHANGED <<status, devices, evdev_gamepads, crowded, rumbler, raced>>
    /\ UNCHANGED <<platform, connection, signalled, main_thread_id, blanked, leftBy,
                   remote, machine, held, hat, raw, assignedControllerIds, effects,
                   cecHeld, lost, overrun>>

Plug(n) ==
    /\ stage = "loop" /\ status[n] = "out" /\ \A d \in 1..(n - 1) : status[d] # "out"
    /\ status' = [status EXCEPT ![n] = "announced"]
    /\ UNCHANGED <<streamingVars, machine, held, hat, raw, devices,
                   assignedControllerIds, evdev_gamepads, rumbleVars, cecHeld,
                   historyVars>>

udev_handle(n) ==
    /\ stage = "loop" /\ IS_EMBEDDED(platform) /\ status[n] = "announced"
    /\ evdev_create(n)
    /\ UNCHANGED <<streamingVars, machine, held, hat, raw, assignedControllerIds,
                   effects, cecHeld, lost, overrun>>

Pull(n) ==
    /\ stage = "loop" /\ status[n] = "open"
    /\ status' = [status EXCEPT ![n] = "pulled"]
    /\ held' = [held EXCEPT ![n] = {}]
    /\ effects' = [effects EXCEPT ![n] = {}]
    /\ lost' = lost \union ({n} \X held[n])
    /\ UNCHANGED <<streamingVars, machine, hat, raw, devices, assignedControllerIds,
                   evdev_gamepads, rumbler, cecHeld, overrun, crowded, raced>>

(* Faulty: the last device is moved over the pulled one before its number  *)
(* is given back.                                                          *)
Unassign_late(i) ==
    LET id == devices[Len(devices)].controllerId
    IN  assignedControllerIds \ {id}
Unassign(i) ==
    assignedControllerIds \ {devices[i].controllerId}

(* evdev_remove: the last element takes the place of the pulled one.  The  *)
(* host is not told, and the file descriptor stays in the loop.            *)
evdev_remove(i) ==
    /\ stage = "loop" /\ i \in DOMAIN devices
    /\ status[devices[i].node] = "pulled"
    /\ status' = [status EXCEPT ![devices[i].node] = "removed"]
    /\ assignedControllerIds' = Unassign(i)
    /\ devices' = Front([devices EXCEPT ![i] = Last(devices)])
    /\ noteRace
    /\ rumbler' = IF rumbler.at = Len(devices) THEN LeftBehind ELSE rumbler
    /\ UNCHANGED <<streamingVars, machine, held, hat, raw, evdev_gamepads, effects,
                   cecHeld, lost, overrun, crowded>>

-----------------------------------------------------------------------------
(* evdev_handle_event.  Each operator gives the state of the device after  *)
(* the events of a report.                                                 *)

SHRT_MIN == -32768
SHRT_MAX == 32767
ToShort(n) == ((n + 32768) % 65536) - 32768
Abs(n) == IF n < 0 THEN -n ELSE n
Quotient(a, b) == IF a < 0 THEN -((-a) \div b) ELSE a \div b     \* as in C

(* Faulty: the dead zone is taken off once, not twice, below the line. *)
evdev_convert_value_flat(value, parms) ==
    LET avg == Quotient(parms.min + parms.max, 2)
        over == IF value > avg THEN 2 * parms.flat ELSE 0
    IN  IF Abs(value - avg) < parms.flat THEN 0
        ELSE IF value > parms.max THEN SHRT_MAX
        ELSE IF value < parms.min THEN SHRT_MIN
        ELSE ToShort(Quotient((value - over - parms.min) * (SHRT_MAX - SHRT_MIN),
                              parms.max - parms.min - parms.flat) + SHRT_MIN)

(* evdev_convert_value: the full range of a short for what is outside the  *)
(* dead zone.                                                              *)
evdev_convert_value(value, parms) ==
    LET avg == Quotient(parms.min + parms.max, 2)
        range == parms.max - parms.min - 2 * parms.flat
        way == IF parms.reverse
               THEN parms.max - (IF value < avg THEN 2 * parms.flat ELSE 0) - value
               ELSE value - (IF value > avg THEN 2 * parms.flat ELSE 0) - parms.min
    IN  IF Abs(value - avg) < parms.flat THEN 0
        ELSE IF value > parms.max THEN (IF parms.reverse THEN SHRT_MIN ELSE SHRT_MAX)
        ELSE IF value < parms.min THEN (IF parms.reverse THEN SHRT_MAX ELSE SHRT_MIN)
        ELSE ToShort(Quotient(way * (SHRT_MAX - SHRT_MIN), range) + SHRT_MIN)

(* hat_constants[y + 1][x + 1], and set_hat for the four directions. *)
hat_constants ==
    <<<< {"up", "left"},   {"up"},   {"up", "right"} >>,
      << {"left"},         {},       {"right"} >>,
      << {"left", "down"}, {"down"}, {"down", "right"} >>>>

set_hat(flags, x, y) ==
    (flags \ {"up", "down", "left", "right"}) \union hat_constants[y + 2][x + 2]

(* Faulty: the modifier is kept when its key comes up. *)
KeyModifiers_kept(dev, key, down) ==
    IF down THEN dev.modifiers \union Modifiers({key}) ELSE dev.modifiers
KeyModifiers(dev, key, down) ==
    IF down THEN dev.modifiers \union Modifiers({key})
            ELSE dev.modifiers \ Modifiers({key})

(* EV_KEY of a keyboard or a mouse.  Quitting sends the key once more.     *)
HandleKey(i, key, down) ==
    LET modifiers == KeyModifiers(devices[i], key, down)
    IN  /\ SendKey(key, down)
        /\ IF ACTION_MODIFIERS \subseteq modifiers /\ key = QUIT_KEY /\ down
           THEN /\ Leave([how |-> "keys", node |-> devices[i].node])
                /\ UNCHANGED devices
           ELSE /\ devices' = [devices EXCEPT ![i].modifiers = modifiers]
                /\ Stays
        /\ UNCHANGED assignedControllerIds

(* EV_SYN: a gamepad gets a number with its first report.  Number 0 when   *)
(* there are too many.                                                     *)
AssignId(dev) ==
    LET free == ControllerIds \ assignedControllerIds
    IN  IF dev.controllerId >= 0 THEN dev.controllerId
        ELSE IF free # {} THEN Min(free) ELSE 0

(* EV_KEY or EV_ABS of a gamepad, up to the EV_SYN that tells the host. *)
HandlePad(i, dev) ==
    IF QUIT_BUTTONS \subseteq dev.buttonFlags
    THEN /\ Leave([how |-> "buttons", node |-> dev.node])
         /\ devices' = [devices EXCEPT ![i] = dev]
         /\ UNCHANGED <<assignedControllerIds, remote>>
    ELSE LET id == AssignId(dev)
         IN  /\ devices' = [devices EXCEPT ![i] = [dev EXCEPT !.controllerId = id]]
             /\ assignedControllerIds' = assignedControllerIds \union {id}
             /\ SendPad(id, assignedControllerIds', dev.buttonFlags, dev.leftStickX)
             /\ Stays

reportUnchanged == <<machine, status, evdev_gamepads, rumbleVars, cecHeld, crowded,
                     raced>>

(* A report that was in the buffer when it overflowed. *)
Overrun(released) ==
    /\ ~overrun /\ overrun' = TRUE
    /\ lost' = lost \union released
    /\ UNCHANGED <<devices, assignedControllerIds, remote>> /\ Stays

(* A key or a button goes down or up. *)
Control(i, c, down) ==
    LET n == devices[i].node
        dev == [devices[i] EXCEPT !.buttonFlags =
                  IF down THEN @ \union {c} ELSE @ \ {c}]
    IN  /\ stage = "loop" /\ status[n] = "open"
        /\ c \in machine[n].controls /\ down = (c \notin held[n])
        /\ held' = [held EXCEPT ![n] = IF down THEN @ \union {c} ELSE @ \ {c}]
        /\ \/ /\ IF machine[n].kind = "keyboard" THEN HandleKey(i, c, down)
                                                 ELSE HandlePad(i, dev)
              /\ lost' = lost \ {<<n, c>>}
              /\ UNCHANGED overrun
           \/ Overrun(IF down THEN {} ELSE {<<n, c>>})
        /\ InLoop
        /\ UNCHANGED <<hat, raw, reportUnchanged>>

HatMoves(i, x, y) ==
    LET n == devices[i].node
        dev == [devices[i] EXCEPT !.buttonFlags = set_hat(@, x, y)]
    IN  /\ stage = "loop" /\ status[n] = "open" /\ machine[n].axis # None
        /\ hat[n] # <<x, y>> /\ hat' = [hat EXCEPT ![n] = <<x, y>>]
        /\ HandlePad(i, dev)
        /\ InLoop
        /\ UNCHANGED <<held, raw, lost, overrun, reportUnchanged>>

StickMoves(i, value) ==
    LET n == devices[i].node
        dev == [devices[i] EXCEPT !.leftStickX =
                  evdev_convert_value(value, machine[n].axis)]
    IN  /\ stage = "loop" /\ status[n] = "open" /\ machine[n].axis # None
        /\ raw[n] # value /\ raw' = [raw EXCEPT ![n] = value]
        /\ HandlePad(i, dev)
        /\ InLoop
        /\ UNCHANGED <<held, hat, lost, overrun, reportUnchanged>>

-----------------------------------------------------------------------------
(* evdev_rumble, in a thread of the connection and without a lock: find    *)
(* the device, take its effect away, play the new one.                     *)

connected == connection = "up" /\ stage \in {"loop", "stopping"}
Entry == IF rumbler.at # 0 THEN devices[rumbler.at] ELSE rumbler.entry
SetEffect(id) ==
    IF rumbler.at # 0
    THEN devices' = [devices EXCEPT ![rumbler.at].haptic_effect_id = id]
    ELSE UNCHANGED devices

rumbleUnchanged == <<streamingVars, physicalVars, assignedControllerIds,
                     evdev_gamepads, cecHeld, historyVars>>

RumbleFind(id, on) ==
    LET i == SelectInSeq(devices, LAMBDA dev : dev.controllerId = id)
    IN  /\ connected /\ rumbler.pc = "idle" /\ i # 0
        /\ rumbler' = [Idle EXCEPT !.pc = "stop", !.at = i, !.on = on]
        /\ UNCHANGED <<devices, effects, rumbleUnchanged>>

(* Faulty: the old effect is not removed from the device. *)
Removed_none(n, id) == effects[n]
Removed(n, id) == effects[n] \ {id}

RumbleStop ==
    /\ rumbler.pc = "stop"
    /\ effects' = [effects EXCEPT ![Entry.node] = Removed(Entry.node,
                                                          Entry.haptic_effect_id)]
    /\ SetEffect(-1)
    /\ rumbler' = IF rumbler.on THEN [rumbler EXCEPT !.pc = "play"] ELSE Idle
    /\ UNCHANGED rumbleUnchanged

(* The kernel numbers the effects of a device; it has room for two here.   *)
RumblePlay ==
    LET n == Entry.node
        free == {0, 1} \ effects[n]
    IN  /\ rumbler.pc = "play"
        /\ IF status[n] = "open" /\ free # {}
           THEN /\ effects' = [effects EXCEPT ![n] = @ \union {Min(free)}]
                /\ SetEffect(Min(free))
           ELSE UNCHANGED <<effects, devices>>
        /\ rumbler' = Idle
        /\ UNCHANGED rumbleUnchanged

(* on_cec_keypress, in a thread of libCEC: no duration when a key goes     *)
(* down, and one when it comes up.                                         *)
CecKeypress(key) ==
    /\ stage = "loop" /\ IS_EMBEDDED(platform)
    /\ cecHeld' = IF key \in cecHeld THEN cecHeld \ {key} ELSE cecHeld \union {key}
    /\ SendKey(key, key \in cecHeld')
    /\ InLoop /\ Stays
    /\ UNCHANGED <<physicalVars, devices, assignedControllerIds, evdev_gamepads,
                   rumbleVars, historyVars>>

evdevNext ==
    \/ AddInput
    \/ \E n \in Nodes : Plug(n) \/ udev_handle(n) \/ Pull(n)
    \/ \E i \in DOMAIN devices :
         \/ evdev_remove(i)
         \/ \E c \in machine[devices[i].node].controls, down \in BOOLEAN :
               Control(i, c, down)
         \/ \E p \in HatPositions : HatMoves(i, p[1], p[2])
         \/ machine[devices[i].node].axis # None
            /\ \E value \in machine[devices[i].node].axis.min - 1 ..
                            machine[devices[i].node].axis.max + 1 :
                  StickMoves(i, value)
    \/ \E id \in ControllerIds, on \in BOOLEAN : RumbleFind(id, on)
    \/ RumbleStop \/ RumblePlay
    \/ CecKeypress("ok")

-----------------------------------------------------------------------------
(* A control that the host may believe to be down: one that is, or one     *)
(* whose coming up was never read.                                         *)
Believed(n) == held[n] \union {c \in machine[n].controls : <<n, c>> \in lost}
Down == cecHeld \union UNION {Believed(n) : n \in Nodes}

EvdevTypeOK ==
    /\ machine \in Machines
    /\ status \in [Nodes -> {"out", "announced", "open", "pulled", "removed"}]
    /\ \A i \in DOMAIN devices :
         /\ devices[i].node \in Nodes
         /\ devices[i].controllerId \in ControllerIds \union {-1}
         /\ devices[i].leftStickX \in SHRT_MIN..SHRT_MAX
    /\ assignedControllerIds \subseteq ControllerIds
    /\ evdev_gamepads \in 0..Len(machine)
    /\ rumbler.pc \in {"idle", "stop", "play"}
    /\ rumbler.at \in 0..Len(devices)

(* evdev.c:229 "Quit the stream if all the required quit keys are down":   *)
(* the stream is left by a device only if its user has them down, the      *)
(* modifiers and the key on a keyboard or the buttons on a gamepad, or if  *)
(* a report was lost.                                                      *)
QuitMeant ==
    /\ leftBy.how = "keys" =>
         /\ ACTION_MODIFIERS \subseteq Modifiers(Believed(leftBy.node))
         /\ QUIT_KEY \in held[leftBy.node]
    /\ leftBy.how = "buttons" => QUIT_BUTTONS \subseteq Believed(leftBy.node)

(* evdev.c:189: as long as there never were more gamepads than numbers,    *)
(* no two of them share a number, and the mask that goes to the host has   *)
(* the numbers in use and no other.                                        *)
PadsApart ==
    ~crowded =>
        LET Numbered == {i \in DOMAIN devices : devices[i].controllerId >= 0}
        IN  /\ \A i, j \in Numbered :
                  devices[i].controllerId = devices[j].controllerId => i = j
            /\ assignedControllerIds = {devices[i].controllerId : i \in Numbered}

(* evdev.c:352-370: what the host sees of a gamepad is how it is held: its *)
(* buttons, its hat, its stick to the right side, or off it by no more     *)
(* than what one place of the stick is for the host, and all the way when  *)
(* it is pushed all the way.                                               *)
HatIs(p) == (IF p[1] < 0 THEN {"left"} ELSE IF p[1] > 0 THEN {"right"} ELSE {})
    \union (IF p[2] < 0 THEN {"up"} ELSE IF p[2] > 0 THEN {"down"} ELSE {})

StickIs(value, stick, parms) ==
    LET side == (2 * value - parms.min - parms.max) * IF parms.reverse THEN -1 ELSE 1
        range == parms.max - parms.min - 2 * parms.flat
        step == (65535 + range - 1) \div range
    IN  /\ side > 0 => stick >= -step
        /\ side < 0 => stick <= step
        /\ Abs(side) >= parms.max - parms.min =>
             stick = IF side > 0 THEN SHRT_MAX ELSE SHRT_MIN

PadShownAsHeld ==
    ~crowded /\ ~overrun /\ stage = "loop" =>
        \A i \in DOMAIN devices :
            LET d == devices[i]
                seen == remote.pads[d.controllerId]
            IN  d.controllerId >= 0 /\ status[d.node] = "open" =>
                    /\ seen.buttons = held[d.node] \union HatIs(hat[d.node])
                    /\ machine[d.node].axis # None =>
                         StickIs(raw[d.node], seen.stick, machine[d.node].axis)

(* evdev.c:736: as long as no device comes or goes in the middle of        *)
(* evdev_rumble, a device plays the one effect that its element names, so  *)
(* that the next call can stop it.                                         *)
RumbleStoppable ==
    rumbler.pc = "idle" /\ ~raced =>
        \A i \in DOMAIN devices :
            LET id == devices[i].haptic_effect_id
            IN  status[devices[i].node] = "open" =>
                    effects[devices[i].node] = IF id = -1 THEN {} ELSE {id}
=============================================================================
