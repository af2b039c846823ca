---------------------------- MODULE Stream_proofs ----------------------------
(***************************************************************************)
(* What a stream promises of its input, for any machines, keys, buttons    *)
(* and numbers of gamepads.                                                *)
(***************************************************************************)
EXTENDS Stream, SequenceTheorems, FiniteSetTheorems, WellFoundedInduction,
        NaturalsInduction, TLAPS

-----------------------------------------------------------------------------
(* Facts about the operators of the community modules. *)

LEMMA LeastIn ==
    ASSUME NEW S \in SUBSET Nat, S # {}
    PROVE  Min(S) \in S /\ \A y \in S : Min(S) <= y
<1> DEFINE R == OpToRel(<, Nat)
<1>1. IsWellFoundedOn(R, Nat)
    BY NatLessThanWellFounded
<1>2. PICK x \in S : \A y \in S : <<y, x>> \notin R
    BY <1>1, WFMin
<1>3. \A y \in S : ~(y < x)
    BY <1>2 DEF OpToRel
<1> HIDE DEF R
<1>4. \A y \in S : x <= y
    BY <1>3
<1>5. QED
    BY <1>4 DEF Min

(* The last element is moved to a place that is given up. *)
LEMMA LastMoved ==
    ASSUME NEW T, NEW s \in Seq(T), NEW i \in DOMAIN s
    PROVE  LET t == Front([s EXCEPT ![i] = Last(s)])
           IN  /\ t \in Seq(T) /\ Len(s) \in Nat \ {0} /\ Len(t) = Len(s) - 1
               /\ \A k \in 1..Len(t) : t[k] = IF k = i THEN s[Len(s)] ELSE s[k]
<1> DEFINE u == [s EXCEPT ![i] = Last(s)]  n == Len(s)  t == SubSeq(u, 1, n - 1)
<1>1. n \in Nat /\ DOMAIN s = 1..n /\ i \in 1..n
    BY LenProperties
<1>2. \A k \in 1..n : s[k] \in T
    BY ElementOfSeq, <1>1
<1>3. u \in [1..n -> T] /\ \A k \in 1..n : u[k] = IF k = i THEN s[n] ELSE s[k]
    BY <1>1, <1>2 DEF Last
<1>4. u \in Seq(T) /\ Len(u) = n
    BY <1>1, <1>3
<1> HIDE DEF u
<1>5. t \in Seq(T) /\ Len(t) = n - 1 /\ \A k \in 1..(n - 1) : t[k] = u[k]
    BY <1>1, <1>4
<1>6. Front(u) = t
    BY <1>4 DEF Front
<1>7. n = Len(s) /\ u = [s EXCEPT ![i] = Last(s)]
    BY DEF u
<1> HIDE DEF n, t
<1>8. n \in Nat \ {0}
    BY <1>1
<1>9. \A k \in 1..Len(t) : t[k] = IF k = i THEN s[n] ELSE s[k]
    BY <1>1, <1>3, <1>5
<1>10. QED
    BY <1>5, <1>6, <1>7, <1>8, <1>9

-----------------------------------------------------------------------------
(* The devices that are open. *)

Directions == {"up", "down", "left", "right"}
Flags == Directions \union UNION {machine[n].controls : n \in Nodes}
Sticks == {0} \union UNION {{evdev_convert_value(v, machine[n].axis) : v \in Int} : n \in Nodes}

Device ==
    [node : Nodes, modifiers : SUBSET ACTION_MODIFIERS,
     controllerId : ControllerIds \union {-1}, buttonFlags : SUBSET Flags,
     leftStickX : Sticks, haptic_effect_id : {-1, 0, 1}]

DeviceTypes ==
    /\ machine \in Machines
    /\ status \in [Nodes -> {"out", "announced", "open", "pulled", "removed"}]
    /\ held \in [Nodes -> SUBSET Flags]
    /\ effects \in [Nodes -> SUBSET {0, 1}]
    /\ devices \in Seq(Device)
    /\ assignedControllerIds \subseteq ControllerIds
    /\ rumbler \in [pc : {"idle", "stop", "play"}, at : 0..Len(devices),
                    entry : Device \union {NoDevice}, on : BOOLEAN]
    /\ rumbler.pc = "idle" => rumbler = Idle
    /\ rumbler.pc # "idle" => rumbler.at # 0 \/ rumbler.entry \in Device

(* A device is open once, and one that is not open is not held and plays   *)
(* nothing.                                                                *)
Plugged ==
    /\ \A i \in DOMAIN devices : status[devices[i].node] \in {"open", "pulled"}
    /\ \A i, j \in DOMAIN devices : devices[i].node = devices[j].node => i = j
    /\ \A n \in Nodes : /\ held[n] \subseteq machine[n].controls
                        /\ status[n] # "open" => held[n] = {} /\ effects[n] = {}

DevicesInv == DeviceTypes /\ Plugged

LEMMA DevicesInvInit == EvdevInit => DevicesInv
<1> SUFFICES ASSUME EvdevInit PROVE DevicesInv
    OBVIOUS
<1>1. devices \in Seq(Device) /\ Len(devices) = 0 /\ DOMAIN devices = {}
    BY EmptySeq DEF EvdevInit
<1>2. DeviceTypes
    BY <1>1 DEF EvdevInit, DeviceTypes, Idle
<1>3. Plugged
    BY <1>1 DEF EvdevInit, Plugged
<1>4. QED
    BY <1>2, <1>3 DEF DevicesInv

LEMMA ElementsAreDevices ==
    ASSUME DevicesInv
    PROVE  /\ Len(devices) \in Nat /\ DOMAIN devices = 1..Len(devices)
           /\ \A i \in DOMAIN devices : devices[i] \in Device /\ devices[i].node \in Nodes
           /\ \A i \in DOMAIN devices :
                devices[i] = [node |-> devices[i].node, modifiers |-> devices[i].modifiers,
                              controllerId |-> devices[i].controllerId,
                              buttonFlags |-> devices[i].buttonFlags,
                              leftStickX |-> devices[i].leftStickX,
                              haptic_effect_id |-> devices[i].haptic_effect_id]
<1>1. devices \in Seq(Device)
    BY DEF DevicesInv, DeviceTypes
<1>2. Len(devices) \in Nat /\ DOMAIN devices = 1..Len(devices)
    BY <1>1, LenProperties
<1>3. \A i \in DOMAIN devices : devices[i] \in Device
    BY <1>1, <1>2, ElementOfSeq
<1>4. QED
    BY <1>2, <1>3 DEF Device

(* An element changes, but which device it is of does not.                 *)
SameDevices ==
    \/ UNCHANGED devices
    \/ \E i \in DOMAIN devices, dev \in Device :
          dev.node = devices[i].node /\ devices' = [devices EXCEPT ![i] = dev]

LEMMA ElementChanges ==
    ASSUME DevicesInv, SameDevices, UNCHANGED <<machine, status>>,
           assignedControllerIds' \subseteq ControllerIds,
           held' \in [Nodes -> SUBSET Flags], effects' \in [Nodes -> SUBSET {0, 1}],
           \A n \in Nodes : /\ held'[n] \subseteq machine[n].controls
                            /\ status[n] # "open" => held'[n] = {} /\ effects'[n] = {},
           rumbler' \in [pc : {"idle", "stop", "play"}, at : 0..Len(devices),
                        entry : Device \union {NoDevice}, on : BOOLEAN],
           rumbler'.pc = "idle" => rumbler' = Idle,
           rumbler'.pc # "idle" => rumbler'.at # 0 \/ rumbler'.entry \in Device
    PROVE  DevicesInv'
<1>1. Device' = Device /\ Nodes' = Nodes /\ Flags' = Flags
    BY DEF Device, Nodes, Flags, Sticks
<1>2. devices \in Seq(Device) /\ Len(devices) \in Nat /\ DOMAIN devices = 1..Len(devices)
    BY ElementsAreDevices DEF DevicesInv, DeviceTypes
<1>3. /\ devices' \in Seq(Device) /\ Len(devices') = Len(devices)
      /\ DOMAIN devices' = DOMAIN devices
    <2>1. CASE UNCHANGED devices
        BY <1>2, <2>1
    <2>2. ASSUME NEW i \in DOMAIN devices, NEW dev \in Device,
                 devices' = [devices EXCEPT ![i] = dev]
          PROVE  /\ devices' \in Seq(Device) /\ Len(devices') = Len(devices)
                 /\ DOMAIN devices' = DOMAIN devices
        BY <1>2, <2>2, ElementsAreDevices
    <2>3. QED
        BY <2>1, <2>2 DEF SameDevices
<1>4. \A k \in DOMAIN devices : devices'[k].node = devices[k].node
    BY <1>2 DEF SameDevices
<1>5. DeviceTypes'
    BY <1>1, <1>3 DEF DevicesInv, DeviceTypes
<1>6. Plugged'
    BY <1>1, <1>3, <1>4 DEF DevicesInv, Plugged
<1>7. QED
    BY <1>5, <1>6 DEF DevicesInv

(* What evdev_rumble goes on with when its element has gone. *)
LEMMA LeftBehindIs ==
    ASSUME DevicesInv, devices[rumbler.at] \in Device
    PROVE  /\ LeftBehind.pc = rumbler.pc /\ LeftBehind.at = 0
           /\ LeftBehind.entry = devices[rumbler.at]
           /\ LeftBehind \in [pc : {"idle", "stop", "play"}, at : {0},
                              entry : Device \union {NoDevice}, on : BOOLEAN]
<1> DEFINE Rumblers == [pc : {"idle", "stop", "play"}, at : 0..Len(devices),
                        entry : Device \union {NoDevice}, on : BOOLEAN]
<1>1. rumbler \in Rumblers
    BY DEF DevicesInv, DeviceTypes
<1>2. PICK e : e = devices[rumbler.at]
    OBVIOUS
<1>3. LeftBehind = [rumbler EXCEPT !.at = 0, !.entry = e]
    BY <1>2 DEF LeftBehind
<1>4. QED
    BY <1>1, <1>2, <1>3

(* evdev_create appends a device that was not open. *)
LEMMA CreateKeepsDevices ==
    ASSUME DevicesInv, NEW n \in Nodes, status[n] = "announced", evdev_create(n),
           UNCHANGED <<machine, held, effects, assignedControllerIds>>
    PROVE  DevicesInv'
<1>1. Device' = Device /\ Nodes' = Nodes /\ Flags' = Flags
    BY DEF Device, Nodes, Flags, Sticks
<1>2. devices \in Seq(Device) /\ Len(devices) \in Nat /\ DOMAIN devices = 1..Len(devices)
    BY ElementsAreDevices DEF DevicesInv, DeviceTypes
<1>3. CASE /\ status' = [status EXCEPT ![n] = "open"]
           /\ devices' = Append(devices, [NoDevice EXCEPT !.node = n])
           /\ rumbler' \in {rumbler} \union IF rumbler.at # 0 THEN {LeftBehind} ELSE {}
    <2> DEFINE new == [NoDevice EXCEPT !.node = n]
    <2>1. new \in Device /\ new.node = n
        BY DEF NoDevice, Device, Flags, Sticks
    <2>2. /\ devices' \in Seq(Device) /\ Len(devices') = Len(devices) + 1
          /\ \A k \in 1..Len(devices) : devices'[k] = devices[k]
          /\ devices'[Len(devices) + 1] = new
        BY <1>2, <1>3, <2>1, AppendProperties
    <2> HIDE DEF new
    <2>3. DOMAIN devices' = 1..(Len(devices) + 1)
        BY <2>2, LenProperties
    <2>4. rumbler' = rumbler \/ (rumbler.at # 0 /\ rumbler' = LeftBehind)
        BY <1>3
    <2>5. rumbler.at # 0 => devices[rumbler.at] \in Device
        BY ElementsAreDevices, <1>2 DEF DevicesInv, DeviceTypes
    <2>6. DeviceTypes'
        <3>1. rumbler \in [pc : {"idle", "stop", "play"}, at : 0..Len(devices),
                            entry : Device \union {NoDevice}, on : BOOLEAN]
            BY DEF DevicesInv, DeviceTypes
        <3>2. CASE rumbler' = rumbler
            BY <1>1, <1>2, <1>3, <2>2, <3>1, <3>2 DEF DevicesInv, DeviceTypes
        <3>3. CASE rumbler.at # 0 /\ rumbler' = LeftBehind
            <4>1. rumbler.pc # "idle"
                BY <3>3 DEF DevicesInv, DeviceTypes, Idle
            <4>2. /\ rumbler'.pc = rumbler.pc /\ rumbler'.entry = devices[rumbler.at]
                  /\ rumbler' \in [pc : {"idle", "stop", "play"}, at : 0..Len(devices'),
                                   entry : Device \union {NoDevice}, on : BOOLEAN]
                BY <1>2, <2>2, <2>5, <3>1, <3>3, LeftBehindIs
            <4>3. QED
                BY <1>1, <1>3, <2>2, <2>5, <3>3, <4>1, <4>2 DEF DevicesInv, DeviceTypes
        <3>4. QED
            BY <2>4, <3>2, <3>3
    <2>7. Plugged'
        <3>1. \A i \in DOMAIN devices' : i \in DOMAIN devices \/ i = Len(devices) + 1
            BY <1>2, <2>3
        <3>2. \A i \in DOMAIN devices : devices[i].node # n
            BY DEF DevicesInv, Plugged
        <3>3. \A i \in DOMAIN devices : devices'[i] = devices[i]
            BY <1>2, <2>2
        <3>4. status \in [Nodes -> {"out", "announced", "open", "pulled", "removed"}]
            BY DEF DevicesInv, DeviceTypes
        <3>5. \A i \in DOMAIN devices' : status'[devices'[i].node] \in {"open", "pulled"}
            BY <1>3, <2>1, <2>2, <3>1, <3>2, <3>3, <3>4, ElementsAreDevices
               DEF DevicesInv, Plugged
        <3>6. \A i, j \in DOMAIN devices' : devices'[i].node = devices'[j].node => i = j
            BY <2>1, <2>2, <3>1, <3>2, <3>3 DEF DevicesInv, Plugged
        <3>7. QED
            BY <1>1, <1>3, <3>4, <3>5, <3>6 DEF DevicesInv, Plugged
    <2>8. QED
        BY <2>6, <2>7 DEF DevicesInv
<1>4. CASE status' = [status EXCEPT ![n] = "removed"] /\ UNCHANGED <<devices, rumbler>>
    <2>1. \A i \in DOMAIN devices : devices[i].node # n
        BY DEF DevicesInv, Plugged
    <2>2. DeviceTypes'
        BY <1>1, <1>4 DEF DevicesInv, DeviceTypes
    <2>3. Plugged'
        BY <1>1, <1>4, <2>1, ElementsAreDevices DEF DevicesInv, DeviceTypes, Plugged
    <2>4. QED
        BY <2>2, <2>3 DEF DevicesInv
<1>5. QED
    BY <1>3, <1>4 DEF evdev_create

(* evdev_remove takes the pulled device out. *)
LEMMA RemoveKeepsDevices ==
    ASSUME DevicesInv, NEW i \in DOMAIN devices, evdev_remove(i)
    PROVE  DevicesInv'
<1>1. Device' = Device /\ Nodes' = Nodes /\ Flags' = Flags /\ machine' = machine
    BY DEF Device, Nodes, Flags, Sticks, evdev_remove
<1>2. devices \in Seq(Device) /\ Len(devices) \in Nat /\ DOMAIN devices = 1..Len(devices)
    BY ElementsAreDevices DEF DevicesInv, DeviceTypes
<1>3. /\ devices' \in Seq(Device) /\ Len(devices) \in Nat \ {0}
      /\ Len(devices') = Len(devices) - 1
      /\ \A k \in 1..Len(devices') :
            devices'[k] = IF k = i THEN devices[Len(devices)] ELSE devices[k]
    BY <1>2, LastMoved DEF evdev_remove
<1>4. DOMAIN devices' = 1..(Len(devices) - 1)
    BY <1>3, LenProperties
<1>5. rumbler' = IF rumbler.at = Len(devices) THEN LeftBehind ELSE rumbler
    BY DEF evdev_remove
<1>6. rumbler \in [pc : {"idle", "stop", "play"}, at : 0..Len(devices),
                   entry : Device \union {NoDevice}, on : BOOLEAN]
    BY DEF DevicesInv, DeviceTypes
<1>7. rumbler.at # 0 => devices[rumbler.at] \in Device
    BY <1>2, <1>6, ElementsAreDevices
<1>8. UNCHANGED <<held, effects>>
    BY DEF evdev_remove
<1>9. assignedControllerIds' \subseteq ControllerIds
    BY DEF evdev_remove, Unassign, DevicesInv, DeviceTypes
<1>10. status' = [status EXCEPT ![devices[i].node] = "removed"] /\ status[devices[i].node] = "pulled"
    BY DEF evdev_remove
<1>11. DeviceTypes'
    <2>1. CASE rumbler.at = Len(devices)
        <3>1. rumbler.pc # "idle"
            BY <1>3, <2>1 DEF DevicesInv, DeviceTypes, Idle
        <3>2. /\ rumbler'.pc = rumbler.pc /\ rumbler'.entry = devices[rumbler.at]
              /\ rumbler' \in [pc : {"idle", "stop", "play"}, at : 0..Len(devices'),
                               entry : Device \union {NoDevice}, on : BOOLEAN]
            BY <1>3, <1>5, <1>6, <1>7, <2>1, LeftBehindIs
        <3>3. QED
            BY <1>1, <1>3, <1>7, <1>8, <1>9, <1>10, <2>1, <3>1, <3>2 DEF DevicesInv, DeviceTypes
    <2>2. CASE rumbler.at # Len(devices)
        <3>1. rumbler' = rumbler /\ rumbler.at \in 0..Len(devices')
            BY <1>3, <1>5, <1>6, <2>2
        <3>2. QED
            BY <1>1, <1>3, <1>6, <1>8, <1>9, <1>10, <3>1 DEF DevicesInv, DeviceTypes
    <2>3. QED
        BY <2>1, <2>2
<1>12. Plugged'
    <2> DEFINE From(k) == IF k = i THEN Len(devices) ELSE k
    <2>1. \A k \in DOMAIN devices' :
             /\ From(k) \in DOMAIN devices /\ From(k) # i /\ devices'[k] = devices[From(k)]
        BY <1>2, <1>3, <1>4
    <2>2. \A k, l \in DOMAIN devices' : From(k) = From(l) => k = l
        BY <1>2, <1>4
    <2> HIDE DEF From
    <2>3. \A k \in DOMAIN devices' : devices'[k].node \in Nodes /\ devices'[k].node # devices[i].node
        BY <2>1, ElementsAreDevices DEF DevicesInv, Plugged
    <2>4. \A k \in DOMAIN devices' : status'[devices'[k].node] \in {"open", "pulled"}
        BY <1>10, <2>1, <2>3 DEF DevicesInv, DeviceTypes, Plugged
    <2>5. \A k, l \in DOMAIN devices' : devices'[k].node = devices'[l].node => k = l
        BY <2>1, <2>2 DEF DevicesInv, Plugged
    <2>6. QED
        BY <1>1, <1>8, <1>10, <2>4, <2>5 DEF DevicesInv, DeviceTypes, Plugged
<1>13. QED
    BY <1>11, <1>12 DEF DevicesInv

(* A gamepad has the number it had, or the least one that is free. *)
LEMMA AssignIdIs ==
    ASSUME NEW dev, dev.controllerId \in ControllerIds \union {-1}
    PROVE  /\ AssignId(dev) \in ControllerIds
           /\ dev.controllerId # -1 => AssignId(dev) = dev.controllerId
           /\ dev.controllerId = -1 /\ ControllerIds \ assignedControllerIds # {} =>
                AssignId(dev) \in ControllerIds \ assignedControllerIds
<1> DEFINE free == ControllerIds \ assignedControllerIds
<1>1. 0 \in ControllerIds /\ ControllerIds \subseteq Nat
    BY StreamingAssumption DEF ControllerIds
<1>2. free # {} => Min(free) \in free
    BY <1>1, LeastIn
<1>3. dev.controllerId # -1 => dev.controllerId \in ControllerIds /\ dev.controllerId >= 0
    <2>1. dev.controllerId # -1 => dev.controllerId \in ControllerIds
        OBVIOUS
    <2>2. \A id \in ControllerIds : id >= 0
        BY StreamingAssumption DEF ControllerIds
    <2>3. QED
        BY <2>1, <2>2
<1>4. AssignId(dev) = IF dev.controllerId >= 0 THEN dev.controllerId
                      ELSE IF free # {} THEN Min(free) ELSE 0
    BY DEF AssignId
<1> HIDE DEF free
<1>5. CASE dev.controllerId = -1
    BY <1>1, <1>2, <1>4, <1>5 DEF free
<1>6. CASE dev.controllerId # -1
    BY <1>3, <1>4, <1>6
<1>7. QED
    BY <1>5, <1>6

(* What a report of an element changes in the element and in the numbers   *)
(* that are taken.                                                         *)
Reported(i) ==
    \E dev \in Device :
        /\ dev.node = devices[i].node
        /\ dev.haptic_effect_id = devices[i].haptic_effect_id
        /\ devices' = [devices EXCEPT ![i] = dev]
        /\ \/ /\ dev.controllerId = devices[i].controllerId
              /\ UNCHANGED assignedControllerIds
           \/ /\ machine[dev.node].kind = "gamepad"
              /\ dev.controllerId = AssignId(devices[i])
              /\ assignedControllerIds' = assignedControllerIds \union {dev.controllerId}

LEMMA PadReported ==
    ASSUME DevicesInv, NEW i \in DOMAIN devices, NEW dev \in Device,
           dev.node = devices[i].node, dev.controllerId = devices[i].controllerId,
           dev.haptic_effect_id = devices[i].haptic_effect_id,
           machine[dev.node].kind = "gamepad",
           HandlePad(i, dev)
    PROVE  Reported(i)
<1>1. CASE devices' = [devices EXCEPT ![i] = dev] /\ UNCHANGED assignedControllerIds
    BY <1>1 DEF Reported
<1>2. CASE /\ devices' = [devices EXCEPT ![i] = [dev EXCEPT !.controllerId = AssignId(dev)]]
           /\ assignedControllerIds' = assignedControllerIds \union {AssignId(dev)}
    <2>1. dev.controllerId \in ControllerIds \union {-1}
        BY DEF Device
    <2>2. AssignId(dev) \in ControllerIds /\ AssignId(dev) = AssignId(devices[i])
        BY <2>1, AssignIdIs DEF AssignId
    <2>3. PICK id \in ControllerIds : id = AssignId(dev)
        BY <2>2
    <2> DEFINE new == [dev EXCEPT !.controllerId = id]
    <2>4. /\ new \in Device /\ new.node = dev.node /\ new.controllerId = id
          /\ new.haptic_effect_id = dev.haptic_effect_id
        BY DEF Device
    <2>5. devices' = [devices EXCEPT ![i] = new]
        BY <1>2, <2>3
    <2> HIDE DEF new
    <2>6. QED
        BY <1>2, <2>2, <2>3, <2>4, <2>5 DEF Reported
<1>3. QED
    BY <1>1, <1>2 DEF HandlePad

LEMMA HatInDirections ==
    ASSUME NEW x \in {-1, 0, 1}, NEW y \in {-1, 0, 1}
    PROVE  hat_constants[y + 2][x + 2] \subseteq Directions
<1>1. y + 2 \in {1, 2, 3} /\ x + 2 \in {1, 2, 3}
    OBVIOUS
<1>2. \A r, c \in {1, 2, 3} : hat_constants[r][c] \subseteq Directions
    BY DEF hat_constants, Directions
<1>3. QED
    BY <1>1, <1>2

(* The controls of an open keyboard or gamepad.                            *)
LEMMA KindsOfDevices ==
    ASSUME DevicesInv, NEW n \in Nodes
    PROVE  /\ machine[n].kind \in {"keyboard", "gamepad"}
           /\ machine[n].kind = "keyboard" =>
                machine[n].controls \subseteq DOMAIN ModifierOf /\ machine[n].axis = None
           /\ machine[n].controls \subseteq Flags
BY EvdevAssumption DEF DevicesInv, DeviceTypes, Nodes, Flags

-----------------------------------------------------------------------------
(* One report of a device. *)

LEMMA HandledKeyReported ==
    ASSUME DevicesInv, NEW i \in DOMAIN devices, NEW key, NEW down \in BOOLEAN,
           ModifierOf[key] \in ACTION_MODIFIERS \union {None},
           key \in DOMAIN ModifierOf, HandleKey(i, key, down)
    PROVE  Reported(i)
<1>1. devices[i] \in Device /\ devices \in Seq(Device) /\ DOMAIN devices = 1..Len(devices)
    BY ElementsAreDevices DEF DevicesInv, DeviceTypes
<1>2. UNCHANGED assignedControllerIds
    BY DEF HandleKey
<1>3. CASE UNCHANGED devices
    <2>1. devices' = [devices EXCEPT ![i] = devices[i]]
        BY <1>1, <1>3
    <2>2. QED
        BY <1>1, <1>2, <2>1 DEF Reported
<1>4. CASE devices' = [devices EXCEPT ![i].modifiers = KeyModifiers(devices[i], key, down)]
    <2>1. KeyModifiers(devices[i], key, down) \subseteq ACTION_MODIFIERS
        <3>1. Modifiers({key}) \subseteq ACTION_MODIFIERS
            BY DEF Modifiers
        <3>2. devices[i].modifiers \subseteq ACTION_MODIFIERS
            BY <1>1 DEF Device
        <3>3. QED
            BY <3>1, <3>2 DEF KeyModifiers
    <2>2. PICK m \in SUBSET ACTION_MODIFIERS : m = KeyModifiers(devices[i], key, down)
        BY <2>1
    <2> DEFINE new == [devices[i] EXCEPT !.modifiers = m]
    <2>3. /\ new \in Device /\ new.node = devices[i].node
          /\ new.controllerId = devices[i].controllerId
          /\ new.haptic_effect_id = devices[i].haptic_effect_id
        BY <1>1 DEF Device
    <2>4. devices' = [devices EXCEPT ![i] = new]
        BY <1>1, <1>4, <2>2
    <2> HIDE DEF new
    <2>5. QED
        BY <1>2, <2>3, <2>4 DEF Reported
<1>5. QED
    BY <1>3, <1>4 DEF HandleKey

LEMMA ControlReported ==
    ASSUME DevicesInv, NEW i \in DOMAIN devices,
           NEW c \in machine[devices[i].node].controls, NEW down \in BOOLEAN,
           Control(i, c, down)
    PROVE  Reported(i)
<1> DEFINE n == devices[i].node
<1>1. devices[i] \in Device /\ n \in Nodes /\ devices \in Seq(Device)
      /\ DOMAIN devices = 1..Len(devices)
    BY ElementsAreDevices DEF DevicesInv, DeviceTypes
<1>2. CASE UNCHANGED <<devices, assignedControllerIds>>
    <2>1. devices' = [devices EXCEPT ![i] = devices[i]]
        BY <1>1, <1>2
    <2>2. QED
        BY <1>1, <1>2, <2>1 DEF Reported
<1>3. CASE machine[n].kind = "keyboard" /\ HandleKey(i, c, down)
    <2>1. c \in DOMAIN ModifierOf
        BY <1>1, <1>3, KindsOfDevices
    <2>2. QED
        BY <1>3, <2>1, HandledKeyReported, StreamingAssumption
<1>4. CASE machine[n].kind # "keyboard"
           /\ HandlePad(i, [devices[i] EXCEPT !.buttonFlags =
                               IF down THEN @ \union {c} ELSE @ \ {c}])
    <2>1. machine[n].kind = "gamepad" /\ c \in Flags
        BY <1>1, <1>4, KindsOfDevices
    <2>2. PICK flags : flags = IF down THEN devices[i].buttonFlags \union {c}
                                      ELSE devices[i].buttonFlags \ {c}
        OBVIOUS
    <2>3. flags \in SUBSET Flags
        BY <1>1, <2>1, <2>2 DEF Device
    <2> DEFINE dev == [devices[i] EXCEPT !.buttonFlags = flags]
    <2>4. /\ dev \in Device /\ dev.node = devices[i].node
          /\ dev.controllerId = devices[i].controllerId
          /\ dev.haptic_effect_id = devices[i].haptic_effect_id
        BY <1>1, <2>3 DEF Device
    <2>5. HandlePad(i, dev)
        BY <1>4, <2>2
    <2> HIDE DEF dev
    <2>6. QED
        BY <2>1, <2>4, <2>5, PadReported
<1>5. QED
    BY <1>2, <1>3, <1>4 DEF Control, Overrun

LEMMA HatReported ==
    ASSUME DevicesInv, NEW i \in DOMAIN devices, NEW p \in HatPositions,
           HatMoves(i, p[1], p[2])
    PROVE  Reported(i)
<1> DEFINE n == devices[i].node
<1>1. devices[i] \in Device /\ n \in Nodes
    BY ElementsAreDevices DEF DevicesInv, DeviceTypes
<1>2. machine[n].kind = "gamepad"
    BY <1>1, KindsOfDevices DEF HatMoves
<1>3. PICK flags : flags = set_hat(devices[i].buttonFlags, p[1], p[2])
    OBVIOUS
<1>4. flags \in SUBSET Flags
    <2>1. hat_constants[p[2] + 2][p[1] + 2] \subseteq Directions
        BY HatInDirections DEF HatPositions
    <2>2. devices[i].buttonFlags \subseteq Flags
        BY <1>1 DEF Device
    <2>3. PICK h \in SUBSET Directions : h = hat_constants[p[2] + 2][p[1] + 2]
        BY <2>1
    <2>4. flags = (devices[i].buttonFlags \ Directions) \union h
        BY <1>3, <2>3 DEF set_hat, Directions
    <2>5. QED
        <3>1. Directions \subseteq Flags
            BY DEF Flags
        <3>2. QED
            BY <2>2, <2>3, <2>4, <3>1
<1> DEFINE dev == [devices[i] EXCEPT !.buttonFlags = flags]
<1>5. /\ dev \in Device /\ dev.node = devices[i].node
      /\ dev.controllerId = devices[i].controllerId
      /\ dev.haptic_effect_id = devices[i].haptic_effect_id
    BY <1>1, <1>4 DEF Device
<1>6. HandlePad(i, dev)
    BY <1>3 DEF HatMoves
<1> HIDE DEF dev
<1>7. QED
    BY <1>2, <1>5, <1>6, PadReported

LEMMA StickReported ==
    ASSUME DevicesInv, NEW i \in DOMAIN devices, NEW value \in Int,
           StickMoves(i, value)
    PROVE  Reported(i)
<1> DEFINE n == devices[i].node
<1>1. devices[i] \in Device /\ n \in Nodes
    BY ElementsAreDevices DEF DevicesInv, DeviceTypes
<1>2. machine[n].kind = "gamepad"
    BY <1>1, KindsOfDevices DEF StickMoves
<1>3. PICK stick \in Sticks : stick = evdev_convert_value(value, machine[n].axis)
    <2>1. PICK m \in Nodes : m = n
        BY <1>1
    <2>2. evdev_convert_value(value, machine[m].axis)
            \in {evdev_convert_value(v, machine[m].axis) : v \in Int}
        OBVIOUS
    <2>3. QED
        BY <2>1, <2>2 DEF Sticks
<1> DEFINE dev == [devices[i] EXCEPT !.leftStickX = stick]
<1>4. /\ dev \in Device /\ dev.node = devices[i].node
      /\ dev.controllerId = devices[i].controllerId
      /\ dev.haptic_effect_id = devices[i].haptic_effect_id
    BY <1>1 DEF Device
<1>5. HandlePad(i, dev)
    BY <1>3 DEF StickMoves
<1> HIDE DEF dev
<1>6. QED
    BY <1>2, <1>4, <1>5, PadReported

-----------------------------------------------------------------------------
(* Every step keeps what is said of the devices. *)

LEMMA ReportKeepsDevices ==
    ASSUME DevicesInv, NEW i \in DOMAIN devices, Reported(i),
           UNCHANGED <<machine, status, effects, rumbler>>,
           held' \in [Nodes -> SUBSET Flags],
           \A n \in Nodes : /\ held'[n] \subseteq machine[n].controls
                            /\ status[n] # "open" => held'[n] = {}
    PROVE  DevicesInv'
<1>1. devices[i].controllerId \in ControllerIds \union {-1}
    BY ElementsAreDevices DEF Device
<1>2. AssignId(devices[i]) \in ControllerIds
    BY <1>1, AssignIdIs
<1>3. assignedControllerIds' \subseteq ControllerIds
    BY <1>2 DEF Reported, DevicesInv, DeviceTypes
<1>4. SameDevices
    BY DEF Reported, SameDevices
<1>5. QED
    BY <1>3, <1>4, ElementChanges DEF DevicesInv, DeviceTypes, Plugged

LEMMA ControlKeepsDevices ==
    ASSUME DevicesInv, NEW i \in DOMAIN devices,
           NEW c \in machine[devices[i].node].controls, NEW down \in BOOLEAN,
           Control(i, c, down)
    PROVE  DevicesInv'
<1>1. PICK n \in Nodes : n = devices[i].node
    BY ElementsAreDevices
<1>2. c \in Flags /\ machine[n].controls \subseteq Flags
    BY <1>1, KindsOfDevices
<1>3. /\ held' = [held EXCEPT ![n] = IF down THEN held[n] \union {c} ELSE held[n] \ {c}]
      /\ UNCHANGED <<machine, status, effects, rumbler>> /\ status[n] = "open"
    BY <1>1 DEF Control, reportUnchanged, rumbleVars
<1>4. held' \in [Nodes -> SUBSET Flags]
    BY <1>2, <1>3 DEF DevicesInv, DeviceTypes
<1>5. \A m \in Nodes : /\ held'[m] \subseteq machine[m].controls
                       /\ status[m] # "open" => held'[m] = {}
    BY <1>1, <1>3 DEF DevicesInv, DeviceTypes, Plugged
<1>6. QED
    BY <1>3, <1>4, <1>5, ControlReported, ReportKeepsDevices

LEMMA MovesKeepDevices ==
    ASSUME DevicesInv, NEW i \in DOMAIN devices,
           \/ \E p \in HatPositions : HatMoves(i, p[1], p[2])
           \/ \E value \in Int : StickMoves(i, value)
    PROVE  DevicesInv'
<1>1. Reported(i)
    BY HatReported, StickReported
<1>2. UNCHANGED <<machine, status, held, effects, rumbler>>
    BY DEF HatMoves, StickMoves, reportUnchanged, rumbleVars
<1>3. QED
    BY <1>1, <1>2, ReportKeepsDevices DEF DevicesInv, DeviceTypes, Plugged

LEMMA EntryIs ==
    ASSUME DevicesInv, rumbler.pc # "idle"
    PROVE  /\ Entry \in Device /\ Entry.node \in Nodes
           /\ rumbler.at # 0 => rumbler.at \in DOMAIN devices /\ Entry = devices[rumbler.at]
<1>1. rumbler.at # 0 => rumbler.at \in DOMAIN devices
    BY ElementsAreDevices DEF DevicesInv, DeviceTypes
<1>2. Entry \in Device
    BY <1>1, ElementsAreDevices DEF Entry, DevicesInv, DeviceTypes
<1>3. QED
    BY <1>1, <1>2 DEF Entry, Device

LEMMA EffectSet ==
    ASSUME DevicesInv, rumbler.pc # "idle", NEW id \in {-1, 0, 1}, SetEffect(id)
    PROVE  SameDevices
<1>1. CASE rumbler.at = 0
    BY <1>1 DEF SetEffect, SameDevices
<1>2. CASE rumbler.at # 0
    <2>1. PICK i \in DOMAIN devices : i = rumbler.at
        BY <1>2, EntryIs
    <2> DEFINE new == [devices[i] EXCEPT !.haptic_effect_id = id]
    <2>2. devices[i] \in Device
        BY ElementsAreDevices
    <2>3. new \in Device /\ new.node = devices[i].node
        BY <2>2 DEF Device
    <2>4. devices' = [devices EXCEPT ![i] = new]
        BY <1>2, <2>1 DEF SetEffect
    <2>5. QED
        BY <2>3, <2>4 DEF SameDevices
<1>3. QED
    BY <1>1, <1>2

(* evdev_rumble looks for the first element that has the number.           *)
LEMMA Found ==
    ASSUME DevicesInv, NEW id, NEW on, RumbleFind(id, on)
    PROVE  \E i \in DOMAIN devices :
              /\ rumbler' = [Idle EXCEPT !.pc = "stop", !.at = i, !.on = on]
              /\ devices[i].controllerId = id
<1> DEFINE I == {i \in 1..Len(devices) : devices[i].controllerId = id}
           f == SelectInSeq(devices, LAMBDA dev : dev.controllerId = id)
<1>1. f = IF I # {} THEN Min(I) ELSE 0
    BY DEF SelectInSeq
<1>2. f # 0 /\ rumbler' = [Idle EXCEPT !.pc = "stop", !.at = f, !.on = on]
    BY DEF RumbleFind
<1> HIDE DEF f
<1>3. I \subseteq Nat
    BY ElementsAreDevices
<1>4. f \in I
    BY <1>1, <1>2, <1>3, LeastIn
<1>5. QED
    BY <1>2, <1>4, ElementsAreDevices

LEMMA RumbleKeepsDevices ==
    ASSUME DevicesInv,
           \/ \E id \in ControllerIds, on \in BOOLEAN : RumbleFind(id, on)
           \/ RumbleStop \/ RumblePlay
    PROVE  DevicesInv'
<1> DEFINE Rumblers == [pc : {"idle", "stop", "play"}, at : 0..Len(devices),
                        entry : Device \union {NoDevice}, on : BOOLEAN]
<1>1. UNCHANGED <<machine, status, held, assignedControllerIds>>
    BY DEF RumbleFind, RumbleStop, RumblePlay, rumbleUnchanged, physicalVars
<1>2. rumbler \in Rumblers
    BY DEF DevicesInv, DeviceTypes
<1>3. Idle \in Rumblers
    BY ElementsAreDevices DEF Idle
<1>4. ASSUME NEW id \in ControllerIds, NEW on \in BOOLEAN, RumbleFind(id, on)
      PROVE  DevicesInv'
    <2>1. PICK i \in DOMAIN devices : rumbler' = [Idle EXCEPT !.pc = "stop", !.at = i, !.on = on]
        BY <1>4, Found
    <2>2. rumbler' = [pc |-> "stop", at |-> i, entry |-> NoDevice, on |-> on]
        BY <2>1 DEF Idle
    <2>3. i \in 0..Len(devices) /\ i # 0
        BY ElementsAreDevices
    <2>4. rumbler' \in Rumblers /\ rumbler'.pc = "stop" /\ rumbler'.at = i
        BY <2>2, <2>3
    <2>5. SameDevices /\ UNCHANGED effects
        BY <1>4 DEF RumbleFind, SameDevices
    <2>6. QED
        BY <1>1, <2>3, <2>4, <2>5, ElementChanges DEF DevicesInv, DeviceTypes, Plugged
<1>5. ASSUME RumbleStop PROVE DevicesInv'
    <2>1. rumbler.pc = "stop"
        BY <1>5 DEF RumbleStop
    <2>2. SameDevices
        BY <1>5, <2>1, EffectSet DEF RumbleStop
    <2>3. PICK n \in Nodes : n = Entry.node
        BY <2>1, EntryIs
    <2>4. effects' = [effects EXCEPT ![n] = effects[n] \ {Entry.haptic_effect_id}]
        BY <1>5, <2>3 DEF RumbleStop, Removed
    <2>5. \A m \in Nodes : effects'[m] \subseteq effects[m]
        BY <2>4 DEF DevicesInv, DeviceTypes
    <2>6. effects' \in [Nodes -> SUBSET {0, 1}]
        BY <2>4 DEF DevicesInv, DeviceTypes
    <2>7. rumbler' = Idle \/ rumbler' = [rumbler EXCEPT !.pc = "play"]
        BY <1>5 DEF RumbleStop
    <2>8. CASE rumbler' = Idle
        BY <1>1, <1>3, <2>2, <2>5, <2>6, <2>8, ElementChanges
           DEF DevicesInv, DeviceTypes, Plugged, Idle
    <2>9. CASE rumbler' = [rumbler EXCEPT !.pc = "play"]
        <3>1. /\ rumbler' \in Rumblers /\ rumbler'.pc = "play"
              /\ rumbler'.at = rumbler.at /\ rumbler'.entry = rumbler.entry
            BY <1>2, <2>9
        <3>2. QED
            BY <1>1, <2>1, <2>2, <2>5, <2>6, <3>1, ElementChanges
               DEF DevicesInv, DeviceTypes, Plugged
    <2>10. QED
        BY <2>7, <2>8, <2>9
<1>6. ASSUME RumblePlay PROVE DevicesInv'
    <2>1. rumbler.pc = "play" /\ rumbler' = Idle
        BY <1>6 DEF RumblePlay
    <2>2. PICK n \in Nodes : n = Entry.node
        BY <2>1, EntryIs
    <2> DEFINE free == {0, 1} \ effects[n]
    <2>3. CASE UNCHANGED <<effects, devices>>
        BY <1>1, <1>3, <2>1, <2>3, ElementChanges
           DEF DevicesInv, DeviceTypes, Plugged, SameDevices, Idle
    <2>4. CASE /\ status[n] = "open" /\ free # {}
               /\ effects' = [effects EXCEPT ![n] = effects[n] \union {Min(free)}]
               /\ SetEffect(Min(free))
        <3>1. Min(free) \in {0, 1}
            BY <2>4, LeastIn
        <3>2. SameDevices
            BY <2>1, <2>4, <3>1, EffectSet
        <3>3. effects' \in [Nodes -> SUBSET {0, 1}]
            BY <2>4, <3>1 DEF DevicesInv, DeviceTypes
        <3>4. \A m \in Nodes : status[m] # "open" => effects'[m] = {}
            BY <2>4 DEF DevicesInv, DeviceTypes, Plugged
        <3>5. QED
            BY <1>1, <1>3, <2>1, <3>2, <3>3, <3>4, ElementChanges
               DEF DevicesInv, DeviceTypes, Plugged, Idle
    <2>5. QED
        BY <1>6, <2>2, <2>3, <2>4 DEF RumblePlay
<1>7. QED
    BY <1>4, <1>5, <1>6

LEMMA NothingOfDevices ==
    ASSUME DevicesInv,
           UNCHANGED <<machine, status, held, effects, rumbler, devices,
                       assignedControllerIds>>
    PROVE  DevicesInv'
<1>1. SameDevices
    BY DEF SameDevices
<1>2. QED
    BY <1>1, ElementChanges DEF DevicesInv, DeviceTypes, Plugged

LEMMA PlugsKeepDevices ==
    ASSUME DevicesInv, NEW n \in Nodes, Plug(n) \/ Pull(n)
    PROVE  DevicesInv'
<1>1. /\ Device' = Device /\ Nodes' = Nodes /\ Flags' = Flags
      /\ UNCHANGED <<machine, devices, assignedControllerIds, rumbler>>
    <2>1. UNCHANGED <<machine, devices, assignedControllerIds, rumbler>>
        BY DEF Plug, Pull, rumbleVars
    <2>2. QED
        BY <2>1 DEF Device, Nodes, Flags, Sticks
<1>2. CASE Plug(n)
    <2>1. /\ status' = [status EXCEPT ![n] = "announced"] /\ status[n] = "out"
          /\ UNCHANGED <<held, effects>>
        BY <1>2 DEF Plug, rumbleVars
    <2>2. DeviceTypes'
        BY <1>1, <2>1 DEF DevicesInv, DeviceTypes
    <2>3. Plugged'
        BY <1>1, <2>1, ElementsAreDevices DEF DevicesInv, DeviceTypes, Plugged
    <2>4. QED
        BY <2>2, <2>3 DEF DevicesInv
<1>3. CASE Pull(n)
    <2>1. /\ status' = [status EXCEPT ![n] = "pulled"] /\ status[n] = "open"
          /\ held' = [held EXCEPT ![n] = {}] /\ effects' = [effects EXCEPT ![n] = {}]
        BY <1>3 DEF Pull
    <2>2. DeviceTypes'
        BY <1>1, <2>1 DEF DevicesInv, DeviceTypes
    <2>3. Plugged'
        BY <1>1, <2>1, ElementsAreDevices DEF DevicesInv, DeviceTypes, Plugged
    <2>4. QED
        BY <2>2, <2>3 DEF DevicesInv
<1>4. QED
    BY <1>2, <1>3

LEMMA AddInputKeepsDevices ==
    ASSUME DevicesInv, AddInput
    PROVE  DevicesInv'
<1>1. UNCHANGED <<machine, held, effects, assignedControllerIds>>
    BY DEF AddInput
<1>2. CASE \E n \in Nodes : status[n] = "announced"
    <2>1. PICK n \in Nodes : n = CHOOSE m \in Nodes : status[m] = "announced"
        BY <1>2
    <2>2. status[n] = "announced" /\ evdev_create(n)
        BY <1>2, <2>1 DEF AddInput
    <2>3. QED
        BY <1>1, <2>2, CreateKeepsDevices
<1>3. CASE ~\E n \in Nodes : status[n] = "announced"
    BY <1>1, <1>3, NothingOfDevices DEF AddInput
<1>4. QED
    BY <1>2, <1>3

LEMMA DevicesInvStep == DevicesInv /\ [Next]_vars => DevicesInv'
<1> SUFFICES ASSUME DevicesInv, [Next]_vars PROVE DevicesInv'
    OBVIOUS
<1>1. CASE UNCHANGED evdevVars
    BY <1>1, NothingOfDevices DEF evdevVars, physicalVars, rumbleVars
<1>2. CASE AddInput
    BY <1>2, AddInputKeepsDevices
<1>3. ASSUME NEW n \in Nodes, Plug(n) \/ udev_handle(n) \/ Pull(n)
      PROVE  DevicesInv'
    <2>1. CASE udev_handle(n)
        BY <2>1, CreateKeepsDevices DEF udev_handle
    <2>2. QED
        BY <1>3, <2>1, PlugsKeepDevices
<1>4. ASSUME NEW i \in DOMAIN devices, evdev_remove(i) PROVE DevicesInv'
    BY <1>4, RemoveKeepsDevices
<1>5. ASSUME NEW i \in DOMAIN devices, NEW c \in machine[devices[i].node].controls,
             NEW down \in BOOLEAN, Control(i, c, down)
      PROVE  DevicesInv'
    BY <1>5, ControlKeepsDevices
<1>6. ASSUME NEW i \in DOMAIN devices, NEW p \in HatPositions, HatMoves(i, p[1], p[2])
      PROVE  DevicesInv'
    BY <1>6, MovesKeepDevices
<1>7. ASSUME NEW i \in DOMAIN devices,
             NEW value \in machine[devices[i].node].axis.min - 1 ..
                           machine[devices[i].node].axis.max + 1,
             StickMoves(i, value)
      PROVE  DevicesInv'
    BY <1>7, MovesKeepDevices
<1>8. CASE \/ \E id \in ControllerIds, on \in BOOLEAN : RumbleFind(id, on)
           \/ RumbleStop \/ RumblePlay
    BY <1>8, RumbleKeepsDevices
<1>9. CASE CecKeypress("ok")
    BY <1>9, NothingOfDevices DEF CecKeypress, physicalVars, rumbleVars
<1>10. evdevNext => DevicesInv'
    BY <1>2, <1>3, <1>4, <1>5, <1>6, <1>7, <1>8, <1>9 DEF evdevNext
<1>11. QED
    BY <1>1, <1>10 DEF Next, mainNext, vars

-----------------------------------------------------------------------------
(* A stream is left by its user only. *)

(* What the model keeps of a device's keys and buttons is what its user    *)
(* may have down; so for the window.                                       *)
HeldBy(d, kind, keys) ==
    IF kind = "keyboard" THEN d.modifiers \subseteq Modifiers(keys)
                         ELSE d.buttonFlags \subseteq keys \union Directions

ModifiersHeld ==
    /\ \A i \in DOMAIN devices, n \in Nodes :
          n = devices[i].node => HeldBy(devices[i], machine[n].kind, Believed(n))
    /\ keyboard_modifiers \subseteq Modifiers(keysDown \union missed)

NotLeft ==
    stage \in {"check", "inputs", "start", "connect", "loop"} => leftBy = Nobody

LeftInv == NotLeft /\ ModifiersHeld /\ QuitAlwaysMeant

LEMMA LeftInvInit == Init => LeftInv
<1> SUFFICES ASSUME Init PROVE LeftInv
    OBVIOUS
<1>1. NotLeft /\ QuitAlwaysMeant
    BY DEF Init, StreamingInit, NotLeft, QuitAlwaysMeant, QuitMeant, WindowQuitMeant, Nobody
<1>2. DOMAIN devices = {} /\ keyboard_modifiers = {}
    BY DEF Init, EvdevInit, WindowInit
<1>3. ModifiersHeld
    BY <1>2 DEF ModifiersHeld
<1>4. QED
    BY <1>1, <1>3 DEF LeftInv

(* Modifiers that come of some keys still do when one more goes down, and  *)
(* without its own when one comes up.                                      *)
LEMMA ModifiersOfKeys ==
    ASSUME NEW keys, NEW mods, NEW key, mods \subseteq Modifiers(keys)
    PROVE  /\ mods \union Modifiers({key}) \subseteq Modifiers(keys \union {key})
           /\ mods \ Modifiers({key}) \subseteq Modifiers(keys \ {key})
           /\ \A more : mods \subseteq Modifiers(keys \union more)
BY DEF Modifiers

LEMMA NoModifier ==
    ASSUME NEW key, ModifierOf[key] = None
    PROVE  Modifiers({key}) = {}
BY DEF Modifiers

(* A step by which the loop is not left. *)
LEMMA StaysNotLeft ==
    ASSUME leftBy = Nobody, leftBy' = Nobody
    PROVE  NotLeft' /\ QuitAlwaysMeant'
BY DEF NotLeft, QuitAlwaysMeant, QuitMeant, WindowQuitMeant, Nobody

(* What is believed of a device after a control of it moved. *)
LEMMA BelievedOfControl ==
    ASSUME DevicesInv, NEW i \in DOMAIN devices,
           NEW c \in machine[devices[i].node].controls, NEW down \in BOOLEAN,
           Control(i, c, down), NEW n \in Nodes, n = devices[i].node
    PROVE  /\ \A m \in Nodes : m # n => Believed(m)' = Believed(m)
           /\ lost' = lost \ {<<n, c>>} =>
                /\ down => Believed(n)' = Believed(n) \union {c}
                /\ ~down => Believed(n)' = Believed(n) \ {c}
           /\ lost' = lost \union (IF down THEN {} ELSE {<<n, c>>}) =>
                Believed(n) \subseteq Believed(n)'
<1>1. /\ held' = [held EXCEPT ![n] = IF down THEN held[n] \union {c} ELSE held[n] \ {c}]
      /\ machine' = machine /\ held \in [Nodes -> SUBSET Flags]
    BY DEF Control, reportUnchanged, DevicesInv, DeviceTypes
<1>2. \/ lost' = lost \ {<<n, c>>}
      \/ lost' = lost \union (IF down THEN {} ELSE {<<n, c>>})
    BY DEF Control, Overrun
<1>3. \A m \in Nodes : m # n => Believed(m)' = Believed(m)
    BY <1>1, <1>2 DEF Believed
<1>4. held'[n] = IF down THEN held[n] \union {c} ELSE held[n] \ {c}
    BY <1>1
<1>5. QED
    BY <1>1, <1>3, <1>4 DEF Believed

LEMMA ElementHeld ==
    ASSUME DevicesInv, ModifiersHeld, NEW i \in DOMAIN devices, NEW dev,
           NEW n \in Nodes, n = devices[i].node, dev.node = n,
           devices' = [devices EXCEPT ![i] = dev], UNCHANGED machine,
           \A m \in Nodes : m # n => Believed(m)' = Believed(m),
           HeldBy(dev, machine[n].kind, Believed(n)'),
           UNCHANGED <<keyboard_modifiers, keysDown, missed>>
    PROVE  ModifiersHeld'
<1>1. DOMAIN devices' = DOMAIN devices /\ devices'[i] = dev
    BY ElementsAreDevices DEF DevicesInv, DeviceTypes
<1>2. ASSUME NEW k \in DOMAIN devices, NEW m \in Nodes, m = devices'[k].node
      PROVE  HeldBy(devices'[k], machine[m].kind, Believed(m)')
    <2>1. CASE k = i
        BY <1>1, <1>2, <2>1
    <2>2. CASE k # i
        <3>1. devices'[k] = devices[k]
            BY <2>2
        <3>2. m # n
            BY <1>2, <2>2, <3>1 DEF DevicesInv, Plugged
        <3>3. Believed(m)' = Believed(m)
            BY <3>2
        <3>4. HeldBy(devices[k], machine[m].kind, Believed(m))
            BY <1>2, <3>1 DEF ModifiersHeld
        <3>5. QED
            BY <3>1, <3>3, <3>4
    <2>3. QED
        BY <2>1, <2>2
<1>3. (keyboard_modifiers \subseteq Modifiers(keysDown \union missed))'
    BY DEF ModifiersHeld
<1>4. Nodes' = Nodes
    BY DEF Nodes
<1>5. QED
    BY <1>1, <1>2, <1>3, <1>4 DEF ModifiersHeld

(* A report of a gamepad. *)
LEMMA PadKeepsLeft ==
    ASSUME DevicesInv, LeftInv, leftBy = Nobody, NEW i \in DOMAIN devices,
           NEW dev \in Device, NEW n \in Nodes, n = devices[i].node, dev.node = n,
           machine[n].kind = "gamepad", HandlePad(i, dev), UNCHANGED machine,
           \A m \in Nodes : m # n => Believed(m)' = Believed(m),
           HeldBy(dev, machine[n].kind, Believed(n)'),
           UNCHANGED <<keyboard_modifiers, keysDown, missed>>
    PROVE  LeftInv'
<1>1. CASE /\ QUIT_BUTTONS \subseteq dev.buttonFlags
           /\ Leave([how |-> "buttons", node |-> dev.node])
           /\ devices' = [devices EXCEPT ![i] = dev]
    <2>1. ModifiersHeld'
        BY <1>1, ElementHeld DEF LeftInv
    <2>2. QUIT_BUTTONS \subseteq Believed(n)'
        BY <1>1, EvdevAssumption DEF HeldBy, Directions
    <2>3. /\ leftBy' = [how |-> "buttons", node |-> n] /\ stage' = "stopping"
        BY <1>1 DEF Leave
    <2>4. leftBy'.how = "buttons" /\ leftBy'.node = n
        BY <2>3
    <2>5. QuitMeant'
        BY <2>2, <2>4 DEF QuitMeant, Believed
    <2>6. QuitAlwaysMeant'
        BY <2>4, <2>5 DEF QuitAlwaysMeant, WindowQuitMeant
    <2>7. NotLeft'
        BY <2>3 DEF NotLeft
    <2>8. QED
        BY <2>1, <2>6, <2>7 DEF LeftInv
<1>2. ASSUME NEW id, id = AssignId(dev),
             devices' = [devices EXCEPT ![i] = [dev EXCEPT !.controllerId = id]], Stays
      PROVE  LeftInv'
    <2> DEFINE new == [dev EXCEPT !.controllerId = id]
    <2>1. new.node = n /\ new.modifiers = dev.modifiers /\ new.buttonFlags = dev.buttonFlags
        BY DEF Device
    <2>2. devices' = [devices EXCEPT ![i] = new]
        BY <1>2
    <2> HIDE DEF new
    <2>3. HeldBy(new, machine[n].kind, Believed(n)')
        BY <2>1 DEF HeldBy
    <2>4. ModifiersHeld'
        BY <2>1, <2>2, <2>3, ElementHeld DEF LeftInv
    <2>5. leftBy' = Nobody
        BY <1>2 DEF Stays
    <2>6. QED
        BY <2>4, <2>5, StaysNotLeft DEF LeftInv
<1>3. QED
    BY <1>1, <1>2 DEF HandlePad

LEMMA MovesKeepLeft ==
    ASSUME DevicesInv, LeftInv, NEW i \in DOMAIN devices, UNCHANGED windowVars,
           \/ \E p \in HatPositions : HatMoves(i, p[1], p[2])
           \/ \E value \in Int : StickMoves(i, value)
    PROVE  LeftInv'
<1>1. PICK n \in Nodes : n = devices[i].node
    BY ElementsAreDevices
<1>2. /\ UNCHANGED <<machine, held, lost, keyboard_modifiers, keysDown, missed>>
      /\ leftBy = Nobody
    BY DEF HatMoves, StickMoves, reportUnchanged, windowVars, windowKeyVars, LeftInv, NotLeft
<1>3. \A m \in Nodes : Believed(m)' = Believed(m)
    BY <1>2 DEF Believed
<1>4. HeldBy(devices[i], machine[n].kind, Believed(n)) /\ devices[i] \in Device
    BY <1>1, ElementsAreDevices DEF LeftInv, ModifiersHeld
<1> machine[n].kind = "gamepad"
    BY <1>1, KindsOfDevices DEF HatMoves, StickMoves
<1>5. ASSUME NEW p \in HatPositions, HatMoves(i, p[1], p[2]) PROVE LeftInv'
    <2>1. PICK h \in SUBSET Directions : h = hat_constants[p[2] + 2][p[1] + 2]
        BY HatInDirections DEF HatPositions
    <2>2. PICK flags : flags = set_hat(devices[i].buttonFlags, p[1], p[2])
        OBVIOUS
    <2>3. flags = (devices[i].buttonFlags \ Directions) \union h
        BY <2>1, <2>2 DEF set_hat, Directions
    <2>4. Directions \subseteq Flags /\ devices[i].buttonFlags \subseteq Flags
        BY <1>4 DEF Flags, Device
    <2>5. flags \in SUBSET Flags /\ flags \subseteq Believed(n) \union Directions
        BY <1>4, <2>1, <2>3, <2>4 DEF HeldBy
    <2> DEFINE dev == [devices[i] EXCEPT !.buttonFlags = flags]
    <2>6. /\ dev \in Device /\ dev.node = n /\ dev.modifiers = devices[i].modifiers
          /\ dev.buttonFlags = flags
        BY <1>1, <1>4, <2>5 DEF Device
    <2>7. HandlePad(i, dev)
        BY <1>5, <2>2 DEF HatMoves
    <2> HIDE DEF dev
    <2>8. HeldBy(dev, machine[n].kind, Believed(n)')
        BY <1>3, <1>4, <2>5, <2>6 DEF HeldBy
    <2>9. QED
        BY <1>1, <1>2, <1>3, <2>6, <2>7, <2>8, PadKeepsLeft
<1>6. ASSUME NEW value \in Int, StickMoves(i, value) PROVE LeftInv'
    <2>1. PICK stick \in Sticks : stick = evdev_convert_value(value, machine[n].axis)
        <3>1. evdev_convert_value(value, machine[n].axis)
                \in {evdev_convert_value(v, machine[n].axis) : v \in Int}
            OBVIOUS
        <3>2. QED
            BY <3>1 DEF Sticks
    <2> DEFINE dev == [devices[i] EXCEPT !.leftStickX = stick]
    <2>2. /\ dev \in Device /\ dev.node = n /\ dev.modifiers = devices[i].modifiers
          /\ dev.buttonFlags = devices[i].buttonFlags
        BY <1>1, <1>4 DEF Device
    <2>3. HandlePad(i, dev)
        BY <1>1, <1>6, <2>1 DEF StickMoves
    <2> HIDE DEF dev
    <2>4. HeldBy(dev, machine[n].kind, Believed(n)')
        BY <1>3, <1>4, <2>2 DEF HeldBy
    <2>5. QED
        BY <1>1, <1>2, <1>3, <2>2, <2>3, <2>4, PadKeepsLeft
<1>7. QED
    BY <1>5, <1>6

LEMMA HeldByMore ==
    ASSUME NEW d, NEW kind, NEW keys, NEW more, HeldBy(d, kind, keys), keys \subseteq more
    PROVE  HeldBy(d, kind, more)
BY DEF HeldBy, Modifiers

(* A key of a keyboard whose report is read. *)
LEMMA KeyKeepsLeft ==
    ASSUME DevicesInv, LeftInv, leftBy = Nobody, NEW i \in DOMAIN devices,
           NEW n \in Nodes, n = devices[i].node, machine[n].kind = "keyboard",
           NEW c, NEW down \in BOOLEAN, HandleKey(i, c, down), UNCHANGED machine,
           \A m \in Nodes : m # n => Believed(m)' = Believed(m),
           Believed(n)' = IF down THEN Believed(n) \union {c} ELSE Believed(n) \ {c},
           down => c \in held'[n],
           UNCHANGED <<keyboard_modifiers, keysDown, missed>>
    PROVE  LeftInv'
<1>1. HeldBy(devices[i], machine[n].kind, Believed(n)) /\ devices[i] \in Device
    BY ElementsAreDevices DEF LeftInv, ModifiersHeld
<1>2. PICK mods : mods = KeyModifiers(devices[i], c, down)
    OBVIOUS
<1>3. mods \subseteq Modifiers(Believed(n)')
    BY <1>1, <1>2, ModifiersOfKeys DEF HeldBy, KeyModifiers
<1>4. CASE /\ ACTION_MODIFIERS \subseteq mods /\ c = QUIT_KEY /\ down
           /\ Leave([how |-> "keys", node |-> n]) /\ UNCHANGED devices
    <2>1. HeldBy(devices[i], machine[n].kind, Believed(n)')
        BY <1>1, <1>4, HeldByMore
    <2>2. devices' = [devices EXCEPT ![i] = devices[i]]
        BY <1>4, ElementsAreDevices DEF DevicesInv, DeviceTypes
    <2>3. ModifiersHeld'
        BY <2>1, <2>2, ElementHeld DEF LeftInv
    <2>4. leftBy' = [how |-> "keys", node |-> n] /\ stage' = "stopping"
        BY <1>4 DEF Leave
    <2>5. leftBy'.how = "keys" /\ leftBy'.node = n
        BY <2>4
    <2>6. ACTION_MODIFIERS \subseteq Modifiers(Believed(n)') /\ QUIT_KEY \in held'[n]
        BY <1>3, <1>4
    <2>7. QuitMeant'
        BY <2>5, <2>6 DEF QuitMeant, Believed
    <2>8. QuitAlwaysMeant' /\ NotLeft'
        BY <2>4, <2>5, <2>7 DEF QuitAlwaysMeant, WindowQuitMeant, NotLeft
    <2>9. QED
        BY <2>3, <2>8 DEF LeftInv
<1>5. CASE devices' = [devices EXCEPT ![i].modifiers = mods] /\ Stays
    <2> DEFINE new == [devices[i] EXCEPT !.modifiers = mods]
    <2>1. /\ new.node = n /\ new.modifiers = mods
          /\ new.buttonFlags = devices[i].buttonFlags
        BY <1>1 DEF Device
    <2>2. devices' = [devices EXCEPT ![i] = new]
        BY <1>5
    <2> HIDE DEF new
    <2>3. HeldBy(new, machine[n].kind, Believed(n)')
        BY <1>3, <2>1 DEF HeldBy
    <2>4. ModifiersHeld'
        BY <2>1, <2>2, <2>3, ElementHeld DEF LeftInv
    <2>5. leftBy' = Nobody
        BY <1>5 DEF Stays
    <2>6. QED
        BY <2>4, <2>5, StaysNotLeft DEF LeftInv
<1>6. QED
    BY <1>2, <1>4, <1>5 DEF HandleKey

LEMMA ControlKeepsLeft ==
    ASSUME DevicesInv, LeftInv, NEW i \in DOMAIN devices,
           NEW c \in machine[devices[i].node].controls, NEW down \in BOOLEAN,
           Control(i, c, down), UNCHANGED windowVars
    PROVE  LeftInv'
<1>1. PICK n \in Nodes : n = devices[i].node
    BY ElementsAreDevices
<1>2. /\ UNCHANGED <<machine, keyboard_modifiers, keysDown, missed>>
      /\ leftBy = Nobody
    BY DEF Control, reportUnchanged, windowVars, windowKeyVars, LeftInv, NotLeft
<1>3. \A m \in Nodes : m # n => Believed(m)' = Believed(m)
    BY <1>1, BelievedOfControl
<1>4. /\ HeldBy(devices[i], machine[n].kind, Believed(n)) /\ devices[i] \in Device
      /\ machine[n].kind \in {"keyboard", "gamepad"} /\ c \in Flags
    BY <1>1, ElementsAreDevices, KindsOfDevices DEF LeftInv, ModifiersHeld
<1>5. CASE lost' = lost \ {<<n, c>>} /\ machine[n].kind = "keyboard" /\ HandleKey(i, c, down)
    <2>1. Believed(n)' = IF down THEN Believed(n) \union {c} ELSE Believed(n) \ {c}
        <3>1. /\ down => Believed(n)' = Believed(n) \union {c}
              /\ ~down => Believed(n)' = Believed(n) \ {c}
            BY <1>1, <1>5, BelievedOfControl
        <3>2. QED
            BY <3>1
    <2>2. down => c \in held'[n]
        BY <1>1 DEF Control, DevicesInv, DeviceTypes
    <2>3. QED
        BY <1>1, <1>2, <1>3, <1>5, <2>1, <2>2, KeyKeepsLeft
<1>6. CASE /\ lost' = lost \ {<<n, c>>} /\ machine[n].kind = "gamepad"
           /\ HandlePad(i, [devices[i] EXCEPT !.buttonFlags =
                               IF down THEN @ \union {c} ELSE @ \ {c}])
    <2>1. Believed(n)' = IF down THEN Believed(n) \union {c} ELSE Believed(n) \ {c}
        <3>1. /\ down => Believed(n)' = Believed(n) \union {c}
              /\ ~down => Believed(n)' = Believed(n) \ {c}
            BY <1>1, <1>6, BelievedOfControl
        <3>2. QED
            BY <3>1
    <2>2. PICK flags : flags = IF down THEN devices[i].buttonFlags \union {c}
                                      ELSE devices[i].buttonFlags \ {c}
        OBVIOUS
    <2>3. flags \in SUBSET Flags
        BY <1>4, <2>2 DEF Device
    <2>4. flags \subseteq Believed(n)' \union Directions
        BY <1>4, <1>6, <2>1, <2>2 DEF HeldBy
    <2> DEFINE dev == [devices[i] EXCEPT !.buttonFlags = flags]
    <2>5. dev \in Device /\ dev.node = n /\ dev.buttonFlags = flags
        BY <1>1, <1>4, <2>3 DEF Device
    <2>6. HandlePad(i, dev)
        BY <1>6, <2>2
    <2> HIDE DEF dev
    <2>7. HeldBy(dev, machine[n].kind, Believed(n)')
        BY <1>6, <2>4, <2>5 DEF HeldBy
    <2>8. QED
        BY <1>1, <1>2, <1>3, <1>6, <2>5, <2>6, <2>7, PadKeepsLeft
<1>7. CASE /\ lost' = lost \union (IF down THEN {} ELSE {<<n, c>>})
           /\ UNCHANGED devices /\ Stays
    <2>1. Believed(n) \subseteq Believed(n)'
        BY <1>1, <1>7, BelievedOfControl
    <2>2. HeldBy(devices[i], machine[n].kind, Believed(n)')
        BY <1>4, <2>1, HeldByMore
    <2>3. devices' = [devices EXCEPT ![i] = devices[i]]
        BY <1>7, ElementsAreDevices DEF DevicesInv, DeviceTypes
    <2>4. ModifiersHeld'
        BY <1>1, <1>2, <1>3, <2>2, <2>3, ElementHeld DEF LeftInv
    <2>5. leftBy' = Nobody
        BY <1>2, <1>7 DEF Stays
    <2>6. QED
        BY <1>2, <2>4, <2>5, StaysNotLeft DEF LeftInv
<1>8. QED
    BY <1>1, <1>4, <1>5, <1>6, <1>7 DEF Control, Overrun

LEMMA DevicesHeldSame ==
    ASSUME ModifiersHeld, UNCHANGED <<machine, devices, held, lost>>,
           keyboard_modifiers' \subseteq Modifiers(keysDown' \union missed')
    PROVE  ModifiersHeld'
BY DEF ModifiersHeld, Nodes, Believed

LEMMA WindowModifiers ==
    ASSUME ModifiersHeld, NEW key, NEW down \in BOOLEAN,
           keysDown' = IF down THEN keysDown \union {key} ELSE keysDown \ {key},
           keyboard_modifiers' = IF down THEN keyboard_modifiers \union Modifiers({key})
                                         ELSE keyboard_modifiers \ Modifiers({key}),
           missed \ {key} \subseteq missed', down => missed' = missed
    PROVE  keyboard_modifiers' \subseteq Modifiers(keysDown' \union missed')
<1> DEFINE B == keysDown \union missed
<1>1. keyboard_modifiers \subseteq Modifiers(B)
    BY DEF ModifiersHeld
<1>2. CASE down
    <2>1. B \union {key} = keysDown' \union missed'
        BY <1>2
    <2>2. keyboard_modifiers \union Modifiers({key}) \subseteq Modifiers(B \union {key})
        BY <1>1, ModifiersOfKeys
    <2>3. QED
        BY <1>2, <2>1, <2>2
<1>3. CASE ~down
    <2>1. (B \ {key}) \union (keysDown' \union missed') = keysDown' \union missed'
        BY <1>3
    <2>2. keyboard_modifiers \ Modifiers({key}) \subseteq Modifiers(B \ {key})
        BY <1>1, ModifiersOfKeys
    <2>3. \A more : Modifiers(B \ {key}) \subseteq Modifiers((B \ {key}) \union more)
        BY DEF Modifiers
    <2>4. Modifiers(B \ {key}) \subseteq Modifiers(keysDown' \union missed')
        BY <2>1, <2>3
    <2>5. QED
        BY <1>3, <2>2, <2>4
<1>4. QED
    BY <1>2, <1>3

(* The loop is left by the combination in the window. *)
LEMMA WindowLeft ==
    ASSUME ACTION_MODIFIERS \subseteq Modifiers(keysDown' \union missed'),
           Leave([how |-> "window", key |-> QUIT_KEY])
    PROVE  NotLeft' /\ QuitAlwaysMeant'
<1>1. leftBy' = [how |-> "window", key |-> QUIT_KEY] /\ stage' = "stopping"
    BY DEF Leave
<1>2. leftBy'.how = "window" /\ leftBy'.key = QUIT_KEY
    BY <1>1
<1>3. QED
    BY <1>1, <1>2 DEF NotLeft, QuitAlwaysMeant, QuitMeant, WindowQuitMeant

LEMMA WindowKeyKeepsLeft ==
    ASSUME LeftInv, leftBy = Nobody, NEW key \in WindowKeys, NEW down \in BOOLEAN,
           keysDown' = IF down THEN keysDown \union {key} ELSE keysDown \ {key},
           WindowEvent(key, down), UNCHANGED evdevVars
    PROVE  LeftInv'
<1>1. ModifiersHeld /\ UNCHANGED <<machine, devices, held, lost>>
    BY DEF LeftInv, evdevVars, physicalVars, historyVars
<1>2. /\ ModifierOf[key] = None => Modifiers({key}) = {}
      /\ key \in MouseButtons \union {QUIT_KEY} => ModifierOf[key] = None
    BY NoModifier, WindowInputAssumption, StreamingAssumption
<1>3. /\ missed \ {key} \subseteq missed' /\ (down => missed' = missed)
      /\ \/ UpdateModifiers(key, down)
         \/ keyboard_modifiers' = keyboard_modifiers /\ key \in MouseButtons \union {QUIT_KEY}
      /\ \/ Stays
         \/ /\ Leave([how |-> "window", key |-> QUIT_KEY])
            /\ ACTION_MODIFIERS \subseteq keyboard_modifiers'
    <2>1. CASE key \in MouseButtons
        BY <2>1 DEF WindowEvent, MouseButton
    <2>2. CASE key \notin MouseButtons /\ platform = "x11"
        BY <2>2 DEF WindowEvent, X11Key, QuitX11
    <2>3. CASE key \notin MouseButtons /\ platform # "x11"
        BY <2>3 DEF WindowEvent, SdlKey, InCombination
    <2>4. QED
        BY <2>1, <2>2, <2>3
<1>4. keyboard_modifiers' = IF down THEN keyboard_modifiers \union Modifiers({key})
                                    ELSE keyboard_modifiers \ Modifiers({key})
    BY <1>2, <1>3 DEF UpdateModifiers
<1>5. keyboard_modifiers' \subseteq Modifiers(keysDown' \union missed')
    BY <1>1, <1>3, <1>4, WindowModifiers
<1>6. ModifiersHeld'
    BY <1>1, <1>5, DevicesHeldSame
<1>7. NotLeft' /\ QuitAlwaysMeant'
    BY <1>3, <1>5, WindowLeft, StaysNotLeft DEF Stays
<1>8. QED
    BY <1>6, <1>7 DEF LeftInv

(* The loop is left by a signal, a gamepad of SDL or the window's end.     *)
LEMMA LeftElse ==
    ASSUME NEW reason, reason.how \notin {"keys", "buttons", "window"}, Leave(reason)
    PROVE  NotLeft' /\ QuitAlwaysMeant'
BY DEF Leave, NotLeft, QuitAlwaysMeant, QuitMeant, WindowQuitMeant

LEMMA WindowKeepsLeft ==
    ASSUME LeftInv, windowNext, UNCHANGED evdevVars
    PROVE  LeftInv'
<1>1. ModifiersHeld /\ UNCHANGED <<machine, devices, held, lost>>
      /\ keyboard_modifiers \subseteq Modifiers(keysDown \union missed)
    BY DEF LeftInv, ModifiersHeld, evdevVars, physicalVars, historyVars
<1>2. stage \in {"inputs", "loop"} => leftBy = Nobody
    BY DEF LeftInv, NotLeft
<1>3. ASSUME NEW key \in WindowKeys, KeyEvent(key) PROVE LeftInv'
    <2>1. leftBy = Nobody
        BY <1>2, <1>3 DEF KeyEvent, InWindow
    <2>2. PICK down \in BOOLEAN : down = (key \in keysDown')
        <3>1. (key \in keysDown') \in BOOLEAN
            OBVIOUS
        <3>2. QED
            BY <3>1, Zenon
    <2>3. /\ keysDown' = IF down THEN keysDown \union {key} ELSE keysDown \ {key}
          /\ WindowEvent(key, down)
        BY <1>3, <2>2 DEF KeyEvent
    <2>4. QED
        BY <2>1, <2>3, WindowKeyKeepsLeft
<1>4. ASSUME NEW key \in WindowKeys, Repeat(key) PROVE LeftInv'
    <2>1. leftBy = Nobody /\ keysDown' = keysDown \ {key} /\ WindowEvent(key, FALSE)
        BY <1>2, <1>4 DEF Repeat, InWindow, WindowEvent
    <2>2. QED
        BY <2>1, WindowKeyKeepsLeft
<1>5. CASE OutOfFocus
    <2>1. keyboard_modifiers' = keyboard_modifiers
          /\ keysDown' \union missed' = keysDown \union missed
        BY <1>5 DEF OutOfFocus
    <2>2. ModifiersHeld'
        BY <1>1, <2>1, DevicesHeldSame
    <2>3. leftBy' = Nobody
        BY <1>2, <1>5 DEF OutOfFocus, InWindow, streamingVars
    <2>4. QED
        BY <1>2, <1>5, <2>2, <2>3, StaysNotLeft DEF OutOfFocus, InWindow, LeftInv
<1>6. ASSUME UNCHANGED <<keyboard_modifiers, keysDown, missed>> PROVE ModifiersHeld'
    BY <1>1, <1>6, DevicesHeldSame
<1>7. CASE WindowClosed
    <2>1. Leave([how |-> "closed"]) /\ UNCHANGED <<keyboard_modifiers, keysDown, missed>>
        BY <1>7 DEF WindowClosed, windowVars, windowKeyVars
    <2>2. QED
        BY <1>6, <2>1, LeftElse DEF LeftInv
<1>8. CASE SdlInit
    <2>1. /\ UNCHANGED <<leftBy, keyboard_modifiers, keysDown, missed>>
          /\ stage = "inputs"
        BY <1>8 DEF SdlInit, windowKeyVars
    <2>2. QED
        BY <1>2, <1>6, <2>1, StaysNotLeft DEF LeftInv
<1>9. ASSUME NEW j \in Joysticks, NEW b \in PadButtons, PadEvent(j, b) PROVE LeftInv'
    <2>1. /\ UNCHANGED <<keyboard_modifiers, keysDown, missed>> /\ stage = "loop"
          /\ Leave([how |-> "pad", joystick |-> j]) \/ Stays
        BY <1>9 DEF PadEvent, windowKeyVars
    <2>2. QED
        BY <1>2, <1>6, <2>1, LeftElse, StaysNotLeft DEF LeftInv, Stays
<1>10. ASSUME NEW id \in ControllerIds, NEW on \in BOOLEAN, SdlRumble(id, on) PROVE LeftInv'
    <2>1. UNCHANGED <<stage, leftBy, keyboard_modifiers, keysDown, missed>>
        BY <1>10 DEF SdlRumble, windowKeyVars, streamingVars
    <2>2. QED
        BY <1>1, <1>6, <2>1
           DEF LeftInv, NotLeft, QuitAlwaysMeant, QuitMeant, WindowQuitMeant, Believed
<1>11. QED
    BY <1>3, <1>4, <1>5, <1>7, <1>8, <1>9, <1>10 DEF windowNext

(* A pulled device comes to nothing, but what its user held is lost.       *)
LEMMA PullBelieved ==
    ASSUME DevicesInv, NEW n \in Nodes, Pull(n)
    PROVE  \A m \in Nodes : Believed(m)' = Believed(m)
<1>1. /\ machine' = machine /\ held' = [held EXCEPT ![n] = {}]
      /\ lost' = lost \union ({n} \X held[n])
    BY DEF Pull
<1>2. held \in [Nodes -> SUBSET Flags] /\ \A m \in Nodes : held[m] \subseteq machine[m].controls
    BY DEF DevicesInv, DeviceTypes, Plugged
<1>3. ASSUME NEW m \in Nodes, m # n PROVE Believed(m)' = Believed(m)
    <2>1. \A c : <<m, c>> \in lost' <=> <<m, c>> \in lost
        BY <1>1, <1>3
    <2>2. held'[m] = held[m]
        BY <1>1, <1>2, <1>3
    <2>3. QED
        BY <1>1, <2>1, <2>2 DEF Believed
<1>4. Believed(n)' = Believed(n)
    <2>1. \A c : <<n, c>> \in lost' <=> <<n, c>> \in lost \/ c \in held[n]
        BY <1>1
    <2>2. held'[n] = {}
        BY <1>1, <1>2
    <2>3. QED
        BY <1>1, <1>2, <2>1, <2>2 DEF Believed
<1>5. QED
    BY <1>3, <1>4

LEMMA RemovedFrom ==
    ASSUME DevicesInv, NEW i \in DOMAIN devices, evdev_remove(i)
    PROVE  \A k \in DOMAIN devices' : \E l \in DOMAIN devices : devices'[k] = devices[l]
<1>1. devices \in Seq(Device) /\ Len(devices) \in Nat /\ DOMAIN devices = 1..Len(devices)
    BY ElementsAreDevices DEF DevicesInv, DeviceTypes
<1>2. /\ devices' \in Seq(Device) /\ Len(devices) \in Nat \ {0}
      /\ Len(devices') = Len(devices) - 1
      /\ \A k \in 1..Len(devices') :
            devices'[k] = IF k = i THEN devices[Len(devices)] ELSE devices[k]
    BY <1>1, LastMoved DEF evdev_remove
<1>3. DOMAIN devices' = 1..(Len(devices) - 1)
    BY <1>2, LenProperties
<1>4. QED
    BY <1>1, <1>2, <1>3

(* evdev_rumble changes of an element only its effect.                     *)
SameInput(k) ==
    /\ devices'[k].node = devices[k].node
    /\ devices'[k].modifiers = devices[k].modifiers
    /\ devices'[k].buttonFlags = devices[k].buttonFlags
    /\ devices'[k].leftStickX = devices[k].leftStickX
    /\ devices'[k].controllerId = devices[k].controllerId

LEMMA EffectOnlyHaptic ==
    ASSUME DevicesInv, rumbler.pc # "idle", NEW id, SetEffect(id)
    PROVE  DOMAIN devices' = DOMAIN devices /\ \A k \in DOMAIN devices : SameInput(k)
<1>1. CASE rumbler.at = 0
    BY <1>1 DEF SetEffect, SameInput
<1>2. CASE rumbler.at # 0
    <2>1. PICK i \in DOMAIN devices : i = rumbler.at
        BY <1>2, EntryIs
    <2> DEFINE new == [devices[i] EXCEPT !.haptic_effect_id = id]
    <2>2. /\ devices[i] \in Device
          /\ new.node = devices[i].node /\ new.modifiers = devices[i].modifiers
          /\ new.buttonFlags = devices[i].buttonFlags
          /\ new.leftStickX = devices[i].leftStickX
          /\ new.controllerId = devices[i].controllerId
        BY ElementsAreDevices DEF Device
    <2>3. devices' = [devices EXCEPT ![i] = new]
        BY <1>2, <2>1 DEF SetEffect
    <2> HIDE DEF new
    <2>4. \A k \in DOMAIN devices : devices'[k] = IF k = i THEN new ELSE devices[k]
        BY <2>3
    <2>5. QED
        BY <2>2, <2>3, <2>4 DEF SameInput
<1>3. QED
    BY <1>1, <1>2

LEMMA RumbleOnlyHaptic ==
    ASSUME DevicesInv,
           \/ \E id \in ControllerIds, on \in BOOLEAN : RumbleFind(id, on)
           \/ RumbleStop \/ RumblePlay
    PROVE  DOMAIN devices' = DOMAIN devices /\ \A k \in DOMAIN devices : SameInput(k)
<1>1. CASE UNCHANGED devices
    BY <1>1 DEF SameInput
<1>2. CASE rumbler.pc # "idle" /\ \E id : SetEffect(id)
    BY <1>2, EffectOnlyHaptic
<1>3. QED
    BY <1>1, <1>2 DEF RumbleFind, RumbleStop, RumblePlay

LEMMA EvdevKeepsLeft ==
    ASSUME DevicesInv, LeftInv, evdevNext, UNCHANGED windowVars
    PROVE  LeftInv'
<1>1. /\ ModifiersHeld /\ UNCHANGED <<keyboard_modifiers, keysDown, missed>>
      /\ keyboard_modifiers' \subseteq Modifiers(keysDown' \union missed')
    BY DEF LeftInv, ModifiersHeld, windowVars, windowKeyVars
<1>2. stage \in {"inputs", "loop"} => leftBy = Nobody
    BY DEF LeftInv, NotLeft
<1>3. ASSUME NEW n \in Nodes, status[n] = "announced", evdev_create(n),
             UNCHANGED <<machine, held, lost>>
      PROVE  ModifiersHeld'
    <2>1. CASE UNCHANGED devices
        BY <1>1, <1>3, <2>1, DevicesHeldSame
    <2>2. CASE devices' = Append(devices, [NoDevice EXCEPT !.node = n])
        <3> DEFINE new == [NoDevice EXCEPT !.node = n]
        <3>1. devices \in Seq(Device) /\ Len(devices) \in Nat /\ DOMAIN devices = 1..Len(devices)
            BY ElementsAreDevices DEF DevicesInv, DeviceTypes
        <3>2. new \in Device /\ new.modifiers = {} /\ new.buttonFlags = {}
            BY DEF NoDevice, Device, Flags, Sticks
        <3>3. /\ devices' \in Seq(Device) /\ Len(devices') = Len(devices) + 1
              /\ \A k \in 1..Len(devices) : devices'[k] = devices[k]
              /\ devices'[Len(devices) + 1] = new
            BY <2>2, <3>1, <3>2, AppendProperties
        <3> HIDE DEF new
        <3>4. DOMAIN devices' = 1..(Len(devices) + 1)
            BY <3>3, LenProperties
        <3>5. \A k \in DOMAIN devices' : k \in DOMAIN devices \/ devices'[k] = new
            BY <3>1, <3>3, <3>4
        <3>6. \A k \in DOMAIN devices : devices'[k] = devices[k]
            BY <3>1, <3>3
        <3>7. \A m \in Nodes : Believed(m)' = Believed(m) /\ HeldBy(new, machine[m].kind, Believed(m))
            BY <1>3, <3>2 DEF Believed, HeldBy
        <3>8. Nodes' = Nodes /\ machine' = machine
            BY <1>3 DEF Nodes
        <3>9. QED
            BY <1>1, <3>5, <3>6, <3>7, <3>8 DEF ModifiersHeld
    <2>3. QED
        BY <1>3, <2>1, <2>2 DEF evdev_create
<1>4. CASE AddInput
    <2>1. leftBy' = Nobody /\ leftBy = Nobody /\ UNCHANGED <<machine, held, lost>>
        BY <1>2, <1>4 DEF AddInput
    <2>2. CASE \E n \in Nodes : status[n] = "announced"
        <3>1. PICK n \in Nodes : n = CHOOSE m \in Nodes : status[m] = "announced"
            BY <2>2
        <3>2. status[n] = "announced" /\ evdev_create(n)
            BY <1>4, <2>2, <3>1 DEF AddInput
        <3>3. QED
            BY <1>3, <2>1, <3>2, StaysNotLeft DEF LeftInv
    <2>3. CASE ~\E n \in Nodes : status[n] = "announced"
        <3>1. UNCHANGED devices
            BY <1>4, <2>3 DEF AddInput
        <3>2. QED
            BY <1>1, <2>1, <3>1, DevicesHeldSame, StaysNotLeft DEF LeftInv
    <2>4. QED
        BY <2>2, <2>3
<1>5. ASSUME NEW n \in Nodes, udev_handle(n) PROVE LeftInv'
    <2>1. /\ leftBy' = Nobody /\ leftBy = Nobody /\ UNCHANGED <<machine, held, lost>>
          /\ status[n] = "announced" /\ evdev_create(n)
        BY <1>2, <1>5 DEF udev_handle, streamingVars
    <2>2. QED
        BY <1>3, <2>1, StaysNotLeft DEF LeftInv
<1>6. ASSUME NEW n \in Nodes, Plug(n) PROVE LeftInv'
    <2>1. leftBy' = Nobody /\ leftBy = Nobody /\ UNCHANGED <<machine, held, lost, devices>>
        BY <1>2, <1>6 DEF Plug, streamingVars, historyVars
    <2>2. QED
        BY <1>1, <2>1, DevicesHeldSame, StaysNotLeft DEF LeftInv
<1>7. ASSUME NEW n \in Nodes, Pull(n) PROVE LeftInv'
    <2>1. leftBy' = Nobody /\ leftBy = Nobody /\ UNCHANGED <<machine, devices>>
        BY <1>2, <1>7 DEF Pull, streamingVars
    <2>2. \A m \in Nodes : Believed(m)' = Believed(m)
        BY <1>7, PullBelieved
    <2>3. ModifiersHeld'
        BY <1>1, <2>1, <2>2 DEF ModifiersHeld, Nodes
    <2>4. QED
        BY <2>1, <2>3, StaysNotLeft DEF LeftInv
<1>8. ASSUME NEW i \in DOMAIN devices, evdev_remove(i) PROVE LeftInv'
    <2>1. leftBy' = Nobody /\ leftBy = Nobody /\ UNCHANGED <<machine, held, lost>>
        BY <1>2, <1>8 DEF evdev_remove, streamingVars
    <2>2. \A k \in DOMAIN devices' : \E l \in DOMAIN devices : devices'[k] = devices[l]
        BY <1>8, RemovedFrom
    <2>3. \A m \in Nodes : Believed(m)' = Believed(m)
        BY <2>1 DEF Believed
    <2>4. ModifiersHeld'
        BY <1>1, <2>1, <2>2, <2>3 DEF ModifiersHeld, Nodes
    <2>5. QED
        BY <2>1, <2>4, StaysNotLeft DEF LeftInv
<1>9. ASSUME NEW i \in DOMAIN devices, NEW c \in machine[devices[i].node].controls,
             NEW down \in BOOLEAN, Control(i, c, down)
      PROVE  LeftInv'
    BY <1>9, ControlKeepsLeft
<1>10. ASSUME NEW i \in DOMAIN devices, NEW p \in HatPositions, HatMoves(i, p[1], p[2])
       PROVE  LeftInv'
    BY <1>10, MovesKeepLeft
<1>11. ASSUME NEW i \in DOMAIN devices,
              NEW value \in machine[devices[i].node].axis.min - 1 ..
                            machine[devices[i].node].axis.max + 1,
              StickMoves(i, value)
       PROVE  LeftInv'
    BY <1>11, MovesKeepLeft
<1>12. CASE \/ \E id \in ControllerIds, on \in BOOLEAN : RumbleFind(id, on)
            \/ RumbleStop \/ RumblePlay
    <2>1. UNCHANGED <<stage, leftBy, machine, held, lost, keysDown, missed>>
        BY <1>1, <1>12 DEF RumbleFind, RumbleStop, RumblePlay, rumbleUnchanged, streamingVars,
                           physicalVars, historyVars
    <2>2. /\ DOMAIN devices' = DOMAIN devices
          /\ \A k \in DOMAIN devices : SameInput(k)
        BY <1>12, RumbleOnlyHaptic
    <2>3. \A m \in Nodes : Believed(m)' = Believed(m)
        BY <2>1 DEF Believed
    <2>4. ModifiersHeld'
        BY <1>1, <2>1, <2>2, <2>3 DEF ModifiersHeld, Nodes, SameInput, HeldBy
    <2>5. QED
        BY <2>1, <2>4 DEF LeftInv, NotLeft, QuitAlwaysMeant, QuitMeant, WindowQuitMeant, Believed
<1>13. CASE CecKeypress("ok")
    <2>1. leftBy' = Nobody /\ leftBy = Nobody /\ UNCHANGED <<machine, held, lost, devices>>
        BY <1>2, <1>13 DEF CecKeypress, Stays, physicalVars, historyVars
    <2>2. QED
        BY <1>1, <2>1, DevicesHeldSame, StaysNotLeft DEF LeftInv
<1>14. QED
    BY <1>4, <1>5, <1>6, <1>7, <1>8, <1>9, <1>10, <1>11, <1>12, <1>13 DEF evdevNext

LEMMA LeftInvStep == DevicesInv /\ LeftInv /\ [Next]_vars => LeftInv'
<1> SUFFICES ASSUME DevicesInv, LeftInv, [Next]_vars PROVE LeftInv'
    OBVIOUS
<1>1. CASE mainNext \/ UNCHANGED vars
    <2>1. /\ UNCHANGED <<machine, held, lost, devices, keyboard_modifiers, keysDown, missed>>
          /\ ModifiersHeld
        BY <1>1 DEF mainNext, vars, evdevVars, physicalVars, historyVars, windowVars,
                    windowKeyVars, LeftInv
    <2>2. ModifiersHeld'
        BY <2>1, DevicesHeldSame DEF ModifiersHeld
    <2>3. CASE LoopSignal
        BY <2>2, <2>3, LeftElse DEF LoopSignal, OnSignal, LeftInv
    <2>4. CASE ~LoopSignal
        <3>1. /\ leftBy' = leftBy
              /\ stage' \in {"check", "inputs", "start", "connect", "loop"} =>
                    stage \in {"check", "inputs", "start", "connect", "loop"}
            BY <1>1, <2>4 DEF mainNext, vars, streamingVars, PlatformCheck, Start, Connect,
                              Terminated, Signal, Stop
        <3>2. QED
            BY <2>1, <2>2, <3>1
               DEF LeftInv, NotLeft, QuitAlwaysMeant, QuitMeant, WindowQuitMeant, Believed
    <2>5. QED
        BY <2>3, <2>4
<1>2. CASE evdevNext /\ UNCHANGED windowVars
    BY <1>2, EvdevKeepsLeft
<1>3. CASE windowNext /\ UNCHANGED evdevVars
    BY <1>3, WindowKeepsLeft
<1>4. QED
    BY <1>1, <1>2, <1>3 DEF Next

(* What a stream is left by is its user, who has the whole combination     *)
(* down where the stream is left, or a signal, a gamepad of SDL, or the    *)
(* window's end; on whatever devices, with whatever keys and buttons.      *)
THEOREM QuitMeantAlways == Spec => []QuitAlwaysMeant
<1>1. Init => DevicesInv /\ LeftInv
    BY DevicesInvInit, LeftInvInit DEF Init
<1>2. DevicesInv /\ LeftInv /\ [Next]_vars => (DevicesInv /\ LeftInv)'
    BY DevicesInvStep, LeftInvStep
<1>3. LeftInv => QuitAlwaysMeant
    BY DEF LeftInv
<1>4. QED
    BY <1>1, <1>2, <1>3, PTL DEF Spec

-----------------------------------------------------------------------------
(* What the host believes to be down. *)

Pressed(k) ==
    \/ \E n \in Nodes : machine[n].kind = "keyboard" /\ k \in Believed(n)
    \/ k \in cecHeld \/ k \in keysDown \/ k \in missed

(* NoGhostKeys, of the keyboards alone: a gamepad that lets go of a button *)
(* takes no key from the host.                                             *)
KeysInv ==
    /\ DOMAIN remote = {"keys", "pads", "mask"}
    /\ stage \in {"check", "inputs", "start", "connect", "loop"} =>
          \A k \in remote.keys : Pressed(k)

LEMMA KeysInvInit == Init => KeysInv
BY DEF Init, StreamingInit, KeysInv

LEMMA KeySent ==
    ASSUME DOMAIN remote = {"keys", "pads", "mask"}, NEW key, NEW down \in BOOLEAN,
           SendKey(key, down)
    PROVE  /\ DOMAIN remote' = {"keys", "pads", "mask"}
           /\ remote'.keys = IF down THEN remote.keys \union {key} ELSE remote.keys \ {key}
BY DEF SendKey

LEMMA PadSent ==
    ASSUME DOMAIN remote = {"keys", "pads", "mask"}, NEW id, NEW mask, NEW buttons, NEW stick,
           SendPad(id, mask, buttons, stick)
    PROVE  /\ DOMAIN remote' = {"keys", "pads", "mask"} /\ remote'.keys = remote.keys
           /\ remote'.mask = mask
<1>1. PICK pads : remote' = [remote EXCEPT !.mask = mask, !.pads = pads]
    BY DEF SendPad
<1>2. QED
    BY <1>1

(* A step that tells the host of no key. *)
LEMMA KeysStay ==
    ASSUME KeysInv, DOMAIN remote' = DOMAIN remote, remote'.keys = remote.keys,
           stage' \in {"check", "inputs", "start", "connect", "loop"} =>
              stage \in {"check", "inputs", "start", "connect", "loop"},
           \A k : Pressed(k) => Pressed(k)'
    PROVE  KeysInv'
BY DEF KeysInv

(* A step that tells the host of a key. *)
LEMMA KeysChange ==
    ASSUME KeysInv, stage = "loop", NEW key, NEW down \in BOOLEAN, SendKey(key, down),
           \A k : k # key /\ Pressed(k) => Pressed(k)', down => Pressed(key)'
    PROVE  KeysInv'
<1>1. /\ DOMAIN remote' = {"keys", "pads", "mask"}
      /\ remote'.keys = IF down THEN remote.keys \union {key} ELSE remote.keys \ {key}
    BY KeySent DEF KeysInv
<1>2. \A k \in remote'.keys : Pressed(k)'
    BY <1>1 DEF KeysInv
<1>3. QED
    BY <1>1, <1>2 DEF KeysInv

LEMMA HandledPadKeys ==
    ASSUME KeysInv, NEW i, NEW dev, HandlePad(i, dev)
    PROVE  /\ DOMAIN remote' = DOMAIN remote /\ remote'.keys = remote.keys
           /\ stage' = stage \/ stage' = "stopping"
BY PadSent DEF KeysInv, HandlePad, Leave, Stays

LEMMA ControlKeepsKeys ==
    ASSUME DevicesInv, KeysInv, NEW i \in DOMAIN devices,
           NEW c \in machine[devices[i].node].controls, NEW down \in BOOLEAN,
           Control(i, c, down), UNCHANGED windowVars
    PROVE  KeysInv'
<1>1. PICK n \in Nodes : n = devices[i].node
    BY ElementsAreDevices
<1>2. /\ UNCHANGED <<machine, cecHeld, keysDown, missed>> /\ stage = "loop"
    BY DEF Control, reportUnchanged, windowVars, windowKeyVars
<1>3. \A m \in Nodes : m # n => Believed(m)' = Believed(m)
    BY <1>1, BelievedOfControl
<1>4. Nodes' = Nodes /\ machine[n].kind \in {"keyboard", "gamepad"}
    BY <1>2, KindsOfDevices DEF Nodes
<1>5. CASE lost' = lost \ {<<n, c>>} /\ machine[n].kind = "keyboard" /\ HandleKey(i, c, down)
    <2>1. /\ down => Believed(n)' = Believed(n) \union {c}
          /\ ~down => Believed(n)' = Believed(n) \ {c}
        BY <1>1, <1>5, BelievedOfControl
    <2>2. \A k : k # c /\ Pressed(k) => Pressed(k)'
        BY <1>2, <1>3, <1>4, <1>5, <2>1 DEF Pressed
    <2>3. down => Pressed(c)'
        BY <1>2, <1>4, <1>5, <2>1 DEF Pressed
    <2>4. SendKey(c, down)
        BY <1>5 DEF HandleKey
    <2>5. QED
        BY <1>2, <2>2, <2>3, <2>4, KeysChange
<1>6. ASSUME NEW dev, machine[n].kind = "gamepad", HandlePad(i, dev) PROVE KeysInv'
    <2>1. \A k : Pressed(k) => Pressed(k)'
        BY <1>2, <1>3, <1>4, <1>6 DEF Pressed
    <2>2. QED
        BY <1>2, <1>6, <2>1, HandledPadKeys, KeysStay
<1>7. CASE /\ lost' = lost \union (IF down THEN {} ELSE {<<n, c>>})
           /\ UNCHANGED remote /\ Stays
    <2>1. Believed(n) \subseteq Believed(n)'
        BY <1>1, <1>7, BelievedOfControl
    <2>2. \A k : Pressed(k) => Pressed(k)'
        BY <1>2, <1>3, <1>4, <2>1 DEF Pressed
    <2>3. QED
        BY <1>7, <2>2, KeysStay DEF Stays
<1>8. QED
    BY <1>1, <1>4, <1>5, <1>6, <1>7 DEF Control, Overrun

LEMMA PressedSame ==
    ASSUME UNCHANGED <<machine, held, lost, cecHeld, keysDown, missed>>, NEW k, Pressed(k)
    PROVE  Pressed(k)'
BY DEF Pressed, Believed, Nodes

LEMMA EvdevKeepsKeys ==
    ASSUME DevicesInv, KeysInv, evdevNext, UNCHANGED windowVars
    PROVE  KeysInv'
<1>1. UNCHANGED <<keysDown, missed>>
    BY DEF windowVars, windowKeyVars
<1>2. ASSUME UNCHANGED <<remote, machine, held, lost, cecHeld>>,
             stage' = stage \/ (stage = "inputs" /\ stage' = "start")
      PROVE  KeysInv'
    <2>1. \A k : Pressed(k) => Pressed(k)'
        BY <1>1, <1>2, PressedSame
    <2>2. QED
        BY <1>2, <2>1, KeysStay
<1>3. CASE AddInput \/ \E n \in Nodes : Plug(n) \/ udev_handle(n)
    BY <1>2, <1>3 DEF AddInput, Plug, udev_handle, streamingVars, historyVars
<1>4. ASSUME NEW n \in Nodes, Pull(n) PROVE KeysInv'
    <2>1. UNCHANGED <<stage, remote, machine, cecHeld>>
        BY <1>4 DEF Pull, streamingVars
    <2>2. \A m \in Nodes : Believed(m)' = Believed(m)
        BY <1>4, PullBelieved
    <2>3. \A k : Pressed(k) => Pressed(k)'
        BY <1>1, <2>1, <2>2 DEF Pressed, Nodes
    <2>4. QED
        BY <2>1, <2>3, KeysStay
<1>5. CASE \E i \in DOMAIN devices : evdev_remove(i)
    BY <1>2, <1>5 DEF evdev_remove, streamingVars
<1>6. ASSUME NEW i \in DOMAIN devices, NEW c \in machine[devices[i].node].controls,
             NEW down \in BOOLEAN, Control(i, c, down)
      PROVE  KeysInv'
    BY <1>6, ControlKeepsKeys
<1>7. ASSUME NEW i \in DOMAIN devices, NEW dev, HandlePad(i, dev), stage = "loop",
             UNCHANGED <<held, lost, reportUnchanged>>
      PROVE  KeysInv'
    <2>1. \A k : Pressed(k) => Pressed(k)'
        BY <1>1, <1>7, PressedSame DEF reportUnchanged
    <2>2. QED
        BY <1>7, <2>1, HandledPadKeys, KeysStay
<1>8. ASSUME NEW i \in DOMAIN devices, NEW p \in HatPositions, HatMoves(i, p[1], p[2])
      PROVE  KeysInv'
    BY <1>7, <1>8 DEF HatMoves
<1>9. ASSUME NEW i \in DOMAIN devices, NEW value, StickMoves(i, value)
      PROVE  KeysInv'
    BY <1>7, <1>9 DEF StickMoves
<1>10. CASE \/ \E id \in ControllerIds, on \in BOOLEAN : RumbleFind(id, on)
            \/ RumbleStop \/ RumblePlay
    <2>1. UNCHANGED rumbleUnchanged
        BY <1>10 DEF RumbleFind, RumbleStop, RumblePlay, rumbleUnchanged
    <2>2. UNCHANGED <<stage, remote, machine, held, lost, cecHeld>>
        BY <2>1 DEF rumbleUnchanged, streamingVars, physicalVars, historyVars
    <2>3. QED
        BY <1>2, <2>2
<1>11. CASE CecKeypress("ok")
    <2>1. PICK down \in BOOLEAN : down = ("ok" \in cecHeld')
        <3>1. ("ok" \in cecHeld') \in BOOLEAN
            OBVIOUS
        <3>2. QED
            BY <3>1, Zenon
    <2>2. /\ stage = "loop" /\ SendKey("ok", down) /\ UNCHANGED <<machine, held, lost>>
          /\ cecHeld \ {"ok"} \subseteq cecHeld'
        BY <1>11, <2>1 DEF CecKeypress, physicalVars, historyVars
    <2>3. \A k : k # "ok" /\ Pressed(k) => Pressed(k)'
        BY <1>1, <2>2 DEF Pressed, Believed, Nodes
    <2>4. down => Pressed("ok")'
        BY <2>1 DEF Pressed
    <2>5. QED
        BY <2>2, <2>3, <2>4, KeysChange
<1>12. QED
    BY <1>3, <1>4, <1>5, <1>6, <1>8, <1>9, <1>10, <1>11 DEF evdevNext

(* A key of the window. *)
LEMMA WindowKeyKeepsKeys ==
    ASSUME KeysInv, stage = "loop", NEW key \in WindowKeys, NEW down \in BOOLEAN,
           keysDown' = IF down THEN keysDown \union {key} ELSE keysDown \ {key},
           WindowEvent(key, down), UNCHANGED evdevVars
    PROVE  KeysInv'
<1>1. UNCHANGED <<machine, held, lost, cecHeld>>
    BY DEF evdevVars, physicalVars, historyVars
<1>2. CASE SendKey(key, down) /\ missed' = IF down THEN missed ELSE missed \ {key}
    <2>1. \A k : k # key /\ Pressed(k) => Pressed(k)'
        BY <1>1, <1>2 DEF Pressed, Believed, Nodes
    <2>2. down => Pressed(key)'
        BY <1>2 DEF Pressed
    <2>3. QED
        BY <1>2, <2>1, <2>2, KeysChange
<1>3. CASE UNCHANGED remote /\ stage' = "stopping"
    BY <1>3 DEF KeysInv
<1>4. CASE UNCHANGED remote /\ stage' = stage
           /\ missed' = IF down THEN missed ELSE missed \union {key}
    <2>1. \A k : Pressed(k) => Pressed(k)'
        BY <1>1, <1>4 DEF Pressed, Believed, Nodes
    <2>2. QED
        BY <1>4, <2>1, KeysStay
<1>5. CASE key \in MouseButtons
    BY <1>2, <1>5 DEF WindowEvent, MouseButton, SendButton
<1>6. CASE key \notin MouseButtons /\ platform = "x11"
    BY <1>2, <1>3, <1>6 DEF WindowEvent, X11Key, Leave
<1>7. CASE key \notin MouseButtons /\ platform # "x11"
    BY <1>2, <1>3, <1>4, <1>7 DEF WindowEvent, SdlKey, Leave, Stays
<1>8. QED
    BY <1>5, <1>6, <1>7

LEMMA WindowKeepsKeys ==
    ASSUME KeysInv, windowNext, UNCHANGED evdevVars
    PROVE  KeysInv'
<1>1. UNCHANGED <<machine, held, lost, cecHeld>>
    BY DEF evdevVars, physicalVars, historyVars
<1>2. ASSUME NEW key \in WindowKeys, KeyEvent(key) PROVE KeysInv'
    <2>1. PICK down \in BOOLEAN : down = (key \in keysDown')
        <3>1. (key \in keysDown') \in BOOLEAN
            OBVIOUS
        <3>2. QED
            BY <3>1, Zenon
    <2>2. /\ keysDown' = IF down THEN keysDown \union {key} ELSE keysDown \ {key}
          /\ WindowEvent(key, down) /\ stage = "loop"
        BY <1>2, <2>1 DEF KeyEvent, InWindow
    <2>3. QED
        BY <2>2, WindowKeyKeepsKeys
<1>3. ASSUME NEW key \in WindowKeys, Repeat(key) PROVE KeysInv'
    <2>1. keysDown' = keysDown \ {key} /\ WindowEvent(key, FALSE) /\ stage = "loop"
        BY <1>3 DEF Repeat, InWindow, WindowEvent
    <2>2. QED
        BY <2>1, WindowKeyKeepsKeys
<1>4. CASE OutOfFocus
    <2>1. /\ missed' = missed \union keysDown /\ UNCHANGED <<stage, remote>>
          /\ keysDown' = {}
        BY <1>4 DEF OutOfFocus, streamingVars
    <2>2. \A k : Pressed(k) => Pressed(k)'
        BY <1>1, <2>1 DEF Pressed, Believed, Nodes
    <2>3. QED
        BY <2>1, <2>2, KeysStay
<1>5. ASSUME UNCHANGED <<keysDown, missed>>, DOMAIN remote' = DOMAIN remote,
             remote'.keys = remote.keys,
             stage' = stage \/ stage' = "stopping" \/ (stage = "inputs" /\ stage' = "start")
      PROVE  KeysInv'
    <2>1. \A k : Pressed(k) => Pressed(k)'
        BY <1>1, <1>5, PressedSame
    <2>2. QED
        BY <1>5, <2>1, KeysStay
<1>6. CASE WindowClosed
    BY <1>5, <1>6 DEF WindowClosed, windowVars, windowKeyVars, Leave
<1>7. CASE SdlInit
    BY <1>5, <1>7 DEF SdlInit, windowKeyVars
<1>8. ASSUME NEW j \in Joysticks, NEW b \in PadButtons, PadEvent(j, b) PROVE KeysInv'
    <2>1. /\ UNCHANGED <<keysDown, missed>>
          /\ stage' = stage \/ stage' = "stopping"
        BY <1>8 DEF PadEvent, windowKeyVars, Leave, Stays
    <2>2. UNCHANGED remote \/ \E id, mask, buttons, stick : SendPad(id, mask, buttons, stick)
        BY <1>8 DEF PadEvent
    <2>3. DOMAIN remote' = DOMAIN remote /\ remote'.keys = remote.keys
        BY <2>2, PadSent DEF KeysInv
    <2>4. QED
        BY <1>5, <2>1, <2>3
<1>9. ASSUME NEW id \in ControllerIds, NEW on \in BOOLEAN, SdlRumble(id, on) PROVE KeysInv'
    BY <1>5, <1>9 DEF SdlRumble, windowKeyVars, streamingVars
<1>10. QED
    BY <1>2, <1>3, <1>4, <1>6, <1>7, <1>8, <1>9 DEF windowNext

LEMMA KeysInvStep == DevicesInv /\ KeysInv /\ [Next]_vars => KeysInv'
<1> SUFFICES ASSUME DevicesInv, KeysInv, [Next]_vars PROVE KeysInv'
    OBVIOUS
<1>1. CASE mainNext \/ UNCHANGED vars
    <2>1. UNCHANGED <<machine, held, lost, cecHeld, keysDown, missed>>
        BY <1>1 DEF mainNext, vars, evdevVars, physicalVars, historyVars, windowVars, windowKeyVars
    <2>2. \A k : Pressed(k) => Pressed(k)'
        BY <2>1, PressedSame
    <2>3. stage' \in {"check", "inputs", "start", "connect", "loop"} =>
              stage \in {"check", "inputs", "start", "connect", "loop"}
        BY <1>1 DEF mainNext, vars, streamingVars, PlatformCheck, Start, Connect,
                    Terminated, Signal, Stop, LoopSignal, OnSignal, Leave
    <2>4. UNCHANGED remote \/ \E mask : remote' = [remote EXCEPT !.mask = mask]
        BY <1>1 DEF mainNext, vars, streamingVars, PlatformCheck, Start, Connect,
                    Terminated, Signal, Stop, LoopSignal, OnSignal, Leave
    <2>5. DOMAIN remote' = DOMAIN remote /\ remote'.keys = remote.keys
        BY <2>4 DEF KeysInv
    <2>6. QED
        BY <2>2, <2>3, <2>5, KeysStay
<1>2. CASE evdevNext /\ UNCHANGED windowVars
    BY <1>2, EvdevKeepsKeys
<1>3. CASE windowNext /\ UNCHANGED evdevVars
    BY <1>3, WindowKeepsKeys
<1>4. QED
    BY <1>1, <1>2, <1>3 DEF Next

(* No key that the host believes to be down is one that nobody holds, but  *)
(* for the releases that were never read.                                  *)
THEOREM NoGhostKeysEver == Spec => []NoGhostKeys
<1>1. Init => DevicesInv /\ KeysInv
    BY DevicesInvInit, KeysInvInit DEF Init
<1>2. DevicesInv /\ KeysInv /\ [Next]_vars => (DevicesInv /\ KeysInv)'
    BY DevicesInvStep, KeysInvStep
<1>3. KeysInv => NoGhostKeys
    BY DEF KeysInv, NoGhostKeys, Pressed, Down
<1>4. QED
    BY <1>1, <1>2, <1>3, PTL DEF Spec

-----------------------------------------------------------------------------
(* What plays can be stopped. *)

Named(id) == IF id = -1 THEN {} ELSE {id}

(* Unless a device came or went in the middle of evdev_rumble, that thread *)
(* has an element of the array, which names the effect that its device     *)
(* plays, or none between the two calls of the thread.                     *)
Steady ==
    /\ rumbler.pc # "idle" => rumbler.at \in DOMAIN devices
    /\ rumbler.pc = "play" => devices[rumbler.at].haptic_effect_id = -1
    /\ \A i \in DOMAIN devices, n \in Nodes :
          n = devices[i].node /\ status[n] = "open" =>
              effects[n] = Named(devices[i].haptic_effect_id)

RumbleInv == raced \in BOOLEAN /\ (~raced => Steady)

LEMMA RumbleInvInit == Init => RumbleInv
<1> SUFFICES ASSUME Init PROVE RumbleInv
    OBVIOUS
<1>1. DOMAIN devices = {} /\ rumbler.pc = "idle" /\ raced = FALSE
    BY DEF Init, EvdevInit, Idle
<1>2. QED
    BY <1>1 DEF RumbleInv, Steady

LEMMA SteadySame ==
    ASSUME RumbleInv, UNCHANGED <<machine, rumbler, devices, effects, status, raced>>
    PROVE  RumbleInv'
BY DEF RumbleInv, Steady, Nodes

LEMMA CreateKeepsRumble ==
    ASSUME DevicesInv, RumbleInv, NEW n \in Nodes, status[n] = "announced", evdev_create(n),
           UNCHANGED <<machine, effects>>
    PROVE  RumbleInv'
<1>1. devices \in Seq(Device) /\ Len(devices) \in Nat /\ DOMAIN devices = 1..Len(devices)
    BY ElementsAreDevices DEF DevicesInv, DeviceTypes
<1>2. CASE /\ status' = [status EXCEPT ![n] = "open"] /\ noteRace
           /\ devices' = Append(devices, [NoDevice EXCEPT !.node = n])
           /\ rumbler' \in {rumbler} \union IF rumbler.at # 0 THEN {LeftBehind} ELSE {}
    <2>1. raced' \in BOOLEAN /\ (~raced' => ~raced /\ rumbler.pc = "idle")
        BY <1>2 DEF noteRace, RumbleInv
    <2>2. SUFFICES ASSUME ~raced, rumbler.pc = "idle" PROVE Steady'
        BY <2>1 DEF RumbleInv
    <2>3. rumbler = Idle /\ rumbler.at = 0 /\ rumbler' = rumbler
        BY <1>2, <2>2 DEF DevicesInv, DeviceTypes, Idle
    <2> DEFINE new == [NoDevice EXCEPT !.node = n]
    <2>4. new \in Device /\ new.node = n /\ new.haptic_effect_id = -1
        BY DEF NoDevice, Device, Flags, Sticks
    <2>5. /\ devices' \in Seq(Device) /\ Len(devices') = Len(devices) + 1
          /\ \A k \in 1..Len(devices) : devices'[k] = devices[k]
          /\ devices'[Len(devices) + 1] = new
        BY <1>1, <1>2, <2>4, AppendProperties
    <2> HIDE DEF new
    <2>6. DOMAIN devices' = 1..(Len(devices) + 1)
        BY <2>5, LenProperties
    <2>7. \A k \in DOMAIN devices' : k \in DOMAIN devices \/ devices'[k] = new
        BY <1>1, <2>5, <2>6
    <2>8. \A k \in DOMAIN devices : devices'[k] = devices[k] /\ devices[k].node # n
        BY <1>1, <2>5 DEF DevicesInv, Plugged
    <2>9. effects[n] = {} /\ Nodes' = Nodes
        BY DEF DevicesInv, Plugged, Nodes
    <2>10. \A m \in Nodes : m # n => status'[m] = status[m]
        BY <1>2 DEF DevicesInv, DeviceTypes
    <2>11. Steady
        BY <2>2 DEF RumbleInv
    <2>12. ASSUME NEW k \in DOMAIN devices', NEW m \in Nodes,
                  m = devices'[k].node, status'[m] = "open"
           PROVE  effects'[m] = Named(devices'[k].haptic_effect_id)
        <3>1. CASE devices'[k] = new
            BY <2>4, <2>9, <2>12, <3>1 DEF Named
        <3>2. CASE k \in DOMAIN devices
            BY <2>8, <2>10, <2>11, <2>12, <3>2 DEF Steady
        <3>3. QED
            BY <2>7, <3>1, <3>2
    <2>13. QED
        BY <2>2, <2>3, <2>9, <2>12 DEF Steady
<1>3. CASE status' = [status EXCEPT ![n] = "removed"] /\ UNCHANGED <<devices, rumbler, raced>>
    <2>1. \A k \in DOMAIN devices : devices[k].node # n
        BY DEF DevicesInv, Plugged
    <2>2. \A m \in Nodes : m # n => status'[m] = status[m]
        BY <1>3 DEF DevicesInv, DeviceTypes
    <2>3. QED
        BY <1>3, <2>1, <2>2 DEF RumbleInv, Steady, Nodes
<1>4. QED
    BY <1>2, <1>3 DEF evdev_create

LEMMA RemoveKeepsRumble ==
    ASSUME DevicesInv, RumbleInv, NEW i \in DOMAIN devices, evdev_remove(i)
    PROVE  RumbleInv'
<1>1. raced' \in BOOLEAN /\ (~raced' => ~raced /\ rumbler.pc = "idle")
    BY DEF evdev_remove, noteRace, RumbleInv
<1>2. SUFFICES ASSUME ~raced, rumbler.pc = "idle" PROVE Steady'
    BY <1>1 DEF RumbleInv
<1>3. Len(devices) \in Nat /\ DOMAIN devices = 1..Len(devices)
    BY ElementsAreDevices
<1>4. Len(devices) # 0 /\ rumbler.at = 0
    BY <1>2, <1>3 DEF DevicesInv, DeviceTypes, Idle
<1>5. rumbler' = rumbler
    BY <1>4 DEF evdev_remove
<1>6. \A k \in DOMAIN devices' : \E l \in DOMAIN devices : devices'[k] = devices[l]
    BY RemovedFrom
<1>7. /\ status' = [status EXCEPT ![devices[i].node] = "removed"]
      /\ UNCHANGED <<machine, effects>> /\ Nodes' = Nodes
    BY DEF evdev_remove, Nodes
<1>8. \A m \in Nodes : status'[m] = "open" => status[m] = "open"
    BY <1>7 DEF DevicesInv, DeviceTypes
<1>9. Steady
    BY <1>2 DEF RumbleInv
<1>10. QED
    BY <1>2, <1>5, <1>6, <1>7, <1>8, <1>9 DEF Steady

(* No step of a device but a report changes what its element names; that   *)
(* does not either.                                                        *)
LEMMA ReportKeepsRumble ==
    ASSUME DevicesInv, RumbleInv, NEW i \in DOMAIN devices, Reported(i),
           UNCHANGED <<machine, rumbler, effects, status, raced>>
    PROVE  RumbleInv'
<1>1. PICK dev \in Device : /\ dev.node = devices[i].node
                            /\ dev.haptic_effect_id = devices[i].haptic_effect_id
                            /\ devices' = [devices EXCEPT ![i] = dev]
    BY DEF Reported
<1>2. /\ DOMAIN devices' = DOMAIN devices
      /\ \A k \in DOMAIN devices : /\ devices'[k].node = devices[k].node
                                   /\ devices'[k].haptic_effect_id = devices[k].haptic_effect_id
    <2>1. \A k \in DOMAIN devices : devices'[k] = IF k = i THEN dev ELSE devices[k]
        BY <1>1
    <2>2. QED
        BY <1>1, <2>1
<1>3. QED
    BY <1>2 DEF RumbleInv, Steady, Nodes

LEMMA RumbleKeepsRumble ==
    ASSUME DevicesInv, RumbleInv,
           \/ \E id \in ControllerIds, on \in BOOLEAN : RumbleFind(id, on)
           \/ RumbleStop \/ RumblePlay
    PROVE  RumbleInv'
<1>1. UNCHANGED rumbleUnchanged
    BY DEF RumbleFind, RumbleStop, RumblePlay, rumbleUnchanged
<1>2. UNCHANGED <<machine, status, raced>> /\ Nodes' = Nodes
    BY <1>1 DEF rumbleUnchanged, physicalVars, historyVars, Nodes
<1>3. SUFFICES ASSUME Steady PROVE Steady'
    BY <1>2 DEF RumbleInv
<1>4. ASSUME NEW id \in ControllerIds, NEW on \in BOOLEAN, RumbleFind(id, on) PROVE Steady'
    <2>1. PICK i \in DOMAIN devices : rumbler' = [Idle EXCEPT !.pc = "stop", !.at = i, !.on = on]
        BY <1>4, Found
    <2>2. rumbler' = [pc |-> "stop", at |-> i, entry |-> NoDevice, on |-> on]
        BY <2>1 DEF Idle
    <2>3. rumbler'.pc = "stop" /\ rumbler'.at = i
        BY <2>2
    <2>4. UNCHANGED <<devices, effects>>
        BY <1>4 DEF RumbleFind
    <2>5. QED
        BY <1>2, <1>3, <2>3, <2>4 DEF Steady
<1>5. ASSUME rumbler.pc # "idle", NEW id \in {-1, 0, 1}, SetEffect(id),
             NEW n \in Nodes, n = Entry.node, NEW e, effects' = [effects EXCEPT ![n] = e],
             status[n] = "open" => e = Named(id)
      PROVE  /\ DOMAIN devices' = DOMAIN devices /\ rumbler.at \in DOMAIN devices
             /\ devices'[rumbler.at].haptic_effect_id = id
             /\ \A k \in DOMAIN devices', m \in Nodes :
                   m = devices'[k].node /\ status[m] = "open" =>
                       effects'[m] = Named(devices'[k].haptic_effect_id)
    <2>1. PICK i \in DOMAIN devices : i = rumbler.at /\ i # 0 /\ n = devices[i].node
        BY <1>3, <1>5, EntryIs, ElementsAreDevices DEF Steady, Entry
    <2> DEFINE new == [devices[i] EXCEPT !.haptic_effect_id = id]
    <2>2. /\ devices[i] \in Device
          /\ new.node = n /\ new.haptic_effect_id = id
        BY <2>1, ElementsAreDevices DEF Device
    <2>3. devices' = [devices EXCEPT ![i] = new]
        BY <1>5, <2>1 DEF SetEffect
    <2> HIDE DEF new
    <2>4. DOMAIN devices' = DOMAIN devices /\ devices'[i] = new
        BY <2>3, ElementsAreDevices DEF DevicesInv, DeviceTypes
    <2>5. \A k \in DOMAIN devices : k # i => devices'[k] = devices[k] /\ devices[k].node # n
        BY <2>1, <2>3 DEF DevicesInv, Plugged
    <2>6. \A m \in Nodes : effects'[m] = IF m = n THEN e ELSE effects[m]
        BY <1>5 DEF DevicesInv, DeviceTypes
    <2>7. ASSUME NEW k \in DOMAIN devices', NEW m \in Nodes,
                 m = devices'[k].node, status[m] = "open"
          PROVE  effects'[m] = Named(devices'[k].haptic_effect_id)
        <3>1. CASE k = i
            BY <1>5, <2>2, <2>4, <2>6, <2>7, <3>1
        <3>2. CASE k # i
            BY <1>3, <2>4, <2>5, <2>6, <2>7, <3>2 DEF Steady
        <3>3. QED
            BY <3>1, <3>2
    <2>8. QED
        BY <2>1, <2>2, <2>4, <2>7
<1>6. ASSUME RumbleStop PROVE Steady'
    <2>1. rumbler.pc = "stop" /\ SetEffect(-1)
        BY <1>6 DEF RumbleStop
    <2>2. PICK n \in Nodes : n = Entry.node
        BY <2>1, EntryIs
    <2>3. rumbler.at \in DOMAIN devices /\ Entry = devices[rumbler.at]
        BY <1>3, <2>1, EntryIs, ElementsAreDevices DEF Steady
    <2>4. PICK e : e = effects[n] \ {Entry.haptic_effect_id}
        OBVIOUS
    <2>5. effects' = [effects EXCEPT ![n] = e]
        BY <1>6, <2>2, <2>4 DEF RumbleStop, Removed
    <2>6. status[n] = "open" => e = Named(-1)
        BY <1>3, <2>2, <2>3, <2>4 DEF Steady, Named
    <2>7. /\ DOMAIN devices' = DOMAIN devices
          /\ devices'[rumbler.at].haptic_effect_id = -1
          /\ \A k \in DOMAIN devices', m \in Nodes :
                m = devices'[k].node /\ status[m] = "open" =>
                    effects'[m] = Named(devices'[k].haptic_effect_id)
        BY <1>5, <2>1, <2>2, <2>5, <2>6
    <2>8. rumbler'.pc = "idle" \/ (rumbler'.pc = "play" /\ rumbler'.at = rumbler.at)
        BY <1>6 DEF RumbleStop, Idle, DevicesInv, DeviceTypes
    <2>9. QED
        BY <1>2, <2>3, <2>7, <2>8 DEF Steady
<1>7. ASSUME RumblePlay PROVE Steady'
    <2>1. rumbler.pc = "play" /\ rumbler' = Idle /\ rumbler'.pc = "idle"
        BY <1>7 DEF RumblePlay, Idle
    <2>2. PICK n \in Nodes : n = Entry.node
        BY <2>1, EntryIs
    <2>3. rumbler.at \in DOMAIN devices /\ Entry = devices[rumbler.at]
        BY <1>3, <2>1, EntryIs, ElementsAreDevices DEF Steady
    <2> DEFINE free == {0, 1} \ effects[n]
    <2>4. CASE UNCHANGED <<effects, devices>>
        BY <1>2, <1>3, <2>1, <2>4 DEF Steady
    <2>5. CASE /\ status[n] = "open" /\ free # {}
               /\ effects' = [effects EXCEPT ![n] = effects[n] \union {Min(free)}]
               /\ SetEffect(Min(free))
        <3>1. PICK id \in {0, 1} : id = Min(free)
            BY <2>5, LeastIn
        <3>2. effects[n] = {}
            BY <1>3, <2>1, <2>2, <2>3, <2>5 DEF Steady, Named
        <3>3. effects' = [effects EXCEPT ![n] = {id}] /\ SetEffect(id) /\ {id} = Named(id)
            BY <2>5, <3>1, <3>2 DEF Named
        <3>4. \A k \in DOMAIN devices', m \in Nodes :
                 m = devices'[k].node /\ status[m] = "open" =>
                    effects'[m] = Named(devices'[k].haptic_effect_id)
            BY <1>5, <2>1, <2>2, <3>3
        <3>5. QED
            BY <1>2, <2>1, <3>4 DEF Steady
    <2>6. QED
        BY <1>7, <2>2, <2>4, <2>5 DEF RumblePlay
<1>8. QED
    BY <1>4, <1>6, <1>7

LEMMA RumbleInvStep == DevicesInv /\ RumbleInv /\ [Next]_vars => RumbleInv'
<1> SUFFICES ASSUME DevicesInv, RumbleInv, [Next]_vars PROVE RumbleInv'
    OBVIOUS
<1>1. CASE UNCHANGED evdevVars
    BY <1>1, SteadySame DEF evdevVars, physicalVars, rumbleVars, historyVars
<1>2. CASE AddInput
    <2>1. CASE \E n \in Nodes : status[n] = "announced"
        <3>1. PICK n \in Nodes : n = CHOOSE m \in Nodes : status[m] = "announced"
            BY <2>1
        <3>2. status[n] = "announced" /\ evdev_create(n) /\ UNCHANGED <<machine, effects>>
            BY <1>2, <2>1, <3>1 DEF AddInput
        <3>3. QED
            BY <3>2, CreateKeepsRumble
    <2>2. CASE ~\E n \in Nodes : status[n] = "announced"
        BY <1>2, <2>2, SteadySame DEF AddInput
    <2>3. QED
        BY <2>1, <2>2
<1>3. ASSUME NEW n \in Nodes, udev_handle(n) PROVE RumbleInv'
    BY <1>3, CreateKeepsRumble DEF udev_handle
<1>4. ASSUME NEW n \in Nodes, Plug(n) \/ Pull(n) PROVE RumbleInv'
    <2>1. UNCHANGED <<machine, devices, rumbler, raced>> /\ Nodes' = Nodes
        BY <1>4 DEF Plug, Pull, rumbleVars, historyVars, Nodes
    <2>2. \A m \in Nodes : status'[m] = "open" => status[m] = "open" /\ effects'[m] = effects[m]
        BY <1>4 DEF Plug, Pull, rumbleVars, DevicesInv, DeviceTypes
    <2>3. QED
        BY <2>1, <2>2 DEF RumbleInv, Steady
<1>5. ASSUME NEW i \in DOMAIN devices, evdev_remove(i) PROVE RumbleInv'
    BY <1>5, RemoveKeepsRumble
<1>6. ASSUME NEW i \in DOMAIN devices, Reported(i), UNCHANGED reportUnchanged PROVE RumbleInv'
    BY <1>6, ReportKeepsRumble DEF reportUnchanged, rumbleVars
<1>7. ASSUME NEW i \in DOMAIN devices, NEW c \in machine[devices[i].node].controls,
             NEW down \in BOOLEAN, Control(i, c, down)
      PROVE  RumbleInv'
    <2>1. UNCHANGED reportUnchanged
        BY <1>7 DEF Control
    <2>2. QED
        BY <1>6, <1>7, <2>1, ControlReported
<1>8. ASSUME NEW i \in DOMAIN devices, NEW p \in HatPositions, HatMoves(i, p[1], p[2])
      PROVE  RumbleInv'
    <2>1. UNCHANGED reportUnchanged
        BY <1>8 DEF HatMoves
    <2>2. QED
        BY <1>6, <1>8, <2>1, HatReported
<1>9. ASSUME NEW i \in DOMAIN devices,
             NEW value \in machine[devices[i].node].axis.min - 1 ..
                           machine[devices[i].node].axis.max + 1,
             StickMoves(i, value)
      PROVE  RumbleInv'
    <2>1. UNCHANGED reportUnchanged
        BY <1>9 DEF StickMoves
    <2>2. QED
        BY <1>6, <1>9, <2>1, StickReported
<1>10. CASE \/ \E id \in ControllerIds, on \in BOOLEAN : RumbleFind(id, on)
            \/ RumbleStop \/ RumblePlay
    BY <1>10, RumbleKeepsRumble
<1>11. CASE CecKeypress("ok")
    BY <1>11, SteadySame DEF CecKeypress, physicalVars, rumbleVars, historyVars
<1>12. evdevNext => RumbleInv'
    BY <1>2, <1>3, <1>4, <1>5, <1>7, <1>8, <1>9, <1>10, <1>11 DEF evdevNext
<1>13. QED
    BY <1>1, <1>12 DEF Next, mainNext, vars

(* Whatever the devices, and whatever comes and goes while nothing         *)
(* rumbles: a device plays the one effect its element names.               *)
THEOREM AlwaysStoppable == Spec => []RumbleStoppable
<1>1. Init => DevicesInv /\ RumbleInv
    BY DevicesInvInit, RumbleInvInit DEF Init
<1>2. DevicesInv /\ RumbleInv /\ [Next]_vars => (DevicesInv /\ RumbleInv)'
    BY DevicesInvStep, RumbleInvStep
<1>3. DevicesInv /\ RumbleInv => RumbleStoppable
    BY ElementsAreDevices DEF RumbleInv, Steady, RumbleStoppable, Named
<1>4. QED
    BY <1>1, <1>2, <1>3, PTL DEF Spec

-----------------------------------------------------------------------------
(* The numbers of the gamepads of /dev/input. *)

Distinct ==
    \A i, j \in DOMAIN devices :
        devices[i].controllerId # -1 /\ devices[i].controllerId = devices[j].controllerId =>
            i = j

Taken ==
    \A id : id \in assignedControllerIds <=>
               id # -1 /\ \E i \in DOMAIN devices : devices[i].controllerId = id

(* Only gamepads have numbers, and while there are not more of them than   *)
(* numbers, there is a number for each.                                    *)
PadsInv ==
    /\ crowded \in BOOLEAN
    /\ \A i \in DOMAIN devices, n \in Nodes :
          n = devices[i].node /\ devices[i].controllerId # -1 => machine[n].kind = "gamepad"
    /\ ~crowded => /\ Cardinality(Gamepads(devices)) <= MAX_CONTROLLERS
                   /\ Distinct /\ Taken

LEMMA GamepadsFinite ==
    ASSUME DevicesInv
    PROVE  IsFiniteSet(Gamepads(devices)) /\ Cardinality(Gamepads(devices)) \in Nat
<1>1. IsFiniteSet(1..Len(devices)) /\ Gamepads(devices) \subseteq 1..Len(devices)
    BY ElementsAreDevices, FS_Interval DEF Gamepads
<1>2. QED
    BY <1>1, FS_Subset, FS_CardinalityType

LEMMA PadsInvInit == Init => PadsInv
<1> SUFFICES ASSUME Init PROVE PadsInv
    OBVIOUS
<1>1. DOMAIN devices = {} /\ crowded = FALSE /\ assignedControllerIds = {}
    BY DEF Init, EvdevInit
<1>2. Gamepads(devices) = {}
    BY <1>1 DEF Gamepads
<1>3. Cardinality(Gamepads(devices)) <= MAX_CONTROLLERS
    BY <1>2, FS_EmptySet, StreamingAssumption
<1>4. QED
    BY <1>1, <1>3 DEF PadsInv, Distinct, Taken

(* A gamepad without a number finds one. *)
LEMMA NumberLeft ==
    ASSUME DevicesInv, PadsInv, ~crowded, NEW i \in Gamepads(devices),
           devices[i].controllerId = -1
    PROVE  ControllerIds \ assignedControllerIds # {}
<1> DEFINE G == Gamepads(devices)  N == {k \in G : devices[k].controllerId # -1}
           f == [k \in N |-> devices[k].controllerId]
<1>1. IsFiniteSet(G) /\ Cardinality(G) \in Nat /\ Cardinality(G) <= MAX_CONTROLLERS
    BY GamepadsFinite DEF PadsInv
<1>2. i \in G /\ N \subseteq G \ {i}
    OBVIOUS
<1>3. IsFiniteSet(G \ {i}) /\ Cardinality(G \ {i}) = Cardinality(G) - 1
    BY <1>1, <1>2, FS_RemoveElement
<1>4. IsFiniteSet(N) /\ Cardinality(N) <= Cardinality(G) - 1 /\ Cardinality(N) \in Nat
    BY <1>2, <1>3, FS_Subset, FS_CardinalityType
<1>5. SUFFICES ASSUME ControllerIds \subseteq assignedControllerIds PROVE FALSE
    OBVIOUS
<1>6. assignedControllerIds = ControllerIds
    BY <1>5 DEF DevicesInv, DeviceTypes
<1>7. \A id \in ControllerIds : \E k \in N : f[k] = id
    <2>1. \A k \in DOMAIN devices : devices[k].controllerId # -1 => k \in G
        BY ElementsAreDevices DEF PadsInv, Gamepads
    <2>2. \A id \in ControllerIds : id # -1 /\ \E k \in DOMAIN devices : devices[k].controllerId = id
        BY <1>6 DEF PadsInv, Taken
    <2>3. QED
        BY <2>1, <2>2
<1>8. \A k \in N : f[k] \in ControllerIds
    BY ElementsAreDevices DEF Device, Gamepads
<1>9. f \in Surjection(N, ControllerIds)
    BY <1>7, <1>8 DEF Surjection
<1>10. IsFiniteSet(ControllerIds) /\ Cardinality(ControllerIds) = MAX_CONTROLLERS
    BY StreamingAssumption, FS_Interval DEF ControllerIds
<1>11. Cardinality(ControllerIds) <= Cardinality(N)
    BY <1>4, <1>9, FS_Surjection
<1> HIDE DEF G, N, f
<1>12. QED
    BY <1>1, <1>4, <1>10, <1>11, StreamingAssumption

LEMMA PadsSame ==
    ASSUME PadsInv, UNCHANGED <<machine, devices, assignedControllerIds, crowded>>
    PROVE  PadsInv'
BY DEF PadsInv, Distinct, Taken, Nodes, Gamepads

(* The numbers stay with the devices they were given to. *)
LEMMA NumbersStay ==
    ASSUME PadsInv, UNCHANGED <<machine, assignedControllerIds, crowded>>,
           DOMAIN devices' = DOMAIN devices,
           \A k \in DOMAIN devices : /\ devices'[k].node = devices[k].node
                                    /\ devices'[k].controllerId = devices[k].controllerId
    PROVE  PadsInv'
<1>1. Gamepads(devices)' = Gamepads(devices) /\ Nodes' = Nodes
    BY DEF Gamepads, Nodes
<1>2. QED
    BY <1>1 DEF PadsInv, Distinct, Taken

LEMMA ReportKeepsPads ==
    ASSUME DevicesInv, PadsInv, NEW i \in DOMAIN devices, Reported(i),
           UNCHANGED <<machine, crowded>>
    PROVE  PadsInv'
<1>1. PICK dev \in Device :
         /\ dev.node = devices[i].node
         /\ devices' = [devices EXCEPT ![i] = dev]
         /\ \/ /\ dev.controllerId = devices[i].controllerId
               /\ UNCHANGED assignedControllerIds
            \/ /\ machine[dev.node].kind = "gamepad"
               /\ dev.controllerId = AssignId(devices[i])
               /\ assignedControllerIds' = assignedControllerIds \union {dev.controllerId}
    BY DEF Reported
<1>2. \A k \in DOMAIN devices : devices'[k] = IF k = i THEN dev ELSE devices[k]
    BY <1>1
<1>3. DOMAIN devices' = DOMAIN devices
    BY <1>1
<1>4. CASE dev.controllerId = devices[i].controllerId /\ UNCHANGED assignedControllerIds
    BY <1>1, <1>2, <1>3, <1>4, NumbersStay
<1>5. CASE /\ machine[dev.node].kind = "gamepad"
           /\ dev.controllerId = AssignId(devices[i])
           /\ assignedControllerIds' = assignedControllerIds \union {dev.controllerId}
    <2>1. Gamepads(devices)' = Gamepads(devices) /\ Nodes' = Nodes
        BY <1>1, <1>2, <1>3 DEF Gamepads, Nodes
    <2>2. \A k \in DOMAIN devices', n \in Nodes :
             n = devices'[k].node /\ devices'[k].controllerId # -1 => machine[n].kind = "gamepad"
        BY <1>2, <1>3, <1>5 DEF PadsInv
    <2>3. SUFFICES ASSUME ~crowded PROVE Distinct' /\ Taken'
        BY <2>1, <2>2 DEF PadsInv
    <2>4. devices[i].controllerId \in ControllerIds \union {-1}
        BY ElementsAreDevices DEF Device
    <2>5. CASE devices[i].controllerId # -1
        <3>1. dev.controllerId = devices[i].controllerId
            BY <1>5, <2>4, <2>5, AssignIdIs
        <3>2. dev.controllerId \in assignedControllerIds
            BY <2>3, <2>5, <3>1 DEF PadsInv, Taken
        <3>3. UNCHANGED assignedControllerIds
            BY <1>5, <3>2
        <3>4. PadsInv'
            BY <1>1, <1>2, <1>3, <3>1, <3>3, NumbersStay
        <3>5. QED
            BY <2>3, <3>4 DEF PadsInv
    <2>6. CASE devices[i].controllerId = -1
        <3>1. i \in Gamepads(devices)
            BY <1>1, <1>5 DEF Gamepads
        <3>2. dev.controllerId \in ControllerIds \ assignedControllerIds
            BY <1>5, <2>3, <2>4, <2>6, <3>1, NumberLeft, AssignIdIs
        <3>3. dev.controllerId # -1
            BY <3>2, StreamingAssumption DEF ControllerIds
        <3>4. \A k \in DOMAIN devices : devices[k].controllerId # dev.controllerId
            BY <2>3, <3>2, <3>3 DEF PadsInv, Taken
        <3>5. Distinct'
            BY <1>2, <1>3, <2>3, <3>4 DEF PadsInv, Distinct
        <3>6. Taken'
            BY <1>2, <1>3, <1>5, <2>3, <2>6, <3>3 DEF PadsInv, Taken
        <3>7. QED
            BY <3>5, <3>6
    <2>7. QED
        BY <2>5, <2>6
<1>6. QED
    BY <1>1, <1>4, <1>5

LEMMA CreateKeepsPads ==
    ASSUME DevicesInv, DevicesInv', PadsInv, NEW n \in Nodes, status[n] = "announced",
           evdev_create(n), UNCHANGED <<machine, assignedControllerIds>>
    PROVE  PadsInv'
<1>1. CASE UNCHANGED <<devices, crowded>>
    BY <1>1, PadsSame
<1>2. CASE /\ devices' = Append(devices, [NoDevice EXCEPT !.node = n])
           /\ crowded' = (crowded \/ Cardinality(Gamepads(devices')) > MAX_CONTROLLERS)
    <2>1. devices \in Seq(Device) /\ Len(devices) \in Nat /\ DOMAIN devices = 1..Len(devices)
        BY ElementsAreDevices DEF DevicesInv, DeviceTypes
    <2> DEFINE new == [NoDevice EXCEPT !.node = n]
    <2>2. new \in Device /\ new.controllerId = -1
        BY DEF NoDevice, Device, Flags, Sticks
    <2>3. /\ devices' \in Seq(Device) /\ Len(devices') = Len(devices) + 1
          /\ \A k \in 1..Len(devices) : devices'[k] = devices[k]
          /\ devices'[Len(devices) + 1] = new
        BY <1>2, <2>1, <2>2, AppendProperties
    <2> HIDE DEF new
    <2>4. DOMAIN devices' = 1..(Len(devices) + 1)
        BY <2>3, LenProperties
    <2>5. /\ \A k \in DOMAIN devices' : k \in DOMAIN devices \/ devices'[k].controllerId = -1
          /\ \A k \in DOMAIN devices : k \in DOMAIN devices' /\ devices'[k] = devices[k]
        BY <2>1, <2>2, <2>3, <2>4
    <2>6. Gamepads(devices)' = Gamepads(devices') /\ Nodes' = Nodes
        BY DEF Gamepads, Nodes
    <2>7. Cardinality(Gamepads(devices')) \in Nat
        <3>1. Gamepads(devices') \subseteq 1..(Len(devices) + 1) /\ Len(devices) + 1 \in Int
            BY <2>1, <2>4 DEF Gamepads
        <3>2. IsFiniteSet(1..(Len(devices) + 1))
            BY <3>1, FS_Interval
        <3>3. QED
            BY <3>1, <3>2, FS_Subset, FS_CardinalityType
    <2>8. /\ crowded' \in BOOLEAN
          /\ ~crowded' => ~crowded /\ Cardinality(Gamepads(devices)') <= MAX_CONTROLLERS
        <3> DEFINE c == Cardinality(Gamepads(devices'))  more == c > MAX_CONTROLLERS
        <3>1. crowded' = (crowded \/ more) /\ c = Cardinality(Gamepads(devices)')
            BY <1>2, <2>6
        <3>2. c \in Nat /\ (~more => c <= MAX_CONTROLLERS)
            BY <2>7, StreamingAssumption
        <3> HIDE DEF c, more
        <3>3. crowded' \in BOOLEAN /\ (~crowded' => ~crowded /\ ~more)
            BY <3>1 DEF PadsInv
        <3>4. QED
            BY <3>1, <3>2, <3>3
    <2>9. \A k \in DOMAIN devices', m \in Nodes :
             m = devices'[k].node /\ devices'[k].controllerId # -1 => machine[m].kind = "gamepad"
        BY <2>5 DEF PadsInv
    <2>10. ~crowded' => Distinct' /\ Taken'
        BY <2>5, <2>8 DEF PadsInv, Distinct, Taken
    <2>11. QED
        BY <2>6, <2>8, <2>9, <2>10 DEF PadsInv
<1>3. QED
    BY <1>1, <1>2 DEF evdev_create

LEMMA RemoveKeepsPads ==
    ASSUME DevicesInv, PadsInv, NEW i \in DOMAIN devices, evdev_remove(i)
    PROVE  PadsInv'
<1>1. devices \in Seq(Device) /\ Len(devices) \in Nat /\ DOMAIN devices = 1..Len(devices)
    BY ElementsAreDevices DEF DevicesInv, DeviceTypes
<1>2. /\ devices' \in Seq(Device) /\ Len(devices) \in Nat \ {0}
      /\ Len(devices') = Len(devices) - 1
      /\ \A k \in 1..Len(devices') :
            devices'[k] = IF k = i THEN devices[Len(devices)] ELSE devices[k]
    BY <1>1, LastMoved DEF evdev_remove
<1>3. DOMAIN devices' = 1..(Len(devices) - 1)
    BY <1>2, LenProperties
<1>4. /\ UNCHANGED <<machine, crowded>> /\ Nodes' = Nodes
      /\ assignedControllerIds' = assignedControllerIds \ {devices[i].controllerId}
    BY DEF evdev_remove, Unassign, Nodes
<1> DEFINE From == [k \in DOMAIN devices' |-> IF k = i THEN Len(devices) ELSE k]
<1>5. \A k \in DOMAIN devices' :
         /\ From[k] \in DOMAIN devices /\ From[k] # i /\ devices'[k] = devices[From[k]]
    BY <1>1, <1>2, <1>3
<1>6. \A k, l \in DOMAIN devices' : From[k] = From[l] => k = l
    BY <1>1, <1>3
<1>7. \A l \in DOMAIN devices : l # i => \E k \in DOMAIN devices' : From[k] = l
    <2> SUFFICES ASSUME NEW l \in DOMAIN devices, l # i
                 PROVE  \E k \in DOMAIN devices' : From[k] = l
        OBVIOUS
    <2>1. CASE l = Len(devices)
        <3>1. i \in DOMAIN devices' /\ From[i] = l
            BY <1>1, <1>2, <1>3, <2>1
        <3>2. QED
            BY <3>1
    <2>2. CASE l # Len(devices)
        <3>1. l \in DOMAIN devices' /\ From[l] = l
            BY <1>1, <1>2, <1>3, <2>2
        <3>2. QED
            BY <3>1
    <2>3. QED
        BY <2>1, <2>2
<1>8. DOMAIN From = DOMAIN devices'
    OBVIOUS
<1> HIDE DEF From
<1>9. \A k \in DOMAIN devices', n \in Nodes :
         n = devices'[k].node /\ devices'[k].controllerId # -1 => machine[n].kind = "gamepad"
    BY <1>5 DEF PadsInv
<1>10. ~crowded => Cardinality(Gamepads(devices)') <= MAX_CONTROLLERS
    <2> DEFINE G == Gamepads(devices)  H == Gamepads(devices)'
               f == [k \in H |-> From[k]]
    <2>1. H \subseteq DOMAIN devices' /\ \A k \in H : From[k] \in G
        BY <1>4, <1>5 DEF Gamepads
    <2>2. f \in Injection(H, G)
        BY <1>6, <2>1 DEF Injection, IsInjective
    <2>3. IsFiniteSet(G) /\ Cardinality(G) \in Nat
        BY GamepadsFinite
    <2>4. Cardinality(H) <= Cardinality(G) /\ Cardinality(H) \in Nat
        BY <2>2, <2>3, FS_Injection, FS_CardinalityType
    <2>5. ~crowded => Cardinality(G) <= MAX_CONTROLLERS
        BY DEF PadsInv
    <2> HIDE DEF G, H, f
    <2>6. ~crowded => Cardinality(H) <= MAX_CONTROLLERS
        BY <2>3, <2>4, <2>5, StreamingAssumption
    <2>7. QED
        BY <2>6 DEF H
<1>11. ~crowded => Distinct'
    BY <1>5, <1>6 DEF PadsInv, Distinct
<1>12. ~crowded => Taken'
    <2> SUFFICES ASSUME ~crowded, NEW id
                 PROVE  id \in assignedControllerIds' <=>
                            id # -1 /\ \E k \in DOMAIN devices' : devices'[k].controllerId = id
        BY DEF Taken
    <2>1. Distinct /\ Taken
        BY DEF PadsInv
    <2>2. ASSUME NEW l \in DOMAIN devices, devices[l].controllerId = id, l # i
          PROVE  \E k \in DOMAIN devices' : devices'[k].controllerId = id
        BY <1>5, <1>7, <2>2
    <2>3. ASSUME NEW k \in DOMAIN devices', devices'[k].controllerId = id, id # -1
          PROVE  id \in assignedControllerIds /\ id # devices[i].controllerId
        BY <1>5, <2>1, <2>3 DEF Distinct, Taken
    <2>4. QED
        BY <1>4, <2>1, <2>2, <2>3 DEF Taken
<1>13. QED
    BY <1>4, <1>9, <1>10, <1>11, <1>12 DEF PadsInv

LEMMA PadsInvStep == DevicesInv /\ DevicesInv' /\ PadsInv /\ [Next]_vars => PadsInv'
<1> SUFFICES ASSUME DevicesInv, DevicesInv', PadsInv, [Next]_vars PROVE PadsInv'
    OBVIOUS
<1>1. CASE UNCHANGED evdevVars
    BY <1>1, PadsSame DEF evdevVars, physicalVars, historyVars
<1>2. CASE AddInput
    <2>1. CASE \E n \in Nodes : status[n] = "announced"
        <3>1. PICK n \in Nodes : n = CHOOSE m \in Nodes : status[m] = "announced"
            BY <2>1
        <3>2. /\ status[n] = "announced" /\ evdev_create(n)
              /\ UNCHANGED <<machine, assignedControllerIds>>
            BY <1>2, <2>1, <3>1 DEF AddInput
        <3>3. QED
            BY <3>2, CreateKeepsPads
    <2>2. CASE ~\E n \in Nodes : status[n] = "announced"
        BY <1>2, <2>2, PadsSame DEF AddInput
    <2>3. QED
        BY <2>1, <2>2
<1>3. ASSUME NEW n \in Nodes, udev_handle(n) PROVE PadsInv'
    BY <1>3, CreateKeepsPads DEF udev_handle
<1>4. ASSUME NEW n \in Nodes, Plug(n) \/ Pull(n) PROVE PadsInv'
    BY <1>4, PadsSame DEF Plug, Pull, historyVars
<1>5. ASSUME NEW i \in DOMAIN devices, evdev_remove(i) PROVE PadsInv'
    BY <1>5, RemoveKeepsPads
<1>6. ASSUME NEW i \in DOMAIN devices, Reported(i), UNCHANGED reportUnchanged PROVE PadsInv'
    BY <1>6, ReportKeepsPads DEF reportUnchanged
<1>7. ASSUME NEW i \in DOMAIN devices, NEW c \in machine[devices[i].node].controls,
             NEW down \in BOOLEAN, Control(i, c, down)
      PROVE  PadsInv'
    <2>1. UNCHANGED reportUnchanged
        BY <1>7 DEF Control
    <2>2. QED
        BY <1>6, <1>7, <2>1, ControlReported
<1>8. ASSUME NEW i \in DOMAIN devices, NEW p \in HatPositions, HatMoves(i, p[1], p[2])
      PROVE  PadsInv'
    <2>1. UNCHANGED reportUnchanged
        BY <1>8 DEF HatMoves
    <2>2. QED
        BY <1>6, <1>8, <2>1, HatReported
<1>9. ASSUME NEW i \in DOMAIN devices,
             NEW value \in machine[devices[i].node].axis.min - 1 ..
                           machine[devices[i].node].axis.max + 1,
             StickMoves(i, value)
      PROVE  PadsInv'
    <2>1. UNCHANGED reportUnchanged
        BY <1>9 DEF StickMoves
    <2>2. QED
        BY <1>6, <1>9, <2>1, StickReported
<1>10. CASE \/ \E id \in ControllerIds, on \in BOOLEAN : RumbleFind(id, on)
            \/ RumbleStop \/ RumblePlay
    <2>1. UNCHANGED rumbleUnchanged
        BY <1>10 DEF RumbleFind, RumbleStop, RumblePlay, rumbleUnchanged
    <2>2. UNCHANGED <<machine, assignedControllerIds, crowded>>
        BY <2>1 DEF rumbleUnchanged, physicalVars, historyVars
    <2>3. QED
        BY <1>10, <2>2, RumbleOnlyHaptic, NumbersStay DEF SameInput
<1>11. CASE CecKeypress("ok")
    BY <1>11, PadsSame DEF CecKeypress, physicalVars, historyVars
<1>12. evdevNext => PadsInv'
    BY <1>2, <1>3, <1>4, <1>5, <1>7, <1>8, <1>9, <1>10, <1>11 DEF evdevNext
<1>13. QED
    BY <1>1, <1>12 DEF Next, mainNext, vars

LEMMA NumbersOfPads == DevicesInv /\ PadsInv => PadsApart
<1> SUFFICES ASSUME DevicesInv, PadsInv, ~crowded
             PROVE  LET Numbered == {i \in DOMAIN devices : devices[i].controllerId >= 0}
                    IN  /\ \A i, j \in Numbered :
                              devices[i].controllerId = devices[j].controllerId => i = j
                        /\ assignedControllerIds = {devices[i].controllerId : i \in Numbered}
    BY DEF PadsApart
<1>1. \A i \in DOMAIN devices : devices[i].controllerId >= 0 <=> devices[i].controllerId # -1
    <2>1. \A i \in DOMAIN devices : devices[i].controllerId \in ControllerIds \union {-1}
        BY ElementsAreDevices DEF Device
    <2>2. \A id \in ControllerIds \union {-1} : id >= 0 <=> id # -1
        BY StreamingAssumption DEF ControllerIds
    <2>3. QED
        BY <2>1, <2>2
<1>2. Distinct /\ Taken
    BY DEF PadsInv
<1>3. QED
    BY <1>1, <1>2 DEF Distinct, Taken

-----------------------------------------------------------------------------
(* The slots of SDL's gamepads. *)

Slot == [initialized : BOOLEAN, sdl_id : Int, buttons : SUBSET PadButtons, haptic : Int,
         haptic_effect_id : {-1, 0}]

(* While the gamepads are opened one by one the slots fill up from the     *)
(* first; from the loop on each gamepad has the slot of its own number.    *)
SlotsInv ==
    /\ joysticks \in Nat /\ joysticks <= MaxJoysticks /\ opened \in 0..joysticks
    /\ padDown \in [0..(MaxJoysticks - 1) -> SUBSET PadButtons]
    /\ gamepads \in [ControllerIds -> Slot]
    /\ stage \in {"check", "inputs"} => \A j \in 0..(MaxJoysticks - 1) : padDown[j] = {}
    /\ platform = "sdl" /\ stage \in {"start", "connect", "loop"} => opened = joysticks
    /\ joysticks <= MAX_CONTROLLERS =>
          \A id \in ControllerIds :
              /\ id < opened => /\ gamepads[id].initialized /\ gamepads[id].sdl_id = id
                               /\ gamepads[id].haptic = id /\ gamepads[id].buttons = padDown[id]
              /\ ~(id < opened) => gamepads[id] = EmptySlot

LEMMA EmptySlotIs ==
    /\ EmptySlot \in Slot /\ EmptySlot.initialized = FALSE /\ EmptySlot.sdl_id = -1
    /\ EmptySlot.buttons = {}
BY DEF EmptySlot, Slot

LEMMA SlotsInvInit == Init => SlotsInv
<1> SUFFICES ASSUME Init PROVE SlotsInv
    OBVIOUS
<1>1. /\ joysticks \in 0..MaxJoysticks /\ opened = 0 /\ stage = "check"
      /\ padDown = [j \in 0..(MaxJoysticks - 1) |-> {}]
      /\ gamepads = [id \in ControllerIds |-> EmptySlot]
    BY DEF Init, StreamingInit, WindowInit
<1>2. \A id \in ControllerIds : ~(id < 0)
    BY StreamingAssumption DEF ControllerIds
<1>3. QED
    BY <1>1, <1>2, EmptySlotIs, WindowInputAssumption DEF SlotsInv

LEMMA SlotOfIs ==
    ASSUME NEW j
    PROVE  /\ SlotOf(gamepads, j) \in ControllerIds
           /\ \A id \in ControllerIds :
                (/\ ~gamepads[id].initialized \/ gamepads[id].sdl_id = j
                 /\ \A k \in ControllerIds :
                      k < id => gamepads[k].initialized /\ gamepads[k].sdl_id # j)
                  => SlotOf(gamepads, j) = id
<1> DEFINE fits == {id \in ControllerIds : ~gamepads[id].initialized \/ gamepads[id].sdl_id = j}
<1>1. 0 \in ControllerIds /\ ControllerIds \subseteq Nat
    BY StreamingAssumption DEF ControllerIds
<1>2. fits # {} => Min(fits) \in fits /\ \A y \in fits : Min(fits) <= y
    BY <1>1, LeastIn
<1>3. SlotOf(gamepads, j) = IF fits # {} THEN Min(fits) ELSE 0
    BY DEF SlotOf
<1>4. SlotOf(gamepads, j) \in ControllerIds
    BY <1>1, <1>2, <1>3
<1>5. ASSUME NEW id \in ControllerIds,
             ~gamepads[id].initialized \/ gamepads[id].sdl_id = j,
             \A k \in ControllerIds :
                k < id => gamepads[k].initialized /\ gamepads[k].sdl_id # j
      PROVE  SlotOf(gamepads, j) = id
    <2>1. id \in fits /\ Min(fits) \in fits /\ Min(fits) <= id
        BY <1>2, <1>5
    <2>2. ~(Min(fits) < id)
        BY <1>5, <2>1
    <2>3. Min(fits) \in Nat /\ id \in Nat
        BY <1>1, <2>1
    <2> HIDE DEF fits
    <2>4. Min(fits) = id
        BY <2>1, <2>2, <2>3
    <2>5. QED
        BY <1>3, <2>1, <2>4
<1>6. QED
    BY <1>4, <1>5

(* get_gamepad changes one slot, if it was free. *)
LEMMA GotSlot ==
    ASSUME NEW pads \in [ControllerIds -> Slot], NEW j \in Int, NEW id \in ControllerIds,
           id = SlotOf(pads, j)
    PROVE  \E s \in Slot :
              /\ get_gamepad(pads, j) = [pads EXCEPT ![id] = s]
              /\ pads[id].initialized => s = pads[id]
              /\ ~pads[id].initialized => s.initialized /\ s.sdl_id = j /\ s.buttons = {}
<1> DEFINE base == [EmptySlot EXCEPT !.initialized = TRUE]
           new == [base EXCEPT !.sdl_id = j]
<1>1. base \in Slot /\ base.initialized = TRUE /\ base.buttons = {}
    BY EmptySlotIs DEF Slot
<1> HIDE DEF base
<1>2. new \in Slot /\ new.initialized = TRUE /\ new.sdl_id = j /\ new.buttons = {}
    BY <1>1 DEF Slot
<1> USE DEF base
<1>3. get_gamepad(pads, j) = IF pads[id].initialized THEN pads ELSE [pads EXCEPT ![id] = new]
    BY DEF get_gamepad
<1> HIDE DEF new
<1>4. CASE pads[id].initialized
    <2>1. pads = [pads EXCEPT ![id] = pads[id]] /\ pads[id] \in Slot
        OBVIOUS
    <2>2. QED
        BY <1>3, <1>4, <2>1
<1>5. CASE ~pads[id].initialized
    BY <1>2, <1>3, <1>5
<1>6. QED
    BY <1>4, <1>5

LEMMA InitKeepsSlots ==
    ASSUME SlotsInv, SdlInit
    PROVE  SlotsInv'
<1>1. /\ platform = "sdl" /\ stage = "inputs"
      /\ UNCHANGED <<platform, joysticks, padDown>>
    BY DEF SdlInit
<1>2. joysticks \in Nat /\ opened \in 0..joysticks
    BY DEF SlotsInv
<1>3. CASE opened >= joysticks
    <2>1. stage' = "start" /\ UNCHANGED <<gamepads, opened>> /\ opened = joysticks
        BY <1>2, <1>3 DEF SdlInit
    <2>2. QED
        BY <1>1, <2>1 DEF SlotsInv
<1>4. CASE opened < joysticks
    <2>1. /\ opened' = opened + 1 /\ stage' = stage /\ gamepads' = init_gamepad(gamepads, opened)
          /\ opened \in Int /\ opened' \in 0..joysticks
        BY <1>2, <1>4 DEF SdlInit
    <2>2. PICK id \in ControllerIds : id = SlotOf(gamepads, opened)
        BY SlotOfIs
    <2>3. PICK s \in Slot :
             /\ get_gamepad(gamepads, opened) = [gamepads EXCEPT ![id] = s]
             /\ ~gamepads[id].initialized =>
                    s.initialized /\ s.sdl_id = opened /\ s.buttons = {}
        BY <2>1, <2>2, GotSlot DEF SlotsInv
    <2>4. gamepads' = [[gamepads EXCEPT ![id] = s] EXCEPT ![id].haptic = opened,
                                                          ![id].haptic_effect_id = -1]
        BY <2>1, <2>2, <2>3 DEF init_gamepad
    <2> DEFINE t == [s EXCEPT !.haptic = opened]  u == [t EXCEPT !.haptic_effect_id = -1]
    <2>5. t \in Slot /\ t.initialized = s.initialized /\ t.sdl_id = s.sdl_id
          /\ t.buttons = s.buttons /\ t.haptic = opened
        BY <2>1 DEF Slot
    <2>6. gamepads' = [gamepads EXCEPT ![id] = u]
        BY <2>4 DEF SlotsInv
    <2> HIDE DEF t
    <2>7. u \in Slot /\ u.initialized = s.initialized /\ u.sdl_id = s.sdl_id
          /\ u.buttons = s.buttons /\ u.haptic = opened
        BY <2>5 DEF Slot
    <2> HIDE DEF u
    <2>8. /\ gamepads' \in [ControllerIds -> Slot]
          /\ \A k \in ControllerIds : gamepads'[k] = IF k = id THEN u ELSE gamepads[k]
        BY <2>6, <2>7 DEF SlotsInv
    <2>9. ASSUME joysticks <= MAX_CONTROLLERS
          PROVE  \A k \in ControllerIds :
                   /\ k < opened' => /\ gamepads'[k].initialized /\ gamepads'[k].sdl_id = k
                                    /\ gamepads'[k].haptic = k /\ gamepads'[k].buttons = padDown'[k]
                   /\ ~(k < opened') => gamepads'[k] = EmptySlot
        <3>1. opened \in ControllerIds /\ ControllerIds \subseteq Int
            BY <1>2, <1>4, <2>9, StreamingAssumption DEF ControllerIds
        <3>2. \A k \in ControllerIds :
                 /\ k < opened => /\ gamepads[k].initialized /\ gamepads[k].sdl_id = k
                                 /\ gamepads[k].haptic = k /\ gamepads[k].buttons = padDown[k]
                 /\ ~(k < opened) => gamepads[k] = EmptySlot
            BY <2>9 DEF SlotsInv
        <3>3. ~gamepads[opened].initialized
            BY <2>1, <3>1, <3>2, EmptySlotIs
        <3>4. \A k \in ControllerIds :
                 k < opened => gamepads[k].initialized /\ gamepads[k].sdl_id # opened
            BY <2>1, <3>1, <3>2
        <3>5. id = opened
            BY <2>2, <3>1, <3>3, <3>4, SlotOfIs
        <3>6. u.initialized /\ u.sdl_id = opened /\ u.buttons = {}
            BY <2>3, <2>7, <3>3, <3>5
        <3>7. padDown'[opened] = {}
            BY <1>1, <1>2, <1>4, WindowInputAssumption DEF SlotsInv
        <3>8. \A k \in ControllerIds : /\ k < opened' => k < opened \/ k = opened
                                       /\ ~(k < opened') => ~(k < opened) /\ k # opened
                                       /\ k < opened => k # opened
            BY <2>1, <3>1
        <3>9. ASSUME NEW k \in ControllerIds, k = opened
              PROVE  /\ k < opened' /\ gamepads'[k] = u /\ u.initialized /\ u.sdl_id = k
                     /\ u.haptic = k /\ u.buttons = padDown'[k]
            BY <2>1, <2>7, <2>8, <3>1, <3>5, <3>6, <3>7, <3>9
        <3>10. ASSUME NEW k \in ControllerIds, k # opened
              PROVE  gamepads'[k] = gamepads[k] /\ padDown'[k] = padDown[k]
            BY <1>1, <2>8, <3>5, <3>10
        <3>11. QED
            BY <3>2, <3>8, <3>9, <3>10
    <2>10. QED
        BY <1>1, <2>1, <2>8, <2>9 DEF SlotsInv
<1>5. QED
    BY <1>2, <1>3, <1>4

LEMMA PadEventKeepsSlots ==
    ASSUME SlotsInv, NEW j \in Joysticks, NEW b \in PadButtons, PadEvent(j, b)
    PROVE  SlotsInv'
<1>1. /\ platform = "sdl" /\ stage = "loop"
      /\ UNCHANGED <<platform, joysticks, opened>>
      /\ stage' \in {"loop", "stopping"}
    BY DEF PadEvent, InLoop, Leave, Stays
<1>2. j \in Nat /\ j < joysticks /\ joysticks \in Nat /\ opened = joysticks
      /\ j \in 0..(MaxJoysticks - 1)
    BY <1>1, WindowInputAssumption DEF SlotsInv, Joysticks
<1>3. PICK id \in ControllerIds : id = SlotOf(gamepads, j)
    BY SlotOfIs
<1>4. PICK down \in BOOLEAN : down = (b \notin padDown[j])
    <2>1. (b \notin padDown[j]) \in BOOLEAN
        OBVIOUS
    <2>2. QED
        BY <2>1, Zenon
<1>5. PICK s \in Slot :
         /\ get_gamepad(gamepads, j) = [gamepads EXCEPT ![id] = s]
         /\ gamepads[id].initialized => s = gamepads[id]
    BY <1>2, <1>3, GotSlot DEF SlotsInv
<1> DEFINE Press(set) == IF down THEN set \union {b} ELSE set \ {b}
           new == [s EXCEPT !.buttons = Press(s.buttons)]
<1>6. /\ gamepads' = [get_gamepad(gamepads, j) EXCEPT ![id].buttons = Press(@)]
      /\ padDown' = [padDown EXCEPT ![j] = Press(@)]
    BY <1>3, <1>4 DEF PadEvent
<1>7. /\ new \in Slot /\ new.buttons = Press(s.buttons) /\ new.initialized = s.initialized
      /\ new.sdl_id = s.sdl_id /\ new.haptic = s.haptic
    BY DEF Slot
<1>8. gamepads' = [gamepads EXCEPT ![id] = new]
    BY <1>5, <1>6 DEF SlotsInv
<1>9. padDown' \in [0..(MaxJoysticks - 1) -> SUBSET PadButtons]
      /\ \A k \in 0..(MaxJoysticks - 1) :
            padDown'[k] = IF k = j THEN Press(padDown[j]) ELSE padDown[k]
    BY <1>2, <1>6 DEF SlotsInv
<1> HIDE DEF new, Press
<1>10. /\ gamepads' \in [ControllerIds -> Slot]
       /\ \A k \in ControllerIds : gamepads'[k] = IF k = id THEN new ELSE gamepads[k]
    BY <1>7, <1>8 DEF SlotsInv
<1>11. ASSUME joysticks <= MAX_CONTROLLERS
       PROVE  \A k \in ControllerIds :
                /\ k < opened => /\ gamepads'[k].initialized /\ gamepads'[k].sdl_id = k
                                /\ gamepads'[k].haptic = k /\ gamepads'[k].buttons = padDown'[k]
                /\ ~(k < opened) => gamepads'[k] = EmptySlot
    <2>1. j \in ControllerIds /\ ControllerIds \subseteq Int
        BY <1>2, <1>11, StreamingAssumption DEF ControllerIds
    <2>2. \A k \in ControllerIds :
             /\ k < opened => /\ gamepads[k].initialized /\ gamepads[k].sdl_id = k
                             /\ gamepads[k].haptic = k /\ gamepads[k].buttons = padDown[k]
             /\ ~(k < opened) => gamepads[k] = EmptySlot
        BY <1>11 DEF SlotsInv
    <2>3. \A k \in ControllerIds :
             k < j => gamepads[k].initialized /\ gamepads[k].sdl_id # j
        BY <1>2, <2>1, <2>2
    <2>4. gamepads[j].sdl_id = j /\ j < opened
        BY <1>2, <2>1, <2>2
    <2>5. id = j
        BY <1>3, <2>1, <2>3, <2>4, SlotOfIs
    <2>6. s = gamepads[j]
        BY <1>5, <2>1, <2>2, <2>4, <2>5
    <2>7. \A k \in ControllerIds : k < opened => k \in 0..(MaxJoysticks - 1)
        BY <1>2, StreamingAssumption, WindowInputAssumption DEF ControllerIds, SlotsInv
    <2>8. QED
        BY <1>7, <1>9, <1>10, <2>1, <2>2, <2>4, <2>5, <2>6, <2>7
<1>12. QED
    BY <1>1, <1>9, <1>10, <1>11 DEF SlotsInv

LEMMA RumbleKeepsSlots ==
    ASSUME SlotsInv, NEW id \in ControllerIds, NEW on \in BOOLEAN, SdlRumble(id, on)
    PROVE  SlotsInv'
<1>1. UNCHANGED <<platform, stage, joysticks, opened, padDown>>
    BY DEF SdlRumble, streamingVars
<1>2. CASE UNCHANGED gamepads
    BY <1>1, <1>2 DEF SlotsInv
<1>3. CASE gamepads' = [gamepads EXCEPT ![id].haptic_effect_id = 0] /\ gamepads[id].haptic # -1
    <2> DEFINE new == [gamepads[id] EXCEPT !.haptic_effect_id = 0]
    <2>1. gamepads[id] \in Slot
        BY DEF SlotsInv
    <2>2. /\ new \in Slot /\ new.buttons = gamepads[id].buttons
          /\ new.initialized = gamepads[id].initialized
          /\ new.sdl_id = gamepads[id].sdl_id /\ new.haptic = gamepads[id].haptic
        BY <2>1 DEF Slot
    <2>3. gamepads' = [gamepads EXCEPT ![id] = new]
        BY <1>3
    <2> HIDE DEF new
    <2>4. /\ gamepads' \in [ControllerIds -> Slot]
          /\ \A k \in ControllerIds : gamepads'[k] = IF k = id THEN new ELSE gamepads[k]
        BY <2>2, <2>3 DEF SlotsInv
    <2>5. joysticks <= MAX_CONTROLLERS => id < opened
        BY <1>3 DEF SlotsInv, EmptySlot
    <2>6. QED
        BY <1>1, <2>2, <2>4, <2>5 DEF SlotsInv
<1>4. QED
    BY <1>2, <1>3 DEF SdlRumble, HapticOf

LEMMA SlotsSame ==
    ASSUME SlotsInv, UNCHANGED windowPadVars,
           \/ UNCHANGED platform /\ stage' = stage
           \/ stage' \in {"stopping", "stopped", "exited"}
           \/ platform # "sdl" /\ UNCHANGED platform /\ stage' # "check" /\ stage' # "inputs"
           \/ stage = "check" /\ stage' = "inputs"
           \/ UNCHANGED platform /\ stage \in {"start", "connect"}
              /\ stage' \in {"connect", "loop"}
    PROVE  SlotsInv'
BY DEF SlotsInv, windowPadVars

LEMMA SlotsInvStep == SlotsInv /\ [Next]_vars => SlotsInv'
<1> SUFFICES ASSUME SlotsInv, [Next]_vars PROVE SlotsInv'
    OBVIOUS
<1>1. CASE mainNext \/ UNCHANGED vars
    <2>1. UNCHANGED windowPadVars
        BY <1>1 DEF mainNext, vars, windowVars
    <2>2. \/ UNCHANGED platform /\ stage' = stage
          \/ stage' \in {"stopping", "stopped", "exited"}
          \/ stage = "check" /\ stage' = "inputs"
          \/ UNCHANGED platform /\ stage \in {"start", "connect"}
             /\ stage' \in {"connect", "loop"}
        BY <1>1 DEF mainNext, vars, streamingVars, PlatformCheck, Start, Connect,
                    Terminated, Signal, Stop, LoopSignal, OnSignal, Leave
    <2>3. QED
        BY <2>1, <2>2, SlotsSame
<1>2. CASE evdevNext /\ UNCHANGED windowVars
    <2>1. UNCHANGED windowPadVars
        BY <1>2 DEF windowVars
    <2>2. \/ UNCHANGED platform /\ (stage' = stage \/ stage' = "stopping")
          \/ /\ UNCHANGED platform /\ IS_EMBEDDED(platform)
             /\ stage' \in {"inputs", "start"} /\ stage = "inputs"
        <3>1. CASE AddInput
            BY <3>1 DEF AddInput
        <3>2. ASSUME NEW n, Plug(n) \/ udev_handle(n) \/ Pull(n)
              PROVE  UNCHANGED <<platform, stage>>
            BY <3>2 DEF Plug, udev_handle, Pull, streamingVars
        <3>3. ASSUME NEW i, evdev_remove(i) PROVE UNCHANGED <<platform, stage>>
            BY <3>3 DEF evdev_remove, streamingVars
        <3>4. ASSUME NEW i, NEW dev, HandlePad(i, dev) PROVE stage' = stage \/ stage' = "stopping"
            BY <3>4 DEF HandlePad, Leave, Stays
        <3>5. ASSUME NEW i, NEW c, NEW down, Control(i, c, down)
              PROVE  UNCHANGED platform /\ (stage' = stage \/ stage' = "stopping")
            BY <3>4, <3>5 DEF Control, InLoop, HandleKey, Overrun, Leave, Stays
        <3>6. ASSUME NEW i, NEW x, NEW y, HatMoves(i, x, y)
              PROVE  UNCHANGED platform /\ (stage' = stage \/ stage' = "stopping")
            BY <3>4, <3>6 DEF HatMoves, InLoop
        <3>7. ASSUME NEW i, NEW value, StickMoves(i, value)
              PROVE  UNCHANGED platform /\ (stage' = stage \/ stage' = "stopping")
            BY <3>4, <3>7 DEF StickMoves, InLoop
        <3>8. ASSUME NEW id, NEW on, RumbleFind(id, on) PROVE UNCHANGED <<platform, stage>>
            BY <3>8 DEF RumbleFind, rumbleUnchanged, streamingVars
        <3>9. CASE RumbleStop \/ RumblePlay
            <4>1. UNCHANGED rumbleUnchanged
                BY <3>9 DEF RumbleStop, RumblePlay, rumbleUnchanged
            <4>2. QED
                BY <4>1 DEF rumbleUnchanged, streamingVars
        <3>10. CASE CecKeypress("ok")
            BY <3>10 DEF CecKeypress, InLoop, Stays
        <3>11. QED
            BY <1>2, <3>1, <3>2, <3>3, <3>5, <3>6, <3>7, <3>8, <3>9, <3>10 DEF evdevNext
    <2>3. QED
        BY <2>1, <2>2, SlotsSame DEF IS_EMBEDDED
<1>3. CASE windowNext
    <2>1. ASSUME UNCHANGED <<platform, windowPadVars>>, stage' = stage \/ stage' = "stopping"
          PROVE  SlotsInv'
        BY <2>1, SlotsSame
    <2>2. ASSUME NEW key, KeyEvent(key) \/ Repeat(key) PROVE SlotsInv'
        <3>1. UNCHANGED <<platform, windowPadVars>>
            BY <2>2 DEF KeyEvent, Repeat, InLoop
        <3>2. stage' = stage \/ stage' = "stopping"
            BY <2>2 DEF KeyEvent, Repeat, WindowEvent, MouseButton, X11Key, SdlKey, Leave, Stays
        <3>3. QED
            BY <2>1, <3>1, <3>2
    <2>3. CASE OutOfFocus \/ WindowClosed
        BY <2>1, <2>3 DEF OutOfFocus, WindowClosed, InLoop, Leave, streamingVars, windowVars
    <2>4. QED
        BY <1>3, <2>2, <2>3, InitKeepsSlots, PadEventKeepsSlots, RumbleKeepsSlots DEF windowNext
<1>4. QED
    BY <1>1, <1>2, <1>3 DEF Next

LEMMA SlotsOfPads == SlotsInv => SlotsApart
<1> SUFFICES ASSUME SlotsInv, platform = "sdl", stage = "loop", joysticks <= MAX_CONTROLLERS,
                    NEW j \in Joysticks
             PROVE  \E id \in ControllerIds :
                       /\ {k \in ControllerIds : gamepads[k].sdl_id = j} = {id}
                       /\ gamepads[id].haptic = j
                       /\ gamepads[id].buttons = padDown[j]
    BY DEF SlotsApart
<1>1. opened = joysticks /\ joysticks \in Nat
    BY DEF SlotsInv
<1>2. j \in ControllerIds /\ j \in Nat /\ j < opened
    BY <1>1, StreamingAssumption DEF Joysticks, ControllerIds
<1>3. \A k \in ControllerIds :
         /\ k < opened => /\ gamepads[k].sdl_id = k
                         /\ gamepads[k].haptic = k /\ gamepads[k].buttons = padDown[k]
         /\ ~(k < opened) => gamepads[k].sdl_id = -1
    BY EmptySlotIs DEF SlotsInv
<1>4. {k \in ControllerIds : gamepads[k].sdl_id = j} = {j}
    <2>1. \A k \in ControllerIds : gamepads[k].sdl_id = j => k = j
        BY <1>2, <1>3
    <2>2. gamepads[j].sdl_id = j
        BY <1>2, <1>3
    <2>3. QED
        BY <1>2, <2>1, <2>2
<1>5. QED
    BY <1>2, <1>3, <1>4

(* Whatever devices are plugged and pulled: the host tells gamepads apart, *)
(* and hears of the numbers that are in use and no other.                  *)
THEOREM NumbersAlwaysApart == Spec => []NumbersApart
<1>1. Init => DevicesInv /\ PadsInv /\ SlotsInv
    BY DevicesInvInit, PadsInvInit, SlotsInvInit DEF Init
<1>2. DevicesInv /\ PadsInv /\ SlotsInv /\ [Next]_vars => (DevicesInv /\ PadsInv /\ SlotsInv)'
    BY DevicesInvStep, PadsInvStep, SlotsInvStep
<1>3. DevicesInv /\ PadsInv /\ SlotsInv => NumbersApart
    BY NumbersOfPads, SlotsOfPads DEF NumbersApart
<1>4. QED
    BY <1>1, <1>2, <1>3, PTL DEF Spec

-----------------------------------------------------------------------------
(* How evdev_convert_value moves a stick. *)

(* What a division leaves. *)
LEMMA DivMod ==
    ASSUME NEW a \in Int, NEW c \in Nat \ {0}
    PROVE  /\ a \div c \in Int
           /\ a % c \in 0..(c - 1)
           /\ a = c * (a \div c) + (a % c)
<1>1. a \div c \in Int
    OBVIOUS
<1>2. a % c \in 0..(c - 1)
    OBVIOUS
<1>3. a = c * (a \div c) + (a % c)
    OBVIOUS
<1>4. QED
    BY <1>1, <1>2, <1>3

(* A product grows with its factor. *)
LEMMA Monotone ==
    ASSUME NEW c \in Nat, NEW p \in Int, NEW q \in Int, p <= q
    PROVE  c * p \in Int /\ c * q \in Int /\ c * p <= c * q
<1>1. c * (q - p) >= 0
    OBVIOUS
<1>2. c * (q - p) = c * q - c * p /\ c * p \in Int /\ c * q \in Int
    OBVIOUS
<1>3. QED
    BY <1>1, <1>2

(* A number is in a short what it is. *)
LEMMA ShortIs ==
    ASSUME NEW q \in Int, 0 <= q, q <= 65535
    PROVE  ToShort(q - 32768) = q - 32768
<1>1. q - 32768 + 32768 = q
    OBVIOUS
<1>2. q % 65536 = q
    OBVIOUS
<1>3. QED
    BY <1>1, <1>2 DEF ToShort

(* The quotient by two of C is the middle to the nearest place. *)
LEMMA MiddleIs ==
    ASSUME NEW s \in Int
    PROVE  /\ Quotient(s, 2) \in Int
           /\ \/ s - 2 * Quotient(s, 2) = -1
              \/ s - 2 * Quotient(s, 2) = 0
              \/ s - 2 * Quotient(s, 2) = 1
BY DEF Quotient

(* How far v is on the way from lo to hi, without the dead zone. *)
Way(v, lo, hi, flat, avg) == v - (IF v > avg THEN 2 * flat ELSE 0) - lo

(* avg is the middle of an axis, to the nearest of its places. *)
Middle(lo, hi, flat, avg) ==
    /\ lo + hi - 2 * avg = -1 \/ lo + hi - 2 * avg = 0 \/ lo + hi - 2 * avg = 1
    /\ hi - lo > 1 /\ 2 * flat < hi - lo

(* evdev_convert_value takes v for the middle. *)
InDeadZone(v, flat, avg) == v - avg < flat /\ avg - v < flat

(* The way keeps the side of the middle that v is on, and the ends. *)
WayIsOf(way, v, lo, hi, range) ==
    /\ way \in 0..range
    /\ 2 * v - lo - hi > 0 => 2 * way >= range - 1
    /\ 2 * v - lo - hi < 0 => 2 * way <= range + 1
    /\ 2 * v - lo - hi >= hi - lo => way = range
    /\ -(2 * v - lo - hi) >= hi - lo => way = 0

LEMMA WayIs ==
    ASSUME NEW v \in Int, NEW lo \in Int, NEW hi \in Int, NEW flat \in Nat, NEW avg \in Int,
           Middle(lo, hi, flat, avg), lo <= v, v <= hi, ~InDeadZone(v, flat, avg)
    PROVE  WayIsOf(Way(v, lo, hi, flat, avg), v, lo, hi, hi - lo - 2 * flat)
<1>1. CASE v > avg
    <2>1. Way(v, lo, hi, flat, avg) = v - 2 * flat - lo
        BY <1>1 DEF Way
    <2>2. QED
        BY <1>1, <2>1 DEF Middle, InDeadZone, WayIsOf
<1>2. CASE ~(v > avg)
    <2>1. Way(v, lo, hi, flat, avg) = v - lo
        BY <1>2 DEF Way
    <2>2. QED
        BY <1>2, <2>1 DEF Middle, InDeadZone, WayIsOf
<1>3. QED
    BY <1>1, <1>2

(* The way, for the host: one place of the stick is step for it at most.    *)
ScaleIs(R, way, q, step) ==
    /\ q \in Int /\ 0 <= q /\ q <= 65535 /\ step \in Nat
    /\ 2 * way >= R - 1 => q - 32768 >= -step
    /\ 2 * way <= R + 1 => q - 32768 <= step
    /\ way = R => q = 65535
    /\ way = 0 => q = 0

(* A division by R, by its quotient and its rest. *)
Divides(a, R, q, r) == a = R * q + r

LEMMA ScaledParts ==
    ASSUME NEW R \in Nat \ {0}, NEW way \in 0..R, NEW q \in Int, NEW step \in Int,
           NEW r \in 0..(R - 1), NEW t \in 0..(R - 1),
           Divides(way * 65535, R, q, r), Divides(65535 + R - 1, R, step, t)
    PROVE  ScaleIs(R, way, q, step)
<1>1. way \in Int /\ R \in Int /\ way >= 0 /\ way <= R /\ R >= 1 /\ R \in Nat
      /\ r \in Int /\ t \in Int /\ 0 <= r /\ r < R /\ 0 <= t /\ t < R
      /\ q \in Int /\ step \in Int
    OBVIOUS
<1>2. PICK rq \in Int : rq = R * q
    OBVIOUS
<1>3. PICK rs \in Int : rs = R * step
    OBVIOUS
<1>4. 65535 * way = rq + r /\ 65534 + R = rs + t
    BY <1>2, <1>3 DEF Divides
<1>5. R * (q + step) = rq + rs /\ R * (q - step) = rq - rs
    BY <1>1, <1>2, <1>3
<1>6. step >= 1
    <2>1. step <= 0 => rs <= R * 0
        BY <1>1, <1>3, Monotone
    <2>2. QED
        BY <1>1, <1>4, <2>1
<1>7. q >= 0
    <2>1. q <= -1 => rq <= R * (-1)
        BY <1>1, <1>2, Monotone
    <2>2. QED
        BY <1>1, <1>4, <2>1
<1>8. q <= 65535
    <2>1. q >= 65536 => rq >= R * 65536
        BY <1>1, <1>2, Monotone
    <2>2. QED
        BY <1>1, <1>4, <2>1
<1>9. ASSUME 2 * way >= R - 1 PROVE q - 32768 >= -step
    <2>1. q + step <= 32767 => rq + rs <= R * 32767
        BY <1>1, <1>5, Monotone
    <2>2. q <= 32766 => rq <= R * 32766
        BY <1>1, <1>2, Monotone
    <2>3. CASE R < 65537
        BY <1>1, <1>4, <1>9, <2>1, <2>3
    <2>4. CASE R >= 65537
        BY <1>1, <1>4, <1>6, <1>9, <2>2, <2>4
    <2>5. QED
        BY <1>1, <2>3, <2>4
<1>10. ASSUME 2 * way <= R + 1 PROVE q - 32768 <= step
    <2>1. q - step >= 32769 => rq - rs >= R * 32769
        BY <1>1, <1>5, Monotone
    <2>2. QED
        BY <1>1, <1>4, <1>10, <2>1
<1>11. way = R => q = 65535
    <2>1. q <= 65534 => rq <= R * 65534
        BY <1>1, <1>2, Monotone
    <2>2. QED
        BY <1>1, <1>4, <1>8, <2>1
<1>12. way = 0 => q = 0
    <2>1. q >= 1 => rq >= R * 1
        BY <1>1, <1>2, Monotone
    <2>2. QED
        BY <1>1, <1>4, <1>7, <2>1
<1>13. q \in Int /\ 0 <= q /\ q <= 65535 /\ step \in Nat
    BY <1>1, <1>6, <1>7, <1>8
<1>14. QED
    BY <1>9, <1>10, <1>11, <1>12, <1>13 DEF ScaleIs

LEMMA Scaled ==
    ASSUME NEW R \in Nat \ {0}, NEW way \in 0..R
    PROVE  ScaleIs(R, way, (way * 65535) \div R, (65535 + R - 1) \div R)
<1>1. PICK a \in Int : a = way * 65535
    OBVIOUS
<1>2. PICK b \in Int : b = 65535 + R - 1
    OBVIOUS
<1>3. PICK q, r : q = a \div R /\ r = a % R
    OBVIOUS
<1>4. PICK step, t : step = b \div R /\ t = b % R
    OBVIOUS
<1>5. q \in Int /\ r \in 0..(R - 1) /\ Divides(a, R, q, r)
    BY <1>3, DivMod DEF Divides
<1>6. step \in Int /\ t \in 0..(R - 1) /\ Divides(b, R, step, t)
    BY <1>4, DivMod DEF Divides
<1>7. Divides(way * 65535, R, q, r) /\ Divides(65535 + R - 1, R, step, t)
    BY <1>1, <1>2, <1>5, <1>6
<1>8. ScaleIs(R, way, q, step)
    <2>1. q \in Int /\ step \in Int /\ r \in 0..(R - 1) /\ t \in 0..(R - 1)
        BY <1>5, <1>6
    <2>2. QED
        BY <1>7, <2>1, ScaledParts
<1>9. QED
    BY <1>1, <1>2, <1>3, <1>4, <1>8

(* The step of StickIs. *)
Steps(R) == (65535 + R - 1) \div R

(* What evdev_convert_value makes of v. *)
Converted(v, lo, hi, flat, avg) ==
    IF InDeadZone(v, flat, avg) THEN 0
    ELSE IF v > hi THEN 32767
    ELSE IF v < lo THEN -32768
    ELSE ToShort(Quotient(Way(v, lo, hi, flat, avg) * 65535, hi - lo - 2 * flat) - 32768)

(* StickIs, of the ends and the step. *)
StickIsOf(stick, v, lo, hi, step) ==
    /\ 2 * v - lo - hi > 0 => stick >= -step
    /\ 2 * v - lo - hi < 0 => stick <= step
    /\ 2 * v - lo - hi >= hi - lo => stick = 32767
    /\ -(2 * v - lo - hi) >= hi - lo => stick = -32768

LEMMA ConvertedIs ==
    ASSUME NEW v \in Int, NEW lo \in Int, NEW hi \in Int, NEW flat \in Nat, NEW avg \in Int,
           Middle(lo, hi, flat, avg)
    PROVE  StickIsOf(Converted(v, lo, hi, flat, avg), v, lo, hi, Steps(hi - lo - 2 * flat))
<1>1. PICK R \in Nat \ {0} : R = hi - lo - 2 * flat
    BY DEF Middle
<1>2. PICK step : step = Steps(R)
    OBVIOUS
<1>3. PICK stick : stick = Converted(v, lo, hi, flat, avg)
    OBVIOUS
<1>4. step \in Nat
    <2>1. 0 \in 0..R
        OBVIOUS
    <2>2. QED
        BY <1>2, <2>1, Scaled DEF ScaleIs, Steps
<1>5. SUFFICES StickIsOf(stick, v, lo, hi, step)
    BY <1>1, <1>2, <1>3
<1>6. CASE InDeadZone(v, flat, avg)
    <2>1. stick = 0
        BY <1>3, <1>6 DEF Converted
    <2>2. QED
        BY <1>4, <1>6, <2>1 DEF InDeadZone, Middle, StickIsOf
<1>7. CASE ~InDeadZone(v, flat, avg) /\ v > hi
    <2>1. stick = 32767
        BY <1>3, <1>7 DEF Converted
    <2>2. QED
        BY <1>4, <1>7, <2>1 DEF Middle, StickIsOf
<1>8. CASE ~InDeadZone(v, flat, avg) /\ v < lo
    <2>1. ~(v > hi)
        BY <1>8 DEF Middle
    <2>2. stick = -32768
        BY <1>3, <1>8, <2>1 DEF Converted
    <2>3. QED
        BY <1>4, <1>8, <2>2 DEF Middle, StickIsOf
<1>9. CASE ~InDeadZone(v, flat, avg) /\ lo <= v /\ v <= hi
    <2>1. PICK way : way = Way(v, lo, hi, flat, avg)
        OBVIOUS
    <2>2. WayIsOf(way, v, lo, hi, R)
        BY <1>1, <1>9, <2>1, WayIs
    <2>3. PICK q : q = (way * 65535) \div R
        OBVIOUS
    <2>4. way \in 0..R
        BY <2>2 DEF WayIsOf
    <2>5. ScaleIs(R, way, q, step)
        BY <1>2, <2>3, <2>4, Scaled DEF Steps
    <2>6. q \in Int /\ 0 <= q /\ q <= 65535
        BY <2>5 DEF ScaleIs
    <2>7. stick = q - 32768
        <3>1. ~(v > hi) /\ ~(v < lo)
            BY <1>9
        <3>2. stick = ToShort(Quotient(way * 65535, R) - 32768)
            BY <1>1, <1>3, <1>9, <2>1, <3>1 DEF Converted
        <3>3. ~(way * 65535 < 0)
            BY <2>4
        <3>4. Quotient(way * 65535, R) = q
            BY <2>3, <3>3 DEF Quotient
        <3>5. QED
            BY <2>6, <3>2, <3>4, ShortIs
    <2>8. QED
        BY <2>2, <2>5, <2>7 DEF ScaleIs, WayIsOf, StickIsOf
<1>10. QED
    BY <1>6, <1>7, <1>8, <1>9

(* An axis that evdev_convert_value can make something of. *)
Axis(parms) ==
    /\ parms.min \in Int /\ parms.max \in Int
    /\ parms.flat \in Nat /\ parms.reverse \in BOOLEAN
    /\ parms.max - parms.min > 1 /\ 2 * parms.flat < parms.max - parms.min

(* Whatever the axis and its place, reversed or not: the stick is where it *)
(* is held.                                                                *)
LEMMA StickFollows ==
    ASSUME NEW parms, Axis(parms), NEW v \in Int
    PROVE  StickIs(v, evdev_convert_value(v, parms), parms)
<1>1. PICK lo \in Int, hi \in Int, flat \in Nat :
          lo = parms.min /\ hi = parms.max /\ flat = parms.flat
    BY DEF Axis
<1>2. hi - lo > 1 /\ 2 * flat < hi - lo
    BY <1>1 DEF Axis
<1>3. PICK avg \in Int : avg = Quotient(lo + hi, 2) /\ Middle(lo, hi, flat, avg)
    <2>1. PICK s \in Int : s = lo + hi
        OBVIOUS
    <2>2. PICK avg \in Int : /\ avg = Quotient(s, 2)
                             /\ s - 2 * avg = -1 \/ s - 2 * avg = 0 \/ s - 2 * avg = 1
        BY MiddleIs
    <2>3. Middle(lo, hi, flat, avg)
        BY <1>2, <2>1, <2>2 DEF Middle
    <2>4. QED
        BY <2>1, <2>2, <2>3
<1>4. PICK stick : stick = evdev_convert_value(v, parms)
    OBVIOUS
<1>5. avg = Quotient(parms.min + parms.max, 2)
    BY <1>1, <1>3
<1>6. Abs(v - avg) < flat <=> InDeadZone(v, flat, avg)
    BY DEF Abs, InDeadZone
<1>7. CASE parms.reverse = FALSE
    <2>1. PICK w : w = Way(v, lo, hi, flat, avg)
        OBVIOUS
    <2>2. w = v - (IF v > avg THEN 2 * flat ELSE 0) - lo
        BY <2>1 DEF Way
    <2>3. PICK R \in Nat \ {0} : R = hi - lo - 2 * flat
        BY <1>2
    <2>4. stick = IF Abs(v - avg) < flat THEN 0
                  ELSE IF v > hi THEN 32767 ELSE IF v < lo THEN -32768
                  ELSE ToShort(Quotient(w * 65535, R) - 32768)
        <3>1. w \in Int
            BY <2>2
        <3>2. w * (SHRT_MAX - SHRT_MIN) = w * 65535
            BY DEF SHRT_MIN, SHRT_MAX
        <3>3. PICK n : n = ToShort(Quotient(w * 65535, R) - 32768)
            OBVIOUS
        <3>4. n = ToShort(Quotient(w * (SHRT_MAX - SHRT_MIN), R) + SHRT_MIN)
            <4>1. PICK u : u = Quotient(w * 65535, R)
                OBVIOUS
            <4>2. u \in Int
                BY <3>1, <4>1 DEF Quotient
            <4>3. u - 32768 = u + SHRT_MIN
                BY <4>2 DEF SHRT_MIN
            <4>4. QED
                BY <3>2, <3>3, <4>1, <4>3
        <3>5. QED
            BY <1>1, <1>4, <1>5, <1>7, <2>2, <2>3, <3>3, <3>4
               DEF evdev_convert_value, SHRT_MIN, SHRT_MAX
    <2>5. stick = Converted(v, lo, hi, flat, avg)
        BY <1>6, <2>1, <2>3, <2>4 DEF Converted
    <2>6. StickIsOf(stick, v, lo, hi, Steps(hi - lo - 2 * flat))
        BY <1>3, <2>5, ConvertedIs
    <2>7. QED
        BY <1>1, <1>2, <1>4, <1>7, <2>6 DEF StickIs, StickIsOf, Steps, Abs, SHRT_MIN, SHRT_MAX
<1>8. CASE parms.reverse = TRUE
    <2>1. PICK x \in Int, l \in Int, h \in Int, mid \in Int :
              x = -v /\ l = -hi /\ h = -lo /\ mid = -avg
        OBVIOUS
    <2>2. PICK w : w = Way(x, l, h, flat, mid)
        OBVIOUS
    <2>3. w = hi - (IF v < avg THEN 2 * flat ELSE 0) - v
        BY <2>1, <2>2 DEF Way
    <2>4. PICK R \in Nat \ {0} : R = hi - lo - 2 * flat
        BY <1>2
    <2>5. stick = IF Abs(v - avg) < flat THEN 0
                  ELSE IF v > hi THEN -32768 ELSE IF v < lo THEN 32767
                  ELSE ToShort(Quotient(w * 65535, R) - 32768)
        <3>1. w \in Int
            BY <2>3
        <3>2. w * (SHRT_MAX - SHRT_MIN) = w * 65535
            BY DEF SHRT_MIN, SHRT_MAX
        <3>3. PICK n : n = ToShort(Quotient(w * 65535, R) - 32768)
            OBVIOUS
        <3>4. n = ToShort(Quotient(w * (SHRT_MAX - SHRT_MIN), R) + SHRT_MIN)
            <4>1. PICK u : u = Quotient(w * 65535, R)
                OBVIOUS
            <4>2. u \in Int
                BY <3>1, <4>1 DEF Quotient
            <4>3. u - 32768 = u + SHRT_MIN
                BY <4>2 DEF SHRT_MIN
            <4>4. QED
                BY <3>2, <3>3, <4>1, <4>3
        <3>5. QED
            BY <1>1, <1>4, <1>5, <1>8, <2>3, <2>4, <3>3, <3>4
               DEF evdev_convert_value, SHRT_MIN, SHRT_MAX
    <2>6. stick = Converted(x, l, h, flat, mid)
        <3>1. InDeadZone(x, flat, mid) <=> InDeadZone(v, flat, avg)
            BY <2>1 DEF InDeadZone
        <3>2. (x > h <=> v < lo) /\ (x < l <=> v > hi) /\ ~(v < lo /\ v > hi)
            BY <1>2, <2>1
        <3>3. h - l - 2 * flat = R
            BY <2>1, <2>4
        <3>4. QED
            BY <1>6, <2>2, <2>5, <3>1, <3>2, <3>3 DEF Converted
    <2>7. Middle(l, h, flat, mid)
        BY <1>3, <2>1 DEF Middle
    <2>8. StickIsOf(stick, x, l, h, Steps(h - l - 2 * flat))
        BY <2>6, <2>7, ConvertedIs
    <2>9. h - l - 2 * flat = hi - lo - 2 * flat
        BY <2>1
    <2>10. QED
        BY <1>1, <1>2, <1>4, <1>8, <2>1, <2>8, <2>9
           DEF StickIs, StickIsOf, Steps, Abs, SHRT_MIN, SHRT_MAX
<1>9. QED
    BY <1>7, <1>8 DEF Axis

(* A stick that has not moved yet: the host was told nothing of it. *)
LEMMA RestFollows ==
    ASSUME NEW parms, Axis(parms)
    PROVE  StickIs((parms.min + parms.max) \div 2, 0, parms)
<1>1. PICK lo \in Int, hi \in Int, flat \in Nat :
          lo = parms.min /\ hi = parms.max /\ flat = parms.flat
    BY DEF Axis
<1>2. PICK s \in Int : s = lo + hi
    OBVIOUS
<1>3. PICK v \in Int : v = s \div 2 /\ (s - 2 * v = 0 \/ s - 2 * v = 1)
    OBVIOUS
<1>4. PICK R \in Nat \ {0} : R = hi - lo - 2 * flat
    BY <1>1 DEF Axis
<1>5. Steps(R) \in Nat
    <2>1. 0 \in 0..R
        OBVIOUS
    <2>2. QED
        BY <2>1, Scaled DEF ScaleIs, Steps
<1>6. hi - lo > 1
    BY <1>1 DEF Axis
<1>7. StickIs(v, 0, parms)
    BY <1>1, <1>2, <1>3, <1>4, <1>5, <1>6 DEF Axis, StickIs, Steps, Abs
<1>8. QED
    BY <1>1, <1>2, <1>3, <1>7

-----------------------------------------------------------------------------
(* What the host sees of a gamepad. *)

(* The stream is not being left. *)
Live == stage \in {"check", "inputs", "start", "connect", "loop"}

(* Nobody has moved the gamepad. *)
AtRest(n) ==
    hat[n] = <<0, 0>> /\ (machine[n].axis # None => StickIs(raw[n], 0, machine[n].axis))

(* An element has its gamepad the way it is held. *)
Follows(d, n) ==
    /\ d.buttonFlags = held[n] \union HatIs(hat[n])
    /\ machine[n].axis # None => StickIs(raw[n], d.leftStickX, machine[n].axis)

(* The host has it the way the element does. *)
PadIs(pads, d) ==
    d.controllerId # -1 =>
        pads[d.controllerId] = [buttons |-> d.buttonFlags, stick |-> d.leftStickX]

(* A device that is not open has been left at rest, and there are devices *)
(* of /dev/input on the platforms that read them.                         *)
RestInv ==
    /\ hat \in [Nodes -> HatPositions] /\ raw \in [Nodes -> Int]
    /\ \A n \in Nodes : /\ status[n] \in {"out", "announced"} => AtRest(n)
                        /\ machine[n].axis = None => hat[n] = <<0, 0>>
    /\ \A i \in DOMAIN devices : stage # "check" /\ platform # "sdl"

(* Every gamepad that is open is followed, unless a report was lost. *)
FollowInv ==
    \/ overrun
    \/ \A i \in DOMAIN devices, n \in Nodes :
          n = devices[i].node /\ status[n] = "open" /\ machine[n].kind = "gamepad" =>
              Follows(devices[i], n)

(* The host has the gamepads as their elements are, unless two have shared *)
(* a number.                                                               *)
ToldInv ==
    /\ DOMAIN remote = {"keys", "pads", "mask"} /\ DOMAIN remote.pads = ControllerIds
    /\ crowded \/ ~Live \/ \A i \in DOMAIN devices : PadIs(remote.pads, devices[i])

(* The inductive invariant of PadShownAsHeld. *)
HeldInv == RestInv /\ FollowInv /\ ToldInv

(* What is assumed of a machine's axis is what its conversion needs. *)
LEMMA AxisOf ==
    ASSUME DevicesInv, NEW n \in Nodes, machine[n].axis # None
    PROVE  Axis(machine[n].axis) /\ machine[n].controls \intersect Directions = {}
BY EvdevAssumption DEF DevicesInv, DeviceTypes, Nodes, Axis, Directions

(* At the start there is no gamepad and nothing has been moved. *)
LEMMA HeldInvInit == Init => HeldInv
<1> SUFFICES ASSUME Init PROVE HeldInv
    OBVIOUS
<1>1. DevicesInv
    BY DevicesInvInit DEF Init
<1>2. DOMAIN devices = {}
    BY DEF Init, EvdevInit
<1>3. ASSUME NEW n \in Nodes PROVE raw[n] \in Int /\ AtRest(n)
    <2>1. hat[n] = <<0, 0>>
        BY DEF Init, EvdevInit
    <2>2. CASE machine[n].axis = None
        <3>1. raw[n] = 0
            BY <2>2 DEF Init, EvdevInit
        <3>2. QED
            BY <2>1, <2>2, <3>1 DEF AtRest
    <2>3. CASE machine[n].axis # None
        <3>1. PICK parms : parms = machine[n].axis
            OBVIOUS
        <3>2. raw[n] = (parms.min + parms.max) \div 2
            BY <2>3, <3>1 DEF Init, EvdevInit
        <3>3. Axis(parms)
            BY <1>1, <2>3, <3>1, AxisOf
        <3>4. StickIs(raw[n], 0, parms)
            BY <3>2, <3>3, RestFollows
        <3>5. raw[n] \in Int
            BY <3>2, <3>3 DEF Axis
        <3>6. QED
            BY <2>1, <3>1, <3>4, <3>5 DEF AtRest
    <2>4. QED
        BY <2>2, <2>3
<1>4. hat = [d \in Nodes |-> <<0, 0>>] /\ <<0, 0>> \in HatPositions
    BY DEF Init, EvdevInit, HatPositions
<1>5. raw \in [Nodes -> Int]
    <2>1. \E f : raw = [d \in Nodes |-> f[d]]
        <3>1. raw = [d \in Nodes |-> raw[d]]
            BY DEF Init, EvdevInit
        <3>2. QED
            BY <3>1
    <2>2. QED
        BY <1>3, <2>1
<1>6. RestInv
    BY <1>2, <1>3, <1>4, <1>5 DEF RestInv
<1>7. FollowInv
    BY <1>2 DEF FollowInv
<1>8. ToldInv
    BY <1>2 DEF Init, StreamingInit, ToldInv
<1>9. QED
    BY <1>6, <1>7, <1>8 DEF HeldInv

(* What hat_constants says of a hat is where it is. *)
LEMMA HatTable ==
    ASSUME NEW x \in {-1, 0, 1}, NEW y \in {-1, 0, 1}
    PROVE  hat_constants[y + 2][x + 2] = HatIs(<<x, y>>)
<1>1. CASE y = -1
    <2>1. hat_constants[y + 2] = << {"up", "left"}, {"up"}, {"up", "right"} >>
        BY <1>1 DEF hat_constants
    <2>2. QED
        BY <1>1, <2>1 DEF HatIs
<1>2. CASE y = 0
    <2>1. hat_constants[y + 2] = << {"left"}, {}, {"right"} >>
        BY <1>2 DEF hat_constants
    <2>2. QED
        BY <1>2, <2>1 DEF HatIs
<1>3. CASE y = 1
    <2>1. hat_constants[y + 2] = << {"left", "down"}, {"down"}, {"down", "right"} >>
        BY <1>3 DEF hat_constants
    <2>2. QED
        BY <1>3, <2>1 DEF HatIs
<1>4. QED
    BY <1>1, <1>2, <1>3

(* A hat that is let go of holds nothing down. *)
LEMMA HatOnlyDirections ==
    ASSUME NEW p
    PROVE  HatIs(p) \subseteq Directions /\ HatIs(<<0, 0>>) = {}
BY DEF HatIs, Directions

(* What a report of a gamepad does: its element is dev, but for the number, *)
(* and the host has it so, unless the stream is left.                      *)
Heard(i, dev) ==
    /\ DOMAIN devices' = DOMAIN devices
    /\ \A k \in DOMAIN devices : k # i => devices'[k] = devices[k]
    /\ devices'[i].node = dev.node /\ devices'[i].buttonFlags = dev.buttonFlags
    /\ devices'[i].leftStickX = dev.leftStickX
    /\ DOMAIN remote' = {"keys", "pads", "mask"} /\ DOMAIN remote'.pads = ControllerIds
    /\ \/ stage' = "stopping"
       \/ /\ stage' = stage
          /\ devices'[i].controllerId \in ControllerIds
          /\ remote'.pads[devices'[i].controllerId] =
                [buttons |-> dev.buttonFlags, stick |-> dev.leftStickX]
          /\ \A id \in ControllerIds :
                id # devices'[i].controllerId => remote'.pads[id] = remote.pads[id]

LEMMA PadTold ==
    ASSUME DOMAIN remote = {"keys", "pads", "mask"}, DOMAIN remote.pads = ControllerIds,
           NEW id \in ControllerIds, NEW mask, NEW buttons, NEW stick,
           SendPad(id, mask, buttons, stick)
    PROVE  /\ DOMAIN remote' = {"keys", "pads", "mask"} /\ DOMAIN remote'.pads = ControllerIds
           /\ remote'.pads[id] = [buttons |-> buttons, stick |-> stick]
           /\ \A k \in ControllerIds : k # id => remote'.pads[k] = remote.pads[k]
<1>1. PICK pad : pad = [buttons |-> buttons, stick |-> stick]
    OBVIOUS
<1>2. remote' = [remote EXCEPT !.mask = mask, !.pads[id] = pad]
    BY <1>1 DEF SendPad
<1>3. remote'.pads = [remote.pads EXCEPT ![id] = pad] /\ DOMAIN remote' = {"keys", "pads", "mask"}
    BY <1>2
<1>4. QED
    BY <1>1, <1>3

LEMMA PadHeard ==
    ASSUME DevicesInv, ToldInv, NEW i \in DOMAIN devices, NEW dev \in Device,
           HandlePad(i, dev)
    PROVE  Heard(i, dev)
<1>1. DOMAIN remote = {"keys", "pads", "mask"} /\ DOMAIN remote.pads = ControllerIds
    BY DEF ToldInv
<1>2. CASE /\ stage' = "stopping" /\ devices' = [devices EXCEPT ![i] = dev]
           /\ UNCHANGED remote
    BY <1>1, <1>2 DEF Heard
<1>3. CASE /\ devices' = [devices EXCEPT ![i] = [dev EXCEPT !.controllerId = AssignId(dev)]]
           /\ SendPad(AssignId(dev), assignedControllerIds', dev.buttonFlags, dev.leftStickX)
           /\ stage' = stage
    <2>1. PICK id \in ControllerIds : id = AssignId(dev)
        <3>1. dev.controllerId \in ControllerIds \union {-1}
            BY DEF Device
        <3>2. QED
            BY <3>1, AssignIdIs
    <2> DEFINE new == [dev EXCEPT !.controllerId = id]
    <2>2. /\ new.node = dev.node /\ new.buttonFlags = dev.buttonFlags
          /\ new.leftStickX = dev.leftStickX /\ new.controllerId = id
        BY DEF Device
    <2>3. devices' = [devices EXCEPT ![i] = new]
        BY <1>3, <2>1
    <2> HIDE DEF new
    <2>4. /\ DOMAIN devices' = DOMAIN devices /\ devices'[i] = new
          /\ \A k \in DOMAIN devices : k # i => devices'[k] = devices[k]
        BY <2>3
    <2>5. SendPad(id, assignedControllerIds', dev.buttonFlags, dev.leftStickX)
        BY <1>3, <2>1
    <2>6. /\ DOMAIN remote' = {"keys", "pads", "mask"} /\ DOMAIN remote'.pads = ControllerIds
          /\ remote'.pads[id] = [buttons |-> dev.buttonFlags, stick |-> dev.leftStickX]
          /\ \A k \in ControllerIds : k # id => remote'.pads[k] = remote.pads[k]
        BY <1>1, <2>5, PadTold
    <2>7. QED
        BY <1>3, <2>2, <2>4, <2>6 DEF Heard
<1>4. QED
    BY <1>2, <1>3 DEF HandlePad, Leave, Stays

LEMMA HeardKeepsTold ==
    ASSUME DevicesInv, DevicesInv', PadsInv', ToldInv, NEW i \in DOMAIN devices, NEW dev,
           Heard(i, dev), UNCHANGED crowded, stage = "loop"
    PROVE  ToldInv'
<1>1. DOMAIN remote' = {"keys", "pads", "mask"} /\ DOMAIN remote'.pads = ControllerIds
    BY DEF Heard
<1>2. CASE stage' = "stopping" \/ crowded
    BY <1>1, <1>2 DEF ToldInv, Live
<1>3. CASE stage' # "stopping" /\ ~crowded
    <2>1. \A k \in DOMAIN devices : PadIs(remote.pads, devices[k])
        BY <1>3 DEF ToldInv, Live
    <2>2. Distinct'
        BY <1>3 DEF PadsInv
    <2>3. PICK id \in ControllerIds : id = devices'[i].controllerId
        BY <1>3 DEF Heard
    <2>4. /\ remote'.pads[id] = [buttons |-> devices'[i].buttonFlags,
                                stick |-> devices'[i].leftStickX]
          /\ \A k \in ControllerIds : k # id => remote'.pads[k] = remote.pads[k]
        BY <1>3, <2>3 DEF Heard
    <2>5. id # -1
        BY StreamingAssumption DEF ControllerIds
    <2>6. ASSUME NEW k \in DOMAIN devices, k # i PROVE PadIs(remote'.pads, devices'[k])
        <3>1. devices'[k] = devices[k] /\ DOMAIN devices' = DOMAIN devices
            BY <2>6 DEF Heard
        <3>2. devices[k].controllerId # id
            BY <2>2, <2>3, <2>5, <2>6, <3>1 DEF Distinct
        <3>3. devices[k].controllerId \in ControllerIds \union {-1}
            BY ElementsAreDevices DEF Device
        <3>4. QED
            BY <2>1, <2>4, <3>1, <3>2, <3>3 DEF PadIs
    <2>7. PadIs(remote'.pads, devices'[i])
        BY <2>3, <2>4 DEF PadIs
    <2>8. \A k \in DOMAIN devices' : PadIs(remote.pads, devices[k])'
        BY <2>6, <2>7 DEF Heard, PadIs
    <2>9. QED
        BY <1>1, <2>8 DEF ToldInv
<1>4. QED
    BY <1>2, <1>3

LEMMA HeardKeepsFollow ==
    ASSUME DevicesInv, FollowInv, NEW i \in DOMAIN devices, NEW dev, Heard(i, dev),
           UNCHANGED <<machine, status, overrun>>, NEW n \in Nodes, n = devices[i].node,
           n = dev.node,
           \A m \in Nodes : m # n => /\ held'[m] = held[m] /\ hat'[m] = hat[m]
                                     /\ raw'[m] = raw[m],
           ~overrun /\ Follows(devices[i], n) =>
              /\ dev.buttonFlags = held'[n] \union HatIs(hat'[n])
              /\ machine[n].axis # None => StickIs(raw'[n], dev.leftStickX, machine[n].axis),
           status[n] = "open", machine[n].kind = "gamepad"
    PROVE  FollowInv'
<1>1. SUFFICES ASSUME ~overrun PROVE FollowInv'
    BY DEF FollowInv
<1>2. \A k \in DOMAIN devices, m \in Nodes :
          m = devices[k].node /\ status[m] = "open" /\ machine[m].kind = "gamepad" =>
              Follows(devices[k], m)
    BY <1>1 DEF FollowInv
<1>3. Follows(devices[i], n)
    BY <1>2
<1>4. Nodes' = Nodes
    BY DEF Nodes
<1>5. ASSUME NEW k \in DOMAIN devices', NEW m \in Nodes,
             m = devices'[k].node, status[m] = "open", machine[m].kind = "gamepad"
      PROVE  Follows(devices[k], m)'
    <2>1. CASE k = i
        <3>1. m = n /\ devices'[k].buttonFlags = dev.buttonFlags
              /\ devices'[k].leftStickX = dev.leftStickX
            BY <1>5, <2>1 DEF Heard
        <3>2. QED
            BY <1>1, <1>3, <3>1 DEF Follows
    <2>2. CASE k # i
        <3>1. k \in DOMAIN devices /\ devices'[k] = devices[k]
            BY <1>5, <2>2 DEF Heard
        <3>2. m # n
            BY <1>5, <2>2, <3>1 DEF DevicesInv, Plugged
        <3>3. Follows(devices[k], m)
            BY <1>2, <1>5, <3>1
        <3>4. held'[m] = held[m] /\ hat'[m] = hat[m] /\ raw'[m] = raw[m]
            BY <3>2
        <3>5. QED
            BY <3>1, <3>3, <3>4 DEF Follows
    <2>3. QED
        BY <2>1, <2>2
<1>6. QED
    BY <1>4, <1>5 DEF FollowInv

(* The elements have the gamepads as before. *)
SamePads ==
    /\ DOMAIN devices' = DOMAIN devices
    /\ \A k \in DOMAIN devices : /\ devices'[k].node = devices[k].node
                                /\ devices'[k].controllerId = devices[k].controllerId
                                /\ devices'[k].buttonFlags = devices[k].buttonFlags
                                /\ devices'[k].leftStickX = devices[k].leftStickX

(* Then the host still has them. *)
LEMMA SamePadsTold ==
    ASSUME ToldInv, SamePads, UNCHANGED crowded, Live' => Live,
           DOMAIN remote' = DOMAIN remote, remote'.pads = remote.pads
    PROVE  ToldInv'
<1>1. CASE crowded' \/ ~Live'
    BY <1>1 DEF ToldInv
<1>2. CASE ~crowded' /\ Live'
    <2>1. \A k \in DOMAIN devices : PadIs(remote.pads, devices[k])
        BY <1>2 DEF ToldInv
    <2>2. ASSUME NEW k \in DOMAIN devices PROVE PadIs(remote.pads, devices[k])'
        BY <2>1 DEF SamePads, PadIs
    <2>3. QED
        BY <2>2 DEF ToldInv, SamePads
<1>3. QED
    BY <1>1, <1>2

(* And they are still followed. *)
LEMMA SamePadsFollow ==
    ASSUME FollowInv, SamePads, UNCHANGED machine, overrun => overrun',
           \A n \in Nodes : status'[n] = "open" /\ machine[n].kind = "gamepad" =>
              /\ status[n] = "open" /\ held'[n] = held[n] /\ hat'[n] = hat[n]
              /\ raw'[n] = raw[n]
    PROVE  FollowInv'
<1>1. SUFFICES ASSUME ~overrun PROVE FollowInv'
    BY DEF FollowInv
<1>2. ASSUME NEW k \in DOMAIN devices', NEW n \in Nodes,
             n = devices'[k].node, status'[n] = "open", machine[n].kind = "gamepad"
      PROVE  Follows(devices[k], n)'
    <2>1. k \in DOMAIN devices /\ n = devices[k].node
        BY <1>2 DEF SamePads
    <2>2. Follows(devices[k], n)
        BY <1>1, <1>2, <2>1 DEF FollowInv
    <2>3. QED
        BY <1>2, <2>1, <2>2 DEF Follows, SamePads
<1>3. QED
    BY <1>2 DEF FollowInv, Nodes

(* None is moved. *)
LEMMA RestStays ==
    ASSUME RestInv, UNCHANGED <<machine, hat, raw>>,
           \A n \in Nodes : status'[n] \in {"out", "announced"} =>
                               status[n] \in {"out", "announced"},
           \A i \in DOMAIN devices' : stage' # "check" /\ platform' # "sdl"
    PROVE  RestInv'
<1>1. Nodes' = Nodes /\ \A n \in Nodes : AtRest(n)' = AtRest(n)
    BY DEF Nodes, AtRest
<1>2. QED
    BY <1>1 DEF RestInv

(* One gamepad is moved. *)
LEMMA RestMoves ==
    ASSUME DevicesInv, RestInv, NEW n \in Nodes, status[n] = "open",
           UNCHANGED <<machine, status, platform>>,
           hat' \in [Nodes -> HatPositions], raw' \in [Nodes -> Int],
           \A m \in Nodes : m # n => hat'[m] = hat[m] /\ raw'[m] = raw[m],
           machine[n].axis = None => hat'[n] = hat[n],
           DOMAIN devices' = DOMAIN devices, stage' # "check"
    PROVE  RestInv'
<1>1. Nodes' = Nodes
    BY DEF Nodes
<1>2. ASSUME NEW m \in Nodes, status[m] \in {"out", "announced"} PROVE AtRest(m)'
    <2>1. m # n
        BY <1>2
    <2>2. AtRest(m)
        BY <1>2 DEF RestInv
    <2>3. QED
        BY <2>1, <2>2 DEF AtRest
<1>3. \A m \in Nodes : machine[m].axis = None => hat'[m] = <<0, 0>>
    BY DEF RestInv
<1>4. QED
    BY <1>1, <1>2, <1>3 DEF RestInv

(* A key of a keyboard changes of its element only the modifiers. *)
LEMMA KeyOnlyModifiers ==
    ASSUME DevicesInv, NEW i \in DOMAIN devices, NEW key, NEW down, HandleKey(i, key, down)
    PROVE  SamePads
<1>1. CASE UNCHANGED devices
    BY <1>1 DEF SamePads
<1>2. CASE devices' = [devices EXCEPT ![i].modifiers = KeyModifiers(devices[i], key, down)]
    <2>1. PICK m : m = KeyModifiers(devices[i], key, down)
        OBVIOUS
    <2> DEFINE new == [devices[i] EXCEPT !.modifiers = m]
    <2>2. /\ new.node = devices[i].node /\ new.controllerId = devices[i].controllerId
          /\ new.buttonFlags = devices[i].buttonFlags
          /\ new.leftStickX = devices[i].leftStickX
        BY ElementsAreDevices DEF Device
    <2>3. devices' = [devices EXCEPT ![i] = new]
        BY <1>2, <2>1
    <2> HIDE DEF new
    <2>4. QED
        BY <2>2, <2>3 DEF SamePads
<1>3. QED
    BY <1>1, <1>2 DEF HandleKey

(* And of what the host has only the keys. *)
LEMMA KeyOnlyKeys ==
    ASSUME DOMAIN remote = {"keys", "pads", "mask"}, NEW key, NEW down, SendKey(key, down)
    PROVE  DOMAIN remote' = DOMAIN remote /\ remote'.pads = remote.pads
<1>1. PICK ks : remote' = [remote EXCEPT !.keys = ks]
    BY DEF SendKey
<1>2. QED
    BY <1>1

(* A key or a button that is pressed or let go of. *)
LEMMA ControlKeepsHeld ==
    ASSUME DevicesInv, DevicesInv', PadsInv', HeldInv, NEW i \in DOMAIN devices,
           NEW c \in machine[devices[i].node].controls, NEW down \in BOOLEAN,
           Control(i, c, down)
    PROVE  HeldInv'
<1>1. PICK n \in Nodes : n = devices[i].node
    BY ElementsAreDevices
<1>2. /\ stage = "loop" /\ status[n] = "open"
      /\ held' = [held EXCEPT ![n] = IF down THEN held[n] \union {c} ELSE held[n] \ {c}]
      /\ UNCHANGED <<machine, status, hat, raw, crowded, platform>>
    BY <1>1 DEF Control, reportUnchanged, InLoop
<1>3. /\ held'[n] = IF down THEN held[n] \union {c} ELSE held[n] \ {c}
      /\ \A m \in Nodes : m # n => held'[m] = held[m]
    BY <1>2 DEF DevicesInv, DeviceTypes
<1>4. RestInv /\ FollowInv /\ ToldInv
    BY DEF HeldInv
<1>5. ASSUME stage' # "check", DOMAIN devices' = DOMAIN devices PROVE RestInv'
    BY <1>2, <1>4, <1>5, RestStays DEF RestInv
<1>6. CASE Overrun(IF down THEN {} ELSE {<<n, c>>})
    <2>1. SamePads /\ overrun' = TRUE /\ UNCHANGED <<remote, stage>>
        BY <1>6 DEF Overrun, SamePads, Stays
    <2>2. ToldInv'
        BY <1>2, <1>4, <2>1, SamePadsTold DEF Live
    <2>3. FollowInv'
        BY <2>1 DEF FollowInv
    <2>4. QED
        BY <1>2, <1>5, <2>1, <2>2, <2>3 DEF HeldInv, SamePads
<1>7. CASE machine[n].kind = "keyboard" /\ HandleKey(i, c, down) /\ UNCHANGED overrun
    <2>1. SamePads /\ SendKey(c, down) /\ stage' \in {"loop", "stopping"}
        BY <1>2, <1>7, KeyOnlyModifiers DEF HandleKey, Leave, Stays
    <2>2. DOMAIN remote' = DOMAIN remote /\ remote'.pads = remote.pads
        BY <1>4, <2>1, KeyOnlyKeys DEF ToldInv
    <2>3. ToldInv'
        BY <1>2, <1>4, <2>1, <2>2, SamePadsTold DEF Live
    <2>4. \A m \in Nodes : machine[m].kind = "gamepad" => m # n
        BY <1>7
    <2>5. FollowInv'
        BY <1>2, <1>3, <1>4, <1>7, <2>1, <2>4, SamePadsFollow
    <2>6. QED
        BY <1>5, <2>1, <2>3, <2>5 DEF HeldInv, SamePads
<1>8. CASE /\ machine[n].kind # "keyboard" /\ UNCHANGED overrun
           /\ HandlePad(i, [devices[i] EXCEPT !.buttonFlags =
                               IF down THEN @ \union {c} ELSE @ \ {c}])
    <2>1. machine[n].kind = "gamepad" /\ c \in Flags /\ devices[i] \in Device
        BY <1>1, <1>8, KindsOfDevices, ElementsAreDevices
    <2>2. PICK flags : flags = IF down THEN devices[i].buttonFlags \union {c}
                                      ELSE devices[i].buttonFlags \ {c}
        OBVIOUS
    <2>3. flags \in SUBSET Flags
        BY <2>1, <2>2 DEF Device
    <2> DEFINE dev == [devices[i] EXCEPT !.buttonFlags = flags]
    <2>4. /\ dev \in Device /\ dev.node = devices[i].node /\ dev.buttonFlags = flags
          /\ dev.leftStickX = devices[i].leftStickX
        BY <2>1, <2>3 DEF Device
    <2>5. HandlePad(i, dev)
        BY <1>8, <2>2
    <2> HIDE DEF dev
    <2>6. Heard(i, dev)
        BY <1>4, <2>4, <2>5, PadHeard
    <2>7. ToldInv'
        BY <1>2, <1>4, <2>6, HeardKeepsTold
    <2>8. c \notin HatIs(hat[n])
        <3>1. CASE machine[n].axis = None
            <4>1. hat[n] = <<0, 0>>
                BY <1>4, <3>1 DEF RestInv
            <4>2. QED
                BY <4>1, HatOnlyDirections
        <3>2. CASE machine[n].axis # None
            BY <1>1, <3>2, AxisOf, HatOnlyDirections
        <3>3. QED
            BY <3>1, <3>2
    <2>9. ASSUME Follows(devices[i], n)
          PROVE  /\ dev.buttonFlags = held'[n] \union HatIs(hat'[n])
                 /\ machine[n].axis # None =>
                      StickIs(raw'[n], dev.leftStickX, machine[n].axis)
        <3>1. dev.buttonFlags = held'[n] \union HatIs(hat[n])
            BY <1>3, <2>2, <2>4, <2>8, <2>9 DEF Follows
        <3>2. QED
            BY <1>2, <2>4, <2>9, <3>1 DEF Follows
    <2>10. FollowInv'
        BY <1>1, <1>2, <1>3, <1>4, <1>8, <2>1, <2>4, <2>6, <2>9, HeardKeepsFollow
    <2>11. stage' # "check" /\ DOMAIN devices' = DOMAIN devices
        BY <1>2, <2>6 DEF Heard
    <2>12. QED
        BY <1>5, <2>7, <2>10, <2>11 DEF HeldInv
<1>9. QED
    BY <1>1, <1>6, <1>7, <1>8 DEF Control

(* A hat that is moved. *)
LEMMA HatKeepsHeld ==
    ASSUME DevicesInv, DevicesInv', PadsInv', HeldInv, NEW i \in DOMAIN devices,
           NEW x \in {-1, 0, 1}, NEW y \in {-1, 0, 1}, HatMoves(i, x, y)
    PROVE  HeldInv'
<1>1. PICK n \in Nodes : n = devices[i].node
    BY ElementsAreDevices
<1>2. /\ stage = "loop" /\ status[n] = "open" /\ machine[n].axis # None
      /\ hat' = [hat EXCEPT ![n] = <<x, y>>]
      /\ UNCHANGED <<machine, status, held, raw, crowded, platform, overrun>>
    BY <1>1 DEF HatMoves, reportUnchanged, InLoop
<1>3. RestInv /\ FollowInv /\ ToldInv
    BY DEF HeldInv
<1>4. /\ hat' \in [Nodes -> HatPositions] /\ hat'[n] = <<x, y>>
      /\ \A m \in Nodes : m # n => hat'[m] = hat[m]
    BY <1>2, <1>3 DEF RestInv, HatPositions
<1>5. /\ machine[n].kind = "gamepad" /\ devices[i] \in Device
      /\ machine[n].controls \intersect Directions = {}
    BY <1>1, <1>2, KindsOfDevices, ElementsAreDevices, AxisOf
<1>6. PICK h : h = HatIs(<<x, y>>)
    OBVIOUS
<1>7. PICK flags : flags = (devices[i].buttonFlags \ Directions) \union h
    OBVIOUS
<1>8. h \subseteq Directions
    BY <1>6, HatOnlyDirections
<1>9. flags = set_hat(devices[i].buttonFlags, x, y)
    BY <1>6, <1>7, HatTable DEF set_hat, Directions
<1>10. flags \in SUBSET Flags
    BY <1>5, <1>7, <1>8 DEF Device, Flags
<1> DEFINE dev == [devices[i] EXCEPT !.buttonFlags = flags]
<1>11. /\ dev \in Device /\ dev.node = devices[i].node /\ dev.buttonFlags = flags
       /\ dev.leftStickX = devices[i].leftStickX
    BY <1>5, <1>10 DEF Device
<1>12. HandlePad(i, dev)
    BY <1>9 DEF HatMoves
<1> HIDE DEF dev
<1>13. Heard(i, dev)
    BY <1>3, <1>11, <1>12, PadHeard
<1>14. ToldInv'
    BY <1>2, <1>3, <1>13, HeardKeepsTold
<1>15. ASSUME Follows(devices[i], n)
       PROVE  /\ dev.buttonFlags = held'[n] \union HatIs(hat'[n])
              /\ machine[n].axis # None =>
                   StickIs(raw'[n], dev.leftStickX, machine[n].axis)
    <2>1. held[n] \subseteq machine[n].controls
        BY DEF DevicesInv, Plugged
    <2>2. HatIs(hat[n]) \subseteq Directions
        BY HatOnlyDirections
    <2>3. devices[i].buttonFlags \ Directions = held[n]
        BY <1>5, <1>15, <2>1, <2>2 DEF Follows
    <2>4. dev.buttonFlags = held[n] \union h
        BY <1>7, <1>11, <2>3
    <2>5. QED
        BY <1>2, <1>4, <1>6, <1>11, <1>15, <2>4 DEF Follows
<1>16. FollowInv'
    BY <1>1, <1>2, <1>3, <1>4, <1>5, <1>11, <1>13, <1>15, HeardKeepsFollow
<1>17. stage' # "check" /\ DOMAIN devices' = DOMAIN devices
    BY <1>2, <1>13 DEF Heard
<1>18. raw' \in [Nodes -> Int]
    BY <1>2, <1>3 DEF RestInv
<1>19. RestInv'
    BY <1>2, <1>3, <1>4, <1>17, <1>18, RestMoves
<1>20. QED
    BY <1>14, <1>16, <1>19 DEF HeldInv

(* A stick that is moved. *)
LEMMA StickKeepsHeld ==
    ASSUME DevicesInv, DevicesInv', PadsInv', HeldInv, NEW i \in DOMAIN devices,
           NEW value \in Int, StickMoves(i, value)
    PROVE  HeldInv'
<1>1. PICK n \in Nodes : n = devices[i].node
    BY ElementsAreDevices
<1>2. /\ stage = "loop" /\ status[n] = "open" /\ machine[n].axis # None
      /\ raw' = [raw EXCEPT ![n] = value]
      /\ UNCHANGED <<machine, status, held, hat, crowded, platform, overrun>>
    BY <1>1 DEF StickMoves, reportUnchanged, InLoop
<1>3. RestInv /\ FollowInv /\ ToldInv
    BY DEF HeldInv
<1>4. /\ raw' \in [Nodes -> Int] /\ raw'[n] = value
      /\ \A m \in Nodes : m # n => raw'[m] = raw[m]
    BY <1>2, <1>3 DEF RestInv
<1>5. machine[n].kind = "gamepad" /\ devices[i] \in Device /\ Axis(machine[n].axis)
    BY <1>1, <1>2, KindsOfDevices, ElementsAreDevices, AxisOf
<1>6. PICK stick : stick = evdev_convert_value(value, machine[n].axis)
    OBVIOUS
<1>7. StickIs(value, stick, machine[n].axis)
    BY <1>5, <1>6, StickFollows
<1>8. stick \in Sticks
    BY <1>6 DEF Sticks
<1> DEFINE dev == [devices[i] EXCEPT !.leftStickX = stick]
<1>9. /\ dev \in Device /\ dev.node = devices[i].node /\ dev.leftStickX = stick
      /\ dev.buttonFlags = devices[i].buttonFlags
    BY <1>5, <1>8 DEF Device
<1>10. HandlePad(i, dev)
    BY <1>1, <1>6 DEF StickMoves
<1> HIDE DEF dev
<1>11. Heard(i, dev)
    BY <1>3, <1>9, <1>10, PadHeard
<1>12. ToldInv'
    BY <1>2, <1>3, <1>11, HeardKeepsTold
<1>13. ASSUME Follows(devices[i], n)
       PROVE  /\ dev.buttonFlags = held'[n] \union HatIs(hat'[n])
              /\ machine[n].axis # None =>
                   StickIs(raw'[n], dev.leftStickX, machine[n].axis)
    BY <1>2, <1>4, <1>7, <1>9, <1>13 DEF Follows
<1>14. FollowInv'
    BY <1>1, <1>2, <1>3, <1>4, <1>5, <1>9, <1>11, <1>13, HeardKeepsFollow
<1>15. stage' # "check" /\ DOMAIN devices' = DOMAIN devices
    BY <1>2, <1>11 DEF Heard
<1>16. hat' \in [Nodes -> HatPositions]
    BY <1>2, <1>3 DEF RestInv
<1>17. RestInv'
    BY <1>2, <1>3, <1>4, <1>15, <1>16, RestMoves
<1>18. QED
    BY <1>12, <1>14, <1>17 DEF HeldInv

(* A device that is opened has not been touched. *)
LEMMA CreateKeepsHeld ==
    ASSUME DevicesInv, HeldInv, NEW n \in Nodes, status[n] = "announced", evdev_create(n),
           UNCHANGED <<machine, held, hat, raw, platform, stage, remote, overrun>>,
           stage # "check", platform # "sdl"
    PROVE  HeldInv'
<1>1. RestInv /\ FollowInv /\ ToldInv
    BY DEF HeldInv
<1>2. status \in [Nodes -> {"out", "announced", "open", "pulled", "removed"}]
    BY DEF DevicesInv, DeviceTypes
<1>3. \A m \in Nodes : /\ m # n => status'[m] = status[m]
                       /\ status'[m] \in {"out", "announced"} =>
                            status[m] \in {"out", "announced"}
    BY <1>2 DEF evdev_create
<1>4. RestInv'
    BY <1>1, <1>3, RestStays
<1>5. CASE UNCHANGED <<devices, crowded>> /\ status' = [status EXCEPT ![n] = "removed"]
    <2>1. SamePads
        BY <1>5 DEF SamePads
    <2>2. ToldInv'
        BY <1>1, <1>5, <2>1, SamePadsTold DEF Live
    <2>3. \A m \in Nodes : status'[m] = "open" => status[m] = "open"
        BY <1>2, <1>5
    <2>4. FollowInv'
        BY <1>1, <2>1, <2>3, SamePadsFollow
    <2>5. QED
        BY <1>4, <2>2, <2>4 DEF HeldInv
<1>6. CASE /\ devices' = Append(devices, [NoDevice EXCEPT !.node = n])
           /\ crowded' = (crowded \/ Cardinality(Gamepads(devices')) > MAX_CONTROLLERS)
    <2> DEFINE new == [NoDevice EXCEPT !.node = n]
    <2>1. devices \in Seq(Device) /\ Len(devices) \in Nat /\ DOMAIN devices = 1..Len(devices)
        BY ElementsAreDevices DEF DevicesInv, DeviceTypes
    <2>2. /\ new \in Device /\ new.node = n /\ new.buttonFlags = {} /\ new.controllerId = -1
          /\ new.leftStickX = 0
        BY DEF NoDevice, Device, Flags, Sticks
    <2>3. /\ devices' \in Seq(Device) /\ Len(devices') = Len(devices) + 1
          /\ \A k \in 1..Len(devices) : devices'[k] = devices[k]
          /\ devices'[Len(devices) + 1] = new
        BY <1>6, <2>1, <2>2, AppendProperties
    <2> HIDE DEF new
    <2>4. DOMAIN devices' = 1..(Len(devices) + 1)
        BY <2>3, LenProperties
    <2>5. \A k \in DOMAIN devices' :
             \/ k \in DOMAIN devices /\ devices'[k] = devices[k]
             \/ devices'[k] = new
        BY <2>1, <2>3, <2>4
    <2>6. ToldInv'
        <3>1. CASE crowded' \/ ~Live
            BY <1>1, <3>1 DEF ToldInv, Live
        <3>2. CASE ~crowded' /\ Live
            <4>1. ~crowded
                BY <1>6, <3>2
            <4>2. \A k \in DOMAIN devices : PadIs(remote.pads, devices[k])
                BY <1>1, <3>2, <4>1 DEF ToldInv
            <4>3. PadIs(remote.pads, new)
                BY <2>2 DEF PadIs
            <4>4. ASSUME NEW k \in DOMAIN devices' PROVE PadIs(remote.pads, devices[k])'
                BY <2>5, <4>2, <4>3 DEF PadIs
            <4>5. QED
                BY <1>1, <4>4 DEF ToldInv
        <3>3. QED
            BY <3>1, <3>2
    <2>7. FollowInv'
        <3>1. SUFFICES ASSUME ~overrun PROVE FollowInv'
            BY <1>1 DEF FollowInv
        <3>2. held[n] = {} /\ AtRest(n)
            BY <1>1 DEF DevicesInv, Plugged, RestInv
        <3>3. Follows(new, n)
            BY <2>2, <3>2, HatOnlyDirections DEF Follows, AtRest
        <3>4. ASSUME NEW k \in DOMAIN devices', NEW m \in Nodes,
                     m = devices'[k].node, status'[m] = "open", machine[m].kind = "gamepad"
              PROVE  Follows(devices[k], m)'
            <4>1. CASE k \in DOMAIN devices /\ devices'[k] = devices[k]
                <5>1. m # n
                    BY <3>4, <4>1 DEF DevicesInv, Plugged
                <5>2. Follows(devices[k], m)
                    BY <1>1, <1>3, <3>1, <3>4, <4>1, <5>1 DEF FollowInv
                <5>3. QED
                    BY <4>1, <5>2 DEF Follows
            <4>2. CASE devices'[k] = new
                BY <2>2, <3>3, <3>4, <4>2 DEF Follows
            <4>3. QED
                BY <2>5, <4>1, <4>2
        <3>5. QED
            BY <3>4 DEF FollowInv, Nodes
    <2>8. QED
        BY <1>4, <2>6, <2>7 DEF HeldInv
<1>7. QED
    BY <1>5, <1>6 DEF evdev_create

(* evdev_remove takes one element and moves another to its place. *)
LEMMA RemoveKeepsHeld ==
    ASSUME DevicesInv, HeldInv, NEW i \in DOMAIN devices, evdev_remove(i)
    PROVE  HeldInv'
<1>1. RestInv /\ FollowInv /\ ToldInv
    BY DEF HeldInv
<1>2. /\ UNCHANGED <<machine, held, hat, raw, platform, stage, remote, overrun, crowded>>
      /\ status' = [status EXCEPT ![devices[i].node] = "removed"]
    BY DEF evdev_remove, streamingVars
<1>3. \A k \in DOMAIN devices' : \E l \in DOMAIN devices : devices'[k] = devices[l]
    BY RemovedFrom
<1>4. \A m \in Nodes : /\ status'[m] \in {"out", "announced"} => status[m] \in {"out", "announced"}
                       /\ status'[m] = "open" => status[m] = "open"
    BY <1>2 DEF DevicesInv, DeviceTypes
<1>5. RestInv'
    <2>1. \A k \in DOMAIN devices' : stage' # "check" /\ platform' # "sdl"
        BY <1>1, <1>2 DEF RestInv
    <2>2. QED
        BY <1>1, <1>2, <1>4, <2>1, RestStays
<1>6. ToldInv'
    <2>1. CASE crowded \/ ~Live
        BY <1>1, <1>2, <2>1 DEF ToldInv, Live
    <2>2. CASE ~crowded /\ Live
        <3>1. \A k \in DOMAIN devices : PadIs(remote.pads, devices[k])
            BY <1>1, <2>2 DEF ToldInv
        <3>2. ASSUME NEW k \in DOMAIN devices' PROVE PadIs(remote.pads, devices[k])'
            BY <1>2, <1>3, <3>1 DEF PadIs
        <3>3. QED
            BY <1>1, <1>2, <3>2 DEF ToldInv
    <2>3. QED
        BY <2>1, <2>2
<1>7. FollowInv'
    <2>1. SUFFICES ASSUME ~overrun PROVE FollowInv'
        BY <1>2 DEF FollowInv
    <2>2. ASSUME NEW k \in DOMAIN devices', NEW m \in Nodes,
                 m = devices'[k].node, status'[m] = "open", machine[m].kind = "gamepad"
          PROVE  Follows(devices[k], m)'
        <3>1. PICK l \in DOMAIN devices : devices'[k] = devices[l]
            BY <1>3
        <3>2. Follows(devices[l], m)
            BY <1>1, <1>4, <2>1, <2>2, <3>1 DEF FollowInv
        <3>3. QED
            BY <1>2, <3>1, <3>2 DEF Follows
    <2>3. QED
        BY <1>2, <2>2 DEF FollowInv, Nodes
<1>8. QED
    BY <1>5, <1>6, <1>7 DEF HeldInv

(* A step that moves no device and tells the host of none. *)
LEMMA NothingHeld ==
    ASSUME HeldInv, SamePads,
           UNCHANGED <<machine, status, held, hat, raw, overrun, crowded>>,
           Live' => Live, DOMAIN remote' = DOMAIN remote, remote'.pads = remote.pads,
           \A i \in DOMAIN devices : stage' # "check" /\ platform' # "sdl"
    PROVE  HeldInv'
<1>1. RestInv'
    BY RestStays DEF HeldInv, SamePads
<1>2. ToldInv'
    BY SamePadsTold DEF HeldInv
<1>3. FollowInv'
    BY SamePadsFollow DEF HeldInv
<1>4. QED
    BY <1>1, <1>2, <1>3 DEF HeldInv

(* A device is plugged in or pulled out. *)
LEMMA PlugKeepsHeld ==
    ASSUME DevicesInv, HeldInv, NEW n \in Nodes, Plug(n) \/ Pull(n)
    PROVE  HeldInv'
<1>1. /\ UNCHANGED <<machine, hat, raw, platform, stage, remote, overrun, crowded, devices>>
      /\ \/ status[n] = "out" /\ status' = [status EXCEPT ![n] = "announced"]
            /\ held' = held
         \/ status[n] = "open" /\ status' = [status EXCEPT ![n] = "pulled"]
            /\ held' = [held EXCEPT ![n] = {}]
    BY DEF Plug, Pull, streamingVars, historyVars
<1>2. /\ status \in [Nodes -> {"out", "announced", "open", "pulled", "removed"}]
      /\ held \in [Nodes -> SUBSET Flags]
    BY DEF DevicesInv, DeviceTypes
<1>3. \A m \in Nodes : /\ status'[m] \in {"out", "announced"} => status[m] \in {"out", "announced"}
                       /\ status'[m] = "open" => status[m] = "open" /\ held'[m] = held[m]
    BY <1>1, <1>2
<1>4. SamePads
    BY <1>1 DEF SamePads
<1>5. RestInv'
    BY <1>1, <1>3, RestStays DEF HeldInv, RestInv
<1>6. ToldInv'
    BY <1>1, <1>4, SamePadsTold DEF HeldInv, Live
<1>7. FollowInv'
    BY <1>1, <1>3, <1>4, SamePadsFollow DEF HeldInv
<1>8. QED
    BY <1>5, <1>6, <1>7 DEF HeldInv

(* Every step of evdev.c and udev.c. *)
LEMMA EvdevKeepsHeld ==
    ASSUME DevicesInv, DevicesInv', PadsInv', HeldInv, evdevNext
    PROVE  HeldInv'
<1>1. RestInv /\ ToldInv
    BY DEF HeldInv
<1>2. CASE AddInput
    <2>1. /\ stage = "inputs" /\ platform # "sdl" /\ stage' \in {"inputs", "start"}
          /\ UNCHANGED <<machine, held, hat, raw, platform, remote, overrun>>
        BY <1>2 DEF AddInput, IS_EMBEDDED
    <2>2. CASE \E n \in Nodes : status[n] = "announced"
        <3>1. PICK n \in Nodes : n = CHOOSE m \in Nodes : status[m] = "announced"
            BY <2>2
        <3>2. status[n] = "announced" /\ evdev_create(n) /\ UNCHANGED stage
            BY <1>2, <2>2, <3>1 DEF AddInput
        <3>3. QED
            BY <2>1, <3>2, CreateKeepsHeld
    <2>3. CASE ~\E n \in Nodes : status[n] = "announced"
        <3>1. UNCHANGED <<status, devices, crowded>>
            BY <1>2, <2>3 DEF AddInput
        <3>2. QED
            BY <2>1, <3>1, NothingHeld DEF SamePads, Live
    <2>4. QED
        BY <2>2, <2>3
<1>3. ASSUME NEW n \in Nodes, udev_handle(n) PROVE HeldInv'
    <2>1. /\ stage = "loop" /\ platform # "sdl" /\ status[n] = "announced" /\ evdev_create(n)
          /\ UNCHANGED <<machine, held, hat, raw, platform, stage, remote, overrun>>
        BY <1>3 DEF udev_handle, IS_EMBEDDED, streamingVars
    <2>2. QED
        BY <2>1, CreateKeepsHeld
<1>4. ASSUME NEW n \in Nodes, Plug(n) \/ Pull(n) PROVE HeldInv'
    BY <1>4, PlugKeepsHeld
<1>5. ASSUME NEW i \in DOMAIN devices, evdev_remove(i) PROVE HeldInv'
    BY <1>5, RemoveKeepsHeld
<1>6. ASSUME NEW i \in DOMAIN devices, NEW c \in machine[devices[i].node].controls,
             NEW down \in BOOLEAN, Control(i, c, down)
      PROVE  HeldInv'
    BY <1>6, ControlKeepsHeld
<1>7. ASSUME NEW i \in DOMAIN devices, NEW p \in HatPositions, HatMoves(i, p[1], p[2])
      PROVE  HeldInv'
    <2>1. p[1] \in {-1, 0, 1} /\ p[2] \in {-1, 0, 1}
        BY DEF HatPositions
    <2>2. QED
        BY <1>7, <2>1, HatKeepsHeld
<1>8. ASSUME NEW i \in DOMAIN devices,
             NEW value \in machine[devices[i].node].axis.min - 1 ..
                           machine[devices[i].node].axis.max + 1,
             StickMoves(i, value)
      PROVE  HeldInv'
    <2>1. value \in Int
        OBVIOUS
    <2>2. QED
        BY <1>8, <2>1, StickKeepsHeld
<1>9. CASE \/ \E id \in ControllerIds, on \in BOOLEAN : RumbleFind(id, on)
           \/ RumbleStop \/ RumblePlay
    <2>1. UNCHANGED rumbleUnchanged
        BY <1>9 DEF RumbleFind, RumbleStop, RumblePlay, rumbleUnchanged
    <2>2. UNCHANGED <<machine, status, held, hat, raw, platform, stage, remote, overrun, crowded>>
        BY <2>1 DEF rumbleUnchanged, streamingVars, physicalVars, historyVars
    <2>3. SamePads
        BY <1>9, RumbleOnlyHaptic DEF SameInput, SamePads
    <2>4. \A i \in DOMAIN devices : stage' # "check" /\ platform' # "sdl"
        BY <1>1, <2>2 DEF RestInv
    <2>5. QED
        BY <2>2, <2>3, <2>4, NothingHeld DEF Live
<1>10. CASE CecKeypress("ok")
    <2>1. PICK down \in BOOLEAN : down = ("ok" \in cecHeld')
        <3>1. ("ok" \in cecHeld') \in BOOLEAN
            OBVIOUS
        <3>2. QED
            BY <3>1, Zenon
    <2>2. /\ SendKey("ok", down)
          /\ UNCHANGED <<machine, status, held, hat, raw, platform, stage, overrun, crowded, devices>>
        BY <1>10, <2>1 DEF CecKeypress, physicalVars, historyVars, InLoop, Stays
    <2>3. DOMAIN remote' = DOMAIN remote /\ remote'.pads = remote.pads
        BY <1>1, <2>2, KeyOnlyKeys DEF ToldInv
    <2>4. \A i \in DOMAIN devices : stage' # "check" /\ platform' # "sdl"
        BY <1>1, <2>2 DEF RestInv
    <2>5. QED
        BY <2>2, <2>3, <2>4, NothingHeld DEF Live, SamePads
<1>11. QED
    BY <1>2, <1>3, <1>4, <1>5, <1>6, <1>7, <1>8, <1>9, <1>10 DEF evdevNext

(* The window tells the host of keys, and on SDL of gamepads; there no      *)
(* device of /dev/input is open.                                           *)
LEMMA WindowKeepsHeld ==
    ASSUME HeldInv, windowNext, UNCHANGED evdevVars
    PROVE  HeldInv'
<1>1. UNCHANGED <<machine, status, held, hat, raw, overrun, crowded, devices>>
    BY DEF evdevVars, physicalVars, historyVars
<1>2. RestInv /\ ToldInv
    BY DEF HeldInv
<1>3. SamePads
    BY <1>1 DEF SamePads
<1>4. ASSUME UNCHANGED remote \/ (\E key, down : SendKey(key, down)), UNCHANGED platform,
             stage' = stage \/ stage' = "stopping" \/ (stage = "inputs" /\ stage' = "start")
      PROVE  HeldInv'
    <2>1. DOMAIN remote' = DOMAIN remote /\ remote'.pads = remote.pads
        BY <1>2, <1>4, KeyOnlyKeys DEF ToldInv
    <2>2. \A i \in DOMAIN devices : stage' # "check" /\ platform' # "sdl"
        BY <1>2, <1>4 DEF RestInv
    <2>3. Live' => Live
        BY <1>4 DEF Live
    <2>4. QED
        BY <1>1, <1>3, <2>1, <2>2, <2>3, NothingHeld
<1>5. ASSUME NEW key, KeyEvent(key) \/ Repeat(key) PROVE HeldInv'
    <2>1. UNCHANGED platform
        BY <1>5 DEF KeyEvent, Repeat, InLoop
    <2>2. stage' = stage \/ stage' = "stopping"
        BY <1>5 DEF KeyEvent, Repeat, WindowEvent, MouseButton, X11Key, SdlKey, Leave, Stays
    <2>3. UNCHANGED remote \/ \E k, down : SendKey(k, down)
        <3>1. CASE \E down : WindowEvent(key, down)
            BY <3>1 DEF WindowEvent, MouseButton, SendButton, X11Key, SdlKey
        <3>2. CASE X11Key(key, FALSE)
            BY <3>2 DEF X11Key
        <3>3. QED
            BY <1>5, <3>1, <3>2 DEF KeyEvent, Repeat
    <2>4. QED
        BY <1>4, <2>1, <2>2, <2>3
<1>6. CASE OutOfFocus \/ WindowClosed
    BY <1>4, <1>6 DEF OutOfFocus, WindowClosed, InLoop, Leave, streamingVars
<1>7. CASE SdlInit
    BY <1>4, <1>7 DEF SdlInit
<1>8. ASSUME NEW j, NEW b, PadEvent(j, b) PROVE HeldInv'
    <2>1. platform = "sdl" /\ platform' = platform
        BY <1>8 DEF PadEvent, InLoop
    <2>2. DOMAIN devices = {}
        BY <1>2, <2>1 DEF RestInv
    <2>3. RestInv'
        BY <1>1, <1>2, <2>2, RestStays
    <2>4. FollowInv'
        BY <1>1, <2>2 DEF FollowInv
    <2>5. DOMAIN remote' = {"keys", "pads", "mask"} /\ DOMAIN remote'.pads = ControllerIds
        <3>1. UNCHANGED remote \/ \E id, mask, buttons, stick : SendPad(id, mask, buttons, stick)
            BY <1>8 DEF PadEvent
        <3>2. ASSUME NEW id, NEW mask, NEW buttons, NEW stick, SendPad(id, mask, buttons, stick)
              PROVE  /\ DOMAIN remote' = {"keys", "pads", "mask"}
                     /\ DOMAIN remote'.pads = ControllerIds
            <4>1. PICK pad : pad = [buttons |-> buttons, stick |-> stick]
                OBVIOUS
            <4>2. remote' = [remote EXCEPT !.mask = mask, !.pads[id] = pad]
                BY <3>2, <4>1 DEF SendPad
            <4>3. remote'.pads = [remote.pads EXCEPT ![id] = pad]
                  /\ DOMAIN remote' = {"keys", "pads", "mask"}
                BY <1>2, <4>2 DEF ToldInv
            <4>4. QED
                BY <1>2, <4>3 DEF ToldInv
        <3>3. QED
            BY <1>2, <3>1, <3>2 DEF ToldInv
    <2>6. ToldInv'
        BY <1>1, <2>2, <2>5 DEF ToldInv
    <2>7. QED
        BY <2>3, <2>4, <2>6 DEF HeldInv
<1>9. ASSUME NEW id, NEW on, SdlRumble(id, on) PROVE HeldInv'
    BY <1>4, <1>9 DEF SdlRumble, streamingVars
<1>10. QED
    BY <1>5, <1>6, <1>7, <1>8, <1>9 DEF windowNext

(* Every step of a stream. *)
LEMMA HeldInvStep ==
    DevicesInv /\ DevicesInv' /\ PadsInv' /\ HeldInv /\ [Next]_vars => HeldInv'
<1> SUFFICES ASSUME DevicesInv, DevicesInv', PadsInv', HeldInv, [Next]_vars PROVE HeldInv'
    OBVIOUS
<1>1. CASE mainNext \/ UNCHANGED vars
    <2>1. UNCHANGED <<machine, status, held, hat, raw, overrun, crowded, devices>>
        BY <1>1 DEF mainNext, vars, evdevVars, physicalVars, historyVars
    <2>2. SamePads
        BY <2>1 DEF SamePads
    <2>3. RestInv /\ ToldInv
        BY DEF HeldInv
    <2>4. UNCHANGED remote \/ \E mask : remote' = [remote EXCEPT !.mask = mask]
        BY <1>1 DEF mainNext, vars, streamingVars, PlatformCheck, Start, Connect,
                    Terminated, Signal, Stop, LoopSignal, OnSignal, Leave
    <2>5. DOMAIN remote' = DOMAIN remote /\ remote'.pads = remote.pads
        BY <2>3, <2>4 DEF ToldInv
    <2>6. Live' => Live
        BY <1>1 DEF mainNext, vars, streamingVars, PlatformCheck, Start, Connect,
                    Terminated, Signal, Stop, LoopSignal, OnSignal, Leave, Live
    <2>7. stage = "check" \/ (UNCHANGED platform /\ stage' # "check")
        BY <1>1 DEF mainNext, vars, streamingVars, PlatformCheck, Start, Connect,
                    Terminated, Signal, Stop, LoopSignal, OnSignal, Leave
    <2>8. \A i \in DOMAIN devices : stage' # "check" /\ platform' # "sdl"
        BY <2>3, <2>7 DEF RestInv
    <2>9. QED
        BY <2>1, <2>2, <2>5, <2>6, <2>8, NothingHeld
<1>2. CASE evdevNext
    BY <1>2, EvdevKeepsHeld
<1>3. CASE windowNext /\ UNCHANGED evdevVars
    BY <1>3, WindowKeepsHeld
<1>4. QED
    BY <1>1, <1>2, <1>3 DEF Next

(* What is kept shows the gamepads as they are held. *)
LEMMA PadsAreShown == DevicesInv /\ PadsInv /\ HeldInv => PadShownAsHeld
<1> SUFFICES ASSUME DevicesInv, PadsInv, HeldInv, ~crowded, ~overrun, stage = "loop",
                    NEW i \in DOMAIN devices, devices[i].controllerId >= 0,
                    status[devices[i].node] = "open"
             PROVE  LET d == devices[i]
                        seen == remote.pads[d.controllerId]
                    IN  /\ seen.buttons = held[d.node] \union HatIs(hat[d.node])
                        /\ machine[d.node].axis # None =>
                             StickIs(raw[d.node], seen.stick, machine[d.node].axis)
    BY DEF PadShownAsHeld
<1>1. PICK n \in Nodes : n = devices[i].node
    BY ElementsAreDevices
<1>2. devices[i].controllerId # -1
    OBVIOUS
<1>3. machine[n].kind = "gamepad"
    BY <1>1, <1>2 DEF PadsInv
<1>4. Follows(devices[i], n)
    BY <1>1, <1>3 DEF HeldInv, FollowInv
<1>5. PadIs(remote.pads, devices[i])
    BY DEF HeldInv, ToldInv, Live
<1>6. /\ remote.pads[devices[i].controllerId].buttons = devices[i].buttonFlags
      /\ remote.pads[devices[i].controllerId].stick = devices[i].leftStickX
    BY <1>2, <1>5 DEF PadIs
<1>7. QED
    BY <1>1, <1>4, <1>6 DEF Follows

(* What the host sees of a gamepad of /dev/input is how its user holds it: *)
(* the buttons and the hat exactly, the stick to the side that it is on    *)
(* and at its ends, unless a report of it was never read (SYN_DROPPED) or  *)
(* there have been more gamepads than numbers; for any machines and axes.  *)
THEOREM PadsAlwaysShown == Spec => []PadShownAsHeld
<1>1. Init => DevicesInv /\ PadsInv /\ HeldInv
    BY DevicesInvInit, PadsInvInit, HeldInvInit DEF Init
<1>2. DevicesInv /\ PadsInv /\ HeldInv /\ [Next]_vars => (DevicesInv /\ PadsInv /\ HeldInv)'
    BY DevicesInvStep, PadsInvStep, HeldInvStep
<1>3. DevicesInv /\ PadsInv /\ HeldInv => PadShownAsHeld
    BY PadsAreShown
<1>4. QED
    BY <1>1, <1>2, <1>3, PTL DEF Spec
=============================================================================
