CONSTANTS
    Built = {"pi", "x11", "sdl"}
    PlatformNames = {"auto", "x11", "sdl"}
    MAX_CONTROLLERS = 2
    ModifierOf <- MCModifierOf
    None = None
    QUIT_KEY = "Q"
    QUIT_BUTTONS = {"play", "back"}
    Machines <- MCMachines
    Privileged = {"pi"}
    WindowKeys = {"LShift", "Alt", "Ctrl", "Q", "F", "Left"}
    MouseButtons = {"Left"}
    FULLSCREEN_KEY = "F"
    PadButtons = {"play", "back"}
    MaxJoysticks = 3
SPECIFICATION FairSpec
CONSTRAINT Instance
INVARIANTS
    NoGhostKeys
    QuitAlwaysMeant
    NumbersApart
    PadShownAsHeld
    RumbleStoppable
CHECK_DEADLOCK FALSE
PROPERTIES
    TerminatedEnds
    SignalEnds
