--------------------------- MODULE Configuration ---------------------------
(***************************************************************************)
(* config.c: the configuration of one run of the program, from its         *)
(* defaults, its configuration files and its command line, and the file    *)
(* that -save writes.                                                      *)
(*                                                                         *)
(* An argument and a line of a file are both records [key, value]: the     *)
(* long option and its value.  An option without a value has "true" or     *)
(* "false" in a file, and "true" on the command line.                      *)
(***************************************************************************)
EXTENDS Integers, Sequences, SequencesExt

CONSTANT MAX_INPUTS     (* config.h: the most -input options *)

ASSUME InputsAssumption == MAX_INPUTS \in Nat

Unset == "null"

(* config_parse 306-334: what holds before any file or argument is read.   *)
(* failed stands for the exit(-1) of a refused option.                     *)
DefaultConfig ==
    [width |-> 1280, height |-> 720, fps |-> -1, bitrate |-> -1,
     packetSize |-> 1024, remote |-> FALSE, surround |-> FALSE,
     debug |-> 0, platform |-> "auto", app |-> "Steam",
     action |-> Unset, address |-> Unset, configFile |-> Unset,
     audio |-> Unset, mapping |-> Unset, keyDir |-> Unset,
     sops |-> TRUE, localaudio |-> FALSE, fullscreen |-> TRUE,
     unsupported |-> FALSE, quitappafter |-> FALSE, viewonly |-> FALSE,
     codec |-> "auto", inputs |-> 0, failed |-> FALSE]

(* long_options: the options that take a value, and those that take none. *)
Required == {"width", "height", "bitrate", "packetsize", "app", "input",
             "mapping", "audio", "config", "platform", "save", "keydir",
             "fps", "codec"}
Flags == {"720", "1080", "4k", "nosops", "localaudio", "remote", "windowed",
          "surround", "unsupported", "quitappafter", "viewonly", "verbose",
          "debug"}

Resolution(c, w, h) == [c EXCEPT !.width = w, !.height = h]

(* parse_argument, but for -config: see Argument below. *)
parse_argument(c, key, value) ==
    CASE key = "720"          -> Resolution(c, 1280, 720)
      [] key = "1080"         -> Resolution(c, 1920, 1080)
      [] key = "4k"           -> Resolution(c, 3840, 2160)
      [] key = "width"        -> [c EXCEPT !.width = value]
      [] key = "height"       -> [c EXCEPT !.height = value]
      [] key = "bitrate"      -> [c EXCEPT !.bitrate = value]
      [] key = "packetsize"   -> [c EXCEPT !.packetSize = value]
      [] key = "app"          -> [c EXCEPT !.app = value]
      [] key = "input"        -> IF c.inputs >= MAX_INPUTS
                                 THEN [c EXCEPT !.failed = TRUE]
                                 ELSE [c EXCEPT !.inputs = @ + 1]
      [] key = "mapping"      -> [c EXCEPT !.mapping = value]
      [] key = "nosops"       -> [c EXCEPT !.sops = FALSE]
      [] key = "audio"        -> [c EXCEPT !.audio = value]
      [] key = "localaudio"   -> [c EXCEPT !.localaudio = TRUE]
      [] key = "platform"     -> [c EXCEPT !.platform = value]
      [] key = "save"         -> [c EXCEPT !.configFile = value]
      [] key = "keydir"       -> [c EXCEPT !.keyDir = value]
      [] key = "remote"       -> [c EXCEPT !.remote = TRUE]
      [] key = "windowed"     -> [c EXCEPT !.fullscreen = FALSE]
      [] key = "surround"     -> [c EXCEPT !.surround = TRUE]
      [] key = "fps"          -> [c EXCEPT !.fps = value]
      [] key = "codec"        -> IF value \in {"auto", "h264", "hevc"}
                                 THEN [c EXCEPT !.codec = value]
                                 ELSE c
      [] key = "unsupported"  -> [c EXCEPT !.unsupported = TRUE]
      [] key = "quitappafter" -> [c EXCEPT !.quitappafter = TRUE]
      [] key = "viewonly"     -> [c EXCEPT !.viewonly = TRUE]
      [] key = "verbose"      -> [c EXCEPT !.debug = 1]
      [] key = "debug"        -> [c EXCEPT !.debug = 2]
      [] key = "word" /\ c.action = Unset -> [c EXCEPT !.action = value]
      [] key = "word" /\ c.action # Unset /\ c.address = Unset ->
                                 [c EXCEPT !.address = value]
      [] key = "word" /\ c.action # Unset /\ c.address # Unset ->
                                 [c EXCEPT !.failed = TRUE]
      [] OTHER                -> c

(* Faulty: a file knows -nosops, but not "sops". *)
ParseLine_noSops(c, line) ==
    CASE line.key = "address" -> [c EXCEPT !.address = line.value]
      [] line.key \in Required -> parse_argument(c, line.key, line.value)
      [] line.key \in Flags /\ line.value = "true" ->
                                 parse_argument(c, line.key, line.value)
      [] OTHER -> c

(* One line of a configuration file; a key nobody knows is passed over. *)
ParseLine(c, line) ==
    CASE line.key = "address" -> [c EXCEPT !.address = line.value]
      [] line.key = "sops"    -> [c EXCEPT !.sops = (line.value = "true")]
      [] line.key \in Required -> parse_argument(c, line.key, line.value)
      [] line.key \in Flags /\ line.value = "true" ->
                                 parse_argument(c, line.key, line.value)
      [] OTHER -> c

config_file_parse(file, c) == FoldLeft(ParseLine, c, file)

(* config_save: only what differs from the built-in default is written. *)
Line(key, value) == [key |-> key, value |-> value]
When(cond, key, value) == IF cond THEN <<Line(key, value)>> ELSE <<>>
config_save(c) ==
       When(c.width # 1280, "width", c.width)
    \o When(c.height # 720, "height", c.height)
    \o When(c.fps # 60, "fps", c.fps)
    \o When(c.bitrate # -1, "bitrate", c.bitrate)
    \o When(c.packetSize # 1024, "packetsize", c.packetSize)
    \o When(~c.sops, "sops", "false")
    \o When(c.localaudio, "localaudio", "true")
    \o When(c.quitappafter, "quitappafter", "true")
    \o When(c.viewonly, "viewonly", "true")
    \o When(c.app # "Steam", "app", c.app)

(* config_parse 367-377: the values that are left to the program. *)
Resolve(c) ==
    LET fps == IF c.fps # -1 THEN c.fps ELSE IF c.height >= 1080 THEN 30 ELSE 60
        bitrate == CASE c.bitrate # -1 -> c.bitrate
                     [] c.bitrate = -1 /\ c.height >= 1080 /\ fps >= 60 -> 20000
                     [] c.bitrate = -1 /\ (c.height >= 1080 \/ fps >= 60)
                                       /\ ~(c.height >= 1080 /\ fps >= 60) -> 10000
                     [] OTHER -> 5000
    IN  [c EXCEPT !.fps = fps, !.bitrate = bitrate]

(* One argument of the command line.  files is what the file names stand   *)
(* for; a -config that names a file that is not there ends the program.    *)
(* A file that names another one with "config" is not followed here.       *)
Argument(files, c, arg) ==
    CASE arg.key # "config" -> parse_argument(c, arg.key, arg.value)
      [] arg.key = "config" /\ arg.value \in DOMAIN files ->
           config_file_parse(files[arg.value], c)
      [] OTHER -> [c EXCEPT !.failed = TRUE]

Arguments(files, c, args) ==
    FoldLeft(LAMBDA d, arg : Argument(files, d, arg), c, args)

(* config_parse 336-338: what moonlight.conf makes of the defaults.  That   *)
(* get_path finds none is the same as that it finds an empty one.           *)
Configured(files) ==
    IF "moonlight.conf" \in DOMAIN files
    THEN config_file_parse(files["moonlight.conf"], DefaultConfig)
    ELSE DefaultConfig

(* The only argument is the name of a file that is there. *)
OnlyFile(args, files) ==
    Len(args) = 1 /\ args[1].key = "word" /\ args[1].value \in DOMAIN files

(* config_parse, up to config_save: the configuration before the last       *)
(* defaults are filled in.                                                  *)
config_parse(args, files) ==
    IF OnlyFile(args, files)
    THEN config_file_parse(files[args[1].value],
                           [Configured(files) EXCEPT !.action = "stream"])
    ELSE Arguments(files, Configured(files), args)
=============================================================================
