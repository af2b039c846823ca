---------------------------- MODULE MCGamestream ----------------------------
(***************************************************************************)
(* Values for checking Gamestream with TLC.                                *)
(***************************************************************************)
EXTENDS Gamestream

Word(value) == Line("word", value)
On(flag) == Line(flag, "true")
To(action) == <<Word(action), Word("host")>>

(* One line for each action, and the options that change what it does: a    *)
(* mode the host does not offer, a search for the host, an application to   *)
(* quit, a configuration that is saved and loaded, also as moonlight.conf.  *)
MCCommandLines ==
    {To("pair"), To("unpair"), To("list"), To("quit"), <<Word("saved")>>,
     <<On("1080"), Line("fps", 60), On("quitappafter")>> \o To("stream"),
     <<On("4k"), On("unsupported"), Word("stream")>>,
     <<On("4k")>> \o To("stream"),
     <<On("1080"), On("nosops"), Line("app", "Other"), Line("save", "saved")>>
        \o To("list"),
     <<On("720"), Line("fps", 60), Line("app", "Steam"), Line("save", "saved")>>,
     <<Line("config", "saved"), Line("save", "moonlight.conf"), Line("bitrate", 9000)>>
        \o To("stream")}

(* A device with no file, and one with a moonlight.conf that has values     *)
(* config_save takes for defaults, and others.                              *)
MCConfFiles ==
    {[f \in {} |-> <<>>],
     [f \in {"moonlight.conf"} |->
        <<Line("width", 1920), Line("sops", "false"), Line("fps", 30),
          Line("app", "Other")>>]}
MCHostConfs == {<<>>, <<Line("height", 720), Line("width", 1280), Line("fps", 60)>>}
MCLibrary == <<[id |-> 1, title |-> "Steam"], [id |-> 2, title |-> "Other"]>>
MCModes == <<[width |-> 1280, height |-> 720, refresh |-> 60],
             [width |-> 1920, height |-> 1080, refresh |-> 60]>>
=============================================================================
