----------------------------- MODULE Gamestream -----------------------------
(***************************************************************************)
(* moonlight-embedded from its start to its end, but for the stream        *)
(* itself: main.c on top of libgamestream (client.c, http.c, mkcert.c,     *)
(* discover.c).  The program is run again and again on one device.  What   *)
(* stays from run to run is the key directory and the saved configuration  *)
(* file; everything else is lost when the process ends, and the process    *)
(* may be killed at any step (moonlight_functions.py kills "list" after    *)
(* ten seconds and "pair" after three).                                    *)
(*                                                                         *)
(* Each HTTP request is one step: the host serves it or not, the answer    *)
(* comes back or not, and the code goes on from what http_request and      *)
(* xml.c make of it.  The host is not part of the repository.              *)
(***************************************************************************)
EXTENDS GamestreamXml, Configuration, FiniteSets

CONSTANTS
    CommandLines,   \* the command lines that users give, of config_parse
    ConfFiles,      \* the configuration files a device may have, by name
    HostConfs,      \* what hosts/<address>.conf may hold on a device
    Library,        \* the applications of the host: <<[id, title], ...>>
    Modes,          \* the display modes the host offers
    Versions,       \* the major versions of the host's software
    MaxRuns,        \* bound: so many runs of the program
    MaxMade         \* bound: so many ids and certificates are generated

ASSUME GamestreamAssumption ==
    /\ MaxRuns \in Nat /\ MaxMade \in Nat \ {0}
    /\ Versions \subseteq Nat
    /\ \A i \in DOMAIN Library : Library[i].id \in Int
    /\ Modes \in Seq([width : Int, height : Int, refresh : Int])
    /\ \A args \in CommandLines :
          Len(args) \in Nat /\ args = [i \in 1..Len(args) |-> args[i]]
    /\ \A disk \in ConfFiles : \A f \in DOMAIN disk :
          /\ Len(disk[f]) \in Nat
          /\ disk[f] = [i \in 1..Len(disk[f]) |-> disk[f][i]]

MIN_SUPPORTED_GFE_VERSION == 3
MAX_SUPPORTED_GFE_VERSION == 7

Absent == -1        \* a file that is not there
Empty == 0          \* a file that is open for writing, or was never closed

VARIABLES
    runs,           \* how often the program was started
    \* the device
    idFile,         \* uniqueid.dat: Absent, Empty, or which id it holds
    certFile,       \* client.pem
    keyFile,        \* key.pem
    made,           \* ids and certificates generated so far
    torn,           \* a run was killed while it wrote one of these files
    confFiles,      \* the configuration files by name, as sequences of lines
    hostConf,       \* hosts/<address>.conf, the same
    \* the process
    pc,
    config,         \* CONFIGURATION
    unique_id, cert, privateKey,
    server,         \* SERVER_DATA: paired, currentGame, serverMajorVersion,
                    \* unsupported, modes
    appId,
    ret,            \* what the last function returned
    peer,           \* gs_pair: what it has from the host
    \* history
    fate,           \* of the last request of this run, or "killed"
    lost,           \* a request of this run had no proper answer
    trustedAtStart, \* the host trusted this client when the run started
    shown,          \* the pairs [id, cert] the host ever saw
    \* the host
    host            \* version, trusted, game, pairing

files == <<idFile, certFile, keyFile, made, torn, confFiles, hostConf>>
process == <<config, unique_id, cert, privateKey, server, appId, ret, peer>>
vars == <<runs, files, pc, process, fate, lost, trustedAtStart, shown, host>>

NoPairing == [id |-> Absent, cert |-> Absent, pin |-> FALSE, proof |-> FALSE]
NoServer == [paired |-> FALSE, currentGame |-> 0, serverMajorVersion |-> 0,
             modes |-> <<>>]
NoPeer == [plaincert |-> FALSE, challenge |-> FALSE]
Games == {Library[i].id : i \in DOMAIN Library}

-----------------------------------------------------------------------------
(* The host.  A request is [of, id, cert, ...]; the host answers with its  *)
(* next state and a document.                                              *)

Client == [id |-> unique_id, cert |-> cert]
Trusts(h, c) == \E t \in h.trusted : t.cert = c

Paired(value) == Element("paired", value)
ServerInfo(h, secure) ==
    Document(STATUS_OK,
        Element("currentgame", h.game)
        \o Element("PairStatus", IF secure THEN 1 ELSE 0)
        \o Element("appversion", h.version)
        \o Element("state", IF h.game = 0 THEN "FREE" ELSE "_SERVER_BUSY")
        \o FlattenSeq([i \in DOMAIN Modes |->
             <<Open("DisplayMode")>> \o Element("Width", Modes[i].width)
             \o Element("Height", Modes[i].height)
             \o Element("RefreshRate", Modes[i].refresh)
             \o <<Close("DisplayMode")>>]))
AppList ==
    Document(STATUS_OK, FlattenSeq([i \in DOMAIN Library |->
        <<Open("App")>> \o Element("AppTitle", Library[i].title)
        \o Element("ID", Library[i].id) \o <<Close("App")>>]))

(* What the host makes of a request.  pin says whether its user typed the  *)
(* PIN of the client.                                                      *)
Serve(h, request, pin) ==
    CASE request.of = "serverinfo" ->
           [host |-> h, doc |-> ServerInfo(h, request.secure)]
      [] request.of = "getservercert" ->
           [host |-> [h EXCEPT !.pairing =
                [id |-> unique_id, cert |-> cert, pin |-> pin, proof |-> FALSE]],
            doc |-> Document(STATUS_OK,
                        Paired(1) \o Element("plaincert", "pem"))]
      [] request.of = "clientchallenge" ->
           [host |-> h,
            doc |-> Document(STATUS_OK,
                        Paired(1) \o Element("challengeresponse", "hex"))]
      [] request.of = "serverchallengeresp" ->
           [host |-> [h EXCEPT !.pairing.proof = request.proof],
            doc |-> Document(STATUS_OK,
                        Paired(1) \o Element("pairingsecret", "hex"))]
      [] request.of = "clientpairingsecret" ->
           LET good == h.pairing.pin /\ h.pairing.proof
           IN  [host |-> [h EXCEPT !.pairing = NoPairing,
                                   !.trusted = IF good THEN @ \union {Client} ELSE @],
                doc |-> Document(STATUS_OK, Paired(IF good THEN 1 ELSE 0))]
      [] request.of = "pairchallenge" ->
           [host |-> h, doc |-> Document(STATUS_OK, Paired(1))]
      [] request.of = "unpair" ->
           [host |-> [h EXCEPT !.trusted = {t \in @ : t.id # unique_id},
                               !.pairing = NoPairing],
            doc |-> Document(STATUS_OK, <<>>)]
      [] request.of = "applist" -> [host |-> h, doc |-> AppList]
      [] request.of = "launch" ->
           IF h.game = 0
           THEN [host |-> [h EXCEPT !.game = request.app],
                 doc |-> Document(STATUS_OK, Element("gamesession", 1))]
           ELSE [host |-> h, doc |-> Document(503, <<>>)]
      [] request.of = "resume" ->
           IF h.game # 0
           THEN [host |-> h, doc |-> Document(STATUS_OK, Element("gamesession", 1))]
           ELSE [host |-> h, doc |-> Document(503, <<>>)]
      [] request.of = "cancel" ->
           [host |-> [h EXCEPT !.game = 0],
            doc |-> Document(STATUS_OK, Element("cancel", 1))]

(* http_request: curl presents the certificate and its key when the URL is *)
(* an https one.  "unreached": the request is lost; "unanswered": the      *)
(* answer is; "garbled" and "partial": the answer is no XML, or has a      *)
(* status and nothing else.                                                *)
Fates == {"answered", "unreached", "unanswered", "garbled", "partial"}
Accepts(secure) == secure => privateKey = cert /\ Trusts(host, cert)

Reach(request, how, pin) ==
    IF how = "unreached" \/ ~Accepts(request.secure)
    THEN [host |-> host, ret |-> GS_FAILED, doc |-> NoDocument]
    ELSE LET s == Serve(host, request, pin)
         IN  [host |-> s.host,
              ret |-> IF how = "unanswered" THEN GS_FAILED ELSE GS_OK,
              doc |-> CASE how = "answered" -> s.doc
                        [] how = "partial" -> [s.doc EXCEPT !.events = <<>>]
                        [] OTHER -> Garbled]

(* The host sees who sends a request that reaches it. *)
Send(request, how, pin) ==
    /\ host' = Reach(request, how, pin).host
    /\ shown' = IF how # "unreached" THEN shown \union {Client} ELSE shown
    /\ fate' = how
    /\ lost' = (lost \/ how # "answered")

Init ==
    /\ runs = 0
    /\ idFile = Absent /\ certFile = Absent /\ keyFile = Absent
    /\ made = 0 /\ torn = FALSE
    /\ confFiles \in ConfFiles /\ hostConf \in HostConfs
    /\ pc = "off"
    /\ config = DefaultConfig
    /\ unique_id = Absent /\ cert = Absent /\ privateKey = Absent
    /\ server = NoServer /\ appId = Absent /\ ret = GS_OK /\ peer = NoPeer
    /\ fate = "answered" /\ lost = FALSE /\ trustedAtStart = FALSE /\ shown = {}
    /\ host \in [version: Versions, trusted: {{}}, game: {0}, pairing: {NoPairing}]

(* exit() or the end of main: the memory of the process is gone. *)
Exit ==
    /\ pc' = "off"
    /\ config' = DefaultConfig
    /\ unique_id' = Absent /\ cert' = Absent /\ privateKey' = Absent
    /\ server' = NoServer /\ appId' = Absent /\ peer' = NoPeer
    /\ trustedAtStart' = FALSE

-----------------------------------------------------------------------------
(* main 208-247: config_parse, the search for a host, hosts/<address>.conf *)

(* config_parse up to config_save, at its end. *)
Start ==
    /\ pc = "off" /\ runs < MaxRuns
    /\ runs' = runs + 1
    /\ \E args \in CommandLines :
         /\ config' = config_parse(args, confFiles)
         /\ ~config'.failed
    /\ confFiles' =
          IF config'.configFile = Unset THEN confFiles
          ELSE [f \in {config'.configFile} \union DOMAIN confFiles |->
                  IF f = config'.configFile THEN config_save(config') ELSE confFiles[f]]
    /\ pc' = "defaults"
    /\ fate' = "answered" /\ lost' = FALSE /\ ret' = GS_OK
    /\ UNCHANGED <<idFile, certFile, keyFile, made, torn, hostConf, unique_id,
                   cert, privateKey, server, appId, peer, trustedAtStart, shown,
                   host>>

(* The rest of config_parse.  Without an action, and after help and map,    *)
(* the program is at its end.                                               *)
Defaults ==
    /\ pc = "defaults"
    /\ \/ /\ config.action \in {Unset, "help", "map"}
          /\ Exit
       \/ /\ config.action \notin {Unset, "help", "map"}
          /\ config' = Resolve(config)
          /\ pc' = IF config.address = Unset THEN "discover" ELSE "hostconf"
          /\ UNCHANGED <<unique_id, cert, privateKey, server, appId, peer,
                         trustedAtStart>>
    /\ UNCHANGED <<runs, files, ret, fate, lost, shown, host>>

(* gs_discover_server: avahi_simple_poll_loop goes on until a resolver has  *)
(* an address, or the client or the browser fails.                          *)
Discover ==
    /\ pc = "discover"
    /\ \/ /\ pc' = "hostconf"
          /\ config' = [config EXCEPT !.address = "host"]
          /\ UNCHANGED <<unique_id, cert, privateKey, server, appId, peer,
                         trustedAtStart>>
       \/ Exit
    /\ UNCHANGED <<runs, files, ret, fate, lost, shown, host>>

HostConf ==
    /\ pc = "hostconf"
    /\ config' = config_file_parse(hostConf, config)
    /\ pc' = "id"
    /\ UNCHANGED <<runs, files, unique_id, cert, privateKey, server, appId, ret,
                   peer, fate, lost, trustedAtStart, shown, host>>

-----------------------------------------------------------------------------
(* gs_init: the identity of the device *)

initUnchanged == <<runs, confFiles, hostConf, config, server, appId, peer, fate,
                   lost, shown, host>>

(* load_unique_id, up to the fopen of a new file. *)
LoadUniqueId ==
    /\ pc = "id"
    /\ IF idFile = Absent
       THEN /\ made < MaxMade
            /\ made' = made + 1 /\ unique_id' = made + 1
            /\ idFile' = Empty
            /\ pc' = "idclose"
       ELSE /\ unique_id' = idFile
            /\ pc' = "cert"
            /\ UNCHANGED <<made, idFile>>
    /\ UNCHANGED <<initUnchanged, certFile, keyFile, torn, cert, privateKey, ret,
                   trustedAtStart>>

(* Faulty: the file is closed without the fwrite. *)
IdWritten_none == Empty
IdWritten == unique_id

(* The fclose that brings the id to the disk. *)
CloseIdFile ==
    /\ pc = "idclose"
    /\ idFile' = IdWritten
    /\ pc' = "cert"
    /\ UNCHANGED <<initUnchanged, certFile, keyFile, made, torn, unique_id, cert,
                   privateKey, ret, trustedAtStart>>

(* Faulty: the key is not written. *)
KeyWritten_none == Empty
KeyWritten == made

(* load_cert: a certificate is made when there is none.  mkcert_save opens  *)
(* the two files, then closes them in the same order.                       *)
LoadCert ==
    /\ pc = "cert"
    /\ IF certFile = Absent
       THEN /\ made < MaxMade
            /\ made' = made + 1
            /\ certFile' = Empty
            /\ pc' = "keyopen"
       ELSE pc' = "certread" /\ UNCHANGED <<made, certFile>>
    /\ UNCHANGED <<initUnchanged, idFile, keyFile, torn, unique_id, cert,
                   privateKey, ret, trustedAtStart>>

SaveCert ==
    /\ \/ pc = "keyopen" /\ pc' = "certclose" /\ keyFile' = Empty
                         /\ UNCHANGED certFile
       \/ pc = "certclose" /\ pc' = "keyclose" /\ certFile' = made
                           /\ UNCHANGED keyFile
       \/ pc = "keyclose" /\ pc' = "certread" /\ keyFile' = KeyWritten
                          /\ UNCHANGED certFile
    /\ UNCHANGED <<initUnchanged, idFile, made, torn, unique_id, cert, privateKey,
                   ret, trustedAtStart>>

(* PEM_read_X509 fails on a file without a certificate; a key file without  *)
(* a key leaves privateKey alone, and nobody looks.                         *)
ReadCert ==
    /\ pc = "certread"
    /\ IF certFile = Empty \/ keyFile = Absent
       THEN ret' = GS_FAILED /\ Exit
       ELSE /\ cert' = certFile
            /\ privateKey' = IF keyFile = Empty THEN privateKey ELSE keyFile
            /\ trustedAtStart' = Trusts(host, certFile)
            /\ pc' = "https"
            /\ UNCHANGED <<config, unique_id, server, appId, ret, peer>>
    /\ UNCHANGED <<runs, files, fate, lost, shown, host>>

(* load_server_status: what it makes of one answer. *)
Status(r) ==
    LET Field(name) == xml_search(r.doc, name).result
        game == Field("currentgame")
        paired == Field("PairStatus")
        version == Field("appversion")
        state == Field("state")
    IN  CASE r.ret # GS_OK -> [ret |-> GS_IO_ERROR, server |-> server]
          [] r.ret = GS_OK /\ xml_status(r.doc) = GS_ERROR ->
               [ret |-> GS_ERROR, server |-> server]
          [] r.ret = GS_OK /\ xml_status(r.doc) # GS_ERROR
             /\ (~r.doc.wellFormed \/ <<>> \in {game, paired, version, state}) ->
               [ret |-> GS_INVALID, server |-> server]
          [] OTHER ->
               [ret |-> GS_OK,
                server |-> [paired |-> paired = <<1>>,
                            currentGame |-> IF state = <<"_SERVER_BUSY">>
                                            THEN atoi(game) ELSE 0,
                            serverMajorVersion |-> atoi(version),
                            modes |-> xml_modelist(r.doc)]]

Supported(s) ==
    \/ config.unsupported
    \/ s.serverMajorVersion \in MIN_SUPPORTED_GFE_VERSION .. MAX_SUPPORTED_GFE_VERSION

Request(name, secure) ==
    [of |-> name, secure |-> secure, proof |-> FALSE, app |-> 0]

(* First over HTTPS; over HTTP when that fails in any way. *)
LoadServerStatus ==
    /\ pc \in {"https", "http"}
    /\ \E how \in Fates :
         LET request == Request("serverinfo", pc = "https")
             s == Status(Reach(request, how, FALSE))
         IN  /\ Send(request, how, FALSE)
             /\ IF s.ret # GS_OK /\ pc = "https"
                THEN /\ pc' = "http"
                     /\ UNCHANGED <<process, trustedAtStart>>
                ELSE IF s.ret # GS_OK
                THEN ret' = s.ret /\ Exit
                ELSE IF ~Supported(s.server)
                THEN ret' = GS_UNSUPPORTED_VERSION /\ Exit
                ELSE /\ server' = s.server
                     /\ pc' = "action"
                     /\ UNCHANGED <<config, unique_id, cert, privateKey, appId,
                                    ret, peer, trustedAtStart>>
    /\ UNCHANGED <<runs, files>>

-----------------------------------------------------------------------------
(* main 273-375: the action of the command line.  pair_check stands before  *)
(* list, stream and quit; gs_pair begins with two checks of its own.  A     *)
(* stream may also end before it begins when no platform is found.          *)

keep == <<config, unique_id, cert, privateKey, server, trustedAtStart>>
Go(next) == pc' = next /\ UNCHANGED <<keep, appId, peer>>

(* Faulty: gs_pair does not ask whether the client is paired already. *)
MayPair_again == server.currentGame = 0
MayPair == ~server.paired /\ server.currentGame = 0

FirstRequest ==
    CASE config.action = "list" /\ server.paired   -> "applist"
      [] config.action = "stream" /\ server.paired -> "applist"
      [] config.action = "quit" /\ server.paired   -> "quit"
      [] config.action = "pair" /\ MayPair           -> "getservercert"
      [] config.action = "unpair"                  -> "unpair"
      [] OTHER                                     -> "none"

Action ==
    /\ pc = "action"
    /\ \/ /\ FirstRequest # "none"
          /\ Go(FirstRequest)
          /\ UNCHANGED ret
       \/ /\ FirstRequest = "none" \/ config.action = "stream"
          /\ ret' = GS_WRONG_STATE
          /\ Exit
    /\ UNCHANGED <<runs, files, fate, lost, shown, host>>

(* gs_applist *)
Applist(r) ==
    CASE r.ret # GS_OK -> [ret |-> GS_IO_ERROR, list |-> <<>>]
      [] r.ret = GS_OK /\ xml_status(r.doc) = GS_ERROR ->
           [ret |-> GS_ERROR, list |-> <<>>]
      [] OTHER -> xml_applist(r.doc)

(* get_app_id: the first of the list that has the name. *)
get_app_id(list, name) ==
    LET i == SelectInSeq(list, LAMBDA app : app.name = name)
    IN  IF i = 0 THEN -1 ELSE list[i].id

GetApplist ==
    /\ pc = "applist"
    /\ \E how \in Fates :
         LET request == Request("applist", TRUE)
             a == Applist(Reach(request, how, FALSE))
             id == IF a.ret = GS_OK THEN get_app_id(a.list, config.app) ELSE -1
         IN  /\ Send(request, how, FALSE)
             /\ ret' = a.ret
             /\ IF config.action = "stream" /\ id >= 0
                THEN /\ appId' = id
                     /\ pc' = "launch"
                     /\ UNCHANGED <<keep, peer>>
                ELSE Exit
    /\ UNCHANGED <<runs, files>>

(* gs_start_app: the checks that need no request. *)
StartRefused ==
    CASE /\ ~config.unsupported
         /\ ~ \E i \in DOMAIN server.modes :
               server.modes[i] = [width |-> config.width, height |-> config.height,
                                  refresh |-> config.fps] -> GS_NOT_SUPPORTED_MODE
      [] OTHER -> GS_OK

(* What gs_start_app and gs_quit_app return: (ret = xml_status(..) != GS_OK) *)
(* is 1, not GS_ERROR, when the host refuses, and 1 is no error to stream(). *)
Answer(r, node) ==
    CASE r.ret # GS_OK -> r.ret
      [] r.ret = GS_OK /\ xml_status(r.doc) # GS_OK -> 1
      [] r.ret = GS_OK /\ xml_status(r.doc) = GS_OK
         /\ xml_search(r.doc, node).result = <<0>> -> GS_FAILED
      [] OTHER -> GS_OK

Launch ==
    /\ pc = "launch"
    /\ \/ /\ StartRefused # GS_OK
          /\ ret' = StartRefused
          /\ Exit
          /\ UNCHANGED <<host, shown, fate, lost>>
       \/ /\ StartRefused = GS_OK
          /\ \E how \in Fates :
               LET request == [Request(IF server.currentGame = 0
                                       THEN "launch" ELSE "resume", TRUE)
                                 EXCEPT !.app = appId]
                   r == Reach(request, how, FALSE)
               IN  /\ Send(request, how, FALSE)
                   /\ ret' = Answer(r, "gamesession")
                   /\ IF ret' < 0
                      THEN Exit
                      ELSE /\ server' = [server EXCEPT !.currentGame = appId]
                           /\ pc' = "streaming"
                           /\ UNCHANGED <<config, unique_id, cert, privateKey,
                                          appId, peer, trustedAtStart>>
    /\ UNCHANGED <<runs, files>>

(* The user ends the stream; with -quitappafter the application too. *)
StreamEnds ==
    /\ pc = "streaming"
    /\ IF config.quitappafter THEN Go("quit") ELSE Exit
    /\ UNCHANGED <<runs, files, ret, fate, lost, shown, host>>

(* gs_quit_app; what it returns is not looked at. *)
Quit ==
    /\ pc = "quit"
    /\ \E how \in Fates :
         LET request == Request("cancel", TRUE)
         IN  /\ Send(request, how, FALSE)
             /\ ret' = Answer(Reach(request, how, FALSE), "cancel")
    /\ Exit
    /\ UNCHANGED <<runs, files>>

-----------------------------------------------------------------------------
(* gs_pair: five requests, each after a good answer to the one before.      *)

PairRequests == <<"getservercert", "clientchallenge", "serverchallengeresp",
                  "clientpairingsecret", "pairchallenge">>

(* xml_status, then xml_search for "paired". *)
PairAnswer(r) ==
    CASE r.ret # GS_OK -> r.ret
      [] r.ret = GS_OK /\ xml_status(r.doc) # GS_OK -> 1
      [] r.ret = GS_OK /\ xml_status(r.doc) = GS_OK
         /\ xml_search(r.doc, "paired").result # <<1>> -> GS_FAILED
      [] OTHER -> GS_OK

Has(doc, node) == xml_search(doc, node).result # <<>>

(* Faulty: the answer to the last request is not looked at. *)
PairStep_lastIgnored(name, r) ==
    IF name = "pairchallenge" THEN GS_OK ELSE PairAnswer(r)

(* The answer to one request: GS_OK, or why the code goes to cleanup.       *)
(* verifySignature needs the certificate of the first answer and the secret *)
(* of the third, and sign_it a key to sign with.                            *)
PairStep(name, r) ==
    IF PairAnswer(r) = GS_OK /\ name = "serverchallengeresp"
       /\ ~(peer.plaincert /\ Has(r.doc, "pairingsecret") /\ privateKey > Empty)
    THEN GS_FAILED
    ELSE PairAnswer(r)

(* What an answer leaves out is not missed, but what is made of it later    *)
(* is wrong: without plaincert the signature is not verified, without       *)
(* challengeresponse the answer to the challenge is not the right one.      *)
Learn(name, r) ==
    CASE name = "getservercert" ->
           [peer EXCEPT !.plaincert = Has(r.doc, "plaincert")]
      [] name = "clientchallenge" ->
           [peer EXCEPT !.challenge = Has(r.doc, "challengeresponse")]
      [] OTHER -> peer

(* Faulty: only a failure of the first requests is taken back. *)
AfterPair_kept(i, result) ==
    IF result # GS_OK /\ i < 4 THEN "unpair"
    ELSE IF result = GS_OK /\ i < Len(PairRequests) THEN PairRequests[i + 1]
    ELSE "leave"

(* cleanup: a failed pairing is taken back. *)
AfterPair(i, result) ==
    IF result # GS_OK THEN "unpair"
    ELSE IF i < Len(PairRequests) THEN PairRequests[i + 1] ELSE "leave"

Pair ==
    \E i \in DOMAIN PairRequests :
      /\ pc = PairRequests[i]
      /\ \E how \in Fates, pin \in BOOLEAN :
           LET request == [Request(pc, pc = "pairchallenge")
                             EXCEPT !.proof = peer.challenge]
               r == Reach(request, how, pin)
               result == PairStep(pc, r)
           IN  /\ pin => pc = "getservercert"
               /\ Send(request, how, pin)
               /\ ret' = result
               /\ pc' = AfterPair(i, result)
               /\ peer' = Learn(pc, r)
               /\ server' = [server EXCEPT !.paired = (pc' = "leave" /\ result = GS_OK)]
      /\ UNCHANGED <<runs, files, config, unique_id, cert, privateKey, appId,
                     trustedAtStart>>

(* main 362-366: "Succesfully paired" when ret is GS_OK *)
PairDone ==
    /\ pc = "leave"
    /\ Exit
    /\ UNCHANGED <<runs, files, ret, fate, lost, shown, host>>

(* gs_unpair, from main or from the cleanup of gs_pair, which keeps its ret. *)
Unpair ==
    /\ pc = "unpair"
    /\ \E how \in Fates :
         LET request == Request("unpair", FALSE)
         IN  /\ Send(request, how, FALSE)
             /\ ret' = IF config.action = "pair" THEN ret
                       ELSE Reach(request, how, FALSE).ret
    /\ Exit
    /\ UNCHANGED <<runs, files>>

-----------------------------------------------------------------------------
(* The world around *)

(* The process is killed; a file that is open keeps what reached the disk. *)
Kill ==
    /\ pc # "off"
    /\ torn' = (torn \/ pc \in {"idclose", "keyopen", "certclose", "keyclose"})
    /\ fate' = "killed"
    /\ Exit
    /\ UNCHANGED <<runs, idFile, certFile, keyFile, made, confFiles, hostConf, ret,
                   lost, shown, host>>

(* The user of the host forgets the client, or starts or ends a game. *)
HostForgets ==
    /\ pc # "off"
    /\ host.trusted # {}
    /\ host' = [host EXCEPT !.trusted = {}]
    /\ trustedAtStart' = FALSE
    /\ UNCHANGED <<runs, files, pc, process, fate, lost, shown>>

HostPlays ==
    /\ pc # "off"
    /\ \E g \in Games \union {0} : g # host.game /\ host' = [host EXCEPT !.game = g]
    /\ UNCHANGED <<runs, files, pc, process, fate, lost, trustedAtStart, shown>>

Next ==
    \/ Start \/ Defaults \/ Discover \/ HostConf
    \/ LoadUniqueId \/ CloseIdFile \/ LoadCert \/ SaveCert \/ ReadCert
    \/ LoadServerStatus \/ Action
    \/ GetApplist \/ Launch \/ StreamEnds \/ Quit
    \/ Pair \/ PairDone \/ Unpair
    \/ Kill \/ HostForgets \/ HostPlays

Spec == Init /\ [][Next]_vars

-----------------------------------------------------------------------------
(* Properties                                                               *)

Numbers == {Absent, Empty} \union 1..MaxMade

TypeOK ==
    /\ runs \in 0..MaxRuns
    /\ {idFile, certFile, keyFile, unique_id, cert, privateKey} \subseteq Numbers
    /\ made \in 0..MaxMade
    /\ torn \in BOOLEAN /\ lost \in BOOLEAN /\ trustedAtStart \in BOOLEAN
    /\ fate \in Fates \union {"killed"}
    /\ pc \in {"off", "discover", "hostconf", "id", "idclose", "cert", "keyopen",
               "certclose", "keyclose", "certread", "https", "http", "action",
               "applist", "launch", "streaming", "quit", "leave", "unpair"}
              \union ToSet(PairRequests)
    /\ server.paired \in BOOLEAN
    /\ server.currentGame \in Games \union {0}
    /\ host.trusted \subseteq [id: Numbers, cert: Numbers]
    /\ host.game \in Games \union {0}
    /\ appId \in Games \union {Absent}

(* The host knows a client by its id and its certificate.  Whenever the     *)
(* program is killed and started again, the host sees one client only       *)
(* (load_unique_id, load_cert, mkcert_save).                                *)
SameClient == Cardinality(shown) <= 1

(* A program that was never killed while it wrote its files has, in every   *)
(* later run, a certificate and the key to it (load_cert does not look      *)
(* whether the key could be read).                                          *)
KeysUsable ==
    [][/\ pc = "certread" /\ pc' # pc /\ fate' # "killed" /\ ~torn
       => pc' = "https" /\ cert' > Empty /\ privateKey' = cert']_vars

(* "Succesfully paired" is true when it is said: the host, whose user may   *)
(* take the trust back at any time, trusted the client when it answered the *)
(* last request of gs_pair.                                                 *)
PairedAgree ==
    [][pc # "leave" /\ pc' = "leave" /\ ret' = GS_OK => Trusts(host', cert)]_vars

(* A gs_pair that fails, at whatever request and for whatever reason, does  *)
(* not leave a host that trusts the client, unless the program was killed   *)
(* or its last request did not get there.                                   *)
FailedPairUndone ==
    [][/\ pc \in {"unpair", "leave"} /\ pc' = "off" /\ ret' # GS_OK
       /\ fate' \notin {"killed", "unreached"}
       => ~Trusts(host', cert)]_vars

(* "pair" on a host that trusts the client already does no harm: as long as *)
(* every request is answered the client is still trusted at the end.        *)
PairKeepsPairing ==
    [][/\ trustedAtStart /\ config.action = "pair" /\ ~lost'
       /\ pc # "off" /\ pc' = "off"
       => Trusts(host', cert)]_vars

(* A configuration that -save has written and that is loaded again, with    *)
(* -config or as the only argument, and after whatever moonlight.conf says  *)
(* by then.  An option with another value than config_save takes for its    *)
(* default comes back, for one with that value the run has what             *)
(* moonlight.conf or the real default gives (config.c:284: 60 frames per    *)
(* second, where that is -1 and becomes 30 at 1080 lines).  So the run has  *)
(* the values of the run that saved, unless one that was left out of the    *)
(* file is another value there.                                             *)
LeftOut == [width |-> 1280, height |-> 720, fps |-> 60, bitrate |-> -1,
            packetSize |-> 1024, sops |-> TRUE, localaudio |-> FALSE,
            quitappafter |-> FALSE, viewonly |-> FALSE, app |-> "Steam"]
SaveRestores ==
    pc = "defaults" /\ config.configFile # Unset =>
    LET base == Configured(confFiles)
        again == config_file_parse(confFiles[config.configFile], base)
        Kept(o) == config[o] # LeftOut[o] \/ base[o] = LeftOut[o]
    IN  /\ \A o \in DOMAIN LeftOut :
             again[o] = IF config[o] # LeftOut[o] THEN config[o] ELSE base[o]
        /\ /\ \A o \in DOMAIN LeftOut \ {"fps"} : Kept(o)
           /\ Kept("fps") \/ (base.fps = -1 /\ ~(config.height >= 1080))
           => \A o \in DOMAIN LeftOut : Resolve(again)[o] = Resolve(config)[o]

(* main.c:103-113: a start that the host refuses ends the program with      *)
(* "Gamestream error".                                                      *)
RefusedNotStreamed ==
    [][pc = "launch" /\ pc' = "streaming" => host'.game # 0]_vars
=============================================================================
