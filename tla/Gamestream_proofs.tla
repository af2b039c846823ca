------------------------- MODULE Gamestream_proofs -------------------------
(***************************************************************************)
(* Proofs about moonlight and the files of its device, for any command     *)
(* lines, hosts and number of runs: whom the host sees, whom it trusts,    *)
(* and what is saved.  The operators that go through a sequence, of a      *)
(* document or of a file, are reasoned about by induction over its length. *)
(***************************************************************************)
EXTENDS Gamestream, FiniteSetTheorems, SequenceTheorems, WellFoundedInduction,
        NaturalsInduction, TLAPS

(* The steps before the first request. *)
Offline == {"off", "defaults", "discover", "hostconf", "id", "idclose", "cert", "keyopen",
            "certclose", "keyclose", "certread"}
Making == pc \in {"keyopen", "certclose", "keyclose"}

(* The files are written once, the certificate before its key. *)
FilesInv ==
    /\ made \in Nat
    /\ {idFile, certFile, keyFile} \subseteq Nat \union {Absent}
    /\ keyFile > Empty => keyFile = certFile
    /\ certFile = Absent => keyFile = Absent
    /\ Making => made > 0 /\ keyFile <= Empty
    /\ pc \in {"keyopen", "certclose"} => certFile = Empty
    /\ pc = "keyclose" => certFile = made
    /\ pc = "certread" => certFile # Absent
    /\ ~torn /\ ~Making => certFile = Absent \/ (certFile > Empty /\ keyFile = certFile)

(* What the process has read of them. *)
ProcessInv ==
    /\ pc \notin {"off", "defaults", "discover", "hostconf", "id", "idclose"} =>
          unique_id = idFile /\ idFile # Absent
    /\ pc = "idclose" => unique_id \in Nat
    /\ pc \notin Offline => cert = certFile /\ certFile > Empty
    /\ pc \in Offline => privateKey = Absent
    /\ privateKey # Absent => privateKey = keyFile /\ keyFile > Empty
    /\ pc \in {"clientpairingsecret", "pairchallenge"} => privateKey # Absent

(* The host has seen nobody but who the files are of, and nobody as long   *)
(* as they are not complete; it trusts nobody it has not seen.             *)
HostInv ==
    /\ DOMAIN host = {"version", "trusted", "game", "pairing"}
    /\ shown \subseteq {[id |-> idFile, cert |-> certFile]}
    /\ shown # {} => idFile # Absent /\ certFile > Empty
    /\ pc = "idclose" \/ Making => shown = {}
    /\ host.trusted \subseteq shown
    /\ host.trusted # {} => keyFile > Empty
    /\ pc = "leave" => ret = GS_OK

GamestreamInv == FilesInv /\ ProcessInv /\ HostInv
-----------------------------------------------------------------------------
(* Requests *)

RequestNames == {"serverinfo", "getservercert", "clientchallenge",
                 "serverchallengeresp", "clientpairingsecret", "pairchallenge",
                 "unpair", "applist", "launch", "resume", "cancel"}
HostParts == {"version", "trusted", "game", "pairing"}

(* The host comes to trust the client that asks, and only after the fourth  *)
(* request of a pairing.                                                    *)
LEMMA ServeTrusts ==
    ASSUME NEW h, DOMAIN h = HostParts,
           NEW request, request.of \in RequestNames, NEW pin
    PROVE  /\ DOMAIN Serve(h, request, pin).host = HostParts
           /\ Serve(h, request, pin).host.trusted \subseteq h.trusted \union {Client}
           /\ request.of # "clientpairingsecret" =>
                 Serve(h, request, pin).host.trusted \subseteq h.trusted
<1> DEFINE s == Serve(h, request, pin).host
<1>1. CASE request.of \in {"serverinfo", "clientchallenge", "pairchallenge",
                          "applist"}
    <2>1. s = h
        BY <1>1 DEF Serve
    <2>2. QED
        BY <2>1
<1>2. CASE request.of = "getservercert"
    <2>1. \E p : s = [h EXCEPT !.pairing = p]
        BY <1>2 DEF Serve
    <2>2. QED
        BY <2>1 DEF HostParts
<1>3. CASE request.of = "serverchallengeresp"
    <2>1. \E p : s = [h EXCEPT !.pairing = p]
        BY <1>3 DEF Serve
    <2>2. QED
        BY <2>1 DEF HostParts
<1>4. CASE request.of = "clientpairingsecret"
    <2>1. \E good \in BOOLEAN :
             s = [h EXCEPT !.pairing = NoPairing,
                           !.trusted = IF good THEN @ \union {Client} ELSE @]
        <3>1. PICK good \in BOOLEAN : good = (h.pairing.pin /\ h.pairing.proof)
            <4>1. (h.pairing.pin /\ h.pairing.proof) \in BOOLEAN
                OBVIOUS
            <4>2. QED
                BY <4>1, Zenon
        <3>2. QED
            BY <1>4, <3>1 DEF Serve
    <2>2. QED
        BY <1>4, <2>1 DEF HostParts
<1>5. CASE request.of = "unpair"
    <2>1. s = [h EXCEPT !.trusted = {t \in @ : t.id # unique_id},
                        !.pairing = NoPairing]
        BY <1>5 DEF Serve
    <2>2. QED
        BY <2>1 DEF HostParts
<1>6. CASE request.of \in {"launch", "resume", "cancel"}
    <2>1. s = h \/ \E g : s = [h EXCEPT !.game = g]
        BY <1>6 DEF Serve
    <2>2. QED
        BY <2>1 DEF HostParts
<1>7. QED
    BY <1>1, <1>2, <1>3, <1>4, <1>5, <1>6 DEF RequestNames

(* Whom the host trusts after a request it has seen. *)
LEMMA SendTrusts ==
    ASSUME HostInv,
           NEW request, request.of \in RequestNames, NEW how \in Fates, NEW pin,
           Send(request, how, pin)
    PROVE  /\ DOMAIN host' = HostParts
           /\ shown' \in {shown, shown \union {Client}}
           /\ host'.trusted \subseteq shown'
           /\ request.of # "clientpairingsecret" =>
                 host'.trusted \subseteq host.trusted
<1>0. DOMAIN host = HostParts /\ host.trusted \subseteq shown
    BY DEF HostInv, HostParts
<1>1. CASE host' = host
    BY <1>0, <1>1 DEF Send
<1>2. CASE host' # host
    <2>1. host' = Serve(host, request, pin).host /\ how # "unreached"
        BY <1>2 DEF Send, Reach
    <2>2. shown' = shown \union {Client}
        BY <2>1 DEF Send
    <2>3. QED
        BY <1>0, <2>1, <2>2, ServeTrusts
<1>3. QED
    BY <1>1, <1>2
-----------------------------------------------------------------------------
(* From the first request on, an action is one of these steps. *)

OnlineStep ==
    /\ pc \notin Offline /\ UNCHANGED files
    /\ \/ pc' \notin Offline /\ UNCHANGED <<unique_id, cert, privateKey>>
       \/ pc' = "off" /\ privateKey' = Absent
    /\ DOMAIN host' = HostParts
    /\ shown' \in {shown, shown \union {Client}}
    /\ host'.trusted \subseteq shown'
    /\ host'.trusted # {} => host.trusted # {} \/ privateKey # Absent
    /\ pc' = "leave" => ret' = GS_OK
    /\ pc' \in {"clientpairingsecret", "pairchallenge"} => privateKey # Absent

LEMMA OnlineStepKeepsInv ==
    ASSUME GamestreamInv, OnlineStep
    PROVE  GamestreamInv'
<1> USE DEF GamestreamInv
<1>1. FilesInv'
    BY DEF FilesInv, OnlineStep, Making, files, Offline, Absent, Empty
<1>2. ProcessInv'
    BY DEF ProcessInv, FilesInv, OnlineStep, files, Offline, Absent, Empty
<1>3. HostInv'
    <2>1. Client = [id |-> idFile, cert |-> certFile] /\ idFile # Absent
          /\ certFile > Empty
        BY DEF ProcessInv, OnlineStep, Client, Offline
    <2>2. idFile' = idFile /\ certFile' = certFile /\ keyFile' = keyFile
        BY DEF OnlineStep, files
    <2>3. pc' # "idclose" /\ ~Making'
        BY DEF OnlineStep, Offline, Making
    <2>4. host'.trusted # {} => keyFile > Empty
        BY DEF OnlineStep, HostInv, ProcessInv
    <2>5. QED
        BY <2>1, <2>2, <2>3, <2>4 DEF HostInv, OnlineStep, HostParts
<1>4. QED
    BY <1>1, <1>2, <1>3
(* What a request that is not the fourth of a pairing does to the host.     *)
LEMMA SendKeeps ==
    ASSUME GamestreamInv, NEW request, request.of \in RequestNames,
           request.of # "clientpairingsecret", NEW how \in Fates, NEW pin,
           Send(request, how, pin)
    PROVE  /\ DOMAIN host' = HostParts
           /\ shown' \in {shown, shown \union {Client}}
           /\ host'.trusted \subseteq shown'
           /\ host'.trusted # {} => host.trusted # {}
    BY SendTrusts DEF GamestreamInv

LEMMA LoadServerStatusOnline ==
    ASSUME GamestreamInv, LoadServerStatus
    PROVE  OnlineStep
<1>1. PICK how \in Fates, pin \in BOOLEAN :
         \E request : request = Request("serverinfo", pc = "https") /\ Send(request, how, pin)
    BY DEF LoadServerStatus
<1>2. PICK request : request.of = "serverinfo" /\ Send(request, how, pin)
    BY <1>1 DEF Request
<1>3. /\ pc \notin Offline /\ UNCHANGED files
      /\ \/ pc' \in {"http", "action"} /\ UNCHANGED <<unique_id, cert, privateKey>>
         \/ pc' = "off" /\ privateKey' = Absent
    BY DEF LoadServerStatus, Exit, Offline, process
<1>4. /\ DOMAIN host' = HostParts
      /\ shown' \in {shown, shown \union {Client}}
      /\ host'.trusted \subseteq shown'
      /\ host'.trusted # {} => host.trusted # {}
    BY <1>1, <1>2, SendKeeps DEF RequestNames
<1>5. QED
    BY <1>3, <1>4 DEF OnlineStep, Offline

LEMMA ActionOnline ==
    ASSUME GamestreamInv, Action
    PROVE  OnlineStep
<1>1. FirstRequest \in {"applist", "quit", "getservercert", "unpair", "none"}
    BY DEF FirstRequest
<1>2. UNCHANGED <<files, shown, host>>
    BY DEF Action
<1>3. /\ pc \notin Offline
      /\ \/ /\ pc' \in {"applist", "quit", "getservercert", "unpair"}
            /\ UNCHANGED <<unique_id, cert, privateKey>>
         \/ pc' = "off" /\ privateKey' = Absent
    BY <1>1 DEF Action, Go, keep, Exit, Offline
<1>4. QED
    BY <1>2, <1>3 DEF OnlineStep, Offline, GamestreamInv, HostInv, HostParts

LEMMA GetApplistOnline ==
    ASSUME GamestreamInv, GetApplist
    PROVE  OnlineStep
<1>1. PICK how \in Fates, pin \in BOOLEAN :
         \E request : request = Request("applist", TRUE) /\ Send(request, how, pin)
    BY DEF GetApplist
<1>2. PICK request : request.of = "applist" /\ Send(request, how, pin)
    BY <1>1 DEF Request
<1>3. /\ pc \notin Offline /\ UNCHANGED files
      /\ \/ pc' = "launch" /\ UNCHANGED <<unique_id, cert, privateKey>>
         \/ pc' = "off" /\ privateKey' = Absent
    BY DEF GetApplist, Exit, Offline, keep
<1>4. /\ DOMAIN host' = HostParts
      /\ shown' \in {shown, shown \union {Client}}
      /\ host'.trusted \subseteq shown'
      /\ host'.trusted # {} => host.trusted # {}
    BY <1>1, <1>2, SendKeeps DEF RequestNames
<1>5. QED
    BY <1>3, <1>4 DEF OnlineStep, Offline

LEMMA LaunchOnline ==
    ASSUME GamestreamInv, Launch
    PROVE  OnlineStep
<1>1. /\ pc \notin Offline /\ UNCHANGED files
      /\ \/ pc' = "streaming" /\ UNCHANGED <<unique_id, cert, privateKey>>
         \/ pc' = "off" /\ privateKey' = Absent
    BY DEF Launch, Exit, Offline
<1>2. CASE UNCHANGED <<host, shown>>
    BY <1>1, <1>2 DEF OnlineStep, Offline, GamestreamInv, HostInv, HostParts
<1>3. ASSUME NEW how \in Fates, NEW pin \in BOOLEAN,
             NEW name \in {"launch", "resume"}, NEW request,
             request = [Request(name, TRUE) EXCEPT !.app = appId],
             Send(request, how, pin)
      PROVE  OnlineStep
    <2>1. request.of \in {"launch", "resume"} /\ Send(request, how, pin)
        BY <1>3 DEF Request
    <2>2. /\ DOMAIN host' = HostParts
          /\ shown' \in {shown, shown \union {Client}}
          /\ host'.trusted \subseteq shown'
          /\ host'.trusted # {} => host.trusted # {}
        BY <2>1, SendKeeps DEF RequestNames
    <2>3. QED
        BY <1>1, <2>2 DEF OnlineStep, Offline
<1>4. QED
    BY <1>2, <1>3 DEF Launch

LEMMA StreamEndsOnline ==
    ASSUME GamestreamInv, StreamEnds
    PROVE  OnlineStep
<1>1. UNCHANGED <<files, shown, host>>
    BY DEF StreamEnds
<1>2. /\ pc \notin Offline
      /\ \/ pc' = "quit" /\ UNCHANGED <<unique_id, cert, privateKey>>
         \/ pc' = "off" /\ privateKey' = Absent
    BY DEF StreamEnds, Go, keep, Exit, Offline
<1>3. QED
    BY <1>1, <1>2 DEF OnlineStep, Offline, GamestreamInv, HostInv, HostParts

LEMMA QuitOnline ==
    ASSUME GamestreamInv, Quit
    PROVE  OnlineStep
<1>1. PICK how \in Fates, pin \in BOOLEAN :
         \E request : request = Request("cancel", TRUE) /\ Send(request, how, pin)
    BY DEF Quit
<1>2. PICK request : request.of = "cancel" /\ Send(request, how, pin)
    BY <1>1 DEF Request
<1>3. pc \notin Offline /\ UNCHANGED files /\ pc' = "off" /\ privateKey' = Absent
    BY DEF Quit, Exit, Offline
<1>4. /\ DOMAIN host' = HostParts
      /\ shown' \in {shown, shown \union {Client}}
      /\ host'.trusted \subseteq shown'
      /\ host'.trusted # {} => host.trusted # {}
    BY <1>1, <1>2, SendKeeps DEF RequestNames
<1>5. QED
    BY <1>3, <1>4 DEF OnlineStep, Offline

LEMMA PairDoneOnline ==
    ASSUME GamestreamInv, PairDone
    PROVE  OnlineStep
    BY DEF PairDone, Exit, OnlineStep, Offline, GamestreamInv, HostInv, HostParts

LEMMA UnpairOnline ==
    ASSUME GamestreamInv, Unpair
    PROVE  OnlineStep
<1>1. PICK how \in Fates, pin \in BOOLEAN :
         \E request : request = Request("unpair", FALSE) /\ Send(request, how, pin)
    BY DEF Unpair
<1>2. PICK request : request.of = "unpair" /\ Send(request, how, pin)
    BY <1>1 DEF Request
<1>3. pc \notin Offline /\ UNCHANGED files /\ pc' = "off" /\ privateKey' = Absent
    BY DEF Unpair, Exit, Offline
<1>4. /\ DOMAIN host' = HostParts
      /\ shown' \in {shown, shown \union {Client}}
      /\ host'.trusted \subseteq shown'
      /\ host'.trusted # {} => host.trusted # {}
    BY <1>1, <1>2, SendKeeps DEF RequestNames
<1>5. QED
    BY <1>3, <1>4 DEF OnlineStep, Offline

PairNames == {"getservercert", "clientchallenge", "serverchallengeresp",
              "clientpairingsecret", "pairchallenge"}

(* A pairing goes on from the third request only with a key to sign with,   *)
(* and is done only after a good answer to the last.                        *)
LEMMA PairOnline ==
    ASSUME GamestreamInv, Pair
    PROVE  OnlineStep
<1>1. PICK i \in DOMAIN PairRequests :
        /\ pc = PairRequests[i]
        /\ \E how \in Fates, pin \in BOOLEAN :
             LET request == [Request(pc, pc = "pairchallenge")
                               EXCEPT !.proof = peer.challenge]
                 r == Reach(request, how, pin)
                 result == PairStep(pc, r)
             IN  /\ Send(request, how, pin)
                 /\ ret' = result
                 /\ pc' = AfterPair(i, result)
        /\ UNCHANGED <<files, unique_id, cert, privateKey>>
    BY DEF Pair
<1>2. DOMAIN PairRequests = 1..5 /\ Len(PairRequests) = 5
    BY DEF PairRequests
<1>3. pc \in PairNames /\ pc \in RequestNames /\ pc \notin Offline
    BY <1>1, <1>2 DEF PairRequests, PairNames, RequestNames, Offline
<1>4. PICK how \in Fates, pin \in BOOLEAN :
        /\ Send([Request(pc, pc = "pairchallenge") EXCEPT !.proof = peer.challenge],
                how, pin)
        /\ \E r : ret' = PairStep(pc, r)
        /\ pc' = AfterPair(i, ret')
    BY <1>1
<1>5. [Request(pc, pc = "pairchallenge") EXCEPT !.proof = peer.challenge].of = pc
    BY DEF Request
<1>6. /\ pc' \in PairNames \union {"unpair", "leave"}
      /\ pc' = "leave" => ret' = GS_OK
      /\ pc' = "clientpairingsecret" => pc = "serverchallengeresp" /\ ret' = GS_OK
      /\ pc' = "pairchallenge" => pc = "clientpairingsecret"
    BY <1>1, <1>2, <1>4 DEF AfterPair, PairRequests, PairNames
<1>7. pc' \in {"clientpairingsecret", "pairchallenge"} => privateKey # Absent
    BY <1>4, <1>6 DEF PairStep, GS_FAILED, GS_OK, Absent, Empty, GamestreamInv,
                      ProcessInv
<1>8. pc = "clientpairingsecret" => privateKey # Absent
    BY DEF GamestreamInv, ProcessInv
<1>9. /\ DOMAIN host' = HostParts
      /\ shown' \in {shown, shown \union {Client}}
      /\ host'.trusted \subseteq shown'
      /\ host'.trusted # {} => host.trusted # {} \/ privateKey # Absent
    BY <1>3, <1>4, <1>5, <1>8, SendTrusts DEF GamestreamInv
<1>10. pc' \notin Offline
    BY <1>6 DEF PairNames, Offline
<1>11. QED
    BY <1>1, <1>3, <1>6, <1>7, <1>9, <1>10 DEF OnlineStep
-----------------------------------------------------------------------------
(* The other actions. *)

LEMMA InitInv == ASSUME Init PROVE GamestreamInv
    BY DEF Init, GamestreamInv, FilesInv, ProcessInv, HostInv, Offline, Making,
           Absent, Empty

LEMMA StartInv ==
    ASSUME GamestreamInv, Start \/ Defaults \/ Discover \/ HostConf
    PROVE  GamestreamInv'
<1>1. /\ UNCHANGED <<idFile, certFile, keyFile, made, torn, shown, host>>
      /\ privateKey' = Absent
      /\ pc \in {"off", "defaults", "discover", "hostconf"}
      /\ pc' \in {"off", "defaults", "discover", "hostconf", "id"}
    <2>1. CASE Start
        BY <2>1 DEF Start, GamestreamInv, ProcessInv, Offline
    <2>2. CASE Defaults \/ Discover
        BY <2>2 DEF Defaults, Discover, Exit, files, GamestreamInv, ProcessInv, Offline
    <2>3. CASE HostConf
        BY <2>3 DEF HostConf, files, GamestreamInv, ProcessInv, Offline
    <2>4. QED
        BY <2>1, <2>2, <2>3
<1>2. FilesInv'
    BY <1>1 DEF GamestreamInv, FilesInv, Making, Absent, Empty
<1>3. ProcessInv'
    BY <1>1 DEF GamestreamInv, ProcessInv, Offline
<1>4. HostInv'
    BY <1>1 DEF GamestreamInv, HostInv, Making
<1>5. QED
    BY <1>2, <1>3, <1>4 DEF GamestreamInv

LEMMA FilesStepInv ==
    ASSUME GamestreamInv,
           LoadUniqueId \/ CloseIdFile \/ LoadCert \/ SaveCert \/ ReadCert
    PROVE  GamestreamInv'
<1> USE DEF GamestreamInv, FilesInv, ProcessInv, HostInv, Making, Offline, Absent,
            Empty, initUnchanged
<1>1. CASE LoadUniqueId
    BY <1>1 DEF LoadUniqueId
<1>2. CASE CloseIdFile
    BY <1>2 DEF CloseIdFile, IdWritten
<1>3. CASE LoadCert
    BY <1>3 DEF LoadCert
<1>4. CASE SaveCert
    BY <1>4 DEF SaveCert, KeyWritten
<1>5. CASE ReadCert
    BY <1>5 DEF ReadCert, Exit, files
<1>6. QED
    BY <1>1, <1>2, <1>3, <1>4, <1>5

LEMMA WorldInv ==
    ASSUME GamestreamInv, Kill \/ HostForgets \/ HostPlays
    PROVE  GamestreamInv'
<1>1. CASE Kill
    BY <1>1 DEF Kill, Exit, GamestreamInv, FilesInv, ProcessInv, HostInv, Making,
                Offline, Absent, Empty
<1>2. CASE HostForgets \/ HostPlays
    <2>1. UNCHANGED <<files, pc, unique_id, cert, privateKey, ret, shown>>
        BY <1>2 DEF HostForgets, HostPlays, process
    <2>2. DOMAIN host' = DOMAIN host /\ host'.trusted \subseteq host.trusted
        BY <1>2 DEF HostForgets, HostPlays, GamestreamInv, HostInv
    <2>3. FilesInv' /\ ProcessInv'
        BY <2>1 DEF files, GamestreamInv, FilesInv, ProcessInv, Making
    <2>4. HostInv'
        BY <2>1, <2>2 DEF files, GamestreamInv, HostInv, Making
    <2>5. QED
        BY <2>3, <2>4 DEF GamestreamInv
<1>3. QED
    BY <1>1, <1>2
-----------------------------------------------------------------------------
LEMMA InvAlways == Spec => []GamestreamInv
<1>1. Init => GamestreamInv
    BY InitInv
<1>2. GamestreamInv /\ [Next]_vars => GamestreamInv'
    <2>1. ASSUME GamestreamInv, UNCHANGED vars PROVE GamestreamInv'
        BY <2>1 DEF vars, files, process, GamestreamInv, FilesInv, ProcessInv,
                    HostInv, Making
    <2>2. ASSUME GamestreamInv, Next PROVE GamestreamInv'
        <3>1. CASE Start \/ Defaults \/ Discover \/ HostConf
            BY <2>2, <3>1, StartInv
        <3>2. CASE LoadUniqueId \/ CloseIdFile \/ LoadCert \/ SaveCert \/ ReadCert
            BY <2>2, <3>2, FilesStepInv
        <3>3. CASE \/ LoadServerStatus \/ Action \/ GetApplist \/ Launch
                   \/ StreamEnds \/ Quit \/ Pair \/ PairDone \/ Unpair
            BY <2>2, <3>3, OnlineStepKeepsInv, LoadServerStatusOnline, ActionOnline,
               GetApplistOnline, LaunchOnline, StreamEndsOnline, QuitOnline,
               PairOnline, PairDoneOnline, UnpairOnline
        <3>4. CASE Kill \/ HostForgets \/ HostPlays
            BY <2>2, <3>4, WorldInv
        <3>5. QED
            BY <2>2, <3>1, <3>2, <3>3, <3>4 DEF Next
    <2>3. QED
        BY <2>1, <2>2
<1>3. QED
    BY <1>1, <1>2, PTL DEF Spec

(* However often the program is killed and started again on a device, the   *)
(* host sees one client (client.c:78, 115, mkcert.c).                       *)
THEOREM OneClientEver == Spec => []SameClient
<1>1. GamestreamInv => SameClient
    <2>1. ASSUME GamestreamInv PROVE Cardinality(shown) <= 1
        <3>1. shown \subseteq {[id |-> idFile, cert |-> certFile]}
            BY <2>1 DEF GamestreamInv, HostInv
        <3>2. CASE shown = {}
            BY <3>2, FS_EmptySet
        <3>3. CASE shown # {}
            <4>1. \E c : shown = {c}
                BY <3>1, <3>3
            <4>2. QED
                BY <4>1, FS_Singleton
        <3>4. QED
            BY <3>2, <3>3
    <2>2. QED
        BY <2>1 DEF SameClient
<1>2. QED
    BY <1>1, InvAlways, PTL

(* The host never trusts a client that has lost the key to its certificate, *)
(* although gs_pair runs over plain HTTP up to its last request: without a  *)
(* key it cannot sign (client.c:566).                                       *)
THEOREM TrustNeedsKey ==
    Spec => [](host.trusted # {} => keyFile = certFile /\ certFile > Empty)
<1>1. GamestreamInv => (host.trusted # {} => keyFile = certFile /\ certFile > Empty)
    BY DEF GamestreamInv, HostInv, FilesInv
<1>2. QED
    BY <1>1, InvAlways, PTL

(* A program that was never killed while it wrote its files has a           *)
(* certificate and the key to it, in every later run (client.c:115).        *)
THEOREM KeysAlwaysUsable == Spec => KeysUsable
<1>1. ASSUME GamestreamInv, Next,
             pc = "certread", pc' # pc, fate' # "killed", ~torn
      PROVE  pc' = "https" /\ cert' > Empty /\ privateKey' = cert'
    <2>1. ReadCert
        BY <1>1 DEF Next, Start, Defaults, Discover, HostConf, LoadUniqueId, CloseIdFile,
                    LoadCert, SaveCert, LoadServerStatus, Action, GetApplist,
                    Launch, StreamEnds, Quit, Pair, PairRequests, PairDone,
                    Unpair, Kill, HostForgets, HostPlays
    <2>2. certFile > Empty /\ keyFile = certFile
        BY <1>1 DEF GamestreamInv, FilesInv, Making
    <2>3. QED
        BY <1>1, <2>1, <2>2 DEF ReadCert, Absent, Empty, Exit
<1>2. GamestreamInv /\ [Next]_vars =>
        [/\ pc = "certread" /\ pc' # pc /\ fate' # "killed" /\ ~torn
         => pc' = "https" /\ cert' > Empty /\ privateKey' = cert']_vars
    BY <1>1
<1>3. QED
    BY <1>2, InvAlways, PTL DEF Spec, KeysUsable

(* "Succesfully paired" is said only after the host has answered a request  *)
(* over HTTPS, which it does for a client that it trusts (client.c:599).    *)
THEOREM PairedAlwaysAgree == Spec => PairedAgree
<1>1. ASSUME Next, pc # "leave", pc' = "leave", ret' = GS_OK
      PROVE  Trusts(host', cert)
    <2>1. Pair
        <3>1. FirstRequest # "leave"
            BY DEF FirstRequest
        <3>2. QED
            BY <1>1, <3>1
               DEF Next, Start, Defaults, Discover, HostConf, LoadUniqueId, CloseIdFile,
                   LoadCert, SaveCert, ReadCert, LoadServerStatus, Action, Go,
                   GetApplist, Launch, StreamEnds, Quit, PairDone, Unpair, Kill,
                   HostForgets, HostPlays, Exit
    <2>2. PICK i \in DOMAIN PairRequests, how \in Fates, pin \in BOOLEAN :
            /\ pc = PairRequests[i]
            /\ \E request :
                 /\ request = [Request(pc, pc = "pairchallenge")
                                 EXCEPT !.proof = peer.challenge]
                 /\ host' = Reach(request, how, pin).host
                 /\ ret' = PairStep(pc, Reach(request, how, pin))
                 /\ pc' = AfterPair(i, ret')
        BY <2>1 DEF Pair, Send
    <2>3. i = 5 /\ pc = "pairchallenge"
        BY <1>1, <2>2 DEF AfterPair, PairRequests
    <2>4. PICK request :
            /\ request = [Request(pc, pc = "pairchallenge")
                            EXCEPT !.proof = peer.challenge]
            /\ host' = Reach(request, how, pin).host
            /\ ret' = PairStep(pc, Reach(request, how, pin))
        BY <2>2
    <2>5. request.of = "pairchallenge" /\ request.secure
        BY <2>3, <2>4 DEF Request
    <2>6. Reach(request, how, pin).ret = GS_OK
        BY <1>1, <2>3, <2>4 DEF PairStep, PairAnswer
    <2>7. Trusts(host, cert) /\ host' = Serve(host, request, pin).host
        BY <2>4, <2>5, <2>6 DEF Reach, Accepts, GS_FAILED, GS_OK
    <2>8. QED
        BY <2>5, <2>7 DEF Serve
<1>2. [Next]_vars =>
        [pc # "leave" /\ pc' = "leave" /\ ret' = GS_OK => Trusts(host', cert)]_vars
    BY <1>1
<1>3. QED
    BY <1>2, PTL DEF Spec, PairedAgree

(* A gs_pair that fails leaves no host that trusts the client, as long as   *)
(* its last request gets there (client.c:618).                              *)
THEOREM FailedPairAlwaysUndone == Spec => FailedPairUndone
<1>1. ASSUME GamestreamInv, Next, pc \in {"unpair", "leave"}, pc' = "off",
             ret' # GS_OK, fate' \notin {"killed", "unreached"}
      PROVE  ~Trusts(host', cert)
    <2>1. Unpair
        <3>1. ~PairDone
            BY <1>1 DEF PairDone, GamestreamInv, HostInv
        <3>2. ~Pair
            <4>1. ASSUME NEW i \in DOMAIN PairRequests
                  PROVE  PairRequests[i] \notin {"unpair", "leave"}
                BY DEF PairRequests
            <4>2. QED
                BY <1>1, <4>1 DEF Pair
        <3>3. ~Start /\ ~Defaults /\ ~Discover /\ ~HostConf /\ ~LoadUniqueId /\ ~CloseIdFile
              /\ ~LoadCert /\ ~SaveCert /\ ~ReadCert
            BY <1>1 DEF Start, Defaults, Discover, HostConf, LoadUniqueId, CloseIdFile,
                        LoadCert, SaveCert, ReadCert
        <3>4. ~LoadServerStatus /\ ~Action /\ ~GetApplist /\ ~Launch /\ ~StreamEnds
              /\ ~Quit
            BY <1>1 DEF LoadServerStatus, Action, GetApplist, Launch, StreamEnds, Quit
        <3>5. ~Kill /\ ~HostForgets /\ ~HostPlays
            BY <1>1 DEF Kill, HostForgets, HostPlays
        <3>6. QED
            BY <1>1, <3>1, <3>2, <3>3, <3>4, <3>5 DEF Next
    <2>2. PICK how \in Fates, pin \in BOOLEAN :
            \E request : /\ request = Request("unpair", FALSE)
                         /\ Send(request, how, pin)
        BY <2>1 DEF Unpair
    <2>3. PICK request : /\ request.of = "unpair" /\ ~request.secure
                         /\ Send(request, how, pin)
        BY <2>2 DEF Request
    <2>4. how # "unreached" /\ host' = Serve(host, request, pin).host
        BY <1>1, <2>3 DEF Send, Reach, Accepts
    <2>5. host'.trusted = {t \in host.trusted : t.id # unique_id}
        <3>1. host' = [host EXCEPT !.trusted = {t \in @ : t.id # unique_id},
                                   !.pairing = NoPairing]
            BY <2>3, <2>4 DEF Serve
        <3>2. QED
            BY <1>1, <3>1 DEF GamestreamInv, HostInv
    <2>6. \A t \in host.trusted : t.id = unique_id
        BY <1>1, <2>1 DEF Unpair, GamestreamInv, HostInv, ProcessInv, Offline
    <2>7. QED
        BY <2>5, <2>6 DEF Trusts
<1>2. GamestreamInv /\ [Next]_vars =>
        [/\ pc \in {"unpair", "leave"} /\ pc' = "off" /\ ret' # GS_OK
         /\ fate' \notin {"killed", "unreached"}
         => ~Trusts(host', cert)]_vars
    BY <1>1
<1>3. QED
    BY <1>2, InvAlways, PTL DEF Spec, FailedPairUndone
-----------------------------------------------------------------------------
(* Documents: what xml_search finds *)

(* Induction, for a set of numbers. *)
LEMMA AllNumbers ==
    ASSUME NEW T \in SUBSET Nat, 0 \in T, \A n \in T : n + 1 \in T
    PROVE  \A n \in Nat : n \in T
<1> SUFFICES ASSUME Nat \ T # {} PROVE FALSE
    OBVIOUS
<1>1. PICK m \in Nat \ T : \A n \in Nat \ T : ~(<<n, m>> \in OpToRel(<, Nat))
    BY NatLessThanWellFounded, WFMin
<1>2. \A n \in Nat \ T : ~(n < m)
    BY <1>1 DEF OpToRel
<1>3. m - 1 \in Nat /\ m - 1 \in T
    BY <1>2
<1>4. QED
    BY <1>3

(* An event that xml_search for node does not look at while it is outside   *)
(* of an element of this name.                                              *)
Quiet(node, ev) == ev.event = "text" \/ ev.of # node

Searched(node, events) ==
    XML_Parse(LAMBDA q, ev : SearchEvent(node, q, ev),
              [start |-> 0, memory |-> <<>>], events)

(* There is one element called node, at place k, and v is in it. *)
Once(node, v, events, k) ==
    /\ Len(events) \in Nat /\ k \in 1..(Len(events) - 2)
    /\ events[k] = Open(node) /\ events[k + 1] = Text(v) /\ events[k + 2] = Close(node)
    /\ \A i \in 1..Len(events) : i \notin k..(k + 2) => Quiet(node, events[i])

LEMMA SearchFinds ==
    ASSUME NEW node, NEW v, NEW events, NEW k, Once(node, v, events, k)
    PROVE  Searched(node, events).memory = <<v>>
<1> DEFINE L == Len(events)
           q0 == [start |-> 0, memory |-> <<>>]
           q1 == [start |-> 1, memory |-> <<>>]
           q2 == [start |-> 1, memory |-> <<v>>]
           q3 == [start |-> 0, memory |-> <<v>>]
           g == [n \in 0..L |-> IF n < k THEN q0 ELSE IF n = k THEN q1
                                ELSE IF n = k + 1 THEN q2 ELSE q3]
           Eq(f) == f = [n \in 0..L |-> IF n = 0 THEN q0
                                        ELSE SearchEvent(node, f[n - 1], events[n])]
           after == CHOOSE f : Eq(f)
<1>1. /\ L \in Nat /\ k \in Nat /\ 1 <= k /\ k + 2 <= L
      /\ events[k] = Open(node) /\ events[k + 1] = Text(v) /\ events[k + 2] = Close(node)
      /\ \A i \in 1..L : i \notin k..(k + 2) => Quiet(node, events[i])
    BY DEF Once
<1>2. ASSUME NEW ev, Quiet(node, ev)
      PROVE  SearchEvent(node, q0, ev) = q0 /\ SearchEvent(node, q3, ev) = q3
    BY <1>2 DEF SearchEvent, Quiet
<1>3. SearchEvent(node, q0, Open(node)) = q1
    BY DEF SearchEvent, Open
<1>4. SearchEvent(node, q1, Text(v)) = q2
    BY DEF SearchEvent, Text
<1>5. SearchEvent(node, q2, Close(node)) = q3
    BY DEF SearchEvent, Close
<1> HIDE DEF q0, q1, q2, q3
<1>6. \A n \in 1..L : g[n] = SearchEvent(node, g[n - 1], events[n])
    <2> TAKE n \in 1..L
    <2>1. CASE n < k
        BY <1>1, <1>2, <2>1
    <2>2. CASE n = k
        BY <1>1, <1>3, <2>2
    <2>3. CASE n = k + 1
        BY <1>1, <1>4, <2>3
    <2>4. CASE n = k + 2
        BY <1>1, <1>5, <2>4
    <2>5. CASE n > k + 2
        BY <1>1, <1>2, <2>5
    <2>6. QED
        BY <1>1, <2>1, <2>2, <2>3, <2>4, <2>5
<1>7. g[0] = q0 /\ g[L] = q3
    BY <1>1
<1>8. Eq(g)
    <2>1. g = [n \in 0..L |-> g[n]]
        OBVIOUS
    <2> HIDE DEF g
    <2>2. \A n \in 0..L : g[n] = IF n = 0 THEN q0 ELSE SearchEvent(node, g[n - 1], events[n])
        BY <1>1, <1>6, <1>7
    <2>3. QED
        BY <2>1, <2>2
<1>9. Eq(after)
    <2> HIDE DEF Eq
    <2>1. QED
        BY <1>8
<1> HIDE DEF g, after
<1>10. \A n \in 0..L : after[n] = g[n]
    <2> DEFINE T == {n \in Nat : n <= L => after[n] = g[n]}
    <2>1. 0 \in T
        BY <1>1, <1>7, <1>9
    <2>2. ASSUME NEW n \in T PROVE n + 1 \in T
        BY <1>1, <1>6, <1>9
    <2> HIDE DEF T
    <2>3. T \in SUBSET Nat
        BY DEF T
    <2>4. \A n \in Nat : n \in T
        BY <2>1, <2>2, <2>3, AllNumbers
    <2>5. QED
        BY <1>1, <2>4 DEF T
<1>11. Searched(node, events) = after[L]
    BY DEF Searched, XML_Parse, after, q0
<1>12. QED
    BY <1>1, <1>7, <1>10, <1>11 DEF q3

(* u is s followed by t. *)
Glued(u, s, t, S) ==
    /\ u \in Seq(S)
    /\ Len(u) = Len(s) + Len(t)
    /\ \A i \in 1..(Len(s) + Len(t)) : u[i] = IF i <= Len(s) THEN s[i] ELSE t[i - Len(s)]

LEMMA Joined ==
    ASSUME NEW S, NEW s, NEW t, s \in Seq(S), t \in Seq(S)
    PROVE  Glued(s \o t, s, t, S)
<1>1. s \o t \in Seq(S)
    BY ConcatProperties
<1>2. Len(s \o t) = Len(s) + Len(t)
    BY ConcatProperties, Zenon
<1>3. \A i \in 1..(Len(s) + Len(t)) : (s \o t)[i] = IF i <= Len(s) THEN s[i] ELSE t[i - Len(s)]
    BY ConcatProperties, Zenon
<1>4. QED
    BY <1>1, <1>2, <1>3, Zenon DEF Glued

(* Every element of a flattened sequence is one of a sequence in it. *)
LEMMA FlattenIn ==
    ASSUME NEW S, NEW seqs \in Seq(Seq(S))
    PROVE  FlattenSeq(seqs) \in Seq(S)
<1> DEFINE L == Len(seqs)
           Cat(s, t) == s \o t
           Eq(f, n) == f = [i \in 1..n |-> IF i = 1 THEN seqs[i] ELSE Cat(f[i - 1], seqs[i])]
           flatten == CHOOSE f : Eq(f, L)
<1>1. L \in Nat /\ \A i \in 1..L : seqs[i] \in Seq(S)
    BY LenProperties, ElementOfSeq
<1> HIDE DEF Cat
<1>2. CASE L = 0
    BY <1>2, EmptySeq DEF FlattenSeq
<1>3. CASE L # 0
    <2>1. \A n \in Nat : n >= 1 => \E f : Eq(f, n)
        <3> DEFINE Exists(n) == \E f : Eq(f, n)
                   T == {n \in Nat : n >= 1 => Exists(n)}
        <3>1. 0 \in T
            OBVIOUS
        <3>2. ASSUME NEW n \in Nat, n >= 1 => Exists(n) PROVE Exists(n + 1)
            <4>1. CASE n = 0
                <5> DEFINE h == [i \in 1..1 |-> seqs[1]]
                <5>1. Eq(h, 1)
                    OBVIOUS
                <5> HIDE DEF Eq, h
                <5>2. Exists(1)
                    BY <5>1
                <5>3. QED
                    BY <4>1, <5>2
            <4>2. CASE n # 0
                <5>1. PICK f : Eq(f, n)
                    <6> HIDE DEF Eq
                    <6>1. QED
                        BY <3>2, <4>2
                <5> DEFINE h == [i \in 1..(n + 1) |->
                                   IF i <= n THEN f[i] ELSE Cat(f[n], seqs[n + 1])]
                <5>2. \A i \in 1..n : f[i] = IF i = 1 THEN seqs[i] ELSE Cat(f[i - 1], seqs[i])
                    BY <5>1
                <5>3. n \in Nat \ {0}
                    BY <4>2
                <5>4. \A i \in 1..(n + 1) :
                         h[i] = IF i = 1 THEN seqs[i] ELSE Cat(h[i - 1], seqs[i])
                    <6> TAKE i \in 1..(n + 1)
                    <6>1. CASE i <= n
                        BY <5>2, <5>3, <6>1
                    <6>2. CASE i = n + 1
                        BY <5>3, <6>2
                    <6>3. QED
                        BY <5>3, <6>1, <6>2
                <5>5. h = [i \in 1..(n + 1) |-> h[i]]
                    OBVIOUS
                <5> HIDE DEF h
                <5>6. Eq(h, n + 1)
                    BY <5>4, <5>5
                <5> HIDE DEF Eq
                <5>7. QED
                    BY <5>6
            <4>3. QED
                BY <4>1, <4>2
        <3> HIDE DEF Exists
        <3>3. T \in SUBSET Nat /\ \A n \in T : n + 1 \in T
            <4>1. \A n \in Nat : n + 1 \in Nat
                OBVIOUS
            <4>2. QED
                BY <3>2, <4>1, Zenon
        <3> HIDE DEF T
        <3>4. \A n \in Nat : n \in T
            BY <3>1, <3>3, AllNumbers
        <3>5. QED
            BY <3>4 DEF T, Exists
    <2>2. Eq(flatten, L)
        <3> HIDE DEF Eq
        <3>1. \E f : Eq(f, L)
            BY <1>1, <1>3, <2>1
        <3>2. QED
            BY <3>1
    <2> HIDE DEF flatten
    <2>3. \A i \in 1..L : flatten[i] = IF i = 1 THEN seqs[i] ELSE Cat(flatten[i - 1], seqs[i])
        BY <2>2
    <2> DEFINE T == {n \in Nat : n \in 1..L => flatten[n] \in Seq(S)}
    <2>4. 0 \in T
        OBVIOUS
    <2>5. ASSUME NEW n \in T PROVE n + 1 \in T
        <3>1. CASE n + 1 \notin 1..L
            BY <3>1
        <3>2. CASE n = 0
            BY <1>1, <2>3, <3>2
        <3>3. CASE n \in 1..L /\ n + 1 \in 1..L
            <4>1. flatten[n] \in Seq(S) /\ seqs[n + 1] \in Seq(S)
                BY <1>1, <3>3
            <4>2. flatten[n + 1] = Cat(flatten[n], seqs[n + 1])
                BY <1>1, <2>3, <3>3
            <4>3. Cat(flatten[n], seqs[n + 1]) \in Seq(S)
                BY <4>1, Joined, Zenon DEF Cat, Glued
            <4>4. QED
                BY <4>2, <4>3
        <3>4. QED
            BY <1>1, <3>1, <3>2, <3>3
    <2> HIDE DEF T
    <2>6. T \in SUBSET Nat
        BY DEF T
    <2>7. \A n \in Nat : n \in T
        BY <2>4, <2>5, <2>6, AllNumbers
    <2>8. flatten[L] \in Seq(S)
        BY <1>1, <1>3, <2>7 DEF T
    <2>9. FlattenSeq(seqs) = flatten[L]
        BY <1>3 DEF FlattenSeq, flatten, Cat
    <2>10. QED
        BY <2>8, <2>9
<1>4. QED
    BY <1>2, <1>3

(* Four elements, one after the other, with more after them. *)
LEMMA FourElements ==
    ASSUME NEW a, NEW b, NEW c, NEW d, NEW va, NEW vb, NEW vc, NEW vd,
           NEW S, NEW rest \in Seq(S)
    PROVE  LET events == Element(a, va) \o Element(b, vb) \o Element(c, vc)
                         \o Element(d, vd) \o rest
           IN  /\ Len(events) = 12 + Len(rest) /\ Len(rest) \in Nat
               /\ \A i \in 1..12 :
                     events[i] = <<Open(a), Text(va), Close(a), Open(b), Text(vb), Close(b),
                       Open(c), Text(vc), Close(c), Open(d), Text(vd), Close(d)>>[i]
               /\ \A i \in 13..Len(events) : events[i] \in S
<1> DEFINE twelve == <<Open(a), Text(va), Close(a), Open(b), Text(vb), Close(b),
                       Open(c), Text(vc), Close(c), Open(d), Text(vd), Close(d)>>
           U == S \union {twelve[i] : i \in 1..12}
           A == Element(a, va)  B == Element(b, vb)
           C == Element(c, vc)  D == Element(d, vd)
<1>1. /\ A \in Seq(U) /\ Len(A) = 3 /\ A[1] = twelve[1] /\ A[2] = twelve[2] /\ A[3] = twelve[3]
      /\ B \in Seq(U) /\ Len(B) = 3 /\ B[1] = twelve[4] /\ B[2] = twelve[5] /\ B[3] = twelve[6]
      /\ C \in Seq(U) /\ Len(C) = 3 /\ C[1] = twelve[7] /\ C[2] = twelve[8] /\ C[3] = twelve[9]
      /\ D \in Seq(U) /\ Len(D) = 3 /\ D[1] = twelve[10] /\ D[2] = twelve[11] /\ D[3] = twelve[12]
    <2> HIDE DEF U
    <2>1. /\ twelve[1] = Open(a) /\ twelve[2] = Text(va) /\ twelve[3] = Close(a)
          /\ twelve[4] = Open(b) /\ twelve[5] = Text(vb) /\ twelve[6] = Close(b)
          /\ twelve[7] = Open(c) /\ twelve[8] = Text(vc) /\ twelve[9] = Close(c)
          /\ twelve[10] = Open(d) /\ twelve[11] = Text(vd) /\ twelve[12] = Close(d)
        OBVIOUS
    <2> HIDE DEF twelve
    <2>2. \A i \in 1..12 : twelve[i] \in U
        BY DEF U
    <2>3. /\ twelve[1] \in U /\ twelve[2] \in U /\ twelve[3] \in U /\ twelve[4] \in U
          /\ twelve[5] \in U /\ twelve[6] \in U /\ twelve[7] \in U /\ twelve[8] \in U
          /\ twelve[9] \in U /\ twelve[10] \in U /\ twelve[11] \in U /\ twelve[12] \in U
        BY <2>2
    <2>4. A = <<twelve[1], twelve[2], twelve[3]>> /\ B = <<twelve[4], twelve[5], twelve[6]>>
          /\ C = <<twelve[7], twelve[8], twelve[9]>> /\ D = <<twelve[10], twelve[11], twelve[12]>>
        BY <2>1 DEF Element
    <2>5. ASSUME NEW x \in U, NEW y \in U, NEW z \in U, NEW s, s = <<x, y, z>>
          PROVE  s \in Seq(U) /\ Len(s) = 3 /\ s[1] = x /\ s[2] = y /\ s[3] = z
        BY <2>5
    <2>6. QED
        BY <2>3, <2>4, <2>5
<1>2. rest \in Seq(U) /\ Len(rest) \in Nat /\ \A i \in 1..Len(rest) : rest[i] \in S
    <2>1. Len(rest) \in Nat /\ DOMAIN rest = 1..Len(rest)
          /\ \A i \in 1..Len(rest) : rest[i] \in S
        BY LenProperties, ElementOfSeq
    <2>2. S \subseteq U
        OBVIOUS
    <2> HIDE DEF U
    <2>3. QED
        BY <2>1, <2>2, SeqDef
<1> HIDE DEF twelve, U, A, B, C, D
<1> DEFINE AB == A \o B
           ABC == AB \o C
           ABCD == ABC \o D
           all == ABCD \o rest
<1>3. A \in Seq(U) /\ B \in Seq(U) /\ C \in Seq(U) /\ D \in Seq(U) /\ rest \in Seq(U)
    BY <1>1, <1>2
<1>4. Glued(AB, A, B, U)
    BY <1>3, Joined, Zenon
<1>5. Glued(ABC, AB, C, U)
    <2>1. AB \in Seq(U)
        BY <1>4 DEF Glued
    <2> HIDE DEF AB
    <2>2. QED
        BY <1>3, <2>1, Joined, Zenon
<1>6. Glued(ABCD, ABC, D, U)
    <2>1. ABC \in Seq(U)
        BY <1>5 DEF Glued
    <2> HIDE DEF ABC
    <2>2. QED
        BY <1>3, <2>1, Joined, Zenon
<1>7. Glued(all, ABCD, rest, U)
    <2>1. ABCD \in Seq(U)
        BY <1>6 DEF Glued
    <2> HIDE DEF ABCD
    <2>2. QED
        BY <1>3, <2>1, Joined, Zenon
<1> HIDE DEF AB, ABC, ABCD, all
<1> USE DEF Glued
<1>8. Len(AB) = 6 /\ Len(ABC) = 9 /\ Len(ABCD) = 12
    BY <1>1, <1>4, <1>5, <1>6
<1>9. \A i \in 1..6 : AB[i] = IF i <= 3 THEN A[i] ELSE B[i - 3]
    BY <1>1, <1>4
<1>10. \A i \in 1..9 : ABC[i] = IF i <= 6 THEN AB[i] ELSE C[i - 6]
    BY <1>1, <1>5, <1>8
<1>11. \A i \in 1..12 : ABCD[i] = IF i <= 9 THEN ABC[i] ELSE D[i - 9]
    BY <1>1, <1>6, <1>8
<1>12. /\ Len(all) = 12 + Len(rest)
       /\ \A i \in 1..(12 + Len(rest)) : all[i] = IF i <= 12 THEN ABCD[i] ELSE rest[i - 12]
    BY <1>7, <1>8
<1>13. ASSUME NEW i \in 1..12 PROVE ABCD[i] = twelve[i]
    <2>1. CASE i <= 3
        BY <1>1, <1>9, <1>10, <1>11, <2>1
    <2>2. CASE 3 < i /\ i <= 6
        BY <1>1, <1>9, <1>10, <1>11, <2>2
    <2>3. CASE 6 < i /\ i <= 9
        BY <1>1, <1>10, <1>11, <2>3
    <2>4. CASE 9 < i
        BY <1>1, <1>11, <2>4
    <2>5. QED
        BY <2>1, <2>2, <2>3, <2>4
<1>14. all = Element(a, va) \o Element(b, vb) \o Element(c, vc) \o Element(d, vd) \o rest
    BY DEF all, ABCD, ABC, AB, A, B, C, D
<1>15. \A i \in 1..12 : all[i] = twelve[i]
    BY <1>2, <1>12, <1>13
<1>16. \A i \in 13..Len(all) : all[i] \in S
    BY <1>2, <1>12
<1>17. QED
    BY <1>2, <1>12, <1>14, <1>15, <1>16 DEF twelve

FourFields(names, values, rest) ==
    Element(names[1], values[1]) \o Element(names[2], values[2])
    \o Element(names[3], values[3]) \o Element(names[4], values[4]) \o rest

(* A search for each of the four names finds its value. *)
FieldsIn(events, names, values) ==
    \A n \in 1..4 : Searched(names[n], events).memory = <<values[n]>>

(* Four names, and events that are about none of them. *)
Unlike(names, S) ==
    /\ \A i, j \in 1..4 : names[i] = names[j] => i = j
    /\ \A i \in 1..4 : \A ev \in S : Quiet(names[i], ev)

LEMMA FieldFound ==
    ASSUME NEW S, NEW names, NEW values, NEW rest, rest \in Seq(S), Unlike(names, S)
    PROVE  FieldsIn(FourFields(names, values, rest), names, values)
<1> SUFFICES ASSUME NEW n \in 1..4
             PROVE  Searched(names[n], FourFields(names, values, rest)).memory = <<values[n]>>
    BY DEF FieldsIn
<1> DEFINE events == FourFields(names, values, rest)
           twelve == <<Open(names[1]), Text(values[1]), Close(names[1]),
                       Open(names[2]), Text(values[2]), Close(names[2]),
                       Open(names[3]), Text(values[3]), Close(names[3]),
                       Open(names[4]), Text(values[4]), Close(names[4])>>
           k == 3 * n - 2
<1>1. /\ Len(events) = 12 + Len(rest) /\ Len(rest) \in Nat
      /\ \A i \in 1..12 : events[i] = twelve[i]
      /\ \A i \in 13..Len(events) : events[i] \in S
    BY FourElements DEF FourFields
<1> HIDE DEF events
<1>2. /\ events[1] = Open(names[1]) /\ events[2] = Text(values[1])
      /\ events[3] = Close(names[1])
      /\ events[4] = Open(names[2]) /\ events[5] = Text(values[2])
      /\ events[6] = Close(names[2])
      /\ events[7] = Open(names[3]) /\ events[8] = Text(values[3])
      /\ events[9] = Close(names[3])
      /\ events[10] = Open(names[4]) /\ events[11] = Text(values[4])
      /\ events[12] = Close(names[4])
    <2>1. /\ events[1] = twelve[1] /\ events[2] = twelve[2] /\ events[3] = twelve[3]
          /\ events[4] = twelve[4] /\ events[5] = twelve[5] /\ events[6] = twelve[6]
          /\ events[7] = twelve[7] /\ events[8] = twelve[8] /\ events[9] = twelve[9]
          /\ events[10] = twelve[10] /\ events[11] = twelve[11] /\ events[12] = twelve[12]
        <3> HIDE DEF twelve
        <3>1. QED
            BY <1>1
    <2>2. QED
        BY <2>1
<1> HIDE DEF twelve
<1>3. n = 1 \/ n = 2 \/ n = 3 \/ n = 4
    OBVIOUS
<1>4. /\ k \in 1..(Len(events) - 2) /\ k \in 1..10
      /\ events[k] = Open(names[n]) /\ events[k + 1] = Text(values[n])
      /\ events[k + 2] = Close(names[n])
    BY <1>1, <1>2, <1>3
<1>5. \A m \in 1..4 : m # n =>
         /\ Quiet(names[n], Open(names[m])) /\ Quiet(names[n], Close(names[m]))
         /\ Quiet(names[n], Text(values[m]))
    <2> TAKE m \in 1..4
    <2>1. m # n => names[m] # names[n]
        BY DEF Unlike
    <2>2. QED
        BY <2>1 DEF Quiet, Open, Close, Text
<1>6. \A i \in 1..Len(events) : i \notin k..(k + 2) => Quiet(names[n], events[i])
    <2> SUFFICES ASSUME NEW i \in 1..Len(events), i \notin k..(k + 2)
                 PROVE  Quiet(names[n], events[i])
        OBVIOUS
    <2>0. /\ i \in 1..3 => n # 1
          /\ i \in 4..6 => n # 2
          /\ i \in 7..9 => n # 3
          /\ i \in 10..12 => n # 4
        BY <1>3
    <2>1. CASE i > 12
        BY <1>1, <2>1 DEF Unlike
    <2>2. CASE i <= 12
        <3>1. /\ 1 # n => /\ Quiet(names[n], events[1])
                             /\ Quiet(names[n], events[2])
                             /\ Quiet(names[n], events[3])
              /\ 2 # n => /\ Quiet(names[n], events[4])
                             /\ Quiet(names[n], events[5])
                             /\ Quiet(names[n], events[6])
              /\ 3 # n => /\ Quiet(names[n], events[7])
                             /\ Quiet(names[n], events[8])
                             /\ Quiet(names[n], events[9])
              /\ 4 # n => /\ Quiet(names[n], events[10])
                             /\ Quiet(names[n], events[11])
                             /\ Quiet(names[n], events[12])
            BY <1>2, <1>5
        <3>2. i \in 1..12
            BY <1>1, <2>2
        <3>3. CASE i \in 1..3
            BY <2>0, <3>1, <3>3
        <3>4. CASE i \in 4..6
            BY <2>0, <3>1, <3>4
        <3>5. CASE i \in 7..9
            BY <2>0, <3>1, <3>5
        <3>6. CASE i \in 10..12
            BY <2>0, <3>1, <3>6
        <3>7. QED
            BY <3>2, <3>3, <3>4, <3>5, <3>6
    <2>3. QED
        BY <1>1, <2>1, <2>2
<1>7. Len(events) \in Nat
    BY <1>1
<1> HIDE DEF k
<1>8. Searched(names[n], events).memory = <<values[n]>>
    <2>1. Once(names[n], values[n], events, k)
        BY <1>4, <1>6, <1>7 DEF Once
    <2>2. QED
        BY <2>1, SearchFinds
<1>9. QED
    BY <1>8 DEF events

(* What load_server_status reads of the answer to a serverinfo request.     *)
LEMMA ServerInfoRead ==
    ASSUME NEW h, NEW secure \in BOOLEAN
    PROVE  LET Field(name) == xml_search(ServerInfo(h, secure), name).result
           IN  /\ Field("currentgame") = <<h.game>>
               /\ Field("PairStatus") = <<IF secure THEN 1 ELSE 0>>
               /\ Field("appversion") = <<h.version>>
               /\ \E s : Field("state") = <<s>>
<1> DEFINE names == <<"currentgame", "PairStatus", "appversion", "state">>
           state == IF h.game = 0 THEN "FREE" ELSE "_SERVER_BUSY"
           values == <<h.game, IF secure THEN 1 ELSE 0, h.version, state>>
           Tags == {"DisplayMode", "Width", "Height", "RefreshRate"}
           S == {Open(t) : t \in Tags} \union {Close(t) : t \in Tags}
                \union {Text(v) : v \in Int}
           modes == [i \in DOMAIN Modes |->
             <<Open("DisplayMode")>> \o Element("Width", Modes[i].width)
             \o Element("Height", Modes[i].height)
             \o Element("RefreshRate", Modes[i].refresh)
             \o <<Close("DisplayMode")>>]
           rest == FlattenSeq(modes)
<1>1. /\ Open("DisplayMode") \in S /\ Close("DisplayMode") \in S
      /\ \A t \in Tags, v \in Int : Element(t, v) \in Seq(S)
    <2>1. \A t \in Tags, v \in Int : Open(t) \in S /\ Text(v) \in S /\ Close(t) \in S
        OBVIOUS
    <2> HIDE DEF S
    <2>2. QED
        BY <2>1 DEF Element
<1>2. modes \in Seq(Seq(S))
    <2>1. /\ Len(Modes) \in Nat /\ DOMAIN Modes = 1..Len(Modes)
          /\ \A i \in 1..Len(Modes) : /\ Modes[i].width \in Int /\ Modes[i].height \in Int
                                      /\ Modes[i].refresh \in Int
        <3> DEFINE M == [width : Int, height : Int, refresh : Int]
        <3>1. Modes \in Seq(M)
            BY GamestreamAssumption
        <3>2. \A m \in M : m.width \in Int /\ m.height \in Int /\ m.refresh \in Int
            OBVIOUS
        <3> HIDE DEF M
        <3>3. Len(Modes) \in Nat /\ DOMAIN Modes = 1..Len(Modes)
              /\ \A i \in 1..Len(Modes) : Modes[i] \in M
            BY <3>1, LenProperties, ElementOfSeq
        <3>4. QED
            BY <3>2, <3>3
    <2> HIDE DEF S
    <2>2. ASSUME NEW i \in 1..Len(Modes) PROVE modes[i] \in Seq(S)
        <3> DEFINE a == Element("Width", Modes[i].width)
                   b == Element("Height", Modes[i].height)
                   c == Element("RefreshRate", Modes[i].refresh)
                   o == <<Open("DisplayMode")>>
                   e == <<Close("DisplayMode")>>
        <3>1. o \in Seq(S) /\ a \in Seq(S) /\ b \in Seq(S) /\ c \in Seq(S) /\ e \in Seq(S)
            <4>1. o \in Seq(S) /\ e \in Seq(S)
                BY <1>1
            <4>2. a \in Seq(S) /\ b \in Seq(S) /\ c \in Seq(S)
                BY <1>1, <2>1
            <4>3. QED
                BY <4>1, <4>2
        <3> HIDE DEF o, a, b, c, e
        <3>2. o \o a \in Seq(S)
            BY <3>1, ConcatProperties, Zenon
        <3>3. o \o a \o b \in Seq(S)
            BY <3>1, <3>2, ConcatProperties, Zenon
        <3>4. o \o a \o b \o c \in Seq(S)
            BY <3>1, <3>3, ConcatProperties, Zenon
        <3>5. o \o a \o b \o c \o e \in Seq(S)
            BY <3>1, <3>4, ConcatProperties, Zenon
        <3>6. i \in DOMAIN Modes
            BY <2>1
        <3>7. modes[i] = o \o a \o b \o c \o e
            BY <3>6, Zenon DEF o, a, b, c, e
        <3>8. QED
            BY <3>5, <3>7
    <2> HIDE DEF modes
    <2>3. DOMAIN modes = 1..Len(Modes) /\ modes = [i \in 1..Len(Modes) |-> modes[i]]
        BY <2>1 DEF modes
    <2>4. QED
        BY <2>1, <2>2, <2>3, IsASeq
<1>3. rest \in Seq(S)
    <2> HIDE DEF modes, S
    <2>1. QED
        BY <1>2, FlattenIn
<1>4. \A i \in 1..4 : \A ev \in S : Quiet(names[i], ev)
    <2>1. \A i \in 1..4 : names[i] \notin Tags
        OBVIOUS
    <2> HIDE DEF names
    <2>2. QED
        BY <2>1 DEF Quiet, Open, Close, Text
<1>5. \A i, j \in 1..4 : names[i] = names[j] => i = j
    OBVIOUS
<1> DEFINE events == FourFields(names, values, rest)
<1>7. FieldsIn(events, names, values)
    <2> HIDE DEF S, names, values, rest
    <2>1. Unlike(names, S)
        BY <1>4, <1>5 DEF Unlike
    <2>2. QED
        BY <1>3, <2>1, FieldFound
<1>8. ServerInfo(h, secure) = Document(STATUS_OK, events)
    <2> HIDE DEF rest
    <2>1. /\ names[1] = "currentgame" /\ names[2] = "PairStatus"
          /\ names[3] = "appversion" /\ names[4] = "state"
          /\ values[1] = h.game /\ values[2] = (IF secure THEN 1 ELSE 0)
          /\ values[3] = h.version /\ values[4] = state
        OBVIOUS
    <2> HIDE DEF names, values
    <2>2. QED
        BY <2>1, Zenon DEF ServerInfo, rest, FourFields
<1>9. \A name : xml_search(ServerInfo(h, secure), name).result = Searched(name, events).memory
    <2> HIDE DEF events
    <2>1. QED
        BY <1>8 DEF xml_search, Searched, Document
<1> HIDE DEF events
<1>10. QED
    BY <1>7, <1>9 DEF FieldsIn
-----------------------------------------------------------------------------
(* Pairing again *)

(* The https request of load_server_status, answered by a host that trusts  *)
(* the client, says so.                                                     *)
LEMMA AnsweredSaysPaired ==
    ASSUME privateKey = cert, Trusts(host, cert)
    PROVE  LET s == Status(Reach(Request("serverinfo", TRUE), "answered", FALSE))
           IN  s.ret = GS_OK /\ s.server.paired
<1> DEFINE r == Reach(Request("serverinfo", TRUE), "answered", FALSE)
           Field(name) == xml_search(r.doc, name).result
<1>1. r.ret = GS_OK /\ r.doc = ServerInfo(host, TRUE)
    BY DEF Reach, Accepts, Request, Serve
<1>2. /\ Field("currentgame") # <<>> /\ Field("PairStatus") # <<>>
      /\ Field("appversion") # <<>> /\ Field("state") # <<>>
      /\ Field("PairStatus") = <<1>>
    <2>1. \A s : <<s>> # <<>>
        OBVIOUS
    <2>2. QED
        BY <1>1, <2>1, ServerInfoRead
<1>3. r.doc.wellFormed /\ xml_status(r.doc) = GS_OK /\ xml_status(r.doc) # GS_ERROR
    <2>1. r.doc.wellFormed /\ r.doc.status = STATUS_OK
        <3>1. PICK e : ServerInfo(host, TRUE) = Document(STATUS_OK, e)
            BY Zenon DEF ServerInfo
        <3>2. r.doc = [wellFormed |-> TRUE, status |-> STATUS_OK, events |-> e]
            BY <1>1, <3>1, Zenon DEF Document
        <3> HIDE DEF r
        <3>3. QED
            BY <3>2
    <2> HIDE DEF r
    <2>2. QED
        BY <2>1 DEF xml_status, GS_OK, GS_ERROR
<1> HIDE DEF r
<1>4. <<>> \notin {Field("currentgame"), Field("PairStatus"), Field("appversion"),
                  Field("state")}
    BY <1>2
<1>5. Status(r).ret = GS_OK /\ Status(r).server.paired = (Field("PairStatus") = <<1>>)
    BY <1>1, <1>3, <1>4 DEF Status
<1>6. QED
    BY <1>2, <1>5 DEF r

(* While a client that was trusted from the start asks to be paired and     *)
(* nothing is lost, it learns that it is.                                   *)
KeepInv ==
    /\ pc \in Offline => ~trustedAtStart
    /\ trustedAtStart /\ config.action = "pair" /\ ~lost =>
         /\ pc \in {"https", "action"}
         /\ Trusts(host, cert) /\ privateKey = cert
         /\ pc = "action" => server.paired

LEMMA KeepInvStep ==
    ASSUME GamestreamInv, KeepInv, Next
    PROVE  /\ KeepInv'
           /\ /\ trustedAtStart /\ config.action = "pair" /\ ~lost'
              /\ pc # "off" /\ pc' = "off"
              => Trusts(host', cert)
<1> DEFINE Kept == /\ trustedAtStart /\ config.action = "pair" /\ ~lost'
                   /\ pc # "off" /\ pc' = "off"
                   => Trusts(host', cert)
<1>1. CASE Start \/ Defaults \/ Discover \/ HostConf \/ LoadUniqueId \/ CloseIdFile \/ LoadCert \/ SaveCert
    <2>1. pc \in Offline /\ ~trustedAtStart
        BY <1>1 DEF KeepInv, Offline, Start, Defaults, Discover, HostConf, LoadUniqueId, CloseIdFile,
                    LoadCert, SaveCert
    <2>2. ~trustedAtStart'
        BY <1>1, <2>1 DEF Start, Defaults, Discover, Exit, HostConf, LoadUniqueId, CloseIdFile,
                    LoadCert, SaveCert
    <2>3. QED
        BY <2>1, <2>2 DEF KeepInv
<1>2. CASE ReadCert
    <2>1. pc \in Offline /\ ~trustedAtStart
        BY <1>2 DEF KeepInv, Offline, ReadCert
    <2>2. CASE Exit
        BY <2>1, <2>2 DEF KeepInv, Exit
    <2>3. CASE ~Exit
        <3>1. /\ pc' = "https" /\ cert' = certFile /\ host' = host
              /\ privateKey' = IF keyFile = Empty THEN privateKey ELSE keyFile
              /\ trustedAtStart' = Trusts(host, certFile)
            BY <1>2, <2>3 DEF ReadCert
        <3>2. Trusts(host, certFile) => keyFile = certFile /\ keyFile # Empty
            BY DEF Trusts, GamestreamInv, HostInv, FilesInv, Empty
        <3>3. Trusts(host, certFile) => Trusts(host', cert')
            BY <3>1 DEF Trusts
        <3>4. QED
            BY <2>1, <3>1, <3>2, <3>3 DEF KeepInv, Offline
    <2>4. QED
        BY <2>2, <2>3
<1>3. CASE LoadServerStatus
    <2>1. PICK how \in Fates :
             LET request == Request("serverinfo", pc = "https")
                 s == Status(Reach(request, how, FALSE))
             IN  /\ Send(request, how, FALSE)
                 /\ \/ /\ s.ret # GS_OK /\ pc = "https"
                       /\ UNCHANGED <<process, trustedAtStart>>
                    \/ ~trustedAtStart' /\ pc' = "off"
                    \/ /\ s.ret = GS_OK /\ server' = s.server /\ pc' = "action"
                       /\ UNCHANGED <<config, cert, privateKey, trustedAtStart>>
        BY <1>3 DEF LoadServerStatus, Exit
    <2>2. pc' \in Offline => ~trustedAtStart'
        BY <1>3 DEF LoadServerStatus, Exit, Offline
    <2>3. lost' = (lost \/ how # "answered")
        BY <2>1 DEF Send
    <2>4. CASE ~(trustedAtStart /\ config.action = "pair" /\ ~lost')
        <3>1. ~(trustedAtStart' /\ config'.action = "pair" /\ ~lost')
            BY <2>1, <2>4 DEF process
        <3>2. QED
            BY <2>2, <2>4, <3>1 DEF KeepInv
    <2>5. CASE trustedAtStart /\ config.action = "pair" /\ ~lost'
        <3>1. how = "answered" /\ pc = "https" /\ Trusts(host, cert) /\ privateKey = cert
            BY <1>3, <2>3, <2>5 DEF KeepInv, LoadServerStatus
        <3>2. /\ Status(Reach(Request("serverinfo", TRUE), "answered", FALSE)).ret = GS_OK
              /\ Status(Reach(Request("serverinfo", TRUE), "answered", FALSE)).server.paired
            BY <3>1, AnsweredSaysPaired
        <3>3. host' = host
            BY <2>1, <3>1 DEF Send, Reach, Request, Serve
        <3>4. \/ ~trustedAtStart' /\ pc' = "off"
              \/ /\ server'.paired /\ pc' = "action"
                 /\ UNCHANGED <<cert, privateKey>>
            BY <2>1, <3>1, <3>2
        <3>5. Trusts(host', cert)
            BY <3>1, <3>3
        <3>6. UNCHANGED cert => Trusts(host', cert')
            BY <3>5
        <3>7. QED
            BY <2>2, <3>1, <3>4, <3>5, <3>6 DEF KeepInv
    <2>6. QED
        BY <2>4, <2>5
<1>4. CASE Action
    <2>1. UNCHANGED <<lost, host>> /\ pc = "action"
        BY <1>4 DEF Action
    <2>2. CASE Exit
        BY <2>1, <2>2 DEF KeepInv, Exit
    <2>3. CASE ~Exit
        <3>1. FirstRequest # "none" /\ pc' = FirstRequest /\ UNCHANGED keep
            BY <1>4, <2>3 DEF Action, Go
        <3>2. config.action = "pair" => ~server.paired
            BY <3>1 DEF FirstRequest, MayPair
        <3>3. FirstRequest \notin Offline
            BY DEF FirstRequest, Offline
        <3>4. QED
            BY <2>1, <3>1, <3>2, <3>3 DEF KeepInv, keep, Offline
    <2>4. QED
        BY <2>2, <2>3
<1>5. CASE GetApplist \/ Launch \/ StreamEnds \/ Quit \/ Pair \/ PairDone \/ Unpair
    <2>1. pc \notin {"https", "action"}
        <3>1. \A i \in DOMAIN PairRequests : PairRequests[i] \notin {"https", "action"}
            BY DEF PairRequests
        <3>2. QED
            BY <1>5, <3>1 DEF GetApplist, Launch, StreamEnds, Quit, Pair, PairDone, Unpair
    <2>2. \/ ~trustedAtStart'
          \/ UNCHANGED <<config, trustedAtStart>>
        BY <1>5 DEF GetApplist, Launch, StreamEnds, Quit, Pair, PairDone, Unpair, Exit, Go, keep
    <2>3. lost => lost'
        <3>1. \A request, how, pin : Send(request, how, pin) => (lost => lost')
            BY DEF Send
        <3>2. QED
            BY <1>5, <3>1 DEF GetApplist, Launch, StreamEnds, Quit, Pair, PairDone, Unpair
    <2>4. pc' \in Offline => ~trustedAtStart'
        <3>1. OnlineStep
            BY <1>5, GetApplistOnline, LaunchOnline, StreamEndsOnline, QuitOnline, PairOnline,
               PairDoneOnline, UnpairOnline
        <3>2. pc' \in Offline => pc' = "off"
            BY <3>1 DEF OnlineStep
        <3>3. CASE Pair
            <4>1. pc' # "off"
                BY <3>3 DEF Pair, AfterPair, PairRequests
            <4>2. QED
                BY <3>2, <4>1
        <3>4. CASE GetApplist \/ Launch \/ StreamEnds \/ Quit \/ PairDone \/ Unpair
            BY <3>2, <3>4 DEF GetApplist, Launch, StreamEnds, Quit, PairDone, Unpair, Exit, Go
        <3>5. QED
            BY <1>5, <3>3, <3>4
    <2>5. QED
        BY <2>1, <2>2, <2>3, <2>4 DEF KeepInv
<1>6. CASE Kill
    BY <1>6 DEF Kill, Exit, KeepInv
<1>7. CASE HostForgets
    BY <1>7 DEF HostForgets, KeepInv
<1>8. CASE HostPlays
    <2>1. UNCHANGED <<pc, process, lost, trustedAtStart>>
        BY <1>8 DEF HostPlays
    <2>2. host'.trusted = host.trusted
        BY <1>8 DEF HostPlays, GamestreamInv, HostInv
    <2>3. Trusts(host, cert) => Trusts(host', cert')
        BY <2>1, <2>2 DEF Trusts, process
    <2>4. QED
        BY <2>1, <2>3 DEF KeepInv, process
<1>9. QED
    BY <1>1, <1>2, <1>3, <1>4, <1>5, <1>6, <1>7, <1>8 DEF Next

(* "pair" on a host that trusts the client already does no harm: the client *)
(* asks over HTTPS first, finds PairStatus 1 in the document, whatever the  *)
(* modes after it, and does not pair again (main.c:362, client.c:470).      *)
THEOREM PairAlwaysKeepsPairing == Spec => PairKeepsPairing
<1>1. Init => KeepInv
    BY DEF Init, KeepInv, Offline
<1>2. GamestreamInv /\ KeepInv /\ [Next]_vars => KeepInv'
    <2>1. ASSUME KeepInv, UNCHANGED vars PROVE KeepInv'
        <3>1. UNCHANGED <<pc, config, trustedAtStart, lost, host, cert, privateKey, server>>
            BY <2>1 DEF vars, process
        <3>2. Trusts(host', cert') = Trusts(host, cert)
            BY <3>1 DEF Trusts
        <3>3. QED
            BY <2>1, <3>1, <3>2 DEF KeepInv
    <2>2. QED
        BY <2>1, KeepInvStep
<1>3. GamestreamInv /\ KeepInv /\ [Next]_vars =>
        [/\ trustedAtStart /\ config.action = "pair" /\ ~lost'
         /\ pc # "off" /\ pc' = "off"
         => Trusts(host', cert)]_vars
    BY KeepInvStep
<1>4. QED
    BY <1>1, <1>2, <1>3, InvAlways, PTL DEF Spec, PairKeepsPairing
-----------------------------------------------------------------------------
(* Files: what config_file_parse and config_parse make of their lines *)

(* A line of a file, or an argument of the command line. *)
Step(line, disk, c, from) == IF line THEN ParseLine(c, from) ELSE Argument(disk, c, from)

LEMMA LastIsMax ==
    ASSUME NEW n \in Nat, NEW s, s \subseteq 1..n, n \in s
    PROVE  Max(s) = n
<1>1. \A y \in s : y <= n /\ y \in Nat
    OBVIOUS
<1>2. \A x \in s : (\A y \in s : y <= x) => x = n
    BY <1>1
<1>3. QED
    BY <1>1, <1>2 DEF Max

(* The function of FoldLeft, for the lines from 1 to L. *)
Folded(it, line, disk, c, from, L) ==
    it = [s \in SUBSET (1..L) |->
            IF s = {} THEN c
            ELSE Step(line, disk, it[s \ {Max(s)}], from[Max(s)])]

LEMMA FoldExists ==
    ASSUME NEW line, NEW disk, NEW c, NEW from, NEW L \in Nat
    PROVE  \E it : Folded(it, line, disk, c, from, L)
<1> DEFINE Exists(n) == \E it : Folded(it, line, disk, c, from, n)
           T == {n \in Nat : Exists(n)}
<1>1. Exists(0)
    <2> DEFINE it == [s \in SUBSET (1..0) |-> c]
    <2>1. Folded(it, line, disk, c, from, 0)
        <3>1. \A s \in SUBSET (1..0) : s = {}
            OBVIOUS
        <3>2. QED
            BY <3>1 DEF Folded
    <2>2. QED
        BY <2>1
<1>2. ASSUME NEW n \in Nat, Exists(n) PROVE Exists(n + 1)
    <2>1. PICK f : Folded(f, line, disk, c, from, n)
        BY <1>2
    <2> DEFINE m == n + 1
               St(q, x) == Step(line, disk, q, from[x])
               h == [s \in SUBSET (1..m) |-> IF m \in s THEN St(f[s \ {m}], m) ELSE f[s]]
    <2>2. m \in Nat /\ \A i \in 1..m : i # m => i \in 1..n
        OBVIOUS
    <2>3. \A s \in SUBSET (1..n) : f[s] = IF s = {} THEN c ELSE St(f[s \ {Max(s)}], Max(s))
        BY <2>1 DEF Folded
    <2> HIDE DEF m, St
    <2>4. ASSUME NEW s \in SUBSET (1..m)
          PROVE  h[s] = IF s = {} THEN c ELSE St(h[s \ {Max(s)}], Max(s))
        <3>1. CASE m \in s
            <4>1. Max(s) = m
                BY <2>2, <3>1, LastIsMax
            <4>2. s \ {m} \in SUBSET (1..m) /\ m \notin s \ {m} /\ s # {}
                BY <3>1
            <4>3. h[s \ {m}] = f[s \ {m}]
                BY <4>2
            <4>4. h[s] = St(f[s \ {m}], m)
                BY <3>1
            <4>5. QED
                BY <4>1, <4>2, <4>3, <4>4
        <3>2. CASE m \notin s
            <4>1. s \in SUBSET (1..n)
                BY <2>2, <3>2
            <4> DEFINE r == s \ {Max(s)}
            <4>2. r \in SUBSET (1..m) /\ m \notin r
                BY <3>2
            <4> HIDE DEF r
            <4>3. h[r] = f[r] /\ h[s] = f[s]
                BY <3>2, <4>2
            <4>4. QED
                BY <2>3, <4>1, <4>3 DEF r
        <3>3. QED
            BY <3>1, <3>2
    <2>5. h = [s \in SUBSET (1..m) |-> h[s]]
        OBVIOUS
    <2> HIDE DEF h
    <2>6. Folded(h, line, disk, c, from, m)
        BY <2>4, <2>5 DEF Folded, St
    <2>7. QED
        BY <2>6 DEF m
<1> HIDE DEF Exists
<1>3. T \in SUBSET Nat /\ 0 \in T /\ \A n \in T : n + 1 \in T
    <2>1. \A n \in Nat : n + 1 \in Nat
        OBVIOUS
    <2>2. QED
        BY <1>1, <1>2, <2>1, Zenon
<1> HIDE DEF T
<1>4. \A n \in Nat : n \in T
    BY <1>3, AllNumbers
<1>5. QED
    BY <1>4 DEF T, Exists

(* config_file_parse and config_parse take one line, or argument, after the *)
(* other.                                                                   *)
Taken(g, line, disk, c, from) ==
    /\ g[0] = c
    /\ \A n \in 1..Len(from) : g[n] = Step(line, disk, g[n - 1], from[n])

(* They end with this configuration. *)
Ends(line, disk, c, from, result) ==
    \E g : Taken(g, line, disk, c, from) /\ g[Len(from)] = result

LEMMA FoldTaken ==
    ASSUME NEW line, NEW disk, NEW c, NEW from, NEW it,
           Len(from) \in Nat, Folded(it, line, disk, c, from, Len(from))
    PROVE  Ends(line, disk, c, from, it[1..Len(from)])
<1> DEFINE L == Len(from)
           g == [n \in 0..L |-> it[1..n]]
<1>1. g[0] = c
    <2>1. 1..0 = {} /\ {} \in SUBSET (1..L)
        OBVIOUS
    <2>2. QED
        BY <2>1 DEF Folded
<1>2. ASSUME NEW n \in 1..L
      PROVE  g[n] = Step(line, disk, g[n - 1], from[n])
    <2>1. n \in Nat /\ 1..n \in SUBSET (1..L) /\ n \in 1..n /\ (1..n) \ {n} = 1..(n - 1)
        OBVIOUS
    <2>2. Max(1..n) = n
        BY <2>1, LastIsMax
    <2>3. it[1..n] = Step(line, disk, it[(1..n) \ {Max(1..n)}], from[Max(1..n)])
        BY <2>1 DEF Folded
    <2>4. g[n] = it[1..n] /\ g[n - 1] = it[1..(n - 1)]
        OBVIOUS
    <2>5. QED
        BY <2>1, <2>2, <2>3, <2>4
<1>3. g[L] = it[1..L]
    OBVIOUS
<1> HIDE DEF g
<1>4. Taken(g, line, disk, c, from)
    BY <1>1, <1>2 DEF Taken
<1>5. QED
    BY <1>3, <1>4 DEF Ends

LEMMA FileTaken ==
    ASSUME NEW S, NEW file \in Seq(S), NEW c
    PROVE  Ends(TRUE, <<>>, c, file, config_file_parse(file, c))
<1> DEFINE Eq(it) == it = [s \in SUBSET DOMAIN file |->
                             IF s = {} THEN c ELSE ParseLine(it[s \ {Max(s)}], file[Max(s)])]
           it == CHOOSE f : Eq(f)
<1>1. Len(file) \in Nat /\ DOMAIN file = 1..Len(file)
    BY LenProperties
<1>2. \A f : Eq(f) <=> Folded(f, TRUE, <<>>, c, file, Len(file))
    BY <1>1 DEF Folded, Step
<1>3. Eq(it)
    <2>1. \E f : Eq(f)
        <3> HIDE DEF Eq
        <3>1. QED
            BY <1>1, <1>2, FoldExists
    <2> HIDE DEF Eq
    <2>2. QED
        BY <2>1
<1>4. Folded(it, TRUE, <<>>, c, file, Len(file))
    <2> HIDE DEF it, Eq
    <2>1. QED
        BY <1>2, <1>3
<1>5. config_file_parse(file, c) = it[DOMAIN file]
    BY DEF config_file_parse, FoldLeft, MapThenFoldSet
<1> HIDE DEF it
<1> HIDE DEF Eq
<1>6. Ends(TRUE, <<>>, c, file, it[1..Len(file)])
    BY <1>1, <1>4, FoldTaken
<1>7. QED
    BY <1>1, <1>5, <1>6

LEMMA ArgumentsTaken ==
    ASSUME NEW S, NEW args \in Seq(S), NEW disk, NEW c
    PROVE  Ends(FALSE, disk, c, args, Arguments(disk, c, args))
<1> DEFINE Eq(it) == it = [s \in SUBSET DOMAIN args |->
                             IF s = {} THEN c
                             ELSE Argument(disk, it[s \ {Max(s)}], args[Max(s)])]
           it == CHOOSE f : Eq(f)
<1>1. Len(args) \in Nat /\ DOMAIN args = 1..Len(args)
    BY LenProperties
<1>2. \A f : Eq(f) <=> Folded(f, FALSE, disk, c, args, Len(args))
    BY <1>1 DEF Folded, Step
<1>3. Eq(it)
    <2>1. \E f : Eq(f)
        <3> HIDE DEF Eq
        <3>1. QED
            BY <1>1, <1>2, FoldExists
    <2> HIDE DEF Eq
    <2>2. QED
        BY <2>1
<1>4. Folded(it, FALSE, disk, c, args, Len(args))
    <2> HIDE DEF it, Eq
    <2>1. QED
        BY <1>2, <1>3
<1>5. Arguments(disk, c, args) = it[DOMAIN args]
    BY DEF Arguments, FoldLeft, MapThenFoldSet
<1> HIDE DEF it
<1> HIDE DEF Eq
<1>6. Ends(FALSE, disk, c, args, it[1..Len(args)])
    BY <1>1, <1>4, FoldTaken
<1>7. QED
    BY <1>1, <1>5, <1>6

(* The fields of CONFIGURATION, and the flags among those config_save       *)
(* writes.                                                                  *)
Fields == {"width", "height", "fps", "bitrate", "packetSize", "remote", "surround",
           "debug", "platform", "app", "action", "address", "configFile", "audio",
           "mapping", "keyDir", "sops", "localaudio", "fullscreen", "unsupported",
           "quitappafter", "viewonly", "codec", "inputs", "failed"}
ConfigShape(c) ==
    /\ DOMAIN c = Fields
    /\ c.sops \in BOOLEAN /\ c.localaudio \in BOOLEAN
    /\ c.quitappafter \in BOOLEAN /\ c.viewonly \in BOOLEAN

LEMMA DefaultShape == ConfigShape(DefaultConfig)
BY DEF ConfigShape, DefaultConfig, Fields

LEMMA ArgumentShape ==
    ASSUME NEW c, NEW key, NEW value, ConfigShape(c)
    PROVE  ConfigShape(parse_argument(c, key, value))
<1> DEFINE d == parse_argument(c, key, value)
           flags == {"sops", "localaudio", "quitappafter", "viewonly"}
<1>1. \A f \in Fields \ flags : \A v : ConfigShape([c EXCEPT ![f] = v])
    BY DEF ConfigShape, Fields
<1>2. \A f \in flags : \A v \in BOOLEAN : ConfigShape([c EXCEPT ![f] = v])
    BY DEF ConfigShape, Fields
<1>3. /\ ConfigShape(Resolution(c, 1280, 720)) /\ ConfigShape(Resolution(c, 1920, 1080))
      /\ ConfigShape(Resolution(c, 3840, 2160))
    BY DEF ConfigShape, Fields, Resolution
<1>4. /\ key = "720" => d = Resolution(c, 1280, 720)
      /\ key = "1080" => d = Resolution(c, 1920, 1080)
      /\ key = "4k" => d = Resolution(c, 3840, 2160)
      /\ key = "width" => d = [c EXCEPT !.width = value]
    BY SMT DEF parse_argument
<1>5. /\ key = "height" => d = [c EXCEPT !.height = value]
      /\ key = "bitrate" => d = [c EXCEPT !.bitrate = value]
      /\ key = "packetsize" => d = [c EXCEPT !.packetSize = value]
      /\ key = "app" => d = [c EXCEPT !.app = value]
    BY SMT DEF parse_argument
<1>6. /\ key = "input" => d \in {[c EXCEPT !.failed = TRUE], [c EXCEPT !.inputs = @ + 1]}
      /\ key = "mapping" => d = [c EXCEPT !.mapping = value]
      /\ key = "nosops" => d = [c EXCEPT !.sops = FALSE]
      /\ key = "audio" => d = [c EXCEPT !.audio = value]
    BY SMT DEF parse_argument
<1>7. /\ key = "localaudio" => d = [c EXCEPT !.localaudio = TRUE]
      /\ key = "platform" => d = [c EXCEPT !.platform = value]
      /\ key = "save" => d = [c EXCEPT !.configFile = value]
      /\ key = "keydir" => d = [c EXCEPT !.keyDir = value]
    BY SMT DEF parse_argument
<1>8. /\ key = "remote" => d = [c EXCEPT !.remote = TRUE]
      /\ key = "windowed" => d = [c EXCEPT !.fullscreen = FALSE]
      /\ key = "surround" => d = [c EXCEPT !.surround = TRUE]
      /\ key = "fps" => d = [c EXCEPT !.fps = value]
    BY SMT DEF parse_argument
<1>9. /\ key = "codec" => d \in {c, [c EXCEPT !.codec = value]}
      /\ key = "unsupported" => d = [c EXCEPT !.unsupported = TRUE]
      /\ key = "quitappafter" => d = [c EXCEPT !.quitappafter = TRUE]
      /\ key = "viewonly" => d = [c EXCEPT !.viewonly = TRUE]
    BY SMT DEF parse_argument
<1>10. /\ key = "verbose" => d = [c EXCEPT !.debug = 1]
       /\ key = "debug" => d = [c EXCEPT !.debug = 2]
       /\ key = "word" => d \in {[c EXCEPT !.action = value], [c EXCEPT !.address = value],
                                  [c EXCEPT !.failed = TRUE]}
    BY SMT DEF parse_argument
<1>11. key \notin (Required \ {"config"}) \union Flags \union {"word"} => d = c
    BY DEF parse_argument, Required, Flags
<1> HIDE DEF d, flags
<1>12. ConfigShape(d)
    <2>1. /\ ConfigShape([c EXCEPT !.width = value])
          /\ ConfigShape([c EXCEPT !.height = value])
          /\ ConfigShape([c EXCEPT !.bitrate = value])
          /\ ConfigShape([c EXCEPT !.packetSize = value])
          /\ ConfigShape([c EXCEPT !.app = value])
          /\ ConfigShape([c EXCEPT !.failed = TRUE])
          /\ ConfigShape([c EXCEPT !.inputs = @ + 1])
          /\ ConfigShape([c EXCEPT !.mapping = value])
          /\ ConfigShape([c EXCEPT !.audio = value])
          /\ ConfigShape([c EXCEPT !.platform = value])
          /\ ConfigShape([c EXCEPT !.configFile = value])
          /\ ConfigShape([c EXCEPT !.keyDir = value])
          /\ ConfigShape([c EXCEPT !.remote = TRUE])
          /\ ConfigShape([c EXCEPT !.fullscreen = FALSE])
          /\ ConfigShape([c EXCEPT !.surround = TRUE])
          /\ ConfigShape([c EXCEPT !.fps = value])
          /\ ConfigShape([c EXCEPT !.codec = value])
          /\ ConfigShape([c EXCEPT !.unsupported = TRUE])
          /\ ConfigShape([c EXCEPT !.debug = 1]) /\ ConfigShape([c EXCEPT !.debug = 2])
          /\ ConfigShape([c EXCEPT !.action = value])
          /\ ConfigShape([c EXCEPT !.address = value])
          /\ ConfigShape([c EXCEPT !.sops = FALSE])
          /\ ConfigShape([c EXCEPT !.localaudio = TRUE])
          /\ ConfigShape([c EXCEPT !.quitappafter = TRUE])
          /\ ConfigShape([c EXCEPT !.viewonly = TRUE])
        BY <1>1, <1>2 DEF Fields, flags
    <2> HIDE DEF ConfigShape
    <2>2. CASE key \in {"720", "1080", "4k", "width"}
        BY <1>3, <1>4, <2>1, <2>2
    <2>3. CASE key \in {"height", "bitrate", "packetsize", "app"}
        BY <1>5, <2>1, <2>3, Zenon
    <2>4. CASE key \in {"input", "mapping", "nosops", "audio"}
        BY <1>6, <2>1, <2>4, Zenon
    <2>5. CASE key \in {"localaudio", "platform", "save", "keydir"}
        BY <1>7, <2>1, <2>5, Zenon
    <2>6. CASE key \in {"remote", "windowed", "surround", "fps"}
        BY <1>8, <2>1, <2>6, Zenon
    <2>7. CASE key \in {"codec", "unsupported", "quitappafter", "viewonly"}
        BY <1>9, <2>1, <2>7, Zenon
    <2>8. CASE key \in {"verbose", "debug", "word"}
        BY <1>10, <2>1, <2>8, Zenon
    <2>9. CASE key \notin (Required \ {"config"}) \union Flags \union {"word"}
        BY <1>11, <2>1, <2>9, Zenon
    <2>10. QED
        BY <2>2, <2>3, <2>4, <2>5, <2>6, <2>7, <2>8, <2>9 DEF Required, Flags
<1>13. QED
    BY <1>12 DEF d

LEMMA LineShape ==
    ASSUME NEW c, NEW line, ConfigShape(c)
    PROVE  ConfigShape(ParseLine(c, line))
<1>1. ConfigShape([c EXCEPT !.address = line.value])
    BY DEF ConfigShape, Fields
<1>2. ConfigShape([c EXCEPT !.sops = (line.value = "true")])
    BY DEF ConfigShape, Fields
<1>3. ConfigShape(parse_argument(c, line.key, line.value))
    BY ArgumentShape
<1>4. QED
    BY <1>1, <1>2, <1>3 DEF ParseLine

LEMMA FileShape ==
    ASSUME NEW c, NEW file, NEW S, ConfigShape(c), file \in Seq(S)
    PROVE  ConfigShape(config_file_parse(file, c))
<1>1. PICK g : /\ Taken(g, TRUE, <<>>, c, file)
               /\ g[Len(file)] = config_file_parse(file, c)
    BY FileTaken DEF Ends
<1>2. Len(file) \in Nat
    BY LenProperties
<1> DEFINE T == {n \in Nat : n <= Len(file) => ConfigShape(g[n])}
<1>3. 0 \in T
    BY <1>1 DEF Taken
<1>4. ASSUME NEW n \in T PROVE n + 1 \in T
    <2>1. CASE n + 1 > Len(file)
        BY <1>2, <2>1
    <2>2. CASE n + 1 <= Len(file)
        <3>1. n + 1 \in 1..Len(file) /\ (n + 1) - 1 = n /\ ConfigShape(g[n])
            BY <1>2, <2>2
        <3>2. g[n + 1] = ParseLine(g[n], file[n + 1])
            BY <1>1, <3>1 DEF Taken, Step
        <3>3. ConfigShape(ParseLine(g[n], file[n + 1]))
            BY <3>1, LineShape
        <3>4. QED
            BY <3>2, <3>3
    <2>3. QED
        BY <1>2, <2>1, <2>2
<1> HIDE DEF T
<1>5. T \in SUBSET Nat
    BY DEF T
<1>6. \A n \in Nat : n \in T
    BY <1>3, <1>4, <1>5, AllNumbers
<1>7. QED
    BY <1>1, <1>2, <1>6 DEF T

LEMMA ArgumentsShape ==
    ASSUME NEW S, NEW args, NEW disk, NEW b, args \in Seq(S), ConfigShape(b),
           \A f \in DOMAIN disk : \E R : disk[f] \in Seq(R)
    PROVE  ConfigShape(Arguments(disk, b, args))
<1>1. PICK g : /\ Taken(g, FALSE, disk, b, args)
               /\ g[Len(args)] = Arguments(disk, b, args)
    BY ArgumentsTaken DEF Ends
<1>2. Len(args) \in Nat
    BY LenProperties
<1>3. ASSUME NEW c, NEW arg, ConfigShape(c)
      PROVE  ConfigShape(Argument(disk, c, arg))
    <2>1. ConfigShape(parse_argument(c, arg.key, arg.value))
        BY <1>3, ArgumentShape
    <2>2. ConfigShape([c EXCEPT !.failed = TRUE])
        BY <1>3 DEF ConfigShape, Fields
    <2>3. arg.value \in DOMAIN disk => ConfigShape(config_file_parse(disk[arg.value], c))
        BY <1>3, FileShape
    <2>4. QED
        BY <2>1, <2>2, <2>3 DEF Argument
<1> DEFINE T == {n \in Nat : n <= Len(args) => ConfigShape(g[n])}
<1>4. 0 \in T
    BY <1>1 DEF Taken
<1>5. ASSUME NEW n \in T PROVE n + 1 \in T
    <2>1. CASE n + 1 > Len(args)
        BY <1>2, <2>1
    <2>2. CASE n + 1 <= Len(args)
        <3>1. n + 1 \in 1..Len(args) /\ (n + 1) - 1 = n /\ ConfigShape(g[n])
            BY <1>2, <2>2
        <3>2. g[n + 1] = Argument(disk, g[n], args[n + 1])
            BY <1>1, <3>1 DEF Taken, Step
        <3>3. ConfigShape(Argument(disk, g[n], args[n + 1]))
            BY <3>1, <1>3
        <3>4. QED
            BY <3>2, <3>3
    <2>3. QED
        BY <1>2, <2>1, <2>2
<1> HIDE DEF T
<1>6. T \in SUBSET Nat
    BY DEF T
<1>7. \A n \in Nat : n \in T
    BY <1>4, <1>5, <1>6, AllNumbers
<1>8. QED
    BY <1>1, <1>2, <1>7 DEF T

(* What moonlight.conf makes of the defaults. *)
LEMMA ConfiguredShape ==
    ASSUME NEW disk, \A f \in DOMAIN disk : \E R : disk[f] \in Seq(R)
    PROVE  ConfigShape(Configured(disk))
<1>1. CASE "moonlight.conf" \in DOMAIN disk
    BY <1>1, DefaultShape, FileShape DEF Configured
<1>2. CASE "moonlight.conf" \notin DOMAIN disk
    BY <1>2, DefaultShape DEF Configured
<1>3. QED
    BY <1>1, <1>2

LEMMA CommandLineShape ==
    ASSUME NEW S, NEW args, NEW disk, args \in Seq(S),
           \A f \in DOMAIN disk : \E R : disk[f] \in Seq(R)
    PROVE  ConfigShape(config_parse(args, disk))
<1>1. ConfigShape(Configured(disk))
    BY ConfiguredShape
<1>2. CASE OnlyFile(args, disk)
    <2>1. PICK b : b = [Configured(disk) EXCEPT !.action = "stream"]
        OBVIOUS
    <2>2. ConfigShape(b)
        BY <1>1, <2>1 DEF ConfigShape, Fields
    <2>3. \E R : disk[args[1].value] \in Seq(R)
        BY <1>2 DEF OnlyFile
    <2>4. ConfigShape(config_file_parse(disk[args[1].value], b))
        BY <2>2, <2>3, FileShape
    <2>5. QED
        BY <1>2, <2>1, <2>4 DEF config_parse
<1>3. CASE ~OnlyFile(args, disk)
    BY <1>1, <1>3, ArgumentsShape DEF config_parse
<1>4. QED
    BY <1>2, <1>3
-----------------------------------------------------------------------------
(* Saving *)

(* The sequence is made of these lines, and each of them is in it. *)
Holds(s, lines) ==
    /\ s \in Seq(lines)
    /\ \A w \in lines : \E i \in 1..Len(s) : s[i] = w

LEMMA HoldsBoth ==
    ASSUME NEW s, NEW t, NEW W, NEW V, Holds(s, W), Holds(t, V)
    PROVE  Holds(s \o t, W \union V)
<1> DEFINE U == W \union V
           u == s \o t
<1>1. s \in Seq(W) /\ t \in Seq(V) /\ Len(s) \in Nat /\ Len(t) \in Nat
    BY LenProperties DEF Holds
<1>2. s \in Seq(U) /\ t \in Seq(U)
    <2>1. \A i \in 1..Len(s) : s[i] \in W
        BY <1>1, ElementOfSeq
    <2>2. \A i \in 1..Len(t) : t[i] \in V
        BY <1>1, ElementOfSeq
    <2>3. (\A i \in 1..Len(s) : s[i] \in U) /\ (\A i \in 1..Len(t) : t[i] \in U)
        BY <2>1, <2>2
    <2> HIDE DEF U
    <2>4. DOMAIN s = 1..Len(s) /\ DOMAIN t = 1..Len(t)
        BY <1>1, LenProperties
    <2>5. QED
        BY <1>1, <2>3, <2>4, SeqDef
<1> HIDE DEF U
<1>3. Glued(u, s, t, U)
    BY <1>2, Joined, Zenon
<1> HIDE DEF u
<1>4. \A w \in W : \E i \in 1..Len(u) : u[i] = w
    <2> TAKE w \in W
    <2>1. PICK i \in 1..Len(s) : s[i] = w
        BY DEF Holds
    <2>2. u[i] = w /\ i \in 1..Len(u)
        BY <1>1, <1>3, <2>1 DEF Glued
    <2>3. QED
        BY <2>2
<1>5. \A w \in V : \E i \in 1..Len(u) : u[i] = w
    <2> TAKE w \in V
    <2>1. PICK i \in 1..Len(t) : t[i] = w
        BY DEF Holds
    <2> DEFINE k == Len(s) + i
    <2>2. k \in 1..(Len(s) + Len(t)) /\ ~(k <= Len(s)) /\ k - Len(s) = i
        BY <1>1
    <2>3. u[k] = w /\ k \in 1..Len(u)
        BY <1>3, <2>1, <2>2 DEF Glued
    <2>4. QED
        BY <2>3
<1>6. u \in Seq(U)
    BY <1>3 DEF Glued
<1>7. Holds(u, U)
    BY <1>4, <1>5, <1>6 DEF Holds, U
<1>8. QED
    BY <1>7 DEF u, U

(* The line, when it is written. *)
If(cond, key, value) == IF cond THEN {Line(key, value)} ELSE {}

LEMMA HoldsOne ==
    ASSUME NEW key, NEW value
    PROVE  Holds(<<Line(key, value)>>, {Line(key, value)})
<1> DEFINE l == Line(key, value)
<1>1. \A x : <<x>> \in Seq({x}) /\ Len(<<x>>) = 1 /\ <<x>>[1] = x
    OBVIOUS
<1> HIDE DEF l
<1>2. Holds(<<l>>, {l})
    BY <1>1 DEF Holds
<1>3. QED
    BY <1>2 DEF l

LEMMA HoldsNone == Holds(<<>>, {})
BY EmptySeq DEF Holds

(* What config_save writes. *)
Written(c) ==
           If(c.width # 1280, "width", c.width)
    \union If(c.height # 720, "height", c.height)
    \union If(c.fps # 60, "fps", c.fps)
    \union If(c.bitrate # -1, "bitrate", c.bitrate)
    \union If(c.packetSize # 1024, "packetsize", c.packetSize)
    \union If(~c.sops, "sops", "false")
    \union If(c.localaudio, "localaudio", "true")
    \union If(c.quitappafter, "quitappafter", "true")
    \union If(c.viewonly, "viewonly", "true")
    \union If(c.app # "Steam", "app", c.app)

LEMMA SaveWrites ==
    ASSUME NEW c
    PROVE  Holds(config_save(c), Written(c))
<1> DEFINE w1 == When(c.width # 1280, "width", c.width)
           w2 == When(c.height # 720, "height", c.height)
           w3 == When(c.fps # 60, "fps", c.fps)
           w4 == When(c.bitrate # -1, "bitrate", c.bitrate)
           w5 == When(c.packetSize # 1024, "packetsize", c.packetSize)
           w6 == When(~c.sops, "sops", "false")
           w7 == When(c.localaudio, "localaudio", "true")
           w8 == When(c.quitappafter, "quitappafter", "true")
           w9 == When(c.viewonly, "viewonly", "true")
           w10 == When(c.app # "Steam", "app", c.app)
           i1 == If(c.width # 1280, "width", c.width)
           i2 == If(c.height # 720, "height", c.height)
           i3 == If(c.fps # 60, "fps", c.fps)
           i4 == If(c.bitrate # -1, "bitrate", c.bitrate)
           i5 == If(c.packetSize # 1024, "packetsize", c.packetSize)
           i6 == If(~c.sops, "sops", "false")
           i7 == If(c.localaudio, "localaudio", "true")
           i8 == If(c.quitappafter, "quitappafter", "true")
           i9 == If(c.viewonly, "viewonly", "true")
           i10 == If(c.app # "Steam", "app", c.app)
<1>1. /\ Holds(w1, i1) /\ Holds(w2, i2) /\ Holds(w3, i3) /\ Holds(w4, i4) /\ Holds(w5, i5)
      /\ Holds(w6, i6) /\ Holds(w7, i7) /\ Holds(w8, i8) /\ Holds(w9, i9) /\ Holds(w10, i10)
    BY HoldsOne, HoldsNone, SMT DEF When, If
<1>2. /\ config_save(c) = w1 \o w2 \o w3 \o w4 \o w5 \o w6 \o w7 \o w8 \o w9 \o w10
      /\ Written(c) = i1 \union i2 \union i3 \union i4 \union i5 \union i6 \union i7
                      \union i8 \union i9 \union i10
    BY DEF config_save, Written
<1> HIDE DEF w1, w2, w3, w4, w5, w6, w7, w8, w9, w10, i1, i2, i3, i4, i5, i6, i7, i8, i9, i10
<1>3. Holds(w1 \o w2, i1 \union i2)
    BY <1>1, HoldsBoth, Zenon
<1>4. Holds(w1 \o w2 \o w3, i1 \union i2 \union i3)
    BY <1>1, <1>3, HoldsBoth, Zenon
<1>5. Holds(w1 \o w2 \o w3 \o w4, i1 \union i2 \union i3 \union i4)
    BY <1>1, <1>4, HoldsBoth, Zenon
<1>6. Holds(w1 \o w2 \o w3 \o w4 \o w5, i1 \union i2 \union i3 \union i4 \union i5)
    BY <1>1, <1>5, HoldsBoth, Zenon
<1>7. Holds(w1 \o w2 \o w3 \o w4 \o w5 \o w6,
            i1 \union i2 \union i3 \union i4 \union i5 \union i6)
    BY <1>1, <1>6, HoldsBoth, Zenon
<1>8. Holds(w1 \o w2 \o w3 \o w4 \o w5 \o w6 \o w7,
            i1 \union i2 \union i3 \union i4 \union i5 \union i6 \union i7)
    BY <1>1, <1>7, HoldsBoth, Zenon
<1>9. Holds(w1 \o w2 \o w3 \o w4 \o w5 \o w6 \o w7 \o w8,
            i1 \union i2 \union i3 \union i4 \union i5 \union i6 \union i7 \union i8)
    BY <1>1, <1>8, HoldsBoth, Zenon
<1>10. Holds(w1 \o w2 \o w3 \o w4 \o w5 \o w6 \o w7 \o w8 \o w9,
             i1 \union i2 \union i3 \union i4 \union i5 \union i6 \union i7 \union i8 \union i9)
    BY <1>1, <1>9, HoldsBoth, Zenon
<1>11. Holds(w1 \o w2 \o w3 \o w4 \o w5 \o w6 \o w7 \o w8 \o w9 \o w10,
             i1 \union i2 \union i3 \union i4 \union i5 \union i6 \union i7 \union i8 \union i9
                \union i10)
    BY <1>1, <1>10, HoldsBoth, Zenon
<1>12. QED
    BY <1>2, <1>11

(* After the lines with these keys: what was written, or what was before. *)
Fits(d, b, c, keys) ==
    /\ DOMAIN d = Fields
    /\ d.width = IF "width" \in keys THEN c.width ELSE b.width
    /\ d.height = IF "height" \in keys THEN c.height ELSE b.height
    /\ d.fps = IF "fps" \in keys THEN c.fps ELSE b.fps
    /\ d.bitrate = IF "bitrate" \in keys THEN c.bitrate ELSE b.bitrate
    /\ d.packetSize = IF "packetsize" \in keys THEN c.packetSize ELSE b.packetSize
    /\ "sops" \in keys => d.sops = FALSE
    /\ "sops" \notin keys => d.sops = b.sops
    /\ "localaudio" \in keys => d.localaudio = TRUE
    /\ "localaudio" \notin keys => d.localaudio = b.localaudio
    /\ "quitappafter" \in keys => d.quitappafter = TRUE
    /\ "quitappafter" \notin keys => d.quitappafter = b.quitappafter
    /\ "viewonly" \in keys => d.viewonly = TRUE
    /\ "viewonly" \notin keys => d.viewonly = b.viewonly
    /\ d.app = IF "app" \in keys THEN c.app ELSE b.app

LEMMA LineRead ==
    ASSUME NEW b, NEW c, NEW d, NEW keys, NEW l, Fits(d, b, c, keys), l \in Written(c)
    PROVE  Fits(ParseLine(d, l), b, c, keys \union {l.key})
<1>1. /\ l.key \in {"width", "height", "fps", "bitrate", "packetsize", "sops", "localaudio",
                    "quitappafter", "viewonly", "app"}
      /\ l.key = "width" => l.value = c.width
      /\ l.key = "height" => l.value = c.height
      /\ l.key = "fps" => l.value = c.fps
      /\ l.key = "bitrate" => l.value = c.bitrate
      /\ l.key = "packetsize" => l.value = c.packetSize
      /\ l.key = "sops" => l.value = "false"
      /\ l.key \in {"localaudio", "quitappafter", "viewonly"} => l.value = "true"
      /\ l.key = "app" => l.value = c.app
    <2>1. \A cond, key, value : l \in If(cond, key, value) => l.key = key /\ l.value = value
        BY DEF If, Line
    <2>2. QED
        BY <2>1 DEF Written
<1>2. \/ l.key \in Required
      \/ l.key = "sops"
      \/ l.key \in Flags /\ l.value = "true"
    BY <1>1 DEF Required, Flags
<1>3. l.key # "sops" => ParseLine(d, l) = parse_argument(d, l.key, l.value)
    BY <1>1, <1>2 DEF ParseLine, Required
<1>4. l.key = "sops" => ParseLine(d, l) = [d EXCEPT !.sops = FALSE]
    <2>1. l.key = "sops" => ParseLine(d, l) = [d EXCEPT !.sops = (l.value = "true")]
        <3>1. ASSUME NEW v, v = (l.value = "true"), l.key = "sops"
              PROVE  ParseLine(d, l) = [d EXCEPT !.sops = v]
            BY <3>1 DEF ParseLine, Required, Flags
        <3>2. QED
            BY <3>1
    <2>2. l.key = "sops" => (l.value = "true") = FALSE
        BY <1>1
    <2>3. QED
        BY <2>1, <2>2
<1> DEFINE e == parse_argument(d, l.key, l.value)
<1>5. /\ l.key = "width" => e = [d EXCEPT !.width = c.width]
      /\ l.key = "height" => e = [d EXCEPT !.height = c.height]
      /\ l.key = "fps" => e = [d EXCEPT !.fps = c.fps]
    BY <1>1, SMT DEF parse_argument
<1>6. /\ l.key = "bitrate" => e = [d EXCEPT !.bitrate = c.bitrate]
      /\ l.key = "packetsize" => e = [d EXCEPT !.packetSize = c.packetSize]
      /\ l.key = "app" => e = [d EXCEPT !.app = c.app]
    BY <1>1, SMT DEF parse_argument
<1>7. /\ l.key = "localaudio" => e = [d EXCEPT !.localaudio = TRUE]
      /\ l.key = "quitappafter" => e = [d EXCEPT !.quitappafter = TRUE]
      /\ l.key = "viewonly" => e = [d EXCEPT !.viewonly = TRUE]
    BY SMT DEF parse_argument
<1> HIDE DEF e
<1> DEFINE more == keys \union {l.key}
           p == ParseLine(d, l)
<1>8. p = IF l.key = "sops" THEN [d EXCEPT !.sops = FALSE] ELSE e
    BY <1>3, <1>4 DEF e
<1> HIDE DEF p
<1>9. Fits(p, b, c, more)
    <2>1. CASE l.key = "width"
        BY <1>5, <1>8, <2>1 DEF Fits, Fields
    <2>2. CASE l.key = "height"
        BY <1>5, <1>8, <2>2 DEF Fits, Fields
    <2>3. CASE l.key = "fps"
        BY <1>5, <1>8, <2>3 DEF Fits, Fields
    <2>4. CASE l.key = "bitrate"
        BY <1>6, <1>8, <2>4 DEF Fits, Fields
    <2>5. CASE l.key = "packetsize"
        BY <1>6, <1>8, <2>5 DEF Fits, Fields
    <2>6. CASE l.key = "sops"
        BY <1>8, <2>6 DEF Fits, Fields
    <2>7. CASE l.key = "localaudio"
        BY <1>7, <1>8, <2>7 DEF Fits, Fields
    <2>8. CASE l.key = "quitappafter"
        BY <1>7, <1>8, <2>8 DEF Fits, Fields
    <2>9. CASE l.key = "viewonly"
        BY <1>7, <1>8, <2>9 DEF Fits, Fields
    <2>10. CASE l.key = "app"
        BY <1>6, <1>8, <2>10 DEF Fits, Fields
    <2>11. QED
        BY <1>1, <2>1, <2>2, <2>3, <2>4, <2>5, <2>6, <2>7, <2>8, <2>9, <2>10
<1>10. QED
    BY <1>9 DEF p

(* What config_file_parse makes of a saved configuration. *)
Restored(d, b, c) ==
    /\ ConfigShape(d)
    /\ d.width = IF c.width # 1280 THEN c.width ELSE b.width
    /\ d.height = IF c.height # 720 THEN c.height ELSE b.height
    /\ d.fps = IF c.fps # 60 THEN c.fps ELSE b.fps
    /\ d.bitrate = IF c.bitrate # -1 THEN c.bitrate ELSE b.bitrate
    /\ d.packetSize = IF c.packetSize # 1024 THEN c.packetSize ELSE b.packetSize
    /\ d.app = IF c.app # "Steam" THEN c.app ELSE b.app
    /\ IF c.sops THEN d.sops = b.sops ELSE d.sops = FALSE
    /\ IF c.localaudio THEN d.localaudio = TRUE ELSE d.localaudio = b.localaudio
    /\ IF c.quitappafter THEN d.quitappafter = TRUE ELSE d.quitappafter = b.quitappafter
    /\ IF c.viewonly THEN d.viewonly = TRUE ELSE d.viewonly = b.viewonly

LEMMA SaveIsRead ==
    ASSUME NEW b, NEW c, ConfigShape(b), ConfigShape(c)
    PROVE  Restored(config_file_parse(config_save(c), b), b, c)
<1> DEFINE file == config_save(c)
           d == config_file_parse(file, b)
<1>1. Holds(file, Written(c))
    BY SaveWrites
<1> HIDE DEF file
<1>2. file \in Seq(Written(c)) /\ Len(file) \in Nat
      /\ \A i \in 1..Len(file) : file[i] \in Written(c)
    BY <1>1, LenProperties, ElementOfSeq DEF Holds
<1>3. PICK g : Taken(g, TRUE, <<>>, b, file) /\ g[Len(file)] = d
    BY <1>2, FileTaken DEF Ends
<1> DEFINE keys(n) == {file[i].key : i \in 1..n}
           T == {n \in Nat : n <= Len(file) => Fits(g[n], b, c, keys(n))}
<1>4. 0 \in T
    <2>1. keys(0) = {} /\ g[0] = b
        BY <1>3 DEF Taken
    <2>2. Fits(b, b, c, {})
        BY DEF Fits, ConfigShape
    <2>3. QED
        BY <2>1, <2>2
<1>5. ASSUME NEW n \in T PROVE n + 1 \in T
    <2>1. CASE n + 1 > Len(file)
        BY <1>2, <2>1
    <2>2. CASE n + 1 <= Len(file)
        <3>1. n + 1 \in 1..Len(file) /\ (n + 1) - 1 = n /\ Fits(g[n], b, c, keys(n))
            BY <1>2, <2>2
        <3>2. g[n + 1] = ParseLine(g[n], file[n + 1])
            BY <1>3, <3>1 DEF Taken, Step
        <3>3. Fits(ParseLine(g[n], file[n + 1]), b, c, keys(n) \union {file[n + 1].key})
            <4> HIDE DEF keys
            <4>1. QED
                BY <1>2, <3>1, LineRead
        <3>4. keys(n + 1) = keys(n) \union {file[n + 1].key}
            <4>1. n \in Nat
                OBVIOUS
            <4>2. 1..(n + 1) = (1..n) \union {n + 1}
                BY <4>1
            <4>3. QED
                BY <4>2
        <3>5. Fits(g[n + 1], b, c, keys(n + 1))
            <4> HIDE DEF keys
            <4>1. QED
                BY <3>2, <3>3, <3>4, Zenon
        <3> HIDE DEF keys
        <3>6. n + 1 \in Nat
            OBVIOUS
        <3>7. QED
            BY <3>5, <3>6
    <2>3. QED
        BY <1>2, <2>1, <2>2
<1> HIDE DEF T
<1>6. T \in SUBSET Nat
    BY DEF T
<1>7. \A n \in Nat : n \in T
    BY <1>4, <1>5, <1>6, AllNumbers
<1>8. Fits(d, b, c, keys(Len(file)))
    <2> HIDE DEF keys
    <2>1. Len(file) \in T
        BY <1>2, <1>7
    <2>2. QED
        BY <1>2, <1>3, <2>1 DEF T
<1>9. keys(Len(file)) = {w.key : w \in Written(c)}
    BY <1>1, <1>2 DEF Holds
<1> DEFINE K == {w.key : w \in Written(c)}
<1>10. ConfigShape(d)
    BY <1>2, FileShape
<1>11. /\ c.width # 1280 => "width" \in K
       /\ c.height # 720 => "height" \in K
       /\ c.fps # 60 => "fps" \in K
       /\ c.bitrate # -1 => "bitrate" \in K
       /\ c.packetSize # 1024 => "packetsize" \in K
       /\ ~c.sops => "sops" \in K
       /\ c.localaudio => "localaudio" \in K
       /\ c.quitappafter => "quitappafter" \in K
       /\ c.viewonly => "viewonly" \in K
       /\ c.app # "Steam" => "app" \in K
    <2>1. \A key, value : Line(key, value) \in Written(c) => key \in K
        BY DEF Line
    <2> HIDE DEF K
    <2>2. QED
        BY <2>1 DEF Written, If
<1>12. /\ "width" \in K => c.width # 1280
       /\ "height" \in K => c.height # 720
       /\ "fps" \in K => c.fps # 60
       /\ "bitrate" \in K => c.bitrate # -1
       /\ "packetsize" \in K => c.packetSize # 1024
       /\ "sops" \in K => ~c.sops
       /\ "localaudio" \in K => c.localaudio
       /\ "quitappafter" \in K => c.quitappafter
       /\ "viewonly" \in K => c.viewonly
       /\ "app" \in K => c.app # "Steam"
    BY DEF Written, If, Line
<1> HIDE DEF d, K, keys
<1>13. Fits(d, b, c, K)
    BY <1>8, <1>9 DEF K
<1>14. Restored(d, b, c)
    <2>1. /\ d.width = IF c.width # 1280 THEN c.width ELSE b.width
          /\ d.height = IF c.height # 720 THEN c.height ELSE b.height
          /\ d.fps = IF c.fps # 60 THEN c.fps ELSE b.fps
          /\ d.bitrate = IF c.bitrate # -1 THEN c.bitrate ELSE b.bitrate
        BY <1>11, <1>12, <1>13 DEF Fits
    <2>2. /\ d.packetSize = IF c.packetSize # 1024 THEN c.packetSize ELSE b.packetSize
          /\ d.app = IF c.app # "Steam" THEN c.app ELSE b.app
        BY <1>11, <1>12, <1>13 DEF Fits
    <2>3. IF c.sops THEN d.sops = b.sops ELSE d.sops = FALSE
        <3>1. "sops" \in K <=> ~c.sops
            BY <1>11, <1>12
        <3>2. /\ "sops" \in K => d.sops = FALSE
              /\ "sops" \notin K => d.sops = b.sops
            BY <1>13 DEF Fits
        <3>3. QED
            BY <3>1, <3>2, Zenon
    <2>4. IF c.localaudio THEN d.localaudio = TRUE ELSE d.localaudio = b.localaudio
        <3>1. "localaudio" \in K <=> c.localaudio
            BY <1>11, <1>12
        <3>2. /\ "localaudio" \in K => d.localaudio = TRUE
              /\ "localaudio" \notin K => d.localaudio = b.localaudio
            BY <1>13 DEF Fits
        <3>3. QED
            BY <3>1, <3>2, Zenon
    <2>5. IF c.quitappafter THEN d.quitappafter = TRUE ELSE d.quitappafter = b.quitappafter
        <3>1. "quitappafter" \in K <=> c.quitappafter
            BY <1>11, <1>12
        <3>2. /\ "quitappafter" \in K => d.quitappafter = TRUE
              /\ "quitappafter" \notin K => d.quitappafter = b.quitappafter
            BY <1>13 DEF Fits
        <3>3. QED
            BY <3>1, <3>2, Zenon
    <2>6. IF c.viewonly THEN d.viewonly = TRUE ELSE d.viewonly = b.viewonly
        <3>1. "viewonly" \in K <=> c.viewonly
            BY <1>11, <1>12
        <3>2. /\ "viewonly" \in K => d.viewonly = TRUE
              /\ "viewonly" \notin K => d.viewonly = b.viewonly
            BY <1>13 DEF Fits
        <3>3. QED
            BY <3>1, <3>2, Zenon
    <2>7. QED
        BY <1>10, <2>1, <2>2, <2>3, <2>4, <2>5, <2>6 DEF Restored
<1>15. QED
    BY <1>14 DEF d, file


Options == {"width", "height", "fps", "bitrate", "packetSize", "sops", "localaudio",
            "quitappafter", "viewonly", "app"}

LEMMA OptionsLeftOut ==
    /\ DOMAIN LeftOut = Options
    /\ LeftOut["width"] = 1280 /\ LeftOut["height"] = 720 /\ LeftOut["fps"] = 60
    /\ LeftOut["bitrate"] = -1 /\ LeftOut["packetSize"] = 1024 /\ LeftOut["app"] = "Steam"
    /\ LeftOut["sops"] = TRUE /\ LeftOut["localaudio"] = FALSE
    /\ LeftOut["quitappafter"] = FALSE /\ LeftOut["viewonly"] = FALSE
BY DEF LeftOut, Options

(* The same, option by option. *)
LEMMA OptionsRestored ==
    ASSUME NEW b, NEW c, NEW d, ConfigShape(c), Restored(d, b, c), NEW o \in DOMAIN LeftOut
    PROVE  d[o] = IF c[o] # LeftOut[o] THEN c[o] ELSE b[o]
<1>1. o \in Options
    BY OptionsLeftOut
<1>2. CASE o \in {"width", "height", "fps"}
    BY <1>2, OptionsLeftOut DEF Restored
<1>3. CASE o \in {"bitrate", "packetSize", "app"}
    BY <1>3, OptionsLeftOut DEF Restored
<1>4. ASSUME NEW x, NEW z, NEW y \in BOOLEAN
      PROVE  /\ (IF y THEN x = z ELSE x = FALSE) => x = IF y # TRUE THEN y ELSE z
             /\ (IF y THEN x = TRUE ELSE x = z) => x = IF y # FALSE THEN y ELSE z
    <2>1. CASE y = TRUE
        BY <2>1
    <2>2. CASE y = FALSE
        BY <2>2
    <2>3. QED
        BY <1>4, <2>1, <2>2
<1>5. CASE o = "sops"
    <2>1. c["sops"] \in BOOLEAN /\ IF c["sops"] THEN d.sops = b.sops ELSE d.sops = FALSE
        BY DEF Restored, ConfigShape
    <2>2. d["sops"] = IF c["sops"] # TRUE THEN c["sops"] ELSE b["sops"]
        BY <1>4, <2>1
    <2>3. LeftOut["sops"] = TRUE
        BY OptionsLeftOut
    <2>4. QED
        BY <1>5, <2>2, <2>3, Zenon
<1>6. CASE o = "localaudio"
    <2>1. c["localaudio"] \in BOOLEAN /\ IF c["localaudio"] THEN d.localaudio = TRUE ELSE d.localaudio = b.localaudio
        BY DEF Restored, ConfigShape
    <2>2. d["localaudio"] = IF c["localaudio"] # FALSE THEN c["localaudio"] ELSE b["localaudio"]
        BY <1>4, <2>1
    <2>3. LeftOut["localaudio"] = FALSE
        BY OptionsLeftOut
    <2>4. QED
        BY <1>6, <2>2, <2>3, Zenon
<1>7. CASE o = "quitappafter"
    <2>1. c["quitappafter"] \in BOOLEAN /\ IF c["quitappafter"] THEN d.quitappafter = TRUE ELSE d.quitappafter = b.quitappafter
        BY DEF Restored, ConfigShape
    <2>2. d["quitappafter"] = IF c["quitappafter"] # FALSE THEN c["quitappafter"] ELSE b["quitappafter"]
        BY <1>4, <2>1
    <2>3. LeftOut["quitappafter"] = FALSE
        BY OptionsLeftOut
    <2>4. QED
        BY <1>7, <2>2, <2>3, Zenon
<1>8. CASE o = "viewonly"
    <2>1. c["viewonly"] \in BOOLEAN /\ IF c["viewonly"] THEN d.viewonly = TRUE ELSE d.viewonly = b.viewonly
        BY DEF Restored, ConfigShape
    <2>2. d["viewonly"] = IF c["viewonly"] # FALSE THEN c["viewonly"] ELSE b["viewonly"]
        BY <1>4, <2>1
    <2>3. LeftOut["viewonly"] = FALSE
        BY OptionsLeftOut
    <2>4. QED
        BY <1>8, <2>2, <2>3, Zenon
<1>9. QED
    BY <1>1, <1>2, <1>3, <1>5, <1>6, <1>7, <1>8 DEF Options

(* The values left to the program depend on these three. *)
LEMMA ResolveSame ==
    ASSUME NEW c, NEW d, ConfigShape(c), ConfigShape(d),
           \A o \in DOMAIN LeftOut \ {"fps"} : d[o] = c[o],
           \/ d.fps = c.fps
           \/ c.fps = 60 /\ d.fps = -1 /\ ~(c.height >= 1080)
    PROVE  \A o \in DOMAIN LeftOut : Resolve(d)[o] = Resolve(c)[o]
<1> DEFINE Rate(e) == IF e.fps # -1 THEN e.fps ELSE IF e.height >= 1080 THEN 30 ELSE 60
           Bits(e, fps) == CASE e.bitrate # -1 -> e.bitrate
                     [] e.bitrate = -1 /\ e.height >= 1080 /\ fps >= 60 -> 20000
                     [] e.bitrate = -1 /\ (e.height >= 1080 \/ fps >= 60)
                                       /\ ~(e.height >= 1080 /\ fps >= 60) -> 10000
                     [] OTHER -> 5000
<1>1. ASSUME NEW e
      PROVE  Resolve(e) = [e EXCEPT !.fps = Rate(e), !.bitrate = Bits(e, Rate(e))]
    BY DEF Resolve
<1>2. d.height = c.height /\ d.bitrate = c.bitrate
    BY OptionsLeftOut DEF Options
<1>3. Rate(d) = Rate(c)
    <2>1. CASE d.fps = c.fps
        BY <1>2, <2>1
    <2>2. CASE c.fps = 60 /\ d.fps = -1 /\ ~(c.height >= 1080)
        BY <1>2, <2>2
    <2>3. QED
        BY <2>1, <2>2
<1>4. \A fps : Bits(d, fps) = Bits(c, fps)
    BY <1>2
<1> HIDE DEF Rate, Bits
<1>5. ASSUME NEW e, ConfigShape(e), NEW o \in Options
      PROVE  Resolve(e)[o] = IF o = "fps" THEN Rate(e)
                             ELSE IF o = "bitrate" THEN Bits(e, Rate(e)) ELSE e[o]
    <2>1. PICK fps, bits : fps = Rate(e) /\ bits = Bits(e, Rate(e))
        OBVIOUS
    <2>2. Resolve(e) = [e EXCEPT !.fps = fps, !.bitrate = bits] /\ DOMAIN e = Fields
        BY <1>1, <1>5, <2>1 DEF ConfigShape
    <2>3. o \in Fields /\ "fps" \in Fields /\ "bitrate" \in Fields
        BY DEF Options, Fields
    <2>4. [e EXCEPT !.fps = fps, !.bitrate = bits][o] =
              IF o = "fps" THEN fps ELSE IF o = "bitrate" THEN bits ELSE e[o]
        BY <2>2, <2>3
    <2>5. QED
        BY <2>1, <2>2, <2>4
<1>6. QED
    BY <1>3, <1>4, <1>5, OptionsLeftOut

(* The files are sequences of lines; a run that saves has written what its  *)
(* configuration is, before its last defaults are filled in.                *)
SavedInv ==
    /\ \A f \in DOMAIN confFiles : \E R : confFiles[f] \in Seq(R)
    /\ pc = "defaults" =>
         /\ ConfigShape(config)
         /\ config.configFile # Unset =>
              /\ config.configFile \in DOMAIN confFiles
              /\ confFiles[config.configFile] = config_save(config)

LEMMA LinesSeq ==
    ASSUME NEW s, Len(s) \in Nat, s = [i \in 1..Len(s) |-> s[i]]
    PROVE  s \in Seq({s[i] : i \in 1..Len(s)})
BY SeqDef

LEMMA SavedInvStart ==
    ASSUME SavedInv, Start
    PROVE  SavedInv'
<1>1. PICK args \in CommandLines : config' = config_parse(args, confFiles)
    BY DEF Start
<1>2. args \in Seq({args[i] : i \in 1..Len(args)})
    BY LinesSeq, GamestreamAssumption
<1>3. ConfigShape(config')
    BY <1>1, <1>2, CommandLineShape DEF SavedInv
<1>4. CASE config'.configFile = Unset
    BY <1>3, <1>4 DEF SavedInv, Start
<1>5. CASE config'.configFile # Unset
    <2>1. PICK n, file : n = config'.configFile /\ file = config_save(config')
        OBVIOUS
    <2>2. confFiles' = [f \in {n} \union DOMAIN confFiles |->
                           IF f = n THEN file ELSE confFiles[f]]
        BY <1>5, <2>1 DEF Start
    <2>3. \E R : file \in Seq(R)
        BY <2>1, SaveWrites DEF Holds
    <2>4. \A f \in DOMAIN confFiles' : \E R : confFiles'[f] \in Seq(R)
        BY <2>2, <2>3 DEF SavedInv
    <2>5. n \in DOMAIN confFiles' /\ confFiles'[n] = file
        BY <2>2
    <2>6. QED
        BY <1>3, <2>1, <2>4, <2>5 DEF SavedInv
<1>6. QED
    BY <1>4, <1>5

LEMMA SavedInvStep ==
    ASSUME SavedInv, Next
    PROVE  SavedInv'
<1>1. CASE Start
    BY <1>1, SavedInvStart
<1>2. ASSUME confFiles' = confFiles, pc' # "defaults" \/ UNCHANGED <<pc, config>>
      PROVE  SavedInv'
    BY <1>2 DEF SavedInv
<1>3. CASE Defaults \/ Discover \/ HostConf \/ LoadUniqueId \/ CloseIdFile
    <2>1. confFiles' = confFiles
        BY <1>3 DEF Defaults, Discover, HostConf, files, LoadUniqueId, CloseIdFile, initUnchanged
    <2>2. pc' # "defaults"
        BY <1>3 DEF Defaults, Discover, HostConf, LoadUniqueId, CloseIdFile, Exit
    <2>3. QED
        BY <1>2, <2>1, <2>2
<1>4. CASE LoadCert \/ SaveCert \/ ReadCert
    <2>1. confFiles' = confFiles
        BY <1>4 DEF LoadCert, SaveCert, ReadCert, initUnchanged, files
    <2>2. pc' # "defaults"
        BY <1>4 DEF LoadCert, SaveCert, ReadCert, Exit
    <2>3. QED
        BY <1>2, <2>1, <2>2
<1>5. CASE LoadServerStatus \/ Action \/ GetApplist \/ Launch \/ StreamEnds \/ Quit
    <2>1. confFiles' = confFiles
        BY <1>5 DEF files, LoadServerStatus, Action, GetApplist, Launch, StreamEnds, Quit
    <2>2. pc' # "defaults"
        BY <1>5 DEF LoadServerStatus, Action, GetApplist, Launch, StreamEnds, Quit, Exit, Go,
                    FirstRequest
    <2>3. QED
        BY <1>2, <2>1, <2>2
<1>6. CASE Pair \/ PairDone \/ Unpair \/ Kill
    <2>1. confFiles' = confFiles
        BY <1>6 DEF files, Pair, PairDone, Unpair, Kill
    <2>2. ASSUME NEW i \in DOMAIN PairRequests, NEW result
          PROVE  AfterPair(i, result) # "defaults"
        <3>1. i \in {1, 2, 3, 4, 5} /\ Len(PairRequests) = 5
            BY DEF PairRequests
        <3>2. \A j \in 2..5 : PairRequests[j] # "defaults"
            BY DEF PairRequests
        <3>3. QED
            BY <3>1, <3>2 DEF AfterPair
    <2>3. pc' # "defaults"
        <3>1. CASE Pair
            BY <2>2, <3>1 DEF Pair
        <3>2. CASE PairDone \/ Unpair \/ Kill
            BY <3>2 DEF PairDone, Unpair, Kill, Exit
        <3>3. QED
            BY <1>6, <3>1, <3>2
    <2>4. QED
        BY <1>2, <2>1, <2>3
<1>7. CASE HostForgets \/ HostPlays
    BY <1>2, <1>7 DEF HostForgets, HostPlays, files, process
<1>8. QED
    BY <1>1, <1>3, <1>4, <1>5, <1>6, <1>7 DEF Next

LEMMA SavedInvRestores ==
    ASSUME SavedInv
    PROVE  SaveRestores
<1> DEFINE base == Configured(confFiles)
           again == config_file_parse(confFiles[config.configFile], base)
           Kept(o) == config[o] # LeftOut[o] \/ base[o] = LeftOut[o]
<1> SUFFICES ASSUME pc = "defaults", config.configFile # Unset
             PROVE  /\ \A o \in DOMAIN LeftOut :
                         again[o] = IF config[o] # LeftOut[o] THEN config[o] ELSE base[o]
                    /\ /\ \A o \in DOMAIN LeftOut \ {"fps"} : Kept(o)
                       /\ Kept("fps") \/ (base.fps = -1 /\ ~(config.height >= 1080))
                       => \A o \in DOMAIN LeftOut : Resolve(again)[o] = Resolve(config)[o]
    BY DEF SaveRestores
<1>1. ConfigShape(config) /\ confFiles[config.configFile] = config_save(config)
    BY DEF SavedInv
<1>2. ConfigShape(base)
    BY ConfiguredShape DEF SavedInv
<1> HIDE DEF base
<1>3. Restored(again, base, config)
    BY <1>1, <1>2, SaveIsRead
<1> HIDE DEF again
<1>4. \A o \in DOMAIN LeftOut :
         again[o] = IF config[o] # LeftOut[o] THEN config[o] ELSE base[o]
    BY <1>1, <1>3, OptionsRestored
<1>5. ASSUME \A o \in DOMAIN LeftOut \ {"fps"} : Kept(o),
             Kept("fps") \/ (base.fps = -1 /\ ~(config.height >= 1080))
      PROVE  \A o \in DOMAIN LeftOut : Resolve(again)[o] = Resolve(config)[o]
    <2>1. \A o \in DOMAIN LeftOut \ {"fps"} : again[o] = config[o]
        BY <1>4, <1>5, Zenon
    <2>2. \/ again.fps = config.fps
          \/ config.fps = 60 /\ again.fps = -1 /\ ~(config.height >= 1080)
        BY <1>4, <1>5, OptionsLeftOut DEF Options
    <2>3. ConfigShape(again)
        BY <1>3 DEF Restored
    <2>4. QED
        BY <1>1, <2>1, <2>2, <2>3, ResolveSame
<1>6. QED
    BY <1>4, <1>5

(* A configuration that was saved and is loaded again is the same but for   *)
(* what config_save leaves out, whatever the command lines, moonlight.conf  *)
(* and the other files (config.c: config_parse, config_save,                *)
(* config_file_parse).                                                      *)
THEOREM SaveAlwaysRestores == Spec => []SaveRestores
<1>1. Init => SavedInv
    <2> SUFFICES ASSUME Init PROVE SavedInv
        OBVIOUS
    <2>1. confFiles \in ConfFiles /\ pc = "off"
        BY DEF Init
    <2>2. ASSUME NEW f \in DOMAIN confFiles PROVE \E R : confFiles[f] \in Seq(R)
        <3>1. PICK file : file = confFiles[f]
            OBVIOUS
        <3>2. Len(file) \in Nat /\ file = [i \in 1..Len(file) |-> file[i]]
            BY <2>1, <3>1, GamestreamAssumption
        <3>3. file \in Seq({file[i] : i \in 1..Len(file)})
            BY <3>2, LinesSeq
        <3>4. QED
            BY <3>1, <3>3
    <2>3. QED
        BY <2>1, <2>2 DEF SavedInv
<1>2. SavedInv /\ [Next]_vars => SavedInv'
    <2>1. ASSUME SavedInv, UNCHANGED vars PROVE SavedInv'
        <3>1. UNCHANGED <<pc, config, confFiles>>
            BY <2>1 DEF vars, process, files
        <3>2. QED
            BY <2>1, <3>1 DEF SavedInv
    <2>2. QED
        BY <2>1, SavedInvStep
<1>3. QED
    BY <1>1, <1>2, SavedInvRestores, PTL DEF Spec
=============================================================================
