------------------------ MODULE ClientSession_proofs ------------------------
(***************************************************************************)
(* Proofs about a client and the server, for any users, sessions, threads  *)
(* and length of the queues.  As long as no answer has met nobody who      *)
(* waits, the two ends agree on who is logged in and on whose session is   *)
(* whose.                                                                  *)
(***************************************************************************)
EXTENDS ClientSession, SequenceTheorems, TLAPS

NobodyYet == user_id = None /\ (error_occur => unheard)
NoGame == \A g \in Games : streaming[g] = None

(* The log-in screen: nothing is under way but the log-out before it and   *)
(* one log-in, which is in one place.                                      *)
LoginIdle ==
    /\ login = None /\ NobodyYet /\ toClient = <<>>
    /\ \/ toServer = <<>> /\ logged = {}
       \/ \E u \in Users : toServer = <<<<2, u>>>> /\ logged = {u}
LoginSent ==
    /\ login # None /\ NobodyYet /\ toClient = <<>>
    /\ \/ toServer = <<<<1, login>>>> /\ logged = {}
       \/ \E u \in Users : toServer = <<<<2, u>>, <<1, login>>>> /\ logged = {u}
LoginAccepted ==
    /\ login # None /\ NobodyYet /\ login[2]
    /\ toServer = <<>> /\ toClient = <<<<1, login[1]>>>> /\ logged = {login[1]}
LoginRefused ==
    /\ login # None /\ NobodyYet
    /\ toServer = <<>> /\ toClient = <<<<13, None>>>> /\ logged = {}
LoginKnown ==
    /\ login # None /\ Settled
    /\ \/ /\ user_id # None /\ (error_occur => unheard)
          /\ login = <<user_id, TRUE>> /\ logged = {user_id}
       \/ user_id = None /\ error_occur /\ logged = {}

LoginInv ==
    /\ username = None /\ NoGame
    /\ \A t \in Threads : gaming[t] = Ended
    /\ \A u \in Users : lent[u] = None
    /\ LoginIdle \/ LoginSent \/ LoginAccepted \/ LoginRefused \/ LoginKnown

(* The other screens: who is logged in, and what may be under way. *)
UserInv ==
    /\ login = None
    /\ user_id \in Users /\ username = <<user_id, TRUE>> /\ logged = {user_id}
    /\ \A u \in Users \ {user_id} : lent[u] = None
    /\ \A i \in DOMAIN toServer :
          toServer[i] \in {<<3, user_id>>, <<4, user_id>>} \/ toServer[i][1] = 23
    /\ \A i \in DOMAIN toClient : toClient[i][1] \in {3, 13}

Active(t) == gaming[t].at # "none"
ThreadsInv ==
    /\ \A t \in Threads : ~Active(t) => gaming[t] = Ended
    /\ \A s, t \in Threads : Active(s) /\ Active(t) => s = t
    /\ \A t \in Threads : gaming[t].at = "check" => screen = "status"
    /\ games => screen = "game" /\ \A t \in Threads : ~Active(t)
    /\ ~NoGame => screen = "game"

(* A session that is lent, or asked for by a packet before number n, is    *)
(* given back by a packet before number n.                                 *)
Ask == <<3, user_id>>
Leave == <<4, user_id>>
BackBefore(n) ==
    \/ /\ lent[user_id] = None
       /\ \A i \in DOMAIN toServer : i < n => toServer[i] # Ask
    \/ \E i \in DOMAIN toServer :
          /\ i < n /\ toServer[i] = Leave
          /\ \A j \in DOMAIN toServer : i < j /\ j < n => toServer[j] # Ask
GoesBack == BackBefore(Len(toServer) + 1)

(* Packet number n asks for a session, when there is none, and nothing     *)
(* after it undoes that.                                                   *)
AskedBy(n) ==
    /\ n \in DOMAIN toServer /\ toServer[n] = Ask /\ BackBefore(n)
    /\ \A j \in DOMAIN toServer : j > n => toServer[j] \notin {Ask, Leave}

(* On the game screen the session is asked for, or its address is on the   *)
(* way, or known; or the request was refused, which has met nobody or is   *)
(* going to.                                                               *)
AddressComes ==
    \E i \in DOMAIN toClient :
        /\ toClient[i] = <<3, lent[user_id]>>
        /\ \A j \in DOMAIN toClient : j > i => toClient[j][1] # 3
AddressKnown ==
    /\ lent[user_id] = using_gdomain_address
    /\ \A i \in DOMAIN toClient : toClient[i][1] # 3
Refused ==
    /\ lent[user_id] = None
    /\ unheard \/ \E i \in DOMAIN toClient : toClient[i][1] = 13
Comes ==
    \/ \E n \in DOMAIN toServer : AskedBy(n)
    \/ /\ \A i \in DOMAIN toServer : toServer[i] \notin {Ask, Leave}
       /\ AddressComes \/ AddressKnown \/ Refused

(* The thread that has asked brings up the game screen next: its packet is *)
(* the last to the server, or the answer the last that comes, or has come. *)
Answering ==
    \/ toClient # <<>> /\ toClient[Len(toClient)] = <<3, lent[user_id]>>
    \/ toClient # <<>> /\ toClient[Len(toClient)][1] = 13 /\ lent[user_id] = None
    \/ toClient = <<>> /\ lent[user_id] = using_gdomain_address
    \/ toClient = <<>> /\ lent[user_id] = None /\ error_occur
WillCome == AskedBy(Len(toServer)) \/ (toServer = <<>> /\ Answering)

Asking == \E t \in Threads : gaming[t].at = "check"
Playing ==
    screen = "game" /\ (games \/ \E t \in Threads : gaming[t].at \notin {"none", "check"})
SessionInv ==
    /\ screen = "status" /\ ~Asking => GoesBack
    /\ Playing => Comes
    /\ Asking => WillCome

(* An error that somebody waits for is that of the thread that has asked.  *)
ErrorInv ==
    error_occur /\ ~unheard => Asking /\ Settled /\ lent[user_id] = None

StatusInv == UserInv /\ ThreadsInv /\ SessionInv /\ ErrorInv

(* As long as nothing has gone astray; a client that has been left keeps   *)
(* only what it shows.                                                     *)
ScreenInv == IF screen = "login" THEN LoginInv ELSE StatusInv
ClientInv ==
    /\ TypeOK
    /\ ~stray /\ username # None => username = <<user_id, TRUE>>
    /\ ~stray /\ running => ScreenInv
-----------------------------------------------------------------------------
(* Queues *)

LEMMA AppendFacts ==
    ASSUME NEW S, NEW s \in Seq(S), NEW p
    PROVE  /\ Len(s) \in Nat /\ DOMAIN s = 1..Len(s)
           /\ DOMAIN Append(s, p) = DOMAIN s \union {Len(s) + 1}
           /\ \A i \in DOMAIN s : i < Len(s) + 1 /\ Append(s, p)[i] = s[i]
           /\ Append(s, p)[Len(s) + 1] = p
    OBVIOUS

LEMMA TailFacts ==
    ASSUME NEW S, NEW s \in Seq(S), s # <<>>
    PROVE  /\ Head(s) = s[1] /\ Len(s) \in Nat \ {0} /\ DOMAIN s = 1..Len(s)
           /\ DOMAIN Tail(s) = 1..(Len(s) - 1)
           /\ \A i \in DOMAIN Tail(s) : Tail(s)[i] = s[i + 1]
    OBVIOUS

LEMMA QueueTypes ==
    ASSUME TypeOK
    PROVE  toServer \in Seq(Requests) /\ toClient \in Seq(Answers)
    BY DEF TypeOK
-----------------------------------------------------------------------------
(* Types *)

LEMMA AppendType ==
    ASSUME NEW S, NEW s \in Seq(S), NEW p \in S
    PROVE  Append(s, p) \in Seq(S) /\ Len(Append(s, p)) = Len(s) + 1 /\ Len(s) \in Nat
    OBVIOUS

LEMMA TailType ==
    ASSUME NEW S, NEW s \in Seq(S), s # <<>>
    PROVE  /\ Tail(s) \in Seq(S) /\ Head(s) \in S
           /\ Len(Tail(s)) = Len(s) - 1 /\ Len(s) \in Nat
    OBVIOUS

LEMMA PushType ==
    ASSUME TypeOK, NEW p \in Requests, push_packet(p)
    PROVE  /\ toServer' \in Seq(Requests) /\ Len(toServer') <= MaxPackets
           /\ toClient' = toClient
<1>1. Len(toServer') = Len(toServer) + 1 /\ Len(toServer) \in Nat
      /\ toServer' \in Seq(Requests)
    BY AppendType DEF push_packet, TypeOK
<1>2. QED
    BY <1>1, ClientSessionAssumption DEF push_packet

LEMMA ReplyType ==
    ASSUME TypeOK, NEW a \in Answers, Reply(a)
    PROVE  toClient' \in Seq(Answers) /\ Len(toClient') <= MaxPackets
<1>1. Len(toClient') = Len(toClient) + 1 /\ Len(toClient) \in Nat
      /\ toClient' \in Seq(Answers)
    BY AppendType DEF Reply, TypeOK
<1>2. QED
    BY <1>1, ClientSessionAssumption DEF Reply

LEMMA PacketTypes ==
    /\ \A c \in Credentials : <<1, c>> \in Requests
    /\ \A n \in {2, 3, 4}, u \in Users \cup {None} : <<n, u>> \in Requests
    /\ \A s \in Sessions \cup {None}, t \in Threads : <<23, <<s, t>>>> \in Requests
    /\ \A u \in Users : <<1, u>> \in Answers
    /\ \A s \in Sessions : <<3, s>> \in Answers
    /\ <<13, None>> \in Answers
    BY DEF Requests, Answers

LEMMA ScreenTypes ==
    ASSUME TypeOK, NEW name \in {"login", "status", "game"}, set_window_content(name)
    PROVE  /\ screen' \in {"login", "status", "game"} /\ games' \in BOOLEAN
           /\ btnLogin' \in Button
<1>1. games' \in BOOLEAN
    BY DEF set_window_content
<1>2. QED
    BY <1>1 DEF TypeOK, set_window_content, NewButton, Button

LEMMA ThreadTypes ==
    ASSUME TypeOK, NEW t \in Threads
    PROVE  /\ gaming[t] \in GamingThread /\ Ended \in GamingThread
           /\ \A at \in {"check", "list", "listed", "pair", "code", "again",
                        "listed again"} :
                /\ [gaming[t] EXCEPT !.at = at] \in GamingThread
                /\ \A ip \in Sessions \cup {None} :
                      [at |-> at, ip |-> ip] \in GamingThread
<1>1. gaming[t] \in GamingThread
    BY DEF TypeOK
<1>2. QED
    BY <1>1 DEF GamingThread, Ended

(* What an action makes of a thread is a thread again. *)
LEMMA GamingTypes ==
    ASSUME TypeOK, NEW t \in Threads,
           \E g \in GamingThread : gaming' = [gaming EXCEPT ![t] = g]
    PROVE  gaming' \in [Threads -> GamingThread]
    BY DEF TypeOK

LEMMA LoginTypes ==
    ASSUME TypeOK, \/ \E c \in Credentials : LoginClick(c)
                   \/ LoginEmpty \/ Unclick \/ LoginError \/ LoginTimeout \/ LoginDone
    PROVE  TypeOK'
<1>1. ASSUME NEW c \in Credentials, LoginClick(c) PROVE TypeOK'
    <2>1. /\ toServer' \in Seq(Requests) /\ Len(toServer') <= MaxPackets
          /\ toClient' = toClient
        BY <1>1, PushType, PacketTypes DEF LoginClick
    <2>2. QED
        BY <1>1, <2>1 DEF LoginClick, TypeOK, Button, clientVars, serverVars, history
<1>2. CASE LoginEmpty \/ Unclick
    <2>1. btnLogin' \in Button
        <3>1. CASE LoginEmpty
            BY <3>1 DEF LoginEmpty, Button
        <3>2. CASE Unclick
            BY <3>2 DEF Unclick, NewButton, Button
        <3>3. QED
            BY <1>2, <3>1, <3>2
    <2>2. UNCHANGED <<clientVars, screen, games, threadVars, netVars, serverVars,
                      paired, history>>
        BY <1>2 DEF LoginEmpty, Unclick
    <2>3. QED
        BY <2>1, <2>2 DEF TypeOK, clientVars, threadVars, netVars, serverVars, history
<1>3. CASE LoginError \/ LoginTimeout
    BY <1>3 DEF LoginError, LoginTimeout, TakeError, unblock_click, TypeOK, Button,
                clientVars, netVars, serverVars
<1>4. CASE LoginDone
    <2>1. /\ screen' \in {"login", "status", "game"} /\ games' \in BOOLEAN
          /\ btnLogin' \in Button
        BY <1>4, ScreenTypes DEF LoginDone
    <2>2. QED
        BY <1>4, <2>1 DEF LoginDone, TypeOK, netVars, serverVars, history
<1>5. QED
    BY <1>1, <1>2, <1>3, <1>4

LEMMA LeaveTypes ==
    ASSUME TypeOK, Logout \/ Exit
    PROVE  TypeOK'
<1>1. CASE Logout
    <2>1. /\ screen' \in {"login", "status", "game"} /\ games' \in BOOLEAN
          /\ btnLogin' \in Button
        BY <1>1, ScreenTypes DEF Logout
    <2>2. /\ toServer' \in Seq(Requests) /\ Len(toServer') <= MaxPackets
          /\ toClient' = toClient
        <3>1. CASE user_id = None
            BY <1>1, <3>1 DEF Logout, SendLogout, netVars, TypeOK
        <3>2. CASE user_id # None
            <4>1. <<2, user_id>> \in Requests
                BY <3>2, PacketTypes DEF TypeOK
            <4>2. QED
                BY <1>1, <3>2, <4>1, PushType DEF Logout, SendLogout
        <3>3. QED
            BY <3>1, <3>2
    <2>3. stray' \in BOOLEAN
        BY <1>1 DEF Logout
    <2>4. QED
        BY <1>1, <2>1, <2>2, <2>3 DEF Logout, TypeOK, threadVars, serverVars
<1>2. CASE Exit
    <2> DEFINE queue == IF user_id = None THEN toServer
                                          ELSE Append(toServer, <<2, user_id>>)
    <2>1. queue \in Seq(Requests)
        BY PacketTypes, AppendType DEF TypeOK
    <2>2. PICK n \in 0..Len(toServer) + 1 :
             n <= Len(queue) /\ n <= MaxPackets /\ toServer' = SubSeq(queue, 1, n)
        BY <1>2 DEF Exit
    <2> HIDE DEF queue
    <2>3. Len(queue) \in Nat /\ Len(toServer) \in Nat
        <3>1. toServer \in Seq(Requests)
            BY DEF TypeOK
        <3>2. QED
            BY <2>1, <3>1, LenProperties
    <2>4. toServer' \in Seq(Requests) /\ Len(toServer') = n
        BY <2>1, <2>2, <2>3, SubSeqProperties
    <2>5. QED
        BY <1>2, <2>2, <2>4, ClientSessionAssumption
           DEF Exit, TypeOK, screenVars, threadVars, serverVars, history
<1>3. QED
    BY <1>1, <1>2

LEMMA StatusTypes ==
    ASSUME TypeOK, NEW t \in Threads, UseGaming(t) \/ UseGamingCheck(t)
    PROVE  TypeOK'
<1>1. CASE UseGaming(t)
    <2>1. /\ toServer' \in Seq(Requests) /\ Len(toServer') <= MaxPackets
          /\ toClient' = toClient
        <3>1. <<3, user_id>> \in Requests
            BY PacketTypes DEF TypeOK
        <3>2. QED
            BY <1>1, <3>1, PushType DEF UseGaming
    <2>2. gaming' \in [Threads -> GamingThread]
        <3>1. \E g \in GamingThread : gaming' = [gaming EXCEPT ![t] = g]
            BY <1>1, ThreadTypes DEF UseGaming
        <3>2. QED
            BY <3>1, GamingTypes
    <2>3. stray' \in BOOLEAN
        BY <1>1 DEF UseGaming
    <2>4. QED
        BY <1>1, <2>1, <2>2, <2>3
           DEF UseGaming, TypeOK, clientVars, screenVars, serverVars
<1>2. CASE UseGamingCheck(t)
    <2>1. /\ screen' \in {"login", "status", "game"} /\ games' \in BOOLEAN
          /\ btnLogin' \in Button
        BY <1>2, ScreenTypes DEF UseGamingCheck, screenVars, TypeOK
    <2>2. gaming' \in [Threads -> GamingThread]
        <3>1. \E g \in GamingThread : gaming' = [gaming EXCEPT ![t] = g]
            BY <1>2, ThreadTypes DEF UseGamingCheck
        <3>2. QED
            BY <3>1, GamingTypes
    <2>3. error_occur' \in BOOLEAN /\ unheard' \in BOOLEAN /\ stray' \in BOOLEAN
        BY <1>2 DEF UseGamingCheck, TakeError, TypeOK, history
    <2>4. QED
        BY <1>2, <2>1, <2>2, <2>3
           DEF UseGamingCheck, TypeOK, netVars, serverVars
<1>3. QED
    BY <1>1, <1>2

LEMMA GameTypes ==
    ASSUME TypeOK, NEW t \in Threads,
           ListGames(t) \/ ListDone(t) \/ Pair(t) \/ PairDone(t)
    PROVE  TypeOK'
<1>1. CASE ListGames(t)
    <2>1. gaming' \in [Threads -> GamingThread]
        <3>1. \E g \in GamingThread : gaming' = [gaming EXCEPT ![t] = g]
            BY <1>1, ThreadTypes DEF ListGames, TypeOK
        <3>2. QED
            BY <3>1, GamingTypes
    <2>2. UNCHANGED <<clientVars, screenVars, login, streaming, netVars, serverVars,
                      paired, history>>
        BY <1>1 DEF ListGames
    <2>3. QED
        BY <2>1, <2>2 DEF TypeOK, clientVars, screenVars, netVars,
                          serverVars, history
<1>2. CASE ListDone(t)
    <2>1. gaming' \in [Threads -> GamingThread] /\ games' \in BOOLEAN
        <3>1. \E g \in GamingThread : gaming' = [gaming EXCEPT ![t] = g]
            BY <1>2, ThreadTypes DEF ListDone
        <3>2. games' \in BOOLEAN
            BY <1>2 DEF ListDone, TypeOK
        <3>3. QED
            BY <3>1, <3>2, GamingTypes
    <2>2. UNCHANGED <<clientVars, screen, btnLogin, login, streaming, netVars,
                      serverVars, paired, history>>
        BY <1>2 DEF ListDone
    <2>3. QED
        BY <2>1, <2>2 DEF TypeOK, clientVars, netVars, serverVars, history
<1>3. LeavePacket \in Requests
    BY PacketTypes DEF TypeOK, LeavePacket
<1>4. <<23, <<using_gdomain_address, t>>>> \in Requests
    BY PacketTypes DEF TypeOK
<1>5. CASE Pair(t)
    <2>1. /\ toServer' \in Seq(Requests) /\ Len(toServer') <= MaxPackets
          /\ toClient' = toClient
        <3>1. CASE UNCHANGED netVars
            BY <3>1 DEF netVars, TypeOK
        <3>2. CASE push_packet(LeavePacket)
            BY <1>3, <3>2, PushType
        <3>3. CASE push_packet(<<23, <<using_gdomain_address, t>>>>)
            BY <1>4, <3>3, PushType
        <3>4. QED
            BY <1>5, <3>1, <3>2, <3>3 DEF Pair, PairRaises
    <2>2. gaming' \in [Threads -> GamingThread]
        <3>1. \E g \in GamingThread : gaming' = [gaming EXCEPT ![t] = g]
            BY <1>5, ThreadTypes DEF Pair, PairRaises, TypeOK
        <3>2. QED
            BY <3>1, GamingTypes
    <2>3. UNCHANGED <<clientVars, screenVars, login, streaming, serverVars, paired,
                      history>>
        BY <1>5 DEF Pair
    <2>4. QED
        BY <2>1, <2>2, <2>3
           DEF TypeOK, clientVars, screenVars, serverVars, history
<1>6. CASE PairDone(t)
    <2>1. /\ toServer' \in Seq(Requests) /\ Len(toServer') <= MaxPackets
          /\ toClient' = toClient
        <3>1. CASE UNCHANGED netVars
            BY <3>1 DEF netVars, TypeOK
        <3>2. CASE push_packet(LeavePacket)
            BY <1>3, <3>2, PushType
        <3>3. QED
            BY <1>6, <3>1, <3>2 DEF PairDone, PairRaises
    <2>2. gaming' \in [Threads -> GamingThread]
        <3>1. \E g \in GamingThread : gaming' = [gaming EXCEPT ![t] = g]
            BY <1>6, ThreadTypes DEF PairDone, PairRaises
        <3>2. QED
            BY <3>1, GamingTypes
    <2>3. paired' \subseteq Sessions
        <3>1. gaming[t].ip \in Sessions \cup {None}
            <4>1. gaming[t] \in GamingThread
                BY ThreadTypes
            <4>2. QED
                BY <4>1 DEF GamingThread
        <3>2. paired \subseteq Sessions
            BY DEF TypeOK
        <3>3. \/ paired' = paired
              \/ gaming[t].ip # None /\ paired' = paired \cup {gaming[t].ip}
            BY <1>6 DEF PairDone
        <3>4. QED
            BY <3>1, <3>2, <3>3
    <2>4. UNCHANGED <<clientVars, screenVars, login, streaming, serverVars, history>>
        BY <1>6 DEF PairDone
    <2>5. QED
        BY <2>1, <2>2, <2>3, <2>4
           DEF TypeOK, clientVars, screenVars, serverVars, history
<1>7. QED
    BY <1>1, <1>2, <1>5, <1>6

LEMMA ReturnTypes ==
    ASSUME TypeOK, Return \/ \E g \in Games : ChooseGame(g) \/ StreamEnd(g)
    PROVE  TypeOK'
<1>1. ASSUME return_status
      PROVE  /\ toServer' \in Seq(Requests) /\ Len(toServer') <= MaxPackets
             /\ toClient' = toClient
             /\ screen' \in {"login", "status", "game"} /\ games' \in BOOLEAN
             /\ btnLogin' \in Button
    <2>1. LeavePacket \in Requests
        BY PacketTypes DEF TypeOK, LeavePacket
    <2>2. QED
        BY <1>1, <2>1, PushType, ScreenTypes DEF return_status
<1>2. CASE Return
    <2>1. stray' \in BOOLEAN
        BY <1>2 DEF Return
    <2>2. QED
        BY <1>1, <1>2, <2>1 DEF Return, TypeOK, clientVars, threadVars, serverVars
<1>3. ASSUME NEW g \in Games, ChooseGame(g) PROVE TypeOK'
    BY <1>3 DEF ChooseGame, TypeOK, clientVars, screenVars, netVars, serverVars, history
<1>4. ASSUME NEW g \in Games, StreamEnd(g) PROVE TypeOK'
    <2>1. stray' \in BOOLEAN
        BY <1>4 DEF StreamEnd
    <2>2. QED
        BY <1>1, <1>4, <2>1 DEF StreamEnd, TypeOK, clientVars, serverVars
<1>5. QED
    BY <1>2, <1>3, <1>4

LEMMA TakeAnswerTypes == ASSUME TypeOK, TakeAnswer PROVE TypeOK'
<1>1. /\ toClient' \in Seq(Answers) /\ Head(toClient) \in Answers
      /\ Len(toClient') <= MaxPackets
    <2>1. toClient # <<>> /\ toClient' = Tail(toClient) /\ toClient \in Seq(Answers)
          /\ Len(toClient) <= MaxPackets
        BY DEF TakeAnswer, TypeOK
    <2>2. QED
        BY <2>1, TailType, ClientSessionAssumption
<1>2. PICK answer : answer = Head(toClient)
    OBVIOUS
<1>3. /\ answer[1] = 1 => answer[2] \in Users
      /\ answer[1] = 3 => answer[2] \in Sessions
    BY <1>1, <1>2 DEF Answers
<1>4. /\ user_id' \in Users \cup {None}
      /\ using_gdomain_address' \in Sessions \cup {None}
      /\ error_occur' \in BOOLEAN /\ unheard' \in BOOLEAN
    BY <1>2, <1>3 DEF TakeAnswer, TypeOK
<1>5. QED
    BY <1>1, <1>4 DEF TakeAnswer, TypeOK, screenVars, threadVars, serverVars

LEMMA ServeTypes ==
    ASSUME TypeOK, Serve
    PROVE  TypeOK'
<1>1. /\ toServer' \in Seq(Requests) /\ Head(toServer) \in Requests
      /\ Len(toServer') <= MaxPackets
    <2>1. toServer # <<>> /\ toServer' = Tail(toServer) /\ toServer \in Seq(Requests)
          /\ Len(toServer) <= MaxPackets
        BY DEF Serve, TypeOK
    <2>2. QED
        BY <2>1, TailType, ClientSessionAssumption
<1>2. PICK p \in Requests : p = Head(toServer)
    BY <1>1
<1>3. /\ toClient' \in Seq(Answers) /\ Len(toClient') <= MaxPackets
      /\ logged' \subseteq Users /\ lent' \in [Users -> Sessions \cup {None}]
      /\ codes' \in [Sessions -> Threads \cup {None}]
    <2>1. Error => toClient' \in Seq(Answers) /\ Len(toClient') <= MaxPackets
        BY ReplyType, PacketTypes DEF Error
    <2>2. CASE p[1] = 1 /\ log_user_in(p[2])
        <3>1. p[2] \in Credentials /\ p[2][1] \in Users
            BY <2>2 DEF Requests, Credentials
        <3>2. Reply(<<1, p[2][1]>>) =>
                 toClient' \in Seq(Answers) /\ Len(toClient') <= MaxPackets
            BY <3>1, ReplyType, PacketTypes
        <3>3. QED
            BY <2>1, <2>2, <3>1, <3>2 DEF log_user_in, TypeOK
    <2>3. CASE log_user_out(p[2])
        BY <2>3 DEF log_user_out, TypeOK
    <2>4. CASE lend(p[2])
        <3>1. CASE Error /\ UNCHANGED <<logged, lent, codes>>
            BY <2>1, <3>1 DEF TypeOK
        <3>2. ASSUME NEW s \in Sessions, lent' = [lent EXCEPT ![p[2]] = s],
                     Reply(<<3, s>>), UNCHANGED <<logged, codes>>
              PROVE  /\ toClient' \in Seq(Answers) /\ Len(toClient') <= MaxPackets
                     /\ logged' \subseteq Users
                     /\ lent' \in [Users -> Sessions \cup {None}]
                     /\ codes' \in [Sessions -> Threads \cup {None}]
            BY <3>2, ReplyType, PacketTypes DEF TypeOK
        <3>3. QED
            BY <3>1, <3>2, <2>4 DEF lend
    <2>5. CASE leave(p[2])
        BY <2>1, <2>5 DEF leave, TypeOK
    <2>6. CASE p[1] = 23 /\ pair_gaming_domain(p[2][1], p[2][2])
        <3>1. p[2][1] \in Sessions \cup {None} /\ p[2][2] \in Threads
            BY <2>6 DEF Requests, Credentials
        <3>2. QED
            BY <2>1, <2>6, <3>1 DEF pair_gaming_domain, TypeOK
    <2>7. QED
        BY <1>2, <2>2, <2>3, <2>4, <2>5, <2>6 DEF Serve
<1>4. UNCHANGED <<clientVars, screenVars, threadVars, others, paired, history>>
    BY DEF Serve
<1>5. QED
    BY <1>1, <1>3, <1>4 DEF TypeOK, clientVars, screenVars, threadVars, history

LEMMA WorldTypes ==
    ASSUME TypeOK, NEW s \in Sessions, OtherTakes(s) \/ OtherLeaves(s)
    PROVE  TypeOK'
    BY DEF OtherTakes, OtherLeaves, TypeOK, clientVars, screenVars, threadVars, netVars,
           history

LEMMA LoseTypes == ASSUME TypeOK, Lose PROVE TypeOK'
<1>1. /\ toServer' \in Seq(Requests) /\ toClient' \in Seq(Answers)
      /\ Len(toServer') <= MaxPackets /\ Len(toClient') <= MaxPackets
    <2>1. CASE toServer # <<>> /\ toServer' = Tail(toServer) /\ UNCHANGED toClient
        BY <2>1, TailType, ClientSessionAssumption DEF TypeOK
    <2>2. CASE toClient # <<>> /\ toClient' = Tail(toClient) /\ UNCHANGED toServer
        BY <2>2, TailType, ClientSessionAssumption DEF TypeOK
    <2>3. QED
        BY <2>1, <2>2 DEF Lose
<1>2. QED
    BY <1>1 DEF Lose, TypeOK, clientVars, screenVars, threadVars, serverVars

LEMMA TypesKept == ASSUME TypeOK, Next PROVE TypeOK'
<1>1. CASE \/ \E c \in Credentials : LoginClick(c)
           \/ LoginEmpty \/ Unclick \/ LoginError \/ LoginTimeout \/ LoginDone
    BY <1>1, LoginTypes
<1>2. ASSUME NEW t \in Threads,
             \/ UseGaming(t) \/ UseGamingCheck(t) \/ ListGames(t) \/ ListDone(t)
             \/ Pair(t) \/ PairDone(t)
      PROVE  TypeOK'
    BY <1>2, StatusTypes, GameTypes
<1>3. CASE Logout \/ Exit
    BY <1>3, LeaveTypes
<1>4. CASE Return \/ \E g \in Games : ChooseGame(g) \/ StreamEnd(g)
    BY <1>4, ReturnTypes
<1>5. CASE TakeAnswer
    BY <1>5, TakeAnswerTypes
<1>6. CASE Serve
    BY <1>6, ServeTypes
<1>7. CASE Lose
    BY <1>7, LoseTypes
<1>8. ASSUME NEW s \in Sessions, OtherTakes(s) \/ OtherLeaves(s) PROVE TypeOK'
    BY <1>8, WorldTypes
<1>9. QED
    BY <1>1, <1>2, <1>3, <1>4, <1>5, <1>6, <1>7, <1>8 DEF Next

LEMMA InitTypes == ASSUME Init PROVE TypeOK
<1>1. <<>> \in Seq(Requests) /\ <<>> \in Seq(Answers)
      /\ Len(<<>>) = 0
    OBVIOUS
<1>2. NewButton \in Button /\ Ended \in GamingThread
    BY DEF NewButton, Button, Ended, GamingThread
<1>3. /\ toServer \in Seq(Requests) /\ Len(toServer) <= MaxPackets
      /\ toClient \in Seq(Answers) /\ Len(toClient) <= MaxPackets
    BY <1>1, ClientSessionAssumption DEF Init
<1>4. /\ gaming \in [Threads -> GamingThread] /\ btnLogin \in Button
      /\ lent \in [Users -> Sessions \cup {None}]
      /\ codes \in [Sessions -> Threads \cup {None}]
    BY <1>2 DEF Init
<1>5. QED
    BY <1>3, <1>4 DEF Init, TypeOK
-----------------------------------------------------------------------------
(* The log-in screen *)

LEMMA SecondOf ==
    ASSUME NEW S, NEW s \in Seq(S), Len(s) = 1, NEW b \in S
    PROVE  Append(s, b) = <<s[1], b>>
<1>1. /\ Append(s, b) \in Seq(S) /\ Len(Append(s, b)) = 2
      /\ Append(s, b)[1] = s[1] /\ Append(s, b)[2] = b
    <2>1. /\ Append(s, b) \in Seq(S) /\ Len(Append(s, b)) = Len(s) + 1
          /\ Append(s, b)[Len(s) + 1] = b
          /\ \A i \in 1..Len(s) : Append(s, b)[i] = s[i]
        <3>1. Append(s, b) \in Seq(S) /\ Len(Append(s, b)) = Len(s) + 1
            BY AppendType
        <3>2. /\ DOMAIN s = 1..Len(s)
              /\ \A i \in DOMAIN s : Append(s, b)[i] = s[i]
              /\ Append(s, b)[Len(s) + 1] = b
            BY AppendFacts
        <3>3. QED
            BY <3>1, <3>2
    <2>2. Len(s) + 1 = 2 /\ 1 \in 1..Len(s)
        OBVIOUS
    <2>3. QED
        BY <2>1, <2>2
<1>2. s[1] \in S
    <2>1. 1 \in 1..Len(s)
        OBVIOUS
    <2>2. QED
        BY <2>1, ElementOfSeq
<1>3. /\ <<s[1], b>> \in Seq(S) /\ Len(<<s[1], b>>) = 2
      /\ <<s[1], b>>[1] = s[1] /\ <<s[1], b>>[2] = b
    BY <1>2
<1>4. PICK q, r : q = Append(s, b) /\ r = <<s[1], b>>
    OBVIOUS
<1>5. q = r
    <2>1. q \in Seq(S) /\ r \in Seq(S) /\ Len(q) = 2 /\ Len(r) = 2
          /\ q[1] = r[1] /\ q[2] = r[2]
        BY <1>1, <1>3, <1>4
    <2>2. \A i \in 1..Len(q) : q[i] = r[i]
        BY <2>1
    <2>3. QED
        BY <2>1, <2>2, SeqEqual
<1>6. QED
    BY <1>4, <1>5

LEMMA ShortQueues ==
    ASSUME NEW a, NEW b
    PROVE  /\ Append(<<>>, a) = <<a>> /\ Append(<<a>>, b) = <<a, b>>
           /\ Head(<<a>>) = a /\ Tail(<<a>>) = <<>>
           /\ Head(<<a, b>>) = a /\ Tail(<<a, b>>) = <<b>>
           /\ <<a>> # <<>> /\ <<a, b>> # <<>>
<1>1. Append(<<>>, a) = <<a>>
    <2>1. <<>> \in Seq({a}) /\ a \in {a}
        OBVIOUS
    <2>2. Append(<<>>, a) = <<>> \o <<a>>
        BY <2>1, AppendIsConcat
    <2>3. <<a>> \in Seq({a})
        OBVIOUS
    <2>4. QED
        BY <2>2, <2>3, ConcatEmptySeq
<1>2. Append(<<a>>, b) = <<a, b>>
    <2>1. <<a>> \in Seq({a, b}) /\ Len(<<a>>) = 1 /\ <<a>>[1] = a /\ b \in {a, b}
        OBVIOUS
    <2>2. QED
        BY <2>1, SecondOf
<1>3. Head(<<a>>) = a /\ Tail(<<a>>) = <<>>
    OBVIOUS
<1>4. Head(<<a, b>>) = a
    OBVIOUS
<1>5. Tail(<<a, b>>) = <<b>>
    OBVIOUS
<1>6. <<a>> # <<>> /\ <<a, b>> # <<>>
    OBVIOUS
<1>7. QED
    BY <1>1, <1>2, <1>3, <1>4, <1>5, <1>6

LEMMA LoginClickInv ==
    ASSUME LoginInv, NEW c \in Credentials, LoginClick(c)
    PROVE  LoginInv'
<1>1. /\ login = None /\ login' = c /\ toServer' = Append(toServer, <<1, c>>)
      /\ toClient' = toClient
      /\ UNCHANGED <<user_id, username, error_occur, gaming, streaming, logged, lent,
                     unheard>>
    BY DEF LoginClick, push_packet, clientVars, serverVars, history
<1>2. c # None
    BY ClientSessionAssumption DEF Credentials
<1>3. LoginIdle
    BY <1>1 DEF LoginInv, LoginIdle, LoginSent, LoginAccepted, LoginRefused, LoginKnown
<1>4. LoginSent'
    <2>1. CASE toServer = <<>> /\ logged = {}
        <3>1. toServer' = <<<<1, login'>>>>
            BY <1>1, <2>1, ShortQueues
        <3>2. QED
            BY <1>1, <1>2, <1>3, <2>1, <3>1 DEF LoginIdle, LoginSent, NobodyYet
    <2>2. ASSUME NEW u \in Users, toServer = <<<<2, u>>>>, logged = {u}
          PROVE  LoginSent'
        <3>1. toServer' = <<<<2, u>>, <<1, login'>>>>
            BY <1>1, <2>2, ShortQueues
        <3>2. QED
            BY <1>1, <1>2, <1>3, <2>2, <3>1 DEF LoginIdle, LoginSent, NobodyYet
    <2>3. QED
        BY <1>3, <2>1, <2>2 DEF LoginIdle
<1>5. QED
    BY <1>1, <1>4 DEF LoginInv, NoGame

LEMMA LoginErrorInv == ASSUME LoginInv, LoginError, ~stray' PROVE LoginInv'
<1>1. /\ login # None /\ error_occur /\ ~error_occur' /\ login' = None /\ ~unheard
      /\ UNCHANGED <<user_id, username, gaming, streaming, toServer, toClient, logged,
                     lent>>
    BY DEF LoginError, TakeError, netVars, serverVars
<1>2. Settled /\ user_id = None /\ logged = {}
    BY <1>1 DEF LoginInv, LoginIdle, LoginSent, LoginAccepted, LoginRefused, LoginKnown,
                NobodyYet
<1>3. LoginIdle'
    BY <1>1, <1>2 DEF LoginIdle, NobodyYet, Settled
<1>4. QED
    BY <1>1, <1>3 DEF LoginInv, NoGame

LEMMA LoginDoneInv ==
    ASSUME TypeOK, screen = "login", LoginInv, LoginDone
    PROVE  StatusInv' /\ screen' = "status" /\ username' = <<user_id', TRUE>>
<1>1. /\ login # None /\ ~error_occur /\ user_id # None /\ username' = login
      /\ login' = None /\ screen' = "status" /\ games' = FALSE
      /\ UNCHANGED <<user_id, error_occur, gaming, streaming, toServer, toClient, logged,
                     lent, unheard>>
    BY DEF LoginDone, set_window_content, netVars, serverVars, history
<1>2. Settled /\ login = <<user_id, TRUE>> /\ logged = {user_id}
    BY <1>1 DEF LoginInv, LoginIdle, LoginSent, LoginAccepted, LoginRefused, LoginKnown,
                NobodyYet
<1>3. /\ \A t \in Threads : gaming[t] = Ended
      /\ \A u \in Users : lent[u] = None
      /\ NoGame
    BY DEF LoginInv
<1>4. user_id \in Users
    BY <1>1 DEF TypeOK
<1>5. DOMAIN toServer' = {} /\ DOMAIN toClient' = {}
    BY <1>1, <1>2 DEF Settled
<1>6. UserInv'
    BY <1>1, <1>2, <1>3, <1>4, <1>5 DEF UserInv
<1>7. \A t \in Threads : gaming'[t].at = "none" /\ gaming'[t] = Ended
    BY <1>1, <1>3 DEF Ended
<1>8. ThreadsInv'
    BY <1>1, <1>3, <1>7 DEF ThreadsInv, Active, NoGame
<1>9. SessionInv'
    <2>1. GoesBack'
        BY <1>1, <1>3, <1>4, <1>5 DEF GoesBack, BackBefore
    <2>2. ~Asking' /\ ~Playing'
        BY <1>1, <1>7 DEF Asking, Playing
    <2>3. QED
        BY <2>1, <2>2 DEF SessionInv
<1>10. QED
    BY <1>1, <1>2, <1>6, <1>8, <1>9 DEF StatusInv, ErrorInv

(* What the main loop makes of an answer. *)
LEMMA AnswerTaken ==
    ASSUME TypeOK, TakeAnswer, NEW answer, answer = Head(toClient)
    PROVE  /\ answer[1] = 1 => user_id' = answer[2]
           /\ answer[1] # 1 => user_id' = user_id
           /\ answer[1] = 3 => using_gdomain_address' = answer[2]
           /\ answer[1] # 3 => using_gdomain_address' = using_gdomain_address
           /\ answer[1] = 13 => error_occur' = TRUE
           /\ answer[1] # 13 => error_occur' = error_occur /\ unheard' = unheard
           /\ unheard => unheard'
           /\ /\ answer[1] = 13
              /\ ~(Waiting /\ toServer = <<>> /\ toClient' = <<>>)
              => unheard'
<1>1. /\ user_id' = IF answer[1] = 1 THEN answer[2] ELSE user_id
      /\ using_gdomain_address' =
            IF answer[1] = 3 THEN answer[2] ELSE using_gdomain_address
    BY DEF TakeAnswer
<1>2. PICK n : n = answer[1]
    OBVIOUS
<1>3. PICK waits \in BOOLEAN : waits = (Waiting /\ toServer = <<>> /\ toClient' = <<>>)
    OBVIOUS
<1>4. /\ error_occur' = (error_occur \/ n = 13)
      /\ unheard' = (unheard \/ (n = 13 /\ ~waits))
    BY <1>2, <1>3 DEF TakeAnswer, ForNobody
<1>5. error_occur \in BOOLEAN /\ unheard \in BOOLEAN
    BY DEF TypeOK
<1>6. /\ n = 13 => error_occur' = TRUE
      /\ n # 13 => error_occur' = error_occur /\ unheard' = unheard
      /\ unheard => unheard'
      /\ n = 13 /\ ~waits => unheard'
    BY <1>4, <1>5
<1>7. QED
    BY <1>1, <1>2, <1>3, <1>6

LEMMA UserTaken ==
    ASSUME TypeOK, TakeAnswer, NEW u, Head(toClient) = <<1, u>>
    PROVE  user_id' = u /\ error_occur' = error_occur /\ unheard' = unheard
<1>1. PICK answer : answer = Head(toClient)
    OBVIOUS
<1>2. answer[1] = 1 /\ answer[1] # 13 /\ answer[2] = u
    BY <1>1
<1>3. QED
    BY <1>1, <1>2, AnswerTaken

LEMMA ErrorTaken ==
    ASSUME TypeOK, TakeAnswer, Head(toClient) = <<13, None>>
    PROVE  user_id' = user_id /\ error_occur' = TRUE
<1>1. PICK answer : answer = Head(toClient)
    OBVIOUS
<1>2. answer[1] = 13 /\ answer[1] # 1
    BY <1>1
<1>3. QED
    BY <1>1, <1>2, AnswerTaken

LEMMA LoginAnswerInv ==
    ASSUME TypeOK, LoginInv, TakeAnswer
    PROVE  LoginInv'
<1>1. /\ toClient # <<>> /\ toClient' = Tail(toClient)
      /\ UNCHANGED <<username, toServer, login, gaming, streaming, logged, lent>>
    BY DEF TakeAnswer, threadVars, serverVars
<1>2. LoginAccepted \/ LoginRefused
    BY <1>1 DEF LoginInv, LoginIdle, LoginSent, LoginKnown, Settled
<1>3. LoginKnown'
    <2>1. CASE LoginAccepted
        <3>1. Head(toClient) = <<1, login[1]>> /\ toClient' = <<>>
            BY <1>1, <2>1, ShortQueues DEF LoginAccepted
        <3>2. user_id' = login[1] /\ (error_occur' => unheard')
            <4>1. PICK u : u = login[1]
                OBVIOUS
            <4>2. user_id' = u /\ error_occur' = error_occur /\ unheard' = unheard
                BY <3>1, <4>1, UserTaken
            <4>3. QED
                BY <2>1, <4>1, <4>2 DEF LoginAccepted, NobodyYet
        <3>3. login[1] \in Users /\ login = <<login[1], TRUE>>
            <4>1. login \in Credentials /\ login[2]
                BY <2>1 DEF TypeOK, LoginAccepted
            <4>2. PICK u \in Users, b \in BOOLEAN : login = <<u, b>>
                BY <4>1 DEF Credentials
            <4>3. b
                BY <4>1, <4>2
            <4>4. b = TRUE
                BY <4>2, <4>3
            <4>5. QED
                BY <4>2, <4>4
        <3>4. login[1] # None
            BY <3>3, ClientSessionAssumption
        <3>5. QED
            BY <1>1, <2>1, <3>1, <3>2, <3>3, <3>4 DEF LoginAccepted, LoginKnown, Settled
    <2>2. CASE LoginRefused
        <3>1. Head(toClient) = <<13, None>> /\ toClient' = <<>>
            BY <1>1, <2>2, ShortQueues DEF LoginRefused
        <3>2. user_id' = None /\ error_occur'
            BY <2>2, <3>1, ErrorTaken DEF LoginRefused, NobodyYet
        <3>3. QED
            BY <1>1, <2>2, <3>1, <3>2 DEF LoginRefused, LoginKnown, Settled
    <2>3. QED
        BY <1>2, <2>1, <2>2
<1>4. QED
    BY <1>1, <1>3 DEF LoginInv, NoGame

(* The server has taken the log-out that was before. *)
LEMMA LogsOut ==
    ASSUME TypeOK, LoginInv, Serve, NEW u \in Users, Head(toServer) = <<2, u>>,
           logged = {u}
    PROVE  /\ logged' = {} /\ \A v \in Users : lent'[v] = None
           /\ toClient' = toClient
<1>1. log_user_out(u)
    BY DEF Serve
<1>2. QED
    BY <1>1 DEF log_user_out, LoginInv, TypeOK

LEMMA LoginServeInv == ASSUME TypeOK, LoginInv, Serve PROVE LoginInv'
<1>1. /\ toServer # <<>> /\ toServer' = Tail(toServer)
      /\ UNCHANGED <<user_id, username, error_occur, login, gaming, streaming, unheard>>
    BY DEF Serve, clientVars, threadVars, history
<1>2. LoginIdle \/ LoginSent
    BY <1>1 DEF LoginInv, LoginAccepted, LoginRefused, LoginKnown, Settled
<1>3. CASE LoginIdle
    <2>1. PICK u \in Users : toServer = <<<<2, u>>>> /\ logged = {u}
        BY <1>1, <1>3 DEF LoginIdle
    <2>2. Head(toServer) = <<2, u>> /\ toServer' = <<>>
        BY <1>1, <2>1, ShortQueues
    <2>3. /\ logged' = {} /\ \A v \in Users : lent'[v] = None
          /\ toClient' = toClient
        BY <2>1, <2>2, LogsOut
    <2>4. LoginIdle'
        BY <1>1, <1>3, <2>2, <2>3 DEF LoginIdle, NobodyYet
    <2>5. QED
        BY <1>1, <2>3, <2>4 DEF LoginInv, NoGame
<1>4. CASE LoginSent
    <2>1. ASSUME NEW u \in Users, toServer = <<<<2, u>>, <<1, login>>>>, logged = {u}
          PROVE  LoginInv'
        <3>1. Head(toServer) = <<2, u>> /\ toServer' = <<<<1, login>>>>
            BY <1>1, <2>1, ShortQueues
        <3>2. /\ logged' = {} /\ \A v \in Users : lent'[v] = None
              /\ toClient' = toClient
            BY <2>1, <3>1, LogsOut
        <3>3. LoginSent'
            BY <1>1, <1>4, <3>1, <3>2 DEF LoginSent, NobodyYet
        <3>4. QED
            BY <1>1, <3>2, <3>3 DEF LoginInv, NoGame
    <2>2. CASE toServer = <<<<1, login>>>> /\ logged = {}
        <3>1. Head(toServer) = <<1, login>> /\ toServer' = <<>>
            BY <1>1, <2>2, ShortQueues
        <3>2. log_user_in(login)
            BY <3>1 DEF Serve
        <3>3. login[1] \in Users
            BY <1>4 DEF TypeOK, LoginSent, Credentials
        <3>4. CASE /\ login[2]
                   /\ logged' = logged \cup {login[1]}
                   /\ lent' = [lent EXCEPT ![login[1]] = None]
                   /\ Reply(<<1, login[1]>>)
            <4>1. toClient' = <<<<1, login[1]>>>>
                BY <1>4, <3>4, ShortQueues DEF Reply, LoginSent
            <4>2. logged' = {login[1]} /\ \A v \in Users : lent'[v] = None
                BY <2>2, <3>4 DEF LoginInv, TypeOK
            <4>3. LoginAccepted'
                BY <1>1, <1>4, <3>1, <3>4, <4>1, <4>2
                   DEF LoginSent, LoginAccepted, NobodyYet
            <4>4. QED
                BY <1>1, <4>2, <4>3 DEF LoginInv, NoGame
        <3>5. CASE Error /\ UNCHANGED <<logged, lent>>
            <4>1. toClient' = <<<<13, None>>>>
                BY <1>4, <3>5, ShortQueues DEF Error, Reply, LoginSent
            <4>2. LoginRefused'
                BY <1>1, <1>4, <2>2, <3>1, <3>5, <4>1
                   DEF LoginSent, LoginRefused, NobodyYet
            <4>3. QED
                BY <1>1, <3>5, <4>2 DEF LoginInv, NoGame
        <3>6. QED
            BY <3>2, <3>4, <3>5 DEF log_user_in
    <2>3. QED
        BY <1>4, <2>1, <2>2 DEF LoginSent
<1>5. QED
    BY <1>2, <1>3, <1>4

LEMMA LoginKept ==
    ASSUME LoginInv,
           UNCHANGED <<user_id, username, error_occur, login, gaming, streaming, toServer,
                       toClient, logged, lent, unheard>>
    PROVE  LoginInv'
<1>1. (LoginIdle => LoginIdle') /\ (LoginSent => LoginSent')
    BY DEF LoginIdle, LoginSent, NobodyYet
<1>2. /\ LoginAccepted => LoginAccepted'
      /\ LoginRefused => LoginRefused'
      /\ LoginKnown => LoginKnown'
    BY DEF LoginAccepted, LoginRefused, LoginKnown, NobodyYet, Settled
<1>3. QED
    BY <1>1, <1>2 DEF LoginInv, NoGame
-----------------------------------------------------------------------------
(* Packets on their way *)

LEMMA PacketsApart ==
    /\ Ask # Leave /\ Ask[1] = 3 /\ Leave[1] = 4 /\ Ask[2] = user_id /\ Leave[2] = user_id
    /\ \A p : p[1] = 23 => p \notin {Ask, Leave}
    BY DEF Ask, Leave

LEMMA PushFacts ==
    ASSUME TypeOK, NEW p, push_packet(p)
    PROVE  /\ Len(toServer) \in Nat /\ DOMAIN toServer = 1..Len(toServer)
           /\ DOMAIN toServer' = DOMAIN toServer \union {Len(toServer) + 1}
           /\ \A i \in DOMAIN toServer :
                 i < Len(toServer) + 1 /\ toServer'[i] = toServer[i]
           /\ toServer'[Len(toServer) + 1] = p
           /\ toClient' = toClient
<1>1. toServer' = Append(toServer, p) /\ toClient' = toClient
    BY DEF push_packet
<1>2. PICK queue : queue = toServer'
    OBVIOUS
<1>3. toServer \in Seq(Requests)
    BY QueueTypes
<1>4. /\ Len(toServer) \in Nat /\ DOMAIN toServer = 1..Len(toServer)
      /\ DOMAIN Append(toServer, p) = DOMAIN toServer \union {Len(toServer) + 1}
      /\ \A i \in DOMAIN toServer :
            i < Len(toServer) + 1 /\ Append(toServer, p)[i] = toServer[i]
      /\ Append(toServer, p)[Len(toServer) + 1] = p
    BY <1>3, AppendFacts
<1>5. QED
    BY <1>1, <1>4

LEMMA PushLength ==
    ASSUME TypeOK, NEW p, push_packet(p)
    PROVE  Len(toServer') = Len(toServer) + 1
<1>1. toServer' = Append(toServer, p) /\ toServer \in Seq(Requests)
    BY QueueTypes DEF push_packet
<1>2. toServer \in Seq(Requests \union {p}) /\ p \in Requests \union {p}
    BY <1>1
<1>3. QED
    BY <1>1, <1>2, AppendType

LEMMA PushUser ==
    ASSUME TypeOK, UserInv, NEW p, push_packet(p), p \in {Ask, Leave} \/ p[1] = 23,
           UNCHANGED <<user_id, username, login, logged, lent>>
    PROVE  UserInv'
<1>1. /\ \A i \in DOMAIN toServer' : i \in DOMAIN toServer \/ i = Len(toServer) + 1
      /\ \A i \in DOMAIN toServer : toServer'[i] = toServer[i]
      /\ toServer'[Len(toServer) + 1] = p
      /\ toClient' = toClient
    BY PushFacts
<1>2. \A i \in DOMAIN toServer' :
          toServer'[i] \in {<<3, user_id>>, <<4, user_id>>} \/ toServer'[i][1] = 23
    <2> TAKE i \in DOMAIN toServer'
    <2>1. CASE i \in DOMAIN toServer
        BY <1>1, <2>1 DEF UserInv
    <2>2. CASE i = Len(toServer) + 1
        BY <1>1, <2>2 DEF Ask, Leave
    <2>3. QED
        BY <1>1, <2>1, <2>2
<1>3. QED
    BY <1>1, <1>2 DEF UserInv

LEMMA PushLeave ==
    ASSUME TypeOK, push_packet(Leave), user_id' = user_id
    PROVE  GoesBack'
<1>1. Leave' = Leave /\ Ask' = Ask
    BY DEF Leave, Ask
<1>2. PICK n : n = Len(toServer) + 1
    OBVIOUS
<1>3. n \in DOMAIN toServer' /\ toServer'[n] = Leave' /\ n \in Nat
    BY <1>1, <1>2, PushFacts
<1>4. Len(toServer') = n
    BY <1>2, PushLength
<1>5. \A j \in DOMAIN toServer' : ~(j > n)
    BY <1>2, PushFacts
<1>6. QED
    BY <1>3, <1>4, <1>5 DEF GoesBack, BackBefore

(* What is before packet number n does not depend on what comes after it. *)
LEMMA PushBefore ==
    ASSUME TypeOK, NEW p, push_packet(p), UNCHANGED <<user_id, lent>>,
           NEW n \in 1..(Len(toServer) + 1), BackBefore(n)
    PROVE  BackBefore(n)'
<1>1. Leave' = Leave /\ Ask' = Ask
    BY DEF Leave, Ask
<1>2. /\ \A i \in DOMAIN toServer' : i < n => i \in DOMAIN toServer
      /\ \A i \in DOMAIN toServer : i \in DOMAIN toServer' /\ toServer'[i] = toServer[i]
    <2>1. Len(toServer) \in Nat
          /\ DOMAIN toServer' = DOMAIN toServer \union {Len(toServer) + 1}
        BY PushFacts
    <2>2. ~(Len(toServer) + 1 < n)
        BY <2>1
    <2>3. QED
        BY <2>1, <2>2, PushFacts
<1>3. QED
    BY <1>1, <1>2 DEF BackBefore

LEMMA PushAsk ==
    ASSUME TypeOK, push_packet(Ask), GoesBack, UNCHANGED <<user_id, lent>>
    PROVE  WillCome'
<1>1. Leave' = Leave /\ Ask' = Ask
    BY DEF Leave, Ask
<1>2. PICK n : n = Len(toServer) + 1
    OBVIOUS
<1>3. n \in DOMAIN toServer' /\ toServer'[n] = Ask'
    BY <1>1, <1>2, PushFacts
<1>4. \A j \in DOMAIN toServer' : ~(j > n)
    BY <1>2, PushFacts
<1>5. BackBefore(n)'
    <2>1. BackBefore(n) /\ n \in 1..(Len(toServer) + 1)
        BY <1>2, PushFacts DEF GoesBack
    <2>2. QED
        BY <2>1, PushBefore
<1>6. AskedBy(n)'
    BY <1>3, <1>4, <1>5 DEF AskedBy
<1>7. Len(toServer') = n
    BY <1>2, PushLength
<1>8. QED
    BY <1>6, <1>7 DEF WillCome

(* A packet about a pairing changes nothing about the session. *)
LEMMA PushCode ==
    ASSUME TypeOK, NEW p, push_packet(p), p[1] = 23,
           UNCHANGED <<user_id, using_gdomain_address, lent, unheard>>
    PROVE  (GoesBack => GoesBack') /\ (Comes => Comes')
<1>1. Leave' = Leave /\ Ask' = Ask /\ p # Ask /\ p # Leave
    BY PacketsApart DEF Leave, Ask
<1>2. PICK n : n = Len(toServer) + 1
    OBVIOUS
<1>3. /\ \A i \in DOMAIN toServer' : i \in DOMAIN toServer \/ i = n
      /\ \A i \in DOMAIN toServer :
            i \in DOMAIN toServer' /\ toServer'[i] = toServer[i] /\ i < n
      /\ toServer'[n] = p
      /\ toClient' = toClient
    BY <1>2, PushFacts
<1>4. Len(toServer') = n /\ n \in Nat /\ \A i \in DOMAIN toServer' : i \in Nat /\ i <= n
    BY <1>2, PushFacts, PushLength
<1>5. GoesBack => GoesBack'
    BY <1>1, <1>2, <1>3, <1>4 DEF GoesBack, BackBefore
<1>6. ASSUME NEW k \in DOMAIN toServer, AskedBy(k) PROVE AskedBy(k)'
    <2>1. BackBefore(k)'
        <3>1. k \in 1..(Len(toServer) + 1)
            BY PushFacts
        <3>2. QED
            BY <1>6, <3>1, PushBefore DEF AskedBy
    <2>2. QED
        BY <1>1, <1>3, <1>6, <2>1 DEF AskedBy
<1>7. (\A i \in DOMAIN toServer : toServer[i] \notin {Ask, Leave}) =>
          \A i \in DOMAIN toServer' : toServer'[i] \notin {Ask', Leave'}
    BY <1>1, <1>3
<1>8. /\ AddressComes => AddressComes'
      /\ AddressKnown => AddressKnown'
      /\ Refused => Refused'
    BY <1>3 DEF AddressComes, AddressKnown, Refused
<1>9. Comes => Comes'
    BY <1>3, <1>6, <1>7, <1>8 DEF Comes
<1>10. QED
    BY <1>5, <1>9

LEMMA SessionKept ==
    ASSUME UNCHANGED <<user_id, using_gdomain_address, error_occur, toServer, toClient, lent,
                       unheard>>
    PROVE  (GoesBack => GoesBack') /\ (Comes => Comes') /\ (WillCome => WillCome')
<1>1. Leave' = Leave /\ Ask' = Ask
    BY DEF Leave, Ask
<1>2. \A n : (BackBefore(n) => BackBefore(n)') /\ (AskedBy(n) => AskedBy(n)')
    BY <1>1 DEF BackBefore, AskedBy
<1>3. /\ AddressComes => AddressComes'
      /\ AddressKnown => AddressKnown'
      /\ Refused => Refused'
      /\ Answering => Answering'
    BY DEF AddressComes, AddressKnown, Refused, Answering
<1>4. GoesBack => GoesBack'
    BY <1>2 DEF GoesBack
<1>5. Comes => Comes'
    BY <1>1, <1>2, <1>3 DEF Comes
<1>6. WillCome => WillCome'
    BY <1>2, <1>3 DEF WillCome
<1>7. QED
    BY <1>4, <1>5, <1>6

LEMMA UserKept ==
    ASSUME UserInv,
           UNCHANGED <<user_id, username, login, toServer, toClient, logged, lent>>
    PROVE  UserInv'
    BY DEF UserInv
-----------------------------------------------------------------------------
(* The status screen *)

LEMMA EndedIdle ==
    ASSUME ThreadsInv, NEW t \in Threads, gaming[t].at = "none"
    PROVE  gaming[t] = Ended
    BY DEF ThreadsInv, Active

LEMMA LogoutInv ==
    ASSUME TypeOK, StatusInv, Logout, ~stray'
    PROVE  LoginInv' /\ screen' = "login" /\ username' = None
<1>1. /\ screen = "status" /\ screen' = "login" /\ user_id' = None /\ username' = None
      /\ SendLogout
      /\ UNCHANGED <<error_occur, login, gaming, streaming, logged, lent, unheard>>
    BY DEF Logout, set_window_content, threadVars, serverVars
<1>2. Settled /\ \A t \in Threads : gaming[t] = Ended
    BY DEF Logout
<1>3. /\ login = None /\ user_id \in Users /\ logged = {user_id}
      /\ \A u \in Users \ {user_id} : lent[u] = None
    BY DEF StatusInv, UserInv
<1>4. DOMAIN toServer = {}
    BY <1>2 DEF Settled
<1>5. ~Asking
    BY <1>2 DEF Asking, Ended
<1>6. lent[user_id] = None /\ (error_occur => unheard)
    BY <1>1, <1>4, <1>5 DEF StatusInv, SessionInv, GoesBack, BackBefore, ErrorInv
<1>7. NoGame
    BY <1>1 DEF StatusInv, ThreadsInv
<1>8. toServer' = <<<<2, user_id>>>> /\ toClient' = <<>>
    <2>1. user_id # None
        BY <1>3, ClientSessionAssumption
    <2>2. toServer' = Append(<<>>, <<2, user_id>>) /\ toClient' = <<>>
        BY <1>1, <1>2, <2>1 DEF SendLogout, push_packet, Settled
    <2>3. QED
        BY <2>2, ShortQueues
<1>9. LoginIdle'
    BY <1>1, <1>3, <1>6, <1>8 DEF LoginIdle, NobodyYet
<1>10. QED
    BY <1>1, <1>2, <1>3, <1>6, <1>7, <1>9 DEF LoginInv, NoGame

LEMMA UseGamingInv ==
    ASSUME TypeOK, StatusInv, NEW t \in Threads, UseGaming(t), ~stray'
    PROVE  StatusInv' /\ screen' = "status"
<1>1. /\ screen = "status" /\ push_packet(Ask)
      /\ gaming' = [gaming EXCEPT ![t].at = "check"]
      /\ UNCHANGED <<user_id, username, error_occur, using_gdomain_address, screen, games,
                     login, streaming, logged, lent, unheard>>
      /\ \A other \in Threads : gaming[other] = Ended
    BY DEF UseGaming, Ask, clientVars, screenVars, serverVars
<1>2. UserInv'
    BY <1>1, PushUser DEF StatusInv
<1>3. /\ gaming'[t].at = "check"
      /\ \A s \in Threads \ {t} : gaming'[s] = Ended /\ gaming'[s].at = "none"
    BY <1>1 DEF Ended, TypeOK
<1>4. games' = FALSE /\ NoGame /\ NoGame'
    BY <1>1 DEF StatusInv, ThreadsInv, TypeOK, NoGame
<1>5. ThreadsInv'
    BY <1>1, <1>3, <1>4 DEF ThreadsInv, Active
<1>6. ~Asking
    BY <1>1 DEF Asking, Ended
<1>7. SessionInv'
    <2>1. WillCome' /\ Asking'
        BY <1>1, <1>3, <1>6, PushAsk DEF Asking, StatusInv, SessionInv
    <2>2. ~Playing'
        BY <1>1 DEF Playing
    <2>3. QED
        BY <2>1, <2>2 DEF SessionInv
<1>8. ErrorInv'
    BY <1>1, <1>6 DEF StatusInv, ErrorInv
<1>9. QED
    BY <1>1, <1>2, <1>5, <1>7, <1>8 DEF StatusInv

(* The thread has seen no error: the session is on its way. *)
LEMMA CheckPasses ==
    ASSUME TypeOK, WillCome, ~error_occur
    PROVE  Comes
<1>1. CASE AskedBy(Len(toServer))
    BY <1>1 DEF AskedBy, Comes
<1>2. CASE toServer = <<>> /\ Answering
    <2>1. \A i \in DOMAIN toServer : toServer[i] \notin {Ask, Leave}
        BY <1>2
    <2>2. toClient # <<>> => /\ Len(toClient) \in DOMAIN toClient
                             /\ \A j \in DOMAIN toClient : ~(j > Len(toClient))
        BY QueueTypes, TailFacts
    <2>3. CASE toClient # <<>> /\ toClient[Len(toClient)] = <<3, lent[user_id]>>
        BY <2>1, <2>2, <2>3 DEF AddressComes, Comes
    <2>4. CASE toClient # <<>> /\ toClient[Len(toClient)][1] = 13 /\ lent[user_id] = None
        BY <2>1, <2>2, <2>4 DEF Refused, Comes
    <2>5. CASE toClient = <<>> /\ lent[user_id] = using_gdomain_address
        BY <2>1, <2>5 DEF AddressKnown, Comes
    <2>6. QED
        BY <1>2, <2>3, <2>4, <2>5 DEF Answering
<1>3. QED
    BY <1>1, <1>2 DEF WillCome

LEMMA CheckInv ==
    ASSUME TypeOK, StatusInv, NEW t \in Threads, UseGamingCheck(t), ~stray'
    PROVE  StatusInv' /\ screen' # "login"
<1>1. gaming[t].at = "check" /\ screen = "status" /\ Asking
    BY DEF UseGamingCheck, StatusInv, ThreadsInv, Asking
<1>2. UNCHANGED <<user_id, username, using_gdomain_address, login, streaming, toServer,
                  toClient, logged, lent>>
    BY DEF UseGamingCheck, netVars, serverVars
<1>3. \A s \in Threads \ {t} : gaming[s].at = "none"
    BY <1>1 DEF StatusInv, ThreadsInv, Active
<1>4. UserInv' /\ ~games /\ NoGame /\ NoGame'
    BY <1>1, <1>2 DEF StatusInv, UserInv, ThreadsInv, NoGame
<1>5. CASE error_occur
    <2>1. /\ ~error_occur' /\ ~unheard /\ gaming' = [gaming EXCEPT ![t] = Ended]
          /\ screen' = screen /\ games' = games
        BY <1>5 DEF UseGamingCheck, TakeError, screenVars
    <2>2. \A s \in Threads : gaming'[s].at = "none" /\ gaming'[s] = Ended
        <3>1. \A s \in Threads \ {t} : gaming[s] = Ended
            BY <1>3 DEF StatusInv, ThreadsInv, Active
        <3>2. QED
            BY <2>1, <3>1 DEF TypeOK, Ended
    <2>3. ThreadsInv'
        BY <1>4, <2>1, <2>2 DEF ThreadsInv, Active
    <2>4. Settled /\ lent[user_id] = None
        BY <1>5, <2>1 DEF StatusInv, ErrorInv
    <2>5. GoesBack'
        <3>1. DOMAIN toServer' = {} /\ lent'[user_id'] = None
            BY <1>2, <2>4 DEF Settled
        <3>2. QED
            BY <3>1 DEF GoesBack, BackBefore
    <2>6. ~Asking' /\ ~Playing'
        BY <1>1, <2>1, <2>2 DEF Asking, Playing
    <2>7. SessionInv' /\ ErrorInv'
        BY <2>1, <2>5, <2>6 DEF SessionInv, ErrorInv
    <2>8. QED
        BY <1>1, <1>4, <2>1, <2>3, <2>7 DEF StatusInv
<1>6. CASE ~error_occur
    <2>1. /\ gaming' = [gaming EXCEPT ![t] = [gaming[t] EXCEPT !.at = "list"]]
          /\ screen' = "game" /\ games' = FALSE /\ ~error_occur'
          /\ UNCHANGED <<error_occur, unheard>>
        BY <1>1, <1>6 DEF UseGamingCheck, set_window_content, history
    <2>2. /\ gaming'[t].at = "list"
          /\ \A s \in Threads \ {t} : gaming'[s] = gaming[s] /\ gaming'[s].at = "none"
        <3>1. gaming[t] \in GamingThread /\ t \in DOMAIN gaming
            BY DEF TypeOK
        <3>2. [gaming[t] EXCEPT !.at = "list"].at = "list"
            BY <3>1 DEF GamingThread
        <3>3. gaming'[t] = [gaming[t] EXCEPT !.at = "list"]
            BY <2>1, <3>1
        <3>4. \A s \in Threads \ {t} : gaming'[s] = gaming[s]
            BY <2>1 DEF TypeOK
        <3>5. QED
            BY <1>3, <3>2, <3>3, <3>4
    <2>3. ThreadsInv'
        BY <1>4, <2>1, <2>2 DEF StatusInv, ThreadsInv, Active
    <2>4. Comes'
        BY <1>1, <1>2, <1>6, <2>1, CheckPasses, SessionKept DEF StatusInv, SessionInv
    <2>5. ~Asking'
        <3>1. \A s \in Threads : gaming'[s].at # "check"
            BY <2>2
        <3>2. QED
            BY <3>1 DEF Asking
    <2>6. SessionInv' /\ ErrorInv'
        BY <2>1, <2>4, <2>5 DEF SessionInv, ErrorInv
    <2>7. QED
        BY <1>4, <2>1, <2>3, <2>6 DEF StatusInv
<1>7. QED
    BY <1>5, <1>6
-----------------------------------------------------------------------------
(* The game screen *)

(* A thread that is not the one that asked takes a step. *)
LEMMA OneThread ==
    ASSUME TypeOK, ThreadsInv, NEW t \in Threads, gaming[t].at \notin {"none", "check"}
    PROVE  /\ \A s \in Threads \ {t} : gaming[s] = Ended
           /\ ~games /\ ~Asking
           /\ screen = "game" => Playing
<1>1. \A s \in Threads \ {t} : ~Active(s)
    BY DEF ThreadsInv, Active
<1>2. \A s \in Threads \ {t} : gaming[s] = Ended
    BY <1>1 DEF ThreadsInv
<1>3. ~games
    BY DEF ThreadsInv, Active
<1>4. ~Asking
    BY <1>1 DEF Asking, Active
<1>5. screen = "game" => Playing
    BY DEF Playing
<1>6. QED
    BY <1>2, <1>3, <1>4, <1>5

LEMMA ThreadSteps ==
    ASSUME TypeOK, ThreadsInv, NEW t \in Threads, gaming[t].at \notin {"none", "check"},
           NEW g \in GamingThread, g = Ended \/ g.at \notin {"none", "check"},
           gaming' = [gaming EXCEPT ![t] = g],
           UNCHANGED <<screen, streaming>>,
           games' => screen = "game" /\ g = Ended
    PROVE  ThreadsInv' /\ ~Asking' /\ (g = Ended /\ ~games' => ~Playing')
<1>1. \A s \in Threads \ {t} : gaming[s] = Ended
    BY OneThread
<1>2. gaming'[t] = g /\ \A s \in Threads \ {t} : gaming'[s] = Ended
    BY <1>1 DEF TypeOK
<1>3. Ended.at = "none" /\ g.at # "check"
    BY DEF Ended
<1>4. \A s \in Threads : gaming'[s].at # "none" => s = t
    BY <1>2, <1>3
<1>5. \A s \in Threads : gaming'[s].at # "check"
    BY <1>2, <1>3
<1>6. ThreadsInv'
    BY <1>2, <1>3, <1>4, <1>5 DEF ThreadsInv, Active, NoGame
<1>7. ~Asking'
    BY <1>5 DEF Asking
<1>8. g = Ended /\ ~games' => ~Playing'
    BY <1>2, <1>3 DEF Playing
<1>9. QED
    BY <1>6, <1>7, <1>8

(* Nothing changes about the session, and the thread goes on. *)
LEMMA GoesOn ==
    ASSUME TypeOK, StatusInv, NEW t \in Threads, gaming[t].at \notin {"none", "check"},
           NEW g \in GamingThread, g = Ended \/ g.at \notin {"none", "check"},
           gaming' = [gaming EXCEPT ![t] = g],
           games' => screen = "game" /\ g = Ended,
           UNCHANGED <<user_id, username, error_occur, using_gdomain_address, screen, login,
                       streaming, logged, lent, unheard>>,
           \/ UNCHANGED <<toServer, toClient>>
           \/ \E s \in Sessions \cup {None} : push_packet(<<23, <<s, t>>>>)
    PROVE  StatusInv'
<1>1. ThreadsInv' /\ ~Asking'
    BY ThreadSteps DEF StatusInv
<1>2. ~Asking /\ (screen = "game" => Playing)
    BY OneThread DEF StatusInv
<1>3. (GoesBack => GoesBack') /\ (Comes => Comes') /\ UserInv'
    <2>1. CASE UNCHANGED <<toServer, toClient>>
        BY <2>1, SessionKept, UserKept DEF StatusInv
    <2>2. ASSUME NEW p, p[1] = 23, push_packet(p)
          PROVE  (GoesBack => GoesBack') /\ (Comes => Comes') /\ UserInv'
        BY <2>2, PushCode, PushUser DEF StatusInv
    <2>3. \A s : <<23, <<s, t>>>>[1] = 23
        OBVIOUS
    <2>4. QED
        BY <2>1, <2>2, <2>3
<1>4. SessionInv'
    <2>1. screen = "status" => GoesBack'
        BY <1>2, <1>3 DEF StatusInv, SessionInv
    <2>2. screen = "game" => Comes'
        BY <1>2, <1>3 DEF StatusInv, SessionInv
    <2>3. QED
        BY <1>1, <2>1, <2>2 DEF SessionInv, Playing
<1>5. ErrorInv'
    BY <1>2 DEF StatusInv, ErrorInv
<1>6. QED
    BY <1>1, <1>3, <1>4, <1>5 DEF StatusInv

(* The pairing has failed: the thread ends and the session goes back. *)
LEMMA GivesUp ==
    ASSUME TypeOK, StatusInv, NEW t \in Threads, gaming[t].at \notin {"none", "check"},
           gaming' = [gaming EXCEPT ![t] = Ended],
           push_packet(LeavePacket),
           UNCHANGED <<user_id, username, error_occur, screen, games, login, streaming,
                       logged, lent, unheard>>
    PROVE  StatusInv'
<1>1. ~games
    BY OneThread DEF StatusInv
<1>2. ThreadsInv' /\ ~Asking' /\ ~Playing'
    BY <1>1, ThreadSteps, ThreadTypes DEF StatusInv
<1>3. push_packet(Leave)
    BY DEF LeavePacket, Leave
<1>4. UserInv' /\ GoesBack'
    BY <1>3, PushUser, PushLeave DEF StatusInv
<1>5. ErrorInv'
    <2>1. ~Asking
        BY OneThread DEF StatusInv
    <2>2. QED
        BY <2>1 DEF StatusInv, ErrorInv
<1>6. QED
    BY <1>2, <1>4, <1>5 DEF StatusInv, SessionInv

LEMMA GameInv ==
    ASSUME TypeOK, StatusInv, NEW t \in Threads,
           ListGames(t) \/ ListDone(t) \/ Pair(t) \/ PairDone(t)
    PROVE  StatusInv' /\ screen' = screen
<1>1. CASE ListGames(t)
    <2>1. /\ gaming[t].at \notin {"none", "check"}
          /\ UNCHANGED <<user_id, username, error_occur, using_gdomain_address, screen,
                         games, login, streaming, toServer, toClient, logged, lent,
                         unheard>>
        BY <1>1 DEF ListGames, clientVars, screenVars, netVars, serverVars, history
    <2>2. PICK at \in {"listed", "listed again"} :
             gaming' = [gaming EXCEPT ![t] = [at |-> at, ip |-> using_gdomain_address]]
        BY <1>1 DEF ListGames
    <2>3. PICK g \in GamingThread : gaming' = [gaming EXCEPT ![t] = g] /\ g.at = at
        BY <2>2, ThreadTypes DEF TypeOK
    <2>4. ~games'
        BY <2>1, OneThread DEF StatusInv
    <2>5. QED
        BY <2>1, <2>2, <2>3, <2>4, GoesOn
<1>2. CASE ListDone(t)
    <2>1. /\ gaming[t].at \notin {"none", "check"}
          /\ UNCHANGED <<user_id, username, error_occur, using_gdomain_address, screen,
                         login, streaming, toServer, toClient, logged, lent, unheard>>
        BY <1>2 DEF ListDone, clientVars, netVars, serverVars, history
    <2>2. ~games
        BY <2>1, OneThread DEF StatusInv
    <2>3. \E g \in GamingThread :
             /\ gaming' = [gaming EXCEPT ![t] = g]
             /\ g = Ended \/ g.at \notin {"none", "check"}
             /\ games' => screen = "game" /\ g = Ended
        <3>1. CASE /\ screen = "game" /\ games' = TRUE
                   /\ gaming' = [gaming EXCEPT ![t] = Ended]
            BY <3>1, ThreadTypes
        <3>2. CASE /\ UNCHANGED games
                   /\ \/ gaming' = [gaming EXCEPT ![t] = Ended]
                      \/ gaming' = [gaming EXCEPT ![t] = [at |-> "pair", ip |-> None]]
            BY <2>2, <3>2, ThreadTypes
        <3>3. QED
            BY <1>2, <3>1, <3>2 DEF ListDone
    <2>4. QED
        BY <2>1, <2>3, GoesOn
<1>3. CASE Pair(t)
    <2>1. /\ gaming[t].at \notin {"none", "check"}
          /\ UNCHANGED <<user_id, username, error_occur, using_gdomain_address, screen,
                         games, login, streaming, logged, lent, unheard>>
        BY <1>3 DEF Pair, clientVars, screenVars, serverVars, history
    <2>2. ~games'
        BY <2>1, OneThread DEF StatusInv
    <2>3. CASE gaming' = [gaming EXCEPT ![t].at = "again"] /\ UNCHANGED netVars
        <3>1. PICK g \in GamingThread : gaming' = [gaming EXCEPT ![t] = g] /\ g.at = "again"
            <4>1. PICK g : g = [gaming[t] EXCEPT !.at = "again"]
                OBVIOUS
            <4>2. gaming' = [gaming EXCEPT ![t] = g]
                BY <2>3, <4>1
            <4>3. g \in GamingThread
                BY <4>1, ThreadTypes
            <4>4. gaming[t] \in GamingThread
                BY ThreadTypes
            <4>5. g.at = "again"
                BY <4>1, <4>4 DEF GamingThread
            <4>6. QED
                BY <4>2, <4>3, <4>5
        <3>2. QED
            BY <2>1, <2>2, <2>3, <3>1, GoesOn DEF netVars
    <2>4. CASE /\ push_packet(LeavePacket)
               /\ gaming' = [gaming EXCEPT ![t] = Ended]
        BY <2>1, <2>4, GivesUp
    <2>5. CASE /\ push_packet(<<23, <<using_gdomain_address, t>>>>)
               /\ gaming' = [gaming EXCEPT
                     ![t] = [at |-> "code", ip |-> using_gdomain_address]]
        <3>1. using_gdomain_address \in Sessions \cup {None}
            BY DEF TypeOK
        <3>2. PICK g \in GamingThread : gaming' = [gaming EXCEPT ![t] = g] /\ g.at = "code"
            BY <2>5, <3>1, ThreadTypes
        <3>3. QED
            BY <2>1, <2>2, <2>5, <3>1, <3>2, GoesOn
    <2>6. CASE PairRaises(t)
        BY <2>1, <2>2, <2>6, ThreadTypes, GoesOn DEF PairRaises, netVars
    <2>7. QED
        BY <1>3, <2>1, <2>3, <2>4, <2>5, <2>6 DEF Pair
<1>4. CASE PairDone(t)
    <2>1. /\ gaming[t].at \notin {"none", "check"}
          /\ UNCHANGED <<user_id, username, error_occur, using_gdomain_address, screen,
                         games, login, streaming, logged, lent, unheard>>
        BY <1>4 DEF PairDone, clientVars, screenVars, serverVars, history
    <2>2. ~games'
        BY <2>1, OneThread DEF StatusInv
    <2>3. CASE /\ gaming' = [gaming EXCEPT ![t] = [at |-> "again", ip |-> None]]
               /\ UNCHANGED netVars
        <3>1. PICK g \in GamingThread : gaming' = [gaming EXCEPT ![t] = g] /\ g.at = "again"
            <4>1. PICK g : g = [at |-> "again", ip |-> None]
                OBVIOUS
            <4>2. g \in GamingThread /\ g.at = "again"
                BY <4>1 DEF GamingThread
            <4>3. QED
                BY <2>3, <4>1, <4>2
        <3>2. QED
            BY <2>1, <2>2, <2>3, <3>1, GoesOn DEF netVars
    <2>4. CASE /\ push_packet(LeavePacket)
               /\ gaming' = [gaming EXCEPT ![t] = Ended]
        BY <2>1, <2>4, GivesUp
    <2>5. CASE PairRaises(t)
        BY <2>1, <2>2, <2>5, ThreadTypes, GoesOn DEF PairRaises, netVars
    <2>6. QED
        BY <1>4, <2>3, <2>4, <2>5 DEF PairDone
<1>5. QED
    <2>1. screen' = screen
        BY DEF ListGames, ListDone, Pair, PairDone, screenVars
    <2>2. QED
        BY <1>1, <1>2, <1>3, <1>4, <2>1

LEMMA ReturnInv ==
    ASSUME TypeOK, StatusInv, Return \/ \E g \in Games : StreamEnd(g), ~stray'
    PROVE  StatusInv' /\ screen' = "status"
<1>1. /\ screen = "game" /\ NoGame'
      /\ push_packet(Leave) /\ screen' = "status" /\ games' = FALSE
      /\ UNCHANGED <<user_id, username, error_occur, login, gaming, logged, lent, unheard>>
    <2>1. CASE Return
        BY <2>1 DEF Return, return_status, set_window_content, LeavePacket, Leave, NoGame,
                    clientVars, threadVars, serverVars
    <2>2. ASSUME NEW g \in Games, StreamEnd(g)
          PROVE  /\ screen = "game" /\ NoGame'
                 /\ push_packet(Leave) /\ screen' = "status" /\ games' = FALSE
                 /\ UNCHANGED <<user_id, username, error_occur, login, gaming, logged, lent,
                                unheard>>
        <3>1. screen = "game"
            BY <2>2 DEF StreamEnd, StatusInv, ThreadsInv, NoGame
        <3>2. NoGame'
            BY <2>2 DEF StreamEnd, NoGame, TypeOK
        <3>3. QED
            BY <2>2, <3>1, <3>2 DEF StreamEnd, return_status, set_window_content,
                                    LeavePacket, Leave, clientVars, serverVars
    <2>3. QED
        BY <2>1, <2>2
<1>2. UserInv' /\ GoesBack'
    BY <1>1, PushUser, PushLeave DEF StatusInv
<1>3. \A t \in Threads : gaming[t].at # "check"
    BY <1>1 DEF StatusInv, ThreadsInv
<1>4. ThreadsInv'
    BY <1>1, <1>3 DEF StatusInv, ThreadsInv, Active
<1>5. ~Asking /\ ~Asking' /\ ~Playing'
    BY <1>1, <1>3 DEF Asking, Playing
<1>6. ErrorInv'
    BY <1>1, <1>5 DEF StatusInv, ErrorInv
<1>7. QED
    BY <1>1, <1>2, <1>4, <1>5, <1>6 DEF StatusInv, SessionInv

LEMMA ChooseGameInv ==
    ASSUME TypeOK, StatusInv, NEW g \in Games, ChooseGame(g)
    PROVE  StatusInv' /\ screen' = screen
<1>1. /\ screen = "game"
      /\ UNCHANGED <<user_id, username, error_occur, using_gdomain_address, screen, games,
                     login, gaming, toServer, toClient, logged, lent, unheard>>
    BY DEF ChooseGame, clientVars, screenVars, netVars, serverVars, history
<1>2. UserInv' /\ (GoesBack => GoesBack') /\ (Comes => Comes') /\ (WillCome => WillCome')
    BY <1>1, SessionKept, UserKept DEF StatusInv
<1>3. ThreadsInv'
    BY <1>1 DEF StatusInv, ThreadsInv, Active
<1>4. Asking' = Asking /\ Playing' = Playing
    BY <1>1 DEF Asking, Playing
<1>5. ErrorInv'
    BY <1>1, <1>4 DEF StatusInv, ErrorInv, Settled
<1>6. QED
    BY <1>1, <1>2, <1>3, <1>4, <1>5 DEF StatusInv, SessionInv
-----------------------------------------------------------------------------
(* The packets arrive *)

LEMMA TakenFacts ==
    ASSUME TypeOK, toClient # <<>>, toClient' = Tail(toClient)
    PROVE  /\ Head(toClient) = toClient[1] /\ 1 \in DOMAIN toClient
           /\ Head(toClient) \in Answers
           /\ \A i \in DOMAIN toClient' :
                 i + 1 \in DOMAIN toClient /\ toClient'[i] = toClient[i + 1]
           /\ \A i \in DOMAIN toClient : i = 1 \/ i - 1 \in DOMAIN toClient'
           /\ \A i \in DOMAIN toClient : i \in Nat \ {0}
<1>1. toClient \in Seq(Answers)
    BY QueueTypes
<1>2. /\ Head(toClient) = toClient[1] /\ Len(toClient) \in Nat \ {0}
      /\ DOMAIN toClient = 1..Len(toClient)
      /\ DOMAIN toClient' = 1..(Len(toClient) - 1)
      /\ \A i \in DOMAIN toClient' : toClient'[i] = toClient[i + 1]
    BY <1>1, TailFacts
<1>3. Head(toClient) \in Answers
    BY <1>1, TailType
<1>4. QED
    BY <1>2, <1>3

(* An answer of either kind that there can be. *)
LEMMA AnswerKinds ==
    ASSUME TypeOK, UserInv, TakeAnswer
    PROVE  \E answer \in Answers :
              /\ answer = Head(toClient) /\ toClient[1] = answer /\ 1 \in DOMAIN toClient
              /\ answer[1] \in {3, 13}
              /\ user_id' = user_id
              /\ answer[1] = 3 => /\ using_gdomain_address' = answer[2]
                                  /\ UNCHANGED <<error_occur, unheard>>
              /\ answer[1] = 13 => /\ using_gdomain_address' = using_gdomain_address
                                   /\ error_occur' = TRUE
              /\ unheard => unheard'
              /\ answer[1] = 13 /\ ~(Asking /\ toServer = <<>> /\ toClient' = <<>>) => unheard'
<1>1. toClient # <<>> /\ toClient' = Tail(toClient)
    BY DEF TakeAnswer
<1>2. PICK answer \in Answers : answer = Head(toClient)
    BY <1>1, TakenFacts
<1>3. toClient[1] = answer /\ 1 \in DOMAIN toClient /\ answer[1] \in {3, 13}
    BY <1>1, <1>2, TakenFacts DEF UserInv
<1>4. Waiting => Asking
    BY DEF Waiting, Asking, UserInv
<1>5. /\ answer[1] # 1 => user_id' = user_id
      /\ answer[1] = 3 => using_gdomain_address' = answer[2]
      /\ answer[1] # 3 => using_gdomain_address' = using_gdomain_address
      /\ answer[1] = 13 => error_occur' = TRUE
      /\ answer[1] # 13 => error_occur' = error_occur /\ unheard' = unheard
      /\ unheard => unheard'
      /\ answer[1] = 13 /\ ~(Waiting /\ toServer = <<>> /\ toClient' = <<>>) => unheard'
    <2> HIDE DEF TypeOK, TakeAnswer, Waiting
    <2>1. QED
        BY <1>2, AnswerTaken
<1>6. /\ answer[1] = 3 => answer[1] # 1 /\ answer[1] # 13
      /\ answer[1] = 13 => answer[1] # 1 /\ answer[1] # 3
    OBVIOUS
<1>7. /\ user_id' = user_id
      /\ answer[1] = 3 => /\ using_gdomain_address' = answer[2]
                          /\ UNCHANGED <<error_occur, unheard>>
      /\ answer[1] = 13 => /\ using_gdomain_address' = using_gdomain_address
                           /\ error_occur' = TRUE
    BY <1>3, <1>5, <1>6
<1>8. answer[1] = 13 /\ ~(Asking /\ toServer = <<>> /\ toClient' = <<>>) => unheard'
    BY <1>4, <1>5
<1>9. QED
    BY <1>2, <1>3, <1>5, <1>7, <1>8

LEMMA AnswerComes ==
    ASSUME TypeOK, UserInv, Comes, ~Asking, TakeAnswer
    PROVE  Comes'
<1>1. /\ toClient # <<>> /\ toClient' = Tail(toClient)
      /\ UNCHANGED <<toServer, lent>>
    BY DEF TakeAnswer, serverVars
<1>2. PICK answer \in Answers :
          /\ toClient[1] = answer /\ 1 \in DOMAIN toClient
          /\ answer[1] \in {3, 13} /\ user_id' = user_id
          /\ answer[1] = 3 => using_gdomain_address' = answer[2]
          /\ answer[1] = 13 => using_gdomain_address' = using_gdomain_address /\ unheard'
          /\ unheard => unheard'
    BY AnswerKinds
<1>3. Ask' = Ask /\ Leave' = Leave
    BY <1>2 DEF Ask, Leave
<1>4. ASSUME NEW n \in DOMAIN toServer, AskedBy(n)
      PROVE  Comes'
    BY <1>1, <1>2, <1>3, <1>4 DEF AskedBy, BackBefore, Comes
<1>5. ASSUME \A i \in DOMAIN toServer : toServer[i] \notin {Ask, Leave},
             (AddressComes \/ AddressKnown \/ Refused)'
      PROVE  Comes'
    BY <1>1, <1>3, <1>5 DEF Comes
<1>6. \A j \in DOMAIN toClient' :
          j \in Nat \ {0} /\ j + 1 \in DOMAIN toClient /\ toClient'[j] = toClient[j + 1]
    BY <1>1, TakenFacts, QueueTypes, TailFacts
<1>7. \A i \in DOMAIN toClient : i # 1 =>
          \E k \in DOMAIN toClient' : i = k + 1 /\ toClient'[k] = toClient[i]
    <2> TAKE i \in DOMAIN toClient
    <2> HAVE i # 1
    <2>1. PICK k : k = i - 1
        OBVIOUS
    <2>2. k \in DOMAIN toClient' /\ i = k + 1
        BY <1>1, <2>1, TakenFacts
    <2>3. QED
        BY <1>6, <2>2
<1>8. /\ (lent'[user_id'] = using_gdomain_address'
          /\ \A j \in DOMAIN toClient' : toClient'[j][1] # 3) => AddressKnown'
      /\ \A k \in DOMAIN toClient' :
            /\ toClient'[k] = <<3, lent'[user_id']>>
            /\ \A j \in DOMAIN toClient' : j > k => toClient'[j][1] # 3
            => AddressComes'
      /\ \A k \in DOMAIN toClient' :
            lent'[user_id'] = None /\ toClient'[k][1] = 13 => Refused'
      /\ lent'[user_id'] = None /\ unheard' => Refused'
    BY DEF AddressKnown, AddressComes, Refused
<1>9. ASSUME AddressComes PROVE (AddressComes \/ AddressKnown \/ Refused)'
    <2>1. PICK i \in DOMAIN toClient :
             /\ toClient[i] = <<3, lent[user_id]>>
             /\ \A j \in DOMAIN toClient : j > i => toClient[j][1] # 3
        BY <1>9 DEF AddressComes
    <2>2. CASE i = 1
        <3>1. answer[1] = 3 /\ answer[2] = lent[user_id]
            BY <1>2, <2>1, <2>2
        <3>2. lent'[user_id'] = using_gdomain_address'
            BY <1>1, <1>2, <3>1
        <3>3. \A j \in DOMAIN toClient' : toClient'[j][1] # 3
            BY <1>6, <2>1, <2>2
        <3>4. QED
            BY <1>8, <3>2, <3>3
    <2>3. CASE i # 1
        <3>1. PICK k \in DOMAIN toClient' : i = k + 1 /\ toClient'[k] = toClient[i]
            BY <1>7, <2>3
        <3>2. \A j \in DOMAIN toClient' : j > k => toClient'[j][1] # 3
            BY <1>6, <2>1, <3>1
        <3>3. QED
            BY <1>1, <1>2, <1>8, <2>1, <3>1, <3>2
    <2>4. QED
        BY <2>2, <2>3
<1>10. ASSUME AddressKnown PROVE (AddressComes \/ AddressKnown \/ Refused)'
    <2>1. answer[1] = 13
        BY <1>2, <1>10 DEF AddressKnown
    <2>2. \A j \in DOMAIN toClient' : toClient'[j][1] # 3
        BY <1>6, <1>10 DEF AddressKnown
    <2>3. QED
        BY <1>1, <1>2, <1>10, <1>8, <2>1, <2>2 DEF AddressKnown
<1>11. ASSUME Refused PROVE (AddressComes \/ AddressKnown \/ Refused)'
    <2>1. lent'[user_id'] = None
        BY <1>1, <1>2, <1>11 DEF Refused
    <2>2. CASE unheard
        BY <1>2, <1>8, <2>1, <2>2
    <2>3. ASSUME NEW i \in DOMAIN toClient, toClient[i][1] = 13
          PROVE  Refused'
        <3>1. CASE i = 1
            BY <1>2, <1>8, <2>1, <2>3, <3>1
        <3>2. CASE i # 1
            <4>1. PICK k \in DOMAIN toClient' : toClient'[k] = toClient[i]
                BY <1>7, <3>2
            <4>2. QED
                BY <1>8, <2>1, <2>3, <4>1
        <3>3. QED
            BY <3>1, <3>2
    <2>4. QED
        BY <1>11, <2>2, <2>3 DEF Refused
<1>12. QED
    BY <1>4, <1>5, <1>9, <1>10, <1>11 DEF Comes

LEMMA AnswerWill ==
    ASSUME TypeOK, UserInv, WillCome, TakeAnswer
    PROVE  WillCome'
<1>1. /\ toClient # <<>> /\ toClient' = Tail(toClient)
      /\ UNCHANGED <<toServer, lent>>
    BY DEF TakeAnswer, serverVars
<1>2. PICK answer \in Answers :
          /\ toClient[1] = answer /\ 1 \in DOMAIN toClient
          /\ answer[1] \in {3, 13} /\ user_id' = user_id
          /\ answer[1] = 3 => using_gdomain_address' = answer[2]
          /\ answer[1] = 13 => error_occur' = TRUE
    BY AnswerKinds
<1>3. Ask' = Ask /\ Leave' = Leave
    BY <1>2 DEF Ask, Leave
<1>4. CASE AskedBy(Len(toServer))
    BY <1>1, <1>2, <1>3, <1>4 DEF AskedBy, BackBefore, WillCome
<1>5. CASE toServer = <<>> /\ Answering
    <2>1. PICK n : n = Len(toClient)
        OBVIOUS
    <2>2. /\ n \in Nat \ {0}
          /\ DOMAIN toClient' = 1..(n - 1)
          /\ \A i \in DOMAIN toClient' : toClient'[i] = toClient[i + 1]
          /\ toClient' \in Seq(Answers) /\ Len(toClient') = n - 1
        BY <1>1, <2>1, QueueTypes, TailFacts, TailType
    <2>3. \/ toClient[n] = <<3, lent[user_id]>>
          \/ toClient[n][1] = 13 /\ lent[user_id] = None
        BY <1>1, <1>5, <2>1 DEF Answering
    <2>4. CASE n = 1
        <3>1. toClient' = <<>>
            BY <2>2, <2>4, EmptySeq
        <3>2. CASE answer = <<3, lent[user_id]>>
            <4>1. using_gdomain_address' = lent[user_id]
                BY <1>2, <3>2
            <4>2. QED
                BY <1>1, <1>2, <1>5, <3>1, <4>1 DEF WillCome, Answering
        <3>3. CASE answer[1] = 13 /\ lent[user_id] = None
            BY <1>1, <1>2, <1>5, <3>1, <3>3 DEF WillCome, Answering
        <3>4. QED
            BY <1>2, <2>3, <2>4, <3>2, <3>3
    <2>5. CASE n # 1
        <3>1. n - 1 \in DOMAIN toClient' /\ (n - 1) + 1 = n
            BY <2>2, <2>5
        <3>2. toClient'[n - 1] = toClient[n]
            BY <2>2, <3>1
        <3>3. toClient'[Len(toClient')] = toClient[n] /\ toClient' # <<>>
            BY <2>2, <3>1, <3>2
        <3>4. Answering'
            BY <1>1, <1>2, <2>3, <3>3 DEF Answering
        <3>5. QED
            BY <1>1, <1>5, <3>4 DEF WillCome
    <2>6. QED
        BY <2>4, <2>5
<1>6. QED
    BY <1>4, <1>5 DEF WillCome

(* An error that comes last to the thread that has asked is its own. *)
LEMMA AnswerError ==
    ASSUME TypeOK, StatusInv, TakeAnswer
    PROVE  ErrorInv'
<1>1. /\ toClient # <<>> /\ toClient' = Tail(toClient)
      /\ UNCHANGED <<toServer, lent, gaming>>
    BY DEF TakeAnswer, serverVars, threadVars
<1>2. PICK answer \in Answers :
          /\ toClient[1] = answer
          /\ answer[1] \in {3, 13} /\ user_id' = user_id
          /\ answer[1] = 3 => UNCHANGED <<error_occur, unheard>>
          /\ unheard => unheard'
          /\ answer[1] = 13 /\ ~(Asking /\ toServer = <<>> /\ toClient' = <<>>) => unheard'
    BY AnswerKinds DEF StatusInv
<1>3. error_occur => unheard
    BY <1>1 DEF StatusInv, ErrorInv, Settled
<1>4. CASE answer[1] = 3
    BY <1>2, <1>3, <1>4 DEF ErrorInv
<1>5. CASE answer[1] = 13 /\ ~unheard'
    <2>1. Asking /\ Asking' /\ toServer = <<>> /\ toClient' = <<>>
        BY <1>1, <1>2, <1>5 DEF Asking
    <2>2. Answering
        <3>1. ~AskedBy(Len(toServer))
            BY <2>1 DEF AskedBy
        <3>2. QED
            BY <2>1, <3>1 DEF StatusInv, SessionInv, WillCome
    <2>3. Len(toClient) = 1
        <3>1. toClient' = Tail(toClient) /\ toClient # <<>> /\ toClient \in Seq(Answers)
            BY <1>1, QueueTypes
        <3>2. DOMAIN Tail(toClient) = 1..(Len(toClient) - 1)
            BY <3>1, TailFacts
        <3>3. DOMAIN toClient' = {}
            BY <2>1
        <3>4. PICK n \in Nat \ {0} : n = Len(toClient)
            BY <3>1, TailFacts
        <3>5. 1 \notin 1..(n - 1)
            BY <3>1, <3>2, <3>3, <3>4
        <3>6. n = 1
            BY <3>5
        <3>7. QED
            BY <3>4, <3>6
    <2>4. <<3, lent[user_id]>>[1] = 3
        OBVIOUS
    <2>5. lent[user_id] = None
        BY <1>1, <1>2, <1>5, <2>2, <2>3, <2>4 DEF Answering
    <2>6. QED
        BY <1>1, <1>2, <2>1, <2>5 DEF ErrorInv, Settled
<1>6. CASE unheard'
    BY <1>6 DEF ErrorInv
<1>7. QED
    BY <1>2, <1>4, <1>5, <1>6

LEMMA AnswerInv ==
    ASSUME TypeOK, StatusInv, TakeAnswer
    PROVE  StatusInv' /\ screen' = screen
<1>1. /\ toClient # <<>> /\ toClient' = Tail(toClient)
      /\ UNCHANGED <<username, toServer, screen, games, login, gaming, streaming, logged,
                     lent>>
    BY DEF TakeAnswer, screenVars, threadVars, serverVars
<1>2. user_id' = user_id
    BY AnswerKinds DEF StatusInv
<1>3. UserInv'
    <2>1. \A i \in DOMAIN toClient' : toClient'[i][1] \in {3, 13}
        BY <1>1, TakenFacts DEF StatusInv, UserInv
    <2>2. QED
        BY <1>1, <1>2, <2>1 DEF StatusInv, UserInv
<1>4. ThreadsInv' /\ Asking' = Asking /\ Playing' = Playing
    BY <1>1 DEF StatusInv, ThreadsInv, Active, Asking, Playing, NoGame
<1>5. Ask' = Ask /\ Leave' = Leave
    BY <1>2 DEF Ask, Leave
<1>6. GoesBack => GoesBack'
    BY <1>1, <1>2, <1>5 DEF GoesBack, BackBefore
<1>7. Playing => ~Asking
    <2>1. screen = "game" => \A t \in Threads : gaming[t].at # "check"
        BY DEF StatusInv, ThreadsInv
    <2>2. QED
        BY <2>1 DEF Playing, Asking
<1>8. SessionInv'
    BY <1>1, <1>4, <1>6, <1>7, AnswerComes, AnswerWill DEF StatusInv, SessionInv
<1>9. QED
    BY <1>1, <1>3, <1>4, <1>8, AnswerError DEF StatusInv

LEMMA ServedFacts ==
    ASSUME TypeOK, toServer # <<>>, toServer' = Tail(toServer)
    PROVE  /\ Head(toServer) = toServer[1] /\ 1 \in DOMAIN toServer
           /\ Head(toServer) \in Requests
           /\ \A i \in DOMAIN toServer' :
                 /\ i \in Nat \ {0}
                 /\ i + 1 \in DOMAIN toServer /\ toServer'[i] = toServer[i + 1]
           /\ \A i \in DOMAIN toServer : i = 1 \/ i - 1 \in DOMAIN toServer'
           /\ \A i \in DOMAIN toServer : i \in Nat \ {0}
<1>1. toServer \in Seq(Requests)
    BY QueueTypes
<1>2. /\ Head(toServer) = toServer[1] /\ Len(toServer) \in Nat \ {0}
      /\ DOMAIN toServer = 1..Len(toServer)
      /\ DOMAIN toServer' = 1..(Len(toServer) - 1)
      /\ \A i \in DOMAIN toServer' : toServer'[i] = toServer[i + 1]
    BY <1>1, TailFacts
<1>3. Head(toServer) \in Requests
    BY <1>1, TailType
<1>4. QED
    BY <1>2, <1>3

LEMMA ReplyFacts ==
    ASSUME TypeOK, NEW a, Reply(a)
    PROVE  /\ Len(toClient) \in Nat /\ DOMAIN toClient = 1..Len(toClient)
           /\ DOMAIN toClient' = DOMAIN toClient \union {Len(toClient) + 1}
           /\ \A i \in DOMAIN toClient :
                 i < Len(toClient) + 1 /\ toClient'[i] = toClient[i]
           /\ toClient'[Len(toClient) + 1] = a
<1>1. toClient' = Append(toClient, a)
    BY DEF Reply
<1>2. toClient \in Seq(Answers)
    BY QueueTypes
<1>3. /\ Len(toClient) \in Nat /\ DOMAIN toClient = 1..Len(toClient)
      /\ DOMAIN Append(toClient, a) = DOMAIN toClient \union {Len(toClient) + 1}
      /\ \A i \in DOMAIN toClient :
            i < Len(toClient) + 1 /\ Append(toClient, a)[i] = toClient[i]
      /\ Append(toClient, a)[Len(toClient) + 1] = a
    BY <1>2, AppendFacts
<1>4. QED
    BY <1>1, <1>3

(* What the server makes of a packet of the user who is logged in. *)
LEMMA StatusServe ==
    ASSUME TypeOK, UserInv, Serve
    PROVE  /\ Head(toServer) \in {Ask, Leave} \/ Head(toServer)[1] = 23
           /\ logged' = logged
           /\ Head(toServer) = Ask =>
                 \/ \E s \in Sessions :
                       lent' = [lent EXCEPT ![user_id] = s] /\ Reply(<<3, s>>)
                 \/ Error /\ lent' = lent
           /\ Head(toServer) = Leave =>
                 lent' = [lent EXCEPT ![user_id] = None] /\ toClient' = toClient
           /\ Head(toServer)[1] = 23 =>
                 lent' = lent /\ (toClient' = toClient \/ Error)
<1>1. toServer # <<>> /\ toServer' = Tail(toServer)
    BY DEF Serve
<1>2. PICK p : p = Head(toServer)
    OBVIOUS
<1>3. p \in {Ask, Leave} \/ p[1] = 23
    BY <1>1, <1>2, ServedFacts DEF UserInv, Ask, Leave
<1>4. \/ p[1] = 1 /\ log_user_in(p[2])
      \/ p[1] = 2 /\ log_user_out(p[2])
      \/ p[1] = 3 /\ lend(p[2])
      \/ p[1] = 4 /\ leave(p[2])
      \/ p[1] = 23 /\ pair_gaming_domain(p[2][1], p[2][2])
    BY <1>2 DEF Serve
<1>5. user_id \in logged
    BY DEF UserInv
<1>6. CASE p = Ask
    <2>1. lend(user_id) /\ p # Leave /\ p[1] # 23
        BY <1>4, <1>6 DEF Ask, Leave
    <2>2. /\ logged' = logged
          /\ \/ \E s \in Sessions :
                   lent' = [lent EXCEPT ![user_id] = s] /\ Reply(<<3, s>>)
             \/ Error /\ lent' = lent
        BY <2>1 DEF lend
    <2>3. QED
        BY <1>2, <1>6, <2>1, <2>2
<1>7. CASE p = Leave
    <2>1. leave(user_id) /\ p # Ask /\ p[1] # 23
        BY <1>4, <1>7 DEF Ask, Leave
    <2>2. /\ logged' = logged
          /\ lent' = [lent EXCEPT ![user_id] = None] /\ toClient' = toClient
        BY <1>5, <2>1 DEF leave
    <2>3. QED
        BY <1>2, <1>7, <2>1, <2>2
<1>8. CASE p[1] = 23
    <2>1. pair_gaming_domain(p[2][1], p[2][2]) /\ p # Ask /\ p # Leave
        BY <1>4, <1>8 DEF Ask, Leave
    <2>2. logged' = logged /\ lent' = lent /\ (toClient' = toClient \/ Error)
        BY <2>1 DEF pair_gaming_domain
    <2>3. QED
        BY <1>2, <1>8, <2>1, <2>2
<1>9. QED
    BY <1>3, <1>6, <1>7, <1>8

(* The answer, if there is one, is at the end. *)
LEMMA Answered ==
    ASSUME TypeOK, UserInv, Serve
    PROVE  /\ \A i \in DOMAIN toClient : i \in DOMAIN toClient' /\ toClient'[i] = toClient[i]
           /\ \A i \in DOMAIN toClient' : toClient'[i][1] \in {3, 13}
<1>1. \/ toClient' = toClient
      \/ \E a \in Answers : a[1] \in {3, 13} /\ Reply(a)
    <2>1. Error => \E a \in Answers : a[1] \in {3, 13} /\ Reply(a)
        BY PacketTypes DEF Error
    <2>2. \A s \in Sessions : <<3, s>> \in Answers /\ <<3, s>>[1] = 3
        BY PacketTypes
    <2>3. QED
        BY <2>1, <2>2, StatusServe
<1>2. CASE toClient' = toClient
    BY <1>2 DEF UserInv
<1>3. ASSUME NEW a \in Answers, a[1] \in {3, 13}, Reply(a)
      PROVE  /\ \A i \in DOMAIN toClient :
                   i \in DOMAIN toClient' /\ toClient'[i] = toClient[i]
             /\ \A i \in DOMAIN toClient' : toClient'[i][1] \in {3, 13}
    BY <1>3, ReplyFacts DEF UserInv
<1>4. QED
    BY <1>1, <1>2, <1>3

LEMMA ErrorComes ==
    ASSUME TypeOK, Error
    PROVE  \E i \in DOMAIN toClient' : toClient'[i][1] = 13
<1>1. PICK n : n = Len(toClient) + 1
    OBVIOUS
<1>2. n \in DOMAIN toClient' /\ toClient'[n] = <<13, None>>
    BY <1>1, ReplyFacts DEF Error
<1>3. QED
    BY <1>2

(* Packet number n is number n - 1 when the first has been served. *)
LEMMA ServeBack ==
    ASSUME TypeOK, UserInv, Serve, NEW n \in Nat, n > 1, BackBefore(n)
    PROVE  BackBefore(n - 1)'
<1>1. toServer # <<>> /\ toServer' = Tail(toServer) /\ user_id' = user_id
    BY DEF Serve, clientVars
<1>2. Ask' = Ask /\ Leave' = Leave /\ Ask # Leave
    BY <1>1 DEF Ask, Leave
<1>3. user_id \in Users /\ lent \in [Users -> Sessions \cup {None}]
    BY DEF UserInv, TypeOK
<1>4. CASE lent[user_id] = None /\ \A i \in DOMAIN toServer : i < n => toServer[i] # Ask
    <2>1. Head(toServer) # Ask
        BY <1>1, <1>4, ServedFacts
    <2>2. lent'[user_id] = None
        BY <1>3, <1>4, <2>1, StatusServe
    <2>3. \A i \in DOMAIN toServer' : i < n - 1 => toServer'[i] # Ask
        <3> TAKE i \in DOMAIN toServer'
        <3> HAVE i < n - 1
        <3>1. i \in Nat \ {0} /\ i + 1 \in DOMAIN toServer /\ toServer'[i] = toServer[i + 1]
            BY <1>1, ServedFacts
        <3>2. i + 1 < n
            BY <3>1
        <3>3. QED
            BY <1>4, <3>1, <3>2
    <2>4. QED
        BY <1>1, <1>2, <2>2, <2>3 DEF BackBefore
<1>5. ASSUME NEW i \in DOMAIN toServer, i < n, toServer[i] = Leave,
             \A j \in DOMAIN toServer : i < j /\ j < n => toServer[j] # Ask
      PROVE  BackBefore(n - 1)'
    <2>1. \A j \in DOMAIN toServer' : i < j + 1 /\ j < n - 1 => toServer'[j] # Ask
        <3> TAKE j \in DOMAIN toServer'
        <3> HAVE i < j + 1 /\ j < n - 1
        <3>1. j \in Nat \ {0} /\ j + 1 \in DOMAIN toServer /\ toServer'[j] = toServer[j + 1]
            BY <1>1, ServedFacts
        <3>2. j + 1 < n
            BY <3>1
        <3>3. QED
            BY <1>5, <3>1, <3>2
    <2>2. CASE i = 1
        <3>1. Head(toServer) = Leave
            BY <1>1, <1>5, <2>2, ServedFacts
        <3>2. lent'[user_id] = None
            BY <1>3, <3>1, StatusServe
        <3>3. \A j \in DOMAIN toServer' : j < n - 1 => toServer'[j] # Ask
            BY <1>1, <2>1, <2>2, ServedFacts
        <3>4. QED
            BY <1>1, <1>2, <3>2, <3>3 DEF BackBefore
    <2>3. CASE i # 1
        <3>1. PICK k : k = i - 1
            OBVIOUS
        <3>2. k \in DOMAIN toServer' /\ i = k + 1 /\ k \in Nat
            BY <1>1, <2>3, <3>1, ServedFacts
        <3>3. toServer'[k] = Leave /\ k < n - 1
            BY <1>1, <1>5, <3>2, ServedFacts
        <3>4. \A j \in DOMAIN toServer' : k < j /\ j < n - 1 => toServer'[j] # Ask
            BY <1>1, <2>1, <3>2, ServedFacts
        <3>5. QED
            BY <1>2, <3>2, <3>3, <3>4 DEF BackBefore
    <2>4. QED
        BY <2>2, <2>3
<1>6. QED
    BY <1>4, <1>5 DEF BackBefore

LEMMA ServeLength ==
    ASSUME TypeOK, Serve
    PROVE  /\ Len(toServer) \in Nat \ {0} /\ Len(toServer') = Len(toServer) - 1
           /\ DOMAIN toServer = 1..Len(toServer)
<1>1. toServer # <<>> /\ toServer' = Tail(toServer) /\ toServer \in Seq(Requests)
    BY QueueTypes DEF Serve
<1>2. QED
    BY <1>1, TailType, TailFacts

(* The request for a session is served, or moves on. *)
LEMMA AskServed ==
    ASSUME TypeOK, UserInv, Serve, AskedBy(1)
    PROVE  /\ \A i \in DOMAIN toServer' : toServer'[i] \notin {Ask, Leave}
           /\ \/ \E s \in Sessions : lent'[user_id] = s /\ Reply(<<3, s>>)
              \/ Error /\ lent'[user_id] = None
<1>1. toServer # <<>> /\ toServer' = Tail(toServer)
    BY DEF Serve
<1>2. Head(toServer) = Ask
    BY <1>1, ServedFacts DEF AskedBy
<1>3. \A i \in DOMAIN toServer' : toServer'[i] \notin {Ask, Leave}
    <2> TAKE i \in DOMAIN toServer'
    <2>1. i \in Nat \ {0} /\ i + 1 \in DOMAIN toServer /\ toServer'[i] = toServer[i + 1]
        BY <1>1, ServedFacts
    <2>2. i + 1 > 1
        BY <2>1
    <2>3. QED
        BY <2>1, <2>2 DEF AskedBy
<1>4. lent[user_id] = None
    <2>1. \A i \in DOMAIN toServer : ~(i < 1)
        BY <1>1, ServedFacts
    <2>2. QED
        BY <2>1 DEF AskedBy, BackBefore
<1>5. user_id \in Users /\ lent \in [Users -> Sessions \cup {None}]
    BY DEF UserInv, TypeOK
<1>6. \/ \E s \in Sessions : lent' = [lent EXCEPT ![user_id] = s] /\ Reply(<<3, s>>)
      \/ Error /\ lent' = lent
    BY <1>2, StatusServe
<1>7. QED
    BY <1>3, <1>4, <1>5, <1>6

LEMMA AskMoves ==
    ASSUME TypeOK, UserInv, Serve, NEW n \in DOMAIN toServer, AskedBy(n), n # 1
    PROVE  n - 1 \in DOMAIN toServer' /\ AskedBy(n - 1)'
<1>1. toServer # <<>> /\ toServer' = Tail(toServer) /\ user_id' = user_id
    BY DEF Serve, clientVars
<1>2. Ask' = Ask /\ Leave' = Leave
    BY <1>1 DEF Ask, Leave
<1>3. n \in Nat /\ n > 1 /\ n - 1 \in DOMAIN toServer'
    BY <1>1, ServedFacts
<1>4. toServer'[n - 1] = Ask
    <2>1. toServer'[n - 1] = toServer[(n - 1) + 1]
        BY <1>1, <1>3, ServedFacts
    <2>2. (n - 1) + 1 = n
        BY <1>3
    <2>3. QED
        BY <2>1, <2>2 DEF AskedBy
<1>5. \A j \in DOMAIN toServer' : j > n - 1 => toServer'[j] \notin {Ask, Leave}
    <2> TAKE j \in DOMAIN toServer'
    <2> HAVE j > n - 1
    <2>1. j \in Nat \ {0} /\ j + 1 \in DOMAIN toServer /\ toServer'[j] = toServer[j + 1]
        BY <1>1, ServedFacts
    <2>2. j + 1 > n
        BY <1>3, <2>1
    <2>3. QED
        BY <2>1, <2>2 DEF AskedBy
<1>6. BackBefore(n - 1)'
    BY <1>3, ServeBack DEF AskedBy
<1>7. QED
    BY <1>2, <1>3, <1>4, <1>5, <1>6 DEF AskedBy

LEMMA ServeGoesBack ==
    ASSUME TypeOK, UserInv, Serve, GoesBack
    PROVE  GoesBack'
<1>1. PICK n : n = Len(toServer) + 1
    OBVIOUS
<1>2. n \in Nat /\ n > 1 /\ Len(toServer') + 1 = n - 1
    BY <1>1, ServeLength
<1>3. BackBefore(n - 1)'
    BY <1>1, <1>2, ServeBack DEF GoesBack
<1>4. QED
    BY <1>2, <1>3 DEF GoesBack

LEMMA ServeComes ==
    ASSUME TypeOK, UserInv, Comes, Serve
    PROVE  Comes'
<1>1. /\ toServer # <<>> /\ toServer' = Tail(toServer)
      /\ UNCHANGED <<user_id, using_gdomain_address, unheard>>
    BY DEF Serve, clientVars, history
<1>2. Ask' = Ask /\ Leave' = Leave
    BY <1>1 DEF Ask, Leave
<1>3. ASSUME NEW n \in DOMAIN toServer, AskedBy(n)
      PROVE  Comes'
    <2>1. CASE n = 1
        <3>1. \A i \in DOMAIN toServer' : toServer'[i] \notin {Ask, Leave}
            BY <1>3, <2>1, AskServed
        <3>2. ASSUME NEW s \in Sessions, lent'[user_id] = s, Reply(<<3, s>>)
              PROVE  AddressComes'
            <4>1. PICK k : k = Len(toClient) + 1
                OBVIOUS
            <4>2. /\ k \in DOMAIN toClient' /\ toClient'[k] = <<3, s>>
                  /\ \A j \in DOMAIN toClient' : ~(j > k)
                BY <3>2, <4>1, ReplyFacts
            <4>3. QED
                BY <1>1, <3>2, <4>2 DEF AddressComes
        <3>3. CASE Error /\ lent'[user_id] = None
            <4>1. Refused'
                BY <1>1, <3>3, ErrorComes DEF Refused
            <4>2. QED
                BY <1>2, <3>1, <4>1 DEF Comes
        <3>4. QED
            BY <1>2, <1>3, <2>1, <3>1, <3>2, <3>3, AskServed DEF Comes
    <2>2. CASE n # 1
        BY <1>3, <2>2, AskMoves DEF Comes
    <2>3. QED
        BY <2>1, <2>2
<1>4. CASE /\ \A i \in DOMAIN toServer : toServer[i] \notin {Ask, Leave}
           /\ AddressComes \/ AddressKnown \/ Refused
    <2>1. Head(toServer) \notin {Ask, Leave}
        BY <1>1, <1>4, ServedFacts
    <2>2. lent' = lent /\ (toClient' = toClient \/ Error)
        BY <2>1, StatusServe
    <2>3. \A i \in DOMAIN toServer' : toServer'[i] \notin {Ask, Leave}
        BY <1>1, <1>4, ServedFacts
    <2>4. /\ \A i \in DOMAIN toClient : i \in DOMAIN toClient' /\ toClient'[i] = toClient[i]
          /\ \A i \in DOMAIN toClient' : i \in DOMAIN toClient \/ toClient'[i][1] = 13
        <3>1. CASE toClient' = toClient
            BY <3>1
        <3>2. CASE Error
            BY <3>2, ReplyFacts DEF Error
        <3>3. QED
            BY <2>2, <3>1, <3>2
    <2>5. AddressComes => AddressComes'
        BY <1>1, <2>2, <2>4 DEF AddressComes
    <2>6. AddressKnown => AddressKnown'
        BY <1>1, <2>2, <2>4 DEF AddressKnown
    <2>7. Refused => Refused'
        BY <1>1, <2>2, <2>4 DEF Refused
    <2>8. QED
        BY <1>2, <1>4, <2>3, <2>5, <2>6, <2>7 DEF Comes
<1>5. QED
    BY <1>3, <1>4 DEF Comes

LEMMA ServeWill ==
    ASSUME TypeOK, UserInv, WillCome, Serve
    PROVE  WillCome'
<1>1. toServer # <<>> /\ user_id' = user_id
    BY DEF Serve, clientVars
<1>2. AskedBy(Len(toServer))
    BY <1>1 DEF WillCome
<1>3. CASE Len(toServer) = 1
    <2>1. toServer' = <<>>
        <3>1. Len(toServer') = 0 /\ toServer' \in Seq(Requests)
            <4>1. toServer' = Tail(toServer) /\ toServer \in Seq(Requests)
                BY QueueTypes DEF Serve
            <4>2. QED
                BY <1>1, <1>3, <4>1, TailType
        <3>2. QED
            BY <3>1, EmptySeq
    <2>2. \/ \E s \in Sessions : lent'[user_id] = s /\ Reply(<<3, s>>)
          \/ Error /\ lent'[user_id] = None
        BY <1>2, <1>3, AskServed
    <2>3. \A a : Reply(a) => toClient' # <<>> /\ toClient'[Len(toClient')] = a
        <3> TAKE a
        <3> HAVE Reply(a)
        <3>1. toClient' = Append(toClient, a) /\ toClient \in Seq(Answers \union {a})
              /\ a \in Answers \union {a}
            BY QueueTypes DEF Reply
        <3>2. Len(toClient') = Len(toClient) + 1 /\ Len(toClient) \in Nat
            BY <3>1, AppendType
        <3>3. toClient'[Len(toClient) + 1] = a
            BY ReplyFacts
        <3>4. QED
            BY <3>2, <3>3
    <2>4. Answering'
        <3>1. CASE \E s \in Sessions : lent'[user_id] = s /\ Reply(<<3, s>>)
            BY <1>1, <2>3, <3>1 DEF Answering
        <3>2. CASE Error /\ lent'[user_id] = None
            <4>1. toClient' # <<>> /\ toClient'[Len(toClient')] = <<13, None>>
                BY <2>3, <3>2 DEF Error
            <4>2. QED
                BY <1>1, <3>2, <4>1 DEF Answering
        <3>3. QED
            BY <2>2, <3>1, <3>2
    <2>5. QED
        BY <2>1, <2>4 DEF WillCome
<1>4. CASE Len(toServer) # 1
    <2>1. PICK n : n = Len(toServer)
        OBVIOUS
    <2>2. n \in DOMAIN toServer /\ AskedBy(n) /\ n # 1
        BY <1>2, <1>4, <2>1 DEF AskedBy
    <2>3. AskedBy(n - 1)'
        BY <2>2, AskMoves
    <2>4. Len(toServer') = n - 1
        BY <2>1, ServeLength
    <2>5. QED
        BY <2>3, <2>4 DEF WillCome
<1>5. QED
    BY <1>3, <1>4

LEMMA ServeInv ==
    ASSUME TypeOK, StatusInv, Serve
    PROVE  StatusInv' /\ screen' = screen
<1>1. /\ toServer # <<>> /\ toServer' = Tail(toServer)
      /\ UNCHANGED <<user_id, username, error_occur, using_gdomain_address, screen, games,
                     login, gaming, streaming, unheard>>
    BY DEF Serve, clientVars, screenVars, threadVars, history
<1>2. UserInv
    BY DEF StatusInv
<1>3. UserInv'
    <2>1. logged' = logged
        BY <1>2, StatusServe
    <2>2. \A u \in Users \ {user_id} : lent'[u] = lent[u]
        BY <1>2, StatusServe DEF TypeOK
    <2>3. \A i \in DOMAIN toServer' :
              toServer'[i] \in {<<3, user_id>>, <<4, user_id>>} \/ toServer'[i][1] = 23
        BY <1>1, <1>2, ServedFacts DEF UserInv
    <2>4. \A i \in DOMAIN toClient' : toClient'[i][1] \in {3, 13}
        BY <1>2, Answered
    <2>5. QED
        BY <1>1, <1>2, <2>1, <2>2, <2>3, <2>4 DEF UserInv
<1>4. (GoesBack => GoesBack') /\ (Comes => Comes') /\ (WillCome => WillCome')
    BY <1>2, ServeGoesBack, ServeComes, ServeWill
<1>5. ThreadsInv' /\ Asking' = Asking /\ Playing' = Playing
    BY <1>1 DEF StatusInv, ThreadsInv, Active, Asking, Playing, NoGame
<1>6. ErrorInv'
    BY <1>1 DEF StatusInv, ErrorInv, Settled
<1>7. QED
    BY <1>1, <1>3, <1>4, <1>5, <1>6 DEF StatusInv, SessionInv

LEMMA OthersInv ==
    ASSUME TypeOK, StatusInv, NEW s \in Sessions, OtherTakes(s) \/ OtherLeaves(s)
    PROVE  StatusInv' /\ screen' = screen
<1>1. UNCHANGED <<user_id, username, error_occur, using_gdomain_address, screen, games,
                  login, gaming, streaming, toServer, toClient, logged, lent, unheard>>
    BY DEF OtherTakes, OtherLeaves, clientVars, screenVars, threadVars, netVars, history
<1>2. UserInv' /\ (GoesBack => GoesBack') /\ (Comes => Comes') /\ (WillCome => WillCome')
    BY <1>1, SessionKept, UserKept DEF StatusInv
<1>3. ThreadsInv' /\ Asking' = Asking /\ Playing' = Playing
    BY <1>1 DEF StatusInv, ThreadsInv, Active, Asking, Playing, NoGame
<1>4. ErrorInv'
    BY <1>1, <1>3 DEF StatusInv, ErrorInv, Settled
<1>5. QED
    BY <1>1, <1>2, <1>3, <1>4 DEF StatusInv, SessionInv
-----------------------------------------------------------------------------
(* The invariant *)

LEMMA FromLogin ==
    ASSUME TypeOK, running, screen = "login", LoginInv, Next, ~stray', running'
    PROVE  ScreenInv'
<1>1. ~(\E t \in Threads : gaming[t].at # "none") /\ NoGame
    BY DEF LoginInv, Ended
<1>2. ASSUME LoginInv', screen' = screen PROVE ScreenInv'
    BY <1>2 DEF ScreenInv
<1>3. ASSUME NEW c \in Credentials, LoginClick(c) PROVE ScreenInv'
    <2>1. screen' = screen
        BY <1>3 DEF LoginClick
    <2>2. QED
        BY <1>2, <1>3, <2>1, LoginClickInv
<1>4. CASE LoginEmpty \/ Unclick
    <2>1. /\ screen' = screen
          /\ UNCHANGED <<user_id, username, error_occur, login, gaming, streaming, toServer,
                         toClient, logged, lent, unheard>>
        BY <1>4 DEF LoginEmpty, Unclick, clientVars, threadVars, netVars, serverVars, history
    <2>2. QED
        BY <1>2, <2>1, LoginKept
<1>5. CASE LoginError
    <2>1. screen' = screen
        BY <1>5 DEF LoginError
    <2>2. QED
        BY <1>2, <1>5, <2>1, LoginErrorInv
<1>6. CASE LoginDone
    BY <1>6, LoginDoneInv DEF ScreenInv
<1>7. CASE TakeAnswer
    <2>1. screen' = screen
        BY <1>7 DEF TakeAnswer, screenVars
    <2>2. QED
        BY <1>2, <1>7, <2>1, LoginAnswerInv
<1>8. CASE Serve
    <2>1. screen' = screen
        BY <1>8 DEF Serve, screenVars
    <2>2. QED
        BY <1>2, <1>8, <2>1, LoginServeInv
<1>9. ASSUME NEW s \in Sessions, OtherTakes(s) \/ OtherLeaves(s) PROVE ScreenInv'
    <2>1. /\ screen' = screen
          /\ UNCHANGED <<user_id, username, error_occur, login, gaming, streaming, toServer,
                         toClient, logged, lent, unheard>>
        BY <1>9 DEF OtherTakes, OtherLeaves, clientVars, screenVars, threadVars, netVars,
                    history
    <2>2. QED
        BY <1>2, <2>1, LoginKept
<1>10. ~(LoginTimeout \/ Lose \/ Exit)
    BY DEF LoginTimeout, Lose, Exit
<1>11. ~(Logout \/ Return \/ \E g \in Games : ChooseGame(g) \/ StreamEnd(g))
    BY <1>1 DEF Logout, Return, ChooseGame, StreamEnd, NoGame
<1>12. ASSUME NEW t \in Threads,
              \/ UseGaming(t) \/ UseGamingCheck(t) \/ ListGames(t) \/ ListDone(t)
              \/ Pair(t) \/ PairDone(t)
       PROVE  FALSE
    BY <1>1, <1>12 DEF UseGaming, UseGamingCheck, ListGames, ListDone, Pair, PairDone
<1>13. QED
    BY <1>3, <1>4, <1>5, <1>6, <1>7, <1>8, <1>9, <1>10, <1>11, <1>12 DEF Next

LEMMA FromOthers ==
    ASSUME TypeOK, running, screen # "login", StatusInv, Next, ~stray', running'
    PROVE  ScreenInv'
<1>1. login = None
    BY DEF StatusInv, UserInv
<1>2. ASSUME StatusInv', screen' # "login" PROVE ScreenInv'
    BY <1>2 DEF ScreenInv
<1>3. CASE Logout
    BY <1>3, LogoutInv DEF ScreenInv
<1>4. ASSUME NEW t \in Threads, UseGaming(t) PROVE ScreenInv'
    BY <1>2, <1>4, UseGamingInv
<1>5. ASSUME NEW t \in Threads, UseGamingCheck(t) PROVE ScreenInv'
    BY <1>2, <1>5, CheckInv
<1>6. ASSUME NEW t \in Threads,
             ListGames(t) \/ ListDone(t) \/ Pair(t) \/ PairDone(t)
      PROVE  ScreenInv'
    BY <1>2, <1>6, GameInv
<1>7. CASE Return \/ \E g \in Games : StreamEnd(g)
    BY <1>2, <1>7, ReturnInv
<1>8. ASSUME NEW g \in Games, ChooseGame(g) PROVE ScreenInv'
    BY <1>2, <1>8, ChooseGameInv
<1>9. CASE TakeAnswer
    BY <1>2, <1>9, AnswerInv
<1>10. CASE Serve
    BY <1>2, <1>10, ServeInv
<1>11. ASSUME NEW s \in Sessions, OtherTakes(s) \/ OtherLeaves(s) PROVE ScreenInv'
    BY <1>2, <1>11, OthersInv
<1>12. ~(LoginTimeout \/ Lose \/ Exit)
    BY DEF LoginTimeout, Lose, Exit
<1>13. ~((\E c \in Credentials : LoginClick(c)) \/ LoginEmpty \/ Unclick \/ LoginError
           \/ LoginDone)
    BY <1>1 DEF LoginClick, LoginEmpty, Unclick, LoginError, LoginDone
<1>14. QED
    BY <1>3, <1>4, <1>5, <1>6, <1>7, <1>8, <1>9, <1>10, <1>11, <1>12, <1>13 DEF Next

(* What has gone astray stays so, and a client that has been left is left. *)
LEMMA NeverBack ==
    ASSUME Next
    PROVE  /\ ~stray' => ~stray
           /\ running' = running \/ (running' = FALSE /\ UNCHANGED <<user_id, username, stray>>)
           /\ running \/ UNCHANGED <<user_id, username>>
<1>1. ASSUME NEW c \in Credentials, LoginClick(c) PROVE UNCHANGED <<running, stray>> /\ running
    BY <1>1 DEF LoginClick, clientVars, history
<1>2. CASE LoginEmpty \/ Unclick \/ LoginError \/ LoginTimeout \/ LoginDone
    <2>1. /\ running /\ running' = running
          /\ stray' = stray \/ stray' = TRUE \/ stray' = (stray \/ unheard)
        BY <1>2 DEF LoginEmpty, Unclick, LoginError, LoginTimeout, LoginDone, TakeError,
                    clientVars, history
    <2>2. ~stray' => ~stray
        <3>1. CASE stray' = stray
            BY <3>1
        <3>2. CASE stray' = TRUE
            BY <3>2
        <3>3. CASE stray' = (stray \/ unheard)
            BY <3>3
        <3>4. QED
            BY <2>1, <3>1, <3>2, <3>3
    <2>3. QED
        BY <2>1, <2>2
<1>3. CASE Logout \/ Return
    <2>1. running /\ running' = running
        BY <1>3 DEF Logout, Return, clientVars
    <2>2. ~stray' => ~stray
        BY <1>3 DEF Logout, Return
    <2>3. QED
        BY <2>1, <2>2
<1>4. CASE Exit
    BY <1>4 DEF Exit, history
<1>5. ASSUME NEW t \in Threads, UseGaming(t)
      PROVE  running /\ running' = running /\ (~stray' => ~stray)
    <2>1. ~stray' => ~stray
        BY <1>5 DEF UseGaming
    <2>2. QED
        BY <1>5, <2>1 DEF UseGaming, clientVars
<1>6. ASSUME NEW t \in Threads,
             UseGamingCheck(t) \/ ListGames(t) \/ ListDone(t) \/ Pair(t) \/ PairDone(t)
      PROVE  running /\ running' = running /\ (~stray' => ~stray)
    <2>1. running /\ running' = running
        BY <1>6 DEF UseGamingCheck, ListGames, ListDone, Pair, PairDone, clientVars
    <2>2. stray' = stray \/ stray' = (stray \/ unheard)
        <3>1. CASE UseGamingCheck(t)
            BY <3>1 DEF UseGamingCheck, TakeError, history
        <3>2. CASE ListGames(t) \/ ListDone(t)
            BY <3>2 DEF ListGames, ListDone, history
        <3>3. CASE Pair(t) \/ PairDone(t)
            BY <3>3 DEF Pair, PairDone, history
        <3>4. QED
            BY <1>6, <3>1, <3>2, <3>3
    <2>3. ~stray' => ~stray
        <3>1. CASE stray' = stray
            BY <3>1
        <3>2. CASE stray' = (stray \/ unheard)
            BY <3>2
        <3>3. QED
            BY <2>2, <3>1, <3>2
    <2>4. QED
        BY <2>1, <2>3
<1>7. ASSUME NEW g \in Games, ChooseGame(g) \/ StreamEnd(g)
      PROVE  running /\ running' = running /\ (~stray' => ~stray)
    <2>1. running /\ running' = running
        BY <1>7 DEF ChooseGame, StreamEnd, clientVars
    <2>2. ~stray' => ~stray
        <3>1. CASE ChooseGame(g)
            BY <3>1 DEF ChooseGame, history
        <3>2. CASE StreamEnd(g)
            BY <3>2 DEF StreamEnd
        <3>3. QED
            BY <1>7, <3>1, <3>2
    <2>3. QED
        BY <2>1, <2>2
<1>8. CASE TakeAnswer
    <2>1. running /\ running' = running
        BY <1>8 DEF TakeAnswer
    <2>2. ~stray' => ~stray
        BY <1>8 DEF TakeAnswer
    <2>3. QED
        BY <2>1, <2>2
<1>9. CASE Serve
    BY <1>9 DEF Serve, clientVars, history
<1>10. CASE Lose
    <2>1. stray' /\ UNCHANGED <<running, user_id, username>>
        BY <1>10 DEF Lose, clientVars
    <2>2. QED
        BY <2>1
<1>11. ASSUME NEW s \in Sessions, OtherTakes(s) \/ OtherLeaves(s)
       PROVE  UNCHANGED <<running, user_id, username, stray>>
    BY <1>11 DEF OtherTakes, OtherLeaves, clientVars, history
<1>12. QED
    BY <1>1, <1>2, <1>3, <1>4, <1>5, <1>6, <1>7, <1>8, <1>9, <1>10, <1>11 DEF Next

LEMMA InitInv == ASSUME Init PROVE ClientInv
<1>1. TypeOK
    BY InitTypes
<1>2. LoginIdle
    BY DEF Init, LoginIdle, NobodyYet
<1>3. LoginInv
    BY <1>2 DEF Init, LoginInv, NoGame
<1>4. QED
    BY <1>1, <1>3 DEF Init, ClientInv, ScreenInv

LEMMA NextInv == ASSUME ClientInv, Next PROVE ClientInv'
<1>1. TypeOK'
    BY TypesKept DEF ClientInv
<1>2. ~stray' /\ running' => ScreenInv'
    <2> HAVE ~stray' /\ running'
    <2>1. ~stray /\ running
        BY NeverBack
    <2>2. CASE screen = "login"
        BY <2>1, <2>2, FromLogin DEF ClientInv, ScreenInv
    <2>3. CASE screen # "login"
        BY <2>1, <2>3, FromOthers DEF ClientInv, ScreenInv
    <2>4. QED
        BY <2>2, <2>3
<1>3. ~stray' /\ username' # None => username' = <<user_id', TRUE>>
    <2> HAVE ~stray' /\ username' # None
    <2>1. CASE running'
        BY <1>2, <2>1 DEF ScreenInv, LoginInv, StatusInv, UserInv
    <2>2. CASE ~running'
        <3>1. ~stray /\ UNCHANGED <<user_id, username>>
            <4>1. ~stray
                BY NeverBack
            <4>2. CASE running' = running
                BY <2>2, <4>2, NeverBack
            <4>3. CASE running' = FALSE /\ UNCHANGED <<user_id, username, stray>>
                BY <4>1, <4>3
            <4>4. QED
                BY <4>2, <4>3, NeverBack
        <3>2. QED
            BY <3>1 DEF ClientInv
    <2>3. QED
        BY <2>1, <2>2
<1>4. QED
    BY <1>1, <1>2, <1>3 DEF ClientInv

LEMMA StutterInv == ASSUME ClientInv, UNCHANGED vars PROVE ClientInv'
<1>1. UNCHANGED <<running, user_id, username, error_occur, using_gdomain_address, screen,
                  games, btnLogin, login, gaming, streaming, toServer, toClient, logged,
                  lent, others, codes, paired, unheard, stray>>
    BY DEF vars, clientVars, screenVars, threadVars, netVars, serverVars, history
<1>2. TypeOK'
    BY <1>1 DEF ClientInv, TypeOK
<1>3. LoginInv => LoginInv'
    BY <1>1, LoginKept
<1>4. StatusInv => StatusInv'
    <2>1. /\ (GoesBack => GoesBack') /\ (Comes => Comes') /\ (WillCome => WillCome')
          /\ UserInv => UserInv'
        BY <1>1, SessionKept, UserKept
    <2>2. (ThreadsInv => ThreadsInv') /\ Asking' = Asking /\ Playing' = Playing
        BY <1>1 DEF ThreadsInv, Active, Asking, Playing, NoGame
    <2>3. ErrorInv => ErrorInv'
        BY <1>1, <2>2 DEF ErrorInv, Settled
    <2>4. QED
        BY <1>1, <2>1, <2>2, <2>3 DEF StatusInv, SessionInv
<1>5. QED
    BY <1>1, <1>2, <1>3, <1>4 DEF ClientInv, ScreenInv

LEMMA ClientAlways == Spec => []ClientInv
<1>1. Init => ClientInv
    BY InitInv
<1>2. ClientInv /\ [Next]_vars => ClientInv'
    BY NextInv, StutterInv
<1>3. QED
    BY <1>1, <1>2, PTL DEF Spec
-----------------------------------------------------------------------------
(* A user name is only shown of the user whose id the client holds, and    *)
(* only with the right password (CUI.py:56-89), for any number of users    *)
(* and any length of the queues.                                           *)
THEOREM LoginAlwaysOwn == Spec => []LoginOwn
<1>1. ClientInv => LoginOwn
    BY DEF ClientInv, LoginOwn
<1>2. QED
    BY <1>1, ClientAlways, PTL

(* With no packet under way the client and the server have the same user   *)
(* logged in (CUI.py:32-89, 170-181, main.py:111-223).                     *)
THEOREM ServerAlwaysAgrees == Spec => []ServerAgrees
<1>1. ASSUME ClientInv, ~stray, running, Settled, login = None
      PROVE  logged = IF user_id = None THEN {} ELSE {user_id}
    <2>1. CASE screen = "login"
        <3>1. LoginIdle
            BY <1>1, <2>1 DEF ClientInv, ScreenInv, LoginInv, LoginIdle, LoginSent,
                              LoginAccepted, LoginRefused, LoginKnown
        <3>2. \A u : <<<<2, u>>>> # <<>>
            BY ShortQueues
        <3>3. QED
            BY <1>1, <3>1, <3>2 DEF LoginIdle, NobodyYet, Settled
    <2>2. CASE screen # "login"
        BY <1>1, <2>2, ClientSessionAssumption DEF ClientInv, ScreenInv, StatusInv, UserInv
    <2>3. QED
        BY <2>1, <2>2
<1>2. ClientInv => ServerAgrees
    BY <1>1 DEF ServerAgrees
<1>3. QED
    BY <1>2, ClientAlways, PTL

(* Whichever way a user has left the game screen (CUI.py:403-415,          *)
(* 564-591), no session stays lent to one who is not on it.                *)
THEOREM NoSessionEverIdle == Spec => []NoIdleSession
<1>1. ASSUME ClientInv, ~stray, running, Quiet, screen # "game", NEW u \in Users
      PROVE  lent[u] = None
    <2>1. CASE screen = "login"
        BY <1>1, <2>1 DEF ClientInv, ScreenInv, LoginInv
    <2>2. CASE screen # "login"
        <3>1. StatusInv /\ screen = "status"
            BY <1>1, <2>2 DEF ClientInv, ScreenInv, TypeOK
        <3>2. ~Asking
            BY <1>1 DEF Quiet, Asking, Ended
        <3>3. DOMAIN toServer = {}
            BY <1>1 DEF Quiet, Settled
        <3>4. lent[user_id] = None
            BY <3>1, <3>2, <3>3 DEF StatusInv, SessionInv, GoesBack, BackBefore
        <3>5. QED
            BY <3>1, <3>4 DEF StatusInv, UserInv
    <2>3. QED
        BY <2>1, <2>2
<1>2. ClientInv => NoIdleSession
    BY <1>1 DEF NoIdleSession
<1>3. QED
    BY <1>2, ClientAlways, PTL

(* With the answers in, a game is only streamed from the session that is   *)
(* lent to this user now, although the client keeps the address of the     *)
(* last time (CUI.py:407), but for a request that was refused when nobody  *)
(* waited for the error any more.                                          *)
THEOREM StreamAlwaysOwn == Spec => StreamOwn
<1>1. ASSUME ClientInv, NEW g \in Games, ChooseGame(g), ~stray, Settled
      PROVE  streaming'[g] = lent[user_id] \/ (lent[user_id] = None /\ unheard)
    <2>1. running /\ screen = "game" /\ games /\ streaming'[g] = using_gdomain_address
        BY <1>1 DEF ChooseGame, ClientInv, TypeOK
    <2>2. StatusInv
        BY <1>1, <2>1 DEF ClientInv, ScreenInv
    <2>3. Comes
        BY <2>1, <2>2 DEF StatusInv, SessionInv, Playing
    <2>4. DOMAIN toServer = {} /\ DOMAIN toClient = {}
        BY <1>1 DEF Settled
    <2>5. AddressKnown \/ Refused
        BY <2>3, <2>4 DEF Comes, AddressComes
    <2>6. QED
        BY <2>1, <2>4, <2>5 DEF AddressKnown, Refused
<1>2. ClientInv /\ [Next]_vars =>
         [\A g \in Games : ChooseGame(g) /\ ~stray /\ Settled /\ user_id # None =>
             \/ streaming'[g] = lent[user_id]
             \/ lent[user_id] = None /\ unheard]_vars
    BY <1>1
<1>3. QED
    BY <1>2, ClientAlways, PTL DEF Spec, StreamOwn
=============================================================================
