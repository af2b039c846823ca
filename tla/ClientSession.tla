--------------------------- MODULE ClientSession ---------------------------
(***************************************************************************)
(* The client program (client/CUI.py, moonlight_functions.py) next to the  *)
(* server it talks to.  Its main loop takes answers out of a queue and     *)
(* stores them in global variables; every click on a button runs in a      *)
(* thread of its own that sends a packet and then looks at those           *)
(* variables, whether the answer has come or not.  An answer is no more    *)
(* than its kind: nothing says to which packet it belongs.                 *)
(*                                                                         *)
(* The server is what main.py does with the packets of one client; that it *)
(* logs out silent clients is left to TimeoutCheck.                        *)
(***************************************************************************)
EXTENDS Integers, Sequences

CONSTANTS
    Users,          \* the users who sit down at this client
    Sessions,       \* the addresses of the gaming sessions
    Threads,        \* threads of the button " USE GAMING DOMAIN "
    Games,          \* threads of the buttons of the games
    MaxPackets,     \* bound: so many packets under way in each direction
    None            \* Python's None, and the empty address

ASSUME ClientSessionAssumption ==
    /\ None \notin Users \cup Sessions \cup (Users \X BOOLEAN)
    /\ MaxPackets \in Nat

VARIABLES
    running,                \* the flag of main()
    user_id, username,      \* username: the credentials typed at the log-in
    error_occur,
    using_gdomain_address,
    screen,                 \* the content of the window
    games,                  \* whether the game screen shows the games
    btnLogin,               \* the log-in button: clicked, locked
    login,                  \* what its thread waits with, or None
    gaming,                 \* the threads of the button " USE GAMING DOMAIN "
    streaming,              \* the address a thread streams a game from, or None
    toServer, toClient,     \* the packets under way
    logged, lent,           \* server: the users logged in from here, and the
                            \* session lent to each
    others,                 \* server: the sessions that other clients use
    codes,                  \* the pairing code each session has been told
    paired,                 \* the sessions that accept this client
    unheard,                \* history: error_occur is set by an error that
                            \* nobody waited for
    stray                   \* history: a packet was lost or came too late, an
                            \* error was taken for that of another packet, or
                            \* a thread outlived its screen

clientVars == <<running, user_id, username, error_occur, using_gdomain_address>>
screenVars == <<screen, games, btnLogin>>
threadVars == <<login, gaming, streaming>>
netVars == <<toServer, toClient>>
history == <<unheard, stray>>
serverVars == <<logged, lent, others, codes>>
vars == <<clientVars, screenVars, threadVars, netVars, serverVars, paired, history>>

(* What was typed: a user name, and whether the password is the right one. *)
Credentials == Users \X BOOLEAN

(* The packets to the server carry the number of the service and, here, a  *)
(* user or credentials or, for 23, the address and the code (the thread).  *)
Requests ==
    {<<1, c>> : c \in Credentials}
        \cup {<<n, u>> : n \in {2, 3, 4}, u \in Users \cup {None}}
        \cup {<<23, <<s, t>>>> : s \in Sessions \cup {None}, t \in Threads}
Answers ==
    {<<1, u>> : u \in Users} \cup {<<3, s>> : s \in Sessions} \cup {<<13, None>>}

Button == [clicked : BOOLEAN, locked : BOOLEAN]
GamingThread ==
    [at : {"none", "check", "list", "listed", "pair", "code", "again", "listed again"},
     ip : Sessions \cup {None}]

TypeOK ==
    /\ running \in BOOLEAN
    /\ user_id \in Users \cup {None}
    /\ username \in Credentials \cup {None}
    /\ error_occur \in BOOLEAN
    /\ using_gdomain_address \in Sessions \cup {None}
    /\ screen \in {"login", "status", "game"}
    /\ games \in BOOLEAN
    /\ btnLogin \in Button
    /\ login \in Credentials \cup {None}
    /\ gaming \in [Threads -> GamingThread]
    /\ streaming \in [Games -> Sessions \cup {None}]
    /\ toServer \in Seq(Requests) /\ Len(toServer) <= MaxPackets
    /\ toClient \in Seq(Answers) /\ Len(toClient) <= MaxPackets
    /\ logged \subseteq Users
    /\ lent \in [Users -> Sessions \cup {None}]
    /\ others \subseteq Sessions
    /\ codes \in [Sessions -> Threads \cup {None}]
    /\ paired \subseteq Sessions
    /\ unheard \in BOOLEAN /\ stray \in BOOLEAN

NewButton == [clicked |-> FALSE, locked |-> FALSE]
Ended == [at |-> "none", ip |-> None]

Init ==
    /\ running = TRUE
    /\ user_id = None /\ username = None
    /\ error_occur = FALSE
    /\ using_gdomain_address = None
    /\ screen = "login" /\ games = FALSE /\ btnLogin = NewButton
    /\ login = None
    /\ gaming = [t \in Threads |-> Ended]
    /\ streaming = [g \in Games |-> None]
    /\ toServer = <<>> /\ toClient = <<>>
    /\ logged = {} /\ lent = [u \in Users |-> None]
    /\ others = {}
    /\ codes = [s \in Sessions |-> None]
    /\ paired \in SUBSET Sessions
    /\ unheard = FALSE /\ stray = FALSE
-----------------------------------------------------------------------------
(* Sending and changing the screen. *)

Settled == toServer = <<>> /\ toClient = <<>>

push_packet(p) ==
    /\ Len(toServer) < MaxPackets
    /\ toServer' = Append(toServer, p)
    /\ UNCHANGED toClient

(* A new screen has new buttons; the screen that is shown stays as it is.  *)
set_window_content(name) ==
    /\ screen' = name
    /\ games' = (games /\ screen = name)
    /\ btnLogin' = IF name = "login" /\ screen # name THEN NewButton ELSE btnLogin
-----------------------------------------------------------------------------
(* The log-in screen. *)

(* The button is clicked with a name and a password: its thread locks it,  *)
(* sends them and waits.                                                   *)
LoginClick(c) ==
    /\ running /\ screen = "login" /\ login = None
    /\ btnLogin = NewButton
    /\ btnLogin' = [clicked |-> TRUE, locked |-> TRUE]
    /\ login' = c
    /\ push_packet(<<1, c>>)
    /\ UNCHANGED <<clientVars, screen, games, gaming, streaming, serverVars,
                   paired, history>>

(* It is clicked with an empty name or password. *)
LoginEmpty ==
    /\ running /\ screen = "login" /\ login = None
    /\ btnLogin = NewButton
    /\ btnLogin' = [clicked |-> TRUE, locked |-> TRUE]
    /\ UNCHANGED <<clientVars, screen, games, threadVars, netVars, serverVars,
                   paired, history>>

(* The button is let go of, which has no effect while it is locked: one    *)
(* more click is needed after a log-in that has failed.                    *)
Unclick ==
    /\ running /\ screen = "login"
    /\ btnLogin.clicked /\ ~btnLogin.locked
    /\ btnLogin' = NewButton
    /\ UNCHANGED <<clientVars, screen, games, threadVars, netVars, serverVars,
                   paired, history>>

unblock_click == btnLogin' = [btnLogin EXCEPT !.locked = FALSE]

(* The error is taken for one's own. *)
TakeError ==
    /\ error_occur' = FALSE
    /\ unheard' = FALSE
    /\ stray' = (stray \/ unheard)

(* An error has come, whenever and for whatever. *)
LoginError ==
    /\ running /\ login # None /\ error_occur
    /\ TakeError
    /\ unblock_click
    /\ login' = None
    /\ UNCHANGED <<running, user_id, username, using_gdomain_address, screen,
                   games, gaming, streaming, netVars, serverVars, paired>>

(* 30 seconds are over.  The answer may still come. *)
LoginTimeout ==
    /\ running /\ login # None /\ ~error_occur
    /\ unblock_click
    /\ login' = None
    /\ stray' = TRUE
    /\ UNCHANGED <<clientVars, screen, games, gaming, streaming, netVars,
                   serverVars, paired, unheard>>

(* There is a user id, whoever's it is. *)
LoginDone ==
    /\ running /\ login # None /\ ~error_occur /\ user_id # None
    /\ username' = login
    /\ login' = None
    /\ set_window_content("status")
    /\ UNCHANGED <<running, user_id, error_occur, using_gdomain_address, gaming,
                   streaming, netVars, serverVars, paired, history>>
-----------------------------------------------------------------------------
(* The status screen. *)

SendLogout ==
    IF user_id = None THEN UNCHANGED netVars ELSE push_packet(<<2, user_id>>)

(* Faulty: the user id is kept. *)
Logout_keepsId ==
    /\ running /\ screen = "status"
    /\ SendLogout
    /\ username' = None
    /\ set_window_content("login")
    /\ UNCHANGED <<running, user_id, error_occur, using_gdomain_address, threadVars,
                   serverVars, paired, history>>

(* Faulty: the server is not told. *)
Logout_silent ==
    /\ running /\ screen = "status"
    /\ user_id' = None /\ username' = None
    /\ set_window_content("login")
    /\ UNCHANGED <<running, error_occur, using_gdomain_address, threadVars,
                   netVars, serverVars, paired, history>>

Logout ==
    /\ running /\ screen = "status"
    /\ SendLogout
    /\ user_id' = None /\ username' = None
    /\ set_window_content("login")
    /\ stray' = (stray \/ ~Settled \/ \E t \in Threads : gaming[t] # Ended)
    /\ UNCHANGED <<running, error_occur, using_gdomain_address, threadVars,
                   serverVars, paired, unheard>>

(* The button " EXIT " of either screen: shutdown() sends a log-out and    *)
(* stops the thread that sends; what that has not sent by then is lost.    *)
Exit ==
    /\ running /\ screen # "game"
    /\ running' = FALSE
    /\ \E n \in 0..Len(toServer) + 1 :
          LET queue == IF user_id = None THEN toServer
                                         ELSE Append(toServer, <<2, user_id>>)
          IN  /\ n <= Len(queue) /\ n <= MaxPackets
              /\ toServer' = SubSeq(queue, 1, n)
    /\ UNCHANGED <<user_id, username, error_occur, using_gdomain_address, toClient,
                   screenVars, threadVars, serverVars, paired, history>>

(* A session is asked for.  The thread goes on at once. *)
UseGaming(t) ==
    /\ running /\ screen = "status" /\ gaming[t] = Ended
    /\ push_packet(<<3, user_id>>)
    /\ gaming' = [gaming EXCEPT ![t].at = "check"]
    /\ stray' = (stray \/ \E other \in Threads : gaming[other] # Ended)
    /\ UNCHANGED <<clientVars, screenVars, login, streaming, serverVars, paired,
                   unheard>>

(* Whatever error there has been by now ends the thread, otherwise the     *)
(* game screen comes up and its thread is this one.                        *)
UseGamingCheck(t) ==
    /\ running /\ gaming[t].at = "check"
    /\ IF error_occur
       THEN /\ TakeError
            /\ gaming' = [gaming EXCEPT ![t] = Ended]
            /\ UNCHANGED screenVars
       ELSE /\ gaming' = [gaming EXCEPT
                   ![t] = IF screen = "game" THEN Ended ELSE [@ EXCEPT !.at = "list"]]
            /\ set_window_content("game")
            /\ UNCHANGED <<error_occur, history>>
    /\ UNCHANGED <<running, user_id, username, using_gdomain_address, login,
                   streaming, netVars, serverVars, paired>>
-----------------------------------------------------------------------------
(* The game screen. *)

(* The list of games is asked from the address that is known now, for up   *)
(* to ten seconds; the second time after a pairing.                        *)
ListGames(t) ==
    /\ running /\ gaming[t].at \in {"list", "again"}
    /\ gaming' = [gaming EXCEPT
          ![t] = [at |-> IF @.at = "list" THEN "listed" ELSE "listed again",
                  ip |-> using_gdomain_address]]
    /\ UNCHANGED <<clientVars, screenVars, login, streaming, netVars, serverVars,
                   paired, history>>

(* A machine that this client is paired with may answer.  Nothing happens  *)
(* if the screen has been left meanwhile.                                  *)
ListDone(t) ==
    /\ running /\ gaming[t].at \in {"listed", "listed again"}
    /\ \/ /\ screen = "game" /\ gaming[t].ip \in paired
          /\ games' = TRUE
          /\ gaming' = [gaming EXCEPT ![t] = Ended]
       \/ /\ gaming' = [gaming EXCEPT
                ![t] = IF screen = "game" /\ @.at = "listed"
                       THEN [at |-> "pair", ip |-> None]
                       ELSE Ended]
          /\ UNCHANGED games
    /\ UNCHANGED <<clientVars, screen, btnLogin, login, streaming, netVars,
                   serverVars, paired, history>>

LeavePacket == <<4, user_id>>

(* pair_with_domain: after half a second the child process has said that   *)
(* it is paired already or has another error, or it waits for the code to  *)
(* be typed at the session, which the server is asked to do.  An exception *)
(* ends the pairing, and the server is not told.                           *)
PairRaises(t) ==
    /\ gaming' = [gaming EXCEPT ![t] = Ended]
    /\ UNCHANGED netVars

Pair(t) ==
    /\ running /\ gaming[t].at = "pair"
    /\ \/ /\ using_gdomain_address \in paired
          /\ gaming' = [gaming EXCEPT ![t].at = "again"]
          /\ UNCHANGED netVars
       \/ /\ push_packet(LeavePacket)
          /\ gaming' = [gaming EXCEPT ![t] = Ended]
       \/ /\ push_packet(<<23, <<using_gdomain_address, t>>>>)
          /\ gaming' = [gaming EXCEPT
                ![t] = [at |-> "code", ip |-> using_gdomain_address]]
       \/ PairRaises(t)
    /\ UNCHANGED <<clientVars, screenVars, login, streaming, serverVars, paired,
                   history>>

(* The child process ends, or its three seconds are over. *)
PairDone(t) ==
    /\ running /\ gaming[t].at = "code"
    /\ \/ /\ gaming[t].ip # None /\ codes[gaming[t].ip] = t
          /\ paired' = paired \cup {gaming[t].ip}
          /\ gaming' = [gaming EXCEPT ![t] = [at |-> "again", ip |-> None]]
          /\ UNCHANGED netVars
       \/ /\ push_packet(LeavePacket)
          /\ gaming' = [gaming EXCEPT ![t] = Ended]
          /\ UNCHANGED paired
       \/ PairRaises(t) /\ UNCHANGED paired
    /\ UNCHANGED <<clientVars, screenVars, login, streaming, serverVars, history>>

(* Faulty: the server is not told. *)
return_status_silent ==
    /\ set_window_content("status")
    /\ UNCHANGED netVars

(* using_gdomain_address is not reset: the assignment is to a local name.  *)
return_status ==
    /\ push_packet(LeavePacket)
    /\ set_window_content("status")

(* The games that are being streamed go on. *)
Return ==
    /\ running /\ screen = "game"
    /\ return_status
    /\ stray' = (stray \/ \E g \in Games : streaming[g] # None)
    /\ UNCHANGED <<clientVars, threadVars, serverVars, paired, unheard>>

ChooseGame(g) ==
    /\ running /\ screen = "game" /\ games /\ streaming[g] = None
    /\ streaming' = [streaming EXCEPT ![g] = using_gdomain_address]
    /\ UNCHANGED <<clientVars, screenVars, login, gaming, netVars, serverVars,
                   paired, history>>

StreamEnd(g) ==
    /\ running /\ streaming[g] # None
    /\ streaming' = [streaming EXCEPT ![g] = None]
    /\ return_status
    /\ stray' = (stray \/ \E other \in Games \ {g} : streaming[other] # None)
    /\ UNCHANGED <<clientVars, login, gaming, serverVars, paired, unheard>>
-----------------------------------------------------------------------------
(* The main loop of the client. *)

(* A thread waits for the error only if it is the answer to its own packet,*)
(* the last that was sent.                                                 *)
Waiting == login # None \/ \E t \in Threads : gaming[t].at = "check"
ForNobody(answer) == answer[1] = 13 /\ ~(Waiting /\ toServer = <<>> /\ Tail(toClient) = <<>>)

(* Faulty: an address is stored only where there is none yet. *)
TakeAnswer_first ==
    /\ running /\ toClient # <<>>
    /\ LET answer == Head(toClient)
       IN  /\ user_id' = IF answer[1] = 1 THEN answer[2] ELSE user_id
           /\ using_gdomain_address' =
                 IF answer[1] = 3 /\ using_gdomain_address = None
                 THEN answer[2] ELSE using_gdomain_address
           /\ error_occur' = (error_occur \/ answer[1] = 13)
           /\ unheard' = (unheard \/ ForNobody(answer))
    /\ toClient' = Tail(toClient)
    /\ UNCHANGED <<running, username, toServer, screenVars, threadVars, serverVars,
                   paired, stray>>

TakeAnswer ==
    /\ running /\ toClient # <<>>
    /\ LET answer == Head(toClient)
       IN  /\ user_id' = IF answer[1] = 1 THEN answer[2] ELSE user_id
           /\ using_gdomain_address' =
                 IF answer[1] = 3 THEN answer[2] ELSE using_gdomain_address
           /\ error_occur' = (error_occur \/ answer[1] = 13)
           /\ unheard' = (unheard \/ ForNobody(answer))
    /\ toClient' = Tail(toClient)
    /\ UNCHANGED <<running, username, toServer, screenVars, threadVars, serverVars,
                   paired, stray>>
-----------------------------------------------------------------------------
(* The server takes a packet; the services are operators of their data.    *)

Reply(answer) ==
    /\ Len(toClient) < MaxPackets
    /\ toClient' = Append(toClient, answer)
Error == Reply(<<13, None>>)

(* A user who is logged in from here already is back, and loses the        *)
(* session; one who is logged in from elsewhere gets an error.             *)
log_user_in(c) ==
    \/ /\ c[2]
       /\ logged' = logged \cup {c[1]} /\ lent' = [lent EXCEPT ![c[1]] = None]
       /\ Reply(<<1, c[1]>>)
       /\ UNCHANGED codes
    \/ /\ c[2] => c[1] \notin logged
       /\ Error
       /\ UNCHANGED <<logged, lent, codes>>

log_user_out(u) ==
    /\ logged' = logged \ {u}
    /\ lent' = IF u \in logged THEN [lent EXCEPT ![u] = None] ELSE lent
    /\ UNCHANGED <<toClient, codes>>

(* A session that nobody uses is lent, if one is ready. *)
lend(u) ==
    \/ /\ u \in logged /\ lent[u] = None
       /\ \E s \in Sessions \ others :
             /\ \A v \in Users : lent[v] # s
             /\ lent' = [lent EXCEPT ![u] = s]
             /\ Reply(<<3, s>>)
       /\ UNCHANGED <<logged, codes>>
    \/ /\ Error
       /\ UNCHANGED <<logged, lent, codes>>

leave(u) ==
    /\ IF u \in logged
       THEN lent' = [lent EXCEPT ![u] = None] /\ UNCHANGED toClient
       ELSE Error /\ UNCHANGED lent
    /\ UNCHANGED <<logged, codes>>

(* The code is given to the slave of the session, if that is ready. *)
pair_gaming_domain(s, t) ==
    /\ \/ s # None /\ codes' = [codes EXCEPT ![s] = t] /\ UNCHANGED toClient
       \/ Error /\ UNCHANGED codes
    /\ UNCHANGED <<logged, lent>>

Serve ==
    /\ toServer # <<>>
    /\ LET n == Head(toServer)[1]
           data == Head(toServer)[2]
       IN  \/ n = 1 /\ log_user_in(data)
           \/ n = 2 /\ log_user_out(data)
           \/ n = 3 /\ lend(data)
           \/ n = 4 /\ leave(data)
           \/ n = 23 /\ pair_gaming_domain(data[1], data[2])
    /\ toServer' = Tail(toServer)
    /\ UNCHANGED <<clientVars, screenVars, threadVars, others, paired, history>>

(* Other clients. *)
OtherTakes(s) ==
    /\ s \notin others /\ \A u \in Users : lent[u] # s
    /\ others' = others \cup {s}
    /\ UNCHANGED <<clientVars, screenVars, threadVars, netVars, logged, lent, codes,
                   paired, history>>

OtherLeaves(s) ==
    /\ s \in others
    /\ others' = others \ {s}
    /\ UNCHANGED <<clientVars, screenVars, threadVars, netVars, logged, lent, codes,
                   paired, history>>

Lose ==
    /\ stray' = TRUE
    /\ \/ toServer # <<>> /\ toServer' = Tail(toServer) /\ UNCHANGED toClient
       \/ toClient # <<>> /\ toClient' = Tail(toClient) /\ UNCHANGED toServer
    /\ UNCHANGED <<clientVars, screenVars, threadVars, serverVars, paired, unheard>>

Next ==
    \/ \E c \in Credentials : LoginClick(c)
    \/ LoginEmpty \/ Unclick \/ LoginError \/ LoginTimeout \/ LoginDone
    \/ Logout \/ Exit
    \/ \E t \in Threads :
          \/ UseGaming(t) \/ UseGamingCheck(t) \/ ListGames(t) \/ ListDone(t)
          \/ Pair(t) \/ PairDone(t)
    \/ Return \/ \E g \in Games : ChooseGame(g) \/ StreamEnd(g)
    \/ TakeAnswer \/ Serve \/ Lose
    \/ \E s \in Sessions : OtherTakes(s) \/ OtherLeaves(s)

Spec == Init /\ [][Next]_vars
-----------------------------------------------------------------------------
(* Nothing at work: no packets, no threads, no game. *)
Quiet ==
    /\ Settled
    /\ login = None
    /\ \A g \in Games : streaming[g] = None
    /\ \A t \in Threads : gaming[t] = Ended

(* A user name is shown only of the user whose id the client holds, and    *)
(* with the password that was typed for it being right: the thread of the  *)
(* button (CUI.py:56-89) takes any id for the answer to its own packet.    *)
LoginOwn ==
    ~stray /\ username # None => username = <<user_id, TRUE>>

(* When no packet is under way, the server has logged in from this client  *)
(* just the user that the client has: log-ins, log-outs and errors         *)
(* (CUI.py:32-89, 170-181, 671-685; main.py:111-223) keep the two in step. *)
ServerAgrees ==
    ~stray /\ running /\ Settled /\ login = None =>
        logged = IF user_id = None THEN {} ELSE {user_id}

(* Whichever way the game screen is left, by its button, after a game or   *)
(* after a pairing that failed (CUI.py:403-415, 564-591), the session goes *)
(* back to the server: none is lent to a user who is not on that screen.   *)
NoIdleSession ==
    ~stray /\ running /\ Quiet /\ screen # "game" =>
        \A u \in Users : lent[u] = None

(* Once the answers are in, a game is streamed from the session that the   *)
(* server has lent to this user.  It is streamed from the one of the last  *)
(* time, whose address the client keeps (CUI.py:407), only if the server   *)
(* has lent none, and the client was told so too late: after the thread of *)
(* the button had looked for an error (CUI.py:190, 681).                   *)
StreamOwn ==
    [][\A g \in Games : ChooseGame(g) /\ ~stray /\ Settled /\ user_id # None =>
           \/ streaming'[g] = lent[user_id]
           \/ lent[user_id] = None /\ unheard]_vars
=============================================================================
