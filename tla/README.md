# Moonlight Multisession in TLA+

TLA+ models of the Moonlight Multisession server (`server/`), of its client
program (`client/CUI.py`), and of the streaming client that program runs, a fork
of moonlight-embedded (`client/moonlight-embedded-mod/`); checked with TLC, with
proofs in TLAPS. The server turns virtual machines on and off as users log in
and out, hands gaming sessions to users, and watches whether their clients are
still there; the client logs in, asks for a session, pairs with it and streams a
game; the streaming client keeps a pairing with its host, sends it what the user
does and draws what comes back. The code is Python with threads and without
locks, and C with threads, pipes and callbacks; messages are UDP packets and HTTP
requests; machines, guests and decoders do as they like. That is what the models
are about.

## The system

| component | code | state | operations |
|---|---|---|---|
| main loop | `server/main.py` | `user_status`, `user_count`, `timeout_feed` | one handler per packet number, one packet at a time; `shutdown()` |
| hypervisor | `server/hypervisor.py` | the lists of gaming and of work statuses, the lists of `sure_sh` and startup threads, `last_nv_count` | `startup_name`, `shutdown_name`, the `find_` methods, `close`; the two thread functions |
| users | `server/users.py` | per user: state flag, links to the two statuses used, `timeout_counter` | `use_`/`left_` methods, `prepare_logout`; `TimeoutCheckThread` |
| shell | `server/shell.py` | incoming and outgoing queue | listening, sender and keyboard threads |
| database | `server/database.py` | one SQLite table | lookup at log-in, insert at registration |
| client | `client/CUI.py`, `shell.py`, `moonlight_functions.py` | `user_id`, the address of the session, `error_occur` | main loop of packets, CUI thread with the screens, child processes of moonlight |
| client toolkit | `client/entities.py`, `systems_components.py` | curses widgets | drawing, focus, clicks |
| slave | `slave/.../Program.cs` | window visibility | answers packets 20, 21, 22 in a gaming session |
| libgamestream | `libgamestream/client.c`, `http.c`, `xml.c`, `mkcert.c`, `discover.c` | client id, certificate and key in files; the last answer of the host | server information, pair, unpair, list, launch, resume, quit |
| configuration | `src/config.c` | `CONFIGURATION`, files | defaults, files, command line, save |
| streaming main loop | `src/main.c`, `loop.c`, `connection.c`, `platform.c` | the descriptors polled, signals, `main_thread_id` | commands, `loop_main`, callbacks of the connection |
| input | `src/input/evdev.c`, `udev.c`, `cec.c`, `mapping.c`; `input/x11.c`, `input/sdl.c` | devices, controller numbers, modifiers, grab | event handlers, plugging, rumble |
| video | `src/video/rk.c`; `ffmpeg.c`, `x11.c`, `sdl.c`; `imx.c`, `imx_vpu.c`; `pi.c`, `aml.c`, `egl.c` | rings of frames and bytes, pipes, flags | setup, submit, draw, cleanup |
| audio | `src/audio/*.c` | | hand a packet to a library |
| third party | `client/moonlight-embedded-mod/third_party` | | vendored |

How they interact: clients, slaves and the timeout thread send packets to the
server's socket; the listening thread puts them into a queue and the main loop
takes them out one by one. The main loop calls the hypervisor, which calls
libvirt and starts threads: a `sure_sh` thread tells a machine to shut down
until it is down, a startup thread waits until a session can be played in and
resets its `booting_up` flag. The timeout thread shares two lists with the main
loop. The operator's keyboard thread puts packets into the same queue.

The client runs moonlight as a child, `list`, `pair` or `stream`, and kills the
first two after some seconds. One run reads its configuration and its files,
asks the host with HTTP requests, and, when it streams, polls descriptors in its
main thread while the threads of moonlight-common-c (vendored) call back into
`connection.c`, into `evdev_rumble` and into the submit function of the renderer.

What is hard about it:

- the driver is asked in one step and acted upon in a later one, while guests
  halt and threads shut machines down;
- threads and main loop share lists and a one-place slot without locks, iterate
  lists that change, and clear what they have not read;
- packets are lost, late or repeated, and a log-out is only a user id;
- guests ignore shutdown flags, or halt on their own;
- the main loop waits for what only the main loop can receive;
- closing the server waits for threads that may never end;
- the threads of the client's buttons look at global variables that its main
  loop sets when an answer comes, and cannot tell whose answer it is;
- a pairing is a handshake of five requests, each of which may fail, on files
  that a killed run may have left half written;
- devices are plugged and pulled, reports are lost and focus changes while keys
  are held; the host only knows what it was told;
- a decoder, the thread of the stream and the thread that draws share rings,
  pipes and flags, some with a mutex, some without, some both.

What makes the parts correct: nobody plays in two sessions and no session has
two players; a session in use is up, ready and its user is logged in; there
are sessions for the users up to the limit; no machine runs unnoticed; what is
taken off the list goes down; those who are online are kept and those who are
not are logged out; a shutdown ends; a client is logged in as who sits there,
streams from the session that was lent to it and gives it back; a device is one
client to its host, and trusted exactly when it says so; the host believes what
the user holds, and a stream ends when it should and only then; what is drawn is
whole, in order, and in the end the newest. `PROJECT.json` lists each hazard at its
line.

## Modules

| module | of | composes |
|---|---|---|
| `SessionPool` | abstract: what the server promises about gaming sessions | |
| `Multisession` | main loop, hypervisor, users, driver, `sure_sh` and startup threads, command line | implements `SessionPool` |
| `TimeoutCheck` | timeout thread, main loop, clients, network | |
| `GamingStartup` | startup threads, slot, status list, pairing, slaves, network | |
| `GamingPick` | `find_gaming_domain_down` on the list as it is sorted | reference for `FirstGap` of `Multisession` |
| `ServerClose` | `Hypervisor.close`, `shutdown_name`, `sure_sh` threads in detail | |
| `ClientSession` | client main loop, screens, button threads, the server's side of a client, network | |
| `GamestreamXml` | the documents of the host and the parsers of `xml.c` | |
| `Configuration` | `config.c` | |
| `Gamestream` | runs of moonlight on one device: `main.c` on top of libgamestream; host and network | `GamestreamXml`, `Configuration` |
| `Streaming` | `stream()` of `main.c`, `platform.c`, `loop.c`, `connection.c` | |
| `Evdev` | `/dev/input`: `evdev.c`, `udev.c`, `cec.c` | extends `Streaming` |
| `WindowInput` | windows: `input/x11.c`, `input/sdl.c`, `sdl.c` | extends `Streaming` |
| `Stream` | a stream from the choice of the platform to its end | `Streaming`, `Evdev`, `WindowInput` |
| `RkVideo` | `video/rk.c` | |
| `SoftwareVideo` | `video/ffmpeg.c` with `video/x11.c`, or with `video/sdl.c` and `sdl_loop` | |
| `ImxVideo` | `video/imx.c`, `video/imx_vpu.c` | |
| `Video` | the choice of a renderer | `RkVideo`, `SoftwareVideo`, `ImxVideo` |
| `MC...` | values for TLC; `MCHypervisor` joins `ServerClose` and `GamingPick` | |
| `Users_proofs` (of `SessionPool` and `TimeoutCheck`), `Multisession_proofs`, `Hypervisor_proofs`, `GamingStartup_proofs`, `ClientSession_proofs`, `Gamestream_proofs`, `Stream_proofs`, `Video_proofs` | theorems | |

Names of variables, actions and operators are those of the code. Definitions
whose names end in `_something` and whose comment begins with "Faulty" are what
a bug would make of the definition that follows; they are used by nothing and
serve to show that each property can be violated.

### SessionPool

`offered` is the set of sessions up and ready, `holder` says who plays in each.
`Offer` stands for the end of a startup thread, `Withdraw` for `shutdown_name`,
`Acquire` for packet 3, `Release` for packet 4, a log-out or a log-in of a user
who is back.

### Multisession

The driver is `vm`; a machine is off, on, or on and told to stop. `listed`,
`booting` and `holder` are the status lists: a status is identified with the
domain, and `status.using` is that `holder` names a user (the code always sets
the two together). `host`, `state`, `gamingLink`, `workLink` are the `User`
objects; a user with a host is in `user_status`. `main` says where the main
thread is. A handler is one action except where it asks the driver and acts
later; then the answer is kept in `main` (`LogIn`, `StartupWork`, `PickGaming`,
`StartupGaming`; `LogOut`, `LogOutGaming`), and every other thread may step in
between. `At("dead")` is the main thread after an exception that nothing
catches. With `DriverErrors` any libvirt call may fail: `check_running` then answers
that the machine is down, `startup_name` catches it only for a machine that is down and
has no status (`DriverFails`), and a `sure_sh` thread ends. A session `g<i>` is its
number `i`, a work domain is its user.

Refused log-ins, refused requests, registrations and listings change no state
and are not actions. A log-out comes from the client, the timeout thread or the
operator, early, late or twice: `LogOut` is possible at any time for a user who
is logged in. `GamingBooted` may happen to any session that is booting up: which
answers lead there is the matter of `GamingStartup`. The order of the list is
taken to be that of the numbers, which `GamingPick` shows for up to ten
sessions and which `MultisessionAssumption` says. `sure_sh` threads are in no
list here; `ServerClose` has the list.

### TimeoutCheck

Users are numbers in the order of their names, so the sorted list is the set
`user_status` and a place in it is a count of smaller members: the iteration
sees the list as it is now, as Python's does. `timeout_feed` is a set, with 0
for the word "close": the code only asks what is in it. One turn of a `for` loop
is an action; `Clear` is a step of its own, and so are the handlers of the main
loop, which interleave with all of them. Packets on the way are sets and, for
log-outs, counts, so that they overtake each other. The variable `calm` is
chosen at the start and never changes: in a calm behaviour the network and the
main loop keep up with the thirty seconds between two rounds, no packet is lost
and nobody logs in again under the same user object; in the others packets are
lost or arbitrarily late. `MaxCount` (ten in the code) and the bound `MaxLogouts`
are functions of `calm`, so that one run covers both. Places shift when the list
changes: who is next when somebody before leaves is not asked (`Skipped`), and who was
counted last when somebody comes before is counted again (`Recounted`). The history
variables `shifted`, since the last answer, and `moved`, ever, remember whom that
has hit; the properties allow no other exception.

### GamingStartup

Sessions are put in the list with a thread (`Startup`) and taken off (`Shutdown`) again
and again, and guests come up, halt and restart as they like, so that an answer on its
way, the slot and a thread may be those of an earlier start. Each read of `last_nv_count`
and of the status list is a step, since the code evaluates the attribute anew each time.
An `IndexError` ends the thread (`Crashes`) or the main loop (`Dies`). The number of
nvcontainer processes is kept as a level: no slave, few, or enough. A session is its own
address; a guest whose agent reports no IPv4 address of "Ethernet 2" leaves its thread
with the empty one, and what is sent there comes back to the server without a count
(`Echo`), which ends the main loop. The code guards against none of this. The history
variable `astray` collects the sessions whose start met one of three accidents, named by
operators: something was left over (`LeftOver`), the list changed under a thread that goes
through it (`Shifts`), the slot was overwritten between two reads (`Mixed`); the
properties except those sessions and no others.

### GamingPick

The loop of `find_gaming_domain_down` over a list sorted by `DomainStatus.__lt__`,
that is by name; `Before` is the order of the names. One state per comparison. The
numbers have at most two digits (`GamingPickAssumption`), which is what `Before`
says of names.

### ServerClose

`close()` step by step: the index of the loop, `shutdown_name` as start of the
thread, append of the thread, removal of the status; the wait. A domain has up to two
threads, one left over from an earlier shutdown and the one that `close()` starts. `Init`
is what the list of threads, the statuses and the machines may be when the server is
closed, between two steps of the threads: a thread may be left over of a domain with or
without a status, in use or not, one may have ended before it was put into the list
(`early`), and one may have been ended by an error (`failed`). It leaves out two
left-over threads of one domain, and threads in the middle of their loop. Guests halt as
they like. A thread leaves its loop when its machine is down or at any error of libvirt
(`SureFails`).

### ClientSession

The variables are the globals of `CUI.py`, the two flags of the log-in button,
and what each button thread is at: `login` while the log-in waits, `gaming` for
the threads of " USE GAMING DOMAIN ", which open the game screen, list the games,
pair, and list them again. Each look at a global is a step, and so is each
packet that the main loop takes (`TakeAnswer`). An answer is a pair of its kind
and its datum: the code does not say to which packet it belongs either. The
address is not reset when the game screen is left, because `return_status`
assigns to a local name. `Serve` is what the handlers of `main.py` do with the
packets of one client, an operator per handler; whether a session is ready and
whether a slave answers is a free choice there, since `Multisession` and
`GamingStartup` decide it. `None`, Python's, is no user, no session and nothing typed
(`ClientSessionAssumption`). Packets 14, 15, 16 and 18 only change texts on the
screen and are left out.

`Games` are the threads of the game buttons, each of which streams on its own. A pairing
may end in an exception, without a packet (`PairRaises`).

`unheard` is a history variable: an error has come that was not the answer somebody
waited for, and is still set. That alone takes nothing away: it is the refusal that
comes after `use_gaming_domain` has looked, and `StreamOwn` says what it leads to.
`stray` becomes true when a packet is lost, a log-in
times out, such an error is taken by another thread for its own, or a screen is left, or a
session asked for again, while a packet, a thread or a game of the last time is
under way. The properties speak of what happens before that. They are false
afterwards (see the deviations), and the run stops there by the constraint
`Calm`, which takes nothing away from properties that have `~stray` as a premise.

### Gamestream

`pc` says where a run of the program is; `Start` begins the next run with a command
line, `Kill` ends one at any step. What survives a run is `idFile`, `certFile`,
`keyFile`, the configuration files (`confFiles`, by name, `moonlight.conf` and saved
ones) and `hosts/<address>.conf`; `Start` is `config_parse` with the save, `Defaults` the
rest of it, which nothing saves; a file is open for
writing in one step and closed in a later one, and a run that is killed in
between leaves it empty. Each HTTP request is a step with a `fate`: the host
served it or not, its answer came back whole, garbled or not at all, and `ret` is
what `http_request` and `xml.c` make of that. Ids and certificates are numbers in the
order they are made; a cipher text is the identity of the key, so a check of a
signature is a comparison. The host is external: it trusts pairs of id and
certificate, plays a game, and its own user may take the trust back or quit a game
at any time. `shown`, `lost`, `trustedAtStart` and `torn` are history variables.

### Configuration, GamestreamXml

Pure operators. Arguments and lines of files are records of an option and its
value, read in the order of the code: defaults (`DefaultConfig`), `moonlight.conf`
(`Configured`), then the file that is the only argument (`OnlyFile`) or the options, among
them `-config` (`Arguments`), at last the file of the address. Where `get_path` finds
`moonlight.conf` is not modelled: it is there or not. A file that names another with
`config` is not followed. `config_save` is the sequence of lines it writes. A
document is the sequence of events expat reports, and the handlers of `xml.c` are
folded over it.

### Streaming, Evdev, WindowInput, Stream

`stage` is where the main thread is; the handlers of events are actions while it is
`"loop"`. `remote` is what the host was told last. An input device has what is
physically down (`held`, `hat`, `raw`, `keysDown`, `padDown`) and what the program
remembers of it; one report up to `EV_SYN` is one action. `devices` is the array of
`evdev.c`, with removal by moving the last element, which is where controller
numbers, `evdev_rumble` and the array meet (`rumbler` is the callback's place, between
its search and its use). A report may be lost (`SYN_DROPPED`), and `lost`,
`missed`, `overrun`, `crowded` and `raced` remember what the properties must allow.
The axis of a gamepad is computed as in the code, with its dead zone and its
reversal, for a few ranges.

A machine is the sequence of its devices, each a keyboard or a gamepad; that one
device is both is not modelled. `EvdevAssumption` says what the code takes for
granted: a keyboard has the keys that the code knows, an axis is wider than its
dead zone and has a place between its ends, who has a hat has no buttons for its
directions, and the buttons that quit are none of the hat's (`evdev.c:101`). `udev.c` is
set up on embedded platforms only (`main.c:293`), so devices come late there only. In an
SDL window the gamepads there are at the start are opened one at a time
(`opened`).

### RkVideo, SoftwareVideo, ImxVideo, Video

A frame is its number, a framebuffer that of its frame, a byte of the stream its
place in the stream. On rk a critical section is one step, `frm_eos` is read and
written outside; spurious wake-ups are an action (`SpuriousWake`). On X11 a pointer
goes through a pipe, on SDL an event through a queue and a mutex around decoding
and drawing. On imx the numbers of buffers travel through two pipes between the
thread of the stream and the main thread, and `vpu_decode` copies units, entry by
entry (`TakeUnit`, `CopyEntry`), into a ring that the decoder reads at its own speed.

## Runs

Passing:

| run | shows | bounds |
|---|---|---|
| `server_safety` | types, enough sessions, none forgotten | 3 users, limit of 2 sessions, 1 `sure_sh` thread, one session and one work domain possibly up at the start |
| `server_driver_errors` | the links and readiness with failing libvirt calls in every handler and thread; refinement of `SessionPool` | 2 users, 2 sessions, limit of 1, 1 thread |
| `server_liveness` | what leaves the list goes down or is listed again | 1 user, 2 sessions, limit of 1, 2 threads |
| `timeout` | calm: nobody online is logged out and no log-out ends a later session, but for who lost a place; else: who is gone is logged out, a shutdown that meets the thread asking or sleeping ends it | 2 users; if calm 3 log-ins and a limit of 3, if not 2 and 2 |
| `startup` | sessions become ready, not too early and with their own address, however often they are started; pairing ends | 1 session and 8 starts, log-outs, pairings and halts, or 2 sessions and 3; 2 threads, 1 answer under way, 2 looks |
| `close` | the scan finds the first gap; closed means down, used is asked for, closing ends unless a thread ended too early | all lists of 11 sessions; 2 work domains and 1 session, one thread left over |
| `client_session` | client and server agree on the log-in, no idle session stays lent, the stream is from the own session, or an old one after a refusal heard too late | 2 users, 2 sessions, 2 threads, 2 games, 3 packets each way |
| `gamestream` | one device is one client, keys stay usable, pairing agrees with the host, a failed one is undone, a good one kept; a saved configuration loads again, next to `moonlight.conf` | 3 runs, 3 ids and certificates, 11 command lines, with and without a `moonlight.conf`, 2 modes and applications |
| `stream` | no ghost keys, the stream is quit only when it is meant, gamepads keep apart and are shown as they are held, rumble can be stopped; the program ends after the connection and after a signal | 2 keyboards, or 3 gamepads with 2 numbers, or one stick; 6 keys and buttons of a window, up to 3 joysticks |
| `video` | frames whole, in order and in the end the newest; no buffer and no byte lost | 4 frames on rk, 6 frames in a ring of 2, 3 buffers with 1 kept, a ring of 5 bytes and 10 bytes |

`TypeOK` of the server is an invariant of `server_safety` and a theorem. The type
invariants of the other modules were checked with the same values and hold; they
are parts of the inductive invariants of the proofs or stand for documentation,
and no run is spent on them.

Three users and a limit of two are below, at and above the limit; every other
property of the server is about one user, one domain or a pair of them.
`SureThreads` bounds the `sure_sh` threads that exist at one time: a log-out for
which none is free waits. Two threads on one domain are in `server_liveness`.
`MaxLogins` bounds the log-ins in `TimeoutCheck`, `MaxLogouts` the log-outs of one
user under way. Three log-ins are what it takes for a log-out that was sent twice
to end the next session, and with a limit of three somebody online is logged out
after two shifts of the list: without their exceptions `OnlineKept` and
`FreshSessionKept` fail in this run. `Defined = 11` in `close` is the
smallest number with a name of two digits after one that sorts behind it.
In `startup` eight events let a session be started, taken off, started again while its
first thread, its answer or the slot is left, and paired; three let two sessions meet in
the slot and in the list. In `close` (`FewLeft`) the thread left over is that of the first work
domain, which has no status, or one that is free, or one in use; errors and early ends
happen in the run itself, and the theorems are about any situation of `Init`.
`MaxPackets` of `ClientSession` covers a log-out, a log-in and the packet after
it in one queue; the two threads let a code of an earlier pairing be there when
the next one is asked for.

Three runs of `Gamestream` are one that is torn or unpairs, one that meets the files
it has left, and one that has to do with the host after both; each makes at most
one id and one certificate. (With two runs TLC missed a pairing without a private
key in an earlier model, which the proof attempt met: see below.) `launch_refused`
needs one run that pairs and one that streams. `MAX_CONTROLLERS` is two
instead of four, so that three gamepads exceed it. The constraint `Instance` of
`MCStream` keeps apart what does not meet: it lets the devices of `/dev/input` only
exist where they can be opened, and does not multiply signals, full screen and
rumbling with each other. It is a CONSTRAINT,
and never keeps a fair action from being taken.
Four frames on rk let the display thread fall behind by two and catch up; six
frames go round the ring of two three times. `STREAM_BUF_SIZE = 5` with units of one,
three and four bytes, in one or two entries, lets an entry end just before, at and
past the end of the ring; no unit begins after ten bytes (`MaxBytes`), which is
twice round.

Violated, each with a finding in `PROJECT.json` that quotes the document,
comment or message it contradicts:

| run | shows |
|---|---|
| `launch_refused` | `gs_start_app` turns the refusal of the host into 1, and `stream()` goes on |
| `rk_quit` | `rk_cleanup` signals before the display thread waits, or the frame thread takes the mark back: quitting waits for ever |

Deadlock is not checked: after an uncaught exception in the main loop, with all
machines down, when the server or the client is closed, or at a bound, the
system really stops.

### Other deviations

Met while modelling; the models have them, and the properties are stated so that
they hold beside them. No run is devoted to them.

Server:

- a `sure_sh` thread asks the driver alone: a session that was listed again while
  it still ran is told to shut down, although it may be in use (`SureSend`);
- sessions beyond the limit that run when the server starts are handed out;
- command 6 of the operator carries an id where the handler expects a user: the
  main loop ends (`LeftWork`); command 5 compares a method with a number and never
  starts a work domain (`UseWork`);
- a user who is back keeps the old `timeout_counter` and can be logged out right
  away; answers that come during the iteration are cleared unread; a log-out sent
  twice ends the session that the user began in between: hence `calm`;
- also in calm conditions, a log-in in front of the user whom the thread has just
  counted makes it count that user again, and send the log-out twice; a log-out in
  front of the one it is about to ask makes it ask the one after (`users.py:65`,
  `84`): hence `shifted` and `moved`;
- a startup thread dies of an `IndexError` when the slot is cleared between its
  two reads (`LookAt`), and its session boots for ever; so may the main loop in a
  pairing (`PairTake`); a pairing may fail although the answer is in the queue;
- a `sure_sh` thread that ends before it is put into its list, because its machine is
  down or at an error of the driver, is put there afterwards and stays, and `close()`
  never ends (`hypervisor.py:437`, `219`): hence `early` in `CloseEnds`;
- an error of the driver ends a `sure_sh` thread whose machine runs on
  (`hypervisor.py:209`, `323`): hence `failed` in `ClosedIsDown` and the premise
  `~DriverErrors` of `NoneForgotten`;
- a log-out while the session boots leaves one session too many (`main.py:227`,
  against `main.py:7`): `EnoughSessions` asks for enough, not for as many;
- a shutdown that meets the counting loop has its "close" cleared with the
  answers, and the join never returns (`users.py:81`, `main.py:304`): hence
  `ShutdownSeen` says "asking or sleeping";
- of two sessions that boot, one may take the count of the other
  (`hypervisor.py:256`), the list is indexed again after it changed (`268`), and an
  answer, slot or thread of an earlier start makes the next one end at once: hence
  `astray` in `FullyOperational` and `StartupEnds`;
- a startup thread without an address asks the server itself, whose packet 21 has no
  count: an `IndexError` ends the main loop (`hypervisor.py:237`, `main.py:556`);
- the loop of `close()` over the list it shortens skips every second domain
  (`hypervisor.py:554`, `561`): hence `ClosedIsDown` speaks of domains without a
  status;
- `shutdown()` joins a timeout thread that may not exist (`main.py:383`);
  `booting_up` is reset before the address is set (`269`); a startup thread that
  waits for its slave is not answered any more when the server is shut down (`254`);
- with g10 the list is not in the order of the numbers, and the scan may return a
  session that is up: hence the premise of `PickIsFirstGap`.

Client:

- the log-in button is locked before the fields are looked at: with an empty name
  or password it stays locked (`LoginEmpty`);
- a log-in answer after the thirty seconds, or one that belongs to an earlier
  log-in, is taken for the answer to the next one, whatever was typed;
- `error_occur` stays set until somebody looks at it: an error of a request for a
  session ends the next one, whose session stays lent;
- the address is never forgotten; if the second request for a session is refused, and
  the refusal comes after the thread has looked for it, the games of the first are
  listed and streamed: hence `unheard` in `StreamOwn`;
- an exception in a pairing ends it without packet 4: `PairRaises`; the button "RETURN"
  gives the session back;
- games are streamed in threads of their own, and each that ends gives the session back
  and leaves the screen, whatever the others do;
- the thread of a game screen that was left goes on pairing and gives the next
  session back;
- `Box_system.is_running == False` compares a method: a log-in never notices that
  the program exits; the log-out of an exit may not be sent any more (`Exit`).

libgamestream and configuration:

- requests have no time-out (`http.c:91`), and neither has the search for a host;
- when HTTPS fails the HTTP answer says that the client is not paired
  (`client.c:196`): a pairing begun on that removes the good one when it fails, hence
  the premise `~lost` of `PairKeepsPairing`;
- a run that is killed while it writes `uniqueid.dat` or a certificate leaves an
  empty file that the next run takes for good: hence `torn`;
- `supports4K` is always set: `GS_NOT_SUPPORTED_4K` is never returned; whatever game
  runs is resumed, although another was asked for;
- `hosts/<address>.conf` is read after the command line and overrides it; `-save`
  leaves out codec, surround, windowed, remote and inputs, and every value that is
  `config_save`'s own default, which the next run then takes from `moonlight.conf` or,
  for 60 fps at 1080 lines, computes to 30: hence `Kept` in `SaveRestores`;
  nothing reads `-viewonly`.

Input:

- a number that two gamepads share while there are more than four stays shared
  when one of them leaves; a pulled gamepad is not reported to the host, and
  `evdev_gamepads` is never decremented;
- a removed descriptor stays in the poll set; `evdev_rumble` walks an array that
  `realloc` may move (`evdev.c:727`): `raced` marks that, and the properties stop
  there;
- an overrun is never resynchronised; modifiers are kept per device, and with two
  shifts down the release of one ends the combination; quitting sends the key
  down without its release;
- the third and fourth hat write past `hats_state` and an axis with
  `2 * flat = max - min` divides by zero: excluded by `EvdevAssumption`;
- in an SDL window `main_thread_id` is never set, so that the end of a connection
  leaves the window open: `TerminatedEnds` is about the embedded platforms; a fifth
  gamepad shares the first slot; "auto" never reaches SDL when X11 is built in.

Video:

- on rk the error count of the frame thread is never reset: the fourth error ends
  the video (`RkVideo`); the mutex is destroyed before the frame thread is joined;
  a buffer may be given back while it is on the plane;
- a unit of 92 KiB or more is dropped on X11 and ends the program on SDL;
  the SDL counters are compared outside of the mutex, so that a drawn frame may be
  one older than the last: `NewestShown` is about rest; on X11 nothing keeps the
  decoder from the drawn frame once it is a ring ahead (`DrawnWhole` says so);
- on imx `MIN_FRAME_BUFFER_COUNT` ends with a semicolon in its definition, so that
  two buffers fewer are asked for than meant; the program exits when all buffers
  are under way, and a unit longer than the free space overwrites unread bytes
  (`overfull`).

### Fairness

The main thread goes on with a handler it has begun (weak fairness): it waits
for nobody in `Multisession`. Threads run (weak). A guest takes the shutdown
flag in the end if it is sent again and again (strong fairness on `SureSend`):
the `sure_sh` loop exists because a guest may ignore it, and has no other means.
A machine that is stopping halts (weak). A log-out or an answer that is sent
again and again arrives (strong): the timeout thread repeats the log-out in
every round, the startup thread its question every ten seconds. No fairness is
assumed of users, clients, the operator's choices or a guest's own halts.

In `Stream` the main thread goes on when it can (weak fairness on its own steps):
`loop_main` serves every descriptor that was found ready before it polls again,
the signalfd among them. In `Video` the two threads of rk and `rk_cleanup` run
(weak), as they wait for each other, the screen and a mutex that is held for
a moment only. Nothing is assumed of the decoder, the connection, the host, the
devices or the user. Assumed of libraries: `LiStopConnection` stops the
submitting thread before it calls a cleanup, and a reset decoder makes
`decode_get_frame` return.

## Proofs

`Users_proofs`, of `SessionPool` and, from `TimeoutCheckAssumption`, of `TimeoutCheck`:

- `PoolTypeCorrect` and `PoolSafe`, the latter from the former and the fact that a
  step keeps both.
- `OnlineAlwaysKept` and `FreshSessionAlwaysKept`, for any users, limit (of two at
  least) and number of log-ins, from `TimeoutInv`. The counter of somebody online is
  never more than the shifts that the list has cost, or one more, and then the next
  count finds an answer (`Heard`): the user is still to be asked, or the question or
  its answer is under way, or the count is over for this round (`CountOk`). Of a user
  whose place was never lost one log-out at most is under way, for the session there
  is, and the thread is not about to send another (`FreshOk`). That places
  shift by one when somebody comes or leaves is a count (`PlaceAfterJoin`,
  `PlaceAfterLeave`). An earlier form of both properties had no exceptions and held
  only because the run had too few log-ins; no invariant for all values gave them.

`Multisession_proofs`, from `MultisessionAssumption` alone:

- `TypeCorrect`, `LinksAlwaysAgree`, `UsedAlwaysReady`, from the inductive
  invariant `IInv == TypeOK /\ LinksAgree /\ UsedIsReady /\ MainOK`. No one of
  the parts is inductive alone. A new status starts unused, which keeps
  `LinksAgree` only because a domain without a status is in nobody's use
  (`UsedIsReady`); a new `User` object starts without links, which is right
  only because a user who is not logged in uses nothing (`UsedIsReady` again);
  the second half of a log-out drops a user without another look, which is
  right because `MainOK` remembers that the first half has left every domain.
- `NoneEverForgotten`: a machine without a status that runs has a thread; the
  steps that take a status away or end a thread are the cases.
- `AlwaysEnoughSessions`, from `CountInv`, which says in which half of which
  handler one session may be missing; `FirstGapFound` and the cardinality
  theorems of the library turn the scan's failure into a count.
- `PoolRefined`: `Multisession` implements `SessionPool`. Every action maps to
  `Offer`, `Withdraw`, `Acquire`, `Release` or a stutter; a log-out that
  leaves a session and withdraws another is two actions in the model, one of
  which touches the pool's `holder` and the other its `offered`.

With `PoolSafe`, nobody ever plays in two sessions, for any number of users,
sessions, hosts and threads, and with libvirt calls that fail.

`Hypervisor_proofs`, of `ServerClose` for any sets of domains and of `GamingPick` for any
number of sessions up to a hundred:

- `ClosedAlwaysDown` and `UsedAlwaysAsked`, from
  `CloseInv == TypeOK /\ Chased /\ Erasing /\ AfterWait /\ Asked`. A domain without
  a status is down, or a thread of it was ended by an error, or one is in the list of
  threads (`Chased`), which a step of `shutdown_name` keeps only because that holds of
  the domain it is about to take the status of by then (`Erasing`); `AfterWait` says
  that the list is empty once closed. A used domain has a thread of this `close()` only
  if the operator agreed (`Asked`); what else tells it to shut down is the thread left
  over, which the property names.
- `PickAlwaysFirstGap`, from `ScanInv`: the scan has met `0 .. i - 1` at the places
  `0 .. i - 1`. `ListOrder` says where the order of the names is that of the numbers,
  and `AtThePlace` that the session at place `i` is `i` or past the gap.

`GamingStartup_proofs`:

- `AlwaysOperational`, for any sessions, threads, answers under way and looks, from
  `StartupInv`: of a session that is listed and not astray nobody says "enough", neither
  an answer nor the slot, unless it has had enough since its status was put in the list
  (`SessionsOk`); a thread that has read its address in the slot finds there its own
  session's count or nothing, and one that has read its name in the list still has its
  session at that place (`ThreadOk`). Each of the three accidents breaks one of these, and
  nothing else does. The types rest on `pair_gaming_domain` having a look left while it
  reads the slot (`LooksCounted`).

`ClientSession_proofs`, for any users, sessions, threads and length of the queues,
from `ClientSessionAssumption`:

- `LoginAlwaysOwn`, `ServerAlwaysAgrees`, `NoSessionEverIdle` and `StreamAlwaysOwn`,
  from `ClientInv`. The code does not say which packet an answer belongs to, so that
  the invariant has to say which packets and answers may be under way. On the log-in
  screen (`LoginInv`) that is nothing but the log-out before it and one log-in, which
  is sent, accepted, refused or known. On the other screens (`StatusInv`) a session
  that is lent or asked for on the status screen is given back by a packet 4 that
  comes after every packet 3 (`GoesBack`); on the game screen the packet 3 is the
  last of its kind, or the address of the session is the last answer of its kind,
  or it is known, or an error is under way (`Comes`); and at most one thread is at
  work (`ThreadsInv`). A refused session is one that is not lent, with the error on its way
  or unheard (`Refused`), and an error that somebody hears is the answer to the
  thread that asked (`ErrorInv`): these two give `StreamOwn`. All of it holds as long as nothing went astray (`~stray`).

`Gamestream_proofs`, for any command lines, hosts, ids and number of runs, from
`GamestreamAssumption`, which says no more than that modes have three integers and that a
command line is a sequence:

- `OneClientEver`, `TrustNeedsKey`, `KeysAlwaysUsable`, `PairedAlwaysAgree` and
  `FailedPairAlwaysUndone`, from `GamestreamInv == FilesInv /\ ProcessInv /\ HostInv`:
  the files are written once, the certificate before its key; the process has what
  it read in them; the host has seen nobody but the one of the files, and nobody
  while they are incomplete. A killed run may leave a certificate without a key, for
  good. That the host never trusts such a client (`TrustNeedsKey`) is due to
  `sign_it` (`client.c:566`), which fails without a key: the first four requests of a
  pairing go over HTTP and need none. The proof attempt failed where the model had
  left that out.
- `PairAlwaysKeepsPairing`, from `KeepInv` besides: a client that was trusted from the
  start and asks to be paired is told so as long as nothing is lost. It rests on what
  the parsers of `xml.c` find in the documents of the host, whatever these hold.
- `SaveAlwaysRestores`, from `SavedInv`: when the save is over, the file is what
  `config_save` makes of the configuration that the run has, and that is a whole one
  (`ConfigShape`), whatever the files it was read from. What the next run makes of
  the file is shown for every configuration and every `moonlight.conf`, option by option
  and in the order of the lines (`Restored`).

The parsers are folds. A fold is shown to be the last of a sequence of results
(`FoldExists`), and what holds of all of them by the least number for which it would
not (`AllNumbers`, from the well-founded order of the numbers): the library's
induction theorems need an operator as a parameter, which the provers do not take.

`Stream_proofs`, for any machine, keys, buttons and number of gamepads, from the
assumptions of `Streaming`, `Evdev` and `WindowInput`. All of them need `DevicesInv`:
an open device is in the array once, wherever removals have moved it, and one that
is not open is not held and plays nothing.

- `QuitMeantAlways`, from `LeftInv`: the modifiers and buttons that the program
  remembers of a device are down on it or their release was lost, and a stream that
  is still there was not left.
- `NoGhostKeysEver`, from `KeysInv`: `NoGhostKeys` for the keyboards alone, since what
  a gamepad lets go of takes no key from the host.
- `AlwaysStoppable`, from `RumbleInv`: unless the array changed under `evdev_rumble`,
  the element it holds is of the array, and each element names just the effects that
  its device plays, but for the moment between the two calls of the thread.
- `NumbersAlwaysApart`, from `PadsInv` for `/dev/input` and `SlotsInv` for SDL. A
  number that is taken belongs to a gamepad in the array, and to one only; that a
  number is left for the next one is a count (`NumberLeft`), and it fails once there
  are more gamepads than numbers, which `crowded` remembers.
- `PadsAlwaysShown`, from `HeldInv == RestInv /\ FollowInv /\ ToldInv`, `DevicesInv` and
  `PadsInv`: what is not open was left at rest; every element has its gamepad as
  it is held, unless a report was lost; and the host has it as its element does,
  unless numbers were shared or the stream is being left. For the stick,
  `StickFollows` shows of any axis, place, dead zone and direction what
  `evdev_convert_value` does to it: the side of the middle within one step of the
  axis, and both ends exactly (`Scaled`: the division loses less than one step).
  `EvdevAssumption` asks of an axis that it is wider than its dead zone and has a
  place between its ends, and of a gamepad with a hat that no button is also a
  direction; on an axis of two places a stick at rest, of which the host has been
  told nothing, would be at an end.

`Video_proofs`, for any number of frames, buffers and bytes:

- `RkAlwaysInOrder`, from `RkInv`: the frame in the hands of the frame thread is
  later than the one left in `fb_id`, that one later than the one the display thread
  holds and than the plane, and what the display thread is about to show later than
  the plane, whatever wakes the threads.
- `DrawnAlwaysWhole` and `NewestAlwaysShown`, from `SoftwareInv`: a frame is in the ring
  at its number modulo the size, the pointers that are under way are those of the last
  frames in their order, and the mutex of SDL is held around decoding and drawing.
  Two frames in one place are a whole ring apart (`PlacesApart`).
- `BuffersAlwaysKept`, from `BuffersInv`: what `frame_handle` would skip next is what it
  has read; each step takes a buffer from one place and puts it in one other
  (`CountAppend`, `CountTail`).
- `StreamAlwaysWhole`, from `StreamInv`: a byte that was copied and is not overwritten is
  at its number modulo the size of the ring, also where an entry ends exactly at the
  end and the next one has no room left at all.

Model-checked only:

- liveness (`RemovedGoesDown`, `SilentLoggedOut`, `ShutdownSeen`, `StartupEnds`,
  `CloseEnds`, `TerminatedEnds`, `SignalEnds`, `RkLatestShown`): fairness is out of the
  prover's reach.

Every invariant and every action property of the passing runs is a theorem.

## Not modelled

The database (a lookup that succeeds or not), registration (`create_work_domain`
copies files and edits XML), the parsing of the configuration, logging and
listings, the start of the server before the main loop. Of the client, the
thread that redraws the status screen, and the curses toolkit but for the
change of screens and the flags of a button: the rest is drawing. The
encoding of packets is taken as faithful. Of the hazards met while modelling, those no
property covers are among the deviations above; among them the ones the models
leave out are the missing timeout thread of the server and undefined behaviour of the
input code.

Of moonlight-embedded: the cryptography of the pairing (keys are identities), the
files that configuration files name, two runs at once; the mouse's motion and
wheel, triggers, the second stick, key repeat, and the mapping of keys and
axes (`evdev_map`, `mapping.c`: a table read once); the renderers `pi.c`, `aml.c`,
`egl.c` and `ffmpeg_vaapi.c` and the audio outputs, which hand a buffer to a
library without a thread or state of their own; `sps.c`, which rewrites fields of
one header; a second change of resolution on rk, which aborts the program. What
is under `third_party` is vendored.

## Plan

Done: `SessionPool`, `Multisession`, their refinement and its proofs; the threads
that `Multisession` abstracts, in `TimeoutCheck`, `GamingStartup`, `GamingPick` and
`ServerClose`; the client, in `ClientSession`; the streaming client, in `Gamestream`,
`Stream` and `Video` with their parts; proofs of all safety properties of these.

Next models, in this order:

1. `GamingStartup` composed with the shutdown of the server.
2. The mapping of `evdev_map` and `mapping.c`.
3. The shells of server and client: two queues, two socket threads, the keyboard
   thread, and their exit.
4. The focus and click machine of the toolkit: `Button_box`, `Input_box`,
   `Keyboard_manipulation_component`, `wait_for_key`.
5. `pi.c` and `aml.c`, and the slave's main loop (`Program.cs`).

Next proofs:

1. That the threads which `Multisession` abstracts, in `GamingStartup` and `ServerClose`,
   implement its steps.
2. The parts of `Stream` that bound what `raced` excepts: which gamepad rumbles when a
   device goes in the middle of `evdev_rumble`.
