---------------------------- MODULE Video_proofs ----------------------------
(***************************************************************************)
(* What the renderers promise of the picture, for any number of frames,    *)
(* buffers and bytes.                                                      *)
(***************************************************************************)
EXTENDS Video, SequenceTheorems, FiniteSetTheorems, TLAPS

(* RkInOrder is not inductive: what the plane is given next is in the      *)
(* hands of the display thread, and before that in fb_id, and before that  *)
(* in the hands of the frame thread.  Each of them holds a later frame     *)
(* than those it will be put behind.                                       *)
RkTypes ==
    /\ rkFetched \in Nat /\ fb_id \in Nat /\ rkPlane \in Nat
    /\ rkFrame \in [pc : {"top", "get", "got", "eos", "done"}, frame : Nat, count : Nat]
    /\ rkDisplay \in [pc : {"top", "lock", "waiting", "woken", "show", "done"}, fb : Nat]

(* Nothing is anywhere that the decoder has not put out. *)
NoneAhead == fb_id <= rkFetched /\ rkPlane <= rkFetched /\ rkDisplay.fb <= rkFetched

GotIsLast ==
    rkFrame.pc = "got" =>
        /\ rkFrame.frame = rkFetched
        /\ fb_id < rkFetched /\ rkPlane < rkFetched /\ rkDisplay.fb < rkFetched

LeftIsLater == fb_id # 0 => fb_id > rkPlane /\ fb_id > rkDisplay.fb

ShownIsLater == rkDisplay.pc = "show" => rkDisplay.fb > rkPlane

RkInv == RkTypes /\ NoneAhead /\ GotIsLast /\ LeftIsLater /\ ShownIsLater

LEMMA RkInvInit == RkInit => RkInv
BY DEF RkInit, RkInv, RkTypes, NoneAhead, GotIsLast, LeftIsLater, ShownIsLater

(* A woken thread holds what it held.                                      *)
LEMMA WokenHolds ==
    ASSUME RkTypes
    PROVE  /\ Signalled \in [pc : {"top", "lock", "waiting", "woken", "show", "done"},
                             fb : Nat]
           /\ Signalled.fb = rkDisplay.fb
           /\ Signalled.pc = "show" <=> rkDisplay.pc = "show"
BY DEF RkTypes, Signalled

LEMMA RkInvStep == RkInv /\ [rkNext]_rkVars => RkInv'
<1> SUFFICES ASSUME RkInv, [rkNext]_rkVars
             PROVE  RkInv'
    OBVIOUS
<1> USE DEF RkInv, RkTypes, NoneAhead, GotIsLast, LeftIsLater, ShownIsLater
<1>1. CASE RkSubmit
    BY <1>1 DEF RkSubmit
<1>2. CASE FrameTop
    BY <1>2 DEF FrameTop, frameUnchanged
<1>3. CASE FrameGet
    <2> USE <1>3 DEF FrameGet, frameUnchanged
    <2>1. CASE rkFetched' = rkFetched + 1
        <3>1. rkFrame' = [rkFrame EXCEPT !.pc = "got", !.frame = rkFetched']
            BY <2>1
        <3>2. rkFrame'.pc = "got" /\ rkFrame'.frame = rkFetched' /\ rkFetched' \in Nat
            BY <2>1, <3>1
        <3>3. rkFrame' \in [pc : {"top", "get", "got", "eos", "done"},
                            frame : Nat, count : Nat]
            BY <3>1, <3>2
        <3>4. UNCHANGED <<fb_id, rkPlane, rkDisplay>>
            OBVIOUS
        <3>5. QED
            BY ONLY RkInv, <2>1, <3>2, <3>3, <3>4
    <2>2. CASE rkFetched' = rkFetched /\ rkFrame' = [rkFrame EXCEPT !.pc = "done"]
        BY <2>2
    <2>3. CASE /\ rkFetched' = rkFetched
               /\ rkFrame' = [rkFrame EXCEPT !.pc = "top", !.count = @ + 1]
        <3>1. rkFrame.count + 1 \in Nat
            OBVIOUS
        <3>2. /\ rkFrame'.pc = "top" /\ UNCHANGED <<fb_id, rkPlane, rkDisplay>>
              /\ rkFrame' \in [pc : {"top", "get", "got", "eos", "done"},
                               frame : Nat, count : Nat]
            BY <2>3, <3>1
        <3>3. QED
            BY ONLY RkInv, <2>3, <3>2
    <2>4. QED
        BY <2>1, <2>2, <2>3
<1>4. CASE InfoChange
    BY <1>4 DEF InfoChange, frameUnchanged
<1>5. CASE HandOver
    BY <1>5, WokenHolds DEF HandOver, frameUnchanged
<1>6. CASE FrameEos
    BY <1>6 DEF FrameEos, frameUnchanged
<1>7. CASE DisplayTop
    BY <1>7 DEF DisplayTop, displayUnchanged
<1>8. CASE DisplayTake
    BY <1>8 DEF DisplayTake, MustWait, Retake, displayUnchanged
<1>9. CASE SpuriousWake
    BY <1>9 DEF SpuriousWake, displayUnchanged
<1>10. CASE DisplayShow
    BY <1>10 DEF DisplayShow, Retake, displayUnchanged
<1>11. CASE CleanupFlag
    BY <1>11 DEF CleanupFlag, cleanupUnchanged
<1>12. CASE CleanupSignal
    BY <1>12, WokenHolds DEF CleanupSignal, cleanupUnchanged
<1>13. CASE CleanupJoinDisplay
    BY <1>13 DEF CleanupJoinDisplay, cleanupUnchanged
<1>14. CASE CleanupJoinFrame
    BY <1>14 DEF CleanupJoinFrame, cleanupUnchanged
<1>15. CASE UNCHANGED rkVars
    BY <1>15 DEF rkVars
<1>16. QED
    BY <1>1, <1>2, <1>3, <1>4, <1>5, <1>6, <1>7, <1>8, <1>9, <1>10, <1>11, <1>12,
       <1>13, <1>14, <1>15
    DEF rkNext, frame_thread, display_thread, rk_cleanup

(* Only DisplayShow touches the plane. *)
LEMMA RkStepInOrder ==
    RkInv /\ [rkNext]_rkVars => [rkPlane' > rkPlane]_rkPlane
<1> SUFFICES ASSUME RkInv, rkNext, rkPlane' # rkPlane
             PROVE  rkPlane' > rkPlane
    BY DEF rkVars
<1>1. DisplayShow
    BY DEF rkNext, frame_thread, display_thread, rk_cleanup, RkSubmit, FrameTop,
           FrameGet, InfoChange, HandOver, FrameEos, frameUnchanged, DisplayTop,
           DisplayTake, SpuriousWake, CleanupFlag, CleanupSignal, CleanupJoinDisplay,
           CleanupJoinFrame, cleanupUnchanged
<1>2. QED
    BY <1>1 DEF DisplayShow, RkInv, ShownIsLater

-----------------------------------------------------------------------------
(* Remainders.  The provers know them by a quotient only, so that each     *)
(* lemma names the quotients.                                              *)

LEMMA DivMod ==
    ASSUME NEW a \in Int, NEW c \in Nat \ {0}
    PROVE  /\ a \div c \in Int
           /\ a % c \in 0..(c - 1)
           /\ a = c * (a \div c) + (a % c)
<1>1. a \div c \in Int
    OBVIOUS
<1>2. a % c \in 0..(c - 1)
    OBVIOUS
<1>3. a = c * (a \div c) + (a % c)
    OBVIOUS
<1>4. QED
    BY <1>1, <1>2, <1>3

LEMMA Distributes ==
    ASSUME NEW c \in Int, NEW p \in Int, NEW q \in Int
    PROVE  /\ c * (p - q) = c * p - c * q
           /\ c * (p + q) = c * p + c * q
           /\ c * p \in Int /\ c * q \in Int
           /\ c * 0 = 0 /\ c * 1 = c
OBVIOUS

LEMMA LeastMultiple ==
    ASSUME NEW c \in Nat, NEW d \in Int, d > 0
    PROVE  c * d >= c
<1>1. c * (d - 1) >= 0
    OBVIOUS
<1>2. c * d = c * (d - 1) + c
    OBVIOUS
<1>3. QED
    BY <1>1, <1>2

LEMMA ModUnique ==
    ASSUME NEW c \in Nat \ {0}, NEW q \in Int, NEW r \in 0..(c - 1),
           NEW a \in Int, a = c * q + r
    PROVE  a % c = r
<1> DEFINE p == a \div c
<1>1. p \in Int /\ a % c \in 0..(c - 1) /\ a = c * p + (a % c)
    BY DivMod
<1> HIDE DEF p
<1>2. c * (p - q) = r - (a % c)
    BY <1>1
<1>3. c * (q - p) = (a % c) - r
    BY <1>1
<1>4. ~(p - q > 0)
    BY <1>1, <1>2, LeastMultiple
<1>5. ~(q - p > 0)
    BY <1>1, <1>3, LeastMultiple
<1>6. QED
    BY <1>1, <1>4, <1>5

LEMMA ModApart ==
    ASSUME NEW a \in Nat, NEW b \in Nat, NEW c \in Nat \ {0},
           a < b, a % c = b % c
    PROVE  b - a >= c
<1> DEFINE p == a \div c  q == b \div c
<1>1. p \in Int /\ a % c \in 0..(c - 1) /\ a = c * p + (a % c)
    BY DivMod
<1>2. q \in Int /\ b = c * q + (b % c)
    BY DivMod
<1> HIDE DEF p, q
<1>3. b - a = c * (q - p)
    BY <1>1, <1>2
<1>4. q - p > 0
    <2> SUFFICES ASSUME p - q >= 0 PROVE FALSE
        BY <1>1, <1>2
    <2>1. c * (p - q) >= 0
        BY <1>1, <1>2
    <2> QED
        BY <2>1, <1>1, <1>2
<1>5. QED
    BY <1>1, <1>2, <1>3, <1>4, LeastMultiple

LEMMA ModSmall ==
    ASSUME NEW c \in Nat \ {0}, NEW r \in 0..(c - 1)
    PROVE  r % c = r
<1>1. r = c * 0 + r /\ r \in Int
    BY Distributes
<1>2. QED
    BY <1>1, ModUnique

LEMMA ModLess ==
    ASSUME NEW c \in Nat \ {0}, NEW a \in Int, NEW b \in Int,
           b - a + (a % c) \in 0..(c - 1)
    PROVE  b % c = b - a + (a % c)
<1> DEFINE q == a \div c  r == b - a + (a % c)
<1>1. q \in Int /\ a % c \in 0..(c - 1) /\ a = c * q + (a % c)
    BY DivMod
<1> HIDE DEF q
<1>2. b = c * q + r
    BY <1>1
<1>3. r \in 0..(c - 1)
    OBVIOUS
<1> HIDE DEF r
<1>4. b % c = r
    BY <1>1, <1>2, <1>3, ModUnique
<1>5. QED
    BY <1>4 DEF r

LEMMA ModWrap ==
    ASSUME NEW c \in Nat \ {0}, NEW a \in Int, NEW b \in Int,
           b - a + (a % c) \in c..(2 * c - 1)
    PROVE  b % c = b - a + (a % c) - c
<1> DEFINE p == a \div c  q == p + 1  r == b - a + (a % c) - c
<1>1. p \in Int /\ a % c \in 0..(c - 1) /\ a = c * p + (a % c)
    BY DivMod
<1> HIDE DEF p
<1>2. c * q = c * p + c /\ q \in Int
    BY <1>1, Distributes
<1>3. r \in 0..(c - 1)
    BY <1>1
<1> HIDE DEF q
<1>4. b = c * q + r
    <2> DEFINE m == a % c  u == c * p  v == c * q
    <2>1. a = u + m /\ v = u + c /\ r = b - a + m - c /\ m \in Int /\ u \in Int
        BY <1>1, <1>2, Distributes
    <2> HIDE DEF m, u, v, r
    <2>2. b = v + r
        BY <2>1
    <2>3. QED
        BY <2>2 DEF v
<1> HIDE DEF r
<1>5. b % c = r
    BY <1>2, <1>3, <1>4, ModUnique
<1>6. QED
    BY <1>5 DEF r

-----------------------------------------------------------------------------
(* SoftwareVideo: the number of a frame tells its place in the ring, and   *)
(* the pointers that the main thread holds or will read are those of the   *)
(* last frames, in order.                                                  *)

Place(frame) == (frame - 1) % dec_frames_cnt

(* The frames the main thread was told of. *)
Told == IF decoder = "tell" THEN decoded - 1 ELSE decoded

Pointers == [place : Places, frame : Nat]

SoftwareTypes ==
    /\ system \in {"x11", "sdl"}
    /\ ready \in {"no", "yes", "gone"}
    /\ decoded \in Nat /\ shown \in Nat /\ sdlNextFrame \in Nat /\ sdlCurrentFrame \in Nat
    /\ dec_frames \in [Places -> Nat]
    /\ next_frame \in Places
    /\ decoder \in {"idle", "wait", "receive", "tell"}
    /\ channel \in Seq(Pointers)
    /\ lockedBy \in {"nobody", "decoder", "main"}
    /\ drawing \in [pc : {"idle", "wait", "draw"}, place : Places, frame : Nat]

(* SDL's mutex is held around the decoding and around the drawing. *)
Locked ==
    /\ lockedBy = "decoder" <=> system = "sdl" /\ decoder \in {"receive", "tell"}
    /\ lockedBy = "main" <=> system = "sdl" /\ drawing.pc = "draw"
    /\ decoder = "wait" \/ drawing.pc = "wait" => system = "sdl"

(* The ring holds the last frame, and the one before until the main thread *)
(* is told of the last.                                                    *)
Ring ==
    /\ next_frame = decoded % dec_frames_cnt /\ sdlNextFrame = decoded
    /\ \A p \in Places : dec_frames[p] <= decoded
    /\ decoder = "tell" =>
         decoded > 0 /\ \A p \in Places : dec_frames[p] = decoded => p = Place(decoded)
    /\ ready = "yes" => /\ decoded > 0 => dec_frames[Place(decoded)] = decoded
                        /\ decoder = "tell" /\ decoded > 1 =>
                             dec_frames[Place(decoded - 1)] = decoded - 1

(* The pointers that are under way are those of the last frames, in order. *)
InChannel ==
    /\ Len(channel) <= Told
    /\ \A i \in 1..Len(channel) :
         /\ channel[i].frame = Told - Len(channel) + i
         /\ channel[i].place = Place(channel[i].frame)
    /\ system = "sdl" => sdlCurrentFrame = Told - Len(channel)

Drawing ==
    drawing.pc # "idle" =>
        /\ drawing.frame \in 1..Told
        /\ drawing.place = Place(drawing.frame)
        /\ channel = <<>> => drawing.frame = Told

Resting ==
    /\ ready = "yes" /\ drawing.pc = "idle" /\ channel = <<>> => shown = Told
    /\ ready # "yes" => decoder = "idle" /\ drawing.pc = "idle"
    /\ ready = "no" => decoded = 0 /\ channel = <<>> /\ shown = 0

SoftwareInv ==
    SoftwareTypes /\ Locked /\ Ring /\ InChannel /\ Drawing /\ Resting

LEMMA PlaceIn ==
    ASSUME NEW f \in Nat \ {0}
    PROVE  Place(f) \in Places /\ f % dec_frames_cnt \in Places
BY DivMod, SoftwareAssumption DEF Place, Places

(* Two frames in one place are a whole ring apart. *)
LEMMA PlacesApart ==
    ASSUME NEW f \in Nat \ {0}, NEW g \in Nat \ {0}, f < g, Place(f) = Place(g)
    PROVE  g >= f + dec_frames_cnt
<1>1. f - 1 \in Nat /\ g - 1 \in Nat /\ f - 1 < g - 1 /\ dec_frames_cnt \in Nat \ {0}
    BY SoftwareAssumption
<1>2. (g - 1) - (f - 1) >= dec_frames_cnt
    BY <1>1, ModApart DEF Place
<1>3. QED
    BY <1>1, <1>2

LEMMA NextPlaceIs ==
    ASSUME NEW f \in Nat
    PROVE  /\ NextPlace(f % dec_frames_cnt) = (f + 1) % dec_frames_cnt
           /\ Place(f + 1) = f % dec_frames_cnt
<1>1. NextPlace(f % dec_frames_cnt) = (f + 1) % dec_frames_cnt
    <2> DEFINE c == dec_frames_cnt  r == f % c  g == f + 1
    <2>1. c \in Nat \ {0, 1} /\ r \in 0..(c - 1) /\ g \in Int /\ f \in Int
        BY DivMod, SoftwareAssumption
    <2> HIDE DEF c
    <2>2. CASE r + 1 < c
        <3>1. g - f + (f % c) = r + 1 /\ r + 1 \in 0..(c - 1)
            BY <2>1, <2>2
        <3> HIDE DEF g, r
        <3>2. g % c = r + 1
            BY <2>1, <3>1, ModLess
        <3>3. (r + 1) % c = r + 1
            BY <2>1, <2>2, ModSmall
        <3>4. QED
            BY <3>2, <3>3 DEF NextPlace, c, g, r
    <2>3. CASE r + 1 = c
        <3>1. g - f + (f % c) = c /\ c \in c..(2 * c - 1)
            BY <2>1, <2>3
        <3> HIDE DEF g, r
        <3>2. g % c = g - f + (f % c) - c
            BY <2>1, <3>1, ModWrap
        <3>3. g % c = 0
            BY <2>1, <3>1, <3>2
        <3>4. (r + 1) % c = 0
            BY <2>1, <2>3 DEF r
        <3>5. QED
            BY <3>3, <3>4 DEF NextPlace, c, g, r
    <2>4. QED
        BY <2>1, <2>2, <2>3
<1>2. (f + 1) - 1 = f
    OBVIOUS
<1>3. QED
    BY <1>1, <1>2 DEF Place

LEMMA SoftwareInvInit == SoftwareInit => SoftwareInv
<1> SUFFICES ASSUME SoftwareInit PROVE SoftwareInv
    OBVIOUS
<1> USE SoftwareAssumption DEF SoftwareInit, Places, NoDraw
<1>1. SoftwareTypes
    BY EmptySeq DEF SoftwareTypes, Pointers
<1>2. Ring
    BY DEF Ring
<1>3. InChannel
    <2>1. Len(channel) = 0
        BY EmptySeq
    <2>2. QED
        BY <2>1 DEF InChannel, Told
<1>4. QED
    BY <1>1, <1>2, <1>3 DEF SoftwareInv, Locked, Drawing, Resting, Told

LEMMA SetupKeeps == SoftwareInv /\ Setup => SoftwareInv'
<1> SUFFICES ASSUME SoftwareInv, Setup PROVE SoftwareInv'
    OBVIOUS
<1> QED
    BY DEF Setup, SoftwareInv, SoftwareTypes, Locked, Ring, InChannel, Drawing, Resting, Told

LEMMA SubmitKeeps == SoftwareInv /\ (Submit \/ SubmitLock) => SoftwareInv'
<1> SUFFICES ASSUME SoftwareInv, Submit \/ SubmitLock PROVE SoftwareInv'
    OBVIOUS
<1> USE DEF Submit, SubmitLock, Guarded, ringVars, SoftwareInv
<1>1. UNCHANGED <<Told, channel, decoded, dec_frames, next_frame, sdlNextFrame,
                  sdlCurrentFrame, drawing, system, ready, shown>>
    BY DEF Told, SoftwareTypes
<1>2. SoftwareTypes' /\ Locked'
    BY DEF SoftwareTypes, Locked
<1>3. Ring'
    BY <1>1 DEF Ring
<1>4. InChannel' /\ Drawing'
    BY <1>1 DEF InChannel, Drawing
<1>5. Resting'
    BY <1>1 DEF Resting, Locked
<1>6. QED
    BY <1>2, <1>3, <1>4, <1>5

(* A frame is put where the oldest was, and no other frame of that number  *)
(* is anywhere.                                                            *)
LEMMA ReceiveKeeps == SoftwareInv /\ Receive => SoftwareInv'
<1> SUFFICES ASSUME SoftwareInv, Receive PROVE SoftwareInv'
    OBVIOUS
<1> USE DEF SoftwareInv
<1>1. ready = "yes"
    BY DEF Receive, Resting
<1>2. next_frame = Place(decoded + 1) /\ decoded \in Nat
    BY NextPlaceIs DEF Ring, SoftwareTypes
<1>3. decoded > 0 => Place(decoded) \in Places /\ Place(decoded) # next_frame
    <2> SUFFICES ASSUME decoded > 0, Place(decoded) = Place(decoded + 1) PROVE FALSE
        BY <1>2, PlaceIn
    <2>1. decoded + 1 >= decoded + dec_frames_cnt
        BY <1>2, PlacesApart
    <2>2. QED
        BY <1>2, <2>1, SoftwareAssumption
<1>4. UNCHANGED <<Told, channel, sdlCurrentFrame, drawing, system, ready, shown>>
    BY <1>2 DEF Receive, Told
<1>5. InChannel' /\ Drawing'
    BY <1>4 DEF InChannel, Drawing
<1>6. Resting'
    BY <1>1, <1>4 DEF Resting
<1>7. CASE decoded' = decoded
    <2>1. /\ dec_frames' = [dec_frames EXCEPT ![next_frame] = 0]
          /\ decoder' = "idle" /\ Unlocked /\ UNCHANGED <<next_frame, sdlNextFrame>>
        BY <1>2, <1>7 DEF Receive
    <2>2. SoftwareTypes' /\ Locked'
        BY <1>4, <1>7, <2>1 DEF Receive, SoftwareTypes, Locked, Unlocked
    <2>3. Ring'
        BY <1>2, <1>3, <1>4, <1>7, <2>1 DEF Receive, Ring, SoftwareTypes
    <2>4. QED
        BY <1>5, <1>6, <2>2, <2>3
<1>8. CASE decoded' = decoded + 1
    <2>1. /\ dec_frames' = [dec_frames EXCEPT ![next_frame] = decoded + 1]
          /\ next_frame' = NextPlace(next_frame) /\ sdlNextFrame' = sdlNextFrame + 1
          /\ decoder' = "tell" /\ UNCHANGED lockedBy
        BY <1>2, <1>8 DEF Receive
    <2>2. next_frame' = decoded' % dec_frames_cnt /\ next_frame' \in Places
        BY <1>2, <1>8, <2>1, NextPlaceIs, PlaceIn DEF Ring
    <2>3. SoftwareTypes' /\ Locked'
        BY <1>2, <1>4, <1>8, <2>1, <2>2 DEF Receive, SoftwareTypes, Locked
    <2>4. Ring'
        BY <1>2, <1>3, <1>4, <1>8, <2>1, <2>2 DEF Receive, Ring, SoftwareTypes
    <2>5. QED
        BY <1>5, <1>6, <2>3, <2>4
<1>9. QED
    BY <1>7, <1>8 DEF Receive

LEMMA TellKeeps == SoftwareInv /\ Tell => SoftwareInv'
<1> SUFFICES ASSUME SoftwareInv, Tell PROVE SoftwareInv'
    OBVIOUS
<1> USE DEF SoftwareInv
<1> DEFINE pointer == [place |-> Place(decoded), frame |-> decoded]
<1>1. ready = "yes" /\ decoder = "tell" /\ decoded \in Nat \ {0}
    BY DEF Tell, Resting, Ring, SoftwareTypes
<1>2. PlaceOf(decoded) = Place(decoded)
    BY <1>1, PlaceIn DEF PlaceOf, Ring
<1>3. channel' = Append(channel, pointer) /\ pointer \in Pointers
    BY <1>1, <1>2, PlaceIn DEF Tell, Pointers
<1>4. Told' = decoded /\ Told = decoded - 1
    BY <1>1 DEF Tell, Told, ringVars
<1> HIDE DEF pointer
<1>5. /\ channel' \in Seq(Pointers) /\ channel' # <<>>
      /\ channel \in Seq(Pointers) /\ Len(channel) \in Nat
      /\ Len(channel') = Len(channel) + 1
      /\ \A i \in 1..Len(channel) : channel'[i] = channel[i]
      /\ channel'[Len(channel) + 1] = pointer
    BY <1>3, AppendProperties, LenProperties DEF SoftwareTypes
<1>6. SoftwareTypes' /\ Locked'
    BY <1>1, <1>5 DEF Tell, SoftwareTypes, Locked, Unlocked, ringVars
<1>7. Ring'
    BY <1>1 DEF Tell, Ring, ringVars
<1>8. InChannel'
    <2>1. ASSUME NEW i \in 1..Len(channel')
          PROVE  /\ channel'[i].frame = Told' - Len(channel') + i
                 /\ channel'[i].place = Place(channel'[i].frame)
        <3>1. CASE i \in 1..Len(channel)
            BY <1>1, <1>4, <1>5, <3>1 DEF InChannel
        <3>2. CASE i = Len(channel) + 1
            BY <1>1, <1>4, <1>5, <3>2 DEF pointer
        <3>3. QED
            BY <1>5, <3>1, <3>2
    <2>2. Len(channel') <= Told' /\ (system' = "sdl" => sdlCurrentFrame' = Told' - Len(channel'))
        BY <1>1, <1>4, <1>5 DEF Tell, InChannel
    <2>3. QED
        BY <2>1, <2>2 DEF InChannel
<1>9. Drawing' /\ Resting'
    BY <1>1, <1>4, <1>5 DEF Tell, Drawing, Resting, ringVars
<1>10. QED
    BY <1>6, <1>7, <1>8, <1>9

LEMMA FrameHandleKeeps == SoftwareInv /\ FrameHandle => SoftwareInv'
<1> SUFFICES ASSUME SoftwareInv, FrameHandle PROVE SoftwareInv'
    OBVIOUS
<1> USE DEF SoftwareInv
<1>1. /\ channel \in Seq(Pointers) /\ Len(channel) \in Nat \ {0}
      /\ Last(channel) = channel[Len(channel)] /\ Last(channel) \in Pointers
    BY EmptySeq, ElementOfSeq DEF FrameHandle, SoftwareTypes, Last
<1>2. UNCHANGED <<Told, decoded, dec_frames, next_frame, sdlNextFrame, decoder, ready,
                  system, sdlCurrentFrame, lockedBy, shown>>
    BY DEF FrameHandle, Told, ringVars
<1>3. channel' = <<>> /\ Len(channel') = 0 /\ channel' \in Seq(Pointers)
    BY EmptySeq DEF FrameHandle
<1>4. /\ drawing' = [pc |-> "draw", place |-> Last(channel).place,
                     frame |-> Last(channel).frame]
      /\ Last(channel).frame = Told /\ Last(channel).place = Place(Told)
      /\ Told \in Nat \ {0}
    BY <1>1 DEF FrameHandle, Chosen, InChannel, Told, SoftwareTypes
<1>5. SoftwareTypes' /\ Locked'
    BY <1>1, <1>2, <1>3, <1>4 DEF FrameHandle, SoftwareTypes, Locked, Pointers
<1>6. Ring' /\ InChannel'
    BY <1>2, <1>3, <1>4 DEF FrameHandle, Ring, InChannel
<1>7. Drawing' /\ Resting'
    BY <1>2, <1>3, <1>4 DEF FrameHandle, Drawing, Resting
<1>8. QED
    BY <1>5, <1>6, <1>7

LEMMA FrameEventKeeps == SoftwareInv /\ FrameEvent => SoftwareInv'
<1> SUFFICES ASSUME SoftwareInv, FrameEvent PROVE SoftwareInv'
    OBVIOUS
<1> USE DEF SoftwareInv
<1>1. /\ channel \in Seq(Pointers) /\ Len(channel) \in Nat \ {0}
      /\ Head(channel) = channel[1] /\ Head(channel) \in Pointers
      /\ channel' \in Seq(Pointers) /\ Len(channel') = Len(channel) - 1
      /\ \A i \in 1..Len(channel') : channel'[i] = channel[i + 1]
      /\ Len(channel') = 0 => channel' = <<>>
      /\ channel' = <<>> => Len(channel') = 0
    <2>1. channel \in Seq(Pointers) /\ channel # <<>> /\ channel' = Tail(channel)
        BY DEF FrameEvent, SoftwareTypes
    <2>2. Head(channel) = channel[1]
        BY <2>1
    <2>3. QED
        BY <2>1, <2>2, EmptySeq, HeadTailProperties
<1>2. UNCHANGED <<Told, decoded, dec_frames, next_frame, sdlNextFrame, decoder, ready,
                  system, lockedBy, shown>>
    BY DEF FrameEvent, Told, ringVars
<1>3. Told \in Nat /\ Told >= sdlNextFrame - 1 /\ sdlNextFrame \in Nat
    BY DEF SoftwareTypes, Ring, Told
<1>4. system = "sdl" /\ sdlCurrentFrame = Told - Len(channel) /\ Len(channel) <= Told
    BY DEF FrameEvent, InChannel
<1>5. /\ sdlCurrentFrame' = sdlCurrentFrame + 1
       /\ sdlCurrentFrame' = Told - Len(channel') /\ sdlCurrentFrame' \in 1..Told
    BY <1>1, <1>3, <1>4 DEF FrameEvent
<1>6. /\ Head(channel).frame = sdlCurrentFrame'
       /\ Head(channel).place = Place(sdlCurrentFrame')
    BY <1>1, <1>3, <1>4, <1>5 DEF InChannel
<1>7. channel' = <<>> => ~(sdlCurrentFrame' <= sdlNextFrame - dec_frames_cnt)
    <2> SUFFICES ASSUME channel' = <<>> PROVE ~(sdlCurrentFrame' <= sdlNextFrame - dec_frames_cnt)
        OBVIOUS
    <2>1. sdlCurrentFrame' = Told
        BY <1>1, <1>3, <1>5
    <2>2. sdlNextFrame - dec_frames_cnt < sdlNextFrame - 1
        BY <1>3, SoftwareAssumption
    <2>3. QED
        BY <1>3, <2>1, <2>2, SoftwareAssumption
<1>8. SoftwareTypes' /\ Locked'
    <2>1. drawing' \in [pc : {"idle", "wait"}, place : Places, frame : Nat]
        BY <1>1, SoftwareAssumption DEF FrameEvent, Pointers, NoDraw, Places
    <2>2. QED
        BY <1>1, <1>2, <1>5, <2>1 DEF FrameEvent, SoftwareTypes, Locked
<1>9. Ring' /\ InChannel'
    BY <1>1, <1>2, <1>3, <1>5, <1>6 DEF FrameEvent, Ring, InChannel
<1>10. Drawing' /\ Resting'
    BY <1>1, <1>2, <1>3, <1>5, <1>6, <1>7 DEF FrameEvent, Drawing, Resting, NoDraw
<1>11. QED
    BY <1>8, <1>9, <1>10

LEMMA DrawLockKeeps == SoftwareInv /\ DrawLock => SoftwareInv'
<1> SUFFICES ASSUME SoftwareInv, DrawLock PROVE SoftwareInv'
    OBVIOUS
<1> USE DEF SoftwareInv, DrawLock, ringVars
<1>1. UNCHANGED <<Told, channel>>
    BY DEF Told
<1>2. SoftwareTypes' /\ Locked'
    BY DEF SoftwareTypes, Locked
<1>3. Ring' /\ InChannel'
    BY <1>1 DEF Ring, InChannel
<1>4. Drawing' /\ Resting'
    BY <1>1 DEF Drawing, Resting, SoftwareTypes
<1>5. QED
    BY <1>2, <1>3, <1>4

LEMMA DrawKeeps == SoftwareInv /\ Draw => SoftwareInv'
<1> SUFFICES ASSUME SoftwareInv, Draw PROVE SoftwareInv'
    OBVIOUS
<1> USE DEF SoftwareInv, Draw, ringVars
<1>1. UNCHANGED <<Told, channel>>
    BY DEF Told
<1>2. SoftwareTypes' /\ Locked'
    BY SoftwareAssumption DEF SoftwareTypes, Locked, NoDraw, Places
<1>3. Ring' /\ InChannel'
    BY <1>1 DEF Ring, InChannel
<1>4. channel = <<>> => dec_frames[drawing.place] = Told /\ Told > 0
    BY DEF Drawing, Ring, Resting, Told, SoftwareTypes
<1>5. Drawing' /\ Resting'
    BY <1>1, <1>4 DEF Drawing, Resting, NoDraw
<1>6. QED
    BY <1>2, <1>3, <1>5

LEMMA CleanupKeeps == SoftwareInv /\ Cleanup => SoftwareInv'
<1> SUFFICES ASSUME SoftwareInv, Cleanup PROVE SoftwareInv'
    OBVIOUS
<1> USE DEF SoftwareInv, Cleanup
<1>1. UNCHANGED <<Told, channel>>
    BY DEF Told
<1>2. SoftwareTypes' /\ Locked'
    BY DEF SoftwareTypes, Locked
<1>3. Ring' /\ InChannel'
    BY <1>1 DEF Ring, InChannel, SoftwareTypes
<1>4. Drawing' /\ Resting'
    BY <1>1 DEF Drawing, Resting
<1>5. QED
    BY <1>2, <1>3, <1>4

LEMMA SoftwareInvStep == SoftwareInv /\ [softwareNext]_softwareVars => SoftwareInv'
<1> SUFFICES ASSUME SoftwareInv, [softwareNext]_softwareVars PROVE SoftwareInv'
    OBVIOUS
<1>1. CASE softwareNext
    BY <1>1, SetupKeeps, CleanupKeeps, SubmitKeeps, ReceiveKeeps, TellKeeps,
       FrameHandleKeeps, FrameEventKeeps, DrawLockKeeps, DrawKeeps DEF softwareNext
<1>2. CASE UNCHANGED softwareVars
    BY <1>2 DEF softwareVars, ringVars, SoftwareInv, SoftwareTypes, Locked, Ring,
                InChannel, Drawing, Resting, Told
<1>3. QED
    BY <1>1, <1>2

LEMMA SoftwareInvSafe == SoftwareInv => DrawnWhole /\ NewestShown
<1> SUFFICES ASSUME SoftwareInv PROVE DrawnWhole /\ NewestShown
    OBVIOUS
<1> USE DEF SoftwareInv
<1>1. DrawnWhole
    <2> SUFFICES ASSUME drawing.pc = "draw", decoder = "receive",
                        drawing.place = next_frame
                 PROVE  system = "x11" /\ decoded + 1 >= drawing.frame + dec_frames_cnt
        BY DEF DrawnWhole
    <2>1. system = "x11"
        BY DEF Locked, SoftwareTypes
    <2>2. /\ decoded \in Nat /\ drawing.frame \in 1..decoded
          /\ Place(drawing.frame) = Place(decoded + 1)
        BY NextPlaceIs DEF Drawing, Ring, Told, SoftwareTypes
    <2>3. QED
        BY <2>1, <2>2, PlacesApart
<1>2. NewestShown
    BY DEF NewestShown, Resting, Told
<1>3. QED
    BY <1>1, <1>2
-----------------------------------------------------------------------------
(* ImxVideo, the buffers: one that is taken out of a sequence or put at    *)
(* its end is counted once less, or once more.                             *)

LEMMA CountEmpty == \A b : Count(<<>>, b) = 0
<1>1. \A b : {i \in DOMAIN <<>> : <<>>[i] = b} = {}
    BY EmptySeq
<1>2. QED
    BY <1>1, FS_EmptySet DEF Count

LEMMA CountFinite ==
    ASSUME NEW T, NEW s \in Seq(T), NEW b
    PROVE  IsFiniteSet({i \in DOMAIN s : s[i] = b}) /\ Count(s, b) \in Nat
<1>1. DOMAIN s = 1..Len(s) /\ Len(s) \in Nat
    BY LenProperties
<1>2. IsFiniteSet(1..Len(s))
    BY <1>1, FS_Interval
<1>3. {i \in DOMAIN s : s[i] = b} \in SUBSET (1..Len(s))
    BY <1>1
<1>4. QED
    BY <1>2, <1>3, FS_Subset, FS_CardinalityType DEF Count

LEMMA CountAppend ==
    ASSUME NEW T, NEW s \in Seq(T), NEW x \in T, NEW b
    PROVE  Count(Append(s, x), b) = Count(s, b) + (IF x = b THEN 1 ELSE 0)
<1> DEFINE t == Append(s, x)  old == {i \in DOMAIN s : s[i] = b}
           new == {i \in DOMAIN t : t[i] = b}
<1>1. /\ Len(s) \in Nat /\ DOMAIN s = 1..Len(s) /\ DOMAIN t = 1..(Len(s) + 1)
      /\ \A i \in 1..Len(s) : t[i] = s[i]
      /\ t[Len(s) + 1] = x
    BY AppendProperties, LenProperties
<1>2. /\ IsFiniteSet(old) /\ Cardinality(old) = Count(s, b) /\ Count(s, b) \in Nat
      /\ Cardinality(new) = Count(t, b)
    BY CountFinite DEF Count
<1>3. Len(s) + 1 \notin old
    BY <1>1
<1> HIDE DEF t
<1>4. CASE x = b
    <2>1. new = old \cup {Len(s) + 1}
        BY <1>1, <1>4
    <2>2. Cardinality(new) = Cardinality(old) + 1
        BY <1>2, <1>3, <2>1, FS_AddElement
    <2> HIDE DEF old, new
    <2>3. QED
        BY <1>2, <1>4, <2>2 DEF t
<1>5. CASE x # b
    <2>1. new = old
        BY <1>1, <1>5
    <2> HIDE DEF old, new
    <2>2. QED
        BY <1>2, <1>5, <2>1 DEF t
<1>6. QED
    BY <1>4, <1>5

LEMMA CountTail ==
    ASSUME NEW T, NEW s \in Seq(T), s # <<>>, NEW b
    PROVE  Count(Tail(s), b) = Count(s, b) - (IF Head(s) = b THEN 1 ELSE 0)
<1> DEFINE t == Tail(s)  n == Len(s)
           new == {i \in DOMAIN t : t[i] = b}
           old == {i \in DOMAIN s : s[i] = b}
           later == {i \in 2..n : s[i] = b}
           shift == [i \in new |-> i + 1]
<1>1. /\ n \in Nat \ {0} /\ DOMAIN s = 1..n /\ t \in Seq(T) /\ DOMAIN t = 1..(n - 1)
      /\ \A i \in 1..(n - 1) : t[i] = s[i + 1]
      /\ Head(s) = s[1]
    <2>1. Head(s) = s[1]
        OBVIOUS
    <2>2. QED
        BY <2>1, HeadTailProperties, LenProperties, EmptySeq
<1>2. /\ IsFiniteSet(old) /\ Cardinality(old) = Count(s, b) /\ Count(s, b) \in Nat
      /\ IsFiniteSet(new) /\ Cardinality(new) = Count(t, b)
    BY <1>1, CountFinite DEF Count
<1> HIDE DEF t, n
<1>3. shift \in Bijection(new, later)
    <2>1. shift \in [new -> later]
        BY <1>1
    <2>2. \A i, j \in new : shift[i] = shift[j] => i = j
        BY <1>1
    <2>3. \A j \in later : \E i \in new : shift[i] = j
        <3> SUFFICES ASSUME NEW j \in later PROVE \E i \in new : shift[i] = j
            OBVIOUS
        <3>1. j - 1 \in new /\ shift[j - 1] = j
            BY <1>1
        <3>2. QED
            BY <3>1
    <2>4. QED
        BY <2>1, <2>2, <2>3 DEF Bijection, Injection, Surjection, IsInjective
<1>4. IsFiniteSet(later) /\ Cardinality(later) = Cardinality(new)
    <2> HIDE DEF shift, new, later
    <2>1. ExistsBijection(new, later)
        BY <1>3 DEF ExistsBijection
    <2>2. QED
        BY <1>2, <2>1, FS_Bijection
<1>5. CASE Head(s) = b
    <2>1. old = later \cup {1} /\ 1 \notin later
        BY <1>1, <1>5
    <2>2. Cardinality(old) = Cardinality(later) + 1
        BY <1>4, <2>1, FS_AddElement
    <2>3. Cardinality(later) \in Nat
        BY <1>4, FS_CardinalityType
    <2> HIDE DEF old, new, later
    <2>4. QED
        BY <1>2, <1>4, <1>5, <2>2, <2>3 DEF t
<1>6. CASE Head(s) # b
    <2>1. old = later
        BY <1>1, <1>6
    <2> HIDE DEF old, new, later
    <2>2. QED
        BY <1>2, <1>4, <1>6, <2>1 DEF t
<1>7. QED
    BY <1>5, <1>6

BufferTypes ==
    /\ free \subseteq Buffers
    /\ pipefd \in Seq(Buffers) /\ clearpipefd \in Seq(Buffers) /\ queued \in Seq(Buffers)
    /\ submitting \in {"idle", "clear", "take", "copy", "write"}
    /\ submitting = "write" => currentFrame \in Buffers
    /\ handling \in [pc : {"idle", "read", "dequeue"}, frame : Int, prevframe : Int]

(* What frame_handle has read is the frame it skips if another is read. *)
Frames ==
    /\ handling.pc = "read" => handling.frame \in Buffers
                               /\ handling.prevframe = handling.frame
    /\ handling.pc # "read" => handling.prevframe = -1
    /\ handling.pc = "dequeue" => Len(queued) = THRESHOLD + 1
    /\ handling.pc # "dequeue" => Len(queued) <= THRESHOLD

BuffersInv == BufferTypes /\ Frames /\ BuffersKept

LEMMA BuffersInvInit == ImxInit => BuffersInv
<1> SUFFICES ASSUME ImxInit PROVE BuffersInv
    OBVIOUS
<1> USE DEF ImxInit, AtRest
<1>1. BufferTypes
    BY EmptySeq DEF BufferTypes
<1>2. Len(queued) = 0
    BY EmptySeq
<1>3. Frames
    BY <1>2, ImxAssumption DEF Frames
<1>4. \A b \in Buffers :
        Count(pipefd, b) = 0 /\ Count(clearpipefd, b) = 0 /\ Count(queued, b) = 0
    BY CountEmpty
<1>5. BuffersKept
    BY <1>2, <1>4, ImxAssumption DEF BuffersKept
<1>6. QED
    BY <1>1, <1>3, <1>5 DEF BuffersInv

LEMMA CountsNatural ==
    ASSUME BufferTypes, NEW b \in Buffers
    PROVE  /\ Count(pipefd, b) \in Nat /\ Count(clearpipefd, b) \in Nat
           /\ Count(queued, b) \in Nat
<1>1. Count(pipefd, b) \in Nat
    BY CountFinite DEF BufferTypes
<1>2. Count(clearpipefd, b) \in Nat
    BY CountFinite DEF BufferTypes
<1>3. Count(queued, b) \in Nat
    BY CountFinite DEF BufferTypes
<1>4. QED
    BY <1>1, <1>2, <1>3

Is(x, b) == IF x = b THEN 1 ELSE 0
Free(b) == IF b \in free THEN 1 ELSE 0
Writing(b) == IF submitting = "write" THEN Is(currentFrame, b) ELSE 0
Read(b) == IF handling.pc = "read" THEN Is(handling.frame, b) ELSE 0

OnePlace(b) ==
    Count(pipefd, b) + Count(clearpipefd, b) + Count(queued, b)
      + Free(b) + Writing(b) + Read(b) = 1

EachOnce ==
    /\ \A b \in Buffers : OnePlace(b)
    /\ handling.pc # "dequeue" => Len(queued) <= THRESHOLD

LEMMA Kept == BuffersKept <=> EachOnce
<1>1. \A b : /\ Writing(b) = (IF submitting = "write" /\ currentFrame = b THEN 1 ELSE 0)
             /\ Read(b) = (IF handling.pc = "read" /\ handling.frame = b THEN 1 ELSE 0)
    BY DEF Writing, Read, Is
<1>2. QED
    BY <1>1 DEF BuffersKept, EachOnce, OnePlace, Free

LEMMA Summands ==
    ASSUME BuffersInv, NEW b \in Buffers
    PROVE  /\ Count(pipefd, b) \in Nat /\ Count(clearpipefd, b) \in Nat
           /\ Count(queued, b) \in Nat
           /\ Free(b) \in Nat /\ Writing(b) \in Nat /\ Read(b) \in Nat
           /\ \A x : Is(x, b) \in Nat
           /\ Count(pipefd, b) + Count(clearpipefd, b) + Count(queued, b)
                + Free(b) + Writing(b) + Read(b) = 1
<1>1. OnePlace(b)
    BY Kept DEF BuffersInv, EachOnce
<1>2. /\ Free(b) \in Nat /\ Writing(b) \in Nat /\ Read(b) \in Nat
      /\ \A x : Is(x, b) \in Nat
    BY DEF Free, Writing, Read, Is
<1>3. QED
    BY <1>1, <1>2, CountsNatural DEF BuffersInv, OnePlace

(* The actions of the stream's thread. *)
LEMMA SubmittingKeepsBuffers ==
    BuffersInv /\ (BeginUnit \/ TakeUnit \/ CopyEntry \/ vpu_clear \/ vpu_decode \/ WriteFrame)
      => BuffersInv'
<1> SUFFICES ASSUME BuffersInv,
                    BeginUnit \/ TakeUnit \/ CopyEntry \/ vpu_clear \/ vpu_decode \/ WriteFrame
             PROVE  BuffersInv'
    OBVIOUS
<1>1. CASE BeginUnit \/ TakeUnit \/ CopyEntry
    BY <1>1 DEF BeginUnit, TakeUnit, CopyEntry, bufferVars, BuffersInv, BufferTypes, Frames,
                BuffersKept
<1>2. CASE vpu_clear
    <2>1. CASE clearpipefd = <<>>
        BY <1>2, <2>1 DEF vpu_clear, submitUnchanged, BuffersInv, BufferTypes, Frames,
                          BuffersKept
    <2>2. CASE clearpipefd # <<>>
        <3> DEFINE back == Head(clearpipefd)
        <3>1. /\ clearpipefd \in Seq(Buffers) /\ clearpipefd' = Tail(clearpipefd)
              /\ submitting = "clear" /\ submitting' = "clear" /\ free' = free \cup {back}
              /\ UNCHANGED <<pipefd, queued, handling, currentFrame>>
            BY <1>2, <2>2 DEF vpu_clear, submitUnchanged, BuffersInv, BufferTypes
        <3>2. back \in Buffers /\ clearpipefd' \in Seq(Buffers)
            BY <2>2, <3>1, HeadTailProperties
        <3> HIDE DEF back
        <3>3. BufferTypes' /\ Frames'
            BY <3>1, <3>2 DEF BuffersInv, BufferTypes, Frames
        <3>4. ASSUME NEW b \in Buffers PROVE OnePlace(b)'
            <4>1. Count(clearpipefd', b) = Count(clearpipefd, b) - Is(back, b)
                BY <2>2, <3>1, CountTail DEF back, Is
            <4>2. Count(clearpipefd', b) \in Nat
                BY <3>2, CountFinite
            <4>3. Free(b)' = Free(b) + Is(back, b)
                <5>1. CASE back = b /\ b \in free
                    <6>1. Is(back, b) = 1 /\ Free(b) = 1
                        BY <5>1 DEF Is, Free
                    <6>2. Count(clearpipefd, b) >= 1
                        BY <4>1, <4>2, <6>1, Summands
                    <6>3. QED
                        BY <6>1, <6>2, Summands
                <5>2. CASE ~(back = b /\ b \in free)
                    BY <3>1, <5>2 DEF Free, Is
                <5>3. QED
                    BY <5>1, <5>2
            <4>4. Writing(b)' = Writing(b) /\ Read(b)' = Read(b)
                BY <3>1 DEF Writing, Read
            <4>5. Count(pipefd', b) = Count(pipefd, b) /\ Count(queued', b) = Count(queued, b)
                BY <3>1
            <4>6. QED
                BY <4>1, <4>3, <4>4, <4>5, Summands DEF OnePlace
        <3>5. BuffersKept'
            <4>1. EachOnce'
                BY <3>1, <3>3, <3>4 DEF Frames, EachOnce
            <4>2. QED
                BY <4>1, Kept, PTL
        <3>6. QED
            BY <3>3, <3>5 DEF BuffersInv
    <2>3. QED
        BY <2>1, <2>2
<1>3. CASE vpu_decode
    <2>1. UNCHANGED <<pipefd, clearpipefd, queued, handling>> /\ submitting = "copy"
        BY <1>3 DEF vpu_decode, submitUnchanged
    <2>2. CASE submitting' = "idle" /\ UNCHANGED free
        BY <2>1, <2>2 DEF BuffersInv, BufferTypes, Frames, BuffersKept
    <2>3. CASE /\ submitting' = "write" /\ currentFrame' \in free
               /\ free' = free \ {currentFrame'}
        <3>1. BufferTypes' /\ Frames'
            BY <2>1, <2>3 DEF BuffersInv, BufferTypes, Frames
        <3>2. \A b \in Buffers : Count(pipefd, b) + Count(clearpipefd, b) + Count(queued, b)
                                   \in Nat
            BY CountsNatural DEF BuffersInv
        <3>3. BuffersKept'
            BY <2>1, <2>3, <3>2 DEF BuffersInv, BuffersKept
        <3>4. QED
            BY <3>1, <3>3 DEF BuffersInv
    <2>4. QED
        BY <1>3, <2>2, <2>3 DEF vpu_decode
<1>4. CASE WriteFrame
    <2>1. /\ submitting = "write" /\ submitting' = "idle" /\ currentFrame \in Buffers
          /\ pipefd \in Seq(Buffers) /\ pipefd' = Append(pipefd, currentFrame)
          /\ UNCHANGED <<free, clearpipefd, queued, currentFrame, handling>>
        BY <1>4 DEF WriteFrame, BuffersInv, BufferTypes
    <2>2. pipefd' \in Seq(Buffers)
        BY <2>1, AppendProperties
    <2>3. BufferTypes' /\ Frames'
        BY <2>1, <2>2 DEF BuffersInv, BufferTypes, Frames
    <2>4. ASSUME NEW b \in Buffers PROVE OnePlace(b)'
        <3>1. Count(pipefd', b) = Count(pipefd, b) + Is(currentFrame, b)
            BY <2>1, CountAppend DEF Is
        <3>2. Writing(b) = Is(currentFrame, b) /\ Writing(b)' = 0
            BY <2>1 DEF Writing
        <3>3. Free(b)' = Free(b) /\ Read(b)' = Read(b)
            BY <2>1 DEF Free, Read
        <3>4. /\ Count(clearpipefd', b) = Count(clearpipefd, b)
              /\ Count(queued', b) = Count(queued, b)
            BY <2>1
        <3>5. QED
            BY <3>1, <3>2, <3>3, <3>4, Summands DEF OnePlace
    <2>5. BuffersKept'
        <3>1. EachOnce'
            BY <2>3, <2>4 DEF Frames, EachOnce
        <3>2. QED
            BY <3>1, Kept, PTL
    <2>6. QED
        BY <2>3, <2>5 DEF BuffersInv
<1>5. QED
    BY <1>1, <1>2, <1>3, <1>4

LEMMA SkippedBack ==
    ASSUME NEW s \in Seq(Buffers), NEW prev \in Int, prev \in Buffers \/ prev = -1,
           NEW b \in Buffers
    PROVE  /\ s \o Skipped(prev) \in Seq(Buffers)
           /\ Count(s \o Skipped(prev), b) = Count(s, b) + Is(prev, b)
<1>1. CASE prev \in Buffers
    <2>1. s \o Skipped(prev) = Append(s, prev)
        BY <1>1, ImxAssumption, AppendIsConcat DEF Skipped
    <2>2. QED
        BY <1>1, <2>1, AppendProperties, CountAppend DEF Is
<1>2. CASE prev = -1
    <2>1. s \o Skipped(prev) = s
        BY <1>2, ConcatEmptySeq DEF Skipped
    <2>2. Count(s, b) \in Nat
        BY CountFinite
    <2>3. Is(prev, b) = 0
        BY <1>2, ImxAssumption DEF Is
    <2>4. QED
        BY <2>1, <2>2, <2>3
<1>3. QED
    BY <1>1, <1>2

(* The actions of frame_handle. *)
LEMMA HandlingKeepsBuffers ==
    BuffersInv /\ (ReadFrame \/ QueueFrame \/ DequeueFrame) => BuffersInv'
<1> SUFFICES ASSUME BuffersInv, ReadFrame \/ QueueFrame \/ DequeueFrame
             PROVE  BuffersInv'
    OBVIOUS
<1>1. /\ pipefd \in Seq(Buffers) /\ clearpipefd \in Seq(Buffers) /\ queued \in Seq(Buffers)
      /\ THRESHOLD \in Nat /\ Buffers \subseteq Nat
    BY ImxAssumption DEF BuffersInv, BufferTypes
<1>2. ASSUME NEW b \in Buffers, UNCHANGED <<free, submitting, currentFrame>>
      PROVE  Free(b)' = Free(b) /\ Writing(b)' = Writing(b)
    BY <1>2 DEF Free, Writing
<1>3. CASE ReadFrame
    <2> DEFINE read == Head(pipefd)
    <2>1. /\ pipefd # <<>> /\ pipefd' = Tail(pipefd) /\ handling.pc \in {"idle", "read"}
          /\ handling' = [pc |-> "read", frame |-> read, prevframe |-> read]
          /\ clearpipefd' = clearpipefd \o Skipped(handling.prevframe)
          /\ UNCHANGED <<free, queued, currentFrame, submitting>>
        BY <1>3 DEF ReadFrame, handleUnchanged
    <2>2. read \in Buffers /\ pipefd' \in Seq(Buffers)
        BY <1>1, <2>1, HeadTailProperties
    <2>3. ASSUME NEW b \in Buffers
          PROVE  Count(pipefd', b) = Count(pipefd, b) - Is(read, b)
        BY <1>1, <2>1, CountTail DEF Is
    <2> HIDE DEF read
    <2>4. /\ handling.prevframe \in Int
          /\ handling.prevframe \in Buffers \/ handling.prevframe = -1
          /\ \A b \in Buffers : Read(b) = Is(handling.prevframe, b)
        BY <1>1 DEF BuffersInv, BufferTypes, Frames, Read, Is
    <2>5. clearpipefd' \in Seq(Buffers)
        BY <1>1, <2>1, <2>2, <2>4, SkippedBack
    <2>6. ASSUME NEW b \in Buffers
          PROVE  Count(clearpipefd', b) = Count(clearpipefd, b) + Read(b)
        BY <1>1, <2>1, <2>4, SkippedBack
    <2>7. BufferTypes' /\ Frames'
        BY <1>1, <2>1, <2>2, <2>5 DEF BuffersInv, BufferTypes, Frames
    <2>8. ASSUME NEW b \in Buffers PROVE OnePlace(b)'
        <3>1. Read(b)' = Is(read, b)
            BY <2>1 DEF Read
        <3>2. Count(queued', b) = Count(queued, b)
            BY <2>1
        <3>3. Free(b)' = Free(b) /\ Writing(b)' = Writing(b)
            BY <1>2, <2>1
        <3>4. /\ Count(pipefd', b) = Count(pipefd, b) - Is(read, b)
              /\ Count(clearpipefd', b) = Count(clearpipefd, b) + Read(b)
            BY <2>3, <2>6
        <3>5. /\ Count(pipefd, b) \in Nat /\ Count(clearpipefd, b) \in Nat
              /\ Count(queued, b) \in Nat
              /\ Free(b) \in Nat /\ Writing(b) \in Nat /\ Read(b) \in Nat
              /\ \A x : Is(x, b) \in Nat
              /\ Count(pipefd, b) + Count(clearpipefd, b) + Count(queued, b)
                   + Free(b) + Writing(b) + Read(b) = 1
            BY Summands
        <3>6. QED
            BY <3>1, <3>2, <3>3, <3>4, <3>5 DEF OnePlace
    <2>9. BuffersKept'
        <3>1. EachOnce'
            BY <2>1, <2>7, <2>8 DEF Frames, EachOnce
        <3>2. QED
            BY <3>1, Kept, PTL
    <2>10. QED
        BY <2>7, <2>9 DEF BuffersInv
<1>4. CASE QueueFrame
    <2>1. /\ handling.pc = "read" /\ queued' = Append(queued, handling.frame)
          /\ handling.frame \in Buffers
          /\ handling' = IF Len(queued') > THRESHOLD THEN [AtRest EXCEPT !.pc = "dequeue"]
                                                     ELSE AtRest
          /\ UNCHANGED <<free, pipefd, clearpipefd, currentFrame, submitting>>
        BY <1>4 DEF QueueFrame, handleUnchanged, BuffersInv, Frames
    <2>2. queued' \in Seq(Buffers) /\ Len(queued') = Len(queued) + 1 /\ Len(queued) \in Nat
        BY <1>1, <2>1, AppendProperties, LenProperties
    <2>3. BufferTypes' /\ Frames'
        BY <1>1, <2>1, <2>2 DEF BuffersInv, BufferTypes, Frames, AtRest
    <2>4. ASSUME NEW b \in Buffers PROVE OnePlace(b)'
        <3>1. Count(queued', b) = Count(queued, b) + Is(handling.frame, b)
            BY <1>1, <2>1, CountAppend DEF Is
        <3>2. Read(b) = Is(handling.frame, b) /\ Read(b)' = 0
            BY <2>1 DEF Read, AtRest
        <3>3. /\ Count(pipefd', b) = Count(pipefd, b)
              /\ Count(clearpipefd', b) = Count(clearpipefd, b)
            BY <2>1
        <3>4. Free(b)' = Free(b) /\ Writing(b)' = Writing(b)
            BY <1>2, <2>1
        <3>5. /\ Count(pipefd, b) \in Nat /\ Count(clearpipefd, b) \in Nat
              /\ Count(queued, b) \in Nat
              /\ Free(b) \in Nat /\ Writing(b) \in Nat /\ Read(b) \in Nat
              /\ \A x : Is(x, b) \in Nat
              /\ Count(pipefd, b) + Count(clearpipefd, b) + Count(queued, b)
                   + Free(b) + Writing(b) + Read(b) = 1
            BY Summands
        <3>6. QED
            BY <3>1, <3>2, <3>3, <3>4, <3>5 DEF OnePlace
    <2>5. BuffersKept'
        <3>1. EachOnce'
            BY <2>3, <2>4 DEF Frames, EachOnce
        <3>2. QED
            BY <3>1, Kept, PTL
    <2>6. QED
        BY <2>3, <2>5 DEF BuffersInv
<1>5. CASE DequeueFrame
    <2> DEFINE done == Head(queued)
    <2>1. /\ handling.pc = "dequeue" /\ handling' = AtRest
          /\ clearpipefd' = Append(clearpipefd, done) /\ queued' = Tail(queued)
          /\ UNCHANGED <<free, pipefd, currentFrame, submitting>>
        BY <1>5 DEF DequeueFrame, handleUnchanged
    <2>2. queued # <<>> /\ Len(queued) = THRESHOLD + 1
        BY <1>1, <2>1, EmptySeq DEF BuffersInv, Frames
    <2>3. done \in Buffers /\ queued' \in Seq(Buffers) /\ Len(queued') = THRESHOLD
        BY <1>1, <2>1, <2>2, HeadTailProperties
    <2>4. clearpipefd' \in Seq(Buffers)
        BY <1>1, <2>1, <2>3, AppendProperties
    <2>5. BufferTypes' /\ Frames'
        BY <1>1, <2>1, <2>3, <2>4 DEF BuffersInv, BufferTypes, Frames, AtRest
    <2>6. ASSUME NEW b \in Buffers PROVE OnePlace(b)'
        <3>1. Count(queued', b) = Count(queued, b) - Is(done, b)
            BY <1>1, <2>1, <2>2, CountTail DEF Is
        <3> HIDE DEF done
        <3>2. Count(clearpipefd', b) = Count(clearpipefd, b) + Is(done, b)
            BY <1>1, <2>1, <2>3, CountAppend DEF Is
        <3>3. Read(b) = 0 /\ Read(b)' = 0
            BY <2>1 DEF Read, AtRest
        <3>4. Count(pipefd', b) = Count(pipefd, b)
            BY <2>1
        <3>5. Free(b)' = Free(b) /\ Writing(b)' = Writing(b)
            BY <1>2, <2>1
        <3>6. /\ Count(pipefd, b) \in Nat /\ Count(clearpipefd, b) \in Nat
              /\ Count(queued, b) \in Nat
              /\ Free(b) \in Nat /\ Writing(b) \in Nat /\ Read(b) \in Nat
              /\ \A x : Is(x, b) \in Nat
              /\ Count(pipefd, b) + Count(clearpipefd, b) + Count(queued, b)
                   + Free(b) + Writing(b) + Read(b) = 1
            BY Summands
        <3>7. QED
            BY <3>1, <3>2, <3>3, <3>4, <3>5, <3>6 DEF OnePlace
    <2>7. BuffersKept'
        <3>1. EachOnce'
            BY <2>5, <2>6 DEF Frames, EachOnce
        <3>2. QED
            BY <3>1, Kept, PTL
    <2>8. QED
        BY <2>5, <2>7 DEF BuffersInv
<1>6. QED
    BY <1>3, <1>4, <1>5

LEMMA BuffersInvStep == BuffersInv /\ [imxNext]_imxVars => BuffersInv'
<1> SUFFICES ASSUME BuffersInv, [imxNext]_imxVars PROVE BuffersInv'
    OBVIOUS
<1>1. CASE imxNext
    BY <1>1, SubmittingKeepsBuffers, HandlingKeepsBuffers DEF imxNext
<1>2. CASE UNCHANGED imxVars
    BY <1>2 DEF imxVars, bufferVars, BuffersInv, BufferTypes, Frames, BuffersKept
<1>3. QED
    BY <1>1, <1>2

-----------------------------------------------------------------------------
(* ImxVideo, the stream: wherever an entry is cut, a byte comes to be at   *)
(* its number in the stream modulo the size of the ring.                   *)

(* The first byte that the decoder has not read, and the bytes of the      *)
(* stream that are in the ring or were.                                    *)
First == byte - Unread
Copied == IF submitting = "copy" THEN copying.byte ELSE byte

StreamTypes ==
    /\ ring \in [Addresses -> Int] /\ read_ptr \in Addresses /\ byte \in Nat
    /\ copying.entries \in Seq(1..STREAM_BUF_SIZE)
    /\ copying.target \in 0..STREAM_BUF_SIZE /\ copying.byte \in Nat
    /\ overfull \in BOOLEAN

(* Each byte is at its number modulo the size of the ring, also where an   *)
(* entry ends at the end of the ring and the next one has no room left.    *)
InPlace ==
    /\ write_ptr = byte % STREAM_BUF_SIZE
    /\ submitting = "copy" =>
         /\ copying.byte >= byte
         /\ copying.target % STREAM_BUF_SIZE = copying.byte % STREAM_BUF_SIZE
    /\ ~overfull =>
         /\ First >= 0 /\ First % STREAM_BUF_SIZE = read_ptr
         /\ Copied - First < STREAM_BUF_SIZE
         /\ \A f \in First..(Copied - 1) : ring[f % STREAM_BUF_SIZE] = f

StreamInv == StreamTypes /\ InPlace

LEMMA UnreadIn ==
    ASSUME StreamInv
    PROVE  Unread \in 0..(STREAM_BUF_SIZE - 1) /\ First \in Int /\ write_ptr \in Addresses
<1>1. write_ptr \in Addresses
    <2>1. byte \in Int /\ STREAM_BUF_SIZE \in Nat \ {0} /\ write_ptr = byte % STREAM_BUF_SIZE
        BY ImxAssumption DEF StreamInv, StreamTypes, InPlace
    <2>2. QED
        BY <2>1, DivMod DEF Addresses
<1>2. write_ptr - read_ptr \in Int /\ STREAM_BUF_SIZE \in Nat \ {0}
    BY <1>1, ImxAssumption DEF StreamInv, StreamTypes, Addresses
<1>3. Unread \in 0..(STREAM_BUF_SIZE - 1)
    BY <1>2, DivMod DEF Unread
<1>4. QED
    BY <1>1, <1>3, ImxAssumption DEF First, StreamInv, StreamTypes

LEMMA StreamInvInit == ImxInit => StreamInv
<1> SUFFICES ASSUME ImxInit PROVE StreamInv
    OBVIOUS
<1> USE ImxAssumption DEF ImxInit, NoCopy
<1>1. 0 % STREAM_BUF_SIZE = 0
    BY ModSmall
<1>2. 0 \in Addresses /\ 0 - 0 = 0
    BY DEF Addresses
<1>3. Unread = 0
    BY <1>1, <1>2 DEF Unread
<1>4. First = 0 /\ Copied = 0
    BY <1>3 DEF First, Copied
<1>5. StreamTypes
    BY <1>2, EmptySeq DEF StreamTypes
<1>6. InPlace
    BY <1>1, <1>4 DEF InPlace
<1>7. QED
    BY <1>5, <1>6 DEF StreamInv

(* Where the bytes of an entry come to be. *)
LEMMA EntryPlaces ==
    ASSUME NEW target \in 0..STREAM_BUF_SIZE, NEW g \in Nat, NEW j \in Nat,
           j < STREAM_BUF_SIZE, target % STREAM_BUF_SIZE = g % STREAM_BUF_SIZE
    PROVE  (g + j) % STREAM_BUF_SIZE
             = IF target + j < STREAM_BUF_SIZE THEN target + j ELSE target + j - STREAM_BUF_SIZE
<1> DEFINE S == STREAM_BUF_SIZE  b == g + j  r == g % S
<1>1. S \in Nat \ {0} /\ r \in 0..(S - 1)
    BY DivMod, ImxAssumption
<1>2. r = target \/ (target = S /\ r = 0)
    <2>1. CASE target < S
        <3>1. target % S = target
            BY <1>1, <2>1, ModSmall
        <3>2. QED
            BY <3>1
    <2>2. CASE target = S
        BY <1>1, <2>2
    <2>3. QED
        BY <1>1, <2>1, <2>2
<1>3. b - g + (g % S) = r + j /\ b \in Int /\ g \in Int
    BY <1>1
<1>4. CASE r + j < S
    <2>1. b - g + (g % S) \in 0..(S - 1)
        BY <1>1, <1>3, <1>4
    <2> HIDE DEF b, S
    <2>2. b % S = b - g + (g % S)
        BY <1>1, <1>3, <2>1, ModLess
    <2>3. QED
        BY <1>1, <1>2, <1>3, <1>4, <2>2 DEF b, S
<1>5. CASE r + j >= S
    <2>1. b - g + (g % S) \in S..(2 * S - 1)
        BY <1>1, <1>3, <1>5
    <2> HIDE DEF b, S
    <2>2. b % S = b - g + (g % S) - S
        BY <1>1, <1>3, <2>1, ModWrap
    <2>3. QED
        BY <1>1, <1>2, <1>3, <1>5, <2>2 DEF b, S
<1>6. QED
    BY <1>1, <1>4, <1>5

AfterEntry(target, g, length) ==
    IF target + length > STREAM_BUF_SIZE
    THEN memcpy(memcpy(ring, target, g, STREAM_BUF_SIZE - target),
                0, g + (STREAM_BUF_SIZE - target), length - (STREAM_BUF_SIZE - target))
    ELSE memcpy(ring, target, g, length)

(* The bytes of the entry are put in their places, and no other is.        *)
LEMMA EntryCopied ==
    ASSUME ring \in [Addresses -> Int], NEW target \in 0..STREAM_BUF_SIZE, NEW g \in Nat,
           NEW length \in 1..(STREAM_BUF_SIZE - 1),
           target % STREAM_BUF_SIZE = g % STREAM_BUF_SIZE
    PROVE  /\ \A f \in g..(g + length - 1) :
                 AfterEntry(target, g, length)[f % STREAM_BUF_SIZE] = f
           /\ \A a \in Addresses :
                 (\A f \in g..(g + length - 1) : f % STREAM_BUF_SIZE # a)
                   => AfterEntry(target, g, length)[a] = ring[a]
<1> DEFINE S == STREAM_BUF_SIZE  after == AfterEntry(target, g, length)
           At(j) == IF target + j < S THEN target + j ELSE target + j - S
<1>1. S \in Nat \ {0, 1}
    BY ImxAssumption
<1>2. ASSUME NEW j \in 0..(length - 1)
      PROVE  g + j \in g..(g + length - 1) /\ (g + j) % S = At(j)
    <2>1. j \in Nat /\ j < STREAM_BUF_SIZE
        BY <1>1
    <2>2. (g + j) % S = At(j)
        BY <2>1, EntryPlaces
    <2>3. QED
        BY <1>1, <2>2
<1>3. ASSUME NEW f \in g..(g + length - 1)
      PROVE  f - g \in 0..(length - 1) /\ f % S = At(f - g)
    <2>1. f - g \in 0..(length - 1) /\ g + (f - g) = f
        BY <1>1
    <2>2. QED
        BY <1>2, <2>1
<1>4. ASSUME NEW a \in Addresses
      PROVE  after[a] = IF target + length > S
                        THEN IF a < length - (S - target) THEN g + S - target + a
                             ELSE IF a >= target THEN g + a - target ELSE ring[a]
                        ELSE IF a >= target /\ a < target + length THEN g + a - target
                             ELSE ring[a]
    BY <1>1 DEF AfterEntry, memcpy, Addresses
<1> HIDE DEF after
<1>5. ASSUME NEW f \in g..(g + length - 1)
      PROVE  after[f % S] = f
    <2> DEFINE j == f - g  a == f % S
    <2>1. j \in 0..(length - 1) /\ a = At(j) /\ f = g + j
        BY <1>3
    <2> HIDE DEF j, a
    <2>2. a \in Addresses
        BY <1>1, <2>1 DEF Addresses
    <2>3. after[a] = f
        BY <1>1, <1>4, <2>1, <2>2
    <2>4. QED
        BY <2>3 DEF a
<1>6. ASSUME NEW a \in Addresses, \A f \in g..(g + length - 1) : f % S # a
      PROVE  after[a] = ring[a]
    <2>1. \A j \in 0..(length - 1) : At(j) # a
        BY <1>2, <1>6
    <2>2. CASE target + length > S
        <3>1. ~(a < length - (S - target))
            <4> SUFFICES ASSUME a < length - (S - target) PROVE FALSE
                OBVIOUS
            <4>1. a + S - target \in 0..(length - 1) /\ At(a + S - target) = a
                BY <1>1 DEF Addresses
            <4>2. QED
                BY <2>1, <4>1
        <3>2. ~(a >= target)
            <4> SUFFICES ASSUME a >= target PROVE FALSE
                OBVIOUS
            <4>1. a - target \in 0..(length - 1) /\ At(a - target) = a
                BY <1>1, <2>2 DEF Addresses
            <4>2. QED
                BY <2>1, <4>1
        <3>3. QED
            BY <1>4, <2>2, <3>1, <3>2
    <2>3. CASE ~(target + length > S)
        <3>1. ~(a >= target /\ a < target + length)
            <4> SUFFICES ASSUME a >= target /\ a < target + length PROVE FALSE
                OBVIOUS
            <4>1. a - target \in 0..(length - 1) /\ At(a - target) = a
                BY <1>1 DEF Addresses
            <4>2. QED
                BY <2>1, <4>1
        <3>2. QED
            BY <1>4, <2>3, <3>1
    <2>4. QED
        BY <2>2, <2>3
<1>7. QED
    BY <1>5, <1>6 DEF after

(* Actions that leave the stream alone, outside vpu_decode. *)
LEMMA ElsewhereKeepsStream ==
    ASSUME StreamInv, UNCHANGED streamVars, submitting # "copy", submitting' # "copy"
    PROVE  StreamInv'
<1>1. UNCHANGED <<First, Copied>>
    BY DEF streamVars, First, Unread, Copied
<1>2. QED
    BY <1>1 DEF StreamInv, StreamTypes, InPlace, streamVars

LEMMA TakeUnitKeepsStream == StreamInv /\ TakeUnit => StreamInv'
<1> SUFFICES ASSUME StreamInv, TakeUnit PROVE StreamInv'
    OBVIOUS
<1>1. /\ submitting = "take" /\ submitting' = "copy"
      /\ UNCHANGED <<ring, read_ptr, write_ptr, byte, overfull>>
      /\ copying'.target = write_ptr /\ copying'.byte = byte
      /\ copying'.entries \in Seq(1..STREAM_BUF_SIZE)
    BY ImxAssumption DEF TakeUnit
<1>2. /\ First' = First /\ Copied = byte /\ Copied' = byte
    BY <1>1 DEF First, Unread, Copied
<1>3. write_ptr \in 0..(STREAM_BUF_SIZE - 1) /\ STREAM_BUF_SIZE \in Nat \ {0}
    BY UnreadIn, ImxAssumption DEF Addresses
<1>4. write_ptr % STREAM_BUF_SIZE = write_ptr
    BY <1>3, ModSmall
<1>5. StreamTypes'
    BY <1>1, <1>3 DEF StreamInv, StreamTypes
<1>6. InPlace'
    BY <1>1, <1>2, <1>4 DEF StreamInv, StreamTypes, InPlace
<1>7. QED
    BY <1>5, <1>6 DEF StreamInv

LEMMA CopyEntryKeepsStream == StreamInv /\ CopyEntry => StreamInv'
<1> SUFFICES ASSUME StreamInv, CopyEntry PROVE StreamInv'
    OBVIOUS
<1> DEFINE S == STREAM_BUF_SIZE  g == copying.byte  target == copying.target
           length == Head(copying.entries)
<1>1. /\ S \in Nat \ {0, 1} /\ g \in Nat /\ target \in 0..S /\ byte \in Nat /\ g >= byte
      /\ target % S = g % S /\ ring \in [Addresses -> Int]
      /\ submitting = "copy" /\ copying.entries \in Seq(1..S) /\ copying.entries # <<>>
    BY ImxAssumption DEF CopyEntry, StreamInv, StreamTypes, InPlace
<1>2. length \in 1..S /\ Tail(copying.entries) \in Seq(1..S)
    BY <1>1, HeadTailProperties
<1>3. /\ ring' = AfterEntry(target, g, length)
      /\ copying'.entries = Tail(copying.entries) /\ copying'.byte = g + length
      /\ copying'.target = IF target + length > S THEN length - (S - target)
                                                  ELSE target + length
      /\ overfull' = (overfull \/ g + length - byte >= S - Unread)
      /\ UNCHANGED <<read_ptr, write_ptr, byte, submitting>>
    <2>1. ring' = AfterEntry(target, g, length)
        BY DEF CopyEntry, AfterEntry
    <2>2. /\ copying'.entries = Tail(copying.entries) /\ copying'.byte = g + length
          /\ copying'.target = IF target + length > S THEN length - (S - target)
                                                      ELSE target + length
        <3> DEFINE to == IF target + length > S THEN length - (S - target)
                                                ELSE target + length
                   rest == Tail(copying.entries)
        <3>1. copying' = [entries |-> rest, target |-> to, byte |-> g + length]
            BY DEF CopyEntry, AfterWrap
        <3> HIDE DEF to, rest
        <3>2. copying'.entries = rest /\ copying'.byte = g + length /\ copying'.target = to
            BY <3>1
        <3>3. QED
            BY <3>2 DEF to, rest
    <2>3. /\ overfull' = (overfull \/ g + length - byte >= S - Unread)
          /\ UNCHANGED <<read_ptr, write_ptr, byte, submitting>>
        BY DEF CopyEntry
    <2>4. QED
        BY <2>1, <2>2, <2>3
<1> HIDE DEF length, g, target
<1>4. ring' \in [Addresses -> Int]
    BY <1>1, <1>2, <1>3 DEF AfterEntry, memcpy, Addresses
<1>5. StreamTypes'
    <2>1. copying'.target \in 0..S /\ copying'.byte \in Nat
        BY <1>1, <1>2, <1>3
    <2>2. overfull' \in BOOLEAN
        BY <1>3 DEF StreamInv, StreamTypes
    <2>3. QED
        BY <1>1, <1>2, <1>3, <1>4, <2>1, <2>2 DEF StreamInv, StreamTypes
<1>6. copying'.target % S = copying'.byte % S
    <2>1. CASE length < S
        <3>1. (g + length) % S = IF target + length < S THEN target + length
                                                        ELSE target + length - S
            <4>1. /\ g \in Nat /\ length \in Nat /\ target \in 0..STREAM_BUF_SIZE
                  /\ length < STREAM_BUF_SIZE
                  /\ target % STREAM_BUF_SIZE = g % STREAM_BUF_SIZE
                BY <1>1, <1>2, <2>1
            <4>2. QED
                BY <4>1, EntryPlaces
        <3>2. CASE target + length < S
            <4>1. copying'.target \in 0..(S - 1) /\ copying'.target = (g + length) % S
                BY <1>1, <1>2, <1>3, <3>1, <3>2
            <4>2. copying'.target % S = copying'.target
                BY <1>1, <4>1, ModSmall
            <4>3. QED
                BY <1>3, <4>1, <4>2
        <3>3. CASE target + length = S
            <4>1. copying'.target = S /\ (g + length) % S = 0
                BY <1>1, <1>2, <1>3, <3>1, <3>3
            <4>2. S % S = 0
                BY <1>1
            <4>3. QED
                BY <1>3, <4>1, <4>2
        <3>4. CASE target + length > S
            <4>1. copying'.target \in 0..(S - 1) /\ copying'.target = (g + length) % S
                BY <1>1, <1>2, <1>3, <2>1, <3>1, <3>4
            <4>2. copying'.target % S = copying'.target
                BY <1>1, <4>1, ModSmall
            <4>3. QED
                BY <1>3, <4>1, <4>2
        <3>5. QED
            BY <1>1, <1>2, <3>2, <3>3, <3>4
    <2>2. CASE length = S
        <3>1. copying'.target = target \/ copying'.target = target + S
            BY <1>1, <1>2, <1>3, <2>2
        <3>2. copying'.target % S = target % S
            <4>1. CASE copying'.target = target
                BY <4>1
            <4>2. CASE copying'.target = target + S
                <5>1. copying'.target = S /\ target = 0
                    BY <1>1, <1>2, <1>3, <2>2, <4>2
                <5>2. S % S = 0 /\ 0 % S = 0
                    BY <1>1
                <5>3. QED
                    BY <5>1, <5>2
            <4>3. QED
                BY <3>1, <4>1, <4>2
        <3>3. (g + S) % S = g % S
            <4> DEFINE b == g + S  r == g % S
            <4>1. b \in Int /\ g \in Int /\ S \in Nat \ {0} /\ r \in 0..(S - 1)
                <5>1. b \in Int /\ g \in Int /\ S \in Nat \ {0}
                    BY <1>1
                <5>2. QED
                    BY <5>1, DivMod
            <4>2. b - g + (g % S) = S + r /\ S + r \in S..(2 * S - 1)
                BY <4>1
            <4> HIDE DEF b, r
            <4>3. b % S = b - g + (g % S) - S
                BY <4>1, <4>2, ModWrap
            <4>4. QED
                BY <4>1, <4>2, <4>3 DEF b, r
        <3>4. QED
            BY <1>1, <1>3, <2>2, <3>2, <3>3
    <2>3. QED
        BY <1>1, <1>2, <2>1, <2>2
<1>7. ASSUME ~overfull'
      PROVE  /\ First' >= 0 /\ First' % S = read_ptr'
             /\ Copied' - First' < S
             /\ \A f \in First'..(Copied' - 1) : ring'[f % S] = f
    <2>1. ~overfull /\ g + length - byte < S - Unread
        <3>1. overfull \in BOOLEAN /\ Unread \in Int
            BY UnreadIn, <1>1 DEF StreamInv, StreamTypes
        <3>2. ~(overfull \/ g + length - byte >= S - Unread)
            BY <1>3, <1>7
        <3>3. QED
            BY <1>1, <1>2, <3>1, <3>2
    <2>2. /\ First' = First /\ Copied = g /\ Copied' = g + length
          /\ First >= 0 /\ First \in Int /\ First % S = read_ptr
          /\ \A f \in First..(g - 1) : ring[f % S] = f
        BY <1>1, <1>3, <2>1, UnreadIn DEF First, Unread, Copied, StreamInv, InPlace, g
    <2>3. g + length - First < S
        <3> DEFINE u == Unread
        <3>1. /\ u \in Int /\ S \in Int /\ g \in Int /\ length \in Int /\ byte \in Int
              /\ g + length - byte < S - u
            BY <1>1, <1>2, <2>1, UnreadIn
        <3>2. First = byte - u
            BY DEF First
        <3> HIDE DEF u, S
        <3>3. QED
            BY <3>1, <3>2
    <2>4. First <= byte
        BY <1>1, UnreadIn DEF First
    <2>5. length \in 1..(S - 1)
        BY <1>1, <1>2, <2>2, <2>3, <2>4
    <2>6. ASSUME NEW f \in First..(g + length - 1)
          PROVE  ring'[f % S] = f
        <3>1. CASE f >= g
            <4>1. f \in g..(g + length - 1)
                BY <1>1, <1>2, <2>2, <3>1
            <4>2. QED
                BY <1>1, <1>3, <2>5, <4>1, EntryCopied
        <3>2. CASE f < g
            <4>1. f \in Nat /\ f % S \in Addresses /\ ring[f % S] = f
                <5>1. f \in Nat /\ f \in First..(g - 1)
                    BY <1>1, <2>2, <3>2
                <5>2. QED
                    BY <1>1, <2>2, <5>1, DivMod DEF Addresses
            <4>2. ASSUME NEW h \in g..(g + length - 1), h % S = f % S PROVE FALSE
                <5>1. h \in Nat /\ f < h /\ h - f < S /\ S \in Nat \ {0}
                    BY <1>1, <1>2, <2>2, <2>3, <3>2
                <5>2. h - f >= S
                    BY <4>1, <4>2, <5>1, ModApart
                <5>3. QED
                    BY <4>1, <5>1, <5>2
            <4>3. ring'[f % S] = ring[f % S]
                <5>1. \A h \in g..(g + length - 1) : h % S # f % S
                    BY <4>2
                <5>2. AfterEntry(target, g, length)[f % S] = ring[f % S]
                    BY <1>1, <2>5, <4>1, <5>1, EntryCopied
                <5>3. QED
                    BY <1>3, <5>2
            <4>4. QED
                BY <4>1, <4>3
        <3>3. QED
            BY <1>1, <2>2, <3>1, <3>2
    <2>7. /\ First' >= 0 /\ First' % S = read_ptr' /\ Copied' - First' < S
        <3>1. First' >= 0 /\ First' % S = read_ptr'
            BY <1>3, <2>2
        <3>2. Copied' - First' = g + length - First
            BY <1>1, <1>2, <2>2
        <3>3. QED
            BY <2>3, <3>1, <3>2
    <2>8. \A f \in First'..(Copied' - 1) : ring'[f % S] = f
        <3>1. First'..(Copied' - 1) = First..(g + length - 1)
            BY <1>1, <1>2, <2>2
        <3>2. QED
            BY <2>6, <3>1
    <2>9. QED
        BY <2>7, <2>8
<1>8. InPlace'
    <2>1. write_ptr' = byte' % S /\ copying'.byte >= byte'
        BY <1>1, <1>2, <1>3 DEF StreamInv, InPlace
    <2>2. QED
        BY <1>6, <1>7, <2>1 DEF InPlace
<1>9. QED
    BY <1>5, <1>8 DEF StreamInv

LEMMA DecodeKeepsStream == StreamInv /\ vpu_decode => StreamInv'
<1> SUFFICES ASSUME StreamInv, vpu_decode PROVE StreamInv'
    OBVIOUS
<1> DEFINE S == STREAM_BUF_SIZE  g == copying.byte
<1>1. /\ S \in Nat \ {0, 1} /\ g \in Nat /\ byte \in Nat /\ g >= byte
      /\ read_ptr \in Addresses /\ write_ptr \in Addresses /\ write_ptr = byte % S
      /\ submitting = "copy"
    BY ImxAssumption, UnreadIn DEF vpu_decode, StreamInv, StreamTypes, InPlace
<1>2. /\ byte' = g /\ write_ptr' = (write_ptr + g - byte) % S
      /\ read_ptr' \in {read_ptr, write_ptr'} /\ copying' = NoCopy
      /\ submitting' # "copy" /\ UNCHANGED <<ring, overfull>>
    BY DEF vpu_decode
<1> HIDE DEF g
<1>3. write_ptr' = byte' % S /\ write_ptr' \in Addresses
    <2> DEFINE d == write_ptr + g - byte  q == byte \div S  p == d \div S
               e == p + q
    <2>1. d \in Int /\ byte \in Int /\ S \in Nat \ {0}
        BY <1>1 DEF Addresses
    <2>2. q \in Int /\ byte = S * q + write_ptr
        BY <1>1, <2>1, DivMod
    <2> HIDE DEF d
    <2>3. p \in Int /\ d % S \in 0..(S - 1) /\ d = S * p + (d % S)
        BY <2>1, DivMod
    <2> DEFINE r == d % S
    <2>4. r \in 0..(S - 1) /\ r = write_ptr'
        BY <1>2, <2>3 DEF d
    <2> HIDE DEF p, q
    <2>5. S * e = S * p + S * q /\ e \in Int /\ S * p \in Int /\ S * q \in Int
        BY <1>1, <2>2, <2>3, Distributes
    <2>6. g = S * e + r
        <3> DEFINE u == S * p  v == S * q  w == S * e
        <3>1. /\ byte = v + write_ptr /\ d = u + r /\ w = u + v /\ d = write_ptr + g - byte
              /\ u \in Int /\ v \in Int
            BY <2>2, <2>3, <2>5 DEF d
        <3> HIDE DEF u, v, w, r, e
        <3>2. g = w + r
            <4>1. g \in Int /\ byte \in Int /\ write_ptr \in Int /\ r \in Int /\ d \in Int
                BY <1>1, <2>1, <2>4 DEF Addresses
            <4>2. QED
                BY <3>1, <4>1
        <3>3. QED
            BY <3>2 DEF w
    <2> HIDE DEF e, r
    <2>7. g % S = r
        <3>1. g \in Int /\ S \in Nat \ {0} /\ e \in Int /\ r \in 0..(S - 1)
            BY <1>1, <2>4, <2>5
        <3> HIDE DEF S
        <3>2. QED
            BY <2>6, <3>1, ModUnique
    <2>8. QED
        BY <1>1, <1>2, <2>4, <2>7 DEF Addresses
<1>4. StreamTypes'
    BY <1>1, <1>2, <1>3, EmptySeq DEF StreamInv, StreamTypes, NoCopy
<1>5. ASSUME ~overfull'
      PROVE  /\ First' >= 0 /\ First' % S = read_ptr'
             /\ Copied' - First' < S
             /\ \A f \in First'..(Copied' - 1) : ring'[f % S] = f
    <2>1. /\ ~overfull /\ Copied = g /\ Copied' = g
        BY <1>1, <1>2, <1>5 DEF Copied, g
    <2>2. /\ First >= 0 /\ First \in Int /\ First <= byte /\ First % S = read_ptr
          /\ g - First \in 0..(S - 1)
          /\ \A f \in First..(g - 1) : ring[f % S] = f
        BY <1>1, <2>1, UnreadIn DEF First, StreamInv, InPlace
    <2>3. CASE read_ptr' = write_ptr'
        <3>1. write_ptr' - read_ptr' = 0
            BY <1>3, <2>3 DEF Addresses
        <3>2. 0 % S = 0
            BY <1>1, ModSmall
        <3>3. Unread' = 0
            BY <3>1, <3>2 DEF Unread
        <3>4. First' = g
            BY <1>1, <1>2, <3>3 DEF First
        <3>5. g % S = read_ptr' /\ Copied' - First' = 0
            BY <1>1, <1>2, <1>3, <2>1, <2>3, <3>4
        <3>6. QED
            BY <1>1, <2>1, <3>4, <3>5
    <2>4. CASE read_ptr' = read_ptr
        <3> DEFINE n == g - First  d == write_ptr' - read_ptr
                   p == g \div S  q == First \div S  k == q - p
        <3>1. p \in Int /\ g = S * p + write_ptr'
            BY <1>1, <1>2, <1>3, DivMod
        <3>2. q \in Int /\ First = S * q + read_ptr
            BY <1>1, <2>2, DivMod
        <3> HIDE DEF p, q
        <3>3. k \in Int /\ S * k = S * q - S * p /\ S * p \in Int /\ S * q \in Int
            BY <1>1, <3>1, <3>2, Distributes
        <3>4. d \in Int /\ n \in 0..(S - 1) /\ S \in Nat \ {0}
            BY <1>1, <1>3, <2>2 DEF Addresses
        <3>5. d = S * k + n
            <4> DEFINE u == S * p  v == S * q  w == S * k
            <4>1. /\ g = u + write_ptr' /\ First = v + read_ptr /\ w = v - u
                  /\ u \in Int /\ v \in Int /\ n = g - First /\ d = write_ptr' - read_ptr
                BY <3>1, <3>2, <3>3
            <4> HIDE DEF u, v, w, n, d, k
            <4>2. d = w + n
                BY <1>1, <1>3, <2>2, <4>1 DEF Addresses
            <4>3. QED
                BY <4>2 DEF w
        <3> HIDE DEF n, d, k
        <3>6. d % S = n
            BY <3>3, <3>4, <3>5, ModUnique
        <3>7. First' = First
            BY <1>1, <1>2, <2>2, <2>4, <3>6 DEF First, Unread, n, d
        <3>8. QED
            BY <1>1, <1>2, <2>1, <2>2, <2>4, <3>7
    <2>5. QED
        BY <1>2, <2>3, <2>4
<1>6. InPlace'
    BY <1>2, <1>3, <1>5 DEF InPlace
<1>7. QED
    BY <1>4, <1>6 DEF StreamInv

LEMMA StreamInvStep == StreamInv /\ [imxNext]_imxVars => StreamInv'
<1> SUFFICES ASSUME StreamInv, [imxNext]_imxVars PROVE StreamInv'
    OBVIOUS
<1>1. CASE TakeUnit \/ CopyEntry \/ vpu_decode
    BY <1>1, TakeUnitKeepsStream, CopyEntryKeepsStream, DecodeKeepsStream
<1>2. CASE BeginUnit \/ vpu_clear \/ WriteFrame
    BY <1>2, ElsewhereKeepsStream DEF BeginUnit, vpu_clear, WriteFrame
<1>3. CASE ReadFrame \/ QueueFrame \/ DequeueFrame \/ UNCHANGED imxVars
    <2>1. UNCHANGED <<streamVars, submitting>>
        BY <1>3 DEF ReadFrame, QueueFrame, DequeueFrame, handleUnchanged, imxVars
    <2>2. UNCHANGED <<First, Copied>>
        BY <2>1 DEF streamVars, First, Unread, Copied
    <2>3. QED
        BY <2>1, <2>2 DEF StreamInv, StreamTypes, InPlace, streamVars
<1>4. QED
    BY <1>1, <1>2, <1>3 DEF imxNext

LEMMA StreamInvSafe == StreamInv => StreamWhole
<1> SUFFICES ASSUME StreamInv, ~overfull, NEW k \in 0..(Unread - 1)
             PROVE  ring[(read_ptr + k) % STREAM_BUF_SIZE] = byte - Unread + k
    BY DEF StreamWhole
<1> DEFINE S == STREAM_BUF_SIZE  f == First + k  r == First % S
<1>1. /\ S \in Nat \ {0} /\ Unread \in 0..(S - 1) /\ First \in Int /\ byte \in Nat
      /\ r = read_ptr /\ r \in 0..(S - 1)
    BY UnreadIn, ImxAssumption DEF StreamInv, StreamTypes, InPlace, Addresses
<1>2. f \in First..(Copied - 1) /\ f = byte - Unread + k
    <2>1. Copied >= byte /\ Copied \in Int
        BY DEF Copied, StreamInv, StreamTypes, InPlace
    <2>2. First = byte - Unread
        BY DEF First
    <2>3. QED
        BY <1>1, <2>1, <2>2
<1>3. ring[f % S] = f
    BY <1>2 DEF StreamInv, InPlace
<1>4. (r + k) % S = f % S
    <2>1. f - First + r = r + k /\ f \in Int /\ k < S /\ k \in Nat
        BY <1>1
    <2>2. CASE r + k < S
        <3>1. (r + k) % S = r + k
            BY <1>1, <2>1, <2>2, ModSmall
        <3>2. f - First + (First % S) \in 0..(S - 1)
            BY <1>1, <2>1, <2>2
        <3> HIDE DEF f, S
        <3>3. f % S = f - First + (First % S)
            BY <1>1, <2>1, <3>2, ModLess
        <3>4. QED
            BY <2>1, <3>1, <3>3
    <2>3. CASE r + k >= S
        <3> DEFINE a == r + k  b == a - S
        <3>1. /\ b \in 0..(S - 1) /\ a \in Int /\ 1 \in Int /\ a = S * 1 + b
            BY <1>1, <2>1, <2>3
        <3> HIDE DEF a, b
        <3>2. a % S = b
            BY <1>1, <3>1, ModUnique
        <3>3. f - First + (First % S) \in S..(2 * S - 1)
            BY <1>1, <2>1, <2>3
        <3> HIDE DEF f, S
        <3>4. f % S = f - First + (First % S) - S
            BY <1>1, <2>1, <3>3, ModWrap
        <3>5. QED
            BY <1>1, <2>1, <3>2, <3>4 DEF a, b
    <2>4. QED
        BY <1>1, <2>1, <2>2, <2>3
<1>5. QED
    BY <1>1, <1>2, <1>3, <1>4

-----------------------------------------------------------------------------
VideoInv == RkInv /\ SoftwareInv /\ BuffersInv /\ StreamInv

(* A step of one renderer is no step of another. *)
LEMMA OneRenderer ==
    [VideoNext]_videoVars =>
        /\ [rkNext]_rkVars /\ [softwareNext]_softwareVars /\ [imxNext]_imxVars
BY DEF VideoNext, videoVars

LEMMA VideoInvHolds == VideoSpec => []VideoInv
<1>1. VideoInit => VideoInv
    BY RkInvInit, SoftwareInvInit, BuffersInvInit, StreamInvInit DEF VideoInit, VideoInv
<1>2. VideoInv /\ [VideoNext]_videoVars => VideoInv'
    BY OneRenderer, RkInvStep, SoftwareInvStep, BuffersInvStep, StreamInvStep DEF VideoInv
<1>3. QED
    BY <1>1, <1>2, PTL DEF VideoSpec

(* rk.c:88: the plane never goes back to an older framebuffer, for any     *)
(* number of frames and any interleaving of the threads.                   *)
THEOREM RkAlwaysInOrder == VideoSpec => RkInOrder
<1>1. VideoInv /\ [VideoNext]_videoVars => [rkPlane' > rkPlane]_rkPlane
    BY OneRenderer, RkStepInOrder DEF VideoInv
<1>2. QED
    BY <1>1, VideoInvHolds, PTL DEF VideoSpec, RkInOrder

(* ffmpeg.c:148: the frame that is drawn is never the one that is written, *)
(* but for the X11 window when the decoder is a whole ring ahead, for      *)
(* every size of the ring.                                                 *)
THEOREM DrawnAlwaysWhole == VideoSpec => []DrawnWhole
<1>1. VideoInv => DrawnWhole
    BY SoftwareInvSafe DEF VideoInv
<1>2. QED
    BY <1>1, VideoInvHolds, PTL

(* sdl.c:94, x11.c:56: when nothing is left to draw, the last frame has    *)
(* been drawn, however many were skipped.                                  *)
THEOREM NewestAlwaysShown == VideoSpec => []NewestShown
<1>1. VideoInv => NewestShown
    BY SoftwareInvSafe DEF VideoInv
<1>2. QED
    BY <1>1, VideoInvHolds, PTL

(* imx.c:66, imx.c:113: no buffer is lost or in two places, for every set  *)
(* of buffers and every threshold.                                         *)
THEOREM BuffersAlwaysKept == VideoSpec => []BuffersKept
<1>1. VideoInv => BuffersKept
    BY DEF VideoInv, BuffersInv
<1>2. QED
    BY <1>1, VideoInvHolds, PTL

(* imx_vpu.c:177: the decoder reads the stream byte by byte, for every     *)
(* size of the ring and every cut of the units into entries.               *)
THEOREM StreamAlwaysWhole == VideoSpec => []StreamWhole
<1>1. VideoInv => StreamWhole
    BY StreamInvSafe DEF VideoInv
<1>2. QED
    BY <1>1, VideoInvHolds, PTL
=============================================================================
