------------------------ MODULE GamingStartup_proofs ------------------------
(***************************************************************************)
(* Proofs about the startup threads: whoever loses, delays or mixes up     *)
(* answers and however often sessions and guests are started, a session    *)
(* that has not gone astray is offered only after three processes have run *)
(* there.                                                                  *)
(***************************************************************************)
EXTENDS GamingStartup, FiniteSetTheorems, TLAPS

Sound == listed \ astray

(* FullyOperational is not inductive.  What it rests on: of a session that *)
(* is not astray, nobody says "enough" but after it had enough ...         *)
SessionsOk ==
    /\ \A d \in listed : guest[d] = "enough" => d \in operational
    /\ \A d \in Sound :
          /\ <<d, "enough">> \in answers \/ last_nv_count = <<d, "enough">>
                \/ d \notin booting
             => d \in operational
          /\ ip[d] \in {NoAddress, d}

(* ... and a thread that has read its address, the count or its name in    *)
(* the list may rely on what it has read.                                  *)
ThreadOk(t) ==
    /\ address[t] \in {session[t], NoAddress}
    /\ pc[t] \in {"count"} \cup Marking => address[t] = session[t]
    /\ pc[t] = "count" /\ session[t] \in Sound =>
          last_nv_count = Empty \/ last_nv_count[1] = session[t]
    /\ pc[t] \in Marking /\ session[t] \in Sound => session[t] \in operational
    /\ pc[t] \in {"flag", "ip"} => At(place[t]) = session[t] \/ listed \subseteq astray

ThreadsOk == \A t \in Threads : ThreadOk(t)

(* pair_gaming_domain looks once more at most after its last look.         *)
LooksCounted == main.at \in {"addr", "take"} => main.tries < Tries

StartupInv == TypeOK /\ LooksCounted /\ SessionsOk /\ ThreadsOk

LEMMA InitInv == Init => StartupInv
<1> SUFFICES ASSUME Init PROVE StartupInv
    OBVIOUS
<1>1. TypeOK
    BY GamingStartupAssumption DEF Init, TypeOK, Loop, Empty, Counts, Addresses, Alive
<1>2. SessionsOk /\ ThreadsOk
    BY DEF Init, SessionsOk, Sound, ThreadsOk, ThreadOk, Marking
<1>3. QED
    BY <1>1, <1>2 DEF StartupInv, LooksCounted, Init, Loop

LEMMA Implies == StartupInv => FullyOperational
    BY DEF StartupInv, SessionsOk, Sound, FullyOperational, TypeOK
-----------------------------------------------------------------------------
(* Asking *)

LEMMA EmptyIsNone == \A d : Empty # <<d, "enough">>
    BY DEF Empty

(* An answer tells what runs when it is given. *)
LEMMA AskedKeeps ==
    ASSUME StartupInv, NEW a \in Addresses, Asked(a)
    PROVE  /\ answers' \subseteq (Sessions \X Counts) \cup {Echo}
           /\ \A d \in Sound : <<d, "enough">> \in answers' => d \in operational
<1>1. TypeOK /\ SessionsOk
    BY DEF StartupInv
<1>2. CASE answers' = answers
    BY <1>1, <1>2 DEF TypeOK, SessionsOk
<1>3. CASE a = NoAddress /\ answers' = answers \cup {Echo}
    BY <1>1, <1>3 DEF TypeOK, SessionsOk, Echo
<1>4. CASE /\ a # NoAddress
           /\ answers' = answers \cup {<<a, n>> : n \in {guest[a]} \cap Counts}
    <2>1. a \in Sessions
        BY <1>4 DEF Addresses
    <2>2. \A d \in Sound : <<d, "enough">> \in answers' /\ <<d, "enough">> \notin answers
                                => d = a /\ guest[d] = "enough"
        BY <1>4
    <2>3. \A d \in Sound : d \in listed
        BY DEF Sound
    <2>4. QED
        BY <1>1, <1>4, <2>1, <2>2, <2>3 DEF TypeOK, SessionsOk
<1>5. QED
    BY <1>2, <1>3, <1>4 DEF Asked, Answered

(* A step of the main loop that changes no more than the slot, and that    *)
(* only by emptying it, itself and the answers.                            *)
LEMMA MainOnly ==
    ASSUME StartupInv, UNCHANGED <<statusVars, threadVars, guest, history>>,
           last_nv_count' \in {Empty, last_nv_count},
           answers' \subseteq (Sessions \X Counts) \cup {Echo},
           \A d \in Sound : <<d, "enough">> \in answers' => d \in operational,
           main' \in [at : {"loop", "look", "addr", "take", "dead"},
                      with : Addresses, tries : 0..Tries],
           LooksCounted'
    PROVE  StartupInv'
<1>1. TypeOK /\ SessionsOk /\ ThreadsOk
    BY DEF StartupInv
<1>2. TypeOK'
    BY <1>1 DEF TypeOK, statusVars, threadVars, history, Alive, Addresses, Counts
<1>3. SessionsOk'
    BY <1>1, EmptyIsNone DEF SessionsOk, Sound, statusVars, history
<1>4. ThreadsOk'
    <2> SUFFICES ASSUME NEW t \in Threads PROVE ThreadOk(t)'
        BY DEF ThreadsOk
    <2>1. ThreadOk(t)
        BY <1>1 DEF ThreadsOk
    <2>2. QED
        BY <2>1 DEF ThreadOk, Sound, At, statusVars, threadVars, history, Empty
<1>5. QED
    BY <1>2, <1>3, <1>4 DEF StartupInv
-----------------------------------------------------------------------------
(* The main loop *)

LEMMA StartupKeeps ==
    ASSUME StartupInv, NEW d \in Sessions, NEW t \in Threads, Startup(d, t)
    PROVE  StartupInv'
<1>1. TypeOK /\ SessionsOk /\ ThreadsOk
    BY DEF StartupInv
<1>2. /\ listed' = listed \cup {d} /\ booting' = booting \cup {d} /\ d \notin listed
      /\ ip' = [ip EXCEPT ![d] = NoAddress]
      /\ session' = [session EXCEPT ![t] = d]
      /\ address' = [address EXCEPT ![t] = NoAddress]
      /\ pc' = [pc EXCEPT ![t] = "agent"]
      /\ operational' = operational \cup {e \in {d} : Operational(guest[e])}
      /\ astray' = IF Shifts THEN listed' ELSE astray \cup {e \in {d} : LeftOver(e)}
      /\ UNCHANGED <<last_nv_count, place, length, main, guest, answers>>
    BY DEF Startup, Goto
<1>3. TypeOK'
    <2>1. /\ listed' \subseteq Sessions /\ booting' \subseteq listed'
          /\ operational' \subseteq listed' /\ astray' \subseteq listed'
        BY <1>1, <1>2 DEF TypeOK
    <2>2. /\ ip' \in [Sessions -> Addresses] /\ session' \in [Threads -> Addresses]
          /\ address' \in [Threads -> Addresses]
          /\ pc' \in [Threads -> {"agent"} \cup Waiting \cup Marking \cup {"ended"}]
        BY <1>1, <1>2 DEF TypeOK, Addresses
    <2>3. \A u \in Threads : (Alive(u) <=> session[u] \in Sessions)'
        BY <1>1, <1>2 DEF TypeOK, Alive
    <2>4. QED
        BY <1>1, <1>2, <2>1, <2>2, <2>3 DEF TypeOK
<1>4. Sound' \subseteq Sound \cup {d} /\ (d \in Sound' => ~LeftOver(d) /\ ~Shifts)
    BY <1>1, <1>2 DEF Sound, TypeOK
<1>5. SessionsOk'
    <2>1. \A e \in listed' : guest'[e] = "enough" => e \in operational'
        BY <1>1, <1>2 DEF SessionsOk, Operational
    <2>2. ASSUME NEW e \in Sound', e # d
          PROVE  /\ <<e, "enough">> \in answers' \/ last_nv_count' = <<e, "enough">>
                        \/ e \notin booting' => e \in operational'
                 /\ ip'[e] \in {NoAddress, e}
        BY <1>1, <1>2, <1>4, <2>2 DEF SessionsOk, TypeOK, Sound
    <2>3. ASSUME d \in Sound'
          PROVE  /\ ~(<<d, "enough">> \in answers' \/ last_nv_count' = <<d, "enough">>
                        \/ d \notin booting')
                 /\ ip'[d] = NoAddress
        BY <1>1, <1>2, <1>4, <2>3 DEF LeftOver, Counts, TypeOK, Empty
    <2>4. QED
        BY <2>1, <2>2, <2>3 DEF SessionsOk
<1>6. ThreadsOk'
    <2> SUFFICES ASSUME NEW u \in Threads PROVE ThreadOk(u)'
        BY DEF ThreadsOk
    <2>1. ThreadOk(u)
        BY <1>1 DEF ThreadsOk
    <2>2. CASE u = t
        BY <1>1, <1>2, <2>2 DEF ThreadOk, Marking, TypeOK
    <2>3. CASE u # t
        <3>1. UNCHANGED <<session[u], address[u], pc[u], place[u]>>
            BY <1>1, <1>2, <2>3 DEF TypeOK
        <3>2. pc[u] \in {"count"} \cup Marking /\ session[u] \in Sound' =>
                    session[u] \in Sound
            BY <1>2, <1>4 DEF LeftOver, Alive, Marking
        <3>3. pc[u] \in {"flag", "ip"} => listed' \subseteq astray'
            BY <1>2 DEF Shifts
        <3>4. QED
            BY <1>2, <2>1, <3>1, <3>2, <3>3 DEF ThreadOk
    <2>4. QED
        BY <2>2, <2>3
<1>7. QED
    BY <1>2, <1>3, <1>5, <1>6 DEF StartupInv, LooksCounted

LEMMA ShutdownKeeps ==
    ASSUME StartupInv, NEW d \in Sessions, Shutdown(d)
    PROVE  StartupInv'
<1>1. TypeOK /\ SessionsOk /\ ThreadsOk
    BY DEF StartupInv
<1>2. /\ listed' = listed \ {d} /\ d \notin booting
      /\ ip' = [ip EXCEPT ![d] = NoAddress]
      /\ operational' = operational \ {d}
      /\ astray' = IF Shifts THEN listed' ELSE astray \ {d}
      /\ UNCHANGED <<booting, last_nv_count, threadVars, main, guest, answers>>
    BY DEF Shutdown
<1>3. TypeOK'
    BY <1>1, <1>2 DEF TypeOK, threadVars, Addresses, Alive
<1>4. Sound' \subseteq Sound \ {d}
    BY <1>1, <1>2 DEF Sound, TypeOK
<1>5. SessionsOk'
    BY <1>1, <1>2, <1>4 DEF SessionsOk, TypeOK, Sound
<1>6. ThreadsOk'
    <2> SUFFICES ASSUME NEW u \in Threads PROVE ThreadOk(u)'
        BY DEF ThreadsOk
    <2>1. ThreadOk(u) /\ UNCHANGED <<session[u], address[u], pc[u], place[u]>>
        BY <1>1, <1>2 DEF ThreadsOk, threadVars
    <2>2. pc[u] \in {"flag", "ip"} => listed' \subseteq astray'
        BY <1>2 DEF Shifts
    <2>3. QED
        BY <1>2, <1>4, <2>1, <2>2 DEF ThreadOk
<1>7. QED
    BY <1>2, <1>3, <1>5, <1>6 DEF StartupInv, LooksCounted

LEMMA TakeAnswerKeeps ==
    ASSUME StartupInv, NEW a \in answers, TakeAnswer(a)
    PROVE  StartupInv'
<1>1. TypeOK /\ SessionsOk /\ ThreadsOk
    BY DEF StartupInv
<1>2. CASE a = Echo
    <2>1. main' = [at |-> "dead", with |-> NoAddress, tries |-> 0]
        BY <1>2 DEF TakeAnswer, Dies, Loop
    <2>2. main' \in [at : {"loop", "look", "addr", "take", "dead"},
                     with : Addresses, tries : 0..Tries]
        BY <2>1, GamingStartupAssumption DEF Addresses
    <2>3. /\ UNCHANGED <<statusVars, threadVars, guest, history, last_nv_count>>
          /\ answers' \subseteq answers
        BY <1>2 DEF TakeAnswer, history
    <2>4. QED
        BY <1>1, <2>1, <2>2, <2>3, MainOnly DEF TypeOK, SessionsOk, LooksCounted
<1>3. CASE a # Echo
    <2>1. /\ last_nv_count' = a /\ answers' = answers \ {a}
          /\ astray' = astray \cup Mixed(a)
          /\ UNCHANGED <<statusVars, threadVars, guest, operational, main>>
        BY <1>3 DEF TakeAnswer
    <2>2. a \in Sessions \X Counts /\ Mixed(a) \subseteq listed
        BY <1>1, <1>3 DEF TypeOK, Mixed
    <2>3. TypeOK'
        BY <1>1, <2>1, <2>2 DEF TypeOK, statusVars, threadVars, Alive
    <2>4. Sound' = Sound \ Mixed(a) /\ listed' = listed
        BY <2>1 DEF Sound, statusVars
    <2>5. SessionsOk'
        BY <1>1, <2>1, <2>4 DEF SessionsOk, statusVars
    <2>6. ThreadsOk'
        <3> SUFFICES ASSUME NEW u \in Threads PROVE ThreadOk(u)'
            BY DEF ThreadsOk
        <3>1. ThreadOk(u) /\ UNCHANGED <<session[u], address[u], pc[u], place[u]>>
            BY <1>1, <2>1 DEF ThreadsOk, threadVars
        <3>2. pc[u] = "count" /\ session[u] \in Sound' => a[1] = session[u]
            BY <2>4 DEF Mixed, Sound
        <3>3. At(place[u])' = At(place[u])
            BY <2>4, <3>1 DEF At
        <3>4. QED
            BY <2>1, <2>4, <3>1, <3>2, <3>3 DEF ThreadOk
    <2>7. QED
        BY <2>1, <2>3, <2>5, <2>6 DEF StartupInv, LooksCounted
<1>4. QED
    BY <1>2, <1>3

LEMMA PairKeeps ==
    ASSUME StartupInv, PairStep \/ \E d \in Sessions : PairStart(d)
    PROVE  StartupInv'
<1> DEFINE Places == {"loop", "look", "addr", "take", "dead"}
           Mains == [at : Places, with : Addresses, tries : 0..Tries]
<1>1. TypeOK /\ SessionsOk
    BY DEF StartupInv
<1>2. main \in Mains /\ Tries \in Nat
    BY <1>1, GamingStartupAssumption DEF TypeOK
<1>3. ASSUME NEW d \in Sessions, PairStart(d) PROVE StartupInv'
    <2>1. main' = [at |-> "look", with |-> d, tries |-> 0]
        BY <1>3 DEF PairStart, Loop
    <2>2. main' \in Mains
        BY <1>2, <2>1 DEF Addresses
    <2>3. Asked(d) /\ d \in Addresses
        BY <1>3 DEF PairStart, Addresses
    <2>4. UNCHANGED <<statusVars, threadVars, guest, history, last_nv_count>>
        BY <1>3 DEF PairStart
    <2>5. QED
        BY <2>1, <2>2, <2>3, <2>4, AskedKeeps, MainOnly DEF LooksCounted
<1>4. ASSUME PairStep PROVE StartupInv'
    <2>1. UNCHANGED pairLeaves /\ last_nv_count' \in {Empty, last_nv_count}
        BY <1>4 DEF PairStep, PairLook, PairAddr, PairTake, PairEnd
    <2>2. main' \in Mains /\ LooksCounted'
        <3>1. \A p \in Places : [main EXCEPT !.at = p] \in Mains
            BY <1>2
        <3>2. Loop \in Mains /\ (Dies => main' \in Mains /\ main'.at = "dead")
            BY <1>2 DEF Loop, Dies, Addresses
        <3>3. main.tries < Tries /\ NextTry => main' \in Mains /\ main'.at = "look"
            <4>1. main.tries < Tries => main.tries + 1 \in 0..Tries
                BY <1>2
            <4>2. QED
                BY <1>2, <4>1 DEF NextTry
        <3>4. LooksCounted
            BY DEF StartupInv
        <3>5. CASE PairLook
            BY <1>2, <3>1, <3>3, <3>5 DEF PairLook, LooksCounted
        <3>6. CASE PairAddr
            BY <1>2, <3>1, <3>2, <3>3, <3>4, <3>6 DEF PairAddr, LooksCounted
        <3>7. CASE PairTake
            BY <3>2, <3>3, <3>4, <3>7 DEF PairTake, LooksCounted
        <3>8. CASE PairEnd
            BY <3>2, <3>8 DEF PairEnd, LooksCounted, Loop
        <3>9. QED
            BY <1>4, <3>5, <3>6, <3>7, <3>8 DEF PairStep
    <2>3. QED
        BY <1>1, <2>1, <2>2, MainOnly DEF pairLeaves, TypeOK, SessionsOk
<1>5. QED
    BY <1>3, <1>4
-----------------------------------------------------------------------------
(* The threads *)

LEMMA ListLength == ASSUME TypeOK PROVE Cardinality(listed) \in Nat
<1>1. IsFiniteSet(listed)
    BY GamingStartupAssumption, FS_Subset DEF TypeOK
<1>2. QED
    BY <1>1, FS_CardinalityType

Where == {"agent"} \cup Waiting \cup Marking \cup {"ended"}

(* What a step of thread t leaves, and where it may lead.                  *)
Leaves(t) ==
    /\ UNCHANGED <<listed, main, guest, operational>>
    /\ last_nv_count' \in {Empty, last_nv_count}
    /\ astray \subseteq astray' /\ astray' \subseteq listed
    /\ \A u \in Threads \ {t} :
          UNCHANGED <<session[u], address[u], pc[u], place[u]>>

LEMMA EndsIs ==
    ASSUME TypeOK, NEW t \in Threads, Ends(t)
    PROVE  /\ session' \in [Threads -> Addresses] /\ address' \in [Threads -> Addresses]
           /\ pc' \in [Threads -> Where]
           /\ place' \in [Threads -> Nat] /\ length' \in [Threads -> Nat]
           /\ session'[t] = NoAddress /\ address'[t] = NoAddress /\ pc'[t] = "ended"
           /\ \A u \in Threads \ {t} :
                 UNCHANGED <<session[u], address[u], pc[u], place[u]>>
    BY DEF TypeOK, Ends, Goto, Where, Addresses

LEMMA GotoIs ==
    ASSUME TypeOK, NEW t \in Threads, NEW w \in Where, Goto(t, w)
    PROVE  /\ pc' \in [Threads -> Where] /\ pc'[t] = w
           /\ \A u \in Threads \ {t} : UNCHANGED pc[u]
    BY DEF TypeOK, Goto, Where

(* A step keeps the invariant if it keeps it for its thread.               *)
LEMMA StepKeeps ==
    ASSUME StartupInv, NEW t \in Threads, Leaves(t), ThreadOk(t)',
           session' \in [Threads -> Addresses], address' \in [Threads -> Addresses],
           pc' \in [Threads -> Where],
           place' \in [Threads -> Nat], length' \in [Threads -> Nat],
           pc'[t] # "ended" <=> session'[t] \in Sessions,
           answers' \subseteq (Sessions \X Counts) \cup {Echo},
           \A d \in Sound : <<d, "enough">> \in answers' => d \in operational,
           booting' \subseteq booting, ip' \in [Sessions -> Addresses],
           \A d \in Sound' : /\ d \in booting \ booting' => d \in operational
                             /\ ip'[d] \in {NoAddress, d}
    PROVE  StartupInv'
<1>1. TypeOK /\ SessionsOk /\ ThreadsOk /\ LooksCounted
    BY DEF StartupInv
<1>2. TypeOK'
    <2>1. \A u \in Threads : (Alive(u) <=> session[u] \in Sessions)'
        BY <1>1 DEF TypeOK, Leaves, Alive
    <2>2. QED
        BY <1>1, <2>1 DEF TypeOK, Leaves, Where
<1>3. Sound' \subseteq Sound
    BY DEF Leaves, Sound
<1>4. SessionsOk'
    <2>1. \A d \in listed' : guest'[d] = "enough" => d \in operational'
        BY <1>1 DEF SessionsOk, Leaves
    <2>2. ASSUME NEW d \in Sound',
                 <<d, "enough">> \in answers' \/ last_nv_count' = <<d, "enough">>
                    \/ d \notin booting'
          PROVE  d \in operational'
        BY <1>1, <1>3, <2>2, EmptyIsNone DEF SessionsOk, Leaves
    <2>3. QED
        BY <2>1, <2>2 DEF SessionsOk
<1>5. ThreadsOk'
    <2> SUFFICES ASSUME NEW u \in Threads, u # t PROVE ThreadOk(u)'
        BY DEF ThreadsOk
    <2>1. ThreadOk(u) /\ UNCHANGED <<session[u], address[u], pc[u], place[u]>>
        BY <1>1 DEF ThreadsOk, Leaves
    <2>2. At(place[u])' = At(place[u]) /\ (listed \subseteq astray => (listed \subseteq astray)')
        BY <2>1 DEF At, Leaves
    <2>3. QED
        BY <1>3, <2>1, <2>2 DEF ThreadOk, Leaves
<1>6. QED
    BY <1>1, <1>2, <1>4, <1>5 DEF StartupInv, LooksCounted, Leaves

(* A step that ends the thread. *)
LEMMA EndKeeps ==
    ASSUME StartupInv, NEW t \in Threads, Ends(t),
           UNCHANGED <<listed, main, guest, operational, booting, ip, last_nv_count, answers>>,
           astray' = astray \/ Crashes(t)
    PROVE  StartupInv'
<1>1. TypeOK /\ SessionsOk /\ ThreadsOk
    BY DEF StartupInv
<1>2. astray \subseteq astray' /\ astray' \subseteq listed
    BY <1>1 DEF TypeOK, Crashes
<1>3. Leaves(t)
    BY <1>1, <1>2, EndsIs DEF Leaves
<1>4. Sound' \subseteq Sound
    BY <1>2 DEF Sound
<1>5. ThreadOk(t)'
    BY <1>1, EndsIs DEF ThreadOk, Marking
<1>6. NoAddress \notin Sessions
    BY GamingStartupAssumption
<1>7. QED
    BY <1>1, <1>3, <1>4, <1>5, <1>6, EndsIs, StepKeeps DEF TypeOK, SessionsOk

(* A step within the loop of questions, from one state of it to another.   *)
LEMMA WaitKeeps ==
    ASSUME StartupInv, NEW t \in Threads, NEW w \in {"look", "addr", "count", "take"},
           Alive(t), Goto(t, w), Asked(address[t]) \/ UNCHANGED answers,
           UNCHANGED <<threadLeaves, booting, ip, last_nv_count, sameThread>>,
           w = "count" => last_nv_count # Empty /\ last_nv_count[1] = address[t],
           w = "take" => /\ pc[t] = "count" /\ last_nv_count # Empty
                         /\ Operational(last_nv_count[2])
    PROVE  StartupInv'
<1>1. TypeOK /\ SessionsOk /\ ThreadsOk /\ ThreadOk(t)
    BY DEF StartupInv, ThreadsOk
<1>2. w \in Where /\ address[t] \in Addresses /\ session[t] \in Sessions
    BY <1>1 DEF Where, Waiting, Marking, TypeOK
<1>3. /\ answers' \subseteq (Sessions \X Counts) \cup {Echo}
      /\ \A d \in Sound : <<d, "enough">> \in answers' => d \in operational
    BY <1>1, <1>2, AskedKeeps DEF TypeOK, SessionsOk
<1>4. /\ pc' \in [Threads -> Where] /\ pc'[t] = w
      /\ \A u \in Threads \ {t} : UNCHANGED pc[u]
    BY <1>1, <1>2, GotoIs
<1>5. UNCHANGED <<session, address, place, length, astray, listed, operational, last_nv_count>>
    BY DEF sameThread, threadLeaves
<1>6. Leaves(t)
    BY <1>1, <1>4, <1>5 DEF Leaves, threadLeaves, TypeOK
<1>7. Sound' = Sound
    BY <1>5 DEF Sound
<1>8. ThreadOk(t)'
    <2>1. last_nv_count # Empty =>
              last_nv_count \in Sessions \X Counts /\ last_nv_count[1] # NoAddress
        BY <1>1, GamingStartupAssumption DEF TypeOK
    <2>2. CASE w \in {"look", "addr"}
        BY <1>1, <1>4, <1>5, <2>2 DEF ThreadOk, Marking
    <2>3. CASE w = "count"
        BY <1>1, <1>4, <1>5, <2>1, <2>3 DEF ThreadOk, Marking
    <2>4. CASE w = "take"
        <3>1. address[t] = session[t]
            BY <1>1, <2>4 DEF ThreadOk
        <3>2. session[t] \in Sound => last_nv_count = <<session[t], "enough">>
            BY <1>1, <2>1, <2>4 DEF ThreadOk, Operational
        <3>3. session[t] \in Sound => session[t] \in operational
            BY <1>1, <3>2 DEF SessionsOk
        <3>4. QED
            BY <1>4, <1>5, <1>7, <2>4, <3>1, <3>3 DEF ThreadOk, Marking
    <2>5. QED
        BY <2>2, <2>3, <2>4
<1>9. QED
    BY <1>1, <1>2, <1>3, <1>4, <1>5, <1>6, <1>7, <1>8, StepKeeps
    DEF TypeOK, SessionsOk, Alive, Where, Waiting, Marking

LEMMA LookKeeps ==
    ASSUME StartupInv, NEW t \in Threads, Look(t) \/ LookAddr(t) \/ LookCount(t)
    PROVE  StartupInv'
<1>1. CASE Look(t)
    BY <1>1, WaitKeeps DEF Look, AsksAndLooks, Alive
<1>2. CASE last_nv_count = Empty /\ (LookAddr(t) \/ LookCount(t))
    <2>1. /\ Crashes(t)
          /\ UNCHANGED <<listed, main, guest, operational, booting, ip, last_nv_count, answers>>
        BY <1>2 DEF LookAddr, LookCount, LookAt, threadLeaves
    <2>2. QED
        BY <2>1, EndKeeps DEF Crashes
<1>3. CASE last_nv_count # Empty /\ LookAddr(t)
    BY <1>3, WaitKeeps DEF LookAddr, LookAt, AsksAndLooks, Alive
<1>4. CASE last_nv_count # Empty /\ LookCount(t)
    BY <1>4, WaitKeeps DEF LookCount, LookAt, AsksAndLooks, Alive
<1>5. QED
    BY <1>1, <1>2, <1>3, <1>4

LEMMA AgentKeeps ==
    ASSUME StartupInv, NEW t \in Threads, AgentUp(t)
    PROVE  StartupInv'
<1>1. TypeOK /\ SessionsOk /\ ThreadsOk /\ ThreadOk(t)
    BY DEF StartupInv, ThreadsOk
<1>2. PICK a \in {session[t], NoAddress} :
         address' = [address EXCEPT ![t] = a] /\ Asked(a) /\ Goto(t, "look")
    BY DEF AgentUp, AsksAndLooks
<1>3. /\ pc[t] = "agent"
      /\ UNCHANGED <<threadLeaves, booting, ip, last_nv_count, session, place, length, astray>>
    BY DEF AgentUp
<1>4. a \in Addresses /\ session[t] \in Sessions /\ "look" \in Where
    BY <1>1, <1>3 DEF TypeOK, Addresses, Alive, Where, Waiting
<1>5. /\ answers' \subseteq (Sessions \X Counts) \cup {Echo}
      /\ \A d \in Sound : <<d, "enough">> \in answers' => d \in operational
    BY <1>2, <1>4, AskedKeeps
<1>6. /\ pc' \in [Threads -> Where] /\ pc'[t] = "look"
      /\ \A u \in Threads \ {t} : UNCHANGED pc[u]
    BY <1>1, <1>2, <1>4, GotoIs
<1>7. /\ address' \in [Threads -> Addresses] /\ address'[t] = a
      /\ \A u \in Threads \ {t} : UNCHANGED address[u]
    BY <1>1, <1>2, <1>4 DEF TypeOK
<1>8. Leaves(t) /\ Sound' = Sound
    BY <1>1, <1>3, <1>6, <1>7 DEF Leaves, threadLeaves, TypeOK, Sound
<1>9. ThreadOk(t)'
    BY <1>3, <1>6, <1>7 DEF ThreadOk, Marking
<1>10. QED
    BY <1>1, <1>3, <1>4, <1>5, <1>6, <1>7, <1>8, <1>9, StepKeeps DEF TypeOK, SessionsOk

(* A step of a thread that has its answer and goes on.                     *)
LEMMA MarkKeeps ==
    ASSUME StartupInv, NEW t \in Threads, NEW w \in Marking,
           pc[t] \in Marking, pc'[t] = w, pc' \in [Threads -> Where],
           \A u \in Threads \ {t} : UNCHANGED <<pc[u], place[u]>>,
           place' \in [Threads -> Nat], length' \in [Threads -> Nat],
           UNCHANGED <<threadLeaves, session, address, astray>>,
           last_nv_count' \in {Empty, last_nv_count},
           Asked(address[t]) \/ UNCHANGED answers,
           w \in {"flag", "ip"} => At(place'[t]) = session[t] \/ listed \subseteq astray,
           \/ UNCHANGED <<booting, ip>>
           \/ pc[t] \in {"flag", "ip"} /\ booting' \in {booting, booting \ {At(place[t])}}
                /\ ip' \in {ip, [ip EXCEPT ![At(place[t])] = address[t]]}
    PROVE  StartupInv'
<1>1. TypeOK /\ SessionsOk /\ ThreadsOk /\ ThreadOk(t)
    BY DEF StartupInv, ThreadsOk
<1>2. address[t] = session[t] /\ address[t] \in Addresses /\ session[t] \in Sessions
    BY <1>1 DEF ThreadOk, TypeOK, Alive, Marking
<1>3. /\ answers' \subseteq (Sessions \X Counts) \cup {Echo}
      /\ \A d \in Sound : <<d, "enough">> \in answers' => d \in operational
    BY <1>1, <1>2, AskedKeeps DEF TypeOK, SessionsOk
<1>4. Leaves(t) /\ Sound' = Sound /\ UNCHANGED <<listed, astray, operational>>
    BY <1>1 DEF Leaves, threadLeaves, TypeOK, Sound
<1>5. session[t] \in Sound => session[t] \in operational
    BY <1>1 DEF ThreadOk
<1>6. ThreadOk(t)'
    <2>1. At(place[t])' = At(place'[t])
        BY <1>4 DEF At
    <2>2. w # "count" /\ (w \in {"flag", "ip"} => At(place[t])' = session'[t]
                                                    \/ (listed \subseteq astray)')
        BY <1>4, <2>1 DEF Marking
    <2>3. QED
        BY <1>2, <1>4, <1>5, <2>2 DEF ThreadOk
<1>7. booting' \subseteq booting /\ ip' \in [Sessions -> Addresses]
    BY <1>1, <1>2 DEF TypeOK
<1>8. \A d \in Sound : /\ d \in booting \ booting' => d \in operational
                       /\ ip'[d] \in {NoAddress, d}
    <2>1. CASE UNCHANGED <<booting, ip>>
        BY <1>1, <2>1 DEF SessionsOk
    <2>2. CASE listed \subseteq astray
        BY <2>2 DEF Sound
    <2>3. CASE /\ At(place[t]) = session[t]
               /\ booting' \in {booting, booting \ {At(place[t])}}
               /\ ip' \in {ip, [ip EXCEPT ![At(place[t])] = address[t]]}
        <3> SUFFICES ASSUME NEW d \in Sound
                     PROVE  /\ d \in booting \ booting' => d \in operational
                            /\ ip'[d] \in {NoAddress, d}
            OBVIOUS
        <3>1. d \in Sessions /\ ip[d] \in {NoAddress, d} /\ ip \in [Sessions -> Addresses]
            BY <1>1 DEF Sound, TypeOK, SessionsOk
        <3>2. ip' \in {ip, [ip EXCEPT ![session[t]] = session[t]]}
            BY <1>2, <2>3
        <3>3. ip'[d] \in {NoAddress, d}
            BY <3>1, <3>2
        <3>4. d \in booting \ booting' => d = session[t]
            BY <2>3
        <3>5. QED
            BY <1>5, <3>3, <3>4
    <2>4. QED
        BY <1>1, <2>1, <2>2, <2>3 DEF ThreadOk
<1>9. pc'[t] # "ended"
    BY DEF Marking
<1>10. QED
    BY <1>1, <1>2, <1>3, <1>4, <1>6, <1>7, <1>8, <1>9, StepKeeps DEF TypeOK

LEMMA ScanKeeps ==
    ASSUME StartupInv, NEW t \in Threads,
           Take(t) \/ ScanBegins(t) \/ ScanName(t) \/ ScanFlag(t) \/ ScanIp(t)
    PROVE  StartupInv'
<1>1. TypeOK /\ ThreadOk(t) /\ Marking \subseteq Where
    BY DEF StartupInv, ThreadsOk, Where
<1>2. /\ pc \in [Threads -> Where] /\ place \in [Threads -> Nat]
      /\ length \in [Threads -> Nat] /\ place[t] + 1 \in Nat
    BY <1>1 DEF TypeOK, Where
<1>3. CASE Take(t)
    <2>1. /\ pc[t] = "take" /\ Goto(t, "range") /\ last_nv_count' = Empty /\ Asked(address[t])
          /\ UNCHANGED <<threadLeaves, booting, ip, sameThread>>
        BY <1>3 DEF Take
    <2>2. "range" \in Marking /\ pc[t] \in Marking
        BY <2>1 DEF Marking
    <2>3. QED
        BY <1>1, <1>2, <2>1, <2>2, GotoIs, MarkKeeps DEF sameThread
<1>4. CASE ScanBegins(t)
    <2>1. /\ pc[t] = "range" /\ Goto(t, "name")
          /\ place' = [place EXCEPT ![t] = 0]
          /\ length' = [length EXCEPT ![t] = Cardinality(listed)]
          /\ UNCHANGED <<threadLeaves, last_nv_count, answers, booting, ip, session, address, astray>>
        BY <1>4 DEF ScanBegins, scanLeaves
    <2>2. "name" \in Marking /\ pc[t] \in Marking
        BY <2>1 DEF Marking
    <2>3. place' \in [Threads -> Nat] /\ length' \in [Threads -> Nat]
        BY <1>1, <1>2, <2>1, ListLength
    <2>4. QED
        BY <1>1, <1>2, <2>1, <2>2, <2>3, GotoIs, MarkKeeps
<1>5. ASSUME Ends(t), ScanName(t) \/ ScanFlag(t) \/ ScanIp(t) PROVE StartupInv'
    <2>1. pc'[t] = "ended"
        BY <1>1, <1>5, EndsIs
    <2>2. /\ astray' = astray \/ Crashes(t)
          /\ UNCHANGED <<scanLeaves, booting, ip>>
        BY <1>2, <1>5, <2>1 DEF ScanName, ScanFlag, ScanIp, Goto
    <2>3. QED
        BY <1>5, <2>2, EndKeeps DEF scanLeaves, threadLeaves
<1>6. CASE ScanName(t) /\ ~Ends(t)
    <2>1. /\ pc[t] = "name"
          /\ IF At(place[t]) = session[t]
             THEN Goto(t, "flag") /\ UNCHANGED place
             ELSE place' = [place EXCEPT ![t] = @ + 1] /\ UNCHANGED pc
          /\ UNCHANGED <<threadLeaves, last_nv_count, answers, booting, ip, session, address,
                         length, astray>>
        BY <1>6 DEF ScanName, scanLeaves, Crashes
    <2>2. {"name", "flag"} \subseteq Marking
        BY DEF Marking
    <2>3. CASE At(place[t]) = session[t]
        BY <1>1, <1>2, <2>1, <2>2, <2>3, GotoIs, MarkKeeps
    <2>4. CASE At(place[t]) # session[t]
        <3>1. place' = [place EXCEPT ![t] = place[t] + 1] /\ pc' = pc
            BY <2>1, <2>4
        <3>2. place' \in [Threads -> Nat]
            BY <1>2, <3>1
        <3>3. QED
            BY <1>1, <1>2, <2>1, <2>2, <3>1, <3>2, MarkKeeps
    <2>5. QED
        BY <2>3, <2>4
<1>7. CASE ScanFlag(t) /\ ~Ends(t)
    <2>1. /\ pc[t] = "flag" /\ Goto(t, "ip") /\ booting' = booting \ {At(place[t])}
          /\ UNCHANGED <<threadLeaves, last_nv_count, answers, ip, sameThread>>
        BY <1>7 DEF ScanFlag, scanLeaves, Crashes
    <2>2. "ip" \in Marking /\ pc[t] \in Marking
        BY <2>1 DEF Marking
    <2>3. At(place'[t]) = session[t] \/ listed \subseteq astray
        BY <1>1, <2>1 DEF ThreadOk, sameThread
    <2>4. QED
        BY <1>1, <1>2, <2>1, <2>2, <2>3, GotoIs, MarkKeeps DEF sameThread
<1>8. CASE ScanIp(t) /\ ~Ends(t)
    <2>1. /\ pc[t] = "ip" /\ Goto(t, "name")
          /\ ip' = [ip EXCEPT ![At(place[t])] = address[t]]
          /\ place' = [place EXCEPT ![t] = place[t] + 1]
          /\ UNCHANGED <<threadLeaves, last_nv_count, answers, booting, session, address, length,
                         astray>>
        BY <1>8 DEF ScanIp, scanLeaves, Crashes
    <2>2. "name" \in Marking /\ pc[t] \in Marking
        BY <2>1 DEF Marking
    <2>3. place' \in [Threads -> Nat] /\ \A u \in Threads \ {t} : UNCHANGED place[u]
        BY <1>2, <2>1
    <2>4. QED
        BY <1>1, <1>2, <2>1, <2>2, <2>3, GotoIs, MarkKeeps
<1>9. QED
    BY <1>3, <1>4, <1>5, <1>6, <1>7, <1>8
-----------------------------------------------------------------------------
(* The guests *)

LEMMA GuestKeeps ==
    ASSUME StartupInv, NEW d \in Sessions, GuestBoots(d) \/ GuestHalts(d)
    PROVE  StartupInv'
<1>1. TypeOK /\ SessionsOk /\ ThreadsOk /\ LooksCounted
    BY DEF StartupInv
<1>2. /\ UNCHANGED guestLeaves
      /\ guest' \in [Sessions -> {"down"} \cup Counts]
      /\ operational \subseteq operational' /\ operational' \subseteq listed
      /\ \A e \in listed : guest'[e] = "enough" => e \in operational'
    <2>1. CASE GuestBoots(d)
        BY <1>1, <2>1 DEF GuestBoots, TypeOK, SessionsOk, Counts, Operational
    <2>2. CASE GuestHalts(d)
        BY <1>1, <2>2 DEF GuestHalts, TypeOK, SessionsOk
    <2>3. QED
        BY <2>1, <2>2
<1>3. TypeOK'
    BY <1>1, <1>2 DEF TypeOK, guestLeaves, statusVars, threadVars, Alive
<1>4. SessionsOk' /\ LooksCounted'
    BY <1>1, <1>2 DEF SessionsOk, Sound, guestLeaves, statusVars, LooksCounted
<1>5. ThreadsOk'
    BY <1>1, <1>2 DEF ThreadsOk, ThreadOk, Sound, At, guestLeaves, statusVars, threadVars
<1>6. QED
    BY <1>3, <1>4, <1>5 DEF StartupInv
-----------------------------------------------------------------------------

LEMMA StartupInvStep == StartupInv /\ [Next]_vars => StartupInv'
<1>1. ASSUME StartupInv, UNCHANGED vars PROVE StartupInv'
    <2>1. UNCHANGED <<statusVars, threadVars, history, last_nv_count, main, guest, answers>>
        BY <1>1 DEF vars
    <2>2. TypeOK' /\ LooksCounted' /\ SessionsOk'
        BY <1>1, <2>1 DEF StartupInv, TypeOK, LooksCounted, SessionsOk, Sound, Alive,
                          statusVars, threadVars, history
    <2>3. ThreadsOk'
        BY <1>1, <2>1 DEF StartupInv, ThreadsOk, ThreadOk, Sound, At,
                          statusVars, threadVars, history
    <2>4. QED
        BY <2>2, <2>3 DEF StartupInv
<1>2. ASSUME StartupInv, NEW t \in Threads, ThreadStep(t) PROVE StartupInv'
    BY <1>2, AgentKeeps, LookKeeps, ScanKeeps DEF ThreadStep
<1>3. QED
    BY <1>1, <1>2, StartupKeeps, ShutdownKeeps, TakeAnswerKeeps, PairKeeps, GuestKeeps
    DEF Next, Outside, Inside

(* hypervisor.py:256-270: a session that is offered has been operational   *)
(* since it was put into the list, whatever the number of sessions and     *)
(* threads, however often sessions are started again and guests halt, and  *)
(* whatever becomes of the answers, but for the accidents that astray      *)
(* names.                                                                  *)
THEOREM AlwaysOperational == Spec => []FullyOperational
<1>1. Spec => []StartupInv
    BY InitInv, StartupInvStep, PTL DEF Spec
<1>2. QED
    BY <1>1, Implies, PTL
=============================================================================
