------------------------- MODULE Hypervisor_proofs -------------------------
(***************************************************************************)
(* The safety of close(), for any domains, and of the scan for the next    *)
(* session, for any number of sessions up to a hundred.                    *)
(***************************************************************************)
EXTENDS ServerClose, GamingPick, FiniteSetTheorems, WellFoundedInduction, TLAPS
-----------------------------------------------------------------------------
(* close().  Neither of its properties is inductive: the first rests on    *)
(* every machine without a status having a thread in the list, unless an   *)
(* error has ended one, also while shutdown_name is between its two        *)
(* assignments; the second on a used domain having a thread of this close()*)
(* only with the operator's leave.                                         *)

Chasing(d) == \E k \in {"old", "new"} : <<d, k>> \in sure_sh_threads

Sure(d) == vm[d] = "off" \/ d \in failed \/ Chasing(d)

Chased == \A d \in Domain \ listed : Sure(d)

Erasing ==
    /\ pc \in {"append", "erase"} => name \in Domain
    /\ pc = "erase" => Sure(name)

AfterWait == pc = "closed" => sure_sh_threads = {}

Asked == \A d \in using : thread[<<d, "new">>] = "none" \/ d \in agreed

CloseInv == TypeOK /\ Chased /\ Erasing /\ AfterWait /\ Asked

LEMMA CloseInvInit == Init => CloseInv
<1> SUFFICES ASSUME Init PROVE CloseInv
    OBVIOUS
<1>1. TypeOK
    BY DEF Init, TypeOK, Domain, Thread
<1>2. Chased /\ Erasing /\ AfterWait
    BY DEF Init, Chased, Sure, Chasing, Erasing, AfterWait, Domain
<1>3. Asked
    <2> SUFFICES ASSUME NEW d \in using PROVE thread[<<d, "new">>] = "none"
        BY DEF Asked
    <2>1. <<d, "new">> \in Thread /\ <<d, "new">> \notin sure_sh_threads
        BY DEF Init, Thread
    <2>2. QED
        BY <2>1 DEF Init
<1>4. QED
    BY <1>1, <1>2, <1>3 DEF CloseInv

(* A started thread is a thread of this close(), and of its domain only. *)
LEMMA StartKeeps ==
    ASSUME CloseInv, NEW d \in Domain, ThreadStart(d), d \notin using \/ d \in agreed',
           agreed \subseteq agreed', agreed' \subseteq Domain,
           place' = place + 1, UNCHANGED domainVars
    PROVE  CloseInv'
<1> USE DEF CloseInv, TypeOK, ThreadStart, domainVars, history
<1>1. <<d, "new">> \in Thread
    BY DEF Thread
<1>2. TypeOK'
    BY <1>1
<1>3. Chased' /\ Erasing' /\ AfterWait'
    BY DEF Chased, Sure, Chasing, Erasing, AfterWait
<1>4. Asked'
    BY <1>1 DEF Asked, Thread
<1>5. QED
    BY <1>2, <1>3, <1>4

(* The main thread touches neither the machines nor, but for the start of  *)
(* a thread and its place in the list, the threads.                        *)
LEMMA EachKeeps == CloseInv /\ Each => CloseInv'
<1> SUFFICES ASSUME CloseInv, Each PROVE CloseInv'
    OBVIOUS
<1> USE DEF CloseInv, TypeOK, Chased, Sure, Chasing, Erasing, AfterWait, Asked,
            domainVars, threadVars, history
<1>1. CASE NextList
    BY <1>1 DEF Each, NextList
<1>2. ASSUME NEW d \in Domain, CloseUnused(d) PROVE CloseInv'
    BY <1>2, StartKeeps DEF Each, CloseUnused
<1>3. ASSUME NEW d \in Domain, CloseForced(d) PROVE CloseInv'
    BY <1>3, StartKeeps DEF Each, CloseForced
<1>4. ASSUME NEW d \in Domain, CloseKept(d) PROVE CloseInv'
    BY <1>4 DEF Each, CloseKept
<1>5. QED
    BY <1>1, <1>2, <1>3, <1>4 DEF Each

LEMMA MainKeeps == CloseInv /\ MainStep => CloseInv'
<1> SUFFICES ASSUME CloseInv, MainStep PROVE CloseInv'
    OBVIOUS
<1> USE DEF CloseInv, TypeOK, Chased, Sure, Chasing, Erasing, AfterWait, Asked,
            domainVars, threadVars, history
<1>1. CASE ThreadAppend
    BY <1>1 DEF ThreadAppend, Thread
<1>2. CASE StatusErase
    BY <1>2 DEF StatusErase
<1>3. CASE WaitEnd
    BY <1>3 DEF WaitEnd
<1>4. QED
    BY <1>1, <1>2, <1>3, EachKeeps DEF MainStep

(* A thread ends, and leaves the list, only when its machine is down or by *)
(* an error of the driver, and a machine that is down stays so.            *)
LEMMA EndKeeps ==
    ASSUME CloseInv, NEW th \in Thread, Ends(th),
           vm[th[1]] = "off" \/ th[1] \in failed', thread[th] # "none",
           failed \subseteq failed', failed' \subseteq Domain,
           UNCHANGED domainVars, UNCHANGED mainVars
    PROVE  CloseInv'
<1> USE DEF CloseInv, TypeOK, domainVars, mainVars, Ends
<1>1. TypeOK'
    OBVIOUS
<1>2. ASSUME NEW d \in Domain, Sure(d) PROVE Sure(d)'
    <2>1. CASE th[1] = d
        BY <2>1 DEF Sure
    <2>2. CASE th[1] # d
        BY <1>2, <2>2 DEF Sure, Chasing, Thread
    <2>3. QED
        BY <2>1, <2>2
<1>3. Chased' /\ Erasing'
    BY <1>2 DEF Chased, Erasing
<1>4. AfterWait' /\ Asked'
    BY DEF AfterWait, Asked, Thread
<1>5. QED
    BY <1>1, <1>3, <1>4

LEMMA ThreadKeeps == ASSUME CloseInv, NEW th \in Thread, SureStep(th) PROVE CloseInv'
<1>1. th[1] \in Domain
    BY DEF Thread
<1>2. CASE Ends(th) /\ UNCHANGED <<domainVars, mainVars>>
    <2>1. \/ vm[th[1]] = "off" /\ failed' = failed
          \/ failed' = failed \cup {th[1]}
        BY <1>2 DEF SureStep, SureCheck, SureSend, SureFails, SureWake, Ends, CloseInv,
                    TypeOK, domainVars
    <2>2. thread[th] # "none"
        BY DEF SureStep, SureCheck, SureSend, SureFails, SureWake
    <2>3. QED
        BY <1>1, <1>2, <2>1, <2>2, EndKeeps DEF CloseInv, TypeOK
<1>3. CASE ~(Ends(th) /\ UNCHANGED <<domainVars, mainVars>>)
    <2>1. /\ \E where \in {"check", "send", "sleep"} : thread' = [thread EXCEPT ![th] = where]
          /\ thread[th] # "none"
          /\ UNCHANGED <<listed, using, mainVars, sure_sh_threads, history>>
          /\ \/ vm' = vm
             \/ vm[th[1]] # "off" /\ vm' = [vm EXCEPT ![th[1]] = "stopping"]
        BY <1>3 DEF SureStep, SureCheck, SureSend, SureFails, SureWake, domainVars, history
    <2> USE DEF CloseInv, TypeOK, mainVars, history
    <2>2. TypeOK'
        BY <2>1, <1>1
    <2>3. \A d \in Domain : vm[d] = "off" => vm'[d] = "off"
        BY <2>1, <1>1
    <2>4. Chased' /\ Erasing' /\ AfterWait'
        BY <2>1, <2>3 DEF Chased, Sure, Chasing, Erasing, AfterWait
    <2>5. Asked'
        BY <2>1 DEF Asked, Thread
    <2>6. QED
        BY <2>2, <2>4, <2>5
<1>4. QED
    BY <1>2, <1>3

LEMMA GuestKeeps == ASSUME CloseInv, NEW d \in Domain, GuestHalts(d) PROVE CloseInv'
BY DEF CloseInv, TypeOK, Chased, Sure, Chasing, Erasing, AfterWait, Asked, GuestHalts,
       mainVars, threadVars, history

LEMMA CloseInvStep == CloseInv /\ [Next]_vars => CloseInv'
<1> SUFFICES ASSUME CloseInv, [Next]_vars PROVE CloseInv'
    OBVIOUS
<1>1. CASE UNCHANGED vars
    BY <1>1 DEF vars, domainVars, mainVars, threadVars, history, CloseInv, TypeOK,
                Chased, Sure, Chasing, Erasing, AfterWait, Asked
<1>2. CASE Next
    BY <1>2, MainKeeps, ThreadKeeps, GuestKeeps DEF Next
<1>3. QED
    BY <1>1, <1>2

LEMMA CloseInvAlways == Spec => []CloseInv
BY CloseInvInit, CloseInvStep, PTL DEF Spec

(* hypervisor.py:563: when close() has waited for its threads, all that    *)
(* has no status is down, whatever the domains and the guests, but what an *)
(* error of the driver has left running.                                   *)
THEOREM ClosedAlwaysDown == Spec => []ClosedIsDown
<1>1. CloseInv => ClosedIsDown
    BY DEF CloseInv, Chased, Sure, Chasing, AfterWait, ClosedIsDown
<1>2. QED
    BY <1>1, CloseInvAlways, PTL

(* Only a thread tells a machine to shut down. *)
LEMMA StepIsAsked ==
    ASSUME CloseInv, [Next]_vars,
           NEW d \in using, vm[d] # "stopping", vm'[d] = "stopping"
    PROVE  d \in agreed \/ Alive(<<d, "old">>)
<1>1. d \in Domain
    BY DEF CloseInv, TypeOK
<1>2. CASE \E e \in Domain : GuestHalts(e)
    BY <1>1, <1>2 DEF GuestHalts, CloseInv, TypeOK
<1>3. CASE \E th \in Thread : SureSend(th)
    <2>1. PICK th \in Thread : SureSend(th)
        BY <1>3
    <2>2. th[1] = d
        BY <1>1, <2>1 DEF SureSend, CloseInv, TypeOK, Thread
    <2>3. th = <<d, "old">> \/ th = <<d, "new">>
        BY <2>2 DEF Thread
    <2>4. thread[th] = "send"
        BY <2>1 DEF SureSend
    <2>5. QED
        BY <2>3, <2>4 DEF CloseInv, Asked, Alive
<1>4. CASE vm' = vm
    BY <1>4
<1>5. QED
    BY <1>2, <1>3, <1>4
    DEF Next, MainStep, Each, ThreadAppend, StatusErase, WaitEnd, SureStep, SureCheck,
        SureFails, SureWake, vars, domainVars

(* hypervisor.py:544: a domain that is used is told to shut down only with *)
(* the operator's leave, or by a thread that is left over from an earlier  *)
(* shutdown of it.                                                         *)
THEOREM UsedAlwaysAsked == Spec => UsedIsAsked
<1>1. CloseInv /\ [Next]_vars =>
        [\A d \in using : vm[d] # "stopping" /\ vm'[d] = "stopping"
            => d \in agreed \/ Alive(<<d, "old">>)]_vars
    BY StepIsAsked
<1>2. QED
    BY <1>1, CloseInvAlways, PTL DEF Spec, UsedIsAsked

-----------------------------------------------------------------------------
(* find_gaming_domain_down: whichever sessions are in the list, the scan   *)
(* returns the first gap whenever the order of the names does it no harm.  *)

(* The order of the names does no harm: no number in the list has two      *)
(* digits, or the gap is before the place where those begin.               *)
Harmless == working \subseteq 0..9 \/ FirstGap <= 2

Free(k) == k \in 0..Defined /\ k \notin working /\ \A j \in 0..(k - 1) : j \in working

(* What the scan knows: it has seen the sessions from 0 on, one at each    *)
(* place of the list, and has not run past the end.                        *)
ScanInv ==
    /\ PickTypeOK
    /\ scanPc = "start" => scanPlace = 0
    /\ i = scanPlace
    /\ scanPc = "loop" => user_count > Cardinality(working)
    /\ scanPc # "done" /\ Harmless => \A j \in 0..(i - 1) : j \in working
    /\ PickIsFirstGap
-----------------------------------------------------------------------------
(* Gaps *)

LEMMA ListFinite ==
    ASSUME working \subseteq Sessions
    PROVE  /\ IsFiniteSet(working) /\ Cardinality(working) \in Nat
           /\ Cardinality(working) <= Defined
           /\ working \subseteq Nat /\ \A n \in working : n < Defined /\ n <= 99
<1>1. Defined \in 0..100
    BY GamingPickAssumption
<1>2. IsFiniteSet(Sessions) /\ Cardinality(Sessions) = Defined
    <2>1. 0 \in Int /\ Defined - 1 \in Int
        BY <1>1
    <2>2. /\ IsFiniteSet(0..(Defined - 1))
          /\ Cardinality(0..(Defined - 1)) =
                IF 0 > Defined - 1 THEN 0 ELSE (Defined - 1) - 0 + 1
        BY <2>1, FS_Interval
    <2>3. QED
        BY <1>1, <2>2 DEF Sessions
<1>3. IsFiniteSet(working) /\ Cardinality(working) <= Cardinality(Sessions)
    BY <1>2, FS_Subset
<1>4. Cardinality(working) \in Nat
    BY <1>3, FS_CardinalityType
<1>5. QED
    BY <1>1, <1>2, <1>3, <1>4 DEF Sessions

(* A set of natural numbers that is not empty has a least element. *)
LEMMA Least ==
    ASSUME NEW T \in SUBSET Nat, T # {}
    PROVE  \E m \in T : \A n \in T : m <= n
<1>1. PICK m \in T : \A n \in T : ~(<<n, m>> \in OpToRel(<, Nat))
    BY NatLessThanWellFounded, WFMin
<1>2. \A n \in T : ~(n < m)
    BY <1>1 DEF OpToRel
<1>3. QED
    BY <1>2

LEMMA GapExists ==
    ASSUME working \subseteq Sessions
    PROVE  Free(FirstGap)
<1> DEFINE T == (0..Defined) \ working
<1>1. Defined \in Nat /\ Defined \notin working
    BY ListFinite, GamingPickAssumption
<1>2. T \in SUBSET Nat /\ T # {}
    BY <1>1
<1>3. PICK k \in T : \A n \in T : k <= n
    <2> HIDE DEF T
    <2>1. QED
        BY <1>2, Least
<1>4. \A j \in 0..(k - 1) : j \in working
    BY <1>1, <1>3
<1>5. Free(k)
    BY <1>3, <1>4 DEF Free
<1>6. QED
    BY <1>5 DEF Free, FirstGap

LEMMA GapUnique ==
    ASSUME working \subseteq Sessions, NEW k, Free(k)
    PROVE  FirstGap = k
<1>1. PICK g : g = FirstGap
    OBVIOUS
<1>2. Free(g)
    BY <1>1, GapExists
<1>3. Defined \in Nat
    BY GamingPickAssumption
<1>4. ~(g < k) /\ ~(k < g)
    BY <1>2, <1>3 DEF Free
<1>5. g = k
    BY <1>2, <1>3, <1>4 DEF Free
<1>6. QED
    BY <1>1, <1>5
-----------------------------------------------------------------------------
(* The order of the names *)

LEMMA NameOrder ==
    ASSUME NEW m \in 0..99, NEW n \in 0..99, m <= 1 \/ n <= 1 \/ (m <= 9 /\ n <= 9)
    PROVE  Before(m, n) <=> m < n
<1> DEFINE key(k) == IF k < 10 THEN 11 * k ELSE 11 * (k \div 10) + 1 + (k % 10)
<1>1. \A k \in 0..99 : k >= 10 => key(k) >= 12 /\ key(k) \in Int
    <2> TAKE k \in 0..99
    <2> HAVE k >= 10
    <2>1. k \div 10 >= 1 /\ k \div 10 \in Int /\ k % 10 >= 0 /\ k % 10 \in Int
        OBVIOUS
    <2>2. QED
        BY <2>1
<1>2. \A k \in 0..9 : key(k) = 11 * k
    OBVIOUS
<1>3. Before(m, n) <=> key(m) < key(n)
    BY DEF Before
<1> HIDE DEF key
<1>4. CASE m <= 9 /\ n <= 9
    BY <1>2, <1>3, <1>4
<1>5. CASE m <= 1 /\ n >= 10
    BY <1>1, <1>2, <1>3, <1>5
<1>6. CASE n <= 1 /\ m >= 10
    BY <1>1, <1>2, <1>3, <1>6
<1>7. QED
    BY <1>4, <1>5, <1>6

LEMMA NameApart ==
    ASSUME NEW n \in Nat
    PROVE  ~Before(n, n)
<1>1. PICK k \in Int : k = IF n < 10 THEN 11 * n ELSE 11 * (n \div 10) + 1 + (n % 10)
    OBVIOUS
<1>2. Before(n, n) <=> k < k
    BY <1>1 DEF Before
<1>3. QED
    BY <1>2

Below(n) == {m \in working : Before(m, n)}

(* The order of the list, as far as the scan gets with it. *)
LEMMA ListOrder ==
    ASSUME PickTypeOK, Harmless,
           NEW n \in working, NEW m \in working,
           \A j \in 0..(i - 1) : j \in working,
           m < i \/ n < i \/ (m <= i /\ i \in working)
    PROVE  Before(m, n) <=> m < n
<1>1. m \in 0..99 /\ n \in 0..99 /\ i \in Nat
    BY ListFinite DEF PickTypeOK
<1>2. CASE working \subseteq 0..9
    <2>1. m <= 9 /\ n <= 9
        BY <1>2
    <2>2. QED
        BY <1>1, <2>1, NameOrder
<1>3. CASE FirstGap <= 2
    <2>1. PICK g : g = FirstGap
        OBVIOUS
    <2>2. g \in 0..2 /\ g \notin working
        BY <1>3, <2>1, GapExists, GamingPickAssumption DEF Free, PickTypeOK
    <2>3. i <= g
        BY <1>1, <2>2
    <2>4. m <= 1 \/ n <= 1
        BY <1>1, <2>2, <2>3
    <2>5. QED
        BY <1>1, <2>4, NameOrder
<1>4. QED
    BY <1>2, <1>3 DEF Harmless

(* What is at the place that the scan has come to. *)
LEMMA AtThePlace ==
    ASSUME PickTypeOK, Harmless, i = scanPlace,
           \A j \in 0..(i - 1) : j \in working,
           NEW num \in working, AtPlace(num)
    PROVE  num = i \/ (num > i /\ Free(i))
<1>1. i \in Nat /\ i <= Defined /\ num \in Nat /\ Defined \in Nat
    BY ListFinite, GamingPickAssumption DEF PickTypeOK
<1>2. Cardinality(Below(num)) = i
    BY DEF AtPlace, Below
<1>3. IsFiniteSet(Below(num)) /\ Below(num) \subseteq working
    BY ListFinite, FS_Subset DEF PickTypeOK, Below
<1>4. ~(num < i)
    <2> SUFFICES ASSUME num < i PROVE FALSE
        OBVIOUS
    <2>1. \A m \in working : Before(m, num) <=> m < num
        BY ListOrder
    <2>2. Below(num) = 0..(num - 1)
        <3>1. \A m \in working : m \in Nat
            BY ListFinite DEF PickTypeOK
        <3>2. \A m : m \in Below(num) <=> m \in working /\ m < num
            BY <2>1 DEF Below
        <3>3. \A m : m \in working /\ m < num <=> m \in 0..(num - 1)
            <4>1. \A m \in 0..(num - 1) : m \in 0..(i - 1) /\ m < num
                BY <1>1
            <4>2. \A m \in 0..(num - 1) : m \in working /\ m < num
                BY <4>1
            <4>3. \A m \in working : m < num => m \in 0..(num - 1)
                BY <1>1, <3>1
            <4>4. QED
                BY <4>2, <4>3
        <3>4. QED
            BY <3>2, <3>3
    <2>3. Cardinality(0..(num - 1)) = num
        <3>1. 0 \in Int /\ num - 1 \in Int
            BY <1>1
        <3>2. Cardinality(0..(num - 1)) = IF 0 > num - 1 THEN 0 ELSE (num - 1) - 0 + 1
            BY <3>1, FS_Interval
        <3>3. QED
            BY <1>1, <3>2
    <2>4. QED
        BY <1>1, <1>2, <2>2, <2>3
<1>5. num > i => i \notin working
    <2> SUFFICES ASSUME num > i, i \in working PROVE FALSE
        OBVIOUS
    <2>1. \A m \in 0..i : m \in working /\ m <= i
        BY <1>1
    <2>2. \A m \in 0..i : Before(m, num)
        BY <1>1, <2>1, ListOrder
    <2>3. 0..i \subseteq Below(num)
        BY <2>1, <2>2 DEF Below
    <2>4. Cardinality(0..i) <= Cardinality(Below(num))
        BY <1>3, <2>3, FS_Subset
    <2>5. Cardinality(0..i) = i + 1
        <3>1. Cardinality(0..i) = IF 0 > i THEN 0 ELSE i - 0 + 1
            BY <1>1, FS_Interval
        <3>2. QED
            BY <1>1, <3>1
    <2>6. QED
        BY <1>1, <1>2, <2>4, <2>5
<1>6. num > i => Free(i)
    BY <1>1, <1>5 DEF Free
<1>7. QED
    BY <1>1, <1>4, <1>6
-----------------------------------------------------------------------------
(* The scan *)

LEMMA StartInv ==
    ASSUME ScanInv, Start
    PROVE  ScanInv'
<1>1. UNCHANGED <<working, user_count, max_gaming, scanPlace, i>>
    BY DEF Start, Return
<1>2. (\A j \in 0..(i - 1) : j \in working) /\ scanPlace = 0 /\ i = 0
    BY DEF Start, ScanInv, PickTypeOK
<1>3. Cardinality(working) \in Nat /\ user_count \in Nat
    BY ListFinite DEF ScanInv, PickTypeOK
<1>4. CASE user_count <= Cardinality(working) /\ result' = DomainError /\ scanPc' = "done"
    <2>1. ~(user_count > Cardinality(working))
        BY <1>3, <1>4
    <2>2. PickIsFirstGap'
        BY <1>1, <1>4, <2>1 DEF PickIsFirstGap, FirstGap
    <2>3. PickTypeOK'
        BY <1>1, <1>4 DEF ScanInv, PickTypeOK, Sessions
    <2>4. QED
        BY <1>1, <1>2, <1>4, <2>2, <2>3 DEF ScanInv
<1>5. CASE user_count > Cardinality(working) /\ result' = result /\ scanPc' = "loop"
    <2>1. PickIsFirstGap'
        BY <1>5 DEF PickIsFirstGap
    <2>2. PickTypeOK'
        BY <1>1, <1>5 DEF ScanInv, PickTypeOK, Sessions
    <2>3. QED
        BY <1>1, <1>2, <1>5, <2>1, <2>2 DEF ScanInv
<1>6. QED
    BY <1>3, <1>4, <1>5 DEF Start, Return

LEMMA LookInv ==
    ASSUME ScanInv, Look
    PROVE  ScanInv'
<1>1. /\ scanPc = "loop" /\ UNCHANGED <<working, user_count, max_gaming>>
      /\ PickTypeOK /\ i = scanPlace
      /\ user_count > Cardinality(working)
    BY DEF Look, Return, ScanInv
<1>2. PICK num \in working :
         /\ AtPlace(num)
         /\ IF num # i
            THEN Return(i)
            ELSE /\ scanPlace' = scanPlace + 1 /\ i' = i + 1
                 /\ UNCHANGED <<working, user_count, max_gaming, result, scanPc>>
    BY DEF Look
<1>3. /\ Cardinality(working) \in Nat /\ Cardinality(working) <= Defined
      /\ i \in Nat /\ Defined \in Nat
    BY <1>1, ListFinite, GamingPickAssumption DEF PickTypeOK
<1>4. scanPlace < Cardinality(working)
    <2>1. Below(num) \subseteq working /\ num \notin Below(num)
        BY <1>1, ListFinite, NameApart DEF Below, PickTypeOK
    <2>2. Cardinality(Below(num)) < Cardinality(working)
        BY <1>1, <1>3, <2>1, ListFinite, FS_Subset, FS_CardinalityType DEF PickTypeOK
    <2>3. QED
        BY <1>2, <2>2 DEF AtPlace, Below
<1>5. CASE num # i
    <2>1. result' = i /\ scanPc' = "done" /\ UNCHANGED <<scanPlace, i>>
        BY <1>2, <1>5 DEF Return
    <2>2. i \in Sessions
        BY <1>1, <1>3, <1>4 DEF Sessions
    <2>3. PickTypeOK'
        BY <1>1, <2>1, <2>2 DEF PickTypeOK, Sessions
    <2>4. Harmless => i = FirstGap /\ num > FirstGap
        BY <1>1, <1>2, <1>5, AtThePlace, GapUnique DEF ScanInv, PickTypeOK
    <2>5. Harmless => result' = IF /\ user_count > Cardinality(working)
                                   /\ \/ FirstGap < max_gaming
                                      \/ \E n \in working : n > FirstGap
                                THEN FirstGap
                                ELSE DomainError
        BY <1>1, <1>2, <2>1, <2>4
    <2>6. PickIsFirstGap'
        BY <1>1, <2>5 DEF PickIsFirstGap, FirstGap, Harmless
    <2>7. QED
        BY <1>1, <2>1, <2>3, <2>6 DEF ScanInv
<1>6. CASE num = i
    <2>1. scanPlace' = scanPlace + 1 /\ i' = i + 1 /\ UNCHANGED <<result, scanPc>>
        BY <1>2, <1>6
    <2>2. PickTypeOK'
        BY <1>1, <1>3, <1>4, <2>1 DEF PickTypeOK, Sessions
    <2>3. Harmless => \A j \in 0..i : j \in working
        BY <1>1, <1>2, <1>3, <1>6 DEF ScanInv
    <2>4. Harmless' = Harmless
        BY <1>1 DEF Harmless, FirstGap
    <2>5. Harmless' => \A j \in 0..(i' - 1) : j \in working'
        BY <1>1, <1>3, <2>1, <2>3, <2>4
    <2>6. PickIsFirstGap'
        BY <1>1, <2>1 DEF PickIsFirstGap
    <2>7. QED
        BY <1>1, <2>1, <2>2, <2>5, <2>6 DEF ScanInv
<1>7. QED
    BY <1>5, <1>6

LEMMA PastEndInv ==
    ASSUME ScanInv, PastEnd
    PROVE  ScanInv'
<1>1. /\ scanPc = "loop" /\ scanPlace = Cardinality(working) /\ scanPc' = "done"
      /\ result' = IF i < max_gaming THEN i ELSE DomainError
      /\ UNCHANGED <<working, user_count, max_gaming, scanPlace, i>>
      /\ PickTypeOK /\ i = scanPlace
      /\ user_count > Cardinality(working)
    BY DEF PastEnd, Return, ScanInv
<1>2. /\ Cardinality(working) \in Nat /\ Cardinality(working) <= Defined
      /\ i \in Nat /\ Defined \in Nat /\ max_gaming \in 0..Defined
      /\ IsFiniteSet(working) /\ working \subseteq Nat
    BY <1>1, ListFinite, GamingPickAssumption DEF PickTypeOK
<1>3. PickTypeOK'
    BY <1>1, <1>2 DEF PickTypeOK, Sessions
<1>4. Harmless => working = 0..(i - 1)
    <2> HAVE Harmless
    <2>1. 0..(i - 1) \subseteq working
        BY <1>1 DEF ScanInv
    <2>2. Cardinality(0..(i - 1)) = i
        <3>1. 0 \in Int /\ i - 1 \in Int
            BY <1>2
        <3>2. Cardinality(0..(i - 1)) = IF 0 > i - 1 THEN 0 ELSE (i - 1) - 0 + 1
            BY <3>1, FS_Interval
        <3>3. QED
            BY <1>2, <3>2
    <2>3. QED
        BY <1>1, <1>2, <2>1, <2>2, FS_Subset
<1>5. Harmless => i = FirstGap /\ ~(\E n \in working : n > FirstGap)
    <2> HAVE Harmless
    <2>1. Free(i)
        BY <1>1, <1>2, <1>4 DEF Free
    <2>2. i = FirstGap
        BY <1>1, <2>1, GapUnique DEF PickTypeOK
    <2>3. \A n \in working : ~(n > i)
        BY <1>2, <1>4
    <2>4. QED
        BY <2>2, <2>3
<1>6. Harmless => result' = IF /\ user_count > Cardinality(working)
                               /\ \/ FirstGap < max_gaming
                                  \/ \E n \in working : n > FirstGap
                            THEN FirstGap
                            ELSE DomainError
    BY <1>1, <1>5
<1>7. PickIsFirstGap'
    BY <1>1, <1>6 DEF PickIsFirstGap, FirstGap, Harmless
<1>8. QED
    BY <1>1, <1>3, <1>7 DEF ScanInv

(* find_gaming_domain_down (hypervisor.py:344) returns the first gap of    *)
(* the list, for any number of sessions up to a hundred, any of them in    *)
(* the list and any number of users, as long as the order of the names     *)
(* does no harm.                                                           *)
THEOREM PickAlwaysFirstGap == PickSpec => []PickIsFirstGap
<1>1. PickInit => ScanInv
    <2> SUFFICES ASSUME PickInit PROVE ScanInv
        OBVIOUS
    <2>1. working \subseteq Sessions
        BY DEF PickInit
    <2>2. Cardinality(working) \in Nat /\ Defined \in Nat
        BY <2>1, ListFinite, GamingPickAssumption
    <2>3. PickTypeOK
        BY <2>1, <2>2 DEF PickInit, PickTypeOK
    <2>4. PickIsFirstGap
        BY DEF PickInit, PickIsFirstGap
    <2>5. QED
        BY <2>3, <2>4 DEF PickInit, ScanInv
<1>2. ScanInv /\ [PickNext]_pickVars => ScanInv'
    <2>1. ASSUME ScanInv, UNCHANGED pickVars PROVE ScanInv'
        BY <2>1 DEF pickVars, ScanInv, PickTypeOK, Harmless, PickIsFirstGap, FirstGap, Sessions
    <2>2. QED
        BY <2>1, StartInv, LookInv, PastEndInv DEF PickNext
<1>3. ScanInv => PickIsFirstGap
    BY DEF ScanInv
<1>4. QED
    BY <1>1, <1>2, <1>3, PTL DEF PickSpec
=============================================================================
