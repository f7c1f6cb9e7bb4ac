-------------------------- MODULE SwitchDriverProofs --------------------------
(***************************************************************************)
(* Proofs that a process that sleeps has missed one interrupt at most, and *)
(* that every interrupt is reported once unless the read that took it      *)
(* failed, for any number of blocking readers and of interrupts.           *)
(***************************************************************************)
EXTENDS SwitchDriver, FiniteSetTheorems, WellFoundedInduction, TLAPS

(* Once a sleeper has been passed over, the next interrupt wakes it before *)
(* it is counted: whoever sleeps while the handler is between the two      *)
(* steps went to sleep after the wake-up, when the counter was 0.          *)
Unnoticed == nb_of_interrupts <= (IF isr = "inc" THEN 0 ELSE 1)

LateInv ==
  /\ nb_of_interrupts \in Nat
  /\ isr \in {"idle", "wake", "inc"}
  /\ reader \in [Readers -> {"read", "prepare", "test", "sleep", "second"}]
  /\ app \in {"registered", "wait", "mask", "read"} => hooked
  /\ AppSleeps => Unnoticed
  /\ \A r \in Readers : Sleeps(r) => Unnoticed

(* Every step preserves it.                                                *)
LEMMA LateStep ==
  ASSUME LateInv, [Next]_vars
  PROVE  LateInv'
<1> USE DEF LateInv, AppSleeps, Sleeps, Unnoticed, counters, epoll, readers
<1>1. CASE Interrupt
  BY <1>1 DEF Interrupt
<1>2. CASE IsrWake
  BY <1>2 DEF IsrWake
<1>3. CASE IsrIncrement
  BY <1>3 DEF IsrIncrement
<1>4. CASE AppReset
  BY <1>4 DEF AppReset
<1>5. CASE AppRegister
  BY <1>5 DEF AppRegister
<1>6. CASE AppFirstMask
  <2> HIDE DEF AppSleeps
  <2>1. nb_of_interrupts # 0 => ready'
    BY <1>6, Zenon DEF AppFirstMask
  <2>2. AppSleeps' => nb_of_interrupts = 0
    BY <2>1, Zenon DEF AppSleeps
  <2>3. UNCHANGED <<nb_of_interrupts, isr, reader, woken, hooked>> /\ app = "registered"
    BY <1>6 DEF AppFirstMask
  <2>4. QED
    BY <2>2, <2>3
<1>7. CASE AppWake
  BY <1>7 DEF AppWake
<1>8. CASE AppMask
  BY <1>8 DEF AppMask
<1>9. CASE AppRead
  BY <1>9 DEF AppRead
<1>10. ASSUME NEW r \in Readers, ReadFirst(r) PROVE LateInv'
  BY <1>10 DEF ReadFirst, Take
<1>11. ASSUME NEW r \in Readers, WaitPrepare(r) PROVE LateInv'
  BY <1>11 DEF WaitPrepare
<1>12. ASSUME NEW r \in Readers, WaitTest(r) PROVE LateInv'
  BY <1>12 DEF WaitTest
<1>13. ASSUME NEW r \in Readers, WaitWake(r) \/ WaitSignal(r) PROVE LateInv'
  BY <1>13 DEF WaitWake, WaitSignal
<1>14. ASSUME NEW r \in Readers, ReadSecond(r) PROVE LateInv'
  BY <1>14 DEF ReadSecond, Take
<1>15. CASE UNCHANGED vars
  BY <1>15 DEF vars
<1>16. QED
  BY <1>1, <1>2, <1>3, <1>4, <1>5, <1>6, <1>7, <1>8, <1>9, <1>10, <1>11, <1>12, <1>13,
     <1>14, <1>15 DEF Next, IsrStep, AppStep, ReadStep

(* A sleeping process has missed one interrupt at most.                    *)
THEOREM SleepersAreLateByOne == Spec => []LateByOne
<1>1. Init => LateInv
  BY DEF Init, LateInv, AppSleeps, Sleeps, Unnoticed
<1>2. LateInv /\ [Next]_vars => LateInv'
  BY LateStep
<1>3. LateInv => LateByOne
  BY DEF LateInv, LateByOne, Unnoticed
<1>4. QED
  BY <1>1, <1>2, <1>3, PTL DEF Spec

-----------------------------------------------------------------------------
(* What the counter holds, the application has counted or has cleared, or  *)
(* a failed read took was raised before; an interrupt that is being handled is still to come.     *)
CountInv ==
  /\ nb_of_interrupts \in Nat /\ raised \in Nat /\ cleared \in Nat /\ lost \in Nat
  /\ total_interrupts \in Nat
  /\ nb_of_interrupts + cleared + lost + total_interrupts <= raised
  /\ raised <= MaxInterrupts /\ (isr # "idle" => raised < MaxInterrupts)
  /\ got \in [Readers -> Nat]

LEMMA CountStep ==
  ASSUME CountInv, [Next]_vars
  PROVE  CountInv'
<1> USE SwitchAssumption DEF CountInv, counters, epoll, readers
<1>1. CASE Interrupt
  BY <1>1 DEF Interrupt
<1>2. CASE IsrWake
  BY <1>2 DEF IsrWake
<1>3. CASE IsrIncrement
  BY <1>3 DEF IsrIncrement
<1>4. CASE AppReset
  BY <1>4 DEF AppReset
<1>5. CASE AppRead
  BY <1>5 DEF AppRead
<1>6. ASSUME NEW r \in Readers, Take(r) PROVE CountInv'
  BY <1>6 DEF Take
<1>7. CASE UNCHANGED <<nb_of_interrupts, isr, counters, total_interrupts, got>>
  BY <1>7
<1>8. \/ Interrupt \/ IsrWake \/ IsrIncrement \/ AppReset \/ AppRead
      \/ \E r \in Readers : Take(r)
      \/ UNCHANGED <<nb_of_interrupts, isr, counters, total_interrupts, got>>
  BY DEF Next, IsrStep, AppStep, ReadStep, AppRegister, AppFirstMask, AppWake, AppMask,
     ReadFirst, WaitPrepare, WaitTest, WaitWake, WaitSignal, ReadSecond, vars
<1>9. QED
  BY <1>1, <1>2, <1>3, <1>4, <1>5, <1>6, <1>7, <1>8

(* Where the application and the readers are, and what epoll keeps.        *)
QueueInv ==
  /\ app \in {"reset", "register", "registered", "wait", "mask", "read"}
  /\ hooked \in BOOLEAN /\ ready \in BOOLEAN /\ woken \subseteq Readers

LEMMA QueueStep ==
  ASSUME QueueInv, [Next]_vars
  PROVE  QueueInv'
<1>1. app' \in {"reset", "register", "registered", "wait", "mask", "read"}
  BY DEF QueueInv, Next, IsrStep, AppStep, ReadStep, Take, Interrupt, IsrWake, IsrIncrement,
     AppReset, AppRegister, AppFirstMask, AppWake, AppMask, AppRead,
     ReadFirst, WaitPrepare, WaitTest, WaitWake, WaitSignal, ReadSecond, epoll, vars
<1>2. hooked' \in {hooked, TRUE} /\ ready' \in {ready, TRUE, FALSE} /\ woken' \subseteq woken \cup Readers
  <2>1. CASE IsrWake
    BY <2>1 DEF IsrWake, QueueInv
  <2>2. CASE AppFirstMask
    BY <2>2 DEF AppFirstMask, QueueInv, readers
  <2>3. CASE AppRegister \/ AppWake
    BY <2>3 DEF AppRegister, AppWake, readers
  <2>4. CASE UNCHANGED <<hooked, ready>> /\ woken' \subseteq woken
    BY <2>4
  <2>5. QED
    BY <2>1, <2>2, <2>3, <2>4 DEF Next, IsrStep, AppStep, ReadStep, Take, Interrupt, IsrIncrement,
       AppReset, AppMask, AppRead,
       ReadFirst, WaitPrepare, WaitTest, WaitWake, WaitSignal, ReadSecond, epoll, readers, vars
<1>3. QED
  BY <1>1, <1>2 DEF QueueInv

(* Type correctness: the counter and what was read from it by the          *)
(* application never exceed the interrupts there were.                     *)
THEOREM TypeCorrect == Spec => []TypeOK
<1>1. Init => LateInv /\ CountInv /\ QueueInv
  <2>1. Init => LateInv
    BY DEF Init, LateInv, AppSleeps, Sleeps, Unnoticed
  <2>2. Init => CountInv
    BY SwitchAssumption DEF Init, CountInv
  <2>3. Init => QueueInv
    BY DEF Init, QueueInv
  <2>4. QED
    BY <2>1, <2>2, <2>3
<1>2. LateInv /\ [Next]_vars => LateInv'
  BY LateStep
<1>3. CountInv /\ [Next]_vars => CountInv'
  BY CountStep
<1>4. QueueInv /\ [Next]_vars => QueueInv'
  BY QueueStep
<1>5. LateInv /\ CountInv /\ QueueInv => TypeOK
  BY SwitchAssumption DEF LateInv, CountInv, QueueInv, TypeOK
<1>6. QED
  BY <1>1, <1>2, <1>3, <1>4, <1>5, PTL DEF Spec

-----------------------------------------------------------------------------
(* Sums over functions.  h is the table of the partial sums that the fold  *)
(* of Functions builds.                                                    *)
Pick(s) == CHOOSE x \in s : TRUE

Partial(h, fun, s) == IF s = {} THEN 0 ELSE fun[Pick(s)] + h[s \ {Pick(s)}]

IsSum(h, fun, S) == h = [s \in SUBSET S |-> Partial(h, fun, s)]

Sum(fun) == FoldFunction(LAMBDA x, y : x + y, 0, fun)

LEMMA LeastElement ==
  ASSUME NEW T \in SUBSET Nat, T # {}
  PROVE  \E x \in T : \A y \in T : x <= y
<1>1. PICK x \in T : \A y \in T : ~ (<<y, x>> \in OpToRel(<, Nat))
  BY NatLessThanWellFounded, WFMin
<1>2. \A y \in T : ~ (y < x)
  BY <1>1 DEF OpToRel
<1> QED  BY <1>2

LEMMA PickSmaller ==
  ASSUME NEW S, IsFiniteSet(S), NEW s \in SUBSET S, s # {}
  PROVE  /\ Pick(s) \in s /\ s \ {Pick(s)} \in SUBSET S
         /\ Cardinality(s) \in Nat /\ Cardinality(s \ {Pick(s)}) \in Nat
         /\ Cardinality(s \ {Pick(s)}) + 1 = Cardinality(s)
<1>1. Pick(s) \in s
  BY DEF Pick
<1>2. IsFiniteSet(s)
  BY FS_Subset
<1>3. Cardinality(s \ {Pick(s)}) = Cardinality(s) - 1 /\ IsFiniteSet(s \ {Pick(s)})
  BY <1>1, <1>2, FS_RemoveElement
<1>4. Cardinality(s) \in Nat /\ Cardinality(s \ {Pick(s)}) \in Nat
  BY <1>2, <1>3, FS_CardinalityType
<1> QED  BY <1>1, <1>3, <1>4

(* The table can be built, one size of subsets after the other.            *)
UpTo(h, fun, S, k) ==
  /\ h = [s \in SUBSET S |-> h[s]]
  /\ \A s \in SUBSET S : Cardinality(s) <= k => h[s] = Partial(h, fun, s)

LEMMA SumExists ==
  ASSUME NEW S, IsFiniteSet(S), NEW fun
  PROVE  \E h : IsSum(h, fun, S)
<1> DEFINE T == {k \in Nat : ~ \E h : UpTo(h, fun, S, k)}
<1>1. T = {}
  <2> SUFFICES ASSUME T # {} PROVE FALSE
    OBVIOUS
  <2>1. PICK k \in T : \A j \in T : k <= j
    <3>1. T \in SUBSET Nat
      OBVIOUS
    <3> HIDE DEF T
    <3> QED  BY <3>1, LeastElement
  <2>2. k \in Nat /\ ~ \E h : UpTo(h, fun, S, k)
    BY <2>1
  <2>3. CASE k = 0
    <3> DEFINE h == [s \in SUBSET S |-> 0]
    <3>1. \A s \in SUBSET S : Cardinality(s) <= 0 => s = {}
      <4>1. \A s \in SUBSET S : IsFiniteSet(s)
        BY FS_Subset
      <4> QED  BY <4>1, FS_EmptySet, FS_CardinalityType
    <3>2. UpTo(h, fun, S, 0)
      BY <3>1 DEF UpTo, Partial
    <3> QED  BY <2>2, <2>3, <3>2
  <2>4. CASE k # 0
    <3>1. k - 1 \in Nat /\ k - 1 \notin T
      BY <2>1, <2>2, <2>4
    <3>2. PICK h : UpTo(h, fun, S, k - 1)
      BY <3>1
    <3> DEFINE g == [s \in SUBSET S |-> Partial(h, fun, s)]
    <3>3. \A s \in SUBSET S : Cardinality(s) <= k - 1 => g[s] = h[s]
      BY <3>2 DEF UpTo
    <3>4. ASSUME NEW s \in SUBSET S, Cardinality(s) <= k PROVE g[s] = Partial(g, fun, s)
      <4>1. CASE s = {}
        BY <4>1 DEF Partial
      <4>2. CASE s # {}
        <5>1. s \ {Pick(s)} \in SUBSET S /\ Cardinality(s \ {Pick(s)}) <= k - 1
          BY <2>2, <3>4, <4>2, PickSmaller
        <5>2. g[s \ {Pick(s)}] = h[s \ {Pick(s)}]
          BY <3>3, <5>1
        <5>3. g[s] = Partial(h, fun, s)
          OBVIOUS
        <5> HIDE DEF g
        <5> QED  BY <5>2, <5>3 DEF Partial
      <4> QED  BY <4>1, <4>2
    <3>5. g = [s \in SUBSET S |-> g[s]]
      OBVIOUS
    <3>6. UpTo(g, fun, S, k)
      <4> HIDE DEF g
      <4> QED  BY <3>4, <3>5 DEF UpTo
    <3> QED  BY <2>2, <3>6
  <2> QED  BY <2>3, <2>4
<1>2. Cardinality(S) \in Nat /\ \A s \in SUBSET S : Cardinality(s) <= Cardinality(S)
  BY FS_CardinalityType, FS_Subset
<1>3. PICK h : UpTo(h, fun, S, Cardinality(S))
  BY <1>1, <1>2
<1>4. h = [s \in SUBSET S |-> h[s]] /\ \A s \in SUBSET S : h[s] = Partial(h, fun, s)
  BY <1>2, <1>3 DEF UpTo
<1>5. h = [s \in SUBSET S |-> Partial(h, fun, s)]
  BY <1>4, Zenon
<1> QED  BY <1>5 DEF IsSum

LEMMA SumUnfolds ==
  ASSUME NEW fun, IsFiniteSet(DOMAIN fun)
  PROVE  \E g : IsSum(g, fun, DOMAIN fun) /\ Sum(fun) = g[DOMAIN fun]
<1> DEFINE S == DOMAIN fun
           g == CHOOSE g : g = [s \in SUBSET S |-> IF s = {} THEN 0
                          ELSE fun[CHOOSE x \in s : TRUE] + g[s \ {CHOOSE x \in s : TRUE}]]
<1>1. Sum(fun) = g[S]
  BY Zenon DEF Sum, FoldFunction, FoldFunctionOnSet, MapThenFoldSet
<1>2. IsSum(g, fun, S)
  <2>1. PICK h : IsSum(h, fun, S)
    BY SumExists
  <2> QED  BY <2>1, Zenon DEF IsSum, Partial, Pick
<1> QED BY <1>1, <1>2

(* Adding to one value adds as much to every partial sum it is a part of.  *)
LEMMA PartialSums ==
  ASSUME NEW S, IsFiniteSet(S), NEW f \in [S -> Nat], NEW r \in S, NEW n \in Nat,
         NEW e \in [S -> Nat], \A x \in S : e[x] = f[x] + (IF x = r THEN n ELSE 0),
         NEW g, IsSum(g, f, S), NEW h, IsSum(h, e, S)
  PROVE  g[S] \in Nat /\ h[S] = g[S] + n
<1> DEFINE Good(s) == g[s] \in Nat /\ h[s] = g[s] + (IF r \in s THEN n ELSE 0)
           B == {s \in SUBSET S : ~Good(s)}
           T == {Cardinality(s) : s \in B}
<1>1. \A s \in SUBSET S : g[s] = Partial(g, f, s) /\ h[s] = Partial(h, e, s)
  BY DEF IsSum
<1>2. e \in [S -> Nat] /\ \A x \in S : e[x] = f[x] + (IF x = r THEN n ELSE 0)
  OBVIOUS
<1>3. B = {}
  <2> SUFFICES ASSUME B # {} PROVE FALSE
    OBVIOUS
  <2>1. T \in SUBSET Nat /\ T # {}
    BY FS_Subset, FS_CardinalityType
  <2>2. PICK k \in T : \A j \in T : k <= j
    <3> HIDE DEF T
    <3> QED  BY <2>1, LeastElement
  <2>3. PICK s \in B : \A t \in B : Cardinality(s) <= Cardinality(t)
    BY <2>2
  <2>4. s \in SUBSET S /\ ~Good(s)
    OBVIOUS
  <2>5. s # {}
    <3>1. Good({})
      <4>1. Partial(g, f, {}) = 0 /\ Partial(h, e, {}) = 0
        BY Zenon DEF Partial
      <4>2. g[{}] = 0 /\ h[{}] = 0
        BY <1>1, <4>1
      <4> QED  BY <4>2
    <3> QED  BY <2>4, <3>1
  <2> DEFINE x == Pick(s)
             t == s \ {x}
  <2>6. x \in s /\ t \in SUBSET S /\ Cardinality(t) < Cardinality(s)
        /\ Cardinality(s) \in Nat /\ Cardinality(t) \in Nat
    <3> HIDE DEF Good, B, T
    <3> QED  BY <2>4, <2>5, PickSmaller
  <2>7. Good(t)
    BY <2>3, <2>6
  <2>8. g[s] = f[x] + g[t] /\ h[s] = e[x] + h[t]
    BY <1>1, <2>4, <2>5 DEF Partial
  <2>9. f[x] \in Nat /\ e[x] = f[x] + (IF x = r THEN n ELSE 0)
    BY <1>2, <2>4, <2>6
  <2>10. (r \in s) <=> (x = r \/ r \in t)
    BY <2>6
  <2>11. x = r => r \notin t
    OBVIOUS
  <2> HIDE DEF x, t
  <2>12. Good(s)
    BY <2>7, <2>8, <2>9, <2>10, <2>11
  <2> QED  BY <2>4, <2>12
<1>4. Good(S)
  BY <1>3
<1> QED  BY <1>4

LEMMA SumOfUpdate ==
  ASSUME NEW S, IsFiniteSet(S), NEW f \in [S -> Nat], NEW r \in S, NEW n \in Nat
  PROVE  Sum(f) \in Nat /\ Sum([f EXCEPT ![r] = @ + n]) = Sum(f) + n
<1>1. PICK e \in [S -> Nat] : e = [f EXCEPT ![r] = @ + n]
  <2>1. [f EXCEPT ![r] = @ + n] \in [S -> Nat]
    OBVIOUS
  <2> QED  BY <2>1, Zenon
<1>2. \A x \in S : e[x] = f[x] + (IF x = r THEN n ELSE 0)
  BY <1>1
<1>3. DOMAIN f = S /\ DOMAIN e = S
  OBVIOUS
<1>4. PICK g : IsSum(g, f, S) /\ Sum(f) = g[S]
  BY <1>3, SumUnfolds
<1>5. PICK h : IsSum(h, e, S) /\ Sum(e) = h[S]
  BY <1>3, SumUnfolds
<1>6. g[S] \in Nat /\ h[S] = g[S] + n
  <2>1. \A gg, hh : IsSum(gg, f, S) /\ IsSum(hh, e, S) => gg[S] \in Nat /\ hh[S] = gg[S] + n
    <3> TAKE gg, hh
    <3> HAVE IsSum(gg, f, S) /\ IsSum(hh, e, S)
    <3>1. IsSum(gg, f, S)
      OBVIOUS
    <3>2. IsSum(hh, e, S)
      OBVIOUS
    <3> QED  BY <1>2, <3>1, <3>2, PartialSums, SMTT(30)
  <2> QED  BY <1>4, <1>5, <2>1
<1> QED  BY <1>1, <1>4, <1>5, <1>6

LEMMA SumOfZeros ==
  ASSUME NEW S, IsFiniteSet(S)
  PROVE  Sum([x \in S |-> 0]) = 0
<1> DEFINE f == [x \in S |-> 0]
<1>1. PICK g : IsSum(g, f, S) /\ Sum(f) = g[S]
  BY SumUnfolds
<1> DEFINE B == {s \in SUBSET S : g[s] # 0}
           T == {Cardinality(s) : s \in B}
<1>2. \A s \in SUBSET S : g[s] = Partial(g, f, s)
  BY <1>1 DEF IsSum
<1>3. B = {}
  <2> SUFFICES ASSUME B # {} PROVE FALSE
    OBVIOUS
  <2>1. T \in SUBSET Nat /\ T # {}
    BY FS_Subset, FS_CardinalityType
  <2>2. PICK k \in T : \A j \in T : k <= j
    <3> HIDE DEF T
    <3> QED  BY <2>1, LeastElement
  <2>3. PICK s \in B : \A t \in B : Cardinality(s) <= Cardinality(t)
    BY <2>2
  <2>4. s # {}
    BY <1>2 DEF Partial
  <2>5. Pick(s) \in S /\ s \ {Pick(s)} \in SUBSET S /\ s \ {Pick(s)} \notin B
    BY <2>3, <2>4, PickSmaller
  <2>6. g[s] = 0 + 0
    BY <1>2, <2>4, <2>5 DEF Partial
  <2> QED  BY <2>6
<1> QED  BY <1>1, <1>3
-----------------------------------------------------------------------------
(* LostToFaultsOnly, in terms of the sum that the lemmas are about.             *)
SumInv == raised = nb_of_interrupts + cleared + lost + total_interrupts + Sum(got)

LEMMA SumStep ==
  ASSUME CountInv, SumInv, [Next]_vars
  PROVE  SumInv'
<1> USE SwitchAssumption DEF CountInv
<1>0. \A r \in Readers, n \in Nat : Sum(got) \in Nat /\ Sum([got EXCEPT ![r] = @ + n]) = Sum(got) + n
  BY SumOfUpdate
<1>1. raised = nb_of_interrupts + cleared + lost + total_interrupts + Sum(got)
  BY DEF SumInv
<1> SUFFICES raised' = nb_of_interrupts' + cleared' + lost' + total_interrupts' + Sum(got')
  BY DEF SumInv
<1>2. ASSUME NEW r \in Readers, Take(r)
      PROVE  raised' = nb_of_interrupts' + cleared' + lost' + total_interrupts' + Sum(got')
  <2>1. Sum([got EXCEPT ![r] = @ + nb_of_interrupts]) = Sum(got) + nb_of_interrupts
        /\ Sum(got) \in Nat
    BY <1>0
  <2>2. nb_of_interrupts' = 0 /\ UNCHANGED <<raised, cleared, total_interrupts>>
    BY <1>2 DEF Take, epoll
  <2>3. CASE got' = [got EXCEPT ![r] = @ + nb_of_interrupts] /\ UNCHANGED lost
    <3>1. Sum(got') = Sum(got) + nb_of_interrupts
      BY <2>1, <2>3
    <3>2. QED
      BY <1>1, <2>1, <2>2, <2>3, <3>1
  <2>4. CASE lost' = lost + nb_of_interrupts /\ UNCHANGED got
    <3>1. Sum(got') = Sum(got)
      BY <2>4
    <3>2. QED
      BY <1>1, <2>1, <2>2, <2>4, <3>1
  <2>5. QED
    BY <1>2, <2>3, <2>4 DEF Take
<1>3. CASE UNCHANGED got /\ ~ \E r \in Readers : Take(r)
  <2>0. Sum(got') = Sum(got)
    BY <1>3
  <2> DEFINE sum == Sum(got)
  <2>1. /\ raised = nb_of_interrupts + cleared + lost + total_interrupts + sum
        /\ sum \in Int
    <3>1. sum = 0 \/ Readers # {}
      <4>1. Readers = {} => got = [r \in Readers |-> 0]
        OBVIOUS
      <4>2. QED
        BY <4>1, SumOfZeros
    <3>2. QED
      BY <1>0, <1>1, <3>1
  <2> HIDE DEF sum
  <2>2. raised' = nb_of_interrupts' + cleared' + lost' + total_interrupts' + sum
    <3>1. CASE IsrIncrement
      BY <2>1, <3>1 DEF IsrIncrement, epoll
    <3>2. CASE AppReset
      BY <2>1, <3>2 DEF AppReset
    <3>3. CASE AppRead
      BY <2>1, <3>3 DEF AppRead, counters
    <3>4. CASE UNCHANGED <<nb_of_interrupts, counters, total_interrupts>>
      BY <2>1, <3>4 DEF counters
    <3>5. QED
      BY <1>3, <3>1, <3>2, <3>3, <3>4
         DEF Next, IsrStep, AppStep, ReadStep, Interrupt, IsrWake, AppRegister, AppFirstMask, AppWake,
             AppMask, ReadFirst, WaitPrepare, WaitTest, WaitWake, WaitSignal, ReadSecond, epoll, vars
  <2>3. QED
    BY <2>0, <2>2 DEF sum
<1>4. UNCHANGED got \/ \E r \in Readers : Take(r)
  BY DEF Next, IsrStep, AppStep, ReadStep, Interrupt, IsrWake, IsrIncrement, AppReset, AppRegister,
     AppFirstMask, AppWake, AppMask, AppRead, ReadFirst, WaitPrepare, WaitTest, WaitWake,
     WaitSignal, ReadSecond, readers, vars
<1>5. QED
  BY <1>2, <1>3, <1>4

(* Every interrupt is reported once, to the application or to one of the   *)
(* readers, or is still in the counter, or was cleared at the start, or    *)
(* was taken by a read that failed with -EFAULT.                           *)
THEOREM OnlyFaultsLose == Spec => []LostToFaultsOnly
<1>1. Init => CountInv
  BY SwitchAssumption DEF Init, CountInv
<1>2. Init => SumInv
  <2> SUFFICES ASSUME Init PROVE SumInv
    OBVIOUS
  <2>1. Sum(got) = 0
    BY SumOfZeros, SwitchAssumption DEF Init
  <2>2. QED
    BY <2>1 DEF Init, SumInv
<1>3. CountInv /\ [Next]_vars => CountInv'
  BY CountStep
<1>4. CountInv /\ SumInv /\ [Next]_vars => SumInv'
  BY SumStep
<1>5. SumInv => LostToFaultsOnly
  BY Zenon DEF SumInv, LostToFaultsOnly, Sum
<1>6. QED
  BY <1>1, <1>2, <1>3, <1>4, <1>5, PTL DEF Spec

-----------------------------------------------------------------------------
(* A fetch that comes back empty has been robbed: poll's answer and the    *)
(* test of wait_event are stale only if somebody else fetched after them.  *)

(* With no blocking reader that fetches, the application reads something   *)
(* whenever it reads: neither the edge that epoll keeps nor an interrupt   *)
(* between poll and read sends it off for nothing.                         *)
THEOREM AloneReadsSomething ==
  Spec /\ [][\A r \in Readers : ~ReadFirst(r) /\ ~ReadSecond(r)]_vars
    => [](app = "read" => nb_of_interrupts # 0)
<1> DEFINE Quiet == \A r \in Readers : ~ReadFirst(r) /\ ~ReadSecond(r)
           Goal  == app = "read" => nb_of_interrupts # 0
<1>1. Init => CountInv /\ Goal
  BY SwitchAssumption DEF Init, CountInv
<1>2. CountInv /\ [Next]_vars => CountInv'
  BY CountStep
<1>3. CountInv /\ Goal /\ [Next]_vars /\ [Quiet]_vars => Goal'
  <2> SUFFICES ASSUME CountInv, Goal, [Next]_vars, [Quiet]_vars PROVE Goal'
    OBVIOUS
  <2>1. CASE IsrIncrement
    BY <2>1 DEF IsrIncrement, CountInv
  <2>2. CASE UNCHANGED <<nb_of_interrupts, app>>
    BY <2>2
  <2>3. CASE Interrupt \/ IsrWake \/ \E r \in Readers :
               WaitPrepare(r) \/ WaitTest(r) \/ WaitWake(r) \/ WaitSignal(r)
    BY <2>2, <2>3 DEF Interrupt, IsrWake, WaitPrepare, WaitTest, WaitWake, WaitSignal, epoll
  <2>4. CASE AppStep
    BY <2>4 DEF AppStep, AppReset, AppRegister, AppFirstMask, AppWake, AppMask, AppRead
  <2>5. CASE UNCHANGED vars
    BY <2>2, <2>5 DEF vars, epoll
  <2>6. QED
    BY <2>1, <2>3, <2>4, <2>5 DEF Next, IsrStep, ReadStep
<1> HIDE DEF Quiet, Goal
<1>4. Spec /\ [][Quiet]_vars => []Goal
  BY <1>1, <1>2, <1>3, PTL DEF Spec
<1>5. QED
  BY <1>4 DEF Quiet, Goal

(* Nobody but r empties the counter.                                       *)
OnlyFetcher(r) ==
  /\ ~AppReset /\ ~AppRead
  /\ \A q \in Readers \ {r} : ~ReadFirst(q) /\ ~ReadSecond(q)

(* A blocking read of the only process that fetches does not return 0,     *)
(* however many others sleep in wait_event: what it saw when it was woken  *)
(* is still there.                                                         *)
THEOREM LoneReaderGetsSomething ==
  ASSUME NEW r \in Readers
  PROVE  Spec /\ [][OnlyFetcher(r)]_vars => [](reader[r] = "second" => nb_of_interrupts # 0)
<1> DEFINE Goal == reader[r] = "second" => nb_of_interrupts # 0
           Only == OnlyFetcher(r)
<1>1. Init => LateInv /\ Goal
  BY DEF Init, LateInv, AppSleeps, Sleeps, Unnoticed
<1>2. LateInv /\ [Next]_vars => LateInv'
  BY LateStep
<1>3. LateInv /\ Goal /\ [Next]_vars /\ [Only]_vars => Goal'
  <2> SUFFICES ASSUME LateInv, Goal, [Next]_vars, [OnlyFetcher(r)]_vars PROVE Goal'
    OBVIOUS
  <2> USE DEF LateInv
  <2>1. CASE IsrIncrement
    BY <2>1 DEF IsrIncrement, readers
  <2>2. CASE UNCHANGED <<nb_of_interrupts, reader>>
    BY <2>2
  <2>3. CASE Interrupt \/ IsrWake \/ AppRegister \/ AppFirstMask \/ AppWake \/ AppMask
    BY <2>2, <2>3 DEF Interrupt, IsrWake, AppRegister, AppFirstMask, AppWake, AppMask, readers
  <2>4. CASE AppReset \/ AppRead
    <3>1. UNCHANGED vars
      BY <2>4 DEF OnlyFetcher
    <3>2. QED
      BY <2>2, <3>1 DEF vars, readers
  <2>5. ASSUME NEW q \in Readers,
               WaitPrepare(q) \/ WaitTest(q) \/ WaitWake(q) \/ WaitSignal(q)
        PROVE  Goal'
    BY <2>5 DEF WaitPrepare, WaitTest, WaitWake, WaitSignal
  <2>6. ASSUME NEW q \in Readers, ReadFirst(q) \/ ReadSecond(q) PROVE Goal'
    <3>1. CASE q = r
      BY <2>6, <3>1 DEF ReadFirst, ReadSecond
    <3>2. CASE q # r
      <4>1. UNCHANGED vars
        BY <2>6, <3>2 DEF OnlyFetcher
      <4>2. QED
        BY <2>2, <4>1 DEF vars, readers
    <3>3. QED
      BY <3>1, <3>2
  <2>7. CASE UNCHANGED vars
    BY <2>2, <2>7 DEF vars, readers
  <2>8. QED
    BY <2>1, <2>3, <2>4, <2>5, <2>6, <2>7 DEF Next, IsrStep, AppStep, ReadStep
<1> HIDE DEF Goal, Only
<1>4. Spec /\ [][Only]_vars => []Goal
  BY <1>1, <1>2, <1>3, PTL DEF Spec
<1>5. QED
  BY <1>4 DEF Goal, Only
=============================================================================
