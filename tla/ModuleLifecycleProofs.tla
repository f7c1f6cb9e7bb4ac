------------------------ MODULE ModuleLifecycleProofs ------------------------
(***************************************************************************)
(* The runs load every driver alone and every two that meet.  The theorems *)
(* are about any number of drivers, of any ladders: the promises of a class*)
(* follow from the outline of each of its members alone, whoever else is   *)
(* loaded and whatever is refused.  That the members of the classes pass   *)
(* these tests is what ClassesAreExact says.                               *)
(*                                                                         *)
(* The inductive invariant: a driver that is at a step has what its outline*)
(* allows before this step, and one that is gone has nothing.              *)
(***************************************************************************)
EXTENDS ModuleLifecycle, TLAPS

Phases == {"out", "init", "in", "exit", "oops"}

(* The outline of what d is doing.                                         *)
Held(d) == IF phase[d] = "exit" THEN Outline[d].exit ELSE Outline[d].init

Typed ==
  /\ cast \subseteq Drivers
  /\ DOMAIN phase = cast /\ \A d \in cast : phase[d] \in Phases
  /\ DOMAIN op = cast /\ DOMAIN got = cast /\ DOMAIN misused = cast

WithinOutline(d) ==
  /\ phase[d] = "out" => got[d] = {}
  /\ phase[d] = "in" => got[d] \in Loaded(d)
  /\ Busy(d) => op[d] \in Nat \ {0} /\ got[d] \in Held(d)[Beyond(Steps(d), op[d])]

IInv == Typed /\ \A d \in cast : WithinOutline(d)

-----------------------------------------------------------------------------
LEMMA PointsAreListed ==
  ASSUME NEW steps, NEW O, NEW k \in 1 .. Len(steps), NEW S \in O[k]
  PROVE  <<steps[k], S>> \in PointsOf(steps, O)
<1>1. <<steps[k], S>> \in {<<steps[k], T>> : T \in O[k]}
  OBVIOUS
<1>2. QED
  BY <1>1, Zenon DEF PointsOf

(* A driver that is at a step: the step is one of its ladder, the number is*)
(* within it and what it has is one of the sets the outline lists there.   *)
LEMMA AtAStep ==
  ASSUME IInv, NEW d \in cast, Busy(d), op[d] <= Len(Steps(d))
  PROVE  /\ d \in Drivers
         /\ Len(Steps(d)) \in Nat /\ op[d] \in 1 .. Len(Steps(d))
         /\ got[d] \in Held(d)[op[d]]
         /\ Permits(Steps(d), Held(d), op[d], got[d])
         /\ <<Step(d), got[d]>> \in Points(d)
<1>1. d \in Drivers
  BY DEF IInv, Typed
<1>2. Follows(Steps(d), Held(d))
  BY <1>1, OutlineAssumption DEF Steps, Held
<1>3. Len(Steps(d)) \in Nat
  BY <1>2 DEF Follows
<1>4. op[d] \in Nat \ {0} /\ got[d] \in Held(d)[Beyond(Steps(d), op[d])]
  BY DEF IInv, WithinOutline
<1>5. op[d] \in 1 .. Len(Steps(d))
  BY <1>3, <1>4
<1>6. Beyond(Steps(d), op[d]) = op[d]
  BY <1>3, <1>5 DEF Beyond
<1>7. got[d] \in Held(d)[op[d]]
  BY <1>4, <1>6
<1>8. Permits(Steps(d), Held(d), op[d], got[d])
  BY <1>2, <1>5, <1>7 DEF Follows
<1>9. <<Step(d), got[d]>> \in PointsOf(Steps(d), Held(d))
  BY <1>5, <1>7, PointsAreListed, Zenon DEF Step
<1>10. QED
  BY <1>1, <1>3, <1>5, <1>7, <1>8, <1>9 DEF Points, Steps, Held

(* Only d moves.                                                           *)
Moves(d) ==
  /\ cast' = cast
  /\ DOMAIN phase' = cast /\ DOMAIN op' = cast /\ DOMAIN got' = cast /\ DOMAIN misused' = cast
  /\ \A e \in cast \ {d} :
       phase'[e] = phase[e] /\ op'[e] = op[e] /\ got'[e] = got[e] /\ misused'[e] = misused[e]

(* Whoever moves, the others stay where they are.                          *)
LEMMA OnlyOneMoves ==
  ASSUME IInv, NEW d \in cast,
         \/ Load(d) \/ Obtain(d) \/ Refuse(d) \/ Return(d) \/ Unexport(d)
         \/ InitDone(d) \/ Unload(d) \/ ExitDone(d)
  PROVE  Moves(d)
<1> USE DEF IInv, Typed, Moves
<1>1. CASE Load(d)      BY <1>1 DEF Load
<1>2. CASE Obtain(d)    BY <1>2 DEF Obtain
<1>3. CASE Refuse(d)    BY <1>3 DEF Refuse, Release
<1>4. CASE Return(d)    BY <1>4 DEF Return, Release
<1>5. CASE Unexport(d)  BY <1>5 DEF Unexport
<1>6. CASE InitDone(d)  BY <1>6 DEF InitDone
<1>7. CASE Unload(d)    BY <1>7 DEF Unload
<1>8. CASE ExitDone(d)  BY <1>8 DEF ExitDone, Release
<1>9. QED
  BY <1>1, <1>2, <1>3, <1>4, <1>5, <1>6, <1>7, <1>8

(* It is enough to look at the driver that moves.                          *)
LEMMA TheOthersStay ==
  ASSUME IInv, NEW d \in cast, Moves(d), phase'[d] \in Phases, WithinOutline(d)'
  PROVE  IInv'
<1>1. Typed'
  BY DEF IInv, Typed, Moves
<1>2. ASSUME NEW e \in cast, e # d PROVE WithinOutline(e)'
  <2>1. WithinOutline(e)
    BY <1>2 DEF IInv
  <2>2. phase'[e] = phase[e] /\ op'[e] = op[e] /\ got'[e] = got[e]
    BY <1>2 DEF Moves
  <2>3. QED
    BY <2>1, <2>2 DEF WithinOutline, Busy, Held, Steps
<1>3. QED
  BY <1>1, <1>2 DEF IInv, Moves

-----------------------------------------------------------------------------
(* A step whose successor is in the outline leaves the driver within it.   *)
LEMMA StepOn ==
  ASSUME IInv, NEW d \in cast, Busy(d), op[d] <= Len(Steps(d)), Moves(d),
         phase'[d] = phase[d], NEW j \in Nat \ {0}, op'[d] = op[d] + j,
         got'[d] \in Held(d)[Beyond(Steps(d), op[d] + j)]
  PROVE  IInv'
<1>1. op[d] \in Nat /\ op'[d] \in Nat \ {0}
  <2>1. op[d] \in 1 .. Len(Steps(d)) /\ Len(Steps(d)) \in Nat
    BY AtAStep
  <2>2. QED
    BY <2>1
<1>2. WithinOutline(d)'
  BY <1>1 DEF WithinOutline, Busy, Held, Steps, Moves
<1>3. phase'[d] \in Phases
  BY DEF IInv, Typed
<1>4. QED
  BY <1>2, <1>3, TheOthersStay

LEMMA OneOn ==
  ASSUME IInv, NEW d \in cast, Busy(d), op[d] <= Len(Steps(d)), Moves(d),
         phase'[d] = phase[d], op'[d] = op[d] + 1, got'[d] \in Held(d)[op[d] + 1]
  PROVE  IInv'
<1>1. op[d] \in 1 .. Len(Steps(d)) /\ Len(Steps(d)) \in Nat
  BY AtAStep
<1>2. Beyond(Steps(d), op[d] + 1) = op[d] + 1
  BY <1>1 DEF Beyond
<1>3. got'[d] \in Held(d)[Beyond(Steps(d), op[d] + 1)] /\ 1 \in Nat \ {0}
  BY <1>2
<1>4. QED
  BY <1>3, StepOn

LEMMA InitHolds == ASSUME Init PROVE IInv
BY OutlineAssumption DEF Init, IInv, Typed, WithinOutline, Busy, Phases

LEMMA LoadHolds == ASSUME IInv, NEW d \in cast, Load(d) PROVE IInv'
<1>1. Moves(d)
  BY OnlyOneMoves
<1>2. phase'[d] = "init" /\ op'[d] = 1 /\ got'[d] = {}
  BY DEF Load, IInv, Typed, WithinOutline
<1>3. {} \in Outline[d].init[1] /\ Len(Ladder[d].init) \in Nat
  BY OutlineAssumption DEF IInv, Typed, Follows
<1>4. Beyond(Ladder[d].init, 1) = 1
  BY <1>3 DEF Beyond
<1>5. WithinOutline(d)'
  BY <1>2, <1>3, <1>4 DEF WithinOutline, Busy, Held, Steps
<1>6. QED
  BY <1>1, <1>2, <1>5, TheOthersStay DEF Phases

LEMMA ObtainHolds == ASSUME IInv, NEW d \in cast, Obtain(d) PROVE IInv'
<1>1. Moves(d)
  BY OnlyOneMoves
<1>2. Busy(d) /\ op[d] <= Len(Steps(d)) /\ Step(d) = Steps(d)[op[d]]
  BY DEF Obtain, At, Step
<1>3. /\ Len(Steps(d)) \in Nat /\ op[d] \in 1 .. Len(Steps(d))
      /\ got[d] \in Held(d)[op[d]] /\ Permits(Steps(d), Held(d), op[d], got[d])
  BY <1>2, AtAStep
<1>4. got'[d] \in Held(d)[op[d] + 1]
  <2>1. CASE At(d, "get") /\ \A r \in Step(d).what : Free(r)
    <3>1. Step(d).do = "get" /\ Step(d).what \cap Refused = {}
      BY <2>1 DEF At, Step, Free
    <3>2. got'[d] = got[d] \cup Step(d).what
      BY DEF Obtain, IInv, Typed
    <3>3. QED
      BY <1>2, <1>3, <3>1, <3>2 DEF Permits
  <2>2. CASE At(d, "need") /\ Step(d).what \subseteq got[d]
    <3>1. Step(d).do = "need"
      BY <2>2 DEF At, Step
    <3>2. got'[d] = got[d]
      BY <2>2 DEF Obtain, IInv, Typed
    <3>3. QED
      BY <1>2, <1>3, <2>2, <3>1, <3>2 DEF Permits
  <2>3. QED
    BY <2>1, <2>2 DEF Obtain
<1>5. phase'[d] = phase[d] /\ op'[d] = op[d] + 1
  BY DEF Obtain, IInv, Typed
<1>6. QED
  BY <1>1, <1>2, <1>3, <1>4, <1>5, OneOn

LEMMA RefuseHolds == ASSUME IInv, NEW d \in cast, Refuse(d) PROVE IInv'
<1>1. Moves(d)
  BY OnlyOneMoves
<1>2. Busy(d) /\ op[d] <= Len(Steps(d)) /\ Step(d) = Steps(d)[op[d]]
  BY DEF Refuse, At, Step
<1>3. /\ Len(Steps(d)) \in Nat /\ op[d] \in 1 .. Len(Steps(d))
      /\ got[d] \in Held(d)[op[d]] /\ Permits(Steps(d), Held(d), op[d], got[d])
  BY <1>2, AtAStep
<1>4. CanFail(Step(d), got[d])
  BY DEF Refuse, At, Step, CanFail
<1>5. Step(d).ko \in {Error, Oops} \cup (Nat \ {0})
  BY <1>2, <1>3 DEF Permits
<1>6. CASE Step(d).ko = Error
  <2>1. phase'[d] = "out" /\ got'[d] = {}
    BY <1>6 DEF Refuse, Release, IInv, Typed, Error, Oops
  <2>2. QED
    BY <1>1, <2>1, TheOthersStay DEF WithinOutline, Busy, Phases
<1>7. CASE Step(d).ko = Oops
  <2>1. phase'[d] = "oops"
    BY <1>7 DEF Refuse, IInv, Typed, Error, Oops
  <2>2. QED
    BY <1>1, <2>1, TheOthersStay DEF WithinOutline, Busy, Phases
<1>8. CASE Step(d).ko \notin {Error, Oops}
  <2>1. /\ phase'[d] = phase[d] /\ op'[d] = op[d] + Step(d).ko
        /\ got'[d] = got[d] \ Step(d).undo
    BY <1>8 DEF Refuse, Release, IInv, Typed
  <2>2. got'[d] \in Held(d)[Beyond(Steps(d), op[d] + Step(d).ko)]
    BY <1>2, <1>3, <1>4, <1>8, <2>1 DEF Permits
  <2>3. QED
    BY <1>1, <1>2, <1>5, <1>8, <2>1, <2>2, StepOn
<1>9. QED
  BY <1>6, <1>7, <1>8

LEMMA ReturnHolds == ASSUME IInv, NEW d \in cast, Return(d) PROVE IInv'
<1>1. Moves(d)
  BY OnlyOneMoves
<1>2. Busy(d) /\ op[d] <= Len(Steps(d)) /\ Step(d) = Steps(d)[op[d]] /\ Step(d).do = "put"
  BY DEF Return, At, Step
<1>3. /\ Len(Steps(d)) \in Nat /\ op[d] \in 1 .. Len(Steps(d))
      /\ got[d] \in Held(d)[op[d]] /\ Permits(Steps(d), Held(d), op[d], got[d])
  BY <1>2, AtAStep
<1>4. got'[d] = got[d] \ Returns(Step(d), got[d]) /\ op'[d] = op[d] + 1
  BY <1>2 DEF Return, Release, Returns, IInv, Typed
<1>5. CASE phase'[d] = phase[d]
  <2>1. got'[d] \in Held(d)[op[d] + 1]
    BY <1>2, <1>3, <1>4 DEF Permits
  <2>2. QED
    BY <1>1, <1>2, <1>3, <1>4, <1>5, <2>1, OneOn
<1>6. CASE phase'[d] = "oops"
  BY <1>1, <1>6, TheOthersStay DEF WithinOutline, Busy, Phases
<1>7. QED
  BY <1>5, <1>6 DEF Return, IInv, Typed

LEMMA UnexportHolds == ASSUME IInv, NEW d \in cast, Unexport(d) PROVE IInv'
<1>1. Moves(d)
  BY OnlyOneMoves
<1>2. Busy(d) /\ op[d] <= Len(Steps(d)) /\ Step(d) = Steps(d)[op[d]] /\ Step(d).do = "evict"
  BY DEF Unexport, At, Step
<1>3. /\ Len(Steps(d)) \in Nat /\ op[d] \in 1 .. Len(Steps(d))
      /\ got[d] \in Held(d)[op[d]] /\ Permits(Steps(d), Held(d), op[d], got[d])
  BY <1>2, AtAStep
<1>4. /\ got'[d] = got[d] \ Step(d).what /\ op'[d] = op[d] + 1
      /\ phase'[d] = phase[d]
  BY DEF Unexport, IInv, Typed
<1>5. got'[d] \in Held(d)[op[d] + 1]
  BY <1>2, <1>3, <1>4 DEF Permits
<1>6. QED
  BY <1>1, <1>2, <1>3, <1>4, <1>5, OneOn

LEMMA InitDoneHolds == ASSUME IInv, NEW d \in cast, InitDone(d) PROVE IInv'
<1>1. Moves(d)
  BY OnlyOneMoves
<1>2. phase'[d] = "in" /\ got'[d] = got[d]
  BY DEF InitDone, IInv, Typed
<1>3. got[d] \in Loaded(d)
  BY DEF InitDone, IInv, WithinOutline, Busy, Held, Steps, Beyond, Loaded
<1>4. QED
  BY <1>1, <1>2, <1>3, TheOthersStay DEF WithinOutline, Busy, Phases, Loaded

LEMMA UnloadHolds == ASSUME IInv, NEW d \in cast, Unload(d) PROVE IInv'
<1>1. Moves(d)
  BY OnlyOneMoves
<1>2. phase'[d] = "exit" /\ op'[d] = 1 /\ got'[d] = got[d]
  BY DEF Unload, IInv, Typed
<1>3. got[d] \in Outline[d].exit[1] /\ Len(Ladder[d].exit) \in Nat
  BY OutlineAssumption DEF Unload, IInv, Typed, WithinOutline, Loaded, Follows
<1>4. Beyond(Ladder[d].exit, 1) = 1
  BY <1>3 DEF Beyond
<1>5. WithinOutline(d)'
  BY <1>2, <1>3, <1>4 DEF WithinOutline, Busy, Held, Steps
<1>6. QED
  BY <1>1, <1>2, <1>5, TheOthersStay DEF Phases

LEMMA ExitDoneHolds == ASSUME IInv, NEW d \in cast, ExitDone(d) PROVE IInv'
<1>1. Moves(d)
  BY OnlyOneMoves
<1>2. phase'[d] = "out" /\ got'[d] = {}
  BY DEF ExitDone, Release, IInv, Typed
<1>3. QED
  BY <1>1, <1>2, TheOthersStay DEF WithinOutline, Busy, Phases

(* Every driver is within its outline, and gone ones have nothing.         *)
LEMMA IInvHolds == Spec => []IInv
<1>1. Init => IInv
  BY InitHolds
<1>2. IInv /\ [Next]_vars => IInv'
  <2>1. SUFFICES ASSUME IInv, [Next]_vars PROVE IInv'
    OBVIOUS
  <2>2. CASE Next
    BY <2>1, <2>2, LoadHolds, ObtainHolds, RefuseHolds, ReturnHolds, UnexportHolds,
       InitDoneHolds, UnloadHolds, ExitDoneHolds DEF Next
  <2>3. CASE UNCHANGED vars
    BY <2>1, <2>3 DEF vars, IInv, Typed, WithinOutline, Busy, Held, Steps
  <2>4. QED
    BY <2>1, <2>2, <2>3
<1>3. QED
  BY <1>1, <1>2, PTL DEF Spec

-----------------------------------------------------------------------------
(* init returns success with everything, whoever else wants the same, if   *)
(* it does so in its outline.                                              *)
THEOREM StrictDriversAreComplete ==
  ASSUME \A d \in Strict : LoadsCompletely(d)
  PROVE  Spec => []SuccessIsComplete
<1>1. IInv => SuccessIsComplete
  BY DEF IInv, WithinOutline, SuccessIsComplete, LoadsCompletely
<1>2. QED
  BY <1>1, IInvHolds, PTL

-----------------------------------------------------------------------------
(* What is left of a driver that goes: nothing, if its outline leaves none.*)
LEMMA CarefulStep ==
  ASSUME \A d \in Careful : LeavesNothing(d), IInv, NothingIsOrphaned, [Next]_vars
  PROVE  NothingIsOrphaned'
<1>1. CASE UNCHANGED vars
  BY <1>1 DEF vars, NothingIsOrphaned
<1>2. ASSUME NEW d \in cast, Load(d) \/ Obtain(d) \/ InitDone(d) \/ Unload(d)
      PROVE  NothingIsOrphaned'
  <2>1. UNCHANGED <<cast, orphans>>
    BY <1>2 DEF Load, Obtain, InitDone, Unload
  <2>2. QED
    BY <2>1 DEF NothingIsOrphaned
<1>3. ASSUME NEW d \in cast, Unexport(d) PROVE NothingIsOrphaned'
  BY <1>3 DEF Unexport, NothingIsOrphaned
<1>4. ASSUME NEW d \in cast, Return(d) PROVE NothingIsOrphaned'
  BY <1>4 DEF Return, Release, NothingIsOrphaned
<1>5. ASSUME NEW d \in cast, Refuse(d) PROVE NothingIsOrphaned'
  <2>1. <<Step(d), got[d]>> \in Points(d) /\ CanFail(Step(d), got[d])
    BY <1>5, AtAStep DEF Refuse, At, Step, CanFail
  <2>2. d \in Careful /\ Step(d).ko = Error => got[d] \ Step(d).undo = {}
    BY <2>1 DEF LeavesNothing
  <2>3. QED
    BY <1>5, <2>2 DEF Refuse, Release, NothingIsOrphaned
<1>6. ASSUME NEW d \in cast, ExitDone(d) PROVE NothingIsOrphaned'
  <2>1. phase[d] = "exit" /\ op[d] > Len(Ladder[d].exit)
    BY <1>6 DEF ExitDone
  <2>2. got[d] \in Gone(d)
    BY <2>1 DEF IInv, WithinOutline, Busy, Held, Steps, Beyond, Gone
  <2>3. d \in Careful => got[d] = {}
    BY <2>2 DEF LeavesNothing
  <2>4. QED
    BY <1>6, <2>3 DEF ExitDone, Release, NothingIsOrphaned
<1>7. QED
  BY <1>1, <1>2, <1>3, <1>4, <1>5, <1>6 DEF Next

(* A driver whose outline gives everything back on every path gives it back*)
(* whatever the kernel refuses and however many others are loaded.         *)
THEOREM CarefulDriversLeaveNothing ==
  ASSUME \A d \in Careful : LeavesNothing(d)
  PROVE  Spec => []NothingIsOrphaned
<1>1. Init => NothingIsOrphaned
  BY DEF Init, NothingIsOrphaned
<1>2. IInv /\ NothingIsOrphaned /\ [Next]_vars => NothingIsOrphaned'
  BY CarefulStep
<1>3. QED
  BY <1>1, <1>2, IInvHolds, PTL DEF Spec

-----------------------------------------------------------------------------
(* What a driver releases without having it is what its outline says.      *)
LEMMA ExactStep ==
  ASSUME \A d \in Exact : ReleasesItsOwn(d), IInv, ReleasesAreMatched, [Next]_vars
  PROVE  ReleasesAreMatched'
<1>1. CASE UNCHANGED vars
  BY <1>1 DEF vars, ReleasesAreMatched
<1>2. ASSUME NEW d \in cast, Obtain(d) \/ InitDone(d) \/ Unload(d) \/ Unexport(d)
      PROVE  ReleasesAreMatched'
  <2>1. UNCHANGED <<cast, misused>>
    BY <1>2 DEF Obtain, InitDone, Unload, Unexport
  <2>2. QED
    BY <2>1 DEF ReleasesAreMatched
<1>3. ASSUME NEW d \in cast, Load(d) PROVE ReleasesAreMatched'
  BY <1>3 DEF Load, ReleasesAreMatched, IInv, Typed
<1>4. ASSUME NEW d \in cast, Return(d) PROVE ReleasesAreMatched'
  <2>1. <<Step(d), got[d]>> \in Points(d) /\ Step(d).do = "put"
    BY <1>4, AtAStep DEF Return, At, Step
  <2>2. d \in Exact => Returns(Step(d), got[d]) \subseteq got[d] \cup Forgiving
    BY <2>1 DEF ReleasesItsOwn
  <2>3. misused' = [misused EXCEPT ![d] = @ \cup (Returns(Step(d), got[d]) \ (got[d] \cup Forgiving))]
    BY <1>4, <2>1 DEF Return, Release, Returns
  <2>4. cast' = cast
    BY <1>4 DEF Return
  <2>5. QED
    BY <2>2, <2>3, <2>4 DEF ReleasesAreMatched, IInv, Typed
<1>5. ASSUME NEW d \in cast, Refuse(d) PROVE ReleasesAreMatched'
  <2>1. <<Step(d), got[d]>> \in Points(d) /\ CanFail(Step(d), got[d])
    BY <1>5, AtAStep DEF Refuse, At, Step, CanFail
  <2>2. d \in Exact => Step(d).undo \subseteq got[d] \cup Forgiving
    BY <2>1 DEF ReleasesItsOwn
  <2>3. QED
    BY <1>5, <2>2 DEF Refuse, Release, ReleasesAreMatched, IInv, Typed
<1>6. ASSUME NEW d \in cast, ExitDone(d) PROVE ReleasesAreMatched'
  BY <1>6 DEF ExitDone, Release, ReleasesAreMatched, IInv, Typed
<1>7. QED
  BY <1>1, <1>2, <1>3, <1>4, <1>5, <1>6 DEF Next

(* A driver whose outline releases only what it has never releases what is *)
(* not its own, however many others are loaded.                            *)
THEOREM ExactDriversAreMatched ==
  ASSUME \A d \in Exact : ReleasesItsOwn(d)
  PROVE  Spec => []ReleasesAreMatched
<1>1. Init => ReleasesAreMatched
  BY DEF Init, ReleasesAreMatched
<1>2. IInv /\ ReleasesAreMatched /\ [Next]_vars => ReleasesAreMatched'
  BY ExactStep
<1>3. QED
  BY <1>1, <1>2, IInvHolds, PTL DEF Spec

-----------------------------------------------------------------------------
LEMMA SolidStep ==
  ASSUME \A d \in Drivers \ Fragile : IsSolid(d), IInv, OnlyFragileOops, [Next]_vars
  PROVE  OnlyFragileOops'
<1>1. CASE UNCHANGED vars
  BY <1>1 DEF vars, OnlyFragileOops
<1>2. ASSUME NEW d \in cast,
             \/ Load(d) \/ Obtain(d) \/ InitDone(d) \/ Unload(d) \/ Unexport(d) \/ ExitDone(d)
      PROVE  OnlyFragileOops'
  <2>1. Moves(d) /\ phase'[d] \in {phase[d], "init", "in", "exit", "out"}
    BY <1>2, OnlyOneMoves DEF Load, Obtain, InitDone, Unload, Unexport, ExitDone, IInv, Typed
  <2>2. QED
    BY <2>1 DEF OnlyFragileOops, Moves
<1>3. ASSUME NEW d \in cast, Return(d) PROVE OnlyFragileOops'
  <2>1. <<Step(d), got[d]>> \in Points(d) /\ d \in Drivers /\ Step(d).do = "put"
    BY <1>3, AtAStep DEF Return, At, Step
  <2>2. d \notin Fragile => Returns(Step(d), got[d]) \cap Fatal \subseteq got[d]
    BY <2>1 DEF IsSolid
  <2>3. d \notin Fragile => phase'[d] = phase[d]
    BY <1>3, <2>1, <2>2 DEF Return, Returns, IInv, Typed
  <2>4. Moves(d)
    BY <1>3, OnlyOneMoves
  <2>5. QED
    BY <2>3, <2>4 DEF OnlyFragileOops, Moves
<1>4. ASSUME NEW d \in cast, Refuse(d) PROVE OnlyFragileOops'
  <2>1. <<Step(d), got[d]>> \in Points(d) /\ d \in Drivers /\ CanFail(Step(d), got[d])
    BY <1>4, AtAStep DEF Refuse, At, Step, CanFail
  <2>2. d \notin Fragile => Step(d).ko # Oops
    BY <2>1 DEF IsSolid
  <2>3. d \notin Fragile => phase'[d] \in {phase[d], "out"}
    BY <1>4, <2>2 DEF Refuse, IInv, Typed
  <2>4. Moves(d)
    BY <1>4, OnlyOneMoves
  <2>5. QED
    BY <2>3, <2>4 DEF OnlyFragileOops, Moves
<1>5. QED
  BY <1>1, <1>2, <1>3, <1>4 DEF Next

(* A driver whose outline has no step that uses a pointer it may not have  *)
(* does not take the kernel down, whatever is refused.                     *)
THEOREM SolidDriversStayUp ==
  ASSUME \A d \in Drivers \ Fragile : IsSolid(d)
  PROVE  Spec => []OnlyFragileOops
<1>1. Init => OnlyFragileOops
  BY DEF Init, OnlyFragileOops
<1>2. IInv /\ OnlyFragileOops /\ [Next]_vars => OnlyFragileOops'
  BY SolidStep
<1>3. QED
  BY <1>1, <1>2, IInvHolds, PTL DEF Spec

(* The three together, for drivers whose outlines are those of their       *)
(* classes.                                                                *)
THEOREM ClassesAreKept ==
  ASSUME \A d \in Strict : LoadsCompletely(d),
         \A d \in Exact : ReleasesItsOwn(d),
         \A d \in Drivers \ Fragile : IsSolid(d)
  PROVE  Spec => []ErrorsAreHandled
<1>1. SuccessIsComplete /\ ReleasesAreMatched /\ OnlyFragileOops => ErrorsAreHandled
  BY DEF ErrorsAreHandled
<1>2. QED
  BY <1>1, StrictDriversAreComplete, ExactDriversAreMatched, SolidDriversStayUp, PTL

-----------------------------------------------------------------------------
(* Without a robber nobody but a process that is not alone loses anything: *)
(* the releases of the others meet nothing that is not theirs.             *)
LEMMA NothingIsStolen ==
  ASSUME \A d \in Drivers \ Robbers : TakesItsOwn(d), IInv, OnlyRobbed,
         cast \cap Robbers = {}, NEW d \in cast, Busy(d), op[d] <= Len(Steps(d)), NEW R,
         \/ CanFail(Step(d), got[d]) /\ R = Step(d).undo
         \/ R = Returns(Step(d), got[d])
  PROVE  Stolen(d, R) = {}
<1>1. <<Step(d), got[d]>> \in Points(d) /\ d \in Drivers \ Robbers
  BY AtAStep
<1>2. R \cap Unowned \subseteq IF d \in Programs THEN {} ELSE got[d]
  BY <1>1 DEF TakesItsOwn
<1>3. d \notin Programs => lost[d] = {}
  BY DEF OnlyRobbed
<1>4. QED
  BY <1>2, <1>3 DEF Stolen

LEMMA RobbedStep ==
  ASSUME \A d \in Drivers \ Robbers : TakesItsOwn(d), IInv, OnlyRobbed, [Next]_vars
  PROVE  OnlyRobbed'
<1>1. CASE UNCHANGED vars
  BY <1>1 DEF vars, OnlyRobbed
<1>2. ASSUME cast \cap Robbers # {}, Next PROVE OnlyRobbed'
  <2>1. cast' = cast
    BY <1>2, OnlyOneMoves DEF Next, Moves
  <2>2. QED
    BY <1>2, <2>1 DEF OnlyRobbed
<1>3. ASSUME NEW d \in cast, Load(d) \/ InitDone(d) \/ Unload(d) PROVE OnlyRobbed'
  <2>1. UNCHANGED <<cast, lost>>
    BY <1>3 DEF Load, InitDone, Unload
  <2>2. QED
    BY <2>1 DEF OnlyRobbed
<1>4. ASSUME NEW d \in cast, Obtain(d) PROVE OnlyRobbed'
  BY <1>4 DEF Obtain, OnlyRobbed
<1>5. ASSUME NEW d \in cast, cast \cap Robbers = {}, Return(d) PROVE OnlyRobbed'
  <2>1. Busy(d) /\ op[d] <= Len(Steps(d)) /\ Step(d).do = "put"
    BY <1>5 DEF Return, At, Step
  <2>2. Stolen(d, Returns(Step(d), got[d])) = {}
    BY <1>5, <2>1, NothingIsStolen
  <2>3. cast' = cast /\ Release(d, Returns(Step(d), got[d]), FALSE)
    BY <1>5, <2>1 DEF Return, Returns
  <2>4. QED
    BY <2>2, <2>3 DEF Release, OnlyRobbed
<1>6. ASSUME NEW d \in cast, cast \cap Robbers = {}, Refuse(d) PROVE OnlyRobbed'
  <2>1. Busy(d) /\ op[d] <= Len(Steps(d)) /\ CanFail(Step(d), got[d])
    BY <1>6 DEF Refuse, At, Step, CanFail
  <2>2. Stolen(d, Step(d).undo) = {}
    BY <1>6, <2>1, NothingIsStolen
  <2>3. cast' = cast /\ Release(d, Step(d).undo, Step(d).ko = Error)
    BY <1>6 DEF Refuse
  <2>4. QED
    BY <2>2, <2>3 DEF Release, OnlyRobbed
<1>7. ASSUME NEW d \in cast, ExitDone(d) PROVE OnlyRobbed'
  <2>1. Stolen(d, {}) = {}
    BY DEF Stolen
  <2>2. cast' = cast /\ Release(d, {}, TRUE)
    BY <1>7 DEF ExitDone
  <2>3. QED
    BY <2>1, <2>2 DEF Release, OnlyRobbed
<1>8. ASSUME NEW d \in cast, Unexport(d) PROVE OnlyRobbed'
  <2>1. Busy(d) /\ op[d] <= Len(Steps(d)) /\ Steps(d)[op[d]].do = "evict"
    BY <1>8 DEF Unexport, At
  <2>2. d \in Drivers /\ op[d] \in 1 .. Len(Steps(d))
    BY <2>1, AtAStep
  <2>3. d \in Programs
    BY <2>1, <2>2, OutlineAssumption DEF Steps
  <2>4. QED
    BY <1>8, <2>3 DEF Unexport, OnlyRobbed
<1>9. QED
  BY <1>1, <1>2, <1>3, <1>4, <1>5, <1>6, <1>7, <1>8 DEF Next

(* However many drivers are loaded, none that keeps to itself in its       *)
(* outline takes a pin or an interrupt away from another.                  *)
THEOREM OnlyRobbersRob ==
  ASSUME \A d \in Drivers \ Robbers : TakesItsOwn(d)
  PROVE  Spec => []OnlyRobbed
<1>1. Init => OnlyRobbed
  BY DEF Init, OnlyRobbed
<1>2. IInv /\ OnlyRobbed /\ [Next]_vars => OnlyRobbed'
  BY RobbedStep
<1>3. QED
  BY <1>1, <1>2, IInvHolds, PTL DEF Spec

-----------------------------------------------------------------------------
(* Nobody has or leaves behind what its init does not ask for.             *)
LEMMA TypeStep == ASSUME IInv, TypeOK, [Next]_vars PROVE TypeOK'
<1> DEFINE Kept(e) == lost[e] \subseteq got[e] /\ got[e] \cup orphans[e] \subseteq Wants(e)
<1>1. ASSUME UNCHANGED vars PROVE TypeOK'
  BY <1>1 DEF vars, TypeOK, Wants
<1>2. ASSUME NEW d \in cast,
             \/ Load(d) \/ Obtain(d) \/ Refuse(d) \/ Return(d) \/ Unexport(d)
             \/ InitDone(d) \/ Unload(d) \/ ExitDone(d)
      PROVE  TypeOK'
  <2>1. cast' = cast /\ DOMAIN got = cast
    BY <1>2, OnlyOneMoves DEF Moves, IInv, Typed
  <2>2. \A e \in cast : Kept(e)
    BY DEF TypeOK
  <2>3. \A e \in cast : Kept(e)'
    <3>1. ASSUME NEW R, NEW gone, Release(d, R, gone) PROVE \A e \in cast : Kept(e)'
      <4>1. Stolen(d, R) \cap got[d] \subseteq lost[d]
        BY DEF Stolen
      <4>2. QED
        BY <2>1, <2>2, <3>1, <4>1 DEF Release, Wants
    <3>2. CASE Load(d) \/ InitDone(d) \/ Unload(d)
      <4>1. UNCHANGED <<got, lost, orphans>>
        BY <3>2 DEF Load, InitDone, Unload
      <4>2. QED
        BY <2>2, <4>1 DEF Wants
    <3>3. CASE Obtain(d)
      <4>1. Busy(d) /\ op[d] <= Len(Steps(d)) /\ Step(d) = Steps(d)[op[d]]
        BY <3>3 DEF Obtain, At, Step
      <4>2. d \in Drivers /\ op[d] \in 1 .. Len(Steps(d))
        BY <4>1, AtAStep
      <4>3. CASE Step(d).do = "get"
        <5>1. Steps(d) = Ladder[d].init
          BY <4>1, <4>2, <4>3, OutlineAssumption DEF Steps
        <5>2. Step(d).what \subseteq Wants(d)
          BY <4>1, <4>2, <5>1 DEF Wants
        <5>3. QED
          BY <2>1, <2>2, <3>3, <4>3, <5>2 DEF Obtain, Wants
      <4>4. CASE Step(d).do # "get"
        <5>1. Step(d).what \subseteq got[d]
          BY <3>3, <4>4 DEF Obtain, At, Step
        <5>2. QED
          BY <2>1, <2>2, <3>3, <4>4, <5>1 DEF Obtain, Wants
      <4>5. QED
        BY <4>3, <4>4
    <3>4. CASE Unexport(d)
      BY <2>1, <2>2, <3>4 DEF Unexport, Wants
    <3>5. QED
      BY <1>2, <3>1, <3>2, <3>3, <3>4 DEF Refuse, Return, ExitDone
  <2>4. phase' \in [cast -> Phases]
    BY <1>2 DEF TypeOK, Load, Obtain, Refuse, Return, Unexport, InitDone, Unload, ExitDone, Phases
  <2>5. QED
    BY <2>1, <2>3, <2>4 DEF TypeOK, Phases
<1>3. QED
  BY <1>1, <1>2 DEF Next

(* Type correctness, for any drivers with outlines.                        *)
THEOREM TypeCorrect == Spec => []TypeOK
<1>1. Init => TypeOK
  BY OutlineAssumption DEF Init, TypeOK
<1>2. IInv /\ TypeOK /\ [Next]_vars => TypeOK'
  BY TypeStep
<1>3. QED
  BY <1>1, <1>2, IInvHolds, PTL DEF Spec
=============================================================================
