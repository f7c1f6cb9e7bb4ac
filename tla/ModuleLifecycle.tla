--------------------------- MODULE ModuleLifecycle ---------------------------
(***************************************************************************)
(* Loading and unloading: the kernel modules of src/02_modules and         *)
(* src/03_drivers, those of teacher_solutions, and the programs that take  *)
(* GPIOs through sysfs.  What each of them obtains and gives back, in its  *)
(* own order and with its own reaction to every failure, is a ladder; the  *)
(* ladders of the repository are in DriverLadders.                         *)
(*                                                                         *)
(* A step of init asks the kernel for a resource.  If the kernel refuses,  *)
(* init gives back what this step's error path gives back and goes on,     *)
(* returns an error, or follows a bad pointer.  Modules are loaded at any  *)
(* time, also several at once, and want the same pins, interrupt lines and *)
(* names.                                                                  *)
(***************************************************************************)
EXTENDS Integers, Sequences

CONSTANTS
  Drivers,      \* the modules and programs
  Programs,     \* those of them that are processes
  Ladder,       \* of each one, what init and exit do: two sequences of steps
  Casts,        \* bound: the sets of drivers that are used together
  Unique,       \* resources that only one can have
  Clashes,      \* pairs of resources that cannot both be held
  Refused,      \* requests that the kernel always refuses
  Forgiving,    \* resources whose release accepts, or is preceded by a test
                \* for, what was never obtained
  Fatal,        \* resources whose release follows a bad pointer then
  Unowned,      \* resources whose release does not ask who the owner is
  Careful,      \* drivers that give everything back on every path that does
                \* not follow a bad pointer
  Exact,        \* drivers that give back nothing they did not obtain
  Strict,       \* drivers that are not loaded with something missing
  Fragile,      \* drivers that can follow a bad pointer
  Robbers,      \* modules that release what they did not obtain
  Outline       \* of each driver, what it can hold before each step of init
                \* and of exit: two functions from their numbers to sets

(* Where a step goes on when it fails: so many steps further, or ...       *)
Done  == 100    \* ... init returns success
Error == 0      \* ... init returns an error
Oops  == -1     \* ... a bad pointer is followed

(* A step asks for a resource, or needs resources that were asked for, and *)
(* gives back others if that fails; or it gives back resources, if certain *)
(* others were obtained; or it unexports a pin.                            *)
Get(r, undo, ko)  == [do |-> "get", what |-> {r}, when |-> {}, undo |-> undo, ko |-> ko]
Need(R, undo, ko) == [do |-> "need", what |-> R, when |-> {}, undo |-> undo, ko |-> ko]
PutIf(R, when)    == [do |-> "put", what |-> R, when |-> when, undo |-> {}, ko |-> 1]
Put(R)            == PutIf(R, {})
Evict(r)          == [do |-> "evict", what |-> {r}, when |-> {}, undo |-> {}, ko |-> 1]

VARIABLES
  cast,      \* the drivers of this behaviour
  phase,     \* "out", "init", "in", "exit" or "oops"
  op,        \* the step of init or exit that comes next
  got,       \* what the driver has obtained and not given back
  lost,      \* what others have released of that since
  orphans,   \* what it had when it was gone, and still exists
  misused    \* what it has released without having obtained it

vars == <<cast, phase, op, got, lost, orphans, misused>>

(* What the kernel records as taken.                                       *)
Taken == UNION {(got[e] \ lost[e]) \cup orphans[e] : e \in cast}

Free(r) ==
  /\ r \notin Refused
  /\ \A q \in Taken : ~(q = r /\ r \in Unique) /\ {q, r} \notin Clashes

Steps(d) == IF phase[d] = "exit" THEN Ladder[d].exit ELSE Ladder[d].init
Busy(d)  == phase[d] \in {"init", "exit"}
At(d, do) == Busy(d) /\ op[d] <= Len(Steps(d)) /\ Steps(d)[op[d]].do = do
Step(d)  == Steps(d)[op[d]]

-----------------------------------------------------------------------------
Init ==
  /\ cast \in Casts
  /\ phase = [d \in cast |-> "out"] /\ op = [d \in cast |-> 1]
  /\ got = [d \in cast |-> {}] /\ lost = [d \in cast |-> {}]
  /\ orphans = [d \in cast |-> {}] /\ misused = [d \in cast |-> {}]

Load(d) ==
  /\ phase[d] = "out"
  /\ phase' = [phase EXCEPT ![d] = "init"] /\ op' = [op EXCEPT ![d] = 1]
  /\ misused' = [misused EXCEPT ![d] = {}]
  /\ UNCHANGED <<cast, got, lost, orphans>>

Obtain(d) ==
  /\ \/ At(d, "get") /\ \A r \in Step(d).what : Free(r)
     \/ At(d, "need") /\ Step(d).what \subseteq got[d]
  /\ got' = [got EXCEPT ![d] = @ \cup Step(d).what]
  /\ lost' = IF Step(d).do = "get" THEN [lost EXCEPT ![d] = @ \ Step(d).what] ELSE lost
  /\ op' = [op EXCEPT ![d] = @ + 1]
  /\ UNCHANGED <<cast, phase, orphans, misused>>

(* What others lose when d releases R: a pin or an interrupt that d does   *)
(* not have, or has lost before, goes away whoever has it.                 *)
Stolen(d, R) == (R \cap Unowned) \ (got[d] \ lost[d])

(* Mutant: what was lost is not forgotten with the rest.                   *)
ReleaseLost(d, R, gone) ==
  LET rest == got[d] \ R IN
  /\ got' = [got EXCEPT ![d] = IF gone THEN {} ELSE rest]
  /\ lost' = [e \in cast |-> lost[e] \cup (got[e] \cap Stolen(d, R))]
  /\ orphans' = [e \in cast |-> (orphans[e] \ Stolen(d, R)) \cup
                                     IF e = d /\ gone THEN rest \ lost[d] ELSE {}]
  /\ misused' = [misused EXCEPT ![d] = @ \cup (R \ (got[d] \cup Forgiving))]

(* d releases R; if it is gone with that, nobody knows of the rest.        *)
Release(d, R, gone) ==
  LET rest == got[d] \ R IN
  /\ got' = [got EXCEPT ![d] = IF gone THEN {} ELSE rest]
  /\ lost' = [e \in cast |-> IF e # d THEN lost[e] \cup (got[e] \cap Stolen(d, R))
                                ELSE IF gone THEN {} ELSE lost[d] \ R]
  /\ orphans' = [e \in cast |-> (orphans[e] \ Stolen(d, R)) \cup
                                     IF e = d /\ gone THEN rest \ lost[d] ELSE {}]
  /\ misused' = [misused EXCEPT ![d] = @ \cup (R \ (got[d] \cup Forgiving))]

(* The kernel may refuse anything; a module whose init returns an error is *)
(* freed, and exit is never called.                                        *)
Refuse(d) ==
  /\ \/ At(d, "get")
     \/ At(d, "need") /\ ~(Step(d).what \subseteq got[d])
  /\ Release(d, Step(d).undo, Step(d).ko = Error)
  /\ phase' = [phase EXCEPT ![d] = CASE Step(d).ko = Error -> "out"
                                     [] Step(d).ko = Oops -> "oops" [] OTHER -> @]
  /\ op' = [op EXCEPT ![d] = @ + Step(d).ko]
  /\ UNCHANGED cast

Return(d) ==
  /\ At(d, "put")
  /\ LET R == IF Step(d).when \subseteq got[d] THEN Step(d).what ELSE {} IN
     /\ Release(d, R, FALSE)
     /\ phase' = [phase EXCEPT ![d] = IF (R \cap Fatal) \subseteq got[d] THEN @ ELSE "oops"]
  /\ op' = [op EXCEPT ![d] = @ + 1]
  /\ UNCHANGED cast

(* A process unexports a pin: whichever process has exported it loses it;  *)
(* a pin that a module has requested cannot be unexported.                 *)
Unexport(d) ==
  /\ At(d, "evict")
  /\ got' = [got EXCEPT ![d] = @ \ Step(d).what]
  /\ lost' = [e \in cast |-> CASE e = d -> lost[d] \ Step(d).what
                                  [] e # d /\ e \in Programs -> lost[e] \cup (got[e] \cap Step(d).what)
                                  [] OTHER -> lost[e]]
  /\ orphans' = [e \in cast |-> IF e \in Programs THEN orphans[e] \ Step(d).what ELSE orphans[e]]
  /\ op' = [op EXCEPT ![d] = @ + 1]
  /\ UNCHANGED <<cast, phase, misused>>

InitDone(d) ==
  /\ phase[d] = "init" /\ op[d] > Len(Ladder[d].init)
  /\ phase' = [phase EXCEPT ![d] = "in"]
  /\ UNCHANGED <<cast, op, got, lost, orphans, misused>>

Unload(d) ==
  /\ phase[d] = "in"
  /\ phase' = [phase EXCEPT ![d] = "exit"] /\ op' = [op EXCEPT ![d] = 1]
  /\ UNCHANGED <<cast, got, lost, orphans, misused>>

ExitDone(d) ==
  /\ phase[d] = "exit" /\ op[d] > Len(Ladder[d].exit)
  /\ Release(d, {}, TRUE)
  /\ phase' = [phase EXCEPT ![d] = "out"]
  /\ UNCHANGED <<cast, op>>

-----------------------------------------------------------------------------
Next == \E d \in cast :
  \/ Load(d) \/ Obtain(d) \/ Refuse(d) \/ Return(d) \/ Unexport(d)
  \/ InitDone(d) \/ Unload(d) \/ ExitDone(d)

Spec == Init /\ [][Next]_vars

-----------------------------------------------------------------------------
Wants(d) == UNION {Ladder[d].init[k].what : k \in 1 .. Len(Ladder[d].init)}

TypeOK ==
  /\ cast \subseteq Drivers
  /\ phase \in [cast -> {"out", "init", "in", "exit", "oops"}]
  /\ \A d \in cast : lost[d] \subseteq got[d] /\ got[d] \cup orphans[d] \subseteq Wants(d)

(* Whichever request fails, and whatever the others do meanwhile, nothing  *)
(* that a careful driver has obtained outlives it.                         *)
NothingIsOrphaned == \A d \in cast \cap Careful : orphans[d] = {}

(* The error paths and the exit of an exact driver release nothing that    *)
(* this load of it has not obtained.                                       *)
ReleasesAreMatched == \A d \in cast \cap Exact : misused[d] = {}

(* A strict driver is loaded completely or not at all: no refusal is       *)
(* forgotten between the step that meets it and the value init returns.    *)
SuccessIsComplete ==
  \A d \in cast \cap Strict : phase[d] = "in" =>
    \A k \in 1 .. Len(Ladder[d].init) :
      Ladder[d].init[k].do = "get" => Ladder[d].init[k].what \subseteq got[d]

(* Nobody loses a pin or an interrupt, unless a module is about that       *)
(* releases what it never obtained (a victim that releases what it has     *)
(* lost can pass the loss on, to the robber even); or a process loses a pin*)
(* to another process.                                                     *)
OnlyRobbed ==
  \A d \in cast : lost[d] # {} =>
    cast \cap Robbers # {} \/ (d \in Programs /\ \E e \in cast \ {d} : e \in Programs)

(* Only drivers that use a pointer without a test can take the kernel down.*)
OnlyFragileOops == \A d \in cast : phase[d] = "oops" => d \in Fragile

(* What a failed request leads to, of each driver what its classes promise:*)
(* it is not forgotten, undoes nothing that was not done, and is not used  *)
(* as a pointer.                                                           *)
ErrorsAreHandled == SuccessIsComplete /\ ReleasesAreMatched /\ OnlyFragileOops

-----------------------------------------------------------------------------
(***************************************************************************)
(* Outlines: what a driver can hold before each step does not depend on the*)
(* other drivers, which can only make a request fail.  What a ladder does  *)
(* wrong can therefore be read off its outline, which closes every step    *)
(* under what the kernel may answer.                                       *)
(***************************************************************************)
Beyond(steps, k) == IF k > Len(steps) THEN Len(steps) + 1 ELSE k

CanFail(s, S) == s.do = "get" \/ (s.do = "need" /\ ~(s.what \subseteq S))
Returns(s, S) == IF s.do = "put" /\ s.when \subseteq S THEN s.what ELSE {}

(* What the outline O of these steps must contain if it has S before the   *)
(* step k.                                                                 *)
Permits(steps, O, k, S) ==
  LET s == steps[k] IN
  /\ s.ko \in {Error, Oops} \cup (Nat \ {0})
  /\ s.do = "get" /\ s.what \cap Refused = {} => S \cup s.what \in O[k + 1]
  /\ s.do = "need" /\ s.what \subseteq S => S \in O[k + 1]
  /\ CanFail(s, S) /\ s.ko \notin {Error, Oops} => S \ s.undo \in O[Beyond(steps, k + s.ko)]
  /\ s.do = "put" => S \ Returns(s, S) \in O[k + 1]
  /\ s.do = "evict" => S \ s.what \in O[k + 1]

Follows(steps, O) ==
  /\ Len(steps) \in Nat
  /\ \A k \in 1 .. Len(steps) : \A S \in O[k] : Permits(steps, O, k, S)

ASSUME OutlineAssumption ==
  /\ \A C \in Casts : C \subseteq Drivers
  /\ \A d \in Drivers :
       /\ {} \in Outline[d].init[1]
       /\ Follows(Ladder[d].init, Outline[d].init) /\ Follows(Ladder[d].exit, Outline[d].exit)
       /\ Outline[d].init[Len(Ladder[d].init) + 1] \subseteq Outline[d].exit[1]
       /\ \A k \in 1 .. Len(Ladder[d].init) : Ladder[d].init[k].do = "evict" => d \in Programs
       /\ \A k \in 1 .. Len(Ladder[d].exit) : Ladder[d].exit[k].do \in {"need", "put"}

(* The steps of d, with everything that d can hold before each.            *)
PointsOf(steps, O) == UNION {{<<steps[k], S>> : S \in O[k]} : k \in 1 .. Len(steps)}
Points(d) == PointsOf(Ladder[d].init, Outline[d].init) \cup PointsOf(Ladder[d].exit, Outline[d].exit)

Loaded(d) == Outline[d].init[Len(Ladder[d].init) + 1]
Gone(d)   == Outline[d].exit[Len(Ladder[d].exit) + 1]

(* Every error path gives back everything, and so does exit.               *)
LeavesNothing(d) ==
  /\ \A x \in Points(d) : CanFail(x[1], x[2]) /\ x[1].ko = Error => x[2] \subseteq x[1].undo
  /\ Gone(d) \subseteq {{}}

(* What is given back is there, or its release does not mind.              *)
ReleasesItsOwn(d) ==
  \A x \in Points(d) :
    /\ CanFail(x[1], x[2]) => x[1].undo \subseteq x[2] \cup Forgiving
    /\ Returns(x[1], x[2]) \subseteq x[2] \cup Forgiving

(* A pin or an interrupt that a module gives back is there; a process gives*)
(* back none.                                                              *)
TakesItsOwn(d) ==
  \A x \in Points(d) :
    LET own == IF d \in Programs THEN {} ELSE x[2] IN
    /\ CanFail(x[1], x[2]) => x[1].undo \cap Unowned \subseteq own
    /\ Returns(x[1], x[2]) \cap Unowned \subseteq own

(* init returns success with everything it has asked for.                  *)
LoadsCompletely(d) ==
  \A S \in Loaded(d) : \A k \in 1 .. Len(Ladder[d].init) :
    Ladder[d].init[k].do = "get" => Ladder[d].init[k].what \subseteq S

(* No bad pointer is followed.                                             *)
IsSolid(d) ==
  \A x \in Points(d) :
    /\ CanFail(x[1], x[2]) => x[1].ko # Oops
    /\ Returns(x[1], x[2]) \cap Fatal \subseteq x[2]

Class == [d \in Drivers |->
  [careful |-> LeavesNothing(d), exact |-> ReleasesItsOwn(d),
   strict  |-> LoadsCompletely(d), fragile |-> ~IsSolid(d),
   robber  |-> ~TakesItsOwn(d)]]

(* The classes are those of the outlines, exactly: a driver outside of a   *)
(* class has a refusal that makes it break the promise of the class.       *)
ClassesAreExact ==
  \A d \in cast :
    Class[d] = [careful |-> d \in Careful, exact |-> d \in Exact,
                strict  |-> d \in Strict, fragile |-> d \in Fragile,
                robber  |-> d \in Robbers]
=============================================================================
