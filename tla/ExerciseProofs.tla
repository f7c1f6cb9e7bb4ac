--------------------------- MODULE ExerciseProofs ---------------------------
(***************************************************************************)
(* What the programs of the exercises promise when they run: the socket    *)
(* pair, better_led, the two threads of exercise 7 and the device of       *)
(* exercise 5, each of them an instance in Workspace.                      *)
(***************************************************************************)
EXTENDS Workspace, SequenceTheorems, TLAPS

-----------------------------------------------------------------------------
(* The socket pair.                                                        *)

Places ==
  {"socketpair", "fork", "unborn", "close_other", "setup_signals", "sleep",
   "write", "read", "close", "waitpid", "exited", "killed"}

PcOK ==
  /\ pair_pc \in [Pair!Processes -> Places]
  /\ open \in [Pair!Processes -> SUBSET {Pair!ParentEnd, Pair!ChildEnd}]
  /\ queue \in Seq(STRING)
  /\ sent \in Nat /\ (pair_pc["child"] = "write" => sent < Len(messages))
  /\ pair_pc["parent"] \notin {"unborn", "sleep", "write"}
  /\ pair_pc["child"] \notin {"socketpair", "fork", "read", "waitpid"}
  /\ pair_pc["parent"] \in {"socketpair", "fork"} => pair_pc["child"] = "unborn"

(* Each process keeps its own end until it has no use for it.              *)
EndsAreHeld ==
  /\ pair_pc["parent"] = "fork" => open["parent"] = {Pair!ParentEnd, Pair!ChildEnd}
  /\ pair_pc["child"] \in {"close_other", "setup_signals", "sleep", "write", "close"} =>
       Pair!ChildEnd \in open["child"]
  /\ pair_pc["parent"] \in {"close_other", "setup_signals", "read"} => Pair!ParentEnd \in open["parent"]

(* The child that has written "exit" writes no more.                       *)
ExitIsLast ==
  (\E k \in 1 .. Len(queue) : queue[k] = "exit") => pair_pc["child"] \in {"close", "exited", "killed"}

(* A parent that has shut down by itself has nothing to wait for.          *)
ShutdownIsLate ==
  "parent" \notin failed /\ pair_pc["parent"] \in {"close", "waitpid", "exited"} =>
    pair_pc["child"] \in {"unborn", "close", "exited", "killed"}

PairInv == PcOK /\ EndsAreHeld /\ ExitIsLast /\ ShutdownIsLate

(* An end that nobody holds is held by neither process.                    *)
LEMMA NobodyHolds ==
  ASSUME NEW end, Pair!Holders(end) = {}
  PROVE  end \notin open["parent"] /\ end \notin open["child"]
  BY Zenon DEF Pair!Holders, Pair!Processes

LEMMA PairInit == Pair!Init => PairInv
  BY DEF Pair!Init, PairInv, PcOK, EndsAreHeld, ExitIsLast, ShutdownIsLate, Pair!Processes, Places

(* Every step keeps the invariant.                                         *)
LEMMA PairNext == PairInv /\ [Pair!Next]_(Pair!vars) => PairInv'
<1> SUFFICES ASSUME PairInv, [Pair!Next]_(Pair!vars) PROVE PairInv'
  OBVIOUS
<1> USE PairAssumption DEF PairInv, PcOK, EndsAreHeld, ExitIsLast, ShutdownIsLate, Pair!Processes, Places,
      Pair!ParentEnd, Pair!ChildEnd, Pair!Goto, Pair!End, Pair!Fail
<1>1. CASE Pair!Socketpair
  BY <1>1 DEF Pair!Socketpair
<1>2. CASE Pair!Fork
  BY <1>2 DEF Pair!Fork
<1>3. ASSUME NEW x \in Pair!Processes, Pair!CloseOther(x) PROVE PairInv'
  BY <1>3 DEF Pair!CloseOther
<1>4. ASSUME NEW x \in Pair!Processes, Pair!SetupSignal(x) PROVE PairInv'
  BY <1>4 DEF Pair!SetupSignal
<1>5. ASSUME NEW x \in Pair!Processes, Pair!SetupDone(x) PROVE PairInv'
  BY <1>5 DEF Pair!SetupDone
<1>6. ASSUME NEW x \in Pair!Processes, NEW s \in Pair!Range(signals) \cup Uncaught, Pair!Kill(x, s) PROVE PairInv'
  BY <1>6 DEF Pair!Kill, Pair!Running, Pair!Ended
<1>7. CASE Pair!Sleep
  BY <1>7 DEF Pair!Sleep
<1>8. CASE Pair!Write
  <2>1. PICK m : m \in STRING /\ queue' = Append(queue, m)
                 /\ pair_pc' = [pair_pc EXCEPT !["child"] = IF m = "exit" THEN "close" ELSE "sleep"]
    <3>1. pair_pc["child"] = "write"
      BY <1>8 DEF Pair!Write
    <3>2. messages[sent + 1] \in STRING
      BY <3>1
    <3> QED  BY <1>8, <3>2 DEF Pair!Write
  <2> QED  BY <1>8, <2>1 DEF Pair!Write
<1>9. CASE Pair!WriteBroken
  BY <1>9 DEF Pair!WriteBroken
<1>10. CASE Pair!ChildClose
  BY <1>10 DEF Pair!ChildClose
<1>11. CASE Pair!Read
  BY <1>11 DEF Pair!Read
<1>12. CASE Pair!ReadEof
  <2>1. Pair!ChildEnd \notin open["child"]
    <3> HIDE DEF Pair!ChildEnd
    <3> QED  BY <1>12, NobodyHolds DEF Pair!ReadEof
  <2> QED  BY <1>12, <2>1 DEF Pair!ReadEof
<1>13. CASE Pair!ParentClose
  BY <1>13 DEF Pair!ParentClose
<1>14. CASE Pair!Waitpid
  BY <1>14 DEF Pair!Waitpid, Pair!Ended
<1>15. CASE Pair!WriteFails
  BY <1>15 DEF Pair!WriteFails
<1>16. CASE Pair!ReadFails
  BY <1>16 DEF Pair!ReadFails
<1>17. CASE UNCHANGED Pair!vars
  BY <1>17 DEF Pair!vars
<1> QED
  BY <1>1, <1>2, <1>3, <1>4, <1>5, <1>6, <1>7, <1>8, <1>9, <1>10, <1>11, <1>12, <1>13, <1>14, <1>15,
     <1>16, <1>17
     DEF Pair!Next, Pair!ParentStep, Pair!ChildStep, Pair!Step

(* The type invariant: what is queued and logged are messages.             *)
LEMMA PairTyping == Pair!Spec => []Pair!TypeOK
<1>1. Pair!Init => Pair!TypeOK
  BY PairAssumption DEF Pair!Init, Pair!TypeOK, Pair!Processes
<1>2. ASSUME PairInv, Pair!TypeOK, [Pair!Next]_(Pair!vars)
      PROVE  Pair!TypeOK'
  <2> DEFINE M == Pair!Range(messages)
             Texts == queue \in Seq(M) /\ logged \in Seq(M)
             Rest == /\ pair_caught \in [Pair!Processes -> 0 .. Len(signals)]
                     /\ sent \in 0 .. Len(messages) /\ failed \subseteq Pair!Processes
  <2>0. PcOK /\ PcOK' /\ Texts /\ Rest
    BY <1>2, PairNext DEF PairInv, Pair!TypeOK
  <2>1. ASSUME Texts', Rest' PROVE Pair!TypeOK'
    BY <2>0, <2>1 DEF PcOK, Places, Pair!Processes, Pair!TypeOK
  <2> HIDE DEF M
  <2> USE PairAssumption
  <2>2. ASSUME NEW x \in Pair!Processes, Pair!SetupSignal(x) PROVE Pair!TypeOK'
    <3>1. UNCHANGED <<queue, sent, logged>> /\ failed' \subseteq Pair!Processes
      BY <2>0, <2>2 DEF Pair!SetupSignal, Pair!Fail
    <3>2. pair_caught' \in [Pair!Processes -> 0 .. Len(signals)]
      <4>1. CASE UNCHANGED pair_caught
        BY <2>0, <4>1
      <4>2. CASE pair_caught[x] < Len(signals) /\ pair_caught' = [pair_caught EXCEPT ![x] = pair_caught[x] + 1]
        BY <2>0, <4>2
      <4> QED  BY <2>2, <4>1, <4>2 DEF Pair!SetupSignal
    <3> QED  BY <2>0, <2>1, <3>1, <3>2
  <2>3. CASE Pair!Write
    <3>1. sent + 1 \in 1 .. Len(messages)
      BY <2>0, <2>3 DEF Pair!Write, PcOK
    <3>2. messages[sent + 1] \in M
      BY <3>1 DEF Pair!Range, M
    <3> QED  BY <2>0, <2>1, <2>3, <3>1, <3>2 DEF Pair!Write
  <2>4. CASE Pair!Read
    BY <2>0, <2>1, <2>4 DEF Pair!Read
  <2>5. CASE Pair!ParentClose
    BY <2>0, <2>1, <2>5 DEF Pair!ParentClose
  <2>6. ASSUME UNCHANGED <<pair_caught, queue, sent, logged>>, failed' \subseteq Pair!Processes
        PROVE  Pair!TypeOK'
    BY <2>0, <2>1, <2>6
  <2>7. ASSUME NEW x \in Pair!Processes, NEW s, Pair!CloseOther(x) \/ Pair!SetupDone(x) \/ Pair!Kill(x, s)
        PROVE  Pair!TypeOK'
    BY <2>0, <2>6, <2>7 DEF Pair!CloseOther, Pair!SetupDone, Pair!Kill
  <2>8. CASE \/ Pair!Socketpair \/ Pair!Fork \/ Pair!Sleep \/ Pair!WriteBroken \/ Pair!ChildClose
             \/ Pair!ReadEof \/ Pair!Waitpid \/ UNCHANGED Pair!vars
    BY <2>0, <2>6, <2>8 DEF Pair!Socketpair, Pair!Fork, Pair!Sleep, Pair!WriteBroken, Pair!ChildClose,
       Pair!ReadEof, Pair!Waitpid, Pair!vars
  <2>9. CASE Pair!WriteFails \/ Pair!ReadFails
    BY <2>0, <2>6, <2>9 DEF Pair!WriteFails, Pair!ReadFails, Pair!Fail, Pair!Processes
  <2> QED
    BY <1>2, <2>2, <2>3, <2>4, <2>5, <2>7, <2>8, <2>9, Zenon
       DEF Pair!Next, Pair!ParentStep, Pair!ChildStep, Pair!Step, Pair!Processes
<1> QED  BY <1>1, <1>2, PairInit, PairNext, PTL DEF Pair!Spec

(* For all messages and signals: the child finds its reader gone only if   *)
(* the parent was killed or one of its calls has failed.                   *)
THEOREM ChildIsHeard == Pair!Spec => []Pair!ChildOutlivesClose
<1>1. PairInv => Pair!ChildOutlivesClose
  <2> SUFFICES ASSUME PairInv, pair_pc["child"] = "write", Pair!Holders(Pair!ParentEnd) = {}
               PROVE  pair_pc["parent"] = "killed" \/ "parent" \in failed
    BY DEF Pair!ChildOutlivesClose
  <2>1. Pair!ParentEnd \notin open["parent"]
    BY NobodyHolds
  <2> QED  BY <2>1 DEF PairInv, PcOK, EndsAreHeld, ShutdownIsLate, Pair!Processes, Places
<1> QED  BY <1>1, PairInit, PairNext, PTL DEF Pair!Spec

-----------------------------------------------------------------------------
(* The stream holds the messages sent last, and the log some of those that *)
(* were sent before them.                                                  *)
Gone == sent - Len(queue)

LogInv ==
  /\ logged \in Seq(STRING) /\ Gone \in Nat
  /\ \A k \in 1 .. Len(queue) : queue[k] = messages[Gone + k]
  /\ \E f \in [1 .. Len(logged) -> 1 .. Gone] :
       /\ \A k \in 1 .. Len(logged) : logged[k] = messages[f[k]]
       /\ \A j, k \in 1 .. Len(logged) : j < k => f[j] < f[k]

(* If the stream loses messages unseen, what is gone is only more.         *)
LEMMA LogIsKept ==
  ASSUME LogInv, UNCHANGED logged, Gone' \in Nat, Gone <= Gone',
         (\A k \in 1 .. Len(queue) : queue[k] = messages[Gone + k])'
  PROVE  LogInv'
<1>1. PICK f \in [1 .. Len(logged) -> 1 .. Gone] :
         /\ \A k \in 1 .. Len(logged) : logged[k] = messages[f[k]]
         /\ \A j, k \in 1 .. Len(logged) : j < k => f[j] < f[k]
  BY DEF LogInv
<1> HIDE DEF Gone
<1>2. f \in [1 .. Len(logged) -> 1 .. Gone']
  BY DEF LogInv
<1> QED  BY <1>1, <1>2 DEF LogInv

LEMMA LogStep ==
  ASSUME PairInv, LogInv, [Pair!Next]_(Pair!vars)
  PROVE  LogInv'
<1> USE PairAssumption
<1>0. queue \in Seq(STRING) /\ Len(queue) \in Nat /\ sent \in Nat /\ Gone \in Nat
  BY DEF PairInv, PcOK, LogInv
<1>1. CASE UNCHANGED <<queue, sent, logged>>
  BY <1>1 DEF LogInv, Gone
<1>2. CASE Pair!ParentClose
  <2>1. queue' = <<>> /\ UNCHANGED <<sent, logged>>
    BY <1>2 DEF Pair!ParentClose
  <2>2. Gone' \in Nat /\ Gone <= Gone'
    BY <1>0, <2>1 DEF Gone
  <2> QED  BY <2>1, <2>2, LogIsKept
<1>3. CASE Pair!Write
  <2>1. messages[sent + 1] \in STRING /\ sent + 1 <= Len(messages)
    BY <1>0, <1>3 DEF Pair!Write, PairInv, PcOK
  <2>2. /\ queue' = Append(queue, messages[sent + 1]) /\ sent' = sent + 1 /\ UNCHANGED logged
    BY <1>3 DEF Pair!Write
  <2>3. Len(queue') = Len(queue) + 1
    BY <1>0, <2>1, <2>2
  <2>4. Gone' = Gone
    BY <1>0, <2>2, <2>3 DEF Gone
  <2>5. ASSUME NEW k \in 1 .. Len(queue') PROVE queue'[k] = messages[Gone' + k]
    <3>1. CASE k <= Len(queue)
      BY <1>0, <2>1, <2>2, <2>3, <2>4, <3>1 DEF LogInv
    <3>2. CASE k = Len(queue) + 1
      <4>1. Gone' + k = sent + 1
        BY <1>0, <2>4, <3>2 DEF Gone
      <4>2. queue'[k] = messages[sent + 1]
        BY <1>0, <2>1, <2>2, <3>2
      <4> QED  BY <4>1, <4>2
    <3> QED  BY <1>0, <2>3, <3>1, <3>2
  <2> QED  BY <1>0, <2>2, <2>4, <2>5, LogIsKept
<1>4. CASE Pair!Read
  <2>1. queue # <<>> /\ queue' = <<>> /\ logged' = Append(logged, queue[1]) /\ UNCHANGED sent
    BY <1>4 DEF Pair!Read
  <2>2. Len(queue) >= 1 /\ queue[1] \in STRING
    BY <1>0, <2>1
  <2>3. queue[1] = messages[Gone + 1]
    BY <1>0, <2>2 DEF LogInv
  <2>4. Gone' = sent /\ Gone + 1 <= sent
    BY <1>0, <2>1, <2>2 DEF Gone
  <2>5. PICK f \in [1 .. Len(logged) -> 1 .. Gone] :
           /\ \A k \in 1 .. Len(logged) : logged[k] = messages[f[k]]
           /\ \A j, k \in 1 .. Len(logged) : j < k => f[j] < f[k]
    BY DEF LogInv
  <2> DEFINE n == Len(logged)
             h == [k \in 1 .. (n + 1) |-> IF k = n + 1 THEN Gone + 1 ELSE f[k]]
  <2>6. n \in Nat /\ logged \in Seq(STRING)
    BY DEF LogInv
  <2>7. logged' \in Seq(STRING) /\ Len(logged') = n + 1 /\ logged'[n + 1] = queue[1]
        /\ \A k \in 1 .. n : logged'[k] = logged[k]
    BY <2>1, <2>2, <2>6
  <2> HIDE DEF n, Gone
  <2>8. h \in [1 .. Len(logged') -> 1 .. Gone']
    <3>1. ASSUME NEW k \in 1 .. (n + 1) PROVE h[k] \in 1 .. Gone'
      <4>1. CASE k = n + 1
        BY <1>0, <2>4, <4>1
      <4>2. CASE k # n + 1
        <5>1. k \in 1 .. n
          BY <2>6, <4>2
        <5>2. f[k] \in 1 .. Gone
          BY <2>5, <5>1 DEF n
        <5> QED  BY <1>0, <2>4, <4>2, <5>2
      <4> QED  BY <4>1, <4>2
    <3> QED  BY <2>7, <3>1
  <2>9. ASSUME NEW k \in 1 .. Len(logged') PROVE logged'[k] = messages[h[k]]
    <3>1. CASE k = n + 1
      BY <2>3, <2>7, <3>1
    <3>2. CASE k # n + 1
      <4>1. k \in 1 .. n
        BY <2>6, <2>7, <3>2
      <4> QED  BY <2>5, <2>7, <3>2, <4>1 DEF n
    <3> QED  BY <3>1, <3>2
  <2>10. ASSUME NEW j \in 1 .. Len(logged'), NEW k \in 1 .. Len(logged'), j < k PROVE h[j] < h[k]
    <3>1. j \in 1 .. n /\ h[j] = f[j] /\ f[j] \in 1 .. Gone
      BY <2>5, <2>6, <2>7, <2>10 DEF n
    <3>2. CASE k = n + 1
      BY <1>0, <2>6, <3>1, <3>2
    <3>3. CASE k # n + 1
      <4>1. k \in 1 .. n /\ h[k] = f[k]
        BY <2>6, <2>7, <3>3
      <4> QED  BY <2>5, <2>10, <3>1, <4>1 DEF n
    <3> QED  BY <3>2, <3>3
  <2>11. Gone' \in Nat /\ \A k \in 1 .. Len(queue') : FALSE
    BY <1>0, <2>1, <2>4
  <2> QED  BY <2>7, <2>8, <2>9, <2>10, <2>11 DEF LogInv
<1> QED
  BY <1>1, <1>2, <1>3, <1>4
     DEF Pair!Next, Pair!ParentStep, Pair!ChildStep, Pair!Step, Pair!Socketpair, Pair!Fork, Pair!CloseOther, Pair!SetupSignal, Pair!SetupDone,
         Pair!Kill, Pair!Sleep, Pair!WriteFails, Pair!WriteBroken, Pair!ChildClose, Pair!ReadEof, Pair!ReadFails,
         Pair!Waitpid, Pair!vars

(* For all messages and signals, and however reads merge what was written: *)
(* the log is a part of the conversation, in its order and without repeats.*)
THEOREM LogFollowsTheChild == Pair!Spec => []Pair!LogIsInOrder
<1>1. Pair!Init => LogInv
  <2> SUFFICES ASSUME Pair!Init PROVE LogInv
    OBVIOUS
  <2>1. queue = <<>> /\ sent = 0 /\ logged = <<>>
    BY DEF Pair!Init
  <2>2. Len(queue) = 0 /\ Len(logged) = 0 /\ logged \in Seq(STRING)
    BY <2>1
  <2>3. Gone = 0
    <3>1. Gone = 0 - 0
      BY <2>1, <2>2, Zenon DEF Gone
    <3> QED  BY <3>1
  <2> HIDE DEF Gone
  <2>4. [k \in 1 .. 0 |-> 1] \in [1 .. Len(logged) -> 1 .. Gone]
    BY <2>2, <2>3
  <2>5. \A k \in 1 .. 0 : FALSE
    OBVIOUS
  <2> QED  BY <2>2, <2>3, <2>4, <2>5 DEF LogInv
<1>2. PairInv /\ LogInv /\ [Pair!Next]_(Pair!vars) => LogInv'
  BY LogStep
<1>3. PairInv /\ LogInv => Pair!LogIsInOrder
  <2> SUFFICES ASSUME PairInv, LogInv PROVE Pair!LogIsInOrder
    OBVIOUS
  <2>1. PICK f \in [1 .. Len(logged) -> 1 .. Gone] :
           /\ \A k \in 1 .. Len(logged) : logged[k] = messages[f[k]]
           /\ \A j, k \in 1 .. Len(logged) : j < k => f[j] < f[k]
    BY DEF LogInv
  <2>2. Gone \in Nat /\ sent \in Nat /\ Gone <= sent
    BY DEF LogInv, PairInv, PcOK, Gone
  <2>3. f \in [1 .. Len(logged) -> 1 .. sent]
    BY <2>2
  <2> QED  BY <2>1, <2>3 DEF Pair!LogIsInOrder
<1> QED  BY <1>1, <1>2, <1>3, PairInit, PairNext, PTL DEF Pair!Spec

-----------------------------------------------------------------------------
(* better_led.                                                             *)

(* Until somebody presses a button the thread goes through the reports of  *)
(* the start, in their order; from the second on the period is the largest.*)
Reported ==
  \/ /\ ready = <<0, 1, 2>> /\ events = <<>>
     /\ button_thread \in {"wait", "ended"} /\ blink_frequ_ms = MAX_BLINK_PERIOD_MS
  \/ /\ ready = <<>> /\ events \in {<<0, 1, 2>>, <<1, 2>>}
     /\ button_thread \in {"lock", "update", "unlock"}
  \/ /\ ready = <<>> /\ events = <<2>>
     /\ button_thread \in {"lock", "update", "unlock"} /\ blink_frequ_ms = MAX_BLINK_PERIOD_MS
  \/ /\ ready = <<>> /\ events = <<>>
     /\ button_thread \in {"unlock", "wait", "ended"} /\ blink_frequ_ms = MAX_BLINK_PERIOD_MS

LedInv ==
  /\ presses \in Nat
  /\ presses = 0 => Reported

LEMMA LedInit == Leds!Init => LedInv
  BY DEF Leds!Init, LedInv, Reported

LEMMA LedNext == LedInv /\ [Leds!Next]_(Leds!vars) => LedInv'
<1> SUFFICES ASSUME LedInv, [Leds!Next]_(Leds!vars) PROVE LedInv'
  OBVIOUS
<1> USE LedAssumption DEF LedInv
<1>1. ASSUME NEW b \in Leds!Buttons, Leds!Press(b) PROVE LedInv'
  BY <1>1 DEF Leds!Press
<1>2. CASE Leds!EpollWait
  BY <1>2 DEF Leds!EpollWait, Reported
<1>3. CASE Leds!EpollFails
  BY <1>3 DEF Leds!EpollFails, Reported
<1>4. CASE Leds!ButtonLock
  BY <1>4 DEF Leds!ButtonLock, Reported
<1>5. CASE Leds!Update
  <2> SUFFICES ASSUME presses = 0 PROVE Reported'
    BY <1>5 DEF Leds!Update
  <2>1. CASE events = <<0, 1, 2>>
    <3>1. events' = <<1, 2>>
      BY <1>5, <2>1 DEF Leds!Update
    <3> QED  BY <1>5, <2>1, <3>1 DEF Leds!Update, Reported
  <2>2. CASE events = <<1, 2>>
    <3>1. events' = <<2>> /\ Head(events) = 1
      BY <1>5, <2>2 DEF Leds!Update
    <3>2. blink_frequ_ms' = MAX_BLINK_PERIOD_MS
      BY <1>5, <3>1 DEF Leds!Update, Leds!Period
    <3> QED  BY <1>5, <2>2, <3>1, <3>2 DEF Leds!Update, Reported
  <2>3. CASE events = <<2>>
    <3>1. events' = <<>> /\ Head(events) = 2 /\ blink_frequ_ms = MAX_BLINK_PERIOD_MS
      BY <1>5, <2>3 DEF Leds!Update, Reported
    <3>2. blink_frequ_ms' = Leds!Min({MAX_BLINK_PERIOD_MS + BLINK_STEP_MS, MAX_BLINK_PERIOD_MS})
      BY <1>5, <3>1 DEF Leds!Update, Leds!Period
    <3>3. blink_frequ_ms' = MAX_BLINK_PERIOD_MS
      BY <3>2 DEF Leds!Min
    <3> QED  BY <1>5, <2>3, <3>1, <3>3 DEF Leds!Update, Reported
  <2> QED  BY <1>5, <2>1, <2>2, <2>3 DEF Leds!Update, Reported
<1>6. CASE Leds!ButtonUnlock
  BY <1>6 DEF Leds!ButtonUnlock, Reported
<1>7. CASE Leds!LedStep \/ Leds!Expire \/ Leds!CreateFails \/ Leds!SettimeFails \/ Leds!ReadFails \/ UNCHANGED Leds!vars
  <2>1. UNCHANGED <<presses, Leds!buttons, blink_frequ_ms>>
    BY <1>7 DEF Leds!LedStep, Leds!LedLock, Leds!Copy, Leds!LedUnlock, Leds!Settime, Leds!Read, Leds!Toggle, Leds!Expire, Leds!CreateFails, Leds!SettimeFails, Leds!ReadFails, Leds!vars
  <2> QED  BY <2>1 DEF Reported, Leds!buttons
<1> QED  BY <1>1, <1>2, <1>3, <1>4, <1>5, <1>6, <1>7 DEF Leds!Next, Leds!ButtonStep

(* Whatever the limits and the step, and wherever the LED thread is, the   *)
(* reports of the start leave the period where it was.                     *)
THEOREM StartIsQuiet == Leds!Spec => []Leds!QuietStart
<1>1. LedInv => Leds!QuietStart
  BY DEF LedInv, Reported, Leds!QuietStart
<1> QED  BY <1>1, LedInit, LedNext, PTL DEF Leds!Spec

(* The type invariant: the period stays within its limits, and epoll       *)
(* reports no button twice.                                                *)
LEMMA MaxOfTwo ==
  ASSUME NEW a \in Int, NEW b \in Int
  PROVE  Leds!Max({a, b}) \in {a, b} /\ Leds!Max({a, b}) >= a /\ Leds!Max({a, b}) >= b
<1>1. \E x \in {a, b} : \A y \in {a, b} : x >= y
  BY a >= b \/ b >= a
<1> QED  BY <1>1 DEF Leds!Max

LEMMA MinOfTwo ==
  ASSUME NEW a \in Int, NEW b \in Int
  PROVE  Leds!Min({a, b}) \in {a, b} /\ Leds!Min({a, b}) <= a /\ Leds!Min({a, b}) <= b
<1>1. \E x \in {a, b} : \A y \in {a, b} : x <= y
  BY a <= b \/ b <= a
<1> QED  BY <1>1 DEF Leds!Min

PeriodIsLimited == blink_frequ_ms \in MIN_BLINK_PERIOD_MS .. MAX_BLINK_PERIOD_MS

LEMMA PeriodStaysLimited ==
  ASSUME PeriodIsLimited, NEW b \in Leds!Buttons
  PROVE  Leds!Period(b) \in MIN_BLINK_PERIOD_MS .. MAX_BLINK_PERIOD_MS
<1> USE LedAssumption DEF PeriodIsLimited, Leds!Buttons
<1>1. CASE b = 0
  BY <1>1, MaxOfTwo DEF Leds!Period
<1>2. CASE b = 1
  BY <1>2 DEF Leds!Period
<1>3. CASE b = 2
  <2>1. Leds!Period(b) = Leds!Min({blink_frequ_ms + BLINK_STEP_MS, MAX_BLINK_PERIOD_MS})
    BY <1>3 DEF Leds!Period
  <2>2. blink_frequ_ms + BLINK_STEP_MS \in Int /\ MAX_BLINK_PERIOD_MS \in Int
    OBVIOUS
  <2> QED  BY <2>1, <2>2, MinOfTwo
<1> QED  BY <1>1, <1>2, <1>3

LEMMA AppendIsInjective ==
  ASSUME NEW s \in Seq(Leds!Buttons), Leds!IsInjective(s), NEW b \in Leds!Buttons, ~Leds!Contains(s, b)
  PROVE  Append(s, b) \in Seq(Leds!Buttons) /\ Leds!IsInjective(Append(s, b))
<1>1. Append(s, b) \in Seq(Leds!Buttons)
  OBVIOUS
<1>2. ASSUME NEW j \in DOMAIN Append(s, b), NEW k \in DOMAIN Append(s, b),
             Append(s, b)[j] = Append(s, b)[k]
      PROVE  j = k
  <2>1. j \in 1 .. Len(s) + 1 /\ k \in 1 .. Len(s) + 1 /\ Len(s) \in Nat
    BY <1>2
  <2>2. CASE j <= Len(s) /\ k <= Len(s)
    <3>1. s[j] = s[k] /\ j \in DOMAIN s /\ k \in DOMAIN s
      BY <1>2, <2>1, <2>2
    <3> QED  BY <3>1, Zenon DEF Leds!IsInjective
  <2>3. CASE j <= Len(s) /\ k = Len(s) + 1
    BY <1>2, <2>1, <2>3 DEF Leds!Contains
  <2>4. CASE j = Len(s) + 1 /\ k <= Len(s)
    BY <1>2, <2>1, <2>4 DEF Leds!Contains
  <2> QED  BY <2>1, <2>2, <2>3, <2>4
<1>3. Leds!IsInjective(Append(s, b))
  BY <1>2, Zenon DEF Leds!IsInjective
<1> QED  BY <1>1, <1>3

LEMMA TailIsInjective ==
  ASSUME NEW s \in Seq(Leds!Buttons), Leds!IsInjective(s), s # <<>>
  PROVE  /\ Tail(s) \in Seq(Leds!Buttons) /\ Head(s) \in Leds!Buttons
         /\ Leds!IsInjective(Tail(s))
<1>1. Tail(s) \in Seq(Leds!Buttons) /\ Head(s) \in Leds!Buttons
  OBVIOUS
<1>2. ASSUME NEW j \in DOMAIN Tail(s), NEW k \in DOMAIN Tail(s), Tail(s)[j] = Tail(s)[k]
      PROVE  j = k
  <2>1. j + 1 \in DOMAIN s /\ k + 1 \in DOMAIN s /\ s[j + 1] = s[k + 1] /\ j \in Nat /\ k \in Nat
    BY <1>2
  <2>2. j + 1 = k + 1
    BY <2>1, Zenon DEF Leds!IsInjective
  <2> QED  BY <2>1, <2>2
<1>3. Leds!IsInjective(Tail(s))
  BY <1>2, Zenon DEF Leds!IsInjective
<1> QED  BY <1>1, <1>3

(* An event is left for a thread on its way to handle one.                 *)
EventIsLeft == button_thread \in {"lock", "update"} => events # <<>>

LedTypeInv == Leds!TypeOK /\ EventIsLeft

LEMMA LedTyping == Leds!Spec => []Leds!TypeOK
<1>1. Leds!Init => LedTypeInv
  <2> SUFFICES ASSUME Leds!Init PROVE LedTypeInv
    OBVIOUS
  <2>1. <<0, 1, 2>> \in Seq(Leds!Buttons) /\ <<>> \in Seq(Leds!Buttons)
    BY DEF Leds!Buttons
  <2>2. Leds!IsInjective(<<0, 1, 2>>)
    <3>1. ASSUME NEW j \in 1 .. 3, NEW k \in 1 .. 3, <<0, 1, 2>>[j] = <<0, 1, 2>>[k] PROVE j = k
      BY <3>1
    <3>2. DOMAIN <<0, 1, 2>> = 1 .. 3
      OBVIOUS
    <3> QED  BY <3>1, <3>2 DEF Leds!IsInjective
  <2>3. Leds!IsInjective(<<>>)
    BY DEF Leds!IsInjective
  <2>4. /\ ready \in Seq(Leds!Buttons) /\ Leds!IsInjective(ready)
        /\ events \in Seq(Leds!Buttons) /\ Leds!IsInjective(events)
    BY <2>1, <2>2, <2>3, Zenon DEF Leds!Init
  <2>5. presses \in 0 .. MaxPresses /\ blink_frequ_ms \in MIN_BLINK_PERIOD_MS .. MAX_BLINK_PERIOD_MS
    BY LedAssumption DEF Leds!Init
  <2> QED  BY <2>4, <2>5 DEF Leds!Init, LedTypeInv, Leds!TypeOK, EventIsLeft, Leds!Free
<1>2. ASSUME LedTypeInv, [Leds!Next]_(Leds!vars)
      PROVE  LedTypeInv'
  <2> DEFINE T == 0 .. MaxPresses
             P == MIN_BLINK_PERIOD_MS .. MAX_BLINK_PERIOD_MS
             S == Seq(Leds!Buttons)
             Rest == /\ button_thread \in {"wait", "lock", "update", "unlock", "ended"}
                     /\ led_thread \in {"lock", "copy", "unlock", "settime", "read", "toggle", "ended"}
                     /\ lock \in {Leds!Free, "button", "led"}
                     /\ blink_frequ_ms \in P /\ {timer, interval} \subseteq {0} \cup P
                     /\ unset \in BOOLEAN /\ led_expired \in BOOLEAN /\ led_state \in BOOLEAN /\ led \in BOOLEAN
             Queues == /\ ready \in S /\ Leds!IsInjective(ready)
                       /\ events \in S /\ Leds!IsInjective(events)
  <2>0. presses \in T /\ Queues /\ Rest /\ EventIsLeft
    BY <1>2 DEF LedTypeInv, Leds!TypeOK
  <2>1. ASSUME presses' \in T, Queues', Rest', EventIsLeft'
        PROVE  LedTypeInv'
    BY <2>1 DEF LedTypeInv, Leds!TypeOK
  <2>2. Leds!IsInjective(<<>>) /\ <<>> \in S
    BY DEF Leds!IsInjective
  <2> HIDE DEF P, S, T
  <2>3. ASSUME NEW b \in Leds!Buttons, Leds!Press(b) PROVE LedTypeInv'
    <3>1. ready' \in S /\ Leds!IsInjective(ready')
      <4>1. CASE Leds!Contains(ready, b)
        BY <2>0, <2>3, <4>1 DEF Leds!Press
      <4>2. CASE ~Leds!Contains(ready, b)
        BY <2>0, <2>3, <4>2, AppendIsInjective DEF Leds!Press, S
      <4> QED  BY <4>1, <4>2
    <3>2. presses' \in T
      BY <2>0, <2>3, LedAssumption DEF Leds!Press, T
    <3> QED
      BY <2>0, <2>1, <2>3, <3>1, <3>2 DEF Leds!Press, Leds!blinker, EventIsLeft
  <2>4. CASE Leds!EpollWait
    BY <2>0, <2>1, <2>2, <2>4 DEF Leds!EpollWait, Leds!blinker, EventIsLeft
  <2>5. CASE Leds!Update
    <3>1. /\ events' \in S /\ Leds!IsInjective(events') /\ Head(events) \in Leds!Buttons
      BY <2>0, <2>5, TailIsInjective DEF Leds!Update, EventIsLeft, S
    <3>2. blink_frequ_ms' \in P
      <4>1. PeriodIsLimited
        BY <2>0 DEF PeriodIsLimited, P
      <4> QED  BY <2>5, <3>1, <4>1, PeriodStaysLimited DEF Leds!Update, P
    <3> QED  BY <2>0, <2>1, <2>5, <3>1, <3>2 DEF Leds!Update, Leds!blinker, EventIsLeft
  <2>6. CASE Leds!EpollFails \/ Leds!ButtonLock \/ Leds!ButtonUnlock
    BY <2>0, <2>1, <2>6 DEF Leds!EpollFails, Leds!ButtonLock, Leds!ButtonUnlock, Leds!blinker, EventIsLeft
  <2>7. CASE Leds!LedStep \/ Leds!Expire \/ Leds!CreateFails \/ Leds!SettimeFails \/ Leds!ReadFails
    BY <2>0, <2>1, <2>7 DEF Leds!LedStep, Leds!LedLock, Leds!Copy, Leds!LedUnlock, Leds!Settime,
       Leds!Read, Leds!Toggle, Leds!Expire, Leds!CreateFails, Leds!SettimeFails, Leds!ReadFails, Leds!buttons, EventIsLeft
  <2>8. CASE UNCHANGED Leds!vars
    BY <2>0, <2>1, <2>8 DEF Leds!vars, Leds!buttons, Leds!blinker, EventIsLeft
  <2> QED  BY <1>2, <2>3, <2>4, <2>5, <2>6, <2>7, <2>8 DEF Leds!Next, Leds!ButtonStep
<1>3. LedTypeInv => Leds!TypeOK
  BY DEF LedTypeInv
<1> QED  BY <1>1, <1>2, <1>3, PTL DEF Leds!Spec

-----------------------------------------------------------------------------
(* The two threads of exercise 7.                                          *)

KickerPlaces == {"none", "error", "created", "test", "ssleep", "set", "wake_up", "ended"}

WaiterPlaces ==
  {"none", "error", "created", "test", "queue", "condition", "asleep", "awake", "reset", "ended"}

(* How far skeleton_init and skeleton_exit have come tells which threads   *)
(* are there, and which are asked to stop and have ended.                  *)
ExitIsInOrder ==
  /\ kick_module = "create_1" => kick_pc["kicker"] = "none" /\ kick_pc["waiter"] = "none"
  /\ kick_module = "create_2" => kick_pc[Kick!Created[2]] = "none"
  /\ kick_module \in {"create_1", "create_2", "failed", "in", "stop_1"} => stop = {}
  /\ kick_module \in {"join_1", "stop_2"} => stop = {"kicker"}
  /\ kick_module \in {"stop_2", "join_2", "out"} => kick_pc["kicker"] = "ended"
  /\ kick_module \in {"join_2", "out"} => stop = {"kicker", "waiter"}
  /\ kick_module = "out" => kick_pc["waiter"] = "ended"

(* A waiter that is not asked to stop wakes up for a kick.  One that is    *)
(* asked to takes a kick back at most once more, and then tests.           *)
KicksAreThere ==
  /\ kick_pc["waiter"] = "awake" => is_kicked = 1 \/ "waiter" \in stop
  /\ is_kicked = -1 => "waiter" \in stop /\ kick_pc["waiter"] \in {"test", "ended"}

KickInv ==
  /\ solution \in {"student", "teacher"}
  /\ kick_pc \in [Kick!Threads -> KickerPlaces \cup WaiterPlaces]
  /\ Kick!TypeOK /\ ExitIsInOrder /\ KicksAreThere

LEMMA KickInit == Kick!Init => KickInv
  BY DEF Kick!Init, KickInv, Kick!TypeOK, ExitIsInOrder, KicksAreThere, Kick!Threads, Kick!Created,
     KickerPlaces, WaiterPlaces

(* Every step keeps the invariant.                                         *)
LEMMA KickNext == KickInv /\ [Kick!Next]_(Kick!vars) => KickInv'
<1> SUFFICES ASSUME KickInv, [Kick!Next]_(Kick!vars) PROVE KickInv'
  OBVIOUS
<1> USE DEF KickInv, Kick!TypeOK, ExitIsInOrder, KicksAreThere, Kick!Threads, Kick!Created,
      KickerPlaces, WaiterPlaces, Kick!Goto
<1>1. CASE Kick!Create1 \/ Kick!Create2
  BY <1>1 DEF Kick!Create1, Kick!Create2, Kick!Create
<1>2. CASE Kick!CreateFails1 \/ Kick!CreateFails2
  BY <1>2 DEF Kick!CreateFails1, Kick!CreateFails2, Kick!CreateFails
<1>3. CASE Kick!Unload
  BY <1>3 DEF Kick!Unload
<1>4. ASSUME NEW x \in Kick!Threads, Kick!Start(x) PROVE KickInv'
  BY <1>4 DEF Kick!Start
<1>5. CASE Kick!Test("kicker")
  BY <1>5 DEF Kick!Test
<1>6. CASE Kick!Test("waiter")
  BY <1>6 DEF Kick!Test
<1>7. CASE Kick!Ssleep
  BY <1>7 DEF Kick!Ssleep
<1>8. CASE Kick!SetKicked
  BY <1>8 DEF Kick!SetKicked
<1>9. CASE Kick!WakeUp
  BY <1>9 DEF Kick!WakeUp
<1>10. CASE Kick!Queue
  BY <1>10 DEF Kick!Queue
<1>11. CASE Kick!Condition
  BY <1>11 DEF Kick!Condition
<1>12. CASE Kick!Woken
  BY <1>12 DEF Kick!Woken
<1>13. CASE Kick!Take
  BY <1>13 DEF Kick!Take
<1>14. CASE Kick!Reset
  BY <1>14 DEF Kick!Reset
<1>15. CASE Kick!Stop1 \/ Kick!Stop2
  BY <1>15 DEF Kick!Stop1, Kick!Stop2, Kick!Stop, Kick!Stopped
<1>16. CASE Kick!Join1 \/ Kick!Join2
  BY <1>16 DEF Kick!Join1, Kick!Join2, Kick!Join, Kick!Stopped
<1>17. CASE UNCHANGED Kick!vars
  BY <1>17 DEF Kick!vars
<1> QED
  BY <1>1, <1>2, <1>3, <1>4, <1>5, <1>6, <1>7, <1>8, <1>9, <1>10, <1>11, <1>12, <1>13, <1>14,
     <1>15, <1>16, <1>17
     DEF Kick!Next, Kick!KickerStep, Kick!WaiterStep, Kick!ExitStep

LEMMA KickTyping == Kick!Spec => []Kick!TypeOK
<1>1. KickInv => Kick!TypeOK
  BY DEF KickInv
<1> QED  BY <1>1, KickInit, KickNext, PTL DEF Kick!Spec

(* For both solutions: whatever the two threads and rmmod do to each other,*)
(* the count of kicks stays at zero or above until the waiter is asked to  *)
(* stop, and the module takes both threads with it.                        *)
THEOREM ThreadsAreSound == Kick!Spec => [](Kick!NeverBelowZero /\ Kick!NobodyRunsOn)
<1>1. KickInv => Kick!NeverBelowZero /\ Kick!NobodyRunsOn
  BY DEF KickInv, Kick!TypeOK, ExitIsInOrder, KicksAreThere, Kick!NeverBelowZero, Kick!NobodyRunsOn,
     Kick!Threads
<1> QED  BY <1>1, KickInit, KickNext, PTL DEF Kick!Spec

-----------------------------------------------------------------------------
(* The device of exercise 5.                                               *)

(* What has an end: messages, and what failed writes leave of them.        *)
Texts == Seq(Bytes)

LEMMA TextsAre ==
  <<>> \in Texts /\ Messages \subseteq Texts /\ Garbage \notin Texts /\ Pending \notin Texts
BY ConfigAssumption, EmptySeq DEF Texts

ConfigTypeOK ==
  /\ config_module \in {"in", "exit", "out"}
  /\ config_pc \in [Files -> Config!Reading \cup Config!Writing \cup {"idle", "closed"}]
  /\ heap \subseteq Buffers /\ data \in Buffers \cup {Nothing}
  /\ text \in [Buffers -> {Garbage} \cup Texts] /\ pos \in [Files -> Nat]
  /\ fault \subseteq {"bad_copy", "freed_twice", "used_after_free", "null", "overrun"}
  /\ p \in [Files -> Buffers \cup {Nothing}]
  /\ msg \in [Files -> {Garbage} \cup Texts]
  /\ DOMAIN answer = Files /\ raced \in BOOLEAN
  /\ \A f \in Files : config_pc[f] \in Config!Writing => msg[f] \in Messages

(* The kernel unloads a module that nobody has open.                       *)
ExitIsAlone ==
  config_module # "in" => data = Nothing /\ \A f \in Files : config_pc[f] = "closed"

(* Without a race a write is alone with the message.                       *)
WritesAreAlone ==
  \A f, g \in Files :
    f # g /\ config_pc[f] \in Config!Writing => config_pc[g] \notin Config!Reading \cup Config!Writing

(* The pointer goes to the one buffer that is allocated, with what there is*)
(* to read.                                                                *)
OneBuffer ==
  \/ data = Nothing /\ heap = {} /\ (config_module = "in" => last = <<>>)
  \/ data \in Buffers /\ heap = {data} /\ last = text[data]

(* m is a piece of the text s, from place i on.                            *)
Found(s, i, m) ==
  /\ m \in Texts /\ m # <<>> /\ s \in Texts
  /\ i + Len(m) <= Len(s) /\ m = SubSeq(s, i + 1, i + Len(m))

LEMMA FindPiece ==
  ASSUME NEW s \in Texts, NEW i \in Nat, NEW n \in 1 .. Len(s) - i
  PROVE  Found(s, i, SubSeq(s, i + 1, i + n))
<1>1. Len(s) \in Nat /\ \A k \in 1 .. Len(s) : s[k] \in Bytes
  BY DEF Texts
<1>2. SubSeq(s, i + 1, i + n) \in Seq(Bytes) /\ Len(SubSeq(s, i + 1, i + n)) = n
  BY <1>1, SubSeqProperties
<1> QED  BY <1>1, <1>2, EmptySeq DEF Found, Texts

LEMMA CutText ==
  ASSUME NEW m \in Texts, NEW k \in 0 .. Len(m) - 1
  PROVE  SubSeq(m, 1, k) \in Texts
<1>1. Len(m) \in Nat /\ \A j \in 1 .. Len(m) : m[j] \in Bytes
  BY DEF Texts
<1> QED  BY <1>1, SubSeqProperties DEF Texts

(* What an operation has found of it is still so.                          *)
StillThere(f) ==
  /\ config_pc[f] \in {"strlen", "copy_out", "kfree", "copy_in", "terminate"} => data # Nothing
  /\ config_pc[f] \in {"kfree", "copy_in", "terminate"} => p[f] = data
  /\ config_pc[f] = "copy_out" => Found(text[data], pos[f], msg[f])
  /\ config_pc[f] = "copy_in" => text[data] = Garbage
  /\ config_pc[f] = "null" => heap = {}
  /\ config_pc[f] = "kmalloc" => data = Nothing

(* A buffer that has no end is being written.                              *)
EndIsThere ==
  \/ data = Nothing \/ text[data] # Garbage
  \/ \E f \in Files : config_pc[f] \in {"null", "copy_in", "terminate"}

NoRace ==
  /\ WritesAreAlone /\ EndIsThere
  /\ (\A f \in Files : config_pc[f] # "null") => OneBuffer
  /\ \A f \in Files : StillThere(f)
  /\ fault \subseteq {"bad_copy"}

ConfigInv == ConfigTypeOK /\ ExitIsAlone /\ (~raced => NoRace)

LEMMA ConfigInit == Config!Init => ConfigInv
<1> SUFFICES ASSUME Config!Init PROVE ConfigInv
  OBVIOUS
<1>1. ConfigTypeOK
  BY TextsAre DEF Config!Init, ConfigTypeOK, Config!Reading, Config!Writing
<1>2. ExitIsAlone /\ WritesAreAlone /\ EndIsThere /\ OneBuffer /\ (\A f \in Files : StillThere(f))
  BY DEF Config!Init, ExitIsAlone, WritesAreAlone, OneBuffer, StillThere, EndIsThere,
     Config!Reading, Config!Writing
<1> QED  BY <1>1, <1>2 DEF Config!Init, ConfigInv, NoRace

(* Every step keeps the type invariant and leaves an unloaded module alone.*)
LEMMA ConfigTypeNext ==
  ConfigTypeOK /\ ExitIsAlone /\ [Config!Next]_(Config!vars) => ConfigTypeOK' /\ ExitIsAlone'
<1> SUFFICES ASSUME ConfigTypeOK, ExitIsAlone, [Config!Next]_(Config!vars)
             PROVE  ConfigTypeOK' /\ ExitIsAlone'
  OBVIOUS
<1> USE TextsAre DEF ConfigTypeOK, ExitIsAlone, Config!Reading, Config!Writing, Config!Goto, Config!Return
<1>1. ASSUME NEW f \in Files, Config!Open(f) PROVE ConfigTypeOK' /\ ExitIsAlone'
  BY <1>1 DEF Config!Open
<1>2. ASSUME NEW f \in Files, Config!Close(f) PROVE ConfigTypeOK' /\ ExitIsAlone'
  BY <1>2 DEF Config!Close
<1>3. ASSUME NEW f \in Files, Config!ReadBegin(f) PROVE ConfigTypeOK' /\ ExitIsAlone'
  BY <1>3 DEF Config!ReadBegin
<1>4. ASSUME NEW f \in Files, Config!ReadTest(f) PROVE ConfigTypeOK' /\ ExitIsAlone'
  <2>1. CASE data = Nothing /\ Config!Return(f) /\ answer' = [answer EXCEPT ![f] = <<>>]
    BY <1>4, <2>1 DEF Config!ReadTest
  <2>2. CASE data # Nothing /\ Config!Goto(f, "strlen") /\ UNCHANGED <<p, msg, answer>>
    BY <1>4, <2>2 DEF Config!ReadTest
  <2> QED  BY <1>4, <2>1, <2>2 DEF Config!ReadTest
<1>5. ASSUME NEW f \in Files, Config!ReadLength(f) PROVE ConfigTypeOK' /\ ExitIsAlone'
  <2>1. /\ config_pc[f] = "strlen" /\ fault' = fault \cup Config!Wrong(data)
        /\ UNCHANGED <<config_module, pos, data, heap, text, raced, last>>
    BY <1>5 DEF Config!ReadLength
  <2>2. /\ DOMAIN answer' = Files /\ p' \in [Files -> Buffers \cup {Nothing}]
        /\ \E there \in {"idle", "copy_out"} : config_pc' = [config_pc EXCEPT ![f] = there]
    BY <1>5 DEF Config!ReadLength
  <2>3. \E m \in {Garbage} \cup Texts : msg' = [msg EXCEPT ![f] = m]
    <3>1. ASSUME Config!TextAt(data) # Garbage, NEW n \in 1 .. Len(Config!TextAt(data)) - pos[f]
          PROVE  SubSeq(Config!TextAt(data), pos[f] + 1, pos[f] + n) \in Texts
      BY <3>1, FindPiece DEF Config!TextAt, Found
    <3> HIDE DEF Config!TextAt
    <3> QED  BY <1>5, <3>1 DEF Config!ReadLength
  <2>4. fault' \subseteq {"bad_copy", "freed_twice", "used_after_free", "null", "overrun"}
    BY <2>1 DEF Config!Wrong
  <2> QED  BY <2>1, <2>2, <2>3, <2>4
<1>6. ASSUME NEW f \in Files, Config!ReadCopy(f) PROVE ConfigTypeOK' /\ ExitIsAlone'
  <2>1. pos' \in [Files -> Nat]
    <3>1. msg[f] # Garbage => Len(msg[f]) \in Nat
      BY DEF Texts
    <3> QED  BY <1>6, <3>1 DEF Config!ReadCopy
  <2>2. DOMAIN answer' = Files /\ p' \in [Files -> Buffers \cup {Nothing}]
        /\ msg' = [msg EXCEPT ![f] = <<>>] /\ config_pc' = [config_pc EXCEPT ![f] = "idle"]
    BY <1>6 DEF Config!ReadCopy
  <2>3. fault' \subseteq {"bad_copy", "freed_twice", "used_after_free", "null", "overrun"}
    BY <1>6 DEF Config!Wrong, Config!ReadCopy
  <2>4. config_pc[f] = "copy_out" /\ UNCHANGED <<config_module, data, heap, text, raced>>
    BY <1>6 DEF Config!ReadCopy
  <2> QED  BY <2>1, <2>2, <2>3, <2>4
<1>7. ASSUME NEW f \in Files, Config!ReadFault(f) PROVE ConfigTypeOK' /\ ExitIsAlone'
  BY <1>7 DEF Config!ReadFault
<1>8. ASSUME NEW f \in Files, Config!WriteTest(f) PROVE ConfigTypeOK' /\ ExitIsAlone'
  BY <1>8 DEF Config!WriteTest
<1>9. ASSUME NEW f \in Files, Config!Kfree(f) PROVE ConfigTypeOK' /\ ExitIsAlone'
  BY <1>9 DEF Config!Kfree
<1>10. ASSUME NEW f \in Files, Config!Reset(f) PROVE ConfigTypeOK' /\ ExitIsAlone'
  BY <1>10 DEF Config!Reset
<1>11. ASSUME NEW f \in Files, Config!Kmalloc(f) PROVE ConfigTypeOK' /\ ExitIsAlone'
  BY <1>11 DEF Config!Kmalloc
<1>12. ASSUME NEW f \in Files, Config!KmallocFails(f) PROVE ConfigTypeOK' /\ ExitIsAlone'
  BY <1>12 DEF Config!KmallocFails
<1>13. ASSUME NEW f \in Files, Config!WriteCopy(f) PROVE ConfigTypeOK' /\ ExitIsAlone'
  BY <1>13 DEF Config!WriteCopy
<1>14. ASSUME NEW f \in Files, Config!WriteFault(f) PROVE ConfigTypeOK' /\ ExitIsAlone'
  <2>1. msg[f] \in Texts
    BY <1>14 DEF Config!WriteFault
  <2>2. PICK k \in 0 .. Len(msg[f]) - 1 : text' = [text EXCEPT ![p[f]] = SubSeq(msg[f], 1, k)]
    BY <1>14 DEF Config!WriteFault
  <2>3. SubSeq(msg[f], 1, k) \in Texts
    BY <2>1, CutText
  <2>4. text' \in [Buffers -> {Garbage} \cup Texts]
    BY <2>2, <2>3
  <2> QED  BY <1>14, <2>4 DEF Config!WriteFault
<1>15. ASSUME NEW f \in Files, Config!WriteEnd(f) PROVE ConfigTypeOK' /\ ExitIsAlone'
  BY <1>15 DEF Config!WriteEnd, Config!Wrong
<1>16. ASSUME NEW f \in Files, NEW m \in Messages, Config!WriteBegin(f, m)
       PROVE  ConfigTypeOK' /\ ExitIsAlone'
  BY <1>16 DEF Config!WriteBegin
<1>17. CASE Config!ExitFree
  BY <1>17 DEF Config!ExitFree
<1>18. CASE Config!ExitDel
  BY <1>18 DEF Config!ExitDel
<1>19. CASE UNCHANGED Config!vars
  BY <1>19 DEF Config!vars
<1> QED
  BY <1>1, <1>2, <1>3, <1>4, <1>5, <1>6, <1>7, <1>8, <1>9, <1>10, <1>11, <1>12, <1>13, <1>14, <1>15, <1>16, <1>17, <1>18, <1>19, Zenon
     DEF Config!Next, Config!FileStep

(* A reader that does not race finds the last message, with its end.       *)
LEMMA ReadersFindIt ==
  ASSUME ConfigInv, ~raced, NEW f \in Files, config_pc[f] \in {"strlen", "copy_out"}
  PROVE  /\ \A g \in Files : config_pc[g] \notin Config!Writing
         /\ data \in Buffers /\ data # Nothing /\ heap = {data} /\ last = text[data]
         /\ text[data] # Garbage /\ text[data] \in Texts
<1>1. \A g \in Files : config_pc[g] \notin Config!Writing
  BY DEF ConfigInv, NoRace, WritesAreAlone, Config!Reading, Config!Writing
<1>2. data # Nothing /\ OneBuffer
  BY <1>1 DEF ConfigInv, NoRace, StillThere, Config!Writing
<1>3. data \in Buffers /\ heap = {data} /\ last = text[data]
  BY <1>2 DEF OneBuffer
<1>4. text[data] # Garbage
  BY <1>1, <1>2 DEF ConfigInv, NoRace, EndIsThere, Config!Writing
<1> QED  BY <1>1, <1>2, <1>3, <1>4 DEF ConfigInv, ConfigTypeOK

(* Every step that does not race keeps the message in order.               *)
LEMMA ConfigNext == ConfigInv /\ [Config!Next]_(Config!vars) => ConfigInv'
<1> SUFFICES ASSUME ConfigInv, [Config!Next]_(Config!vars), ~raced'
             PROVE  NoRace'
  BY ConfigTypeNext DEF ConfigInv
<1> USE ConfigAssumption, TextsAre
    DEF ConfigInv, ConfigTypeOK, ExitIsAlone, NoRace, WritesAreAlone, OneBuffer,
      StillThere, EndIsThere, Config!Reading, Config!Writing, Config!Goto, Config!Return
<1>1. ASSUME NEW f \in Files, Config!Open(f) PROVE NoRace'
  BY <1>1 DEF Config!Open
<1>2. ASSUME NEW f \in Files, Config!Close(f) PROVE NoRace'
  BY <1>2 DEF Config!Close
<1>3. ASSUME NEW f \in Files, Config!ReadBegin(f) PROVE NoRace'
  <2>1. /\ UNCHANGED <<p, msg, pos, data, heap, text, fault, last, config_module>>
        /\ config_pc[f] = "idle" /\ config_pc' = [config_pc EXCEPT ![f] = "read"]
        /\ \A g \in Files \ {f} : config_pc[g] \notin Config!Writing
    BY <1>3 DEF Config!ReadBegin, Config!Others
  <2>2. \A g \in Files : \A x : x # "idle" /\ x # "read" => (config_pc'[g] = x <=> config_pc[g] = x)
    BY <2>1
  <2>3. NoRace
    BY <1>3 DEF Config!ReadBegin
  <2> HIDE DEF ConfigInv, ConfigTypeOK, ExitIsAlone
  <2>4. WritesAreAlone'
    BY <2>1, <2>2
  <2>5. EndIsThere'
    BY <2>1, <2>2, <2>3
  <2>6. (\A g \in Files : config_pc'[g] # "null") => OneBuffer'
    BY <2>1, <2>2, <2>3
  <2>7. \A g \in Files : StillThere(g)'
    BY <2>1, <2>2, <2>3
  <2>8. (fault \subseteq {"bad_copy"})'
    BY <2>1, <2>3
  <2> HIDE DEF WritesAreAlone, EndIsThere, OneBuffer, StillThere
  <2> QED  BY <2>4, <2>5, <2>6, <2>7, <2>8
<1>4. ASSUME NEW f \in Files, Config!ReadTest(f) PROVE NoRace'
  BY <1>4 DEF Config!ReadTest
<1>5. ASSUME NEW f \in Files, Config!ReadLength(f) PROVE NoRace'
  <2> USE <1>5 DEF Config!ReadLength, Config!Wrong, Config!TextAt
  <2>1. \A g \in Files : config_pc[g] \notin Config!Writing /\ config_pc'[g] \notin Config!Writing
    OBVIOUS
  <2>2. WritesAreAlone'
    BY <2>1
  <2>3. data # Nothing /\ data \in Buffers /\ heap = {data} /\ UNCHANGED <<data, heap, text, last>>
    BY <2>1
  <2>4. text[data] # Garbage
    BY <2>1, <2>3
  <2>5. (fault \subseteq {"bad_copy"})'
    BY <2>3, <2>4
  <2>6. EndIsThere'
    BY <2>3, <2>4
  <2>7. OneBuffer'
    BY <2>1, <2>3
  <2>8. ASSUME NEW g \in Files PROVE StillThere(g)'
    <3>1. CASE g # f
      BY <2>1, <2>3, <3>1
    <3>2. config_pc'[f] = "copy_out" => Found(text[data], pos[f], msg'[f])
      <4>1. text[data] \in Texts /\ pos[f] \in Nat /\ Config!TextAt(data) = text[data]
        BY <2>3, <2>4
      <4>2. CASE config_pc' = [config_pc EXCEPT ![f] = "idle"]
        BY <4>2
      <4>3. CASE \E n \in 1 .. Len(text[data]) - pos[f] :
                   msg' = [msg EXCEPT ![f] = SubSeq(text[data], pos[f] + 1, pos[f] + n)]
        BY <4>1, <4>3, FindPiece
      <4>4. \/ config_pc' = [config_pc EXCEPT ![f] = "idle"]
            \/ \E n \in 1 .. Len(text[data]) - pos[f] :
                 msg' = [msg EXCEPT ![f] = SubSeq(text[data], pos[f] + 1, pos[f] + n)]
        BY <2>4, <4>1
      <4> QED  BY <4>2, <4>3, <4>4
    <3>3. UNCHANGED pos /\ config_pc'[f] \in {"idle", "copy_out"}
      OBVIOUS
    <3>4. StillThere(f)'
      BY <2>3, <3>2, <3>3
    <3> QED  BY <3>1, <3>4
  <2> HIDE <1>5 DEF Config!ReadLength
  <2> QED  BY <2>2, <2>5, <2>6, <2>7, <2>8
<1>6. ASSUME NEW f \in Files, Config!ReadCopy(f) PROVE NoRace'
  <2> USE <1>6 DEF Config!ReadCopy, Config!Wrong, Config!TextAt
  <2>1. \A g \in Files : config_pc[g] \notin Config!Writing /\ config_pc'[g] \notin Config!Writing
    OBVIOUS
  <2>2. WritesAreAlone'
    BY <2>1
  <2>3. data # Nothing /\ data \in Buffers /\ heap = {data} /\ UNCHANGED <<data, heap, text, last>>
    BY <2>1
  <2>4. text[data] # Garbage
    BY <2>1, <2>3
  <2>5. (fault \subseteq {"bad_copy"})'
    BY <2>3, <2>4
  <2>6. EndIsThere'
    BY <2>3, <2>4
  <2>7. OneBuffer'
    BY <2>1, <2>3
  <2>8. (\A g \in Files : StillThere(g))'
    BY <2>1, <2>3
  <2> HIDE <1>6 DEF Config!ReadCopy
  <2> QED  BY <2>2, <2>5, <2>6, <2>7, <2>8
<1>7. ASSUME NEW f \in Files, Config!ReadFault(f) PROVE NoRace'
  BY <1>7 DEF Config!ReadFault
<1>8. ASSUME NEW f \in Files, Config!WriteTest(f) PROVE NoRace'
  BY <1>8 DEF Config!WriteTest
<1>9. ASSUME NEW f \in Files, Config!Kfree(f) PROVE NoRace'
  <2> USE <1>9 DEF Config!Kfree
  <2>1. \A g \in Files \ {f} : config_pc'[g] = config_pc[g] /\ config_pc[g] \in {"idle", "closed"}
    OBVIOUS
  <2>2. WritesAreAlone'
    OBVIOUS
  <2>3. data # Nothing /\ p[f] = data /\ heap = {data} /\ data \in Buffers /\ last = text[data]
    BY <2>1
  <2>4. (fault \subseteq {"bad_copy"})'
    BY <2>3
  <2>5. EndIsThere'
    BY <2>3
  <2>6. ((\A g \in Files : config_pc[g] # "null") => OneBuffer)'
    BY <2>3
  <2>7. (\A g \in Files : StillThere(g))'
    BY <2>1, <2>3
  <2> HIDE <1>9 DEF Config!Kfree
  <2> QED  BY <2>2, <2>4, <2>5, <2>6, <2>7
<1>10. ASSUME NEW f \in Files, Config!Reset(f) PROVE NoRace'
  BY <1>10 DEF Config!Reset
<1>11. ASSUME NEW f \in Files, Config!Kmalloc(f) PROVE NoRace'
  BY <1>11 DEF Config!Kmalloc
<1>12. ASSUME NEW f \in Files, Config!KmallocFails(f) PROVE NoRace'
  BY <1>12 DEF Config!KmallocFails
<1>13. ASSUME NEW f \in Files, Config!WriteCopy(f) PROVE NoRace'
  <2> USE <1>13 DEF Config!WriteCopy
  <2>1. \A g \in Files \ {f} : config_pc'[g] = config_pc[g] /\ config_pc[g] \in {"idle", "closed"}
    OBVIOUS
  <2>2. WritesAreAlone'
    OBVIOUS
  <2>3. data # Nothing /\ p[f] = data /\ heap = {data} /\ data \in Buffers /\ last = text[data]
    BY <2>1
  <2>4. (fault \subseteq {"bad_copy"})'
    BY <2>3
  <2>5. EndIsThere'
    BY <2>3
  <2>6. ((\A g \in Files : config_pc[g] # "null") => OneBuffer)'
    BY <2>3
  <2>7. (\A g \in Files : StillThere(g))'
    BY <2>1, <2>3
  <2> HIDE <1>13 DEF Config!WriteCopy
  <2> QED  BY <2>2, <2>4, <2>5, <2>6, <2>7
<1>14. ASSUME NEW f \in Files, Config!WriteFault(f) PROVE NoRace'
  <2> USE <1>14 DEF Config!WriteFault
  <2>1. \A g \in Files \ {f} : config_pc'[g] = config_pc[g] /\ config_pc[g] \in {"idle", "closed"}
    OBVIOUS
  <2>2. WritesAreAlone' /\ config_pc'[f] = "idle"
    OBVIOUS
  <2>3. data # Nothing /\ p[f] = data /\ heap = {data} /\ data \in Buffers /\ msg[f] \in Texts
    BY <2>1
  <2>4. PICK k \in 0 .. Len(msg[f]) - 1 : /\ text' = [text EXCEPT ![p[f]] = SubSeq(msg[f], 1, k)]
                                          /\ last' = SubSeq(msg[f], 1, k)
    OBVIOUS
  <2>5. SubSeq(msg[f], 1, k) \in Texts
    BY <2>3, CutText
  <2>6. text'[data] = last' /\ last' \in Texts /\ UNCHANGED <<data, heap, config_module>>
    BY <2>3, <2>4, <2>5
  <2>7. (fault \subseteq {"bad_copy"})'
    BY <2>3
  <2> HIDE <1>14 DEF Config!WriteFault
  <2>8. EndIsThere' /\ OneBuffer'
    BY <2>3, <2>6
  <2>9. (\A g \in Files : StillThere(g))'
    BY <2>1, <2>2
  <2> QED  BY <2>2, <2>7, <2>8, <2>9
<1>15. ASSUME NEW f \in Files, Config!WriteEnd(f) PROVE NoRace'
  <2> USE <1>15 DEF Config!WriteEnd, Config!Wrong
  <2>1. \A g \in Files \ {f} : config_pc'[g] = config_pc[g] /\ config_pc[g] \in {"idle", "closed"}
    OBVIOUS
  <2>2. WritesAreAlone'
    OBVIOUS
  <2>3. data # Nothing /\ p[f] = data /\ heap = {data} /\ data \in Buffers /\ last = text[data]
    BY <2>1
  <2>4. (fault \subseteq {"bad_copy"})'
    BY <2>3
  <2>5. EndIsThere'
    BY <2>3
  <2>6. ((\A g \in Files : config_pc[g] # "null") => OneBuffer)'
    BY <2>3
  <2>7. (\A g \in Files : StillThere(g))'
    BY <2>1, <2>3
  <2> HIDE <1>15 DEF Config!WriteEnd
  <2> QED  BY <2>2, <2>4, <2>5, <2>6, <2>7
<1>16. ASSUME NEW f \in Files, NEW m \in Messages, Config!WriteBegin(f, m) PROVE NoRace'
  <2> USE <1>16 DEF Config!WriteBegin, Config!Others
  <2>1. \A g \in Files : config_pc[g] \in {"idle", "closed"}
    OBVIOUS
  <2>2. /\ \A g \in Files \ {f} : config_pc'[g] \in {"idle", "closed"}
        /\ config_pc'[f] = "write"
    BY <2>1
  <2>3. UNCHANGED <<data, heap, text, last, p, fault, config_module>>
    OBVIOUS
  <2>4. EndIsThere' /\ OneBuffer'
    BY <2>1, <2>3
  <2>5. WritesAreAlone' /\ (\A g \in Files : StillThere(g))'
    BY <2>2
  <2>6. (fault \subseteq {"bad_copy"})'
    BY <2>3
  <2> HIDE <1>16 DEF Config!WriteBegin, WritesAreAlone, EndIsThere, OneBuffer, StillThere
  <2> QED  BY <2>4, <2>5, <2>6
<1>17. CASE Config!ExitFree
  BY <1>17 DEF Config!ExitFree
<1>18. CASE Config!ExitDel
  BY <1>18 DEF Config!ExitDel
<1>19. CASE UNCHANGED Config!vars
  BY <1>19 DEF Config!vars
<1> QED
  BY <1>1, <1>2, <1>3, <1>4, <1>5, <1>6, <1>7, <1>8, <1>9, <1>10, <1>11, <1>12, <1>13, <1>14, <1>15, <1>16, <1>17, <1>18, <1>19, Zenon
     DEF Config!Next, Config!FileStep

LEMMA ConfigTyping == Config!Spec => []Config!TypeOK
<1>1. ConfigInv => Config!TypeOK
  BY DEF ConfigInv, ConfigTypeOK, Config!TypeOK, Texts
<1> QED  BY <1>1, ConfigInit, ConfigNext, PTL DEF Config!Spec

(* For every number of files, buffers and messages: without a race of a    *)
(* write nothing is freed or used wrongly, and exit leaves no buffer.      *)
THEOREM DeviceIsSound == Config!Spec => [](Config!FaultsNeedARace /\ Config!NothingIsLeaked)
<1>1. ConfigInv => Config!FaultsNeedARace /\ Config!NothingIsLeaked
  <2> SUFFICES ASSUME ConfigInv PROVE Config!FaultsNeedARace /\ Config!NothingIsLeaked
    OBVIOUS
  <2>1. Config!FaultsNeedARace
    BY DEF ConfigInv, NoRace, Config!FaultsNeedARace
  <2>2. ASSUME ~raced, config_module = "out" PROVE heap = {}
    BY <2>2, ConfigAssumption DEF ConfigInv, NoRace, ExitIsAlone, OneBuffer
  <2> QED  BY <2>1, <2>2 DEF Config!NothingIsLeaked
<1> QED  BY <1>1, ConfigInit, ConfigNext, PTL DEF Config!Spec

(* What a step that does not follow a race returns is a piece of the last  *)
(* message, from the position of the file on.                              *)
AnswersAreExact ==
  \A f \in Files : ~raced /\ answer[f] = Pending /\ answer'[f] # Pending => Config!Exact(f)

LEMMA ConfigAnswers == ConfigInv /\ [Config!Next]_(Config!vars) => AnswersAreExact
<1> SUFFICES ASSUME ConfigInv, [Config!Next]_(Config!vars), ~raced
             PROVE  AnswersAreExact
  BY DEF AnswersAreExact
<1> USE DEF Config!Return
<1>1. CASE UNCHANGED answer
  BY <1>1 DEF AnswersAreExact
<1>2. ASSUME NEW f \in Files, Config!ReadBegin(f) \/ \E m \in Messages : Config!WriteBegin(f, m)
      PROVE  AnswersAreExact
  <2>1. answer' = [answer EXCEPT ![f] = Pending]
    BY <1>2 DEF Config!ReadBegin, Config!WriteBegin
  <2> QED  BY <2>1 DEF AnswersAreExact, ConfigInv, ConfigTypeOK
<1>3. ASSUME NEW f \in Files, Config!ReadTest(f) PROVE AnswersAreExact
  <2>1. CASE UNCHANGED answer
    BY <2>1 DEF AnswersAreExact
  <2>2. CASE data = Nothing /\ answer' = [answer EXCEPT ![f] = <<>>]
    <3>1. config_pc[f] = "read" /\ config_module = "in" /\ UNCHANGED pos /\ pos[f] \in Nat
      BY <1>3 DEF Config!ReadTest, ConfigInv, ConfigTypeOK, ExitIsAlone
    <3>2. \A g \in Files : config_pc[g] # "null"
      BY <3>1 DEF ConfigInv, NoRace, WritesAreAlone, Config!Writing, Config!Reading
    <3>3. last = <<>>
      BY <2>2, <3>1, <3>2, ConfigAssumption DEF ConfigInv, NoRace, OneBuffer
    <3>4. Config!Exact(f)
      BY <2>2, <3>1, <3>3 DEF Config!Exact, ConfigInv, ConfigTypeOK
    <3> QED  BY <2>2, <3>4 DEF AnswersAreExact, ConfigInv, ConfigTypeOK
  <2> QED  BY <1>3, <2>1, <2>2 DEF Config!ReadTest
<1>4. ASSUME NEW f \in Files, Config!ReadLength(f) PROVE AnswersAreExact
  <2>1. CASE UNCHANGED answer
    BY <2>1 DEF AnswersAreExact
  <2>2. CASE /\ Config!TextAt(data) # Garbage => pos[f] >= Len(Config!TextAt(data))
             /\ answer' = [answer EXCEPT ![f] = <<>>]
    <3>1. /\ \A g \in Files : config_pc[g] # "null"
          /\ data # Nothing /\ last = text[data] /\ text[data] # Garbage /\ UNCHANGED pos
      BY <1>4, ReadersFindIt DEF Config!ReadLength, Config!Writing
    <3>2. pos[f] >= Len(last)
      BY <2>2, <3>1 DEF Config!TextAt
    <3>3. Config!Exact(f)
      BY <2>2, <3>1, <3>2 DEF Config!Exact, ConfigInv, ConfigTypeOK
    <3> QED  BY <2>2, <3>3 DEF AnswersAreExact, ConfigInv, ConfigTypeOK
  <2> QED  BY <1>4, <2>1, <2>2 DEF Config!ReadLength
<1>5. ASSUME NEW f \in Files, Config!ReadCopy(f) PROVE AnswersAreExact
  <2>1. data # Nothing /\ last = text[data] /\ text[data] # Garbage
    BY <1>5, ReadersFindIt DEF Config!ReadCopy, Config!Reading
  <2>2. Found(text[data], pos[f], msg[f])
    BY <1>5 DEF Config!ReadCopy, ConfigInv, NoRace, StillThere
  <2>3. Len(msg[f]) \in Nat \ {0} /\ Len(last) \in Nat /\ pos[f] \in Nat /\ msg[f] # Garbage
    BY <2>1, <2>2, EmptySeq, TextsAre DEF Found, Texts, ConfigInv, ConfigTypeOK
  <2>4. answer' = [answer EXCEPT ![f] = msg[f]] /\ pos' = [pos EXCEPT ![f] = pos[f] + Len(msg[f])]
    <3>1. Config!Measured(f)
      BY <2>1, <2>2, <2>3, Zenon DEF Found, Config!Measured, Config!TextAt
    <3> QED  BY <1>5, <2>3, <3>1 DEF Config!ReadCopy
  <2>5. answer'[f] = msg[f] /\ pos'[f] = pos[f] + Len(msg[f])
    BY <2>4 DEF ConfigInv, ConfigTypeOK
  <2>6. pos[f] + Len(msg[f]) <= Len(last) /\ msg[f] = SubSeq(last, pos[f] + 1, pos[f] + Len(msg[f]))
    BY <2>1, <2>2 DEF Found
  <2>7. Config!Exact(f)
    BY <2>3, <2>5, <2>6 DEF Config!Exact
  <2> QED  BY <2>4, <2>7 DEF AnswersAreExact, ConfigInv, ConfigTypeOK
<1> QED
  BY <1>1, <1>2, <1>3, <1>4, <1>5
     DEF Config!Next, Config!FileStep, Config!Open, Config!Close,
         Config!ReadFault, Config!WriteTest, Config!Kfree, Config!Reset, Config!Kmalloc,
         Config!KmallocFails, Config!WriteCopy, Config!WriteFault, Config!WriteEnd,
         Config!ExitFree, Config!ExitDel, Config!vars
=============================================================================
