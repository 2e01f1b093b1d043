---------------------------- MODULE OneCoreProofs -----------------------------
(***************************************************************************)
(* Proofs about the prioritised programs of MCTasks: PriorityMutex and     *)
(* EventTimer, for any delays and periods that satisfy their assumptions.  *)
(***************************************************************************)
EXTENDS MCTasks, SequenceTheorems, TLAPS

-----------------------------------------------------------------------------
(* Semaforo_Mutex_1 *)

LEMMA MutexInvariant == Spec => []MutexInv
<1> USE DelayAssumption
<1>1. Init => MutexInv
  BY DEF Init, MutexInv, TypeOK, HolderIsInside, WaitsForOneSleep, BoundedBlocking, Nobody
<1>2. MutexInv /\ [Next]_vars => MutexInv'
  <2> SUFFICES ASSUME MutexInv, [Next]_vars PROVE MutexInv'
    OBVIOUS
  <2> USE DEF MutexInv, TypeOK, HolderIsInside, WaitsForOneSleep, BoundedBlocking, Nobody
  <2>1. CASE LPTake
    BY <2>1 DEF LPTake, LPScheduled, HPReady
  <2>2. CASE LPBurst
    BY <2>2 DEF LPBurst
  <2>3. CASE LPGive
    BY <2>3 DEF LPGive
  <2>4. CASE HPTake
    BY <2>4 DEF HPTake
  <2>5. CASE HPBurst
    BY <2>5 DEF HPBurst
  <2>6. CASE HPGive
    BY <2>6 DEF HPGive, Given
  <2>7. CASE Tick
    <3>1. /\ UNCHANGED holder /\ sleep' \in [{"LP", "HP"} -> Nat]
          /\ sleep'.LP = IF sleep.LP > 0 THEN sleep.LP - 1 ELSE 0
      BY <2>7 DEF Tick, Wakes
    <3>2. /\ lp' = IF lp = "delay" /\ sleep'.LP = 0 THEN "give" ELSE lp
          /\ hp' = hp \/ (hp = "delay" /\ hp' = "take")
      BY <2>7, <3>1 DEF Tick, Wakes
    <3>3. waited' = IF hp = "wait" THEN Capped(waited) ELSE 0
      BY <2>7 DEF Tick
    <3>4. lp = "burst" /\ hp = "wait" => ~ticked /\ ticked'
      BY <2>7 DEF Tick, HPReady, LPReady
    <3>5. hp = "wait" => lp \in {"burst", "delay"}
      BY <2>7 DEF Tick, HPReady, LPReady
    <3>6. TypeOK' /\ HolderIsInside'
      BY <3>1, <3>2, <3>3 DEF Capped
    <3>7. WaitsForOneSleep' /\ BoundedBlocking'
      <4>1. CASE hp # "wait"
        BY <3>1, <3>2, <3>3, <4>1
      <4>2. CASE hp = "wait" /\ lp = "burst"
        BY <3>1, <3>2, <3>3, <3>4, <4>2 DEF Capped
      <4>3. CASE hp = "wait" /\ lp = "delay"
        BY <3>1, <3>2, <3>3, <4>3 DEF Capped
      <4> QED
        BY <3>5, <4>1, <4>2, <4>3
    <3> QED
      BY <3>6, <3>7
  <2>8. CASE UNCHANGED vars
    BY <2>8 DEF vars
  <2> QED
    BY <2>1, <2>2, <2>3, <2>4, <2>5, <2>6, <2>7, <2>8 DEF Next, LP, HP
<1> QED
  BY <1>1, <1>2, PTL DEF Spec

(***************************************************************************)
(* tareaHP never waits for the mutex longer than tareaLP sleeps with it,   *)
(* and one tick, whatever the two delays are.                              *)
(***************************************************************************)
THEOREM BlockingIsBounded == Spec => []BoundedBlocking
<1>1. MutexInv => BoundedBlocking
  BY DEF MutexInv
<1> QED
  BY <1>1, MutexInvariant, PTL

-----------------------------------------------------------------------------
(* gruposEventos_2 *)

LEMMA TimerInvariant == Timer!Spec => []Timer!TimerInv
<1> USE TimerAssumption DEF Timer!TicksAssumption, Timer!Task
<1>1. Timer!Init => Timer!TimerInv
  <2> SUFFICES ASSUME Timer!Init PROVE Timer!TimerInv
    OBVIOUS
  <2>1. Timer!TypeOK
    BY DEF Timer!Init, Timer!TypeOK
  <2>2. Timer!DoneInTime /\ Timer!OneAtATime
    BY DEF Timer!Init, Timer!DoneInTime, Timer!OneAtATime, Timer!AllWait
  <2>3. Timer!WokenSoFar /\ bits = {} /\ Timer!ReleasedTogether
    BY DEF Timer!Init, Timer!WokenSoFar, Timer!ReleasedTogether
  <2> QED
    BY <2>1, <2>2, <2>3 DEF Timer!TimerInv
<1>2. Timer!TimerInv /\ [Timer!Next]_Timer!vars => Timer!TimerInv'
  <2> SUFFICES ASSUME Timer!TimerInv, [Timer!Next]_Timer!vars PROVE Timer!TimerInv'
    OBVIOUS
  <2> USE DEF Timer!TimerInv, Timer!TypeOK, Timer!DoneInTime, Timer!OneAtATime,
              Timer!WokenSoFar, Timer!AllWait, Timer!ReleasedTogether
  <2>1. CASE Timer!ISR
    BY <2>1 DEF Timer!ISR
  <2>2. CASE Timer!SetBits
    <3>1. /\ pended # <<>> /\ Timer!AllWait
          /\ UNCHANGED <<left, smf, count, delay, worked>>
      BY <2>2 DEF Timer!SetBits
    <3>2. \/ pended = <<{1}>> /\ count = 2 /\ Head(pended) = {1} /\ Tail(pended) = <<>>
          \/ pended = <<{2, 3}>> /\ count = 3 /\ Head(pended) = {2, 3} /\ Tail(pended) = <<>>
      <4>1. \A set \in {{1}, {2, 3}} : Head(<<set>>) = set /\ Tail(<<set>>) = <<>>
        OBVIOUS
      <4>2. (pended = <<{1}>> /\ count = 2) \/ (pended = <<{2, 3}>> /\ count = 3)
        BY <3>1
      <4> QED
        BY <4>1, <4>2
    <3>3. PICK set : set = Head(pended) /\ set \subseteq Timer!Task
      BY <3>2
    <3>4. bits \cup Head(pended) = set /\ Timer!Released(set) = set
      BY <3>1, <3>3 DEF Timer!Released
    <3>5. /\ pended' = <<>> /\ bits' = {} /\ woken' = woken \cup set
          /\ pc' = [t \in Timer!Task |-> IF t \in set THEN "print" ELSE pc[t]]
          /\ xbit' = [t \in Timer!Task |-> IF t \in set THEN set ELSE xbit[t]]
      BY <2>2, <3>2, <3>4 DEF Timer!SetBits
    <3>6. Timer!TypeOK'
      BY <3>1, <3>3, <3>5
    <3>7. Timer!DoneInTime'
      BY <3>1, <3>5
    <3>8. Timer!OneAtATime'
      BY <3>1, <3>5
    <3>9. Timer!WokenSoFar'
      BY <3>1, <3>2, <3>3, <3>5
    <3>10. Timer!ReleasedTogether'
      <4>1. set = {1} \/ set = {2, 3}
        BY <3>2, <3>3
      <4>2. \A t \in Timer!Task : pc'[t] = "print" => t \in set /\ xbit'[t] = set
        BY <3>1, <3>3, <3>5
      <4> QED
        <5>1. ASSUME NEW t \in Timer!Task, pc'[t] = "print"
              PROVE  xbit'[t] = IF t = 1 THEN {1} ELSE {2, 3}
          <6>1. t \in set /\ xbit'[t] = set
            BY <4>2, <5>1
          <6>2. CASE set = {1}
            BY <6>1, <6>2
          <6>3. CASE set = {2, 3}
            <7>1. t # 1
              BY <6>1, <6>3
            <7> QED
              BY <6>1, <6>3, <7>1
          <6> QED
            BY <4>1, <6>2, <6>3
        <5> QED
          BY <5>1
    <3> QED
      BY <3>5, <3>6, <3>7, <3>8, <3>9, <3>10
  <2>3. CASE Timer!xSemaphoreTake
    <3>1. /\ smf /\ pended = <<>> /\ Timer!AllWait /\ ~smf' /\ delay' = MainDelay
          /\ pended' = <<>> \o Timer!BitsAt(count + 1) /\ count' = Timer!Reset(count + 1)
          /\ woken' = IF count' = 0 THEN {} ELSE woken
          /\ UNCHANGED <<left, bits, pc, xbit, worked>>
      BY <2>3 DEF Timer!xSemaphoreTake, Timer!vTaskDelay
    <3>2. /\ count' = 0 => count = 3 /\ pended' = <<>>
          /\ count' = 1 => count = 0 /\ pended' = <<>>
          /\ count' = 2 => count = 1 /\ pended' = <<{1}>>
          /\ count' = 3 => count = 2 /\ pended' = <<{2, 3}>>
          /\ count' \in 0..3
      BY <3>1 DEF Timer!BitsAt, Timer!Reset
    <3>3. Timer!TypeOK' /\ Timer!OneAtATime'
      BY <3>1, <3>2
    <3>4. Timer!DoneInTime'
      BY <3>1
    <3>5. Timer!WokenSoFar'
      <4>1. <<{1}>> # <<>> /\ <<{2, 3}>> # <<>>
        OBVIOUS
      <4> QED
        <5>1. CASE count' = 0
          BY <3>1, <3>2, <5>1
        <5>2. CASE count' = 1
          BY <3>1, <3>2, <5>2
        <5>3. CASE count' = 2
          <6>1. pended' # <<>> /\ woken' = {}
            BY <3>1, <3>2, <4>1, <5>3
          <6> QED
            BY <5>3, <6>1
        <5>4. CASE count' = 3
          <6>1. pended' # <<>> /\ woken' = {1}
            BY <3>1, <3>2, <4>1, <5>4
          <6> QED
            BY <5>4, <6>1
        <5> QED
          BY <3>2, <5>1, <5>2, <5>3, <5>4
    <3> QED
      BY <3>1, <3>3, <3>4, <3>5
  <2>4. ASSUME NEW t \in Timer!Task, Timer!tarea(t) PROVE Timer!TimerInv'
    <3>1. /\ pc' = [pc EXCEPT ![t] = "wait"] /\ pc[t] = "print"
          /\ UNCHANGED <<bits, xbit, woken, left, smf, count, delay, pended, worked>>
      BY <2>4 DEF Timer!tarea
    <3>2. ~smf /\ pended = <<>>
      BY <3>1
    <3>3. Timer!TypeOK' /\ Timer!ReleasedTogether'
      BY <3>1
    <3>4. Timer!DoneInTime' /\ Timer!OneAtATime' /\ Timer!WokenSoFar'
      BY <3>1, <3>2
    <3> QED
      BY <3>1, <3>3, <3>4
  <2>5. CASE Timer!Tick
    <3>1. /\ left > 0 /\ left' = left - 1 /\ delay' = IF delay > 0 THEN delay - 1 ELSE 0
          /\ UNCHANGED <<smf, count, pended, bits, pc, xbit, woken>>
      BY <2>5 DEF Timer!Tick
    <3>2. smf \/ pended # <<>> \/ ~Timer!AllWait => Timer!AtWork
      BY DEF Timer!AtWork
    <3>3. Timer!AtWork => ~worked /\ worked'
      BY <2>5 DEF Timer!Tick
    <3>4. Timer!DoneInTime'
      <4>1. smf \/ pended # <<>> \/ ~Timer!AllWait => Period <= left /\ worked'
        BY <3>2, <3>3
      <4>2. Timer!AllWait' <=> Timer!AllWait
        BY <3>1
      <4>3. delay' > 0 => delay' + Period <= MainDelay + left' + 1
        BY <3>1
      <4> QED
        BY <3>1, <4>1, <4>2, <4>3
    <3>5. Timer!TypeOK' /\ Timer!OneAtATime'
      BY <3>1
    <3>6. Timer!WokenSoFar' /\ Timer!ReleasedTogether'
      BY <3>1
    <3> QED
      BY <3>1, <3>4, <3>5, <3>6
  <2>6. CASE UNCHANGED Timer!vars
    BY <2>6 DEF Timer!vars
  <2> QED
    BY <2>1, <2>2, <2>3, <2>4, <2>5, <2>6 DEF Timer!Next, Timer!TimerTask
<1> QED
  BY <1>1, <1>2, PTL DEF Timer!Spec

(* The tasks released by one call see each other's bits. *)
THEOREM SeenTogether == Timer!Spec => []ReleasedTogether
<1>1. Timer!TimerInv => ReleasedTogether
  BY DEF Timer!TimerInv, ReleasedTogether
<1> QED
  BY <1>1, TimerInvariant, PTL

(* No expiry of the timer finds the semaphore still given. *)
THEOREM NoExpiryLost == Timer!Spec => EachExpiryCounted
<1>1. Timer!TimerInv => [Timer!ISR => ~smf]_Timer!vars
  BY TimerAssumption
  DEF Timer!TicksAssumption, Timer!TimerInv, Timer!TypeOK, Timer!DoneInTime, Timer!ISR
<1> QED
  BY <1>1, TimerInvariant, PTL DEF EachExpiryCounted, Timer!EachExpiryCounted

(* When the count starts again, all three tasks have been woken and no bit is left. *)
THEOREM RoundsAreComplete == Timer!Spec => RoundComplete
<1>1. Timer!TimerInv => [Timer!xSemaphoreTake /\ count' = 0 =>
                           woken = Timer!Task /\ bits = {} /\ pended = <<>>]_Timer!vars
  BY DEF Timer!TimerInv, Timer!TypeOK, Timer!OneAtATime, Timer!WokenSoFar, Timer!xSemaphoreTake,
         Timer!Reset
<1> QED
  BY <1>1, TimerInvariant, PTL DEF RoundComplete, Timer!RoundComplete
===============================================================================
