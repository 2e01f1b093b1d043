---------------------------- MODULE PriorityMutex ----------------------------
(***************************************************************************)
(* Semaforo_Mutex_1: on one core, tareaLP (priority 1) takes xMutex,       *)
(* pulses GPIO 2, sleeps 100 ms with the mutex in hand and gives it;       *)
(* tareaHP (priority 4) takes it, pulses GPIO 15, gives it and sleeps      *)
(* 400 ms.  The kernel is external: the mutex inherits priority, giving it *)
(* makes a waiting task ready without handing it the mutex, and of the     *)
(* ready tasks the one with the highest priority runs.                     *)
(*                                                                         *)
(* Time is in ticks of 10 ms.  Ten pulses take 3 ms: a tick may fall into  *)
(* a burst, but not two.                                                   *)
(***************************************************************************)
EXTENDS Naturals

CONSTANTS LPDelay, HPDelay    \* ticks: 10 and 40 in the code

ASSUME DelayAssumption == LPDelay \in Nat \ {0} /\ HPDelay \in Nat

Nobody == "nobody"

VARIABLES
  holder,   \* who has xMutex: "LP", "HP" or Nobody
  lp, hp,   \* each task: about to "take", blocked in "wait", in its "burst", "delay", "give"
  sleep,    \* ticks each delay has left
  ticked,   \* a tick has fallen into the current burst
  waited    \* ticks tareaHP has been blocked on the mutex

vars == <<holder, lp, hp, sleep, ticked, waited>>

(***************************************************************************)
(* app_main has the priority of tareaLP: tareaLP may have run for a while  *)
(* before app_main creates tareaHP.                                        *)
(***************************************************************************)
Init ==
  /\ holder = Nobody /\ lp = "take"
  /\ \/ hp = "take" /\ sleep = [LP |-> 0, HP |-> 0]
     \/ hp = "delay" /\ sleep = [LP |-> 0, HP |-> 1]
  /\ ticked = FALSE /\ waited = 0

HPReady == hp \in {"take", "burst", "give"} \/ (hp = "wait" /\ holder = Nobody)
LPReady == lp \in {"burst", "give"} \/ (lp = "take" /\ holder = Nobody)

(***************************************************************************)
(* tareaLP runs when tareaHP cannot; when tareaHP waits for the mutex,     *)
(* tareaLP runs with tareaHP's priority.                                   *)
(***************************************************************************)
LPScheduled == ~HPReady

-----------------------------------------------------------------------------
(* tareaLP *)

LPTake ==
  /\ LPScheduled /\ lp = "take" /\ holder = Nobody
  /\ lp' = "burst" /\ holder' = "LP" /\ ticked' = FALSE
  /\ UNCHANGED <<hp, sleep, waited>>

LPBurst ==
  /\ LPScheduled /\ lp = "burst"
  /\ lp' = "delay" /\ sleep' = [sleep EXCEPT !.LP = LPDelay]
  /\ UNCHANGED <<holder, hp, ticked, waited>>

LPGive ==
  /\ LPScheduled /\ lp = "give"
  /\ lp' = "take" /\ holder' = Nobody
  /\ UNCHANGED <<hp, sleep, ticked, waited>>

-----------------------------------------------------------------------------
(* tareaHP *)

HPTake ==
  /\ hp \in {"take", "wait"}
  /\ \/ holder = Nobody /\ hp' = "burst" /\ holder' = "HP" /\ ticked' = FALSE
     \/ holder # Nobody /\ hp = "take" /\ hp' = "wait" /\ UNCHANGED <<holder, ticked>>
  /\ waited' = 0
  /\ UNCHANGED <<lp, sleep>>

HPBurst ==
  /\ hp = "burst" /\ hp' = "give"
  /\ UNCHANGED <<holder, lp, sleep, ticked, waited>>

NotGiven == hp = "give" /\ hp' = "delay" /\ UNCHANGED holder
Given    == hp = "give" /\ hp' = "delay" /\ holder' = Nobody

HPGive ==
  /\ Given /\ sleep' = [sleep EXCEPT !.HP = HPDelay]
  /\ UNCHANGED <<lp, ticked, waited>>

-----------------------------------------------------------------------------
(* The tick interrupt.  waited stops counting two ticks past tareaLP's sleep. *)

Capped(n) == IF n < LPDelay + 2 THEN n + 1 ELSE n

Wakes(task) == IF sleep[task] > 0 THEN sleep[task] - 1 ELSE 0

Tick ==
  /\ (HPReady \/ LPReady) =>
       /\ ~ticked
       /\ IF HPReady THEN hp = "burst" ELSE lp = "burst"
  /\ ticked' = (HPReady \/ LPReady)
  /\ sleep' = [task \in {"LP", "HP"} |-> Wakes(task)]
  /\ lp' = IF lp = "delay" /\ Wakes("LP") = 0 THEN "give" ELSE lp
  /\ hp' = IF hp = "delay" /\ Wakes("HP") = 0 THEN "take" ELSE hp
  /\ waited' = IF hp = "wait" THEN Capped(waited) ELSE 0
  /\ UNCHANGED holder

LP   == LPTake \/ LPBurst \/ LPGive
HP   == HPTake \/ HPBurst \/ HPGive
Next == LP \/ HP \/ Tick

Spec == Init /\ [][Next]_vars

-----------------------------------------------------------------------------
(***************************************************************************)
(* "Tiempo de bloqueo de la tareaHP": tareaHP waits for one sleep of       *)
(* tareaLP at most, plus the tick that may fall into its burst.            *)
(***************************************************************************)
BoundedBlocking == waited <= LPDelay + 1

-----------------------------------------------------------------------------
TypeOK ==
  /\ holder \in {"LP", "HP", Nobody}
  /\ lp \in {"take", "burst", "delay", "give"}
  /\ hp \in {"take", "wait", "burst", "give", "delay"}
  /\ sleep \in [{"LP", "HP"} -> Nat] /\ waited \in Nat

HolderIsInside ==
  /\ holder = "LP" <=> lp \in {"burst", "delay", "give"}
  /\ holder = "HP" <=> hp \in {"burst", "give"}

(* What tareaLP has left to do with the mutex in hand, in ticks. *)
WaitsForOneSleep ==
  /\ hp # "wait" => waited = 0
  /\ lp = "burst" => waited = 0 \/ (waited = 1 /\ ticked)
  /\ lp = "delay" => sleep.LP > 0 /\ waited + sleep.LP <= LPDelay + 1

(* Inductive. *)
MutexInv == TypeOK /\ HolderIsInside /\ WaitsForOneSleep /\ BoundedBlocking

=============================================================================
