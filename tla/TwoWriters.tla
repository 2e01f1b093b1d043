----------------------------- MODULE TwoWriters ------------------------------
(***************************************************************************)
(* mutex_2/main.c: two tasks of one priority, on whichever of the two      *)
(* cores, write to the same output, each after taking a mutex for which it *)
(* waits a second at most, and sleep for one and for two seconds.          *)
(* Time is in ticks of 10 ms; a line is written within a tick.             *)
(***************************************************************************)
EXTENDS Integers

CONSTANTS Patience,    \* ticks: 1000 / portTICK_PERIOD_MS
          Sleep1, Sleep2

(* Three ticks may go by while a task waits, and a tick while it is to take the mutex. *)
TicksAssumption ==
  /\ {Patience, Sleep1, Sleep2} \subseteq Nat
  /\ Patience > 3 /\ Sleep1 > 1 /\ Sleep2 > 1

Tasks == {1, 2}

VARIABLES owner,     \* of mutexBus, 0 if nobody
          pc,        \* "print" what it is about to do, "take", "write", "delay"
          left,      \* ticks of the wait for the mutex or of the delay
          old        \* busy since the tick before

vars == <<owner, pc, left, old>>

Init ==
  /\ owner = 0 /\ pc = [t \in Tasks |-> "print"] /\ left = [t \in Tasks |-> 0]
  /\ old = [t \in Tasks |-> FALSE]

Goes(t, from, to) == pc[t] = from /\ pc' = [pc EXCEPT ![t] = to]

Announce(t) ==
  /\ Goes(t, "print", "take") /\ left' = [left EXCEPT ![t] = Patience]
  /\ UNCHANGED <<owner, old>>

NotGiven == UNCHANGED owner
xSemaphoreGive == owner' = 0

Sleep(t) == IF t = 1 THEN Sleep1 ELSE Sleep2

vTaskDelay(t) ==
  /\ left' = [left EXCEPT ![t] = Sleep(t)]
  /\ old' = [old EXCEPT ![t] = FALSE]

(* Without the mutex there is a message on the console and nothing is written. *)
xSemaphoreTake(t) ==
  IF owner = 0
    THEN owner' = t /\ Goes(t, "take", "write") /\ UNCHANGED <<left, old>>
    ELSE left[t] = 0 /\ Goes(t, "take", "delay") /\ vTaskDelay(t) /\ UNCHANGED owner

writeToBus(t) ==
  /\ Goes(t, "write", "delay") /\ xSemaphoreGive /\ vTaskDelay(t)

Wake(t) ==
  /\ left[t] = 0 /\ Goes(t, "delay", "print")
  /\ UNCHANGED <<owner, left, old>>

(* A task that can run is done with it by the next tick but one. *)
Busy(t) ==
  \/ pc[t] \in {"print", "write"}
  \/ pc[t] = "take" /\ owner = 0
  \/ pc[t] \in {"take", "delay"} /\ left[t] = 0

Tick ==
  /\ \A t \in Tasks : Busy(t) => ~old[t]
  /\ old' = [t \in Tasks |-> Busy(t)]
  /\ left' = [t \in Tasks |-> IF left[t] > 0 THEN left[t] - 1 ELSE 0]
  /\ UNCHANGED <<owner, pc>>

Task(t) == Announce(t) \/ xSemaphoreTake(t) \/ writeToBus(t) \/ Wake(t)
Next == Tick \/ \E t \in Tasks : Task(t)
Spec == Init /\ [][Next]_vars

-----------------------------------------------------------------------------
(***************************************************************************)
(* "Espera 1s para hacer el else": the else branches are never taken.      *)
(* However the two tasks meet, and they do every two seconds, the one that *)
(* waits gets the mutex while it still has patience.                       *)
(***************************************************************************)
NeverTimesOut == \A t \in Tasks : pc[t] = "take" => left[t] > 0

-----------------------------------------------------------------------------
TypeOK ==
  /\ owner \in Tasks \cup {0}
  /\ pc \in [Tasks -> {"print", "take", "write", "delay"}]
  /\ left \in [Tasks -> Nat] /\ old \in [Tasks -> BOOLEAN]

OwnerWrites == \A t \in Tasks : owner = t <=> pc[t] = "write"

Other(t) == 3 - t

(***************************************************************************)
(* A tick before the other task takes the mutex, one while it writes, and  *)
(* one until this task runs again: after that the other is asleep.         *)
(***************************************************************************)
PatienceLeft(t) ==
  LET u == Other(t)
  IN  \/ owner = u /\ Patience <= left[t] + 1
      \/ owner = u /\ Patience <= left[t] + 2 /\ old[u]
      \/ owner = 0 /\ Patience <= left[t]
      \/ owner = 0 /\ Patience <= left[t] + 1 /\ old[t]
      \/ owner = 0 /\ Patience <= left[t] + 2 /\ pc[u] = "delay" /\ left[u] > 1
      \/ owner = 0 /\ Patience <= left[t] + 3 /\ pc[u] = "delay" /\ left[u] > 0 /\ old[t]

(* Inductive. *)
WritersInv ==
  /\ TypeOK /\ OwnerWrites
  /\ \A t \in Tasks : pc[t] = "take" => PatienceLeft(t)
=============================================================================
