----------------------------- MODULE Connection ------------------------------
(***************************************************************************)
(* wifi_connect_4 and wifi_getdata_5: wifiInit configures and starts the   *)
(* station, the event task gives connectionSemaphore at every GOT_IP, and  *)
(* the task OnConnected waits ten seconds for it, does its work (prints    *)
(* the address, or fetches a page) and takes the semaphore again; without  *)
(* it, it counts five seconds down and restarts the chip.                  *)
(*                                                                         *)
(* The two programs differ in the driver calls of wifiInit.  Time passes   *)
(* in seconds, and only when no task can run.  The driver and the access   *)
(* point are external: the driver keeps the configuration in flash across  *)
(* restarts, and starts only once.                                         *)
(***************************************************************************)
EXTENDS Naturals, Sequences

CONSTANTS JoinTime,      \* the access point answers within so many seconds
          MaxRenewals,   \* bound: further GOT_IP events in a run of the program
          MaxLosses,     \* bound: lost links
          MaxUptime      \* bound at which the clock stops counting

TakeTimeout == 10
Countdown   == 5

(* The calls of wifiInit in each program. *)
wifi_connect_4 == <<"set_config", "start">>
wifi_getdata_5 == <<"start", "set_config", "start">>

ASSUME ConstantsAssumption ==
  /\ {JoinTime, MaxRenewals, MaxLosses} \subseteq Nat
  /\ MaxUptime \in Nat /\ MaxUptime > JoinTime

VARIABLES
  pc,         \* "init", then OnConnected: "first" take, "work", "second" take, "countdown"
  todo,       \* the calls wifiInit has left
  left,       \* seconds left of the take's timeout or of the countdown
  semaphore,  \* connectionSemaphore has been given
  events,     \* events posted and not yet handled
  wifi,       \* stopped, started, joining, up, down
  stored,     \* the credentials are in flash
  uptime,     \* seconds since the chip started
  addresses,  \* GOT_IP events since then, at most one more than MaxRenewals
  losses,
  program     \* the wifiInit of the program in the chip

driver  == <<wifi, stored, events>>
history == <<uptime, addresses, losses, program>>
vars    == <<pc, todo, left, semaphore, driver, history>>

Capped(n, bound) == IF n < bound THEN n + 1 ELSE bound

Boot ==
  /\ pc = "init" /\ todo = program /\ left = 0 /\ semaphore = FALSE
  /\ events = <<>> /\ wifi = "stopped"
  /\ uptime = 0 /\ addresses = 0

Init == program \in {wifi_connect_4, wifi_getdata_5} /\ Boot /\ stored \in BOOLEAN /\ losses = 0

-----------------------------------------------------------------------------
(* app_main: wifiInit, and the creation of the task *)

start ==
  /\ IF wifi = "stopped" THEN wifi' = "started" /\ events' = Append(events, "STA_START")
                         ELSE UNCHANGED <<wifi, events>>
  /\ UNCHANGED stored

Forgotten == UNCHANGED <<wifi, events, stored>>

set_config == stored' = TRUE /\ UNCHANGED <<wifi, events>>

wifiInit ==
  /\ pc = "init" /\ todo # <<>>
  /\ todo' = Tail(todo)
  /\ \/ Head(todo) = "start" /\ start
     \/ Head(todo) = "set_config" /\ set_config
  /\ UNCHANGED <<pc, left, semaphore, history>>

CreateTask ==
  /\ pc = "init" /\ todo = <<>>
  /\ pc' = "first" /\ left' = TakeTimeout
  /\ UNCHANGED <<todo, semaphore, driver, history>>

-----------------------------------------------------------------------------
(* The event task: event_handler.  Connecting without credentials fails. *)

Unnoticed == UNCHANGED semaphore
Give      == semaphore' = TRUE

event_handler ==
  /\ events # <<>> /\ events' = Tail(events)
  /\ \/ /\ Head(events) = "STA_START"
        /\ wifi' = IF wifi = "started" /\ stored THEN "joining" ELSE wifi
        /\ UNCHANGED semaphore
     \/ Head(events) = "GOT_IP" /\ Give /\ UNCHANGED wifi
  /\ UNCHANGED <<pc, todo, left, stored, history>>

-----------------------------------------------------------------------------
(* Task OnConnected *)

FirstTake ==
  /\ pc = "first" /\ semaphore
  /\ semaphore' = FALSE /\ pc' = "work" /\ left' = 0
  /\ UNCHANGED <<todo, driver, history>>

Work ==
  /\ pc = "work" /\ pc' = "second"
  /\ UNCHANGED <<todo, left, semaphore, driver, history>>

SecondTake ==
  /\ pc = "second" /\ semaphore
  /\ semaphore' = FALSE /\ pc' = "first" /\ left' = TakeTimeout
  /\ UNCHANGED <<todo, driver, history>>

FailToConnect ==
  /\ pc = "first" /\ ~semaphore /\ left = 0
  /\ pc' = "countdown" /\ left' = Countdown
  /\ UNCHANGED <<todo, semaphore, driver, history>>

esp_restart ==
  /\ pc = "countdown" /\ left = 0
  /\ pc' = "init" /\ todo' = program /\ left' = 0 /\ semaphore' = FALSE
  /\ events' = <<>> /\ wifi' = "stopped"
  /\ uptime' = 0 /\ addresses' = 0
  /\ UNCHANGED <<stored, losses, program>>

-----------------------------------------------------------------------------
(* The access point and the clock *)

GotIp ==
  /\ wifi = "joining" /\ wifi' = "up"
  /\ events' = Append(events, "GOT_IP") /\ addresses' = addresses + 1
  /\ UNCHANGED <<pc, todo, left, semaphore, stored, uptime, losses, program>>

Renew ==
  /\ wifi = "up" /\ addresses <= MaxRenewals
  /\ events' = Append(events, "GOT_IP") /\ addresses' = addresses + 1
  /\ UNCHANGED <<pc, todo, left, semaphore, wifi, stored, uptime, losses, program>>

LoseLink ==
  /\ wifi \in {"joining", "up"} /\ losses < MaxLosses
  /\ wifi' = "down" /\ losses' = losses + 1
  /\ UNCHANGED <<pc, todo, left, semaphore, stored, events, uptime, addresses, program>>

Runnable ==
  \/ events # <<>> \/ pc = "init"
  \/ pc \in {"first", "second"} /\ semaphore
  \/ pc \in {"first", "countdown"} /\ left = 0

Tick ==
  /\ ~Runnable
  /\ wifi = "joining" => uptime < JoinTime
  /\ uptime' = Capped(uptime, MaxUptime)
  /\ left' = IF left > 0 THEN left - 1 ELSE 0
  /\ UNCHANGED <<pc, todo, semaphore, driver, addresses, losses, program>>

OnConnected == FirstTake \/ Work \/ SecondTake \/ FailToConnect \/ esp_restart

Next ==
  \/ wifiInit \/ CreateTask \/ event_handler \/ OnConnected
  \/ GotIp \/ Renew \/ LoseLink \/ Tick

Spec == Init /\ [][Next]_vars

(* Every task is scheduled, time passes, and the access point answers. *)
FairSpec ==
  /\ Spec /\ WF_vars(wifiInit) /\ WF_vars(CreateTask) /\ WF_vars(event_handler)
  /\ WF_vars(OnConnected) /\ WF_vars(GotIp) /\ WF_vars(Tick)

-----------------------------------------------------------------------------
(* Properties *)

(***************************************************************************)
(* "si no hay conexion reiniciar el chip": the chip is restarted only when *)
(* there is no connection.                                                 *)
(***************************************************************************)
RestartOnlyWithoutConnection == [][esp_restart => wifi # "up"]_vars

(***************************************************************************)
(* A chip is restarted although it is connected in two cases only: the     *)
(* address came during the countdown and the semaphore was not looked at,  *)
(* or it was not the first address and the second take swallowed one.  An  *)
(* access point that needs more than the fifteen seconds of both waits may *)
(* answer in the very moment of the restart, which would be a third.       *)
(***************************************************************************)
RestartCause == [][esp_restart => wifi # "up" \/ semaphore \/ addresses > 1]_vars

(***************************************************************************)
(* Unless that goes on for ever the chip does its work at last and stays   *)
(* up, however often the link was lost, and although wifi_getdata_5 starts *)
(* the station before it has set the credentials: they survive a restart.  *)
(***************************************************************************)
WorksInTheEnd ==
  <>[](pc = "second") \/ []<>(pc = "countdown" /\ (semaphore \/ addresses > 1))

-----------------------------------------------------------------------------
(***************************************************************************)
(* Why RestartCause: up to its first address a run follows the clock, and  *)
(* that address is posted, given or taken, in this order.  An access point *)
(* that answers within the two waits of OnConnected posts it in time.      *)
(***************************************************************************)
AnswersInTime == JoinTime < TakeTimeout + Countdown

TypeOK ==
  /\ pc \in {"init", "first", "work", "second", "countdown"}
  /\ semaphore \in BOOLEAN /\ left \in Nat /\ addresses \in Nat /\ uptime \in 0..MaxUptime
  /\ wifi \in {"stopped", "started", "joining", "up", "down"}

Since(seconds) == uptime + left >= seconds \/ uptime = MaxUptime

OnTime ==
  /\ pc = "init" => uptime = 0
  /\ wifi = "joining" => uptime <= JoinTime
  /\ pc = "first" /\ addresses <= 1 => Since(TakeTimeout)
  /\ pc = "countdown" /\ addresses <= 1 => Since(TakeTimeout + Countdown)

Taken == pc \in {"work", "second"}

NoAddress ==
  /\ wifi # "up" /\ ~semaphore /\ ~Taken
  /\ events = <<>> \/ (events = <<"STA_START">> /\ wifi = "started" /\ uptime = 0)

OneAddress ==
  /\ wifi \in {"up", "down"}
  /\ \/ events = <<"GOT_IP">> /\ ~semaphore /\ ~Taken /\ uptime <= JoinTime
     \/ events = <<>> /\ semaphore /\ ~Taken
     \/ events = <<>> /\ ~semaphore /\ Taken

FirstAddress ==
  /\ wifi \in {"stopped", "started", "joining"} => addresses = 0
  /\ addresses = 0 => NoAddress
  /\ addresses = 1 => OneAddress

ConnectionInv == TypeOK /\ OnTime /\ FirstAddress

=============================================================================
