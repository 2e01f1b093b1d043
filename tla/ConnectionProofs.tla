--------------------------- MODULE ConnectionProofs ---------------------------
(***************************************************************************)
(* Proofs about Connection, for any number of renewed addresses and lost   *)
(* links, and for any access point that answers within the two waits of    *)
(* OnConnected.                                                            *)
(***************************************************************************)
EXTENDS Connection, TLAPS

LEMMA Bounds ==
  /\ JoinTime \in Nat /\ MaxRenewals \in Nat /\ MaxLosses \in Nat
  /\ MaxUptime \in Nat /\ MaxUptime > JoinTime /\ MaxUptime > 0
BY ConstantsAssumption

LEMMA Started == Init => ConnectionInv
<1> SUFFICES ASSUME Init PROVE ConnectionInv
  OBVIOUS
<1>1. TypeOK
  <2>1. pc = "init" /\ wifi = "stopped" /\ left = 0 /\ addresses = 0 /\ uptime = 0 /\ semaphore = FALSE
    BY DEF Init, Boot
  <2>2. uptime \in 0..MaxUptime
    BY <2>1, Bounds
  <2>3. semaphore \in BOOLEAN
    BY <2>1
  <2>4. left \in Nat /\ addresses \in Nat
    BY <2>1
  <2> QED
    BY <2>1, <2>2, <2>3, <2>4 DEF TypeOK
<1>2. OnTime
  BY DEF Init, Boot, OnTime
<1>3. FirstAddress
  BY DEF Init, Boot, FirstAddress, NoAddress, Taken
<1> QED
  BY <1>1, <1>2, <1>3 DEF ConnectionInv

(* The head of the queue when nothing or one event is in it. *)
LEMMA OneEvent ==
  ASSUME NEW e, events = <<e>>
  PROVE  events # <<>> /\ Head(events) = e /\ Tail(events) = <<>>
OBVIOUS

LEMMA Posted ==
  ASSUME NEW e, events = <<>>, events' = Append(events, e)
  PROVE  events' = <<e>>
OBVIOUS

LEMMA NextType ==
  ASSUME TypeOK, [Next]_vars
  PROVE  TypeOK'
<1> USE DEF driver, history
<1>0. /\ pc \in {"init", "first", "work", "second", "countdown"}
      /\ semaphore \in BOOLEAN /\ left \in Nat /\ addresses \in Nat /\ uptime \in 0..MaxUptime
      /\ wifi \in {"stopped", "started", "joining", "up", "down"}
  BY DEF TypeOK
<1>1. CASE wifiInit
  <2>1. wifi' \in {"stopped", "started", "joining", "up", "down"}
    BY <1>0, <1>1 DEF wifiInit, start, set_config
  <2> QED
    BY <1>0, <1>1, <2>1 DEF wifiInit, TypeOK
<1>2. CASE CreateTask
  BY <1>0, <1>2 DEF CreateTask, TakeTimeout, TypeOK
<1>3. CASE event_handler
  <2>1. wifi' \in {"stopped", "started", "joining", "up", "down"}
    BY <1>0, <1>3 DEF event_handler
  <2>2. semaphore' \in BOOLEAN
    BY <1>0, <1>3 DEF event_handler, Give
  <2> QED
    BY <1>0, <1>3, <2>1, <2>2 DEF event_handler, TypeOK
<1>4. CASE FirstTake
  BY <1>0, <1>4 DEF FirstTake, TypeOK
<1>5. CASE Work
  BY <1>0, <1>5 DEF Work, TypeOK
<1>6. CASE SecondTake
  BY <1>0, <1>6 DEF SecondTake, TakeTimeout, TypeOK
<1>7. CASE FailToConnect
  BY <1>0, <1>7 DEF FailToConnect, Countdown, TypeOK
<1>8. CASE esp_restart
  <2>1. /\ pc' = "init" /\ wifi' = "stopped" /\ left' = 0 /\ addresses' = 0
        /\ uptime' = 0 /\ semaphore' = FALSE
    BY <1>8 DEF esp_restart
  <2>2. uptime' \in 0..MaxUptime
    BY <2>1, Bounds
  <2>3. semaphore' \in BOOLEAN
    BY <2>1
  <2>4. left' \in Nat /\ addresses' \in Nat
    BY <2>1
  <2> QED
    BY <2>1, <2>2, <2>3, <2>4 DEF TypeOK
<1>9. CASE GotIp
  BY <1>0, <1>9 DEF GotIp, TypeOK
<1>10. CASE Renew
  BY <1>0, <1>10 DEF Renew, TypeOK
<1>11. CASE LoseLink
  BY <1>0, <1>11 DEF LoseLink, TypeOK
<1>12. CASE Tick
  <2>1. uptime' \in 0..MaxUptime /\ left' \in Nat
    BY <1>0, <1>12, Bounds DEF Tick, Capped
  <2> QED
    BY <1>0, <1>12, <2>1 DEF Tick, TypeOK
<1>13. CASE UNCHANGED vars
  BY <1>0, <1>13 DEF vars, TypeOK
<1> QED
  BY <1>1, <1>2, <1>3, <1>4, <1>5, <1>6, <1>7, <1>8, <1>9, <1>10, <1>11, <1>12, <1>13
     DEF Next, OnConnected

(***************************************************************************)
(* Time passes only when no task can run, so that OnConnected leaves each  *)
(* of its two waits when its seconds are over.                             *)
(***************************************************************************)
LEMMA NextOnTime ==
  ASSUME ConnectionInv, TypeOK', [Next]_vars
  PROVE  OnTime'
<1> USE DEF driver, history
<1>0. TypeOK /\ OnTime /\ FirstAddress
  BY DEF ConnectionInv
<1>t. left \in Nat /\ addresses \in Nat /\ uptime \in Nat /\ uptime <= MaxUptime
  BY <1>0, Bounds DEF TypeOK
<1>1. CASE wifiInit
  <2>1. UNCHANGED <<pc, left, uptime, addresses>> /\ (wifi' = wifi \/ wifi' = "started")
    BY <1>1 DEF wifiInit, start, set_config
  <2> QED
    BY <1>0, <2>1 DEF OnTime, Since
<1>2. CASE CreateTask
  <2>1. /\ UNCHANGED <<wifi, uptime, addresses>> /\ uptime = 0
        /\ pc' = "first" /\ left' = TakeTimeout
    BY <1>0, <1>2 DEF CreateTask, OnTime
  <2> QED
    BY <1>0, <2>1 DEF OnTime, Since, TakeTimeout
<1>3. CASE event_handler
  <2>1. UNCHANGED <<pc, left, uptime, addresses>>
    BY <1>3 DEF event_handler
  <2>2. wifi' = "joining" => uptime <= JoinTime
    <3>1. CASE wifi' = wifi
      BY <1>0, <3>1 DEF OnTime
    <3>2. CASE wifi = "started"
      <4>1. NoAddress /\ events # <<>>
        BY <1>0, <1>3, <3>2 DEF FirstAddress, event_handler
      <4>2. uptime = 0
        BY <4>1 DEF NoAddress
      <4> QED
        BY <4>2, Bounds
    <3> QED
      BY <1>3, <3>1, <3>2 DEF event_handler
  <2> QED
    BY <1>0, <2>1, <2>2 DEF OnTime, Since
<1>4. CASE FirstTake
  BY <1>0, <1>4 DEF FirstTake, OnTime
<1>5. CASE Work
  BY <1>0, <1>5 DEF Work, OnTime
<1>6. CASE SecondTake
  <2>1. addresses > 1
    <3>1. ~(addresses = 0) /\ ~(addresses = 1)
      BY <1>0, <1>6 DEF SecondTake, FirstAddress, NoAddress, OneAddress, Taken
    <3> QED
      BY <1>t, <3>1
  <2> QED
    BY <1>0, <1>t, <1>6, <2>1 DEF SecondTake, OnTime
<1>7. CASE FailToConnect
  <2>1. /\ UNCHANGED <<wifi, uptime, addresses>> /\ pc = "first" /\ left = 0
        /\ pc' = "countdown" /\ left' = Countdown
    BY <1>7 DEF FailToConnect
  <2>2. addresses <= 1 => uptime >= TakeTimeout \/ uptime = MaxUptime
    BY <1>0, <1>t, <2>1 DEF OnTime, Since, TakeTimeout
  <2> QED
    BY <1>0, <1>t, <2>1, <2>2 DEF OnTime, Since, TakeTimeout, Countdown
<1>8. CASE esp_restart
  BY <1>8 DEF esp_restart, OnTime
<1>9. CASE GotIp \/ Renew
  <2>1. UNCHANGED <<pc, left, uptime>> /\ addresses' = addresses + 1 /\ wifi' = "up"
    BY <1>9 DEF GotIp, Renew
  <2>2. addresses' <= 1 => addresses <= 1
    BY <1>t, <2>1
  <2> QED
    BY <1>0, <2>1, <2>2 DEF OnTime, Since
<1>10. CASE LoseLink
  BY <1>0, <1>10 DEF LoseLink, OnTime, Since
<1>11. CASE Tick
  <2>1. /\ UNCHANGED <<pc, wifi, addresses>> /\ pc # "init"
        /\ pc \in {"first", "countdown"} => left > 0
        /\ wifi = "joining" => uptime < JoinTime
    BY <1>t, <1>11 DEF Tick, Runnable
  <2>2. /\ uptime' = uptime + 1 \/ uptime' = MaxUptime
        /\ left > 0 => left' = left - 1
    BY <1>11 DEF Tick, Capped
  <2>3. wifi = "joining" => uptime' <= JoinTime
    BY <1>t, <1>11, <2>1, Bounds DEF Tick, Capped
  <2>4. ASSUME NEW s \in Nat, Since(s), left > 0 PROVE uptime' + left' >= s \/ uptime' = MaxUptime
    <3>1. CASE uptime = MaxUptime
      BY <1>11, <3>1, Bounds DEF Tick, Capped
    <3>2. CASE uptime + left >= s
      BY <1>t, <2>2, <2>4, <3>2
    <3> QED
      BY <2>4, <3>1, <3>2 DEF Since
  <2>5. pc = "first" /\ addresses <= 1 => Since(TakeTimeout)'
    BY <1>0, <2>1, <2>4 DEF OnTime, Since, TakeTimeout
  <2>6. pc = "countdown" /\ addresses <= 1 => Since(TakeTimeout + Countdown)'
    BY <1>0, <2>1, <2>4 DEF OnTime, Since, TakeTimeout, Countdown
  <2> QED
    BY <2>1, <2>3, <2>5, <2>6 DEF OnTime
<1>12. CASE UNCHANGED vars
  BY <1>0, <1>12 DEF vars, OnTime, Since
<1> QED
  BY <1>1, <1>2, <1>3, <1>4, <1>5, <1>6, <1>7, <1>8, <1>9, <1>10, <1>11, <1>12
     DEF Next, OnConnected

(***************************************************************************)
(* Up to the second address of a run the event, the given semaphore and    *)
(* the task that has taken it follow each other: none of the steps of the  *)
(* event task and of OnConnected can skip one of them.                     *)
(***************************************************************************)
LEMMA NextFirst ==
  ASSUME ConnectionInv, [Next]_vars
  PROVE  FirstAddress'
<1> USE DEF driver, history
<1>0. TypeOK /\ OnTime /\ FirstAddress
  BY DEF ConnectionInv
<1>t. addresses \in Nat /\ semaphore \in BOOLEAN
  BY <1>0 DEF TypeOK
<1>f. /\ wifi \in {"stopped", "started", "joining"} => addresses = 0
      /\ addresses = 0 => NoAddress
      /\ addresses = 1 => OneAddress
  BY <1>0 DEF FirstAddress
<1>1. CASE wifiInit
  <2>1. UNCHANGED <<pc, semaphore, uptime, addresses>> /\ pc = "init"
    BY <1>1 DEF wifiInit
  <2>2. CASE wifi = "stopped" /\ wifi' = "started" /\ events' = Append(events, "STA_START")
    <3>1. addresses = 0 /\ events = <<>> /\ ~semaphore /\ ~Taken
      BY <1>f, <2>2 DEF NoAddress
    <3>2. events' = <<"STA_START">>
      BY <2>2, <3>1, Posted
    <3>3. uptime = 0
      BY <1>0, <2>1 DEF OnTime
    <3> QED
      BY <2>1, <2>2, <3>1, <3>2, <3>3 DEF FirstAddress, NoAddress, Taken
  <2>3. CASE UNCHANGED <<wifi, events>>
    BY <1>f, <2>1, <2>3 DEF FirstAddress, NoAddress, OneAddress, Taken
  <2> QED
    BY <1>1, <2>2, <2>3 DEF wifiInit, start, set_config
<1>2. CASE CreateTask
  BY <1>f, <1>2 DEF CreateTask, FirstAddress, NoAddress, OneAddress, Taken
<1>3. CASE event_handler
  <2>1. UNCHANGED <<pc, uptime, addresses>> /\ events # <<>> /\ events' = Tail(events)
    BY <1>3 DEF event_handler
  <2>2. CASE addresses = 0
    <3>1. events = <<"STA_START">> /\ ~semaphore /\ ~Taken /\ wifi = "started"
      BY <1>f, <2>1, <2>2 DEF NoAddress
    <3>2. Head(events) = "STA_START" /\ events' = <<>>
      BY <2>1, <3>1, OneEvent
    <3>3. semaphore' = semaphore /\ wifi' \in {"started", "joining"}
      BY <1>3, <3>1, <3>2 DEF event_handler
    <3> QED
      BY <2>1, <2>2, <3>1, <3>2, <3>3 DEF FirstAddress, NoAddress, Taken
  <2>3. CASE addresses = 1
    <3>1. events = <<"GOT_IP">> /\ ~Taken /\ wifi \in {"up", "down"}
      BY <1>f, <2>1, <2>3 DEF OneAddress
    <3>2. Head(events) = "GOT_IP" /\ events' = <<>>
      BY <2>1, <3>1, OneEvent
    <3>3. semaphore' = TRUE /\ wifi' = wifi
      BY <1>3, <3>2 DEF event_handler, Give
    <3> QED
      BY <2>1, <2>3, <3>1, <3>2, <3>3 DEF FirstAddress, OneAddress, Taken
  <2>4. CASE ~(addresses = 0) /\ ~(addresses = 1)
    <3>1. wifi \in {"stopped", "started", "joining"} => FALSE
      BY <1>f, <2>4
    <3>2. wifi' = wifi
      BY <1>3, <3>1 DEF event_handler
    <3> QED
      BY <2>1, <2>4, <3>1, <3>2 DEF FirstAddress
  <2> QED
    BY <2>2, <2>3, <2>4
<1>4. CASE FirstTake
  BY <1>f, <1>4 DEF FirstTake, FirstAddress, NoAddress, OneAddress, Taken
<1>5. CASE Work
  BY <1>f, <1>5 DEF Work, FirstAddress, NoAddress, OneAddress, Taken
<1>6. CASE SecondTake
  <2>1. ~(addresses = 0) /\ ~(addresses = 1)
    BY <1>f, <1>6 DEF SecondTake, NoAddress, OneAddress, Taken
  <2> QED
    BY <1>f, <1>6, <2>1 DEF SecondTake, FirstAddress
<1>7. CASE FailToConnect
  BY <1>f, <1>7 DEF FailToConnect, FirstAddress, NoAddress, OneAddress, Taken
<1>8. CASE esp_restart
  BY <1>8 DEF esp_restart, FirstAddress, NoAddress, Taken
<1>9. CASE GotIp
  <2>1. addresses = 0 /\ events = <<>> /\ ~semaphore /\ ~Taken /\ uptime <= JoinTime
    BY <1>0, <1>f, <1>9 DEF GotIp, NoAddress, OnTime
  <2>2. /\ UNCHANGED <<pc, semaphore, uptime>>
        /\ wifi' = "up" /\ addresses' = addresses + 1 /\ events' = Append(events, "GOT_IP")
    BY <1>9 DEF GotIp
  <2>3. events' = <<"GOT_IP">>
    BY <2>1, <2>2, Posted
  <2>4. addresses' = 1
    BY <2>1, <2>2
  <2> QED
    BY <2>1, <2>2, <2>3, <2>4 DEF FirstAddress, OneAddress, Taken
<1>10. CASE Renew
  <2>1. wifi' = "up" /\ addresses' = addresses + 1 /\ ~(addresses = 0)
    BY <1>f, <1>10 DEF Renew, NoAddress
  <2>2. ~(addresses' = 0) /\ ~(addresses' = 1)
    BY <1>t, <2>1
  <2> QED
    BY <2>1, <2>2 DEF FirstAddress
<1>11. CASE LoseLink
  BY <1>f, <1>11 DEF LoseLink, FirstAddress, NoAddress, OneAddress, Taken
<1>12. CASE Tick
  <2>1. events = <<>> /\ UNCHANGED <<pc, semaphore, events, wifi, addresses>>
    BY <1>12 DEF Tick, Runnable
  <2> QED
    BY <1>f, <2>1 DEF FirstAddress, NoAddress, OneAddress, Taken
<1>13. CASE UNCHANGED vars
  BY <1>f, <1>13 DEF vars, FirstAddress, NoAddress, OneAddress, Taken
<1> QED
  BY <1>1, <1>2, <1>3, <1>4, <1>5, <1>6, <1>7, <1>8, <1>9, <1>10, <1>11, <1>12, <1>13
     DEF Next, OnConnected

LEMMA InvInductive == ASSUME ConnectionInv, [Next]_vars PROVE ConnectionInv'
<1>1. TypeOK'
  BY NextType DEF ConnectionInv
<1> QED
  BY <1>1, NextOnTime, NextFirst DEF ConnectionInv

(***************************************************************************)
(* The end of the countdown comes after the last moment at which the first *)
(* address of a punctual access point can be posted, so that at a restart  *)
(* no such address waits: it was given, or there was none, or several.     *)
(***************************************************************************)
LEMMA CauseOfRestart ==
  ASSUME AnswersInTime, ConnectionInv, esp_restart
  PROVE  wifi # "up" \/ semaphore \/ addresses > 1
<1>0. TypeOK /\ OnTime /\ FirstAddress
  BY DEF ConnectionInv
<1>1. addresses \in Nat /\ left \in Nat /\ uptime \in Nat
  BY <1>0, Bounds DEF TypeOK
<1>2. CASE addresses = 0
  BY <1>0, <1>2 DEF FirstAddress, NoAddress
<1>3. CASE addresses = 1
  <2>1. pc = "countdown" /\ left = 0
    BY DEF esp_restart
  <2>2. addresses <= 1
    BY <1>3
  <2>3. uptime + left >= TakeTimeout + Countdown \/ uptime = MaxUptime
    BY <1>0, <2>1, <2>2 DEF OnTime, Since
  <2>4. ~(uptime <= JoinTime)
    BY <1>1, <2>1, <2>3, Bounds DEF AnswersInTime, TakeTimeout, Countdown
  <2>5. OneAddress
    BY <1>0, <1>3 DEF FirstAddress
  <2> QED
    BY <2>1, <2>4, <2>5 DEF OneAddress, Taken
<1>4. CASE ~(addresses = 0) /\ ~(addresses = 1)
  BY <1>1, <1>4
<1> QED
  BY <1>2, <1>3, <1>4

(***************************************************************************)
(* OnConnected restarts a connected chip in two cases only, if the access  *)
(* point answers before both its waits are over: the address came during   *)
(* the countdown, or a second take swallowed a further one.                *)
(***************************************************************************)
THEOREM RestartsExplained == ASSUME AnswersInTime PROVE Spec => RestartCause
<1>1. Init => ConnectionInv
  BY Started
<1>2. ConnectionInv /\ [Next]_vars => ConnectionInv'
  BY InvInductive
<1>3. ConnectionInv => [esp_restart => wifi # "up" \/ semaphore \/ addresses > 1]_vars
  BY CauseOfRestart
<1> QED
  BY <1>1, <1>2, <1>3, PTL DEF Spec, RestartCause

=============================================================================
