-------------------------- MODULE MqttReadingProofs --------------------------
(***************************************************************************)
(* Proofs about MqttReading for any number of clients, any queue length    *)
(* and any number of readings: first the undisturbed sessions, in which    *)
(* the broker drops no connection and the driver announces one address per *)
(* session, with any number of lost links, then what is left when both     *)
(* happen any number of times.                                             *)
(***************************************************************************)
EXTENDS MqttReading, TLAPS

Undisturbed == MaxDrops = 0 /\ MaxRenewals = 0

IInv == TypeOK /\ SinglePhase

USE DEF WIFI_CONNECTED, MQTT_CONNECTED, MQTT_PUBLISHED, NoCommand, Command

LEMMA RangeAppend ==
  ASSUME NEW S, NEW s \in Seq(S), NEW e \in S
  PROVE  /\ e \in Range(Append(s, e))
         /\ Range(s) \subseteq Range(Append(s, e))
BY DEF Range

LEMMA Bounds ==
  /\ MaxReadings \in Nat /\ MaxDrops \in Nat /\ MaxRenewals \in Nat /\ MaxLosses \in Nat
  /\ QueueLength \in Nat /\ QueueLength > 0 /\ NoClient \notin Client
BY ConstantsAssumption

LEMMA CountTypeOK ==
  ASSUME faults \in [drops : 0..MaxDrops, renewals : 0..MaxRenewals, losses : 0..MaxLosses]
  PROVE  /\ faults.drops < MaxDrops /\ Count("drops") =>
              faults' \in [drops : 0..MaxDrops, renewals : 0..MaxRenewals, losses : 0..MaxLosses]
         /\ faults.renewals < MaxRenewals /\ Count("renewals") =>
              faults' \in [drops : 0..MaxDrops, renewals : 0..MaxRenewals, losses : 0..MaxLosses]
         /\ faults.losses < MaxLosses /\ Count("losses") =>
              faults' \in [drops : 0..MaxDrops, renewals : 0..MaxRenewals, losses : 0..MaxLosses]
BY Bounds DEF Count

LEMMA InitTypeOK == Init => TypeOK
BY ConstantsAssumption DEF Init, InitSession, TypeOK

(* Every step keeps the variables in their types. *)
LEMMA NextTypeOK == TypeOK /\ (pc = "receive" <=> reading = 0) /\ [Next]_vars => TypeOK'
<1> SUFFICES ASSUME TypeOK, pc = "receive" <=> reading = 0, [Next]_vars PROVE TypeOK'
  OBVIOUS
<1> USE Bounds DEF task, clients
<1>1. CASE Generate
  <2>1. generated' \in 1..MaxReadings
    BY <1>1 DEF Generate, TypeOK
  <2>2. readingQueue' \in Seq(1..MaxReadings) /\ Len(readingQueue') <= QueueLength
    <3>1. CASE Len(readingQueue) < QueueLength
      BY <1>1, <2>1, <3>1 DEF Generate, Send, TypeOK
    <3>2. CASE ~(Len(readingQueue) < QueueLength)
      BY <1>1, <3>2 DEF Generate, Send, TypeOK
    <3> QED
      BY <3>1, <3>2
  <2> QED
    BY <1>1, <2>1, <2>2 DEF Generate, TypeOK
<1>2. CASE Receive
  <2>1. readingQueue' \in Seq(1..MaxReadings) /\ Len(readingQueue') <= QueueLength
        /\ reading' \in 1..MaxReadings
    BY <1>2 DEF Receive, TypeOK
  <2>2. events' \in Seq({"STA_START", "GOT_IP"})
    BY <1>2 DEF Receive, TypeOK
  <2>3. reading' \in 0..MaxReadings
    BY <2>1
  <2>4. handle' \in Client \cup {NoClient}
    BY <1>2 DEF Receive
  <2> QED
    BY <1>2, <2>1, <2>2, <2>3, <2>4 DEF Receive, TypeOK
<1>3. CASE WaitNotify
  BY <1>3 DEF WaitNotify, TypeOK
<1>4. CASE StartClient
  <2>1. conn' \in [Client -> {"free", "connecting", "online", "retrying"}]
    BY <1>4 DEF StartClient, TypeOK
  <2>2. handle' \in Client \cup {NoClient}
    BY <1>4 DEF StartClient, TypeOK
  <2> QED
    BY <1>4, <2>1, <2>2 DEF StartClient, TypeOK
<1>5. CASE Publish
  BY <1>5 DEF Publish, TypeOK
<1>6. CASE EndSession
  <2>1. outbox' \in [Client -> Seq(1..MaxReadings)]
    <3>1. ASSUME NEW c \in Client
          PROVE  (IF c = handle THEN <<>> ELSE outbox[c]) \in Seq(1..MaxReadings)
      <4>1. CASE c = handle
        BY <4>1
      <4>2. CASE c # handle
        BY <4>2 DEF TypeOK
      <4> QED
        BY <4>1, <4>2
    <3> QED
      BY <1>6, <3>1 DEF EndSession
  <2>2. conn' \in [Client -> {"free", "connecting", "online", "retrying"}]
    BY <1>6 DEF EndSession, Destroyed, Disconnected, TypeOK
  <2> QED
    BY <1>6, <2>1, <2>2 DEF EndSession, Leave, TypeOK
<1>7. CASE Panic
  BY <1>7 DEF Panic, Leave, TypeOK
<1>8. CASE event_handler
  BY <1>8 DEF event_handler, StaStart, esp_wifi_connect, Notify, TypeOK
<1>9. CASE GotIp
  BY <1>9 DEF GotIp, TypeOK
<1>10. CASE Renew
  <2>1. events' \in Seq({"STA_START", "GOT_IP"})
    BY <1>10 DEF Renew, TypeOK
  <2> QED
    BY <1>10, <2>1, CountTypeOK DEF Renew, TypeOK
<1>11. CASE LoseLink
  BY <1>11, CountTypeOK DEF LoseLink, Disconnected, TypeOK
<1>12. ASSUME NEW c \in Client, Connected(c) PROVE TypeOK'
  BY <1>12 DEF Connected, mqtt_event_handler_cb, Notify, TypeOK
<1>13. ASSUME NEW c \in Client, Published(c) PROVE TypeOK'
  BY <1>13 DEF Published, mqtt_event_handler_cb, Notify, TypeOK
<1>14. ASSUME NEW c \in Client, Dropped(c) PROVE TypeOK'
  BY <1>14, CountTypeOK DEF Dropped, TypeOK
<1>15. CASE UNCHANGED vars
  BY <1>15 DEF vars, TypeOK
<1> QED
  BY <1>1, <1>2, <1>3, <1>4, <1>5, <1>6, <1>7, <1>8, <1>9, <1>10, <1>11, <1>12,
     <1>13, <1>14, <1>15 DEF Next, OnConnected

-----------------------------------------------------------------------------
USE DEF Waiting, Commanded

LEMMA InitPhase == Init => SinglePhase
BY DEF Init, InitSession, SinglePhase, Idle, NoClients

(* What a phase speaks of is all that can disturb it. *)
LEMMA PhaseUnchanged ==
  SinglePhase /\ UNCHANGED <<task, notice, wifi, events, clients, delivered>> => SinglePhase'
BY DEF SinglePhase, Idle, Joining, Joined, Connecting, Online, Publishing, Confirmed,
       OneClient, NoClients, task, clients

(* The phases in which each action of the system can be taken. *)
LEMMA PhaseOf ==
  ASSUME TypeOK, SinglePhase
  PROVE  /\ pc = "receive" => Idle
         /\ events # <<>> => Joining
         /\ wifi \in {"started", "joining"} => Joining
         /\ pc = "run" /\ command = WIFI_CONNECTED => Joined
         /\ pc = "run" /\ command = MQTT_CONNECTED => Online
         /\ pc = "run" /\ command = MQTT_PUBLISHED => Confirmed
         /\ pc = "wait" /\ notice # NoCommand => Joined \/ Online \/ Confirmed
         /\ \A c \in Client : conn[c] # "free" =>
               handle = c /\ (Connecting \/ Online \/ Publishing \/ Confirmed)
BY DEF SinglePhase, Idle, Joining, Joined, Connecting, Online, Publishing, Confirmed,
       OneClient, NoClients

LEMMA RoomForClient == Joined => ~HeapFull
BY ConstantsAssumption DEF Joined, NoClients, HeapFull

LEMMA NoPanic ==
  ASSUME TypeOK, SinglePhase
  PROVE  ~Panic
<1>1. CASE pc = "run" /\ command = WIFI_CONNECTED
  BY <1>1, PhaseOf, RoomForClient DEF Panic
<1>2. CASE pc = "run" /\ command # WIFI_CONNECTED
  <2>1. handle \in Client
    BY <1>2 DEF SinglePhase, Idle, Joining, Joined, Connecting, Online, Publishing, Confirmed, OneClient
  <2> QED
    BY <1>2, <2>1, Bounds DEF Panic
<1> QED
  BY <1>1, <1>2 DEF Panic

(* The broker's confirmation is that of the session's own reading. *)
LEMMA PublishedConfirms ==
  ASSUME TypeOK, SinglePhase, NEW c \in Client, Published(c)
  PROVE  Confirmed'
<1> USE Bounds, PhaseOf DEF task, clients
<1>1. Publishing /\ handle = c
  BY DEF Published, Connecting, Online, Publishing, Confirmed, OneClient
<1>2. reading \in Range(delivered')
  BY <1>1, RangeAppend DEF Published, Publishing, OneClient, TypeOK
<1>3. outbox' = [outbox EXCEPT ![c] = <<>>]
  <2>1. Tail(<<reading>>) = <<>>
    OBVIOUS
  <2>2. outbox[c] = <<reading>>
    BY <1>1 DEF Publishing, OneClient
  <2> QED
    BY <2>1, <2>2 DEF Published
<1>4. OneClient(<<>>)' /\ conn'[handle'] # "connecting"
  BY <1>1, <1>3 DEF Published, Publishing, OneClient, TypeOK
<1>5. notice' = MQTT_PUBLISHED /\ pc' = "wait" /\ reading' = reading
  BY <1>1 DEF Published, mqtt_event_handler_cb, Notify, Publishing
<1> QED
  BY <1>2, <1>4, <1>5 DEF Confirmed

(* With no drops and no renewals, every step leads from one phase to the next. *)
LEMMA NextPhase ==
  ASSUME Undisturbed, TypeOK, SinglePhase, [Next]_vars
  PROVE  SinglePhase'
<1> USE Bounds, PhaseOf DEF task, clients
<1>1. CASE Generate
  BY <1>1, PhaseUnchanged DEF Generate
<1>2. CASE Receive
  <2>1. Idle /\ reading' # 0 /\ pc' = "wait"
    BY <1>2 DEF Receive, TypeOK
  <2>2. Joining'
    BY <1>2, <2>1 DEF Receive, Idle, Joining, NoClients, TypeOK
  <2> QED
    BY <2>1, <2>2 DEF SinglePhase
<1>3. CASE WaitNotify
  <2>1. Joined \/ Online \/ Confirmed
    BY <1>3 DEF WaitNotify
  <2>2. Joined => Joined'
    BY <1>3 DEF WaitNotify, Joined, NoClients
  <2>3. Online => Online'
    BY <1>3 DEF WaitNotify, Online, OneClient
  <2>4. Confirmed => Confirmed'
    BY <1>3 DEF WaitNotify, Confirmed, OneClient
  <2> QED
    BY <1>3, <2>1, <2>2, <2>3, <2>4 DEF WaitNotify, SinglePhase
<1>4. CASE StartClient
  <2>1. Joined
    BY <1>4 DEF StartClient
  <2>2. PICK c \in Client : handle' = c /\ conn' = [conn EXCEPT ![c] = IF wifi = "up" THEN "connecting" ELSE "retrying"]
    BY <1>4, <2>1, RoomForClient DEF StartClient
  <2>3. Connecting'
    BY <1>4, <2>1, <2>2 DEF StartClient, Joined, Connecting, OneClient, NoClients, TypeOK
  <2> QED
    BY <1>4, <2>3 DEF StartClient, SinglePhase
<1>5. CASE Publish
  <2>1. Online
    BY <1>5 DEF Publish
  <2>2. outbox' = [outbox EXCEPT ![handle] = <<reading>>]
    BY <1>5, <2>1 DEF Publish, Online, OneClient, TypeOK
  <2>3. Publishing'
    BY <1>5, <2>1, <2>2 DEF Publish, Online, Publishing, OneClient, TypeOK
  <2> QED
    BY <1>5, <2>3 DEF Publish, SinglePhase
<1>6. CASE EndSession
  <2>1. Confirmed
    BY <1>6 DEF EndSession
  <2>2. Idle'
    BY <1>6, <2>1 DEF EndSession, Leave, Destroyed, Disconnected, Confirmed, OneClient,
                      Idle, NoClients, TypeOK
  <2> QED
    BY <1>6, <2>2 DEF EndSession, Leave, SinglePhase
<1>7. CASE Panic
  BY <1>7, NoPanic
<1>8. CASE event_handler
  <2>1. Joining
    BY <1>8 DEF event_handler
  <2>2. CASE Head(events) = "STA_START" /\ StaStart
    <3>1. Joining'
      BY <1>8, <2>1, <2>2 DEF event_handler, StaStart, esp_wifi_connect, Joining, NoClients
    <3> QED
      BY <1>8, <3>1 DEF event_handler, SinglePhase
  <2>3. CASE Head(events) = "GOT_IP" /\ Notify(WIFI_CONNECTED) /\ UNCHANGED wifi
    <3>1. Joined'
      BY <1>8, <2>1, <2>3 DEF event_handler, Notify, Joining, Joined, NoClients
    <3> QED
      BY <1>8, <3>1 DEF event_handler, SinglePhase
  <2> QED
    BY <1>8, <2>2, <2>3 DEF event_handler
<1>9. CASE GotIp
  <2>1. Joining
    BY <1>9 DEF GotIp
  <2>2. Joining'
    BY <1>9, <2>1 DEF GotIp, Joining, NoClients
  <2> QED
    BY <1>9, <2>2 DEF GotIp, SinglePhase
<1>10. CASE Renew
  BY <1>10 DEF Renew, Undisturbed, TypeOK
<1>11. CASE LoseLink
  <2>1. ~Idle
    BY <1>11 DEF LoseLink, Idle
  <2>2. Joining => Joining'
    BY <1>11 DEF LoseLink, Joining, NoClients, Disconnected
  <2>3. Joined => Joined'
    BY <1>11 DEF LoseLink, Joined, NoClients, Disconnected
  <2>4. Connecting => Connecting'
    BY <1>11 DEF LoseLink, Connecting, OneClient, Disconnected
  <2>5. Online => Online'
    BY <1>11 DEF LoseLink, Online, OneClient, Disconnected
  <2>6. Publishing => Publishing'
    BY <1>11 DEF LoseLink, Publishing, OneClient, Disconnected
  <2>7. Confirmed => Confirmed'
    BY <1>11 DEF LoseLink, Confirmed, OneClient, Disconnected
  <2>8. pc' = "receive" <=> reading' = 0
    BY <1>11 DEF LoseLink, SinglePhase
  <2> QED
    BY <2>1, <2>2, <2>3, <2>4, <2>5, <2>6, <2>7, <2>8 DEF SinglePhase
<1>12. ASSUME NEW c \in Client, Connected(c) PROVE SinglePhase'
  <2>1. Connecting /\ handle = c
    BY <1>12 DEF Connected, Online, Publishing, Confirmed, Connecting, OneClient
  <2>2. Online'
    BY <1>12, <2>1 DEF Connected, mqtt_event_handler_cb, Notify, Connecting, Online,
                       OneClient, TypeOK
  <2> QED
    BY <1>12, <2>2 DEF Connected, SinglePhase
<1>13. ASSUME NEW c \in Client, Published(c) PROVE SinglePhase'
  <2>1. Confirmed' /\ UNCHANGED <<pc, reading>>
    BY <1>13, PublishedConfirms DEF Published
  <2> QED
    BY <2>1 DEF SinglePhase
<1>14. ASSUME NEW c \in Client, Dropped(c) PROVE SinglePhase'
  BY <1>14 DEF Dropped, Undisturbed, TypeOK
<1>15. CASE UNCHANGED vars
  BY <1>15, PhaseUnchanged DEF vars
<1> QED
  BY <1>1, <1>2, <1>3, <1>4, <1>5, <1>6, <1>7, <1>8, <1>9, <1>10, <1>11, <1>12,
     <1>13, <1>14, <1>15 DEF Next, OnConnected

-----------------------------------------------------------------------------
LEMMA Invariance == ASSUME Undisturbed PROVE Spec => []IInv
<1>1. Init => IInv
  BY InitTypeOK, InitPhase DEF IInv
<1>2. IInv /\ [Next]_vars => IInv'
  BY NextTypeOK, NextPhase DEF IInv, SinglePhase
<1> QED
  BY <1>1, <1>2, PTL DEF Spec

(* In undisturbed sessions MQTTLogic never passes a NULL client to the MQTT library. *)
THEOREM NeverNullClient == ASSUME Undisturbed PROVE Spec => []NoNullClient
<1>1. IInv => NoNullClient
  BY Bounds, PhaseOf DEF IInv, NoNullClient, Online, Confirmed, OneClient
<1> QED
  BY <1>1, Invariance, PTL

(* An undisturbed session returns only once its own reading is confirmed. *)
THEOREM NeverAbandoned == ASSUME Undisturbed PROVE Spec => []SessionEndsDelivered
<1>1. IInv => SessionEndsDelivered
  BY PhaseOf DEF IInv, SessionEndsDelivered, Confirmed
<1> QED
  BY <1>1, Invariance, PTL

(* The next session starts with nothing left of the previous one. *)
THEOREM AlwaysClean == ASSUME Undisturbed PROVE Spec => []CleanBetweenSessions
<1>1. IInv => CleanBetweenSessions
  BY PhaseOf DEF IInv, CleanBetweenSessions, Idle, NoClients
<1> QED
  BY <1>1, Invariance, PTL

(* No pending command is ever overwritten by another. *)
THEOREM CommandsNeverLost == ASSUME Undisturbed PROVE Spec => NoCommandLost
<1>1. IInv /\ [Next]_vars
        => [notice # NoCommand => notice' = NoCommand \/ UNCHANGED notice]_vars
  <2> SUFFICES ASSUME IInv, [Next]_vars
               PROVE  [notice # NoCommand => notice' = NoCommand \/ UNCHANGED notice]_vars
    OBVIOUS
  <2> USE PhaseOf DEF IInv
  <2>1. CASE event_handler
    BY <2>1 DEF event_handler, Joining
  <2>2. ASSUME NEW c \in Client, Connected(c) PROVE notice = NoCommand
    BY <2>2 DEF Connected, Online, Publishing, Confirmed, Connecting, OneClient
  <2>3. ASSUME NEW c \in Client, Published(c) PROVE notice = NoCommand
    BY <2>3 DEF Published, Online, Publishing, Confirmed, Connecting, OneClient
  <2> QED
    BY <2>1, <2>2, <2>3 DEF Next, OnConnected, Generate, Receive, WaitNotify, StartClient,
       Publish, EndSession, Panic, GotIp, Renew, LoseLink, Dropped, vars
<1> QED
  BY <1>1, Invariance, PTL DEF Spec, NoCommandLost

-----------------------------------------------------------------------------
(* The pipeline *)

LEMMA InFront ==
  ASSUME NEW S, NEW q \in Seq(S), NEW r \in S, NEW e \in S
  PROVE  /\ <<>> \o q = q
         /\ Len(<<r>> \o q) = Len(q) + 1 /\ <<r>> \o q # <<>>
         /\ Head(<<r>> \o q) = r /\ Tail(<<r>> \o q) = q
         /\ <<r>> \o Append(q, e) = Append(<<r>> \o q, e)
         /\ q # <<>> => <<Head(q)>> \o Tail(q) = q
OBVIOUS

(* Only the end of the session follows the confirmation of its reading. *)
LEMMA ConfirmedStays ==
  ASSUME Undisturbed, IInv, Confirmed, [Next]_vars
  PROVE  (Confirmed' /\ UNCHANGED <<reading, delivered>>) \/ EndSession
<1> USE Bounds DEF Confirmed, OneClient, task, clients
<1>1. CASE WaitNotify
  BY <1>1 DEF WaitNotify
<1>2. CASE LoseLink
  BY <1>2 DEF LoseLink, Disconnected, IInv, TypeOK
<1>3. CASE Generate
  BY <1>3 DEF Generate
<1>4. ASSUME NEW c \in Client, Connected(c) \/ Published(c) \/ Dropped(c) PROVE FALSE
  BY <1>4 DEF Connected, Quiet, Published, Dropped, Undisturbed, IInv, TypeOK
<1>5. ~(Receive \/ StartClient \/ Publish \/ Panic \/ event_handler \/ GotIp \/ Renew)
  BY DEF Receive, StartClient, Publish, Panic, event_handler, GotIp, Renew, Undisturbed,
         IInv, TypeOK
<1>6. CASE UNCHANGED vars
  BY <1>6 DEF vars
<1> QED
  BY <1>1, <1>2, <1>3, <1>4, <1>5, <1>6 DEF Next, OnConnected

(* Which steps touch what the pipeline sees. *)
LEMMA PublishedReading ==
  ASSUME IInv, EachReadingOnce, NEW c \in Client, Published(c)
  PROVE  /\ reading \in 1..MaxReadings /\ reading \notin Range(delivered)
         /\ delivered' = Append(delivered, reading)
         /\ UNCHANGED <<generated, readingQueue, reading>>
<1>1. Publishing /\ handle = c
  BY PhaseOf DEF IInv, Published, Connecting, Online, Publishing, Confirmed, OneClient
<1>2. ~Confirmed
  BY <1>1 DEF Publishing, Confirmed, Waiting, Commanded
<1>3. outbox[c] = <<reading>> /\ pc # "receive"
  BY <1>1 DEF Publishing, OneClient
<1>4. Head(outbox[c]) = reading
  BY <1>3
<1>5. reading # 0
  BY <1>3 DEF IInv, SinglePhase
<1> QED
  BY <1>2, <1>4, <1>5, Bounds DEF Published, IInv, TypeOK, EachReadingOnce, task

LEMMA Touching ==
  ASSUME Undisturbed, IInv, [Next]_vars
  PROVE  \/ Generate \/ Receive \/ EndSession
         \/ \E c \in Client : Published(c)
         \/ UNCHANGED <<generated, readingQueue, reading, delivered>>
<1>1. ~Panic
  BY NoPanic DEF IInv
<1> QED
  BY <1>1 DEF Next, OnConnected, WaitNotify, StartClient, Publish, event_handler, GotIp,
     Renew, LoseLink, Connected, Dropped, vars, task

(* Every step keeps each reading in one place. *)
LEMMA NextOnce ==
  ASSUME Undisturbed, IInv, EachReadingOnce, [Next]_vars
  PROVE  EachReadingOnce'
<1>1. CASE Generate
  <2>1. generated \in Nat /\ generated' = generated + 1 /\ UNCHANGED <<reading, delivered>>
    BY <1>1, Bounds DEF Generate, IInv, TypeOK, task
  <2>2. reading \in Nat /\ \A i \in DOMAIN delivered : delivered[i] \in Nat
    BY Bounds DEF IInv, TypeOK
  <2>3. generated' \notin Range(delivered) \cup {reading}
    BY <2>1, <2>2 DEF EachReadingOnce, Range
  <2>4. Confirmed => Confirmed'
    BY <1>1, ConfirmedStays DEF Generate, EndSession, task
  <2>5. readingQueue' = readingQueue \/ readingQueue' = Append(readingQueue, generated')
    BY <1>1 DEF Generate, Send
  <2>6. readingQueue \in Seq(1..MaxReadings)
    BY DEF IInv, TypeOK
  <2>7. \A i \in DOMAIN readingQueue' :
          \/ /\ i \in DOMAIN readingQueue
             /\ readingQueue'[i] = readingQueue[i]
          \/ /\ i \notin DOMAIN readingQueue /\ i = Len(readingQueue) + 1
             /\ readingQueue'[i] = generated'
    BY <2>5, <2>6
  <2>8. \A i \in DOMAIN readingQueue : readingQueue[i] \in Nat /\ readingQueue[i] <= generated
    BY <2>6, Bounds DEF EachReadingOnce
  <2> QED
    BY <2>1, <2>2, <2>3, <2>4, <2>7, <2>8 DEF EachReadingOnce
<1>2. CASE Receive
  <2>1. readingQueue \in Seq(1..MaxReadings) /\ readingQueue # <<>>
    BY <1>2 DEF IInv, TypeOK, Receive
  <2>2. /\ reading' = readingQueue[1] /\ 1 \in DOMAIN readingQueue
        /\ readingQueue' = Tail(readingQueue) /\ UNCHANGED <<generated, delivered>>
    BY <1>2, <2>1 DEF Receive
  <2>3. \A i \in DOMAIN readingQueue' :
          i + 1 \in DOMAIN readingQueue /\ readingQueue'[i] = readingQueue[i + 1] /\ i \in Nat
          /\ i + 1 # 1
    BY <2>1, <2>2
  <2>4. \A i, j \in DOMAIN readingQueue' : i # j => i + 1 # j + 1
    BY <2>3
  <2> QED
    BY <2>2, <2>3, <2>4 DEF EachReadingOnce
<1>3. ASSUME NEW c \in Client, Published(c) PROVE EachReadingOnce'
  <2>1. /\ delivered' = Append(delivered, reading) /\ reading \in 1..MaxReadings
        /\ UNCHANGED <<generated, readingQueue, reading>>
    BY <1>3, PublishedReading
  <2>2. delivered \in Seq(1..MaxReadings)
    BY DEF IInv, TypeOK
  <2>3. Range(delivered') = Range(delivered) \cup {reading}
    BY <2>1, <2>2 DEF Range
  <2>4. \A i \in DOMAIN delivered' :
          \/ delivered'[i] = reading
          \/ i \in DOMAIN delivered /\ delivered'[i] = delivered[i]
    BY <2>1, <2>2
  <2>5. Confirmed'
    BY <1>3, PublishedConfirms DEF IInv
  <2> QED
    BY <2>1, <2>3, <2>4, <2>5 DEF EachReadingOnce
<1>4. CASE EndSession
  <2>1. reading' = 0 /\ UNCHANGED <<generated, readingQueue, delivered>>
    BY <1>4 DEF EndSession, Leave
  <2>2. 0 \notin Range(delivered) /\ 0 <= generated
    BY Bounds DEF IInv, TypeOK, Range
  <2>3. \A i \in DOMAIN readingQueue : readingQueue[i] # 0
    BY Bounds DEF IInv, TypeOK
  <2> QED
    BY <2>1, <2>2, <2>3 DEF EachReadingOnce
<1>5. CASE UNCHANGED <<generated, readingQueue, reading, delivered>> /\ ~EndSession
  <2>1. Confirmed => Confirmed'
    BY <1>5, ConfirmedStays
  <2> QED
    BY <1>5, <2>1 DEF EachReadingOnce
<1> QED
  BY <1>1, <1>2, <1>3, <1>4, <1>5, Touching

(* Every step is a step of the pipeline or a stutter. *)
LEMMA PipelineStep ==
  ASSUME Undisturbed, IInv, EachReadingOnce, [Next]_vars
  PROVE  [Pipeline!Next]_(Pipeline!vars)
<1> USE DEF InHand
<1>0. /\ readingQueue \in Seq(1..MaxReadings) /\ reading \in 0..MaxReadings
      /\ generated \in Nat /\ QueueLength \in Nat
  BY Bounds DEF IInv, TypeOK
<1>1. CASE Generate
  <2>1. /\ generated' = generated + 1 /\ generated' \in 1..MaxReadings
        /\ readingQueue' = Send(readingQueue, generated') /\ InHand' = InHand
        /\ delivered' = delivered /\ generated < MaxReadings
    BY <1>0, <1>1, Bounds DEF Generate, task
  <2>2. InHand \o Append(readingQueue, generated') = Append(InHand \o readingQueue, generated')
    BY <1>0, <2>1, InFront
  <2>3. /\ Len(readingQueue) \in Nat /\ Len(InHand \o readingQueue) \in Nat
        /\ Len(InHand \o readingQueue) >= Len(readingQueue)
        /\ Len(InHand \o readingQueue) <= Len(readingQueue) + 1
    BY <1>0, InFront
  <2>4. CASE Len(readingQueue) < QueueLength
    <3>1. readingQueue' = Append(readingQueue, generated')
      BY <2>1, <2>4 DEF Send
    <3>2. Len(InHand \o readingQueue) <= QueueLength
      BY <1>0, <2>3, <2>4
    <3> HIDE DEF InHand
    <3>3. (InHand \o readingQueue)' = Append(InHand \o readingQueue, generated')
      BY <2>1, <2>2, <3>1
    <3> QED
      BY <2>1, <3>2, <3>3 DEF Pipeline!Next, Pipeline!Offer
  <2>5. CASE ~(Len(readingQueue) < QueueLength)
    <3>1. readingQueue' = readingQueue
      BY <2>1, <2>5 DEF Send
    <3>2. Len(InHand \o readingQueue) >= QueueLength
      BY <1>0, <2>3, <2>5
    <3> HIDE DEF InHand
    <3>3. (InHand \o readingQueue)' = InHand \o readingQueue
      BY <2>1, <3>1
    <3> QED
      BY <2>1, <3>2, <3>3 DEF Pipeline!Next, Pipeline!Offer
  <2> QED
    BY <2>4, <2>5
<1>2. CASE Receive
  <2>1. reading = 0 /\ readingQueue # <<>> /\ UNCHANGED <<generated, delivered>>
        /\ reading' = Head(readingQueue) /\ readingQueue' = Tail(readingQueue)
    BY <1>2 DEF Receive, IInv, SinglePhase
  <2>2. /\ Head(readingQueue) = readingQueue[1] /\ 1 \in DOMAIN readingQueue
        /\ Head(readingQueue) \in 1..MaxReadings
    BY <2>1, <1>0, Bounds
  <2>3. InHand = <<>> /\ InHand' = <<Head(readingQueue)>>
    BY <2>1, <2>2, Bounds DEF EachReadingOnce
  <2>4. InHand' \o readingQueue' = InHand \o readingQueue
    BY <1>0, <2>1, <2>2, <2>3, InFront
  <2> QED
    BY <2>1, <2>4 DEF Pipeline!vars
<1>3. ASSUME NEW c \in Client, Published(c) PROVE Pipeline!Deliver
  <2>1. /\ reading \in 1..MaxReadings /\ reading \notin Range(delivered)
        /\ delivered' = Append(delivered, reading)
        /\ UNCHANGED <<generated, readingQueue, reading>>
    BY <1>3, PublishedReading
  <2>2. reading \in Range(delivered')
    BY <2>1, RangeAppend DEF IInv, TypeOK
  <2>3. InHand = <<reading>> /\ InHand' = <<>>
    BY <2>1, <2>2
  <2> QED
    BY <1>0, <2>1, <2>3, InFront DEF Pipeline!Deliver
<1>4. CASE EndSession
  <2>1. Confirmed
    BY <1>4, PhaseOf DEF IInv, EndSession
  <2> QED
    BY <1>4, <2>1 DEF EndSession, Leave, Confirmed, Pipeline!vars
<1>5. CASE UNCHANGED <<generated, readingQueue, reading, delivered>>
  BY <1>5 DEF Pipeline!vars
<1> QED
  BY <1>1, <1>2, <1>3, <1>4, <1>5, Touching DEF Pipeline!Next

(* In undisturbed sessions wifi_mqtt_6 implements the pipeline, step by step. *)
THEOREM StepsRefine == ASSUME Undisturbed PROVE Spec => ImplementsPipelineSteps
<1>1. Init => EachReadingOnce /\ Pipeline!Init
  BY DEF Init, InitSession, EachReadingOnce, Range, Pipeline!Init, InHand
<1>2. IInv /\ EachReadingOnce /\ [Next]_vars
        => EachReadingOnce' /\ [Pipeline!Next]_(Pipeline!vars)
  BY NextOnce, PipelineStep
<1> QED
  BY <1>1, <1>2, Invariance, PTL DEF Spec, ImplementsPipelineSteps, Pipeline!Spec

-----------------------------------------------------------------------------
(* With any number of drops, renewals and losses *)

LEMMA RangeOfAppend ==
  ASSUME NEW S, NEW s \in Seq(S), NEW e \in S
  PROVE  Range(Append(s, e)) = Range(s) \cup {e}
<1>1. /\ DOMAIN Append(s, e) = 1..(Len(s) + 1) /\ DOMAIN s = 1..Len(s) /\ Len(s) \in Nat
      /\ Append(s, e)[Len(s) + 1] = e
      /\ \A i \in 1..Len(s) : Append(s, e)[i] = s[i]
  OBVIOUS
<1>2. ASSUME NEW x \in Range(Append(s, e)) PROVE x \in Range(s) \cup {e}
  <2>1. PICK i \in 1..(Len(s) + 1) : x = Append(s, e)[i]
    BY <1>1, <1>2 DEF Range
  <2>2. CASE i = Len(s) + 1
    BY <1>1, <2>1, <2>2
  <2>3. CASE i \in 1..Len(s)
    BY <1>1, <2>1, <2>3 DEF Range
  <2> QED
    BY <1>1, <2>1, <2>2, <2>3
<1>3. Range(s) \cup {e} \subseteq Range(Append(s, e))
  BY RangeAppend
<1> QED
  BY <1>2, <1>3

LEMMA RangeOfTail ==
  ASSUME NEW S, NEW s \in Seq(S), s # <<>>
  PROVE  Range(Tail(s)) \subseteq Range(s) /\ Head(s) \in Range(s)
<1>1. /\ Len(s) \in Nat \ {0} /\ DOMAIN s = 1..Len(s) /\ DOMAIN Tail(s) = 1..(Len(s) - 1)
      /\ \A i \in 1..(Len(s) - 1) : Tail(s)[i] = s[i + 1]
      /\ Head(s) = s[1]
  OBVIOUS
<1>2. \A i \in 1..(Len(s) - 1) : i + 1 \in 1..Len(s)
  BY <1>1
<1> QED
  BY <1>1, <1>2 DEF Range

LEMMA Elements ==
  ASSUME NEW S, NEW s \in Seq(S)
  PROVE  (\A i \in DOMAIN s : s[i] \in S) /\ (s # <<>> => Head(s) \in S)
OBVIOUS

LEMMA RangeOfNone == Range(<<>>) = {}
BY DEF Range

LEMMA TakenType ==
  ASSUME TypeOK
  PROVE  Taken \subseteq Nat
<1>1. ASSUME NEW s \in Seq(1..MaxReadings) PROVE Range(s) \subseteq Nat
  <2>1. \A i \in DOMAIN s : s[i] \in 1..MaxReadings
    BY Elements
  <2> QED
    BY <2>1, Bounds DEF Range
<1>2. reading \in Nat /\ Range(delivered) \subseteq Nat
  BY <1>1, Bounds DEF TypeOK
<1>3. \A c \in Client : Range(outbox[c]) \subseteq Nat
  BY <1>1 DEF TypeOK
<1> QED
  BY <1>2, <1>3 DEF Taken

(* A step that takes nothing from the queue leaves everything in its turn. *)
LEMMA NothingTaken ==
  ASSUME TypeOK, TakenInTurn, Taken' \subseteq Taken \cup {0},
         generated' = generated, readingQueue' = readingQueue \/ readingQueue' = <<>>,
         (reading' = reading /\ pc # "receive") \/ pc' = "receive"
  PROVE  TakenInTurn'
<1>1. generated \in Nat /\ \A i \in DOMAIN readingQueue : readingQueue[i] \in Nat \ {0}
  BY Bounds DEF TypeOK
<1>2. \A r \in Taken' : r <= generated
  BY <1>1 DEF TakenInTurn
<1>3. \A r \in Taken' : pc' # "receive" => r <= reading'
  <2>1. ASSUME NEW r \in Taken', pc' # "receive" PROVE r <= reading
    <3>1. reading \in Nat
      BY Bounds DEF TypeOK
    <3> QED
      BY <2>1, <3>1 DEF TakenInTurn
  <2> QED
    BY <2>1
<1>4. CASE readingQueue' = readingQueue
  <2>1. \A i \in DOMAIN readingQueue : \A r \in Taken' : r < readingQueue[i]
    BY <1>1 DEF TakenInTurn
  <2> QED
    BY <1>2, <1>3, <1>4, <2>1 DEF TakenInTurn
<1>5. CASE readingQueue' = <<>>
  BY <1>2, <1>3, <1>5 DEF TakenInTurn
<1> QED
  BY <1>4, <1>5

(* What has left the queue is the session's reading, delivered or in an outbox. *)
LEMMA SameTaken ==
  ASSUME delivered' = delivered, outbox' = outbox, reading' = reading
  PROVE  Taken' = Taken
BY DEF Taken

LEMMA NewInQueue ==
  ASSUME TypeOK, TakenInTurn, Generate
  PROVE  TakenInTurn'
<1>1. Taken' = Taken /\ pc' = pc /\ reading' = reading /\ generated' = generated + 1
  BY SameTaken DEF Generate, task, clients
<1>2. /\ generated \in Nat /\ readingQueue \in Seq(1..MaxReadings) /\ Taken \subseteq Nat
      /\ \A i \in DOMAIN readingQueue : readingQueue[i] \in Nat
  BY TakenType, Bounds DEF TypeOK
<1>3. \A r \in Taken : r <= generated + 1 /\ (pc # "receive" => r <= reading)
  BY <1>2 DEF TakenInTurn
<1>4. CASE readingQueue' = readingQueue
  <2>1. \A i \in DOMAIN readingQueue : readingQueue[i] <= generated + 1
    BY <1>2 DEF TakenInTurn
  <2> QED
    BY <1>1, <1>3, <1>4, <2>1 DEF TakenInTurn
<1>5. CASE readingQueue' = Append(readingQueue, generated + 1)
  <2> DEFINE n == Len(readingQueue)
  <2>1. /\ n \in Nat /\ DOMAIN readingQueue = 1..n /\ DOMAIN readingQueue' = 1..(n + 1)
        /\ readingQueue'[n + 1] = generated + 1
        /\ \A i \in 1..n : readingQueue'[i] = readingQueue[i]
    <3>1. generated + 1 \in 1..MaxReadings
      BY <1>2, Bounds DEF Generate
    <3> QED
      BY <1>2, <1>5, <3>1
  <2> HIDE DEF n
  <2>2. \A i \in 1..(n + 1) : i \in 1..n \/ i = n + 1
    BY <2>1
  <2>3. \A i \in 1..(n + 1) : readingQueue'[i] <= generated + 1
    BY <1>2, <2>1, <2>2 DEF TakenInTurn
  <2>4. \A i \in 1..(n + 1) : \A r \in Taken : r < readingQueue'[i]
    <3>1. \A r \in Taken : r < generated + 1
      BY <1>2 DEF TakenInTurn
    <3> QED
      BY <2>1, <2>2, <3>1 DEF TakenInTurn
  <2>5. \A i, j \in 1..(n + 1) : i < j => readingQueue'[i] < readingQueue'[j]
    <3> SUFFICES ASSUME NEW i \in 1..(n + 1), NEW j \in 1..(n + 1), i < j
                 PROVE  readingQueue'[i] < readingQueue'[j]
      OBVIOUS
    <3>1. i \in 1..n
      BY <2>1
    <3>2. CASE j \in 1..n
      BY <2>1, <3>1, <3>2 DEF TakenInTurn
    <3>3. CASE j = n + 1
      BY <1>2, <2>1, <3>1, <3>3 DEF TakenInTurn
    <3> QED
      BY <2>2, <3>2, <3>3
  <2> QED
    BY <1>1, <1>3, <2>1, <2>3, <2>4, <2>5 DEF TakenInTurn
<1> QED
  BY <1>4, <1>5 DEF Generate, Send

LEMMA TakenFromQueue ==
  ASSUME TypeOK, AtQueue, TakenInTurn, Receive
  PROVE  TakenInTurn'
<1> DEFINE n == Len(readingQueue)
<1>1. /\ readingQueue \in Seq(1..MaxReadings) /\ readingQueue # <<>> /\ generated \in Nat
      /\ reading' = Head(readingQueue) /\ readingQueue' = Tail(readingQueue)
      /\ generated' = generated /\ delivered' = delivered /\ outbox' = outbox
  BY Bounds DEF Receive, TypeOK, clients
<1>2. /\ n \in Nat \ {0} /\ DOMAIN readingQueue = 1..n /\ DOMAIN readingQueue' = 1..(n - 1)
      /\ reading' = readingQueue[1]
      /\ \A i \in 1..(n - 1) : readingQueue'[i] = readingQueue[i + 1]
  BY <1>1
<1>3. \A i \in 1..n : readingQueue[i] \in Nat
  <2>1. \A i \in DOMAIN readingQueue : readingQueue[i] \in 1..MaxReadings
    BY <1>1, Elements
  <2> QED
    BY <1>2, <2>1, Bounds
<1> HIDE DEF n
<1>4. Taken \subseteq Nat /\ \A r \in Taken' : r \in Taken \/ r = readingQueue[1]
  BY <1>1, <1>2, TakenType DEF Taken
<1>5. 1 \in 1..n
  BY <1>2
<1>6. \A r \in Taken' : r <= readingQueue[1]
  <2>1. \A r \in Taken : r < readingQueue[1]
    BY <1>2, <1>5 DEF TakenInTurn
  <2>2. readingQueue[1] \in Nat
    BY <1>3, <1>5
  <2>3. ASSUME NEW r \in Taken' PROVE r <= readingQueue[1]
    <3>1. CASE r \in Taken
      BY <1>4, <2>1, <2>2, <3>1
    <3>2. CASE r = readingQueue[1]
      BY <2>2, <3>2
    <3> QED
      BY <1>4, <3>1, <3>2
  <2> QED
    BY <2>3
<1>7. \A r \in Taken' : r <= generated
  <2>1. readingQueue[1] <= generated
    BY <1>2, <1>5 DEF TakenInTurn
  <2> QED
    BY <1>4, <2>1 DEF TakenInTurn
<1>8. ASSUME NEW i \in 1..(n - 1)
      PROVE  /\ readingQueue[i + 1] <= generated
             /\ \A r \in Taken' : r < readingQueue[i + 1]
             /\ \A j \in 1..(n - 1) : i < j => readingQueue[i + 1] < readingQueue[j + 1]
  <2>1. i + 1 \in 1..n /\ 1 < i + 1
    BY <1>2
  <2>2. readingQueue[1] < readingQueue[i + 1]
    BY <1>2, <1>5, <2>1 DEF TakenInTurn
  <2>3. \A r \in Taken' : r < readingQueue[i + 1]
    BY <1>2, <1>4, <2>1, <2>2 DEF TakenInTurn
  <2>4. ASSUME NEW j \in 1..(n - 1), i < j PROVE readingQueue[i + 1] < readingQueue[j + 1]
    <3>1. j + 1 \in 1..n /\ i + 1 < j + 1
      BY <1>2, <2>4
    <3> QED
      BY <1>2, <2>1, <3>1 DEF TakenInTurn
  <2> QED
    BY <1>2, <2>1, <2>3, <2>4 DEF TakenInTurn
<1> QED
  BY <1>1, <1>2, <1>6, <1>7, <1>8 DEF TakenInTurn

(* The actions that take nothing from the queue, and what each does to an outbox. *)
LEMMA TakenShrinks ==
  ASSUME TypeOK, AtQueue, [Next]_vars, ~Receive, ~Generate
  PROVE  /\ Taken' \subseteq Taken \cup {0}
         /\ generated' = generated
         /\ readingQueue' = readingQueue \/ readingQueue' = <<>>
         /\ reading' = reading \/ pc' = "receive"
<1> USE DEF task, clients
<1>1. /\ reading \in Nat /\ delivered \in Seq(1..MaxReadings)
      /\ outbox \in [Client -> Seq(1..MaxReadings)]
  BY Bounds DEF TypeOK
<1>2. CASE WaitNotify \/ StartClient \/ event_handler \/ GotIp \/ Renew \/ LoseLink \/ UNCHANGED vars
  <2>1. UNCHANGED <<delivered, outbox, reading, generated, readingQueue>>
    BY <1>2 DEF WaitNotify, StartClient, event_handler, GotIp, Renew, LoseLink, vars
  <2> QED
    BY <2>1, SameTaken
<1>3. CASE \E c \in Client : Connected(c) \/ Dropped(c)
  <2>1. UNCHANGED <<delivered, outbox, reading, generated, readingQueue>>
    BY <1>3 DEF Connected, Dropped
  <2> QED
    BY <2>1, SameTaken
<1>4. CASE Publish
  <2>1. UNCHANGED <<delivered, reading, generated, readingQueue>>
    BY <1>4 DEF Publish
  <2>2. CASE handle = NoClient
    BY <1>4, <2>1, <2>2, SameTaken DEF Publish
  <2>3. CASE handle # NoClient
    <3>1. handle \in Client /\ reading \in 1..MaxReadings
      BY <1>4, <2>3, Bounds DEF Publish, TypeOK, AtQueue
    <3>2. outbox' = [outbox EXCEPT ![handle] = Append(@, reading)]
      BY <1>4, <2>3 DEF Publish
    <3>3. Range(outbox'[handle]) = Range(outbox[handle]) \cup {reading}
      <4>1. outbox'[handle] = Append(outbox[handle], reading) /\ outbox[handle] \in Seq(1..MaxReadings)
        BY <1>1, <3>1, <3>2
      <4>2. Range(Append(outbox[handle], reading)) = Range(outbox[handle]) \cup {reading}
        <5> DEFINE box == outbox[handle]
                   S == 1..MaxReadings
        <5>1. box \in Seq(S) /\ reading \in S
          BY <3>1, <4>1
        <5> HIDE DEF box, S
        <5>2. Range(Append(box, reading)) = Range(box) \cup {reading}
          BY <5>1, RangeOfAppend
        <5> QED
          BY <5>2 DEF box
      <4> QED
        BY <4>1, <4>2
    <3>4. \A c \in Client : Range(outbox'[c]) \subseteq Range(outbox[c]) \cup {reading}
      BY <1>1, <3>1, <3>2, <3>3
    <3> QED
      BY <2>1, <3>4 DEF Taken
  <2> QED
    BY <2>2, <2>3
<1>5. CASE EndSession
  <2>1. /\ UNCHANGED <<delivered, generated, readingQueue>> /\ pc' = "receive" /\ reading' = 0
        /\ outbox' = [c \in Client |-> IF c = handle THEN <<>> ELSE outbox[c]]
    BY <1>5 DEF EndSession, Leave
  <2>2. \A c \in Client : Range(outbox'[c]) \subseteq Range(outbox[c])
    BY <2>1, RangeOfNone
  <2> QED
    BY <2>1, <2>2 DEF Taken
<1>6. CASE Panic
  <2>1. /\ UNCHANGED <<delivered, generated>> /\ pc' = "receive" /\ reading' = 0
        /\ readingQueue' = <<>> /\ outbox' = [c \in Client |-> <<>>]
    BY <1>6 DEF Panic, Leave
  <2>2. \A c \in Client : Range(outbox'[c]) = {}
    BY <2>1, RangeOfNone
  <2> QED
    BY <2>1, <2>2 DEF Taken
<1>7. ASSUME NEW c \in Client, Published(c)
      PROVE  /\ Taken' \subseteq Taken /\ UNCHANGED <<reading, generated, readingQueue>>
  <2>1. /\ UNCHANGED <<reading, generated, readingQueue>> /\ outbox[c] # <<>>
        /\ delivered' = Append(delivered, Head(outbox[c]))
        /\ outbox' = [outbox EXCEPT ![c] = Tail(@)]
    BY <1>7 DEF Published
  <2>2. outbox[c] \in Seq(1..MaxReadings) /\ Head(outbox[c]) \in 1..MaxReadings
    BY <1>1, <2>1, Elements
  <2>3. Range(delivered') = Range(delivered) \cup {Head(outbox[c])}
    BY <1>1, <2>1, <2>2, RangeOfAppend
  <2>4. Head(outbox[c]) \in Range(outbox[c]) /\ Range(Tail(outbox[c])) \subseteq Range(outbox[c])
    BY <2>1, <2>2, RangeOfTail
  <2>5. \A d \in Client : Range(outbox'[d]) \subseteq Range(outbox[d])
    BY <1>1, <2>1, <2>4
  <2> QED
    BY <2>1, <2>3, <2>4, <2>5 DEF Taken
<1> QED
  BY <1>2, <1>3, <1>4, <1>5, <1>6, <1>7 DEF Next, OnConnected

LEMMA NextTurn ==
  ASSUME TypeOK, AtQueue, TakenInTurn, [Next]_vars
  PROVE  TakenInTurn'
<1>1. CASE Generate
  BY <1>1, NewInQueue
<1>2. CASE Receive
  BY <1>2, TakenFromQueue
<1>3. CASE ~Generate /\ ~Receive
  <2>1. CASE pc = "receive" /\ pc' # "receive"
    BY <1>3, <2>1 DEF Next, OnConnected, WaitNotify, StartClient, Publish, EndSession, Panic,
       event_handler, GotIp, Renew, LoseLink, Connected, Published, Dropped, vars, task
  <2>2. CASE pc # "receive" \/ pc' = "receive"
    BY <1>3, <2>2, TakenShrinks, NothingTaken
  <2> QED
    BY <2>1, <2>2
<1> QED
  BY <1>1, <1>2, <1>3

LEMMA NextAtQueue ==
  ASSUME TypeOK, AtQueue, [Next]_vars
  PROVE  AtQueue'
<1> USE DEF AtQueue, task, clients
<1>1. CASE Receive
  <2>1. reading' \in 1..MaxReadings
    BY <1>1, Elements DEF Receive, TypeOK
  <2> QED
    BY <1>1, <2>1, Bounds DEF Receive
<1>2. CASE Generate \/ WaitNotify \/ StartClient \/ Publish
  BY <1>2 DEF Generate, WaitNotify, StartClient, Publish
<1>3. CASE EndSession \/ Panic
  BY <1>3 DEF EndSession, Panic, Leave
<1>4. CASE event_handler \/ GotIp \/ Renew \/ LoseLink \/ UNCHANGED vars
  BY <1>4 DEF event_handler, GotIp, Renew, LoseLink, vars
<1>5. CASE \E c \in Client : Connected(c) \/ Published(c) \/ Dropped(c)
  BY <1>5 DEF Connected, Published, Dropped
<1> QED
  BY <1>1, <1>2, <1>3, <1>4, <1>5 DEF Next, OnConnected

(* The session's client is a new one, and a client that is freed is emptied. *)
LEMMA NextOwn ==
  ASSUME TypeOK, AtQueue, OwnReadingOnly, [Next]_vars
  PROVE  OwnReadingOnly'
<1> USE DEF task, clients
<1>1. /\ conn \in [Client -> {"free", "connecting", "online", "retrying"}]
      /\ outbox \in [Client -> Seq(1..MaxReadings)] /\ handle \in Client \cup {NoClient}
      /\ \A c \in Client : conn[c] = "free" => outbox[c] = <<>>
      /\ handle # NoClient =>
           conn[handle] # "free" /\ \A m \in Range(outbox[handle]) : m = reading
  BY DEF TypeOK, OwnReadingOnly
<1>2. CASE Generate \/ WaitNotify \/ event_handler \/ GotIp \/ Renew \/ UNCHANGED vars
  <2>1. UNCHANGED <<conn, outbox, handle, reading>>
    BY <1>2 DEF Generate, WaitNotify, event_handler, GotIp, Renew, vars
  <2> QED
    BY <1>1, <2>1 DEF OwnReadingOnly
<1>3. CASE Receive
  BY <1>1, <1>3 DEF Receive, OwnReadingOnly
<1>4. CASE StartClient
  <2>1. UNCHANGED <<outbox, reading>>
    BY <1>4 DEF StartClient
  <2>2. CASE HeapFull /\ handle' = NoClient /\ UNCHANGED conn
    BY <1>1, <2>1, <2>2 DEF OwnReadingOnly
  <2>3. ASSUME NEW c \in Client, conn[c] = "free", handle' = c,
               conn' = [conn EXCEPT ![c] = IF wifi = "up" THEN "connecting" ELSE "retrying"]
        PROVE  OwnReadingOnly'
    <3>1. Range(outbox'[handle']) = {}
      BY <1>1, <2>1, <2>3, RangeOfNone
    <3>2. \A d \in Client : conn'[d] = "free" => outbox'[d] = <<>>
      BY <1>1, <2>1, <2>3
    <3>3. conn'[handle'] # "free"
      BY <1>1, <2>3
    <3> QED
      BY <3>1, <3>2, <3>3 DEF OwnReadingOnly
  <2> QED
    BY <1>4, <2>2, <2>3 DEF StartClient
<1>5. CASE Publish
  <2>1. UNCHANGED <<conn, reading, handle>>
    BY <1>5 DEF Publish
  <2>2. CASE handle = NoClient
    BY <1>1, <1>5, <2>1, <2>2 DEF Publish, OwnReadingOnly
  <2>3. CASE handle # NoClient
    <3>1. handle \in Client /\ reading \in 1..MaxReadings /\ outbox[handle] \in Seq(1..MaxReadings)
      BY <1>1, <1>5, <2>3, Bounds DEF Publish, TypeOK, AtQueue
    <3>2. outbox' = [outbox EXCEPT ![handle] = Append(outbox[handle], reading)]
      BY <1>5, <2>3 DEF Publish
    <3>3. Range(outbox'[handle]) = Range(outbox[handle]) \cup {reading}
      <4>1. Range(Append(outbox[handle], reading)) = Range(outbox[handle]) \cup {reading}
        <5> DEFINE box == outbox[handle]
                   S == 1..MaxReadings
        <5>1. box \in Seq(S) /\ reading \in S
          BY <3>1
        <5> HIDE DEF box, S
        <5>2. Range(Append(box, reading)) = Range(box) \cup {reading}
          BY <5>1, RangeOfAppend
        <5> QED
          BY <5>2 DEF box
      <4> QED
        BY <1>1, <3>1, <3>2, <4>1
    <3>4. \A c \in Client : conn'[c] = "free" => outbox'[c] = <<>>
      BY <1>1, <2>1, <2>3, <3>1, <3>2
    <3> QED
      BY <1>1, <2>1, <2>3, <3>3, <3>4 DEF OwnReadingOnly
  <2> QED
    BY <2>2, <2>3
<1>6. CASE EndSession
  <2>1. /\ handle' = NoClient /\ conn' = Destroyed
        /\ outbox' = [c \in Client |-> IF c = handle THEN <<>> ELSE outbox[c]]
    BY <1>6 DEF EndSession, Leave
  <2>2. \A c \in Client : conn'[c] = "free" => outbox'[c] = <<>>
    BY <1>1, <2>1 DEF Destroyed, Disconnected
  <2> QED
    BY <2>1, <2>2 DEF OwnReadingOnly
<1>7. CASE Panic
  BY <1>7 DEF Panic, Leave, OwnReadingOnly
<1>8. CASE LoseLink
  <2>1. UNCHANGED <<outbox, handle, reading>> /\ conn' = Disconnected
    BY <1>8 DEF LoseLink
  <2>2. \A c \in Client : conn'[c] = "free" <=> conn[c] = "free"
    BY <2>1 DEF Disconnected
  <2> QED
    BY <1>1, <2>1, <2>2 DEF OwnReadingOnly
<1>9. ASSUME NEW c \in Client, Connected(c) \/ Dropped(c) PROVE OwnReadingOnly'
  <2>1. UNCHANGED <<outbox, handle, reading>>
    BY <1>9 DEF Connected, Dropped
  <2>2. \A d \in Client : conn'[d] = "free" <=> conn[d] = "free"
    BY <1>1, <1>9 DEF Connected, Dropped
  <2> QED
    BY <1>1, <2>1, <2>2 DEF OwnReadingOnly
<1>10. ASSUME NEW c \in Client, Published(c) PROVE OwnReadingOnly'
  <2>1. /\ UNCHANGED <<handle, reading, conn>> /\ outbox[c] # <<>>
        /\ outbox' = [outbox EXCEPT ![c] = Tail(@)]
    BY <1>10 DEF Published
  <2>2. Range(Tail(outbox[c])) \subseteq Range(outbox[c])
    BY <1>1, <2>1, RangeOfTail
  <2>3. \A d \in Client : Range(outbox'[d]) \subseteq Range(outbox[d])
    BY <1>1, <2>1, <2>2
  <2>4. \A d \in Client : conn'[d] = "free" => outbox'[d] = <<>>
    BY <1>1, <2>1
  <2> QED
    BY <1>1, <2>1, <2>3, <2>4 DEF OwnReadingOnly
<1> QED
  BY <1>2, <1>3, <1>4, <1>5, <1>6, <1>7, <1>8, <1>9, <1>10 DEF Next, OnConnected

LEMMA TurnInvariance == Spec => []TurnInv
<1>1. Init => TurnInv
  <2> SUFFICES ASSUME Init PROVE TurnInv
    OBVIOUS
  <2>1. TypeOK
    BY InitTypeOK
  <2>2. AtQueue
    BY DEF Init, InitSession, AtQueue
  <2>3. Taken = {0}
    BY RangeOfNone DEF Init, InitSession, Taken
  <2>4. TakenInTurn
    BY <2>3 DEF Init, InitSession, TakenInTurn
  <2>5. OwnReadingOnly
    BY DEF Init, InitSession, OwnReadingOnly
  <2> QED
    BY <2>1, <2>2, <2>4, <2>5 DEF TurnInv
<1>2. TurnInv /\ [Next]_vars => TurnInv'
  BY NextTypeOK, NextAtQueue, NextTurn, NextOwn DEF TurnInv, AtQueue
<1> QED
  BY <1>1, <1>2, PTL DEF Spec

(***************************************************************************)
(* The variables of wifi_mqtt_6 keep their types and their bounds, with    *)
(* any number of dropped connections, renewed addresses and lost links.    *)
(***************************************************************************)
THEOREM TypeCorrect == Spec => []TypeOK
<1>1. TurnInv => TypeOK
  BY DEF TurnInv
<1> QED
  BY <1>1, TurnInvariance, PTL

(***************************************************************************)
(* Whatever was dropped, renewed or lost, the client of the running        *)
(* session never delivers after a younger reading: only leaked clients do. *)
(***************************************************************************)
THEOREM SessionNeverLate == Spec => []OwnClientInTurn
<1>1. TurnInv => OwnClientInTurn
  <2> SUFFICES ASSUME TurnInv, handle # NoClient, NEW m \in Range(outbox[handle]),
                      NEW r \in Range(delivered)
               PROVE  r <= m
    BY DEF OwnClientInTurn
  <2>1. m = reading /\ pc # "receive"
    BY DEF TurnInv, OwnReadingOnly, AtQueue
  <2>2. r \in Taken
    BY DEF Taken
  <2> QED
    BY <2>1, <2>2 DEF TurnInv, TakenInTurn
<1> QED
  BY <1>1, TurnInvariance, PTL

=============================================================================
