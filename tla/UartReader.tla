----------------------------- MODULE UartReader ------------------------------
(***************************************************************************)
(* uart_eco.c and rx_task of uart_rxtx_task.c: bytes that arrive at UART2  *)
(* are collected by the driver in a ring buffer, read into a buffer from   *)
(* malloc, terminated with a zero and printed; rx_task also dumps them.    *)
(* The programs differ in what they allocate and ask for.                  *)
(*                                                                         *)
(* Byte n of the text has the value n, and the value of a NUL besides when *)
(* n is in Zeros.  The sizes of the code are scaled down.                  *)
(***************************************************************************)
EXTENDS Naturals, Sequences

CONSTANTS Allocated,   \* of each program: 1024 in uart_eco, RX_BUF_SIZE+1 in rx_task
          Asked,       \* of each program: BUF_SIZE in uart_eco, RX_BUF_SIZE in rx_task
          Ring,        \* 2048 in both
          Zeros,       \* which bytes of the text are NULs
          Total        \* bound: bytes sent

Reader == {"uart_eco", "rx_task"}

(***************************************************************************)
(* rx_task asks for no more than fits into its buffer.  Of uart_eco        *)
(* nothing is assumed: BUF_SIZE is twice what it allocates.                *)
(***************************************************************************)
ASSUME SizesAssumption ==
  /\ {Allocated, Asked} \subseteq [Reader -> Nat \ {0}]
  /\ Ring \in Nat \ {0} /\ Total \in Nat /\ Zeros \subseteq Nat \ {0}
  /\ Asked["rx_task"] < Allocated["rx_task"]

VARIABLES reader,  \* the program
          sent,    \* bytes sent to UART2
          ring,    \* of the driver
          lost,    \* a byte found the ring buffer full
          pc,      \* "read" in uart_read_bytes, "print", or "overrun"
          chunk,   \* what the read has collected
          data,    \* the buffer, as far as it was ever written
          out,     \* printed with %s
          dump     \* printed by the hex dump of rx_task

vars == <<reader, sent, ring, lost, pc, chunk, data, out, dump>>

Init ==
  /\ reader \in Reader /\ sent = 0 /\ ring = <<>> /\ lost = FALSE
  /\ pc = "read" /\ chunk = <<>> /\ data = <<>> /\ out = <<>> /\ dump = <<>>

(* Without flow control nothing stops the sender. *)
Arrive ==
  /\ sent < Total
  /\ sent' = sent + 1
  /\ IF Len(ring) < Ring
       THEN ring' = Append(ring, sent') /\ UNCHANGED lost
       ELSE lost' = TRUE /\ UNCHANGED ring
  /\ UNCHANGED <<reader, pc, chunk, data, out, dump>>

Room       == Len(chunk) < Allocated[reader]
MayCopy(n) == n < Asked[reader]

(* uart_read_bytes copies until it has what it was asked for. *)
Copy ==
  /\ pc = "read" /\ MayCopy(Len(chunk)) /\ Room /\ ring # <<>>
  /\ chunk' = Append(chunk, Head(ring)) /\ ring' = Tail(ring)
  /\ UNCHANGED <<reader, sent, lost, pc, data, out, dump>>

NotTerminated == chunk \o SubSeq(data, Len(chunk) + 1, Len(data))
Terminated    == Append(chunk, 0) \o SubSeq(data, Len(chunk) + 2, Len(data))

(* ... or for 20 ms (rx_task: a second) nothing came. *)
uart_read_bytes ==
  /\ pc = "read" /\ chunk # <<>> /\ Room
  /\ ~MayCopy(Len(chunk)) \/ ring = <<>>
  /\ data' = Terminated /\ pc' = "print"
  /\ UNCHANGED <<reader, sent, ring, lost, chunk, out, dump>>

(***************************************************************************)
(* The buffer is full: the next byte, or the terminator if none comes, is  *)
(* written behind it.  What the program does then is undefined, and not    *)
(* modelled.                                                               *)
(***************************************************************************)
Overrun ==
  /\ pc = "read" /\ ~Room /\ pc' = "overrun"
  /\ UNCHANGED <<reader, sent, ring, lost, chunk, data, out, dump>>

IsZero(byte) == byte = 0 \/ byte \in Zeros

(* %s ends at the first zero. *)
UpToZero ==
  LET zeros == {k \in 1..Len(data) : IsZero(data[k])}
  IN  IF zeros = {} THEN data
      ELSE SubSeq(data, 1, (CHOOSE k \in zeros : \A other \in zeros : k <= other) - 1)

Printed ==
  /\ pc = "print" /\ pc' = "read"
  /\ out' = out \o UpToZero
  /\ chunk' = <<>>
  /\ UNCHANGED <<reader, sent, ring, lost, data>>

printf   == reader = "uart_eco" /\ Printed /\ UNCHANGED dump
ESP_LOGI == reader = "rx_task" /\ Printed /\ dump' = dump \o SubSeq(data, 1, Len(chunk))

Next == Arrive \/ Copy \/ uart_read_bytes \/ Overrun \/ printf \/ ESP_LOGI
Spec == Init /\ [][Next]_vars

-----------------------------------------------------------------------------
InOrder(s) == \A k \in 2..Len(s) : s[k - 1] < s[k]
Quiet      == pc = "read" /\ chunk = <<>> /\ ring = <<>> /\ ~lost
IsText     == Zeros \cap 1..sent = {}

(***************************************************************************)
(* While the buffer suffices, and that of rx_task always does: what is     *)
(* printed was received, in that order and once.  Nothing is stale,        *)
(* although a chunk shorter than the one before leaves old bytes behind it *)
(* in the buffer, and nothing comes twice, although the ring buffer may    *)
(* have dropped some.  When nothing is under way and nothing was lost, all *)
(* has been printed, what follows a NUL excepted, and rx_task has dumped   *)
(* that too.                                                               *)
(***************************************************************************)
Echoed ==
  /\ reader = "rx_task" => pc # "overrun"
  /\ InOrder(out) /\ InOrder(dump)
  /\ Quiet /\ IsText => Len(out) = sent
  /\ Quiet /\ reader = "rx_task" => Len(dump) = sent

(***************************************************************************)
(* uart_eco: "Todos los datos recibidos en el UART2 se envian al puerto    *)
(* serial principal", all data received on UART2 is sent to the main       *)
(* serial port: whatever text has been read can be printed, and is, unless *)
(* the ring buffer lost some.                                              *)
(***************************************************************************)
AllDataSent ==
  reader = "uart_eco" /\ ~lost /\ IsText =>
    pc # "overrun" /\ (Quiet => Len(out) = sent)

-----------------------------------------------------------------------------
Byte == Nat \ {0}

TypeOK ==
  /\ reader \in Reader /\ sent \in Nat
  /\ pc \in {"read", "print", "overrun"}
  /\ {ring, chunk, out, dump} \subseteq Seq(Byte) /\ data \in Seq(Nat)

Increasing(s) == \A j, k \in 1..Len(s) : j < k => s[j] < s[k]
Before(s, t)  == \A j \in 1..Len(s), k \in 1..Len(t) : s[j] < t[k]
Received(s)   == \A k \in 1..Len(s) : s[k] <= sent

(* What is printed, then what is read, then what waits in the ring buffer was received. *)
InSequence ==
  /\ Increasing(chunk) /\ Increasing(ring) /\ Before(chunk, ring)
  /\ Received(chunk) /\ Received(ring)

Passed(s) == Increasing(s) /\ Before(s, chunk) /\ Before(s, ring) /\ Received(s)

Complete(s) == ~lost => Len(s) + Len(chunk) + Len(ring) = sent

Accounted ==
  /\ IsText => Complete(out)
  /\ reader = "rx_task" => Complete(dump)

InBounds == Len(chunk) <= Asked[reader] /\ (reader = "rx_task" => pc # "overrun")

Delimited ==
  pc = "print" =>
    /\ Len(chunk) < Len(data) /\ data[Len(chunk) + 1] = 0
    /\ \A k \in 1..Len(chunk) : data[k] = chunk[k]

(* Inductive. *)
ReaderInv ==
  TypeOK /\ InSequence /\ Passed(out) /\ Passed(dump) /\ Accounted /\ InBounds /\ Delimited
=============================================================================
