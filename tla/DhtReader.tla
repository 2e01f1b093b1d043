------------------------------ MODULE DhtReader ------------------------------
(***************************************************************************)
(* dht.c: dht_read_data asks the sensor for a frame of five bytes, times   *)
(* every level of the line by polling it, and accepts the frame when the   *)
(* last byte is the sum of the others.  The call runs in a critical        *)
(* section: its only partner is the line.  Times are in microseconds.      *)
(*                                                                         *)
(* A level of the line lasts as long as the data sheet says, except for    *)
(* MaxGlitches levels in a call, which last as long as they please.  Bytes *)
(* are scaled down to BYTE_BITS bits so that TLC can go through frames.    *)
(***************************************************************************)
EXTENDS Integers

CONSTANTS BYTE_BITS,    \* 8 in the code
          Humidity, Temperature,  \* what a sensor of each type may measure, in the units it sends
          MaxGlitches   \* bound: levels of a wrong length in one call

ESP_OK == 0
ESP_ERR_TIMEOUT == 263
ESP_ERR_INVALID_CRC == 265

Radix == 2 ^ BYTE_BITS
Half  == 2 ^ (BYTE_BITS - 1)
Old   == 32768      \* stands for an earlier reading: no int16_t has this value

(* A DHT11 sends a byte, the others a sign and all the bits of two bytes but one. *)
Fits(type, v) ==
  v \in Int /\ IF type = "DHT_TYPE_DHT11" THEN 0 <= v /\ v < Radix
               ELSE -(Half * Radix) < v /\ v < Half * Radix

ConstantsAssumption ==
  /\ BYTE_BITS \in Nat \ {0} /\ MaxGlitches \in Nat
  /\ DOMAIN Temperature = DOMAIN Humidity
  /\ \A type \in DOMAIN Humidity :
       \A v \in Humidity[type] \cup Temperature[type] : Fits(type, v)

VARIABLES
  sensor_type,   \* the argument of every call: "DHT_TYPE_DHT11" or another
  pc,            \* "done", the phase "B", "C", "D" waited for, a bit's "low" or "high", "check"
  measured,      \* what the sensor measured: <<humidity, temperature>>
  late,          \* how far into a level the reader was when it noticed it
  i, low_duration, data,   \* locals of dht_fetch_data
  glitches,      \* levels of a wrong length so far
  result, humidity, temperature

locals == <<i, low_duration, data>>
vars   == <<sensor_type, pc, measured, late, locals, glitches, result, humidity, temperature>>

Measurable == Humidity[sensor_type] \X Temperature[sensor_type]

(***************************************************************************)
(* The sensor: a DHT11 sends whole units, the others a sign and a          *)
(* magnitude; a level lasts between the bounds of its data sheet.          *)
(***************************************************************************)
Bytes(v) ==
  IF sensor_type = "DHT_TYPE_DHT11" THEN <<v, 0>>
  ELSE LET m == IF v < 0 THEN -v ELSE v
       IN  <<(IF v < 0 THEN Half ELSE 0) + (m \div Radix), m % Radix>>

Frame ==
  LET h == Bytes(measured[1])
      t == Bytes(measured[2])
  IN  <<h[1], h[2], t[1], t[2], (h[1] + h[2] + t[1] + t[2]) % Radix>>

Sent(n) == (Frame[(n \div BYTE_BITS) + 1] \div 2 ^ (BYTE_BITS - 1 - (n % BYTE_BITS))) % 2

Lasts == [B |-> {20, 40}, C |-> {75, 85}, D |-> {75, 85}, low |-> {48, 55},
          high |-> IF Sent(i) = 0 THEN {22, 30} ELSE {68, 75}]

Wrong == IF glitches < MaxGlitches THEN {1, 30, 60, 75, 99} ELSE {}

-----------------------------------------------------------------------------
(***************************************************************************)
(* dht_await_pin_state looks at the line after 2, 4, ... microseconds; the *)
(* duration it reports is the time before the last look.                   *)
(***************************************************************************)
DHT_TIMER_INTERVAL == 2

Duration(time) == IF time > 2 THEN 2 * ((time - 1) \div 2) ELSE 0

TightLimit == [B |-> 40, C |-> 88, D |-> 88, low |-> 65, high |-> 65]
Limit      == [B |-> 40, C |-> 88, D |-> 88, low |-> 65, high |-> 75]

Follows(phase) ==
  CASE phase = "B"    -> "C"
    [] phase = "C"    -> "D"
    [] phase = "D"    -> "low"
    [] phase = "low"  -> "high"
    [] phase = "high" -> IF i + 1 = 5 * BYTE_BITS THEN "check" ELSE "low"

(* The bit just timed, put into its byte; the first of a byte clears it. *)
Stored(b, m, bit) == (IF m = 0 THEN 0 ELSE data[b]) + bit * 2 ^ (BYTE_BITS - 1 - m)

Noticed(phase, duration) ==
  /\ pc' = Follows(phase)
  /\ low_duration' = IF phase = "low" THEN duration ELSE low_duration
  /\ IF phase = "high"
       THEN LET b == (i \div BYTE_BITS) + 1
                bit == IF duration > low_duration THEN 1 ELSE 0
            IN  data' = [data EXCEPT ![b] = Stored(b, i % BYTE_BITS, bit)] /\ i' = i + 1
       ELSE UNCHANGED <<data, i>>
  /\ UNCHANGED result

Failed == pc' = "done" /\ result' = ESP_ERR_TIMEOUT /\ UNCHANGED locals

Await(phase) ==
  /\ pc = phase
  /\ \E length \in Lasts[phase] \cup Wrong :
       LET duration == Duration(length - late)
       IN  /\ late' = late + duration + DHT_TIMER_INTERVAL - length
           /\ glitches' = IF length \in Lasts[phase] THEN glitches ELSE glitches + 1
           /\ IF duration < Limit[phase] THEN Noticed(phase, duration) ELSE Failed
  /\ UNCHANGED <<sensor_type, measured, humidity, temperature>>

-----------------------------------------------------------------------------
(* dht_read_data: up to the end of phase A, and from the checksum on. *)

dht_read_data ==
  /\ pc = "done" /\ pc' = "B"
  /\ measured' \in Measurable
  /\ late' = 0 /\ glitches' = 0
  /\ i' = 0 /\ low_duration' = 0 /\ data' = [b \in 1..5 |-> 0]
  /\ humidity' = Old /\ temperature' = Old
  /\ UNCHANGED <<sensor_type, result>>

Unsigned(msb, lsb) == msb * Radix + lsb

dht_convert_data(msb, lsb) ==
  IF sensor_type = "DHT_TYPE_DHT11" THEN msb * 10
  ELSE LET magnitude == (msb % Half) * Radix + lsb
       IN  IF msb < Half THEN magnitude ELSE -magnitude

Unchecked == TRUE
Checksum  == data[5] = (data[1] + data[2] + data[3] + data[4]) % Radix

Check ==
  /\ pc = "check" /\ pc' = "done"
  /\ IF Checksum
       THEN /\ humidity' = dht_convert_data(data[1], data[2])
            /\ temperature' = dht_convert_data(data[3], data[4])
            /\ result' = ESP_OK
       ELSE result' = ESP_ERR_INVALID_CRC /\ UNCHANGED <<humidity, temperature>>
  /\ UNCHANGED <<sensor_type, measured, late, locals, glitches>>

Init ==
  /\ pc = "done" /\ sensor_type \in DOMAIN Humidity /\ measured \in Measurable
  /\ late = 0 /\ glitches = 0
  /\ i = 0 /\ low_duration = 0 /\ data = [b \in 1..5 |-> 0]
  /\ result = ESP_ERR_TIMEOUT /\ humidity = Old /\ temperature = Old

Next == dht_read_data \/ Check \/ \E phase \in {"B", "C", "D", "low", "high"} : Await(phase)
Spec == Init /\ [][Next]_vars

-----------------------------------------------------------------------------
(***************************************************************************)
(* One level of a wrong length may cost the reading but never falsifies    *)
(* it: it flips one bit, and the sum of the bytes tells.  A call that      *)
(* fails leaves the caller's last reading alone.                           *)
(***************************************************************************)
Units(v) == IF sensor_type = "DHT_TYPE_DHT11" THEN 10 * v ELSE v

ReadingIsMeasured ==
  pc = "done" /\ glitches <= 1 =>
    IF result = ESP_OK
      THEN humidity = Units(measured[1]) /\ temperature = Units(measured[2])
      ELSE humidity = Old /\ temperature = Old

(***************************************************************************)
(* A sensor that keeps to its data sheet is always read: no level comes    *)
(* near a limit of dht_await_pin_state, although the reader notices each   *)
(* level late, and all 40 bits are told apart.                             *)
(***************************************************************************)
SteadyLineRead == [][pc # "done" /\ pc' = "done" /\ glitches' = 0 => result' = ESP_OK]_vars

-----------------------------------------------------------------------------
(***************************************************************************)
(* What the two properties rest on, as long as at most one level was wrong *)
(***************************************************************************)
TypeOK ==
  /\ sensor_type \in DOMAIN Humidity /\ measured \in Measurable
  /\ pc \in {"done", "B", "C", "D", "low", "high", "check"}
  /\ late \in Nat /\ i \in Nat /\ low_duration \in Nat /\ glitches \in Nat
  /\ data \in [1..5 -> Int]

(* The reader is at most 1 us into a level, 2 after one too short to be seen. *)
NoticedInTime ==
  /\ glitches = 0 => late <= 1
  /\ glitches <= 1 => late <= 2

BitsCounted ==
  /\ pc \in {"B", "C", "D"} => i = 0
  /\ pc \in {"low", "high"} => i < 5 * BYTE_BITS
  /\ pc = "check" => i = 5 * BYTE_BITS

LastKept == pc # "done" => humidity = Old /\ temperature = Old

(* The bits of byte b that were sent so far, in their places. *)
BitsOf(b) ==
  IF i >= BYTE_BITS * b THEN BYTE_BITS
  ELSE IF i <= BYTE_BITS * (b - 1) THEN 0 ELSE i - BYTE_BITS * (b - 1)
Heard(v, n) == (v \div 2 ^ (BYTE_BITS - n)) * 2 ^ (BYTE_BITS - n)
Error(b)    == data[b] - Heard(Frame[b], BitsOf(b))

SteadyLow == pc = "high" => 44 <= low_duration /\ low_duration <= 54

(* One wrong level is one wrong bit, or a wrong measure for the bit being read. *)
OneBitWrong ==
  /\ glitches = 0 => (\A b \in 1..5 : Error(b) = 0) /\ SteadyLow
  /\ glitches = 1 =>
       \/ \A b \in 1..5 : Error(b) = 0
       \/ /\ SteadyLow
          /\ \E b \in 1..5 : /\ -Half <= Error(b) /\ Error(b) <= Half
                             /\ \A c \in 1..5 \ {b} : Error(c) = 0

DhtInv ==
  /\ TypeOK /\ NoticedInTime /\ BitsCounted /\ LastKept /\ ReadingIsMeasured
  /\ pc # "done" => OneBitWrong
=============================================================================
