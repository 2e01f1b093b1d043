------------------------------ MODULE MCSensors ------------------------------
(***************************************************************************)
(* The programs that measure something in one run: a behaviour is one of   *)
(* spidemo_dac (DacSampling), dhtdemo (Dht), i2c_PCA_MPU6050 (Mpu),        *)
(* i2cPCA9548a or i2c_scanner (Mux), or LM75_Mid (Lm), which share         *)
(* nothing.                                                                *)
(*                                                                         *)
(* What is measured is chosen at the ends of a range, around zero, where a *)
(* byte carries, and where a division changes.                             *)
(***************************************************************************)
EXTENDS DacSampling

CONSTANTS
  BYTE_BITS, Percents, Degrees, MaxGlitches,
  Garbage,
  Links, Readings, MaxFaults,
  LastAddress, PCA9548ADDR, Direct, BehindFirst, BehindSecond,
  Temperatures, Delay, Conversion, Period

VARIABLES
  program,
  sensor_type, dpc, measured, dlate, bit, low_duration, data, glitches, result, humidity, warmth,
  channel, awake, heap, mpc, printed, turns, faults, sound,
  board, muxed, xpc, address, found, loops, failed,
  mode, register, due, age, lpc, left, refused, temperature, held

SmallPercents == [DHT_TYPE_DHT11 |-> {0, 3}, DHT_TYPE_AM2301 |-> {0, 3, 6}]
SmallDegrees  == [DHT_TYPE_DHT11 |-> {0, 2, 3}, DHT_TYPE_AM2301 |-> {-7, -4, 0, 1, 5}]

Registers == {-32768, -12441, -12421, -341, -340, -257, -1, 0, 1, 255, 256, 339, 340, 32767}
Eighths   == {-1024, -1023, -200, -1, 0, 1, 200, 1023}

Dht == INSTANCE DhtReader WITH
         Humidity <- Percents, Temperature <- Degrees,
         pc <- dpc, late <- dlate, i <- bit, temperature <- warmth
Mpu == INSTANCE Mpu6050 WITH pc <- mpc
Mux == INSTANCE MuxScan WITH
         Behind <- <<BehindFirst, BehindSecond>>, channel <- muxed, pc <- xpc
Lm  == INSTANCE Lm75 WITH pc <- lpc, failed <- refused, printed <- temperature

dht == <<sensor_type, dpc, measured, dlate, bit, low_duration, data, glitches,
         result, humidity, warmth>>
mpu == <<channel, awake, heap, mpc, printed, turns, faults, sound>>
mux == <<board, muxed, xpc, address, found, loops, failed>>
lm  == <<mode, register, due, age, lpc, left, refused, temperature, held>>

ASSUME DhtAssumption == Dht!ConstantsAssumption
ASSUME MpuAssumption == Mpu!ConstantsAssumption
ASSUME MuxAssumption == Mux!ConstantsAssumption
ASSUME LmAssumption  == Lm!ConstantsAssumption

(* Each program has the initial states of its module; of the others one will do. *)
AnyInit ==
  /\ program \in {"dac", "dht", "mpu", "mux", "lm"}
  /\ Init /\ Dht!Init /\ Mpu!Init /\ Mux!Init /\ Lm!Init
  /\ program # "dht" => sensor_type = "DHT_TYPE_DHT11" /\ measured = <<0, 0>>
  /\ program # "mpu" => channel = 0 /\ awake
  /\ program # "mux" => board = "i2c_scanner"
  /\ program # "lm" => mode = 0 /\ register = 0

AnyNext ==
  \/ program = "dac" /\ Next /\ UNCHANGED <<program, dht, mpu, mux, lm>>
  \/ program = "dht" /\ Dht!Next /\ UNCHANGED <<program, vars, mpu, mux, lm>>
  \/ program = "mpu" /\ Mpu!Next /\ UNCHANGED <<program, vars, dht, mux, lm>>
  \/ program = "mux" /\ Mux!Next /\ UNCHANGED <<program, vars, dht, mpu, lm>>
  \/ program = "lm" /\ Lm!Next /\ UNCHANGED <<program, vars, dht, mpu, mux>>

AnySpec == AnyInit /\ [][AnyNext]_<<program, vars, dht, mpu, mux, lm>>

(* dhtdemo: a disturbed level never falsifies a reading. *)
ReadingIsMeasured == Dht!ReadingIsMeasured

(* dhtdemo: a sensor within its data sheet is always read. *)
SteadyLineRead == Dht!SteadyLineRead

(* i2c_PCA_MPU6050: what is printed is what the sensor held while the heap lasts. *)
PrintedAsHeld == Mpu!PrintedAsHeld

(* i2cPCA9548a: a scan without a failed transfer lists what channel 2 shows. *)
ScanShowsSelected == Mux!ScanShowsSelected

(* LM75_Mid: what is printed is of the last 100 ms, and how it reads below 0 degrees. *)
FreshTemperature == Lm!FreshTemperature
=============================================================================
