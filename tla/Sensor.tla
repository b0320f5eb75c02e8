-------------------------------- MODULE Sensor --------------------------------
(***************************************************************************)
(* raspberry_pi/raspberry_earthquake.py: an ADXL345 accelerometer, the     *)
(* program that polls it and the LED.  Any transfer over the I2C bus may   *)
(* fail, and what the program then does is what class I2C makes of it.     *)
(*                                                                         *)
(* The request it posts is not here but in module Earthquake: `post' has   *)
(* begun while pc is "posting", and `posted' and `raised' are its ends.    *)
(* What the accelerometer does on its side of the bus is external: its     *)
(* registers keep their values while the program is not running, and its   *)
(* data registers read zero until it is told to measure.                   *)
(***************************************************************************)
EXTENDS ADXL345

CONSTANTS Motions,      \* bound: the words its three axes may hold
          Formats       \* bound: what DATA_FORMAT may hold at first

SensorAssumption == Motions \subseteq [Axes -> Word] /\ Formats \subseteq Byte

VARIABLES motion,       \* the axes, as two's complement words
          measuring,    \* the measure bit of POWER_CTL
          format,       \* the register DATA_FORMAT
          pc,           \* where main is
          api_called,
          led           \* the pin, low when lit

deviceVars  == <<motion, measuring, format>>
programVars == <<pc, api_called, led>>
vars == <<deviceVars, programVars>>

Init == /\ motion \in Motions
        /\ measuring \in BOOLEAN
        /\ format \in Formats
        /\ pc = "construct"
        /\ api_called = FALSE
        /\ led = "unset"
-----------------------------------------------------------------------------
Data == IF measuring THEN motion ELSE [i \in Axes |-> 0]
-----------------------------------------------------------------------------
\* ADXL345(): the device is switched on if it answers with its id, and if not,
\* or if the write fails, the program goes on as if it were
construct ==
  /\ pc = "construct"
  /\ \E found, written \in BOOLEAN : measuring' = (measuring \/ (found /\ written))
  /\ pc' = "setRange"
  /\ UNCHANGED <<motion, format, api_called, led>>

\* No bus to open: the board's revision is not in the table of I2C.py, which
\* then gives SMBus something else than a number
noBus ==
  /\ pc = "construct"
  /\ pc' = "ended"
  /\ UNCHANGED <<deviceVars, api_called, led>>

\* mutation of setRange: the register is not read
setRangeBlindly ==
  /\ pc = "setRange"
  /\ \E ok \in BOOLEAN : format' = write8(format, 8 + RANGE_16_G, ok)
  /\ pc' = "gpio"
  /\ UNCHANGED <<motion, measuring, api_called, led>>

\* setRange(ADXL345_RANGE_16_G): a read and a write, the -1 of a failed read
\* being computed with like any byte
setRange ==
  /\ pc = "setRange"
  /\ \E raw \in {format, Fault}, ok \in BOOLEAN :
       format' = write8(format, WithRange(readU8(raw), RANGE_16_G), ok)
  /\ pc' = "gpio"
  /\ UNCHANGED <<motion, measuring, api_called, led>>

setupLed ==
  /\ pc = "gpio"
  /\ led' = "high"
  /\ pc' = "read"
  /\ UNCHANGED <<deviceVars, api_called>>

\* accel.read() and the comparison
read ==
  /\ pc = "read"
  /\ pc' = IF Shaken(Data) /\ api_called = FALSE THEN "posting" ELSE "read"
  /\ UNCHANGED <<deviceVars, api_called, led>>

\* Indexing the -1 that readList returns raises a TypeError
readFails ==
  /\ pc = "read"
  /\ pc' = "ended"
  /\ UNCHANGED <<deviceVars, api_called, led>>

\* mutation of posted: a variable that nothing sets is set
postedOnce ==
  /\ pc = "posting"
  /\ led' = "low"
  /\ pc' = "read"
  /\ api_called' = TRUE
  /\ UNCHANGED deviceVars

\* requests.post returns, whatever the status of the response
posted ==
  /\ pc = "posting"
  /\ led' = "low"
  /\ pc' = "read"
  /\ UNCHANGED <<deviceVars, api_called>>

\* requests.post raises, and nothing catches it
raised ==
  /\ pc = "posting"
  /\ pc' = "ended"
  /\ UNCHANGED <<deviceVars, api_called, led>>

\* KeyboardInterrupt, which destroy answers
destroy ==
  /\ pc # "ended"
  /\ pc' = "ended"
  /\ UNCHANGED <<deviceVars, api_called, led>>

move ==
  /\ motion' \in Motions \ {motion}
  /\ UNCHANGED <<measuring, format, programVars>>

Program == construct \/ setRange \/ setupLed \/ read
Exits   == noBus \/ readFails \/ destroy

TypeOK == /\ motion \in Motions
          /\ measuring \in BOOLEAN
          /\ format \in Byte
          /\ pc \in {"construct", "setRange", "gpio", "read", "posting", "ended"}
          /\ api_called \in BOOLEAN
          /\ led \in {"unset", "high", "low"}
=============================================================================
