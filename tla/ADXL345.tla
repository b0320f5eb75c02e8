------------------------------- MODULE ADXL345 -------------------------------
(***************************************************************************)
(* Class ADXL345 of raspberry_pi/raspberry_earthquake.py: its arithmetic,  *)
(* and what main makes of it.                                              *)
(***************************************************************************)
EXTENDS I2C

Axes == 1 .. 3
RANGE_16_G == 3

\* (value & ~0x0F) | range | 0x08, for a range of two bits
WithRange(value, range) == (value - (value % 16)) + 8 + range

\* mutations of axis: two's complement is not undone, or not for -32768
axisUnsigned(low, high) == low + high * 256

axisAlmost(low, high) ==
  LET g == low + high * 256
  IN  IF g > 32768 THEN g - 65535 ELSE g

\* ADXL345.read: an axis from its two bytes, in units of 1/256 g
axis(low, high) ==
  LET g == low + high * 256
  IN  IF g > 32767 THEN g - 65535 ELSE g

\* axis / 256 > 0.3
AboveThreshold(g) == 10 * g > 768

Reading(data, i) == axis(data[i] % 256, data[i] \div 256)

Shaken(data) ==
  AboveThreshold(Reading(data, 1)) \/ AboveThreshold(Reading(data, 2))
=============================================================================
