--------------------------- MODULE EarthquakeProofs ---------------------------
(***************************************************************************)
(* What the sensor and the web API guarantee for any motions, any states   *)
(* of the API and any contents of the device's registers: the conversions  *)
(* of the sensor's readings are one off and still tell what is a shake,    *)
(* the device keeps its format, and nothing says that the earthquake       *)
(* happened before it did.                                                 *)
(***************************************************************************)
EXTENDS Earthquake, TLAPS

\* A byte is a word, and a transfer that fails gives neither.
LEMMA FaultFacts == Byte \subseteq Word /\ Fault \notin Byte /\ Fault \notin Word
<1>1. ASSUME NEW b \in Byte PROVE b \in Word
  BY DEF Byte, Word
<1>2. QED
  BY <1>1, FaultAssumption

\* The words are the numbers below 2^16.
LEMMA WordRange ==
  /\ \A n \in Word : n \in Int /\ n >= 0 /\ n < 65536
  /\ \A n \in Int : n >= 0 /\ n < 65536 => n \in Word
<1>1. ASSUME NEW n \in Word PROVE n \in Int /\ n >= 0 /\ n < 65536
  BY DEF Word, Byte
<1>2. ASSUME NEW n \in Int, n >= 0, n < 65536 PROVE n \in Word
  BY <1>2 DEF Word, Byte
<1>3. QED
  BY <1>1, <1>2

\* A word is its two bytes, which are bytes.
LEMMA WordBytes ==
  ASSUME NEW word \in Word
  PROVE  /\ word \div 256 \in Byte /\ word % 256 \in Byte
         /\ (word % 256) + (word \div 256) * 256 = word
BY DEF Word, Byte

\* Two bytes make a word, of which they are the bytes.
LEMMA BytesWord ==
  ASSUME NEW hi \in Byte, NEW lo \in Byte
  PROVE  /\ hi * 256 + lo \in Word
         /\ (hi * 256 + lo) \div 256 = hi
         /\ (hi * 256 + lo) % 256 = lo
<1>0. hi \in Int /\ lo \in Int /\ hi >= 0 /\ lo >= 0 /\ hi < 256 /\ lo < 256
  BY DEF Byte
<1>1. PICK word \in Int : word = hi * 256 + lo
  BY <1>0
<1> DEFINE q == word \div 256
           r == word % 256
<1>2. q \in Int /\ r \in Int /\ r >= 0 /\ r < 256 /\ word = 256 * q + r
  OBVIOUS
<1> HIDE DEF q, r
<1>3. q = hi /\ r = lo /\ word >= 0 /\ word < 65536
  BY <1>0, <1>1, <1>2
<1>4. word \in Word
  BY <1>3, WordRange
<1>5. QED
  BY <1>1, <1>3, <1>4 DEF q, r

\* Undoing two's complement with 65535 (raspberry_earthquake.py:75) is one off
\* below zero, where nothing is above the threshold.
LEMMA AxisIsOneOff ==
  ASSUME NEW word \in Word
  PROVE  LET g    == readS16(word, TRUE)
             read == axis(word % 256, word \div 256)
         IN  /\ read = IF g < 0 THEN g + 1 ELSE g
             /\ AboveThreshold(read) <=> AboveThreshold(g)
<1> DEFINE g    == readS16(word, TRUE)
           read == axis(word % 256, word \div 256)
<1>1. g = SignedWord(word)
  BY FaultFacts DEF readS16, readU16
<1>2. read = IF word > 32767 THEN word - 65535 ELSE word
  BY WordBytes DEF axis
<1>3. word \in Int /\ word >= 0 /\ word < 65536
  BY WordRange
<1> HIDE DEF g, read
<1>4. read = IF g < 0 THEN g + 1 ELSE g
  BY <1>1, <1>2, <1>3, SMT DEF SignedWord
<1>5. AboveThreshold(read) <=> AboveThreshold(g)
  BY <1>1, <1>2, <1>3, SMT DEF AboveThreshold, SignedWord
<1>6. QED
  BY <1>4, <1>5 DEF g, read

-----------------------------------------------------------------------------
\* What the byte of index i becomes when the n bytes of a word change places
Moved(data, n, i) == ((data \div 256 ^ i) % 256) * 256 ^ (n - 1 - i)

\* One step of the fold that reverseByteOrder is, for a set s of indices
MovedStep(data, n, g, s) ==
  IF s = {} THEN 0
  ELSE LET x == CHOOSE y \in s : TRUE IN Moved(data, n, x) + g[s \ {x}]

\* g is the fold, which it recurs to
MovedBy(data, n, g) ==
  g = [s \in SUBSET (0 .. n - 1) |-> MovedStep(data, n, g, s)]

\* The fold over two numbers
MovedSums(data, n, low, high) ==
  [s \in SUBSET (0 .. n - 1) |-> (IF 0 \in s THEN low ELSE 0)
                                 + (IF 1 \in s THEN high ELSE 0)]

\* Where the bytes of a word of one byte, or of two, are moved to.
LEMMA MovedBytes ==
  ASSUME NEW data \in Nat
  PROVE  /\ Moved(data, 1, 0) = data % 256
         /\ Moved(data, 2, 0) = (data % 256) * 256
         /\ Moved(data, 2, 1) = (data \div 256) % 256
<1>1. 256 ^ 0 = 1 /\ 256 ^ 1 = 256
  OBVIOUS
<1>2. /\ 1 - 1 - 0 = 0 /\ 2 - 1 - 0 = 1 /\ 2 - 1 - 1 = 0
  OBVIOUS
<1>3. data \div 1 = data
  OBVIOUS
<1>4. QED
  BY <1>1, <1>2, <1>3 DEF Moved

\* The two terms of the sum
BytesMove(data, n, low, high) ==
  /\ low = Moved(data, n, 0)
  /\ n = 2 => high = Moved(data, n, 1)
  /\ n = 1 => low = data % 256
  /\ n = 2 => low = (data % 256) * 256 /\ high = (data \div 256) % 256

LEMMA MovedBytesAre ==
  ASSUME NEW data \in Nat, NEW n \in {1, 2}
  PROVE  \E low, high \in Nat : BytesMove(data, n, low, high)
<1>1. /\ data % 256 \in Nat /\ (data % 256) * 256 \in Nat
      /\ (data \div 256) % 256 \in Nat
  OBVIOUS
<1>2. QED
  BY <1>1, MovedBytes DEF BytesMove

\* The recursion of the fold has a solution: the sum of the terms in a set.
LEMMA MovedSolution ==
  ASSUME NEW data \in Nat, NEW n \in {1, 2}
  PROVE  \E h : MovedBy(data, n, h)
<1>0. PICK low \in Nat, high \in Nat :
        Moved(data, n, 0) = low /\ (n = 2 => Moved(data, n, 1) = high)
  BY MovedBytesAre DEF BytesMove
<1> DEFINE g == MovedSums(data, n, low, high)
<1>1. ASSUME NEW s \in SUBSET (0 .. n - 1), s # {}
      PROVE  MovedStep(data, n, g, s) = g[s]
  <2> DEFINE x == CHOOSE y \in s : TRUE
  <2>1. x \in s
    BY <1>1
  <2> HIDE DEF x
  <2>2. CASE x = 0
    <3>1. g[s] = low + (IF 1 \in s THEN high ELSE 0)
      BY <2>1, <2>2 DEF MovedSums
    <3>2. g[s \ {x}] = 0 + (IF 1 \in s THEN high ELSE 0)
      BY <2>1, <2>2 DEF MovedSums
    <3>3. Moved(data, n, x) = low
      BY <1>0, <2>2
    <3>4. Moved(data, n, x) + g[s \ {x}] = g[s]
      BY <3>1, <3>2, <3>3
    <3>5. QED
      BY <1>1, <3>4 DEF MovedStep, x
  <2>3. CASE x = 1
    <3>0. n = 2
      BY <2>1, <2>3
    <3>1. g[s] = (IF 0 \in s THEN low ELSE 0) + high
      BY <2>1, <2>3 DEF MovedSums
    <3>2. g[s \ {x}] = (IF 0 \in s THEN low ELSE 0) + 0
      BY <2>1, <2>3 DEF MovedSums
    <3>3. Moved(data, n, x) = high
      BY <1>0, <2>3, <3>0
    <3>4. Moved(data, n, x) + g[s \ {x}] = g[s]
      BY <3>1, <3>2, <3>3
    <3>5. QED
      BY <1>1, <3>4 DEF MovedStep, x
  <2>4. QED
    BY <2>1, <2>2, <2>3
<1>2. MovedStep(data, n, g, {}) = g[{}]
  BY DEF MovedStep, MovedSums
<1>3. \A s \in SUBSET (0 .. n - 1) : MovedStep(data, n, g, s) = g[s]
  BY <1>1, <1>2
<1>4. g = [s \in SUBSET (0 .. n - 1) |-> g[s]]
  BY DEF MovedSums
<1>5. g = [s \in SUBSET (0 .. n - 1) |-> MovedStep(data, n, g, s)]
  BY <1>3, <1>4
<1> HIDE DEF g
<1>6. QED
  BY <1>5 DEF MovedBy

\* Whatever element the fold chooses, it moves that one and goes on.
LEMMA MovedOne ==
  ASSUME NEW data, NEW n, NEW g, NEW s, s # {}
  PROVE  \E x \in s : MovedStep(data, n, g, s) = Moved(data, n, x) + g[s \ {x}]
<1> DEFINE x == CHOOSE y \in s : TRUE
<1>1. x \in s
  OBVIOUS
<1>2. MovedStep(data, n, g, s) = Moved(data, n, x) + g[s \ {x}]
  BY DEF MovedStep
<1> HIDE DEF x
<1>3. QED
  BY <1>1, <1>2

\* So reverseByteOrder (I2C.py:72) changes the places of two bytes.
LEMMA ReversedSum ==
  ASSUME NEW data \in Nat, NEW n \in {1, 2}, byteCount(data) = n
  PROVE  reverseByteOrder(data) =
           IF n = 1 THEN data % 256
           ELSE (data % 256) * 256 + ((data \div 256) % 256)
<1>0. PICK low \in Nat, high \in Nat : BytesMove(data, n, low, high)
  BY MovedBytesAre
<1>1. /\ low = Moved(data, n, 0)
      /\ n = 2 => high = Moved(data, n, 1)
      /\ n = 1 => low = data % 256
      /\ n = 2 => low = (data % 256) * 256 /\ high = (data \div 256) % 256
  BY <1>0 DEF BytesMove
<1> DEFINE B == 0 .. n - 1
           g == CHOOSE g : g = [s \in SUBSET B |-> MovedStep(data, n, g, s)]
<1>2. reverseByteOrder(data) = g[B]
  BY DEF reverseByteOrder, MapThenSumSet, MapThenFoldSet, MovedStep, Moved
<1>3. \E h : h = [s \in SUBSET B |-> MovedStep(data, n, h, s)]
  <2>1. \E h : MovedBy(data, n, h)
    BY MovedSolution
  <2>2. QED
    BY <2>1 DEF MovedBy
<1>4. g = [s \in SUBSET B |-> MovedStep(data, n, g, s)]
  BY <1>3
<1> HIDE DEF g
<1>5. /\ {} \in SUBSET B /\ {0} \in SUBSET B
      /\ n = 2 => {1} \in SUBSET B /\ {0, 1} \in SUBSET B
      /\ n = 1 => B = {0}
      /\ n = 2 => B = {0, 1}
  OBVIOUS
<1> HIDE DEF B
<1>6. g[{}] = 0
  BY <1>4, <1>5 DEF MovedStep
<1>7. ASSUME NEW s \in SUBSET B, s # {}
      PROVE  \E x \in s : g[s] = Moved(data, n, x) + g[s \ {x}]
  <2>1. g[s] = MovedStep(data, n, g, s)
    BY <1>4
  <2>2. QED
    BY <1>7, <2>1, MovedOne
<1>8. g[{0}] = low
  <2>1. \E x \in {0} : g[{0}] = Moved(data, n, x) + g[{0} \ {x}]
    BY <1>5, <1>7
  <2>2. {0} \ {0} = {}
    OBVIOUS
  <2>3. g[{0}] = Moved(data, n, 0) + 0
    BY <1>6, <2>1, <2>2
  <2>4. QED
    BY <1>1, <2>3
<1>9. CASE n = 1
  BY <1>2, <1>1, <1>5, <1>8, <1>9
<1>10. CASE n = 2
  <2>0. {1} \ {1} = {} /\ {0, 1} \ {0} = {1} /\ {0, 1} \ {1} = {0}
    OBVIOUS
  <2>1. g[{1}] = high
    <3>1. \E x \in {1} : g[{1}] = Moved(data, n, x) + g[{1} \ {x}]
      BY <1>5, <1>7, <1>10
    <3>2. g[{1}] = Moved(data, n, 1) + 0
      BY <1>6, <2>0, <3>1
    <3>3. QED
      BY <1>1, <1>10, <3>2
  <2>2. \E x \in {0, 1} : g[{0, 1}] = Moved(data, n, x) + g[{0, 1} \ {x}]
    BY <1>5, <1>7, <1>10
  <2>3. g[{0, 1}] = low + high
    <3>1. CASE g[{0, 1}] = Moved(data, n, 0) + g[{1}]
      BY <1>1, <1>10, <2>1, <3>1
    <3>2. CASE g[{0, 1}] = Moved(data, n, 1) + g[{0}]
      BY <1>1, <1>8, <1>10, <3>2
    <3>3. QED
      BY <2>0, <2>2, <3>1, <3>2
  <2>4. g[B] = low + high
    BY <1>5, <1>10, <2>3
  <2>5. reverseByteOrder(data) = (data % 256) * 256 + ((data \div 256) % 256)
    BY <1>2, <1>1, <1>10, <2>4
  <2>6. QED
    BY <1>10, <2>5
<1>11. QED
  BY <1>9, <1>10

\* A word has two bytes unless its high byte is zero.
LEMMA WordByteCount ==
  ASSUME NEW word \in Word
  PROVE  byteCount(word) = IF word \div 256 = 0 THEN 1 ELSE 2
<1>1. 256 ^ 1 = 256 /\ 256 ^ 2 = 65536
  OBVIOUS
<1>2. word \in Int /\ word >= 0 /\ word < 65536
  BY WordRange
<1> DEFINE P(n) == word < 256 ^ n /\ \A k \in 1 .. n - 1 : word >= 256 ^ k
<1>3. CASE word \div 256 = 0
  <2>1. word < 256
    BY <1>2, <1>3
  <2>2. P(1)
    BY <1>1, <2>1
  <2>3. ASSUME NEW n \in 1 .. 4, P(n) PROVE n = 1
    <3>1. n # 1 => 1 \in 1 .. n - 1
      OBVIOUS
    <3>2. n # 1 => word >= 256 ^ 1
      BY <2>3, <3>1
    <3>3. QED
      BY <1>1, <1>2, <2>1, <3>2
  <2> HIDE DEF P
  <2>4. (CHOOSE n \in 1 .. 4 : P(n)) = 1
    BY <2>2, <2>3
  <2>5. QED
    BY <1>3, <2>4 DEF byteCount, P
<1>4. CASE word \div 256 # 0
  <2>1. word >= 256
    BY <1>2, <1>4
  <2>2. P(2)
    <3>1. \A k \in 1 .. 2 - 1 : k = 1
      OBVIOUS
    <3>2. QED
      BY <1>1, <1>2, <2>1, <3>1
  <2>3. ASSUME NEW n \in 1 .. 4, P(n) PROVE n = 2
    <3>1. n \notin {1, 2} => 2 \in 1 .. n - 1
      OBVIOUS
    <3>2. n \notin {1, 2} => word >= 256 ^ 2
      BY <2>3, <3>1
    <3>3. n # 1
      <4>1. ~ (word < 256 ^ 1)
        BY <1>1, <1>2, <2>1
      <4>2. QED
        BY <2>3, <4>1
    <3>4. QED
      BY <1>1, <1>2, <3>2, <3>3
  <2> HIDE DEF P
  <2>4. (CHOOSE n \in 1 .. 4 : P(n)) = 2
    BY <2>2, <2>3
  <2>5. QED
    BY <1>4, <2>4 DEF byteCount, P
<1>5. QED
  BY <1>3, <1>4

\* The two ways of turning a word agree with the bytes read one by one.
LEMMA OrdersAgree ==
  ASSUME NEW word \in Word
  PROVE  LET hi == word \div 256
             lo == word % 256
         IN  /\ readS16(Swapped(word), FALSE) = readS8(hi) * 256 + lo
             /\ reverseByteOrder(word) = IF hi = 0 THEN lo ELSE Swapped(word)
<1>1. PICK hi \in Byte, lo \in Byte :
        hi = word \div 256 /\ lo = word % 256 /\ word = hi * 256 + lo
  BY WordBytes, WordRange
<1>0. hi \in Int /\ lo \in Int /\ hi >= 0 /\ lo >= 0 /\ hi < 256 /\ lo < 256
  BY DEF Byte
<1>2. Swapped(word) = lo * 256 + hi
  BY <1>1 DEF Swapped
<1>3. /\ Swapped(word) \in Word
      /\ Swapped(word) \div 256 = lo /\ Swapped(word) % 256 = hi
  BY <1>2, BytesWord
<1>4. Swapped(Swapped(word)) = hi * 256 + lo
  BY <1>3 DEF Swapped
<1>5. readS16(Swapped(word), FALSE) = SignedWord(hi * 256 + lo)
  BY <1>3, <1>4, FaultFacts DEF readS16, readU16
<1>6. readS8(hi) = IF hi > 127 THEN hi - 256 ELSE hi
  BY FaultFacts DEF readS8
<1>7. SignedWord(hi * 256 + lo) = readS8(hi) * 256 + lo
  BY <1>0, <1>6, SMT DEF SignedWord
<1>8. word \in Nat /\ hi % 256 = hi
  BY <1>0, WordRange
<1>9. reverseByteOrder(word) = IF hi = 0 THEN lo ELSE lo * 256 + hi
  <2>1. byteCount(word) = IF hi = 0 THEN 1 ELSE 2
    BY <1>1, WordByteCount
  <2>2. CASE hi = 0
    BY <1>1, <1>8, <2>1, <2>2, ReversedSum
  <2>3. CASE hi # 0
    BY <1>1, <1>8, <2>1, <2>3, ReversedSum
  <2>4. QED
    BY <2>2, <2>3
<1>10. readS16(Swapped(word), FALSE) = readS8(hi) * 256 + lo
  BY <1>5, <1>7, Zenon
<1>11. reverseByteOrder(word) = IF hi = 0 THEN lo ELSE Swapped(word)
  BY <1>2, <1>9, Zenon
<1>12. hi = word \div 256 /\ lo = word % 256
  BY <1>1, Zenon
<1>13. QED
  BY <1>10, <1>11, <1>12, Zenon
-----------------------------------------------------------------------------
\* So what the program takes for a shake is one.
LEMMA ShakenIsShake ==
  ASSUME S!TypeOK, Shaken(S!Data)
  PROVE  motion \in Shakes
<1>1. CASE measuring
  <2>1. /\ motion \in Motions
        /\ \A i \in {1, 2} : i \in Axes /\ motion[i] \in Word
    <3>1. S!Axes = Axes /\ S!Word = Word
      BY DEF S!Axes, S!Word, S!Byte, Axes, Word, Byte
    <3>2. 1 \in Axes /\ 2 \in Axes
      BY DEF Axes
    <3>3. motion \in Motions /\ Motions \subseteq [Axes -> Word]
      BY <3>1, ComponentAssumption DEF S!TypeOK, S!SensorAssumption
    <3>4. QED
      BY <3>2, <3>3
  <2>2. PICK i \in {1, 2} : AboveThreshold(Reading(motion, i))
    BY <1>1 DEF Shaken, S!Data
  <2>3. AboveThreshold(readS16(motion[i], TRUE))
    BY <2>1, <2>2, AxisIsOneOff DEF Reading
  <2>4. i \in 1 .. 2
    OBVIOUS
  <2>5. QED
    BY <2>1, <2>3, <2>4 DEF Shakes
<1>2. CASE ~ measuring
  <2>1. ~ AboveThreshold(axis(0 % 256, 0 \div 256))
    BY DEF AboveThreshold, axis
  <2>2. S!Data[1] = 0 /\ S!Data[2] = 0
    BY <1>2 DEF S!Data, S!Axes
  <2>3. QED
    BY <2>1, <2>2 DEF Shaken, Reading
<1>3. QED
  BY <1>1, <1>2

\* And every shake of a device that measures is taken for one.
LEMMA ShakeIsShaken ==
  ASSUME S!TypeOK, measuring, motion \in Shakes
  PROVE  Shaken(S!Data)
<1>1. /\ motion \in Motions
      /\ \A i \in {1, 2} : i \in Axes /\ motion[i] \in Word
  <2>1. S!Axes = Axes /\ S!Word = Word
    BY DEF S!Axes, S!Word, S!Byte, Axes, Word, Byte
  <2>2. 1 \in Axes /\ 2 \in Axes
    BY DEF Axes
  <2>3. motion \in Motions /\ Motions \subseteq [Axes -> Word]
    BY <2>1, ComponentAssumption DEF S!TypeOK, S!SensorAssumption
  <2>4. QED
    BY <2>2, <2>3
<1>2. PICK i \in 1 .. 2 : AboveThreshold(readS16(motion[i], TRUE))
  BY DEF Shakes
<1>3. i \in {1, 2}
  OBVIOUS
<1>4. AboveThreshold(Reading(motion, i))
  BY <1>1, <1>2, <1>3, AxisIsOneOff DEF Reading
<1>5. QED
  BY <1>3, <1>4 DEF Shaken, S!Data
-----------------------------------------------------------------------------
\* Python's remainder of a negative number is not negative.
LEMMA NegativeRemainder ==
  /\ \A n \in Int : -16 <= n /\ n < 0 => n % 16 = n + 16
  /\ \A n \in Int : -256 <= n /\ n < 0 => n % 256 = n + 256
<1>1. ASSUME NEW n \in Int, NEW m \in {16, 256}
      PROVE  /\ n % m \in Int /\ n \div m \in Int
             /\ n = m * (n \div m) + (n % m) /\ n % m >= 0 /\ n % m < m
  OBVIOUS
<1>2. ASSUME NEW n \in Int, -16 <= n, n < 0 PROVE n % 16 = n + 16
  <2>1. PICK q, r \in Int : /\ q = n \div 16 /\ r = n % 16
                            /\ n = 16 * q + r /\ r >= 0 /\ r < 16
    BY <1>1
  <2>2. QED
    BY <1>2, <2>1
<1>3. ASSUME NEW n \in Int, -256 <= n, n < 0 PROVE n % 256 = n + 256
  <2>1. PICK q, r \in Int : /\ q = n \div 256 /\ r = n % 256
                            /\ n = 256 * q + r /\ r >= 0 /\ r < 256
    BY <1>1
  <2>2. QED
    BY <1>3, <2>1
<1>4. QED
  BY <1>2, <1>3

\* What setRange writes (raspberry_earthquake.py:51): the half of the register
\* that is the range, and the other half as it was read.
LEMMA RangeWritten ==
  ASSUME format \in Byte, NEW raw \in {format, Fault}, NEW ok
  PROVE  LET f == write8(format, WithRange(readU8(raw), RANGE_16_G), ok)
         IN  /\ f \in Byte
             /\ f # format => /\ f \div 16 \in {format \div 16, 15}
                              /\ f % 16 = 11
<1> DEFINE value == WithRange(readU8(raw), RANGE_16_G)
           f     == write8(format, value, ok)
<1>0. f \in {value % 256, format}
  BY DEF write8
<1>1. CASE raw = Fault
  <2>1. PICK n \in Int : -16 <= n /\ n < 0 /\ readU8(raw) = n
    BY <1>1 DEF readU8, errMsg
  <2>2. n % 16 = n + 16
    BY <2>1, NegativeRemainder
  <2>3. PICK v \in Int : -256 <= v /\ v < 0 /\ v + 256 = 251 /\ value = v
    BY <2>1, <2>2 DEF WithRange, RANGE_16_G
  <2> HIDE DEF f, value
  <2>4. value % 256 = 251
    BY <2>3, NegativeRemainder
  <2>5. f \in Byte /\ (f # format => f \div 16 = 15 /\ f % 16 = 11)
    BY <1>0, <2>4 DEF Byte
  <2>6. QED
    BY <2>5 DEF f, value
<1>2. CASE raw # Fault
  <2>1. readU8(raw) = format
    BY <1>2 DEF readU8
  <2>2. f \in {(format - (format % 16)) + 11, format}
    BY <2>1 DEF write8, WithRange, RANGE_16_G, Byte
  <2>3. QED
    BY <2>2 DEF Byte
<1>3. QED
  BY <1>1, <1>2
-----------------------------------------------------------------------------
\* The words the conversions are tried on are words.
LEMMA WordsAreWords ==
  ASSUME S!TypeOK, NEW word \in Words
  PROVE  /\ word \in Word /\ word \div 256 \in Byte /\ word % 256 \in Byte
         /\ word = (word \div 256) * 256 + (word % 256)
<1>1. motion \in [Axes -> Word]
  <2>1. S!Axes = Axes /\ S!Word = Word
    BY DEF S!Axes, S!Word, S!Byte, Axes, Word, Byte
  <2>2. QED
    BY <2>1, ComponentAssumption DEF S!TypeOK, S!SensorAssumption
<1>2. PICK hi \in Byte, lo \in Byte : word = hi * 256 + lo
  <2>1. \A i \in Axes : motion[i] \div 256 \in Byte /\ motion[i] % 256 \in Byte
    BY <1>1, WordBytes
  <2>2. 127 \in Byte /\ 255 \in Byte
    BY DEF Byte
  <2>3. QED
    BY <2>1, <2>2 DEF Words
<1>3. word \in Word
  BY <1>2, BytesWord
<1>4. word \div 256 = hi /\ word % 256 = lo
  <2>1. (hi * 256 + lo) \div 256 = hi /\ (hi * 256 + lo) % 256 = lo
    BY BytesWord
  <2>2. QED
    BY <1>2, <2>1, Zenon
<1>5. word \div 256 \in Byte /\ word % 256 \in Byte
  BY <1>4, Zenon
<1>6. word = (word \div 256) * 256 + (word % 256)
  BY <1>2, <1>4, Zenon
<1>7. QED
  BY <1>3, <1>5, <1>6, Zenon

\* So the readings the program makes are one off.
LEMMA ReadingsFollow == S!TypeOK => ReadingsAreOneOff
<1> SUFFICES ASSUME S!TypeOK, NEW word \in Words
             PROVE  LET g    == readS16(word, TRUE)
                        read == axis(word % 256, word \div 256)
                    IN  /\ read = IF g < 0 THEN g + 1 ELSE g
                        /\ AboveThreshold(read) <=> AboveThreshold(g)
  BY DEF ReadingsAreOneOff
<1>1. word \in Word
  BY WordsAreWords
<1>2. QED
  BY <1>1, AxisIsOneOff
LEMMA OrdersFollow == S!TypeOK => ByteOrdersAgree
<1> SUFFICES ASSUME S!TypeOK, NEW word \in Words
             PROVE  LET hi == word \div 256
                        lo == word % 256
                    IN  /\ readS16(Swapped(word), FALSE) = readS8(hi) * 256 + lo
                        /\ reverseByteOrder(word) =
                             IF hi = 0 THEN lo ELSE Swapped(word)
  BY DEF ByteOrdersAgree
<1>1. word \in Word
  BY WordsAreWords
<1>2. QED
  BY <1>1, OrdersAgree
-----------------------------------------------------------------------------
\* The sensor's program keeps its state well typed.
LEMMA SensorTypeStep ==
  ASSUME S!TypeOK, S!Program \/ S!Exits \/ S!posted \/ S!raised \/ S!move
  PROVE  S!TypeOK'
<1>1. CASE S!setRange
  <2>1. PICK raw \in {format, Fault}, ok \in BOOLEAN :
          format' = write8(format, WithRange(readU8(raw), RANGE_16_G), ok)
    BY <1>1, Zenon
       DEF S!setRange, S!write8, write8, S!WithRange, WithRange, S!readU8,
           readU8, S!RANGE_16_G, RANGE_16_G, S!errMsg, errMsg
  <2>2. S!Byte = Byte
    BY DEF S!Byte, Byte
  <2>3. format' \in Byte
    BY <2>1, <2>2, RangeWritten DEF S!TypeOK
  <2>4. QED
    BY <1>1, <2>2, <2>3 DEF S!setRange, S!TypeOK
<1>2. CASE S!construct \/ S!setupLed \/ S!read
  BY <1>2 DEF S!construct, S!setupLed, S!read, S!deviceVars, S!TypeOK
<1>3. CASE S!Exits \/ S!posted \/ S!raised \/ S!move
  BY <1>3 DEF S!Exits, S!noBus, S!readFails, S!destroy, S!posted, S!raised,
              S!move, S!deviceVars, S!programVars, S!TypeOK
<1>4. QED
  BY <1>1, <1>2, <1>3 DEF S!Program

\* The API's state is well typed, and a call that is to change the item has a
\* state to change it to (lambda_function.py:19 raises a KeyError otherwise).
ApiOK ==
  /\ A!TypeOK
  /\ \A c \in Clients : call[c].phase = "change" => call[c].body \in States

\* A call as it is, as it is sent and as its phase changes.
LEMMA CallFacts ==
  ASSUME ApiOK, NEW c \in Clients
  PROVE  /\ A!Idle \in A!Calls /\ A!Idle.phase = "idle"
         /\ \A phase \in A!Phases :
              /\ [call[c] EXCEPT !.phase = phase] \in A!Calls
              /\ [call[c] EXCEPT !.phase = phase].phase = phase
              /\ [call[c] EXCEPT !.phase = phase].body = call[c].body
         /\ call[c] \in A!Calls /\ call[c].body \in States \cup {NoState}
         /\ NoState \notin States
BY ComponentAssumption
   DEF ApiOK, A!TypeOK, A!ApiAssumption, A!Calls, A!Idle, A!Phases, A!Methods,
       A!Bodies

\* The API keeps it so, whoever calls it and however calls end.
LEMMA ApiStep ==
  ASSUME ApiOK,
         \/ \E c \in Clients : A!Handler(c) \/ A!fail(c) \/ A!lose(c) \/ A!take(c)
         \/ \E c \in Clients, method \in A!Methods, body \in A!Bodies :
              A!send(c, method, body)
         \/ A!propagate
  PROVE  ApiOK'
<1> DEFINE P(c) == call[c].phase = "change" => call[c].body \in States
<1>0. call \in [Clients -> A!Calls] /\ \A c \in Clients : P(c)
  BY DEF ApiOK, A!TypeOK
<1>1. ASSUME NEW c \in Clients, NEW phase \in A!Phases, A!Go(c, phase),
             phase = "change" => call[c].body \in States
      PROVE  call' \in [Clients -> A!Calls] /\ \A d \in Clients : P(d)'
  BY <1>0, <1>1, CallFacts DEF A!Go
<1>2. {"get", "change", "error", "lost"} \subseteq A!Phases
  BY DEF A!Phases
<1>3. ASSUME NEW c \in Clients, A!lambda_handler(c) \/ A!fail(c) \/ A!lose(c)
      PROVE  ApiOK'
  <2>1. PICK phase \in A!Phases :
          A!Go(c, phase) /\ (phase = "change" => call[c].body # NoState)
    BY <1>2, <1>3 DEF A!lambda_handler, A!fail, A!lose
  <2>2. UNCHANGED <<item, stale>>
    BY <1>3 DEF A!lambda_handler, A!fail, A!lose
  <2>3. phase = "change" => call[c].body \in States
    BY <2>1, CallFacts
  <2>4. QED
    BY <1>1, <2>1, <2>2, <2>3 DEF ApiOK, A!TypeOK
<1>4. ASSUME NEW c \in Clients, A!change_state(c)
      PROVE  ApiOK'
  <2>1. A!Go(c, "get") /\ call[c].body \in States
    BY <1>0, <1>4 DEF A!change_state
  <2>2. item' = call[c].body /\ stale' = (stale \cup {item}) \ {item'}
    BY <1>4 DEF A!change_state
  <2>3. QED
    BY <1>1, <1>2, <2>1, <2>2 DEF ApiOK, A!TypeOK
<1>5. ASSUME NEW c \in Clients, A!get_state(c)
      PROVE  ApiOK'
  <2>1. PICK value : A!Answered(c, value)
    BY <1>5 DEF A!get_state
  <2>2. UNCHANGED <<item, stale>>
    BY <1>5 DEF A!get_state
  <2>3. CASE value \in Integral
    <3>1. call' = [call EXCEPT ![c] = [@ EXCEPT !.phase = "ok", !.answer = value]]
      BY <2>1, <2>3 DEF A!Answered
    <3>2. /\ [call[c] EXCEPT !.phase = "ok", !.answer = value] \in A!Calls
          /\ [call[c] EXCEPT !.phase = "ok", !.answer = value].phase = "ok"
      BY <2>3, CallFacts DEF A!Calls, A!Phases
    <3>3. QED
      BY <1>0, <2>2, <3>1, <3>2 DEF ApiOK, A!TypeOK
  <2>4. CASE value \notin Integral
    BY <1>1, <1>2, <2>1, <2>2, <2>4 DEF A!Answered, ApiOK, A!TypeOK
  <2>5. QED
    BY <2>3, <2>4
<1>6. ASSUME NEW c \in Clients, A!take(c)
      PROVE  ApiOK'
  BY <1>0, <1>6, CallFacts DEF A!take, ApiOK, A!TypeOK
<1>7. ASSUME NEW c \in Clients, NEW method \in A!Methods, NEW body \in A!Bodies,
             A!send(c, method, body)
      PROVE  ApiOK'
  <2>1. call' = [call EXCEPT ![c] = [@ EXCEPT !.phase = "sent",
                                             !.method = method,
                                             !.body = body]]
    BY <1>7 DEF A!send
  <2>2. /\ [call[c] EXCEPT !.phase = "sent", !.method = method, !.body = body]
             \in A!Calls
        /\ [call[c] EXCEPT !.phase = "sent", !.method = method,
                           !.body = body].phase = "sent"
    BY <1>7, CallFacts DEF A!Calls, A!Phases
  <2>3. QED
    BY <1>0, <1>7, <2>1, <2>2 DEF A!send, ApiOK, A!TypeOK
<1>8. CASE A!propagate
  BY <1>8 DEF A!propagate, ApiOK, A!TypeOK
<1>9. QED
  BY <1>3, <1>4, <1>5, <1>6, <1>7, <1>8 DEF A!Handler
-----------------------------------------------------------------------------
\* Every step is one of the sensor's program or the other client's, of its
\* device or of the API, and leaves the rest of the state alone.
LEMMA StepsOfComponents ==
  ASSUME [Next]_vars
  PROVE  /\ \/ S!Program \/ S!Exits \/ S!posted \/ S!raised \/ S!move
            \/ UNCHANGED sensorVars
         /\ \/ \E c \in Clients :
                 A!Handler(c) \/ A!fail(c) \/ A!lose(c) \/ A!take(c)
            \/ \E c \in Clients, method \in A!Methods, body \in A!Bodies :
                 A!send(c, method, body)
            \/ A!propagate
            \/ UNCHANGED apiVars
<1>1. /\ Pi \in Clients /\ Other \in Clients
      /\ {"GET", "POST", "DELETE"} \subseteq A!Methods
      /\ {1, NoState} \subseteq A!Bodies /\ Resets \subseteq A!Bodies
  BY ClientAssumption DEF Clients, A!Methods, A!Bodies
<1>2. CASE Report
  BY <1>1, <1>2 DEF Report, post, postReturns, postRaises
<1>3. CASE Ask \/ Reset \/ Listen
  BY <1>1, <1>3 DEF Ask, Reset, Listen
<1>4. CASE \/ Quake \/ Sense \/ Exit \/ Propagate \/ UNCHANGED vars
           \/ \E c \in Clients : Serve(c) \/ Break(c)
  BY <1>4 DEF Quake, Sense, Exit, Propagate, Serve, Break, vars
<1>5. QED
  BY <1>2, <1>3, <1>4 DEF Next

\* The types, with what makes them inductive
TypeInv == S!TypeOK /\ ApiOK /\ shaken \in BOOLEAN

LEMMA EarthquakeTypeInit == Init => TypeInv
<1> SUFFICES ASSUME Init PROVE TypeInv
  OBVIOUS
<1>1. S!TypeOK
  BY ComponentAssumption DEF Init, S!Init, S!TypeOK, S!SensorAssumption
<1>2. call \in [Clients -> A!Calls] /\ \A c \in Clients : call[c].phase = "idle"
  BY ComponentAssumption
     DEF Init, A!Init, A!Idle, A!Calls, A!Phases, A!Methods, A!Bodies,
         A!ApiAssumption
<1>3. ApiOK
  BY <1>2, ComponentAssumption DEF Init, A!Init, ApiOK, A!TypeOK, A!ApiAssumption
<1>4. QED
  BY <1>1, <1>3 DEF Init, TypeInv

LEMMA EarthquakeTypeStep == TypeInv /\ [Next]_vars => TypeInv'
<1> SUFFICES ASSUME TypeInv, [Next]_vars PROVE TypeInv'
  OBVIOUS
<1>1. S!TypeOK'
  <2>1. CASE UNCHANGED sensorVars
    BY <2>1 DEF sensorVars, TypeInv, S!TypeOK
  <2>2. QED
    BY <2>1, StepsOfComponents, SensorTypeStep DEF TypeInv
<1>2. ApiOK'
  <2>1. CASE UNCHANGED apiVars
    BY <2>1 DEF apiVars, TypeInv, ApiOK, A!TypeOK
  <2>2. QED
    BY <2>1, StepsOfComponents, ApiStep DEF TypeInv
<1>3. shaken' \in BOOLEAN
  BY DEF TypeInv, Next, Quake, Sense, Exit, Report, post, postReturns,
         postRaises, Ask, Reset, Listen, Serve, Break, Propagate, vars
<1>4. QED
  BY <1>1, <1>2, <1>3 DEF TypeInv

LEMMA EarthquakeTypeInv == Spec => []TypeInv
BY EarthquakeTypeInit, EarthquakeTypeStep, PTL DEF Spec

\* The registers stay bytes, whatever the failed transfers, and the calls and
\* the item keep their types, however invocations overlap and are cut off.
THEOREM EarthquakeTypeOK == Spec => []TypeOK
<1>1. TypeInv => TypeOK
  BY DEF TypeInv, ApiOK, TypeOK
<1>2. QED
  BY <1>1, EarthquakeTypeInv, PTL

\* A reading is off by one below zero, and never across the threshold
\* (raspberry_earthquake.py:75).
THEOREM EarthquakeReadingsAreOneOff == Spec => []ReadingsAreOneOff
<1>1. TypeInv => ReadingsAreOneOff
  BY ReadingsFollow DEF TypeInv
<1>2. QED
  BY <1>1, EarthquakeTypeInv, PTL

\* Whichever way the bytes of a word travel, the reads of I2C.py that turn
\* them give the number the two bytes stand for (I2C.py:72 and :159).
THEOREM EarthquakeByteOrdersAgree == Spec => []ByteOrdersAgree
<1>1. TypeInv => ByteOrdersAgree
  BY OrdersFollow DEF TypeInv
<1>2. QED
  BY <1>1, EarthquakeTypeInv, PTL

\* setRange keeps the other half of DATA_FORMAT, or sets all of it when its
\* read has failed (raspberry_earthquake.py:51, I2C.py:81).
THEOREM EarthquakeFormatIsKept == Spec => FormatIsKept
<1>1. TypeInv /\ [Next]_vars =>
        (format' # format => /\ format' \div 16 \in {format \div 16, 15}
                             /\ format' % 16 = 11)
  <2> SUFFICES ASSUME TypeInv, [Next]_vars, format' # format
               PROVE  /\ format' \div 16 \in {format \div 16, 15}
                      /\ format' % 16 = 11
    OBVIOUS
  <2>1. S!setRange
    BY StepsOfComponents
       DEF S!Program, S!Exits, S!construct, S!setupLed, S!read, S!noBus,
           S!readFails, S!destroy, S!posted, S!raised, S!move, S!deviceVars,
           sensorVars
  <2>2. PICK raw \in {format, Fault}, ok \in BOOLEAN :
          format' = write8(format, WithRange(readU8(raw), RANGE_16_G), ok)
    BY <2>1, Zenon
       DEF S!setRange, S!write8, write8, S!WithRange, WithRange, S!readU8,
           readU8, S!RANGE_16_G, RANGE_16_G, S!errMsg, errMsg
  <2>3. format \in Byte
    BY DEF TypeInv, S!TypeOK, S!Byte, Byte
  <2>4. QED
    BY <2>2, <2>3, RangeWritten
<1>2. QED
  BY <1>1, EarthquakeTypeInv, PTL DEF Spec, FormatIsKept
-----------------------------------------------------------------------------
\* Before the first shake nothing is under way that could report one: neither
\* the program nor a call, nor a copy of the item, nor an answer.
Quiet ==
  /\ item # 1 /\ 1 \notin stale
  /\ \A c \in Clients : call[c].body # 1 /\ call[c].answer # 1
  /\ pc # "posting" /\ led # "low"
  /\ motion \notin Shakes

QuietInv == TypeInv /\ (shaken \/ Quiet)

LEMMA QuietInit ==
  ASSUME InitialItem # 1, Init
  PROVE  shaken \/ Quiet
<1>1. 1 # NoItem /\ 1 # NoState
  BY ComponentAssumption, ClientAssumption DEF A!ApiAssumption
<1>2. \A c \in Clients : call[c].body # 1 /\ call[c].answer # 1
  BY <1>1 DEF Init, A!Init, A!Idle
<1>3. QED
  BY <1>2 DEF Init, A!Init, S!Init, Quiet

\* Steps of the sensor's program and its device while all is quiet.
LEMMA SensorStaysQuiet ==
  ASSUME TypeInv, Quiet,
         Sense \/ Exit \/ Quake \/ (UNCHANGED sensorVars /\ shaken' = shaken)
  PROVE  \/ shaken'
         \/ pc' # "posting" /\ led' # "low" /\ motion' \notin Shakes
<1>1. CASE S!read
  <2>1. ~ Shaken(S!Data)
    BY ShakenIsShake DEF TypeInv, Quiet
  <2>2. ~ S!Shaken(S!Data)
    BY <2>1, SMT
       DEF S!Shaken, Shaken, S!AboveThreshold, AboveThreshold, S!Reading,
           Reading, S!axis, axis
  <2>3. QED
    BY <1>1, <2>2 DEF S!read, S!deviceVars, Quiet
<1>2. CASE S!construct \/ S!setRange \/ S!setupLed \/ S!Exits
  BY <1>2 DEF S!construct, S!setRange, S!setupLed, S!Exits, S!noBus,
              S!readFails, S!destroy, S!deviceVars, Quiet
<1>3. CASE Quake
  BY <1>3 DEF Quake, S!move, S!programVars, Quiet
<1>4. CASE UNCHANGED sensorVars
  BY <1>4 DEF sensorVars, Quiet
<1>5. QED
  BY <1>1, <1>2, <1>3, <1>4 DEF Sense, Exit, S!Program

\* Calls while all is quiet.
LEMMA ApiStaysQuiet ==
  ASSUME TypeInv, Quiet,
         \/ \E c \in Clients :
              A!Handler(c) \/ A!fail(c) \/ A!lose(c) \/ A!take(c)
         \/ \E c \in Clients, method \in A!Methods, body \in A!Bodies \ {1} :
              A!send(c, method, body)
         \/ A!propagate
  PROVE  /\ item' # 1 /\ 1 \notin stale'
         /\ \A c \in Clients : call'[c].body # 1 /\ call'[c].answer # 1
<1> DEFINE P(c) == call[c].body # 1 /\ call[c].answer # 1
<1>0. /\ call \in [Clients -> A!Calls] /\ \A c \in Clients : P(c)
      /\ 1 # NoItem /\ 1 # NoState
  BY ComponentAssumption, ClientAssumption
     DEF TypeInv, ApiOK, A!TypeOK, Quiet, A!ApiAssumption
<1>1. ASSUME NEW c \in Clients, NEW phase, A!Go(c, phase)
      PROVE  \A d \in Clients : P(d)'
  BY <1>0, <1>1 DEF A!Go, A!Calls
<1>2. ASSUME NEW c \in Clients, A!lambda_handler(c) \/ A!fail(c) \/ A!lose(c)
      PROVE  UNCHANGED <<item, stale>> /\ \A d \in Clients : P(d)'
  BY <1>1, <1>2 DEF A!lambda_handler, A!fail, A!lose
<1>3. ASSUME NEW c \in Clients, A!change_state(c)
      PROVE  item' # 1 /\ 1 \notin stale' /\ \A d \in Clients : P(d)'
  BY <1>0, <1>1, <1>3 DEF A!change_state, Quiet
<1>4. ASSUME NEW c \in Clients, A!get_state(c)
      PROVE  UNCHANGED <<item, stale>> /\ \A d \in Clients : P(d)'
  <2>1. PICK value \in {item} \cup stale : A!Answered(c, value)
    BY <1>4 DEF A!get_state
  <2>2. value # 1
    BY DEF Quiet
  <2>3. \A d \in Clients : P(d)'
    BY <1>0, <1>1, <2>1, <2>2 DEF A!Answered, A!Calls
  <2>4. QED
    BY <1>4, <2>3 DEF A!get_state
<1>5. ASSUME NEW c \in Clients, A!take(c)
      PROVE  UNCHANGED <<item, stale>> /\ \A d \in Clients : P(d)'
  BY <1>0, <1>5 DEF A!take, A!Idle
<1>6. ASSUME NEW c \in Clients, NEW method, NEW body, body # 1,
             A!send(c, method, body)
      PROVE  UNCHANGED <<item, stale>> /\ \A d \in Clients : P(d)'
  BY <1>0, <1>6 DEF A!send, A!Calls
<1>7. CASE A!propagate
  BY <1>0, <1>7 DEF A!propagate, Quiet
<1>8. QED
  BY <1>2, <1>3, <1>4, <1>5, <1>6, <1>7 DEF A!Handler, Quiet

\* Nothing says that the earthquake happened before it did, if nothing did at
\* first: not the item nor an old copy of it, no answer and no LED, whatever
\* transfers, calls and invocations fail (raspberry_earthquake.py:75 and :88).
THEOREM EarthquakeAlarmsAreReal ==
  ASSUME InitialItem # 1
  PROVE  Spec => []AlarmsAreReal
<1>1. Init => QuietInv
  <2>1. Init => TypeInv
    BY EarthquakeTypeInit
  <2>2. QED
    BY <2>1, QuietInit DEF QuietInv
<1>2. QuietInv /\ [Next]_vars => QuietInv'
  <2> SUFFICES ASSUME QuietInv, [Next]_vars PROVE QuietInv'
    OBVIOUS
  <2>1. TypeInv /\ TypeInv'
    BY EarthquakeTypeStep DEF QuietInv
  <2>2. CASE shaken
    <3>1. shaken'
      BY <2>2 DEF Next, Quake, Sense, Exit, Report, post, postReturns,
             postRaises, Ask, Reset, Listen, Serve, Break, Propagate, vars
    <3>2. QED
      BY <2>1, <3>1 DEF QuietInv
  <2>3. CASE Quiet
    <3>1. ~ Report \/ postReturns \/ postRaises
      BY <2>3 DEF Report, post, Quiet
    <3>2. ~ postReturns /\ ~ postRaises
      BY <2>3 DEF postReturns, postRaises, S!posted, S!raised, Quiet
    <3>3. Sense \/ Exit \/ Quake \/ (UNCHANGED sensorVars /\ shaken' = shaken)
      BY <3>1, <3>2
         DEF Next, Report, Ask, Reset, Listen, Serve, Break, Propagate, vars
    <3>4. \/ \E c \in Clients :
               A!Handler(c) \/ A!fail(c) \/ A!lose(c) \/ A!take(c)
          \/ \E c \in Clients, method \in A!Methods, body \in A!Bodies \ {1} :
               A!send(c, method, body)
          \/ A!propagate
          \/ UNCHANGED apiVars
      <4>1. /\ Other \in Clients
            /\ {"GET", "POST", "DELETE"} \subseteq A!Methods
            /\ NoState \in A!Bodies \ {1} /\ Resets \subseteq A!Bodies \ {1}
        BY ComponentAssumption, ClientAssumption
           DEF Clients, A!Methods, A!Bodies, A!ApiAssumption
      <4>2. QED
        BY <3>1, <3>2, <4>1
           DEF Next, Report, Quake, Sense, Exit, Ask, Reset, Listen, Serve,
               Break, Propagate, vars
    <3>5. /\ item' # 1 /\ 1 \notin stale'
          /\ \A c \in Clients : call'[c].body # 1 /\ call'[c].answer # 1
      <4>1. CASE UNCHANGED apiVars
        BY <2>3, <4>1 DEF apiVars, Quiet
      <4>2. QED
        BY <2>1, <2>3, <3>4, <4>1, ApiStaysQuiet
    <3>6. \/ shaken'
          \/ pc' # "posting" /\ led' # "low" /\ motion' \notin Shakes
      BY <2>1, <2>3, <3>3, SensorStaysQuiet
    <3>7. Shakes' = Shakes
      BY DEF Shakes
    <3>8. QED
      BY <2>1, <3>5, <3>6, <3>7 DEF QuietInv, Quiet
  <2>4. QED
    BY <2>2, <2>3 DEF QuietInv
<1>3. QuietInv => AlarmsAreReal
  BY DEF QuietInv, Quiet, AlarmsAreReal
<1>4. QED
  BY <1>1, <1>2, <1>3, PTL DEF Spec
-----------------------------------------------------------------------------
\* Towards the liveness of reports: all of the argument but the fairness.  The
\* flag that would stop reports is never set, and whatever call the sensor has
\* under way is a report, which the program awaits if it still runs.
ReportInv ==
  /\ api_called = FALSE
  /\ call[Pi].phase # "idle" => /\ call[Pi].method = "POST" /\ call[Pi].body = 1
                                /\ pc \in {"posting", "ended"}

\* The call of a client is none of the other's: it stays, goes on to another
\* phase, is answered, taken or sent.
LEMMA CallOf ==
  ASSUME TypeInv, [Next]_vars
  PROVE  \/ call'[Pi] = call[Pi]
         \/ /\ call[Pi].phase # "idle" /\ call'[Pi].phase # "idle"
            /\ call'[Pi].method = call[Pi].method
            /\ call'[Pi].body = call[Pi].body
            /\ UNCHANGED sensorVars
         \/ post
         \/ (postReturns \/ postRaises) /\ call'[Pi].phase = "idle"
<1>0. /\ call \in [Clients -> A!Calls] /\ Pi \in Clients /\ Other \in Clients
      /\ Pi # Other /\ call[Pi] \in A!Calls
  BY ClientAssumption DEF TypeInv, ApiOK, A!TypeOK, Clients
<1>1. ASSUME NEW c \in Clients, NEW phase, A!Go(c, phase)
      PROVE  /\ c # Pi => call'[Pi] = call[Pi]
             /\ c = Pi => /\ call'[Pi].phase = phase
                          /\ call'[Pi].method = call[Pi].method
                          /\ call'[Pi].body = call[Pi].body
  BY <1>0, <1>1 DEF A!Go, A!Calls
<1>2. ASSUME NEW c \in Clients, Serve(c) \/ Break(c)
      PROVE  \/ call'[Pi] = call[Pi]
             \/ /\ call[Pi].phase # "idle" /\ call'[Pi].phase # "idle"
                /\ call'[Pi].method = call[Pi].method
                /\ call'[Pi].body = call[Pi].body
                /\ UNCHANGED sensorVars
  <2>0. UNCHANGED sensorVars
    BY <1>2 DEF Serve, Break
  <2>1. CASE A!lambda_handler(c) \/ A!change_state(c) \/ A!fail(c) \/ A!lose(c)
    <3>1. PICK phase : A!Go(c, phase) /\ phase # "idle" /\ call[c].phase # "idle"
      BY <2>1 DEF A!lambda_handler, A!change_state, A!fail, A!lose
    <3>2. QED
      BY <1>1, <2>0, <3>1
  <2>2. CASE A!get_state(c)
    <3>1. PICK value : A!Answered(c, value)
      BY <2>2 DEF A!get_state
    <3>2. call[c].phase = "get"
      BY <2>2 DEF A!get_state
    <3>3. CASE value \in Integral
      <4>1. call' = [call EXCEPT ![c].phase = "ok", ![c].answer = value]
        BY <3>1, <3>3 DEF A!Answered
      <4>2. CASE c = Pi
        <5>1. /\ call'[Pi].phase = "ok" /\ call'[Pi].method = call[Pi].method
              /\ call'[Pi].body = call[Pi].body
          BY <1>0, <4>1, <4>2 DEF A!Calls
        <5>2. QED
          BY <2>0, <3>2, <4>2, <5>1
      <4>3. QED
        BY <1>0, <4>1, <4>2
    <3>4. CASE value \notin Integral
      <4>1. A!Go(c, "error")
        BY <3>1, <3>4 DEF A!Answered
      <4>2. QED
        BY <1>1, <2>0, <3>2, <4>1
    <3>5. QED
      BY <3>3, <3>4
  <2>3. QED
    BY <1>2, <2>1, <2>2 DEF Serve, Break, A!Handler
<1>3. ASSUME postReturns \/ postRaises
      PROVE  call'[Pi].phase = "idle"
  BY <1>0, <1>3 DEF postReturns, postRaises, A!take, A!Idle
<1>4. ASSUME Ask \/ Reset \/ Listen
      PROVE  call'[Pi] = call[Pi]
  BY <1>0, <1>4 DEF Ask, Reset, Listen, A!send, A!take
<1>5. CASE call' = call
  BY <1>5
<1>6. QED
  BY <1>2, <1>3, <1>4, <1>5
     DEF Next, vars, apiVars, Quake, Sense, Exit, Report, Propagate, A!propagate

LEMMA EarthquakeReportInv == Spec => []ReportInv
<1>1. Init => ReportInv
  <2>1. Pi \in Clients
    BY DEF Clients
  <2>2. QED
    BY <2>1 DEF Init, S!Init, A!Init, A!Idle, ReportInv
<1>2. TypeInv /\ ReportInv /\ [Next]_vars => ReportInv'
  <2> SUFFICES ASSUME TypeInv, ReportInv, [Next]_vars PROVE ReportInv'
    OBVIOUS
  <2>0. call \in [Clients -> A!Calls] /\ Pi \in Clients /\ call[Pi] \in A!Calls
    BY DEF TypeInv, ApiOK, A!TypeOK, Clients
  <2>1. api_called' = api_called
    BY DEF Next, vars, sensorVars, Quake, S!move, S!programVars, Sense,
           S!Program, S!construct, S!setRange, S!setupLed, S!read, Exit,
           S!Exits, S!noBus, S!readFails, S!destroy, Report, post, postReturns,
           S!posted, postRaises, S!raised, Ask, Reset, Listen, Serve, Break,
           Propagate
  <2>2. CASE post
    BY <2>0, <2>1, <2>2 DEF post, A!send, A!Calls, sensorVars, ReportInv
  <2>3. CASE (postReturns \/ postRaises) /\ call'[Pi].phase = "idle"
    BY <2>1, <2>3 DEF ReportInv
  <2>4. CASE call'[Pi] = call[Pi]
    <3>1. \/ pc' = pc \/ pc' = "ended"
          \/ pc \notin {"posting", "ended"}
          \/ postReturns \/ postRaises
      BY DEF Next, vars, sensorVars, Quake, S!move, S!programVars, Sense,
             S!Program, S!construct, S!setRange, S!setupLed, S!read, Exit,
             S!Exits, S!noBus, S!readFails, S!destroy, Report, post, Ask, Reset,
             Listen, Serve, Break, Propagate
    <3>2. postReturns \/ postRaises => call'[Pi].phase = "idle"
      BY <2>0 DEF postReturns, postRaises, A!take, A!Idle
    <3>3. QED
      BY <2>1, <2>4, <3>1, <3>2 DEF ReportInv
  <2>5. CASE /\ call[Pi].phase # "idle" /\ call'[Pi].phase # "idle"
             /\ call'[Pi].method = call[Pi].method
             /\ call'[Pi].body = call[Pi].body
             /\ UNCHANGED sensorVars
    BY <2>5 DEF sensorVars, ReportInv
  <2>6. QED
    BY <2>2, <2>3, <2>4, <2>5, CallOf
<1>3. QED
  BY <1>1, <1>2, EarthquakeTypeInv, PTL DEF Spec

\* No shake is missed: a reading of a device that measures while it is shaken
\* always ends in a post, whatever was posted before and whatever became of it
\* (raspberry_earthquake.py:86); the lambda makes a change of the state of every
\* such post that it does not drop, and the change sets the item to 1.
ShakesArePosted ==
  /\ Sense /\ pc = "read" /\ measuring /\ motion \in Shakes => pc' = "posting"
  /\ A!lambda_handler(Pi) => call'[Pi].phase = "change"
  /\ A!change_state(Pi) => item' = 1

\* Every step is such a step, whatever transfer of the bus or call failed before.
THEOREM EarthquakeShakesArePosted == Spec => [][ShakesArePosted]_vars
<1>1. TypeInv /\ ReportInv => ShakesArePosted
  <2> SUFFICES ASSUME TypeInv, ReportInv PROVE ShakesArePosted
    OBVIOUS
  <2>1. ASSUME Sense, pc = "read", measuring, motion \in Shakes
        PROVE  pc' = "posting"
    <3>1. Shaken(S!Data)
      BY <2>1, ShakeIsShaken DEF TypeInv
    <3>2. S!read
      BY <2>1 DEF Sense, S!Program, S!construct, S!setRange, S!setupLed
    <3>3. S!Shaken(S!Data)
      BY <3>1 DEF Shaken, S!Shaken, Reading, S!Reading, axis, S!axis,
                  AboveThreshold, S!AboveThreshold
    <3>4. QED
      BY <3>2, <3>3 DEF S!read, ReportInv
  <2>2. ASSUME A!lambda_handler(Pi) PROVE call'[Pi].phase = "change"
    <3>1. call \in [Clients -> A!Calls] /\ Pi \in Clients /\ 1 # NoState
      BY ComponentAssumption, ClientAssumption
         DEF TypeInv, ApiOK, A!TypeOK, Clients, A!ApiAssumption
    <3>2. A!Go(Pi, "change")
      BY <2>2, <3>1 DEF A!lambda_handler, ReportInv
    <3>3. QED
      BY <3>1, <3>2 DEF A!Go, A!Calls
  <2>3. ASSUME A!change_state(Pi) PROVE item' = 1
    BY <2>3 DEF A!change_state, ReportInv
  <2>4. QED
    BY <2>1, <2>2, <2>3 DEF ShakesArePosted
<1>2. QED
  BY <1>1, EarthquakeTypeInv, EarthquakeReportInv, PTL DEF Spec

\* What is read of a report that has settled is the report: once the item is 1,
\* every copy has caught up and the other client has no older answer, this stays
\* so until the item changes, however many calls overlap
\* (lambda_function.py:21 and :40).  ReportsSettle but for fairness.
Told == /\ item = 1 /\ stale = {}
        /\ call[Other].phase = "ok" => call[Other].answer = 1

\* A report that has settled is told until the item changes.
THEOREM EarthquakeReportsStay == Spec => [][Told => Told' \/ item' # 1]_vars
<1>1. TypeInv /\ [Next]_vars => (Told => Told' \/ item' # 1)
  <2> SUFFICES ASSUME TypeInv, [Next]_vars, Told, item' = 1 PROVE Told'
    OBVIOUS
  <2>0. /\ call \in [Clients -> A!Calls] /\ Pi \in Clients /\ Other \in Clients
        /\ Pi # Other /\ call[Other] \in A!Calls
    BY ClientAssumption DEF TypeInv, ApiOK, A!TypeOK, Clients
  <2>1. stale' = {}
    <3>1. ASSUME NEW c, A!change_state(c) PROVE stale' = {}
      BY <3>1 DEF A!change_state, Told
    <3>2. A!propagate => stale' = {}
      BY DEF A!propagate, Told
    <3>3. UNCHANGED apiVars => stale' = {}
      BY DEF apiVars, Told
    <3>4. QED
      BY <3>1, <3>2, <3>3, StepsOfComponents
         DEF A!Handler, A!lambda_handler, A!get_state, A!fail, A!lose, A!take,
             A!send, Told
  <2>2. call'[Other].phase = "ok" => call'[Other].answer = 1
    <3>1. CASE call'[Other] = call[Other]
      BY <3>1 DEF Told
    <3>2. ASSUME NEW c, NEW phase \in A!Phases \ {"ok"}, A!Go(c, phase)
          PROVE  call'[Other] = call[Other] \/ call'[Other].phase # "ok"
      BY <2>0, <3>2 DEF A!Go, A!Calls
    <3>3. ASSUME NEW c, A!lambda_handler(c) \/ A!change_state(c) \/ A!fail(c)
                        \/ A!lose(c)
          PROVE  call'[Other] = call[Other] \/ call'[Other].phase # "ok"
      <4>1. \E phase \in {"change", "get", "error", "lost"} : A!Go(c, phase)
        BY <3>3 DEF A!lambda_handler, A!change_state, A!fail, A!lose
      <4>2. QED
        BY <3>2, <4>1 DEF A!Phases
    <3>4. ASSUME NEW c, A!get_state(c)
          PROVE  \/ call'[Other] = call[Other] \/ call'[Other].phase # "ok"
                 \/ call'[Other].answer = 1
      <4>1. A!Answered(c, 1)
        BY <3>4 DEF A!get_state, Told
      <4>2. CASE 1 \in Integral
        <5>1. call' = [call EXCEPT ![c].phase = "ok", ![c].answer = 1]
          BY <4>1, <4>2 DEF A!Answered
        <5>2. QED
          BY <2>0, <5>1 DEF A!Calls
      <4>3. CASE 1 \notin Integral
        BY <3>2, <4>1, <4>3 DEF A!Answered, A!Phases
      <4>4. QED
        BY <4>2, <4>3
    <3>5. ASSUME NEW c, A!take(c)
          PROVE  call'[Other] = call[Other] \/ call'[Other].phase # "ok"
      BY <2>0, <3>5 DEF A!take, A!Idle
    <3>6. ASSUME NEW c, NEW method, NEW body, A!send(c, method, body)
          PROVE  call'[Other] = call[Other] \/ call'[Other].phase # "ok"
      BY <2>0, <3>6 DEF A!send, A!Calls
    <3>7. A!propagate \/ UNCHANGED apiVars => call'[Other] = call[Other]
      BY DEF A!propagate, apiVars
    <3>8. QED
      BY <3>1, <3>3, <3>4, <3>5, <3>6, <3>7, StepsOfComponents DEF A!Handler
  <2>3. QED
    BY <2>1, <2>2 DEF Told
<1>2. TypeInv /\ [Next]_vars => [Told => Told' \/ item' # 1]_vars
  BY <1>1
<1>3. QED
  BY <1>2, EarthquakeTypeInv, PTL DEF Spec
=============================================================================
