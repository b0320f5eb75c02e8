------------------------------ MODULE Earthquake ------------------------------
(***************************************************************************)
(* The sensor (raspberry_pi/) and the web API it posts to                  *)
(* (api_lambda/lambda_function.py), with another client that reads the     *)
(* API, as the Chainlink node does, or posts to it, as one does to reset   *)
(* it.  requests.post blocks the sensor's program until its call is        *)
(* answered or lost.                                                       *)
(***************************************************************************)
EXTENDS ADXL345

CONSTANTS Motions, Formats,                           \* of Sensor
          States, Integral, InitialItem, NoItem, NoState,   \* of EarthquakeApi
          Pi, Other,    \* the two clients of the API
          Resets        \* bound: what the other client posts

VARIABLES motion, measuring, format, pc, api_called, led,
          item, stale, call,
          shaken    \* whether a motion has been above the threshold (read by
                    \* no action)

Clients == {Pi, Other}

S == INSTANCE Sensor
A == INSTANCE EarthquakeApi

ASSUME ComponentAssumption == S!SensorAssumption /\ A!ApiAssumption
ASSUME ClientAssumption ==
  /\ Pi # Other
  /\ 1 \in States
  /\ Resets \subseteq (States \cup {NoState}) \ {1}

sensorVars == <<motion, measuring, format, pc, api_called, led>>
apiVars    == <<item, stale, call>>
vars == <<sensorVars, apiVars, shaken>>

\* What the sensor is meant to detect: more than 0.3 g along x or y, the words
\* being two's complement
Shakes == {data \in Motions :
             \E i \in 1 .. 2 : AboveThreshold(readS16(data[i], TRUE))}

Init == /\ S!Init
        /\ A!Init
        /\ shaken = (motion \in Shakes)
-----------------------------------------------------------------------------
\* requests.post(url, json.dumps({'newState': 1}))
post ==
  /\ pc = "posting"
  /\ A!send(Pi, "POST", 1)
  /\ UNCHANGED <<sensorVars, shaken>>

postReturns ==
  /\ call[Pi].phase \in {"ok", "error"}
  /\ A!take(Pi)
  /\ S!posted
  /\ UNCHANGED shaken

postRaises ==
  /\ call[Pi].phase = "lost"
  /\ A!take(Pi)
  /\ S!raised
  /\ UNCHANGED shaken

Sense ==
  /\ S!Program
  /\ UNCHANGED <<apiVars, shaken>>

\* The program ends; a call it has made goes on
Exit ==
  /\ S!Exits
  /\ UNCHANGED <<apiVars, shaken>>

Quake ==
  /\ S!move
  /\ shaken' = (shaken \/ motion' \in Shakes)
  /\ UNCHANGED apiVars

Ask ==
  /\ A!send(Other, "GET", NoState) \/ A!send(Other, "DELETE", NoState)
  /\ UNCHANGED <<sensorVars, shaken>>

Reset ==
  /\ \E body \in Resets : A!send(Other, "POST", body)
  /\ UNCHANGED <<sensorVars, shaken>>

Listen ==
  /\ A!take(Other)
  /\ UNCHANGED <<sensorVars, shaken>>

Serve(c) ==
  /\ A!Handler(c)
  /\ UNCHANGED <<sensorVars, shaken>>

Propagate ==
  /\ A!propagate
  /\ UNCHANGED <<sensorVars, shaken>>

Break(c) ==
  /\ A!fail(c) \/ A!lose(c)
  /\ UNCHANGED <<sensorVars, shaken>>

Report == post \/ postReturns \/ postRaises

Next ==
  \/ Quake \/ Sense \/ Exit \/ Report
  \/ Ask \/ Reset \/ Listen
  \/ \E c \in Clients : Serve(c) \/ Break(c)
  \/ Propagate

Spec == Init /\ [][Next]_vars

\* The program, the other client and the invocations run on, copies of the
\* item catch up, and among posts made again and again one is not cut off
LiveSpec ==
  /\ Spec
  /\ WF_vars(Sense) /\ WF_vars(Report) /\ WF_vars(Listen) /\ WF_vars(Propagate)
  /\ \A c \in Clients : WF_vars(Serve(c))
  /\ SF_vars(A!lambda_handler(Pi) /\ UNCHANGED <<sensorVars, shaken>>)
  /\ SF_vars(A!change_state(Pi) /\ UNCHANGED <<sensorVars, shaken>>)
-----------------------------------------------------------------------------
TypeOK == /\ S!TypeOK
          /\ A!TypeOK
          /\ shaken \in BOOLEAN

\* The API says that the earthquake happened, or may say so for a read of an
\* old copy, and the LED is lit, only if x or y has really been above 0.3 g:
\* neither undoing two's complement with 65535 (raspberry_earthquake.py:75)
\* nor a failed transfer turns any other motion into a report.
AlarmsAreReal ==
  \/ 1 \in {item} \cup stale \cup {call[c].answer : c \in Clients}
  \/ led = "low"
  => shaken

\* The words the device may hold: the two bytes of its axes, and bytes at the
\* edges of what the conversions tell apart
Words == {hi * 256 + lo : hi \in {motion[i] \div 256 : i \in Axes} \cup {127, 255},
                          lo \in {motion[i] % 256 : i \in Axes} \cup {127, 255}}

\* Whichever way the two bytes of a word travel, the signed reads give the
\* number they stand for in two's complement; reverseByteOrder undoes the order
\* as readU16 does (I2C.py:72 and :159), except that it forgets a high byte of
\* zero, so that it is no inverse of itself.
ByteOrdersAgree ==
  \A word \in Words :
    LET hi == word \div 256
        lo == word % 256
    IN  /\ readS16(Swapped(word), FALSE) = readS8(hi) * 256 + lo
        /\ reverseByteOrder(word) = IF hi = 0 THEN lo ELSE Swapped(word)

\* Undoing two's complement with 65535 instead of 65536
\* (raspberry_earthquake.py:75) makes every negative reading one too large,
\* and never takes one across the threshold.
ReadingsAreOneOff ==
  \A word \in Words :
    LET g    == readS16(word, TRUE)
        read == axis(word % 256, word \div 256)
    IN  /\ read = IF g < 0 THEN g + 1 ELSE g
        /\ AboveThreshold(read) <=> AboveThreshold(g)

\* While the program runs, a device that measures and goes on being shaken is
\* reported, and reported again after every reset: calls that are cut off or
\* answered with an error do no harm, because api_called is never set
\* (raspberry_earthquake.py:86 and :96) and the next reading posts again.
ShakesAreReported ==
  <>[](motion \in Shakes /\ measuring /\ pc # "ended") => []<>(item = 1)

\* If the item stays 1, then from some time on everyone who reads it is told
\* so, however many invocations overlap: the old states that a POST's own read
\* and other reads may return (lambda_function.py:21 and :40) do not last.
ReportsSettle ==
  <>[](item = 1) =>
    <>[](call[Other].phase = "ok" => call[Other].answer = 1)

\* setRange keeps the upper half of DATA_FORMAT, unless its read fails: what it
\* then writes has every bit of that half set (raspberry_earthquake.py:51, I2C.py:81).
FormatIsKept ==
  [][format' # format =>
       format' \div 16 \in {format \div 16, 15} /\ format' % 16 = 11]_vars
=============================================================================
