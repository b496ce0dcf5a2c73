--------------------------- MODULE TimestampsProofs ---------------------------
(***************************************************************************)
(* Proofs about Timestamps, for seconds and jiffies of any length, logs of *)
(* any length, any number of faults and resets, and a clock that may lose  *)
(* any time.                                                               *)
(***************************************************************************)
EXTENDS Timestamps, TLAPS

\* A sentence and a PPS report are put into the log when they are due; the stamp of a
\* JAGMT line may be older than the lines before it.
Sentence(line) == line.begins = "$GPRMC"
Event(line) == Sentence(line) \/ line.pps

\* What a line says of the time of its stamp.
Stamps(line) ==
  /\ Sentence(line) => ~line.pps /\ line.at % Second = Delay
  /\ Sentence(line) /\ line.good => line.at = line.ts * Second + Delay
  /\ line.pps => line.at % Second = 0 /\ ~line.torn
  /\ ~Sentence(line) /\ line.good /\ ~line.torn => line.jif = line.clock \div Jiffy

LinesStamped == \A i \in Rows : Stamps(lines[i])

\* Nothing in the log is younger than a line that was put when it was due.
EventsInOrder ==
  \A i, j \in Rows :
    i < j /\ Event(lines[j]) =>
      /\ lines[i].at <= lines[j].at
      /\ Event(lines[i]) => lines[i].at < lines[j].at

\* The second under way has no line yet of those that are still to come.
StillToCome ==
  /\ due => /\ time % Second = 0 /\ ~rmc
            /\ \A i \in Rows : Event(lines[i]) => lines[i].at < time
  /\ rmc => /\ time % Second <= Delay
            /\ \A i \in Rows : Sentence(lines[i]) => lines[i].at < time - (time % Second)

LoadedStamp == loaded # None /\ ~loaded.torn => loaded.jif = loaded.clock \div Jiffy

\* Now and the moments of all stamps, each with the reset before it and what the timer
\* had counted.
Moment(x, b) == [at |-> x.at, boot |-> b, clock |-> x.clock]
Moments == {Moment(lines[i], lines[i].boot) : i \in Rows}
             \union {Moment(x, boot) : x \in {Now, loaded} \ {None}}

\* From one moment to a later one the clock does not go back, and not faster than time.
Slow(m, n) ==
  m.boot = n.boot /\ m.at <= n.at => m.clock <= n.clock /\ n.clock - m.clock <= n.at - m.at

ClockSlow ==
  \A m \in Moments :
    m.boot + m.clock <= m.at /\ m.at <= time /\ \A n \in Moments : Slow(m, n)

LogInv == LinesStamped /\ EventsInOrder /\ StillToCome /\ LoadedStamp /\ ClockSlow

\* The table of the script.
TableInv ==
  /\ phase \in {"match", "interpolate", "done"} => \A i \in Rows : ~NoStamp(lines[i])
  /\ phase = "match" =>
       /\ rowType = [i \in Rows |-> RowType(lines[i])]
       /\ gpsTimestamp = [i \in Rows |-> lines[i].ts]
  /\ phase \in {"interpolate", "done"} =>
       \A i \in Rows :
         /\ gpsTimestamp[i] \in Nat
         /\ \/ rowType[i] = RowType(lines[i])
            \/ rowType[i] = "PERFECT_TIMESTAMP" /\ RowType(lines[i]) = "VALID_PPS"

MatchInv == TableInv /\ PerfectIsTrue /\ AllMatched

IInv == TypeOK /\ LogInv /\ MatchInv /\ AccurateButForLost /\ AbortsOnlyOn

-----------------------------------------------------------------------------
(* Seconds and jiffies.                                                    *)

LEMMA Floor ==
  ASSUME NEW a \in Nat, NEW b \in Nat \ {0}
  PROVE  a % b \in 0 .. b - 1 /\ a \div b \in Nat /\ a = b * (a \div b) + (a % b)
BY SMT

LEMMA Increase ==
  ASSUME NEW a \in Int, NEW b \in Int, NEW c \in Nat, a <= b
  PROVE  a * c <= b * c
<1>1. PICK d \in Nat : b = a + d
  BY b - a \in Nat
<1>2. b * c = a * c + d * c /\ d * c \in Nat /\ a * c \in Int
  BY <1>1
<1> QED BY <1>2

\* The time of day is unique.
LEMMA Position ==
  ASSUME NEW b \in Nat \ {0}, NEW q \in Nat, NEW r \in 0 .. b - 1,
         NEW p \in Nat, NEW s \in 0 .. b - 1, q * b + r = p * b + s
  PROVE  q = p /\ r = s
<1>1. ASSUME NEW x \in Nat, NEW y \in Nat, NEW u \in 0 .. b - 1, NEW v \in 0 .. b - 1,
             x * b + u = y * b + v
      PROVE  x <= y
  <2>1. ASSUME x >= y + 1 PROVE FALSE
    <3>1. (y + 1) * b <= x * b
      BY <2>1, Increase
    <3>2. (y + 1) * b = y * b + b /\ y * b \in Nat /\ x * b \in Nat
      OBVIOUS
    <3> QED BY <1>1, <3>1, <3>2
  <2> QED BY <2>1
<1>2. q = p
  BY <1>1
<1>3. q * b \in Nat /\ p * b = q * b
  BY <1>2
<1> QED BY <1>2, <1>3

LEMMA DivMod ==
  ASSUME NEW b \in Nat \ {0}, NEW q \in Nat, NEW r \in 0 .. b - 1
  PROVE  (q * b + r) \div b = q /\ (q * b + r) % b = r
<1> DEFINE t == q * b + r
<1>1. t \in Nat
  OBVIOUS
<1>2. t % b \in 0 .. b - 1 /\ t \div b \in Nat /\ t = b * (t \div b) + (t % b)
  BY <1>1, Floor
<1>3. b * (t \div b) = (t \div b) * b
  BY <1>2
<1>4. (t \div b) * b + (t % b) = q * b + r
  BY <1>2, <1>3
<1> DEFINE d == t \div b
           m == t % b
<1>5. d \in Nat /\ m \in 0 .. b - 1 /\ q * b + r = d * b + m
  BY <1>2, <1>4
<1> HIDE DEF t, d, m
<1>6. q = d /\ r = m
  BY <1>5, Position
<1> QED BY <1>6 DEF t, d, m

\* The next unit of time is in the same second, or the first of the next.
LEMMA NextUnit ==
  ASSUME NEW t \in Nat, NEW b \in Nat \ {0}
  PROVE  IF t % b = b - 1 THEN (t + 1) % b = 0 ELSE (t + 1) % b = (t % b) + 1
<1> DEFINE q == t \div b
           r == t % b
<1>1. r \in 0 .. b - 1 /\ q \in Nat /\ t = b * q + r
  BY Floor
<1> HIDE DEF q, r
<1>2. b * q = q * b /\ q * b \in Nat
  BY <1>1
<1>3. CASE r = b - 1
  <2>1. (q + 1) * b = q * b + b
    BY <1>1
  <2>2. t + 1 = (q + 1) * b + 0
    BY <1>1, <1>2, <1>3, <2>1
  <2>3. (t + 1) % b = 0
    BY <1>1, <2>2, DivMod
  <2> QED BY <1>3, <2>3 DEF r
<1>4. CASE r # b - 1
  <2>1. t + 1 = q * b + (r + 1) /\ r + 1 \in 0 .. b - 1
    BY <1>1, <1>2, <1>4
  <2>2. (t + 1) % b = r + 1
    BY <1>1, <2>1, DivMod
  <2> QED BY <1>4, <2>2 DEF r
<1> QED BY <1>3, <1>4

LEMMA Constants ==
  /\ Second \in Nat \ {0} /\ Jiffy \in Nat \ {0} /\ Jiffy <= Second
  /\ Delay \in 1 .. Second - 1 /\ LogEnd \in Nat /\ Wrap \in Nat \ {0} /\ LogEnd < Wrap
BY TimestampsAssumption

-----------------------------------------------------------------------------
(* Lines.                                                                  *)

LineSet(t) ==
  [begins : {"$GPRMC", "JAGMT", "other"}, pps : BOOLEAN, good : BOOLEAN,
   ts : Nat, jif : Nat, at : 0 .. t, clock : 0 .. t, torn : BOOLEAN, boot : 0 .. t]

StampSet(t) == [jif : Nat, at : 0 .. t, clock : 0 .. t, torn : BOOLEAN]

LEMMA RowTypes ==
  ASSUME TypeOK, NEW i \in Rows
  PROVE  /\ lines[i] \in LineSet(time)
         /\ lines[i].at \in Nat /\ lines[i].at <= time /\ lines[i].ts \in Nat
         /\ lines[i].boot \in Nat /\ lines[i].jif \in Nat
         /\ lines[i].clock \in Nat /\ lines[i].clock <= time
         /\ time \in Nat /\ time <= LogEnd
<1>1. lines \in Seq(LineSet(time)) /\ time \in Nat /\ time <= LogEnd
  BY Constants DEF TypeOK, LineSet
<1>2. lines[i] \in LineSet(time)
  BY <1>1 DEF Rows
<1> QED BY <1>1, <1>2 DEF LineSet

LEMMA Appended ==
  ASSUME NEW S, NEW s \in Seq(S), NEW e \in S
  PROVE  /\ Append(s, e) \in Seq(S) /\ Len(Append(s, e)) = Len(s) + 1 /\ Len(s) \in Nat
         /\ \A i \in 1 .. Len(s) : Append(s, e)[i] = s[i]
         /\ Append(s, e)[Len(s) + 1] = e
OBVIOUS

LEMMA Widened ==
  ASSUME NEW S, NEW T, S \subseteq T, NEW s \in Seq(S)
  PROVE  s \in Seq(T)
OBVIOUS

LEMMA PutType ==
  ASSUME TypeOK, NEW line \in LineSet(time), lines' = Append(lines, line), UNCHANGED time
  PROVE  /\ lines' \in Seq(LineSet(time'))
         /\ Len(lines') = Len(lines) + 1 /\ Len(lines) \in Nat
         /\ \A i \in Rows : lines'[i] = lines[i]
         /\ lines'[Len(lines) + 1] = line
<1>1. lines \in Seq(LineSet(time))
  BY DEF TypeOK, LineSet
<1> QED BY <1>1, Appended DEF Rows

LEMMA PutStamped ==
  ASSUME TypeOK, LinesStamped, NEW line \in LineSet(time), lines' = Append(lines, line),
         UNCHANGED time, Stamps(line)
  PROVE  LinesStamped'
<1> SUFFICES ASSUME NEW i \in Rows' PROVE Stamps(lines'[i])
  BY DEF LinesStamped, Stamps, Sentence
<1>1. i \in Rows \/ i = Len(lines) + 1
  BY PutType DEF Rows
<1>2. CASE i \in Rows
  BY <1>2, PutType DEF LinesStamped
<1>3. CASE i = Len(lines) + 1
  BY <1>3, PutType
<1> QED BY <1>1, <1>2, <1>3

LEMMA PutInOrder ==
  ASSUME TypeOK, EventsInOrder, NEW line \in LineSet(time), lines' = Append(lines, line),
         UNCHANGED time,
         Event(line) => \A i \in Rows : /\ lines[i].at <= line.at
                                        /\ Event(lines[i]) => lines[i].at < line.at
  PROVE  EventsInOrder'
<1> SUFFICES ASSUME NEW i \in Rows', NEW j \in Rows', i < j, Event(lines'[j])
             PROVE  /\ lines'[i].at <= lines'[j].at
                    /\ Event(lines'[i]) => lines'[i].at < lines'[j].at
  BY DEF EventsInOrder, Event, Sentence
<1>1. i \in Rows /\ (j \in Rows \/ j = Len(lines) + 1)
  BY PutType DEF Rows
<1>2. CASE j \in Rows
  BY <1>1, <1>2, PutType DEF EventsInOrder
<1>3. CASE j = Len(lines) + 1
  BY <1>1, <1>3, PutType
<1> QED BY <1>1, <1>2, <1>3

-----------------------------------------------------------------------------
(* The log.                                                                *)

LEMMA JiffiesType == TypeOK => Jiffies \in Nat
<1> SUFFICES ASSUME TypeOK PROVE Jiffies \in Nat
  OBVIOUS
<1>1. clock \in Nat
  BY DEF TypeOK
<1> QED BY <1>1, Floor, Constants DEF Jiffies

\* The stamps that a line may get.
LEMMA StampTypes ==
  ASSUME TypeOK
  PROVE  /\ Now \in StampSet(time) /\ Now # None
         /\ loaded # None => loaded \in StampSet(time)
<1>1. clock \in 0 .. time /\ time \in 0 .. time /\ Jiffies \in Nat
  BY JiffiesType, Constants DEF TypeOK
<1>2. Now \in StampSet(time)
  BY <1>1 DEF Now, StampSet
<1>3. loaded # None => loaded \in StampSet(time)
  BY DEF TypeOK, StampSet
<1>4. DOMAIN Now = {"jif", "at", "clock", "torn"} /\ DOMAIN None = {"none"}
  BY DEF Now, None
<1> QED BY <1>2, <1>3, <1>4

\* The lines an action may put, and what they say of their stamps.
LEMMA PpsLine ==
  ASSUME TypeOK, StillToCome, due, NEW begins \in {"JAGMT", "other"},
         NEW good \in BOOLEAN
  PROVE  /\ Line(begins, TRUE, good, 0, Now) \in LineSet(time)
         /\ Stamps(Line(begins, TRUE, good, 0, Now))
<1>1. Now \in StampSet(time) /\ boot \in 0 .. time /\ time \in Nat
  BY StampTypes, Constants DEF TypeOK
<1>2. time % Second = 0
  BY DEF StillToCome
<1>3. Line(begins, TRUE, good, 0, Now) \in LineSet(time)
  BY <1>1 DEF Line, LineSet, StampSet
<1>4. Now.at = time /\ ~Now.torn /\ Now.jif = Now.clock \div Jiffy
  BY DEF Now, Jiffies
<1> QED BY <1>2, <1>3, <1>4 DEF Line, Stamps, Sentence

LEMMA GprmcLine ==
  ASSUME TypeOK, rmc, time % Second = Delay, NEW good \in BOOLEAN,
         NEW ts, ts = IF good THEN time \div Second ELSE 0
  PROVE  /\ Line("$GPRMC", FALSE, good, ts, Now) \in LineSet(time)
         /\ Stamps(Line("$GPRMC", FALSE, good, ts, Now))
<1>1. Now \in StampSet(time) /\ boot \in 0 .. time /\ time \in Nat
  BY StampTypes, Constants DEF TypeOK
<1>2. time \div Second \in Nat /\ time = Second * (time \div Second) + (time % Second)
  BY <1>1, Floor, Constants
<1>3. ts \in Nat
  BY <1>2
<1>4. good => time = ts * Second + Delay
  <2> DEFINE s == time \div Second
  <2>1. s \in Nat /\ time = Second * s + Delay
    BY <1>2
  <2> HIDE DEF s
  <2>2. time = s * Second + Delay
    BY <2>1, Constants
  <2> QED BY <2>2 DEF s
<1>5. Line("$GPRMC", FALSE, good, ts, Now) \in LineSet(time)
  BY <1>1, <1>3 DEF Line, LineSet, StampSet
<1> QED BY <1>4, <1>5 DEF Line, Stamps, Sentence, Now

LEMMA SampleLine ==
  ASSUME TypeOK, LoadedStamp, loaded # None, NEW good \in BOOLEAN
  PROVE  /\ Line("JAGMT", FALSE, good, 0, loaded) \in LineSet(time)
         /\ Stamps(Line("JAGMT", FALSE, good, 0, loaded))
<1>1. loaded \in StampSet(time) /\ boot \in 0 .. time
  BY StampTypes DEF TypeOK
<1>2. Line("JAGMT", FALSE, good, 0, loaded) \in LineSet(time)
  BY <1>1 DEF Line, LineSet, StampSet
<1> QED BY <1>2 DEF Line, Stamps, Sentence, LoadedStamp

LEMMA FaultType == TypeOK /\ Fault => faults' \in 0 .. MaxFaults
BY TimestampsAssumption DEF TypeOK, Fault

LEMMA TypeStep ==
  ASSUME TypeOK, LogInv, Next
  PROVE  TypeOK'
<1>0. time \in Nat /\ LogEnd \in Nat
  BY Constants DEF TypeOK
<1>a. lines \in Seq(LineSet(time))
  BY DEF TypeOK, LineSet
<1>b. /\ boot \in 0 .. time /\ clock \in 0 .. time
      /\ due \in BOOLEAN /\ rmc \in BOOLEAN /\ faults \in 0 .. MaxFaults
      /\ samples \in 0 .. MaxSamples /\ time \in 0 .. LogEnd
      /\ loaded = None \/ loaded \in StampSet(time)
      /\ phase \in {"log", "match", "interpolate", "done", "aborted"}
  BY DEF TypeOK, StampSet
<1> DEFINE Rest == /\ UNCHANGED <<time, boot, clock, phase>>
                   /\ faults' \in 0 .. MaxFaults
                   /\ loaded' = None \/ loaded' \in StampSet(time)
                   /\ due' \in BOOLEAN /\ rmc' \in BOOLEAN /\ samples' \in 0 .. MaxSamples
<1>c. ASSUME Rest, lines' \in Seq(LineSet(time')) PROVE TypeOK'
  BY <1>b, <1>c DEF TypeOK, LineSet, StampSet
<1>1. CASE Tick
  <2>1. time' = time + 1 /\ time' \in 0 .. LogEnd
    BY <1>0, <1>1 DEF Tick
  <2>2. LineSet(time) \subseteq LineSet(time')
    BY <1>0, <2>1 DEF LineSet
  <2>3. lines' \in Seq(LineSet(time'))
    BY <1>1, <1>a, <2>2, Widened DEF Tick
  <2>4. faults' \in 0 .. MaxFaults
    BY <1>1, <1>b, FaultType DEF Tick
  <2>5. loaded' = None \/ loaded' \in StampSet(time')
    BY <1>0, <1>1, <1>b, <2>1 DEF Tick, StampSet
  <2>6. due' \in BOOLEAN
    BY <1>1 DEF Tick
  <2>7. rmc' \in BOOLEAN
    BY <1>1, <1>b DEF Tick
  <2>8. boot' \in 0 .. time' /\ samples' \in 0 .. MaxSamples /\ phase' = phase
    BY <1>0, <1>1, <1>b, <2>1 DEF Tick
  <2>9. clock' \in 0 .. time'
    BY <1>0, <1>1, <1>b, <2>1 DEF Tick, Run
  <2> QED BY <1>b, <2>1, <2>3, <2>4, <2>5, <2>6, <2>7, <2>8, <2>9
          DEF TypeOK, LineSet, StampSet
<1>2. CASE Pps
  <2>1. lines' \in Seq(LineSet(time'))
    BY <1>2, PpsLine, PutType DEF Pps, Edge, Put, LogInv
  <2>2. Rest
    BY <1>2, <1>b DEF Pps, Edge, Put
  <2> QED BY <1>c, <2>1, <2>2
<1>3. CASE PpsInSample
  <2>1. lines' \in Seq(LineSet(time'))
    BY <1>3, PpsLine, PutType DEF PpsInSample, Edge, Put, LogInv
  <2>2. Rest
    BY <1>3, <1>b DEF PpsInSample, Edge, Put
  <2> QED BY <1>c, <2>1, <2>2
<1>4. CASE PpsLost
  <2>1. lines' \in Seq(LineSet(time'))
    BY <1>4, <1>a DEF PpsLost
  <2>2. Rest
    BY <1>4, <1>b, FaultType DEF PpsLost, Edge
  <2> QED BY <1>c, <2>1, <2>2
<1>5. CASE PpsDamaged
  <2>1. lines' \in Seq(LineSet(time'))
    BY <1>5, PpsLine, PutType DEF PpsDamaged, Edge, Put, LogInv
  <2>2. Rest
    BY <1>5, <1>b, FaultType DEF PpsDamaged, Edge, Put
  <2> QED BY <1>c, <2>1, <2>2
<1>6. CASE Gprmc
  <2>1. lines' \in Seq(LineSet(time'))
    BY <1>6, GprmcLine, PutType DEF Gprmc, Put
  <2>2. Rest
    BY <1>6, <1>b, FaultType DEF Gprmc, Put
  <2> QED BY <1>c, <2>1, <2>2
<1>7. CASE Load
  <2>1. loaded' \in StampSet(time)
    <3>1. CASE loaded' = Now
      BY <3>1, StampTypes
    <3>2. CASE \E n \in Ahead : loaded' = [Now EXCEPT !.jif = @ + n, !.torn = TRUE]
      <4>1. PICK n \in Nat : loaded' = [Now EXCEPT !.jif = @ + n, !.torn = TRUE]
        <5>1. Ahead \subseteq Nat
          BY TimestampsAssumption
        <5> QED BY <3>2, <5>1
      <4>2. Now.jif \in Nat /\ Now.jif + n \in Nat
        BY StampTypes DEF StampSet
      <4> QED BY <4>1, <4>2, StampTypes DEF StampSet
    <3> QED BY <1>7, <3>1, <3>2 DEF Load
  <2>2. samples' \in 0 .. MaxSamples
    <3>1. samples < MaxSamples /\ samples' = samples + 1
      BY <1>7 DEF Load
    <3> QED BY <1>b, <3>1, TimestampsAssumption
  <2>3. faults' \in 0 .. MaxFaults
    BY <1>7, <1>b, FaultType DEF Load
  <2>4. Rest
    BY <1>7, <1>b, <2>1, <2>2, <2>3 DEF Load
  <2>5. lines' \in Seq(LineSet(time'))
    BY <1>7, <1>a DEF Load
  <2> QED BY <1>c, <2>4, <2>5
<1>8. CASE Sample
  <2>1. lines' \in Seq(LineSet(time'))
    BY <1>8, SampleLine, PutType DEF Sample, Put, LogInv
  <2>2. Rest
    BY <1>8, <1>b, FaultType DEF Sample, Put
  <2> QED BY <1>c, <2>1, <2>2
<1>9. CASE Reset
  <2>1. faults' \in 0 .. MaxFaults
    BY <1>9, FaultType DEF Reset
  <2>2. /\ UNCHANGED <<time, due, rmc, samples, lines, phase>>
        /\ boot' = time /\ clock' = 0 /\ loaded' = None
    BY <1>9 DEF Reset
  <2> QED BY <1>0, <1>a, <1>b, <2>1, <2>2 DEF TypeOK, LineSet
<1>10. CASE Classify
  <2>1. phase' \in {"match", "aborted"} /\ UNCHANGED <<logger, lines>>
    BY <1>10 DEF Classify
  <2> QED BY <1>a, <1>b, <2>1 DEF TypeOK, logger, LineSet
<1>11. CASE Match
  <2>1. phase' = "interpolate" /\ UNCHANGED <<logger, lines>>
    BY <1>11 DEF Match
  <2> QED BY <1>a, <1>b, <2>1 DEF TypeOK, logger, LineSet
<1>12. CASE Interpolate
  <2>1. phase' \in {"done", "aborted"} /\ UNCHANGED <<logger, lines>>
    BY <1>12 DEF Interpolate
  <2> QED BY <1>a, <1>b, <2>1 DEF TypeOK, logger, LineSet
<1> QED BY <1>1, <1>2, <1>3, <1>4, <1>5, <1>6, <1>7, <1>8, <1>9, <1>10, <1>11, <1>12 DEF Next

\* The line that an action puts comes after those before it.
LEMMA PpsComesLast ==
  ASSUME TypeOK, StillToCome, due, NEW i \in Rows
  PROVE  lines[i].at <= time /\ (Event(lines[i]) => lines[i].at < time)
BY RowTypes DEF StillToCome

LEMMA GprmcComesLast ==
  ASSUME TypeOK, LinesStamped, StillToCome, rmc, time % Second = Delay, NEW i \in Rows
  PROVE  lines[i].at <= time /\ (Event(lines[i]) => lines[i].at < time)
<1>1. lines[i].at \in Nat /\ lines[i].at <= time /\ time \in Nat
  BY RowTypes
<1>2. CASE Sentence(lines[i])
  <2>1. lines[i].at < time - (time % Second)
    BY <1>2 DEF StillToCome
  <2> QED BY <1>1, <2>1, Constants
<1>3. CASE lines[i].pps
  <2>1. lines[i].at % Second = 0
    BY <1>3 DEF LinesStamped, Stamps
  <2>2. lines[i].at # time
    BY <2>1, Constants
  <2> QED BY <1>1, <2>2
<1> QED BY <1>1, <1>2, <1>3 DEF Event

LEMMA StampedStep ==
  ASSUME TypeOK, LogInv, Next
  PROVE  LinesStamped'
<1>0. LinesStamped /\ StillToCome /\ LoadedStamp
  BY DEF LogInv
<1>1. CASE Pps
  BY <1>0, <1>1, PpsLine, PutStamped DEF Pps, Edge, Put
<1>2. CASE PpsInSample
  BY <1>0, <1>2, PpsLine, PutStamped DEF PpsInSample, Edge, Put
<1>3. CASE PpsDamaged
  BY <1>0, <1>3, PpsLine, PutStamped DEF PpsDamaged, Edge, Put
<1>4. CASE Gprmc
  BY <1>0, <1>4, GprmcLine, PutStamped DEF Gprmc, Put
<1>5. CASE Sample
  BY <1>0, <1>5, SampleLine, PutStamped DEF Sample, Put
<1>6. CASE UNCHANGED lines
  BY <1>0, <1>6 DEF LinesStamped, Stamps, Sentence, Rows
<1>7. Tick \/ PpsLost \/ Load \/ Reset \/ Classify \/ Match \/ Interpolate => UNCHANGED lines
  BY DEF Tick, PpsLost, Load, Reset, Classify, Match, Interpolate
<1> QED BY <1>1, <1>2, <1>3, <1>4, <1>5, <1>6, <1>7 DEF Next

LEMMA InOrderStep ==
  ASSUME TypeOK, LogInv, Next
  PROVE  EventsInOrder'
<1>0. LinesStamped /\ EventsInOrder /\ StillToCome /\ LoadedStamp
  BY DEF LogInv
<1>1. ASSUME NEW begins \in {"JAGMT", "other"}, NEW good \in BOOLEAN, due,
             lines' = Append(lines, Line(begins, TRUE, good, 0, Now)), UNCHANGED time
      PROVE  EventsInOrder'
  <2>1. Line(begins, TRUE, good, 0, Now).at = time
    BY DEF Line, Now
  <2>2. Line(begins, TRUE, good, 0, Now) \in LineSet(time)
    BY <1>0, <1>1, PpsLine
  <2> QED BY <1>0, <1>1, <2>1, <2>2, PpsComesLast, PutInOrder
<1>2. CASE Pps \/ PpsInSample \/ PpsDamaged
  BY <1>1, <1>2 DEF Pps, PpsInSample, PpsDamaged, Edge, Put
<1>3. CASE Gprmc
  <2>1. PICK good \in BOOLEAN, ts \in {time \div Second, 0} :
          /\ ts = IF good THEN time \div Second ELSE 0
          /\ lines' = Append(lines, Line("$GPRMC", FALSE, good, ts, Now))
    BY <1>3 DEF Gprmc, Put
  <2>2. rmc /\ time % Second = Delay /\ UNCHANGED time
    BY <1>3 DEF Gprmc, Put
  <2>3. Line("$GPRMC", FALSE, good, ts, Now).at = time
    BY DEF Line, Now
  <2>4. Line("$GPRMC", FALSE, good, ts, Now) \in LineSet(time)
    BY <2>1, <2>2, GprmcLine
  <2> QED BY <1>0, <2>1, <2>2, <2>3, <2>4, GprmcComesLast, PutInOrder
<1>4. CASE Sample
  <2>1. PICK good \in BOOLEAN :
          lines' = Append(lines, Line("JAGMT", FALSE, good, 0, loaded))
    BY <1>4 DEF Sample, Put
  <2>2. loaded # None /\ UNCHANGED time
    BY <1>4 DEF Sample, Put
  <2>3. ~Event(Line("JAGMT", FALSE, good, 0, loaded))
    BY DEF Line, Event, Sentence
  <2>4. Line("JAGMT", FALSE, good, 0, loaded) \in LineSet(time)
    BY <1>0, <2>1, <2>2, SampleLine
  <2> QED BY <1>0, <2>1, <2>2, <2>3, <2>4, PutInOrder
<1>5. CASE UNCHANGED lines
  BY <1>0, <1>5 DEF EventsInOrder, Event, Sentence, Rows
<1>6. Tick \/ PpsLost \/ Load \/ Reset \/ Classify \/ Match \/ Interpolate => UNCHANGED lines
  BY DEF Tick, PpsLost, Load, Reset, Classify, Match, Interpolate
<1> QED BY <1>2, <1>3, <1>4, <1>5, <1>6 DEF Next

LEMMA LoadedStep ==
  ASSUME TypeOK, LogInv, Next
  PROVE  LoadedStamp'
<1>0. LoadedStamp
  BY DEF LogInv
<1>1. CASE Load
  <2>1. CASE loaded' = Now
    BY <2>1 DEF LoadedStamp, Now, Jiffies
  <2>2. ASSUME NEW n \in Ahead, loaded' = [Now EXCEPT !.jif = @ + n, !.torn = TRUE]
        PROVE  LoadedStamp'
    BY <2>2 DEF LoadedStamp, Now
  <2> QED BY <1>1, <2>1, <2>2 DEF Load
<1>2. CASE loaded' = None
  BY <1>2 DEF LoadedStamp
<1>3. CASE UNCHANGED loaded
  BY <1>0, <1>3 DEF LoadedStamp
<1>4. Pps \/ PpsLost \/ PpsDamaged \/ Gprmc \/ Tick \/ Classify \/ Match \/ Interpolate
        => UNCHANGED loaded
  BY DEF Pps, PpsLost, PpsDamaged, Gprmc, Tick, Classify, Match, Interpolate, Put, logger
<1>5. PpsInSample \/ Sample \/ Reset => loaded' = None
  BY DEF PpsInSample, Sample, Reset
<1> QED BY <1>1, <1>2, <1>3, <1>4, <1>5 DEF Next

LEMMA StillToComeStep ==
  ASSUME TypeOK, LogInv, Next
  PROVE  StillToCome'
<1>0. StillToCome /\ LoadedStamp /\ time \in Nat /\ due \in BOOLEAN /\ rmc \in BOOLEAN
  BY Constants DEF LogInv, TypeOK
<1>1. CASE Tick
  <2>1. time' = time + 1 /\ due' = (time' % Second = 0) /\ UNCHANGED lines
    BY <1>1 DEF Tick
  <2>2. rmc' => rmc /\ time % Second # Delay
    BY <1>1 DEF Tick
  <2>3. time % Second \in 0 .. Second - 1
    BY <1>0, Floor, Constants
  <2>4. rmc' => /\ (time + 1) % Second = (time % Second) + 1
                /\ (time % Second) + 1 <= Delay
    <3>1. SUFFICES ASSUME rmc'
                   PROVE  /\ (time + 1) % Second = (time % Second) + 1
                          /\ (time % Second) + 1 <= Delay
      OBVIOUS
    <3>2. time % Second <= Delay
      BY <1>0, <2>2, <3>1 DEF StillToCome
    <3>3. (time % Second) + 1 <= Delay /\ time % Second # Second - 1
      BY <2>2, <2>3, <3>1, <3>2, Constants
    <3>4. (time + 1) % Second = (time % Second) + 1
      BY <1>0, <3>3, NextUnit, Constants
    <3> QED BY <3>3, <3>4
  <2>5. \A i \in Rows : lines[i].at \in Nat /\ lines[i].at <= time
    BY RowTypes
  <2>6. ASSUME due' PROVE ~rmc' /\ \A i \in Rows : lines[i].at < time'
    <3>1. (time + 1) % Second = 0
      BY <2>1, <2>6
    <3>2. ~rmc'
      BY <2>3, <2>4, <3>1
    <3>3. \A i \in Rows : lines[i].at < time'
      BY <1>0, <2>1, <2>5
    <3> QED BY <3>2, <3>3
  <2>7. ASSUME rmc'
        PROVE  /\ time' % Second <= Delay
               /\ time' - (time' % Second) = time - (time % Second)
    <3>1. time' % Second = (time % Second) + 1 /\ (time % Second) + 1 <= Delay
      BY <2>1, <2>4, <2>7
    <3> QED BY <1>0, <2>1, <2>3, <3>1
  <2>8. ASSUME rmc', NEW i \in Rows, Sentence(lines[i])
        PROVE  lines[i].at < time' - (time' % Second)
    <3>1. lines[i].at < time - (time % Second)
      BY <1>0, <2>2, <2>8 DEF StillToCome
    <3> QED BY <2>7, <2>8, <3>1
  <2>9. Rows' = Rows
    BY <2>1 DEF Rows
  <2> QED BY <2>1, <2>6, <2>7, <2>8, <2>9 DEF StillToCome, Event, Sentence
<1>2. ASSUME due, ~due', rmc', UNCHANGED time,
             \/ UNCHANGED lines
             \/ \E begins \in {"JAGMT", "other"}, good \in BOOLEAN :
                  lines' = Append(lines, Line(begins, TRUE, good, 0, Now))
      PROVE  StillToCome'
  <2>1. time % Second = 0
    BY <1>0, <1>2 DEF StillToCome
  <2>2. time' - (time' % Second) = time /\ time' % Second <= Delay
    BY <1>0, <1>2, <2>1, Constants
  <2>3. ASSUME NEW i \in Rows', Sentence(lines'[i]) PROVE i \in Rows /\ lines'[i] = lines[i]
    <3>1. CASE UNCHANGED lines
      BY <3>1 DEF Rows
    <3>2. CASE \E begins \in {"JAGMT", "other"}, good \in BOOLEAN :
                 lines' = Append(lines, Line(begins, TRUE, good, 0, Now))
      <4>1. PICK begins \in {"JAGMT", "other"}, good \in BOOLEAN :
              lines' = Append(lines, Line(begins, TRUE, good, 0, Now))
        BY <3>2
      <4> DEFINE line == Line(begins, TRUE, good, 0, Now)
      <4>2. line \in LineSet(time) /\ ~Sentence(line)
        BY <1>0, <1>2, <4>1, PpsLine DEF Line, Sentence
      <4>3. lines' = Append(lines, line)
        BY <4>1
      <4> HIDE DEF line
      <4>4. i \in Rows \/ i = Len(lines) + 1
        BY <1>2, <2>3, <4>2, <4>3, PutType DEF Rows
      <4>5. i # Len(lines) + 1
        BY <1>2, <2>3, <4>2, <4>3, PutType
      <4> QED BY <1>2, <4>2, <4>3, <4>4, <4>5, PutType
    <3> QED BY <1>2, <3>1, <3>2
  <2>4. ASSUME NEW i \in Rows', Sentence(lines'[i]) PROVE lines'[i].at < time
    BY <1>0, <1>2, <2>3, <2>4 DEF StillToCome, Event
  <2> QED BY <1>2, <2>2, <2>4 DEF StillToCome, Sentence
<1>3. CASE Pps \/ PpsInSample \/ PpsDamaged
  BY <1>2, <1>3 DEF Pps, PpsInSample, PpsDamaged, Edge, Put
<1>4. CASE PpsLost
  BY <1>2, <1>4 DEF PpsLost, Edge
<1>5. CASE Gprmc
  <2>1. ~due' /\ ~rmc'
    BY <1>0, <1>5 DEF Gprmc, StillToCome
  <2> QED BY <2>1 DEF StillToCome
<1>6. CASE Sample
  <2>1. PICK good \in BOOLEAN :
          lines' = Append(lines, Line("JAGMT", FALSE, good, 0, loaded))
    BY <1>6 DEF Sample, Put
  <2> DEFINE line == Line("JAGMT", FALSE, good, 0, loaded)
  <2>2. ~due' /\ rmc' = rmc /\ loaded # None /\ UNCHANGED time
    BY <1>6 DEF Sample, Put
  <2>3. line \in LineSet(time) /\ ~Sentence(line)
    BY <1>0, <2>1, <2>2, SampleLine DEF Line, Sentence
  <2>4. lines' = Append(lines, line)
    BY <2>1
  <2> HIDE DEF line
  <2>5. ASSUME NEW i \in Rows', Sentence(lines'[i]) PROVE i \in Rows /\ lines'[i] = lines[i]
    <3>1. i \in Rows \/ i = Len(lines) + 1
      BY <2>2, <2>3, <2>4, <2>5, PutType DEF Rows
    <3>2. i # Len(lines) + 1
      BY <2>2, <2>3, <2>4, <2>5, PutType
    <3> QED BY <2>2, <2>3, <2>4, <3>1, <3>2, PutType
  <2> QED BY <1>0, <2>2, <2>5 DEF StillToCome, Sentence
<1>7. CASE UNCHANGED <<time, due, rmc, lines>>
  BY <1>0, <1>7 DEF StillToCome, Event, Sentence, Rows
<1>8. Load \/ Reset \/ Classify \/ Match \/ Interpolate => UNCHANGED <<time, due, rmc, lines>>
  BY DEF Load, Reset, Classify, Match, Interpolate, logger
<1> QED BY <1>1, <1>3, <1>4, <1>5, <1>6, <1>7, <1>8 DEF Next

LEMMA MomentTypes ==
  ASSUME TypeOK
  PROVE  /\ \A m \in Moments : m.at \in Nat /\ m.boot \in Nat /\ m.clock \in Nat
         /\ Moment(Now, boot) \in Moments /\ Moment(Now, boot).at = time
         /\ Moment(Now, boot).boot = boot /\ Moment(Now, boot).clock = clock
<1>1. ASSUME NEW i \in Rows
      PROVE  LET m == Moment(lines[i], lines[i].boot)
             IN  m.at \in Nat /\ m.boot \in Nat /\ m.clock \in Nat
  BY RowTypes DEF Moment
<1>2. ASSUME NEW x \in {Now, loaded} \ {None}
      PROVE  LET m == Moment(x, boot)
             IN  m.at \in Nat /\ m.boot \in Nat /\ m.clock \in Nat
  <2>1. x \in StampSet(time) /\ boot \in Nat
    BY <1>2, StampTypes DEF TypeOK
  <2> QED BY <2>1 DEF StampSet, Moment
<1>3. Moment(Now, boot) \in Moments
  BY StampTypes DEF Moments
<1> QED BY <1>1, <1>2, <1>3 DEF Moments, Moment, Now

LEMMA MomentsKept ==
  ASSUME ClockSlow, UNCHANGED time, Moments' \subseteq Moments
  PROVE  ClockSlow'
BY DEF ClockSlow, Slow

LEMMA NowKept == UNCHANGED <<time, clock>> => Now' = Now
BY DEF Now, Jiffies

\* The stamp of a line that is put has been taken before.
LEMMA PutSlow ==
  ASSUME TypeOK, ClockSlow, NEW stamp \in {Now, loaded} \ {None},
         NEW begins, NEW pps, NEW good, NEW ts, Put(Line(begins, pps, good, ts, stamp)),
         Line(begins, pps, good, ts, stamp) \in LineSet(time), loaded' \in {loaded, None}
  PROVE  ClockSlow'
<1> DEFINE line == Line(begins, pps, good, ts, stamp)
<1>1. UNCHANGED <<time, boot, clock>> /\ lines' = Append(lines, line)
  BY DEF Put
<1>2. Now' = Now
  BY <1>1, NowKept
<1>3. Moment(line, line.boot) = Moment(stamp, boot)
  BY DEF Line, Moment
<1> HIDE DEF line
<1>4. line \in LineSet(time)
  BY DEF line
<1>5. ASSUME NEW i \in Rows' PROVE Moment(lines'[i], lines'[i].boot) \in Moments
  <2>1. i \in Rows \/ i = Len(lines) + 1
    BY <1>1, <1>4, PutType DEF Rows
  <2>2. CASE i \in Rows
    <3>1. lines'[i] = lines[i]
      BY <1>1, <1>4, <2>2, PutType
    <3> QED BY <2>2, <3>1 DEF Moments
  <2>3. CASE i = Len(lines) + 1
    <3>1. lines'[i] = line
      BY <1>1, <1>4, <2>3, PutType
    <3> QED BY <1>3, <3>1 DEF Moments
  <2> QED BY <2>1, <2>2, <2>3
<1>6. ASSUME NEW x \in {Now', loaded'} \ {None} PROVE Moment(x, boot') \in Moments
  BY <1>1, <1>2 DEF Moments
<1>7. Moments' \subseteq Moments
  BY <1>5, <1>6 DEF Moments, Moment, None
<1> QED BY <1>1, <1>7, MomentsKept

LEMMA LoadSlow ==
  ASSUME TypeOK, ClockSlow, Load
  PROVE  ClockSlow'
<1>1. UNCHANGED <<time, boot, clock, lines>>
  BY DEF Load
<1>2. Now' = Now /\ Rows' = Rows
  BY <1>1, NowKept DEF Rows
<1>3. Moment(loaded', boot) = Moment(Now, boot)
  <2>1. loaded'.at = Now.at /\ loaded'.clock = Now.clock
    BY DEF Load, Now
  <2> QED BY <2>1 DEF Moment
<1>4. Moments' \subseteq Moments
  BY <1>1, <1>2, <1>3, MomentTypes DEF Moments, Moment, None
<1> QED BY <1>1, <1>4, MomentsKept

LEMMA ResetSlow ==
  ASSUME TypeOK, ClockSlow, Reset
  PROVE  ClockSlow'
<1> DEFINE first == [at |-> time, boot |-> time, clock |-> 0]
<1>1. UNCHANGED <<time, lines>> /\ boot' = time /\ clock' = 0 /\ loaded' = None
  BY DEF Reset
<1>2. Rows' = Rows /\ time \in Nat
  BY <1>1, Constants DEF Rows, TypeOK
<1>3. Moment(Now, boot)' = first
  BY <1>1 DEF Now, Moment
<1>4. Moments' \subseteq Moments \union {first}
  BY <1>1, <1>2, <1>3 DEF Moments, Moment, None
<1>5. \A m \in Moments : m.at \in Nat /\ m.boot \in Nat /\ m.clock \in Nat
  BY MomentTypes
<1>6. \A m \in Moments : m.boot + m.clock <= m.at /\ m.at <= time
  BY DEF ClockSlow
<1>7. ASSUME NEW m \in Moments PROVE Slow(m, first) /\ Slow(first, m)
  BY <1>2, <1>5, <1>6 DEF Slow
<1>8. Slow(first, first)
  BY <1>2 DEF Slow
<1>9. \A m, n \in Moments : Slow(m, n)
  BY DEF ClockSlow
<1> HIDE DEF first
<1>10. \A m, n \in Moments \union {first} : Slow(m, n)
  BY <1>7, <1>8, <1>9
<1>11. first.boot + first.clock <= first.at /\ first.at <= time
  BY <1>2 DEF first
<1> QED BY <1>1, <1>4, <1>6, <1>10, <1>11 DEF ClockSlow, Slow

LEMMA TickSlow ==
  ASSUME TypeOK, ClockSlow, Tick
  PROVE  ClockSlow'
<1> DEFINE last == [at |-> time + 1, boot |-> boot, clock |-> clock']
           before == Moment(Now, boot)
<1>1. UNCHANGED <<boot, loaded, lines>> /\ time' = time + 1 /\ clock' \in {clock, clock + 1}
  BY DEF Tick, Run
<1>2. Rows' = Rows /\ time \in Nat /\ clock \in Nat /\ boot \in Nat
  BY <1>1, Constants DEF Rows, TypeOK
<1>3. Moment(Now, boot)' = last
  BY <1>1 DEF Now, Moment
<1>4. Moments' \subseteq Moments \union {last}
  BY <1>1, <1>2, <1>3 DEF Moments, Moment, None
<1>5. \A m \in Moments : m.at \in Nat /\ m.boot \in Nat /\ m.clock \in Nat
  BY MomentTypes
<1>6. /\ before \in Moments /\ before.at = time /\ before.boot = boot /\ before.clock = clock
  BY MomentTypes
<1>7. \A m \in Moments : m.boot + m.clock <= m.at /\ m.at <= time
  BY DEF ClockSlow
<1>8. /\ last.at = time + 1 /\ last.boot = boot
      /\ last.clock = clock \/ last.clock = clock + 1
  BY <1>1
<1> HIDE DEF last, before
<1>9. ASSUME NEW m \in Moments PROVE Slow(m, last) /\ Slow(last, m)
  <2>1. Slow(m, before)
    BY <1>6 DEF ClockSlow
  <2>2. m.at \in Nat /\ m.clock \in Nat /\ m.at <= time
    BY <1>5, <1>7
  <2> QED BY <1>2, <1>6, <1>8, <2>1, <2>2 DEF Slow
<1>10. Slow(last, last) /\ \A m, n \in Moments : Slow(m, n)
  BY <1>2, <1>8 DEF ClockSlow, Slow
<1>11. last.boot + last.clock <= last.at /\ last.at <= time'
  <2>1. boot + clock <= time
    BY <1>6, <1>7
  <2> QED BY <1>1, <1>2, <1>8, <2>1
<1>12. \A m, n \in Moments \union {last} : Slow(m, n)
  BY <1>9, <1>10
<1>13. \A m \in Moments : m.at <= time'
  BY <1>1, <1>2, <1>5, <1>7
<1> QED BY <1>4, <1>7, <1>11, <1>12, <1>13 DEF ClockSlow, Slow

LEMMA ClockStep ==
  ASSUME TypeOK, LogInv, Next
  PROVE  ClockSlow'
<1>0. ClockSlow /\ StillToCome /\ LoadedStamp /\ Now # None
  BY StampTypes DEF LogInv
<1>1. CASE Pps
  BY <1>0, <1>1, PpsLine, PutSlow DEF Pps, Edge
<1>2. CASE PpsInSample
  BY <1>0, <1>2, PpsLine, PutSlow DEF PpsInSample, Edge
<1>3. CASE PpsDamaged
  BY <1>0, <1>3, PpsLine, PutSlow DEF PpsDamaged, Edge
<1>4. CASE Gprmc
  <2>1. PICK good \in BOOLEAN, ts \in {time \div Second, 0} :
          /\ ts = IF good THEN time \div Second ELSE 0
          /\ Put(Line("$GPRMC", FALSE, good, ts, Now))
    BY <1>4 DEF Gprmc
  <2>2. rmc /\ time % Second = Delay /\ loaded' = loaded
    BY <1>4 DEF Gprmc
  <2>3. Line("$GPRMC", FALSE, good, ts, Now) \in LineSet(time)
    BY <2>1, <2>2, GprmcLine
  <2> QED BY <1>0, <2>1, <2>2, <2>3, PutSlow
<1>5. CASE Sample
  <2>1. PICK good \in BOOLEAN : Put(Line("JAGMT", FALSE, good, 0, loaded))
    BY <1>5 DEF Sample
  <2>2. loaded # None /\ loaded' = None
    BY <1>5 DEF Sample
  <2>3. Line("JAGMT", FALSE, good, 0, loaded) \in LineSet(time)
    BY <1>0, <2>1, <2>2, SampleLine
  <2> QED BY <1>0, <2>1, <2>2, <2>3, PutSlow
<1>6. CASE Load \/ Reset \/ Tick
  BY <1>0, <1>6, LoadSlow, ResetSlow, TickSlow
<1>7. CASE UNCHANGED <<time, boot, clock, loaded, lines>>
  <2>1. Now' = Now /\ Rows' = Rows
    BY <1>7, NowKept DEF Rows
  <2>2. Moments' \subseteq Moments
    BY <1>7, <2>1 DEF Moments, Moment, None
  <2> QED BY <1>0, <1>7, <2>2, MomentsKept
<1>8. PpsLost \/ Classify \/ Match \/ Interpolate => UNCHANGED <<time, boot, clock, loaded, lines>>
  BY DEF PpsLost, Classify, Match, Interpolate, logger
<1> QED BY <1>1, <1>2, <1>3, <1>4, <1>5, <1>6, <1>7, <1>8 DEF Next

LEMMA LogStep ==
  ASSUME TypeOK, LogInv, Next
  PROVE  LogInv'
BY StampedStep, InOrderStep, LoadedStep, StillToComeStep, ClockStep DEF LogInv

-----------------------------------------------------------------------------
(* The matching.                                                           *)

LEMMA Before ==
  ASSUME NEW x \in Nat, NEW y \in Nat, NEW r \in 0 .. Second - 1, NEW q \in 0 .. Second - 1,
         x * Second + r < y * Second + q
  PROVE  x <= y /\ (r >= q => x < y)
<1>0. x * Second \in Nat /\ y * Second \in Nat /\ (y + 1) * Second = y * Second + Second
  BY Constants
<1>1. ASSUME x >= y + 1 PROVE FALSE
  <2>1. (y + 1) * Second <= x * Second
    BY <1>1, Increase, Constants
  <2> QED BY <1>0, <2>1, Constants
<1>2. ASSUME x = y PROVE r < q
  BY <1>0, <1>2, Constants
<1> QED BY <1>1, <1>2, Constants

LEMMA Small ==
  ASSUME NEW x \in Nat, x < Wrap
  PROVE  x % Wrap = x
<1>1. 0 * Wrap + x = x /\ x \in 0 .. Wrap - 1
  BY Constants
<1> QED BY <1>1, DivMod, Constants

LEMMA NoMore ==
  ASSUME NEW x \in Nat
  PROVE  x <= x * Second
<1>0. Second - 1 \in Nat /\ Second = 1 + (Second - 1)
  BY Constants
<1>1. PICK d \in Nat : Second = 1 + d
  BY <1>0
<1>2. x * Second = x + x * d /\ x * d \in Nat
  BY <1>1
<1> QED BY <1>2

LEMMA RowKinds ==
  ASSUME NEW line \in LineSet(time)
  PROVE  /\ RowType(line) = "VALID_GPRMC" <=> Sentence(line) /\ line.good
         /\ RowType(line) = "VALID_PPS" <=> ~Sentence(line) /\ line.pps
         /\ RowType(line) = "VALID_JAGMT" => ~Sentence(line) /\ line.good
         /\ RowType(line) # "PERFECT_TIMESTAMP"
<1>1. line.begins \in {"$GPRMC", "JAGMT", "other"} /\ line.pps \in BOOLEAN /\ line.good \in BOOLEAN
  BY DEF LineSet
<1>2. CASE line.begins = "$GPRMC"
  <2>1. RowType(line) = IF line.good THEN "VALID_GPRMC" ELSE "CORRUPT"
    BY <1>2 DEF RowType
  <2> QED BY <1>2, <2>1 DEF Sentence
<1>3. CASE line.begins # "$GPRMC" /\ line.pps
  <2>1. RowType(line) = "VALID_PPS"
    BY <1>3 DEF RowType
  <2> QED BY <1>3, <2>1 DEF Sentence
<1>4. CASE line.begins = "JAGMT" /\ ~line.pps
  <2>1. RowType(line) = IF line.good THEN "VALID_JAGMT" ELSE "CORRUPT"
    BY <1>4 DEF RowType
  <2> QED BY <1>4, <2>1 DEF Sentence
<1>5. CASE line.begins = "other" /\ ~line.pps
  <2>1. RowType(line) = "UNKNOWN"
    BY <1>5 DEF RowType
  <2> QED BY <1>5, <2>1 DEF Sentence
<1> QED BY <1>1, <1>2, <1>3, <1>4, <1>5

\* The time of a sentence that is good, and of the edge that a PPS report is about.
LEMMA SentenceTime ==
  ASSUME TypeOK, LogInv, NEW i \in Rows, RowType(lines[i]) = "VALID_GPRMC"
  PROVE  /\ lines[i].ts \in Nat /\ lines[i].ts < Wrap
         /\ lines[i].at = lines[i].ts * Second + Delay
         /\ Event(lines[i])
<1>1. lines[i] \in LineSet(time) /\ lines[i].ts \in Nat /\ lines[i].at <= LogEnd /\ lines[i].at \in Nat
  BY RowTypes, Constants
<1>2. Sentence(lines[i]) /\ lines[i].good
  BY <1>1, RowKinds
<1>3. lines[i].at = lines[i].ts * Second + Delay
  BY <1>2 DEF LogInv, LinesStamped, Stamps
<1>4. lines[i].ts <= lines[i].ts * Second /\ lines[i].ts * Second \in Nat
  BY <1>1, NoMore, Constants
<1>5. lines[i].ts < Wrap
  BY <1>1, <1>3, <1>4, Constants
<1> QED BY <1>1, <1>2, <1>3, <1>5 DEF Event

LEMMA PpsTime ==
  ASSUME TypeOK, LogInv, NEW i \in Rows, lines[i].pps
  PROVE  /\ lines[i].at \div Second \in Nat
         /\ lines[i].at = (lines[i].at \div Second) * Second
         /\ Event(lines[i]) /\ ~Sentence(lines[i])
<1>1. lines[i].at \in Nat
  BY RowTypes
<1>2. lines[i].at % Second = 0 /\ ~Sentence(lines[i])
  BY DEF LogInv, LinesStamped, Stamps
<1> DEFINE s == lines[i].at \div Second
<1>3. s \in Nat /\ lines[i].at = Second * s + 0
  BY <1>1, <1>2, Floor, Constants
<1> HIDE DEF s
<1>4. lines[i].at = s * Second
  BY <1>3, Constants
<1> QED BY <1>2, <1>3, <1>4 DEF s, Event

\* Between the sentences of seconds a and b there are only the edges after a up to b.
LEMMA EdgeBetween ==
  ASSUME NEW a \in Nat, NEW b \in Nat, NEW s \in Nat,
         a * Second + Delay < s * Second, s * Second < b * Second + Delay
  PROVE  a < s /\ s <= b
<1>1. a * Second + Delay < s * Second + 0 /\ s * Second + 0 < b * Second + Delay
  BY Constants
<1>2. Delay \in 0 .. Second - 1 /\ 0 \in 0 .. Second - 1 /\ Delay >= 0
  BY Constants
<1> QED BY <1>1, <1>2, Before

Classified ==
  /\ rowType = [i \in Rows |-> RowType(lines[i])]
  /\ gpsTimestamp = [i \in Rows |-> lines[i].ts]

LEMMA MatchIsTrue ==
  ASSUME TypeOK, LogInv, Classified, NEW k \in Rows, NEW n \in Rows, <<k, n>> \in Matches
  PROVE  /\ RowType(lines[k]) = "VALID_PPS"
         /\ gpsTimestamp[n] \in Nat /\ gpsTimestamp[n] * Second = lines[k].at
<1>1. PICK pair \in Neighbours("VALID_GPRMC") :
        /\ Minus(gpsTimestamp[pair[2]], gpsTimestamp[pair[1]]) = 1
        /\ k \in FirstPps(pair) /\ n = pair[2]
  BY DEF Matches
<1>2. PICK i \in Rows : /\ i = pair[1] /\ i < n
                        /\ rowType[i] = "VALID_GPRMC" /\ rowType[n] = "VALID_GPRMC"
  BY <1>1 DEF Neighbours
<1>3. k \in i .. n - 1 /\ rowType[k] = "VALID_PPS"
  BY <1>1, <1>2 DEF FirstPps
<1>4. RowType(lines[i]) = "VALID_GPRMC" /\ RowType(lines[n]) = "VALID_GPRMC"
      /\ RowType(lines[k]) = "VALID_PPS"
  BY <1>2, <1>3 DEF Classified
<1>5. i < k /\ k < n
  <2>1. i # k
    BY <1>4
  <2> QED BY <1>2, <1>3, <2>1 DEF Rows
<1>6. lines[k].pps
  BY <1>4, RowTypes, RowKinds
<1> DEFINE a == lines[i].ts
           b == lines[n].ts
           s == lines[k].at \div Second
<1>7. a \in Nat /\ a < Wrap /\ lines[i].at = a * Second + Delay /\ Event(lines[i])
  BY <1>4, SentenceTime
<1>8. b \in Nat /\ b < Wrap /\ lines[n].at = b * Second + Delay /\ Event(lines[n])
  BY <1>4, SentenceTime
<1>9. s \in Nat /\ lines[k].at = s * Second /\ Event(lines[k])
  BY <1>6, PpsTime
<1>10. lines[i].at < lines[k].at /\ lines[k].at < lines[n].at
  BY <1>5, <1>7, <1>8, <1>9 DEF LogInv, EventsInOrder
<1>11. (b - a) % Wrap = 1
  BY <1>1, <1>2 DEF Minus, Classified
<1>12. gpsTimestamp[n] = b
  BY DEF Classified
<1> HIDE DEF a, b, s
<1>13. a < s /\ s <= b
  BY <1>7, <1>8, <1>9, <1>10, EdgeBetween
<1>14. b - a = 1
  <2>1. b - a \in Nat /\ b - a < Wrap
    BY <1>7, <1>8, <1>9, <1>13, Constants
  <2> QED BY <1>11, <2>1, Small
<1>15. s = b
  BY <1>7, <1>8, <1>9, <1>13, <1>14
<1> QED BY <1>4, <1>8, <1>9, <1>12, <1>15

LEMMA EdgeIsMatched ==
  ASSUME TypeOK, LogInv, Classified, NEW row \in Rows, lines[row].pps,
         NEW i \in 1 .. row, NEW n \in row .. Len(lines),
         lines[i].begins = "$GPRMC", lines[i].good,
         lines[n].begins = "$GPRMC", lines[n].good,
         lines[i].ts = lines[n].ts - 1, lines[n].ts * Second = lines[row].at
  PROVE  n \in Rows /\ <<row, n>> \in Matches
<1>1. i \in Rows /\ n \in Rows
  BY DEF Rows
<1>2. RowType(lines[i]) = "VALID_GPRMC" /\ RowType(lines[n]) = "VALID_GPRMC"
  BY <1>1, RowTypes, RowKinds DEF Sentence
<1>3. RowType(lines[row]) = "VALID_PPS"
  BY RowTypes, RowKinds, PpsTime
<1>4. i < row /\ row < n
  BY <1>2, <1>3 DEF Rows
<1> DEFINE a == lines[i].ts
           b == lines[n].ts
<1>5. a \in Nat /\ a < Wrap /\ lines[i].at = a * Second + Delay /\ Event(lines[i])
  BY <1>1, <1>2, SentenceTime
<1>6. b \in Nat /\ b < Wrap /\ lines[n].at = b * Second + Delay /\ Event(lines[n])
  BY <1>1, <1>2, SentenceTime
<1>7. a = b - 1 /\ lines[row].at = b * Second /\ Event(lines[row])
  BY PpsTime
<1>8. ASSUME NEW m \in Rows, i < m, m < n, rowType[m] = "VALID_GPRMC"
      PROVE  FALSE
  <2> DEFINE c == lines[m].ts
  <2>1. RowType(lines[m]) = "VALID_GPRMC"
    BY <1>8 DEF Classified
  <2>2. c \in Nat /\ lines[m].at = c * Second + Delay /\ Event(lines[m])
    BY <2>1, SentenceTime
  <2>3. lines[i].at < lines[m].at /\ lines[m].at < lines[n].at
    BY <1>1, <1>5, <1>6, <1>8, <2>2 DEF LogInv, EventsInOrder
  <2> HIDE DEF a, b, c
  <2>4. Delay \in 0 .. Second - 1 /\ Delay >= Delay
    BY Constants
  <2>5. a < c /\ c < b
    BY <1>5, <1>6, <2>2, <2>3, <2>4, Before
  <2> QED BY <1>5, <1>6, <1>7, <2>2, <2>5
<1>9. ASSUME NEW l \in i .. row - 1, rowType[l] = "VALID_PPS"
      PROVE  FALSE
  <2>1. l \in Rows
    BY <1>1 DEF Rows
  <2>2. RowType(lines[l]) = "VALID_PPS"
    BY <1>9, <2>1 DEF Classified
  <2>3. i < l /\ l < row
    BY <1>2, <1>9, <2>2 DEF Rows
  <2>4. lines[l].pps
    BY <2>1, <2>2, RowTypes, RowKinds
  <2> DEFINE s == lines[l].at \div Second
  <2>5. s \in Nat /\ lines[l].at = s * Second /\ Event(lines[l])
    BY <2>1, <2>4, PpsTime
  <2>6. lines[i].at < lines[l].at /\ lines[l].at < lines[row].at
    BY <1>1, <1>5, <1>7, <2>1, <2>3, <2>5 DEF LogInv, EventsInOrder
  <2> HIDE DEF a, b, s
  <2>7. a * Second + Delay < s * Second + 0 /\ s * Second + 0 < b * Second + 0
    BY <1>5, <1>6, <1>7, <2>5, <2>6, Constants
  <2>8. Delay \in 0 .. Second - 1 /\ 0 \in 0 .. Second - 1 /\ Delay >= 0
    BY Constants
  <2>9. a < s /\ s < b
    BY <1>5, <1>6, <2>5, <2>7, <2>8, Before
  <2> QED BY <1>5, <1>6, <1>7, <2>5, <2>9
<1> DEFINE pair == <<i, n>>
<1>10. pair[1] = i /\ pair[2] = n /\ i < n
  BY <1>1, <1>4 DEF Rows
<1>11. pair \in Neighbours("VALID_GPRMC")
  <2>1. rowType[i] = "VALID_GPRMC" /\ rowType[n] = "VALID_GPRMC"
    BY <1>1, <1>2 DEF Classified
  <2> QED BY <1>1, <1>8, <1>10, <2>1 DEF Neighbours
<1>12. row \in FirstPps(pair)
  <2>1. rowType[row] = "VALID_PPS"
    BY <1>3 DEF Classified
  <2>2. row \in i .. n - 1
    BY <1>1, <1>4 DEF Rows
  <2> QED BY <1>9, <1>10, <2>1, <2>2 DEF FirstPps
<1>13. Minus(gpsTimestamp[pair[2]], gpsTimestamp[pair[1]]) = 1
  <2>1. gpsTimestamp[n] = b /\ gpsTimestamp[i] = a
    BY <1>1 DEF Classified
  <2> HIDE DEF a, b
  <2>2. b - a = 1 /\ 1 < Wrap
    <3>1. b - a = 1
      BY <1>5, <1>6, <1>7
    <3>2. b >= 1
      BY <1>5, <1>6, <1>7
    <3> QED BY <1>6, <3>1, <3>2, Constants
  <2> QED BY <1>10, <2>1, <2>2, Small DEF Minus
<1> HIDE DEF pair
<1> QED BY <1>1, <1>10, <1>11, <1>12, <1>13 DEF Matches

LEMMA MatchStep ==
  ASSUME TypeOK, LogInv, TableInv, Match
  PROVE  MatchInv'
<1> DEFINE Matched(k) == \E n \in Rows : <<k, n>> \in Matches
           From(k) == CHOOSE n \in Rows : <<k, n>> \in Matches
<1>1. phase = "match" /\ phase' = "interpolate" /\ UNCHANGED <<logger, lines>>
  BY DEF Match
<1>2. Classified
  BY <1>1 DEF TableInv, Classified
<1>3. /\ rowType' = [k \in Rows |-> IF Matched(k) THEN "PERFECT_TIMESTAMP" ELSE rowType[k]]
      /\ gpsTimestamp' = [k \in Rows |-> IF Matched(k) THEN gpsTimestamp[From(k)]
                                                       ELSE gpsTimestamp[k]]
  BY DEF Match
<1>4. ASSUME NEW k \in Rows, Matched(k)
      PROVE  /\ RowType(lines[k]) = "VALID_PPS" /\ rowType'[k] = "PERFECT_TIMESTAMP"
             /\ gpsTimestamp'[k] \in Nat /\ gpsTimestamp'[k] * Second = lines[k].at
  <2>1. From(k) \in Rows /\ <<k, From(k)>> \in Matches
    BY <1>4
  <2>2. gpsTimestamp'[k] = gpsTimestamp[From(k)] /\ rowType'[k] = "PERFECT_TIMESTAMP"
    BY <1>3, <1>4
  <2> HIDE DEF From
  <2> QED BY <1>2, <2>1, <2>2, MatchIsTrue
<1>5. ASSUME NEW k \in Rows, ~Matched(k)
      PROVE  /\ rowType'[k] = RowType(lines[k]) /\ rowType'[k] # "PERFECT_TIMESTAMP"
             /\ gpsTimestamp'[k] \in Nat
  <2>1. rowType'[k] = RowType(lines[k]) /\ gpsTimestamp'[k] = lines[k].ts
    BY <1>2, <1>3, <1>5 DEF Classified
  <2> QED BY <2>1, RowTypes, RowKinds
<1>6. Rows' = Rows /\ lines' = lines
  BY <1>1 DEF Rows
<1>7. ASSUME NEW row \in Rows, lines[row].pps,
             NEW i \in 1 .. row, NEW n \in row .. Len(lines),
             lines[i].begins = "$GPRMC", lines[i].good,
             lines[n].begins = "$GPRMC", lines[n].good,
             lines[i].ts = lines[n].ts - 1, lines[n].ts * Second = lines[row].at
      PROVE  Matched(row)
  <2>1. n \in Rows /\ <<row, n>> \in Matches
    BY <1>2, <1>7, EdgeIsMatched
  <2> QED BY <2>1
<1> HIDE DEF Matched, From
<1>8. TableInv'
  <2>1. \A i \in Rows : ~NoStamp(lines[i])
    BY <1>1 DEF TableInv
  <2> QED BY <1>1, <1>4, <1>5, <1>6, <2>1 DEF TableInv, NoStamp
<1>9. PerfectIsTrue'
  BY <1>4, <1>5, <1>6 DEF PerfectIsTrue, Perfect
<1>10. AllMatched'
  BY <1>1, <1>4, <1>6, <1>7 DEF AllMatched, Perfect
<1> QED BY <1>8, <1>9, <1>10 DEF MatchInv

\* Nothing that MatchInv depends on changes after the matching.
LEMMA MatchKept ==
  ASSUME MatchInv, UNCHANGED <<lines, rowType, gpsTimestamp>>,
         phase' = phase \/ (phase = "interpolate" /\ phase' \in {"done", "aborted"})
  PROVE  MatchInv'
<1>1. lines' = lines /\ rowType' = rowType /\ gpsTimestamp' = gpsTimestamp /\ Rows' = Rows
  BY DEF Rows
<1>2. TableInv'
  <2>1. (\A i \in Rows : ~NoStamp(lines[i]))' <=> \A i \in Rows : ~NoStamp(lines[i])
    BY <1>1 DEF NoStamp
  <2>2. ([i \in Rows |-> RowType(lines[i])])' = [i \in Rows |-> RowType(lines[i])]
    BY <1>1 DEF RowType
  <2>3. ([i \in Rows |-> lines[i].ts])' = [i \in Rows |-> lines[i].ts]
    BY <1>1
  <2>4. ASSUME NEW i \in Rows PROVE RowType(lines[i])' = RowType(lines[i])
    BY <1>1 DEF RowType
  <2> QED BY <1>1, <2>1, <2>2, <2>3, <2>4 DEF MatchInv, TableInv
<1>3. PerfectIsTrue'
  BY <1>1 DEF MatchInv, PerfectIsTrue, Perfect
<1>4. AllMatched'
  BY <1>1 DEF MatchInv, AllMatched, Perfect
<1> QED BY <1>2, <1>3, <1>4 DEF MatchInv

LEMMA ClassifyStep ==
  ASSUME TypeOK, LogInv, Classify
  PROVE  MatchInv' /\ AbortsOnlyOn' /\ AccurateButForLost'
<1>1. Rows' = Rows /\ lines' = lines
  BY DEF Classify, Rows
<1>2. CASE \E i \in Rows : NoStamp(lines[i])
  <2>1. phase' = "aborted"
    BY <1>2 DEF Classify
  <2>2. \E row \in Rows : lines[row].pps /\ ~lines[row].good
    BY <1>2 DEF NoStamp
  <2> QED BY <1>1, <2>1, <2>2
          DEF MatchInv, TableInv, PerfectIsTrue, AllMatched, Perfect, AbortsOnlyOn, AccurateButForLost
<1>3. CASE ~\E i \in Rows : NoStamp(lines[i])
  <2>1. /\ phase' = "match"
        /\ rowType' = [i \in Rows |-> RowType(lines[i])]
        /\ gpsTimestamp' = [i \in Rows |-> lines[i].ts]
    BY <1>3 DEF Classify
  <2>2. TableInv'
    BY <1>1, <1>3, <2>1 DEF TableInv, NoStamp, RowType
  <2> QED BY <1>1, <2>1, <2>2
          DEF MatchInv, PerfectIsTrue, AllMatched, Perfect, AbortsOnlyOn, AccurateButForLost
<1> QED BY <1>2, <1>3

-----------------------------------------------------------------------------
(* The interpolation.                                                      *)

\* Later stamps do not have fewer jiffies, and a jiffy later they have more.
LEMMA JiffiesGrow ==
  ASSUME NEW a \in Nat, NEW c \in Nat, a <= c
  PROVE  /\ a \div Jiffy \in Nat /\ c \div Jiffy \in Nat
         /\ a \div Jiffy <= c \div Jiffy /\ c \div Jiffy <= c
         /\ a + Jiffy <= c => a \div Jiffy < c \div Jiffy
<1> DEFINE p == a \div Jiffy
           u == a % Jiffy
           r == c \div Jiffy
           w == c % Jiffy
<1>1. p \in Nat /\ u \in 0 .. Jiffy - 1 /\ a = Jiffy * p + u
  BY Floor, Constants
<1>2. r \in Nat /\ w \in 0 .. Jiffy - 1 /\ c = Jiffy * r + w
  BY Floor, Constants
<1> HIDE DEF p, u, r, w
<1>3. Jiffy * p = p * Jiffy /\ Jiffy * r = r * Jiffy /\ p * Jiffy \in Nat /\ r * Jiffy \in Nat
      /\ (r + 1) * Jiffy = r * Jiffy + Jiffy
  BY <1>1, <1>2, Constants
<1>4. ASSUME p >= r + 1 PROVE FALSE
  <2>1. (r + 1) * Jiffy <= p * Jiffy
    BY <1>1, <1>2, <1>4, Increase, Constants
  <2> QED BY <1>1, <1>2, <1>3, <2>1, Constants
<1>5. ASSUME p = r, a + Jiffy <= c PROVE FALSE
  BY <1>1, <1>2, <1>3, <1>5, Constants
<1>6. r <= r * Jiffy
  <2>0. Jiffy - 1 \in Nat /\ Jiffy = 1 + (Jiffy - 1)
    BY Constants
  <2>1. PICK d \in Nat : Jiffy = 1 + d
    BY <2>0
  <2>2. r * Jiffy = r + r * d /\ r * d \in Nat
    BY <1>2, <2>1
  <2> QED BY <1>2, <2>2
<1>7. r <= c
  BY <1>2, <1>3, <1>6, Constants
<1> QED BY <1>1, <1>2, <1>4, <1>5, <1>7 DEF p, r

\* What is lost to rounding, of stamps x <= y <= z that are u, v and w after their jiffies.
LEMMA Rounding ==
  ASSUME NEW J \in Nat \ {0}, NEW A \in Nat, NEW B \in Nat, A <= B, B >= 1,
         NEW u \in 0 .. J - 1, NEW v \in 0 .. J - 1, NEW w \in 0 .. J - 1,
         NEW D \in Int, D = J * B + (w - u), NEW E \in Int, E = J * A + (v - u)
  PROVE  A * D - E * B < J * B /\ E * B - A * D < J * B
<1> DEFINE C == B - A
<1>1. C \in Nat /\ B = A + C
  OBVIOUS
<1>2. A * w \in Nat /\ C * u \in Nat /\ B * v \in Nat /\ B * (J - 1) \in Nat
      /\ A * (J - 1) \in Nat /\ C * (J - 1) \in Nat
  BY <1>1
<1>3. A * w <= A * (J - 1) /\ C * u <= C * (J - 1) /\ B * v <= B * (J - 1)
  <2>1. w * A <= (J - 1) * A /\ u * C <= (J - 1) * C /\ v * B <= (J - 1) * B
    BY <1>1, Increase
  <2>2. w * A = A * w /\ (J - 1) * A = A * (J - 1) /\ u * C = C * u
    BY <1>1
  <2>3. (J - 1) * C = C * (J - 1) /\ v * B = B * v /\ (J - 1) * B = B * (J - 1)
    BY <1>1
  <2> HIDE DEF C
  <2> QED BY <2>1, <2>2, <2>3
<1>4. A * D - E * B = A * w + C * u - B * v
  <2>1. A * D = A * (J * B) + A * w - A * u
    OBVIOUS
  <2>2. E * B = A * (J * B) + B * v - B * u
    OBVIOUS
  <2>3. C * u = B * u - A * u
    OBVIOUS
  <2>4. A * (J * B) \in Int /\ B * u \in Int /\ A * u \in Int
    OBVIOUS
  <2> HIDE DEF C
  <2> QED BY <1>2, <2>1, <2>2, <2>3, <2>4
<1>5. A * (J - 1) + C * (J - 1) = B * (J - 1) /\ B * (J - 1) = J * B - B /\ J * B \in Nat
  OBVIOUS
<1>6. A * D \in Int /\ E * B \in Int
  OBVIOUS
<1> HIDE DEF C
<1> QED BY <1>2, <1>3, <1>4, <1>5, <1>6

\* A PPS line with a time: its own, a stamp, and its place in the log.
LEMMA PerfectRow ==
  ASSUME TypeOK, LogInv, TableInv, PerfectIsTrue, phase \in {"interpolate", "done"},
         NEW k \in Rows, rowType[k] = "PERFECT_TIMESTAMP"
  PROVE  /\ gpsTimestamp[k] \in Nat /\ gpsTimestamp[k] * Second = lines[k].at
         /\ gpsTimestamp[k] < Wrap
         /\ lines[k].pps /\ Event(lines[k])
         /\ lines[k].jif = lines[k].clock \div Jiffy
<1>1. gpsTimestamp[k] \in Nat /\ RowType(lines[k]) = "VALID_PPS"
  BY RowTypes, RowKinds DEF TableInv
<1>2. gpsTimestamp[k] * Second = lines[k].at
  BY DEF PerfectIsTrue, Perfect
<1>3. ~Sentence(lines[k]) /\ lines[k].pps
  BY <1>1, RowTypes, RowKinds
<1>4. lines[k].good
  BY <1>3 DEF TableInv, NoStamp, Sentence
<1>5. lines[k].jif = lines[k].clock \div Jiffy
  BY <1>3, <1>4 DEF LogInv, LinesStamped, Stamps
<1>6. gpsTimestamp[k] <= gpsTimestamp[k] * Second /\ lines[k].at <= LogEnd /\ lines[k].at \in Nat
  BY <1>1, NoMore, RowTypes, Constants
<1>7. gpsTimestamp[k] < Wrap
  BY <1>1, <1>2, <1>6, Constants
<1> QED BY <1>1, <1>2, <1>3, <1>5, <1>7 DEF Event

\* Two matches are whole seconds apart.
LEMMA MatchesApart ==
  ASSUME TypeOK, LogInv, TableInv, PerfectIsTrue, phase \in {"interpolate", "done"},
         NEW i \in Rows, NEW k \in Rows, i < k,
         rowType[i] = "PERFECT_TIMESTAMP", rowType[k] = "PERFECT_TIMESTAMP"
  PROVE  /\ lines[i].at + Second <= lines[k].at
         /\ Minus(gpsTimestamp[k], gpsTimestamp[i]) = gpsTimestamp[k] - gpsTimestamp[i]
         /\ gpsTimestamp[k] - gpsTimestamp[i] \in Nat
<1> DEFINE a == gpsTimestamp[i]
           b == gpsTimestamp[k]
<1>1. a \in Nat /\ a * Second = lines[i].at /\ Event(lines[i])
  BY PerfectRow
<1>2. b \in Nat /\ b < Wrap /\ b * Second = lines[k].at /\ Event(lines[k])
  BY PerfectRow
<1>3. lines[i].at < lines[k].at
  BY <1>1, <1>2 DEF LogInv, EventsInOrder
<1> HIDE DEF a, b
<1>4. a * Second + 0 < b * Second + 0 /\ 0 \in 0 .. Second - 1 /\ 0 >= 0
  BY <1>1, <1>2, <1>3, Constants
<1>5. a < b
  BY <1>1, <1>2, <1>4, Before
<1>6. b - a \in Nat /\ b - a < Wrap
  BY <1>1, <1>2, <1>5, Constants
<1>7. (b - a) % Wrap = b - a
  BY <1>6, Small
<1>8. (a + 1) * Second <= b * Second /\ (a + 1) * Second = a * Second + Second
  BY <1>1, <1>2, <1>5, Increase, Constants
<1>9. lines[i].at + Second <= lines[k].at
  BY <1>1, <1>2, <1>8
<1> QED BY <1>6, <1>7, <1>9 DEF a, b, Minus

\* The difference of the jiffies of two stamps, in the unsigned arithmetic of numpy.
LEMMA OffsetOfStamps ==
  ASSUME TypeOK, NEW i \in Rows, NEW k \in Rows, NEW pair, pair[1] = i,
         lines[i].clock <= lines[k].clock,
         lines[i].jif = lines[i].clock \div Jiffy, lines[k].jif = lines[k].clock \div Jiffy
  PROVE  /\ Offset(k, pair) = lines[k].jif - lines[i].jif
         /\ lines[i].jif <= lines[k].jif
         /\ lines[i].clock + Jiffy <= lines[k].clock => lines[i].jif < lines[k].jif
<1> DEFINE x == lines[i].clock
           y == lines[k].clock
<1>1. x \in Nat /\ y \in Nat /\ x <= y /\ y <= LogEnd
  BY RowTypes, Constants
<1>2. lines[i].jif = x \div Jiffy /\ lines[k].jif = y \div Jiffy
  OBVIOUS
<1> HIDE DEF x, y
<1>3. /\ lines[i].jif \in Nat /\ lines[k].jif \in Nat
      /\ lines[i].jif <= lines[k].jif /\ lines[k].jif <= y
      /\ x + Jiffy <= y => lines[i].jif < lines[k].jif
  BY <1>1, <1>2, JiffiesGrow
<1>4. lines[k].jif - lines[i].jif \in Nat /\ lines[k].jif - lines[i].jif < Wrap
  BY <1>1, <1>3, Constants
<1>5. Offset(k, pair) = lines[k].jif - lines[i].jif
  BY <1>4, Small DEF Offset, Minus
<1> QED BY <1>3, <1>5 DEF x, y

LEMMA RowWithJiffies ==
  ASSUME TypeOK, LogInv, TableInv, phase \in {"interpolate", "done"},
         NEW row \in Rows, HasJiffies(row), ~lines[row].torn
  PROVE  lines[row].jif = lines[row].clock \div Jiffy
<1>1. RowType(lines[row]) \in {"VALID_JAGMT", "VALID_PPS"}
  BY RowTypes, RowKinds DEF TableInv, HasJiffies
<1>2. ~Sentence(lines[row]) /\ (lines[row].good \/ lines[row].pps)
  BY <1>1, RowTypes, RowKinds
<1>3. lines[row].good
  BY <1>2 DEF TableInv, NoStamp, Sentence
<1> QED BY <1>2, <1>3 DEF LogInv, LinesStamped, Stamps

AccurateBetween(row, pair) ==
  LET calc  == Interpolated(row, pair)
      true  == lines[row].at - calc.sec * Second
      error == Jiffy + Lost(pair[1], pair[2])
  IN  /\ calc.num * Second - true * calc.den < error * calc.den
      /\ true * calc.den - calc.num * Second < error * calc.den

\* What the clock shows of two lines of one boot.
LEMMA ClockBetween ==
  ASSUME ClockSlow, NEW i \in Rows, NEW k \in Rows, lines[i].boot = lines[k].boot,
         lines[i].at <= lines[k].at
  PROVE  /\ lines[i].clock <= lines[k].clock
         /\ lines[k].clock - lines[i].clock <= lines[k].at - lines[i].at
<1> DEFINE m == Moment(lines[i], lines[i].boot)
           n == Moment(lines[k], lines[k].boot)
<1>1. m \in Moments /\ n \in Moments
  BY DEF Moments
<1>2. Slow(m, n)
  BY <1>1 DEF ClockSlow
<1> QED BY <1>2 DEF Slow, Moment

\* What is lost adds to what rounding costs: the clock counts M of the D units between two
\* matches, and F of the E units from the first of them to a line between.
LEMMA LossAdds ==
  ASSUME NEW J \in Nat \ {0}, NEW A \in Nat, NEW B \in Nat, A <= B,
         NEW D \in Int, NEW E \in Int, NEW M \in Int, NEW F \in Int,
         F <= E, E - F <= D - M,
         A * M - F * B < J * B, F * B - A * M < J * B
  PROVE  /\ A * D - E * B < (J + (D - M)) * B
         /\ E * B - A * D < (J + (D - M)) * B
<1> DEFINE L == D - M
           l == E - F
<1>1. L \in Nat /\ l \in Nat /\ l <= L /\ D = M + L /\ E = F + l
  OBVIOUS
<1>2. A * L <= B * L /\ l * B <= L * B /\ 0 <= A * L /\ 0 <= l * B
  <2> HIDE DEF L, l
  <2> QED BY <1>1, Increase
<1>3. A * D = A * M + A * L /\ E * B = F * B + l * B /\ (J + L) * B = J * B + L * B
      /\ B * L = L * B
  <2> HIDE DEF L, l
  <2>1. A * (M + L) = A * M + A * L /\ (F + l) * B = F * B + l * B
    BY <1>1
  <2>2. (J + L) * B = J * B + L * B /\ B * L = L * B
    BY <1>1
  <2> QED BY <1>1, <2>1, <2>2
<1>4. /\ A * L \in Int /\ l * B \in Int /\ L * B \in Int /\ B * L \in Int
      /\ A * M \in Int /\ F * B \in Int /\ J * B \in Int
  OBVIOUS
<1> DEFINE AD == A * D
           EB == E * B
           AM == A * M
           FB == F * B
           AL == A * L
           lB == l * B
           LB == L * B
           BL == B * L
           JB == J * B
           R == (J + L) * B
<1>5. AD = AM + AL /\ EB = FB + lB /\ R = JB + LB /\ BL = LB
  BY <1>3
<1>6. AL <= BL /\ lB <= LB /\ 0 <= AL /\ 0 <= lB
  BY <1>2
<1>7. AM - FB < JB /\ FB - AM < JB
  OBVIOUS
<1>8. /\ AL \in Int /\ lB \in Int /\ LB \in Int /\ BL \in Int
      /\ AM \in Int /\ FB \in Int /\ JB \in Int
  BY <1>4
<1> HIDE DEF AD, EB, AM, FB, AL, lB, LB, BL, JB, R
<1>9. AD - EB < R /\ EB - AD < R
  BY <1>5, <1>6, <1>7, <1>8
<1> QED BY <1>9 DEF AD, EB, R, L

LEMMA InterpolationAccurate ==
  ASSUME TypeOK, LogInv, TableInv, PerfectIsTrue, phase \in {"interpolate", "done"},
         NEW pair \in Neighbours("PERFECT_TIMESTAMP"), Offset(pair[2], pair) # 0,
         NEW row \in Rows, row \in pair[1] .. pair[2] - 1, HasJiffies(row), ~lines[row].torn,
         lines[row].boot = lines[pair[1]].boot, lines[row].boot = lines[pair[2]].boot,
         lines[row].at >= lines[pair[1]].at
  PROVE  AccurateBetween(row, pair)
<1>1. PICK i \in Rows, k \in Rows :
        /\ i = pair[1] /\ k = pair[2] /\ i < k
        /\ rowType[i] = "PERFECT_TIMESTAMP" /\ rowType[k] = "PERFECT_TIMESTAMP"
  BY DEF Neighbours
<1>2. row < k /\ lines[k].boot = lines[i].boot /\ lines[row].boot = lines[i].boot
  <2>1. row < k
    BY <1>1 DEF Rows
  <2>2. lines[row].boot = lines[i].boot /\ lines[row].boot = lines[k].boot
    BY <1>1
  <2> QED BY <2>1, <2>2
<1> DEFINE a == gpsTimestamp[i]
           b == gpsTimestamp[k]
           x == lines[i].clock
           y == lines[row].clock
           z == lines[k].clock
           A == lines[row].jif - lines[i].jif
           B == lines[k].jif - lines[i].jif
<1>3. a \in Nat /\ a * Second = lines[i].at /\ lines[i].jif = x \div Jiffy
  BY <1>1, PerfectRow
<1>4. b \in Nat /\ b * Second = lines[k].at /\ Event(lines[k]) /\ lines[k].jif = z \div Jiffy
  BY <1>1, PerfectRow
<1>5. lines[row].jif = y \div Jiffy
  BY RowWithJiffies
<1>6. lines[row].at <= lines[k].at
  BY <1>1, <1>2, <1>4 DEF LogInv, EventsInOrder
<1>7. lines[i].at + Second <= lines[k].at /\ Minus(b, a) = b - a /\ b - a \in Nat
  BY <1>1, MatchesApart
<1>8. /\ lines[i].at \in Nat /\ lines[row].at \in Nat /\ lines[k].at \in Nat
      /\ x \in Nat /\ y \in Nat /\ z \in Nat
      /\ lines[i].jif \in Nat /\ lines[row].jif \in Nat /\ lines[k].jif \in Nat
  BY RowTypes
<1>9. lines[i].at <= lines[row].at /\ lines[i].at <= lines[k].at
  BY <1>1, <1>7, <1>8, Constants
<1>10. /\ x <= y /\ y - x <= lines[row].at - lines[i].at
       /\ y <= z /\ z - y <= lines[k].at - lines[row].at
       /\ x <= z
  <2>1. x <= y /\ y - x <= lines[row].at - lines[i].at
    BY <1>2, <1>9, ClockBetween DEF LogInv
  <2>2. y <= z /\ z - y <= lines[k].at - lines[row].at
    BY <1>2, <1>6, ClockBetween DEF LogInv
  <2> QED BY <1>8, <2>1, <2>2
<1>11. Offset(row, pair) = A /\ lines[i].jif <= lines[row].jif
  BY <1>1, <1>3, <1>5, <1>10, OffsetOfStamps
<1>12. Offset(k, pair) = B /\ lines[i].jif <= lines[k].jif
  BY <1>1, <1>3, <1>4, <1>10, OffsetOfStamps
<1>13. lines[row].jif <= lines[k].jif
  <2> HIDE DEF x, y, z
  <2> QED BY <1>4, <1>5, <1>8, <1>10, JiffiesGrow
<1>14. A \in Nat /\ B \in Nat /\ A <= B /\ B >= 1
  BY <1>1, <1>8, <1>11, <1>12, <1>13
<1> DEFINE u == x % Jiffy
           v == y % Jiffy
           w == z % Jiffy
           D == lines[k].at - lines[i].at
           E == lines[row].at - lines[i].at
           M == z - x
           F == y - x
<1>15. /\ u \in 0 .. Jiffy - 1 /\ v \in 0 .. Jiffy - 1 /\ w \in 0 .. Jiffy - 1
       /\ x = Jiffy * lines[i].jif + u /\ y = Jiffy * lines[row].jif + v
       /\ z = Jiffy * lines[k].jif + w
  <2> HIDE DEF x, y, z
  <2> QED BY <1>3, <1>4, <1>5, <1>8, Floor, Constants
<1>16. D \in Int /\ E \in Int /\ M \in Int /\ F \in Int /\ F <= E /\ E - F <= D - M
  <2> HIDE DEF x, y, z
  <2> QED BY <1>8, <1>10
<1>17. /\ Jiffy * B = Jiffy * lines[k].jif - Jiffy * lines[i].jif
       /\ Jiffy * A = Jiffy * lines[row].jif - Jiffy * lines[i].jif
       /\ Jiffy * lines[i].jif \in Nat /\ Jiffy * lines[row].jif \in Nat /\ Jiffy * lines[k].jif \in Nat
  BY <1>8, Constants
<1>18. M = Jiffy * B + (w - u) /\ F = Jiffy * A + (v - u)
  <2> DEFINE p == Jiffy * lines[i].jif
             q == Jiffy * lines[row].jif
             r == Jiffy * lines[k].jif
             JA == Jiffy * A
             JB == Jiffy * B
  <2>1. x = p + u /\ y = q + v /\ z = r + w /\ p \in Nat /\ q \in Nat /\ r \in Nat
    BY <1>15, <1>17
  <2>2. JB = r - p /\ JA = q - p
    BY <1>17
  <2>3. u \in Int /\ v \in Int /\ w \in Int
    BY <1>15, Constants
  <2>4. M = z - x /\ F = y - x
    OBVIOUS
  <2> HIDE DEF u, v, w, x, y, z, A, B, M, F, p, q, r, JA, JB
  <2>5. M = JB + (w - u) /\ F = JA + (v - u)
    BY <2>1, <2>2, <2>3, <2>4
  <2> QED BY <2>5 DEF JA, JB
<1>19. A * M - F * B < Jiffy * B /\ F * B - A * M < Jiffy * B
  <2> HIDE DEF u, v, w, x, y, z, A, B, M, F
  <2> QED BY <1>14, <1>15, <1>16, <1>18, Rounding, Constants
<1>20. A * D - E * B < (Jiffy + (D - M)) * B /\ E * B - A * D < (Jiffy + (D - M)) * B
  <2> HIDE DEF x, y, z, A, B, D, E, M, F
  <2> QED BY <1>14, <1>16, <1>19, LossAdds, Constants
<1>21. (A * (b - a)) * Second = A * D
  <2>1. (b - a) * Second = D
    <3>1. (b - a) * Second = b * Second - a * Second
      BY <1>3, <1>4, Constants
    <3> HIDE DEF a, b
    <3> QED BY <1>3, <1>4, <3>1
  <2> HIDE DEF a, b, A, D
  <2>2. (A * (b - a)) * Second = A * ((b - a) * Second)
    BY <1>3, <1>4, <1>14, Constants
  <2> QED BY <2>1, <2>2
<1>22. LET calc == Interpolated(row, pair)
       IN  calc.sec * Second = lines[i].at /\ calc.num = A * (b - a) /\ calc.den = B
  <2>1. Minus(gpsTimestamp[pair[2]], gpsTimestamp[pair[1]]) = b - a
    BY <1>1, <1>7
  <2>2. gpsTimestamp[pair[1]] * Second = lines[i].at
    BY <1>1, <1>3
  <2>3. Offset(row, pair) = A /\ Offset(pair[2], pair) = B
    BY <1>1, <1>11, <1>12
  <2> HIDE DEF a, b, A, B
  <2> QED BY <2>1, <2>2, <2>3 DEF Interpolated
<1>23. Jiffy + Lost(pair[1], pair[2]) = Jiffy + (D - M)
  BY <1>1 DEF Lost
<1> HIDE DEF a, b, A, B, D, M
<1>24. lines[row].at - Interpolated(row, pair).sec * Second = E
  BY <1>22
<1> QED BY <1>20, <1>21, <1>22, <1>23, <1>24 DEF AccurateBetween

LEMMA AroundOnce ==
  ASSUME NEW p \in Neighbours("PERFECT_TIMESTAMP"), NEW q \in Neighbours("PERFECT_TIMESTAMP"),
         NEW row \in Rows, row \in p[1] .. p[2] - 1, row \in q[1] .. q[2] - 1
  PROVE  p = q
<1> DEFINE rows == {i \in Rows : rowType[i] = "PERFECT_TIMESTAMP"}
<1>1. /\ p \in rows \X rows /\ p[1] < p[2]
      /\ \A m \in rows : ~(p[1] < m /\ m < p[2])
  BY DEF Neighbours
<1>2. /\ q \in rows \X rows /\ q[1] < q[2]
      /\ \A m \in rows : ~(q[1] < m /\ m < q[2])
  BY DEF Neighbours
<1>3. rows \subseteq Int
  BY DEF Rows
<1> HIDE DEF rows
<1>4. p[1] \in rows /\ p[2] \in rows /\ q[1] \in rows /\ q[2] \in rows
  BY <1>1, <1>2
<1>5. p[1] \in Int /\ p[2] \in Int /\ q[1] \in Int /\ q[2] \in Int /\ row \in Int
  <2>1. row \in Int
    BY DEF Rows
  <2> QED BY <1>3, <1>4, <2>1
<1>6. p[1] <= row /\ row < p[2] /\ q[1] <= row /\ row < q[2]
  BY <1>5
<1>7. ~(p[1] < q[1]) /\ ~(q[2] < p[2])
  BY <1>1, <1>4, <1>5, <1>6
<1>8. ~(q[1] < p[1]) /\ ~(p[2] < q[2])
  BY <1>2, <1>4, <1>5, <1>6
<1>9. p[1] = q[1] /\ p[2] = q[2]
  BY <1>5, <1>7, <1>8
<1> QED BY <1>1, <1>2, <1>9

\* Two matches of one boot have the same jiffies only if the clock has lost nearly a second.
LEMMA NoOffset ==
  ASSUME TypeOK, LogInv, TableInv, PerfectIsTrue, phase \in {"interpolate", "done"},
         NEW pair \in Neighbours("PERFECT_TIMESTAMP"), Offset(pair[2], pair) = 0
  PROVE  \/ \E i, j \in Rows : lines[i].boot # lines[j].boot
         \/ \E i, j \in Rows : lines[i].pps /\ lines[j].pps /\ Lost(i, j) > Second - Jiffy
<1>1. PICK i \in Rows, k \in Rows :
        /\ i = pair[1] /\ k = pair[2] /\ i < k
        /\ rowType[i] = "PERFECT_TIMESTAMP" /\ rowType[k] = "PERFECT_TIMESTAMP"
  BY DEF Neighbours
<1>2. SUFFICES ASSUME lines[i].boot = lines[k].boot
               PROVE  lines[i].pps /\ lines[k].pps /\ Lost(i, k) > Second - Jiffy
  OBVIOUS
<1>3. lines[i].at + Second <= lines[k].at
  BY <1>1, MatchesApart
<1>4. /\ lines[i].at \in Nat /\ lines[k].at \in Nat /\ lines[i].jif \in Nat /\ lines[k].jif \in Nat
      /\ lines[i].clock \in Nat /\ lines[k].clock \in Nat
  BY RowTypes
<1>5. lines[i].clock <= lines[k].clock
  BY <1>2, <1>3, <1>4, ClockBetween, Constants DEF LogInv
<1>6. /\ lines[i].pps /\ lines[i].jif = lines[i].clock \div Jiffy
      /\ lines[k].pps /\ lines[k].jif = lines[k].clock \div Jiffy
  BY <1>1, PerfectRow
<1>7. /\ Offset(k, pair) = lines[k].jif - lines[i].jif
      /\ lines[i].clock + Jiffy <= lines[k].clock => lines[i].jif < lines[k].jif
  BY <1>1, <1>5, <1>6, OffsetOfStamps
<1>8. lines[k].clock < lines[i].clock + Jiffy
  BY <1>1, <1>4, <1>7, Constants
<1> QED BY <1>3, <1>4, <1>6, <1>8, Constants DEF Lost

LEMMA InterpolateStep ==
  ASSUME TypeOK, LogInv, MatchInv, Interpolate
  PROVE  MatchInv' /\ AbortsOnlyOn' /\ AccurateButForLost'
<1> DEFINE pairs == Neighbours("PERFECT_TIMESTAMP")
           Around(row) == {pair \in pairs : row \in pair[1] .. pair[2] - 1}
<1>1. phase = "interpolate" /\ UNCHANGED <<logger, lines, rowType, gpsTimestamp>>
  BY DEF Interpolate
<1>2. Rows' = Rows /\ pairs' = pairs
  BY <1>1 DEF Rows, Neighbours
<1>3. phase' \in {"done", "aborted"}
  BY DEF Interpolate
<1>4. MatchInv'
  BY <1>1, <1>3, MatchKept
<1>5. CASE \E pair \in pairs : Offset(pair[2], pair) = 0
  <2>1. phase' = "aborted"
    BY <1>5 DEF Interpolate
  <2>2. \/ \E i, j \in Rows : lines[i].boot # lines[j].boot
        \/ \E i, j \in Rows : lines[i].pps /\ lines[j].pps /\ Lost(i, j) > Second - Jiffy
    BY <1>1, <1>5, NoOffset DEF MatchInv
  <2> QED BY <1>1, <1>2, <1>4, <2>1, <2>2 DEF AbortsOnlyOn, AccurateButForLost, Lost
<1>6. CASE ~\E pair \in pairs : Offset(pair[2], pair) = 0
  <2>1. /\ phase' = "done"
        /\ calcTimestamp' = [row \in Rows |->
             IF HasJiffies(row) /\ Around(row) # {}
               THEN Interpolated(row, CHOOSE pair \in Around(row) : TRUE) ELSE None]
    BY <1>6 DEF Interpolate
  <2>2. ASSUME NEW row \in Rows, NEW pair \in pairs, row \in pair[1] .. pair[2] - 1,
               calcTimestamp'[row] # None
        PROVE  HasJiffies(row) /\ calcTimestamp'[row] = Interpolated(row, pair)
    <3>1. HasJiffies(row) /\ Around(row) # {}
          /\ calcTimestamp'[row] = Interpolated(row, CHOOSE p \in Around(row) : TRUE)
      BY <2>1, <2>2
    <3>2. pair \in Around(row)
      BY <2>2
    <3>3. (CHOOSE p \in Around(row) : TRUE) \in Around(row)
      BY <3>2
    <3>4. \A p \in Around(row) : p = pair
      BY <2>2, AroundOnce
    <3> QED BY <3>1, <3>3, <3>4
  <2> HIDE DEF Around
  <2>3. ASSUME NEW row \in Rows, NEW pair \in pairs,
               row \in pair[1] .. pair[2] - 1, calcTimestamp'[row] # None, ~lines[row].torn,
               lines[row].boot = lines[pair[1]].boot, lines[row].boot = lines[pair[2]].boot,
               lines[row].at >= lines[pair[1]].at
        PROVE  LET calc  == calcTimestamp'[row]
                   true  == lines[row].at - calc.sec * Second
                   error == Jiffy + Lost(pair[1], pair[2])
               IN  /\ calc.num * Second - true * calc.den < error * calc.den
                   /\ true * calc.den - calc.num * Second < error * calc.den
    <3>1. HasJiffies(row) /\ calcTimestamp'[row] = Interpolated(row, pair)
      BY <2>2, <2>3
    <3>2. AccurateBetween(row, pair)
      BY <1>1, <1>6, <2>3, <3>1, InterpolationAccurate DEF MatchInv
    <3> QED BY <3>1, <3>2 DEF AccurateBetween
  <2>4. AccurateButForLost'
    <3> HIDE DEF pairs
    <3>1. ASSUME NEW row \in Rows', NEW pair \in pairs'
          PROVE  LET calc  == calcTimestamp'[row]
                     true  == lines'[row].at - calc.sec * Second
                     error == Jiffy + Lost(pair[1], pair[2])'
                 IN  /\ row \in pair[1] .. pair[2] - 1 /\ calc # None /\ ~lines'[row].torn
                     /\ lines'[row].boot = lines'[pair[1]].boot
                     /\ lines'[row].boot = lines'[pair[2]].boot
                     /\ lines'[row].at >= lines'[pair[1]].at
                     => /\ calc.num * Second - true * calc.den < error * calc.den
                        /\ true * calc.den - calc.num * Second < error * calc.den
      BY <1>1, <1>2, <2>3, <3>1 DEF Lost
    <3> QED BY <3>1 DEF AccurateButForLost, pairs
  <2>5. AbortsOnlyOn'
    BY <2>1 DEF AbortsOnlyOn
  <2> QED BY <1>4, <2>4, <2>5
<1> QED BY <1>5, <1>6

-----------------------------------------------------------------------------
LEMMA InitIInv == Init => IInv
<1> SUFFICES ASSUME Init PROVE IInv
  OBVIOUS
<1>1. Rows = {}
  BY DEF Init, Rows
<1>2. TypeOK
  <2>1. lines \in Seq(LineSet(time))
    BY DEF Init
  <2>2. time \in 0 .. LogEnd /\ boot \in 0 .. time /\ clock \in 0 .. time
    BY Constants DEF Init
  <2>3. samples \in 0 .. MaxSamples /\ faults \in 0 .. MaxFaults
    BY TimestampsAssumption DEF Init
  <2>4. due \in BOOLEAN /\ rmc \in BOOLEAN
    BY DEF Init
  <2> QED BY <2>1, <2>2, <2>3, <2>4 DEF Init, TypeOK, LineSet
<1>3. 0 % Second = 0
  BY Floor, Constants
<1>4. ClockSlow
  <2>1. \A m \in Moments : m.at = 0 /\ m.boot = 0 /\ m.clock = 0
    BY <1>1 DEF Init, Moments, Moment, Now
  <2> QED BY <2>1 DEF Init, ClockSlow, Slow
<1>5. LogInv
  BY <1>1, <1>3, <1>4 DEF Init, LogInv, LinesStamped, EventsInOrder, StillToCome, LoadedStamp
<1>6. MatchInv /\ AccurateButForLost /\ AbortsOnlyOn
  BY <1>1 DEF Init, MatchInv, TableInv, PerfectIsTrue, AllMatched, Perfect, AccurateButForLost,
              AbortsOnlyOn
<1> QED BY <1>2, <1>5, <1>6 DEF IInv

LEMMA NextIInv == IInv /\ [Next]_vars => IInv'
<1> SUFFICES ASSUME IInv, [Next]_vars PROVE IInv'
  OBVIOUS
<1> USE DEF IInv
<1>1. CASE Next
  <2>1. TypeOK' /\ LogInv'
    BY <1>1, TypeStep, LogStep
  <2>2. CASE Classify
    BY <2>1, <2>2, ClassifyStep
  <2>3. CASE Match
    <3>1. phase' = "interpolate"
      BY <2>3 DEF Match
    <3> QED BY <2>1, <2>3, <3>1, MatchStep DEF MatchInv, AccurateButForLost, AbortsOnlyOn
  <2>4. CASE Interpolate
    BY <2>1, <2>4, InterpolateStep
  <2>5. CASE phase' = "log"
    BY <2>1, <2>5 DEF MatchInv, TableInv, PerfectIsTrue, AllMatched, Perfect, AccurateButForLost,
                      AbortsOnlyOn
  <2>6. Tick \/ Pps \/ PpsInSample \/ PpsLost \/ PpsDamaged \/ Gprmc \/ Load \/ Sample \/ Reset
          => phase' = "log"
    BY DEF Tick, Pps, PpsInSample, PpsLost, PpsDamaged, Gprmc, Load, Sample, Reset, Edge, Put
  <2> QED BY <1>1, <2>2, <2>3, <2>4, <2>5, <2>6 DEF Next
<1>2. CASE UNCHANGED vars
  <2>1. UNCHANGED <<time, boot, clock, due, rmc, loaded, samples, faults, lines, phase>>
        /\ UNCHANGED <<rowType, gpsTimestamp, calcTimestamp>>
    BY <1>2 DEF vars, logger, table
  <2>2. TypeOK'
    BY <2>1 DEF TypeOK
  <2>3. LogInv'
    <3>1. ClockSlow'
      BY <2>1 DEF LogInv, ClockSlow, Slow, Moments, Moment, Now, Jiffies, Rows
    <3> QED BY <2>1, <3>1 DEF LogInv, LinesStamped, Stamps, EventsInOrder, StillToCome,
                              LoadedStamp, Event, Sentence, Rows
  <2>4. MatchInv'
    BY <2>1, MatchKept
  <2>5. AccurateButForLost' /\ AbortsOnlyOn'
    <3>1. Rows' = Rows
      BY <2>1 DEF Rows
    <3>2. Neighbours("PERFECT_TIMESTAMP")' = Neighbours("PERFECT_TIMESTAMP")
      BY <2>1, <3>1 DEF Neighbours
    <3>3. AccurateButForLost'
      BY <2>1, <3>1, <3>2 DEF AccurateButForLost, Lost
    <3>4. AbortsOnlyOn'
      BY <2>1, <3>1 DEF AbortsOnlyOn, Lost
    <3> QED BY <3>3, <3>4
  <2> QED BY <2>2, <2>3, <2>4, <2>5
<1> QED BY <1>1, <1>2 DEF Next

\* Every reachable state is well typed.
THEOREM TypeCorrect == Spec => []TypeOK
<1>1. IInv => TypeOK
  BY DEF IInv
<1> QED BY InitIInv, NextIInv, <1>1, PTL DEF Spec

\* A sentence or a PPS line comes behind everything older, and its second can be told
\* from what it says: what the backtracking from the sentence to the PPS line relies on
\* (main.py:24-28).
THEOREM LogKeepsOrder == Spec => [](EventsInOrder /\ LinesStamped)
<1>1. IInv => EventsInOrder /\ LinesStamped
  BY DEF IInv, LogInv
<1> QED BY InitIInv, NextIInv, <1>1, PTL DEF Spec

\* Whatever lines are missing, a PPS line that gets a time gets that of its own edge
\* (main.py:26-28).
THEOREM PerfectTrue == Spec => []PerfectIsTrue
<1>1. IInv => PerfectIsTrue
  BY DEF IInv, MatchInv
<1> QED BY InitIInv, NextIInv, <1>1, PTL DEF Spec

\* A PPS line between the sentences of its own second and of the second before gets
\* its time (main.py:204-212).
THEOREM EveryEdgeMatched == Spec => []AllMatched
<1>1. IInv => AllMatched
  BY DEF IInv, MatchInv
<1> QED BY InitIInv, NextIInv, <1>1, PTL DEF Spec

\* The clock of the log never runs fast, from any stamp to any other: what both of the
\* following rest on.
THEOREM ClockNeverFast == Spec => []ClockSlow
<1>1. IInv => ClockSlow
  BY DEF IInv, LogInv
<1> QED BY InitIInv, NextIInv, <1>1, PTL DEF Spec

\* However much time the clock loses and wherever, the interpolated time of a line is off
\* by less than that and a jiffy (main.py:30-31).
THEOREM Accurate == Spec => []AccurateButForLost
<1>1. IInv => AccurateButForLost
  BY DEF IInv
<1> QED BY InitIInv, NextIInv, <1>1, PTL DEF Spec

\* Nothing stops the script but a PPS line without its stamp, a reset, and a clock that
\* stood still for a second (main.py:34).
THEOREM AbortsOnlyOnReset == Spec => []AbortsOnlyOn
<1>1. IInv => AbortsOnlyOn
  BY DEF IInv
<1> QED BY InitIInv, NextIInv, <1>1, PTL DEF Spec
=============================================================================
