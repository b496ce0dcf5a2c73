------------------------------ MODULE Timestamps ------------------------------
(***************************************************************************)
(* The time stamps of a log (parseDataAndAnalyze/main.py up to its         *)
(* `assert False', which ends it).                                         *)
(*                                                                         *)
(* First a log comes about: at the edge of a second the firmware puts a    *)
(* PPS line with its jiffies, later in the second comes the sentence       *)
(* GPRMC, and main puts JAGMT lines, whose stamp it loads before.  Lines   *)
(* are lost or damaged, a reset starts jiffies over, and what module       *)
(* Clocks shows of jiffies happens: they lose time while the timer's       *)
(* handler is kept waiting, and main's stamp may be ahead of them.  Then   *)
(* the script classifies the lines, matches PPS lines with the time of the *)
(* sentences, and interpolates between the matches.                        *)
(*                                                                         *)
(* Time is counted in units that divide the second and the jiffy.          *)
(***************************************************************************)
EXTENDS Integers, Sequences

CONSTANTS
  Second, Jiffy, \* their lengths; a jiffy is about 10 ms
  Delay,         \* from the edge of a second to its sentence
  Wrap,          \* 2^32, the modulus of numpy's uint32
  Ahead,         \* how far a stamp may be ahead that main loads while jiffies carry
  LogEnd,        \* the time at which the log ends
  MaxLost,       \* bound: time the clock loses since a reset
  MaxSamples,    \* bound: JAGMT lines
  MaxFaults      \* bound: faults and resets

ASSUME TimestampsAssumption ==
  /\ Jiffy \in Nat \ {0} /\ Second \in Nat /\ Jiffy <= Second
  /\ Delay \in 1 .. Second - 1
  /\ LogEnd \in Nat /\ Wrap \in Nat /\ LogEnd < Wrap
  /\ Ahead \subseteq Nat /\ MaxLost \in Nat
  /\ MaxSamples \in Nat /\ MaxFaults \in Nat

VARIABLES
  time,    \* true time
  boot,    \* when the logger was last reset
  clock,   \* the time its timer has counted since, at most time - boot
  due,     \* the edge of a second is due
  rmc,     \* the sentence of this second is still to come
  loaded,  \* what main has loaded for a JAGMT line
  samples, faults,
  lines,   \* the log
  phase,   \* of the script
  rowType, gpsTimestamp, calcTimestamp \* df_rowType, df_gpsTimestamp, df_calcTimestamp

logger == <<time, boot, clock, due, rmc, loaded, samples, faults>>
table == <<rowType, gpsTimestamp, calcTimestamp>>
vars == <<logger, lines, phase, table>>

None == [none |-> 0]
Jiffies == clock \div Jiffy
Rows == 1 .. Len(lines)

\* A stamp: its jiffies; then what the script does not know, when it was taken, what the
\* timer had counted then, and whether jiffies carried while it was loaded.
Now == [jif |-> Jiffies, at |-> time, clock |-> clock, torn |-> FALSE]

\* A line: how it begins, whether it has a PPS report in it, whether its numbers parse,
\* the time or the stamp it states; then since when the logger ran.
Line(begins, pps, good, ts, stamp) ==
  [begins |-> begins, pps |-> pps, good |-> good, ts |-> ts,
   jif |-> IF good /\ begins # "$GPRMC" THEN stamp.jif ELSE 0,
   at |-> stamp.at, clock |-> stamp.clock, torn |-> stamp.torn, boot |-> boot]

TypeOK ==
  /\ time \in 0 .. LogEnd /\ boot \in 0 .. time /\ clock \in 0 .. time
  /\ due \in BOOLEAN /\ rmc \in BOOLEAN
  /\ loaded = None \/ loaded \in [jif : Nat, at : 0 .. time, clock : 0 .. time, torn : BOOLEAN]
  /\ samples \in 0 .. MaxSamples /\ faults \in 0 .. MaxFaults
  /\ lines \in Seq([begins : {"$GPRMC", "JAGMT", "other"}, pps : BOOLEAN, good : BOOLEAN,
                    ts : Nat, jif : Nat, at : 0 .. time, clock : 0 .. time,
                    torn : BOOLEAN, boot : 0 .. time])
  /\ phase \in {"log", "match", "interpolate", "done", "aborted"}

Init ==
  /\ time = 0 /\ boot = 0 /\ clock = 0 /\ due = TRUE /\ rmc = FALSE /\ loaded = None
  /\ samples = 0 /\ faults = 0
  /\ lines = << >> /\ phase = "log"
  /\ rowType = << >> /\ gpsTimestamp = << >> /\ calcTimestamp = << >>

-----------------------------------------------------------------------------
(* The log.                                                                *)

Put(line) == lines' = Append(lines, line) /\ UNCHANGED <<time, boot, clock, phase, table>>
Fault == faults < MaxFaults /\ faults' = faults + 1

\* The timer counts on, or a jiffy is due and its handler is kept waiting: it will set the
\* timer back, and what has passed since is lost (system_timer.c:35-38).
Run ==
  \/ clock' = clock + 1
  \/ /\ clock % Jiffy = Jiffy - 1 /\ time - boot - clock < MaxLost
     /\ UNCHANGED clock

\* A stamp loaded by main is put into the log within the next unit of time.  The sentence
\* of a second is lost if it does not come now.
Tick ==
  /\ phase = "log" /\ ~due /\ time < LogEnd
  /\ loaded # None => loaded.at = time
  /\ time' = time + 1
  /\ Run
  /\ due' = (time' % Second = 0)
  /\ IF rmc /\ time % Second = Delay THEN Fault /\ rmc' = FALSE ELSE UNCHANGED <<faults, rmc>>
  /\ UNCHANGED <<boot, loaded, samples, lines, phase, table>>

Edge == phase = "log" /\ due /\ due' = FALSE /\ rmc' = TRUE

Pps ==
  /\ Edge
  /\ Put(Line("other", TRUE, TRUE, 0, Now))
  /\ UNCHANGED <<loaded, samples, faults>>

\* The handler prints into main's line, whose rest then is on a line of its own.
PpsInSample ==
  /\ Edge /\ loaded # None
  /\ Put(Line("JAGMT", TRUE, TRUE, 0, Now))
  /\ loaded' = None
  /\ UNCHANGED <<samples, faults>>

PpsLost ==
  /\ Edge /\ Fault
  /\ UNCHANGED <<time, boot, clock, loaded, samples, lines, phase, table>>

PpsDamaged ==
  /\ Edge /\ Fault
  /\ Put(Line("other", TRUE, FALSE, 0, Now))
  /\ UNCHANGED <<loaded, samples>>

\* "the incoming is always delayed (over a 9600 baud link)" (main.py:24-25)
Gprmc ==
  /\ phase = "log" /\ rmc /\ time % Second = Delay /\ rmc' = FALSE
  /\ \/ Put(Line("$GPRMC", FALSE, TRUE, time \div Second, Now)) /\ UNCHANGED faults
     \/ Put(Line("$GPRMC", FALSE, FALSE, 0, Now)) /\ Fault
  /\ UNCHANGED <<due, loaded, samples>>

\* main loads jiffies for a JAGMT line, in more than one part (main.c:120), and puts the
\* line.
Load ==
  /\ phase = "log" /\ ~due /\ loaded = None /\ samples < MaxSamples
  /\ \/ loaded' = Now /\ UNCHANGED faults
     \/ Fault /\ \E n \in Ahead : loaded' = [Now EXCEPT !.jif = @ + n, !.torn = TRUE]
  /\ samples' = samples + 1
  /\ UNCHANGED <<time, boot, clock, due, rmc, lines, phase, table>>

Sample ==
  /\ phase = "log" /\ ~due /\ loaded # None
  /\ \/ Put(Line("JAGMT", FALSE, TRUE, 0, loaded)) /\ UNCHANGED faults
     \/ Put(Line("JAGMT", FALSE, FALSE, 0, loaded)) /\ Fault
  /\ loaded' = None
  /\ UNCHANGED <<due, rmc, samples>>

Reset ==
  /\ phase = "log" /\ ~due /\ Fault
  /\ boot' = time /\ clock' = 0 /\ loaded' = None
  /\ UNCHANGED <<time, due, rmc, samples, lines, phase, table>>

-----------------------------------------------------------------------------
(* The script.                                                             *)

SampleFirst(line) ==
  CASE line.begins = "$GPRMC" -> IF line.good THEN "VALID_GPRMC" ELSE "CORRUPT"
    [] line.begins = "JAGMT" -> IF line.good /\ ~line.pps THEN "VALID_JAGMT" ELSE "CORRUPT"
    [] line.begins = "other" -> IF line.pps THEN "VALID_PPS" ELSE "UNKNOWN"

\* A PPS report is found wherever it is in a line that is not a sentence.
RowType(line) ==
  CASE line.begins = "$GPRMC" -> IF line.good THEN "VALID_GPRMC" ELSE "CORRUPT"
    [] line.begins # "$GPRMC" /\ line.pps -> "VALID_PPS"
    [] line.begins = "JAGMT" /\ ~line.pps -> IF line.good THEN "VALID_JAGMT" ELSE "CORRUPT"
    [] line.begins = "other" /\ ~line.pps -> "UNKNOWN"

NoNumber(line) == line.begins # "$GPRMC" /\ ~line.good

\* None is no value for an array of integers.  A script that aborts leaves nothing behind.
NoStamp(line) == line.begins # "$GPRMC" /\ line.pps /\ ~line.good

Classify ==
  /\ phase = "log" /\ time = LogEnd
  /\ IF \E i \in Rows : NoStamp(lines[i])
       THEN phase' = "aborted" /\ UNCHANGED table
       ELSE /\ phase' = "match"
            /\ rowType' = [i \in Rows |-> RowType(lines[i])]
            /\ gpsTimestamp' = [i \in Rows |-> lines[i].ts]
            /\ calcTimestamp' = [i \in Rows |-> None]
  /\ UNCHANGED <<logger, lines>>

\* Pairs of rows of a type that have none of that type between them.
Neighbours(type) ==
  LET rows == {i \in Rows : rowType[i] = type}
  IN  {pair \in rows \X rows :
         pair[1] < pair[2] /\ ~\E m \in rows : pair[1] < m /\ m < pair[2]}

\* Subtraction of numpy's unsigned integers.
Minus(a, b) == (a - b) % Wrap

\* Between the sentences of two successive seconds: the first PPS line.
FirstPps(pair) ==
  {k \in pair[1] .. pair[2] - 1 : rowType[k] = "VALID_PPS"
                               /\ \A l \in pair[1] .. k - 1 : rowType[l] # "VALID_PPS"}

MatchesAnyGap ==
  {match \in Rows \X Rows :
     \E pair \in Neighbours("VALID_GPRMC") :
       match[1] \in FirstPps(pair) /\ match[2] = pair[2]}

\* The PPS lines that get a time, each with the row it gets it from.
Matches ==
  {match \in Rows \X Rows :
     \E pair \in Neighbours("VALID_GPRMC") :
       /\ Minus(gpsTimestamp[pair[2]], gpsTimestamp[pair[1]]) = 1
       /\ match[1] \in FirstPps(pair) /\ match[2] = pair[2]}

Match ==
  /\ phase = "match"
  /\ phase' = "interpolate"
  /\ LET Matched(k) == \E n \in Rows : <<k, n>> \in Matches
     IN  /\ rowType' = [k \in Rows |-> IF Matched(k) THEN "PERFECT_TIMESTAMP" ELSE rowType[k]]
         /\ gpsTimestamp' =
              [k \in Rows |-> IF Matched(k)
                                THEN gpsTimestamp[CHOOSE n \in Rows : <<k, n>> \in Matches]
                                ELSE gpsTimestamp[k]]
  /\ UNCHANGED <<logger, lines, calcTimestamp>>

Offset(row, pair) == Minus(lines[row].jif, lines[pair[1]].jif)

InterpolatedFromNext(row, pair) ==
  [sec |-> gpsTimestamp[pair[2]],
   num |-> Offset(row, pair) * Minus(gpsTimestamp[pair[2]], gpsTimestamp[pair[1]]),
   den |-> Offset(pair[2], pair)]

\* df_calcTimestamp[row]: sec + num / den seconds.
Interpolated(row, pair) ==
  [sec |-> gpsTimestamp[pair[1]],
   num |-> Offset(row, pair) * Minus(gpsTimestamp[pair[2]], gpsTimestamp[pair[1]]),
   den |-> Offset(pair[2], pair)]

\* The rows of validJifIdxs, which was made before the matching.
HasJiffies(row) == rowType[row] \in {"VALID_JAGMT", "VALID_PPS", "PERFECT_TIMESTAMP"}

Interpolate ==
  /\ phase = "interpolate"
  /\ LET pairs == Neighbours("PERFECT_TIMESTAMP")
         Around(row) == {pair \in pairs : row \in pair[1] .. pair[2] - 1}
     IN  IF \E pair \in pairs : Offset(pair[2], pair) = 0
           THEN phase' = "aborted" /\ UNCHANGED calcTimestamp
           ELSE /\ phase' = "done"
                /\ calcTimestamp' =
                     [row \in Rows |->
                        IF HasJiffies(row) /\ Around(row) # {}
                          THEN Interpolated(row, CHOOSE pair \in Around(row) : TRUE)
                          ELSE None]
  /\ UNCHANGED <<logger, lines, rowType, gpsTimestamp>>

Next ==
  \/ Tick \/ Pps \/ PpsInSample \/ PpsLost \/ PpsDamaged \/ Gprmc \/ Load \/ Sample \/ Reset
  \/ Classify \/ Match \/ Interpolate

Spec == Init /\ [][Next]_vars

-----------------------------------------------------------------------------
(* Properties.                                                             *)

Perfect(row) == phase \in {"interpolate", "done"} /\ rowType[row] = "PERFECT_TIMESTAMP"

\* "So we have to find the GPS timestamp, and backtrack to the PPS signal"
\* (main.py:26-28): whatever lines are missing, a PPS line that gets a time gets
\* that of its own edge.
PerfectIsTrue == \A row \in Rows : Perfect(row) => gpsTimestamp[row] * Second = lines[row].at

\* Missing lines cost no more than they must: a PPS line between the sentences of
\* its own second and of the second before gets its time (main.py:204-212).
AllMatched ==
  phase \in {"interpolate", "done"} =>
    \A row \in Rows :
      /\ lines[row].pps
      /\ \E i \in 1 .. row, n \in row .. Len(lines) :
           /\ lines[i].begins = "$GPRMC" /\ lines[i].good
           /\ lines[n].begins = "$GPRMC" /\ lines[n].good
           /\ lines[i].ts = lines[n].ts - 1 /\ lines[n].ts * Second = lines[row].at
      => Perfect(row)

\* What the clock lost from the stamp of one line to that of another.
Lost(i, j) == (lines[j].at - lines[i].at) - (lines[j].clock - lines[i].clock)

\* "we can infer the absolute timestamp of each line to approx 11 ms accuracy"
\* (main.py:30-31): not quite.  The time of a line is off by less than a jiffy and what
\* the clock lost between the matches around the line, wherever between them it did.
\* That is if the logger was not reset between the matches, and the line's stamp is not
\* older than the first of them nor loaded while jiffies carried.
AccurateButForLost ==
  phase = "done" =>
    \A row \in Rows : \A pair \in Neighbours("PERFECT_TIMESTAMP") :
      LET calc  == calcTimestamp[row]
          true  == lines[row].at - calc.sec * Second
          error == Jiffy + Lost(pair[1], pair[2])
      IN  /\ row \in pair[1] .. pair[2] - 1 /\ calc # None /\ ~lines[row].torn
          /\ lines[row].boot = lines[pair[1]].boot /\ lines[row].boot = lines[pair[2]].boot
          /\ lines[row].at >= lines[pair[1]].at
          => /\ calc.num * Second - true * calc.den < error * calc.den
             /\ true * calc.den - calc.num * Second < error * calc.den

\* "(... and there might be other missing data ...)" (main.py:34): nothing stops the
\* script but a PPS line without its stamp, a reset, and a clock that stood still from one
\* second to the next, for all of it but less than a jiffy: the stamps are then equal, and
\* the script divides by their difference (main.py:241).
AbortsOnlyOn ==
  phase = "aborted" =>
    \/ \E row \in Rows : lines[row].pps /\ ~lines[row].good
    \/ \E i, j \in Rows : lines[i].boot # lines[j].boot
    \/ \E i, j \in Rows : lines[i].pps /\ lines[j].pps /\ Lost(i, j) > Second - Jiffy
=============================================================================
