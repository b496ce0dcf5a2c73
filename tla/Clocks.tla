------------------------------- MODULE Clocks -------------------------------
(***************************************************************************)
(* The clock of the log and what is stamped with it (firmware/             *)
(* system_timer.c, pps.c, tach.c, and the JAGMT line of main.c).           *)
(*                                                                         *)
(* Timer 0 counts up and raises its flag when it passes its top; the       *)
(* handler sets it back to Reload and increments jiffies.  The flag and    *)
(* the flags of the two pins are single bits, and no handler runs while    *)
(* another one does, so a handler that prints, or writes to the SD card,   *)
(* delays the others.  The unit of time is one count of the timer, 1024    *)
(* processor cycles: an interrupt that nothing delays is taken within it,  *)
(* the vector that comes first in the table first.                         *)
(***************************************************************************)
EXTENDS Integers

CONSTANTS
  Top,       \* counts of the timer (256)
  Reload,    \* where the handler sets it (0xb2)
  Base,      \* main reads jiffies in bytes: the lowest one modulo Base (256), then the rest
  LongestRuns, \* counts a handler may take, at most, to print and to write to the card
  Pulse,       \* counts a pin stays high or low, at least
  MaxTime      \* bound: counts of the timer

ASSUME ClocksAssumption ==
  /\ Top \in Nat /\ Reload \in Nat /\ Reload < Top
  /\ Base \in Nat /\ Base > 1
  /\ LongestRuns \subseteq Nat /\ Pulse \in Nat \ {0} /\ MaxTime \in Nat

VARIABLES
  longest,  \* counts a handler takes at most in this behaviour
  time,     \* counts since system_timer_init
  tcnt,     \* TCNT0
  overflow, \* the timer's interrupt flag
  jiffies,
  tachy,    \* tachy_count
  flag,     \* the interrupt flags of the pins "pps" and "tach"
  level,    \* their levels
  since,    \* counts since their last edge, up to Pulse
  run,      \* counts the running handler still needs, 0 when none runs
  pc,       \* main: "other", "read" between its two loads of jiffies, or "line"
  loaded,   \* the part of jiffies it has loaded, then the stamp of its line
  \* history, read by the properties only
  began,    \* jiffies when main began to read it
  edge,     \* jiffies at the last rising edge of PPS
  unlogged, \* rising edges of PPS that have no line yet
  pulses,   \* rising edges of the tachometer
  stamp,    \* the stamp of the last line
  kind      \* its kind

pins == <<flag, level, since>>
main == <<pc, loaded, began>>
lines == <<stamp, kind>>
vars == <<longest, time, tcnt, overflow, jiffies, tachy, pins, run, main, edge, unlogged, pulses, lines>>

Pins == {"pps", "tach"}

TypeOK ==
  /\ longest \in LongestRuns
  /\ time \in Nat /\ tcnt \in 0 .. Top - 1 /\ overflow \in {0, 1}
  /\ jiffies \in Nat /\ tachy \in Nat
  /\ flag \in [Pins -> {0, 1}] /\ level \in [Pins -> {0, 1}] /\ since \in [Pins -> 0 .. Pulse]
  /\ run \in 0 .. longest
  /\ pc \in {"other", "read", "line"} /\ loaded \in Nat
  /\ began \in Nat /\ edge \in Nat /\ unlogged \in Nat /\ pulses \in Nat
  /\ stamp \in Nat /\ kind \in {"none", "pps", "on", "off", "jagmt"}

\* The value tachy_count starts from.
FirstCount == 21

Init ==
  /\ longest \in LongestRuns
  /\ time = 0 /\ tcnt = Reload /\ overflow = 0
  /\ jiffies = 0 /\ tachy = FirstCount
  /\ flag = [p \in Pins |-> 0] /\ level = [p \in Pins |-> 0] /\ since = [p \in Pins |-> Pulse]
  /\ run = 0
  /\ pc = "other" /\ loaded = 0 /\ began = 0
  /\ edge = 0 /\ unlogged = 0 /\ pulses = 0
  /\ stamp = 0 /\ kind = "none"

-----------------------------------------------------------------------------
(* Hardware.                                                               *)

Count ==
  /\ time < MaxTime
  /\ run > 0 \/ (overflow = 0 /\ \A p \in Pins : flag[p] = 0)
  /\ time' = time + 1
  /\ tcnt' = (tcnt + 1) % Top
  /\ overflow' = IF tcnt' = 0 THEN 1 ELSE overflow
  /\ run' = IF run > 0 THEN run - 1 ELSE 0
  /\ since' = [p \in Pins |-> IF since[p] < Pulse THEN since[p] + 1 ELSE Pulse]
  /\ UNCHANGED <<jiffies, tachy, flag, level, main, edge, unlogged, pulses, lines>>

\* A pin changes; both edges raise the flag, which may be up already.
Edge(p) ==
  /\ since[p] = Pulse
  /\ level' = [level EXCEPT ![p] = 1 - @]
  /\ flag' = [flag EXCEPT ![p] = 1]
  /\ since' = [since EXCEPT ![p] = 0]
  /\ IF p = "pps" /\ level[p] = 0
       THEN edge' = jiffies /\ unlogged' = unlogged + 1
       ELSE UNCHANGED <<edge, unlogged>>
  /\ pulses' = IF p = "tach" /\ level[p] = 0 THEN pulses + 1 ELSE pulses
  /\ UNCHANGED <<time, tcnt, overflow, jiffies, tachy, run, main, lines>>

-----------------------------------------------------------------------------
(* Handlers, in the order of their vectors: INT2, PCINT3, TIMER0_OVF,      *)
(* USART.                                                                  *)

\* A handler starts: none runs, and no pin that comes first waits.
Enter(first) == run = 0 /\ \A p \in first : flag[p] = 0

Prints(what) ==
  /\ run' \in 0 .. longest
  /\ stamp' = jiffies /\ kind' = what

TachBoth ==
  /\ Enter({}) /\ flag["tach"] = 1
  /\ flag' = [flag EXCEPT !["tach"] = 0]
  /\ tachy' = tachy + 1
  /\ Prints(IF level["tach"] = 1 THEN "on" ELSE "off")
  /\ UNCHANGED <<time, tcnt, overflow, jiffies, level, since, main, edge, unlogged, pulses>>

\* INT2: the level of the pin is read when the handler runs, not when it changed.
Tach ==
  /\ Enter({}) /\ flag["tach"] = 1
  /\ flag' = [flag EXCEPT !["tach"] = 0]
  /\ tachy' = tachy + level["tach"]
  /\ Prints(IF level["tach"] = 1 THEN "on" ELSE "off")
  /\ UNCHANGED <<time, tcnt, overflow, jiffies, level, since, main, edge, unlogged, pulses>>

\* PCINT3: a line for a rising edge only.
Pps ==
  /\ Enter({"tach"}) /\ flag["pps"] = 1
  /\ flag' = [flag EXCEPT !["pps"] = 0]
  /\ IF level["pps"] = 1 THEN Prints("pps") /\ unlogged' = unlogged - 1
                         ELSE UNCHANGED <<run, lines, unlogged>>
  /\ UNCHANGED <<time, tcnt, overflow, jiffies, tachy, level, since, main, edge, pulses>>

TimerFirst ==
  /\ Enter({}) /\ overflow = 1
  /\ overflow' = 0 /\ tcnt' = Reload /\ jiffies' = jiffies + 1
  /\ UNCHANGED <<time, tachy, pins, run, main, edge, unlogged, pulses, lines>>

TimerReloadHigh ==
  /\ Enter(Pins) /\ overflow = 1
  /\ overflow' = 0 /\ tcnt' = (Reload + 1) % Top /\ jiffies' = jiffies + 1
  /\ UNCHANGED <<time, tachy, pins, run, main, edge, unlogged, pulses, lines>>

\* TIMER0_OVF.
Timer ==
  /\ Enter(Pins) /\ overflow = 1
  /\ overflow' = 0 /\ tcnt' = Reload /\ jiffies' = jiffies + 1
  /\ UNCHANGED <<time, tachy, pins, run, main, edge, unlogged, pulses, lines>>

\* USART0_TX and USART1_RX: they may write to the SD card.
Serial ==
  /\ Enter(Pins) /\ overflow = 0
  /\ run' \in 1 .. longest
  /\ UNCHANGED <<time, tcnt, overflow, jiffies, tachy, pins, main, edge, unlogged, pulses, lines>>

-----------------------------------------------------------------------------
(* main: jiffies is an argument of the JAGMT line, a 32-bit variable loaded *)
(* byte by byte with interrupts enabled (main.c:120), the lowest byte first. *)

PartsHighFirst(j) == [first |-> j - (j % Base), rest |-> j % Base]
\* What the first load gets of j, and the further ones.
Parts(j) == [first |-> j % Base, rest |-> j - (j % Base)]

ReadLow ==
  /\ run = 0 /\ pc = "other"
  /\ loaded' = Parts(jiffies).first /\ began' = jiffies
  /\ pc' = "read"
  /\ UNCHANGED <<time, tcnt, overflow, jiffies, tachy, pins, run, edge, unlogged, pulses, lines>>

ReadRest ==
  /\ run = 0 /\ pc = "read"
  /\ loaded' = loaded + Parts(jiffies).rest
  /\ pc' = "line"
  /\ UNCHANGED <<time, tcnt, overflow, jiffies, tachy, pins, run, began, edge, unlogged, pulses, lines>>

\* The line is formatted and put into the buffer.
Line ==
  /\ run = 0 /\ pc = "line"
  /\ stamp' = loaded /\ kind' = "jagmt"
  /\ pc' = "other"
  /\ UNCHANGED <<time, tcnt, overflow, jiffies, tachy, pins, run, loaded, began, edge, unlogged, pulses>>

Handlers == Tach \/ Pps \/ Timer \/ Serial
Main == ReadLow \/ ReadRest \/ Line

Next ==
  /\ Count \/ (\E p \in Pins : Edge(p)) \/ Handlers \/ Main
  /\ UNCHANGED longest

Spec == Init /\ [][Next]_vars

-----------------------------------------------------------------------------
(* Properties.                                                             *)

Period == Top - Reload

\* jiffies never runs fast, however late the timer's handler is: so many periods
\* have passed (system_timer.c:35-38).  It does run slow.
NeverFast == jiffies * Period <= time

\* "This is when the interrupt actually occured" (pps.c:46): the stamp of a PPS line
\* is jiffies at the last rising edge, whatever was running then.
PpsStampIsEdge ==
  [][flag["pps"] = 1 /\ flag'["pps"] = 0 /\ level["pps"] = 1 => stamp' = edge]_vars

\* At most two handlers keep the one of an edge waiting: the one that was running, and
\* the tachometer's before that of PPS.  They end before the pin may change again.
HandlersShort == 2 * longest < Pulse

\* tach.c:19, "... so that we can have an interrupt for each, individual event": when
\* handlers are short against the pulses of the pins, every PPS gets its line and every
\* turn of the wheel is counted, but for the one in progress (pps.c:50-51,
\* tach.c:47-48).  When they are long, edges merge and turns are lost.
NothingMissed ==
  HandlersShort => unlogged <= 1 /\ tachy - FirstCount \in {pulses - 1, pulses}

\* However often the timer and the other handlers interrupt main while it loads jiffies
\* (main.c:120), the stamp of its line is no moment before it began to, as it loads the
\* lowest byte first, and less than Base ahead of the clock; and ahead at all only when
\* the timer carried out of the lowest byte.  With a Base of 256 a line can so be 2.5 s
\* ahead of the lines around it, which is not what parseDataAndAnalyze/main.py:30 expects,
\* "the absolute timestamp of each line to approx 11 ms accuracy".
StampBounded ==
  pc = "line" => /\ began <= loaded /\ loaded < jiffies + Base
                 /\ loaded > jiffies => began \div Base < jiffies \div Base
=============================================================================
