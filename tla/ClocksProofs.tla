---------------------------- MODULE ClocksProofs ----------------------------
(* Proofs about Clocks: types, jiffies against the time that has passed, the    *)
(* stamps of the PPS and JAGMT lines, for every timer and however long handlers *)
(* run, and that no edge of a pin is missed while they are short.               *)
EXTENDS Clocks, TLAPS

-----------------------------------------------------------------------------
(* Before an overflow the count since the reload is still to come on top of the *)
(* periods counted; after it a whole period is.                                *)
Behind ==
  /\ overflow = 0 => tcnt >= Reload /\ jiffies * (Top - Reload) + (tcnt - Reload) <= time
  /\ overflow = 1 => jiffies * (Top - Reload) + (Top - Reload) <= time

(* While a rising edge of PPS waits for its handler, jiffies stays what it was. *)
EdgeWaits == flag["pps"] = 1 /\ level["pps"] = 1 => edge = jiffies

(* A rising edge whose handler has not run yet has no line. *)
EdgeUnlogged == flag["pps"] = 1 /\ level["pps"] = 1 => unlogged >= 1

IInv == TypeOK /\ Behind /\ EdgeWaits /\ EdgeUnlogged

LEMMA InitIInv == ASSUME Init PROVE IInv
<1>1. TypeOK
  BY ClocksAssumption, SMT DEF Init, TypeOK, FirstCount, Pins
<1> QED
  BY <1>1, ClocksAssumption, SMT DEF Init, IInv, Behind, EdgeWaits, EdgeUnlogged, Pins

(* What is left of a number when its remainder is taken away. *)
LEMMA Floor ==
  ASSUME NEW a \in Nat, NEW b \in Nat \ {0}
  PROVE  a % b \in 0 .. b - 1 /\ a \div b \in Nat /\ a = b * (a \div b) + (a % b)
         /\ a - (a % b) \in Nat
BY SMT

(* No step takes the state out of its types. *)
LEMMA TypeStep == ASSUME IInv, [Next]_vars PROVE TypeOK'
<1> USE DEF TypeOK
<1>1. CASE Count /\ UNCHANGED longest
  <2>1. tcnt' \in 0 .. Top - 1 /\ overflow' \in {0, 1} /\ time' \in Nat
    BY <1>1, ClocksAssumption, SMT DEF IInv, Count
  <2>2. run' \in 0 .. longest /\ longest \in Nat
    BY <1>1, ClocksAssumption, SMT DEF IInv, Count
  <2>3. since' \in [Pins -> 0 .. Pulse]
    BY <1>1, ClocksAssumption, SMT DEF IInv, Count
  <2> QED BY <1>1, <2>1, <2>2, <2>3 DEF IInv, Count, main, lines
<1>2. ASSUME NEW p \in Pins, Edge(p), UNCHANGED longest PROVE TypeOK'
  <2>1. level' \in [Pins -> {0, 1}] /\ flag' \in [Pins -> {0, 1}] /\ since' \in [Pins -> 0 .. Pulse]
    BY <1>2, ClocksAssumption, SMT DEF IInv, Edge
  <2>2. edge' \in Nat /\ unlogged' \in Nat /\ pulses' \in Nat
    BY <1>2, SMT DEF IInv, Edge
  <2> QED BY <1>2, <2>1, <2>2 DEF IInv, Edge, main, lines
<1>3. CASE Tach /\ UNCHANGED longest
  <2>1. flag' \in [Pins -> {0, 1}] /\ tachy' \in Nat
    BY <1>3, SMT DEF IInv, Tach, Pins
  <2> QED BY <1>3, <2>1 DEF IInv, Tach, Prints, main
<1>4. CASE Pps /\ UNCHANGED longest
  <2>1. flag' \in [Pins -> {0, 1}] /\ unlogged' \in Nat
    BY <1>4, SMT DEF IInv, EdgeUnlogged, Pps, Pins
  <2>2. run' \in 0 .. longest /\ stamp' \in Nat /\ kind' \in {"none", "pps", "on", "off", "jagmt"}
    BY <1>4 DEF IInv, Pps, Prints, lines
  <2> QED BY <1>4, <2>1, <2>2 DEF IInv, Pps, main
<1>5. CASE Timer /\ UNCHANGED longest
  <2>1. overflow' \in {0, 1} /\ tcnt' \in 0 .. Top - 1 /\ jiffies' \in Nat
    BY <1>5, ClocksAssumption, SMT DEF IInv, Timer
  <2> QED BY <1>5, <2>1 DEF IInv, Timer, pins, main, lines
<1>6. CASE Serial /\ UNCHANGED longest
  <2>1. run' \in 0 .. longest
    BY <1>6, ClocksAssumption, SMT DEF IInv, Serial
  <2> QED BY <1>6, <2>1 DEF IInv, Serial, pins, main, lines
<1>7. CASE Main /\ UNCHANGED longest
  <2>1. loaded' \in Nat
    <3>1. jiffies % Base \in Nat /\ jiffies - (jiffies % Base) \in Nat
      <4> HIDE DEF TypeOK
      <4>1. jiffies \in Nat /\ Base \in Nat \ {0}
        BY ClocksAssumption DEF IInv, TypeOK
      <4> QED BY <4>1, Floor
    <3>2. loaded' \in {loaded, jiffies % Base, loaded + (jiffies - (jiffies % Base))}
      BY <1>7 DEF Main, ReadLow, ReadRest, Line, Parts
    <3> QED BY <3>1, <3>2, SMT DEF IInv
  <2> QED BY <1>7, <2>1 DEF IInv, Main, ReadLow, ReadRest, Line, pins, lines
<1>8. CASE UNCHANGED vars
  BY <1>8 DEF IInv, vars, pins, main, lines
<1> QED BY <1>1, <1>2, <1>3, <1>4, <1>5, <1>6, <1>7, <1>8 DEF Next, Handlers

LEMMA Distributes ==
  ASSUME NEW j \in Nat, NEW p \in Int
  PROVE  (j + 1) * p = j * p + p
BY SMT

LEMMA CountStep == ASSUME IInv, Count PROVE Behind' /\ EdgeWaits' /\ EdgeUnlogged'
<1>2. Behind'
  <2> DEFINE done == jiffies * (Top - Reload)
  <2>1. done \in Int /\ done' = done
    BY ClocksAssumption DEF IInv, TypeOK, Count
  <2>2. overflow = 0 => tcnt >= Reload /\ done + (tcnt - Reload) <= time
    BY DEF IInv, Behind
  <2>3. overflow = 1 => done + (Top - Reload) <= time
    BY DEF IInv, Behind
  <2>4. time' = time + 1 /\ overflow' = (IF tcnt' = 0 THEN 1 ELSE overflow)
    BY DEF Count
  <2>5. /\ time \in Nat /\ tcnt \in 0 .. Top - 1 /\ overflow \in {0, 1}
    BY DEF IInv, TypeOK
  <2>6. IF tcnt = Top - 1 THEN tcnt' = 0 ELSE tcnt' = tcnt + 1
    <3>1. tcnt' = (tcnt + 1) % Top
      BY DEF Count
    <3> QED BY <2>5, <3>1, ClocksAssumption, SMT
  <2> HIDE DEF done
  <2>7. /\ overflow' = 0 => tcnt' >= Reload /\ done + (tcnt' - Reload) <= time'
        /\ overflow' = 1 => done + (Top - Reload) <= time'
    BY <2>1, <2>2, <2>3, <2>4, <2>5, <2>6, ClocksAssumption, SMT
  <2> QED BY <2>1, <2>7 DEF Behind, done
<1>3. EdgeWaits' /\ EdgeUnlogged'
  BY DEF IInv, EdgeWaits, EdgeUnlogged, Count
<1> QED BY <1>2, <1>3

LEMMA TimerStep == ASSUME IInv, Timer PROVE Behind' /\ EdgeWaits' /\ EdgeUnlogged'
<1>2. Behind'
  <2>1. (jiffies + 1) * (Top - Reload) = jiffies * (Top - Reload) + (Top - Reload)
    BY Distributes, ClocksAssumption DEF IInv, TypeOK
  <2>2. jiffies * (Top - Reload) + (Top - Reload) <= time
    BY DEF IInv, Behind, Timer
  <2>3. overflow' = 0 /\ tcnt' = Reload /\ jiffies' = jiffies + 1 /\ time' = time
    BY DEF Timer
  <2>4. jiffies' * (Top - Reload) + (tcnt' - Reload) = jiffies * (Top - Reload) + (Top - Reload)
    BY <2>1, <2>3, ClocksAssumption, SMT DEF IInv, TypeOK
  <2> QED BY <2>2, <2>3, <2>4, ClocksAssumption, SMT DEF Behind
<1>3. EdgeWaits'
  <2>1. flag' = flag /\ flag["pps"] = 0
    BY DEF Timer, Enter, Pins, pins
  <2> QED BY <2>1 DEF EdgeWaits
<1>4. EdgeUnlogged'
  BY DEF IInv, EdgeUnlogged, Timer, pins
<1> QED BY <1>2, <1>3, <1>4

LEMMA EdgeStep ==
  ASSUME IInv, NEW p \in Pins, Edge(p)
  PROVE  Behind' /\ EdgeWaits' /\ EdgeUnlogged'
<1>2. Behind'
  BY DEF IInv, Behind, Edge
<1>3. EdgeWaits'
  BY SMT DEF IInv, EdgeWaits, TypeOK, Edge, Pins
<1>4. EdgeUnlogged'
  BY SMT DEF IInv, EdgeUnlogged, TypeOK, Edge, Pins
<1> QED BY <1>2, <1>3, <1>4

(* The other steps touch neither the timer nor jiffies; the handlers of the pins *)
(* only lower a flag.                                                            *)
LEMMA OtherStep ==
  ASSUME IInv, Tach \/ Pps \/ Serial \/ Main \/ UNCHANGED vars
  PROVE  Behind' /\ EdgeWaits' /\ EdgeUnlogged'
<1>1. /\ UNCHANGED <<time, tcnt, overflow, jiffies, level, edge>>
      /\ flag' \in {flag, [flag EXCEPT !["tach"] = 0], [flag EXCEPT !["pps"] = 0]}
  BY DEF Tach, Pps, Serial, Main, ReadLow, ReadRest, Line, vars, pins
<1>3. Behind'
  BY <1>1 DEF IInv, Behind
<1>4. EdgeWaits'
  BY <1>1, SMT DEF IInv, EdgeWaits, TypeOK, Pins
<1>5. EdgeUnlogged'
  <2>1. CASE Pps
    BY <2>1, SMT DEF IInv, EdgeUnlogged, TypeOK, Pps, Pins
  <2>2. CASE ~Pps
    <3>1. unlogged' = unlogged
      BY <2>2 DEF Tach, Serial, Main, ReadLow, ReadRest, Line, vars
    <3> QED BY <1>1, <3>1, SMT DEF IInv, EdgeUnlogged, TypeOK, Pins
  <2> QED BY <2>1, <2>2
<1> QED BY <1>3, <1>4, <1>5

LEMMA NextIInv == ASSUME IInv, [Next]_vars PROVE IInv'
<1> SUFFICES Behind' /\ EdgeWaits' /\ EdgeUnlogged'
  BY TypeStep DEF IInv
<1>1. CASE Count BY <1>1, CountStep
<1>2. CASE \E p \in Pins : Edge(p) BY <1>2, EdgeStep
<1>3. CASE Timer BY <1>3, TimerStep
<1>4. CASE Tach \/ Pps \/ Serial \/ Main \/ UNCHANGED vars BY <1>4, OtherStep
<1> QED BY <1>1, <1>2, <1>3, <1>4 DEF Next, Handlers

(* The invariant holds in every state of every behaviour of the clock. *)
THEOREM Invariant == Spec => []IInv
<1>1. Init => IInv BY InitIInv
<1>2. IInv /\ [Next]_vars => IInv' BY NextIInv
<1> QED BY <1>1, <1>2, PTL DEF Spec

(* The state has its types: an edge whose line is printed had none before, so the *)
(* count of edges without a line never goes below zero.                         *)
THEOREM TypeCorrect == Spec => []TypeOK
<1>1. IInv => TypeOK BY DEF IInv
<1> QED BY <1>1, Invariant, PTL

(* jiffies never runs ahead of the time, whatever the handlers take and however *)
(* the interrupts fall (system_timer.c:35-38).                                  *)
THEOREM JiffiesNeverFast == Spec => []NeverFast
<1>1. IInv => NeverFast
  <2> DEFINE done == jiffies * (Top - Reload)
  <2> SUFFICES ASSUME IInv PROVE done <= time
    BY DEF NeverFast, Period
  <2>1. done \in Int
    BY ClocksAssumption DEF IInv, TypeOK
  <2>2. /\ overflow = 0 => tcnt >= Reload /\ done + (tcnt - Reload) <= time
        /\ overflow = 1 => done + (Top - Reload) <= time
    BY DEF IInv, Behind
  <2>3. time \in Nat /\ tcnt \in Nat /\ overflow \in {0, 1}
    BY ClocksAssumption, SMT DEF IInv, TypeOK
  <2> HIDE DEF done
  <2> QED BY <2>1, <2>2, <2>3, ClocksAssumption, SMT
<1> QED BY <1>1, Invariant, PTL

(* The stamp of a PPS line is jiffies at the last rising edge of PPS, however long *)
(* the handler waited (pps.c:44-51).                                             *)
THEOREM StampIsEdge == Spec => PpsStampIsEdge
<1> DEFINE Good ==
      flag["pps"] = 1 /\ flag'["pps"] = 0 /\ level["pps"] = 1 => stamp' = edge
<1>1. ASSUME IInv, Next PROVE Good
  <2>1. CASE Count BY <2>1 DEF Count
  <2>2. ASSUME NEW p \in Pins, Edge(p) PROVE Good
    BY <2>2, SMT DEF IInv, TypeOK, Edge, Pins
  <2>3. CASE Tach BY <2>3, SMT DEF IInv, TypeOK, Tach, Pins
  <2>4. CASE Pps BY <1>1, <2>4, SMT DEF IInv, EdgeWaits, Pps, Prints
  <2>5. CASE Timer \/ Serial \/ Main
    BY <2>5 DEF Timer, Serial, Main, ReadLow, ReadRest, Line, pins
  <2> QED BY <1>1, <2>1, <2>2, <2>3, <2>4, <2>5 DEF Next, Handlers
<1>2. IInv /\ [Next]_vars => [Good]_vars
  BY <1>1
<1> QED BY <1>2, Invariant, PTL DEF Spec, PpsStampIsEdge

-----------------------------------------------------------------------------
(* Edges.  While handlers are short against the pulses, an edge is handled      *)
(* before its pin can change again: the tachometer's waits for the handler that *)
(* runs, that of PPS for this one and, at most once, for the tachometer's.      *)

InTime ==
  /\ flag["tach"] = 1 => since["tach"] + run <= longest
  /\ flag["pps"] = 1 => \/ since["pps"] + run <= longest
                        \/ /\ flag["tach"] = 0
                           /\ since["pps"] + run <= 2 * longest
                           /\ since["tach"] + run <= 2 * longest

(* 1 for a pin whose rising edge waits for its handler. *)
Waiting(p) == IF flag[p] = 1 /\ level[p] = 1 THEN 1 ELSE 0

(* Every rising edge has been handled or waits. *)
AllHandled ==
  /\ unlogged = Waiting("pps")
  /\ tachy - FirstCount = pulses - Waiting("tach")

EInv == HandlersShort => InTime /\ AllHandled

LEMMA InTimeStep ==
  ASSUME TypeOK, [Next]_vars, HandlersShort, InTime
  PROVE  InTime'
<1>1. /\ longest \in Nat /\ longest' = longest /\ run \in 0 .. longest
      /\ Pulse \in Nat /\ 2 * longest < Pulse
      /\ \A p \in Pins : flag[p] \in {0, 1} /\ since[p] \in 0 .. Pulse
  BY ClocksAssumption DEF TypeOK, HandlersShort, Next, vars
<1>2. "pps" \in Pins /\ "tach" \in Pins
  BY DEF Pins
<1>3. flag \in [Pins -> {0, 1}] /\ since \in [Pins -> 0 .. Pulse]
  BY DEF TypeOK
<1> USE <1>1, <1>2, <1>3
<1>4. CASE Count
  <2>1. flag' = flag
    BY <1>4 DEF Count
  <2>2. CASE run = 0
    <3>1. flag["pps"] = 0 /\ flag["tach"] = 0
      BY <1>4, <2>2 DEF Count
    <3> QED BY <2>1, <3>1 DEF InTime
  <2>3. CASE run > 0
    <3>1. run' = run - 1 /\ \A p \in Pins : since'[p] \in 0 .. Pulse /\ since'[p] <= since[p] + 1
      BY <1>4, <2>3 DEF Count
    <3> QED BY <2>1, <3>1, SMT DEF InTime
  <2> QED BY <2>2, <2>3
<1>5. CASE Edge("tach")
  <2>1. since["tach"] = Pulse /\ run' = run
    BY <1>5 DEF Edge
  <2>2. since'["tach"] = 0 /\ since'["pps"] = since["pps"] /\ flag'["pps"] = flag["pps"]
    BY <1>5 DEF Edge
  <2> QED BY <2>1, <2>2, SMT DEF InTime
<1>6. CASE Edge("pps")
  <2>1. since["pps"] = Pulse /\ run' = run
    BY <1>6 DEF Edge
  <2>2. since'["pps"] = 0 /\ since'["tach"] = since["tach"] /\ flag'["tach"] = flag["tach"]
    BY <1>6 DEF Edge
  <2> QED BY <2>1, <2>2, SMT DEF InTime
<1>7. CASE Tach
  <2>1. flag["tach"] = 1 /\ run = 0 /\ since' = since
    BY <1>7 DEF Tach, Enter
  <2>2. flag'["tach"] = 0 /\ flag'["pps"] = flag["pps"] /\ run' \in 0 .. longest
    BY <1>7 DEF Tach, Prints
  <2> QED BY <2>1, <2>2, SMT DEF InTime
<1>8. CASE Pps
  <2>1. flag["tach"] = 0
    BY <1>8 DEF Pps, Enter
  <2>2. flag'["tach"] = 0 /\ flag'["pps"] = 0
    BY <1>8, <2>1 DEF Pps
  <2> QED BY <2>2 DEF InTime
<1>9. CASE Timer \/ Serial
  <2>1. flag' = flag /\ flag["pps"] = 0 /\ flag["tach"] = 0
    BY <1>9 DEF Timer, Serial, Enter, pins
  <2> QED BY <2>1 DEF InTime
<1>10. CASE Main \/ UNCHANGED vars
  <2>1. flag' = flag /\ since' = since /\ run' = run
    BY <1>10 DEF Main, ReadLow, ReadRest, Line, pins, vars
  <2> QED BY <2>1 DEF InTime
<1> QED BY <1>4, <1>5, <1>6, <1>7, <1>8, <1>9, <1>10 DEF Next, Handlers, Pins

LEMMA AllHandledStep ==
  ASSUME TypeOK, [Next]_vars, HandlersShort, InTime, AllHandled
  PROVE  AllHandled'
<1>1. /\ longest \in Nat /\ run \in 0 .. longest
      /\ Pulse \in Nat /\ 2 * longest < Pulse
      /\ \A p \in Pins : since[p] \in 0 .. Pulse /\ flag[p] \in {0, 1} /\ level[p] \in {0, 1}
      /\ tachy \in Nat /\ pulses \in Nat /\ unlogged \in Nat
  BY ClocksAssumption DEF TypeOK, HandlersShort
<1>2. flag \in [Pins -> {0, 1}] /\ level \in [Pins -> {0, 1}]
  BY DEF TypeOK
<1>3. \A p \in Pins : since[p] = Pulse => flag[p] = 0
  BY <1>1, SMT DEF InTime, Pins
<1> USE <1>1, <1>2 DEF AllHandled, Waiting, Pins
<1>4. ASSUME NEW p \in Pins, Edge(p) PROVE AllHandled'
  <2>1. flag[p] = 0 /\ tachy' = tachy
    BY <1>3, <1>4 DEF Edge
  <2>2. CASE p = "pps"
    <3>1. /\ flag'["pps"] = 1 /\ level'["pps"] = 1 - level["pps"]
          /\ flag'["tach"] = flag["tach"] /\ level'["tach"] = level["tach"]
      BY <1>4, <2>2 DEF Edge
    <3>2. pulses' = pulses /\ unlogged' = IF level["pps"] = 0 THEN unlogged + 1 ELSE unlogged
      BY <1>4, <2>2 DEF Edge
    <3> QED BY <2>1, <2>2, <3>1, <3>2, SMT
  <2>3. CASE p = "tach"
    <3>1. /\ flag'["tach"] = 1 /\ level'["tach"] = 1 - level["tach"]
          /\ flag'["pps"] = flag["pps"] /\ level'["pps"] = level["pps"]
      BY <1>4, <2>3 DEF Edge
    <3>2. unlogged' = unlogged /\ pulses' = IF level["tach"] = 0 THEN pulses + 1 ELSE pulses
      BY <1>4, <2>3 DEF Edge
    <3> QED BY <2>1, <2>3, <3>1, <3>2, SMT DEF FirstCount
  <2> QED BY <2>2, <2>3
<1>5. CASE Tach
  <2>1. flag["tach"] = 1 /\ flag'["tach"] = 0 /\ flag'["pps"] = flag["pps"] /\ level' = level
    BY <1>5 DEF Tach
  <2>2. tachy' = tachy + level["tach"] /\ pulses' = pulses /\ unlogged' = unlogged
    BY <1>5 DEF Tach
  <2> QED BY <2>1, <2>2, SMT DEF FirstCount
<1>6. CASE Pps
  <2>1. flag["pps"] = 1 /\ flag'["pps"] = 0 /\ flag'["tach"] = flag["tach"] /\ level' = level
    BY <1>6 DEF Pps
  <2>2. /\ unlogged' = IF level["pps"] = 1 THEN unlogged - 1 ELSE unlogged
        /\ tachy' = tachy /\ pulses' = pulses
    BY <1>6 DEF Pps
  <2> QED BY <2>1, <2>2, SMT DEF FirstCount
<1>7. CASE Count \/ Timer \/ Serial \/ Main \/ UNCHANGED vars
  <2>1. UNCHANGED <<flag, level, unlogged, tachy, pulses>>
    BY <1>7 DEF Count, Timer, Serial, Main, ReadLow, ReadRest, Line, pins, vars
  <2> QED BY <2>1
<1> QED BY <1>4, <1>5, <1>6, <1>7 DEF Next, Handlers

(* Every PPS gets its line and every turn of the wheel is counted but for the one *)
(* in progress, whenever two handlers together are shorter than a pulse (tach.c:19, *)
(* pps.c:50-51).                                                                    *)
THEOREM NoEdgeMissed == Spec => []NothingMissed
<1>1. Init => EInv
  <2> SUFFICES ASSUME Init PROVE InTime /\ AllHandled
    BY DEF EInv
  <2>1. flag["pps"] = 0 /\ flag["tach"] = 0
    BY DEF Init, Pins
  <2>2. unlogged = 0 /\ pulses = 0 /\ tachy = FirstCount
    BY DEF Init
  <2> QED BY <2>1, <2>2 DEF InTime, AllHandled, Waiting, FirstCount
<1>2. TypeOK /\ EInv /\ [Next]_vars => EInv'
  <2> SUFFICES ASSUME TypeOK, EInv, [Next]_vars, HandlersShort' PROVE InTime' /\ AllHandled'
    BY DEF EInv
  <2>1. HandlersShort
    BY DEF HandlersShort, Next, vars
  <2> QED BY <2>1, InTimeStep, AllHandledStep DEF EInv
<1>3. TypeOK /\ EInv => NothingMissed
  BY SMT DEF TypeOK, EInv, AllHandled, Waiting, NothingMissed, FirstCount
<1> QED BY <1>1, <1>2, <1>3, TypeCorrect, PTL DEF Spec

-----------------------------------------------------------------------------
(* The stamp main reads.                                                       *)

(* What main holds is the low part of jiffies as it was when main began, and with the *)
(* rest of a later jiffies a number between the two or less than Base above.           *)
Reading ==
  /\ pc # "other" => began <= jiffies
  /\ pc = "read" => loaded = began % Base
  /\ pc = "line" => /\ began <= loaded /\ loaded < jiffies + Base
                    /\ began \div Base = jiffies \div Base => loaded = began

(* Parts do not decrease, so a carry is never taken back. *)
LEMMA PartsGrow ==
  ASSUME NEW a \in Nat, NEW c \in Nat, NEW b \in Nat \ {0}, a <= c
  PROVE  a \div b <= c \div b
<1>1. a \div b \in Nat /\ a = b * (a \div b) + (a % b) /\ a % b \in 0 .. b - 1
  BY Floor
<1>2. c \div b \in Nat /\ c = b * (c \div b) + (c % b) /\ c % b \in 0 .. b - 1
  BY Floor
<1>3. ASSUME NEW q \in Nat, NEW r \in Nat, q >= r + 1
      PROVE  b * q >= b * r + b
  BY <1>3, SMT
<1> QED BY <1>1, <1>2, <1>3, SMT

LEMMA ReadingStep ==
  ASSUME TypeOK, Reading, [Next]_vars
  PROVE  Reading'
<1>1. began \in Nat /\ jiffies \in Nat /\ loaded \in Nat /\ Base \in Nat \ {0}
  BY ClocksAssumption DEF TypeOK
<1>2. CASE ReadLow
  BY <1>1, <1>2 DEF ReadLow, Reading, Parts
<1>3. CASE ReadRest
  <2> DEFINE q == Base * (began \div Base)
             r == began % Base
             u == Base * (jiffies \div Base)
             v == jiffies % Base
  <2>1. /\ pc' = "line" /\ began' = began /\ jiffies' = jiffies /\ began <= jiffies
        /\ loaded' = r + (jiffies - v)
    BY <1>3 DEF ReadRest, Reading, Parts
  <2>2. began = q + r /\ q \in Nat /\ r \in 0 .. Base - 1
        /\ jiffies = u + v /\ u \in Nat /\ v \in 0 .. Base - 1
    <3>1. began = q + r /\ r \in 0 .. Base - 1 /\ began \div Base \in Nat
      BY <1>1, Floor
    <3>2. jiffies = u + v /\ v \in 0 .. Base - 1 /\ jiffies \div Base \in Nat
      BY <1>1, Floor
    <3>3. q \in Nat /\ u \in Nat
      BY <1>1, <3>1, <3>2
    <3> QED BY <3>1, <3>2, <3>3
  <2>3. q <= u
    <3>1. began \div Base <= jiffies \div Base
      BY <1>1, <2>1, PartsGrow
    <3>2. began \div Base \in Nat /\ jiffies \div Base \in Nat
      BY <1>1, Floor
    <3> QED BY <1>1, <3>1, <3>2
  <2>4. began \div Base = jiffies \div Base => q = u
    OBVIOUS
  <2> HIDE DEF q, r, u, v
  <2>5. loaded' = r + u
    BY <1>1, <2>1, <2>2
  <2>6. began <= loaded' /\ loaded' < jiffies + Base /\ (q = u => loaded' = began)
    BY <1>1, <2>2, <2>3, <2>5
  <2> QED BY <2>1, <2>4, <2>6 DEF Reading
<1>4. CASE Line
  BY <1>4 DEF Line, Reading
<1>5. CASE Timer
  <2>1. pc' = pc /\ began' = began /\ loaded' = loaded /\ jiffies' = jiffies + 1
    BY <1>5 DEF Timer, main
  <2>2. pc # "other" => began <= jiffies
    BY DEF Reading
  <2>3. ASSUME pc = "line", began \div Base = (jiffies + 1) \div Base PROVE loaded = began
    <3>1. began \div Base <= jiffies \div Base /\ jiffies \div Base <= (jiffies + 1) \div Base
      BY <1>1, <2>2, <2>3, PartsGrow
    <3>2. began \div Base \in Nat /\ jiffies \div Base \in Nat
      BY <1>1, Floor
    <3>3. began \div Base = jiffies \div Base
      BY <2>3, <3>1, <3>2
    <3> QED BY <2>3, <3>3 DEF Reading
  <2>4. pc = "line" => began <= loaded /\ loaded < (jiffies + 1) + Base
    BY <1>1 DEF Reading
  <2> QED BY <1>1, <2>1, <2>2, <2>3, <2>4 DEF Reading
<1>6. CASE Count \/ (\E p \in Pins : Edge(p)) \/ Tach \/ Pps \/ Serial \/ UNCHANGED vars
  <2>1. UNCHANGED <<pc, began, loaded, jiffies>>
    BY <1>6 DEF Count, Edge, Tach, Pps, Serial, main, vars
  <2> QED BY <2>1 DEF Reading
<1> QED BY <1>2, <1>3, <1>4, <1>5, <1>6 DEF Next, Handlers, Main

(* For every timer, and however the bytes are split, the stamp main reads is not before *)
(* the reading began and less than Base ahead, and ahead only after a carry.            *)
THEOREM StampIsBounded == Spec => []StampBounded
<1>1. Init => Reading
  BY DEF Init, Reading
<1>2. TypeOK /\ Reading /\ [Next]_vars => Reading'
  BY ReadingStep
<1>3. TypeOK /\ Reading => StampBounded
  <2> SUFFICES ASSUME TypeOK, Reading, pc = "line", loaded > jiffies
               PROVE  began \div Base < jiffies \div Base
    BY DEF Reading, StampBounded
  <2>1. began \in Nat /\ jiffies \in Nat /\ loaded \in Nat /\ Base \in Nat \ {0}
    BY ClocksAssumption DEF TypeOK
  <2>2. began <= jiffies /\ (began \div Base = jiffies \div Base => loaded = began)
    BY DEF Reading
  <2>3. began \div Base # jiffies \div Base
    BY <2>1, <2>2
  <2>4. began \div Base <= jiffies \div Base
    BY <2>1, <2>2, PartsGrow
  <2>5. began \div Base \in Nat /\ jiffies \div Base \in Nat
    BY <2>1, Floor
  <2> QED BY <2>3, <2>4, <2>5
<1> QED BY <1>1, <1>2, <1>3, TypeCorrect, PTL DEF Spec
=============================================================================
