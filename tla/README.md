# GPS-Bamf in TLA+

A verification development for the GPS-Bamf bicycle data logger: an ATmega644 that prints
GPS sentences, sensor samples and time stamps on a serial port, through a ring buffer that
is also written, 512 bytes at a time, to an SD card used as one large ring of blocks.

Everything here is translated from the sources: the C program in `firmware/`, and the Python
scripts that read the log (`parseDataAndAnalyze/main.py`) and try out the pressure formula
(`hardwareNotes/calcTempAndPress.py`). `PROJECT.json` gives, for every definition, the lines it
stands for.

- [The system](#the-system)
- [The modules](#the-modules)
- [The runs](#the-runs)
- [Where the code departs from its comments](#where-the-code-departs-from-its-comments)
- [The proofs](#the-proofs)
- [What is not modelled, and the plan](#what-is-not-modelled-and-the-plan)

## The system

There is one thread, `main`, and five interrupt handlers that run on top of it, each to its
end, with interrupts disabled: pin INT2 (tachometer), pin change PCINT3 (PPS of the GPS),
timer 0 overflow, USART0 transmit complete and USART1 receive (GPS), in this order of
priority. All share global variables without atomic sections; the only protection is
the masking of single interrupts in `USART0_printf` and a `lock` variable in the card writer.

| Component | State | Operations | What makes it correct |
|---|---|---|---|
| Log on the card (`sdcard.c`) | the card's blocks; `_sdcard_block_number`, `_sdcard_number_of_blocks`, `sd_card_is_ready` | `SPI_Init` at power-up; `sdcard_write_from_circ_buffer`, `sdcard_write_metadata` | only marked cards are written, only inside the ring; a restart rewinds a little only; the ring holds the newest chunks in order |
| Card writer (`sdcard.c`, `usart.c`) | `lock`, `sdcard_consumer_idx`, the calls in progress | `sdcard_write_from_circ_buffer`, entered from every line printed and every serial interrupt, also from itself | mutual exclusion; the lock is released; calls return; the bytes reach the card once and in order |
| Card handshake (`sdcard.c`, `sdcard_csd.h`) | the card's mode, retries, the size | CMD0, CMD8, ACMD41, CMD9 | ends; the size is right |
| Print buffer and port (`usart.c`) | `print_buffer`, `print_producer_idx`, `print_consumer_idx`, interrupt masks, transmitter | `USART0_printf`, `_try_to_transmit`, `USART1_RX`, `USART0_TX` | lines are not mixed; what is put in comes out once and in order; nothing stays in |
| GPS receiver (`usart.c`) | the receiver's bytes, `fifo_buffer`, its mask | `USART1_RX`, masked by `USART0_printf` | a sentence of which nothing is lost is printed whole; damage stays in the sentence it happens to; the receiver is emptied again |
| Two-wire bus (`bamf_twi.c`) | bus ownership, the addressed device | `bamf_twi_write`, `bamf_twi_write_read` | all or nothing; the bus is free afterwards |
| Sensors and main loop (`main.c`, drivers) | device registers, samples, calibration parameters, step | init and sample calls, the ten-step cycle | a printed value is fresh or its failure is printed; a driver that initialised is configured |
| Compensation (`presstemp.c`, `calcTempAndPress.py`) | the calibration parameters, the raw readings | `presstemp_init`, `get_UT`, `get_UP`, `calcPressureAndTemp` | no overflow in the sensor's range; the result is that of the reference; no division by zero |
| Time-stamping (`main.py`) | a row type, a stamp and a time for every line of the log | classification, matching of PPS lines with GPS times, interpolation | a PPS line gets its own time; the others are good to a jiffy and what the clock lost; missing lines cost no more than they must |
| Clock (`system_timer.c`, `pps.c`, `tach.c`) | timer 0, `jiffies`, `tachy_count`, pin flags | three handlers, `main`'s load of `jiffies` | never fast; the PPS stamp is the time of the edge; main's stamp is bounded although it is loaded in bytes; nothing is missed when handlers are short |

Interactions: printing (`USART0_printf`) calls `_try_to_transmit`, which calls the card
writer, which prints; handlers do the same on top of whatever runs. The writer therefore
runs inside itself and inside handlers, and makes handlers take tens of milliseconds, which
delays the timer and merges pin edges. The sensor drivers use the bus; the main loop prints
what they return. The hard behaviours are thus: shared indices under interrupts, re-entrance,
a lock tested and set in two steps, values loaded in bytes, power failures between two
exchanges with the card, ignored return values, and numbers at their boundary. The complete
list is under `hazards` in `PROJECT.json`, each with the properties that watch it.

## The modules

| Module | Models | State and actions |
|---|---|---|
| `SdCard` | the card across power cycles | the card is a function from block numbers to contents: a number that block 0 and block 1 read as, and the serial number of the chunk a data block holds. One action per exchange with the card in `SPI_Init` (`Probe`, `ReadId`, `ReadResume`, `RewriteResume`). A call of the writer is one step up to line 453, where it holds the lock, with its outcome (`StoreChunk`, `RejectChunk`, `TimeoutChunk`, `RefuseChunk`); from there on it is in `calls`, and is one step per access to the block number, in bytes, and for the two ends of the transfer of block 1 (`LoadLower`, `LoadNumber`, `StoreLower`, `StoreNumber`, `CompareNumber`, `ResetNumber`, `TestNumber`, `PassNumber`, `StartMeta`, `EndMeta`). Between any two of them a handler may make a further call, and so may the messages of the call itself. `PowerOff` at any moment |
| `CardInit` | the handshake that `SdCard` takes as one step `Probe` | one action per command, with its retries; the size in the AVR's 16-bit `int`; shown to implement `SdCard` |
| `CircWriter` | the calls of the card writer | a stack of calls, the top one executing; one action per step between which an interrupt can matter; debug messages are nested calls; interrupts push a call when no handler is on the stack. It starts when `SPI_Init` sets `sd_card_is_ready`: `sdcard_consumer_idx` is 0 and `print_producer_idx` is where the messages of `SPI_Init` have left it, any of `Backlogs`. The block number is left to `SdCard` |
| `ByteLog` | what a consumer of the print buffer promises | bytes come out once, in order, a chunk at a time; implemented by `CircWriter` when no handler but the transmitter's interrupts, the card takes every block and less than a block waits at the start |
| `Usart` | the print buffer and the port | `main` load by load and store by store in `USART0_printf` and `_try_to_transmit`; each handler one action, because it runs to its end |
| `GpsRx` | the receiver of GPS sentences | a byte is the number of its arrival. `Arrive` at any moment, overwriting when the receiver is full; `Copy`, `Unmask`, `Copied` for the masking by main and the unmasking by handlers on top of it; `Enter`, one `Receive` per turn of the handler's loop, `Leave` |
| `TwiBus` | the bus master | one action per operation the function starts, and one per outcome of the TWI unit and the device; its names begin with `Bus`, so that `SensorBusProofs` can extend it together with `Sensors` |
| `TwiTransfer` | what a bus call promises | begin, succeed as a whole, or fail without effect on the caller's buffer; implemented by `TwiBus`, and used in `Sensors` as the outcomes of a driver's transfers |
| `Sensors` | the drivers and the main loop | one action per driver call; of a value only whether it was measured in the round that prints it |
| `Clocks` | the timer, the pins and the stamps | a step of the timer, an edge of a pin, one action per handler with the time it takes, and the two loads of `jiffies` in `main` |
| `Barometer` | the compensation | the calls of main, each failing or not; the computation as an operator, in the AVR's arithmetic (32 bits, shifts of negative numbers, division towards zero), beside the one of the Python script |
| `Timestamps` | how a log comes about, and `main.py` up to its `assert False` | the logger: `Tick`, `Pps` (also in the middle of main's line), `Gprmc`, `Load` and `Sample`, with lines lost or damaged and resets; its `clock` loses time whenever the timer's handler may be late, and a stamp of main may be ahead of it; the script: `Classify`, `Match`, `Interpolate`, each one action because nothing happens beside it |
| `MC...` | instances for TLC | sets and values for the constants |
| `...Proofs` | theorems | see below |

The composition is by refinement: `CardInit` implements the power-up step of `SdCard`,
`TwiBus` implements the transfers of `Sensors`, `CircWriter` implements `ByteLog` and gives
`SdCard` its "one call that finds 512 bytes"; `NoOverlap` of `CircWriter` is `overtaken = 0` of
`SdCard`, the hypothesis of what is said there of the order of the log and the resume position. `Usart` and `CircWriter` divide
`_try_to_transmit` between them: in `Usart` the card is not ready, in `CircWriter` the port
is left out; in `CircWriter` a line enters the buffer in one step, which `Usart` is about. `GpsRx` is what
`Usart` takes as the arrival of a line: there a GPS sentence enters as a whole, here it comes
about byte by byte and enters the buffer in one step. `Sensors` says which values `Barometer`
computes from are fresh; `Clocks` says what the stamps are worth that `Timestamps` reads: the clock is never
fast, it loses time, and a stamp loaded in bytes may be ahead.

Definitions whose names end in `NoWrap`, `Late`, `Silent` and the like, each just before the
definition it differs from, are slips a later change might make; replacing the definition by
the slip makes a property fail (`mutants` in `PROJECT.json`). They are used nowhere else.

### Abstractions

- A chunk, a byte and a line are numbers that name them. What a line says is left out, but
  for its stamp.
- In `SdCard` a call whose CMD24 is refused changes nothing, so that it has no action but in the
  middle of block 1, which it disturbs (`RefuseChunk`). The 512 bytes of a chunk reach the
  card in one step, as the lock is set meanwhile; a power failure during it is covered by
  `TimeoutChunk` for the next power-up, as the card either has the chunk or has not.
- `SdCard` cuts each access to the block number at one place, between any two bytes (`Widths`): once a
  chunk has been taken in the middle of an access (`torn`), nothing is claimed until the next
  power-up. What may be in block 1 after a disturbed transfer is any of `FirstMeta`.
- In `CircWriter` the messages of `sdcard_cardCommand` count as one message, and main prints
  only when no call is in progress (it is one thread).
- `Usart` lets lines come no faster than the port sends them (`Paced`); the code relies on
  the delays in `main` for it, and nothing checks it.
- `Sensors` takes the answers of the chips that identify themselves to be "the chip's
  own" or "anything else".
- In `GpsRx` a byte has no content but whether it is a line feed, and the receiver holds
  `Depth` bytes, the newest of which is overwritten when it is full.
- `Barometer` gives an overflow of `int32_t` the outcome "overflow" rather than one of the wrong
  values; what follows says that it does not happen where it should not. A failed
  transfer leaves the reading of before or 0xffff.
- In `Timestamps` the sentence of a second comes a fixed delay after its edge, and a sentence
  that parses has its own time: the script verifies no checksum and takes seconds of one
  digit. A damaged line is one whose numbers do not parse. A PPS line that is printed in
  the middle of main's line makes one row of both; the rest of main's line is a row of an unknown kind,
  which the script ignores and the model leaves out. How the clock loses time and a stamp gets ahead
  is the subject of `Clocks`; here the clock may stand still at any end of a jiffy (`Run`), and a
  stamp be ahead by any of `Ahead`.
- `Clocks` counts time in steps of the timer; between two of them any number of
  instructions of `main` may run. Pins change at most every `Pulse` steps.

## The runs

Passing runs:

| Run | Checks | Bounds and why they are enough |
|---|---|---|
| `card` | `HeadInRing`, `RestartRewind`, `LogComplete`, `LogOrdered`, `ReservedBlocks`, `OnlyMarkedCards` | 9 blocks and period 3, so that the wrap skips an update of block 1 as 100 does on a real card; 10 chunks in 2 power-ups, more than a turn of the ring of 7, and 5 once a call has overtaken another, which is enough for what is still claimed then; two calls in progress, a further one at every point behind the release of the lock; the number loaded and stored modulo 4 and the rest, so that 3 to 4 changes both parts; block 1 starts unused, near the end, or past the end of the card; every card error at every exchange, power off anywhere; the uninitialised sector buffer may hold the identifying string |
| `writer_calm` | `NoOverrun`, `EnoughBytes`, `NoOverlap`, `LogIsStream` | no interrupt but the transmitter's; a backlog of 0 to 7 bytes; a ring of two chunks of eight bytes, lines of one and four bytes and messages of one, the longest that `Fits` allows: 4 + 4 * 1 of 8 where the code has 88 + 4 * 95 of 512; 44 bytes are five chunks, two turns of the ring, past a rewrite of block 1 |
| `writer_interrupts` | `MutualExclusion`, `LockReleased`, `CallsReturn` | a ring of two chunks of two bytes, any backlog, an index read in two halves, every interrupt at every step, every card fault at every command |
| `port` | `LinesKeptApart`, `ProducerSound`, `InterruptsBackOn`, `WireIsStream`, `Drained` | a buffer of six bytes and four lines of two or three: up to two turns; three sets of interrupts: of the transmitter, with the GPS receiver, and of the pins on top of the receiver. A property that only some of them keep says so in its hypothesis |
| `handshake_small` | `HandshakeEnds`, `ImplementsProbe` | bytes of four bits, so that 32 bits are 16; eighteen sizes with the middle byte up to the last value below one half |
| `twi_bus` | `BusReleased`, `ImplementsTransfer`, `CallsReturn` | the five shapes of calls the drivers make |
| `sensor_loop` | `SamplesFreshOrReported`, `PressureFreshOrReported`, `ConversionsKeptApart`, `InitConfigures` | the code's ten steps, two calibration parameters, every combination of failing transfers; the state space is closed, nothing is bounded |
| `clock` | `NeverFast`, `NothingMissed`, `StampBounded`, `PpsStampIsEdge` | a timer with a period of four counts; `jiffies` loaded modulo two and the rest, with the carry between the loads; handlers of two counts, short against the pulses of five, and of six, longer than a period and a pulse; with `2 * longest <= Pulse` as the meaning of short `NothingMissed` would fail |
| `gps` | `SentencesWhole`, `LinesSound`, `Served` | every stream of eight bytes, a line buffer of three and a receiver of two: sentences below, at and above the limit, several bytes lost in a row, and after each of these a sentence that fits; masked and unmasked at any moment |
| `timestamps` | `PerfectIsTrue`, `AllMatched`, `AccurateButForLost`, `AbortsOnlyOn` | seconds of three units and jiffies of two, so that a second is no whole number of jiffies, the sentence one unit after the edge; three seconds and a half, four edges and four sentences, with one sample and any two of: a PPS line lost or damaged, a sentence lost or damaged, a sample damaged, a stamp ahead by one, a reset; the clock loses up to two units, enough to stand still for a second but for less than a jiffy. Matches two seconds apart, with the PPS line between them missing, take all of it |
| `barometer` | `AgreesWithReference`, `DividesByZeroOnlyUnread` | the parameters of the chip in `calcTempAndPress.py`, every subset of them unreadable, or none read at all; twelve temperatures from -40 to 85 degrees and twenty pressures, among them both sides of the value from which `B7` has its top bit set and the other branch is taken |

The type invariants `TypeOK` are theorems for every module but `Barometer`, and so are
not among the properties of the runs.

Deadlock is checked in `twi_bus`, `sensor_loop` and `barometer`; the other models end at their
bounds, or with the power off, and say so in their configurations.

Fairness is stated where a liveness property needs it, and only for what the hardware does by
itself: the processor executes the program on top of the stack (`Writer` in `CircWriter`,
`Main` in `Usart`, `Function` in `TwiBus`, `Handshake` in `CardInit`); it executes at least one
instruction of the interrupted program between two interrupts, a property of the AVR (the
strong fairness in `CircWriter`); a pending unmasked interrupt is taken (`TxInterrupt`); the
transmitter shifts (`Shift`), and the TWI unit finishes an operation it has started
(`Hardware`). In `GpsRx` main ends its copy and the handler runs on (weak fairness); the pending
receive interrupt is taken if it is unmasked again and again (strong fairness of `Enter`), as
main masks it only while it copies a line, and the flag stays up. Nothing is assumed of the card, which every wait in `sdcard.c` gives up on.

## Where the code departs from its comments

The run `card_overtaken` has a single property, which states what the README says and TLC
finds violated: the lock is released before the block number is advanced, so that a chunk taken by
an interrupt in between goes to the same block, or an increment is lost (`findings` in
`PROJECT.json` quotes the line). With no interrupt but the transmitter's, a card that takes every
block and a short backlog, no call gets in between: theorem `CallsDoNotOverlap`, of module
`CircWriterProofs`.

An interrupt occurs in the models wherever the hardware allows it, however rarely that is in
practice.

Other departures have no run of their own. The models contain the behaviour, and the
hypothesis of a passing property, or what that property does not say, excludes it:

| Source | What happens | Where it shows |
|---|---|---|
| `sdcard.c:430` | the consumer index moves before the card has answered, so a chunk the card rejects or times out on is lost | `RejectChunk`, `TimeoutChunk`; `givenUp = 0` in `LogComplete` |
| `sdcard.c:653`, `sdcard.c:661` | failed reads of blocks 0 and 1 are not noticed: stale memory may pass for the identifying string, and the log may restart at block 2 | `ReadSector`; `misread = 0` in `OnlyMarkedCards`, `metaStale = 0` in `RestartRewind` |
| `usart.c:65` | `stop` is evaluated before the lock is taken: an interrupted call may write bytes that are not there | `ReadLow`, `ReadHigh`; `EnoughBytes` is checked and proved with no interrupt but the transmitter's, which main masks from before the evaluation until after its use |
| `sdcard.c:463` | block 1 is rewritten outside the lock: an interrupt may start a second transfer in the middle of it. Its chunk is lost and block 1 may hold anything | `StartMeta`, `EndMeta`, `RejectChunk`, `RefuseChunk`; `torn = 0` in `ReservedBlocks` and `HeadInRing`; `NoOverlap` says when it does not happen |
| `sdcard.c:455` | the number is a volatile variable of four bytes, stored byte by byte without the lock. A chunk taken on the way from 0xffff to 0x10000 can go to block 0 and destroy the identifying string, so that the card is refused from then on | `StoreLower`; `torn = 0` in `ReservedBlocks`, `HeadInRing` and `OnlyMarkedCards` |
| `sdcard.c:456` | between lines 455 and 458 the number may be that of the block behind the card, which the card refuses, and the chunk is offered again | `TakeChunk`; `~InProgress` in `HeadInRing` |
| `sdcard.c:462` | a call that comes in between the increment and the test may take the number past the multiple of 100, which neither call then sees | `TestNumber`; `overtaken = 0` in `RestartRewind` |
| `sdcard.c:387` | `SPI_Init` prints with `sdcard_consumer_idx` at 0, more than the ring holds. The first blocks then have bytes that were overwritten, and if `print_producer_idx` stands near its end when the card gets ready, the writer's own messages lap the bytes it is sending. Nothing in the code keeps the backlog short | `Backlogs`; `ShortBacklog` in the theorems of `CircWriter`, `LessThanChunk` in `writer_calm` |
| `sdcard.c:586` | a card that has not become ready after all tries of ACMD41 is not given up: CMD9 is sent all the same, and what it answers decides | `OpCond`, `SendCsd` |
| `sdcard.c:462` | the wrap of the ring skips an update of block 1: up to 198 writes between two updates, not the 100 of README.md:27 | `MetaDue`, `ResetNumber`; the bound `2 * MetaPeriod - 2` of `RestartRewind` |
| `sdcard.c:621` | the middle byte of the size is sign-extended: cards of 32 GB and more, where it is 0x80 or above, get a wrong size | `CSize`; the cards of `handshake_small` and the hypothesis of `SizeExact` |
| `usart.c:175` | the handlers of the pins are not masked and print into the middle of a line, against usart.c:20-21 | `EdgeInterrupt`; `"edge" \notin irqs` in `LinesKeptApart` |
| `usart.c:98` | the tail of a sentence of 100 bytes or more is printed as if it were a line, and a lost line feed makes one line of two sentences | `Store`, `Arrive`; the hypotheses of `SentencesWhole` |
| `usart.c:185-187` | the GPS interrupt is unmasked before `_try_to_transmit`, whose handler's run of it moves the consumer index under it: bytes are sent twice or skipped | `SendBump`; `irqs \subseteq {"tx"}` in `WireIsStream` |
| `magnetometer.c:52` | the write of the gain is not checked | `MagnetInit`; not part of `InitConfigures` |
| `presstemp.c:107` | unreadable calibration parameters are -1 and initialisation succeeds | `PresstempInit` |
| `tach.c:47` | two edges of a pin merge while a handler writes to the card, and a turn of the wheel is lost | `HandlersShort` in `NothingMissed` |
| `main.c:120` | the stamp of a JAGMT line may be up to 255 jiffies, 2.5 seconds, ahead, as `jiffies` is loaded in bytes with interrupts enabled; main.py:30 expects 11 ms | `ReadLow`, `ReadRest` of `Clocks`, `StampBounded`; `Ahead`, and `~torn` in `AccurateButForLost` |
| `main.c:120` | a PPS line may come between the load of a JAGMT line's stamp and the line: the stamp is older than the match before it, and the script's unsigned difference wraps | `Load`, `Pps`; `lines[row].at >= ...` in `AccurateButForLost` |
| `system_timer.c:35-38` | the timer is set back when its handler runs, however late: while another handler writes to the card the clock loses time, against the 11 ms of main.py:30-31 | `Run`; `Lost` in `AccurateButForLost` |
| `main.py:241` | when the clock has stood still from one match to the next their stamps are equal, and the script divides by zero | `AbortsOnlyOn`, its third disjunct |
| `presstemp.c:255` | parameters that were never read divide by zero, as main goes on after a failed initialisation | `Unread`; `par = Unread` in `DividesByZeroOnlyUnread` |
| `presstemp.c:255` | C divides towards zero and Python downwards: up to 13 Pa and a tenth of a degree between the logger and `calcTempAndPress.py` | `Quotient`; the margins of `AgreesWithReference` |
| `presstemp.c:227` | the pressure is in Pa, not in hPa | `AgreesWithReference` |
| `main.py:33-34` | resets are not tolerated: between matches on both sides of one the difference of the jiffies wraps, or is zero and the script divides by it | `Offset`; the equal `boot` in `AccurateButForLost`, and `AbortsOnlyOn` |
| `main.py:137` | a PPS line without its stamp is announced as a warning and then aborts the script, as None goes into an array of integers | `NoStamp`; `AbortsOnlyOn` |

## The proofs

TLAPS checks every theorem for all values of the constants that satisfy the modules'
assumptions (`CardAssumption` and the like), which say no more than that sizes are
natural numbers in the order the program has them in.

| Module | Theorems | The argument |
|---|---|---|
| `SdCardProofs` | `TypeCorrect`, `HeadAlwaysInRing`, `ReservedBlocksKept`, `UnmarkedCardsUntouched`, `RestartRewindBounded`, `RingInOrder`, `RingComplete` | described below |
| `CircWriterProofs` | `TypeCorrect`, `LockExcludes`, `LockIsReleased`, `EnoughToWrite`, `RingNeverLaps`, `WriterImplementsLog`, `CallsDoNotOverlap` | the strengthening describes the stack: above the call that holds the lock there are only calls that have not passed the test of the lock; a call between the test and the setting is below no holder, because a handler is done before the interrupted call goes on. The last four are described below |
| `UsartProofs` | `TypeCorrect`, `InterruptsComeBack`, `LinesApart`, `NoUpdateLost`, `WireFollowsStream` | `Masks`: the receiver is masked only while main copies, the transmitter only while it prints, as no handler leaves a mask behind. `Unmixed`: without pin handlers, the receiver is masked while main copies, and the stream ends with the bytes of its line that main has put, so every other line begins behind a whole one. `Counted`: `producer` is the length of the stream modulo the size, or one behind until main has stored its increment; in between nobody else puts a byte. `Sent`: the wire is a prefix of the stream, what follows is in the buffer, each byte in its slot, and together with what main has still to put of its line it is less than the buffer, so that no put overwrites a byte that waits. The remainders rest on lemmas about `%` proved there |
| `GpsRxProofs` | `TypeCorrect`, `UndamagedPrinted`, `OnlyLines` | `Newest`, `InOrder`, `Apart`: the newest byte is the last to be taken, so what was taken is older than what waits and only a waiting byte is overwritten. `LineBegun`: behind a line feed that was taken, `fifo_buffer` holds what was sent since, as long as nothing was lost and it fits; `SentencesWhole` is the case of the next line feed. For `LinesSound` the buffer is ascending, free of line feeds (`Ascending`), and younger than the last line printed (`Younger`) |
| `CardInitProofs` | `SizeExact`, `TypeCorrect`, `HandshakeIsProbe` | the size is computed without overflow when the middle byte is below half its range; every step of the handshake then is a step of `SdCard` or a stutter |
| `SensorBusProofs` | of `TwiBus`: `BusTypeCorrect`, `BusAlwaysReleased`, `Implements`; of `Sensors`: `TypeCorrect`, `SamplesHonest`, `PressureHonest`, `ConversionsApart`, `InitsConfigure` | on the bus, the device drives the data line only between the read address and the byte that is not acknowledged (`DataLine`), and the counters relate `i`, `accepted` and `filled`; in the loop, `CallOrder` says which samples have been taken when a call is next, and registers are never unset after a successful initialisation |
| `TimestampsProofs` | `TypeCorrect`, `LogKeepsOrder`, `PerfectTrue`, `EveryEdgeMatched`, `ClockNeverFast`, `Accurate`, `AbortsOnlyOnReset` | described below |
| `ClocksProofs` | `TypeCorrect`, `Invariant`, `JiffiesNeverFast`, `StampIsEdge`, `NoEdgeMissed`, `StampIsBounded` | `Behind`: before an overflow the count since the reload comes on top of the periods counted, after it a whole period does; `EdgeWaits`: while a rising edge waits, `jiffies` stays, as the pins come before the timer |

`ClocksProofs` also has `InTime`, for handlers that are short against the pulses: an edge of the
tachometer waits for the handler that runs, one of PPS for this one and at most one of the
tachometer's, so each is handled before its pin changes again, and `AllHandled`, which then counts
the edges; and `Reading`: once main has loaded the lower part of `jiffies`, what it will put together
is at least their value when it began, and, as the upper part only grows (`PartsGrow`), exceeds their
value by less than `Base`, and then only behind a carry.

The theorems of `SdCardProofs` exclude no interrupt and no fault of the card. What they cannot say
of the code without a hypothesis is in the properties: `torn = 0`, that no chunk has been taken in
the middle of an access to the block number or of the transfer of block 1; and `overtaken = 0`,
that none has been taken while a call was in progress.

- `BootInv` says what each phase of `SPI_Init` has established (a known size, a clamped position);
  `HeadInRing` alone is not inductive, as `ready` says nothing about the phases before it.
  `OnlyMarkedCards` needs that the phases after `ReadId` imply the string, unless the read of block 0 failed.
- `NumberInv` is about the calls in progress while nothing is torn. A call that has another one on
  top of it is not in the middle of an access; of the innermost, what it has in its registers and
  how much of the number it has loaded or stored fit the number (`RegisterOK`, `NumberFits`). The
  number may then be one behind the ring only until the call that took it there has reset it.
  That an access in two parts comes to the whole, if nobody came in between, is a lemma about `Mix` (`Mixed`).
- `HeadInv` relates the number and the registers of the only call to the head, as long as nothing
  was overtaken. `RewindInv` relates block 1, the head and the number at every phase: between
  updates the distance grows by one with every store, starts over at a multiple of the period
  (`NoneDueBetween`), and may at worst miss one at the wrap.
- `RingInOrder` and `RingComplete` rest on `ChunksInv`: every block holds an older chunk than the
  one to come, and while the card is being identified no block holds one of this power-up. A
  store then puts the newest chunk where the oldest was; that no other pair of neighbours
  changes is a fact about successors in the ring (`NextBlockInjective`), and for completeness one
  about the block `k` positions back. The steps behind the store leave the `WritePosition` alone.

The other four theorems of `CircWriterProofs` have hypotheses, stated in `CircWriter`:

- `EnoughToWrite` assumes that no handler but the transmitter's interrupts, and nothing of the card.
  `EarlyOK` says that only the call on top has not printed yet, and, if main made it, that it runs
  with the transmitter's handler masked; `StopOK` relates its `stop` to the indices at every label.
- `RingNeverLaps`, `WriterImplementsLog` and `CallsDoNotOverlap` assume `Calm`, which adds that the card
  takes every block (a block that is not taken is lost, `sdcard.c:430`); `Fits`: a line and four debug
  messages are no longer than a block, nor are five messages, and the ring holds two blocks; and
  `ShortBacklog`. The lines of main's loop have at most 88 bytes and the messages of a command 95
  together, for blocks of 512 and a ring of 1024. The code does not guarantee `ShortBacklog`.
- `Level` bounds, at each label, the printed bytes that are not on the card (`HolderOK`). A call that
  holds the lock came to it with less than a block and one line or message (`EntryMax`); it adds
  one message before the block and one after it, so that with two more messages there is still less than a block
  when it releases the lock, and the calls it nests meanwhile find the lock set. `NoOverrun` alone is
  not inductive: it says nothing about which calls may still write. `HolderOK` also says that
  the bytes a call has sent are the next of the stream, which rests on `CellIs`: a byte no older
  than the ring is still in its cell.
- The refinement maps the blocks on the card to their bytes, one after the other. Printing is
  `Put`, the end of a block is `Take`, and every other step stutters.
- `OverlapInv`: a call past line 453 leaves less than a block for the messages it has still to print
  (`FinishOK`, a bound on the level at each label), and above it there are only calls that have not
  passed the test for a block (`Passing`), which they will not pass. An interrupt that prints a line is
  what breaks this, as the run `card_overtaken` shows.

`TimestampsProofs` proves for every log what the script makes of it, in three steps:

- `LogInv` is about the logger. `EventsInOrder`: a sentence or a PPS line is the only one of its
  event and stands behind everything older; `StillToCome`: of an edge or a sentence still to come
  there is no line yet, without which the order is not inductive; `LinesStamped`: a stamp is what
  the clock had counted at the line's own moment in whole jiffies, unless it is torn, and
  `LoadedStamp` the same of a stamp that main has loaded for a line it has not printed.
  `ClockSlow`: of all these moments, and now, no two of one boot are further apart by the clock
  than in time, and the clock does not go back.
- `MatchInv` is about the first pass. The sentence `k` speaks of a second `s`, the one
  before it of `s - 1`, and exactly one edge lies between them, that of `s` (`EdgeBetween`, a fact
  about quotients of the second): a PPS line there can be of no other edge (`MatchIsTrue`), and if
  there is one it gets its time (`EdgeIsMatched`). Lost and damaged lines are no exception: where
  a sentence is missing, the neighbours are not a second apart and give no match.
- `AccurateButForLost` and `AbortsOnlyOn` are about the second pass. Without a reset between them
  the stamps of two matches are in order (`JiffiesGrow`), and equal only if the clock has counted less
  than a jiffy between them (`NoOffset`), which are a second or more apart (`MatchesApart`): only then
  something is divided by zero. The unsigned differences do not wrap, as a log is shorter than
  2^32 units (`LogEnd < Wrap` in `TimestampsAssumption`). The stamps of the line and of the two
  matches each lose less than a jiffy to rounding; in the interpolated time these losses add up to
  less than a jiffy still, and what the clock lost before and after the line adds up to what it
  lost between the matches (`LossAdds`).

Only model-checked:

- liveness (`CallsReturn`, `HandshakeEnds`, `Drained`, `Served`), which is out of this prover's reach;
- `Barometer`: `AgreesWithReference` compares two computations on the numbers of a given chip, and
  its margins are those of that chip; `DividesByZeroOnlyUnread` is not a fact about every chip
  that `BarometerAssumption` admits, as parameters can be chosen that make the divisor zero.

## What is not modelled, and the plan

The plan puts the data path first, since a logger that loses or mixes its log is of no use,
then what is logged, then its evaluation.

Done: `SdCard`, `ByteLog`, `CircWriter`, `Usart`, `CardInit`, `TwiTransfer`, `TwiBus`, `Sensors`,
`Clocks`, `GpsRx` and `Timestamps` with their proofs; `Barometer`.

Next: a composition of `GpsRx` with `Usart`, the line byte by byte on both sides, if TLC can
afford it.

Left out: `sdcard_write_block` (no caller), the messages of `SPI_Init` one by one (`Backlogs` is
what they leave), baud rates and
the electrical side, `hardwareNotes/` and `workstationTinkering/` (no part of the logger),
`firmware/exampleIFound/` (a third-party demonstration), the plots and everything behind
the `assert False` in `main.py` (line 252), which never runs; `PT:` lines, which carry no stamp; the altitude
formula of `calcTempAndPress.py`, in floating point and not used by the logger.
