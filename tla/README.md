# NavHAL, specified

NavHAL is a hardware abstraction layer in C for small microcontrollers (STM32F4 and F7,
AVR, and a PC port), with a two-stage secure bootloader built on top of it. This directory
holds TLA+ models of the parts of it whose correctness depends on order, interruption and
failure, the TLC runs that check them on small instances, and TLAPS proofs of the results
that matter most. Paths below are relative to the repository root; in `PROJECT.json` they
carry the prefix `src/`.

## 1. The system and its parts

| part | code | state it keeps | operations | what is hard |
|---|---|---|---|---|
| boot block | `src/common/hal_boot.c` | four words of RAM that survive a reset: magic, request, attempts, check | init, get/clear request, account attempt, mark healthy, request | a request may be raised in an interrupt while the thread is sealing; a reset can fall between two stores |
| loader sequence watcher | `src/common/hal_boot.c`, `boot/app/main.c` | position in the sequence, entry policy | match a byte, feed a buffer, reset, enable, disable | a mismatch inside a match may itself begin the sequence |
| stage-1, stage-2 | `boot/stage1/main.c`, `boot/stage2/main.c` | partitions in flash, the rollback floor, the boot block | verify, jump, recover, raise the floor | every decision is repeated after a reset at any point |
| update protocol | `boot/common/updater.c`, `tools/recover.py` | the `erased` flag of a session; the tool's place in its script | INFO, ERASE, WRITE, VERIFY, FLOOR, RUN | lost replies, resets in the middle of erasing and programming, repeated sessions |
| key/value store | `src/vendor/stm32/flash/flash.c` | records in a primary sector, a secondary sector for compaction | save, read, delete, erase, compaction | bits only go one way; a power cut can fall between any two half-words; lengths are kept in a `uint8_t` |
| raw flash | `src/vendor/stm32/flash/flash.c` | the flash array, the controller's lock | erase a sector, program a range | 32-bit address arithmetic; time-outs in the middle of a loop |
| EEPROM store (AVR) | `src/vendor/microchip/flash/flash.c` | the same records in EEPROM | save, read, delete, erase | a power cut between any two bytes |
| USB CDC device | `src/vendor/stm32/usb/usb_cdc.c` | endpoint busy flags, receive ring, control state | init, deinit, read, write, notify, control requests, bus events | interrupt and thread share every flag; reset and reconfiguration fall anywhere; the host gives up transfers |
| Ethernet | `src/vendor/stm32/eth/eth_f7.c` | descriptor rings shared with the DMA, PHY state | transmit, receive, MDIO access, interrupt | ownership bits, a cache that loads lines by itself, an event between the drain and its acknowledgement |
| DMA, UART over DMA | `src/vendor/stm32/dma/dma.c`, `src/common/hal_uart_dma.c`, `src/common/hal_i2c_dma.c` | armed streams, bindings, the circular receive buffer, stream callbacks | write, arm, index, bind, attach | what a stream is set up for and what it is started with are set at different times by different clients |
| I2C | `src/vendor/stm32/i2c/i2c.c` | the peripheral's ACK, POS, STOP and two data registers | read, write-read, recovery | the peripheral goes on clocking while the driver decides |
| SD card | `src/vendor/stm32/sdio/sdio.c` | the rendezvous flags, the card's own state | four asynchronous transfers, wait | two interrupts must meet, in either order; time-outs race late answers |
| timebase, timers | `src/arch/armv7e-m/timebase`, `*/timer` | tick counter, divider and period | millis, micros, delays, time-outs, frequency | counters and products wrap |
| UART, SPI, RTC, watchdogs, interrupts, GPIO, PWM, ADC, CRC, clocks | `src/vendor/*`, `src/common/*` | mostly the peripheral's own registers | polled transfers, register set-up | bounded waits |

How they interact: the application feeds every console byte to the watcher, whose match
calls `hal_boot_request`, which seals a request into the boot block and resets the board.
Stage-1 reads the block, either serves a loader for the stage-2 partition or verifies
stage-2 and jumps; stage-2 does the same for the application, with the rollback floor it
keeps in the key/value store. Both loaders run `updater_serve`, which erases and programs
through the raw flash functions; a host drives it with `tools/recover.py`. The application
reports `hal_boot_mark_healthy`; a board that is handed over `HAL_BOOT_MAX_ATTEMPTS` times
without one is a crashloop. The drivers meet in the DMA streams, which UARTs, I2C buses and
the SD card share, and in the timebase, on which every time-out counts.

`PROJECT.json` lists every component, modelled or not, and the hazards: the places where
the code can go wrong in a way a test would hardly reach, with the properties that watch
each of them.

## 2. Modules

| module | what it models | extends |
|---|---|---|
| `BootBlock` | `block_seal` store by store, in a thread and nested interrupts; both stages' use of the block | |
| `BootBlockProofs` | type correctness; `SealAtomic`, `SealInv`, `StrikesBounded`; `MatchExact`, `LongestMatch` | `BootBlock`, `BootMatch`, TLAPS |
| `BootMatch` | the sequence watcher on streams of bytes and buffers | |
| `BootChainProofs` | `RunsVerified`, `NotRolledBack`, `NoMixture`, `RunLeavesStage1`, `RunIsAccepted`; `UpdateSpec => Spec` | `BootUpdate`, TLAPS |
| `BootChain` | stage-1, stage-2, the loaders, the application, flash operations that take time, resets | |
| `BootUpdate` | `BootChain` composed with `recover.py` and an operator who keeps running it | `BootChain` |
| `FlashKV` | the STM32 key/value store, half-word by half-word, with power cuts | |
| `FlashRaw` | the guarded erase and program functions on bounded addresses | |
| `FlashProofs` | `ReadsBack`, `CutInAppend`; `Confined`, `ProgramExact`, the loop's bounds | `FlashKV`, `FlashRaw`, `NumberLemmas` |
| `KVStore` | what `hal_flash.h` promises of a store: a map, and what a power cut may do to it | |
| `EepromKV` | the AVR store, byte by byte, with power cuts; implements `KVStore` | |
| `EthPort` | what the Ethernet header promises: two bounded queues of frames | |
| `EthRing` | the descriptor rings, the data cache, the DMA, the interrupt, start and stop; implements `EthPort` | |
| `UsbRx` | the receive ring, its flow control, `hal_usb_cdc_read` against the interrupt | |
| `UsbTx` | the two IN endpoints, `hal_usb_cdc_write` and the notification against the host's requests | |
| `UsbControl` | endpoint 0: requests, data stages, replies, bus events | |
| `DmaStreams` | streams and the UARTs and I2C buses that share them | |
| `UsbProofs` | `FlowControl`, `InOrder`; `BusyIsLive`, `OneInFlight`, `WriteBoundary`; `ConnectedIsTrue`, `CodingWasAsked`, `ReplyEnds` | `UsbRx`, `UsbTx`, `UsbControl`, TLAPS |
| `DriverProofs` | `OwnWire`, `NotCut`, `IndexExact`; `OkIsDone`, `CardFreed`, `GivesUpRightly`; `ReadExact`; `DelayLasts`, `TimeoutLasts`; `PeriodFits` | `DmaStreams`, `SdTransfer`, `I2cMaster`, `Timers`, `NumberLemmas` |
| `EepromProofs` | `ImplementsStore`: the bytes are `KVStore` | `EepromKV`, `NumberLemmas` |
| `NumberLemmas` | induction over numbers without a predicate, functions defined by recursion, division | TLAPS |
| `EthProofs` | `Implements`: the rings are `EthPort` | `EthRing`, TLAPS |
| `I2cMaster` | the polled reads of the F4 master against its peripheral | |
| `SdTransfer` | block transfers by DMA: the thread, two interrupts, the card | |
| `Timers` | the tick counter, delays and time-outs; the divider searches | |

The `MC*` modules give the constants their values for TLC. Four of them put together
modules whose states do not meet: a variable `part` is chosen at the start and only that
part moves, so the state spaces add up and every property of the parts is checked in one
run. A definition marked "mutant" is a plausible error in the definition after it;
`PROJECT.json` pairs each property with one, and the property fails when the mutant takes
the definition's place.

### BootBlock

`sboot` is `_sboot`. `pc[c]` is the next store of `block_seal` in context `c` (0 is the
thread, higher ones are interrupt priorities, and a context runs only while every higher
one is idle); `arg[c]` holds the values being sealed and what follows the seal. One action
per store: an interrupt can raise a request (`RequestTarget`) between any two, and `Warm`
(watchdog, pin or system reset: RAM is kept) and `PowerLoss` (RAM becomes `Garbage`) can
fall anywhere. `mode` walks through the calls of `boot/stage1/main.c`,
`boot/stage2/main.c`, `updater.c` and `boot/app/main.c`. A console can only ask for LOADER,
from any context in `Requesters`; STAGE1 is named by thread code. `sealed`, `strikes` and
`overlap` are history.

Assumed of uninitialised RAM: it is not a sealed block and storing one request or count
over part of it does not make it one. Assumed of the exclusive or: closed, commutative,
associative, injective. Assumed of the constants: a request word and NONE do not differ by
as little as two strike counts do. LOADER and STAGE1 do (`0x10ADED00`, `0x10ADED01`).

### BootMatch

`pos` is `s_pos`, `heard` the history of bytes. `MatchByte` is `hal_boot_match_byte` with
its one-byte resync; `Feed` and `FeedByte` are `hal_boot_feed`'s loop, which stops at the
first match. Bytes come from one context at a time.

### BootChain and BootUpdate

A partition is a set of cells; an image is in it when every cell holds that image's part.
`Good(p)` is `boot_image_is_good`: some signed image is there, whole. Whatever verifies
gets control, also if it was built for the other partition (mode `wild`). Erase, program
and the save of the floor begin in one action and end in another; a reset between leaves
the sector, the cell or the floor in any state the hardware can leave it in (`TornFlash`,
`TornFloor`), and so does a flash controller that times out in the middle of an erase
(`EraseFails`) or of a program (`WriteFails`), after which the loader answers FLASH and goes
on. The host in `BootChain` sends anything at all. In `BootUpdate` it is
`recover.py`, step by step with its exits, run again and again; `LineFault` is a frame or a
reply that is lost, damaged or late, at which the tool gives up whether or not the loader
has acted on it. `told` is history: the partition VERIFY acknowledged, kept until the tool
has sent its RUN, through whatever resets the board meanwhile.

The boot block is one value in these modules, or `Lost`: `BootBlock` is what justifies it.

### FlashKV, EepromKV and KVStore

`mem` is the two adjacent sectors, byte by byte. Programming is a bitwise AND of a
half-word (`BitAnd` and `BitXor` are constants that the runs give their definitions: the
proofs use no more of them than `BitsAssumption` says); on an odd address the controller may refuse, and the code does not look. `Save`,
`Delete` and `EraseAll` begin a call; the actions from `SkipRecord` on are the loops of
`flash.c`, one half-word or one record at a time. `WriteHeader` programs an arbitrary
`reserved` byte because `rec.reserved` is never assigned. `allowed[k]` is history: what a
read of `k` may return.

In `EepromKV` a call works out the list of bytes it will write and `Put` writes them one at
a time; `Cut` falls between any two and may leave the byte under way erased. The refinement
to `KVStore` reads the map off the bytes between calls, and keeps during a call the map
from before it: so a call takes effect at its return, a cut one has taken effect, or not,
or has lost its own key, and no other key ever changes. `ByteXor` is the exclusive or of two
bytes, a constant that the runs give its definition: the proofs use no more of it than that
it is a byte. `TornIsSeen` is the proviso on the values saved, see section 4. The STM32 store does not implement
`KVStore` under power cuts: a cut inside a compaction loses every key.

### FlashRaw

Addresses are 0..`AddrMax` and sums wrap there as `uint32_t` sums do. `Base` and
`SectorSize` are the sector tables. `RawProgram` and `RawErase` begin with the code's
guards; the loop is one action per half-word, with the read-back; time-outs and resets are
actions.

### EthPort and EthRing

`rxDesc`, `rxBuf`, `txDesc`, `txBuf` are what memory holds and the DMA sees; `cache` holds
the lines the CPU has loaded, or `Absent`. `Prefetch` loads any line at any time;
`Invalidate` and `Load` are what `hal_dcache_invalidate` and a read do. A store and its
clean are one step, so no line stays dirty: descriptors are a line each
(`eth_f7.c:68`), and the CPU writes receive buffers never. `hal_eth_send` and
`hal_eth_receive` are a step per access; one thread calls them, and the interrupt handler
preempts it and receives until the ring is empty. `Stops` says whether the application's
callback may take the answer to a damaged frame, `HAL_OK` with no length, for an empty ring;
`due` is history: the frames that had come when the handler read `DMASR` and that the
callback, if it does not end at such an answer, has still to take. `Wire` and
`DmaReceive` are the DMA. The PHY, link and speed are not modelled.

The refinement reads the queues off the rings: from the DMA's position as many transmit
descriptors as it owns, from `_rx_idx` as many receive descriptors as it does not.

### UsbRx, UsbTx and UsbControl

The three meet only in the core, and each takes the core and the host as doing anything the
other two could make them do. In `UsbRx` a byte is its number in what the host sent; an
interrupt handler runs to its end, so each of its parts is one action, and
`hal_usb_cdc_read` is split where its loop loads `rx_tail` and where it loads `rx_head`, at
each access to the ring and where it stores `rx_tail`. The test of lines 896-897 before the
re-arming is one step (`ReadCheck`): what it loads can go stale only towards more room, but
for a request that re-arms the endpoint (`forced`), and the arming, which masks interrupts
and does not look at the ring again, is a step of its own. A halt set or cleared on address 0x02, which is
no OUT endpoint of the device, changes endpoint 1's armed flag or re-arms it all the same
(`EpHalt("notif")`, `EpClearHalt("notif")`). `forced`, `gap` and
`torn` are history: a request has re-armed the endpoint past its flow control, or has it
taken for closed while it is open; bytes were
dropped where the code drops them, a bus reset fell inside a read. In `UsbTx` the thread is
split between the wait for a busy flag and the arming with interrupts masked; `yanked`,
`reopened` and `broken` say that a control request cleared a flag early, left one set, or
cut a write. In `UsbControl` `pending` is GINTSTS and `told` what the host has set; the
host may leave a transfer for a new SETUP at any point, and send a SET_LINE_CODING less data
than it announced (`ShortStage`). A request may be served while an event is pending: with a
reset pending it is of a transfer the host has left, and the state is `mixed` from then on.
`mixed` and `dropped` are history: events or requests the handler could have met in another
order, and a SET_LINE_CODING given up or sent short since the last whole one.

### DmaStreams

`dev[s]` is what the last `hal_dma_init` set stream `s` up for, `job[s]` the client whose
memory it was last pointed at: `hal_uart_write_dma` sets both the first time and only the
second afterwards. `WriteNext` and `WriteSent` are the two sides of `hal_dma_set_memory`'s
wait. `I2cReadRegs` is `stm32_i2c_dma_read_regs`, with `I2cNoAnswer` for its time-outs before
the stream is set up, and `I2cHandler` is its interrupt handler, which
always stops HAL_I2C_1. `StreamIrq` is a stream's handler up to the caller's callback, which
may start the next read, and `StreamIrqEnd` clears the stream's flags after it; where the
caller's callback is not called the two are one step, since no flag anybody reads can come
in between. `clash`, `astray`, `overlap`, `lost` and `cut` are history: clients whose
streams were ever the same, that were bound elsewhere while set up, reads side by side,
reads that ended inside the callback that started them, and
transfers stopped. The cache maintenance of the buffers is left out.

### I2cMaster

`ClockByte` is the peripheral: as long as the last byte was acknowledged and DR or the
shift register is free, another byte comes in, judged by ACK and POS at that moment. The
driver takes one register access a step. `late` is history: a byte ended while the driver
was not waiting for it, in a read that cannot be paused.

### SdTransfer

`spc` is the thread, from `Begin` to the `Return` of `hal_sdio_wait_sync`. An unmasked
interrupt that is pending is taken before the thread's next step; the wait may be made with
interrupts masked (`primask`). The card has the states of the specification's state
machine that the driver relies on. A command may be refused, taken and not heard, or heard.

### Timers

Microseconds pass one at a time in `Elapse`, which takes the tick interrupt when it is due.
All arithmetic of a `uint32_t` wraps at `Word`. `spin` is the wait under way; `age` and
`wrapped` are history. `Searched` and `Solved` are the two divider searches.

## 3. Runs

| run | checks | bounds, and why they are enough |
|---|---|---|
| `boot` | `SealInv`, `SealAtomic`, `StrikesBounded`, `MatchExact` | five-bit words; two interrupt levels above the thread, so a seal is preempted and the preempting one too; three strikes as in the code. A sequence of three distinct bytes and one foreign byte, streams of six: every way a match can fail and restart |
| `chain` | `RunsVerified`, `NotRolledBack`, `NoMixture`, `RunLeavesStage1` | a stage-2 of one sector with two cells, an application of two sectors, two releases and an unsigned content: an erase can stop between sectors, a write between cells |
| `update` | `Updatable`, `RunIsAccepted` | four faults anywhere, of any kind: resets, power cuts, flash time-outs, lost or damaged frames |
| `flash` | `ReadsBack`, `CallsReturn`, `CutInAppend`; `ProgramExact`, `Confined` | two keys, two values, two records to a sector, four calls, one cut: the third save compacts. 24 addresses in eight sectors, every address, length and sector asked for |
| `eth` | `CallbackDrains`; `Implements`, `Transmitted`, `PolledDelivered` | two descriptors a ring, so it wraps, fills and empties; two contents; frames travel one way in a behaviour, since the directions share no descriptor and no line |
| `usb` | `InOrder`, `FlowControl`, `Reopens`; `BusyIsLive`, `OneInFlight`, `WriteBoundary`; `ConnectedIsTrue`, `CodingWasAsked`, `ReplyEnds` | a ring of three slots and packets of two, so one packet closes the flow control and the ring wraps; one bus reset, at any step (the proofs are for any number); writes of one whole chunk and of a chunk and a byte; replies below, at and above one packet |
| `drivers` | `OwnWire`, `NotCut`, `IndexExact`, `CallbackComes`; `ReadExact`; `OkIsDone`, `CardFreed`, `GivesUpRightly`; `DelayLasts`, `TimeoutLasts`, `PeriodFits`; `ImplementsStore` | two transmitters, a receiver and two buses with overrides that collide and overrides that do not; reads of up to five bytes, so each of the four endings occurs; SD transfers of every kind, any number of them; a sixteen-tick word, so a delay straddles the wrap, ticks of one to three microseconds, three to the millisecond; every frequency of a clock of 63 on four timers; an EEPROM of three records, four calls, two cuts |
| `eth_lost_event` | `CallbackDelivered` fails | |
| `update_torn_floor` | `Updatable` fails with one torn floor record | |
| `kv_spill` | `ReadsBack` fails when a record does not divide the sector | |
| `kv_hang` | `CallsReturn` fails for records of 256 bytes | |
| `dma_shared_stream` | `ConflictFree` fails with the streams USART1 and USART6 have | |

Fairness. `FlashKV` has weak fairness on the steps of a call under way: the code is
sequential and waits only for the flash controller. `BootUpdate` has weak fairness on the
board (its loops run for ever, flash operations end) and on the tool and its operator, who
keeps trying; faults are not fair, and stop after `MaxFaults`. `EthRing` has it on a call of
the driver under way, on a caller that polls, on the handler while its interrupt is pending
and on the transmit DMA; nobody need send and no frame need come. `UsbRx` has it on a raised
interrupt, on a read under way and on an application that reads again and again, which
`Reopens` is about. `DmaStreams` has it on an enabled stream whose peripheral asks, on a
stream interrupt whose line is enabled, on a handler whose callback has returned and on the
thread inside `hal_dma_set_memory`. The
other specifications are safety only; `GivesUpRightly` and `ImplementsStore` are about steps.

Deadlock is checked except where calls, bytes or time are bounded and may all be spent: in
`flash`, `usb`, `drivers` and the violation runs on their modules.

## 4. What the runs show

The properties hold except for what the violation runs show; `findings` in `PROJECT.json`
quotes the sentence of the repository each one contradicts.

* A record is appended wherever one byte is free, and may run over into the secondary
  sector, which the next compaction programs over (`flash.c:203`).
* A deleted record of 256 bytes, header included, has length 0 in the compaction's
  `uint8_t`, which then never ends (`flash.c:276`); a live one makes it fail.
* The check byte is an exclusive or, so a four-byte value cut after its first half-word
  reads as a value nobody saved when the missing bytes are equal (`flash.c:183`). For the
  rollback floor that is a floor above every release: with that one cut no release can be
  installed any more with `recover.py`.
* A frame received between the callback's last look at the ring and the write that clears
  `DMASR` loses its event (`eth_f7.c:538`) and waits for the next frame.
* USART1 and USART6 transmit by the same stream, and which of the two a write leaves by is
  settled by which of them was set up last (`uart.c:329`, `hal_uart_dma.c:142`).

What a property's proviso leaves out, and is so in the code:

* USB: a cleared halt, SET_INTERFACE and SET_CONFIGURATION re-arm the OUT endpoint whatever
  the ring holds (`usb_cdc.c:340`, 364, 294), against the flow control of lines 609-611:
  the packet that follows is dropped in part. A bus reset inside `hal_usb_cdc_read`, between
  its read and its write of `rx_tail`, leaves the ring seeming to hold bytes nobody sent.
  The notification endpoint's busy flag stays set when SET_CONFIGURATION tears its transfer
  down (line 293), and every later notification times out. A cleared halt and SET_INTERFACE
  clear the busy flag of a transfer still in flight (lines 336, 362).
  `ctrl_out_request` is not withdrawn by a new SETUP, so a later OUT packet is taken for the
  line coding (lines 600-604), and a data stage of less than seven bytes leaves the rest of
  the coding to what `ep0_buf` held. A halt set or cleared on OUT address 0x02 changes
  endpoint 1's flag (lines 339-342). Suspend and reset pending together leave the device suspended
  (lines 644-666).
* I2C: reads of one and two bytes by `hal_i2c_write_read`, and every `hal_i2c_read`, clear
  ADDR in `_i2c_write_addr` before they have set ACK, POS and STOP: they are exact only if
  the driver is quicker than the bus (`late`).
* DMA: an I2C read that is started in the callback of the one before, and ends before that
  callback returns, never calls its own, and the bus is never stopped: the handler clears the
  stream's flags last (`dma.c:321`), and `lost` records it. `hal_i2c.h:165` says of the
  callback "Invoked when the DMA transfer completes."
* Ethernet: a damaged frame is answered like an empty ring, `HAL_OK` and no length
  (`eth_f7.c:473`), though `hal_eth.h:251` says that means none was pending: a callback that
  drains the ring by that leaves the frames behind it, and their event is acknowledged.
* Timers: `hal_delay_ms` multiplies in 32 bits (`timebase.c:129`): above 4,294,967 ms a delay
  is short by 2^32 microseconds or several times that. `asked` is what the caller asked for,
  and `DelayLasts` leaves those delays out. Milliseconds are taken from a microsecond count that wraps after 71 minutes, so a
  time-out across the wrap ends at once or late (`timebase.c:142`).
* A request that preempts another request's seal reads the half-sealed block as zero
  strikes (`hal_boot.c:181`); `StrikesBounded` says that without that overlap the count is
  never lost.

Observed while modelling and not the subject of a run:

* Boot. `docs/roadmap/secure-bootloader.md:493` sends three watchdog resets to stage-2's
  update mode; the code sends every crashloop to stage-1's loader. Line 255 has a pin reset
  clear the strikes; the code counts it. Stage-2's RUN asks only for the signature, not for
  the floor (`updater.c:230`), so it can reset into an image stage-2 then refuses. RUN
  clears the strikes whether or not anything was replaced (`updater.c:242`).
  `RECOVERY_CMD_FLOOR` stores any value, above the running version too (`updater.c:219`).
* Flash. A header cut after its first half-word has size 0xFF; the next record starts at an
  odd address behind it and its save may return `HAL_OK` without being readable afterwards.
  A power cut between the erase of the primary sector and its refilling loses every key:
  nothing reads the secondary sector at start-up (`flash.c:317`).
* EEPROM. A value of odd length cut before its data reads as 0xFF bytes with `HAL_OK` when
  its check byte happens to be 0xFF; `TornIsSeen` leaves such values out. A save that finds
  no room has already deleted the old value (`flash.c:89-95` of the AVR port). After a cut
  erase records from the past can come back, which is what `sure` in `KVStore` stands for.
* Ethernet. The waits of `eth_f7.c` leave `spin` at its maximum when they time out, so
  `if (!spin)` reports success (lines 167-170, 177-180, 190-205, 321-324).
* USB. The receive FIFO is not flushed on a bus reset. A read tests `ring_free` outside the
  mask it re-arms under (lines 896-897).
* DMA. The I2C handler is attached to streams 0 and 5 of DMA1 only, and stops HAL_I2C_1
  whichever bus it is for; a second bus's read overwrites the first one's configuration; a
  read refused with `HAL_ERR_BUSY` leaves the bus held and the stream set up anew. A UART
  bound elsewhere after its first write points a stream that was never set up. A read that
  times out before its stream is set up leaves START sent and no STOP (`i2c.c:77-100`).
* I2C. Time-outs of `write_read` send no STOP, and POS stays set.
* SD. Neither the wedged path nor the error path stops the DMA stream; an error interrupt
  followed by the stream's own calls the callback twice; `hal_sdio_read_blocks_async` clears
  `sd_last_was_write` before its busy test (`sdio.c:864`); a read command answered badly
  leaves the card sending with no CMD12.
* Timers. A delay of less than a tick may last
  almost nothing; `hal_timer_get_frequency` divides by zero for a reload of 0xFFFFFFFF; a
  tick period too long for SysTick's 24 bits is cut silently.

## 5. Proofs

`BootBlockProofs`: `TypeCorrect`, `SealInvariant`, `SealIsAtomic` and `StrikesAreBounded`.
`SealAtomic` alone is not inductive: it
says nothing of a block that does not validate yet. `SealInv` adds where the check word
comes from (`Raw` or `Known`), which values a seal under way may carry (`SealArgs`,
`ThreadArgs`), which of its fields are already in the block (`Stored`), that between calls
the block is the last one sealed (`Settled`), and which requests can stand in which mode
(`Routed`, `Overwritten`). The one dangerous store is that of the request word: new request,
old count, old check. `CheckSeparates` shows that it validates only if the words differ by
as little as strike counts do, which is so only for LOADER over STAGE1, and `Overwritten`
deals with that case.
`StrikesBounded` rests on `SealInv` and on `Counted`, which holds until a request is raised
while another is being sealed (`overlap`): the count in the block, and the count of each
seal under way, is no lower than the number of handovers since the last healthy mark, and
is above it already while stage-1 is about to hand over; an application that seals for no
request marks itself healthy, which starts the history again.

`BootChainProofs`: `ChainInvariant` carries the four safety properties of `BootChain` for
every layout, set of images and floors. Beside the properties themselves `ChainInv` says
which flash operations can be under way in which mode (`BusyFits`: stage-2 waits only for a
save of its own application's version, above the floor), how far an erase has come
(`Session`: the sectors not yet erased lie at or above the one in hand, and a write is in
hand only once none is left) and what the boot begun by a RUN still remembers (`Begun`: no
STAGE1 request, no strikes, a good stage-2). `UpdateIsChain` then shows that `BootUpdate`
implements `BootChain`, so that the invariant holds under `recover.py` as well, and
`RunFollowsVerdict` adds `VerdictKnown`: between VERIFY's ACK and RUN the partition it was
about is `Bootable`, no erase, write or save can touch it or raise the floor above it,
wherever the board has been reset to, because only the tool begins a flash operation of a
loader and stage-2 raises the floor to the version of the application it holds. Assumed (`ChainAssumption`): no signed image
is also unsigned contents, the factory's application is signed, and every partition has a
cell. Nothing is assumed of the host.

The watcher, in the same module: `MatchIsExact` and `MatchIsLongest` for every sequence of distinct bytes
and every stream, from the invariant that `pos` is the length of the longest suffix of the
stream that begins the sequence.

`FlashProofs`, the key/value store: `ReadsBackIfFits` and `CutInAppendIfFits`, for every size
of the sector, every set of keys and values of any even lengths, for as long as no record is
put where it does not fit (`RecordsFit`: it ends in the primary sector, and its length with
the header is a `uint8_t`). Those two provisos are exactly the faults `kv_spill` and
`kv_hang` show. `ReadsBackIfFills` and `CutInAppendIfFills` drop them where all
records have one length that divides the sector (`Fills`: 8, 16, 32, 64 or 128 bytes with
the header on the boards, 8 in the run `flash`), since records then stand at multiples of
that length (`Places`) and the last one ends where the sector does. What memory holds is said as for the
EEPROM store below, by a set of places (`Chain`, `One`, `Blank`, `WalkEnds`), here of either
sector. `StoreInv` says, until the first cut, what stage a call is at: on the way out the
copies in the secondary sector are those of the valid records passed so far (`Copied`,
`Outward`), so that the two sectors agree when the primary one is erased (`Away`); on the way
back the primary sector holds the first bytes of the secondary one (`Homeward`); a header is
marked half-word by half-word and the record disappears with the second (`Marking`); the new
record is written up to some byte and nothing behind it is (`Writing`). `Shifted` shows that
the same bytes elsewhere are the same records, `MarkGone` that a mark removes one record and
touches no other, `OneMore` what a whole record adds. A cut is then three cases: a record
whose length is not yet written is passed over and the walk stops behind it (`TwoBytes`), one
that is begun is refused for its check byte, or is whole (`RecordLeft`). Assumed for the cut
(`TornIsSeen`): the check byte tells a value from all that programming it passes through. As
the check byte is an exclusive or, that asks that no tail of a value, of an even number of
bytes, gives zero unless it is all 0xFF. `MaxCuts` is 1 at most there: what a second cut finds
is the observation about odd addresses in section 4.

The same module, the raw interface: `RawIsConfined` (no raw operation changes stage-1's
sectors or the store's), `ProgramIsExact` (HAL_OK means the whole range holds the caller's
data) and `LoopStaysInside`, from `RawInv`: types, the lock, and that a job under way was
admitted by the guard. Assumed: the sector table tiles the part and the protected sectors are
as on the boards.

`UsbProofs`, the receiver: `NothingDropped` and `BytesInOrder` for every ring and packet size. `FlowControl` speaks of the
ring's room and not of who may still use it up, so `RxInv` adds that bytes in the FIFO have
their interrupt raised (`Drained`), that the armed endpoint, the interrupt and a reader about
to re-arm take turns (`Turns`: only one of them is ever entitled to the room there is), what
a read between its steps knows of `tail` (`Taking`), and that the reader's test of
`ring_free` still holds when it re-arms (`Room`). `InOrder` is about the ring's contents:
`OrderInv` carries `RxInv` along and says slot by slot what the ring holds between the last
byte read and the first one still in the FIFO (`InPlace`), counted from wherever a read under
way has got to.

The same module, the transmitter: `BusyFlagsEnd`, `ArmedOnce` and `BoundariesSeen` for every packet size, chunk
of whole packets and length of write. `Waited` carries the clear flag the thread saw to its
arming. `Unbroken` is the argument about boundaries: what has been sent of a write under way
is whole packets and the host has all of it (`InWrite`); between writes the last transfer
ends in a short packet (`BetweenWrites`). Both rest on the flag being set
for as long as the endpoint has a transfer, which `Unbroken` says of a write nobody cut.

And endpoint 0: `ConnectedForHost`, `CodingIsTheHosts`, `AnswersEnd`. `Behind` says that
the driver's view is the host's but for the one event that is pending, `Expected` that
`ctrl_out_request` stands exactly while the host owes the data or has been reset.

`DriverProofs`, the DMA streams: `SendsOnOwnWire`, `RunsToItsEnd` and `IndexIsExact`, for every set of clients
and streams, every default mapping and every override. `AtHome` is the heart of it: a client
alone on its stream is found on that stream and on no other, and once armed the stream is
still set up for it; `Owned` says what holds of streams whoever uses them, `Counting` ties
the counter of a ring to the bytes received, and `Recorded` says that no client shares a
stream without being counted in `clash`. The receiver's override, which TLC does not
explore, is covered by the proof.

The same module, the SD card: `OkMeansDone`, `CardLeftFree` and `GivenUpRightly`, any number of
transfers after one another. That HAL_SDIO_OK means the transfer is over says nothing of one
that is under way, so `SdInv` follows it: nothing of an earlier transfer is left when one
begins (`Fresh`); from then to the wait each of the two ends is either flagged or served, and
the busy flag falls with the second (`Meeting`, the heart of it); what ended well has been
served to the end (`Closing`, `WellOver`); the data path is off outside a transfer (`Outside`);
and where the card can stand at each step, if every command was answered (`Freed`). The two
interrupts come in either order, and between any two steps of the thread.

The I2C reads: `ReadsExact` for every bound on the length of a read. `Steady` says for each
of the five endings which bytes lie in DR and the shift register at each of the driver's
steps, and that ACK, POS and STOP are set for it, as long as no byte ended where the driver
could not wait for it (`late`).

The timers: `DelaysLast` and `TimeoutsLast` for every tick, every width of the counter and
every wait. `DelayCounts` ties the ticks counted, modulo the word, to the time passed, both
ways; `TimeoutCounts` ties the milliseconds read to it as long as the microseconds have not
wrapped. `PeriodsFit` is arithmetic about the two searches: with dividers to choose freely
the search starts at the smallest that fits and tries only ones that can be programmed; from
a table the smallest that fits is taken, which `Least` shows to exist. Assumed of a timer (`TimersAssumption`): its dividers are
positive, and one that is programmed freely can count out a second, `Clk < top * top`. With
`top` 65536 and a clock that is a `uint32_t` this always holds, and with a 32-bit counter all
the more (`timer.c:148`).

`EthProofs`: `RingsArePort`, the refinement of the two queues of `hal_eth.h`, for every
number of descriptors and with frames going both ways at once, where the run has them go one
way. A position on a ring is so many places after another (`At`); the descriptors one side
has to deal with stand in a row from its own position to the other side's (`Row`,
`Between`). On any ring, turning over the descriptor past the row adds a frame to the queue
it stands for (`Joins`, `Adds`), turning over the first removes one (`Leaves`, `Removes`),
and storing past the row changes nothing (`Outside`): both directions use these lemmas, with
the sides exchanged. `EthInv` says that both rings are in order (`TxOrder`, `RxOrder`), that
what is cached of the descriptor a call looks at errs only towards "not mine" (`TxLook`,
`RxLook`), that past the look the descriptor is the caller's until it hands it over
(`TxOwn`, `RxOwn`) and that a received frame is not cached from before. Each action then
maps to one of `EthPort` or to none.

`EepromProofs`: `BytesAreStore`, the refinement of the map of `hal_flash.h`, for every size of
the EEPROM and every set of keys, through any number of calls and power cuts. What a memory
holds is said without following it: there is a set of places, each of which but the last has a
record that ends at the next one (`Chain`), no key has two valid records (`One`) and nothing is
written behind the last place (`Blank`). `WalkEnds` shows that the driver's walk stops at the
first of those places it looks for, so that a read gives what the records say (`ReadIs`).
Then each kind of write is followed: what lies below the end stays (`BelowSame`), the byte
that marks a record removes that record and touches no other (`MarkLaid`), and however much of
a new record is written, the memory holds whole records and the key reads as nothing or as the
value (`AppendLaid`). `EeInv` ties this to the writes a call has still to make: a key to be
marked (`ToMark`), then a record written up to its byte j (`Writing`), or cells erased so far.
So between any two bytes the key of the call reads as before, as nothing or as the new value
(`UnderWay`), and every other key as before; the steps of `KVStore` follow. Assumed
(`TornIsSeen`): the check byte of a value tells it from the same value with its end still
erased. The code needs that: without it a cut save leaves a value nobody saved.

`NumberLemmas` replaces the induction the prover cannot instantiate: a set of numbers has a
least member and, if bounded, a greatest one, so that a property of all numbers is proved by
looking at the least or the greatest without it. With that, the functions the models define by
recursion are shown to satisfy their own equations (`WalkExists`, `FoldExists`), which is all
that is known of a CHOOSE otherwise.

The proofs rest on the assumptions named in the modules, which TLC evaluates in the runs.
Only model-checked: `Updatable`, `CallsReturn` and all other liveness, which is out of the
prover's reach.

## 6. Not modelled, and why

The repository is mostly other people's code and data: FatFs and its code-page tables, two
signature libraries, FreeRTOS-style samples, board headers and register definitions make up
most of its lines, and a model of them would say nothing of this program. A signature is a
predicate on an image, and FatFs is not reached.

Of the program's own code, these are left out:

* `read_frame`'s bytes are one frame, whole or damaged.
* A cut in `FlashKV` falls between half-words and between sectors: the half-word or the
  sector under way is either old or new. `FlashRaw` and `EepromKV` do have cells a reset
  leaves in between.
* Values of odd length in the STM32 store and the time-outs of the flash controller, which
  the store ignores.
* Ethernet's MDIO, link and speed: polls of one register each, whose faults are listed above.
* The SD card's identification, the polled single blocks and the file system glue: a
  sequence of commands with no concurrency but the card's.
* I2C writes, which wait for each byte; the F7's and the AVR's I2C, whose peripherals are
  different ones.
* Polled UART and SPI, GPIO, PWM, ADC, CRC, RTC, watchdogs, caches, MPU, clocks and
  start-up: sequences of register writes that keep no state of their own between calls.
* The watcher fed from two contexts at once (`hal_boot.c:132`): `s_pos` is then a data race,
  and a preempted update is lost.

What would come next: the F7's I2C.
