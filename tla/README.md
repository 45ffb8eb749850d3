# Verification of red-pitaya-notes

TLA+ models, TLC runs and TLAPS proofs about the programs of this repository:
software defined radio on a Red Pitaya board. An FPGA design (`cores/`,
`modules/`, wired by the `block_design.tcl` of a project) digitises, filters and
queues samples; a server on the board's ARM cores drains the queue through
memory mapped registers and sends the samples over the network; clients tune the
radio and consume the stream.

On the way there the boot loader sets up the clock of the converters, Linux
starts, a page of a small web server starts an application, and the driver of
the configuration port loads the application's FPGA design.

`PROJECT.json` lists the components, the runs, the mutants that each property
is known to catch, the lines every definition stands for, the hazards of the
code and the theorems.

## Inventory

| Part | State it keeps | Operations | What is hard |
|---|---|---|---|
| HFDL receiver, send buffers (`projects/hfdl_receiver/server/hfdl-receiver.c`) | 26 rings (13 channels, each as CS16 and CU8), socket, dropped bytes, last progress | append a chunk, trim, flush, accept, close | a ring at its limit, partial sends at the wrap, framing of samples |
| HFDL receiver, main loop | two round robins, one clock value, deadlines | look at the FIFO, gain control, copy chunks, maintain sockets, flush | one system call a pass, stale clock values, a wall clock that is stepped |
| Attenuator (`peri.c`, two copies) | GPIO pins, stdio buffers; in the chip a shift register and a latch | initialise, set a value | a serial protocol cut short, buffered pins |
| Sample FIFO (`cores/axis_fifo.v`) and its readers | samples, a reset bit, the reader's chunk | fill, drop when full, reset, look at the level, copy, send | producer never waits; level is stale as soon as it is read |
| SDR receiver (`projects/sdr_receiver/server`) | one client, registers | accept, control structure, copy and send | reset between clients |
| Wide transceiver (`projects/sdr_transceiver_wide/server`) | `sock_thread[4]`, four handler threads, one register word shared by three threads | accept, dispatch, commands, reset pulses, leave | no locks; clients that vanish at any point, threads that cannot be created |
| HPSDR receiver (`projects/sdr_receiver_hpsdr/server`) | `enable_thread`, `active_thread`, `addr_ep6`, `receivers`, a streamer thread | discovery, start, stop, parameters; plan, wait, copy, send a batch | UDP packets in any order, plain globals shared by two threads |
| AXI hub (`cores/axi_hub.v`), buffers (`modules/`) | configuration words, handshake registers | read and write bursts to registers, streams, block RAM | back pressure, simultaneous reads and writes |
| DMA and memory cores | addresses, bursts, counters | write to and read from memory | order of addresses and data |
| Other cores | counters, delays | stream processing | widths, wrap-around |
| Python clients (`hfdl_receiver/client`, `sdr_*/client`, `gnuradio`) | ring of buffers, queues, a flag | connect, tune, read, reconnect | threads without locks |
| Configuration port driver (`patches/xilinx_devcfg.c`) | one open file, a mutex, a clock, 0 to 3 waiting bytes, flags set by the interrupt, control and lock registers | open, write, read, release; settings; probe, remove; export and enable the FPGA's clocks | DMA that ends late or badly, read-modify-writes without a lock, many early returns |
| Boot loader hook (`patches/red_pitaya_fsbl_hooks.c`) | the registers of the clock chip, which a reset leaves alone | read the EEPROM, compute dividers, program the chip | transfers that fail or resets half way, 32 bit arithmetic |
| FT8 and WSPR applications (`sdr_transceiver_ft8/app`, `sdr_transceiver_wspr/app`) | files, processes, a GPIO pin | record, decode, upload, transmit, once a minute or two | cron jobs that overlap |
| Application server (`alpine/apps/server`, `start.sh`) | none | stop all servers, load a design, start a server | two pages at once, a load that fails |
| Common tools, image scripts, Tcl, notebooks | none to speak of | | |

How they interact: the FPGA shares with a server a word-addressed window of
registers (byte writes are safe, see `StoreByte`), a fill level and the FIFO;
the server shares with its clients TCP or UDP connections; the FT8 and WSPR jobs
share files and the radio's registers; `chrony` steps the clock that the HFDL
receiver measures its timeouts with.

What makes the parts correct:

* send buffers: never write outside, never overwrite or reorder, account for
  every byte, keep I/Q framing, drop only whole chunks and only when new data
  arrives;
* HFDL loop: no port starves another, connections and commands are served, a
  stalled client is closed after two seconds and not earlier;
* FIFO readers: no chunk is read that is not there, no old samples for a new
  client or recording, a full FIFO leaves no gap that a server could notice
  and does not;
* wide transceiver: one thread per kind and one owner per connection, a client
  that leaves leaves nothing set, kinds become free, and none is taken without a
  thread (unless it could not be created);
* HPSDR receiver: one streamer, samples go to who asked last, discovery tells
  the truth, the main thread always comes back (both unless a streamer could not
  be created);
* attenuator: what is reported is in effect, and no half-shifted value ever is
  (the HFDL receiver; not the HPSDR server, see `attenuator_buffered`);
* clock chip: its output is on only with the whole of a right configuration,
  and Linux runs only with the output on;
* configuration port: a server runs on the whole of its own design; nothing
  passes between FPGA and processor during a load, and everything after it; a
  transfer that was given up does no harm to the next; mutex and clocks are
  given back on every way out; settings survive loads; clocks are balanced.

## Modules

Every module is parameterised by CONSTANTS with a named assumption; an `MC`
module extends it, and a `.cfg` gives the constants their values. Definitions
keep the names of the code (camel case for C's identifiers). A definition whose
name has a suffix after an underscore (`Wrap_Never`) is a plausible bug, kept
beside the definition it would replace; no specification uses it. The runs are
repeated with each of them, and each must be noticed by the property it is
listed with.

**SendQueue** models one port of the HFDL receiver byte by byte. `sendqStart`
and `sendqEnd` are offsets, `sendq` is the memory; a cell holds the number its
byte has in the channel's stream, and `sent`, `since` and `stream` are history.
`AppendChunk` is the copy loop with its call of `normalizeSendq()`,
`FlushClient` is `flushClient()` for any number of bytes the kernel may take,
`AcceptClient`, `CloseClient` and `SkipChunk` are the rest of the life of a
port. A position beyond the memory sets `fatal`, as the code exits there.

**LossyQueue** is what a client may rely on: a queue of numbered bytes, from
which whole chunks are cut at the newest end, only when a new piece arrives.
`SendQueue!ImplementsLossyQueue` is the refinement, with the ring's waiting
bytes, oldest first, as the queue.

**HfdlServer** models the loop of `main()`: `pc` says in which part of a pass
it is, `netId` and `flushId` are the two static `id`s, `due` is the comparison
`now > nextNetworkMaintenance` on the clock value that is kept from pass to
pass. Instants are kept as ages, so that time needs no bound. A send buffer is
reduced to the number of pieces `flushClient()` can tell apart. Around the loop
run the peers (read, stall, vanish, connect, command), time, and chrony.

**RxFifo** models the FPGA's FIFO with the four reading loops: of
`sdr-receiver.c` ("poll"), of `rx_data_handler()` ("wait"), of the HFDL
receiver ("drain"), and of the recorders of FT8 and WSPR ("record"), which wait
for two chunks, copy one, end with a file or are killed by the next job, and
never look for a full FIFO. Samples are numbered; `memcpy()` from the FIFO is one step
per sample, so that the radio can produce in between.

**WideServer** models the accept loop and the handlers of the wide transceiver.
`sockThread` is the table, `pc` and `sock` are the handlers' places and local
sockets, `word0` holds the three bytes of the register word they share.
Read-modify-writes of the reset bytes are two steps each. A client may close in
the middle of its first four bytes, which then become any kind. `Dispatch` may
fail to create the thread: the code does not notice (it tests for a negative
number), so the entry stays, and `lost` remembers it. `Exit` is the end of the
process, by an error of `accept()`, a kill, or `pthread_detach()` of a thread
that is not there, which is undefined; `Restart` finds the registers as they were.

**HpsdrServer** models the UDP server. `main` says whether the main thread
waits in a stop or start packet, `pc[t]` where streamer `t` is. All packets may
come at any time from any client, which includes loss, repetition and
reordering. `level` is the FIFO's level, in the code's units. A start may fail
to create its streamer (`NotCreated`), unnoticed as in the wide transceiver:
`active` stays set, and `lost` remembers it.

**Attenuator** models both copies of `peri.c`, the chip, the gain control of
the HFDL receiver and the attenuator command of the HPSDR server. The chip's
register is a function from bits, `Register(v)` the one that means `v`, and
`Writes(v)` the sequence of pin writes of `set_att_value()`; `Crash` is the end of the
process at any point (SIGTERM ends the HPSDR server anywhere, the HFDL receiver
only SIGKILL or a fault). In the HPSDR server's copy a level goes into the
`Buffer` of its file, and `Flush` hands that to the GPIO driver when it is full or
the program exits. What the driver makes of several bytes is not in this
repository, so a flush may leave any level on the pin and clock the chip or not.

**ClockChip** models `SetMacAddress()` and the driver of the Si5351: `Calc`
computes the dividers with the code's integer divisions, `Writes` is the whole
sequence of register writes, of which any may fail, and `InTune` is what the
chip makes of its registers, from its data sheet's formula; the product of
crystal and numerator exceeds 32 bits, so `MulDiv` divides it digit by digit. `Reboot` leaves the
chip as it is.

**Devcfg** models the calls of `/dev/xdevcfg`, with `pc[p]` the place of a
process in them, the interrupt handler in two steps (read and clear the flags,
act on them), and the hardware: the DMA engine with its queue, `PCFG_INIT`, the
level shifters, and the design in the FPGA, which grows only by its own next
bytes. A process is one `start.sh`, or one that reads the configuration back.
Read-modify-writes of the control register are two steps.

**DevcfgSettings** adds the attributes that set bits of the control and lock
registers (a read, then a write under the spin lock) and `is_partial_bitstream`.

**FpgaClocks** models probe and remove, and the export, unexport and enabling of
the FPGA's clocks, one step between two calls of the kernel that may fail.

**Board** composes the last four: the loader runs first, then Linux with the
driver; a reset starts again. At most one kind of trouble happens in a behaviour
(`trouble`): slow or failing transfers, settings during loads, several settings
without loads, changes of `is_partial_bitstream`, resets, or work on the clocks.

**SendQueueProofs**, **HfdlServerProofs**, **RxFifoProofs**, **WideServerProofs**,
**HpsdrServerProofs**, **AttenuatorProofs** and **BoardProofs** hold the theorems
about the module each is named after; BoardProofs has those about the exported
clocks, the loader's hook and the clock chip as well. **DevcfgProofs** holds the
invariant of the configuration port, which BoardProofs turns into theorems about
the board.

## Runs

| Run | Bounds | What it shows |
|---|---|---|
| `send_queue` | chunk of 4 bytes, ring of 5 chunks asked for as 5 chunks and 3 bytes, sends of 5 bytes, 40 bytes of stream | Space, balance, order, framing, refinement of LossyQueue |
| `hfdl_ports` | one channel (two ports), stalls and deaths, no commands | No starvation, no early disconnect, dead clients leave |
| `hfdl_maintenance` | one channel, commands, clock set back | Connections answered, commands served |
| `hfdl_clock_step` | the same, clock stepped both ways | Expected violation: early disconnect after a step forward |
| `rx_fifo` | FIFO of 4, chunks of 2, 14 samples, three servers and a recorder | Chunks are there, nothing stale, gaps noticed |
| `wide_server` | two clients, kinds 1, 2, 3 and an invalid one, mask 2 | Ownership, defaults, reset bits, liveness, also after a failed `pthread_create()` and a restart |
| `wide_ptt` | two clients, all kinds | Expected violation: mask command keys the transmitter |
| `hpsdr_server` | two clients, 2, 4, 6, 7 or 8 receivers (1 at the start), the code's FIFO depth, two thread names | One streamer, right destination, sizes, progress while streamers can be created |
| `attenuator` | register of 3 bits, attenuations up to 7 with 4 at first, buffers of 1 byte, waits of 1 and 2 seconds, clock set back | Transfer, crashes, flushes, gain control settles |
| `board` | four crystals and three boots; two applications, one of either byte order, and a reader; files of 15 bytes with a header of 3, in blocks of 8 or 13; one or three stores; two clocks, two writers | From the loader to a server on its design; see below |
| `devcfg_dma_error` | the same, only failing transfers | Expected violation: some error flags are not an error |
| `attenuator_buffered` | the same as `attenuator`, buffers of 16 bytes, clock not stepped | Expected violation: reported value is in a buffer |

Why the bounds are enough. The ring of five chunks is larger than the three
that the assumption demands and wraps several times in 40 bytes; it is an odd
number of chunks so that half of it is not a whole number of them, the send
size divides neither the chunk nor the ring, and CU8 makes the ring hold two
pieces a chunk. Forty bytes suffice for two overflows and a reconnect; the
proofs remove these bounds for the space properties. Two ports are what a round
robin needs to starve one; the CS16 port and the CU8 port are the two kinds
there are. With two FIFO chunks the level passes every value around the reset
and chunk thresholds. Two clients and two kinds of data are enough for every
pair of threads that share a word or a table entry; the control of the receiver
(kind 0) runs the transmitter's code without the PTT pin. In `hpsdr_server`
two thread names suffice, since `OneStreamer` would break with the second.
Samples arrive there a full FIFO at a time, so the level falls batch by batch
from every possible start; the proofs hold for any pace.
Three bits are enough for a chip to hold part of one value and part of another.
With a buffer of one byte every other write of a pin is a flush; with 16 a
transfer fits whole into the buffers, as into the code's of some thousand bytes.
In `board` a header of 3 bytes and blocks of 8 and 13 make every number of
waiting bytes from 0 to 3 happen, at a file's end as well; two applications and
one reader are every pair of processes that can share the device; a third boot
finds what a second one left of the first. `MaxQueue` lets one command be given
up while another is queued. Of the settings one stands for all while designs are
loaded (`Meanwhile`), since they differ in their bits only; `MaxStores` lets two
overlap and a third come after them. Troubles of two kinds at once are left out:
the properties are about what one of them does to all that follows. The
crystals are the default one and three with other dividers. The run does not
check for deadlock, because a boot that has failed for the last time stops.
`AgeBound`, `StepBound` and the limits of `Aged` and `Older` cut off clock values
that no comparison tells apart, or how far the clock may be set back.

The runs of SendQueue and RxFifo end when the bounded stream does, and the HPSDR
server really stops when `main()` waits for a streamer that was not created, the
FIFO full; these runs and the two of the board do not check for deadlock, all others do.

What the properties excuse. Some speak only of what the code can be held to, and
the rest of the hazard is in the model, but in no property:

* `GapsAreNoticed` excuses what is lost between the look at the FIFO's level and
  the end of the copy (`excused`);
* `NoDanglingDma`, `LinkMatchesLoad` and `ServerRunsOnItsDesign` excuse loads that
  meet the late end of a transfer that was given up, a store from an old reading,
  or a change of `is_partial_bitstream` half way (`clean`, until the next full
  reset). So they show which trouble does harm and that it ends with that reset;
  they do not show that the driver survives it;
* `SettingsSurvive` excuses what follows two overlapping changes (`stale`);
* `ClocksBalanced` excuses what follows two calls that clash (`met`), and calls of
  what is not there after a probe or export that failed (`failed`);
* `DiscoveryIsTrue`, `StopTakesEffect`, `TableMatchesThreads` and `OneOwner` say
  what holds when `pthread_create()` has failed (`lost`), and `KindsAreFreed` speaks
  of kinds that have a thread: a kind without one is taken for good.

## Fairness

* HfdlServer: the loop runs (`WF(Loop)`: the process has a realtime priority),
  time goes on (`SF(Tick)`: it is kept out of the round robins' steps by the
  model only), the processor keeps up with the FPGA (`KeepsUp`: again and again
  a pass finds no chunk; the code counts on it, for a pass that did something
  neither maintains nor flushes), and chrony does not step the clock for ever.
* WideServer: all threads run. A data handler's `send()` or `recv()` notices in
  the end that its peer is gone (`SF(DataEnd)`), however often the FIFO
  overflows. The client that `main()` reads from says its kind or goes away:
  the code has no timeout there, so without this assumption the line stands
  still, which is the code's behaviour and listed among the hazards.
* HpsdrServer: both threads run and samples arrive (`WF(Fill)`); that every
  rate the server sets yields samples is a property of the FPGA design.
* Attenuator: the loop runs and time passes; crashes and clock steps end.
* Board: the call that has the mutex goes on (it sleeps at most 5 ms and else
  polls), the interrupt is served, the DMA engine ends its commands and
  `PCFG_INIT` follows `PROG_B`. Nothing is assumed of the loader, of the callers
  or of the processes that store settings.

## Proofs

`SendQueueProofs` proves, for every chunk size, ring size of at least three
chunks, send size and stream length (`SendQueueAssumption`), and for both
formats:

* `SendQueueTypeOK`: the positions stay in the ring's memory;
* `NeverFatal`: the two "FATAL ringbuffer flaw" exits are dead code;
* `AlwaysRoomForChunk`: the next chunk fits in one piece and overwrites
  nothing that waits;
* `FlushNeverDrops`: a flush shortens the queue by what was sent, no more;
* `AllBytesAccounted`: what was produced since the client connected was sent,
  waits, or is counted as dropped.

The first three are not inductive. `RingInv` adds that `sendqEnd` is a multiple of the
piece size (`EndOnBoundary`), since the chunk is copied without a look at the
end of the memory, and that fewer than all but two chunks are waiting
(`Slack`), since that is what `normalizeSendq()` establishes and what a further
piece eats into. `Sizes` and `ChunksArePieces` turn the integer divisions of the
code into products; `Normalized` says what one call of `normalizeSendq()`
restores, `AppendLen` and `FlushLen` what the two callers do to the length, and
`NextRingInv` puts them together action by action. On top of `RingInv`,
`NormalizeBalance` (what leaves the queue is counted) and `FlushStep` give the
last two theorems; `EveryByteAccounted` is inductive relative to `RingInv`.

* `RingIsALossyQueue`: every step of the ring is a step of LossyQueue or a stutter,
  under the mapping that takes the waiting bytes, read around the wrap, for the
  queue. `WaitingIsSeq` and `CellOf` say which cell a waiting byte lies in; a lemma
  for each caller of `normalizeSendq()` says what it does to that sequence:
  `AppendChunk` puts one piece behind it, possibly after cutting whole chunks at
  its newest end, and a flush takes a prefix away and touches nothing else.
* `FramingIsKept`: the k-th byte sent is the k-th byte of some sample. This is
  not inductive, as it does not speak of what waits: `AlignInv` adds that the
  waiting bytes continue the framing of those sent, and that the next byte of the
  stream continues both, because pieces and chunks are whole samples.

`HfdlServerProofs` proves, for every number of channels, any stall and pass times
and any clients (`HfdlAssumption`):

* `LoopTypes`: turns, system calls, pieces and ages stay in range. `LoopInv` adds
  that the maintenance has a port to look at, since `MaintainPort`, like the code,
  does not check that `id` is less than `NUMCLIENTS`: the check at the start of a
  round is the only one;
* `StalledClientsHaveTime`: `NoEarlyDisconnect`, provided that no step of the clock
  goes forward. It rests on `NotLate`: the age of a client's progress on the code's
  clock never exceeds the true one. The run `hfdl_clock_step` shows the
  disconnections that a forward step causes, so the condition is not idle.

`HpsdrServerProofs` proves, for any clients, any supply of thread names, every
number of receivers from 1 to 8, any pace of the samples and every FIFO deeper
than 256 samples (`HpsdrAssumption`; the code's has 2048):

* `NeverTwoStreamers`, `SamplesGoToStarter`, `DiscoveryAnswersTruth`: one
  streamer at a time, its samples go to whoever started it, and a discovery is
  answered with the truth, or with "in use" once a streamer could not be created;
* `BatchIsThere`, `BatchAlwaysFits`: a batch is in the FIFO when it is copied,
  and fits everything it is put into.

The inductive invariant is `StreamerInv`. Its key is `FlagIsTrue`: the flag
`active_thread` is set exactly while a streamer lives or after one could not be
created, also while `main()` waits, where `DiscoveryIsTrue` says nothing; with `AtMostOne` it makes a new
streamer and a new address impossible while an old one lives. `BatchSizes`
computes the packing for each number of receivers; `StreamersUntouched` and
`StreamerSteps` are the two kinds of step that cannot break the invariant's
parts about threads, so that `NextStreamerInv` has little to say of each action.

`RxFifoProofs` proves, for every depth, chunk (of at most half the depth) and
length of the stream (`RxFifoAssumption`):

* `ChunkAlwaysThere`: no program copies from an empty FIFO. Inductive with
  `BufferFits` (the buffer is filled only while the loop copies) and
  `PromiseHolds` (the HFDL receiver's `rx_samples`, read once, never exceeds
  what FIFO and buffer hold, since only the loop itself resets the FIFO);
* `NoSampleIsStale`: with `FreshInv`, by which the FIFO has nothing older than
  the client from the reset at its start on;
* `GapsNeverGoUnnoticed`: with `GapInv`, which says of the buffer and the FIFO
  together (`Ahead`) that all that is missing between two samples is excused, and
  of the time in which nobody looks (`Unnoticed`) that what is missing at the end
  implies a full FIFO, which the next look will empty;
* `FifoTypes`: the types of the variables.

`WideServerProofs` proves, for any clients and masks (`WideAssumption`):

* `WideTypes`, `TableAlwaysMatches`, `NothingStaysSet`, `ResetsDoNotInterfere`: the
  table agrees with the threads and with those that could not be created, a client
  leaves nothing set, and no thread's store puts another's FIFO back into reset.
  Together they are inductive: which thread may store which byte follows from the
  table;
* `EveryConnectionHasOneOwner`: `OneOwner` counts the places of open connections,
  an entry without a thread among them, and is not inductive, since it does not
  say that what is in a place is open.
  `OwnerInv` states it without counting, in both directions.

`BoardProofs` proves, for any number of applications, readers, administrators,
clocks and writers, any size of files, headers and blocks, any crystals within
`ClockChipAssumption`, any number of boots and stores, and any set of troubles:

* `BooksBalance`, `LinkFollowsLoad`, `DmaNeverDangles`, `EveryServerHasItsDesign`,
  `SettingsAreKept`, from one invariant, `DevcfgInv`. Its parts: who holds the mutex
  and the device (`MutexInv`); the clock's count as a sum over finitely many calls
  although the processes need not be finitely many (`ClockInv`); a transfer that
  is on its way from the DMA engine over the interrupt to `dma_done` is exactly
  one, its caller's, while nothing has gone wrong (`TransferInv`); how far the reset
  (`ResetInv`), the level shifters (`LinkInv`) and the load have come, the latter
  in words, with the 0 to 3 stragglers that wait for the next call (`LoadInv`); what
  is true while a process is alone (`AloneInv`) and its server runs (`ServerInv`);
  and the settings (`SettingsInv`). The parts lean on each other (a load is right
  because its transfers are, these because of the mutex), so only their
  conjunction is inductive. `DevcfgStarts`, `DevcfgSteps` and `DevcfgResets` say that
  it is: at the start, by every step, and by a reset at any time;
* `ClocksAreBalanced`, from `ClocksInv`: while no two calls clash (`met`), what a
  call has found or made of its clock is still so (`Placed`), for otherwise a call
  would undo what another has undone;
* `ClockIsRight`: `RightClock`, the frequency included, for every set of crystals.
  `WritesOfABoot` computes the 30 writes of a boot and which of them carry the bytes
  of the two dividers. `HookInv` says what the writes so far have left in the chip;
  on its own that is not inductive, because a boot may begin with the output on:
  `DividersFollow` adds that all of the dividers were loaded then, for the crystal
  that the EEPROM still names. `LoadedIsInTune` takes the bytes apart again and
  bounds the error: the divisions by `t` in `CalcHigh()` drop three remainders
  smaller than `t`, which is at most 24 (`ErrorOfDivisions`), and neither the
  multiplier (4 to 36) nor the denominator (20 bits) overflows its registers;
* `CalcIsWithin6Hz`: the 6 Hz of the comment in `si5351_Calc()`, for every frequency
  served by its upper branch and every crystal below 24 * 2^20 Hz, since the least
  divider is 4 and 23 < 6 * 4. `MulDivIsRight` proves that the reference's long
  division is a division;
* `BoardTypes`: the types of all variables.

For this `DevcfgSettings` assumes that no administrator is called `Nobody` and that
one store at least is looked at (`SettingsAssumption`).

`AttenuatorProofs` proves, for a register of any width, any buffer size and range,
any waits and any steps of the clock (`AttenuatorAssumption`):

* `HfdlReportsAreTrue`: what the HFDL server reports is in the chip's register. Only
  a whole transfer puts it there, so `TransferInv` follows it write by write: the
  clock is low and the latch closed, the data pin has the next bit before every
  rising edge, and the bits already shifted stand in their order, whatever the
  register held when an earlier process died in the middle of its transfer;
* `NothingPartial`: in the HFDL receiver the register in effect changes to the
  value being set and to nothing else, also across crashes, on top of
  `TransferInv` and of `AtRest` (outside a transfer the next one starts at its
  first write, and this copy's levels never wait in a buffer). Of the HPSDR
  server's copy nothing like it is claimed, as a flush may bring in anything;
* `AttTypes`: the attenuation stays in its range, and the buffers of the HPSDR
  server's copy never hold more than `BufSize` bytes, through any flushes.

Checked by TLC only, because liveness under fairness is beyond the prover:
`ReadersProgress`, `DeadClientsLeave`, `CommandsServed`, `ConnectionsAnswered`,
`LineMoves`, `KindsAreFreed`, `StopTakesEffect`, `AgcSettles` and
`MutexIsReleased`. Every invariant and every action property that a run expects
to pass is proved.

## Disagreements found

1. `hfdl_clock_step`: "if send hasn't actually sent any bytes in 2 second,
   disconnect this client" (`hfdl-receiver.c:708`) is measured with
   `gettimeofday()` while the image lets chrony step the clock at any time. A
   step forward disconnects clients at their first full kernel buffer.
2. `wide_ptt`: command 2 of the transmitter's control, "set tx mask", falls
   through into "set PTT pin" (`sdr-transceiver-wide.c:302-308`).
3. `attenuator_buffered`: the HPSDR server's `peri.c` writes pins through
   buffered files that are written when some thousand bytes have come together or
   at the exit, and reports values that are not set. The HFDL receiver's copy has this fixed.
4. `devcfg_dma_error`: "@error_status: The error status captured during the DMA
   transfer" (`xilinx_devcfg.c:118`) is set only when all error flags are up
   (lines 270-272), so most failed transfers count as good.

Seen while modelling, and kept in the models as the code has it:

* `pthread_create()` is tested for a negative number, which it never returns
  (`sdr-transceiver-wide.c:134`, `sdr-receiver-hpsdr.c:206`), so `main()` goes on
  where it was to print an error and end. In the wide transceiver the kind is
  taken for good and the socket of its client stays open without an owner
  (`TableMatchesThreads` and `OneOwner` name these with `lost`). In the HPSDR
  server `active_thread` stays 1, discoveries are answered with "in use", and
  the next stop or start waits for ever (`DiscoveryIsTrue` and
  `StopTakesEffect` do not hold without `lost`).
* "The actual frequency will differ less than 6 Hz" (`red_pitaya_fsbl_hooks.c:340`)
  holds above 81 MHz, where the hook asks for 122.88 MHz, and there only for
  crystals below 24 * 2^20 Hz (`ClockChipAssumption`). Below 81 MHz the code
  takes 900 MHz for the PLL, while 36 times the default crystal is 884.7 MHz.
* `xdevcfg_drv_probe()` "Returns: 0 or error status": when the class or the
  device cannot be created, `retval` still is the 0 of `cdev_add()` (lines
  2066-2077), and a later unbind works on what is not there.
* A failed export of a clock leaves its flag set and its device without data
  (lines 1778-1807); a later unexport follows a null pointer. `ClocksBalanced`
  excuses what comes after either failure.
* Between the end of the wide transceiver's process and its next start the FPGA
  goes on with a keyed transmitter, if that is how the process left it.
* `set_dap_en` can set bits but not clear them (lines 681-683).
* `start.sh` starts its server whatever became of the load: after two pages at
  once, or a failed load, the server may run on another design.

## Not modelled

Registers that no property is about (frequencies, rates, inputs), logging, the
`TEST` build and the shutdown of the HFDL receiver, which frees what it has and
exits; the end of the HPSDR server's process, which leaves no state that the next
one looks at (the first thing a streamer does is to empty the FIFO). Of the configuration port's driver: the attributes that only show a
value, the rates of clocks, the flag `PCFG_DONE`, and what the lock register
does to the hardware (it is a register that keeps what is written). Of the
application server: the parsing of requests and the files it serves. The
transmitter's data path in `tx_data_handler()`: the design of the wide
transceiver has no transmitter FIFO, and ties its level to a constant. Signal
processing arithmetic, block designs, kernel configuration, notebooks and web
pages have no behaviour of their own, or are out of reach of a model checker.
The components marked `not_modelled` with "planned" in `PROJECT.json` are for
the next steps.

## Plan

Done, in this order: send buffers with their abstract specification and proofs;
the HFDL loop; the FIFO readers; the transceiver; the HPSDR server; the
attenuator; proofs about the send buffers and the HPSDR server; the boot loader
and the configuration port; the recorders; proofs about the FIFO readers.

Next, extending the model:

1. `StreamBuffers`: `input_buffer`, `output_buffer` and `inout_buffer` as
   implementations of a bounded queue; `AxiHub`: its five channels built from
   them, with register words, stream ports and block RAM ports. Properties:
   no accepted transfer is lost or repeated, responses match requests.
2. `RamWriter` (with the `cma` driver), `BramReader`, `Histogram`,
   `Oscilloscope`: bursts and addresses, read-modify-write, capture length.
3. `Clients`: the threads of `tcp.py`, the reconnection of
   `redpitayarecorder.py`; `Jobs`: the files and processes of the FT8 and WSPR
   cron jobs and the transmit pin.
4. Stream control cores (packetizer, trigger, timer, gate, averager, pulse
   height analyzer, keyer) against reference definitions over bounded inputs.

Proved since: the refinement of LossyQueue and the framing; gaps; the HFDL loop's
types and its timeouts; the wide transceiver; the configuration port and its
clocks; the boot loader's hook and the frequency of its clock; the attenuator.

Next, proving: StreamBuffers implements its queue.
