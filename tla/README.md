# Verification of the i.MX35 board support package

The repository is a QNX board support package for the Freescale i.MX35 3-Stack
board: user-space drivers, the libraries they share, and the start-up code. This
directory holds TLA+ models of the parts in which threads, interrupt handlers,
DMA engines and several processes share state, TLC configurations that check them
on small instances, and TLAPS proofs of the most important invariants for every
instance.

Paths below are relative to the root of the repository; `PROJECT.json` writes
them with one more `src/` in front and maps every definition to the lines it
models.

Contents

1. The system: components, state, operations, interactions
2. The plan: modules, runs, theorems, in order
3. The modules and the code
4. What each run checks, its bounds and its fairness
5. What is proved, and how
6. What the code does and its comments say otherwise
7. What is assumed
8. What is not modelled, and why


## 1. The system

Drivers are processes of their own (serial, CAN, I2C, SPI, block, touch) or
shared objects loaded by a server process (`io-net` for Ethernet, `io-audio`,
`io-display`).  A driver typically has

- one or more threads of clients or of the server that call into it,
- a thread that waits for pulses: interrupts, timers, unloading,
- an interrupt handler or an interrupt event; the interrupt is masked when it is
  delivered and unmasked by the thread that served it,
- a device: FIFOs, descriptor rings, status and mask registers, which change
  while the driver looks at them.

A driver that starts resets its device, so that nothing survives a restart - but
for the flash, which may lose power in the middle of an operation.  The hard
behaviours are interleavings, the order of register accesses, exhausted rings,
lists and memory, lost or late interrupts, timeouts, and cards that are taken
out.

| component | source | state | operations | hard behaviour | correct when |
|---|---|---|---|---|---|
| FEC Ethernet, transmit | `src/hardware/devn/mx35/transmit.c` | descriptor ring, packet queue, indices, counts, `tx_mutex` | send, defragment, reap, start DMA | io-net threads, driver thread and DMA on one ring; full ring; several fragments | frames leave whole and in order; each packet is given back once; the ring is never taken for empty when full |
| FEC Ethernet, receive | `receive.c`, `mx35.c` (advertise) | descriptor ring, packet in each slot, free list | receive, replace, give back | errors, exhausted memory, packets given back by other threads | the engine writes only into packets the driver owns; nothing is lost or doubled |
| FEC Ethernet, interrupt thread | `mx35.c` | IEVENT, mask, pulse | read, acknowledge, serve, unmask | events between the read and the unmask | no lost wake-up |
| FEC Ethernet, rest | `detect.c`, `mii.c`, `devctl.c`, `shutdown.c` | registers, PHY state | start, PHY poll, filter, stop | multicast filter, shutdown under traffic | - |
| SMC9118 Ethernet | `src/hardware/devn/smc9118/` | packet queue, FIFOs, chain of received packets, free list, mutex | send, receive, complete, event handler, flush | the mutex is let go around calls to io-net; FIFO space depends on alignment; a second test after the interrupt | each packet sent and completed once, in order; each frame whole, in order; no packet waits for ever |
| CAN | `src/hardware/can/mx35/` | mailboxes, flags, message list per mailbox, TX flag, error flags | interrupt handler, transmit, mini-driver, devctl, read and write (libcan) | flags raised while the handler runs; thread and handler start transmissions | messages are read and sent in order and once; what is written is sent |
| SPI transfer | `src/hardware/spi/mx35/` | FIFOs, buffer, counts, pulse channel | transfer, interrupt handler, wait | timeouts, bursts, lengths that are not whole words, one buffer for both directions | the result is the reply to each byte; every transfer returns |
| SPI master | `src/hardware/spi/master/` | list of locks, default chip per client | open, close, read, write, messages, devctl | every sequence of messages of several clients | a chip is locked by one; a close leaves no lock |
| SDMA library, life of a process | `src/lib/dma/sdma/api.c`, `cmd.c`, `sync.c`, `init.c` | count of processes, CCB, command descriptor, users | init, fini, with failures | processes start, fail and end in any order | all agree on one CCB; the count is right; no mutex stays locked |
| SDMA library, channels | `api.c` | EVTOVR, HOSTOVR, the resource database | attach, start, stop, release | read-modify-write of registers all processes share | a channel runs exactly when its owner started it |
| SDMA library, commands | `cmd.c`, `irq.c` | one descriptor, mask and event per process, shared mutex | load a context, wait, handler | a command later than its timeout; handlers of all processes on one line | success means loaded; an interrupt goes to whom it belongs |
| Touch screen of the MC13892 | `src/hardware/devi/mc13892/touch.c` | mode of the converter, masks, timer, last report | interrupt thread, poll handler | two threads, one timer, nested masks | no release is missed; conversions are not cut off |
| SDMA library, buffer descriptors | `api.c`, `irq.c` | ring of descriptors of an event-driven channel, position | set up, start, abort, callback | the engine walks the ring while the callback enables it | the client's memory and no other is moved, in turn |
| I2C | `src/hardware/i2c/mx35/` | controller and bus, `restart`, the interrupt's event | send, receive, wait | the next byte is decided one byte ahead; lost arbitration; a timeout that reads as an acknowledge | all bytes moved once and in order, the slave left silent, the caller woken |
| MMC/SD | `src/hardware/devb/mmcsd/` | state of the identification, flags, the command block in work, CAM's queue, the control thread | insert, identify, read, write, retry, stop, remove | two threads notice a change of the slot; interrupts between a command and its state; failed stops | one place per command block; success means moved; nothing is forgotten |
| Serial | `src/hardware/devc/sermx1/` | output buffer, UART FIFO, CR1, flow control, flags of io-char | `tto`, `ser_stty`, interrupt handler | handler and call change one register; the line changes while it is read | output that may go on goes on, none is wiped out |
| Audio, 3dsmx35 | `src/hardware/deva/ctrl/3dsmx35` | holder of the stream, ring, pulse thread | acquire, trigger, release, pulses | acquires that race; release under DMA; late pulses | the engine works for the holder only; the stream goes on |
| Audio, mx and spdif; codecs, mixers | `src/hardware/deva/` | as 3dsmx35; registers of a codec | - | - | - |
| TSC2007 touch | `src/hardware/devi/tsc2007/` | mask, release timer, pen interrupt, last report | interrupt thread, release handler | two threads unmask, one masks; failed reads | a reported press ends; the thread can be reached |
| Display and capture | `src/hardware/devg/imx35/` | surface, parameters, update flags, DMA channel | set layers, commit, flip, vertical-sync handler, capture buffer | the handler breaks into a commit | what is shown is what was committed last |
| NAND driver of ETFS | `src/hardware/etfs/nand2048/3dsmx35_2048/` | pages with data and spare area | read, post, erase, each with failure | power fails in an erase or a post | what reads as erased is; what was posted reads back |
| MTD flash, IPL, start-up, `rtc`, PMIC tool | `src/hardware/flash`, `ipl`, `startup`, `support`, `src/utils/r/rtc` | - | sequential | - | - |

How they interact.  The audio drivers and others are clients of the SDMA library,
each in a process of its own: the library's memory and the SDMA registers are
what they share.  The SPI resource manager loads the SPI driver and calls it with
one transfer at a time.  The Ethernet drivers share only the packets with io-net:
io-net hands them down, the drivers give them back, and the other way round for
received ones.  The touch drivers reach their chips over I2C. The MMC/SD driver
serves the command blocks of CAM and the ETFS driver the calls of the file system
library, both outside the repository.


## 2. The plan

Most important first.  Done:

- `FecTx`, with the abstract `TxService` it implements: checked; all its safety
  invariants and the refinement proved.
- `FecRx`, then `FecDriver`, which composes both rings with the interrupt.
- `CanMx35`; `SpiXfer`; `SpiMaster`; `Smc9118`.
- `McTouch`: checked; all its safety properties proved.
- `SdmaLib`, extended by `SdmaChan` (processes that start and end the library and
  use channels); `SdmaCmd`.
- `MmcSd`: insertion, identification, command blocks, retries and removal.
- `AudioPcm`, with the ring of buffer descriptors of the SDMA library; `I2cMx35`,
  `Tsc2007`, `SerMx1`: one actor and one handler each.
- `Imx35Layer`, `EtfsNand`.
- The proofs of `SdmaCmd`, `FecRx`, `Tsc2007`, `SerMx1`, `Imx35Layer` and
  `EtfsNand`; then of `SdmaLib` and `SdmaChan`, `CanMx35`, `AudioPcm` and
  `I2cMx35`; then of `MmcSd`, `SpiMaster`, `Smc9118` and `SpiXfer`.

To come, in this order:

1. `smc9118_flush` and the shutdown of both Ethernet drivers, as more actions of
   the modules that exist.
2. `SpiMaster` composed with `SpiXfer`: the `SPI_DEV_ID_NONE` path.
3. Resets and aborts of a command block in `MmcSd`.
4. `deva-ctrl` mx: what differs from `AudioPcm` is registers only, so that the
   same module would serve with other names.

Theorem to come: `DoneMeansDone` while no command has been spoilt or refused, whatever
is removed, and while one has been and no card was removed.  Its invariant ties the
card's mode to the identification under way (a card in its transfer state is
addressed in its own unit, or is about to be reset), what a command may answer to the
identification that sent it, and the data command to the block in work.


## 3. The modules and the code

A step of a thread is the work it does between two points at which another actor
can see it or disturb it.  What runs outside the repository - DMA engines,
controllers, `io-net`, `libcan`, the kernel's interrupt delivery - is modelled
from how the code uses it and marked external in the map.

| module | state and code | actions and code |
|---|---|---|
| `TxService` | what the transmit side promises io-net: packets taken, on the wire, pending | take, swap for a copy, accept, refuse, transmit, complete |
| `FecTx` | `tx_bd`, `tx_pktq`, `tx_pidx`, `tx_cidx`, `tx_q_len`, `tx_pkts_queued`, `tx_mutex` of `mx35.h`; the locals of each thread | one action for each stretch of `mx35_fec_send`, `mx35_fec_defrag`, `mx35_fec_reap_pkts`, `mx35_fec_download_complete`: a descriptor at a time, in the code's order of writes |
| `FecRx` | `rx_bd`, `rx_pktq`, `rx_cidx`, the free list and `num_rx_free`; `errors` counts frames received in error | `mx35_fec_receive`, `mx35_fec_add_pkt`, `mx35_fec_receive_complete`, `mx35_fec_advertise` |
| `FecDriver` | extends both; IEVENT, the mask, the pulse | `mx35_fec_process_interrupt` and `mx35_fec_event_handler`; the actions of `FecTx` and `FecRx` are its calls |
| `CanMx35` | mailboxes, CANIFLAG1/2, CANESR, the message lists, `CANDEV_RINGO_TX_ENABLED`, the locals of `can_intr` | `can_intr` from register access to register access, `can_drvr_transmit`, `can_ringo_tx`, `mdriver_init_data`, the devctls for ID, filter, priority and errors |
| `SpiXfer` | `xlen`, `tlen`, `rlen`, `dlen`, `pbuf`, both FIFOs, the pulse channel | `mx35_xfer`, `spi_intr`, `mx35_wait` |
| `SpiMaster` | `lock` list, `chip` of each control block | every message of a client: open, close, read and write, `_spi_iomsg`, `DCMD_SPI_SET_CONFIG` |
| `Smc9118` | queue `nhead..ntail`, FIFOs, `rx_Q`, `num_rx_free`, `kick_xmit`, INT_STS, the mutex | `smc9118_send_packets`, `smc9118_send`, `smc9118_receive`, `smc9118_receive_complete`, `smc9118_event_handler`, `smc9118_process_interrupt` |
| `McTouch` | mode of the converter, mask count, timer, last report, the mutex | `intr_thread`, `touch_pulse`, `process_data` by its outcomes |
| `SdmaLib` | `process_cnt`, `libinit_mutex`, MC0PTR, the CCB and the command descriptor with their creators | `sdma_init` and `sdma_fini`, step by step, with the failures that are undone |
| `SdmaChan` | extends `SdmaLib`; EVTOVR, HOSTOVR, `register_mutex`, the channel of each process | `sdma_channel_attach`, `sdma_channel_release`, `sdma_xfer_start`, `sdma_xfer_abort`, `sdma_xfer_complete`; each register is read in one step and written in another |
| `SdmaCmd` | `command_mutex`, `channel_mask` and `event_array`, the descriptor, HSTART, INTR | `sdmacmd_ctx_load`, `sdmairq_event_add`, `sdmairq_event_remove`, `irq_handler` |

| `MmcSd` | the slot and the card, the command on the line, `ext` (state of the identification and flags), `nexus`, CAM's queue, pulses | `mmcsd.c`: each stage of the identification; `sim_mmc.c`: start, data, stop and end of a command block, media check; `sim.c`: the control thread; the interrupts of `sim_mx35.c` |
| `AudioPcm` | `pcm_subchn`, `hw_lock`, the ring `bd` and `current_bd`, HOSTOVR of the channel, the pulse | `mx35_3ds_playback_aquire`, `_trigger`, `_release`, the pulse thread and `mx35_3ds_play_pulse_hdlr`; `sdma_setup_xfer`, `sdma_xfer_start`, `sdma_xfer_abort`, `callback_reenable_descr` |
| `I2cMx35` | I2CR and I2SR, the byte on the bus, `restart`, the event and its mask | `mx35_send`, `mx35_recv`, `mx35_sendaddr7`, `mx35_sendaddr10`, `mx35_sendbyte`, `mx35_recvbyte`, `mx35_wait_status`, the interrupt event |
| `Tsc2007` | the pen, its interrupt and mask, the release timer and pulses, the mutex, `pressed` | `intr_thread`, a step for each call of it, and `tsc2007_pulse` |
| `SerMx1` | output buffer, UART FIFO, CR1 and TRDYEN, the line and RTSD, `paged`, event and timer of io-char | `tto` with each of its actions, `ser_stty`, `ser_intr`, flow control by lines and characters |
| `Imx35Layer` | `offset`, `format`, `enable`, `change`; `params`, `commit_offset`, `update_flags`; what the channel shows | the calls of `layer.c`, `set_layer_surfaces` of `capture.c`, `imx35_isr` in two steps |
| `EtfsNand` | pages (data, signature, transaction), the operation in work, what was promised | `devio_postcluster`, `devio_eraseblk`, `devio_readtrans`, `devio_readcluster`; `Restart` is a loss of power, also in the middle of an operation |

`MC*` modules give the constants that a cfg cannot express and nothing else, with
three exceptions.  `MCFecDriver` leaves out `mx35_fec_advertise` and fixes which
packet lies in which slot at the start.  `MCDrivers` and `MCDevices` hold several
parts that have nothing to do with each other - SPI transfers, SPI locks, the
touch screen and the SDMA command channel in the one; audio, I2C, TSC2007,
serial, display and flash in the other.  A variable `part` chooses one at the
start and the others stand still, so that one run checks each of them alone.

Operators introduced with the word "Mutant" are mistakes that would be easy to
make in the code; each property has one that violates it.  They are not used by
the specifications.


## 4. What each run checks

A module's type invariant is a conjunct of one of the properties below; that of
`McTouch` is proved.

### fec_rings (`FecRings.cfg`)

Two parts, each alone.

Transmit: two senders, the driver thread and the engine on four descriptors, with
packets of one to three fragments and a limit of two, so that three are copied into
one. Four is the smallest ring for this limit that the assumption of the code allows
(16 against 8). Three packets fill the ring, wrap it and are refused.

- `RingInv`: indices, counts, ready bits and recorded packets agree.  That the
  return in the middle of the fill loop, which would leave ready fragments
  behind, is never taken (`FillNeverBusy`) is proved from it.
- `CompletedOnce`: of the four places that give a packet back, exactly one does.
- `WireInOrder`: the engine sends whole frames in order, meets no gap, is never
  overtaken by the reaper and does not stand still in front of a queued packet.
- `ImplementsService`: every behaviour is one of `TxService`.  It allows a packet
  to be given back while its frame is still leaving, for one packet at most: that
  is what the code does, and `fec_tx_release` shows why it matters.

Receive: two descriptors and six packets: enough for a full free list, for an
exhausted memory, for two frames in error and for packets held by io-net.

- `OneHolder`: the engine writes only into packets the driver owns; a packet is
  in one place, and `num_rx_free` counts the free list.
- `OldestFirst`: the driver thread looks next at the oldest frame.
- `OneLostPerError`: packets disappear in one way only.  For a frame in error
  receive.c:130-145 puts the old packet back and forgets the new one.

### fec_tx_release (`FecTxRelease.cfg`), violated

`ReleasedAfterUse`: a packet is released only when the engine has no descriptor
that points into it.  The packet is recorded under its first fragment
(transmit.c:240) and is given back when that one has been reaped
(transmit.c:127), although the engine may still own the second.  Frames of
several fragments whose memory io-net reuses at once leave with other bytes.

### fec_driver (`FecDriver.cfg`)

Both rings and the interrupt, with an engine that goes on.  Three descriptors,
two slots, one packet that is sent again and again.

- `EveryoneServed`: a frame in the ring is taken up, and a packet handed down is
  completed, provided the receive loop is left again and again.  Without the
  provision a flood of frames keeps the thread in `mx35_fec_receive` for ever.

Fairness: weak for the driver thread, for senders in the middle of a call and for
the engine and the interrupt; strong for those that wait for `tx_mutex`.  A QNX
thread that is ready runs, and mutexes are given by priority and order of
arrival.

### can (`CanMx35.cfg`), can_mini_driver (`CanMiniDriver.cfg`, violated), can_send_receive (`CanSendReceive.cfg`, violated)

One receive and one transmit mailbox, lists of two messages, three messages to
send, and four received, two of them by the mini-driver, which has buffered one
more that belongs to no mailbox.  Lists fill, mailboxes are overrun.  A second
mailbox of a direction adds only what section 6 says of it.  `MCCanMx35` lets a
behaviour either receive all four messages or have errors and receive three: the
handler keeps and clears errors before it looks at a mailbox, so that errors only
move its start, and one new message is enough to come before or after that.

`mdriver_init_data` finds a free slot, fills it and adds it to the list in three
steps, and the handler may come before each of them (`MdriverNext`,
`MdriverCopy`, `MdriverAdd`).  With lists of two and four messages it takes the
last slot before the check, between check and copy, between copy and addition.

- `ReadInOrder` (can): messages are read in the order of arrival, none twice, those
  of the mini-driver first, although the handler adds at the other end and may fill
  the list - until it does so between the check for a free slot and the copy; of
  that mailbox (`overwritten`) nothing more is said.
- `BothInOrder` (can_mini_driver), violated: the same without the exception, as
  Note2 of `create_device` promises. The slot was free when it was looked for
  (mdriver.c:161), the handler has taken it, and the old message is copied over the
  newest one (mdriver.c:167).
- `SendsNext` (can): thread and handler never both start a mailbox, nor send one
  twice.
- `EveryMessageSent` (can): what is written is sent, as long as the flags of both
  directions are never up together. This and `SendsNext` hold until
  `CAN_DEVCTL_SET_PRIO` writes back a control word that has changed (section 6).
- `EnabledInProgress` (can_send_receive), violated: the handler serves one mailbox a
  turn and writes back all flags it has read (canmx35.c:345-346). The flag of a
  transmit mailbox that was up together with that of a receive mailbox is cleared
  without being served; `CANDEV_RINGO_TX_ENABLED` stays set and the mailbox never
  sends again.

Fairness, in can: the bus takes what is offered although filters freeze the
controller again and again, an interrupt is delivered although devctls mask it again and
again, and the thread runs although handlers interrupt it (all strong).  Nobody
is obliged to write, and no frame to arrive.

### drivers (`Drivers.cfg`)

Four parts, each alone.

SPI transfers: both modes, words of 1, 2 and 4 bytes, lengths on both sides of a
word, a FIFO (8 words) and one and two bursts (32, 64), two transfers in a row,
up to two timeouts.

- `ResultRight`: each byte of the buffer is the reply to that byte of this
  transfer.  `HandlerKeepsUp`: no FIFO is overrun and the refills never run dry.
  Both until a transfer times out; a timeout leaves at most one pulse behind.
- `EveryXferReturns`: under fairness of the thread and its timer alone; the
  controller may stop.

SPI locks: two clients, one chip, one number that is no chip, and
`SPI_DEV_ID_NONE`; every sequence of messages, without a bound.

- `LockExcludes`: a device is locked once, a transfer to a device whose lock was
  checked is not made against another's lock, and no lock outlives its owner.

Touch screen: touches and releases at any time, both threads, the timer, two
timer pulses not yet handled.

- `MaskBalanced`, `ModeOwned`, `PressWatched`; `ReleaseReported`: a finger that
  stays away is reported as released.  Fairness: threads, timer and interrupt.

SDMA commands: two processes load contexts again and again; a command may take
longer than its timeout, with up to two pulses nobody has received.

- `LoadedWhenSaid`, and that a raised line finds its process (in `OneListener`),
  hold until a command is late; that a listener holds the mutex, and `CallsEnd`
  (weak fairness of a thread in a call and of the engine, strong for one that
  waits for the mutex), always.

### devices (`Devices.cfg`)

Six parts, each alone.

Audio: two subchannels, rings of one to three fragments, two pulses not yet
received.  A third fragment is what makes "one interrupt for several fragments"
differ from "the ring has been filled".

- `OwnFragmentsInTurn`: the engine works in the buffer of the subchannel that
  holds the stream, and takes the fragments in turn, session after session.
- `StreamGoesOn`: an engine that stands before a used-up descriptor, and a
  fragment io-audio has not heard of, have an interrupt, a pulse or a thread on
  its way.  Both until two acquires pass each other's test, or a context cannot
  be loaded.

I2C: sends and receptions of one to three bytes, 7 and 10 bit addresses, with a
stop or with a restart following, arbitration lost at any byte, any byte refused,
two bytes that take longer than the timeout.

- `TransferRight`: a call that returns `I2C_STATUS_DONE` has moved all bytes, in
  order, and left the slave silent - as long as no byte was late; and a call that
  waits is woken.

TSC2007: two release pulses not yet handled, up to three touches queued, every
outcome of a conversion, reads that fail.

- `PressEnds`: a press that was reported is watched until its release, and the
  interrupt can reach a thread that waits for the pen.

Serial: a buffer of three characters, a FIFO whose trigger level is one, with and
without flow control by lines, pages by characters, and a change of parameters at
any time.

- `OutputGoesOn`: output that waits and may be sent has an interrupt, an event or
  the timer to go on; no character is wiped out by the reset of the UART; output
  is suspended only because the other side asked for it.

Display: two surfaces of one format and one of another, so that a change of
surface may be a page flip or not, and a capture buffer.

- `ShownIsCommitted`: when the handler has nothing left to do, the channel scans
  what was committed last, address and format of one commit.

NAND flash: one block of three clusters, two transactions, two contents; blocks
do not influence each other.  Power fails between any two steps and inside any
operation, which leaves torn pages.

- `ErasedIsBlank`: a block that reads as erased may be filled.
- `PostedReadsBack`: a posted cluster reads back until its block is erased.

All are safety properties; no fairness is assumed.

### mmcsd (`MmcSd.cfg`), mmcsd_protected (`MmcProtected.cfg`, violated)

Two command blocks that are used again and again, to read many blocks, to write
one, and to ask whether the unit is ready: the first needs a stop command, the
second moves data the other way, the third takes another path.  Three kinds of
card.  Four hosts: the i.MX35 board, which always believes that a card is there,
with DMA on the first silicon, whose interrupt is repeated, and with PIO; a
controller that reports changes of the slot and stops transfers itself; and one
that is polled.  One command is spoilt or one removal takes place, according to
the host.  `MaxStage` of 3 stands for the 1000 rounds that a card is given to
power up.

- `RequestHeld`: a command block is in work, in the queue or answered, and in one
  of these only, whatever is removed or repeated.
- `DoneMeansDone`: success is answered only for a transfer whose data were moved,
  in the card's unit of address, and after which the card has left the data
  state.
- `NoneForgotten`: a command block in work waits for a command or the control
  thread, a queue for a pulse.  The three exceptions in its definition (`Lost`)
  are in section 6.
- `ProtectedKnown`, violated: sim_mmc.h:116 says of `MMC_EFLAG_WP` "card is write
  protected".  The identification sets the flag from the card's CSD
  (mmcsd.c:351), and the detect callout of the 3dsmx35 board clears it at the
  next look at the slot (sim_bs.c:52).  `MaxStage` is 5 there, the least that
  lets a card power up in its second round.

Both check for deadlock.

### smc (`Smc9118.cfg`)

Two io-net threads that send, one that completes, the event thread; three packets
of one and two buffers, of all alignments, through a FIFO that holds two of them
in one order only; two frames of two words and one; one free packet; one
allocation may fail.

- `QueueOrder`: packets go out once and in order.  `FramesWhole`: frames are
  passed up whole and in order.  `BuffersBounded`: what is written fits into the
  FIFO, and the chain of received packets keeps its limit.
- `NothingWaits`: again and again nothing is left over.  The numbers of packets
  and frames are bounded, so this says that no packet and no frame waits for an
  interrupt that has been served already.

Fairness: threads that are in a call go on and get the mutex, the controller
sends and interrupts.

### sdma_processes (`SdmaChan.cfg`)

Two processes, two users in each, two channels; every start and end may fail at
each point where the code undoes something.

- `OneCcb`: the count of processes is right after every failure, and those that
  run agree on one CCB and one command descriptor.
- `HostMatches`: no lost update of HOSTOVR, no reset under a running process, no
  channel left running.
- `CallsEnd`: no mutex is left locked.  Fairness: weak for a thread in a call,
  strong for one that waits for a mutex.

### Deadlock

`CHECK_DEADLOCK FALSE` is set where the system may stop: no client calls any more
(an idle driver stands still, which is what fec_driver, can, drivers, devices,
smc and sdma_processes have in common) or a bound on messages, transfers, frames
or pulses has been reached.  What must not stop there is said by the liveness
properties.  The other runs - fec_rings, fec_tx_release, mmcsd,
mmcsd_protected - check for deadlock.


## 5. What is proved, and how

Everything in the eight `*Proofs` modules is checked by TLAPS; nothing is taken
on trust.  Each states an inductive invariant, proves that the initial states
have it and, in one lemma or step per action, that every step keeps it, and
derives from it the property a run checks.

**The transmit ring** (`FecTxProofs`, from `TxAssumption`: the ring is at least
twice `DEFRAG_LIMIT`, as detect.c:266-272 and `DEFRAG_LIMIT` of 8 ensure).  For
every ring, fragment limit and number of senders:

- `RingInvariant`: `TxSpec => []RingInv`;
- `TxTypeCorrect`, `RingLengthCorrect`, `FillNeverMeetsBusy`, which follow;
- `CompletedOnceCorrect`, by the further invariant `HeldOnce`;
- `WireOrderCorrect`, by the further invariant `WireInv`;
- `ServiceImplemented`: `TxSpec => ImplementsService`, from all of them.

None of the first three properties is inductive.  A sender in the middle of filling has counted
its descriptors in `tx_q_len` and has not moved `tx_pidx`; a reaper has moved
`tx_cidx` and is about to move on.  `RingInv` therefore says, for each thread,
what its place in the code means:

- `MutexHeld`: a thread is in the locked part exactly when it holds `tx_mutex`;
- `InRing`: a descriptor that is ready, or a slot that records a packet, lies
  between `tx_cidx` and the end of what is filled; `tx_pkts_queued` counts the
  recorded packets;
- `SenderLocals` and `FillProgress`: `idx` is `filled` slots after `tx_pidx`, and
  what is still to be filled fits;
- `ReapLocals`: what a reaper has counted.

The proof has a lemma for each action.  Those that touch only the locals of one
thread go through `QuietStep`; those that move an index use how the distance
around the ring changes with either end (`DistAdvanceEnd`, `DistAdvanceStart`,
`DistSum`).

`HeldOnce` spells out what `CompletedOnce` counts: no two senders have the same
packet in hand, no two slots record it, none is both in a hand and in a slot, and
`held` is exactly what is in either.  Given `RingInv`, which leaves the slot at
`tx_pidx` empty when a packet is recorded there, every step keeps it.

`WireInv` is about the descriptors in flight, from the engine to `tx_pidx`: they
are whole frames with L on the last fragment of each (`FrameEnds`,
`FramesFollow`); all are ready but the first of a frame whose kick is still to
come (`FlightReady`, `AboutToKick`); the engine lies between `tx_cidx` and
`tx_pidx`, and what it stands at continues the frame it has begun
(`EnginePlace`); nothing else is ready or carries L but what the sender under the
lock has filled (`FreeClean`, `FilledInOrder`).  A reaper cannot overtake the
engine because a descriptor in flight is ready while a reaper holds the lock, and
it stops at one that is.  The proof needs `TxAssumption` to say that `None` is not
a buffer: NULL is not the address of one.

The refinement reads both lists of `TxService` from the ring with `Along`: the
slots of a set in the order in which they follow an index, each at the place that
the number of slots up to it gives (`Turn`).  `SortedIs` says that a listing in
that order is the only one; from it follow what the actions need: a slot behind
all others is appended (`AlongAppend`), the slot at the index itself is the head,
and the rest is the tail seen from the next (`AlongTail`), and an index that moves
over a slot that is not in the set changes nothing (`AlongMove`).  Then there is a lemma for
each way a step looks from outside: `SendTakes`, `CopySwaps`, `ReturnRefuses`,
`QueueAccepts`, `EngineTransmits`, `ReapCompletes`, and `StepsStutter` for the
steps that the service does not see.  The hard one is the guard of `Complete`, that
the packets whose frame has not left are no more than those pending
(`EndsBounded`): each L in flight has the first fragment of the next frame behind
it, the last has the packet at `tx_cidx`, and the first fragments in flight are
recorded (`FirstsRecorded`, inductive given `RingInv` and `WireInv`).

**The touch screen** (`DriversProofs`, for every number of timer pulses):
`TouchInvariant`, and from it `TouchTypeCorrect`, `MaskCorrect`, `ModeCorrect`
and `PressCorrect`.  `TouchInv` adds who holds the mutex and extends
`PressWatched` to the steps in between: while a press is reported, the timer
runs, or a pulse is on its way, or a thread is on the path that will start the
timer or report the release.

**The receive ring** (`FecRxProofs`, from `RxAssumption`; for every ring, number
of packets and limit of io-net): `RxInvariant`, and from it `HolderCorrect`,
`OldestCorrect` and `LostCorrect`.  `OneHolder` is not inductive: it says nothing
of packets between two places.  `RxInv` adds that the free list repeats nothing,
what the driver thread's and io-net's locals hold at each place in the code
(`Places`), that a packet is in one place of all (`Apart`), and which slots are
filled, waiting or being replaced (`Ring`).  That frames are taken oldest first
is the sentence `Frames(n)`, for the frames that wait, together with `InTurn`; it
needs how the distance around the ring changes when either end moves (`Behind`,
`Forward`).  That packets are lost to frames in error only is a count over those
places.

**The command channel** (`DriversProofs`, for every number of processes and
pulses): `CmdInvariant`, and from it `ListenerCorrect` and `LoadedCorrect`.  The
mutex and the mask belong to the same call (`Held`), and until a command is late
there is exactly one token for the call that waits - its request, its command at
the engine, the raised line, or the pulse (`Exchange`).

**The TSC2007** (`DevicesProofs`, for every bound on pulses and touches):
`TscInvariant` and `PressEndsCorrect`.  What watches a press is inductive as it
stands; that the thread can be reached needs where the pen interrupt is enabled
(`PenEnabled`), the bound of the loop that reads (`LoopBounded`) and the holder
of the mutex (`MutexHeld`).

**The serial driver** (`DevicesProofs`, for every buffer and trigger level):
`SerInvariant` and `OutputCorrect`.  Between calls `OutputGoesOn` says what will
call `tto` again; the invariant says it also of a call that drains the UART or is
about to write back a copy of CR1 (`Called`).

**A layer of the display** (`DevicesProofs`, for every set of surfaces and
formats): `LayerInvariant` and `ShownCorrect`.  For every place in a commit and
every value of `update_flags` it says where the handler will take address and
format from (`UnderWay`, `Complete`, `Settled`).

**The flash** (`DevicesProofs`, from `EtfsAssumption`: a block has clusters, and
blank, torn and programmed areas differ; for every number of blocks, clusters,
transactions and contents): `EtfsInvariant`, `ErasedCorrect`, `PostedCorrect`.
The invariant says that clusters the file system has yet to reach are blank
(`BlankAhead`), how a block began (`ErasedAtStart`, `Begun`), that what looks
erased is blank behind the signature (`BlankBehind`), what was promised (`Kept`),
and how far an operation may have gone (`Posting`, `Erasing`, `Signing`).  The
lemma `AfterLoss` is the heart: an operation that is cut short disturbs nothing
posted, and leaves a block that reads as erased blank.

**Processes and the SDMA library** (`SdmaChanProofs`, for every number of
processes, channels and users): `SdmaInvariant`, `OneCcbCorrect`, `HostCorrect`.
`OneCcb` speaks of processes that run; the invariant follows each through its
start and its end (`Mapped`), so that the count is right also where a failure is
being undone.  `HostMatches` speaks of calls that have ended; the invariant says
what each has read at each of its places (`RegHeld`), which holds because
`register_mutex` is held from the read of HOSTOVR to its write.

**CAN** (`CanMx35Proofs`, for every number of mailboxes, lengths of lists and
messages): `ReadCorrect` and `SentCorrect`. A message that has arrived is followed
from the flag to the list: what is in a mailbox whose flag is up is newer than what
its list holds (`FreshData`), the list ascends, what the mini-driver has still to
add at the front is older (`Backwards`), and what was read is older than both
(`AfterRead`). All of it is said of the mailboxes that are not in `overwritten`; a
slot that is found free and then taken puts its mailbox there before anything else
of the invariant is disturbed. A message that is to be sent is at the head of its
list in each phase - about to be armed, on the bus, sent, none (`Phases`). The
proofs go through lemmas that reduce every step to one of a few effects on one
mailbox. `SentCorrect` assumes that one transmit mailbox is written to (section 6).

**Audio** (`DevicesProofs`, from `AudioAssumption`: a buffer has fragments; for
every number of subchannels, fragments and pulses): `AudioInvariant`,
`FragmentsCorrect`, `StreamCorrect`.  Until a stream has strayed, whoever holds
it is the one subchannel past its acquire, and the ring is over its buffer
(`HeldByOne`); where the engine is follows from what was played, and it stands at
the first fragment when it was stopped (`EnginePlaced`).

**I2C** (`DevicesProofs`, from `I2cAssumption`: a transfer has a byte at least;
for transfers of every length): `I2cInvariant` and `TransferCorrect`.  At each
wait either the byte the call waits for is on the bus (`OnBus`), or it is through
and its flag up (`Answered`), or another master has won (`Beaten`); slave and
driver agree in what they have counted, and TXAK belongs to the byte that is on
the bus (`InTurn`).  An interrupt that is masked has left its event and its flag
(`Signalled`).

**MMC/SD** (`MmcSdProofs`, for every set of requests, cards and controllers and
every number of spoilt commands and removals): `MmcInvariant`,
`RequestHeldCorrect`, `NoneForgottenCorrect`.  A handler of the driver thread is a
function from what the threads share to what they share, made of the functions it
calls; so the invariant is said of any such record `s`, and followed through each
call.  `Fit(s)` says that a command block is in one place (`Placed`) and that the
data command on the line is that of the block in work (`Linked`).  `CalmFit(s)`,
while no card was removed and no interrupt came too early, says what each state
of the identification and the transfer has on the line (`Identifying`,
`Transferring`, `Idling`), and that the one insertion is noticed once
(`Inserted`).  Between them stands `Unseen`: a card of which the driver has not
been told cannot be in a transfer.  It needs the assumption that a controller
that reports changes of its slot also looks at it, as sim_esdhc.c and sim_sdhci.c
do (section 7).

**The SPI locks** (`DriversProofs`, for every number of clients and devices):
`LocksCorrect`.  `LockExcludes` is inductive as it stands.  What takes an argument
is close: `_spi_close_ocb.c` unlocks whatever entry of its control block comes
first until none is left, a loop that the model writes as a function of the number
of rounds.  `UnlockedEffect` says what one round does to the list, and
`ClosedEffect`, by induction over the rounds, that nothing of that control block
is left and that the locks of the others are all there.

**SPI transfers** (`DriversProofs`, from `SpiAssumption`: words of 1, 2 or 4 bytes,
lengths from 1; for every set of lengths and number of transfers and timeouts):
`SpiInvariant`, `KeepsUpCorrect`, `ResultCorrect`.  While a transfer is under way
the bytes from `rlen` to `tlen` are in one of the FIFOs and nowhere else, word by
word where they belong, with the padding of the last burst in front (`Sending`,
`Arrived`); the buffer holds replies before `rlen` and the client's bytes behind
it, so that a refill from `tlen` on never takes a byte that was already replaced
(`Progress`); and in burst mode `rlen` is at the start of a burst.  `FillWords`
says what a fill puts into the FIFO and that it fits, for every remaining length;
`ReceivedOf` that the handler takes the same bytes out again.  The pulse still to
come is counted together with those in the channel (`Pulses`), which holds also
after a timeout.  In the model a byte that was received and sent once more has no
reply, and so would not pass for the right one.

**The SMC9118** (`Smc9118Proofs`, for every number of threads, and all packets,
frames and FIFO sizes): `SmcInvariant`, `OrderCorrect`, `BuffersCorrect`,
`FramesCorrect`.

- `QueueOrder` follows the packets as one line, `sent \o txfifo \o queue`, in
  which sending moves no one (`HeadMoved`) and to which only `Enter` adds: a chain
  that waits with its sender shares nothing with the line (`Apart`), and a
  completion under way has one thread (`Completions`).
- `BuffersBounded`: what is asked for covers what is written, whatever the
  alignment (`WrittenFits`), and the bytes in the FIFO are a sum over its packets
  (`UsedAppend`, `UsedTail`).  The chain of received packets has room for one more
  wherever a frame can be read into it (`Chained`).
- `FramesWhole`: there are numbers of frames `fs`, ascending, and places `at` of
  their words (`Stream`), so that what was passed up or waits in the chain is the
  first of them, whole, the statuses in their FIFO are the lengths of the rest, and
  the words in the data FIFO are theirs, one frame after the other.  Each step
  keeps or extends `fs` and `at` (`PopStream`, `UpStream`, `ReceiveStream`).

**Induction.**  The provers cannot use the library's induction theorems, which
take an operator as a parameter.  `SetInduction` says it of a set: one that holds
0 and with each number the next holds all numbers.  It is proved in both modules
that need it, from the library's pigeonhole theorem: were `n` missing, adding
one would map the numbers of the set up to `n` injectively into those without 0,
of which there is one fewer.  The sums of `Smc9118` are folds over a finite
set, taken in an order that `CHOOSE` fixes; `AnyLast` shows that the order does
not matter, and `PrefixSums` that the sum of a sequence is its sum from the front.

**Only model-checked**:

- all liveness properties, which need fairness and are out of the prover's reach:
  `EveryMessageSent`, `CallsEnd`, `EveryXferReturns`, `ReleaseReported`,
  `EveryoneServed`, `NothingWaits`;
- `DoneMeansDone`, which fails with two spoilt or refused commands, or with one and
  two changes of the card (section 6); it is checked short of both.


## 6. What the code does and its comments say otherwise

Four disagreements are runs: `fec_tx_release`, `can_send_receive`, `can_mini_driver`
and `mmcsd_protected`. Others, met while modelling; the model does what the code
does, and the properties hold under the condition named.

- smc9118 `receive.c:68`: "no memory, drop the packet" takes the status from its
  FIFO and leaves the words of the frame in the data FIFO, in front of the next
  frame.  `FramesWhole` holds while no allocation has failed.
- SPI `mxcspi.c:436`: after a timeout neither the interrupt nor the exchange is
  stopped; the pulse of the old transfer ends the wait of the next one, although
  `mxcspi.c:433` says "Wait for exchange to finish".  An interrupt after the
  timeout stores with `rlen` -1, before the buffer.  `HandlerKeepsUp` bounds the
  pulses left over.
- SPI `_spi_iomsg.c:37`: the lock of `SPI_DEV_ID_NONE` is checked, then the
  default chip is used (`_spi_iomsg_xchange.c:71` and its siblings) whose lock is
  not.  `LockExcludes` is about devices whose lock was checked.
- CAN `mdriver.c:167`: the slot found free at 161 may have been taken by the
  handler, when it was the last one; the newest message is lost under an old one,
  although `driver.c:556` says "in the correct order".  It takes a list that fills
  up, against which `driver.c:558` asks for enough messages; a list that is full
  when the code looks for a slot, or when it adds one, does no such harm.
  `ReadInOrder` and `ReadCorrect` hold for a mailbox until then.
- CAN `canmx35.c:467`: "Disable Object" (461) masks an interrupt; the controller
  and the handler still change the control word that is read and written back to
  set the priority.  A message is then sent twice, or its start is undone.
- CAN `canmx35.c:208`: all ones are written to CANESR, so a flag raised since the
  read is never kept; `mx35can.readme:867` promises a cumulative tally.
- CAN with several mailboxes of one direction: the lowest is served and the flags
  of all are cleared (canmx35.c:281, 320), as with flags of both directions.  A
  flag raised after the handler has read them may be the one that is served; it is
  not cleared then and is served again, and a message that has not been sent leaves
  the list.  `SendsNext` fails with two mailboxes that are written to, and
  `SentCorrect` is therefore about one (`OneSender`).
- SDMA `api.c:392`: the process that created the CCB unmaps it when it leaves,
  although `api.c:73` says it must be accessible from several instances.
- SDMA `cmd.c:333`: any pulse ends the wait, also that of an earlier command that
  was late; its interrupt may come while no process asks for it, and the line
  then stays raised.  `LoadedWhenSaid` and that part of `OneListener` hold until
  a command is late.
- SDMA `api.c:496`: EVTOVR and CHNENBL are changed without the mutex that
  `sdma_channel_release` takes for the same registers.
- touch `touch.c:766`: conversions that `process_data` finds invalid are to be
  ignored; both callers (708, 906) report x and y in every case.
- FEC `receive.c:130-145`: the packet taken to replace that of a bad frame is
  lost.  `OneLostPerError` says that this is the only loss.
- FEC `mx35.c:469`: the receive engine is started once; if it stops at a full
  ring nothing starts it again.  The model lets it stop for good.
- MMC/SD `sim.c:177`: the control thread starts the identification and stores its
  state only afterwards, without the mutex; an interrupt in between is taken in
  the old state and then overwritten.  A removal drops the command in work, and a
  write with PIO is never told that it has ended.  `NoneForgotten` holds without
  these three (`Lost`).
- MMC/SD `sim_mmc.c:653`: an identification that fails goes back to IDLE and
  leaves `MMC_EFLAG_READY` from before.  On the first silicon, a data command
  spoilt by a CRC error starts the identification anew, which forgets that the
  card addresses blocks (mmcsd.c:467); if the controller then refuses its first
  command (sim_mx35.c:260), the card is still in its transfer state, and the next
  request is sent to it with the address in bytes and answered as done.  It takes
  two faults, or one refused command and two changes of the card, on a polled host,
  between two polls and while the control thread's assignment of `ext->state` is
  still to come; `DoneMeansDone` is checked with one spoilt command or one removal
  (`MCHosts`).
- Audio `mx35_3ds_dll.c:101`: the holder of the stream is tested before `hw_lock`
  is taken, so two subchannels may acquire it; `mx35_3ds_dll.c:365` reads the
  holder twice, and a release in between leaves it null at the second; an abort
  whose context cannot be loaded again leaves the position where it was
  (api.c:733).  The properties hold until the first or the third (`strayed`).
- I2C `wait.c:42`: a timeout returns 0, which the callers take for an
  acknowledge; `send.c:51` and `recv.c:59` assign the restart flag only when a
  call succeeds, so that it stays set after lost arbitration.  `TransferRight`
  speaks of calls without a timeout.
- TSC2007 `tsc2007.c:469`: a read that fails is ignored; an old position or half
  of one is reported.  `PressEnds` holds all the same.
- Serial `intr.c:39`: RTSD is cleared after SR1 was read, and a change of the
  line in between is not seen until the next (`unseen`); `tto.c:130` writes back
  a copy of CR1 that the handler has changed, and `tto.c:212` forgets that the
  transmit interrupt was on.  `OutputGoesOn` holds because the event or the timer
  remains.
- Display `layer.c:366`: a page flip committed while a full update waits is lost
  when the handler takes the full update (`overtaken`); `capture.c:71` asks for a
  full update without computing its parameters (`captured`).
- ETFS `devio.c:275`: a cluster of which only the data were programmed before the
  power failed reads as erased, and what is posted on top of it has torn data.
  Only the first cluster of a block can be used so; both properties except its
  data.

Further hazards, which no property covers:

- FEC: the multicast filter is written while frames arrive (mx35.c:724).
- SMC9118: the limit of the free list is tested before its mutex is taken
  (receive.c:162); one transmit status is read for several packets (smc.c:510);
  `smc9118_flush` completes packets with the mutex held (smc.c:123), after the
  event thread was cancelled wherever it was (shutdown.c:57); an EEPROM command
  never times out (smc.c:82).
- SPI: `devlist` is shared by instances (mxcspi.c:52) and a configuration is
  stored before it is validated (mxcspi.c:251), as is the default chip
  (_spi_devctl.c:58).
- SDMA: the number of a channel is read after its structure was freed (api.c:560)
  and through a null pointer when it was not made (api.c:519); a process that
  dies leaves its count and its mutexes (sync.c:105); shared memory may be found
  before it is initialised (init.c:101); an abort leaves a software transfer
  running (api.c:738).
- Touch screen: failed I2C reads (touch.c:969), a conversion that is read though
  it has not ended (touch.c:550), shutdown under both threads (touch.c:1019).
- CAN: an index of 32 and more is shifted by (canmx35.c:389).


## 7. What is assumed

- One core: a thread stands still while an interrupt handler runs (`CanMx35`,
  `SpiXfer`).  Controllers and engines do not.
- FlexCAN: a mailbox is locked from the read of its control word to the read of
  CANTIMER; a frame takes longer on the bus than the handler takes from
  `can_ringo_tx` to the end of its turn.
- CSPI: an exchange moves one word at a time and raises TC when the transmit FIFO
  is empty; the `memcpy` at mxcspi.c:447, whose areas overlap, copies forward.
- SMC9118: RSFL is raised as long as a status is in the FIFO; a frame that does
  not fit is not taken.
- FEC: the engine stops at a descriptor that is not ready and goes on when
  X_DES_ACTIVE is written.
- SDMA: the engine fetches a descriptor when it comes to channel 0, and raises
  INTR at the end.  A channel number read after `chan_destroy` is the right one
  or one that nobody has attached.
- MMC/SD: `simq_post_ccb` sends a pulse when the queue is not empty; a handler of
  the driver thread, which runs at priority 21, is not interrupted by the control
  thread at 10; nobody changes a card faster than a command fails.  A
  controller that reports changes of its slot has a detect callout that looks at
  it (`BoundsAssumption`): only sim_esdhc.c:681 and sim_sdhci.c:630 set
  `MMC_HCCAP_CD_INTR`, and both read the slot.
- SDMA rings: the engine goes on to the next descriptor and stops at one that is
  used up; `io-audio` stops a subchannel before it releases it.
- I2C: a byte takes longer than what the thread does between two waits.
- Serial: `io-char` makes one call at a time; an interrupt that is pending is
  served before the UART is reset; an injected character finds room.
- TSC2007: the filter of jitter and a failure to enable the pen interrupt again
  are left out.
- Display: one layer; the server makes one call at a time.
- ETFS: programming clears bits only, the cells of a page are erased together, a
  CRC tells torn areas from whole ones.  The file system fills the clusters of a
  block in order, from a first one that it erased or that reads as erased when it
  starts.
- `io-net` gives packets back from threads of its own.
- `libcan` keeps a list of fixed length per mailbox and looks for room both when a
  slot is asked for and when it is added, as the library under
  `src/prebuilt/armle/usr/lib` does.  Its test at the addition and the addition are
  one step.  The words of a message are copied one by one; a slot whose words are
  of two messages is `Torn`.
- MC13892 touch: TSI is raised in interrupt mode when the pen goes down; it is
  sensitive to both edges and debounced (`touch.h:131`), so a release may raise it
  or not.
- Bounds: `MaxBadFrames`, `MaxMsgs`, `MaxXfers`, `MaxTimeouts`, `MaxAllocFails`,
  `MaxUsers`, `MaxPulses`, `MaxTimerPulses`, `MaxStage`, `MaxAudioPulses`,
  `MaxStretches`, `MaxReleases`, `MaxTouches`, `MaxOut` cap what would count for
  ever; each is declared as a bound in its module, and section 4 says what its
  value lets happen.


## 8. What is not modelled, and why

Option parsing, mapping of registers, statistics, logging and debug output;
start-up code that runs once before any concurrency; PHY polling; contents of
frames, messages and contexts beyond what the properties tell apart.

Of the modelled components: multicast filter, PHY, devctls and shutdown of the
Ethernet drivers; CAN debug output and the timeout of freeze mode, which ends the
process; configurations of SPI devices; I2C errors of the MC13892 touch driver;
the SDMA microcode download, transfers between memory areas and the constructor
of the shared memory; the death of a process; aborts, resets, power management,
inquiry and mode data of MMC/SD, its clocks and its other controllers' registers;
capture, clocks, mixers and fragment sizes of the audio driver; the jitter filter
and calibration of the TSC2007 driver; received characters of the serial driver
beyond what they do to output; drawing, modes, cursor, chroma key and blending of
the display driver; bad-block marks, copies and the waits on the NAND controller.

Whole components, with the reason:

- **start-up library and boards, IPL**: sequential code that runs once, before
  there is any other actor; most of it is register headers and tables.
- **`deva-ctrl` mx and mx35_spdif**: the structure of the 3dsmx35 driver, which
  `AudioPcm` models, with other registers.
- **codecs and mixers**: tables of mixer elements and writes to registers, made
  under the lock of `io-audio`.
- **MTD flash**: command sequences of chips; queues, locks and recovery are in
  `libfs-flash3`, which is not in the repository.
- **`rtc`, PMIC tool**: one read or a list of writes, then exit.
- **start-up and shutdown of the Ethernet drivers, start-up of the SPI manager**:
  option parsing and registers, before or after anything runs concurrently; the
  hazards of shutdown are in section 6.
- headers and prebuilt binaries have no behaviour of their own here.

By lines these are by far the most of the repository.  What is modelled is the
smaller part in which an order of steps can go wrong.
