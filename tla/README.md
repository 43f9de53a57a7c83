# Verification of the STM32 network radio

TLA+ models of the firmware in `src/trunk/stm32radio`, the TLC runs that check
them on small instances, and TLAPS proofs of what holds for every value of the
constants. `PROJECT.json` maps every definition to the lines it models and
lists the hazards, runs, mutants, findings and theorems by name. File names
below are relative to `src/trunk/stm32radio` unless they say otherwise;
`stm32radio_examples` is a copy of the same code for examples and is left out.

## 1. The system

A Cortex-M3 plays mp3 and wav files from an SD card, shoutcast stations and
the channels of douban.fm. It runs RT-Thread: preemptive, strict priorities,
a lower number is more urgent.

| thread | priority | made in | queue | work |
|---|---|---|---|---|
| `timer` | 8 | kernel | | soft timers: they post events to the user interface |
| `tcp` | 10 | lwIP | | the protocols |
| `etx`, `erx` | 12 | lwIP | 4 messages each | packets to and from the Ethernet chip |
| `ply_bg` | 13 | `player_bg.c` | `player`, 8 requests | opens an item, decodes it, writes blocks to the codec |
| `update_bg` | 20 | `radio_list_update.c` | 1 job | fetches the list of stations over http |
| `nbuf` | 22 | `netbuffer.c` | `njob`, 4 jobs | fetches blocks from a network session into the ring |
| `ply_ui` | 25 | `player_ui.c` | 4 events | user interface, play list, mode of the player |
| `remote`, `rm_study` | 30 | `remote.c` | | decodes, and learns, infrared codes |

Interrupts: the end of a DMA block (`codec_dma_isr`), the capture of the remote
control, the network card, USB. The SPI bus carries the codec's registers, the
touch screen and the flash, under one lock.

```
 keys, touch, remote, timers --events--> ply_ui --requests--> ply_bg --blocks--> snd --DMA--> codec
                                          ^  is_playing ----->  |  ^                ^           |
                                          +------ reports ------+  | bytes          +-isr: next-+
                                                                   |                 or back to the pool
                              http / douban session --> nbuf --> ring
```

### Components

| component | state | operations | hard behaviour | what makes it correct |
|---|---|---|---|---|
| net buffer, `netbuffer.c:41-410` | ring, two indices, `data_length`, `stat`, `is_wait_ready`, two semaphores, job queue | `net_buf_read`, `net_buf_start_job`, `net_buf_stop_job` (player); `net_buf_do_job`, `net_buf_do_stop` (worker) | two threads share everything without a lock; each waits for the other; stop at any point | bytes come once, in order; no overrun; no wake-up lost; not both waiting; sessions owned once; every waiting reader released |
| codec device and pool, `codec.c`, `netbuffer.c:1-40`, `mp3.c:179-271` | ring of 5 nodes, MS in `r06`, I2S and DMA enables, free blocks | `codec_open/write/close`, `sample_rate`, `codec_dma_isr`, `sbuf_alloc/release` | interrupt against thread; clock stopped at an underrun and started by the next write | a block is in one place; a ring with a block is being played; the waiting decoder gets a block |
| player control, `player_ui.c`, `play_list.c`, `player_bg.c` | list and index, mode, next step, both queues, `is_playing` | presses, choices, reports, the USB cable; open, connect, decode, stop | requests and reports cross; a queue of 4 that drops; a flag two threads write | the mode tells the truth; the index is in the list; a stop is carried out |
| station stream, `http.c` | `current_meta_chunk`, static `first_meta_size` | `shoutcast_session_open/read/close` | metadata anywhere in a block, cut by a block's end or a timeout | only music is given back, counters keep step with the server |
| douban radio, `douban_radio.c` | items' strings, `size`, `current`, session | `open`, `read`, `close`, `playlist_load` | links and loads that fail between frees and resets | strings freed once, none leaked, one session |
| sockets, `http.c`, `douban_radio.c`, `radio_list_update.c` | lwIP's table | connect, close | error paths that keep a socket, a socket number taken from the wrong call | a session uses the socket it has made; where one is lost is known |
| radio list update, `radio_list_update.c` | `update_radio_mq`, the state shown, the file | create, request, fetch, delete | one pointer shared by interface and thread, which is the more urgent | no use after delete; the view tells the truth |
| Ethernet driver, `drivers/dm9000a.c`, `ethernetif.c` | `packet_cnt`, `imr_all`, `sem_ack`, `sem_lock`; the chip's latch and mask | `rt_dm9000_tx`, `rt_dm9000_rx`, `rt_dm9000_isr` | two threads and an edge-triggered interrupt share two masks, a latch that is cleared by writing and a status that is cleared by reading | packets in order; each acknowledged unless its end is lost at one of two known places; none left in the chip unseen |
| remote control, `remote.c` | `rx_count`, `rm_code`, `rem_mode` | capture interrupt, encoder, study | interrupt fills what a thread reads | a code is read whole (not modelled, section 7) |

Not modelled, because nothing in them interleaves or fails in a way a model
could tell apart: setup, station and channel lists (parsing of files and a
modal view), keys and touch (sampling), pictures and drawing (output), startup (a fixed
order before any other thread runs), the other board drivers (register sequences). The
JSON parser, the mp3 and wma decoders, USB mass storage, RT-Thread, lwIP, DFS
and RTGUI are vendored; of the kernel, the models contain what the calls used
here do (semaphore, message queue, mutex, heap assertion), marked external in
the map. Every component, with its status, is in `PROJECT.json`; so are the hazards,
each at its line.

## 2. Modules

| module | what it is |
|---|---|
| `NetBuffer` | the net buffer and both its threads |
| `NetBufferProps` | its properties, the mapping to `ByteFifo`, the inductive invariant |
| `ByteFifo` | abstract: a bounded byte queue, empty at the start of each job |
| `MCNetBuffer` | constants for TLC |
| `NetBufferProofs` | theorems on types, waiting and room, on the ring's indices, the sessions' owners and the refinement |
| `Codec`, `CodecProps`, `MCCodec`, `CodecProofs` | the same for the samples' path |
| `Playout` | abstract: blocks are free, held or queued and are played in order |
| `PlayerControl`, `PlayerControlProps`, `MCPlayerControl`, `PlayerControlProofs` | user interface, play list and player thread |
| `Shoutcast`, `ShoutcastProps`, `MCShoutcast`, `ShoutcastProofs` | the stream of a station |
| `Douban`, `DoubanProps`, `MCDouban`, `DoubanProofs` | the douban radio |
| `Sockets`, `SocketsProps`, `MCSockets`, `SocketsProofs` | who holds which socket |
| `RadioListUpdate`, `RadioListUpdateProps`, `MCRadioListUpdate`, `RadioListUpdateProofs` | the update of the stations |
| `Dm9000`, `Dm9000Props`, `MCDm9000`, `Dm9000Proofs` | the Ethernet driver |

The models meet at these interfaces. What `NetBuffer` calls a session is an open
`Shoutcast` or `Douban` session; its `FetchBlock` is one
`shoutcast_session_read` or `douban_radio_read`, and `FetchNothing` a call that gives
back nothing. What it calls `play` is the decoder, whose output side is the
player of `Codec`; `Codec`'s waits are the points at which `NetBuffer`'s worker
may run. `PlayerControl`'s player abstracts both to `connect` and `play`, whose
end is the end of the stream, an error, or the loop noticing `is_playing`.
`Sockets` is what opening and closing a session, a song or an update does to the one
thing they share; its `Update` session is `RadioListUpdate`'s `connect` to `delete`.
`Dm9000` is below all of them: what it calls a packet is a frame lwIP hands to `etx`.

Each module begins with a note on atomicity. In short: a thread runs
undisturbed by less urgent ones until it blocks, so its code between two blocking
points is one step; a less urgent thread is cut at every access to
shared state. Operators named `Fault...` near the top of a module are not part of the
model: each is a plausible mistake in the definition of the same idea and is put in
its place, one at a time, to see that a property notices.

### 2.1 NetBuffer

The ring, `stat`, `is_wait_ready`, the semaphores' counts and the queue keep the
names of the code. `worker` is where `nbuf` stands: `recv` (`rt_mq_recv`,
338), the loop `top` / `fetch` / `room` / `suspend` / `take` / `copy` / `add` /
`notify` of `net_buf_do_job` (234-325), then `close` / `stop` / `wake` /
`reset` of `net_buf_do_stop` (208-229). `w_data_length` is the worker's local copy,
which goes out of date: `burst` counts what the player has read since
the worker's last step and is bounded by `Burst` only at the two steps (`Stale`) that act on an
old test. `player` is the caller: `connect` (a session is being opened), `play` (decoder and its
waits), `wait` (`wait_ready`), `woken`, `refused` (a job not accepted, its session
to be closed, mp3.c:605-625), `ended`.

Actions and code: `net_buf_read` is 79-151, with `WaitReady` its blocking part
92-96; `net_buf_start_job` 153-182; `net_buf_stop_job` 184-206; each worker action
is the run of lines between two accesses of shared state, in the order of the
code. Sizes are parameters; the code has 327680 bytes (application.c:193) and blocks
of 4096.

Left out: the failure of `rt_sem_take` with an infinite timeout (99, 273-278: only a
deleted semaphore gives it) and of `rt_malloc(4096)` (unchecked). Bytes unread
when a stream ends are dropped by the reset, as in the code, and `ByteFifo`'s `Close`
says so. The three stores of the reset (226-228) are one step: a read that finds `data_length` 0, the first of
them, looks at no index.

### 2.2 Codec

The ring is `data_list`, `read_index`, `put_index`. `MS` is the master bit in the
driver's copy `r06`, `chip` the bit as the codec has it, `I2SE` and `dma`
the port and the channel. `player` walks from `sbuf_alloc` (`alloc`) through
`decode`, `sample_rate` (`rate`, `send rate`), `codec_write` (`write`, `store`) and
`codec_close` (`stopping`, `send stop`, `remove`). `owner` and `queued` are
the SPI bus's lock. `codec_dma_isr` is the interrupt, 577-637, in one step.

Two constants choose what of the code is looked at:
`ContextCheck` is `RT_DEBUG`, which rtconfig.h:19 defines: with it the first
underrun halts the machine (finding below), so `CodecPlayout` looks at a build without it, which goes on.
`Windows` says in which of two pairs of instructions the interrupt may fall, `"rate"` (codec.c:326-368) and `"close"`
(411-426). That run takes `{}`: what the windows break is in section 6, and no property of the run speaks of
it. The theorems hold for both builds: with the check for every choice of windows, without it for the windows
that do not break their property (section 4).

`sample_rate` evaluates `r06` before the transfer on the bus (375), so that `SendRate` may write the bit as it was
before an interrupt that came in between. A limit of the model: without the check, an interrupt that has to change MS
waits for the bus to be free; the code does not wait and would write into another thread's transfer (614-625).

### 2.3 PlayerControl

`play_list` is a sequence of kinds of item (`mp3`, `wav`, `radio`, or `wma` for a
name no branch of the player knows), `play_item_current` its index from 0,
`player_mode`, `next_step` the user interface's variables, `ui_mq` its queue of four with
`Send` the send whose refusal nobody sees. `ui` is `append` while a new list is
read, with the tags of all files, and `fault` after a null or wild item was used (the mode it has stored until then is
kept, 711). A directory or an m3u file that cannot be opened leaves the old list, whose item 0 is started again
(453-456, 471-474); one that is empty leaves no list and the old index.
`player` is where `ply_bg` waits. Actions of the user interface are the handlers of
`player_entry` and the functions they call to the end (a press, a choice, the
report of an end with what it starts next); it can move only if the player is not
ready (`PlayerFirst`). Left out: drawing, titles, volume; the play mode is REPEAT, which nothing
changes; the `rt_thread_delay(50)` of the cable's handler and that its modal view never ends
(`frozen` stays). An http URL ending in .mp3 counts as RADIO for the interface and
as mp3 for the player (player_bg.c:60-61 tests it first): the model takes it as a
station.

`lost` is a history variable, TRUE once an item's end was not reported: the
properties that the full queue breaks are stated up to it; what is broken then is in
section 6.

### 2.4 Shoutcast

The server is modelled with its stream, `wire`, a sequence of bytes that know
whether they are music, text or a length, so that the properties can compare what
the counters believe with what was sent. `shoutcast_session_read` is the receive
loop followed by one of four branches (587-638), each an action. A call may end anywhere. Where it ends inside
a text, `memmove` is given a negative size, taken as unsigned: the worker does not come back from it, and the model
stops there (`Halt`, `halted`; the finding). A full block does that in `SkipInside`, a short one also in `SkipText`.
A session may end anywhere too. `astray` is a history variable: this session has begun with the text of another (the static
`first_meta_size`), or a length byte did not come (604, unchecked). The properties are stated up to it, and the model goes on after it.
Connecting is in `Sockets`.
A server with `metaint` 0, whose stream the code reads as metadata, and one with `metaint`
smaller than a block (two metadata in one block; the branches handle one) are
excluded by `MetaAssumption`.

### 2.5 Douban

`items` holds for each item whether its strings are null, in use or
freed; `current` counts as in the code; `douban_radio_playlist_load` with
its three outcomes (a second free, a failure after the frees, a new list) is part of
the three places that call it. A list gives every string of every song; the JSON
parser and lists cut off in a song are left out. `length` counts pieces, not bytes. A song's session that could not be
opened is `RT_NULL` and is read and closed all the same (`OpenFails`; http.c:336, 368 read its socket at address 0): the model takes
that for a read without data and the close of no socket, which the code does not guarantee.

### 2.6 Sockets

`conn` is lwIP's table: the session that made the socket in each place. A session is
known by `made`, the place `lwip_socket` gave it, and `peer`, the one it goes on with:
`Handle` is the difference between `http_connect`, which keeps its socket, and
`shoutcast_connect` (http.c:397) and the update (radio_list_update.c:87), which keep the
result of `connect`. Each return of the three connecting functions is an action or a
disjunct: `ConnectFails`; `StationOpens`, `UpdateOpens`, `DownloadOpens`; `StationRefused`, `UpdateRefused`; `HttpGivesUp`, `NoFile`,
`Close`. Sessions overlap in every way the threads allow. The one thing that orders them is that one thread, the player, opens
all stations (`Turn`), and it does not wait for the worker to close the one before. `mixed` is a history variable: since the table was
last empty a station or an update has met another session, or a socket that was lost. Reading is left out.

### 2.7 RadioListUpdate

`update_radio_mq` is the pointer, `alive` the queues that exist, `msgs` the request in each.
The interface is cut in `CreateUpdate` (create and start, after which the thread runs to its
receive), `update_radio_list_req` (which sends where the view's entry `Asks`) and `Requested`, because the thread is above it:
`UiRuns` lets it move only when every update waits. `list` says what has happened to
`radio.pls` since the request. The failure of the thread's creation is `ThreadFails`
and leaves the queue, as in 372-379. The drawing of the view is left out, and so is the end
event the thread posts, which the view only takes as a reason to draw itself.

### 2.8 Dm9000

The chip is `isr` (its latch, cleared by writing), `imr` (its mask), `nsr` (an end of a transmission is shown; cleared by
reading), the packet on the wire and the number of received frames. `Line` is the level of its interrupt pin and
`EdgeLatched` the EXTI controller, which sees only the rise; `EXTI4_IRQHandler` serves until the
line falls (stm32f10x_it.c:266). The handler is cut where the chip can change what it reads: `GotStatus` takes the latch over, `LinkRead`
reads NSR if the link has changed (180; only what is done with the value is commented out), and `rt_dm9000_isr` does the rest; frames and ends
may come in between. An end counts only if NSR still shows it (`TransmitDone`, 218-238), which `LinkRead` may have cleared.
`etx` and `erx` are the threads of
`ethernetif.c` in `rt_dm9000_tx` and `rt_dm9000_rx`; both have priority 12 and share `sem_lock`. A packet is a
number modulo 3, which is enough to tell the packet before, this one and the next,
and no more than two are in the chip (`TypeOK`). `erx`'s last three accesses, `RxClears`, `RxRestores`
and `RxReturns`, are apart, since the interrupt may come between any two, and the
value written to the mask is either the one just stored or the variable read again
(`imr_all` is not volatile, and the compiler may do either).

One access of a thread may be under way when the line rises, and reaches the chip before the handler does: `pending` is `"new"`
until then and `"late"` after it.

`lost` is a history variable: an end was taken away before the driver counted it, by `LinkRead` or by `RxClears`. What is said of acknowledgements is
stated up to it; `EndsLostTheorem` says that nothing else sets it.

Left out: initialization and the PHY;
an invalid ready byte, at which the chip is stopped (492-498); a frame longer than the maximum, at
which it is reset (560-567); a frame of odd length without a buffer (section 6); the shell command `dm9000` (779), whose reading of
NSR clears an end like that at 180. Damaged frames are
part of `RxReads`.

## 3. Runs

All numbers are distinct states.

| run | bounds | what it shows |
|---|---|---|
| `NetBufferControl` (190 000) | ring 10, blocks 1-2, reads 1-3, 2 sessions, `Burst` 8 | all safety and liveness of the threads' dialogue |
| `NetBufferFifo` (697 000) | ring 5, 2 byte values | refinement of `ByteFifo` |
| `CodecPlayout` (24 000) | ring 5 (real), pool 2 (real), no window | blocks, clock, refinement of `Playout`, the waiting decoder |
| `PlayerControl` (56 000) | queue 4 (real), lists of none, one and two items | mode, index, timer, stop |
| `Shoutcast` (11 000) | block 5, metaint 7, text 0, 2 or 4, calls and sessions that end anywhere | only music, counters in step |
| `Douban` (180) | 4 songs, 2 pieces to a block | strings, sessions, calls return |
| `Sockets` (31 000) | 3 places, two stations, an update, two downloads | whose socket is used, where sockets are lost |
| `RadioListUpdate` (150) | 3 threads, 3 queues | the queue's life, an honest view |
| `Dm9000` (305 000) | mailbox 2, 2 frames, no end of packets, links that change | order, acknowledgement, nothing unseen, both directions served |
| `CodecNoMutexInInterrupt`, `SkipsMeta`, `ValidSocket` | as above; `ValidSocket` with two stations and nothing else | findings, section 5 |

Why the bounds are enough. *NetBuffer*: 10 is the least ring in which the marks of
80 % and 90 % differ from each other and from the size and a block fits
above the ready mark (`SizeAssumption`); blocks of 1 and 2 and reads of 1 to 3 put both indices at every
offset of the ring's end; two sessions are the most that can exist at once, one
in the worker and one refused; the queue has the real depth. In `NetBufferFifo` the data
have two values and the ring is smaller, as the marks do not matter there. *Codec*: ring and pool are the real ones.
*PlayerControl*: the queue is the real one; two items are enough for first, last,
next, previous and stale; a list of one unknown item and an empty one for the rest. The player's queue of 8 needs no
bound: `ModeExact` implies that it holds at most one request. *Shoutcast*: 5, 7 and texts up to 4 keep the
order of the real sizes (text < block < metaint) and, 5 and 7 having no common divisor, metadata
begin at every offset of a block, also exactly at its end. The server's `wire` is capped at
one block and one chunk (`ServerSends`). *Douban*: lists grow, shrink, stay and are empty between 0 and 4
songs; a call's block takes 2 pieces, so a song may end before, between and
after pieces. *Sockets*: two sessions of each kind that may meet its own; three places let one be place 0, one be lost and
one still be told apart; sockets are lost until none
is left, so that a failing `socket()` is reached. *RadioListUpdate*: one
thread and one queue more than can ever be in use, so that `QueueLives` does
not hold by want of them. *Dm9000*: frames waiting are told apart only as none, one and
more; a mailbox of 2 can be empty, between and full, and the loss of a message at a full one
is reached (the code has 4; the theorems hold for every size).

`CHECK_DEADLOCK FALSE` stands where the system really stops: after a halt by the
kernel's assertion (`Douban`, `CodecNoMutexInInterrupt`), after a `memmove` of a negative size (`Shoutcast`, `SkipsMeta`), when every socket is lost
(`Sockets`, `ValidSocket`), when an update's thread could not be made, whose queue then bars every later one
(`RadioListUpdate`), and, in the run of `PlayerControl`, after `fault`: the interface has used an item that does not exist,
and once its queue is full nothing moves.

### Fairness

- *NetBuffer*: weak fairness of the worker (a ready thread of an otherwise idle machine
  is scheduled; a fetch returns, by data, an error or the 6 s timeout of the
  socket), of a woken reader and of the return of a stop. Nothing is promised of the user, the
  decoder's pace or the stream's end.
- *Codec*: strong fairness of the interrupt, since in the model it needs the bus free when it
  changes MS, and others take the bus again and again; weak fairness of the
  woken player and of the release of the bus. The DMA does end a block it
  sends while the clock runs; `NoStall` is what shows that the clock runs.
- *PlayerControl*: weak fairness of each thread's ready steps, of a connection's
  success or failure (timeouts of the sockets), of the end of a wav file, which looks at no flag. The natural end of an mp3 file or a
  station is not assumed.
- *Douban*: weak fairness of the loop: a socket answers or times out. `ReadReturns`
  does not need songs to have data.
- *Dm9000*: weak fairness of the chip (what is on the wire ends) and of the handler; strong fairness of
  `erx`'s steps and of `etx`'s once it has a packet (`TxGoesOn`), because the handler and the lock take it away and give it back again and
  again. Both threads have the same priority and wait for the lock in the order they came (FIFO), so neither is passed over for
  ever. No frame has to arrive and no packet to be sent.
- *Sockets*, *RadioListUpdate*: none, no liveness is claimed.

## 4. Proofs

All proofs hold for every value of the constants under the named assumptions beside them.

| theorem | what | argument |
|---|---|---|
| `NetBufferProofs!TypeCorrect` | types; indices stay in the ring | one case per action; `AdvanceReadInside`, `AdvanceSaveInside` |
| `NetBufferProofs!NoLostWakeups` | `NoLostWakeup`, of the reader (`NoLostReady`) and of the worker (`NoLostResume`) | inductive as they stand, with types; no assumption on timing |
| `NetBufferProofs!NoOverrunTheorem` | no overwrite, no unsigned wrap | needs `ActiveStat` (no start during a job) and `ResumedRoom` (a resumed worker has room: the resume mark plus a block fits the ring) |
| `NetBufferProofs!NoMutualWaitTheorem`, `ReadyMeansDataTheorem` | not both waiting; a woken reader finds data | under `ShortBursts`; both from one invariant, `WaitInv` (lemma `Waiting`), which needs `StaleBounds`, `WaitBelowMark`, `SuspendedData` |
| `NetBufferProofs!RingConsistentTheorem` | the indices stay `data_length` apart | inductive with types; the reader and the worker move their index by different code, each shown to add modulo `Size` (`ReadMoves`, `SaveMoves`, from `ModUnique` and `ModPlus`) |
| `NetBufferProofs!CleanStartTheorem` | the worker takes a job on an empty ring | inductive with types: between `reset` and the next job a read finds nothing. It says nothing of a reader that is ahead of the reset (section 6) |
| `NetBufferProofs!OwnedOnceTheorem` | player, queue and worker hold open sessions, each once; one job queued; an open session that nobody holds is that of a dropped job | needs `OwnersInv`: a job is queued only for a worker that has left the one before (`Queued`, `ActiveStat`); and `LossInv`: after the drop the status stays STOPPING and nothing is queued any more (`Stuck`) |
| `NetBufferProofs!ReaderServedTheorem` | a waiting player's job is queued, performed or being ended | no assumption; `ServedInv` (a status of BUFFERING is that of a job, and the player waits under no other), with `OwnersInv` |
| `NetBufferProofs!FifoTheorem` | `ImplementsFifo`: every step is one of the byte queue or a stutter | no assumption on timing; needs `RoomInv`, `RingConsistent`, `Stored` (between the copy and the sum the block lies behind the unread bytes) and `Filled`; `CopyBehind` for the copy, `UnreadRead` for the read |
| `CodecProofs!TypeCorrect` | types, for every choice of windows | `RemovedBlocks` for the nodes given back |
| `CodecProofs!PlaysHeadTheorem` | the channel reads only the head of the ring | no assumption; `HeadInv`: `PortMaster` (the port is on only as master), `ClosingQuiet` (nothing is sent while a close clears the ring) and `MasterSpare` (the bit outlives the last block only while the next one is on its way) |
| `CodecProofs!NoStallTheorem` | a ring with a block is played | under `ContextCheck \/ "rate" \notin Windows`; needs `Silent`, `RoomKept`, and `RateKept` (what `sample_rate` stores and what it sends stop no clock that runs) |
| `CodecProofs!OneHolderTheorem` | one holder of each block | under `ContextCheck \/ "close" \notin Windows` and `Cardinality(Block) < DATA_NODE_MAX`; `HoldInv` says it of places, `NeverFull` is the pigeonhole argument that a smaller pool cannot fill the ring |
| `CodecProofs!WaiterPlayedTheorem` | a decoder that waits for a block has one being sent | outside both windows or with the check, with a pool that is not empty and smaller than the ring; `NoStall` and `HoldInv` |
| `CodecProofs!PlayoutTheorem` | `ImplementsPlayout`: every step is one of the block queue or a stutter | under `ContextCheck \/ "close" \notin Windows` and the smaller pool; `NodesAppend`, `NodesTail` for the queue round the ring; `HaltStep`: the step that halts takes nothing from the abstract queue, whose head is then the block the interrupt has passed and not given back (`Written`) |
| `PlayerControlProofs!TypeCorrect` | types; the events' queue never overflows | one case per action; `SendType` |
| `PlayerControlProofs!CurrentInListTheorem` | where there is a list the index is in it; an item that does not exist is followed only where there is none | no assumption on the lists; `ChoiceIndex`, `EmptyAtFault` |
| `PlayerControlProofs!QuietAtRestTheorem` | in STOP the position is not drawn, while `ui # "fault"` | no assumption; `ItemInv`, below |
| `PlayerControlProofs!ModeExactTheorem` | the mode is STOP and nothing is on, or exactly one item is | no assumption; `ItemInv` and `Numbers` |
| `ShoutcastProofs!TypeCorrect` | types, the counters below their limits | wherever calls end, a halt included |
| `ShoutcastProofs!InStepTheorem`, `OnlyMusicTheorem` | the counters keep step, only music is given back | wherever calls and sessions end, up to `astray`; `FrameInv`, below |
| `DoubanProofs!Invariant` and `TypeCorrect`, `LiveUrlTheorem`, `NothingLeft` | strings, sessions and numbers agree; no freed url is used; nothing leaks | needs `InList`, `LiveList`, `NoneWithout`; `LoadLemma`, `NextSongLemma` |
| `SocketsProofs!TypeCorrect`, `OwnStreamTheorem`, `LostOnlyThereTheorem` | a download above place 0 uses its own socket, and every session does while not `mixed`; a socket is lost only where the code says | for every overlap; needs `HandleKnown`, `Held` (whatever happens, a place above 0 is its session's until the session ends) and `Apart` (unmixed, a station or an update is alone and has place 0) |
| `RadioListUpdateProofs!TypeCorrect`, `QueueLivesTheorem`, `StateHonestTheorem` | one update, its queue, its outcome | needs `Requesting` (the interface asks the thread it has just made) and `Announced` (the state from the request to the outcome) |
| `Dm9000Proofs!TypeCorrect`, `InOrderTheorem`, `NoneUnseenTheorem` | two packets at most, each once and in order; no frame unseen | no assumption, lost ends included; needs the following |
| `Dm9000Proofs!AckComesTheorem` | what is counted as in the chip is on the wire or about to be acknowledged | up to `lost` |
| `Dm9000Proofs!EndsLostTheorem` | an end is lost only to the reading of NSR for the link, or to `erx`'s clearing of PTS in an access that was under way when the interrupt came | `Latched` and `Masked`: any other end has raised the line before `erx` goes on |

`ItemInv` says what `ModeExact` says by counting, as facts that a step can be seen to keep. `OneAtATime`: the
request in the player's queue, the item being played and the report of its end are never two at once, and a report is in the
events' queue once at most (`AtMostOnce`). `RestIsRest`: in STOP, and after a lost report, there is none. `Started`: in STOP no event to
come starts the timer, because the player's `PLAY` lies before its `STOP` in the queue (`StartsFirst`). `BusyIsBusy`: in the other modes
there is one. `Numbers` turns them into the count. An interface that follows an index that
points nowhere stops there with the mode it has stored, STOP, so that `ModeExact` needs no exception.

`FrameInv` says of the server's bytes on the way that they are framed as the counters say: first the text they know of, then
the rest of the music, then a length byte (`StartsAs`); after each length byte its text, whole, and `Metaint` bytes of music (`AllFollow`);
and that the server has sent whole chunks (`EndsWhole`). `InStep` alone is not inductive: it looks at the first chunk, and
what a call leaves begins with the second. Three lemmas say what a call takes and leaves framed: the text and part of the music (`ReadMusic`), the
rest of the music and the length byte (`ReadLength`), and both, one after the other (`ReadOver`); `GivesRest` says what `Skip` gives back.
A call that ends inside a text does not return (`Halt`), so one that returns has taken all of it (`SkipTextKeeps`, `SkipInsideKeeps`); a session that begins with
the text of another, or a length byte that does not come, ends the claim (`astray`).

The codec's assumptions are needed: with the window `"rate"` and without the check TLC finds `NoStall` violated, with `"close"`
`OneHolder`; with the check, whatever the windows, both hold, because the machine halts at the step that would break them. Up to
that step the shipped build is the block queue of `Playout`.

The invariant of `Dm9000` says that an acknowledgement and a place of the chip are the same thing (`Counted`),
that the oldest packet is at exactly one of three stages, on the wire, in the latch or in the handler's
copy, and that NSR shows its end exactly while latch or copy reports it - or that its end is lost and no packet is started any more
(`Stage`) -, which packet is in which place (`Numbered`), who holds the lock and who is masked (`Locked`,
`Masked`), and that the level of an edge-triggered line is not forgotten (`Latched`). `Latched` is the
point of the loop in the handler: an event between the read of the latch and the handler's return raises the line
while it is served. `Seen` puts a frame that arrives during `erx`'s last three accesses into the latch, which those accesses do not clear
for received frames; and a mailbox that is full has a message that will do.

`ShortBursts` (`Burst < ready_wm`) is the one assumption on timing of `NetBuffer`: while the worker is ready to run between its test of
`data_length` and the step that acts on it, the player reads less than the ready
mark, 294912 bytes. At 320 kbit/s that is over seven seconds of music during which a
ready worker would have to be kept from running by more urgent threads; nothing in the code rules it
out, so it is an assumption and not a lemma.

Only model-checked is liveness (`ReaderReleased`, `SuspendedStop`, `BufferComes`,
`StopWorks`, `ReadReturns`, `Served`); of the first and the third the safety half is proved, that whoever waits
is owed a step (`ReaderServed` with `NoMutualWait`, `WaiterPlayed`). Liveness under fairness and `ENABLED` are out of the prover's reach. Every
invariant and every refinement a passing run checks has a theorem. Induction over data
(what `SelectSeq` counts or a fold returns for every input) is out of reach too; where a property counts,
as in `ModeExact` and `OnlyMusic`, it is stated with the cardinality of a set of places, of which the library has theorems.

## 5. Findings with a run

| run | the code says | the code does |
|---|---|---|
| `CodecNoMutexInInterrupt` | "must not be used in interrupt" (rt-thread/src/ipc.c:608) | an underrun takes the bus's mutex in the interrupt (codec.c:625) |
| `SkipsMeta` | "skip meta data" (http.c:590, 625) | where a call ends inside a text, as a full block regularly does, the size for `memmove` (591, 626-628) is negative and taken as unsigned, nearly 4 GB: it skips nothing and runs out of the memory before the call returns |
| `ValidSocket` | "http connect returns valid socket.  Save in handle list." (http.c:555) | keeps connect's result, 0: a station opened while the worker still holds the one before talks to that one's server, and closes its socket; its own is never closed |

## 6. Seen while modelling, without a run

- netbuffer.c:267-270: "no free space yet, suspend itself" is done on a `data_length` read ten lines before, which the
  player may have lowered since: the worker suspends with room, and is resumed at the player's next read below the mark.
- player_ui.c:913: the result of `rtgui_thread_send` is ignored; with four events in the queue (837) the report of an
  item's end is lost, `player_mode` is never STOP again, and every start only sets `next_step` (`lost` in the model).
- player_ui.c:744: "stop play" for the cable; when the item has just ended `is_playing` is already FALSE and `next_step`
  NEXT, so that the report of the end, handled in the modal view, starts the next file while the host computer owns the card.
- douban_radio.c:236-279: the strings are freed before, and `size` is reset after, three exits for failure; the next load
  or `douban_radio_close` frees them again, and the kernel's assertion (rt-thread/src/mem.c:499) stops the machine.
- dm9000a.c:578-579: under "clear packet received latch status" the write clears `ISR_PTS`, the *transmit* status. If a
  transmission ends while that very write is on its way (`pending` is `"new"`), its end is cleared unseen: the handler finds
  the line down and returns, `packet_cnt` stays 1, the next packet is queued behind one that has ended, and `etx` waits
  for ever. Otherwise the handler has always counted the end before `erx` goes on (`EndsLostTheorem`).
- dm9000a.c:180: the handler reads NSR for the link and throws the value away, the code that used it being commented out. The reading
  clears the end bits, so that 218-220 finds none: a transmission that ends together with, or just before or after, a change of the link is
  never counted, with the same consequence. Both are `lost` in the model.
- dm9000a.c:536-540: without a buffer a frame is discarded by subtracting 2 from an unsigned length until it is 0; an
  odd length never is. 492-498, 560-567: a chip that was stopped or reset is not set up again.
- http.c:229, 258, 274 and radio_list_update.c:172: returns that leave a socket open, each of which may also take place 0
  from the next station (`LostOnlyThere`, `OwnStream`). http.c:649-657 and radio_list_update.c: a station or an update that had another
  place than 0 closes 0, whosever it is, and loses its own.
- radio_list_update.c:180-195: a connection lost midway looks like the end of the list and is reported as success (`list`
  is `begun` with the state `succeed`); 372-379: a thread that cannot be made leaves its queue, and no update can be
  started again; the interface reads `radio.pls` while the thread, which is above it, may rewrite it.
- remote.c:475: `memset` clears the size of a pointer, 4 bytes, so that the rest of an old code stays; 498-513: the scan
  is not bounded by `rx_count` (the comment at 510); 468, 557: error returns leave the mode at study.
- netbuffer.c:188-192: a stop resumes a suspended worker, which copies its block without
  room; `NoOverrun` is therefore stated for jobs not being stopped. The bytes are dropped by the reset.
- netbuffer.c:270: `SUSPEND` is stored over a `STOPPING` set since the worker's last test; the stop is forgotten
  and the worker waits until the next one.
- netbuffer.c:339: a job stopped before the worker has received it is dropped with its session
  while `stat` stays `STOPPING`; every later start is refused, and the session is never closed (`Dropped`, `Stuck`).
- netbuffer.c:217: `STOPPED` is published before the reader's wake-up and the reset; a job accepted in between
  can let the reader see bytes of the old one.
- codec.c:411-426, window `"close"`: MS is tested, then the DMA stopped; if the last block ends in
  between, the do-while gives back five stale nodes (TLC: `OneHolder` violated).
- codec.c:326-368, window `"rate"`: `r06` is read, changed and stored around the interrupt's own change;
  MS comes back after the last block, the next write does not start the clock and the player waits
  for ever (TLC: `BufferComes` and `NoStall` violated).
- codec.c:519: the register is written inside a section with interrupts off; if another thread holds
  the bus the lock's blocking wait returns without it (`queued` in the model). 614-625: nor does the interrupt wait for the bus, which the
  model has it do where the check does not halt.
- player_bg.c:57-101: a name without a branch is received and nothing reported; the interface stays in FILE (part of `lost`).
- play_list.c:17: an empty directory replaces the list and leaves the index; the next press that follows it uses an item that
  does not exist (`fault` in the model; `CurrentInList` says that it can happen only while there is no list).
- player_ui.c:707-708: a station's end turns the wish SEEK into STOP, so a choice made while a station
  plays is not started.
- player_ui.c:447-479, play_list.c:150: the interface reads tags through `mp3_fd_buffer` while the decoder may still
  use it as its input (`AppendFiles` while `player = "play"`).
- The stop request is safe only because the player is more urgent than the interface: if the interface could run before a
  request is received, a stop between request and start would be overwritten by `is_playing = TRUE` (the mutant `FaultPlayerFirst`).
- http.c:567: `first_meta_size` is static: a session closed before its text is skipped spoils the next;
  http.c:604: the length byte's `recv` is unchecked, and without a byte an uninitialized number of bytes is dropped (both are `astray` in the model).
- http.c:336, 368: a session that could not be opened is `RT_NULL`; douban_radio.c:156-184 reads and closes it all the same, with
  what lies at address 0 for a socket.
- douban_radio.c:144, 180: a call that ends a list with no byte given back ends the job although the next list was
  loaded; 156: a link that fails skips the song after it too.

## 7. Not modelled, and what is left

Modelled, in this order of importance: the net buffer with its abstract queue and proofs; the samples' path with its
abstract play-out and proofs; player control; station stream; douban radio; sockets; the radio list update; the Ethernet driver.

Not modelled:

- *Remote control* (interrupt 348-429, encoder 267-345, study 442-576). What interrupt and threads share is `rx_count` and the
  captured times; what a half-read code is worth depends on the times themselves and on the stale contents of the
  buffer, so that a model would have to carry 16-bit counters whose wrap is part of the gap test. What was seen in the code is in section 6.
- *A composition* of `NetBuffer`'s player with `PlayerControl`'s, from the button to the end of the session: the product of the two
  has far more states than a run can visit, and the interface between them is one flag, `is_playing`, whose meaning
  each module states on its side.
- Parsing (setup, lists, JSON), drawing, sampling of inputs, the board's register sequences and everything vendored.

What would be proved next: the safety half of the other liveness properties, first of `Served`.
