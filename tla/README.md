# A verification project for ReHLDS

TLA+ modules, TLC configurations and TLAPS proofs about ReHLDS, the dedicated
server of the GoldSrc engine (`src/rehlds`). Every definition is a translation of
C++ code; `PROJECT.json` ("map") names the lines each one stands for. The build
modelled is the ordinary one of `src/rehlds` with `REHLDS_FIXES` and `HLTV_FIXES`.

## 1. The system

ReHLDS is one process with one thread that matters: `Host_Frame` reads all waiting
datagrams, runs the commands and moves in them, lets the game library think, and sends
each client one datagram. Concurrency is therefore not between threads but

* between the server and its peers, over UDP, which loses, repeats, delays and reorders;
* between callbacks: the game library and the hook chains call back into the engine in
  the middle of what it does (a kick inside `pfnClientPutInServer`);
* between stages of a client's life and stages of the server's (a command of the last
  level arriving on this one).

Nothing is persisted that a restart reads back, but for bans (a command file) and the HPAK
pack of customizations.

### Inventory

For each component: the state it keeps, its operations, what it touches, what makes it
hard, what makes it correct.

| Component | State | Operations | Interacts with |
|---|---|---|---|
| Network channel (`net_chan.cpp`, `common.cpp` buffers) | `netchan_t`: sequence numbers, two reliable bits, one block in flight, message buffer, waiting list and fragments per stream, fragments received | `Netchan_Setup/Clear/CreateFragments*/CreateFile*/FragSend/Transmit/Process/Validate/Copy*` | peer's channel over UDP; `sv_main` queues data and clears it |
| Client slots and signon (`sv_main.cpp`, `sv_user.cpp`, `host.cpp`) | `client_t`: active, spawned, connected, fully_connected, flags of the signon, edict, address; `g_psv.state`, `spawncount` | connect, new, sendres, spawn, sendents, drop, timeout, kick, bot, changelevel, map | game library (callbacks), Steam, channel |
| Datagram transport (`net_ws.cpp`; `HLTV/.../NetSocket.cpp`) | split-packet number and buffer, loopback rings, lag lists, queue of the network thread | `NET_SendLong`, `NetSocket::GetLong`, `NET_SendPacket`, `NET_GetPacket`, `NET_LagPacket`, `NET_QueuePacket` | every sender; socket |
| Connectionless packets (`sv_main.cpp`, `filter.h`, `ipratelimit.cpp`) | bans of addresses and users with expiry and their files, counts of queries per address, failed attempts at rcon; a challenge is a digest of the address and keeps no state | `addip`, `banid` and their inverses, `SV_FilterPacket`, `SV_FilterUser`, `CheckIP`, `SV_Rcon_Validate` | slots, Steam, command buffer (a ban for rcon) |
| HLTV proxy (`src/rehlds/HLTV`) | a channel of its own, world frames, clients of its own | connect, relay, director commands | server as a client of it |
| Entity updates (`delta.cpp`, `sv_main.cpp`) | ring of 64 frames per client, baselines, delta descriptions | build packet entities, write deltas, parse `delta_sequence` | channel, edicts |
| Move commands (`sv_user.cpp`, `pmove.cpp`) | last command, ignore time, `net_drop` | `SV_ParseMove`, `SV_RunCmd` | channel, game library |
| Edicts and strings (`pr_edict.cpp`) | edict array, free times, serial numbers | `ED_Alloc`, `ED_Free` | game library |
| World and physics (`world.cpp`, `sv_phys.cpp`) | area tree, moves | link, trace, push | edicts |
| Command buffer and cvars (`cmd.cpp`, `cvar.cpp`) | text buffer, aliases, wait flag, lists | `Cbuf_*`, `Cmd_*`, `Cvar_*` | everything that issues a command: console, rcon, remote access, the game, files |
| Memory (`zone.cpp`) | zone list, hunk marks, cache LRU | `Z_*`, `Hunk_*`, `Cache_*` | models, sounds |
| Hook chains (`hookchains_impl.cpp`) | sorted array of hooks and a cursor per call | register, unregister, call next | plug-ins |
| Resources, HPAK, consistency (`hashpak.cpp`, `sv_main.cpp`, `sv_upld.cpp`) | lists of resources wanted, store on disk, pending queue | upload, download, `HPAK_AddLump` | channel's file stream |
| The rest (model loading, file system, Steam, logging, launcher, tests, vendored code) | | | I/O and data |

What makes each correct, in a sentence:

* **Channel** - reliable data arrives once, in order, complete, whatever the network does
  and however messages, fragments and files are interleaved; what is queued arrives;
  a peer that behaves is never dropped.
* **Slots** - what the game library believes of a slot and what the server holds agree
  whatever order commands come in; no client is left waiting for an answer; a slot is
  clean for its next player; addresses identify clients.
* **Transport** - a datagram handed up is one that was sent, whole.
* **Connectionless** - a ban lasts as long as it says, restarts included; a limiter
  neither forgets nor punishes the wrong one.
* **Frames** - what a client puts together from deltas is what the server sent.
* **Moves** - a lost command is made up for once and never twice, and the player's clock
  keeps to the server's.
* **Edicts** - an edict is not reused within half a second; serial numbers tell its lives
  apart.
* **Command buffer** - text runs once and in order, with `wait`, inserts and aliases nested.
* **Memory** - regions do not overlap, a cache pointer is cleared when its block goes,
  and nothing is refused while there is room.
* **Hook chains** - each hook is called once per call, but for what the hooks themselves
  change.
* **HPAK** - an upload stays until it is removed; a crash never leaves both files broken.

The hard behaviours, each at its line, are the `hazards` of `PROJECT.json`; a hazard with
no property has a note that says what is missing.

## 2. The modules

| Module | What it is |
|---|---|
| `Netchan` | two ends running `net_chan.cpp` over a hostile network |
| `ReliableStream` | what a channel promises, and nothing of how |
| `MCNetchan`, `MCNetchanLive` | small instances; the second adds fairness and a count of losses |
| `NetchanProofs` | the types; the alternating bit (`ChannelInv`) and ends out of phase (`PhaseInv`); the way of the data (`StreamInv`); the refinement |
| `Session` | the client slots, signon, bots, change of level |
| `MCSession` | its instance |
| `SplitPacket` | datagrams beyond 1400 bytes, from server to HLTV proxy |
| `MCSplitPacket` | its instance |
| `Frames`, `MCFrames` | the ring of frames, deltas of the entity list, the client's frames, pings |
| `ProxyProofs` | what the HLTV proxy receives, of `Frames` and of `SplitPacket` (it extends both): the base of an update is what both sides hold; a datagram put together is one that was sent |
| `Moves`, `MCMoves` | move commands: losses made up for, the time base, the limits |
| `MovesProofs` | commands are run once, in order, and counted; the clocks meet |
| `Zone`, `Cache`, `Memory`, `MCMemory` | the zone; the hunk and the cache; both as `Memory_Init` sets them up; the instance |
| `MemoryProofs` | the zone's heap is consistent, its search complete; blocks, pointers and list of the cache agree, and the least recently used goes |
| `Bans`, `QueryLimit`, `Rcon` | filters on addresses and users; the limit on queries; failed attempts at rcon |
| `Connectionless`, `MCConnectionless` | the three of them behind `SV_ReadPackets`; the instance |
| `ClientsProofs` | who gets in and what becomes of him, of `Connectionless` and of `Session` (it extends both): bans as asked for, limits that hold, failures that are remembered; the slots and the game agree |
| `HookChain`, `MCHookChain` | a chain of hooks and a call through it |
| `HookChainProofs` | the array is the registry; a call runs the chain |
| `CommandBuffer`, `MCCommandBuffer` | the command buffer, with `Cbuf_Execute` nested in itself |
| `CommandBufferProofs` | texts are run in order and lines whole |
| `Hpak`, `MCHpak` | the pack of customizations, its queue, crashes |
| `HpakProofs` | the pack stays whole and keeps what was promised |

`Memory` EXTENDS its two parts, `Connectionless` takes its three as INSTANCEs. The parts of
each share no variable, so the MC modules explore each part with the others at rest; the
product of their states would show nothing more.

### Netchan

The variables are the fields of `netchan_t`, one value per end, under the names of the
code; `outq[e]` joins `message`, `waitlist`, `fragbufs` and `fragbufcount`. The bytes an
end queues are numbered units 1, 2, 3, ... in the order of the calls, so that "in order,
once, complete" can be said; sizes are counted in units. `loaded`, `acked`, `accepted`,
`delivered`, `files*`, `clears` and `aborted` are history.

| Action | Code |
|---|---|
| `Write` | `SZ_Write` on `chan->message`, with the overflow of `SZ_GetSpace` |
| `CreateFragments` | `Netchan_CreateFragments`: `chan->message` is spilled first, then the message; compression may succeed or not |
| `CreateFileFragments` | both `Netchan_CreateFileFragments` (by name, cut when its turn comes) and `...FromBuffer` |
| `Transmit` | `Netchan_Transmit`: either `Hold` (a block is in flight) or `Load` (spill, `Netchan_FragSend`, toggle, fill the block); the bit is sent again when `ResendDue` |
| `ReadPacket` | `Netchan_Validate`, `Netchan_Process` and the `Netchan_Copy*Fragments` that its callers make next; a message that does not decompress drops the client |
| `Clear` | `Netchan_Clear`, with the reliable bit taken back |

`net` is a set of packets never taken out when read, so duplication and reordering are
free; loss is a packet nobody reads. `AddBufferToList` keeps the code's peculiarity of
replacing the node it should precede: `ReassemblyClean` shows why it never bites.

`ReliableStream` has what one end was given to send and what the other got, and the
variable `open`: the promise ends where an end is cleared (`open <- Uncleared`, the step
`BreakOff`). `ReassemblyClean` and `FilesInOrder` are promises of the same kind; what
holds beyond a clear are `ExactlyOnce` and `NothingMissing`, for an end that never cut a
block, and `NeverBackwards` and `RepeatsBounded` for one that did.

Left out: the unreliable part of a packet, rates (`Netchan_CanPacket`), munging, the size
limit that can push a resent block into a later packet, and writing files. Also left out:
the ways in which `Netchan_CopyNormalFragments` throws a message away without dropping the
client (a message too long for the buffer or whose decompression is refused,
`net_chan.cpp:1560-1594`), which the two ends modelled give no cause for; and that a file
queued by name is opened and read anew for each fragment (424-440): its contents do not
change while it is sent.

### Session

Handlers that work on one `client_t` are operators from the slot's record to its new
record, nested as the code's calls are (`KickedInside` is `SV_DropClient` inside
`pfnClientPutInServer` inside `SV_Spawn_f`). Three fields are history: `game` (what the
library has been told), `level` (where its player was put in) and `offered` (the level
whose serverinfo was last queued). Any client may send any command at any time, with any
level number: the server does not enforce an order, so neither does the model.

Four modelling decisions a reader should know:

* the game library is external. It may refuse, kick or add players at will, but it is
  assumed to allocate private data in `pfnClientPutInServer`, as every game library does;
* a player kicked inside `pfnClientPutInServer` was `spawned = FALSE` at that moment, so
  the engine does not report the disconnection: value `"kicked"`, outside `NoGhost`;
* `SV_FindEmptySlot` and the search for a reconnecting client pick the lowest index; the
  latter does not look whether the slot is occupied, and the model does neither;
* `sv_timeout` is taken to be over the ten seconds of the takeover rule.

(`SessionInit`, `SessionNext` and the like are so named because `ClientsProofs` extends this
module and `Connectionless` together.)

Left out: user info, resources, customizations, consistency data, rates, and the checks of
a connect packet made before any state changes. `MaxClients` is at least two (a one-slot
server sends serverinfo itself).

### SplitPacket

`SendLong` is `NET_SendLong`; `Receive` is `NetSocket::GetLong`, written in the order of
its early returns: restart, duplicate, mark, bounds, copy, count, all present, size. The
bytes of a part are the datagram they were cut from and their place; `GetLong` cannot see
the first. There is one sender: `GetLong` distinguishes senders by sequence number only,
so two servers sharing a proxy's socket are outside the model. So are two sockets: the
marks, `netSplitFlags`, are a static of the function, shared by every `NetSocket` of the
process, and the model has one. So is the wrap of the
sequence number at 2^31 to 1. (`SplitInit`, `SplitNext` and the like are so named because
`ProxyProofs` extends this module and `Frames` together.)

The server itself discards split packets (`NET_QueuePacket`), so the engine's
`NET_GetLong`, line for line the same, is unreachable and not modelled apart.

### Frames

`SendClientDatagram` writes the frame of the ring, takes the delta against the frame
`delta_sequence` names and may overflow; `ExecuteClientMessage` measures the ping and
takes `clc_delta`; `ProcessMessage` and `AddFrame` are the proxy's side, with
`SendServerCommands` asking for the next base. The merge of two sorted lists in
`SV_CreatePacketEntities` is a function from entities to "none", "remove", "same" or a
state; a state's fields are one value. Time is counted in frames. As in the code

* `delta_sequence` is a byte, looked up modulo the ring without a test that the frame is
  still that one: history `overrun` says that it was not. It is never reset: what the
  client puts together then is wrong, and may be the base of what follows;
* an update whose base the proxy has not got is added all the same, without entities;
* completed fragments in a packet are executed after its plain part, which resets
  `delta_sequence` and measures the ping again.

Left out: visibility, field encoding (`delta.cpp`), the choice among baselines, and the
return of `World::AddFrame` for a frame that does not compress into its buffer.

### Moves

`ParseMove` is `SV_ParseMove` with `SV_EstablishTimeBase`, the rate limiter and, command by
command, `SV_RunCmd` behind `CheckLimits`; `Frame` and `UpdateAverageRates` are the limiters'
periods. `net_drop` is one variable for all players, as in the code. The players are not in
the repository: their packets are what `SV_ParseMove` takes them to be, at least one new
command each. Whether `CheckLimits` finds a command abusive, or the player is ignored, is a
choice, and so is at which command, if any, the player is dropped: `CheckLimits` drops him
who abuses the time too often (`rehlds_security.cpp:329-345`), and the game may kick him
while a command runs. He is not `active` then, so that `CheckLimits` returns at once (218),
and the loops of `SV_ParseMove` go on: the rest of the packet is run without being counted
or limited. `TicksBounded` says how much that can be. `svtimebase` is relative to the packet's time; commands are at most 50 ms.
`lastcmd` becomes the *oldest* new command of a packet (`sv_user.cpp:1744`), though the
comments at 1568 and 1584 speak of the last one: the model does what the code does.

### Memory

`Z_TagMalloc` is one action for each turn of its search, and so are the loops of the cache:
`Cache_FreeLow` and `Cache_FreeHigh` (a turn moves or frees one block in the way of the
hunk), `Cache_Alloc` (`Evict` until `Place`, or `NoPlace`) and `Cache_Force_Flush` (`Flush`).
`calling` is the call whose loop is going on; nothing else is called before it returns, so
that the turns are atomic with each other as the code is, and the states between them are
what the invariants are about. The other calls are one action each. A move
(`CacheMoved`) allocates the new place, copies, and frees the old place through the owner's
pointer. The high end of the hunk serves one temporary buffer, the only use the engine
makes of it. A failure is `failed`: `Sys_Error` ends the process. `recent` and `moved` are
history, who used its data after whom and whose data was moved since: a moved block counts
as just used (`Cache_Move` allocates), which is why `LeastRecentlyUsedGoes` excepts it.

### Bans, QueryLimit, Rcon

An address is a sequence of bytes and a mask the number of bytes kept. What has expired
leaves an array only when a search comes across it (`Searched`, `UsersSearched`).
`Keeping` is what is left of an array when entries are taken out of it. `askedIP` and
`askedUser` say what the operators asked for, however the arrays came to look (`Asked`).
`Restart` executes what `writeip` and `writeid` wrote. Minutes are entered from zero up.
`OnlyTheSparedPlay` is what the code grants: `addip` drops the players a *new* filter
catches, and not those still connecting; a filter that is in the array, if only because
nobody took it out since it expired, is renewed without looking at the players.

`QueryLimit`: the history of queries (`asked`, `passed`, `counted`) is sets of them, a query
being its address, its time and its number in that second. How far the walk that trims the
tree gets is open, and time does not go back;
`FLUSH_TIMEOUT >= Window` is an assumption, true of the defaults. `Rcon`: the cvars are
within the limits `SV_AddFailedRcon` forces on them; whether an address is in the list of
those who may use rcon is a choice. `known` and `Forgettable` say when the code may have
forgotten a failure for want of room.

Simplified: `SV_FilterUser` moves one entry more than are in use when it takes one out
(`sv_main.cpp:1796`), and reads past the end of a full array; the entry is beyond
`numuserfilters` and never looked at, so the arrays here have no such place. The branches of
`SV_Rcon_Validate` for too few arguments and for an unset password, which come first, change
nothing: such a packet is no attempt here. With `max_queries_window` set beyond
`FLUSH_TIMEOUT` the tree forgets queries within a window, and `LimitsHold` is not claimed.

### HookChain

`addHook` is the loop of swaps of the code, `removeHook` its `memmove`; `callNext` pushes the
hook at the place the running call points to. `Swaps` is what the loop has made of the
array when it comes to each place. One call of a chain at a time is followed
(a chain that is called again from one of its hooks is not), and a hook goes on at most once.

### CommandBuffer

The text is a sequence of words and ends of line. The calls under way are a stack, since
commands call `Cbuf_Execute` again (`pfnServerExecute`, and `exec` of a file that does not
fit). Texts end their lines, but for a remote command whose end of line finds no room
(`torn`). A `wait` run by rcon is not run from the buffer, and stops the next `Cbuf_Execute`
after its first line (`stray`). No alias runs itself: it would loop in the code as well.

### Hpak

Steps are what lies between two calls of the file system that change a file: create,
write, unlink, rename. A crash may come between any two and takes the memory with it. Data
is not mentioned: `HPAK_AddLump` checks it against the MD5 that names it. Files can be
opened and made: where one cannot, the code drops the lump it was to write without a word
(`hashpak.cpp:289-295`, 773-778), which is not modelled.

## 3. What the runs check

All runs finish within five minutes on two workers. `session`, `hook_chain`,
`command_buffer` and `hpak` check deadlock; the others stop when their bounds are used up.

| Run | Question | Properties | States |
|---|---|---|---|
| `netchan` | Does a channel implement a reliable stream, and what is left of it when an end is cleared? | `TypeOK`, `ExactlyOnce`, `NothingMissing`, `ReassemblyClean`, `FilesInOrder`, `NeverBackwards`, `RepeatsBounded`, refinement `IsReliableStream` | 0.67 M |
| `netchan_live` | Does everything arrive? Do the ends come back in phase after a clear? | `EverythingArrives`, `PhaseHeals` | 0.35 M |
| `netchan_received` | Is a released block a received one, with clears? (expected violation) | `ReleasedWasReceived` | |
| `session` | Do library, slots and channels agree? | `TypeOK`, `NoGhost`, `PutOnce`, `PlayersMatch`, `NewAnswered`, `SlotClean`, `OneSlot` | 0.29 M |
| `split_packet` | Is what is handed up one datagram? | `SplitTypeOK`, `Whole`, `NothingWithheld`, `NoSplitError` | 21 k |
| `frames` | Does the client put together what was sent? | `FramesInv`, `PingOfAcknowledged` | 1.5 M |
| `moves` | Is each command run once, each loss made up for once, counted and timed? | `MovesInv`, `EveryLossMadeUp`, `OnceInOrder`, `CountCoversRuns` | 0.63 M |
| `memory` | Are heap, hunk and cache consistent, and is nothing refused while there is room? | `MemoryInv`, `HeapConsistent`, `GivesUpOnlyWhenFull`, `LeastRecentlyUsedGoes` | 1.1 M |
| `connectionless` | Is everyone banned, limited and refused as asked and deserved? | `FiltersAsAsked`, `OnlyTheSparedPlay`, `LimitsHold`, `RefusedAsDeserved` | 0.35 M |
| `hook_chain` | Does a call run the chain, whatever hooks do to it? | `ChainInv` | 0.1 M |
| `command_buffer` | Do the commands of a text run in order, whole, and all? | `BufferInv`, `EverythingRuns` | 0.89 M |
| `hpak` | Is an upload kept, through crashes? | `PacksInv`, `NothingLost` | 0.39 M |

The properties named `...Inv` are conjunctions of named parts: the type invariant of the
module and what it says of its state (`FramesInv`: `EntitiesMatch`, `NeverTooOld`;
`MovesInv`: `TimeBaseMeetsNow`, `TicksBounded`; `MemoryInv`: `CacheInRoom`, `PointersAgree`;
`ChainInv`: `ArrayIsTheRegistry`, `CallRunsTheChain`; `BufferInv`: `TextsInOrder`,
`WholeLines`; `PacksInv`: `OneFileWhole`). `Connectionless` conjoins those of its parts.

Each property of a passing run has a mutant: a plausible error in one mapped definition
under which the same run finds it violated; the conjunctions have several, one for each part that says
something of its own. The mutated forms stand before the definition
they change, marked `(mutant)` or by "As ..., but".

### Bounds

* `MaxUnits`, `MaxSeq`: units an end queues, packets it sends. Four units at two to a
  payload make regular blocks, messages beyond `MAX_MSGLEN` that spill, and two fragmented
  messages in sequence, which is what it takes to mix fragments; four packets an end are
  enough to load a block, lose it, resend it, lose the acknowledgement and load the next.
  `MCNetchan` explores three scenarios: messages without files and clears
  (`MessagesOnly`), the two files alone (`FilesOnly`), and a message of two units with a
  clear of either end and, once its sender was cleared, a second message (`OneClear`); in
  the last two the client, which only acknowledges, sends one packet fewer. Four packets
  are what a repeat takes: the block that is cut, the new one under the stale bit, a packet
  without a block whose acknowledgement asks for it again, and the copy. `netchan_live` has
  one unit beside a file, or one unit, a clear and one more unit, the last two while the
  end has sent fewer than `LastWrite = 3` packets, so that the sixteen of `MaxSeq` are
  enough to heal.
* `MaxLead`: how far an end may run ahead of its peer; one lets each end send twice in a
  row. `Window`: an old packet is forgotten when so many newer ones exist; two keeps a
  duplicate of the one before the last, all that is needed to confuse one bit.
* `MaxClears = 1`: one clear, which puts the ends out of phase; a second would put
  them back. `BlockSize 1 < MAX_RELIABLE_PAYLOAD 2 < MAX_MSGLEN 3 < MessageSize 4` keeps
  the order of the code's 1024 < 1200 < 4000 and more.
* `session`: two slots, two hosts with two ports each, two levels: a slot with and one
  without an edict after `SV_SpawnServer`, a bot and a player, a takeover by a second port,
  a full server, a change with a stale command. `MaxFromIP = 1` makes that rejection occur.
* `split_packet`: the real sizes (1391, 1400, 4010, five parts), lengths 1401 (two parts,
  the least), 2783 (three, the last of one byte) and 4010 (the buffer), three datagrams.
* `frames`: a ring of four frames, a byte of eight values, and a client that keeps no more
  frames than an update may still be taken from (`BufferLength = 2`). Six updates and three
  packets reach a delta over one and over two lost updates, the update at the ring's and
  the client's limit, and the first one beyond. The worlds come in one of three orders
  (`MCFrames`), in which an entity appears in its baseline or not, goes, changes or stays,
  from one to the next and over one or two. The byte does not wrap within six updates; it
  does in `FramesHold`, which has any.
* `moves`: four commands of one player and one of another, so that `net_drop` passes from
  one channel to the other; durations 1, 2, 4, 8 tell every set of commands by its sum;
  limits small enough to be met (two commands a frame, three or four a period, three lost).
  One or two backups, as far as there are commands for them, make packets without, with too
  few and with enough of them. All four commands run in one frame when the player is
  dropped in the second packet.
* `memory`: a zone for three blocks of the least size with a fragment left over, sizes that
  fit exactly, nearly and not; a hunk of 38 units for three owners of one or two sizes.
* `connectionless`: what operators enter is a net and two hosts of it, one with a zero for
  its last byte (which the guessed mask confuses with the net); two of three users fit; a
  minute is enough to expire and be renewed. Three addresses query, two more than the tree is
  to hold, over three windows. Two entries for failed attempts at rcon serve three addresses.
* `hook_chain`: four hooks for three places, two registered and two unregistered in a call.
* `command_buffer`: four texts from outside and a buffer of eight words, an alias with a
  `wait`, a file that fits and one that never does, a command that adds text and one that
  executes.
* `hpak`: four lumps, five uploads, two starts, a limit of three lumps on the size.

### Fairness

`LiveSpec` asks weak fairness of `LiveTransmit` and `LiveRead` for both ends: the server
reads every packet and sends to every client each frame (`SV_ReadPackets`,
`SV_SendClientMessages`), a client likewise. Nothing is asked of the application or of
`Clear`. Fairness cannot hold against a network that loses everything: at most `MaxLost`
packets are lost, counted where the code counts them (`net_drop`), and an end does not run
further ahead than the losses left allow. To keep the graph small data is queued before an
end's first packet, or after a clear; the clear, one that cuts a block, and the writes
come early (`LastWrite`).
`WF` suffices: both actions stay enabled until taken.

`CommandBuffer` asks weak fairness of `Running` and of `Frame`: a call under way is carried
on, it being ordinary code of one thread, and with none `Host_Frame` comes round again.
Nothing is asked of those who put text in.

### Where code and documents disagree

`netchan_received` fails, as expected. `Netchan_Process` releases the block on an
acknowledgement with the right bit, with the comment "it has been received"
(`net_chan.cpp:800`). After a `Netchan_Clear` that cut a block short (`net_chan.cpp:163`;
`SV_New_f` clears a live channel) the bit is taken back although the peer may have the
block; the next block goes out under the bit the peer shows already. When the packet with
it is lost or overtaken, the acknowledgement of a later packet carries that bit, which now
equals `reliable_sequence`: the block is released though the peer never read it. When it
is read, the peer's bit toggles away, the block is sent once more and is read again, for
`Netchan_Process` does not look for repeats. `netchan`, where a cleared end sends a second
message, shows how far the damage goes (never backwards, one repeat per cut block) and
`netchan_live` that it heals.

The other disagreements met while modelling are stated as properties marked "Not so in the
code" and are in no run; put in place of a run's properties, with the constants given, TLC
finds each violated. The models do what the code does.

| Property | The document | The code |
|---|---|---|
| `Moves.MaxTicksInFrame` (`Moves.cfg`) | `README.md:95`: the cvar is the "maximum amount" of commands in a frame | `rehlds_security.cpp:227` tests before counting, with `>`: one more runs; and 218 lets run all that follows the drop of a player in the middle of a packet |
| `Bans.ZeroChecksNothing` | `README.md:94`: with `sv_filterban 0` "No checks will happen" | `sv_main.cpp:3897` refuses every address no filter catches |
| `Bans.MinusOneRejectsAll` (`FilterModes = {-1}`) | `README.md:94`: with -1 all "will be rejected" | `sv_main.cpp:3885` lets through an address a filter catches |
| `HookChain.FirstRegisteredFirst` (`HookChain.cfg`) | `hookchains.h:52`: "For equal priorities first registered hook will be called first" | `hookchains_impl.cpp:52` compares displaced hooks as if they were new: two of one priority change places when one of a higher priority is registered |
| `CommandBuffer.WaitEndsTheFrame` (`CommandBuffer.cfg`) | `cmd.cpp:243`: the rest is left "for next frame" | a `wait` ends the innermost `Cbuf_Execute` only |
| `CommandBuffer.InsertedFirst` (`CommandBuffer.cfg`) | `cmd.cpp:73`: inserted text comes "before any remaining unexecuted commands" | `cmd.cpp:412` executes what is in the buffer before each line of a file that does not fit (a TODO there says so) |
| `Hpak.OwnPackIsReadable` (`MAX_FILE_ENTRIES = 2`) | `hashpak.cpp:1292`: a pack with more entries is "bogus" | `hashpak.cpp:311` tests the limit before adding one: the pack it writes is refused, and deleted at the next start |

## 4. What is proved

TLAPS, for every value of the constants that satisfies the assumptions stated beside them
(`TwoEnds`, `Sizes`, `Bounds`; `SessionAssumption`; `SizeAssumption`; `ZoneAssumption`,
`CacheAssumption`, `MemoryAssumption`; `FramesAssumption`; `MovesAssumption`; `HpakAssumption`; `HookAssumption`; `BufferAssumption`; of
`Connectionless` `FiltersAssumption`, `QueriesAssumption` and `RemoteAssumption`). The
assumptions say how the sizes and limits of the code relate, that there are finitely many
hooks and addresses, that a byte of an address has a greatest value, and that an alias, a
file or a command that adds text stands for at least one command.

**Netchan.** `TypeCorrect` first, action by action. For the channel itself `ExactlyOnce` is
not inductive: it says nothing about packets still under way. `ChannelInv` adds what they
mean. For each direction that was never cut short, the two bits are equal exactly when
the peer has every block; an acknowledgement newer than the last reliable packet tells
which of the two holds; a reliable packet still to be read carries the one block the peer
lacks. A packet read late cannot lie because acknowledgements only count against
`last_reliable_sequence`. `ChannelInvHolds` is that it is invariant; `BlocksExactlyOnce` and
`EmptyMeansReceived` follow from it.

**Out of phase.** A `Netchan_Clear` on a live channel gives up the block in `reliable_buf`
and takes its bit back, though the packet that carried it may have been read or may still
be: from then on the bits of the two ends may say the opposite of what they should, and
`ChannelInv` is void. What is left is `PhaseInv`. An acknowledgement of the last reliable
packet, or of a later one, still tells the bit the peer has now (`AcksInv`). Blocks leave in
the order they were loaded and a packet that may still be read carries none older than what
the peer has (`NumbersInv`), from which `BlocksNeverGoBack` follows. A block goes out again
only when no copy of it may still be read (`CopiesInv`). And each cut pays for one repetition
(`PhaseBound`): for one that happened, for one on its way (`Again`), or for one that may come
of the ends being out of phase. The bound is kept because whatever empties `reliable_buf` by
an acknowledgement, and whatever repeats a block, puts that direction in phase again
(`InPhase`). `OneRepeatPerCut` is the corollary.

**The stream.** What an application gets depends on every place its data can be in:
`chan->message`, the waiting lists, the fragments being sent, the block in `reliable_buf`,
the peer's `incomingbufs`, and what was handed on. `StreamInv` says of each direction that
they are, in this order, one run: for the units, what was delivered, the source under way
(of which the peer has the first fragments and the sender the last, `Between`), the
messages that wait, cut at some places (`Waiting`), and `message`; for the files the same
with names instead of units and those `FragSend` gave up on left out (`FileFlow`). A block
counts on the sender's side while the peer lacks it and on the peer's side afterwards
(`Pending`), which is where `ChannelInv` comes in: the one packet that is read takes
exactly the pending block across. There is one lemma per place data is moved from one
place to the next (`Spill`, one turn of `FragSend`, `Block` and `Rest`, storing a
fragment). `ReassembledClean`, `FilesArriveInOrder` and `ChannelIsReliableStream`, that every
step of `Netchan` is a step of `ReliableStream` or a stutter, are its corollaries.

**Session.** The properties hold slot by slot, so the inductive invariant is one predicate
of a slot's record, `SlotInv(c, level, state)`, and there is one lemma per handler: it
takes a good record to a good record. It is stronger than the properties in four places:
an occupied slot has an edict; a player in the game has private data (so `SV_SpawnServer`
reports it); active and spawned means spawned on this level (so `sendents` is safe); while
a level loads nobody counts as answered. `SessionTypes`, `NoGhostEver`, `PutInOnce`,
`ConnectedPlayersMatch`, `NewIsAnswered` and `SlotsAreClean` are its corollaries.
`AddressesApart` is an action property and is proved from the two places an address is
written.

**SplitPacket.** `Building(st, no)`: the marks that equal the current sequence number are
numbers of parts of datagram `no`, each with its bytes in place; `splitCount` is the
count of parts less the marks; the size is known once the last part is marked. Storing a
part adds one mark and takes one off the count, so the count is zero exactly when every
part is there. With the arithmetic of `CountFacts` and `PartFacts` (sizes by division, for
every part and buffer size) it gives `SplitTypes`, `DatagramsWhole` and `NoErrors`;
`RunInv`, which ties the history of parts to the marks, gives `NothingIsWithheld`.

**Zone.** `HeapConsistent` and the types are not inductive: the links have to be those of
the addresses. `WellFormed` says that every block but the last is followed, at its own end,
by the next, that the two links of neighbours agree, and that nothing lies between; with
`NoTwoFree` it is kept by joining two free blocks (`Absorb`), by freeing and by splitting,
one lemma each, and the search only moves through it. `ZoneTypes`, `HeapIsConsistent` and
`UsedMemoryStays` (no call moves, resizes or releases a block but the one it is given;
stated as `UsedStays`) are the corollaries, for every size of zone, header, alignment and
request.

The search of `Z_TagMalloc` has an invariant of its own. `SearchInv`: the free blocks from the
zone's rover to that of the search (`Passed`, round the ring in the order of addresses) are
all too small, and the base is the search's rover, tried already, or the free block before it
(`BaseBehind`), since no two free blocks follow one another. Back at `start` the search has
passed every block but that one, which was tried as the base or is in use: `NullOnlyWhenFull`
is `[]NotFoundOnlyWhenFull`, the zone's half of `GivesUpOnlyWhenFull`. `Memory` runs the zone
among its other calls (`MemoryRunsTheZone`: its specification implies `ZoneSpec`), so that
what is proved of the one holds in the other.

**Cache.** `PointersAgree` and `CacheInRoom` say what the owners and the hunk see; that they
are kept rests on the lists. `Listed`: the blocks are in order and do not overlap, and the
list by last use has the address of each once. `Owned`: a block's owner points to it, and
who has a pointer has a block. Moving is allocating and freeing in one: a new block lies in
a gap (`PlacedKeeps`, `InGaps`), the owner's pointer still names the old one when that is
freed (`FreedKeeps`), and is set after (`MovedOwned`). `ClearOK`: an end of the hunk reaches
into cached data only while the loop that clears its way goes on; a block that is moved is
clear of whatever the rest was clear of (`StaysClear`), so that the loop at one end does
not disturb the other. With what the calls keep of the hunk's marks this is `CacheInv`, of
which `MemoryIsConsistent` and `GivesUpWhenFull` are corollaries. `ByUse`, a part of it, is
the order of the list against the history: of two owners the one whose data is in front was
moved, or used its data later. What is thrown out is last in the list (`VictimIsLast`), hence
`LeastRecentGoes`. The lemmas on sequences (`Inserted`, `Removed`, `Pushed`) say which pairs
are in order in the sequence that results; they are all the cache's lists need.

**Frames.** `FramesInv` speaks of what the client holds, so it is not inductive: the server
may still name any frame that some packet on its way names. `RingInv` says which update
each slot of the ring holds; `KeptInv` that every name of a base, at the client, in a packet
or at the server, is of an update whose frame the client keeps for as long as an update
against it can arrive, which needs the arithmetic of remainders (a byte for the sequence
number, a mask for the ring: numbers less than a ring apart do not meet); `UpdatesInv` that
an update, undone against that frame, gives what was sent. `FramesHold` and
`PingsOfAcknowledged` follow.

**Moves.** `PacketsInv`: the new commands of two packets do not overlap, and those of a
packet that may still be read were not run. `RunNumbers` then says that the commands run for
a packet, from its backups, from `lastcmd` or new, are the ones after `incoming_sequence`,
one after the other. `LossesMadeUp`, `RunOnceInOrder` and `RunsAreCounted` are the
corollaries.

The clocks are about sums of durations. A sum is a fold over a set, in an order nobody knows,
so the first step is that it may be taken along any list of the elements (by least
counterexample, induction being out of reach). `TimeBaseGoesBack`: the base that
`SV_EstablishTimeBase` computes before anything is run lies back by the durations of just the
commands `SV_ParseMove` then goes through, which it takes from other places and in another
order. `BaseAfterRuns`: those run are added, so what is left is what was refused. `ClockInv`
keeps this with the types of `net_drop`, of the base and of the players.

`TicksInv`: a connected player has no more commands run in a frame than ticks; one who is not
has at most what one packet holds besides, since what is run uncounted comes after the
command he was dropped at and no further packet of his is read (`RunOfPacket`).
`TicksAreBounded` follows, and with the clocks `ClocksMeet`, which is `[]MovesInv`.

**Connectionless.** Three invariants, each of the variables of its part. `RemoteInv`: the
entries of the table in use come first and are of different addresses; an entry's times are
the last of its address's failures; and an address that failed and has no entry lost it to
addresses that all failed later, which is why a table that drops the oldest keeps whoever
fewer addresses followed (`OthersSince`): `FailingRefused`. `QueriesInv`: of the queries that
passed in the time of a window, those since the last one counted began are no more than the
count, and those before it fewer than the limit, for the one that began it closed the window
before (`WindowRight`); and a refusal has its queries (`RefusedForCause`): `QueryLimitsHold`.
`BansInv`: an array holds each filter once, with the end last asked for, and each whose time
is not over, and so does what was written to be read back; it is kept under cutting out what
expired in the middle of a search (`Keeping` says what stays and in what order):
`FiltersAreAsAsked`. With `SparedRight`, on the players that were looked at, it gives
`OnlyTheSparedEverPlay`.

**HookChain.** `addHook` is a loop of swaps: at every place what was left behind and what is
carried on are the hooks there were up to it and the new one (`Halfway`), what is carried at
the end is nothing, and of the hooks before any place only one comes to lie behind it
(`OneFromBefore`). With the `memmove` of `removeHook`, which brings one from behind to before,
`RegistryInv` follows: each hook once, no hole, in the order of priorities. `CallInv` is about
the only place a call goes on from, that of the last hook called if it has not called on: the
hooks before it that stayed and were not run are no more than were unregistered (each brought
one there), and the hooks behind it that were run, with the repetitions so far, no more than
were registered. At the null all who stayed are before it: `CallsRunTheChain`.

**Command buffer.** `WholeLines` rests on `Whole`: an end of line follows every word in the
buffer unless the buffer is torn. `TextsInOrder` speaks of what was run; `Ordered` of all the
places the words of a text can be in: those run come before those in the buffer, those before
what a `Cmd_Exec_f` under way has still to put in, and no two such calls put in the same
text. That alone is not inductive: `Cmd_Exec_f` inserts a line at the *front* of the buffer,
where one of its own lines, if it were still there, would then come after a later one. So the
invariant says where a line put in by a call under way can be. It is the first thing in the
buffer, and the call to run it is the one right above (`Settled`); the first line that is
taken out is it; and the call does not end before, since a wait is seen only by the call that
has just run it (`WaitRan`), which is where a wait by rcon has to be excepted (`stray`): it
ends a call that has not yet run what it was made for. Putting in (`Put`, `Comes`), taking out
a line (`IsLine`) and the calls that come and go (`SameRests`) have lemmas of their own, the
commands (`CommandKeeps`) are proved once for a line of the buffer and for rcon, and
`BufferIsRunInOrder` is `[]BufferInv`.

**Hpak.** `TaskInv` says for each step of a rewriting where the old pack and the new one are;
with `FilesInv` (directories descend, a whole file has entries) it gives `PacksStayWhole`
under any crash. `PromiseInv` follows what was promised through the queue, the writing and
the pack. `NothingIsLost` has a hypothesis, that all the lumps there are fit a directory.
Without it the promise is broken in the way the finding `OwnPackIsReadable` describes: the
server writes a pack larger than its own readers accept, and removes it.

### Model-checked only

* `EverythingArrives`, `PhaseHeals`, `EverythingRuns`: liveness is beyond the prover. Every
  other property of a passing run is the statement of a theorem.
* What a fold or a recursive definition computes for every input is out of reach.

## 5. Not modelled, and the plan

In the order of importance:

1. **A loop for the proxy**: its own channel as an end of `Netchan`.
2. **Signon composition**: `Session` with `Netchan` and the HLTV proxy as client
   (`HLTV/Core/src/Server.cpp`): the server clears channels (`SV_New_f`,
   `SV_ActivateServer`, `SV_DropClient`) that carry the very data the client waits for.
   Property: a client that keeps trying is put in the game. The proxy's channel
   (`HLTV/common/NetChannel.cpp`) differs from the server's in `Clear`, which forgets the
   block without taking back the bit, and in what it stalls: a heterogeneous pair.
3. **Broadcasts and user messages**: `SV_UpdateToReliableMessages` tests room in the
   broadcast buffer (`sv_main.cpp:5110`) and then writes to each client's message
   (`SV_SendFullClientUpdateForAll`, 4095), compresses the buffer in place (5163) and asks
   `host_client` in a loop over other slots (5223); the definition of a new user message
   goes by the reliable stream while a message of it may go by the unreliable datagram
   (`pr_cmds.cpp:2316`).
4. **Edicts**: reuse after half a second, serial numbers.
5. **Transport, the rest**: loopback rings, fake lag, the network thread's queue.
6. **Resources**: requests for missing files, the consistency check; the message manager;
   the limiter of string commands.

World, physics, model loading and visibility are numerical code over large data, out of
TLC's reach. The file system, Steam, logging, launcher and vendored libraries are I/O or
external; what the modelled code needs of them (a file that does not open, a ticket that is
refused, an archive that does not shrink) is a choice in the models. Challenges are a
digest of the address and keep no state. Cvars, info strings and the tables of commands
are look-ups and character manipulation.
