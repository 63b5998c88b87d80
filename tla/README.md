# TLA+ verification of the PineVoice firmware

The firmware of the PineVoice satellite runs on the two cores of a BL606P (an
E907 that owns radio and audio capture, a C906 that runs the application) on
the YoC stack. This directory models the parts that carry its own persistent
and concurrent logic, checks them with TLC and proves their safety with TLAPS.
Paths below are relative to `src/components/`.

## 1. Inventory

| component | state | operations | hard behaviour | what makes it correct |
|---|---|---|---|---|
| `kv` store (`kvset.c`, `block.c`, `kv_aos.c`) | nodes on NOR flash; per block `write_offset`, `kv_size`, `count`, `ro_count`; `bid`, `gc_bid` | `kv_init`, `kv_set`, `kv_get`, `kv_rm`, `kv_reset`, `kv_gc` | power loss inside every flash operation, garbage collection interrupted, version wrap, bad blocks | updates are atomic, nothing else changes, factory values survive, calls end |
| `kv` node layout (`block.c`) | bytes of one sector | `kvblock_set`, `kvblock_search`, `kvblock_calc` | parsing what a torn write left | a key reads as its old or its new value |
| `bootab` (`bootab.c`, `ota_ab.c`) | per slot version, rollback switch, finish mark, boot counter; images; `g_cur_slot` | `bootab_init`, `bootab_fallback`, `otaab_upgrade_slice`, `otaab_upgrade_end`, `otaab_finish` | resets between flash operations, bad images, boot limit | every reset leads to a working image; a running slot is not overwritten |
| `ipc` (`ipc.c`, `channel_mailbox.c`) with the mailbox driver | per core: one slot, four shared blocks, `seq`, `seq_bake`, two events, `tx_mutex`, `rx_mutex`, a queue per service | `ipc_message_send`, `ipc_message_ack`, receive task, service tasks, interrupt handler | two cores, fragments, full queues, a mutex held while waiting, interrupts cleared late | messages complete, in order, once; blocks not reused too early; calls end |
| `aos` ring buffer, `alg_dispatch` | `ridx`, `widx`, memory | read, write | lock-free reader and writer | a bounded queue of bytes; checked transfers are whole |
| microphone path (`voice_mind.c`, `aui_mic_imp.c`, `uservice`) | `task_running`, `task_exit`, `pcm_sem`, `evt_cnt`, two rings, the utask's queue | `aui_mic_start`, `aui_mic_stop`, PCM control, frames, wake word, `_event_hdl` | three tasks, suppressed events, a queue that fills while its reader waits | the stream is never silenced; a stop returns and leaves no task |
| `smart_audio` | resume and delay lists, per-source status, queue of five events | play, stop, mute, pause requests, player events | callbacks against the event task, dropped events | an interrupted source is resumed once (not modelled: nothing in the repository calls it) |
| `fota` | download offset, in `kv` | download, restart, finish | resume after reset | no byte written twice or skipped |
| others | | | | see PROJECT.json `components` for every part and why it is left out |

How they interact: `kv` and `bootab` call `partition_*`, which checks bounds
and calls the flash driver; `fota` writes slices through `bootab` and keeps its
progress in `kv`; the microphone path and the application use `kv` for settings.
A frame of audio goes from the E907 through `ipc` (service 0xEE) to
`_mic_input_event`, through the ring of `alg_dispatch` to the plugin task, through
the ring of `aui_mic` and an event in the utask's queue to the application. Calls
of `kv` are serialised by `kv_lock`; `bootab` runs once in the boot loader and
once in the application. The satellite application itself
(`wyoming_c_satellite`) is a submodule and not in the repository, so how
`otaab_finish` is called is a parameter of the model.

## 2. Modules

| module | models | built on |
|---|---|---|
| `KVAbstract` | what the store promises: a dictionary with atomic updates, power loss and factory values | |
| `KVStore` | the store, one flash operation per step | refines `KVAbstract` |
| `KVInv` | its inductive invariants `StoreInv` and `ValuesInv` | `KVStore` |
| `MCKVStore` | instances of it | `KVInv` |
| `KVStore_proofs` | `StoreInv` is inductive, and its consequences, for every factory image | `KVInv` |
| `KVRef_proofs` | the factory image is kept, the store implements `KVAbstract` | `KVStore_proofs` |
| `KVNode` | the bytes of nodes in one block, one programmed byte as the unit of power loss | |
| `KVNodeInv` | its inductive invariant `NodeInv`, `FindsWhole` and the conditions `Plain` and `Searched` | `KVNode` |
| `MCKVNode` | key and value lengths | `KVNodeInv` |
| `KVNode_proofs` | the search finds the nodes programmed whole and no others | `KVNodeInv` |
| `BootAB` | boot flags, boot loader, upgrade | |
| `BootAB_proofs` | theorems about it | `BootAB` |
| `IPC` | the link between the cores: callers, service tasks, receive task and interrupt handler of each | |
| `IPCInv` | its inductive invariants `LinkInv` and `PipeInv` | `IPC` |
| `MCIPC` | who calls which service with how much | `IPCInv` |
| `IPC_proofs` | the slots and blocks of the link: `LinkInv` | `IPCInv` |
| `IPCOrder_proofs` | messages whole and in order: `PipeInv`, the chain of fragments from sender to service | `IPC_proofs` |
| `ByteFifo` | what a ring promises to one writer and one reader | |
| `Ringbuf` | `ringbuffer_write` against `ringbuffer_read`, one access of shared fields per step | refines `ByteFifo` |
| `Ringbuf_proofs` | theorems about it | `Ringbuf` |
| `Mic` | the microphone path; its rings are counters, as `Ringbuf` justifies | |
| `Mic_proofs` | theorems about it | `Mic` |

Definitions are named after the functions they model; PROJECT.json `map` gives
the lines. Operators with a suffix (`kvnode_rm_NoCount`, `SetValid_Above`, ...)
are plausible bugs: putting one in place of its definition makes the property
that PROJECT.json names fail.

### KVStore

`flash` is the set of nodes on flash: live ones, ones whose erase word is
cleared ("dead") and partly programmed ones ("torn"). The other variables are
the RAM fields of `kvblock_t` and `kv_t` and the locals of the call in progress;
`pc` says before which flash operation the call is.

| code | actions |
|---|---|
| `kv_init` with `kvblock_init`, `kvblock_calc` | `InitBlock` per block, `InitVerify` |
| `kv_verify` | `Verify`, `VerifyEnd` |
| `kv_set` | `Set`, `StartOne` (label `start1`), `SetSkip`, `SetProgram`, `SetRm` |
| `kv_gc`, `_kvblock_deep_gc` | `GcPick`, `GcCopy`, `GcRm`, `GcBlockDone`, `GcEnd`; `GcWild` for `gc_bid = -1` |
| `kv_rm`, `kv_reset` | `Del`, `DelRm`, `Reset`, `ResetRm`, `ResetEnd` |
| power supply (external) | `PowerLoss`, with `Survives`: none, part or all of the operation under way |

The build modelled is that of the boards: `CONFIG_KV_START_OPT` set,
`CONFIG_KV_ENABLE_CACHE` not set, `CONFIG_NON_ADDRESS_FLASH`. Abstractions:

- sizes are in flash words; a node is its key, value, version, size, kind;
- what a program interrupted on blank flash leaves is read back as the node that was meant, or as none.
  `KVNode` examines this premise: `KVNode_proofs` proves it for the keys and values of
  `Plain` and torn writes where `kvblock_calc` looks for them, and run `kvnode_torn`
  refutes it for other lengths;
- a program interrupted over the remains of an earlier one, which happens behind the words that
  `kvblock_calc` searches, leaves the common bits of both: a node of any key, value and version (`Mixed`).
  `LossOverRemains` says whether power may fail there; `PowerSafe` needs that it does not (section 6);
- an interrupted block erase leaves the block as it was or full of garbage; the
  one-word program that marks a node erased is atomic;
- a program whose read-back differs leaves a node marked erased or garbage;
- a read-only node holds text (`key="v"` or a decimal number). `kv_get` parses it, but `kv_set` compares
  the raw bytes of whatever node it finds (`kvset.c:309-310`): `RoText` gives for each key the value whose
  bytes are that text, and a set to it returns success with nothing written (`SetText` in `KVAbstract`);
- `dirty_size`, printing, failing `calloc` are left out; `kv_get` is a pure read
  and appears as the refinement mapping `Value`.

The refinement `PowerSafe` maps the value of a key to its newest live node or
else its factory node. A set takes effect when its node is programmed.

### KVNode

The block is a function from offsets to bytes. Programming clears bits (NOR),
in increasing order, and power may fail after any byte. `kvblock_search`,
`kvblock_calc`, `kvnode_rm` and `kvblock_check_version` work on these bytes as
the code does. The block also holds a node of another key, so that it is never
erased; what a full block leads to is `KVStore`'s part. `expect` is a history
variable: the values a client may read now. `log` is another: the programs so far,
with their offset, the bytes that reached flash, key, value, version and erase mark; no
guard reads it. Power may also fail after the last byte and before
the read-back. Reads past the end of the block see blank flash.

### BootAB

`ver`, `rb`, `fin`, `cnt` are the fields of a slot's sector; `img` says what is in
the slot; `cur` is `g_cur_slot`, `run` the slot really running. `BootSelect`,
`RollBack`, `BootCurrent` are the boot loader (`bootab_init`,
`bootab_fallback`), `StartApp` the application's own `bootab_init`, `FinishClear`
and `FinishSwitch` are `otaab_finish`, `Download` and `DownloadEnds` the slices of an
upgrade with their read-back, `EndClear`, `EndEnable`, `EndValid` are
`otaab_upgrade_end`. The loader, the images and the resets are external. The
application runs `otaab_finish` before an upgrade and restarts after
`otaab_upgrade_end`; errors of flash operations on the flags are not modelled; a
reset while the flags are programmed leaves the finish mark, their last word,
unset. The version counts down from `MaxVer`, 2^32 - 1 in the code.
`EarlyReset` says whether a working application may be restarted by software
before `otaab_finish` is through, `Fallback` what `otaab_finish` is called with.

### IPC

| code | actions |
|---|---|
| `ipc_add_service` while the link is in use | `AddService` |
| `ipc_message_send` | `Call`, `Answered` |
| `transfer_send`, `phy_send`, `ipc_channel_send` | `Fill`, `WaitWrite`, `Put` per fragment, `tx_mutex` held throughout |
| interrupt handler of the mailbox | `IsrEnter` (read the status, set the events), `IsrExit` (clear what was read) |
| `ipc_channel_recv`, `phy_recv`, `ipc_task_process_entry` | `RecvWait`, `RecvGet`, `RecvCopy`, `RecvGive` |
| `transfer_recv`, `ipc_service_entry` | `ServerWait`, `ServerLock`, `ServerCollect`, `ServerAnswer`, `ServerProcess` |

Both cores run the same code; tasks of a core interleave in every order and never run
inside its interrupt handler. A fragment is a pair of message and number, and a
message has a number of fragments instead of a length. A message put together from
the wrong fragments would be read as garbage: the service then stops in
`"undefined"`, which `Intact` excludes. Blocks are cached memory; cleaning and
invalidating the cache around each transfer is taken to work. A message's callback answers
a synchronous request. A call needs its service on the calling core; fragments for a service that is not
there are dropped by the receive task.

`ipc_add_service` sets the read event of its own core (`ipc.c:635`) although nothing has come. The driver
does not look whether the slot is new, so the receive task takes the last header again, or the probe, and
acknowledges it: the number of the last header jumps back, a fragment may be delivered twice and the other core gets the right to
write a second time. `Late` are the services added while the link is in use (`pcm_input.c:155`, the log,
vfs and driver services); the others are there from the start. `Settled` says that none of `Late` has been added yet,
and that the callers use none of them. What the link promises is promised while `Settled` holds, and the properties say so;
`TypeOK` holds always.

Not modelled: the probe (the model starts when both are over),
finite timeouts, heartbeat and low power. `ch_mutex` protects single steps of the model.
The code has four blocks per direction (`BLOCK_SIZE`); three are enough, since at most one is
being copied, one is named by the slot and one is being filled, and that is all the proofs assume.

### Ringbuf

`wr` and `rd` are the locals of the two calls. The space is computed
twice in `ringbuffer_write` because the name is a macro, hence `WriteTest` and
`WriteClip`. The advance of an index and its wrap are two statements; the -Os build of both
boards stores the field once, which is what the model does. `sure` says that the
caller has compared the length with the space (`dispatch_ringbuffer_write`,
`rec_copy_data`) or the amount (`plugin_task_entry`) before the call. A caller that has
not can be handed a length beyond its own data by `WriteClip`; the only one in the
modelled parts, `audio_write`, has a reader of lower priority, which cannot run in between.
`IsFifo` holds for all callers.

### Mic

| code | actions |
|---|---|
| application: `aui_mic_start`, `aui_mic_stop`, `aui_mic_control` | `Command`, `PcmControl` |
| `_mic_input_event` in the ipc service task | `PcmData`, `Wakeup` |
| `uservice_call` of the two senders | `ServiceSend`, `PluginSend`; `ServiceGiveUp`, `PluginGiveUp` |
| `plugin_task_entry`, `mic_event_hdl` | `PluginInit`, `PluginSem`, `PluginFrame`, `PluginExit`; `PluginAbort` for the assertion of `ipc_add_service` |
| `utask_entry` with `_start`, `_stop`, `_event_hdl` | `Start`, `Stop`, `StopDone`, `Event`, `Hear`, `Drained`, `EventEnd` |

Priorities (ipc service 9, plugin task 11, utask 32, less is more urgent on rhino) make
what the first two do between two waits one step; the utask can be preempted between any two.
Abstractions: the rings count mono frames and a frame is stored whole or dropped; ten
tries in a second are "gives up", which without `Faults` happens only while the
utask itself waits in `mic_adaptor_stop`; `pcm_sem` counts up to `SemMax`; the
session events other than PCM data are one (`"session"`), since each is one
callback followed by `evt_cnt = 0`; a muted microphone drops the wake word, which is a step that
changes nothing. `SESSION_STOP_EVENT` is never handed on by `_msg_process`, so that branch of
`_mic_input_event` is not reached. After `PluginAbort` the core stands still.

## 3. Runs

| run | question | bounds | states |
|---|---|---|---|
| `kv_factory_full` | is the store a power-safe dictionary, do copies, counters and offsets stay in order and does every call end, with a factory image that fills block 0 and programs that fail verification | 3 blocks of 5 words, torn writes searched in 2, 2 keys, values of 2 and 3 words and one too large, the second equal to the text of a factory node, versions 1..3, `LossOverRemains = FALSE` | 269 643 |
| `kvnode_int` | is a torn write ever taken for a node | 76 bytes, searched to the end, 3-byte key, 4-byte values (0, `'='` and the trailer, the worst bytes for the parser), 2 programs cut short | 27 816 |
| `boot_finish` | do the flags always lead to a working image, does a bad image roll back | 4 versions, boot limit 2 of 3 words | 802 |
| `ipc_link` | is the link reliable, ordered and live until a service is added | 3 callers, 3 services one of which core 0 adds late, messages of 1 and 2 fragments, a synchronous call, 3 blocks, service queues of 1 | 292 033 |
| `ring` | is the ring a queue of bytes | 4 bytes of memory, 2 byte values, calls of 0 to 4 bytes, checked or not | 599 488 |
| `mic` | is the stream ever silenced, does a stop return | queue of 2 with at most 1 command, rings of 3 and 2 frames, 1 or 3 frames read at once | 60 581 |
| `kv_gcblock`, `kv_factory_lost`, `kvnode_torn`, `boot_early`, `ipc_deadlock`, `mic_stall` | disagreements of code and documentation, section 6 | as small as shows them | |

Why the bounds are enough: a block of 5 words holds two nodes, so that
blocks fill up, are collected and are erased with their last node within a few
calls; three versions make the wrap happen; two keys let one key's update meet the
other's collection; a scan limit below the block size lets torn writes escape it;
a boot limit of 2 is the smallest that lets a good image survive the soft reset
that installs it. With service queues of one, two messages fill a queue and the
receive task waits, which takes eleven in the code; the four
fragments that core 0 sends come round to the first of three blocks, as five do in the code with its four;
the late service is added at every point of this traffic; 76 bytes hold a torn header, the node written
behind it and one more, so that each can be misread with the help of the next; the ring is full after three bytes and wraps in every
call or two; a queue of two is full with one command and one event. Liveness is checked without symmetry.

What they show:

- `CopiesOrdered`: at most two copies of a key, versions always one apart;
- `LookupComplete`: between calls one copy, and `kv_find`, which stops after
  `count` nodes, reaches it;
- `CountersAgree`: the RAM counters equal what a scan of flash would give;
- `NeverOverwritten`: a node, live or marked erased, is never programmed over;
- `FactoryKept`: factory nodes are never lost (if the image fills its block);
- `StoreInv`, `ValuesInv`: the inductive invariants of section 4;
- `PowerSafe`: refinement of `KVAbstract`; `CallsEnd`: liveness;
- `OldOrNew`, `WritesBlank`: the same promise on bytes;
- `FindsWhole`: `kvblock_iter` returns exactly the nodes programmed whole; `NodeInv`: the
  inductive invariant behind these three;
- `Bootable`, `NeverPartial`, `RunsCurrent`, `StaysFinished`, `CountBounded`,
  `Recovers`: the flags lead to a working image and a bad one is given up;
- until a service is added late, `BlockKept`, `Intact`, `InOrder`, `NeverLost`: a block is copied before it is
  filled again, messages are put together from their own fragments and processed
  once and in order, and the gap check of `ipc_channel_recv` never fires;
- `LinkInv`, `PipeInv`: the inductive invariants behind these four, section 4;
- `Delivered`: every call returns and every message sent is processed, unless a service is added late or
  the receive tasks of both cores wait for room in a queue for ever. The second does happen (`ipc_deadlock`, section 6); `Delivered`
  says that nothing else stops the link, no combination of mutexes, events and answers, and it holds in the instance
  of `ipc_deadlock` too;
- `WholeWrite`, `WholeRead`: checks made before a call still hold inside it;
  `IsFifo`: refinement of `ByteFifo`;
- `EventPending`: whenever `evt_cnt` holds back an event, another one is on its way;
  `Heard`: frames that flow are heard again and again; `StopIsFinal`, `Stops`:
  a stop returns, and then the plugin task is gone.

Fairness: `KVStore` has weak fairness on `Step`, the continuation of a call that
holds `kv_lock` and waits for nothing; requests and power losses are not fair.
`BootAB` has it on the boot loader and the watchdog; nothing makes the
application upgrade or finish. `IPC` has it on each core as a whole: a core with
something to do does something, in whatever order its scheduler likes. `Mic` has it on the
senders, the plugin task and the utask, which rhino schedules whenever the more urgent
ones wait; nothing obliges the application to act or the other core to send.
`KVNode` and `Ringbuf` have no liveness property. Deadlock checking is off in the runs of `IPC`,
where the callers have a fixed number of calls to make, and in the runs of `Mic`, where an abort
stops the core.

## 4. Proofs

`BootAB_proofs`, checked by TLAPS, for every `MaxVer`, `BootLimit`, `MaxCnt`:

- `TypeCorrect`: `Spec => []TypeOK`, and `CountsBounded`: `Spec => []CountBounded`,
  for every `Fallback` and `EarlyReset`;
- `AlwaysBootable`, `NeverStartsPartial`, `NeverOverwritesItself`: `Bootable`,
  `NeverPartial`, `RunsCurrent` for `Fallback = {0}`, `EarlyReset = FALSE`,
  `BootLimit >= 2`; `UpgradeKeepsSlot`: the action property `StaysFinished`
  under the same assumptions; `InvariantHolds`: the invariant `IInv` itself.

None of these three invariants is inductive: `Bootable` says nothing about what comes
when the upgrade on trial uses up its boots. The invariant `IInv` says that one
slot is *home* (good image, valid, not counted out) and the other is either
*aside* (not selected) or *on trial* (smaller version, rollback on, complete
image), together with what each `pc` knows about the two (`Phase`). `Fresh` bounds
the boots a good image on trial can have had before `otaab_finish`; this is
where `BootLimit >= 2` and the absence of early resets are used, and run `boot_early`
shows that the second is needed. `Inductive` has one step per
action; `IInv` is also checked by run `boot_finish`.

`Ringbuf_proofs`, for every `Size`, `Byte` and `MaxCall`: `RingbufTypes` (the indices stay inside the
memory), `WritesWhole` and `ReadsWhole` (`WholeWrite` and `WholeRead`) and `RingIsFifo`, the refinement
`Spec => Fifo!Spec`. The inductive invariant adds `Fits`: what a call still has to
copy is at most the space, or the contents, as they are now. It survives the other
task's steps because those only make room, or add bytes. `AvailWrite` and `AvailRead`
say that an advance changes the contents by exactly one byte; `AdvancePuts` and
`AdvanceGets` that the byte is appended at the end or taken from the front.

`Mic_proofs`, for every size of the queue and the rings: `MicTypes`; `StopsForGood`
(`StopIsFinal`), from the invariant `Handshake`, that `task_exit` is only set when the
plugin task is gone and a waiting stop has cleared `task_running`; and for `Faults = FALSE`
`EventNeverForgotten` (`EventPending`). Its invariant adds `Room`: commands leave room
in the queue, so a full queue, the only reason to give up, holds an event (`FullHasEvent`).
Run `mic_stall` shows that `Faults = FALSE` is needed.

`IPC_proofs` and `IPCOrder_proofs`, for any callers and services on the two cores, any
number of messages and fragments, any length of the service queues, any set of late services and any `BLOCK_SIZE >= 3`:

- `IPCTypes`, unconditionally; its proof adds `Filled`, that a header which was put names a block that has been
  filled, since a receive task woken by `ipc_add_service` may read any header again;
- `LinkHolds`, from which follow `BlocksKept` and `HeadersNeverLost` (the action
  property `NeverLost`);
- `PipeHolds`, from which follow `MessagesIntact` and `MessagesInOrder`.

The last two items are about states in which `Settled` holds: `LinkInv` is `Settled => LinkSound`, `PipeInv` is
`Settled => PipeSound`. A state with `Settled` has no predecessor without it (`StaysSettled`), which makes these implications inductive.
After a late registration they fail: two rights to one slot are then under way.

`BlockKept` and `NeverLost` speak of a sender and a receive task on different cores, with
interrupts between them. `LinkSound` makes the handshake one object: the right to use a slot is
in exactly one of six places (the write event of the sending core, the sender that has taken it, the
data interrupt, the read event of the other core, its receive task, the acknowledge interrupt), and
`tx_mutex` has exactly one holder while a message is under way. A step moves the right from one
place to the next, so two places never hold it at once; a block in use is then the one of the slot or
the one before it. `PipeSound` lists, per service, what it has collected, its queue, what the receive
task carries and the slot, in this order: the list is a chain of consecutive fragments of whole
messages, only the last of which may be unfinished, and then its sender holds `tx_mutex`; the
message numbers lie between the last one processed and the last one begun. `Intact` and `InOrder`
are not inductive without it, because a service sees only the front of that chain.

`KVStore_proofs`, for every number and size of blocks, all keys and values, every factory image, every
scan limit and with programs that fail: `StoreHolds` (`StoreInv`) and from it `StoreTypes`,
`CopiesStayOrdered`, `LookupsComplete`, `CountersRight` and `NodesNotOverwritten`, each under the hypothesis
`~LossOverRemains`: power does not fail while a program runs over torn remains that the scan did not reach. The mixed node such a
loss leaves has any key and version, which neither the order of copies nor the lookup survives. In a block searched to its end
there are no such remains, and TLC finds the same properties with `LossOverRemains = TRUE`. The parts of `StoreInv`:

- `FlashSound`: nodes lie inside their block and writable ones apart; `OffsetsSound`: none
  beyond `write_offset` of a block that has been scanned; `CountsSound`: `count` and `kv_size`
  are those of the nodes there. These three are what makes the block erase of `kvnode_rm`,
  the early stop of `kvblock_find` and the next program safe;
- `CopiesOrdered` with `OneLeft` and `VersionsSound`: `CopiesOrdered` alone is not inductive, since
  a third copy could be written while two exist. `OneLeft` says that two copies exist only
  while one of them is *doomed*, `VersionsSound` that the version about to be written
  follows that of the copy there;
- `CallSound`: the nodes a call remembers across flash operations are still what it took them for.

There is one lemma per action and, below them, one per flash operation (`ProgrammedSound`, `FailedSound`,
`MarkSound`, `EraseSound`, `ScanSound`). `kv_size` is a sum over a set and `write_offset` a maximum;
`TotalTake` and `MaxOf` give what the other lemmas need of them, by induction over the *set* of numbers
for which the claim holds (`NatSetInduction`), since the library's schema with a predicate
cannot be used. A power loss is one lemma, `SurvivesSound`: the live nodes are as before, or with the one
being written, or without a block that had nothing else to keep.

`KVRef_proofs`, under the same hypothesis and for an image that fills the blocks it is in (`Filled`; no image is a special case):
`FactoryNodesKept` (`FactoryKept`), `ValuesHold` (`ValuesInv`) and `StoreIsPowerSafe`, the refinement
`Spec => Abs!Spec`. Run `kv_factory_lost` shows that `Filled` is needed: with room behind the image its
block may become the collection block. `FactoryInv` says that this never happens otherwise: such a block
has less than two words free, so `kv_init` does not choose it, its `ro_count` is not zero, so neither
`kv_set` nor `kv_gc` writes to it, and elsewhere `ro_count` is zero, so that `kvnode_rm` erases a block
only with its last live node (`LastAlone`). `CallInv` adds what each call has achieved: in `kv_set` the old copy
about to be removed has a successor one version on with the new value, in `kv_gc` one with the same value,
`kv_reset` has still to visit whatever writable node is left. Each flash operation then changes the
abstract store in one of three ways (`StoreKept`, `StorePuts`, `StoreDrops`), and each action of the code is one of
`KVAbstract` or a stutter; the same lemmas serve for the operation and for the power loss in the middle of it.

`KVNode_proofs`, for blocks of any size, any scan limit, any number of power losses and every key and
set of values that satisfy `Plain`: `NodeHolds` (`Searched => NodeInv` always) and from it `NodeTypes`
(`TypeOK`), `SearchFindsWhole` (`FindsWhole`), `ReadsOldOrNew` (`OldOrNew`) and `WritesOnBlank`
(`WritesBlank`), each as long as `Searched` holds. `Searched` says that the torn writes lie among the
bytes `kvblock_calc` looks at, 508 in the code; `AllSearched` says that it always does in a
block that is searched to its end. What comes without it is the last disagreement of section 6. `Plain`
says which keys and values are safe, and each part is there because of a way to misread a torn write:

- a value is no longer than the key, or has at most four bytes: the place of the
  trailer of a torn node then lies among the first bytes of the node behind it, in its key or on the zero
  behind that, and no byte of the key equals the trailer; with longer values it can meet the next trailer (`kvnode_torn`);
- the key has three bytes or more and no `'='`: the place of the `'='` of a torn header then does not meet
  one;
- a value longer than four bytes has no zero: a zero inside it could begin a header. Numbers
  (`aos_kv_setint`) have at most four bytes and may have any;
- keys have no newline, which is what ends a read-only text.

`OldOrNew` is not inductive: the values a client reads depend on how every byte of the block is parsed. `NodeInv`
describes the block from the history `log`: the programs lie one behind the other (`LogSound`), the block holds their
bytes and is blank elsewhere (`Image`), `write_offset` is behind all of them (`OffsetSound`), and of the copies of the
key there are at most two, with consecutive versions, one of which the running call knows (`CopiesSound`). The proof has
three layers. On bytes: `NoFake`, that every zero which `kvblock_search` takes for the end of a key is that of a whole
node (`TornIsNoNode` goes through the places a torn header can end at), and `WholeIsNode`, its converse. On
searches: `SearchCases`, that a search from the end of a node finds the next whole one or, behind the last,
nothing writable, and `NodesAre`, that the recursive function `NodesFrom` collects them all; that this function is
well defined (`StepsExist`) and what it returns are shown by `NatSetInduction` on the set of
numbers for which the claim holds. On steps: one lemma per action. `HistoryGrows` says that programs are never taken
back, so that `Searched` in the next state implies it in this one, which makes the conditional invariant inductive.

Only model-checked: liveness (`CallsEnd`, `Recovers`, `Delivered`, `Heard`, `Stops`), which is out of the prover's
reach. That each run reaches the interesting cases is shown by the mutants.

## 5. Plan

1. The probe of `ipc` with its retries, and what a finite timeout of the write event does to the handshake.
2. Slice arithmetic of `bootab_upgrade_partition_slice` as operators with lemmas.

## 6. Where code and documentation disagree

Each has a run that ends in a counterexample; PROJECT.json `findings` quotes the lines.

- `kv_gcblock`: `gc_bid` is chosen before `kv_verify` removes old copies. After a power
  loss in garbage collection all blocks may look full; `gc_bid` stays -1 and
  the next `kv_gc` reads `blocks[-1]`.
- `kv_factory_lost`: a block the factory image does not fill may become the
  collection block, and removing its last writable node erases the factory data.
- `kvnode_torn`: a torn header followed by the retried node parses as one node with a garbled
  value, for values whose length is 1 modulo 4 and at least the key's + 2.
- `boot_early`: restarts of a working application before `otaab_finish` is through
  roll it back onto a slot with erased flags; then both are erased, `<=` selects
  slot a whatever runs, and the next upgrade overwrites what would be booted.
  `otaab_finish(1)` leads to the same violation of `Bootable`.
- `ipc_deadlock`: the receive task waits for room in a service's queue (`ipc.c:295`) and serves no other service
  meanwhile. A service that answers does not empty its queue until its answer is sent; if both cores call each other and both
  answers are longer than queue, receive task and slot together (4 fragments with a queue of 1, 13 in the code),
  both receive tasks wait for ever and neither `ipc_message_send` returns. Requests behind one another fill a queue as well.
- `mic_stall`: `mic_event_hdl` counts an event and ignores that it could not be queued; after one such
  failure the stream is silent until another event, such as the next wake word, clears the count.

Five more were met without a run of their own. `kvblock_calc` looks for torn writes in the first 508 bytes of
a block only (`block.c:511`), and the promise of atomic updates in the README of `kv` ends there: behind them
a retry programs over the remains, and if power fails again after the last byte and before the read-back of
`block.c:216`, a live node is left whose value has the common bits of two values and was never stored
(`OldOrNew` fails in `KVNode` with a scan limit below the block size, `PowerSafe` in `KVStore` with
`LossOverRemains = TRUE`). Setting a key to the raw text of its factory node returns success and changes
nothing, since `kv_set` compares bytes without asking for the kind of node (`kvset.c:309-310`). A service added while the link is in use makes
the receive task read a slot twice (section 2, IPC): the gap check of `ipc.c:65` fires, a message may be processed
twice, and with the extra acknowledge a header may be overwritten before it is read. A failed block erase of `kv` is only printed and
the block counts as empty with its nodes still readable, while its README promises that
erases are verified. And starting the microphone after a stop registers its ipc service a second
time, which `ipc_add_service` answers with `assert(NULL)` (`PluginAbort`).

## 7. Not modelled

Most of the repository's lines are vendored: the kernel, drivers and register headers, lwip,
mbedtls, lvgl with its fonts, libxml2, tflite_micro and other libraries. They are third-party
code with their own tests, and no model of the firmware's logic covers a notable share of them; the
map covers the parts named in section 1. The satellite application and the wake word engine
are submodules that the repository does not contain. `fota`, `smart_audio`, `button`,
`clock_alarm`, `netmgr` and `wifi_provisioning` are left out for the reasons in PROJECT.json
`components`, and within the modelled parts the notes under `hazards` name what is left out.
