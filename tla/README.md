# OpenBikeComputer: TLA+ specifications and proofs

This directory specifies the parts of OpenBikeComputer whose correctness
depends on what survives a power cut, a refused card command or a reset, and on
tasks that meet in an order nobody chose: the flat store on the SD card, the
ride journal inside it, the recorder above it, the firmware update, the
transfer engine two links share, and the cable's way to that engine. The
modules are translated from the Rust sources under `firmware/`; TLC checks them
on small instances, and TLAPS proves the safety properties of all six, and the
refinement between two modules, for every instance. `PROJECT.json` maps every definition
to the lines it models.

## 1. Inventory

### 1.1 The system

The device is one nRF54L firmware (`firmware/obc-fw-nrf54l`) around a portable
core (`obc-app`), with a bootloader of its own (`obc-boot`). Tasks run on one
Embassy executor; a task can be interleaved with the others at every `await`,
and everything loses its RAM at a power cut. Host programs (map builder,
planner, simulator, iOS companion) produce the files the device reads and talk
to it over BLE and USB.

| Component | State | Operations | Interacts with |
|---|---|---|---|
| Flat store (`obc-storage/src/flat/{store,catalog,bitmap,layout}.rs`) | on card: two catalog copies with gates, extents; resident: `Served`, free map, reservations, holds | mount, allocate, write, seal, cancel, commit, open, read, close, list | every other component that keeps data, through the storage task |
| Ride journal and ride writer (`flat/store.rs`, `flat/journal.rs`, `recorder/writer.rs`, `flat_ride.rs`) | 16 slots (tail and header), the ride's pages, `RideState`, `RideWriter` | append, checkpoint, finish, discard, journal, recover | flat store (ride start and end are commits), recorder |
| Firmware update (`obc-dfu`, `obc-boot`, `dfu.rs`, `settings.rs`) | app slot, boot-state page, arm marker, sEMMC carve, update package, rollback reserve, watchdog | scan, arm, install, trial, confirm, roll back, abandon, reconcile | flat store (package and reserve are objects), health anchor of the ride loop |
| Transfer engine (`obc-link/src/flat/engine.rs`) | one transfer with its reservation or handle, the stall clock, one owed answer | records from two links, batches, pump, cancel, stall, link loss, reboots | flat store through the storage task |
| Storage task (`flat_store.rs`) | request queue, reply slots and tickets, reaction buffers | one request at a time | all users of the store |
| USB object service (`usb/v4.rs`) | the driver future, its lane, two banks of the arena | select of control and stream records, staging, cable loss | storage task, arena owner (ride loop), card DMA |
| Metadata view (`flat/metadata.rs`, `source.rs`) | receipts, archive state | publish with a catalog | flat store, transfer engine |
| Device core (`obc-app/src/device_core`) | effects and outcomes with operation tokens, core mode | passes | recorder, navigator, storage, update |
| Recorder (`obc-app/src/recorder.rs`, `flat_ride.rs`) | session, intent, staged samples, totals, recovery state; on the board the writer and its buffers | start, pause, save, discard, restart, continue, repair; append, checkpoint, finalize | device core, ride writer, screens |
| Navigator (`obc-app/src/navigator.rs`, `arena_gate.rs`) | plan jobs, owner of the shared arena | plan, cancel | device core |
| Input, screens, card scheduler | screen stack, cards | events, ticks | device core |
| Route, map, terrain readers | caches | decode | flat store reads |
| Display, BLE, USB, sensors | drivers | I/O | - |
| Host tools, planner, builder, simulator, companion | - | - | formats and link protocol |

### 1.2 What is hard in it

* **Power cuts.** A commit is more than thirty card commands, a rollover of the
  journal is five write-and-synchronize pairs, an install overwrites the only
  bootable image. A write that was not synchronized may be kept, lost or torn.
* **Refused commands.** A card may report an error for a command that took
  effect. The store then does not know whether its commit happened.
* **Retries.** The recorder retries the same checkpoint until it is
  acknowledged; the bootloader retries the card; a retry must neither repeat
  nor mix what an earlier attempt did.
* **Readers against writers.** An object is replaced or removed while it is
  read, listed or streamed over a link.
* **Records written apart.** The boot page, the arm marker, the carve and the
  reserve are four separate writes that must agree after any cut.
* **Futures that are dropped.** The cable can go at any `await` of the USB task.
  What the task sent is still in the queue, is served, and answers into a slot
  nobody waits at; its buffer and a card transfer may still be out.
* **Two clients, one engine.** Each link has its own client, request ids repeat
  across links and across connections, and the device commits between any two
  records of an upload.
* **Reads that fail.** "Cannot be read" and "is not there" are different, and
  several recovery paths have to tell them apart.

### 1.3 What makes each component correct

* Flat store: there is always a catalog to mount; a catalog that was served or
  answered is the durable one; its payload is on the card; no extent has two
  owners and none leaks; a reader keeps its bytes; a listing is of one catalog;
  all of it together refines one atomically replaced catalog.
* Ride journal: the recovered ride is a payload some writer really had, contains
  everything acknowledged, can always be continued, and is published whole.
* Firmware update: a half-written slot is always repairable and never run; the
  page does not lie about what runs; a trial that never confirms is replaced;
  every boot ends; the rider is told the truth.
* Transfer engine: a transfer ends, gives back what it holds, publishes the
  bytes that were declared, never over a revision its client has not seen, and
  is answered to the peer that asked.
* Storage task and cable: an answer is always on its way to whoever waits, the
  reaction buffer is never lost, and no bank is written or given back while the
  card still reads it.
* Recorder: durable totals are those of the durable samples, a saved ride has
  every staged sample, a hole in the samples is never drawn as a line, a
  Discard removes only the ride it was asked for, and a Save completes.

The hazards, each at its line, are listed in `PROJECT.json`.

## 2. Plan

Done, in this order: `FlatStore` with `AtomicCatalog`, `RideJournal` and
`BootUpdate`, with the proofs of the invariants of `FlatStore` and
`BootUpdate`; then `LinkEngine`, `UsbLink` and `Recorder`; then the proofs of
`LinkEngine` and `Recorder`, of what `FlatStore` promises about keys and bytes,
of its refinement of `AtomicCatalog`, and of `UsbLink`: its queue, its banks and
the bytes in them; last, the proofs of `RideJournal`. `LinkEngine` stands on the atomic commit that `FlatStore`
shows, `UsbLink` on the engine of `LinkEngine` as far as one link can tell,
`Recorder` on the journal of `RideJournal`.

What is left, in order of importance:

1. The rest of a device-core pass: the catalog and metadata stages with their
   operation tokens, the admission of heavy work (`core_mode.rs`), and the
   arena gate between the navigator and a map upload.
2. The BLE adapter, whose lane is the cable's without a stage, together with
   the cable in one module.
3. In `FlatStore`: `patch_allocation`, `format_media` on a used card, the
   rest of the metadata view. In `RideJournal`: a second ride over the headers
   an ended one leaves behind.

## 3. Modules

| Module | Models |
|---|---|
| `FlatStore` | mount, allocation, writing, commit, open/close and listing of the flat store, on a card whose commands can be refused and cut |
| `AtomicCatalog` | the abstract specification: one catalog, replaced in one step |
| `FlatStoreInvariant` | the inductive invariants `StoreInvariant`, `KeysInvariant` and `BytesInvariant` of `FlatStore`, by parts |
| `FlatStoreProofs` | the TLAPS proofs about `FlatStore`: types, mounting, what is served, reservations |
| `FlatStoreBytesProofs` | ... the keys of readers, the free map and listings; the bytes of catalogs and readers, and that `FlatStore` implements `AtomicCatalog` |
| `LinkEngine` | the transfer engine: one transfer, two links, the stall watchdog, removal, arming, formatting and archiving, over a store seen through its seam |
| `LinkEngineProofs` | the TLAPS proofs about `LinkEngine` |
| `UsbLink` | the USB task, the storage task's queue and reply slots, the arena banks and the card's DMA |
| `UsbLinkProofs`, `UsbLinkBanksProofs` | the TLAPS proofs about `UsbLink`: the queue, the buffer and the arena; the two banks and the bytes in them |
| `Recorder` | the recorder machine, the pass that drives it, the rider's gestures and the executor on the board |
| `RecorderProofs` | the TLAPS proofs about `Recorder` |
| `RideJournal` | checkpoints, rollovers, retries, end and recovery of a ride |
| `RideJournalProofs` | the TLAPS proofs about `RideJournal` |
| `BootUpdate` | arm, install, trial, confirm, rollback and boot verdict of an update, in the app and in the bootloader |
| `BootUpdateProofs` | the TLAPS proofs about `BootUpdate` |
| `MCFlatStore`, `MCRideJournal`, `MCBootUpdate`, `MCLinkEngine` | what TLC needs on top (symmetry; the payloads and records of a client) |

Actions carry the name of the function they translate wherever a function and
an action correspond (`journal`, `recover_ride`, `decide`, `confirm_trial`);
a function that issues several card commands is one action per command, named
for what has just happened (`TailDone`, `FlashBegins`). A definition that ends
in `_Something` just before a definition is a *mutant* of it: the same
definition with a plausible bug, which `PROJECT.json` pairs with the property
that catches it.

### 3.1 FlatStore

State: `card` (what a read returns) and `flash` (what survives a cut), both
arrays of cells - two gates, two bodies, the extents; `served` (struct
`Served`), `used` (`FreeMap`), `rows` (`Reservation`), `holds` (`Hold`), `op`
(the commit in progress, by the card command it is at), `listing`.

A commit (`store.rs` 1548-1699) is `Begin` (resolve every mutation, merge,
validate, flush staged bytes), then `CommitWrite` and `CommitSync` alternately
for payload, invalidated gate, body and gate, then `CommitPublish`, or
`CommitError` when a command before the gate is refused and `CommitUncertain`
when the gate's write or synchronization is: the store then fences itself with
`RemountRequired`. `Cut` keeps, loses or tears every unsynchronized cell;
`Mount` is `bring_up`. `Cut` at a commit phase and other actions between the
phases of a commit (readers, listings, reservations) interleave freely except
where the code holds the store.

Abstractions: a CRC tells any two values apart, so a well-formed gate *is* the
body it certifies and everything else is `Ill`; an extent holds one payload
value; kind, name and times are copied through and left out; an
`Allocation` or `Handle` is its row, because the nonce and key checks make every
other token a no-op. A ride's bytes reach its extents through the journal and
appear here with the commit that ends the ride.

### 3.2 RideJournal

State: `heads`, `tails`, `pages` on the card, `ride` (`RideState`), `writer`
(`RideWriter`: state, append buffer, running CRC), `pc`; `acked` is a history
variable, the payload of the last checkpoint that returned success.

A checkpoint is `journal` (the guards), then the tail and the header of one
slot, each written and synchronized, or for a rollover proof tail, proof
header, logical tail, logical header and the page copy (`repair_rollover`).
`JournalFails` refuses any of them, leaving the cell old, torn or new; `Cut`
does the same and clears the resident state; `recover_ride` selects the newest
logical slot whose proof is there and repairs the page.

A payload is a sequence of samples and a sample is the number of the boot that
recorded it: bytes of two attempts differ exactly when a cut lies between them,
which is when a wrong pairing of slots could matter. A CRC is the payload it was
computed over. The resume image and the recovery's damage verdict, on which no
write depends, are left out. A ride is cut `MaxBoots` times, or, once a
command of it was refused, `MaxRefusedBoots` times (`Refuses`). The headers of an ended ride are cleared with the
commit that ended it (`settle_ride`); a second ride is not modelled.

### 3.3 BootUpdate

State: the app slot (an image or `Torn`), the boot page, the arm marker, the
carve (`blob`), the update package and whether its blocks are still intact, the
rollback reserve, and `pc`, which names the step of whichever program holds the
core. An image stands for its bytes, header and version.

Bootloader: `decide`, `try_init`, `verify`/`VerifyMismatch`, `FlashBegins`,
`flash_verified`/`FlashFails`/`FlashCardFails`, `Installed`/`RecordFails`,
`AcceptAndClear`, `StageRejected`, `abandon_arm`, `CardFails`. App:
`reconcile_boot_outcome`, `Downgrade`, `clear_arm_marker`, `HealthAnchor`,
`confirm_trial`, `run_scan`, `run_install`, `write_rollback`,
`stage_boot_blob`, `arm`, `write_arm_marker`, `sys_reset`, and `Upload` by a
link at any point of these. Environment: `DogFires`, `PowerCut`, `Reflash`.

`Reflash` is a device on the bench: it is reflashed at rest, with a settled page
and no marker. Only images in `Healthy` get past `start`: an unhealthy one wedges before its
first frame, and only the watchdog ends it. An arm may begin before the health
anchor, because the code has no guard against it. The generation of an arm
starts again at 1 from an `Idle` page, as in the code. A refused write leaves the old
page, or, in the bootloader and in a downgrade, after which the marker is
cleared before the next arm, also one that does not decode (`FailPage`); a
refused marker is the old one, the new one or none. Two errors are
faults of their own, because they make two arms share a generation. A page
that a running app tears and goes on with (`"page_torn"`, `FailRunningPage`)
sends the next arm back to 1. A marker whose clear fails (`"clear"`)
waits for the next arm of its generation and vouches for that one's image.
`ConfirmedIsRunning` is checked and proved with refused writes of page and
marker and without these two; section 6.2 has what happens with them.

### 3.4 LinkEngine

State: `up` (`Engine::ceilings`), `live`, `stall`, `owed` as in `Engine`; `turn`
keeps a served call and the `watch_stall` the storage task runs after it
together; the store behind its seam: `head` and `kept` revision of each object,
the id cursor, the commit sequence, the mode, `rows` (reservations) and `holds`
(open objects); `format` and `reboot`. `waiting` and `stray` are history: the
answers each peer awaits, and whether one ever got an answer it did not. So is
`checked` of an entry: whether the engine summed its upload, which it does but
for a map over USB (`Unchecked`).

Actions: `on_put`, `on_get`, `on_stream`, `on_usb_map_batch` and their
`Finish...` and `...Fails` outcomes, `poll`/`PollEnds`/`PollOwed`, `on_cancel`,
`watch_stall`, `Tick`, `on_link_up`, `on_link_lost`, `on_remove`, `on_arm`,
`ArmTakenBack`, `on_archive`, `ArchivedAgain`, `on_format`, `Reboot`, and between any two of them
`DeviceCommit` and `DeviceHolds`: the device's own use of the same store.

Abstractions: a payload is a short sequence of bytes and its CRC is the payload
itself; the clock reading of the stall watch is kept as the age its
`wrapping_sub` yields, so the wrap is modelled and no absolute time is; an
object has one retained revision; LIST and STATUS change nothing and are left
out. A failed commit is either a refusal or an uncertain gate, after which the
store is fenced and a `Reboot` finds either catalog; the commit that takes an
arm back may end in all three ways. Of the metadata view the engine meets the
receipt of an archived object: the first one makes the metadata object
or replaces it (`Metadata`), a repeated one commits nothing (`ArchivedAgain`).

### 3.5 UsbLink

`pc` is the `await` the USB task is parked at; every other variable is state of
the driver (lane, admission, stage, pending write), of the storage task (queue,
slots), of the engine as this link sees it, of the arena (`wants`, `granted`,
two banks) or of the card (`dma`, the reservation, what a commit published).
`Unplug` and `DropDriver` drop the future at any `await` inside `driver`;
`Closes` is the driver that ends by itself, also after a failed send, and joins
its stage first. `Lost`, `Joined` and `reclaim` are the way back to the next cable. Tasks are
cooperative: others run only while the USB task is parked (`Parked`).

The client uploads maps of `Declared` units; control requests besides PUT are
CANCEL and LIST. A GET is pumped like an owed answer and is left out. A tag is
the least one not in use, where the code counts up: only equality of tags
matters, and a wrapped `u32` that meets a live tag is not modelled.

### 3.6 Recorder

The ride loop alternates a pass (`stage_outcomes`, `advance_recorder_session`,
`Gesture`, `stage_input`, `stage_recorder`) and the executor (`open`, `append`,
`checkpoint`, `finalize`, `discard`, then `Journal`, `Publish...`, `RemoveRide`
or `FlushFails`). `PowerCut` ends a boot anywhere and leads to what the next
one offers: nothing, a ride to continue, a damaged one, or a close to finish.

A fix is its number; totals are the set of fixes whose interval was integrated,
which is all a comparison of totals and samples needs. A fix at an unchanged
clock only moves the anchor and is left out, as are the figures that ride along
with the totals. The operation token is left out because no answer outlives the
pass after its effect. A journal write is durable or refused; `RESERVE_BYTES`
is not reached.

## 4. Runs

"States" are the distinct states TLC finds. All passing runs exhaust their
state space. The fault sets are part of a configuration: each run turns on the
faults its question is about.

| Run | Shows | States |
|---|---|---|
| `flat_atomic` | two objects, any command refused or cut in any way: the payload of a durable catalog is on the card, the mounted store serves the durable catalog, and the whole refines `AtomicCatalog` | 41,920 |
| `flat_owners` | two readers of an object against commits that replace, amend, trim and remove it, plain, recording and reserved, with cuts: readers keep their bytes, a key never serves another object's bytes, the free map is exact | 289,922 |
| `flat_decay` | two reservations, readers and a listing under refused synchronizations, failed reads of `close`, cuts and a copy that decays between mounts: there is always a catalog to mount, a listing is of one catalog, reservations own their extents | 543,101 |
| `ride` | a ride of two full pages and a partial one, cut twice at any command, or cut once beside refused commands that are retried without bound: the recovered ride is one some writer had, holds all that was acknowledged, can be continued and is published whole | 727,433 |
| `boot_faults` | two arms, a good and a wedging update, two cuts, every error of card, records and store except a card outage after the slot was touched and a swapped card: a torn slot is repairable, the page does not lie | 1,449,534 |
| `boot_live` | the same arms, one cut, refused writes of page and marker: every boot ends and a wedged trial is replaced; "updated" is never said wrongly; a slot reflashed over the debug port is not snapshotted under the old header | 308,164 |
| `link_store` | two links and every request against a store that refuses reads, writes and commits and fences itself, the device committing in between: nothing leaks, an upload publishes the declared bytes and never over a revision its client has not seen | 543,456 |
| `link_peers` | two links whose peers come, go, cancel and fall silent: an answer goes only to the peer that asked, and every transfer ends | 47,132 |
| `usb_cable` | two map uploads over a cable that may go at any `await`, with CANCEL, LIST, a stall, a missed grant and a radio upload in between: the buffer is never lost, every wait has an answer on its way, the card never reads a bank that is being written or was given back | 1,043,700 |
| `recorder` | rides started, paused, saved, discarded, restarted and recovered across one refused write and one cut: totals match samples, a saved ride has every staged sample and no line across a hole, a Discard removes its own ride, a Save completes | 631,670 |

Two further runs, `boot_outage` and `recorder_settle`, expect a violation; they
are the findings of section 6.

**Bounds.** *FlatStore*: two extents are the least for which an object can be
replaced while held and an entry can be trimmed; two usable revisions give a
retained entry next to its head; two objects (`flat_atomic`) and two mutations
per batch are the least for which one commit frees and publishes at once.
`MaxSequence = 4` gives three commits: each copy is written, and one of them
twice; create, remove and create again fit. It is also the modelled `u64::MAX`,
so `SequenceSpaceExhausted` is reached, as are the ends of ids and revisions.
`MaxOpen`, `MaxReaders`, `MaxReservations` and `Capacity` are limits of the
code itself, chosen so small that they are hit. Two payload values tell stale
from current bytes where readers are checked; elsewhere one value and `Ill`
tell present from lost or torn. *RideJournal*: a ring of four slots (the code
has 16) is overwritten within one ride, and three samples per page with a delta
of three give exact fills, spills and empty spills; `Reserve = 7` is two full
pages and a partial one. Two cuts are what it takes to interrupt a recovery.
One cut beside refused commands is what `ride` covers; two
meet the pairing of section 6.2.
*LinkEngine*: a payload of three bytes over a stage of two and records of
one and two bytes give staged bytes, full stages and remainders; two revisions
and three sequence numbers reach `MaxRevision` and the exhausted sequence; one
reservation and one hold are the least that can leak; a timeout of two ticks in
a clock of three makes the clock wrap within one transfer. The two runs divide
the questions: `link_store` has one request id per link and all faults,
`link_peers` two ids and GET, and no faults. *UsbLink*: three batches per
upload use both banks and one of them again; two uploads let the answer of the
first meet the stage of the second; one cable loss at any `await`. *Recorder*:
one staged sample fills both staging buffers, so overflow and `NeedsCheckpoint`
happen; a checkpoint every tick and a backoff of two (`CHECKPOINT_MS` 10 s,
`CHECKPOINT_RETRY_MS` 30 s in the code) keep the order of the two; five inputs
(fixes and requests together) let a ride be recorded, cut, continued, recorded
again and saved. One gesture per pass (`Batch`): see section 6.2 for two. *BootUpdate*: budgets of two (the code has `ARM_ABANDON_ROUNDS = 10` and four
flash passes) reach both "retry" and "give up"; two arms reach an arm during a
trial; three images are a factory image, a good and a bad update.

**Symmetry** is used over `Payload` in `flat_owners`, where payload values are
only compared for equality.

**Deadlock** is checked in all runs of `FlatStore`, `LinkEngine` and `UsbLink`.
In `RideJournal` a ride ends, in `BootUpdate` the device may park on SOS or the
bounds on cuts and arms may be used up, and in `Recorder` the inputs may be; the
configurations of these three say `CHECK_DEADLOCK FALSE`.

**Fairness** (`boot_live`). The bootloader is straight-line code without
blocking: weak fairness of `BootStep`. A counting watchdog fires: weak fairness
of `DogFires`. The card loop retries for ever with a pause; that it ends
supposes that the card does come back: strong fairness of the steps that need
the card. Nothing is assumed of the app, the rider, the link or of power.
`link_peers`: time passes (strong fairness of `Tick`, which is disabled while a
served call still owes its `watch_stall`), and the storage task runs
`watch_stall` after each call (weak fairness); nothing is assumed of the peers.
`recorder`: the ride loop runs (weak fairness of `Pass \/ Execute`) and the
clock with it (strong fairness of a pass that takes no time and of one that
takes a cadence: many passes fit between two checkpoints); that a Save completes
supposes further that refusals are finitely many, which `MaxFaults` says.
`usb_cable` checks no liveness property: `AnswerOnItsWay` states as an invariant
what a wait needs in order to end.

## 5. Proofs

TLAPS proves the following for all values of the constants that satisfy the
named assumptions of the modules. These ask that sizes are naturals (and, in
`LinkEngine`, that a fresh card has a commit left, `MaxSequence > 1`; in
`RideJournal`, that a checkpoint has room for a sample beside the footer and is
not longer than a page), and that `None` is no value of the sets it stands for an absence in (`NoneAssumption`).
The right column is what a theorem supposes beyond them.

| Module | Theorems | Supposing |
|---|---|---|
| `FlatStoreProofs` | `StoreIsInvariant`; `StoreTypes`, `StoreAlwaysMounts` (`CatalogAlwaysMounts`), `StoreServesTruth` (`ServesTruth`), `StoreReservationsExclusive` (`ReservationsExclusive`) | `"mount_read" \notin Faults` |
| `FlatStoreBytesProofs` | `KeysAreInvariant`; `StoreHeldKeyIsLiveKey`, `StoreFreeMapExact`, `StoreListingConsistent` | `"mount_read" \notin Faults` |
| | `BytesAreInvariant`; `StorePayloadIntact` (`CommittedPayloadIntact`), `StorePinnedBytesStable`, `StoreImplementsAtomicCatalog` (`ImplementsAtomicCatalog`) | `SoundMedium`: neither `"mount_read"` nor `"rot"` |
| `RideJournalProofs` | `StoreIsInvariant`; `RideIsRetriable` (`Retriable`) | nothing |
| | `ContentIsInvariant`; `JournalTypes`, `RideMatchesCrc` (`RecordedMatchesCrc`), `AcknowledgedRideSurvives` (`AcknowledgedSurvives`), `PublishedRideIsWhole` (`PublishedIsWhole`) | `Survivable`: no `"header_read"`, `MaxRefusedBoots <= 1`, `Slots >= 4` |
| `BootUpdateProofs` | `BootIsInvariant`; `BootTypes`, `TornSlotAlwaysRepairable`, `BootNeverJumpsTorn`, `SnapshotAlwaysRestorable`, `PageNamesRunningImage` | `GoodCard`: none of `"touched_outage"`, `"other_card"`, `"swd"` |
| | `ConfirmedAlwaysRunning` (`ConfirmedIsRunning`) | ... and `OldMarkersGo`: neither `"page_torn"` nor `"clear"` |
| `LinkEngineProofs` | `EngineIsInvariant`; `EngineTypes`, `NothingEverLeaks`, `UploadsPublishWhatTheyDeclared`, `AnswersAlwaysReachTheAsker`, `NoUpdateIsLost` (`NoLostUpdate`) | nothing |
| `UsbLinkProofs` | `UsbIsInvariant`; `UsbTypes`, `BufferAlwaysSomewhere`, `AnswersOnTheirWay` (`AnswerOnItsWay`), `ArenaAlwaysOutlivesDma` | nothing |
| `UsbLinkBanksProofs` | `BanksAreInvariant`; `NoCopyIsUnderDma` (`NoCopyUnderDma`); `BytesOfTheCable`, `PublishedIsWhatWasSent` (`PublishedIsSent`) | nothing |
| `RecorderProofs` | `RecorderTypes` | nothing |
| | `SessionsMeetTheirObject`, `RecorderIsInvariant`; `DiscardsAreOfTheirOwn`, `RideTotalsMatch`, `RidesLoseNothing`, `RideSegmentsAreContinuous` | `OneAtATime`: `Batch <= 1`, no `"settle"` |

These suppositions are not there for the prover. With `"mount_read"` TLC breaks
`ServesTruth`, `ReservationsExclusive` and `PinnedBytesStable`, and with `"rot"`
(a catalog copy that decays by itself) `CommittedPayloadIntact`,
`PinnedBytesStable` and `ImplementsAtomicCatalog`: the older catalog comes back
in force, whose payload may have been reused and whose return no commit
explains. That a catalog mounts and reservations own their extents survives
`"rot"`, and so do keys, the free map and listings. For these three TLC
finds no counterexample with `"mount_read"` either; they
suppose it absent because their proof stands on `StoreInvariant`.
What `Survivable` says of faults is section 6.2: an unreadable header and a
second boot with refused writes. Its `Slots >= 4` is about the ring: when the
page fills at two checkpoints in a row, the second rollover writes the two
slots behind its source, while that source still names the proof
before it. In a ring of three the second of the two is that proof, and TLC
breaks `AcknowledgedSurvives`; the code has 16 (`layout.rs:60`). `"swd"` is a slot
reflashed over the debug port; what the others exclude is in section 6. The invariants were
model-checked on the instances of the runs before they were proved, and are not
repeated by a run.

*The argument for the store.* None of the properties is inductive alone: that
a catalog always mounts depends on what exactly the card holds of the copy a
commit is writing. `StoreInvariant` says this command by command (`PhasePart`);
that no command touches the served copy (`ServedPart`); that the other copy
cannot outrank it until its gate is ill (`OutrankedPart`), which is the part a
decayed body or a sequence that does not continue above the high-water mark
would break; that owners of extents are disjoint and out of the allocator
(`OwnersPart`), and that what a commit publishes and frees comes from those
owners (`PlanPart`), which is what makes the free at `CommitPublish`, `Close`
and `Cancel` safe. `FlatStoreProofs` proves the type part action by action,
then the rest: one lemma per action, one step per part.

*Keys.* A reader is found by its key, so a key must never come to mean
something else. `KeysPart` says how the catalog a commit prepares differs from
the served one: an entry that stays keeps its bytes, a new one has an id from
behind the cursor or a revision above every head of its object, and what is
freed is what was given up. From it `HeldPart` carries over each publish: a
held key is live with extents the reader holds, or used up. `UsedPart` is the
other half of the free map (nothing is out of the allocator for nobody), and
`ListingPart` ties a listing to the sequence it was built at.

*Bytes.* A catalog is only as good as the payload under it. `PayloadPart` says
where the payload is at each command: with the pending writes of the flush, then on
the card, then on the medium before the body is written. `FlushPart` says
that a flush writes only into the extents of its own reservations and of the
ride it ends, `RowsPart` that what a reservation no longer stages is on the card,
and `PinnedPart` that a reader's bytes are in extents it holds; with the
disjointness of `OwnersPart` no command writes where a catalog or a
reader reads.

*The refinement.* `AtomicCatalog` sees the truth (what a mount would choose),
the view (what is served) and the pending batch. Two gates of one sequence
make no copy selectable, so the truth is one catalog and the `CHOOSE` of the
mapping is harmless (`TruthIsOne`). Every command before the gate is a
stutter; the gate's write that is lost, torn or kept at a cut is the abstract
commit or its absence. The one place where `StoreInvariant` does not suffice
is a fenced store: `DecidedPart` adds that once the medium holds the new gate,
the card reads it too, so that no later synchronization can take back a commit that
has been seen.

*The argument for the journal.* `StoreOK` is what holds whatever fails. Every
header on the card, the remains of failed attempts included, describes
the payload it names and stands in its slot (`HeadersOK`); the slot the ride
continues from is intact and describes the ride (`RideOK`), since a call writes
only the two slots behind it; and the writer's CRC is the store's continued by
exactly the append that is outstanding (`ContinuesOK`). The last two are what
`journal` asks for before it writes, so a retry is never turned away.
`ContentOK` adds the bytes. While a ride is mounted (`Disk`), the pages below
`flushed` hold its payload, but for one whose copy is owed, which the proof
named by the source holds; and a header newer than the ride is a proof without
its logical slot, of the command under way, or, once a write was
refused in the first boot, of the checkpoint still to be retried (`Attempt`).
`CommandTouches` says that a command, finished or not, changes no more than the
next two slots and the page that does not count, so `Disk` outlives it
(`DiskKept`). After a cut the newest candidate is therefore the source
(`CutRecoversOlder`) or the outstanding checkpoint written whole
(`CutRecoversNewer`); both start with what was acknowledged and are on the card,
which is `Recoverable`, and the mount turns it back into `Disk`. In a second
boot with refused writes, a newer header may belong to an attempt of another
boot, and this step fails, which is the counterexample of section 6.2. That the
payload stays within the reserve (`Bounded`) is why every page has a place.

*The argument for the update.* `TornSlotIsRepairable` needs to know that the
bootloader verified its source before it touched the slot and that nothing
replaced the source since (`BootSteps`), that the arm recorded a snapshot it
really took (`ArmSteps`), and in which states the slot may be on its way from
one image to the next (`SlotOnItsWay`). `BootInvariant` is their conjunction;
there is one lemma per action with one step per conjunct, `NextPreserves`
combines them, and the theorems follow with PTL. For `ConfirmedIsRunning`,
`MarkerBelongs` adds that the marker is of the arm the page is about, or of one
the page has a later generation than; since generations start again at 1 from
an `Idle` page, this takes that an arm from `Idle` finds no marker. A refused
write keeps this, for two reasons. The old page lets the next arm take the
generation behind it, which no marker has (`OldPageKeepsMarker`). And behind a page
the bootloader or a downgrade tore, the app does not arm before it has cleared
the marker (`TornPageKeepsMarker`). What does not keep it is what
`OldMarkersGo` rules out.

*The argument for the engine.* `EngineInvariant` has four parts. `CatalogPart`
keeps published entries as they were declared. `TablePart` gives a live transfer
exactly its reservation or hold, and to an upload
(`UploadPart`) what makes the checksum mean something: reservation and stage
together are as long as what was received, and the running sum is of exactly
these bytes, so that whichever way records and batches cut a payload,
`Acceptable` compares all of it; a map over USB has no sum, and of it only the
length is known. This holds in a fenced store too, where
`NothingLeaks` claims nothing. `PeerPart` says that the live transfer and the owed answer are two
answers two requests still wait for, which is the part a link that goes down
and comes back between two calls would break. `TurnPart` says that the watch
runs for a live transfer. `NoLostUpdate` is an action property: the
commit of an upload looks its head up again, and by the invariant the revision it
writes is the successor of that one.

*The argument for the cable.* Everything the USB task waits for passes through
one queue, so `Mail` says exactly what may be in it: behind a live driver the
deferred batch and the job awaited, in this order, and behind a driver that was
dropped what it had there and the report of the loss (`QueuePart`). An answered
wait then means an empty queue (`WaitPart`), which is why `release_engine` finds
nothing of the old driver behind its report, and why a join has no batch behind
it. A tag that is handed out is fresh because at most seven are about
(`TagIsFresh`). `BufferPart` follows the one buffer through these places; it is
in the lane just when the driver waits for no answer with it, so that the
`lane` a call needs is there. `ArenaPart` hands the arena from the grant of a
stage over a queued batch to the card's write, and gives it back only
behind an answered join, when nothing of this is left; `CardPart` counts what
the reservation holds and what the card is still writing as what
the engine has received.

*The banks.* Driver and engine each keep which bank is theirs and tell each
other only by batches, so that no copy goes under the DMA is a claim about both
counts. `BankPart` is the claim: of an upload that is still the cable's, the
bank being filled is the engine's next one, or the other one while a batch is
queued; what the card reads is the one before; and a bank is fresh while a batch
is deferred. An upload that was cancelled or refused leaves its write behind,
and the next PUT starts at bank 0 again. Hence the rest of `BankInvariant`.
`PutPart` and `LivePart` say that PUTs are served in order and that a live upload
is newer than any stage but its own, so it is still at its first bank when its
stage is granted. `AskedPart` carries what a queued question is about to its
answer. `EndPart` says that where a write outlives its upload (`Orphan`), the
answer that ends the stage is on its way to the driver or in its hands, and no
record is copied before it (`AtACopy`). Once the banks are known to be apart, the
bytes in them follow: `ByteInvariant` says that what a stage has in its bank, a
queued batch, the write under way and the reservation are each the client's units
at their offsets. A copy extends the first and disturbs none of the others; a batch
stands at the head of the queue, so nothing can come between its copy and its
service; and the engine takes it only at the offset it has reached.

*The argument for the recorder.* The invariant comes in three layers, each
proved with the one before as a hypothesis. `LoopInvariant` is the
hand-over between pass and executor: an operation is in flight exactly while its
effect or answer is, and the staging queue stands still meanwhile; it
needs no hypothesis and gives `TypeOK`. `SessionInvariant` is about whose object the
writer has: in which states of the recovery and on which screen a gesture may
ask for what (`StartPart`, `ScreenPart`, `ResumablePart`), so that a
session opens only over no object or over the one it continues (`WriterPart`).
Both cases that `OneAtATime` excludes end with a session that meets the object
of another (section 6). `RideInvariant` is then about samples: the
writer's ride followed by the samples it has not been sent is the session's
ride, whose counted fixes are the totals (`OursPart`), and each of the
continuation, the resume image, the footer, the object on the card and the
saved one has the totals of its own samples (`KeptPart`, `CardPart`).
`NothingStagedIsLost` and `SegmentsAreContinuous` are the order and the gaps of
that sequence (`Sound`), which a new sample extends because the
anchor is set and no break is due exactly when no fix lies between (`Joins`).

*Only model-checked*: liveness (`FailedTrialIsReplaced`, `BootEnds`,
`EveryTransferEnds`, `SaveCompletes`), since fairness and `ENABLED` are outside
the prover. Every safety property of a passing run is a theorem.

## 6. Findings

### 6.1 Findings with a run

Each of these is a run that TLC ends with a counterexample, against a sentence
of the repository. The quotations are in `PROJECT.json`.

1. `boot_outage`: the abandon budget of the bootloader does not know of a flash
   pass that already began, so a long card outage after it boots a half-written
   slot.
2. `recorder_settle`: a cut after the footer leaves a close for the boot to
   finish. When the store refuses it, the writer stays closing, the boot offers
   nothing, and the next ride opens no object; its Discard then removes the
   finished ride of before.

### 6.2 Findings that a change of constants shows

These do not belong to a run. The constants are those of the configuration named,
with the change given.

* `FlatStoreAtomic.cfg` with `"mount_read"` in `Faults` violates `ServesTruth`: a
  gate or body whose read fails at mount is skipped like an invalid one
  (`store.rs:1012`), so one failed block read serves the older catalog
  read-write. `specs/flat-store-format.md:362` and `:538` say otherwise.
* `RideJournal.cfg` with `Page = 2`, `Delta = 2`, `Reserve = 5`, `MaxRefusedBoots
  = 2`, `MaxIdle = 0`, `Faults = {"sync"}` violates `RecordedMatchesCrc`: a
  refused and retried rollover with two cuts pairs the logical slot of one
  attempt with the proof of another (`store.rs:1159`;
  `specs/flat-store-format.md:641`).
* `RideJournal.cfg` with `"header_read"` in `Faults` violates
  `AcknowledgedSurvives`: recovery takes a slot header that cannot be read for an
  empty slot.
* `BootUpdateOutage.cfg` with `"other_card"` instead of `"touched_outage"`
  violates `NeverJumpsTorn`: the verify pass of an interrupted install may read a
  card that is not the armed one.
* `BootUpdateFaults.cfg` with `ConfirmedIsRunning` as its invariant and `Faults =
  {"clear"}` violates it: a clear of the arm marker that fails
  after a rejected update, and a cut between the next arm's page and its marker
  (`settings.rs:234`, `:261`), leave the old marker with the generation of the new arm, and the
  boot says "updated" of the image that was rejected. With `{"page_torn"}`
  alone, a refused write of a running app that leaves no page, it is violated
  too.
* `Recorder.cfg` with `Batch = 2` violates `DiscardRemovesItsOwn`: a second press
  in the pass that asked for a ride opens the start card again, since no session
  is open yet, and a second Start puts a new session over the first. The object
  stays the first one's, the second records nothing, and its Discard removes it.

### 6.3 Read in the code, not stated as a property

* An arm begun while a trial is unconfirmed rewrites the carve
  (`settings.rs:190`); a failure there leaves a trial that can no longer be
  rolled back (`specs/obcu-update.md:400`).
* The answer a stall owes waits in `owed` until the link is polled, and the
  driver polls only after a record (`engine.rs:355`;
  `specs/flat-store-protocol.md:507`). `owed` is one slot, and a second
  answer replaces the first.
* A finished upload leaves `stall` as it was; the next transfer is told apart by
  its request id and byte count, which may repeat.
* The cable can have three jobs in the queue at once where `flat_store.rs:341`
  counts two. A record that arrives while the lane is lent ends the link
  (`HoldNoLane`), a record for an ended upload is dropped by a stale stage
  (`Foreign`), and staged bytes are no progress to the stall watch until their
  batch is written.
* A Save asked for after "save and restart" keeps the restart
  (`recorder.rs:552`). A fix in the pass of a Continue takes the segment start
  that `restore_continuation` meant for the first sample after the boot. A
  Discard that failed, followed by Finish, leaves a Save that does not complete
  (`ride_control.rs:119`). Resume while a Save is pending leaves the screens in
  Riding with no session (`pass.rs:607`).

## 7. Not modelled

* Byte layouts, CRC and signature arithmetic, decoding of maps, routes and
  terrain: data, on which the protocols do not branch beyond valid or not.
* Display, radio, endpoint and sensor drivers, bonding: register and
  vendor-stack I/O.
* The card scheduler, drawing, and the navigator's geometry.
* The catalog, metadata, navigator, settings and platform stages of a
  device-core pass, and the metadata view but for the engine's receipts of
  archived objects: planned (section 2).
* Host tools, planner, builder, simulator, companion app: run off the device.
  They are most of the repository's lines; the device's side of the protocols
  they use is in `LinkEngine` and `UsbLink`.
* In modelled components: LIST and STATUS of the engine, GET over the cable, the
  wrap of request tags, `patch_allocation`, `format_media` on a used card and
  `mounted_media_state` of the store; the resume image of the journal; the
  page's encoding and the image's release signature of the update; a cycle
  counter that does not count in the bootloader (its delays are taken to work).
