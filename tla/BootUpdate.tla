----------------------------- MODULE BootUpdate -----------------------------
(***************************************************************************)
(* The firmware update of obc-dfu: the app arms an update, the bootloader  *)
(* (obc-boot driving obc_dfu::engine) flashes it over the running image,   *)
(* the new image runs one trial boot, and a trial nobody confirms is       *)
(* rolled back to the snapshot the arm took.  The two programs never run   *)
(* at the same time; they talk through an RRAM page, and the power may go  *)
(* between any two of their steps.                                         *)
(*                                                                         *)
(* An image stands for its bytes, its header and its version string.  A    *)
(* StagedRef is the image it was made from: whether the card blocks it     *)
(* names still hold that image is `packages' for an update and `reserve'   *)
(* for a snapshot.                                                         *)
(***************************************************************************)
EXTENDS Naturals, FiniteSets

CONSTANTS
    Images,         \* firmware images
    Healthy,        \* the images that reach their first presented frame
    Factory,        \* the image a device is made with
    None,           \* Option::None
    Torn,           \* what a half-written app slot holds
    AbandonRounds,  \* ARM_ABANDON_ROUNDS
    FlashPasses,    \* 1 + FLASH_RETRIES
    MaxGeneration,  \* bound: the arm generation a page may reach
    MaxCuts,        \* bound: power cuts in a behaviour
    Faults          \* what may fail: see FaultKinds

FaultKinds ==
    {"card",         \* a bring-up or a block read of the card fails
     "rram",         \* a flash pass or its readback fails
     "page",         \* a write of the boot-state page returns an error
     "page_torn",    \* ... and leaves no page that decodes, although the
                     \* app that made the write runs on
     "marker",       \* the write of the arm marker fails
     "clear",        \* the clear of the arm marker fails
     "store",        \* the rollback reserve cannot be written
     "swd",          \* the slot is reflashed over the debug port
     "touched_outage",  \* the card fails AbandonRounds times in one boot
                        \* although the flash pass had begun
     "other_card"}   \* the card read during verify is not the armed one

ASSUME BootAssumption ==
    /\ Healthy \subseteq Images
    /\ Factory \in Healthy
    /\ None \notin Images
    /\ Torn \notin Images \cup {None}
    /\ AbandonRounds \in Nat \ {0}
    /\ FlashPasses \in Nat \ {0}
    /\ MaxGeneration \in Nat \ {0}
    /\ MaxCuts \in Nat
    /\ Faults \subseteq FaultKinds

VARIABLES
    slot,      \* the app slot
    page,      \* the boot-state page, as BootState::decode reads it
    marker,    \* the arm marker of the settings page
    blob,      \* the build whose sEMMC blob the carve validates to, or None
    package,   \* the update package the catalog lists, or None
    packages,  \* the images whose package blocks are still intact
    reserve,   \* the image in the rollback reserve, or None
    pc,        \* where the program that holds the core is
    rounds,    \* pre_erase_rounds of this boot
    passes,    \* flash passes used in this engine run
    dog,       \* the hardware watchdog is counting
    anchor,    \* trial_confirm_pending of this boot
    cached,    \* cached_staged: the ref of the last scan
    arming,    \* what the arm under way will record
    cuts       \* power cuts so far

flash == <<slot, blob>>
card  == <<package, packages, reserve>>
boot  == <<rounds, passes>>
app   == <<anchor, cached, arming>>
vars  == <<slot, page, marker, blob, package, packages, reserve, pc, rounds,
           passes, dog, anchor, cached, arming, cuts>>

-----------------------------------------------------------------------------
NotArming == [update |-> None, rollback |-> None]

(* The boot-state page.                                                    *)

Generations == 1 .. MaxGeneration

OutcomeKind == {"Installed", "RolledBack", "StageRejected", "ArmAbandoned"}

LastOutcome == [kind : OutcomeKind, generation : Generations]

Idle(installed, outcome) ==
    [tag |-> "Idle", generation |-> 0, installed |-> installed,
     update |-> None, rollback |-> None, outcome |-> outcome]

Armed(generation, update, rollback) ==
    [tag |-> "Armed", generation |-> generation, installed |-> None,
     update |-> update, rollback |-> rollback, outcome |-> None]

Trial(generation, installed, rollback) ==
    [tag |-> "Trial", generation |-> generation, installed |-> installed,
     update |-> None, rollback |-> rollback, outcome |-> None]

Ended(kind) == [kind |-> kind, generation |-> page.generation]

(* What a torn, blank or foreign page decodes to.                          *)
Blank == Idle(None, None)

Opt(S) == S \cup {None}

BootState ==
    {state \in [tag : {"Idle", "Armed", "Trial"},
                generation : 0 .. MaxGeneration,
                installed : Opt(Images),
                update : Opt(Images),
                rollback : Opt(Images),
                outcome : Opt(LastOutcome)] :
        /\ state.tag = "Idle" => state.generation = 0 /\ state.rollback = None
        /\ state.tag = "Armed" => state.generation # 0 /\ state.update # None
        /\ state.tag = "Trial" => state.generation # 0 /\ state.installed # None}

running_image ==
    IF page.tag = "Armed" THEN page.rollback ELSE page.installed

WritePage(state) == page' = state

(* A write of the page that returns an error left the old state or a torn  *)
(* one; either way the writer jumps, parks or clears the marker next.      *)
FailPage == "page" \in Faults /\ page' \in {page, Blank}

(* The same for an arm or a confirm, after which the app runs on and may   *)
(* arm again.                                                              *)
FailRunningPage ==
    \/ "page" \in Faults /\ page' = page
    \/ "page_torn" \in Faults /\ page' = Blank

-----------------------------------------------------------------------------
Init ==
    /\ slot = Factory /\ page = Blank /\ marker = None /\ blob = None
    /\ package = None /\ packages = {} /\ reserve = None
    /\ pc = "boot" /\ rounds = 0 /\ passes = 0 /\ dog = FALSE
    /\ anchor = TRUE /\ cached = None
    /\ arming = NotArming
    /\ cuts = 0

-----------------------------------------------------------------------------
(* The bootloader.                                                         *)

Installing == page.tag = "Armed"

(* The image the engine streams, and whether its blocks still hold it.     *)
source == IF Installing THEN page.update ELSE page.rollback

SourceIntact ==
    IF Installing THEN page.update \in packages ELSE reserve = page.rollback

(* The flash pass of this arm has begun, in this boot or in an earlier one *)
(* that was cut.  The bootloader keeps no record of it.                    *)
Touched ==
    Installing /\ slot \in {Torn, page.update} /\ slot # page.rollback

(* Mutant: a rejected stage records the header of the stage.               *)
mismatch_state_NamesUpdate ==
    IF Installing THEN Idle(page.update, Ended("StageRejected"))
                  ELSE Idle(page.installed, Ended("Installed"))

mismatch_state ==
    IF Installing THEN Idle(page.rollback, Ended("StageRejected"))
                  ELSE Idle(page.installed, Ended("Installed"))

success_state ==
    IF Installing THEN Trial(page.generation, page.update, page.rollback)
                  ELSE Idle(page.rollback, Ended("RolledBack"))

(* decide, and the check of the staged blob before the card loop.          *)
decide ==
    /\ pc = "boot"
    /\ pc' = CASE page.tag = "Idle" -> "start"
               [] page.tag = "Trial" /\ page.rollback = None -> "accept"
               [] OTHER -> IF blob # None THEN "init"
                           ELSE IF Installing THEN "abandon" ELSE "park"
    /\ UNCHANGED <<flash, page, marker, card, boot, dog, app, cuts>>

Jump == pc' = "start" /\ rounds' = 0 /\ passes' = 0

(* AcceptAndClear, the clear after a rejected stage, and abandon_arm: each *)
(* writes its Idle and jumps whether or not the write took.                *)
WriteAndJump(at, state) ==
    /\ pc = at
    /\ WritePage(state) \/ FailPage
    /\ Jump
    /\ UNCHANGED <<flash, marker, card, dog, app, cuts>>

AcceptAndClear ==
    WriteAndJump("accept", Idle(page.installed, Ended("Installed")))

StageRejected == WriteAndJump("reject", mismatch_state)

abandon_arm ==
    WriteAndJump("abandon", Idle(page.rollback, Ended("ArmAbandoned")))

try_init ==
    /\ pc = "init"
    /\ pc' = "verify"
    /\ UNCHANGED <<flash, page, marker, card, boot, dog, app, cuts>>

(* A failed bring-up, or a block read that fails in the verify pass: only  *)
(* an Install counts it, and gives up at the budget.                       *)
CardFails ==
    /\ pc \in {"init", "verify"}
    /\ "card" \in Faults
    /\ Touched /\ rounds + 1 >= AbandonRounds => "touched_outage" \in Faults
    /\ rounds' = IF Installing THEN rounds + 1 ELSE rounds
    /\ pc' = IF Installing /\ rounds' >= AbandonRounds THEN "abandon"
                                                       ELSE "init"
    /\ UNCHANGED <<flash, page, marker, card, passes, dog, app, cuts>>

(* Mutant: the stage is flashed without being read first.                  *)
verify_Unchecked ==
    /\ pc = "verify"
    /\ passes' = 0
    /\ pc' = "flash"
    /\ UNCHANGED <<flash, page, marker, card, rounds, dog, app, cuts>>

verify ==
    /\ pc = "verify"
    /\ SourceIntact
    /\ passes' = 0
    /\ pc' = "flash"
    /\ UNCHANGED <<flash, page, marker, card, rounds, dog, app, cuts>>

(* Mutant: a bad stage is taken for a card that cannot be read.            *)
VerifyMismatch_Retried ==
    /\ pc = "verify"
    /\ SourceIntact => "other_card" \in Faults
    /\ pc' = "init"
    /\ UNCHANGED <<flash, page, marker, card, boot, dog, app, cuts>>

VerifyMismatch ==
    /\ pc = "verify"
    /\ SourceIntact => "other_card" \in Faults
    /\ pc' = "reject"
    /\ UNCHANGED <<flash, page, marker, card, boot, dog, app, cuts>>

(* The first line a flash pass writes: the slot is half-written from here. *)
FlashBegins ==
    /\ pc = "flash"
    /\ slot' = Torn
    /\ passes' = passes + 1
    /\ pc' = "flashing"
    /\ UNCHANGED <<page, marker, blob, card, rounds, dog, app, cuts>>

(* A card read that fails inside a flash pass: SdError { pre_erase: false }*)
FlashCardFails ==
    /\ pc \in {"flash", "flashing"}
    /\ "card" \in Faults
    /\ pc' = "init"
    /\ UNCHANGED <<flash, page, marker, card, boot, dog, app, cuts>>

(* Mutant: one retry more than the budget.                                 *)
FlashFails_OneMore ==
    /\ pc = "flashing"
    /\ "rram" \in Faults
    /\ pc' = IF passes <= FlashPasses THEN "flash" ELSE "park"
    /\ UNCHANGED <<flash, page, marker, card, boot, dog, app, cuts>>

FlashFails ==
    /\ pc = "flashing"
    /\ "rram" \in Faults
    /\ pc' = IF passes < FlashPasses THEN "flash" ELSE "park"
    /\ UNCHANGED <<flash, page, marker, card, boot, dog, app, cuts>>

flash_verified ==
    /\ pc = "flashing"
    /\ slot' = source
    /\ pc' = "record"
    /\ UNCHANGED <<page, marker, blob, card, boot, dog, app, cuts>>

(* Mutant: the trial jump does not start the watchdog.                     *)
Installed_NoDog ==
    /\ pc = "record"
    /\ WritePage(success_state)
    /\ Jump
    /\ UNCHANGED <<flash, marker, card, dog, app, cuts>>

(* The success state is written, and the engine's Installed ends in the    *)
(* jump; only an Install's jump is a trial, made under the watchdog.       *)
Installed ==
    /\ pc = "record"
    /\ WritePage(success_state)
    /\ dog' = (dog \/ Installing)
    /\ Jump
    /\ UNCHANGED <<flash, marker, card, app, cuts>>

RecordFails ==
    /\ pc = "record"
    /\ FailPage
    /\ pc' = "park"
    /\ UNCHANGED <<flash, marker, card, boot, dog, app, cuts>>

-----------------------------------------------------------------------------
(* The app.  Only a healthy image gets as far as any of these.             *)

Runs(at) == pc = at /\ slot \in Healthy

AppPcs == {"start", "downgrade", "clear", "run", "confirm",
           "reserve", "stage", "arm", "marker", "reset"}

verdict ==
    CASE page.tag = "Trial" -> "TrialInProgress"
      [] page.tag = "Armed" -> "NotStarted"
      [] page.tag = "Idle" ->
           IF marker = None THEN "None"
           ELSE IF /\ page.outcome # None /\ page.outcome.generation = marker.generation
                   /\ page.outcome.kind = "Installed"
                THEN "Confirmed" ELSE "Reverted"

(* Once per boot, before the ride loop.                                    *)
reconcile_boot_outcome ==
    /\ Runs("start")
    /\ dog' = TRUE
    /\ pc' = CASE verdict \in {"TrialInProgress", "None"} -> "run"
               [] verdict = "NotStarted" -> "downgrade"
               [] OTHER -> "clear"
    /\ UNCHANGED <<flash, page, marker, card, boot, app, cuts>>

Downgrade ==
    /\ Runs("downgrade")
    /\ WritePage(Idle(page.rollback, None)) \/ FailPage
    /\ pc' = "clear"
    /\ UNCHANGED <<flash, marker, card, boot, dog, app, cuts>>

clear_arm_marker ==
    /\ Runs("clear")
    /\ marker' \in IF "clear" \in Faults THEN {None, marker} ELSE {None}
    /\ pc' = "run"
    /\ UNCHANGED <<flash, page, card, boot, dog, app, cuts>>

(* The health anchor, tried once: a first frame reached the glass.         *)
HealthAnchor ==
    /\ Runs("run")
    /\ anchor
    /\ anchor' = FALSE
    /\ pc' = IF page.tag = "Trial" THEN "confirm" ELSE "run"
    /\ UNCHANGED <<flash, page, marker, card, boot, dog, cached, arming, cuts>>

confirm_trial ==
    /\ Runs("confirm")
    /\ \/ /\ WritePage(Idle(page.installed, Ended("Installed")))
          /\ pc' = "clear"
       \/ FailRunningPage /\ pc' = "run"
    /\ UNCHANGED <<flash, marker, card, boot, dog, app, cuts>>

(* The link replaces the update package while the app runs, an arm under   *)
(* way included.  The blocks of the old one are free, and may be reused.   *)
Upload(image) ==
    /\ pc \in AppPcs \ {"start", "downgrade"} /\ slot \in Healthy
    /\ package # image
    /\ package' = image
    /\ packages' \in {packages \cup {image}, {image}}
    /\ UNCHANGED <<flash, page, marker, reserve, pc, boot, dog, app, cuts>>

(* A failed scan, one with no package to find included, drops the old ref. *)
run_scan ==
    /\ Runs("run")
    /\ cached' \in IF "card" \in Faults THEN {package, None} ELSE {package}
    /\ cached' # cached
    /\ UNCHANGED <<flash, page, marker, card, pc, boot, dog, anchor, arming,
                   cuts>>

rollback_source == IF page.tag = "Idle" THEN page.installed ELSE None

(* Mutant: the slot is snapshotted under the installed header unread.      *)
run_install_Unmatched ==
    /\ Runs("run")
    /\ page.generation < MaxGeneration
    /\ \E update \in {cached, package} \ {None} :
         /\ cached # None => update = cached
         /\ arming' = [update |-> update, rollback |-> rollback_source]
    /\ cached' = None
    /\ pc' = IF rollback_source # None THEN "reserve" ELSE "stage"
    /\ UNCHANGED <<flash, page, marker, card, boot, dog, anchor, cuts>>

(* The ref of the last scan arms the device, or a scan made now.  The page *)
(* names the running image and the slot still holds it: it is snapshotted. *)
run_install ==
    /\ Runs("run")
    /\ page.generation < MaxGeneration
    /\ \E update \in {cached, package} \ {None} :
         /\ cached # None => update = cached
         /\ arming' = [update |-> update,
                       rollback |-> IF slot = rollback_source THEN slot
                                                              ELSE None]
    /\ cached' = None
    /\ pc' = IF slot = rollback_source THEN "reserve" ELSE "stage"
    /\ UNCHANGED <<flash, page, marker, card, boot, dog, anchor, cuts>>

(* One commit publishes the new reserve and removes the old one.  The arm  *)
(* is dropped if the store refuses, and if the extents of the reserve it   *)
(* just committed cannot be read back.                                     *)
write_rollback ==
    /\ Runs("reserve")
    /\ \/ reserve' = slot /\ pc' = "stage" /\ UNCHANGED arming
       \/ /\ "store" \in Faults
          /\ reserve' \in {reserve, slot}
          /\ pc' = "run" /\ arming' = NotArming
    /\ UNCHANGED <<flash, page, marker, package, packages, boot, dog, anchor,
                   cached, cuts>>

(* The carve is left alone when it already holds this build's blob.        *)
stage_boot_blob ==
    /\ Runs("stage")
    /\ \/ blob' = slot /\ pc' = "arm" /\ UNCHANGED arming
       \/ /\ blob # slot /\ "rram" \in Faults
          /\ blob' = None
          /\ pc' = "run" /\ arming' = NotArming
    /\ UNCHANGED <<slot, page, marker, card, boot, dog, anchor, cached, cuts>>

(* Mutant: every arm has the same generation.                              *)
arm_SameGeneration ==
    /\ Runs("arm")
    /\ \/ /\ WritePage(Armed(1, arming.update, arming.rollback))
          /\ pc' = "marker"
       \/ FailRunningPage /\ pc' = "run"
    /\ arming' = NotArming
    /\ UNCHANGED <<flash, marker, card, boot, dog, anchor, cached, cuts>>

arm ==
    /\ Runs("arm")
    /\ \/ /\ WritePage(Armed(page.generation + 1, arming.update,
                             arming.rollback))
          /\ pc' = "marker"
       \/ FailRunningPage /\ pc' = "run"
    /\ arming' = NotArming
    /\ UNCHANGED <<flash, marker, card, boot, dog, anchor, cached, cuts>>

write_arm_marker ==
    /\ Runs("marker")
    /\ LET written == [generation |-> page.generation,
                       staged |-> page.update]
       IN  marker' \in IF "marker" \in Faults THEN {written, marker, None}
                                              ELSE {written}
    /\ pc' = "reset"
    /\ UNCHANGED <<flash, page, card, boot, dog, app, cuts>>

-----------------------------------------------------------------------------
(* Resets.  A warm reset keeps the watchdog counting; a power cut and the  *)
(* reset the watchdog itself fires do not.                                 *)

Restart(counting) ==
    /\ pc' = "boot" /\ rounds' = 0 /\ passes' = 0 /\ dog' = counting
    /\ anchor' = TRUE /\ cached' = None /\ arming' = NotArming
    /\ UNCHANGED card

sys_reset ==
    /\ Runs("reset")
    /\ Restart(TRUE)
    /\ UNCHANGED <<slot, page, marker, blob, cuts>>

(* An image that wedges before its first frame, under a counting watchdog. *)
DogFires ==
    /\ pc = "start"
    /\ slot \notin Healthy
    /\ dog
    /\ Restart(FALSE)
    /\ UNCHANGED <<slot, page, marker, blob, cuts>>

(* A power cut.  A line write it interrupts leaves a record that no longer *)
(* decodes; a flash pass it interrupts leaves the slot as it was.          *)
PowerCut ==
    /\ cuts < MaxCuts
    /\ cuts' = cuts + 1
    /\ page' \in IF pc \in {"accept", "reject", "abandon", "record",
                            "downgrade", "confirm", "arm"}
                 THEN {page, Blank} ELSE {page}
    /\ marker' \in IF pc \in {"clear", "marker"} THEN {marker, None}
                                                 ELSE {marker}
    /\ blob' \in IF pc = "stage" /\ blob # slot THEN {blob, None} ELSE {blob}
    /\ Restart(FALSE)
    /\ UNCHANGED slot

(* The debug port reflashes the slot of a device at rest: no arm is under  *)
(* way and no trial is running.                                            *)
Reflash(image) ==
    /\ "swd" \in Faults
    /\ pc = "run" /\ page.tag = "Idle" /\ marker = None
    /\ slot # image
    /\ slot' = image
    /\ Restart(FALSE)
    /\ UNCHANGED <<page, marker, blob, cuts>>

-----------------------------------------------------------------------------
BootStep ==
    \/ decide \/ AcceptAndClear \/ StageRejected \/ abandon_arm
    \/ try_init \/ CardFails \/ verify \/ VerifyMismatch
    \/ FlashBegins \/ FlashCardFails \/ FlashFails \/ flash_verified
    \/ Installed \/ RecordFails

AppStep ==
    \/ reconcile_boot_outcome \/ Downgrade \/ clear_arm_marker
    \/ HealthAnchor \/ confirm_trial
    \/ \E image \in Images : Upload(image)
    \/ run_scan \/ run_install \/ write_rollback \/ stage_boot_blob
    \/ arm \/ write_arm_marker \/ sys_reset

Next ==
    \/ BootStep
    \/ AppStep
    \/ DogFires
    \/ PowerCut
    \/ \E image \in Images : Reflash(image)

Spec == Init /\ [][Next]_vars

(* The bootloader is one straight line of code, so every step it can take  *)
(* is taken; the watchdog of a wedged image fires.  A card that is pulled  *)
(* or glitches comes back: the pass that needs it does not fail forever.   *)
Fairness ==
    /\ WF_vars(BootStep) /\ WF_vars(DogFires)
    /\ SF_vars(try_init) /\ SF_vars(verify) /\ SF_vars(VerifyMismatch)
    /\ SF_vars(FlashBegins) /\ SF_vars(flash_verified)

FairSpec == Spec /\ Fairness

-----------------------------------------------------------------------------
(* Properties.                                                             *)

(* Every field keeps its type: the page is always one of the states that   *)
(* BootState::encode can write, and the bootloader's two counters stay     *)
(* within ARM_ABANDON_ROUNDS and the flash passes of one engine run.       *)
TypeOK ==
    /\ slot \in Images \cup {Torn}
    /\ page \in BootState
    /\ marker \in Opt([generation : Generations, staged : Images])
    /\ blob \in Opt(Images)
    /\ package \in Opt(Images)
    /\ packages \in SUBSET Images
    /\ reserve \in Opt(Images)
    /\ pc \in AppPcs \cup {"boot", "accept", "reject", "abandon", "init",
                           "verify", "flash", "flashing", "record", "park"}
    /\ rounds \in 0 .. AbandonRounds
    /\ passes \in 0 .. FlashPasses
    /\ dog \in BOOLEAN /\ anchor \in BOOLEAN
    /\ cached \in Opt(Images)
    /\ arming \in [update : Opt(Images), rollback : Opt(Images)]
    /\ cuts \in 0 .. MaxCuts

(* A half-written slot is always repairable: no program but the bootloader *)
(* runs, and the page still names an image whose card blocks are intact,   *)
(* behind a blob the bootloader can reach the card through.  Whatever cut, *)
(* card error or flash error comes next, the following boot flashes it.    *)
TornSlotIsRepairable ==
    slot = Torn =>
        /\ pc \notin AppPcs
        /\ page.tag # "Idle"
        /\ source # None
        /\ SourceIntact
        /\ blob # None

(* The bootloader never jumps into a half-written slot: obc-boot/main.rs   *)
(* says of the retry budget that only failures before the flash pass       *)
(* count, "when the slot is provably untouched".                           *)
NeverJumpsTorn == pc \in AppPcs => slot # Torn

(* While the app runs, an image the page says is running is the image in   *)
(* the slot, through every install, rejection, abandon, rollback and cut:  *)
(* it is what the next arm snapshots.                                      *)
RunningImageTruthful ==
    pc \in AppPcs /\ running_image # None => slot = running_image

(* A snapshot the page names is in the reserve, and is the image of a      *)
(* device that was running: an unconfirmed trial has something good to go  *)
(* back to, however many arms, uploads and cuts came before.               *)
SnapshotIsRestorable ==
    page.rollback # None => reserve = page.rollback /\ reserve \in Healthy

(* What the bootloader has established at each of its steps.               *)
BootSteps ==
    /\ pc = "accept" => page.tag = "Trial" /\ page.rollback = None
    /\ pc \in {"reject", "abandon"} => Installing
    /\ pc \in {"boot", "init", "verify", "flash", "flashing"} =>
         rounds < AbandonRounds
    /\ pc = "flash" => passes < FlashPasses
    /\ pc \in {"init", "verify", "reject", "flash", "flashing", "record"} =>
         /\ page.tag # "Idle" /\ source # None
         /\ blob # None
    /\ pc \in {"flash", "flashing", "record"} => SourceIntact
    /\ pc = "flashing" => slot = Torn
    /\ pc \in {"accept", "reject", "abandon", "record"} => slot # Torn
    /\ pc = "record" => slot = source

(* What the arm under way has established at each of its steps.            *)
ArmSteps ==
    /\ pc = "reserve" => arming.rollback = slot
    /\ pc \in {"reserve", "stage", "arm"} =>
         arming.update # None /\ page.generation < MaxGeneration
    /\ pc \in {"stage", "arm"} /\ arming.rollback # None =>
         reserve = arming.rollback /\ slot = arming.rollback
    /\ pc = "reserve" => page.tag = "Idle"
    /\ pc = "arm" => blob # None
    /\ pc = "confirm" => page.tag = "Trial"
    /\ pc \in {"downgrade", "marker"} => Installing
    /\ pc \in AppPcs \ {"start"} => slot \in Healthy

(* Where the slot may be on its way from one image to the next.            *)
SlotOnItsWay ==
    /\ page.tag = "Idle" /\ page.installed # None => slot = page.installed
    /\ page.tag = "Trial" =>
         \/ slot = page.installed
         \/ page.rollback # None /\ slot \in {Torn, page.rollback}
              /\ pc \notin AppPcs
    /\ Installing /\ page.rollback # None =>
         \/ slot = page.rollback
         \/ /\ slot \in {Torn, page.update}
            /\ page.update \in packages
            /\ blob # None
            /\ pc \notin AppPcs \cup {"abandon", "reject"}

(* The inductive invariant of the update, for a device nobody reflashes    *)
(* and a card that comes back, and is the same one, once a flash began.    *)
BootInvariant ==
    /\ TypeOK
    /\ TornSlotIsRepairable
    /\ SnapshotIsRestorable
    /\ BootSteps
    /\ ArmSteps
    /\ SlotOnItsWay

(* "Updated to X" is only ever said while X is what runs, at the boot that *)
(* reads the marker an earlier boot left.  The marker and the page are     *)
(* written apart, and only the generation ties them together.              *)
ConfirmedIsRunning ==
    pc = "start" /\ verdict = "Confirmed" => slot = marker.staged

(* A trial image that cannot reach its first frame, and for which there is *)
(* a snapshot, does not stay: the watchdog brings the bootloader back and  *)
(* the snapshot is flashed, or the device parks and says so.               *)
FailedTrialIsReplaced ==
    page.tag = "Trial" /\ page.rollback # None /\ slot \notin Healthy
        ~> slot \in Healthy \/ pc = "park"

(* Every boot ends: in the app, or parked on SOS.  The card may fail any   *)
(* number of times on the way.                                             *)
BootEnds == pc = "boot" ~> pc \in {"start", "park"}
=============================================================================
