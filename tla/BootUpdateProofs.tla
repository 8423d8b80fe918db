-------------------------- MODULE BootUpdateProofs --------------------------
(***************************************************************************)
(* Why no interrupted update loses the device: BootInvariant is inductive, *)
(* and with it a half-written slot is always repairable and never run.     *)
(* One lemma per action, one step per conjunct of the invariant; the       *)
(* theorems are at the end.                                                *)
(***************************************************************************)
EXTENDS BootUpdate, TLAPS

(* The card comes back within the retry budget once a flash pass began, it *)
(* is the card that was armed, and nobody reflashes the slot over the      *)
(* debug port.  The run boot_outage shows what happens without the first.  *)
GoodCard == {"touched_outage", "other_card", "swd"} \cap Faults = {}

(* The device leaves the factory in a state of the invariant.              *)
LEMMA InitEstablishes == ASSUME Init PROVE BootInvariant
<1>1. TypeOK
  <2>1. dog \in BOOLEAN /\ anchor \in BOOLEAN
    BY Zenon DEF Init
  <2>2. page \in BootState
    BY BootAssumption DEF Init, BootState, Blank, Idle, Opt
  <2> QED
    BY <2>1, <2>2, BootAssumption DEF Init, TypeOK, Opt, NotArming, AppPcs
<1>2. TornSlotIsRepairable /\ SnapshotIsRestorable
  BY BootAssumption DEF Init, TornSlotIsRepairable, SnapshotIsRestorable,
     Blank, Idle
<1>3. BootSteps /\ ArmSteps /\ SlotOnItsWay
  BY BootAssumption DEF Init, BootSteps, ArmSteps, SlotOnItsWay, Blank, Idle,
     AppPcs, Installing
<1> QED
  BY <1>1, <1>2, <1>3 DEF BootInvariant

-----------------------------------------------------------------------------
(* The bootloader.                                                         *)

(* decide only reads: it branches on the page and the carve.               *)
LEMMA decidePreserves ==
    ASSUME BootInvariant, decide, GoodCard
    PROVE  BootInvariant'
<1>1. TypeOK'
  BY DEF BootInvariant, TypeOK, AppPcs, flash, card, boot, app, decide
<1>2. TornSlotIsRepairable'
  BY DEF BootInvariant, TornSlotIsRepairable, AppPcs, source, SourceIntact,
     Installing, flash, card, decide
<1>3. SnapshotIsRestorable'
  BY DEF BootInvariant, SnapshotIsRestorable, card, decide
<1>4. BootSteps'
  BY DEF BootInvariant, TypeOK, TornSlotIsRepairable, BootSteps, BootState,
     source, Installing, flash, boot, decide
<1>5. ArmSteps'
  BY DEF BootInvariant, ArmSteps, AppPcs, decide
<1>6. SlotOnItsWay'
  BY DEF BootInvariant, SlotOnItsWay, AppPcs, Installing, flash, card, decide
<1> QED
  BY <1>1, <1>2, <1>3, <1>4, <1>5, <1>6 DEF BootInvariant

(* A trial without a snapshot is accepted; the page names the trial image. *)
LEMMA AcceptAndClearPreserves ==
    ASSUME BootInvariant, AcceptAndClear, GoodCard
    PROVE  BootInvariant'
<1>1. TypeOK'
  BY BootAssumption DEF BootInvariant, TypeOK, BootSteps, BootState, Opt,
     LastOutcome, OutcomeKind, Generations, AppPcs, flash, card, app,
     WriteAndJump, WritePage, FailPage, Jump, Ended, Idle, Blank,
     AcceptAndClear
<1>2. TornSlotIsRepairable'
  BY DEF BootInvariant, TornSlotIsRepairable, BootSteps, flash, WriteAndJump,
     WritePage, FailPage, Jump, Ended, Idle, Blank, AcceptAndClear
<1>3. SnapshotIsRestorable'
  BY DEF BootInvariant, SnapshotIsRestorable, BootSteps, WriteAndJump,
     WritePage, FailPage, Jump, Ended, Idle, Blank, AcceptAndClear
<1>4. BootSteps'
  BY DEF BootInvariant, BootSteps, WriteAndJump, WritePage, FailPage, Jump,
     Ended, Idle, Blank, AcceptAndClear
<1>5. ArmSteps'
  BY DEF BootInvariant, ArmSteps, WriteAndJump, WritePage, FailPage, Jump,
     Ended, Idle, Blank, AcceptAndClear
<1>6. SlotOnItsWay'
  BY DEF BootInvariant, BootSteps, SlotOnItsWay, flash, WriteAndJump,
     WritePage, FailPage, Jump, Ended, Idle, Blank, AcceptAndClear
<1> QED
  BY <1>1, <1>2, <1>3, <1>4, <1>5, <1>6 DEF BootInvariant

(* A rejected stage goes back to Idle over an untouched slot.              *)
LEMMA StageRejectedPreserves ==
    ASSUME BootInvariant, StageRejected, GoodCard
    PROVE  BootInvariant'
<1>1. TypeOK'
  BY BootAssumption DEF BootInvariant, TypeOK, BootSteps, BootState, Opt,
     LastOutcome, OutcomeKind, Generations, AppPcs, flash, card, app,
     WriteAndJump, WritePage, FailPage, Jump, Ended, Idle, Blank,
     mismatch_state, StageRejected
<1>2. TornSlotIsRepairable'
  BY DEF BootInvariant, TornSlotIsRepairable, BootSteps, flash, WriteAndJump,
     WritePage, FailPage, Jump, Ended, Idle, Blank, mismatch_state,
     StageRejected
<1>3. SnapshotIsRestorable'
  BY DEF BootInvariant, SnapshotIsRestorable, card, WriteAndJump, WritePage,
     FailPage, Jump, Ended, Idle, Blank, mismatch_state, StageRejected
<1>4. BootSteps'
  BY DEF BootInvariant, BootSteps, WriteAndJump, WritePage, FailPage, Jump,
     Ended, Idle, Blank, mismatch_state, StageRejected
<1>5. ArmSteps'
  BY DEF BootInvariant, ArmSteps, WriteAndJump, WritePage, FailPage, Jump,
     Ended, Idle, Blank, mismatch_state, StageRejected
<1>6. SlotOnItsWay'
  BY DEF BootInvariant, BootSteps, SlotOnItsWay, Installing, flash,
     WriteAndJump, WritePage, FailPage, Jump, Ended, Idle, Blank,
     mismatch_state, StageRejected
<1> QED
  BY <1>1, <1>2, <1>3, <1>4, <1>5, <1>6 DEF BootInvariant

(* An abandoned arm goes back to Idle over an untouched slot.              *)
LEMMA abandon_armPreserves ==
    ASSUME BootInvariant, abandon_arm, GoodCard
    PROVE  BootInvariant'
<1>1. TypeOK'
  BY BootAssumption DEF BootInvariant, TypeOK, BootSteps, BootState, Opt,
     LastOutcome, OutcomeKind, Generations, AppPcs, Installing, flash, card,
     app, WriteAndJump, WritePage, FailPage, Jump, Ended, Idle, Blank,
     abandon_arm
<1>2. TornSlotIsRepairable'
  BY DEF BootInvariant, TornSlotIsRepairable, BootSteps, flash, WriteAndJump,
     WritePage, FailPage, Jump, Ended, Idle, Blank, abandon_arm
<1>3. SnapshotIsRestorable'
  BY DEF BootInvariant, SnapshotIsRestorable, card, WriteAndJump, WritePage,
     FailPage, Jump, Ended, Idle, Blank, abandon_arm
<1>4. BootSteps'
  BY DEF BootInvariant, BootSteps, WriteAndJump, WritePage, FailPage, Jump,
     Ended, Idle, Blank, abandon_arm
<1>5. ArmSteps'
  BY DEF BootInvariant, ArmSteps, WriteAndJump, WritePage, FailPage, Jump,
     Ended, Idle, Blank, abandon_arm
<1>6. SlotOnItsWay'
  BY DEF BootInvariant, BootSteps, SlotOnItsWay, Installing, flash,
     WriteAndJump, WritePage, FailPage, Jump, Ended, Idle, Blank, abandon_arm
<1> QED
  BY <1>1, <1>2, <1>3, <1>4, <1>5, <1>6 DEF BootInvariant

(* A bring-up changes nothing the invariant speaks of.                     *)
LEMMA try_initPreserves ==
    ASSUME BootInvariant, try_init, GoodCard
    PROVE  BootInvariant'
<1>1. TypeOK'
  BY DEF BootInvariant, TypeOK, flash, card, boot, app, try_init
<1>2. TornSlotIsRepairable'
  BY DEF BootInvariant, TornSlotIsRepairable, AppPcs, source, SourceIntact,
     Installing, flash, card, try_init
<1>3. SnapshotIsRestorable'
  BY DEF BootInvariant, SnapshotIsRestorable, card, try_init
<1>4. BootSteps'
  BY DEF BootInvariant, BootSteps, source, Installing, flash, boot, try_init
<1>5. ArmSteps'
  BY DEF BootInvariant, ArmSteps, AppPcs, try_init
<1>6. SlotOnItsWay'
  BY DEF BootInvariant, SlotOnItsWay, AppPcs, Installing, flash, card,
     try_init
<1> QED
  BY <1>1, <1>2, <1>3, <1>4, <1>5, <1>6 DEF BootInvariant

(* A failing card is counted; GoodCard keeps a touched slot from being     *)
(* abandoned.                                                              *)
LEMMA CardFailsPreserves ==
    ASSUME BootInvariant, CardFails, GoodCard
    PROVE  BootInvariant'
<1>1. TypeOK'
  BY BootAssumption DEF BootInvariant, TypeOK, BootSteps, flash, card, app,
     Touched, CardFails
<1>2. TornSlotIsRepairable'
  BY DEF BootInvariant, TornSlotIsRepairable, AppPcs, source, SourceIntact,
     Installing, flash, card, Touched, CardFails
<1>3. SnapshotIsRestorable'
  BY DEF BootInvariant, SnapshotIsRestorable, card, Touched, CardFails
<1>4. BootSteps'
  BY BootAssumption DEF BootInvariant, GoodCard, SnapshotIsRestorable,
     BootSteps, source, Installing, flash, Touched, CardFails
<1>5. ArmSteps'
  BY DEF BootInvariant, ArmSteps, AppPcs, Touched, CardFails
<1>6. SlotOnItsWay'
  BY DEF BootInvariant, GoodCard, SlotOnItsWay, AppPcs, Installing, flash,
     card, Touched, CardFails
<1> QED
  BY <1>1, <1>2, <1>3, <1>4, <1>5, <1>6 DEF BootInvariant

(* Verify establishes that the source is intact before the slot is         *)
(* touched.                                                                *)
LEMMA verifyPreserves ==
    ASSUME BootInvariant, verify, GoodCard
    PROVE  BootInvariant'
<1>1. TypeOK'
  BY BootAssumption DEF BootInvariant, TypeOK, flash, card, app, verify
<1>2. TornSlotIsRepairable'
  BY DEF BootInvariant, TornSlotIsRepairable, AppPcs, source, SourceIntact,
     Installing, flash, card, verify
<1>3. SnapshotIsRestorable'
  BY DEF BootInvariant, SnapshotIsRestorable, card, verify
<1>4. BootSteps'
  BY BootAssumption DEF BootInvariant, BootSteps, source, SourceIntact,
     Installing, flash, card, verify
<1>5. ArmSteps'
  BY DEF BootInvariant, ArmSteps, AppPcs, verify
<1>6. SlotOnItsWay'
  BY DEF BootInvariant, SlotOnItsWay, AppPcs, Installing, flash, card, verify
<1> QED
  BY <1>1, <1>2, <1>3, <1>4, <1>5, <1>6 DEF BootInvariant

(* A mismatch can only be found over an untouched slot, by GoodCard.       *)
LEMMA VerifyMismatchPreserves ==
    ASSUME BootInvariant, VerifyMismatch, GoodCard
    PROVE  BootInvariant'
<1>1. TypeOK'
  BY DEF BootInvariant, TypeOK, flash, card, boot, app, VerifyMismatch
<1>2. TornSlotIsRepairable'
  BY DEF BootInvariant, GoodCard, TornSlotIsRepairable, flash, VerifyMismatch
<1>3. SnapshotIsRestorable'
  BY DEF BootInvariant, SnapshotIsRestorable, card, VerifyMismatch
<1>4. BootSteps'
  BY DEF BootInvariant, GoodCard, TornSlotIsRepairable, SnapshotIsRestorable,
     BootSteps, source, SourceIntact, Installing, flash, VerifyMismatch
<1>5. ArmSteps'
  BY DEF BootInvariant, ArmSteps, AppPcs, VerifyMismatch
<1>6. SlotOnItsWay'
  BY DEF BootInvariant, GoodCard, SlotOnItsWay, AppPcs, SourceIntact,
     Installing, flash, VerifyMismatch
<1> QED
  BY <1>1, <1>2, <1>3, <1>4, <1>5, <1>6 DEF BootInvariant

(* The slot tears behind a page, a source and a carve that can repair it.  *)
LEMMA FlashBeginsPreserves ==
    ASSUME BootInvariant, FlashBegins, GoodCard
    PROVE  BootInvariant'
<1>1. TypeOK'
  BY BootAssumption DEF BootInvariant, TypeOK, BootSteps, card, app,
     FlashBegins
<1>2. TornSlotIsRepairable'
  BY DEF BootInvariant, TornSlotIsRepairable, BootSteps, AppPcs, source,
     SourceIntact, Installing, card, FlashBegins
<1>3. SnapshotIsRestorable'
  BY DEF BootInvariant, SnapshotIsRestorable, card, FlashBegins
<1>4. BootSteps'
  BY DEF BootInvariant, BootSteps, source, SourceIntact, Installing, card,
     FlashBegins
<1>5. ArmSteps'
  BY DEF BootInvariant, ArmSteps, AppPcs, FlashBegins
<1>6. SlotOnItsWay'
  BY DEF BootInvariant, BootSteps, SlotOnItsWay, AppPcs, source,
     SourceIntact, Installing, card, FlashBegins
<1> QED
  BY <1>1, <1>2, <1>3, <1>4, <1>5, <1>6 DEF BootInvariant

(* A card error inside a flash pass goes back to the card loop.            *)
LEMMA FlashCardFailsPreserves ==
    ASSUME BootInvariant, FlashCardFails, GoodCard
    PROVE  BootInvariant'
<1>1. TypeOK'
  BY DEF BootInvariant, TypeOK, flash, card, boot, app, FlashCardFails
<1>2. TornSlotIsRepairable'
  BY DEF BootInvariant, TornSlotIsRepairable, AppPcs, source, SourceIntact,
     Installing, flash, card, FlashCardFails
<1>3. SnapshotIsRestorable'
  BY DEF BootInvariant, SnapshotIsRestorable, card, FlashCardFails
<1>4. BootSteps'
  BY DEF BootInvariant, BootSteps, source, Installing, flash, boot,
     FlashCardFails
<1>5. ArmSteps'
  BY DEF BootInvariant, ArmSteps, AppPcs, FlashCardFails
<1>6. SlotOnItsWay'
  BY DEF BootInvariant, SlotOnItsWay, AppPcs, Installing, flash, card,
     FlashCardFails
<1> QED
  BY <1>1, <1>2, <1>3, <1>4, <1>5, <1>6 DEF BootInvariant

(* A flash error retries within the budget, or parks.                      *)
LEMMA FlashFailsPreserves ==
    ASSUME BootInvariant, FlashFails, GoodCard
    PROVE  BootInvariant'
<1>1. TypeOK'
  BY DEF BootInvariant, TypeOK, flash, card, boot, app, FlashFails
<1>2. TornSlotIsRepairable'
  BY DEF BootInvariant, TornSlotIsRepairable, AppPcs, source, SourceIntact,
     Installing, flash, card, FlashFails
<1>3. SnapshotIsRestorable'
  BY DEF BootInvariant, SnapshotIsRestorable, card, FlashFails
<1>4. BootSteps'
  BY DEF BootInvariant, BootSteps, source, SourceIntact, Installing, flash,
     card, boot, FlashFails
<1>5. ArmSteps'
  BY DEF BootInvariant, ArmSteps, AppPcs, FlashFails
<1>6. SlotOnItsWay'
  BY DEF BootInvariant, SlotOnItsWay, AppPcs, Installing, flash, card,
     FlashFails
<1> QED
  BY <1>1, <1>2, <1>3, <1>4, <1>5, <1>6 DEF BootInvariant

(* A verified pass leaves the source in the slot.                          *)
LEMMA flash_verifiedPreserves ==
    ASSUME BootInvariant, flash_verified, GoodCard
    PROVE  BootInvariant'
<1>1. TypeOK'
  BY DEF BootInvariant, TypeOK, BootSteps, Opt, source, SourceIntact, card,
     boot, app, flash_verified
<1>2. TornSlotIsRepairable'
  BY BootAssumption DEF BootInvariant, TypeOK, TornSlotIsRepairable,
     BootSteps, Opt, source, SourceIntact, flash_verified
<1>3. SnapshotIsRestorable'
  BY DEF BootInvariant, SnapshotIsRestorable, card, flash_verified
<1>4. BootSteps'
  BY BootAssumption DEF BootInvariant, TypeOK, BootSteps, Opt, source,
     SourceIntact, Installing, card, flash_verified
<1>5. ArmSteps'
  BY DEF BootInvariant, ArmSteps, AppPcs, flash_verified
<1>6. SlotOnItsWay'
  BY BootAssumption DEF BootInvariant, SnapshotIsRestorable, BootSteps,
     SlotOnItsWay, AppPcs, source, Installing, card, flash_verified
<1> QED
  BY <1>1, <1>2, <1>3, <1>4, <1>5, <1>6 DEF BootInvariant

(* The success state names what was just flashed.                          *)
LEMMA InstalledPreserves ==
    ASSUME BootInvariant, Installed, GoodCard
    PROVE  BootInvariant'
<1>1. TypeOK'
  BY BootAssumption DEF BootInvariant, TypeOK, BootSteps, BootState, Opt,
     LastOutcome, OutcomeKind, Generations, AppPcs, Installing, flash, card,
     app, WritePage, Jump, success_state, Ended, Idle, Trial, Installed
<1>2. TornSlotIsRepairable'
  BY DEF BootInvariant, TornSlotIsRepairable, BootSteps, flash, WritePage,
     Jump, success_state, Ended, Idle, Trial, Installed
<1>3. SnapshotIsRestorable'
  BY DEF BootInvariant, SnapshotIsRestorable, card, WritePage, Jump,
     success_state, Ended, Idle, Trial, Installed
<1>4. BootSteps'
  BY DEF BootInvariant, BootSteps, WritePage, Jump, success_state, Ended,
     Idle, Trial, Installed
<1>5. ArmSteps'
  BY DEF BootInvariant, ArmSteps, WritePage, Jump, success_state, Ended,
     Idle, Trial, Installed
<1>6. SlotOnItsWay'
  BY DEF BootInvariant, BootSteps, SlotOnItsWay, source, Installing, flash,
     WritePage, Jump, success_state, Ended, Idle, Trial, Installed
<1> QED
  BY <1>1, <1>2, <1>3, <1>4, <1>5, <1>6 DEF BootInvariant

(* A failed record of the success leaves the page, or a torn one, and      *)
(* parks.                                                                  *)
LEMMA RecordFailsPreserves ==
    ASSUME BootInvariant, RecordFails, GoodCard
    PROVE  BootInvariant'
<1>1. TypeOK'
  BY BootAssumption DEF BootInvariant, TypeOK, BootState, Opt, flash, card,
     boot, app, FailPage, Idle, Blank, RecordFails
<1>2. TornSlotIsRepairable'
  BY DEF BootInvariant, TornSlotIsRepairable, BootSteps, flash, FailPage,
     Idle, Blank, RecordFails
<1>3. SnapshotIsRestorable'
  BY DEF BootInvariant, SnapshotIsRestorable, card, FailPage, Idle, Blank,
     RecordFails
<1>4. BootSteps'
  BY DEF BootInvariant, BootSteps, FailPage, Idle, Blank, RecordFails
<1>5. ArmSteps'
  BY DEF BootInvariant, ArmSteps, AppPcs, FailPage, Idle, Blank, RecordFails
<1>6. SlotOnItsWay'
  BY DEF BootInvariant, SlotOnItsWay, AppPcs, Installing, flash, card,
     FailPage, Idle, Blank, RecordFails
<1> QED
  BY <1>1, <1>2, <1>3, <1>4, <1>5, <1>6 DEF BootInvariant

-----------------------------------------------------------------------------
(* The app.                                                                *)

(* The verdict only chooses what the app does next.                        *)
LEMMA reconcile_boot_outcomePreserves ==
    ASSUME BootInvariant, reconcile_boot_outcome, GoodCard
    PROVE  BootInvariant'
<1>1. TypeOK'
  BY DEF BootInvariant, TypeOK, AppPcs, flash, card, boot, app, Runs,
     verdict, reconcile_boot_outcome
<1>2. TornSlotIsRepairable'
  BY DEF BootInvariant, TypeOK, TornSlotIsRepairable, flash, Runs, verdict,
     reconcile_boot_outcome
<1>3. SnapshotIsRestorable'
  BY DEF BootInvariant, SnapshotIsRestorable, card, Runs, verdict,
     reconcile_boot_outcome
<1>4. BootSteps'
  BY DEF BootInvariant, BootSteps, Runs, verdict, reconcile_boot_outcome
<1>5. ArmSteps'
  <2>1. page.tag \in {"Idle", "Armed", "Trial"}
    BY DEF BootInvariant, TypeOK, BootState
  <2>2. /\ pc' \in {"run", "downgrade", "clear"}
        /\ pc' = "downgrade" => Installing
    BY <2>1 DEF reconcile_boot_outcome, verdict, Installing
  <2>3. /\ pc = "start" /\ slot \in Healthy
        /\ UNCHANGED <<flash, page, marker, card, boot, app>>
    BY DEF reconcile_boot_outcome, Runs
  <2> QED
    BY <2>2, <2>3 DEF BootInvariant, ArmSteps, Installing, flash, card, boot, app
<1>6. SlotOnItsWay'
  BY DEF BootInvariant, TypeOK, SlotOnItsWay, Installing, flash, Runs,
     verdict, reconcile_boot_outcome
<1> QED
  BY <1>1, <1>2, <1>3, <1>4, <1>5, <1>6 DEF BootInvariant

(* An arm the bootloader never consumed is downgraded to Idle.             *)
LEMMA DowngradePreserves ==
    ASSUME BootInvariant, Downgrade, GoodCard
    PROVE  BootInvariant'
<1>1. TypeOK'
  BY BootAssumption DEF BootInvariant, TypeOK, BootState, Opt, AppPcs, flash,
     card, boot, app, Runs, WritePage, FailPage, Idle, Blank, Downgrade
<1>2. TornSlotIsRepairable'
  BY DEF BootInvariant, TypeOK, TornSlotIsRepairable, flash, Runs, WritePage,
     FailPage, Idle, Blank, Downgrade
<1>3. SnapshotIsRestorable'
  BY DEF BootInvariant, SnapshotIsRestorable, card, Runs, WritePage,
     FailPage, Idle, Blank, Downgrade
<1>4. BootSteps'
  BY DEF BootInvariant, BootSteps, Runs, WritePage, FailPage, Idle, Blank,
     Downgrade
<1>5. ArmSteps'
  BY DEF BootInvariant, ArmSteps, flash, Runs, WritePage, FailPage, Idle,
     Blank, Downgrade
<1>6. SlotOnItsWay'
  BY DEF BootInvariant, TypeOK, ArmSteps, SlotOnItsWay, flash, Runs,
     WritePage, FailPage, Idle, Blank, Downgrade
<1> QED
  BY <1>1, <1>2, <1>3, <1>4, <1>5, <1>6 DEF BootInvariant

(* The marker is not part of the argument.                                 *)
LEMMA clear_arm_markerPreserves ==
    ASSUME BootInvariant, clear_arm_marker, GoodCard
    PROVE  BootInvariant'
<1>1. TypeOK'
  BY DEF BootInvariant, TypeOK, Opt, AppPcs, flash, card, boot, app, Runs,
     clear_arm_marker
<1>2. TornSlotIsRepairable'
  BY DEF BootInvariant, TypeOK, TornSlotIsRepairable, flash, Runs,
     clear_arm_marker
<1>3. SnapshotIsRestorable'
  BY DEF BootInvariant, SnapshotIsRestorable, card, Runs, clear_arm_marker
<1>4. BootSteps'
  BY DEF BootInvariant, BootSteps, Runs, clear_arm_marker
<1>5. ArmSteps'
  BY DEF BootInvariant, ArmSteps, flash, Runs, clear_arm_marker
<1>6. SlotOnItsWay'
  BY DEF BootInvariant, TypeOK, SlotOnItsWay, Installing, flash, Runs,
     clear_arm_marker
<1> QED
  BY <1>1, <1>2, <1>3, <1>4, <1>5, <1>6 DEF BootInvariant

(* The health anchor only leads to the confirm.                            *)
LEMMA HealthAnchorPreserves ==
    ASSUME BootInvariant, HealthAnchor, GoodCard
    PROVE  BootInvariant'
<1>1. TypeOK'
  <2>1. dog' \in BOOLEAN /\ anchor' \in BOOLEAN
    BY Zenon DEF BootInvariant, TypeOK, app, HealthAnchor, Runs
  <2>2. pc' \in {"boot", "run", "confirm"} /\ cuts' \in 0 .. MaxCuts
    BY DEF BootInvariant, TypeOK, AppPcs, flash, card, boot, Runs,
       HealthAnchor
  <2> QED
    BY <2>1, <2>2 DEF BootInvariant, TypeOK, AppPcs, flash, card, boot, Runs,
       HealthAnchor
<1>2. TornSlotIsRepairable'
  BY DEF BootInvariant, TypeOK, TornSlotIsRepairable, flash, Runs,
     HealthAnchor
<1>3. SnapshotIsRestorable'
  BY DEF BootInvariant, SnapshotIsRestorable, card, Runs, HealthAnchor
<1>4. BootSteps'
  BY DEF BootInvariant, BootSteps, Runs, HealthAnchor
<1>5. ArmSteps'
  BY DEF BootInvariant, ArmSteps, flash, Runs, HealthAnchor
<1>6. SlotOnItsWay'
  BY DEF BootInvariant, TypeOK, SlotOnItsWay, Installing, flash, Runs,
     HealthAnchor
<1> QED
  BY <1>1, <1>2, <1>3, <1>4, <1>5, <1>6 DEF BootInvariant

(* A confirmed trial image is the one in the slot.                         *)
LEMMA confirm_trialPreserves ==
    ASSUME BootInvariant, confirm_trial, GoodCard
    PROVE  BootInvariant'
<1>1. TypeOK'
  BY BootAssumption DEF BootInvariant, TypeOK, ArmSteps, BootState, Opt,
     LastOutcome, OutcomeKind, Generations, AppPcs, flash, card, boot, app,
     Runs, WritePage, FailRunningPage, Ended, Idle, Blank, confirm_trial
<1>2. TornSlotIsRepairable'
  BY DEF BootInvariant, TypeOK, TornSlotIsRepairable, flash, Runs, WritePage,
     FailRunningPage, Ended, Idle, Blank, confirm_trial
<1>3. SnapshotIsRestorable'
  BY DEF BootInvariant, SnapshotIsRestorable, card, Runs, WritePage,
     FailRunningPage, Ended, Idle, Blank, confirm_trial
<1>4. BootSteps'
  BY DEF BootInvariant, BootSteps, Runs, WritePage, FailRunningPage, Ended, Idle,
     Blank, confirm_trial
<1>5. ArmSteps'
  BY DEF BootInvariant, ArmSteps, flash, Runs, WritePage, FailRunningPage, Ended,
     Idle, Blank, confirm_trial
<1>6. SlotOnItsWay'
  BY DEF BootInvariant, TypeOK, ArmSteps, SlotOnItsWay, Installing, flash,
     Runs, WritePage, FailRunningPage, Ended, Idle, Blank, confirm_trial
<1> QED
  BY <1>1, <1>2, <1>3, <1>4, <1>5, <1>6 DEF BootInvariant

(* An upload replaces a package only while the app runs, so nothing needs  *)
(* it.                                                                     *)
LEMMA UploadPreserves ==
    ASSUME NEW image \in Images, BootInvariant, Upload(image), GoodCard
    PROVE  BootInvariant'
<1>1. TypeOK'
  BY DEF BootInvariant, TypeOK, Opt, flash, boot, app, Upload
<1>2. TornSlotIsRepairable'
  BY DEF BootInvariant, TornSlotIsRepairable, flash, Upload
<1>3. SnapshotIsRestorable'
  BY DEF BootInvariant, SnapshotIsRestorable, Upload
<1>4. BootSteps'
  BY DEF BootInvariant, BootSteps, AppPcs, Upload
<1>5. ArmSteps'
  BY DEF BootInvariant, ArmSteps, Installing, flash, app, Upload
<1>6. SlotOnItsWay'
  BY DEF BootInvariant, SlotOnItsWay, Installing, flash, Upload
<1> QED
  BY <1>1, <1>2, <1>3, <1>4, <1>5, <1>6 DEF BootInvariant

(* A scan only caches a reference.                                         *)
LEMMA run_scanPreserves ==
    ASSUME BootInvariant, run_scan, GoodCard
    PROVE  BootInvariant'
<1>1. TypeOK'
  BY DEF BootInvariant, TypeOK, Opt, flash, card, boot, Runs, run_scan
<1>2. TornSlotIsRepairable'
  BY DEF BootInvariant, TypeOK, TornSlotIsRepairable, flash, Runs, run_scan
<1>3. SnapshotIsRestorable'
  BY DEF BootInvariant, SnapshotIsRestorable, card, Runs, run_scan
<1>4. BootSteps'
  BY DEF BootInvariant, BootSteps, Runs, run_scan
<1>5. ArmSteps'
  BY DEF BootInvariant, ArmSteps, flash, Runs, run_scan
<1>6. SlotOnItsWay'
  BY DEF BootInvariant, TypeOK, SlotOnItsWay, Installing, flash, Runs,
     run_scan
<1> QED
  BY <1>1, <1>2, <1>3, <1>4, <1>5, <1>6 DEF BootInvariant

(* An arm snapshots the slot only if the page describes it.                *)
LEMMA run_installPreserves ==
    ASSUME BootInvariant, run_install, GoodCard
    PROVE  BootInvariant'
<1>1. TypeOK'
  BY BootAssumption DEF BootInvariant, TypeOK, Opt, AppPcs, flash, card,
     boot, Runs, rollback_source, run_install
<1>2. TornSlotIsRepairable'
  BY DEF BootInvariant, TypeOK, TornSlotIsRepairable, flash, Runs,
     rollback_source, run_install
<1>3. SnapshotIsRestorable'
  BY DEF BootInvariant, SnapshotIsRestorable, card, Runs, rollback_source,
     run_install
<1>4. BootSteps'
  BY DEF BootInvariant, BootSteps, Runs, rollback_source, run_install
<1>5. ArmSteps'
  BY BootAssumption DEF BootInvariant, ArmSteps, flash, Runs,
     rollback_source, run_install
<1>6. SlotOnItsWay'
  BY DEF BootInvariant, TypeOK, SlotOnItsWay, Installing, flash, Runs,
     rollback_source, run_install
<1> QED
  BY <1>1, <1>2, <1>3, <1>4, <1>5, <1>6 DEF BootInvariant

(* The reserve that is replaced is one no page names: the page is Idle.    *)
LEMMA write_rollbackPreserves ==
    ASSUME BootInvariant, write_rollback, GoodCard
    PROVE  BootInvariant'
<1>1. TypeOK'
  BY BootAssumption DEF BootInvariant, TypeOK, Opt, AppPcs, flash, boot,
     Runs, NotArming, write_rollback
<1>2. TornSlotIsRepairable'
  BY DEF BootInvariant, TypeOK, TornSlotIsRepairable, flash, Runs, NotArming,
     write_rollback
<1>3. SnapshotIsRestorable'
  BY DEF BootInvariant, TypeOK, SnapshotIsRestorable, ArmSteps, BootState,
     Runs, NotArming, write_rollback
<1>4. BootSteps'
  BY DEF BootInvariant, BootSteps, Runs, NotArming, write_rollback
<1>5. ArmSteps'
  BY DEF BootInvariant, ArmSteps, flash, Runs, NotArming, write_rollback
<1>6. SlotOnItsWay'
  BY DEF BootInvariant, TypeOK, SlotOnItsWay, Installing, flash, Runs,
     NotArming, write_rollback
<1> QED
  BY <1>1, <1>2, <1>3, <1>4, <1>5, <1>6 DEF BootInvariant

(* The carve is rewritten while the slot is whole.                         *)
LEMMA stage_boot_blobPreserves ==
    ASSUME BootInvariant, stage_boot_blob, GoodCard
    PROVE  BootInvariant'
<1>1. TypeOK'
  BY BootAssumption DEF BootInvariant, TypeOK, Opt, AppPcs, card, boot, Runs,
     NotArming, stage_boot_blob
<1>2. TornSlotIsRepairable'
  BY DEF BootInvariant, TypeOK, TornSlotIsRepairable, Runs, NotArming,
     stage_boot_blob
<1>3. SnapshotIsRestorable'
  BY DEF BootInvariant, SnapshotIsRestorable, card, Runs, NotArming,
     stage_boot_blob
<1>4. BootSteps'
  BY DEF BootInvariant, BootSteps, Runs, NotArming, stage_boot_blob
<1>5. ArmSteps'
  BY BootAssumption DEF BootInvariant, ArmSteps, card, Runs, NotArming,
     stage_boot_blob
<1>6. SlotOnItsWay'
  BY DEF BootInvariant, TypeOK, SlotOnItsWay, Installing, Runs, NotArming,
     stage_boot_blob
<1> QED
  BY <1>1, <1>2, <1>3, <1>4, <1>5, <1>6 DEF BootInvariant

(* The Armed page names the snapshot that was just taken.                  *)
LEMMA armPreserves ==
    ASSUME BootInvariant, arm, GoodCard
    PROVE  BootInvariant'
<1>1. TypeOK'
  BY BootAssumption DEF BootInvariant, TypeOK, ArmSteps, BootState, Opt,
     AppPcs, flash, card, boot, Runs, WritePage, FailRunningPage, Armed, Idle,
     Blank, NotArming, arm
<1>2. TornSlotIsRepairable'
  BY DEF BootInvariant, TypeOK, TornSlotIsRepairable, flash, Runs, WritePage,
     FailRunningPage, Armed, Idle, Blank, NotArming, arm
<1>3. SnapshotIsRestorable'
  BY DEF BootInvariant, SnapshotIsRestorable, ArmSteps, card, Runs,
     WritePage, FailRunningPage, Armed, Idle, Blank, NotArming, arm
<1>4. BootSteps'
  BY DEF BootInvariant, BootSteps, Runs, WritePage, FailRunningPage, Armed, Idle,
     Blank, NotArming, arm
<1>5. ArmSteps'
  BY DEF BootInvariant, ArmSteps, Installing, flash, Runs, WritePage,
     FailRunningPage, Armed, Idle, Blank, NotArming, arm
<1>6. SlotOnItsWay'
  BY DEF BootInvariant, TypeOK, ArmSteps, SlotOnItsWay, Installing, flash,
     Runs, WritePage, FailRunningPage, Armed, Idle, Blank, NotArming, arm
<1> QED
  BY <1>1, <1>2, <1>3, <1>4, <1>5, <1>6 DEF BootInvariant

(* The marker is not part of the argument.                                 *)
LEMMA write_arm_markerPreserves ==
    ASSUME BootInvariant, write_arm_marker, GoodCard
    PROVE  BootInvariant'
<1>1. TypeOK'
  BY DEF BootInvariant, TypeOK, ArmSteps, BootState, Opt, Generations,
     AppPcs, Installing, flash, card, boot, app, Runs, write_arm_marker
<1>2. TornSlotIsRepairable'
  BY DEF BootInvariant, TypeOK, TornSlotIsRepairable, flash, Runs,
     write_arm_marker
<1>3. SnapshotIsRestorable'
  BY DEF BootInvariant, SnapshotIsRestorable, card, Runs, write_arm_marker
<1>4. BootSteps'
  BY DEF BootInvariant, BootSteps, Runs, write_arm_marker
<1>5. ArmSteps'
  BY DEF BootInvariant, ArmSteps, flash, Runs, write_arm_marker
<1>6. SlotOnItsWay'
  BY DEF BootInvariant, TypeOK, SlotOnItsWay, Installing, flash, Runs,
     write_arm_marker
<1> QED
  BY <1>1, <1>2, <1>3, <1>4, <1>5, <1>6 DEF BootInvariant

(* A reset leaves everything but the resident state.                       *)
LEMMA sys_resetPreserves ==
    ASSUME BootInvariant, sys_reset, GoodCard
    PROVE  BootInvariant'
<1>1. TypeOK'
  BY BootAssumption DEF BootInvariant, TypeOK, Opt, card, Runs, Restart,
     NotArming, sys_reset
<1>2. TornSlotIsRepairable'
  BY DEF BootInvariant, TypeOK, TornSlotIsRepairable, Runs, Restart,
     NotArming, sys_reset
<1>3. SnapshotIsRestorable'
  BY DEF BootInvariant, SnapshotIsRestorable, card, Runs, Restart, NotArming,
     sys_reset
<1>4. BootSteps'
  BY BootAssumption DEF BootInvariant, BootSteps, Runs, Restart, NotArming,
     sys_reset
<1>5. ArmSteps'
  BY DEF BootInvariant, ArmSteps, Runs, Restart, NotArming, sys_reset
<1>6. SlotOnItsWay'
  BY DEF BootInvariant, TypeOK, SlotOnItsWay, Installing, Runs, Restart,
     NotArming, sys_reset
<1> QED
  BY <1>1, <1>2, <1>3, <1>4, <1>5, <1>6 DEF BootInvariant

-----------------------------------------------------------------------------
(* Resets.                                                                 *)

(* A watchdog reset leaves everything but the resident state.              *)
LEMMA DogFiresPreserves ==
    ASSUME BootInvariant, DogFires, GoodCard
    PROVE  BootInvariant'
<1>1. TypeOK'
  <2>1. dog' \in BOOLEAN /\ anchor' \in BOOLEAN
    BY Zenon DEF BootInvariant, TypeOK, app, DogFires, Restart, NotArming
  <2>2. pc' \in {"boot", "run", "confirm"} /\ cuts' \in 0 .. MaxCuts
    BY BootAssumption DEF BootInvariant, TypeOK, Opt, card, Restart,
       NotArming, DogFires
  <2> QED
    BY <2>1, <2>2, BootAssumption DEF BootInvariant, TypeOK, Opt, card,
       Restart, NotArming, DogFires
<1>2. TornSlotIsRepairable'
  BY DEF BootInvariant, TypeOK, TornSlotIsRepairable, Restart, NotArming,
     DogFires
<1>3. SnapshotIsRestorable'
  BY DEF BootInvariant, SnapshotIsRestorable, card, Restart, NotArming,
     DogFires
<1>4. BootSteps'
  BY BootAssumption DEF BootInvariant, BootSteps, Restart, NotArming,
     DogFires
<1>5. ArmSteps'
  BY DEF BootInvariant, ArmSteps, AppPcs, Restart, NotArming, DogFires
<1>6. SlotOnItsWay'
  BY DEF BootInvariant, TypeOK, SlotOnItsWay, Installing, Restart, NotArming,
     DogFires
<1> QED
  BY <1>1, <1>2, <1>3, <1>4, <1>5, <1>6 DEF BootInvariant

(* A cut may tear the record being written, never the slot's way back.     *)
LEMMA PowerCutPreserves ==
    ASSUME BootInvariant, PowerCut, GoodCard
    PROVE  BootInvariant'
<1>1. TypeOK'
  <2>1. dog' \in BOOLEAN /\ anchor' \in BOOLEAN
    BY Zenon DEF BootInvariant, TypeOK, app, PowerCut, Restart, NotArming,
       Idle, Blank
  <2>2. pc' \in {"boot", "run", "confirm"} /\ cuts' \in 0 .. MaxCuts
    BY BootAssumption DEF BootInvariant, TypeOK, BootState, Opt, card,
       Restart, NotArming, Idle, Blank, PowerCut
  <2> QED
    BY <2>1, <2>2, BootAssumption DEF BootInvariant, TypeOK, BootState, Opt,
       card, Restart, NotArming, Idle, Blank, PowerCut
<1>2. TornSlotIsRepairable'
  BY DEF BootInvariant, TornSlotIsRepairable, BootSteps, AppPcs, source,
     SourceIntact, Installing, card, Restart, NotArming, Idle, Blank,
     PowerCut
<1>3. SnapshotIsRestorable'
  BY DEF BootInvariant, SnapshotIsRestorable, card, Restart, NotArming, Idle,
     Blank, PowerCut
<1>4. BootSteps'
  BY BootAssumption DEF BootInvariant, BootSteps, Restart, NotArming, Idle,
     Blank, PowerCut
<1>5. ArmSteps'
  BY DEF BootInvariant, ArmSteps, AppPcs, Restart, NotArming, Idle, Blank,
     PowerCut
<1>6. SlotOnItsWay'
  BY DEF BootInvariant, SlotOnItsWay, AppPcs, Installing, card, Restart,
     NotArming, Idle, Blank, PowerCut
<1> QED
  BY <1>1, <1>2, <1>3, <1>4, <1>5, <1>6 DEF BootInvariant

-----------------------------------------------------------------------------
(* Every step, and the theorems.                                           *)

(* A step that changes no variable keeps the invariant.                    *)
LEMMA StutterPreserves ==
    ASSUME BootInvariant, UNCHANGED vars
    PROVE  BootInvariant'
<1>1. TypeOK'
  BY DEF BootInvariant, TypeOK, vars
<1>2. TornSlotIsRepairable' /\ SnapshotIsRestorable'
  BY DEF BootInvariant, TornSlotIsRepairable, SnapshotIsRestorable, vars,
     source, SourceIntact, Installing
<1>3. BootSteps' /\ ArmSteps' /\ SlotOnItsWay'
  BY DEF BootInvariant, BootSteps, ArmSteps, SlotOnItsWay, vars, source,
     SourceIntact, Installing
<1> QED
  BY <1>1, <1>2, <1>3 DEF BootInvariant

(* Every step of either program and of the environment keeps the           *)
(* invariant.                                                              *)
LEMMA NextPreserves ==
    ASSUME BootInvariant, [Next]_vars, GoodCard
    PROVE  BootInvariant'
<1>1. CASE BootStep
  BY <1>1, decidePreserves, AcceptAndClearPreserves, StageRejectedPreserves,
     abandon_armPreserves, try_initPreserves, CardFailsPreserves,
     verifyPreserves, VerifyMismatchPreserves, FlashBeginsPreserves,
     FlashCardFailsPreserves, FlashFailsPreserves, flash_verifiedPreserves,
     InstalledPreserves, RecordFailsPreserves DEF BootStep
<1>2. CASE AppStep
  BY <1>2, reconcile_boot_outcomePreserves, DowngradePreserves,
     clear_arm_markerPreserves, HealthAnchorPreserves,
     confirm_trialPreserves, UploadPreserves, run_scanPreserves,
     run_installPreserves, write_rollbackPreserves, stage_boot_blobPreserves,
     armPreserves, write_arm_markerPreserves, sys_resetPreserves DEF AppStep
<1>3. CASE DogFires \/ PowerCut
  BY <1>3, DogFiresPreserves, PowerCutPreserves
<1>4. CASE \E image \in Images : Reflash(image)
  BY <1>4 DEF Reflash, GoodCard
<1>5. CASE UNCHANGED vars
  BY <1>5, StutterPreserves
<1> QED
  BY <1>1, <1>2, <1>3, <1>4, <1>5 DEF Next

(* The invariant holds in every reachable state, for every set of images,  *)
(* every retry budget and every fault but those GoodCard excludes.         *)
THEOREM BootIsInvariant ==
    ASSUME GoodCard PROVE Spec => []BootInvariant
<1>1. Init => BootInvariant
  BY InitEstablishes
<1>2. BootInvariant /\ [Next]_vars => BootInvariant'
  BY NextPreserves
<1> QED
  BY <1>1, <1>2, PTL DEF Spec

(* Every variable keeps its type; the bootloader's counters stay within    *)
(* their budgets.                                                          *)
THEOREM BootTypes ==
    ASSUME GoodCard PROVE Spec => []TypeOK
<1>1. BootInvariant => TypeOK
  BY DEF BootInvariant
<1> QED
  BY <1>1, BootIsInvariant, PTL

(* A half-written slot is always behind a page, an intact source and a     *)
(* carve by which the next boot repairs it.                                *)
THEOREM TornSlotAlwaysRepairable ==
    ASSUME GoodCard PROVE Spec => []TornSlotIsRepairable
<1>1. BootInvariant => TornSlotIsRepairable
  BY DEF BootInvariant
<1> QED
  BY <1>1, BootIsInvariant, PTL

(* The bootloader never jumps into a half-written slot.                    *)
THEOREM BootNeverJumpsTorn ==
    ASSUME GoodCard PROVE Spec => []NeverJumpsTorn
<1>1. BootInvariant => NeverJumpsTorn
  BY DEF BootInvariant, TornSlotIsRepairable, NeverJumpsTorn
<1> QED
  BY <1>1, BootIsInvariant, PTL

(* A snapshot the page names is in the reserve and is an image that ran.   *)
THEOREM SnapshotAlwaysRestorable ==
    ASSUME GoodCard PROVE Spec => []SnapshotIsRestorable
<1>1. BootInvariant => SnapshotIsRestorable
  BY DEF BootInvariant
<1> QED
  BY <1>1, BootIsInvariant, PTL

(* An image the page says is running is the image in the slot.             *)
THEOREM PageNamesRunningImage ==
    ASSUME GoodCard PROVE Spec => []RunningImageTruthful
<1>1. BootInvariant => RunningImageTruthful
  BY DEF BootInvariant, TypeOK, BootState, SlotOnItsWay,
     TornSlotIsRepairable, RunningImageTruthful, running_image, Installing
<1> QED
  BY <1>1, BootIsInvariant, PTL

-----------------------------------------------------------------------------
(* What the user is told.                                                  *)

(* The marker and the page are written apart.  Two errors of those writes  *)
(* can, each alone, leave a marker of an earlier arm beside an arm of the  *)
(* same generation: a marker that cannot be cleared, and a page that an    *)
(* arm or a confirm tears while the app runs on, so that generations start *)
(* again before anybody clears the marker.  They are ruled out here.  The  *)
(* other errors are not: a refused write of the page or of the marker, and *)
(* a page the bootloader or the downgrade tears.                           *)
OldMarkersGo == {"page_torn", "clear"} \cap Faults = {}

(* A marker is of the arm the page is about, or of an earlier one that the *)
(* page has a later generation than.  An arm from Idle, whose generation   *)
(* starts again at one, finds no marker.                                   *)
MarkerBelongs ==
    /\ page.tag = "Idle" /\ pc \in {"run", "reserve", "stage", "arm"} =>
         marker = None
    /\ marker # None /\ page.tag # "Idle" =>
         \/ marker.generation < page.generation
         \/ /\ marker.generation = page.generation
            /\ marker.staged = IF Installing THEN page.update
                                             ELSE page.installed
    /\ /\ marker # None /\ page.tag = "Idle" /\ page.outcome # None
       /\ page.outcome.kind = "Installed"
       /\ page.outcome.generation = marker.generation
       => page.installed = marker.staged

(* Generations are numbers.                                                *)
LEMMA GenerationTypes ==
    ASSUME BootInvariant
    PROVE  /\ page.generation \in Nat
           /\ marker # None => marker.generation \in Nat
  BY DEF BootInvariant, TypeOK, BootState, Opt, Generations

(* A page that decodes to nothing is about no arm: whatever marker is left *)
(* is cleared before the next one.                                         *)
LEMMA TornPageKeepsMarker ==
    ASSUME page' = Blank, pc' \notin {"run", "reserve", "stage", "arm"}
    PROVE  MarkerBelongs'
  BY DEF MarkerBelongs, Blank, Idle

(* An old page left standing is about the arm it was about.                *)
LEMMA OldPageKeepsMarker ==
    ASSUME MarkerBelongs, UNCHANGED <<page, marker>>,
           pc' \notin {"run", "reserve", "stage", "arm"}
    PROVE  MarkerBelongs'
  BY DEF MarkerBelongs, Installing

(* The bootloader ends an arm under the arm's own generation, or fails to  *)
(* and leaves the old page or a torn one.                                  *)
LEMMA BootStepKeepsMarker ==
    ASSUME BootInvariant, MarkerBelongs, OldMarkersGo, BootStep
    PROVE  MarkerBelongs'
<1>1. CASE AcceptAndClear \/ StageRejected \/ abandon_arm
  <2>1. UNCHANGED marker /\ pc' = "start"
    BY <1>1 DEF AcceptAndClear, StageRejected, abandon_arm, WriteAndJump, Jump
  <2>2. CASE FailPage
    BY <2>1, <2>2, TornPageKeepsMarker, OldPageKeepsMarker DEF FailPage
  <2>3. CASE ~FailPage /\ AcceptAndClear
    BY <2>1, <2>3, GenerationTypes DEF BootInvariant, BootSteps,
       MarkerBelongs, Installing, WriteAndJump, WritePage, Ended, Idle,
       AcceptAndClear
  <2>4. CASE ~FailPage /\ (StageRejected \/ abandon_arm)
    BY <2>1, <2>4, GenerationTypes DEF BootInvariant, BootSteps,
       MarkerBelongs, Installing, WriteAndJump, WritePage, Ended, Idle,
       mismatch_state, StageRejected, abandon_arm
  <2> QED
    BY <1>1, <2>2, <2>3, <2>4
<1>2. CASE Installed
  BY <1>2, GenerationTypes DEF BootInvariant, BootSteps, MarkerBelongs,
     Installing, WritePage, Jump, success_state, Ended, Idle, Trial, Installed
<1>3. CASE RecordFails
  BY <1>3, TornPageKeepsMarker, OldPageKeepsMarker DEF RecordFails, FailPage
<1>4. CASE decide \/ try_init \/ CardFails \/ verify \/ VerifyMismatch
           \/ FlashBegins \/ FlashCardFails \/ FlashFails \/ flash_verified
  <2>1. UNCHANGED <<page, marker>>
    BY <1>4 DEF decide, try_init, CardFails, verify, VerifyMismatch,
       FlashBegins, FlashCardFails, FlashFails, flash_verified
  <2>2. pc' \notin {"run", "reserve", "stage", "arm"}
    BY <1>4 DEF decide, try_init, CardFails, verify, VerifyMismatch,
       FlashBegins, FlashCardFails, FlashFails, flash_verified
  <2> QED
    BY <2>1, <2>2, OldPageKeepsMarker
<1> QED
  BY <1>1, <1>2, <1>3, <1>4 DEF BootStep

(* The app reads the marker it finds at the start and clears it before the *)
(* next arm, or arms from a trial under the next generation; a confirm or  *)
(* an arm that is refused leaves the page of that trial.                   *)
LEMMA AppStepKeepsMarker ==
    ASSUME BootInvariant, MarkerBelongs, OldMarkersGo, AppStep
    PROVE  MarkerBelongs'
<1>1. CASE reconcile_boot_outcome
  <2>1. page.tag \in {"Idle", "Armed", "Trial"}
    BY DEF BootInvariant, TypeOK, BootState
  <2>2. pc' \in {"run", "downgrade", "clear"}
    BY <1>1, <2>1 DEF reconcile_boot_outcome, verdict
  <2>3. pc' = "run" => page.tag = "Trial" \/ marker = None
    BY <1>1, <2>1 DEF reconcile_boot_outcome, verdict
  <2>4. pc = "start" /\ UNCHANGED <<page, marker, flash>>
    BY <1>1 DEF reconcile_boot_outcome, Runs
  <2> QED
    BY <2>2, <2>3, <2>4 DEF MarkerBelongs, Installing, flash
<1>2. CASE Downgrade
  BY <1>2, OldPageKeepsMarker, TornPageKeepsMarker DEF MarkerBelongs, Runs,
     WritePage, FailPage, Idle, Downgrade
<1>3. CASE clear_arm_marker
  BY <1>3 DEF MarkerBelongs, OldMarkersGo, Runs, clear_arm_marker
<1>4. CASE HealthAnchor
  BY <1>4 DEF MarkerBelongs, Installing, Runs, HealthAnchor
<1>5. CASE confirm_trial /\ ~FailRunningPage
  BY <1>5, GenerationTypes DEF BootInvariant, ArmSteps, MarkerBelongs,
     Installing, Runs, WritePage, Ended, Idle, confirm_trial
<1>6. CASE arm /\ ~FailRunningPage
  <2>1. page.generation \in Nat
    BY GenerationTypes
  <2>2. pc' = "marker" /\ page' = Armed(page.generation + 1, arming.update,
                                        arming.rollback)
    BY <1>6 DEF arm, WritePage
  <2>3. marker # None => marker.generation \in Nat
    BY GenerationTypes
  <2>4. marker # None => marker.generation < page.generation + 1
    BY <1>6, <2>1, <2>3 DEF MarkerBelongs, arm, Runs
  <2> QED
    BY <1>6, <2>2, <2>4 DEF MarkerBelongs, Armed, arm
<1>7. CASE write_arm_marker
  BY <1>7 DEF BootInvariant, ArmSteps, MarkerBelongs, OldMarkersGo,
     Installing, Runs, write_arm_marker
<1>8. CASE run_install \/ write_rollback \/ stage_boot_blob
  BY <1>8 DEF MarkerBelongs, Installing, Runs, run_install, write_rollback,
     stage_boot_blob
<1>9. CASE run_scan \/ sys_reset \/ \E image \in Images : Upload(image)
  BY <1>9 DEF MarkerBelongs, Installing, Runs, run_scan, sys_reset, Restart,
     Upload
<1>10. CASE (confirm_trial \/ arm) /\ FailRunningPage
  <2>1. UNCHANGED <<page, marker>>
    BY <1>10 DEF OldMarkersGo, FailRunningPage, confirm_trial, arm
  <2>2. pc = "confirm" => page.tag = "Trial"
    BY DEF BootInvariant, ArmSteps
  <2>3. pc = "confirm" \/ pc = "arm"
    BY <1>10 DEF confirm_trial, arm, Runs
  <2> QED
    BY <2>1, <2>2, <2>3 DEF MarkerBelongs, Installing
<1> QED
  BY <1>1, <1>2, <1>3, <1>4, <1>5, <1>6, <1>7, <1>8, <1>9, <1>10 DEF AppStep

(* A reset keeps the records; a cut may lose the one being written.        *)
LEMMA NextKeepsMarker ==
    ASSUME BootInvariant, MarkerBelongs, OldMarkersGo, GoodCard,
           [Next]_vars
    PROVE  MarkerBelongs'
<1>1. CASE DogFires
  BY <1>1 DEF MarkerBelongs, Installing, Restart, DogFires
<1>2. CASE PowerCut
  <2>1. pc' = "boot" /\ page' \in {page, Blank} /\ marker' \in {marker, None}
    BY <1>2 DEF PowerCut, Restart
  <2> QED
    BY <2>1 DEF MarkerBelongs, Installing, Blank, Idle
<1>3. CASE \E image \in Images : Reflash(image)
  BY <1>3 DEF Reflash, GoodCard
<1>4. CASE UNCHANGED vars
  BY <1>4 DEF vars, MarkerBelongs, Installing
<1> QED
  BY <1>1, <1>2, <1>3, <1>4, BootStepKeepsMarker, AppStepKeepsMarker DEF Next

(* "Updated to X" is only said while X runs: state.rs `verdict', read by   *)
(* reconcile_boot_outcome, over any number of arms, trials and power cuts  *)
(* at any step; with refused writes of the page and of the marker, and     *)
(* pages the bootloader tears, but with markers that can be cleared.       *)
THEOREM ConfirmedAlwaysRunning ==
    ASSUME GoodCard, OldMarkersGo PROVE Spec => []ConfirmedIsRunning
<1>1. Init => MarkerBelongs
  BY DEF Init, MarkerBelongs
<1>2. BootInvariant /\ MarkerBelongs /\ [Next]_vars => MarkerBelongs'
  BY NextKeepsMarker
<1>3. BootInvariant /\ MarkerBelongs => ConfirmedIsRunning
  <2> SUFFICES ASSUME BootInvariant, MarkerBelongs, pc = "start",
                      verdict = "Confirmed"
               PROVE  slot = marker.staged
    BY DEF ConfirmedIsRunning
  <2>1. page.tag \in {"Idle", "Armed", "Trial"}
    BY DEF BootInvariant, TypeOK, BootState
  <2>2. /\ page.tag = "Idle" /\ marker # None
        /\ page.outcome # None /\ page.outcome.kind = "Installed"
        /\ page.outcome.generation = marker.generation
    BY <2>1 DEF verdict
  <2>3. page.installed = marker.staged
    BY <2>2 DEF MarkerBelongs
  <2>4. marker.staged # None
    BY <2>2, BootAssumption DEF BootInvariant, TypeOK, Opt
  <2> QED
    BY <2>2, <2>3, <2>4 DEF BootInvariant, SlotOnItsWay
<1> QED
  BY <1>1, <1>2, <1>3, BootIsInvariant, PTL DEF Spec
===============================================================================
