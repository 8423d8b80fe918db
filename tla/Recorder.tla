------------------------------ MODULE Recorder ------------------------------
(***************************************************************************)
(* The ride recorder: RecorderMachine (obc-app/src/recorder.rs), which     *)
(* decides what a ride is, the pass that drives it (device_core/pass.rs),  *)
(* the screens the rider reaches it by, and the executor that turns its    *)
(* effects into card writes (obc-fw-nrf54l/src/flat_ride.rs over           *)
(* obc-app/src/recorder/writer.rs).                                        *)
(*                                                                         *)
(* The ride loop alternates: a pass takes the executor's last answer,      *)
(* opens a session that was asked for, applies gestures and at most one    *)
(* fix, and names one effect; the executor then opens the object a session *)
(* owes (one step with the naming: no card write lies between them) and    *)
(* serves that effect before the next pass.  The operation token is left   *)
(* out, since no answer outlives the pass after its effect.                *)
(*                                                                         *)
(* A fix is its number.  A sample remembers the boot it was taken in,      *)
(* whether it starts a segment and whether its interval was integrated;    *)
(* the ride's totals are the set of fixes whose interval was.  A journal   *)
(* write is durable or refused: how is the subject of RideJournal.         *)
(***************************************************************************)
EXTENDS Integers, Sequences, SequencesExt

CONSTANTS
    Staged,     \* STAGED_SAMPLES = DELTA_SAMPLES
    Cadence,    \* CHECKPOINT_MS, in units of the clock
    Retry,      \* CHECKPOINT_RETRY_MS, likewise
    Batch,      \* gestures one pass may carry
    MaxInputs,  \* bound: fixes, and gestures that ask for something
    MaxFaults,  \* bound: refused writes
    MaxResets,  \* bound: power cuts
    Allowed,    \* what may happen: see the assumption
    None

ASSUME RecorderAssumption ==
    /\ Staged \in Nat \ {0} /\ Cadence \in Nat \ {0} /\ Retry >= Cadence
    /\ {Retry, Batch, MaxInputs, MaxFaults, MaxResets} \subseteq Nat
    /\ Allowed \subseteq
         {"jump",         \* a fix across a gap or a teleport
          "start",        \* the store refuses the object of a new ride
          "journal",      \* ... a checkpoint
          "commit",       \* ... the commit that publishes or removes a ride
          "damage",       \* the recovered object does not decode
          "settle"}       \* the store refuses the close that a boot finishes

(***************************************************************************)
(* The values of the records below.                                        *)
(***************************************************************************)
Sampled == [at : Nat, boot : Nat, seg : BOOLEAN, counted : BOOLEAN]
Recoveries == {"None", "Resumable", "Repairable", "Unrepairable",
               "Discarding", "Repairing", "DiscardFailed", "RepairFailed"}
Intents == {"Start", "Save", "Discard"}
Operations == {"Append", "Checkpoint", "Close"}
MachineType ==
    [session : Nat \cup {None}, seq : Nat, inflight : Operations \cup {None},
     pending : Intents \cup {None}, resume_next : BOOLEAN, restart : BOOLEAN,
     told : BOOLEAN, owed : {"No", "Immediate", "Backoff"},
     recovery : Recoveries, samples : Seq(Sampled), totals : SUBSET Nat,
     anchor : BOOLEAN, break : BOOLEAN]
UiType ==
    [mode : {"Idle", "Riding", "Paused"}, card : Recoveries,
     screen : {"home", "start", "swap", "control", "recovery"}]
EffectType ==
    [op : {"Append", "Checkpoint", "Finalize", "Discard"}, samples : Nat]
OutcomeType ==
    [kind : {"Finalized", "Discarded", "Appended", "NeedsCheckpoint",
             "Checkpointed", "Write", "ReadOnly"}, samples : Nat]
WriterType ==
    [state : {"idle", "live", "repair", "footer", "publish", "damaged",
              "discarding"},
     session : Nat \cup {None}, ride : Seq(Sampled), len : Nat,
     pending : BOOLEAN, cont : SUBSET Nat, resume : SUBSET Nat,
     footer : (SUBSET Nat) \cup {None}]
ObjectType ==
    [payload : Seq(Sampled), resume : SUBSET Nat,
     footer : (SUBSET Nat) \cup {None}]
SavedType ==
    [payload : Seq(Sampled), footer : SUBSET Nat, logged : SUBSET Nat]

ASSUME NoneAssumption ==
    /\ None \notin Nat
    /\ None \notin Intents /\ None \notin Operations
    /\ None \notin EffectType /\ None \notin OutcomeType
    /\ None \notin ObjectType /\ None \notin SavedType

VARIABLES
    rec,        \* RecorderMachine
    ui,         \* Activity::mode, the screen on top, and the recovery card
    caps,       \* RecorderCapabilities::record
    effect,     \* EffectSlots::recorder
    outcome,    \* OutcomeSlots::recorder
    writer,     \* RideWriter and its buffers
    opened,     \* opened_session
    object,     \* the RECORDING object on the card
    saved,      \* the ride published last
    clock,      \* time since last_checkpoint_ms, saturating at Retry
    pc,         \* where the ride loop is
    by,         \* history: the session the object was opened by or attached to
    logged,     \* history: the fixes staged for the object
    dropped,    \* history: the fixes a full staging buffer lost
    batch,      \* gestures of this pass so far
    fixes, asks, faults, resets

card == <<object, saved>>
exec == <<writer, opened, by>>
hist == <<logged, dropped>>
bounds == <<batch, fixes, asks, faults, resets>>
vars == <<rec, ui, caps, effect, outcome, writer, opened, object, saved,
          clock, pc, by, logged, dropped, batch, fixes, asks, faults,
          resets>>

recording == rec.session # None

-----------------------------------------------------------------------------
(* RecorderMachine::new, and what a boot offers: nothing, a whole ride or  *)
(* a damaged one.  restore_continuation leaves no anchor and a break.      *)
Machine(recovery, totals) ==
    [session |-> None, seq |-> 0, inflight |-> None, pending |-> None,
     resume_next |-> FALSE, restart |-> FALSE, told |-> FALSE, owed |-> "No",
     recovery |-> recovery, samples |-> <<>>, totals |-> totals,
     anchor |-> FALSE, break |-> recovery # "None"]

HoldsObject(r) == r.recovery \notin {"None", "Unrepairable"}

(* Mutant: an undecided object does not stand in the way of a session.     *)
BlocksRecording_Never(r) == FALSE

BlocksRecording(r) == r.recovery \notin {"None", "Resumable"}

(* RideRecoveryState::attempting, and back when nothing was attempted.     *)
Attempting(state) ==
    CASE state \in {"Resumable", "DiscardFailed"} -> "Discarding"
      [] state \in {"Repairable", "RepairFailed"} -> "Repairing"
      [] OTHER -> state
Attempt == {"Discarding", "Repairing"}
Latched(state) == IF state = "Discarding" THEN "DiscardFailed" ELSE "RepairFailed"

request(r, intent) ==
    [r EXCEPT !.restart = @ /\ intent = "Save",
              !.resume_next = @ /\ intent = "Start",
              !.told = FALSE,
              !.pending = intent]

save_and_restart(r)   == [request(r, "Save") EXCEPT !.restart = TRUE]
continue_recovered(r) == request([r EXCEPT !.resume_next = TRUE], "Start")

reset_totals(r)    == [r EXCEPT !.totals = {}, !.anchor = FALSE, !.break = FALSE]
restart_buffers(r) == [r EXCEPT !.samples = <<>>]

close(r) ==
    [r EXCEPT !.session = None, !.samples = <<>>, !.owed = "No",
              !.recovery = "None", !.restart = FALSE,
              !.pending = IF r.restart THEN "Start" ELSE None]

end_ride_session(r) == restart_buffers(reset_totals(r))

-----------------------------------------------------------------------------
(* stage_outcomes.                                                         *)

Settled(r) == [r EXCEPT !.inflight = None]

WriteFailed(r) ==
    [Settled(r) EXCEPT
        !.owed = CASE r.inflight = "Checkpoint" -> "Backoff"
                   [] r.inflight = "Append" -> "Immediate"
                   [] OTHER -> @]

apply_outcome(r) ==
    CASE outcome.kind \in {"Finalized", "Discarded"} ->
           end_ride_session(close(Settled(r)))
      [] outcome.kind = "Appended" ->
           [Settled(r) EXCEPT
              !.samples = SubSeq(@, outcome.samples + 1, Len(@)),
              !.owed = IF outcome.samples < Len(r.samples) THEN "Immediate"
                                                           ELSE @]
      [] outcome.kind = "NeedsCheckpoint" ->
           [Settled(r) EXCEPT !.owed = "Immediate"]
      [] outcome.kind = "Checkpointed" -> Settled(r)
      [] outcome.kind \in {"Write", "ReadOnly"} ->
           IF r.recovery \in Attempt
           THEN [Settled(r) EXCEPT
                   !.pending = None,
                   !.recovery = IF outcome.kind = "ReadOnly"
                                THEN "Unrepairable" ELSE Latched(@)]
           ELSE IF outcome.kind = "Write" THEN WriteFailed(r) ELSE Settled(r)

RaiseCard(state) == [ui EXCEPT !.screen = "recovery", !.card = state]

stage_outcomes ==
    /\ pc = "outcomes"
    /\ pc' = "advance"
    /\ outcome' = None
    /\ rec' = IF outcome = None THEN rec ELSE apply_outcome(rec)
    /\ ui' = IF outcome # None /\ rec.recovery \in Attempt
                /\ outcome.kind \in {"Write", "ReadOnly"}
             THEN RaiseCard(rec'.recovery) ELSE ui
    /\ clock' = IF outcome # None /\ outcome.kind = "Write"
                   /\ rec.inflight = "Checkpoint"
                THEN 0 ELSE clock
    /\ logged' = IF outcome # None /\ outcome.kind \in {"Finalized", "Discarded"}
                 THEN {} ELSE logged
    /\ UNCHANGED <<caps, effect, exec, card, dropped, bounds>>

(* advance_recorder_session: a Start becomes a session, or is kept.        *)
Opened(r) ==
    LET start == [r EXCEPT !.pending = None, !.told = FALSE, !.owed = "No",
                           !.resume_next = FALSE, !.recovery = "None",
                           !.seq = @ + 1, !.session = r.seq + 1]
    IN restart_buffers(IF r.resume_next THEN start ELSE reset_totals(start))

advance_recorder_session ==
    /\ pc = "advance"
    /\ pc' = "input"
    /\ \/ /\ rec.pending # "Start"
          /\ UNCHANGED <<rec, ui, logged>>
       \/ /\ rec.pending = "Start" /\ ~caps
          /\ rec' = [rec EXCEPT !.told = TRUE]
          /\ UNCHANGED <<ui, logged>>
       \/ /\ rec.pending = "Start" /\ caps /\ BlocksRecording(rec)
          /\ rec' = [rec EXCEPT !.told = TRUE]
          /\ ui' = IF rec.told THEN ui
                   ELSE [RaiseCard(rec.recovery) EXCEPT !.mode = "Idle"]
          /\ UNCHANGED logged
       \/ /\ rec.pending = "Start" /\ caps /\ ~BlocksRecording(rec)
          /\ rec' = Opened(rec)
          /\ logged' = IF rec.resume_next THEN logged ELSE {}
          /\ UNCHANGED ui
    /\ UNCHANGED <<caps, effect, outcome, exec, card, clock, dropped, bounds>>

-----------------------------------------------------------------------------
(* Gestures.  The screens are the ones a ride is started and ended on;     *)
(* every other screen is "home", which offers a start while nothing is     *)
(* being recorded and the pause page while something is.                   *)

Shows(screen, shown, mode) ==
    /\ pc = "input" /\ ui.screen = screen
    /\ batch < Batch /\ batch' = batch + 1
    /\ ui' = [ui EXCEPT !.screen = shown, !.mode = mode]
    /\ UNCHANGED <<caps, effect, outcome, exec, card, clock, pc, hist,
                   fixes, faults, resets>>

MoreInput == fixes + asks < MaxInputs

Asks(r) == MoreInput /\ asks' = asks + 1 /\ rec' = r

Browses ==
    /\ \/ ~recording /\ Shows("home", "start", ui.mode)
       \/ recording /\ Shows("home", "swap", ui.mode)
       \/ \E screen \in {"start", "swap", "control"} :
            Shows(screen, "home", ui.mode)
    /\ UNCHANGED <<rec, asks>>

(* riding_common: the press that pauses.                                   *)
Pause == recording /\ Shows("home", "control", "Paused") /\ UNCHANGED <<rec, asks>>

(* RideControl: Resume, Finish and Discard.                                *)
Resume == Shows("control", "home", "Riding") /\ Asks(rec)

end_ride(intent) ==
    Shows("control", "home", "Idle") /\ Asks(request(rec, intent))

(* begin_riding_session: the start cards do not look at the recorder again. *)
begin_riding_session ==
    /\ Shows("start", "home", "Riding")
    /\ Asks(request(rec, "Start"))

(* RouteSwapScreen: Swap keeps the ride; Finish & start new ends it first. *)
swap_route == Shows("swap", "home", "Riding") /\ Asks(rec)

finish_new == Shows("swap", "home", "Riding") /\ Asks(save_and_restart(rec))

(* RideRecoveryScreen, by the rows of its mode.                            *)
Continue ==
    /\ ui.card = "Resumable"
    /\ Shows("recovery", "home", "Riding")
    /\ Asks(continue_recovered(rec))

Repair ==
    /\ ui.card # "Unrepairable"
    /\ Shows("recovery", "home", "Idle")
    /\ Asks(request(rec, "Discard"))

Leave ==
    /\ ui.card \in {"DiscardFailed", "RepairFailed", "Unrepairable"}
    /\ Shows("recovery", "home", ui.mode)
    /\ UNCHANGED <<rec, asks>>

Gesture ==
    \/ Browses \/ Pause \/ Resume
    \/ \E intent \in {"Save", "Discard"} : end_ride(intent)
    \/ begin_riding_session \/ swap_route \/ finish_new
    \/ Continue \/ Repair \/ Leave

-----------------------------------------------------------------------------
(* record_fix.  integrate counts an interval from the fix before it, and   *)
(* drops one that no ride can have made.                                   *)
Sample(seg, counted) ==
    [at |-> fixes + 1, boot |-> resets, seg |-> seg, counted |-> counted]

(* Mutant: a sample lost to a full buffer leaves no break behind.          *)
Staging_NoBreak(r, sample) ==
    IF Len(r.samples) < Staged
    THEN [r EXCEPT !.samples = Append(@, sample)] ELSE r

Staging(r, sample) ==
    IF Len(r.samples) < Staged
    THEN [r EXCEPT !.samples = Append(@, sample)]
    ELSE [r EXCEPT !.break = TRUE]

Riding == ui.mode = "Riding" /\ rec.pending # "Save"

integrate(jump) ==
    [rec EXCEPT !.anchor = TRUE, !.break = jump,
                !.totals = IF rec.anchor /\ ~jump THEN @ \cup {fixes + 1} ELSE @]

Fix(jump) ==
    /\ MoreInput
    /\ fixes' = fixes + 1
    /\ \/ /\ ~Riding /\ ~jump
          /\ rec' = [rec EXCEPT !.anchor = FALSE]
          /\ UNCHANGED hist
       \/ /\ Riding
          /\ jump => rec.anchor /\ "jump" \in Allowed
          /\ IF jump \/ ~recording
             THEN rec' = integrate(jump) /\ UNCHANGED hist
             ELSE LET sample == Sample(~rec.anchor \/ rec.break, rec.anchor) IN
                  /\ rec' = Staging(integrate(FALSE), sample)
                  /\ logged' = IF Len(rec.samples) < Staged
                               THEN logged \cup {fixes + 1} ELSE logged
                  /\ dropped' = IF Len(rec.samples) < Staged
                                THEN dropped ELSE dropped \cup {fixes + 1}

(* The rest of stage_input: at most one fix, and time has passed.          *)
stage_input(passed) ==
    /\ pc = "input"
    /\ pc' = "effect"
    /\ batch' = 0
    /\ \/ \E jump \in BOOLEAN : Fix(jump)
       \/ UNCHANGED <<rec, hist, fixes>>
    /\ clock' = IF clock + passed > Retry THEN Retry ELSE clock + passed
    /\ UNCHANGED <<ui, caps, effect, outcome, exec, card, asks, faults, resets>>

-----------------------------------------------------------------------------
(* stage_recorder: next_effect, one operation in a fixed rank.             *)
checkpoint_due ==
    CASE rec.owed = "No" -> clock >= Cadence
      [] rec.owed = "Immediate" -> TRUE
      [] rec.owed = "Backoff" -> clock >= Retry

Effect(op, samples) == [op |-> op, samples |-> samples]

(* Mutant: a Save is served before the samples are.                        *)
Drained_Early == rec.owed = "No"

Drained == rec.samples = <<>> /\ rec.owed = "No"

(* Nothing is offered beside an operation under way, or without a session. *)
Refuses == ~caps \/ rec.inflight # None \/ (~recording /\ ~HoldsObject(rec))

(* Mutant: an append outranks the checkpoint that would make room for it.  *)
Offer_AppendFirst ==
    IF Refuses THEN None
    ELSE IF rec.pending = "Save" /\ Drained THEN Effect("Finalize", 0)
    ELSE IF rec.pending = "Discard" THEN Effect("Discard", 0)
    ELSE IF recording /\ rec.samples # <<>> THEN Effect("Append", Len(rec.samples))
    ELSE IF recording /\ checkpoint_due THEN Effect("Checkpoint", 0)
    ELSE None

Offer ==
    IF Refuses THEN None
    ELSE IF rec.pending = "Save" /\ Drained THEN Effect("Finalize", 0)
    ELSE IF rec.pending = "Discard" THEN Effect("Discard", 0)
    ELSE IF recording /\ checkpoint_due THEN Effect("Checkpoint", 0)
    ELSE IF recording /\ rec.owed = "No" /\ rec.samples # <<>>
         THEN Effect("Append", Len(rec.samples))
    ELSE None

InFlight(op) == IF op \in {"Finalize", "Discard"} THEN "Close" ELSE op

(* stage_recorder, and stage_admission after it: the store is mounted.     *)
stage_recorder ==
    /\ pc = "effect"
    /\ pc' = IF Offer = None THEN "outcomes" ELSE "serve"
    /\ effect' = Offer
    /\ caps' = TRUE
    /\ rec' = IF Offer = None THEN rec ELSE
                [rec EXCEPT !.inflight = InFlight(Offer.op),
                            !.owed = IF Offer.op = "Checkpoint" THEN "No" ELSE @,
                            !.recovery = IF Offer.op = "Discard"
                                         THEN Attempting(@) ELSE @]
    /\ clock' = IF Offer # None /\ Offer.op = "Checkpoint" THEN 0 ELSE clock
    /\ UNCHANGED <<ui, outcome, saved, hist, batch, fixes, asks, resets>>

-----------------------------------------------------------------------------
(* flat_ride::Recorder.  The writer is Idle, Live (with a checkpoint       *)
(* pending or not), at one of the three steps of closing, Damaged or       *)
(* Discarding.                                                             *)
Writer(state, session, ride, cont) ==
    [state |-> state, session |-> session, ride |-> ride, len |-> 0,
     pending |-> FALSE, cont |-> cont, resume |-> cont, footer |-> None]

IdleWriter == Writer("idle", None, <<>>, {})
Closing == writer.state \in {"repair", "footer", "publish"}

MayFail(what) == what \in Allowed /\ faults < MaxFaults /\ faults' = faults + 1

(* object_owed, open and attach, before any effect is served.  The session *)
(* stays owed until an object is open under it.                            *)
OpenFails ==
    /\ recording /\ opened # rec.session
    /\ writer.state = "idle"
    /\ MayFail("start")
    /\ UNCHANGED <<exec, object>>

Attaches == writer.state = "live" /\ writer.session \in {None, rec.session}

open ==
    /\ \/ /\ ~recording \/ opened = rec.session \/
               (writer.state # "idle" /\ ~Attaches)
          /\ UNCHANGED <<exec, object>>
       \/ /\ recording /\ opened # rec.session
          /\ \/ /\ writer.state = "idle"
                /\ writer' = Writer("live", rec.session, <<>>, {})
                /\ object' = [payload |-> <<>>, resume |-> {}, footer |-> None]
             \/ /\ Attaches
                /\ writer' = [writer EXCEPT !.session = rec.session]
                /\ UNCHANGED object
          /\ opened' = rec.session
          /\ by' = rec.session
    /\ UNCHANGED faults

Answer(kind) ==
    /\ outcome' = [kind |-> kind, samples |-> effect.samples]
    /\ effect' = None
    /\ pc' = "outcomes"

Serving(op) ==
    /\ pc = "serve" /\ effect.op = op
    /\ UNCHANGED <<rec, ui, caps, opened, by, card, clock, hist, bounds>>

(* RideWriter::append: all of the batch, with the totals that cover it, or *)
(* none of it.                                                             *)
CanAppend == writer.state = "live" /\ writer.session # None

(* Mutant: the journal delta is never full.                                *)
HasRoom_Always == ~writer.pending

HasRoom == ~writer.pending /\ writer.len + effect.samples <= Staged

append ==
    /\ Serving("Append")
    /\ \/ ~CanAppend /\ Answer("Write") /\ UNCHANGED writer
       \/ CanAppend /\ ~HasRoom /\ Answer("NeedsCheckpoint") /\ UNCHANGED writer
       \/ /\ CanAppend /\ HasRoom
          /\ Answer("Appended")
          /\ writer' = [writer EXCEPT !.ride = @ \o rec.samples,
                                      !.len = @ + effect.samples,
                                      !.cont = rec.totals]

Flushes == pc' = "flush" /\ UNCHANGED <<effect, outcome>>

(* Mutant: a checkpoint takes totals that are ahead of its samples.        *)
Boundary_Fresh == rec.totals

(* Only an empty staging queue permits fresh totals; otherwise the         *)
(* checkpoint keeps those of the last accepted batch.                      *)
Boundary == IF rec.samples = <<>> THEN rec.totals ELSE writer.cont

checkpoint ==
    /\ Serving("Checkpoint")
    /\ \/ writer.state # "live" /\ Answer("Write") /\ UNCHANGED writer
       \/ /\ writer.state = "live"
          /\ Flushes
          /\ writer' = IF writer.pending THEN writer ELSE
                         [writer EXCEPT !.pending = TRUE, !.cont = Boundary,
                                        !.resume = Boundary]

(* The footer freezes the totals of the first attempt.                     *)
finish ==
    [writer EXCEPT !.footer = rec.totals,
                   !.state = IF writer.pending THEN "repair" ELSE "footer",
                   !.resume = IF writer.pending THEN @ ELSE writer.cont]

finalize ==
    /\ Serving("Finalize")
    /\ \/ writer.state = "idle" /\ Answer("Discarded") /\ UNCHANGED writer
       \/ /\ writer.state \in {"damaged", "discarding"}
          /\ Answer("Write") /\ UNCHANGED writer
       \/ writer.state = "live" /\ Flushes /\ writer' = finish
       \/ Closing /\ Flushes /\ UNCHANGED writer

discard ==
    /\ Serving("Discard")
    /\ \/ writer.state = "idle" /\ Answer("Discarded") /\ UNCHANGED writer
       \/ /\ writer.state # "idle" /\ Flushes
          /\ writer' = [writer EXCEPT !.state = "discarding"]

-----------------------------------------------------------------------------
(* flush: the pending write, until there is none.                          *)

(* acknowledge.  A footer that was staged beside an outstanding append is  *)
(* journalled after it.                                                    *)
acknowledge ==
    CASE writer.state = "live" -> [writer EXCEPT !.len = 0, !.pending = FALSE]
      [] writer.state = "repair" ->
           [writer EXCEPT !.state = "footer", !.len = 0, !.pending = FALSE]
      [] writer.state = "footer" -> [writer EXCEPT !.state = "publish"]

Written ==
    [payload |-> writer.ride, resume |-> writer.resume,
     footer |-> IF writer.state = "footer" THEN writer.footer ELSE None]

Journal ==
    /\ pc = "flush" /\ writer.state \in {"live", "repair", "footer"}
    /\ object' = Written
    /\ writer' = acknowledge
    /\ IF writer.state = "live" THEN Answer("Checkpointed")
                                ELSE UNCHANGED <<effect, outcome, pc>>
    /\ UNCHANGED <<rec, ui, caps, opened, saved, clock, by, hist, bounds>>

Publish ==
    /\ saved' = [payload |-> writer.ride, footer |-> writer.footer,
                 logged |-> logged]
    /\ object' = None /\ writer' = IdleWriter

PublishRide ==
    /\ pc = "flush" /\ writer.state = "publish"
    /\ Publish
    /\ Answer("Finalized")
    /\ UNCHANGED <<rec, ui, caps, opened, clock, by, hist, bounds>>

RemoveRide ==
    /\ pc = "flush" /\ writer.state = "discarding"
    /\ object' = None /\ writer' = IdleWriter
    /\ Answer("Discarded")
    /\ UNCHANGED <<rec, ui, caps, opened, saved, clock, by, hist, bounds>>

(* A refused write leaves the writer as it was.                            *)
FlushFails ==
    /\ pc = "flush"
    /\ MayFail(IF writer.state \in {"publish", "discarding"} THEN "commit"
                                                           ELSE "journal")
    /\ \E error \in {"Write"} \cup
           (IF writer.state = "discarding" THEN {"ReadOnly"} ELSE {}) :
         Answer(error)
    /\ UNCHANGED <<rec, ui, caps, exec, card, clock, hist, batch, fixes, asks, resets>>

-----------------------------------------------------------------------------
(* A power cut, and the boot after it: RideWriter::recover classifies the  *)
(* object, settle finishes a close that lacked only its commit, and the    *)
(* rider is offered what is left.                                          *)
Boots(recovery, totals, w) ==
    /\ rec' = Machine(recovery, totals)
    /\ ui' = [mode |-> "Idle", card |-> recovery,
              screen |-> IF recovery = "None" THEN "home" ELSE "recovery"]
    /\ writer' = w

Recovered(state) ==
    [Writer(state, None, object.payload, object.resume)
        EXCEPT !.footer = object.footer]

PowerCut ==
    /\ resets < MaxResets
    /\ resets' = resets + 1
    /\ pc' = "outcomes"
    /\ caps' = FALSE /\ effect' = None /\ outcome' = None
    /\ opened' = None /\ by' = None /\ clock' = 0
    /\ logged' = IF object = None THEN {}
                 ELSE {s.at : s \in ToSet(object.payload)}
    /\ \/ object = None /\ Boots("None", {}, IdleWriter) /\ UNCHANGED <<card, faults>>
       \/ /\ object # None /\ object.footer # None
          /\ \/ /\ saved' = [payload |-> object.payload,
                              footer |-> object.footer, logged |-> logged']
                /\ object' = None
                /\ Boots("None", {}, IdleWriter)
                /\ UNCHANGED faults
             \/ /\ MayFail("settle")
                /\ Boots("None", {}, Recovered("publish"))
                /\ UNCHANGED card
       \/ /\ object # None /\ object.footer = None
          /\ \/ /\ Boots("Resumable", object.resume, Recovered("live"))
                /\ UNCHANGED faults
             \/ /\ MayFail("damage")
                /\ \E damage \in {"Repairable", "Unrepairable"} :
                     Boots(damage, {}, Recovered("damaged"))
          /\ UNCHANGED card
    /\ batch' = 0
    /\ UNCHANGED <<dropped, fixes, asks>>

-----------------------------------------------------------------------------
Init ==
    /\ rec = Machine("None", {})
    /\ ui = [mode |-> "Idle", screen |-> "home", card |-> "None"]
    /\ caps = FALSE /\ effect = None /\ outcome = None
    /\ writer = IdleWriter /\ opened = None /\ by = None
    /\ object = None /\ saved = None
    /\ clock = 0 /\ pc = "outcomes"
    /\ logged = {} /\ dropped = {}
    /\ batch = 0 /\ fixes = 0 /\ asks = 0 /\ faults = 0 /\ resets = 0

Pass ==
    \/ stage_outcomes \/ advance_recorder_session
    \/ \E passed \in {0, Cadence} : stage_input(passed)
    \/ stage_recorder /\ open

Execute ==
    \/ append \/ checkpoint \/ finalize \/ discard
    \/ Journal \/ PublishRide \/ RemoveRide

Next ==
    \/ Pass \/ Gesture \/ Execute
    \/ stage_recorder /\ OpenFails
    \/ FlushFails \/ PowerCut

(* The ride loop runs, its clock with it, and many passes fit in the time  *)
(* between two checkpoints.                                                *)
Spec ==
    /\ Init /\ [][Next]_vars
    /\ WF_vars(Pass \/ Execute)
    /\ SF_vars(stage_input(0)) /\ SF_vars(stage_input(Cadence))

-----------------------------------------------------------------------------
(* The pass and the executor stay in step: one operation is with the       *)
(* executor from its naming to its answer (inflight), neither the staging  *)
(* queue nor the journal delta overflows, and the writer is idle exactly   *)
(* when the card has no RECORDING object.                                  *)
TypeOK ==
    /\ pc \in {"outcomes", "advance", "input", "effect", "serve", "flush"}
    /\ rec.inflight = None <=> effect = None /\ outcome = None
    /\ Len(rec.samples) <= Staged /\ writer.len <= Staged
    /\ rec.session \in {None} \cup 1 .. rec.seq
    /\ (writer.state # "idle") <=> object # None

Counted(payload) == {s.at : s \in {t \in ToSet(payload) : t.counted}}

(* append_context, checkpoint_context and finish: the totals beside a ride *)
(* on the card, in its continuation or its footer, are those of exactly    *)
(* the samples it holds (and of the fixes a full queue lost, which were    *)
(* ridden): a failed checkpoint, its retry, a reset between the two and    *)
(* the continued ride after it count no interval twice and lose none.      *)
TotalsMatch ==
    /\ object # None => object.resume \ dropped = Counted(object.payload)
    /\ saved # None => saved.footer \ dropped = Counted(saved.payload)

(* next_effect's rank and apply_outcome's Appended: a published ride has   *)
(* every sample that was ever staged for it, once and in order, however    *)
(* its appends were refused, its checkpoints failed and its close retried. *)
(* After a reset, that is every sample the last durable checkpoint had.    *)
NothingStagedIsLost ==
    saved # None =>
      /\ {s.at : s \in ToSet(saved.payload)} = saved.logged
      /\ \A i \in 1 .. Len(saved.payload) - 1 :
            saved.payload[i].at < saved.payload[i + 1].at

(* record_fix: two samples of one boot that no segment start separates are *)
(* of consecutive fixes.  No line is drawn over a gap, a jump, a pause or  *)
(* a sample that the full queue lost.                                      *)
SegmentsAreContinuous ==
    saved # None =>
      \A i \in 1 .. Len(saved.payload) - 1 :
        LET a == saved.payload[i]
            b == saved.payload[i + 1]
        IN ~b.seg /\ a.boot = b.boot => b.at = a.at + 1

(* RecorderEffect::Discard: "Delete the open ride and its journal."  The   *)
(* object that is removed is the one the open session writes, or, with no  *)
(* session open, the recovered one the rider was asked about.              *)
DiscardRemovesItsOwn ==
    [][RemoveRide => by = rec.session]_vars

(* apply_outcome's re-arming and checkpoint_due: a Save of an open ride is *)
(* answered in the end, through full deltas, failed checkpoints and failed *)
(* closes, unless the rider asks for something else.  A ride whose Discard *)
(* failed is left out: its writer refuses every later Finalize.            *)
SaveCompletes ==
    (rec.pending = "Save" /\ recording /\ writer.state # "discarding") ~>
        (rec.pending # "Save")
=============================================================================
