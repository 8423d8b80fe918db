--------------------------- MODULE RecorderProofs ---------------------------
(***************************************************************************)
(* A ride is saved with the totals of exactly its samples, with every      *)
(* sample that was staged for it, and as one object that only its own      *)
(* session removes: for every capacity of the staging queue and of the     *)
(* journal delta, any cadence, any number of fixes, gestures, refused      *)
(* writes and power cuts.                                                  *)
(*                                                                         *)
(* The invariant has three layers.  LoopInvariant is about the pass and    *)
(* the executor alone, and holds of every instance.  SessionInvariant is   *)
(* about who may ask for what, on which screen and in which state of the   *)
(* recovery, and whose object the writer has.  RideInvariant is about the  *)
(* samples and totals, which are right because the writer's ride is always *)
(* the open session's or the recovered one.  The two upper layers suppose  *)
(* OneAtATime: without it a session can meet the object of another, and    *)
(* TLC shows how.                                                          *)
(***************************************************************************)
EXTENDS Recorder, SequenceTheorems, TLAPS

TypePart ==
    /\ rec \in MachineType /\ ui \in UiType /\ writer \in WriterType
    /\ caps \in BOOLEAN
    /\ effect \in EffectType \cup {None} /\ outcome \in OutcomeType \cup {None}
    /\ object \in ObjectType \cup {None} /\ saved \in SavedType \cup {None}
    /\ {opened, by} \subseteq Nat \cup {None}
    /\ logged \subseteq Nat /\ dropped \subseteq Nat
    /\ {clock, batch, fixes, asks, faults, resets} \subseteq Nat
    /\ pc \in {"outcomes", "advance", "input", "effect", "serve", "flush"}

\* An operation is with the executor from the pass that names it to the pass that takes
\* its answer, and the staging queue stands still meanwhile.
LoopPart ==
    /\ effect # None <=> pc \in {"serve", "flush"}
    /\ outcome # None => pc = "outcomes"
    /\ rec.inflight = None <=> effect = None /\ outcome = None
    /\ effect # None /\ effect.op = "Append" => effect.samples = Len(rec.samples)
    /\ outcome # None /\ outcome.kind = "Appended" => outcome.samples = Len(rec.samples)
    /\ Len(rec.samples) <= Staged /\ writer.len <= Staged
    /\ rec.session # None => rec.session \in 1 .. rec.seq
    /\ opened # None => opened \in 1 .. rec.seq
    /\ (writer.state # "idle") <=> object # None
    /\ Closing => writer.footer \in SUBSET Nat

LoopInvariant == TypePart /\ LoopPart

-----------------------------------------------------------------------------
(* Sessions. *)

\* The hypotheses of the session layer: one gesture in a pass, and a close that a boot
\* finishes is not refused.  Without either, a session can meet an object of another.
OneAtATime == Batch <= 1 /\ "settle" \notin Allowed

\* What the executor has is what the rider asked for; its answer that a ride is gone comes
\* after the object is.
AskedPart ==
    /\ effect # None \/ outcome # None =>
         caps /\ (recording \/ rec.recovery # "None")
    /\ effect # None =>
         /\ effect.op = "Finalize" => rec.pending = "Save" /\ rec.samples = <<>>
         /\ effect.op = "Discard" => rec.pending = "Discard"
         /\ effect.op \in {"Append", "Checkpoint"} => recording
    /\ pc = "flush" =>
         \/ effect.op = "Checkpoint" /\ writer.state = "live" /\ writer.pending
         \/ effect.op = "Finalize" /\ Closing
         \/ effect.op = "Discard" /\ writer.state = "discarding"
    /\ outcome # None /\ outcome.kind \in {"Finalized", "Discarded"} =>
         rec.pending \in {"Save", "Discard"} /\ writer.state = "idle"

\* A Start waits only for an object to be decided: the next pass turns every other one
\* into a session.
StartPart ==
    /\ batch <= Batch /\ (pc # "input" => batch = 0)
    /\ recording => rec.recovery = "None" /\ caps
    /\ ~recording => rec.samples = <<>>
    /\ rec.pending = "Start" =>
         /\ ~recording
         /\ pc \notin {"input", "effect"} => caps
         /\ pc = "input" /\ batch = 0 => BlocksRecording(rec)
    /\ rec.resume_next => rec.recovery = "Resumable" /\ rec.pending = "Start"
    /\ rec.restart => rec.recovery = "None" /\ rec.pending = "Save"

\* The start card is never over a session, the recovery card always over the object.
ScreenPart ==
    /\ ui.screen = "start" =>
         ~recording /\ (rec.pending = "Start" => BlocksRecording(rec))
    /\ ui.screen = "swap" => rec.recovery = "None"
    /\ ui.screen = "recovery" =>
         /\ ~recording /\ ui.card = rec.recovery /\ rec.recovery # "None"
         /\ rec.pending = None \/ (rec.pending = "Start" /\ BlocksRecording(rec))

\* A recovered ride that can be resumed is offered, being continued or being discarded, and
\* no interval is counted before it is continued.
ResumablePart ==
    rec.recovery = "Resumable" =>
        /\ effect = None /\ outcome = None /\ writer.state = "live"
        /\ \/ ui.screen = "recovery" /\ rec.pending = None /\ ui.mode = "Idle" /\ ~rec.anchor
           \/ /\ rec.pending = "Discard" /\ ui.mode = "Idle" /\ ~rec.anchor
              /\ \/ ui.screen = "home" /\ (caps \/ pc = "effect" \/ (pc = "input" /\ batch = Batch))
                 \/ ui.screen = "start" /\ caps /\ (pc = "input" => batch = Batch) /\ pc \in {"input", "effect"}
           \/ /\ rec.pending = "Start" /\ rec.resume_next /\ ui.screen = "home"
              /\ pc = "input" => batch = Batch /\ ~rec.anchor

\* The writer's object is the open session's, or is about to be attached to it, or is the
\* recovered one while no session is open.
WriterPart ==
    /\ writer.state # "idle" =>
         /\ by = writer.session
         /\ \/ writer.session = rec.session /\ (recording => opened = rec.session)
            \/ /\ writer.session = None /\ recording /\ writer.state = "live"
               /\ pc \in {"input", "effect"} /\ opened # rec.session
    /\ recording => writer.state # "damaged"
    /\ ~recording =>
         /\ ~Closing
         /\ rec.recovery = "None" => writer.state = "idle"
         /\ writer.state = "live" =>
              \/ rec.recovery = "Resumable"
              \/ pc = "serve" /\ effect.op = "Discard"
    /\ Closing =>
         /\ rec.samples = <<>>
         /\ \/ rec.pending = "Save"
            \/ /\ rec.pending = "Discard" /\ ui.mode = "Idle"
               /\ \/ pc = "input" /\ batch = Batch
                  \/ pc = "effect"
                  \/ pc = "serve" /\ effect.op = "Discard"

SessionInvariant == AskedPart /\ StartPart /\ ScreenPart /\ ResumablePart /\ WriterPart

-----------------------------------------------------------------------------
(* The ride. *)

Ats(payload) == {s.at : s \in ToSet(payload)}
Match(totals, payload, lost) == totals \ lost = Counted(payload)

\* Samples in order, no later than now, and in a segment only of consecutive fixes.
Follows(a, b) == a.at < b.at /\ (~b.seg /\ a.boot = b.boot => b.at = a.at + 1)
Sound(payload, fix, boot) ==
    /\ \A i \in 1 .. Len(payload) : payload[i].at <= fix /\ payload[i].boot <= boot
    /\ \A i \in 1 .. Len(payload) - 1 : Follows(payload[i], payload[i + 1])

\* The fix after the last one goes on in the segment of the last sample only if no fix lies
\* between them.
Joins(payload, fix, boot) ==
    payload # <<>> /\ payload[Len(payload)].boot = boot => payload[Len(payload)].at = fix

\* The samples that the machine has and the writer has not.
Unsent == IF outcome # None /\ outcome.kind = "Appended" THEN <<>> ELSE rec.samples
Whole  == writer.ride \o Unsent

\* The machine's totals are those of the writer's ride and the samples still to come.
Ours ==
    \/ writer.state \in {"live", "repair", "footer", "publish"}
    \/ writer.state = "idle" /\ recording /\ opened # rec.session
OursPart ==
    /\ writer.state = "idle" => writer.ride = <<>>
    /\ Ours =>
         /\ Match(rec.totals, Whole, dropped) /\ logged = Ats(Whole) /\ Sound(Whole, fixes, resets)
         /\ rec.anchor /\ ~rec.break => Joins(Whole, fixes, resets)
    /\ rec.recovery = "Resumable" =>
         \A i \in 1 .. Len(writer.ride) : writer.ride[i].boot < resets

\* The totals that the writer keeps beside its ride are those of the ride.
KeptPart ==
    /\ writer.state = "live" => Match(writer.cont, writer.ride, dropped)
    /\ writer.state = "live" /\ writer.pending => Match(writer.resume, writer.ride, dropped)
    /\ Closing =>
         Match(writer.resume, writer.ride, dropped) /\ Match(writer.footer, writer.ride, dropped)

CardPart ==
    /\ object # None =>
         /\ Match(object.resume, object.payload, dropped) /\ Sound(object.payload, fixes, resets)
         /\ object.footer # None => Match(object.footer, object.payload, dropped)
    /\ saved # None =>
         /\ Match(saved.footer, saved.payload, dropped) /\ Sound(saved.payload, fixes, resets)
         /\ Ats(saved.payload) = saved.logged

\* Every fix that is counted, staged or lost has happened.
PastPart ==
    /\ rec.totals \subseteq 0 .. fixes /\ logged \subseteq 0 .. fixes /\ dropped \subseteq 0 .. fixes
    /\ writer.cont \subseteq 0 .. fixes /\ writer.resume \subseteq 0 .. fixes
    /\ Closing => writer.footer \subseteq 0 .. fixes
    /\ object # None =>
         /\ object.resume \subseteq 0 .. fixes
         /\ object.footer # None => object.footer \subseteq 0 .. fixes
    /\ saved # None => saved.footer \subseteq 0 .. fixes

RideInvariant == OursPart /\ KeptPart /\ CardPart /\ PastPart

-----------------------------------------------------------------------------
(* What the operators on the machine do, field by field. *)

\* The fields that no request touches.
SameRide(r, q) ==
    /\ q.session = r.session /\ q.seq = r.seq /\ q.inflight = r.inflight
    /\ q.owed = r.owed /\ q.recovery = r.recovery /\ q.samples = r.samples
    /\ q.totals = r.totals /\ q.anchor = r.anchor /\ q.break = r.break

\* request replaces the intent.
LEMMA RequestFields ==
    ASSUME NEW r \in MachineType, NEW intent \in Intents
    PROVE  /\ request(r, intent) \in MachineType /\ SameRide(r, request(r, intent))
           /\ request(r, intent).pending = intent
           /\ request(r, intent).restart => r.restart /\ intent = "Save"
           /\ request(r, intent).resume_next => r.resume_next /\ intent = "Start"
           /\ r.resume_next /\ intent = "Start" => request(r, intent).resume_next
<1> DEFINE q == request(r, intent)
<1>1. q = [r EXCEPT !.restart = r.restart /\ intent = "Save",
                    !.resume_next = r.resume_next /\ intent = "Start",
                    !.told = FALSE, !.pending = intent]
  BY DEF request, MachineType
<1>2. q \in MachineType  BY <1>1 DEF MachineType
<1>3. SameRide(r, q) /\ q.pending = intent  BY <1>1 DEF MachineType, SameRide
<1>4. q.restart = (r.restart /\ intent = "Save")  BY <1>1 DEF MachineType
<1>5. q.resume_next = (r.resume_next /\ intent = "Start")  BY <1>1 DEF MachineType
<1>6. QED  BY <1>2, <1>3, <1>4, <1>5

\* save_and_restart asks for a Save of the same ride and no Continue.
LEMMA SaveAndRestartFields ==
    ASSUME NEW r \in MachineType
    PROVE  /\ save_and_restart(r) \in MachineType /\ SameRide(r, save_and_restart(r))
           /\ save_and_restart(r).pending = "Save"
           /\ ~save_and_restart(r).resume_next
<1> DEFINE q == request(r, "Save")
<1>1. q \in MachineType /\ SameRide(r, q) /\ q.pending = "Save" /\ ~q.resume_next
  BY RequestFields DEF Intents
<1>2. save_and_restart(r) = [q EXCEPT !.restart = TRUE]  BY DEF save_and_restart
<1> HIDE DEF q
<1>3. save_and_restart(r) \in MachineType  BY <1>1, <1>2 DEF MachineType
<1>4. QED  BY <1>1, <1>2, <1>3 DEF MachineType, SameRide

\* continue_recovered asks for a Start of the same ride and no restart.
LEMMA ContinueFields ==
    ASSUME NEW r \in MachineType
    PROVE  /\ continue_recovered(r) \in MachineType /\ SameRide(r, continue_recovered(r))
           /\ continue_recovered(r).pending = "Start"
           /\ continue_recovered(r).resume_next /\ ~continue_recovered(r).restart
<1> DEFINE q == [r EXCEPT !.resume_next = TRUE]
<1>1. q \in MachineType /\ SameRide(r, q) /\ q.resume_next = TRUE  BY DEF MachineType, SameRide
<1>2. continue_recovered(r) = request(q, "Start")  BY DEF continue_recovered
<1> HIDE DEF q
<1>3. QED  BY <1>1, <1>2, RequestFields DEF Intents, SameRide

\* A closed session leaves an empty machine, with a Start if one was to follow.
LEMMA CloseFields ==
    ASSUME NEW r \in MachineType
    PROVE  LET q == end_ride_session(close(Settled(r)))
           IN  /\ q \in MachineType /\ q.session = None /\ q.seq = r.seq /\ q.inflight = None
               /\ q.samples = <<>> /\ q.recovery = "None" /\ ~q.restart
               /\ q.resume_next = r.resume_next
               /\ q.pending = IF r.restart THEN "Start" ELSE None
               /\ q.totals = {}
<1> DEFINE a == Settled(r)
           b == close(a)
           c == reset_totals(b)
           q == restart_buffers(c)
<1>1. a \in MachineType /\ a.seq = r.seq /\ a.inflight = None /\ a.resume_next = r.resume_next /\ a.restart = r.restart
  BY DEF Settled, MachineType
<1> HIDE DEF a
<1>2. b = [a EXCEPT !.session = None, !.samples = <<>>, !.owed = "No", !.recovery = "None",
                    !.restart = FALSE, !.pending = IF a.restart THEN "Start" ELSE None]
  BY DEF close
<1> HIDE DEF b
<1>0. <<>> \in Seq(Sampled)  OBVIOUS
<1>3. b \in MachineType
  <2> DEFINE p == IF a.restart THEN "Start" ELSE None
  <2>1. p \in Intents \cup {None}  BY DEF Intents
  <2>2. "None" \in Recoveries  BY DEF Recoveries
  <2> HIDE DEF p
  <2>3. b = [a EXCEPT !.session = None, !.samples = <<>>, !.owed = "No", !.recovery = "None",
                      !.restart = FALSE, !.pending = p]
    BY <1>2 DEF p
  <2>4. QED  BY <1>0, <1>1, <2>1, <2>2, <2>3 DEF MachineType
<1>4. /\ b.session = None /\ b.seq = r.seq /\ b.inflight = None /\ b.recovery = "None" /\ b.restart = FALSE
      /\ b.resume_next = r.resume_next /\ b.pending = IF r.restart THEN "Start" ELSE None
  BY <1>1, <1>2 DEF MachineType
<1>5. c \in MachineType /\ c.totals = {} /\ c.session = None /\ c.seq = r.seq /\ c.inflight = None
      /\ c.recovery = "None" /\ c.restart = FALSE /\ c.resume_next = r.resume_next
      /\ c.pending = IF r.restart THEN "Start" ELSE None
  BY <1>3, <1>4 DEF reset_totals, MachineType
<1> HIDE DEF c
<1>6. q \in MachineType /\ q.samples = <<>> /\ q.totals = {} /\ q.session = None /\ q.seq = r.seq /\ q.inflight = None
      /\ q.recovery = "None" /\ q.restart = FALSE /\ q.resume_next = r.resume_next
      /\ q.pending = IF r.restart THEN "Start" ELSE None
  BY <1>0, <1>5 DEF restart_buffers, MachineType
<1>7. QED  BY <1>6 DEF end_ride_session, a, b, c

\* A session starts with nothing staged, and with the totals of the ride it continues or none.
LEMMA OpenedFields ==
    ASSUME NEW r \in MachineType
    PROVE  /\ Opened(r) \in MachineType /\ Opened(r).session = r.seq + 1 /\ Opened(r).seq = r.seq + 1
           /\ Opened(r).inflight = r.inflight /\ Opened(r).pending = None /\ Opened(r).recovery = "None"
           /\ ~Opened(r).resume_next /\ Opened(r).restart = r.restart /\ Opened(r).samples = <<>>
           /\ r.resume_next => /\ Opened(r).totals = r.totals /\ Opened(r).anchor = r.anchor
                               /\ Opened(r).break = r.break
           /\ ~r.resume_next => Opened(r).totals = {} /\ ~Opened(r).anchor /\ ~Opened(r).break
<1> DEFINE a == [r EXCEPT !.pending = None, !.told = FALSE, !.owed = "No", !.resume_next = FALSE,
                          !.recovery = "None", !.seq = r.seq + 1, !.session = r.seq + 1]
           b == IF r.resume_next THEN a ELSE reset_totals(a)
<1>1. a \in MachineType
  <2>1. r.seq + 1 \in Nat /\ "None" \in Recoveries  BY DEF MachineType, Recoveries
  <2>2. QED  BY <2>1 DEF MachineType
<1>2. /\ a.session = r.seq + 1 /\ a.seq = r.seq + 1 /\ a.inflight = r.inflight /\ a.pending = None
      /\ a.recovery = "None" /\ a.resume_next = FALSE /\ a.restart = r.restart
      /\ a.totals = r.totals /\ a.anchor = r.anchor /\ a.break = r.break
  BY DEF MachineType
<1>3. Opened(r) = restart_buffers(b)  BY DEF Opened, MachineType
<1> HIDE DEF a
<1>4. /\ b \in MachineType
      /\ b.session = r.seq + 1 /\ b.seq = r.seq + 1 /\ b.inflight = r.inflight /\ b.pending = None
      /\ b.recovery = "None" /\ b.resume_next = FALSE /\ b.restart = r.restart
      /\ r.resume_next => b.totals = r.totals /\ b.anchor = r.anchor /\ b.break = r.break
      /\ ~r.resume_next => b.totals = {} /\ b.anchor = FALSE /\ b.break = FALSE
  <2>1. CASE r.resume_next  BY <2>1, <1>1, <1>2
  <2>2. CASE ~r.resume_next  BY <2>2, <1>1, <1>2 DEF reset_totals, MachineType
  <2>3. QED  BY <2>1, <2>2
<1> HIDE DEF b
<1>5. <<>> \in Seq(Sampled)  OBVIOUS
<1>6. /\ Opened(r) \in MachineType
      /\ Opened(r).session = b.session /\ Opened(r).seq = b.seq /\ Opened(r).inflight = b.inflight
      /\ Opened(r).pending = b.pending /\ Opened(r).recovery = b.recovery
      /\ Opened(r).resume_next = b.resume_next /\ Opened(r).restart = b.restart /\ Opened(r).samples = <<>>
      /\ Opened(r).totals = b.totals /\ Opened(r).anchor = b.anchor /\ Opened(r).break = b.break
  BY <1>3, <1>4, <1>5 DEF restart_buffers, MachineType
<1>7. QED  BY <1>4, <1>6

\* The fields that an answer other than the end of a ride leaves alone.
Answers(r, q) ==
    /\ q.session = r.session /\ q.seq = r.seq /\ q.inflight = None
    /\ q.restart = r.restart /\ q.resume_next = r.resume_next
    /\ q.totals = r.totals /\ q.anchor = r.anchor /\ q.break = r.break

\* apply_outcome of everything but the end of a ride: an accepted batch leaves the queue,
\* a failed attempt at a recovered object is latched.
LEMMA AnsweredFields ==
    ASSUME NEW r \in MachineType, outcome \in OutcomeType, outcome.kind \notin {"Finalized", "Discarded"},
           outcome.kind = "Appended" => outcome.samples = Len(r.samples)
    PROVE  /\ apply_outcome(r) \in MachineType /\ Answers(r, apply_outcome(r))
           /\ apply_outcome(r).samples = IF outcome.kind = "Appended" THEN <<>> ELSE r.samples
           /\ IF outcome.kind \in {"Write", "ReadOnly"} /\ r.recovery \in Attempt
              THEN /\ apply_outcome(r).pending = None
                   /\ apply_outcome(r).recovery \in {"Unrepairable", "DiscardFailed", "RepairFailed"}
              ELSE apply_outcome(r).pending = r.pending /\ apply_outcome(r).recovery = r.recovery
<1> DEFINE a == Settled(r)
           q == apply_outcome(r)
<1>1. /\ a \in MachineType /\ Answers(r, a) /\ a.samples = r.samples /\ a.owed = r.owed
      /\ a.pending = r.pending /\ a.recovery = r.recovery
  BY DEF Settled, MachineType, Answers
<1>2. CASE outcome.kind = "Appended"
  <2> DEFINE o == IF outcome.samples < Len(r.samples) THEN "Immediate" ELSE a.owed
  <2>1. q = [a EXCEPT !.samples = SubSeq(a.samples, outcome.samples + 1, Len(a.samples)), !.owed = o]
    BY <1>1, <1>2 DEF apply_outcome, MachineType
  <2>2. r.samples \in Seq(Sampled)  BY DEF MachineType
  <2>3. SubSeq(a.samples, outcome.samples + 1, Len(a.samples)) = <<>>
    BY <1>1, <1>2, <2>2
  <2>4. o \in {"No", "Immediate", "Backoff"}  BY <1>1 DEF MachineType
  <2> HIDE DEF o, a, q
  <2>5. <<>> \in Seq(Sampled)  OBVIOUS
  <2>6. q \in MachineType  BY <1>1, <2>1, <2>3, <2>4, <2>5 DEF MachineType
  <2>7. Answers(r, q) /\ q.samples = <<>> /\ q.pending = r.pending /\ q.recovery = r.recovery
    BY <1>1, <2>1, <2>3 DEF MachineType, Answers
  <2>8. QED  BY <1>2, <2>6, <2>7 DEF q
<1>3. CASE outcome.kind \in {"NeedsCheckpoint", "Checkpointed"}
  <2>1. q = a \/ q = [a EXCEPT !.owed = "Immediate"]  BY <1>3 DEF apply_outcome
  <2> HIDE DEF a, q
  <2>2. q \in MachineType /\ Answers(r, q) /\ q.samples = r.samples /\ q.pending = r.pending /\ q.recovery = r.recovery
    BY <1>1, <2>1 DEF MachineType, Answers
  <2>3. QED  BY <1>3, <2>2 DEF q
<1>4. CASE outcome.kind \in {"Write", "ReadOnly"} /\ r.recovery \in Attempt
  <2> DEFINE v == IF outcome.kind = "ReadOnly" THEN "Unrepairable" ELSE Latched(a.recovery)
  <2>1. q = [a EXCEPT !.pending = None, !.recovery = v]  BY <1>1, <1>4 DEF apply_outcome, MachineType
  <2>2. v \in {"Unrepairable", "DiscardFailed", "RepairFailed"}  BY DEF Latched
  <2>3. v \in Recoveries  BY <2>2 DEF Recoveries
  <2> HIDE DEF a, q, v
  <2>4. q \in MachineType  BY <1>1, <2>1, <2>3 DEF MachineType
  <2>5. Answers(r, q) /\ q.samples = r.samples /\ q.pending = None /\ q.recovery = v
    BY <1>1, <2>1 DEF MachineType, Answers
  <2>6. QED  BY <1>4, <2>2, <2>4, <2>5 DEF q
<1>5. CASE outcome.kind \in {"Write", "ReadOnly"} /\ r.recovery \notin Attempt
  <2> DEFINE v == CASE r.inflight = "Checkpoint" -> "Backoff"
                    [] r.inflight = "Append" -> "Immediate"
                    [] OTHER -> a.owed
  <2>1. q = a \/ q = [a EXCEPT !.owed = v]
    BY <1>1, <1>5 DEF apply_outcome, WriteFailed, MachineType
  <2>2. v \in {"No", "Immediate", "Backoff"}  BY <1>1 DEF MachineType
  <2> HIDE DEF a, q, v
  <2>3. q \in MachineType  BY <1>1, <2>1, <2>2 DEF MachineType
  <2>4. Answers(r, q) /\ q.samples = r.samples /\ q.pending = r.pending /\ q.recovery = r.recovery
    BY <1>1, <2>1 DEF MachineType, Answers
  <2>5. QED  BY <1>5, <2>3, <2>4 DEF q
<1>6. QED  BY <1>2, <1>3, <1>4, <1>5 DEF OutcomeType

\* next_effect offers what the session or the recovered object has, in its rank.
LEMMA OfferFacts ==
    ASSUME rec \in MachineType
    PROVE  /\ Offer # None =>
                /\ Offer \in EffectType /\ ~Refuses
                /\ Offer.op = "Finalize" => rec.pending = "Save" /\ rec.samples = <<>>
                /\ Offer.op = "Discard" => rec.pending = "Discard"
                /\ Offer.op \in {"Append", "Checkpoint"} => recording
                /\ Offer.op = "Append" => Offer.samples = Len(rec.samples)
           /\ ~Refuses /\ rec.pending = "Discard" => Offer # None /\ Offer.op = "Discard"
<1>1. Len(rec.samples) \in Nat  BY DEF MachineType
<1>2. \A op \in {"Append", "Checkpoint", "Finalize", "Discard"}, n \in Nat :
        Effect(op, n) \in EffectType /\ Effect(op, n).op = op /\ Effect(op, n).samples = n
  BY DEF Effect, EffectType
<1>3. \/ Offer = None
      \/ Offer = Effect("Finalize", 0) /\ rec.pending = "Save" /\ Drained /\ ~Refuses
      \/ Offer = Effect("Discard", 0) /\ rec.pending = "Discard" /\ ~Refuses
      \/ Offer = Effect("Checkpoint", 0) /\ recording /\ ~Refuses
      \/ Offer = Effect("Append", Len(rec.samples)) /\ recording /\ ~Refuses
  BY DEF Offer
<1>4. ~Refuses /\ rec.pending = "Discard" => Offer = Effect("Discard", 0)  BY DEF Offer
<1>5. ASSUME Offer # None
      PROVE  /\ Offer \in EffectType /\ ~Refuses
             /\ Offer.op = "Finalize" => rec.pending = "Save" /\ rec.samples = <<>>
             /\ Offer.op = "Discard" => rec.pending = "Discard"
             /\ Offer.op \in {"Append", "Checkpoint"} => recording
             /\ Offer.op = "Append" => Offer.samples = Len(rec.samples)
  BY <1>1, <1>2, <1>3, <1>5 DEF Drained
<1>6. QED
  <2>1. ~Refuses /\ rec.pending = "Discard" => Offer # None /\ Offer.op = "Discard"
    BY <1>2, <1>4, NoneAssumption
  <2>2. QED  BY <1>5, <2>1

\* What naming an effect changes in the machine.
LEMMA NamedFields ==
    ASSUME rec \in MachineType, stage_recorder
    PROVE  /\ rec' \in MachineType
           /\ rec'.session = rec.session /\ rec'.seq = rec.seq /\ rec'.pending = rec.pending
           /\ rec'.resume_next = rec.resume_next /\ rec'.restart = rec.restart
           /\ rec'.samples = rec.samples /\ rec'.totals = rec.totals
           /\ rec'.anchor = rec.anchor /\ rec'.break = rec.break
           /\ Offer = None => rec' = rec
           /\ Offer # None => rec'.inflight # None
           /\ rec'.recovery = IF Offer # None /\ Offer.op = "Discard" THEN Attempting(rec.recovery)
                                                                      ELSE rec.recovery
<1>1. CASE Offer = None  BY <1>1 DEF stage_recorder
<1>2. CASE Offer # None
  <2> DEFINE i == InFlight(Offer.op)
             o == IF Offer.op = "Checkpoint" THEN "No" ELSE rec.owed
             v == IF Offer.op = "Discard" THEN Attempting(rec.recovery) ELSE rec.recovery
  <2>1. rec' = [rec EXCEPT !.inflight = i, !.owed = o, !.recovery = v]
    BY <1>2 DEF stage_recorder, MachineType
  <2>2. i \in Operations  BY <1>2, OfferFacts DEF InFlight, Operations, EffectType
  <2>3. o \in {"No", "Immediate", "Backoff"}  BY DEF MachineType
  <2>4. v \in Recoveries
    <3>1. rec.recovery \in Recoveries  BY DEF MachineType
    <3>2. QED  BY <3>1 DEF Attempting, Recoveries
  <2>5. rec'.recovery = v  BY <2>1 DEF MachineType
  <2> HIDE DEF i, o, v
  <2>6. rec' \in MachineType  BY <2>1, <2>2, <2>3, <2>4 DEF MachineType
  <2>7. /\ rec'.session = rec.session /\ rec'.seq = rec.seq /\ rec'.pending = rec.pending
        /\ rec'.resume_next = rec.resume_next /\ rec'.restart = rec.restart
        /\ rec'.samples = rec.samples /\ rec'.totals = rec.totals
        /\ rec'.anchor = rec.anchor /\ rec'.break = rec.break /\ rec'.inflight = i
    BY <2>1 DEF MachineType
  <2>8. QED  BY <1>2, <2>2, <2>5, <2>6, <2>7, NoneAssumption DEF v
<1>3. QED  BY <1>1, <1>2

\* The fields that a fix leaves alone.
SameSession(r, q) ==
    /\ q.session = r.session /\ q.seq = r.seq /\ q.inflight = r.inflight
    /\ q.pending = r.pending /\ q.resume_next = r.resume_next /\ q.restart = r.restart
    /\ q.recovery = r.recovery

\* A fix is not ridden, is counted alone, is staged, or is lost to a full queue.
LEMMA FixFields ==
    ASSUME rec \in MachineType, fixes \in Nat, resets \in Nat, NEW jump \in BOOLEAN, Fix(jump)
    PROVE  /\ rec' \in MachineType /\ SameSession(rec, rec') /\ fixes' = fixes + 1
           /\ \/ /\ ~Riding /\ UNCHANGED hist
                 /\ rec'.samples = rec.samples /\ rec'.totals = rec.totals /\ ~rec'.anchor
              \/ /\ Riding /\ rec'.anchor
                 /\ rec'.totals = IF rec.anchor /\ ~jump THEN rec.totals \cup {fixes + 1} ELSE rec.totals
                 /\ \/ (jump \/ ~recording) /\ UNCHANGED hist /\ rec'.samples = rec.samples /\ rec'.break = jump
                    \/ /\ ~jump /\ recording /\ Len(rec.samples) < Staged
                       /\ rec'.samples = Append(rec.samples, Sample(~rec.anchor \/ rec.break, rec.anchor))
                       /\ logged' = logged \cup {fixes + 1} /\ dropped' = dropped /\ ~rec'.break
                    \/ /\ ~jump /\ recording /\ Len(rec.samples) >= Staged
                       /\ rec'.samples = rec.samples /\ rec'.break
                       /\ logged' = logged /\ dropped' = dropped \cup {fixes + 1}
<1>1. fixes' = fixes + 1  BY DEF Fix
<1>2. CASE ~Riding
  <2>1. rec' = [rec EXCEPT !.anchor = FALSE] /\ UNCHANGED hist  BY <1>2 DEF Fix
  <2>2. rec' \in MachineType /\ SameSession(rec, rec')
        /\ rec'.samples = rec.samples /\ rec'.totals = rec.totals /\ ~rec'.anchor
    BY <2>1 DEF MachineType, SameSession
  <2>3. QED  BY <1>1, <1>2, <2>1, <2>2
<1>3. CASE Riding
  <2> DEFINE t == IF rec.anchor /\ ~jump THEN rec.totals \cup {fixes + 1} ELSE rec.totals
             a == integrate(jump)
  <2>1. a = [rec EXCEPT !.anchor = TRUE, !.break = jump, !.totals = t]
    BY DEF integrate, MachineType
  <2>2. t \in SUBSET Nat  BY DEF MachineType
  <2> HIDE DEF t, a
  <2>3. a \in MachineType /\ SameSession(rec, a) /\ a.samples = rec.samples
        /\ a.anchor = TRUE /\ a.break = jump /\ a.totals = t
    BY <2>1, <2>2 DEF MachineType, SameSession
  <2>4. CASE jump \/ ~recording
    BY <1>1, <1>3, <2>3, <2>4 DEF Fix, a, t
  <2>5. CASE ~jump /\ recording
    <3> DEFINE s == Sample(~rec.anchor \/ rec.break, rec.anchor)
    <3>1. /\ rec' = Staging(a, s)
          /\ logged' = (IF Len(rec.samples) < Staged THEN logged \cup {fixes + 1} ELSE logged)
          /\ dropped' = (IF Len(rec.samples) < Staged THEN dropped ELSE dropped \cup {fixes + 1})
      BY <1>3, <2>5 DEF Fix, a
    <3>2. s \in Sampled  BY DEF Sample, Sampled, MachineType
    <3>3. rec.samples \in Seq(Sampled) /\ Len(rec.samples) \in Nat  BY DEF MachineType
    <3>4. Staged \in Nat  BY RecorderAssumption
    <3> HIDE DEF s
    <3>5. CASE Len(rec.samples) < Staged
      <4>1. rec' = [a EXCEPT !.samples = Append(rec.samples, s)]
        BY <2>3, <3>1, <3>5 DEF Staging, MachineType
      <4>2. Append(rec.samples, s) \in Seq(Sampled)  BY <3>2, <3>3
      <4>3. rec' \in MachineType  BY <2>3, <4>1, <4>2 DEF MachineType
      <4>4. SameSession(rec, rec') /\ rec'.samples = Append(rec.samples, s)
            /\ rec'.anchor = TRUE /\ rec'.break = FALSE /\ rec'.totals = t
        BY <2>3, <2>5, <4>1 DEF MachineType, SameSession
      <4>5. QED  BY <1>1, <1>3, <2>5, <3>1, <3>5, <4>3, <4>4 DEF s, t
    <3>6. CASE Len(rec.samples) >= Staged
      <4>1. rec' = [a EXCEPT !.break = TRUE]  BY <2>3, <3>1, <3>3, <3>4, <3>6 DEF Staging
      <4>2. rec' \in MachineType  BY <2>3, <4>1 DEF MachineType
      <4>3. SameSession(rec, rec') /\ rec'.samples = rec.samples
            /\ rec'.anchor = TRUE /\ rec'.break = TRUE /\ rec'.totals = t
        BY <2>3, <4>1 DEF MachineType, SameSession
      <4>4. QED  BY <1>1, <1>3, <2>5, <3>1, <3>3, <3>4, <3>6, <4>2, <4>3 DEF t
    <3>7. QED  BY <3>3, <3>4, <3>5, <3>6
  <2>6. QED  BY <2>4, <2>5
<1>4. QED  BY <1>2, <1>3

-----------------------------------------------------------------------------
(* The writer, field by field. *)

\* A fresh writer.
LEMMA WriterFields ==
    ASSUME NEW state \in {"idle", "live", "repair", "footer", "publish", "damaged", "discarding"},
           NEW session \in Nat \cup {None}, NEW ride \in Seq(Sampled), NEW cont \in SUBSET Nat
    PROVE  LET w == Writer(state, session, ride, cont)
           IN  /\ w \in WriterType /\ w.state = state /\ w.session = session /\ w.ride = ride
               /\ w.len = 0 /\ w.pending = FALSE /\ w.cont = cont /\ w.resume = cont /\ w.footer = None
<1>1. Writer(state, session, ride, cont) \in WriterType  BY DEF Writer, WriterType
<1>2. QED  BY <1>1 DEF Writer

\* The writer of no ride.
LEMMA IdleFields ==
    /\ IdleWriter \in WriterType /\ IdleWriter.state = "idle" /\ IdleWriter.session = None
    /\ IdleWriter.ride = <<>> /\ IdleWriter.len = 0 /\ IdleWriter.pending = FALSE
    /\ IdleWriter.cont = {} /\ IdleWriter.resume = {} /\ IdleWriter.footer = None
<1>1. <<>> \in Seq(Sampled) /\ {} \in SUBSET Nat  OBVIOUS
<1>2. IdleWriter \in WriterType  BY <1>1 DEF IdleWriter, Writer, WriterType
<1>3. QED  BY <1>2 DEF IdleWriter, Writer

\* The fields that no step of closing a ride touches.
SameWriter(v, w) == w.session = v.session /\ w.ride = v.ride

\* An accepted batch.
LEMMA AppendedFields ==
    ASSUME writer \in WriterType, rec \in MachineType, effect \in EffectType,
           writer' = [writer EXCEPT !.ride = @ \o rec.samples, !.len = @ + effect.samples, !.cont = rec.totals]
    PROVE  /\ writer' \in WriterType /\ writer'.state = writer.state /\ writer'.session = writer.session
           /\ writer'.ride = writer.ride \o rec.samples /\ writer'.len = writer.len + effect.samples
           /\ writer'.pending = writer.pending /\ writer'.cont = rec.totals
           /\ writer'.resume = writer.resume /\ writer'.footer = writer.footer
<1> DEFINE r == writer.ride \o rec.samples
           n == writer.len + effect.samples
<1>1. r \in Seq(Sampled)
  <2>1. writer.ride \in Seq(Sampled) /\ rec.samples \in Seq(Sampled)  BY DEF WriterType, MachineType
  <2>2. QED  BY <2>1
<1>2. n \in Nat /\ rec.totals \in SUBSET Nat  BY DEF WriterType, MachineType, EffectType
<1>3. writer' = [writer EXCEPT !.ride = r, !.len = n, !.cont = rec.totals]  BY DEF WriterType
<1>4. writer'.ride = r /\ writer'.len = n  BY <1>3 DEF WriterType
<1> HIDE DEF r, n
<1>5. writer' \in WriterType  BY <1>1, <1>2, <1>3 DEF WriterType
<1>6. /\ writer'.state = writer.state /\ writer'.session = writer.session
      /\ writer'.pending = writer.pending /\ writer'.cont = rec.totals
      /\ writer'.resume = writer.resume /\ writer'.footer = writer.footer
  BY <1>3 DEF WriterType
<1>7. QED  BY <1>4, <1>5, <1>6 DEF r, n

\* A checkpoint that is staged, or was.
LEMMA CheckpointFields ==
    ASSUME writer \in WriterType, rec \in MachineType,
           writer' = IF writer.pending THEN writer ELSE
                       [writer EXCEPT !.pending = TRUE, !.cont = Boundary, !.resume = Boundary]
    PROVE  /\ writer' \in WriterType /\ SameWriter(writer, writer') /\ writer'.state = writer.state
           /\ writer'.len = writer.len /\ writer'.pending /\ writer'.footer = writer.footer
           /\ writer.pending => writer' = writer
           /\ ~writer.pending => writer'.cont = Boundary /\ writer'.resume = Boundary
<1>1. CASE writer.pending  BY <1>1 DEF SameWriter
<1>2. CASE ~writer.pending
  <2>1. Boundary \in SUBSET Nat  BY DEF Boundary, WriterType, MachineType
  <2>2. writer' = [writer EXCEPT !.pending = TRUE, !.cont = Boundary, !.resume = Boundary]  BY <1>2
  <2>3. writer' \in WriterType  BY <2>1, <2>2 DEF WriterType
  <2>4. SameWriter(writer, writer') /\ writer'.state = writer.state /\ writer'.len = writer.len /\ writer'.pending = TRUE
        /\ writer'.cont = Boundary /\ writer'.resume = Boundary /\ writer'.footer = writer.footer
    BY <2>2 DEF WriterType, SameWriter
  <2>5. QED  BY <1>2, <2>3, <2>4
<1>3. QED  BY <1>1, <1>2

\* The footer is frozen beside the append still outstanding, or at once.
LEMMA FinishFields ==
    ASSUME writer \in WriterType, rec \in MachineType, writer' = finish
    PROVE  /\ writer' \in WriterType /\ SameWriter(writer, writer') /\ writer'.len = writer.len
           /\ writer'.pending = writer.pending /\ writer'.cont = writer.cont /\ writer'.footer = rec.totals
           /\ writer'.state = IF writer.pending THEN "repair" ELSE "footer"
           /\ writer'.resume = IF writer.pending THEN writer.resume ELSE writer.cont
<1> DEFINE s == IF writer.pending THEN "repair" ELSE "footer"
           m == IF writer.pending THEN writer.resume ELSE writer.cont
<1>1. writer' = [writer EXCEPT !.footer = rec.totals, !.state = s, !.resume = m]  BY DEF finish, WriterType
<1>2. /\ s \in {"repair", "footer"} /\ m \in SUBSET Nat /\ rec.totals \in SUBSET Nat
  BY DEF WriterType, MachineType
<1>3. writer'.state = s /\ writer'.resume = m  BY <1>1 DEF WriterType
<1> HIDE DEF s, m
<1>4. writer' \in WriterType  BY <1>1, <1>2 DEF WriterType
<1>5. SameWriter(writer, writer') /\ writer'.len = writer.len /\ writer'.pending = writer.pending
      /\ writer'.cont = writer.cont /\ writer'.footer = rec.totals
  BY <1>1 DEF WriterType, SameWriter
<1>6. QED  BY <1>3, <1>4, <1>5 DEF s, m

\* An empty delta.
LEMMA EmptiedType ==
    ASSUME NEW w \in WriterType
    PROVE  /\ [w EXCEPT !.len = 0, !.pending = FALSE] \in WriterType
           /\ [w EXCEPT !.state = "footer", !.len = 0, !.pending = FALSE] \in WriterType
<1>1. 0 \in Nat /\ FALSE \in BOOLEAN  OBVIOUS
<1>2. \A n \in Nat, b \in BOOLEAN : [w EXCEPT !.len = n, !.pending = b] \in WriterType  BY DEF WriterType
<1>3. \A n \in Nat, b \in BOOLEAN : [w EXCEPT !.state = "footer", !.len = n, !.pending = b] \in WriterType
  BY DEF WriterType
<1>4. QED  BY <1>1, <1>2, <1>3

\* A durable journal write.
LEMMA AcknowledgeFields ==
    ASSUME writer \in WriterType, writer.state \in {"live", "repair", "footer"}, writer' = acknowledge
    PROVE  /\ writer' \in WriterType /\ SameWriter(writer, writer') /\ writer'.len \in {0, writer.len}
           /\ writer'.cont = writer.cont /\ writer'.resume = writer.resume /\ writer'.footer = writer.footer
           /\ writer.state = "live" => writer'.state = "live" /\ ~writer'.pending
           /\ writer.state = "repair" => writer'.state = "footer"
           /\ writer.state = "footer" => writer'.state = "publish"
<1>1. CASE writer.state = "live"
  <2>1. writer' = [writer EXCEPT !.len = 0, !.pending = FALSE]  BY <1>1 DEF acknowledge
  <2>2. writer' \in WriterType  BY <2>1, EmptiedType
  <2>3. SameWriter(writer, writer') /\ writer'.len = 0 /\ writer'.pending = FALSE /\ writer'.state = writer.state
        /\ writer'.cont = writer.cont /\ writer'.resume = writer.resume /\ writer'.footer = writer.footer
    BY <2>1 DEF WriterType, SameWriter
  <2>4. QED  BY <1>1, <2>2, <2>3
<1>2. CASE writer.state = "repair"
  <2>1. writer' = [writer EXCEPT !.state = "footer", !.len = 0, !.pending = FALSE]  BY <1>2 DEF acknowledge
  <2>2. writer' \in WriterType  BY <2>1, EmptiedType
  <2>3. SameWriter(writer, writer') /\ writer'.len = 0 /\ writer'.state = "footer"
        /\ writer'.cont = writer.cont /\ writer'.resume = writer.resume /\ writer'.footer = writer.footer
    BY <2>1 DEF WriterType, SameWriter
  <2>4. QED  BY <1>2, <2>2, <2>3
<1>3. CASE writer.state = "footer"
  <2>1. writer' = [writer EXCEPT !.state = "publish"]  BY <1>3 DEF acknowledge
  <2>2. writer' \in WriterType  BY <2>1 DEF WriterType
  <2>3. SameWriter(writer, writer') /\ writer'.len = writer.len /\ writer'.state = "publish"
        /\ writer'.cont = writer.cont /\ writer'.resume = writer.resume /\ writer'.footer = writer.footer
    BY <2>1 DEF WriterType, SameWriter
  <2>4. QED  BY <1>3, <2>2, <2>3
<1>4. QED  BY <1>1, <1>2, <1>3

\* A writer that discards, or that a session is attached to.
LEMMA TouchedFields ==
    ASSUME writer \in WriterType
    PROVE  /\ writer' = [writer EXCEPT !.state = "discarding"] =>
                /\ writer' \in WriterType /\ SameWriter(writer, writer') /\ writer'.state = "discarding"
                /\ writer'.len = writer.len /\ writer'.cont = writer.cont /\ writer'.resume = writer.resume
           /\ \A n \in Nat : writer' = [writer EXCEPT !.session = n] =>
                /\ writer' \in WriterType /\ writer'.session = n /\ writer'.state = writer.state
                /\ writer'.ride = writer.ride /\ writer'.pending = writer.pending
                /\ writer'.len = writer.len /\ writer'.cont = writer.cont /\ writer'.resume = writer.resume
                /\ writer'.footer = writer.footer
  BY DEF WriterType, SameWriter

\* The writer that a boot finds on the card.
LEMMA RecoveredFields ==
    ASSUME object \in ObjectType, NEW state \in {"live", "publish", "damaged"}
    PROVE  LET w == Recovered(state)
           IN  /\ w \in WriterType /\ w.state = state /\ w.session = None /\ w.ride = object.payload
               /\ w.len = 0 /\ w.pending = FALSE /\ w.cont = object.resume /\ w.resume = object.resume
               /\ w.footer = object.footer
<1>1. object.payload \in Seq(Sampled) /\ object.resume \in SUBSET Nat /\ object.footer \in (SUBSET Nat) \cup {None}
  BY DEF ObjectType
<1> DEFINE v == Writer(state, None, object.payload, object.resume)
           w == Recovered(state)
<1>2. v \in WriterType  BY <1>1 DEF Writer, WriterType
<1>3. /\ v.state = state /\ v.session = None /\ v.ride = object.payload
      /\ v.len = 0 /\ v.pending = FALSE /\ v.cont = object.resume /\ v.resume = object.resume
  BY DEF Writer
<1>4. w = [v EXCEPT !.footer = object.footer]  BY DEF Recovered
<1> HIDE DEF v, w
<1>5. w \in WriterType  BY <1>1, <1>2, <1>4 DEF WriterType
<1>6. /\ w.state = v.state /\ w.session = v.session /\ w.ride = v.ride /\ w.len = v.len /\ w.pending = v.pending
      /\ w.cont = v.cont /\ w.resume = v.resume /\ w.footer = object.footer
  BY <1>2, <1>4 DEF WriterType
<1>7. QED  BY <1>3, <1>5, <1>6 DEF w

-----------------------------------------------------------------------------
(* The pass and the executor. *)

\* stage_outcomes keeps the loop in step.
LEMMA LoopOutcomes ==
    ASSUME LoopInvariant, stage_outcomes
    PROVE  LoopInvariant'
<1> USE DEF LoopInvariant
<1>1. /\ pc = "outcomes" /\ pc' = "advance" /\ outcome' = None /\ effect = None /\ effect' = None
      /\ UNCHANGED <<caps, writer, opened, by, object, saved, dropped, batch, fixes, asks, faults, resets>>
  BY DEF stage_outcomes, LoopPart, exec, card, bounds
<1>2. /\ rec' \in MachineType /\ rec'.seq = rec.seq /\ rec'.session \in {rec.session, None}
      /\ rec'.inflight = None /\ Len(rec'.samples) <= Staged
  <2>1. Len(<<>>) = 0 /\ 0 <= Staged  BY RecorderAssumption
  <2>2. CASE outcome = None  BY <2>2, <1>1 DEF stage_outcomes, TypePart, LoopPart
  <2>3. CASE outcome # None /\ outcome.kind \in {"Finalized", "Discarded"}
    <3>1. rec' = end_ride_session(close(Settled(rec)))  BY <2>3 DEF stage_outcomes, apply_outcome
    <3>2. QED  BY <2>1, <3>1, CloseFields DEF TypePart
  <2>4. CASE outcome # None /\ outcome.kind \notin {"Finalized", "Discarded"}
    <3>1. rec' = apply_outcome(rec)  BY <2>4 DEF stage_outcomes
    <3>2. rec \in MachineType /\ outcome \in OutcomeType
          /\ (outcome.kind = "Appended" => outcome.samples = Len(rec.samples))
      BY <2>4 DEF TypePart, LoopPart
    <3>3. /\ rec' \in MachineType /\ Answers(rec, rec')
          /\ rec'.samples = IF outcome.kind = "Appended" THEN <<>> ELSE rec.samples
      BY <2>4, <3>1, <3>2, AnsweredFields
    <3>4. Len(rec.samples) <= Staged  BY DEF LoopPart
    <3>5. QED  BY <2>1, <3>3, <3>4 DEF Answers
  <2>5. QED  BY <2>2, <2>3, <2>4
<1>3. ui' \in UiType
  <2>1. rec'.recovery \in Recoveries  BY <1>2 DEF MachineType
  <2>2. ui' = ui \/ ui' = [ui EXCEPT !.screen = "recovery", !.card = rec'.recovery]
    BY DEF stage_outcomes, RaiseCard
  <2>3. ui \in UiType  BY DEF TypePart
  <2>4. QED  BY <2>1, <2>2, <2>3 DEF UiType
<1>4. clock' \in Nat /\ logged' \subseteq Nat  BY DEF stage_outcomes, TypePart
<1>5. TypePart'
  BY <1>1, <1>2, <1>3, <1>4 DEF TypePart
<1>6. LoopPart'
  <2>1. rec.seq \in Nat  BY DEF TypePart, MachineType
  <2>2. QED  BY <1>1, <1>2, <2>1 DEF LoopPart, Closing
<1>7. QED  BY <1>5, <1>6

\* advance_recorder_session keeps the loop in step.
LEMMA LoopAdvance ==
    ASSUME LoopInvariant, advance_recorder_session
    PROVE  LoopInvariant'
<1> USE DEF LoopInvariant
<1>1. /\ pc = "advance" /\ pc' = "input"
      /\ UNCHANGED <<caps, effect, outcome, writer, opened, by, object, saved, clock, dropped,
                     batch, fixes, asks, faults, resets>>
  BY DEF advance_recorder_session, exec, card, bounds
<1>2. effect = None /\ outcome = None /\ rec.inflight = None  BY <1>1 DEF LoopPart
<1>3. rec \in MachineType /\ rec.seq \in Nat  BY DEF TypePart, MachineType
<1>4. /\ rec' \in MachineType /\ rec'.seq \in Nat /\ rec'.seq >= rec.seq /\ rec'.inflight = None
      /\ Len(rec'.samples) <= Staged
      /\ rec'.session # None => rec'.session \in 1 .. rec'.seq
  <2>1. CASE rec' = rec  BY <1>2, <1>3, <2>1 DEF LoopPart
  <2>2. CASE rec' = [rec EXCEPT !.told = TRUE]
    <3>1. rec' \in MachineType /\ rec'.seq = rec.seq /\ rec'.session = rec.session /\ rec'.inflight = rec.inflight
          /\ rec'.samples = rec.samples
      BY <1>3, <2>2 DEF MachineType
    <3>2. QED  BY <1>2, <1>3, <3>1 DEF LoopPart
  <2>3. CASE rec' = Opened(rec)
    <3>1. Len(<<>>) = 0 /\ 0 <= Staged  BY RecorderAssumption
    <3>2. QED  BY <1>2, <1>3, <2>3, <3>1, OpenedFields
  <2>4. QED  BY <2>1, <2>2, <2>3 DEF advance_recorder_session
<1>5. ui' \in UiType
  <2>1. rec.recovery \in Recoveries  BY <1>3 DEF MachineType
  <2>2. ui \in UiType  BY DEF TypePart
  <2>3. ui' = ui \/ ui' = [RaiseCard(rec.recovery) EXCEPT !.mode = "Idle"]  BY DEF advance_recorder_session
  <2>4. RaiseCard(rec.recovery) \in UiType  BY <2>1, <2>2 DEF RaiseCard, UiType
  <2>5. QED  BY <2>2, <2>3, <2>4 DEF UiType
<1>6. logged' \subseteq Nat  BY DEF advance_recorder_session, TypePart
<1>7. TypePart'  BY <1>1, <1>4, <1>5, <1>6 DEF TypePart
<1>8. LoopPart'  BY <1>1, <1>2, <1>3, <1>4 DEF LoopPart, Closing
<1>9. QED  BY <1>7, <1>8

\* stage_input keeps the loop in step.
LEMMA LoopInput ==
    ASSUME LoopInvariant, NEW passed \in {0, Cadence}, stage_input(passed)
    PROVE  LoopInvariant'
<1> USE DEF LoopInvariant
<1>1. /\ pc = "input" /\ pc' = "effect" /\ batch' = 0
      /\ UNCHANGED <<ui, caps, effect, outcome, writer, opened, by, object, saved, asks, faults, resets>>
  BY DEF stage_input, exec, card
<1>2. effect = None /\ outcome = None /\ rec.inflight = None  BY <1>1 DEF LoopPart
<1>3. rec \in MachineType /\ fixes \in Nat /\ resets \in Nat /\ rec.samples \in Seq(Sampled)
      /\ logged \subseteq Nat /\ dropped \subseteq Nat
  BY DEF TypePart, MachineType
<1>4. /\ rec' \in MachineType /\ SameSession(rec, rec') /\ fixes' \in Nat
      /\ Len(rec'.samples) <= Staged /\ logged' \subseteq Nat /\ dropped' \subseteq Nat
  <2>1. CASE UNCHANGED <<rec, hist, fixes>>  BY <1>3, <2>1 DEF LoopPart, hist, SameSession
  <2>2. CASE \E jump \in BOOLEAN : Fix(jump)
    <3>1. PICK jump \in BOOLEAN : Fix(jump)  BY <2>2
    <3>2. Staged \in Nat /\ Len(rec.samples) \in Nat  BY <1>3, RecorderAssumption
    <3>3. /\ rec' \in MachineType /\ SameSession(rec, rec') /\ fixes' = fixes + 1
          /\ logged' \subseteq logged \cup {fixes + 1} /\ dropped' \subseteq dropped \cup {fixes + 1}
          /\ \/ rec'.samples = rec.samples
             \/ Len(rec.samples) < Staged /\ \E s : rec'.samples = Append(rec.samples, s)
      BY <1>3, <3>1, FixFields DEF hist
    <3>4. Len(rec'.samples) <= Staged
      <4>1. CASE rec'.samples = rec.samples  BY <4>1 DEF LoopPart
      <4>2. CASE Len(rec.samples) < Staged /\ \E s : rec'.samples = Append(rec.samples, s)
        <5>1. PICK s : rec'.samples = Append(rec.samples, s)  BY <4>2
        <5>2. Len(rec'.samples) = Len(rec.samples) + 1  BY <1>3, <5>1
        <5>3. QED  BY <3>2, <4>2, <5>2
      <4>3. QED  BY <3>3, <4>1, <4>2
    <3>5. QED  BY <1>3, <3>3, <3>4
  <2>3. QED  BY <2>1, <2>2 DEF stage_input
<1>5. clock' \in Nat
  <2>1. clock \in Nat /\ Cadence \in Nat /\ Retry \in Nat  BY RecorderAssumption DEF TypePart
  <2>2. QED  BY <2>1 DEF stage_input
<1>6. TypePart'  BY <1>1, <1>4, <1>5 DEF TypePart
<1>7. LoopPart'  BY <1>1, <1>2, <1>4 DEF LoopPart, SameSession, Closing
<1>8. QED  BY <1>6, <1>7

\* What a gesture may do: the screen it starts on, where it leads and what it asks for.
GestureCases ==
    \/ /\ rec' = rec /\ ui.screen = "home" /\ ~recording
       /\ ui'.screen = "start" /\ ui'.mode = ui.mode
    \/ /\ rec' = rec /\ ui.screen = "home" /\ recording
       /\ ui'.screen \in {"swap", "control"} /\ ui'.mode \in {ui.mode, "Paused"}
    \/ /\ rec' = rec /\ ui.screen = "start"
       /\ ui'.screen = "home" /\ ui'.mode = ui.mode
    \/ /\ rec' = rec /\ ui.screen \in {"swap", "control"}
       /\ ui'.screen = "home" /\ ui'.mode \in {ui.mode, "Riding"}
    \/ /\ ui.screen = "control" /\ ui'.screen = "home" /\ ui'.mode = "Idle"
       /\ \E intent \in {"Save", "Discard"} : rec' = request(rec, intent)
    \/ /\ ui.screen = "start" /\ ui'.screen = "home" /\ ui'.mode = "Riding"
       /\ rec' = request(rec, "Start")
    \/ /\ ui.screen = "swap" /\ ui'.screen = "home" /\ ui'.mode = "Riding"
       /\ rec' = save_and_restart(rec)
    \/ /\ ui.screen = "recovery" /\ ui.card = "Resumable"
       /\ ui'.screen = "home" /\ ui'.mode = "Riding" /\ rec' = continue_recovered(rec)
    \/ /\ ui.screen = "recovery" /\ ui.card # "Unrepairable"
       /\ ui'.screen = "home" /\ ui'.mode = "Idle" /\ rec' = request(rec, "Discard")
    \/ /\ ui.screen = "recovery" /\ ui.card \in {"DiscardFailed", "RepairFailed", "Unrepairable"}
       /\ rec' = rec /\ ui'.screen = "home" /\ ui'.mode = ui.mode

\* A gesture changes the screen and what the rider asks for, and nothing of the ride.
LEMMA GestureFacts ==
    ASSUME rec \in MachineType, ui \in UiType, asks \in Nat, Gesture
    PROVE  /\ pc = "input" /\ batch < Batch /\ batch' = batch + 1 /\ asks' \in Nat
           /\ rec' \in MachineType /\ SameRide(rec, rec') /\ ui' \in UiType /\ ui'.card = ui.card
           /\ UNCHANGED <<caps, effect, outcome, writer, opened, by, object, saved, clock, pc,
                          logged, dropped, fixes, faults, resets>>
           /\ GestureCases
<1> DEFINE Moved(screen, shown, mode) ==
             /\ pc = "input" /\ batch < Batch /\ batch' = batch + 1
             /\ ui.screen = screen /\ ui' \in UiType /\ ui'.card = ui.card
             /\ ui'.screen = shown /\ ui'.mode = mode
             /\ UNCHANGED <<caps, effect, outcome, writer, opened, by, object, saved, clock, pc,
                            logged, dropped, fixes, faults, resets>>
<1>1. ASSUME NEW screen, NEW shown \in {"home", "start", "swap", "control", "recovery"},
             NEW mode \in {"Idle", "Riding", "Paused"}, Shows(screen, shown, mode)
      PROVE  Moved(screen, shown, mode)
  BY <1>1 DEF Shows, UiType, exec, card, hist
<1>2. ui.mode \in {"Idle", "Riding", "Paused"}  BY DEF UiType
<1>3. SameRide(rec, rec)  BY DEF SameRide
<1>4. ASSUME NEW r, Asks(r)  PROVE asks' \in Nat /\ rec' = r  BY <1>4 DEF Asks
<1> HIDE DEF Moved
<1>5. CASE Browses
  <2>1. rec' = rec /\ asks' = asks  BY <1>5 DEF Browses
  <2>2. CASE ~recording /\ Shows("home", "start", ui.mode)
    <3>1. Moved("home", "start", ui.mode)  BY <1>1, <1>2, <2>2
    <3>2. QED  BY <1>3, <2>1, <2>2, <3>1 DEF Moved, GestureCases
  <2>3. CASE recording /\ Shows("home", "swap", ui.mode)
    <3>1. Moved("home", "swap", ui.mode)  BY <1>1, <1>2, <2>3
    <3>2. QED  BY <1>3, <2>1, <2>3, <3>1 DEF Moved, GestureCases
  <2>4. CASE \E screen \in {"start", "swap", "control"} : Shows(screen, "home", ui.mode)
    <3>1. PICK screen \in {"start", "swap", "control"} : Shows(screen, "home", ui.mode)  BY <2>4
    <3>2. Moved(screen, "home", ui.mode)  BY <1>1, <1>2, <3>1
    <3>3. QED  BY <1>3, <2>1, <3>2 DEF Moved, GestureCases
  <2>5. QED  BY <1>5, <2>2, <2>3, <2>4 DEF Browses
<1>6. CASE Pause
  <2>1. Moved("home", "control", "Paused") /\ rec' = rec /\ asks' = asks /\ recording
    BY <1>1, <1>6 DEF Pause
  <2>2. QED  BY <1>3, <2>1 DEF Moved, GestureCases
<1>7. CASE Resume
  <2>1. Moved("control", "home", "Riding") /\ rec' = rec /\ asks' \in Nat  BY <1>1, <1>4, <1>7 DEF Resume
  <2>2. QED  BY <1>3, <2>1 DEF Moved, GestureCases
<1>8. CASE \E intent \in {"Save", "Discard"} : end_ride(intent)
  <2>1. PICK intent \in {"Save", "Discard"} : end_ride(intent)  BY <1>8
  <2>2. Moved("control", "home", "Idle") /\ rec' = request(rec, intent) /\ asks' \in Nat
    BY <1>1, <1>4, <2>1 DEF end_ride
  <2>3. rec' \in MachineType /\ SameRide(rec, rec')  BY <2>2, RequestFields DEF Intents
  <2>4. QED  BY <2>2, <2>3 DEF Moved, GestureCases
<1>9. CASE begin_riding_session
  <2>1. Moved("start", "home", "Riding") /\ rec' = request(rec, "Start") /\ asks' \in Nat
    BY <1>1, <1>4, <1>9 DEF begin_riding_session
  <2>2. rec' \in MachineType /\ SameRide(rec, rec')  BY <2>1, RequestFields DEF Intents
  <2>3. QED  BY <2>1, <2>2 DEF Moved, GestureCases
<1>10. CASE swap_route
  <2>1. Moved("swap", "home", "Riding") /\ rec' = rec /\ asks' \in Nat  BY <1>1, <1>4, <1>10 DEF swap_route
  <2>2. QED  BY <1>3, <2>1 DEF Moved, GestureCases
<1>11. CASE finish_new
  <2>1. Moved("swap", "home", "Riding") /\ rec' = save_and_restart(rec) /\ asks' \in Nat
    BY <1>1, <1>4, <1>11 DEF finish_new
  <2>2. rec' \in MachineType /\ SameRide(rec, rec')  BY <2>1, SaveAndRestartFields
  <2>3. QED  BY <2>1, <2>2 DEF Moved, GestureCases
<1>12. CASE Continue
  <2>1. Moved("recovery", "home", "Riding") /\ rec' = continue_recovered(rec) /\ asks' \in Nat
        /\ ui.card = "Resumable"
    BY <1>1, <1>4, <1>12 DEF Continue
  <2>2. rec' \in MachineType /\ SameRide(rec, rec')  BY <2>1, ContinueFields
  <2>3. QED  BY <2>1, <2>2 DEF Moved, GestureCases
<1>13. CASE Repair
  <2>1. Moved("recovery", "home", "Idle") /\ rec' = request(rec, "Discard") /\ asks' \in Nat
        /\ ui.card # "Unrepairable"
    BY <1>1, <1>4, <1>13 DEF Repair
  <2>2. rec' \in MachineType /\ SameRide(rec, rec')  BY <2>1, RequestFields DEF Intents
  <2>3. QED  BY <2>1, <2>2 DEF Moved, GestureCases
<1>14. CASE Leave
  <2>1. Moved("recovery", "home", ui.mode) /\ rec' = rec /\ asks' = asks
        /\ ui.card \in {"DiscardFailed", "RepairFailed", "Unrepairable"}
    BY <1>1, <1>2, <1>14 DEF Leave
  <2>2. QED  BY <1>3, <2>1 DEF Moved, GestureCases
<1>15. QED
  BY <1>5, <1>6, <1>7, <1>8, <1>9, <1>10, <1>11, <1>12, <1>13, <1>14 DEF Gesture

\* A gesture keeps the loop in step.
LEMMA LoopGesture ==
    ASSUME LoopInvariant, Gesture
    PROVE  LoopInvariant'
<1> USE DEF LoopInvariant
<1>1. rec \in MachineType /\ ui \in UiType /\ asks \in Nat /\ batch \in Nat  BY DEF TypePart
<1>2. /\ batch' = batch + 1 /\ asks' \in Nat
      /\ rec' \in MachineType /\ SameRide(rec, rec') /\ ui' \in UiType
      /\ UNCHANGED <<caps, effect, outcome, writer, opened, by, object, saved, clock, pc,
                     logged, dropped, fixes, faults, resets>>
  BY <1>1, GestureFacts
<1>3. TypePart'  BY <1>1, <1>2 DEF TypePart
<1>4. LoopPart'  BY <1>2 DEF LoopPart, SameRide, Closing
<1>5. QED  BY <1>3, <1>4

\* What the executor's opening of a session's object changes.
OpenCases ==
    \/ /\ ~recording \/ opened = rec.session \/ (writer.state # "idle" /\ ~Attaches)
       /\ UNCHANGED <<writer, opened, by, object>>
    \/ /\ recording /\ opened # rec.session /\ writer.state = "idle"
       /\ UNCHANGED <<writer, opened, by, object>>
    \/ /\ recording /\ opened # rec.session /\ writer.state = "idle"
       /\ writer' = Writer("live", rec.session, <<>>, {})
       /\ object' = [payload |-> <<>>, resume |-> {}, footer |-> None]
       /\ opened' = rec.session /\ by' = rec.session
    \/ /\ recording /\ opened # rec.session /\ Attaches
       /\ writer' = [writer EXCEPT !.session = rec.session]
       /\ object' = object /\ opened' = rec.session /\ by' = rec.session

\* stage_recorder, with the opening that succeeds or fails.
Names == stage_recorder /\ (open \/ OpenFails)

\* An object is opened, attached, refused or not owed.
LEMMA NameFacts ==
    ASSUME Names, faults \in Nat
    PROVE  OpenCases /\ faults' \in Nat /\ stage_recorder
           /\ UNCHANGED <<ui, outcome, saved, logged, dropped, batch, fixes, asks, resets>>
<1>1. UNCHANGED <<ui, outcome, saved, logged, dropped, batch, fixes, asks, resets>> /\ stage_recorder
  BY DEF Names, stage_recorder, hist
<1>2. CASE open
  <2>1. faults' = faults  BY <1>2 DEF open
  <2>2. OpenCases  BY <1>2 DEF open, OpenCases, exec
  <2>3. QED  BY <1>1, <2>1, <2>2
<1>3. CASE OpenFails
  BY <1>1, <1>3 DEF OpenFails, OpenCases, MayFail, exec
<1>4. QED  BY <1>2, <1>3 DEF Names

\* The opened object and its writer.
LEMMA OpenTypes ==
    ASSUME TypePart, LoopPart, OpenCases
    PROVE  /\ writer' \in WriterType /\ object' \in ObjectType \cup {None}
           /\ {opened', by'} \subseteq Nat \cup {None}
           /\ writer'.len <= Staged /\ (opened' # None => opened' \in 1 .. rec.seq)
           /\ (writer'.state # "idle") <=> object' # None
           /\ Closing' => writer'.footer \in SUBSET Nat
<1>1. rec.session \in Nat \cup {None} /\ rec.seq \in Nat  BY DEF TypePart, MachineType
<1>2. CASE UNCHANGED <<writer, opened, by, object>>  BY <1>2 DEF TypePart, LoopPart, Closing
<1>3. CASE /\ recording /\ writer' = Writer("live", rec.session, <<>>, {})
           /\ object' = [payload |-> <<>>, resume |-> {}, footer |-> None]
           /\ opened' = rec.session /\ by' = rec.session
  <2>1. <<>> \in Seq(Sampled) /\ {} \in SUBSET Nat  OBVIOUS
  <2>2. writer' \in WriterType  BY <1>1, <1>3, <2>1 DEF Writer, WriterType
  <2>3. writer'.state = "live" /\ writer'.len = 0  BY <1>3 DEF Writer
  <2>4. object' \in ObjectType  BY <1>3, <2>1 DEF ObjectType
  <2>5. object' # None  BY <2>4, NoneAssumption
  <2>6. 0 <= Staged  BY RecorderAssumption
  <2>7. QED  BY <1>1, <1>3, <2>2, <2>3, <2>4, <2>5, <2>6 DEF LoopPart, Closing, recording
<1>4. CASE /\ recording /\ Attaches /\ writer' = [writer EXCEPT !.session = rec.session]
           /\ object' = object /\ opened' = rec.session /\ by' = rec.session
  <2>1. rec.session \in Nat  BY <1>1, <1>4 DEF recording
  <2>2. writer \in WriterType  BY DEF TypePart
  <2>3. writer' \in WriterType /\ writer'.state = writer.state /\ writer'.len = writer.len
    BY <1>4, <2>1, <2>2, TouchedFields
  <2>4. QED  BY <1>1, <1>4, <2>1, <2>3 DEF TypePart, LoopPart, Closing, Attaches, recording
<1>5. QED  BY <1>2, <1>3, <1>4 DEF OpenCases

\* Naming an effect keeps the loop in step.
LEMMA LoopNames ==
    ASSUME LoopInvariant, Names
    PROVE  LoopInvariant'
<1> USE DEF LoopInvariant
<1>1. faults \in Nat /\ rec \in MachineType /\ clock \in Nat  BY DEF TypePart
<1>2. /\ OpenCases /\ faults' \in Nat /\ stage_recorder
      /\ UNCHANGED <<ui, outcome, saved, logged, dropped, batch, fixes, asks, resets>>
  BY <1>1, NameFacts
<1>3. /\ writer' \in WriterType /\ object' \in ObjectType \cup {None}
      /\ {opened', by'} \subseteq Nat \cup {None}
      /\ writer'.len <= Staged /\ (opened' # None => opened' \in 1 .. rec.seq)
      /\ (writer'.state # "idle") <=> object' # None
      /\ Closing' => writer'.footer \in SUBSET Nat
  BY <1>2, OpenTypes
<1>4. /\ pc = "effect" /\ effect' = Offer /\ caps' = TRUE /\ clock' \in {0, clock}
      /\ pc' = IF Offer = None THEN "outcomes" ELSE "serve"
  BY <1>2 DEF stage_recorder
<1>5. /\ rec' \in MachineType /\ rec'.session = rec.session /\ rec'.seq = rec.seq
      /\ rec'.samples = rec.samples
      /\ Offer = None => rec' = rec
      /\ Offer # None => rec'.inflight # None
  BY <1>1, <1>2, NamedFields
<1>6. Offer # None => Offer \in EffectType /\ (Offer.op = "Append" => Offer.samples = Len(rec.samples))
  BY <1>1, OfferFacts
<1>7. effect = None /\ outcome = None /\ rec.inflight = None  BY <1>4 DEF LoopPart
<1>8. TypePart'  BY <1>1, <1>2, <1>3, <1>4, <1>5, <1>6 DEF TypePart
<1>9. LoopPart'  BY <1>2, <1>3, <1>4, <1>5, <1>6, <1>7 DEF LoopPart
<1>10. QED  BY <1>8, <1>9

\* What an answer carries.
Answered(kind) ==
    /\ outcome' = [kind |-> kind, samples |-> effect.samples]
    /\ outcome' \in OutcomeType /\ outcome' # None /\ outcome'.kind = kind
    /\ outcome'.samples = effect.samples /\ effect' = None /\ pc' = "outcomes"

\* Every answer is an outcome.
LEMMA AnswerFacts ==
    ASSUME effect \in EffectType, NEW kind \in {"Finalized", "Discarded", "Appended", "NeedsCheckpoint",
                                                "Checkpointed", "Write", "ReadOnly"}, Answer(kind)
    PROVE  Answered(kind)
<1>1. outcome' \in OutcomeType  BY DEF Answer, OutcomeType, EffectType
<1>2. QED  BY <1>1, NoneAssumption DEF Answer, Answered

\* What serving an effect may do: answer at once, accept a batch, or stage a write.
ServeCases ==
    \/ /\ effect.op = "Append" /\ UNCHANGED writer
       /\ Answered("Write") \/ Answered("NeedsCheckpoint")
    \/ /\ effect.op = "Append" /\ CanAppend /\ HasRoom /\ Answered("Appended")
       /\ writer' = [writer EXCEPT !.ride = @ \o rec.samples, !.len = @ + effect.samples, !.cont = rec.totals]
    \/ effect.op = "Checkpoint" /\ writer.state # "live" /\ Answered("Write") /\ UNCHANGED writer
    \/ /\ effect.op = "Checkpoint" /\ writer.state = "live" /\ Flushes
       /\ writer' = IF writer.pending THEN writer ELSE
                      [writer EXCEPT !.pending = TRUE, !.cont = Boundary, !.resume = Boundary]
    \/ effect.op \in {"Finalize", "Discard"} /\ writer.state = "idle" /\ Answered("Discarded") /\ UNCHANGED writer
    \/ /\ effect.op = "Finalize" /\ writer.state \in {"damaged", "discarding"}
       /\ Answered("Write") /\ UNCHANGED writer
    \/ effect.op = "Finalize" /\ writer.state = "live" /\ Flushes /\ writer' = finish
    \/ effect.op = "Finalize" /\ Closing /\ Flushes /\ UNCHANGED writer
    \/ /\ effect.op = "Discard" /\ writer.state # "idle" /\ Flushes
       /\ writer' = [writer EXCEPT !.state = "discarding"]

Serves == append \/ checkpoint \/ finalize \/ discard

\* The executor's four operations.
LEMMA ServeFacts ==
    ASSUME LoopInvariant, Serves
    PROVE  /\ pc = "serve" /\ effect \in EffectType /\ outcome = None /\ ServeCases
           /\ UNCHANGED <<rec, ui, caps, opened, by, object, saved, clock, logged, dropped,
                          batch, fixes, asks, faults, resets>>
<1>1. /\ pc = "serve" /\ effect # None /\ effect \in EffectType /\ outcome = None
      /\ UNCHANGED <<rec, ui, caps, opened, by, object, saved, clock, logged, dropped,
                     batch, fixes, asks, faults, resets>>
  <2>1. \E op \in {"Append", "Checkpoint", "Finalize", "Discard"} : Serving(op)
    BY DEF Serves, append, checkpoint, finalize, discard
  <2>2. pc = "serve" /\ UNCHANGED <<rec, ui, caps, opened, by, object, saved, clock, logged, dropped,
                                    batch, fixes, asks, faults, resets>>
    BY <2>1 DEF Serving, card, hist, bounds
  <2>3. QED  BY <2>2 DEF LoopInvariant, LoopPart, TypePart
<1>2. CASE append
  BY <1>1, <1>2, AnswerFacts DEF append, Serving, ServeCases
<1>3. CASE checkpoint
  BY <1>1, <1>3, AnswerFacts DEF checkpoint, Serving, ServeCases
<1>4. CASE finalize
  BY <1>1, <1>4, AnswerFacts DEF finalize, Serving, ServeCases
<1>5. CASE discard
  BY <1>1, <1>5, AnswerFacts DEF discard, Serving, ServeCases
<1>6. QED  BY <1>1, <1>2, <1>3, <1>4, <1>5 DEF Serves

\* Serving an effect keeps the loop in step.
LEMMA LoopServes ==
    ASSUME LoopInvariant, Serves
    PROVE  LoopInvariant'
<1> USE DEF LoopInvariant
<1>1. /\ pc = "serve" /\ effect \in EffectType /\ outcome = None /\ ServeCases
      /\ UNCHANGED <<rec, ui, caps, opened, by, object, saved, clock, logged, dropped,
                     batch, fixes, asks, faults, resets>>
  BY ServeFacts
<1>2. writer \in WriterType /\ rec \in MachineType /\ Staged \in Nat /\ writer.len \in Nat
      /\ effect # None /\ rec.inflight # None
  BY <1>1, RecorderAssumption, NoneAssumption DEF TypePart, LoopPart, WriterType
<1>3. /\ writer' \in WriterType /\ writer'.len <= Staged
      /\ (writer'.state # "idle") <=> (writer.state # "idle")
      /\ Closing' => writer'.footer \in SUBSET Nat
  <2>1. CASE UNCHANGED writer  BY <1>2, <2>1 DEF LoopPart, Closing
  <2>2. CASE /\ CanAppend /\ HasRoom
             /\ writer' = [writer EXCEPT !.ride = @ \o rec.samples, !.len = @ + effect.samples, !.cont = rec.totals]
    <3>1. /\ writer' \in WriterType /\ writer'.state = writer.state /\ writer'.len = writer.len + effect.samples
      BY <1>1, <1>2, <2>2, AppendedFields
    <3>2. QED  BY <2>2, <3>1 DEF HasRoom, CanAppend, Closing
  <2>3. CASE /\ writer.state = "live"
             /\ writer' = IF writer.pending THEN writer ELSE
                            [writer EXCEPT !.pending = TRUE, !.cont = Boundary, !.resume = Boundary]
    <3>1. writer' \in WriterType /\ writer'.state = writer.state /\ writer'.len = writer.len
      BY <1>2, <2>3, CheckpointFields
    <3>2. QED  BY <2>3, <3>1 DEF LoopPart, Closing
  <2>4. CASE writer.state = "live" /\ writer' = finish
    <3>1. writer' \in WriterType /\ writer'.state # "idle" /\ writer'.len = writer.len /\ writer'.footer = rec.totals
      BY <1>2, <2>4, FinishFields
    <3>2. QED  BY <1>2, <2>4, <3>1 DEF LoopPart, MachineType
  <2>5. CASE writer.state # "idle" /\ writer' = [writer EXCEPT !.state = "discarding"]
    <3>1. writer' \in WriterType /\ writer'.state = "discarding" /\ writer'.len = writer.len
      BY <1>2, <2>5, TouchedFields
    <3>2. QED  BY <2>5, <3>1 DEF LoopPart, Closing
  <2>6. QED  BY <1>1, <2>1, <2>2, <2>3, <2>4, <2>5 DEF ServeCases
<1>4. \/ pc' = "flush" /\ effect' = effect /\ outcome' = None
      \/ /\ pc' = "outcomes" /\ effect' = None /\ outcome' # None /\ outcome' \in OutcomeType
         /\ outcome'.samples = effect.samples
         /\ outcome'.kind = "Appended" => effect.op = "Append"
  BY <1>1 DEF ServeCases, Answered, Flushes
<1>5. TypePart'  BY <1>1, <1>3, <1>4 DEF TypePart
<1>6. LoopPart'  BY <1>1, <1>2, <1>3, <1>4 DEF LoopPart
<1>7. QED  BY <1>5, <1>6

\* What flushing may do: a journal write, the commit of a ride or of its removal, or a refusal.
FlushCases ==
    \/ /\ writer.state \in {"live", "repair", "footer"} /\ object' = Written /\ writer' = acknowledge
       /\ UNCHANGED <<saved, faults>>
       /\ IF writer.state = "live" THEN Answered("Checkpointed") ELSE UNCHANGED <<effect, outcome, pc>>
    \/ /\ writer.state = "publish" /\ Publish /\ Answered("Finalized") /\ UNCHANGED faults
    \/ /\ writer.state = "discarding" /\ object' = None /\ writer' = IdleWriter /\ Answered("Discarded")
       /\ UNCHANGED <<saved, faults>>
    \/ /\ UNCHANGED <<writer, object, saved>> /\ faults' = faults + 1
       /\ Answered("Write") \/ (Answered("ReadOnly") /\ writer.state = "discarding")

Flushing == Journal \/ PublishRide \/ RemoveRide \/ FlushFails

\* The executor's flush.
LEMMA FlushFacts ==
    ASSUME LoopInvariant, Flushing
    PROVE  /\ pc = "flush" /\ effect \in EffectType /\ outcome = None /\ FlushCases
           /\ UNCHANGED <<rec, ui, caps, opened, by, clock, logged, dropped, batch, fixes, asks, resets>>
<1>1. pc = "flush"  BY DEF Flushing, Journal, PublishRide, RemoveRide, FlushFails
<1>2. effect \in EffectType /\ outcome = None  BY <1>1 DEF LoopInvariant, LoopPart, TypePart
<1>3. UNCHANGED <<rec, ui, caps, opened, by, clock, logged, dropped, batch, fixes, asks, resets>>
  BY DEF Flushing, Journal, PublishRide, RemoveRide, FlushFails, hist, bounds, exec
<1>4. FlushCases
  <2>1. CASE Journal
    <3>1. writer.state = "live" => Answered("Checkpointed")  BY <1>2, <2>1, AnswerFacts DEF Journal
    <3>2. QED  BY <2>1, <3>1 DEF Journal, bounds, FlushCases
  <2>2. CASE PublishRide
    <3>1. Answered("Finalized")  BY <1>2, <2>2, AnswerFacts DEF PublishRide
    <3>2. QED  BY <2>2, <3>1 DEF PublishRide, bounds, FlushCases
  <2>3. CASE RemoveRide
    <3>1. Answered("Discarded")  BY <1>2, <2>3, AnswerFacts DEF RemoveRide
    <3>2. QED  BY <2>3, <3>1 DEF RemoveRide, bounds, FlushCases
  <2>4. CASE FlushFails
    <3>1. PICK error \in {"Write"} \cup (IF writer.state = "discarding" THEN {"ReadOnly"} ELSE {}) : Answer(error)
      BY <2>4 DEF FlushFails
    <3>2. Answered(error)  BY <1>2, <3>1, AnswerFacts
    <3>3. QED  BY <2>4, <3>1, <3>2 DEF FlushFails, MayFail, exec, card, FlushCases
  <2>5. QED  BY <2>1, <2>2, <2>3, <2>4 DEF Flushing
<1>5. QED  BY <1>1, <1>2, <1>3, <1>4

\* A flush keeps the loop in step.
LEMMA LoopFlushes ==
    ASSUME LoopInvariant, Flushing
    PROVE  LoopInvariant'
<1> USE DEF LoopInvariant
<1>1. /\ pc = "flush" /\ effect \in EffectType /\ outcome = None /\ FlushCases
      /\ UNCHANGED <<rec, ui, caps, opened, by, clock, logged, dropped, batch, fixes, asks, resets>>
  BY FlushFacts
<1>2. writer \in WriterType /\ Staged \in Nat /\ writer.len \in Nat /\ writer.len <= Staged
      /\ effect # None /\ rec.inflight # None /\ logged \subseteq Nat /\ faults \in Nat
  BY <1>1, RecorderAssumption, NoneAssumption DEF TypePart, LoopPart, WriterType
<1>3. /\ writer' \in WriterType /\ writer'.len <= Staged /\ faults' \in Nat
      /\ object' \in ObjectType \cup {None} /\ saved' \in SavedType \cup {None}
      /\ (writer'.state # "idle") <=> object' # None
      /\ Closing' => writer'.footer \in SUBSET Nat
  <2>1. CASE UNCHANGED <<writer, object, saved>> /\ faults' = faults + 1
    BY <1>2, <2>1 DEF TypePart, LoopPart, Closing
  <2>2. CASE /\ writer.state \in {"live", "repair", "footer"} /\ object' = Written /\ writer' = acknowledge
             /\ UNCHANGED <<saved, faults>>
    <3>1. /\ writer' \in WriterType /\ writer'.len \in {0, writer.len} /\ writer'.state # "idle"
          /\ writer'.footer = writer.footer /\ (writer.state = "live" => writer'.state = "live")
      BY <1>2, <2>2, AcknowledgeFields
    <3>2. Written \in ObjectType
      <4> DEFINE g == IF writer.state = "footer" THEN writer.footer ELSE None
      <4>1. writer.ride \in Seq(Sampled) /\ writer.resume \in SUBSET Nat /\ g \in (SUBSET Nat) \cup {None}
        BY <1>2 DEF WriterType
      <4>2. Written = [payload |-> writer.ride, resume |-> writer.resume, footer |-> g]  BY DEF Written
      <4> HIDE DEF g
      <4>3. QED  BY <4>1, <4>2 DEF ObjectType
    <3>3. object' # None  BY <2>2, <3>2, NoneAssumption
    <3>4. QED  BY <1>2, <2>2, <3>1, <3>2, <3>3 DEF TypePart, LoopPart, Closing
  <2>3. CASE object' = None /\ writer' = IdleWriter /\ UNCHANGED <<saved, faults>>
    <3>1. 0 <= Staged  BY <1>2
    <3>2. QED  BY <1>2, <2>3, <3>1, IdleFields DEF TypePart, Closing
  <2>4. CASE writer.state = "publish" /\ Publish /\ UNCHANGED faults
    <3>1. writer.footer \in SUBSET Nat /\ writer.ride \in Seq(Sampled)
      BY <1>2, <2>4 DEF LoopPart, Closing, WriterType
    <3>2. saved' \in SavedType  BY <1>2, <2>4, <3>1 DEF Publish, SavedType
    <3>3. 0 <= Staged  BY <1>2
    <3>4. writer' = IdleWriter /\ object' = None  BY <2>4 DEF Publish
    <3>5. QED  BY <1>2, <2>4, <3>2, <3>3, <3>4, IdleFields DEF Closing
  <2>5. QED  BY <1>1, <2>1, <2>2, <2>3, <2>4 DEF FlushCases
<1>4. \/ pc' = "flush" /\ effect' = effect /\ outcome' = None
      \/ /\ pc' = "outcomes" /\ effect' = None /\ outcome' # None /\ outcome' \in OutcomeType
         /\ outcome'.kind # "Appended"
  BY <1>1 DEF FlushCases, Answered
<1>5. TypePart'  BY <1>1, <1>3, <1>4 DEF TypePart
<1>6. LoopPart'  BY <1>1, <1>2, <1>3, <1>4 DEF LoopPart
<1>7. QED  BY <1>5, <1>6

\* What a boot may find.
BootCases ==
    \/ /\ Boots("None", {}, IdleWriter) /\ object' = None /\ faults' = faults
       /\ \/ object = None /\ saved' = saved
          \/ /\ object # None /\ object.footer # None
             /\ saved' = [payload |-> object.payload, footer |-> object.footer, logged |-> logged']
    \/ /\ object # None /\ object.footer # None /\ "settle" \in Allowed
       /\ Boots("None", {}, Recovered("publish"))
       /\ UNCHANGED <<object, saved>> /\ faults' = faults + 1
    \/ /\ object # None /\ object.footer = None /\ Boots("Resumable", object.resume, Recovered("live"))
       /\ UNCHANGED <<object, saved>> /\ faults' = faults
    \/ /\ object # None /\ object.footer = None
       /\ \E damage \in {"Repairable", "Unrepairable"} : Boots(damage, {}, Recovered("damaged"))
       /\ UNCHANGED <<object, saved>> /\ faults' = faults + 1

\* The samples of a sequence.
LEMMA SampledSet ==
    ASSUME NEW p \in Seq(Sampled)
    PROVE  ToSet(p) \subseteq Sampled /\ Ats(p) \subseteq Nat
<1>1. ToSet(p) \subseteq Sampled  BY DEF ToSet
<1>2. QED  BY <1>1 DEF Ats, Sampled

\* The machine of a boot, field by field.
LEMMA MachineFields ==
    ASSUME NEW recovery \in Recoveries, NEW totals \in SUBSET Nat
    PROVE  LET q == Machine(recovery, totals)
           IN  /\ q \in MachineType /\ q.session = None /\ q.seq = 0 /\ q.inflight = None
               /\ q.pending = None /\ q.resume_next = FALSE /\ q.restart = FALSE
               /\ q.recovery = recovery /\ q.samples = <<>> /\ q.totals = totals /\ q.anchor = FALSE
<1>1. <<>> \in Seq(Sampled) /\ (recovery # "None") \in BOOLEAN  OBVIOUS
<1>2. Machine(recovery, totals) \in MachineType  BY <1>1 DEF Machine, MachineType
<1>3. QED  BY <1>2 DEF Machine

\* A power cut and the boot after it.
LEMMA BootFacts ==
    ASSUME TypePart, PowerCut
    PROVE  /\ resets' = resets + 1 /\ pc' = "outcomes" /\ caps' = FALSE /\ effect' = None /\ outcome' = None
           /\ opened' = None /\ by' = None /\ clock' = 0 /\ batch' = 0
           /\ UNCHANGED <<dropped, fixes, asks>>
           /\ logged' = IF object = None THEN {} ELSE Ats(object.payload)
           /\ BootCases
<1>1. /\ resets' = resets + 1 /\ pc' = "outcomes" /\ caps' = FALSE /\ effect' = None /\ outcome' = None
      /\ opened' = None /\ by' = None /\ clock' = 0 /\ batch' = 0
      /\ UNCHANGED <<dropped, fixes, asks>>
      /\ logged' = IF object = None THEN {} ELSE Ats(object.payload)
  BY DEF PowerCut, Ats
<1>2. BootCases
  <2>1. CASE object = None /\ Boots("None", {}, IdleWriter) /\ UNCHANGED <<card, faults>>
    BY <2>1 DEF card, BootCases
  <2>2. CASE /\ object # None /\ object.footer # None
             /\ saved' = [payload |-> object.payload, footer |-> object.footer, logged |-> logged']
             /\ object' = None /\ Boots("None", {}, IdleWriter) /\ UNCHANGED faults
    BY <2>2 DEF BootCases
  <2>3. CASE /\ object # None /\ object.footer # None
             /\ MayFail("settle") /\ Boots("None", {}, Recovered("publish")) /\ UNCHANGED card
    BY <2>3 DEF BootCases, MayFail, card
  <2>4. CASE /\ object # None /\ object.footer = None
             /\ Boots("Resumable", object.resume, Recovered("live")) /\ UNCHANGED faults /\ UNCHANGED card
    BY <2>4 DEF BootCases, card
  <2>5. CASE /\ object # None /\ object.footer = None
             /\ MayFail("damage")
             /\ \E damage \in {"Repairable", "Unrepairable"} : Boots(damage, {}, Recovered("damaged"))
             /\ UNCHANGED card
    BY <2>5 DEF BootCases, MayFail, card
  <2>6. QED  BY <2>1, <2>2, <2>3, <2>4, <2>5 DEF PowerCut
<1>3. QED  BY <1>1, <1>2

\* A boot starts a loop that is in step.
LEMMA LoopBoots ==
    ASSUME LoopInvariant, PowerCut
    PROVE  LoopInvariant'
<1> USE DEF LoopInvariant
<1>1. /\ resets' = resets + 1 /\ pc' = "outcomes" /\ caps' = FALSE /\ effect' = None /\ outcome' = None
      /\ opened' = None /\ by' = None /\ clock' = 0 /\ batch' = 0
      /\ UNCHANGED <<dropped, fixes, asks>>
      /\ logged' = IF object = None THEN {} ELSE Ats(object.payload)
      /\ BootCases
  BY BootFacts
<1>2. /\ resets \in Nat /\ faults \in Nat /\ Staged \in Nat
      /\ object \in ObjectType \cup {None} /\ saved \in SavedType \cup {None}
  BY RecorderAssumption DEF TypePart
<1>3. object # None =>
        /\ object.payload \in Seq(Sampled) /\ object.resume \in SUBSET Nat
        /\ object.footer \in (SUBSET Nat) \cup {None}
  BY <1>2 DEF ObjectType
<1>4. logged' \subseteq Nat  BY <1>1, <1>3, SampledSet
<1>5. /\ rec' \in MachineType /\ ui' \in UiType /\ faults' \in Nat
      /\ rec'.inflight = None /\ rec'.session = None /\ rec'.samples = <<>>
  <2>1. ASSUME NEW recovery \in Recoveries, NEW totals \in SUBSET Nat, NEW w, Boots(recovery, totals, w)
        PROVE  /\ rec' \in MachineType /\ ui' \in UiType
               /\ rec'.inflight = None /\ rec'.session = None /\ rec'.samples = <<>>
    <3>1. rec' = Machine(recovery, totals)  BY <2>1 DEF Boots
    <3>2. ui' \in UiType  BY <2>1 DEF Boots, UiType
    <3>3. QED  BY <3>1, <3>2, MachineFields
  <2>2. {"None", "Resumable", "Repairable", "Unrepairable"} \subseteq Recoveries  BY DEF Recoveries
  <2>3. {} \in SUBSET Nat  OBVIOUS
  <2>4. faults' \in Nat  BY <1>1, <1>2 DEF BootCases
  <2>5. \E recovery \in Recoveries, totals \in SUBSET Nat : \E w : Boots(recovery, totals, w)
    BY <1>1, <1>3, <2>2, <2>3, Zenon DEF BootCases
  <2>6. QED  BY <2>1, <2>4, <2>5
<1>6. /\ writer' \in WriterType /\ writer'.len = 0
      /\ object' \in ObjectType \cup {None} /\ saved' \in SavedType \cup {None}
      /\ (writer'.state # "idle") <=> object' # None
      /\ Closing' => writer'.footer \in SUBSET Nat
  <2>1. CASE /\ writer' = IdleWriter /\ object' = None
             /\ \/ saved' = saved
                \/ /\ object # None /\ object.footer # None
                   /\ saved' = [payload |-> object.payload, footer |-> object.footer, logged |-> logged']
    <3>1. saved' \in SavedType \cup {None}
      <4>1. CASE saved' = saved  BY <1>2, <4>1
      <4>2. CASE /\ object # None /\ object.footer # None
                 /\ saved' = [payload |-> object.payload, footer |-> object.footer, logged |-> logged']
        BY <1>3, <1>4, <4>2 DEF SavedType
      <4>3. QED  BY <2>1, <4>1, <4>2
    <3>2. QED  BY <2>1, <3>1, IdleFields DEF Closing
  <2>2. CASE /\ object # None /\ UNCHANGED <<object, saved>>
             /\ \E state \in {"live", "publish", "damaged"} :
                  writer' = Recovered(state) /\ (state = "publish" => object.footer # None)
    <3>1. PICK state \in {"live", "publish", "damaged"} :
                  writer' = Recovered(state) /\ (state = "publish" => object.footer # None)
      BY <2>2
    <3>2. object \in ObjectType  BY <1>2, <2>2
    <3>3. writer' \in WriterType /\ writer'.len = 0 /\ writer'.state = state /\ writer'.footer = object.footer
      BY <3>1, <3>2, RecoveredFields
    <3>4. QED  BY <1>2, <1>3, <2>2, <3>1, <3>3 DEF Closing
  <2>3. QED  BY <1>1, <2>1, <2>2 DEF BootCases, Boots
<1>7. TypePart'
  <2>1. clock' \in Nat /\ batch' \in Nat /\ resets' \in Nat /\ fixes' \in Nat /\ asks' \in Nat /\ dropped' \subseteq Nat
    BY <1>1, <1>2 DEF TypePart
  <2>2. caps' \in BOOLEAN /\ effect' = None /\ outcome' = None /\ opened' = None /\ by' = None /\ pc' = "outcomes"
    BY <1>1
  <2>3. QED  BY <1>4, <1>5, <1>6, <2>1, <2>2 DEF TypePart
<1>8. LoopPart'
  <2>1. Len(<<>>) = 0 /\ 0 <= Staged  BY <1>2
  <2>2. QED  BY <1>1, <1>5, <1>6, <2>1 DEF LoopPart
<1>9. QED  BY <1>7, <1>8

\* The steps, as the lemmas take them.
LEMMA StepCases ==
    ASSUME Next
    PROVE  \/ stage_outcomes \/ advance_recorder_session
           \/ \E passed \in {0, Cadence} : stage_input(passed)
           \/ Names \/ Gesture \/ Serves \/ Flushing \/ PowerCut
  BY DEF Next, Pass, Execute, Names, Serves, Flushing

\* The loop starts in step.
LEMMA LoopInit == Init => LoopInvariant
<1> SUFFICES ASSUME Init PROVE LoopInvariant  OBVIOUS
<1>1. "None" \in Recoveries /\ {} \in SUBSET Nat  BY DEF Recoveries
<1>2. rec \in MachineType /\ rec.inflight = None /\ rec.session = None /\ rec.samples = <<>>
  BY <1>1, MachineFields DEF Init
<1>3. ui \in UiType  BY <1>1 DEF Init, UiType
<1>4. writer \in WriterType /\ writer.len = 0 /\ writer.state = "idle"  BY IdleFields DEF Init
<1>5. TypePart
  <2>1. clock \in Nat /\ batch \in Nat /\ resets \in Nat /\ fixes \in Nat /\ asks \in Nat /\ faults \in Nat
    BY DEF Init
  <2>2. /\ caps \in BOOLEAN /\ effect = None /\ outcome = None /\ opened = None /\ by = None /\ pc = "outcomes"
        /\ object = None /\ saved = None /\ logged = {} /\ dropped = {}
    BY DEF Init
  <2>3. QED  BY <1>2, <1>3, <1>4, <2>1, <2>2 DEF TypePart
<1>6. Len(<<>>) = 0 /\ 0 <= Staged  BY RecorderAssumption
<1>7. LoopPart  BY <1>2, <1>4, <1>6 DEF Init, LoopPart, Closing
<1>8. QED  BY <1>5, <1>7 DEF LoopInvariant

\* Every step keeps the loop in step.
LEMMA LoopStep == LoopInvariant /\ [Next]_vars => LoopInvariant'
<1> SUFFICES ASSUME LoopInvariant, [Next]_vars PROVE LoopInvariant'  OBVIOUS
<1>1. CASE UNCHANGED vars
  BY <1>1 DEF vars, LoopInvariant, TypePart, LoopPart, Closing
<1>2. CASE Next
  BY <1>2, StepCases, LoopOutcomes, LoopAdvance, LoopInput, LoopNames, LoopGesture, LoopServes, LoopFlushes, LoopBoots
<1>3. QED  BY <1>1, <1>2

\* In every reachable state, one operation at most is with the executor, from its naming to
\* its answer; neither the staging queue nor the journal delta overflows; and the writer is
\* idle exactly when the card has no RECORDING object.
THEOREM RecorderTypes == Spec => []TypeOK
<1>1. LoopInvariant => TypeOK
  <2>1. ASSUME TypePart, LoopPart PROVE TypeOK
    <3>1. rec.session \in {None} \cup 1 .. rec.seq  BY <2>1 DEF LoopPart
    <3>2. QED  BY <2>1, <3>1 DEF TypeOK, LoopPart, TypePart
  <2>2. QED  BY <2>1 DEF LoopInvariant
<1>2. QED  BY <1>1, LoopInit, LoopStep, PTL DEF Spec

-----------------------------------------------------------------------------
(* Sessions. *)

\* Taking an answer keeps the session layer.
LEMMA SessionOutcomes ==
    ASSUME OneAtATime, LoopInvariant, SessionInvariant, stage_outcomes
    PROVE  SessionInvariant'
<1>1. /\ pc = "outcomes" /\ pc' = "advance" /\ outcome' = None /\ effect = None /\ effect' = None
      /\ UNCHANGED <<caps, writer, opened, by, batch>>
      /\ rec \in MachineType /\ ui \in UiType
  BY DEF stage_outcomes, LoopInvariant, LoopPart, TypePart, exec, card, bounds
<1>2. AskedPart /\ StartPart /\ ScreenPart /\ ResumablePart /\ WriterPart  BY DEF SessionInvariant
<1>3. CASE outcome = None
  <2>1. rec' = rec /\ ui' = ui  BY <1>3 DEF stage_outcomes
  <2>2. AskedPart' /\ StartPart' /\ ScreenPart' /\ ResumablePart' /\ WriterPart'
    BY <1>1, <1>2, <1>3, <2>1
       DEF AskedPart, StartPart, ScreenPart, ResumablePart, WriterPart, Closing, recording, BlocksRecording
  <2>3. QED  BY <2>2 DEF SessionInvariant
<1>4. CASE outcome # None /\ outcome.kind \in {"Finalized", "Discarded"}
  <2>1. rec' = end_ride_session(close(Settled(rec))) /\ ui' = ui
    BY <1>4 DEF stage_outcomes, apply_outcome
  <2>2. /\ rec' \in MachineType /\ rec'.session = None /\ rec'.samples = <<>> /\ rec'.recovery = "None"
        /\ ~rec'.restart /\ rec'.resume_next = rec.resume_next
        /\ rec'.pending = IF rec.restart THEN "Start" ELSE None
    BY <1>1, <2>1, CloseFields
  <2>3. /\ caps /\ (recording \/ rec.recovery # "None") /\ rec.pending \in {"Save", "Discard"} /\ writer.state = "idle"
    BY <1>2, <1>4 DEF AskedPart
  <2>4. ~rec.resume_next /\ (rec.restart => rec.recovery = "None")
    BY <1>2, <2>3 DEF StartPart
  <2>5. ui.screen # "recovery" /\ (ui.screen = "start" => ~rec.restart)
    BY <1>2, <2>3, <2>4, NoneAssumption DEF ScreenPart, Intents
  <2>6. AskedPart' /\ StartPart'
    BY <1>1, <1>2, <2>2, <2>3, <2>4 DEF AskedPart, StartPart, recording
  <2>7. ScreenPart' /\ ResumablePart' /\ WriterPart'
    BY <1>1, <2>1, <2>2, <2>3, <2>5, NoneAssumption
       DEF ScreenPart, ResumablePart, WriterPart, Closing, recording, Intents
  <2>8. QED  BY <2>6, <2>7 DEF SessionInvariant
<1>5. CASE outcome # None /\ outcome.kind \notin {"Finalized", "Discarded"}
  <2>1. rec' = apply_outcome(rec)  BY <1>5 DEF stage_outcomes
  <2>2. outcome \in OutcomeType /\ (outcome.kind = "Appended" => outcome.samples = Len(rec.samples))
    BY <1>5 DEF LoopInvariant, TypePart, LoopPart
  <2>3. /\ rec' \in MachineType /\ Answers(rec, rec')
        /\ rec'.samples = IF outcome.kind = "Appended" THEN <<>> ELSE rec.samples
        /\ IF outcome.kind \in {"Write", "ReadOnly"} /\ rec.recovery \in Attempt
           THEN rec'.pending = None /\ rec'.recovery \in {"Unrepairable", "DiscardFailed", "RepairFailed"}
           ELSE rec'.pending = rec.pending /\ rec'.recovery = rec.recovery
    BY <1>1, <1>5, <2>1, <2>2, AnsweredFields
  <2>4. CASE outcome.kind \in {"Write", "ReadOnly"} /\ rec.recovery \in Attempt
    <3>1. ui' = [ui EXCEPT !.screen = "recovery", !.card = rec'.recovery]
      BY <1>5, <2>4 DEF stage_outcomes, RaiseCard
    <3>2. ui'.screen = "recovery" /\ ui'.card = rec'.recovery /\ ui'.mode = ui.mode
      BY <1>1, <3>1 DEF UiType
    <3>3. /\ ~recording /\ ~rec.restart /\ ~rec.resume_next /\ writer.state # "live"
          /\ rec.recovery \notin {"None", "Resumable"} /\ rec.samples = <<>>
      BY <1>1, <1>2, <2>4 DEF Attempt, StartPart, WriterPart
    <3>4. AskedPart' /\ StartPart' /\ ScreenPart' /\ ResumablePart'
      BY <1>1, <1>2, <2>3, <2>4, <3>2, <3>3, NoneAssumption
         DEF AskedPart, StartPart, ScreenPart, ResumablePart, Answers, recording, Intents
    <3>5. WriterPart'
      BY <1>1, <1>2, <2>3, <2>4, <3>3 DEF WriterPart, Closing, Answers, recording
    <3>6. QED  BY <3>4, <3>5 DEF SessionInvariant
  <2>5. CASE ~(outcome.kind \in {"Write", "ReadOnly"} /\ rec.recovery \in Attempt)
    <3>1. ui' = ui  BY <2>5 DEF stage_outcomes
    <3>2. AskedPart' /\ StartPart' /\ ScreenPart' /\ ResumablePart'
      BY <1>1, <1>2, <1>5, <2>3, <2>5, <3>1
         DEF AskedPart, StartPart, ScreenPart, ResumablePart, Answers, recording, BlocksRecording
    <3>3. WriterPart'
      BY <1>1, <1>2, <2>3, <2>5, <3>1 DEF WriterPart, Closing, Answers, recording
    <3>4. QED  BY <3>2, <3>3 DEF SessionInvariant
  <2>6. QED  BY <2>4, <2>5
<1>6. QED  BY <1>3, <1>4, <1>5

\* Opening a session keeps the session layer: the object, if any, waits to be attached.
LEMMA SessionAdvance ==
    ASSUME OneAtATime, LoopInvariant, SessionInvariant, advance_recorder_session
    PROVE  SessionInvariant'
<1>1. /\ pc = "advance" /\ pc' = "input" /\ effect = None /\ outcome = None
      /\ UNCHANGED <<caps, effect, outcome, writer, opened, by, batch>>
      /\ rec \in MachineType /\ ui \in UiType /\ rec.seq \in Nat
      /\ opened # None => opened \in 1 .. rec.seq
  BY DEF advance_recorder_session, LoopInvariant, LoopPart, TypePart, MachineType, exec, card, bounds
<1>2. AskedPart /\ StartPart /\ ScreenPart /\ ResumablePart /\ WriterPart  BY DEF SessionInvariant
<1>3. CASE rec.pending # "Start" /\ UNCHANGED <<rec, ui, logged>>
  <2>1. AskedPart' /\ StartPart' /\ ScreenPart' /\ ResumablePart' /\ WriterPart'
    BY <1>1, <1>2, <1>3
       DEF AskedPart, StartPart, ScreenPart, ResumablePart, WriterPart, Closing, recording, BlocksRecording
  <2>2. QED  BY <2>1 DEF SessionInvariant
<1>4. CASE rec.pending = "Start" /\ ~caps
  BY <1>1, <1>2, <1>4 DEF StartPart
<1>5. CASE /\ rec.pending = "Start" /\ caps /\ BlocksRecording(rec)
           /\ rec' = [rec EXCEPT !.told = TRUE]
           /\ ui' = IF rec.told THEN ui ELSE [RaiseCard(rec.recovery) EXCEPT !.mode = "Idle"]
  <2>1. SameSession(rec, rec') /\ rec'.samples = rec.samples /\ rec'.anchor = rec.anchor
    BY <1>1, <1>5 DEF MachineType, SameSession
  <2>2. rec.recovery \notin {"None", "Resumable"}  BY <1>5 DEF BlocksRecording
  <2>3. ui' = ui \/ ui' = [ui EXCEPT !.screen = "recovery", !.card = rec.recovery, !.mode = "Idle"]
    BY <1>1, <1>5 DEF RaiseCard, UiType
  <2>4. ui' = ui \/ (ui'.screen = "recovery" /\ ui'.card = rec.recovery /\ ui'.mode = "Idle")
    BY <1>1, <2>3 DEF UiType
  <2>5. AskedPart' /\ StartPart' /\ ScreenPart' /\ ResumablePart'
    BY <1>1, <1>2, <1>5, <2>1, <2>2, <2>4
       DEF AskedPart, StartPart, ScreenPart, ResumablePart, SameSession, recording, BlocksRecording
  <2>6. WriterPart'
    BY <1>1, <1>2, <1>5, <2>1, <2>2 DEF StartPart, WriterPart, Closing, SameSession, recording
  <2>7. QED  BY <2>5, <2>6 DEF SessionInvariant
<1>6. CASE rec.pending = "Start" /\ caps /\ ~BlocksRecording(rec) /\ rec' = Opened(rec) /\ ui' = ui
  <2>1. /\ rec'.session = rec.seq + 1 /\ rec'.pending = None /\ rec'.recovery = "None"
        /\ ~rec'.resume_next /\ rec'.restart = rec.restart /\ rec'.samples = <<>>
    BY <1>1, <1>6, OpenedFields
  <2>2. recording' /\ opened # rec'.session  BY <1>1, <2>1, NoneAssumption DEF recording
  <2>3. rec.recovery \in {"None", "Resumable"} /\ ~recording /\ ~rec.restart
    BY <1>2, <1>6 DEF BlocksRecording, StartPart
  <2>4. ui.screen \notin {"start", "recovery"}
    BY <1>2, <1>6, NoneAssumption DEF ScreenPart, Intents
  <2>5. writer.state = "idle" \/ (writer.state = "live" /\ writer.session = None)
    BY <1>1, <1>2, <2>3 DEF WriterPart, ResumablePart, recording
  <2>6. AskedPart' /\ StartPart' /\ ScreenPart' /\ ResumablePart'
    BY <1>1, <1>2, <1>6, <2>1, <2>2, <2>3, <2>4, NoneAssumption
       DEF AskedPart, StartPart, ScreenPart, ResumablePart, Intents
  <2>7. WriterPart'
    BY <1>1, <1>2, <2>1, <2>2, <2>5 DEF WriterPart, Closing
  <2>8. QED  BY <2>6, <2>7 DEF SessionInvariant
<1>7. QED  BY <1>3, <1>4, <1>5, <1>6 DEF advance_recorder_session

\* A fix keeps the session layer.
LEMMA SessionInput ==
    ASSUME OneAtATime, LoopInvariant, SessionInvariant, NEW passed \in {0, Cadence}, stage_input(passed)
    PROVE  SessionInvariant'
<1>1. /\ pc = "input" /\ pc' = "effect" /\ effect = None /\ outcome = None /\ batch' = 0
      /\ UNCHANGED <<ui, caps, effect, outcome, writer, opened, by>>
      /\ rec \in MachineType /\ fixes \in Nat /\ resets \in Nat /\ Batch \in Nat /\ batch \in Nat
  BY RecorderAssumption DEF stage_input, LoopInvariant, LoopPart, TypePart, exec
<1>2. AskedPart /\ StartPart /\ ScreenPart /\ ResumablePart /\ WriterPart  BY DEF SessionInvariant
<1>3. /\ SameSession(rec, rec') /\ (~recording => rec'.samples = rec.samples)
      /\ ~Riding => rec'.samples = rec.samples /\ (~rec.anchor => ~rec'.anchor)
  <2>1. CASE UNCHANGED <<rec, hist, fixes>>  BY <2>1 DEF SameSession
  <2>2. CASE \E jump \in BOOLEAN : Fix(jump)
    <3>1. PICK jump \in BOOLEAN : Fix(jump)  BY <2>2
    <3>2. QED  BY <1>1, <3>1, FixFields
  <2>3. QED  BY <2>1, <2>2 DEF stage_input
<1>4. AskedPart' /\ StartPart' /\ ScreenPart'
  BY <1>1, <1>2, <1>3 DEF AskedPart, StartPart, ScreenPart, SameSession, recording, BlocksRecording
<1>5. ResumablePart'
  BY <1>1, <1>2, <1>3 DEF ResumablePart, SameSession, Riding
<1>6. WriterPart'
  BY <1>1, <1>2, <1>3 DEF WriterPart, SameSession, Riding, recording, Closing
<1>7. QED  BY <1>4, <1>5, <1>6 DEF SessionInvariant

\* A gesture keeps the session layer: it is the only one of its pass, and the screen it was
\* made on says what it may meet.
LEMMA SessionGesture ==
    ASSUME OneAtATime, LoopInvariant, SessionInvariant, Gesture
    PROVE  SessionInvariant'
<1>1. rec \in MachineType /\ ui \in UiType /\ asks \in Nat /\ batch \in Nat /\ Batch \in Nat
  BY RecorderAssumption DEF LoopInvariant, TypePart
<1>2. /\ pc = "input" /\ batch < Batch /\ batch' = batch + 1
      /\ rec' \in MachineType /\ SameRide(rec, rec') /\ ui'.card = ui.card
      /\ UNCHANGED <<caps, effect, outcome, writer, opened, by, pc>>
      /\ GestureCases
  BY <1>1, GestureFacts
<1>3. AskedPart /\ StartPart /\ ScreenPart /\ ResumablePart /\ WriterPart  BY DEF SessionInvariant
<1>4. effect = None /\ outcome = None /\ batch = 0 /\ batch' = Batch
  BY <1>1, <1>2 DEF LoopInvariant, LoopPart, OneAtATime
<1> SUFFICES AskedPart' /\ StartPart' /\ ScreenPart' /\ ResumablePart' /\ WriterPart'
  BY DEF SessionInvariant
<1>5. CASE rec' = rec /\ ui.screen = "home" /\ ~recording /\ ui'.screen = "start" /\ ui'.mode = ui.mode
  BY <1>2, <1>3, <1>4, <1>5
     DEF AskedPart, StartPart, ScreenPart, ResumablePart, WriterPart, Closing, recording, BlocksRecording
<1>6. CASE rec' = rec /\ ui.screen = "home" /\ recording /\ ui'.screen \in {"swap", "control"}
  BY <1>2, <1>3, <1>4, <1>6
     DEF AskedPart, StartPart, ScreenPart, ResumablePart, WriterPart, Closing, recording, BlocksRecording
<1>7. CASE rec' = rec /\ ui.screen = "start" /\ ui'.screen = "home" /\ ui'.mode = ui.mode
  BY <1>2, <1>3, <1>4, <1>7
     DEF AskedPart, StartPart, ScreenPart, ResumablePart, WriterPart, Closing, recording, BlocksRecording
<1>8. CASE rec' = rec /\ ui.screen \in {"swap", "control"} /\ ui'.screen = "home"
  BY <1>2, <1>3, <1>4, <1>8
     DEF AskedPart, StartPart, ScreenPart, ResumablePart, WriterPart, Closing, recording, BlocksRecording
<1>9. CASE /\ ui.screen = "control" /\ ui'.screen = "home" /\ ui'.mode = "Idle"
           /\ \E intent \in {"Save", "Discard"} : rec' = request(rec, intent)
  <2>1. PICK intent \in {"Save", "Discard"} : rec' = request(rec, intent)  BY <1>9
  <2>2. rec'.pending = intent /\ (rec'.restart => rec.restart /\ intent = "Save") /\ ~rec'.resume_next
    BY <1>1, <2>1, RequestFields DEF Intents
  <2>3. QED
    BY <1>2, <1>3, <1>4, <1>9, <2>2
       DEF AskedPart, StartPart, ScreenPart, ResumablePart, WriterPart, Closing, recording, BlocksRecording, SameRide
<1>10. CASE /\ ui.screen = "start" /\ ui'.screen = "home" /\ ui'.mode = "Riding" /\ rec' = request(rec, "Start")
  <2>1. rec'.pending = "Start" /\ ~rec'.restart /\ (rec'.resume_next => rec.resume_next)
    BY <1>1, <1>10, RequestFields DEF Intents
  <2>2. rec.recovery # "Resumable" /\ ~recording /\ ~Closing /\ Batch # 0
    BY <1>1, <1>2, <1>3, <1>4, <1>10 DEF ScreenPart, ResumablePart, WriterPart
  <2>3. QED
    BY <1>2, <1>3, <1>4, <1>10, <2>1, <2>2
       DEF AskedPart, StartPart, ScreenPart, ResumablePart, WriterPart, Closing, recording, BlocksRecording, SameRide
<1>11. CASE /\ ui.screen = "swap" /\ ui'.screen = "home" /\ ui'.mode = "Riding" /\ rec' = save_and_restart(rec)
  <2>1. rec'.pending = "Save" /\ ~rec'.resume_next  BY <1>1, <1>11, SaveAndRestartFields
  <2>2. QED
    BY <1>2, <1>3, <1>4, <1>11, <2>1
       DEF AskedPart, StartPart, ScreenPart, ResumablePart, WriterPart, Closing, recording, BlocksRecording, SameRide
<1>12. CASE /\ ui.screen = "recovery" /\ ui.card = "Resumable"
            /\ ui'.screen = "home" /\ ui'.mode = "Riding" /\ rec' = continue_recovered(rec)
  <2>1. rec'.pending = "Start" /\ rec'.resume_next /\ ~rec'.restart  BY <1>1, <1>12, ContinueFields
  <2>2. rec.recovery = "Resumable" /\ ~recording /\ ~Closing /\ Batch # 0 /\ ~rec.anchor
    BY <1>1, <1>2, <1>3, <1>4, <1>12 DEF ScreenPart, ResumablePart, WriterPart
  <2>3. QED
    BY <1>2, <1>3, <1>4, <1>12, <2>1, <2>2
       DEF AskedPart, StartPart, ScreenPart, ResumablePart, WriterPart, Closing, recording, BlocksRecording, SameRide
<1>13. CASE /\ ui.screen = "recovery" /\ ui'.screen = "home" /\ ui'.mode = "Idle" /\ rec' = request(rec, "Discard")
  <2>1. rec'.pending = "Discard" /\ ~rec'.restart /\ ~rec'.resume_next
    BY <1>1, <1>13, RequestFields DEF Intents
  <2>2. ~recording /\ ~Closing /\ rec.recovery # "None"  BY <1>3, <1>13 DEF ScreenPart, WriterPart
  <2>3. rec.recovery = "Resumable" => ~rec.anchor  BY <1>1, <1>2, <1>3, <1>4, <1>13 DEF ResumablePart
  <2>4. QED
    BY <1>2, <1>3, <1>4, <1>13, <2>1, <2>2, <2>3
       DEF AskedPart, StartPart, ScreenPart, ResumablePart, WriterPart, Closing, recording, BlocksRecording, SameRide
<1>14. CASE /\ ui.screen = "recovery" /\ ui.card \in {"DiscardFailed", "RepairFailed", "Unrepairable"}
            /\ rec' = rec /\ ui'.screen = "home" /\ ui'.mode = ui.mode
  BY <1>2, <1>3, <1>4, <1>14
     DEF AskedPart, StartPart, ScreenPart, ResumablePart, WriterPart, Closing, recording, BlocksRecording
<1>15. QED
  BY <1>2, <1>5, <1>6, <1>7, <1>8, <1>9, <1>10, <1>11, <1>12, <1>13, <1>14 DEF GestureCases

\* Naming an effect keeps the session layer: a session's object is opened or attached before
\* the effect is served.
LEMMA SessionNames ==
    ASSUME OneAtATime, LoopInvariant, SessionInvariant, Names
    PROVE  SessionInvariant'
<1>1. rec \in MachineType /\ writer \in WriterType /\ faults \in Nat /\ rec.session \in Nat \cup {None}
  BY DEF LoopInvariant, TypePart, MachineType
<1>2. OpenCases /\ stage_recorder /\ UNCHANGED <<ui, outcome, batch>>  BY <1>1, NameFacts
<1>3. /\ pc = "effect" /\ effect' = Offer /\ caps' = TRUE
      /\ pc' = IF Offer = None THEN "outcomes" ELSE "serve"
  BY <1>2 DEF stage_recorder
<1>4. effect = None /\ outcome = None /\ rec.inflight = None  BY <1>3 DEF LoopInvariant, LoopPart
<1>5. AskedPart /\ StartPart /\ ScreenPart /\ ResumablePart /\ WriterPart  BY DEF SessionInvariant
<1>6. /\ rec'.session = rec.session /\ rec'.pending = rec.pending
      /\ rec'.resume_next = rec.resume_next /\ rec'.restart = rec.restart
      /\ rec'.samples = rec.samples /\ rec'.anchor = rec.anchor
      /\ rec'.recovery = IF Offer # None /\ Offer.op = "Discard" THEN Attempting(rec.recovery) ELSE rec.recovery
  BY <1>1, <1>2, NamedFields
<1>7. /\ Offer # None =>
           /\ caps /\ (recording \/ rec.recovery # "None")
           /\ Offer.op = "Finalize" => rec.pending = "Save" /\ rec.samples = <<>>
           /\ Offer.op = "Discard" => rec.pending = "Discard"
           /\ Offer.op \in {"Append", "Checkpoint"} => recording
           /\ Offer.op \in {"Append", "Checkpoint", "Finalize", "Discard"}
      /\ caps /\ (recording \/ rec.recovery = "Resumable") /\ rec.pending = "Discard" =>
           Offer # None /\ Offer.op = "Discard"
  BY <1>1, <1>4, OfferFacts DEF Refuses, HoldsObject, EffectType
<1>8. /\ rec.recovery # "None" => rec'.recovery # "None"
      /\ rec.recovery = "None" => rec'.recovery = "None"
      /\ rec'.recovery = "Resumable" => rec.recovery = "Resumable" /\ ~(Offer # None /\ Offer.op = "Discard")
      /\ rec.pending # "Discard" => rec'.recovery = rec.recovery
  BY <1>6, <1>7 DEF Attempting
<1>9. AskedPart'
  BY <1>2, <1>3, <1>4, <1>5, <1>6, <1>7, <1>8 DEF AskedPart, recording
<1>10. StartPart'
  BY <1>2, <1>3, <1>4, <1>5, <1>6, <1>7, <1>8 DEF StartPart, recording, BlocksRecording
<1>11. ScreenPart'
  BY <1>2, <1>3, <1>4, <1>5, <1>6, <1>7, <1>8, NoneAssumption DEF ScreenPart, recording, BlocksRecording, Intents
<1>12. ResumablePart'
  <2> SUFFICES ASSUME rec'.recovery = "Resumable" PROVE ResumablePart'  BY DEF ResumablePart
  <2>1. rec.recovery = "Resumable" /\ ~recording /\ Offer = None
    <3>1. rec.recovery = "Resumable" /\ ~recording /\ rec.pending # "Save"
      BY <1>5, <1>8, NoneAssumption DEF StartPart, ResumablePart, Intents
    <3>2. QED  BY <1>7, <1>8, <3>1
  <2>2. writer' = writer  BY <1>2, <2>1 DEF OpenCases
  <2>3. rec.pending = "Discard" => ~caps  BY <1>7, <2>1
  <2>4. QED  BY <1>2, <1>3, <1>4, <1>5, <1>6, <2>1, <2>2, <2>3 DEF ResumablePart
<1>13. WriterPart'
  <2>1. CASE UNCHANGED <<writer, opened, by>>
    <3>1. writer.state # "idle" => writer.session = rec.session
      BY <1>2, <1>5, <2>1 DEF WriterPart, OpenCases, Attaches
    <3>2. Closing => recording /\ caps  BY <1>5 DEF WriterPart, StartPart
    <3>3. QED
      BY <1>2, <1>3, <1>5, <1>6, <1>7, <1>8, <2>1, <3>1, <3>2 DEF WriterPart, Closing, recording
  <2>2. CASE /\ recording /\ writer' = Writer("live", rec.session, <<>>, {})
             /\ by' = rec.session /\ opened' = rec.session
    <3>1. writer'.state = "live" /\ writer'.session = rec.session  BY <2>2 DEF Writer
    <3>2. QED  BY <1>6, <2>2, <3>1 DEF WriterPart, Closing, recording
  <2>3. CASE /\ recording /\ Attaches /\ writer' = [writer EXCEPT !.session = rec.session]
             /\ by' = rec.session /\ opened' = rec.session
    <3>1. rec.session \in Nat  BY <1>1, <2>3 DEF recording
    <3>2. writer'.state = "live" /\ writer'.session = rec.session
      BY <1>1, <2>3, <3>1, TouchedFields DEF Attaches
    <3>3. QED  BY <1>6, <2>3, <3>2 DEF WriterPart, Closing, recording
  <2>4. QED  BY <1>2, <2>1, <2>2, <2>3 DEF OpenCases
<1>14. QED  BY <1>9, <1>10, <1>11, <1>12, <1>13 DEF SessionInvariant

\* Serving an effect keeps the session layer.
LEMMA SessionServes ==
    ASSUME OneAtATime, LoopInvariant, SessionInvariant, Serves
    PROVE  SessionInvariant'
<1>1. /\ pc = "serve" /\ effect \in EffectType /\ outcome = None /\ ServeCases
      /\ UNCHANGED <<rec, ui, caps, opened, by, batch>>
  BY ServeFacts
<1>2. AskedPart /\ StartPart /\ ScreenPart /\ ResumablePart /\ WriterPart  BY DEF SessionInvariant
<1>3. effect # None /\ writer \in WriterType /\ rec \in MachineType
  BY <1>1, NoneAssumption DEF LoopInvariant, TypePart
<1>4. rec.recovery # "Resumable" /\ (writer.state # "idle" => writer.session = rec.session)
  BY <1>1, <1>2, <1>3 DEF ResumablePart, WriterPart
<1>5. /\ writer'.session = writer.session
      /\ \/ writer'.state = writer.state
         \/ effect.op = "Finalize" /\ writer.state = "live" /\ writer'.state \in {"repair", "footer"}
         \/ effect.op = "Discard" /\ writer.state # "idle" /\ writer'.state = "discarding"
      /\ effect.op = "Checkpoint" /\ pc' = "flush" => writer'.state = "live" /\ writer'.pending = TRUE
      /\ effect.op = "Finalize" /\ pc' = "flush" => Closing'
      /\ effect.op = "Discard" => \/ pc' = "flush" /\ writer'.state = "discarding"
                                  \/ pc' = "outcomes" /\ writer.state = "idle" /\ writer' = writer
      /\ effect.op = "Append" => pc' # "flush"
      /\ pc' \in {"flush", "outcomes"}
      /\ pc' = "flush" => effect' = effect /\ outcome' = None
      /\ pc' = "outcomes" =>
           /\ effect' = None /\ outcome' # None
           /\ outcome'.kind \in {"Finalized", "Discarded"} =>
                effect.op \in {"Finalize", "Discard"} /\ writer'.state = "idle"
  <2>1. CASE UNCHANGED writer /\ ~Flushes
    BY <1>1, <2>1 DEF ServeCases, Answered
  <2>2. CASE /\ effect.op = "Append" /\ Answered("Appended")
             /\ writer' = [writer EXCEPT !.ride = @ \o rec.samples, !.len = @ + effect.samples, !.cont = rec.totals]
    <3>1. writer'.state = writer.state /\ writer'.session = writer.session  BY <1>1, <1>3, <2>2, AppendedFields
    <3>2. QED  BY <2>2, <3>1 DEF Answered
  <2>3. CASE /\ effect.op = "Checkpoint" /\ writer.state = "live" /\ Flushes
             /\ writer' = IF writer.pending THEN writer ELSE
                            [writer EXCEPT !.pending = TRUE, !.cont = Boundary, !.resume = Boundary]
    <3>1. writer'.state = writer.state /\ SameWriter(writer, writer') /\ writer'.pending = TRUE
      BY <1>3, <2>3, CheckpointFields DEF WriterType
    <3>2. QED  BY <1>1, <2>3, <3>1 DEF Flushes, SameWriter
  <2>4. CASE effect.op = "Finalize" /\ writer.state = "live" /\ Flushes /\ writer' = finish
    <3>1. writer'.state \in {"repair", "footer"} /\ SameWriter(writer, writer')
      BY <1>3, <2>4, FinishFields
    <3>2. QED  BY <1>1, <2>4, <3>1 DEF Flushes, SameWriter, Closing
  <2>5. CASE effect.op = "Finalize" /\ Closing /\ Flushes /\ UNCHANGED writer
    BY <1>1, <2>5 DEF Flushes, Closing
  <2>6. CASE /\ effect.op = "Discard" /\ writer.state # "idle" /\ Flushes
             /\ writer' = [writer EXCEPT !.state = "discarding"]
    <3>1. writer'.state = "discarding" /\ SameWriter(writer, writer')  BY <1>3, <2>6, TouchedFields
    <3>2. QED  BY <1>1, <2>6, <3>1 DEF Flushes, SameWriter
  <2>7. QED  BY <1>1, <2>1, <2>2, <2>3, <2>4, <2>5, <2>6 DEF ServeCases, Answered, Flushes
<1>6. AskedPart'
  <2>1. effect.op \in {"Append", "Checkpoint", "Finalize", "Discard"}  BY <1>1 DEF EffectType
  <2>2. /\ caps /\ (recording \/ rec.recovery # "None")
        /\ effect.op = "Finalize" => rec.pending = "Save" /\ rec.samples = <<>>
        /\ effect.op = "Discard" => rec.pending = "Discard"
        /\ effect.op \in {"Append", "Checkpoint"} => recording
    BY <1>2, <1>3 DEF AskedPart
  <2>3. CASE pc' = "flush"
    <3>1. effect' = effect /\ outcome' = None  BY <1>5, <2>3
    <3>2. \/ effect.op = "Checkpoint" /\ writer'.state = "live" /\ writer'.pending = TRUE
          \/ effect.op = "Finalize" /\ Closing'
          \/ effect.op = "Discard" /\ writer'.state = "discarding"
      BY <1>3, <1>5, <2>1, <2>3 DEF Closing
    <3>3. QED  BY <1>1, <2>2, <2>3, <3>1, <3>2 DEF AskedPart, recording, Closing
  <2>4. CASE pc' = "outcomes"
    <3>1. /\ effect' = None
          /\ outcome'.kind \in {"Finalized", "Discarded"} =>
               effect.op \in {"Finalize", "Discard"} /\ writer'.state = "idle"
      BY <1>5, <2>4
    <3>2. QED  BY <1>1, <2>2, <2>4, <3>1 DEF AskedPart, recording
  <2>5. QED  BY <1>5, <2>3, <2>4
<1>7. StartPart' /\ ScreenPart' /\ ResumablePart'
  BY <1>1, <1>2, <1>4, <1>5 DEF StartPart, ScreenPart, ResumablePart, recording, BlocksRecording
<1>8. WriterPart'
  <2>1. writer.state # "idle" <=> writer'.state # "idle"  BY <1>5
  <2>2. \/ writer'.state = writer.state
        \/ effect.op = "Finalize" /\ writer.state = "live" /\ writer'.state \in {"repair", "footer"}
        \/ effect.op = "Discard" /\ writer'.state = "discarding"
    BY <1>5
  <2>3. effect.op = "Discard" => writer'.state \in {"idle", "discarding"}  BY <1>5
  <2>4. effect.op = "Finalize" => rec.pending = "Save" /\ rec.samples = <<>>  BY <1>2, <1>3 DEF AskedPart
  <2>5. QED
    BY <1>1, <1>2, <1>4, <1>5, <2>1, <2>2, <2>3, <2>4 DEF WriterPart, recording, Closing
<1>9. QED  BY <1>6, <1>7, <1>8 DEF SessionInvariant

\* A flush keeps the session layer.
LEMMA SessionFlushes ==
    ASSUME OneAtATime, LoopInvariant, SessionInvariant, Flushing
    PROVE  SessionInvariant'
<1>1. /\ pc = "flush" /\ effect \in EffectType /\ outcome = None /\ FlushCases
      /\ UNCHANGED <<rec, ui, caps, opened, by, batch>>
  BY FlushFacts
<1>2. AskedPart /\ StartPart /\ ScreenPart /\ ResumablePart /\ WriterPart  BY DEF SessionInvariant
<1>3. effect # None /\ writer \in WriterType  BY <1>1, NoneAssumption DEF LoopInvariant, TypePart
<1>4. rec.recovery # "Resumable" /\ (writer.state # "idle" => writer.session = rec.session)
  BY <1>1, <1>2, <1>3 DEF ResumablePart, WriterPart
<1>5. \/ /\ writer.state = "live" /\ writer'.state = "live" /\ writer'.session = writer.session
         /\ Answered("Checkpointed")
      \/ /\ writer.state \in {"repair", "footer"} /\ writer'.state \in {"footer", "publish"}
         /\ writer'.session = writer.session /\ UNCHANGED <<effect, outcome, pc>>
      \/ /\ writer.state = "publish" /\ writer'.state = "idle" /\ Answered("Finalized")
      \/ /\ writer.state = "discarding" /\ writer'.state = "idle" /\ Answered("Discarded")
      \/ writer' = writer /\ (Answered("Write") \/ Answered("ReadOnly"))
  BY <1>1, <1>3, AcknowledgeFields, IdleFields DEF FlushCases, SameWriter, Publish
<1>6. AskedPart'
  BY <1>1, <1>2, <1>3, <1>5 DEF AskedPart, Answered, Closing, recording
<1>7. StartPart' /\ ScreenPart' /\ ResumablePart'
  <2>1. pc' \in {"flush", "outcomes"}  BY <1>1, <1>5 DEF Answered
  <2>2. QED
    BY <1>1, <1>2, <1>4, <2>1 DEF StartPart, ScreenPart, ResumablePart, recording, BlocksRecording
<1>8. WriterPart'
  BY <1>1, <1>2, <1>3, <1>4, <1>5 DEF WriterPart, AskedPart, Answered, recording, Closing
<1>9. QED  BY <1>6, <1>7, <1>8 DEF SessionInvariant

\* A boot starts with no session.
LEMMA SessionBoots ==
    ASSUME OneAtATime, LoopInvariant, SessionInvariant, PowerCut
    PROVE  SessionInvariant'
<1>1. /\ pc' = "outcomes" /\ caps' = FALSE /\ effect' = None /\ outcome' = None
      /\ opened' = None /\ by' = None /\ batch' = 0 /\ BootCases
  BY BootFacts DEF LoopInvariant
<1>2. object \in ObjectType \cup {None}  BY DEF LoopInvariant, TypePart
<1>3. \E recovery \in {"None", "Resumable", "Repairable", "Unrepairable"}, totals \in SUBSET Nat : \E w :
        /\ Boots(recovery, totals, w)
        /\ w.session = None
        /\ w.state = CASE recovery = "None" -> "idle" [] recovery = "Resumable" -> "live" [] OTHER -> "damaged"
  <2>1. {} \in SUBSET Nat  OBVIOUS
  <2>2. CASE Boots("None", {}, IdleWriter)  BY <2>1, <2>2, IdleFields
  <2>3. ASSUME object # None
        PROVE  /\ object.resume \in SUBSET Nat
               /\ \A state \in {"live", "damaged"} : Recovered(state).state = state /\ Recovered(state).session = None
    <3>1. object \in ObjectType  BY <1>2, <2>3
    <3>2. QED  BY <3>1, RecoveredFields DEF ObjectType
  <2>4. CASE object # None /\ Boots("Resumable", object.resume, Recovered("live"))  BY <2>3, <2>4
  <2>5. CASE object # None /\ \E damage \in {"Repairable", "Unrepairable"} : Boots(damage, {}, Recovered("damaged"))
    BY <2>1, <2>3, <2>5
  <2>6. QED  BY <1>1, <2>2, <2>4, <2>5 DEF BootCases, OneAtATime
<1>4. PICK recovery \in {"None", "Resumable", "Repairable", "Unrepairable"}, totals \in SUBSET Nat : \E w :
        /\ Boots(recovery, totals, w)
        /\ w.session = None
        /\ w.state = CASE recovery = "None" -> "idle" [] recovery = "Resumable" -> "live" [] OTHER -> "damaged"
  BY <1>3
<1>5. PICK w :
        /\ Boots(recovery, totals, w)
        /\ w.session = None
        /\ w.state = CASE recovery = "None" -> "idle" [] recovery = "Resumable" -> "live" [] OTHER -> "damaged"
  BY <1>4
<1>6. /\ rec'.session = None /\ rec'.pending = None /\ ~rec'.resume_next /\ ~rec'.restart
      /\ rec'.recovery = recovery /\ rec'.samples = <<>> /\ ~rec'.anchor
  <2>1. recovery \in Recoveries  BY DEF Recoveries
  <2>2. rec' = Machine(recovery, totals)  BY <1>5 DEF Boots
  <2>3. QED  BY <2>1, <2>2, MachineFields
<1>7. /\ ui'.mode = "Idle" /\ ui'.card = recovery
      /\ ui'.screen = (IF recovery = "None" THEN "home" ELSE "recovery") /\ writer' = w
  BY <1>5 DEF Boots
<1>8. 0 <= Batch  BY RecorderAssumption
<1>9. AskedPart' /\ StartPart' /\ ScreenPart'
  BY <1>1, <1>6, <1>7, <1>8, NoneAssumption DEF AskedPart, StartPart, ScreenPart, recording, Intents
<1>10. ResumablePart' /\ WriterPart'
  BY <1>1, <1>5, <1>6, <1>7 DEF ResumablePart, WriterPart, Closing, recording
<1>11. QED  BY <1>9, <1>10 DEF SessionInvariant

\* A first boot has no session and no object.
LEMMA SessionInit == Init => SessionInvariant
<1> SUFFICES ASSUME Init PROVE SessionInvariant  OBVIOUS
<1>1. "None" \in Recoveries /\ {} \in SUBSET Nat /\ 0 <= Batch  BY RecorderAssumption DEF Recoveries
<1>2. /\ rec.session = None /\ rec.pending = None /\ ~rec.resume_next /\ ~rec.restart
      /\ rec.recovery = "None" /\ rec.samples = <<>>
  BY <1>1, MachineFields DEF Init
<1>3. writer.state = "idle"  BY IdleFields DEF Init
<1>4. AskedPart /\ StartPart /\ ScreenPart /\ ResumablePart /\ WriterPart
  BY <1>1, <1>2, <1>3, NoneAssumption
     DEF Init, AskedPart, StartPart, ScreenPart, ResumablePart, WriterPart, Closing, recording, Intents
<1>5. QED  BY <1>4 DEF SessionInvariant

\* Every step keeps the session layer.
LEMMA SessionStep ==
    ASSUME OneAtATime
    PROVE  LoopInvariant /\ SessionInvariant /\ [Next]_vars => SessionInvariant'
<1> SUFFICES ASSUME LoopInvariant, SessionInvariant, [Next]_vars PROVE SessionInvariant'  OBVIOUS
<1>1. CASE UNCHANGED vars
  BY <1>1 DEF vars, SessionInvariant, AskedPart, StartPart, ScreenPart, ResumablePart, WriterPart, Closing,
              recording, BlocksRecording
<1>2. CASE Next
  BY <1>2, StepCases, SessionOutcomes, SessionAdvance, SessionInput, SessionNames, SessionGesture,
     SessionServes, SessionFlushes, SessionBoots
<1>3. QED  BY <1>1, <1>2

\* With one gesture in a pass and no refused close at boot, a session meets no object but its
\* own or the recovered one that it continues: what the executor serves was asked for by the
\* rider who sees that object, and it serves it on that object.
THEOREM SessionsMeetTheirObject ==
    ASSUME OneAtATime
    PROVE  Spec => [](LoopInvariant /\ SessionInvariant)
<1>1. Init => LoopInvariant /\ SessionInvariant  BY LoopInit, SessionInit
<1>2. LoopInvariant /\ SessionInvariant /\ [Next]_vars => (LoopInvariant /\ SessionInvariant)'
  BY LoopStep, SessionStep
<1>3. QED  BY <1>1, <1>2, PTL DEF Spec

\* The object that a Discard removes is the one the open session writes or, with no session
\* open, the recovered one the rider was asked about (flat_ride::Recorder::discard).
THEOREM DiscardsAreOfTheirOwn ==
    ASSUME OneAtATime
    PROVE  Spec => DiscardRemovesItsOwn
<1>1. LoopInvariant /\ SessionInvariant /\ [Next]_vars => [RemoveRide => by = rec.session]_vars
  <2> SUFFICES ASSUME SessionInvariant, RemoveRide PROVE by = rec.session  OBVIOUS
  <2>1. pc = "flush" /\ writer.state = "discarding"  BY DEF RemoveRide
  <2>2. QED  BY <2>1 DEF SessionInvariant, WriterPart
<1>2. QED  BY <1>1, SessionsMeetTheirObject, PTL DEF Spec, DiscardRemovesItsOwn

-----------------------------------------------------------------------------
(* Samples and totals. *)

\* What a ride without samples has.
LEMMA NoSamples ==
    /\ Ats(<<>>) = {} /\ Counted(<<>>) = {}
    /\ \A fix, boot \in Nat : Sound(<<>>, fix, boot) /\ Joins(<<>>, fix, boot)
<1>1. ToSet(<<>>) = {}  BY DEF ToSet
<1>2. Len(<<>>) = 0  OBVIOUS
<1>3. QED  BY <1>1, <1>2 DEF Ats, Counted, Sound, Joins

\* What one more sample adds.
LEMMA OneMoreSample ==
    ASSUME NEW p \in Seq(Sampled), NEW s \in Sampled
    PROVE  /\ Append(p, s) \in Seq(Sampled)
           /\ Ats(Append(p, s)) = Ats(p) \cup {s.at}
           /\ Counted(Append(p, s)) = IF s.counted THEN Counted(p) \cup {s.at} ELSE Counted(p)
<1> DEFINE q == Append(p, s)
<1>1. q \in Seq(Sampled) /\ Len(q) = Len(p) + 1 /\ q[Len(p) + 1] = s
      /\ \A i \in 1 .. Len(p) : q[i] = p[i]
  OBVIOUS
<1>2. DOMAIN q = 1 .. Len(p) + 1 /\ DOMAIN p = 1 .. Len(p) /\ Len(p) \in Nat  BY <1>1
<1> HIDE DEF q
<1>3. ToSet(q) = ToSet(p) \cup {s}
  <2>1. ASSUME NEW x \in ToSet(q) PROVE x \in ToSet(p) \cup {s}
    <3>1. PICK i \in DOMAIN q : x = q[i]  BY <2>1 DEF ToSet
    <3>2. CASE i = Len(p) + 1  BY <1>1, <3>1, <3>2
    <3>3. CASE i \in 1 .. Len(p)  BY <1>1, <1>2, <3>1, <3>3 DEF ToSet
    <3>4. QED  BY <1>2, <3>2, <3>3
  <2>2. ASSUME NEW x \in ToSet(p) PROVE x \in ToSet(q)
    <3>1. PICK i \in DOMAIN p : x = p[i]  BY <2>2 DEF ToSet
    <3>2. i \in DOMAIN q /\ x = q[i]  BY <1>1, <1>2, <3>1
    <3>3. QED  BY <3>2 DEF ToSet
  <2>3. s \in ToSet(q)
    <3>1. Len(p) + 1 \in DOMAIN q  BY <1>2
    <3>2. QED  BY <1>1, <3>1 DEF ToSet
  <2>4. QED  BY <2>1, <2>2, <2>3
<1>4. Ats(q) = Ats(p) \cup {s.at}  BY <1>3 DEF Ats
<1>5. Counted(q) = IF s.counted THEN Counted(p) \cup {s.at} ELSE Counted(p)  BY <1>3 DEF Counted
<1>6. QED  BY <1>1, <1>4, <1>5 DEF q

\* A sample that is staged after others comes after all of the ride.
LEMMA StagedLast ==
    ASSUME NEW p \in Seq(Sampled), NEW q \in Seq(Sampled), NEW s \in Sampled
    PROVE  p \o q \in Seq(Sampled) /\ p \o Append(q, s) = Append(p \o q, s)
  OBVIOUS

\* Nothing unsent, or nothing sent.
LEMMA SentOrNot ==
    ASSUME NEW p \in Seq(Sampled)
    PROVE  p \o <<>> = p /\ <<>> \o p = p
  OBVIOUS

\* What the writer has is sound if all of the ride is.
LEMMA SoundPrefix ==
    ASSUME NEW p \in Seq(Sampled), NEW q \in Seq(Sampled), NEW fix \in Nat, NEW boot \in Nat,
           Sound(p \o q, fix, boot)
    PROVE  Sound(p, fix, boot)
<1> DEFINE w == p \o q
<1>1. w \in Seq(Sampled) /\ Len(w) = Len(p) + Len(q) /\ Len(p) \in Nat /\ Len(q) \in Nat
      /\ \A i \in 1 .. Len(p) : w[i] = p[i]
  OBVIOUS
<1>2. Sound(w, fix, boot)  OBVIOUS
<1> HIDE DEF w
<1>3. \A i \in 1 .. Len(p) : i \in 1 .. Len(w)  BY <1>1
<1>4. \A i \in 1 .. Len(p) - 1 : i \in 1 .. Len(w) - 1 /\ i \in 1 .. Len(p) /\ i + 1 \in 1 .. Len(p)  BY <1>1
<1>5. \A i \in 1 .. Len(p) : p[i].at <= fix /\ p[i].boot <= boot  BY <1>1, <1>2, <1>3 DEF Sound
<1>6. \A i \in 1 .. Len(p) - 1 : Follows(p[i], p[i + 1])  BY <1>1, <1>2, <1>4 DEF Sound
<1>7. QED  BY <1>5, <1>6 DEF Sound

\* A sound ride stays sound as time passes.
LEMMA SoundLater ==
    ASSUME NEW p \in Seq(Sampled), NEW fix \in Nat, NEW boot \in Nat, NEW later \in Nat, NEW reboot \in Nat,
           fix <= later, boot <= reboot, Sound(p, fix, boot)
    PROVE  Sound(p, later, reboot)
<1>1. ASSUME NEW i \in 1 .. Len(p) PROVE p[i].at <= later /\ p[i].boot <= reboot
  <2>1. p[i] \in Sampled  OBVIOUS
  <2>2. p[i].at \in Nat /\ p[i].boot \in Nat  BY <2>1 DEF Sampled
  <2>3. p[i].at <= fix /\ p[i].boot <= boot  BY DEF Sound
  <2>4. QED  BY <2>2, <2>3
<1>2. QED  BY <1>1 DEF Sound

\* The next fix, staged behind a sound ride, leaves it sound: it starts a segment unless the
\* fix before it was the last sample.
LEMMA SoundAppend ==
    ASSUME NEW p \in Seq(Sampled), NEW s \in Sampled, NEW fix \in Nat, NEW boot \in Nat,
           Sound(p, fix, boot), s.at = fix + 1, s.boot = boot, ~s.seg => Joins(p, fix, boot)
    PROVE  Sound(Append(p, s), fix + 1, boot) /\ Joins(Append(p, s), fix + 1, boot)
<1> DEFINE q == Append(p, s)
<1>1. q \in Seq(Sampled) /\ Len(q) = Len(p) + 1 /\ q[Len(p) + 1] = s /\ Len(p) \in Nat
      /\ \A i \in 1 .. Len(p) : q[i] = p[i]
  OBVIOUS
<1> HIDE DEF q
<1>2. Sound(p, fix + 1, boot)  BY SoundLater
<1>3. ASSUME NEW i \in 1 .. Len(q) PROVE q[i].at <= fix + 1 /\ q[i].boot <= boot
  <2>1. CASE i = Len(p) + 1  BY <1>1, <2>1
  <2>2. CASE i \in 1 .. Len(p)  BY <1>1, <1>2, <2>2 DEF Sound
  <2>3. QED  BY <1>1, <2>1, <2>2
<1>4. ASSUME NEW i \in 1 .. Len(q) - 1 PROVE Follows(q[i], q[i + 1])
  <2>1. CASE i \in 1 .. Len(p) - 1
    <3>1. i \in 1 .. Len(p) /\ i + 1 \in 1 .. Len(p)  BY <1>1, <2>1
    <3>2. q[i] = p[i] /\ q[i + 1] = p[i + 1]  BY <1>1, <3>1
    <3>3. QED  BY <2>1, <3>2 DEF Sound
  <2>2. CASE i = Len(p) /\ Len(p) # 0
    <3>1. q[i] = p[Len(p)] /\ q[i + 1] = s /\ p[Len(p)] \in Sampled /\ p # <<>>  BY <1>1, <2>2
    <3>2. p[Len(p)].at <= fix /\ p[Len(p)].at \in Nat /\ s.at \in Nat
      BY <1>1, <2>2, <3>1 DEF Sound, Sampled
    <3>3. s.boot = p[Len(p)].boot /\ ~s.seg => p[Len(p)].at = fix  BY <3>1 DEF Joins
    <3>4. QED  BY <3>1, <3>2, <3>3 DEF Follows
  <2>3. QED  BY <1>1, <2>1, <2>2
<1>5. Joins(q, fix + 1, boot)  BY <1>1 DEF Joins
<1>6. QED  BY <1>3, <1>4, <1>5 DEF Sound, q

\* A fix that no total counts yet changes nothing by being lost.
LEMMA LostLater ==
    ASSUME NEW t, NEW p, NEW lost, NEW fix \in Nat, t \subseteq 0 .. fix, Match(t, p, lost)
    PROVE  Match(t, p, lost \cup {fix + 1})
<1>1. fix + 1 \notin t  OBVIOUS
<1>2. t \ (lost \cup {fix + 1}) = t \ lost  BY <1>1
<1>3. QED  BY <1>2 DEF Match

\* The types that the ride layer uses.
LEMMA RideTypes ==
    ASSUME LoopInvariant
    PROVE  /\ rec \in MachineType /\ writer \in WriterType /\ fixes \in Nat /\ resets \in Nat
           /\ rec.samples \in Seq(Sampled) /\ writer.ride \in Seq(Sampled)
           /\ Unsent \in Seq(Sampled) /\ Whole \in Seq(Sampled)
           /\ object # None => object \in ObjectType /\ object.payload \in Seq(Sampled)
           /\ saved # None => saved \in SavedType /\ saved.payload \in Seq(Sampled)
<1>1. /\ rec \in MachineType /\ writer \in WriterType /\ fixes \in Nat /\ resets \in Nat
      /\ object # None => object \in ObjectType
      /\ saved # None => saved \in SavedType
  BY DEF LoopInvariant, TypePart
<1>2. rec.samples \in Seq(Sampled) /\ writer.ride \in Seq(Sampled)  BY <1>1 DEF MachineType, WriterType
<1>3. <<>> \in Seq(Sampled)  OBVIOUS
<1>4. Unsent \in Seq(Sampled)  BY <1>2, <1>3 DEF Unsent
<1>5. Whole \in Seq(Sampled)
  <2>1. \A p, q \in Seq(Sampled) : p \o q \in Seq(Sampled)  OBVIOUS
  <2>2. QED  BY <1>2, <1>4, <2>1 DEF Whole
<1>6. /\ object # None => object.payload \in Seq(Sampled)
      /\ saved # None => saved.payload \in Seq(Sampled)
  BY <1>1 DEF ObjectType, SavedType
<1>7. QED  BY <1>1, <1>2, <1>4, <1>5, <1>6

\* What is with the writer and on the card stays right as fixes come, are lost, and boots pass.
LEMMA KeptLater ==
    ASSUME LoopInvariant, RideInvariant, UNCHANGED <<writer, object, saved>>,
           fixes' \in Nat, fixes <= fixes', resets' \in Nat, resets <= resets',
           dropped' = dropped \/ dropped' = dropped \cup {fixes + 1}
    PROVE  KeptPart' /\ CardPart'
<1>1. KeptPart /\ CardPart /\ PastPart  BY DEF RideInvariant
<1>2. \A t, p : t \subseteq 0 .. fixes /\ Match(t, p, dropped) => Match(t, p, dropped')
  <2> SUFFICES ASSUME NEW t, NEW p, t \subseteq 0 .. fixes, Match(t, p, dropped)
               PROVE  Match(t, p, dropped')
    OBVIOUS
  <2>1. fixes \in Nat  BY RideTypes
  <2>2. Match(t, p, dropped \cup {fixes + 1})  BY <2>1, LostLater
  <2>3. QED  BY <2>2
<1>3. \A p \in Seq(Sampled) : Sound(p, fixes, resets) => Sound(p, fixes', resets')
  BY RideTypes, SoundLater
<1>4. KeptPart'
  <2>1. writer.cont \subseteq 0 .. fixes /\ writer.resume \subseteq 0 .. fixes
        /\ (Closing => writer.footer \subseteq 0 .. fixes)
    BY <1>1 DEF PastPart
  <2>2. QED  BY <1>1, <1>2, <2>1 DEF KeptPart, Closing
<1>5. CardPart'
  <2>1. ASSUME object # None
        PROVE  /\ Match(object.resume, object.payload, dropped') /\ Sound(object.payload, fixes', resets')
               /\ object.footer # None => Match(object.footer, object.payload, dropped')
    <3>1. /\ Match(object.resume, object.payload, dropped) /\ Sound(object.payload, fixes, resets)
          /\ object.footer # None => Match(object.footer, object.payload, dropped)
          /\ object.resume \subseteq 0 .. fixes
          /\ object.footer # None => object.footer \subseteq 0 .. fixes
      BY <1>1, <2>1 DEF CardPart, PastPart
    <3>2. object.payload \in Seq(Sampled)  BY <2>1, RideTypes
    <3>3. QED  BY <1>2, <1>3, <3>1, <3>2
  <2>2. ASSUME saved # None
        PROVE  /\ Match(saved.footer, saved.payload, dropped') /\ Sound(saved.payload, fixes', resets')
               /\ Ats(saved.payload) = saved.logged
    <3>1. /\ Match(saved.footer, saved.payload, dropped) /\ Sound(saved.payload, fixes, resets)
          /\ Ats(saved.payload) = saved.logged /\ saved.footer \subseteq 0 .. fixes
      BY <1>1, <2>2 DEF CardPart, PastPart
    <3>2. saved.payload \in Seq(Sampled)  BY <2>2, RideTypes
    <3>3. QED  BY <1>2, <1>3, <3>1, <3>2
  <2>3. QED  BY <2>1, <2>2 DEF CardPart
<1>6. QED  BY <1>4, <1>5

\* A step that leaves the ride, its totals and its object alone.
LEMMA RideSame ==
    ASSUME RideInvariant,
           UNCHANGED <<writer, opened, object, saved, logged, dropped, fixes, resets>>,
           rec'.totals = rec.totals, rec'.anchor = rec.anchor, rec'.break = rec.break,
           rec'.session = rec.session, Unsent' = Unsent,
           rec'.recovery = "Resumable" => rec.recovery = "Resumable"
    PROVE  RideInvariant'
<1>1. Whole' = Whole /\ (Ours' <=> Ours)  BY DEF Whole, Ours, recording
<1>2. OursPart' /\ KeptPart' /\ CardPart' /\ PastPart'
  BY <1>1 DEF RideInvariant, OursPart, KeptPart, CardPart, PastPart, Closing
<1>3. QED  BY <1>2 DEF RideInvariant

\* An answer takes from the queue what the writer has.
LEMMA RideOutcomes ==
    ASSUME OneAtATime, LoopInvariant, SessionInvariant, RideInvariant, stage_outcomes
    PROVE  RideInvariant'
<1>1. /\ pc = "outcomes" /\ outcome' = None /\ rec \in MachineType
      /\ UNCHANGED <<writer, opened, object, saved, dropped, fixes, resets>>
  BY DEF stage_outcomes, LoopInvariant, TypePart, exec, card, bounds
<1>2. CASE outcome = None
  <2>1. rec' = rec /\ logged' = logged  BY <1>2 DEF stage_outcomes
  <2>2. Unsent' = Unsent  BY <1>1, <1>2, <2>1 DEF Unsent
  <2>3. QED  BY <1>1, <2>1, <2>2, RideSame
<1>3. CASE outcome # None /\ outcome.kind \in {"Finalized", "Discarded"}
  <2>1. rec' = end_ride_session(close(Settled(rec))) /\ logged' = {}
    BY <1>3 DEF stage_outcomes, apply_outcome
  <2>2. rec'.session = None /\ rec'.recovery = "None" /\ rec'.totals = {}
    BY <1>1, <2>1, CloseFields
  <2>3. writer.state = "idle"  BY <1>3 DEF SessionInvariant, AskedPart
  <2>4. ~Ours' /\ ~Closing'  BY <1>1, <2>2, <2>3 DEF Ours, recording, Closing
  <2>5. OursPart'  BY <1>1, <2>2, <2>4 DEF OursPart, RideInvariant
  <2>6. KeptPart' /\ CardPart'  BY <1>1 DEF KeptPart, CardPart, RideInvariant, Closing
  <2>7. PastPart'  BY <1>1, <2>1, <2>2, <2>4 DEF PastPart, RideInvariant
  <2>8. QED  BY <2>5, <2>6, <2>7 DEF RideInvariant
<1>4. CASE outcome # None /\ outcome.kind \notin {"Finalized", "Discarded"}
  <2>1. rec' = apply_outcome(rec) /\ logged' = logged  BY <1>4 DEF stage_outcomes
  <2>2. outcome \in OutcomeType /\ (outcome.kind = "Appended" => outcome.samples = Len(rec.samples))
    BY <1>4 DEF LoopInvariant, TypePart, LoopPart
  <2>3. /\ Answers(rec, rec')
        /\ rec'.samples = IF outcome.kind = "Appended" THEN <<>> ELSE rec.samples
        /\ rec'.recovery = "Resumable" => rec.recovery = "Resumable"
    BY <1>1, <1>4, <2>1, <2>2, AnsweredFields
  <2>4. Unsent' = Unsent  BY <1>1, <1>4, <2>3 DEF Unsent
  <2>5. QED  BY <1>1, <2>1, <2>3, <2>4, RideSame DEF Answers
<1>5. QED  BY <1>2, <1>3, <1>4

\* A session continues the recovered ride, or starts a ride of its own.
LEMMA RideAdvance ==
    ASSUME OneAtATime, LoopInvariant, SessionInvariant, RideInvariant, advance_recorder_session
    PROVE  RideInvariant'
<1>1. /\ pc = "advance" /\ effect = None /\ outcome = None /\ rec \in MachineType /\ rec.seq \in Nat
      /\ UNCHANGED <<outcome, writer, opened, object, saved, dropped, fixes, resets>>
      /\ opened # None => opened \in 1 .. rec.seq
  BY DEF advance_recorder_session, LoopInvariant, LoopPart, TypePart, MachineType, exec, card, bounds
<1>2. CASE /\ rec' = rec \/ rec' = [rec EXCEPT !.told = TRUE]
           /\ logged' = logged
  <2>1. SameSession(rec, rec') /\ rec'.samples = rec.samples /\ rec'.totals = rec.totals
        /\ rec'.anchor = rec.anchor /\ rec'.break = rec.break
    BY <1>1, <1>2 DEF MachineType, SameSession
  <2>2. Unsent' = Unsent  BY <1>1, <2>1 DEF Unsent
  <2>3. QED  BY <1>1, <1>2, <2>1, <2>2, RideSame DEF SameSession
<1>3. CASE /\ rec.pending = "Start" /\ ~BlocksRecording(rec) /\ rec' = Opened(rec)
           /\ logged' = IF rec.resume_next THEN logged ELSE {}
  <2>1. /\ rec'.session = rec.seq + 1 /\ rec'.recovery = "None" /\ rec'.samples = <<>>
        /\ rec.resume_next => rec'.totals = rec.totals /\ rec'.anchor = rec.anchor /\ rec'.break = rec.break
        /\ ~rec.resume_next => rec'.totals = {} /\ ~rec'.anchor /\ ~rec'.break
    BY <1>1, <1>3, OpenedFields
  <2>2. recording' /\ opened # rec'.session  BY <1>1, <2>1, NoneAssumption DEF recording
  <2>3. rec.recovery \in {"None", "Resumable"} /\ ~recording /\ rec.samples = <<>>
    BY <1>3 DEF BlocksRecording, SessionInvariant, StartPart
  <2>4. Unsent = <<>> /\ Unsent' = <<>>  BY <1>1, <2>1, <2>3 DEF Unsent
  <2>5. OursPart /\ KeptPart /\ CardPart /\ PastPart  BY DEF RideInvariant
  <2>6. CASE rec.recovery = "None"
    <3>1. writer.state = "idle" /\ ~rec.resume_next
      BY <2>3, <2>6 DEF SessionInvariant, WriterPart, StartPart
    <3>2. writer.ride = <<>>  BY <2>5, <3>1 DEF OursPart
    <3>3. <<>> \o <<>> = <<>>  BY SentOrNot
    <3>4. Whole' = <<>>  BY <1>1, <2>4, <3>2, <3>3 DEF Whole
    <3>5. rec'.totals = {} /\ ~rec'.anchor /\ logged' = {}  BY <1>3, <2>1, <3>1
    <3>6. OursPart'
      <4>1. fixes \in Nat /\ resets \in Nat  BY RideTypes
      <4>2. Match({}, <<>>, dropped)  BY NoSamples DEF Match
      <4>3. QED  BY <1>1, <2>1, <2>5, <3>4, <3>5, <4>1, <4>2, NoSamples DEF OursPart
    <3>7. KeptPart' /\ CardPart'  BY <1>1, <2>5 DEF KeptPart, CardPart, Closing
    <3>8. PastPart'  BY <1>1, <2>5, <3>5 DEF PastPart, Closing
    <3>9. QED  BY <3>6, <3>7, <3>8 DEF RideInvariant
  <2>7. CASE rec.recovery = "Resumable"
    <3>1. writer.state = "live" /\ rec.resume_next
      BY <1>3, <2>7, NoneAssumption DEF SessionInvariant, ResumablePart, Intents
    <3>2. Whole' = Whole  BY <1>1, <2>4 DEF Whole
    <3>3. rec'.totals = rec.totals /\ rec'.anchor = rec.anchor /\ rec'.break = rec.break /\ logged' = logged
      BY <1>3, <2>1, <3>1
    <3>4. OursPart'
      BY <1>1, <2>1, <2>5, <3>1, <3>2, <3>3 DEF OursPart, Ours
    <3>5. KeptPart' /\ CardPart'  BY <1>1, <2>5 DEF KeptPart, CardPart, Closing
    <3>6. PastPart'  BY <1>1, <2>5, <3>3 DEF PastPart, Closing
    <3>7. QED  BY <3>4, <3>5, <3>6 DEF RideInvariant
  <2>8. QED  BY <2>3, <2>6, <2>7
<1>4. QED  BY <1>2, <1>3 DEF advance_recorder_session

\* A gesture leaves the ride alone.
LEMMA RideGesture ==
    ASSUME LoopInvariant, RideInvariant, Gesture
    PROVE  RideInvariant'
<1>1. rec \in MachineType /\ ui \in UiType /\ asks \in Nat  BY DEF LoopInvariant, TypePart
<1>2. /\ SameRide(rec, rec')
      /\ UNCHANGED <<outcome, writer, opened, object, saved, logged, dropped, fixes, resets>>
  BY <1>1, GestureFacts
<1>3. Unsent' = Unsent  BY <1>2 DEF Unsent, SameRide
<1>4. QED  BY <1>2, <1>3, RideSame DEF SameRide

\* What a fix does to a ride that is ours: record_fix stages the sample with the interval it
\* counted, or counts the interval and loses the sample, or does neither.
LEMMA OursFix ==
    ASSUME OneAtATime, LoopInvariant, SessionInvariant, RideInvariant, Ours, pc = "input",
           UNCHANGED <<outcome, writer, resets>>, NEW jump \in BOOLEAN, Fix(jump)
    PROVE  /\ Match(rec'.totals, Whole', dropped') /\ logged' = Ats(Whole') /\ Sound(Whole', fixes', resets')
           /\ rec'.anchor /\ ~rec'.break => Joins(Whole', fixes', resets')
<1>1. /\ rec \in MachineType /\ fixes \in Nat /\ resets \in Nat /\ fixes + 1 \in Nat
      /\ rec.samples \in Seq(Sampled) /\ writer.ride \in Seq(Sampled) /\ Whole \in Seq(Sampled)
  BY RideTypes
<1>2. outcome = None  BY DEF LoopInvariant, LoopPart
<1>3. Whole = writer.ride \o rec.samples /\ Whole' = writer.ride \o rec'.samples
  BY <1>2 DEF Whole, Unsent
<1>4. /\ Match(rec.totals, Whole, dropped) /\ logged = Ats(Whole) /\ Sound(Whole, fixes, resets)
      /\ rec.anchor /\ ~rec.break => Joins(Whole, fixes, resets)
  BY DEF RideInvariant, OursPart
<1>5. Sound(Whole, fixes + 1, resets)  BY <1>1, <1>4, SoundLater
<1>6. rec.totals \subseteq 0 .. fixes /\ dropped \subseteq 0 .. fixes  BY DEF RideInvariant, PastPart
<1>7. fixes + 1 \notin rec.totals /\ fixes + 1 \notin dropped /\ fixes' = fixes + 1
  BY <1>1, <1>6 DEF Fix
<1>8. CASE ~Riding
  <2>1. UNCHANGED hist /\ rec'.samples = rec.samples /\ rec'.totals = rec.totals /\ ~rec'.anchor
    BY <1>1, <1>8, FixFields
  <2>2. QED  BY <1>3, <1>4, <1>5, <1>7, <2>1 DEF hist
<1>9. CASE Riding /\ jump
  <2>1. UNCHANGED hist /\ rec'.samples = rec.samples /\ rec'.break /\ rec'.totals = rec.totals
    BY <1>1, <1>9, FixFields
  <2>2. QED  BY <1>3, <1>4, <1>5, <1>7, <2>1 DEF hist
<1>10. CASE Riding /\ ~jump /\ ~recording
  <2>1. UNCHANGED hist /\ rec'.samples = rec.samples
        /\ rec'.totals = IF rec.anchor THEN rec.totals \cup {fixes + 1} ELSE rec.totals
    BY <1>1, <1>10, FixFields
  <2>2. rec.recovery = "Resumable" /\ rec.samples = <<>>
    BY <1>10 DEF Ours, SessionInvariant, WriterPart, StartPart, Closing
  <2>3. ~rec.anchor
    BY <1>10, <2>2 DEF SessionInvariant, ResumablePart, Riding
  <2>4. Whole = writer.ride  BY <1>1, <1>3, <2>2, SentOrNot
  <2>5. \A i \in 1 .. Len(Whole) : Whole[i].boot < resets  BY <2>2, <2>4 DEF RideInvariant, OursPart
  <2>6. Joins(Whole, fixes + 1, resets)
    <3>1. ASSUME Whole # <<>> PROVE Whole[Len(Whole)].boot # resets
      <4>1. Len(Whole) \in 1 .. Len(Whole)  BY <1>1, <3>1
      <4>2. Whole[Len(Whole)] \in Sampled  BY <1>1, <4>1
      <4>3. Whole[Len(Whole)].boot < resets  BY <2>5, <4>1
      <4>4. Whole[Len(Whole)].boot \in Nat  BY <4>2 DEF Sampled
      <4>5. QED  BY <1>1, <4>3, <4>4
    <3>2. QED  BY <3>1 DEF Joins
  <2>7. QED  BY <1>3, <1>4, <1>5, <1>7, <2>1, <2>3, <2>6 DEF hist
<1>11. CASE Riding /\ ~jump /\ recording /\ Len(rec.samples) < Staged
  <2> DEFINE s == Sample(~rec.anchor \/ rec.break, rec.anchor)
  <2>1. /\ rec'.samples = Append(rec.samples, s) /\ logged' = logged \cup {fixes + 1} /\ dropped' = dropped
        /\ rec'.totals = IF rec.anchor THEN rec.totals \cup {fixes + 1} ELSE rec.totals
    <3>1. Len(rec.samples) \in Nat /\ Staged \in Nat  BY <1>1, RecorderAssumption
    <3>2. ~(Len(rec.samples) >= Staged)  BY <1>11, <3>1
    <3>3. QED  BY <1>1, <1>11, <3>2, FixFields, Zenon
  <2>2. s \in Sampled /\ s.at = fixes + 1 /\ s.boot = resets /\ s.counted = rec.anchor
        /\ s.seg = (~rec.anchor \/ rec.break)
    BY <1>1 DEF Sample, Sampled, MachineType
  <2> HIDE DEF s
  <2>3. Whole' = Append(Whole, s)
    <3>1. writer.ride \o Append(rec.samples, s) = Append(writer.ride \o rec.samples, s)
      BY <1>1, <2>2, StagedLast
    <3>2. QED  BY <1>3, <2>1, <3>1
  <2>4. Ats(Whole') = logged'  BY <1>1, <1>4, <2>1, <2>2, <2>3, OneMoreSample
  <2>5. Match(rec'.totals, Whole', dropped')
    <3>1. Counted(Whole') = IF rec.anchor THEN Counted(Whole) \cup {fixes + 1} ELSE Counted(Whole)
      BY <1>1, <2>2, <2>3, OneMoreSample
    <3>2. CASE rec.anchor
      <4>1. (rec.totals \cup {fixes + 1}) \ dropped = (rec.totals \ dropped) \cup {fixes + 1}  BY <1>7
      <4>2. QED  BY <1>4, <2>1, <3>1, <3>2, <4>1 DEF Match
    <3>3. CASE ~rec.anchor  BY <1>4, <2>1, <3>1, <3>3 DEF Match
    <3>4. QED  BY <3>2, <3>3
  <2>6. ~s.seg => Joins(Whole, fixes, resets)  BY <1>4, <2>2
  <2>7. Sound(Whole', fixes + 1, resets) /\ Joins(Whole', fixes + 1, resets)
    BY <1>1, <1>4, <2>2, <2>3, <2>6, SoundAppend
  <2>8. QED  BY <1>7, <2>4, <2>5, <2>7
<1>12. CASE Riding /\ ~jump /\ recording /\ Len(rec.samples) >= Staged
  <2>1. /\ rec'.samples = rec.samples /\ rec'.break /\ logged' = logged /\ dropped' = dropped \cup {fixes + 1}
        /\ rec'.totals = IF rec.anchor THEN rec.totals \cup {fixes + 1} ELSE rec.totals
    <3>1. Len(rec.samples) \in Nat /\ Staged \in Nat  BY <1>1, RecorderAssumption
    <3>2. ~(Len(rec.samples) < Staged)  BY <1>12, <3>1
    <3>3. QED  BY <1>1, <1>12, <3>2, FixFields, Zenon
  <2>2. rec'.totals \ dropped' = rec.totals \ dropped  BY <1>7, <2>1
  <2>3. QED  BY <1>3, <1>4, <1>5, <1>7, <2>1, <2>2 DEF Match
<1>13. QED
  <2>1. Len(rec.samples) \in Nat /\ Staged \in Nat  BY <1>1, RecorderAssumption
  <2>2. QED  BY <1>8, <1>9, <1>10, <1>11, <1>12, <2>1

\* A fix keeps the ride layer.
LEMMA RideInput ==
    ASSUME OneAtATime, LoopInvariant, SessionInvariant, RideInvariant, NEW passed \in {0, Cadence}, stage_input(passed)
    PROVE  RideInvariant'
<1>1. /\ pc = "input" /\ rec \in MachineType /\ fixes \in Nat /\ resets \in Nat
      /\ UNCHANGED <<outcome, writer, opened, object, saved, resets>>
  BY DEF stage_input, LoopInvariant, TypePart, exec, card
<1>2. CASE UNCHANGED <<rec, hist, fixes>>
  <2>1. Unsent' = Unsent  BY <1>1, <1>2 DEF Unsent
  <2>2. QED  BY <1>1, <1>2, <2>1, RideSame DEF hist
<1>3. CASE \E jump \in BOOLEAN : Fix(jump)
  <2>1. PICK jump \in BOOLEAN : Fix(jump)  BY <1>3
  <2>2. /\ SameSession(rec, rec') /\ fixes' = fixes + 1
        /\ rec'.totals = rec.totals \/ rec'.totals = rec.totals \cup {fixes + 1}
        /\ logged' = logged \/ logged' = logged \cup {fixes + 1}
        /\ dropped' = dropped \/ dropped' = dropped \cup {fixes + 1}
    BY <1>1, <2>1, FixFields DEF hist
  <2>3. KeptPart' /\ CardPart'  BY <1>1, <2>2, KeptLater
  <2>4. PastPart'
    <3>1. 0 .. fixes \subseteq 0 .. fixes' /\ fixes + 1 \in 0 .. fixes'  BY <1>1, <2>2
    <3>2. PastPart  BY DEF RideInvariant
    <3>3. /\ rec'.totals \subseteq 0 .. fixes' /\ logged' \subseteq 0 .. fixes' /\ dropped' \subseteq 0 .. fixes'
      BY <2>2, <3>1, <3>2 DEF PastPart
    <3>4. QED  BY <1>1, <3>1, <3>2, <3>3 DEF PastPart, Closing
  <2>5. OursPart'
    <3>1. Ours' <=> Ours  BY <1>1, <2>2 DEF Ours, recording, SameSession
    <3>2. ASSUME Ours
          PROVE  /\ Match(rec'.totals, Whole', dropped') /\ logged' = Ats(Whole') /\ Sound(Whole', fixes', resets')
                 /\ rec'.anchor /\ ~rec'.break => Joins(Whole', fixes', resets')
      BY <1>1, <2>1, <3>2, OursFix
    <3>3. OursPart  BY DEF RideInvariant
    <3>4. QED  BY <1>1, <2>2, <3>1, <3>2, <3>3 DEF OursPart, SameSession
  <2>6. QED  BY <2>3, <2>4, <2>5 DEF RideInvariant
<1>4. QED  BY <1>2, <1>3 DEF stage_input

\* Opening or attaching the object of a session keeps the ride layer.
LEMMA RideNames ==
    ASSUME OneAtATime, LoopInvariant, SessionInvariant, RideInvariant, Names
    PROVE  RideInvariant'
<1>1. rec \in MachineType /\ writer \in WriterType /\ faults \in Nat /\ rec.session \in Nat \cup {None}
      /\ fixes \in Nat /\ resets \in Nat
  BY DEF LoopInvariant, TypePart, MachineType
<1>2. OpenCases /\ stage_recorder /\ UNCHANGED <<outcome, saved, logged, dropped, fixes, resets>>
  BY <1>1, NameFacts
<1>3. /\ rec'.session = rec.session /\ rec'.samples = rec.samples /\ rec'.totals = rec.totals
      /\ rec'.anchor = rec.anchor /\ rec'.break = rec.break
      /\ rec'.recovery = IF Offer # None /\ Offer.op = "Discard" THEN Attempting(rec.recovery) ELSE rec.recovery
  BY <1>1, <1>2, NamedFields
<1>4. rec'.recovery = "Resumable" => rec.recovery = "Resumable"  BY <1>3 DEF Attempting
<1>5. Unsent' = Unsent  BY <1>2, <1>3 DEF Unsent
<1>6. OursPart /\ KeptPart /\ CardPart /\ PastPart  BY DEF RideInvariant
<1>7. CASE UNCHANGED <<writer, opened, by, object>>
  BY <1>2, <1>3, <1>4, <1>5, <1>7, RideSame
<1>8. CASE /\ recording /\ opened # rec.session /\ writer.state = "idle"
           /\ writer' = Writer("live", rec.session, <<>>, {})
           /\ object' = [payload |-> <<>>, resume |-> {}, footer |-> None]
  <2>1. /\ writer'.state = "live" /\ writer'.ride = <<>> /\ writer'.cont = {} /\ writer'.resume = {}
        /\ writer'.pending = FALSE
    BY <1>8 DEF Writer
  <2>2. object'.payload = <<>> /\ object'.resume = {} /\ object'.footer = None  BY <1>8
  <2>3. Ours /\ Whole' = Whole  BY <1>5, <1>6, <1>8, <2>1 DEF Ours, OursPart, Whole
  <2>4. Match({}, <<>>, dropped) /\ Sound(<<>>, fixes, resets)  BY <1>1, NoSamples DEF Match
  <2>5. OursPart'
    <3>1. rec.recovery # "Resumable"  BY <1>8 DEF SessionInvariant, StartPart
    <3>2. QED  BY <1>2, <1>3, <1>4, <1>6, <2>1, <2>3, <3>1 DEF OursPart
  <2>6. KeptPart' /\ CardPart'
    BY <1>2, <1>6, <2>1, <2>2, <2>4 DEF KeptPart, CardPart, Closing
  <2>7. PastPart'  BY <1>2, <1>3, <1>6, <2>1, <2>2 DEF PastPart, Closing
  <2>8. QED  BY <2>5, <2>6, <2>7 DEF RideInvariant
<1>9. CASE /\ recording /\ Attaches /\ writer' = [writer EXCEPT !.session = rec.session] /\ object' = object
  <2>1. rec.session \in Nat  BY <1>1, <1>9 DEF recording
  <2>2. /\ writer'.state = "live" /\ writer.state = "live" /\ writer'.ride = writer.ride
        /\ writer'.pending = writer.pending /\ writer'.cont = writer.cont /\ writer'.resume = writer.resume
    BY <1>1, <1>9, <2>1, TouchedFields DEF Attaches
  <2>3. Ours /\ Whole' = Whole  BY <1>5, <2>2 DEF Ours, Whole
  <2>4. OursPart'  BY <1>2, <1>3, <1>4, <1>6, <2>2, <2>3 DEF OursPart
  <2>5. KeptPart' /\ CardPart'  BY <1>2, <1>6, <1>9, <2>2 DEF KeptPart, CardPart, Closing
  <2>6. PastPart'  BY <1>2, <1>3, <1>6, <1>9, <2>2 DEF PastPart, Closing
  <2>7. QED  BY <2>4, <2>5, <2>6 DEF RideInvariant
<1>10. QED  BY <1>2, <1>7, <1>8, <1>9 DEF OpenCases

\* Serving an effect keeps the ride layer: the totals that go with a batch, a checkpoint or a
\* footer are those of the samples that the writer then has.
LEMMA RideServes ==
    ASSUME OneAtATime, LoopInvariant, SessionInvariant, RideInvariant, Serves
    PROVE  RideInvariant'
<1>1. /\ pc = "serve" /\ effect \in EffectType /\ outcome = None /\ ServeCases
      /\ UNCHANGED <<rec, opened, object, saved, logged, dropped, fixes, resets>>
  BY ServeFacts
<1>2. /\ effect # None /\ rec \in MachineType /\ writer \in WriterType
      /\ rec.samples \in Seq(Sampled) /\ writer.ride \in Seq(Sampled)
  BY <1>1, RideTypes, NoneAssumption
<1>3. OursPart /\ KeptPart /\ CardPart /\ PastPart  BY DEF RideInvariant
<1>4. Whole = writer.ride \o rec.samples  BY <1>1 DEF Whole, Unsent
<1>5. rec.recovery # "Resumable"  BY <1>2 DEF SessionInvariant, ResumablePart
<1>6. \A p \in Seq(Sampled) : p \o <<>> = p  BY SentOrNot
<1>7. CardPart'  BY <1>1, <1>3 DEF CardPart
<1>8. CASE /\ UNCHANGED writer
           /\ outcome' = None \/ outcome'.kind # "Appended"
  <2>1. Unsent' = Unsent  BY <1>1, <1>8 DEF Unsent
  <2>2. QED  BY <1>1, <1>8, <2>1, RideSame
<1>9. CASE /\ CanAppend /\ HasRoom /\ Answered("Appended")
           /\ writer' = [writer EXCEPT !.ride = @ \o rec.samples, !.len = @ + effect.samples, !.cont = rec.totals]
  <2>1. /\ writer'.state = "live" /\ writer.state = "live" /\ writer'.ride = Whole
        /\ writer'.pending = FALSE /\ writer'.cont = rec.totals /\ writer'.resume = writer.resume
    <3>1. writer.pending = FALSE  BY <1>2, <1>9 DEF HasRoom, WriterType
    <3>2. QED  BY <1>1, <1>2, <1>4, <1>9, <3>1, AppendedFields DEF CanAppend
  <2>2. Unsent' = <<>>  BY <1>9 DEF Answered, Unsent
  <2>3. Ours /\ Whole' = Whole
    <3>1. Whole \in Seq(Sampled)  BY RideTypes
    <3>2. QED  BY <1>6, <2>1, <2>2, <3>1 DEF Whole, Ours
  <2>4. OursPart'  BY <1>1, <1>3, <1>5, <2>1, <2>3 DEF OursPart
  <2>5. KeptPart'  BY <1>1, <1>3, <2>1, <2>3 DEF KeptPart, OursPart, Closing
  <2>6. PastPart'  BY <1>1, <1>3, <2>1 DEF PastPart, Closing
  <2>7. QED  BY <1>7, <2>4, <2>5, <2>6 DEF RideInvariant
<1>10. CASE /\ writer.state = "live" /\ Flushes
            /\ writer' = IF writer.pending THEN writer ELSE
                           [writer EXCEPT !.pending = TRUE, !.cont = Boundary, !.resume = Boundary]
  <2>1. /\ SameWriter(writer, writer') /\ writer'.state = "live"
        /\ writer.pending => writer' = writer
        /\ ~writer.pending => writer'.cont = Boundary /\ writer'.resume = Boundary
    BY <1>2, <1>10, CheckpointFields
  <2>2. Unsent' = Unsent  BY <1>1, <1>10 DEF Flushes, Unsent
  <2>3. Ours /\ Whole' = Whole  BY <1>10, <2>1, <2>2 DEF Ours, Whole, SameWriter
  <2>4. Match(Boundary, writer.ride, dropped) /\ Boundary \subseteq 0 .. fixes
    <3>1. CASE rec.samples = <<>>
      <4>1. Whole = writer.ride /\ Boundary = rec.totals  BY <1>2, <1>4, <1>6, <3>1 DEF Boundary
      <4>2. QED  BY <1>3, <2>3, <4>1 DEF OursPart, PastPart
    <3>2. CASE rec.samples # <<>>
      <4>1. Boundary = writer.cont  BY <3>2 DEF Boundary
      <4>2. QED  BY <1>3, <1>10, <4>1 DEF KeptPart, PastPart
    <3>3. QED  BY <3>1, <3>2
  <2>5. OursPart'  BY <1>1, <1>3, <1>5, <2>1, <2>3 DEF OursPart
  <2>6. KeptPart'
    <3>1. CASE writer.pending  BY <1>1, <1>3, <2>1, <3>1 DEF KeptPart, Closing
    <3>2. CASE ~writer.pending  BY <1>1, <2>1, <2>4, <3>2 DEF KeptPart, Closing, SameWriter
    <3>3. QED  BY <3>1, <3>2
  <2>7. PastPart'
    <3>1. CASE writer.pending  BY <1>1, <1>3, <2>1, <3>1 DEF PastPart, Closing
    <3>2. CASE ~writer.pending  BY <1>1, <1>3, <2>1, <2>4, <3>2 DEF PastPart, Closing
    <3>3. QED  BY <3>1, <3>2
  <2>8. QED  BY <1>7, <2>5, <2>6, <2>7 DEF RideInvariant
<1>11. CASE effect.op = "Finalize" /\ writer.state = "live" /\ Flushes /\ writer' = finish
  <2>1. /\ SameWriter(writer, writer') /\ writer'.state \in {"repair", "footer"} /\ writer'.cont = writer.cont
        /\ writer'.footer = rec.totals
        /\ writer'.resume = IF writer.pending THEN writer.resume ELSE writer.cont
    BY <1>2, <1>11, FinishFields
  <2>2. Unsent' = Unsent  BY <1>1, <1>11 DEF Flushes, Unsent
  <2>3. Ours /\ Whole' = Whole  BY <1>11, <2>1, <2>2 DEF Ours, Whole, SameWriter
  <2>4. rec.samples = <<>>  BY <1>2, <1>11 DEF SessionInvariant, AskedPart
  <2>5. Whole = writer.ride  BY <1>2, <1>4, <1>6, <2>4
  <2>6. Match(writer'.resume, writer.ride, dropped) /\ writer'.resume \subseteq 0 .. fixes
    <3>1. CASE writer.pending  BY <1>3, <1>11, <2>1, <3>1 DEF KeptPart, PastPart
    <3>2. CASE ~writer.pending  BY <1>3, <1>11, <2>1, <3>2 DEF KeptPart, PastPart
    <3>3. QED  BY <3>1, <3>2
  <2>7. Match(rec.totals, writer.ride, dropped)  BY <1>3, <2>3, <2>5 DEF OursPart
  <2>8. OursPart'  BY <1>1, <1>3, <1>5, <2>1, <2>3 DEF OursPart
  <2>9. KeptPart'  BY <1>1, <2>1, <2>6, <2>7 DEF KeptPart, SameWriter
  <2>10. PastPart'  BY <1>1, <1>3, <2>1, <2>6 DEF PastPart
  <2>11. QED  BY <1>7, <2>8, <2>9, <2>10 DEF RideInvariant
<1>12. CASE writer.state # "idle" /\ writer' = [writer EXCEPT !.state = "discarding"]
  <2>1. writer'.state = "discarding" /\ writer'.cont = writer.cont /\ writer'.resume = writer.resume
    BY <1>2, <1>12, TouchedFields
  <2>2. OursPart'  BY <1>1, <1>5, <2>1 DEF OursPart, Ours
  <2>3. KeptPart'  BY <2>1 DEF KeptPart, Closing
  <2>4. PastPart'  BY <1>1, <1>3, <2>1 DEF PastPart, Closing
  <2>5. QED  BY <1>7, <2>2, <2>3, <2>4 DEF RideInvariant
<1>13. QED
  BY <1>1, <1>8, <1>9, <1>10, <1>11, <1>12 DEF ServeCases, Answered, Flushes

\* A flush keeps the ride layer: what a journal write or the commit puts on the card is the
\* writer's ride with the totals of that ride.
LEMMA RideFlushes ==
    ASSUME OneAtATime, LoopInvariant, SessionInvariant, RideInvariant, Flushing
    PROVE  RideInvariant'
<1>1. /\ pc = "flush" /\ effect \in EffectType /\ outcome = None /\ FlushCases
      /\ UNCHANGED <<rec, opened, logged, dropped, fixes, resets>>
  BY FlushFacts
<1>2. /\ effect # None /\ writer \in WriterType /\ fixes \in Nat /\ resets \in Nat
      /\ rec.samples \in Seq(Sampled) /\ writer.ride \in Seq(Sampled)
  BY <1>1, RideTypes, NoneAssumption
<1>3. OursPart /\ KeptPart /\ CardPart /\ PastPart  BY DEF RideInvariant
<1>4. Whole = writer.ride \o rec.samples  BY <1>1 DEF Whole, Unsent
<1>5. rec.recovery # "Resumable"  BY <1>2 DEF SessionInvariant, ResumablePart
<1>6. CASE UNCHANGED <<writer, object, saved>> /\ (Answered("Write") \/ Answered("ReadOnly"))
  <2>1. Unsent' = Unsent  BY <1>1, <1>6 DEF Unsent, Answered
  <2>2. QED  BY <1>1, <1>6, <2>1, RideSame
<1>7. CASE /\ writer.state \in {"live", "repair", "footer"} /\ object' = Written /\ writer' = acknowledge
           /\ UNCHANGED saved
           /\ IF writer.state = "live" THEN Answered("Checkpointed") ELSE UNCHANGED <<effect, outcome, pc>>
  <2>1. /\ SameWriter(writer, writer')
        /\ writer'.cont = writer.cont /\ writer'.resume = writer.resume /\ writer'.footer = writer.footer
        /\ writer.state = "live" => writer'.state = "live" /\ ~writer'.pending
        /\ writer.state # "live" => writer'.state \in {"footer", "publish"}
    BY <1>2, <1>7, AcknowledgeFields
  <2>2. Unsent' = Unsent  BY <1>1, <1>7 DEF Unsent, Answered
  <2>3. Ours /\ Whole' = Whole  BY <1>7, <2>1, <2>2 DEF Ours, Whole, SameWriter
  <2>4. Sound(writer.ride, fixes, resets)
    <3>1. Sound(writer.ride \o rec.samples, fixes, resets)  BY <1>3, <1>4, <2>3 DEF OursPart
    <3>2. QED  BY <1>2, <3>1, SoundPrefix
  <2>5. Match(writer.resume, writer.ride, dropped)
    <3>1. CASE writer.state = "live"
      <4>1. writer.pending  BY <1>1, <3>1 DEF SessionInvariant, AskedPart, Closing
      <4>2. QED  BY <1>3, <3>1, <4>1 DEF KeptPart
    <3>2. CASE writer.state # "live"  BY <1>3, <1>7, <3>2 DEF KeptPart, Closing
    <3>3. QED  BY <3>1, <3>2
  <2>6. writer.state # "live" => Match(writer.footer, writer.ride, dropped) /\ writer.footer \subseteq 0 .. fixes
    BY <1>3, <1>7 DEF KeptPart, PastPart, Closing
  <2>7. /\ object'.payload = writer.ride /\ object'.resume = writer.resume
        /\ object'.footer = IF writer.state = "footer" THEN writer.footer ELSE None
    BY <1>7 DEF Written
  <2>8. OursPart'
    <3>1. writer'.state # "idle"  BY <1>7, <2>1
    <3>2. QED  BY <1>1, <1>3, <1>5, <2>3, <3>1 DEF OursPart
  <2>9. KeptPart'
    BY <1>1, <1>3, <1>7, <2>1, <2>5, <2>6 DEF KeptPart, Closing, SameWriter
  <2>10. CardPart'
    BY <1>1, <1>3, <1>7, <2>4, <2>5, <2>6, <2>7 DEF CardPart
  <2>11. PastPart'
    BY <1>1, <1>3, <1>7, <2>1, <2>6, <2>7 DEF PastPart, Closing
  <2>12. QED  BY <2>8, <2>9, <2>10, <2>11 DEF RideInvariant
<1>8. CASE /\ writer.state \in {"publish", "discarding"} /\ object' = None /\ writer' = IdleWriter
           /\ \/ saved' = saved
              \/ /\ writer.state = "publish"
                 /\ saved' = [payload |-> writer.ride, footer |-> writer.footer, logged |-> logged]
  <2>1. /\ writer'.state = "idle" /\ writer'.ride = <<>> /\ writer'.cont = {} /\ writer'.resume = {}
    BY <1>8, IdleFields
  <2>2. recording => opened = rec.session
    BY <1>1, <1>8 DEF SessionInvariant, WriterPart
  <2>3. OursPart'  BY <1>1, <1>5, <2>1, <2>2 DEF OursPart, Ours, recording
  <2>4. KeptPart'  BY <2>1 DEF KeptPart, Closing
  <2>5. CardPart' /\ PastPart'
    <3>1. CASE saved' = saved  BY <1>1, <1>3, <1>8, <2>1, <3>1 DEF CardPart, PastPart, Closing
    <3>2. CASE /\ writer.state = "publish"
               /\ saved' = [payload |-> writer.ride, footer |-> writer.footer, logged |-> logged]
      <4>1. saved'.payload = writer.ride /\ saved'.footer = writer.footer /\ saved'.logged = logged  BY <3>2
      <4>2. rec.samples = <<>> /\ Ours  BY <3>2 DEF SessionInvariant, WriterPart, Closing, Ours
      <4>3. Whole = writer.ride  BY <1>2, <1>4, <4>2, SentOrNot
      <4>4. /\ Match(writer.footer, writer.ride, dropped) /\ writer.footer \subseteq 0 .. fixes
            /\ Sound(writer.ride, fixes, resets) /\ Ats(writer.ride) = logged
        BY <1>3, <3>2, <4>2, <4>3 DEF KeptPart, OursPart, PastPart, Closing
      <4>5. QED  BY <1>1, <1>3, <1>8, <2>1, <4>1, <4>4 DEF CardPart, PastPart, Closing
    <3>3. QED  BY <1>8, <3>1, <3>2
  <2>6. QED  BY <2>3, <2>4, <2>5 DEF RideInvariant
<1>9. QED  BY <1>1, <1>6, <1>7, <1>8 DEF FlushCases, Publish

\* A boot keeps the ride layer: it finds a ride with the totals of its samples, and every
\* later sample is of a later boot.
LEMMA RideBoots ==
    ASSUME OneAtATime, LoopInvariant, RideInvariant, PowerCut
    PROVE  RideInvariant'
<1>1. /\ resets' = resets + 1 /\ outcome' = None /\ UNCHANGED <<dropped, fixes>>
      /\ logged' = IF object = None THEN {} ELSE Ats(object.payload)
      /\ BootCases
  BY BootFacts DEF LoopInvariant
<1>2. fixes \in Nat /\ resets \in Nat /\ resets + 1 \in Nat  BY RideTypes
<1>3. OursPart /\ KeptPart /\ CardPart /\ PastPart  BY DEF RideInvariant
<1>4. \A p \in Seq(Sampled) : Sound(p, fixes, resets) => Sound(p, fixes', resets')
  <2> SUFFICES ASSUME NEW p \in Seq(Sampled), Sound(p, fixes, resets) PROVE Sound(p, fixes, resets + 1)
    BY <1>1
  <2>1. QED  BY <1>2, SoundLater
<1>5. ASSUME object # None
      PROVE  /\ object.payload \in Seq(Sampled) /\ object \in ObjectType
             /\ Match(object.resume, object.payload, dropped') /\ Sound(object.payload, fixes', resets')
             /\ object.footer # None => Match(object.footer, object.payload, dropped')
             /\ Ats(object.payload) \subseteq 0 .. fixes
             /\ \A i \in 1 .. Len(object.payload) : object.payload[i].boot < resets'
  <2>1. object.payload \in Seq(Sampled) /\ object \in ObjectType  BY <1>5, RideTypes
  <2>2. /\ Match(object.resume, object.payload, dropped) /\ Sound(object.payload, fixes, resets)
        /\ object.footer # None => Match(object.footer, object.payload, dropped)
    BY <1>3, <1>5 DEF CardPart
  <2>3. ASSUME NEW i \in 1 .. Len(object.payload)
        PROVE  object.payload[i].boot < resets' /\ object.payload[i].at \in 0 .. fixes
    <3>1. object.payload[i] \in Sampled  BY <2>1
    <3>2. object.payload[i].boot \in Nat /\ object.payload[i].at \in Nat  BY <3>1 DEF Sampled
    <3>3. object.payload[i].boot <= resets /\ object.payload[i].at <= fixes  BY <2>2 DEF Sound
    <3>4. QED  BY <1>1, <1>2, <3>2, <3>3
  <2>4. Ats(object.payload) \subseteq 0 .. fixes
    <3>1. ASSUME NEW x \in Ats(object.payload) PROVE x \in 0 .. fixes
      <4>1. PICK i \in DOMAIN object.payload : x = object.payload[i].at  BY <3>1 DEF Ats, ToSet
      <4>2. i \in 1 .. Len(object.payload)  BY <2>1, <4>1
      <4>3. QED  BY <2>3, <4>1, <4>2
    <3>2. QED  BY <3>1
  <2>5. QED  BY <1>1, <1>4, <2>1, <2>2, <2>3, <2>4
<1>6. logged' \subseteq 0 .. fixes  BY <1>1, <1>5
<1>7. ASSUME saved # None
      PROVE  /\ Match(saved.footer, saved.payload, dropped') /\ Sound(saved.payload, fixes', resets')
             /\ Ats(saved.payload) = saved.logged
  <2>1. saved.payload \in Seq(Sampled)  BY <1>7, RideTypes
  <2>2. QED  BY <1>1, <1>3, <1>4, <1>7, <2>1 DEF CardPart
<1>8. CASE /\ Boots("None", {}, IdleWriter) /\ object' = None
           /\ \/ object = None /\ saved' = saved
              \/ /\ object # None /\ object.footer # None
                 /\ saved' = [payload |-> object.payload, footer |-> object.footer, logged |-> logged']
  <2>1. "None" \in Recoveries /\ {} \in SUBSET Nat  BY DEF Recoveries
  <2>2. rec'.session = None /\ rec'.totals = {} /\ rec'.recovery = "None"
    <3>1. rec' = Machine("None", {})  BY <1>8 DEF Boots
    <3>2. QED  BY <3>1 DEF Machine
  <2>3. writer'.state = "idle" /\ writer'.ride = <<>> /\ writer'.cont = {} /\ writer'.resume = {}
    BY <1>8, IdleFields DEF Boots
  <2>4. OursPart' /\ KeptPart'  BY <2>2, <2>3 DEF OursPart, KeptPart, Ours, Closing, recording
  <2>5. CardPart' /\ PastPart'
    <3>1. CASE saved' = saved  BY <1>1, <1>3, <1>6, <1>7, <1>8, <2>2, <2>3, <3>1 DEF CardPart, PastPart, Closing
    <3>2. CASE /\ object # None /\ object.footer # None
               /\ saved' = [payload |-> object.payload, footer |-> object.footer, logged |-> logged']
      <4>1. saved'.payload = object.payload /\ saved'.footer = object.footer /\ saved'.logged = logged'  BY <3>2
      <4>2. logged' = Ats(object.payload) /\ object.footer \subseteq 0 .. fixes  BY <1>1, <1>3, <3>2 DEF PastPart
      <4>3. CardPart'  BY <1>5, <1>8, <3>2, <4>1, <4>2 DEF CardPart
      <4>4. PastPart'  BY <1>1, <1>3, <1>6, <1>8, <2>2, <2>3, <4>1, <4>2 DEF PastPart, Closing
      <4>5. QED  BY <4>3, <4>4
    <3>3. QED  BY <1>8, <3>1, <3>2
  <2>6. QED  BY <2>4, <2>5 DEF RideInvariant
<1>9. CASE /\ object # None /\ Boots("Resumable", object.resume, Recovered("live")) /\ UNCHANGED <<object, saved>>
  <2>1. "Resumable" \in Recoveries /\ object.resume \in SUBSET Nat  BY <1>5, <1>9 DEF Recoveries, ObjectType
  <2>2. rec'.totals = object.resume /\ rec'.samples = <<>> /\ rec'.anchor = FALSE
    BY <1>9, <2>1, MachineFields DEF Boots
  <2>3. /\ writer'.state = "live" /\ writer'.ride = object.payload /\ writer'.pending = FALSE
        /\ writer'.cont = object.resume /\ writer'.resume = object.resume
    BY <1>5, <1>9, RecoveredFields DEF Boots
  <2>4. Whole' = object.payload  BY <1>1, <1>5, <1>9, <2>2, <2>3, SentOrNot DEF Whole, Unsent
  <2>5. logged' = Ats(object.payload)  BY <1>1, <1>9
  <2>6. OursPart'  BY <1>5, <1>9, <2>2, <2>3, <2>4, <2>5 DEF OursPart
  <2>7. KeptPart'  BY <1>5, <1>9, <2>3 DEF KeptPart, Closing
  <2>8. CardPart'  BY <1>5, <1>7, <1>9 DEF CardPart
  <2>9. PastPart'  BY <1>1, <1>3, <1>6, <1>9, <2>2, <2>3 DEF PastPart, Closing
  <2>10. QED  BY <2>6, <2>7, <2>8, <2>9 DEF RideInvariant
<1>10. CASE /\ object # None /\ UNCHANGED <<object, saved>>
            /\ \E damage \in {"Repairable", "Unrepairable"} : Boots(damage, {}, Recovered("damaged"))
  <2>1. PICK damage \in {"Repairable", "Unrepairable"} : Boots(damage, {}, Recovered("damaged"))  BY <1>10
  <2>2. damage \in Recoveries /\ {} \in SUBSET Nat  BY DEF Recoveries
  <2>3. rec'.totals = {} /\ rec'.recovery = damage  BY <2>1, <2>2, MachineFields DEF Boots
  <2>4. writer'.state = "damaged" /\ writer'.cont = object.resume /\ writer'.resume = object.resume
    BY <1>5, <1>10, <2>1, RecoveredFields DEF Boots
  <2>5. OursPart' /\ KeptPart'  BY <2>3, <2>4 DEF OursPart, KeptPart, Ours, Closing
  <2>6. CardPart'  BY <1>5, <1>7, <1>10 DEF CardPart
  <2>7. PastPart'  BY <1>1, <1>3, <1>6, <1>10, <2>3, <2>4 DEF PastPart, Closing
  <2>8. QED  BY <2>5, <2>6, <2>7 DEF RideInvariant
<1>11. QED  BY <1>1, <1>8, <1>9, <1>10 DEF BootCases, OneAtATime

\* A first boot has no ride.
LEMMA RideInit == Init => RideInvariant
<1> SUFFICES ASSUME Init PROVE RideInvariant  OBVIOUS
<1>1. "None" \in Recoveries /\ {} \in SUBSET Nat  BY DEF Recoveries
<1>2. rec.session = None /\ rec.totals = {} /\ rec.recovery = "None"  BY <1>1, MachineFields DEF Init
<1>3. writer.state = "idle" /\ writer.ride = <<>> /\ writer.cont = {} /\ writer.resume = {}
  BY IdleFields DEF Init
<1>4. OursPart /\ KeptPart  BY <1>2, <1>3 DEF OursPart, KeptPart, Ours, Closing, recording
<1>5. CardPart /\ PastPart  BY <1>2, <1>3 DEF Init, CardPart, PastPart, Closing
<1>6. QED  BY <1>4, <1>5 DEF RideInvariant

RecorderInvariant == LoopInvariant /\ SessionInvariant /\ RideInvariant

\* Every step keeps all three layers.
LEMMA RecorderStep ==
    ASSUME OneAtATime
    PROVE  RecorderInvariant /\ [Next]_vars => RecorderInvariant'
<1> SUFFICES ASSUME LoopInvariant, SessionInvariant, RideInvariant, [Next]_vars PROVE RecorderInvariant'
  BY DEF RecorderInvariant
<1>1. CASE UNCHANGED vars
  <2>1. Unsent' = Unsent  BY <1>1 DEF vars, Unsent
  <2>2. RideInvariant'  BY <1>1, <2>1, RideSame DEF vars
  <2>3. QED  BY <2>2, LoopStep, SessionStep DEF RecorderInvariant
<1>2. CASE Next
  <2>1. RideInvariant'
    BY <1>2, StepCases, RideOutcomes, RideAdvance, RideInput, RideNames, RideGesture, RideServes,
       RideFlushes, RideBoots
  <2>2. QED  BY <2>1, LoopStep, SessionStep DEF RecorderInvariant
<1>3. QED  BY <1>1, <1>2

\* The three layers hold in every reachable state.
THEOREM RecorderIsInvariant ==
    ASSUME OneAtATime
    PROVE  Spec => []RecorderInvariant
<1>1. Init => RecorderInvariant  BY LoopInit, SessionInit, RideInit DEF RecorderInvariant
<1>2. QED  BY <1>1, RecorderStep, PTL DEF Spec

\* The totals beside a ride on the card, in its continuation or its footer, are those of
\* exactly the samples it holds (append_context, checkpoint_context and finish), through every
\* refused write, retry, power cut and continuation.
THEOREM RideTotalsMatch ==
    ASSUME OneAtATime
    PROVE  Spec => []TotalsMatch
<1>1. RecorderInvariant => TotalsMatch
  BY DEF RecorderInvariant, RideInvariant, CardPart, Match, TotalsMatch
<1>2. QED  BY <1>1, RecorderIsInvariant, PTL

\* A published ride has every sample that was ever staged for it, once and in order
\* (next_effect's rank and apply_outcome's Appended).
THEOREM RidesLoseNothing ==
    ASSUME OneAtATime
    PROVE  Spec => []NothingStagedIsLost
<1>1. RecorderInvariant => NothingStagedIsLost
  <2> SUFFICES ASSUME RecorderInvariant, saved # None
               PROVE  /\ Ats(saved.payload) = saved.logged
                      /\ \A i \in 1 .. Len(saved.payload) - 1 : saved.payload[i].at < saved.payload[i + 1].at
    BY DEF NothingStagedIsLost, Ats
  <2>1. Ats(saved.payload) = saved.logged /\ Sound(saved.payload, fixes, resets)
    BY DEF RecorderInvariant, RideInvariant, CardPart
  <2>2. QED  BY <2>1 DEF Sound, Follows
<1>2. QED  BY <1>1, RecorderIsInvariant, PTL

\* Two samples of a boot that no segment start separates are of consecutive fixes
\* (record_fix): no line is drawn over a gap, a jump, a pause or a lost sample.
THEOREM RideSegmentsAreContinuous ==
    ASSUME OneAtATime
    PROVE  Spec => []SegmentsAreContinuous
<1>1. RecorderInvariant => SegmentsAreContinuous
  <2> SUFFICES ASSUME RecorderInvariant, saved # None, NEW i \in 1 .. Len(saved.payload) - 1,
                      ~saved.payload[i + 1].seg, saved.payload[i].boot = saved.payload[i + 1].boot
               PROVE  saved.payload[i + 1].at = saved.payload[i].at + 1
    BY DEF SegmentsAreContinuous
  <2>1. Sound(saved.payload, fixes, resets)  BY DEF RecorderInvariant, RideInvariant, CardPart
  <2>2. QED  BY <2>1 DEF Sound, Follows
<1>2. QED  BY <1>1, RecorderIsInvariant, PTL
===============================================================================
