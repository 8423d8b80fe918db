----------------------------- MODULE LinkEngine -----------------------------
(***************************************************************************)
(* The transfer engine of obc-link/src/flat/engine.rs: one state machine   *)
(* that serves PUT, GET, REMOVE, CANCEL, ARM, FORMAT and ARCHIVE from two  *)
(* links over one store, one transfer at a time.                           *)
(*                                                                         *)
(* The storage task calls the engine for one record, pump or link event at *)
(* a time and runs the stall watchdog after each (flat_store.rs); turn     *)
(* keeps the two together.  Between two calls the device commits to the    *)
(* same store, time passes, and links come and go.  The store is seen      *)
(* through its seam (obc-link/src/flat/store.rs): reservations, holds and  *)
(* an atomic commit, which FlatStore shows the store to provide.           *)
(*                                                                         *)
(* A payload is a sequence of bytes and its CRC is the payload itself.     *)
(* LIST and STATUS change nothing and are left out; the verdict upload_end *)
(* is taken in the call that sets it and leaves no state.                  *)
(***************************************************************************)
EXTENDS Integers, Sequences, FiniteSets

CONSTANTS
    Links,          \* Link::Ble and Link::Usb
    Opcodes,        \* the requests the clients of this instance make besides PUT and CANCEL
    Usb,            \* the link whose map uploads carry no checksum
    Requests,       \* the RequestIds clients choose; each link has its own client
    Payloads,       \* the payloads a PUT may declare
    Frames,         \* the bytes one stream record may carry
    Ceilings,       \* the payload bytes a stream record of a link may carry
    Stage,          \* STAGE, in bytes
    MaxObject,      \* the object ids the cursor may hand out
    MaxRevision,    \* the u64::MAX of Revision
    MaxSequence,    \* the u64::MAX of the commit sequence
    MaxOffset,      \* the largest offset a stream record names
    Rows, Holds,    \* MAX_RESERVATIONS and MAX_OPEN of the store
    Timeout,        \* STALL_TIMEOUT_MS, in ticks
    Wrap,           \* the 2^32 of the millisecond clock, in ticks
    Faults,         \* what the store may refuse: "read", "write", "commit", "fence"
    None

ASSUME EngineAssumption ==
    /\ Usb \in Links
    /\ {MaxObject, MaxRevision, MaxSequence, Rows, Holds, Stage, Timeout, Wrap, MaxOffset} \subseteq Nat \ {0}
    /\ Timeout < Wrap
    /\ Ceilings \subseteq Nat \ {0}
    /\ MaxSequence > 1
    /\ Payloads \subseteq Seq(Nat) \ {<<>>} /\ Frames \subseteq Seq(Nat) \ {<<>>}
    /\ None \notin Links \cup Requests \cup Ceilings

VARIABLES
    up,             \* Engine::ceilings: what each link negotiated, None while it is down
    live,           \* Engine::live
    stall,          \* Engine::stall; its clock reading is kept as the age wrapping_sub gives
    owed,           \* Engine::owed
    turn,           \* "watch" between a served call and the watch_stall that follows it
    head, kept,     \* the catalog: the head and the retained revision of every object
    next,           \* next_object_id
    sequence,       \* commit_sequence
    mode,           \* Mode: read-write, exhausted, or fenced by an uncertain commit
    rows, holds,    \* who holds each reservation and each open object
    format,         \* "no", or FORMAT ran in this boot: nothing committed since, or something did
    reboot,         \* an answer that ends in a reboot is on its way out
    waiting,        \* history: the transfers each link's peer still awaits an answer to
    stray           \* history: an answer went to a peer that was not waiting for it

engineVars == <<up, live, stall, owed, turn>>
catalog    == <<head, kept, next, sequence, mode, format>>
storeVars  == <<catalog, rows, holds>>
history    == <<waiting, stray>>
vars       == <<engineVars, storeVars, reboot, history>>

Objects   == 1 .. MaxObject
Revisions == 1 .. MaxRevision
Kinds     == {"map", "data"}

\* The one upload whose bytes the device does not sum: a map over the cable.
Unchecked(l, kind) == l = Usb /\ kind = "map"

\* checked is history: an entry the device wrote, or one of an upload it summed.
Entry ==
    [rev : Revisions, kind : Kinds \cup {"device"}, bytes : Seq(Nat), crc : Seq(Nat),
     checked : BOOLEAN]

Row       == [by : {"link", "device"}, bytes : Seq(Nat)]

\* None is no value of the tables it stands for the absence in.
ASSUME NoneAssumption ==
    /\ None \notin Seq(Nat) /\ None \notin Row /\ None \notin Entry
    /\ None \notin [req : Requests, bytes : Nat, age : Nat]
    /\ None \notin [link : Links, req : Requests]

\* A device-owned object: a ride being recorded, a reserve, metadata (is_untouchable, Metadata).
Untouchable(e) == e.kind = "device"

Idle == [mode |-> "idle"]

Upload ==
    [mode : {"put"}, link : Links, ceil : Ceilings, req : Requests, id : 0 .. MaxObject,
     rev : Revisions, kind : Kinds, crc : Payloads, displaced : {0} \cup Revisions,
     received : Nat, staged : Seq(Nat), bank : {0, 1}, sum : Seq(Nat) \cup {None}, row : 1 .. Rows]

Download ==
    [mode : {"get"}, link : Links, ceil : Ceilings, req : Requests,
     rev : Revisions, sent : Nat, hold : 1 .. Holds]

LiveLink(l) == live # Idle /\ live.link = l
Owes(l)     == owed # None /\ owed.link = l

\* live_bytes
Bytes == IF live.mode = "put" THEN live.received ELSE live.sent

-----------------------------------------------------------------------------
(* The store seam. *)

readable == mode \in {"rw", "exhausted"}
writable == mode = "rw"

HeadRev(o)  == IF head[o] = None THEN 0 ELSE head[o].rev
FreeRows    == {r \in 1 .. Rows : rows[r] = None}
FreeHolds   == {h \in 1 .. Holds : holds[h] = None}
Smaller(m, n) == IF m < n THEN m ELSE n
Least(S)    == CHOOSE x \in S : \A y \in S : x <= y

\* Mutant: the last sequence is handed out like any other.
CommitTo_Endless(heads, keeps, cursor) ==
    /\ writable
    /\ head' = heads /\ kept' = keeps /\ next' = cursor
    /\ sequence' = sequence + 1
    /\ UNCHANGED mode
    /\ format' = IF format = "no" THEN "no" ELSE "dirty"

\* commit: the batch is applied and answered.
CommitTo(heads, keeps, cursor) ==
    /\ writable
    /\ head' = heads /\ kept' = keeps /\ next' = cursor
    /\ sequence' = sequence + 1
    /\ mode' = IF sequence + 1 = MaxSequence THEN "exhausted" ELSE mode
    /\ format' = IF format = "no" THEN "no" ELSE "dirty"

\* commit: an error.  The batch was refused, or its gate is uncertain: then the store
\* fences itself, and the next mount decides which of the two catalogs it was.
CommitErr(heads, keeps, cursor) ==
    \/ "commit" \in Faults /\ UNCHANGED catalog
    \/ /\ "fence" \in Faults
       /\ writable
       /\ mode' = "fenced"
       /\ \/ UNCHANGED <<head, kept, next, sequence>>
          \/ head' = heads /\ kept' = keeps /\ next' = cursor /\ sequence' = sequence + 1
       /\ format' = IF format = "no" THEN "no" ELSE "dirty"

\* The batch of a PUT: publish, displace the head, free the retained revision with it.
Published(o, e) == [head EXCEPT ![o] = e]
Freed(o)        == IF head[o] = None THEN kept ELSE [kept EXCEPT ![o] = None]
Cursor(o)       == IF o = next THEN next + 1 ELSE next

-----------------------------------------------------------------------------
(* Answers.  A PUT or GET is answered once, when the transfer ends. *)

Answer(l, r) ==
    /\ stray' = (stray \/ r \notin waiting[l])
    /\ waiting' = [waiting EXCEPT ![l] = @ \ {r}]

\* The engine's turn is over; a live transfer is looked at before the next call.
Watch == turn' = IF live' = Idle THEN "serve" ELSE "watch"

\* Mutant: the reservation of a dropped upload is forgotten.
abandon_Kept ==
    /\ live' = Idle /\ stall' = None
    /\ UNCHANGED rows
    /\ holds' = IF live.mode = "get" THEN [holds EXCEPT ![live.hold] = None] ELSE holds

\* abandon: the one path on which a transfer gives back what it holds.  A fenced store
\* keeps the reservation until it is mounted again.
abandon ==
    /\ live' = Idle /\ stall' = None
    /\ rows' = IF live.mode = "put" /\ mode' # "fenced" THEN [rows EXCEPT ![live.row] = None] ELSE rows
    /\ holds' = IF live.mode = "get" THEN [holds EXCEPT ![live.hold] = None] ELSE holds

\* fail_upload, fail_download: the transfer's own error answer, at once.
Fail == abandon /\ Answer(live.link, live.req) /\ turn' = "serve" /\ UNCHANGED <<up, owed, reboot>>

Serving == turn = "serve"

-----------------------------------------------------------------------------
(* Requests that start a transfer. *)

\* on_put, admit_put: o = 0 creates.  A create takes its id at the commit, not here.
on_put(l, r, o, kind, payload) ==
    /\ Serving /\ up[l] # None /\ r \notin waiting[l]
    /\ live = Idle /\ writable
    /\ o # 0 => /\ head[o] # None /\ ~Untouchable(head[o])
                /\ head[o].kind = kind /\ head[o].rev < MaxRevision
    /\ FreeRows # {}
    /\ rows' = [rows EXCEPT ![Least(FreeRows)] = [by |-> "link", bytes |-> <<>>]]
    /\ live' = [mode |-> "put", link |-> l, ceil |-> up[l], req |-> r, id |-> o,
                rev |-> IF o = 0 THEN 1 ELSE head[o].rev + 1, kind |-> kind, crc |-> payload,
                displaced |-> IF o = 0 THEN 0 ELSE head[o].rev,
                received |-> 0, staged |-> <<>>, bank |-> 0,
                sum |-> IF Unchecked(l, kind) THEN None ELSE <<>>, row |-> Least(FreeRows)]
    /\ waiting' = [waiting EXCEPT ![l] = @ \cup {r}]
    /\ Watch
    /\ UNCHANGED <<up, stall, owed, catalog, holds, reboot, stray>>

\* on_get: the first record goes out with the admission.
on_get(l, r, e) ==
    /\ Serving /\ up[l] # None /\ r \notin waiting[l]
    /\ "GET" \in Opcodes /\ live = Idle /\ readable
    /\ e # None /\ ~Untouchable(e)
    /\ FreeHolds # {}
    /\ holds' = [holds EXCEPT ![Least(FreeHolds)] = [by |-> "link", bytes |-> e.bytes]]
    /\ live' = [mode |-> "get", link |-> l, ceil |-> up[l], req |-> r, rev |-> e.rev,
                sent |-> Smaller(up[l], Len(e.bytes)), hold |-> Least(FreeHolds)]
    /\ waiting' = [waiting EXCEPT ![l] = @ \cup {r}]
    /\ Watch
    /\ UNCHANGED <<up, stall, owed, catalog, rows, reboot, stray>>

-----------------------------------------------------------------------------
(* The records of an upload. *)

\* absorb: whole stages go to the card, the rest waits in the stage.
Whole(data)   == Stage * (Len(live.staged \o data) \div Stage)
Written(data) == rows[live.row].bytes \o SubSeq(live.staged \o data, 1, Whole(data))
Staged(data)  == SubSeq(live.staged \o data, Whole(data) + 1, Len(live.staged \o data))
Summed(data)  == IF live.sum = None THEN None ELSE live.sum \o data

\* Mutant: the partial stage stays in RAM.
Flushed_Whole(data) == Written(data)

\* flush: what the reservation holds when the commit begins.
Flushed(data) == Written(data) \o Staged(data)

Uploading(l, r) == LiveLink(l) /\ live.mode = "put" /\ live.req = r

\* The record continues the upload: neither too long, nor a gap, an overlap or too much.
Continues(off, data) ==
    /\ Len(data) <= live.ceil
    /\ off = live.received /\ off + Len(data) <= Len(live.crc)

Last(data) == live.received + Len(data) = Len(live.crc)

\* on_stream: a malformed record, one that does not continue the upload, a write error.
StreamFails(l, r, off, data) ==
    /\ Serving /\ Uploading(l, r)
    /\ \/ ~Continues(off, data)
       \/ Whole(data) > 0 /\ ("write" \in Faults \/ ~writable)
    /\ UNCHANGED catalog /\ Fail

on_stream(l, r, off, data) ==
    /\ Serving /\ Uploading(l, r) /\ Continues(off, data)
    /\ Whole(data) > 0 => writable
    /\ ~Last(data)
    /\ live' = [live EXCEPT !.received = @ + Len(data), !.staged = Staged(data), !.sum = Summed(data)]
    /\ rows' = [rows EXCEPT ![live.row].bytes = Written(data)]
    /\ Watch
    /\ UNCHANGED <<up, stall, owed, catalog, holds, reboot, waiting, stray>>

\* Mutant: the head named at the admission is not looked up again.
HeadStands_Trusted == (IF live.id = 0 THEN next ELSE live.id) \in Objects

\* publish: a create takes its id now, and the head must still be what the client named.
PublishId  == IF live.id = 0 THEN next ELSE live.id
HeadStands == PublishId \in Objects /\ HeadRev(PublishId) = live.displaced

NewEntry(bytes) ==
    [rev |-> live.rev, kind |-> live.kind, bytes |-> bytes, crc |-> live.crc,
     checked |-> ~Unchecked(live.link, live.kind)]

\* finish_upload: the checks before the commit.
Acceptable(sum) == (sum # None => sum = live.crc) /\ readable /\ HeadStands

Commits(bytes, sum) ==
    /\ Acceptable(sum)
    /\ CommitTo(Published(PublishId, NewEntry(bytes)), Freed(PublishId), Cursor(PublishId))
    /\ live' = Idle
    /\ rows' = [rows EXCEPT ![live.row] = None]
    /\ Answer(live.link, live.req)
    /\ turn' = "serve"
    /\ UNCHANGED <<up, stall, owed, holds, reboot>>

\* finish_upload: a checksum, a validator, the flush, the lookup or the commit says no.
CommitFails(bytes, sum) ==
    /\ \/ /\ ~Acceptable(sum) \/ ~writable \/ {"write", "read"} \cap Faults # {}
          /\ UNCHANGED catalog
       \/ /\ Acceptable(sum)
          /\ CommitErr(Published(PublishId, NewEntry(bytes)), Freed(PublishId), Cursor(PublishId))
    /\ Fail

FinishStream(l, r, off, data) ==
    /\ Serving /\ Uploading(l, r) /\ Continues(off, data) /\ Last(data)
    /\ Whole(data) > 0 => writable
    /\ \/ Commits(Flushed(data), Summed(data))
       \/ CommitFails(Flushed(data), Summed(data))

\* on_usb_map_batch: the adapter's batch goes to the card from the bank it was received in.
BatchFits(r, off, data, bank) ==
    /\ Uploading(Usb, r) /\ live.bank = bank
    /\ live.kind = "map" /\ live.staged = <<>>
    /\ off = live.received /\ off + Len(data) <= Len(live.crc)

BatchFails(r, off, data, bank) ==
    /\ Serving /\ Uploading(Usb, r) /\ live.bank = bank
    /\ ~BatchFits(r, off, data, bank) \/ "write" \in Faults \/ ~writable
    /\ UNCHANGED catalog /\ Fail

on_usb_map_batch(r, off, data, bank) ==
    /\ Serving /\ BatchFits(r, off, data, bank) /\ writable /\ ~Last(data)
    /\ live' = [live EXCEPT !.received = @ + Len(data), !.bank = 1 - @, !.sum = Summed(data)]
    /\ rows' = [rows EXCEPT ![live.row].bytes = @ \o data]
    /\ Watch
    /\ UNCHANGED <<up, stall, owed, catalog, holds, reboot, waiting, stray>>

FinishBatch(r, off, data, bank) ==
    /\ Serving /\ BatchFits(r, off, data, bank) /\ writable /\ Last(data)
    /\ LET bytes == rows[live.row].bytes \o data
       IN  Commits(bytes, Summed(data)) \/ CommitFails(bytes, Summed(data))

-----------------------------------------------------------------------------
(* Pumping, cancelling, and the watchdog. *)

\* poll: an answer owed to a dropped transfer goes first.
PollOwed(l) ==
    /\ Serving /\ Owes(l)
    /\ Answer(l, owed.req) /\ owed' = None
    /\ UNCHANGED <<up, live, stall, storeVars, reboot>> /\ Watch

Pumps(l) == Serving /\ LiveLink(l) /\ live.mode = "get" /\ ~Owes(l)

Held == holds[live.hold].bytes

poll(l) ==
    /\ Pumps(l) /\ live.sent < Len(Held)
    /\ live' = [live EXCEPT !.sent = Smaller(@ + live.ceil, Len(Held))]
    /\ Watch
    /\ UNCHANGED <<up, stall, owed, storeVars, reboot, waiting, stray>>

\* poll: every byte has gone, or a read failed; either way the answer goes out now.
PollEnds(l) ==
    /\ Pumps(l)
    /\ live.sent >= Len(Held) \/ "read" \in Faults
    /\ UNCHANGED catalog /\ Fail

\* on_cancel: only the link that owns the transfer cancels it, by its own identifier.
on_cancel(l, r) ==
    /\ Serving /\ up[l] # None
    /\ LiveLink(l) /\ live.req = r
    /\ UNCHANGED catalog /\ abandon
    /\ owed' = [link |-> l, req |-> r]
    /\ turn' = "serve"
    /\ UNCHANGED <<up, reboot, waiting, stray>>

\* Mutant: every look at the transfer is its first.
Anchor_Fresh == [req |-> live.req, bytes |-> Bytes, age |-> 0]

\* watch_stall: re-anchor a transfer that moved, abandon one that did not.
Anchor ==
    IF stall # None /\ stall.req = live.req /\ stall.bytes = Bytes
    THEN stall ELSE [req |-> live.req, bytes |-> Bytes, age |-> 0]

watch_stall ==
    /\ turn = "watch" /\ turn' = "serve"
    /\ UNCHANGED <<up, catalog, reboot, history>>
    /\ IF Anchor.age >= Timeout
       THEN abandon /\ owed' = [link |-> live.link, req |-> live.req]
       ELSE stall' = Anchor /\ UNCHANGED <<live, owed, rows, holds>>

\* The clock; the storage task wakes for the deadline of a live transfer.
Tick ==
    /\ Serving
    /\ stall' = IF stall = None THEN None ELSE [stall EXCEPT !.age = (@ + 1) % Wrap]
    /\ turn' = IF live = Idle THEN "serve" ELSE "watch"
    /\ UNCHANGED <<up, live, owed, storeVars, reboot, waiting, stray>>

-----------------------------------------------------------------------------
(* Links. *)

\* Mutant: the answer owed to the peer that left is kept for the one that comes.
DropLink_Owing(l) ==
    /\ IF LiveLink(l) THEN abandon ELSE UNCHANGED <<live, stall, rows, holds>>
    /\ UNCHANGED owed
    /\ waiting' = [waiting EXCEPT ![l] = {}]

\* What both link events do to the transfer and the answer of that link.
DropLink(l) ==
    /\ IF LiveLink(l) THEN abandon ELSE UNCHANGED <<live, stall, rows, holds>>
    /\ owed' = IF Owes(l) THEN None ELSE owed
    /\ waiting' = [waiting EXCEPT ![l] = {}]

on_link_up(l, c) ==
    /\ Serving /\ UNCHANGED catalog /\ DropLink(l)
    /\ up' = [up EXCEPT ![l] = c]
    /\ Watch /\ UNCHANGED <<reboot, stray>>

on_link_lost(l) ==
    /\ Serving /\ up[l] # None /\ UNCHANGED catalog /\ DropLink(l)
    /\ up' = [up EXCEPT ![l] = None]
    /\ Watch /\ UNCHANGED <<reboot, stray>>

-----------------------------------------------------------------------------
(* Requests that are answered at once. *)

AtOnce(l) ==
    /\ Serving /\ up[l] # None
    /\ UNCHANGED <<up, live, stall, owed, rows, holds, history>>
    /\ Watch

\* apply_remove: a retained revision goes with the head.  Served beside a live transfer.
on_remove(l, o) ==
    /\ "REMOVE" \in Opcodes /\ AtOnce(l) /\ UNCHANGED reboot
    /\ head[o] # None /\ ~Untouchable(head[o])
    /\ LET heads == [head EXCEPT ![o] = None]
           keeps == [kept EXCEPT ![o] = None]
       IN  CommitTo(heads, keeps, next) \/ (writable /\ CommitErr(heads, keeps, next))

DeviceEntry(rev, kind) ==
    [rev |-> rev, kind |-> kind, bytes |-> <<1>>, crc |-> <<1>>, checked |-> TRUE]

Reserve == [rev |-> 1, kind |-> "device", bytes |-> <<>>, crc |-> <<>>, checked |-> TRUE]

\* apply_arm: the reserve is committed, handed off, and the device reboots.
on_arm(l, o) ==
    /\ "ARM" \in Opcodes /\ AtOnce(l) /\ live = Idle
    /\ head[o] # None /\ head[o].kind = "data"
    /\ next \in Objects /\ FreeRows # {}
    /\ LET heads == [head EXCEPT ![next] = Reserve]
       IN  \/ CommitTo(heads, kept, next + 1) /\ reboot' = TRUE
           \/ writable /\ CommitErr(heads, kept, next + 1) /\ UNCHANGED reboot

\* apply_arm: the hand-off fails, and a second commit takes the reserve back: it is applied,
\* refused, or uncertain.
ArmTakenBack(l, o) ==
    /\ "ARM" \in Opcodes /\ AtOnce(l) /\ live = Idle /\ writable
    /\ head[o] # None /\ head[o].kind = "data"
    /\ next \in Objects /\ FreeRows # {}
    /\ LET taken == sequence' = sequence + 2 /\ UNCHANGED head
           left  == sequence' = sequence + 1 /\ head' = [head EXCEPT ![next] = Reserve]
           room  == sequence + 2 <= MaxSequence
           after == IF sequence' = MaxSequence THEN "exhausted" ELSE mode
       IN  \/ room /\ taken /\ mode' = after
           \/ (~room \/ "commit" \in Faults) /\ left /\ mode' = after
           \/ room /\ "fence" \in Faults /\ (taken \/ left) /\ mode' = "fenced"
    /\ next' = next + 1 /\ format' = IF format = "no" THEN "no" ELSE "dirty"
    /\ UNCHANGED <<kept, reboot>>

\* on_archive: a receipt the metadata object already holds is made durable and commits nothing;
\* a failed sync fences the store.
ArchivedAgain(l) ==
    /\ "ARCHIVE" \in Opcodes /\ AtOnce(l) /\ live = Idle /\ readable
    /\ mode' \in {mode} \cup (IF "fence" \in Faults THEN {"fenced"} ELSE {})
    /\ UNCHANGED <<head, kept, next, sequence, format, reboot>>

\* publish_image: the metadata object is replaced, or the first receipt makes it.  Which of the
\* device's objects it is, the model leaves open.
Metadata(m) ==
    IF head[m] = None THEN m = next
    ELSE head[m].kind = "device" /\ kept[m] = None /\ head[m].rev < MaxRevision

\* on_archive: a new receipt is one commit.  An image that does not read back afterwards fences
\* the store as an uncertain gate does.
on_archive(l) ==
    /\ "ARCHIVE" \in Opcodes /\ AtOnce(l) /\ live = Idle /\ UNCHANGED reboot
    /\ writable /\ FreeRows # {} /\ FreeHolds # {}
    /\ \E m \in Objects :
         /\ Metadata(m)
         /\ LET heads == Published(m, DeviceEntry(HeadRev(m) + 1, "device"))
            IN  CommitTo(heads, kept, Cursor(m)) \/ CommitErr(heads, kept, Cursor(m))

\* on_format: the card is new; the resident store is not, and the device reboots.
on_format(l) ==
    /\ "FORMAT" \in Opcodes /\ AtOnce(l) /\ live = Idle
    /\ format' \in IF mode = "fenced" THEN {format}
                   ELSE {"clean"} \cup (IF "write" \in Faults THEN {"dirty"} ELSE {})
    /\ reboot' = TRUE
    /\ UNCHANGED <<head, kept, next, sequence, mode>>

Empty == [o \in Objects |-> None]

\* The reboot at the end of ARM and FORMAT: RAM is lost and the store is mounted again.
Reboot ==
    /\ Serving /\ reboot /\ reboot' = FALSE
    /\ up' = [l \in Links |-> None] /\ live' = Idle /\ stall' = None /\ owed' = None
    /\ rows' = [r \in 1 .. Rows |-> None] /\ holds' = [h \in 1 .. Holds |-> None]
    /\ IF format = "no"
       THEN /\ mode' = IF mode = "unreadable" THEN mode
                       ELSE IF sequence = MaxSequence THEN "exhausted" ELSE "rw"
            /\ UNCHANGED <<head, kept, next, sequence>>
       ELSE /\ head' = Empty /\ kept' = Empty /\ next' = 1 /\ sequence' = 1
            /\ mode' \in {"rw"} \cup (IF format = "dirty" THEN {"unreadable"} ELSE {})
    /\ format' = "no"
    /\ waiting' = [l \in Links |-> {}]
    /\ UNCHANGED <<turn, stray>>

-----------------------------------------------------------------------------
(* What the device does to the store between two calls of the engine. *)

Elsewhere == Serving /\ UNCHANGED <<engineVars, reboot, history>>

\* The storage task's own commits: a ride, a computed route, a removal, a route replaced
\* while the old revision is kept for the journey that uses it.
DeviceCommit(o) ==
    /\ Elsewhere /\ UNCHANGED <<rows, holds>>
    /\ \/ \E kind \in {"data", "device"} :
            /\ o = next /\ head[o] = None
            /\ CommitTo([head EXCEPT ![o] = DeviceEntry(1, kind)], kept, next + 1)
       \/ /\ head[o] # None
          /\ CommitTo([head EXCEPT ![o] = None], [kept EXCEPT ![o] = None], next)
       \/ /\ head[o] # None /\ head[o].rev < MaxRevision /\ kept[o] = None
          /\ CommitTo([head EXCEPT ![o] = DeviceEntry(head[o].rev + 1, head[o].kind)],
                      [kept EXCEPT ![o] = head[o]], next)
       \/ /\ "fence" \in Faults /\ writable /\ mode' = "fenced"
          /\ UNCHANGED <<head, kept, next, sequence, format>>

\* The device reserves and opens objects of its own, and gives them back.
DeviceHolds ==
    /\ Elsewhere /\ UNCHANGED catalog
    /\ LET mine == [by |-> "device", bytes |-> <<>>]
       IN  \/ /\ writable /\ FreeRows # {} /\ UNCHANGED holds
              /\ rows' = [rows EXCEPT ![Least(FreeRows)] = mine]
           \/ /\ readable /\ FreeHolds # {} /\ UNCHANGED rows
              /\ holds' = [holds EXCEPT ![Least(FreeHolds)] = mine]
           \/ \E r \in 1 .. Rows : rows[r] = mine /\ mode # "fenced"
                /\ rows' = [rows EXCEPT ![r] = None] /\ UNCHANGED holds
           \/ \E h \in 1 .. Holds : holds[h] = mine
                /\ holds' = [holds EXCEPT ![h] = None] /\ UNCHANGED rows

-----------------------------------------------------------------------------

Init ==
    /\ up = [l \in Links |-> None] /\ live = Idle /\ stall = None /\ owed = None
    /\ turn = "serve"
    /\ head = [Empty EXCEPT ![1] = DeviceEntry(1, "data")] /\ kept = Empty
    /\ next = 2 /\ sequence = 1 /\ mode = "rw"
    /\ rows = [r \in 1 .. Rows |-> None] /\ holds = [h \in 1 .. Holds |-> None]
    /\ format = "no" /\ reboot = FALSE
    /\ waiting = [l \in Links |-> {}] /\ stray = FALSE

Offsets == 0 .. MaxOffset

Record(l) ==
    \E r \in Requests, off \in Offsets, data \in Frames :
        \/ StreamFails(l, r, off, data)
        \/ on_stream(l, r, off, data)
        \/ FinishStream(l, r, off, data)

Batch ==
    \E r \in Requests, off \in Offsets, data \in Frames, bank \in {0, 1} :
        \/ BatchFails(r, off, data, bank)
        \/ on_usb_map_batch(r, off, data, bank)
        \/ FinishBatch(r, off, data, bank)

Request(l) ==
    \/ \E r \in Requests :
        \/ \E o \in {0} \cup Objects, kind \in Kinds, p \in Payloads : on_put(l, r, o, kind, p)
        \/ \E o \in Objects : on_get(l, r, head[o]) \/ on_get(l, r, kept[o])
        \/ on_cancel(l, r)
    \/ \E o \in Objects : on_remove(l, o) \/ on_arm(l, o) \/ ArmTakenBack(l, o)
    \/ on_archive(l) \/ ArchivedAgain(l)
    \/ on_format(l)

LinkEvent(l) ==
    \/ \E c \in Ceilings : on_link_up(l, c)
    \/ on_link_lost(l)

Next ==
    \/ \E l \in Links :
        \/ Request(l)
        \/ Record(l)
        \/ PollOwed(l) \/ poll(l) \/ PollEnds(l)
        \/ LinkEvent(l)
    \/ Batch
    \/ watch_stall
    \/ Tick
    \/ Reboot
    \/ \E o \in Objects : DeviceCommit(o)
    \/ DeviceHolds

\* Time passes whatever the engine is asked, and the task looks after every call.
Spec == Init /\ [][Next]_vars /\ SF_vars(Tick) /\ WF_vars(watch_stall)

-----------------------------------------------------------------------------
(* Properties. *)

\* The shape of the engine's state and of the store behind the seam.
TypeOK ==
    /\ up \in [Links -> Ceilings \cup {None}]
    /\ live = Idle \/ live \in Upload \/ live \in Download
    /\ stall = None \/ stall \in [req : Requests, bytes : Nat, age : 0 .. Wrap - 1]
    /\ owed = None \/ owed \in [link : Links, req : Requests]
    /\ turn \in {"serve", "watch"}
    /\ head \in [Objects -> Entry \cup {None}] /\ kept \in [Objects -> Entry \cup {None}]
    /\ next \in 1 .. MaxObject + 1 /\ sequence \in 1 .. MaxSequence
    /\ mode \in {"rw", "exhausted", "fenced", "unreadable"}
    /\ rows \in [1 .. Rows -> Row \cup {None}]
    /\ holds \in [1 .. Holds -> Row \cup {None}]
    /\ format \in {"no", "clean", "dirty"} /\ reboot \in BOOLEAN
    /\ waiting \in [Links -> SUBSET Requests] /\ stray \in BOOLEAN

\* engine.rs `abandon`: a transfer that ends in any way gives back its reservation and its
\* hold, and no transfer ever has more than one of them.
NothingLeaks ==
    /\ mode # "fenced" =>
         {r \in 1 .. Rows : rows[r] # None /\ rows[r].by = "link"} =
            IF live.mode = "put" THEN {live.row} ELSE {}
    /\ {h \in 1 .. Holds : holds[h] # None /\ holds[h].by = "link"} =
            IF live.mode = "get" THEN {live.hold} ELSE {}

\* engine.rs `finish_upload`: an object published by a checked upload holds exactly the bytes
\* whose checksum the PUT declared, however the records, the stage and the writes fell; one
\* published by an unchecked upload (a map over USB) holds as many.
PublishedIsDeclared ==
    \A o \in Objects : head[o] # None =>
        /\ Len(head[o].bytes) = Len(head[o].crc)
        /\ head[o].checked => head[o].bytes = head[o].crc

\* engine.rs `publish`: a PUT replaces the revision its client named or nothing, whatever the
\* device committed since the admission, and a create never takes an id that names an object.
NoLostUpdate ==
    [][\A o \in Objects :
         (live.mode = "put" /\ live' = Idle /\ reboot' = reboot /\ head'[o] # head[o]) =>
            /\ HeadRev(o) = live.displaced
            /\ live.id \in {0, o}
            /\ head'[o].rev = live.displaced + 1]_vars

\* engine.rs `poll`, `on_link_up`, `on_link_lost`: an answer goes to the peer that made the
\* request, once; never to the other link, and never to the next peer on the same link.
AnswersReachTheAsker == ~stray

\* engine.rs `watch_stall`: every transfer ends, although its client may send nothing, or
\* nothing that moves a byte, for ever.
EveryTransferEnds == live # Idle ~> live = Idle
=============================================================================
