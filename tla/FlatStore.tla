------------------------------ MODULE FlatStore ------------------------------
(***************************************************************************)
(* The flat store of firmware/obc-storage/src/flat: an SD card without a   *)
(* file system, on which two catalog copies alternate.  A commit           *)
(* invalidates the gate of the copy that is not served, writes that copy's *)
(* body, and then writes its gate; the gate is the moment the new catalog  *)
(* becomes the truth.  Payload bytes live in extents that are free exactly *)
(* when no entry names them.                                               *)
(*                                                                         *)
(* What is abstracted:                                                     *)
(*  - a record's CRC tells every two values apart, so a well-formed gate   *)
(*    is modelled by the body it certifies and a record that fails its     *)
(*    CRC by Ill;                                                          *)
(*  - a payload is one Payload value per extent it covers, and an entry's  *)
(*    payload_len and payload_crc are the function `content` from the      *)
(*    extents that hold payload to those values;                           *)
(*  - kind, name, added time and ASSISTANT_ACCEPTED are left out: they are *)
(*    copied, never decide what a commit writes or frees;                  *)
(*  - the bytes of a ride reach its extents through the journal (module    *)
(*    RideJournal); here they appear with the commit that ends the ride;   *)
(*  - an Allocation or Handle token is its row: the nonce and key checks   *)
(*    of row_of and close make every other token a no-op.                  *)
(***************************************************************************)
EXTENDS Integers, FiniteSets

CONSTANTS
    ExtentCount,      \* extents of the card
    Payload,          \* what one extent can hold
    Ill,              \* a record or an extent whose bytes are no valid value
    None,             \* no entry, no row, no command in progress
    MaxSequence,      \* the u64::MAX of the commit sequence
    MaxObjectId,      \* the u64::MAX of ObjectId
    MaxRevision,      \* the u64::MAX of Revision
    Capacity,         \* ENTRY_CAPACITY
    MaxRanges,        \* MAX_RANGES of one entry
    MaxBatch,         \* MAX_BATCH
    MaxReservations,  \* MAX_RESERVATIONS
    MaxOpen,          \* MAX_OPEN_OBJECTS
    MaxReaders,       \* bound on the readers of one row (readers is a counter)
    Flags,            \* the entry flags in use
    MaxSealed,        \* bound on sealed reservations at a time
    MaxListings,      \* bound on open listings: 0 or 1
    Faults            \* the card faults considered, see FaultKinds

(***************************************************************************)
(* The faults of the card, each a way the driver or the medium can fail.   *)
(*   write, sync  one command is refused, its effect may still be there    *)
(*   cut          power goes away; a write that was not synchronized is    *)
(*                kept, lost or torn                                       *)
(*   find_read    the catalog read of a close fails                        *)
(*   mount_read   a catalog read of a mount fails                          *)
(*   rot          the body of one copy goes bad by itself                  *)
(***************************************************************************)
FaultKinds == {"write", "sync", "cut", "find_read", "mount_read", "rot"}

ASSUME ConstantsAssumption ==
    /\ ExtentCount \in Nat
    /\ {MaxSequence, MaxObjectId} \subseteq Nat \ {0}
    /\ {MaxRevision, Capacity, MaxRanges} \subseteq Nat
    /\ {MaxBatch, MaxReservations, MaxOpen, MaxReaders} \subseteq Nat
    /\ {MaxSealed, MaxListings} \subseteq Nat
    /\ Flags \subseteq {"plain", "recording", "reserved"}
    /\ Faults \subseteq FaultKinds

Copies   == {0, 1}
Extents  == 0 .. ExtentCount - 1
Slots    == 1 .. MaxReservations

\* Both counters stop one short of wrapping: resolve refuses u64::MAX for either.
Keys     == (1 .. MaxObjectId - 1) \X (1 .. MaxRevision - 1)
IdOf(k)  == k[1]
RevOf(k) == k[2]

\* The card is an array of cells: two gates, two bodies, and the extents.
Gate(c) == <<"gate", c>>
Body(c) == <<"body", c>>
Data(e) == <<"data", e>>
Cells   == {Gate(c) : c \in Copies} \cup {Body(c) : c \in Copies} \cup {Data(e) : e \in Extents}

HoldsSlack(flag) == flag # "plain"

\* The least and the greatest element, as the set that holds it.
Lowest(S)   == {n \in S : \A m \in S : n <= m}
Greatest(S) == {n \in S : \A m \in S : n >= m}

NoContent == [e \in {} |-> Ill]
Contents == UNION {[S -> Payload] : S \in SUBSET Extents}
Entry    == [flag : {"plain", "recording", "reserved"}, retained : BOOLEAN, ranges : SUBSET Extents, content : Contents]
Catalog  == [sequence : 1 .. MaxSequence, next : 1 .. MaxObjectId, entries : [Keys -> Entry \cup {None}]]

ASSUME IllAssumption == Ill \notin Payload /\ Ill \notin Catalog

VARIABLES
    card,     \* what a read of each cell returns
    flash,    \* what is left of each cell when power goes away
    served,   \* the resident Served value: mode, copy, sequence, high_water, next_object
    used,     \* the resident free map: the extents that are not free
    rows,     \* the reservation table
    holds,    \* the open-object table, by the key of its row
    op,       \* the commit in progress, between two of its card commands
    listing   \* one open Entries iterator

media == <<card, flash>>
vars  == <<card, flash, served, used, rows, holds, op, listing>>

Modes    == {"Off", "ReadWrite", "SequenceSpaceExhausted", "CatalogUnreadable", "RemountRequired"}
Writable == served.mode = "ReadWrite"
Readable == served.mode \in {"ReadWrite", "SequenceSpaceExhausted"}

-----------------------------------------------------------------------------
(* The catalog: what one copy holds, and the rules of its entry array.     *)

Present(entries)   == {k \in Keys : entries[k] # None}
Named(entries)     == UNION {entries[k].ranges : k \in Present(entries)}
HeadsOf(entries, id) == {k \in Present(entries) : IdOf(k) = id /\ ~entries[k].retained}

\* Entry::check: ranges cover the payload, and only a slack flag covers more.
EntryOk(entry) ==
    /\ entry.ranges # {}
    /\ DOMAIN entry.content \subseteq entry.ranges
    /\ ~HoldsSlack(entry.flag) => DOMAIN entry.content = entry.ranges
    /\ entry.flag = "reserved" => DOMAIN entry.content = {}

\* Structure::accept and ::finish over the whole array: one head per object and
\* at most one retained revision below it, one ride, a cursor above every id.
StructureOk(catalog) ==
    LET entries == catalog.entries
        P == Present(entries)
    IN  /\ \A k \in P : EntryOk(entries[k]) /\ IdOf(k) < catalog.next
        /\ \A k, l \in P : IdOf(k) = IdOf(l) /\ RevOf(k) < RevOf(l) =>
               entries[k].retained /\ ~entries[l].retained
        /\ \A k \in P : entries[k].retained =>
               \E l \in P : IdOf(l) = IdOf(k) /\ RevOf(l) > RevOf(k)
        /\ \A k, l \in P : entries[k].flag = "recording" /\ entries[l].flag = "recording" => k = l

\* FreeMap::claim over every entry: no two entries name one extent.
RangesDisjoint(entries) ==
    \A k, l \in Present(entries) : k # l => entries[k].ranges \cap entries[l].ranges = {}

\* load: the gate certifies this body and the body obeys every rule.
Loads(m, c) ==
    /\ m[Gate(c)] # Ill
    /\ m[Body(c)] = m[Gate(c)]
    /\ StructureOk(m[Gate(c)])
    /\ RangesDisjoint(m[Gate(c)].entries)

\* bring_up's choice, given the gates and the bodies whose reads did not fail: the valid
\* copy with the greatest sequence, none at all when two gates carry the same.
WellFormed(m, gates) == {c \in gates : m[Gate(c)] # Ill}
Selectable(m, gates, bodies) ==
    IF \E c, d \in WellFormed(m, gates) : c # d /\ m[Gate(c)].sequence = m[Gate(d)].sequence
    THEN {}
    ELSE {c \in WellFormed(m, gates) \cap bodies : Loads(m, c)}
Selected(m, gates, bodies) ==
    LET valid == Selectable(m, gates, bodies)
    IN  {c \in valid : \A d \in valid : m[Gate(c)].sequence >= m[Gate(d)].sequence}
HighWater(m, gates) == Greatest({0} \cup {m[Gate(c)].sequence : c \in WellFormed(m, gates)})

EmptyCatalog == [sequence |-> 1, next |-> 1, entries |-> [k \in Keys |-> None]]

\* The catalog the mounted store serves, as it reads it from the card.
Serving == card[Body(served.copy)]

-----------------------------------------------------------------------------
(* Card commands (external: the BlockDevice the store is mounted on).      *)

NoWrites == [c \in {} |-> Ill]
Put(m, writes) == [c \in Cells |-> IF c \in DOMAIN writes THEN writes[c] ELSE m[c]]

\* A refused write: each of its cells is as before, written, or written in part.
RefusedWrite(writes) ==
    \E done \in SUBSET DOMAIN writes : \E torn \in SUBSET (DOMAIN writes \ done) :
        card' = [c \in Cells |-> IF c \in torn THEN Ill
                                 ELSE IF c \in done THEN writes[c] ELSE card[c]]

Dirty == {c \in Cells : card[c] # flash[c]}

\* A refused synchronization: some of the pending writes are durable all the same.
RefusedSync ==
    \E done \in SUBSET Dirty :
        flash' = [c \in Cells |-> IF c \in done THEN card[c] ELSE flash[c]]

-----------------------------------------------------------------------------
(* Reservations: allocate, write, seal, cancel.                            *)

FirstOf(S, n) == {e \in S : Cardinality({x \in S : x < e}) < n}
RangeCount(S) == Cardinality({e \in S : e - 1 \notin S})
\* Mutant: the bitmap is searched one bit too far.
Free_OneTooMany == (0 .. ExtentCount) \ used
Free          == Extents \ used

\* allocate: first fit in ascending order, at most MaxRanges ranges, a free row.
Allocate(n) ==
    LET ranges == FirstOf(Free, n)
    IN  /\ Writable /\ op = None
        /\ n > 0 /\ Cardinality(Free) >= n
        /\ RangeCount(ranges) <= MaxRanges
        /\ used' = used \cup ranges
        /\ \E s \in Lowest({t \in Slots : rows[t] = None}) :
              rows' = [rows EXCEPT ![s] = [ranges |-> ranges, content |-> NoContent,
                                           staged |-> {}, sealed |-> FALSE]]
        /\ UNCHANGED <<card, flash, served, holds, op, listing>>

LiveRow(s) == rows[s] # None /\ ~rows[s].sealed

\* write: fills the next extent, or completes the one whose tail is staged.  With
\* `partial` the last block of the extent stays in the row's staging block.
RowAfterWrite(row, p, partial) ==
    IF row.staged # {}
    THEN [row EXCEPT !.staged = {}]
    ELSE LET new == Lowest(row.ranges \ DOMAIN row.content)
         IN  [row EXCEPT !.content = [x \in DOMAIN row.content \cup new |->
                                         IF x \in new THEN p ELSE row.content[x]],
                         !.staged = IF partial THEN new ELSE {}]
CardWritesOf(row, after) ==
    LET cells == {Data(e) : e \in row.staged \cup (DOMAIN after.content \ DOMAIN row.content)}
    IN  [c \in cells |-> IF c[2] \in after.staged THEN Ill ELSE after.content[c[2]]]

\* A write that fails rewinds the row's cursor; the card keeps what reached it.
Write(s, p, partial) ==
    /\ Writable /\ op = None /\ LiveRow(s)
    /\ rows[s].staged # {} \/ DOMAIN rows[s].content # rows[s].ranges
    /\ LET after == RowAfterWrite(rows[s], p, partial)
           writes == CardWritesOf(rows[s], after)
       IN  \/ card' = Put(card, writes) /\ rows' = [rows EXCEPT ![s] = after]
           \/ "write" \in Faults /\ RefusedWrite(writes) /\ UNCHANGED rows
    /\ UNCHANGED <<flash, served, used, holds, op, listing>>

StagedWrites(row) ==
    [c \in {Data(e) : e \in row.staged} |-> row.content[c[2]]]

\* seal: flush the staged tail and revoke the writable token.
Seal(s) ==
    /\ Writable /\ op = None /\ LiveRow(s)
    /\ Cardinality({t \in Slots : rows[t] # None /\ rows[t].sealed}) < MaxSealed
    /\ \/ /\ card' = Put(card, StagedWrites(rows[s]))
          /\ rows' = [rows EXCEPT ![s].staged = {}, ![s].sealed = TRUE]
       \/ /\ "write" \in Faults /\ rows[s].staged # {}
          /\ RefusedWrite(StagedWrites(rows[s]))
          /\ UNCHANGED rows
    /\ UNCHANGED <<flash, served, used, holds, op, listing>>

\* cancel and release_sealed: the extents are free again, unless the mount is fenced.
Cancel(s) ==
    /\ served.mode # "RemountRequired" /\ op = None
    /\ rows[s] # None
    /\ rows' = [rows EXCEPT ![s] = None]
    /\ used' = used \ rows[s].ranges
    /\ UNCHANGED <<card, flash, served, holds, op, listing>>

-----------------------------------------------------------------------------
(* Commit: resolve a batch, then six card commands to publish it.          *)

\* A mutation of one key.  Remove carries nothing; Amend keeps the extents and
\* states the new metadata; Fresh publishes the payload of a reservation.  No caller
\* of the store amends a retained revision back into a head, so Amends does not.
Removal == [put |-> "remove"]
Amends(entry) ==
    LET kept == {[put |-> "amend", flag |-> entry.flag, retained |-> r, content |-> entry.content] :
                    r \in BOOLEAN}
        ends == {[put |-> "amend", flag |-> "plain", retained |-> entry.retained,
                  content |-> [e \in FirstOf(entry.ranges, n) |-> p]] :
                    n \in 1 .. Cardinality(entry.ranges), p \in Payload}
    IN  {m \in kept : entry.retained => m.retained}
            \cup (IF entry.flag = "recording" THEN ends ELSE {})
Fresh(s, flag) == [put |-> "fresh", flag |-> flag, retained |-> FALSE, slot |-> s,
                   content |-> IF HoldsSlack(flag) THEN NoContent ELSE rows[s].content]

\* Mutant: a fresh put may take an id below the cursor again.
Resolves_ReusesIds(k, m) ==
    LET heads == HeadsOf(Serving.entries, IdOf(k))
    IN  IF m.put = "fresh"
        THEN /\ heads = {} => RevOf(k) = 1
             /\ \A h \in heads : RevOf(k) = RevOf(h) + 1
             /\ LiveRow(m.slot)
        ELSE Serving.entries[k] # None

\* resolve: the conditions under which one mutation is not refused.
Resolves(k, m) ==
    LET entries == Serving.entries
        heads   == HeadsOf(entries, IdOf(k))
    IN  CASE m.put = "remove" -> entries[k] # None
          [] m.put = "amend"  -> entries[k] # None
          [] m.put = "fresh"  ->
                /\ (\A l \in Present(entries) : IdOf(l) # IdOf(k)) => IdOf(k) >= served.next
                /\ heads = {} => RevOf(k) = 1
                /\ \A h \in heads : RevOf(k) = RevOf(h) + 1
                /\ LiveRow(m.slot)

\* The entry a mutation writes: trimmed to its payload unless its flag holds slack.
ResolvedEntry(k, m) ==
    LET ranges == IF m.put = "fresh" THEN rows[m.slot].ranges ELSE Serving.entries[k].ranges
    IN  IF m.put = "remove" THEN None
        ELSE [flag |-> m.flag, retained |-> m.retained, content |-> m.content,
              ranges |-> IF HoldsSlack(m.flag) THEN ranges ELSE DOMAIN m.content]

\* Mutant: the tail that an amend trims off is forgotten.
ResolvedFreed_KeepsTrimmed(k, m) ==
    CASE m.put = "remove" -> Serving.entries[k].ranges
      [] m.put = "amend"  -> {}
      [] m.put = "fresh"  -> rows[m.slot].ranges \ ResolvedEntry(k, m).ranges

\* The extents a mutation gives back once its commit has landed.
ResolvedFreed(k, m) ==
    CASE m.put = "remove" -> Serving.entries[k].ranges
      [] m.put = "amend"  -> Serving.entries[k].ranges \ ResolvedEntry(k, m).ranges
      [] m.put = "fresh"  -> rows[m.slot].ranges \ ResolvedEntry(k, m).ranges

\* Mutant: the id cursor is derived from the entries that are left.
NextObject_FromEntries(batch) ==
    LET left == {k \in Keys : IF k \in DOMAIN batch THEN batch[k].put # "remove"
                              ELSE Serving.entries[k] # None}
    IN  Greatest({1} \cup {IdOf(k) + 1 : k \in left})
\* merge and the new header: the served entries with the batch applied.
NextObject(batch) == Greatest({served.next} \cup {IdOf(k) + 1 : k \in DOMAIN batch})
Merged(batch, next) ==
    [sequence |-> served.high + 1,
     next     |-> next,
     entries  |-> [k \in Keys |-> IF k \in DOMAIN batch THEN ResolvedEntry(k, batch[k])
                                  ELSE Serving.entries[k]]]

SlotsOf(batch) == {batch[k].slot : k \in {l \in DOMAIN batch : batch[l].put = "fresh"}}

\* Mutant: the staged tail of a reservation never reaches the card.
PayloadWrites_Forgotten(batch) == NoWrites

\* The payload bytes a batch still has to put on the card: the staged tails of its
\* reservations, and the bytes of a ride that this commit ends (flush_ride_tail).
Ending(batch) == {k \in DOMAIN batch : /\ batch[k].put = "amend" /\ batch[k].flag = "plain"
                                       /\ Serving.entries[k].flag = "recording"}
PayloadWrites(batch) ==
    LET staged == UNION {rows[s].staged : s \in SlotsOf(batch)}
        ride   == UNION {DOMAIN batch[k].content : k \in Ending(batch)}
    IN  [c \in {Data(e) : e \in staged \cup ride} |-> CHOOSE p \in Payload :
            \/ \E k \in Ending(batch) : c[2] \in DOMAIN batch[k].content /\ p = batch[k].content[c[2]]
            \/ c[2] \notin ride /\ \E s \in SlotsOf(batch) : c[2] \in rows[s].staged /\ p = rows[s].content[c[2]]]

\* Everything commit checks before it touches the card.
Accepts(batch, body) ==
    /\ Writable /\ served.high < MaxSequence
    /\ \A k \in DOMAIN batch : Resolves(k, batch[k])
    /\ \A k, l \in DOMAIN batch : batch[k].put = "fresh" /\ batch[l].put = "fresh" /\ k # l =>
           batch[k].slot # batch[l].slot
    /\ Cardinality(Present(body.entries)) <= Capacity
    /\ StructureOk(body)

Begin(batch) ==
    /\ op = None
    /\ \E next \in NextObject(batch) :
         /\ Accepts(batch, Merged(batch, next))
         /\ op' = [phase  |-> IF SlotsOf(batch) # {} \/ Ending(batch) # {} THEN "flush" ELSE "invalidate",
                   body   |-> Merged(batch, next),
                   freed  |-> [k \in DOMAIN batch |-> ResolvedFreed(k, batch[k])],
                   slots  |-> SlotsOf(batch),
                   writes |-> PayloadWrites(batch)]
    /\ UNCHANGED <<card, flash, served, used, rows, holds, listing>>

\* The commands of one commit in order: a write and the synchronization after it.
\* Mutant: the copy is chosen by the parity of the sequence.
Target_ByParity == (served.high + 2) % 2
Target == 1 - served.copy
WritePhases == {"flush", "invalidate", "body", "gate"}
SyncPhases  == {"flush_sync", "invalidate_sync", "body_sync", "gate_sync"}
PhaseAfter(phase) ==
    CASE phase = "flush"           -> "flush_sync"
      [] phase = "flush_sync"      -> "invalidate"
      [] phase = "invalidate"      -> "invalidate_sync"
      [] phase = "invalidate_sync" -> "body"
      [] phase = "body"            -> "body_sync"
      [] phase = "body_sync"       -> "gate"
      [] phase = "gate"            -> "gate_sync"
PhaseWrites ==
    CASE op.phase = "flush"      -> op.writes
      [] op.phase = "invalidate" -> [c \in {Gate(Target)} |-> Ill]
      [] op.phase = "body"       -> [c \in {Body(Target)} |-> op.body]
      [] op.phase = "gate"       -> [c \in {Gate(Target)} |-> op.body]

InCommit(phases) == op # None /\ op.phase \in phases

CommitWrite ==
    /\ InCommit(WritePhases)
    /\ card' = Put(card, PhaseWrites)
    /\ op' = [op EXCEPT !.phase = PhaseAfter(op.phase)]
    /\ UNCHANGED <<flash, served, used, rows, holds, listing>>

CommitSync ==
    /\ InCommit(SyncPhases \ {"gate_sync"})
    /\ flash' = card
    /\ op' = [op EXCEPT !.phase = PhaseAfter(op.phase)]
    /\ UNCHANGED <<card, served, used, rows, holds, listing>>

\* The gate landed: the resident mirror moves, release frees what no reader holds,
\* and the rows of the batch are spent.
\* Mutant: a commit frees what it displaced though a reader holds it.
Released_IgnoresReaders(plan) == UNION {plan[k] : k \in DOMAIN plan}
Released(plan) == UNION {plan[k] : k \in {l \in DOMAIN plan : holds[l].readers = 0}}
\* Mutant: the reservations of the batch stay in the table.
CommitPublish_KeepsRows ==
    /\ InCommit({"gate_sync"})
    /\ flash' = card
    /\ served' = [served EXCEPT !.copy = Target, !.sequence = op.body.sequence,
                                !.high = op.body.sequence, !.next = op.body.next]
    /\ used' = used \ Released(op.freed)
    /\ op' = None
    /\ UNCHANGED <<card, rows, holds, listing>>
CommitPublish ==
    /\ InCommit({"gate_sync"})
    /\ flash' = card
    /\ served' = [mode |-> IF op.body.sequence = MaxSequence THEN "SequenceSpaceExhausted" ELSE served.mode,
                  copy |-> Target, sequence |-> op.body.sequence, high |-> op.body.sequence,
                  next |-> op.body.next]
    /\ used' = used \ Released(op.freed)
    /\ rows' = [s \in Slots |-> IF s \in op.slots THEN None ELSE rows[s]]
    /\ op' = None
    /\ UNCHANGED <<card, holds, listing>>

\* A refused command.  Before the gate it is an ordinary error and the mount goes on;
\* in the gate write or its synchronization it fences the mount (require_remount).
RefusedCommand ==
    \/ /\ "write" \in Faults /\ InCommit(WritePhases) /\ PhaseWrites # NoWrites
       /\ RefusedWrite(PhaseWrites) /\ UNCHANGED flash
    \/ /\ "sync" \in Faults /\ InCommit(SyncPhases)
       /\ RefusedSync /\ UNCHANGED card
CommitError ==
    /\ op # None /\ op.phase \notin {"gate", "gate_sync"}
    /\ RefusedCommand
    /\ op' = None
    /\ UNCHANGED <<served, used, rows, holds, listing>>
\* Mutant: a refused gate is an ordinary error.
CommitUncertain_NotFenced ==
    /\ InCommit({"gate", "gate_sync"})
    /\ RefusedCommand
    /\ op' = None
    /\ UNCHANGED <<served, used, rows, holds, listing>>
CommitUncertain ==
    /\ InCommit({"gate", "gate_sync"})
    /\ RefusedCommand
    /\ served' = [served EXCEPT !.mode = "RemountRequired"]
    /\ op' = [op EXCEPT !.phase = "uncertain"]
    /\ UNCHANGED <<used, rows, holds, listing>>

-----------------------------------------------------------------------------
(* Readers: open, close and the catalog listing.  They run in the gaps     *)
(* between a commit's card commands.                                       *)

NoHold == [readers |-> 0, ranges |-> {}, content |-> NoContent]

\* open: joins the row that holds this key, whose ranges stay and whose length is
\* the greater of the two, or takes a free row.
Open(k) ==
    LET entry == Serving.entries[k]
        hold  == holds[k]
        wider == IF DOMAIN hold.content \subseteq DOMAIN entry.content THEN entry.content ELSE hold.content
    IN  /\ Readable
        /\ entry # None /\ entry.flag # "reserved"
        /\ hold.readers < MaxReaders
        /\ \/ hold.readers > 0
           \/ Cardinality({l \in Keys : holds[l].readers > 0}) < MaxOpen
        /\ holds' = [holds EXCEPT ![k] =
                        IF hold.readers > 0
                        THEN [hold EXCEPT !.readers = @ + 1, !.content = wider]
                        ELSE [readers |-> 1, ranges |-> entry.ranges, content |-> entry.content]]
        /\ UNCHANGED <<card, flash, served, used, rows, op, listing>>

\* close: the last reader returns the extents its entry no longer names.  A failed
\* catalog read returns none of them, and a fenced mount returns none either.
StillNamed(k) == IF Serving.entries[k] = None THEN {} ELSE Serving.entries[k].ranges
Close(k) ==
    /\ holds[k].readers > 0
    /\ IF holds[k].readers > 1
       THEN holds' = [holds EXCEPT ![k].readers = @ - 1] /\ UNCHANGED used
       ELSE /\ holds' = [holds EXCEPT ![k] = NoHold]
            /\ \/ /\ served.mode # "RemountRequired"
                  /\ used' = used \ (holds[k].ranges \ StillNamed(k))
               \/ /\ served.mode = "RemountRequired" \/ "find_read" \in Faults
                  /\ UNCHANGED used
    /\ UNCHANGED <<card, flash, served, rows, op, listing>>

\* entries: an iterator keeps the copy and the sequence it was built against.
\* `catalog` is what it promises to list.
ListStart ==
    /\ Readable /\ listing = None /\ MaxListings > 0
    /\ listing' = [copy |-> served.copy, sequence |-> served.sequence, catalog |-> Serving]
    /\ UNCHANGED <<card, flash, served, used, rows, holds, op>>
\* Entries::next reads one more entry only in this state, and fails for good in any other.
\* Mutant: the iterator does not notice a commit.
ListLive_Unfenced == listing # None /\ Readable
ListLive == listing # None /\ Readable /\ listing.sequence = served.sequence
ListEnd ==
    /\ listing # None
    /\ listing' = None
    /\ UNCHANGED <<card, flash, served, used, rows, holds, op>>

-----------------------------------------------------------------------------
(* Power and mount.                                                        *)

Unmounted == [mode |-> "Off", copy |-> 0, sequence |-> 0, high |-> 0, next |-> 0]

\* Power goes away, at any command of a commit too: a cell with a pending write is
\* old, new or torn, and every resident table is gone.
Cut ==
    /\ "cut" \in Faults
    /\ served.mode # "Off"
    /\ \E kept \in SUBSET Dirty : \E torn \in SUBSET (Dirty \ kept) :
           flash' = [c \in Cells |-> IF c \in torn THEN Ill
                                     ELSE IF c \in kept THEN card[c] ELSE flash[c]]
    /\ card' = flash'
    /\ served' = Unmounted
    /\ used' = {}
    /\ rows' = [s \in Slots |-> None]
    /\ holds' = [k \in Keys |-> NoHold]
    /\ op' = None
    /\ listing' = None

\* The medium loses the body of one of two valid copies while nothing runs.
Rot(c) ==
    /\ "rot" \in Faults
    /\ served.mode = "Off"
    /\ \A d \in Copies : Loads(flash, d)
    /\ flash' = Put(flash, [d \in {Body(c)} |-> Ill])
    /\ card' = flash'
    /\ UNCHANGED <<served, used, rows, holds, op, listing>>

\* mount: bring_up over the gates and bodies that could be read.
Readings == IF "mount_read" \in Faults THEN SUBSET Copies ELSE {Copies}
Mount ==
    /\ served.mode = "Off"
    /\ \E gates, bodies \in Readings :
         \E high \in HighWater(card, gates) :
             \/ /\ Selected(card, gates, bodies) = {}
                /\ served' = [Unmounted EXCEPT !.mode = "CatalogUnreadable", !.high = high]
                /\ used' = {}
             \/ \E c \in Selected(card, gates, bodies) :
                  /\ served' = [mode |-> IF high = MaxSequence THEN "SequenceSpaceExhausted" ELSE "ReadWrite",
                                copy |-> c, sequence |-> card[Gate(c)].sequence,
                                high |-> high, next |-> card[Gate(c)].next]
                  /\ used' = Named(card[Gate(c)].entries)
    /\ UNCHANGED <<card, flash, rows, holds, op, listing>>

-----------------------------------------------------------------------------
(* The mutations a caller can name in the present state, and their batches. *)
Candidates ==
    LET entries == Serving.entries
        all == {<<k, Removal>> : k \in Present(entries)}
                  \cup (UNION {{<<k, m>> : m \in Amends(entries[k])} : k \in Present(entries)})
                  \cup {<<k, Fresh(s, flag)>> : k \in Keys, s \in {t \in Slots : LiveRow(t)}, flag \in Flags}
    IN  {km \in all : Resolves(km[1], km[2])}

Batches ==
    LET Nameable == {km[1] : km \in Candidates}
        Muts   == {km[2] : km \in Candidates}
        Small  == {K \in SUBSET Nameable : K # {} /\ Cardinality(K) <= MaxBatch}
    IN  {batch \in UNION {[K -> Muts] : K \in Small} :
            \A k \in DOMAIN batch : <<k, batch[k]>> \in Candidates}

\* A card initialize() has just written: an empty catalog in copy 0.
EmptyCard == [c \in Cells |-> IF c \in {Gate(0), Body(0)} THEN EmptyCatalog ELSE Ill]

Init ==
    /\ card = EmptyCard
    /\ flash = EmptyCard
    /\ served = Unmounted
    /\ used = {}
    /\ rows = [s \in Slots |-> None]
    /\ holds = [k \in Keys |-> NoHold]
    /\ op = None
    /\ listing = None

Commit ==
    \/ Writable /\ op = None /\ \E batch \in Batches : Begin(batch)
    \/ CommitWrite
    \/ CommitSync
    \/ CommitPublish
    \/ CommitError
    \/ CommitUncertain

Reserve ==
    \/ \E n \in 1 .. ExtentCount : Allocate(n)
    \/ \E s \in Slots, p \in Payload, partial \in BOOLEAN : Write(s, p, partial)
    \/ \E s \in Slots : Seal(s)
    \/ \E s \in Slots : Cancel(s)

Read ==
    \/ \E k \in Keys : Open(k)
    \/ \E k \in Keys : Close(k)
    \/ ListStart
    \/ ListEnd

Next == Commit \/ Reserve \/ Read \/ Mount \/ Cut \/ \E c \in Copies : Rot(c)

Spec == Init /\ [][Next]_vars

-----------------------------------------------------------------------------
(* Properties. *)

Row  == {r \in [ranges : SUBSET Extents, content : Contents, staged : SUBSET Extents, sealed : BOOLEAN] :
            r.staged \subseteq DOMAIN r.content /\ DOMAIN r.content \subseteq r.ranges}
Hold == [readers : 0 .. MaxReaders, ranges : SUBSET Extents, content : Contents]

Operation ==
    [phase : WritePhases \cup SyncPhases \cup {"uncertain"},
     body  : Catalog,
     freed : UNION {[K -> SUBSET Extents] : K \in SUBSET Keys},
     slots : SUBSET Slots,
     writes : UNION {[C -> Payload] : C \in SUBSET {Data(e) : e \in Extents}}]
ASSUME NoneAssumption == None \notin Entry /\ None \notin Row /\ None \notin Operation /\ None \notin Catalog

CellValue(c) == IF c[1] = "data" THEN Payload \cup {Ill} ELSE Catalog \cup {Ill}
\* Every resident table and every card cell holds a value of its kind.
TypeOK ==
    /\ \A m \in {card, flash} :
         DOMAIN m = Cells /\ \A c \in Cells : m[c] \in CellValue(c)
    /\ served \in [mode : Modes, copy : Copies, sequence : 0 .. MaxSequence,
                   high : 0 .. MaxSequence, next : 0 .. MaxObjectId]
    /\ used \subseteq Extents
    /\ rows \in [Slots -> Row \cup {None}]
    /\ holds \in [Keys -> Hold]
    /\ op = None \/ op \in Operation
    /\ listing = None \/ listing \in [copy : Copies, sequence : 0 .. MaxSequence, catalog : Catalog]

\* The catalogs a mount could still come to serve: the one the card holds durably,
\* and the one a commit is publishing or has published without an answer.
Truth == {flash[Gate(c)] : c \in Selected(flash, Copies, Copies)}

\* §5.6: whatever was cut, torn or refused, a mount finds a catalog to serve.
CatalogAlwaysMounts == Truth # {}

\* §5.5: payload bytes are durable before the gate that names them, and no later
\* allocation, write or ride touches them while the durable catalog names them.
CommittedPayloadIntact ==
    \A t \in Truth : \A k \in Present(t.entries) :
        \A e \in DOMAIN t.entries[k].content : flash[Data(e)] = t.entries[k].content[e]

\* §6.2: an open handle keeps reading the bytes it resolved, across a commit that
\* removed or trimmed its entry and across a fenced mount.
PinnedBytesStable ==
    \A k \in Keys : holds[k].readers > 0 =>
        \A e \in DOMAIN holds[k].content : card[Data(e)] = holds[k].content[e]

\* The extents of a reservation belong to nobody else: no other row, no entry of a
\* catalog a mount could serve, no reader.
ReservationsExclusive ==
    \A s \in Slots : rows[s] # None =>
        /\ \A t \in Slots : t # s /\ rows[t] # None => rows[s].ranges \cap rows[t].ranges = {}
        /\ \A t \in Truth : \/ rows[s].ranges \cap Named(t.entries) = {}
                            \/ op # None /\ s \in op.slots /\ t = op.body
        /\ \A k \in Keys : holds[k].readers > 0 => rows[s].ranges \cap holds[k].ranges = {}

\* §5.6: an extent is out of the allocator when an entry, a reservation or a reader
\* names it, and in no other case unless the catalog read of some close has failed.
InUse ==
    Named(Serving.entries)
        \cup (UNION {rows[s].ranges : s \in {t \in Slots : rows[t] # None}})
        \cup (UNION {holds[k].ranges : k \in {l \in Keys : holds[l].readers > 0}})
FreeMapExact ==
    Readable => InUse \subseteq used /\ ("find_read" \notin Faults => used = InUse)

\* A listing that has not failed reads the catalog it was built against, though
\* commits land between two of its steps.
ListingConsistent == ListLive => card[Body(listing.copy)] = listing.catalog

\* §5.2: a reader that opens a live key is served that key's bytes, never those of
\* an object or revision that carried the key before.
HeldKeyIsLiveKey ==
    \A k \in Keys : holds[k].readers > 0 /\ Readable /\ Serving.entries[k] # None =>
        Serving.entries[k].ranges \subseteq holds[k].ranges

\* §5.5: the catalog a mounted store serves is the one the card holds durably, so
\* what one mount answers the next mount still knows.
ServesTruth == Readable => Serving \in Truth

\* The alternating copies implement one atomically replaced catalog: a commit is
\* durable when it is answered, whole or absent when it is not, and never breaks the
\* id cursor or the immutability of published bytes.
Abstract == INSTANCE AtomicCatalog WITH
    Empty   <- EmptyCatalog,
    truth   <- IF Truth = {} THEN None ELSE CHOOSE t \in Truth : TRUE,
    view    <- IF Readable THEN Serving ELSE None,
    pending <- IF op = None THEN None ELSE op.body
ImplementsAtomicCatalog == Abstract!Spec

=============================================================================
