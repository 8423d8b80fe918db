------------------------- MODULE FlatStoreInvariant -------------------------
(***************************************************************************)
(* Why the flat store is safe: the inductive invariant of FlatStore, by    *)
(* parts.  It supposes that a mount can read the card (the fault           *)
(* "mount_read" breaks it, see README).                                    *)
(***************************************************************************)
EXTENDS FlatStore

Live      == served.mode \in {"ReadWrite", "SequenceSpaceExhausted", "RemountRequired"}
Durable   == flash[Gate(served.copy)]
HeldKeys  == {k \in Keys : holds[k].readers > 0}
TakenRows == {s \in Slots : rows[s] # None}

\* Before a mount nothing is resident and the card has a catalog to serve.
OffPart ==
    /\ served.mode # "CatalogUnreadable"
    /\ served.mode = "Off" =>
         /\ card = flash /\ op = None
         /\ TakenRows = {} /\ HeldKeys = {}
         /\ Truth # {}

\* No command of the mounted store touches the copy it serves.
ServedPart ==
    Live => /\ card[Gate(served.copy)] = Durable
            /\ card[Body(served.copy)] = Durable
            /\ Loads(flash, served.copy)
            /\ Durable.sequence = served.sequence
            /\ Durable.next = served.next
            /\ served.sequence <= served.high

\* Until a commit has made the gate of the other copy ill, that copy cannot outrank
\* the served one: its sequence is smaller, or its body does not load.
OutrankedPart ==
    Live /\ (op = None \/ op.phase \in {"flush", "flush_sync", "invalidate", "invalidate_sync"}) =>
        /\ card[Gate(Target)] \in {Ill, flash[Gate(Target)]}
        /\ flash[Gate(Target)] # Ill =>
             /\ card[Body(Target)] = flash[Body(Target)]
             /\ flash[Gate(Target)].sequence <= served.high
             /\ flash[Gate(Target)].sequence # served.sequence
             /\ \/ flash[Gate(Target)].sequence < served.sequence
                \/ ~Loads(flash, Target)

\* What the card holds of the copy being written, command by command.
PhasePart ==
    op # None =>
        /\ IF op.phase = "uncertain" THEN served.mode = "RemountRequired" ELSE served.mode = "ReadWrite"
        /\ op.body.sequence = served.high + 1
        /\ op.phase = "invalidate_sync" => card[Gate(Target)] = Ill
        /\ op.phase \in {"body", "body_sync", "gate", "gate_sync"} => flash[Gate(Target)] = Ill
        /\ op.phase \in {"body", "body_sync", "gate"} => card[Gate(Target)] = Ill
        /\ op.phase \in {"body_sync", "gate", "gate_sync", "uncertain"} => card[Body(Target)] = op.body
        /\ op.phase \in {"gate", "gate_sync", "uncertain"} => flash[Body(Target)] = op.body
        /\ op.phase = "gate_sync" => card[Gate(Target)] = op.body
        /\ op.phase = "uncertain" => {card[Gate(Target)], flash[Gate(Target)]} \subseteq {Ill, op.body}
FencedPart == served.mode = "RemountRequired" => op # None /\ op.phase = "uncertain"

\* Entries, reservations and readers are the owners of extents.  What an owner holds
\* is out of the allocator, and no two hold the same extent; only the reader of a key
\* shares with the entry of that key.
OwnersPart ==
    Live =>
        /\ Named(Durable.entries) \subseteq used
        /\ \A s \in TakenRows : rows[s].ranges \subseteq used
        /\ \A k \in HeldKeys : holds[k].ranges \subseteq used
        /\ \A s, t \in TakenRows : s # t => rows[s].ranges \cap rows[t].ranges = {}
        /\ \A s \in TakenRows : \A k \in Present(Durable.entries) :
               rows[s].ranges \cap Durable.entries[k].ranges = {}
        /\ \A s \in TakenRows : \A k \in HeldKeys : rows[s].ranges \cap holds[k].ranges = {}
        /\ \A k \in HeldKeys : \A l \in Present(Durable.entries) :
               k # l => holds[k].ranges \cap Durable.entries[l].ranges = {}
        /\ \A k, l \in HeldKeys : k # l => holds[k].ranges \cap holds[l].ranges = {}

\* Where the extents come from that a commit publishes, and those it gives back.
FromOwner(ranges, k) ==
    \/ Durable.entries[k] # None /\ ranges \subseteq Durable.entries[k].ranges
    \/ \E s \in op.slots : ranges \subseteq rows[s].ranges
PlanPart ==
    op # None =>
        /\ op.slots \subseteq TakenRows
        /\ StructureOk(op.body) /\ RangesDisjoint(op.body.entries)
        /\ \A k \in Present(op.body.entries) : FromOwner(op.body.entries[k].ranges, k)
        /\ \A k \in DOMAIN op.freed : FromOwner(op.freed[k], k)
        /\ \A k \in DOMAIN op.freed : \A l \in Present(op.body.entries) :
               op.freed[k] \cap op.body.entries[l].ranges = {}

\* The owners of extents never overlap, and a commit only ever prepares the copy that
\* is not served: the reason that commit, close and cancel may free what they free, and
\* that a cut at any command leaves a catalog to mount.
StoreInvariant ==
    TypeOK /\ OffPart /\ ServedPart /\ OutrankedPart /\ PhasePart /\ FencedPart /\ OwnersPart /\ PlanPart

-----------------------------------------------------------------------------
(* Keys: what a commit may do to the entries, and what a reader may find.  *)

\* The extents that an owner is recorded to give back when the commit lands.
GivenBack(k) == IF k \in DOMAIN op.freed THEN op.freed[k] ELSE {}

\* A commit keeps, trims, retains or ends an entry, or publishes a key that was never
\* used before; and every extent its entries and reservations had stays named or is
\* given back.
KeysPart ==
    op # None =>
        /\ op.body.next >= served.next
        /\ \A k \in Keys :
             LET old == Durable.entries[k]
                 new == op.body.entries[k]
             IN  /\ old # None /\ new # None =>
                      /\ new.ranges \subseteq old.ranges
                      /\ old.retained => new.retained
                      /\ new.flag = "recording" => old.flag = "recording"
                      /\ new.content = old.content \/ old.flag = "recording"
                 /\ old = None /\ new # None =>
                      /\ \/ IdOf(k) >= served.next
                         \/ HeadsOf(Durable.entries, IdOf(k)) # {}
                      /\ \A h \in HeadsOf(Durable.entries, IdOf(k)) : RevOf(h) < RevOf(k)
                 /\ old # None =>
                      old.ranges \subseteq GivenBack(k) \cup (IF new = None THEN {} ELSE new.ranges)
                 /\ old # None => GivenBack(k) \subseteq old.ranges
        /\ \A s \in op.slots : \E k \in DOMAIN op.freed :
             /\ Durable.entries[k] = None /\ op.body.entries[k] # None
             /\ rows[s].ranges \subseteq op.freed[k] \cup op.body.entries[k].ranges

\* A reader's key still names what the reader opened, or is used up: its object has a
\* later head, or is gone and its id is behind the cursor.
HeldPart ==
    Live => \A k \in HeldKeys :
        /\ IdOf(k) < served.next
        /\ IF Durable.entries[k] = None
           THEN \A h \in HeadsOf(Durable.entries, IdOf(k)) : RevOf(k) < RevOf(h)
           ELSE Durable.entries[k].ranges \subseteq holds[k].ranges

\* No extent is out of the allocator for nobody.
UsedPart == Readable /\ "find_read" \notin Faults => used \subseteq InUse

\* A listing of the sequence that is served is a listing of the catalog that is served.
ListingPart ==
    /\ served.mode = "Off" => listing = None
    /\ listing # None /\ Live =>
         /\ listing.sequence <= served.sequence
         /\ listing.sequence = served.sequence => listing.copy = served.copy /\ listing.catalog = Durable

KeysInvariant == KeysPart /\ HeldPart /\ UsedPart /\ ListingPart

-----------------------------------------------------------------------------
(* Bytes: what has to be on the medium before a catalog names it.          *)

Intact(m, catalog) ==
    \A k \in Present(catalog.entries) : \A e \in DOMAIN catalog.entries[k].content :
        m[Data(e)] = catalog.entries[k].content[e]

\* An entry whose extents are still written to has published none of their bytes.
Unfilled(catalog) ==
    \A k \in Present(catalog.entries) :
        HoldsSlack(catalog.entries[k].flag) => DOMAIN catalog.entries[k].content = {}

\* The catalogs that a mount could find are intact on the card and on the medium; the one
\* a commit prepares is intact before its gate is written.
PayloadPart ==
    /\ served.mode = "Off" => \A t \in Truth : Intact(flash, t) /\ Unfilled(t)
    /\ Live => Intact(card, Durable) /\ Intact(flash, Durable) /\ Unfilled(Durable)
    /\ op # None =>
         /\ Unfilled(op.body)
         /\ op.phase = "flush" => Intact(Put(card, op.writes), op.body)
         /\ op.phase # "flush" => Intact(card, op.body)
         /\ op.phase \notin {"flush", "flush_sync"} => Intact(flash, op.body)

\* The flush of a commit writes only what its reservations have staged, and the ride it ends.
FlushPart ==
    op # None => \A e \in Extents : Data(e) \in DOMAIN op.writes =>
        \/ \E s \in op.slots : e \in rows[s].staged
        \/ \E k \in Present(Durable.entries) :
              Durable.entries[k].flag = "recording" /\ e \in Durable.entries[k].ranges

\* What a reservation has written and no longer stages is on the card.
RowsPart ==
    Live => \A s \in TakenRows : \A e \in DOMAIN rows[s].content \ rows[s].staged :
        card[Data(e)] = rows[s].content[e]

\* What a reader may read is on the card, in extents it holds, and nobody writes there: a
\* ride that is still recorded has shown its reader nothing.
PinnedPart ==
    Live => \A k \in HeldKeys :
        /\ DOMAIN holds[k].content \subseteq holds[k].ranges
        /\ \A e \in DOMAIN holds[k].content : card[Data(e)] = holds[k].content[e]
        /\ Durable.entries[k] # None /\ Durable.entries[k].flag = "recording" =>
             DOMAIN holds[k].content = {}

BytesInvariant == PayloadPart /\ FlushPart /\ RowsPart /\ PinnedPart

-----------------------------------------------------------------------------
(* A fenced commit: whether it counts is decided on the medium.            *)

\* When the medium holds the new gate the card reads it too, so that nothing is left
\* pending which could take an unanswered commit back.
DecidedPart ==
    op # None /\ op.phase = "uncertain" => flash[Gate(Target)] \in {Ill, card[Gate(Target)]}
=============================================================================
