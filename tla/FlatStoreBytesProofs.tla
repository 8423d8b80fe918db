------------------------- MODULE FlatStoreBytesProofs -------------------------
(***************************************************************************)
(* Keys and bytes.  First, KeysInvariant is an invariant of FlatStore: a   *)
(* key that a commit creates was never held by a reader, so what a reader, *)
(* a listing and the free map know of a key stays true.  For every size of *)
(* the card, every capacity and every set of faults that lets a mount read *)
(* the card.                                                               *)
(*                                                                         *)
(* Then, BytesInvariant is one too: the bytes that a catalog names are on  *)
(* the medium before its gate is, and nobody writes to them while a        *)
(* catalog or a reader names them.  So the alternating copies implement    *)
(* the one catalog of AtomicCatalog that is replaced in one step.  For     *)
(* every set of faults in which, besides, the medium does not lose a body  *)
(* by itself.                                                              *)
(***************************************************************************)
EXTENDS FlatStoreProofs

-----------------------------------------------------------------------------
(* Steps that leave one of the parts alone. *)

\* The commands of a commit carry the plan on; a step that ends it has none.
LEMMA PlanKept ==
    ASSUME KeysPart, Durable' = Durable, served'.next = served.next, rows' = rows,
           \/ op' = None
           \/ op # None /\ op'.body = op.body /\ op'.slots = op.slots /\ op'.freed = op.freed
    PROVE  KeysPart'
<1>1. CASE op' = None  BY <1>1 DEF KeysPart
<1>2. CASE op # None /\ op'.body = op.body /\ op'.slots = op.slots /\ op'.freed = op.freed
  BY <1>2 DEF KeysPart, GivenBack
<1>3. QED  BY <1>1, <1>2

\* Readers keep what they know of an unchanged catalog.
LEMMA ReadersKept ==
    ASSUME HeldPart, Live, Durable' = Durable, served'.next = served.next, holds' = holds
    PROVE  HeldPart'
  BY DEF HeldPart, HeldKeys

\* A listing keeps what it knows of an unchanged catalog.
LEMMA ListingKept ==
    ASSUME ListingPart, Live, served'.mode # "Off", Durable' = Durable, listing' = listing,
           served'.copy = served.copy, served'.sequence = served.sequence
    PROVE  ListingPart'
  BY DEF ListingPart

\* The owners of extents are as they were, and so is the free map.
LEMMA UsedKept ==
    ASSUME UsedPart, Readable' => Readable /\ Serving' = Serving, UNCHANGED <<used, holds>>,
           TakenRows' = TakenRows, \A s \in TakenRows : rows'[s].ranges = rows[s].ranges
    PROVE  UsedPart'
<1> SUFFICES ASSUME Readable', "find_read" \notin Faults PROVE used' \subseteq InUse'
  BY DEF UsedPart
<1>1. used \subseteq InUse /\ Serving' = Serving  BY DEF UsedPart
<1>2. InUse' = InUse  BY <1>1 DEF InUse, TakenRows
<1>3. QED  BY <1>1, <1>2

-----------------------------------------------------------------------------
(* What a batch does to the keys it names. *)

\* An amend keeps the payload and never makes a head of a retained revision, or ends a ride.
LEMMA AmendKeeps ==
    ASSUME Serving \in Catalog, NEW k \in Keys, NEW m, AmendsKey(k, m)
    PROVE  LET old == Serving.entries[k]
           IN  \/ m.flag = old.flag /\ m.content = old.content /\ (old.retained => m.retained)
               \/ /\ old.flag = "recording" /\ m.flag = "plain" /\ m.retained = old.retained
                  /\ DOMAIN m.content \subseteq old.ranges
<1> DEFINE old == Serving.entries[k]
<1>1. old \in Entry /\ m \in Amends(old)  BY DEF AmendsKey, Catalog
<1>2. CASE \E r \in BOOLEAN :
             /\ m = [put |-> "amend", flag |-> old.flag, retained |-> r, content |-> old.content]
             /\ old.retained => m.retained
  BY <1>2
<1>3. CASE /\ old.flag = "recording"
           /\ \E n \in 1 .. Cardinality(old.ranges), p \in Payload :
                 m = [put |-> "amend", flag |-> "plain", retained |-> old.retained,
                      content |-> [e \in FirstOf(old.ranges, n) |-> p]]
  <2>1. PICK n \in 1 .. Cardinality(old.ranges), p \in Payload :
             m = [put |-> "amend", flag |-> "plain", retained |-> old.retained,
                  content |-> [e \in FirstOf(old.ranges, n) |-> p]]
    BY <1>3
  <2>2. FirstOf(old.ranges, n) \subseteq old.ranges  BY DEF FirstOf
  <2>3. QED  BY <2>1, <2>2, <1>3
<1>4. QED  BY <1>1, <1>2, <1>3 DEF Amends

\* A retained revision has a head above it.
LEMMA RetainedHasHead ==
    ASSUME NEW catalog, StructureOk(catalog), NEW k \in Present(catalog.entries),
           catalog.entries[k].retained
    PROVE  \E h \in HeadsOf(catalog.entries, IdOf(k)) : RevOf(k) < RevOf(h)
<1>1. PICK l \in Present(catalog.entries) : IdOf(l) = IdOf(k) /\ RevOf(l) > RevOf(k)
  BY DEF StructureOk
<1>2. RevOf(k) \in Nat /\ RevOf(l) \in Nat  BY DEF Present, Keys, RevOf
<1>3. ~catalog.entries[l].retained  BY <1>1, <1>2 DEF StructureOk
<1>4. QED  BY <1>1, <1>2, <1>3 DEF HeadsOf

\* A key that a commit creates has no entry: the revision of a fresh put lies above every
\* entry of its object.
LEMMA CreatedIsAbsent ==
    ASSUME StoreInvariant, Live, NEW k \in Keys, NEW m, m.put = "fresh", Resolves(k, m)
    PROVE  /\ Durable.entries[k] = None
           /\ IdOf(k) >= served.next \/ HeadsOf(Durable.entries, IdOf(k)) # {}
           /\ \A h \in HeadsOf(Durable.entries, IdOf(k)) : RevOf(h) < RevOf(k)
<1>1. Serving = Durable /\ StructureOk(Durable)  BY ServedFacts
<1>2. /\ (\A l \in Present(Durable.entries) : IdOf(l) # IdOf(k)) => IdOf(k) >= served.next
      /\ \A h \in HeadsOf(Durable.entries, IdOf(k)) : RevOf(k) = RevOf(h) + 1
  BY <1>1 DEF Resolves
<1>3. \A l \in Keys : RevOf(l) \in Nat  BY DEF Keys, RevOf
<1>4. \A h \in HeadsOf(Durable.entries, IdOf(k)) : RevOf(h) < RevOf(k)
  BY <1>2, <1>3 DEF HeadsOf, Present
<1>5. Durable.entries[k] = None
  <2> SUFFICES ASSUME Durable.entries[k] # None PROVE FALSE  OBVIOUS
  <2>1. k \in Present(Durable.entries)  BY DEF Present
  <2>2. CASE Durable.entries[k].retained
    <3>1. PICK h \in HeadsOf(Durable.entries, IdOf(k)) : RevOf(k) < RevOf(h)
      BY <2>1, <2>2, <1>1, RetainedHasHead
    <3>2. RevOf(h) \in Nat /\ RevOf(k) \in Nat  BY <1>3 DEF HeadsOf, Present
    <3>3. QED  BY <3>1, <3>2, <1>4
  <2>3. CASE ~Durable.entries[k].retained
    <3>1. k \in HeadsOf(Durable.entries, IdOf(k))  BY <2>1, <2>3 DEF HeadsOf
    <3>2. QED  BY <3>1, <1>3, <1>4
  <2>4. QED  BY <2>2, <2>3
<1>6. HeadsOf(Durable.entries, IdOf(k)) = {} => IdOf(k) >= served.next
  BY <1>1, <1>2, RetainedHasHead DEF HeadsOf
<1>7. QED  BY <1>4, <1>5, <1>6

\* What the entry of a key becomes: the reading of `resolve` that KeysPart states.
KeyFollows(k, new, given) ==
    LET old == Durable.entries[k]
    IN  /\ old # None /\ new # None =>
             /\ new.ranges \subseteq old.ranges
             /\ old.retained => new.retained
             /\ new.flag = "recording" => old.flag = "recording"
             /\ new.content = old.content \/ old.flag = "recording"
        /\ old = None /\ new # None =>
             /\ \/ IdOf(k) >= served.next
                \/ HeadsOf(Durable.entries, IdOf(k)) # {}
             /\ \A h \in HeadsOf(Durable.entries, IdOf(k)) : RevOf(h) < RevOf(k)
        /\ old # None =>
             old.ranges \subseteq given \cup (IF new = None THEN {} ELSE new.ranges)
        /\ old # None => given \subseteq old.ranges

\* Each mutation of an accepted batch follows from the served entry of its key.
LEMMA MutationFollows ==
    ASSUME StoreInvariant, Live, NEW batch \in Batches, NEW k \in DOMAIN batch, Resolves(k, batch[k])
    PROVE  /\ KeyFollows(k, ResolvedEntry(k, batch[k]), ResolvedFreed(k, batch[k]))
           /\ batch[k].put = "fresh" =>
                /\ Durable.entries[k] = None /\ ResolvedEntry(k, batch[k]) # None
                /\ rows[batch[k].slot].ranges \subseteq
                     ResolvedFreed(k, batch[k]) \cup ResolvedEntry(k, batch[k]).ranges
<1> DEFINE m == batch[k]
<1>1. TypeOK /\ Durable \in Catalog /\ Serving = Durable  BY ServedFacts DEF StoreInvariant
<1>2. k \in Keys /\ (Removes(k, m) \/ AmendsKey(k, m) \/ Creates(k, m))  BY BatchFacts
<1>3. ResolvedEntry(k, m) \in Entry \cup {None}  BY <1>1, <1>2, ResolvedType
<1>4. CASE Removes(k, m)
  <2>1. m.put = "remove"  BY <1>4, RemovalFields
  <2>2. ResolvedEntry(k, m) = None /\ ResolvedFreed(k, m) = Durable.entries[k].ranges
    BY <2>1, <1>1 DEF ResolvedEntry, ResolvedFreed
  <2>3. Durable.entries[k] # None  BY <1>1, <1>4 DEF Removes
  <2>4. QED  BY <2>1, <2>2, <2>3 DEF KeyFollows
<1>5. CASE AmendsKey(k, m)
  <2> DEFINE old == Durable.entries[k]
  <2>1. m.put = "amend" /\ old # None /\ old \in Entry
    BY <1>1, <1>2, <1>5, AmendFields DEF AmendsKey
  <2>2. \/ m.flag = old.flag /\ m.content = old.content /\ (old.retained => m.retained)
        \/ /\ old.flag = "recording" /\ m.flag = "plain" /\ m.retained = old.retained
           /\ DOMAIN m.content \subseteq old.ranges
    BY <1>1, <1>2, <1>5, AmendKeeps
  <2>3. DOMAIN old.content \subseteq old.ranges
    BY <2>1, <1>2, ServedFacts DEF StructureOk, Present, EntryOk
  <2>4. /\ ResolvedEntry(k, m) =
             [flag |-> m.flag, retained |-> m.retained, content |-> m.content,
              ranges |-> IF HoldsSlack(m.flag) THEN old.ranges ELSE DOMAIN m.content]
        /\ ResolvedFreed(k, m) = old.ranges \ ResolvedEntry(k, m).ranges
    BY <2>1, <1>1 DEF ResolvedEntry, ResolvedFreed
  <2>5. ResolvedEntry(k, m) # None /\ ResolvedEntry(k, m).ranges \subseteq old.ranges
    <3>1. ResolvedEntry(k, m) # None
      <4>1. m.put # "remove" /\ m.flag \in EntryFlag /\ m.retained \in BOOLEAN /\ m.content \in Contents
        BY <2>1, <1>1, <1>2, <1>5, AmendFields
      <4>2. old.ranges \subseteq Extents /\ DOMAIN m.content \subseteq Extents
        BY <4>1, <2>1, ContentsFacts DEF Entry
      <4>3. ResolvedEntry(k, m) \in Entry  BY <4>1, <4>2, <2>4 DEF Entry, EntryFlag
      <4>4. QED  BY <4>3, NoneAssumption
    <3>2. QED  BY <3>1, <2>2, <2>3, <2>4
  <2>6. QED  BY <2>1, <2>2, <2>4, <2>5 DEF KeyFollows
<1>6. CASE Creates(k, m)
  <2>1. /\ m.put = "fresh" /\ m.slot \in Slots /\ DOMAIN m.content \subseteq rows[m.slot].ranges
        /\ m.flag \in EntryFlag /\ m.retained \in BOOLEAN /\ m.content \in Contents /\ rows[m.slot] \in Row
    BY <1>1, <1>6, CreateFields
  <2>2. /\ ResolvedEntry(k, m) =
             [flag |-> m.flag, retained |-> m.retained, content |-> m.content,
              ranges |-> IF HoldsSlack(m.flag) THEN rows[m.slot].ranges ELSE DOMAIN m.content]
        /\ ResolvedFreed(k, m) = rows[m.slot].ranges \ ResolvedEntry(k, m).ranges
    BY <2>1 DEF ResolvedEntry, ResolvedFreed
  <2>3. ResolvedEntry(k, m) # None
    <3>1. rows[m.slot].ranges \subseteq Extents /\ DOMAIN m.content \subseteq Extents
      BY <2>1, ContentsFacts DEF Row
    <3>2. ResolvedEntry(k, m) \in Entry  BY <3>1, <2>1, <2>2 DEF Entry, EntryFlag
    <3>3. QED  BY <3>2, NoneAssumption
  <2>4. /\ Durable.entries[k] = None
        /\ IdOf(k) >= served.next \/ HeadsOf(Durable.entries, IdOf(k)) # {}
        /\ \A h \in HeadsOf(Durable.entries, IdOf(k)) : RevOf(h) < RevOf(k)
    BY <2>1, <1>2, CreatedIsAbsent
  <2>5. QED  BY <2>2, <2>3, <2>4 DEF KeyFollows
<1>7. QED  BY <1>2, <1>4, <1>5, <1>6

\* A commit that begins plans what KeysPart promises.
LEMMA BeginKeys ==
    ASSUME StoreInvariant, NEW batch \in Batches, Begin(batch)
    PROVE  KeysPart'
<1>1. PICK next \in NextObject(batch) :
         /\ Accepts(batch, Merged(batch, next))
         /\ op' = [phase  |-> IF SlotsOf(batch) # {} \/ Ending(batch) # {} THEN "flush" ELSE "invalidate",
                   body   |-> Merged(batch, next),
                   freed  |-> [k \in DOMAIN batch |-> ResolvedFreed(k, batch[k])],
                   slots  |-> SlotsOf(batch),
                   writes |-> PayloadWrites(batch)]
  BY DEF Begin
<1>2. Live  BY <1>1 DEF Accepts, Writable, Live
<1>3. /\ op'.body = Merged(batch, next) /\ op'.slots = SlotsOf(batch)
      /\ op'.freed = [k \in DOMAIN batch |-> ResolvedFreed(k, batch[k])]
      /\ UNCHANGED <<flash, served, rows>>
  BY <1>1 DEF Begin
<1>4. Durable \in Catalog /\ Serving = Durable /\ served.next \in 1 .. MaxObjectId  BY <1>2, ServedFacts
<1>5. DOMAIN batch \subseteq Keys /\ \A k \in DOMAIN batch : Resolves(k, batch[k])
  BY <1>1, BatchFacts DEF Accepts
<1>6. op'.body.next >= served.next
  BY <1>3 DEF Merged, NextObject, Greatest
<1>7. \A k \in Keys : op'.body.entries[k] = IF k \in DOMAIN batch THEN ResolvedEntry(k, batch[k]) ELSE Durable.entries[k]
  BY <1>3, <1>4 DEF Merged
<1>8. ASSUME NEW k \in Keys
      PROVE  KeyFollows(k, op'.body.entries[k], IF k \in DOMAIN batch THEN ResolvedFreed(k, batch[k]) ELSE {})
  <2>1. CASE k \in DOMAIN batch  BY <2>1, <1>2, <1>5, <1>7, MutationFollows
  <2>2. CASE k \notin DOMAIN batch  BY <2>2, <1>7 DEF KeyFollows
  <2>3. QED  BY <2>1, <2>2
<1>9. \A k \in Keys : GivenBack(k)' = IF k \in DOMAIN batch THEN ResolvedFreed(k, batch[k]) ELSE {}
  BY <1>3 DEF GivenBack
<1>10. \A s \in op'.slots : \E k \in DOMAIN op'.freed :
         /\ Durable.entries[k] = None /\ op'.body.entries[k] # None
         /\ rows[s].ranges \subseteq op'.freed[k] \cup op'.body.entries[k].ranges
  <2> SUFFICES ASSUME NEW s \in SlotsOf(batch)
               PROVE  \E k \in DOMAIN batch :
                        /\ Durable.entries[k] = None /\ op'.body.entries[k] # None
                        /\ rows[s].ranges \subseteq ResolvedFreed(k, batch[k]) \cup op'.body.entries[k].ranges
    BY <1>3
  <2>1. PICK k \in DOMAIN batch : batch[k].put = "fresh" /\ batch[k].slot = s  BY DEF SlotsOf
  <2>2. QED  BY <2>1, <1>2, <1>5, <1>7, MutationFollows
<1>11. Durable' = Durable  BY <1>3 DEF Durable
<1>12. QED  BY <1>3, <1>6, <1>8, <1>9, <1>10, <1>11 DEF KeysPart, KeyFollows

-----------------------------------------------------------------------------
(* The steps. *)

\* What a mounted store serves, in the words of KeysInvariant.
LEMMA MountedIsLive ==
    ASSUME StoreInvariant, served.mode # "Off"
    PROVE  Live
  BY TypeParts DEF StoreInvariant, OffPart, ServedType, Modes, Live

\* allocate adds its extents to the free map and to a row at once.
LEMMA AllocateKeys ==
    ASSUME StoreInvariant, KeysInvariant, NEW n, Allocate(n)
    PROVE  KeysInvariant'
<1> DEFINE ranges == FirstOf(Free, n)
<1>1. Live /\ op = None /\ served.mode # "Off"  BY DEF Allocate, Writable, Live
<1>2. /\ Durable' = Durable /\ Serving' = Serving /\ op' = None
      /\ UNCHANGED <<served, holds, listing>> /\ used' = used \cup ranges
  BY <1>1 DEF Allocate, Durable, Serving
<1>3. KeysPart' /\ HeldPart' /\ ListingPart'
  BY <1>1, <1>2, ReadersKept, ListingKept DEF KeysInvariant, KeysPart
<1>4. PICK s \in Slots : /\ rows[s] = None
                         /\ rows' = [rows EXCEPT ![s] = [ranges |-> ranges, content |-> NoContent,
                                                         staged |-> {}, sealed |-> FALSE]]
  BY DEF Allocate, Lowest
<1>5. rows \in [Slots -> Row \cup {None}]  BY TypeParts DEF StoreInvariant
<1>6. rows'[s].ranges = ranges /\ \A t \in Slots : t # s => rows'[t] = rows[t]
  BY <1>4, <1>5
<1>7. TypeOK'  BY AllocateType DEF StoreInvariant
<1>8. rows'[s] # None
  <2>1. rows'[s] = [ranges |-> ranges, content |-> NoContent, staged |-> {}, sealed |-> FALSE]
    BY <1>4, <1>5
  <2>2. DOMAIN NoContent = {} /\ NoContent \in Contents /\ ranges \subseteq Extents
    BY NoContentType DEF NoContent, FirstOf, Free
  <2>3. rows'[s] \in Row  BY <2>1, <2>2 DEF Row
  <2>4. QED  BY <2>3, NoneAssumption
<1> HIDE DEF ranges
<1>9. UsedPart'
  <2> SUFFICES ASSUME Readable', "find_read" \notin Faults, NEW e \in used' PROVE e \in InUse'
    BY DEF UsedPart
  <2>1. CASE e \in ranges  BY <2>1, <1>6, <1>8 DEF InUse
  <2>2. CASE e \in used
    <3>1. e \in InUse  BY <2>2, <1>2 DEF KeysInvariant, UsedPart, Readable
    <3>2. \A t \in Slots : rows[t] # None => rows'[t] = rows[t]  BY <1>4, <1>6
    <3>3. QED  BY <3>1, <3>2, <1>2 DEF InUse
  <2>3. QED  BY <2>1, <2>2, <1>2
<1>10. QED  BY <1>3, <1>9 DEF KeysInvariant

\* write and seal leave catalog, readers and the extents of every row alone.
LEMMA FillKeys ==
    ASSUME StoreInvariant, KeysInvariant, StoreInvariant', NEW s \in Slots,
           \/ \E p \in Payload, partial \in BOOLEAN : Write(s, p, partial)
           \/ Seal(s)
    PROVE  KeysInvariant'
<1>1. /\ Live /\ op = None /\ served.mode # "Off"
      /\ UNCHANGED <<flash, served, used, holds, op, listing>>
  BY DEF Write, Seal, Writable, Live
<1>2. rows \in [Slots -> Row \cup {None}] /\ rows[s] # None /\ rows[s] \in Row
  BY TypeParts DEF Write, Seal, LiveRow, StoreInvariant
<1>3. Durable' = Durable /\ Live' = Live /\ op' = None
  BY <1>1 DEF Durable, Live
<1>4. Serving' = Serving  BY <1>1, <1>3 DEF StoreInvariant, ServedPart, Serving, Durable
<1>5. TakenRows' = TakenRows /\ \A t \in TakenRows : rows'[t].ranges = rows[t].ranges
  <2>1. ASSUME NEW p \in Payload, NEW partial \in BOOLEAN, Write(s, p, partial)
        PROVE  TakenRows' = TakenRows /\ \A t \in TakenRows : rows'[t].ranges = rows[t].ranges
    <3> DEFINE after == RowAfterWrite(rows[s], p, partial)
    <3>1. after \in Row  BY <1>2, RowAfterWriteType
    <3>2. after.ranges = rows[s].ranges  BY <1>2 DEF RowAfterWrite, Row
    <3>3. rows' = rows \/ rows' = [rows EXCEPT ![s] = after]  BY <2>1 DEF Write
    <3>4. QED  BY <1>2, <3>1, <3>2, <3>3, NoneAssumption DEF TakenRows
  <2>2. ASSUME Seal(s)
        PROVE  TakenRows' = TakenRows /\ \A t \in TakenRows : rows'[t].ranges = rows[t].ranges
    <3>1. CASE rows' = rows  BY <3>1 DEF TakenRows
    <3>2. CASE rows' = [rows EXCEPT ![s].staged = {}, ![s].sealed = TRUE]
      <4> DEFINE row == [rows[s] EXCEPT !.staged = {}, !.sealed = TRUE]
      <4>1. rows' = [rows EXCEPT ![s] = row]  BY <3>2, <1>2 DEF Row
      <4>2. row \in Row /\ row.ranges = rows[s].ranges  BY <1>2 DEF Row
      <4> HIDE DEF row
      <4>3. QED  BY <4>1, <4>2, <1>2, NoneAssumption DEF TakenRows
    <3>3. QED  BY <2>2, <3>1, <3>2 DEF Seal
  <2>3. QED  BY <2>1, <2>2
<1>6. UsedPart'  BY <1>1, <1>4, <1>5, UsedKept DEF KeysInvariant, Readable
<1>7. QED  BY <1>1, <1>3, <1>6, ReadersKept, ListingKept DEF KeysInvariant, KeysPart

\* cancel takes the extents of the row out of both.
LEMMA CancelKeys ==
    ASSUME StoreInvariant, KeysInvariant, NEW s \in Slots, Cancel(s)
    PROVE  KeysInvariant'
<1>1. s \in TakenRows  BY DEF Cancel, TakenRows
<1>2. served.mode # "Off" /\ Live
  <2>1. served.mode # "Off"  BY <1>1 DEF StoreInvariant, OffPart
  <2>2. QED  BY <2>1, MountedIsLive
<1>3. /\ Durable' = Durable /\ Serving' = Serving /\ op' = None
      /\ UNCHANGED <<served, holds, listing>> /\ used' = used \ rows[s].ranges
      /\ rows' = [rows EXCEPT ![s] = None]
  BY DEF Cancel, Durable, Serving
<1>4. rows \in [Slots -> Row \cup {None}]  BY TypeParts DEF StoreInvariant
<1>5. \A t \in Slots : t # s => rows'[t] = rows[t]  BY <1>3, <1>4
<1>6. UsedPart'
  <2> SUFFICES ASSUME Readable', "find_read" \notin Faults, NEW e \in used' PROVE e \in InUse'
    BY DEF UsedPart
  <2>1. e \in InUse /\ e \notin rows[s].ranges
    BY <1>3 DEF KeysInvariant, UsedPart, Readable
  <2>2. QED  BY <2>1, <1>3, <1>5 DEF InUse
<1>7. QED  BY <1>2, <1>3, <1>6, ReadersKept, ListingKept DEF KeysInvariant, KeysPart

\* open finds an entry whose id is behind the cursor and takes its extents as they are.
LEMMA OpenKeys ==
    ASSUME StoreInvariant, KeysInvariant, NEW k \in Keys, Open(k)
    PROVE  KeysInvariant'
<1>1. Live /\ served.mode # "Off"  BY DEF Open, Readable, Live
<1>2. Durable \in Catalog /\ Serving = Durable /\ StructureOk(Durable)  BY <1>1, ServedFacts
<1>3. /\ Durable' = Durable /\ Serving' = Serving /\ Live' = Live
      /\ UNCHANGED <<served, used, rows, op, listing>>
  BY DEF Open, Durable, Serving, Live
<1>4. KeysPart' /\ ListingPart'
  BY <1>1, <1>3, PlanKept, ListingKept DEF KeysInvariant, KeysPart
<1>5. k \in Present(Durable.entries)  BY <1>2 DEF Open, Present
<1>6. holds \in [Keys -> Hold]  BY TypeParts DEF StoreInvariant
<1>7. /\ \A l \in Keys : l # k => holds'[l] = holds[l]
      /\ holds'[k].readers > 0
      /\ \/ k \in HeldKeys /\ holds'[k].ranges = holds[k].ranges
         \/ k \notin HeldKeys /\ holds'[k].ranges = Durable.entries[k].ranges
  <2>1. CASE holds[k].readers > 0
    BY <2>1, <1>6 DEF Open, HeldKeys, Hold
  <2>2. CASE ~(holds[k].readers > 0)
    BY <2>2, <1>6, <1>2 DEF Open, HeldKeys, Hold
  <2>3. QED  BY <2>1, <2>2
<1>8. HeldPart'
  <2>1. IdOf(k) < served.next
    BY <1>1, <1>2, <1>5 DEF StructureOk, StoreInvariant, ServedPart
  <2>2. Durable.entries[k] # None /\ Durable.entries[k].ranges \subseteq holds'[k].ranges
    BY <1>1, <1>5, <1>7 DEF Present, KeysInvariant, HeldPart
  <2>3. \A l \in HeldKeys' : l = k \/ (l \in HeldKeys /\ holds'[l] = holds[l])
    BY <1>7 DEF HeldKeys
  <2>4. QED  BY <2>1, <2>2, <2>3, <1>1, <1>3 DEF KeysInvariant, HeldPart
<1>9. UsedPart'
  <2> SUFFICES ASSUME Readable', "find_read" \notin Faults, NEW e \in used' PROVE e \in InUse'
    BY DEF UsedPart
  <2>1. e \in InUse  BY <1>3 DEF KeysInvariant, UsedPart, Readable
  <2>2. \A l \in HeldKeys : l \in HeldKeys' /\ holds'[l].ranges = holds[l].ranges
    BY <1>7 DEF HeldKeys
  <2>3. QED  BY <2>1, <2>2, <1>3 DEF InUse, HeldKeys
<1>10. QED  BY <1>4, <1>8, <1>9 DEF KeysInvariant

\* close returns what its entry no longer names, and that has no other owner.
LEMMA CloseKeys ==
    ASSUME StoreInvariant, KeysInvariant, NEW k \in Keys, Close(k)
    PROVE  KeysInvariant'
<1>1. k \in HeldKeys  BY DEF Close, HeldKeys
<1>2. served.mode # "Off" /\ Live
  <2>1. served.mode # "Off"  BY <1>1 DEF StoreInvariant, OffPart
  <2>2. QED  BY <2>1, MountedIsLive
<1>3. /\ Durable' = Durable /\ Serving' = Serving /\ Live' = Live
      /\ UNCHANGED <<served, rows, op, listing>>
  BY DEF Close, Durable, Serving, Live
<1>4. KeysPart' /\ ListingPart'
  BY <1>2, <1>3, PlanKept, ListingKept DEF KeysInvariant, KeysPart
<1>5. holds \in [Keys -> Hold]  BY TypeParts DEF StoreInvariant
<1>6. /\ \A l \in Keys : l # k => holds'[l] = holds[l]
      /\ k \in HeldKeys' => holds'[k].ranges = holds[k].ranges
      /\ k \in HeldKeys' <=> holds[k].readers > 1
  <2>1. CASE holds[k].readers > 1
    BY <2>1, <1>5 DEF Close, HeldKeys, Hold
  <2>2. CASE ~(holds[k].readers > 1)
    BY <2>2, <1>5 DEF Close, HeldKeys, NoHold
  <2>3. QED  BY <2>1, <2>2
<1>7. \A l \in HeldKeys' : l \in HeldKeys /\ holds'[l].ranges = holds[l].ranges
  BY <1>1, <1>6 DEF HeldKeys
<1>8. HeldPart'  BY <1>2, <1>3, <1>7 DEF KeysInvariant, HeldPart
<1>9. UsedPart'
  <2> SUFFICES ASSUME Readable', "find_read" \notin Faults, NEW e \in used' PROVE e \in InUse'
    BY DEF UsedPart
  <2>1. e \in used /\ used \subseteq InUse
    BY <1>3 DEF KeysInvariant, UsedPart, Readable, Close
  <2>2. served.mode # "RemountRequired"  BY <1>3 DEF Readable
  <2>3. e \in Named(Serving.entries) => e \in InUse'  BY <1>3 DEF InUse
  <2>4. ASSUME NEW t \in Slots, rows[t] # None, e \in rows[t].ranges PROVE e \in InUse'
    BY <2>4, <1>3 DEF InUse
  <2>5. ASSUME NEW l \in HeldKeys, e \in holds[l].ranges PROVE e \in InUse'
    <3>1. CASE l \in HeldKeys'
      <4>1. l \in Keys /\ holds'[l].readers > 0 /\ e \in holds'[l].ranges
        BY <3>1, <2>5, <1>7 DEF HeldKeys
      <4>2. QED  BY <4>1 DEF InUse
    <3>2. CASE l \notin HeldKeys'
      <4>1. l = k /\ ~(holds[k].readers > 1)  BY <3>2, <2>5, <1>6 DEF HeldKeys
      <4>2. used' = used \ (holds[k].ranges \ StillNamed(k))
        BY <4>1, <2>2 DEF Close
      <4>3. e \in StillNamed(k)  BY <4>1, <4>2, <2>5
      <4>4. e \in Named(Serving.entries)
        BY <4>3 DEF StillNamed, Named, Present
      <4>5. QED  BY <4>4, <2>3
    <3>3. QED  BY <3>1, <3>2
  <2>6. QED  BY <2>1, <2>3, <2>4, <2>5 DEF InUse, HeldKeys
<1>10. QED  BY <1>4, <1>8, <1>9 DEF KeysInvariant

\* A listing starts on the catalog that is served.
LEMMA ListingKeys ==
    ASSUME StoreInvariant, KeysInvariant, ListStart \/ ListEnd
    PROVE  KeysInvariant'
<1>1. UNCHANGED <<card, flash, served, used, rows, holds, op>>  BY DEF ListStart, ListEnd
<1>2. Durable' = Durable /\ Serving' = Serving /\ Live' = Live
  BY <1>1 DEF Durable, Serving, Live
<1>3. KeysPart' /\ HeldPart' /\ UsedPart'
  BY <1>1, <1>2 DEF KeysInvariant, KeysPart, GivenBack, HeldPart, HeldKeys, UsedPart, Readable, InUse
<1>4. ListingPart'
  <2>1. CASE ListEnd  BY <2>1 DEF ListEnd, ListingPart
  <2>2. CASE ListStart
    <3>1. Live /\ served.mode # "Off" /\ Serving = Durable
      <4>1. Live /\ served.mode # "Off"  BY <2>2 DEF ListStart, Readable, Live
      <4>2. QED  BY <4>1, ServedFacts
    <3>2. listing' = [copy |-> served.copy, sequence |-> served.sequence, catalog |-> Durable]
      BY <2>2, <3>1 DEF ListStart
    <3>3. served.sequence \in Nat  BY TypeParts, ConstantsAssumption DEF StoreInvariant, ServedType
    <3>4. QED  BY <3>1, <3>2, <3>3, <1>1, <1>2 DEF ListingPart
  <2>3. QED  BY <2>1, <2>2
<1>5. QED  BY <1>3, <1>4 DEF KeysInvariant

\* Every command of a commit but the publishing one leaves keys and readers alone.
LEMMA CommandKeys ==
    ASSUME StoreInvariant, StoreInvariant', KeysInvariant,
           CommitWrite \/ CommitSync \/ CommitError \/ CommitUncertain
    PROVE  KeysInvariant'
<1>1. op # None  BY DEF CommitWrite, CommitSync, CommitError, CommitUncertain, InCommit
<1>2. Live /\ op \in Operation /\ served \in ServedType
  BY <1>1, InProgress, TypeParts DEF StoreInvariant
<1>3. /\ UNCHANGED <<used, rows, holds, listing>>
      /\ served'.copy = served.copy /\ served'.sequence = served.sequence /\ served'.next = served.next
      /\ served'.mode \in {served.mode, "RemountRequired"}
  BY <1>2 DEF CommitWrite, CommitSync, CommitError, CommitUncertain, ServedType
<1>4. \/ op' = None
      \/ op # None /\ op'.body = op.body /\ op'.slots = op.slots /\ op'.freed = op.freed
  BY <1>1, <1>2 DEF CommitWrite, CommitSync, CommitError, CommitUncertain, Operation
<1>5. Durable' = Durable
  <2>1. CASE CommitWrite  BY <2>1, <1>3 DEF CommitWrite, Durable
  <2>2. CASE CommitSync
    BY <2>2, <1>2, <1>3 DEF CommitSync, Durable, StoreInvariant, ServedPart
  <2>3. CASE CommitError \/ CommitUncertain
    BY <2>3, <1>1, <1>3, RefusedEffect DEF CommitError, CommitUncertain, Durable
  <2>4. QED  BY <2>1, <2>2, <2>3
<1>6. Live' /\ served.mode # "Off" /\ served'.mode # "Off"  BY <1>2, <1>3 DEF Live
<1>7. Serving' = Serving  BY <1>2, <1>5, <1>6, <1>3 DEF StoreInvariant, ServedPart, Serving
<1>8. Readable' => Readable  BY <1>3 DEF Readable
<1>9. UsedPart'  BY <1>3, <1>7, <1>8, UsedKept DEF KeysInvariant, TakenRows
<1>10. QED  BY <1>2, <1>3, <1>4, <1>5, <1>6, <1>9, PlanKept, ReadersKept, ListingKept DEF KeysInvariant

\* A key that a commit creates is one that no reader holds: what a reader opened is used
\* up, so its object has a later head, or is gone with its id behind the cursor.
LEMMA CreatedIsNotHeld ==
    ASSUME StoreInvariant, KeysInvariant, op # None, NEW k \in Keys,
           Durable.entries[k] = None, op.body.entries[k] # None
    PROVE  k \notin HeldKeys
<1> SUFFICES ASSUME k \in HeldKeys PROVE FALSE  OBVIOUS
<1>1. Live  BY InProgress
<1>2. /\ IdOf(k) >= served.next \/ HeadsOf(Durable.entries, IdOf(k)) # {}
      /\ \A h \in HeadsOf(Durable.entries, IdOf(k)) : RevOf(h) < RevOf(k)
  BY DEF KeysInvariant, KeysPart
<1>3. /\ IdOf(k) < served.next
      /\ \A h \in HeadsOf(Durable.entries, IdOf(k)) : RevOf(k) < RevOf(h)
  BY <1>1 DEF KeysInvariant, HeldPart
<1>4. IdOf(k) \in Nat /\ served.next \in Nat
  BY <1>1, ServedFacts, ConstantsAssumption DEF Keys, IdOf
<1>5. PICK h \in HeadsOf(Durable.entries, IdOf(k)) : TRUE  BY <1>2, <1>3, <1>4
<1>6. RevOf(h) \in Nat /\ RevOf(k) \in Nat  BY DEF HeadsOf, Present, Keys, RevOf
<1>7. QED  BY <1>2, <1>3, <1>5, <1>6

\* What a reader opened stays used up, or stays what it was, across the publishing step.
LEMMA PublishHeld ==
    ASSUME StoreInvariant, KeysInvariant, op # None, NEW k \in HeldKeys
    PROVE  /\ IdOf(k) < op.body.next
           /\ IF op.body.entries[k] = None
              THEN \A h \in HeadsOf(op.body.entries, IdOf(k)) : RevOf(k) < RevOf(h)
              ELSE op.body.entries[k].ranges \subseteq holds[k].ranges
<1>1. Live /\ op.body \in Catalog  BY InProgress
<1>2. k \in Keys /\ Durable \in Catalog /\ StructureOk(Durable)
  BY <1>1, ServedFacts DEF HeldKeys
<1>3. /\ IdOf(k) < served.next
      /\ Durable.entries[k] = None =>
            \A h \in HeadsOf(Durable.entries, IdOf(k)) : RevOf(k) < RevOf(h)
      /\ Durable.entries[k] # None => Durable.entries[k].ranges \subseteq holds[k].ranges
  BY <1>1 DEF KeysInvariant, HeldPart
<1>4. /\ served.next \in Nat /\ op.body.next \in Nat
      /\ \A l \in Keys : RevOf(l) \in Nat /\ IdOf(l) \in Nat
  BY <1>1, ServedFacts, ConstantsAssumption DEF Keys, IdOf, RevOf, Catalog
<1>5. IdOf(k) < op.body.next
  BY <1>2, <1>3, <1>4 DEF KeysInvariant, KeysPart
<1>6. CASE op.body.entries[k] # None
  <2>1. Durable.entries[k] # None  BY <1>2, <1>6, CreatedIsNotHeld
  <2>2. op.body.entries[k].ranges \subseteq Durable.entries[k].ranges
    BY <2>1, <1>2, <1>6 DEF KeysInvariant, KeysPart
  <2>3. QED  BY <2>1, <2>2, <1>3, <1>5, <1>6
<1>7. CASE op.body.entries[k] = None
  <2> SUFFICES ASSUME NEW h \in HeadsOf(op.body.entries, IdOf(k)) PROVE RevOf(k) < RevOf(h)
    BY <1>5, <1>7
  <2>1. /\ h \in Keys /\ h # k /\ IdOf(h) = IdOf(k)
        /\ op.body.entries[h] # None /\ ~op.body.entries[h].retained
    BY <1>7 DEF HeadsOf, Present
  <2>2. \* the keys that were there lie below a head, or are one
        ASSUME Durable.entries[k] # None
        PROVE  \E g \in HeadsOf(Durable.entries, IdOf(k)) : RevOf(k) <= RevOf(g)
    <3>1. k \in Present(Durable.entries)  BY <2>2, <1>2 DEF Present
    <3>2. CASE Durable.entries[k].retained
      <4>1. PICK g \in HeadsOf(Durable.entries, IdOf(k)) : RevOf(k) < RevOf(g)
        BY <3>1, <3>2, <1>2, RetainedHasHead
      <4>2. RevOf(g) \in Nat /\ RevOf(k) \in Nat  BY <1>2, <1>4 DEF HeadsOf, Present
      <4>3. QED  BY <4>1, <4>2
    <3>3. CASE ~Durable.entries[k].retained
      <4>1. k \in HeadsOf(Durable.entries, IdOf(k))  BY <3>1, <3>3 DEF HeadsOf
      <4>2. QED  BY <4>1, <1>2, <1>4
    <3>4. QED  BY <3>2, <3>3
  <2>3. CASE Durable.entries[h] # None
    <3>1. ~Durable.entries[h].retained
      BY <2>1, <2>3 DEF KeysInvariant, KeysPart
    <3>2. h \in HeadsOf(Durable.entries, IdOf(k))  BY <2>1, <2>3, <3>1 DEF HeadsOf, Present
    <3>3. CASE Durable.entries[k] = None  BY <3>2, <3>3, <1>3
    <3>4. CASE Durable.entries[k] # None
      <4>1. k \in Present(Durable.entries) /\ h \in Present(Durable.entries)
        BY <1>2, <2>1, <2>3, <3>4 DEF Present
      <4>2. ~(RevOf(h) < RevOf(k))  BY <4>1, <3>1, <2>1, <1>2 DEF StructureOk
      <4>3. RevOf(h) # RevOf(k)  BY <2>1, <1>2 DEF Keys, IdOf, RevOf
      <4>4. QED  BY <4>2, <4>3, <1>2, <1>4, <2>1
    <3>5. QED  BY <3>3, <3>4
  <2>4. CASE Durable.entries[h] = None
    <3>1. /\ IdOf(k) >= served.next \/ HeadsOf(Durable.entries, IdOf(k)) # {}
          /\ \A g \in HeadsOf(Durable.entries, IdOf(k)) : RevOf(g) < RevOf(h)
      BY <2>1, <2>4 DEF KeysInvariant, KeysPart
    <3>2. PICK g \in HeadsOf(Durable.entries, IdOf(k)) : RevOf(k) <= RevOf(g)
      <4>1. CASE Durable.entries[k] # None  BY <4>1, <2>2
      <4>2. CASE Durable.entries[k] = None
        <5>1. PICK g \in HeadsOf(Durable.entries, IdOf(k)) : TRUE
          BY <3>1, <1>2, <1>3, <1>4
        <5>2. RevOf(g) \in Nat  BY <1>4 DEF HeadsOf, Present
        <5>3. QED  BY <5>1, <5>2, <4>2, <1>2, <1>3, <1>4
      <4>3. QED  BY <4>1, <4>2
    <3>3. RevOf(g) \in Nat /\ RevOf(h) \in Nat /\ RevOf(k) \in Nat
      BY <1>2, <1>4, <2>1 DEF HeadsOf, Present
    <3>4. QED  BY <3>1, <3>2, <3>3
  <2>5. QED  BY <2>3, <2>4
<1>8. QED  BY <1>6, <1>7

\* The gate lands: what the batch displaced is free, except for what a reader holds.
LEMMA PublishKeys ==
    ASSUME StoreInvariant, StoreInvariant', KeysInvariant, CommitPublish
    PROVE  KeysInvariant'
<1>1. op # None /\ op.phase = "gate_sync"  BY DEF CommitPublish, InCommit
<1>2. Live /\ op \in Operation /\ op.body \in Catalog /\ served.sequence < op.body.sequence
  BY <1>1, InProgress
<1>3. served.mode = "ReadWrite" /\ card[Gate(Target)] = op.body
  BY <1>1 DEF StoreInvariant, PhasePart
<1>4. /\ served'.mode \in {"ReadWrite", "SequenceSpaceExhausted"} /\ served'.copy = Target
      /\ served'.sequence = op.body.sequence /\ served'.next = op.body.next
      /\ op' = None /\ flash' = card /\ UNCHANGED <<card, holds, listing>>
      /\ used' = used \ Released(op.freed)
      /\ rows' = [s \in Slots |-> IF s \in op.slots THEN None ELSE rows[s]]
  BY <1>3 DEF CommitPublish
<1>5. Durable' = op.body /\ Live'  BY <1>3, <1>4 DEF Durable, Live
<1>6. Serving' = op.body  BY <1>4, <1>5 DEF StoreInvariant, ServedPart, Serving
<1>7. KeysPart'  BY <1>4 DEF KeysPart
<1>8. HeldPart'  BY <1>1, <1>4, <1>5, PublishHeld DEF HeldPart, HeldKeys
<1>9. UsedPart'
  <2> SUFFICES ASSUME Readable', "find_read" \notin Faults, NEW e \in used' PROVE e \in InUse'
    BY DEF UsedPart
  <2>1. e \in InUse /\ Serving = Durable
    BY <1>2, <1>3, <1>4, ServedFacts DEF KeysInvariant, UsedPart, Readable
  <2>2. \A k \in DOMAIN op.freed : e \in op.freed[k] => k \in HeldKeys
    <3> SUFFICES ASSUME NEW k \in DOMAIN op.freed, e \in op.freed[k] PROVE k \in HeldKeys
      OBVIOUS
    <3>1. k \in Keys  BY <1>2, OpFields
    <3>2. holds[k].readers # 0  BY <1>4 DEF Released
    <3>3. holds[k].readers \in Nat
      BY <3>1, TypeParts, ConstantsAssumption DEF StoreInvariant, Hold
    <3>4. QED  BY <3>1, <3>2, <3>3 DEF HeldKeys
  <2>3. ASSUME NEW k \in Keys, op.body.entries[k] # None, e \in op.body.entries[k].ranges
        PROVE  e \in InUse'
    BY <2>3, <1>6 DEF InUse, Named, Present
  <2>4. ASSUME NEW k \in HeldKeys, e \in holds[k].ranges PROVE e \in InUse'
    BY <2>4, <1>4 DEF InUse, HeldKeys
  <2>5. CASE e \in Named(Durable.entries)
    <3>1. PICK k \in Keys : Durable.entries[k] # None /\ e \in Durable.entries[k].ranges
      BY <2>5 DEF Named, Present
    <3>2. \/ k \in DOMAIN op.freed /\ e \in op.freed[k]
          \/ op.body.entries[k] # None /\ e \in op.body.entries[k].ranges
      BY <3>1, <1>1 DEF KeysInvariant, KeysPart, GivenBack
    <3>3. CASE k \in DOMAIN op.freed /\ e \in op.freed[k]
      <4>1. k \in HeldKeys  BY <3>3, <2>2
      <4>2. e \in holds[k].ranges  BY <3>1, <4>1, <1>2 DEF KeysInvariant, HeldPart
      <4>3. QED  BY <4>1, <4>2, <2>4
    <3>4. QED  BY <3>2, <3>3, <2>3
  <2>6. ASSUME NEW s \in Slots, rows[s] # None, e \in rows[s].ranges PROVE e \in InUse'
    <3>1. CASE s \notin op.slots
      <4>1. rows'[s] = rows[s]  BY <3>1, <1>4
      <4>2. QED  BY <4>1, <2>6 DEF InUse
    <3>2. CASE s \in op.slots
      <4>1. PICK k \in DOMAIN op.freed :
              /\ Durable.entries[k] = None /\ op.body.entries[k] # None
              /\ rows[s].ranges \subseteq op.freed[k] \cup op.body.entries[k].ranges
        BY <3>2, <1>1 DEF KeysInvariant, KeysPart
      <4>2. k \in Keys  BY <1>2, OpFields
      <4>3. k \notin HeldKeys  BY <4>1, <4>2, <1>1, CreatedIsNotHeld
      <4>4. e \in op.body.entries[k].ranges  BY <4>1, <4>3, <2>2, <2>6
      <4>5. QED  BY <4>1, <4>2, <4>4, <2>3
    <3>3. QED  BY <3>1, <3>2
  <2>7. QED  BY <2>1, <2>4, <2>5, <2>6 DEF InUse, HeldKeys
<1>10. ListingPart'
  <2>1. served.sequence \in Nat /\ op.body.sequence \in Nat
    BY <1>2, TypeParts, ConstantsAssumption DEF StoreInvariant, ServedType, Catalog
  <2>2. listing # None => listing.sequence \in Nat /\ listing.sequence <= served.sequence
    BY <1>2, TypeParts, ConstantsAssumption DEF StoreInvariant, ListingType, KeysInvariant, ListingPart
  <2>3. QED  BY <2>1, <2>2, <1>2, <1>4 DEF ListingPart
<1>11. QED  BY <1>7, <1>8, <1>9, <1>10 DEF KeysInvariant

\* Power off forgets every key that was held; a mount starts from the catalog alone.
LEMMA PowerKeys ==
    ASSUME StoreInvariant, StoreInvariant', KeysInvariant, "mount_read" \notin Faults,
           Cut \/ Mount \/ \E c \in Copies : Rot(c)
    PROVE  KeysInvariant'
<1>1. op' = None /\ HeldKeys' = {} /\ listing' = None
  <2>1. CASE Cut  BY <2>1 DEF Cut, HeldKeys, NoHold
  <2>2. CASE Mount \/ \E c \in Copies : Rot(c)
    <3>1. served.mode = "Off" /\ UNCHANGED <<holds, op, listing>>  BY <2>2 DEF Mount, Rot
    <3>2. op = None /\ HeldKeys = {} /\ listing = None
      BY <3>1 DEF StoreInvariant, OffPart, KeysInvariant, ListingPart
    <3>3. QED  BY <3>1, <3>2 DEF HeldKeys
  <2>3. QED  BY <2>1, <2>2
<1>2. KeysPart' /\ HeldPart' /\ ListingPart'
  BY <1>1 DEF KeysPart, HeldPart, ListingPart
<1>3. UsedPart'
  <2>1. CASE Cut  BY <2>1 DEF Cut, UsedPart, Readable, Unmounted
  <2>2. CASE \E c \in Copies : Rot(c)  BY <2>2 DEF Rot, UsedPart, Readable
  <2>3. CASE Mount
    <3> SUFFICES ASSUME Readable' PROVE used' \subseteq InUse'  BY DEF UsedPart
    <3>1. PICK c \in Copies : /\ Loads(card, c) /\ served'.copy = c
                              /\ used' = Named(card[Gate(c)].entries) /\ card' = card
      <4>1. Selected(card, Copies, Copies) # {}
        BY <2>3 DEF Mount, StoreInvariant, OffPart, Truth
      <4>2. PICK c, high : /\ c \in Selected(card, Copies, Copies)
                           /\ served' = [mode |-> IF high = MaxSequence THEN "SequenceSpaceExhausted" ELSE "ReadWrite",
                                         copy |-> c, sequence |-> card[Gate(c)].sequence,
                                         high |-> high, next |-> card[Gate(c)].next]
                           /\ used' = Named(card[Gate(c)].entries) /\ card' = card
        BY <2>3, <4>1 DEF Mount, Readings
      <4>3. c \in Copies /\ Loads(card, c)
        BY <4>2 DEF Selected, Selectable, WellFormed
      <4>4. QED  BY <4>2, <4>3
    <3>2. Serving' = card[Gate(c)]  BY <3>1 DEF Serving, Loads
    <3>3. QED  BY <3>1, <3>2 DEF InUse
  <2>4. QED  BY <2>1, <2>2, <2>3
<1>4. QED  BY <1>2, <1>3 DEF KeysInvariant

\* Every step of the store keeps what it knows of its keys.
LEMMA NextKeys ==
    ASSUME StoreInvariant, StoreInvariant', KeysInvariant, [Next]_vars, "mount_read" \notin Faults
    PROVE  KeysInvariant'
<1>1. CASE UNCHANGED vars
  BY <1>1 DEF vars, KeysInvariant, KeysPart, GivenBack, HeldPart, HeldKeys, UsedPart, InUse,
     ListingPart, Live, Durable, Serving, Readable
<1>2. CASE Commit
  <2>1. ASSUME NEW batch \in Batches, Begin(batch) PROVE KeysInvariant'
    <3>1. KeysPart'  BY <2>1, BeginKeys
    <3>2. Live /\ served.mode # "Off"  BY <2>1 DEF Begin, Accepts, Writable, Live
    <3>3. UNCHANGED <<card, flash, served, used, rows, holds, listing>>  BY <2>1 DEF Begin
    <3>4. Durable' = Durable /\ Serving' = Serving /\ Readable' = Readable
      BY <3>3 DEF Durable, Serving, Readable
    <3>5. QED
      BY <3>1, <3>2, <3>3, <3>4, ReadersKept, ListingKept, UsedKept DEF KeysInvariant, TakenRows
  <2>2. QED  BY <1>2, <2>1, CommandKeys, PublishKeys DEF Commit
<1>3. CASE Reserve
  BY <1>3, AllocateKeys, FillKeys, CancelKeys DEF Reserve
<1>4. CASE Read
  BY <1>4, OpenKeys, CloseKeys, ListingKeys DEF Read
<1>5. CASE Mount \/ Cut \/ \E c \in Copies : Rot(c)  BY <1>5, PowerKeys
<1>6. QED  BY <1>1, <1>2, <1>3, <1>4, <1>5 DEF Next

-----------------------------------------------------------------------------
(* The theorems. *)

\* A store that was never mounted holds no key.
LEMMA InitKeys == Init => KeysInvariant
<1> SUFFICES ASSUME Init PROVE KeysInvariant  OBVIOUS
<1>1. op = None /\ HeldKeys = {} /\ listing = None /\ ~Readable
  BY DEF Init, HeldKeys, NoHold, Readable, Unmounted
<1>2. QED  BY <1>1 DEF KeysInvariant, KeysPart, HeldPart, UsedPart, ListingPart

\* Keys are used once: KeysInvariant holds in every reachable state, whatever is refused,
\* cut or rots, as long as a mount can read the card.
THEOREM KeysAreInvariant ==
    ASSUME "mount_read" \notin Faults
    PROVE  Spec => [](StoreInvariant /\ KeysInvariant)
<1>1. StoreInvariant /\ KeysInvariant /\ [Next]_vars => StoreInvariant' /\ KeysInvariant'
  BY NextInvariant, NextKeys
<1>2. QED  BY <1>1, InitKeys, InitInvariant, PTL DEF Spec

\* A reader that opens a live key is served that key's bytes: the row it joins was opened
\* on the same entry, never on one that carried the key before (§5.2).
THEOREM StoreHeldKeyIsLiveKey ==
    ASSUME "mount_read" \notin Faults
    PROVE  Spec => []HeldKeyIsLiveKey
<1>1. StoreInvariant /\ KeysInvariant => HeldKeyIsLiveKey
  <2> SUFFICES ASSUME StoreInvariant, KeysInvariant, NEW k \in HeldKeys, Readable,
                      Serving.entries[k] # None
               PROVE  Serving.entries[k].ranges \subseteq holds[k].ranges
    BY DEF HeldKeyIsLiveKey, HeldKeys
  <2>1. Live /\ Serving = Durable  BY ServedFacts DEF Readable, Live
  <2>2. QED  BY <2>1 DEF KeysInvariant, HeldPart
<1>2. QED  BY <1>1, KeysAreInvariant, PTL

\* The free map leaks nothing and hands out nothing twice: without a failed catalog read
\* in close, the extents that are not free are those of entries, rows and readers (§5.6).
THEOREM StoreFreeMapExact ==
    ASSUME "mount_read" \notin Faults
    PROVE  Spec => []FreeMapExact
<1>1. StoreInvariant /\ KeysInvariant => FreeMapExact
  <2> SUFFICES ASSUME StoreInvariant, KeysInvariant, Readable
               PROVE  InUse \subseteq used /\ ("find_read" \notin Faults => used = InUse)
    BY DEF FreeMapExact
  <2>1. Live /\ Serving = Durable  BY ServedFacts DEF Readable, Live
  <2>2. InUse \subseteq used
    BY <2>1 DEF InUse, StoreInvariant, OwnersPart, TakenRows, HeldKeys
  <2>3. "find_read" \notin Faults => used \subseteq InUse  BY DEF KeysInvariant, UsedPart
  <2>4. QED  BY <2>2, <2>3
<1>2. QED  BY <1>1, KeysAreInvariant, PTL

\* A listing that has not failed reads the catalog that it was built against, however many
\* commits have landed between two of its steps.
THEOREM StoreListingConsistent ==
    ASSUME "mount_read" \notin Faults
    PROVE  Spec => []ListingConsistent
<1>1. StoreInvariant /\ KeysInvariant => ListingConsistent
  <2> SUFFICES ASSUME StoreInvariant, KeysInvariant, ListLive
               PROVE  card[Body(listing.copy)] = listing.catalog
    BY DEF ListingConsistent
  <2>1. Live /\ Serving = Durable  BY ServedFacts DEF ListLive, Readable, Live
  <2>2. QED  BY <2>1 DEF ListLive, KeysInvariant, ListingPart, Serving
<1>2. QED  BY <1>1, KeysAreInvariant, PTL

-----------------------------------------------------------------------------
(* Cells and the extents of the owners. *)

\* A data cell is a cell of its own.
LEMMA DataCells ==
    /\ \A e \in Extents : Data(e) \in Cells
    /\ \A e, f : Data(e) = Data(f) => e = f
    /\ \A c, e : Data(e) # Gate(c) /\ Data(e) # Body(c)
  BY DEF Cells, Data, Gate, Body

\* A write, landed or refused, changes no cell but its own.
LEMMA WriteSpares ==
    ASSUME NEW w, card' = Put(card, w) \/ RefusedWrite(w), NEW c \in Cells, c \notin DOMAIN w
    PROVE  card'[c] = card[c]
  BY DEF Put, RefusedWrite

\* What the entries of a well-formed catalog and the rows cover.
LEMMA EntryExtents ==
    ASSUME NEW catalog \in Catalog, StructureOk(catalog), NEW k \in Present(catalog.entries)
    PROVE  /\ k \in Keys /\ catalog.entries[k] \in Entry
           /\ DOMAIN catalog.entries[k].content \subseteq catalog.entries[k].ranges
           /\ catalog.entries[k].ranges \subseteq Extents
<1>1. k \in Keys /\ catalog.entries[k] \in Entry  BY DEF Present, Catalog
<1>2. EntryOk(catalog.entries[k])  BY DEF StructureOk
<1>3. QED  BY <1>1, <1>2 DEF EntryOk, Entry

\* A reservation's content, and what of it is still in the staging buffer, is of its own
\* extents (store.rs `Reservation`).
LEMMA RowExtents ==
    ASSUME StoreInvariant, NEW s \in TakenRows
    PROVE  /\ rows[s] \in Row /\ rows[s].content \in Contents
           /\ rows[s].staged \subseteq DOMAIN rows[s].content
           /\ DOMAIN rows[s].content \subseteq rows[s].ranges /\ rows[s].ranges \subseteq Extents
<1>1. rows[s] \in Row  BY TypeParts DEF StoreInvariant, TakenRows
<1>2. QED  BY <1>1 DEF Row

\* A medium that keeps every cell that card and flash agree on is intact where both are.
LEMMA IntactOnBoth ==
    ASSUME NEW m, NEW catalog \in Catalog, StructureOk(catalog), Intact(card, catalog), Intact(flash, catalog),
           \A c \in Cells : card[c] = flash[c] => m[c] = flash[c]
    PROVE  Intact(m, catalog)
<1> SUFFICES ASSUME NEW k \in Present(catalog.entries), NEW e \in DOMAIN catalog.entries[k].content
             PROVE  m[Data(e)] = catalog.entries[k].content[e]
  BY DEF Intact
<1>1. Data(e) \in Cells  BY EntryExtents, DataCells
<1>2. card[Data(e)] = catalog.entries[k].content[e] /\ flash[Data(e)] = catalog.entries[k].content[e]
  BY DEF Intact
<1>3. QED  BY <1>1, <1>2

\* The bytes that an owner has on the card, for the steps that write to somebody else:
\* what the served catalog names, what a row no longer stages, and what a reader reads.
Kept(e) ==
    \/ \E k \in Present(Durable.entries) : e \in DOMAIN Durable.entries[k].content
    \/ \E s \in TakenRows : e \in DOMAIN rows[s].content \ rows[s].staged
    \/ \E k \in HeldKeys : e \in DOMAIN holds[k].content

\* A step that leaves owners and catalog alone and writes to no kept byte keeps the parts.
LEMMA KeptBytes ==
    ASSUME StoreInvariant, BytesInvariant, Live, Live', Durable' = Durable, UNCHANGED <<flash, rows, holds>>,
           served'.mode # "Off", \A e \in Extents : Kept(e) => card'[Data(e)] = card[Data(e)]
    PROVE  /\ Intact(card', Durable) /\ Intact(flash', Durable) /\ Unfilled(Durable)
           /\ RowsPart' /\ PinnedPart'
<1>1. Durable \in Catalog /\ StructureOk(Durable)  BY ServedFacts
<1>2. Intact(card, Durable) /\ Intact(flash, Durable) /\ Unfilled(Durable)
  BY DEF BytesInvariant, PayloadPart
<1>3. Intact(card', Durable)
  <2> SUFFICES ASSUME NEW k \in Present(Durable.entries), NEW e \in DOMAIN Durable.entries[k].content
               PROVE  card'[Data(e)] = Durable.entries[k].content[e]
    BY DEF Intact
  <2>1. e \in Extents /\ Kept(e)  BY <1>1, EntryExtents DEF Kept
  <2>2. QED  BY <2>1, <1>2 DEF Intact
<1>4. RowsPart'
  <2>1. TakenRows' = TakenRows  BY DEF TakenRows
  <2>2. \A s \in TakenRows : \A e \in DOMAIN rows[s].content \ rows[s].staged :
           e \in Extents /\ Kept(e) /\ card[Data(e)] = rows[s].content[e]
    BY RowExtents DEF Kept, BytesInvariant, RowsPart
  <2>3. QED  BY <2>1, <2>2 DEF RowsPart
<1>5. PinnedPart'
  <2>1. HeldKeys' = HeldKeys  BY DEF HeldKeys
  <2>2. \A k \in HeldKeys : holds[k].ranges \subseteq Extents
    BY TypeParts DEF StoreInvariant, HeldKeys, Hold
  <2>3. \A k \in HeldKeys : \A e \in DOMAIN holds[k].content :
           e \in Extents /\ Kept(e) /\ card[Data(e)] = holds[k].content[e]
    BY <2>2 DEF Kept, BytesInvariant, PinnedPart
  <2>4. QED  BY <2>1, <2>3 DEF BytesInvariant, PinnedPart
<1>6. QED  BY <1>2, <1>3, <1>4, <1>5

\* The part of a reservation that is not settled on the card belongs to nobody else.
LEMMA RowIsOwn ==
    ASSUME StoreInvariant, BytesInvariant, Live, NEW s \in TakenRows, NEW e \in rows[s].ranges,
           e \notin DOMAIN rows[s].content \ rows[s].staged
    PROVE  ~Kept(e)
<1>1. Durable \in Catalog /\ StructureOk(Durable)  BY ServedFacts
<1>2. \A k \in Present(Durable.entries) : e \notin DOMAIN Durable.entries[k].content
  BY <1>1, EntryExtents DEF StoreInvariant, OwnersPart
<1>3. \A t \in TakenRows : e \notin DOMAIN rows[t].content \ rows[t].staged
  BY RowExtents DEF StoreInvariant, OwnersPart
<1>4. \A k \in HeldKeys : e \notin DOMAIN holds[k].content
  BY DEF StoreInvariant, OwnersPart, BytesInvariant, PinnedPart
<1>5. QED  BY <1>2, <1>3, <1>4 DEF Kept

\* The extents of a ride that is recorded hold no byte that anybody may read yet.
LEMMA RideIsOwn ==
    ASSUME StoreInvariant, BytesInvariant, Live, NEW k \in Present(Durable.entries),
           Durable.entries[k].flag = "recording", NEW e \in Durable.entries[k].ranges
    PROVE  ~Kept(e)
<1>1. Durable \in Catalog /\ StructureOk(Durable) /\ RangesDisjoint(Durable.entries)  BY ServedFacts
<1>2. DOMAIN Durable.entries[k].content = {}
  BY DEF BytesInvariant, PayloadPart, Unfilled, HoldsSlack
<1>3. \A l \in Present(Durable.entries) : e \notin DOMAIN Durable.entries[l].content
  BY <1>1, <1>2, EntryExtents DEF RangesDisjoint
<1>4. \A t \in TakenRows : e \notin DOMAIN rows[t].content \ rows[t].staged
  BY RowExtents DEF StoreInvariant, OwnersPart
<1>5. \A l \in HeldKeys : e \notin DOMAIN holds[l].content
  BY DEF StoreInvariant, OwnersPart, BytesInvariant, PinnedPart, Present
<1>6. QED  BY <1>3, <1>4, <1>5 DEF Kept

-----------------------------------------------------------------------------
(* Reservations. *)

\* Without a commit in progress a mounted store has to keep what it serves intact.
LEMMA NoCommitBytes ==
    ASSUME Live', op' = None, RowsPart', PinnedPart',
           Intact(card', Durable'), Intact(flash', Durable'), Unfilled(Durable')
    PROVE  BytesInvariant'
<1>1. PayloadPart'  BY DEF PayloadPart, Live
<1>2. QED  BY <1>1 DEF BytesInvariant, FlushPart

\* allocate and cancel write nothing; a new row has no bytes yet.
LEMMA TableBytes ==
    ASSUME StoreInvariant, BytesInvariant, (\E n : Allocate(n)) \/ (\E s \in Slots : Cancel(s))
    PROVE  BytesInvariant'
<1>1. /\ op = None /\ op' = None /\ served.mode # "Off" /\ UNCHANGED <<card, flash, served, holds>>
  <2>1. served.mode # "Off"
    BY DEF Allocate, Writable, Cancel, TakenRows, StoreInvariant, OffPart
  <2>2. QED  BY <2>1 DEF Allocate, Cancel
<1>2. Live /\ Live' /\ Durable' = Durable  BY <1>1, MountedIsLive DEF Live, Durable
<1>3. rows \in [Slots -> Row \cup {None}]  BY TypeParts DEF StoreInvariant
<1>4. \A s \in TakenRows' : rows'[s] = rows[s] \/ rows'[s].content = NoContent
  <2>1. ASSUME NEW n, Allocate(n)
        PROVE  \A s \in TakenRows' : rows'[s] = rows[s] \/ rows'[s].content = NoContent
    <3>1. PICK s \in Slots : rows' = [rows EXCEPT ![s] = [ranges |-> FirstOf(Free, n), content |-> NoContent,
                                                          staged |-> {}, sealed |-> FALSE]]
      BY <2>1 DEF Allocate, Lowest
    <3>2. QED  BY <3>1, <1>3 DEF TakenRows
  <2>2. ASSUME NEW s \in Slots, Cancel(s)
        PROVE  \A t \in TakenRows' : rows'[t] = rows[t]
    BY <2>2, <1>3 DEF Cancel, TakenRows
  <2>3. QED  BY <2>1, <2>2
<1>5. RowsPart'
  <2>1. DOMAIN NoContent = {}  BY DEF NoContent
  <2>2. \A s \in TakenRows' : rows'[s] = rows[s] => s \in TakenRows  BY DEF TakenRows
  <2>3. QED  BY <2>1, <2>2, <1>1, <1>2, <1>4 DEF BytesInvariant, RowsPart
<1>6. PinnedPart'  BY <1>1, <1>2 DEF BytesInvariant, PinnedPart, HeldKeys
<1>7. Intact(card', Durable') /\ Intact(flash', Durable') /\ Unfilled(Durable')
  BY <1>1, <1>2 DEF BytesInvariant, PayloadPart
<1>8. QED  BY <1>1, <1>2, <1>5, <1>6, <1>7, NoCommitBytes

\* write and seal put the bytes of one row on its own extents, or leave them staged.
LEMMA FillBytes ==
    ASSUME StoreInvariant, BytesInvariant, Live, NEW s \in TakenRows, NEW after \in Row, NEW w,
           op' = None, UNCHANGED <<flash, served, holds>>,
           \* what is written belongs to the row and is not settled
           \A c \in DOMAIN w : \E e \in rows[s].ranges :
               c = Data(e) /\ e \notin DOMAIN rows[s].content \ rows[s].staged,
           \* what the new row settles was settled, or is written now
           \A e \in DOMAIN after.content \ after.staged :
               \/ Data(e) \in DOMAIN w /\ w[Data(e)] = after.content[e]
               \/ /\ Data(e) \notin DOMAIN w /\ e \in DOMAIN rows[s].content \ rows[s].staged
                  /\ after.content[e] = rows[s].content[e],
           after.ranges = rows[s].ranges,
           \/ card' = Put(card, w) /\ rows' = [rows EXCEPT ![s] = after]
           \/ RefusedWrite(w) /\ rows' = rows
    PROVE  BytesInvariant'
<1>1. \A e \in Extents : Kept(e) => card'[Data(e)] = card[Data(e)]
  <2> SUFFICES ASSUME NEW e \in Extents, Kept(e) PROVE card'[Data(e)] = card[Data(e)]
    OBVIOUS
  <2>1. Data(e) \notin DOMAIN w  BY RowIsOwn, DataCells
  <2>2. QED  BY <2>1, WriteSpares, DataCells
<1>2. Live' /\ Durable' = Durable /\ served'.mode # "Off"  BY DEF Live, Durable
<1>3. Durable \in Catalog /\ StructureOk(Durable)  BY ServedFacts
<1>4. Intact(card', Durable) /\ Intact(flash', Durable) /\ Unfilled(Durable)
  <2>1. Intact(card, Durable) /\ Intact(flash, Durable) /\ Unfilled(Durable)
    BY DEF BytesInvariant, PayloadPart
  <2>2. \A k \in Present(Durable.entries) : \A e \in DOMAIN Durable.entries[k].content : e \in Extents /\ Kept(e)
    BY <1>3, EntryExtents DEF Kept
  <2>3. QED  BY <2>1, <2>2, <1>1 DEF Intact
<1>5. PinnedPart'
  <2>1. \A k \in HeldKeys : holds[k].ranges \subseteq Extents
    BY TypeParts DEF StoreInvariant, HeldKeys, Hold
  <2>2. \A k \in HeldKeys : \A e \in DOMAIN holds[k].content : e \in Extents /\ Kept(e)
    BY <2>1 DEF Kept, BytesInvariant, PinnedPart
  <2>3. HeldKeys' = HeldKeys  BY DEF HeldKeys
  <2>4. QED  BY <1>1, <1>2, <2>2, <2>3 DEF BytesInvariant, PinnedPart
<1>6. RowsPart'
  <2>1. \A t \in TakenRows : \A e \in DOMAIN rows[t].content \ rows[t].staged :
           e \in Extents /\ card'[Data(e)] = rows[t].content[e]
    BY <1>1, RowExtents DEF Kept, BytesInvariant, RowsPart
  <2>2. CASE rows' = rows  BY <2>1, <2>2 DEF RowsPart, TakenRows
  <2>3. CASE card' = Put(card, w) /\ rows' = [rows EXCEPT ![s] = after]
    <3>1. rows \in [Slots -> Row \cup {None}]  BY TypeParts DEF StoreInvariant
    <3>2. \A t \in TakenRows' : (t = s /\ rows'[t] = after) \/ (t \in TakenRows /\ rows'[t] = rows[t])
      <4>1. \A t \in Slots : rows'[t] = IF t = s THEN after ELSE rows[t]  BY <2>3, <3>1
      <4>2. \A t \in TakenRows' : t \in Slots /\ rows'[t] # None  BY DEF TakenRows
      <4>3. QED  BY <4>1, <4>2 DEF TakenRows
    <3>3. \A e \in DOMAIN after.content \ after.staged : card'[Data(e)] = after.content[e]
      <4> TAKE e \in DOMAIN after.content \ after.staged
      <4>1. Data(e) \in Cells  BY DataCells DEF Row
      <4>2. QED  BY <4>1, <2>1, <2>3 DEF Put
    <3>4. QED  BY <2>1, <3>2, <3>3 DEF RowsPart
  <2>4. QED  BY <2>2, <2>3
<1>7. QED  BY <1>2, <1>4, <1>5, <1>6, NoCommitBytes

\* write fills the extents of its row in order.
LEMMA WriteBytes ==
    ASSUME StoreInvariant, BytesInvariant, NEW s \in Slots, NEW p \in Payload, NEW partial \in BOOLEAN,
           Write(s, p, partial)
    PROVE  BytesInvariant'
<1> DEFINE row == rows[s]
           after == RowAfterWrite(row, p, partial)
           w == CardWritesOf(row, after)
<1>1. Live /\ op' = None /\ UNCHANGED <<flash, served, holds>> /\ s \in TakenRows
  BY DEF Write, Writable, Live, LiveRow, TakenRows
<1>2. row \in Row /\ row.staged \subseteq DOMAIN row.content /\ DOMAIN row.content \subseteq row.ranges
  BY <1>1, RowExtents
<1>3. after \in Row /\ after.ranges = row.ranges
  BY <1>2, RowAfterWriteType DEF RowAfterWrite, Row
<1>4. /\ DOMAIN row.content \subseteq DOMAIN after.content /\ DOMAIN after.content \subseteq row.ranges
      /\ \A e \in DOMAIN row.content : after.content[e] = row.content[e]
  <2>1. CASE row.staged # {}
    <3>1. after.content = row.content  BY <2>1, <1>2 DEF RowAfterWrite, Row
    <3>2. QED  BY <3>1, <1>2
  <2>2. CASE row.staged = {}
    <3> DEFINE new == Lowest(row.ranges \ DOMAIN row.content)
    <3>1. after.content = [x \in DOMAIN row.content \cup new |-> IF x \in new THEN p ELSE row.content[x]]
      BY <2>2, <1>2 DEF RowAfterWrite, Row
    <3>2. new \cap DOMAIN row.content = {} /\ new \subseteq row.ranges  BY DEF Lowest
    <3> HIDE DEF new
    <3>3. QED  BY <3>1, <3>2, <1>2
  <2>3. QED  BY <2>1, <2>2
<1> HIDE DEF after
<1>5. /\ DOMAIN w = {Data(e) : e \in row.staged \cup (DOMAIN after.content \ DOMAIN row.content)}
      /\ \A e \in row.staged \cup (DOMAIN after.content \ DOMAIN row.content) :
            w[Data(e)] = IF e \in after.staged THEN Ill ELSE after.content[e]
  <2>1. \A e : Data(e)[2] = e  BY DEF Data
  <2>2. QED  BY <2>1 DEF CardWritesOf
<1> HIDE DEF w
<1>6. \A c \in DOMAIN w : \E e \in row.ranges : c = Data(e) /\ e \notin DOMAIN row.content \ row.staged
  BY <1>2, <1>4, <1>5
<1>7. \A e \in DOMAIN after.content \ after.staged :
        \/ Data(e) \in DOMAIN w /\ w[Data(e)] = after.content[e]
        \/ /\ Data(e) \notin DOMAIN w /\ e \in DOMAIN row.content \ row.staged
           /\ after.content[e] = row.content[e]
  BY <1>2, <1>4, <1>5, DataCells
<1>8. \/ card' = Put(card, w) /\ rows' = [rows EXCEPT ![s] = after]
      \/ RefusedWrite(w) /\ rows' = rows
  BY DEF Write, after, w
<1>9. QED  BY <1>1, <1>3, <1>6, <1>7, <1>8, FillBytes

\* seal puts the staged tail of its row on the card.
LEMMA SealBytes ==
    ASSUME StoreInvariant, BytesInvariant, NEW s \in Slots, Seal(s)
    PROVE  BytesInvariant'
<1> DEFINE row == rows[s]
           after == [row EXCEPT !.staged = {}, !.sealed = TRUE]
           w == StagedWrites(row)
<1>1. Live /\ op' = None /\ UNCHANGED <<flash, served, holds>> /\ s \in TakenRows
  BY DEF Seal, Writable, Live, LiveRow, TakenRows
<1>2. row \in Row /\ row.staged \subseteq DOMAIN row.content /\ DOMAIN row.content \subseteq row.ranges
  BY <1>1, RowExtents
<1>3. after \in Row /\ after.ranges = row.ranges /\ after.content = row.content
  BY <1>2 DEF Row
<1>4. rows \in [Slots -> Row \cup {None}]  BY TypeParts DEF StoreInvariant
<1>5. \/ card' = Put(card, w) /\ rows' = [rows EXCEPT ![s] = after]
      \/ RefusedWrite(w) /\ rows' = rows
  BY <1>2, <1>4 DEF Seal, Row
<1>6. DOMAIN w = {Data(e) : e \in row.staged} /\ \A e \in row.staged : w[Data(e)] = row.content[e]
  <2>1. \A e : Data(e)[2] = e  BY DEF Data
  <2>2. QED  BY <2>1 DEF StagedWrites
<1> HIDE DEF after, w
<1>7. \A c \in DOMAIN w : \E e \in row.ranges : c = Data(e) /\ e \notin DOMAIN row.content \ row.staged
  BY <1>2, <1>6
<1>8. \A e \in DOMAIN after.content \ after.staged :
        \/ Data(e) \in DOMAIN w /\ w[Data(e)] = after.content[e]
        \/ /\ Data(e) \notin DOMAIN w /\ e \in DOMAIN row.content \ row.staged
           /\ after.content[e] = row.content[e]
  BY <1>2, <1>3, <1>6, DataCells
<1>9. QED  BY <1>1, <1>3, <1>5, <1>7, <1>8, FillBytes

-----------------------------------------------------------------------------
(* The plan of a commit: what its flush puts on the card. *)

\* The three origins of the payload that a new catalog names.
CarriesOn(batch, k, new) ==
    /\ Durable.entries[k] # None /\ k \notin Ending(batch)
    /\ new.content = Durable.entries[k].content /\ new.flag = Durable.entries[k].flag
EndsRide(batch, k, new) ==
    /\ k \in Ending(batch) /\ Durable.entries[k] # None /\ Durable.entries[k].flag = "recording"
    /\ new.flag = "plain" /\ new.content = batch[k].content
    /\ DOMAIN batch[k].content \subseteq Durable.entries[k].ranges
Publishes(batch, k, new) ==
    /\ Creating(batch, k) /\ batch[k].slot \in SlotsOf(batch) /\ batch[k].slot \in TakenRows
    /\ new.content = IF HoldsSlack(new.flag) THEN NoContent ELSE rows[batch[k].slot].content

\* Every entry of the new catalog carries a payload on, ends a ride or publishes a row.
LEMMA PayloadOrigins ==
    ASSUME StoreInvariant, Live, NEW batch \in Batches, NEW next, NEW k \in Keys,
           Merged(batch, next).entries[k] # None
    PROVE  LET new == Merged(batch, next).entries[k]
           IN  CarriesOn(batch, k, new) \/ EndsRide(batch, k, new) \/ Publishes(batch, k, new)
<1> DEFINE new == Merged(batch, next).entries[k]
           m == batch[k]
<1>1. TypeOK /\ Durable \in Catalog /\ Serving = Durable  BY ServedFacts DEF StoreInvariant
<1>2. new = IF k \in DOMAIN batch THEN ResolvedEntry(k, m) ELSE Durable.entries[k]
  BY <1>1 DEF Merged
<1>3. CASE k \notin DOMAIN batch
  BY <1>2, <1>3 DEF CarriesOn, Ending
<1>4. CASE k \in DOMAIN batch
  <2>1. Removes(k, m) \/ AmendsKey(k, m) \/ Creates(k, m)  BY <1>4, BatchFacts
  <2>2. CASE Removes(k, m)
    <3>1. ResolvedEntry(k, m) = None  BY <2>2, RemovalFields DEF ResolvedEntry
    <3>2. QED  BY <3>1, <1>2, <1>4
  <2>3. CASE AmendsKey(k, m)
    <3>1. m.put = "amend" /\ Durable.entries[k] # None
      BY <2>3, <1>1, AmendFields DEF AmendsKey
    <3>2. new.flag = m.flag /\ new.content = m.content
      BY <3>1, <1>2, <1>4 DEF ResolvedEntry
    <3>3. \/ m.flag = Durable.entries[k].flag /\ m.content = Durable.entries[k].content
          \/ /\ Durable.entries[k].flag = "recording" /\ m.flag = "plain"
             /\ DOMAIN m.content \subseteq Durable.entries[k].ranges
      BY <2>3, <1>1, AmendKeeps
    <3>4. k \in Ending(batch) <=> m.flag = "plain" /\ Durable.entries[k].flag = "recording"
      BY <3>1, <1>1, <1>4 DEF Ending
    <3>5. QED  BY <3>1, <3>2, <3>3, <3>4 DEF CarriesOn, EndsRide
  <2>4. CASE Creates(k, m)
    <3>1. /\ m.put = "fresh"
          /\ m.content = IF HoldsSlack(m.flag) THEN NoContent ELSE rows[m.slot].content
      BY <2>4, <1>1, CreateFields
    <3>2. new.flag = m.flag /\ new.content = m.content
      BY <3>1, <1>2, <1>4 DEF ResolvedEntry
    <3>3. Creating(batch, k)  BY <3>1, <1>4 DEF Creating
    <3>4. m.slot \in SlotsOf(batch) /\ m.slot \in TakenRows  BY <3>3, BatchOrigins
    <3>5. QED  BY <3>1, <3>2, <3>3, <3>4 DEF Publishes
  <2>5. QED  BY <2>1, <2>2, <2>3, <2>4
<1>5. QED  BY <1>3, <1>4

\* The rides that a batch ends.
LEMMA EndingFacts ==
    ASSUME StoreInvariant, Live, NEW batch \in Batches, NEW k \in Ending(batch)
    PROVE  /\ k \in Present(Durable.entries) /\ Durable.entries[k].flag = "recording"
           /\ batch[k].content \in Contents
           /\ DOMAIN batch[k].content \subseteq Durable.entries[k].ranges
<1>1. TypeOK /\ Durable \in Catalog /\ Serving = Durable  BY ServedFacts DEF StoreInvariant
<1>2. /\ k \in DOMAIN batch /\ batch[k].put = "amend" /\ batch[k].flag = "plain"
      /\ Durable.entries[k].flag = "recording"
  BY <1>1 DEF Ending
<1>3. k \in Keys /\ (Removes(k, batch[k]) \/ AmendsKey(k, batch[k]) \/ Creates(k, batch[k]))
  BY <1>2, BatchFacts
<1>4. AmendsKey(k, batch[k])  BY <1>1, <1>2, <1>3, RemovalFields, CreateFields
<1>5. QED  BY <1>1, <1>2, <1>3, <1>4, AmendFields, AmendKeeps DEF AmendsKey, Present

\* The flush holds the staged tails of the batch's rows and the bytes of the rides it ends,
\* each extent with the one value that its owner has for it.
LEMMA FlushValues ==
    ASSUME StoreInvariant, Live, NEW batch \in Batches
    PROVE  LET w == PayloadWrites(batch)
           IN  /\ \A e : Data(e) \in DOMAIN w =>
                     \/ \E s \in SlotsOf(batch) : e \in rows[s].staged
                     \/ \E k \in Ending(batch) : e \in DOMAIN batch[k].content
               /\ \A k \in Ending(batch) : \A e \in DOMAIN batch[k].content :
                     Data(e) \in DOMAIN w /\ w[Data(e)] = batch[k].content[e]
               /\ \A s \in SlotsOf(batch) : \A e \in rows[s].staged :
                     Data(e) \in DOMAIN w /\ w[Data(e)] = rows[s].content[e]
<1> DEFINE staged == UNION {rows[s].staged : s \in SlotsOf(batch)}
           ride   == UNION {DOMAIN batch[k].content : k \in Ending(batch)}
           C      == {Data(e) : e \in staged \cup ride}
           Value(c, p) ==
            \/ \E k \in Ending(batch) : c[2] \in DOMAIN batch[k].content /\ p = batch[k].content[c[2]]
            \/ c[2] \notin ride /\ \E s \in SlotsOf(batch) : c[2] \in rows[s].staged /\ p = rows[s].content[c[2]]
           w == PayloadWrites(batch)
<1>1. w = [c \in C |-> CHOOSE p \in Payload : Value(c, p)]  BY DEF PayloadWrites
<1>2. Durable \in Catalog /\ StructureOk(Durable) /\ RangesDisjoint(Durable.entries) /\ Serving = Durable
  BY ServedFacts
<1>3. \A s \in SlotsOf(batch) : s \in TakenRows
  BY <1>2, SlotsOfType DEF StoreInvariant, TakenRows
<1>4. \A k, l \in Ending(batch) : k # l => DOMAIN batch[k].content \cap DOMAIN batch[l].content = {}
  BY <1>2, EndingFacts DEF RangesDisjoint
<1>5. \A s, t \in SlotsOf(batch) : s # t => rows[s].staged \cap rows[t].staged = {}
  BY <1>3, RowExtents DEF StoreInvariant, OwnersPart
<1>6. \A s \in SlotsOf(batch) : \A k \in Ending(batch) : rows[s].staged \cap DOMAIN batch[k].content = {}
  BY <1>3, RowExtents, EndingFacts DEF StoreInvariant, OwnersPart
<1>7. \A e : Data(e)[2] = e  BY DEF Data
<1>8. ASSUME NEW k \in Ending(batch), NEW e \in DOMAIN batch[k].content
      PROVE  Data(e) \in DOMAIN w /\ w[Data(e)] = batch[k].content[e]
  <2>1. e \in ride /\ Data(e) \in C  OBVIOUS
  <2>2. batch[k].content[e] \in Payload  BY EndingFacts, ContentsFacts
  <2>3. Value(Data(e), batch[k].content[e])  BY <1>7
  <2>4. \A p \in Payload : Value(Data(e), p) => p = batch[k].content[e]
    BY <2>1, <1>4, <1>7
  <2> HIDE DEF Value
  <2>5. (CHOOSE p \in Payload : Value(Data(e), p)) = batch[k].content[e]
    BY <2>2, <2>3, <2>4
  <2>6. QED  BY <2>1, <2>5, <1>1
<1>9. ASSUME NEW s \in SlotsOf(batch), NEW e \in rows[s].staged
      PROVE  Data(e) \in DOMAIN w /\ w[Data(e)] = rows[s].content[e]
  <2>1. e \in staged /\ Data(e) \in C /\ e \notin ride  BY <1>6
  <2>2. rows[s].content[e] \in Payload  BY <1>3, RowExtents, ContentsFacts
  <2>3. Value(Data(e), rows[s].content[e])  BY <2>1, <1>7
  <2>4. \A p \in Payload : Value(Data(e), p) => p = rows[s].content[e]
    BY <2>1, <1>5, <1>7
  <2> HIDE DEF Value
  <2>5. (CHOOSE p \in Payload : Value(Data(e), p)) = rows[s].content[e]
    BY <2>2, <2>3, <2>4
  <2>6. QED  BY <2>1, <2>5, <1>1
<1>10. \A e : Data(e) \in DOMAIN w => e \in staged \cup ride
  <2>1. DOMAIN w = C  BY <1>1
  <2>2. QED  BY <2>1, DataCells
<1>11. QED  BY <1>8, <1>9, <1>10

\* After the flush every byte that the new catalog names is on the card.
LEMMA FlushedIsIntact ==
    ASSUME StoreInvariant, BytesInvariant, Live, NEW batch \in Batches, NEW next,
           Merged(batch, next) \in Catalog, StructureOk(Merged(batch, next))
    PROVE  Intact(Put(card, PayloadWrites(batch)), Merged(batch, next))
<1> DEFINE body == Merged(batch, next)
           w == PayloadWrites(batch)
<1> SUFFICES ASSUME NEW k \in Present(body.entries), NEW e \in DOMAIN body.entries[k].content
             PROVE  Put(card, w)[Data(e)] = body.entries[k].content[e]
  BY DEF Intact
<1> DEFINE new == body.entries[k]
<1>1. Durable \in Catalog /\ StructureOk(Durable) /\ RangesDisjoint(Durable.entries) /\ Serving = Durable
  BY ServedFacts
<1>2. k \in Keys /\ new # None /\ e \in Extents  BY EntryExtents DEF Present
<1>3. Data(e) \in Cells  BY <1>2, DataCells
<1>4. /\ Data(e) \in DOMAIN w =>
            \/ \E s \in SlotsOf(batch) : e \in rows[s].staged
            \/ \E j \in Ending(batch) : e \in DOMAIN batch[j].content
      /\ \A j \in Ending(batch) : e \in DOMAIN batch[j].content =>
            Data(e) \in DOMAIN w /\ w[Data(e)] = batch[j].content[e]
      /\ \A s \in SlotsOf(batch) : e \in rows[s].staged =>
            Data(e) \in DOMAIN w /\ w[Data(e)] = rows[s].content[e]
  BY FlushValues
<1>5. Put(card, w)[Data(e)] = IF Data(e) \in DOMAIN w THEN w[Data(e)] ELSE card[Data(e)]
  BY <1>3 DEF Put
<1>6. \A s \in SlotsOf(batch) : s \in TakenRows /\ rows[s].staged \subseteq rows[s].ranges
  <2>1. SlotsOf(batch) \subseteq TakenRows  BY <1>1, SlotsOfType DEF StoreInvariant, TakenRows
  <2>2. QED  BY <2>1, RowExtents
<1>7. CarriesOn(batch, k, new) \/ EndsRide(batch, k, new) \/ Publishes(batch, k, new)
  BY <1>2, PayloadOrigins
<1> HIDE DEF w, body
<1>8. CASE CarriesOn(batch, k, new)
  <2>1. /\ k \in Present(Durable.entries) /\ k \notin Ending(batch)
        /\ new.content = Durable.entries[k].content
    BY <1>2, <1>8 DEF CarriesOn, Present
  <2>2. e \in Durable.entries[k].ranges  BY <2>1, <1>1, EntryExtents
  <2>3. \A s \in SlotsOf(batch) : e \notin rows[s].staged
    BY <2>1, <2>2, <1>6 DEF StoreInvariant, OwnersPart
  <2>4. \A j \in Ending(batch) : e \notin DOMAIN batch[j].content
    BY <2>1, <2>2, <1>1, EndingFacts DEF RangesDisjoint
  <2>5. card[Data(e)] = Durable.entries[k].content[e]
    BY <2>1 DEF BytesInvariant, PayloadPart, Intact
  <2>6. QED  BY <2>1, <2>3, <2>4, <2>5, <1>4, <1>5
<1>9. CASE EndsRide(batch, k, new)
  BY <1>4, <1>5, <1>9 DEF EndsRide
<1>10. CASE Publishes(batch, k, new)
  <2> DEFINE s == batch[k].slot
  <2>1. s \in SlotsOf(batch) /\ s \in TakenRows /\ new.content = rows[s].content
    BY <1>10 DEF Publishes, NoContent
  <2>2. e \in rows[s].ranges  BY <2>1, RowExtents
  <2>3. CASE e \in rows[s].staged  BY <2>1, <2>3, <1>4, <1>5
  <2>4. CASE e \notin rows[s].staged
    <3>1. \A t \in SlotsOf(batch) : e \notin rows[t].staged
      BY <2>1, <2>2, <2>4, <1>6 DEF StoreInvariant, OwnersPart
    <3>2. \A j \in Ending(batch) : e \notin DOMAIN batch[j].content
      BY <2>1, <2>2, EndingFacts DEF StoreInvariant, OwnersPart
    <3>3. card[Data(e)] = rows[s].content[e]
      BY <2>1, <2>4 DEF BytesInvariant, RowsPart
    <3>4. QED  BY <2>1, <3>1, <3>2, <3>3, <1>4, <1>5
  <2>5. QED  BY <2>3, <2>4
<1>11. QED  BY <1>7, <1>8, <1>9, <1>10

\* A commit begins with a plan whose flush completes the bytes of its catalog.
LEMMA BeginBytes ==
    ASSUME StoreInvariant, StoreInvariant', BytesInvariant, NEW batch \in Batches, Begin(batch)
    PROVE  BytesInvariant'
<1>1. PICK next \in NextObject(batch) :
         /\ Accepts(batch, Merged(batch, next))
         /\ op' = [phase  |-> IF SlotsOf(batch) # {} \/ Ending(batch) # {} THEN "flush" ELSE "invalidate",
                   body   |-> Merged(batch, next),
                   freed  |-> [k \in DOMAIN batch |-> ResolvedFreed(k, batch[k])],
                   slots  |-> SlotsOf(batch),
                   writes |-> PayloadWrites(batch)]
  BY DEF Begin
<1> DEFINE body == Merged(batch, next)
<1>2. Live /\ served.mode # "Off" /\ UNCHANGED <<card, flash, served, used, rows, holds>>
  BY <1>1 DEF Begin, Accepts, Writable, Live
<1>3. /\ op'.body = body /\ op'.slots = SlotsOf(batch) /\ op'.writes = PayloadWrites(batch)
      /\ op'.phase = IF SlotsOf(batch) # {} \/ Ending(batch) # {} THEN "flush" ELSE "invalidate"
  BY <1>1
<1>4. op' \in Operation  BY <1>2, ServedFacts, BeginType DEF StoreInvariant
<1>5. Durable' = Durable /\ Live' = Live /\ TakenRows' = TakenRows /\ HeldKeys' = HeldKeys
  BY <1>2 DEF Durable, Live, TakenRows, HeldKeys
<1>6. body \in Catalog /\ StructureOk(body)
  BY <1>1, <1>3, <1>4, OpFields DEF Accepts
<1>7. Intact(card, Durable) /\ Intact(flash, Durable) /\ Unfilled(Durable)
  BY <1>2 DEF BytesInvariant, PayloadPart
<1>8. Unfilled(body)
  <2> SUFFICES ASSUME NEW k \in Present(body.entries), HoldsSlack(body.entries[k].flag)
               PROVE  DOMAIN body.entries[k].content = {}
    BY DEF Unfilled
  <2> DEFINE new == body.entries[k]
  <2>1. CarriesOn(batch, k, new) \/ EndsRide(batch, k, new) \/ Publishes(batch, k, new)
    BY <1>2, PayloadOrigins DEF Present
  <2> HIDE DEF body
  <2>2. CASE CarriesOn(batch, k, new)
    BY <2>2, <1>7 DEF CarriesOn, Unfilled, Present
  <2>3. CASE EndsRide(batch, k, new)  BY <2>3 DEF EndsRide, HoldsSlack
  <2>4. CASE Publishes(batch, k, new)  BY <2>4 DEF Publishes, NoContent
  <2>5. QED  BY <2>1, <2>2, <2>3, <2>4
<1>9. Intact(Put(card, PayloadWrites(batch)), body)  BY <1>2, <1>6, FlushedIsIntact
<1>10. ASSUME op'.phase # "flush" PROVE Intact(card, body) /\ Intact(flash, body)
  <2>1. SlotsOf(batch) = {} /\ Ending(batch) = {}  BY <1>3, <1>10
  <2>2. ASSUME NEW k \in Present(body.entries)
        PROVE  k \in Present(Durable.entries) /\ body.entries[k].content = Durable.entries[k].content
    BY <2>1, <1>2, PayloadOrigins DEF Present, CarriesOn, EndsRide, Publishes
  <2>3. QED  BY <2>2, <1>7 DEF Intact
<1> HIDE DEF body
<1>11. PayloadPart'
  BY <1>2, <1>3, <1>5, <1>7, <1>8, <1>9, <1>10 DEF PayloadPart
<1>12. FlushPart'
  <2>1. \A e : Data(e) \in DOMAIN PayloadWrites(batch) =>
           \/ \E s \in SlotsOf(batch) : e \in rows[s].staged
           \/ \E k \in Present(Durable.entries) :
                 Durable.entries[k].flag = "recording" /\ e \in Durable.entries[k].ranges
    <3>1. \A k \in Ending(batch) : \A e \in DOMAIN batch[k].content :
            /\ k \in Present(Durable.entries) /\ Durable.entries[k].flag = "recording"
            /\ e \in Durable.entries[k].ranges
      BY <1>2, EndingFacts
    <3>2. QED  BY <3>1, <1>2, FlushValues
  <2>2. QED  BY <2>1, <1>2, <1>3, <1>5 DEF FlushPart
<1>13. RowsPart' /\ PinnedPart'
  BY <1>2, <1>5 DEF BytesInvariant, RowsPart, PinnedPart
<1>14. QED  BY <1>11, <1>12, <1>13 DEF BytesInvariant

-----------------------------------------------------------------------------
(* The commands of a commit. *)

\* A command writes to no byte that is kept, and only the flush writes bytes at all.
LEMMA CommandSpares ==
    ASSUME StoreInvariant, BytesInvariant, InCommit(WritePhases),
           card' = Put(card, PhaseWrites) \/ RefusedWrite(PhaseWrites),
           NEW e \in Extents, Kept(e) \/ op.phase # "flush"
    PROVE  card'[Data(e)] = card[Data(e)]
<1>1. op # None /\ op.phase \in WritePhases  BY DEF InCommit
<1>2. Live /\ op \in Operation  BY <1>1, InProgress
<1>3. Data(e) \notin DOMAIN PhaseWrites
  <2>1. CASE op.phase = "flush"
    <3>1. PhaseWrites = op.writes  BY <2>1 DEF PhaseWrites
    <3>2. op.slots \subseteq TakenRows  BY <1>1 DEF StoreInvariant, PlanPart
    <3>3. Data(e) \in DOMAIN op.writes =>
            \/ \E s \in op.slots : e \in rows[s].staged
            \/ \E k \in Present(Durable.entries) :
                  Durable.entries[k].flag = "recording" /\ e \in Durable.entries[k].ranges
      BY <1>1 DEF BytesInvariant, FlushPart
    <3>4. \A s \in op.slots : e \notin rows[s].staged
      BY <2>1, <3>2, <1>2, RowIsOwn, RowExtents
    <3>5. QED  BY <2>1, <3>1, <3>3, <3>4, <1>2, RideIsOwn
  <2>2. CASE op.phase = "invalidate"
    <3>1. PhaseWrites = [c \in {Gate(Target)} |-> Ill]  BY <2>2 DEF PhaseWrites
    <3>2. QED  BY <3>1, DataCells
  <2>3. CASE op.phase = "body"
    <3>1. PhaseWrites = [c \in {Body(Target)} |-> op.body]  BY <2>3 DEF PhaseWrites
    <3>2. QED  BY <3>1, DataCells
  <2>4. CASE op.phase = "gate"
    <3>1. PhaseWrites = [c \in {Gate(Target)} |-> op.body]  BY <2>4 DEF PhaseWrites
    <3>2. QED  BY <3>1, DataCells
  <2>5. QED  BY <2>1, <2>2, <2>3, <2>4, <1>1 DEF WritePhases
<1>4. QED  BY <1>3, WriteSpares, DataCells

\* A landed command leaves the kept bytes alone; the flush completes the new catalog.
LEMMA CommitWriteBytes ==
    ASSUME StoreInvariant, BytesInvariant, CommitWrite
    PROVE  BytesInvariant'
<1>1. op # None /\ op.phase \in WritePhases /\ InCommit(WritePhases) /\ card' = Put(card, PhaseWrites)
  BY DEF CommitWrite, InCommit
<1>2. Live /\ op \in Operation /\ op.body \in Catalog /\ StructureOk(op.body)
  BY <1>1, InProgress DEF StoreInvariant, PlanPart
<1>3. /\ op'.phase = PhaseAfter(op.phase) /\ op'.body = op.body /\ op'.slots = op.slots
      /\ op'.writes = op.writes /\ UNCHANGED <<flash, served, rows, holds>>
  BY <1>2 DEF CommitWrite, Operation
<1>4. /\ op.phase = "flush" => op'.phase = "flush_sync"
      /\ op.phase # "flush" => op'.phase \notin {"flush", "flush_sync"}
  BY <1>1, <1>3 DEF PhaseAfter, WritePhases
<1>5. Durable' = Durable /\ Live' /\ served'.mode # "Off"
  BY <1>2, <1>3 DEF Durable, Live
<1>6. \A e \in Extents : Kept(e) => card'[Data(e)] = card[Data(e)]  BY <1>1, CommandSpares
<1>7. Intact(card', Durable) /\ Intact(flash', Durable) /\ Unfilled(Durable) /\ RowsPart' /\ PinnedPart'
  BY <1>2, <1>3, <1>5, <1>6, KeptBytes
<1>8. Intact(card', op.body)
  <2>1. CASE op.phase = "flush"
    <3>1. PhaseWrites = op.writes  BY <2>1 DEF PhaseWrites
    <3>2. Intact(Put(card, op.writes), op.body)  BY <2>1, <1>1 DEF BytesInvariant, PayloadPart
    <3>3. QED  BY <3>1, <3>2, <1>1
  <2>2. CASE op.phase # "flush"
    <3>1. Intact(card, op.body)  BY <2>2, <1>1 DEF BytesInvariant, PayloadPart
    <3>2. \A e \in Extents : card'[Data(e)] = card[Data(e)]  BY <2>2, <1>1, CommandSpares
    <3>3. \A k \in Present(op.body.entries) : DOMAIN op.body.entries[k].content \subseteq Extents
      BY <1>2, EntryExtents
    <3>4. QED  BY <3>1, <3>2, <3>3 DEF Intact
  <2>3. QED  BY <2>1, <2>2
<1>9. Unfilled(op.body) /\ (op.phase # "flush" => Intact(flash, op.body))
  BY <1>1 DEF BytesInvariant, PayloadPart, WritePhases
<1>10. PayloadPart'
  BY <1>3, <1>4, <1>5, <1>7, <1>8, <1>9 DEF PayloadPart
<1>11. FlushPart'
  BY <1>1, <1>3, <1>5 DEF BytesInvariant, FlushPart
<1>12. QED  BY <1>7, <1>10, <1>11 DEF BytesInvariant

\* A synchronization makes durable what the card already has.
LEMMA CommitSyncBytes ==
    ASSUME StoreInvariant, BytesInvariant, CommitSync
    PROVE  BytesInvariant'
<1>1. op # None /\ op.phase \in SyncPhases \ {"gate_sync"}  BY DEF CommitSync, InCommit
<1>2. Live /\ op \in Operation  BY <1>1, InProgress
<1>3. /\ op'.phase = PhaseAfter(op.phase) /\ op'.body = op.body /\ op'.slots = op.slots
      /\ op'.writes = op.writes /\ flash' = card /\ UNCHANGED <<card, served, rows, holds>>
  BY <1>2 DEF CommitSync, Operation
<1>4. op'.phase # "flush" /\ op.phase # "flush"  BY <1>1, <1>3 DEF PhaseAfter, SyncPhases
<1>5. Durable' = Durable /\ Live' /\ served'.mode # "Off"
  BY <1>2, <1>3 DEF Durable, Live, StoreInvariant, ServedPart
<1>6. Intact(card, Durable) /\ Unfilled(Durable) /\ Unfilled(op.body) /\ Intact(card, op.body)
  BY <1>1, <1>2, <1>4 DEF BytesInvariant, PayloadPart
<1>7. PayloadPart'  BY <1>3, <1>4, <1>5, <1>6 DEF PayloadPart
<1>8. FlushPart'  BY <1>1, <1>3, <1>5 DEF BytesInvariant, FlushPart
<1>9. RowsPart' /\ PinnedPart'
  BY <1>2, <1>3, <1>5 DEF BytesInvariant, RowsPart, PinnedPart, TakenRows, HeldKeys
<1>10. QED  BY <1>7, <1>8, <1>9 DEF BytesInvariant

\* A refused command leaves the kept bytes of the card alone, and on the medium only what
\* was there or what the card has.
LEMMA RefusedBytes ==
    ASSUME StoreInvariant, BytesInvariant, op # None, RefusedCommand, Live', served'.mode # "Off",
           UNCHANGED <<rows, holds>>, Durable' = Durable
    PROVE  /\ Intact(card', Durable) /\ Intact(flash', Durable) /\ Unfilled(Durable)
           /\ RowsPart' /\ PinnedPart'
           /\ op.phase \in {"gate", "gate_sync"} => Intact(card', op.body) /\ Intact(flash', op.body)
<1>1. Live /\ op \in Operation /\ op.body \in Catalog /\ StructureOk(op.body)
  BY InProgress DEF StoreInvariant, PlanPart
<1>2. Durable \in Catalog /\ StructureOk(Durable)  BY <1>1, ServedFacts
<1>3. Intact(card, Durable) /\ Intact(flash, Durable) /\ Unfilled(Durable)
  BY <1>1 DEF BytesInvariant, PayloadPart
<1>4. op.phase \in {"gate", "gate_sync"} => Intact(card, op.body) /\ Intact(flash, op.body)
  BY DEF BytesInvariant, PayloadPart
<1>5. CASE InCommit(WritePhases) /\ RefusedWrite(PhaseWrites) /\ UNCHANGED flash
  <2>1. \A e \in Extents : Kept(e) => card'[Data(e)] = card[Data(e)]  BY <1>5, CommandSpares
  <2>2. /\ Intact(card', Durable) /\ Intact(flash', Durable) /\ Unfilled(Durable)
        /\ RowsPart' /\ PinnedPart'
    BY <2>1, <1>1, <1>5, KeptBytes
  <2>3. op.phase \in {"gate", "gate_sync"} => Intact(card', op.body)
    <3>1. op.phase \in {"gate", "gate_sync"} => \A e \in Extents : card'[Data(e)] = card[Data(e)]
      BY <1>5, CommandSpares
    <3>2. \A k \in Present(op.body.entries) : DOMAIN op.body.entries[k].content \subseteq Extents
      BY <1>1, EntryExtents
    <3>3. QED  BY <3>1, <3>2, <1>4 DEF Intact
  <2>4. QED  BY <2>2, <2>3, <1>4, <1>5
<1>6. CASE InCommit(SyncPhases) /\ RefusedSync /\ UNCHANGED card
  <2>1. \A c \in Cells : card[c] = flash[c] => flash'[c] = flash[c]  BY <1>6, SyncEffect
  <2>2. Intact(flash', Durable)  BY <2>1, <1>2, <1>3, IntactOnBoth
  <2>3. op.phase \in {"gate", "gate_sync"} => Intact(flash', op.body)
    BY <2>1, <1>1, <1>4, IntactOnBoth
  <2>4. RowsPart' /\ PinnedPart'
    BY <1>1, <1>6 DEF BytesInvariant, RowsPart, PinnedPart, TakenRows, HeldKeys
  <2>5. QED  BY <2>2, <2>3, <2>4, <1>3, <1>4, <1>6
<1>7. QED  BY <1>5, <1>6 DEF RefusedCommand

\* A commit that ends in an error takes no byte with it.
LEMMA CommitErrorBytes ==
    ASSUME StoreInvariant, BytesInvariant, CommitError
    PROVE  BytesInvariant'
<1>1. op # None /\ RefusedCommand /\ op' = None /\ UNCHANGED <<served, rows, holds>>
  BY DEF CommitError
<1>2. Live  BY <1>1, InProgress
<1>3. Live' /\ served'.mode # "Off"  BY <1>1, <1>2 DEF Live
<1>4. Durable' = Durable  BY <1>1, RefusedEffect DEF Durable
<1>5. QED  BY <1>1, <1>3, <1>4, RefusedBytes, NoCommitBytes

\* A commit without an answer has the bytes of both catalogs on the medium.
LEMMA CommitUncertainBytes ==
    ASSUME StoreInvariant, BytesInvariant, CommitUncertain
    PROVE  BytesInvariant'
<1>1. op # None /\ op.phase \in {"gate", "gate_sync"} /\ RefusedCommand /\ UNCHANGED <<rows, holds>>
  BY DEF CommitUncertain, InCommit
<1>2. Live /\ op \in Operation  BY <1>1, InProgress
<1>3. /\ op'.phase = "uncertain" /\ op'.body = op.body /\ op'.slots = op.slots /\ op'.writes = op.writes
  BY <1>2 DEF CommitUncertain, Operation
<1>4. served \in ServedType  BY TypeParts DEF StoreInvariant
<1>5. served'.mode = "RemountRequired" /\ served'.copy = served.copy
  BY <1>4 DEF CommitUncertain, ServedType
<1>6. Live' /\ served'.mode # "Off" /\ Durable' = Durable
  BY <1>1, <1>5, RefusedEffect DEF Durable, Live
<1>7. /\ Intact(card', Durable) /\ Intact(flash', Durable) /\ Unfilled(Durable)
      /\ RowsPart' /\ PinnedPart' /\ Intact(card', op.body) /\ Intact(flash', op.body)
  BY <1>1, <1>6, RefusedBytes
<1>8. Unfilled(op.body)  BY <1>1 DEF BytesInvariant, PayloadPart
<1>9. PayloadPart'  BY <1>3, <1>6, <1>7, <1>8 DEF PayloadPart
<1>10. FlushPart'  BY <1>1, <1>3, <1>6 DEF BytesInvariant, FlushPart
<1>11. QED  BY <1>7, <1>9, <1>10 DEF BytesInvariant

\* The new catalog was intact before its gate; no reader of a ride has seen a byte of it.
LEMMA CommitPublishBytes ==
    ASSUME StoreInvariant, KeysInvariant, BytesInvariant, CommitPublish
    PROVE  BytesInvariant'
<1>1. op # None /\ op.phase = "gate_sync"  BY DEF CommitPublish, InCommit
<1>2. Live /\ op \in Operation  BY <1>1, InProgress
<1>3. served.mode = "ReadWrite" /\ card[Gate(Target)] = op.body
  BY <1>1 DEF StoreInvariant, PhasePart
<1>4. /\ served'.mode \in {"ReadWrite", "SequenceSpaceExhausted"} /\ served'.copy = Target
      /\ op' = None /\ flash' = card /\ UNCHANGED <<card, holds>>
      /\ rows' = [s \in Slots |-> IF s \in op.slots THEN None ELSE rows[s]]
  BY <1>3 DEF CommitPublish
<1>5. Durable' = op.body /\ Live'  BY <1>3, <1>4 DEF Durable, Live
<1>6. Intact(card, op.body) /\ Unfilled(op.body)  BY <1>1 DEF BytesInvariant, PayloadPart
<1>7. RowsPart'
  <2>1. \A s \in TakenRows' : s \in TakenRows /\ rows'[s] = rows[s]  BY <1>4 DEF TakenRows
  <2>2. QED  BY <2>1, <1>2, <1>4 DEF BytesInvariant, RowsPart
<1>8. PinnedPart'
  <2>1. \A k \in HeldKeys : op.body.entries[k] # None /\ op.body.entries[k].flag = "recording" =>
           DOMAIN holds[k].content = {}
    <3> SUFFICES ASSUME NEW k \in HeldKeys, op.body.entries[k] # None, op.body.entries[k].flag = "recording"
                 PROVE  DOMAIN holds[k].content = {}
      OBVIOUS
    <3>1. k \in Keys  BY DEF HeldKeys
    <3>2. Durable.entries[k] # None  BY <3>1, <1>1, CreatedIsNotHeld
    <3>3. Durable.entries[k].flag = "recording"
      BY <3>1, <3>2, <1>1 DEF KeysInvariant, KeysPart
    <3>4. QED  BY <3>2, <3>3, <1>2 DEF BytesInvariant, PinnedPart
  <2>2. HeldKeys' = HeldKeys  BY <1>4 DEF HeldKeys
  <2>3. QED  BY <2>1, <2>2, <1>2, <1>4, <1>5 DEF BytesInvariant, PinnedPart
<1>9. QED  BY <1>4, <1>5, <1>6, <1>7, <1>8, NoCommitBytes

-----------------------------------------------------------------------------
(* Readers, power and mount. *)

\* A step of a reader leaves card, rows and the commit alone.
LEMMA ReaderBytes ==
    ASSUME BytesInvariant, PinnedPart', UNCHANGED <<card, flash, served, rows, op>>
    PROVE  BytesInvariant'
<1>1. Durable' = Durable /\ Live' = Live /\ Truth' = Truth /\ TakenRows' = TakenRows
  BY DEF Durable, Live, Truth, TakenRows
<1>2. PayloadPart'  BY <1>1 DEF BytesInvariant, PayloadPart
<1>3. FlushPart' /\ RowsPart'  BY <1>1 DEF BytesInvariant, FlushPart, RowsPart
<1>4. QED  BY <1>2, <1>3 DEF BytesInvariant

\* open reads the bytes of an entry that is intact.
LEMMA OpenBytes ==
    ASSUME StoreInvariant, KeysInvariant, BytesInvariant, NEW k \in Keys, Open(k)
    PROVE  BytesInvariant'
<1> DEFINE entry == Durable.entries[k]
<1>1. Live  BY DEF Open, Readable, Live
<1>2. Durable \in Catalog /\ Serving = Durable /\ StructureOk(Durable)  BY <1>1, ServedFacts
<1>3. k \in Present(Durable.entries) /\ entry # None  BY <1>2 DEF Open, Present
<1>4. UNCHANGED <<card, flash, served, rows, op>>  BY DEF Open
<1>5. Durable' = Durable /\ Live'  BY <1>1, <1>4 DEF Durable, Live
<1>6. holds \in [Keys -> Hold]  BY TypeParts DEF StoreInvariant
<1>7. /\ DOMAIN entry.content \subseteq entry.ranges
      /\ \A e \in DOMAIN entry.content : card[Data(e)] = entry.content[e]
      /\ entry.flag = "recording" => DOMAIN entry.content = {}
  BY <1>1, <1>2, <1>3, EntryExtents DEF BytesInvariant, PayloadPart, Intact, Unfilled, HoldsSlack
<1>8. /\ \A l \in Keys : l # k => holds'[l] = holds[l]
      /\ \/ /\ k \in HeldKeys /\ holds'[k].ranges = holds[k].ranges
            /\ holds'[k].content \in {holds[k].content, entry.content}
         \/ holds'[k].ranges = entry.ranges /\ holds'[k].content = entry.content
  <2>1. CASE holds[k].readers > 0
    BY <2>1, <1>2, <1>6 DEF Open, HeldKeys, Hold
  <2>2. CASE ~(holds[k].readers > 0)
    BY <2>2, <1>2, <1>6 DEF Open, HeldKeys, Hold
  <2>3. QED  BY <2>1, <2>2
<1>9. k \in HeldKeys => /\ entry.ranges \subseteq holds[k].ranges
                        /\ DOMAIN holds[k].content \subseteq holds[k].ranges
                        /\ \A e \in DOMAIN holds[k].content : card[Data(e)] = holds[k].content[e]
                        /\ entry.flag = "recording" => DOMAIN holds[k].content = {}
  BY <1>1, <1>3 DEF KeysInvariant, HeldPart, BytesInvariant, PinnedPart
<1>10. /\ DOMAIN holds'[k].content \subseteq holds'[k].ranges
       /\ \A e \in DOMAIN holds'[k].content : card[Data(e)] = holds'[k].content[e]
       /\ entry.flag = "recording" => DOMAIN holds'[k].content = {}
  BY <1>7, <1>8, <1>9
<1>11. \A l \in HeldKeys' : l = k \/ (l \in HeldKeys /\ holds'[l] = holds[l])
  BY <1>8 DEF HeldKeys
<1>12. PinnedPart'
  BY <1>1, <1>4, <1>5, <1>10, <1>11 DEF BytesInvariant, PinnedPart
<1>13. QED  BY <1>4, <1>12, ReaderBytes

\* close and the listings write nothing.
LEMMA OtherReaderBytes ==
    ASSUME StoreInvariant, BytesInvariant, (\E k \in Keys : Close(k)) \/ ListStart \/ ListEnd
    PROVE  BytesInvariant'
<1>1. UNCHANGED <<card, flash, served, rows, op>>  BY DEF Close, ListStart, ListEnd
<1>2. Durable' = Durable /\ Live' = Live  BY <1>1 DEF Durable, Live
<1>3. holds \in [Keys -> Hold]  BY TypeParts DEF StoreInvariant
<1>4. \A l \in HeldKeys' : l \in HeldKeys /\ holds'[l].ranges = holds[l].ranges
                                          /\ holds'[l].content = holds[l].content
  <2>1. ASSUME NEW k \in Keys, Close(k)
        PROVE  \A l \in HeldKeys' : l \in HeldKeys /\ holds'[l].ranges = holds[l].ranges
                                                   /\ holds'[l].content = holds[l].content
    <3>1. CASE holds[k].readers > 1
      BY <2>1, <3>1, <1>3 DEF Close, HeldKeys, Hold
    <3>2. CASE ~(holds[k].readers > 1)
      BY <2>1, <3>2, <1>3 DEF Close, HeldKeys, NoHold
    <3>3. QED  BY <3>1, <3>2
  <2>2. CASE ListStart \/ ListEnd  BY <2>2 DEF ListStart, ListEnd, HeldKeys
  <2>3. QED  BY <2>1, <2>2
<1>5. PinnedPart'  BY <1>1, <1>2, <1>4 DEF BytesInvariant, PinnedPart
<1>6. QED  BY <1>1, <1>5, ReaderBytes

\* What a mount could find on a medium that keeps every cell which card and flash agree on:
\* the served catalog, or the one of a commit whose gate has been written.
LEMMA MediumTruth ==
    ASSUME StoreInvariant, Live, NEW m,
           \A c \in Cells : /\ m[c] \in {Ill, card[c], flash[c]}
                            /\ card[c] = flash[c] => m[c] = flash[c],
           NEW c \in Selected(m, Copies, Copies)
    PROVE  \/ m[Gate(c)] = Durable
           \/ op # None /\ op.phase \in {"gate_sync", "uncertain"} /\ m[Gate(c)] = op.body
<1>1. c \in Copies /\ Loads(m, c) /\ m[Gate(c)] # Ill
  BY DEF Selected, Selectable, WellFormed
<1>2. CASE c = served.copy
  BY <1>2, FourCells DEF StoreInvariant, ServedPart, Durable
<1>3. CASE c # served.copy
  <2>1. c = Target /\ served.copy \in Copies  BY <1>1, <1>3, ServedFacts DEF Target, Copies
  <2>2. /\ m[Gate(served.copy)] = Durable /\ m[Body(served.copy)] = Durable
        /\ Loads(flash, served.copy) /\ Durable.sequence = served.sequence
    BY FourCells DEF StoreInvariant, ServedPart, Durable, Loads
  <2>3. Loads(m, served.copy)  BY <2>2 DEF Loads, Durable
  <2>4. m[Gate(Target)].sequence >= served.sequence
    <3>1. served.copy \in Selectable(m, Copies, Copies)
      BY <2>1, <2>3 DEF Selected, Selectable, WellFormed, Loads
    <3>2. QED  BY <2>1, <2>2, <3>1 DEF Selected
  <2>5. CASE op = None \/ op.phase \in {"flush", "flush_sync", "invalidate", "invalidate_sync"}
    <3>1. m[Gate(Target)] = flash[Gate(Target)] /\ flash[Gate(Target)] # Ill
      BY <2>1, <2>5, <1>1, FourCells DEF StoreInvariant, OutrankedPart
    <3>2. m[Body(Target)] = flash[Body(Target)]
      BY <2>5, <3>1, FourCells DEF StoreInvariant, OutrankedPart
    <3>3. Loads(flash, Target)  BY <3>1, <3>2, <2>1, <1>1 DEF Loads
    <3>4. flash[Gate(Target)].sequence < served.sequence
      BY <2>5, <3>1, <3>3 DEF StoreInvariant, OutrankedPart
    <3>5. served.sequence \in Nat /\ flash[Gate(Target)].sequence \in Nat
      BY <3>1, ServedFacts, TypeParts, GateType, ConstantsAssumption DEF StoreInvariant, ServedType, Catalog
    <3>6. QED  BY <2>4, <3>1, <3>4, <3>5
  <2>6. CASE op # None /\ op.phase \in {"body", "body_sync", "gate", "gate_sync", "uncertain"}
    <3>1. /\ op.phase \in {"body", "body_sync", "gate"} => card[Gate(Target)] = Ill /\ flash[Gate(Target)] = Ill
          /\ {card[Gate(Target)], flash[Gate(Target)]} \subseteq {Ill, op.body}
      BY <2>6 DEF StoreInvariant, PhasePart
    <3>2. QED  BY <2>1, <2>6, <3>1, <1>1, FourCells
  <2>7. op # None => op.phase \in WritePhases \cup SyncPhases \cup {"uncertain"}
    BY InProgress, OpFields
  <2>8. QED  BY <2>5, <2>6, <2>7 DEF WritePhases, SyncPhases
<1>4. QED  BY <1>2, <1>3

\* What power leaves is intact whichever catalog the next mount finds.
LEMMA CutBytes ==
    ASSUME StoreInvariant, BytesInvariant, Cut
    PROVE  BytesInvariant'
<1>1. Live  BY MountedIsLive DEF Cut
<1>2. PICK kept \in SUBSET Dirty, torn \in SUBSET Dirty :
        flash' = [c \in Cells |-> IF c \in torn THEN Ill ELSE IF c \in kept THEN card[c] ELSE flash[c]]
  BY DEF Cut
<1>3. \A c \in Cells : /\ flash'[c] \in {Ill, card[c], flash[c]}
                       /\ card[c] = flash[c] => flash'[c] = flash[c]
  BY <1>2 DEF Dirty
<1>4. Durable \in Catalog /\ StructureOk(Durable)  BY <1>1, ServedFacts
<1>5. op # None => op.body \in Catalog /\ StructureOk(op.body)
  BY InProgress DEF StoreInvariant, PlanPart
<1>6. ASSUME NEW t \in Truth' PROVE Intact(flash', t) /\ Unfilled(t)
  <2>1. PICK c \in Selected(flash', Copies, Copies) : t = flash'[Gate(c)]  BY <1>6 DEF Truth
  <2>2. \/ t = Durable
        \/ op # None /\ op.phase \in {"gate_sync", "uncertain"} /\ t = op.body
    BY <2>1, <1>1, <1>3, MediumTruth
  <2>3. CASE t = Durable
    <3>1. Intact(card, Durable) /\ Intact(flash, Durable) /\ Unfilled(Durable)
      BY <1>1 DEF BytesInvariant, PayloadPart
    <3>2. QED  BY <2>3, <3>1, <1>3, <1>4, IntactOnBoth
  <2>4. CASE op # None /\ op.phase \in {"gate_sync", "uncertain"} /\ t = op.body
    <3>1. Intact(card, op.body) /\ Intact(flash, op.body) /\ Unfilled(op.body)
      BY <2>4 DEF BytesInvariant, PayloadPart
    <3>2. QED  BY <2>4, <3>1, <1>3, <1>5, IntactOnBoth
  <2>5. QED  BY <2>2, <2>3, <2>4
<1>7. op' = None /\ ~Live'  BY DEF Cut, Unmounted, Live
<1>8. PayloadPart'  BY <1>6, <1>7 DEF PayloadPart
<1>9. QED  BY <1>7, <1>8 DEF BytesInvariant, FlushPart, RowsPart, PinnedPart

\* A mount serves one of the catalogs that the medium holds, all of them intact.
LEMMA MountBytes ==
    ASSUME StoreInvariant, StoreInvariant', BytesInvariant, Mount, "mount_read" \notin Faults
    PROVE  BytesInvariant'
<1>1. /\ served.mode = "Off" /\ UNCHANGED <<card, flash, rows, holds, op, listing>>  BY DEF Mount
<1>2. op = None /\ TakenRows = {} /\ HeldKeys = {} /\ Truth # {} /\ card = flash
  BY <1>1 DEF StoreInvariant, OffPart
<1>3. Selected(card, Copies, Copies) # {}  BY <1>2 DEF Truth
<1>4. PICK c, high : /\ c \in Selected(card, Copies, Copies)
                     /\ served' = [mode |-> IF high = MaxSequence THEN "SequenceSpaceExhausted" ELSE "ReadWrite",
                                   copy |-> c, sequence |-> card[Gate(c)].sequence,
                                   high |-> high, next |-> card[Gate(c)].next]
  BY <1>3 DEF Mount, Readings
<1>5. Live' /\ Durable' = flash[Gate(c)]  BY <1>1, <1>4 DEF Live, Durable
<1>6. Durable' \in Truth  BY <1>2, <1>4, <1>5 DEF Truth
<1>7. Intact(card', Durable') /\ Intact(flash', Durable') /\ Unfilled(Durable')
  BY <1>1, <1>2, <1>6 DEF BytesInvariant, PayloadPart
<1>8. TakenRows' = {} /\ HeldKeys' = {}  BY <1>1, <1>2 DEF TakenRows, HeldKeys
<1>9. RowsPart' /\ PinnedPart'  BY <1>8 DEF RowsPart, PinnedPart
<1>10. QED  BY <1>1, <1>2, <1>5, <1>7, <1>9, NoCommitBytes

-----------------------------------------------------------------------------
(* The theorems. *)

\* A mount can read the card, and the medium does not lose a body by itself: the copy
\* that a rotten body leaves in force may name extents which have been reused since.
SoundMedium == {"mount_read", "rot"} \cap Faults = {}

\* Every step of the store keeps the bytes it has promised.
LEMMA NextBytes ==
    ASSUME StoreInvariant, StoreInvariant', KeysInvariant, BytesInvariant, [Next]_vars, SoundMedium
    PROVE  BytesInvariant'
<1>1. CASE UNCHANGED vars
  BY <1>1 DEF vars, BytesInvariant, PayloadPart, FlushPart, RowsPart, PinnedPart, Live, Durable,
     Truth, TakenRows, HeldKeys
<1>2. CASE Commit
  BY <1>2, BeginBytes, CommitWriteBytes, CommitSyncBytes, CommitPublishBytes, CommitErrorBytes,
     CommitUncertainBytes DEF Commit
<1>3. CASE Reserve
  BY <1>3, TableBytes, WriteBytes, SealBytes DEF Reserve
<1>4. CASE Read
  BY <1>4, OpenBytes, OtherReaderBytes DEF Read
<1>5. CASE Mount  BY <1>5, MountBytes DEF SoundMedium
<1>6. CASE Cut  BY <1>6, CutBytes
<1>7. CASE \E c \in Copies : Rot(c)  BY <1>7 DEF Rot, SoundMedium
<1>8. QED  BY <1>1, <1>2, <1>3, <1>4, <1>5, <1>6, <1>7 DEF Next

\* Bytes come before the gate that names them, and stay while anybody may read them:
\* BytesInvariant holds in every reachable state of a store on a sound medium.
THEOREM BytesAreInvariant ==
    ASSUME SoundMedium
    PROVE  Spec => [](StoreInvariant /\ KeysInvariant /\ BytesInvariant)
<1>1. Init => BytesInvariant
  <2> SUFFICES ASSUME Init PROVE BytesInvariant  OBVIOUS
  <2>1. op = None /\ ~Live /\ flash = EmptyCard  BY DEF Init, Live, Unmounted
  <2>2. \A t \in Truth : t = EmptyCatalog
    <3>1. Gate(0) \in Cells /\ Gate(1) \in Cells  BY CellKinds DEF Copies
    <3>2. EmptyCard[Gate(0)] = EmptyCatalog /\ EmptyCard[Gate(1)] = Ill
      BY <3>1 DEF EmptyCard, Gate, Body
    <3>3. \A c \in Selected(flash, Copies, Copies) : c \in Copies /\ flash[Gate(c)] # Ill
      BY DEF Selected, Selectable, WellFormed
    <3>4. QED  BY <2>1, <3>2, <3>3 DEF Truth, Copies
  <2>3. Present(EmptyCatalog.entries) = {}  BY DEF Present, EmptyCatalog
  <2>4. PayloadPart  BY <2>1, <2>2, <2>3 DEF PayloadPart, Intact, Unfilled
  <2>5. QED  BY <2>1, <2>4 DEF BytesInvariant, FlushPart, RowsPart, PinnedPart
<1>2. Init => KeysInvariant  BY InitKeys
<1>3. StoreInvariant /\ KeysInvariant /\ BytesInvariant /\ [Next]_vars =>
        StoreInvariant' /\ KeysInvariant' /\ BytesInvariant'
  BY NextInvariant, NextKeys, NextBytes DEF SoundMedium
<1>4. QED  BY <1>1, <1>2, <1>3, InitInvariant, PTL DEF Spec

\* Whatever was cut, torn or refused, every byte that the catalog of the next mount names
\* is on the medium (§5.5).
THEOREM StorePayloadIntact ==
    ASSUME SoundMedium
    PROVE  Spec => []CommittedPayloadIntact
<1>1. StoreInvariant /\ BytesInvariant => CommittedPayloadIntact
  <2> SUFFICES ASSUME StoreInvariant, BytesInvariant, NEW t \in Truth PROVE Intact(flash, t)
    BY DEF CommittedPayloadIntact, Intact
  <2>1. CASE served.mode = "Off"  BY <2>1 DEF BytesInvariant, PayloadPart
  <2>2. CASE served.mode # "Off"
    <3>1. Live  BY <2>2, MountedIsLive
    <3>2. PICK c \in Selected(flash, Copies, Copies) : t = flash[Gate(c)]  BY DEF Truth
    <3>3. t = Durable \/ (op # None /\ op.phase \in {"gate_sync", "uncertain"} /\ t = op.body)
      BY <3>1, <3>2, MediumTruth
    <3>4. QED  BY <3>1, <3>3 DEF BytesInvariant, PayloadPart
  <2>3. QED  BY <2>1, <2>2
<1>2. QED  BY <1>1, BytesAreInvariant, PTL

\* An open handle keeps reading the bytes it resolved, across commits that remove or trim
\* its entry, across rides that end and across a fenced mount (§6.2).
THEOREM StorePinnedBytesStable ==
    ASSUME SoundMedium
    PROVE  Spec => []PinnedBytesStable
<1>1. StoreInvariant /\ BytesInvariant => PinnedBytesStable
  <2> SUFFICES ASSUME StoreInvariant, BytesInvariant, NEW k \in HeldKeys, NEW e \in DOMAIN holds[k].content
               PROVE  card[Data(e)] = holds[k].content[e]
    BY DEF PinnedBytesStable, HeldKeys
  <2>1. Live
    <3>1. served.mode # "Off"  BY DEF StoreInvariant, OffPart
    <3>2. QED  BY <3>1, MountedIsLive
  <2>2. QED  BY <2>1 DEF BytesInvariant, PinnedPart
<1>2. QED  BY <1>1, BytesAreInvariant, PTL

-----------------------------------------------------------------------------
(* The alternating copies implement the one atomically replaced catalog of AtomicCatalog. *)

\* The refinement mapping, under names of its own.
TheTruth   == IF Truth = {} THEN None ELSE CHOOSE t \in Truth : TRUE
TheView    == IF Readable THEN Serving ELSE None
ThePending == IF op = None THEN None ELSE op.body

RefinementInvariant == StoreInvariant /\ KeysInvariant /\ DecidedPart

-----------------------------------------------------------------------------
(* Only one catalog can be the truth. *)

\* bring_up never has to choose: two gates of one sequence make no copy selectable.
LEMMA TruthIsOne ==
    ASSUME TypeOK, NEW s \in Truth, NEW t \in Truth
    PROVE  s = t
<1>1. PICK c \in Selected(flash, Copies, Copies) : s = flash[Gate(c)]  BY DEF Truth
<1>2. PICK d \in Selected(flash, Copies, Copies) : t = flash[Gate(d)]  BY DEF Truth
<1>3. /\ c \in Selectable(flash, Copies, Copies) /\ d \in Selectable(flash, Copies, Copies)
      /\ s.sequence >= t.sequence /\ t.sequence >= s.sequence
  BY <1>1, <1>2 DEF Selected
<1>4. c \in WellFormed(flash, Copies) /\ d \in WellFormed(flash, Copies)
  BY <1>3 DEF Selectable
<1>5. s \in Catalog /\ t \in Catalog
  BY <1>1, <1>2, <1>4, TypeParts, GateType DEF WellFormed
<1>6. s.sequence = t.sequence
  <2>1. s.sequence \in Int /\ t.sequence \in Int  BY <1>5, ConstantsAssumption DEF Catalog
  <2>2. QED  BY <2>1, <1>3
<1>7. CASE c = d  BY <1>7, <1>1, <1>2
<1>8. CASE c # d
  BY <1>8, <1>1, <1>2, <1>3, <1>4, <1>6 DEF Selectable
<1>9. QED  BY <1>7, <1>8

\* What is known to be in Truth is the truth.
LEMMA TruthIs ==
    ASSUME TypeOK, NEW t \in Truth
    PROVE  TheTruth = t
<1>1. (CHOOSE s \in Truth : TRUE) \in Truth  OBVIOUS
<1>2. QED  BY <1>1, TruthIsOne DEF TheTruth

\* What the mapping yields while the store serves.
TruthServed == TheTruth = Durable /\ TheView = Durable /\ Durable \in Catalog /\ Durable # None

\* A store that serves, serves the truth.
LEMMA ReadableTruth == StoreInvariant /\ Readable => TruthServed
<1> SUFFICES ASSUME StoreInvariant, Readable PROVE TruthServed  OBVIOUS
<1>1. Live  BY DEF Readable, Live
<1>2. Durable \in Catalog /\ Serving = Durable  BY <1>1, ServedFacts
<1>3. Durable \in Truth  BY ServedIsSelected DEF Truth, Durable
<1>4. TypeOK  BY DEF StoreInvariant
<1>5. QED  BY <1>2, <1>3, <1>4, TruthIs, NoneAssumption DEF TheView, TruthServed

\* The same of the state after a step.
LEMMA NextReadableTruth == StoreInvariant' /\ Readable' => TruthServed'
  BY ReadableTruth, PTL

\* A commit in progress has a body, which is no placeholder.
LEMMA PendingIs ==
    ASSUME StoreInvariant, op # None
    PROVE  ThePending = op.body /\ op.body # None /\ op.body \in Catalog
  BY InProgress, NoneAssumption DEF ThePending

\* The same of a commit that the step has begun or goes on with.
BodyPending == op # None => ThePending = op.body /\ op.body # None /\ op.body \in Catalog

\* The batch in progress after a step is the one its commit carries.
LEMMA NextPending == StoreInvariant' => BodyPending'
<1>1. StoreInvariant => BodyPending  BY PendingIs DEF BodyPending
<1>2. QED  BY <1>1, PTL

-----------------------------------------------------------------------------
(* A fenced commit is decided. *)

\* Only the refused gate or its refused synchronization begins a fence, and in a fence
\* nothing is written or synchronized.
LEMMA NextDecided ==
    ASSUME StoreInvariant, DecidedPart, [Next]_vars, SoundMedium
    PROVE  DecidedPart'
<1>1. CASE UNCHANGED <<card, flash, served, op>>
  BY <1>1 DEF DecidedPart, Target
<1>2. CASE op' = None  BY <1>2 DEF DecidedPart
<1>3. CASE \E batch \in Batches : Begin(batch)
  <2>1. op'.phase \in {"flush", "invalidate"}  BY <1>3 DEF Begin
  <2>2. QED  BY <2>1 DEF DecidedPart
<1>4. CASE CommitWrite \/ CommitSync
  <2>1. op # None /\ op \in Operation /\ op.phase \in (WritePhases \cup SyncPhases) \ {"gate_sync"}
    BY <1>4, InProgress DEF CommitWrite, CommitSync, InCommit, WritePhases, SyncPhases
  <2>2. op'.phase = PhaseAfter(op.phase)
    BY <1>4, <2>1 DEF CommitWrite, CommitSync, Operation
  <2>3. op'.phase # "uncertain"
    BY <2>1, <2>2 DEF PhaseAfter, WritePhases, SyncPhases
  <2>4. QED  BY <2>3 DEF DecidedPart
<1>5. CASE CommitUncertain
  <2>1. op # None /\ op.phase \in {"gate", "gate_sync"} /\ RefusedCommand
    BY <1>5 DEF CommitUncertain, InCommit
  <2>2. flash[Gate(Target)] = Ill  BY <2>1 DEF StoreInvariant, PhasePart
  <2>3. served \in ServedType  BY TypeParts DEF StoreInvariant
  <2>4. Target' = Target  BY <1>5, <2>3 DEF CommitUncertain, ServedType, Target
  <2>5. flash'[Gate(Target)] \in {Ill, card'[Gate(Target)]}
    BY <2>1, <2>2, RefusedEffect
  <2>6. QED  BY <2>4, <2>5 DEF DecidedPart
<1>6. CASE Reserve
  <2>1. op = None /\ op' = op  BY <1>6 DEF Reserve, Allocate, Write, Seal, Cancel
  <2>2. QED  BY <2>1 DEF DecidedPart
<1>7. CASE Read
  BY <1>1, <1>7 DEF Read, Open, Close, ListStart, ListEnd
<1>8. CASE Mount
  <2>1. op' = None  BY <1>8 DEF Mount, StoreInvariant, OffPart
  <2>2. QED  BY <2>1 DEF DecidedPart
<1>9. CASE UNCHANGED vars  BY <1>1, <1>9 DEF vars
<1>10. QED
  BY <1>2, <1>3, <1>4, <1>5, <1>6, <1>7, <1>8, <1>9
     DEF Next, Commit, CommitPublish, CommitError, Cut, Rot, SoundMedium

-----------------------------------------------------------------------------
(* The steps that the abstract catalog does not see. *)

\* Nothing the mapping reads has changed.
LEMMA QuietStutter ==
    ASSUME UNCHANGED <<card, flash, served, op>>
    PROVE  UNCHANGED <<TheTruth, TheView, ThePending>>
<1>1. Truth' = Truth /\ Readable' = Readable /\ Serving' = Serving
  BY DEF Truth, Readable, Serving
<1>2. QED  BY <1>1 DEF TheTruth, TheView, ThePending

\* A step of a store that goes on serving the same catalog.
LEMMA ServingStutter ==
    ASSUME StoreInvariant, StoreInvariant', Readable, Readable', Durable' = Durable,
           ThePending' = ThePending
    PROVE  UNCHANGED <<TheTruth, TheView, ThePending>>
  BY ReadableTruth, NextReadableTruth DEF TruthServed

\* Reservations: the bytes of a payload are no part of the catalog.
LEMMA ReserveStutter ==
    ASSUME StoreInvariant, StoreInvariant', Reserve
    PROVE  UNCHANGED <<TheTruth, TheView, ThePending>>
<1>1. CASE \E n \in 1 .. ExtentCount : Allocate(n)  BY <1>1, QuietStutter DEF Allocate
<1>2. CASE \E s \in Slots : Cancel(s)  BY <1>2, QuietStutter DEF Cancel
<1>3. CASE Writable /\ UNCHANGED <<flash, served, op>>
  BY <1>3, ServingStutter DEF Writable, Readable, Durable, ThePending
<1>4. QED  BY <1>1, <1>2, <1>3 DEF Reserve, Write, Seal

\* The commands of a commit up to the synchronization of its gate.
LEMMA CommandStutter ==
    ASSUME StoreInvariant, StoreInvariant', CommitWrite \/ CommitSync
    PROVE  UNCHANGED <<TheTruth, TheView, ThePending>>
<1>1. op # None /\ op \in Operation /\ op.phase # "uncertain" /\ Live
  BY InProgress DEF CommitWrite, CommitSync, InCommit, WritePhases, SyncPhases
<1>2. served.mode = "ReadWrite" /\ served' = served
  BY <1>1 DEF StoreInvariant, PhasePart, CommitWrite, CommitSync
<1>3. op' \in Operation /\ op'.body = op.body
  <2>1. op'.body = op.body  BY <1>1 DEF CommitWrite, CommitSync, Operation
  <2>2. op' # None => op' \in Operation  BY DEF StoreInvariant, TypeOK
  <2>3. op' = [op EXCEPT !.phase = PhaseAfter(op.phase)]  BY DEF CommitWrite, CommitSync
  <2>4. op'.phase = PhaseAfter(op.phase)  BY <1>1, <2>3 DEF Operation
  <2>5. PhaseAfter(op.phase) \in WritePhases \cup SyncPhases
    BY <1>1 DEF PhaseAfter, CommitWrite, CommitSync, InCommit, WritePhases, SyncPhases
  <2>6. op' \in Operation  BY <1>1, <2>3, <2>5 DEF Operation
  <2>7. QED  BY <2>1, <2>6
<1>4. ThePending' = ThePending  BY <1>1, <1>3, NoneAssumption DEF ThePending
<1>5. Durable' = Durable
  BY <1>1, <1>2 DEF CommitWrite, CommitSync, Durable, StoreInvariant, ServedPart
<1>6. QED  BY <1>2, <1>4, <1>5, ServingStutter DEF Readable
-----------------------------------------------------------------------------
(* The steps of the abstract catalog. *)

\* Begin submits a catalog that may follow the served one.
LEMMA BeginSubmits ==
    ASSUME StoreInvariant, StoreInvariant', KeysInvariant', NEW batch \in Batches, Begin(batch)
    PROVE  Abstract!Submit
<1>1. op = None /\ served.mode = "ReadWrite" /\ Readable /\ Live
  BY DEF Begin, Accepts, Writable, Readable, Live
<1>2. op' \in Operation  BY <1>1, BeginType, ServedFacts DEF StoreInvariant
<1>3. op' # None /\ Live'  BY <1>1, <1>2, NoneAssumption DEF Begin, Live
<1>4. ThePending = None /\ ThePending' = op'.body /\ op'.body # None /\ op'.body \in Catalog
  BY <1>1, <1>3, NextPending DEF ThePending, BodyPending
<1>5. UNCHANGED <<TheTruth, TheView>>
  <2>1. Truth' = Truth /\ Readable' = Readable /\ Serving' = Serving
    BY DEF Begin, Truth, Readable, Serving
  <2>2. QED  BY <2>1 DEF TheTruth, TheView
<1>6. TheView = Durable /\ Durable # None /\ Durable \in Catalog  BY <1>1, ReadableTruth DEF TruthServed
<1>7. Durable' = Durable /\ served' = served  BY DEF Begin, Durable
<1>8. Abstract!Follows(Durable, op'.body)
  <2>1. op'.body.sequence = served.high + 1  BY <1>3, <1>7 DEF StoreInvariant, PhasePart
  <2>2. /\ Durable.sequence = served.sequence /\ Durable.next = served.next
        /\ served.sequence <= served.high
    BY <1>1 DEF StoreInvariant, ServedPart
  <2>3. served.sequence \in Nat /\ served.high \in Nat
    BY TypeParts, ConstantsAssumption DEF StoreInvariant, ServedType
  <2>4. op'.body.sequence > Durable.sequence  BY <2>1, <2>2, <2>3
  <2>5. op'.body.next >= Durable.next  BY <1>3, <1>7, <2>2 DEF KeysInvariant, KeysPart
  <2>6. ASSUME NEW k \in Keys, op'.body.entries[k] # None
        PROVE  k[1] < op'.body.next
    <3>1. StructureOk(op'.body)  BY <1>3 DEF StoreInvariant, PlanPart
    <3>2. QED  BY <2>6, <3>1 DEF StructureOk, Present, IdOf
  <2>7. ASSUME NEW k \in Keys, op'.body.entries[k] # None, Durable.entries[k] # None
        PROVE  \/ Durable.entries[k].content = op'.body.entries[k].content
               \/ Durable.entries[k].flag = "recording"
    BY <1>3, <1>7, <2>7 DEF KeysInvariant, KeysPart
  <2>8. ASSUME NEW k \in Keys, op'.body.entries[k] # None,
               \A l \in Keys : Durable.entries[l] # None => l[1] # k[1]
        PROVE  k[1] >= Durable.next
    <3>1. Durable.entries[k] = None  BY <2>8
    <3>2. HeadsOf(Durable.entries, IdOf(k)) = {}  BY <2>8 DEF HeadsOf, Present, IdOf
    <3>3. IdOf(k) >= served.next  BY <1>3, <1>7, <2>8, <3>1, <3>2 DEF KeysInvariant, KeysPart
    <3>4. QED  BY <2>2, <3>3 DEF IdOf
  <2>9. QED  BY <2>4, <2>5, <2>6, <2>7, <2>8 DEF Abstract!Follows, Abstract!Live
<1>9. QED
  BY <1>4, <1>5, <1>6, <1>8 DEF Abstract!Submit, TheTruth, TheView, ThePending

\* The commit is answered when its gate is durable.
LEMMA PublishAnswers ==
    ASSUME StoreInvariant, StoreInvariant', CommitPublish
    PROVE  Abstract!Answer
<1>1. op # None /\ op.phase = "gate_sync"  BY DEF CommitPublish, InCommit
<1>2. ThePending = op.body /\ op.body # None  BY <1>1, PendingIs
<1>3. served.mode = "ReadWrite" /\ card[Gate(Target)] = op.body
  BY <1>1 DEF StoreInvariant, PhasePart
<1>4. Readable  BY <1>3 DEF Readable
<1>5. TheView # None  BY <1>4, ReadableTruth DEF TruthServed
<1>6. Readable' /\ Durable' = op.body /\ op' = None
  BY <1>3 DEF CommitPublish, Readable, Durable
<1>7. TheTruth' = op.body /\ TheView' = op.body
  BY <1>6, NextReadableTruth DEF TruthServed
<1>8. ThePending' = None  BY <1>6 DEF ThePending
<1>9. QED
  BY <1>2, <1>5, <1>7, <1>8 DEF Abstract!Answer, TheTruth, TheView, ThePending

\* An error before the gate leaves everything as it was.
LEMMA ErrorRefuses ==
    ASSUME StoreInvariant, StoreInvariant', CommitError
    PROVE  Abstract!Refuse
<1>1. op # None /\ RefusedCommand /\ op.phase \notin {"gate", "gate_sync"} /\ op' = None /\ served' = served
  BY DEF CommitError
<1>2. op.phase # "uncertain"  BY <1>1 DEF RefusedCommand, InCommit, WritePhases, SyncPhases
<1>3. Readable /\ Readable'  BY <1>1, <1>2 DEF StoreInvariant, PhasePart, Readable
<1>4. Durable' = Durable  BY <1>1, RefusedEffect DEF Durable
<1>5. TheTruth' = TheTruth /\ TheView' = TheView /\ TheView # None
  BY <1>3, <1>4, ReadableTruth, NextReadableTruth DEF TruthServed
<1>6. ThePending # None /\ ThePending' = None  BY <1>1, PendingIs DEF ThePending
<1>7. QED  BY <1>5, <1>6 DEF Abstract!Refuse, TheTruth, TheView, ThePending

\* What a mount would find is the catalog that was served, or that of the fenced commit.
LEMMA FencedTruth ==
    ASSUME StoreInvariant, Live
    PROVE  /\ Truth # {}
           /\ \A t \in Truth : t = Durable \/ (op # None /\ t = op.body)
<1>1. Truth # {}
  <2>1. served.copy \in Copies /\ Target \in Copies /\ Target # served.copy  BY ServedFacts
  <2>2. Loads(flash, served.copy) /\ flash[Gate(served.copy)].sequence = served.sequence
    BY DEF StoreInvariant, ServedPart, Durable
  <2>3. flash[Gate(Target)] = Ill \/ flash[Gate(Target)].sequence # served.sequence  BY GatesDiffer
  <2>4. Selected(flash, Copies, Copies) # {}
    BY <2>1, <2>2, <2>3, SomethingSelected, TypeParts DEF StoreInvariant
  <2>5. QED  BY <2>4 DEF Truth
<1>2. \A c \in Selected(flash, Copies, Copies) :
        flash[Gate(c)] = Durable \/ (op # None /\ flash[Gate(c)] = op.body)
  BY MediumTruth
<1>3. QED  BY <1>1, <1>2 DEF Truth

\* The same as a state predicate.
FenceHolds == Live => \E t \in Truth : t = Durable \/ (op # None /\ t = op.body)

\* After a step, too, a mount would find the catalog that is served or the fenced commit's.
LEMMA NextFenceHolds == StoreInvariant' => FenceHolds'
<1>1. StoreInvariant => FenceHolds  BY FencedTruth DEF FenceHolds
<1>2. QED  BY <1>1, PTL

\* What a mount would choose is the truth of the refinement mapping.
TruthOne == \A t \in Truth : TheTruth = t

\* There is one catalog a mount would choose after a step.
LEMMA NextTruthOne == StoreInvariant' => TruthOne'
<1>1. StoreInvariant => TruthOne  BY TruthIs DEF TruthOne, StoreInvariant
<1>2. QED  BY <1>1, PTL

\* A refused gate stops the service, and the commit counts or does not.
LEMMA UncertainFences ==
    ASSUME StoreInvariant, StoreInvariant', CommitUncertain
    PROVE  Abstract!Fence
<1>1. op # None /\ op \in Operation /\ op.phase \in {"gate", "gate_sync"} /\ RefusedCommand
  BY InProgress DEF CommitUncertain, InCommit
<1>2. Readable /\ Live  BY <1>1 DEF StoreInvariant, PhasePart, Readable, Live
<1>3. TheTruth = Durable /\ TheView # None  BY <1>2, ReadableTruth DEF TruthServed
<1>4. served \in ServedType  BY TypeParts DEF StoreInvariant
<1>5. served'.mode = "RemountRequired" /\ served'.copy = served.copy
  BY <1>4 DEF CommitUncertain, ServedType
<1>6. Durable' = Durable  BY <1>1, <1>5, RefusedEffect DEF Durable
<1>7. op' \in Operation /\ op'.body = op.body  BY <1>1 DEF CommitUncertain, Operation
<1>8. op' # None  BY <1>7, NoneAssumption
<1>9. ThePending # None /\ ThePending = op.body /\ ThePending' = ThePending
  BY <1>1, <1>7, <1>8, PendingIs DEF ThePending
<1>10. Live' /\ ~Readable'  BY <1>5 DEF Live, Readable
<1>11. TheTruth' \in {Durable, op.body}
  BY <1>6, <1>7, <1>10, NextFenceHolds, NextTruthOne DEF FenceHolds, TruthOne
<1>12. TheView' = None  BY <1>10 DEF TheView
<1>13. QED
  BY <1>3, <1>9, <1>11, <1>12 DEF Abstract!Fence, TheTruth, TheView, ThePending
\* The choice of bring_up depends on the gates and the bodies alone.
LEMMA SameCatalogCells ==
    ASSUME NEW m, NEW n, \A c \in Copies : m[Gate(c)] = n[Gate(c)] /\ m[Body(c)] = n[Body(c)]
    PROVE  Selected(m, Copies, Copies) = Selected(n, Copies, Copies)
<1>1. \A c \in Copies : Loads(m, c) = Loads(n, c)  BY DEF Loads
<1>2. WellFormed(m, Copies) = WellFormed(n, Copies)  BY DEF WellFormed
<1>3. WellFormed(m, Copies) \subseteq Copies  BY DEF WellFormed
<1>4. Selectable(m, Copies, Copies) = Selectable(n, Copies, Copies)
  BY <1>1, <1>2, <1>3 DEF Selectable
<1>5. Selectable(m, Copies, Copies) \subseteq Copies  BY DEF Selectable
<1>6. QED  BY <1>4, <1>5 DEF Selected

\* Power goes away: what the medium then holds is the truth or the commit without an
\* answer, and a fenced commit that has become the truth stays it.
LEMMA CutCyclesPower ==
    ASSUME RefinementInvariant, StoreInvariant', Cut
    PROVE  Abstract!PowerCycle
<1>1. StoreInvariant /\ DecidedPart  BY DEF RefinementInvariant
<1>2. Live  BY <1>1, MountedIsLive DEF Cut
<1>3. PICK kept \in SUBSET Dirty, torn \in SUBSET Dirty :
        flash' = [c \in Cells |-> IF c \in torn THEN Ill ELSE IF c \in kept THEN card[c] ELSE flash[c]]
  BY DEF Cut
<1>4. \A c \in Cells : /\ flash'[c] \in {Ill, card[c], flash[c]}
                       /\ card[c] = flash[c] => flash'[c] = flash[c]
  BY <1>3 DEF Dirty
<1>5. \A t \in Truth' : t = Durable \/ (op # None /\ t = op.body)
  <2>1. \A c \in Selected(flash', Copies, Copies) :
          flash'[Gate(c)] = Durable \/ (op # None /\ flash'[Gate(c)] = op.body)
    BY <1>1, <1>2, <1>4, MediumTruth
  <2>2. QED  BY <2>1 DEF Truth
<1>6. served'.mode = "Off" /\ op' = None  BY DEF Cut, Unmounted
<1>7. Truth' # {} /\ \A t \in Truth' : TheTruth' = t
  BY <1>6, NextTruthOne DEF TruthOne, StoreInvariant, OffPart
<1>8. TheView' = None /\ ThePending' = None  BY <1>6 DEF TheView, ThePending, Readable
<1>9. TheTruth' = Durable \/ (op # None /\ TheTruth' = op.body)  BY <1>5, <1>7
<1>10. \A t \in Truth : TheTruth = t  BY <1>1, TruthIs DEF StoreInvariant
<1>11. op # None => ThePending = op.body /\ op.body # None  BY <1>1, PendingIs
<1>12. TheTruth' = TheTruth \/ (op # None /\ TheTruth' = op.body)
  <2>1. CASE Readable
    BY <2>1, <1>1, <1>9, ReadableTruth DEF TruthServed
  <2>2. CASE ~Readable
    <3>1. op # None /\ op.phase = "uncertain"
      BY <1>1, <1>2, <2>2 DEF Live, Readable, StoreInvariant, FencedPart
    <3>2. CASE TheTruth = Durable  BY <3>2, <1>9
    <3>3. CASE TheTruth # Durable
      <4>1. PICK c \in Selected(flash, Copies, Copies) : TheTruth = flash[Gate(c)]
        BY <1>1, <1>2, <1>10, FencedTruth DEF Truth
      <4>2. c \in Copies /\ flash[Gate(c)] # Ill  BY DEF Selected, Selectable, WellFormed
      <4>3. c = Target  BY <1>1, <1>2, <3>3, <4>1, <4>2, ServedFacts DEF Durable, Target, Copies
      <4>4. card[Gate(Target)] = flash[Gate(Target)] /\ card[Body(Target)] = flash[Body(Target)]
        BY <1>1, <3>1, <4>2, <4>3 DEF DecidedPart, StoreInvariant, PhasePart
      <4>5. /\ card[Gate(served.copy)] = flash[Gate(served.copy)]
            /\ card[Body(served.copy)] = flash[Body(served.copy)]
        BY <1>1, <1>2 DEF StoreInvariant, ServedPart, Durable, Loads
      <4>6. \A d \in Copies : d = served.copy \/ d = Target
        BY <1>1, <1>2, ServedFacts DEF Target, Copies
      <4>7. \A d \in Copies : flash'[Gate(d)] = flash[Gate(d)] /\ flash'[Body(d)] = flash[Body(d)]
        BY <1>1, <1>2, <1>4, <4>4, <4>5, <4>6, FourCells
      <4>8. Selected(flash', Copies, Copies) = Selected(flash, Copies, Copies)
        BY <4>7, SameCatalogCells
      <4>9. flash'[Gate(c)] \in Truth'  BY <4>8 DEF Truth
      <4>10. QED  BY <1>7, <4>1, <4>2, <4>7, <4>9
    <3>4. QED  BY <3>2, <3>3
  <2>3. QED  BY <2>1, <2>2
<1>13. QED
  BY <1>8, <1>11, <1>12 DEF Abstract!PowerCycle, TheTruth, TheView, ThePending

\* A mount that can read the card serves the truth.
LEMMA MountMounts ==
    ASSUME StoreInvariant, StoreInvariant', Mount, "mount_read" \notin Faults
    PROVE  Abstract!Mount
<1>1. served.mode = "Off" /\ UNCHANGED <<card, flash, op>>  BY DEF Mount
<1>2. op = None /\ Truth # {} /\ card = flash  BY <1>1 DEF StoreInvariant, OffPart
<1>3. Selected(card, Copies, Copies) # {}  BY <1>2 DEF Truth
<1>4. PICK c, high : /\ c \in Selected(card, Copies, Copies)
                     /\ served' = [mode |-> IF high = MaxSequence THEN "SequenceSpaceExhausted" ELSE "ReadWrite",
                                   copy |-> c, sequence |-> card[Gate(c)].sequence,
                                   high |-> high, next |-> card[Gate(c)].next]
  BY <1>3 DEF Mount, Readings
<1>5. Readable' /\ Durable' = flash[Gate(c)]  BY <1>1, <1>4 DEF Readable, Durable
<1>6. Durable' \in Truth  BY <1>2, <1>4, <1>5 DEF Truth
<1>7. TheTruth = Durable'  BY <1>6, TruthIs DEF StoreInvariant
<1>8. TheTruth' = Durable' /\ TheView' = Durable'
  BY <1>5, NextReadableTruth DEF TruthServed
<1>9. TheView = None /\ ThePending = None /\ ThePending' = None
  BY <1>1, <1>2 DEF TheView, ThePending, Readable
<1>10. QED
  BY <1>7, <1>8, <1>9 DEF Abstract!Mount, TheTruth, TheView, ThePending

-----------------------------------------------------------------------------
(* The refinement. *)

\* Every step of the store is a step of the abstract catalog, or changes nothing of it.
LEMMA StepRefines ==
    ASSUME RefinementInvariant, RefinementInvariant', [Next]_vars, SoundMedium
    PROVE  [Abstract!Next]_(Abstract!catalogVars)
<1>1. StoreInvariant /\ StoreInvariant' /\ KeysInvariant' /\ "mount_read" \notin Faults
  BY DEF RefinementInvariant, SoundMedium
<1> DEFINE Stutter == UNCHANGED <<TheTruth, TheView, ThePending>>
<1>2. Stutter => UNCHANGED Abstract!catalogVars
  BY DEF Abstract!catalogVars, TheTruth, TheView, ThePending
<1>3. CASE Commit
  <2>1. CASE \E batch \in Batches : Begin(batch)  BY <1>1, <2>1, BeginSubmits DEF Abstract!Next
  <2>2. CASE CommitWrite \/ CommitSync  BY <1>1, <1>2, <2>2, CommandStutter
  <2>3. CASE CommitPublish  BY <1>1, <2>3, PublishAnswers DEF Abstract!Next
  <2>4. CASE CommitError  BY <1>1, <2>4, ErrorRefuses DEF Abstract!Next
  <2>5. CASE CommitUncertain  BY <1>1, <2>5, UncertainFences DEF Abstract!Next
  <2>6. QED  BY <1>3, <2>1, <2>2, <2>3, <2>4, <2>5 DEF Commit
<1>4. CASE Reserve  BY <1>1, <1>2, <1>4, ReserveStutter
<1>5. CASE Read
  <2>1. UNCHANGED <<card, flash, served, op>>
    BY <1>5 DEF Read, Open, Close, ListStart, ListEnd
  <2>2. QED  BY <1>2, <2>1, QuietStutter
<1>6. CASE Mount  BY <1>1, <1>6, MountMounts DEF Abstract!Next
<1>7. CASE Cut  BY <1>1, <1>7, CutCyclesPower DEF Abstract!Next
<1>8. CASE \E c \in Copies : Rot(c)  BY <1>8 DEF Rot, SoundMedium
<1>9. CASE UNCHANGED vars
  <2>1. UNCHANGED <<card, flash, served, op>>  BY <1>9 DEF vars
  <2>2. QED  BY <1>2, <2>1, QuietStutter
<1>10. QED  BY <1>3, <1>4, <1>5, <1>6, <1>7, <1>8, <1>9 DEF Next

\* A card that was just initialized holds the empty catalog.
LEMMA InitRefines == Init => Abstract!Init
<1> SUFFICES ASSUME Init PROVE Abstract!Init  OBVIOUS
<1>1. op = None /\ ~Readable /\ flash = EmptyCard /\ served.mode = "Off"  BY DEF Init, Readable, Unmounted
<1>2. StoreInvariant  BY InitInvariant
<1>3. Truth # {}  BY <1>1, <1>2 DEF StoreInvariant, OffPart
<1>4. \A t \in Truth : t = EmptyCatalog
  <2>1. Gate(0) \in Cells /\ Gate(1) \in Cells  BY CellKinds DEF Copies
  <2>2. EmptyCard[Gate(0)] = EmptyCatalog /\ EmptyCard[Gate(1)] = Ill
    BY <2>1 DEF EmptyCard, Gate, Body
  <2>3. \A c \in Selected(flash, Copies, Copies) : c \in Copies /\ flash[Gate(c)] # Ill
    BY DEF Selected, Selectable, WellFormed
  <2>4. QED  BY <1>1, <2>2, <2>3 DEF Truth, Copies
<1>5. TheTruth = EmptyCatalog  BY <1>2, <1>3, <1>4, TruthIs DEF StoreInvariant
<1>6. TheView = None /\ ThePending = None  BY <1>1 DEF TheView, ThePending
<1>7. QED  BY <1>5, <1>6 DEF Abstract!Init, TheTruth, TheView, ThePending

\* ImplementsAtomicCatalog: on a sound medium the two copies, their gates and every refused
\* or cut command behave as one catalog that a commit replaces in one step, durable when it is
\* answered and whole or absent when it is not.
THEOREM StoreImplementsAtomicCatalog ==
    ASSUME SoundMedium
    PROVE  Spec => ImplementsAtomicCatalog
<1>1. Init => RefinementInvariant
  BY InitInvariant, InitKeys DEF RefinementInvariant, DecidedPart, Init
<1>2. RefinementInvariant /\ [Next]_vars => RefinementInvariant'
  BY NextInvariant, NextKeys, NextDecided DEF RefinementInvariant, SoundMedium
<1>3. RefinementInvariant /\ RefinementInvariant' /\ [Next]_vars => [Abstract!Next]_(Abstract!catalogVars)
  BY StepRefines
<1>4. QED
  BY <1>1, <1>2, <1>3, InitRefines, PTL DEF Spec, ImplementsAtomicCatalog, Abstract!Spec
===============================================================================
