--------------------------- MODULE FlatStoreProofs ---------------------------
(***************************************************************************)
(* StoreInvariant is an invariant of FlatStore, and the safety properties  *)
(* that follow from it, for every size of the card, every capacity and     *)
(* every set of faults that lets a mount read the card.                    *)
(***************************************************************************)
EXTENDS FlatStoreInvariant, TLAPS

-----------------------------------------------------------------------------
(* Every step keeps the tables and the card well typed.  Begin, Open and ListStart read the *)
(* served catalog; that it is one is part of ServedPart. *)

\* A medium whose cells hold values of their kind.
MediumOK(m)   == DOMAIN m = Cells /\ \A c \in Cells : m[c] \in CellValue(c)
\* Writes that store in every cell a value of the cell's kind.
WritesOK(w)   == \A c \in DOMAIN w : w[c] \in CellValue(c)
ServedType    == [mode : Modes, copy : Copies, sequence : 0 .. MaxSequence,
                  high : 0 .. MaxSequence, next : 0 .. MaxObjectId]
ListingType   == [copy : Copies, sequence : 0 .. MaxSequence, catalog : Catalog]
EntryFlag     == {"plain", "recording", "reserved"}
MutationType  ==
    [put : {"remove"}]
        \cup [put : {"amend"}, flag : EntryFlag, retained : BOOLEAN, content : Contents]
        \cup [put : {"fresh"}, flag : EntryFlag, retained : BOOLEAN, slot : Slots, content : Contents]

\* The parts of TypeOK by the variables they are about.
LEMMA TypeParts ==
    TypeOK <=> /\ MediumOK(card) /\ MediumOK(flash)
               /\ served \in ServedType /\ used \subseteq Extents
               /\ rows \in [Slots -> Row \cup {None}] /\ holds \in [Keys -> Hold]
               /\ op = None \/ op \in Operation
               /\ listing = None \/ listing \in ListingType
  BY DEF TypeOK, MediumOK, ServedType, ListingType

\* The kinds of the cells that the store addresses.
LEMMA CellKinds ==
    /\ \A c \in Copies : /\ Gate(c) \in Cells /\ Body(c) \in Cells
                         /\ CellValue(Gate(c)) = Catalog \cup {Ill}
                         /\ CellValue(Body(c)) = Catalog \cup {Ill}
    /\ \A e \in Extents : Data(e) \in Cells /\ CellValue(Data(e)) = Payload \cup {Ill}
    /\ \A c \in Cells : Ill \in CellValue(c)
  BY DEF Cells, Gate, Body, Data, CellValue

\* Writing values of the right kind keeps a medium well typed.
LEMMA PutKeepsMedium ==
    ASSUME NEW m, NEW w, MediumOK(m), WritesOK(w)
    PROVE  MediumOK(Put(m, w))
  BY DEF MediumOK, WritesOK, Put

\* An initial card holds the empty catalog in copy 0 and nothing else.
LEMMA EmptyCardMedium == MediumOK(EmptyCard)
<1>1. EmptyCatalog \in Catalog
  BY ConstantsAssumption DEF EmptyCatalog, Catalog
<1>2. QED  BY <1>1, CellKinds DEF MediumOK, EmptyCard, Cells, CellValue, Gate, Body, Data

\* No bytes are a payload over no extents.
LEMMA NoContentType == NoContent \in Contents
<1>1. NoContent \in [{} -> Payload]  BY DEF NoContent
<1>2. QED  BY <1>1 DEF Contents

\* A card that initialize() has just written is well typed.
LEMMA InitType == Init => TypeOK
<1> SUFFICES ASSUME Init PROVE TypeOK  OBVIOUS
<1>1. MediumOK(card) /\ MediumOK(flash)  BY EmptyCardMedium DEF Init
<1>2. served \in ServedType
  BY ConstantsAssumption DEF Init, Unmounted, ServedType, Modes, Copies
<1>3. holds \in [Keys -> Hold]
  BY NoContentType, ConstantsAssumption DEF Init, NoHold, Hold
<1>4. QED  BY <1>1, <1>2, <1>3, TypeParts DEF Init

\* A payload is a function from some extents to Payload values.
LEMMA ContentsFacts ==
    ASSUME NEW f \in Contents
    PROVE  /\ DOMAIN f \subseteq Extents
           /\ \A e \in DOMAIN f : f[e] \in Payload
           /\ f = [e \in DOMAIN f |-> f[e]]
<1>1. PICK S \in SUBSET Extents : f \in [S -> Payload]  BY DEF Contents
<1>2. QED  BY <1>1

\* A function from some extents to Payload values is a payload.
LEMMA ContentsIntro ==
    ASSUME NEW S \in SUBSET Extents, NEW f \in [S -> Payload]
    PROVE  f \in Contents
  BY DEF Contents

\* allocate claims extents of the card and fills a free row.
LEMMA AllocateType ==
    ASSUME TypeOK, NEW n, Allocate(n)
    PROVE  TypeOK'
<1>1. FirstOf(Free, n) \subseteq Extents  BY DEF FirstOf, Free
<1>2. PICK s \in Slots : rows' = [rows EXCEPT ![s] = [ranges |-> FirstOf(Free, n), content |-> NoContent,
                                                     staged |-> {}, sealed |-> FALSE]]
  BY DEF Allocate, Lowest
<1>3. [ranges |-> FirstOf(Free, n), content |-> NoContent, staged |-> {}, sealed |-> FALSE] \in Row
  BY <1>1, NoContentType DEF Row, NoContent
<1>4. rows' \in [Slots -> Row \cup {None}]
  BY <1>2, <1>3, TypeParts
<1>5. used' \subseteq Extents  BY <1>1, TypeParts DEF Allocate
<1>6. QED
  BY <1>4, <1>5 DEF TypeOK, Allocate

\* What reaches the card of a write, of a seal and of a refused write is of the right kind.
LEMMA RefusedWriteKeepsMedium ==
    ASSUME MediumOK(card), NEW w, WritesOK(w), RefusedWrite(w)
    PROVE  MediumOK(card')
<1>1. PICK done \in SUBSET DOMAIN w, torn \in SUBSET (DOMAIN w) :
        card' = [c \in Cells |-> IF c \in torn THEN Ill ELSE IF c \in done THEN w[c] ELSE card[c]]
  BY DEF RefusedWrite
<1>2. QED  BY <1>1, CellKinds DEF MediumOK, WritesOK

\* The staged tail that seal flushes is payload.
LEMMA StagedWritesType ==
    ASSUME NEW row \in Row
    PROVE  WritesOK(StagedWrites(row))
<1>1. \A e \in row.staged : e \in Extents /\ row.content[e] \in Payload
  BY ContentsFacts DEF Row
<1>2. \A e \in row.staged : /\ CellValue(Data(e)) = Payload \cup {Ill}
                            /\ StagedWrites(row)[Data(e)] = row.content[e]
  BY <1>1, CellKinds DEF StagedWrites, Data
<1>3. QED  BY <1>1, <1>2 DEF WritesOK, StagedWrites

\* A write extends the payload of a row within its ranges.
LEMMA RowAfterWriteType ==
    ASSUME NEW row \in Row, NEW p \in Payload, NEW partial \in BOOLEAN
    PROVE  RowAfterWrite(row, p, partial) \in Row
<1> DEFINE new == Lowest(row.ranges \ DOMAIN row.content)
           dom == DOMAIN row.content \cup new
           filled == [x \in dom |-> IF x \in new THEN p ELSE row.content[x]]
<1>1. new \subseteq row.ranges /\ row.ranges \subseteq Extents /\ row.content \in Contents
  BY DEF Lowest, Row
<1>2. filled \in [dom -> Payload]  BY <1>1, ContentsFacts
<1>3. filled \in Contents
  <2>1. dom \in SUBSET Extents  BY <1>1, ContentsFacts
  <2> HIDE DEF dom, filled
  <2>2. QED  BY <2>1, <1>2, ContentsIntro
<1>4. CASE row.staged # {}  BY <1>4 DEF RowAfterWrite, Row
<1>5. CASE row.staged = {}
  <2>1. RowAfterWrite(row, p, partial) =
           [row EXCEPT !.content = filled, !.staged = IF partial THEN new ELSE {}]
    BY <1>5 DEF RowAfterWrite
  <2>2. DOMAIN filled = dom  OBVIOUS
  <2>3. QED  BY <2>1, <2>2, <1>1, <1>3 DEF Row
<1>6. QED  BY <1>4, <1>5

\* A write puts payload, or a torn extent, into the extents of its row.
LEMMA CardWritesType ==
    ASSUME NEW row \in Row, NEW after \in Row, row.staged \subseteq DOMAIN after.content
    PROVE  WritesOK(CardWritesOf(row, after))
<1> DEFINE E == row.staged \cup (DOMAIN after.content \ DOMAIN row.content)
<1>1. \A e \in E : e \in Extents /\ after.content[e] \in Payload
  BY ContentsFacts DEF Row
<1>2. \A e \in E : /\ CellValue(Data(e)) = Payload \cup {Ill}
                   /\ CardWritesOf(row, after)[Data(e)] = IF e \in after.staged THEN Ill ELSE after.content[e]
  BY <1>1, CellKinds DEF CardWritesOf, Data
<1>3. QED  BY <1>1, <1>2 DEF WritesOK, CardWritesOf

\* write keeps types, landed or refused.
LEMMA WriteType ==
    ASSUME TypeOK, NEW s \in Slots, NEW p \in Payload, NEW partial \in BOOLEAN, Write(s, p, partial)
    PROVE  TypeOK'
<1> DEFINE row == rows[s]
           after == RowAfterWrite(rows[s], p, partial)
           writes == CardWritesOf(rows[s], after)
<1>1. row \in Row  BY TypeParts DEF Write, LiveRow
<1>2. after \in Row  BY <1>1, RowAfterWriteType
<1>3. row.staged \subseteq DOMAIN after.content
  BY <1>1 DEF RowAfterWrite, Row
<1>4. WritesOK(writes)  BY <1>1, <1>2, <1>3, CardWritesType
<1>5. MediumOK(card')
  <2>1. CASE card' = Put(card, writes)  BY <2>1, <1>4, PutKeepsMedium, TypeParts
  <2>2. CASE RefusedWrite(writes)  BY <2>2, <1>4, RefusedWriteKeepsMedium, TypeParts
  <2>3. QED  BY <2>1, <2>2 DEF Write
<1>6. rows' \in [Slots -> Row \cup {None}]
  <2>1. CASE rows' = [rows EXCEPT ![s] = after]  BY <2>1, <1>2, TypeParts
  <2>2. CASE rows' = rows  BY <2>2, TypeParts
  <2>3. QED  BY <2>1, <2>2 DEF Write
<1>7. QED  BY <1>5, <1>6 DEF TypeOK, Write, MediumOK

\* seal keeps types, landed or refused.
LEMMA SealType ==
    ASSUME TypeOK, NEW s \in Slots, Seal(s)
    PROVE  TypeOK'
<1>1. rows[s] \in Row  BY TypeParts DEF Seal, LiveRow
<1>2. MediumOK(card')
  BY <1>1, StagedWritesType, PutKeepsMedium, RefusedWriteKeepsMedium, TypeParts DEF Seal
<1>3. [rows[s] EXCEPT !.staged = {}, !.sealed = TRUE] \in Row  BY <1>1 DEF Row
<1>4. rows' \in [Slots -> Row \cup {None}]
  <2>1. CASE rows' = [rows EXCEPT ![s].staged = {}, ![s].sealed = TRUE]
    <3>1. rows' = [rows EXCEPT ![s] = [rows[s] EXCEPT !.staged = {}, !.sealed = TRUE]]
      BY <2>1, <1>1, TypeParts DEF Row
    <3>2. QED  BY <3>1, <1>3, TypeParts
  <2>2. CASE rows' = rows  BY <2>2, TypeParts
  <2>3. QED  BY <2>1, <2>2 DEF Seal
<1>5. QED  BY <1>2, <1>4 DEF TypeOK, Seal, MediumOK

\* cancel and release_sealed keep types.
LEMMA CancelType ==
    ASSUME TypeOK, NEW s \in Slots, Cancel(s)
    PROVE  TypeOK'
  BY DEF TypeOK, Cancel

-----------------------------------------------------------------------------
(* Commit. *)

\* The served catalog has a type whenever an entry of it is looked at: a readable
\* store serves a copy whose body is a catalog.
LEMMA OpFields ==
    ASSUME NEW o \in Operation
    PROVE  /\ o.phase \in WritePhases \cup SyncPhases \cup {"uncertain"}
           /\ o.body \in Catalog
           /\ DOMAIN o.freed \subseteq Keys
           /\ \A k \in DOMAIN o.freed : o.freed[k] \subseteq Extents
           /\ o.slots \subseteq Slots
           /\ DOMAIN o.writes \subseteq {Data(e) : e \in Extents}
           /\ \A c \in DOMAIN o.writes : o.writes[c] \in Payload
<1>1. PICK K \in SUBSET Keys : o.freed \in [K -> SUBSET Extents]  BY DEF Operation
<1>2. PICK C \in SUBSET {Data(e) : e \in Extents} : o.writes \in [C -> Payload]  BY DEF Operation
<1>3. QED  BY <1>1, <1>2 DEF Operation

\* Every card command of a commit writes values of the kind of its cells.
LEMMA PhaseWritesType ==
    ASSUME TypeOK, op # None, op.phase \in WritePhases
    PROVE  WritesOK(PhaseWrites)
<1>1. op \in Operation  BY TypeParts
<1>2. Target \in Copies  BY TypeParts DEF Target, Copies, ServedType
<1>3. CASE op.phase = "flush"
  <2>1. PhaseWrites = op.writes  BY <1>3 DEF PhaseWrites
  <2>2. QED  BY <2>1, <1>1, OpFields, CellKinds DEF WritesOK
<1>4. CASE op.phase = "invalidate"
  <2>1. PhaseWrites = [c \in {Gate(Target)} |-> Ill]  BY <1>4 DEF PhaseWrites
  <2>2. QED  BY <2>1, <1>2, CellKinds DEF WritesOK
<1>5. CASE op.phase = "body"
  <2>1. PhaseWrites = [c \in {Body(Target)} |-> op.body]  BY <1>5 DEF PhaseWrites
  <2>2. QED  BY <2>1, <1>1, <1>2, OpFields, CellKinds DEF WritesOK
<1>6. CASE op.phase = "gate"
  <2>1. PhaseWrites = [c \in {Gate(Target)} |-> op.body]  BY <1>6 DEF PhaseWrites
  <2>2. QED  BY <2>1, <1>1, <1>2, OpFields, CellKinds DEF WritesOK
<1>7. QED  BY <1>3, <1>4, <1>5, <1>6 DEF WritePhases

\* Every command but the last has a successor.
LEMMA PhaseAfterType ==
    ASSUME NEW phase \in (WritePhases \cup SyncPhases) \ {"gate_sync"}
    PROVE  PhaseAfter(phase) \in WritePhases \cup SyncPhases
  BY DEF PhaseAfter, WritePhases, SyncPhases

\* A landed command of a commit keeps types.
LEMMA CommitWriteType == ASSUME TypeOK, CommitWrite PROVE TypeOK'
<1>1. op # None /\ op.phase \in WritePhases  BY DEF CommitWrite, InCommit
<1>2. op \in Operation  BY <1>1, TypeParts
<1>3. MediumOK(card')  BY <1>1, PhaseWritesType, PutKeepsMedium, TypeParts DEF CommitWrite
<1>4. PhaseAfter(op.phase) \in WritePhases \cup SyncPhases
  BY <1>1, PhaseAfterType DEF WritePhases, SyncPhases
<1>5. op' \in Operation  BY <1>2, <1>4 DEF CommitWrite, Operation
<1>6. QED  BY <1>3, <1>5 DEF TypeOK, CommitWrite, MediumOK

\* A landed synchronization of a commit keeps types.
LEMMA CommitSyncType == ASSUME TypeOK, CommitSync PROVE TypeOK'
<1>1. op # None /\ op.phase \in SyncPhases \ {"gate_sync"}  BY DEF CommitSync, InCommit
<1>2. op \in Operation  BY <1>1, TypeParts
<1>3. PhaseAfter(op.phase) \in WritePhases \cup SyncPhases  BY <1>1, PhaseAfterType
<1>4. op' \in Operation  BY <1>2, <1>3 DEF CommitSync, Operation
<1>5. QED  BY <1>4 DEF TypeOK, CommitSync

\* The end of a commit keeps types.
LEMMA CommitPublishType == ASSUME TypeOK, CommitPublish PROVE TypeOK'
<1>1. op \in Operation  BY TypeParts DEF CommitPublish, InCommit
<1>2. op.body.sequence \in 1 .. MaxSequence /\ op.body.next \in 1 .. MaxObjectId
  BY <1>1, OpFields DEF Catalog
<1>3. Target \in Copies  BY TypeParts DEF Target, Copies, ServedType
<1>4. served.mode \in Modes /\ "SequenceSpaceExhausted" \in Modes  BY TypeParts DEF ServedType, Modes
<1>5. served' \in ServedType
  BY <1>2, <1>3, <1>4, ConstantsAssumption DEF CommitPublish, ServedType
<1>6. rows' \in [Slots -> Row \cup {None}]  BY TypeParts DEF CommitPublish
<1>7. QED  BY <1>5, <1>6 DEF TypeOK, CommitPublish, ServedType

\* A refused command leaves every cell old, new or torn.
LEMMA RefusedSyncKeepsMedium ==
    ASSUME MediumOK(card), MediumOK(flash), RefusedSync
    PROVE  MediumOK(flash')
<1>1. PICK done \in SUBSET Dirty :
        flash' = [c \in Cells |-> IF c \in done THEN card[c] ELSE flash[c]]
  BY DEF RefusedSync
<1>2. QED  BY <1>1 DEF MediumOK

\* A refused command of a commit leaves both media well typed.
LEMMA RefusedCommandKeepsMedia ==
    ASSUME TypeOK, RefusedCommand
    PROVE  MediumOK(card') /\ MediumOK(flash')
<1>1. CASE /\ InCommit(WritePhases) /\ RefusedWrite(PhaseWrites) /\ UNCHANGED flash
  BY <1>1, PhaseWritesType, RefusedWriteKeepsMedium, TypeParts DEF InCommit
<1>2. CASE RefusedSync /\ UNCHANGED card
  BY <1>2, RefusedSyncKeepsMedium, TypeParts
<1>3. QED  BY <1>1, <1>2 DEF RefusedCommand

\* A commit refused before its gate keeps types.
LEMMA CommitErrorType == ASSUME TypeOK, CommitError PROVE TypeOK'
<1>1. MediumOK(card') /\ MediumOK(flash')  BY RefusedCommandKeepsMedia DEF CommitError
<1>2. QED  BY <1>1 DEF TypeOK, CommitError, MediumOK

\* A commit refused in its gate keeps types.
LEMMA CommitUncertainType == ASSUME TypeOK, CommitUncertain PROVE TypeOK'
<1>1. MediumOK(card') /\ MediumOK(flash')  BY RefusedCommandKeepsMedia DEF CommitUncertain
<1>2. op \in Operation  BY TypeParts DEF CommitUncertain, InCommit
<1>3. op' \in Operation  BY <1>2 DEF CommitUncertain, Operation
<1>4. served' \in ServedType  BY TypeParts DEF CommitUncertain, ServedType, Modes
<1>5. QED  BY <1>1, <1>3, <1>4 DEF TypeOK, CommitUncertain, MediumOK, ServedType

-----------------------------------------------------------------------------
(* Readers, power and mount. *)

\* open keeps types, given that the served body is a catalog.
LEMMA OpenType ==
    ASSUME TypeOK, Serving \in Catalog, NEW k \in Keys, Open(k)
    PROVE  TypeOK'
<1>1. Serving.entries[k] \in Entry  BY DEF Open, Catalog
<1>2. /\ Serving.entries[k].ranges \subseteq Extents
      /\ Serving.entries[k].content \in Contents
  BY <1>1 DEF Entry
<1>3. holds[k] \in Hold  BY TypeParts
<1>4. holds' \in [Keys -> Hold]
  <2>1. CASE holds[k].readers > 0
    <3> DEFINE wider == IF DOMAIN holds[k].content \subseteq DOMAIN Serving.entries[k].content
                        THEN Serving.entries[k].content ELSE holds[k].content
    <3>1. wider \in Contents  BY <1>2, <1>3 DEF Hold
    <3>2. holds' = [holds EXCEPT ![k] = [holds[k] EXCEPT !.readers = @ + 1, !.content = wider]]
      BY <2>1 DEF Open
    <3>3. holds[k].readers + 1 \in 0 .. MaxReaders
      BY <1>3, ConstantsAssumption DEF Open, Hold
    <3> HIDE DEF wider
    <3>4. [holds[k] EXCEPT !.readers = @ + 1, !.content = wider] \in Hold
      BY <1>3, <3>1, <3>3 DEF Hold
    <3>5. QED  BY <3>2, <3>4, TypeParts
  <2>2. CASE ~(holds[k].readers > 0)
    <3>1. holds' = [holds EXCEPT ![k] = [readers |-> 1, ranges |-> Serving.entries[k].ranges,
                                         content |-> Serving.entries[k].content]]
      BY <2>2 DEF Open
    <3>2. 1 \in 0 .. MaxReaders  BY <1>3, ConstantsAssumption DEF Open, Hold
    <3>3. QED  BY <3>1, <3>2, <1>2, TypeParts DEF Hold
  <2>3. QED  BY <2>1, <2>2
<1>5. QED  BY <1>4 DEF TypeOK, Open

\* An empty row of the open-object table is well typed.
LEMMA NoHoldType == NoHold \in Hold
  BY NoContentType, ConstantsAssumption DEF NoHold, Hold

\* close keeps types.
LEMMA CloseType ==
    ASSUME TypeOK, NEW k \in Keys, Close(k)
    PROVE  TypeOK'
<1>1. holds[k] \in Hold  BY TypeParts
<1>2. CASE holds[k].readers > 1
  <2>1. holds' = [holds EXCEPT ![k] = [holds[k] EXCEPT !.readers = @ - 1]] /\ used' = used
    BY <1>2, TypeParts DEF Close
  <2>2. [holds[k] EXCEPT !.readers = @ - 1] \in Hold
    BY <1>1, <1>2, ConstantsAssumption DEF Hold
  <2>3. holds' \in [Keys -> Hold]  BY <2>1, <2>2, TypeParts
  <2>4. QED  BY <2>1, <2>3 DEF TypeOK, Close
<1>3. CASE ~(holds[k].readers > 1)
  <2>1. holds' = [holds EXCEPT ![k] = NoHold]  BY <1>3 DEF Close
  <2>2. used' \subseteq Extents  BY <1>3, TypeParts DEF Close
  <2>3. holds' \in [Keys -> Hold]  BY <2>1, NoHoldType, TypeParts
  <2>4. QED  BY <2>2, <2>3 DEF TypeOK, Close
<1>4. QED  BY <1>2, <1>3

\* entries keeps types, given that the served body is a catalog.
LEMMA ListStartType ==
    ASSUME TypeOK, Serving \in Catalog, ListStart
    PROVE  TypeOK'
  BY DEF TypeOK, ListStart

\* The end of a listing keeps types.
LEMMA ListEndType == ASSUME TypeOK, ListEnd PROVE TypeOK'
  BY DEF TypeOK, ListEnd

\* A power cut keeps types, whatever it keeps, loses or tears.
LEMMA CutType == ASSUME TypeOK, Cut PROVE TypeOK'
<1>1. PICK kept \in SUBSET Dirty, torn \in SUBSET Dirty :
        flash' = [c \in Cells |-> IF c \in torn THEN Ill ELSE IF c \in kept THEN card[c] ELSE flash[c]]
  BY DEF Cut
<1>2. MediumOK(flash')  BY <1>1, CellKinds, TypeParts DEF MediumOK
<1>3. served' \in ServedType
  BY ConstantsAssumption DEF Cut, Unmounted, ServedType, Modes, Copies
<1>4. holds' \in [Keys -> Hold]  BY NoHoldType DEF Cut
<1>5. QED  BY <1>2, <1>3, <1>4 DEF TypeOK, Cut, MediumOK, ServedType

\* A body that goes bad keeps types.
LEMMA RotType == ASSUME TypeOK, NEW c \in Copies, Rot(c) PROVE TypeOK'
<1>1. WritesOK([d \in {Body(c)} |-> Ill])  BY CellKinds DEF WritesOK
<1>2. MediumOK(flash')  BY <1>1, PutKeepsMedium, TypeParts DEF Rot
<1>3. QED  BY <1>2 DEF TypeOK, Rot, MediumOK

\* A gate that is not ill is a catalog, so the high-water mark is a sequence or 0.
LEMMA GateType ==
    ASSUME NEW m, MediumOK(m), NEW c \in Copies, m[Gate(c)] # Ill
    PROVE  m[Gate(c)] \in Catalog
  BY CellKinds DEF MediumOK

\* The entries of a catalog name extents of the card.
LEMMA NamedType ==
    ASSUME NEW catalog \in Catalog
    PROVE  Named(catalog.entries) \subseteq Extents
<1>1. \A k \in Present(catalog.entries) : catalog.entries[k] \in Entry
  BY DEF Catalog, Present
<1>2. QED  BY <1>1 DEF Named, Entry

\* The high-water mark of a mount is a sequence, or 0 without a gate.
LEMMA HighWaterType ==
    ASSUME NEW m, MediumOK(m), NEW gates \in SUBSET Copies, NEW high \in HighWater(m, gates)
    PROVE  high \in 0 .. MaxSequence
<1>1. \A c \in WellFormed(m, gates) : m[Gate(c)].sequence \in 1 .. MaxSequence
  BY GateType DEF WellFormed, Catalog
<1>2. QED  BY <1>1, ConstantsAssumption DEF HighWater, Greatest

\* bring_up keeps types, whichever gates and bodies it could read.
LEMMA MountType == ASSUME TypeOK, Mount PROVE TypeOK'
<1> DEFINE Serves(gates, bodies, high) ==
        \/ /\ served' = [Unmounted EXCEPT !.mode = "CatalogUnreadable", !.high = high]
           /\ used' = {}
        \/ \E c \in Selected(card, gates, bodies) :
             /\ served' = [mode |-> IF high = MaxSequence THEN "SequenceSpaceExhausted" ELSE "ReadWrite",
                           copy |-> c, sequence |-> card[Gate(c)].sequence,
                           high |-> high, next |-> card[Gate(c)].next]
             /\ used' = Named(card[Gate(c)].entries)
<1>1. PICK gates \in SUBSET Copies, bodies \in SUBSET Copies :
        \E h \in HighWater(card, gates) : Serves(gates, bodies, h)
  BY DEF Mount, Readings
<1>2. MediumOK(card)  BY TypeParts
<1>3. PICK high \in HighWater(card, gates) : Serves(gates, bodies, high)  BY <1>1
<1>4. high \in 0 .. MaxSequence  BY <1>2, HighWaterType
<1>5. served' \in ServedType /\ used' \subseteq Extents
  <2>1. CASE /\ served' = [Unmounted EXCEPT !.mode = "CatalogUnreadable", !.high = high]
             /\ used' = {}
    <3>1. served' = [mode |-> "CatalogUnreadable", copy |-> 0, sequence |-> 0, high |-> high, next |-> 0]
      BY <2>1 DEF Unmounted
    <3>2. QED  BY <2>1, <3>1, <1>4, ConstantsAssumption DEF ServedType, Modes, Copies
  <2>2. ASSUME NEW c \in Selected(card, gates, bodies),
               served' = [mode |-> IF high = MaxSequence THEN "SequenceSpaceExhausted" ELSE "ReadWrite",
                          copy |-> c, sequence |-> card[Gate(c)].sequence,
                          high |-> high, next |-> card[Gate(c)].next],
               used' = Named(card[Gate(c)].entries)
        PROVE  served' \in ServedType /\ used' \subseteq Extents
    <3>1. c \in Copies /\ card[Gate(c)] # Ill
      BY DEF Selected, Selectable, WellFormed
    <3>2. card[Gate(c)] \in Catalog  BY <3>1, <1>2, GateType
    <3>3. QED  BY <2>2, <3>1, <3>2, <1>4, NamedType, ConstantsAssumption DEF ServedType, Modes, Catalog
  <2>3. QED  BY <1>3, <2>1, <2>2
<1>6. QED  BY <1>5 DEF TypeOK, Mount, ServedType

-----------------------------------------------------------------------------
(* The plan of a commit. *)

\* What a batch says of one key.
Removes(k, m)   == Serving.entries[k] # None /\ m = Removal
AmendsKey(k, m) == Serving.entries[k] # None /\ m \in Amends(Serving.entries[k])
Creates(k, m)   == \E s \in Slots, flag \in Flags : LiveRow(s) /\ m = Fresh(s, flag)

\* Each mutation of a batch removes or amends a present key, or publishes a live row.
LEMMA BatchFacts ==
    ASSUME NEW batch \in Batches
    PROVE  /\ DOMAIN batch \subseteq Keys
           /\ \A k \in DOMAIN batch :
                Removes(k, batch[k]) \/ AmendsKey(k, batch[k]) \/ Creates(k, batch[k])
<1> DEFINE entries == Serving.entries
           all == {<<k, Removal>> : k \in Present(entries)}
                    \cup (UNION {{<<k, m>> : m \in Amends(entries[k])} : k \in Present(entries)})
                    \cup {<<k, Fresh(s, flag)>> : k \in Keys, s \in {t \in Slots : LiveRow(t)}, flag \in Flags}
<1>1. \A k, m : <<k, m>> \in Candidates =>
         k \in Keys /\ (Removes(k, m) \/ AmendsKey(k, m) \/ Creates(k, m))
  <2> SUFFICES ASSUME NEW k, NEW m, <<k, m>> \in Candidates
               PROVE  k \in Keys /\ (Removes(k, m) \/ AmendsKey(k, m) \/ Creates(k, m))
    OBVIOUS
  <2>1. <<k, m>> \in all  BY DEF Candidates
  <2>2. CASE <<k, m>> \in {<<l, Removal>> : l \in Present(entries)}
    BY <2>2 DEF Present, Removes
  <2>3. CASE <<k, m>> \in UNION {{<<l, n>> : n \in Amends(entries[l])} : l \in Present(entries)}
    BY <2>3 DEF Present, AmendsKey
  <2>4. CASE <<k, m>> \in {<<l, Fresh(s, flag)>> : l \in Keys, s \in {t \in Slots : LiveRow(t)}, flag \in Flags}
    BY <2>4 DEF Creates
  <2>5. QED  BY <2>1, <2>2, <2>3, <2>4
<1>2. \A k \in DOMAIN batch : <<k, batch[k]>> \in Candidates  BY DEF Batches
<1>3. QED  BY <1>1, <1>2

\* The three kinds of mutation by their fields.
LEMMA RemovalFields ==
    ASSUME NEW k, NEW m, Removes(k, m)
    PROVE  m.put = "remove"
  BY DEF Removes, Removal

\* A fresh put carries the payload of its row, or none when its flag holds slack.
LEMMA CreateFields ==
    ASSUME TypeOK, NEW k, NEW m, Creates(k, m)
    PROVE  /\ m.put = "fresh" /\ m.flag \in EntryFlag /\ m.retained \in BOOLEAN
           /\ m.slot \in Slots /\ LiveRow(m.slot) /\ rows[m.slot] \in Row
           /\ m.content = IF HoldsSlack(m.flag) THEN NoContent ELSE rows[m.slot].content
           /\ m.content \in Contents
           /\ DOMAIN m.content \subseteq rows[m.slot].ranges
<1>1. PICK s \in Slots, flag \in Flags : LiveRow(s) /\ m = Fresh(s, flag)  BY DEF Creates
<1>2. /\ m.put = "fresh" /\ m.flag = flag /\ m.retained \in BOOLEAN /\ m.slot = s
      /\ m.content = IF HoldsSlack(flag) THEN NoContent ELSE rows[s].content
  BY <1>1 DEF Fresh
<1>3. rows[s] \in Row  BY <1>1, TypeParts DEF LiveRow
<1>4. m.content \in Contents /\ DOMAIN m.content \subseteq rows[s].ranges
  <2>1. DOMAIN NoContent = {}  BY DEF NoContent
  <2>2. QED  BY <2>1, <1>2, <1>3, NoContentType DEF Row
<1>5. QED  BY <1>1, <1>2, <1>3, <1>4, ConstantsAssumption DEF EntryFlag

\* An amend keeps flag and payload, or ends a ride with a payload inside its ranges.
LEMMA AmendFields ==
    ASSUME Serving \in Catalog, NEW k \in Keys, NEW m, AmendsKey(k, m)
    PROVE  /\ m.put = "amend" /\ m.flag \in EntryFlag /\ m.retained \in BOOLEAN
           /\ m.content \in Contents
           /\ Serving.entries[k] \in Entry
           /\ \/ m.flag = Serving.entries[k].flag /\ m.content = Serving.entries[k].content
              \/ m.flag = "plain" /\ DOMAIN m.content \subseteq Serving.entries[k].ranges
<1> DEFINE entry == Serving.entries[k]
<1>1. entry \in Entry  BY DEF AmendsKey, Catalog
<1>2. CASE \E r \in BOOLEAN :
             m = [put |-> "amend", flag |-> entry.flag, retained |-> r, content |-> entry.content]
  BY <1>1, <1>2 DEF Entry, EntryFlag
<1>3. CASE \E n \in 1 .. Cardinality(entry.ranges), p \in Payload :
             m = [put |-> "amend", flag |-> "plain", retained |-> entry.retained,
                  content |-> [e \in FirstOf(entry.ranges, n) |-> p]]
  <2>1. PICK n \in 1 .. Cardinality(entry.ranges), p \in Payload :
             m = [put |-> "amend", flag |-> "plain", retained |-> entry.retained,
                  content |-> [e \in FirstOf(entry.ranges, n) |-> p]]
    BY <1>3
  <2>2. FirstOf(entry.ranges, n) \subseteq entry.ranges /\ entry.ranges \subseteq Extents
    BY <1>1 DEF FirstOf, Entry
  <2>3. [e \in FirstOf(entry.ranges, n) |-> p] \in [FirstOf(entry.ranges, n) -> Payload]  OBVIOUS
  <2>4. [e \in FirstOf(entry.ranges, n) |-> p] \in Contents  BY <2>2, <2>3, ContentsIntro
  <2>5. DOMAIN m.content \subseteq entry.ranges  BY <2>1, <2>2
  <2>6. QED  BY <2>1, <2>4, <2>5, <1>1 DEF Entry, EntryFlag
<1>4. QED  BY <1>2, <1>3 DEF AmendsKey, Amends

\* The entry a mutation resolves to, and the extents it takes and gives back.
LEMMA ResolvedType ==
    ASSUME TypeOK, Serving \in Catalog, NEW k \in Keys, NEW m,
           Removes(k, m) \/ AmendsKey(k, m) \/ Creates(k, m)
    PROVE  /\ ResolvedEntry(k, m) \in Entry \cup {None}
           /\ ResolvedFreed(k, m) \subseteq Extents
<1>1. CASE Removes(k, m)
  <2>1. ResolvedEntry(k, m) = None /\ ResolvedFreed(k, m) = Serving.entries[k].ranges
    BY <1>1, RemovalFields DEF ResolvedEntry, ResolvedFreed
  <2>2. Serving.entries[k] \in Entry  BY <1>1 DEF Removes, Catalog
  <2>3. QED  BY <2>1, <2>2 DEF Entry
<1>2. CASE AmendsKey(k, m)
  <2>1. /\ m.put = "amend" /\ m.flag \in EntryFlag /\ m.retained \in BOOLEAN /\ m.content \in Contents
        /\ Serving.entries[k] \in Entry
    BY <1>2, AmendFields
  <2>2. /\ ResolvedEntry(k, m) =
             [flag |-> m.flag, retained |-> m.retained, content |-> m.content,
              ranges |-> IF HoldsSlack(m.flag) THEN Serving.entries[k].ranges ELSE DOMAIN m.content]
        /\ ResolvedFreed(k, m) \subseteq Serving.entries[k].ranges
    BY <2>1 DEF ResolvedEntry, ResolvedFreed
  <2>3. DOMAIN m.content \subseteq Extents /\ Serving.entries[k].ranges \subseteq Extents
    BY <2>1, ContentsFacts DEF Entry
  <2>4. QED  BY <2>1, <2>2, <2>3 DEF Entry, EntryFlag
<1>3. CASE Creates(k, m)
  <2>1. /\ m.put = "fresh" /\ m.flag \in EntryFlag /\ m.retained \in BOOLEAN /\ m.content \in Contents
        /\ rows[m.slot] \in Row
    BY <1>3, CreateFields
  <2>2. /\ ResolvedEntry(k, m) =
             [flag |-> m.flag, retained |-> m.retained, content |-> m.content,
              ranges |-> IF HoldsSlack(m.flag) THEN rows[m.slot].ranges ELSE DOMAIN m.content]
        /\ ResolvedFreed(k, m) \subseteq rows[m.slot].ranges
    BY <2>1 DEF ResolvedEntry, ResolvedFreed
  <2>3. DOMAIN m.content \subseteq Extents /\ rows[m.slot].ranges \subseteq Extents
    BY <2>1, ContentsFacts DEF Row
  <2>4. QED  BY <2>1, <2>2, <2>3 DEF Entry, EntryFlag
<1>4. QED  BY <1>1, <1>2, <1>3

\* The rows a batch spends are taken.
LEMMA SlotsOfType ==
    ASSUME TypeOK, Serving \in Catalog, NEW batch \in Batches
    PROVE  /\ SlotsOf(batch) \subseteq Slots
           /\ \A s \in SlotsOf(batch) : rows[s] \in Row /\ rows[s] # None
<1>1. \A k \in DOMAIN batch : batch[k].put = "fresh" => Creates(k, batch[k])
  BY BatchFacts, RemovalFields, AmendFields
<1>2. \A k \in DOMAIN batch : batch[k].put = "fresh" =>
         batch[k].slot \in Slots /\ LiveRow(batch[k].slot) /\ rows[batch[k].slot] \in Row
  BY <1>1, CreateFields
<1>3. QED  BY <1>2 DEF SlotsOf, LiveRow

\* Every extent that a commit flushes has one payload value to flush.
LEMMA PayloadWritesType ==
    ASSUME TypeOK, Serving \in Catalog, NEW batch \in Batches
    PROVE  PayloadWrites(batch) \in UNION {[C -> Payload] : C \in SUBSET {Data(e) : e \in Extents}}
<1> DEFINE staged == UNION {rows[s].staged : s \in SlotsOf(batch)}
           ride   == UNION {DOMAIN batch[k].content : k \in Ending(batch)}
           C      == {Data(e) : e \in staged \cup ride}
           Value(c, p) ==
            \/ \E k \in Ending(batch) : c[2] \in DOMAIN batch[k].content /\ p = batch[k].content[c[2]]
            \/ c[2] \notin ride /\ \E s \in SlotsOf(batch) : c[2] \in rows[s].staged /\ p = rows[s].content[c[2]]
<1>1. \A k \in Ending(batch) : batch[k].content \in Contents
  <2> TAKE k \in Ending(batch)
  <2>1. k \in DOMAIN batch /\ batch[k].put = "amend"  BY DEF Ending
  <2>2. k \in Keys /\ (Removes(k, batch[k]) \/ AmendsKey(k, batch[k]) \/ Creates(k, batch[k]))
    BY <2>1, BatchFacts
  <2>3. AmendsKey(k, batch[k])  BY <2>1, <2>2, RemovalFields, CreateFields
  <2>4. QED  BY <2>2, <2>3, AmendFields
<1>2. \A s \in SlotsOf(batch) : rows[s] \in Row  BY SlotsOfType
<1>3. staged \subseteq Extents /\ ride \subseteq Extents
  BY <1>1, <1>2, ContentsFacts DEF Row
<1>4. \A e \in staged \cup ride : \E p \in Payload : Value(Data(e), p)
  <2> SUFFICES ASSUME NEW e \in staged \cup ride PROVE \E p \in Payload : Value(Data(e), p)
    OBVIOUS
  <2>1. Data(e)[2] = e  BY DEF Data
  <2>2. CASE e \in ride
    <3>1. PICK k \in Ending(batch) : e \in DOMAIN batch[k].content  BY <2>2
    <3>2. batch[k].content[e] \in Payload  BY <3>1, <1>1, ContentsFacts
    <3>3. QED  BY <2>1, <3>1, <3>2
  <2>3. CASE e \notin ride
    <3>1. PICK s \in SlotsOf(batch) : e \in rows[s].staged  BY <2>3
    <3>2. rows[s].content[e] \in Payload  BY <3>1, <1>2, ContentsFacts DEF Row
    <3>3. QED  BY <2>1, <2>3, <3>1, <3>2
  <2>4. QED  BY <2>2, <2>3
<1>5. PayloadWrites(batch) = [c \in C |-> CHOOSE p \in Payload : Value(c, p)]
  BY DEF PayloadWrites
<1>6. \A c \in C : \E p \in Payload : Value(c, p)  BY <1>4
<1> HIDE DEF Value
<1>7. [c \in C |-> CHOOSE p \in Payload : Value(c, p)] \in [C -> Payload]  BY <1>6
<1>8. C \in SUBSET {Data(e) : e \in Extents}  BY <1>3
<1>9. QED  BY <1>5, <1>7, <1>8

\* The plan that commit makes before its first card command is well typed.
LEMMA BeginType ==
    ASSUME TypeOK, Serving \in Catalog, served.next \in 1 .. MaxObjectId, NEW batch \in Batches, Begin(batch)
    PROVE  TypeOK' /\ op' \in Operation
<1>1. PICK next \in NextObject(batch) :
         /\ Accepts(batch, Merged(batch, next))
         /\ op' = [phase  |-> IF SlotsOf(batch) # {} \/ Ending(batch) # {} THEN "flush" ELSE "invalidate",
                   body   |-> Merged(batch, next),
                   freed  |-> [k \in DOMAIN batch |-> ResolvedFreed(k, batch[k])],
                   slots  |-> SlotsOf(batch),
                   writes |-> PayloadWrites(batch)]
  BY DEF Begin
<1>2. DOMAIN batch \subseteq Keys  BY BatchFacts
<1>3. next \in 1 .. MaxObjectId
  <2>1. \A k \in Keys : IdOf(k) + 1 \in 1 .. MaxObjectId
    BY ConstantsAssumption DEF Keys, IdOf
  <2>2. next \in {served.next} \cup {IdOf(k) + 1 : k \in DOMAIN batch}
    BY DEF NextObject, Greatest
  <2>3. QED  BY <2>1, <2>2, <1>2
<1>4. Merged(batch, next) \in Catalog
  <2>1. served.high + 1 \in 1 .. MaxSequence
    BY <1>1, TypeParts, ConstantsAssumption DEF Accepts, ServedType
  <2>2. \A k \in DOMAIN batch : ResolvedEntry(k, batch[k]) \in Entry \cup {None}
    BY BatchFacts, ResolvedType
  <2>3. Serving.entries \in [Keys -> Entry \cup {None}]  BY DEF Catalog
  <2>4. [k \in Keys |-> IF k \in DOMAIN batch THEN ResolvedEntry(k, batch[k]) ELSE Serving.entries[k]]
           \in [Keys -> Entry \cup {None}]
    BY <2>2, <2>3
  <2>5. QED  BY <2>1, <2>4, <1>3 DEF Merged, Catalog
<1>5. [k \in DOMAIN batch |-> ResolvedFreed(k, batch[k])] \in UNION {[K -> SUBSET Extents] : K \in SUBSET Keys}
  <2>1. [k \in DOMAIN batch |-> ResolvedFreed(k, batch[k])] \in [DOMAIN batch -> SUBSET Extents]
    BY BatchFacts, ResolvedType
  <2>2. QED  BY <2>1, <1>2
<1>6. SlotsOf(batch) \subseteq Slots  BY SlotsOfType
<1>7. op' \in Operation
  BY <1>1, <1>4, <1>5, <1>6, PayloadWritesType DEF Operation, WritePhases
<1>8. QED  BY <1>7 DEF TypeOK, Begin

-----------------------------------------------------------------------------
(* Mounting, what is served, and reservations. *)

\* The catalog cells of the card are as they were.
CatalogsKept == \A c \in Copies : card'[Gate(c)] = card[Gate(c)] /\ card'[Body(c)] = card[Body(c)]

\* What a mounted store knows of the copy it serves.
LEMMA ServedFacts ==
    ASSUME StoreInvariant, Live
    PROVE  /\ served.copy \in Copies /\ Target \in Copies /\ Target # served.copy
           /\ Durable \in Catalog /\ Serving = Durable
           /\ served.next \in 1 .. MaxObjectId
           /\ StructureOk(Durable) /\ RangesDisjoint(Durable.entries)
<1>1. served.copy \in Copies /\ Target \in Copies /\ Target # served.copy
  BY TypeParts DEF StoreInvariant, ServedType, Copies, Target
<1>2. Loads(flash, served.copy) /\ card[Body(served.copy)] = Durable /\ Durable.next = served.next
  BY DEF StoreInvariant, ServedPart
<1>3. Durable \in Catalog
  BY <1>1, <1>2, TypeParts, GateType DEF StoreInvariant, Durable, Loads
<1>4. QED  BY <1>1, <1>2, <1>3 DEF Loads, Durable, Serving, Catalog

\* A step that leaves the catalogs, the resident mirror and the commit alone keeps
\* what StoreInvariant says of them.
LEMMA QuietStep ==
    ASSUME StoreInvariant, served.mode # "Off", CatalogsKept, UNCHANGED <<flash, served, op>>
    PROVE  OffPart' /\ ServedPart' /\ OutrankedPart' /\ PhasePart' /\ FencedPart'
<1>1. OffPart'  BY DEF StoreInvariant, OffPart
<1>2. Durable' = Durable /\ Live' = Live /\ Target' = Target
  BY DEF Durable, Live, Target
<1>3. Live => served.copy \in Copies /\ Target \in Copies  BY ServedFacts
<1>4. op # None => Live /\ Target \in Copies
  BY <1>3 DEF StoreInvariant, PhasePart, Live
<1>5. ServedPart'
  BY <1>2, <1>3 DEF StoreInvariant, ServedPart, CatalogsKept
<1>6. OutrankedPart'
  BY <1>2, <1>3 DEF StoreInvariant, OutrankedPart, CatalogsKept
<1>7. PhasePart'
  BY <1>2, <1>4 DEF StoreInvariant, PhasePart, CatalogsKept
<1>8. FencedPart'  BY DEF StoreInvariant, FencedPart
<1>9. QED  BY <1>1, <1>5, <1>6, <1>7, <1>8

\* Payload writes, landed or refused, never touch a catalog cell.
LEMMA PayloadSparesCatalogs ==
    ASSUME NEW w, DOMAIN w \subseteq {Data(e) : e \in Extents},
           card' = Put(card, w) \/ RefusedWrite(w)
    PROVE  CatalogsKept
<1>1. \A c \in Copies : Gate(c) \in Cells /\ Body(c) \in Cells /\ Gate(c) \notin DOMAIN w /\ Body(c) \notin DOMAIN w
  BY DEF Cells, Gate, Body, Data
<1>2. CASE card' = Put(card, w)  BY <1>1, <1>2 DEF Put, CatalogsKept
<1>3. CASE RefusedWrite(w)
  <2>1. PICK done \in SUBSET DOMAIN w, torn \in SUBSET (DOMAIN w) :
        card' = [c \in Cells |-> IF c \in torn THEN Ill ELSE IF c \in done THEN w[c] ELSE card[c]]
    BY <1>3 DEF RefusedWrite
  <2>2. QED  BY <2>1, <1>1 DEF CatalogsKept
<1>4. QED  BY <1>2, <1>3

\* The owners of extents are as they were.
LEMMA SameOwners ==
    ASSUME OwnersPart, PlanPart, UNCHANGED <<flash, served, used, holds, op>>,
           TakenRows' = TakenRows, \A s \in TakenRows : rows'[s].ranges = rows[s].ranges
    PROVE  OwnersPart' /\ PlanPart'
<1>1. Durable' = Durable /\ Live' = Live /\ HeldKeys' = HeldKeys
  BY DEF Durable, Live, HeldKeys
<1>2. OwnersPart'  BY <1>1 DEF OwnersPart
<1>3. PlanPart'  BY <1>1 DEF PlanPart, FromOwner
<1>4. QED  BY <1>2, <1>3

-----------------------------------------------------------------------------
(* Reservations. *)

\* allocate takes free extents only, so the new row overlaps no owner.
LEMMA AllocateStep == ASSUME StoreInvariant, NEW n, Allocate(n) PROVE StoreInvariant'
<1> DEFINE ranges == FirstOf(Free, n)
<1>1. Live /\ op = None /\ served.mode # "Off"  BY DEF Allocate, Writable, Live
<1>2. CatalogsKept  BY DEF CatalogsKept, Allocate
<1>3. OffPart' /\ ServedPart' /\ OutrankedPart' /\ PhasePart' /\ FencedPart'
  BY <1>1, <1>2, QuietStep DEF Allocate
<1>4. TypeOK'  BY AllocateType DEF StoreInvariant
<1>5. ranges \cap used = {}  BY DEF FirstOf, Free
<1>6. PICK s \in Slots : /\ rows[s] = None
                         /\ rows' = [rows EXCEPT ![s] = [ranges |-> ranges, content |-> NoContent,
                                                         staged |-> {}, sealed |-> FALSE]]
  BY DEF Allocate, Lowest
<1>7. rows \in [Slots -> Row \cup {None}]  BY TypeParts DEF StoreInvariant
<1>8. /\ rows'[s].ranges = ranges
      /\ \A t \in Slots : t # s => rows'[t] = rows[t]
  BY <1>6, <1>7
<1>9. TakenRows' \subseteq TakenRows \cup {s}  BY <1>8 DEF TakenRows
<1>10. /\ Durable' = Durable /\ HeldKeys' = HeldKeys /\ Live' = Live /\ s \notin TakenRows
       /\ used' = used \cup ranges /\ holds' = holds /\ op' = None
  BY <1>1, <1>6 DEF Allocate, Durable, HeldKeys, Live, TakenRows
<1> HIDE DEF ranges
<1>11. OwnersPart'
  <2>1. /\ Named(Durable.entries) \subseteq used
        /\ \A k \in Present(Durable.entries) : Durable.entries[k].ranges \subseteq used
    BY <1>1 DEF StoreInvariant, OwnersPart, Named
  <2>2. \A t \in TakenRows' : t = s \/ (t \in TakenRows /\ rows'[t] = rows[t])
    BY <1>8, <1>9, <1>10 DEF TakenRows
  <2>3. /\ Named(Durable.entries) \subseteq used'
        /\ \A t \in TakenRows' : rows'[t].ranges \subseteq used'
        /\ \A k \in HeldKeys : holds[k].ranges \subseteq used'
    BY <2>1, <2>2, <1>8, <1>10, <1>1 DEF StoreInvariant, OwnersPart
  <2>4. \A t, u \in TakenRows' : t # u => rows'[t].ranges \cap rows'[u].ranges = {}
    BY <2>2, <1>8, <1>5, <1>1 DEF StoreInvariant, OwnersPart
  <2>5. \A t \in TakenRows' : \A k \in Present(Durable.entries) :
           rows'[t].ranges \cap Durable.entries[k].ranges = {}
    BY <2>1, <2>2, <1>8, <1>5, <1>1 DEF StoreInvariant, OwnersPart
  <2>6. \A t \in TakenRows' : \A k \in HeldKeys : rows'[t].ranges \cap holds[k].ranges = {}
    BY <2>2, <1>8, <1>5, <1>1 DEF StoreInvariant, OwnersPart
  <2>7. QED  BY <2>3, <2>4, <2>5, <2>6, <1>1, <1>10 DEF StoreInvariant, OwnersPart
<1>12. PlanPart'  BY <1>10 DEF PlanPart
<1>13. QED  BY <1>3, <1>4, <1>11, <1>12 DEF StoreInvariant

\* write touches the extents of its row only, and moves no extent between owners.
LEMMA WriteStep ==
    ASSUME StoreInvariant, NEW s \in Slots, NEW p \in Payload, NEW partial \in BOOLEAN, Write(s, p, partial)
    PROVE  StoreInvariant'
<1> DEFINE after == RowAfterWrite(rows[s], p, partial)
           writes == CardWritesOf(rows[s], after)
<1>1. served.mode # "Off"  BY DEF Write, Writable
<1>2. rows \in [Slots -> Row \cup {None}] /\ rows[s] # None /\ rows[s] \in Row
  BY TypeParts DEF Write, LiveRow, StoreInvariant
<1>3. after \in Row  BY <1>2, RowAfterWriteType
<1>4. DOMAIN writes \subseteq {Data(e) : e \in Extents}
  BY <1>2, <1>3 DEF CardWritesOf, Row
<1>5. CatalogsKept  BY <1>4, PayloadSparesCatalogs DEF Write
<1>6. OffPart' /\ ServedPart' /\ OutrankedPart' /\ PhasePart' /\ FencedPart'
  BY <1>1, <1>5, QuietStep DEF Write
<1>7. TypeOK'  BY WriteType DEF StoreInvariant
<1>8. after.ranges = rows[s].ranges  BY <1>2 DEF RowAfterWrite, Row
<1>9. rows' = rows \/ rows' = [rows EXCEPT ![s] = after]  BY DEF Write
<1>10. TakenRows' = TakenRows /\ \A t \in TakenRows : rows'[t].ranges = rows[t].ranges
  BY <1>2, <1>3, <1>8, <1>9, NoneAssumption DEF TakenRows
<1>11. OwnersPart' /\ PlanPart'  BY <1>10, SameOwners DEF StoreInvariant, Write
<1>12. QED  BY <1>6, <1>7, <1>11 DEF StoreInvariant

\* seal touches the extents of its row only, and moves no extent between owners.
LEMMA SealStep == ASSUME StoreInvariant, NEW s \in Slots, Seal(s) PROVE StoreInvariant'
<1>1. served.mode # "Off"  BY DEF Seal, Writable
<1>2. rows \in [Slots -> Row \cup {None}] /\ rows[s] # None /\ rows[s] \in Row
  BY TypeParts DEF Seal, LiveRow, StoreInvariant
<1>3. DOMAIN StagedWrites(rows[s]) \subseteq {Data(e) : e \in Extents}
  BY <1>2 DEF StagedWrites, Row
<1>4. CatalogsKept  BY <1>3, PayloadSparesCatalogs DEF Seal
<1>5. OffPart' /\ ServedPart' /\ OutrankedPart' /\ PhasePart' /\ FencedPart'
  BY <1>1, <1>4, QuietStep DEF Seal
<1>6. TypeOK'  BY SealType DEF StoreInvariant
<1>7. TakenRows' = TakenRows /\ \A t \in TakenRows : rows'[t].ranges = rows[t].ranges
  <2>1. CASE rows' = rows  BY <2>1 DEF TakenRows
  <2>2. CASE rows' = [rows EXCEPT ![s].staged = {}, ![s].sealed = TRUE]
    <3> DEFINE row == [rows[s] EXCEPT !.staged = {}, !.sealed = TRUE]
    <3>1. rows' = [rows EXCEPT ![s] = row]  BY <2>2, <1>2 DEF Row
    <3>2. row \in Row /\ row.ranges = rows[s].ranges  BY <1>2 DEF Row
    <3> HIDE DEF row
    <3>3. QED  BY <3>1, <3>2, <1>2, NoneAssumption DEF TakenRows
  <2>3. QED  BY <2>1, <2>2 DEF Seal
<1>8. OwnersPart' /\ PlanPart'  BY <1>7, SameOwners DEF StoreInvariant, Seal
<1>9. QED  BY <1>5, <1>6, <1>8 DEF StoreInvariant

\* cancel frees extents of one row, which no entry, reader or other row owns.
LEMMA CancelStep == ASSUME StoreInvariant, NEW s \in Slots, Cancel(s) PROVE StoreInvariant'
<1>1. s \in TakenRows  BY DEF Cancel, TakenRows
<1>2. served.mode \in Modes  BY TypeParts DEF StoreInvariant, ServedType
<1>3. served.mode # "Off" /\ Live  BY <1>1, <1>2 DEF StoreInvariant, OffPart, Live, Modes
<1>4. CatalogsKept  BY DEF CatalogsKept, Cancel
<1>5. OffPart' /\ ServedPart' /\ OutrankedPart' /\ PhasePart' /\ FencedPart'
  BY <1>3, <1>4, QuietStep DEF Cancel
<1>6. TypeOK'  BY CancelType DEF StoreInvariant
<1>7. /\ Durable' = Durable /\ HeldKeys' = HeldKeys /\ Live' = Live
      /\ used' = used \ rows[s].ranges /\ holds' = holds /\ op' = None
  BY DEF Cancel, Durable, HeldKeys, Live
<1>8. rows \in [Slots -> Row \cup {None}]  BY TypeParts DEF StoreInvariant
<1>9. \A t \in TakenRows' : t \in TakenRows /\ t # s /\ rows'[t] = rows[t]
  BY <1>8 DEF TakenRows, Cancel
<1>10. OwnersPart'
  <2>1. Named(Durable.entries) \subseteq used'
    BY <1>1, <1>3, <1>7 DEF StoreInvariant, OwnersPart, Named
  <2>2. \A t \in TakenRows' : rows'[t].ranges \subseteq used'
    BY <1>1, <1>3, <1>7, <1>9 DEF StoreInvariant, OwnersPart
  <2>3. \A k \in HeldKeys : holds[k].ranges \subseteq used'
    BY <1>1, <1>3, <1>7 DEF StoreInvariant, OwnersPart
  <2>4. QED  BY <2>1, <2>2, <2>3, <1>3, <1>7, <1>9 DEF StoreInvariant, OwnersPart
<1>11. PlanPart'  BY <1>7 DEF PlanPart
<1>12. QED  BY <1>5, <1>6, <1>10, <1>11 DEF StoreInvariant

-----------------------------------------------------------------------------
(* Readers. *)

\* open shares the extents of the entry it opens with that entry alone.
LEMMA OpenStep == ASSUME StoreInvariant, NEW k \in Keys, Open(k) PROVE StoreInvariant'
<1>1. Live /\ served.mode # "Off"  BY DEF Open, Readable, Live
<1>2. Durable \in Catalog /\ Serving = Durable  BY <1>1, ServedFacts
<1>3. CatalogsKept  BY DEF CatalogsKept, Open
<1>4. OffPart' /\ ServedPart' /\ OutrankedPart' /\ PhasePart' /\ FencedPart'
  BY <1>1, <1>3, QuietStep DEF Open
<1>5. TypeOK'  BY <1>2, OpenType DEF StoreInvariant
<1>6. /\ Durable' = Durable /\ TakenRows' = TakenRows /\ Live' = Live
      /\ used' = used /\ rows' = rows /\ op' = op
  BY DEF Open, Durable, TakenRows, Live
<1>7. k \in Present(Durable.entries)  BY <1>2 DEF Open, Present
<1>8. holds \in [Keys -> Hold]  BY TypeParts DEF StoreInvariant
<1>9. /\ \A l \in Keys : l # k => holds'[l] = holds[l]
      /\ \/ k \in HeldKeys /\ holds'[k].ranges = holds[k].ranges
         \/ holds'[k].ranges = Durable.entries[k].ranges
  <2>1. CASE holds[k].readers > 0
    BY <2>1, <1>8 DEF Open, HeldKeys, Hold
  <2>2. CASE ~(holds[k].readers > 0)
    BY <2>2, <1>8, <1>2 DEF Open, Hold
  <2>3. QED  BY <2>1, <2>2
<1>10. \A l \in HeldKeys' : l = k \/ (l \in HeldKeys /\ holds'[l] = holds[l])
  BY <1>9 DEF HeldKeys
<1>11. OwnersPart'
  <2>1. Durable.entries[k].ranges \subseteq used
    BY <1>1, <1>7 DEF StoreInvariant, OwnersPart, Named
  <2>2. \A l \in HeldKeys' : holds'[l].ranges \subseteq used
    BY <2>1, <1>1, <1>9, <1>10 DEF StoreInvariant, OwnersPart
  <2>3. \A s \in TakenRows : \A l \in HeldKeys' : rows[s].ranges \cap holds'[l].ranges = {}
    BY <1>1, <1>7, <1>9, <1>10 DEF StoreInvariant, OwnersPart
  <2>4. \A l \in HeldKeys' : \A j \in Present(Durable.entries) :
           l # j => holds'[l].ranges \cap Durable.entries[j].ranges = {}
    <3>1. RangesDisjoint(Durable.entries)  BY <1>1, ServedFacts
    <3>2. QED  BY <3>1, <1>1, <1>7, <1>9, <1>10 DEF StoreInvariant, OwnersPart, RangesDisjoint
  <2>5. \A l, j \in HeldKeys' : l # j => holds'[l].ranges \cap holds'[j].ranges = {}
    BY <1>1, <1>7, <1>9, <1>10 DEF StoreInvariant, OwnersPart
  <2>6. QED  BY <2>2, <2>3, <2>4, <2>5, <1>1, <1>6 DEF StoreInvariant, OwnersPart
<1>12. PlanPart'  BY <1>6 DEF StoreInvariant, PlanPart, FromOwner
<1>13. QED  BY <1>4, <1>5, <1>11, <1>12 DEF StoreInvariant

\* close frees what its entry no longer names, which has no owner left.
LEMMA CloseStep == ASSUME StoreInvariant, NEW k \in Keys, Close(k) PROVE StoreInvariant'
<1>1. k \in HeldKeys  BY DEF Close, HeldKeys
<1>2. served.mode \in Modes  BY TypeParts DEF StoreInvariant, ServedType
<1>3. served.mode # "Off" /\ Live  BY <1>1, <1>2 DEF StoreInvariant, OffPart, Live, Modes
<1>4. Durable \in Catalog /\ Serving = Durable  BY <1>3, ServedFacts
<1>5. CatalogsKept  BY DEF CatalogsKept, Close
<1>6. OffPart' /\ ServedPart' /\ OutrankedPart' /\ PhasePart' /\ FencedPart'
  BY <1>3, <1>5, QuietStep DEF Close
<1>7. TypeOK'  BY CloseType DEF StoreInvariant
<1>8. /\ Durable' = Durable /\ TakenRows' = TakenRows /\ Live' = Live
      /\ rows' = rows /\ op' = op
  BY DEF Close, Durable, TakenRows, Live
<1>9. PlanPart'  BY <1>8 DEF StoreInvariant, PlanPart, FromOwner
<1>10. holds \in [Keys -> Hold]  BY TypeParts DEF StoreInvariant
<1>11. CASE holds[k].readers > 1
  <2>1. used' = used /\ holds' = [holds EXCEPT ![k].readers = @ - 1]  BY <1>11 DEF Close
  <2>2. HeldKeys' \subseteq HeldKeys /\ \A l \in HeldKeys : holds'[l].ranges = holds[l].ranges
    BY <2>1, <1>1, <1>10 DEF HeldKeys, Hold
  <2>3. OwnersPart'  BY <2>1, <2>2, <1>3, <1>8 DEF StoreInvariant, OwnersPart
  <2>4. QED  BY <2>3, <1>6, <1>7, <1>9 DEF StoreInvariant
<1>12. CASE ~(holds[k].readers > 1)
  <2>1. holds' = [holds EXCEPT ![k] = NoHold]  BY <1>12 DEF Close
  <2>2. \A l \in HeldKeys' : l \in HeldKeys /\ l # k /\ holds'[l] = holds[l]
    BY <2>1, <1>10 DEF HeldKeys, NoHold
  <2>3. used \ (holds[k].ranges \ StillNamed(k)) \subseteq used'
    BY <1>12 DEF Close
  <2>4. Named(Durable.entries) \subseteq used'
    <3> SUFFICES ASSUME NEW l \in Present(Durable.entries), NEW e \in Durable.entries[l].ranges
                 PROVE  e \in used'
      BY DEF Named
    <3>1. e \in used  BY <1>3 DEF StoreInvariant, OwnersPart, Named
    <3>2. CASE l # k
      BY <3>1, <3>2, <2>3, <1>1, <1>3 DEF StoreInvariant, OwnersPart
    <3>3. CASE l = k
      <4>1. e \in StillNamed(k)  BY <3>3, <1>4 DEF StillNamed, Present
      <4>2. QED  BY <4>1, <3>1, <2>3
    <3>4. QED  BY <3>2, <3>3
  <2>5. \A s \in TakenRows : rows[s].ranges \subseteq used'
    BY <2>3, <1>1, <1>3 DEF StoreInvariant, OwnersPart
  <2>6. \A l \in HeldKeys' : holds'[l].ranges \subseteq used'
    BY <2>2, <2>3, <1>1, <1>3 DEF StoreInvariant, OwnersPart
  <2>7. OwnersPart'  BY <2>2, <2>4, <2>5, <2>6, <1>3, <1>8 DEF StoreInvariant, OwnersPart
  <2>8. QED  BY <2>7, <1>6, <1>7, <1>9 DEF StoreInvariant
<1>13. QED  BY <1>11, <1>12

\* A listing changes nothing that another operation looks at.
LEMMA ListingSteps ==
    ASSUME StoreInvariant, ListStart \/ ListEnd
    PROVE  StoreInvariant'
<1>1. UNCHANGED <<card, flash, served, used, rows, holds, op>>  BY DEF ListStart, ListEnd
<1>2. TypeOK'
  <2>1. CASE ListStart
    BY <2>1, ServedFacts, ListStartType DEF ListStart, Readable, Live, StoreInvariant
  <2>2. CASE ListEnd  BY <2>2, ListEndType DEF StoreInvariant
  <2>3. QED  BY <2>1, <2>2
<1>3. OffPart' /\ ServedPart' /\ OutrankedPart' /\ PhasePart' /\ FencedPart' /\ OwnersPart' /\ PlanPart'
  BY <1>1 DEF StoreInvariant, OffPart, ServedPart, OutrankedPart, PhasePart, FencedPart, OwnersPart,
     PlanPart, FromOwner, Live, Durable, HeldKeys, TakenRows, Target, Truth
<1>4. QED  BY <1>2, <1>3 DEF StoreInvariant

-----------------------------------------------------------------------------
(* The commands of a commit. *)

\* What is known of a commit in progress.
LEMMA InProgress ==
    ASSUME StoreInvariant, op # None
    PROVE  /\ Live /\ op \in Operation /\ op.body \in Catalog /\ op.body # Ill
           /\ served.sequence < op.body.sequence
<1>1. Live  BY DEF StoreInvariant, PhasePart, Live
<1>2. op \in Operation /\ op.body \in Catalog  BY TypeParts, OpFields DEF StoreInvariant
<1>3. served.sequence <= served.high /\ op.body.sequence = served.high + 1
  BY <1>1 DEF StoreInvariant, ServedPart, PhasePart
<1>4. served.sequence \in Nat /\ served.high \in Nat
  BY TypeParts, ConstantsAssumption DEF StoreInvariant, ServedType
<1>5. QED  BY <1>1, <1>2, <1>3, <1>4, IllAssumption

\* The catalog cells are four different cells.
LEMMA FourCells ==
    ASSUME StoreInvariant, Live
    PROVE  /\ {Gate(served.copy), Body(served.copy), Gate(Target), Body(Target)} \subseteq Cells
           /\ Gate(served.copy) # Gate(Target) /\ Gate(served.copy) # Body(Target)
           /\ Body(served.copy) # Body(Target) /\ Body(served.copy) # Gate(Target)
           /\ Gate(Target) # Body(Target)
  BY ServedFacts, CellKinds DEF Gate, Body

\* A command of a commit writes no cell of the served copy, and of the other copy
\* only the one that its phase is about.
LEMMA WriteEffect ==
    ASSUME StoreInvariant, InCommit(WritePhases),
           card' = Put(card, PhaseWrites) \/ RefusedWrite(PhaseWrites)
    PROVE  /\ card'[Gate(served.copy)] = card[Gate(served.copy)]
           /\ card'[Body(served.copy)] = card[Body(served.copy)]
           /\ op.phase = "flush" => card'[Gate(Target)] = card[Gate(Target)]
           /\ op.phase = "body"  => card'[Gate(Target)] = card[Gate(Target)]
           /\ op.phase # "body"  => card'[Body(Target)] = card[Body(Target)]
           /\ op.phase = "invalidate" => card'[Gate(Target)] \in {Ill, card[Gate(Target)]}
           /\ op.phase = "gate"  => card'[Gate(Target)] \in {Ill, op.body, card[Gate(Target)]}
<1> DEFINE w == PhaseWrites
<1>1. op # None /\ op.phase \in WritePhases  BY DEF InCommit
<1>2. Live /\ op \in Operation  BY <1>1, InProgress
<1>3. /\ served.copy \in Copies /\ Target \in Copies  BY <1>2, ServedFacts
<1>4. \A c \in Cells : c \notin DOMAIN w => card'[c] = card[c]
  BY DEF Put, RefusedWrite
<1>5. \A c \in DOMAIN w : c \in Cells => card'[c] \in {Ill, w[c], card[c]}
  BY DEF Put, RefusedWrite
<1>6. CASE op.phase = "flush"
  <2>1. w = op.writes  BY <1>6 DEF PhaseWrites
  <2>2. DOMAIN w \subseteq {Data(e) : e \in Extents}  BY <2>1, <1>2, OpFields
  <2>3. CatalogsKept  BY <2>2, PayloadSparesCatalogs
  <2>4. QED  BY <2>3, <1>3, <1>6 DEF CatalogsKept
<1>7. CASE op.phase = "invalidate"
  <2>1. w = [c \in {Gate(Target)} |-> Ill]  BY <1>7 DEF PhaseWrites
  <2>2. DOMAIN w = {Gate(Target)} /\ w[Gate(Target)] = Ill  BY <2>1
  <2> HIDE DEF w
  <2>3. QED  BY <2>2, <1>2, <1>4, <1>5, <1>7, FourCells
<1>8. CASE op.phase = "body"
  <2>1. w = [c \in {Body(Target)} |-> op.body]  BY <1>8 DEF PhaseWrites
  <2>2. DOMAIN w = {Body(Target)}  BY <2>1
  <2> HIDE DEF w
  <2>3. QED  BY <2>2, <1>2, <1>4, <1>8, FourCells
<1>9. CASE op.phase = "gate"
  <2>1. w = [c \in {Gate(Target)} |-> op.body]  BY <1>9 DEF PhaseWrites
  <2>2. DOMAIN w = {Gate(Target)} /\ w[Gate(Target)] = op.body  BY <2>1
  <2> HIDE DEF w
  <2>3. QED  BY <2>2, <1>2, <1>4, <1>5, <1>9, FourCells
<1>10. QED  BY <1>1, <1>6, <1>7, <1>8, <1>9 DEF WritePhases

\* A command that lands writes what its phase is about.
LEMMA LandedEffect ==
    ASSUME StoreInvariant, InCommit(WritePhases), card' = Put(card, PhaseWrites)
    PROVE  /\ op.phase = "invalidate" => card'[Gate(Target)] = Ill
           /\ op.phase = "body" => card'[Body(Target)] = op.body
           /\ op.phase = "gate" => card'[Gate(Target)] = op.body
<1>1. Live  BY InProgress DEF InCommit
<1>2. Gate(Target) \in Cells /\ Body(Target) \in Cells  BY <1>1, FourCells
<1>3. ASSUME op.phase = "invalidate" PROVE card'[Gate(Target)] = Ill
  <2>1. PhaseWrites = [c \in {Gate(Target)} |-> Ill]  BY <1>3 DEF PhaseWrites
  <2>2. QED  BY <2>1, <1>2 DEF Put
<1>4. ASSUME op.phase = "body" PROVE card'[Body(Target)] = op.body
  <2>1. PhaseWrites = [c \in {Body(Target)} |-> op.body]  BY <1>4 DEF PhaseWrites
  <2>2. QED  BY <2>1, <1>2 DEF Put
<1>5. ASSUME op.phase = "gate" PROVE card'[Gate(Target)] = op.body
  <2>1. PhaseWrites = [c \in {Gate(Target)} |-> op.body]  BY <1>5 DEF PhaseWrites
  <2>2. QED  BY <2>1, <1>2 DEF Put
<1>6. QED  BY <1>3, <1>4, <1>5

\* A command of a commit leaves the owners and the plan alone.
LEMMA SamePlan ==
    ASSUME StoreInvariant, Durable' = Durable, Live' = Live, UNCHANGED <<used, rows, holds>>,
           \/ op' = None
           \/ op # None /\ op'.body = op.body /\ op'.slots = op.slots /\ op'.freed = op.freed
    PROVE  OwnersPart' /\ PlanPart'
<1>1. TakenRows' = TakenRows /\ HeldKeys' = HeldKeys  BY DEF TakenRows, HeldKeys
<1>2. OwnersPart'  BY <1>1 DEF StoreInvariant, OwnersPart
<1>3. PlanPart'
  <2>1. CASE op' = None  BY <2>1 DEF PlanPart
  <2>2. CASE op # None /\ op'.body = op.body /\ op'.slots = op.slots /\ op'.freed = op.freed
    BY <2>2, <1>1 DEF StoreInvariant, PlanPart, FromOwner
  <2>3. QED  BY <2>1, <2>2
<1>4. QED  BY <1>2, <1>3

\* A landed command prepares the copy that is not served.
LEMMA CommitWriteStep == ASSUME StoreInvariant, CommitWrite PROVE StoreInvariant'
<1>1. op # None /\ op.phase \in WritePhases /\ InCommit(WritePhases)  BY DEF CommitWrite, InCommit
<1>2. Live /\ op \in Operation  BY <1>1, InProgress
<1>3. TypeOK'  BY CommitWriteType DEF StoreInvariant
<1>4. /\ op'.phase = PhaseAfter(op.phase)
      /\ op'.body = op.body /\ op'.slots = op.slots /\ op'.freed = op.freed
  BY <1>2 DEF CommitWrite, Operation
<1>5. /\ op.phase = "flush" => op'.phase = "flush_sync"
      /\ op.phase = "invalidate" => op'.phase = "invalidate_sync"
      /\ op.phase = "body" => op'.phase = "body_sync"
      /\ op.phase = "gate" => op'.phase = "gate_sync"
  BY <1>4 DEF PhaseAfter
<1>6. Durable' = Durable /\ Live' = Live /\ Target' = Target
  BY DEF CommitWrite, Durable, Live, Target
<1>7. OwnersPart' /\ PlanPart'  BY <1>1, <1>4, <1>6, SamePlan DEF CommitWrite
<1>8. ServedPart'
  BY <1>1, <1>2, <1>6, WriteEffect DEF CommitWrite, StoreInvariant, ServedPart
<1>9. OutrankedPart'
  <2>1. CASE op.phase \in {"flush", "invalidate"}
    BY <2>1, <1>1, <1>2, <1>6, WriteEffect DEF CommitWrite, StoreInvariant, OutrankedPart
  <2>2. CASE op.phase \in {"body", "gate"}
    <3>1. op' \in Operation
      <4>1. PhaseAfter(op.phase) \in WritePhases \cup SyncPhases
        BY <1>1, PhaseAfterType DEF WritePhases, SyncPhases
      <4>2. QED  BY <4>1, <1>2 DEF CommitWrite, Operation
    <3>2. QED  BY <2>2, <3>1, <1>5, NoneAssumption DEF OutrankedPart
  <2>3. QED  BY <2>1, <2>2, <1>1 DEF WritePhases
<1>10. PhasePart'
  <2>1. served.mode = "ReadWrite" /\ op.body.sequence = served.high + 1
    BY <1>1 DEF StoreInvariant, PhasePart, WritePhases
  <2>2. CASE op.phase = "flush"
    BY <2>1, <2>2, <1>4, <1>5 DEF CommitWrite, PhasePart
  <2>3. CASE op.phase = "invalidate"
    BY <2>1, <2>3, <1>1, <1>4, <1>5, <1>6, LandedEffect DEF CommitWrite, PhasePart
  <2>4. CASE op.phase = "body"
    BY <2>1, <2>4, <1>1, <1>4, <1>5, <1>6, LandedEffect, WriteEffect DEF CommitWrite, PhasePart, StoreInvariant
  <2>5. CASE op.phase = "gate"
    BY <2>1, <2>5, <1>1, <1>4, <1>5, <1>6, LandedEffect, WriteEffect DEF CommitWrite, PhasePart, StoreInvariant
  <2>6. QED  BY <2>2, <2>3, <2>4, <2>5, <1>1 DEF WritePhases
<1>11. served.mode = "ReadWrite"  BY <1>1 DEF StoreInvariant, PhasePart, WritePhases
<1>12. OffPart' /\ FencedPart'
  BY <1>11 DEF CommitWrite, OffPart, FencedPart
<1>13. QED  BY <1>3, <1>7, <1>8, <1>9, <1>10, <1>12 DEF StoreInvariant

\* A landed synchronization makes what was prepared durable, in order.
LEMMA CommitSyncStep == ASSUME StoreInvariant, CommitSync PROVE StoreInvariant'
<1>1. op # None /\ op.phase \in SyncPhases \ {"gate_sync"}  BY DEF CommitSync, InCommit
<1>2. Live /\ op \in Operation  BY <1>1, InProgress
<1>3. TypeOK'  BY CommitSyncType DEF StoreInvariant
<1>4. /\ op'.phase = PhaseAfter(op.phase)
      /\ op'.body = op.body /\ op'.slots = op.slots /\ op'.freed = op.freed
  BY <1>2 DEF CommitSync, Operation
<1>5. /\ op.phase = "flush_sync" => op'.phase = "invalidate"
      /\ op.phase = "invalidate_sync" => op'.phase = "body"
      /\ op.phase = "body_sync" => op'.phase = "gate"
  BY <1>4 DEF PhaseAfter
<1>6. Durable' = Durable /\ Live' = Live /\ Target' = Target
  BY <1>2 DEF CommitSync, Durable, Live, Target, StoreInvariant, ServedPart
<1>7. OwnersPart' /\ PlanPart'  BY <1>1, <1>4, <1>6, SamePlan DEF CommitSync
<1>8. ServedPart'
  BY <1>1, <1>2, <1>6 DEF CommitSync, StoreInvariant, ServedPart, Loads, Durable
<1>9. OutrankedPart'
  <2>1. CASE op.phase = "flush_sync"
    BY <2>1, <1>1, <1>2, <1>6 DEF CommitSync, StoreInvariant, OutrankedPart, Loads
  <2>2. CASE op.phase \in {"invalidate_sync", "body_sync"}
    <3>1. card[Gate(Target)] = Ill  BY <2>2, <1>1 DEF StoreInvariant, PhasePart
    <3>2. QED  BY <3>1, <1>6 DEF CommitSync, OutrankedPart
  <2>3. QED  BY <2>1, <2>2, <1>1 DEF SyncPhases
<1>10. PhasePart'
  <2>1. served.mode = "ReadWrite" /\ op.body.sequence = served.high + 1
    BY <1>1 DEF StoreInvariant, PhasePart, SyncPhases
  <2>2. CASE op.phase = "flush_sync"
    BY <2>1, <2>2, <1>4, <1>5 DEF CommitSync, PhasePart
  <2>3. CASE op.phase = "invalidate_sync"
    BY <2>1, <2>3, <1>1, <1>4, <1>5, <1>6 DEF CommitSync, PhasePart, StoreInvariant
  <2>4. CASE op.phase = "body_sync"
    BY <2>1, <2>4, <1>1, <1>4, <1>5, <1>6 DEF CommitSync, PhasePart, StoreInvariant
  <2>5. QED  BY <2>2, <2>3, <2>4, <1>1 DEF SyncPhases
<1>11. served.mode = "ReadWrite"  BY <1>1 DEF StoreInvariant, PhasePart, SyncPhases
<1>12. OffPart' /\ FencedPart'
  BY <1>11 DEF CommitSync, OffPart, FencedPart
<1>13. QED  BY <1>3, <1>7, <1>8, <1>9, <1>10, <1>12 DEF StoreInvariant

\* A refused synchronization keeps or replaces each cell.
LEMMA SyncEffect ==
    ASSUME RefusedSync
    PROVE  \A c \in Cells : flash'[c] \in {card[c], flash[c]}
<1>1. PICK done \in SUBSET Dirty :
        flash' = [c \in Cells |-> IF c \in done THEN card[c] ELSE flash[c]]
  BY DEF RefusedSync
<1>2. QED  BY <1>1

\* What a refused command leaves of the two catalog copies.
LEMMA RefusedEffect ==
    ASSUME StoreInvariant, op # None, RefusedCommand
    PROVE  /\ card'[Gate(served.copy)] = Durable /\ flash'[Gate(served.copy)] = Durable
           /\ card'[Body(served.copy)] = Durable /\ flash'[Body(served.copy)] = flash[Body(served.copy)]
           /\ \/ InCommit(WritePhases) /\ RefusedWrite(PhaseWrites) /\ flash' = flash
              \/ /\ InCommit(SyncPhases) /\ card' = card
                 /\ flash'[Gate(Target)] \in {card[Gate(Target)], flash[Gate(Target)]}
                 /\ flash'[Body(Target)] \in {card[Body(Target)], flash[Body(Target)]}
<1>1. Live  BY InProgress
<1>2. /\ card[Gate(served.copy)] = Durable /\ card[Body(served.copy)] = Durable
      /\ flash[Body(served.copy)] = Durable
  BY <1>1 DEF StoreInvariant, ServedPart, Loads, Durable
<1>3. CASE InCommit(WritePhases) /\ RefusedWrite(PhaseWrites) /\ UNCHANGED flash
  BY <1>2, <1>3, WriteEffect DEF Durable
<1>4. CASE InCommit(SyncPhases) /\ RefusedSync /\ UNCHANGED card
  BY <1>1, <1>2, <1>4, SyncEffect, FourCells DEF Durable
<1>5. QED  BY <1>3, <1>4 DEF RefusedCommand

\* A commit that is refused before its gate leaves the served copy in force.
LEMMA CommitErrorStep == ASSUME StoreInvariant, CommitError PROVE StoreInvariant'
<1>1. op # None /\ op.phase \notin {"gate", "gate_sync"} /\ RefusedCommand  BY DEF CommitError
<1>2. Live  BY <1>1, InProgress
<1>3. TypeOK'  BY CommitErrorType DEF StoreInvariant
<1>4. op.phase \in {"flush", "flush_sync", "invalidate", "invalidate_sync", "body", "body_sync"}
  BY <1>1 DEF RefusedCommand, InCommit, WritePhases, SyncPhases
<1>5. Durable' = Durable /\ Live' = Live /\ Target' = Target /\ op' = None
  BY <1>1, RefusedEffect DEF CommitError, Durable, Live, Target
<1>6. OwnersPart' /\ PlanPart'  BY <1>5, SamePlan DEF CommitError
<1>7. served.mode = "ReadWrite"  BY <1>1, <1>4 DEF StoreInvariant, PhasePart
<1>8. ServedPart'
  BY <1>1, <1>2, <1>5, RefusedEffect DEF CommitError, StoreInvariant, ServedPart, Loads, Durable
<1>9. OutrankedPart'
  <2>1. CASE op.phase \in {"flush", "invalidate"}
    <3>1. InCommit(WritePhases) /\ RefusedWrite(PhaseWrites) /\ flash' = flash
      BY <2>1, <1>1, RefusedEffect DEF InCommit, WritePhases, SyncPhases
    <3>2. QED  BY <2>1, <3>1, <1>1, <1>2, <1>5, WriteEffect DEF StoreInvariant, OutrankedPart, CommitError
  <2>2. CASE op.phase \in {"flush_sync", "invalidate_sync"}
    <3>1. /\ card' = card
          /\ flash'[Gate(Target)] \in {card[Gate(Target)], flash[Gate(Target)]}
          /\ flash'[Body(Target)] \in {card[Body(Target)], flash[Body(Target)]}
      BY <2>2, <1>1, RefusedEffect DEF InCommit, WritePhases, SyncPhases
    <3>2. card[Gate(Target)] \in {Ill, flash[Gate(Target)]}
      BY <2>2, <1>2 DEF StoreInvariant, OutrankedPart
    <3>3. CASE flash'[Gate(Target)] = Ill
      <4>1. op.phase = "invalidate_sync" => card[Gate(Target)] = Ill
        BY <1>1 DEF StoreInvariant, PhasePart
      <4>2. QED  BY <3>1, <3>2, <3>3, <4>1, <1>5, <2>2 DEF OutrankedPart
    <3>4. CASE flash'[Gate(Target)] # Ill
      <4>1. flash'[Gate(Target)] = flash[Gate(Target)]  BY <3>1, <3>2, <3>4
      <4>2. flash'[Body(Target)] = flash[Body(Target)] /\ card[Body(Target)] = flash[Body(Target)]
        BY <3>1, <3>4, <4>1, <2>2, <1>2 DEF StoreInvariant, OutrankedPart
      <4>3. QED  BY <3>1, <3>2, <4>1, <4>2, <2>2, <1>2, <1>5 DEF StoreInvariant, OutrankedPart, CommitError, Loads
    <3>5. QED  BY <3>3, <3>4
  <2>3. CASE op.phase \in {"body", "body_sync"}
    <3>1. card[Gate(Target)] = Ill /\ flash[Gate(Target)] = Ill
      BY <2>3, <1>1 DEF StoreInvariant, PhasePart
    <3>2. card'[Gate(Target)] = Ill /\ flash'[Gate(Target)] = Ill
      BY <2>3, <3>1, <1>1, RefusedEffect, WriteEffect DEF InCommit, WritePhases, SyncPhases
    <3>3. QED  BY <3>2, <1>5 DEF OutrankedPart
  <2>4. QED  BY <2>1, <2>2, <2>3, <1>4
<1>10. PhasePart' /\ OffPart' /\ FencedPart'
  BY <1>5, <1>7 DEF CommitError, PhasePart, OffPart, FencedPart
<1>11. QED  BY <1>3, <1>6, <1>8, <1>9, <1>10 DEF StoreInvariant

\* A commit refused in its gate fences the mount; the gate is absent or whole.
LEMMA CommitUncertainStep == ASSUME StoreInvariant, CommitUncertain PROVE StoreInvariant'
<1>1. op # None /\ op.phase \in {"gate", "gate_sync"} /\ RefusedCommand
  BY DEF CommitUncertain, InCommit
<1>2. Live /\ op \in Operation  BY <1>1, InProgress
<1>3. TypeOK'  BY CommitUncertainType DEF StoreInvariant
<1>4. /\ op' \in Operation /\ op'.phase = "uncertain"
      /\ op'.body = op.body /\ op'.slots = op.slots /\ op'.freed = op.freed
  BY <1>2 DEF CommitUncertain, Operation
<1>5. op' # None  BY <1>4, NoneAssumption
<1>6. served \in ServedType  BY TypeParts DEF StoreInvariant
<1>7. /\ served'.mode = "RemountRequired" /\ served'.copy = served.copy /\ served'.sequence = served.sequence
      /\ served'.high = served.high /\ served'.next = served.next
  BY <1>6 DEF CommitUncertain, ServedType
<1>8. Durable' = Durable /\ Live' = Live /\ Target' = Target
  BY <1>1, <1>2, <1>7, RefusedEffect DEF Durable, Live, Target
<1>9. OwnersPart' /\ PlanPart'  BY <1>1, <1>4, <1>8, SamePlan DEF CommitUncertain
<1>10. ServedPart'
  BY <1>1, <1>2, <1>7, <1>8, RefusedEffect DEF StoreInvariant, ServedPart, Loads, Durable
<1>11. OutrankedPart'  BY <1>4, <1>5 DEF OutrankedPart
<1>12. PhasePart'
  <2>1. /\ op.body.sequence = served.high + 1 /\ flash[Gate(Target)] = Ill
        /\ card[Body(Target)] = op.body /\ flash[Body(Target)] = op.body
        /\ card[Gate(Target)] \in {Ill, op.body}
    BY <1>1 DEF StoreInvariant, PhasePart
  <2>2. /\ card'[Body(Target)] = op.body /\ flash'[Body(Target)] = op.body
        /\ {card'[Gate(Target)], flash'[Gate(Target)]} \subseteq {Ill, op.body}
    <3>1. CASE op.phase = "gate"
      <4>1. InCommit(WritePhases) /\ RefusedWrite(PhaseWrites) /\ flash' = flash
        BY <3>1, <1>1, RefusedEffect DEF InCommit, WritePhases, SyncPhases
      <4>2. QED  BY <3>1, <4>1, <2>1, WriteEffect
    <3>2. CASE op.phase = "gate_sync"
      BY <3>2, <2>1, <1>1, RefusedEffect DEF InCommit, WritePhases, SyncPhases
    <3>3. QED  BY <3>1, <3>2, <1>1
  <2>3. QED  BY <2>1, <2>2, <1>4, <1>7, <1>8 DEF PhasePart
<1>13. OffPart' /\ FencedPart'  BY <1>4, <1>5, <1>7 DEF OffPart, FencedPart
<1>14. QED  BY <1>3, <1>9, <1>10, <1>11, <1>12, <1>13 DEF StoreInvariant

\* Publishing hands rows to entries and frees what neither entry nor reader owns.
LEMMA CommitPublishStep == ASSUME StoreInvariant, CommitPublish PROVE StoreInvariant'
<1>1. op # None /\ op.phase = "gate_sync"  BY DEF CommitPublish, InCommit
<1>2. Live /\ op \in Operation /\ op.body \in Catalog /\ op.body # Ill /\ served.sequence < op.body.sequence
  BY <1>1, InProgress
<1>3. TypeOK'  BY CommitPublishType DEF StoreInvariant
<1>4. served.mode = "ReadWrite" /\ card[Gate(Target)] = op.body /\ card[Body(Target)] = op.body
  BY <1>1 DEF StoreInvariant, PhasePart
<1>5. /\ served'.mode \in {"ReadWrite", "SequenceSpaceExhausted"} /\ served'.copy = Target
      /\ served'.sequence = op.body.sequence /\ served'.high = op.body.sequence
      /\ served'.next = op.body.next /\ op' = None /\ flash' = card /\ card' = card
  BY <1>4 DEF CommitPublish
<1>6. served.copy \in Copies /\ Target' = served.copy
  BY <1>2, <1>5, ServedFacts DEF Target, Copies
<1>7. Live' /\ Durable' = op.body
  BY <1>4, <1>5 DEF Live, Durable
<1>8. StructureOk(op.body) /\ RangesDisjoint(op.body.entries)
  BY <1>1 DEF StoreInvariant, PlanPart
<1>9. ServedPart'
  <2>1. op.body.sequence \in Nat  BY <1>2 DEF Catalog
  <2>2. QED  BY <2>1, <1>2, <1>4, <1>5, <1>7, <1>8 DEF ServedPart, Loads
<1>10. OutrankedPart'
  <2>1. /\ card[Gate(served.copy)] = Durable /\ Durable.sequence = served.sequence
    BY <1>2 DEF StoreInvariant, ServedPart
  <2>2. served.sequence \in Nat /\ op.body.sequence \in Nat
    BY <1>2, TypeParts DEF StoreInvariant, ServedType, Catalog
  <2>3. QED  BY <2>1, <2>2, <1>2, <1>5, <1>6 DEF OutrankedPart
<1>11. OwnersPart'
  <2>1. /\ used' = used \ Released(op.freed) /\ holds' = holds
        /\ rows' = [s \in Slots |-> IF s \in op.slots THEN None ELSE rows[s]]
    BY DEF CommitPublish
  <2>2. HeldKeys' = HeldKeys  BY <2>1 DEF HeldKeys
  <2>3. \A s \in TakenRows' : s \in TakenRows /\ s \notin op.slots /\ rows'[s] = rows[s]
    BY <2>1 DEF TakenRows
  <2>4. op.slots \subseteq TakenRows  BY <1>1 DEF StoreInvariant, PlanPart
  <2>5. \A k \in Present(op.body.entries) :
           \/ k \in Present(Durable.entries) /\ op.body.entries[k].ranges \subseteq Durable.entries[k].ranges
           \/ \E s \in op.slots : op.body.entries[k].ranges \subseteq rows[s].ranges
    BY <1>1 DEF StoreInvariant, PlanPart, FromOwner, Present
  <2>6. \A k \in DOMAIN op.freed :
           \/ k \in Present(Durable.entries) /\ op.freed[k] \subseteq Durable.entries[k].ranges
           \/ \E s \in op.slots : op.freed[k] \subseteq rows[s].ranges
    <3>1. DOMAIN op.freed \subseteq Keys  BY <1>2, OpFields
    <3>2. QED  BY <3>1, <1>1 DEF StoreInvariant, PlanPart, FromOwner, Present
  <2>7. Named(op.body.entries) \subseteq used'
    <3> SUFFICES ASSUME NEW k \in Present(op.body.entries), NEW e \in op.body.entries[k].ranges
                 PROVE  e \in used'
      BY DEF Named
    <3>1. e \in used
      BY <2>4, <2>5, <1>2 DEF StoreInvariant, OwnersPart, Named
    <3>2. e \notin Released(op.freed)  BY <1>1 DEF Released, StoreInvariant, PlanPart
    <3>3. QED  BY <3>1, <3>2, <2>1
  <2>8. \A s \in TakenRows' : rows'[s].ranges \subseteq used'
    BY <2>1, <2>3, <2>4, <2>6, <1>2 DEF Released, StoreInvariant, OwnersPart
  <2>9. \A k \in HeldKeys : holds[k].ranges \subseteq used'
    <3> SUFFICES ASSUME NEW k \in HeldKeys, NEW e \in holds[k].ranges, NEW l \in DOMAIN op.freed,
                        holds[l].readers = 0, e \in op.freed[l]
                 PROVE  FALSE
      BY <2>1, <1>2 DEF Released, StoreInvariant, OwnersPart
    <3>1. k # l  BY DEF HeldKeys
    <3>2. QED  BY <3>1, <2>4, <2>6, <1>2 DEF StoreInvariant, OwnersPart
  <2>10. \A s, t \in TakenRows' : s # t => rows'[s].ranges \cap rows'[t].ranges = {}
    BY <2>3, <1>2 DEF StoreInvariant, OwnersPart
  <2>11. \A s \in TakenRows' : \A k \in Present(op.body.entries) :
            rows'[s].ranges \cap op.body.entries[k].ranges = {}
    BY <2>3, <2>4, <2>5, <1>2 DEF StoreInvariant, OwnersPart
  <2>12. \A s \in TakenRows' : \A k \in HeldKeys : rows'[s].ranges \cap holds[k].ranges = {}
    BY <2>3, <1>2 DEF StoreInvariant, OwnersPart
  <2>13. \A k \in HeldKeys : \A l \in Present(op.body.entries) :
            k # l => holds[k].ranges \cap op.body.entries[l].ranges = {}
    BY <2>4, <2>5, <1>2 DEF StoreInvariant, OwnersPart
  <2>14. QED
    BY <2>1, <2>2, <2>7, <2>8, <2>9, <2>10, <2>11, <2>12, <2>13, <1>2, <1>7 DEF StoreInvariant, OwnersPart
<1>12. PhasePart' /\ OffPart' /\ FencedPart' /\ PlanPart'
  BY <1>5 DEF PhasePart, OffPart, FencedPart, PlanPart
<1>13. QED  BY <1>3, <1>9, <1>10, <1>11, <1>12 DEF StoreInvariant

-----------------------------------------------------------------------------
(* The plan of a commit: what it publishes and frees has one owner. *)

Creating(batch, k) == k \in DOMAIN batch /\ batch[k].put = "fresh"
\* The extents that the new entry and the freed extents of a key are taken from.
Origin(batch, k) == IF Creating(batch, k) THEN rows[batch[k].slot].ranges ELSE Durable.entries[k].ranges
HasOrigin(batch, k) == Creating(batch, k) \/ Durable.entries[k] # None

\* What a key publishes and frees comes from its old entry or from its own row.
LEMMA BatchOrigins ==
    ASSUME StoreInvariant, Live, NEW batch \in Batches, NEW next, NEW k \in Keys
    PROVE  /\ Creating(batch, k) => batch[k].slot \in SlotsOf(batch) /\ batch[k].slot \in TakenRows
           /\ Merged(batch, next).entries[k] # None =>
                HasOrigin(batch, k) /\ Merged(batch, next).entries[k].ranges \subseteq Origin(batch, k)
           /\ k \in DOMAIN batch =>
                HasOrigin(batch, k) /\ ResolvedFreed(k, batch[k]) \subseteq Origin(batch, k)
           /\ k \in DOMAIN batch /\ Merged(batch, next).entries[k] # None =>
                ResolvedFreed(k, batch[k]) \cap Merged(batch, next).entries[k].ranges = {}
<1>1. TypeOK /\ Durable \in Catalog /\ Serving = Durable  BY ServedFacts DEF StoreInvariant
<1>2. Merged(batch, next).entries[k] = IF k \in DOMAIN batch THEN ResolvedEntry(k, batch[k]) ELSE Durable.entries[k]
  BY <1>1 DEF Merged
<1>3. CASE k \notin DOMAIN batch
  BY <1>2, <1>3 DEF Creating, HasOrigin, Origin
<1>4. CASE k \in DOMAIN batch
  <2> DEFINE m == batch[k]
  <2>1. Removes(k, m) \/ AmendsKey(k, m) \/ Creates(k, m)  BY <1>4, BatchFacts
  <2>2. CASE Removes(k, m)
    <3>1. m.put = "remove" /\ Durable.entries[k] # None
      BY <2>2, <1>1, RemovalFields DEF Removes
    <3>2. ResolvedEntry(k, m) = None /\ ResolvedFreed(k, m) = Durable.entries[k].ranges
      BY <3>1, <1>1 DEF ResolvedEntry, ResolvedFreed
    <3>3. QED  BY <3>1, <3>2, <1>2, <1>4 DEF Creating, HasOrigin, Origin
  <2>3. CASE AmendsKey(k, m)
    <3>1. /\ m.put = "amend" /\ Durable.entries[k] # None /\ Durable.entries[k] \in Entry
          /\ \/ m.flag = Durable.entries[k].flag /\ m.content = Durable.entries[k].content
             \/ m.flag = "plain" /\ DOMAIN m.content \subseteq Durable.entries[k].ranges
      BY <2>3, <1>1, AmendFields DEF AmendsKey
    <3>2. EntryOk(Durable.entries[k])
      BY <3>1, ServedFacts DEF StructureOk, Present
    <3>3. DOMAIN m.content \subseteq Durable.entries[k].ranges  BY <3>1, <3>2 DEF EntryOk
    <3>4. /\ ResolvedEntry(k, m).ranges = IF HoldsSlack(m.flag) THEN Durable.entries[k].ranges ELSE DOMAIN m.content
          /\ ResolvedFreed(k, m) = Durable.entries[k].ranges \ ResolvedEntry(k, m).ranges
      BY <3>1, <1>1 DEF ResolvedEntry, ResolvedFreed
    <3>5. QED  BY <3>1, <3>3, <3>4, <1>2, <1>4 DEF Creating, HasOrigin, Origin
  <2>4. CASE Creates(k, m)
    <3>1. /\ m.put = "fresh" /\ m.slot \in Slots /\ LiveRow(m.slot)
          /\ DOMAIN m.content \subseteq rows[m.slot].ranges
      BY <2>4, <1>1, CreateFields
    <3>2. /\ ResolvedEntry(k, m).ranges = IF HoldsSlack(m.flag) THEN rows[m.slot].ranges ELSE DOMAIN m.content
          /\ ResolvedFreed(k, m) = rows[m.slot].ranges \ ResolvedEntry(k, m).ranges
      BY <3>1, <1>1 DEF ResolvedEntry, ResolvedFreed
    <3>3. m.slot \in SlotsOf(batch) /\ m.slot \in TakenRows
      BY <3>1, <1>4 DEF SlotsOf, TakenRows, LiveRow
    <3>4. QED  BY <3>1, <3>2, <3>3, <1>2, <1>4 DEF Creating, HasOrigin, Origin
  <2>5. QED  BY <2>1, <2>2, <2>3, <2>4
<1>5. QED  BY <1>3, <1>4

\* Two keys of the new catalog never take extents from the same owner.
LEMMA OriginsDisjoint ==
    ASSUME StoreInvariant, Live, NEW batch \in Batches, NEW k \in Keys, NEW l \in Keys, k # l,
           HasOrigin(batch, k), HasOrigin(batch, l),
           \A i, j \in DOMAIN batch : batch[i].put = "fresh" /\ batch[j].put = "fresh" /\ i # j =>
               batch[i].slot # batch[j].slot
    PROVE  Origin(batch, k) \cap Origin(batch, l) = {}
<1>1. RangesDisjoint(Durable.entries)  BY ServedFacts
<1>2. /\ Creating(batch, k) => batch[k].slot \in TakenRows
      /\ Creating(batch, l) => batch[l].slot \in TakenRows
  BY BatchOrigins
<1>3. CASE Creating(batch, k) /\ Creating(batch, l)
  <2>1. batch[k].slot # batch[l].slot  BY <1>3 DEF Creating
  <2>2. QED  BY <2>1, <1>2, <1>3 DEF Origin, StoreInvariant, OwnersPart
<1>4. CASE Creating(batch, k) /\ ~Creating(batch, l)
  <2>1. l \in Present(Durable.entries)  BY <1>4 DEF HasOrigin, Present
  <2>2. QED  BY <2>1, <1>2, <1>4 DEF Origin, StoreInvariant, OwnersPart
<1>5. CASE ~Creating(batch, k) /\ Creating(batch, l)
  <2>1. k \in Present(Durable.entries)  BY <1>5 DEF HasOrigin, Present
  <2>2. QED  BY <2>1, <1>2, <1>5 DEF Origin, StoreInvariant, OwnersPart
<1>6. CASE ~Creating(batch, k) /\ ~Creating(batch, l)
  BY <1>1, <1>6 DEF HasOrigin, Origin, RangesDisjoint, Present
<1>7. QED  BY <1>3, <1>4, <1>5, <1>6

\* The plan of a commit takes every extent from one owner.
LEMMA BeginStep == ASSUME StoreInvariant, NEW batch \in Batches, Begin(batch) PROVE StoreInvariant'
<1>1. PICK next \in NextObject(batch) :
         /\ Accepts(batch, Merged(batch, next))
         /\ op' = [phase  |-> IF SlotsOf(batch) # {} \/ Ending(batch) # {} THEN "flush" ELSE "invalidate",
                   body   |-> Merged(batch, next),
                   freed  |-> [k \in DOMAIN batch |-> ResolvedFreed(k, batch[k])],
                   slots  |-> SlotsOf(batch),
                   writes |-> PayloadWrites(batch)]
  BY DEF Begin
<1>2. op = None /\ served.mode = "ReadWrite" /\ Live
  BY <1>1 DEF Begin, Accepts, Writable, Live
<1>3. Durable \in Catalog /\ Serving = Durable /\ served.next \in 1 .. MaxObjectId
  BY <1>2, ServedFacts
<1>4. TypeOK'  BY <1>3, BeginType DEF StoreInvariant
<1>5. Durable' = Durable /\ Live' = Live /\ Target' = Target /\ TakenRows' = TakenRows /\ HeldKeys' = HeldKeys
  BY DEF Begin, Durable, Live, Target, TakenRows, HeldKeys
<1>6. /\ op'.phase \in {"flush", "invalidate"} /\ op'.body = Merged(batch, next) /\ op'.slots = SlotsOf(batch)
      /\ op'.freed = [k \in DOMAIN batch |-> ResolvedFreed(k, batch[k])]
  BY <1>1
<1>7. OffPart' /\ ServedPart' /\ FencedPart' /\ OwnersPart'
  BY <1>2, <1>5 DEF Begin, StoreInvariant, OffPart, ServedPart, FencedPart, OwnersPart
<1>8. OutrankedPart'  BY <1>2, <1>5 DEF Begin, StoreInvariant, OutrankedPart
<1>9. PhasePart'
  <2>1. op'.body.sequence = served.high + 1  BY <1>6 DEF Merged
  <2>2. QED  BY <2>1, <1>2, <1>6 DEF Begin, PhasePart
<1>10. PlanPart'
  <2> DEFINE body == Merged(batch, next)
  <2>1. DOMAIN batch \subseteq Keys  BY BatchFacts
  <2>2. \A k, l \in DOMAIN batch : batch[k].put = "fresh" /\ batch[l].put = "fresh" /\ k # l =>
           batch[k].slot # batch[l].slot
    BY <1>1 DEF Accepts
  <2>3. StructureOk(body)  BY <1>1 DEF Accepts
  <2>4. SlotsOf(batch) \subseteq TakenRows
    BY <1>3, SlotsOfType DEF StoreInvariant, TakenRows
  <2>5. \A k \in Keys : HasOrigin(batch, k) =>
           \/ Durable.entries[k] # None /\ Origin(batch, k) = Durable.entries[k].ranges
           \/ \E s \in SlotsOf(batch) : Origin(batch, k) = rows[s].ranges
    BY <1>2, BatchOrigins DEF HasOrigin, Origin
  <2>6. \A k \in Present(body.entries) :
           k \in Keys /\ HasOrigin(batch, k) /\ body.entries[k].ranges \subseteq Origin(batch, k)
    BY <1>2, BatchOrigins DEF Present
  <2>7. \A k \in DOMAIN batch :
           HasOrigin(batch, k) /\ ResolvedFreed(k, batch[k]) \subseteq Origin(batch, k)
    BY <2>1, <1>2, BatchOrigins
  <2>8. RangesDisjoint(body.entries)
    <3> SUFFICES ASSUME NEW k \in Present(body.entries), NEW l \in Present(body.entries), k # l
                 PROVE  body.entries[k].ranges \cap body.entries[l].ranges = {}
      BY DEF RangesDisjoint
    <3>1. Origin(batch, k) \cap Origin(batch, l) = {}
      BY <2>2, <2>6, <1>2, OriginsDisjoint
    <3>2. QED  BY <3>1, <2>6
  <2>9. \A k \in DOMAIN batch : \A l \in Present(body.entries) :
           ResolvedFreed(k, batch[k]) \cap body.entries[l].ranges = {}
    <3> SUFFICES ASSUME NEW k \in DOMAIN batch, NEW l \in Present(body.entries)
                 PROVE  ResolvedFreed(k, batch[k]) \cap body.entries[l].ranges = {}
      OBVIOUS
    <3>1. CASE k = l  BY <3>1, <2>1, <1>2, BatchOrigins DEF Present
    <3>2. CASE k # l
      <4>1. Origin(batch, k) \cap Origin(batch, l) = {}
        BY <3>2, <2>1, <2>2, <2>6, <2>7, <1>2, OriginsDisjoint
      <4>2. QED  BY <4>1, <2>6, <2>7
    <3>3. QED  BY <3>1, <3>2
  <2>10. rows' = rows  BY DEF Begin
  <2>11. \A k \in Present(body.entries) : FromOwner(op.body.entries[k].ranges, k)'
    BY <2>5, <2>6, <2>10, <1>5, <1>6 DEF FromOwner
  <2>12. \A k \in DOMAIN batch : FromOwner(op.freed[k], k)'
    BY <2>1, <2>5, <2>7, <2>10, <1>5, <1>6 DEF FromOwner
  <2>13. QED  BY <2>3, <2>4, <2>8, <2>9, <2>11, <2>12, <1>5, <1>6 DEF PlanPart
<1>11. QED  BY <1>4, <1>7, <1>8, <1>9, <1>10 DEF StoreInvariant

-----------------------------------------------------------------------------
(* Power and mount. *)

\* A medium with a copy that loads, and whose gates tell the copies apart, can be mounted.
LEMMA SomethingSelected ==
    ASSUME NEW m, MediumOK(m), NEW c \in Copies, NEW d \in Copies, c # d, Loads(m, c),
           m[Gate(d)] = Ill \/ m[Gate(d)].sequence # m[Gate(c)].sequence
    PROVE  Selected(m, Copies, Copies) # {}
<1>1. \A x, y \in WellFormed(m, Copies) : x # y => m[Gate(x)].sequence # m[Gate(y)].sequence
  BY DEF WellFormed, Copies
<1>2. Selectable(m, Copies, Copies) = {x \in Copies : Loads(m, x)}
  BY <1>1 DEF Selectable, WellFormed, Loads
<1>3. \A x \in Copies : Loads(m, x) => m[Gate(x)].sequence \in Nat
  BY GateType DEF Loads, Catalog
<1>4. CASE Loads(m, d) /\ m[Gate(d)].sequence > m[Gate(c)].sequence
  <2>1. d \in Selected(m, Copies, Copies)  BY <1>2, <1>3, <1>4 DEF Selected, Copies
  <2>2. QED  BY <2>1
<1>5. CASE ~(Loads(m, d) /\ m[Gate(d)].sequence > m[Gate(c)].sequence)
  <2>1. c \in Selected(m, Copies, Copies)  BY <1>2, <1>3, <1>5 DEF Selected, Copies
  <2>2. QED  BY <2>1
<1>6. QED  BY <1>4, <1>5

\* The gate of the other copy never carries the sequence of the served one.
LEMMA GatesDiffer ==
    ASSUME StoreInvariant, Live, NEW v \in {card[Gate(Target)], flash[Gate(Target)]}
    PROVE  v = Ill \/ v.sequence # served.sequence
<1>1. CASE op = None \/ op.phase \in {"flush", "flush_sync", "invalidate", "invalidate_sync"}
  BY <1>1 DEF StoreInvariant, OutrankedPart
<1>2. CASE op # None /\ op.phase \in {"body", "body_sync", "gate", "gate_sync", "uncertain"}
  <2>1. v \in {Ill, op.body}  BY <1>2 DEF StoreInvariant, PhasePart
  <2>2. served.sequence < op.body.sequence /\ op.body \in Catalog  BY <1>2, InProgress
  <2>3. served.sequence \in Nat /\ op.body.sequence \in Nat
    BY <2>2, TypeParts DEF StoreInvariant, ServedType, Catalog
  <2>4. QED  BY <2>1, <2>2, <2>3
<1>3. op # None => op.phase \in WritePhases \cup SyncPhases \cup {"uncertain"}
  BY InProgress, OpFields
<1>4. QED  BY <1>1, <1>2, <1>3 DEF WritePhases, SyncPhases

\* A cut at any command leaves the served copy loadable and the gates distinct.
LEMMA CutStep == ASSUME StoreInvariant, Cut PROVE StoreInvariant'
<1>1. TypeOK'  BY CutType DEF StoreInvariant
<1>2. served.mode \in Modes /\ served.mode # "Off" /\ served.mode # "CatalogUnreadable"
  BY TypeParts DEF StoreInvariant, ServedType, Cut, OffPart
<1>3. Live  BY <1>2 DEF Live, Modes
<1>4. PICK kept \in SUBSET Dirty, torn \in SUBSET Dirty :
        flash' = [c \in Cells |-> IF c \in torn THEN Ill ELSE IF c \in kept THEN card[c] ELSE flash[c]]
  BY DEF Cut
<1>5. \A c \in Cells : /\ flash'[c] \in {Ill, card[c], flash[c]}
                       /\ card[c] = flash[c] => flash'[c] = flash[c]
  BY <1>4 DEF Dirty
<1>6. flash'[Gate(served.copy)] = Durable /\ flash'[Body(served.copy)] = flash[Body(served.copy)]
  BY <1>3, <1>5, FourCells DEF StoreInvariant, ServedPart, Durable, Loads
<1>7. Loads(flash', served.copy)
  BY <1>3, <1>6 DEF StoreInvariant, ServedPart, Durable, Loads
<1>8. flash'[Gate(Target)] = Ill \/ flash'[Gate(Target)].sequence # flash'[Gate(served.copy)].sequence
  <2>1. Durable.sequence = served.sequence  BY <1>3 DEF StoreInvariant, ServedPart
  <2>2. flash'[Gate(Target)] \in {Ill, card[Gate(Target)], flash[Gate(Target)]}
    BY <1>3, <1>5, FourCells
  <2>3. QED  BY <2>1, <2>2, <1>3, <1>6, GatesDiffer
<1>9. Truth' # {}
  <2>1. MediumOK(flash')  BY <1>1, TypeParts DEF TypeOK, MediumOK
  <2>2. Selected(flash', Copies, Copies) # {}
    BY <2>1, <1>3, <1>7, <1>8, SomethingSelected, ServedFacts
  <2>3. QED  BY <2>2 DEF Truth
<1>10. /\ served'.mode = "Off" /\ card' = flash' /\ op' = None
       /\ rows' = [s \in Slots |-> None] /\ holds' = [k \in Keys |-> NoHold]
  BY DEF Cut, Unmounted
<1>11. TakenRows' = {} /\ HeldKeys' = {}  BY <1>10 DEF TakenRows, HeldKeys, NoHold
<1>12. OffPart'  BY <1>9, <1>10, <1>11 DEF OffPart
<1>13. QED
  BY <1>1, <1>10, <1>12 DEF StoreInvariant, ServedPart, OutrankedPart, PhasePart, FencedPart, OwnersPart, PlanPart, Live

\* The loss of one body leaves the other copy to mount.
LEMMA RotStep == ASSUME StoreInvariant, NEW c \in Copies, Rot(c) PROVE StoreInvariant'
<1>1. TypeOK'  BY RotType DEF StoreInvariant
<1>2. /\ served.mode = "Off" /\ \A d \in Copies : Loads(flash, d)
      /\ flash' = Put(flash, [d \in {Body(c)} |-> Ill]) /\ card' = flash'
      /\ UNCHANGED <<served, used, rows, holds, op, listing>>
  BY DEF Rot
<1>3. op = None /\ TakenRows = {} /\ HeldKeys = {} /\ Truth # {}
  BY <1>2 DEF StoreInvariant, OffPart
<1>4. PICK d \in Copies : c # d  BY DEF Copies
<1>5. /\ flash'[Gate(d)] = flash[Gate(d)] /\ flash'[Body(d)] = flash[Body(d)]
      /\ flash'[Gate(c)] = flash[Gate(c)]
  BY <1>2, <1>4, CellKinds DEF Put, Gate, Body
<1>6. Loads(flash', d)  BY <1>2, <1>5 DEF Loads
<1>7. flash[Gate(c)] = Ill \/ flash[Gate(c)].sequence # flash[Gate(d)].sequence
  <2>1. Selectable(flash, Copies, Copies) # {}  BY <1>3 DEF Truth, Selected
  <2>2. QED  BY <2>1, <1>2, <1>4 DEF Selectable, WellFormed, Loads
<1>8. MediumOK(flash')  BY <1>1 DEF TypeOK, MediumOK
<1>9. Truth' # {}
  <2>1. Selected(flash', Copies, Copies) # {}
    BY <1>4, <1>5, <1>6, <1>7, <1>8, SomethingSelected
  <2>2. QED  BY <2>1 DEF Truth
<1>10. TakenRows' = {} /\ HeldKeys' = {}  BY <1>2, <1>3 DEF TakenRows, HeldKeys
<1>11. OffPart'  BY <1>2, <1>3, <1>9, <1>10 DEF OffPart
<1>12. QED
  BY <1>1, <1>2, <1>3, <1>11 DEF StoreInvariant, ServedPart, OutrankedPart, PhasePart, FencedPart, OwnersPart, PlanPart, Live

\* bring_up serves the greatest valid copy with its high-water mark over both gates.
LEMMA MountStep ==
    ASSUME StoreInvariant, Mount, "mount_read" \notin Faults
    PROVE  StoreInvariant'
<1>1. TypeOK'  BY MountType DEF StoreInvariant
<1>2. /\ served.mode = "Off" /\ UNCHANGED <<card, flash, rows, holds, op, listing>>  BY DEF Mount
<1>3. op = None /\ TakenRows = {} /\ HeldKeys = {} /\ Truth # {} /\ card = flash
  BY <1>2 DEF StoreInvariant, OffPart
<1>4. Selected(card, Copies, Copies) # {}  BY <1>3 DEF Truth
<1>5. PICK c, high : /\ c \in Selected(card, Copies, Copies) /\ high \in HighWater(card, Copies)
                     /\ served' = [mode |-> IF high = MaxSequence THEN "SequenceSpaceExhausted" ELSE "ReadWrite",
                                   copy |-> c, sequence |-> card[Gate(c)].sequence,
                                   high |-> high, next |-> card[Gate(c)].next]
                     /\ used' = Named(card[Gate(c)].entries)
  BY <1>4 DEF Mount, Readings
<1>6. /\ served'.mode \in {"ReadWrite", "SequenceSpaceExhausted"} /\ served'.copy = c
      /\ served'.sequence = card[Gate(c)].sequence /\ served'.high = high /\ served'.next = card[Gate(c)].next
  BY <1>5
<1>7. /\ c \in Copies /\ Loads(card, c)
      /\ \A d \in Copies : card[Gate(d)] # Ill /\ d # c => card[Gate(d)].sequence # card[Gate(c)].sequence
      /\ \A d \in Copies : Loads(card, d) => card[Gate(c)].sequence >= card[Gate(d)].sequence
  BY <1>5 DEF Selected, Selectable, WellFormed, Loads
<1>8. \A d \in Copies : card[Gate(d)] # Ill => card[Gate(d)].sequence \in Nat /\ card[Gate(d)].sequence <= high
  <2>1. \A d \in Copies : card[Gate(d)] # Ill => card[Gate(d)].sequence \in Nat
    BY TypeParts, GateType DEF StoreInvariant, Catalog
  <2>2. QED  BY <2>1, <1>5 DEF HighWater, Greatest, WellFormed
<1>9. Durable' = card[Gate(c)] /\ Live'  BY <1>2, <1>3, <1>6 DEF Durable, Live
<1>10. Target' \in Copies /\ Target' # c  BY <1>6, <1>7 DEF Target, Copies
<1>11. ServedPart'
  BY <1>2, <1>3, <1>6, <1>7, <1>8, <1>9 DEF ServedPart, Loads
<1>12. OutrankedPart'
  <2> DEFINE t == Target'
  <2>1. card[Gate(t)] # Ill =>
          /\ card[Gate(t)].sequence <= high /\ card[Gate(t)].sequence # card[Gate(c)].sequence
          /\ card[Gate(t)].sequence < card[Gate(c)].sequence \/ ~Loads(card, t)
    <3>1. card[Gate(c)].sequence \in Nat  BY <1>7, <1>8 DEF Loads
    <3>2. QED  BY <3>1, <1>7, <1>8, <1>10
  <2>2. QED  BY <2>1, <1>2, <1>3, <1>6 DEF OutrankedPart
<1>13. TakenRows' = {} /\ HeldKeys' = {} /\ op' = None  BY <1>2, <1>3 DEF TakenRows, HeldKeys
<1>14. OwnersPart'  BY <1>5, <1>9, <1>13 DEF OwnersPart
<1>15. OffPart' /\ PhasePart' /\ FencedPart' /\ PlanPart'
  BY <1>6, <1>13 DEF OffPart, PhasePart, FencedPart, PlanPart
<1>16. QED  BY <1>1, <1>11, <1>12, <1>14, <1>15 DEF StoreInvariant

-----------------------------------------------------------------------------
(* The theorems. *)

\* A card that initialize() has just written satisfies the invariant.
LEMMA InitInvariant == Init => StoreInvariant
<1> SUFFICES ASSUME Init PROVE StoreInvariant  OBVIOUS
<1>1. TypeOK  BY InitType
<1>2. flash = EmptyCard /\ card = EmptyCard /\ op = None /\ served.mode = "Off"
  BY DEF Init, Unmounted
<1>3. Gate(0) \in Cells /\ Gate(1) \in Cells /\ Body(0) \in Cells  BY CellKinds DEF Copies
<1>4. EmptyCard[Gate(0)] = EmptyCatalog /\ EmptyCard[Body(0)] = EmptyCatalog /\ EmptyCard[Gate(1)] = Ill
  BY <1>3 DEF EmptyCard, Gate, Body
<1>5. EmptyCatalog \in Catalog  BY ConstantsAssumption DEF EmptyCatalog, Catalog
<1>6. StructureOk(EmptyCatalog) /\ RangesDisjoint(EmptyCatalog.entries)
  <2>1. Present(EmptyCatalog.entries) = {}  BY DEF Present, EmptyCatalog
  <2>2. QED  BY <2>1 DEF StructureOk, RangesDisjoint
<1>7. Loads(EmptyCard, 0)  BY <1>4, <1>5, <1>6, IllAssumption DEF Loads
<1>8. Selected(EmptyCard, Copies, Copies) # {}
  BY <1>4, <1>7, EmptyCardMedium, SomethingSelected DEF Copies
<1>9. Truth # {}  BY <1>2, <1>8 DEF Truth
<1>10. TakenRows = {} /\ HeldKeys = {}  BY DEF Init, TakenRows, HeldKeys, NoHold
<1>11. OffPart  BY <1>2, <1>9, <1>10 DEF OffPart
<1>12. QED
  BY <1>1, <1>2, <1>11 DEF StoreInvariant, ServedPart, OutrankedPart, PhasePart, FencedPart, OwnersPart, PlanPart, Live

\* Every step of the store keeps the invariant.
LEMMA NextInvariant ==
    ASSUME StoreInvariant, [Next]_vars, "mount_read" \notin Faults
    PROVE  StoreInvariant'
<1>1. CASE UNCHANGED vars
  BY <1>1 DEF vars, StoreInvariant, TypeOK, OffPart, ServedPart, OutrankedPart, PhasePart, FencedPart, OwnersPart,
     PlanPart, FromOwner, Live, Durable, HeldKeys, TakenRows, Target, Truth
<1>2. CASE Commit
  BY <1>2, BeginStep, CommitWriteStep, CommitSyncStep, CommitPublishStep, CommitErrorStep,
     CommitUncertainStep DEF Commit
<1>3. CASE Reserve
  BY <1>3, AllocateStep, WriteStep, SealStep, CancelStep DEF Reserve
<1>4. CASE Read
  BY <1>4, OpenStep, CloseStep, ListingSteps DEF Read
<1>5. CASE Mount  BY <1>5, MountStep
<1>6. CASE Cut  BY <1>6, CutStep
<1>7. CASE \E c \in Copies : Rot(c)  BY <1>7, RotStep
<1>8. QED  BY <1>1, <1>2, <1>3, <1>4, <1>5, <1>6, <1>7 DEF Next

\* Whatever commands are refused, cut or torn, a commit only prepares the copy that is
\* not served, and the owners of extents never overlap (the argument of §5.5 and §5.6).
THEOREM StoreIsInvariant ==
    ASSUME "mount_read" \notin Faults
    PROVE  Spec => []StoreInvariant
<1>1. StoreInvariant /\ [Next]_vars => StoreInvariant'  BY NextInvariant
<1>2. QED  BY <1>1, InitInvariant, PTL DEF Spec

\* Every resident table and every card cell keeps a value of its kind.
THEOREM StoreTypes ==
    ASSUME "mount_read" \notin Faults
    PROVE  Spec => []TypeOK
<1>1. StoreInvariant => TypeOK  BY DEF StoreInvariant
<1>2. QED  BY <1>1, StoreIsInvariant, PTL

\* After every cut, tear and refusal bring_up finds a catalog: no sequence of faults in
\* commit makes a card unmountable.
THEOREM StoreAlwaysMounts ==
    ASSUME "mount_read" \notin Faults
    PROVE  Spec => []CatalogAlwaysMounts
<1>1. StoreInvariant => CatalogAlwaysMounts
  <2> SUFFICES ASSUME StoreInvariant PROVE Truth # {}  BY DEF CatalogAlwaysMounts
  <2>1. CASE served.mode = "Off"  BY <2>1 DEF StoreInvariant, OffPart
  <2>2. CASE served.mode # "Off"
    <3>1. Live
      BY <2>2, TypeParts DEF StoreInvariant, OffPart, ServedType, Modes, Live
    <3>2. /\ Loads(flash, served.copy) /\ flash[Gate(served.copy)].sequence = served.sequence
      BY <3>1 DEF StoreInvariant, ServedPart, Durable
    <3>3. flash[Gate(Target)] = Ill \/ flash[Gate(Target)].sequence # served.sequence
      BY <3>1, GatesDiffer
    <3>4. MediumOK(flash)  BY TypeParts DEF StoreInvariant
    <3>5. Selected(flash, Copies, Copies) # {}
      BY <3>1, <3>2, <3>3, <3>4, ServedFacts, SomethingSelected
    <3>6. QED  BY <3>5 DEF Truth
  <2>3. QED  BY <2>1, <2>2
<1>2. QED  BY <1>1, StoreIsInvariant, PTL

\* While the mount is not fenced, the other copy of the durable card cannot outrank the served one.
LEMMA ServedIsSelected ==
    ASSUME StoreInvariant, Readable
    PROVE  Selected(flash, Copies, Copies) = {served.copy}
<1>1. Live /\ served.mode # "RemountRequired"  BY DEF Readable, Live
<1>2. /\ served.copy \in Copies /\ Target \in Copies /\ Target # served.copy
      /\ \A c \in Copies : c = served.copy \/ c = Target
  BY <1>1, ServedFacts DEF Target, Copies
<1>3. Loads(flash, served.copy) /\ flash[Gate(served.copy)].sequence = served.sequence
  BY <1>1 DEF StoreInvariant, ServedPart, Durable
<1>4. flash[Gate(Target)] = Ill \/ flash[Gate(Target)].sequence # served.sequence
  BY <1>1, GatesDiffer
<1>5. ~Loads(flash, Target) \/ flash[Gate(Target)].sequence < served.sequence
  <2>1. CASE op = None \/ op.phase \in {"flush", "flush_sync", "invalidate", "invalidate_sync"}
    BY <2>1, <1>1 DEF StoreInvariant, OutrankedPart, Loads
  <2>2. CASE op # None /\ op.phase \in {"body", "body_sync", "gate", "gate_sync"}
    BY <2>2 DEF StoreInvariant, PhasePart, Loads
  <2>3. op # None => op.phase \in WritePhases \cup SyncPhases
    BY <1>1, InProgress, OpFields DEF StoreInvariant, PhasePart
  <2>4. QED  BY <2>1, <2>2, <2>3 DEF WritePhases, SyncPhases
<1>6. \A x, y \in WellFormed(flash, Copies) : x # y => flash[Gate(x)].sequence # flash[Gate(y)].sequence
  BY <1>2, <1>3, <1>4 DEF WellFormed
<1>7. Selectable(flash, Copies, Copies) = {x \in Copies : Loads(flash, x)}
  BY <1>6 DEF Selectable, WellFormed, Loads
<1>8. \A x \in Copies : Loads(flash, x) => flash[Gate(x)].sequence \in Nat
  BY TypeParts, GateType DEF StoreInvariant, Loads, Catalog
<1>9. served.copy \in Selected(flash, Copies, Copies)
  BY <1>2, <1>3, <1>5, <1>7, <1>8 DEF Selected
<1>10. Target \notin Selected(flash, Copies, Copies)
  BY <1>2, <1>3, <1>5, <1>7, <1>8 DEF Selected
<1>11. QED  BY <1>2, <1>7, <1>9, <1>10 DEF Selected

\* What a mounted store answers is what the next mount will find (§5.5).
THEOREM StoreServesTruth ==
    ASSUME "mount_read" \notin Faults
    PROVE  Spec => []ServesTruth
<1>1. StoreInvariant => ServesTruth
  <2> SUFFICES ASSUME StoreInvariant, Readable PROVE Serving \in Truth  BY DEF ServesTruth
  <2>1. Serving = flash[Gate(served.copy)]  BY ServedFacts DEF Readable, Live, Durable
  <2>2. QED  BY <2>1, ServedIsSelected DEF Truth
<1>2. QED  BY <1>1, StoreIsInvariant, PTL

\* The extents of a reservation belong to nobody else, in the resident tables and in any
\* catalog that the next mount could find.
THEOREM StoreReservationsExclusive ==
    ASSUME "mount_read" \notin Faults
    PROVE  Spec => []ReservationsExclusive
<1>1. StoreInvariant => ReservationsExclusive
  <2> SUFFICES ASSUME StoreInvariant, NEW s \in TakenRows
               PROVE  /\ \A t \in TakenRows : t # s => rows[s].ranges \cap rows[t].ranges = {}
                      /\ \A t \in Truth : \/ rows[s].ranges \cap Named(t.entries) = {}
                                          \/ op # None /\ s \in op.slots /\ t = op.body
                      /\ \A k \in HeldKeys : rows[s].ranges \cap holds[k].ranges = {}
    BY DEF ReservationsExclusive, TakenRows, HeldKeys
  <2>1. Live
    BY TypeParts DEF StoreInvariant, OffPart, ServedType, Modes, Live
  <2>2. /\ \A t \in TakenRows : t # s => rows[s].ranges \cap rows[t].ranges = {}
        /\ \A k \in HeldKeys : rows[s].ranges \cap holds[k].ranges = {}
    BY <2>1 DEF StoreInvariant, OwnersPart
  <2>3. rows[s].ranges \cap Named(Durable.entries) = {}
    BY <2>1 DEF StoreInvariant, OwnersPart, Named
  <2>4. ASSUME NEW t \in Truth
        PROVE  \/ rows[s].ranges \cap Named(t.entries) = {}
               \/ op # None /\ s \in op.slots /\ t = op.body
    <3>1. CASE Readable
      BY <3>1, <2>3, ServedIsSelected DEF Truth, Durable
    <3>2. CASE ~Readable
      <4>1. op # None /\ op.phase = "uncertain"
        BY <3>2, <2>1 DEF StoreInvariant, FencedPart, Readable, Live
      <4>2. flash[Gate(Target)] \in {Ill, op.body}  BY <4>1 DEF StoreInvariant, PhasePart
      <4>3. \A c \in Copies : c = served.copy \/ c = Target
        BY <2>1, ServedFacts DEF Target, Copies
      <4>4. t = Durable \/ t = op.body
        BY <4>2, <4>3 DEF Truth, Selected, Selectable, WellFormed, Durable
      <4>5. ASSUME s \notin op.slots PROVE rows[s].ranges \cap Named(op.body.entries) = {}
        <5>1. op.slots \subseteq TakenRows  BY <4>1 DEF StoreInvariant, PlanPart
        <5>2. \A k \in Present(op.body.entries) : FromOwner(op.body.entries[k].ranges, k)
          BY <4>1 DEF StoreInvariant, PlanPart
        <5>3. \A k \in Present(op.body.entries) : rows[s].ranges \cap op.body.entries[k].ranges = {}
          BY <4>5, <5>1, <5>2, <2>1 DEF FromOwner, Present, StoreInvariant, OwnersPart
        <5>4. QED  BY <5>3 DEF Named
      <4>6. QED  BY <2>3, <4>1, <4>4, <4>5
    <3>3. QED  BY <3>1, <3>2
  <2>5. QED  BY <2>2, <2>4
<1>2. QED  BY <1>1, StoreIsInvariant, PTL

=============================================================================
