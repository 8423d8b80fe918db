--------------------------- MODULE LinkEngineProofs ---------------------------
(***************************************************************************)
(* The transfer engine gives back what a transfer held, publishes what was *)
(* declared, never over a revision its client has not seen, and answers    *)
(* the peer that asked: for any number of links, objects, reservations and *)
(* requests, every payload, every stage and every fault of the store.      *)
(*                                                                         *)
(* The invariant has four parts, by the variables they are about: what the *)
(* store has committed, what is reserved and held for whom, who waits for  *)
(* what, and the clock and turns of the engine itself.                     *)
(***************************************************************************)
EXTENDS LinkEngine, TLAPS, SequenceTheorems, WellFoundedInduction

\* A store that takes commits has a sequence number left for the next one.
CatalogPart ==
    /\ head \in [Objects -> Entry \cup {None}] /\ kept \in [Objects -> Entry \cup {None}]
    /\ next \in 1 .. MaxObject + 1 /\ sequence \in 1 .. MaxSequence
    /\ mode \in {"rw", "exhausted", "fenced", "unreadable"}
    /\ format \in {"no", "clean", "dirty"}
    /\ mode = "rw" => sequence < MaxSequence
    /\ PublishedIsDeclared

\* An upload always has its reservation, also in a fenced store; what it received is in the
\* reservation and the stage, and its running checksum is of exactly these bytes.
UploadPart ==
    live.mode = "put" =>
        /\ rows[live.row] # None /\ rows[live.row].by = "link"
        /\ live.rev = live.displaced + 1
        /\ Len(rows[live.row].bytes) + Len(live.staged) = live.received
        /\ live.sum # None => live.sum = rows[live.row].bytes \o live.staged
        /\ ~Unchecked(live.link, live.kind) => live.sum # None

TablePart ==
    /\ rows \in [1 .. Rows -> Row \cup {None}] /\ holds \in [1 .. Holds -> Row \cup {None}]
    /\ live = Idle \/ live \in Upload \/ live \in Download
    /\ UploadPart
    /\ NothingLeaks

\* A peer waits for the transfer that is live on its link and for the answer it is owed,
\* and these are two answers.
PeerPart ==
    /\ waiting \in [Links -> SUBSET Requests] /\ stray = FALSE
    /\ owed = None \/ owed \in [link : Links, req : Requests]
    /\ live # Idle => live.req \in waiting[live.link]
    /\ owed # None => owed.req \in waiting[owed.link]
    /\ live # Idle /\ owed # None /\ owed.link = live.link => owed.req # live.req

TurnPart ==
    /\ up \in [Links -> Ceilings \cup {None}]
    /\ stall = None \/ stall \in [req : Requests, bytes : Nat, age : 0 .. Wrap - 1]
    /\ turn \in {"serve", "watch"} /\ reboot \in BOOLEAN
    /\ turn = "watch" => live # Idle

EngineInvariant == CatalogPart /\ TablePart /\ PeerPart /\ TurnPart

-----------------------------------------------------------------------------
(* The operators the model is built from. *)

\* The mode of a transfer says which kind of record it is.
LEMMA LiveKinds ==
    ASSUME TablePart
    PROVE  /\ live # Idle <=> live.mode \in {"put", "get"}
           /\ live.mode = "put" <=> live \in Upload
           /\ live.mode = "get" <=> live \in Download
           /\ live # Idle => live.link \in Links /\ live.req \in Requests /\ Bytes \in Nat
  BY DEF TablePart, Idle, Upload, Download, Bytes

\* The order of Nat, as a set of pairs.
LessThan == {p \in Nat \X Nat : p[1] < p[2]}

\* Every set of naturals has a least member: `Least` always finds the row it returns.
LEMMA LessThanIsWellFounded == IsWellFoundedOn(LessThan, Nat)
<1>1. LessThan = OpToRel(<, Nat)  BY Zenon DEF LessThan, OpToRel
<1>2. QED  BY <1>1, NatLessThanWellFounded, Zenon

\* The least free reservation or hold is a free one.
LEMMA LeastIsMember ==
    ASSUME NEW S \in SUBSET Nat, S # {} PROVE Least(S) \in S
<1>1. PICK x \in S : \A y \in S : <<y, x>> \notin LessThan
  BY LessThanIsWellFounded, WFMin, Zenon
<1>2. \A y \in S : ~ (y < x)  BY <1>1 DEF LessThan
<1>3. \A y \in S : x <= y  BY <1>2
<1>4. QED  BY <1>3 DEF Least

\* Whole multiples of d in n.
LEMMA DivBound ==
    ASSUME NEW n \in Nat, NEW d \in Nat \ {0}
    PROVE  d * (n \div d) \in 0 .. n
<1>1. d * (n \div d) <= n  OBVIOUS
<1>2. n \div d \in Nat  OBVIOUS
<1>3. \A q \in Nat : d * q \in Nat  OBVIOUS
<1>4. QED  BY <1>1, <1>2, <1>3

\* Sequences of bytes can be joined, and joined in any order of joins.
LEMMA JoinBytes ==
    ASSUME NEW s \in Seq(Nat), NEW t \in Seq(Nat)
    PROVE  /\ s \o t \in Seq(Nat) /\ Len(s \o t) = Len(s) + Len(t)
           /\ s \o <<>> = s /\ <<>> \o s = s
<1>1. s \o t \in Seq(Nat) /\ Len(s \o t) = Len(s) + Len(t)  BY ConcatProperties
<1>2. s \o <<>> = s /\ <<>> \o s = s  BY ConcatEmptySeq
<1>3. QED  BY <1>1, <1>2

\* Bytes written before, staged and just received join the same in either order.
LEMMA JoinThree ==
    ASSUME NEW s \in Seq(Nat), NEW t \in Seq(Nat), NEW u \in Seq(Nat)
    PROVE  (s \o t) \o u = s \o (t \o u)
  OBVIOUS

\* A sequence is what comes before a cut and what comes after it.
LEMMA CutSequence ==
    ASSUME NEW s \in Seq(Nat), NEW w \in 0 .. Len(s)
    PROVE  /\ SubSeq(s, 1, w) \in Seq(Nat) /\ SubSeq(s, w + 1, Len(s)) \in Seq(Nat)
           /\ SubSeq(s, 1, w) \o SubSeq(s, w + 1, Len(s)) = s
           /\ w = 0 => SubSeq(s, 1, w) = <<>>
<1>1. Len(s) \in Nat  BY LenProperties
<1>2. \A i \in 1 .. Len(s) : s[i] \in Nat  BY ElementOfSeq
<1>3. SubSeq(s, 1, w) \in Seq(Nat)  BY <1>1, <1>2, SubSeqProperties
<1>4. SubSeq(s, w + 1, Len(s)) \in Seq(Nat)  BY <1>1, <1>2, SubSeqProperties
<1>5. 1 \in 1 .. Len(s) + 1 /\ w \in 1 - 1 .. Len(s) /\ Len(s) \in w .. Len(s)
  BY <1>1
<1>6. SubSeq(s, 1, w) \o SubSeq(s, w + 1, Len(s)) = SubSeq(s, 1, Len(s))
  BY <1>5, ConcatAdjacentSubSeq
<1>7. SubSeq(s, 1, Len(s)) = s  BY SubSeqFull
<1>8. ASSUME w = 0 PROVE SubSeq(s, 1, w) = <<>>
  BY <1>8, SubSeqEmpty
<1>9. QED  BY <1>3, <1>4, <1>6, <1>7, <1>8

\* absorb: what goes to the card and what stays in the stage are, together, what there was.
LEMMA AbsorbKeepsBytes ==
    ASSUME NEW data \in Seq(Nat), live.staged \in Seq(Nat), rows[live.row].bytes \in Seq(Nat)
    PROVE  /\ Written(data) \in Seq(Nat) /\ Staged(data) \in Seq(Nat)
           /\ Flushed(data) = (rows[live.row].bytes \o live.staged) \o data
           /\ Whole(data) = 0 => Written(data) = rows[live.row].bytes
<1> DEFINE card == rows[live.row].bytes
           pool == live.staged \o data
           whole == SubSeq(pool, 1, Whole(data))
<1>1. pool \in Seq(Nat)  BY JoinBytes
<1>2. Whole(data) \in 0 .. Len(pool)
  BY <1>1, DivBound, LenProperties, EngineAssumption DEF Whole
<1>3. /\ whole \in Seq(Nat) /\ Staged(data) \in Seq(Nat)
      /\ whole \o Staged(data) = pool
      /\ Whole(data) = 0 => whole = <<>>
  BY <1>1, <1>2, CutSequence DEF Staged
<1>4. Written(data) = card \o whole  BY DEF Written
<1>5. Written(data) \in Seq(Nat) /\ (Whole(data) = 0 => Written(data) = card)
  BY <1>3, <1>4, JoinBytes
<1>6. Flushed(data) = card \o pool
  <2>1. Flushed(data) = (card \o whole) \o Staged(data)  BY <1>4 DEF Flushed
  <2>2. (card \o whole) \o Staged(data) = card \o (whole \o Staged(data))
    BY <1>3, JoinThree
  <2>3. QED  BY <2>1, <2>2, <1>3
<1>7. card \o pool = (card \o live.staged) \o data  BY JoinThree
<1>8. QED  BY <1>3, <1>5, <1>6, <1>7

-----------------------------------------------------------------------------
(* What the parts of the steps do to the parts of the invariant. *)

\* The objects of a catalog hold the bytes that were declared of them.
Declared(heads) ==
    \A o \in Objects : heads[o] # None =>
        /\ Len(heads[o].bytes) = Len(heads[o].crc)
        /\ heads[o].checked => heads[o].bytes = heads[o].crc

\* A call that commits nothing leaves the catalog part alone.
LEMMA CatalogStays ==
    ASSUME CatalogPart, UNCHANGED catalog PROVE CatalogPart'
  BY DEF CatalogPart, catalog, PublishedIsDeclared

\* A commit that succeeds, or fails in any way, of a batch that is itself in order.
LEMMA CommitKeepsCatalog ==
    ASSUME CatalogPart,
           NEW heads \in [Objects -> Entry \cup {None}], Declared(heads),
           NEW keeps \in [Objects -> Entry \cup {None}], NEW cursor \in 1 .. MaxObject + 1,
           CommitTo(heads, keeps, cursor) \/ CommitErr(heads, keeps, cursor)
    PROVE  CatalogPart'
<1>1. /\ sequence \in Nat /\ MaxSequence \in Nat
      /\ writable => sequence < MaxSequence /\ sequence + 1 \in 1 .. MaxSequence
  BY EngineAssumption DEF CatalogPart, writable
<1>2. format' \in {"no", "clean", "dirty"}
  BY DEF CatalogPart, CommitTo, CommitErr, catalog
<1>3. CASE CommitTo(heads, keeps, cursor)
  <2>1. sequence' \in 1 .. MaxSequence /\ (mode' = "rw" => sequence' < MaxSequence)
    BY <1>1, <1>3 DEF CommitTo, writable
  <2>2. PublishedIsDeclared'
    BY <1>3 DEF CommitTo, PublishedIsDeclared, Declared
  <2>3. QED  BY <1>2, <1>3, <2>1, <2>2 DEF CatalogPart, CommitTo, writable
<1>4. CASE CommitErr(heads, keeps, cursor)
  <2>1. CASE UNCHANGED catalog  BY <2>1, CatalogStays
  <2>2. CASE writable /\ mode' = "fenced"
    BY <1>1, <1>2, <1>4, <2>2 DEF CatalogPart, CommitErr, PublishedIsDeclared, Declared, catalog
  <2>3. QED  BY <1>4, <2>1, <2>2 DEF CommitErr
<1>5. QED  BY <1>3, <1>4

\* A commit only ever fences a store that was not fenced.
ModeStays == mode' = mode \/ mode' = "fenced" \/ mode # "fenced"

\* A commit never makes a fenced store writable (store.rs `Store::commit`).
LEMMA CommitModes ==
    ASSUME NEW heads, NEW keeps, NEW cursor,
           CommitTo(heads, keeps, cursor) \/ CommitErr(heads, keeps, cursor)
    PROVE  ModeStays
  BY DEF CommitTo, CommitErr, ModeStays, writable, catalog

\* A call that touches neither transfer, reservation nor hold leaves the tables in order.
LEMMA TablesStay ==
    ASSUME TablePart, UNCHANGED <<live, rows, holds>>, ModeStays
    PROVE  TablePart'
  BY DEF TablePart, UploadPart, NothingLeaks, ModeStays

\* abandon: what a transfer held is given back, whatever kind of transfer it is.
LEMMA AbandonKeepsTables ==
    ASSUME TablePart, abandon, ModeStays PROVE TablePart'
<1>1. live' = Idle /\ live'.mode = "idle"  BY DEF abandon, Idle
<1>2. rows' \in [1 .. Rows -> Row \cup {None}] /\ holds' \in [1 .. Holds -> Row \cup {None}]
  BY DEF TablePart, abandon
<1>3. mode' # "fenced" => mode # "fenced"  BY DEF ModeStays
<1>4. NothingLeaks'
  <2>1. ASSUME mode' # "fenced", NEW r \in 1 .. Rows, rows'[r] # None PROVE rows'[r].by # "link"
    BY <2>1, <1>3 DEF TablePart, NothingLeaks, abandon
  <2>2. ASSUME NEW h \in 1 .. Holds, holds'[h] # None PROVE holds'[h].by # "link"
    BY <2>2 DEF TablePart, NothingLeaks, abandon
  <2>3. QED  BY <1>1, <2>1, <2>2 DEF NothingLeaks
<1>5. QED  BY <1>1, <1>2, <1>4 DEF TablePart, UploadPart

\* The peers wait for what they waited for, as long as the transfer is the same or is over.
LEMMA PeersStay ==
    ASSUME PeerPart, UNCHANGED <<owed, waiting, stray>>,
           \/ live' = Idle
           \/ live # Idle /\ live'.link = live.link /\ live'.req = live.req
    PROVE  PeerPart'
  BY DEF PeerPart

\* The answer of a transfer that ends reaches the peer that waits for it.
LEMMA EndIsAnswered ==
    ASSUME PeerPart, live # Idle, live.link \in Links, live' = Idle, UNCHANGED owed,
           Answer(live.link, live.req)
    PROVE  PeerPart'
<1>1. live.req \in waiting[live.link] /\ waiting[live.link] \in SUBSET Requests
  BY DEF PeerPart
<1>2. stray' = FALSE  BY <1>1 DEF PeerPart, Answer
<1>3. waiting' \in [Links -> SUBSET Requests]  BY DEF PeerPart, Answer
<1>4. owed' # None => owed'.req \in waiting'[owed'.link]
  BY NoneAssumption DEF PeerPart, Answer
<1>5. QED  BY <1>2, <1>3, <1>4 DEF PeerPart

\* The answer of a transfer that the engine dropped waits for the next poll of its link.
LEMMA EndIsOwed ==
    ASSUME PeerPart, live # Idle, live.link \in Links, live.req \in Requests, live' = Idle,
           owed' = [link |-> live.link, req |-> live.req], UNCHANGED <<waiting, stray>>
    PROVE  PeerPart'
  BY DEF PeerPart

\* fail_upload, fail_download.
LEMMA FailKeeps ==
    ASSUME EngineInvariant, live # Idle, Fail, CatalogPart', ModeStays
    PROVE  EngineInvariant'
<1>1. live.link \in Links /\ live.req \in Requests  BY LiveKinds DEF EngineInvariant
<1>2. TablePart'  BY AbandonKeepsTables DEF EngineInvariant, Fail
<1>3. PeerPart'  BY <1>1, EndIsAnswered DEF EngineInvariant, Fail, abandon
<1>4. TurnPart'  BY DEF EngineInvariant, TurnPart, Fail, abandon
<1>5. QED  BY <1>2, <1>3, <1>4 DEF EngineInvariant

\* A call that refuses without a commit.
LEMMA RefusalKeeps ==
    ASSUME EngineInvariant, live # Idle, Fail, UNCHANGED catalog
    PROVE  EngineInvariant'
<1>1. CatalogPart'  BY CatalogStays DEF EngineInvariant
<1>2. QED  BY <1>1, FailKeeps DEF catalog, ModeStays

-----------------------------------------------------------------------------
(* Requests that start a transfer. *)

\* on_put: the reservation is a free one, so the link now has exactly this one.
LEMMA on_putKeeps ==
    ASSUME EngineInvariant, NEW l \in Links, NEW r \in Requests, NEW o \in {0} \cup Objects,
           NEW kind \in Kinds, NEW payload \in Payloads, on_put(l, r, o, kind, payload)
    PROVE  EngineInvariant'
<1> DEFINE row == Least(FreeRows)
<1>1. CatalogPart'  BY CatalogStays DEF EngineInvariant, on_put
<1>2. row \in 1 .. Rows /\ rows[row] = None
  <2>1. FreeRows \in SUBSET Nat  BY EngineAssumption DEF FreeRows
  <2>2. row \in FreeRows  BY <2>1, LeastIsMember DEF on_put
  <2>3. QED  BY <2>2 DEF FreeRows
<1>3. live' \in Upload
  <2>1. o # 0 => head[o].rev \in Revisions /\ head[o].rev + 1 \in Revisions
    <3>1. MaxRevision \in Nat  BY EngineAssumption
    <3>2. ASSUME o # 0 PROVE head[o] \in Entry /\ head[o].rev < MaxRevision
      BY <3>2 DEF EngineInvariant, CatalogPart, on_put
    <3>3. ASSUME o # 0 PROVE head[o].rev \in 1 .. MaxRevision
      BY <3>2, <3>3 DEF Entry, Revisions
    <3>4. QED  BY <3>1, <3>2, <3>3 DEF Revisions
  <2>2. up[l] \in Ceilings  BY DEF EngineInvariant, TurnPart, on_put
  <2>3. 1 \in Revisions  BY EngineAssumption DEF Revisions
  <2>4. o \in 0 .. MaxObject  BY EngineAssumption DEF Objects
  <2>5. (IF o = 0 THEN 1 ELSE head[o].rev + 1) \in Revisions
    BY <2>1, <2>3
  <2>6. (IF o = 0 THEN 0 ELSE head[o].rev) \in {0} \cup Revisions
    BY <2>1
  <2>7. (IF Unchecked(l, kind) THEN None ELSE <<>>) \in Seq(Nat) \cup {None}
    BY EmptySeq
  <2>8. <<>> \in Seq(Nat)  OBVIOUS
  <2>9. QED  BY <1>2, <2>2, <2>4, <2>5, <2>6, <2>7, <2>8 DEF on_put, Upload
<1>4. live' # Idle /\ live'.mode = "put" /\ live'.row = row /\ live'.link = l /\ live'.req = r
  BY DEF on_put, Idle
<1>5. TablePart'
  <2>1. [by |-> "link", bytes |-> <<>>] \in Row  BY DEF Row
  <2>2. rows' = [rows EXCEPT ![row] = [by |-> "link", bytes |-> <<>>]] /\ UNCHANGED holds
    BY DEF on_put
  <2>3. rows' \in [1 .. Rows -> Row \cup {None}] /\ holds' \in [1 .. Holds -> Row \cup {None}]
    BY <2>1, <2>2 DEF EngineInvariant, TablePart
  <2>4. rows'[row] = [by |-> "link", bytes |-> <<>>] /\ rows'[row] # None
    BY <1>2, <2>1, <2>2, NoneAssumption DEF EngineInvariant, TablePart
  <2>5. UploadPart'
    <3>1. live'.rev = live'.displaced + 1
      BY DEF on_put, EngineInvariant, CatalogPart, Entry, Revisions
    <3>2. live'.staged = <<>> /\ live'.received = 0  BY DEF on_put
    <3>3. live'.sum # None => live'.sum = <<>>  BY DEF on_put
    <3>4. ~Unchecked(live'.link, live'.kind) => live'.sum # None
      <4>1. <<>> # None  BY NoneAssumption, EmptySeq
      <4>2. QED  BY <4>1 DEF on_put
    <3>5. Len(<<>>) + Len(<<>>) = 0 /\ <<>> \o <<>> = <<>>  OBVIOUS
    <3>6. QED  BY <1>4, <2>4, <3>1, <3>2, <3>3, <3>4, <3>5 DEF UploadPart
  <2>6. NothingLeaks'
    <3>1. \A i \in 1 .. Rows : mode # "fenced" /\ rows[i] # None => rows[i].by # "link"
      BY DEF EngineInvariant, TablePart, NothingLeaks, on_put, Idle
    <3>2. \A i \in 1 .. Holds : holds[i] # None => holds[i].by # "link"
      BY DEF EngineInvariant, TablePart, NothingLeaks, on_put, Idle
    <3>3. mode' = mode  BY DEF on_put, catalog
    <3>4. QED  BY <1>2, <1>4, <2>2, <2>4, <3>1, <3>2, <3>3 DEF NothingLeaks, EngineInvariant, TablePart
  <2>7. QED  BY <1>3, <2>3, <2>5, <2>6 DEF TablePart
<1>6. PeerPart'
  BY <1>4 DEF EngineInvariant, PeerPart, on_put
<1>7. TurnPart'
  BY <1>4 DEF EngineInvariant, TurnPart, on_put, Watch
<1>8. QED  BY <1>1, <1>5, <1>6, <1>7 DEF EngineInvariant

\* on_get: likewise for the hold.
LEMMA on_getKeeps ==
    ASSUME EngineInvariant, NEW l \in Links, NEW r \in Requests,
           NEW e \in Entry \cup {None}, on_get(l, r, e)
    PROVE  EngineInvariant'
<1> DEFINE hold == Least(FreeHolds)
<1>1. CatalogPart'  BY CatalogStays DEF EngineInvariant, on_get
<1>2. hold \in 1 .. Holds /\ holds[hold] = None
  <2>1. FreeHolds \in SUBSET Nat  BY EngineAssumption DEF FreeHolds
  <2>2. hold \in FreeHolds  BY <2>1, LeastIsMember DEF on_get
  <2>3. QED  BY <2>2 DEF FreeHolds
<1>3. e \in Entry /\ e.bytes \in Seq(Nat)  BY DEF on_get, Entry
<1>4. live' \in Download
  <2>1. up[l] \in Ceilings /\ up[l] \in Nat
    BY EngineAssumption DEF EngineInvariant, TurnPart, on_get
  <2>2. Smaller(up[l], Len(e.bytes)) \in Nat
    BY <1>3, <2>1, LenProperties DEF Smaller
  <2>3. e.rev \in Revisions  BY <1>3 DEF Entry
  <2>4. QED  BY <1>2, <2>1, <2>2, <2>3 DEF on_get, Download
<1>5. live' # Idle /\ live'.mode = "get" /\ live'.hold = hold /\ live'.link = l /\ live'.req = r
  BY DEF on_get, Idle
<1>6. TablePart'
  <2>1. [by |-> "link", bytes |-> e.bytes] \in Row  BY <1>3 DEF Row
  <2>2. holds' = [holds EXCEPT ![hold] = [by |-> "link", bytes |-> e.bytes]] /\ UNCHANGED rows
    BY DEF on_get
  <2>3. rows' \in [1 .. Rows -> Row \cup {None}] /\ holds' \in [1 .. Holds -> Row \cup {None}]
    BY <2>1, <2>2 DEF EngineInvariant, TablePart
  <2>4. holds'[hold] # None /\ holds'[hold].by = "link"
    BY <1>2, <2>1, <2>2, NoneAssumption DEF EngineInvariant, TablePart
  <2>5. NothingLeaks'
    <3>1. \A i \in 1 .. Rows : mode # "fenced" /\ rows[i] # None => rows[i].by # "link"
      BY DEF EngineInvariant, TablePart, NothingLeaks, on_get, Idle
    <3>2. \A i \in 1 .. Holds : holds[i] # None => holds[i].by # "link"
      BY DEF EngineInvariant, TablePart, NothingLeaks, on_get, Idle
    <3>3. mode' = mode  BY DEF on_get, catalog
    <3>4. QED  BY <1>2, <1>5, <2>2, <2>4, <3>1, <3>2, <3>3 DEF NothingLeaks, EngineInvariant, TablePart
  <2>6. QED  BY <1>4, <1>5, <2>3, <2>5 DEF TablePart, UploadPart
<1>7. PeerPart'
  BY <1>5 DEF EngineInvariant, PeerPart, on_get
<1>8. TurnPart'
  BY <1>5 DEF EngineInvariant, TurnPart, on_get, Watch
<1>9. QED  BY <1>1, <1>6, <1>7, <1>8 DEF EngineInvariant

-----------------------------------------------------------------------------
(* The records of an upload, and its end. *)

\* The bytes of an upload: what the reservation and the stage hold, and what was received.
LEMMA UploadFacts ==
    ASSUME EngineInvariant, live.mode = "put"
    PROVE  /\ live \in Upload /\ live # Idle /\ live.row \in 1 .. Rows /\ live.link \in Links
           /\ rows[live.row] \in Row /\ rows[live.row].by = "link"
           /\ rows[live.row].bytes \in Seq(Nat) /\ live.staged \in Seq(Nat) /\ live.crc \in Seq(Nat)
           /\ live.received \in Nat /\ live.sum \in Seq(Nat) \cup {None}
<1>1. live \in Upload /\ live # Idle  BY LiveKinds DEF EngineInvariant
<1>2. live.row \in 1 .. Rows /\ live.staged \in Seq(Nat) /\ live.crc \in Payloads
      /\ live.received \in Nat /\ live.sum \in Seq(Nat) \cup {None} /\ live.link \in Links
  BY <1>1 DEF Upload
<1>3. rows[live.row] \in Row /\ rows[live.row].by = "link"
  BY <1>2 DEF EngineInvariant, TablePart, UploadPart
<1>4. rows[live.row].bytes \in Seq(Nat)  BY <1>3 DEF Row
<1>5. QED  BY <1>1, <1>2, <1>3, <1>4, EngineAssumption

\* A record moves bytes to the reservation and the stage and none elsewhere.
LEMMA AdvanceKeepsTables ==
    ASSUME EngineInvariant, live.mode = "put", ModeStays,
           NEW data \in Seq(Nat), NEW card \in Seq(Nat), NEW rest \in Seq(Nat), NEW bank \in {0, 1},
           card \o rest = (rows[live.row].bytes \o live.staged) \o data,
           live' = [live EXCEPT !.received = @ + Len(data), !.staged = rest,
                                !.bank = bank, !.sum = Summed(data)],
           rows' = [rows EXCEPT ![live.row].bytes = card], UNCHANGED holds
    PROVE  TablePart'
<1> DEFINE old == rows[live.row].bytes \o live.staged
<1>1. /\ live \in Upload /\ live.row \in 1 .. Rows /\ rows[live.row] \in Row /\ rows[live.row].by = "link"
      /\ rows[live.row].bytes \in Seq(Nat) /\ live.staged \in Seq(Nat)
      /\ live.received \in Nat /\ live.sum \in Seq(Nat) \cup {None}
  BY UploadFacts
<1>2. Len(data) \in Nat  BY LenProperties
<1>3. Summed(data) \in Seq(Nat) \cup {None}  BY <1>1, JoinBytes DEF Summed
<1>4. live' \in Upload
  <2>1. live.received + Len(data) \in Nat  BY <1>1, <1>2
  <2>2. QED  BY <1>1, <1>3, <2>1 DEF Upload
<1>5. /\ live'.mode = "put" /\ live'.row = live.row /\ live'.kind = live.kind /\ live'.link = live.link
      /\ live'.rev = live.rev /\ live'.displaced = live.displaced
      /\ live'.received = live.received + Len(data) /\ live'.staged = rest /\ live'.sum = Summed(data)
  BY <1>1 DEF Upload
<1>6. rows \in [1 .. Rows -> Row \cup {None}] /\ holds \in [1 .. Holds -> Row \cup {None}]
  BY DEF EngineInvariant, TablePart
<1>7. /\ rows'[live.row] = [rows[live.row] EXCEPT !.bytes = card]
      /\ \A r \in 1 .. Rows : r # live.row => rows'[r] = rows[r]
  BY <1>1, <1>6
<1>8. rows'[live.row] \in Row /\ rows'[live.row].by = "link" /\ rows'[live.row].bytes = card
      /\ rows'[live.row] # None
  <2>1. [rows[live.row] EXCEPT !.bytes = card] \in Row  BY <1>1 DEF Row
  <2>2. /\ [rows[live.row] EXCEPT !.bytes = card].by = "link"
        /\ [rows[live.row] EXCEPT !.bytes = card].bytes = card
    BY <1>1 DEF Row
  <2>3. QED  BY <1>7, <2>1, <2>2, NoneAssumption
<1>9. rows' \in [1 .. Rows -> Row \cup {None}]  BY <1>6, <1>7, <1>8
<1>10. old \in Seq(Nat) /\ Len(old) = live.received
  <2>1. Len(rows[live.row].bytes) + Len(live.staged) = live.received
    BY DEF EngineInvariant, TablePart, UploadPart
  <2>2. QED  BY <1>1, <2>1, JoinBytes
<1>11. Len(card) + Len(rest) = live.received + Len(data)
  <2>1. Len(card \o rest) = Len(card) + Len(rest)  BY JoinBytes
  <2>2. Len(old \o data) = Len(old) + Len(data)  BY <1>10, JoinBytes
  <2>3. QED  BY <1>10, <2>1, <2>2
<1>12. Summed(data) # None => Summed(data) = card \o rest
  BY DEF Summed, EngineInvariant, TablePart, UploadPart
<1>13. ~Unchecked(live.link, live.kind) => Summed(data) # None
  <2>1. ~Unchecked(live.link, live.kind) => live.sum # None  BY DEF EngineInvariant, TablePart, UploadPart
  <2>2. live.sum # None => Summed(data) \in Seq(Nat)  BY <1>1, JoinBytes DEF Summed
  <2>3. QED  BY <2>1, <2>2, NoneAssumption
<1>14. UploadPart'
  BY <1>5, <1>8, <1>11, <1>12, <1>13 DEF UploadPart, EngineInvariant, TablePart
<1>15. NothingLeaks'
  <2>1. \A r \in 1 .. Rows : mode' # "fenced" => (rows'[r] # None /\ rows'[r].by = "link" <=> r = live.row)
    BY <1>1, <1>7, <1>8 DEF EngineInvariant, TablePart, NothingLeaks, ModeStays
  <2>2. \A h \in 1 .. Holds : ~(holds'[h] # None /\ holds'[h].by = "link")
    BY DEF EngineInvariant, TablePart, NothingLeaks
  <2>3. QED  BY <1>1, <1>5, <2>1, <2>2 DEF NothingLeaks
<1>16. QED  BY <1>4, <1>6, <1>9, <1>14, <1>15 DEF TablePart

\* A transfer that goes on: the peers wait on, the watch looks next.
LEMMA GoingOnKeepsRest ==
    ASSUME EngineInvariant, live # Idle, live' # Idle, live'.link = live.link, live'.req = live.req,
           Watch, UNCHANGED <<up, stall, owed, reboot, waiting, stray>>
    PROVE  PeerPart' /\ TurnPart'
<1>1. PeerPart'  BY PeersStay DEF EngineInvariant
<1>2. TurnPart'  BY DEF EngineInvariant, TurnPart, Watch
<1>3. QED  BY <1>1, <1>2

\* A record of an upload that is not its last (engine.rs `on_stream`).
LEMMA on_streamKeeps ==
    ASSUME EngineInvariant, NEW l \in Links, NEW r \in Requests, NEW off \in Offsets,
           NEW data \in Frames, on_stream(l, r, off, data)
    PROVE  EngineInvariant'
<1>1. live.mode = "put" /\ live # Idle  BY DEF on_stream, Uploading, LiveLink
<1>2. data \in Seq(Nat)  BY EngineAssumption
<1>3. live \in Upload /\ live.staged \in Seq(Nat) /\ rows[live.row].bytes \in Seq(Nat)
  BY <1>1, UploadFacts
<1>4. /\ Written(data) \in Seq(Nat) /\ Staged(data) \in Seq(Nat)
      /\ Written(data) \o Staged(data) = (rows[live.row].bytes \o live.staged) \o data
  BY <1>2, <1>3, AbsorbKeepsBytes DEF Flushed
<1>5. live' = [live EXCEPT !.received = @ + Len(data), !.staged = Staged(data),
                           !.bank = live.bank, !.sum = Summed(data)] /\ live.bank \in {0, 1}
  BY <1>3 DEF on_stream, Upload
<1>6. UNCHANGED catalog /\ ModeStays  BY DEF on_stream, ModeStays, catalog
<1>7. TablePart'
  BY <1>1, <1>2, <1>4, <1>5, <1>6, AdvanceKeepsTables DEF on_stream
<1>8. CatalogPart'  BY <1>6, CatalogStays DEF EngineInvariant
<1>9. live' # Idle /\ live'.link = live.link /\ live'.req = live.req
  BY <1>3, <1>5 DEF Upload, Idle
<1>10. PeerPart' /\ TurnPart'
  BY <1>1, <1>9, GoingOnKeepsRest DEF on_stream
<1>11. QED  BY <1>7, <1>8, <1>10 DEF EngineInvariant

\* A batch of an upload over the cable that is not its last (engine.rs `on_usb_map_batch`).
LEMMA on_usb_map_batchKeeps ==
    ASSUME EngineInvariant, NEW r \in Requests, NEW off \in Offsets, NEW data \in Frames,
           NEW bank \in {0, 1}, on_usb_map_batch(r, off, data, bank)
    PROVE  EngineInvariant'
<1>1. live.mode = "put" /\ live # Idle /\ live.staged = <<>>
  BY DEF on_usb_map_batch, BatchFits, Uploading, LiveLink
<1>2. data \in Seq(Nat)  BY EngineAssumption
<1>3. live \in Upload /\ rows[live.row].bytes \in Seq(Nat) /\ rows[live.row] \in Row
  BY <1>1, UploadFacts
<1> DEFINE card == rows[live.row].bytes \o data
<1>4. card \in Seq(Nat) /\ <<>> \in Seq(Nat) /\ card \o <<>> = card
      /\ rows[live.row].bytes \o live.staged = rows[live.row].bytes
  BY <1>1, <1>2, <1>3, JoinBytes
<1>5. live' = [live EXCEPT !.received = @ + Len(data), !.staged = <<>>,
                           !.bank = 1 - live.bank, !.sum = Summed(data)] /\ 1 - live.bank \in {0, 1}
  <2>1. 1 - live.bank \in {0, 1}  BY <1>3 DEF Upload
  <2>2. live' = [live EXCEPT !.received = @ + Len(data), !.bank = 1 - @, !.sum = Summed(data)]
    BY DEF on_usb_map_batch
  <2>3. [live EXCEPT !.staged = <<>>] = live  BY <1>1, <1>3 DEF Upload
  <2>4. QED  BY <1>1, <1>3, <2>1, <2>2, <2>3 DEF Upload
<1>6. UNCHANGED catalog /\ ModeStays  BY DEF on_usb_map_batch, ModeStays, catalog
<1>7. rows' = [rows EXCEPT ![live.row].bytes = card]  BY DEF on_usb_map_batch
<1>8. TablePart'
  BY <1>1, <1>2, <1>4, <1>5, <1>6, <1>7, AdvanceKeepsTables DEF on_usb_map_batch
<1>9. CatalogPart'  BY <1>6, CatalogStays DEF EngineInvariant
<1>10. live' # Idle /\ live'.link = live.link /\ live'.req = live.req
  BY <1>3, <1>5 DEF Upload, Idle
<1>11. PeerPart' /\ TurnPart'
  BY <1>1, <1>10, GoingOnKeepsRest DEF on_usb_map_batch
<1>12. QED  BY <1>8, <1>9, <1>11 DEF EngineInvariant

\* The catalog an upload publishes is in order when its bytes are those that were declared.
LEMMA PublishedInOrder ==
    ASSUME EngineInvariant, live.mode = "put", NEW bytes \in Seq(Nat), NEW sum, Acceptable(sum),
           Len(bytes) = Len(live.crc), sum # None => sum = bytes, ~Unchecked(live.link, live.kind) => sum # None
    PROVE  /\ Published(PublishId, NewEntry(bytes)) \in [Objects -> Entry \cup {None}]
           /\ Declared(Published(PublishId, NewEntry(bytes)))
           /\ Freed(PublishId) \in [Objects -> Entry \cup {None}]
           /\ Cursor(PublishId) \in 1 .. MaxObject + 1
<1>1. PublishId \in Objects  BY DEF Acceptable, HeadStands
<1>2. live \in Upload /\ live.crc \in Seq(Nat)  BY UploadFacts
<1>3. NewEntry(bytes) \in Entry  BY <1>2 DEF Upload, Entry, NewEntry
<1>4. head \in [Objects -> Entry \cup {None}] /\ kept \in [Objects -> Entry \cup {None}]
      /\ next \in 1 .. MaxObject + 1
  BY DEF EngineInvariant, CatalogPart
<1>5. Published(PublishId, NewEntry(bytes)) \in [Objects -> Entry \cup {None}]
  BY <1>3, <1>4 DEF Published
<1>6. ~Unchecked(live.link, live.kind) => bytes = live.crc  BY DEF Acceptable
<1>7. Declared(Published(PublishId, NewEntry(bytes)))
  BY <1>1, <1>4, <1>6 DEF EngineInvariant, CatalogPart, PublishedIsDeclared, Declared, Published, NewEntry
<1>8. Freed(PublishId) \in [Objects -> Entry \cup {None}]  BY <1>4 DEF Freed
<1>9. Cursor(PublishId) \in 1 .. MaxObject + 1
  <2>1. MaxObject \in Nat  BY EngineAssumption
  <2>2. QED  BY <1>1, <1>4, <2>1 DEF Cursor, Objects
<1>10. QED  BY <1>5, <1>7, <1>8, <1>9

\* finish_upload: an upload that commits, and one that does not.
LEMMA FinishKeeps ==
    ASSUME EngineInvariant, live.mode = "put", NEW bytes \in Seq(Nat), NEW sum,
           Len(bytes) = Len(live.crc), sum # None => sum = bytes, ~Unchecked(live.link, live.kind) => sum # None,
           Commits(bytes, sum) \/ CommitFails(bytes, sum)
    PROVE  EngineInvariant'
<1>1. live # Idle /\ live \in Upload /\ live.link \in Links  BY UploadFacts
<1> DEFINE heads == Published(PublishId, NewEntry(bytes))
           keeps == Freed(PublishId)
           cursor == Cursor(PublishId)
<1>2. CASE Commits(bytes, sum)
  <2>1. CommitTo(heads, keeps, cursor) /\ Acceptable(sum)  BY <1>2 DEF Commits
  <2>2. CatalogPart'
    BY <2>1, PublishedInOrder, CommitKeepsCatalog DEF EngineInvariant
  <2>3. live' = Idle /\ live'.mode = "idle"  BY <1>2 DEF Commits, Idle
  <2>4. rows' = [rows EXCEPT ![live.row] = None] /\ UNCHANGED holds  BY <1>2 DEF Commits
  <2>5. mode # "fenced"  BY <2>1 DEF CommitTo, writable
  <2>6. NothingLeaks'
    <3>1. \A r \in 1 .. Rows : ~(rows'[r] # None /\ rows'[r].by = "link")
      BY <2>4, <2>5 DEF EngineInvariant, TablePart, NothingLeaks
    <3>2. \A h \in 1 .. Holds : ~(holds'[h] # None /\ holds'[h].by = "link")
      BY <2>4 DEF EngineInvariant, TablePart, NothingLeaks
    <3>3. QED  BY <2>3, <3>1, <3>2 DEF NothingLeaks
  <2>7. TablePart'
    BY <2>3, <2>4, <2>6 DEF EngineInvariant, TablePart, UploadPart
  <2>8. PeerPart'
    BY <1>1, <1>2, EndIsAnswered DEF EngineInvariant, Commits
  <2>9. TurnPart'  BY <1>2 DEF EngineInvariant, TurnPart, Commits
  <2>10. QED  BY <2>2, <2>7, <2>8, <2>9 DEF EngineInvariant
<1>3. CASE CommitFails(bytes, sum)
  <2>1. Fail  BY <1>3 DEF CommitFails
  <2>2. CASE UNCHANGED catalog  BY <1>1, <2>1, <2>2, RefusalKeeps
  <2>3. CASE Acceptable(sum) /\ CommitErr(heads, keeps, cursor)
    <3>1. CatalogPart'
      BY <2>3, PublishedInOrder, CommitKeepsCatalog DEF EngineInvariant
    <3>2. ModeStays  BY <2>3, CommitModes
    <3>3. QED  BY <1>1, <2>1, <3>1, <3>2, FailKeeps
  <2>4. QED  BY <1>3, <2>2, <2>3 DEF CommitFails
<1>4. QED  BY <1>2, <1>3

\* What an upload's last record completes: the payload, and the checksum of exactly it.
LEMMA LastCompletes ==
    ASSUME EngineInvariant, live.mode = "put", NEW data \in Seq(Nat), Last(data),
           NEW bytes, bytes = (rows[live.row].bytes \o live.staged) \o data
    PROVE  /\ bytes \in Seq(Nat) /\ Len(bytes) = Len(live.crc)
           /\ Summed(data) # None => Summed(data) = bytes
           /\ ~Unchecked(live.link, live.kind) => Summed(data) # None
<1> DEFINE old == rows[live.row].bytes \o live.staged
<1>1. /\ rows[live.row].bytes \in Seq(Nat) /\ live.staged \in Seq(Nat)
      /\ live.received \in Nat /\ live.sum \in Seq(Nat) \cup {None}
  BY UploadFacts
<1>2. old \in Seq(Nat) /\ Len(old) = Len(rows[live.row].bytes) + Len(live.staged)
  BY <1>1, JoinBytes
<1>3. /\ Len(rows[live.row].bytes) + Len(live.staged) = live.received
      /\ live.sum # None => live.sum = old
      /\ ~Unchecked(live.link, live.kind) => live.sum # None
  BY DEF EngineInvariant, TablePart, UploadPart
<1>4. bytes \in Seq(Nat) /\ Len(bytes) = Len(old) + Len(data)  BY <1>2, JoinBytes
<1>5. Len(bytes) = Len(live.crc)  BY <1>2, <1>3, <1>4 DEF Last
<1>6. live.sum # None => Summed(data) = bytes /\ Summed(data) # None
  BY <1>3, <1>4, NoneAssumption DEF Summed
<1>7. live.sum = None => Summed(data) = None  BY DEF Summed
<1>8. QED  BY <1>3, <1>4, <1>5, <1>6, <1>7

\* The last record, with which the upload is published or refused (engine.rs `finish_upload`).
LEMMA FinishStreamKeeps ==
    ASSUME EngineInvariant, NEW l \in Links, NEW r \in Requests, NEW off \in Offsets,
           NEW data \in Frames, FinishStream(l, r, off, data)
    PROVE  EngineInvariant'
<1>1. live.mode = "put"  BY DEF FinishStream, Uploading
<1>2. data \in Seq(Nat)  BY EngineAssumption
<1>3. Flushed(data) = (rows[live.row].bytes \o live.staged) \o data
  BY <1>1, <1>2, UploadFacts, AbsorbKeepsBytes
<1>4. Last(data)  BY DEF FinishStream
<1>5. /\ Flushed(data) \in Seq(Nat) /\ Len(Flushed(data)) = Len(live.crc)
      /\ Summed(data) # None => Summed(data) = Flushed(data)
      /\ ~Unchecked(live.link, live.kind) => Summed(data) # None
  BY <1>1, <1>2, <1>3, <1>4, LastCompletes
<1>6. Commits(Flushed(data), Summed(data)) \/ CommitFails(Flushed(data), Summed(data))
  BY DEF FinishStream
<1>7. QED  BY <1>1, <1>5, <1>6, FinishKeeps

\* The last batch, with which the upload is published or refused.
LEMMA FinishBatchKeeps ==
    ASSUME EngineInvariant, NEW r \in Requests, NEW off \in Offsets, NEW data \in Frames,
           NEW bank \in {0, 1}, FinishBatch(r, off, data, bank)
    PROVE  EngineInvariant'
<1> DEFINE bytes == rows[live.row].bytes \o data
<1>1. live.mode = "put" /\ live.staged = <<>>  BY DEF FinishBatch, BatchFits, Uploading
<1>2. data \in Seq(Nat)  BY EngineAssumption
<1>3. rows[live.row].bytes \in Seq(Nat)  BY <1>1, UploadFacts
<1>4. bytes = (rows[live.row].bytes \o live.staged) \o data
  BY <1>1, <1>3, JoinBytes
<1>5. Last(data)  BY DEF FinishBatch
<1>6. /\ bytes \in Seq(Nat) /\ Len(bytes) = Len(live.crc)
      /\ Summed(data) # None => Summed(data) = bytes
      /\ ~Unchecked(live.link, live.kind) => Summed(data) # None
  BY <1>1, <1>2, <1>4, <1>5, LastCompletes
<1>7. Commits(bytes, Summed(data)) \/ CommitFails(bytes, Summed(data))
  BY DEF FinishBatch
<1>8. QED  BY <1>1, <1>6, <1>7, FinishKeeps

\* A record that is refused ends the transfer at once.
LEMMA RecordRefusalKeeps ==
    ASSUME EngineInvariant, NEW l \in Links, NEW r \in Requests, NEW off \in Offsets,
           NEW data \in Frames, NEW bank \in {0, 1},
           StreamFails(l, r, off, data) \/ BatchFails(r, off, data, bank)
    PROVE  EngineInvariant'
<1>1. live # Idle /\ Fail /\ UNCHANGED catalog
  BY DEF StreamFails, BatchFails, Uploading, LiveLink
<1>2. QED  BY <1>1, RefusalKeeps

-----------------------------------------------------------------------------
(* Pumping, cancelling, and the watchdog. *)

\* An owed answer goes to the peer that waits for it, which is not the answer of the
\* transfer that may be live on the same link.
LEMMA PollOwedKeeps ==
    ASSUME EngineInvariant, NEW l \in Links, PollOwed(l) PROVE EngineInvariant'
<1>1. CatalogPart'  BY CatalogStays DEF EngineInvariant, PollOwed, storeVars
<1>2. TablePart'  BY TablesStay DEF EngineInvariant, PollOwed, storeVars, catalog, ModeStays
<1>3. PeerPart'
  <2>1. owed.link = l /\ owed.req \in waiting[l] /\ owed' = None /\ UNCHANGED live
    BY DEF PollOwed, Owes, EngineInvariant, PeerPart
  <2>2. stray' = FALSE /\ waiting' = [waiting EXCEPT ![l] = @ \ {owed.req}]
    BY <2>1 DEF PollOwed, Answer, EngineInvariant, PeerPart
  <2>3. live # Idle => live.link \in Links  BY LiveKinds DEF EngineInvariant
  <2>4. ASSUME live # Idle PROVE live.req \in waiting'[live.link]
    BY <2>1, <2>2, <2>3, <2>4 DEF EngineInvariant, PeerPart, PollOwed, Owes
  <2>5. waiting' \in [Links -> SUBSET Requests]  BY <2>2 DEF EngineInvariant, PeerPart
  <2>6. QED  BY <2>1, <2>2, <2>4, <2>5 DEF PeerPart
<1>4. TurnPart'  BY DEF EngineInvariant, TurnPart, PollOwed, Watch
<1>5. QED  BY <1>1, <1>2, <1>3, <1>4 DEF EngineInvariant

\* A download sends its next bytes (engine.rs `poll`).
LEMMA pollKeeps ==
    ASSUME EngineInvariant, NEW l \in Links, poll(l) PROVE EngineInvariant'
<1>1. live.mode = "get" /\ live # Idle  BY DEF poll, Pumps, LiveLink
<1>2. live \in Download  BY <1>1, LiveKinds DEF EngineInvariant
<1>3. Held \in Seq(Nat)
  <2>1. live.hold \in 1 .. Holds  BY <1>2 DEF Download
  <2>2. holds[live.hold] \in Row
    BY <1>1, <2>1 DEF EngineInvariant, TablePart, NothingLeaks
  <2>3. QED  BY <2>2 DEF Held, Row
<1>4. Smaller(live.sent + live.ceil, Len(Held)) \in Nat
  <2>1. live.sent \in Nat /\ live.ceil \in Nat  BY <1>2, EngineAssumption DEF Download
  <2>2. Len(Held) \in Nat  BY <1>3, LenProperties
  <2>3. QED  BY <2>1, <2>2 DEF Smaller
<1>5. live' \in Download /\ live'.mode = "get" /\ live'.hold = live.hold /\ live'.link = live.link
      /\ live'.req = live.req /\ live' # Idle
  BY <1>2, <1>4 DEF poll, Download, Idle
<1>6. UNCHANGED <<catalog, rows, holds>> /\ mode' = mode  BY DEF poll, storeVars, catalog
<1>7. CatalogPart'  BY <1>6, CatalogStays DEF EngineInvariant
<1>8. TablePart'
  BY <1>1, <1>5, <1>6 DEF EngineInvariant, TablePart, UploadPart, NothingLeaks
<1>9. PeerPart' /\ TurnPart'  BY <1>1, <1>5, GoingOnKeepsRest DEF poll
<1>10. QED  BY <1>7, <1>8, <1>9 DEF EngineInvariant

\* A download ends in a failed read (engine.rs `poll`).
LEMMA PollEndsKeeps ==
    ASSUME EngineInvariant, NEW l \in Links, PollEnds(l) PROVE EngineInvariant'
  BY RefusalKeeps DEF PollEnds, Pumps, LiveLink

\* A peer withdraws its transfer (engine.rs `on_cancel`).
LEMMA on_cancelKeeps ==
    ASSUME EngineInvariant, NEW l \in Links, NEW r \in Requests, on_cancel(l, r)
    PROVE  EngineInvariant'
<1>1. live # Idle /\ live.link = l /\ live.req = r  BY DEF on_cancel, LiveLink
<1>2. UNCHANGED catalog /\ ModeStays  BY DEF on_cancel, ModeStays, catalog
<1>3. CatalogPart'  BY <1>2, CatalogStays DEF EngineInvariant
<1>4. TablePart'  BY <1>2, AbandonKeepsTables DEF EngineInvariant, on_cancel
<1>5. PeerPart'  BY <1>1, EndIsOwed DEF EngineInvariant, on_cancel, abandon
<1>6. TurnPart'  BY DEF EngineInvariant, TurnPart, on_cancel, abandon
<1>7. QED  BY <1>3, <1>4, <1>5, <1>6 DEF EngineInvariant

\* The watch after a call: it starts, goes on or ends a silent transfer (engine.rs `watch_stall`).
LEMMA watch_stallKeeps ==
    ASSUME EngineInvariant, watch_stall PROVE EngineInvariant'
<1>1. live # Idle /\ live.link \in Links /\ live.req \in Requests /\ Bytes \in Nat
  BY LiveKinds DEF EngineInvariant, TurnPart, watch_stall
<1>2. UNCHANGED catalog /\ ModeStays /\ UNCHANGED <<waiting, stray>>
  BY DEF watch_stall, ModeStays, catalog, history
<1>3. CatalogPart'  BY <1>2, CatalogStays DEF EngineInvariant
<1>4. CASE abandon /\ owed' = [link |-> live.link, req |-> live.req]
  <2>1. TablePart'  BY <1>2, <1>4, AbandonKeepsTables DEF EngineInvariant
  <2>2. PeerPart'  BY <1>1, <1>2, <1>4, EndIsOwed DEF EngineInvariant, abandon
  <2>3. TurnPart'  BY <1>4 DEF EngineInvariant, TurnPart, watch_stall, abandon
  <2>4. QED  BY <1>3, <2>1, <2>2, <2>3 DEF EngineInvariant
<1>5. CASE stall' = Anchor /\ UNCHANGED <<live, owed, rows, holds>>
  <2>1. TablePart'  BY <1>2, <1>5, TablesStay DEF EngineInvariant
  <2>2. PeerPart'  BY <1>1, <1>2, <1>5, PeersStay DEF EngineInvariant
  <2>3. Anchor \in [req : Requests, bytes : Nat, age : 0 .. Wrap - 1]
    <3>1. 0 \in 0 .. Wrap - 1  BY EngineAssumption
    <3>2. QED  BY <1>1, <3>1 DEF Anchor, EngineInvariant, TurnPart
  <2>4. TurnPart'  BY <1>5, <2>3 DEF EngineInvariant, TurnPart, watch_stall
  <2>5. QED  BY <1>3, <2>1, <2>2, <2>4 DEF EngineInvariant
<1>6. QED  BY <1>4, <1>5 DEF watch_stall

\* Time passes, and the age of a stall wraps with the clock.
LEMMA TickKeeps ==
    ASSUME EngineInvariant, Tick PROVE EngineInvariant'
<1>1. CatalogPart'  BY CatalogStays DEF EngineInvariant, Tick, storeVars
<1>2. TablePart'  BY TablesStay DEF EngineInvariant, Tick, storeVars, catalog, ModeStays
<1>3. PeerPart'  BY DEF EngineInvariant, PeerPart, Tick
<1>4. stall' = None \/ stall' \in [req : Requests, bytes : Nat, age : 0 .. Wrap - 1]
  <2>1. ASSUME stall # None PROVE (stall.age + 1) % Wrap \in 0 .. Wrap - 1
    <3>1. Wrap \in Nat \ {0} /\ stall.age \in Nat
      BY <2>1, EngineAssumption DEF EngineInvariant, TurnPart
    <3>2. QED  BY <3>1
  <2>2. QED  BY <2>1 DEF EngineInvariant, TurnPart, Tick
<1>5. TurnPart'  BY <1>4 DEF EngineInvariant, TurnPart, Tick
<1>6. QED  BY <1>1, <1>2, <1>3, <1>5 DEF EngineInvariant

-----------------------------------------------------------------------------
(* Links. *)

\* A link event ends the transfer of that link, and its peer waits for nothing.
LEMMA LinkEventKeeps ==
    ASSUME EngineInvariant, NEW l \in Links, LinkEvent(l) PROVE EngineInvariant'
<1>1. UNCHANGED catalog /\ DropLink(l) /\ Watch /\ UNCHANGED <<reboot, stray>>
  BY DEF LinkEvent, on_link_up, on_link_lost
<1>2. CatalogPart'  BY <1>1, CatalogStays DEF EngineInvariant
<1>3. ModeStays  BY <1>1 DEF ModeStays, catalog
<1>4. TablePart'
  BY <1>1, <1>3, TablesStay, AbandonKeepsTables DEF EngineInvariant, DropLink
<1>5. live' = Idle \/ (live' = live /\ live.link # l)
  BY <1>1 DEF DropLink, abandon, LiveLink
<1>6. owed' = None \/ (owed' = owed /\ owed.link # l)
  BY <1>1 DEF DropLink, Owes
<1>7. waiting' = [waiting EXCEPT ![l] = {}]  BY <1>1 DEF DropLink
<1>8. live # Idle => live.link \in Links  BY LiveKinds DEF EngineInvariant
<1>9. PeerPart'
  BY <1>1, <1>5, <1>6, <1>7, <1>8 DEF EngineInvariant, PeerPart
<1>10. up' \in [Links -> Ceilings \cup {None}]
  BY DEF EngineInvariant, TurnPart, LinkEvent, on_link_up, on_link_lost
<1>11. stall' = stall \/ stall' = None  BY <1>1 DEF DropLink, abandon
<1>12. TurnPart'
  BY <1>1, <1>10, <1>11 DEF EngineInvariant, TurnPart, Watch
<1>13. QED  BY <1>2, <1>4, <1>9, <1>12 DEF EngineInvariant

-----------------------------------------------------------------------------
(* Requests that are answered at once. *)

\* They touch the catalog, and for a reboot the flag; nothing else.
LEMMA AtOnceKeeps ==
    ASSUME EngineInvariant, NEW l \in Links, AtOnce(l), CatalogPart', ModeStays, reboot' \in BOOLEAN
    PROVE  EngineInvariant'
<1>1. TablePart'  BY TablesStay DEF EngineInvariant, AtOnce
<1>2. PeerPart'  BY DEF EngineInvariant, PeerPart, AtOnce, history
<1>3. TurnPart'  BY DEF EngineInvariant, TurnPart, AtOnce, Watch
<1>4. QED  BY <1>1, <1>2, <1>3 DEF EngineInvariant

\* A commit of a well-formed batch, whatever becomes of it.
LEMMA BatchKeeps ==
    ASSUME EngineInvariant, NEW l \in Links, AtOnce(l), reboot' \in BOOLEAN,
           NEW heads \in [Objects -> Entry \cup {None}], Declared(heads),
           NEW keeps \in [Objects -> Entry \cup {None}], NEW cursor \in 1 .. MaxObject + 1,
           CommitTo(heads, keeps, cursor) \/ CommitErr(heads, keeps, cursor)
    PROVE  EngineInvariant'
<1>1. CatalogPart'  BY CommitKeepsCatalog DEF EngineInvariant
<1>2. ModeStays  BY CommitModes
<1>3. QED  BY <1>1, <1>2, AtOnceKeeps

\* What the store has now is in order, also without one of its objects.
LEMMA CatalogFacts ==
    ASSUME CatalogPart
    PROVE  /\ head \in [Objects -> Entry \cup {None}] /\ kept \in [Objects -> Entry \cup {None}]
           /\ next \in 1 .. MaxObject + 1 /\ MaxObject \in Nat
           /\ Declared(head)
           /\ \A o \in Objects :
                 /\ [head EXCEPT ![o] = None] \in [Objects -> Entry \cup {None}]
                 /\ [kept EXCEPT ![o] = None] \in [Objects -> Entry \cup {None}]
                 /\ Declared([head EXCEPT ![o] = None])
           /\ next \in Objects => next + 1 \in 1 .. MaxObject + 1
<1>1. MaxObject \in Nat  BY EngineAssumption
<1>2. Declared(head)  BY DEF CatalogPart, PublishedIsDeclared, Declared
<1>3. \A o \in Objects : Declared([head EXCEPT ![o] = None])
  BY <1>2 DEF CatalogPart, Declared
<1>4. QED  BY <1>1, <1>2, <1>3 DEF CatalogPart, Objects

\* An entry whose bytes are its checksum may be put anywhere.
LEMMA PutKeepsDeclared ==
    ASSUME NEW heads \in [Objects -> Entry \cup {None}], Declared(heads), NEW o \in Objects,
           NEW e \in Entry, e.bytes = e.crc
    PROVE  /\ [heads EXCEPT ![o] = e] \in [Objects -> Entry \cup {None}]
           /\ Declared([heads EXCEPT ![o] = e])
  BY DEF Declared

\* An object is removed for a peer (engine.rs `apply_remove`).
LEMMA on_removeKeeps ==
    ASSUME EngineInvariant, NEW l \in Links, NEW o \in Objects, on_remove(l, o)
    PROVE  EngineInvariant'
<1> DEFINE heads == [head EXCEPT ![o] = None]
           keeps == [kept EXCEPT ![o] = None]
<1>1. CommitTo(heads, keeps, next) \/ CommitErr(heads, keeps, next)  BY DEF on_remove
<1>2. AtOnce(l) /\ reboot' \in BOOLEAN  BY DEF on_remove, EngineInvariant, TurnPart
<1>3. QED  BY <1>1, <1>2, CatalogFacts, BatchKeeps DEF EngineInvariant

\* What the device itself writes is complete when it is committed.
LEMMA DeviceEntryInOrder ==
    ASSUME NEW rev \in Revisions, NEW kind \in Kinds \cup {"device"}
    PROVE  /\ DeviceEntry(rev, kind) \in Entry
           /\ DeviceEntry(rev, kind).bytes = DeviceEntry(rev, kind).crc
  BY DEF DeviceEntry, Entry

\* The empty entry that arming publishes has the checksum of no bytes.
LEMMA ReserveInOrder == Reserve \in Entry /\ Reserve.bytes = Reserve.crc
<1>1. 1 \in Revisions  BY EngineAssumption DEF Revisions
<1>2. QED  BY <1>1, EmptySeq DEF Reserve, Entry

\* An update is armed, with a rollback reserve published for it (engine.rs `apply_arm`).
LEMMA on_armKeeps ==
    ASSUME EngineInvariant, NEW l \in Links, NEW o \in Objects, on_arm(l, o)
    PROVE  EngineInvariant'
<1> DEFINE heads == [head EXCEPT ![next] = Reserve]
<1>1. CommitTo(heads, kept, next + 1) \/ CommitErr(heads, kept, next + 1)  BY DEF on_arm
<1>2. AtOnce(l) /\ reboot' \in BOOLEAN /\ next \in Objects
  BY DEF on_arm, EngineInvariant, TurnPart
<1>3. heads \in [Objects -> Entry \cup {None}] /\ Declared(heads)
  BY <1>2, CatalogFacts, ReserveInOrder, PutKeepsDeclared DEF EngineInvariant
<1>4. QED  BY <1>1, <1>2, <1>3, CatalogFacts, BatchKeeps DEF EngineInvariant

\* Two commits in one call: the reserve, and its removal if there is a sequence left for it.
LEMMA ArmTakenBackKeeps ==
    ASSUME EngineInvariant, NEW l \in Links, NEW o \in Objects, ArmTakenBack(l, o)
    PROVE  EngineInvariant'
<1>1. AtOnce(l) /\ reboot' \in BOOLEAN /\ next \in Objects /\ mode = "rw"
  BY DEF ArmTakenBack, EngineInvariant, TurnPart, writable
<1>2. ModeStays  BY <1>1 DEF ModeStays
<1>3. sequence \in Nat /\ MaxSequence \in Nat /\ sequence >= 1 /\ sequence + 1 <= MaxSequence
  BY <1>1, EngineAssumption DEF EngineInvariant, CatalogPart
<1>4. head' \in [Objects -> Entry \cup {None}] /\ Declared(head')
  BY <1>1, CatalogFacts, ReserveInOrder, PutKeepsDeclared DEF EngineInvariant, ArmTakenBack
<1>5. sequence' \in 1 .. MaxSequence
  BY <1>3 DEF ArmTakenBack
<1>6. mode' \in {"rw", "exhausted", "fenced"} /\ (mode' = "rw" => sequence' < MaxSequence)
  BY <1>1, <1>3, <1>5 DEF ArmTakenBack
<1>7. next' \in 1 .. MaxObject + 1 /\ kept' = kept
  BY <1>1, CatalogFacts DEF EngineInvariant, ArmTakenBack
<1>8. format' \in {"no", "clean", "dirty"}
  BY DEF EngineInvariant, CatalogPart, ArmTakenBack
<1>9. PublishedIsDeclared'  BY <1>4 DEF Declared, PublishedIsDeclared
<1>10. CatalogPart'
  BY <1>4, <1>5, <1>6, <1>7, <1>8, <1>9 DEF EngineInvariant, CatalogPart
<1>11. QED  BY <1>1, <1>2, <1>10, AtOnceKeeps

\* A receipt the card already holds commits nothing (metadata.rs `edit`).
LEMMA ArchivedAgainKeeps ==
    ASSUME EngineInvariant, NEW l \in Links, ArchivedAgain(l) PROVE EngineInvariant'
<1>1. AtOnce(l) /\ reboot' \in BOOLEAN  BY DEF ArchivedAgain, EngineInvariant, TurnPart
<1>2. mode' = mode \/ mode' = "fenced"  BY DEF ArchivedAgain
<1>3. CatalogPart'
  BY <1>2 DEF ArchivedAgain, EngineInvariant, CatalogPart, PublishedIsDeclared
<1>4. ModeStays  BY <1>2 DEF ModeStays
<1>5. QED  BY <1>1, <1>3, <1>4, AtOnceKeeps

\* A ride is marked as archived, in a metadata object that is new or replaced (engine.rs
\* `on_archive`).
LEMMA on_archiveKeeps ==
    ASSUME EngineInvariant, NEW l \in Links, on_archive(l) PROVE EngineInvariant'
<1>1. PICK m \in Objects :
        /\ Metadata(m)
        /\ LET heads == Published(m, DeviceEntry(HeadRev(m) + 1, "device"))
           IN  CommitTo(heads, kept, Cursor(m)) \/ CommitErr(heads, kept, Cursor(m))
  BY DEF on_archive
<1> DEFINE e == DeviceEntry(HeadRev(m) + 1, "device")
<1>2. AtOnce(l) /\ reboot' \in BOOLEAN  BY DEF on_archive, EngineInvariant, TurnPart
<1>3. HeadRev(m) + 1 \in Revisions
  <2>1. MaxRevision \in Nat \ {0}  BY EngineAssumption
  <2>2. head[m] \in Entry \cup {None}  BY CatalogFacts DEF EngineInvariant
  <2>3. QED  BY <1>1, <2>1, <2>2 DEF Metadata, HeadRev, Entry, Revisions
<1>4. e \in Entry /\ e.bytes = e.crc  BY <1>3, DeviceEntryInOrder
<1>5. [head EXCEPT ![m] = e] \in [Objects -> Entry \cup {None}] /\ Declared([head EXCEPT ![m] = e])
  <2> HIDE DEF e
  <2>1. QED  BY <1>4, CatalogFacts, PutKeepsDeclared DEF EngineInvariant
<1>6. Cursor(m) \in 1 .. MaxObject + 1
  BY CatalogFacts DEF EngineInvariant, Cursor
<1>7. CommitTo([head EXCEPT ![m] = e], kept, Cursor(m)) \/ CommitErr([head EXCEPT ![m] = e], kept, Cursor(m))
  BY <1>1 DEF Published
<1> HIDE DEF e
<1>8. QED  BY <1>2, <1>5, <1>6, <1>7, CatalogFacts, BatchKeeps DEF EngineInvariant

\* The card is formatted, which the engine learns of by the reboot (engine.rs `on_format`).
LEMMA on_formatKeeps ==
    ASSUME EngineInvariant, NEW l \in Links, on_format(l) PROVE EngineInvariant'
<1>1. AtOnce(l) /\ reboot' \in BOOLEAN /\ ModeStays  BY DEF on_format, ModeStays
<1>2. format' \in {"no", "clean", "dirty"}
  BY DEF on_format, EngineInvariant, CatalogPart
<1>3. CatalogPart'
  BY <1>2 DEF on_format, EngineInvariant, CatalogPart, PublishedIsDeclared
<1>4. QED  BY <1>1, <1>3, AtOnceKeeps

\* The reboot: RAM is empty, and the card has the old catalog, or the new one of a format.
LEMMA RebootKeeps ==
    ASSUME EngineInvariant, Reboot PROVE EngineInvariant'
<1>1. MaxSequence \in Nat /\ MaxSequence > 1 /\ MaxObject \in Nat /\ MaxObject > 0
  BY EngineAssumption
<1>2. CatalogPart'
  <2>1. CASE format = "no"
    BY <1>1, <2>1 DEF EngineInvariant, CatalogPart, Reboot, PublishedIsDeclared
  <2>2. CASE format # "no"
    <3>1. head' = Empty /\ kept' = Empty /\ Empty \in [Objects -> Entry \cup {None}]
      BY <2>2 DEF Reboot, Empty
    <3>2. PublishedIsDeclared'  BY <3>1 DEF PublishedIsDeclared, Empty
    <3>3. QED  BY <1>1, <2>2, <3>1, <3>2 DEF CatalogPart, Reboot
  <2>3. QED  BY <2>1, <2>2
<1>3. TablePart'
  <2>1. live' = Idle /\ live'.mode = "idle"  BY DEF Reboot, Idle
  <2>2. rows' = [r \in 1 .. Rows |-> None] /\ holds' = [h \in 1 .. Holds |-> None]
    BY DEF Reboot
  <2>3. NothingLeaks'  BY <2>1, <2>2 DEF NothingLeaks
  <2>4. QED  BY <2>1, <2>2, <2>3 DEF TablePart, UploadPart
<1>4. PeerPart'  BY DEF EngineInvariant, PeerPart, Reboot
<1>5. TurnPart'  BY DEF EngineInvariant, TurnPart, Reboot, Serving
<1>6. QED  BY <1>2, <1>3, <1>4, <1>5 DEF EngineInvariant

-----------------------------------------------------------------------------
(* What the device does between two calls. *)

\* What the device does in the store touches no peer and no turn.
LEMMA ElsewhereKeepsRest ==
    ASSUME EngineInvariant, Elsewhere PROVE PeerPart' /\ TurnPart'
  BY DEF EngineInvariant, PeerPart, TurnPart, Elsewhere, engineVars, history

\* The device commits between two calls (flat_store.rs `serve`).
LEMMA DeviceCommitKeeps ==
    ASSUME EngineInvariant, NEW o \in Objects, DeviceCommit(o) PROVE EngineInvariant'
<1>1. CatalogPart  BY DEF EngineInvariant
<1>2. 1 \in Revisions /\ MaxRevision \in Nat  BY EngineAssumption DEF Revisions
<1>3. ASSUME NEW heads, NEW keeps, NEW cursor, CommitTo(heads, keeps, cursor)
      PROVE  ModeStays
  BY <1>3, CommitModes
<1>4. CatalogPart' /\ ModeStays
  <2>1. ASSUME NEW kind \in {"data", "device"}, o = next,
               CommitTo([head EXCEPT ![o] = DeviceEntry(1, kind)], kept, next + 1)
        PROVE  CatalogPart' /\ ModeStays
    <3>1. DeviceEntry(1, kind) \in Entry /\ DeviceEntry(1, kind).bytes = DeviceEntry(1, kind).crc
      BY <1>2, DeviceEntryInOrder DEF Kinds
    <3>2. /\ [head EXCEPT ![o] = DeviceEntry(1, kind)] \in [Objects -> Entry \cup {None}]
          /\ Declared([head EXCEPT ![o] = DeviceEntry(1, kind)])
      BY <1>1, <3>1, CatalogFacts, PutKeepsDeclared
    <3>3. QED  BY <1>1, <2>1, <3>2, <1>3, CatalogFacts, CommitKeepsCatalog
  <2>2. ASSUME CommitTo([head EXCEPT ![o] = None], [kept EXCEPT ![o] = None], next)
        PROVE  CatalogPart' /\ ModeStays
    BY <1>1, <1>3, <2>2, CatalogFacts, CommitKeepsCatalog
  <2>3. ASSUME head[o] # None, head[o].rev < MaxRevision,
               CommitTo([head EXCEPT ![o] = DeviceEntry(head[o].rev + 1, head[o].kind)],
                        [kept EXCEPT ![o] = head[o]], next)
        PROVE  CatalogPart' /\ ModeStays
    <3>1. head[o] \in Entry  BY <1>1, <2>3, CatalogFacts
    <3>2. head[o].rev + 1 \in Revisions /\ head[o].kind \in Kinds \cup {"device"}
      BY <1>2, <2>3, <3>1 DEF Entry, Revisions
    <3>3. /\ DeviceEntry(head[o].rev + 1, head[o].kind) \in Entry
          /\ DeviceEntry(head[o].rev + 1, head[o].kind).bytes
               = DeviceEntry(head[o].rev + 1, head[o].kind).crc
      BY <3>2, DeviceEntryInOrder
    <3>4. /\ [head EXCEPT ![o] = DeviceEntry(head[o].rev + 1, head[o].kind)]
                \in [Objects -> Entry \cup {None}]
          /\ Declared([head EXCEPT ![o] = DeviceEntry(head[o].rev + 1, head[o].kind)])
      BY <1>1, <3>3, CatalogFacts, PutKeepsDeclared
    <3>5. [kept EXCEPT ![o] = head[o]] \in [Objects -> Entry \cup {None}]
      BY <1>1, <3>1, CatalogFacts
    <3>6. QED  BY <1>1, <1>3, <2>3, <3>4, <3>5, CatalogFacts, CommitKeepsCatalog
  <2>4. ASSUME mode' = "fenced", UNCHANGED <<head, kept, next, sequence, format>>
        PROVE  CatalogPart' /\ ModeStays
    BY <1>1, <2>4 DEF CatalogPart, ModeStays, PublishedIsDeclared
  <2>5. QED  BY <2>1, <2>2, <2>3, <2>4 DEF DeviceCommit
<1>5. TablePart'
  BY <1>4, TablesStay DEF EngineInvariant, DeviceCommit, Elsewhere, engineVars
<1>6. QED
  BY <1>4, <1>5, ElsewhereKeepsRest DEF EngineInvariant, DeviceCommit

\* The device's own reservations and holds are never those of a link.
LEMMA DeviceHoldsKeeps ==
    ASSUME EngineInvariant, DeviceHolds PROVE EngineInvariant'
<1> DEFINE mine == [by |-> "device", bytes |-> <<>>]
<1>1. UNCHANGED <<catalog, live>> /\ mode' = mode
  BY DEF DeviceHolds, Elsewhere, engineVars, catalog
<1>2. CatalogPart'  BY <1>1, CatalogStays DEF EngineInvariant
<1>3. mine \in Row /\ mine # None /\ mine.by # "link"
  <2>1. mine \in Row  BY EmptySeq DEF Row
  <2>2. QED  BY <2>1, NoneAssumption
<1>4. FreeRows # {} => Least(FreeRows) \in FreeRows
  <2>1. FreeRows \in SUBSET Nat  BY EngineAssumption DEF FreeRows
  <2>2. QED  BY <2>1, LeastIsMember
<1>5. FreeHolds # {} => Least(FreeHolds) \in FreeHolds
  <2>1. FreeHolds \in SUBSET Nat  BY EngineAssumption DEF FreeHolds
  <2>2. QED  BY <2>1, LeastIsMember
<1>6. rows' = rows \/ \E r \in 1 .. Rows, v \in {mine, None} :
                        rows[r] \in {mine, None} /\ rows' = [rows EXCEPT ![r] = v]
  <2>1. CASE FreeRows # {} /\ rows' = [rows EXCEPT ![Least(FreeRows)] = mine]
    <3>1. Least(FreeRows) \in 1 .. Rows /\ rows[Least(FreeRows)] = None
      BY <1>4, <2>1 DEF FreeRows
    <3>2. QED  BY <2>1, <3>1
  <2>2. ASSUME NEW r \in 1 .. Rows, rows[r] = mine, rows' = [rows EXCEPT ![r] = None]
        PROVE  \E i \in 1 .. Rows, v \in {mine, None} :
                  rows[i] \in {mine, None} /\ rows' = [rows EXCEPT ![i] = v]
    <3>1. rows[r] \in {mine, None} /\ None \in {mine, None}  BY <2>2
    <3>2. QED  BY <2>2, <3>1
  <2>3. QED  BY <2>1, <2>2 DEF DeviceHolds
<1>7. holds' = holds \/ \E h \in 1 .. Holds, v \in {mine, None} :
                          holds[h] \in {mine, None} /\ holds' = [holds EXCEPT ![h] = v]
  <2>1. CASE FreeHolds # {} /\ holds' = [holds EXCEPT ![Least(FreeHolds)] = mine]
    <3>1. Least(FreeHolds) \in 1 .. Holds /\ holds[Least(FreeHolds)] = None
      BY <1>5, <2>1 DEF FreeHolds
    <3>2. QED  BY <2>1, <3>1
  <2>2. ASSUME NEW h \in 1 .. Holds, holds[h] = mine, holds' = [holds EXCEPT ![h] = None]
        PROVE  \E i \in 1 .. Holds, v \in {mine, None} :
                  holds[i] \in {mine, None} /\ holds' = [holds EXCEPT ![i] = v]
    <3>1. holds[h] \in {mine, None} /\ None \in {mine, None}  BY <2>2
    <3>2. QED  BY <2>2, <3>1
  <2>3. QED  BY <2>1, <2>2 DEF DeviceHolds
<1>8. TablePart'
  <2>1. rows' \in [1 .. Rows -> Row \cup {None}] /\ holds' \in [1 .. Holds -> Row \cup {None}]
    BY <1>3, <1>6, <1>7 DEF EngineInvariant, TablePart
  <2>2. \A r \in 1 .. Rows : /\ (rows[r] # None /\ rows[r].by = "link") => rows'[r] = rows[r]
                             /\ (rows'[r] # None /\ rows'[r].by = "link") => rows'[r] = rows[r]
    BY <1>3, <1>6 DEF EngineInvariant, TablePart
  <2>3. \A h \in 1 .. Holds :
           /\ (holds[h] # None /\ holds[h].by = "link") => holds'[h] = holds[h]
           /\ (holds'[h] # None /\ holds'[h].by = "link") => holds'[h] = holds[h]
    BY <1>3, <1>7 DEF EngineInvariant, TablePart
  <2>4. NothingLeaks'
    BY <1>1, <2>2, <2>3 DEF EngineInvariant, TablePart, NothingLeaks
  <2>5. live.mode = "put" => live.row \in 1 .. Rows
    BY UploadFacts
  <2>6. UploadPart'
    BY <1>1, <2>2, <2>5 DEF EngineInvariant, TablePart, UploadPart
  <2>7. QED  BY <1>1, <2>1, <2>4, <2>6 DEF EngineInvariant, TablePart
<1>9. QED  BY <1>2, <1>8, ElsewhereKeepsRest DEF EngineInvariant, DeviceHolds

-----------------------------------------------------------------------------
(* The invariant, and what it says of every behaviour. *)

\* A card with one object, before the first link is up.
LEMMA InitEstablishes == Init => EngineInvariant
<1> SUFFICES ASSUME Init PROVE EngineInvariant  OBVIOUS
<1>1. /\ 1 \in Objects /\ 1 \in Revisions /\ 2 \in 1 .. MaxObject + 1
      /\ 1 \in 1 .. MaxSequence /\ MaxSequence > 1
  BY EngineAssumption DEF Objects, Revisions
<1>2. CatalogPart
  <2>1. DeviceEntry(1, "data") \in Entry /\ DeviceEntry(1, "data").bytes = DeviceEntry(1, "data").crc
    BY <1>1, DeviceEntryInOrder DEF Kinds
  <2>2. Empty \in [Objects -> Entry \cup {None}] /\ Declared(Empty)  BY DEF Empty, Declared
  <2>3. head \in [Objects -> Entry \cup {None}] /\ Declared(head)
    BY <1>1, <2>1, <2>2, PutKeepsDeclared DEF Init
  <2>4. PublishedIsDeclared  BY <2>3 DEF PublishedIsDeclared, Declared
  <2>5. QED  BY <1>1, <2>2, <2>3, <2>4 DEF CatalogPart, Init
<1>3. TablePart
  <2>1. live = Idle /\ live.mode = "idle"  BY DEF Init, Idle
  <2>2. QED  BY <2>1 DEF TablePart, UploadPart, NothingLeaks, Init
<1>4. PeerPart /\ TurnPart  BY DEF PeerPart, TurnPart, Init
<1>5. QED  BY <1>2, <1>3, <1>4 DEF EngineInvariant

\* A step of something else.
LEMMA StutterKeeps ==
    ASSUME EngineInvariant, UNCHANGED vars PROVE EngineInvariant'
<1>1. /\ UNCHANGED <<up, live, stall, owed, turn>> /\ UNCHANGED catalog
      /\ UNCHANGED <<rows, holds, reboot, waiting, stray>> /\ ModeStays
  BY DEF vars, engineVars, storeVars, history, ModeStays, catalog
<1>2. CatalogPart'  BY <1>1, CatalogStays DEF EngineInvariant
<1>3. TablePart'  BY <1>1, TablesStay DEF EngineInvariant
<1>4. PeerPart' /\ TurnPart'  BY <1>1 DEF EngineInvariant, PeerPart, TurnPart
<1>5. QED  BY <1>2, <1>3, <1>4 DEF EngineInvariant

\* Any request of a peer (engine.rs `on_control`).
LEMMA RequestKeeps ==
    ASSUME EngineInvariant, NEW l \in Links, Request(l) PROVE EngineInvariant'
<1>1. ASSUME NEW r \in Requests, NEW o \in Objects,
             on_get(l, r, head[o]) \/ on_get(l, r, kept[o])
      PROVE  EngineInvariant'
  <2>1. head[o] \in Entry \cup {None} /\ kept[o] \in Entry \cup {None}
    BY DEF EngineInvariant, CatalogPart
  <2>2. QED  BY <1>1, <2>1, on_getKeeps
<1>2. QED
  BY <1>1, on_putKeeps, on_cancelKeeps, on_removeKeeps, on_armKeeps, ArmTakenBackKeeps,
     on_archiveKeeps, ArchivedAgainKeeps, on_formatKeeps DEF Request

\* Every step of the engine, the store and the clock.
LEMMA NextKeeps ==
    ASSUME EngineInvariant, [Next]_vars PROVE EngineInvariant'
<1>1. ASSUME NEW l \in Links, Record(l) PROVE EngineInvariant'
  BY <1>1, RecordRefusalKeeps, on_streamKeeps, FinishStreamKeeps DEF Record
<1>2. CASE Batch
  <2>1. Usb \in Links  BY EngineAssumption
  <2>2. QED  BY <1>2, <2>1, RecordRefusalKeeps, on_usb_map_batchKeeps, FinishBatchKeeps DEF Batch
<1>3. QED
  BY <1>1, <1>2, RequestKeeps, PollOwedKeeps, pollKeeps, PollEndsKeeps, LinkEventKeeps,
     watch_stallKeeps, TickKeeps, RebootKeeps, DeviceCommitKeeps, DeviceHoldsKeeps, StutterKeeps
     DEF Next

\* The engine, the tables of the store and the peers agree, in every reachable state: the
\* invariant of engine.rs that the other theorems read their property from.
THEOREM EngineIsInvariant == Spec => []EngineInvariant
<1>1. EngineInvariant /\ [Next]_vars => EngineInvariant'  BY NextKeeps
<1>2. QED  BY InitEstablishes, <1>1, PTL DEF Spec

\* Every value the engine and its store ever hold has the type the code gives it: no count
\* of bytes, commit sequence, revision or stall age leaves its range (engine.rs `Live`,
\* `watch_stall`; store.rs).
THEOREM EngineTypes == Spec => []TypeOK
<1>1. EngineInvariant => TypeOK
  BY DEF EngineInvariant, CatalogPart, TablePart, PeerPart, TurnPart, TypeOK
<1>2. QED  BY EngineIsInvariant, <1>1, PTL

\* However a transfer ends (answered, refused, cancelled, stalled, its link lost or replaced,
\* the store rebooted), its reservation and its hold are given back, and a live one has
\* exactly its own (engine.rs `abandon`, `finish_upload`).
THEOREM NothingEverLeaks == Spec => []NothingLeaks
<1>1. EngineInvariant => NothingLeaks  BY DEF EngineInvariant, TablePart
<1>2. QED  BY EngineIsInvariant, <1>1, PTL

\* What a checked upload publishes is the payload its PUT declared, for every way to cut the
\* payload into records, stages and batches (engine.rs `absorb`, `flush`, `finish_upload`).
THEOREM UploadsPublishWhatTheyDeclared == Spec => []PublishedIsDeclared
<1>1. EngineInvariant => PublishedIsDeclared  BY DEF EngineInvariant, CatalogPart
<1>2. QED  BY EngineIsInvariant, <1>1, PTL

\* No answer ever goes to a peer that is not waiting for it: not to the other link, not to
\* the next peer of the same link, not twice (engine.rs `poll`, `on_link_up`, `on_link_lost`).
THEOREM AnswersAlwaysReachTheAsker == Spec => []AnswersReachTheAsker
<1>1. EngineInvariant => AnswersReachTheAsker
  BY DEF EngineInvariant, PeerPart, AnswersReachTheAsker
<1>2. QED  BY EngineIsInvariant, <1>1, PTL

-----------------------------------------------------------------------------
(* The lost update. *)

\* What an upload that ends may have done to the object o.
ReplacesOnlyTheNamed(o) ==
    (live.mode = "put" /\ live' = Idle /\ reboot' = reboot /\ head'[o] # head[o]) =>
        /\ HeadRev(o) = live.displaced
        /\ live.id \in {0, o}
        /\ head'[o].rev = live.displaced + 1

\* The batch of a PUT changes the head of one object, and only when it is the one displaced.
LEMMA CommitReplacesTheNamed ==
    ASSUME EngineInvariant, live.mode = "put", NEW bytes, NEW sum, Acceptable(sum),
           NEW o \in Objects,
           \/ UNCHANGED head
           \/ head' = Published(PublishId, NewEntry(bytes))
    PROVE  ReplacesOnlyTheNamed(o)
<1>1. PublishId \in Objects /\ HeadRev(PublishId) = live.displaced /\ live.id \in {0, PublishId}
  BY DEF Acceptable, HeadStands, PublishId
<1>2. live.rev = live.displaced + 1  BY DEF EngineInvariant, TablePart, UploadPart
<1>3. CASE UNCHANGED head  BY <1>3 DEF ReplacesOnlyTheNamed
<1>4. CASE head' = Published(PublishId, NewEntry(bytes))
  <2>1. o # PublishId => head'[o] = head[o]  BY <1>4 DEF EngineInvariant, CatalogPart, Published
  <2>2. head'[PublishId].rev = live.rev
    BY <1>1, <1>4 DEF EngineInvariant, CatalogPart, Published, NewEntry
  <2>3. QED  BY <1>1, <1>2, <2>1, <2>2 DEF ReplacesOnlyTheNamed
<1>5. QED  BY <1>3, <1>4

\* The same of the upload's end, committed, refused or uncertain (engine.rs `finish_upload`).
LEMMA FinishReplacesTheNamed ==
    ASSUME EngineInvariant, live.mode = "put", NEW bytes, NEW sum, NEW o \in Objects,
           Commits(bytes, sum) \/ CommitFails(bytes, sum)
    PROVE  ReplacesOnlyTheNamed(o)
<1>1. CASE Commits(bytes, sum)
  BY <1>1, CommitReplacesTheNamed DEF Commits, CommitTo
<1>2. CASE CommitFails(bytes, sum)
  <2>1. CASE UNCHANGED catalog  BY <2>1 DEF catalog, ReplacesOnlyTheNamed
  <2>2. CASE Acceptable(sum) /\ CommitErr(Published(PublishId, NewEntry(bytes)),
                                          Freed(PublishId), Cursor(PublishId))
    BY <2>2, CommitReplacesTheNamed DEF CommitErr, catalog
  <2>3. QED  BY <1>2, <2>1, <2>2 DEF CommitFails
<1>3. QED  BY <1>1, <1>2

\* The same of every step.
LEMMA NextReplacesTheNamed ==
    ASSUME EngineInvariant, [Next]_vars, NEW o \in Objects PROVE ReplacesOnlyTheNamed(o)
<1>1. ASSUME UNCHANGED head \/ UNCHANGED live \/ live' # Idle \/ live = Idle \/ reboot' # reboot
      PROVE  ReplacesOnlyTheNamed(o)
  BY <1>1 DEF ReplacesOnlyTheNamed, Idle
<1>2. ASSUME NEW l \in Links, Request(l) PROVE ReplacesOnlyTheNamed(o)
  BY <1>1, <1>2 DEF Request, on_put, on_get, on_cancel, on_remove, on_arm, ArmTakenBack,
                    on_archive, ArchivedAgain, on_format, AtOnce, catalog
<1>3. ASSUME NEW l \in Links, Record(l) PROVE ReplacesOnlyTheNamed(o)
  <2>1. ASSUME NEW r \in Requests, NEW off \in Offsets, NEW data \in Frames,
               FinishStream(l, r, off, data)
        PROVE  ReplacesOnlyTheNamed(o)
    BY <2>1, FinishReplacesTheNamed DEF FinishStream, Uploading
  <2>2. QED  BY <1>1, <1>3, <2>1 DEF Record, StreamFails, on_stream, catalog
<1>4. CASE Batch
  <2>1. ASSUME NEW r \in Requests, NEW off \in Offsets, NEW data \in Frames, NEW bank \in {0, 1},
               FinishBatch(r, off, data, bank)
        PROVE  ReplacesOnlyTheNamed(o)
    BY <2>1, FinishReplacesTheNamed DEF FinishBatch, BatchFits, Uploading
  <2>2. QED  BY <1>1, <1>4, <2>1 DEF Batch, BatchFails, on_usb_map_batch, catalog
<1>5. ASSUME NEW l \in Links, PollOwed(l) \/ poll(l) \/ PollEnds(l) \/ LinkEvent(l)
      PROVE  ReplacesOnlyTheNamed(o)
  BY <1>1, <1>5 DEF PollOwed, poll, PollEnds, LinkEvent, on_link_up, on_link_lost, storeVars, catalog
<1>6. CASE watch_stall \/ Tick  BY <1>1, <1>6 DEF watch_stall, Tick, storeVars, catalog
<1>7. CASE Reboot  BY <1>1, <1>7 DEF Reboot
<1>8. ASSUME NEW p \in Objects, DeviceCommit(p) PROVE ReplacesOnlyTheNamed(o)
  BY <1>1, <1>8 DEF DeviceCommit, Elsewhere, engineVars
<1>9. CASE DeviceHolds  BY <1>1, <1>9 DEF DeviceHolds, Elsewhere, engineVars
<1>10. CASE UNCHANGED vars  BY <1>1, <1>10 DEF vars, engineVars
<1>11. QED
  BY <1>2, <1>3, <1>4, <1>5, <1>6, <1>7, <1>8, <1>9, <1>10 DEF Next

\* A PUT replaces the revision its client named or nothing, and a create takes an id nothing
\* has, whatever else the device committed while the payload arrived (engine.rs `publish`).
THEOREM NoUpdateIsLost == Spec => NoLostUpdate
<1>1. EngineInvariant /\ [Next]_vars
        => [\A o \in Objects :
              (live.mode = "put" /\ live' = Idle /\ reboot' = reboot /\ head'[o] # head[o]) =>
                 /\ HeadRev(o) = live.displaced
                 /\ live.id \in {0, o}
                 /\ head'[o].rev = live.displaced + 1]_vars
  BY NextReplacesTheNamed DEF ReplacesOnlyTheNamed
<1>2. QED  BY EngineIsInvariant, <1>1, PTL DEF Spec, NoLostUpdate
===============================================================================
