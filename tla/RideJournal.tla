----------------------------- MODULE RideJournal -----------------------------
(***************************************************************************)
(* The ride journal of the flat store (obc-storage/src/flat/store.rs and   *)
(* journal.rs) under the recorder's write-ahead writer (RideWriter in      *)
(* obc-app/src/recorder/writer.rs): the one place where bytes become       *)
(* durable without a catalog commit.                                       *)
(*                                                                         *)
(* A ring of slots holds snapshots of the ride's last, partial page.  A    *)
(* checkpoint writes the next slot, tail first and header after it.  One   *)
(* that fills the page writes two: a proof slot with exactly the full page *)
(* and a logical slot with what spills over, and only then copies the      *)
(* proof to the page's place in the ride's extents.                        *)
(*                                                                         *)
(* A payload is a sequence of samples, and a sample is the number of the   *)
(* boot that recorded it: two payloads of the same length differ exactly   *)
(* when they come from different boots.  A CRC stands for the payload it   *)
(* was computed over.                                                      *)
(***************************************************************************)
EXTENDS Integers, Sequences, SequencesExt

CONSTANTS
    Slots,      \* SLOTS: the size of the ring
    Page,       \* PROGRAM_PAGE, in samples
    Delta,      \* DELTA_BYTES: what one checkpoint may add, footer included
    Reserve,    \* RESERVE_BYTES: samples in a ride, its footer included
    MaxBoots,   \* bound: power cuts
    MaxRefusedBoots, \* bound: power cuts beside a refused write
    MaxIdle,    \* bound: checkpoints that add no sample
    None,       \* Option::None, and a header that does not decode
    Footer,     \* the footer that ends a ride
    Faults      \* what may fail: see the assumption

ASSUME JournalAssumption ==
    /\ Slots \in Nat /\ Slots >= 3
    /\ Page \in Nat \ {0} /\ Delta \in 2 .. Page
    /\ Reserve \in Nat \ {0} /\ MaxBoots \in Nat /\ MaxIdle \in Nat
    /\ MaxRefusedBoots \in 0 .. MaxBoots
    /\ Faults \subseteq
         {"sync",         \* a write or its synchronization returns an error
          "commit",       \* the store refuses the commit that ends the ride
          "header_read"}  \* a slot header cannot be read at mount

VARIABLES
    heads,      \* the slot headers on the card
    tails,      \* the slot tails on the card
    pages,      \* the ride's own extents, page by page
    ride,       \* RideState of the mounted store, or None
    writer,     \* RideWriter: its state, its append buffer, its running CRC
    pc,         \* where the store is
    acked,      \* history: the payload of the last successful checkpoint
    published,  \* the finished ride, or None
    boots,      \* power cuts so far
    refused,    \* a write or a commit was refused
    idles       \* empty checkpoints so far

media  == <<heads, tails, pages>>
counts == <<boots, refused, idles>>
vars   == <<heads, tails, pages, ride, writer, pc, acked, published, boots,
            refused, idles>>

Ring == 0 .. Slots - 1

(* What a tail or page write that did not finish may leave: no sample.     *)
Torn == <<None>>

SlotOf(sequence) == sequence % Slots

-----------------------------------------------------------------------------
(* A header names its tail through the slot CRC, and the whole payload     *)
(* through the payload CRC.                                                *)
Header(sequence, flushed, tail, payload, proof, proof_sequence) ==
    [sequence |-> sequence, flushed |-> flushed, tail |-> tail,
     payload |-> payload, proof |-> proof, proof_sequence |-> proof_sequence]

slot_intact(i) == heads[i] # None /\ tails[i] = heads[i].tail

EmptyRide ==
    [flushed |-> 0, next_sequence |-> 1, tail |-> <<>>, payload |-> <<>>,
     pending_proof |-> 0, pending_append |-> <<>>]

(* RideWriter::start: a live ride with nothing appended.                   *)
Writer(state, append, crc) ==
    [state |-> state, append |-> append, crc |-> crc]

Init ==
    /\ heads = [i \in Ring |-> None]
    /\ tails = [i \in Ring |-> Torn]
    /\ pages = [k \in 0 .. Reserve \div Page |-> Torn]
    /\ ride = EmptyRide
    /\ writer = Writer("live", <<>>, <<>>)
    /\ pc = "idle" /\ acked = <<>> /\ published = None
    /\ boots = 0 /\ refused = FALSE /\ idles = 0

-----------------------------------------------------------------------------
(* The recorder's writer.  Its states are Live, Live with a checkpoint     *)
(* pending, the three steps of closing, Discarding and Idle.               *)

Idle == pc = "idle"

(* A sample leaves room for the footer, in the buffer and in the reserve.  *)
append ==
    /\ Idle
    /\ writer.state = "live"
    /\ Len(writer.append) + 2 <= Delta
    /\ Len(writer.crc) + 2 <= Reserve
    /\ writer' = Writer("live", writer.append \o <<boots>>,
                        writer.crc \o <<boots>>)
    /\ UNCHANGED <<media, ride, pc, acked, published, counts>>

(* An empty checkpoint still writes a slot: its continuation is new.       *)
checkpoint ==
    /\ Idle
    /\ writer.state = "live"
    /\ writer.append = <<>> => idles < MaxIdle
    /\ idles' = idles + (IF writer.append = <<>> THEN 1 ELSE 0)
    /\ writer' = [writer EXCEPT !.state = "pending"]
    /\ UNCHANGED <<media, ride, pc, acked, published, boots, refused>>

(* Mutant: the footer joins an append whose checkpoint is outstanding.     *)
finish_IntoPending ==
    /\ Idle
    /\ writer.state \in {"live", "pending"}
    /\ writer' = Writer("closing", writer.append \o <<Footer>>,
                        writer.crc \o <<Footer>>)
    /\ UNCHANGED <<media, ride, pc, acked, published, counts>>

(* The footer is staged outside an append that is outstanding, until       *)
(* exactly that append has succeeded.                                      *)
finish ==
    /\ Idle
    /\ \/ /\ writer.state = "live"
          /\ writer' = Writer("closing", writer.append \o <<Footer>>,
                              writer.crc \o <<Footer>>)
       \/ /\ writer.state = "pending"
          /\ writer' = [writer EXCEPT !.state = "repair"]
    /\ UNCHANGED <<media, ride, pc, acked, published, counts>>

discard ==
    /\ Idle
    /\ writer.state \notin {"discard", "idle"}
    /\ writer' = [writer EXCEPT !.state = "discard"]
    /\ UNCHANGED <<media, ride, pc, acked, published, counts>>

(* The store answered Ok to a journal write.                               *)
acknowledge(payload) ==
    /\ acked' = payload
    /\ writer' =
         CASE writer.state = "pending" -> Writer("live", <<>>, writer.crc)
           [] writer.state = "repair" ->
                Writer("closing", <<Footer>>, writer.crc \o <<Footer>>)
           [] writer.state = "closing" -> Writer("publish", <<>>, writer.crc)

-----------------------------------------------------------------------------
(* FlatStore::journal.                                                     *)

(* The newest logical slot is still the one the ride state describes.      *)
current_ride_slot ==
    IF ride.next_sequence = 1
    THEN ride.flushed = 0 /\ ride.tail = <<>> /\ ride.payload = <<>>
    ELSE /\ heads[SlotOf(ride.next_sequence - 1)] # None
         /\ LET slot == heads[SlotOf(ride.next_sequence - 1)] IN
              /\ ~slot.proof
              /\ slot.sequence = ride.next_sequence - 1
              /\ slot.flushed = ride.flushed
              /\ slot.tail = ride.tail
              /\ slot.payload = ride.payload

SourceIntact ==
    ride.next_sequence > 1 => slot_intact(SlotOf(ride.next_sequence - 1))

(* What the store asks of a checkpoint before it touches the card.  After  *)
(* a rollover whose page copy failed, it must be that same checkpoint.     *)
Journals ==
    IF ride.pending_proof # 0
    THEN /\ writer.crc = ride.payload
         /\ writer.append = ride.pending_append
    ELSE /\ writer.crc = ride.payload \o writer.append
         /\ current_ride_slot

(* Mutant: a page that is exactly full does not roll over.                 *)
journal_Late ==
    /\ Idle
    /\ writer.state \in {"pending", "repair", "closing"}
    /\ Journals
    /\ pc' = IF ride.pending_proof # 0 THEN "repair"
             ELSE IF Len(ride.tail) + Len(writer.append) > Page THEN "proof_tail"
             ELSE "tail"
    /\ UNCHANGED <<media, ride, writer, acked, published, counts>>

journal ==
    /\ Idle
    /\ writer.state \in {"pending", "repair", "closing"}
    /\ Journals
    /\ pc' = IF ride.pending_proof # 0 THEN "repair"
             ELSE IF Len(ride.tail) + Len(writer.append) >= Page THEN "proof_tail"
             ELSE "tail"
    /\ UNCHANGED <<media, ride, writer, acked, published, counts>>

(* The slot each write of the call fills.                                  *)
IntoPage == SubSeq(writer.append, 1, Page - Len(ride.tail))
Spill    == SubSeq(writer.append, Page - Len(ride.tail) + 1, Len(writer.append))

SlotWrite ==
    CASE pc \in {"tail", "head"} ->
           Header(ride.next_sequence, ride.flushed, ride.tail \o writer.append,
                  writer.crc, FALSE, 0)
      [] pc \in {"proof_tail", "proof_head"} ->
           Header(ride.next_sequence, ride.flushed, ride.tail \o IntoPage,
                  ride.payload \o IntoPage, TRUE, 0)
      [] pc \in {"logical_tail", "logical_head"} ->
           Header(ride.next_sequence + 1, ride.flushed + Page, Spill,
                  writer.crc, FALSE, ride.next_sequence)

(* What a finished write leaves, and what one that was refused or cut may. *)
WriteTail(ends) ==
    LET i == SlotOf(SlotWrite.sequence) IN
    \E left \in IF ends THEN {SlotWrite.tail}
                        ELSE {tails[i], Torn, SlotWrite.tail} :
        tails' = [tails EXCEPT ![i] = left]

WriteHead(ends) ==
    LET i == SlotOf(SlotWrite.sequence) IN
    \E left \in IF ends THEN {SlotWrite} ELSE {heads[i], None, SlotWrite} :
        heads' = [heads EXCEPT ![i] = left]

WritePage(k, bytes, ends) ==
    \E left \in IF ends THEN {bytes} ELSE {pages[k], Torn, bytes} :
        pages' = [pages EXCEPT ![k] = left]

(* The tail is copied from the source slot, which must prove intact.       *)
TailDone ==
    /\ pc \in {"tail", "proof_tail", "logical_tail"}
    /\ WriteTail(TRUE)
    /\ pc' = CASE pc = "logical_tail" -> "logical_head"
               [] pc = "tail"         -> IF SourceIntact THEN "head" ELSE "idle"
               [] pc = "proof_tail"   -> IF SourceIntact THEN "proof_head" ELSE "idle"
    /\ UNCHANGED <<heads, pages, ride, writer, acked, published, counts>>

(* Mutant: the header is not synchronized before the call returns.         *)
HeadDone_Unsynced ==
    /\ pc = "head"
    /\ WriteHead(FALSE)
    /\ ride' = [ride EXCEPT !.next_sequence = @ + 1,
                            !.tail = @ \o writer.append,
                            !.payload = writer.crc]
    /\ acknowledge(writer.crc)
    /\ pc' = "idle"
    /\ UNCHANGED <<tails, pages, published, counts>>

(* An ordinary slot ends the call.                                         *)
HeadDone ==
    /\ pc = "head"
    /\ WriteHead(TRUE)
    /\ ride' = [ride EXCEPT !.next_sequence = @ + 1,
                            !.tail = @ \o writer.append,
                            !.payload = writer.crc]
    /\ acknowledge(writer.crc)
    /\ pc' = "idle"
    /\ UNCHANGED <<tails, pages, published, counts>>

ProofDone ==
    /\ pc = "proof_head"
    /\ WriteHead(TRUE)
    /\ pc' = "logical_tail"
    /\ UNCHANGED <<tails, pages, ride, writer, acked, published, counts>>

(* Both gates are durable: the ride advances before its page is copied.    *)
LogicalDone ==
    /\ pc = "logical_head"
    /\ WriteHead(TRUE)
    /\ ride' = [flushed |-> ride.flushed + Page,
                next_sequence |-> ride.next_sequence + 2,
                tail |-> Spill,
                payload |-> writer.crc,
                pending_proof |-> ride.next_sequence,
                pending_append |-> writer.append]
    /\ pc' = "repair"
    /\ UNCHANGED <<tails, pages, writer, acked, published, counts>>

PendingPage  == ride.flushed \div Page - 1
PendingProof == SlotOf(ride.pending_proof)

Repaired == [ride EXCEPT !.pending_proof = 0, !.pending_append = <<>>]

repair_rollover ==
    /\ pc = "repair"
    /\ slot_intact(PendingProof) /\ heads[PendingProof].proof
    /\ heads[PendingProof].sequence = ride.pending_proof
    /\ heads[PendingProof].flushed + Page = ride.flushed
    /\ WritePage(PendingPage, tails[PendingProof], TRUE)
    /\ ride' = Repaired
    /\ acknowledge(ride.payload)
    /\ pc' = "idle"
    /\ UNCHANGED <<heads, tails, published, counts>>

(* The write that is under way, finished or not.                           *)
InFlight(ends) ==
    \/ /\ pc \in {"tail", "proof_tail", "logical_tail"}
       /\ WriteTail(ends)
       /\ UNCHANGED <<heads, pages>>
    \/ /\ pc \in {"head", "proof_head", "logical_head"}
       /\ WriteHead(ends)
       /\ UNCHANGED <<tails, pages>>
    \/ /\ pc \in {"repair", "repairing"}
       /\ WritePage(PendingPage, tails[PendingProof], ends)
       /\ UNCHANGED <<heads, tails>>
    \/ /\ pc = "flush"
       /\ WritePage(ride.flushed \div Page, ride.tail, ends)
       /\ UNCHANGED <<heads, tails>>

Refuses(what) ==
    /\ what \in Faults
    /\ boots <= MaxRefusedBoots
    /\ refused' = TRUE
    /\ UNCHANGED <<boots, idles>>

(* A refused write or synchronization.  The call returns the error, and    *)
(* the writer keeps the exact append for the retry.                        *)
JournalFails ==
    /\ Refuses("sync")
    /\ pc # "repairing"
    /\ InFlight(FALSE)
    /\ pc' = "idle"
    /\ UNCHANGED <<ride, writer, acked, published>>

-----------------------------------------------------------------------------
(* The end of a ride: the tail goes to its page, and one catalog commit    *)
(* publishes the whole payload, or removes the ride.                       *)

(* The first bytes of the ride, as its extents hold them: a torn page has  *)
(* no sample.                                                              *)
PagesTo(flushed) ==
    [n \in 1 .. flushed |->
        LET page == pages[(n - 1) \div Page]
            at   == ((n - 1) % Page) + 1
        IN  IF at \in DOMAIN page THEN page[at] ELSE None]

BeginPublish ==
    /\ Idle
    /\ writer.state = "publish"
    /\ writer.crc = ride.payload
    /\ pc' = IF ride.tail = <<>> THEN "commit" ELSE "flush"
    /\ UNCHANGED <<media, ride, writer, acked, published, counts>>

(* Mutant: the last partial page is left in the journal.                   *)
flush_ride_tail_Skipped ==
    /\ pc = "flush"
    /\ current_ride_slot /\ SourceIntact
    /\ pc' = "commit"
    /\ UNCHANGED <<media, ride, writer, acked, published, counts>>

flush_ride_tail ==
    /\ pc = "flush"
    /\ current_ride_slot /\ SourceIntact
    /\ InFlight(TRUE)
    /\ pc' = "commit"
    /\ UNCHANGED <<ride, writer, acked, published, counts>>

settle_ride ==
    /\ ride' = None
    /\ writer' = Writer("idle", <<>>, <<>>)
    /\ heads' = [i \in Ring |-> None]
    /\ pc' = "ended"

Publish ==
    /\ pc = "commit"
    /\ published' = [crc |-> writer.crc,
                     bytes |-> PagesTo(ride.flushed) \o
                               (IF ride.tail = <<>> THEN <<>>
                                ELSE pages[ride.flushed \div Page])]
    /\ settle_ride
    /\ UNCHANGED <<tails, pages, acked, counts>>

PublishFails ==
    /\ pc = "commit"
    /\ Refuses("commit")
    /\ pc' = "idle"
    /\ UNCHANGED <<media, ride, writer, acked, published>>

RemoveRide ==
    /\ Idle
    /\ writer.state = "discard"
    /\ settle_ride
    /\ UNCHANGED <<tails, pages, acked, published, counts>>

-----------------------------------------------------------------------------
(* A power cut, and the mount after it.                                    *)

Cut ==
    /\ boots < (IF refused THEN MaxRefusedBoots ELSE MaxBoots)
    /\ pc # "ended"
    /\ InFlight(FALSE) \/ UNCHANGED media
    /\ boots' = boots + 1
    /\ ride' = None
    /\ writer' = Writer("idle", <<>>, <<>>)
    /\ pc' = "mount"
    /\ UNCHANGED <<acked, published, refused, idles>>

ProofOf(i, read) ==
    {p \in read : /\ slot_intact(p) /\ heads[p].proof
                  /\ heads[p].sequence = heads[i].proof_sequence
                  /\ heads[p].flushed + Page = heads[i].flushed}

Candidates(read) ==
    {i \in read : /\ slot_intact(i) /\ ~heads[i].proof
                  /\ heads[i].proof_sequence # 0 => ProofOf(i, read) # {}}

Resumed(i) ==
    [flushed |-> heads[i].flushed, next_sequence |-> heads[i].sequence + 1,
     tail |-> heads[i].tail, payload |-> heads[i].payload,
     pending_proof |-> heads[i].proof_sequence, pending_append |-> <<>>]

(* The greatest logical candidate.  One that names a proof is taken up     *)
(* only once its page has been repaired from that proof.                   *)
recover_ride ==
    /\ pc = "mount"
    /\ \E read \in IF "header_read" \in Faults THEN SUBSET Ring ELSE {Ring} :
         \/ /\ Candidates(read) = {}
            /\ ride' = EmptyRide
         \/ \E i \in Candidates(read) :
              /\ \A j \in Candidates(read) :
                   heads[j].sequence <= heads[i].sequence
              /\ ride' = Resumed(i)
    /\ pc' = IF ride'.pending_proof = 0 THEN "recover" ELSE "repairing"
    /\ UNCHANGED <<media, writer, acked, published, counts>>

(* Mutant: a durable logical slot is taken to mean that its page is there. *)
RecoverRepair_Skipped ==
    /\ pc = "repairing"
    /\ ride' = Repaired
    /\ pc' = "recover"
    /\ UNCHANGED <<media, writer, acked, published, counts>>

RecoverRepair ==
    /\ pc = "repairing"
    /\ InFlight(TRUE)
    /\ ride' = Repaired
    /\ pc' = "recover"
    /\ UNCHANGED <<writer, acked, published, counts>>

(* The mount fails closed, and only another boot tries again.              *)
RecoverFails ==
    /\ pc = "repairing"
    /\ Refuses("sync")
    /\ InFlight(FALSE)
    /\ ride' = None
    /\ pc' = "unreadable"
    /\ UNCHANGED <<writer, acked, published>>

(* RideWriter::recover reads the end of the ride: behind a footer there is *)
(* nothing left but to publish.                                            *)
Recorded == PagesTo(ride.flushed) \o ride.tail

recover ==
    /\ pc = "recover"
    /\ writer' = Writer(IF Recorded # <<>> /\ Last(Recorded) = Footer
                        THEN "publish" ELSE "live",
                        <<>>, ride.payload)
    /\ pc' = "idle"
    /\ UNCHANGED <<media, ride, acked, published, counts>>

-----------------------------------------------------------------------------
Next ==
    \/ append \/ checkpoint \/ finish \/ discard
    \/ journal \/ TailDone \/ HeadDone \/ ProofDone \/ LogicalDone
    \/ repair_rollover \/ JournalFails
    \/ BeginPublish \/ flush_ride_tail \/ Publish \/ PublishFails \/ RemoveRide
    \/ Cut \/ recover_ride \/ RecoverRepair \/ RecoverFails \/ recover

Spec == Init /\ [][Next]_vars

-----------------------------------------------------------------------------
(* Properties.                                                             *)

Sample == 0 .. MaxBoots \cup {Footer}

Bytes == Seq(Sample)

HeaderType ==
    [sequence : Nat, flushed : Nat, tail : Bytes, payload : Bytes,
     proof : BOOLEAN, proof_sequence : Nat]

RideType ==
    [flushed : Nat, next_sequence : Nat \ {0}, tail : Bytes, payload : Bytes,
     pending_proof : Nat, pending_append : Bytes]

ASSUME NoneAssumption == None \notin HeaderType /\ None \notin RideType

(* Every variable stays in its type, and the tail the store appends to is  *)
(* shorter than a page, so that one checkpoint crosses at most one page    *)
(* boundary and one proof is enough (TAIL_CAPACITY, and the bound journal  *)
(* relies on).                                                             *)
TypeOK ==
    /\ heads \in [Ring -> HeaderType \cup {None}]
    /\ tails \in [Ring -> Bytes \cup {Torn}]
    /\ pages \in [0 .. Reserve \div Page -> Bytes \cup {Torn}]
    /\ ride # None =>
         /\ ride \in RideType
         /\ Len(ride.tail) < Page
         /\ ride.flushed % Page = 0
    /\ writer \in [state : {"live", "pending", "repair", "closing", "publish",
                            "discard", "idle"},
                   append : Bytes, crc : Bytes]
    /\ Len(writer.append) <= Delta /\ Len(writer.crc) <= Reserve
    /\ pc \in {"idle", "tail", "head", "proof_tail", "proof_head",
               "logical_tail", "logical_head", "repair", "flush", "commit",
               "ended", "mount", "repairing", "recover", "unreadable"}
    /\ acked \in Bytes
    /\ published # None => published \in [crc : Bytes, bytes : Bytes]
    /\ boots \in 0 .. MaxBoots /\ refused \in BOOLEAN /\ idles \in 0 .. MaxIdle

(* The bytes of the ride are the bytes its running CRC was computed over,  *)
(* whenever the recorder may build on them: across retries, rollovers,     *)
(* cuts and recoveries the ride is never a mixture of two attempts.        *)
RecordedMatchesCrc ==
    Idle /\ ride.pending_proof = 0 => Recorded = ride.payload

(* Every checkpoint that returned success is part of the ride, however     *)
(* many cuts follow it (specs/flat-store-format.md 7.4).                   *)
AcknowledgedSurvives ==
    ride # None => IsPrefix(acked, ride.payload)

(* A published ride is whole: its bytes are what its CRC says, start with  *)
(* everything that was ever acknowledged, and end with the footer.         *)
PublishedIsWhole ==
    published # None =>
        /\ published.bytes = published.crc
        /\ IsPrefix(acked, published.bytes)
        /\ Last(published.bytes) = Footer

(* The store never wedges a ride: what the writer would ask of it next is  *)
(* accepted, because the writer's CRC continues the store's and the slot   *)
(* the ride continues from is on the card intact.                          *)
Retriable ==
    /\ Idle /\ writer.state \in {"pending", "repair", "closing"} => Journals
    /\ Idle /\ writer.state = "publish" => writer.crc = ride.payload
    /\ Idle /\ writer.state # "discard" => current_ride_slot /\ SourceIntact
=============================================================================
