----------------------------- MODULE UsbLinkProofs -----------------------------
(***************************************************************************)
(* The cable's requests and answers find each other, its reaction buffer   *)
(* is never lost, and the arena stays the cable's under the card's write:  *)
(* for every length of a bank, of an upload and of a record, and any       *)
(* number of uploads, lost cables and requests.                            *)
(*                                                                         *)
(* The invariant is about what is queued and who waits for it (the first   *)
(* three parts), and about the stage, the card and what it wrote.          *)
(***************************************************************************)
EXTENDS UsbLink, TLAPS, FiniteSetTheorems, SequenceTheorems

-----------------------------------------------------------------------------
(* The invariant. *)

Ask    == [op : {"LIST"}] \cup [op : {"PUT", "CANCEL"}, put : Puts]
Record == [put : Puts, off : 0 .. Declared - 1, len : 1 .. Half]
Tags   == 1 .. 8

\* A job, its reply slot and what it carries.
EngineJob == [op : {"Control"}, tag : Tags, slot : {"engine"}, arg : Ask]
               \cup [op : {"Stream", "Batch"}, tag : Tags, slot : {"engine"}, arg : Record]
               \cup [op : {"Pump", "LinkUp"}, tag : Tags, slot : {"engine"}, arg : {0}]
QueryJob  == [op : {"LiveTransfer", "UsbMapUpload"}, tag : Tags, slot : {"query"}, arg : 0 .. MaxPut]
OtherJob  == [op : {"FinishUsbStage"}, tag : Tags, slot : {"finish"}, arg : {0}]
               \cup [op : {"LinkLost"}, tag : Tags, slot : {"teardown"}, arg : {0}]
JobType   == EngineJob \cup QueryJob \cup OtherJob

\* The awaits inside and outside the driver; those that wait for no answer; those that wait for
\* the answer that brings the buffer back.
Running   == Driving \cup {"react", "admitted", "copy"}
Outside   == {"down", "reclaim", "pump0", "linkup", "lost", "join"}
Quiet     == {"idle", "hold", "grant", "send", "react", "admitted", "copy"}
LaneWaits == {"pump0", "collectC", "control", "holdC", "collectS", "stream", "batch", "pump",
              "pumpC", "collectE"}

MailTypes ==
    /\ pc \in Running \cup Outside
    /\ queue \in Seq(JobType) /\ slot \in [Slots -> Answer \cup {None}]
    /\ lane \in BOOLEAN /\ ticket \in 0 .. 8 /\ pending \in Tags \cup {None}

\* What the job is that the await at pc waits for.
OwnOp ==
    CASE pc \in {"pump0", "pump"} -> "Pump"
      [] pc = "linkup" -> "LinkUp"
      [] pc \in {"control", "holdC", "pumpC"} -> "Control"
      [] pc \in {"collectC", "collectS", "collectE", "batch"} -> "Batch"
      [] pc = "stream" -> "Stream"
      [] pc = "query" -> "LiveTransfer"
      [] pc \in {"map", "ended"} -> "UsbMapUpload"
      [] pc \in {"finish", "quit", "join"} -> "FinishUsbStage"
      [] OTHER -> "LinkLost"

Waits         == pc \notin Quiet \cup {"down", "reclaim"}
IsOwn(j)      == Waits /\ j.tag = ticket /\ j.op = OwnOp
IsDeferred(j) == pending # None /\ j.tag = pending /\ j.op = "Batch"

\* In the queue are the deferred batch and the job awaited, in this order; behind a driver
\* that was dropped, what it had there and the report of the loss.
QueuePart ==
    /\ pc # "lost" =>
         /\ Len(queue) <= 2
         /\ \A i \in 1 .. Len(queue) : IsOwn(queue[i]) \/ IsDeferred(queue[i])
         /\ Len(queue) = 2 => IsDeferred(queue[1]) /\ IsOwn(queue[2])
    /\ pc = "lost" =>
         /\ Len(queue) <= 3
         /\ \A i \in 1 .. Len(queue) - 1 : queue[i].op \notin {"LinkUp", "LinkLost"}

\* The awaited job is the last one; when it is answered no other is queued.
WaitPart ==
    /\ Waits =>
         IF queue = <<>>
         THEN slot[WaitsAt] # None /\ slot[WaitsAt].tag = ticket
         ELSE /\ IsOwn(queue[Len(queue)])
              /\ slot[WaitsAt] # None => slot[WaitsAt].tag # ticket
    /\ pending # None =>
         \/ queue # <<>> /\ IsDeferred(queue[1]) /\ slot["engine"] = None
         \/ slot["engine"] # None /\ slot["engine"].tag = pending /\ slot["engine"].lent
    /\ slot["teardown"] # None => pc = "lost" /\ queue = <<>>

LentJob(i) == queue[i].op \in Lends
LentSlot   == slot["engine"] # None /\ slot["engine"].lent

\* The buffer is in one place, and in the lane just when the driver waits for no answer with it.
BufferPart ==
    /\ \A i, j \in 1 .. Len(queue) : LentJob(i) /\ LentJob(j) => i = j
    /\ \A i \in 1 .. Len(queue) : LentJob(i) => ~lane /\ ~LentSlot
    /\ lane => ~LentSlot
    /\ lane \/ LentSlot \/ \E i \in 1 .. Len(queue) : LentJob(i)
    /\ pc \notin {"lost", "join", "down", "reclaim"} => (lane <=> pending = None /\ pc \notin LaneWaits)
    /\ pc = "reclaim" => ~lane
    /\ slot["engine"] # None /\ ~slot["engine"].lent => pc = "linkup"
    /\ pc \notin Running => pending = None
    /\ pc \in LaneWaits => pending = None

Mail == MailTypes /\ QueuePart /\ WaitPart /\ BufferPart

\* The records on the cable; the one an await is about is still at the head of its stream.
ClientPart ==
    /\ control \in Seq(Ask) /\ stream \in Seq(Record)
    /\ put \in 0 .. MaxPut /\ off \in 0 .. Declared /\ (open => put # 0)
    /\ pc \in {"query", "hold", "admitted", "map", "grant", "copy", "collectS", "stream"} => stream # <<>>
    /\ pc \in {"collectC", "control", "holdC", "pumpC"} => control # <<>>

DriverPart ==
    /\ rx \in Reaction /\ ret \in {"pass", "sent", "end"}
    /\ admitted \in 0 .. MaxPut /\ staged \in 0 .. MaxPut /\ owed \in 0 .. MaxPut

BatchQueued == \E i \in 1 .. Len(queue) : queue[i].op = "Batch"

\* The arena is the cable's from the grant of a stage until the card has let go of the last
\* batch that was filled there; a join has been answered only when it has.
ArenaPart ==
    /\ stage \in UsbStage \cup {None}
    /\ stage # None => staged # 0 /\ stage.fill <= stage.received
    /\ pc \notin Running => stage = None
    /\ dma # None \/ BatchQueued \/ stage # None => wants /\ granted
    /\ stage = None /\ pc \notin {"lost", "join"} => dma = None /\ ~BatchQueued
    /\ pc = "grant" => stage = None /\ wants /\ staged # 0
    /\ pc = "map" => staged = 0
    /\ pc \in {"finish", "quit", "join"} /\ queue = <<>> => dma = None

\* What the reservation holds and the card is still writing is what the engine has received.
CardPart ==
    /\ live \in Transfer \cup {None} /\ dma \in CardWrite \cup {None}
    /\ bank \in [Banks -> [1 .. Half -> Cell \cup {None}]]
    /\ row \in Seq(Cell \cup {None}) /\ Len(row) <= Declared
    /\ dma # None /\ dma.put # 0 => live # None /\ live.link = "usb" /\ dma.put = live.put
    /\ live # None /\ live.link = "usb" =>
         Len(row) + (IF dma = None \/ dma.put = 0 THEN 0 ELSE dma.len) = live.received

UsbInvariant == Mail /\ ClientPart /\ DriverPart /\ ArenaPart /\ CardPart

-----------------------------------------------------------------------------
(* Tags and the queue. *)

\* Eight tags are more than seven.
LEMMA FreeTag ==
    ASSUME NEW a, NEW b, NEW c, NEW d, NEW e, NEW f, NEW g
    PROVE  \E t \in 1 .. 8 : t \notin {a, b, c, d, e, f, g}
<1> SUFFICES ASSUME 1 .. 8 \subseteq {a, b, c, d, e, f, g} PROVE FALSE
  OBVIOUS
<1> DEFINE In(t) == t = a \/ t = b \/ t = c \/ t = d \/ t = e \/ t = f \/ t = g
<1>1. In(1) /\ In(2) /\ In(3) /\ In(4) /\ In(5) /\ In(6) /\ In(7) /\ In(8)
  OBVIOUS
<1> QED  BY ONLY <1>1, SMTT(60)

\* The tags that are about.
InUse(t) ==
    \/ \E j \in Jobs : j.tag = t
    \/ t \in {ticket, pending}
    \/ \E s \in Slots : slot[s] # None /\ slot[s].tag = t

\* The least of the tags that are not about is a tag.
LEMMA TagIsLeast ==
    ASSUME \E t \in 1 .. 8 : ~InUse(t)
    PROVE  Tag \in 1 .. 8 /\ ~InUse(Tag)
<1> DEFINE Fits8(t) == ~InUse(t) /\ \A u \in 1 .. t - 1 : InUse(u)
<1>1. \E t \in 1 .. 8 : Fits8(t)
  <2> HIDE DEF InUse
  <2> SUFFICES ASSUME \A t \in 1 .. 8 : ~Fits8(t) PROVE FALSE  OBVIOUS
  <2>1. InUse(1)  OBVIOUS
  <2>2. InUse(2)  BY <2>1
  <2>3. InUse(3)  BY <2>1, <2>2
  <2>4. InUse(4)  BY <2>1, <2>2, <2>3
  <2>5. InUse(5)  BY <2>1, <2>2, <2>3, <2>4
  <2>6. InUse(6)  BY <2>1, <2>2, <2>3, <2>4, <2>5
  <2>7. InUse(7)  BY <2>1, <2>2, <2>3, <2>4, <2>5, <2>6
  <2>8. InUse(8)  BY <2>1, <2>2, <2>3, <2>4, <2>5, <2>6, <2>7
  <2>9. \A t \in 1 .. 8 : t = 1 \/ t = 2 \/ t = 3 \/ t = 4 \/ t = 5 \/ t = 6 \/ t = 7 \/ t = 8
    OBVIOUS
  <2> QED  BY <2>1, <2>2, <2>3, <2>4, <2>5, <2>6, <2>7, <2>8, <2>9
<1>2. \A t : ~InUse(t) <=> /\ t \notin {j.tag : j \in Jobs} \cup {ticket, pending}
                           /\ \A s \in Slots : slot[s] = None \/ slot[s].tag # t
  BY Zenon DEF InUse
<1>3. \A u : InUse(u) <=> \/ u \in {j.tag : j \in Jobs} \cup {ticket, pending}
                          \/ \E s \in Slots : slot[s] # None /\ slot[s].tag = u
  BY Zenon DEF InUse
<1>4. Tag = CHOOSE t \in 1 .. 8 : Fits8(t)
  BY ZenonT(60), <1>2, <1>3 DEF Tag
<1> HIDE DEF Fits8
<1>5. Tag \in 1 .. 8 /\ Fits8(Tag)  BY <1>1, <1>4
<1> QED  BY <1>5 DEF Fits8

\* NEXT_TAG: with two jobs queued at most, and no report of a loss beside them, a tag is left.
LEMMA TagIsFresh ==
    ASSUME MailTypes, \/ queue = <<>>
                      \/ Len(queue) <= 2 /\ slot["teardown"] = None
    PROVE  /\ Tag \in Tags /\ Tag # ticket /\ Tag # pending
           /\ \A i \in 1 .. Len(queue) : queue[i].tag # Tag
           /\ \A s \in Slots : slot[s] # None => slot[s].tag # Tag
<1>0. Len(queue) \in Nat /\ DOMAIN queue = 1 .. Len(queue) /\ (queue = <<>> => Len(queue) = 0)
  BY LenProperties, EmptySeq DEF MailTypes
<1>1. \E t \in 1 .. 8 : ~InUse(t)
  <2>1. CASE queue = <<>>
    <3>1. PICK t \in 1 .. 8 : t \notin {ticket, pending, slot["engine"].tag, slot["query"].tag,
                                        slot["finish"].tag, slot["teardown"].tag, 0}
      BY FreeTag, Zenon
    <3>2. \A j \in Jobs : j.tag # t  BY <2>1, <1>0 DEF Jobs
    <3>3. \A s \in Slots : slot[s] = None \/ slot[s].tag # t  BY <3>1 DEF Slots
    <3>4. ~InUse(t)  BY <3>1, <3>2, <3>3 DEF InUse
    <3> QED  BY <3>4
  <2>2. CASE Len(queue) <= 2 /\ slot["teardown"] = None
    <3>1. PICK t \in 1 .. 8 : t \notin {ticket, pending, slot["engine"].tag, slot["query"].tag,
                                        slot["finish"].tag, queue[1].tag, queue[2].tag}
      BY FreeTag, Zenon
    <3>2. \A i \in 1 .. Len(queue) : i = 1 \/ i = 2  BY <2>2, <1>0
    <3>3. \A j \in Jobs : j.tag # t  BY <3>1, <3>2, <1>0 DEF Jobs
    <3>4. \A s \in Slots : slot[s] = None \/ slot[s].tag # t  BY <2>2, <3>1 DEF Slots
    <3>5. ~InUse(t)  BY <3>1, <3>3, <3>4 DEF InUse
    <3> QED  BY <3>5
  <2> QED  BY <2>1, <2>2
<1>2. Tag \in 1 .. 8 /\ ~InUse(Tag)  BY <1>1, TagIsLeast
<1>3. \A i \in 1 .. Len(queue) : queue[i] \in Jobs  BY <1>0 DEF Jobs
<1> HIDE DEF Tag
<1> QED  BY <1>2, <1>3 DEF InUse, Tags

\* A queue one job shorter.
LEMMA OneLess ==
    ASSUME NEW n \in Nat \ {0}, NEW m, m = n - 1
    PROVE  /\ m = 1 => n = 2 /\ 1 \in 1 .. n - 1
           /\ (n > 1 => n = 2) => m \in 0 .. 1
           /\ m \in 0 .. 1 => m <= 2 /\ m # 2 /\ \A i \in 1 .. m : i = 1 /\ m = 1
  OBVIOUS

\* A record that fits what is left of the upload and of the half.
LEMMA FitsLeft ==
    ASSUME NEW half \in Nat \ {0}, NEW declared \in Nat \ {0}, NEW received \in Nat,
           NEW fill \in 0 .. half - 1, NEW len \in 1 .. half,
           fill <= received, received + len <= declared, len <= half - fill
    PROVE  /\ fill + len \in 1 .. half /\ received + len \in 1 .. declared
           /\ (received + len) - (fill + len) \in 0 .. declared - 1
  OBVIOUS

\* What a job at the end of the queue changes.
LEMMA AppendFacts ==
    ASSUME NEW S, NEW s \in Seq(S), NEW e \in S
    PROVE  /\ Append(s, e) \in Seq(S) /\ Append(s, e) # <<>>
           /\ Len(s) \in Nat /\ Len(Append(s, e)) = Len(s) + 1
           /\ \A i \in 1 .. Len(s) : Append(s, e)[i] = s[i]
           /\ Append(s, e)[Len(s) + 1] = e
           /\ s = <<>> <=> Len(s) = 0
<1>1. Append(s, e) \in Seq(S) /\ Len(Append(s, e)) = Len(s) + 1 /\ Len(s) \in Nat
  OBVIOUS
<1>2. s = <<>> <=> Len(s) = 0  BY EmptySeq
<1>3. Append(s, e) # <<>>  BY <1>1, EmptySeq
<1>4. \A i \in 1 .. Len(s) : Append(s, e)[i] = s[i]  BY <1>1
<1>5. Append(s, e)[Len(s) + 1] = e  BY <1>1
<1> QED  BY <1>1, <1>2, <1>3, <1>4, <1>5

\* What taking the first of a sequence leaves.
LEMMA TailFacts ==
    ASSUME NEW S, NEW s \in Seq(S), s # <<>>
    PROVE  /\ Head(s) = s[1] /\ Head(s) \in S
           /\ Tail(s) \in Seq(S) /\ Len(s) \in Nat \ {0} /\ Len(Tail(s)) = Len(s) - 1
           /\ \A i \in 1 .. Len(s) - 1 : Tail(s)[i] = s[i + 1]
           /\ Tail(s) = <<>> <=> Len(s) = 1
<1>1. Len(s) \in Nat \ {0}  BY EmptySeq
<1>2. Tail(s) \in Seq(S) /\ Len(Tail(s)) = Len(s) - 1 /\ Head(s) \in S
      /\ \A i \in 1 .. Len(Tail(s)) : Tail(s)[i] = s[i + 1]
  BY HeadTailProperties
<1>3. Tail(s) = <<>> <=> Len(s) = 1
  <2>1. \A t \in Seq(S) : t = <<>> <=> Len(t) = 0  BY EmptySeq
  <2>2. Tail(s) = <<>> <=> Len(Tail(s)) = 0
    <3>1. Tail(s) \in Seq(S)  BY <1>2
    <3> QED  BY <2>1, <3>1, Zenon
  <2> QED  BY <1>1, <1>2, <2>2
<1>4. Head(s) = s[1]  OBVIOUS
<1> QED  BY <1>1, <1>2, <1>3, <1>4

\* A request of this kind can be queued.
Fit(op, s, arg) == \A t \in Tags : [op |-> op, tag |-> t, slot |-> s, arg |-> arg] \in JobType

\* The requests the USB task makes.
LEMMA JobsFit ==
    /\ \A c \in Ask : Fit("Control", "engine", c)
    /\ \A f \in Record : Fit("Stream", "engine", f) /\ Fit("Batch", "engine", f)
    /\ Fit("Pump", "engine", 0) /\ Fit("LinkUp", "engine", 0)
    /\ \A n \in 0 .. MaxPut : Fit("LiveTransfer", "query", n) /\ Fit("UsbMapUpload", "query", n)
    /\ Fit("FinishUsbStage", "finish", 0) /\ Fit("LinkLost", "teardown", 0)
  BY DEF Fit, JobType, EngineJob, QueryJob, OtherJob

\* A request that can be queued is a job once it has its tag.
LEMMA FitJob ==
    ASSUME NEW op, NEW s, NEW arg, Fit(op, s, arg), Tag \in Tags
    PROVE  Job(op, s, arg) \in JobType /\ Job(op, s, arg).tag = Tag /\ Job(op, s, arg).op = op
<1> HIDE DEF Tag
<1> QED  BY DEF Fit, Job

-----------------------------------------------------------------------------
(* What each kind of await does with a call keeps Mail. *)

\* At an await that waits for no answer only a deferred batch can be queued.
LEMMA QuietFacts ==
    ASSUME Mail, pc # "lost", ~Waits
    PROVE  /\ Len(queue) \in 0 .. 1 /\ slot["teardown"] = None
           /\ queue # <<>> => IsDeferred(queue[1])
           /\ pending = None => queue = <<>>
           /\ queue = <<>> <=> Len(queue) = 0
<1>1. Len(queue) \in Nat /\ (queue = <<>> <=> Len(queue) = 0)
  BY LenProperties, EmptySeq DEF Mail, MailTypes
<1>2. Len(queue) # 2  BY DEF Mail, QueuePart, IsOwn
<1>3. \A i \in 1 .. Len(queue) : IsDeferred(queue[i])  BY DEF Mail, QueuePart, IsOwn
<1>4. slot["teardown"] = None  BY DEF Mail, WaitPart
<1>5. Len(queue) <= 2  BY DEF Mail, QueuePart
<1>6. Len(queue) \in 0 .. 1
  <2>1. Len(queue) \in Nat  BY <1>1
  <2>2. \A n \in Nat : n # 2 /\ n <= 2 => n \in 0 .. 1  OBVIOUS
  <2> QED  BY <2>1, <2>2, <1>2, <1>5, Zenon
<1>7. queue # <<>> => IsDeferred(queue[1])  BY <1>1, <1>3, <1>6
<1>8. pending = None => queue = <<>>  BY <1>7 DEF IsDeferred
<1> QED  BY <1>1, <1>4, <1>6, <1>7, <1>8

\* A call that leaves the buffer where it is: a query, or the join of the card's write.
LEMMA AskStep ==
    ASSUME Mail, pc \in Quiet, pc' \in {"query", "map", "ended", "finish", "quit"},
           NEW arg, Fit(OwnOp', WaitsAt', arg),
           queue' = Append(queue, Job(OwnOp', WaitsAt', arg)), ticket' = Tag,
           UNCHANGED <<slot, lane, pending>>
    PROVE  Mail'
<1> DEFINE job == Job(OwnOp', WaitsAt', arg)
<1>1. /\ Waits' /\ ~Waits /\ pc \notin LaneWaits /\ pc' \notin LaneWaits
      /\ pc \in Running /\ pc' \in Running /\ pc \notin Outside /\ pc' \notin Outside
      /\ {"lost", "join", "down", "reclaim", "linkup"} \subseteq Outside
  BY DEF Waits, Quiet, LaneWaits, Running, Driving, Outside
<1>2. WaitsAt' \in Slots /\ OwnOp' \notin Lends
  BY DEF WaitsAt, TeardownSlot, OwnOp, Slots, Lends
<1>3. /\ Len(queue) \in 0 .. 1 /\ slot["teardown"] = None
      /\ queue # <<>> => IsDeferred(queue[1])
      /\ queue = <<>> <=> Len(queue) = 0
  BY <1>1, QuietFacts
<1>4. /\ Tag \in Tags /\ Tag # ticket /\ Tag # pending
      /\ \A s \in Slots : slot[s] # None => slot[s].tag # Tag
  <2>1. \A n \in 0 .. 1 : n <= 2  OBVIOUS
  <2> QED  BY <1>3, <2>1, TagIsFresh, Zenon DEF Mail
<1>5. job.tag = Tag /\ job \in JobType /\ job.op = OwnOp'  BY <1>4, FitJob
<1>6. /\ queue' \in Seq(JobType) /\ queue' # <<>> /\ Len(queue') = Len(queue) + 1
      /\ \A i \in 1 .. Len(queue) : queue'[i] = queue[i]
      /\ queue'[Len(queue) + 1] = job
  BY <1>5, AppendFacts DEF Mail, MailTypes
<1> HIDE DEF job
<1>7. MailTypes'
  BY <1>1, <1>4, <1>6 DEF Mail, MailTypes, Tags
<1>8. job.tag = ticket' /\ job.op = OwnOp'  BY <1>5
<1>9. pending' = pending  OBVIOUS
<1>10. QueuePart'
  BY <1>1, <1>3, <1>6, <1>8, <1>9 DEF QueuePart, IsOwn, IsDeferred
<1>11. WaitPart'
  <2>1. IsOwn(queue[Len(queue)])'  BY <1>1, <1>3, <1>6, <1>8 DEF IsOwn
  <2>2. slot[WaitsAt]' # None => slot[WaitsAt].tag' # ticket'  BY <1>2, <1>4
  <2>3. pending' # None => \/ queue' # <<>> /\ IsDeferred(queue[1])' /\ slot["engine"]' = None
                           \/ /\ slot["engine"]' # None /\ slot["engine"].tag' = pending'
                              /\ slot["engine"].lent'
    BY <1>3, <1>6 DEF Mail, WaitPart, IsDeferred
  <2> QED  BY <1>1, <1>3, <1>6, <2>1, <2>2, <2>3 DEF WaitPart
<1>12. BufferPart'
  <2>1. \A i \in 1 .. Len(queue') : LentJob(i)' => i \in 1 .. Len(queue) /\ LentJob(i)
    BY <1>2, <1>3, <1>5, <1>6 DEF LentJob
  <2>2. \A i \in 1 .. Len(queue) : LentJob(i) => i \in 1 .. Len(queue') /\ LentJob(i)'
    BY <1>3, <1>6 DEF LentJob
  <2>3. LentSlot' = LentSlot  BY DEF LentSlot
  <2> QED  BY <1>1, <2>1, <2>2, <2>3 DEF Mail, BufferPart
<1> QED  BY <1>7, <1>10, <1>11, <1>12 DEF Mail

\* A call that lends the buffer, from the driver or for a cable that came up.
LEMMA LendStep ==
    ASSUME Mail, pc \in Quiet \cup {"down"}, lane,
           pc' \in {"control", "holdC", "stream", "batch", "pump", "pumpC", "pump0"},
           pc = "down" <=> pc' = "pump0",
           NEW arg, Fit(OwnOp', "engine", arg),
           queue' = Append(queue, Job(OwnOp', "engine", arg)), ticket' = Tag,
           lane' = FALSE, UNCHANGED <<slot, pending>>
    PROVE  Mail'
<1> DEFINE job == Job(OwnOp', "engine", arg)
<1>1. /\ Waits' /\ ~Waits /\ pc \notin LaneWaits /\ pc' \in LaneWaits /\ pc # "lost" /\ pc' # "lost"
      /\ pc' \in Running \cup Outside /\ (pc' \notin Running => pc \notin Running)
      /\ pc' \notin {"lost", "join", "down", "reclaim", "linkup"}
      /\ pc \in {"lost", "join", "down", "reclaim", "linkup"} => pc \notin Running
  BY DEF Waits, Quiet, LaneWaits, Running, Driving, Outside
<1>2. WaitsAt' = "engine" /\ OwnOp' \in Lends /\ "engine" \in Slots
  BY DEF WaitsAt, TeardownSlot, OwnOp, Slots, Lends
<1>3. pending = None  BY <1>1 DEF Mail, BufferPart
<1>4. Len(queue) = 0 /\ queue = <<>> /\ slot["teardown"] = None
  BY <1>1, <1>3, QuietFacts
<1>5. /\ Tag \in Tags /\ \A s \in Slots : slot[s] # None => slot[s].tag # Tag
  BY <1>4, TagIsFresh DEF Mail
<1>6. job.tag = ticket' /\ job.op = OwnOp' /\ job \in JobType  BY <1>5, FitJob
<1>7. /\ queue' \in Seq(JobType) /\ queue' # <<>> /\ Len(queue') = 1 /\ queue'[1] = job
  BY <1>4, <1>6, AppendFacts DEF Mail, MailTypes
<1> HIDE DEF job
<1>8. MailTypes'
  <2>1. lane' \in BOOLEAN  BY Zenon
  <2> QED  BY <1>1, <1>5, <1>7, <2>1 DEF Mail, MailTypes, Tags
<1>9. QueuePart'  BY <1>1, <1>6, <1>7 DEF QueuePart, IsOwn
<1>10. WaitPart'
  BY <1>1, <1>2, <1>3, <1>4, <1>5, <1>6, <1>7 DEF WaitPart, IsOwn
<1>11. ~LentSlot /\ LentSlot' = LentSlot /\ (slot["engine"] # None /\ ~slot["engine"].lent => FALSE)
  BY <1>1 DEF Mail, BufferPart, LentSlot, Quiet
<1>12. BufferPart'
  BY <1>1, <1>2, <1>3, <1>6, <1>7, <1>11 DEF BufferPart, LentJob
<1> QED  BY <1>8, <1>9, <1>10, <1>12 DEF Mail

\* A batch that is not waited for; the driver goes on without the buffer.
LEMMA DeferStep ==
    ASSUME Mail, pc \in Quiet, lane, pc' = "react",
           NEW arg, Fit("Batch", "engine", arg),
           queue' = Append(queue, Job("Batch", "engine", arg)), pending' = Tag, ticket' = 0,
           lane' = FALSE, UNCHANGED slot
    PROVE  Mail'
<1> DEFINE job == Job("Batch", "engine", arg)
<1>1. /\ ~Waits' /\ ~Waits /\ pc \notin LaneWaits /\ pc' \notin LaneWaits
      /\ pc' \in Running /\ pc \in Running /\ pc \notin Outside /\ pc' \notin Outside
      /\ {"lost", "join", "down", "reclaim", "linkup"} \subseteq Outside
  BY DEF Waits, Quiet, LaneWaits, Running, Driving, Outside
<1>2. "Batch" \in Lends  BY DEF Lends
<1>3. pending = None  BY <1>1 DEF Mail, BufferPart
<1>4. Len(queue) = 0 /\ queue = <<>> /\ slot["teardown"] = None
  BY <1>1, <1>3, QuietFacts
<1>5. Tag \in Tags /\ Tag # None  BY <1>4, TagIsFresh, UsbAssumption DEF Mail, Tags
<1>6. job.tag = pending' /\ job.op = "Batch" /\ job \in JobType  BY <1>5, FitJob
<1>7. /\ queue' \in Seq(JobType) /\ queue' # <<>> /\ Len(queue') = 1 /\ queue'[1] = job
  BY <1>4, <1>6, AppendFacts DEF Mail, MailTypes
<1> HIDE DEF job
<1>8. MailTypes'
  <2>1. lane' \in BOOLEAN  BY Zenon
  <2> QED  BY <1>1, <1>5, <1>7, <2>1 DEF Mail, MailTypes, Tags
<1>9. QueuePart'  BY <1>1, <1>5, <1>6, <1>7 DEF QueuePart, IsDeferred
<1>10. slot["engine"] = None
  BY <1>1 DEF Mail, BufferPart, LentSlot
<1>11. WaitPart'
  BY <1>1, <1>4, <1>5, <1>6, <1>7, <1>10 DEF WaitPart, IsDeferred
<1>12. BufferPart'
  BY <1>1, <1>2, <1>5, <1>6, <1>7, <1>10 DEF BufferPart, LentJob, LentSlot
<1> QED  BY <1>8, <1>9, <1>11, <1>12 DEF Mail

\* No request and no answer moves, and nobody waits for one.
LEMMA QuietStep ==
    ASSUME Mail, ticket' \in 0 .. 8, UNCHANGED <<queue, slot, lane, pending>>,
           \/ pc \in Quiet /\ pc' \in Quiet
           \/ pc = "down" /\ ~lane /\ pc' = "reclaim"
    PROVE  Mail'
<1>1. /\ ~Waits /\ ~Waits' /\ pc \notin LaneWaits /\ pc' \notin LaneWaits /\ pc # "lost" /\ pc' # "lost"
      /\ pc' \in Running \cup Outside /\ (pc' \in Running <=> pc \in Running) /\ pc # "linkup"
      /\ pc' \in {"lost", "join", "down", "reclaim"} => pc' = "reclaim" /\ ~lane
      /\ pc \in {"lost", "join", "down", "reclaim"} => pc' = "reclaim"
  BY DEF Waits, Quiet, LaneWaits, Running, Driving, Outside
<1>2. MailTypes'  BY <1>1 DEF Mail, MailTypes
<1>3. QueuePart'  BY <1>1 DEF Mail, QueuePart, IsOwn, IsDeferred
<1>4. WaitPart'  BY <1>1 DEF Mail, WaitPart, IsDeferred
<1>5. BufferPart'  BY <1>1 DEF Mail, BufferPart, LentJob, LentSlot
<1> QED  BY <1>2, <1>3, <1>4, <1>5 DEF Mail

\* The answer that is waited for is the last one: nothing is queued any more.
LEMMA AnsweredFacts ==
    ASSUME Mail, Waits, slot[WaitsAt] # None, slot[WaitsAt].tag = ticket
    PROVE  /\ queue = <<>> /\ Len(queue) = 0
           /\ pending # None => /\ slot["engine"] # None /\ slot["engine"].tag = pending
                                /\ slot["engine"].lent
           /\ pc # "lost" => slot["teardown"] = None
           /\ ~lane => LentSlot
<1>1. queue = <<>>  BY DEF Mail, WaitPart
<1>2. Len(queue) = 0  BY <1>1, EmptySeq
<1>3. pending # None => slot["engine"] # None /\ slot["engine"].tag = pending /\ slot["engine"].lent
  BY <1>1 DEF Mail, WaitPart
<1>4. pc # "lost" => slot["teardown"] = None  BY DEF Mail, WaitPart
<1>5. ~lane => LentSlot
  <2>1. \A i \in 1 .. Len(queue) : FALSE  BY <1>2
  <2> QED  BY <2>1 DEF Mail, BufferPart
<1> QED  BY <1>1, <1>2, <1>3, <1>4, <1>5

\* An answer comes to a query or to a join, and no other call follows.
LEMMA HeardStep ==
    ASSUME Mail, \/ pc \in {"query", "map", "ended", "finish"} /\ pc' \in Quiet
                 \/ pc = "join" /\ pc' = "down",
           slot[WaitsAt] # None, slot[WaitsAt].tag = ticket,
           slot' = [slot EXCEPT ![WaitsAt] = None], ticket' = 0,
           UNCHANGED <<queue, lane, pending>>
    PROVE  Mail'
<1>1. /\ Waits /\ ~Waits' /\ pc \notin LaneWaits /\ pc' \notin LaneWaits
      /\ pc' \in Running \cup Outside /\ (pc' \in Running <=> pc \in Running)
      /\ pc \notin {"lost", "down", "reclaim", "linkup"} /\ pc' \notin {"lost", "join", "reclaim", "linkup"}
      /\ (pc = "join" <=> pc' = "down")
  BY DEF Waits, Quiet, LaneWaits, Running, Driving, Outside
<1>2. WaitsAt \in {"query", "finish"}
  BY DEF WaitsAt, TeardownSlot
<1>3. /\ queue = <<>> /\ Len(queue) = 0 /\ slot["teardown"] = None
      /\ pending # None => slot["engine"] # None /\ slot["engine"].tag = pending /\ slot["engine"].lent
  BY <1>1, AnsweredFacts
<1>4. /\ slot' \in [Slots -> Answer \cup {None}]
      /\ slot'["engine"] = slot["engine"] /\ slot'["teardown"] = None
  BY <1>2, <1>3 DEF Mail, MailTypes, Slots
<1>5. MailTypes'  BY <1>1, <1>4 DEF Mail, MailTypes
<1>6. QueuePart'  BY <1>1, <1>3 DEF QueuePart
<1>7. WaitPart'  BY <1>1, <1>3, <1>4 DEF WaitPart
<1>8. BufferPart'  BY <1>1, <1>3, <1>4 DEF Mail, BufferPart, LentJob, LentSlot
<1> QED  BY <1>5, <1>6, <1>7, <1>8 DEF Mail

\* Lane::collect: the answer brings the buffer back.
LEMMA LaneBackStep ==
    ASSUME Mail, pc \in LaneWaits \ {"pump0"}, pc' \in Quiet,
           slot["engine"] # None, slot["engine"].tag = ticket,
           slot' = [slot EXCEPT !["engine"] = None], lane' = TRUE, ticket' = 0,
           UNCHANGED <<queue, pending>>
    PROVE  Mail'
<1>1. /\ Waits /\ ~Waits' /\ pc' \notin LaneWaits
      /\ pc' \in Running /\ pc \in Running /\ pc \notin Outside /\ pc' \notin Outside
      /\ {"lost", "join", "down", "reclaim", "linkup"} \subseteq Outside
  BY DEF Waits, Quiet, LaneWaits, Running, Driving, Outside
<1>2. WaitsAt = "engine"  BY DEF WaitsAt, LaneWaits
<1>3. queue = <<>> /\ Len(queue) = 0 /\ slot["teardown"] = None
  BY <1>1, <1>2, AnsweredFacts
<1>4. pending = None  BY DEF Mail, BufferPart
<1>5. /\ slot' \in [Slots -> Answer \cup {None}]
      /\ slot'["engine"] = None /\ slot'["teardown"] = None
  BY <1>3 DEF Mail, MailTypes, Slots
<1>6. MailTypes'
  <2>1. lane' \in BOOLEAN  BY Zenon
  <2> QED  BY <1>1, <1>5, <2>1 DEF Mail, MailTypes
<1>7. QueuePart'  BY <1>1, <1>3 DEF QueuePart
<1>8. WaitPart'  BY <1>1, <1>3, <1>4, <1>5 DEF WaitPart
<1>9. BufferPart'  BY <1>1, <1>3, <1>4, <1>5 DEF BufferPart, LentJob, LentSlot
<1> QED  BY <1>6, <1>7, <1>8, <1>9 DEF Mail

\* The answer of the deferred batch is waited for from now on; a query before it was answered.
LEMMA CollectStep ==
    ASSUME Mail, pending # None, pc' \in {"collectC", "collectS", "collectE"},
           ticket' = pending, pending' = None, UNCHANGED <<queue, lane>>,
           \/ pc \in Quiet /\ slot' = slot
           \/ /\ pc = "ended" /\ slot[WaitsAt] # None /\ slot[WaitsAt].tag = ticket
              /\ slot' = [slot EXCEPT ![WaitsAt] = None]
    PROVE  Mail'
<1>1. /\ Waits' /\ (pc \in Quiet => ~Waits) /\ (pc = "ended" => Waits)
      /\ pc' \in LaneWaits /\ pc \notin LaneWaits
      /\ pc' \in Running /\ pc \in Running /\ pc \notin Outside /\ pc' \notin Outside
      /\ {"lost", "join", "down", "reclaim", "linkup"} \subseteq Outside
  BY DEF Waits, Quiet, LaneWaits, Running, Driving, Outside
<1>2. WaitsAt' = "engine" /\ OwnOp' = "Batch" /\ (pc = "ended" => WaitsAt = "query")
  BY DEF WaitsAt, OwnOp
<1>3. Len(queue) \in 0 .. 1 /\ slot["teardown"] = None /\ (queue = <<>> <=> Len(queue) = 0)
  BY <1>1, QuietFacts, AnsweredFacts
<1>4. \A i \in 1 .. Len(queue) : i = 1 /\ IsDeferred(queue[i])
  BY <1>1, <1>3, QuietFacts, AnsweredFacts
<1>5. /\ slot' \in [Slots -> Answer \cup {None}]
      /\ slot'["engine"] = slot["engine"] /\ slot'["teardown"] = None
  BY <1>2, <1>3 DEF Mail, MailTypes, Slots
<1>6. MailTypes'  BY <1>1, <1>5 DEF Mail, MailTypes, Tags
<1>7. QueuePart'
  <2>1. \A i \in 1 .. Len(queue) : IsOwn(queue[i])'
    BY <1>1, <1>2, <1>4 DEF IsOwn, IsDeferred
  <2>2. pc' # "lost" /\ Len(queue') = Len(queue)  BY <1>1
  <2> QED  BY <1>3, <2>1, <2>2 DEF QueuePart
<1>8. IF queue = <<>> THEN slot["engine"] # None /\ slot["engine"].tag = pending
                      ELSE IsDeferred(queue[1]) /\ slot["engine"] = None
  <2>1. CASE queue = <<>>  BY <2>1 DEF Mail, WaitPart
  <2>2. CASE queue # <<>>
    <3>1. 1 \in 1 .. Len(queue) /\ LentJob(1)
      BY <2>2, <1>3, <1>4 DEF LentJob, IsDeferred, Lends
    <3>2. ~LentSlot  BY <3>1 DEF Mail, BufferPart
    <3> QED  BY <2>2, <3>1, <3>2, <1>4 DEF Mail, WaitPart, LentSlot
  <2> QED  BY <2>1, <2>2
<1>9. WaitPart'  BY <1>1, <1>2, <1>3, <1>4, <1>5, <1>8 DEF WaitPart, IsOwn, IsDeferred
<1>10. BufferPart'  BY <1>1, <1>5 DEF Mail, BufferPart, LentJob, LentSlot
<1> QED  BY <1>6, <1>7, <1>9, <1>10 DEF Mail

\* Lane::reclaim, a batch collected ahead of a control record, and the pump that proves a new
\* cable's lane: the answer's buffer goes into the next call.
LEMMA AgainStep ==
    ASSUME Mail, slot["engine"] # None, slot' = [slot EXCEPT !["engine"] = None],
           \/ pc = "reclaim" /\ pc' = "pump0" /\ lane' = lane
           \/ pc = "collectC" /\ pc' = "control" /\ lane' = lane /\ slot["engine"].tag = ticket
           \/ pc = "pump0" /\ pc' = "linkup" /\ lane' = TRUE /\ slot["engine"].tag = ticket,
           NEW arg, Fit(OwnOp', "engine", arg),
           queue' = Append(queue, Job(OwnOp', "engine", arg)), ticket' = Tag, pending' = pending
    PROVE  Mail'
<1> DEFINE job == Job(OwnOp', "engine", arg)
<1>1. /\ Waits' /\ pc \notin {"lost", "linkup"} /\ (pc = "reclaim" => ~Waits) /\ (pc # "reclaim" => Waits)
      /\ (pc # "reclaim" => pc \in LaneWaits) /\ (pc' \in LaneWaits <=> pc' # "linkup")
      /\ pc \in Running \cup Outside /\ pc' \in Running \cup Outside /\ (pc \in Running <=> pc' \in Running)
      /\ pc' \notin {"lost", "join", "down", "reclaim"} /\ (pc' = "linkup" <=> pc = "pump0")
      /\ pc \notin {"lost", "join", "down"} /\ (pc = "reclaim" => pc \notin Running)
  BY DEF Waits, Quiet, LaneWaits, Running, Driving, Outside
<1>2. /\ WaitsAt' = "engine" /\ (pc # "reclaim" => WaitsAt = "engine") /\ "engine" \in Slots
      /\ (OwnOp' \in Lends <=> pc' # "linkup")
  BY DEF WaitsAt, TeardownSlot, OwnOp, Slots, Lends
<1>3. pending = None  BY <1>1 DEF Mail, BufferPart
<1>4. Len(queue) = 0 /\ queue = <<>> /\ slot["teardown"] = None
  BY <1>1, <1>2, <1>3, QuietFacts, AnsweredFacts
<1>5. Tag \in Tags  BY <1>4, TagIsFresh DEF Mail
<1>6. job.tag = ticket' /\ job.op = OwnOp' /\ job \in JobType  BY <1>5, FitJob
<1>7. /\ queue' \in Seq(JobType) /\ queue' # <<>> /\ Len(queue') = 1 /\ queue'[1] = job
  BY <1>4, <1>6, AppendFacts DEF Mail, MailTypes
<1> HIDE DEF job
<1>8. /\ slot' \in [Slots -> Answer \cup {None}]
      /\ slot'["engine"] = None /\ slot'["teardown"] = None
  BY <1>2, <1>4 DEF Mail, MailTypes, Slots
<1>9. lane' \in BOOLEAN /\ (pc' # "linkup" => ~lane') /\ (pc' = "linkup" => lane')
  <2>1. pc # "pump0" => ~lane  BY <1>1 DEF Mail, BufferPart
  <2>2. CASE pc = "pump0"  BY <2>2, <1>1, Zenon
  <2>3. CASE pc # "pump0"  BY <2>1, <2>3, <1>1 DEF Mail, MailTypes
  <2> QED  BY <2>2, <2>3
<1>10. MailTypes'  BY <1>1, <1>3, <1>5, <1>7, <1>8, <1>9 DEF MailTypes, Tags
<1>11. QueuePart'  BY <1>1, <1>6, <1>7 DEF QueuePart, IsOwn
<1>12. WaitPart'
  BY <1>1, <1>2, <1>3, <1>6, <1>7, <1>8 DEF WaitPart, IsOwn
<1>13. BufferPart'
  BY <1>1, <1>2, <1>3, <1>6, <1>7, <1>8, <1>9 DEF BufferPart, LentJob, LentSlot
<1> QED  BY <1>10, <1>11, <1>12, <1>13 DEF Mail

\* The engine knows of the link: the driver starts.
LEMMA ServingStep ==
    ASSUME Mail, pc = "linkup", pc' = "idle", slot["engine"] # None, slot["engine"].tag = ticket,
           slot' = [slot EXCEPT !["engine"] = None], ticket' = 0, UNCHANGED <<queue, lane, pending>>
    PROVE  Mail'
<1>1. /\ Waits /\ ~Waits' /\ pc \notin LaneWaits /\ pc' \notin LaneWaits
      /\ pc \notin Running /\ pc' \in Running /\ pc' \notin Outside
      /\ {"lost", "join", "down", "reclaim", "linkup"} \subseteq Outside
  BY DEF Waits, Quiet, LaneWaits, Running, Driving, Outside
<1>2. WaitsAt = "engine"  BY DEF WaitsAt
<1>3. pending = None /\ lane  BY <1>1 DEF Mail, BufferPart
<1>4. queue = <<>> /\ Len(queue) = 0 /\ slot["teardown"] = None
  BY <1>1, <1>2, AnsweredFacts
<1>5. /\ slot' \in [Slots -> Answer \cup {None}]
      /\ slot'["engine"] = None /\ slot'["teardown"] = None
  BY <1>4 DEF Mail, MailTypes, Slots
<1>6. MailTypes'  BY <1>1, <1>5 DEF Mail, MailTypes
<1>7. QueuePart'  BY <1>1, <1>4 DEF QueuePart
<1>8. WaitPart'  BY <1>1, <1>3, <1>4, <1>5 DEF WaitPart
<1>9. BufferPart'  BY <1>1, <1>3, <1>4, <1>5 DEF BufferPart, LentJob, LentSlot
<1> QED  BY <1>6, <1>7, <1>8, <1>9 DEF Mail

\* driver's end: whatever it had in the queue stays there, and the report of the loss follows.
LEMMA LossStep ==
    ASSUME Mail, pc \in Running, pc' = "lost",
           queue' = Append(queue, Job("LinkLost", "teardown", 0)), ticket' = Tag, pending' = None,
           lane' = lane,
           slot' = slot \/ slot' = [slot EXCEPT !["finish"] = None]
    PROVE  Mail'
<1> DEFINE job == Job("LinkLost", "teardown", 0)
<1>1. /\ Waits' /\ pc' \notin LaneWaits /\ pc' \notin Running /\ pc' \in Outside /\ pc \notin Outside
      /\ {"lost", "join", "down", "reclaim", "linkup"} \subseteq Outside
      /\ (Waits => OwnOp \notin {"LinkUp", "LinkLost"})
  BY DEF Waits, Quiet, LaneWaits, Running, Driving, Outside, OwnOp
<1>2. WaitsAt' = "teardown" /\ OwnOp' = "LinkLost" /\ "LinkLost" \notin Lends
  BY DEF WaitsAt, TeardownSlot, OwnOp, Lends
<1>3. /\ Len(queue) <= 2 /\ slot["teardown"] = None
      /\ \A i \in 1 .. Len(queue) : queue[i].op \notin {"LinkUp", "LinkLost"}
  BY <1>1 DEF Mail, QueuePart, WaitPart, IsOwn, IsDeferred
<1>4. Tag \in Tags  BY <1>3, TagIsFresh DEF Mail
<1>5. job.tag = ticket' /\ job.op = "LinkLost" /\ job \in JobType  BY <1>4, JobsFit, FitJob
<1>6. /\ queue' \in Seq(JobType) /\ queue' # <<>> /\ Len(queue) \in Nat /\ Len(queue') = Len(queue) + 1
      /\ \A i \in 1 .. Len(queue) : queue'[i] = queue[i]
      /\ queue'[Len(queue) + 1] = job
  BY <1>5, AppendFacts DEF Mail, MailTypes
<1> HIDE DEF job
<1>7. /\ slot' \in [Slots -> Answer \cup {None}]
      /\ slot'["engine"] = slot["engine"] /\ slot'["teardown"] = None
  BY <1>3 DEF Mail, MailTypes, Slots
<1>8. MailTypes'  BY <1>1, <1>4, <1>6, <1>7 DEF Mail, MailTypes, Tags
<1>9. QueuePart'
  <2>1. Len(queue') <= 3  BY <1>3, <1>6
  <2>2. \A i \in 1 .. Len(queue') - 1 : queue'[i].op \notin {"LinkUp", "LinkLost"}
    BY <1>3, <1>6
  <2> QED  BY <2>1, <2>2 DEF QueuePart
<1>10. WaitPart'
  BY <1>1, <1>2, <1>5, <1>6, <1>7 DEF WaitPart, IsOwn
<1>11. BufferPart'
  <2>1. \A i \in 1 .. Len(queue') : LentJob(i)' => i \in 1 .. Len(queue) /\ LentJob(i)
    BY <1>2, <1>5, <1>6 DEF LentJob
  <2>2. \A i \in 1 .. Len(queue) : LentJob(i) => i \in 1 .. Len(queue') /\ LentJob(i)'
    BY <1>6 DEF LentJob
  <2>3. LentSlot' = LentSlot  BY <1>7 DEF LentSlot
  <2>4. slot["engine"] # None => slot["engine"].lent  BY <1>1 DEF Mail, BufferPart
  <2> QED  BY <1>1, <1>7, <2>1, <2>2, <2>3, <2>4 DEF Mail, BufferPart
<1> QED  BY <1>8, <1>9, <1>10, <1>11 DEF Mail

\* The engine knows of the loss: the card's write is joined next.
LEMMA LostStep ==
    ASSUME Mail, pc = "lost", pc' = "join", slot["teardown"] # None, slot["teardown"].tag = ticket,
           slot' = [slot EXCEPT !["teardown"] = None],
           queue' = Append(queue, Job("FinishUsbStage", "finish", 0)), ticket' = Tag,
           UNCHANGED <<lane, pending>>
    PROVE  Mail'
<1> DEFINE job == Job("FinishUsbStage", "finish", 0)
<1>1. /\ Waits /\ Waits' /\ pc' \notin LaneWaits /\ pc \notin Running /\ pc' \notin Running /\ pc' \in Outside
  BY DEF Waits, Quiet, LaneWaits, Running, Driving, Outside
<1>2. /\ WaitsAt = "teardown" /\ WaitsAt' = "finish" /\ OwnOp' = "FinishUsbStage"
      /\ "FinishUsbStage" \notin Lends /\ {"teardown", "finish"} \subseteq Slots
  BY DEF WaitsAt, TeardownSlot, OwnOp, Lends, Slots
<1>3. pending = None  BY <1>1 DEF Mail, BufferPart
<1>4. queue = <<>> /\ Len(queue) = 0  BY <1>1, <1>2, AnsweredFacts
<1>5. Tag \in Tags /\ \A s \in Slots : slot[s] # None => slot[s].tag # Tag
  BY <1>4, TagIsFresh DEF Mail
<1>6. job.tag = ticket' /\ job.op = OwnOp' /\ job \in JobType  BY <1>2, <1>5, JobsFit, FitJob
<1>7. /\ queue' \in Seq(JobType) /\ queue' # <<>> /\ Len(queue') = 1 /\ queue'[1] = job
  BY <1>4, <1>6, AppendFacts DEF Mail, MailTypes
<1> HIDE DEF job
<1>8. /\ slot' \in [Slots -> Answer \cup {None}] /\ slot'["engine"] = slot["engine"]
      /\ slot'["finish"] = slot["finish"] /\ slot'["teardown"] = None
  BY DEF Mail, MailTypes, Slots
<1>9. MailTypes'  BY <1>1, <1>3, <1>5, <1>7, <1>8 DEF Mail, MailTypes, Tags
<1>10. QueuePart'  BY <1>1, <1>6, <1>7 DEF QueuePart, IsOwn
<1>11. WaitPart'
  BY <1>1, <1>2, <1>3, <1>5, <1>6, <1>7, <1>8 DEF WaitPart, IsOwn
<1>12. BufferPart'
  BY <1>1, <1>2, <1>3, <1>4, <1>6, <1>7, <1>8 DEF Mail, BufferPart, LentJob, LentSlot
<1> QED  BY <1>9, <1>10, <1>11, <1>12 DEF Mail

\* A call that waits in the lane's slot has no deferred batch beside it.
LEMMA EngineWaits ==
    ASSUME Mail, Waits, WaitsAt = "engine"
    PROVE  /\ pending = None /\ pc # "lost"
           /\ queue # <<>> => ~LentSlot
<1>1. pc \in LaneWaits \cup {"linkup"} /\ pc # "lost" /\ (pc = "linkup" => pc \notin Running)
      /\ pc \notin {"lost", "join", "down", "reclaim"} /\ "linkup" \notin LaneWaits
  BY DEF Waits, WaitsAt, TeardownSlot, Quiet, MailTypes, Mail, Running, Driving, Outside, LaneWaits
<1>2. pending = None  BY <1>1 DEF Mail, BufferPart
<1>3. ASSUME queue # <<>>, LentSlot PROVE FALSE
  <2>1. pc # "linkup"  BY <1>1, <1>2, <1>3 DEF Mail, BufferPart
  <2>2. OwnOp \in Lends  BY <1>1, <2>1 DEF OwnOp, LaneWaits, Lends
  <2>3. Len(queue) \in 1 .. Len(queue) /\ IsOwn(queue[Len(queue)])
    <3>1. Len(queue) \in Nat \ {0}  BY <1>3, EmptySeq DEF Mail, MailTypes
    <3> QED  BY <1>3, <3>1 DEF Mail, WaitPart
  <2> QED  BY <1>3, <2>2, <2>3 DEF Mail, BufferPart, LentJob, IsOwn
<1> QED  BY <1>1, <1>2, <1>3

\* Writer::result: an answer of another call is consumed.
LEMMA DiscardStep ==
    ASSUME Mail, Waits, slot[WaitsAt] # None, slot[WaitsAt].tag # ticket,
           slot' = [slot EXCEPT ![WaitsAt] = None],
           UNCHANGED <<pc, ticket, queue, lane, pending>>
    PROVE  Mail'
<1>1. queue # <<>>  BY DEF Mail, WaitPart
<1>2. WaitsAt \in Slots \ {"teardown"}
  <2>1. WaitsAt \in Slots
    BY DEF Waits, WaitsAt, TeardownSlot, Slots, Quiet, Mail, MailTypes, Running, Driving, Outside
  <2> QED  BY <1>1, <2>1 DEF Mail, WaitPart
<1>3. /\ slot' \in [Slots -> Answer \cup {None}] /\ slot'[WaitsAt] = None
      /\ \A s \in Slots : s # WaitsAt => slot'[s] = slot[s]
  BY <1>2 DEF Mail, MailTypes
<1>4. WaitsAt' = WaitsAt /\ OwnOp' = OwnOp /\ Waits' = Waits  BY DEF WaitsAt, OwnOp, Waits
<1>5. {"engine", "teardown"} \subseteq Slots  BY DEF Slots
<1>6. WaitsAt = "engine" => pending = None /\ ~LentSlot  BY <1>1, EngineWaits
<1>7. MailTypes'  BY <1>3 DEF Mail, MailTypes
<1>8. QueuePart'  BY <1>4 DEF Mail, QueuePart, IsOwn, IsDeferred
<1>9. WaitPart'
  BY <1>1, <1>2, <1>3, <1>4, <1>5, <1>6 DEF Mail, WaitPart, IsOwn, IsDeferred
<1>10. LentSlot' = LentSlot /\ (slot'["engine"] # None => slot'["engine"] = slot["engine"])
  BY <1>3, <1>5, <1>6 DEF LentSlot
<1>11. BufferPart'
  BY <1>10 DEF Mail, BufferPart, LentJob
<1> QED  BY <1>7, <1>8, <1>9, <1>11 DEF Mail

\* A job says in which slot its answer goes.
LEMMA JobSlots ==
    ASSUME NEW j \in JobType
    PROVE  /\ j.tag \in Tags /\ j.slot \in Slots
           /\ j.op \in Lends => j.slot = "engine"
           /\ j.slot = "engine" => j.op \in Lends \cup {"LinkUp"}
           /\ j.op = "LinkUp" => j.slot = "engine"
           /\ j.slot = "teardown" <=> j.op = "LinkLost"
           /\ j.slot = "query" <=> j.op \in {"LiveTransfer", "UsbMapUpload"}
           /\ j.slot = "finish" <=> j.op = "FinishUsbStage"
  BY DEF JobType, EngineJob, QueryJob, OtherJob, Lends, Slots

\* The job of a call is answered where the call waits.
LEMMA OwnSlot ==
    ASSUME NEW j \in JobType, IsOwn(j), pc \in Running \cup Outside
    PROVE  j.slot = WaitsAt
<1>1. j.op = OwnOp /\ Waits  BY DEF IsOwn
<1>2. CASE pc \in LaneWaits \cup {"linkup"}
  <2>1. OwnOp \in Lends \cup {"LinkUp"} /\ WaitsAt = "engine"
    BY <1>2 DEF OwnOp, LaneWaits, Lends, WaitsAt
  <2> QED  BY <1>1, <2>1, JobSlots
<1>3. CASE pc \in {"query", "map", "ended"}
  <2>1. OwnOp \in {"LiveTransfer", "UsbMapUpload"} /\ WaitsAt = "query"
    BY <1>3 DEF OwnOp, WaitsAt
  <2> QED  BY <1>1, <2>1, JobSlots
<1>4. CASE pc \in {"finish", "quit", "join"}
  <2>1. OwnOp = "FinishUsbStage" /\ WaitsAt = "finish"  BY <1>4 DEF OwnOp, WaitsAt
  <2> QED  BY <1>1, <2>1, JobSlots
<1>5. CASE pc = "lost"
  <2>1. OwnOp = "LinkLost" /\ WaitsAt = "teardown"  BY <1>5 DEF OwnOp, WaitsAt, TeardownSlot
  <2> QED  BY <1>1, <2>1, JobSlots
<1>6. pc \in LaneWaits \cup {"linkup"} \cup {"query", "map", "ended"} \cup {"finish", "quit", "join"} \cup {"lost"}
  BY <1>1 DEF Waits, Quiet, LaneWaits, Running, Driving, Outside
<1> QED  BY <1>2, <1>3, <1>4, <1>5, <1>6

\* storage_task: the first job is taken off the queue and answered in its slot.
LEMMA ServeStep ==
    ASSUME Mail, queue # <<>>, NEW value,
           [tag |-> TheJob.tag, lent |-> TheJob.op \in Lends, value |-> value] \in Answer,
           slot' = [slot EXCEPT ![TheJob.slot] =
                      [tag |-> TheJob.tag, lent |-> TheJob.op \in Lends, value |-> value]],
           queue' = Tail(queue), UNCHANGED <<pc, ticket, lane, pending>>
    PROVE  Mail'
<1> DEFINE answer == [tag |-> TheJob.tag, lent |-> TheJob.op \in Lends, value |-> value]
<1>1. /\ TheJob = queue[1] /\ TheJob \in JobType
      /\ queue' \in Seq(JobType) /\ Len(queue) \in Nat \ {0} /\ Len(queue') = Len(queue) - 1
      /\ \A i \in 1 .. Len(queue) - 1 : queue'[i] = queue[i + 1]
      /\ queue' = <<>> <=> Len(queue) = 1
  BY TailFacts DEF Mail, MailTypes, TheJob
<1>2. /\ TheJob.slot \in Slots
      /\ TheJob.op \in Lends => TheJob.slot = "engine"
      /\ TheJob.slot = "engine" => TheJob.op \in Lends \cup {"LinkUp"}
      /\ TheJob.op = "LinkUp" => TheJob.slot = "engine"
      /\ TheJob.slot = "teardown" <=> TheJob.op = "LinkLost"
  BY <1>1, JobSlots
<1>3. answer # None /\ answer.tag = TheJob.tag /\ (answer.lent <=> TheJob.op \in Lends)
  BY NoneAssumption
<1>4. /\ slot' \in [Slots -> Answer \cup {None}] /\ slot'[TheJob.slot] = answer
      /\ \A s \in Slots : s # TheJob.slot => slot'[s] = slot[s]
  BY <1>2 DEF Mail, MailTypes
<1> HIDE DEF answer, TheJob
<1>5. {"engine", "teardown"} \subseteq Slots  BY DEF Slots
<1>6. WaitsAt' = WaitsAt /\ OwnOp' = OwnOp /\ Waits' = Waits  BY DEF WaitsAt, OwnOp, Waits
<1>7. Waits => WaitsAt \in Slots
  BY DEF Waits, WaitsAt, TeardownSlot, Slots, Quiet, Mail, MailTypes, Running, Driving, Outside
<1>8. pc # "lost" => IsOwn(TheJob) \/ IsDeferred(TheJob)
  BY <1>1 DEF Mail, QueuePart
<1>9. pc # "lost" /\ Len(queue) > 1 => Len(queue) = 2 /\ IsDeferred(TheJob) /\ IsOwn(queue[2])
  BY <1>1 DEF Mail, QueuePart
<1>10. pc = "lost" /\ Len(queue) > 1 => TheJob.op \notin {"LinkUp", "LinkLost"}
  BY <1>1 DEF Mail, QueuePart
<1>11. pc = "lost" => Waits /\ WaitsAt = "teardown" /\ OwnOp = "LinkLost"
  BY DEF Waits, Quiet, WaitsAt, TeardownSlot, OwnOp
<1>12. Waits => IsOwn(queue[Len(queue)]) /\ (slot[WaitsAt] # None => slot[WaitsAt].tag # ticket)
  BY DEF Mail, WaitPart
<1>13. \A i \in 1 .. Len(queue) - 1 : i + 1 \in 1 .. Len(queue)
  BY <1>1
<1>a. Len(queue) \in Nat \ {0} /\ Len(queue') = Len(queue) - 1  BY <1>1
<1>b. \A i \in 1 .. Len(queue) - 1 : queue'[i] = queue[i + 1]  BY <1>1
<1>14. MailTypes'  BY <1>1, <1>4 DEF Mail, MailTypes
<1>15. QueuePart'
  <2>1. CASE pc = "lost"
    <3>1. Len(queue') <= 3  BY <1>1, <2>1 DEF Mail, QueuePart
    <3>2. \A i \in 1 .. Len(queue') - 1 : queue'[i].op \notin {"LinkUp", "LinkLost"}
      <4>1. \A i \in 1 .. Len(queue') - 1 : i + 1 \in 1 .. Len(queue) - 1 /\ queue'[i] = queue[i + 1]
        BY <1>a, <1>b
      <4> QED  BY <4>1, <2>1 DEF Mail, QueuePart
    <3> QED  BY <2>1, <3>1, <3>2 DEF QueuePart
  <2>2. CASE pc # "lost"
    <3>1. Len(queue') \in 0 .. 1  BY <1>a, <1>9, <2>2, OneLess, Zenon
    <3>2. ASSUME Len(queue') = 1 PROVE IsOwn(queue'[1])
      <4>1. Len(queue) = 2 /\ 1 \in 1 .. Len(queue) - 1  BY <1>a, <3>2, OneLess, Zenon
      <4>2. queue'[1] = queue[2]  BY <1>b, <4>1
      <4> QED  BY <1>9, <2>2, <4>1, <4>2
    <3>3. Len(queue') <= 2 /\ Len(queue') # 2 /\ \A i \in 1 .. Len(queue') : i = 1 /\ Len(queue') = 1
      BY <1>a, <3>1, OneLess, Zenon
    <3> QED  BY <1>6, <2>2, <3>2, <3>3, Zenon DEF QueuePart, IsOwn
  <2> QED  BY <2>1, <2>2
<1>16. WaitPart'
  <2>1. ASSUME Waits, queue' = <<>> PROVE slot'[WaitsAt] # None /\ slot'[WaitsAt].tag = ticket
    <3>1. IsOwn(TheJob)  BY <1>1, <1>12, <2>1
    <3>2. TheJob.slot = WaitsAt  BY <1>1, <3>1, OwnSlot DEF Mail, MailTypes
    <3> QED  BY <1>3, <1>4, <3>1, <3>2 DEF IsOwn
  <2>2. ASSUME Waits, queue' # <<>>
        PROVE  /\ queue'[Len(queue')].tag = ticket /\ queue'[Len(queue')].op = OwnOp
               /\ slot'[WaitsAt] # None => slot'[WaitsAt].tag # ticket
    <3>1. Len(queue) > 1 /\ queue'[Len(queue')] = queue[Len(queue)]
      BY <1>1, <2>2
    <3>2. TheJob.slot # WaitsAt
      <4>1. CASE pc = "lost"  BY <4>1, <3>1, <1>2, <1>10, <1>11
      <4>2. CASE pc # "lost"
        <5>1. IsDeferred(TheJob)  BY <4>2, <3>1, <1>9
        <5>2. TheJob.slot = "engine"  BY <5>1, <1>2 DEF IsDeferred, Lends
        <5>3. WaitsAt # "engine"  BY <5>1, <2>2, EngineWaits DEF IsDeferred
        <5> QED  BY <5>2, <5>3
      <4> QED  BY <4>1, <4>2
    <3> QED  BY <1>4, <1>7, <1>12, <2>2, <3>1, <3>2 DEF IsOwn
  <2>3. ASSUME pending # None
        PROVE  \/ queue' # <<>> /\ IsDeferred(queue'[1]) /\ slot'["engine"] = None
               \/ slot'["engine"] # None /\ slot'["engine"].tag = pending /\ slot'["engine"].lent
    <3>1. pc # "lost"  BY <2>3 DEF Mail, BufferPart, Running, Driving
    <3>2. CASE IsDeferred(TheJob)
      <4>1. TheJob.slot = "engine" /\ TheJob.op \in Lends  BY <3>2, <1>2 DEF IsDeferred, Lends
      <4> QED  BY <4>1, <3>2, <1>3, <1>4 DEF IsDeferred
    <3>3. CASE IsOwn(TheJob) /\ ~IsDeferred(TheJob)
      <4>1. TheJob.slot = WaitsAt /\ WaitsAt # "engine"
        BY <1>1, <2>3, <3>3, OwnSlot, EngineWaits DEF Mail, MailTypes, IsOwn
      <4>2. slot["engine"] # None /\ slot["engine"].tag = pending /\ slot["engine"].lent
        BY <1>1, <2>3, <3>3 DEF Mail, WaitPart
      <4> QED  BY <4>1, <4>2, <1>4, <1>5
    <3> QED  BY <1>8, <3>1, <3>2, <3>3
  <2>4. ASSUME slot'["teardown"] # None PROVE pc = "lost" /\ queue' = <<>>
    <3>1. TheJob.slot = "teardown"  BY <2>4, <1>4, <1>5 DEF Mail, WaitPart
    <3>2. pc = "lost"
      <4>1. TheJob.op = "LinkLost"  BY <3>1, <1>2
      <4>2. Waits /\ pc # "lost" => OwnOp # "LinkLost"
        BY DEF Waits, Quiet, OwnOp, Mail, MailTypes, Running, Driving, Outside
      <4> QED  BY <4>1, <4>2, <1>8 DEF IsOwn, IsDeferred
    <3>3. Len(queue) = 1  BY <3>1, <3>2, <1>1, <1>2, <1>10
    <3> QED  BY <3>2, <3>3, <1>1
  <2> QED  BY <1>6, <2>1, <2>2, <2>3, <2>4 DEF WaitPart, IsOwn, IsDeferred
<1>17. BufferPart'
  <2>1. \A i \in 1 .. Len(queue') : i + 1 \in 1 .. Len(queue) /\ (LentJob(i)' <=> LentJob(i + 1))
    BY <1>1 DEF LentJob
  <2>2. 1 \in 1 .. Len(queue) /\ (LentJob(1) <=> TheJob.op \in Lends)
    BY <1>1 DEF LentJob
  <2>3. \A i \in 1 .. Len(queue) : LentJob(i) /\ i # 1 => i - 1 \in 1 .. Len(queue') /\ LentJob(i - 1)'
    BY <1>1 DEF LentJob
  <2>4. CASE TheJob.op \in Lends
    <3>1. LentSlot' /\ slot'["engine"].lent  BY <1>2, <1>3, <1>4, <2>4 DEF LentSlot
    <3>2. ~lane /\ \A i \in 1 .. Len(queue) : LentJob(i) => i = 1
      BY <2>2, <2>4 DEF Mail, BufferPart
    <3>3. \A i \in 1 .. Len(queue') : ~LentJob(i)'
      <4>1. \A i \in 1 .. Len(queue') : i + 1 # 1  BY <1>1
      <4> QED  BY <2>1, <3>2, <4>1
    <3> QED  BY <3>1, <3>2, <3>3 DEF Mail, BufferPart
  <2>5. CASE TheJob.op = "LinkUp"
    <3>1. TheJob.op \notin Lends  BY <2>5 DEF Lends
    <3>2. pc = "linkup" /\ Len(queue) = 1
      <4>1. pc # "lost" /\ OwnOp = "LinkUp" => pc = "linkup"
        BY DEF OwnOp
      <4>2. pc # "lost"  BY <2>5, <1>1, <1>10, <1>11, <1>12 DEF IsOwn
      <4>3. ~IsDeferred(TheJob)  BY <2>5 DEF IsDeferred
      <4> QED  BY <4>1, <4>2, <4>3, <1>1, <1>8, <1>9, <2>5 DEF IsOwn
    <3>3. ~LentSlot' /\ ~slot'["engine"].lent  BY <1>2, <1>3, <1>4, <2>5, <3>1 DEF LentSlot
    <3>4. lane
      <4>1. pc \notin {"lost", "join", "down", "reclaim"} /\ pc \notin LaneWaits /\ pc \notin Running
        BY <3>2 DEF LaneWaits, Running, Driving
      <4> QED  BY <4>1 DEF Mail, BufferPart
    <3>5. \A i \in 1 .. Len(queue') : FALSE  BY <1>1, <3>2
    <3> QED  BY <3>2, <3>3, <3>4, <3>5 DEF Mail, BufferPart
  <2>6. CASE TheJob.op \notin Lends \cup {"LinkUp"}
    <3>1. slot'["engine"] = slot["engine"] /\ LentSlot' = LentSlot
      BY <1>2, <1>4, <1>5, <2>6 DEF LentSlot
    <3>2. \A i \in 1 .. Len(queue) : LentJob(i) => i # 1  BY <2>2, <2>6
    <3>3. \A i, j \in 1 .. Len(queue') : LentJob(i)' /\ LentJob(j)' => i = j
      <4>1. \A i, j \in 1 .. Len(queue') : i + 1 = j + 1 => i = j  BY <1>1
      <4> QED  BY <4>1, <2>1 DEF Mail, BufferPart
    <3>4. \A i \in 1 .. Len(queue') : LentJob(i)' => ~lane /\ ~LentSlot
      BY <2>1 DEF Mail, BufferPart
    <3>5. lane \/ LentSlot \/ \E i \in 1 .. Len(queue') : LentJob(i)'
      BY <2>3, <3>2 DEF Mail, BufferPart
    <3> QED  BY <3>1, <3>3, <3>4, <3>5 DEF Mail, BufferPart
  <2> QED  BY <2>4, <2>5, <2>6
<1> QED  BY <1>14, <1>15, <1>16, <1>17 DEF Mail

-----------------------------------------------------------------------------
(* Every action keeps Mail. *)

\* The record at the head of its stream.
LEMMA Heads ==
    ASSUME ClientPart
    PROVE  /\ stream # <<>> => Frame \in Record /\ Frame.put \in Puts
           /\ control # <<>> => Head(control) \in Ask
<1>1. stream # <<>> => Frame \in Record  BY TailFacts DEF ClientPart, Frame
<1>2. control # <<>> => Head(control) \in Ask  BY TailFacts DEF ClientPart
<1> QED  BY <1>1, <1>2 DEF Record

\* What a full bank, or the last one, is sent with is a record of the upload.
LEMMA BatchIsRecord ==
    ASSUME ClientPart, ArenaPart, stream # <<>>, stage # None, Fits
    PROVE  /\ Batch \in Record /\ Filled \in 1 .. Half /\ Received \in 1 .. Declared
           /\ Frame.put \in Puts /\ Frame.off \in Nat /\ Frame.len \in Nat \ {0}
<1>1. stage \in UsbStage /\ stage.fill <= stage.received  BY DEF ArenaPart
<1>2. Frame \in Record  BY Heads
<1>3. Half \in Nat \ {0} /\ Declared \in Nat \ {0}  BY UsbAssumption
<1>4. /\ stage.put \in Puts /\ stage.received \in Nat /\ stage.fill \in 0 .. Half - 1
      /\ Frame.len \in 1 .. Half /\ Frame.off \in 0 .. Declared - 1 /\ Frame.put \in Puts
  BY <1>1, <1>2, <1>3 DEF UsbStage, Record
<1>5. stage.received + Frame.len <= Declared /\ Frame.len <= Half - stage.fill
  BY DEF Fits
<1>a. Filled = stage.fill + Frame.len /\ Received = stage.received + Frame.len  BY DEF Filled, Received
<1> HIDE DEF Frame, Filled, Received
<1>6. Filled \in 1 .. Half /\ Received \in 1 .. Declared /\ Received - Filled \in 0 .. Declared - 1
  BY <1>1, <1>3, <1>4, <1>5, <1>a, FitsLeft, Zenon
<1> QED  BY <1>4, <1>6 DEF Batch, Record

\* A query or a join goes out.
LEMMA MailOfAsks ==
    ASSUME UsbInvariant,
           \/ OnStream \/ AskMap
           \/ Closes /\ stage # None
           \/ PassEnds /\ pc' = "ended"
           \/ StageEnds /\ stage # None
    PROVE  Mail'
<1> USE DEF UsbInvariant
<1>1. CASE OnStream
  <2>1. pc \in Quiet /\ pc' = "query" /\ UNCHANGED <<slot, lane, pending>> /\ ticket' = Tag
        /\ queue' = Append(queue, Job("LiveTransfer", "query", 0))
    BY <1>1 DEF OnStream, Call, Send, Job, Lends, Quiet, driver
  <2>2. OwnOp' = "LiveTransfer" /\ WaitsAt' = "query"  BY <2>1 DEF OwnOp, WaitsAt
  <2>3. Fit("LiveTransfer", "query", 0)  BY JobsFit, UsbAssumption
  <2> QED  BY <2>1, <2>2, <2>3, AskStep
<1>2. CASE AskMap
  <2>1. pc \in Quiet /\ pc' = "map" /\ UNCHANGED <<slot, lane, pending>> /\ ticket' = Tag
        /\ queue' = Append(queue, Job("UsbMapUpload", "query", Frame.put))
    BY <1>2 DEF AskMap, AtFrame, Call, Send, Job, Lends, Quiet, driver
  <2>2. OwnOp' = "UsbMapUpload" /\ WaitsAt' = "query"  BY <2>1 DEF OwnOp, WaitsAt
  <2>3. Fit("UsbMapUpload", "query", Frame.put)
    <3>1. stream # <<>>  BY <1>2 DEF AskMap, AtFrame, ClientPart
    <3>2. Frame.put \in 0 .. MaxPut  BY <3>1, Heads, UsbAssumption DEF Puts
    <3> QED  BY <3>2, JobsFit
  <2> QED  BY <2>1, <2>2, <2>3, AskStep
<1>3. CASE Closes /\ stage # None
  <2>1. pc \in Quiet /\ pc' = "quit" /\ UNCHANGED <<slot, lane, pending>> /\ ticket' = Tag
        /\ queue' = Append(queue, Job("FinishUsbStage", "finish", 0))
    BY <1>3 DEF Closes, Call, Send, Job, Lends, Quiet, driver
  <2>2. OwnOp' = "FinishUsbStage" /\ WaitsAt' = "finish"  BY <2>1 DEF OwnOp, WaitsAt
  <2> QED  BY <2>1, <2>2, JobsFit, AskStep
<1>4. CASE PassEnds /\ pc' = "ended"
  <2>1. pc \in Quiet /\ UNCHANGED <<slot, lane, pending>> /\ ticket' = Tag
        /\ queue' = Append(queue, Job("UsbMapUpload", "query", staged))
    BY <1>4 DEF PassEnds, Call, Send, Job, Lends, Quiet, driver
  <2>2. OwnOp' = "UsbMapUpload" /\ WaitsAt' = "query"  BY <1>4 DEF OwnOp, WaitsAt
  <2>3. Fit("UsbMapUpload", "query", staged)  BY JobsFit DEF DriverPart
  <2> QED  BY <1>4, <2>1, <2>2, <2>3, AskStep
<1>5. CASE StageEnds /\ stage # None
  <2>1. pc \in Quiet /\ pc' = "finish" /\ UNCHANGED <<slot, lane, pending>> /\ ticket' = Tag
        /\ queue' = Append(queue, Job("FinishUsbStage", "finish", 0))
    BY <1>5 DEF StageEnds, Call, Send, Job, Lends, Quiet, driver
  <2>2. OwnOp' = "FinishUsbStage" /\ WaitsAt' = "finish"  BY <2>1 DEF OwnOp, WaitsAt
  <2> QED  BY <2>1, <2>2, JobsFit, AskStep
<1> QED  BY <1>1, <1>2, <1>3, <1>4, <1>5

\* The buffer goes out with a record, a batch or a pump.
LEMMA MailOfLends ==
    ASSUME UsbInvariant,
           \/ wait_enabled /\ lane
           \/ OnControl /\ pending = None
           \/ HoldControl \/ ToEngine \/ Sent
           \/ Copy /\ granted /\ BatchDue
    PROVE  Mail'
<1> USE DEF UsbInvariant
<1>1. CASE wait_enabled /\ lane
  <2>1. pc = "down" /\ pc' = "pump0" /\ UNCHANGED <<slot, pending>> /\ ticket' = Tag /\ lane' = FALSE
        /\ queue' = Append(queue, Job("Pump", "engine", 0))
    BY <1>1 DEF wait_enabled, rest0, driver, Call, Send, Job, Lends
  <2>2. OwnOp' = "Pump"  BY <2>1 DEF OwnOp
  <2> QED  BY <1>1, <2>1, <2>2, JobsFit, LendStep
<1>2. CASE OnControl /\ pending = None
  <2>1. pc = "idle" /\ pc' = "control" /\ UNCHANGED <<slot, pending>> /\ ticket' = Tag /\ lane' = FALSE
        /\ queue' = Append(queue, Job("Control", "engine", Head(control))) /\ lane
    BY <1>2 DEF OnControl, LaneCall, Call, Send, Job, Lends
  <2>2. OwnOp' = "Control" /\ pc \in Quiet  BY <2>1 DEF OwnOp, Quiet
  <2>3. Fit("Control", "engine", Head(control))  BY <1>2, Heads, JobsFit DEF OnControl
  <2> QED  BY <2>1, <2>2, <2>3, LendStep
<1>3. CASE HoldControl
  <2>1. pc = "hold" /\ pc' = "holdC" /\ UNCHANGED <<slot, pending>> /\ ticket' = Tag /\ lane' = FALSE
        /\ queue' = Append(queue, Job("Control", "engine", Head(control))) /\ lane
    BY <1>3 DEF HoldControl, LaneCall, Call, Send, Job, Lends, driver
  <2>2. OwnOp' = "Control" /\ pc \in Quiet  BY <2>1 DEF OwnOp, Quiet
  <2>3. Fit("Control", "engine", Head(control))  BY <1>3, Heads, JobsFit DEF HoldControl
  <2> QED  BY <2>1, <2>2, <2>3, LendStep
<1>4. CASE ToEngine
  <2>1. pc \in Quiet /\ pc' = "stream" /\ UNCHANGED <<slot, pending>> /\ ticket' = Tag /\ lane' = FALSE
        /\ queue' = Append(queue, Job("Stream", "engine", Frame)) /\ lane
    BY <1>4 DEF ToEngine, Ready, AtCopy, AtFrame, Quiet, LaneCall, Call, Send, Job, Lends, driver
  <2>2. OwnOp' = "Stream"  BY <2>1 DEF OwnOp
  <2>3. Fit("Stream", "engine", Frame)
    BY <1>4, Heads, JobsFit DEF ToEngine, Ready, AtCopy, AtFrame, ClientPart
  <2> QED  BY <2>1, <2>2, <2>3, LendStep, Zenon DEF Quiet
<1>5. CASE Sent
  <2>1. CASE control # <<>>
    <3>1. pc = "send" /\ pc' = "pumpC" /\ UNCHANGED <<slot, pending>> /\ ticket' = Tag /\ lane' = FALSE
          /\ queue' = Append(queue, Job("Control", "engine", Head(control))) /\ lane
      BY <1>5, <2>1 DEF Sent, LaneCall, Call, Send, Job, Lends, driver
    <3>2. OwnOp' = "Control" /\ pc \in Quiet  BY <3>1 DEF OwnOp, Quiet
    <3>3. Fit("Control", "engine", Head(control))  BY <2>1, Heads, JobsFit
    <3> QED  BY <3>1, <3>2, <3>3, LendStep
  <2>2. CASE control = <<>>
    <3>1. pc = "send" /\ pc' = "pump" /\ UNCHANGED <<slot, pending>> /\ ticket' = Tag /\ lane' = FALSE
          /\ queue' = Append(queue, Job("Pump", "engine", 0)) /\ lane
      BY <1>5, <2>2 DEF Sent, LaneCall, Call, Send, Job, Lends, driver
    <3>2. OwnOp' = "Pump" /\ pc \in Quiet  BY <3>1 DEF OwnOp, Quiet
    <3> QED  BY <3>1, <3>2, JobsFit, LendStep
  <2> QED  BY <2>1, <2>2
<1>6. CASE Copy /\ granted /\ BatchDue
  <2>1. pc \in Quiet /\ UNCHANGED slot /\ lane' = FALSE /\ lane
        /\ queue' = Append(queue, Job("Batch", "engine", Batch))
    BY <1>6 DEF Copy, Ready, AtCopy, AtFrame, Quiet, Send, Job, Lends
  <2>2. Fit("Batch", "engine", Batch)
    BY <1>6, BatchIsRecord, JobsFit DEF Copy, Ready, AtCopy, AtFrame, ClientPart
  <2>3. CASE Received >= Declared
    <3>1. pc' = "batch" /\ ticket' = Tag /\ UNCHANGED pending  BY <1>6, <2>3 DEF Copy
    <3>2. OwnOp' = "Batch" /\ pc # "down"  BY <2>1, <3>1 DEF OwnOp, Quiet
    <3> QED  BY <2>1, <2>2, <3>1, <3>2, LendStep
  <2>4. CASE ~(Received >= Declared)
    <3>1. pc' = "react" /\ ticket' = 0 /\ pending' = Tag  BY <1>6, <2>4 DEF Copy
    <3> QED  BY <2>1, <2>2, <3>1, DeferStep
  <2> QED  BY <2>3, <2>4
<1> QED  BY <1>1, <1>2, <1>3, <1>4, <1>5, <1>6

\* Nothing goes out and nothing comes.
LEMMA MailOfQuiet ==
    ASSUME UsbInvariant,
           \/ wait_enabled /\ ~lane
           \/ HoldExpires \/ Granted \/ GrantExpires \/ Foreign \/ PumpSend
           \/ Copy /\ ~(granted /\ BatchDue)
           \/ PassEnds /\ pc' # "ended"
           \/ StageEnds /\ stage = None
    PROVE  Mail'
<1> USE DEF UsbInvariant
<1>1. CASE wait_enabled /\ ~lane
  BY <1>1, QuietStep DEF wait_enabled, rest0, driver, Mail, MailTypes
<1>2. CASE HoldExpires
  BY <1>2, QuietStep DEF HoldExpires, driver, Quiet, Mail, MailTypes
<1>3. CASE Granted
  BY <1>3, QuietStep DEF Granted, Quiet, Mail, MailTypes
<1>4. CASE GrantExpires
  BY <1>4, QuietStep DEF GrantExpires, driver, Quiet, Mail, MailTypes
<1>5. CASE Foreign
  BY <1>5, QuietStep DEF Foreign, Ready, AtCopy, AtFrame, Quiet
<1>6. CASE PumpSend
  BY <1>6, QuietStep DEF PumpSend, Quiet, Mail, MailTypes
<1>7. CASE Copy /\ ~(granted /\ BatchDue)
  BY <1>7, QuietStep DEF Copy, Ready, AtCopy, AtFrame, Quiet
<1>8. CASE PassEnds /\ pc' # "ended"
  BY <1>8, QuietStep DEF PassEnds, Call, Quiet, Mail, MailTypes
<1>9. CASE StageEnds /\ stage = None
  BY <1>9, QuietStep DEF StageEnds, Quiet, Mail, MailTypes
<1> QED  BY <1>1, <1>2, <1>3, <1>4, <1>5, <1>6, <1>7, <1>8, <1>9

\* An answer is taken by the one who waits for it.
LEMMA MailOfAnswers ==
    ASSUME UsbInvariant,
           \/ Observed \/ Asked \/ Finished \/ Joined
           \/ Ended /\ pc' # "collectE"
           \/ control_record \/ CollectedS \/ Streamed \/ BatchDone \/ Pumped \/ CollectedE
           \/ CollectedC /\ pc' # "control"
           \/ Serving
    PROVE  Mail'
<1> USE DEF UsbInvariant
<1>1. CASE Observed
  <2>1. WaitsAt = "query"  BY <1>1 DEF Observed, WaitsAt
  <2> QED  BY <1>1, <2>1, HeardStep DEF Observed, Answered, Take, Quiet
<1>2. CASE Asked
  <2>1. WaitsAt = "query"  BY <1>2 DEF Asked, WaitsAt
  <2> QED  BY <1>2, <2>1, HeardStep DEF Asked, Answered, Take, Quiet
<1>3. CASE Finished
  <2>1. WaitsAt = "finish"  BY <1>3 DEF Finished, WaitsAt
  <2> QED  BY <1>3, <2>1, HeardStep DEF Finished, Answered, Take, Quiet
<1>4. CASE Joined
  <2>1. WaitsAt = "finish"  BY <1>4 DEF Joined, WaitsAt
  <2> QED  BY <1>4, <2>1, HeardStep DEF Joined, Answered, Take, Quiet, driver
<1>5. CASE Ended /\ pc' # "collectE"
  <2>1. WaitsAt = "query"  BY <1>5 DEF Ended, WaitsAt
  <2> QED  BY <1>5, <2>1, HeardStep DEF Ended, Answered, Take, Quiet
<1>6. CASE control_record
  BY <1>6, LaneBackStep DEF control_record, TakeLane, Answered, Take, Quiet, LaneWaits
<1>7. CASE CollectedS
  BY <1>7, LaneBackStep DEF CollectedS, TakeLane, Answered, Take, Quiet, LaneWaits
<1>8. CASE Streamed
  BY <1>8, LaneBackStep DEF Streamed, TakeLane, Answered, Take, Quiet, LaneWaits
<1>9. CASE BatchDone
  BY <1>9, LaneBackStep DEF BatchDone, TakeLane, Answered, Take, Quiet, LaneWaits
<1>10. CASE Pumped
  BY <1>10, LaneBackStep DEF Pumped, TakeLane, Answered, Take, Quiet, LaneWaits
<1>11. CASE CollectedE
  BY <1>11, LaneBackStep DEF CollectedE, TakeLane, Answered, Take, Quiet, LaneWaits
<1>12. CASE CollectedC /\ pc' # "control"
  BY <1>12, LaneBackStep DEF CollectedC, Answered, Take, Quiet, LaneWaits
<1>13. CASE Serving
  BY <1>13, ServingStep DEF Serving, Answered, Take, rest0, driver
<1> QED  BY <1>1, <1>2, <1>3, <1>4, <1>5, <1>6, <1>7, <1>8, <1>9, <1>10, <1>11, <1>12, <1>13

\* The answer of the deferred batch is waited for; an answer's buffer goes into the next call.
LEMMA MailOfCollects ==
    ASSUME UsbInvariant,
           \/ OnControl /\ pending # None
           \/ CollectS
           \/ Ended /\ pc' = "collectE"
           \/ CollectedC /\ pc' = "control"
           \/ LinkUp \/ reclaim
    PROVE  Mail'
<1> USE DEF UsbInvariant
<1>1. CASE OnControl /\ pending # None
  BY <1>1, CollectStep DEF OnControl, Quiet
<1>2. CASE CollectS
  BY <1>2, CollectStep DEF CollectS, AtCopy, AtFrame, Quiet
<1>3. CASE Ended /\ pc' = "collectE"
  <2>1. WaitsAt = "query"  BY <1>3 DEF Ended, WaitsAt
  <2> QED  BY <1>3, <2>1, CollectStep DEF Ended, Answered, Take
<1>4. CASE CollectedC /\ pc' = "control"
  <2>1. OwnOp' = "Control"  BY <1>4 DEF OwnOp
  <2>2. control # <<>>  BY <1>4 DEF CollectedC, ClientPart
  <2>3. Fit("Control", "engine", Head(control))  BY <2>2, Heads, JobsFit
  <2>4. /\ slot["engine"] # None /\ slot["engine"].tag = ticket /\ pc = "collectC"
        /\ slot' = [slot EXCEPT !["engine"] = None]
        /\ queue' = Append(queue, Job("Control", "engine", Head(control)))
        /\ ticket' = Tag /\ UNCHANGED <<lane, pending>>
    BY <1>4 DEF CollectedC, Answered, Take
  <2> QED  BY <1>4, <2>1, <2>3, <2>4, AgainStep
<1>5. CASE LinkUp
  <2>1. /\ slot["engine"] # None /\ slot["engine"].tag = ticket /\ pc = "pump0" /\ pc' = "linkup"
        /\ slot' = [slot EXCEPT !["engine"] = None] /\ lane' = TRUE
        /\ queue' = Append(queue, Job("LinkUp", "engine", 0))
        /\ ticket' = Tag /\ UNCHANGED pending
    BY <1>5 DEF LinkUp, TakeLane, Answered, Take, rest0, driver
  <2>2. OwnOp' = "LinkUp"  BY <2>1 DEF OwnOp
  <2> QED  BY <2>1, <2>2, JobsFit, AgainStep
<1>6. CASE reclaim
  <2>1. /\ slot["engine"] # None /\ pc = "reclaim" /\ pc' = "pump0"
        /\ slot' = [slot EXCEPT !["engine"] = None] /\ lane' = lane
        /\ queue' = Append(queue, Job("Pump", "engine", 0))
        /\ ticket' = Tag /\ UNCHANGED pending
    BY <1>6 DEF reclaim, Take, rest0, driver
  <2>2. OwnOp' = "Pump"  BY <2>1 DEF OwnOp
  <2> QED  BY <2>1, <2>2, JobsFit, AgainStep
<1> QED  BY <1>1, <1>2, <1>3, <1>4, <1>5, <1>6

\* The driver ends, and what it owned is given up step by step.
LEMMA MailOfLoss ==
    ASSUME UsbInvariant,
           \/ HoldNoLane \/ DropDriver \/ BadRecord \/ Quits \/ Lost
           \/ Closes /\ stage = None
           \/ \E s \in Slots : Discard(s)
    PROVE  Mail'
<1> USE DEF UsbInvariant
<1>1. Teardown => /\ pc' = "lost" /\ queue' = Append(queue, Job("LinkLost", "teardown", 0))
                  /\ ticket' = Tag /\ pending' = None /\ lane' = lane
  BY DEF Teardown, Call, Send, Job, Lends, TeardownSlot
<1>2. CASE HoldNoLane
  BY <1>1, <1>2, LossStep DEF HoldNoLane, Running, Driving
<1>3. CASE DropDriver
  BY <1>1, <1>3, LossStep DEF DropDriver, Running
<1>4. CASE BadRecord
  BY <1>1, <1>4, LossStep DEF BadRecord, Running
<1>5. CASE Quits
  BY <1>1, <1>5, LossStep DEF Quits, Take, Running, Driving
<1>6. CASE Lost
  BY <1>6, LostStep DEF Lost, TeardownSlot, Answered, Take, Call, Send, Job, Lends, driver
<1>7. CASE Closes /\ stage = None
  BY <1>1, <1>7, LossStep DEF Closes, Running, Driving
<1>8. CASE \E s \in Slots : Discard(s)
  <2>1. PICK s \in Slots : Discard(s)  BY <1>8
  <2>2. Waits
    BY <2>1, NoneAssumption DEF Discard, Waits, WaitsAt, TeardownSlot, Quiet
  <2> QED  BY <2>1, <2>2, DiscardStep DEF Discard, Take, driver
<1> QED  BY <1>2, <1>3, <1>4, <1>5, <1>6, <1>7, <1>8

-----------------------------------------------------------------------------
(* The storage task. *)

\* What the first job carries.
LEMMA JobCarries ==
    ASSUME Mail, queue # <<>>
    PROVE  /\ TheJob \in JobType /\ TheJob = queue[1] /\ Len(queue) \in Nat \ {0} /\ 1 \in 1 .. Len(queue)
           /\ TheJob.op = "Control" => TheJob.arg \in Ask
           /\ TheJob.op \in {"Stream", "Batch"} => TheJob.arg \in Record
<1>1. TheJob \in JobType /\ TheJob = queue[1] /\ Len(queue) \in Nat \ {0}
  BY TailFacts DEF Mail, MailTypes, TheJob
<1> HIDE DEF TheJob
<1>2. /\ TheJob.op = "Control" => TheJob.arg \in Ask
      /\ TheJob.op \in {"Stream", "Batch"} => TheJob.arg \in Record
  BY <1>1 DEF JobType, EngineJob, QueryJob, OtherJob
<1> QED  BY <1>1, <1>2

\* A job that lends the buffer is answered with a reaction, any other with a truth or a PUT.
LEMMA MailOfReply ==
    ASSUME Mail, queue # <<>>, NEW value, Reply(value), UNCHANGED taskKeeps,
           \/ TheJob.op \in Lends /\ value \in Reaction
           \/ TheJob.op \notin Lends /\ value \in BOOLEAN
           \/ TheJob.op \notin Lends /\ value \in 0 .. MaxPut
    PROVE  Mail'
<1>1. TheJob.tag \in 1 .. 8  BY JobCarries, JobSlots DEF Tags
<1>2. [tag |-> TheJob.tag, lent |-> TheJob.op \in Lends, value |-> value] \in Answer
  <2> HIDE DEF TheJob
  <2>1. CASE TheJob.op \in Lends
    <3>1. (TheJob.op \in Lends) = TRUE  BY <2>1
    <3>2. value \in Reaction  BY <2>1
    <3> QED  BY <1>1, <3>1, <3>2, Zenon DEF Answer
  <2>2. CASE TheJob.op \notin Lends
    <3>1. (TheJob.op \in Lends) = FALSE  BY <2>2
    <3>2. value \in BOOLEAN \/ value \in 0 .. MaxPut  BY <2>2
    <3> QED  BY <1>1, <3>1, <3>2, Zenon DEF Answer
  <2> QED  BY <2>1, <2>2
<1>3. UNCHANGED <<pc, ticket, lane, pending>>  BY DEF taskKeeps, driver
<1>4. /\ queue' = Tail(queue)
      /\ slot' = [slot EXCEPT ![TheJob.slot] =
                    [tag |-> TheJob.tag, lent |-> TheJob.op \in Lends, value |-> value]]
  BY DEF Reply
<1> QED  BY <1>2, <1>3, <1>4, ServeStep

\* The client's and the driver's records are not the storage task's.
LEMMA OthersKept ==
    ASSUME ClientPart, DriverPart, owed' \in 0 .. MaxPut, UNCHANGED <<client, driver, pc>>
    PROVE  ClientPart' /\ DriverPart'
  BY DEF ClientPart, DriverPart, client, driver

\* The card starts to write a bank only for a batch, and a join is answered when it does not write.
LEMMA ArenaServed ==
    ASSUME Mail, ArenaPart, queue # <<>>, queue' = Tail(queue),
           UNCHANGED <<pc, stage, staged, wants, granted>>,
           dma' # None => dma # None \/ TheJob.op = "Batch",
           TheJob.op = "FinishUsbStage" => dma' = None
    PROVE  ArenaPart'
<1>1. /\ TheJob = queue[1] /\ Len(queue) \in Nat \ {0} /\ Len(queue') = Len(queue) - 1
      /\ \A i \in 1 .. Len(queue) - 1 : queue'[i] = queue[i + 1]
      /\ queue' = <<>> <=> Len(queue) = 1
  BY TailFacts DEF Mail, MailTypes, TheJob
<1> HIDE DEF TheJob
<1>2. BatchQueued' => BatchQueued
  <2>1. \A i \in 1 .. Len(queue') : i + 1 \in 1 .. Len(queue) /\ queue'[i] = queue[i + 1]
    BY <1>1
  <2> QED  BY <2>1 DEF BatchQueued
<1>3. TheJob.op = "Batch" => BatchQueued
  <2>1. 1 \in 1 .. Len(queue)  BY <1>1
  <2> QED  BY <1>1, <2>1 DEF BatchQueued
<1>4. ASSUME pc \in {"finish", "quit", "join"}, queue' = <<>> PROVE dma' = None
  <2>1. Waits /\ OwnOp = "FinishUsbStage"  BY <1>4 DEF Waits, Quiet, OwnOp
  <2>2. IsOwn(TheJob)  BY <1>1, <1>4, <2>1 DEF Mail, WaitPart
  <2> QED  BY <2>1, <2>2 DEF IsOwn
<1> QED  BY <1>2, <1>3, <1>4 DEF ArenaPart

\* finish_write_blocks adds what the card was still writing to what the reservation holds.
LEMMA LandedFacts ==
    ASSUME CardPart
    PROVE  /\ Landed \in Seq(Cell \cup {None})
           /\ Len(Landed) = Len(row) + (IF dma = None \/ dma.put = 0 THEN 0 ELSE dma.len)
           /\ Len(Landed) <= Declared
<1>0. Declared \in Nat /\ Half \in Nat /\ Len(row) \in Nat  BY UsbAssumption, LenProperties DEF CardPart
<1>1. CASE dma = None \/ dma.put = 0
  BY <1>0, <1>1 DEF Landed, CardPart
<1>2. CASE ~(dma = None \/ dma.put = 0)
  <2> DEFINE part == [i \in 1 .. dma.len |-> bank[dma.bank][i]]
  <2>1. dma.len \in 1 .. Half /\ dma.bank \in Banks  BY <1>2 DEF CardPart, CardWrite
  <2>2. dma.len \in Nat /\ \A i \in 1 .. dma.len : bank[dma.bank][i] \in Cell \cup {None}
    BY <1>0, <2>1 DEF CardPart
  <2>3. part \in Seq(Cell \cup {None}) /\ Len(part) = dma.len
    BY <2>2
  <2>4. Landed = row \o part  BY <1>2 DEF Landed
  <2> HIDE DEF part
  <2>5. Landed \in Seq(Cell \cup {None}) /\ Len(Landed) = Len(row) + dma.len
    BY <2>3, <2>4, ConcatProperties DEF CardPart
  <2>6. Len(row) + dma.len <= Declared
    <3>1. live # None /\ live.link = "usb"  BY <1>2 DEF CardPart
    <3>2. Len(row) + dma.len = live.received /\ live \in Transfer  BY <1>2, <3>1 DEF CardPart
    <3> QED  BY <1>0, <3>2 DEF Transfer
  <2> QED  BY <1>2, <2>5, <2>6
<1> QED  BY <1>1, <1>2

\* A transfer that is gone has no write in its reservation any more.
LEMMA CardGone ==
    ASSUME CardPart, live' = None, dma' = Orphaned \/ dma' = None, UNCHANGED bank,
           row' \in Seq(Cell \cup {None}), Len(row') <= Declared
    PROVE  CardPart'
<1>1. dma' \in CardWrite \cup {None} /\ (dma' # None => dma'.put = 0)
  <2>1. CASE dma' = None  BY <2>1
  <2>2. CASE dma' # None
    <3>1. dma \in CardWrite /\ dma' = [dma EXCEPT !.put = 0]
      BY <2>2 DEF CardPart, Orphaned
    <3>2. 0 \in 0 .. MaxPut  BY UsbAssumption
    <3> QED  BY <3>1, <3>2 DEF CardWrite
  <2> QED  BY <2>1, <2>2
<1> QED  BY <1>1 DEF CardPart

\* Steps the card has no part in.
LEMMA CardKept ==
    ASSUME CardPart, UNCHANGED <<live, dma, bank, row>> PROVE CardPart'
  BY DEF CardPart

\* on_link_up, on_link_lost and a batch that nothing expects: the cable's transfer is gone.
LEMMA CardOfReset ==
    ASSUME CardPart, live' = (IF live # None /\ live.link = "usb" THEN None ELSE live),
           dma' = (IF live' = live THEN dma ELSE Orphaned), UNCHANGED <<bank, row>>
    PROVE  CardPart'
<1>1. CASE live' = live  BY <1>1, CardKept
<1>2. CASE live' # live
  <2>1. row' \in Seq(Cell \cup {None}) /\ Len(row') <= Declared  BY DEF CardPart
  <2> QED  BY <1>2, <2>1, CardGone
<1> QED  BY <1>1, <1>2

\* The units of a record, or of a bank, behind what is there.
LEMMA MoreCells ==
    ASSUME NEW s \in Seq(Cell \cup {None}), NEW n \in Nat, NEW part \in [1 .. n -> Cell \cup {None}]
    PROVE  s \o part \in Seq(Cell \cup {None}) /\ Len(s \o part) = Len(s) + n
<1>1. part \in Seq(Cell \cup {None}) /\ Len(part) = n  OBVIOUS
<1> QED  BY <1>1, ConcatProperties

\* The reservation of the upload that is live on the cable is filled as far as was received.
LEMMA MineFacts ==
    ASSUME CardPart, NEW n, Mine(n)
    PROVE  /\ live # None /\ live \in Transfer /\ live.link = "usb" /\ live.put = n /\ live.put \in Puts
           /\ live.received \in 0 .. Declared - 1 /\ Len(Landed) = live.received
           /\ Landed \in Seq(Cell \cup {None}) /\ bank[live.bank] \in [1 .. Half -> Cell \cup {None}]
           /\ live.bank \in Banks
<1>1. live # None /\ live.link = "usb" /\ live.put = n /\ live \in Transfer  BY DEF Mine, CardPart
<1>2. Len(Landed) = live.received  BY <1>1, LandedFacts DEF CardPart
<1> QED  BY <1>1, <1>2, LandedFacts DEF CardPart, Transfer

\* A refused upload, and one that was committed.
LEMMA CardOfEnd ==
    ASSUME CardPart, NEW n, Mine(n), UNCHANGED bank,
           \/ \E fits \in BOOLEAN : Fails(fits)
           \/ \E cells \in Seq(Cell \cup {None}) : Len(cells) <= Declared /\ Commit(cells)
    PROVE  CardPart' /\ owed' = owed /\ Reply([re |-> "send", to |-> live.put])
<1>1. CASE \E fits \in BOOLEAN : Fails(fits)
  <2>1. row' \in Seq(Cell \cup {None}) /\ Len(row') <= Declared  BY <1>1 DEF CardPart, Fails
  <2> QED  BY <1>1, <2>1, CardGone DEF Fails, React
<1>2. CASE \E cells \in Seq(Cell \cup {None}) : Len(cells) <= Declared /\ Commit(cells)
  BY <1>2, CardGone DEF Commit, React
<1> QED  BY <1>1, <1>2

\* What is left to show of a job that was answered: the answer, what is owed, and the card.
LEMMA JobServed ==
    ASSUME UsbInvariant, queue # <<>>, UNCHANGED taskKeeps, NEW value, Reply(value),
           \/ TheJob.op \in Lends /\ value \in Reaction
           \/ TheJob.op \notin Lends /\ value \in BOOLEAN
           \/ TheJob.op \notin Lends /\ value \in 0 .. MaxPut,
           owed' \in 0 .. MaxPut, CardPart',
           dma' # None => dma # None \/ TheJob.op = "Batch",
           TheJob.op = "FinishUsbStage" => dma' = None
    PROVE  UsbInvariant'
<1> USE DEF UsbInvariant
<1>1. Mail'  BY MailOfReply
<1>2. UNCHANGED <<client, driver, pc, stage, staged, wants, granted>>  BY DEF taskKeeps, driver
<1>3. ClientPart' /\ DriverPart'  BY <1>2, OthersKept
<1>4. queue' = Tail(queue)  BY DEF Reply
<1>5. ArenaPart'  BY <1>2, <1>4, ArenaServed
<1> QED  BY <1>1, <1>3, <1>5

\* Reactions the engine gives.
LEMMA Reactions ==
    /\ [re |-> "idle", to |-> 0] \in Reaction /\ [re |-> "close", to |-> 0] \in Reaction
    /\ \A n \in 0 .. MaxPut : [re |-> "send", to |-> n] \in Reaction
    /\ 0 \in 0 .. MaxPut /\ Puts \subseteq 0 .. MaxPut /\ Idle \in Reaction
  BY UsbAssumption DEF Reaction, Puts, Idle

\* A dropped write is none the card did not have.
LEMMA OrphanedIsThere == Orphaned # None => dma # None
  BY DEF Orphaned

\* A pump, a join, the link and a query: the upload goes on or is dropped as a whole.
LEMMA ServesSimple ==
    ASSUME UsbInvariant, ServePump \/ ServeFinish \/ ServeLink \/ ServeQuery
    PROVE  UsbInvariant'
<1> USE DEF UsbInvariant
<1>1. CASE ServePump
  <2>1. queue # <<>> /\ TheJob.op \in Lends /\ TheJob.op \notin {"Batch", "FinishUsbStage"} /\ UNCHANGED taskKeeps
        /\ owed' \in 0 .. MaxPut /\ UNCHANGED <<live, dma, row>>
    BY <1>1, Reactions DEF ServePump, Lends, card
  <2>2. CardPart'  BY <2>1, CardKept DEF taskKeeps
  <2>3. \E v \in Reaction : Reply(v)
    BY <1>1, Reactions DEF ServePump, React, DriverPart
  <2> QED  BY <2>1, <2>2, <2>3, JobServed
<1>2. CASE ServeFinish
  <2>1. queue # <<>> /\ TheJob.op \notin Lends /\ UNCHANGED taskKeeps
        /\ owed' \in 0 .. MaxPut /\ dma' = None /\ row' = Landed /\ UNCHANGED live /\ Reply(TRUE)
    BY <1>2 DEF ServeFinish, Lends, engine, DriverPart
  <2>2. CardPart'
    BY <2>1, LandedFacts DEF CardPart, taskKeeps
  <2> QED  BY <2>1, <2>2, JobServed
<1>3. CASE ServeLink
  <2>1. queue # <<>> /\ TheJob.op \notin Lends /\ TheJob.op # "FinishUsbStage" /\ UNCHANGED taskKeeps
        /\ owed' \in 0 .. MaxPut /\ Reply(TRUE) /\ UNCHANGED row
        /\ live' = (IF live # None /\ live.link = "usb" THEN None ELSE live)
        /\ dma' = (IF live' = live THEN dma ELSE Orphaned)
    BY <1>3, Reactions DEF ServeLink, Lends
  <2>2. CardPart'  BY <2>1, CardOfReset DEF taskKeeps
  <2> QED  BY <2>1, <2>2, OrphanedIsThere, JobServed
<1>4. CASE ServeQuery
  <2>1. queue # <<>> /\ TheJob.op \notin Lends /\ TheJob.op # "FinishUsbStage" /\ UNCHANGED taskKeeps
        /\ owed' \in 0 .. MaxPut /\ UNCHANGED <<live, dma, row>>
    BY <1>4 DEF ServeQuery, Lends, engine, card, DriverPart
  <2>2. CardPart'  BY <2>1, CardKept DEF taskKeeps
  <2>3. CASE TheJob.op = "LiveTransfer"
    <3>1. live # None => live.put \in 0 .. MaxPut
      BY Reactions DEF CardPart, Transfer
    <3>2. \E v \in 0 .. MaxPut : Reply(v)
      BY <1>4, <2>3, <3>1, Reactions DEF ServeQuery
    <3> QED  BY <2>1, <2>2, <3>2, JobServed
  <2>4. CASE TheJob.op # "LiveTransfer"
    <3>1. Reply(Mine(TheJob.arg)) /\ Mine(TheJob.arg) \in BOOLEAN
      BY <1>4, <2>4 DEF ServeQuery, Mine
    <3> QED  BY <2>1, <2>2, <3>1, JobServed
  <2> QED  BY <2>3, <2>4
<1> QED  BY <1>1, <1>2, <1>3, <1>4

\* A PUT starts an upload, a CANCEL drops it and owes its answer.
LEMMA ServesControl ==
    ASSUME UsbInvariant, ServeControl PROVE UsbInvariant'
<1> USE DEF UsbInvariant
<1> DEFINE c == TheJob.arg
<1>1. /\ queue # <<>> /\ TheJob.op \in Lends /\ TheJob.op \notin {"Batch", "FinishUsbStage"}
      /\ UNCHANGED taskKeeps /\ UNCHANGED bank /\ c \in Ask
  BY JobCarries DEF ServeControl, Lends, taskKeeps
<1>2. owed \in 0 .. MaxPut  BY DEF DriverPart
<1>3. c.op # "LIST" => c.put \in Puts /\ c.put \in 0 .. MaxPut
  BY <1>1, Reactions DEF Ask
<1>4. ASSUME React("idle", 0) \/ React("send", 0), UNCHANGED <<live, owed, card>> PROVE UsbInvariant'
  <2>1. CardPart'  BY <1>1, <1>4, CardKept DEF card
  <2>2. \E v \in Reaction : Reply(v)  BY <1>4, Reactions DEF React
  <2> QED  BY <1>1, <1>2, <1>4, <2>1, <2>2, JobServed DEF card
<1>5. ASSUME c.op = "PUT", React("send", c.put), UNCHANGED <<live, owed, card>> PROVE UsbInvariant'
  <2>1. CardPart'  BY <1>1, <1>5, CardKept DEF card
  <2>2. \E v \in Reaction : Reply(v)  BY <1>3, <1>5, Reactions DEF React
  <2> QED  BY <1>1, <1>2, <1>5, <2>1, <2>2, JobServed DEF card
<1>6. ASSUME c.op = "PUT", live = None, React("idle", 0), row' = <<>>, dma' = Orphaned,
             live' = [link |-> "usb", put |-> c.put, received |-> 0, bank |-> 0], owed' = owed
      PROVE  UsbInvariant'
  <2>1. live' \in Transfer /\ live' # None /\ live'.put \in Puts /\ live'.received = 0
    BY <1>3, <1>6, UsbAssumption, NoneAssumption DEF Transfer, Banks
  <2>2. dma' \in CardWrite \cup {None} /\ (dma' # None => dma'.put = 0)
    <3>1. CASE dma = None  BY <1>6, <3>1 DEF Orphaned
    <3>2. CASE dma # None
      <4>1. dma \in CardWrite /\ dma' = [dma EXCEPT !.put = 0]  BY <1>6, <3>2 DEF CardPart, Orphaned
      <4> QED  BY <4>1, Reactions DEF CardWrite
    <3> QED  BY <3>1, <3>2
  <2>3. row' \in Seq(Cell \cup {None}) /\ Len(row') = 0 /\ 0 <= Declared
    BY <1>6, EmptySeq, UsbAssumption
  <2>4. CardPart'  BY <1>1, <2>1, <2>2, <2>3 DEF CardPart
  <2>5. \E v \in Reaction : Reply(v)  BY <1>6, Reactions DEF React
  <2> QED  BY <1>1, <1>2, <1>6, <2>4, <2>5, OrphanedIsThere, JobServed
<1>7. ASSUME c.op = "CANCEL", React("send", 0),
             IF Mine(c.put) THEN live' = None /\ owed' = c.put /\ dma' = Orphaned
                            ELSE UNCHANGED <<live, owed, dma>>,
             UNCHANGED <<row, published>>
      PROVE  UsbInvariant'
  <2>1. \E v \in Reaction : Reply(v)  BY <1>7, Reactions DEF React
  <2>2. CASE Mine(c.put)
    <3>1. row' \in Seq(Cell \cup {None}) /\ Len(row') <= Declared  BY <1>7 DEF CardPart
    <3>2. CardPart'  BY <1>1, <1>7, <2>2, <3>1, CardGone
    <3> QED  BY <1>1, <1>3, <1>7, <2>1, <2>2, <3>2, OrphanedIsThere, JobServed
  <2>3. CASE ~Mine(c.put)
    <3>1. CardPart'  BY <1>1, <1>7, <2>3, CardKept
    <3> QED  BY <1>1, <1>2, <1>7, <2>1, <2>3, <3>1, JobServed
  <2> QED  BY <2>2, <2>3
<1> QED  BY <1>4, <1>5, <1>6, <1>7 DEF ServeControl

\* on_stream: the units of the record follow what has landed.
LEMMA ServesStream ==
    ASSUME UsbInvariant, ServeStream PROVE UsbInvariant'
<1> USE DEF UsbInvariant
<1> DEFINE f     == TheJob.arg
           fits  == f.off = live.received /\ f.off + f.len <= Declared
           part  == [i \in 1 .. f.len |-> <<f.put, f.off + i - 1>>]
           cells == Landed \o part
<1>1. /\ queue # <<>> /\ TheJob.op \in Lends /\ TheJob.op \notin {"Batch", "FinishUsbStage"}
      /\ UNCHANGED taskKeeps /\ UNCHANGED bank /\ f \in Record
  BY JobCarries DEF ServeStream, Lends, taskKeeps
<1>2. owed \in 0 .. MaxPut /\ Declared \in Nat /\ Half \in Nat  BY UsbAssumption DEF DriverPart
<1>3. f.put \in Puts /\ f.off \in 0 .. Declared - 1 /\ f.len \in 1 .. Half /\ f.len \in Nat
  BY <1>1, <1>2 DEF Record
<1>4. ASSUME Mine(f.put), fits
      PROVE  /\ cells \in Seq(Cell \cup {None}) /\ Len(cells) = live.received + f.len
             /\ Len(cells) <= Declared
  <2>1. Landed \in Seq(Cell \cup {None}) /\ Len(Landed) = live.received /\ live.received \in Nat
    BY <1>2, <1>4, MineFacts
  <2>2. part \in [1 .. f.len -> Cell \cup {None}]
    <3>1. \A i \in 1 .. f.len : f.off + i - 1 \in 0 .. Declared - 1
      BY <1>2, <1>3, <1>4
    <3> QED  BY <1>3, <3>1 DEF Cell
  <2> HIDE DEF part
  <2>3. cells \in Seq(Cell \cup {None}) /\ Len(cells) = live.received + f.len
    BY <1>3, <2>1, <2>2, MoreCells
  <2> QED  BY <1>4, <2>3
<1> HIDE DEF part
<1>5. ASSUME React("idle", 0), UNCHANGED <<engine, card>> PROVE UsbInvariant'
  <2>1. CardPart'  BY <1>1, <1>5, CardKept DEF card, engine
  <2>2. \E v \in Reaction : Reply(v)  BY <1>5, Reactions DEF React
  <2> QED  BY <1>1, <1>2, <1>5, <2>1, <2>2, JobServed DEF card, engine
<1>6. ASSUME Mine(f.put), \/ Fails(fits)
                          \/ fits /\ Commit(cells)
      PROVE  UsbInvariant'
  <2>1. fits \in BOOLEAN  OBVIOUS
  <2> HIDE DEF fits
  <2>2. fits => cells \in Seq(Cell \cup {None}) /\ Len(cells) <= Declared  BY <1>4, <1>6
  <2> HIDE DEF cells
  <2>3. CardPart' /\ owed' = owed /\ Reply([re |-> "send", to |-> live.put])
    BY <1>1, <1>6, <2>1, <2>2, CardOfEnd
  <2>4. [re |-> "send", to |-> live.put] \in Reaction  BY <1>6, MineFacts, Reactions
  <2>5. dma' # None => dma # None  BY <1>6, OrphanedIsThere DEF Fails, Commit
  <2> QED  BY <1>1, <1>2, <2>3, <2>4, <2>5, JobServed
<1>7. ASSUME Mine(f.put), fits, f.off + f.len < Declared, React("idle", 0),
             live' = [live EXCEPT !.received = @ + f.len], row' = cells, dma' = None, owed' = owed
      PROVE  UsbInvariant'
  <2>1. cells \in Seq(Cell \cup {None}) /\ Len(cells) = live.received + f.len /\ Len(cells) <= Declared
    BY <1>4, <1>7
  <2>2. live \in Transfer /\ live # None  BY <1>7, MineFacts
  <2>3. live.received + f.len \in 0 .. Declared - 1  BY <1>2, <1>3, <1>7
  <2>4. live' \in Transfer /\ live'.received = live.received + f.len
    BY <1>7, <2>2, <2>3 DEF Transfer
  <2> HIDE DEF cells
  <2>5. live' # None  BY <2>4, NoneAssumption
  <2>6. CardPart'  BY <1>1, <1>7, <2>1, <2>4, <2>5 DEF CardPart
  <2>7. \E v \in Reaction : Reply(v)  BY <1>7, Reactions DEF React
  <2> QED  BY <1>1, <1>2, <1>7, <2>6, <2>7, JobServed
<1> QED  BY <1>5, <1>6, <1>7 DEF ServeStream, part

\* on_usb_map_batch: the units of the other bank land before the write of this one starts.
LEMMA ServesBatch ==
    ASSUME UsbInvariant, ServeBatch PROVE UsbInvariant'
<1> USE DEF UsbInvariant
<1> DEFINE b     == TheJob.arg
           fits  == b.off = live.received /\ b.off + b.len <= Declared
           start == [bank |-> live.bank, len |-> b.len, put |-> b.put]
           part  == [i \in 1 .. b.len |-> bank[live.bank][i]]
           cells == Landed \o part
<1>1. /\ queue # <<>> /\ TheJob.op \in Lends /\ TheJob.op = "Batch"
      /\ UNCHANGED taskKeeps /\ UNCHANGED bank /\ b \in Record
  BY JobCarries DEF ServeBatch, Lends, taskKeeps
<1>2. owed \in 0 .. MaxPut /\ Declared \in Nat /\ Half \in Nat  BY UsbAssumption DEF DriverPart
<1>3. /\ b.put \in Puts /\ b.off \in 0 .. Declared - 1 /\ b.len \in 1 .. Half /\ b.len \in Nat
      /\ b.put \in 0 .. MaxPut
  <2>1. /\ b.put \in Puts /\ b.off \in 0 .. Declared - 1 /\ b.len \in 1 .. Half /\ b.len \in Nat
    BY <1>1, <1>2 DEF Record
  <2> QED  BY <2>1, Reactions
<1>4. ASSUME Mine(b.put), fits
      PROVE  /\ cells \in Seq(Cell \cup {None}) /\ Len(cells) = live.received + b.len
             /\ Len(cells) <= Declared
  <2>1. /\ Landed \in Seq(Cell \cup {None}) /\ Len(Landed) = live.received /\ live.received \in Nat
        /\ bank[live.bank] \in [1 .. Half -> Cell \cup {None}]
    BY <1>2, <1>4, MineFacts
  <2>2. part \in [1 .. b.len -> Cell \cup {None}]
    <3>1. 1 .. b.len \subseteq 1 .. Half  BY <1>2, <1>3
    <3> QED  BY <2>1, <3>1
  <2> HIDE DEF part
  <2>3. cells \in Seq(Cell \cup {None}) /\ Len(cells) = live.received + b.len
    BY <1>3, <2>1, <2>2, MoreCells
  <2> QED  BY <1>4, <2>3
<1> HIDE DEF part
<1>5. ASSUME React("close", 0), owed' = 0, row' = row,
             live' = (IF live # None /\ live.link = "usb" THEN None ELSE live),
             dma' = (IF live' = live THEN dma ELSE Orphaned)
      PROVE  UsbInvariant'
  <2>1. CardPart'  BY <1>1, <1>5, CardOfReset
  <2>2. \E v \in Reaction : Reply(v)  BY <1>5, Reactions DEF React
  <2> QED  BY <1>1, <1>5, <2>1, <2>2, Reactions, JobServed
<1>6. ASSUME React("idle", 0), UNCHANGED <<engine, card>> PROVE UsbInvariant'
  <2>1. CardPart'  BY <1>1, <1>6, CardKept DEF card, engine
  <2>2. \E v \in Reaction : Reply(v)  BY <1>6, Reactions DEF React
  <2> QED  BY <1>1, <1>2, <1>6, <2>1, <2>2, JobServed DEF card, engine
<1>7. ASSUME Mine(b.put), \/ Fails(fits)
                          \/ fits /\ Commit(cells)
      PROVE  UsbInvariant'
  <2>1. fits \in BOOLEAN  OBVIOUS
  <2> HIDE DEF fits
  <2>2. fits => cells \in Seq(Cell \cup {None}) /\ Len(cells) <= Declared  BY <1>4, <1>7
  <2> HIDE DEF cells
  <2>3. CardPart' /\ owed' = owed /\ Reply([re |-> "send", to |-> live.put])
    BY <1>1, <1>7, <2>1, <2>2, CardOfEnd
  <2>4. [re |-> "send", to |-> live.put] \in Reaction  BY <1>7, MineFacts, Reactions
  <2> QED  BY <1>1, <1>2, <2>3, <2>4, JobServed
<1>8. ASSUME Mine(b.put), fits, b.off + b.len < Declared, React("idle", 0), owed' = owed,
             live' = [live EXCEPT !.received = @ + b.len, !.bank = 1 - @], row' = Landed, dma' = start
      PROVE  UsbInvariant'
  <2>1. /\ live \in Transfer /\ live # None /\ live.link = "usb" /\ live.put = b.put /\ live.bank \in Banks
        /\ Landed \in Seq(Cell \cup {None}) /\ Len(Landed) = live.received
        /\ live.received \in 0 .. Declared - 1
    BY <1>8, MineFacts
  <2>2. live.received + b.len \in 0 .. Declared - 1  BY <1>2, <1>3, <1>8
  <2>3. 1 - live.bank \in Banks  BY <2>1 DEF Banks
  <2>4. /\ live' \in Transfer /\ live'.received = live.received + b.len
        /\ live'.link = "usb" /\ live'.put = b.put
    BY <1>8, <2>1, <2>2, <2>3 DEF Transfer
  <2>5. dma' \in CardWrite /\ dma'.put = b.put /\ dma'.len = b.len
    BY <1>3, <1>8, <2>1 DEF CardWrite
  <2>6. live' # None /\ dma' # None /\ b.put # 0
    BY <1>3, <2>4, <2>5, NoneAssumption, UsbAssumption DEF Puts
  <2>7. CardPart'
    <3>1. row' \in Seq(Cell \cup {None}) /\ Len(row') <= Declared  BY <1>2, <1>8, <2>1
    <3>2. Len(row') + dma'.len = live'.received  BY <1>8, <2>1, <2>4, <2>5
    <3> QED  BY <1>1, <2>4, <2>5, <2>6, <3>1, <3>2 DEF CardPart
  <2>8. \E v \in Reaction : Reply(v)  BY <1>8, Reactions DEF React
  <2> QED  BY <1>1, <1>2, <1>8, <2>7, <2>8, JobServed
<1> QED  BY <1>5, <1>6, <1>7, <1>8 DEF ServeBatch, part

-----------------------------------------------------------------------------
(* What the USB task does to the records, to its own state and to the arena. *)

\* A job more in the queue.
LEMMA Appended ==
    ASSUME Mail, NEW job, queue' = Append(queue, job)
    PROVE  queue' # <<>> /\ (BatchQueued' <=> BatchQueued \/ job.op = "Batch")
<1>1. queue \in Seq(JobType \cup {job})
  BY SeqMonotonic DEF Mail, MailTypes
<1>2. /\ queue' # <<>> /\ Len(queue) \in Nat /\ Len(queue') = Len(queue) + 1
      /\ \A i \in 1 .. Len(queue) : queue'[i] = queue[i]
      /\ queue'[Len(queue) + 1] = job
  BY <1>1, AppendFacts
<1>3. \A i \in 1 .. Len(queue') : i \in 1 .. Len(queue) \/ i = Len(queue) + 1
  BY <1>2
<1>4. Len(queue) + 1 \in 1 .. Len(queue') /\ \A i \in 1 .. Len(queue) : i \in 1 .. Len(queue')
  BY <1>2
<1> QED  BY <1>2, <1>3, <1>4 DEF BatchQueued

\* Writer::call and Lane::call queue a job that is no batch.
LEMMA Called ==
    ASSUME Mail, NEW op, NEW s, NEW arg, NEW k, op # "Batch",
           Call(op, s, arg, k) \/ queue' = Append(queue, Job(op, s, arg))
    PROVE  queue' # <<>> /\ (BatchQueued' <=> BatchQueued)
<1>1. queue' = Append(queue, Job(op, s, arg)) /\ Job(op, s, arg).op = op  BY DEF Call, Send, Job
<1> QED  BY <1>1, Appended

\* The answer that brings the buffer back is a reaction.
LEMMA LaneValue ==
    ASSUME Mail, pc \in LaneWaits, Answered("engine") PROVE Value("engine") \in Reaction
<1>1. Waits /\ WaitsAt = "engine" /\ pc \notin {"lost", "join", "down", "reclaim"}
  BY DEF Waits, Quiet, LaneWaits, WaitsAt
<1>2. ~lane  BY <1>1 DEF Mail, BufferPart
<1>3. LentSlot  BY <1>1, <1>2, AnsweredFacts DEF Answered
<1>4. slot["engine"] \in Answer  BY <1>3 DEF LentSlot, Mail, MailTypes, Slots
<1> QED  BY <1>3, <1>4 DEF LentSlot, Answer, Value

\* Steps that leave the stage and the card alone.
LEMMA ArenaKept ==
    ASSUME ArenaPart, UNCHANGED <<stage, staged, wants, granted, dma>>, BatchQueued' => BatchQueued,
           pc \notin {"lost", "join"}, pc' \notin {"grant", "map"}, pc' \in Running \/ pc \notin Running,
           pc' \in {"finish", "quit", "join"} => queue' # <<>>
    PROVE  ArenaPart'
  BY DEF ArenaPart

\* The driver's end gives the stage up, and leaves the arena to the card.
LEMMA ArenaOfLoss ==
    ASSUME ArenaPart, Mail, Teardown, UNCHANGED <<granted, dma>>,
           wants' = wants \/ (dma = None /\ ~BatchQueued)
    PROVE  ArenaPart'
<1>1. pc' = "lost" /\ stage' = None /\ staged' = 0 /\ (BatchQueued' <=> BatchQueued)
  BY Called DEF Teardown, Call
<1> QED  BY <1>1 DEF ArenaPart

\* The client's records end with the cable.
LEMMA ClientOfLoss ==
    ASSUME ClientPart, DriverPart, Teardown, owed' = owed PROVE ClientPart' /\ DriverPart'
<1>1. /\ pc' = "lost" /\ control' = <<>> /\ stream' = <<>> /\ open' = FALSE /\ off' = Declared
      /\ put' = put /\ rx' = Idle /\ ret' = "pass" /\ admitted' = 0 /\ staged' = 0
  BY DEF Teardown, Call
<1>2. Declared \in 0 .. Declared /\ <<>> \in Seq(Ask) /\ <<>> \in Seq(Record)
  BY UsbAssumption, EmptySeq
<1> QED  BY <1>1, <1>2, Reactions DEF ClientPart, DriverPart

\* The USB task writes a bank, and nothing else of what the card and the engine keep.
LEMMA CardOfTask ==
    ASSUME UsbInvariant, UsbTask PROVE CardPart' /\ UNCHANGED <<owed, dma>>
<1> USE DEF UsbInvariant
<1>1. CASE Copy
  <2>1. UNCHANGED <<live, owed, dma, row>>  BY <1>1 DEF Copy, engine, card
  <2>2. stream # <<>> /\ stage # None /\ Fits
    BY <1>1 DEF Copy, Ready, AtCopy, AtFrame, ClientPart
  <2>3. stage \in UsbStage /\ stage.bank \in Banks /\ stage.fill \in 0 .. Half - 1
    BY <2>2 DEF ArenaPart, UsbStage
  <2>4. Copied(stage.bank) \in [Banks -> [1 .. Half -> Cell \cup {None}]]
    <3>1. \A i \in 1 .. Half : i > stage.fill /\ i <= Filled =>
            <<Frame.put, Frame.off + i - stage.fill - 1>> \in Cell
      <4>1. /\ Frame.put \in Puts /\ Frame.off \in Nat /\ Frame.len \in Nat
            /\ stage.received \in Nat /\ Half \in Nat /\ Declared \in Nat
        BY <2>2, <2>3, BatchIsRecord, UsbAssumption DEF UsbStage
      <4>2. \A i \in 1 .. Half : i > stage.fill /\ i <= Filled =>
              Frame.off + i - stage.fill - 1 \in 0 .. Declared - 1
        <5>1. /\ Frame.off = stage.received /\ Frame.off + Frame.len <= Declared
              /\ Filled = stage.fill + Frame.len /\ stage.fill \in Nat
          BY <2>2, <2>3, <4>1 DEF Filled, Fits
        <5> HIDE DEF Frame, Filled
        <5> QED  BY <4>1, <5>1
      <4> QED  BY <4>1, <4>2 DEF Cell
    <3>2. bank[stage.bank] \in [1 .. Half -> Cell \cup {None}]  BY <2>3 DEF CardPart
    <3>3. [i \in 1 .. Half |-> IF i > stage.fill /\ i <= Filled
                               THEN <<Frame.put, Frame.off + i - stage.fill - 1>>
                               ELSE bank[stage.bank][i]] \in [1 .. Half -> Cell \cup {None}]
      BY <3>1, <3>2
    <3> QED  BY <2>3, <3>3 DEF CardPart, Copied
  <2>5. bank' \in [Banks -> [1 .. Half -> Cell \cup {None}]]
    BY <1>1, <2>4 DEF Copy, CardPart
  <2> QED  BY <2>1, <2>5 DEF CardPart
<1>2. CASE \E s \in Slots : Discard(s)
  BY <1>2, CardKept DEF Discard, engine, card
<1>3. CASE wait_enabled \/ reclaim \/ LinkUp \/ Serving
  BY <1>3, CardKept DEF wait_enabled, reclaim, LinkUp, Serving, rest0, engine, card
<1>4. CASE OnControl \/ CollectedC \/ control_record \/ OnStream \/ Observed
  BY <1>4, CardKept DEF OnControl, CollectedC, control_record, OnStream, Observed, still0, engine, card
<1>5. CASE HoldControl \/ HoldNoLane \/ HoldExpires \/ AskMap \/ Asked \/ Granted \/ GrantExpires
  BY <1>5, CardKept DEF HoldControl, HoldNoLane, HoldExpires, AskMap, Asked, Granted, GrantExpires, still0,
       engine, card
<1>6. CASE CollectS \/ CollectedS \/ ToEngine \/ Streamed \/ Foreign \/ BatchDone
  BY <1>6, CardKept DEF CollectS, CollectedS, ToEngine, Streamed, Foreign, BatchDone, still0, engine, card
<1>7. CASE PumpSend \/ Sent \/ Pumped \/ Closes \/ Quits \/ PassEnds \/ Ended
  BY <1>7, CardKept DEF PumpSend, Sent, Pumped, Closes, Quits, PassEnds, Ended, still0, engine, card
<1>8. CASE CollectedE \/ StageEnds \/ Finished \/ DropDriver \/ Lost \/ Joined
  BY <1>8, CardKept DEF CollectedE, StageEnds, Finished, DropDriver, Lost, Joined, still0, engine, card
<1> QED  BY <1>1, <1>2, <1>3, <1>4, <1>5, <1>6, <1>7, <1>8, Zenon DEF UsbTask

\* Actions that leave the stage alone, with and without a call.
LEMMA ArenaOfQuiet ==
    ASSUME UsbInvariant, UNCHANGED dma,
           \/ wait_enabled \/ reclaim \/ LinkUp \/ Serving \/ OnControl \/ CollectedC \/ control_record
           \/ OnStream \/ Observed \/ HoldControl \/ HoldExpires
           \/ CollectS \/ CollectedS \/ ToEngine \/ Streamed \/ Foreign \/ BatchDone
           \/ PumpSend \/ Sent \/ Pumped \/ PassEnds \/ Ended \/ CollectedE
           \/ Closes /\ stage # None
           \/ StageEnds /\ stage # None
    PROVE  ArenaPart'
<1> USE DEF UsbInvariant, Running, Driving
<1>1. UNCHANGED queue => (BatchQueued' <=> BatchQueued)  BY DEF BatchQueued
<1>2. CASE \/ Serving \/ control_record \/ Observed \/ HoldExpires \/ CollectS \/ CollectedS \/ Streamed
           \/ Foreign \/ BatchDone \/ PumpSend \/ Pumped \/ CollectedE \/ Ended
  BY <1>1, <1>2, ArenaKept DEF Serving, control_record, Observed, HoldExpires, CollectS, CollectedS,
       Streamed, Foreign, BatchDone, PumpSend, Pumped, CollectedE, Ended, rest0, still0, driver, AtCopy,
       AtFrame, Ready
<1>3. CASE wait_enabled
  BY <1>1, <1>3, ArenaKept, Called DEF wait_enabled, rest0, driver, Call
<1>4. CASE reclaim
  BY <1>4, ArenaKept, Called DEF reclaim, rest0, driver
<1>5. CASE LinkUp
  BY <1>5, ArenaKept, Called DEF LinkUp, rest0, driver
<1>6. CASE OnControl
  <2>1. pc = "idle" /\ pc' \in {"collectC", "control"} /\ UNCHANGED <<stage, staged, wants, granted>>
    BY <1>6 DEF OnControl, LaneCall, Call, still0
  <2>2. BatchQueued' => BatchQueued
    BY <1>1, <1>6, Called DEF OnControl, LaneCall
  <2> QED  BY <2>1, <2>2, ArenaKept
<1>7. CASE CollectedC
  BY <1>1, <1>7, ArenaKept, Called DEF CollectedC, still0
<1>8. CASE OnStream
  BY <1>8, ArenaKept, Called DEF OnStream, Call, still0, driver
<1>9. CASE HoldControl
  BY <1>9, ArenaKept, Called DEF HoldControl, LaneCall, Call, still0, driver
<1>10. CASE ToEngine
  BY <1>10, ArenaKept, Called DEF ToEngine, LaneCall, Call, still0, driver, Ready, AtCopy, AtFrame
<1>11. CASE Sent
  <2>1. pc = "send" /\ pc' \in {"pump", "pumpC"} /\ UNCHANGED <<stage, staged, wants, granted>>
    BY <1>11 DEF Sent, LaneCall, Call, still0, driver
  <2>2. BatchQueued' => BatchQueued
    BY <1>11, Called DEF Sent, LaneCall
  <2> QED  BY <2>1, <2>2, ArenaKept
<1>12. CASE PassEnds
  <2>1. pc = "react" /\ pc' \in {"idle", "ended"} /\ UNCHANGED <<stage, staged, wants, granted>>
    BY <1>12 DEF PassEnds, Call, still0
  <2>2. BatchQueued' => BatchQueued
    BY <1>1, <1>12, Called DEF PassEnds
  <2> QED  BY <2>1, <2>2, ArenaKept
<1>13. CASE Closes /\ stage # None
  BY <1>13, ArenaKept, Called DEF Closes, Call, still0, driver
<1>14. CASE StageEnds /\ stage # None
  BY <1>14, ArenaKept, Called DEF StageEnds, Call, still0
<1> QED  BY <1>2, <1>3, <1>4, <1>5, <1>6, <1>7, <1>8, <1>9, <1>10, <1>11, <1>12, <1>13, <1>14, Zenon

\* What a copy makes of the stage: a full bank, or the last one, is sent and the other one is next.
LEMMA CopyStages ==
    ASSUME UsbInvariant, Copy
    PROVE  /\ stage \in UsbStage /\ stage' \in UsbStage /\ stage # None /\ stage' # None
           /\ stage'.fill <= stage'.received /\ stage'.put = stage.put
           /\ granted /\ BatchDue =>
                stage'.fill = 0 /\ stage'.received = Received /\ stage'.bank = Other(stage.bank)
           /\ granted /\ ~BatchDue =>
                stage'.fill = Filled /\ stage'.received = Received /\ stage'.bank = stage.bank
           /\ ~granted => stage' = stage
<1> USE DEF UsbInvariant
<1>0. stream # <<>> /\ stage # None /\ Fits
  BY DEF Copy, Ready, AtCopy, AtFrame, ClientPart
<1>1. /\ stage \in UsbStage /\ stage.fill <= stage.received /\ stage.bank \in Banks
      /\ stage.received \in Nat /\ stage.fill \in 0 .. Half - 1
  BY <1>0, UsbAssumption DEF ArenaPart, UsbStage
<1>2. Received \in 0 .. Declared /\ Filled \in 1 .. Half /\ Filled <= Received /\ Half \in Nat \ {0}
  <2>1. Received \in 1 .. Declared /\ Filled \in 1 .. Half /\ Frame.len \in Nat /\ Declared \in Nat
    BY <1>0, BatchIsRecord, UsbAssumption
  <2>2. Filled = stage.fill + Frame.len /\ Received = stage.received + Frame.len
    BY DEF Filled, Received
  <2>3. Half \in Nat \ {0}  BY UsbAssumption
  <2> HIDE DEF Filled, Received, Frame
  <2> QED  BY <1>1, <2>1, <2>2, <2>3
<1>3. Other(stage.bank) \in Banks  BY <1>1 DEF Banks, Other
<1>4. ~BatchDue => Filled \in 0 .. Half - 1
  <2>1. ~BatchDue => ~(Filled >= Half)  BY DEF BatchDue
  <2> HIDE DEF Filled
  <2> QED  BY <1>2, <2>1
<1>8. None \notin UsbStage  BY NoneAssumption
<1>5. CASE granted /\ BatchDue
  <2>1. stage' = [stage EXCEPT !.fill = 0, !.received = Received, !.bank = Other(@)]
    BY <1>5 DEF Copy
  <2>2. /\ stage' = [put |-> stage.put, received |-> Received, bank |-> Other(stage.bank), fill |-> 0]
        /\ stage.put \in Puts
    BY <1>1, <2>1 DEF UsbStage
  <2>3. 0 \in 0 .. Half - 1 /\ 0 <= Received  BY <1>2
  <2> HIDE DEF Received, Filled, Other
  <2>4. stage' \in UsbStage  BY <1>2, <1>3, <2>2, <2>3, Zenon DEF UsbStage
  <2>5. /\ stage'.fill = 0 /\ stage'.received = Received /\ stage'.put = stage.put
        /\ stage'.bank = Other(stage.bank)
    BY <2>2
  <2> QED  BY <1>0, <1>1, <1>5, <1>8, <2>3, <2>4, <2>5
<1>6. CASE granted /\ ~BatchDue
  <2>1. stage' = [stage EXCEPT !.fill = Filled, !.received = Received]
    BY <1>6 DEF Copy
  <2>2. /\ stage' = [put |-> stage.put, received |-> Received, bank |-> stage.bank, fill |-> Filled]
        /\ stage.put \in Puts
    BY <1>1, <2>1 DEF UsbStage
  <2>3. Filled \in 0 .. Half - 1  BY <1>4, <1>6
  <2> HIDE DEF Received, Filled
  <2>4. stage' \in UsbStage  BY <1>1, <1>2, <2>2, <2>3, Zenon DEF UsbStage
  <2>5. /\ stage'.fill = Filled /\ stage'.received = Received /\ stage'.put = stage.put
        /\ stage'.bank = stage.bank
    BY <2>2
  <2> QED  BY <1>0, <1>1, <1>2, <1>6, <1>8, <2>4, <2>5
<1>7. CASE ~granted
  <2>1. stage' = stage  BY <1>7 DEF Copy
  <2> QED  BY <1>0, <1>1, <1>7, <2>1
<1> QED  BY <1>5, <1>6, <1>7

\* The stage's life: asked for, granted, filled, ended; and what its owner leaves behind.
LEMMA ArenaOfTask ==
    ASSUME UsbInvariant, UsbTask PROVE ArenaPart'
<1> USE DEF UsbInvariant, Running, Driving
<1>1. UNCHANGED dma  BY CardOfTask
<1>2. UNCHANGED queue => (BatchQueued' <=> BatchQueued)  BY DEF BatchQueued
<1>3. CASE AskMap
  <2>1. pc' = "map" /\ pc \notin {"lost", "join"} /\ staged = 0 /\ UNCHANGED <<stage, staged, wants, granted>>
    BY <1>3 DEF AskMap, AtFrame, Call, still0, driver
  <2>2. BatchQueued' => BatchQueued  BY <1>3, Called DEF AskMap
  <2> QED  BY <1>1, <2>1, <2>2 DEF ArenaPart
<1>4. CASE Asked
  <2>1. pc = "map" /\ pc' \in {"grant", "copy"} /\ UNCHANGED <<stage, granted, queue>>
        /\ (pc' = "grant" => staged' = Frame.put /\ wants') /\ (pc' = "copy" => UNCHANGED <<staged, wants>>)
    BY <1>4 DEF Asked
  <2>2. Frame.put # 0
    BY <2>1, Heads, UsbAssumption DEF ClientPart, Puts
  <2>3. stage = None  BY <2>1 DEF ArenaPart
  <2> QED  BY <1>1, <1>2, <2>1, <2>2, <2>3 DEF ArenaPart
<1>5. CASE Granted
  <2>1. /\ pc = "grant" /\ pc' = "copy" /\ granted /\ UNCHANGED <<staged, wants, granted, queue>>
        /\ stage' = [put |-> Frame.put, received |-> 0, bank |-> 0, fill |-> 0]
    BY <1>5 DEF Granted, still0
  <2>2. Frame.put \in Puts  BY <2>1, Heads DEF ClientPart
  <2>3. stage' \in UsbStage /\ stage'.fill <= stage'.received
    BY <2>1, <2>2, UsbAssumption DEF UsbStage, Banks
  <2>4. stage' # None  BY <2>3, NoneAssumption
  <2> QED  BY <1>1, <1>2, <2>1, <2>3, <2>4 DEF ArenaPart
<1>6. CASE GrantExpires
  BY <1>1, <1>2, <1>6 DEF GrantExpires, ArenaPart, driver
<1>7. CASE Copy
  <2>1. stream # <<>> /\ stage # None /\ Fits /\ pc \notin {"lost", "join"}
    BY <1>7 DEF Copy, Ready, AtCopy, AtFrame, ClientPart
  <2>2. pc' \in {"batch", "react"} /\ UNCHANGED <<staged, wants, granted>>
    BY <1>7 DEF Copy
  <2>3. stage' \in UsbStage /\ stage'.fill <= stage'.received  BY <1>7, CopyStages
  <2>4. stage' # None  BY <2>3, NoneAssumption
  <2>5. wants /\ granted /\ staged # 0  BY <2>1 DEF ArenaPart
  <2> QED  BY <2>2, <2>3, <2>4, <2>5 DEF ArenaPart
<1>8. CASE StageEnds /\ stage = None
  BY <1>1, <1>2, <1>8 DEF StageEnds, ArenaPart, still0
<1>9. CASE Finished
  <2>1. WaitsAt = "finish" /\ Waits  BY <1>9 DEF Finished, WaitsAt, Waits, Quiet
  <2>2. queue = <<>> /\ Len(queue) = 0  BY <1>9, <2>1, AnsweredFacts DEF Finished, Answered
  <2>3. dma = None /\ ~BatchQueued  BY <1>9, <2>2 DEF Finished, ArenaPart, BatchQueued
  <2> QED  BY <1>1, <1>2, <1>9, <2>3 DEF Finished, ArenaPart
<1>10. CASE Quits
  <2>1. WaitsAt = "finish" /\ Waits  BY <1>10 DEF Quits, WaitsAt, Waits, Quiet
  <2>2. queue = <<>> /\ Len(queue) = 0  BY <1>10, <2>1, AnsweredFacts DEF Quits, Answered
  <2>3. dma = None /\ ~BatchQueued  BY <1>10, <2>2 DEF Quits, ArenaPart, BatchQueued
  <2> QED  BY <1>1, <1>10, <2>3, ArenaOfLoss DEF Quits
<1>11. CASE HoldNoLane \/ DropDriver \/ (Closes /\ stage = None)
  BY <1>1, <1>11, ArenaOfLoss DEF HoldNoLane, DropDriver, Closes, still0
<1>12. CASE Lost
  <2>1. WaitsAt = "teardown" /\ Waits  BY <1>12 DEF Lost, WaitsAt, TeardownSlot, Waits, Quiet
  <2>2. queue = <<>>  BY <1>12, <2>1, AnsweredFacts DEF Lost, Answered, TeardownSlot
  <2>3. pc = "lost" /\ pc' = "join" /\ queue' # <<>> /\ (BatchQueued' <=> BatchQueued)
        /\ UNCHANGED <<stage, staged, wants, granted>>
    BY <1>12, Called DEF Lost, Call, driver, still0
  <2> QED  BY <1>1, <2>3 DEF ArenaPart
<1>13. CASE Joined
  <2>1. WaitsAt = "finish" /\ Waits  BY <1>13 DEF Joined, WaitsAt, Waits, Quiet
  <2>2. queue = <<>> /\ Len(queue) = 0  BY <1>13, <2>1, AnsweredFacts DEF Joined, Answered
  <2>3. dma = None /\ ~BatchQueued  BY <1>13, <2>2 DEF Joined, ArenaPart, BatchQueued
  <2> QED  BY <1>1, <1>2, <1>13, <2>3 DEF Joined, ArenaPart, driver
<1>14. CASE \E s \in Slots : Discard(s)
  BY <1>1, <1>2, <1>14 DEF Discard, ArenaPart, driver
<1>15. CASE \/ wait_enabled \/ reclaim \/ LinkUp \/ Serving \/ OnControl \/ CollectedC \/ control_record
            \/ OnStream \/ Observed \/ HoldControl \/ HoldExpires
            \/ CollectS \/ CollectedS \/ ToEngine \/ Streamed \/ Foreign \/ BatchDone
            \/ PumpSend \/ Sent \/ Pumped \/ PassEnds \/ Ended \/ CollectedE
            \/ Closes /\ stage # None
            \/ StageEnds /\ stage # None
  BY <1>1, <1>15, ArenaOfQuiet
<1> QED  BY <1>3, <1>4, <1>5, <1>6, <1>7, <1>8, <1>9, <1>10, <1>11, <1>12, <1>13, <1>14, <1>15, Zenon
         DEF UsbTask

\* Steps that leave the client's records where they are.
LEMMA ClientKept ==
    ASSUME ClientPart, DriverPart, UNCHANGED <<client, owed>>, rx' \in Reaction,
           ret' \in {"pass", "sent", "end"}, admitted' \in 0 .. MaxPut, staged' \in 0 .. MaxPut,
           pc' \in {"query", "hold", "admitted", "map", "grant", "copy", "collectS", "stream"} => stream # <<>>,
           pc' \in {"collectC", "control", "holdC", "pumpC"} => control # <<>>
    PROVE  ClientPart' /\ DriverPart'
  BY DEF ClientPart, DriverPart, client

\* The record an await is about is released with its answer, and not before.
LEMMA ClientOfTask ==
    ASSUME UsbInvariant, UsbTask PROVE ClientPart' /\ DriverPart'
<1> USE DEF UsbInvariant
<1>1. owed' = owed  BY CardOfTask
<1>2. /\ rx \in Reaction /\ ret \in {"pass", "sent", "end"} /\ admitted \in 0 .. MaxPut
      /\ staged \in 0 .. MaxPut /\ 0 \in 0 .. MaxPut
  BY Reactions DEF DriverPart
<1>3. stream # <<>> => Frame.put \in 0 .. MaxPut  BY Heads, Reactions
<1>4. CASE \/ \E s \in Slots : Discard(s)
           \/ wait_enabled \/ reclaim \/ LinkUp \/ Serving
           \/ Lost \/ Joined
  <2>1. UNCHANGED <<client, driver>> /\ (pc' = pc \/ pc' \in {"pump0", "reclaim", "linkup", "idle", "join", "down"})
    BY <1>4 DEF Discard, wait_enabled, reclaim, LinkUp, Serving, rest0, Lost, Joined, Call
  <2> QED  BY <1>1, <1>2, <2>1, ClientKept DEF driver, ClientPart
<1>5. CASE OnControl \/ HoldControl \/ OnStream \/ HoldExpires
  <2>1. UNCHANGED <<client, rx, ret, admitted, staged>>
        /\ \/ pc' \in {"collectC", "control", "holdC"} /\ control # <<>>
           \/ pc' \in {"query", "admitted"} /\ stream # <<>>
    BY <1>5 DEF OnControl, HoldControl, OnStream, HoldExpires, LaneCall, Call, driver, ClientPart
  <2> QED  BY <1>1, <1>2, <2>1, ClientKept
<1>6. CASE AskMap \/ Granted \/ GrantExpires \/ CollectS \/ ToEngine
  <2>1. stream # <<>>
    BY <1>6 DEF AskMap, Granted, GrantExpires, CollectS, ToEngine, Ready, AtCopy, AtFrame, ClientPart
  <2>2. UNCHANGED <<client, rx, ret, admitted, staged>> /\ pc' \in {"map", "copy", "collectS", "stream"}
    BY <1>6 DEF AskMap, Granted, GrantExpires, CollectS, ToEngine, LaneCall, Call, driver
  <2> QED  BY <1>1, <1>2, <2>1, <2>2, ClientKept
<1>7. CASE Observed
  <2>1. stream # <<>>  BY <1>7 DEF Observed, ClientPart
  <2>2. UNCHANGED <<client, rx, ret, staged>> /\ pc' \in {"admitted", "hold"} /\ admitted' \in {Frame.put, 0}
    BY <1>7 DEF Observed
  <2> QED  BY <1>1, <1>2, <1>3, <2>1, <2>2, ClientKept
<1>8. CASE Asked
  <2>1. stream # <<>>  BY <1>8 DEF Asked, ClientPart
  <2>2. UNCHANGED <<client, rx, ret, admitted>> /\ pc' \in {"grant", "copy"} /\ staged' \in {Frame.put, staged}
    BY <1>8 DEF Asked
  <2> QED  BY <1>1, <1>2, <1>3, <2>1, <2>2, ClientKept
<1>9. CASE CollectedC
  <2>1. Value("engine") \in Reaction /\ control # <<>>
    BY <1>9, LaneValue DEF CollectedC, LaneWaits, ClientPart
  <2>2. UNCHANGED <<client, ret, admitted, staged>> /\ pc' \in {"control", "react"} /\ rx' \in {rx, Value("engine")}
    BY <1>9 DEF CollectedC
  <2> QED  BY <1>1, <1>2, <2>1, <2>2, ClientKept
<1>10. CASE CollectedS \/ BatchDone \/ CollectedE
  <2>1. Value("engine") \in Reaction
    BY <1>10, LaneValue DEF CollectedS, BatchDone, CollectedE, TakeLane, LaneWaits
  <2>2. /\ UNCHANGED <<client, admitted, staged>> /\ ret' \in {ret, "end"}
        /\ pc' = "react" \/ (pc' = "copy" /\ stream # <<>>)
        /\ rx' \in {rx, Value("engine")}
    BY <1>10 DEF CollectedS, BatchDone, CollectedE, ClientPart
  <2> QED  BY <1>1, <1>2, <2>1, <2>2, ClientKept
<1>11. CASE PumpSend \/ PassEnds \/ Ended \/ StageEnds \/ Finished \/ (Closes /\ stage # None)
  <2>1. /\ UNCHANGED <<client, rx, admitted>> /\ ret' \in {ret, "pass", "sent", "end"} /\ staged' \in {staged, 0}
        /\ pc' \in {"send", "ended", "idle", "collectE", "react", "finish", "quit"}
    BY <1>11 DEF PumpSend, PassEnds, Ended, StageEnds, Finished, Closes, Call, driver
  <2> QED  BY <1>1, <1>2, <2>1, ClientKept
<1>12. CASE control_record \/ Pumped
  <2>1. Value("engine") \in Reaction
    BY <1>12, LaneValue DEF control_record, Pumped, TakeLane, LaneWaits
  <2>2. /\ UNCHANGED <<stream, put, off, open, asks, ret, admitted, staged>> /\ pc' = "react"
        /\ rx' = Value("engine") /\ (control' = control \/ (control # <<>> /\ control' = Tail(control)))
    BY <1>12 DEF control_record, Pumped, ClientPart
  <2>3. control' \in Seq(Ask)  BY <2>2, TailFacts DEF ClientPart
  <2> QED  BY <1>1, <2>1, <2>2, <2>3 DEF ClientPart, DriverPart
<1>13. CASE Streamed \/ Foreign \/ Copy
  <2>1. Streamed => Value("engine") \in Reaction
    BY LaneValue DEF Streamed, TakeLane, LaneWaits
  <2>2. [Idle EXCEPT !.re = "idle"] \in Reaction /\ [Idle EXCEPT !.re = "close"] \in Reaction
    BY Reactions DEF Idle
  <2>3. /\ UNCHANGED <<control, put, off, open, asks, ret, admitted, staged>> /\ pc' \in {"react", "batch"}
        /\ stream # <<>> /\ stream' = Tail(stream)
    BY <1>13 DEF Streamed, Foreign, Copy, Ready, AtCopy, AtFrame, ClientPart
  <2>4. rx' \in Reaction
    BY <1>2, <1>13, <2>1, <2>2, Reactions DEF Streamed, Foreign, Copy
  <2>5. stream' \in Seq(Record)  BY <2>3, TailFacts DEF ClientPart
  <2> QED  BY <1>1, <2>3, <2>4, <2>5 DEF ClientPart, DriverPart
<1>14. CASE Sent
  <2>1. /\ UNCHANGED <<control, stream, put, off, asks, rx, ret, admitted, staged>> /\ (open' => open)
        /\ pc' = "pump" \/ (pc' = "pumpC" /\ control # <<>>)
    BY <1>14 DEF Sent, LaneCall, Call, driver
  <2> QED  BY <1>1, <2>1 DEF ClientPart, DriverPart
<1>15. CASE HoldNoLane \/ DropDriver \/ Quits \/ (Closes /\ stage = None)
  BY <1>1, <1>15, ClientOfLoss DEF HoldNoLane, DropDriver, Quits, Closes
<1> QED  BY <1>4, <1>5, <1>6, <1>7, <1>8, <1>9, <1>10, <1>11, <1>12, <1>13, <1>14, <1>15, ZenonT(60)
         DEF UsbTask

\* Every await of the USB task keeps the invariant.
LEMMA TaskKeeps ==
    ASSUME UsbInvariant, UsbTask PROVE UsbInvariant'
<1>1. Mail'
  BY MailOfAsks, MailOfLends, MailOfQuiet, MailOfAnswers, MailOfCollects, MailOfLoss, ZenonT(60) DEF UsbTask
<1> QED  BY <1>1, ClientOfTask, ArenaOfTask, CardOfTask DEF UsbInvariant

-----------------------------------------------------------------------------
(* What happens around the two tasks. *)

\* No answer comes and none is asked for.
LEMMA MailKept ==
    ASSUME Mail, UNCHANGED <<pc, ticket, queue, slot, lane, pending>> PROVE Mail'
  BY DEF Mail, MailTypes, QueuePart, WaitPart, BufferPart, IsOwn, IsDeferred, Waits, OwnOp, WaitsAt, LentJob,
         LentSlot

\* The stage is not the card's, the engine's or the ride loop's.
LEMMA AroundKept ==
    ASSUME UsbInvariant, UNCHANGED around, owed' \in 0 .. MaxPut
    PROVE  Mail' /\ ClientPart' /\ DriverPart' /\ (BatchQueued' <=> BatchQueued)
  BY MailKept, OthersKept DEF UsbInvariant, around, driver, BatchQueued

\* The stall watch, the radio's client, the card and the ride loop.
LEMMA AroundKeeps ==
    ASSUME UsbInvariant, Stalls \/ BleMap \/ WriteEnds \/ RideLoop PROVE UsbInvariant'
<1> USE DEF UsbInvariant
<1>1. UNCHANGED around  BY DEF Stalls, BleMap, WriteEnds, RideLoop
<1>2. owed' \in 0 .. MaxPut
  BY Reactions DEF Stalls, BleMap, WriteEnds, RideLoop, engine, DriverPart, CardPart, Transfer
<1>3. UNCHANGED <<pc, queue, stage, staged>> /\ (BatchQueued' <=> BatchQueued)
  BY <1>1, <1>2, AroundKept DEF around, driver
<1>4. row \in Seq(Cell \cup {None}) /\ Len(row) <= Declared  BY DEF CardPart
<1>5. ArenaPart'
  <2>1. UNCHANGED wants /\ (dma' # None => dma # None)
    BY DEF Stalls, BleMap, WriteEnds, RideLoop, card
  <2>2. wants /\ granted => granted'  BY DEF Stalls, BleMap, WriteEnds, RideLoop
  <2> QED  BY <1>3, <2>1, <2>2 DEF ArenaPart
<1>6. CardPart'
  <2>1. CASE Stalls
    <3>1. live' = None /\ dma' = None /\ UNCHANGED <<bank, row>>  BY <2>1 DEF Stalls, card
    <3> QED  BY <1>4, <3>1, CardGone
  <2>2. CASE BleMap
    <3>1. UNCHANGED <<dma, bank, row>>  BY <2>2 DEF BleMap, card
    <3>2. dma = None \/ dma.put = 0 \/ (live # None /\ live.link = "usb")  BY DEF CardPart
    <3>3. dma = None \/ dma.put = 0
      BY <2>2, <3>2 DEF BleMap
    <3>4. \/ live' = None
          \/ live' \in Transfer /\ live'.link = "ble"
      <4>1. 1 \in Puts /\ 0 \in 0 .. Declared - 1 /\ 0 \in Banks  BY UsbAssumption DEF Puts, Banks
      <4> QED  BY <2>2, <4>1 DEF BleMap, Transfer
    <3> QED  BY <3>1, <3>3, <3>4 DEF CardPart
  <2>3. CASE WriteEnds
    <3>1. row' = Landed /\ dma' = None /\ UNCHANGED <<bank, live>>  BY <2>3 DEF WriteEnds, engine
    <3>2. /\ Landed \in Seq(Cell \cup {None}) /\ Len(Landed) <= Declared
          /\ Len(Landed) = Len(row) + (IF dma = None \/ dma.put = 0 THEN 0 ELSE dma.len)
      BY LandedFacts
    <3>3. live # None /\ live.link = "usb" => Len(row') = live.received
      BY <3>1, <3>2 DEF CardPart
    <3>4. Len(row') \in Nat /\ live' = live /\ dma' = None  BY <3>1, <3>2
    <3>5. live # None /\ live.link = "usb" => Len(row') + 0 = live.received  BY <3>3, <3>4
    <3> QED  BY <3>1, <3>2, <3>5 DEF CardPart
  <2>4. CASE RideLoop
    BY <2>4, CardKept DEF RideLoop, engine, card
  <2> QED  BY <2>1, <2>2, <2>3, <2>4
<1> QED  BY <1>1, <1>2, <1>5, <1>6, AroundKept

\* The client sends, and the cable goes and comes.
LEMMA HostKeeps ==
    ASSUME UsbInvariant, HostPut \/ HostRecord \/ HostCancel \/ HostList \/ Unplug \/ Replug
    PROVE  UsbInvariant'
<1> USE DEF UsbInvariant
<1>1. /\ UNCHANGED <<pc, ticket, driver, lane, queue, slot, engine, wants, granted, bank, card>>
  BY DEF HostPut, HostRecord, HostCancel, HostList, Unplug, Replug, hostKeeps
<1>2. Mail'  BY <1>1, MailKept DEF driver
<1>3. CardPart'  BY <1>1, CardKept DEF engine, card
<1>4. ArenaPart'
  <2>1. BatchQueued' <=> BatchQueued  BY <1>1 DEF BatchQueued
  <2> QED  BY <1>1, <2>1 DEF ArenaPart, driver, card
<1>5. DriverPart'  BY <1>1 DEF DriverPart, driver, engine
<1>6. ClientPart'
  <2>1. CASE Unplug \/ Replug
    BY <1>1, <2>1 DEF Unplug, Replug, client, ClientPart
  <2>2. CASE HostPut
    <3>1. put + 1 \in Puts /\ put' = put + 1 /\ put' \in 0 .. MaxPut /\ put' # 0 /\ off' = 0 /\ off' \in 0 .. Declared
      BY <2>2, UsbAssumption DEF HostPut, ClientPart, Puts
    <3>2. [op |-> "PUT", put |-> put + 1] \in Ask  BY <3>1 DEF Ask
    <3>3. control' \in Seq(Ask) /\ control' # <<>>
      BY <2>2, <3>2, AppendFacts DEF HostPut, ClientPart
    <3> QED  BY <1>1, <2>2, <3>1, <3>3 DEF HostPut, ClientPart
  <2>3. CASE HostRecord
    <3>1. PICK n \in Lengths : /\ off + n <= Declared
                               /\ stream' = Append(stream, [put |-> put, off |-> off, len |-> n])
                               /\ off' = off + n
      BY <2>3 DEF HostRecord
    <3>2. put \in Puts /\ off \in 0 .. Declared - 1 /\ n \in 1 .. Half /\ off' \in 0 .. Declared
      BY <2>3, <3>1, UsbAssumption DEF HostRecord, ClientPart, Puts
    <3>3. [put |-> put, off |-> off, len |-> n] \in Record  BY <3>2 DEF Record
    <3>4. stream' \in Seq(Record) /\ stream' # <<>>  BY <3>1, <3>3, AppendFacts DEF ClientPart
    <3> QED  BY <1>1, <2>3, <3>2, <3>4 DEF HostRecord, ClientPart
  <2>4. CASE HostCancel
    <3>1. put \in Puts  BY <2>4, UsbAssumption DEF HostCancel, ClientPart, Puts
    <3>2. [op |-> "CANCEL", put |-> put] \in Ask  BY <3>1 DEF Ask
    <3>3. control' \in Seq(Ask) /\ control' # <<>>
      BY <2>4, <3>2, AppendFacts DEF HostCancel, ClientPart
    <3> QED  BY <1>1, <2>4, <3>3 DEF HostCancel, ClientPart
  <2>5. CASE HostList
    <3>1. [op |-> "LIST"] \in Ask  BY DEF Ask
    <3>2. control' \in Seq(Ask) /\ control' # <<>>
      BY <2>5, <3>1, AppendFacts DEF HostList, ClientPart
    <3> QED  BY <1>1, <2>5, <3>2 DEF HostList, ClientPart
  <2> QED  BY <2>1, <2>2, <2>3, <2>4, <2>5
<1> QED  BY <1>2, <1>3, <1>4, <1>5, <1>6

\* A record that is badly framed.
LEMMA BadRecordKeeps ==
    ASSUME UsbInvariant, BadRecord PROVE UsbInvariant'
<1> USE DEF UsbInvariant
<1>1. Teardown /\ UNCHANGED <<engine, wants, granted, bank, card>>  BY DEF BadRecord
<1>2. UNCHANGED <<live, owed, dma, row, bank, wants, granted>>  BY <1>1 DEF engine, card
<1> QED  BY <1>1, <1>2, MailOfLoss, ClientOfLoss, ArenaOfLoss, CardKept

-----------------------------------------------------------------------------
(* The theorems. *)

\* With nothing queued, nothing staged and the buffer in the lane the invariant holds.
LEMMA InitUsb ==
    ASSUME Init PROVE UsbInvariant
<1> USE DEF Init
<1>1. Declared \in Nat \ {0} /\ Half \in Nat \ {0} /\ MaxPut \in Nat \ {0}  BY UsbAssumption
<1>2. Mail
  <2>1. MailTypes
    BY EmptySeq DEF MailTypes, Outside
  <2>2. Len(queue) = 0 /\ queue = <<>>  OBVIOUS
  <2>3. ~Waits /\ pc \notin Running /\ pc \notin LaneWaits
    BY DEF Waits, Running, Driving, LaneWaits
  <2>4. \A s \in Slots : slot[s] = None  OBVIOUS
  <2>5. "engine" \in Slots /\ "teardown" \in Slots  BY DEF Slots
  <2> QED  BY <2>1, <2>2, <2>3, <2>4, <2>5 DEF Mail, QueuePart, WaitPart, BufferPart, LentSlot, LentJob
<1>3. ClientPart  BY <1>1, EmptySeq DEF ClientPart
<1>4. DriverPart  BY Reactions DEF DriverPart
<1>5. ArenaPart
  <2>1. ~BatchQueued  BY DEF BatchQueued
  <2> QED  BY <2>1 DEF ArenaPart
<1>6. CardPart
  <2>1. bank \in [Banks -> [1 .. Half -> Cell \cup {None}]]  OBVIOUS
  <2>2. row \in Seq(Cell \cup {None}) /\ Len(row) = 0  BY EmptySeq
  <2> QED  BY <1>1, <2>1, <2>2 DEF CardPart
<1> QED  BY <1>2, <1>3, <1>4, <1>5, <1>6 DEF UsbInvariant

\* A step of nobody.
LEMMA NobodyKeeps ==
    ASSUME UsbInvariant, UNCHANGED vars PROVE UsbInvariant'
<1> USE DEF UsbInvariant, vars
<1>1. UNCHANGED <<client, pc, ticket, driver, lane, queue, slot, engine, wants, granted, bank, card>>
  OBVIOUS
<1>2. Mail'  BY <1>1, MailKept DEF driver
<1>3. ClientPart' /\ DriverPart'  BY <1>1, OthersKept DEF engine, DriverPart
<1>4. ArenaPart'  BY <1>1 DEF ArenaPart, BatchQueued, driver, card
<1>5. CardPart'  BY <1>1, CardKept DEF engine, card
<1> QED  BY <1>2, <1>3, <1>4, <1>5

\* Whatever the cable, its client, the storage task, the card and the ride loop do in whatever
\* order, the queue, the buffer, the arena and the card keep to the invariant.
THEOREM UsbIsInvariant == Spec => []UsbInvariant
<1>1. ASSUME UsbInvariant, [Next]_vars PROVE UsbInvariant'
  BY <1>1, TaskKeeps, ServesSimple, ServesControl, ServesStream, ServesBatch, AroundKeeps, HostKeeps,
     BadRecordKeeps, NobodyKeeps, Zenon DEF Next, Others, storage_task
<1> QED  BY <1>1, InitUsb, PTL DEF Spec

\* The shape of the two tasks' state, and of what the card holds.
THEOREM UsbTypes == Spec => []TypeOK
<1>1. UsbInvariant => TypeOK
  BY DEF UsbInvariant, Mail, MailTypes, Running, Outside, DriverPart, ArenaPart, CardPart, TypeOK, Tags
<1> QED  BY <1>1, UsbIsInvariant, PTL

\* flat_store.rs `Lane`: the one reaction buffer of the link is in the lane, in one queued request
\* or in one answer: no call that is dropped loses it, and none doubles it.
THEOREM BufferAlwaysSomewhere == Spec => []BufferIsSomewhere
<1>1. ASSUME UsbInvariant PROVE BufferIsSomewhere
  <2> DEFINE lent == {i \in DOMAIN queue : queue[i].op \in Lends}
  <2>1. BufferPart /\ queue \in Seq(JobType) /\ lane \in BOOLEAN
    BY <1>1 DEF UsbInvariant, Mail, MailTypes
  <2>2. lent = {i \in 1 .. Len(queue) : LentJob(i)}  BY <2>1 DEF LentJob
  <2>3. CASE lent = {}
    <3>1. Cardinality(lent) = 0  BY <2>3, FS_EmptySet
    <3>2. (lane /\ ~LentSlot) \/ (~lane /\ LentSlot)  BY <2>1, <2>2, <2>3 DEF BufferPart
    <3> HIDE DEF lent
    <3> QED  BY <3>1, <3>2 DEF BufferIsSomewhere, LentSlot, lent
  <2>4. CASE lent # {}
    <3>1. PICK k \in lent : TRUE  BY <2>4
    <3>2. lent = {k} /\ ~lane /\ ~LentSlot  BY <2>1, <2>2, <3>1 DEF BufferPart
    <3>3. Cardinality(lent) = 1  BY <3>2, FS_Singleton
    <3> QED  BY <3>2, <3>3 DEF BufferIsSomewhere, LentSlot
  <2> QED  BY <2>3, <2>4
<1> QED  BY <1>1, UsbIsInvariant, PTL

\* flat_store.rs `Writer::call`, `Lane::reclaim`: whatever calls were dropped, the answer the USB
\* task waits for, or the buffer it means to reclaim, is in the queue or in the slot it looks at.
THEOREM AnswersOnTheirWay == Spec => []AnswerOnItsWay
<1>1. ASSUME UsbInvariant PROVE AnswerOnItsWay
  <2> USE <1>1 DEF UsbInvariant, Mail
  <2>1. queue \in Seq(JobType) /\ Jobs = {queue[i] : i \in 1 .. Len(queue)} /\ Len(queue) \in Nat
        /\ \A i \in 1 .. Len(queue) : queue[i] \in JobType
        /\ (queue # <<>> => 1 \in 1 .. Len(queue) /\ Len(queue) \in 1 .. Len(queue))
    BY LenProperties, ElementOfSeq, EmptySeq DEF MailTypes, Jobs
  <2>2. ASSUME WaitsAt # None PROVE Comes(WaitsAt, ticket)
    <3>1. Waits  BY <2>2 DEF Waits, WaitsAt, Quiet
    <3>2. CASE queue = <<>>  BY <3>1, <3>2 DEF WaitPart, Comes
    <3>3. CASE queue # <<>>
      <4> DEFINE j == queue[Len(queue)]
      <4>1. IsOwn(j) /\ j \in JobType /\ j \in Jobs  BY <2>1, <3>1, <3>3 DEF WaitPart
      <4> HIDE DEF j
      <4>2. j.slot = WaitsAt /\ j.tag = ticket  BY <4>1, OwnSlot DEF MailTypes, IsOwn
      <4> QED  BY <4>1, <4>2 DEF Comes
    <3> QED  BY <3>2, <3>3
  <2>3. ASSUME pending # None PROVE Comes("engine", pending)
    <3>1. CASE queue # <<>> /\ IsDeferred(queue[1])
      <4> DEFINE j == queue[1]
      <4>1. j.op = "Batch" /\ j.tag = pending /\ j \in JobType /\ j \in Jobs
        BY <2>1, <3>1 DEF IsDeferred
      <4> HIDE DEF j
      <4>2. j.slot = "engine"  BY <4>1, JobSlots DEF Lends
      <4> QED  BY <4>1, <4>2 DEF Comes
    <3>2. CASE slot["engine"] # None /\ slot["engine"].tag = pending
      BY <3>2 DEF Comes
    <3> QED  BY <2>3, <3>1, <3>2 DEF WaitPart
  <2>4. pc = "reclaim" => LentSlot \/ \E j \in Jobs : j.op \in Lends
    BY <2>1 DEF BufferPart, LentJob
  <2> QED  BY <2>2, <2>3, <2>4 DEF AnswerOnItsWay, LentSlot
<1> QED  BY <1>1, UsbIsInvariant, PTL

\* usb/v4.rs `release_joined_stage`: the arena is the cable's for as long as the card reads it,
\* although the driver that had asked for it may long be gone.
THEOREM ArenaAlwaysOutlivesDma == Spec => []ArenaOutlivesDma
<1>1. UsbInvariant => ArenaOutlivesDma  BY DEF UsbInvariant, ArenaPart, ArenaOutlivesDma
<1> QED  BY <1>1, UsbIsInvariant, PTL
===============================================================================
