------------------------------ MODULE UsbLink ------------------------------
(***************************************************************************)
(* The cable's way to the transfer engine: the USB task (usb/v4.rs), the   *)
(* storage task's request queue and its reply slots (flat_store.rs), and   *)
(* the two arena banks a map upload is received in while the card's DMA    *)
(* still reads the other one.                                              *)
(*                                                                         *)
(* The USB task is one future: pc is the await it is parked at.  Inside    *)
(* driver, any await may be dropped with everything the driver owns; what  *)
(* it sent stays in the queue, is served, and answers into a slot nobody   *)
(* waits at.  Tasks are cooperative, so each step runs to its next await.  *)
(*                                                                         *)
(* The client uploads maps: the n-th PUT has RequestId n and Declared      *)
(* units of payload.  The engine behind the queue is LinkEngine, seen as   *)
(* far as this link can tell; a GET is pumped like an owed answer and is   *)
(* left out.                                                               *)
(***************************************************************************)
EXTENDS Integers, Sequences, FiniteSets

CONSTANTS
    Half,       \* STAGE_HALF_LEN, the units one bank holds
    Declared,   \* the payload units of an upload
    Lengths,    \* the payload units a stream record carries
    Narrow,     \* whether the ride loop may fail to grant the arena
    Pipelined,  \* whether the client sends a PUT before its last one is answered
    MaxPut,     \* bound: uploads
    MaxDrops,   \* bound: cables lost
    MaxAsks,    \* bound: CANCEL and LIST requests
    None

ASSUME UsbAssumption ==
    /\ {Half, Declared, MaxPut} \subseteq Nat \ {0} /\ {MaxDrops, MaxAsks} \subseteq Nat
    /\ Lengths \subseteq 1 .. Half /\ Narrow \in BOOLEAN /\ Pipelined \in BOOLEAN
    /\ None \notin Int

VARIABLES
    control, stream,    \* records the client sent and the driver has not released
    put, off, open,     \* the client: its last PUT, the next offset of it, and whether it awaits the answer
    asks,               \* CANCEL and LIST requests made
    cable, drops,       \* the endpoints are enabled; cables lost so far
    pc,                 \* where the USB task is parked
    ticket,             \* the tag of the call it awaits
    rx,                 \* the reaction pump works on, and the PUT it answers
    ret,                \* the pass: "pass", "sent" once a record went out, "end" when its stage has ended
    lane,               \* Lane::out is Some
    admitted,           \* Admission
    staged, stage,      \* staged_request and usb_stage
    pending,            \* UsbStage::pending
    queue, slot,        \* REQUESTS, and the reply slots
    live, owed, linked, \* the engine: its transfer, what it owes this link, whether the link is up
    wants, granted,     \* STAGE_REQ, and the arena's owner with STAGE_GRANTED
    bank, dma,          \* the two banks, and the card write that still reads one
    row, published      \* what the upload's reservation holds, and what its commit published

client  == <<control, stream, put, off, open, asks>>
driver  == <<rx, ret, admitted, staged, stage, pending>>
engine  == <<live, owed, linked>>
card    == <<dma, row, published>>
vars    == <<client, cable, drops, pc, ticket, driver, lane, queue, slot, engine,
             wants, granted, bank, card>>

Puts   == 1 .. MaxPut
Slots  == {"engine", "query", "teardown", "finish"}
Banks  == {0, 1}
Idle   == [re |-> "idle", to |-> 0]
Cell   == Puts \X (0 .. Declared - 1)

\* The reaction of the engine, UsbStage, the engine's transfer, and the card's write; a write
\* of an upload that is gone is of PUT 0.
Reaction  == [re : {"idle", "send", "close"}, to : 0 .. MaxPut]
UsbStage  == [put : Puts, received : 0 .. Declared, bank : Banks, fill : 0 .. Half - 1]
Transfer  == [link : {"usb", "ble"}, put : Puts, received : 0 .. Declared - 1, bank : Banks]
CardWrite == [bank : Banks, len : 1 .. Half, put : 0 .. MaxPut]

\* An answer, and whether it brings the reaction buffer back.
Answer == [tag : 1 .. 8, lent : {TRUE}, value : Reaction]
            \cup [tag : 1 .. 8, lent : {FALSE}, value : BOOLEAN]
            \cup [tag : 1 .. 8, lent : {FALSE}, value : 0 .. MaxPut]

ASSUME NoneAssumption == None \notin UsbStage \cup Transfer \cup CardWrite \cup Answer \cup Cell \cup Slots

\* Jobs whose request lends the reaction buffer.
Lends  == {"Control", "Stream", "Batch", "Pump"}

\* The awaits of driver: select3 may drop the future at any of them.
Driving == {"idle", "collectC", "control", "query", "hold", "holdC", "map", "grant", "collectS",
            "stream", "batch", "send", "pump", "pumpC", "ended", "collectE", "finish", "quit"}

-----------------------------------------------------------------------------
(* Writer and Lane: one round trip through the queue. *)

Jobs == {queue[i] : i \in DOMAIN queue}

\* NEXT_TAG: no tag that is still about is handed out again.
Tag == CHOOSE t \in 1 .. 8 :
          /\ t \notin {j.tag : j \in Jobs} \cup {ticket, pending}
          /\ \A s \in Slots : slot[s] = None \/ slot[s].tag # t
          /\ \A u \in 1 .. t - 1 : \/ u \in {j.tag : j \in Jobs} \cup {ticket, pending}
                                   \/ \E s \in Slots : slot[s] # None /\ slot[s].tag = u

Job(op, s, arg) == [op |-> op, tag |-> Tag, slot |-> s, arg |-> arg]

Send(job) ==
    /\ queue' = Append(queue, job)
    /\ lane' = IF job.op \in Lends THEN FALSE ELSE lane

\* Writer::call, from its enqueue to its wait; the driver is parked at k until the answer.
Call(op, s, arg, k) == Send(Job(op, s, arg)) /\ ticket' = Tag /\ pc' = k

\* Mutant: the loss is reported on the lane's own slot.
TeardownSlot_Shared == "engine"

\* TEARDOWN_REPLY: an orphan in the lane's slot stays where reclaim finds it.
TeardownSlot == "teardown"

\* driver's end, whichever way: what it owns is dropped, the record streams are reset, and
\* release_engine reports the loss on a slot of its own.
Teardown ==
    /\ Call("LinkLost", TeardownSlot, 0, "lost")
    /\ rx' = Idle /\ ret' = "pass" /\ admitted' = 0 /\ staged' = 0 /\ stage' = None /\ pending' = None
    /\ control' = <<>> /\ stream' = <<>> /\ open' = FALSE /\ off' = Declared
    /\ UNCHANGED <<put, asks>>

\* Lane::call, which needs the buffer; without it the link dies.
LaneCall(op, arg, k) == lane /\ Call(op, "engine", arg, k)

\* Writer::result: an answer that is not this call's is consumed and the wait goes on.
Answered(s) == slot[s] # None /\ slot[s].tag = ticket
Value(s)    == slot[s].value
Take(s)     == slot' = [slot EXCEPT ![s] = None]

\* Lane::call and Lane::collect take the buffer back with the answer.
TakeLane    == Answered("engine") /\ Take("engine") /\ lane' = TRUE

\* The slot each await looks at.
WaitsAt ==
    CASE pc \in {"query", "map", "ended"}  -> "query"
      [] pc = "lost"                       -> TeardownSlot
      [] pc \in {"finish", "quit", "join"} -> "finish"
      [] pc \in {"pump0", "linkup", "collectC", "control", "holdC", "collectS", "stream",
                 "batch", "pump", "pumpC", "collectE"} -> "engine"
      [] OTHER -> None

Discard(s) ==
    /\ s = WaitsAt /\ slot[s] # None /\ slot[s].tag # ticket
    /\ Take(s)
    /\ UNCHANGED <<client, cable, drops, pc, ticket, driver, lane, queue, engine, wants, granted, bank, card>>

-----------------------------------------------------------------------------
(* serve_objects: a cable comes up, and the next one. *)

rest0 == <<client, drops, driver, engine, wants, granted, bank, card>>

\* Mutant: a buffer that is out is not waited for.
wait_enabled_Straight ==
    /\ pc = "down" /\ cable
    /\ Call("LinkUp", "engine", 0, "linkup")
    /\ UNCHANGED <<cable, slot, rest0>>

wait_enabled ==
    /\ pc = "down" /\ cable
    /\ IF lane THEN Call("Pump", "engine", 0, "pump0") ELSE pc' = "reclaim" /\ UNCHANGED <<queue, lane, ticket>>
    /\ UNCHANGED <<cable, slot, rest0>>

\* Lane::reclaim: the orphan's answer brings the buffer back.
reclaim ==
    /\ pc = "reclaim" /\ slot["engine"] # None
    /\ Take("engine")
    /\ queue' = Append(queue, Job("Pump", "engine", 0)) /\ ticket' = Tag /\ pc' = "pump0"
    /\ UNCHANGED <<cable, lane, rest0>>

\* The first call proves the lane; what it answers is not sent.
LinkUp ==
    /\ pc = "pump0" /\ TakeLane
    /\ queue' = Append(queue, Job("LinkUp", "engine", 0)) /\ ticket' = Tag /\ pc' = "linkup"
    /\ UNCHANGED <<cable, rest0>>

Serving ==
    /\ pc = "linkup" /\ Answered("engine") /\ Take("engine")
    /\ pc' = "idle" /\ ticket' = 0
    /\ UNCHANGED <<cable, lane, queue, rest0>>

-----------------------------------------------------------------------------
(* driver: control records. *)

still0 == <<cable, drops, engine, wants, granted, bank, card>>

\* A control record is next; a deferred batch's answer is taken before it.
OnControl ==
    /\ pc = "idle" /\ control # <<>>
    /\ IF pending # None
       THEN /\ ticket' = pending /\ pending' = None /\ pc' = "collectC"
            /\ UNCHANGED <<queue, lane>>
       ELSE LaneCall("Control", Head(control), "control") /\ UNCHANGED pending
    /\ UNCHANGED <<client, rx, ret, admitted, staged, stage, slot, still0>>

\* collect_pending ahead of a control record: an upload that ended there goes first.
CollectedC ==
    /\ pc = "collectC" /\ Answered("engine") /\ Take("engine")
    /\ IF Value("engine").re = "idle"
       THEN /\ queue' = Append(queue, Job("Control", "engine", Head(control))) /\ ticket' = Tag
            /\ pc' = "control" /\ UNCHANGED <<lane, rx>>
       ELSE /\ lane' = TRUE /\ rx' = Value("engine") /\ pc' = "react" /\ ticket' = 0 /\ UNCHANGED queue
    /\ UNCHANGED <<client, ret, admitted, staged, stage, pending, still0>>

\* control_record: the record is released once the engine has answered it.
control_record ==
    /\ pc \in {"control", "holdC"} /\ TakeLane
    /\ rx' = Value("engine") /\ pc' = "react" /\ ticket' = 0
    /\ control' = Tail(control)
    /\ UNCHANGED <<stream, put, off, open, asks, ret, admitted, staged, stage, pending, queue, still0>>

-----------------------------------------------------------------------------
(* driver: stream records.  The record stays at the head of stream until STREAM_TAKEN. *)

Frame == Head(stream)

\* stream_record up to its first await: the admission hold asks which transfer is live.
OnStream ==
    /\ pc = "idle" /\ control = <<>> /\ stream # <<>>
    /\ admitted # Frame.put
    /\ Call("LiveTransfer", "query", 0, "query")
    /\ UNCHANGED <<client, slot, driver, still0>>

\* Admission::observed
Observed ==
    /\ pc = "query" /\ Answered("query") /\ Take("query") /\ ticket' = 0
    /\ admitted' = IF Value("query") = Frame.put THEN Frame.put ELSE 0
    /\ pc' = IF Value("query") = Frame.put THEN "admitted" ELSE "hold"
    /\ UNCHANGED <<client, rx, ret, staged, stage, pending, lane, queue, still0>>

\* The hold: a control record before the window closes is served first.
HoldControl ==
    /\ pc = "hold" /\ control # <<>> /\ lane
    /\ LaneCall("Control", Head(control), "holdC")
    /\ UNCHANGED <<client, slot, driver, still0>>

\* The same while a deferred batch has the buffer: the call cannot be made and the link ends.
HoldNoLane ==
    /\ pc = "hold" /\ control # <<>> /\ ~lane
    /\ Teardown
    /\ UNCHANGED <<slot, still0>>

HoldExpires ==
    /\ pc = "hold" /\ pc' = "admitted"
    /\ UNCHANGED <<client, ticket, driver, lane, queue, slot, still0>>

AtFrame == pc = "admitted" \/ (pc = "idle" /\ control = <<>> /\ stream # <<>> /\ admitted = Frame.put)

\* No stage yet: usb_map_upload asks whether this is the cable's live map.
AskMap ==
    /\ AtFrame /\ staged = 0
    /\ Call("UsbMapUpload", "query", Frame.put, "map")
    /\ UNCHANGED <<client, slot, driver, still0>>

\* request_stage
Asked ==
    /\ pc = "map" /\ Answered("query") /\ Take("query") /\ ticket' = 0
    /\ IF Value("query")
       THEN staged' = Frame.put /\ wants' = TRUE /\ pc' = "grant"
       ELSE pc' = "copy" /\ UNCHANGED <<staged, wants>>
    /\ UNCHANGED <<client, cable, drops, rx, ret, admitted, stage, pending, lane, queue, engine, granted, bank, card>>

Granted ==
    /\ pc = "grant" /\ granted
    /\ stage' = [put |-> Frame.put, received |-> 0, bank |-> 0, fill |-> 0]
    /\ pc' = "copy"
    /\ UNCHANGED <<client, ticket, rx, ret, admitted, staged, pending, lane, queue, slot, still0>>

\* cancel_stage_request: the grant did not come; the upload goes on in narrow writes.
GrantExpires ==
    /\ pc = "grant" /\ ~granted /\ Narrow
    /\ wants' = FALSE /\ pc' = "copy"
    /\ UNCHANGED <<client, cable, drops, ticket, driver, lane, queue, slot, engine, granted, bank, card>>

AtCopy == pc = "copy" \/ (AtFrame /\ staged # 0)

\* The bank hand-back gate: a fresh bank waits for the deferred batch.
CollectS ==
    /\ AtCopy /\ stage # None /\ stage.fill = 0 /\ pending # None
    /\ ticket' = pending /\ pending' = None /\ pc' = "collectS"
    /\ UNCHANGED <<client, rx, ret, admitted, staged, stage, lane, queue, slot, still0>>

\* An upload that ended at that batch: the record goes back and its end is this pass's reaction.
CollectedS ==
    /\ pc = "collectS" /\ TakeLane /\ ticket' = 0
    /\ IF Value("engine").re = "idle"
       THEN pc' = "copy" /\ UNCHANGED rx
       ELSE pc' = "react" /\ rx' = Value("engine")
    /\ UNCHANGED <<client, ret, admitted, staged, stage, pending, queue, still0>>

\* Mutant: a fresh bank is filled at once.
Ready_Eager == AtCopy

\* The bank the record goes into is the driver's.
Ready == AtCopy /\ (stage # None => stage.fill > 0 \/ pending = None)

\* The record continues the bank.
Fits ==
    /\ Frame.off = stage.received /\ stage.received + Frame.len <= Declared
    /\ Frame.len <= Half - stage.fill

\* No stage, or a record the bank cannot take: the engine gets it.
ToEngine ==
    /\ Ready
    /\ stage # None => stage.put = Frame.put /\ ~Fits
    /\ LaneCall("Stream", Frame, "stream")
    /\ UNCHANGED <<client, slot, driver, still0>>

Streamed ==
    /\ pc = "stream" /\ TakeLane
    /\ rx' = Value("engine") /\ pc' = "react" /\ ticket' = 0
    /\ stream' = Tail(stream)
    /\ UNCHANGED <<control, put, off, open, asks, ret, admitted, staged, stage, pending, queue, still0>>

\* A record of another transfer than the stage's is dropped.
Foreign ==
    /\ Ready /\ stage # None /\ stage.put # Frame.put
    /\ stream' = Tail(stream) /\ pc' = "react" /\ rx' = Idle /\ ticket' = 0
    /\ UNCHANGED <<control, put, off, open, asks, ret, admitted, staged, stage, pending, lane, queue, slot, still0>>

Filled   == stage.fill + Frame.len
Received == stage.received + Frame.len
Batch    == [put |-> stage.put, off |-> Received - Filled, len |-> Filled]

\* Mutant: one unit too many.
BatchDue_Late == Filled > Half \/ Received >= Declared

BatchDue == Filled >= Half \/ Received >= Declared

\* Mutant: the banks are not swapped.
Other_Same(b) == b

Other(b) == 1 - b

Copied(b) == [bank EXCEPT ![b] = [i \in 1 .. Half |->
                IF i > stage.fill /\ i <= Filled THEN <<Frame.put, Frame.off + i - stage.fill - 1>> ELSE @[i]]]

\* The copy into the bank; then nothing more, the final batch, or a deferred one.  A bank that
\* is not the cable's closes the channel.
Copy ==
    /\ Ready /\ stage # None /\ stage.put = Frame.put /\ Fits
    /\ stream' = Tail(stream)
    /\ bank' = IF granted THEN Copied(stage.bank) ELSE bank
    /\ IF granted /\ BatchDue
       THEN /\ stage' = [stage EXCEPT !.fill = 0, !.received = Received, !.bank = Other(@)]
            /\ lane /\ Send(Job("Batch", "engine", Batch))
            /\ IF Received >= Declared
               THEN ticket' = Tag /\ pc' = "batch" /\ UNCHANGED <<pending, rx>>
               ELSE pending' = Tag /\ pc' = "react" /\ rx' = Idle /\ ticket' = 0
       ELSE /\ stage' = IF granted THEN [stage EXCEPT !.fill = Filled, !.received = Received] ELSE stage
            /\ rx' = [Idle EXCEPT !.re = IF granted THEN "idle" ELSE "close"]
            /\ pc' = "react" /\ ticket' = 0
            /\ UNCHANGED <<pending, queue, lane>>
    /\ UNCHANGED <<control, put, off, open, asks, ret, admitted, staged, slot, cable, drops, engine, wants, granted, card>>

BatchDone ==
    /\ pc = "batch" /\ TakeLane
    /\ rx' = Value("engine") /\ pc' = "react" /\ ticket' = 0
    /\ UNCHANGED <<client, ret, admitted, staged, stage, pending, queue, still0>>

-----------------------------------------------------------------------------
(* pump, and the end of a pass. *)

\* A record goes out; its answer reaches the client.
PumpSend ==
    /\ pc = "react" /\ rx.re = "send" /\ pc' = "send"
    /\ ret' = IF ret = "end" THEN "end" ELSE "sent"
    /\ UNCHANGED <<client, ticket, rx, admitted, staged, stage, pending, lane, queue, slot, still0>>

\* Between two sends a control record goes before the next pump.
Sent ==
    /\ pc = "send" /\ lane
    /\ open' = IF rx.to = put THEN FALSE ELSE open
    /\ IF control # <<>> THEN LaneCall("Control", Head(control), "pumpC") ELSE LaneCall("Pump", 0, "pump")
    /\ UNCHANGED <<control, stream, put, off, asks, slot, driver, still0>>

Pumped ==
    /\ pc \in {"pump", "pumpC"} /\ TakeLane
    /\ rx' = Value("engine") /\ pc' = "react" /\ ticket' = 0
    /\ control' = IF pc = "pumpC" THEN Tail(control) ELSE control
    /\ UNCHANGED <<stream, put, off, open, asks, ret, admitted, staged, stage, pending, queue, still0>>

\* A closed channel, and a record the endpoints no longer take, end the link, after the card has
\* let go of the stage.
Closes ==
    /\ \/ pc = "react" /\ rx.re = "close"
       \/ pc = "send" /\ ~cable
    /\ IF stage # None
       THEN Call("FinishUsbStage", "finish", 0, "quit") /\ UNCHANGED <<client, driver>>
       ELSE Teardown
    /\ UNCHANGED <<slot, still0>>

Quits ==
    /\ pc = "quit" /\ Answered("finish") /\ Take("finish")
    /\ wants' = FALSE /\ Teardown
    /\ UNCHANGED <<cable, drops, engine, granted, bank, card>>

\* may_have_ended, projection_ended: the storage task publishes whether a map is received.
MayHaveEnded == ret = "sent" \/ live = None

PassEnds ==
    /\ pc = "react" /\ rx.re = "idle" /\ ret # "end"
    /\ ret' = "pass"
    /\ IF staged # 0 /\ MayHaveEnded
       THEN Call("UsbMapUpload", "query", staged, "ended")
       ELSE pc' = "idle" /\ UNCHANGED <<ticket, queue, lane>>
    /\ UNCHANGED <<client, rx, admitted, staged, stage, pending, slot, still0>>

Ended ==
    /\ pc = "ended" /\ Answered("query") /\ Take("query")
    /\ IF Value("query")
       THEN pc' = "idle" /\ ticket' = 0 /\ UNCHANGED <<pending, ret>>
       ELSE IF pending # None
            THEN pc' = "collectE" /\ ticket' = pending /\ pending' = None /\ UNCHANGED ret
            ELSE pc' = "react" /\ ret' = "end" /\ ticket' = 0 /\ UNCHANGED pending
    /\ UNCHANGED <<client, rx, admitted, staged, stage, lane, queue, still0>>

CollectedE ==
    /\ pc = "collectE" /\ TakeLane
    /\ rx' = Value("engine") /\ pc' = "react" /\ ret' = "end" /\ ticket' = 0
    /\ UNCHANGED <<client, admitted, staged, stage, pending, queue, still0>>

\* The ended stage: joined, released, forgotten.
StageEnds ==
    /\ pc = "react" /\ rx.re = "idle" /\ ret = "end"
    /\ IF stage # None
       THEN Call("FinishUsbStage", "finish", 0, "finish") /\ UNCHANGED <<ret, staged>>
       ELSE pc' = "idle" /\ ret' = "pass" /\ staged' = 0 /\ UNCHANGED <<ticket, queue, lane>>
    /\ UNCHANGED <<client, rx, admitted, stage, pending, slot, still0>>

Finished ==
    /\ pc = "finish" /\ Answered("finish") /\ Take("finish")
    /\ wants' = FALSE /\ staged' = 0 /\ stage' = None /\ ret' = "pass" /\ pc' = "idle" /\ ticket' = 0
    /\ UNCHANGED <<client, cable, drops, rx, admitted, pending, lane, queue, engine, granted, bank, card>>

-----------------------------------------------------------------------------
(* The cable goes; release_engine. *)

Unplug ==
    /\ cable /\ drops < MaxDrops /\ drops' = drops + 1 /\ cable' = FALSE
    /\ UNCHANGED <<client, pc, ticket, driver, lane, queue, slot, engine, wants, granted, bank, card>>

\* The endpoints are disabled: select3 drops the driver.
DropDriver ==
    /\ pc \in Driving /\ ~cable
    /\ Teardown
    /\ UNCHANGED <<slot, still0>>

\* RecordEnd: a badly framed record ends the link although the cable stays.
BadRecord ==
    /\ pc \in Driving /\ cable /\ drops < MaxDrops /\ drops' = drops + 1
    /\ Teardown
    /\ UNCHANGED <<slot, cable, engine, wants, granted, bank, card>>

\* Mutant: the arena is given back without the join.
Lost_Unjoined ==
    /\ pc = "lost" /\ Answered(TeardownSlot) /\ Take(TeardownSlot)
    /\ wants' = FALSE /\ pc' = "down" /\ ticket' = 0
    /\ UNCHANGED <<client, driver, cable, drops, lane, queue, engine, granted, bank, card>>

Lost ==
    /\ pc = "lost" /\ Answered(TeardownSlot) /\ Take(TeardownSlot)
    /\ Call("FinishUsbStage", "finish", 0, "join")
    /\ UNCHANGED <<client, driver, still0>>

Joined ==
    /\ pc = "join" /\ Answered("finish") /\ Take("finish")
    /\ wants' = FALSE /\ pc' = "down" /\ ticket' = 0
    /\ UNCHANGED <<client, driver, cable, drops, lane, queue, engine, granted, bank, card>>

Replug ==
    /\ ~cable /\ pc \notin Driving /\ cable' = TRUE
    /\ UNCHANGED <<client, drops, pc, ticket, driver, lane, queue, slot, engine, wants, granted, bank, card>>

-----------------------------------------------------------------------------
(* storage_task: one job at a time, in order. *)

TheJob == Head(queue)

Reply(value) ==
    /\ slot' = [slot EXCEPT ![TheJob.slot] = [tag |-> TheJob.tag, lent |-> TheJob.op \in Lends, value |-> value]]
    /\ queue' = Tail(queue)

React(re, to) == Reply([re |-> re, to |-> to])

taskKeeps == <<client, cable, drops, pc, ticket, driver, lane, wants, granted, bank>>

Mine(n) == live # None /\ live.link = "usb" /\ live.put = n

\* finish_write_blocks: the card has read the bank it was writing from.
Landed ==
    IF dma = None \/ dma.put = 0 THEN row
    ELSE row \o [i \in 1 .. dma.len |-> bank[dma.bank][i]]

\* A dropped upload's write lands in blocks that are no longer its own.
Orphaned == IF dma = None THEN None ELSE [dma EXCEPT !.put = 0]

ServePump ==
    /\ queue # <<>> /\ TheJob.op = "Pump"
    /\ IF owed # 0 THEN React("send", owed) ELSE React("idle", 0)
    /\ owed' = 0
    /\ UNCHANGED <<taskKeeps, live, linked, card>>

ServeControl ==
    /\ queue # <<>> /\ TheJob.op = "Control"
    /\ LET c == TheJob.arg
       IN  \/ /\ ~linked /\ React("idle", 0)
              /\ UNCHANGED <<live, owed, card>>
           \/ /\ linked /\ c.op = "LIST" /\ React("send", 0)
              /\ UNCHANGED <<live, owed, card>>
           \/ /\ linked /\ c.op = "PUT" /\ live # None /\ React("send", c.put)
              /\ UNCHANGED <<live, owed, card>>
           \/ /\ linked /\ c.op = "PUT" /\ live = None /\ React("idle", 0)
              /\ live' = [link |-> "usb", put |-> c.put, received |-> 0, bank |-> 0]
              /\ row' = <<>> /\ dma' = Orphaned
              /\ UNCHANGED <<owed, published>>
           \/ /\ linked /\ c.op = "CANCEL" /\ React("send", 0)
              /\ IF Mine(c.put)
                 THEN live' = None /\ owed' = c.put /\ dma' = Orphaned
                 ELSE UNCHANGED <<live, owed, dma>>
              /\ UNCHANGED <<row, published>>
    /\ UNCHANGED <<taskKeeps, linked>>

\* finish_upload: the commit's first card command joins the last batch.
Commit(cells) ==
    /\ published' = [put |-> live.put, cells |-> cells]
    /\ row' = cells /\ dma' = None
    /\ live' = None /\ React("send", live.put)
    /\ UNCHANGED <<owed, linked>>

\* fail_upload: the offset of what came does not continue the upload, or the card failed.
Fails(fits) ==
    /\ live' = None /\ React("send", live.put)
    /\ dma' = IF fits THEN None ELSE Orphaned
    /\ UNCHANGED <<owed, linked, row, published>>

\* on_stream: the ordinary path, a synchronous write that joins the older one first.
ServeStream ==
    /\ queue # <<>> /\ TheJob.op = "Stream"
    /\ LET f     == TheJob.arg
           fits  == f.off = live.received /\ f.off + f.len <= Declared
           cells == Landed \o [i \in 1 .. f.len |-> <<f.put, f.off + i - 1>>]
       IN  \/ /\ ~Mine(f.put) /\ React("idle", 0)
              /\ UNCHANGED <<engine, card>>
           \/ Mine(f.put) /\ Fails(fits)
           \/ /\ Mine(f.put) /\ fits /\ f.off + f.len < Declared
              /\ live' = [live EXCEPT !.received = @ + f.len]
              /\ row' = cells /\ dma' = None /\ React("idle", 0)
              /\ UNCHANGED <<owed, linked, published>>
           \/ /\ Mine(f.put) /\ fits /\ f.off + f.len = Declared
              /\ Commit(cells)
    /\ UNCHANGED taskKeeps

\* StreamStagedBatch and on_usb_map_batch: the write of this bank starts once the other landed.
ServeBatch ==
    /\ queue # <<>> /\ TheJob.op = "Batch"
    /\ LET b     == TheJob.arg
           fits  == b.off = live.received /\ b.off + b.len <= Declared
           start == [bank |-> live.bank, len |-> b.len, put |-> b.put]
       IN  \/ /\ live = None \/ ~granted
              /\ React("close", 0) /\ owed' = 0 /\ linked' = FALSE
              /\ live' = IF live # None /\ live.link = "usb" THEN None ELSE live
              /\ dma' = (IF live' = live THEN dma ELSE Orphaned)
              /\ UNCHANGED <<row, published>>
           \/ /\ live # None /\ granted /\ ~Mine(b.put) /\ React("idle", 0)
              /\ UNCHANGED <<engine, card>>
           \/ granted /\ Mine(b.put) /\ Fails(fits)
           \/ /\ granted /\ Mine(b.put) /\ fits /\ b.off + b.len < Declared
              /\ live' = [live EXCEPT !.received = @ + b.len, !.bank = 1 - @]
              /\ row' = Landed /\ dma' = start /\ React("idle", 0)
              /\ UNCHANGED <<owed, linked, published>>
           \/ /\ granted /\ Mine(b.put) /\ fits /\ b.off + b.len = Declared
              /\ Commit(Landed \o [i \in 1 .. b.len |-> bank[live.bank][i]])
    /\ UNCHANGED taskKeeps

\* FinishUsbStage, and every other card command: the write that is under way has ended.
ServeFinish ==
    /\ queue # <<>> /\ TheJob.op = "FinishUsbStage"
    /\ row' = Landed /\ dma' = None /\ Reply(TRUE)
    /\ UNCHANGED <<taskKeeps, engine, published>>

\* on_link_up, on_link_lost
ServeLink ==
    /\ queue # <<>> /\ TheJob.op \in {"LinkUp", "LinkLost"}
    /\ linked' = (TheJob.op = "LinkUp")
    /\ live' = IF live # None /\ live.link = "usb" THEN None ELSE live
    /\ dma' = IF live' = live THEN dma ELSE Orphaned
    /\ owed' = 0 /\ Reply(TRUE)
    /\ UNCHANGED <<taskKeeps, row, published>>

ServeQuery ==
    /\ queue # <<>> /\ TheJob.op \in {"LiveTransfer", "UsbMapUpload"}
    /\ Reply(IF TheJob.op = "LiveTransfer" THEN (IF live = None THEN 0 ELSE live.put) ELSE Mine(TheJob.arg))
    /\ UNCHANGED <<taskKeeps, engine, card>>

storage_task ==
    ServePump \/ ServeControl \/ ServeStream \/ ServeBatch \/ ServeFinish \/ ServeLink \/ ServeQuery

-----------------------------------------------------------------------------
(* What happens around the two tasks. *)

around == <<client, cable, drops, pc, ticket, driver, lane, queue, slot>>

\* watch_stall: the upload moved no byte for the timeout, in which a write has long ended.
Stalls ==
    /\ live # None /\ live.link = "usb" /\ dma = None
    /\ live' = None /\ owed' = live.put
    /\ UNCHANGED <<around, linked, wants, granted, bank, card>>

\* The radio's client starts and ends the upload of a map; it counts its ids from 1 too.
BleMap ==
    /\ \/ live = None /\ live' = [link |-> "ble", put |-> 1, received |-> 0, bank |-> 0]
       \/ live # None /\ live.link = "ble" /\ live' = None
    /\ UNCHANGED <<around, owed, linked, wants, granted, bank, card>>

\* The write under way ends, or another request of the storage task joins it.
WriteEnds ==
    /\ dma # None
    /\ row' = Landed /\ dma' = None
    /\ UNCHANGED <<around, engine, wants, granted, bank, published>>

\* The ride loop's pass: it alone switches the arena's owner.
RideLoop ==
    /\ granted # wants /\ granted' = wants
    /\ UNCHANGED <<around, engine, wants, bank, card>>

\* The client: a PUT, its records in order, CANCEL, LIST.
hostKeeps == <<cable, drops, pc, ticket, driver, lane, queue, slot, engine, wants, granted, bank, card>>

Linkable == pc \in Driving /\ cable /\ Len(control) < 2

HostPut ==
    /\ Linkable /\ put < MaxPut /\ (open => Pipelined)
    /\ put' = put + 1 /\ off' = 0 /\ open' = TRUE
    /\ control' = Append(control, [op |-> "PUT", put |-> put + 1])
    /\ UNCHANGED <<stream, asks, hostKeeps>>

HostRecord ==
    /\ Linkable /\ open /\ off < Declared /\ stream = <<>>
    /\ \E n \in Lengths :
         /\ off + n <= Declared
         /\ stream' = Append(stream, [put |-> put, off |-> off, len |-> n])
         /\ off' = off + n
    /\ UNCHANGED <<control, put, open, asks, hostKeeps>>

HostCancel ==
    /\ Linkable /\ open /\ asks < MaxAsks /\ asks' = asks + 1
    /\ control' = Append(control, [op |-> "CANCEL", put |-> put])
    /\ UNCHANGED <<stream, put, off, open, hostKeeps>>

HostList ==
    /\ Linkable /\ asks < MaxAsks /\ asks' = asks + 1
    /\ control' = Append(control, [op |-> "LIST"])
    /\ UNCHANGED <<stream, put, off, open, hostKeeps>>

-----------------------------------------------------------------------------

Init ==
    /\ control = <<>> /\ stream = <<>> /\ put = 0 /\ off = Declared /\ open = FALSE /\ asks = 0
    /\ cable = TRUE /\ drops = 0 /\ pc = "down" /\ ticket = 0 /\ rx = Idle /\ ret = "pass"
    /\ lane = TRUE /\ admitted = 0 /\ staged = 0 /\ stage = None /\ pending = None
    /\ queue = <<>> /\ slot = [s \in Slots |-> None]
    /\ live = None /\ owed = 0 /\ linked = FALSE /\ wants = FALSE /\ granted = FALSE
    /\ bank = [b \in Banks |-> [i \in 1 .. Half |-> None]]
    /\ dma = None /\ row = <<>> /\ published = None

\* serve_objects, driver and what they call, from one await to the next.
UsbTask ==
    \/ \E s \in Slots : Discard(s)
    \/ wait_enabled \/ reclaim \/ LinkUp \/ Serving
    \/ OnControl \/ CollectedC \/ control_record
    \/ OnStream \/ Observed \/ HoldControl \/ HoldNoLane \/ HoldExpires
    \/ AskMap \/ Asked \/ Granted \/ GrantExpires
    \/ CollectS \/ CollectedS \/ ToEngine \/ Streamed \/ Foreign \/ Copy \/ BatchDone
    \/ PumpSend \/ Sent \/ Pumped \/ Closes \/ Quits
    \/ PassEnds \/ Ended \/ CollectedE \/ StageEnds \/ Finished
    \/ DropDriver \/ Lost \/ Joined

\* The USB task is parked at an await, and others run.
Parked == pc \notin {"react", "admitted", "copy"}

Others ==
    /\ Parked
    /\ \/ storage_task
       \/ Stalls \/ BleMap \/ WriteEnds \/ RideLoop
       \/ Unplug \/ BadRecord \/ Replug
       \/ HostPut \/ HostRecord \/ HostCancel \/ HostList

Next == UsbTask \/ Others

Spec == Init /\ [][Next]_vars

-----------------------------------------------------------------------------
(* Properties. *)

\* The shape of the two tasks' state.
TypeOK ==
    /\ pc \in Driving \cup {"down", "reclaim", "pump0", "linkup", "react", "admitted", "copy", "lost", "join"}
    /\ ticket \in 0 .. 8 /\ pending \in (1 .. 8) \cup {None}
    /\ rx \in Reaction /\ ret \in {"pass", "sent", "end"}
    /\ admitted \in 0 .. MaxPut /\ staged \in 0 .. MaxPut
    /\ stage \in UsbStage \cup {None} /\ live \in Transfer \cup {None} /\ dma \in CardWrite \cup {None}
    /\ bank \in [Banks -> [1 .. Half -> Cell \cup {None}]]
    /\ row \in Seq(Cell \cup {None}) /\ Len(row) <= Declared

\* flat_store.rs `Lane`: the one reaction buffer of the link is in the lane, in one queued
\* request or in one answer, whatever call was dropped: it is never lost and never doubled.
BufferIsSomewhere ==
    Cardinality({i \in DOMAIN queue : queue[i].op \in Lends})
      + (IF lane THEN 1 ELSE 0)
      + (IF slot["engine"] # None /\ slot["engine"].lent THEN 1 ELSE 0) = 1

\* usb/v4.rs `UsbStage::pending`: no byte of a record is copied into a bank the card still reads.
NoCopyUnderDma == [][\A b \in Banks : bank'[b] # bank[b] => dma = None \/ dma.bank # b]_vars

\* usb/v4.rs `release_joined_stage`: the arena is the cable's for as long as the card reads it.
ArenaOutlivesDma == dma # None => granted

\* A map the cable published holds the client's bytes in order, although the link saw only
\* batches, half of them while the other half was being written.
PublishedIsSent ==
    published # None =>
        published.cells = [i \in 1 .. Declared |-> <<published.put, i - 1>>]

Comes(s, t) == (slot[s] # None /\ slot[s].tag = t) \/ \E j \in Jobs : j.slot = s /\ j.tag = t

\* flat_store.rs `Writer::call`, `Lane::reclaim`: whatever calls were dropped, the answer the USB
\* task waits for is in the queue or in the slot it looks at, behind no other that could
\* overwrite it; the buffer it means to reclaim is too.
AnswerOnItsWay ==
    /\ WaitsAt # None => Comes(WaitsAt, ticket)
    /\ pending # None => Comes("engine", pending)
    /\ pc = "reclaim" => \/ slot["engine"] # None /\ slot["engine"].lent
                        \/ \E j \in Jobs : j.op \in Lends
=============================================================================
