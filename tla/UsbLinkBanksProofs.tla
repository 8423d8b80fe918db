-------------------------- MODULE UsbLinkBanksProofs --------------------------
(***************************************************************************)
(* The driver never copies a byte into the bank the card's DMA reads:      *)
(* which bank is whose, across the driver, the queue, the engine and the   *)
(* card, for any number of uploads, cancels and lost cables.  Then the     *)
(* bytes in the banks: a map is published as its client sent it.           *)
(***************************************************************************)
EXTENDS UsbLinkProofs

-----------------------------------------------------------------------------
(* The invariant. *)

OnCable == live # None /\ live.link = "usb"
Asking  == {"control", "holdC", "pumpC"}

\* Every PUT that has not been answered comes after n.
Old(n) == \A i \in 1 .. Len(control) : control[i].op = "PUT" => n < control[i].put

\* The PUTs come in order, each once, and the stage is of one that has been served.
PutPart ==
    /\ \A i \in 1 .. Len(control) : control[i].op = "PUT" => control[i].put <= put
    /\ \A i, j \in 1 .. Len(control) :
         i < j /\ control[i].op = "PUT" /\ control[j].op = "PUT" => control[i].put < control[j].put
    /\ \A i \in 1 .. Len(stream) : stream[i].put <= put
    /\ staged <= put /\ Old(staged)
    /\ stage # None => stage.put = staged
    /\ pc = "grant" => staged = Frame.put
    /\ pc \notin Running => control = <<>>

\* What the driver asked about is still there.
AskedPart ==
    /\ pc \in Asking /\ queue # <<>> => queue[Len(queue)].arg = Head(control)
    /\ pc = "map" /\ queue # <<>> => queue[Len(queue)].arg = Frame.put
    /\ pc = "map" /\ queue = <<>> =>
         \/ slot["query"].value = FALSE
         \/ slot["query"].value = TRUE /\ Old(Frame.put)
    /\ pc = "ended" /\ queue # <<>> => queue[Len(queue)].arg = staged

Served(i) == i = 1 /\ pc \in Asking /\ queue = <<>> /\ live.put = control[i].put

\* The upload that is live was asked for by a PUT that is served, and is at its first bank
\* until a stage of its own sends a batch.
LivePart ==
    /\ OnCable => pc \in Running \/ (pc = "lost" /\ queue # <<>>)
    /\ OnCable /\ pc \in Running =>
         /\ live.put <= put
         /\ \A i \in 1 .. Len(control) : control[i].op = "PUT" => live.put < control[i].put \/ Served(i)
         /\ stage = None \/ stage.put # live.put => live.bank = 0

\* A write whose upload is gone goes on under a stage that is given up.
Orphan == stage # None /\ dma # None /\ dma.put = 0

Ending ==
    \/ LentSlot /\ slot["engine"].value.re # "idle"
    \/ pc = "react" /\ (rx.re # "idle" \/ ret # "pass")
    \/ pc \in {"send", "pump", "pumpC", "ended", "collectE", "finish", "quit"}

EndPart ==
    /\ Orphan => Ending /\ ~Mine(stage.put)
    /\ pc \in {"send", "pump", "pumpC"} => ret # "pass"
    /\ ret = "end" => pc \in {"react", "send", "pump", "pumpC", "finish", "quit"}
    /\ ret = "end" \/ pc = "collectE" => ~Mine(staged)
    /\ pc = "finish" => ret = "end"
    /\ pc = "ended" /\ queue = <<>> =>
         \/ slot["query"].value = TRUE /\ ~Orphan
         \/ slot["query"].value = FALSE /\ ~Mine(staged)

\* The bank the driver fills, the one that is queued and the one the card reads.
BankPart ==
    /\ stage # None /\ pending # None => stage.fill = 0
    /\ dma # None /\ dma.put # 0 => dma.bank = 1 - live.bank /\ (stage # None => stage.put = live.put)
    /\ stage # None /\ Mine(stage.put) => stage.bank = IF BatchQueued THEN 1 - live.bank ELSE live.bank
    /\ \A i \in 1 .. Len(queue) : queue[i].op = "Batch" /\ stage # None => queue[i].arg.put = stage.put

BankInvariant == UsbInvariant /\ PutPart /\ AskedPart /\ LivePart /\ EndPart /\ BankPart

-----------------------------------------------------------------------------
(* What the USB task does with the records of the client. *)

\* The records that have been released are gone from the head of their stream.
Shrinks(s, t) == t = s \/ (s # <<>> /\ t = Tail(s)) \/ t = <<>>

\* What is left of the records is where it was, or one further on.
LEMMA Shrunk ==
    ASSUME NEW S, NEW s \in Seq(S), NEW t, Shrinks(s, t)
    PROVE  /\ t \in Seq(S) /\ Len(s) \in Nat /\ Len(t) \in Nat
           /\ \E d \in {0, 1} : /\ \A i \in 1 .. Len(t) : i + d \in 1 .. Len(s) /\ t[i] = s[i + d]
                                /\ s # <<>> /\ t = Tail(s) => d = 1
                                /\ d = 1 => s # <<>> /\ t = Tail(s)
<1>1. CASE s # <<>> /\ t = Tail(s)
  <2>1. /\ t \in Seq(S) /\ Len(s) \in Nat \ {0} /\ Len(t) = Len(s) - 1
        /\ \A i \in 1 .. Len(s) - 1 : t[i] = s[i + 1]
    BY <1>1, TailFacts
  <2>2. Len(t) \in Nat /\ \A i \in 1 .. Len(t) : i + 1 \in 1 .. Len(s) /\ t[i] = s[i + 1]
    BY <2>1
  <2> QED  BY <1>1, <2>1, <2>2
<1>2. CASE ~(s # <<>> /\ t = Tail(s)) /\ t = s
  <2>1. Len(s) \in Nat  OBVIOUS
  <2>2. \A i \in 1 .. Len(t) : i + 0 \in 1 .. Len(s) /\ t[i] = s[i + 0]  BY <1>2, <2>1
  <2> QED  BY <1>2, <2>1, <2>2
<1>3. CASE ~(s # <<>> /\ t = Tail(s)) /\ t = <<>>
  <2>1. Len(s) \in Nat /\ t \in Seq(S) /\ Len(t) = 0  BY <1>3, EmptySeq
  <2>2. \A i \in 1 .. Len(t) : i + 0 \in 1 .. Len(s) /\ t[i] = s[i + 0]  BY <2>1
  <2> QED  BY <1>3, <2>1, <2>2
<1> QED  BY <1>1, <1>2, <1>3 DEF Shrinks

\* The USB task sends nothing of the client's, and leaves the engine and the card alone.
LEMMA TaskFrame ==
    ASSUME UsbInvariant, UsbTask
    PROVE  /\ UNCHANGED <<put, live, dma>>
           /\ Shrinks(control, control') /\ Shrinks(stream, stream')
<1>1. CASE \E s \in Slots : Discard(s)
  BY <1>1 DEF Discard, client, engine, card, Shrinks
<1>2. CASE wait_enabled \/ reclaim \/ LinkUp \/ Serving
  BY <1>2 DEF wait_enabled, reclaim, LinkUp, Serving, rest0, client, engine, card, Shrinks
<1>3. CASE OnControl \/ CollectedC \/ control_record \/ OnStream \/ Observed
  BY <1>3 DEF OnControl, CollectedC, control_record, OnStream, Observed, still0, client, engine, card,
       Shrinks, UsbInvariant, ClientPart
<1>4. CASE HoldControl \/ HoldNoLane \/ HoldExpires \/ AskMap \/ Asked \/ Granted \/ GrantExpires
  BY <1>4 DEF HoldControl, HoldNoLane, HoldExpires, AskMap, Asked, Granted, GrantExpires, still0, client,
       engine, card, Shrinks, Teardown
<1>5. CASE CollectS \/ CollectedS \/ ToEngine \/ Streamed \/ Foreign \/ BatchDone \/ Copy
  BY <1>5 DEF CollectS, CollectedS, ToEngine, Streamed, Foreign, BatchDone, Copy, still0, client,
       engine, card, Shrinks, UsbInvariant, ClientPart, Ready, AtCopy, AtFrame
<1>6. CASE PumpSend \/ Sent \/ Pumped \/ Closes \/ Quits \/ PassEnds \/ Ended
  BY <1>6 DEF PumpSend, Sent, Pumped, Closes, Quits, PassEnds, Ended, still0, client, engine, card,
       Shrinks, UsbInvariant, ClientPart, Teardown
<1>7. CASE CollectedE \/ StageEnds \/ Finished \/ DropDriver \/ Lost \/ Joined
  BY <1>7 DEF CollectedE, StageEnds, Finished, DropDriver, Lost, Joined, still0, client, engine, card,
       Shrinks, Teardown
<1> QED  BY <1>1, <1>2, <1>3, <1>4, <1>5, <1>6, <1>7, ZenonT(60) DEF UsbTask

\* The order of the PUTs survives the release of a record.
LEMMA PutStep ==
    ASSUME ClientPart, PutPart, put' = put, Shrinks(control, control'), Shrinks(stream, stream'),
           \/ staged' \in {staged, 0}
           \/ stream # <<>> /\ staged' = Frame.put /\ Old(Frame.put),
           \/ stage' = None
           \/ stage # None /\ stage'.put = stage.put /\ staged' = staged
           \/ stage'.put = staged',
           pc' = "grant" => \/ pc = "grant" /\ UNCHANGED <<stream, staged>>
                            \/ stream' = stream /\ staged' = Frame.put,
           pc' \in Running \/ pc \notin Running \/ control' = <<>>
    PROVE  PutPart'
<1>1. /\ control' \in Seq(Ask) /\ Len(control) \in Nat /\ Len(control') \in Nat
      /\ \E d \in {0, 1} : \A i \in 1 .. Len(control') : i + d \in 1 .. Len(control) /\ control'[i] = control[i + d]
  BY Shrunk DEF ClientPart
<1>2. PICK d \in {0, 1} : \A i \in 1 .. Len(control') : i + d \in 1 .. Len(control) /\ control'[i] = control[i + d]
  BY <1>1
<1>3. /\ Len(stream) \in Nat /\ Len(stream') \in Nat
      /\ \E e \in {0, 1} : \A i \in 1 .. Len(stream') : i + e \in 1 .. Len(stream) /\ stream'[i] = stream[i + e]
  BY Shrunk DEF ClientPart
<1>4. \A i \in 1 .. Len(stream') : stream'[i].put <= put'
  BY <1>3 DEF PutPart
<1>5. \A i, j \in 1 .. Len(control') : i < j => i + d < j + d
  BY <1>1
<1>6. \A i \in 1 .. Len(control') : control'[i].op = "PUT" => control'[i].put <= put'
  BY <1>2 DEF PutPart
<1>7. \A i, j \in 1 .. Len(control') :
         i < j /\ control'[i].op = "PUT" /\ control'[j].op = "PUT" => control'[i].put < control'[j].put
  BY <1>2, <1>5 DEF PutPart
<1>8. ASSUME NEW n, Old(n) PROVE \A i \in 1 .. Len(control') : control'[i].op = "PUT" => n < control'[i].put
  BY <1>2, <1>8 DEF Old
<1>9. Old(0)
  <2>1. \A i \in 1 .. Len(control) : control[i] \in Ask  BY DEF ClientPart
  <2> QED  BY <2>1, UsbAssumption DEF Old, Ask, Puts
<1>10. stream # <<>> => Frame.put <= put
  BY TailFacts DEF PutPart, ClientPart, Frame
<1>11. staged' <= put' /\ Old(staged')
  BY <1>9, <1>10 DEF PutPart, ClientPart
<1>12. \A i \in 1 .. Len(control') : control'[i].op = "PUT" => staged' < control'[i].put
  BY <1>8, <1>11
<1>13. pc' = "grant" => staged' = Head(stream').put  BY DEF PutPart, Frame
<1>14. pc' \notin Running => control' = <<>>
  BY DEF PutPart, Shrinks
<1> QED  BY <1>4, <1>6, <1>7, <1>11, <1>12, <1>13, <1>14 DEF PutPart, Old, Frame

\* A PUT that the driver has asked about stays at the head of its stream until it is answered.
LEMMA LiveStep ==
    ASSUME ClientPart, PutPart, LivePart, UNCHANGED <<put, live>>, Shrinks(control, control'),
           OnCable => pc' \in Running \/ (pc' = "lost" /\ queue' # <<>>),
           OnCable /\ pc \notin Running => pc' \notin Running,
           pc \in Asking /\ queue = <<>> /\ control' = control => pc' = pc /\ queue' = queue,
           \/ stage' = stage \/ stage = None
           \/ stage # None /\ stage.put # live.put
           \/ stage # None /\ stage' # None /\ stage'.put = stage.put
           \/ pc' \notin Running
    PROVE  LivePart'
<1>1. OnCable' <=> OnCable  BY DEF OnCable
<1>2. /\ Len(control) \in Nat /\ Len(control') \in Nat
      /\ \E d \in {0, 1} : /\ \A i \in 1 .. Len(control') : i + d \in 1 .. Len(control) /\ control'[i] = control[i + d]
                           /\ control # <<>> /\ control' = Tail(control) => d = 1
                           /\ d = 1 => control # <<>> /\ control' = Tail(control)
  <2>1. control \in Seq(Ask)  BY DEF ClientPart
  <2> QED  BY <2>1, Shrunk
<1>3. ASSUME OnCable, pc' \in Running
      PROVE  \A i \in 1 .. Len(control') : control'[i].op = "PUT" => live.put < control'[i].put \/ Served(i)'
  <2>1. PICK d \in {0, 1} : /\ \A i \in 1 .. Len(control') : i + d \in 1 .. Len(control) /\ control'[i] = control[i + d]
                            /\ control # <<>> /\ control' = Tail(control) => d = 1
                            /\ d = 1 => control # <<>> /\ control' = Tail(control)
    BY <1>2
  <2> SUFFICES ASSUME NEW i \in 1 .. Len(control'), control'[i].op = "PUT", ~(live.put < control'[i].put)
               PROVE  Served(i)'
    OBVIOUS
  <2>2. pc \in Running  BY <1>3
  <2>3. Served(i + d)  BY <1>3, <2>1, <2>2 DEF LivePart
  <2>4. i = 1 /\ d = 0  BY <2>3, <1>2 DEF Served
  <2>5. control' = control
    <3>1. control' # Tail(control) \/ control = <<>>  BY <2>1, <2>4
    <3>2. control' # <<>>  BY <1>2
    <3> QED  BY <3>1, <3>2 DEF Shrinks
  <2> QED  BY <2>3, <2>4, <2>5 DEF Served
<1>4. OnCable /\ pc' \in Running => live.put <= put /\ (stage' = None \/ stage'.put # live.put => live.bank = 0)
  BY DEF LivePart
<1>5. live' = live /\ put' = put /\ (OnCable => pc' \in Running \/ (pc' = "lost" /\ queue' # <<>>))
  OBVIOUS
<1> QED  BY ONLY <1>1, <1>3, <1>4, <1>5 DEF LivePart

\* Every await of the USB task keeps the PUTs in order, and the stage of one that was served.
LEMMA PutOfTask ==
    ASSUME BankInvariant, UsbTask PROVE PutPart'
<1> USE DEF BankInvariant, UsbInvariant
<1>0. /\ put' = put /\ Shrinks(control, control') /\ Shrinks(stream, stream')
      /\ ClientPart /\ PutPart
  BY TaskFrame
<1>1. CASE \E s \in Slots : Discard(s)
  <2>1. UNCHANGED <<client, pc, staged, stage>>  BY <1>1 DEF Discard, driver
  <2> QED  BY <1>0, <2>1, PutStep DEF client
<1>2. CASE wait_enabled \/ reclaim \/ LinkUp \/ Serving \/ Lost \/ Joined
  <2>1. staged' = staged /\ stage' = stage /\ pc' # "grant" /\ pc \notin Running
    BY <1>2 DEF wait_enabled, reclaim, LinkUp, Serving, Lost, Joined, rest0, still0, driver, Call, Running, Driving
  <2> QED  BY <1>0, <2>1, PutStep
<1>3. CASE OnControl \/ CollectedC \/ control_record \/ OnStream \/ Observed \/ HoldControl \/ HoldExpires
  <2>1. staged' = staged /\ stage' = stage /\ pc' # "grant" /\ pc' \in Running
    BY <1>3 DEF OnControl, CollectedC, control_record, OnStream, Observed, HoldControl, HoldExpires, driver,
         Call, LaneCall, Running, Driving
  <2> QED  BY <1>0, <2>1, PutStep
<1>4. CASE AskMap \/ GrantExpires \/ CollectS \/ CollectedS \/ ToEngine \/ Streamed \/ Foreign \/ BatchDone
  <2>1. staged' = staged /\ stage' = stage /\ pc' # "grant" /\ pc' \in Running
    BY <1>4 DEF AskMap, GrantExpires, CollectS, CollectedS, ToEngine, Streamed, Foreign, BatchDone, driver,
         Call, LaneCall, Running, Driving
  <2> QED  BY <1>0, <2>1, PutStep
<1>5. CASE PumpSend \/ Sent \/ Pumped \/ (Closes /\ stage # None) \/ PassEnds \/ Ended \/ CollectedE
  <2>1. staged' = staged /\ stage' = stage /\ pc' # "grant" /\ pc' \in Running
    BY <1>5 DEF PumpSend, Sent, Pumped, Closes, PassEnds, Ended, CollectedE, driver, Call, LaneCall,
         Running, Driving
  <2> QED  BY <1>0, <2>1, PutStep
<1>6. CASE HoldNoLane \/ Quits \/ DropDriver \/ (Closes /\ stage = None)
  <2>1. Teardown  BY <1>6 DEF HoldNoLane, Quits, DropDriver, Closes
  <2>2. staged' = 0 /\ stage' = None /\ pc' = "lost" /\ control' = <<>>  BY <2>1 DEF Teardown, Call
  <2> QED  BY <1>0, <2>2, PutStep
<1>7. CASE Asked
  <2>1. pc = "map" /\ Answered("query") /\ UNCHANGED <<stream, stage>> /\ pc' \in {"grant", "copy"}
    BY <1>7 DEF Asked, client
  <2>2. queue = <<>> /\ stage = None /\ stream # <<>>
    <3>1. Waits /\ WaitsAt = "query"  BY <2>1 DEF Waits, Quiet, WaitsAt
    <3> QED  BY <2>1, <3>1, AnsweredFacts DEF Answered, ArenaPart, ClientPart
  <2>3. \/ pc' = "grant" /\ staged' = Frame.put /\ Old(Frame.put)
        \/ pc' = "copy" /\ staged' = staged
    BY <1>7, <2>1, <2>2 DEF Asked, AskedPart, Value
  <2>4. pc' \in Running  BY <2>1 DEF Running, Driving
  <2> QED  BY <1>0, <2>1, <2>2, <2>3, <2>4, PutStep
<1>8. CASE Granted
  <2>1. staged' = staged /\ stage'.put = staged' /\ pc' = "copy"  BY <1>8 DEF Granted, PutPart
  <2> QED  BY <1>0, <2>1, PutStep DEF Running, Driving
<1>9. CASE Copy
  <2>1. staged' = staged /\ stage # None /\ pc' \in {"batch", "react"}  BY <1>9 DEF Copy
  <2>2. stage'.put = stage.put  BY <1>9, CopyStages
  <2> QED  BY <1>0, <2>1, <2>2, PutStep DEF Running, Driving
<1>10. CASE StageEnds \/ Finished
  <2>1. /\ staged' \in {staged, 0} /\ pc' \in {"finish", "idle"}
        /\ stage' = None \/ (UNCHANGED <<stage, staged>> /\ stage # None)
    BY <1>10 DEF StageEnds, Finished, Call
  <2> QED  BY <1>0, <2>1, PutStep DEF Running, Driving
<1> QED  BY <1>1, <1>2, <1>3, <1>4, <1>5, <1>6, <1>7, <1>8, <1>9, <1>10, ZenonT(60) DEF UsbTask

\* A call of the driver is made at an await that waits for none, or on an answer.
LEMMA AnsweredCall ==
    ASSUME Mail, pc \in Asking, Answered("engine") PROVE queue = <<>>
<1>1. Waits /\ WaitsAt = "engine"  BY DEF Waits, Quiet, WaitsAt, Asking
<1> QED  BY <1>1, AnsweredFacts DEF Answered

\* Every await of the USB task keeps the live upload behind its PUT, and at its first bank
\* without a stage.
LEMMA LiveOfTask ==
    ASSUME BankInvariant, UsbTask PROVE LivePart'
<1> USE DEF BankInvariant, UsbInvariant
<1>0. /\ UNCHANGED <<put, live>> /\ Shrinks(control, control')
      /\ ClientPart /\ PutPart /\ LivePart
  BY TaskFrame
<1>1. CASE \E s \in Slots : Discard(s)
  <2>1. UNCHANGED <<pc, queue, stage>>  BY <1>1 DEF Discard, driver
  <2> QED  BY <1>0, <2>1, LiveStep DEF LivePart
<1>2. CASE wait_enabled \/ reclaim \/ LinkUp \/ Serving \/ Joined
  <2>1. pc \notin Running \cup {"lost"} /\ pc \notin Asking /\ stage' = stage
    BY <1>2 DEF wait_enabled, reclaim, LinkUp, Serving, Joined, rest0, driver, Running, Driving, Asking
  <2>2. ~OnCable  BY <2>1 DEF LivePart
  <2>3. ~OnCable'  BY <1>0, <2>2 DEF OnCable
  <2> QED  BY <2>3 DEF LivePart
<1>3. CASE Lost
  <2>1. pc = "lost" /\ Answered("teardown")  BY <1>3 DEF Lost, TeardownSlot
  <2>2. Waits /\ WaitsAt = "teardown"  BY <2>1 DEF Waits, Quiet, WaitsAt, TeardownSlot
  <2>3. queue = <<>>  BY <2>1, <2>2, AnsweredFacts DEF Answered
  <2>4. ~OnCable  BY <2>1, <2>3 DEF LivePart, Running, Driving
  <2>5. ~OnCable'  BY <1>0, <2>4 DEF OnCable
  <2> QED  BY <2>5 DEF LivePart
<1>4. CASE OnControl \/ CollectedC \/ OnStream \/ Observed \/ HoldControl \/ HoldExpires
  <2>1. stage' = stage /\ pc \in Running /\ pc' \in Running /\ pc \notin Asking
    BY <1>4 DEF OnControl, CollectedC, OnStream, Observed, HoldControl, HoldExpires, driver,
         Call, LaneCall, Running, Driving, Asking
  <2> QED  BY <1>0, <2>1, LiveStep
<1>5. CASE control_record \/ Pumped
  <2>1. /\ stage' = stage /\ pc \in Running /\ pc' \in Running
        /\ pc \in Asking => control # <<>> /\ control' = Tail(control)
    BY <1>5 DEF control_record, Pumped, Running, Driving, Asking, ClientPart
  <2>2. control # <<>> /\ control' = Tail(control) => control' # control
    BY TailFacts DEF ClientPart
  <2> QED  BY <1>0, <2>1, <2>2, LiveStep
<1>6. CASE AskMap \/ Asked \/ Granted \/ GrantExpires
  <2>1. stage' = stage \/ stage = None
    BY <1>6 DEF AskMap, Asked, Granted, GrantExpires, ArenaPart, driver
  <2>2. pc \in Running /\ pc' \in Running /\ pc \notin Asking
    BY <1>6 DEF AskMap, AtFrame, Asked, Granted, GrantExpires, Call, Running, Driving, Asking
  <2> QED  BY <1>0, <2>1, <2>2, LiveStep
<1>7. CASE CollectS \/ CollectedS \/ ToEngine \/ Streamed \/ Foreign \/ BatchDone
  <2>1. stage' = stage /\ pc \in Running /\ pc' \in Running /\ pc \notin Asking
    BY <1>7 DEF CollectS, CollectedS, ToEngine, Streamed, Foreign, BatchDone, driver,
         Call, LaneCall, Running, Driving, Asking, Ready, AtCopy, AtFrame
  <2> QED  BY <1>0, <2>1, LiveStep
<1>8. CASE Copy
  <2>1. stage # None /\ pc \in Running /\ pc' \in Running /\ pc \notin Asking
    BY <1>8 DEF Copy, Ready, AtCopy, AtFrame, Running, Driving, Asking
  <2>2. stage' # None /\ stage'.put = stage.put  BY <1>8, CopyStages
  <2> QED  BY <1>0, <2>1, <2>2, LiveStep
<1>9. CASE PumpSend \/ Sent \/ (Closes /\ stage # None) \/ PassEnds \/ Ended \/ CollectedE
  <2>1. stage' = stage /\ pc \in Running /\ pc' \in Running /\ pc \notin Asking
    BY <1>9 DEF PumpSend, Sent, Closes, PassEnds, Ended, CollectedE, driver, Call, LaneCall,
         Running, Driving, Asking
  <2> QED  BY <1>0, <2>1, LiveStep
<1>10. CASE StageEnds \/ Finished
  <2>1. pc \in Running /\ pc' \in Running /\ pc \notin Asking
    BY <1>10 DEF StageEnds, Finished, Call, Running, Driving, Asking
  <2>2. stage' = stage \/ (ret = "end" /\ stage' = None)
    BY <1>10 DEF StageEnds, Finished, EndPart
  <2>3. OnCable => stage' = stage \/ stage = None \/ stage.put # live.put
    BY <2>2 DEF EndPart, PutPart, Mine, OnCable
  <2>4. CASE OnCable  BY <1>0, <2>1, <2>3, <2>4, LiveStep
  <2>5. CASE ~OnCable  BY <1>0, <2>5 DEF LivePart, OnCable
  <2> QED  BY <2>4, <2>5
<1>11. CASE HoldNoLane \/ Quits \/ DropDriver \/ (Closes /\ stage = None)
  <2>1. Teardown  BY <1>11 DEF HoldNoLane, Quits, DropDriver, Closes
  <2>2. pc' = "lost" /\ pc' \notin Running /\ queue' # <<>>
    BY <2>1, Called DEF Teardown, Call, Running, Driving
  <2> QED  BY <2>2 DEF LivePart
<1> QED  BY <1>1, <1>2, <1>3, <1>4, <1>5, <1>6, <1>7, <1>8, <1>9, <1>10, <1>11, ZenonT(60) DEF UsbTask

-----------------------------------------------------------------------------
(* What it asks, and how a stage ends. *)

\* The jobs of a queue one longer.
LEMMA LastJob ==
    ASSUME Mail, NEW job, queue' = Append(queue, job)
    PROVE  /\ queue' # <<>> /\ Len(queue) \in Nat /\ Len(queue') = Len(queue) + 1
           /\ \A i \in 1 .. Len(queue) : queue'[i] = queue[i]
           /\ queue'[Len(queue')] = job
<1>1. queue \in Seq(JobType \cup {job})
  BY SeqMonotonic DEF Mail, MailTypes
<1>2. /\ queue' # <<>> /\ Len(queue) \in Nat /\ Len(queue') = Len(queue) + 1
      /\ \A i \in 1 .. Len(queue) : queue'[i] = queue[i]
      /\ queue'[Len(queue) + 1] = job
  BY <1>1, AppendFacts
<1> QED  BY <1>2

\* The last job of a call carries what the call was made with.
LEMMA CallCarries ==
    ASSUME Mail, NEW op, NEW s, NEW arg, NEW k,
           Call(op, s, arg, k) \/ queue' = Append(queue, Job(op, s, arg))
    PROVE  queue' # <<>> /\ queue'[Len(queue')].arg = arg /\ queue'[Len(queue')].op = op
<1>1. queue' = Append(queue, Job(op, s, arg))  BY DEF Call, Send
<1>2. Job(op, s, arg).arg = arg /\ Job(op, s, arg).op = op  BY DEF Job
<1> QED  BY <1>1, <1>2, LastJob

\* An answer that is discarded is not the one awaited, which is still queued; and it never
\* brings the buffer back.
LEMMA Discarded ==
    ASSUME Mail, NEW s \in Slots, Discard(s)
    PROVE  queue # <<>> /\ pc \notin Quiet /\ (LentSlot' <=> LentSlot) /\ (LentSlot => slot'["engine"] = slot["engine"])
<1>1. s = WaitsAt /\ slot[s] # None /\ slot[s].tag # ticket /\ slot' = [slot EXCEPT ![s] = None]
  BY DEF Discard, Take
<1>2. Waits
  <2>1. WaitsAt # None  BY <1>1, NoneAssumption
  <2> QED  BY <2>1 DEF Waits, Quiet, WaitsAt, Mail, MailTypes, Running, Driving, Outside
<1>3. queue # <<>>  BY <1>1, <1>2 DEF Mail, WaitPart
<1>4. s = "engine" => ~LentSlot  BY <1>1, <1>2, <1>3, EngineWaits
<1>5. "engine" \in Slots /\ slot \in [Slots -> Answer \cup {None}]  BY DEF Slots, Mail, MailTypes
<1>6. s = "engine" => slot'["engine"] = None  BY <1>1, <1>5
<1>7. s # "engine" => slot'["engine"] = slot["engine"]  BY <1>1, <1>5
<1> QED  BY <1>2, <1>3, <1>4, <1>6, <1>7 DEF LentSlot, Waits

\* Every call of the USB task carries what it is about, and that stays where it is.
LEMMA AskedOfTask ==
    ASSUME BankInvariant, UsbTask PROVE AskedPart'
<1> USE DEF BankInvariant, UsbInvariant
<1>1. CASE \E s \in Slots : Discard(s)
  <2>1. PICK s \in Slots : Discard(s)  BY <1>1
  <2>2. UNCHANGED <<client, pc, queue, staged>>  BY <2>1 DEF Discard, driver
  <2>3. queue # <<>>  BY <2>1, Discarded
  <2> QED  BY <2>2, <2>3 DEF AskedPart, client, Frame
<1>2. CASE \/ wait_enabled \/ reclaim \/ LinkUp \/ Serving \/ Lost \/ Joined
           \/ (OnControl /\ pending # None) \/ (CollectedC /\ pc' # "control") \/ control_record
           \/ OnStream \/ Observed \/ HoldNoLane \/ HoldExpires
  <2>1. pc' \notin Asking \cup {"map", "ended"}
    BY <1>2 DEF wait_enabled, reclaim, LinkUp, Serving, Lost, Joined, OnControl, CollectedC, control_record,
         OnStream, Observed, HoldNoLane, HoldExpires, Call, Teardown, Asking
  <2> QED  BY <2>1 DEF AskedPart
<1>3. CASE \/ Asked \/ Granted \/ GrantExpires \/ CollectS \/ CollectedS \/ ToEngine \/ Streamed
           \/ Foreign \/ Copy \/ BatchDone
  <2>1. pc' \notin Asking \cup {"map", "ended"}
    BY <1>3 DEF Asked, Granted, GrantExpires, CollectS, CollectedS, ToEngine, Streamed, Foreign, Copy,
         BatchDone, Call, LaneCall, Asking
  <2> QED  BY <2>1 DEF AskedPart
<1>4. CASE \/ PumpSend \/ Pumped \/ Closes \/ Quits \/ (PassEnds /\ pc' # "ended") \/ Ended
           \/ CollectedE \/ StageEnds \/ Finished \/ DropDriver
           \/ Sent /\ pc' # "pumpC"
  <2>1. pc' \notin Asking \cup {"map", "ended"}
    BY <1>4 DEF PumpSend, Pumped, Closes, Quits, PassEnds, Ended, CollectedE, StageEnds, Finished, DropDriver,
         Sent, Call, LaneCall, Teardown, Asking
  <2> QED  BY <2>1 DEF AskedPart
<1>5. CASE \/ OnControl /\ pending = None
           \/ CollectedC /\ pc' = "control"
           \/ HoldControl
           \/ Sent /\ pc' = "pumpC"
  <2>1. /\ control' = control /\ pc' \in Asking
        /\ \E k \in {"control", "holdC", "pumpC"} :
             \/ Call("Control", "engine", Head(control), k)
             \/ queue' = Append(queue, Job("Control", "engine", Head(control)))
    BY <1>5 DEF OnControl, CollectedC, HoldControl, Sent, LaneCall, Call, client, Asking
  <2>2. queue' # <<>> /\ queue'[Len(queue')].arg = Head(control)  BY <2>1, CallCarries
  <2> QED  BY <2>1, <2>2 DEF AskedPart, Asking
<1>6. CASE AskMap
  <2>1. stream' = stream /\ pc' = "map" /\ Call("UsbMapUpload", "query", Frame.put, "map")
    BY <1>6 DEF AskMap, Call, client
  <2>2. queue' # <<>> /\ queue'[Len(queue')].arg = Frame.put  BY <2>1, CallCarries
  <2> QED  BY <2>1, <2>2 DEF AskedPart, Asking, Frame
<1>7. CASE PassEnds /\ pc' = "ended"
  <2>1. staged' = staged /\ pc' = "ended" /\ Call("UsbMapUpload", "query", staged, "ended")
    BY <1>7 DEF PassEnds
  <2>2. queue' # <<>> /\ queue'[Len(queue')].arg = staged  BY <2>1, CallCarries
  <2> QED  BY <2>1, <2>2 DEF AskedPart, Asking
<1> QED  BY <1>1, <1>2, <1>3, <1>4, <1>5, <1>6, <1>7, ZenonT(60) DEF UsbTask

\* A step under which the stage stays, is given back or is new, and that ends no stage.
LEMMA EndStep ==
    ASSUME EndPart, UNCHANGED <<live, dma>>,
           \/ stage' = None \/ dma = None
           \/ stage # None /\ stage'.put = stage.put,
           stage' # None /\ dma # None /\ Orphan /\ Ending => Ending',
           pc' \notin {"send", "pump", "pumpC", "collectE", "finish", "ended"}, ret' # "end"
    PROVE  EndPart'
<1>1. Orphan' => Orphan /\ stage # None /\ stage'.put = stage.put /\ stage' # None /\ dma # None
  BY DEF Orphan
<1>2. Orphan' => Ending' /\ ~Mine(stage.put)'  BY <1>1 DEF EndPart, Mine
<1> QED  BY <1>2 DEF EndPart

\* A stage that ends, and every await on the way to it: the engine has told the driver that the
\* upload is gone, or is asked whether it is.
LEMMA EndOfTask ==
    ASSUME BankInvariant, UsbTask PROVE EndPart'
<1> USE DEF BankInvariant, UsbInvariant
<1>0. UNCHANGED <<live, dma>> /\ EndPart  BY TaskFrame
<1>1. CASE \E s \in Slots : Discard(s)
  <2>1. PICK s \in Slots : Discard(s)  BY <1>1
  <2>2. UNCHANGED <<pc, ret, rx, queue, staged, stage>>  BY <2>1 DEF Discard, driver
  <2>3. queue # <<>> /\ (LentSlot => LentSlot' /\ slot'["engine"] = slot["engine"])  BY <2>1, Discarded
  <2>4. Orphan' <=> Orphan  BY <1>0, <2>2 DEF Orphan
  <2>5. Ending => Ending'  BY <2>2, <2>3 DEF Ending
  <2> QED  BY <1>0, <2>2, <2>3, <2>4, <2>5 DEF EndPart, Mine
<1>2. CASE wait_enabled \/ reclaim \/ LinkUp \/ Serving \/ Lost \/ Joined
  <2>1. /\ stage = None /\ stage' = stage /\ ret' = ret
        /\ pc \notin Running /\ pc' \notin {"react", "send", "pump", "pumpC", "collectE", "finish", "ended"}
    BY <1>2 DEF wait_enabled, reclaim, LinkUp, Serving, Lost, Joined, rest0, still0, driver, Call, Running,
         Driving, ArenaPart
  <2>2. ret # "end"  BY <2>1 DEF EndPart, Running, Driving
  <2> QED  BY <1>0, <2>1, <2>2, EndStep
<1>3. CASE OnControl \/ OnStream \/ Observed \/ HoldControl \/ HoldExpires \/ AskMap
  <2>1. /\ stage' = stage /\ ret' = ret /\ pc \in {"idle", "query", "hold", "admitted"}
        /\ pc' \in {"collectC", "control", "query", "admitted", "hold", "holdC", "map"}
    <3>1. CASE OnControl  BY <3>1 DEF OnControl, LaneCall, Call
    <3>2. CASE OnStream \/ HoldControl \/ HoldExpires \/ AskMap
      BY <3>2 DEF OnStream, HoldControl, HoldExpires, AskMap, AtFrame, Call, LaneCall, driver
    <3>3. CASE Observed  BY <3>3 DEF Observed
    <3> QED  BY <1>3, <3>1, <3>2, <3>3
  <2>a. slot'["engine"] = slot["engine"]
    <3>1. slot' = slot \/ slot' = [slot EXCEPT !["query"] = None]
      BY <1>3 DEF OnControl, OnStream, Observed, HoldControl, HoldExpires, AskMap, Take
    <3>2. slot \in [Slots -> Answer \cup {None}]  BY DEF Mail, MailTypes
    <3> QED  BY <3>1, <3>2 DEF Slots
  <2>2. Ending => Ending'  BY <2>1, <2>a DEF Ending, LentSlot
  <2>3. ret # "end"  BY <2>1 DEF EndPart
  <2>4. stage' = None \/ (stage # None /\ stage'.put = stage.put)  BY <2>1
  <2> QED  BY <1>0, <2>1, <2>2, <2>3, <2>4, EndStep
<1>4. CASE Asked \/ Granted \/ GrantExpires
  <2>1. /\ stage = None /\ ret' = ret /\ pc \in {"map", "grant"} /\ pc' \in {"grant", "copy"}
    BY <1>4 DEF Asked, Granted, GrantExpires, ArenaPart, driver
  <2>2. ret # "end"  BY <2>1 DEF EndPart
  <2>3. dma = None  BY <2>1 DEF ArenaPart
  <2> QED  BY <1>0, <2>1, <2>2, <2>3, EndStep
<1>5. CASE CollectS \/ ToEngine \/ Foreign \/ Copy
  <2>1. /\ ret' = ret /\ pc \in {"copy", "idle", "admitted"} /\ pc' \in {"collectS", "stream", "react", "batch"}
        /\ slot'["engine"] = slot["engine"]
    BY <1>5 DEF CollectS, ToEngine, Foreign, Copy, Ready, AtCopy, AtFrame, LaneCall, Call, driver
  <2>2. Ending => Ending'  BY <2>1 DEF Ending, LentSlot
  <2>3. ret # "end"  BY <2>1 DEF EndPart
  <2>4. stage' = None \/ (stage # None /\ stage'.put = stage.put)
    BY <1>5, CopyStages DEF CollectS, ToEngine, Foreign, driver
  <2> QED  BY <1>0, <2>1, <2>2, <2>3, <2>4, EndStep
<1>6. CASE CollectedC \/ control_record \/ CollectedS \/ Streamed \/ BatchDone
  <2>1. /\ ret' = ret /\ stage' = stage /\ pc \in {"collectC", "control", "holdC", "collectS", "stream", "batch"}
        /\ \/ pc' = "react" /\ rx' = slot["engine"].value
           \/ pc' \in {"control", "copy"} /\ slot["engine"].value.re = "idle"
    BY <1>6 DEF CollectedC, control_record, CollectedS, Streamed, BatchDone, Value
  <2>2. Ending => Ending'  BY <2>1 DEF Ending
  <2>3. ret # "end"  BY <2>1 DEF EndPart
  <2>4. stage' = None \/ (stage # None /\ stage'.put = stage.put)  BY <2>1
  <2> QED  BY <1>0, <2>1, <2>2, <2>3, <2>4, EndStep
<1>7. CASE HoldNoLane \/ Quits \/ DropDriver \/ (Closes /\ stage = None)
  <2>1. Teardown  BY <1>7 DEF HoldNoLane, Quits, DropDriver, Closes
  <2>2. stage' = None /\ pc' = "lost" /\ ret' = "pass"  BY <2>1 DEF Teardown, Call
  <2> QED  BY <1>0, <2>2, EndStep
<1>8. CASE PumpSend \/ Sent
  <2>1. /\ pc \in {"react", "send"} /\ pc' \in {"send", "pump", "pumpC"} /\ UNCHANGED <<stage, staged>>
        /\ ret' # "pass" /\ (ret' = "end" <=> ret = "end")
    BY <1>8 DEF PumpSend, Sent, LaneCall, Call, driver, EndPart
  <2>2. Ending'  BY <2>1 DEF Ending
  <2> QED  BY <1>0, <2>1, <2>2 DEF EndPart, Orphan, Mine
<1>9. CASE Pumped
  <2>1. pc \in {"pump", "pumpC"} /\ pc' = "react" /\ UNCHANGED <<ret, stage, staged>>  BY <1>9 DEF Pumped
  <2>2. ret # "pass" /\ Ending'  BY <2>1 DEF EndPart, Ending
  <2> QED  BY <1>0, <2>1, <2>2 DEF EndPart, Orphan, Mine
<1>10. CASE Closes /\ stage # None
  <2>1. pc \in {"react", "send"} /\ pc' = "quit" /\ UNCHANGED <<ret, stage, staged>>
    BY <1>10 DEF Closes, Call, driver
  <2> QED  BY <1>0, <2>1 DEF EndPart, Ending, Orphan, Mine
<1>11. CASE PassEnds
  <2>1. pc = "react" /\ rx.re = "idle" /\ ret # "end" /\ ret' = "pass" /\ UNCHANGED <<stage, staged, slot>>
    BY <1>11 DEF PassEnds
  <2>2. CASE staged # 0 /\ MayHaveEnded
    <3>1. pc' = "ended" /\ queue' # <<>>  BY <1>11, <2>2, Called DEF PassEnds, Call
    <3> QED  BY <1>0, <2>1, <3>1 DEF EndPart, Ending, Orphan, Mine
  <2>3. CASE ~(staged # 0 /\ MayHaveEnded)
    <3>1. pc' = "idle"  BY <1>11, <2>3 DEF PassEnds
    <3>2. stage # None => staged # 0  BY DEF ArenaPart
    <3>3. stage # None => ret = "pass"  BY <2>1, <2>3, <3>2 DEF MayHaveEnded, DriverPart
    <3>4. Orphan /\ Ending => Ending'  BY <2>1, <3>3 DEF Ending, Orphan, LentSlot
    <3> QED  BY <1>0, <2>1, <3>1, <3>4, EndStep
  <2> QED  BY <2>2, <2>3
<1>12. CASE Ended
  <2>1. pc = "ended" /\ Answered("query") /\ UNCHANGED <<stage, staged>>  BY <1>12 DEF Ended
  <2>2. Waits /\ WaitsAt = "query"  BY <2>1 DEF Waits, Quiet, WaitsAt
  <2>3. queue = <<>>  BY <2>1, <2>2, AnsweredFacts DEF Answered
  <2>4. CASE Value("query")
    <3>1. ~Orphan  BY <2>1, <2>3, <2>4 DEF EndPart, Value
    <3>2. pc' = "idle" /\ ret' = ret /\ ret # "end"  BY <1>12, <2>1, <2>4 DEF Ended, EndPart
    <3> QED  BY <1>0, <2>1, <3>1, <3>2, EndStep
  <2>5. CASE ~Value("query")
    <3>1. ~Mine(staged)  BY <2>1, <2>3, <2>5 DEF EndPart, Value
    <3>2. \/ pc' = "collectE" /\ ret' = ret
          \/ pc' = "react" /\ ret' = "end"
      <4>1. Value("query") = FALSE  BY <2>1, <2>3, <2>5 DEF EndPart, Value
      <4> QED  BY <1>12, <4>1 DEF Ended
    <3>3. ret # "end"  BY <2>1 DEF EndPart
    <3>4. Ending'  BY <3>2 DEF Ending
    <3> QED  BY <1>0, <2>1, <3>1, <3>2, <3>3, <3>4 DEF EndPart, Orphan, Mine
  <2> QED  BY <2>4, <2>5
<1>13. CASE CollectedE
  <2>1. pc = "collectE" /\ pc' = "react" /\ ret' = "end" /\ UNCHANGED <<stage, staged>>  BY <1>13 DEF CollectedE
  <2> QED  BY <1>0, <2>1 DEF EndPart, Ending, Orphan, Mine
<1>14. CASE StageEnds
  <2>1. pc = "react" /\ ret = "end" /\ stage' = stage  BY <1>14 DEF StageEnds
  <2>2. CASE stage # None
    <3>1. pc' = "finish" /\ UNCHANGED <<ret, staged>>  BY <1>14, <2>2 DEF StageEnds, Call
    <3> QED  BY <1>0, <2>1, <3>1 DEF EndPart, Ending, Orphan, Mine
  <2>3. CASE stage = None
    <3>1. pc' = "idle" /\ ret' = "pass"  BY <1>14, <2>3 DEF StageEnds
    <3> QED  BY <1>0, <2>1, <2>3, <3>1, EndStep
  <2> QED  BY <2>2, <2>3
<1>15. CASE Finished
  <2>1. pc' = "idle" /\ ret' = "pass" /\ stage' = None  BY <1>15 DEF Finished
  <2> QED  BY <1>0, <2>1, EndStep
<1> QED  BY <1>1, <1>2, <1>3, <1>4, <1>5, <1>6, <1>7, <1>8, <1>9, <1>10, <1>11, <1>12, <1>13, <1>14, <1>15,
            ZenonT(60)
         DEF UsbTask

-----------------------------------------------------------------------------
(* Which bank is whose, under the USB task. *)

\* The banks stay whose they are while no stage is new, none is filled and no batch is sent.
LEMMA BankStep ==
    ASSUME BankPart, UNCHANGED <<live, dma>>, BatchQueued' <=> BatchQueued,
           stage' \in {stage, None}, pending' \in {pending, None},
           \/ queue' = queue
           \/ \E job : /\ queue' = Append(queue, job) /\ job.op # "Batch"
                       /\ Len(queue) \in Nat /\ Len(queue') = Len(queue) + 1
                       /\ \A i \in 1 .. Len(queue) : queue'[i] = queue[i]
                       /\ queue'[Len(queue')] = job
    PROVE  BankPart'
<1>1. Mine(stage.put)' <=> Mine(stage'.put)  BY DEF Mine
<1>2. \A i \in 1 .. Len(queue') : queue'[i].op = "Batch" => i \in 1 .. Len(queue) /\ queue'[i] = queue[i]
  OBVIOUS
<1>3. \A i \in 1 .. Len(queue') : queue'[i].op = "Batch" /\ stage' # None => queue'[i].arg.put = stage'.put
  BY <1>2 DEF BankPart
<1>4. stage' # None /\ pending' # None => stage'.fill = 0  BY DEF BankPart
<1>5. dma' # None /\ dma'.put # 0 => dma'.bank = 1 - live'.bank /\ (stage' # None => stage'.put = live'.put)
  BY DEF BankPart
<1>6. stage' # None /\ Mine(stage.put)' => stage'.bank = IF BatchQueued' THEN 1 - live'.bank ELSE live'.bank
  BY DEF BankPart, Mine
<1> QED  BY ONLY <1>3, <1>4, <1>5, <1>6 DEF BankPart

\* A call that sends no batch, or none.
LEMMA BankOfCall ==
    ASSUME Mail, BankPart, UNCHANGED <<live, dma>>, stage' \in {stage, None}, pending' \in {pending, None},
           \/ queue' = queue
           \/ \E op, s, arg : queue' = Append(queue, Job(op, s, arg)) /\ op # "Batch"
    PROVE  BankPart'
<1>1. CASE queue' = queue
  <2>1. BatchQueued' <=> BatchQueued  BY <1>1 DEF BatchQueued
  <2> QED  BY <1>1, <2>1, BankStep
<1>2. ASSUME NEW op, NEW s, NEW arg, queue' = Append(queue, Job(op, s, arg)), op # "Batch" PROVE BankPart'
  <2>1. BatchQueued' <=> BatchQueued  BY <1>2, Called
  <2>2. Job(op, s, arg).op # "Batch"  BY <1>2 DEF Job
  <2>3. /\ Len(queue) \in Nat /\ Len(queue') = Len(queue) + 1
        /\ \A i \in 1 .. Len(queue) : queue'[i] = queue[i]
        /\ queue'[Len(queue')] = Job(op, s, arg)
    BY <1>2, LastJob
  <2> QED  BY <1>2, <2>1, <2>2, <2>3, BankStep
<1> QED  BY <1>1, <1>2

\* At a copy no batch is queued, the buffer is in the lane, and no write is one of an upload that
\* is gone.
LEMMA AtACopy ==
    ASSUME BankInvariant, Copy
    PROVE  /\ pending = None /\ queue = <<>> /\ ~BatchQueued /\ pc \in {"idle", "admitted", "copy"}
           /\ dma # None => dma.put # 0
<1> USE DEF BankInvariant, UsbInvariant
<1>1. pc \in {"idle", "admitted", "copy"} /\ stage # None /\ (stage.fill > 0 \/ pending = None)
  BY DEF Copy, Ready, AtCopy, AtFrame
<1>2. pending = None
  <2>1. stage.fill = 0 => ~(stage.fill > 0)  OBVIOUS
  <2> QED  BY <1>1, <2>1 DEF BankPart
<1>3. pc # "lost" /\ ~Waits /\ pc \notin LaneWaits  BY <1>1 DEF Waits, Quiet, LaneWaits
<1>4. queue = <<>>  BY <1>2, <1>3, QuietFacts
<1>5. ~BatchQueued
  <2>1. Len(queue) = 0  BY <1>4
  <2> QED  BY <2>1 DEF BatchQueued
<1>6. lane /\ ~LentSlot  BY <1>1, <1>2, <1>3 DEF Mail, BufferPart
<1>7. ~Orphan  BY <1>1, <1>6 DEF EndPart, Ending
<1> QED  BY <1>1, <1>2, <1>4, <1>5, <1>7 DEF Orphan

\* Every await of the USB task keeps the two banks apart.
LEMMA BankOfTask ==
    ASSUME BankInvariant, UsbTask PROVE BankPart'
<1> USE DEF BankInvariant, UsbInvariant
<1>0. UNCHANGED <<live, dma>> /\ BankPart /\ Mail  BY TaskFrame
<1>1. CASE \E s \in Slots : Discard(s)
  <2>1. UNCHANGED <<stage, pending, queue>>  BY <1>1 DEF Discard, driver
  <2> QED  BY <1>0, <2>1, BankOfCall
<1>2. CASE wait_enabled \/ reclaim \/ LinkUp \/ Serving \/ Lost \/ Joined
  <2>1. /\ UNCHANGED <<stage, pending>>
        /\ \/ queue' = queue
           \/ \E op \in {"Pump", "LinkUp", "FinishUsbStage"} :
                \E s, arg : queue' = Append(queue, Job(op, s, arg))
    BY <1>2 DEF wait_enabled, reclaim, LinkUp, Serving, Lost, Joined, rest0, driver, Call, Send
  <2> QED  BY <1>0, <2>1, BankOfCall
<1>3. CASE OnControl \/ CollectedC \/ HoldControl \/ Sent
  <2>1. /\ stage' = stage /\ pending' \in {pending, None}
        /\ \/ queue' = queue
           \/ \E op \in {"Control", "Pump"} : \E s, arg : queue' = Append(queue, Job(op, s, arg))
    BY <1>3 DEF OnControl, CollectedC, HoldControl, Sent, LaneCall, Call, Send, driver
  <2> QED  BY <1>0, <2>1, BankOfCall
<1>4. CASE OnStream \/ AskMap \/ ToEngine \/ PassEnds \/ StageEnds \/ (Closes /\ stage # None)
  <2>1. /\ UNCHANGED <<stage, pending>>
        /\ \/ queue' = queue
           \/ \E op \in {"LiveTransfer", "UsbMapUpload", "Stream", "FinishUsbStage"} :
                \E s, arg : queue' = Append(queue, Job(op, s, arg))
    BY <1>4 DEF OnStream, AskMap, ToEngine, PassEnds, StageEnds, Closes, LaneCall, Call, Send, driver
  <2> QED  BY <1>0, <2>1, BankOfCall
<1>5. CASE control_record \/ Observed \/ HoldExpires \/ Asked \/ GrantExpires \/ CollectS \/ CollectedS
  <2>1. UNCHANGED <<stage, queue>> /\ pending' \in {pending, None}
    BY <1>5 DEF control_record, Observed, HoldExpires, Asked, GrantExpires, CollectS, CollectedS, driver
  <2> QED  BY <1>0, <2>1, BankOfCall
<1>6. CASE Streamed \/ Foreign \/ BatchDone \/ PumpSend \/ Pumped \/ CollectedE
  <2>1. UNCHANGED <<stage, pending, queue>>
    BY <1>6 DEF Streamed, Foreign, BatchDone, PumpSend, Pumped, CollectedE
  <2> QED  BY <1>0, <2>1, BankOfCall
<1>7. CASE Ended \/ Finished
  <2>1. queue' = queue /\ stage' \in {stage, None} /\ pending' \in {pending, None}
    BY <1>7 DEF Ended, Finished
  <2> QED  BY <1>0, <2>1, BankOfCall
<1>8. CASE HoldNoLane \/ Quits \/ DropDriver \/ (Closes /\ stage = None)
  <2>1. Teardown  BY <1>8 DEF HoldNoLane, Quits, DropDriver, Closes
  <2>2. stage' = None /\ pending' = None /\ queue' = Append(queue, Job("LinkLost", TeardownSlot, 0))
    BY <2>1 DEF Teardown, Call, Send
  <2> QED  BY <1>0, <2>2, BankOfCall
<1>9. CASE Granted
  <2>1. /\ pc = "grant" /\ stage = None /\ UNCHANGED <<pending, queue>>
        /\ stage' = [put |-> Frame.put, received |-> 0, bank |-> 0, fill |-> 0]
    BY <1>9 DEF Granted, ArenaPart
  <2>2. dma = None /\ ~BatchQueued  BY <2>1 DEF ArenaPart
  <2>3. stage'.bank = 0 /\ stage'.fill = 0  BY <2>1
  <2>4. \A n : Mine(n) => live.bank = 0  BY <2>1 DEF LivePart, OnCable, Mine, Running, Driving
  <2>5. \A n : Mine(n)' <=> Mine(n)  BY <1>0 DEF Mine
  <2>6. ~BatchQueued'  BY <2>1, <2>2 DEF BatchQueued
  <2>7. stage' # None /\ Mine(stage.put)' => stage'.bank = IF BatchQueued' THEN 1 - live'.bank ELSE live'.bank
    BY <1>0, <2>3, <2>4, <2>6 DEF Mine
  <2>8. \A i \in 1 .. Len(queue') : queue'[i].op # "Batch"  BY <2>6 DEF BatchQueued
  <2>9. dma' = None  BY <1>0, <2>2
  <2> QED  BY ONLY <2>3, <2>7, <2>8, <2>9 DEF BankPart
<1>10. CASE Copy
  <2>1. /\ pending = None /\ queue = <<>> /\ ~BatchQueued  BY <1>10, AtACopy
  <2>2. stage # None /\ stage' # None /\ stage'.put = stage.put  BY <1>10, CopyStages
  <2>3. Mine(stage.put)' <=> Mine(stage.put)  BY <1>0, <2>2 DEF Mine
  <2>4. dma' # None /\ dma'.put # 0 => dma'.bank = 1 - live'.bank /\ stage'.put = live'.put
    BY <1>0, <2>2 DEF BankPart
  <2>5. Mine(stage.put) => stage.bank = live.bank  BY <2>1, <2>2 DEF BankPart
  <2>6. CASE granted /\ BatchDue
    <3>1. queue' = Append(queue, Job("Batch", "engine", Batch))  BY <1>10, <2>6 DEF Copy, Send
    <3> DEFINE job == Job("Batch", "engine", Batch)
    <3>2. job.op = "Batch" /\ job.arg.put = stage.put  BY DEF Job, Batch
    <3> HIDE DEF job
    <3>3. BatchQueued' /\ Len(queue') = Len(queue) + 1 /\ queue'[Len(queue')] = job /\ Len(queue) = 0
      BY <2>1, <3>1, <3>2, Appended, LastJob DEF job
    <3>4. \A i \in 1 .. Len(queue') : queue'[i] = job  BY <3>3
    <3>5. stage'.fill = 0 /\ stage'.bank = 1 - stage.bank  BY <1>10, <2>6, CopyStages DEF Other
    <3>6. Mine(stage.put)' => stage'.bank = 1 - live'.bank  BY <1>0, <2>3, <2>5, <3>5
    <3>7. \A i \in 1 .. Len(queue') : queue'[i].arg.put = stage'.put  BY <2>2, <3>2, <3>4
    <3> QED  BY ONLY <2>2, <2>4, <3>3, <3>5, <3>6, <3>7 DEF BankPart
  <2>7. CASE ~(granted /\ BatchDue)
    <3>1. UNCHANGED <<queue, pending>>  BY <1>10, <2>7 DEF Copy
    <3>2. stage'.bank = stage.bank  BY <1>10, <2>7, CopyStages
    <3>3. ~BatchQueued'  BY <2>1, <3>1 DEF BatchQueued
    <3>4. \A i \in 1 .. Len(queue') : queue'[i].op # "Batch"  BY <3>3 DEF BatchQueued
    <3>5. Mine(stage.put)' => stage'.bank = live'.bank  BY <1>0, <2>3, <2>5, <3>2
    <3>6. pending' = None  BY <2>1, <3>1
    <3> QED  BY ONLY <2>2, <2>4, <3>3, <3>4, <3>5, <3>6 DEF BankPart
  <2> QED  BY <2>6, <2>7
<1> QED  BY <1>1, <1>2, <1>3, <1>4, <1>5, <1>6, <1>7, <1>8, <1>9, <1>10, ZenonT(60) DEF UsbTask

-----------------------------------------------------------------------------
(* What the storage task does with a job. *)

\* Which await a job may be of, and what is left behind it.
LEMMA JobFacts ==
    ASSUME Mail, queue # <<>>, queue' = Tail(queue)
    PROVE  /\ Len(queue) \in Nat \ {0} /\ Len(queue') = Len(queue) - 1 /\ TheJob = queue[1] /\ TheJob \in JobType
           /\ \A i \in 1 .. Len(queue') : i + 1 \in 1 .. Len(queue) /\ queue'[i] = queue[i + 1]
           /\ queue' # <<>> => queue'[Len(queue')] = queue[Len(queue)]
           /\ queue' = <<>> => TheJob = queue[Len(queue)]
           /\ TheJob.op = "LinkLost" => pc = "lost"
           /\ TheJob.op = "LinkUp" => pc = "linkup"
           /\ TheJob.op = "Control" => pc \in Asking \/ (pc = "lost" /\ queue' # <<>>)
           /\ pc = "lost" /\ queue' = <<>> => TheJob.op = "LinkLost"
           /\ pc \in {"map", "ended"} /\ queue' = <<>> => TheJob.op = "UsbMapUpload" /\ TheJob.slot = "query"
<1>1. /\ TheJob \in JobType /\ TheJob = queue[1] /\ Len(queue) \in Nat \ {0} /\ Len(queue') = Len(queue) - 1
      /\ \A i \in 1 .. Len(queue) - 1 : queue'[i] = queue[i + 1]
      /\ queue' = <<>> <=> Len(queue) = 1
  BY TailFacts DEF Mail, MailTypes, TheJob
<1> HIDE DEF TheJob
<1>a. Len(queue) \in Nat \ {0} /\ Len(queue') = Len(queue) - 1 /\ (queue' = <<>> <=> Len(queue) = 1)
  BY <1>1
<1>b. \A i \in 1 .. Len(queue) - 1 : queue'[i] = queue[i + 1]  BY <1>1
<1>2. \A i \in 1 .. Len(queue') : i + 1 \in 1 .. Len(queue) /\ queue'[i] = queue[i + 1]
  BY <1>a, <1>b
<1>3. queue' # <<>> => queue'[Len(queue')] = queue[Len(queue)]
  <2>1. queue' # <<>> => Len(queue') \in 1 .. Len(queue') /\ Len(queue') + 1 = Len(queue)  BY <1>a
  <2> QED  BY <2>1, <1>2
<1>4. queue' = <<>> => TheJob = queue[Len(queue)]  BY <1>1
<1>5. Waits => IsOwn(queue[Len(queue)])  BY DEF Mail, WaitPart
<1>6. pc # "lost" => IsOwn(TheJob) \/ IsDeferred(TheJob)
  <2>1. 1 \in 1 .. Len(queue)  BY <1>a
  <2> QED  BY <1>1, <2>1 DEF Mail, QueuePart
<1>7. pc = "lost" => Waits /\ OwnOp = "LinkLost"  BY DEF Waits, Quiet, OwnOp
<1>8. pc = "lost" /\ queue' # <<>> => TheJob.op \notin {"LinkUp", "LinkLost"}
  <2>1. queue' # <<>> => 1 \in 1 .. Len(queue) - 1  BY <1>a
  <2> QED  BY <1>1, <2>1 DEF Mail, QueuePart
<1>9. pc = "lost" /\ queue' = <<>> => TheJob.op = "LinkLost"
  BY <1>4, <1>5, <1>7 DEF IsOwn
<1>10. pc \in {"map", "ended"} /\ queue' = <<>> => TheJob.op = "UsbMapUpload" /\ TheJob.slot = "query"
  <2>1. pc \in {"map", "ended"} => Waits /\ OwnOp = "UsbMapUpload"  BY DEF Waits, Quiet, OwnOp
  <2>2. pc \in {"map", "ended"} /\ queue' = <<>> => TheJob.op = "UsbMapUpload"
    BY <2>1, <1>4, <1>5 DEF IsOwn
  <2> QED  BY <1>1, <2>2, JobSlots
<1>11. /\ Waits /\ OwnOp = "LinkLost" => pc = "lost"
       /\ Waits /\ OwnOp = "LinkUp" => pc = "linkup"
       /\ Waits /\ OwnOp = "Control" => pc \in Asking
  BY DEF Waits, Quiet, OwnOp, Asking, Mail, MailTypes, Running, Driving, Outside
<1>12. TheJob.op \in {"LinkLost", "LinkUp", "Control"} => pc = "lost" \/ (Waits /\ OwnOp = TheJob.op)
  BY <1>6 DEF IsOwn, IsDeferred
<1>13. /\ TheJob.op = "LinkLost" => pc = "lost"
       /\ TheJob.op = "LinkUp" => pc = "linkup"
       /\ TheJob.op = "Control" => pc \in Asking \/ (pc = "lost" /\ queue' # <<>>)
  BY <1>8, <1>9, <1>11, <1>12
<1> QED  BY <1>1, <1>2, <1>3, <1>4, <1>9, <1>10, <1>13

\* No two batches are queued.
LEMMA OneBatch ==
    ASSUME Mail, queue # <<>>, queue' = Tail(queue)
    PROVE  /\ TheJob.op = "Batch" => BatchQueued /\ ~BatchQueued'
           /\ TheJob.op # "Batch" => (BatchQueued' <=> BatchQueued)
<1>1. /\ Len(queue) \in Nat \ {0} /\ Len(queue') = Len(queue) - 1 /\ TheJob = queue[1]
      /\ \A i \in 1 .. Len(queue') : i + 1 \in 1 .. Len(queue) /\ queue'[i] = queue[i + 1]
  BY JobFacts
<1> HIDE DEF TheJob
<1>a. Len(queue) \in Nat \ {0} /\ Len(queue') = Len(queue) - 1  BY <1>1
<1>2. 1 \in 1 .. Len(queue)  BY <1>a
<1>3. \A i \in 1 .. Len(queue) : i = 1 \/ (i - 1 \in 1 .. Len(queue') /\ (i - 1) + 1 = i)
  BY <1>a
<1>4. \A i \in 1 .. Len(queue') : i + 1 # 1  BY <1>a
<1>5. \A i \in 1 .. Len(queue) : queue[i].op = "Batch" => LentJob(i)  BY DEF LentJob, Lends
<1>6. ASSUME TheJob.op = "Batch" PROVE BatchQueued /\ ~BatchQueued'
  <2>1. \A i \in 1 .. Len(queue) : queue[i].op = "Batch" => i = 1
    BY <1>1, <1>2, <1>5, <1>6 DEF Mail, BufferPart
  <2> QED  BY <1>1, <1>2, <1>4, <1>6, <2>1 DEF BatchQueued
<1>7. ASSUME TheJob.op # "Batch" PROVE BatchQueued' <=> BatchQueued
  <2>1. ASSUME NEW i \in 1 .. Len(queue), queue[i].op = "Batch" PROVE BatchQueued'
    <3>1. i # 1  BY <1>1, <1>7, <2>1
    <3>2. i - 1 \in 1 .. Len(queue') /\ queue'[i - 1] = queue[i]  BY <3>1, <1>1, <1>3
    <3> QED  BY <2>1, <3>2 DEF BatchQueued
  <2> QED  BY <2>1, <1>1 DEF BatchQueued
<1> QED  BY <1>6, <1>7

\* An answer leaves the PUTs and what is still asked as they were; a question about an upload is
\* answered with whether it is the cable's.
LEMMA AskedServed ==
    ASSUME BankInvariant, queue # <<>>, NEW value, Reply(value), UNCHANGED taskKeeps,
           TheJob.op = "UsbMapUpload" => value = Mine(TheJob.arg)
    PROVE  PutPart' /\ AskedPart'
<1> USE DEF BankInvariant, UsbInvariant
<1>1. UNCHANGED <<control, stream, put, staged, stage, pc>>  BY DEF taskKeeps, client, driver
<1>2. PutPart'  BY <1>1 DEF PutPart, Old, Frame
<1>3. /\ queue' = Tail(queue)
      /\ slot' = [slot EXCEPT ![TheJob.slot] =
                    [tag |-> TheJob.tag, lent |-> TheJob.op \in Lends, value |-> value]]
  BY DEF Reply
<1>4. /\ queue' # <<>> => queue'[Len(queue')] = queue[Len(queue)]
      /\ queue' = <<>> => TheJob = queue[Len(queue)]
      /\ pc \in {"map", "ended"} /\ queue' = <<>> => TheJob.op = "UsbMapUpload" /\ TheJob.slot = "query"
  BY <1>3, JobFacts
<1> HIDE DEF TheJob
<1>5. ASSUME pc = "map", queue' = <<>>
      PROVE  slot'["query"].value = FALSE \/ (slot'["query"].value = TRUE /\ Old(Frame.put))
  <2>1. TheJob.op = "UsbMapUpload" /\ TheJob.slot = "query" /\ TheJob.arg = Frame.put
    BY <1>4, <1>5 DEF AskedPart
  <2>2. value = Mine(Frame.put)  BY <2>1
  <2>3. slot'["query"].value = value  BY <1>3, <2>1 DEF Mail, MailTypes, Slots
  <2>4. ASSUME Mine(Frame.put) PROVE Old(Frame.put)
    <3>1. OnCable /\ pc \in Running /\ pc \notin Asking /\ live.put = Frame.put
      BY <1>5, <2>4 DEF Mine, OnCable, Running, Driving, Asking
    <3> QED  BY <3>1 DEF LivePart, Served, Old
  <2>5. Mine(Frame.put) = TRUE \/ Mine(Frame.put) = FALSE  BY DEF Mine
  <2> QED  BY <2>2, <2>3, <2>4, <2>5
<1>6. Old(Frame.put)' <=> Old(Frame.put)  BY <1>1 DEF Old, Frame
<1>7. AskedPart'
  <2>1. pc \in Asking /\ queue' # <<>> => queue'[Len(queue')].arg = Head(control)  BY <1>4 DEF AskedPart
  <2>2. pc = "map" /\ queue' # <<>> => queue'[Len(queue')].arg = Frame.put  BY <1>4 DEF AskedPart
  <2>3. pc = "ended" /\ queue' # <<>> => queue'[Len(queue')].arg = staged  BY <1>4 DEF AskedPart
  <2> QED  BY <1>1, <1>5, <1>6, <2>1, <2>2, <2>3 DEF AskedPart, Frame
<1> QED  BY <1>2, <1>7

\* An upload that goes on, or ends, was asked for by the same PUT as before.
LEMMA LiveServed ==
    ASSUME BankInvariant, queue # <<>>, queue' = Tail(queue), UNCHANGED taskKeeps,
           OnCable' => /\ OnCable /\ live'.put = live.put
                       /\ live'.bank = live.bank \/ pc \notin Running \/ (stage # None /\ stage.put = live.put),
           TheJob.op = "LinkLost" => ~OnCable'
    PROVE  LivePart'
<1> USE DEF BankInvariant, UsbInvariant
<1>1. UNCHANGED <<control, put, stage, pc>>  BY DEF taskKeeps, client, driver
<1>2. pc = "lost" /\ queue' = <<>> => ~OnCable'  BY JobFacts
<1>3. ASSUME OnCable' PROVE pc \in Running \/ (pc = "lost" /\ queue' # <<>>)
  BY <1>2, <1>3 DEF LivePart
<1>4. ASSUME OnCable', pc \in Running
      PROVE  /\ live'.put <= put
             /\ \A i \in 1 .. Len(control) : control[i].op = "PUT" => live'.put < control[i].put
             /\ stage = None \/ stage.put # live'.put => live'.bank = 0
  BY <1>4 DEF LivePart, Served
<1> QED  BY <1>1, <1>3, <1>4 DEF LivePart

\* A stage whose upload ends is told so; what is under way for it goes on.
LEMMA EndServed ==
    ASSUME BankInvariant, queue # <<>>, NEW value, Reply(value), UNCHANGED taskKeeps,
           pc \in Running /\ Mine(staged)' => Mine(staged),
           Orphan' => ~Mine(staged)' /\ (Orphan \/ (TheJob.op \in Lends /\ value \in Reaction /\ value.re # "idle")),
           TheJob.op = "UsbMapUpload" => value = Mine(TheJob.arg) /\ UNCHANGED <<live, dma>>
    PROVE  EndPart'
<1> USE DEF BankInvariant, UsbInvariant
<1>1. UNCHANGED <<staged, stage, pc, ret, rx>>  BY DEF taskKeeps, driver
<1>2. /\ queue' = Tail(queue)
      /\ slot' = [slot EXCEPT ![TheJob.slot] =
                    [tag |-> TheJob.tag, lent |-> TheJob.op \in Lends, value |-> value]]
  BY DEF Reply
<1>3. /\ TheJob \in JobType /\ TheJob = queue[1] /\ Len(queue) \in Nat \ {0}
      /\ queue' = <<>> => TheJob = queue[Len(queue)]
      /\ pc \in {"map", "ended"} /\ queue' = <<>> => TheJob.op = "UsbMapUpload" /\ TheJob.slot = "query"
      /\ TheJob.op = "LinkUp" => pc = "linkup"
  BY <1>2, JobFacts
<1> HIDE DEF TheJob
<1>4. slot \in [Slots -> Answer \cup {None}] /\ TheJob.slot \in Slots /\ "engine" \in Slots /\ "query" \in Slots
  BY <1>3, JobSlots DEF Mail, MailTypes, Slots
<1>6. ASSUME Orphan' PROVE Ending'
  <2>1. stage # None /\ pc \in Running  BY <1>1, <1>6 DEF Orphan, ArenaPart
  <2>2. CASE TheJob.op \in Lends /\ value \in Reaction /\ value.re # "idle"
    <3>1. TheJob.slot = "engine"  BY <1>3, <2>2, JobSlots
    <3> DEFINE answer == [tag |-> TheJob.tag, lent |-> TheJob.op \in Lends, value |-> value]
    <3>2. (TheJob.op \in Lends) = TRUE  BY <2>2
    <3>3. TheJob.tag \in 1 .. 8  BY <1>3, JobSlots DEF Tags
    <3>4. answer \in Answer  BY <2>2, <3>2, <3>3, Zenon DEF Answer
    <3>5. answer # None /\ answer.lent /\ answer.value = value
      BY <3>2, <3>4, NoneAssumption
    <3>6. slot'["engine"] = answer  BY <1>2, <1>4, <3>1
    <3> HIDE DEF answer
    <3>7. slot'["engine"] # None /\ slot'["engine"].lent /\ slot'["engine"].value = value
      BY <3>5, <3>6
    <3> QED  BY <2>2, <3>7 DEF Ending, LentSlot
  <2>3. CASE ~(TheJob.op \in Lends /\ value \in Reaction /\ value.re # "idle")
    <3>1. Orphan  BY <1>6, <2>3
    <3>2. Ending  BY <3>1 DEF EndPart
    <3>3. CASE LentSlot /\ slot["engine"].value.re # "idle"
      <4>1. TheJob.op \notin Lends
        <5>1. 1 \in 1 .. Len(queue)  BY <1>3
        <5> QED  BY <1>3, <3>3, <5>1 DEF Mail, BufferPart, LentJob
      <4>2. TheJob.op # "LinkUp"  BY <1>3, <2>1 DEF Running, Driving
      <4>3. TheJob.slot # "engine"  BY <1>3, <4>1, <4>2, JobSlots
      <4>4. slot'["engine"] = slot["engine"]  BY <1>2, <1>4, <4>3
      <4> QED  BY <3>3, <4>4 DEF Ending, LentSlot
    <3>4. CASE ~(LentSlot /\ slot["engine"].value.re # "idle")
      BY <1>1, <3>2, <3>4 DEF Ending
    <3> QED  BY <3>3, <3>4
  <2> QED  BY <2>2, <2>3
<1>7. Orphan' => ~Mine(stage.put)'
  <2>1. Orphan' => stage # None /\ stage.put = staged  BY <1>1 DEF Orphan, PutPart
  <2>2. Orphan' => ~Mine(staged)'  OBVIOUS
  <2> QED  BY <1>1, <2>1, <2>2 DEF Mine
<1>8. ASSUME pc = "ended", queue' = <<>>
      PROVE  \/ slot'["query"].value = TRUE /\ ~Orphan'
             \/ slot'["query"].value = FALSE /\ ~Mine(staged)'
  <2>1. TheJob.op = "UsbMapUpload" /\ TheJob.slot = "query" /\ TheJob.arg = staged
    BY <1>3, <1>8 DEF AskedPart
  <2>2. value = Mine(staged) /\ UNCHANGED <<live, dma>>  BY <2>1
  <2>3. slot'["query"].value = value  BY <1>2, <1>4, <2>1
  <2>4. Mine(staged) = TRUE \/ Mine(staged) = FALSE  BY DEF Mine
  <2>5. Mine(staged)' <=> Mine(staged)  BY <1>1, <2>2 DEF Mine
  <2>6. Mine(staged) => ~Orphan'  BY <2>5
  <2> QED  BY <2>2, <2>3, <2>4, <2>5, <2>6
<1>9. ret = "end" \/ pc = "collectE" => ~Mine(staged)'
  <2>1. ret = "end" \/ pc = "collectE" => pc \in Running  BY DEF EndPart, Running, Driving
  <2> QED  BY <2>1 DEF EndPart
<1> QED  BY <1>1, <1>6, <1>7, <1>8, <1>9 DEF EndPart

\* The banks after a job.
LEMMA BankServed ==
    ASSUME BankInvariant, queue # <<>>, queue' = Tail(queue), UNCHANGED taskKeeps,
           dma' # None /\ dma'.put # 0 => dma'.bank = 1 - live'.bank /\ (stage # None => stage.put = live'.put),
           stage # None /\ Mine(stage.put)' => stage.bank = IF BatchQueued' THEN 1 - live'.bank ELSE live'.bank
    PROVE  BankPart'
<1> USE DEF BankInvariant, UsbInvariant
<1>1. UNCHANGED <<stage, pending>>  BY DEF taskKeeps, driver
<1>2. \A i \in 1 .. Len(queue') : i + 1 \in 1 .. Len(queue) /\ queue'[i] = queue[i + 1]
  BY JobFacts
<1>3. \A i \in 1 .. Len(queue') : queue'[i].op = "Batch" /\ stage' # None => queue'[i].arg.put = stage'.put
  BY <1>1, <1>2 DEF BankPart
<1>4. stage' # None /\ pending' # None => stage'.fill = 0  BY <1>1 DEF BankPart
<1>5. dma' # None /\ dma'.put # 0 => dma'.bank = 1 - live'.bank /\ (stage' # None => stage'.put = live'.put)
  BY <1>1
<1>6. stage' # None /\ Mine(stage.put)' => stage'.bank = IF BatchQueued' THEN 1 - live'.bank ELSE live'.bank
  BY <1>1
<1> QED  BY ONLY <1>3, <1>4, <1>5, <1>6 DEF BankPart

\* What is left to show of a job when the transfer goes on as it was.
LEMMA StaysServed ==
    ASSUME BankInvariant, UsbInvariant', queue # <<>>, NEW value, Reply(value), UNCHANGED taskKeeps,
           OnCable' => OnCable /\ live'.put = live.put /\ live'.bank = live.bank,
           OnCable => OnCable', dma' = dma \/ dma' = None,
           TheJob.op # "LinkLost", TheJob.op = "Batch" => ~Mine(TheJob.arg.put),
           TheJob.op = "UsbMapUpload" => value = Mine(TheJob.arg) /\ UNCHANGED <<live, dma>>
    PROVE  BankInvariant'
<1> USE DEF BankInvariant, UsbInvariant
<1>1. queue' = Tail(queue)  BY DEF Reply
<1>2. UNCHANGED <<staged, stage, pc>>  BY DEF taskKeeps, driver
<1>3. \A n : Mine(n)' => Mine(n)  BY DEF Mine, OnCable
<1>4. PutPart' /\ AskedPart'  BY AskedServed
<1>5. LivePart'  BY <1>1, LiveServed
<1>6. Orphan' => Orphan /\ ~Mine(staged)'
  <2>1. Orphan' => Orphan  BY <1>2 DEF Orphan
  <2>2. Orphan => ~Mine(staged)  BY DEF EndPart, Orphan, PutPart
  <2>3. Mine(staged)' => Mine(staged)  BY <1>2, <1>3 DEF Mine
  <2> QED  BY <2>1, <2>2, <2>3
<1>7. Mine(staged)' => Mine(staged)  BY <1>2, <1>3 DEF Mine
<1>8. EndPart'  BY <1>6, <1>7, EndServed
<1>9. BankPart'
  <2>1. dma' # None /\ dma'.put # 0 => dma'.bank = 1 - live'.bank /\ (stage # None => stage.put = live'.put)
    <3>1. dma' # None /\ dma'.put # 0 => dma' = dma /\ OnCable  BY DEF CardPart, OnCable
    <3>2. OnCable => live'.put = live.put /\ live'.bank = live.bank  OBVIOUS
    <3> QED  BY <3>1, <3>2 DEF BankPart
  <2>2. ASSUME stage # None, Mine(stage.put)'
        PROVE  stage.bank = IF BatchQueued' THEN 1 - live'.bank ELSE live'.bank
    <3>1. Mine(stage.put) /\ OnCable  BY <1>2, <1>3, <2>2 DEF Mine, OnCable
    <3>2. live'.bank = live.bank  BY <3>1
    <3>3. TheJob.op # "Batch"
      <4>1. TheJob = queue[1] /\ 1 \in 1 .. Len(queue)  BY JobCarries
      <4> HIDE DEF TheJob
      <4>2. TheJob.op = "Batch" => TheJob.arg.put = stage.put  BY <2>2, <4>1 DEF BankPart
      <4> QED  BY <3>1, <4>2
    <3>4. BatchQueued' <=> BatchQueued  BY <1>1, <3>3, OneBatch
    <3> QED  BY <2>2, <3>1, <3>2, <3>4 DEF BankPart
  <2> QED  BY <1>1, <2>1, <2>2, BankServed
<1> QED  BY <1>4, <1>5, <1>8, <1>9

\* And when the transfer ends: a write of its goes on only under a stage that is told so.
LEMMA DropServed ==
    ASSUME BankInvariant, UsbInvariant', queue # <<>>, NEW value, Reply(value), UNCHANGED taskKeeps,
           ~OnCable', TheJob.op # "UsbMapUpload",
           Orphan' => Orphan \/ (TheJob.op \in Lends /\ value \in Reaction /\ value.re # "idle")
    PROVE  BankInvariant'
<1> USE DEF BankInvariant, UsbInvariant
<1>1. queue' = Tail(queue)  BY DEF Reply
<1>2. UNCHANGED <<staged, stage, pc>>  BY DEF taskKeeps, driver
<1>3. ~Mine(staged)' /\ (stage # None => ~Mine(stage.put)')  BY DEF Mine, OnCable
<1>4. PutPart' /\ AskedPart'  BY AskedServed
<1>5. LivePart'  BY DEF LivePart
<1>6. EndPart'  BY <1>3, EndServed
<1>7. dma' # None /\ dma'.put # 0 => OnCable'  BY DEF CardPart, OnCable
<1>8. BankPart'  BY <1>1, <1>3, <1>7, BankServed
<1> QED  BY <1>4, <1>5, <1>6, <1>8

\* A PUT that starts an upload is the first of the client's that is not answered.
LEMMA NewServed ==
    ASSUME BankInvariant, ServeControl, TheJob.arg.op = "PUT", live = None, dma' = Orphaned,
           live' = [link |-> "usb", put |-> TheJob.arg.put, received |-> 0, bank |-> 0], React("idle", 0)
    PROVE  BankInvariant'
<1> USE DEF BankInvariant, UsbInvariant
<1>0. /\ UsbInvariant' /\ queue # <<>> /\ TheJob.op = "Control" /\ UNCHANGED taskKeeps
      /\ Reply([re |-> "idle", to |-> 0]) /\ queue' = Tail(queue)
  BY ServesControl DEF ServeControl, React, Reply
<1> HIDE DEF BankInvariant, UsbInvariant
<1>1. UNCHANGED <<control, put, staged, stage, pc>>  BY <1>0 DEF taskKeeps, client, driver
<1>2. /\ TheJob = queue[1] /\ Len(queue) \in Nat \ {0} /\ Len(queue') = Len(queue) - 1
      /\ queue' = <<>> => TheJob = queue[Len(queue)]
      /\ pc \in Asking \/ (pc = "lost" /\ queue' # <<>>)
  BY <1>0, JobFacts DEF BankInvariant, UsbInvariant
<1>a. 1 \in 1 .. Len(queue)  BY <1>2
<1>b. TheJob.arg \in Ask  BY <1>0, JobCarries DEF BankInvariant, UsbInvariant
<1> DEFINE n == TheJob.arg.put
<1>3. n \in Puts /\ n \in Nat /\ n # 0  BY <1>b DEF Ask, Puts
<1>4. live'.put = n /\ live'.bank = 0  OBVIOUS
<1>5. ASSUME pc \in Running
      PROVE  /\ pc \in Asking /\ queue' = <<>> /\ control # <<>> /\ Len(control) \in Nat \ {0}
             /\ TheJob.arg = control[1] /\ control[1].op = "PUT"
  <2>1. pc \in Asking  BY <1>2, <1>5 DEF Running, Driving
  <2>2. ~(Len(queue) = 2)
    BY <1>0, <1>2, <2>1 DEF Asking, BankInvariant, UsbInvariant, Mail, QueuePart, IsDeferred
  <2>3. Len(queue) <= 2  BY <2>1 DEF Asking, BankInvariant, UsbInvariant, Mail, QueuePart
  <2>4. Len(queue) = 1  BY <1>2, <2>2, <2>3
  <2>5. queue' = <<>>
    <3>1. queue \in Seq(JobType)  BY DEF BankInvariant, UsbInvariant, Mail, MailTypes
    <3> QED  BY <1>0, <2>4, <3>1, TailFacts
  <2>6. control # <<>> /\ control \in Seq(Ask)
    BY <2>1 DEF Asking, BankInvariant, UsbInvariant, ClientPart
  <2>7. Len(control) \in Nat \ {0} /\ Head(control) = control[1]  BY <2>6, TailFacts
  <2>8. TheJob.arg = Head(control)
    BY <1>0, <1>2, <2>1, <2>5 DEF BankInvariant, AskedPart
  <2> QED  BY <2>1, <2>5, <2>6, <2>7, <2>8
<1> HIDE DEF TheJob
<1>6. pc \in Running => ~Mine(staged)'
  <2>1. ASSUME pc \in Running PROVE staged < n
    <3>1. 1 \in 1 .. Len(control)  BY <1>5, <2>1
    <3> QED  BY <1>5, <2>1, <3>1 DEF BankInvariant, PutPart, Old
  <2>2. staged \in Nat  BY DEF BankInvariant, UsbInvariant, DriverPart
  <2> QED  BY <1>1, <1>3, <1>4, <2>1, <2>2 DEF Mine
<1>7. PutPart' /\ AskedPart'  BY <1>0, AskedServed
<1>8. LivePart'
  <2>1. ASSUME pc \in Running
        PROVE  /\ live'.put <= put
               /\ \A i \in 1 .. Len(control) : control[i].op = "PUT" => live'.put < control[i].put \/ Served(i)'
    <3>1. 1 \in 1 .. Len(control)  BY <1>5, <2>1
    <3>2. n <= put  BY <1>5, <2>1, <3>1 DEF BankInvariant, PutPart
    <3>3. ASSUME NEW i \in 1 .. Len(control), control[i].op = "PUT", i # 1 PROVE n < control[i].put
      <4>1. 1 < i  BY <1>5, <2>1, <3>3
      <4> QED  BY <1>5, <2>1, <3>1, <3>3, <4>1 DEF BankInvariant, PutPart
    <3>4. control[1].op = "PUT" => Served(1)'  BY <1>1, <1>4, <1>5, <2>1 DEF Served
    <3> QED  BY <1>4, <3>2, <3>3, <3>4
  <2> QED  BY <1>1, <1>2, <1>4, <2>1 DEF LivePart, Asking, Running, Driving
<1>9. Orphan' => Orphan /\ pc \in Running
  <2>1. dma # None => dma.put = 0  BY DEF BankInvariant, UsbInvariant, CardPart
  <2>2. Orphan' => stage # None /\ dma # None  BY <1>1, OrphanedIsThere DEF Orphan
  <2>3. stage # None => pc \in Running  BY DEF BankInvariant, UsbInvariant, ArenaPart
  <2> QED  BY <2>1, <2>2, <2>3 DEF Orphan
<1>10. EndPart'  BY <1>0, <1>6, <1>9, EndServed
<1>11. BankPart'
  <2>1. dma' # None => dma'.put = 0
    <3>1. dma # None => dma \in CardWrite  BY DEF BankInvariant, UsbInvariant, CardPart
    <3>2. dma # None => dma' = [dma EXCEPT !.put = 0]  BY DEF Orphaned
    <3> QED  BY <3>1, <3>2, OrphanedIsThere DEF CardWrite
  <2>2. stage # None => pc \in Running /\ stage.put = staged
    BY DEF BankInvariant, UsbInvariant, ArenaPart, PutPart
  <2>3. stage # None => ~Mine(stage.put)'  BY <1>1, <1>6, <2>2 DEF Mine
  <2> QED  BY <1>0, <2>1, <2>3, BankServed
<1> QED  BY <1>0, <1>7, <1>8, <1>10, <1>11 DEF BankInvariant

\* The batch of a stage is the cable's upload's: its bank goes to the card, and the other one to
\* the driver.
LEMMA SwapServed ==
    ASSUME BankInvariant, ServeBatch, granted, Mine(TheJob.arg.put),
           live' = [live EXCEPT !.received = @ + TheJob.arg.len, !.bank = 1 - @],
           dma' = [bank |-> live.bank, len |-> TheJob.arg.len, put |-> TheJob.arg.put], React("idle", 0)
    PROVE  BankInvariant'
<1> USE DEF BankInvariant, UsbInvariant
<1>0. /\ UsbInvariant' /\ queue # <<>> /\ TheJob.op = "Batch" /\ UNCHANGED taskKeeps
      /\ Reply([re |-> "idle", to |-> 0]) /\ queue' = Tail(queue)
  BY ServesBatch DEF ServeBatch, React, Reply
<1>1. /\ TheJob = queue[1] /\ 1 \in 1 .. Len(queue) /\ TheJob.arg \in Record  BY <1>0, JobCarries
<1>2. BatchQueued /\ ~BatchQueued'  BY <1>0, OneBatch
<1>3. UNCHANGED <<staged, stage, pc>>  BY <1>0 DEF taskKeeps, driver
<1> DEFINE n == TheJob.arg.put
<1>4. n \in Puts /\ n # 0  BY <1>1 DEF Record, Puts
<1>5. stage # None => stage.put = n
  <2> HIDE DEF TheJob
  <2> QED  BY <1>0, <1>1 DEF BankPart
<1>6. pc \in Running => stage # None  BY <1>2 DEF ArenaPart, Running, Driving
<1>7. /\ OnCable /\ live \in Transfer /\ live.put = n /\ live.bank \in {0, 1} /\ live.link = "usb"
  BY MineFacts DEF OnCable, Banks
<1>8. live'.put = n /\ live'.bank = 1 - live.bank /\ live'.link = "usb"
  BY <1>7 DEF Transfer
<1>9. dma'.put = n /\ dma'.bank = live.bank  OBVIOUS
<1> HIDE DEF n, TheJob, BankInvariant, UsbInvariant
<1>10. live' # None
  <2>1. live' \in Transfer \cup {None} /\ dma' # None
    <3>1. dma' \in CardWrite
      <4>1. live.bank \in Banks /\ TheJob.arg.len \in 1 .. Half /\ TheJob.arg.put \in 0 .. MaxPut
        BY <1>1, <1>7, Reactions DEF Banks, Record
      <4> QED  BY <4>1 DEF CardWrite
    <3> QED  BY <1>0, <3>1, NoneAssumption DEF UsbInvariant, CardPart
  <2> QED  BY <1>0, <1>4, <1>9, <2>1 DEF UsbInvariant, CardPart
<1>11. OnCable' /\ (\A k : Mine(k)' => Mine(k))  BY <1>7, <1>8, <1>10 DEF OnCable, Mine
<1>12. PutPart' /\ AskedPart'  BY <1>0, AskedServed
<1>13. LivePart'  BY <1>0, <1>5, <1>6, <1>7, <1>8, LiveServed
<1>14. ~Orphan'  BY <1>4, <1>9 DEF Orphan
<1>15. Mine(staged)' => Mine(staged)  BY <1>3, <1>11 DEF Mine
<1>16. EndPart'  BY <1>0, <1>14, <1>15, EndServed
<1>17. BankPart'
  <2>1. dma'.bank = 1 - live'.bank  BY <1>7, <1>8, <1>9
  <2>2. stage # None => Mine(stage.put)  BY <1>5, <1>7 DEF Mine, OnCable
  <2>3. stage # None => stage.bank = 1 - live.bank  BY <1>2, <2>2 DEF BankInvariant, BankPart
  <2>4. stage # None => stage.bank = IF BatchQueued' THEN 1 - live'.bank ELSE live'.bank
    BY <1>2, <1>8, <2>3
  <2> QED  BY <1>0, <1>5, <1>8, <2>1, <2>4, BankServed
<1> QED  BY <1>0, <1>12, <1>13, <1>16, <1>17 DEF BankInvariant

\* Where the transfer and the card are after a transfer that goes on, or that ends.
LEMMA TransferKept ==
    ASSUME UNCHANGED <<live, dma>>
    PROVE  /\ OnCable' => OnCable /\ live'.put = live.put /\ live'.bank = live.bank
           /\ OnCable => OnCable'
           /\ dma' = dma \/ dma' = None
  BY DEF OnCable

\* The reactions of an upload that ends and of a link that is closed are not idle.
LEMMA NotIdle ==
    /\ [re |-> "send", to |-> 0] \in Reaction /\ [re |-> "send", to |-> 0].re # "idle"
    /\ [re |-> "close", to |-> 0] \in Reaction /\ [re |-> "close", to |-> 0].re # "idle"
    /\ \A n \in 0 .. MaxPut : [re |-> "send", to |-> n] \in Reaction /\ [re |-> "send", to |-> n].re # "idle"
  BY Reactions

\* A pump, a join and a query leave the transfer as it was; a link that comes or goes ends it.
LEMMA BanksOfSimple ==
    ASSUME BankInvariant, ServePump \/ ServeFinish \/ ServeLink \/ ServeQuery
    PROVE  BankInvariant'
<1> USE DEF BankInvariant
<1>0. UsbInvariant'  BY ServesSimple
<1>1. CASE ServePump
  <2>1. /\ queue # <<>> /\ TheJob.op \notin {"LinkLost", "Batch", "UsbMapUpload"} /\ UNCHANGED taskKeeps
        /\ UNCHANGED <<live, dma>> /\ \E value : Reply(value)
    BY <1>1 DEF ServePump, React, card
  <2> HIDE DEF BankInvariant
  <2> QED  BY <1>0, <2>1, TransferKept, StaysServed
<1>2. CASE ServeFinish
  <2>1. /\ queue # <<>> /\ TheJob.op \notin {"LinkLost", "Batch", "UsbMapUpload"} /\ UNCHANGED taskKeeps
        /\ UNCHANGED live /\ dma' = None /\ \E value : Reply(value)
    BY <1>2 DEF ServeFinish, engine
  <2>2. (OnCable' => OnCable /\ live'.put = live.put /\ live'.bank = live.bank) /\ (OnCable => OnCable')
    BY <2>1 DEF OnCable
  <2> HIDE DEF BankInvariant
  <2> QED  BY <1>0, <2>1, <2>2, StaysServed
<1>3. CASE ServeQuery
  <2>1. /\ queue # <<>> /\ TheJob.op \notin {"LinkLost", "Batch"} /\ UNCHANGED taskKeeps
        /\ UNCHANGED <<live, dma>>
    BY <1>3 DEF ServeQuery, engine, card
  <2>2. \E value : Reply(value) /\ (TheJob.op = "UsbMapUpload" => value = Mine(TheJob.arg))
    BY <1>3 DEF ServeQuery
  <2> HIDE DEF BankInvariant
  <2> QED  BY <1>0, <2>1, <2>2, TransferKept, StaysServed
<1>4. CASE ServeLink
  <2>1. /\ queue # <<>> /\ TheJob.op \in {"LinkUp", "LinkLost"} /\ UNCHANGED taskKeeps /\ Reply(TRUE)
        /\ live' = IF live # None /\ live.link = "usb" THEN None ELSE live
        /\ queue' = Tail(queue)
    BY <1>4 DEF ServeLink, Reply
  <2>2. ~OnCable'  BY <2>1 DEF OnCable
  <2>3. pc \in {"linkup", "lost"}  BY <2>1, JobFacts DEF UsbInvariant
  <2>4. stage = None /\ stage' = stage  BY <2>1, <2>3 DEF UsbInvariant, ArenaPart, taskKeeps, driver, Running, Driving
  <2>5. ~Orphan'  BY <2>4 DEF Orphan
  <2>6. TheJob.op # "UsbMapUpload"  BY <2>1
  <2> HIDE DEF BankInvariant
  <2> QED  BY <1>0, <2>1, <2>2, <2>5, <2>6, DropServed
<1> QED  BY <1>1, <1>2, <1>3, <1>4

\* A PUT starts an upload, a CANCEL ends the one that is live.
LEMMA BanksOfControl ==
    ASSUME BankInvariant, ServeControl PROVE BankInvariant'
<1>0. /\ UsbInvariant' /\ queue # <<>> /\ TheJob.op = "Control" /\ UNCHANGED taskKeeps
      /\ TheJob.op \notin {"LinkLost", "Batch", "UsbMapUpload"} /\ TheJob.op \in Lends
  BY ServesControl DEF ServeControl, BankInvariant, Lends
<1> DEFINE c == TheJob.arg
<1>1. CASE UNCHANGED <<live, dma>> /\ \E value : Reply(value)
  BY <1>0, <1>1, TransferKept, StaysServed
<1>2. CASE /\ c.op = "PUT" /\ live = None /\ React("idle", 0) /\ dma' = Orphaned
           /\ live' = [link |-> "usb", put |-> c.put, received |-> 0, bank |-> 0]
  BY <1>2, NewServed
<1>3. CASE live' = None /\ React("send", 0)
  <2>1. ~OnCable'  BY <1>3 DEF OnCable
  <2>2. Reply([re |-> "send", to |-> 0])  BY <1>3 DEF React
  <2> QED  BY <1>0, <2>1, <2>2, NotIdle, DropServed
<1> QED  BY <1>1, <1>2, <1>3 DEF ServeControl, React, card

\* A record that the engine takes without a stage goes to no bank.
LEMMA BanksOfStream ==
    ASSUME BankInvariant, ServeStream PROVE BankInvariant'
<1>0. /\ UsbInvariant' /\ queue # <<>> /\ TheJob.op = "Stream" /\ UNCHANGED taskKeeps
      /\ TheJob.op \notin {"LinkLost", "Batch", "UsbMapUpload"} /\ TheJob.op \in Lends
  BY ServesStream DEF ServeStream, BankInvariant, Lends
<1> DEFINE f == TheJob.arg
<1>1. CASE UNCHANGED <<live, dma>> /\ React("idle", 0)
  <2>1. \E value : Reply(value)  BY <1>1 DEF React
  <2> QED  BY <1>0, <1>1, <2>1, TransferKept, StaysServed
<1>2. CASE Mine(f.put) /\ live' = None /\ React("send", live.put)
  <2>1. ~OnCable'  BY <1>2 DEF OnCable
  <2>2. Reply([re |-> "send", to |-> live.put])  BY <1>2 DEF React
  <2>3. live.put \in 0 .. MaxPut  BY <1>2, MineFacts, Reactions DEF BankInvariant, UsbInvariant
  <2> QED  BY <1>0, <2>1, <2>2, <2>3, NotIdle, DropServed
<1>3. CASE /\ Mine(f.put) /\ live' = [live EXCEPT !.received = @ + f.len] /\ dma' = None /\ React("idle", 0)
           /\ f.off = live.received /\ f.off + f.len < Declared
  <2>1. OnCable /\ live \in Transfer  BY <1>3, MineFacts DEF OnCable, BankInvariant, UsbInvariant
  <2>2. live'.put = live.put /\ live'.bank = live.bank /\ live'.link = live.link /\ live' \in Transfer
    <3>1. f \in Record  BY <1>0, JobCarries DEF BankInvariant, UsbInvariant
    <3>2. f.off + f.len \in 0 .. Declared - 1
      <4>1. f.off \in Nat /\ f.len \in Nat /\ Declared \in Nat  BY <3>1, UsbAssumption DEF Record
      <4> QED  BY <1>3, <4>1
    <3> QED  BY <1>3, <2>1, <3>2 DEF Transfer
  <2>3. OnCable'  BY <2>1, <2>2, NoneAssumption DEF OnCable
  <2>4. \E value : Reply(value)  BY <1>3 DEF React
  <2> QED  BY <1>0, <1>3, <2>1, <2>2, <2>3, <2>4, StaysServed
<1> QED  BY <1>1, <1>2, <1>3 DEF ServeStream, Fails, Commit, engine, card

\* A batch swaps the banks, ends its upload, closes the link or is of an upload that is gone.
LEMMA BanksOfBatch ==
    ASSUME BankInvariant, ServeBatch PROVE BankInvariant'
<1>0. /\ UsbInvariant' /\ queue # <<>> /\ TheJob.op = "Batch" /\ UNCHANGED taskKeeps
      /\ TheJob.op \notin {"LinkLost", "UsbMapUpload"} /\ TheJob.op \in Lends
  BY ServesBatch DEF ServeBatch, BankInvariant, Lends
<1> DEFINE b == TheJob.arg
<1>1. CASE ~Mine(b.put) /\ UNCHANGED <<live, dma>> /\ React("idle", 0)
  <2>1. \E value : Reply(value)  BY <1>1 DEF React
  <2> QED  BY <1>0, <1>1, <2>1, TransferKept, StaysServed
<1>2. CASE Mine(b.put) /\ live' = None /\ React("send", live.put)
  <2>1. ~OnCable'  BY <1>2 DEF OnCable
  <2>2. Reply([re |-> "send", to |-> live.put])  BY <1>2 DEF React
  <2>3. live.put \in 0 .. MaxPut  BY <1>2, MineFacts, Reactions DEF BankInvariant, UsbInvariant
  <2> QED  BY <1>0, <2>1, <2>2, <2>3, NotIdle, DropServed
<1>3. CASE React("close", 0) /\ live' = IF live # None /\ live.link = "usb" THEN None ELSE live
  <2>1. ~OnCable'  BY <1>3 DEF OnCable
  <2>2. Reply([re |-> "close", to |-> 0])  BY <1>3 DEF React
  <2> QED  BY <1>0, <2>1, <2>2, NotIdle, DropServed
<1>4. CASE /\ granted /\ Mine(b.put) /\ live' = [live EXCEPT !.received = @ + b.len, !.bank = 1 - @]
           /\ dma' = [bank |-> live.bank, len |-> b.len, put |-> b.put] /\ React("idle", 0)
  BY <1>4, SwapServed
<1> QED  BY <1>1, <1>2, <1>3, <1>4 DEF ServeBatch, Fails, Commit, engine, card

\* Whatever the storage task serves, the banks stay apart.
LEMMA BanksOfStorage ==
    ASSUME BankInvariant, storage_task PROVE BankInvariant'
  BY BanksOfSimple, BanksOfControl, BanksOfStream, BanksOfBatch DEF storage_task

-----------------------------------------------------------------------------
(* What happens around the two tasks. *)

\* What the client and the driver have, and where the driver is.
LEMMA AroundBanks ==
    ASSUME BankInvariant, UNCHANGED <<client, driver, pc, slot, queue>>,
           OnCable' => OnCable /\ live'.put = live.put /\ live'.bank = live.bank,
           dma' = dma \/ dma' = None \/ ~OnCable', OnCable => OnCable' \/ dma = None,
           dma' # None => dma # None /\ dma'.put = dma.put /\ dma'.bank = dma.bank,
           dma' # None /\ dma'.put # 0 => OnCable'
    PROVE  PutPart' /\ AskedPart' /\ LivePart' /\ EndPart' /\ BankPart'
<1> USE DEF BankInvariant
<1>1. UNCHANGED <<control, stream, put, staged, stage, pending, rx, ret, pc, slot, queue>>
  BY DEF client, driver
<1>2. \A n : Mine(n)' => Mine(n)  BY DEF Mine, OnCable
<1>3. PutPart' /\ AskedPart'  BY <1>1 DEF PutPart, AskedPart, Old, Frame
<1>4. LivePart'  BY <1>1 DEF LivePart, Served
<1>5. Orphan' => Orphan  BY <1>1 DEF Orphan
<1>6. Ending' <=> Ending  BY <1>1 DEF Ending, LentSlot
<1>7. /\ Mine(staged)' => Mine(staged)
      /\ stage # None => (Mine(stage.put)' => Mine(stage.put))
  BY <1>1, <1>2 DEF Mine
<1>8. EndPart'
  <2>1. Orphan' => Ending' /\ ~Mine(stage.put)'
    <3>1. Orphan' => stage # None  BY <1>1 DEF Orphan
    <3> QED  BY <1>5, <1>6, <1>7, <3>1 DEF EndPart
  <2>2. ret = "end" \/ pc = "collectE" => ~Mine(staged)'  BY <1>7 DEF EndPart
  <2>3. pc = "ended" /\ queue = <<>> =>
          \/ slot["query"].value = TRUE /\ ~Orphan'
          \/ slot["query"].value = FALSE /\ ~Mine(staged)'
    BY <1>5, <1>7 DEF EndPart
  <2>4. /\ pc \in {"send", "pump", "pumpC"} => ret # "pass"
        /\ ret = "end" => pc \in {"react", "send", "pump", "pumpC", "finish", "quit"}
        /\ pc = "finish" => ret = "end"
    BY DEF EndPart
  <2> QED  BY <1>1, <2>1, <2>2, <2>3, <2>4 DEF EndPart
<1>9. BatchQueued' <=> BatchQueued  BY <1>1 DEF BatchQueued
<1>10. dma' # None /\ dma'.put # 0 => dma'.bank = 1 - live'.bank /\ (stage # None => stage.put = live'.put)
  BY DEF BankPart
<1>11. stage # None /\ Mine(stage.put)' => stage.bank = IF BatchQueued' THEN 1 - live'.bank ELSE live'.bank
  <2>1. stage # None /\ Mine(stage.put)' => OnCable'  BY <1>1 DEF Mine, OnCable
  <2> QED  BY <1>7, <1>9, <2>1 DEF BankPart
<1>12. BankPart'  BY <1>1, <1>10, <1>11 DEF BankPart
<1> QED  BY <1>3, <1>4, <1>8, <1>12

\* The stall watch, the radio's client, the card and the ride loop.
LEMMA BanksOfAround ==
    ASSUME BankInvariant, Stalls \/ BleMap \/ WriteEnds \/ RideLoop PROVE BankInvariant'
<1>1. UsbInvariant'  BY AroundKeeps DEF BankInvariant
<1>2. UNCHANGED <<client, driver, pc, slot, queue>>
  BY DEF Stalls, BleMap, WriteEnds, RideLoop, around
<1>3. CASE Stalls
  <2>1. live' = None /\ dma = None /\ dma' = None  BY <1>3 DEF Stalls, card
  <2>2. ~OnCable'  BY <2>1 DEF OnCable
  <2> QED  BY <1>1, <1>2, <2>1, <2>2, AroundBanks DEF BankInvariant
<1>4. CASE BleMap
  <2>1. ~OnCable /\ dma' = dma  BY <1>4 DEF BleMap, card, OnCable
  <2>2. ~OnCable'  BY <1>4 DEF BleMap, OnCable
  <2>3. dma # None => dma.put = 0  BY <2>1 DEF BankInvariant, UsbInvariant, CardPart, OnCable
  <2> QED  BY <1>1, <1>2, <2>1, <2>2, <2>3, AroundBanks DEF BankInvariant
<1>5. CASE WriteEnds \/ RideLoop
  <2>1. UNCHANGED live /\ (dma' = dma \/ dma' = None)  BY <1>5 DEF WriteEnds, RideLoop, engine, card
  <2>2. OnCable' <=> OnCable  BY <2>1 DEF OnCable
  <2>3. dma # None /\ dma.put # 0 => OnCable  BY DEF BankInvariant, UsbInvariant, CardPart, OnCable
  <2> QED  BY <1>1, <1>2, <2>1, <2>2, <2>3, AroundBanks DEF BankInvariant
<1> QED  BY <1>3, <1>4, <1>5

\* A PUT more, behind those there are.
LEMMA PutMore ==
    ASSUME BankInvariant, NEW ask, control' = Append(control, ask),
           \/ put' = put + 1 /\ ask.op = "PUT" /\ ask.put = put + 1
           \/ put' = put /\ ask.op # "PUT",
           stream' = stream, UNCHANGED <<driver, pc, queue, slot, live, dma>>, pc \in Driving
    PROVE  PutPart' /\ AskedPart' /\ LivePart'
<1> USE DEF BankInvariant, UsbInvariant
<1>1. UNCHANGED <<stream, staged, stage, pc, queue, slot, live>>  BY DEF driver
<1>2. control \in Seq(Ask \cup {ask})  BY SeqMonotonic DEF ClientPart
<1>3. /\ Len(control) \in Nat /\ Len(control') = Len(control) + 1
      /\ \A i \in 1 .. Len(control) : control'[i] = control[i]
      /\ control'[Len(control) + 1] = ask
  BY <1>2, AppendFacts
<1>4. \A i \in 1 .. Len(control') : i \in 1 .. Len(control) \/ i = Len(control) + 1
  BY <1>3
<1>a. put \in Nat /\ put <= put'  BY DEF ClientPart
<1>5. \A i \in 1 .. Len(control) : control[i].op = "PUT" => control[i].put \in Nat /\ control[i].put <= put
  <2>1. \A i \in 1 .. Len(control) : control[i] \in Ask  BY DEF ClientPart
  <2>2. \A a \in Ask : a.op = "PUT" => a.put \in Nat  BY DEF Ask, Puts
  <2> QED  BY <2>1, <2>2 DEF PutPart
<1>6. \A n : n \in Nat /\ n <= put =>
        (Old(n) => \A i \in 1 .. Len(control') : control'[i].op = "PUT" => n < control'[i].put)
  BY <1>3, <1>4, <1>a DEF Old
<1>7. \A n : n \in Nat /\ n <= put => (Old(n) => Old(n)')  BY <1>6 DEF Old
<1>8. staged \in Nat /\ staged <= put  BY DEF DriverPart, PutPart
<1>9. PutPart'
  <2>1. \A i \in 1 .. Len(control') : control'[i].op = "PUT" => control'[i].put <= put'
    BY <1>3, <1>4, <1>5, <1>a
  <2>2. \A i, j \in 1 .. Len(control') :
          i < j /\ control'[i].op = "PUT" /\ control'[j].op = "PUT" => control'[i].put < control'[j].put
    <3>1. \A i \in 1 .. Len(control) : control'[i].op = "PUT" /\ ask.op = "PUT" => control'[i].put < ask.put
      BY <1>3, <1>5, <1>a
    <3>2. \A i, j \in 1 .. Len(control') : i < j => i \in 1 .. Len(control)
      BY <1>3
    <3> QED  BY <1>3, <1>4, <3>1, <3>2 DEF PutPart
  <2>3. \A i \in 1 .. Len(stream) : stream[i].put <= put'
    <3>1. \A i \in 1 .. Len(stream) : stream[i].put \in Nat
      <4>1. \A i \in 1 .. Len(stream) : stream[i] \in Record  BY DEF ClientPart
      <4> QED  BY <4>1 DEF Record, Puts
    <3> QED  BY <1>a, <3>1 DEF PutPart
  <2>4. staged <= put' /\ Old(staged)'
    <3>1. \A i \in 1 .. Len(control') : control'[i].op = "PUT" => staged < control'[i].put
      BY <1>6, <1>8 DEF PutPart
    <3> QED  BY <1>1, <1>8, <1>a, <3>1 DEF Old
  <2>5. pc \in Running  BY DEF Running
  <2> QED  BY <1>1, <2>1, <2>2, <2>3, <2>4, <2>5 DEF PutPart, Frame
<1>10. control # <<>> => Head(control') = Head(control) /\ 1 \in 1 .. Len(control)
  <2>1. control # <<>> => Len(control) \in Nat \ {0} /\ Head(control) = control[1]
    BY TailFacts DEF ClientPart
  <2>2. Head(control') = control'[1]  OBVIOUS
  <2> QED  BY <1>3, <2>1, <2>2
<1>11. pc \in Asking => control # <<>>  BY DEF Asking, ClientPart
<1>12. AskedPart'
  <2>1. Frame' = Frame  BY <1>1 DEF Frame
  <2>2. pc = "map" => Frame.put \in Nat /\ Frame.put <= put
    <3>1. pc = "map" => stream # <<>> /\ stream \in Seq(Record)  BY DEF ClientPart
    <3>2. pc = "map" => 1 \in 1 .. Len(stream) /\ Frame = stream[1] /\ Frame \in Record
      BY <3>1, TailFacts DEF Frame
    <3> QED  BY <3>2 DEF PutPart, Record, Puts
  <2>3. pc = "map" /\ Old(Frame.put) =>
          \A i \in 1 .. Len(control') : control'[i].op = "PUT" => Frame.put < control'[i].put
    BY <1>6, <2>2
  <2>4. pc = "map" /\ Old(Frame.put) => Old(Frame.put)'  BY <2>1, <2>3 DEF Old
  <2> QED  BY <1>1, <1>10, <1>11, <2>1, <2>4 DEF AskedPart
<1>13. LivePart'
  <2>1. OnCable' <=> OnCable  BY <1>1 DEF OnCable
  <2>2. ASSUME OnCable, pc \in Running
        PROVE  /\ live.put <= put' /\ live.put < put + 1
               /\ \A i \in 1 .. Len(control') :
                    control'[i].op = "PUT" => live.put < control'[i].put \/ Served(i)'
    <3>1. live.put <= put /\ live.put \in Nat
      <4>1. live \in Transfer  BY <2>2 DEF OnCable, CardPart
      <4> QED  BY <2>2, <4>1 DEF LivePart, Transfer, Puts
    <3>2. live.put <= put' /\ live.put < put + 1  BY <1>a, <3>1
    <3>3. \A i \in 1 .. Len(control) : Served(i) => Served(i)'  BY <1>1, <1>3 DEF Served
    <3>4. \A i \in 1 .. Len(control) : control[i].op = "PUT" => live.put < control[i].put \/ Served(i)
      BY <2>2 DEF LivePart
    <3> QED  BY <1>3, <1>4, <3>2, <3>3, <3>4
  <2> QED  BY <1>1, <2>1, <2>2 DEF LivePart
<1> QED  BY <1>9, <1>12, <1>13

\* The client sends, and the cable goes and comes.
LEMMA BanksOfHost ==
    ASSUME BankInvariant, HostPut \/ HostRecord \/ HostCancel \/ HostList \/ Unplug \/ Replug
    PROVE  BankInvariant'
<1>1. UsbInvariant'  BY HostKeeps DEF BankInvariant
<1>2. UNCHANGED <<pc, driver, queue, slot, live, dma>>
  BY DEF HostPut, HostRecord, HostCancel, HostList, Unplug, Replug, hostKeeps, engine, card
<1>3. /\ EndPart' /\ BankPart'
  <2>1. UNCHANGED <<staged, stage, pending, rx, ret>>  BY <1>2 DEF driver
  <2> QED  BY <1>2, <2>1 DEF BankInvariant, EndPart, BankPart, Orphan, Ending, LentSlot, Mine, BatchQueued
<1>4. CASE HostPut \/ HostCancel \/ HostList
  <2>1. pc \in Driving /\ stream' = stream  BY <1>4 DEF HostPut, HostCancel, HostList, Linkable
  <2>2. \E ask : /\ control' = Append(control, ask)
                 /\ \/ put' = put + 1 /\ ask.op = "PUT" /\ ask.put = put + 1
                    \/ put' = put /\ ask.op # "PUT"
    <3>1. CASE HostPut
      <4> DEFINE ask == [op |-> "PUT", put |-> put + 1]
      <4>1. control' = Append(control, ask) /\ put' = put + 1 /\ ask.op = "PUT" /\ ask.put = put + 1
        BY <3>1 DEF HostPut
      <4> QED  BY <4>1
    <3>2. CASE HostCancel
      <4> DEFINE ask == [op |-> "CANCEL", put |-> put]
      <4>1. control' = Append(control, ask) /\ put' = put /\ ask.op # "PUT"  BY <3>2 DEF HostCancel
      <4> QED  BY <4>1
    <3>3. CASE HostList
      <4> DEFINE ask == [op |-> "LIST"]
      <4>1. control' = Append(control, ask) /\ put' = put /\ ask.op # "PUT"  BY <3>3 DEF HostList
      <4> QED  BY <4>1
    <3> QED  BY <1>4, <3>1, <3>2, <3>3
  <2>3. PICK ask : /\ control' = Append(control, ask)
                   /\ \/ put' = put + 1 /\ ask.op = "PUT" /\ ask.put = put + 1
                      \/ put' = put /\ ask.op # "PUT"
    BY <2>2
  <2>4. PutPart' /\ AskedPart' /\ LivePart'  BY <1>2, <2>1, <2>3, PutMore
  <2> QED  BY <1>1, <1>3, <2>4 DEF BankInvariant
<1>5. CASE HostRecord
  <2>1. PICK n \in Lengths : stream' = Append(stream, [put |-> put, off |-> off, len |-> n])
    BY <1>5 DEF HostRecord
  <2>2. stream = <<>> /\ UNCHANGED <<control, put>>  BY <1>5 DEF HostRecord
  <2>3. pc \notin {"map", "grant"}  BY <2>2 DEF BankInvariant, UsbInvariant, ClientPart
  <2>4. Len(stream') = 1 /\ stream'[1].put = put
    <3>1. stream \in Seq(Record)  BY DEF BankInvariant, UsbInvariant, ClientPart
    <3>2. stream' = << [put |-> put, off |-> off, len |-> n] >>  BY <2>1, <2>2
    <3> QED  BY <3>2
  <2>5. UNCHANGED <<staged, stage>>  BY <1>2 DEF driver
  <2>6. put \in Nat  BY DEF BankInvariant, UsbInvariant, ClientPart
  <2>7. PutPart'
    <3>1. \A i \in 1 .. Len(stream') : stream'[i].put <= put  BY <2>4, <2>6
    <3> QED  BY <1>2, <2>2, <2>3, <2>5, <3>1 DEF BankInvariant, PutPart, Old
  <2>8. AskedPart'  BY <1>2, <2>2, <2>3, <2>5 DEF BankInvariant, AskedPart
  <2>9. LivePart'  BY <1>2, <2>2, <2>5 DEF BankInvariant, LivePart, OnCable, Served
  <2> QED  BY <1>1, <1>3, <2>7, <2>8, <2>9 DEF BankInvariant
<1>6. CASE Unplug \/ Replug
  <2>1. UNCHANGED <<control, stream, put>>  BY <1>6 DEF Unplug, Replug, client
  <2>2. UNCHANGED <<staged, stage>>  BY <1>2 DEF driver
  <2>3. PutPart' /\ AskedPart' /\ LivePart'
    BY <1>2, <2>1, <2>2 DEF BankInvariant, PutPart, AskedPart, LivePart, Old, OnCable, Served, Frame
  <2> QED  BY <1>1, <1>3, <2>3 DEF BankInvariant
<1> QED  BY <1>4, <1>5, <1>6

\* A record that is badly framed: what the driver owned is dropped.
LEMMA BanksOfBadRecord ==
    ASSUME BankInvariant, BadRecord PROVE BankInvariant'
<1>1. UsbInvariant'  BY BadRecordKeeps DEF BankInvariant
<1>2. Teardown /\ UNCHANGED <<live, dma>> /\ pc \in Driving  BY DEF BadRecord, engine, card
<1>3. /\ stage' = None /\ pending' = None /\ staged' = 0 /\ control' = <<>> /\ stream' = <<>>
      /\ put' = put /\ pc' = "lost" /\ rx' = Idle /\ ret' = "pass"
      /\ queue' = Append(queue, Job("LinkLost", TeardownSlot, 0))
  BY <1>2 DEF Teardown, Call, Send
<1>4. PutPart'
  <2>1. put \in Nat  BY DEF BankInvariant, UsbInvariant, ClientPart
  <2>2. Len(control') = 0 /\ Len(stream') = 0  BY <1>3
  <2> QED  BY <1>3, <2>1, <2>2 DEF PutPart, Old, Running, Driving
<1>5. AskedPart'  BY <1>3 DEF AskedPart, Asking
<1>6. queue' # <<>>  BY <1>3, Appended DEF BankInvariant, UsbInvariant
<1>7. LivePart'  BY <1>3, <1>6 DEF LivePart, Running, Driving
<1>8. EndPart'  BY <1>3 DEF EndPart, Orphan
<1>9. BankPart'  BY <1>2, <1>3, BankOfCall DEF BankInvariant, UsbInvariant
<1> QED  BY <1>1, <1>4, <1>5, <1>7, <1>8, <1>9 DEF BankInvariant

-----------------------------------------------------------------------------
(* The theorems. *)

\* Every await of the USB task.
LEMMA BanksOfTask ==
    ASSUME BankInvariant, UsbTask PROVE BankInvariant'
<1>1. UsbInvariant'  BY TaskKeeps DEF BankInvariant
<1> QED  BY <1>1, PutOfTask, AskedOfTask, LiveOfTask, EndOfTask, BankOfTask DEF BankInvariant

\* Before the first upload.
LEMMA InitBanks ==
    ASSUME Init PROVE BankInvariant
<1>1. UsbInvariant  BY InitUsb
<1>2. PutPart
  <2>1. Len(control) = 0 /\ Len(stream) = 0  BY DEF Init
  <2> QED  BY <2>1 DEF PutPart, Old, Init
<1>3. AskedPart  BY DEF AskedPart, Asking, Init
<1>4. LivePart  BY DEF LivePart, OnCable, Init
<1>5. EndPart  BY DEF EndPart, Orphan, Init
<1>6. BankPart
  <2>1. Len(queue) = 0  BY DEF Init
  <2> QED  BY <2>1 DEF BankPart, Init
<1> QED  BY <1>1, <1>2, <1>3, <1>4, <1>5, <1>6 DEF BankInvariant

\* A step of nobody.
LEMMA BanksOfNobody ==
    ASSUME BankInvariant, UNCHANGED vars PROVE BankInvariant'
<1>1. UsbInvariant'  BY NobodyKeeps DEF BankInvariant
<1>2. UNCHANGED <<control, stream, put, staged, stage, pending, rx, ret, pc, slot, queue, live, dma>>
  BY DEF vars, client, driver, engine, card
<1>3. PutPart' /\ AskedPart' /\ LivePart'
  BY <1>2 DEF BankInvariant, PutPart, AskedPart, LivePart, Old, OnCable, Served, Frame
<1>4. EndPart' /\ BankPart'
  BY <1>2 DEF BankInvariant, EndPart, BankPart, Orphan, Ending, LentSlot, Mine, BatchQueued
<1> QED  BY <1>1, <1>3, <1>4 DEF BankInvariant

\* What the driver, the queue, the engine and the card each take for the bank that is free stays
\* one and the same, however uploads end and whatever they leave behind.
THEOREM BanksAreInvariant == Spec => []BankInvariant
<1>1. ASSUME BankInvariant, [Next]_vars PROVE BankInvariant'
  BY <1>1, BanksOfTask, BanksOfStorage, BanksOfAround, BanksOfHost, BanksOfBadRecord, BanksOfNobody,
     Zenon DEF Next, Others
<1> QED  BY <1>1, InitBanks, PTL DEF Spec

\* Only copy writes a bank.
LEMMA OnlyCopyWrites ==
    ASSUME [Next]_vars, bank' # bank PROVE Copy
<1>1. CASE UsbTask
  BY <1>1 DEF UsbTask, Discard, wait_enabled, reclaim, LinkUp, Serving, OnControl, CollectedC,
       control_record, OnStream, Observed, HoldControl, HoldNoLane, HoldExpires, AskMap, Asked, Granted,
       GrantExpires, CollectS, CollectedS, ToEngine, Streamed, Foreign, BatchDone, PumpSend, Sent, Pumped,
       Closes, Quits, PassEnds, Ended, CollectedE, StageEnds, Finished, DropDriver, Lost, Joined, rest0,
       still0
<1>2. CASE Others
  <2>1. CASE storage_task
    BY <2>1 DEF storage_task, ServePump, ServeControl, ServeStream, ServeBatch, ServeFinish, ServeLink,
         ServeQuery, taskKeeps
  <2>2. CASE ~storage_task
    BY <1>2, <2>2 DEF Others, Stalls, BleMap, WriteEnds, RideLoop, Unplug, BadRecord, Replug, HostPut,
         HostRecord, HostCancel, HostList, hostKeeps
  <2> QED  BY <2>1, <2>2
<1>3. CASE UNCHANGED vars  BY <1>3 DEF vars
<1> QED  BY <1>1, <1>2, <1>3 DEF Next

\* Whatever uploads were cancelled, refused or cut off before, the driver copies a record only
\* into the bank the card does not read.
THEOREM NoCopyIsUnderDma == Spec => NoCopyUnderDma
<1>1. ASSUME BankInvariant, [Next]_vars, NEW b \in Banks, bank'[b] # bank[b]
      PROVE  dma = None \/ dma.bank # b
  <2>1. Copy  BY <1>1, OnlyCopyWrites
  <2>2. ~BatchQueued /\ (dma # None => dma.put # 0)  BY <1>1, <2>1, AtACopy
  <2>3. stage # None /\ b = stage.bank
    <3>1. stage # None /\ bank' = IF granted THEN Copied(stage.bank) ELSE bank  BY <2>1 DEF Copy
    <3>2. bank \in [Banks -> [1 .. Half -> Cell \cup {None}]]  BY <1>1 DEF BankInvariant, UsbInvariant, CardPart
    <3>3. b # stage.bank => Copied(stage.bank)[b] = bank[b]  BY <3>2 DEF Copied
    <3> QED  BY <1>1, <3>1, <3>3
  <2>4. ASSUME dma # None PROVE dma.bank # stage.bank
    <3>1. /\ dma.bank = 1 - live.bank /\ stage.put = live.put /\ live # None /\ live.link = "usb"
          /\ live \in Transfer
      BY <1>1, <2>2, <2>3, <2>4 DEF BankInvariant, BankPart, UsbInvariant, CardPart
    <3>2. stage.bank = live.bank
      BY <1>1, <2>2, <2>3, <3>1 DEF BankInvariant, BankPart, Mine
    <3>3. live.bank \in {0, 1}  BY <3>1 DEF Transfer, Banks
    <3> QED  BY <3>1, <3>2, <3>3
  <2> QED  BY <2>3, <2>4
<1>2. ASSUME BankInvariant, [Next]_vars
      PROVE  [\A b \in Banks : bank'[b] # bank[b] => dma = None \/ dma.bank # b]_vars
  BY <1>1, <1>2
<1> QED  BY <1>2, BanksAreInvariant, PTL DEF Spec, NoCopyUnderDma

-----------------------------------------------------------------------------
(* The bytes in the banks. *)

\* A bank starts with len units of upload n, from first on.
Holds(b, n, first, len) == \A i \in 1 .. len : bank[b][i] = <<n, first + i - 1>>

\* The row, the write under way and what was published are the client's bytes in order.
RowPart ==
    /\ OnCable => \A i \in 1 .. Len(row) : row[i] = <<live.put, i - 1>>
    /\ dma # None /\ dma.put # 0 => Holds(dma.bank, live.put, Len(row), dma.len)
    /\ PublishedIsSent

\* So is a batch that is queued, ahead of everything; and what the stage has of the next one.
FillPart ==
    /\ \A i \in 1 .. Len(queue) : queue[i].op = "Batch" =>
         /\ i = 1
         /\ Mine(queue[i].arg.put) => Holds(live.bank, queue[i].arg.put, queue[i].arg.off, queue[i].arg.len)
    /\ stage # None => Holds(stage.bank, stage.put, stage.received - stage.fill, stage.fill)

ByteInvariant == BankInvariant /\ RowPart /\ FillPart

-----------------------------------------------------------------------------
(* Sequences of units. *)

\* Units in order, continued in order.
LEMMA InOrder ==
    ASSUME NEW s \in Seq(Cell \cup {None}), NEW n, NEW m \in Nat, NEW part \in [1 .. m -> Cell \cup {None}],
           \A i \in 1 .. Len(s) : s[i] = <<n, i - 1>>,
           \A i \in 1 .. m : part[i] = <<n, Len(s) + i - 1>>
    PROVE  \A i \in 1 .. Len(s \o part) : (s \o part)[i] = <<n, i - 1>>
<1>1. part \in Seq(Cell \cup {None}) /\ Len(part) = m /\ Len(s) \in Nat  OBVIOUS
<1>2. /\ Len(s \o part) = Len(s) + m
      /\ \A i \in 1 .. Len(s) + m : (s \o part)[i] = IF i <= Len(s) THEN s[i] ELSE part[i - Len(s)]
  BY <1>1, ConcatProperties
<1>3. ASSUME NEW i \in 1 .. Len(s) + m PROVE (s \o part)[i] = <<n, i - 1>>
  <2>1. CASE i <= Len(s)
    <3>1. i \in 1 .. Len(s)  BY <1>1, <2>1
    <3> QED  BY <1>2, <2>1, <3>1
  <2>2. CASE ~(i <= Len(s))
    <3>1. i - Len(s) \in 1 .. m /\ Len(s) + (i - Len(s)) - 1 = i - 1  BY <1>1, <2>2
    <3>2. part[i - Len(s)] = <<n, i - 1>>  BY <3>1
    <3> QED  BY <1>2, <2>2, <3>2
  <2> QED  BY <2>1, <2>2
<1> QED  BY <1>2, <1>3

\* What has landed is in order.
LEMMA LandedInOrder ==
    ASSUME CardPart, RowPart, OnCable
    PROVE  \A i \in 1 .. Len(Landed) : Landed[i] = <<live.put, i - 1>>
<1>1. row \in Seq(Cell \cup {None}) /\ \A i \in 1 .. Len(row) : row[i] = <<live.put, i - 1>>
  BY DEF CardPart, RowPart
<1>2. CASE dma = None \/ dma.put = 0
  BY <1>1, <1>2 DEF Landed
<1>3. CASE ~(dma = None \/ dma.put = 0)
  <2> DEFINE part == [i \in 1 .. dma.len |-> bank[dma.bank][i]]
  <2>1. dma.len \in 1 .. Half /\ dma.bank \in Banks /\ Half \in Nat
    BY <1>3, UsbAssumption DEF CardPart, CardWrite
  <2>2. dma.len \in Nat /\ \A i \in 1 .. dma.len : i \in 1 .. Half  BY <2>1
  <2>3. part \in [1 .. dma.len -> Cell \cup {None}]  BY <2>1, <2>2 DEF CardPart
  <2>4. \A i \in 1 .. dma.len : part[i] = <<live.put, Len(row) + i - 1>>
    BY <1>3 DEF RowPart, Holds
  <2>5. Landed = row \o part  BY <1>3 DEF Landed
  <2> HIDE DEF part
  <2> QED  BY <1>1, <2>2, <2>3, <2>4, <2>5, InOrder
<1> QED  BY <1>2, <1>3

\* What the cable publishes is as long as declared, and in order.
LEMMA CommitInOrder ==
    ASSUME CardPart, RowPart, NEW n, Mine(n), NEW m \in Nat, NEW part \in [1 .. m -> Cell \cup {None}],
           \A i \in 1 .. m : part[i] = <<live.put, live.received + i - 1>>,
           live.received + m = Declared, Commit(Landed \o part)
    PROVE  RowPart'
<1>1. OnCable /\ Landed \in Seq(Cell \cup {None}) /\ Len(Landed) = live.received
  BY MineFacts DEF OnCable
<1>2. \A i \in 1 .. Len(Landed \o part) : (Landed \o part)[i] = <<live.put, i - 1>>
  <2>1. \A i \in 1 .. Len(Landed) : Landed[i] = <<live.put, i - 1>>  BY <1>1, LandedInOrder
  <2>2. \A i \in 1 .. m : part[i] = <<live.put, Len(Landed) + i - 1>>  BY <1>1
  <2> HIDE DEF Landed
  <2> QED  BY <1>1, <2>1, <2>2, InOrder
<1>3. Landed \o part \in Seq(Cell \cup {None}) /\ Len(Landed \o part) = Declared
  BY <1>1, MoreCells
<1> DEFINE cells == Landed \o part
<1>4. live' = None /\ dma' = None /\ published' = [put |-> live.put, cells |-> cells]
  BY DEF Commit
<1> HIDE DEF cells
<1>5. cells = [i \in 1 .. Declared |-> <<live.put, i - 1>>]
  <2>1. cells \in [1 .. Declared -> Cell \cup {None}]
    <3>1. cells \in Seq(Cell \cup {None}) /\ Len(cells) = Declared  BY <1>3 DEF cells
    <3> QED  BY <3>1
  <2>2. \A i \in 1 .. Declared : cells[i] = <<live.put, i - 1>>  BY <1>2, <1>3 DEF cells
  <2> QED  BY <2>1, <2>2
<1>6. published'.put = live.put /\ published'.cells = cells  BY <1>4
<1>7. PublishedIsSent'  BY <1>5, <1>6 DEF PublishedIsSent
<1> QED  BY <1>4, <1>7 DEF RowPart, OnCable

-----------------------------------------------------------------------------
(* Steps that write no bank. *)

\* The stage stays, is given back or is fresh; no batch is sent.
LEMMA FillKept ==
    ASSUME Mail, FillPart, UNCHANGED <<bank, live>>,
           stage' = stage \/ stage' = None \/ (stage'.fill = 0 /\ stage'.received = 0),
           \/ queue' = queue
           \/ \E job : queue' = Append(queue, job) /\ job.op # "Batch"
    PROVE  FillPart'
<1>1. \A i \in 1 .. Len(queue') : queue'[i].op = "Batch" => i \in 1 .. Len(queue) /\ queue'[i] = queue[i]
  <2>1. CASE queue' = queue  BY <2>1
  <2>2. CASE \E job : queue' = Append(queue, job) /\ job.op # "Batch"
    <3>1. PICK job : queue' = Append(queue, job) /\ job.op # "Batch"  BY <2>2
    <3>2. queue \in Seq(JobType \cup {job})  BY SeqMonotonic DEF Mail, MailTypes
    <3>3. /\ Len(queue) \in Nat /\ Len(queue') = Len(queue) + 1
          /\ \A i \in 1 .. Len(queue) : queue'[i] = queue[i]
          /\ queue'[Len(queue) + 1] = job
      BY <3>1, <3>2, AppendFacts
    <3>4. \A i \in 1 .. Len(queue') : i \in 1 .. Len(queue) \/ i = Len(queue) + 1  BY <3>3
    <3> QED  BY <3>1, <3>3, <3>4
  <2> QED  BY <2>1, <2>2
<1>2. \A n : Mine(n)' <=> Mine(n)  BY DEF Mine
<1>3. \A i \in 1 .. Len(queue') : queue'[i].op = "Batch" =>
         /\ i = 1
         /\ Mine(queue[i].arg.put) =>
              \A k \in 1 .. queue'[i].arg.len :
                bank[live.bank][k] = <<queue'[i].arg.put, queue'[i].arg.off + k - 1>>
  BY <1>1 DEF FillPart, Holds
<1>4. stage' # None =>
        \A k \in 1 .. stage'.fill : bank[stage'.bank][k] = <<stage'.put, stage'.received - stage'.fill + k - 1>>
  <2>1. CASE stage' = stage  BY <2>1 DEF FillPart, Holds
  <2>2. CASE stage' = None  BY <2>2
  <2>3. CASE stage'.fill = 0  BY <2>3
  <2> QED  BY <2>1, <2>2, <2>3
<1> QED  BY <1>1, <1>2, <1>3, <1>4 DEF FillPart, Holds, Mine

\* The card and the transfer stay.
LEMMA RowKept ==
    ASSUME RowPart, UNCHANGED <<bank, live, row, published>>, dma' = dma \/ dma' = None
    PROVE  RowPart'
  BY DEF RowPart, Holds, OnCable, PublishedIsSent

\* What every await of the USB task but the copy does to the stage and the queue.
LEMMA TaskFills ==
    ASSUME UsbInvariant, UsbTask, ~Copy
    PROVE  /\ UNCHANGED <<bank, row, published>>
           /\ stage' = stage \/ stage' = None \/ (stage'.fill = 0 /\ stage'.received = 0)
           /\ \/ queue' = queue
              \/ \E job : queue' = Append(queue, job) /\ job.op # "Batch"
<1> DEFINE Sends == \/ queue' = queue
                    \/ \E job : queue' = Append(queue, job) /\ job.op # "Batch"
<1>a. ASSUME NEW op, op # "Batch", NEW s, NEW arg, queue' = Append(queue, Job(op, s, arg)) PROVE Sends
  <2>1. Job(op, s, arg).op # "Batch"  BY <1>a DEF Job
  <2> QED  BY <1>a, <2>1
<1>0. UNCHANGED <<bank, row, published>>
  <2>1. UNCHANGED bank
    <3>1. [Next]_vars  BY DEF Next
    <3> QED  BY <3>1, OnlyCopyWrites
  <2>2. CASE \/ \E s \in Slots : Discard(s)
             \/ wait_enabled \/ reclaim \/ LinkUp \/ Serving \/ OnControl \/ CollectedC \/ control_record
             \/ OnStream \/ Observed \/ HoldControl \/ HoldNoLane \/ HoldExpires \/ AskMap \/ Asked
    BY <2>1, <2>2 DEF Discard, wait_enabled, reclaim, LinkUp, Serving, OnControl, CollectedC, control_record,
         OnStream, Observed, HoldControl, HoldNoLane, HoldExpires, AskMap, Asked, rest0, still0, card
  <2>3. CASE \/ Granted \/ GrantExpires \/ CollectS \/ CollectedS \/ ToEngine \/ Streamed \/ Foreign
             \/ BatchDone \/ PumpSend \/ Sent \/ Pumped \/ Closes \/ Quits
    BY <2>1, <2>3 DEF Granted, GrantExpires, CollectS, CollectedS, ToEngine, Streamed, Foreign, BatchDone,
         PumpSend, Sent, Pumped, Closes, Quits, still0, card
  <2>4. CASE \/ PassEnds \/ Ended \/ CollectedE \/ StageEnds \/ Finished \/ DropDriver \/ Lost \/ Joined
    BY <2>1, <2>4 DEF PassEnds, Ended, CollectedE, StageEnds, Finished, DropDriver, Lost, Joined, still0, card
  <2> QED  BY <2>2, <2>3, <2>4, ZenonT(60) DEF UsbTask
<1> DEFINE Stages == stage' = stage \/ stage' = None \/ (stage'.fill = 0 /\ stage'.received = 0)
<1>1. CASE \E s \in Slots : Discard(s)
  <2>1. UNCHANGED <<stage, queue>>  BY <1>1 DEF Discard, driver
  <2> QED  BY <1>0, <2>1
<1>2. CASE wait_enabled \/ reclaim \/ LinkUp \/ Serving \/ Lost \/ Joined
  <2>1. /\ UNCHANGED stage
        /\ \/ queue' = queue
           \/ \E op \in {"Pump", "LinkUp", "FinishUsbStage"} :
                \E s, arg : queue' = Append(queue, Job(op, s, arg))
    BY <1>2 DEF wait_enabled, reclaim, LinkUp, Serving, Lost, Joined, rest0, driver, Call, Send
  <2> QED  BY <1>0, <1>a, <2>1
<1>3. CASE OnControl \/ CollectedC \/ HoldControl \/ Sent
  <2>1. /\ stage' = stage
        /\ \/ queue' = queue
           \/ \E op \in {"Control", "Pump"} : \E s, arg : queue' = Append(queue, Job(op, s, arg))
    BY <1>3 DEF OnControl, CollectedC, HoldControl, Sent, LaneCall, Call, Send, driver
  <2> QED  BY <1>0, <1>a, <2>1
<1>4. CASE OnStream \/ AskMap \/ ToEngine \/ PassEnds \/ StageEnds \/ (Closes /\ stage # None)
  <2>1. /\ UNCHANGED stage
        /\ \/ queue' = queue
           \/ \E op \in {"LiveTransfer", "UsbMapUpload", "Stream", "FinishUsbStage"} :
                \E s, arg : queue' = Append(queue, Job(op, s, arg))
    BY <1>4 DEF OnStream, AskMap, ToEngine, PassEnds, StageEnds, Closes, LaneCall, Call, Send, driver
  <2> QED  BY <1>0, <1>a, <2>1
<1>5. CASE control_record \/ Observed \/ HoldExpires \/ Asked \/ GrantExpires \/ CollectS \/ CollectedS
  <2>1. UNCHANGED <<stage, queue>>
    BY <1>5 DEF control_record, Observed, HoldExpires, Asked, GrantExpires, CollectS, CollectedS, driver
  <2> QED  BY <1>0, <2>1
<1>6. CASE Streamed \/ Foreign \/ BatchDone \/ PumpSend \/ Pumped \/ CollectedE
  <2>1. UNCHANGED <<stage, queue>>
    BY <1>6 DEF Streamed, Foreign, BatchDone, PumpSend, Pumped, CollectedE
  <2> QED  BY <1>0, <2>1
<1>7. CASE Ended \/ Finished
  <2>1. queue' = queue /\ stage' \in {stage, None}  BY <1>7 DEF Ended, Finished
  <2> QED  BY <1>0, <2>1
<1>8. CASE HoldNoLane \/ Quits \/ DropDriver \/ (Closes /\ stage = None)
  <2>1. Teardown  BY <1>8 DEF HoldNoLane, Quits, DropDriver, Closes
  <2>2. stage' = None /\ queue' = Append(queue, Job("LinkLost", TeardownSlot, 0))
    BY <2>1 DEF Teardown, Call, Send
  <2>3. Sends  BY <2>2, <1>a
  <2> QED  BY <1>0, <2>2, <2>3
<1>9. CASE Granted
  <2>1. queue' = queue /\ stage' = [put |-> Frame.put, received |-> 0, bank |-> 0, fill |-> 0]
    BY <1>9 DEF Granted
  <2>2. stage'.fill = 0 /\ stage'.received = 0  BY <2>1
  <2> QED  BY <1>0, <2>1, <2>2
<1> QED  BY <1>1, <1>2, <1>3, <1>4, <1>5, <1>6, <1>7, <1>8, <1>9, ZenonT(60) DEF UsbTask

-----------------------------------------------------------------------------
(* The copy. *)

\* The record continues what the stage has; the write under way is of the other bank.
LEMMA CopyKeepsBytes ==
    ASSUME ByteInvariant, Copy PROVE RowPart' /\ FillPart'
<1> USE DEF ByteInvariant, BankInvariant, UsbInvariant
<1>1. /\ pending = None /\ queue = <<>> /\ ~BatchQueued /\ (dma # None => dma.put # 0)
  BY AtACopy
<1>2. /\ stage \in UsbStage /\ stage' \in UsbStage /\ stage # None /\ stage' # None /\ stage'.put = stage.put
      /\ granted /\ BatchDue =>
           stage'.fill = 0 /\ stage'.received = Received /\ stage'.bank = Other(stage.bank)
      /\ granted /\ ~BatchDue =>
           stage'.fill = Filled /\ stage'.received = Received /\ stage'.bank = stage.bank
      /\ ~granted => stage' = stage
  BY CopyStages
<1>3. /\ UNCHANGED <<live, dma, row, published>> /\ stage.put = Frame.put /\ Fits
      /\ bank' = IF granted THEN Copied(stage.bank) ELSE bank
      /\ granted /\ BatchDue => queue' = Append(queue, Job("Batch", "engine", Batch))
      /\ ~(granted /\ BatchDue) => queue' = queue
  BY DEF Copy, engine, card, Send
<1>4. bank \in [Banks -> [1 .. Half -> Cell \cup {None}]] /\ stage.bank \in Banks
  BY <1>2 DEF CardPart, UsbStage
<1>5. /\ stage.received \in Nat /\ stage.fill \in Nat /\ stage.fill <= stage.received
      /\ Frame.len \in Nat /\ Frame.off = stage.received /\ Half \in Nat
      /\ Filled = stage.fill + Frame.len /\ Received = stage.received + Frame.len /\ Filled <= Half
  <2>1. stream # <<>>  BY DEF Copy, Ready, AtCopy, AtFrame, ClientPart
  <2>2. Filled \in 1 .. Half /\ Frame.len \in Nat
    BY <1>2, <1>3, <2>1, BatchIsRecord, UsbAssumption
  <2>3. stage.received \in Nat /\ stage.fill \in Nat /\ stage.fill <= stage.received /\ Half \in Nat
    BY <1>2, UsbAssumption DEF UsbStage, ArenaPart
  <2>4. Filled = stage.fill + Frame.len /\ Received = stage.received + Frame.len /\ Frame.off = stage.received
    BY <1>3 DEF Filled, Received, Fits
  <2> HIDE DEF Filled, Received, Frame
  <2> QED  BY <2>2, <2>3, <2>4
<1> HIDE DEF ByteInvariant, BankInvariant, UsbInvariant
<1> DEFINE first == stage.received - stage.fill
<1>6. granted => \A i \in 1 .. Filled : bank'[stage.bank][i] = <<stage.put, first + i - 1>>
  <2> SUFFICES ASSUME granted, NEW i \in 1 .. Filled
               PROVE  bank'[stage.bank][i] = <<stage.put, first + i - 1>>
    OBVIOUS
  <2>1. i \in Nat /\ i \in 1 .. Half /\ i <= Filled
    <3> HIDE DEF Filled, Received
    <3> QED  BY <1>5
  <2>2. bank'[stage.bank][i] = IF i > stage.fill /\ i <= Filled
                               THEN <<Frame.put, Frame.off + i - stage.fill - 1>>
                               ELSE bank[stage.bank][i]
    <3> HIDE DEF Filled, Frame
    <3> QED  BY <1>3, <1>4, <2>1 DEF Copied
  <2> HIDE DEF Filled, Received, Frame
  <2>3. CASE i > stage.fill
    <3>1. Frame.off + i - stage.fill - 1 = first + i - 1  BY <1>5, <2>1
    <3> QED  BY <1>3, <2>1, <2>2, <2>3, <3>1
  <2>4. CASE ~(i > stage.fill)
    <3>1. i \in 1 .. stage.fill  BY <1>5, <2>1, <2>4
    <3>2. bank[stage.bank][i] = <<stage.put, first + i - 1>>
      BY <1>2, <3>1 DEF ByteInvariant, FillPart, Holds
    <3> QED  BY <2>2, <2>4, <3>2
  <2> QED  BY <2>3, <2>4
<1>7. \A b \in Banks : b # stage.bank => bank'[b] = bank[b]
  BY <1>3, <1>4 DEF Copied
<1>8. RowPart'
  <2>1. dma # None => dma.bank \in Banks /\ dma.bank # stage.bank
    <3>1. dma # None => dma.bank \in Banks
      BY DEF ByteInvariant, BankInvariant, UsbInvariant, CardPart, CardWrite
    <3>2. ASSUME dma # None PROVE dma.bank # stage.bank
      <4>1. /\ dma.bank = 1 - live.bank /\ stage.put = live.put /\ live # None /\ live.link = "usb"
            /\ live \in Transfer
        BY <1>1, <1>2, <3>2 DEF ByteInvariant, BankInvariant, BankPart, UsbInvariant, CardPart
      <4>2. stage.bank = live.bank
        BY <1>1, <1>2, <4>1 DEF ByteInvariant, BankInvariant, BankPart, Mine
      <4>3. live.bank \in {0, 1}  BY <4>1 DEF Transfer, Banks
      <4> QED  BY <4>1, <4>2, <4>3
    <3> QED  BY <3>1, <3>2
  <2>2. dma # None => bank'[dma.bank] = bank[dma.bank]  BY <1>7, <2>1
  <2>3. OnCable' <=> OnCable  BY <1>3 DEF OnCable
  <2>4. PublishedIsSent'  BY <1>3 DEF ByteInvariant, RowPart, PublishedIsSent
  <2>5. dma # None => \A i \in 1 .. dma.len : bank'[dma.bank][i] = <<live.put, Len(row) + i - 1>>
    BY <1>1, <2>2 DEF ByteInvariant, RowPart, Holds
  <2> QED  BY <1>3, <2>3, <2>4, <2>5 DEF ByteInvariant, RowPart, Holds
<1>9. FillPart'
  <2>1. CASE ~granted
    <3>1. UNCHANGED <<bank, live, stage, queue>>  BY <1>2, <1>3, <2>1
    <3>2. Mail /\ FillPart  BY DEF ByteInvariant, BankInvariant, UsbInvariant
    <3> QED  BY <3>1, <3>2, FillKept
  <2>2. CASE granted /\ ~BatchDue
    <3>1. Len(queue') = 0  BY <1>1, <1>3, <2>2
    <3>2. Received - Filled = first
      <4> HIDE DEF Filled, Received, Frame
      <4> QED  BY <1>5
    <3>3. stage'.fill = Filled /\ stage'.received = Received /\ stage'.bank = stage.bank /\ stage'.put = stage.put
      BY <1>2, <2>2
    <3> HIDE DEF Filled, Received, first
    <3>4. \A i \in 1 .. stage'.fill :
             bank'[stage'.bank][i] = <<stage'.put, stage'.received - stage'.fill + i - 1>>
      BY <1>6, <2>2, <3>2, <3>3
    <3> QED  BY <1>2, <3>1, <3>4 DEF FillPart, Holds
  <2>3. CASE granted /\ BatchDue
    <3> DEFINE job == Job("Batch", "engine", Batch)
    <3>1. job.op = "Batch" /\ job.arg = Batch  BY DEF Job
    <3>2. Batch.put = stage.put /\ Batch.off = Received - Filled /\ Batch.len = Filled  BY DEF Batch
    <3>3. Received - Filled = first
      <4> HIDE DEF Filled, Received, Frame
      <4> QED  BY <1>5
    <3>4. queue' = <<job>>  BY <1>1, <1>3, <2>3
    <3> HIDE DEF job, Batch
    <3>5. Len(queue') = 1 /\ queue'[1] = job  BY <3>4
    <3>6. \A i \in 1 .. Len(queue') : i = 1 /\ queue'[i] = job  BY <3>5
    <3>7. live' # None /\ live'.link = "usb" /\ live'.put = stage.put => live'.bank = stage.bank
      BY <1>1, <1>2, <1>3 DEF ByteInvariant, BankInvariant, BankPart, Mine
    <3> HIDE DEF Filled, Received, first
    <3>8. \A k \in 1 .. queue'[1].arg.len :
             bank'[stage.bank][k] = <<queue'[1].arg.put, queue'[1].arg.off + k - 1>>
      BY <1>6, <2>3, <3>1, <3>2, <3>3, <3>5
    <3>9. stage'.fill = 0  BY <1>2, <2>3
    <3>10. queue'[1].arg.put = stage.put  BY <3>1, <3>2, <3>5
    <3>11. \A i \in 1 .. Len(queue') : queue'[i].op = "Batch" =>
              /\ i = 1
              /\ Mine(queue[i].arg.put)' =>
                   \A k \in 1 .. queue'[i].arg.len :
                     bank'[live'.bank][k] = <<queue'[i].arg.put, queue'[i].arg.off + k - 1>>
      BY <3>6, <3>7, <3>8, <3>10 DEF Mine
    <3> QED  BY <3>9, <3>11 DEF FillPart, Holds
  <2> QED  BY <2>1, <2>2, <2>3
<1> QED  BY <1>8, <1>9

\* Every await of the USB task.
LEMMA BytesOfTask ==
    ASSUME ByteInvariant, UsbTask PROVE ByteInvariant'
<1>1. BankInvariant'  BY BanksOfTask DEF ByteInvariant
<1>2. CASE Copy  BY <1>1, <1>2, CopyKeepsBytes DEF ByteInvariant
<1>3. CASE ~Copy
  <2>1. UNCHANGED <<live, dma>>  BY TaskFrame DEF ByteInvariant, BankInvariant
  <2>2. /\ UNCHANGED <<bank, row, published>>
        /\ stage' = stage \/ stage' = None \/ (stage'.fill = 0 /\ stage'.received = 0)
        /\ \/ queue' = queue
           \/ \E job : queue' = Append(queue, job) /\ job.op # "Batch"
    BY <1>3, TaskFills DEF ByteInvariant, BankInvariant
  <2>3. Mail /\ FillPart /\ RowPart  BY DEF ByteInvariant, BankInvariant, UsbInvariant
  <2> QED  BY <1>1, <2>1, <2>2, <2>3, FillKept, RowKept DEF ByteInvariant
<1> QED  BY <1>2, <1>3

-----------------------------------------------------------------------------
(* The storage task and the rest. *)

\* Behind the job that is served there is no batch.
LEMMA FillServed ==
    ASSUME Mail, FillPart, queue # <<>>, queue' = Tail(queue), UNCHANGED <<bank, stage>>
    PROVE  FillPart'
<1>1. /\ Len(queue') \in Nat
      /\ \A i \in 1 .. Len(queue') : i + 1 \in 1 .. Len(queue) /\ queue'[i] = queue[i + 1]
  <2>1. /\ Len(queue) \in Nat \ {0} /\ Len(queue') = Len(queue) - 1
        /\ \A i \in 1 .. Len(queue') : i + 1 \in 1 .. Len(queue) /\ queue'[i] = queue[i + 1]
    BY JobFacts
  <2>2. Len(queue) \in Nat \ {0} /\ Len(queue') = Len(queue) - 1  BY <2>1
  <2>3. Len(queue') \in Nat  BY <2>2
  <2> QED  BY <2>1, <2>3
<1>2. \A i \in 1 .. Len(queue') : i + 1 # 1  BY <1>1
<1>3. \A i \in 1 .. Len(queue') : queue'[i].op # "Batch"  BY <1>1, <1>2 DEF FillPart
<1>4. stage' # None =>
        \A k \in 1 .. stage'.fill : bank'[stage'.bank][k] = <<stage'.put, stage'.received - stage'.fill + k - 1>>
  BY DEF FillPart, Holds
<1> QED  BY <1>3, <1>4 DEF FillPart, Holds

\* What is left to show of a step that writes no bank and sends nothing: the row.
LEMMA RowEnds ==
    ASSUME RowPart, CardPart', ~OnCable', UNCHANGED published PROVE RowPart'
<1>1. ~(dma' # None /\ dma'.put # 0)  BY DEF CardPart, OnCable
<1>2. PublishedIsSent'  BY DEF RowPart, PublishedIsSent
<1> QED  BY <1>1, <1>2 DEF RowPart

\* The write that is under way ends.
LEMMA RowLands ==
    ASSUME CardPart, RowPart, row' = Landed, dma' = None, UNCHANGED <<bank, published>>,
           OnCable' => OnCable /\ live'.put = live.put
    PROVE  RowPart'
<1>1. PublishedIsSent'  BY DEF RowPart, PublishedIsSent
<1>2. OnCable' => \A i \in 1 .. Len(row') : row'[i] = <<live'.put, i - 1>>  BY LandedInOrder
<1> QED  BY <1>1, <1>2 DEF RowPart

\* A pump, a join, the link and a query.
LEMMA RowOfSimple ==
    ASSUME ByteInvariant, ServePump \/ ServeFinish \/ ServeLink \/ ServeQuery PROVE RowPart'
<1> USE DEF ByteInvariant, BankInvariant, UsbInvariant
<1>0. CardPart' /\ UNCHANGED bank
  <2>1. UsbInvariant'  BY ServesSimple
  <2> QED  BY <2>1 DEF ServePump, ServeFinish, ServeLink, ServeQuery, taskKeeps
<1>1. CASE ServePump \/ ServeQuery
  <2>1. UNCHANGED <<live, row, published, dma>>  BY <1>1 DEF ServePump, ServeQuery, card, engine
  <2> QED  BY <1>0, <2>1, RowKept
<1>2. CASE ServeFinish
  <2>1. row' = Landed /\ dma' = None /\ UNCHANGED <<live, published>>  BY <1>2 DEF ServeFinish, engine
  <2>2. OnCable' => OnCable /\ live'.put = live.put  BY <2>1 DEF OnCable
  <2> QED  BY <1>0, <2>1, <2>2, RowLands
<1>3. CASE ServeLink
  <2>1. ~OnCable' /\ UNCHANGED published  BY <1>3 DEF ServeLink, OnCable
  <2> QED  BY <1>0, <2>1, RowEnds
<1> QED  BY <1>1, <1>2, <1>3

\* An upload starts with nothing received.
LEMMA RowOfControl ==
    ASSUME ByteInvariant, ServeControl PROVE RowPart'
<1> USE DEF ByteInvariant, BankInvariant, UsbInvariant
<1>0. CardPart' /\ UNCHANGED bank
  <2>1. UsbInvariant'  BY ServesControl
  <2> QED  BY <2>1 DEF ServeControl, taskKeeps
<1>1. CASE UNCHANGED <<live, row, published, dma>>  BY <1>0, <1>1, RowKept
<1>2. CASE /\ live' = [link |-> "usb", put |-> TheJob.arg.put, received |-> 0, bank |-> 0]
           /\ row' = <<>> /\ UNCHANGED published
  <2>1. live'.received = 0 /\ live'.link = "usb"  BY <1>2
  <2>2. Len(row') = 0  BY <1>2
  <2>3. ~(dma' # None /\ dma'.put # 0)
    <3>1. dma' # None /\ dma'.put # 0 => live' # None /\ dma' \in CardWrite  BY <1>0 DEF CardPart
    <3>2. dma' # None /\ dma'.put # 0 => 0 + dma'.len = 0  BY <1>0, <2>1, <2>2, <3>1 DEF CardPart
    <3>3. dma' \in CardWrite => dma'.len \in Nat \ {0}  BY UsbAssumption DEF CardWrite
    <3> QED  BY <3>1, <3>2, <3>3
  <2>4. PublishedIsSent'  BY <1>2 DEF RowPart, PublishedIsSent
  <2> QED  BY <2>2, <2>3, <2>4 DEF RowPart
<1>3. CASE live' = None /\ UNCHANGED published
  <2>1. ~OnCable'  BY <1>3 DEF OnCable
  <2> QED  BY <1>0, <1>3, <2>1, RowEnds
<1> QED  BY <1>1, <1>2, <1>3 DEF ServeControl, card

\* The record's units follow what has landed.
LEMMA RowOfStream ==
    ASSUME ByteInvariant, ServeStream PROVE RowPart'
<1> USE DEF ByteInvariant, BankInvariant, UsbInvariant
<1> DEFINE f    == TheJob.arg
           part == [i \in 1 .. f.len |-> <<f.put, f.off + i - 1>>]
<1>0. CardPart' /\ UNCHANGED bank /\ f \in Record
  <2>1. UsbInvariant'  BY ServesStream
  <2> QED  BY <2>1, JobCarries DEF ServeStream, taskKeeps
<1>1. CASE UNCHANGED <<engine, card>>
  BY <1>0, <1>1, RowKept DEF engine, card
<1>2. CASE live' = None /\ UNCHANGED published
  <2>1. ~OnCable'  BY <1>2 DEF OnCable
  <2> QED  BY <1>0, <1>2, <2>1, RowEnds
<1>3. ASSUME Mine(f.put), f.off = live.received, f.off + f.len <= Declared
      PROVE  /\ f.len \in Nat /\ part \in [1 .. f.len -> Cell \cup {None}]
             /\ \A i \in 1 .. f.len : part[i] = <<live.put, live.received + i - 1>>
             /\ live.received \in Nat /\ OnCable /\ live.put = f.put
  <2>1. f.put \in Puts /\ f.off \in Nat /\ f.len \in Nat /\ Declared \in Nat
    BY <1>0, UsbAssumption DEF Record
  <2>2. \A i \in 1 .. f.len : f.off + i - 1 \in 0 .. Declared - 1  BY <1>3, <2>1
  <2>3. live.put = f.put /\ OnCable  BY <1>3, MineFacts DEF OnCable
  <2> QED  BY <1>3, <2>1, <2>2, <2>3 DEF Cell
<1>4. CASE /\ Mine(f.put) /\ f.off = live.received /\ f.off + f.len <= Declared
           /\ live' = [live EXCEPT !.received = @ + f.len] /\ row' = Landed \o part /\ dma' = None
           /\ UNCHANGED published
  <2>1. PublishedIsSent'  BY <1>4 DEF RowPart, PublishedIsSent
  <2>2. live'.put = live.put  BY <1>4, MineFacts DEF Transfer
  <2>3. Landed \in Seq(Cell \cup {None}) /\ Len(Landed) = live.received  BY <1>4, MineFacts
  <2>4. \A i \in 1 .. Len(Landed) : Landed[i] = <<live.put, i - 1>>  BY <1>3, <1>4, LandedInOrder
  <2>5. \A i \in 1 .. f.len : part[i] = <<live.put, Len(Landed) + i - 1>>  BY <1>3, <1>4, <2>3
  <2>6. f.len \in Nat /\ part \in [1 .. f.len -> Cell \cup {None}]  BY <1>3, <1>4
  <2> HIDE DEF part, f, Landed
  <2>7. \A i \in 1 .. Len(row') : row'[i] = <<live.put, i - 1>>
    BY <1>4, <2>3, <2>4, <2>5, <2>6, InOrder
  <2> QED  BY <1>4, <2>1, <2>2, <2>7 DEF RowPart
<1>5. CASE Mine(f.put) /\ f.off = live.received /\ f.off + f.len = Declared /\ Commit(Landed \o part)
  <2>1. Declared \in Nat  BY UsbAssumption
  <2>2. f.off + f.len <= Declared  BY <1>5, <2>1
  <2>3. live.received + f.len = Declared  BY <1>5
  <2> QED  BY <1>3, <1>5, <2>2, <2>3, CommitInOrder
<1> QED  BY <1>1, <1>2, <1>3, <1>4, <1>5 DEF ServeStream, Fails, engine

\* The units of the batch follow what has landed, in the bank the engine takes next.
LEMMA RowOfBatch ==
    ASSUME ByteInvariant, ServeBatch PROVE RowPart'
<1> USE DEF ByteInvariant, BankInvariant, UsbInvariant
<1> DEFINE b    == TheJob.arg
           part == [i \in 1 .. b.len |-> bank[live.bank][i]]
<1>0. CardPart' /\ UNCHANGED bank /\ b \in Record
  <2>1. UsbInvariant'  BY ServesBatch
  <2> QED  BY <2>1, JobCarries DEF ServeBatch, taskKeeps
<1>1. CASE UNCHANGED <<engine, card>>
  BY <1>0, <1>1, RowKept DEF engine, card
<1>2. CASE ~OnCable' /\ UNCHANGED published
  BY <1>0, <1>2, RowEnds
<1>3. ASSUME Mine(b.put), b.off = live.received
      PROVE  /\ b.len \in Nat /\ part \in [1 .. b.len -> Cell \cup {None}]
             /\ \A i \in 1 .. b.len : part[i] = <<live.put, live.received + i - 1>>
             /\ OnCable /\ live.put = b.put
  <2>1. queue # <<>> /\ TheJob.op = "Batch"  BY DEF ServeBatch
  <2>2. TheJob = queue[1] /\ 1 \in 1 .. Len(queue)  BY <2>1, JobCarries
  <2>3. Holds(live.bank, b.put, b.off, b.len)
    <3> HIDE DEF TheJob
    <3> QED  BY <1>3, <2>1, <2>2 DEF FillPart
  <2>4. live.put = b.put /\ OnCable  BY <1>3, MineFacts DEF OnCable
  <2>5. b.len \in 1 .. Half /\ Half \in Nat  BY <1>0, UsbAssumption DEF Record
  <2>6. bank[live.bank] \in [1 .. Half -> Cell \cup {None}]  BY <1>3, MineFacts
  <2>7. b.len \in Nat /\ 1 .. b.len \subseteq 1 .. Half  BY <2>5
  <2>8. part \in [1 .. b.len -> Cell \cup {None}]  BY <2>6, <2>7
  <2> QED  BY <1>3, <2>3, <2>4, <2>7, <2>8 DEF Holds
<1>4. CASE /\ Mine(b.put) /\ b.off = live.received
           /\ live' = [live EXCEPT !.received = @ + b.len, !.bank = 1 - @] /\ row' = Landed
           /\ dma' = [bank |-> live.bank, len |-> b.len, put |-> b.put] /\ UNCHANGED published
  <2>1. PublishedIsSent'  BY <1>4 DEF RowPart, PublishedIsSent
  <2>2. live'.put = live.put  BY <1>4, MineFacts DEF Transfer
  <2>3. Len(Landed) = live.received  BY <1>4, MineFacts
  <2>4. \A i \in 1 .. Len(Landed) : Landed[i] = <<live.put, i - 1>>  BY <1>3, <1>4, LandedInOrder
  <2>5. dma'.bank = live.bank /\ dma'.len = b.len  BY <1>4
  <2>6. \A i \in 1 .. b.len : bank[live.bank][i] = <<live.put, Len(Landed) + i - 1>>
    BY <1>3, <1>4, <2>3
  <2> HIDE DEF part, b, Landed
  <2> QED  BY <1>0, <1>4, <2>1, <2>2, <2>4, <2>5, <2>6 DEF RowPart, Holds
<1>5. CASE Mine(b.put) /\ b.off = live.received /\ b.off + b.len = Declared /\ Commit(Landed \o part)
  <2>1. live.received + b.len = Declared  BY <1>5
  <2> QED  BY <1>3, <1>5, <2>1, CommitInOrder
<1>6. Fails(b.off = live.received /\ b.off + b.len <= Declared) => ~OnCable' /\ UNCHANGED published
  BY DEF Fails, OnCable
<1>7. live' = (IF live # None /\ live.link = "usb" THEN None ELSE live) => ~OnCable'  BY DEF OnCable
<1> QED  BY <1>1, <1>2, <1>4, <1>5, <1>6, <1>7 DEF ServeBatch

\* Whatever the storage task serves.
LEMMA BytesOfStorage ==
    ASSUME ByteInvariant, storage_task PROVE ByteInvariant'
<1>1. BankInvariant'  BY BanksOfStorage DEF ByteInvariant
<1>2. RowPart'  BY RowOfSimple, RowOfControl, RowOfStream, RowOfBatch DEF storage_task
<1>3. UNCHANGED taskKeeps /\ queue # <<>> /\ queue' = Tail(queue)
  <2>1. CASE ServePump \/ ServeFinish \/ ServeLink \/ ServeQuery
    BY <2>1 DEF ServePump, ServeFinish, ServeLink, ServeQuery, React, Reply
  <2>2. CASE ServeControl  BY <2>2 DEF ServeControl, React, Reply
  <2>3. CASE ServeStream  BY <2>3 DEF ServeStream, React, Reply, Commit, Fails
  <2>4. CASE ServeBatch  BY <2>4 DEF ServeBatch, React, Reply, Commit, Fails
  <2> QED  BY <2>1, <2>2, <2>3, <2>4 DEF storage_task
<1>4. UNCHANGED <<bank, stage>>  BY <1>3 DEF taskKeeps, driver
<1>5. FillPart'  BY <1>3, <1>4, FillServed DEF ByteInvariant, BankInvariant, UsbInvariant
<1> QED  BY <1>1, <1>2, <1>5 DEF ByteInvariant

\* What happens around the two tasks.
LEMMA BytesOfOthers ==
    ASSUME ByteInvariant,
           \/ Stalls \/ BleMap \/ WriteEnds \/ RideLoop \/ BadRecord
           \/ HostPut \/ HostRecord \/ HostCancel \/ HostList \/ Unplug \/ Replug
    PROVE  ByteInvariant'
<1> USE DEF ByteInvariant
<1>0. BankInvariant'
  BY BanksOfAround, BanksOfHost, BanksOfBadRecord
<1>a. CardPart' /\ CardPart /\ Mail  BY <1>0 DEF BankInvariant, UsbInvariant
<1>1. CASE HostPut \/ HostRecord \/ HostCancel \/ HostList \/ Unplug \/ Replug \/ RideLoop
  <2>1. UNCHANGED <<bank, live, stage, queue, row, published, dma>>
    BY <1>1 DEF HostPut, HostRecord, HostCancel, HostList, Unplug, Replug, RideLoop, hostKeeps, around,
         driver, engine, card
  <2> QED  BY <1>0, <1>a, <2>1, FillKept, RowKept
<1>2. CASE BadRecord
  <2>1. Teardown /\ UNCHANGED <<engine, bank, card>>  BY <1>2 DEF BadRecord
  <2>2. stage' = None /\ queue' = Append(queue, Job("LinkLost", TeardownSlot, 0))
    BY <2>1 DEF Teardown, Call, Send
  <2>3. Job("LinkLost", TeardownSlot, 0).op # "Batch"  BY DEF Job
  <2>4. UNCHANGED <<bank, live, row, published, dma>>  BY <2>1 DEF engine, card
  <2>5. \E job : queue' = Append(queue, job) /\ job.op # "Batch"  BY <2>2, <2>3
  <2> QED  BY <1>0, <1>a, <2>2, <2>4, <2>5, FillKept, RowKept
<1>3. CASE WriteEnds
  <2>1. row' = Landed /\ dma' = None /\ UNCHANGED <<bank, live, stage, queue, published>>
    BY <1>3 DEF WriteEnds, around, driver, engine
  <2>2. OnCable' => OnCable /\ live'.put = live.put  BY <2>1 DEF OnCable
  <2> QED  BY <1>0, <1>a, <2>1, <2>2, FillKept, RowLands
<1>4. CASE Stalls \/ BleMap
  <2>1. ~OnCable' /\ UNCHANGED <<bank, stage, queue, published>>
    BY <1>4 DEF Stalls, BleMap, OnCable, around, driver, card
  <2>2. RowPart'  BY <1>a, <2>1, RowEnds
  <2>3. \A n : ~Mine(n)'  BY <2>1 DEF Mine, OnCable
  <2>4. FillPart'  BY <2>1, <2>3 DEF FillPart, Holds
  <2> QED  BY <1>0, <2>2, <2>4
<1> QED  BY <1>1, <1>2, <1>3, <1>4

-----------------------------------------------------------------------------
(* The theorems about the bytes. *)

\* Every unit of a batch, a write and a reservation is the client's, at its place.
THEOREM BytesOfTheCable == Spec => []ByteInvariant
<1>1. ASSUME Init PROVE ByteInvariant
  <2>1. BankInvariant  BY <1>1, InitBanks
  <2>2. RowPart  BY <1>1 DEF Init, RowPart, OnCable, PublishedIsSent
  <2>3. Len(queue) = 0 /\ stage = None  BY <1>1 DEF Init
  <2> QED  BY <2>1, <2>2, <2>3 DEF ByteInvariant, FillPart
<1>2. ASSUME ByteInvariant, UNCHANGED vars PROVE ByteInvariant'
  <2>1. BankInvariant'  BY <1>2, BanksOfNobody DEF ByteInvariant
  <2>2. UNCHANGED <<bank, live, stage, queue, row, published, dma>>
    BY <1>2 DEF vars, driver, engine, card
  <2>3. Mail /\ FillPart /\ RowPart  BY <1>2 DEF ByteInvariant, BankInvariant, UsbInvariant
  <2> QED  BY <2>1, <2>2, <2>3, FillKept, RowKept DEF ByteInvariant
<1>3. ASSUME ByteInvariant, [Next]_vars PROVE ByteInvariant'
  BY <1>2, <1>3, BytesOfTask, BytesOfStorage, BytesOfOthers, Zenon DEF Next, Others
<1> QED  BY <1>1, <1>3, PTL DEF Spec

\* A map the cable published is what its client sent, unit by unit, whichever records went by
\* way of a stage, and whatever uploads there were before it.
THEOREM PublishedIsWhatWasSent == Spec => []PublishedIsSent
<1>1. ByteInvariant => PublishedIsSent  BY DEF ByteInvariant, RowPart
<1> QED  BY <1>1, BytesOfTheCable, PTL
===============================================================================
