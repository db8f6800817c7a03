-------------------------- MODULE MqttOrder_proofs --------------------------
(***************************************************************************)
(* Proofs about the SUB task, continued: what holds of the mailbox when    *)
(* messages come one at a time (a request names what the host asked for),  *)
(* and of a whole upload when the traffic is orderly (no stream leaks, and *)
(* the answer is right).                                                   *)
(*                                                                         *)
(* The second part follows an upload through its messages: each has an     *)
(* effect on the host's state when it is published and on the state of SUB *)
(* when it is dealt with, and between the two the message itself accounts  *)
(* for the difference (Expected); before and after there is none           *)
(* (Settled).                                                              *)
(***************************************************************************)
EXTENDS MqttSub_proofs

\* What the handler has copied so far; when it is idle, all of a message.
Mirrored ==
  /\ hpc = "idle" => data_len = Length(data)
  /\ hpc \in {"data", "give"} => topic = event.topic /\ data_len = Length(event.body)

\* A request for a file is a header with a name that the host asked for.
Asked(t, m) ==
  t \in {"get", "delete"} =>
    m.kind = "header" /\ [request |-> t, name |-> m.name] \in requested

MailboxAsked ==
  IF hpc = "idle" THEN Asked(topic, data) ELSE Asked(event.topic, event.body)

RequestInv == Exclusive /\ Mirrored /\ MailboxAsked /\ RequestFaithful

\* What the host once asked for stays asked for.
LEMMA RequestedGrows == [Next]_vars => requested \subseteq requested'
BY DEF Next, vars, Library, LinkEvent, SilentEvent, Handler, CopyTopic,
   CopyLength, CopyData, Give, Host, PublishHeader, PublishChunk, PublishTailer,
   PublishRequest, PublishList, Abandon, Receive, Sub, Take, Dispatch, SkipPut,
   EnterPut, Panic, Parse, OpenOK, OpenFails, WriteOK, WriteFails, UpdateHash,
   CloseFile, Send, SendTimesOut, AfterSend, NameRequest, ListRequest,
   SkipRequest, history

\* SUB and the main task leave the mailbox alone, and so does what only sets event_id.
LEMMA MailboxAside ==
  ASSUME Sub \/ Receive \/ Abandon \/ UNCHANGED vars
           \/ (\E e \in {"connected", "disconnected", "error"} : LinkEvent(e))
           \/ (\E e \in {"other", "data"} : SilentEvent(e))
  PROVE  UNCHANGED <<topic, data_len, data, hpc, event>>
BY DEF vars, mailbox, handler, LinkEvent, SilentEvent, SetEvent, Abandon, Receive, Sub, Take, Dispatch, SkipPut,
   EnterPut, Panic, Parse, OpenOK, OpenFails, WriteOK, WriteFails, UpdateHash,
   CloseFile, Send, SendTimesOut, AfterSend, NameRequest, ListRequest, SkipRequest

\* A message that the host publishes arrives, with the mailbox as it was, or is lost.
LEMMA MailboxPublish ==
  ASSUME NEW t, NEW m, Publish(t, m)
  PROVE  /\ UNCHANGED <<topic, data_len, data>>
         /\ \/ UNCHANGED <<hpc, event>>
            \/ hpc = "idle" /\ hpc' = "topic" /\ event' = [topic |-> t, body |-> m]
BY DEF Publish, Arrive, Lose, SetEvent, handler

\* The handler copies one event at a time, so that the mailbox is whole when it rests.
LEMMA StepMirrored == Mirrored /\ [Next]_vars => Mirrored'
<1> SUFFICES ASSUME Mirrored, [Next]_vars PROVE Mirrored'
  OBVIOUS
<1> USE DEF Mirrored
<1>1. CASE Handler
  BY <1>1 DEF Handler, CopyTopic, CopyLength, CopyData, Give
<1>2. ASSUME NEW t, NEW m, Publish(t, m) PROVE Mirrored'
  BY <1>2, MailboxPublish
<1>3. CASE Sub \/ Receive \/ Abandon \/ UNCHANGED vars
           \/ (\E e \in {"connected", "disconnected", "error"} : LinkEvent(e))
           \/ (\E e \in {"other", "data"} : SilentEvent(e))
  BY <1>3, MailboxAside
<1> QED
  BY <1>1, <1>2, <1>3 DEF Next, Library, Host, PublishHeader, PublishChunk, PublishTailer, PublishRequest,
     PublishList

\* What is posted after a step was posted before it, or SUB has just built it.
LEMMA PostedNew ==
  ASSUME TypeOK, [Next]_vars, NEW m \in Posted'
  PROVE  \/ m \in Posted
         \/ /\ m = queueBuf'
            /\ \/ \E flushed \in BOOLEAN : CloseFile(flushed)
               \/ \E t \in {"get", "delete"} : NameRequest(t)
               \/ ListRequest
<1>a. xQueueSubscribe \in Seq(Request)
  BY DEF TypeOK, FlashType
<1>1. CASE UNCHANGED <<pc, queueBuf, xQueueSubscribe>>
  BY <1>1 DEF Posted
<1>2. CASE UNCHANGED <<queueBuf, xQueueSubscribe>> /\ pc' # "send"
  BY <1>2 DEF Posted
<1>3. CASE Receive
  <2>1. /\ xQueueSubscribe # <<>> /\ xQueueSubscribe' = Tail(xQueueSubscribe)
        /\ UNCHANGED <<pc, queueBuf>>
    BY <1>3 DEF Receive, locals
  <2>2. \A i \in DOMAIN Tail(xQueueSubscribe) :
          i + 1 \in DOMAIN xQueueSubscribe
          /\ Tail(xQueueSubscribe)[i] = xQueueSubscribe[i + 1]
    BY <1>a, <2>1
  <2>3. QED
    BY <2>1, <2>2 DEF Posted
<1>4. CASE Send
  <2>1. /\ pc = "send" /\ pc' # "send"
        /\ xQueueSubscribe' = Append(xQueueSubscribe, queueBuf)
    BY <1>4 DEF Send, AfterSend, After
  <2>2. \A i \in DOMAIN xQueueSubscribe' :
          \/ xQueueSubscribe'[i] = queueBuf
          \/ i \in DOMAIN xQueueSubscribe
             /\ xQueueSubscribe'[i] = xQueueSubscribe[i]
    BY <1>a, <2>1
  <2>3. QED
    BY <2>1, <2>2 DEF Posted
<1>5. CASE SendTimesOut
  BY <1>5, <1>2 DEF SendTimesOut, AfterSend, After
<1>6. CASE \/ \E flushed \in BOOLEAN : CloseFile(flushed)
           \/ \E t \in {"get", "delete"} : NameRequest(t)
           \/ ListRequest
  <2>1. xQueueSubscribe' = xQueueSubscribe
    BY <1>6 DEF CloseFile, NameRequest, ListRequest
  <2>2. QED
    BY <1>6, <2>1 DEF Posted
<1>7. CASE Take \/ Dispatch \/ SkipPut \/ EnterPut \/ Panic \/ Parse
  BY <1>7, <1>2 DEF Take, Dispatch, SkipPut, EnterPut, Panic, Parse, locals
<1>8. CASE \/ OpenOK \/ OpenFails \/ WriteOK \/ WriteFails \/ UpdateHash
           \/ \E t \in {"get", "list", "delete"} : SkipRequest(t)
  BY <1>8, <1>2 DEF OpenOK, OpenFails, WriteOK, WriteFails, UpdateHash,
     SkipRequest, After, locals
<1>9. CASE Library \/ Host \/ UNCHANGED vars
  <2>1. UNCHANGED <<pc, queueBuf, xQueueSubscribe>>
    BY <1>9 DEF vars, Library, LinkEvent, SilentEvent, Handler, CopyTopic,
       CopyLength, CopyData, Give, Host, PublishHeader, PublishChunk,
       PublishTailer, PublishRequest, PublishList, Publish, Abandon, locals
  <2>2. QED
    BY <1>1, <2>1
<1>10. QED
  BY <1>3, <1>4, <1>5, <1>6, <1>7, <1>8, <1>9 DEF Next, Sub

\* The message in the mailbox, or on its way there, is what the host published.
LEMMA StepMailboxAsked == Mirrored /\ MailboxAsked /\ [Next]_vars => MailboxAsked'
<1> SUFFICES ASSUME Mirrored, MailboxAsked, [Next]_vars PROVE MailboxAsked'
  OBVIOUS
<1>a. requested \subseteq requested'
  BY RequestedGrows
<1>1. CASE Handler
  BY <1>1, <1>a DEF Handler, CopyTopic, CopyLength, CopyData, Give, Mirrored,
     MailboxAsked, Asked
<1>2. ASSUME NEW t, NEW m, Publish(t, m), Asked(t, m)' PROVE MailboxAsked'
  <2>1. CASE UNCHANGED <<hpc, event>>
    BY <1>2, <1>a, <2>1, MailboxPublish DEF MailboxAsked, Asked
  <2>2. CASE hpc' = "topic" /\ event' = [topic |-> t, body |-> m]
    BY <1>2, <2>2 DEF MailboxAsked
  <2>3. QED
    BY <1>2, <2>1, <2>2, MailboxPublish
<1>3. CASE Sub \/ Receive \/ Abandon \/ UNCHANGED vars
           \/ (\E e \in {"connected", "disconnected", "error"} : LinkEvent(e))
           \/ (\E e \in {"other", "data"} : SilentEvent(e))
  BY <1>3, <1>a, MailboxAside DEF MailboxAsked, Asked
<1>4. CASE \E n \in Names : PublishHeader(n)
  BY <1>2, <1>4 DEF PublishHeader, Asked
<1>5. CASE \E c \in Chunks : PublishChunk(c)
  BY <1>2, <1>5 DEF PublishChunk, Asked
<1>6. CASE PublishTailer
  BY <1>2, <1>6 DEF PublishTailer, Asked
<1>7. CASE \E t \in {"get", "delete"}, n \in Names : PublishRequest(t, n)
  <2>1. PICK t \in {"get", "delete"}, n \in Names : PublishRequest(t, n)
    BY <1>7
  <2>2. Publish(t, Header(n)) /\ [request |-> t, name |-> n] \in requested'
    BY <2>1 DEF PublishRequest
  <2>3. Header(n).kind = "header" /\ Header(n).name = n
    BY DEF Header
  <2>4. Asked(t, Header(n))'
    BY <2>2, <2>3 DEF Asked
  <2>5. QED
    BY <1>2, <2>2, <2>4
<1>8. CASE PublishList
  BY <1>2, <1>8 DEF PublishList, Asked
<1> QED
  BY <1>1, <1>3, <1>4, <1>5, <1>6, <1>7, <1>8 DEF Next, Library, Host

\* A request is built from the header that its topic came with.
LEMMA StepFaithful ==
  TypeOK /\ Exclusive /\ Mirrored /\ MailboxAsked /\ RequestFaithful /\ [Next]_vars
    => RequestFaithful'
<1> SUFFICES ASSUME TypeOK, Exclusive, Mirrored, MailboxAsked, RequestFaithful,
                    [Next]_vars, NEW m \in Posted', m.request \in {"get", "delete"}
             PROVE  [request |-> m.request, name |-> m.payload] \in requested'
  BY DEF RequestFaithful
<1>1. CASE m \in Posted
  BY <1>1, RequestedGrows DEF RequestFaithful
<1>2. CASE m = queueBuf' /\ \E flushed \in BOOLEAN : CloseFile(flushed)
  BY <1>2 DEF CloseFile
<1>3. CASE m = queueBuf' /\ ListRequest
  <2>1. queueBuf \in Request /\ queueBuf' = [queueBuf EXCEPT !.request = "list"]
    BY <1>3 DEF ListRequest, TypeOK, LocalsType
  <2>2. QED
    BY <1>3, <2>1 DEF Request
<1>4. CASE m = queueBuf' /\ \E t \in {"get", "delete"} : NameRequest(t)
  <2>1. PICK t \in {"get", "delete"} : NameRequest(t)
    BY <1>4
  <2>2. /\ pc = t /\ topic = t /\ UNCHANGED requested
        /\ queueBuf' = [queueBuf EXCEPT !.request = t, !.payload = ParsedName]
    BY <2>1 DEF NameRequest, history
  <2>3. queueBuf \in Request
    BY DEF TypeOK, LocalsType
  <2>4. m.request = t /\ m.payload = ParsedName
    BY <1>4, <2>2, <2>3 DEF Request
  <2>5. hpc = "idle"
    BY <2>2 DEF Exclusive
  <2>6. data.kind = "header" /\ [request |-> t, name |-> data.name] \in requested
    BY <2>2, <2>5 DEF MailboxAsked, Asked
  <2>7. ParsedName = data.name
    BY <2>5, <2>6 DEF ParsedName, MessageType, Mirrored, Length
  <2>8. QED
    BY <2>2, <2>4, <2>6, <2>7
<1> QED
  BY <1>1, <1>2, <1>3, <1>4, PostedNew

\* When messages arrive one at a time, no file is sent or deleted under a name
\* that belongs to another message: the main task is asked for what the host
\* asked for, whatever became of the traffic around it.
THEOREM RequestsAreFaithful == ASSUME Paced PROVE Spec => []RequestFaithful
<1>1. Init => RequestInv
  BY GarbledType DEF Init, RequestInv, Exclusive, Mirrored, MailboxAsked, Asked,
     RequestFaithful, Posted
<1>2. TypeOK /\ Streams /\ RequestInv /\ [Next]_vars => RequestInv'
  BY StepExclusive, StepMirrored, StepMailboxAsked, StepFaithful, Paced DEF RequestInv
<1>3. RequestInv => RequestFaithful
  BY DEF RequestInv
<1>4. QED
  BY <1>1, <1>2, <1>3, TypeCorrect, PTL DEF Spec

-----------------------------------------------------------------------------
\* Unless a write failed, the open file and the digest hold these blocks of this name.
Streaming(name, blocks) ==
  fileOpen => file = name /\ (torn \/ (store[file] = blocks /\ context = blocks))

Settled ==
  IF host.name = NoFile THEN ~fileOpen ELSE Streaming(host.name, host.sent)

\* The host has published the message, and SUB has not dealt with it.
Expected(t, m) ==
  /\ t # "put" => host.name = NoFile /\ ~fileOpen
  /\ t = "put" /\ m.kind = "header" =>
       host.name \in Names /\ m.name = host.name /\ host.sent = <<>> /\ ~fileOpen
  /\ t = "put" /\ m.kind = "chunk" =>
       /\ host.name \in Names /\ m.block \in Chunks
       /\ fileOpen =>
            /\ file = host.name
            /\ torn \/ /\ Append(store[file], m.block) = host.sent
                       /\ Append(context, m.block) = host.sent
  /\ t = "put" /\ m.kind = "tailer" =>
       /\ host.name = NoFile /\ \A i \in DOMAIN m.digest : m.digest[i] \in Chunks
       /\ \E n \in Names : /\ [name |-> n, content |-> m.digest] \in completed
                           /\ Streaming(n, m.digest)

\* A notification of a message that is in the mailbox.
Fresh == event_id = "data" /\ (notified \/ pc = "dispatch")

\* The handler works only while SUB waits, and nothing replaces an event before SUB reads it.
InTurn ==
  /\ hpc # "idle" => pc = "wait" /\ ~notified /\ event_id = "data" /\ Expected(event.topic, event.body)
  /\ pc = "dispatch" => ~notified
  /\ Fresh => pc \in {"wait", "dispatch"}

\* Where SUB is with the message in the mailbox.
Progress ==
  hpc = "idle" =>
    /\ Fresh \/ pc \in {"put", "parse", "open", "write", "close"} => Expected(topic, data)
    /\ ~Fresh /\ pc \in {"wait", "dispatch", "get", "list", "delete", "stopped"} => Settled
    /\ pc \in {"get", "list", "delete"} /\ topic # "put" => host.name = NoFile
    /\ pc \in {"parse", "open", "write", "hash", "close"} => topic = "put"
    /\ pc = "open"  => data.kind = "header" /\ filename = data.name
    /\ pc = "write" => data.kind = "chunk"
    /\ pc = "hash"  =>
         /\ file = host.name /\ Block \in Chunks
         /\ torn \/ (store[file] = host.sent /\ Append(context, Block) = host.sent)
    /\ pc = "close" => data.kind = "tailer" /\ md5 = data.digest
    /\ pc = "send"  => host.name = NoFile /\ (queueBuf.request # "put" => ~fileOpen)
    /\ pc # "crashed"

\* The stream that is open, the host's blocks, and the handles.
Accounts ==
  /\ fileOpen => file \in Names /\ filepath = file
  /\ handles = IF HoldsStream THEN 1 ELSE 0
  /\ \A i \in DOMAIN host.sent : host.sent[i] \in Chunks

OrderInv == (orderly => InTurn /\ Progress /\ Accounts) /\ OrderlyAnswer

Orderly == InTurn /\ Progress /\ Accounts

\* What the invariant says of the stream and the host, as far as it does not
\* speak of the mailbox, stays when none of it is touched.
LEMMA SettledStays ==
  ASSUME UNCHANGED <<host, fileOpen, file, torn, store, context>>
  PROVE  Settled => Settled'
BY DEF Settled, Streaming

\* What a message in the mailbox announces stays true while no one acts on it.
LEMMA ExpectedStays ==
  ASSUME UNCHANGED <<host, fileOpen, file, torn, store, context, topic, data>>,
         completed \subseteq completed'
  PROVE  Expected(topic, data) => Expected(topic, data)'
BY DEF Expected, Streaming

\* The same of the message that the handler is about to copy.
LEMMA EventStays ==
  ASSUME UNCHANGED <<host, fileOpen, file, torn, store, context, event>>,
         completed \subseteq completed'
  PROVE  Expected(event.topic, event.body) => Expected(event.topic, event.body)'
BY DEF Expected, Streaming

\* The type of the message in the mailbox, read as SUB reads it.
LEMMA WholeMessage ==
  ASSUME TypeOK, Mirrored, hpc = "idle"
  PROVE  /\ MessageType = data.kind
         /\ data.kind = "chunk" => Block = data.block
BY DEF TypeOK, MailboxType, Message, Mirrored, Length, MessageType, Block

\* CONNECTED and its like find no message on its way and none unread.
LEMMA OrderEvents ==
  ASSUME TypeOK, Orderly, orderly',
         \/ \E e \in {"connected", "disconnected", "error"} : LinkEvent(e)
         \/ \E e \in {"other", "data"} : SilentEvent(e)
  PROVE  Orderly'
<1>1. /\ UNCHANGED <<host, fileOpen, file, torn, store, context, topic, data, data_len,
                     completed, hpc, event, pc, filename, filepath, md5, queueBuf, handles>>
      /\ hpc = "idle" /\ ~notified /\ pc # "dispatch"
      /\ notified' => event_id' # "data"
  <2>1. CASE \E e \in {"connected", "disconnected", "error"} : LinkEvent(e)
    BY <2>1 DEF LinkEvent, SetEvent, Overtakes, handler, locals, flash
  <2>2. CASE \E e \in {"other", "data"} : SilentEvent(e)
    <3>1. UNCHANGED notified /\ notified \in BOOLEAN
      BY <2>2 DEF SilentEvent, TypeOK, MailboxType
    <3>2. ~notified /\ pc # "dispatch"
      BY <2>2 DEF SilentEvent, Overtakes
    <3>3. ~notified'
      BY <3>1, <3>2
    <3> QED
      BY <2>2, <3>2, <3>3 DEF SilentEvent, SetEvent, handler, locals, flash
  <2> QED
    BY <2>1, <2>2
<1>2. ~Fresh /\ ~Fresh'
  BY <1>1 DEF Fresh
<1>3. InTurn'
  BY <1>1, <1>2 DEF Orderly, InTurn
<1>4. Settled => Settled'
  BY <1>1, SettledStays
<1>5. Expected(topic, data) => Expected(topic, data)'
  BY <1>1, ExpectedStays
<1>6. Progress'
  BY <1>1, <1>2, <1>4, <1>5 DEF Orderly, Progress, Block
<1>7. Accounts'
  BY <1>1 DEF Orderly, Accounts, HoldsStream
<1> QED
  BY <1>3, <1>6, <1>7 DEF Orderly

\* While the handler copies, SUB waits; then the message is there, unread.
LEMMA OrderHandler ==
  ASSUME TypeOK, Mirrored, Orderly, Handler
  PROVE  Orderly'
<1>1. UNCHANGED <<host, fileOpen, file, torn, store, context, completed, event, pc,
                  event_id, filename, filepath, queueBuf, handles>>
  BY DEF Handler, CopyTopic, CopyLength, CopyData, Give, locals, flash, history
<1>2. hpc # "idle" /\ pc = "wait" /\ event_id = "data"
  BY DEF Handler, CopyTopic, CopyLength, CopyData, Give, Orderly, InTurn
<1>3. Accounts'
  BY <1>1 DEF Orderly, Accounts, HoldsStream
<1>4. Expected(event.topic, event.body)'
  BY <1>1, <1>2, EventStays DEF Orderly, InTurn
<1>5. CASE CopyTopic \/ CopyLength \/ CopyData
  <2>1. hpc' # "idle" /\ notified' = notified
    BY <1>5 DEF CopyTopic, CopyLength, CopyData
  <2>2. InTurn'
    BY <1>1, <1>2, <1>4, <2>1 DEF Orderly, InTurn, Fresh
  <2>3. Progress'
    BY <2>1 DEF Progress
  <2> QED
    BY <1>3, <2>2, <2>3 DEF Orderly
<1>6. CASE Give
  <2>1. hpc' = "idle" /\ notified' /\ topic' = event.topic /\ data' = event.body
    BY <1>6 DEF Give, Mirrored
  <2>2. Fresh'
    BY <1>1, <1>2, <2>1 DEF Fresh
  <2>3. InTurn'
    BY <1>1, <1>2, <2>1 DEF InTurn
  <2>4. topic' = event'.topic /\ data' = event'.body
    BY <1>1, <2>1
  <2>5. Expected(topic, data)'
    BY <1>4, <2>4 DEF Expected
  <2>6. Progress'
    BY <1>1, <1>2, <2>2, <2>5 DEF Progress
  <2> QED
    BY <1>3, <2>3, <2>6 DEF Orderly
<1> QED
  BY <1>5, <1>6 DEF Handler

\* When a message can arrive in order, SUB has dealt with all before it.
LEMMA Ready ==
  ASSUME Orderly, hpc = "idle", pc = "wait", ~notified
  PROVE  Settled
BY DEF Orderly, Progress, Fresh

\* A message arrives in order when it accounts for what the host has just done.
LEMMA OrderPublish ==
  ASSUME TypeOK, Orderly, orderly', NEW t, NEW m, Publish(t, m),
         Arrive(t, m) /\ Settled => Expected(t, m)',
         \A i \in DOMAIN host'.sent : host'.sent[i] \in Chunks
  PROVE  Orderly'
<1>1. Arrive(t, m)
  BY DEF Publish, Lose
<1>2. /\ hpc = "idle" /\ pc = "wait" /\ ~notified
      /\ hpc' = "topic" /\ event_id' = "data" /\ event' = [topic |-> t, body |-> m]
      /\ UNCHANGED <<pc, notified, fileOpen, file, filepath, queueBuf, handles>>
  BY <1>1 DEF Publish, Arrive, SetEvent, locals, flash
<1>3. Expected(t, m)'
  BY <1>1, <1>2, Ready
<1>4. Expected(event.topic, event.body)'
  <2>1. event'.topic = t /\ event'.body = m
    BY <1>2
  <2> QED
    BY <1>3, <2>1 DEF Expected
<1>5. InTurn'
  BY <1>2, <1>4 DEF InTurn, Fresh
<1>6. Progress'
  BY <1>2 DEF Progress
<1>7. Accounts'
  BY <1>2 DEF Orderly, Accounts, HoldsStream
<1> QED
  BY <1>5, <1>6, <1>7 DEF Orderly

\* A header opens an upload when none is open.
LEMMA OrderHeader ==
  ASSUME TypeOK, Orderly, orderly', NEW n \in Names, PublishHeader(n)
  PROVE  Orderly'
<1>1. /\ host.name = NoFile /\ host' = [name |-> n, sent |-> <<>>]
      /\ Publish("put", Header(n))
  BY DEF PublishHeader
<1>2. host'.name = n /\ host'.sent = <<>> /\ fileOpen' = fileOpen
  BY <1>1 DEF Publish, locals
<1>3. Header(n).kind = "header" /\ Header(n).name = n
  BY DEF Header
<1>4. Settled => Expected("put", Header(n))'
  BY <1>1, <1>2, <1>3 DEF Settled, Expected
<1> QED
  BY <1>1, <1>2, <1>4, OrderPublish

\* A block extends the host's file by what the file and the digest still lack.
LEMMA OrderChunk ==
  ASSUME TypeOK, Orderly, orderly', NEW c \in Chunks, PublishChunk(c)
  PROVE  Orderly'
<1>a. host.sent \in Seq(Blocks) /\ \A i \in DOMAIN host.sent : host.sent[i] \in Chunks
  BY DEF TypeOK, HostType, Orderly, Accounts
<1>1. /\ host.name \in Names /\ host' = [host EXCEPT !.sent = Append(@, c)]
      /\ Publish("put", Chunk(c))
  BY DEF PublishChunk, TypeOK, HostType
<1>2. /\ host'.name = host.name /\ host'.sent = Append(host.sent, c)
      /\ UNCHANGED <<fileOpen, file, torn, store, context>>
  BY <1>1 DEF Publish, locals, flash, TypeOK, HostType
<1>3. Chunk(c).kind = "chunk" /\ Chunk(c).block = c
  <2>1. Chunk(c).block = c
    BY DEF Chunk
  <2>2. ~Lookalike(Chunk(c))
    BY <1>1 DEF Publish, Arrive, Lose
  <2> QED
    BY <2>1, <2>2, ConstantsAssumption DEF Lookalike
<1>4. host.name # NoFile
  BY <1>1, ConstantsAssumption
<1>5. Settled => Expected("put", Chunk(c))'
  BY <1>1, <1>2, <1>3, <1>4 DEF Settled, Streaming, Expected
<1>6. \A i \in DOMAIN host'.sent : host'.sent[i] \in Chunks
  <2>1. c \in Blocks
    BY DEF Blocks
  <2>2. \A i \in DOMAIN Append(host.sent, c) :
          \/ Append(host.sent, c)[i] = c
          \/ i \in DOMAIN host.sent /\ Append(host.sent, c)[i] = host.sent[i]
    BY <1>a, <2>1
  <2> QED
    BY <1>a, <1>2, <2>2
<1> QED
  BY <1>1, <1>5, <1>6, OrderPublish

\* A tailer carries the digest of what the host has sent, which is complete.
LEMMA OrderTailer ==
  ASSUME TypeOK, Orderly, orderly', PublishTailer
  PROVE  Orderly'
<1>1. PICK n, h : n = host.name /\ h = host.sent
  OBVIOUS
<1>2. /\ n \in Names /\ host' = [name |-> NoFile, sent |-> <<>>]
      /\ Publish("put", Tailer(h))
      /\ [name |-> n, content |-> h] \in completed'
  BY <1>1 DEF PublishTailer, TypeOK, HostType
<1>3. /\ host'.name = NoFile /\ host'.sent = <<>>
      /\ UNCHANGED <<fileOpen, file, torn, store, context>>
  BY <1>2 DEF Publish, locals, flash
<1>4. Tailer(h).kind = "tailer" /\ Tailer(h).digest = h
  BY DEF Tailer
<1>5. n # NoFile /\ \A i \in DOMAIN h : h[i] \in Chunks
  BY <1>1, <1>2, ConstantsAssumption DEF Orderly, Accounts
<1>6. Settled => Streaming(n, h)'
  BY <1>1, <1>3, <1>5 DEF Settled, Streaming
<1>7. Settled => Expected("put", Tailer(h))'
  BY <1>2, <1>3, <1>4, <1>5, <1>6 DEF Expected
<1> QED
  BY <1>2, <1>3, <1>7, OrderPublish

\* Nothing else is asked for in the middle of an upload.
LEMMA OrderRequest ==
  ASSUME TypeOK, Orderly, orderly',
         PublishList \/ \E t \in {"get", "delete"}, n \in Names : PublishRequest(t, n)
  PROVE  Orderly'
<1>0. PICK t \in {"get", "list", "delete"} : \E m : Publish(t, m)
  BY DEF PublishList, PublishRequest
<1>1. PICK m : Publish(t, m)
  BY <1>0
<1>2. host' = host /\ host.name = NoFile /\ fileOpen' = fileOpen
  BY <1>1 DEF PublishList, PublishRequest, Publish, locals
<1>3. Settled => Expected(t, m)'
  BY <1>2 DEF Settled, Expected
<1>4. \A i \in DOMAIN host'.sent : host'.sent[i] \in Chunks
  BY <1>2 DEF Orderly, Accounts
<1> QED
  BY <1>1, <1>3, <1>4, OrderPublish

\* Take, Dispatch and the tests on the topic move SUB alone: what the message
\* accounts for stays.
LEMMA OrderTests ==
  ASSUME TypeOK, Orderly,
         \/ Take \/ Dispatch \/ SkipPut \/ EnterPut
         \/ \E t \in {"get", "list", "delete"} : SkipRequest(t)
  PROVE  Orderly'
<1>1. /\ UNCHANGED <<host, fileOpen, file, torn, store, context, topic, data, data_len,
                     completed, hpc, event, event_id, filename, filepath, md5,
                     queueBuf, handles>>
      /\ notified' => notified
  BY DEF Take, Dispatch, SkipPut, EnterPut, SkipRequest, mailbox, handler, locals,
     flash, history
<1>2. hpc = "idle" /\ notified \in BOOLEAN
  BY DEF Take, Dispatch, SkipPut, EnterPut, SkipRequest, Orderly, InTurn, TypeOK, MailboxType
<1>3. Settled => Settled'
  BY <1>1, SettledStays
<1>4. Expected(topic, data) => Expected(topic, data)'
  BY <1>1, ExpectedStays
<1>5. pc' \in {"wait", "dispatch", "put", "parse", "get", "list", "delete", "stopped"}
  BY DEF Take, Dispatch, SkipPut, EnterPut, SkipRequest, After
<1>6. Accounts'
  <2>1. pc # "send" /\ pc' # "send"
    BY <1>5 DEF Take, Dispatch, SkipPut, EnterPut, SkipRequest
  <2> QED
    BY <1>1, <2>1 DEF Orderly, Accounts, HoldsStream
<1>7. CASE Take
  <2>1. pc = "wait" /\ notified /\ pc' = "dispatch" /\ ~notified'
    BY <1>7 DEF Take
  <2>2. Fresh' <=> Fresh
    BY <1>1, <2>1 DEF Fresh
  <2> QED
    BY <1>1, <1>2, <1>3, <1>4, <1>6, <2>1, <2>2 DEF Orderly, InTurn, Progress
<1>8. CASE Dispatch
  <2>1. pc = "dispatch" /\ ~notified /\ ~notified'
    BY <1>1, <1>8 DEF Dispatch, Orderly, InTurn
  <2>2. /\ event_id = "data" => Fresh /\ pc' = "put"
        /\ event_id # "data" => ~Fresh /\ pc' \in {"wait", "stopped"}
    BY <1>8, <2>1 DEF Dispatch, Fresh
  <2>3. ~Fresh'
    BY <1>1, <2>1, <2>2 DEF Fresh
  <2> QED
    BY <1>1, <1>2, <1>3, <1>4, <1>6, <2>1, <2>2, <2>3 DEF Orderly, InTurn, Progress
<1>9. CASE SkipPut
  <2>1. pc = "put" /\ topic # "put" /\ pc' = "get" /\ notified' = notified
    BY <1>9 DEF SkipPut
  <2>2. ~Fresh /\ ~Fresh'
    BY <1>1, <2>1 DEF Orderly, InTurn, Fresh
  <2>3. host.name = NoFile /\ Settled
    BY <1>2, <2>1 DEF Orderly, Progress, Expected, Settled
  <2> QED
    BY <1>1, <1>2, <1>3, <1>6, <2>1, <2>2, <2>3 DEF Orderly, InTurn, Progress
<1>10. CASE EnterPut
  <2>1. pc = "put" /\ topic = "put" /\ pc' = "parse" /\ notified' = notified
    BY <1>10 DEF EnterPut
  <2>2. ~Fresh /\ ~Fresh'
    BY <1>1, <2>1 DEF Orderly, InTurn, Fresh
  <2> QED
    BY <1>1, <1>2, <1>4, <1>6, <2>1, <2>2 DEF Orderly, InTurn, Progress
<1>11. CASE \E t \in {"get", "list", "delete"} : SkipRequest(t)
  <2>1. /\ pc \in {"get", "list", "delete"} /\ pc' \in {"list", "delete", "wait"}
        /\ notified' = notified
    BY <1>11 DEF SkipRequest, After
  <2>2. ~Fresh /\ ~Fresh'
    BY <1>1, <2>1 DEF Orderly, InTurn, Fresh
  <2> QED
    BY <1>1, <1>2, <1>3, <1>6, <2>1, <2>2 DEF Orderly, InTurn, Progress
<1> QED
  BY <1>7, <1>8, <1>9, <1>10, <1>11

\* Inside the loop no notification is unread but of what does not carry data, and
\* the handler rests.
LEMMA AtWork ==
  ASSUME Orderly, pc \notin {"wait", "dispatch"},
         UNCHANGED <<hpc, event_id, notified>>, pc' # "dispatch"
  PROVE  hpc = "idle" /\ ~Fresh /\ ~Fresh' /\ InTurn'
BY DEF Orderly, InTurn, Fresh

\* The kind of the message says where SUB goes on; a block or a tailer without
\* an open stream is passed over.
LEMMA OrderParse ==
  ASSUME TypeOK, Mirrored, Orderly, Parse
  PROVE  Orderly'
<1>1. /\ UNCHANGED <<host, fileOpen, file, torn, store, context, topic, data, data_len,
                     completed, hpc, event, event_id, notified, filepath, queueBuf, handles>>
      /\ pc = "parse" /\ filename' = ParsedName /\ md5' = ParsedHash
      /\ pc' \in {"open", "write", "close", "get"}
  BY DEF Parse, mailbox, handler, flash, history
<1>2. hpc = "idle" /\ ~Fresh /\ ~Fresh' /\ InTurn'
  BY <1>1, AtWork
<1>3. MessageType = data.kind /\ data.kind \in {"header", "tailer", "chunk"}
  BY <1>2, WholeMessage DEF TypeOK, MailboxType, Message
<1>4. topic = "put" /\ Expected(topic, data)
  BY <1>1, <1>2 DEF Orderly, Progress
<1>5. Expected(topic, data)'
  BY <1>1, <1>4, ExpectedStays
<1>6. /\ pc' = "open"  => data.kind = "header" /\ filename' = data.name
      /\ pc' = "write" => data.kind = "chunk"
      /\ pc' = "close" => data.kind = "tailer" /\ md5' = data.digest
  BY <1>1, <1>3 DEF Parse, ParsedName, ParsedHash
<1>7. pc' = "get" => data.kind # "header" /\ ~fileOpen
  BY <1>3 DEF Parse
<1>8. pc' = "get" => Settled'
  BY <1>1, <1>7 DEF Settled, Streaming
<1>9. Progress'
  BY <1>1, <1>2, <1>4, <1>5, <1>6, <1>8 DEF Progress
<1>10. Accounts'
  BY <1>1 DEF Orderly, Accounts, HoldsStream
<1> QED
  BY <1>2, <1>9, <1>10 DEF Orderly

\* fopen takes the one handle, for the file that the header names.
LEMMA OrderOpen ==
  ASSUME TypeOK, Orderly, OpenOK \/ OpenFails
  PROVE  Orderly'
<1>1. /\ UNCHANGED <<host, topic, data, data_len, completed, hpc, event, event_id,
                     notified, queueBuf>>
      /\ pc = "open" /\ pc' = "get" /\ filepath' = filename
  BY DEF OpenOK, OpenFails, mailbox, handler, history
<1>2. hpc = "idle" /\ ~Fresh /\ ~Fresh' /\ InTurn'
  BY <1>1, AtWork
<1>3. /\ topic = "put" /\ host.name \in Names /\ filename = host.name
      /\ host.sent = <<>> /\ ~fileOpen
  BY <1>1, <1>2 DEF Orderly, Progress, Expected
<1>4. host.name # NoFile /\ host.name \in Paths /\ handles = 0
  BY <1>1, <1>3, ConstantsAssumption DEF Paths, Orderly, Accounts, HoldsStream
<1>5. Streaming(host.name, host.sent)' /\ Accounts'
  <2>1. CASE OpenOK
    <3>1. /\ store' = [store EXCEPT ![filename] = <<>>] /\ handles' = handles + 1
          /\ file' = filename /\ fileOpen' /\ context' = <<>>
      BY <2>1 DEF OpenOK, NewContext
    <3>2. store'[file'] = <<>>
      BY <1>3, <1>4, <3>1 DEF TypeOK, FlashType
    <3>3. HoldsStream' /\ handles' = 1
      BY <1>1, <1>3, <1>4, <3>1 DEF HoldsStream
    <3> QED
      BY <1>1, <1>3, <3>1, <3>2, <3>3 DEF Streaming, Orderly, Accounts
  <2>2. CASE OpenFails
    <3>1. ~fileOpen' /\ handles' = handles
      BY <1>3, <2>2 DEF OpenFails, flash
    <3> QED
      BY <1>1, <1>4, <3>1 DEF Streaming, Orderly, Accounts, HoldsStream
  <2> QED
    BY <2>1, <2>2
<1>6. Settled'
  BY <1>1, <1>4, <1>5 DEF Settled, Streaming
<1>7. Progress'
  BY <1>1, <1>2, <1>3, <1>6 DEF Progress
<1> QED
  BY <1>2, <1>5, <1>7 DEF Orderly

\* fwrite and the digest take the block that the host's file already has.
LEMMA OrderWrite ==
  ASSUME TypeOK, Streams, Mirrored, Orderly, WriteOK \/ WriteFails \/ UpdateHash
  PROVE  Orderly'
<1>1. /\ UNCHANGED <<host, fileOpen, file, filepath, topic, data, data_len, completed,
                     hpc, event, event_id, notified, queueBuf, handles>>
      /\ pc \in {"write", "hash"} /\ pc' \in {"hash", "get"}
  BY DEF WriteOK, WriteFails, UpdateHash, mailbox, handler, locals, flash, history
<1>2. hpc = "idle" /\ ~Fresh /\ ~Fresh' /\ InTurn'
  BY <1>1, AtWork
<1>3. fileOpen /\ file \in Names /\ file # NoFile /\ file \in Paths
  BY <1>1, ConstantsAssumption DEF Streams, Orderly, Accounts, Paths
<1>4. Accounts'
  BY <1>1 DEF Orderly, Accounts, HoldsStream
<1>5. topic = "put"
  BY <1>1, <1>2 DEF Orderly, Progress
<1>6. CASE WriteOK
  <2>1. /\ pc = "write" /\ pc' = "hash" /\ UNCHANGED <<context, torn>>
        /\ store' = [store EXCEPT ![file] = Append(@, Block)]
    BY <1>6 DEF WriteOK, locals, history
  <2>2. data.kind = "chunk" /\ Expected("put", data)
    BY <1>2, <1>5, <2>1 DEF Orderly, Progress
  <2>3. Block = data.block
    BY <1>2, <2>2, WholeMessage
  <2>4. /\ Block \in Chunks /\ file = host.name
        /\ torn \/ /\ Append(store[file], Block) = host.sent
                   /\ Append(context, Block) = host.sent
    BY <1>3, <2>2, <2>3 DEF Expected
  <2>5. store'[file] = Append(store[file], Block)
    BY <1>3, <2>1 DEF TypeOK, FlashType
  <2>6. Block' = Block
    BY <1>1 DEF Block
  <2>7. Progress'
    BY <1>1, <1>2, <1>5, <2>1, <2>4, <2>5, <2>6 DEF Progress
  <2> QED
    BY <1>2, <1>4, <2>7 DEF Orderly
<1>7. CASE WriteFails
  <2>1. pc = "write" /\ pc' = "get" /\ torn'
    BY <1>7 DEF WriteFails
  <2>2. data.kind = "chunk" /\ Expected("put", data)
    BY <1>2, <1>5, <2>1 DEF Orderly, Progress
  <2>3. file = host.name
    BY <1>3, <2>2 DEF Expected
  <2>4. Settled'
    BY <1>1, <1>3, <2>1, <2>3 DEF Settled, Streaming
  <2>5. Progress'
    BY <1>1, <1>2, <1>5, <2>1, <2>4 DEF Progress
  <2> QED
    BY <1>2, <1>4, <2>5 DEF Orderly
<1>8. CASE UpdateHash
  <2>1. /\ pc = "hash" /\ pc' = "get" /\ UNCHANGED <<store, torn>>
        /\ context' = Append(context, Block)
    BY <1>8 DEF UpdateHash, flash, history
  <2>2. /\ file = host.name
        /\ torn \/ (store[file] = host.sent /\ Append(context, Block) = host.sent)
    BY <1>2, <2>1 DEF Orderly, Progress
  <2>3. Settled'
    BY <1>1, <1>3, <2>1, <2>2 DEF Settled, Streaming
  <2>4. Progress'
    BY <1>1, <1>2, <1>5, <2>1, <2>3 DEF Progress
  <2> QED
    BY <1>2, <1>4, <2>4 DEF Orderly
<1> QED
  BY <1>6, <1>7, <1>8

\* The fclose gives the handle back, and the answer is about to go out.
LEMMA OrderClose ==
  ASSUME TypeOK, Streams, Orderly, \E flushed \in BOOLEAN : CloseFile(flushed)
  PROVE  Orderly'
<1>1. /\ UNCHANGED <<host, fileOpen, file, filepath, topic, data, data_len, completed,
                     hpc, event, event_id, notified>>
      /\ pc = "close" /\ pc' = "send" /\ file # NoFile /\ handles' = handles - 1
      /\ queueBuf'.request = "put"
  BY DEF CloseFile, mailbox, handler
<1>2. hpc = "idle" /\ ~Fresh /\ ~Fresh' /\ InTurn'
  BY <1>1, AtWork
<1>3. topic = "put" /\ data.kind = "tailer" /\ host.name = NoFile
  BY <1>1, <1>2 DEF Orderly, Progress, Expected
<1>4. Progress'
  BY <1>1, <1>2, <1>3 DEF Progress
<1>5. handles = 1
  BY <1>1 DEF Streams, Orderly, Accounts, HoldsStream
<1>6. Accounts'
  BY <1>1, <1>5 DEF Orderly, Accounts, HoldsStream
<1> QED
  BY <1>2, <1>4, <1>6 DEF Orderly

\* After an upload is answered SUB forgets the stream, which is closed.
LEMMA OrderSend ==
  ASSUME TypeOK, Orderly, Send \/ SendTimesOut
  PROVE  Orderly'
<1>1. /\ UNCHANGED <<host, topic, data, data_len, completed, hpc, event, event_id,
                     notified, filepath, queueBuf, handles>>
      /\ pc = "send" /\ pc' \in {"get", "list", "delete", "wait"}
      /\ IF queueBuf.request = "put" THEN ~fileOpen' ELSE fileOpen' = fileOpen
  BY DEF Send, SendTimesOut, AfterSend, After, ForgetStream, mailbox, handler, flash, history
<1>2. hpc = "idle" /\ ~Fresh /\ ~Fresh' /\ InTurn'
  BY <1>1, AtWork
<1>3. host.name = NoFile /\ ~fileOpen'
  BY <1>1, <1>2 DEF Orderly, Progress
<1>4. Settled'
  BY <1>1, <1>3 DEF Settled
<1>5. Progress'
  BY <1>1, <1>2, <1>3, <1>4 DEF Progress
<1>6. Accounts'
  BY <1>1, <1>2, <1>3 DEF Orderly, Progress, Accounts, HoldsStream
<1> QED
  BY <1>2, <1>5, <1>6 DEF Orderly

\* A get, a delete or a list finds no open stream.
LEMMA OrderAsk ==
  ASSUME TypeOK, Orderly, ListRequest \/ \E t \in {"get", "delete"} : NameRequest(t)
  PROVE  Orderly'
<1>1. /\ UNCHANGED <<host, fileOpen, file, filepath, topic, data, data_len, completed,
                     hpc, event, event_id, notified, handles>>
      /\ pc \in {"get", "list", "delete"} /\ topic = pc /\ pc' = "send"
  BY DEF ListRequest, NameRequest, mailbox, handler, flash, history
<1>2. queueBuf'.request # "put"
  <2>1. queueBuf \in Request
    BY DEF TypeOK, LocalsType
  <2> QED
    BY <2>1 DEF ListRequest, NameRequest, Request
<1>3. hpc = "idle" /\ ~Fresh /\ ~Fresh' /\ InTurn'
  BY <1>1, AtWork
<1>4. host.name = NoFile /\ ~fileOpen
  BY <1>1, <1>3 DEF Orderly, Progress, Settled
<1>5. Progress'
  BY <1>1, <1>3, <1>4, <1>2 DEF Progress
<1>6. Accounts'
  BY <1>1, <1>4 DEF Orderly, Accounts, HoldsStream
<1> QED
  BY <1>3, <1>5, <1>6 DEF Orderly

\* With orderly traffic every step keeps the account of the upload; fwrite and
\* fclose never meet a NULL stream.
LEMMA StepOrderly ==
  ASSUME TypeOK, Streams, Mirrored, Orderly, orderly', [Next]_vars
  PROVE  Orderly'
<1>1. CASE Receive \/ UNCHANGED vars
  <2>1. UNCHANGED <<host, fileOpen, file, torn, store, context, topic, data, data_len,
                    completed, hpc, event, event_id, notified, pc, filename, filepath,
                    md5, queueBuf, handles>>
    BY <1>1 DEF Receive, vars, mailbox, handler, locals, flash, history
  <2>2. Settled => Settled'
    BY <2>1, SettledStays
  <2>3. Expected(topic, data) => Expected(topic, data)'
    BY <2>1, ExpectedStays
  <2>4. Expected(event.topic, event.body) => Expected(event.topic, event.body)'
    BY <2>1, EventStays
  <2>5. Fresh' <=> Fresh
    BY <2>1 DEF Fresh
  <2>6. InTurn'
    BY <2>1, <2>4, <2>5 DEF Orderly, InTurn
  <2>7. Block' = Block
    BY <2>1 DEF Block
  <2>8. Progress'
    BY <2>1, <2>2, <2>3, <2>5, <2>7 DEF Orderly, Progress
  <2>9. Accounts'
    BY <2>1 DEF Orderly, Accounts, HoldsStream
  <2> QED
    BY <2>6, <2>8, <2>9 DEF Orderly
<1>2. CASE Library
  BY <1>2, OrderEvents, OrderHandler DEF Library
<1>3. CASE Host
  <2>1. ~Abandon
    BY DEF Abandon
  <2> QED
    BY <1>3, <2>1, OrderHeader, OrderChunk, OrderTailer, OrderRequest DEF Host
<1>4. CASE Sub
  <2>1. ~Panic
    <3>1. SUFFICES ASSUME Panic PROVE FALSE
      OBVIOUS
    <3>2. fileOpen /\ file = NoFile
      BY <3>1 DEF Panic, Streams
    <3> QED
      BY <3>2, ConstantsAssumption DEF Orderly, Accounts
  <2> QED
    BY <1>4, <2>1, OrderTests, OrderParse, OrderOpen, OrderWrite, OrderClose,
       OrderSend, OrderAsk DEF Sub
<1> QED
  BY <1>1, <1>2, <1>3, <1>4 DEF Next

\* The answer is built from the tailer of the upload whose file is being closed.
LEMMA StepAnswer ==
  ASSUME TypeOK, Streams, Mirrored, orderly => Orderly, orderly' => orderly,
         OrderlyAnswer, [Next]_vars
  PROVE  OrderlyAnswer'
<1> SUFFICES ASSUME NEW m \in Posted', m.request = "put", orderly'
             PROVE  \/ m.torn
                    \/ Acked(m) /\ [name |-> m.payload, content |-> m.stored] \in completed'
  BY DEF OrderlyAnswer, Acked
<1>1. CASE m \in Posted
  BY <1>1, HistoryGrows DEF OrderlyAnswer
<1>2. CASE m = queueBuf' /\ \E flushed \in BOOLEAN : CloseFile(flushed)
  <2>1. PICK flushed \in BOOLEAN : CloseFile(flushed)
    BY <1>2
  <2>2. /\ pc = "close" /\ completed' = completed /\ file # NoFile
        /\ m = [request |-> "put", responce |-> IF HashMatches THEN "ACK" ELSE "NAK",
                payload |-> filepath, stored |-> store'[file], torn |-> torn']
        /\ torn' = TRUE \/ UNCHANGED <<store, torn>>
    BY <1>2, <2>1 DEF CloseFile
  <2>3. SUFFICES ASSUME ~torn'
                 PROVE  Acked(m) /\ [name |-> m.payload, content |-> m.stored] \in completed'
    BY <2>2
  <2>4. hpc = "idle" /\ fileOpen
    BY <2>2 DEF Orderly, InTurn, Streams
  <2>5. md5 = data.digest /\ data.kind = "tailer" /\ Expected("put", data)
    BY <2>2, <2>4 DEF Orderly, Progress
  <2>6. PICK n \in Names : /\ [name |-> n, content |-> md5] \in completed
                           /\ Streaming(n, md5)
    BY <2>5 DEF Expected
  <2>7. file = n /\ store'[file] = md5 /\ context = md5 /\ filepath = n
    BY <2>2, <2>3, <2>4, <2>6 DEF Streaming, Orderly, Accounts
  <2>8. HashMatches
    BY <2>5, <2>7, ConstantsAssumption DEF Expected, HashMatches
  <2>9. m.request = "put" /\ m.responce = "ACK" /\ m.payload = n /\ m.stored = md5
    BY <2>2, <2>7, <2>8
  <2> QED
    BY <2>2, <2>6, <2>9 DEF Acked
<1>3. CASE m = queueBuf' /\ (ListRequest \/ \E t \in {"get", "delete"} : NameRequest(t))
  <2>1. queueBuf \in Request
    BY DEF TypeOK, LocalsType
  <2> QED
    BY <1>3, <2>1 DEF ListRequest, NameRequest, Request
<1> QED
  BY <1>1, <1>2, <1>3, PostedNew

\* Once the traffic is out of order, it stays so.
LEMMA StaysDisorderly == TypeOK /\ [Next]_vars /\ orderly' => orderly
BY DEF TypeOK, HostType, Next, vars, Library, LinkEvent, SilentEvent, Handler, CopyTopic,
   CopyLength, CopyData, Give, Host, PublishHeader, PublishChunk, PublishTailer,
   PublishRequest, PublishList, Publish, Arrive, Lose, Abandon, Receive, Sub, Take,
   Dispatch, SkipPut, EnterPut, Panic, Parse, OpenOK, OpenFails, WriteOK, WriteFails,
   UpdateHash, CloseFile, Send, SendTimesOut, AfterSend, NameRequest, ListRequest,
   SkipRequest, history

\* At first there is no upload and no message.
LEMMA InitOrder == Init => Mirrored /\ OrderInv
<1> SUFFICES ASSUME Init PROVE Mirrored /\ OrderInv
  OBVIOUS
<1>1. Mirrored
  BY GarbledType DEF Init, Mirrored
<1>2. InTurn /\ ~Fresh
  BY DEF Init, InTurn, Fresh
<1>3. host.name = NoFile /\ host.sent = <<>> /\ ~fileOpen /\ pc = "wait" /\ handles = 0
  BY DEF Init
<1>4. Progress
  BY <1>2, <1>3 DEF Progress, Settled
<1>5. Accounts
  BY <1>3 DEF Accounts, HoldsStream
<1>6. OrderlyAnswer
  BY DEF Init, OrderlyAnswer, Posted
<1> QED
  BY <1>1, <1>2, <1>4, <1>5, <1>6 DEF OrderInv

\* However messages and the steps of SUB interleave, the mailbox is whole while
\* the handler rests, and as long as the traffic is orderly the stream, the digest
\* and the message on its way account for the host's upload.
THEOREM OrderKept == Spec => [](Mirrored /\ OrderInv)
<1>1. Init => Mirrored /\ OrderInv
  BY InitOrder
<1>2. TypeOK /\ Streams /\ Mirrored /\ OrderInv /\ [Next]_vars => (Mirrored /\ OrderInv)'
  BY StepMirrored, StepOrderly, StepAnswer, StaysDisorderly DEF OrderInv, Orderly
<1> QED
  BY <1>1, <1>2, TypeCorrect, PTL DEF Spec

\* A lost message, an upload given up, an event that overtakes another or a block
\* that looks like a header can leave an open FILE object behind (the fopen of
\* mqtt_sub.c:250 replaces it). Nothing else can: with orderly traffic there is at most one, it is the one that
\* fileOpen announces, and it is closed once.
THEOREM NoHandleLeaks == Spec => []NoHandleLeak
<1>1. OrderInv => NoHandleLeak
  BY ConstantsAssumption DEF OrderInv, Accounts, NoHandleLeak
<1> QED
  BY <1>1, OrderKept, PTL

\* With orderly traffic, in which no block looks like a header or a tailer, the
\* answer to an upload names the file the host sent and acknowledges exactly its
\* blocks; NAK means that a write to the flash failed.
THEOREM OrderlyAnswers == Spec => []OrderlyAnswer
<1>1. OrderInv => OrderlyAnswer
  BY DEF OrderInv
<1> QED
  BY <1>1, OrderKept, PTL

=============================================================================
