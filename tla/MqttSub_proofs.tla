-------------------------- MODULE MqttSub_proofs --------------------------
(* Proofs about the SUB task: its types, and the soundness of the           *)
(* acknowledgement of an upload when messages arrive one at a time.         *)
EXTENDS MqttSub, TLAPS

\* What the host and the handler put into the mailbox is a message.
LEMMA HeaderType ==
  ASSUME NEW n \in Paths
  PROVE  Header(n) \in Message /\ Header(n).kind = "header"
BY DEF Header, Message, Blocks

\* A tailer carries a digest.
LEMMA TailerType ==
  ASSUME NEW h \in Seq(Blocks)
  PROVE  /\ Tailer(h) \in Message
         /\ Tailer(h).kind = "tailer" /\ Tailer(h).digest = h
BY DEF Tailer, Message, Paths, Blocks

\* A digest that stands in a block is one of a sequence of blocks.
LEMMA DigestInType ==
  ASSUME NEW c \in TailerLike
  PROVE  DigestIn[c] \in Seq(Blocks)
<1>1. DigestIn[c] \in Seq(Chunks)
  BY ConstantsAssumption
<1>2. QED
  BY <1>1 DEF Blocks

\* A block message carries its block, and what that block looks like.
LEMMA ChunkType ==
  ASSUME NEW c \in Blocks
  PROVE  Chunk(c) \in Message /\ Chunk(c).block = c
<1>1. (IF c \in HeaderLike THEN NameIn[c] ELSE Garbled) \in Paths
  BY ConstantsAssumption DEF Paths
<1>2. (IF c \in TailerLike THEN DigestIn[c] ELSE <<>>) \in Seq(Blocks)
  BY DigestInType
<1>3. QED
  BY <1>1, <1>2 DEF Chunk, Message

\* Bytes of no block look like nothing.
LEMMA GarbledType ==
  /\ Chunk(Garbled) \in Message /\ Chunk(Garbled).kind = "chunk"
  /\ Length(Chunk(Garbled)) = "data"
<1>1. Garbled \notin Blocks128
  BY ConstantsAssumption
<1>2. Garbled \notin HeaderLike /\ Garbled \notin TailerLike
  BY <1>1, ConstantsAssumption
<1>3. QED
  BY <1>1, <1>2, ChunkType DEF Chunk, Blocks, Length

\* The block that the mailbox denotes is a block.
LEMMA BlockType == MailboxType => Block \in Blocks
BY DEF MailboxType, Block, Message, Blocks

\* SUB waits, nothing is stored and nothing was sent.
LEMMA InitType == Init => TypeOK
<1> SUFFICES ASSUME Init PROVE TypeOK
  OBVIOUS
<1>0. Garbled \in Blocks /\ Chunk(Garbled) \in Message
  BY GarbledType DEF Blocks
<1>1. MailboxType
  <2>1. event_id = "other" /\ topic = "none" /\ data_len = "data"
        /\ data = Chunk(Garbled) /\ notified = FALSE
    BY DEF Init
  <2>2. QED
    BY <1>0, <2>1 DEF MailboxType, Topics
<1>2. HandlerType
  BY <1>0 DEF Init, HandlerType, Topics
<1>3. LocalsType
  <2>1. <<>> \in Seq(Blocks) /\ <<Garbled>> \in Seq(Blocks) /\ Garbled \in Paths
    BY <1>0 DEF Paths
  <2>2. queueBuf \in Request
    BY <2>1 DEF Init, Request
  <2>3. QED
    BY <2>1, <2>2 DEF Init, LocalsType, PCs
<1>4. FlashType
  <2>1. <<>> \in Seq(Blocks) /\ <<>> \in Seq(Request) /\ Len(<<>>) = 0
    OBVIOUS
  <2>2. store \in [Paths -> Seq(Blocks)]
    BY <2>1 DEF Init
  <2>3. handles = 0 /\ xQueueSubscribe = <<>>
    BY DEF Init
  <2>4. handles \in 0..MaxFiles /\ 0 <= QueueLen
    BY <2>3, ConstantsAssumption
  <2>5. QED
    BY <2>1, <2>2, <2>3, <2>4 DEF FlashType
<1>5. HostType
  <2>1. <<>> \in Seq(Blocks)
    OBVIOUS
  <2>2. host \in [name : Names \cup {NoFile}, sent : Seq(Blocks)]
    BY <2>1 DEF Init
  <2>3. QED
    BY <2>2 DEF Init, HostType
<1>6. QED
  BY <1>1, <1>2, <1>3, <1>4, <1>5 DEF TypeOK

-----------------------------------------------------------------------------
(* TypeOK is not inductive alone: fclose gives a handle back, so there must  *)
(* be one to give back.                                                     *)

Streams ==
  /\ HoldsStream => handles > 0
  /\ pc \in {"write", "hash", "close"} => fileOpen

\* No step breaks the link between the flag, the stream and the handle count.
LEMMA StepStreams == TypeOK /\ Streams /\ [Next]_vars => Streams'
<1> SUFFICES ASSUME TypeOK, Streams, [Next]_vars PROVE Streams'
  OBVIOUS
<1> USE DEF Streams, HoldsStream
<1>1. handles \in Nat
  BY ConstantsAssumption DEF TypeOK, FlashType
<1>2. CASE UNCHANGED vars \/ Library \/ Host \/ Receive
  <2>1. UNCHANGED <<pc, file, fileOpen, queueBuf, handles>>
    BY <1>2 DEF vars, Library, LinkEvent, SilentEvent, Handler, CopyTopic,
       CopyLength, CopyData, Give, Host, PublishHeader, PublishChunk,
       PublishTailer, PublishRequest, PublishList, Publish, Abandon, Receive,
       locals, flash
  <2>2. QED
    BY <2>1
<1>3. CASE Take \/ Dispatch \/ SkipPut \/ EnterPut \/ Panic
  BY <1>3 DEF Take, Dispatch, SkipPut, EnterPut, Panic, locals, flash
<1>4. CASE Parse
  BY <1>4 DEF Parse, flash
<1>5. CASE OpenOK \/ OpenFails
  BY <1>1, <1>5, ConstantsAssumption DEF OpenOK, OpenFails, flash, TypeOK, LocalsType
<1>6. CASE WriteOK \/ WriteFails \/ UpdateHash
  BY <1>6 DEF WriteOK, WriteFails, UpdateHash, locals, flash
<1>7. CASE \E flushed \in BOOLEAN : CloseFile(flushed)
  BY <1>7 DEF CloseFile
<1>8. CASE Send \/ SendTimesOut
  BY <1>8 DEF Send, SendTimesOut, AfterSend, After, ForgetStream, flash
<1>9. CASE \E t \in {"get", "delete"} : NameRequest(t)
  BY <1>9 DEF NameRequest, flash
<1>10. CASE ListRequest
  BY <1>10 DEF ListRequest, flash
<1>11. CASE \E t \in {"get", "list", "delete"} : SkipRequest(t)
  BY <1>11 DEF SkipRequest, After, locals, flash
<1>12. QED
  BY <1>2, <1>3, <1>4, <1>5, <1>6, <1>7, <1>8, <1>9, <1>10, <1>11 DEF Next, Sub


\* A message that the host publishes keeps the types of all but the host's own
\* state.
LEMMA PublishType ==
  ASSUME MailboxType, HandlerType, LocalsType, FlashType, HostType,
         NEW t \in Topics, NEW m \in Message,
         Publish(t, m)
  PROVE  /\ MailboxType' /\ HandlerType' /\ LocalsType' /\ FlashType'
         /\ link' \in {"down", "up", "subscribed"} /\ events' \in Nat
         /\ torn' \in BOOLEAN /\ orderly' \in BOOLEAN
<1>1. MailboxType'
  BY DEF Publish, Arrive, Lose, SetEvent, MailboxType, mailbox
<1>2. HandlerType'
  <2>1. CASE Arrive(t, m)
    <3>1. event' = [topic |-> t, body |-> m] /\ hpc' = "topic"
      BY <2>1 DEF Arrive
    <3>2. QED
      BY <3>1 DEF HandlerType
  <2>2. CASE Lose
    BY <2>2 DEF Lose, HandlerType, handler
  <2>3. QED
    BY <2>1, <2>2 DEF Publish
<1>3. LocalsType' /\ FlashType'
  BY DEF Publish, LocalsType, FlashType, locals, flash
<1>4. link' = link /\ events' = events + 1 /\ torn' = torn
  BY DEF Publish, Arrive, Lose, SetEvent
<1>5. orderly' \in BOOLEAN
  BY DEF Publish, Arrive, Lose, HostType
<1>6. QED
  BY <1>1, <1>2, <1>3, <1>4, <1>5 DEF HostType

\* No step leaves the types.
LEMMA StepType == TypeOK /\ Streams /\ [Next]_vars => TypeOK'
<1> SUFFICES ASSUME TypeOK, Streams, [Next]_vars PROVE TypeOK'
  OBVIOUS
<1>a. MailboxType /\ HandlerType /\ LocalsType /\ FlashType /\ HostType
  BY DEF TypeOK
<1> USE <1>a
<1>0. CASE UNCHANGED vars
  <2>1. MailboxType'
    BY <1>0 DEF vars, MailboxType, mailbox
  <2>2. HandlerType'
    BY <1>0 DEF vars, HandlerType, handler
  <2>3. LocalsType'
    BY <1>0 DEF vars, LocalsType, locals, PCs
  <2>4. FlashType'
    BY <1>0 DEF vars, FlashType, flash
  <2>5. HostType'
    BY <1>0 DEF vars, HostType, history
  <2>6. QED
    BY <2>1, <2>2, <2>3, <2>4, <2>5 DEF TypeOK
<1>1. CASE \E e \in {"connected", "disconnected", "error"} : LinkEvent(e)
  BY <1>1 DEF LinkEvent, SetEvent, MailboxType, HandlerType, LocalsType, FlashType, HostType,
    TypeOK, PCs, mailbox, handler, locals, flash, history
<1>2. CASE \E e \in {"other", "data"} : SilentEvent(e)
  BY <1>2 DEF SilentEvent, SetEvent, MailboxType, HandlerType, LocalsType, FlashType, HostType,
    TypeOK, PCs, mailbox, handler, locals, flash, history
<1>3. CASE CopyTopic
  BY <1>3 DEF CopyTopic, Topics, MailboxType, HandlerType, LocalsType, FlashType, HostType,
    TypeOK, PCs, mailbox, handler, locals, flash, history
<1>4. CASE CopyLength
  <2>1. MailboxType'
    <3>1. event.topic \in Topics /\ Length(event.body) \in {"data", "block128"}
      BY DEF HandlerType, Length
    <3>2. QED
      BY <1>4, <3>1 DEF CopyLength, MailboxType
  <2>2. HandlerType'
    BY <1>4 DEF CopyLength, HandlerType, handler
  <2>3. LocalsType'
    BY <1>4 DEF CopyLength, LocalsType, locals, PCs
  <2>4. FlashType'
    BY <1>4 DEF CopyLength, FlashType, flash
  <2>5. HostType'
    BY <1>4 DEF CopyLength, HostType, history
  <2>6. QED
    BY <2>1, <2>2, <2>3, <2>4, <2>5 DEF TypeOK
<1>5. CASE CopyData
  <2>1. MailboxType'
    <3>1. PICK k \in {data.kind, event.body.kind} :
            data' = [kind |-> k, name |-> Garbled, digest |-> <<Garbled>>,
                     block |-> Garbled]
      BY <1>5 DEF CopyData
    <3>2. k \in {"header", "tailer", "chunk"}
      BY DEF MailboxType, HandlerType, Message
    <3>3. Garbled \in Paths /\ <<Garbled>> \in Seq(Blocks) /\ Garbled \in Blocks
      BY DEF Paths, Blocks
    <3>4. data' \in Message
      BY <3>1, <3>2, <3>3 DEF Message
    <3>5. QED
      BY <1>5, <3>4 DEF CopyData, MailboxType
  <2>2. HandlerType'
    BY <1>5 DEF CopyData, HandlerType, handler
  <2>3. LocalsType'
    BY <1>5 DEF CopyData, LocalsType, locals, PCs
  <2>4. FlashType'
    BY <1>5 DEF CopyData, FlashType, flash
  <2>5. HostType'
    BY <1>5 DEF CopyData, HostType, history
  <2>6. QED
    BY <2>1, <2>2, <2>3, <2>4, <2>5 DEF TypeOK
<1>6. CASE Give
  <2>1. MailboxType'
    <3>1. event.body \in Message
      BY DEF HandlerType
    <3>2. data' = event.body /\ notified' = TRUE
          /\ UNCHANGED <<event_id, topic, data_len>>
      BY <1>6 DEF Give
    <3>3. QED
      BY <3>1, <3>2 DEF MailboxType, HandlerType
  <2>2. HandlerType'
    BY <1>6 DEF Give, HandlerType, handler
  <2>3. LocalsType'
    BY <1>6 DEF Give, LocalsType, locals, PCs
  <2>4. FlashType'
    BY <1>6 DEF Give, FlashType, flash
  <2>5. HostType'
    BY <1>6 DEF Give, HostType, history
  <2>6. QED
    BY <2>1, <2>2, <2>3, <2>4, <2>5 DEF TypeOK
<1>7. CASE \E n \in Names : PublishHeader(n)
  <2>1. PICK n \in Names : PublishHeader(n)
    BY <1>7
  <2>2. Header(n) \in Message
    BY HeaderType DEF Paths
  <2>3. "put" \in Topics /\ Publish("put", Header(n))
    BY <2>1 DEF PublishHeader, Topics
  <2>4. host' \in [name : Names \cup {NoFile}, sent : Seq(Blocks)]
    BY <2>1 DEF PublishHeader
  <2>5. completed' = completed /\ claimed' = claimed /\ requested' = requested
    BY <2>1 DEF PublishHeader
  <2>6. QED
    BY <2>2, <2>3, <2>4, <2>5, PublishType DEF HostType, TypeOK
<1>8. CASE \E c \in Chunks : PublishChunk(c)
  <2>1. PICK c \in Chunks : PublishChunk(c)
    BY <1>8
  <2>2. Chunk(c) \in Message
    BY ChunkType DEF Blocks
  <2>3. "put" \in Topics /\ Publish("put", Chunk(c))
    BY <2>1 DEF PublishChunk, Topics
  <2>4. c \in Blocks /\ host' = [host EXCEPT !.sent = Append(@, c)]
    BY <2>1 DEF PublishChunk, Blocks
  <2>5. host.sent \in Seq(Blocks) /\ Append(host.sent, c) \in Seq(Blocks)
    BY <2>4 DEF HostType
  <2>6. host' \in [name : Names \cup {NoFile}, sent : Seq(Blocks)]
    BY <2>4, <2>5 DEF HostType
  <2>7. /\ completed' = completed /\ requested' = requested
        /\ claimed' \subseteq Seq(Blocks)
    BY <2>1, DigestInType DEF PublishChunk, Claims, HostType
  <2>8. QED
    BY <2>2, <2>3, <2>6, <2>7, PublishType DEF HostType, TypeOK
<1>9. CASE PublishTailer
  <2>1. host.sent \in Seq(Blocks) /\ host.name \in Names
    BY <1>9 DEF HostType, PublishTailer
  <2>2. Tailer(host.sent) \in Message
    BY <2>1, TailerType
  <2>3. "put" \in Topics /\ Publish("put", Tailer(host.sent))
    BY <1>9 DEF PublishTailer, Topics
  <2>4. host' \in [name : Names \cup {NoFile}, sent : Seq(Blocks)]
    BY <1>9 DEF PublishTailer
  <2>5. /\ completed' \subseteq [name : Names, content : Seq(Blocks)]
        /\ claimed' = claimed /\ requested' = requested
    BY <1>9, <2>1 DEF PublishTailer, HostType
  <2>6. QED
    BY <2>2, <2>3, <2>4, <2>5, PublishType DEF HostType, TypeOK
<1>10. CASE \E t \in {"get", "delete"}, n \in Names : PublishRequest(t, n)
  <2>1. PICK t \in {"get", "delete"}, n \in Names : PublishRequest(t, n)
    BY <1>10
  <2>2. Header(n) \in Message
    BY HeaderType DEF Paths
  <2>3. t \in Topics /\ Publish(t, Header(n))
    BY <2>1 DEF PublishRequest, Topics
  <2>4. /\ requested' \subseteq [request : {"get", "delete"}, name : Names]
        /\ host' = host /\ completed' = completed /\ claimed' = claimed
    BY <2>1 DEF PublishRequest, HostType
  <2>5. QED
    BY <2>2, <2>3, <2>4, PublishType DEF HostType, TypeOK
<1>11. CASE PublishList
  <2>1. Publish("list", Chunk(Garbled))
    BY <1>11 DEF PublishList
  <2>2. Chunk(Garbled) \in Message
    BY GarbledType
  <2>3. /\ host' = host /\ completed' = completed
        /\ claimed' = claimed /\ requested' = requested
    BY <1>11 DEF PublishList
  <2>4. "list" \in Topics
    BY DEF Topics
  <2>5. QED
    BY <2>1, <2>2, <2>3, <2>4, PublishType DEF HostType, TypeOK
<1>12. CASE Abandon
  <2>1. MailboxType'
    BY <1>12 DEF Abandon, MailboxType, mailbox
  <2>2. HandlerType'
    BY <1>12 DEF Abandon, HandlerType, handler
  <2>3. LocalsType'
    BY <1>12 DEF Abandon, LocalsType, locals, PCs
  <2>4. FlashType'
    BY <1>12 DEF Abandon, FlashType, flash
  <2>5. HostType'
    <3>1. host' \in [name : Names \cup {NoFile}, sent : Seq(Blocks)]
      BY <1>12 DEF Abandon
    <3>2. QED
      BY <1>12, <3>1 DEF Abandon, HostType
  <2>6. QED
    BY <2>1, <2>2, <2>3, <2>4, <2>5 DEF TypeOK
<1>13. CASE Take
  <2>1. MailboxType'
    BY <1>13 DEF Take, MailboxType, mailbox
  <2>2. HandlerType'
    BY <1>13 DEF Take, HandlerType, handler
  <2>3. LocalsType'
    BY <1>13 DEF Take, LocalsType, locals, PCs
  <2>4. FlashType'
    BY <1>13 DEF Take, FlashType, flash
  <2>5. HostType'
    BY <1>13 DEF Take, HostType, history
  <2>6. QED
    BY <2>1, <2>2, <2>3, <2>4, <2>5 DEF TypeOK
<1>14. CASE Dispatch
  BY <1>14 DEF Dispatch, MailboxType, HandlerType, LocalsType, FlashType, HostType,
    TypeOK, PCs, mailbox, handler, locals, flash, history
<1>15. CASE SkipPut
  BY <1>15 DEF SkipPut, MailboxType, HandlerType, LocalsType, FlashType, HostType,
    TypeOK, PCs, mailbox, handler, locals, flash, history
<1>16. CASE EnterPut
  BY <1>16 DEF EnterPut, MailboxType, HandlerType, LocalsType, FlashType, HostType,
    TypeOK, PCs, mailbox, handler, locals, flash, history
<1>17. CASE Parse
  <2>1. MailboxType'
    BY <1>17 DEF Parse, MailboxType, mailbox
  <2>2. HandlerType'
    BY <1>17 DEF Parse, HandlerType, handler
  <2>3. LocalsType'
    <3>1. ParsedName \in Paths /\ ParsedHash \in Seq(Blocks)
      BY DEF ParsedName, ParsedHash, MailboxType, LocalsType, Message
    <3>2. QED
      BY <1>17, <3>1 DEF Parse, LocalsType, PCs
  <2>4. FlashType'
    BY <1>17 DEF Parse, FlashType, flash
  <2>5. HostType'
    BY <1>17 DEF Parse, HostType, history
  <2>6. QED
    BY <2>1, <2>2, <2>3, <2>4, <2>5 DEF TypeOK
<1>18. CASE OpenOK
  <2>1. MailboxType'
    BY <1>18 DEF OpenOK, MailboxType, mailbox
  <2>2. HandlerType'
    BY <1>18 DEF OpenOK, HandlerType, handler
  <2>3. LocalsType'
    BY <1>18 DEF OpenOK, NewContext, LocalsType, PCs
  <2>4. FlashType'
    <3>1. filename \in Paths /\ <<>> \in Seq(Blocks)
      BY DEF LocalsType
    <3>2. store' = [store EXCEPT ![filename] = <<>>]
      BY <1>18 DEF OpenOK
    <3>3. store' \in [Paths -> Seq(Blocks)]
      BY <3>1, <3>2 DEF FlashType
    <3>4. handles' \in 0..MaxFiles
      BY <1>18, ConstantsAssumption DEF OpenOK, FlashType
    <3>5. QED
      BY <1>18, <3>3, <3>4 DEF OpenOK, FlashType
  <2>5. HostType'
    BY <1>18 DEF OpenOK, HostType, history
  <2>6. QED
    BY <2>1, <2>2, <2>3, <2>4, <2>5 DEF TypeOK
<1>19. CASE OpenFails
  <2>1. MailboxType'
    BY <1>19 DEF OpenFails, MailboxType, mailbox
  <2>2. HandlerType'
    BY <1>19 DEF OpenFails, HandlerType, handler
  <2>3. LocalsType'
    BY <1>19 DEF OpenFails, LocalsType, locals, PCs
  <2>4. FlashType'
    BY <1>19 DEF OpenFails, FlashType, flash
  <2>5. HostType'
    BY <1>19 DEF OpenFails, HostType, history
  <2>6. QED
    BY <2>1, <2>2, <2>3, <2>4, <2>5 DEF TypeOK
<1>20. CASE WriteOK
  <2>1. MailboxType'
    BY <1>20 DEF WriteOK, MailboxType, mailbox
  <2>2. HandlerType'
    BY <1>20 DEF WriteOK, HandlerType, handler
  <2>3. LocalsType'
    BY <1>20 DEF WriteOK, LocalsType, locals, PCs
  <2>4. FlashType'
    <3>1. file \in Paths /\ Block \in Blocks
      BY <1>20, BlockType DEF WriteOK, LocalsType
    <3>2. store[file] \in Seq(Blocks) /\ Append(store[file], Block) \in Seq(Blocks)
      BY <3>1 DEF FlashType
    <3>3. store' = [store EXCEPT ![file] = Append(@, Block)]
      BY <1>20 DEF WriteOK
    <3>4. store' \in [Paths -> Seq(Blocks)]
      BY <3>2, <3>3 DEF FlashType
    <3>5. QED
      BY <1>20, <3>4 DEF WriteOK, FlashType
  <2>5. HostType'
    BY <1>20 DEF WriteOK, HostType, history
  <2>6. QED
    BY <2>1, <2>2, <2>3, <2>4, <2>5 DEF TypeOK
<1>21. CASE WriteFails
  <2>1. MailboxType'
    BY <1>21 DEF WriteFails, MailboxType, mailbox
  <2>2. HandlerType'
    BY <1>21 DEF WriteFails, HandlerType, handler
  <2>3. LocalsType'
    BY <1>21 DEF WriteFails, LocalsType, locals, PCs
  <2>4. FlashType'
    <3>1. file \in Paths /\ Garbled \in Blocks
      BY <1>21 DEF WriteFails, LocalsType, Blocks
    <3>2. store[file] \in Seq(Blocks) /\ Append(store[file], Garbled) \in Seq(Blocks)
      BY <3>1 DEF FlashType
    <3>3. \/ store' = store
          \/ store' = [store EXCEPT ![file] = Append(@, Garbled)]
      BY <1>21 DEF WriteFails
    <3>4. store' \in [Paths -> Seq(Blocks)]
      BY <3>2, <3>3 DEF FlashType
    <3>5. QED
      BY <1>21, <3>4 DEF WriteFails, FlashType
  <2>5. HostType'
    BY <1>21 DEF WriteFails, HostType, history
  <2>6. QED
    BY <2>1, <2>2, <2>3, <2>4, <2>5 DEF TypeOK
<1>22. CASE UpdateHash
  <2>1. MailboxType'
    BY <1>22 DEF UpdateHash, MailboxType, mailbox
  <2>2. HandlerType'
    BY <1>22 DEF UpdateHash, HandlerType, handler
  <2>3. LocalsType'
    <3>1. Append(context, Block) \in Seq(Blocks)
      BY BlockType DEF LocalsType
    <3>2. QED
      BY <1>22, <3>1 DEF UpdateHash, LocalsType, PCs
  <2>4. FlashType'
    BY <1>22 DEF UpdateHash, FlashType, flash
  <2>5. HostType'
    BY <1>22 DEF UpdateHash, HostType, history
  <2>6. QED
    BY <2>1, <2>2, <2>3, <2>4, <2>5 DEF TypeOK
<1>23. CASE \E flushed \in BOOLEAN : CloseFile(flushed)
  <2>1. PICK flushed \in BOOLEAN : CloseFile(flushed)
    BY <1>23
  <2>2. file \in Paths
    BY <2>1 DEF CloseFile, LocalsType
  <2>3. store' \in [Paths -> Seq(Blocks)] /\ torn' \in BOOLEAN
    <3>1. CASE flushed \/ store[file] = <<>>
      BY <2>1, <3>1 DEF CloseFile, FlashType, HostType
    <3>2. CASE ~(flushed \/ store[file] = <<>>)
      <4>1. store[file] \in Seq(Blocks) /\ store[file] # <<>>
        BY <2>2, <3>2 DEF FlashType
      <4>2. SubSeq(store[file], 1, Len(store[file]) - 1) \in Seq(Blocks)
        BY <4>1
      <4>3. store' = [store EXCEPT ![file] = SubSeq(@, 1, Len(@) - 1)]
            /\ torn' = TRUE
        BY <2>1, <3>2 DEF CloseFile
      <4>4. QED
        BY <4>2, <4>3 DEF FlashType
    <3>3. QED
      BY <3>1, <3>2
  <2>4. queueBuf' \in Request
    <3>1. store'[file] \in Seq(Blocks) /\ filepath \in Paths
      BY <2>2, <2>3 DEF LocalsType
    <3>2. queueBuf' = [request |-> "put",
                       responce |-> IF HashMatches THEN "ACK" ELSE "NAK",
                       payload |-> filepath,
                       stored |-> store'[file], torn |-> torn']
      BY <2>1 DEF CloseFile
    <3>3. QED
      BY <2>3, <3>1, <3>2 DEF Request
  <2>5. LocalsType'
    BY <2>1, <2>4 DEF CloseFile, LocalsType, PCs
  <2>6. FlashType'
    <3>1. handles > 0 /\ handles' = handles - 1
      BY <2>1 DEF CloseFile, Streams, HoldsStream
    <3>2. handles' \in 0..MaxFiles
      BY <3>1, ConstantsAssumption DEF FlashType
    <3>3. QED
      BY <2>1, <2>3, <3>2 DEF CloseFile, FlashType
  <2>7. MailboxType' /\ HandlerType'
    BY <2>1 DEF CloseFile, MailboxType, HandlerType, mailbox, handler
  <2>8. HostType'
    BY <2>1, <2>3 DEF CloseFile, HostType
  <2>9. QED
    BY <2>5, <2>6, <2>7, <2>8 DEF TypeOK
<1>24. CASE Panic
  BY <1>24 DEF Panic, MailboxType, HandlerType, LocalsType, FlashType, HostType,
    TypeOK, PCs, mailbox, handler, locals, flash, history
<1>25. CASE Send
  <2>1. MailboxType'
    BY <1>25 DEF Send, AfterSend, After, ForgetStream, MailboxType, mailbox
  <2>2. HandlerType'
    BY <1>25 DEF Send, AfterSend, After, ForgetStream, HandlerType, handler
  <2>3. LocalsType'
    BY <1>25 DEF Send, AfterSend, After, ForgetStream, LocalsType, locals, PCs
  <2>4. FlashType'
    <3>1. queueBuf \in Request /\ xQueueSubscribe \in Seq(Request)
      BY DEF LocalsType, FlashType
    <3>2. xQueueSubscribe' = Append(xQueueSubscribe, queueBuf)
          /\ Len(xQueueSubscribe) < QueueLen /\ UNCHANGED flash
      BY <1>25 DEF Send, AfterSend, QueueHasRoom
    <3>3. xQueueSubscribe' \in Seq(Request)
          /\ Len(xQueueSubscribe') = Len(xQueueSubscribe) + 1
      BY <3>1, <3>2
    <3>4. Len(xQueueSubscribe) \in Nat /\ QueueLen \in Nat
      BY <3>1, ConstantsAssumption
    <3>5. Len(xQueueSubscribe') <= QueueLen
      BY <3>2, <3>3, <3>4
    <3>6. QED
      BY <3>2, <3>3, <3>5 DEF FlashType, flash
  <2>5. HostType'
    BY <1>25 DEF Send, AfterSend, After, ForgetStream, HostType, history
  <2>6. QED
    BY <2>1, <2>2, <2>3, <2>4, <2>5 DEF TypeOK
<1>26. CASE SendTimesOut
  <2>1. MailboxType'
    BY <1>26 DEF SendTimesOut, AfterSend, After, ForgetStream, MailboxType, mailbox
  <2>2. HandlerType'
    BY <1>26 DEF SendTimesOut, AfterSend, After, ForgetStream, HandlerType, handler
  <2>3. LocalsType'
    BY <1>26 DEF SendTimesOut, AfterSend, After, ForgetStream, LocalsType, locals, PCs
  <2>4. FlashType'
    BY <1>26 DEF SendTimesOut, AfterSend, After, ForgetStream, FlashType, flash
  <2>5. HostType'
    BY <1>26 DEF SendTimesOut, AfterSend, After, ForgetStream, HostType, history
  <2>6. QED
    BY <2>1, <2>2, <2>3, <2>4, <2>5 DEF TypeOK
<1>27. CASE \E t \in {"get", "delete"} : NameRequest(t)
  <2>1. MailboxType'
    BY <1>27 DEF NameRequest, MailboxType, mailbox
  <2>2. HandlerType'
    BY <1>27 DEF NameRequest, HandlerType, handler
  <2>3. LocalsType'
    <3>1. PICK t \in {"get", "delete"} : NameRequest(t)
      BY <1>27
    <3>2. ParsedName \in Paths /\ ParsedHash \in Seq(Blocks)
      BY DEF ParsedName, ParsedHash, MailboxType, LocalsType, Message
    <3>3. queueBuf' = [queueBuf EXCEPT !.request = t, !.payload = ParsedName]
      BY <3>1 DEF NameRequest
    <3>4. queueBuf' \in Request
      BY <3>2, <3>3 DEF LocalsType, Request
    <3>5. QED
      BY <3>1, <3>2, <3>4 DEF NameRequest, LocalsType, PCs
  <2>4. FlashType'
    BY <1>27 DEF NameRequest, FlashType, flash
  <2>5. HostType'
    BY <1>27 DEF NameRequest, HostType, history
  <2>6. QED
    BY <2>1, <2>2, <2>3, <2>4, <2>5 DEF TypeOK
<1>28. CASE ListRequest
  <2>1. MailboxType'
    BY <1>28 DEF ListRequest, MailboxType, mailbox
  <2>2. HandlerType'
    BY <1>28 DEF ListRequest, HandlerType, handler
  <2>3. LocalsType'
    <3>1. queueBuf' = [queueBuf EXCEPT !.request = "list"]
      BY <1>28 DEF ListRequest
    <3>2. queueBuf' \in Request
      BY <3>1 DEF LocalsType, Request
    <3>3. QED
      BY <1>28, <3>2 DEF ListRequest, LocalsType, PCs
  <2>4. FlashType'
    BY <1>28 DEF ListRequest, FlashType, flash
  <2>5. HostType'
    BY <1>28 DEF ListRequest, HostType, history
  <2>6. QED
    BY <2>1, <2>2, <2>3, <2>4, <2>5 DEF TypeOK
<1>29. CASE \E t \in {"get", "list", "delete"} : SkipRequest(t)
  BY <1>29 DEF SkipRequest, After, MailboxType, HandlerType, LocalsType, FlashType, HostType,
    TypeOK, PCs, mailbox, handler, locals, flash, history
<1>30. CASE Receive
  <2>1. MailboxType'
    BY <1>30 DEF Receive, MailboxType, mailbox
  <2>2. HandlerType'
    BY <1>30 DEF Receive, HandlerType, handler
  <2>3. LocalsType'
    BY <1>30 DEF Receive, LocalsType, locals, PCs
  <2>4. FlashType'
    <3>1. xQueueSubscribe \in Seq(Request) /\ xQueueSubscribe # <<>>
          /\ xQueueSubscribe' = Tail(xQueueSubscribe) /\ UNCHANGED flash
      BY <1>30 DEF Receive, FlashType
    <3>2. /\ Tail(xQueueSubscribe) \in Seq(Request)
          /\ Len(Tail(xQueueSubscribe)) = Len(xQueueSubscribe) - 1
          /\ Len(xQueueSubscribe) \in Nat
      BY <3>1
    <3>3. Len(xQueueSubscribe') <= QueueLen
      BY <3>1, <3>2, ConstantsAssumption DEF FlashType
    <3>4. QED
      BY <3>1, <3>2, <3>3 DEF FlashType, flash
  <2>5. HostType'
    BY <1>30 DEF Receive, HostType, history
  <2>6. QED
    BY <2>1, <2>2, <2>3, <2>4, <2>5 DEF TypeOK
<1>31. QED
  BY <1>0, <1>1, <1>2, <1>3, <1>4, <1>5, <1>6, <1>7, <1>8, <1>9, <1>10, <1>11, <1>12, <1>13, <1>14, <1>15, <1>16, <1>17, <1>18, <1>19, <1>20, <1>21, <1>22, <1>23, <1>24, <1>25, <1>26, <1>27, <1>28, <1>29, <1>30 DEF Next, Library, Handler, Sub, Host

\* No stream is open at first.
LEMMA InitStreams == Init => Streams
BY DEF Init, Streams, HoldsStream

\* SUB and the handler keep every variable in its type, SUB never closes more
\* streams than it opened, and neither limit (open files, queue) is exceeded.
THEOREM TypeCorrect == Spec => [](TypeOK /\ Streams)
<1>1. Init => TypeOK /\ Streams
  BY InitType, InitStreams
<1>2. TypeOK /\ Streams /\ [Next]_vars => (TypeOK /\ Streams)'
  BY StepType, StepStreams
<1>3. QED
  BY <1>1, <1>2, PTL DEF Spec

-----------------------------------------------------------------------------
(* Soundness of the acknowledgement. When messages come one at a time, the  *)
(* handler works only while SUB waits (Exclusive); so the two reads of a    *)
(* block, by fwrite and by the digest, see the same bytes, and the file     *)
(* holds exactly what was hashed (FileIsHashed); a digest in the mailbox is *)
(* that of an upload the host completed, or stands in a block of one of its *)
(* files (DigestsKnown).                                                    *)

Exclusive == hpc # "idle" => pc = "wait" /\ ~notified

FileIsHashed ==
  fileOpen /\ file # NoFile /\ ~torn =>
    store[file] = IF pc = "hash" THEN Append(context, Block) ELSE context

DigestsKnown ==
  /\ hpc # "idle" /\ event.body.kind = "tailer" => Known(event.body.digest)
  /\ hpc # "give" /\ data.kind = "tailer" => Known(data.digest)
  /\ pc = "close" => Known(md5)

AckInv == Exclusive /\ FileIsHashed /\ DigestsKnown /\ AckSound

\* Nothing is acknowledged at first.
LEMMA InitAck == Init => AckInv
<1> SUFFICES ASSUME Init PROVE AckInv
  OBVIOUS
<1>1. Exclusive /\ FileIsHashed
  BY DEF Init, Exclusive, FileIsHashed
<1>2. DigestsKnown
  BY GarbledType DEF Init, DigestsKnown
<1>3. Posted = {}
  BY DEF Init, Posted
<1>4. QED
  BY <1>1, <1>2, <1>3 DEF AckInv, AckSound

\* A digest stays known.
LEMMA KnownStays ==
  ASSUME completed \subseteq completed', claimed \subseteq claimed',
         NEW h, Known(h)
  PROVE  Known(h)'
BY DEF Known, Done

\* What the host once completed stays completed, what it sent stays sent.
LEMMA HistoryGrows ==
  [Next]_vars => completed \subseteq completed' /\ claimed \subseteq claimed'
BY DEF Next, vars, Library, LinkEvent, SilentEvent, Handler, CopyTopic,
   CopyLength, CopyData, Give, Host, PublishHeader, PublishChunk, PublishTailer,
   PublishRequest, PublishList, Abandon, Receive, Sub, Take, Dispatch, SkipPut,
   EnterPut, Panic, Parse, OpenOK, OpenFails, WriteOK, WriteFails, UpdateHash,
   CloseFile, Send, SendTimesOut, AfterSend, NameRequest, ListRequest,
   SkipRequest, history

\* Only Arrive wakes the handler, and only when SUB waits with no notification.
LEMMA StepExclusive ==
  ASSUME Paced PROVE TypeOK /\ Exclusive /\ [Next]_vars => Exclusive'
<1> SUFFICES ASSUME TypeOK, Exclusive, [Next]_vars PROVE Exclusive'
  OBVIOUS
<1> USE DEF Exclusive
<1>1. CASE UNCHANGED vars
  BY <1>1 DEF vars, handler
<1>2. CASE Library
  BY <1>2 DEF Library, LinkEvent, SilentEvent, SetEvent, Handler, CopyTopic,
     CopyLength, CopyData, Give, handler
<1>3. CASE Host
  BY <1>3, Paced DEF Host, PublishHeader, PublishChunk, PublishTailer,
     PublishRequest, PublishList, Publish, Arrive, Lose, Abandon, handler
<1>4. CASE Sub
  <2>1. hpc' = hpc /\ (notified' => notified)
    BY <1>4 DEF Sub, Take, Dispatch, SkipPut, EnterPut, Panic, Parse, OpenOK,
       OpenFails, WriteOK, WriteFails, UpdateHash, CloseFile, Send, SendTimesOut,
       AfterSend, NameRequest, ListRequest, SkipRequest, handler
  <2>2. pc # "wait" \/ notified
    BY <1>4 DEF Sub, Take, Dispatch, SkipPut, EnterPut, Panic, Parse, OpenOK,
       OpenFails, WriteOK, WriteFails, UpdateHash, CloseFile, Send, SendTimesOut,
       NameRequest, ListRequest, SkipRequest
  <2>3. QED
    BY <2>1, <2>2
<1>5. CASE Receive
  BY <1>5 DEF Receive, handler
<1>6. QED
  BY <1>1, <1>2, <1>3, <1>4, <1>5 DEF Next

\* The file and the digest take the same block, one after the other.
LEMMA StepFileIsHashed ==
  TypeOK /\ Streams /\ Exclusive /\ FileIsHashed /\ [Next]_vars => FileIsHashed'
<1> SUFFICES ASSUME TypeOK, Streams, Exclusive, FileIsHashed, [Next]_vars
             PROVE  FileIsHashed'
  OBVIOUS
<1> USE DEF FileIsHashed
<1>a. file \in Paths \cup {NoFile} /\ store \in [Paths -> Seq(Blocks)]
      /\ filename \in Paths /\ context \in Seq(Blocks)
  BY DEF TypeOK, LocalsType, FlashType
<1>0. CASE UNCHANGED vars
  BY <1>0 DEF vars, mailbox, locals, flash, history, Block
<1>1. CASE Library
  <2>1. UNCHANGED <<pc, file, fileOpen, torn, store, context>>
    BY <1>1 DEF Library, LinkEvent, SilentEvent, Handler, CopyTopic, CopyLength,
       CopyData, Give, locals, flash, history
  <2>2. pc = "hash" => Block' = Block
    BY <1>1 DEF Exclusive, Library, LinkEvent, SilentEvent, Handler, CopyTopic,
       CopyLength, CopyData, Give, Block
  <2>3. QED
    BY <2>1, <2>2
<1>2. CASE Host
  <2>1. UNCHANGED <<pc, file, fileOpen, torn, store, context, data, data_len>>
    BY <1>2 DEF Host, PublishHeader, PublishChunk, PublishTailer, PublishRequest,
       PublishList, Publish, Abandon, mailbox, locals, flash
  <2>2. QED
    BY <2>1 DEF Block
<1>3. CASE Receive
  BY <1>3 DEF Receive, mailbox, locals, flash, history, Block
<1>4. CASE Take \/ Dispatch \/ SkipPut \/ EnterPut \/ Panic
  BY <1>4 DEF Take, Dispatch, SkipPut, EnterPut, Panic, locals, flash, history
<1>5. CASE Parse
  BY <1>5 DEF Parse, flash, history
<1>6. CASE OpenOK
  <2>1. /\ store' = [store EXCEPT ![filename] = <<>>]
        /\ file' = filename /\ context' = <<>> /\ pc' = "get"
    BY <1>6 DEF OpenOK, NewContext
  <2>2. store'[file'] = <<>>
    BY <1>a, <2>1
  <2>3. QED
    BY <2>1, <2>2
<1>7. CASE OpenFails
  BY <1>7 DEF OpenFails
<1>8. CASE WriteOK
  <2>1. /\ store' = [store EXCEPT ![file] = Append(@, Block)]
        /\ pc = "write" /\ pc' = "hash" /\ file # NoFile
        /\ UNCHANGED <<file, fileOpen, torn, context, data, data_len>>
    BY <1>8 DEF WriteOK, mailbox, locals, history
  <2>2. store'[file] = Append(store[file], Block) /\ Block' = Block
    BY <1>a, <2>1 DEF Block
  <2>3. QED
    BY <2>1, <2>2
<1>9. CASE WriteFails
  BY <1>9 DEF WriteFails
<1>10. CASE UpdateHash
  BY <1>10 DEF UpdateHash, flash, history
<1>11. CASE \E flushed \in BOOLEAN : CloseFile(flushed)
  <2>1. PICK flushed \in BOOLEAN : CloseFile(flushed)
    BY <1>11
  <2>2. pc = "close" /\ pc' = "send" /\ UNCHANGED <<file, fileOpen, context>>
    BY <2>1 DEF CloseFile
  <2>3. torn' \/ UNCHANGED <<store, torn>>
    BY <2>1 DEF CloseFile
  <2>4. QED
    BY <2>2, <2>3
<1>12. CASE Send \/ SendTimesOut
  <2>1. /\ pc = "send" /\ pc' \in {"get", "list", "delete", "wait"}
        /\ UNCHANGED <<store, context, torn>>
        /\ fileOpen' => fileOpen' = fileOpen /\ file' = file
    BY <1>12 DEF Send, SendTimesOut, AfterSend, After, ForgetStream, flash, history
  <2>2. QED
    BY <2>1
<1>13. CASE \E t \in {"get", "delete"} : NameRequest(t)
  BY <1>13 DEF NameRequest, flash, history
<1>14. CASE ListRequest
  BY <1>14 DEF ListRequest, flash, history
<1>15. CASE \E t \in {"get", "list", "delete"} : SkipRequest(t)
  BY <1>15 DEF SkipRequest, After, locals, flash, history
<1>16. QED
  BY <1>0, <1>1, <1>2, <1>3, <1>4, <1>5, <1>6, <1>7, <1>8, <1>9, <1>10, <1>11,
     <1>12, <1>13, <1>14, <1>15 DEF Next, Sub

\* A tailer in the mailbox was published by a host that had completed its upload.
LEMMA StepDigests ==
  TypeOK /\ Exclusive /\ DigestsKnown /\ [Next]_vars => DigestsKnown'
<1> SUFFICES ASSUME TypeOK, Exclusive, DigestsKnown, [Next]_vars
             PROVE  DigestsKnown'
  OBVIOUS
<1>a. ASSUME NEW h, Known(h) PROVE Known(h)'
  BY <1>a, HistoryGrows, KnownStays
<1>0. CASE UNCHANGED vars
  BY <1>0, <1>a DEF vars, mailbox, handler, locals, DigestsKnown
<1>1. CASE \/ \E e \in {"connected", "disconnected", "error"} : LinkEvent(e)
           \/ \E e \in {"other", "data"} : SilentEvent(e)
  BY <1>1, <1>a DEF LinkEvent, SilentEvent, handler, locals, DigestsKnown
<1>2. CASE CopyTopic \/ CopyLength
  BY <1>2, <1>a DEF CopyTopic, CopyLength, locals, DigestsKnown
<1>3. CASE CopyData
  BY <1>3, <1>a DEF CopyData, locals, DigestsKnown
<1>4. CASE Give
  BY <1>4, <1>a DEF Give, locals, DigestsKnown
<1>5. CASE Host
  <2>1. ASSUME NEW t, NEW m, Publish(t, m),
               (m.kind = "tailer" => Known(m.digest)')
        PROVE  DigestsKnown'
    <3>1. UNCHANGED <<data, pc, md5>>
      BY <2>1 DEF Publish, locals
    <3>2. CASE Arrive(t, m)
      <4>1. event'.body = m /\ hpc = "idle" /\ hpc' = "topic"
        BY <3>2 DEF Arrive, SetEvent
      <4>2. QED
        BY <2>1, <3>1, <4>1, <1>a DEF DigestsKnown
    <3>3. CASE Lose
      BY <3>1, <3>3, <1>a DEF Lose, handler, DigestsKnown
    <3>4. QED
      BY <2>1, <3>2, <3>3 DEF Publish
  <2>2. CASE \E n \in Names : PublishHeader(n)
    BY <2>1, <2>2 DEF PublishHeader, Header
  <2>3. CASE \E c \in Chunks : PublishChunk(c)
    <3>1. PICK c \in Chunks :
            /\ Publish("put", Chunk(c))
            /\ claimed' = claimed \cup Claims(c)
      BY <2>3 DEF PublishChunk
    <3>2. ASSUME Chunk(c).kind = "tailer" PROVE Known(Chunk(c).digest)'
      <4>1. c \in TailerLike
        BY <3>2 DEF Chunk
      <4>2. Chunk(c).digest = DigestIn[c] /\ DigestIn[c] \in claimed'
        BY <3>1, <4>1 DEF Chunk, Claims
      <4>3. QED
        BY <4>2 DEF Known
    <3>3. QED
      BY <2>1, <3>1, <3>2
  <2>4. CASE PublishTailer
    <3>1. PICK h : h = host.sent
      OBVIOUS
    <3>2. Publish("put", Tailer(h))
      BY <2>4, <3>1 DEF PublishTailer
    <3>3. [name |-> host.name, content |-> h] \in completed'
      BY <2>4, <3>1 DEF PublishTailer
    <3>4. Known(h)'
      BY <3>3 DEF Known, Done
    <3>5. QED
      BY <2>1, <3>2, <3>4 DEF Tailer
  <2>5. CASE \E t \in {"get", "delete"}, n \in Names : PublishRequest(t, n)
    BY <2>1, <2>5 DEF PublishRequest, Header
  <2>6. CASE PublishList
    BY <2>1, <2>6, GarbledType DEF PublishList
  <2>7. CASE Abandon
    BY <2>7, <1>a DEF Abandon, mailbox, handler, locals, DigestsKnown
  <2>8. QED
    BY <1>5, <2>2, <2>3, <2>4, <2>5, <2>6, <2>7 DEF Host
<1>6. CASE Receive
  BY <1>6, <1>a DEF Receive, mailbox, handler, locals, DigestsKnown
<1>7. CASE Parse
  <2>1. pc' = "close" => md5' = data.digest /\ data.kind = "tailer"
    BY <1>7 DEF Parse, ParsedHash, MessageType
  <2>2. hpc = "idle" /\ UNCHANGED <<data, hpc, event>>
    BY <1>7 DEF Exclusive, Parse, TypeOK, HandlerType, mailbox, handler
  <2>3. QED
    BY <2>1, <2>2, <1>a DEF DigestsKnown
<1>8. CASE Sub /\ ~Parse
  <2>1. UNCHANGED <<data, hpc, event>> /\ pc' # "close"
    BY <1>8 DEF Sub, Take, Dispatch, SkipPut, EnterPut, Panic, OpenOK, OpenFails,
       WriteOK, WriteFails, UpdateHash, CloseFile, Send, SendTimesOut, AfterSend,
       After, NameRequest, ListRequest, SkipRequest, mailbox, handler
  <2>2. QED
    BY <2>1, <1>a DEF DigestsKnown
<1>9. QED
  BY <1>0, <1>1, <1>2, <1>3, <1>4, <1>5, <1>6, <1>7, <1>8
     DEF Next, Library, Handler

\* An acknowledgement is built only from a digest that equals the one computed.
LEMMA StepAckSound ==
  /\ TypeOK /\ Streams /\ FileIsHashed /\ DigestsKnown /\ AckSound
  /\ [Next]_vars
  => AckSound'
<1> SUFFICES ASSUME TypeOK, Streams, FileIsHashed, DigestsKnown, AckSound,
                    [Next]_vars
             PROVE  AckSound'
  OBVIOUS
<1>a. ASSUME NEW h, Known(h) PROVE Known(h)'
  BY <1>a, HistoryGrows, KnownStays
<1>b. ASSUME Posted' \subseteq Posted PROVE AckSound'
  BY <1>a, <1>b DEF AckSound, Acked
<1>c. xQueueSubscribe \in Seq(Request) /\ queueBuf \in Request
  BY DEF TypeOK, LocalsType, FlashType
<1>0. CASE UNCHANGED <<pc, queueBuf, xQueueSubscribe>>
  BY <1>0, <1>b DEF Posted
<1>1. CASE Receive
  <2>1. /\ xQueueSubscribe # <<>> /\ xQueueSubscribe' = Tail(xQueueSubscribe)
        /\ UNCHANGED <<pc, queueBuf>>
    BY <1>1 DEF Receive, locals
  <2>2. \A i \in DOMAIN Tail(xQueueSubscribe) :
          i + 1 \in DOMAIN xQueueSubscribe
          /\ Tail(xQueueSubscribe)[i] = xQueueSubscribe[i + 1]
    BY <1>c, <2>1
  <2>3. QED
    BY <1>b, <2>1, <2>2 DEF Posted
<1>2. CASE Take \/ Dispatch \/ SkipPut \/ EnterPut \/ Panic
  BY <1>2, <1>b DEF Take, Dispatch, SkipPut, EnterPut, Panic, locals, Posted
<1>3. CASE Parse
  BY <1>3, <1>b DEF Parse, Posted
<1>4. CASE OpenOK \/ OpenFails \/ WriteOK \/ WriteFails \/ UpdateHash
  BY <1>4, <1>b DEF OpenOK, OpenFails, WriteOK, WriteFails, UpdateHash, locals,
     Posted
<1>5. CASE \E t \in {"get", "list", "delete"} : SkipRequest(t)
  BY <1>5, <1>b DEF SkipRequest, After, locals, Posted
<1>6. CASE \E flushed \in BOOLEAN : CloseFile(flushed)
  <2>1. PICK flushed \in BOOLEAN : CloseFile(flushed)
    BY <1>6
  <2>2. /\ pc = "close" /\ pc' = "send" /\ file # NoFile /\ fileOpen
        /\ xQueueSubscribe' = xQueueSubscribe
        /\ queueBuf'.responce = IF HashMatches THEN "ACK" ELSE "NAK"
        /\ queueBuf'.stored = store'[file] /\ queueBuf'.torn = torn'
    BY <2>1 DEF CloseFile, Streams
  <2>3. \A m \in Posted' : m = queueBuf' \/ m \in Posted
    BY <2>2 DEF Posted
  <2>4. ASSUME NEW m, m = queueBuf', Acked(m), ~m.torn PROVE Known(m.stored)'
    <3>1. UNCHANGED <<store, torn>> /\ ~torn
      BY <2>1, <2>2, <2>4 DEF CloseFile
    <3>2. md5 = context
      BY <2>2, <2>4 DEF Acked, HashMatches
    <3>3. store[file] = context /\ Known(md5)
      BY <2>2, <3>1 DEF FileIsHashed, DigestsKnown
    <3>4. Known(m.stored)
      BY <2>2, <2>4, <3>1, <3>2, <3>3
    <3>5. QED
      BY <3>4, <1>a
  <2>5. QED
    BY <1>a, <2>3, <2>4 DEF AckSound, Acked
<1>7. CASE Send
  <2>1. /\ pc = "send" /\ pc' # "send"
        /\ xQueueSubscribe' = Append(xQueueSubscribe, queueBuf)
    BY <1>7 DEF Send, AfterSend, After
  <2>2. \A i \in DOMAIN xQueueSubscribe' :
          \/ xQueueSubscribe'[i] = queueBuf
          \/ i \in DOMAIN xQueueSubscribe
             /\ xQueueSubscribe'[i] = xQueueSubscribe[i]
    BY <1>c, <2>1
  <2>3. QED
    BY <1>b, <2>1, <2>2 DEF Posted
<1>8. CASE SendTimesOut
  BY <1>8, <1>b DEF SendTimesOut, AfterSend, After, Posted
<1>9. CASE (\E t \in {"get", "delete"} : NameRequest(t)) \/ ListRequest
  <2>1. /\ pc' = "send" /\ queueBuf'.request # "put"
        /\ xQueueSubscribe' = xQueueSubscribe
    BY <1>9, <1>c DEF NameRequest, ListRequest, Request
  <2>2. \A m \in Posted' : m = queueBuf' \/ m \in Posted
    BY <2>1 DEF Posted
  <2>3. QED
    BY <1>a, <2>1, <2>2 DEF AckSound, Acked
<1>10. CASE Library \/ Host \/ UNCHANGED vars
  <2>1. UNCHANGED <<pc, queueBuf, xQueueSubscribe>>
    BY <1>10 DEF vars, Library, LinkEvent, SilentEvent, Handler, CopyTopic,
       CopyLength, CopyData, Give, Host, PublishHeader, PublishChunk,
       PublishTailer, PublishRequest, PublishList, Publish, Abandon, locals
  <2>2. QED
    BY <1>0, <2>1
<1>11. QED
  BY <1>1, <1>2, <1>3, <1>4, <1>5, <1>6, <1>7, <1>8, <1>9, <1>10 DEF Next, Sub

\* When messages arrive one at a time, an acknowledged upload is on the flash
\* exactly as the host completed it, whatever is lost, cut short or reordered
\* around it, unless a write to the flash failed or a block of some file holds
\* the digest of what the file then holds.
THEOREM AcksAreSound == ASSUME Paced PROVE Spec => []AckSound
<1>1. Init => AckInv
  BY InitAck
<1>2. TypeOK /\ Streams /\ AckInv /\ [Next]_vars => AckInv'
  BY StepExclusive, StepFileIsHashed, StepDigests, StepAckSound, Paced DEF AckInv
<1>3. AckInv => AckSound
  BY DEF AckInv
<1>4. QED
  BY <1>1, <1>2, <1>3, TypeCorrect, PTL DEF Spec

=============================================================================
