------------------------------ MODULE MqttSub ------------------------------
(***************************************************************************)
(* The receiving half of the MQTT example (src/mqtt/main/mqtt_sub.c).      *)
(*                                                                         *)
(* Two tasks share one mailbox, the MQTT_t structure mqttBuf, and no lock: *)
(*   - the task of the MQTT library runs mqtt_event_handler, which fills   *)
(*     the mailbox and gives a notification to the SUB task;               *)
(*   - SUB takes the notification, reads the mailbox (several times), and  *)
(*     writes the uploaded file, checks its MD5 and posts a request to the *)
(*     main task through xQueueSubscribe.                                  *)
(* A host (src/mqtt/mqtt-file.py) publishes a header, the file's blocks    *)
(* and a tailer carrying the MD5.                                          *)
(*                                                                         *)
(* A block of a file is one value of Chunks; an MD5 is the sequence of the *)
(* blocks it was computed from (the digest is taken to be injective).      *)
(* Garbled stands for bytes of a half-finished copy or of a block cut by a *)
(* foreign length: a value no host ever sends.                             *)
(*                                                                         *)
(* The only framing is the length of a message: SUB tests every block of   *)
(* 128 bytes for a header or a tailer, and the last block of a file may    *)
(* have that length. HeaderLike and TailerLike are the blocks that pass;   *)
(* each is taken to hold a name or a digest where one is looked for.       *)
(***************************************************************************)
EXTENDS Naturals, Sequences

CONSTANTS
  Names,      \* file names the host uses
  Chunks,     \* contents of a data block
  Blocks128,  \* those of exactly 128 bytes
  HeaderLike, \* those of them that begin with "header"
  TailerLike, \* those of them that begin with "tailer"
  NameIn,     \* the file name a header-like block holds (at most 63 bytes)
  DigestIn,   \* the digest a tailer-like block holds
  Garbled,    \* bytes that belong to no single message
  NoFile,     \* NULL
  MaxFiles,   \* max_files of the SPIFFS mount
  QueueLen,   \* length of xQueueSubscribe
  MaxBlocks,  \* bound: blocks in one upload
  MaxEvents,  \* bound: MQTT events in a behaviour
  Paced       \* TRUE: a message arrives only when SUB has dealt with the last

ASSUME ConstantsAssumption ==
  /\ Garbled \notin Names \cup Chunks
  /\ NoFile \notin Names \cup {Garbled}
  /\ Blocks128 \subseteq Chunks
  /\ HeaderLike \subseteq Blocks128 /\ TailerLike \subseteq Blocks128
  /\ HeaderLike \cap TailerLike = {}
  /\ NameIn \in [HeaderLike -> Names]
  /\ DigestIn \in [TailerLike -> Seq(Chunks)]
  /\ MaxFiles \in Nat \ {0} /\ QueueLen \in Nat \ {0}
  /\ MaxBlocks \in Nat /\ MaxEvents \in Nat
  /\ Paced \in BOOLEAN

VARIABLES
  \* the mailbox and the notification of SUB
  event_id, topic, data_len, data, notified,
  \* the library's task: where the handler is, and the message it copies
  hpc, event,
  \* SUB: where it is, and the locals of mqtt_sub
  pc, filename, filepath, md5, file, fileOpen, context, queueBuf,
  \* flash, open FILE objects, and the queue to the main task
  store, handles, xQueueSubscribe,
  \* the connection, the host's upload in progress, events so far
  link, host, events,
  \* history: uploads and requests the host made; digests that blocks of its
  \* files held; whether a write to the open file failed; whether the traffic
  \* has been orderly so far
  completed, claimed, requested, torn, orderly

mailbox == <<event_id, topic, data_len, data>>
handler == <<hpc, event>>
locals  == <<filename, filepath, md5, file, fileOpen, context, queueBuf>>
flash   == <<store, handles>>
history == <<completed, claimed, requested, torn, orderly>>
vars == <<mailbox, notified, handler, pc, locals, flash, xQueueSubscribe,
          link, host, events, history>>

-----------------------------------------------------------------------------
Blocks == Chunks \cup {Garbled}
Paths  == Names \cup {Garbled}
Topics == {"put", "get", "list", "delete", "none"}

\* A message is what its first bytes say (kind), with the name or the digest
\* that stands there, and the file block that its bytes are, if they are one.
Message == [kind : {"header", "tailer", "chunk"}, name : Paths,
            digest : Seq(Blocks), block : Blocks]
Header(n) == [kind |-> "header", name |-> n, digest |-> <<>>, block |-> Garbled]
Tailer(h) ==
  [kind |-> "tailer", name |-> Garbled, digest |-> h, block |-> Garbled]
Chunk(c) ==
  [kind   |-> CASE c \in HeaderLike -> "header"
                [] c \in TailerLike -> "tailer"
                [] OTHER            -> "chunk",
   name   |-> IF c \in HeaderLike THEN NameIn[c] ELSE Garbled,
   digest |-> IF c \in TailerLike THEN DigestIn[c] ELSE <<>>,
   block  |-> c]

\* A data block that SUB takes for a header or a tailer.
Lookalike(m) == m.kind # "chunk" /\ m.block # Garbled

\* Headers and tailers are 128 bytes long, and so are some data blocks.
Length(m) ==
  IF m.kind # "chunk" \/ m.block \in Blocks128 THEN "block128" ELSE "data"

Request == [request : {"put", "get", "list", "delete"},
            responce : {"ACK", "NAK"}, payload : Paths,
            stored : Seq(Blocks), torn : BOOLEAN]

\* The items of process_message: the type of what the mailbox holds now.
MessageType ==
  IF data_len # "block128" THEN "chunk" ELSE data.kind

\* The bytes that data and data_len denote together, read as a file block.
Block == IF data_len = Length(data) THEN data.block ELSE Garbled

Init ==
  /\ event_id = "other" /\ topic = "none" /\ data_len = "data"
  /\ data = Chunk(Garbled) /\ notified = FALSE
  /\ hpc = "idle" /\ event = [topic |-> "none", body |-> Chunk(Garbled)]
  /\ pc = "wait" /\ filename = Garbled /\ filepath = Garbled
  /\ md5 = <<Garbled>> /\ file = NoFile /\ fileOpen = FALSE /\ context = <<>>
  /\ queueBuf = [request |-> "list", responce |-> "NAK", payload |-> Garbled,
                 stored |-> <<>>, torn |-> FALSE]
  /\ store = [p \in Paths |-> <<>>] /\ handles = 0
  /\ xQueueSubscribe = <<>>
  /\ link = "down" /\ events = 0
  /\ host = [name |-> NoFile, sent |-> <<>>]
  /\ completed = {} /\ claimed = {} /\ requested = {}
  /\ torn = FALSE /\ orderly = TRUE

-----------------------------------------------------------------------------
(* mqtt_event_handler, run by the library's task.                          *)

Running == pc \notin {"stopped", "crashed"}

\* event_id is stored for every event, before the switch.
SetEvent(e) ==
  /\ events < MaxEvents /\ events' = events + 1
  /\ hpc = "idle" /\ Running
  /\ event_id' = e

\* An event that changes event_id while SUB has yet to read the one before it.
Overtakes == notified \/ pc = "dispatch"

\* CONNECTED, DISCONNECTED, ERROR: event_id and a notification.
LinkEvent(e) ==
  /\ SetEvent(e)
  /\ CASE e = "connected"    -> link = "down" /\ link' = "up"
       [] e = "disconnected" -> link # "down" /\ link' = "down"
       [] OTHER              -> link' = link
  /\ notified' = TRUE
  /\ orderly' = (orderly /\ ~Overtakes)
  /\ UNCHANGED <<topic, data_len, data, handler, pc, locals, flash,
                 xQueueSubscribe, host, completed, claimed, requested, torn>>

\* SUBSCRIBED, BEFORE_CONNECT...: event_id alone. A DATA event whose topic or
\* payload is too long does the same with event_id DATA.
SilentEvent(e) ==
  /\ SetEvent(e)
  /\ e = "data" => link = "subscribed"
  /\ orderly' = (orderly /\ ~Overtakes)
  /\ UNCHANGED <<topic, data_len, data, notified, handler, pc, locals, flash,
                 xQueueSubscribe, link, host, completed, claimed, requested, torn>>

\* A message of acceptable size arrives; its fields are copied by the steps below.
Arrive(t, m) ==
  /\ SetEvent("data")
  /\ link = "subscribed"
  /\ Paced => pc = "wait" /\ ~notified
  /\ event' = [topic |-> t, body |-> m]
  /\ hpc' = "topic"
  /\ orderly' = (orderly /\ pc = "wait" /\ ~notified
                 /\ ~(t = "put" /\ Lookalike(m)))

\* QoS 0: the broker or the connection drops the message.
Lose ==
  /\ events < MaxEvents /\ events' = events + 1
  /\ orderly' = FALSE
  /\ UNCHANGED <<event_id, handler>>

\* The topic is rebuilt byte by byte, a terminator after each: until the last
\* byte it matches no request.
CopyTopic ==
  /\ hpc = "topic" /\ hpc' = "len"
  /\ topic' = "none"
  /\ UNCHANGED <<event_id, data_len, data, notified, event, pc, locals, flash,
                 xQueueSubscribe, link, host, events, history>>

CopyLength ==
  /\ hpc = "len" /\ hpc' = "data"
  /\ topic' = event.topic
  /\ data_len' = Length(event.body)
  /\ UNCHANGED <<event_id, data, notified, event, pc, locals, flash,
                 xQueueSubscribe, link, host, events, history>>

\* While the body is copied the mailbox is a mixture of two messages: the first
\* bytes may be those of either, the rest belongs to none.
CopyData ==
  /\ hpc = "data" /\ hpc' = "give"
  /\ \E k \in {data.kind, event.body.kind} :
       data' = [kind |-> k, name |-> Garbled, digest |-> <<Garbled>>,
                block |-> Garbled]
  /\ UNCHANGED <<event_id, topic, data_len, notified, event, pc, locals, flash,
                 xQueueSubscribe, link, host, events, history>>

Give ==
  /\ hpc = "give" /\ hpc' = "idle"
  /\ data' = event.body
  /\ notified' = TRUE
  /\ UNCHANGED <<event_id, topic, data_len, event, pc, locals, flash,
                 xQueueSubscribe, link, host, events, history>>

Handler == CopyTopic \/ CopyLength \/ CopyData \/ Give

-----------------------------------------------------------------------------
(* The host: mqtt-file.py, and any MQTT client for the list request.       *)

Publish(t, m) ==
  /\ Arrive(t, m) \/ Lose
  /\ UNCHANGED <<topic, data_len, data, notified, pc, locals, flash,
                 xQueueSubscribe, link, torn>>

PublishHeader(n) ==
  /\ host.name = NoFile
  /\ host' = [name |-> n, sent |-> <<>>]
  /\ Publish("put", Header(n))
  /\ UNCHANGED <<completed, claimed, requested>>

\* The digest that a block holds, if it looks like a tailer.
Claims(c) == IF c \in TailerLike THEN {DigestIn[c]} ELSE {}

\* The file is read in blocks of 512 bytes: only its last one can have 128.
PublishChunk(c) ==
  /\ host.name # NoFile /\ Len(host.sent) < MaxBlocks
  /\ \A i \in DOMAIN host.sent : host.sent[i] \notin Blocks128
  /\ host' = [host EXCEPT !.sent = Append(@, c)]
  /\ Publish("put", Chunk(c))
  /\ claimed' = claimed \cup Claims(c)
  /\ UNCHANGED <<completed, requested>>

PublishTailer ==
  /\ host.name # NoFile
  /\ host' = [name |-> NoFile, sent |-> <<>>]
  /\ Publish("put", Tailer(host.sent))
  /\ completed' = completed \cup {[name |-> host.name, content |-> host.sent]}
  /\ UNCHANGED <<claimed, requested>>

PublishRequest(t, n) ==
  /\ host.name = NoFile
  /\ Publish(t, Header(n))
  /\ requested' = requested \cup {[request |-> t, name |-> n]}
  /\ UNCHANGED <<host, completed, claimed>>

\* The payload of a list request is not looked at: bytes that are no file block.
PublishList ==
  /\ host.name = NoFile
  /\ Publish("list", Chunk(Garbled))
  /\ UNCHANGED <<host, completed, claimed, requested>>

\* No PUBACK in time: the script raises SystemExit in the middle of an upload.
Abandon ==
  /\ host.name # NoFile
  /\ host' = [name |-> NoFile, sent |-> <<>>]
  /\ orderly' = FALSE
  /\ UNCHANGED <<mailbox, notified, handler, pc, locals, flash,
                 xQueueSubscribe, link, events, completed, claimed, requested, torn>>

Host ==
  \/ \E n \in Names : PublishHeader(n)
  \/ \E c \in Chunks : PublishChunk(c)
  \/ PublishTailer
  \/ \E t \in {"get", "delete"}, n \in Names : PublishRequest(t, n)
  \/ PublishList
  \/ Abandon

-----------------------------------------------------------------------------
(* The loop of mqtt_sub. Every step that reads the mailbox reads it anew.  *)

\* Where the four tests on the topic continue after a branch.
After(request) ==
  CASE request = "put"  -> "get"
    [] request = "get"  -> "list"
    [] request = "list" -> "delete"
    [] OTHER            -> "wait"

Take ==
  /\ pc = "wait" /\ notified
  /\ notified' = FALSE
  /\ pc' = "dispatch"
  /\ UNCHANGED <<mailbox, handler, locals, flash, xQueueSubscribe, link, host,
                 events, history>>

Dispatch ==
  /\ pc = "dispatch"
  /\ pc' = CASE event_id \in {"disconnected", "error"} -> "stopped"
             [] event_id = "data"                      -> "put"
             [] OTHER                                  -> "wait"
  /\ link' = IF event_id = "connected" /\ link = "up" THEN "subscribed" ELSE link
  /\ UNCHANGED <<mailbox, notified, handler, locals, flash, xQueueSubscribe,
                 host, events, history>>

SkipPut ==
  /\ pc = "put" /\ topic # "put"
  /\ pc' = "get"
  /\ UNCHANGED <<mailbox, notified, handler, locals, flash, xQueueSubscribe,
                 link, host, events, history>>

EnterPut ==
  /\ pc = "put" /\ topic = "put"
  /\ pc' = "parse"
  /\ UNCHANGED <<mailbox, notified, handler, locals, flash, xQueueSubscribe,
                 link, host, events, history>>

\* Mutant: the name of the message before is used.
StaleName == filename

\* What process_message leaves in filename and md5.
ParsedName == IF MessageType = "header" THEN data.name ELSE filename

ParsedHash == IF MessageType = "tailer" THEN data.digest ELSE md5

Parse ==
  /\ pc = "parse"
  /\ filename' = ParsedName
  /\ md5' = ParsedHash
  /\ pc' = CASE MessageType = "header"             -> "open"
             [] MessageType = "tailer" /\ fileOpen -> "close"
             [] MessageType = "chunk" /\ fileOpen  -> "write"
             [] OTHER                              -> "get"
  /\ UNCHANGED <<mailbox, notified, handler, filepath, file, fileOpen, context,
                 queueBuf, flash, xQueueSubscribe, link, host, events, history>>

\* Mutant: the digest of the upload before goes on.
KeptContext == context

\* esp_rom_md5_init.
NewContext == <<>>

\* fopen(filepath, "wb"). The old stream, if any, is not closed first.
OpenOK ==
  /\ pc = "open" /\ pc' = "get"
  /\ handles < MaxFiles
  /\ handles' = handles + 1
  /\ filepath' = filename
  /\ store' = [store EXCEPT ![filename] = <<>>]
  /\ file' = filename /\ fileOpen' = TRUE
  /\ context' = NewContext
  /\ torn' = FALSE
  /\ UNCHANGED <<mailbox, notified, handler, filename, md5, queueBuf,
                 xQueueSubscribe, link, host, events, completed, claimed,
                 requested, orderly>>

\* It fails for want of a handle, of an inode or of memory. fileOpen keeps its value.
OpenFails ==
  /\ pc = "open" /\ pc' = "get"
  /\ filepath' = filename
  /\ file' = NoFile
  /\ UNCHANGED <<mailbox, notified, handler, filename, md5, fileOpen, context,
                 queueBuf, flash, xQueueSubscribe, link, host, events, history>>

\* fwrite and fclose on a NULL stream: the chip panics.
Panic ==
  /\ pc \in {"write", "close"} /\ file = NoFile
  /\ pc' = "crashed"
  /\ UNCHANGED <<mailbox, notified, handler, locals, flash, xQueueSubscribe,
                 link, host, events, history>>

WriteOK ==
  /\ pc = "write" /\ file # NoFile
  /\ pc' = "hash"
  /\ store' = [store EXCEPT ![file] = Append(@, Block)]
  /\ UNCHANGED <<mailbox, notified, handler, locals, handles, xQueueSubscribe,
                 link, host, events, history>>

\* The flash is full: nothing, or a part of the block, is written.
WriteFails ==
  /\ pc = "write" /\ file # NoFile
  /\ pc' = "get"
  /\ \/ store' = store
     \/ store' = [store EXCEPT ![file] = Append(@, Garbled)]
  /\ torn' = TRUE
  /\ UNCHANGED <<mailbox, notified, handler, locals, handles, xQueueSubscribe,
                 link, host, events, completed, claimed,
                 requested, orderly>>

UpdateHash ==
  /\ pc = "hash" /\ pc' = "get"
  /\ context' = Append(context, Block)
  /\ UNCHANGED <<mailbox, notified, handler, filename, filepath, md5, file,
                 fileOpen, queueBuf, flash, xQueueSubscribe, link, host, events,
                 history>>

\* Mutant: the digests are not compared.
HashIgnored == TRUE

\* The strcmp of the tailer's digest and the computed one. The digest of garbled
\* bytes, and a garbled digest, equal nothing.
HashMatches ==
  md5 = context /\ \A i \in DOMAIN md5 : md5[i] # Garbled

\* fclose writes what the stream still buffers; its result is not looked at.
CloseFile(flushed) ==
  /\ pc = "close" /\ pc' = "send"
  /\ file # NoFile
  /\ handles' = handles - 1
  /\ IF flushed \/ store[file] = <<>>
       THEN UNCHANGED <<store, torn>>
       ELSE /\ store' = [store EXCEPT
                           ![file] = SubSeq(@, 1, Len(@) - 1)]
            /\ torn' = TRUE
  /\ queueBuf' = [request |-> "put",
                  responce |-> IF HashMatches THEN "ACK" ELSE "NAK",
                  payload |-> filepath,
                  stored |-> store'[file], torn |-> torn']
  /\ UNCHANGED <<mailbox, notified, handler, filename, filepath, md5, file,
                 fileOpen, context, xQueueSubscribe, link, host, events,
                 completed, claimed, requested, orderly>>

\* Mutant: the closed stream stays in file.
KeepStream == UNCHANGED <<file, fileOpen>>

\* After the answer to an upload: file = NULL, fileOpen = 0.
ForgetStream == file' = NoFile /\ fileOpen' = FALSE

\* xQueueSend with a timeout of 10 ticks, and where the loop goes on.
AfterSend ==
  /\ pc' = After(queueBuf.request)
  /\ IF queueBuf.request = "put" THEN ForgetStream
                                 ELSE UNCHANGED <<file, fileOpen>>
  /\ UNCHANGED <<mailbox, notified, handler, filename, filepath, md5, context,
                 queueBuf, flash, link, host, events, history>>

\* Mutant: one request too many.
RoomOffByOne == Len(xQueueSubscribe) <= QueueLen

QueueHasRoom == Len(xQueueSubscribe) < QueueLen

Send ==
  /\ pc = "send"
  /\ QueueHasRoom
  /\ xQueueSubscribe' = Append(xQueueSubscribe, queueBuf)
  /\ AfterSend

SendTimesOut ==
  /\ pc = "send"
  /\ ~QueueHasRoom
  /\ UNCHANGED xQueueSubscribe
  /\ AfterSend

\* The get and delete branches: filename is what process_message leaves in it.
NameRequest(t) ==
  /\ pc = t /\ topic = t
  /\ pc' = "send"
  /\ filename' = ParsedName
  /\ md5' = ParsedHash
  /\ queueBuf' = [queueBuf EXCEPT !.request = t, !.payload = ParsedName]
  /\ UNCHANGED <<mailbox, notified, handler, filepath, file, fileOpen, context,
                 flash, xQueueSubscribe, link, host, events, history>>

ListRequest ==
  /\ pc = "list" /\ topic = "list"
  /\ pc' = "send"
  /\ queueBuf' = [queueBuf EXCEPT !.request = "list"]
  /\ UNCHANGED <<mailbox, notified, handler, filename, filepath, md5, file,
                 fileOpen, context, flash, xQueueSubscribe, link, host, events,
                 history>>

SkipRequest(t) ==
  /\ pc = t /\ topic # t
  /\ pc' = After(t)
  /\ UNCHANGED <<mailbox, notified, handler, locals, flash, xQueueSubscribe,
                 link, host, events, history>>

Sub ==
  \/ Take \/ Dispatch \/ SkipPut \/ EnterPut \/ Parse
  \/ OpenOK \/ OpenFails \/ WriteOK \/ WriteFails \/ UpdateHash
  \/ \E flushed \in BOOLEAN : CloseFile(flushed)
  \/ Panic \/ Send \/ SendTimesOut
  \/ \E t \in {"get", "delete"} : NameRequest(t)
  \/ ListRequest
  \/ \E t \in {"get", "list", "delete"} : SkipRequest(t)

\* The main task takes requests off the queue (MqttPub models what it does).
Receive ==
  /\ xQueueSubscribe # <<>>
  /\ xQueueSubscribe' = Tail(xQueueSubscribe)
  /\ UNCHANGED <<mailbox, notified, handler, pc, locals, flash, link, host,
                 events, history>>

Library ==
  \/ \E e \in {"connected", "disconnected", "error"} : LinkEvent(e)
  \/ \E e \in {"other", "data"} : SilentEvent(e)
  \/ Handler

Next == Library \/ Host \/ Sub \/ Receive

Spec == Init /\ [][Next]_vars

-----------------------------------------------------------------------------
(* Properties.                                                             *)

PCs == {"wait", "dispatch", "put", "parse", "open", "write", "hash", "close",
        "send", "get", "list", "delete", "stopped", "crashed"}

MailboxType ==
  /\ event_id \in {"other", "data", "connected", "disconnected", "error"}
  /\ topic \in Topics /\ data_len \in {"data", "block128"}
  /\ data \in Message /\ notified \in BOOLEAN

HandlerType ==
  /\ hpc \in {"idle", "topic", "len", "data", "give"}
  /\ event \in [topic : Topics, body : Message]

LocalsType ==
  /\ pc \in PCs
  /\ filename \in Paths /\ filepath \in Paths /\ md5 \in Seq(Blocks)
  /\ file \in Paths \cup {NoFile} /\ fileOpen \in BOOLEAN
  /\ context \in Seq(Blocks) /\ queueBuf \in Request

FlashType ==
  /\ store \in [Paths -> Seq(Blocks)]
  /\ handles \in 0..MaxFiles
  /\ xQueueSubscribe \in Seq(Request) /\ Len(xQueueSubscribe) <= QueueLen

HostType ==
  /\ link \in {"down", "up", "subscribed"} /\ events \in Nat
  /\ host \in [name : Names \cup {NoFile}, sent : Seq(Blocks)]
  /\ completed \subseteq [name : Names, content : Seq(Blocks)]
  /\ claimed \subseteq Seq(Blocks)
  /\ requested \subseteq [request : {"get", "delete"}, name : Names]
  /\ torn \in BOOLEAN /\ orderly \in BOOLEAN

\* Every variable has the type of the C object it stands for; the queue and the
\* open streams stay within their limits.
TypeOK ==
  MailboxType /\ HandlerType /\ LocalsType /\ FlashType /\ HostType

\* The host finished an upload of these blocks.
Done(content) == \E u \in completed : u.content = content

\* A digest that a message may carry: that of a finished upload, or one that
\* stands in a block of some file.
Known(digest) == Done(digest) \/ digest \in claimed

\* Requests posted to the main task, or about to be.
Posted == (IF pc = "send" THEN {queueBuf} ELSE {})
            \cup {xQueueSubscribe[i] : i \in DOMAIN xQueueSubscribe}

Acked(m) == m.request = "put" /\ m.responce = "ACK"

\* "File copied OK - valid hash" (mqtt_sub.c:285): unless a write to the flash
\* failed, what the file held when the acknowledgement was built is an upload
\* the host completed, or what the digest in a block of one of the host's files
\* was computed from.
AckSound == \A m \in Posted : Acked(m) /\ ~m.torn => Known(m.stored)

\* The same with no exemption, neither for failed writes nor for such a block.
AckDurable == \A m \in Posted : Acked(m) => Done(m.stored)

\* With orderly traffic (nothing lost, no upload cut short, no event overtaking
\* another, no block of an upload that SUB takes for a header or a tailer) the
\* answer to an upload names the file the host sent, acknowledges exactly its
\* contents, and is negative only when a write failed.
OrderlyAnswer ==
  \A m \in Posted : m.request = "put" /\ orderly =>
    \/ m.torn
    \/ Acked(m) /\ [name |-> m.payload, content |-> m.stored] \in completed

\* A file is fetched or deleted only under a name the host asked for: filename
\* and topic belong to the same message.
RequestFaithful ==
  \A m \in Posted : m.request \in {"get", "delete"} =>
    [request |-> m.request, name |-> m.payload] \in requested

\* SUB has an open stream: the one of file, until the fclose of the tailer.
HoldsStream ==
  fileOpen /\ file # NoFile /\ ~(pc = "send" /\ queueBuf.request = "put")

\* As long as traffic is orderly, in the same sense, no FILE object leaks, and the
\* flag fileOpen that guards fwrite and fclose never goes with a NULL stream.
NoHandleLeak ==
  orderly => /\ handles = IF HoldsStream THEN 1 ELSE 0
             /\ fileOpen => file # NoFile

=============================================================================
