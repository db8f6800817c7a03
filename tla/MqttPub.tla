------------------------------ MODULE MqttPub ------------------------------
(***************************************************************************)
(* The answering side of the mqtt example: the main task (mqtt/main/main.c)*)
(* that forwards every request to PUB and compresses an accepted upload,   *)
(* the PUB task (mqtt/main/mqtt_pub.c) that answers, and the queue they    *)
(* share with PUB's MQTT event handler, through which a PUBLISHED event    *)
(* for one task travels among the requests for the same task.              *)
(*                                                                         *)
(* The MQTT client library and the broker are external. The SUB task, of   *)
(* which MqttSub is the model, is one step here: a request that arrived is *)
(* posted. The host is the script mqtt/mqtt-file.py: put, get, delete the  *)
(* source, delete the compressed file; anybody may ask for a list between. *)
(* The v-th upload is <<v>>, a damaged one <<0>>; compressed, it is        *)
(* <<v, 1>> .. <<v, Blocks>>: messages of 512 bytes, but for the last. When *)
(* that one has 128 bytes the script decodes it as text, which no block of *)
(* compressed data that begins with "header,," or "tailer,," is.           *)
(***************************************************************************)
EXTENDS Naturals, Sequences

CONSTANTS
  Blocks,     \* messages a compressed file takes
  Unreadable, \* uploads whose last message has 128 bytes that are not UTF-8
  Absent,     \* no such file
  QueueLen,   \* length of xQueueSubscribe and of xQueuePublish
  MaxRuns,    \* bound: runs of the script
  MaxLists,   \* bound: requests for a list
  MaxLosses,  \* bound: times the connection is lost or the chip restarts
  Punctual,   \* TRUE: a request comes when the answer before it is acknowledged
  Faults      \* what may go wrong, see AllFaults

\* The connection is lost; the access point is lost, which is not joined again; the
\* chip restarts; an operation on flash fails; the codec task reports a failure; an
\* upload does not match its hash; no memory for the codec task, which is then not
\* created; its notification of success comes before the main task waits for it.
AllFaults == {"link", "network", "restart", "flash", "codec", "upload", "memory", "early"}

ASSUME ConstantsAssumption ==
  /\ Blocks \in Nat \ {0} /\ Unreadable \subseteq Nat /\ QueueLen \in Nat \ {0}
  /\ MaxRuns \in Nat \ {0} /\ MaxLists \in Nat /\ MaxLosses \in Nat
  /\ Punctual \in BOOLEAN /\ Faults \subseteq AllFaults
  /\ Absent \notin Seq(Nat) \cup Seq(Nat \X Nat)

VARIABLES
  \* the queues, the state of the main task and its queueBuf
  subscribeQ, publishQ, main, mainBuf,
  \* PUB: where it is, whether in wait_for; queueBuf; locals of GET and LIST
  pub, waiting, buf, position, context, entries,
  \* the access point is joined; PUB's MQTT client: connected, and the messages not
  \* yet acknowledged
  joined, online, outbox,
  \* the two files on flash
  flash,
  \* the host: request it is at, whether it waits, what it heard in answer, which
  \* requests of the run were answered with ACK; runs, requests for a list
  step, client, heard, acked, runs, lists,
  \* history: faults so far, connections lost and restarts
  faults, losses

queues  == <<subscribeQ, publishQ>>
mainVars == <<main, mainBuf>>
locals  == <<buf, position, context, entries>>
mqtt    == <<joined, online, outbox>>
host    == <<step, client, heard, acked, runs, lists>>
history == <<faults, losses>>
vars == <<queues, mainVars, pub, waiting, locals, mqtt, flash, host, history>>

-----------------------------------------------------------------------------
Files == {"src", "br"}
Script == <<"put", "get", "del_src", "del_br">>
Requests == {Script[i] : i \in DOMAIN Script} \cup {"list"}

\* queueBuf: what is asked, and for a PUT the outcome of the upload.
Request(kind, ok) == [kind |-> kind, ok |-> ok]

\* Events share the queue with requests; an ERROR is treated as a DISCONNECTED.
Events == {"CONNECTED", "DISCONNECTED", "PUBLISHED"}
Event(kind) == Request(kind, TRUE)

\* The topic a request is answered on, shared by both deletions, and the file it names.
TopicOf(kind) == IF kind \in {"del_src", "del_br"} THEN "delete" ELSE kind
FileOf(kind) == IF kind \in {"get", "del_br"} THEN "br" ELSE "src"

\* An MQTT message of an answer.
Message(topic, file, kind, content) ==
  [topic |-> topic, file |-> file, kind |-> kind, content |-> content]

Init ==
  /\ subscribeQ = <<>> /\ publishQ = <<>>
  /\ main = "receive" /\ mainBuf = Event("CONNECTED")
  /\ pub = "loop" /\ waiting = FALSE /\ buf = Event("CONNECTED")
  /\ position = 0 /\ context = <<>> /\ entries = {}
  /\ joined = TRUE /\ online = FALSE /\ outbox = <<>>
  /\ flash = [f \in Files |-> Absent]
  /\ step = "put" /\ client = "send" /\ heard = <<>> /\ acked = {}
  /\ runs = 1 /\ lists = 0
  /\ faults = {} /\ losses = 0

Fault(f) ==
  /\ f \in Faults
  /\ faults' = faults \cup {f}
  /\ UNCHANGED losses

Interruption(f) ==
  /\ losses < MaxLosses /\ losses' = losses + 1
  /\ faults' = faults \cup {f}

\* Mutant: room for one more than there is.
RoomOffByOne(q) == Len(q) <= QueueLen

HasRoom(q) == Len(q) < QueueLen

\* xQueueSend, whether from a task (10 ticks) or from the handler: no room, no entry.
Posted(q, entry) == IF HasRoom(q) THEN Append(q, entry) ELSE q

-----------------------------------------------------------------------------
(* The host and SUB.                                                        *)

\* PUB is back in its loop, and everything it published is acknowledged.
PubIdle == pub = "loop" /\ ~waiting /\ publishQ = <<>> /\ outbox = <<>>

\* Answers may be lost, late or repeated.
Interrupted == faults \cap {"link", "network", "restart"} # {}

\* The main task has ended, or waits for ever for a codec task.
MainGone == main \in {"deleted", "stuck"}

\* No answer will come.
Silent ==
  /\ Interrupted \/ MainGone
  /\ pub = "deleted" \/ (PubIdle /\ subscribeQ = <<>> /\ (main = "receive" \/ MainGone))

Timely == Punctual => \/ online /\ PubIdle /\ subscribeQ = <<>> /\ main # "forward"
                      \/ Silent

\* The upload of a PUT is stored before its outcome is posted.
Ask(kind, ok) ==
  /\ client = "send" /\ Timely
  /\ subscribeQ' = Posted(subscribeQ, Request(kind, ok))
  /\ flash' = IF kind # "put" THEN flash
              ELSE [flash EXCEPT !["src"] = IF ok THEN <<runs>> ELSE <<0>>]
  /\ client' = "wait" /\ heard' = <<>>
  /\ UNCHANGED <<publishQ, mainVars, pub, waiting, locals, mqtt, acked, runs>>

AskNext == Ask(step, TRUE) /\ UNCHANGED <<step, lists, history>>

UploadDamaged == step = "put" /\ Ask("put", FALSE) /\ Fault("upload")
                   /\ UNCHANGED <<step, lists>>

AskList ==
  /\ step = "put" /\ lists < MaxLists /\ Ask("list", TRUE)
  /\ lists' = lists + 1 /\ step' = "list"
  /\ UNCHANGED history

\* Topics the script has subscribed to when it waits for the answer of a step.
Subscribed ==
  CASE step = "put"  -> {"put"}
    [] step = "get"  -> {"put", "get"}
    [] step = "list" -> {"list"}
    [] OTHER         -> {"put", "get", "delete"}

\* run_flag is cleared by the header or the tailer of an answer, whichever it is.
Enough(m) ==
  \/ m.kind = "header" /\ m.topic \in {"put", "delete"}
  \/ m.kind = "tailer" /\ m.topic \in {"get", "list", "delete"}

NextStep(s) ==
  CASE s = "put"     -> "get"
    [] s = "get"     -> "del_src"
    [] s = "del_src" -> "del_br"
    [] OTHER         -> "put"

Hears(m) == m.topic \in Subscribed /\ client # "dead"

\* Every message of 128 bytes is decoded.
CannotDecode(m) ==
  m.topic = "get" /\ m.kind = "data" /\ m.content[1] \in Unreadable \X {Blocks}

\* on_message. An exception ends the thread that receives, and with it the run: the next
\* request gets no PUBACK, and the script exits.
Hear(m) ==
  /\ \/ ~Hears(m) /\ UNCHANGED <<heard, acked, client>>
     \/ Hears(m) /\ CannotDecode(m) /\ client' = "dead" /\ UNCHANGED <<heard, acked>>
     \/ /\ Hears(m) /\ ~CannotDecode(m)
        /\ heard' = Append(heard, m)
        /\ acked' = IF m.kind = "header" /\ m.content = <<"ACK">>
                      THEN acked \cup {<<m.topic, m.file>>} ELSE acked
        /\ client' = IF client = "wait" /\ Enough(m) THEN "heard" ELSE client
  /\ UNCHANGED <<step, runs, lists>>

GoOn(enough) ==
  /\ enough
  /\ step' = IF client = "dead" THEN "put" ELSE NextStep(step)
  /\ IF step = "del_br" \/ client = "dead"
       THEN /\ runs < MaxRuns /\ (Punctual => PubIdle \/ Silent)
            /\ runs' = runs + 1 /\ acked' = {}
       ELSE UNCHANGED <<runs, acked>>
  /\ client' = "send"
  /\ UNCHANGED <<queues, mainVars, pub, waiting, locals, mqtt, flash, heard, lists,
                 history>>

Answered == GoOn(client = "heard")

\* wait_for_responce gives up after 30 seconds without a message.
TimesOut == GoOn(client = "wait" /\ (Punctual => Silent))

\* The script has exited, and is started again.
RunAgain == GoOn(client = "dead")

Host == AskNext \/ UploadDamaged \/ AskList \/ Answered \/ TimesOut \/ RunAgain

-----------------------------------------------------------------------------
(* PUB's MQTT client and its event handler.                                 *)

Handler(event) == publishQ' = Posted(publishQ, Event(event))

Connect ==
  /\ joined /\ ~online /\ pub # "deleted"
  /\ online' = TRUE
  /\ Handler("CONNECTED")
  /\ UNCHANGED <<subscribeQ, mainVars, pub, waiting, locals, joined, outbox, flash,
                 host, history>>

\* A message is delivered, then acknowledged.
Puback ==
  /\ online /\ outbox # <<>>
  /\ outbox' = Tail(outbox)
  /\ Hear(Head(outbox))
  /\ Handler("PUBLISHED")
  /\ UNCHANGED <<subscribeQ, mainVars, pub, waiting, locals, joined, online, flash,
                 history>>

\* What was delivered and not acknowledged will be sent again. A connection that
\* cannot be made is reported in the same way.
Disconnect ==
  /\ pub # "deleted"
  /\ \/ "link" \in Faults /\ Interruption("link") /\ UNCHANGED joined
     \/ "network" \in Faults /\ Interruption("network") /\ joined /\ joined' = FALSE
  /\ online' = FALSE
  /\ Handler("DISCONNECTED")
  /\ \/ UNCHANGED host
     \/ online /\ outbox # <<>> /\ Hear(Head(outbox))
  /\ UNCHANGED <<subscribeQ, mainVars, pub, waiting, locals, outbox, flash>>

\* Each attempt to connect again fails.
Unreachable ==
  /\ ~joined /\ pub # "deleted"
  /\ Handler("DISCONNECTED")
  /\ UNCHANGED <<subscribeQ, mainVars, pub, waiting, locals, mqtt, flash, host, history>>

\* The outbox drops what it could not send in time, without an event.
Expire ==
  /\ ~online /\ outbox # <<>>
  /\ outbox' = Tail(outbox)
  /\ UNCHANGED <<queues, mainVars, pub, waiting, locals, joined, online, flash, host,
                 history>>

Mqtt == Connect \/ Puback \/ Disconnect \/ Unreachable \/ Expire

\* Everything but flash starts over, the joining of the access point included.
Reboot ==
  /\ Interruption("restart")
  /\ subscribeQ' = <<>> /\ publishQ' = <<>> /\ outbox' = <<>> /\ online' = FALSE
  /\ joined' = TRUE /\ main' = "receive" /\ pub' = "loop" /\ waiting' = FALSE
  /\ UNCHANGED <<mainBuf, locals, flash, host>>

PowerLoss == "restart" \in Faults /\ Reboot

-----------------------------------------------------------------------------
(* The main task.                                                           *)

\* Mutant: the main task does not wait for the codec task.
DoesNotWait == main \in {"receive", "compressing"}

Ready == main = "receive"

MainReceive ==
  /\ Ready /\ subscribeQ # <<>>
  /\ mainBuf' = Head(subscribeQ) /\ subscribeQ' = Tail(subscribeQ)
  /\ main' = "forward"
  /\ UNCHANGED <<publishQ, pub, waiting, locals, mqtt, flash, host, history>>

\* The answer goes out before the file is compressed.
Forward ==
  /\ main = "forward"
  /\ publishQ' = Posted(publishQ, mainBuf)
  /\ main' = IF mainBuf = Request("put", TRUE) THEN "compress" ELSE "receive"
  /\ UNCHANGED <<subscribeQ, mainBuf, pub, waiting, locals, mqtt, flash, host, history>>

Compressed(v) == [i \in 1..Blocks |-> <<v, i>>]

Beginnings(c) == {SubSeq(c, 1, n) : n \in 0..Len(c)}

\* xTaskCreate, whose result is not looked at, and comp_task up to its fopen, which
\* truncates the destination; without a source it fails.
CompressStarts ==
  /\ main = "compress"
  /\ \/ Fault("memory") /\ main' = "stuck" /\ UNCHANGED flash
     \/ /\ flash["src"] = Absent \/ "codec" \in Faults
        /\ IF flash["src"] = Absent THEN UNCHANGED history ELSE Fault("codec")
        /\ main' = "deleted" /\ UNCHANGED flash
     \/ /\ flash["src"] # Absent
        /\ main' = "compressing" /\ flash' = [flash EXCEPT !["br"] = <<>>]
        /\ UNCHANGED history
  /\ UNCHANGED <<queues, mainBuf, pub, waiting, locals, mqtt, host>>

\* Mutant: the result is tested the wrong way round.
TaskDeleted == "deleted"

\* Where the loop goes on when comp_result is 0.
LoopsAgain == "receive"

\* Success is a notification of value 0, which wakes nobody that comes to wait for it
\* later.
Succeeds ==
  /\ flash["src"] # Absent
  /\ flash' = [flash EXCEPT !["br"] = Compressed(flash["src"][1])]
  /\ \/ main' = LoopsAgain /\ UNCHANGED history
     \/ main' = "stuck" /\ Fault("early")

\* A result other than 0 ends the main task. The output is removed; a failing fclose or
\* unlink leaves a part of it.
Fails ==
  /\ main' = "deleted"
  /\ \/ /\ flash["src"] = Absent \/ "codec" \in Faults
        /\ IF flash["src"] = Absent THEN UNCHANGED history ELSE Fault("codec")
        /\ flash' = [flash EXCEPT !["br"] = Absent]
     \/ /\ flash["src"] # Absent /\ Fault("flash")
        /\ \E part \in Beginnings(Compressed(flash["src"][1])) :
             flash' = [flash EXCEPT !["br"] = part]

CompressEnds ==
  /\ main = "compressing"
  /\ Succeeds \/ Fails
  /\ UNCHANGED <<queues, mainBuf, pub, waiting, locals, mqtt, host>>

Main == MainReceive \/ Forward \/ CompressStarts \/ CompressEnds

-----------------------------------------------------------------------------
(* The PUB task. Every message is followed by wait_for.                     *)

\* The loop: a request is taken up; a lost connection ends the task.
Take ==
  /\ pub = "loop" /\ ~waiting /\ publishQ # <<>>
  /\ publishQ' = Tail(publishQ)
  /\ LET e == Head(publishQ)
     IN  IF e.kind \in Requests
           THEN buf' = e /\ pub' = "header" /\ UNCHANGED online
           ELSE /\ pub' = IF e.kind = "DISCONNECTED" THEN "deleted" ELSE "loop"
                /\ online' = (online /\ pub' # "deleted")
                /\ UNCHANGED buf
  /\ UNCHANGED <<subscribeQ, mainVars, waiting, position, context, entries, joined,
                 outbox, flash, host, history>>

\* Mutant: wait_for leaves other events to the loop.
WaitsForOne == publishQ # <<>> /\ Head(publishQ).kind = "PUBLISHED"

\* Mutant: xQueueReceive does not block.
NoDelay == TRUE

Wakes == publishQ # <<>>

\* wait_for: whatever comes first ends it, and is gone.
WaitFor ==
  /\ waiting /\ Wakes
  /\ publishQ' = IF publishQ = <<>> THEN <<>> ELSE Tail(publishQ)
  /\ waiting' = FALSE
  /\ UNCHANGED <<subscribeQ, mainVars, pub, locals, mqtt, flash, host, history>>

\* Mutant: a DELETE is answered on the topic of a PUT.
TopicCopied == IF buf.kind = "del_src" THEN "put" ELSE TopicOf(buf.kind)

Topic == TopicOf(buf.kind)

File == FileOf(buf.kind)

\* esp_mqtt_client_publish and the start of wait_for. Off line, the message stays
\* in the outbox.
Publish(kind, content) ==
  /\ ~waiting /\ waiting' = TRUE
  /\ outbox' = Append(outbox, Message(Topic, File, kind, content))
  /\ UNCHANGED <<queues, mainVars, joined, online, host>>

\* ACK for an accepted upload, a file that is there, a directory that opens.
SendHeader ==
  /\ pub = "header"
  /\ \E ok \in BOOLEAN :
       /\ CASE buf.kind = "put"  -> ok = buf.ok /\ UNCHANGED history
            [] buf.kind = "list" -> IF ok THEN UNCHANGED history ELSE Fault("flash")
            [] OTHER -> ok = (flash[File] # Absent) /\ UNCHANGED history
       /\ Publish("header", <<IF ok THEN "ACK" ELSE "NAK">>)
       /\ pub' = IF ~ok \/ buf.kind = "put" THEN "tailer" ELSE buf.kind
  /\ context' = <<>> /\ position' = 0 /\ entries' = Files
  /\ UNCHANGED <<buf, flash>>

\* fopen and the first fread.
Open ==
  /\ pub = "get" /\ ~waiting /\ flash[File] # Absent
  /\ pub' = "read"
  /\ UNCHANGED <<queues, mainVars, waiting, locals, mqtt, flash, host, history>>

\* fread from a stream that fopen did not open.
Panic ==
  /\ pub = "get" /\ ~waiting
  /\ flash[File] = Absent \/ "flash" \in Faults
  /\ Reboot

Content(f) == IF flash[f] = Absent THEN <<>> ELSE flash[f]

SendBlock ==
  /\ pub = "read" /\ position < Len(Content(File))
  /\ Publish("data", <<Content(File)[position + 1]>>)
  /\ context' = Append(context, Content(File)[position + 1])
  /\ position' = position + 1
  /\ UNCHANGED <<pub, buf, entries, flash, history>>

\* fread returns 0 at the end, and when it fails.
EndOfFile ==
  /\ pub = "read" /\ ~waiting
  /\ IF position >= Len(Content(File)) THEN UNCHANGED history ELSE Fault("flash")
  /\ pub' = "tailer"
  /\ UNCHANGED <<queues, mainVars, waiting, locals, mqtt, flash, host>>

\* readdir: files that are not there are not listed.
SendEntry ==
  /\ pub = "list"
  /\ \E f \in entries :
       /\ flash[f] # Absent
       /\ Publish("data", <<f>>)
       /\ entries' = entries \ {f}
  /\ UNCHANGED <<pub, buf, position, context, flash, history>>

EndOfList ==
  /\ pub = "list" /\ ~waiting /\ \A f \in entries : flash[f] = Absent
  /\ pub' = "tailer"
  /\ UNCHANGED <<queues, mainVars, waiting, locals, mqtt, flash, host, history>>

\* Mutant: the extension is lost on the way to unlink.
SourceOnly == "src"

ToUnlink == File

\* unlink, after the ACK is out. Its result is not looked at.
Delete ==
  /\ pub \in {"del_src", "del_br"} /\ ~waiting
  /\ pub' = "tailer"
  /\ \/ flash' = [flash EXCEPT ![ToUnlink] = Absent] /\ UNCHANGED history
     \/ Fault("flash") /\ UNCHANGED flash
  /\ UNCHANGED <<queues, mainVars, waiting, locals, mqtt, host>>

\* The MD5 of what was sent, for a GET; of no use otherwise.
SendTailer ==
  /\ pub = "tailer"
  /\ Publish("tailer", context)
  /\ pub' = "loop"
  /\ UNCHANGED <<locals, flash, history>>

Pub ==
  \/ Take \/ WaitFor \/ SendHeader \/ Open \/ Panic \/ SendBlock \/ EndOfFile
  \/ SendEntry \/ EndOfList \/ Delete \/ SendTailer

Next == Host \/ Mqtt \/ PowerLoss \/ Main \/ Pub

\* Tasks at one priority share the processor, the main task runs when PUB blocks;
\* the broker acknowledges, the client reconnects or tries to, and the script polls.
Spec ==
  /\ Init /\ [][Next]_vars
  /\ WF_vars(Main) /\ WF_vars(Pub) /\ WF_vars(Puback) /\ WF_vars(Connect)
  /\ WF_vars(Unreachable) /\ WF_vars(Answered)

-----------------------------------------------------------------------------
(* Properties.                                                              *)

\* The queues hold at most QueueLen entries, of the kinds that are sent to them, and
\* the tasks are at one of the control points of the code.
TypeOK ==
  /\ Len(subscribeQ) <= QueueLen /\ Len(publishQ) <= QueueLen
  /\ \A i \in DOMAIN subscribeQ : subscribeQ[i].kind \in Requests
  /\ \A i \in DOMAIN publishQ : publishQ[i].kind \in Requests \cup Events
  /\ main \in {"receive", "forward", "compress", "compressing", "deleted", "stuck"}
  /\ pub \in {"loop", "header", "get", "read", "list", "del_src", "del_br", "tailer",
              "deleted"}
  /\ waiting \in BOOLEAN /\ joined \in BOOLEAN /\ online \in BOOLEAN
  /\ position \in 0..Blocks /\ entries \subseteq Files
  /\ step \in Requests /\ client \in {"send", "wait", "heard", "dead"}
  /\ acked \subseteq {<<TopicOf(r), FileOf(r)>> : r \in Requests}
  /\ runs \in 1..MaxRuns /\ lists \in 0..MaxLists
  /\ faults \subseteq AllFaults /\ losses \in 0..MaxLosses

\* mqtt_pub.c:111: wait_for returns when the message before it is acknowledged.
\* After an interruption another event may end it.
WaitsForPublished ==
  [][waiting /\ ~waiting' /\ ~Interrupted' => outbox = <<>>]_vars

\* mqtt_pub.c:111: what wait_for takes from the queue is an event, not a request
\* that will then be answered by nobody.
WaitTakesNoRequest ==
  [][waiting /\ ~waiting' => Head(publishQ).kind \notin Requests]_vars

Acked(kind) == <<TopicOf(kind), FileOf(kind)>> \in acked

\* The blocks of a file among the messages heard, and the hash that came with them.
HeardBlocks == SelectSeq(heard, LAMBDA m : m.kind = "data")
HeardValid ==
  /\ heard # <<>> /\ heard[Len(heard)].kind = "tailer"
  /\ DOMAIN HeardBlocks = DOMAIN heard[Len(heard)].content
  /\ \A i \in DOMAIN HeardBlocks :
       HeardBlocks[i].content[1] = heard[Len(heard)].content[i]

Got == [i \in DOMAIN HeardBlocks |-> HeardBlocks[i].content[1]]

\* A download that follows an acknowledged upload and whose hash the script finds valid
\* is of the compressed form of that upload, never of an older one nor of the part
\* compressed so far; it is the whole of it, unless a read failed, which mqtt_pub.c:257
\* takes for the end of the file.
GetWhole ==
  step = "get" /\ Acked("put") /\ Acked("get") /\ HeardValid /\ ~Interrupted =>
    /\ Got \in Beginnings(Compressed(runs))
    /\ "flash" \notin faults => Got = Compressed(runs)

\* What the script hears between two requests is one answer, to its own request: a
\* header, what belongs to it, at most one tailer, and that last.
OneAnswer ==
  client # "send" /\ ~Interrupted =>
    \A i \in DOMAIN heard :
      /\ heard[i].topic = TopicOf(step) /\ heard[i].file = FileOf(step)
      /\ heard[i].kind = "header" <=> i = 1
      /\ heard[i].kind = "tailer" => i = Len(heard)

\* A script that was told of both deletions leaves neither file, once PUB is done
\* with the last answer.
DeletedIsGone ==
  step = "del_br" /\ Acked("del_src") /\ Acked("del_br") /\ PubIdle /\ faults = {}
    => \A f \in Files : flash[f] = Absent

\* mqtt_pub.c:200: once the access point is lost PUB ends, wherever it is: it never
\* waits for ever for the acknowledgement of a message that nobody will receive, although
\* wait_for takes the event that should end it.
LossEndsPub == ~joined ~> (pub = "deleted" \/ joined)

\* The main task is gone because a compression failed, or because the codec task was not
\* created or notified too early.
CompressionFailed == MainGone /\ faults \cap {"codec", "flash", "memory", "early"} # {}

\* A request is answered, unless an interruption loses a message, or a failed compression
\* leaves nobody to forward it. Only a block that the script cannot decode keeps it from
\* hearing the answer to its end (mqtt-file.py:60).
EveryRequestAnswered ==
  client = "wait" ~> (client \in {"heard", "dead"} \/ CompressionFailed \/ Interrupted)

=============================================================================
