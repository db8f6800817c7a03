-------------------------- MODULE MqttPub_proofs --------------------------
(***************************************************************************)
(* Proofs about the answering side of the mqtt example: its types, and,    *)
(* for a host that lets every answer finish, what it may rely on. The      *)
(* invariant follows the one request that is under way through xQueueSub-  *)
(* scribe, the main task, xQueuePublish and PUB, and the one message that  *)
(* PUB waits for; the answer so far, the compressed file and the deletions *)
(* are carried along.                                                      *)
(***************************************************************************)
EXTENDS MqttPub, SequenceTheorems, TLAPS

Entry == [kind : Requests \cup Events, ok : BOOLEAN]

\* What is published: "ACK" and "NAK", the blocks of a file, the names of files.
Items == {"ACK", "NAK"} \cup Files \cup Nat \cup (Nat \X Nat)

Answers == [topic : {"put", "get", "list", "delete"}, file : Files,
            kind : {"header", "data", "tailer"}, content : Seq(Items)]

\* What an answer can be about.
Subjects == {<<TopicOf(r), FileOf(r)>> : r \in Requests}

Uploads == {<<v>> : v \in Nat}

Outputs == UNION {Beginnings(Compressed(v)) : v \in Nat}

-----------------------------------------------------------------------------
QueueTypes ==
  /\ subscribeQ \in Seq(Entry) /\ publishQ \in Seq(Entry)
  /\ Len(subscribeQ) <= QueueLen /\ Len(publishQ) <= QueueLen
  /\ \A i \in DOMAIN subscribeQ : subscribeQ[i].kind \in Requests

TaskTypes ==
  /\ main \in {"receive", "forward", "compress", "compressing", "deleted", "stuck"}
  /\ mainBuf \in Entry /\ (main = "forward" => mainBuf.kind \in Requests)
  /\ pub \in {"loop", "header", "get", "read", "list", "del_src", "del_br", "tailer",
              "deleted"}
  /\ waiting \in BOOLEAN /\ buf \in Entry
  /\ pub \notin {"loop", "deleted"} => buf.kind \in Requests
  /\ position \in 0..Blocks /\ context \in Seq(Items) /\ entries \subseteq Files

NetTypes ==
  /\ joined \in BOOLEAN /\ online \in BOOLEAN
  /\ outbox \in Seq(Answers)
  /\ \A i \in DOMAIN outbox : <<outbox[i].topic, outbox[i].file>> \in Subjects

FlashTypes ==
  /\ DOMAIN flash = Files
  /\ flash["src"] \in Uploads \cup {Absent} /\ flash["br"] \in Outputs \cup {Absent}

HostTypes ==
  /\ step \in Requests /\ client \in {"send", "wait", "heard", "dead"}
  /\ heard \in Seq(Answers) /\ acked \subseteq Subjects
  /\ runs \in 1..MaxRuns /\ lists \in 0..MaxLists

FaultTypes == faults \subseteq AllFaults /\ losses \in 0..MaxLosses

Types == QueueTypes /\ TaskTypes /\ NetTypes /\ FlashTypes /\ HostTypes /\ FaultTypes

-----------------------------------------------------------------------------
\* Where the one request under way is.
InSubscribe == subscribeQ # <<>>

InPublish == publishQ # <<>> /\ publishQ[1].kind \in Requests

\* One request at a time, and PUB rests until it has it.
Single ==
  /\ Len(subscribeQ) \in 0..1 /\ Len(publishQ) \in 0..1 /\ Len(outbox) \in 0..1
  /\ InSubscribe =>
       /\ client = "wait" /\ heard = <<>> /\ subscribeQ[1].kind = step
       /\ PubIdle /\ main # "forward"
  /\ main = "forward" =>
       client = "wait" /\ heard = <<>> /\ mainBuf.kind = step /\ PubIdle
  /\ InPublish =>
       /\ client = "wait" /\ heard = <<>> /\ publishQ[1].kind = step
       /\ pub = "loop" /\ ~waiting
  /\ client = "wait" =>
       InSubscribe \/ main = "forward" \/ InPublish \/ pub # "loop" \/ outbox # <<>>

\* The connection is made once, before the first request.
Connected ==
  /\ joined /\ pub # "deleted"
  /\ ~online \/ (publishQ # <<>> /\ publishQ[1].kind = "CONNECTED") =>
       /\ client = "send" /\ subscribeQ = <<>> /\ main = "receive" /\ pub = "loop"
       /\ ~waiting
  /\ ~online => publishQ = <<>>

\* PUB waits for one message: it is not yet acknowledged, or the event is in the queue.
Paced ==
  /\ waiting => \/ outbox # <<>> /\ publishQ = <<>>
                \/ outbox = <<>> /\ publishQ # <<>> /\ publishQ[1].kind = "PUBLISHED"
  /\ ~waiting => outbox = <<>>
  /\ publishQ # <<>> =>
       \/ publishQ[1].kind = "PUBLISHED" /\ waiting
       \/ publishQ[1].kind = "CONNECTED"
       \/ publishQ[1].kind \in Requests

\* The request PUB answers is the script's, or the one before when that is answered
\* to the script's satisfaction and PUB has yet to finish.
Answering ==
  /\ pub # "loop" /\ client # "send" => buf.kind = step
  /\ pub # "loop" /\ client = "send" =>
       \/ buf.kind = "put" /\ step = "get"
       \/ buf.kind = "del_src" /\ step = "del_br"
  /\ pub \in {"get", "list", "del_src", "del_br"} => buf.kind = pub
  /\ pub = "read" => buf.kind = "get"
  /\ pub = "header" => ~waiting
  /\ pub \in {"header", "get", "list"} => client = "wait"
  /\ pub = "read" => client \in {"wait", "dead"}
  /\ client = "dead" => step = "get" /\ heard # <<>> /\ pub \in {"read", "tailer", "loop"}
  /\ client = "heard" /\ step \in {"get", "list"} => pub = "loop"
  /\ outbox # <<>> /\ (client \in {"send", "heard"} \/ pub = "loop") => outbox[1].kind = "tailer"
  /\ client = "wait" /\ step = "put" => heard = <<>>

\* The answer so far: what the script heard, and what is under way.
Told == heard \o outbox

Shape ==
  client # "send" =>
    /\ \A i \in DOMAIN Told :
         /\ Told[i].topic = TopicOf(step) /\ Told[i].file = FileOf(step)
         /\ Told[i].kind = "header" <=> i = 1
         /\ Told[i].kind = "tailer" => i = Len(Told) /\ pub = "loop"
    /\ pub = "header" => Told = <<>>
    /\ pub = "get" => Len(Told) = 1
    /\ pub \notin {"loop", "header"} => Told # <<>>

\* What has been acknowledged belongs to the steps the script has come through.
Past ==
  /\ Acked("put") =>
       step \in {"get", "del_src", "del_br"} \/ (step = "put" /\ client = "heard")
  /\ Acked("get") =>
       \/ step \in {"del_src", "del_br"}
       \/ step = "get" /\ client # "send" /\ heard # <<>> /\ heard[1].content = <<"ACK">>
  /\ Acked("del_src") => step = "del_br" \/ (step = "del_src" /\ client # "send")
  /\ Acked("del_br") => step = "del_br" /\ client # "send"

-----------------------------------------------------------------------------
\* ACK is on its way to the host, or there.
Promised(kind) ==
  \/ Acked(kind)
  \/ /\ outbox # <<>> /\ outbox[1].kind = "header" /\ outbox[1].content = <<"ACK">>
     /\ outbox[1].topic = TopicOf(kind) /\ outbox[1].file = FileOf(kind)

Accepted ==
  \/ Promised("put")
  \/ InPublish /\ publishQ[1] = Request("put", TRUE)
  \/ pub = "header" /\ buf = Request("put", TRUE)

Compressing == main \in {"compress", "compressing"}

\* The upload is compressed before the main task forwards the next request.
Compression ==
  /\ Compressing =>
       /\ flash["src"] = <<runs>>
       /\ \/ step = "put" /\ client # "send"
          \/ step = "get" /\ (client = "send" \/ InSubscribe)
  /\ Accepted /\ step \in {"put", "get"} =>
       Compressing \/ MainGone \/ flash["br"] = Compressed(runs)
  /\ client # "send" /\ subscribeQ = <<>> /\ step # "put" => main \in {"receive", "forward"}
  /\ InSubscribe /\ subscribeQ[1] = Request("put", TRUE) => flash["src"] = <<runs>>
  /\ main = "forward" /\ mainBuf = Request("put", TRUE) => flash["src"] = <<runs>>

\* The hash of a download: that of a beginning of the file, of the whole unless a read
\* failed.
Digest(d) ==
  /\ d \in Beginnings(Content("br"))
  /\ "flash" \notin faults => d = Content("br")

\* A download answered with ACK.
Download ==
  client # "send" /\ step = "get" =>
    /\ pub = "get" => position = 0 /\ context = <<>>
    /\ pub = "read" =>
         position <= Len(Content("br")) /\ context = SubSeq(Content("br"), 1, position)
    /\ Told # <<>> /\ Told[1].content = <<"ACK">> =>
         /\ pub = "tailer" => Digest(context)
         /\ Told[Len(Told)].kind = "tailer" => Digest(Told[Len(Told)].content)

\* A deletion promised is done, or about to be.
Deletion ==
  faults = {} =>
    \A k \in {"del_src", "del_br"} : Promised(k) => flash[FileOf(k)] = Absent \/ pub = k

Flow ==
  Single /\ Connected /\ Paced /\ Answering /\ Shape /\ Past /\ Compression /\ Download
    /\ Deletion

FlowInv == ~Interrupted => Flow

-----------------------------------------------------------------------------
(* Types.                                                                   *)

\* The requests, and the entries of the queues.
LEMMA EntryTypes ==
  /\ Requests = {"put", "get", "del_src", "del_br", "list"}
  /\ \A k \in Requests \cup Events, ok \in BOOLEAN :
       Request(k, ok) \in Entry /\ Request(k, ok).kind = k /\ Request(k, ok).ok = ok
  /\ \A k \in Events : Event(k) \in Entry /\ Event(k).kind = k
  /\ \A e \in Entry : e.kind \in Requests \cup Events /\ e.ok \in BOOLEAN
                        /\ e = Request(e.kind, e.ok)
<1>1. Requests = {"put", "get", "del_src", "del_br", "list"}
  <2>1. DOMAIN Script = 1..4
    BY DEF Script
  <2>2. {Script[i] : i \in DOMAIN Script} = {Script[1], Script[2], Script[3], Script[4]}
    <3>1. 1..4 = {1, 2, 3, 4}
      OBVIOUS
    <3> QED
      BY <2>1, <3>1
  <2> QED
    BY <2>2 DEF Requests, Script
<1>2. \A k \in Requests \cup Events, ok \in BOOLEAN :
       Request(k, ok) \in Entry /\ Request(k, ok).kind = k /\ Request(k, ok).ok = ok
  BY DEF Request, Entry
<1>3. \A k \in Events : Event(k) \in Entry /\ Event(k).kind = k
  BY DEF Event, Request, Entry
<1>4. \A e \in Entry : e.kind \in Requests \cup Events /\ e.ok \in BOOLEAN
                        /\ e = Request(e.kind, e.ok)
  BY DEF Request, Entry
<1> QED
  BY <1>1, <1>2, <1>3, <1>4

\* What a send to a queue that may be full does.
LEMMA PostedTypes ==
  ASSUME NEW q \in Seq(Entry), NEW e \in Entry, Len(q) <= QueueLen
  PROVE  /\ Posted(q, e) \in Seq(Entry) /\ Len(Posted(q, e)) <= QueueLen
         /\ \A i \in DOMAIN Posted(q, e) : (i \in DOMAIN q /\ Posted(q, e)[i] = q[i])
                                             \/ Posted(q, e)[i] = e
         /\ q = <<>> => Posted(q, e) = <<e>>
<1>1. Len(q) \in Nat /\ QueueLen \in Nat \ {0} /\ DOMAIN q = 1..Len(q)
  BY ConstantsAssumption
<1>2. CASE HasRoom(q)
  <2>1. Posted(q, e) = Append(q, e)
    BY <1>2 DEF Posted
  <2>2. /\ Append(q, e) \in Seq(Entry) /\ Len(Append(q, e)) = Len(q) + 1
        /\ DOMAIN Append(q, e) = 1..(Len(q) + 1)
        /\ \A i \in 1..(Len(q) + 1) : Append(q, e)[i] = IF i = Len(q) + 1 THEN e ELSE q[i]
    BY <1>1
  <2>3. q = <<>> => Append(q, e) = <<e>>
    OBVIOUS
  <2>4. \A i \in 1..(Len(q) + 1) : i # Len(q) + 1 => i \in DOMAIN q
    BY <1>1
  <2> QED
    BY <1>1, <1>2, <2>1, <2>2, <2>3, <2>4 DEF HasRoom
<1>3. CASE ~HasRoom(q)
  <2>1. Posted(q, e) = q /\ q # <<>>
    BY <1>1, <1>3 DEF Posted, HasRoom
  <2> QED
    BY <1>1, <2>1
<1> QED
  BY <1>2, <1>3

\* The topics and files of the answers.
LEMMA SubjectTypes ==
  /\ \A r \in Requests : /\ TopicOf(r) \in {"put", "get", "list", "delete"}
                         /\ FileOf(r) \in Files /\ <<TopicOf(r), FileOf(r)>> \in Subjects
  /\ TopicOf("put") = "put" /\ FileOf("put") = "src"
  /\ TopicOf("get") = "get" /\ FileOf("get") = "br"
  /\ TopicOf("list") = "list" /\ FileOf("list") = "src"
  /\ TopicOf("del_src") = "delete" /\ FileOf("del_src") = "src"
  /\ TopicOf("del_br") = "delete" /\ FileOf("del_br") = "br"
BY EntryTypes DEF TopicOf, FileOf, Subjects, Files

\* A message of an answer.
LEMMA AnswerTypes ==
  ASSUME NEW r \in Requests, NEW k \in {"header", "data", "tailer"}, NEW c \in Seq(Items)
  PROVE  /\ Message(TopicOf(r), FileOf(r), k, c) \in Answers
         /\ Message(TopicOf(r), FileOf(r), k, c).topic = TopicOf(r)
         /\ Message(TopicOf(r), FileOf(r), k, c).file = FileOf(r)
         /\ Message(TopicOf(r), FileOf(r), k, c).kind = k
         /\ Message(TopicOf(r), FileOf(r), k, c).content = c
<1>1. TopicOf(r) \in {"put", "get", "list", "delete"} /\ FileOf(r) \in Files
  BY SubjectTypes
<1> QED
  BY <1>1 DEF Message, Answers

\* The beginnings of a compressed file: the empty one, all of it, and those between.
LEMMA BeginningTypes ==
  ASSUME NEW v \in Nat
  PROVE  /\ Compressed(v) \in Seq(Items) /\ Len(Compressed(v)) = Blocks
         /\ <<>> \in Beginnings(Compressed(v)) /\ Compressed(v) \in Beginnings(Compressed(v))
         /\ \A b \in Beginnings(Compressed(v)) : b \in Seq(Items) /\ Len(b) \in 0..Blocks
<1>0. Blocks \in Nat \ {0}
  BY ConstantsAssumption
<1>1. \A i \in 1..Blocks : <<v, i>> \in Items
  BY <1>0 DEF Items
<1>2. Compressed(v) \in Seq(Items) /\ Len(Compressed(v)) = Blocks
  BY <1>0, <1>1 DEF Compressed
<1>3. PICK c \in Seq(Items) : c = Compressed(v) /\ Len(c) = Blocks
  BY <1>2
<1>4. ASSUME NEW n \in 0..Blocks PROVE SubSeq(c, 1, n) \in Seq(Items) /\ Len(SubSeq(c, 1, n)) = n
  BY <1>0, <1>3
<1>5. SubSeq(c, 1, 0) = <<>> /\ SubSeq(c, 1, Blocks) = c
  BY <1>0, <1>3
<1>6. <<>> \in Beginnings(c) /\ c \in Beginnings(c)
  BY <1>0, <1>3, <1>5 DEF Beginnings
<1>7. ASSUME NEW b \in Beginnings(c) PROVE b \in Seq(Items) /\ Len(b) \in 0..Blocks
  <2>1. PICK n \in 0..Blocks : b = SubSeq(c, 1, n)
    BY <1>3, <1>7 DEF Beginnings
  <2> QED
    BY <1>4, <2>1
<1> QED
  BY <1>2, <1>3, <1>6, <1>7

\* The files on flash: never longer than Blocks.
LEMMA FlashContent ==
  ASSUME FlashTypes, NEW f \in Files
  PROVE  /\ Content(f) \in Seq(Items) /\ Len(Content(f)) \in 0..Blocks
         /\ \A i \in 1..Len(Content(f)) : Content(f)[i] \in Items
<1>0. Blocks \in Nat \ {0}
  BY ConstantsAssumption
<1>1. ASSUME NEW c \in Uploads \cup Outputs
      PROVE  c \in Seq(Items) /\ Len(c) \in 0..Blocks
  <2>1. CASE c \in Uploads
    <3>1. PICK v \in Nat : c = <<v>>
      BY <2>1 DEF Uploads
    <3>2. v \in Items
      BY DEF Items
    <3>3. c \in Seq(Items) /\ Len(c) = 1
      BY <3>1, <3>2
    <3> QED
      BY <1>0, <3>3
  <2>2. CASE c \in Outputs
    <3>1. PICK v \in Nat : c \in Beginnings(Compressed(v))
      BY <2>2 DEF Outputs
    <3> QED
      BY <3>1, BeginningTypes
  <2> QED
    BY <2>1, <2>2
<1>2. Content(f) \in Uploads \cup Outputs
  <2>1. <<>> \in Outputs
    BY BeginningTypes DEF Outputs
  <2> QED
    BY <2>1 DEF FlashTypes, Content, Files
<1>3. Content(f) \in Seq(Items) /\ Len(Content(f)) \in 0..Blocks
  BY <1>1, <1>2
<1> QED
  BY <1>3

\* The types used in the proofs are those of the runs, and more.
LEMMA TypesImply == Types => TypeOK
<1> SUFFICES ASSUME Types PROVE TypeOK
  OBVIOUS
<1>1. ASSUME NEW i \in DOMAIN publishQ PROVE publishQ[i].kind \in Requests \cup Events
  <2>1. publishQ[i] \in Entry
    BY DEF Types, QueueTypes
  <2> QED
    BY <2>1 DEF Entry
<1> QED
  BY <1>1 DEF Types, QueueTypes, TaskTypes, NetTypes, HostTypes, FaultTypes, Subjects, TypeOK

\* What a message that arrives leaves with the script.
LEMMA HearTypes ==
  ASSUME Types, NEW m \in Answers, <<m.topic, m.file>> \in Subjects, Hear(m)
  PROVE  HostTypes'
<1>1. /\ heard' \in {Append(heard, m), heard}
      /\ acked' \in {acked, acked \cup {<<m.topic, m.file>>}}
      /\ client' \in {client, "heard", "dead"} /\ UNCHANGED <<step, runs, lists>>
  BY DEF Hear
<1>2. heard \in Seq(Answers) /\ Append(heard, m) \in Seq(Answers)
  BY DEF Types, HostTypes
<1>3. heard' \in Seq(Answers) /\ acked' \subseteq Subjects
  BY <1>1, <1>2 DEF Types, HostTypes
<1>4. client' \in {"send", "wait", "heard", "dead"}
  BY <1>1 DEF Types, HostTypes
<1> QED
  BY <1>1, <1>3, <1>4 DEF Types, HostTypes

\* What PUB publishes goes to the outbox, whole.
LEMMA PublishTypes ==
  ASSUME Types, pub \notin {"loop", "deleted"},
         NEW k \in {"header", "data", "tailer"}, NEW c \in Seq(Items), Publish(k, c)
  PROVE  /\ NetTypes' /\ ~waiting /\ waiting' = TRUE
         /\ outbox' = Append(outbox, Message(TopicOf(buf.kind), FileOf(buf.kind), k, c))
         /\ UNCHANGED <<queues, main, mainBuf, joined, online, host>>
<1>1. PICK m : m = Message(TopicOf(buf.kind), FileOf(buf.kind), k, c)
  OBVIOUS
<1>2. buf.kind \in Requests
  BY DEF Types, TaskTypes
<1>3. /\ m \in Answers /\ m.topic = TopicOf(buf.kind) /\ m.file = FileOf(buf.kind)
      /\ <<m.topic, m.file>> \in Subjects
  BY <1>1, <1>2, AnswerTypes, SubjectTypes
<1>4. /\ outbox' = Append(outbox, m) /\ ~waiting /\ waiting' = TRUE
      /\ UNCHANGED <<queues, main, mainBuf, joined, online, host>>
  BY <1>1 DEF Publish, Topic, File, mainVars
<1>5. outbox \in Seq(Answers) /\ DOMAIN outbox = 1..Len(outbox) /\ Len(outbox) \in Nat
  BY LenProperties DEF Types, NetTypes
<1>6. /\ Append(outbox, m) \in Seq(Answers)
      /\ DOMAIN Append(outbox, m) = 1..(Len(outbox) + 1)
      /\ \A i \in 1..(Len(outbox) + 1) :
           Append(outbox, m)[i] = IF i = Len(outbox) + 1 THEN m ELSE outbox[i]
  BY <1>3, <1>5
<1>7. \A i \in 1..(Len(outbox) + 1) : i # Len(outbox) + 1 => i \in DOMAIN outbox
  BY <1>5
<1>8. \A i \in DOMAIN outbox' : <<outbox'[i].topic, outbox'[i].file>> \in Subjects
  BY <1>3, <1>4, <1>6, <1>7 DEF Types, NetTypes
<1> QED
  BY <1>1, <1>4, <1>6, <1>8 DEF Types, NetTypes

\* The chip restarts.
LEMMA RebootTypes ==
  ASSUME Types, Reboot
  PROVE  Types'
<1>1. /\ subscribeQ' = <<>> /\ publishQ' = <<>> /\ outbox' = <<>> /\ online' = FALSE
      /\ joined' = TRUE /\ main' = "receive" /\ pub' = "loop" /\ waiting' = FALSE
      /\ UNCHANGED <<mainBuf, buf, position, context, entries, flash, step, client, heard,
                     acked, runs, lists>>
      /\ losses < MaxLosses /\ losses' = losses + 1 /\ faults' = faults \cup {"restart"}
  BY DEF Reboot, Interruption, locals, host
<1>2. /\ <<>> \in Seq(Entry) /\ <<>> \in Seq(Answers) /\ Len(<<>>) = 0 /\ DOMAIN <<>> = {}
      /\ QueueLen \in Nat /\ 0 <= QueueLen /\ MaxLosses \in Nat
  BY ConstantsAssumption
<1>3. QueueTypes'
  BY <1>1, <1>2 DEF QueueTypes
<1>4. TaskTypes'
  BY <1>1 DEF Types, TaskTypes
<1>5. NetTypes'
  BY <1>1, <1>2 DEF NetTypes
<1>6. FlashTypes' /\ HostTypes'
  BY <1>1 DEF Types, FlashTypes, HostTypes
<1>7. FaultTypes'
  BY <1>1, <1>2 DEF Types, FaultTypes, AllFaults
<1> QED
  BY <1>3, <1>4, <1>5, <1>6, <1>7 DEF Types

\* Everything is empty, and nothing is on flash.
LEMMA InitTypes == Init => Types
<1> SUFFICES ASSUME Init PROVE Types
  OBVIOUS
<1>1. /\ subscribeQ = <<>> /\ publishQ = <<>>
      /\ main = "receive" /\ mainBuf = Event("CONNECTED")
      /\ pub = "loop" /\ waiting = FALSE /\ buf = Event("CONNECTED")
      /\ position = 0 /\ context = <<>> /\ entries = {}
      /\ joined = TRUE /\ online = FALSE /\ outbox = <<>>
      /\ flash = [f \in Files |-> Absent]
      /\ step = "put" /\ client = "send" /\ heard = <<>> /\ acked = {}
      /\ runs = 1 /\ lists = 0 /\ faults = {} /\ losses = 0
  BY DEF Init
<1>2. /\ <<>> \in Seq(Entry) /\ <<>> \in Seq(Answers) /\ <<>> \in Seq(Items)
      /\ Len(<<>>) = 0 /\ DOMAIN <<>> = {} /\ QueueLen \in Nat /\ 0 <= QueueLen
      /\ MaxLosses \in Nat /\ MaxLists \in Nat /\ MaxRuns \in Nat \ {0} /\ Blocks \in Nat
  BY ConstantsAssumption
<1>3. QueueTypes
  BY <1>1, <1>2 DEF QueueTypes
<1>4. TaskTypes
  <2>1. Event("CONNECTED") \in Entry
    BY EntryTypes DEF Events
  <2>2. waiting \in BOOLEAN
    BY <1>1
  <2>3. position \in 0..Blocks
    BY <1>1, <1>2
  <2> QED
    BY <1>1, <1>2, <2>1, <2>2, <2>3 DEF TaskTypes
<1>5. NetTypes
  <2>1. joined \in BOOLEAN /\ online \in BOOLEAN
    BY <1>1
  <2> QED
    BY <1>1, <1>2, <2>1 DEF NetTypes
<1>6. FlashTypes
  BY <1>1 DEF FlashTypes, Files
<1>7. HostTypes
  BY <1>1, <1>2, EntryTypes DEF HostTypes
<1>8. FaultTypes
  BY <1>1, <1>2 DEF FaultTypes
<1> QED
  BY <1>3, <1>4, <1>5, <1>6, <1>7, <1>8 DEF Types

\* SUB posts a request.
LEMMA AskTypes ==
  ASSUME Types, NEW kind \in Requests, NEW ok \in BOOLEAN, Ask(kind, ok),
         step' \in Requests, lists' \in 0..MaxLists, faults' \subseteq AllFaults, losses' = losses
  PROVE  Types'
<1>1. /\ subscribeQ' = Posted(subscribeQ, Request(kind, ok))
      /\ flash' = IF kind # "put" THEN flash
                  ELSE [flash EXCEPT !["src"] = IF ok THEN <<runs>> ELSE <<0>>]
      /\ client' = "wait" /\ heard' = <<>>
      /\ UNCHANGED <<publishQ, main, mainBuf, pub, waiting, buf, position, context, entries,
                     joined, online, outbox, acked, runs>>
  BY DEF Ask, mainVars, locals, mqtt
<1>2. Request(kind, ok) \in Entry /\ Request(kind, ok).kind = kind
  BY EntryTypes
<1>3. QueueTypes'
  <2>1. subscribeQ \in Seq(Entry) /\ Len(subscribeQ) <= QueueLen
    BY DEF Types, QueueTypes
  <2>2. /\ subscribeQ' \in Seq(Entry) /\ Len(subscribeQ') <= QueueLen
        /\ \A i \in DOMAIN subscribeQ' :
             (i \in DOMAIN subscribeQ /\ subscribeQ'[i] = subscribeQ[i])
               \/ subscribeQ'[i] = Request(kind, ok)
    BY <1>1, <1>2, <2>1, PostedTypes
  <2> QED
    BY <1>1, <1>2, <2>2 DEF Types, QueueTypes
<1>4. TaskTypes'
  BY <1>1, <1>2 DEF Types, TaskTypes
<1>5. NetTypes'
  BY <1>1, <1>2 DEF Types, NetTypes
<1>6. FlashTypes'
  <2>1. <<runs>> \in Uploads /\ <<0>> \in Uploads
    BY DEF Types, HostTypes, Uploads
  <2> QED
    BY <1>1, <2>1 DEF Types, FlashTypes, Files
<1>7. HostTypes'
  <2>1. <<>> \in Seq(Answers)
    OBVIOUS
  <2> QED
    BY <1>1, <2>1 DEF Types, HostTypes
<1>8. FaultTypes'
  BY <1>1, <1>2 DEF Types, FaultTypes
<1> QED
  BY <1>3, <1>4, <1>5, <1>6, <1>7, <1>8 DEF Types

\* What the script does keeps the types.
LEMMA HostTypesKept ==
  ASSUME Types, Host
  PROVE  Types'
<1>0. step \in Requests /\ "put" \in Requests /\ "list" \in Requests /\ lists \in 0..MaxLists
      /\ MaxLists \in Nat /\ faults \subseteq AllFaults /\ runs \in 1..MaxRuns /\ MaxRuns \in Nat
  BY EntryTypes, ConstantsAssumption DEF Types, HostTypes, FaultTypes
<1>1. CASE AskNext
  <2>1. /\ Ask(step, TRUE) /\ TRUE \in BOOLEAN /\ step' \in Requests /\ lists' \in 0..MaxLists
        /\ faults' \subseteq AllFaults /\ losses' = losses
    BY <1>0, <1>1 DEF AskNext, history
  <2> QED
    BY <1>0, <2>1, AskTypes
<1>2. CASE UploadDamaged
  <2>1. /\ Ask("put", FALSE) /\ FALSE \in BOOLEAN /\ step' \in Requests /\ lists' \in 0..MaxLists
        /\ faults' \subseteq AllFaults /\ losses' = losses
    BY <1>0, <1>2 DEF UploadDamaged, Fault, AllFaults
  <2> QED
    BY <1>0, <2>1, AskTypes
<1>3. CASE AskList
  <2>1. /\ Ask("list", TRUE) /\ TRUE \in BOOLEAN /\ step' \in Requests
        /\ faults' \subseteq AllFaults /\ losses' = losses
    BY <1>0, <1>3 DEF AskList, history
  <2>2. lists' \in 0..MaxLists
    BY <1>0, <1>3 DEF AskList
  <2> QED
    BY <1>0, <2>1, <2>2, AskTypes
<1>4. CASE Answered \/ TimesOut \/ RunAgain
  <2>1. /\ step' \in {"put", NextStep(step)}
        /\ \/ runs < MaxRuns /\ runs' = runs + 1 /\ acked' = {}
           \/ UNCHANGED <<runs, acked>>
        /\ client' = "send"
        /\ UNCHANGED <<subscribeQ, publishQ, main, mainBuf, pub, waiting, buf, position, context,
                       entries, joined, online, outbox, flash, heard, lists, faults, losses>>
    BY <1>4 DEF Answered, TimesOut, RunAgain, GoOn, queues, mainVars, locals, mqtt, history
  <2>2. step' \in Requests
    BY <2>1, EntryTypes DEF NextStep
  <2>3. HostTypes'
    BY <1>0, <2>1, <2>2 DEF Types, HostTypes
  <2>4. QueueTypes' /\ TaskTypes' /\ NetTypes' /\ FlashTypes' /\ FaultTypes'
    BY <2>1 DEF Types, QueueTypes, TaskTypes, NetTypes, FlashTypes, FaultTypes
  <2> QED
    BY <2>3, <2>4 DEF Types
<1> QED
  BY <1>1, <1>2, <1>3, <1>4 DEF Host

\* An event is posted by the handler.
LEMMA HandlerTypes ==
  ASSUME Types, NEW k \in Events, Handler(k), UNCHANGED subscribeQ
  PROVE  QueueTypes'
<1>1. publishQ' = Posted(publishQ, Event(k)) /\ Event(k) \in Entry
  BY EntryTypes DEF Handler
<1>2. publishQ \in Seq(Entry) /\ Len(publishQ) <= QueueLen
  BY DEF Types, QueueTypes
<1>3. publishQ' \in Seq(Entry) /\ Len(publishQ') <= QueueLen
  BY <1>1, <1>2, PostedTypes
<1> QED
  BY <1>3 DEF Types, QueueTypes

\* The oldest message of the outbox, and those behind it.
LEMMA OutboxTypes ==
  ASSUME NetTypes, outbox # <<>>
  PROVE  /\ Head(outbox) = outbox[1] /\ outbox[1] \in Answers
         /\ <<outbox[1].topic, outbox[1].file>> \in Subjects
         /\ Tail(outbox) \in Seq(Answers) /\ Len(Tail(outbox)) = Len(outbox) - 1
         /\ \A i \in DOMAIN Tail(outbox) :
              <<Tail(outbox)[i].topic, Tail(outbox)[i].file>> \in Subjects
<1>1. outbox \in Seq(Answers) /\ Len(outbox) \in Nat \ {0} /\ DOMAIN outbox = 1..Len(outbox)
  BY DEF NetTypes
<1>2. /\ Tail(outbox) \in Seq(Answers) /\ Len(Tail(outbox)) = Len(outbox) - 1
      /\ DOMAIN Tail(outbox) = 1..(Len(outbox) - 1)
      /\ \A i \in 1..(Len(outbox) - 1) : Tail(outbox)[i] = outbox[i + 1]
  BY <1>1
<1>3. \A i \in 1..(Len(outbox) - 1) : i + 1 \in DOMAIN outbox
  BY <1>1
<1>4. 1 \in DOMAIN outbox /\ Head(outbox) = outbox[1] /\ outbox[1] \in Answers
  BY <1>1
<1> QED
  BY <1>2, <1>3, <1>4 DEF NetTypes

\* What the MQTT client does keeps the types.
LEMMA MqttTypesKept ==
  ASSUME Types, Mqtt
  PROVE  Types'
<1>0. "CONNECTED" \in Events /\ "DISCONNECTED" \in Events /\ "PUBLISHED" \in Events
  BY DEF Events
<1>1. CASE Connect \/ Unreachable
  <2>1. /\ online' \in BOOLEAN /\ joined' = joined
        /\ UNCHANGED <<subscribeQ, main, mainBuf, pub, waiting, buf, position, context, entries,
                       outbox, flash, step, client, heard, acked, runs, lists, faults, losses>>
    BY <1>1 DEF Connect, Unreachable, mainVars, locals, mqtt, host, history, Types, NetTypes
  <2>2. QueueTypes'
    BY <1>0, <1>1, HandlerTypes DEF Connect, Unreachable
  <2>3. TaskTypes' /\ NetTypes' /\ FlashTypes' /\ HostTypes' /\ FaultTypes'
    BY <2>1 DEF Types, TaskTypes, NetTypes, FlashTypes, HostTypes, FaultTypes
  <2> QED
    BY <2>2, <2>3 DEF Types
<1>2. CASE Puback
  <2>1. /\ outbox # <<>> /\ outbox' = Tail(outbox) /\ Hear(Head(outbox))
        /\ UNCHANGED <<subscribeQ, main, mainBuf, pub, waiting, buf, position, context, entries,
                       joined, online, flash, faults, losses>>
    BY <1>2 DEF Puback, mainVars, locals, history
  <2>2. QueueTypes'
    BY <1>0, <1>2, HandlerTypes DEF Puback
  <2>3. HostTypes' /\ NetTypes'
    <3>1. NetTypes
      BY DEF Types
    <3>2. HostTypes'
      BY <2>1, <3>1, OutboxTypes, HearTypes
    <3>3. NetTypes'
      BY <2>1, <3>1, OutboxTypes DEF NetTypes
    <3> QED
      BY <3>2, <3>3
  <2>4. TaskTypes' /\ FlashTypes' /\ FaultTypes'
    BY <2>1 DEF Types, TaskTypes, FlashTypes, FaultTypes
  <2> QED
    BY <2>2, <2>3, <2>4 DEF Types
<1>3. CASE Disconnect
  <2>1. /\ joined' \in BOOLEAN /\ online' = FALSE /\ losses < MaxLosses /\ losses' = losses + 1
        /\ faults' \in {faults \cup {"link"}, faults \cup {"network"}}
        /\ UNCHANGED <<subscribeQ, main, mainBuf, pub, waiting, buf, position, context, entries,
                       outbox, flash>>
    BY <1>3 DEF Disconnect, Interruption, mainVars, locals, Types, NetTypes
  <2>2. QueueTypes'
    BY <1>0, <1>3, HandlerTypes DEF Disconnect
  <2>3. HostTypes'
    <3>1. CASE UNCHANGED host
      BY <3>1 DEF host, Types, HostTypes
    <3>2. CASE outbox # <<>> /\ Hear(Head(outbox))
      <4>1. NetTypes
        BY DEF Types
      <4> QED
        BY <3>2, <4>1, OutboxTypes, HearTypes
    <3> QED
      BY <1>3, <3>1, <3>2 DEF Disconnect
  <2>4. FaultTypes'
    <3>1. MaxLosses \in Nat
      BY ConstantsAssumption
    <3> QED
      BY <2>1, <3>1 DEF Types, FaultTypes, AllFaults
  <2>5. TaskTypes' /\ NetTypes' /\ FlashTypes'
    BY <2>1 DEF Types, TaskTypes, NetTypes, FlashTypes
  <2> QED
    BY <2>2, <2>3, <2>4, <2>5 DEF Types
<1>4. CASE Expire
  <2>1. /\ outbox # <<>> /\ outbox' = Tail(outbox)
        /\ UNCHANGED <<subscribeQ, publishQ, main, mainBuf, pub, waiting, buf, position, context,
                       entries, joined, online, flash, step, client, heard, acked, runs, lists,
                       faults, losses>>
    BY <1>4 DEF Expire, queues, mainVars, locals, host, history
  <2>2. NetTypes'
    <3>1. NetTypes
      BY DEF Types
    <3> QED
      BY <2>1, <3>1, OutboxTypes DEF NetTypes
  <2>3. QueueTypes' /\ TaskTypes' /\ FlashTypes' /\ HostTypes' /\ FaultTypes'
    BY <2>1 DEF Types, QueueTypes, TaskTypes, FlashTypes, HostTypes, FaultTypes
  <2> QED
    BY <2>2, <2>3 DEF Types
<1> QED
  BY <1>1, <1>2, <1>3, <1>4 DEF Mqtt

\* What the main task does keeps the types.
LEMMA MainTypesKept ==
  ASSUME Types, Main
  PROVE  Types'
<1>0. /\ subscribeQ \in Seq(Entry) /\ Len(subscribeQ) \in Nat /\ Len(subscribeQ) <= QueueLen
      /\ DOMAIN subscribeQ = 1..Len(subscribeQ) /\ QueueLen \in Nat
      /\ publishQ \in Seq(Entry) /\ Len(publishQ) <= QueueLen
  BY ConstantsAssumption DEF Types, QueueTypes
<1>1. CASE MainReceive
  <2>1. /\ subscribeQ # <<>> /\ mainBuf' = Head(subscribeQ) /\ subscribeQ' = Tail(subscribeQ)
        /\ main' = "forward"
        /\ UNCHANGED <<publishQ, pub, waiting, buf, position, context, entries, joined, online,
                       outbox, flash, step, client, heard, acked, runs, lists, faults, losses>>
    BY <1>1 DEF MainReceive, locals, mqtt, host, history
  <2>2. /\ 1 \in DOMAIN subscribeQ /\ mainBuf' = subscribeQ[1] /\ mainBuf' \in Entry
        /\ subscribeQ' \in Seq(Entry) /\ Len(subscribeQ') <= QueueLen
        /\ DOMAIN subscribeQ' = 1..(Len(subscribeQ) - 1)
        /\ \A i \in 1..(Len(subscribeQ) - 1) : subscribeQ'[i] = subscribeQ[i + 1]
    BY <1>0, <2>1
  <2>3. \A i \in 1..(Len(subscribeQ) - 1) : i + 1 \in DOMAIN subscribeQ
    BY <1>0
  <2>4. QueueTypes'
    BY <1>0, <2>1, <2>2, <2>3 DEF Types, QueueTypes
  <2>5. TaskTypes'
    BY <2>1, <2>2 DEF Types, QueueTypes, TaskTypes
  <2>6. NetTypes' /\ FlashTypes' /\ HostTypes' /\ FaultTypes'
    BY <2>1 DEF Types, NetTypes, FlashTypes, HostTypes, FaultTypes
  <2> QED
    BY <2>4, <2>5, <2>6 DEF Types
<1>2. CASE Forward
  <2>1. /\ publishQ' = Posted(publishQ, mainBuf) /\ main' \in {"compress", "receive"}
        /\ UNCHANGED <<subscribeQ, mainBuf, pub, waiting, buf, position, context, entries, joined,
                       online, outbox, flash, step, client, heard, acked, runs, lists, faults, losses>>
    BY <1>2 DEF Forward, locals, mqtt, host, history
  <2>2. publishQ' \in Seq(Entry) /\ Len(publishQ') <= QueueLen
    BY <1>0, <2>1, PostedTypes DEF Types, TaskTypes
  <2>3. QueueTypes' /\ TaskTypes'
    BY <2>1, <2>2 DEF Types, QueueTypes, TaskTypes
  <2>4. NetTypes' /\ FlashTypes' /\ HostTypes' /\ FaultTypes'
    BY <2>1 DEF Types, NetTypes, FlashTypes, HostTypes, FaultTypes
  <2> QED
    BY <2>3, <2>4 DEF Types
<1>3. CASE CompressStarts \/ CompressEnds
  <2>1. /\ main' \in {"receive", "compressing", "deleted", "stuck"}
        /\ faults' \in {faults} \cup {faults \cup {f} : f \in Faults} /\ losses' = losses
        /\ UNCHANGED <<subscribeQ, publishQ, mainBuf, pub, waiting, buf, position, context, entries,
                       joined, online, outbox, step, client, heard, acked, runs, lists>>
    BY <1>3 DEF CompressStarts, CompressEnds, Succeeds, Fails, LoopsAgain, Fault, queues, locals, mqtt, host, history
  <2>2. FlashTypes'
    <3>1. \/ flash' = flash
          \/ flash' = [flash EXCEPT !["br"] = Absent]
          \/ /\ flash["src"] # Absent
             /\ \/ flash' = [flash EXCEPT !["br"] = <<>>]
                \/ \E c \in {Compressed(flash["src"][1])} \cup Beginnings(Compressed(flash["src"][1])) :
                     flash' = [flash EXCEPT !["br"] = c]
      BY <1>3 DEF CompressStarts, CompressEnds, Succeeds, Fails
    <3>2. ASSUME flash["src"] # Absent
          PROVE  /\ <<>> \in Outputs /\ Compressed(flash["src"][1]) \in Outputs
                 /\ Beginnings(Compressed(flash["src"][1])) \subseteq Outputs
      <4>1. PICK v \in Nat : flash["src"] = <<v>>
        BY <3>2 DEF Types, FlashTypes, Uploads
      <4>2. flash["src"][1] = v
        BY <4>1
      <4> QED
        BY <4>2, BeginningTypes DEF Outputs
    <3>4. PICK c \in Outputs \cup {Absent} : flash' = flash \/ flash' = [flash EXCEPT !["br"] = c]
      BY <3>1, <3>2
    <3> QED
      BY <3>4 DEF Types, FlashTypes, Files
  <2>3. QueueTypes' /\ TaskTypes' /\ NetTypes' /\ HostTypes'
    BY <2>1 DEF Types, QueueTypes, TaskTypes, NetTypes, HostTypes
  <2>4. FaultTypes'
    BY <2>1, ConstantsAssumption DEF Types, FaultTypes
  <2> QED
    BY <2>2, <2>3, <2>4 DEF Types
<1> QED
  BY <1>1, <1>2, <1>3 DEF Main

\* What PUB does keeps the types.
LEMMA PubTypesKept ==
  ASSUME Types, Pub
  PROVE  Types'
<1>0. /\ publishQ \in Seq(Entry) /\ Len(publishQ) \in Nat /\ Len(publishQ) <= QueueLen
      /\ QueueLen \in Nat /\ <<>> \in Seq(Entry) /\ Len(<<>>) = 0 /\ <<>> \in Seq(Items)
      /\ context \in Seq(Items) /\ Blocks \in Nat /\ position \in 0..Blocks
  BY ConstantsAssumption DEF Types, QueueTypes, TaskTypes
<1>1. CASE Take
  <2>1. /\ publishQ # <<>> /\ publishQ' = Tail(publishQ)
        /\ \/ Head(publishQ).kind \in Requests /\ buf' = Head(publishQ) /\ pub' = "header"
           \/ pub' \in {"loop", "deleted"} /\ buf' = buf
        /\ online' \in BOOLEAN
        /\ UNCHANGED <<subscribeQ, main, mainBuf, waiting, position, context, entries, joined,
                       outbox, flash, step, client, heard, acked, runs, lists, faults, losses>>
    BY <1>1 DEF Take, mainVars, host, history, Types, NetTypes
  <2>2. Head(publishQ) \in Entry /\ Tail(publishQ) \in Seq(Entry) /\ Len(Tail(publishQ)) <= QueueLen
    BY <1>0, <2>1
  <2>3. QueueTypes' /\ TaskTypes'
    BY <2>1, <2>2 DEF Types, QueueTypes, TaskTypes
  <2>4. NetTypes' /\ FlashTypes' /\ HostTypes' /\ FaultTypes'
    BY <2>1 DEF Types, NetTypes, FlashTypes, HostTypes, FaultTypes
  <2> QED
    BY <2>3, <2>4 DEF Types
<1>2. CASE WaitFor
  <2>1. /\ publishQ # <<>> /\ publishQ' = Tail(publishQ) /\ waiting' = FALSE
        /\ UNCHANGED <<subscribeQ, main, mainBuf, pub, buf, position, context, entries, joined, online,
                       outbox, flash, step, client, heard, acked, runs, lists, faults, losses>>
    BY <1>2 DEF WaitFor, Wakes, mainVars, locals, mqtt, host, history
  <2>2. Tail(publishQ) \in Seq(Entry) /\ Len(Tail(publishQ)) <= QueueLen
    BY <1>0, <2>1
  <2>3. QueueTypes' /\ TaskTypes'
    BY <2>1, <2>2 DEF Types, QueueTypes, TaskTypes
  <2>4. NetTypes' /\ FlashTypes' /\ HostTypes' /\ FaultTypes'
    BY <2>1 DEF Types, NetTypes, FlashTypes, HostTypes, FaultTypes
  <2> QED
    BY <2>3, <2>4 DEF Types
<1>3. CASE SendHeader
  <2>1. PICK c \in {<<"ACK">>, <<"NAK">>} : Publish("header", c)
    BY <1>3 DEF SendHeader
  <2>2. c \in Seq(Items)
    <3>1. "ACK" \in Items /\ "NAK" \in Items
      BY DEF Items
    <3>2. <<"ACK">> \in Seq(Items) /\ <<"NAK">> \in Seq(Items)
      BY <3>1
    <3> QED
      BY <2>1, <3>2
  <2>3. /\ NetTypes' /\ waiting' = TRUE
        /\ UNCHANGED <<subscribeQ, publishQ, main, mainBuf, step, client, heard, acked, runs, lists>>
    BY <1>3, <2>1, <2>2, PublishTypes DEF SendHeader, queues, host
  <2>4. /\ buf.kind \in Requests
        /\ buf.kind \in {"put", "get", "del_src", "del_br", "list"}
    BY <1>3, EntryTypes DEF SendHeader, Types, TaskTypes
  <2>5. /\ pub' \in {"tailer", "get", "del_src", "del_br", "list"}
        /\ context' = <<>> /\ position' = 0 /\ entries' = Files
        /\ UNCHANGED <<buf, flash>> /\ losses' = losses
        /\ faults' \in {faults, faults \cup {"flash"}}
    BY <1>3, <2>4 DEF SendHeader, Fault, history
  <2>6. TaskTypes'
    BY <1>0, <2>3, <2>4, <2>5 DEF Types, TaskTypes
  <2>7. QueueTypes' /\ FlashTypes' /\ HostTypes' /\ FaultTypes'
    BY <2>3, <2>5 DEF Types, QueueTypes, FlashTypes, HostTypes, FaultTypes, AllFaults
  <2> QED
    BY <2>3, <2>6, <2>7 DEF Types
<1>4. CASE Open \/ EndOfFile \/ EndOfList
  <2>1. /\ pub \notin {"loop", "deleted"} /\ pub' \in {"read", "tailer"}
        /\ UNCHANGED <<subscribeQ, publishQ, main, mainBuf, waiting, buf, position, context, entries,
                       joined, online, outbox, flash, step, client, heard, acked, runs, lists,
                       losses>>
        /\ faults' \in {faults, faults \cup {"flash"}}
    BY <1>4 DEF Open, EndOfFile, EndOfList, Fault, queues, mainVars, locals, mqtt, host, history
  <2>2. TaskTypes'
    BY <2>1 DEF Types, TaskTypes
  <2>3. QueueTypes' /\ NetTypes' /\ FlashTypes' /\ HostTypes' /\ FaultTypes'
    BY <2>1 DEF Types, QueueTypes, NetTypes, FlashTypes, HostTypes, FaultTypes, AllFaults
  <2> QED
    BY <2>2, <2>3 DEF Types
<1>5. CASE Panic
  BY <1>5, RebootTypes DEF Panic
<1>6. CASE SendBlock
  <2>1. PICK b : b = Content(File)[position + 1]
    OBVIOUS
  <2>2. /\ pub = "read" /\ position < Len(Content(File)) /\ Publish("data", <<b>>)
        /\ context' = Append(context, b) /\ position' = position + 1
        /\ UNCHANGED <<pub, buf, entries, flash, faults, losses>>
    BY <1>6, <2>1 DEF SendBlock, history
  <2>3. File \in Files
    BY <2>2, SubjectTypes DEF File, Types, TaskTypes
  <2>4. b \in Items /\ Len(Content(File)) \in 0..Blocks
    <3>1. /\ Len(Content(File)) \in 0..Blocks
          /\ \A i \in 1..Len(Content(File)) : Content(File)[i] \in Items
      BY <2>3, FlashContent DEF Types
    <3>2. position + 1 \in 1..Len(Content(File))
      BY <1>0, <2>2, <3>1
    <3> QED
      BY <2>1, <3>1, <3>2
  <2>5. <<b>> \in Seq(Items) /\ context' \in Seq(Items) /\ position' \in 0..Blocks
    BY <1>0, <2>2, <2>4
  <2>6. /\ NetTypes' /\ waiting' = TRUE
        /\ UNCHANGED <<subscribeQ, publishQ, main, mainBuf, step, client, heard, acked, runs, lists>>
    BY <2>2, <2>5, PublishTypes DEF queues, host
  <2>7. TaskTypes'
    BY <2>2, <2>5, <2>6 DEF Types, TaskTypes
  <2>8. QueueTypes' /\ FlashTypes' /\ HostTypes' /\ FaultTypes'
    BY <2>2, <2>6 DEF Types, QueueTypes, FlashTypes, HostTypes, FaultTypes
  <2> QED
    BY <2>6, <2>7, <2>8 DEF Types
<1>7. CASE SendEntry
  <2>1. PICK f \in entries : Publish("data", <<f>>) /\ entries' = entries \ {f}
    BY <1>7 DEF SendEntry
  <2>2. /\ pub = "list" /\ UNCHANGED <<pub, buf, position, context, flash, faults, losses>>
    BY <1>7 DEF SendEntry, history
  <2>3. f \in Items
    BY DEF Types, TaskTypes, Items
  <2>4. <<f>> \in Seq(Items)
    BY <2>3
  <2>5. /\ NetTypes' /\ waiting' = TRUE
        /\ UNCHANGED <<subscribeQ, publishQ, main, mainBuf, step, client, heard, acked, runs, lists>>
    BY <2>1, <2>2, <2>4, PublishTypes DEF queues, host
  <2>6. TaskTypes'
    BY <2>1, <2>2, <2>5 DEF Types, TaskTypes
  <2>7. QueueTypes' /\ FlashTypes' /\ HostTypes' /\ FaultTypes'
    BY <2>2, <2>5 DEF Types, QueueTypes, FlashTypes, HostTypes, FaultTypes
  <2> QED
    BY <2>5, <2>6, <2>7 DEF Types
<1>8. CASE Delete
  <2>1. /\ pub \notin {"loop", "deleted"} /\ pub' = "tailer"
        /\ flash' = [flash EXCEPT ![File] = Absent] \/ flash' = flash
        /\ faults' \in {faults, faults \cup {"flash"}} /\ losses' = losses
        /\ UNCHANGED <<subscribeQ, publishQ, main, mainBuf, waiting, buf, position, context, entries,
                       joined, online, outbox, step, client, heard, acked, runs, lists>>
    BY <1>8 DEF Delete, ToUnlink, Fault, queues, mainVars, locals, mqtt, host, history
  <2>2. TaskTypes'
    BY <2>1 DEF Types, TaskTypes
  <2>3. FlashTypes'
    BY <2>1 DEF Types, FlashTypes, Files
  <2>4. QueueTypes' /\ NetTypes' /\ HostTypes' /\ FaultTypes'
    BY <2>1 DEF Types, QueueTypes, NetTypes, HostTypes, FaultTypes, AllFaults
  <2> QED
    BY <2>2, <2>3, <2>4 DEF Types
<1>9. CASE SendTailer
  <2>1. /\ pub = "tailer" /\ Publish("tailer", context) /\ pub' = "loop"
        /\ UNCHANGED <<buf, position, context, entries, flash, faults, losses>>
    BY <1>9 DEF SendTailer, locals, history
  <2>2. /\ NetTypes' /\ waiting' = TRUE
        /\ UNCHANGED <<subscribeQ, publishQ, main, mainBuf, step, client, heard, acked, runs, lists>>
    BY <1>0, <2>1, PublishTypes DEF queues, host
  <2>3. TaskTypes'
    BY <2>1, <2>2 DEF Types, TaskTypes
  <2>4. QueueTypes' /\ FlashTypes' /\ HostTypes' /\ FaultTypes'
    BY <2>1, <2>2 DEF Types, QueueTypes, FlashTypes, HostTypes, FaultTypes
  <2> QED
    BY <2>2, <2>3, <2>4 DEF Types
<1> QED
  BY <1>1, <1>2, <1>3, <1>4, <1>5, <1>6, <1>7, <1>8, <1>9 DEF Pub

\* No step leaves the types.
LEMMA StepTypes == Types /\ [Next]_vars => Types'
<1> SUFFICES ASSUME Types, [Next]_vars PROVE Types'
  OBVIOUS
<1>1. CASE UNCHANGED vars
  <2>1. UNCHANGED <<subscribeQ, publishQ, main, mainBuf, pub, waiting, buf, position, context, entries,
                    joined, online, outbox, flash, step, client, heard, acked, runs, lists,
                    faults, losses>>
    BY <1>1 DEF vars, queues, mainVars, locals, mqtt, host, history
  <2> QED
    BY <2>1 DEF Types, QueueTypes, TaskTypes, NetTypes, FlashTypes, HostTypes, FaultTypes
<1>2. CASE Host
  BY <1>2, HostTypesKept
<1>3. CASE Mqtt
  BY <1>3, MqttTypesKept
<1>4. CASE PowerLoss
  BY <1>4, RebootTypes DEF PowerLoss
<1>5. CASE Main
  BY <1>5, MainTypesKept
<1>6. CASE Pub
  BY <1>6, PubTypesKept
<1> QED
  BY <1>1, <1>2, <1>3, <1>4, <1>5, <1>6 DEF Next

\* Whatever is lost, late or restarted: xQueueSubscribe and xQueuePublish stay within
\* their lengths and hold requests, or events among them; the main task and PUB keep
\* to the control points of main.c and mqtt_pub.c; a download never reads beyond its
\* file, and an answer is always about a file that a request can name.
THEOREM TypesKept == Spec => []Types
BY InitTypes, StepTypes, PTL DEF Spec

\* The type invariant of the runs: the queues within their lengths, the tasks at
\* control points of main.c and mqtt_pub.c.
THEOREM TypeCorrect == Spec => []TypeOK
BY TypesKept, TypesImply, PTL

-----------------------------------------------------------------------------
(* One request at a time.                                                   *)

\* A queue with one entry more.
LEMMA AppendFacts ==
  ASSUME NEW S, NEW s \in Seq(S), NEW m \in S
  PROVE  /\ Append(s, m) \in Seq(S) /\ Append(s, m) # <<>> /\ Len(s) \in Nat
         /\ Len(Append(s, m)) = Len(s) + 1 /\ Append(s, m)[Len(s) + 1] = m
         /\ DOMAIN Append(s, m) = 1..(Len(s) + 1)
         /\ \A i \in 1..(Len(s) + 1) : i # Len(s) + 1 =>
              i \in DOMAIN s /\ Append(s, m)[i] = s[i]
         /\ s # <<>> => Append(s, m)[1] = s[1]
         /\ s = <<>> <=> Len(s) = 0
OBVIOUS

\* The answer so far, while at most one message is under way.
LEMMA ToldFacts ==
  ASSUME Types, Len(outbox) \in 0..1
  PROVE  /\ heard \in Seq(Answers) /\ outbox \in Seq(Answers) /\ Told \in Seq(Answers)
         /\ outbox = <<>> => Told = heard
         /\ outbox # <<>> => /\ outbox[1] \in Answers /\ outbox = <<outbox[1]>>
                             /\ Head(outbox) = outbox[1] /\ Tail(outbox) = <<>>
                             /\ Told = Append(heard, outbox[1])
<1>1. heard \in Seq(Answers) /\ outbox \in Seq(Answers)
  BY DEF Types, HostTypes, NetTypes
<1>2. outbox = <<>> => Told = heard
  BY <1>1 DEF Told
<1>3. ASSUME outbox # <<>>
      PROVE  /\ outbox[1] \in Answers /\ outbox = <<outbox[1]>>
             /\ Head(outbox) = outbox[1] /\ Tail(outbox) = <<>>
  <2>1. Len(outbox) = 1
    BY <1>1, <1>3
  <2>2. outbox[1] \in Answers /\ Head(outbox) = outbox[1]
    BY <1>1, <1>3, <2>1
  <2>3. Tail(outbox) = <<>>
    <3>1. Tail(outbox) \in Seq(Answers) /\ Len(Tail(outbox)) = 0
      BY <1>1, <1>3, <2>1
    <3>2. \A t \in Seq(Answers) : Len(t) = 0 => t = <<>>
      OBVIOUS
    <3> QED
      BY <3>1, <3>2
  <2>4. outbox = <<outbox[1]>>
    BY <1>1, <2>1
  <2> QED
    BY <2>2, <2>3, <2>4
<1>4. ASSUME outbox # <<>>
      PROVE  Told = Append(heard, outbox[1])
  <2>1. PICK m : m = outbox[1]
    OBVIOUS
  <2>2. m \in Answers /\ outbox = <<m>>
    BY <1>3, <1>4, <2>1
  <2>3. heard \o <<m>> = Append(heard, m)
    BY <1>1, <2>2
  <2> QED
    BY <2>1, <2>2, <2>3 DEF Told
<1>5. Told \in Seq(Answers)
  <2>1. CASE outbox = <<>>
    BY <1>1, <1>2, <2>1
  <2>2. CASE outbox # <<>>
    BY <1>1, <1>3, <1>4, <2>2
  <2> QED
    BY <2>1, <2>2
<1> QED
  BY <1>1, <1>2, <1>3, <1>4, <1>5

\* What the host is waiting for is the topic of its step.
LEMMA SubscribedToStep == step \in Requests => TopicOf(step) \in Subscribed
BY EntryTypes, SubjectTypes DEF Subscribed

\* Nothing is promised before its step.
LEMMA NotYetDeleted ==
  ASSUME Types, Flow, step \in {"put", "get"}
  PROVE  ~Promised("del_src") /\ ~Promised("del_br")
<1>1. ~Acked("del_src") /\ ~Acked("del_br")
  BY DEF Flow, Past
<1>2. ASSUME outbox # <<>>, outbox[1].kind = "header"
      PROVE  outbox[1].topic # "delete"
  <2>1. client # "send"
    BY <1>2 DEF Flow, Answering
  <2>2. Told = Append(heard, outbox[1]) /\ heard \in Seq(Answers) /\ outbox[1] \in Answers
    BY <1>2, ToldFacts DEF Flow, Single
  <2>3. Len(heard) + 1 \in DOMAIN Told /\ Told[Len(heard) + 1] = outbox[1]
    BY <2>2, AppendFacts
  <2>4. outbox[1].topic = TopicOf(step)
    BY <2>1, <2>3 DEF Flow, Shape
  <2> QED
    BY <2>4, SubjectTypes
<1> QED
  BY <1>1, <1>2, SubjectTypes DEF Promised

\* Nothing is under way at first.
LEMMA InitFlow == Init => FlowInv
<1> SUFFICES ASSUME Init PROVE Flow
  BY DEF FlowInv
<1>1. /\ subscribeQ = <<>> /\ publishQ = <<>> /\ main = "receive"
      /\ pub = "loop" /\ waiting = FALSE /\ joined = TRUE /\ online = FALSE /\ outbox = <<>>
      /\ step = "put" /\ client = "send" /\ heard = <<>> /\ acked = {}
  BY DEF Init
<1>2. Len(<<>>) = 0
  OBVIOUS
<1>3. Single
  BY <1>1, <1>2 DEF Single, InSubscribe, InPublish, PubIdle
<1>4. Connected /\ Paced /\ Answering /\ Shape
  BY <1>1 DEF Connected, Paced, Answering, Shape
<1>5. Past /\ Compression /\ Download /\ Deletion
  BY <1>1 DEF Past, Acked, Compression, Compressing, InSubscribe, InPublish, Accepted, Promised,
              Download, Deletion
<1> QED
  BY <1>3, <1>4, <1>5 DEF Flow

\* The next request is posted when nothing else is under way.
LEMMA AskFlow ==
  ASSUME Types, Flow, ~Interrupted, Punctual, NEW kind \in Requests, NEW ok \in BOOLEAN, Ask(kind, ok),
         (step' = step /\ kind = step) \/ (step = "put" /\ step' = "list" /\ kind = "list"),
         faults \subseteq faults'
  PROVE  Flow'
<1>1. /\ client = "send" /\ subscribeQ' = Posted(subscribeQ, Request(kind, ok))
      /\ flash' = IF kind # "put" THEN flash
                  ELSE [flash EXCEPT !["src"] = IF ok THEN <<runs>> ELSE <<0>>]
      /\ client' = "wait" /\ heard' = <<>> /\ Timely
      /\ UNCHANGED <<publishQ, main, mainBuf, pub, waiting, buf, position, context, entries,
                     joined, online, outbox, acked, runs>>
  BY DEF Ask, mainVars, locals, mqtt
<1>2. /\ pub = "loop" /\ ~waiting /\ publishQ = <<>> /\ outbox = <<>> /\ subscribeQ = <<>>
      /\ main # "forward" /\ online /\ joined
      /\ PubIdle /\ PubIdle'
  <2>1. /\ pub # "deleted" /\ (~online => main = "receive") /\ joined
    BY DEF Flow, Connected
  <2>2. /\ PubIdle /\ subscribeQ = <<>> /\ main # "forward" /\ online
    BY <1>1, <2>1 DEF Timely, Silent, MainGone
  <2> QED
    BY <1>1, <2>1, <2>2 DEF PubIdle
<1>3. /\ Request(kind, ok).kind = kind /\ subscribeQ' = <<Request(kind, ok)>>
      /\ subscribeQ' # <<>> /\ subscribeQ'[1] = Request(kind, ok) /\ Len(subscribeQ') = 1
      /\ step' = kind
      /\ Request(kind, ok) = Request("put", TRUE) => kind = "put" /\ ok = TRUE
  <2>1. subscribeQ' = <<Request(kind, ok)>>
    <3>1. Request(kind, ok) \in Entry
      BY EntryTypes
    <3> QED
      BY <1>1, <1>2, <3>1, PostedTypes DEF Types, QueueTypes
  <2>2. Request(kind, ok) = Request("put", TRUE) => kind = "put" /\ ok = TRUE
    BY DEF Request
  <2> QED
    BY <2>1, <2>2, EntryTypes
<1>4. Told' = <<>> /\ Len(<<>>) = 0 /\ DOMAIN <<>> = {}
  <2>1. <<>> \o <<>> = <<>>
    OBVIOUS
  <2> QED
    BY <1>1, <1>2, <2>1 DEF Told
<1>5. /\ DOMAIN flash = {"src", "br"} /\ flash'["br"] = flash["br"]
      /\ kind # "put" => flash'["src"] = flash["src"]
      /\ kind = "put" /\ ok = TRUE => flash'["src"] = <<runs>>
  BY <1>1 DEF Types, FlashTypes, Files
<1>6. /\ Acked("put") => step \in {"get", "del_src", "del_br"}
      /\ Acked("get") => step \in {"del_src", "del_br"}
      /\ Acked("del_src") => step = "del_br"
      /\ ~Acked("del_br")
      /\ \A k : Acked(k)' <=> Acked(k)
  BY <1>1 DEF Flow, Past, Acked
<1>7. Single'
  BY <1>1, <1>2, <1>3, <1>4, <1>5, <1>6 DEF Flow, Single, InSubscribe, InPublish, PubIdle
<1>8. Connected'
  BY <1>1, <1>2, <1>3, <1>4, <1>5, <1>6 DEF Flow, Connected
<1>9. Paced'
  BY <1>1, <1>2, <1>3, <1>4, <1>5, <1>6 DEF Flow, Paced
<1>10. Answering'
  BY <1>1, <1>2, <1>3, <1>4, <1>5, <1>6 DEF Flow, Answering
<1>11. Shape'
  BY <1>1, <1>2, <1>3, <1>4, <1>5, <1>6 DEF Flow, Shape
<1>12. Past'
  BY <1>1, <1>2, <1>3, <1>4, <1>5, <1>6 DEF Flow, Past, Acked
<1>13. Compression'
  BY <1>1, <1>2, <1>3, <1>4, <1>5, <1>6 DEF Flow, Compression, Compressing, MainGone, InSubscribe, InPublish, Accepted, Promised, Acked
<1>14. Download'
  BY <1>1, <1>2, <1>3, <1>4, <1>5, <1>6 DEF Flow, Download, Digest, Content
<1>15. Deletion'
  BY <1>1, <1>2, <1>3, <1>4, <1>5, <1>6 DEF Flow, Deletion, Promised, Acked
<1> QED
  BY <1>7, <1>8, <1>9, <1>10, <1>11, <1>12, <1>13, <1>14, <1>15 DEF Flow

\* The script goes on when it has heard enough, with the rest of the answer still to come.
LEMMA GoOnFlow ==
  ASSUME Types, Flow, ~Interrupted, Punctual, Answered \/ TimesOut \/ RunAgain
  PROVE  Flow'
<1>1. /\ client \in {"heard", "wait", "dead"} /\ client' = "send"
      /\ step' = IF client = "dead" THEN "put" ELSE NextStep(step)
      /\ step = "del_br" \/ client = "dead" => PubIdle /\ acked' = {} /\ runs' = runs + 1
      /\ step # "del_br" /\ client # "dead" => UNCHANGED <<runs, acked>>
      /\ UNCHANGED <<subscribeQ, publishQ, main, mainBuf, pub, waiting, buf, position, context,
                     entries, joined, online, outbox, flash, heard, faults>>
      /\ client = "wait" => Silent
  <2>1. pub # "deleted"
    BY DEF Flow, Connected
  <2> QED
    BY <2>1 DEF Answered, TimesOut, RunAgain, GoOn, Silent, queues, mainVars, locals, mqtt, history
<1>2. client \in {"heard", "dead"}
  <2>1. pub # "deleted"
    BY DEF Flow, Connected
  <2>2. client = "wait" /\ Silent => FALSE
    BY <2>1 DEF Flow, Single, Silent, MainGone, InSubscribe, InPublish, PubIdle
  <2> QED
    BY <1>1, <2>2
<1>3. subscribeQ = <<>> /\ main # "forward" /\ ~InPublish /\ pub \notin {"header", "get", "read", "list"}
  <2>1. client = "dead" => pub = "loop"
    BY <1>1 DEF PubIdle
  <2> QED
    BY <1>2, <2>1 DEF Flow, Single, Answering, InSubscribe
<1>4. /\ client = "dead" => step' = "put" /\ step = "get"
      /\ client # "dead" =>
           /\ step = "put" => step' = "get"
           /\ step = "get" => step' = "del_src"
           /\ step = "del_src" => step' = "del_br"
           /\ step = "del_br" => step' = "put"
           /\ step = "list" => step' = "put"
      /\ step \in {"put", "get", "del_src", "del_br", "list"}
  BY <1>1, EntryTypes DEF NextStep, Types, HostTypes, Flow, Answering
<1>5. outbox # <<>> => outbox[1].kind = "tailer"
  BY <1>1, <1>2 DEF Flow, Answering, PubIdle
<1>6. /\ ~InSubscribe /\ ~InSubscribe' /\ ~InPublish'
      /\ PubIdle => outbox = <<>> /\ pub = "loop"
      /\ PubIdle' <=> PubIdle
  BY <1>1, <1>3 DEF InSubscribe, InPublish, PubIdle
<1>7. /\ \A k : Promised(k) <=> Acked(k)
      /\ \A k : Promised(k)' <=> Acked(k)'
      /\ \A k : Acked(k)' => Acked(k) /\ step # "del_br" /\ client # "dead"
  BY <1>1, <1>5 DEF Promised, Acked
<1>8. /\ Acked("put") => step \in {"get", "del_src", "del_br", "put"}
      /\ Acked("get") => step \in {"del_src", "del_br", "get"}
      /\ Acked("del_src") => step \in {"del_src", "del_br"}
      /\ Acked("del_br") => step = "del_br"
  BY DEF Flow, Past
<1>9. Single'
  BY <1>1, <1>2, <1>3, <1>4, <1>5, <1>6, <1>7, <1>8 DEF Flow, Single, InSubscribe, InPublish, PubIdle
<1>10. Connected'
  BY <1>1, <1>2, <1>3, <1>4, <1>5, <1>6, <1>7, <1>8 DEF Flow, Connected
<1>11. Paced'
  BY <1>1, <1>2, <1>3, <1>4, <1>5, <1>6, <1>7, <1>8 DEF Flow, Paced
<1>12. Answering'
  BY <1>1, <1>2, <1>3, <1>4, <1>5, <1>6, <1>7, <1>8 DEF Flow, Answering
<1>13. Shape'
  BY <1>1, <1>2, <1>3, <1>4, <1>5, <1>6, <1>7, <1>8 DEF Flow, Shape
<1>14. Past'
  BY <1>1, <1>2, <1>3, <1>4, <1>5, <1>6, <1>7, <1>8 DEF Flow, Past, Acked
<1>15. Compression'
  BY <1>1, <1>2, <1>3, <1>4, <1>5, <1>6, <1>7, <1>8 DEF Flow, Compression, Compressing, MainGone, InSubscribe, InPublish, Accepted, Promised, Acked
<1>16. Download'
  BY <1>1, <1>2, <1>3, <1>4, <1>5, <1>6, <1>7, <1>8 DEF Flow, Download, Digest, Content
<1>17. Deletion'
  BY <1>1, <1>2, <1>3, <1>4, <1>5, <1>6, <1>7, <1>8 DEF Flow, Deletion, Promised, Acked
<1> QED
  BY <1>9, <1>10, <1>11, <1>12, <1>13, <1>14, <1>15, <1>16, <1>17 DEF Flow

\* The connection is made.
LEMMA ConnectFlow ==
  ASSUME Types, Flow, ~Interrupted, Connect
  PROVE  Flow'
<1>1. /\ ~online /\ online' = TRUE /\ publishQ' = Posted(publishQ, Event("CONNECTED"))
      /\ UNCHANGED <<subscribeQ, main, mainBuf, pub, waiting, buf, position, context,
                     entries, joined, outbox, flash, step, client, heard, acked, runs, faults>>
  BY DEF Connect, Handler, mainVars, locals, host, history
<1>2. /\ publishQ = <<>> /\ client = "send" /\ subscribeQ = <<>> /\ main = "receive"
      /\ pub = "loop" /\ ~waiting /\ outbox = <<>>
  BY <1>1 DEF Flow, Connected, Paced
<1>3. publishQ' # <<>> /\ Len(publishQ') = 1 /\ publishQ'[1].kind = "CONNECTED"
  <2>1. Event("CONNECTED") \in Entry /\ Event("CONNECTED").kind = "CONNECTED"
    BY EntryTypes DEF Events
  <2>2. publishQ' = <<Event("CONNECTED")>>
    BY <1>1, <1>2, <2>1, PostedTypes DEF Types, QueueTypes
  <2> QED
    BY <2>1, <2>2
<1>4. ~InPublish' /\ ~InSubscribe' /\ ~InPublish /\ ~InSubscribe
  BY <1>1, <1>2, <1>3, EntryTypes DEF InPublish, InSubscribe
<1>5. Told' = Told
  BY <1>1 DEF Told
<1>6. (\A k : Acked(k)' <=> Acked(k)) /\ (\A k : Promised(k)' <=> Promised(k))
  BY <1>1 DEF Acked, Promised
<1>7. Single'
  BY <1>1, <1>2, <1>3, <1>4, <1>5, <1>6 DEF Flow, Single, InSubscribe, InPublish, PubIdle
<1>8. Connected'
  BY <1>1, <1>2, <1>3, <1>4, <1>5, <1>6 DEF Flow, Connected
<1>9. Paced'
  BY <1>1, <1>2, <1>3, <1>4, <1>5, <1>6 DEF Flow, Paced
<1>10. Answering'
  BY <1>1, <1>2, <1>3, <1>4, <1>5, <1>6 DEF Flow, Answering
<1>11. Shape'
  BY <1>1, <1>2, <1>3, <1>4, <1>5, <1>6 DEF Flow, Shape
<1>12. Past'
  BY <1>1, <1>2, <1>3, <1>4, <1>5, <1>6 DEF Flow, Past, Acked
<1>13. Compression'
  BY <1>1, <1>2, <1>3, <1>4, <1>5, <1>6 DEF Flow, Compression, Compressing, MainGone, InSubscribe, InPublish, Accepted, Promised, Acked
<1>14. Download'
  BY <1>1, <1>2, <1>3, <1>4, <1>5, <1>6 DEF Flow, Download, Digest, Content
<1>15. Deletion'
  BY <1>1, <1>2, <1>3, <1>4, <1>5, <1>6 DEF Flow, Deletion, Promised, Acked
<1> QED
  BY <1>7, <1>8, <1>9, <1>10, <1>11, <1>12, <1>13, <1>14, <1>15 DEF Flow

\* A queue of at most one entry is empty without it.
LEMMA LastOne ==
  ASSUME NEW S, NEW s \in Seq(S), s # <<>>, Len(s) \in 0..1
  PROVE  Head(s) = s[1] /\ s[1] \in S /\ Tail(s) = <<>>
<1>1. Len(s) = 1 /\ s[1] \in S /\ Head(s) = s[1]
  OBVIOUS
<1>2. Tail(s) \in Seq(S) /\ Len(Tail(s)) = 0
  BY <1>1
<1>3. \A t \in Seq(S) : Len(t) = 0 => t = <<>>
  OBVIOUS
<1> QED
  BY <1>1, <1>2, <1>3

\* wait_for takes the acknowledgement of the one message.
LEMMA WaitForFlow ==
  ASSUME Types, Flow, ~Interrupted, WaitFor
  PROVE  Flow'
<1>1. /\ waiting /\ publishQ # <<>> /\ publishQ' = Tail(publishQ) /\ waiting' = FALSE
      /\ UNCHANGED <<subscribeQ, main, mainBuf, pub, buf, position, context, entries, joined,
                     online, outbox, flash, step, client, heard, acked, runs, faults>>
  BY DEF WaitFor, Wakes, mainVars, locals, mqtt, host, history
<1>2. /\ publishQ' = <<>> /\ outbox = <<>> /\ publishQ[1].kind = "PUBLISHED" /\ Len(<<>>) = 0
      /\ ~InPublish /\ ~InPublish'
  <2>1. publishQ' = <<>>
    BY <1>1, LastOne DEF Flow, Single, Types, QueueTypes
  <2>2. outbox = <<>> /\ publishQ[1].kind = "PUBLISHED"
    BY <1>1 DEF Flow, Paced
  <2> QED
    BY <2>1, <2>2, EntryTypes DEF InPublish
<1>3. ~PubIdle /\ ~InSubscribe /\ ~InSubscribe' /\ main # "forward" /\ subscribeQ = <<>>
  BY <1>1 DEF PubIdle, InSubscribe, Flow, Single
<1>4. Told' = Told
  BY <1>1 DEF Told
<1>5. (\A k : Acked(k)' <=> Acked(k)) /\ (\A k : Promised(k)' <=> Promised(k))
  BY <1>1 DEF Acked, Promised
<1>6. Single'
  BY <1>1, <1>2, <1>3, <1>4, <1>5 DEF Flow, Single, InSubscribe, InPublish, PubIdle
<1>7. Connected'
  BY <1>1, <1>2, <1>3, <1>4, <1>5 DEF Flow, Connected
<1>8. Paced'
  BY <1>1, <1>2, <1>3, <1>4, <1>5 DEF Flow, Paced
<1>9. Answering'
  BY <1>1, <1>2, <1>3, <1>4, <1>5 DEF Flow, Answering
<1>10. Shape'
  BY <1>1, <1>2, <1>3, <1>4, <1>5 DEF Flow, Shape
<1>11. Past'
  BY <1>1, <1>2, <1>3, <1>4, <1>5 DEF Flow, Past, Acked
<1>12. Compression'
  BY <1>1, <1>2, <1>3, <1>4, <1>5 DEF Flow, Compression, Compressing, MainGone, InSubscribe, InPublish, Accepted, Promised, Acked
<1>13. Download'
  BY <1>1, <1>2, <1>3, <1>4, <1>5 DEF Flow, Download, Digest, Content
<1>14. Deletion'
  BY <1>1, <1>2, <1>3, <1>4, <1>5 DEF Flow, Deletion, Promised, Acked
<1> QED
  BY <1>6, <1>7, <1>8, <1>9, <1>10, <1>11, <1>12, <1>13, <1>14 DEF Flow

\* PUB takes the request, or is told of the connection.
LEMMA TakeFlow ==
  ASSUME Types, Flow, ~Interrupted, Take
  PROVE  Flow'
<1>1. /\ pub = "loop" /\ ~waiting /\ publishQ # <<>> /\ publishQ' = Tail(publishQ)
      /\ UNCHANGED <<subscribeQ, main, mainBuf, waiting, position, context, entries, joined,
                     outbox, flash, step, client, heard, acked, runs, faults>>
  BY DEF Take, mainVars, host, history
<1>2. /\ Head(publishQ) = publishQ[1] /\ publishQ' = <<>> /\ Len(<<>>) = 0 /\ outbox = <<>> /\ online
      /\ publishQ[1].kind = "CONNECTED" \/ publishQ[1].kind \in Requests
      /\ publishQ[1] \in Entry
  <2>1. Head(publishQ) = publishQ[1] /\ publishQ' = <<>> /\ publishQ[1] \in Entry
    BY <1>1, LastOne DEF Flow, Single, Types, QueueTypes
  <2>2. outbox = <<>> /\ online /\ (publishQ[1].kind = "CONNECTED" \/ publishQ[1].kind \in Requests)
    BY <1>1 DEF Flow, Paced, Connected
  <2> QED
    BY <2>1, <2>2
<1>3. /\ ~InPublish' /\ online' = online
      /\ \/ pub' = "loop" /\ buf' = buf /\ ~InPublish
         \/ pub' = "header" /\ buf' = publishQ[1] /\ InPublish
  <2>1. CASE publishQ[1].kind \in Requests
    BY <1>1, <1>2, <2>1 DEF Take, InPublish
  <2>2. CASE publishQ[1].kind = "CONNECTED"
    <3>1. "CONNECTED" \notin Requests
      BY EntryTypes
    <3>2. /\ pub' = IF publishQ[1].kind = "DISCONNECTED" THEN "deleted" ELSE "loop"
          /\ online' = (online /\ pub' # "deleted")
          /\ UNCHANGED buf
      BY <1>2, <2>2, <3>1 DEF Take
    <3>3. pub' = "loop" /\ online' = TRUE /\ online = TRUE
      BY <1>2, <2>2, <3>2 DEF Types, NetTypes
    <3> QED
      BY <1>2, <2>2, <3>1, <3>2, <3>3 DEF InPublish
  <2> QED
    BY <1>2, <2>1, <2>2
<1>4. /\ InPublish => /\ client = "wait" /\ heard = <<>> /\ publishQ[1].kind = step
                      /\ subscribeQ = <<>> /\ main # "forward"
      /\ InSubscribe <=> InSubscribe'
      /\ publishQ # <<>> => subscribeQ = <<>> /\ main # "forward"
  <2>1. ~PubIdle
    BY <1>1 DEF PubIdle
  <2> QED
    BY <1>1, <2>1 DEF Flow, Single, InSubscribe
<1>5. Told' = Told /\ Told = heard
  BY <1>1, <1>2, ToldFacts DEF Told, Flow, Single
<1>6. (\A k : Acked(k)' <=> Acked(k)) /\ (\A k : Promised(k)' <=> Promised(k))
  BY <1>1 DEF Acked, Promised
<1>7. Accepted' => Accepted
  BY <1>1, <1>2, <1>3, <1>6 DEF Accepted
<1>8. Single'
  BY <1>1, <1>2, <1>3, <1>4, <1>5, <1>6, <1>7 DEF Flow, Single, InSubscribe, InPublish, PubIdle
<1>9. Connected'
  BY <1>1, <1>2, <1>3, <1>4, <1>5, <1>6, <1>7 DEF Flow, Connected
<1>10. Paced'
  BY <1>1, <1>2, <1>3, <1>4, <1>5, <1>6, <1>7 DEF Flow, Paced
<1>11. Answering'
  BY <1>1, <1>2, <1>3, <1>4, <1>5, <1>6, <1>7 DEF Flow, Answering
<1>12. Shape'
  BY <1>1, <1>2, <1>3, <1>4, <1>5, <1>6, <1>7 DEF Flow, Shape
<1>13. Past'
  BY <1>1, <1>2, <1>3, <1>4, <1>5, <1>6, <1>7 DEF Flow, Past, Acked
<1>14. Compression'
  BY <1>1, <1>2, <1>3, <1>4, <1>5, <1>6, <1>7 DEF Flow, Compression, Compressing, MainGone, InSubscribe, InPublish, Accepted, Promised, Acked
<1>15. Download'
  BY <1>1, <1>2, <1>3, <1>4, <1>5, <1>6, <1>7 DEF Flow, Download, Digest, Content
<1>16. Deletion'
  BY <1>1, <1>2, <1>3, <1>4, <1>5, <1>6, <1>7 DEF Flow, Deletion, Promised, Acked
<1> QED
  BY <1>8, <1>9, <1>10, <1>11, <1>12, <1>13, <1>14, <1>15, <1>16 DEF Flow

\* The main task takes the request.
LEMMA MainReceiveFlow ==
  ASSUME Types, Flow, ~Interrupted, MainReceive
  PROVE  Flow'
<1>1. /\ main = "receive" /\ main' = "forward" /\ subscribeQ # <<>>
      /\ mainBuf' = Head(subscribeQ) /\ subscribeQ' = Tail(subscribeQ)
      /\ UNCHANGED <<publishQ, pub, waiting, buf, position, context, entries, joined,
                     online, outbox, flash, step, client, heard, acked, runs, faults>>
  BY DEF MainReceive, Ready, locals, mqtt, host, history
<1>2. mainBuf' = subscribeQ[1] /\ subscribeQ' = <<>> /\ Len(<<>>) = 0
  BY <1>1, LastOne DEF Flow, Single, Types, QueueTypes
<1>3. /\ client = "wait" /\ heard = <<>> /\ subscribeQ[1].kind = step /\ PubIdle /\ PubIdle'
      /\ InSubscribe /\ ~InSubscribe'
  BY <1>1, <1>2 DEF Flow, Single, InSubscribe, PubIdle
<1>4. /\ pub = "loop" /\ ~waiting /\ publishQ = <<>> /\ outbox = <<>>
      /\ ~InPublish /\ ~InPublish'
  BY <1>1, <1>3 DEF PubIdle, InPublish
<1>5. Told' = Told
  BY <1>1 DEF Told
<1>6. (\A k : Acked(k)' <=> Acked(k)) /\ (\A k : Promised(k)' <=> Promised(k))
  BY <1>1 DEF Acked, Promised
<1>7. Accepted' => Accepted
  BY <1>1, <1>6 DEF Accepted, InPublish
<1>8. Single'
  BY <1>1, <1>2, <1>3, <1>4, <1>5, <1>6, <1>7 DEF Flow, Single, InSubscribe, InPublish, PubIdle
<1>9. Connected'
  BY <1>1, <1>2, <1>3, <1>4, <1>5, <1>6, <1>7 DEF Flow, Connected
<1>10. Paced'
  BY <1>1, <1>2, <1>3, <1>4, <1>5, <1>6, <1>7 DEF Flow, Paced
<1>11. Answering'
  BY <1>1, <1>2, <1>3, <1>4, <1>5, <1>6, <1>7 DEF Flow, Answering
<1>12. Shape'
  BY <1>1, <1>2, <1>3, <1>4, <1>5, <1>6, <1>7 DEF Flow, Shape
<1>13. Past'
  BY <1>1, <1>2, <1>3, <1>4, <1>5, <1>6, <1>7 DEF Flow, Past, Acked
<1>14. Compression'
  BY <1>1, <1>2, <1>3, <1>4, <1>5, <1>6, <1>7 DEF Flow, Compression, Compressing, MainGone, InSubscribe, InPublish, Accepted, Promised, Acked
<1>15. Download'
  BY <1>1, <1>2, <1>3, <1>4, <1>5, <1>6, <1>7 DEF Flow, Download, Digest, Content
<1>16. Deletion'
  BY <1>1, <1>2, <1>3, <1>4, <1>5, <1>6, <1>7 DEF Flow, Deletion, Promised, Acked
<1> QED
  BY <1>8, <1>9, <1>10, <1>11, <1>12, <1>13, <1>14, <1>15, <1>16 DEF Flow

\* The main task forwards the request; an upload it will compress.
LEMMA ForwardFlow ==
  ASSUME Types, Flow, ~Interrupted, Forward
  PROVE  Flow'
<1>1. /\ main = "forward" /\ publishQ' = Posted(publishQ, mainBuf)
      /\ main' = IF mainBuf = Request("put", TRUE) THEN "compress" ELSE "receive"
      /\ UNCHANGED <<subscribeQ, mainBuf, pub, waiting, buf, position, context, entries, joined,
                     online, outbox, flash, step, client, heard, acked, runs, faults>>
  BY DEF Forward, locals, mqtt, host, history
<1>2. /\ client = "wait" /\ heard = <<>> /\ mainBuf.kind = step
      /\ pub = "loop" /\ ~waiting /\ publishQ = <<>> /\ outbox = <<>> /\ PubIdle
      /\ mainBuf \in Entry /\ step \in Requests
  BY <1>1 DEF Flow, Single, PubIdle, Types, TaskTypes
<1>3. publishQ' # <<>> /\ publishQ'[1] = mainBuf /\ Len(publishQ') = 1
  <2>1. publishQ' = <<mainBuf>>
    BY <1>1, <1>2, PostedTypes DEF Types, QueueTypes
  <2> QED
    BY <2>1
<1>4. InPublish' /\ ~InPublish /\ subscribeQ = <<>> /\ ~InSubscribe /\ ~InSubscribe' /\ online
  BY <1>1, <1>2, <1>3 DEF InPublish, InSubscribe, Flow, Single, Connected
<1>5. Told' = Told
  BY <1>1 DEF Told
<1>6. (\A k : Acked(k)' <=> Acked(k)) /\ (\A k : Promised(k)' <=> Promised(k))
  BY <1>1 DEF Acked, Promised
<1>7. /\ mainBuf = Request("put", TRUE) => step = "put" /\ flash["src"] = <<runs>>
      /\ mainBuf.kind # "CONNECTED"
  <2>1. Request("put", TRUE).kind = "put"
    BY DEF Request
  <2> QED
    BY <1>1, <1>2, <2>1, EntryTypes DEF Flow, Compression
<1>8. Accepted' => Accepted \/ mainBuf = Request("put", TRUE)
  BY <1>1, <1>2, <1>3, <1>6 DEF Accepted
<1>9. Single'
  BY <1>1, <1>2, <1>3, <1>4, <1>5, <1>6, <1>7, <1>8 DEF Flow, Single, InSubscribe, InPublish, PubIdle
<1>10. Connected'
  BY <1>1, <1>2, <1>3, <1>4, <1>5, <1>6, <1>7, <1>8 DEF Flow, Connected
<1>11. Paced'
  BY <1>1, <1>2, <1>3, <1>4, <1>5, <1>6, <1>7, <1>8 DEF Flow, Paced
<1>12. Answering'
  BY <1>1, <1>2, <1>3, <1>4, <1>5, <1>6, <1>7, <1>8 DEF Flow, Answering
<1>13. Shape'
  BY <1>1, <1>2, <1>3, <1>4, <1>5, <1>6, <1>7, <1>8 DEF Flow, Shape
<1>14. Past'
  BY <1>1, <1>2, <1>3, <1>4, <1>5, <1>6, <1>7, <1>8 DEF Flow, Past, Acked
<1>15. Compression'
  BY <1>1, <1>2, <1>3, <1>4, <1>5, <1>6, <1>7, <1>8 DEF Flow, Compression, Compressing, MainGone, InSubscribe, InPublish, Accepted, Promised, Acked
<1>16. Download'
  BY <1>1, <1>2, <1>3, <1>4, <1>5, <1>6, <1>7, <1>8 DEF Flow, Download, Digest, Content
<1>17. Deletion'
  BY <1>1, <1>2, <1>3, <1>4, <1>5, <1>6, <1>7, <1>8 DEF Flow, Deletion, Promised, Acked
<1> QED
  BY <1>9, <1>10, <1>11, <1>12, <1>13, <1>14, <1>15, <1>16, <1>17 DEF Flow

\* The upload is compressed: nothing that depends on the compressed file is under way.
LEMMA CompressFlow ==
  ASSUME Types, Flow, ~Interrupted, CompressStarts \/ CompressEnds
  PROVE  Flow'
<1>1. /\ main \in {"compress", "compressing"} /\ faults \subseteq faults'
      /\ UNCHANGED <<subscribeQ, publishQ, mainBuf, pub, waiting, buf, position, context, entries,
                     joined, online, outbox, step, client, heard, acked, runs>>
  BY DEF CompressStarts, CompressEnds, Succeeds, Fails, Fault, queues, locals, mqtt, host, history
<1>2. /\ Compressing /\ flash["src"] = <<runs>> /\ flash["src"] # Absent /\ flash["src"][1] = runs
      /\ step \in {"put", "get"}
      /\ step = "get" => client = "send" \/ InSubscribe
  <2>1. Compressing
    BY <1>1 DEF Compressing
  <2>2. flash["src"] = <<runs>> /\ step \in {"put", "get"} /\ (step = "get" => client = "send" \/ InSubscribe)
    BY <2>1 DEF Flow, Compression
  <2>3. <<runs>> # Absent
    <3>1. runs \in Nat
      BY DEF Types, HostTypes
    <3>2. <<runs>> \in Seq(Nat)
      BY <3>1
    <3> QED
      BY <3>2, ConstantsAssumption
  <2> QED
    BY <2>1, <2>2, <2>3
<1>3. /\ flash'["src"] = <<runs>>
      /\ \/ main' = "compressing"
         \/ main' = "receive" /\ flash'["br"] = Compressed(runs)
         \/ main' \in {"deleted", "stuck"}
  <2>1. DOMAIN flash = {"src", "br"}
    BY DEF Types, FlashTypes, Files
  <2>2. CASE CompressStarts
    BY <1>2, <2>1, <2>2 DEF CompressStarts
  <2>3. CASE CompressEnds
    <3>1. CASE Succeeds
      BY <1>2, <2>1, <3>1 DEF Succeeds, LoopsAgain
    <3>2. CASE Fails
      BY <1>2, <2>1, <3>2 DEF Fails
    <3> QED
      BY <2>3, <3>1, <3>2 DEF CompressEnds
  <2> QED
    BY <2>2, <2>3
<1>4. ~Promised("del_src") /\ ~Promised("del_br")
  BY <1>2, NotYetDeleted
<1>5. Told' = Told
  BY <1>1 DEF Told
<1>6. (\A k : Acked(k)' <=> Acked(k)) /\ (\A k : Promised(k)' <=> Promised(k))
  BY <1>1 DEF Acked, Promised
<1>7. /\ InSubscribe => client = "wait" /\ pub = "loop" /\ heard = <<>> /\ outbox = <<>>
      /\ InSubscribe' <=> InSubscribe
      /\ InPublish' <=> InPublish
      /\ PubIdle' <=> PubIdle
      /\ InSubscribe <=> subscribeQ # <<>>
  BY <1>1 DEF Flow, Single, InSubscribe, InPublish, PubIdle
<1>8. InSubscribe => Told = <<>>
  BY <1>7, ToldFacts DEF Flow, Single
<1>9. Single'
  BY <1>1, <1>2, <1>3, <1>4, <1>5, <1>6, <1>7, <1>8 DEF Flow, Single, InSubscribe, InPublish, PubIdle
<1>10. Connected'
  BY <1>1, <1>2, <1>3, <1>4, <1>5, <1>6, <1>7, <1>8 DEF Flow, Connected
<1>11. Paced'
  BY <1>1, <1>2, <1>3, <1>4, <1>5, <1>6, <1>7, <1>8 DEF Flow, Paced
<1>12. Answering'
  BY <1>1, <1>2, <1>3, <1>4, <1>5, <1>6, <1>7, <1>8 DEF Flow, Answering
<1>13. Shape'
  BY <1>1, <1>2, <1>3, <1>4, <1>5, <1>6, <1>7, <1>8 DEF Flow, Shape
<1>14. Past'
  BY <1>1, <1>2, <1>3, <1>4, <1>5, <1>6, <1>7, <1>8 DEF Flow, Past, Acked
<1>15. Compression'
  BY <1>1, <1>2, <1>3, <1>4, <1>5, <1>6, <1>7, <1>8 DEF Flow, Compression, Compressing, MainGone, InSubscribe, InPublish, Accepted, Promised, Acked
<1>16. Download'
  BY <1>1, <1>2, <1>3, <1>4, <1>5, <1>6, <1>7, <1>8 DEF Flow, Download, Digest, Content
<1>17. Deletion'
  BY <1>1, <1>2, <1>3, <1>4, <1>5, <1>6, <1>7, <1>8 DEF Flow, Deletion, Promised, Acked
<1> QED
  BY <1>9, <1>10, <1>11, <1>12, <1>13, <1>14, <1>15, <1>16, <1>17 DEF Flow

\* A message that PUB publishes is the only one under way, and goes on with the answer.
LEMMA PublishFlow ==
  ASSUME Types, Flow, pub \notin {"loop", "deleted"},
         NEW k \in {"header", "data", "tailer"}, NEW c \in Seq(Items), Publish(k, c),
         NEW m, m = Message(TopicOf(buf.kind), FileOf(buf.kind), k, c)
  PROVE  /\ ~waiting /\ waiting' = TRUE /\ outbox = <<>> /\ publishQ = <<>> /\ subscribeQ = <<>>
         /\ main # "forward" /\ online
         /\ m \in Answers /\ m.topic = TopicOf(buf.kind) /\ m.file = FileOf(buf.kind)
         /\ m.kind = k /\ m.content = c
         /\ outbox' = <<m>> /\ outbox' # <<>> /\ outbox'[1] = m /\ Len(outbox') = 1
         /\ heard \in Seq(Answers) /\ Told = heard /\ Told' = Append(heard, m)
         /\ UNCHANGED <<subscribeQ, publishQ, main, mainBuf, joined, online, step, client, heard,
                        acked, runs, lists>>
<1>1. /\ ~waiting /\ waiting' = TRUE /\ outbox' = Append(outbox, m)
      /\ UNCHANGED <<subscribeQ, publishQ, main, mainBuf, joined, online, step, client, heard,
                     acked, runs, lists>>
  BY PublishTypes DEF queues, host
<1>2. outbox = <<>> /\ publishQ = <<>> /\ subscribeQ = <<>> /\ main # "forward" /\ online
  <2>1. ~PubIdle
    BY DEF PubIdle
  <2>2. outbox = <<>> /\ subscribeQ = <<>> /\ main # "forward" /\ online
    BY <1>1, <2>1 DEF Flow, Paced, Single, InSubscribe, Connected
  <2>3. publishQ = <<>>
    BY <1>1, EntryTypes DEF Flow, Paced, Single, InPublish, Connected
  <2> QED
    BY <2>2, <2>3
<1>3. /\ m \in Answers /\ m.topic = TopicOf(buf.kind) /\ m.file = FileOf(buf.kind)
      /\ m.kind = k /\ m.content = c
  <2>1. buf.kind \in Requests
    BY DEF Types, TaskTypes
  <2> QED
    BY <2>1, AnswerTypes
<1>4. outbox' = <<m>> /\ outbox' # <<>> /\ outbox'[1] = m /\ Len(outbox') = 1
  BY <1>1, <1>2
<1>5. heard \in Seq(Answers) /\ Told = heard /\ Told' = Append(heard, m)
  <2>1. heard \in Seq(Answers)
    BY DEF Types, HostTypes
  <2>2. heard \o <<>> = heard /\ heard \o <<m>> = Append(heard, m)
    BY <1>3, <2>1
  <2> QED
    BY <1>1, <1>2, <1>4, <2>1, <2>2 DEF Told
<1> QED
  BY <1>1, <1>2, <1>3, <1>4, <1>5

\* One topic and one file belong to one request.
LEMMA SubjectsDiffer ==
  \A r, s \in Requests : TopicOf(r) = TopicOf(s) /\ FileOf(r) = FileOf(s) => r = s
BY EntryTypes, SubjectTypes

\* One block more of a file.
LEMMA NextBlock ==
  ASSUME NEW S, NEW s \in Seq(S), NEW p \in Nat, p < Len(s)
  PROVE  Append(SubSeq(s, 1, p), s[p + 1]) = SubSeq(s, 1, p + 1)
OBVIOUS

\* The header of an answer.
LEMMA SendHeaderFlow ==
  ASSUME Types, Flow, ~Interrupted, SendHeader
  PROVE  Flow'
<1>0. PICK ok \in BOOLEAN :
         /\ CASE buf.kind = "put"  -> ok = buf.ok /\ UNCHANGED history
              [] buf.kind = "list" -> IF ok THEN UNCHANGED history ELSE Fault("flash")
              [] OTHER -> ok = (flash[File] # Absent) /\ UNCHANGED history
         /\ Publish("header", <<IF ok THEN "ACK" ELSE "NAK">>)
         /\ pub' = IF ~ok \/ buf.kind = "put" THEN "tailer" ELSE buf.kind
  BY DEF SendHeader
<1>1. /\ pub = "header" /\ context' = <<>> /\ position' = 0 /\ buf' = buf /\ flash' = flash
      /\ client = "wait" /\ buf.kind = step /\ step \in Requests
      /\ pub' = "tailer" \/ (ok = TRUE /\ buf.kind # "put" /\ pub' = buf.kind)
      /\ pub' \in {"tailer", "get", "list", "del_src", "del_br"}
      /\ buf.kind = "put" /\ ok = TRUE => buf.ok = TRUE
      /\ faults \subseteq faults'
  <2>1. pub = "header" /\ context' = <<>> /\ position' = 0 /\ buf' = buf /\ flash' = flash
    BY DEF SendHeader
  <2>2. client = "wait" /\ buf.kind = step /\ step \in Requests
    BY <2>1 DEF Flow, Answering, Types, HostTypes
  <2>3. pub' = "tailer" \/ (ok = TRUE /\ buf.kind # "put" /\ pub' = buf.kind)
    BY <1>0
  <2>4. pub' \in {"tailer", "get", "list", "del_src", "del_br"}
    BY <2>2, <2>3, EntryTypes
  <2>5. buf.kind = "put" /\ ok = TRUE => buf.ok = TRUE
    BY <1>0
  <2>6. faults \subseteq faults'
    <3>1. CASE buf.kind = "put"
      BY <1>0, <3>1 DEF history
    <3>2. CASE buf.kind = "list"
      BY <1>0, <3>2 DEF history, Fault
    <3>3. CASE buf.kind \notin {"put", "list"}
      BY <1>0, <3>3 DEF history
    <3> QED
      BY <3>1, <3>2, <3>3
  <2> QED
    BY <2>1, <2>2, <2>3, <2>4, <2>5, <2>6
<1>2. PICK m :
      /\ ~waiting /\ waiting' = TRUE /\ outbox = <<>> /\ publishQ = <<>> /\ subscribeQ = <<>>
      /\ main # "forward" /\ online
      /\ m.topic = TopicOf(buf.kind) /\ m.file = FileOf(buf.kind)
      /\ m.kind = "header" /\ m.content = <<IF ok THEN "ACK" ELSE "NAK">>
      /\ outbox' = <<m>> /\ outbox' # <<>> /\ outbox'[1] = m /\ Len(outbox') = 1
      /\ heard \in Seq(Answers) /\ Told = heard /\ Told' = Append(heard, m)
      /\ UNCHANGED <<subscribeQ, publishQ, main, mainBuf, joined, online, step, client, heard,
                     acked, runs>>
  <2>1. <<IF ok THEN "ACK" ELSE "NAK">> \in Seq(Items)
    <3>1. (IF ok THEN "ACK" ELSE "NAK") \in Items
      BY DEF Items
    <3> QED
      BY <3>1
  <2>2. PICK c : c = <<IF ok THEN "ACK" ELSE "NAK">>
    OBVIOUS
  <2>3. PICK m : m = Message(TopicOf(buf.kind), FileOf(buf.kind), "header", c)
    OBVIOUS
  <2>4. c \in Seq(Items) /\ Publish("header", c) /\ pub \notin {"loop", "deleted"}
    BY <1>0, <1>1, <2>1, <2>2
  <2>5. /\ ~waiting /\ waiting' = TRUE /\ outbox = <<>> /\ publishQ = <<>> /\ subscribeQ = <<>>
        /\ main # "forward" /\ online
        /\ m.topic = TopicOf(buf.kind) /\ m.file = FileOf(buf.kind)
        /\ m.kind = "header" /\ m.content = c
        /\ outbox' = <<m>> /\ outbox' # <<>> /\ outbox'[1] = m /\ Len(outbox') = 1
        /\ heard \in Seq(Answers) /\ Told = heard /\ Told' = Append(heard, m)
        /\ UNCHANGED <<subscribeQ, publishQ, main, mainBuf, joined, online, step, client, heard,
                       acked, runs>>
    BY <2>3, <2>4, PublishFlow
  <2> QED
    BY <2>2, <2>5
<1>3. /\ Told' # <<>> /\ DOMAIN Told' = 1..(Len(heard) + 1) /\ Len(Told') = Len(heard) + 1
      /\ Told'[Len(heard) + 1] = m /\ Len(heard) \in Nat
      /\ \A i \in 1..(Len(heard) + 1) : i # Len(heard) + 1 => i \in DOMAIN Told /\ Told'[i] = Told[i]
      /\ heard # <<>> => Told'[1] = Told[1]
      /\ heard = <<>> <=> Len(heard) = 0
  BY <1>2, AppendFacts
<1>4. ~InPublish /\ ~InPublish' /\ ~InSubscribe /\ ~InSubscribe' /\ ~PubIdle'
  BY <1>1, <1>2 DEF InPublish, InSubscribe, PubIdle
<1>5. \A k : (Acked(k)' <=> Acked(k)) /\ (Promised(k) <=> Acked(k))
  BY <1>2 DEF Acked, Promised
<1>6. heard = <<>> /\ DOMAIN Told' = {1} /\ Told'[1] = m /\ Len(heard) = 0
  <2>1. heard = <<>>
    BY <1>1, <1>2 DEF Flow, Shape
  <2>2. Len(heard) = 0 /\ 1..(0 + 1) = {1}
    BY <1>3, <2>1
  <2> QED
    BY <1>3, <2>1, <2>2
<1>7. m.content = <<"ACK">> <=> ok = TRUE
  <2>1. <<"ACK">> # <<"NAK">>
    OBVIOUS
  <2> QED
    BY <1>2, <2>1
<1>8. Accepted' => Accepted
  <2>1. ASSUME Promised("put")'
        PROVE  Accepted
    <3>1. CASE Acked("put")'
      BY <1>5, <3>1 DEF Accepted
    <3>2. CASE m.content = <<"ACK">> /\ m.topic = TopicOf("put")
      <4>1. buf.kind = "put" /\ ok = TRUE
        BY <1>1, <1>2, <1>7, <3>2, EntryTypes, SubjectTypes
      <4>2. buf.ok = TRUE /\ buf \in Entry
        BY <1>1, <4>1 DEF Types, TaskTypes
      <4>3. buf = Request("put", TRUE)
        BY <4>1, <4>2, EntryTypes
      <4> QED
        BY <1>1, <4>3 DEF Accepted
    <3> QED
      BY <1>2, <2>1, <3>1, <3>2 DEF Promised, Acked
  <2> QED
    BY <1>1, <1>4, <2>1 DEF Accepted
<1>9. ASSUME NEW k \in {"del_src", "del_br"}, Promised(k)'
      PROVE  Promised(k) \/ pub' = k
  <2>1. CASE Acked(k)'
    BY <1>5, <2>1
  <2>2. CASE m.content = <<"ACK">> /\ m.topic = TopicOf(k) /\ m.file = FileOf(k)
    <3>1. buf.kind = k
      BY <1>1, <1>2, <2>2, EntryTypes, SubjectsDiffer
    <3> QED
      BY <1>0, <1>7, <2>2, <3>1
  <2> QED
    BY <1>2, <1>9, <2>1, <2>2 DEF Promised, Acked
<1>10. Single'
  BY <1>0, <1>1, <1>2, <1>3, <1>4, <1>5, <1>6, <1>7, <1>8, <1>9 DEF Flow, Single, InSubscribe, InPublish, PubIdle
<1>11. Connected'
  BY <1>0, <1>1, <1>2, <1>3, <1>4, <1>5, <1>6, <1>7, <1>8, <1>9 DEF Flow, Connected
<1>12. Paced'
  BY <1>0, <1>1, <1>2, <1>3, <1>4, <1>5, <1>6, <1>7, <1>8, <1>9 DEF Flow, Paced
<1>13. Answering'
  BY <1>0, <1>1, <1>2, <1>3, <1>4, <1>5, <1>6, <1>7, <1>8, <1>9 DEF Flow, Answering
<1>14. Shape'
  BY <1>0, <1>1, <1>2, <1>3, <1>4, <1>5, <1>6, <1>7, <1>8, <1>9 DEF Flow, Shape
<1>15. Past'
  BY <1>0, <1>1, <1>2, <1>3, <1>4, <1>5, <1>6, <1>7, <1>8, <1>9 DEF Flow, Past, Acked
<1>16. Compression'
  BY <1>0, <1>1, <1>2, <1>3, <1>4, <1>5, <1>6, <1>7, <1>8, <1>9 DEF Flow, Compression, Compressing, MainGone, InSubscribe, InPublish, Accepted, Promised, Acked
<1>17. Download'
  BY <1>0, <1>1, <1>2, <1>3, <1>4, <1>5, <1>6, <1>7, <1>8, <1>9 DEF Flow, Download, Digest, Content
<1>18. Deletion'
  BY <1>0, <1>1, <1>2, <1>3, <1>4, <1>5, <1>6, <1>7, <1>8, <1>9 DEF Flow, Deletion, Promised, Acked
<1> QED
  BY <1>10, <1>11, <1>12, <1>13, <1>14, <1>15, <1>16, <1>17, <1>18 DEF Flow

\* The next block of a download.
LEMMA SendBlockFlow ==
  ASSUME Types, Flow, ~Interrupted, SendBlock
  PROVE  Flow'
<1>1. /\ pub = "read" /\ position < Len(Content(File)) /\ pub' = "read" /\ buf' = buf
      /\ Publish("data", <<Content(File)[position + 1]>>)
      /\ context' = Append(context, Content(File)[position + 1]) /\ position' = position + 1
      /\ UNCHANGED <<flash, faults>>
      /\ client # "send" /\ buf.kind = "get" /\ step = "get"
      /\ client \in {"wait", "dead"} /\ File = "br" /\ Content("br") \in Seq(Items) /\ position \in Nat
  <2>1. /\ pub = "read" /\ position < Len(Content(File)) /\ pub' = "read" /\ buf' = buf
        /\ Publish("data", <<Content(File)[position + 1]>>)
        /\ context' = Append(context, Content(File)[position + 1]) /\ position' = position + 1
        /\ UNCHANGED <<flash, faults>>
    BY DEF SendBlock, history
  <2>2. /\ client # "send" /\ buf.kind = "get" /\ step = "get"
        /\ client \in {"wait", "dead"} /\ position \in Nat
    BY <2>1 DEF Flow, Answering, Types, TaskTypes
  <2>3. File = "br"
    BY <2>2, SubjectTypes DEF File
  <2>4. Content("br") \in Seq(Items)
    BY FlashContent DEF Types, Files
  <2> QED
    BY <2>1, <2>2, <2>3, <2>4
<1>2. PICK m :
      /\ ~waiting /\ waiting' = TRUE /\ outbox = <<>> /\ publishQ = <<>> /\ subscribeQ = <<>>
      /\ main # "forward" /\ online
      /\ m.topic = TopicOf(buf.kind) /\ m.file = FileOf(buf.kind)
      /\ m.kind = "data" /\ m.content = <<Content("br")[position + 1]>>
      /\ outbox' = <<m>> /\ outbox' # <<>> /\ outbox'[1] = m /\ Len(outbox') = 1
      /\ heard \in Seq(Answers) /\ Told = heard /\ Told' = Append(heard, m)
      /\ UNCHANGED <<subscribeQ, publishQ, main, mainBuf, joined, online, step, client, heard,
                     acked, runs>>
  <2>1. <<Content("br")[position + 1]>> \in Seq(Items)
    <3>1. Content("br")[position + 1] \in Items
      <4>1. position + 1 \in 1..Len(Content("br"))
        BY <1>1
      <4> QED
        BY <1>1, <4>1
    <3> QED
      BY <3>1
  <2>2. PICK c : c = <<Content("br")[position + 1]>>
    OBVIOUS
  <2>3. PICK m : m = Message(TopicOf(buf.kind), FileOf(buf.kind), "data", c)
    OBVIOUS
  <2>4. c \in Seq(Items) /\ Publish("data", c) /\ pub \notin {"loop", "deleted"}
    BY <1>1, <2>1, <2>2
  <2>5. /\ ~waiting /\ waiting' = TRUE /\ outbox = <<>> /\ publishQ = <<>> /\ subscribeQ = <<>>
        /\ main # "forward" /\ online
        /\ m.topic = TopicOf(buf.kind) /\ m.file = FileOf(buf.kind)
        /\ m.kind = "data" /\ m.content = c
        /\ outbox' = <<m>> /\ outbox' # <<>> /\ outbox'[1] = m /\ Len(outbox') = 1
        /\ heard \in Seq(Answers) /\ Told = heard /\ Told' = Append(heard, m)
        /\ UNCHANGED <<subscribeQ, publishQ, main, mainBuf, joined, online, step, client, heard,
                       acked, runs>>
    BY <2>3, <2>4, PublishFlow
  <2> QED
    BY <2>2, <2>5
<1>3. /\ Told' # <<>> /\ DOMAIN Told' = 1..(Len(heard) + 1) /\ Len(Told') = Len(heard) + 1
      /\ Told'[Len(heard) + 1] = m /\ Len(heard) \in Nat
      /\ \A i \in 1..(Len(heard) + 1) : i # Len(heard) + 1 => i \in DOMAIN Told /\ Told'[i] = Told[i]
      /\ heard # <<>> => Told'[1] = Told[1]
      /\ heard = <<>> <=> Len(heard) = 0
  BY <1>2, AppendFacts
<1>4. ~InPublish /\ ~InPublish' /\ ~InSubscribe /\ ~InSubscribe' /\ ~PubIdle'
  BY <1>1, <1>2 DEF InPublish, InSubscribe, PubIdle
<1>5. \A k : (Acked(k)' <=> Acked(k)) /\ (Promised(k) <=> Acked(k))
  BY <1>2 DEF Acked, Promised
<1>6. heard # <<>> /\ Len(heard) # 0
  BY <1>1, <1>2, <1>3 DEF Flow, Shape
<1>7. \A k : Promised(k)' <=> Promised(k)
  BY <1>2, <1>5 DEF Promised, Acked
<1>8. /\ position + 1 <= Len(Content("br")) /\ Content("br")' = Content("br")
      /\ context' = SubSeq(Content("br"), 1, position + 1)
  <2>1. context = SubSeq(Content("br"), 1, position)
    BY <1>1 DEF Flow, Download
  <2>2. Append(SubSeq(Content("br"), 1, position), Content("br")[position + 1])
          = SubSeq(Content("br"), 1, position + 1)
    BY <1>1, NextBlock
  <2> QED
    BY <1>1, <2>1, <2>2 DEF Content
<1>9. Single'
  BY <1>1, <1>2, <1>3, <1>4, <1>5, <1>6, <1>7, <1>8 DEF Flow, Single, InSubscribe, InPublish, PubIdle
<1>10. Connected'
  BY <1>1, <1>2, <1>3, <1>4, <1>5, <1>6, <1>7, <1>8 DEF Flow, Connected
<1>11. Paced'
  BY <1>1, <1>2, <1>3, <1>4, <1>5, <1>6, <1>7, <1>8 DEF Flow, Paced
<1>12. Answering'
  BY <1>1, <1>2, <1>3, <1>4, <1>5, <1>6, <1>7, <1>8 DEF Flow, Answering
<1>13. Shape'
  BY <1>1, <1>2, <1>3, <1>4, <1>5, <1>6, <1>7, <1>8 DEF Flow, Shape
<1>14. Past'
  BY <1>1, <1>2, <1>3, <1>4, <1>5, <1>6, <1>7, <1>8 DEF Flow, Past, Acked
<1>15. Compression'
  BY <1>1, <1>2, <1>3, <1>4, <1>5, <1>6, <1>7, <1>8 DEF Flow, Compression, Compressing, MainGone, InSubscribe, InPublish, Accepted, Promised, Acked
<1>16. Download'
  BY <1>1, <1>2, <1>3, <1>4, <1>5, <1>6, <1>7, <1>8 DEF Flow, Download, Digest, Content
<1>17. Deletion'
  BY <1>1, <1>2, <1>3, <1>4, <1>5, <1>6, <1>7, <1>8 DEF Flow, Deletion, Promised, Acked
<1> QED
  BY <1>9, <1>10, <1>11, <1>12, <1>13, <1>14, <1>15, <1>16, <1>17 DEF Flow

\* The next file of a list.
LEMMA SendEntryFlow ==
  ASSUME Types, Flow, ~Interrupted, SendEntry
  PROVE  Flow'
<1>1. /\ pub = "list" /\ pub' = "list" /\ buf' = buf
      /\ UNCHANGED <<flash, position, context, faults>>
      /\ client = "wait" /\ buf.kind = "list" /\ step = "list"
  BY DEF SendEntry, history, Flow, Answering
<1>2. PICK m :
      /\ ~waiting /\ waiting' = TRUE /\ outbox = <<>> /\ publishQ = <<>> /\ subscribeQ = <<>>
      /\ main # "forward" /\ online
      /\ m.topic = TopicOf(buf.kind) /\ m.file = FileOf(buf.kind)
      /\ m.kind = "data"
      /\ outbox' = <<m>> /\ outbox' # <<>> /\ outbox'[1] = m /\ Len(outbox') = 1
      /\ heard \in Seq(Answers) /\ Told = heard /\ Told' = Append(heard, m)
      /\ UNCHANGED <<subscribeQ, publishQ, main, mainBuf, joined, online, step, client, heard,
                     acked, runs>>
  <2>1. PICK f \in Files : Publish("data", <<f>>)
    BY DEF SendEntry, Types, TaskTypes
  <2>2. <<f>> \in Seq(Items)
    BY DEF Items
  <2>3. PICK c : c = <<f>>
    OBVIOUS
  <2>4. PICK m : m = Message(TopicOf(buf.kind), FileOf(buf.kind), "data", c)
    OBVIOUS
  <2>5. c \in Seq(Items) /\ Publish("data", c) /\ pub \notin {"loop", "deleted"}
    BY <1>1, <2>1, <2>2, <2>3
  <2>6. /\ ~waiting /\ waiting' = TRUE /\ outbox = <<>> /\ publishQ = <<>> /\ subscribeQ = <<>>
        /\ main # "forward" /\ online
        /\ m.topic = TopicOf(buf.kind) /\ m.file = FileOf(buf.kind)
        /\ m.kind = "data" /\ m.content = c
        /\ outbox' = <<m>> /\ outbox' # <<>> /\ outbox'[1] = m /\ Len(outbox') = 1
        /\ heard \in Seq(Answers) /\ Told = heard /\ Told' = Append(heard, m)
        /\ UNCHANGED <<subscribeQ, publishQ, main, mainBuf, joined, online, step, client, heard,
                       acked, runs>>
    BY <2>4, <2>5, PublishFlow
  <2> QED
    BY <2>6
<1>3. /\ Told' # <<>> /\ DOMAIN Told' = 1..(Len(heard) + 1) /\ Len(Told') = Len(heard) + 1
      /\ Told'[Len(heard) + 1] = m /\ Len(heard) \in Nat
      /\ \A i \in 1..(Len(heard) + 1) : i # Len(heard) + 1 => i \in DOMAIN Told /\ Told'[i] = Told[i]
      /\ heard # <<>> => Told'[1] = Told[1]
      /\ heard = <<>> <=> Len(heard) = 0
  BY <1>2, AppendFacts
<1>4. ~InPublish /\ ~InPublish' /\ ~InSubscribe /\ ~InSubscribe' /\ ~PubIdle'
  BY <1>1, <1>2 DEF InPublish, InSubscribe, PubIdle
<1>5. \A k : (Acked(k)' <=> Acked(k)) /\ (Promised(k) <=> Acked(k))
  BY <1>2 DEF Acked, Promised
<1>6. heard # <<>> /\ Len(heard) # 0
  BY <1>1, <1>2, <1>3 DEF Flow, Shape
<1>7. \A k : Promised(k)' <=> Promised(k)
  BY <1>2, <1>5 DEF Promised, Acked
<1>8. Single'
  BY <1>1, <1>2, <1>3, <1>4, <1>5, <1>6, <1>7 DEF Flow, Single, InSubscribe, InPublish, PubIdle
<1>9. Connected'
  BY <1>1, <1>2, <1>3, <1>4, <1>5, <1>6, <1>7 DEF Flow, Connected
<1>10. Paced'
  BY <1>1, <1>2, <1>3, <1>4, <1>5, <1>6, <1>7 DEF Flow, Paced
<1>11. Answering'
  BY <1>1, <1>2, <1>3, <1>4, <1>5, <1>6, <1>7 DEF Flow, Answering
<1>12. Shape'
  BY <1>1, <1>2, <1>3, <1>4, <1>5, <1>6, <1>7 DEF Flow, Shape
<1>13. Past'
  BY <1>1, <1>2, <1>3, <1>4, <1>5, <1>6, <1>7 DEF Flow, Past, Acked
<1>14. Compression'
  BY <1>1, <1>2, <1>3, <1>4, <1>5, <1>6, <1>7 DEF Flow, Compression, Compressing, MainGone, InSubscribe, InPublish, Accepted, Promised, Acked
<1>15. Download'
  BY <1>1, <1>2, <1>3, <1>4, <1>5, <1>6, <1>7 DEF Flow, Download, Digest, Content
<1>16. Deletion'
  BY <1>1, <1>2, <1>3, <1>4, <1>5, <1>6, <1>7 DEF Flow, Deletion, Promised, Acked
<1> QED
  BY <1>8, <1>9, <1>10, <1>11, <1>12, <1>13, <1>14, <1>15, <1>16 DEF Flow

\* The tailer of an answer.
LEMMA SendTailerFlow ==
  ASSUME Types, Flow, ~Interrupted, SendTailer
  PROVE  Flow'
<1>1. /\ pub = "tailer" /\ pub' = "loop" /\ Publish("tailer", context)
      /\ UNCHANGED <<buf, position, context, flash, faults>>
      /\ client # "send" => buf.kind = step
  BY DEF SendTailer, locals, history, Flow, Answering
<1>2. PICK m :
      /\ ~waiting /\ waiting' = TRUE /\ outbox = <<>> /\ publishQ = <<>> /\ subscribeQ = <<>>
      /\ main # "forward" /\ online
      /\ m.topic = TopicOf(buf.kind) /\ m.file = FileOf(buf.kind)
      /\ m.kind = "tailer" /\ m.content = context
      /\ outbox' = <<m>> /\ outbox' # <<>> /\ outbox'[1] = m /\ Len(outbox') = 1
      /\ heard \in Seq(Answers) /\ Told = heard /\ Told' = Append(heard, m)
      /\ UNCHANGED <<subscribeQ, publishQ, main, mainBuf, joined, online, step, client, heard,
                     acked, runs>>
  <2>1. context \in Seq(Items)
    BY DEF Types, TaskTypes
  <2>2. PICK m : m = Message(TopicOf(buf.kind), FileOf(buf.kind), "tailer", context)
    OBVIOUS
  <2> QED
    BY <1>1, <2>1, <2>2, PublishFlow
<1>3. /\ Told' # <<>> /\ DOMAIN Told' = 1..(Len(heard) + 1) /\ Len(Told') = Len(heard) + 1
      /\ Told'[Len(heard) + 1] = m /\ Len(heard) \in Nat
      /\ \A i \in 1..(Len(heard) + 1) : i # Len(heard) + 1 => i \in DOMAIN Told /\ Told'[i] = Told[i]
      /\ heard # <<>> => Told'[1] = Told[1]
      /\ heard = <<>> <=> Len(heard) = 0
  BY <1>2, AppendFacts
<1>4. ~InPublish /\ ~InPublish' /\ ~InSubscribe /\ ~InSubscribe' /\ ~PubIdle'
  BY <1>1, <1>2 DEF InPublish, InSubscribe, PubIdle
<1>5. \A k : (Acked(k)' <=> Acked(k)) /\ (Promised(k) <=> Acked(k))
  BY <1>2 DEF Acked, Promised
<1>6. client # "send" => heard # <<>> /\ Len(heard) # 0
  BY <1>1, <1>2, <1>3 DEF Flow, Shape
<1>7. \A k : Promised(k)' <=> Promised(k)
  BY <1>2, <1>5 DEF Promised, Acked
<1>8. Content("br")' = Content("br")
  BY <1>1 DEF Content
<1>9. Single'
  BY <1>1, <1>2, <1>3, <1>4, <1>5, <1>6, <1>7, <1>8 DEF Flow, Single, InSubscribe, InPublish, PubIdle
<1>10. Connected'
  BY <1>1, <1>2, <1>3, <1>4, <1>5, <1>6, <1>7, <1>8 DEF Flow, Connected
<1>11. Paced'
  BY <1>1, <1>2, <1>3, <1>4, <1>5, <1>6, <1>7, <1>8 DEF Flow, Paced
<1>12. Answering'
  BY <1>1, <1>2, <1>3, <1>4, <1>5, <1>6, <1>7, <1>8 DEF Flow, Answering
<1>13. Shape'
  BY <1>1, <1>2, <1>3, <1>4, <1>5, <1>6, <1>7, <1>8 DEF Flow, Shape
<1>14. Past'
  BY <1>1, <1>2, <1>3, <1>4, <1>5, <1>6, <1>7, <1>8 DEF Flow, Past, Acked
<1>15. Compression'
  BY <1>1, <1>2, <1>3, <1>4, <1>5, <1>6, <1>7, <1>8 DEF Flow, Compression, Compressing, MainGone, InSubscribe, InPublish, Accepted, Promised, Acked
<1>16. Download'
  BY <1>1, <1>2, <1>3, <1>4, <1>5, <1>6, <1>7, <1>8 DEF Flow, Download, Digest, Content
<1>17. Deletion'
  BY <1>1, <1>2, <1>3, <1>4, <1>5, <1>6, <1>7, <1>8 DEF Flow, Deletion, Promised, Acked
<1> QED
  BY <1>9, <1>10, <1>11, <1>12, <1>13, <1>14, <1>15, <1>16, <1>17 DEF Flow

\* A download is opened, and read to its end.
LEMMA ReadFlow ==
  ASSUME Types, Flow, ~Interrupted, Open \/ EndOfFile
  PROVE  Flow'
<1>1. /\ pub \in {"get", "read"} /\ ~waiting /\ outbox = <<>> /\ pub' \in {"read", "tailer"}
      /\ buf.kind = "get" /\ client \in {"wait", "dead"} /\ step = "get" /\ faults \subseteq faults'
      /\ UNCHANGED <<subscribeQ, publishQ, main, mainBuf, waiting, buf, position, context, entries,
                     joined, online, outbox, flash, step, client, heard, acked, runs>>
  BY DEF Open, EndOfFile, Fault, queues, mainVars, locals, mqtt, host, history, Flow, Answering, Paced
<1>2. /\ File = "br" /\ Content("br") \in Seq(Items) /\ Content("br")' = Content("br")
      /\ position \in Nat
  BY <1>1, SubjectTypes, FlashContent DEF File, Files, Types, TaskTypes, Content
<1>3. ~InPublish /\ ~InPublish' /\ ~InSubscribe /\ ~InSubscribe' /\ ~PubIdle /\ main # "forward"
  BY <1>1 DEF Flow, Single, InPublish, InSubscribe, PubIdle
<1>4. Told' = Told
  BY <1>1 DEF Told
<1>5. (\A k : Acked(k)' <=> Acked(k)) /\ (\A k : Promised(k)' <=> Promised(k))
  BY <1>1 DEF Acked, Promised
<1>6. Accepted' => Accepted
  BY <1>1, <1>3, <1>5 DEF Accepted
<1>7. /\ pub' = "read" => position <= Len(Content("br"))
                            /\ context = SubSeq(Content("br"), 1, position)
      /\ pub' = "tailer" => Digest(context)'
  <2>1. CASE Open
    <3>1. pub = "get" /\ pub' = "read"
      BY <2>1 DEF Open
    <3>2. position = 0 /\ context = <<>>
      BY <1>1, <3>1 DEF Flow, Download
    <3>3. SubSeq(Content("br"), 1, 0) = <<>> /\ 0 <= Len(Content("br"))
      BY <1>2
    <3> QED
      BY <3>1, <3>2, <3>3
  <2>2. CASE EndOfFile
    <3>1. /\ pub = "read" /\ pub' = "tailer"
          /\ position >= Len(Content("br")) \/ "flash" \in faults'
      BY <1>2, <2>2 DEF EndOfFile, Fault
    <3>2. position <= Len(Content("br")) /\ context = SubSeq(Content("br"), 1, position)
      BY <1>1, <3>1 DEF Flow, Download
    <3>3. position \in 0..Len(Content("br"))
      BY <1>2, <3>2
    <3>4. context \in Beginnings(Content("br"))
      BY <3>2, <3>3 DEF Beginnings
    <3>5. "flash" \notin faults' => context = Content("br")
      BY <1>2, <3>1, <3>2
    <3> QED
      BY <1>1, <1>2, <3>1, <3>4, <3>5 DEF Digest
  <2> QED
    BY <2>1, <2>2
<1>8. Told # <<>> => Told[Len(Told)].kind # "tailer"
  <2>1. Told \in Seq(Answers)
    BY <1>1, ToldFacts DEF Flow, Single
  <2>2. Told # <<>> => Len(Told) \in DOMAIN Told
    BY <2>1
  <2> QED
    BY <1>1, <2>2 DEF Flow, Shape
<1>9. Single'
  BY <1>1, <1>2, <1>3, <1>4, <1>5, <1>6, <1>7, <1>8 DEF Flow, Single, InSubscribe, InPublish, PubIdle
<1>10. Connected'
  BY <1>1, <1>2, <1>3, <1>4, <1>5, <1>6, <1>7, <1>8 DEF Flow, Connected
<1>11. Paced'
  BY <1>1, <1>2, <1>3, <1>4, <1>5, <1>6, <1>7, <1>8 DEF Flow, Paced
<1>12. Answering'
  BY <1>1, <1>2, <1>3, <1>4, <1>5, <1>6, <1>7, <1>8 DEF Flow, Answering
<1>13. Shape'
  BY <1>1, <1>2, <1>3, <1>4, <1>5, <1>6, <1>7, <1>8 DEF Flow, Shape
<1>14. Past'
  BY <1>1, <1>2, <1>3, <1>4, <1>5, <1>6, <1>7, <1>8 DEF Flow, Past, Acked
<1>15. Compression'
  BY <1>1, <1>2, <1>3, <1>4, <1>5, <1>6, <1>7, <1>8 DEF Flow, Compression, Compressing, MainGone, InSubscribe, InPublish, Accepted, Promised, Acked
<1>16. Download'
  BY <1>1, <1>2, <1>3, <1>4, <1>5, <1>6, <1>7, <1>8 DEF Flow, Download, Digest, Content
<1>17. Deletion'
  BY <1>1, <1>2, <1>3, <1>4, <1>5, <1>6, <1>7, <1>8 DEF Flow, Deletion, Promised, Acked
<1> QED
  BY <1>9, <1>10, <1>11, <1>12, <1>13, <1>14, <1>15, <1>16, <1>17 DEF Flow

\* The last file of a list is out.
LEMMA EndOfListFlow ==
  ASSUME Types, Flow, ~Interrupted, EndOfList
  PROVE  Flow'
<1>1. /\ pub = "list" /\ ~waiting /\ outbox = <<>> /\ pub' = "tailer"
      /\ buf.kind = "list" /\ client = "wait" /\ step = "list"
      /\ UNCHANGED <<subscribeQ, publishQ, main, mainBuf, waiting, buf, position, context, entries,
                     joined, online, outbox, flash, step, client, heard, acked, runs, faults>>
  BY DEF EndOfList, queues, mainVars, locals, mqtt, host, history, Flow, Answering, Paced
<1>3. ~InPublish /\ ~InPublish' /\ ~InSubscribe /\ ~InSubscribe' /\ ~PubIdle /\ main # "forward"
  BY <1>1 DEF Flow, Single, InPublish, InSubscribe, PubIdle
<1>4. Told' = Told
  BY <1>1 DEF Told
<1>5. (\A k : Acked(k)' <=> Acked(k)) /\ (\A k : Promised(k)' <=> Promised(k))
  BY <1>1 DEF Acked, Promised
<1>6. Accepted' => Accepted
  BY <1>1, <1>3, <1>5 DEF Accepted
<1>7. Single'
  BY <1>1, <1>3, <1>4, <1>5, <1>6 DEF Flow, Single, InSubscribe, InPublish, PubIdle
<1>8. Connected'
  BY <1>1, <1>3, <1>4, <1>5, <1>6 DEF Flow, Connected
<1>9. Paced'
  BY <1>1, <1>3, <1>4, <1>5, <1>6 DEF Flow, Paced
<1>10. Answering'
  BY <1>1, <1>3, <1>4, <1>5, <1>6 DEF Flow, Answering
<1>11. Shape'
  BY <1>1, <1>3, <1>4, <1>5, <1>6 DEF Flow, Shape
<1>12. Past'
  BY <1>1, <1>3, <1>4, <1>5, <1>6 DEF Flow, Past, Acked
<1>13. Compression'
  BY <1>1, <1>3, <1>4, <1>5, <1>6 DEF Flow, Compression, Compressing, MainGone, InSubscribe, InPublish, Accepted, Promised, Acked
<1>14. Download'
  BY <1>1, <1>3, <1>4, <1>5, <1>6 DEF Flow, Download, Digest, Content
<1>15. Deletion'
  BY <1>1, <1>3, <1>4, <1>5, <1>6 DEF Flow, Deletion, Promised, Acked
<1> QED
  BY <1>7, <1>8, <1>9, <1>10, <1>11, <1>12, <1>13, <1>14, <1>15 DEF Flow

\* The file that a deletion promised is unlinked.
LEMMA DeleteFlow ==
  ASSUME Types, Flow, ~Interrupted, Delete
  PROVE  Flow'
<1>1. /\ pub \in {"del_src", "del_br"} /\ ~waiting /\ outbox = <<>> /\ pub' = "tailer"
      /\ buf.kind = pub /\ step \in {"del_src", "del_br"}
      /\ faults' = faults \/ faults' # {}
      /\ faults \subseteq faults'
      /\ UNCHANGED <<subscribeQ, publishQ, main, mainBuf, waiting, buf, position, context, entries,
                     joined, online, outbox, step, client, heard, acked, runs>>
  BY DEF Delete, Fault, queues, mainVars, locals, mqtt, host, history, Flow, Answering, Paced
<1>3. ~InPublish /\ ~InPublish' /\ ~InSubscribe /\ ~InSubscribe' /\ ~PubIdle /\ main # "forward"
  BY <1>1 DEF Flow, Single, InPublish, InSubscribe, PubIdle
<1>4. Told' = Told
  BY <1>1 DEF Told
<1>5. (\A k : Acked(k)' <=> Acked(k)) /\ (\A k : Promised(k)' <=> Promised(k))
  BY <1>1 DEF Acked, Promised
<1>6. Accepted' => Accepted
  BY <1>1, <1>3, <1>5 DEF Accepted
<1>7. ASSUME faults' = {}
      PROVE  /\ flash'[FileOf(pub)] = Absent
             /\ \A f \in Files : flash'[f] = flash[f] \/ flash'[f] = Absent
  <2>1. flash' = [flash EXCEPT ![ToUnlink] = Absent]
    BY <1>7 DEF Delete, Fault
  <2>2. ToUnlink = FileOf(pub) /\ FileOf(pub) \in Files /\ DOMAIN flash = Files
    BY <1>1, SubjectTypes DEF ToUnlink, File, Types, FlashTypes, Files
  <2> QED
    BY <2>1, <2>2
<1>8. ~Compressing /\ ~Compressing'
  BY <1>1 DEF Flow, Compression, Compressing
<1>9. FileOf("del_src") \in Files /\ FileOf("del_br") \in Files
  BY SubjectTypes DEF Files
<1>10. Single'
  BY <1>1, <1>3, <1>4, <1>5, <1>6, <1>7, <1>8, <1>9 DEF Flow, Single, InSubscribe, InPublish, PubIdle
<1>11. Connected'
  BY <1>1, <1>3, <1>4, <1>5, <1>6, <1>7, <1>8, <1>9 DEF Flow, Connected
<1>12. Paced'
  BY <1>1, <1>3, <1>4, <1>5, <1>6, <1>7, <1>8, <1>9 DEF Flow, Paced
<1>13. Answering'
  BY <1>1, <1>3, <1>4, <1>5, <1>6, <1>7, <1>8, <1>9 DEF Flow, Answering
<1>14. Shape'
  BY <1>1, <1>3, <1>4, <1>5, <1>6, <1>7, <1>8, <1>9 DEF Flow, Shape
<1>15. Past'
  BY <1>1, <1>3, <1>4, <1>5, <1>6, <1>7, <1>8, <1>9 DEF Flow, Past, Acked
<1>16. Compression'
  BY <1>1, <1>3, <1>4, <1>5, <1>6, <1>7, <1>8, <1>9 DEF Flow, Compression, Compressing, MainGone, InSubscribe, InPublish, Accepted, Promised, Acked
<1>17. Download'
  BY <1>1, <1>3, <1>4, <1>5, <1>6, <1>7, <1>8, <1>9 DEF Flow, Download, Digest, Content
<1>18. Deletion'
  BY <1>1, <1>3, <1>4, <1>5, <1>6, <1>7, <1>8, <1>9 DEF Flow, Deletion, Promised, Acked
<1> QED
  BY <1>10, <1>11, <1>12, <1>13, <1>14, <1>15, <1>16, <1>17, <1>18 DEF Flow

\* The one message under way is acknowledged, and the event is in the queue.
LEMMA Acknowledged ==
  ASSUME Types, Flow, Puback
  PROVE  /\ waiting /\ online /\ outbox # <<>> /\ publishQ = <<>> /\ outbox' = <<>> /\ Len(<<>>) = 0
         /\ publishQ' = <<Event("PUBLISHED")>> /\ Hear(outbox[1]) /\ outbox[1] \in Answers
         /\ Event("PUBLISHED").kind = "PUBLISHED"
         /\ UNCHANGED <<subscribeQ, main, mainBuf, pub, waiting, buf, position, context, entries, joined,
                        online, flash, step, runs, faults>>
<1>1. /\ online /\ outbox # <<>> /\ outbox' = Tail(outbox) /\ Hear(Head(outbox))
      /\ publishQ' = Posted(publishQ, Event("PUBLISHED"))
      /\ UNCHANGED <<subscribeQ, main, mainBuf, pub, waiting, buf, position, context, entries, joined,
                     online, flash, faults>>
  BY DEF Puback, Handler, mainVars, locals, history
<1>2. waiting /\ publishQ = <<>>
  BY <1>1 DEF Flow, Paced
<1>3. Head(outbox) = outbox[1] /\ outbox[1] \in Answers /\ outbox' = <<>>
  BY <1>1, LastOne DEF Flow, Single, Types, NetTypes
<1>4. Event("PUBLISHED") \in Entry /\ Event("PUBLISHED").kind = "PUBLISHED"
  BY EntryTypes DEF Events
<1>5. publishQ' = <<Event("PUBLISHED")>>
  BY <1>1, <1>2, <1>4, PostedTypes DEF Types, QueueTypes
<1>6. UNCHANGED <<step, runs>>
  BY <1>1 DEF Hear
<1> QED
  BY <1>1, <1>2, <1>3, <1>4, <1>5, <1>6

\* The rest of an answer that the script no longer waits for.
LEMMA LateAnswerFlow ==
  ASSUME Types, Flow, ~Interrupted, client = "send", Puback
  PROVE  Flow'
<1>1. /\ waiting /\ online /\ outbox # <<>> /\ publishQ = <<>> /\ outbox' = <<>> /\ Len(<<>>) = 0
      /\ publishQ' = <<Event("PUBLISHED")>> /\ Hear(outbox[1]) /\ outbox[1] \in Answers
      /\ Event("PUBLISHED").kind = "PUBLISHED"
      /\ UNCHANGED <<subscribeQ, main, mainBuf, pub, waiting, buf, position, context, entries, joined,
                     online, flash, step, runs, faults>>
  BY Acknowledged
<1>2. PICK m : m = outbox[1]
  OBVIOUS
<1>3. /\ m \in Answers /\ outbox[1] = m /\ publishQ' # <<>> /\ publishQ'[1].kind = "PUBLISHED"
      /\ Len(publishQ') = 1
      /\ heard' = (IF m.topic \in Subscribed THEN Append(heard, m) ELSE heard)
      /\ acked' = (IF m.topic \in Subscribed /\ m.kind = "header" /\ m.content = <<"ACK">>
                     THEN acked \cup {<<m.topic, m.file>>} ELSE acked)
      /\ client' = (IF m.topic \in Subscribed /\ client = "wait" /\ Enough(m) THEN "heard" ELSE client)
  <2>0. ~CannotDecode(m)
    BY <1>1, <1>2 DEF CannotDecode, Flow, Answering
  <2>1. publishQ' # <<>> /\ publishQ'[1] = Event("PUBLISHED") /\ Len(publishQ') = 1
    BY <1>1
  <2>2. CASE m.topic \in Subscribed
    BY <1>1, <1>2, <2>1, <2>2, <2>0 DEF Hear, Hears
  <2>3. CASE m.topic \notin Subscribed
    BY <1>1, <1>2, <2>1, <2>3 DEF Hear, Hears
  <2> QED
    BY <2>2, <2>3
<1>4. /\ ~PubIdle /\ ~InSubscribe /\ ~InSubscribe' /\ main # "forward" /\ ~InPublish /\ ~InPublish'
      /\ subscribeQ = <<>> /\ step \in Requests
  BY <1>1, <1>3, EntryTypes DEF PubIdle, InSubscribe, InPublish, Flow, Single, Types, HostTypes
<1>5. heard \in Seq(Answers) /\ Told = Append(heard, m) /\ Told \in Seq(Answers)
  BY <1>1, <1>3, ToldFacts DEF Flow, Single
<1>6. m.kind = "tailer" /\ client' = "send" /\ acked' = acked
  BY <1>1, <1>3 DEF Flow, Answering
<1>7. \A k : (Acked(k)' <=> Acked(k)) /\ (Promised(k)' <=> Acked(k)) /\ (Promised(k) <=> Acked(k))
  BY <1>1, <1>3, <1>6 DEF Acked, Promised
<1>8. Accepted' => Accepted
  BY <1>1, <1>4, <1>7 DEF Accepted
<1>9. Single'
  BY <1>1, <1>2, <1>3, <1>4, <1>5, <1>6, <1>7, <1>8 DEF Flow, Single, InSubscribe, InPublish, PubIdle
<1>10. Connected'
  BY <1>1, <1>2, <1>3, <1>4, <1>5, <1>6, <1>7, <1>8 DEF Flow, Connected
<1>11. Paced'
  BY <1>1, <1>2, <1>3, <1>4, <1>5, <1>6, <1>7, <1>8 DEF Flow, Paced
<1>12. Answering'
  BY <1>1, <1>2, <1>3, <1>4, <1>5, <1>6, <1>7, <1>8 DEF Flow, Answering
<1>13. Shape'
  BY <1>1, <1>2, <1>3, <1>4, <1>5, <1>6, <1>7, <1>8 DEF Flow, Shape
<1>14. Past'
  BY <1>1, <1>2, <1>3, <1>4, <1>5, <1>6, <1>7, <1>8 DEF Flow, Past, Acked
<1>15. Compression'
  BY <1>1, <1>2, <1>3, <1>4, <1>5, <1>6, <1>7, <1>8 DEF Flow, Compression, Compressing, MainGone, InSubscribe, InPublish, Accepted, Promised, Acked
<1>16. Download'
  BY <1>1, <1>2, <1>3, <1>4, <1>5, <1>6, <1>7, <1>8 DEF Flow, Download, Digest, Content
<1>17. Deletion'
  BY <1>1, <1>2, <1>3, <1>4, <1>5, <1>6, <1>7, <1>8 DEF Flow, Deletion, Promised, Acked
<1> QED
  BY <1>9, <1>10, <1>11, <1>12, <1>13, <1>14, <1>15, <1>16, <1>17 DEF Flow

\* A message that the script waits for is heard, and adds nothing to the answer under way.
LEMMA AnswerFlow ==
  ASSUME Types, Flow, ~Interrupted, client \in {"wait", "heard"}, ~CannotDecode(outbox[1]), Puback
  PROVE  Flow'
<1>1. /\ waiting /\ online /\ outbox # <<>> /\ publishQ = <<>> /\ outbox' = <<>> /\ Len(<<>>) = 0
      /\ publishQ' = <<Event("PUBLISHED")>> /\ Hear(outbox[1]) /\ outbox[1] \in Answers
      /\ Event("PUBLISHED").kind = "PUBLISHED"
      /\ UNCHANGED <<subscribeQ, main, mainBuf, pub, waiting, buf, position, context, entries, joined,
                     online, flash, step, runs, faults>>
  BY Acknowledged
<1>2. PICK m : m = outbox[1]
  OBVIOUS
<1>3. /\ m \in Answers /\ outbox[1] = m /\ publishQ' # <<>> /\ publishQ'[1].kind = "PUBLISHED"
      /\ Len(publishQ') = 1
      /\ heard' = (IF m.topic \in Subscribed THEN Append(heard, m) ELSE heard)
      /\ acked' = (IF m.topic \in Subscribed /\ m.kind = "header" /\ m.content = <<"ACK">>
                     THEN acked \cup {<<m.topic, m.file>>} ELSE acked)
      /\ client' = (IF m.topic \in Subscribed /\ client = "wait" /\ Enough(m) THEN "heard" ELSE client)
  <2>1. publishQ' # <<>> /\ publishQ'[1] = Event("PUBLISHED") /\ Len(publishQ') = 1
    BY <1>1
  <2>2. CASE m.topic \in Subscribed
    BY <1>1, <1>2, <2>1, <2>2 DEF Hear, Hears
  <2>3. CASE m.topic \notin Subscribed
    BY <1>1, <1>2, <2>1, <2>3 DEF Hear, Hears
  <2> QED
    BY <2>2, <2>3
<1>4. /\ ~PubIdle /\ ~InSubscribe /\ ~InSubscribe' /\ main # "forward" /\ ~InPublish /\ ~InPublish'
      /\ subscribeQ = <<>> /\ step \in Requests
  BY <1>1, <1>3, EntryTypes DEF PubIdle, InSubscribe, InPublish, Flow, Single, Types, HostTypes
<1>5. heard \in Seq(Answers) /\ Told = Append(heard, m) /\ Told \in Seq(Answers)
  BY <1>1, <1>3, ToldFacts DEF Flow, Single
<1>6. /\ Told # <<>> /\ DOMAIN Told = 1..(Len(heard) + 1) /\ Len(Told) = Len(heard) + 1
      /\ Told[Len(heard) + 1] = m /\ Len(heard) \in Nat
      /\ heard = <<>> <=> Len(heard) = 0
      /\ heard # <<>> => Told[1] = heard[1]
  BY <1>3, <1>5, AppendFacts
<1>7. /\ m.topic = TopicOf(step) /\ m.file = FileOf(step) /\ m.topic \in Subscribed
      /\ m.kind = "header" <=> heard = <<>>
      /\ m.kind = "tailer" => pub = "loop"
      /\ m.kind \in {"header", "data", "tailer"}
  <2>1. Len(heard) + 1 \in DOMAIN Told /\ (Len(heard) + 1 = 1 <=> Len(heard) = 0)
    BY <1>6
  <2>2. /\ m.topic = TopicOf(step) /\ m.file = FileOf(step)
        /\ m.kind = "header" <=> Len(heard) + 1 = 1
        /\ m.kind = "tailer" => pub = "loop"
    BY <1>6, <2>1 DEF Flow, Shape
  <2>3. m.kind \in {"header", "data", "tailer"}
    BY <1>3 DEF Answers
  <2> QED
    BY <1>4, <1>6, <2>1, <2>2, <2>3, SubscribedToStep
<1>8. heard' = Append(heard, m) /\ heard' = Told /\ Told' = Told
  <2>1. heard' = Told
    BY <1>3, <1>5, <1>7
  <2>2. Told \o <<>> = Told
    BY <1>5
  <2> QED
    BY <1>1, <1>5, <2>1, <2>2 DEF Told
<1>9. /\ client \in {"wait", "heard"} /\ client' \in {"wait", "heard"}
      /\ client = "heard" => client' = "heard"
      /\ client = "wait" /\ Enough(m) => client' = "heard"
      /\ client' = "heard" => client = "heard" \/ Enough(m)
  BY <1>3, <1>7 DEF Types, HostTypes
<1>10. ASSUME NEW k \in Requests, Acked(k)'
       PROVE  \/ Acked(k)
              \/ k = step /\ heard = <<>> /\ m.kind = "header" /\ m.content = <<"ACK">>
  <2>1. CASE Acked(k)
    BY <2>1
  <2>2. CASE ~Acked(k)
    <3>1. /\ acked' = acked \cup {<<m.topic, m.file>>} /\ m.kind = "header" /\ m.content = <<"ACK">>
      BY <1>3, <1>10, <2>2 DEF Acked
    <3>2. <<TopicOf(k), FileOf(k)>> = <<m.topic, m.file>>
      BY <1>10, <2>2, <3>1 DEF Acked
    <3>3. TopicOf(k) = TopicOf(step) /\ FileOf(k) = FileOf(step)
      BY <1>7, <3>2
    <3> QED
      BY <1>4, <1>7, <3>1, <3>3, SubjectsDiffer
  <2> QED
    BY <2>1, <2>2
<1>11. \A k \in Requests : Promised(k)' => Promised(k)
  BY <1>1, <1>3, <1>7, <1>10 DEF Promised
<1>12. Accepted' => Accepted
  <2>1. "put" \in Requests
    BY EntryTypes
  <2> QED
    BY <1>1, <1>4, <1>11, <2>1 DEF Accepted
<1>13. \A k \in {"put", "get", "del_src", "del_br"} : k \in Requests
  BY EntryTypes
<1>14. client' = "wait" => client = "wait" /\ ~Enough(m)
  BY <1>9
<1>15. /\ step = "put" => TopicOf(step) = "put"
       /\ step = "get" => TopicOf(step) = "get"
       /\ step = "list" => TopicOf(step) = "list"
       /\ step \in {"del_src", "del_br"} => TopicOf(step) = "delete"
       /\ step \in {"put", "get", "list", "del_src", "del_br"}
  BY <1>4, SubjectTypes, EntryTypes
<1>16. Single'
  <2>1. client' = "wait" => pub # "loop"
    <3> SUFFICES ASSUME client' = "wait", pub = "loop" PROVE FALSE
      OBVIOUS
    <3>1. client = "wait" /\ ~Enough(m)
      BY <1>14
    <3>2. m.kind = "tailer"
      BY <1>1, <1>3 DEF Flow, Answering
    <3>3. step = "put"
      BY <1>7, <1>15, <3>1, <3>2 DEF Enough
    <3>4. heard = <<>>
      BY <3>1, <3>3 DEF Flow, Answering
    <3> QED
      BY <1>7, <3>2, <3>4
  <2>2. Len(subscribeQ') \in 0..1 /\ Len(publishQ') \in 0..1 /\ Len(outbox') \in 0..1
    BY <1>1, <1>3 DEF Flow, Single
  <2> QED
    BY <1>1, <1>4, <2>1, <2>2 DEF Single
<1>17. Connected'
  BY <1>1, <1>2, <1>3, <1>4, <1>5, <1>6, <1>7, <1>8, <1>9, <1>10, <1>11, <1>12, <1>13, <1>14, <1>15 DEF Flow, Connected
<1>18. Paced'
  BY <1>1, <1>2, <1>3, <1>4, <1>5, <1>6, <1>7, <1>8, <1>9, <1>10, <1>11, <1>12, <1>13, <1>14, <1>15 DEF Flow, Paced
<1>19. Answering'
  <2>1. pub \in {"header", "get", "read", "list"} => client' = "wait"
    <3> SUFFICES ASSUME pub \in {"header", "get", "read", "list"}, client' = "heard" PROVE FALSE
      BY <1>9
    <3>1. client = "wait" /\ pub # "header"
      BY <1>1 DEF Flow, Answering
    <3>2. buf.kind = step /\ buf.kind \in {"get", "list"}
      BY <3>1 DEF Flow, Answering
    <3>3. Enough(m)
      BY <1>9, <3>1
    <3> QED
      BY <1>7, <1>15, <3>2, <3>3 DEF Enough
  <2>2. client' = "heard" /\ step \in {"get", "list"} => pub = "loop"
    <3>1. CASE client = "heard"
      BY <3>1 DEF Flow, Answering
    <3>2. CASE Enough(m)
      BY <1>7, <1>15, <3>2 DEF Enough
    <3> QED
      BY <1>9, <3>1, <3>2
  <2>3. client' = "wait" /\ step = "put" => heard' = <<>>
    <3> SUFFICES ASSUME client' = "wait", step = "put" PROVE FALSE
      OBVIOUS
    <3>1. heard = <<>>
      BY <1>14 DEF Flow, Answering
    <3> QED
      BY <1>7, <1>14, <1>15, <3>1 DEF Enough
  <2> QED
    BY <1>1, <1>9, <2>1, <2>2, <2>3 DEF Flow, Answering
<1>20. Shape'
  BY <1>1, <1>2, <1>3, <1>4, <1>5, <1>6, <1>7, <1>8, <1>9, <1>10, <1>11, <1>12, <1>13, <1>14, <1>15 DEF Flow, Shape
<1>21. Past'
  <2>1. Acked("put")' => step \in {"get", "del_src", "del_br"} \/ (step = "put" /\ client' = "heard")
    <3> SUFFICES ASSUME Acked("put")' PROVE step \in {"get", "del_src", "del_br"} \/ (step = "put" /\ client' = "heard")
      OBVIOUS
    <3>1. CASE Acked("put")
      BY <1>9, <3>1 DEF Flow, Past
    <3>2. CASE step = "put" /\ m.kind = "header"
      BY <1>7, <1>9, <1>15, <3>2 DEF Enough
    <3> QED
      BY <1>10, <1>13, <3>1, <3>2
  <2>2. Acked("get")' => \/ step \in {"del_src", "del_br"}
                         \/ step = "get" /\ heard' # <<>> /\ heard'[1].content = <<"ACK">>
    <3> SUFFICES ASSUME Acked("get")', step \notin {"del_src", "del_br"}
                 PROVE  step = "get" /\ heard' # <<>> /\ heard'[1].content = <<"ACK">>
      OBVIOUS
    <3>1. CASE Acked("get")
      BY <1>6, <1>8, <3>1 DEF Flow, Past
    <3>2. CASE step = "get" /\ heard = <<>> /\ m.content = <<"ACK">>
      <4>1. Told[1] = m
        BY <1>6, <3>2
      <4> QED
        BY <1>6, <1>8, <3>2, <4>1
    <3> QED
      BY <1>10, <1>13, <3>1, <3>2
  <2>3. /\ Acked("del_src")' => step \in {"del_src", "del_br"}
        /\ Acked("del_br")' => step = "del_br"
    BY <1>10, <1>13 DEF Flow, Past
  <2> QED
    BY <1>1, <1>9, <2>1, <2>2, <2>3 DEF Past, Acked
<1>22. Compression'
  BY <1>1, <1>2, <1>3, <1>4, <1>5, <1>6, <1>7, <1>8, <1>9, <1>10, <1>11, <1>12, <1>13, <1>14, <1>15 DEF Flow, Compression, Compressing, MainGone, InSubscribe, InPublish, Accepted, Promised, Acked
<1>23. Download'
  BY <1>1, <1>2, <1>3, <1>4, <1>5, <1>6, <1>7, <1>8, <1>9, <1>10, <1>11, <1>12, <1>13, <1>14, <1>15 DEF Flow, Download, Digest, Content
<1>24. Deletion'
  BY <1>1, <1>2, <1>3, <1>4, <1>5, <1>6, <1>7, <1>8, <1>9, <1>10, <1>11, <1>12, <1>13, <1>14, <1>15 DEF Flow, Deletion, Promised, Acked
<1> QED
  BY <1>16, <1>17, <1>18, <1>19, <1>20, <1>21, <1>22, <1>23, <1>24 DEF Flow

\* A block that the script cannot decode, and what comes after it, is heard by nobody.
LEMMA DeadFlow ==
  ASSUME Types, Flow, ~Interrupted, Puback,
         client = "dead" \/ (client # "send" /\ CannotDecode(outbox[1]))
  PROVE  Flow'
<1>1. /\ waiting /\ online /\ outbox # <<>> /\ publishQ = <<>> /\ outbox' = <<>> /\ Len(<<>>) = 0
      /\ publishQ' = <<Event("PUBLISHED")>> /\ Hear(outbox[1]) /\ outbox[1] \in Answers
      /\ Event("PUBLISHED").kind = "PUBLISHED"
      /\ UNCHANGED <<subscribeQ, main, mainBuf, pub, waiting, buf, position, context, entries, joined,
                     online, flash, step, runs, faults>>
  BY Acknowledged
<1>2. PICK m \in Answers : m = outbox[1]
  BY <1>1
<1>3. /\ heard \in Seq(Answers) /\ Told = Append(heard, m) /\ Told # <<>>
      /\ DOMAIN Told = 1..(Len(heard) + 1) /\ Len(Told) = Len(heard) + 1 /\ Len(heard) \in Nat
      /\ Told[Len(heard) + 1] = m /\ DOMAIN heard = 1..Len(heard)
      /\ \A i \in 1..Len(heard) : i \in DOMAIN Told /\ heard[i] = Told[i] /\ i # Len(Told)
      /\ heard = <<>> <=> Len(heard) = 0
  <2>1. heard \in Seq(Answers) /\ Told = Append(heard, m)
    BY <1>1, <1>2, ToldFacts DEF Flow, Single
  <2> QED
    BY <2>1, AppendFacts
<1>4. /\ m.topic = TopicOf(step) /\ m.file = FileOf(step) /\ m.topic \in Subscribed
      /\ m.kind = "header" <=> heard = <<>>
      /\ m.kind = "tailer" => pub = "loop"
  <2>1. Len(heard) + 1 \in DOMAIN Told /\ (Len(heard) + 1 = 1 <=> Len(heard) = 0) /\ client # "send"
    BY <1>3
  <2>2. /\ m.topic = TopicOf(step) /\ m.file = FileOf(step)
        /\ m.kind = "header" <=> Len(heard) + 1 = 1
        /\ m.kind = "tailer" => pub = "loop"
    BY <1>3, <2>1 DEF Flow, Shape
  <2> QED
    BY <1>3, <2>1, <2>2, SubscribedToStep DEF Types, HostTypes
<1>5. step = "get" /\ heard # <<>> /\ pub \in {"read", "tailer", "loop"}
  <2>1. CASE client = "dead"
    BY <2>1 DEF Flow, Answering
  <2>2. CASE client # "dead"
    <3>1. m.topic = "get" /\ m.kind = "data" /\ client # "send"
      BY <1>2, <2>2 DEF CannotDecode
    <3>2. step = "get" /\ heard # <<>> /\ pub \notin {"header", "get"}
      <4>1. step \in Requests /\ TopicOf(step) = "get" /\ heard # <<>>
        BY <1>4, <3>1 DEF Types, HostTypes
      <4>2. step = "get"
        BY <4>1, EntryTypes, SubjectTypes
      <4>3. Told # <<>> /\ Len(Told) # 1
        BY <1>3, <4>1
      <4> QED
        BY <3>1, <4>1, <4>2, <4>3 DEF Flow, Shape
    <3>3. pub \notin {"list", "del_src", "del_br", "deleted"}
      BY <3>1, <3>2 DEF Flow, Answering, Connected
    <3> QED
      BY <3>2, <3>3 DEF Types, TaskTypes
  <2> QED
    BY <2>1, <2>2
<1>6. client' = "dead" /\ UNCHANGED <<heard, acked>>
  <2>1. CASE client = "dead"
    BY <1>1, <2>1 DEF Hear, Hears
  <2>2. CASE client # "dead"
    BY <1>1, <1>2, <1>4, <2>2 DEF Hear, Hears
  <2> QED
    BY <2>1, <2>2
<1>7. Told' = heard
  BY <1>1, <1>3, <1>6 DEF Told
<1>8. /\ ~PubIdle /\ ~InSubscribe /\ ~InSubscribe' /\ main # "forward" /\ ~InPublish /\ ~InPublish'
      /\ subscribeQ = <<>> /\ publishQ' # <<>> /\ publishQ'[1].kind = "PUBLISHED" /\ Len(publishQ') = 1
  BY <1>1, EntryTypes DEF PubIdle, InSubscribe, InPublish, Flow, Single
<1>9. /\ \A k : (Acked(k)' <=> Acked(k)) /\ (Promised(k)' => Promised(k))
      /\ Accepted' => Accepted
  BY <1>1, <1>6, <1>8 DEF Acked, Promised, Accepted
<1>10. client # "send" /\ client # "heard"
  BY <1>1, <1>2, <1>5 DEF Flow, Answering, CannotDecode
<1>11. Single'
  BY <1>1, <1>5, <1>6, <1>8 DEF Flow, Single
<1>12. Connected' /\ Paced'
  BY <1>1, <1>6, <1>8 DEF Flow, Connected, Paced
<1>13. Answering'
  BY <1>1, <1>5, <1>6, <1>10 DEF Flow, Answering
<1>14. Shape'
  BY <1>1, <1>3, <1>5, <1>6, <1>7, <1>10 DEF Flow, Shape
<1>15. Past'
  BY <1>1, <1>5, <1>6, <1>9, <1>10 DEF Flow, Past
<1>16. Compression'
  BY <1>1, <1>5, <1>6, <1>8, <1>9, <1>10 DEF Flow, Compression, Compressing, MainGone, InSubscribe
<1>17. Download'
  BY <1>1, <1>3, <1>5, <1>6, <1>7, <1>10 DEF Flow, Shape, Download, Digest, Content
<1>18. Deletion'
  BY <1>1, <1>9 DEF Flow, Deletion
<1> QED
  BY <1>11, <1>12, <1>13, <1>14, <1>15, <1>16, <1>17, <1>18 DEF Flow

\* Without interruptions the connection stays, and PUB with it.
LEMMA NoOther ==
  ASSUME Types, Flow
  PROVE  ~Unreachable /\ ~Expire /\ (Disconnect \/ PowerLoss \/ Panic => Interrupted')
<1>1. ~Unreachable
  BY DEF Flow, Connected, Unreachable
<1>2. ~Expire
  BY DEF Flow, Connected, Paced, Expire
<1>3. Disconnect => Interrupted'
  BY DEF Disconnect, Interruption, Interrupted
<1>4. PowerLoss \/ Panic => Interrupted'
  BY DEF PowerLoss, Panic, Reboot, Interruption, Interrupted
<1> QED
  BY <1>1, <1>2, <1>3, <1>4

\* What has gone wrong is not forgotten.
LEMMA FaultsGrow == [Next]_vars => faults \subseteq faults'
<1> SUFFICES ASSUME [Next]_vars PROVE faults \subseteq faults'
  OBVIOUS
<1>1. CASE Host
  BY <1>1 DEF Host, AskNext, UploadDamaged, AskList, Answered, TimesOut, RunAgain, GoOn, Fault, history
<1>2. CASE Mqtt
  BY <1>2 DEF Mqtt, Connect, Puback, Disconnect, Unreachable, Expire, Interruption, history
<1>3. CASE PowerLoss \/ Panic
  BY <1>3 DEF PowerLoss, Panic, Reboot, Interruption
<1>4. CASE Main
  BY <1>4 DEF Main, MainReceive, Forward, CompressStarts, CompressEnds, Succeeds, Fails, Fault, history
<1>5. CASE Pub /\ ~Panic /\ ~SendHeader
  BY <1>5 DEF Pub, Take, WaitFor, Open, SendBlock, EndOfFile, SendEntry, EndOfList,
              Delete, SendTailer, Fault, history
<1>6. CASE SendHeader
  <2>1. PICK ok \in BOOLEAN :
          CASE buf.kind = "put"  -> ok = buf.ok /\ UNCHANGED history
            [] buf.kind = "list" -> IF ok THEN UNCHANGED history ELSE Fault("flash")
            [] OTHER -> ok = (flash[File] # Absent) /\ UNCHANGED history
    BY <1>6 DEF SendHeader
  <2>2. UNCHANGED history \/ Fault("flash")
    <3>1. CASE buf.kind = "put"
      BY <2>1, <3>1
    <3>2. CASE buf.kind = "list"
      BY <2>1, <3>2
    <3>3. CASE buf.kind \notin {"put", "list"}
      BY <2>1, <3>3
    <3> QED
      BY <3>1, <3>2, <3>3
  <2> QED
    BY <2>2 DEF history, Fault
<1>7. CASE UNCHANGED vars
  BY <1>7 DEF vars, history
<1> QED
  BY <1>1, <1>2, <1>3, <1>4, <1>5, <1>6, <1>7 DEF Next, Pub

\* A step that changes nothing.
LEMMA StutterFlow == ASSUME Flow, UNCHANGED vars PROVE Flow'
<1>1. UNCHANGED <<subscribeQ, publishQ, main, mainBuf, pub, waiting, buf, position, context,
                  entries, joined, online, outbox, flash, step, client, heard, acked, runs, lists,
                  faults, losses>>
  BY DEF vars, queues, mainVars, locals, mqtt, host, history
<1>2. (\A k : Acked(k)' <=> Acked(k)) /\ (\A k : Promised(k)' <=> Promised(k)) /\ Told' = Told
  BY <1>1 DEF Acked, Promised, Told
<1>3. (InSubscribe' <=> InSubscribe) /\ (InPublish' <=> InPublish) /\ (PubIdle' <=> PubIdle)
      /\ (Compressing' <=> Compressing) /\ (MainGone' <=> MainGone) /\ Content("br")' = Content("br")
  BY <1>1 DEF InSubscribe, InPublish, PubIdle, Compressing, MainGone, Content
<1>4. Accepted' <=> Accepted
  BY <1>1, <1>2, <1>3 DEF Accepted
<1>5. Single' /\ Connected' /\ Paced'
  BY <1>1, <1>3 DEF Flow, Single, Connected, Paced
<1>6. Answering' /\ Shape' /\ Past'
  BY <1>1, <1>2 DEF Flow, Answering, Shape, Past
<1>7. Compression' /\ Deletion'
  BY <1>1, <1>2, <1>3, <1>4 DEF Flow, Compression, Deletion
<1>8. Download'
  BY <1>1, <1>2, <1>3 DEF Flow, Download, Digest
<1> QED
  BY <1>5, <1>6, <1>7, <1>8 DEF Flow

\* Every step keeps the flow, as long as nothing interrupts it.
LEMMA StepFlow ==
  ASSUME Punctual, Types, FlowInv, [Next]_vars
  PROVE  FlowInv'
<1> SUFFICES ASSUME ~Interrupted' PROVE Flow'
  BY DEF FlowInv
<1>1. faults \subseteq faults' /\ ~Interrupted
  BY FaultsGrow DEF Interrupted
<1>2. Flow
  BY <1>1 DEF FlowInv
<1>3. CASE Host
  <2>1. CASE AskNext
    <3>1. step \in Requests /\ TRUE \in BOOLEAN
      BY DEF Types, HostTypes
    <3>2. Ask(step, TRUE) /\ step' = step
      BY <2>1 DEF AskNext
    <3> QED
      BY <1>1, <1>2, <3>1, <3>2, AskFlow
  <2>2. CASE UploadDamaged
    <3>1. "put" \in Requests /\ FALSE \in BOOLEAN
      BY EntryTypes
    <3>2. Ask("put", FALSE) /\ step' = step /\ step = "put"
      BY <2>2 DEF UploadDamaged
    <3> QED
      BY <1>1, <1>2, <3>1, <3>2, AskFlow
  <2>3. CASE AskList
    <3>1. "list" \in Requests /\ TRUE \in BOOLEAN
      BY EntryTypes
    <3>2. Ask("list", TRUE) /\ step' = "list" /\ step = "put"
      BY <2>3 DEF AskList
    <3> QED
      BY <1>1, <1>2, <3>1, <3>2, AskFlow
  <2>4. CASE Answered \/ TimesOut \/ RunAgain
    BY <1>1, <1>2, <2>4, GoOnFlow
  <2> QED
    BY <1>3, <2>1, <2>2, <2>3, <2>4 DEF Host
<1>4. CASE Mqtt
  <2>1. CASE Connect
    BY <1>1, <1>2, <2>1, ConnectFlow
  <2>2. CASE Puback
    <3>1. client \in {"send", "wait", "heard", "dead"}
      BY DEF Types, HostTypes
    <3> QED
      BY <1>1, <1>2, <2>2, <3>1, LateAnswerFlow, AnswerFlow, DeadFlow
  <2> QED
    BY <1>2, <1>4, <2>1, <2>2, NoOther DEF Mqtt
<1>5. CASE PowerLoss
  BY <1>2, <1>5, NoOther
<1>6. CASE Main
  <2>1. CASE MainReceive
    BY <1>1, <1>2, <2>1, MainReceiveFlow
  <2>2. CASE Forward
    BY <1>1, <1>2, <2>2, ForwardFlow
  <2>3. CASE CompressStarts \/ CompressEnds
    BY <1>1, <1>2, <2>3, CompressFlow
  <2> QED
    BY <1>6, <2>1, <2>2, <2>3 DEF Main
<1>7. CASE Pub
  <2>1. CASE Take
    BY <1>1, <1>2, <2>1, TakeFlow
  <2>2. CASE WaitFor
    BY <1>1, <1>2, <2>2, WaitForFlow
  <2>3. CASE SendHeader
    BY <1>1, <1>2, <2>3, SendHeaderFlow
  <2>4. CASE Open \/ EndOfFile
    BY <1>1, <1>2, <2>4, ReadFlow
  <2>5. CASE Panic
    BY <1>2, <2>5, NoOther
  <2>6. CASE SendBlock
    BY <1>1, <1>2, <2>6, SendBlockFlow
  <2>7. CASE SendEntry
    BY <1>1, <1>2, <2>7, SendEntryFlow
  <2>8. CASE EndOfList
    BY <1>1, <1>2, <2>8, EndOfListFlow
  <2>9. CASE Delete
    BY <1>1, <1>2, <2>9, DeleteFlow
  <2>10. CASE SendTailer
    BY <1>1, <1>2, <2>10, SendTailerFlow
  <2> QED
    BY <1>7, <2>1, <2>2, <2>3, <2>4, <2>5, <2>6, <2>7, <2>8, <2>9, <2>10 DEF Pub
<1>8. CASE UNCHANGED vars
  BY <1>2, <1>8, StutterFlow
<1> QED
  BY <1>3, <1>4, <1>5, <1>6, <1>7, <1>8 DEF Next

\* With a host that lets every answer finish, until something interrupts it: one request and
\* one message at a time (mqtt_pub.c:111), an answer that is whole, and the upload compressed
\* before the next request is forwarded (main.c:290, 304).
THEOREM FlowKept == ASSUME Punctual PROVE Spec => []FlowInv
<1>1. Types /\ FlowInv /\ [Next]_vars => FlowInv'
  BY StepFlow
<1>2. Init => FlowInv
  BY InitFlow
<1> QED
  BY <1>1, <1>2, TypesKept, PTL DEF Spec

-----------------------------------------------------------------------------
(* What the host may rely on.                                               *)

\* What the script hears between two requests is one answer, whole and in order, to its own
\* request: the header first, the tailer last.
THEOREM OneAnswerOnly == ASSUME Punctual PROVE Spec => []OneAnswer
<1>1. Types /\ FlowInv => OneAnswer
  <2> SUFFICES ASSUME Types, FlowInv, client # "send", ~Interrupted, NEW i \in DOMAIN heard
               PROVE  /\ heard[i].topic = TopicOf(step) /\ heard[i].file = FileOf(step)
                      /\ heard[i].kind = "header" <=> i = 1
                      /\ heard[i].kind = "tailer" => i = Len(heard)
    BY DEF OneAnswer
  <2>1. Flow
    BY DEF FlowInv
  <2>2. heard \in Seq(Answers) /\ Told \in Seq(Answers)
        /\ (outbox = <<>> => Told = heard)
        /\ (outbox # <<>> => outbox[1] \in Answers /\ Told = Append(heard, outbox[1]))
    BY <2>1, ToldFacts DEF Flow, Single
  <2>3. /\ Told[i] = heard[i] /\ i \in DOMAIN Told
        /\ outbox # <<>> => i # Len(Told)
    <3>1. CASE outbox = <<>>
      BY <2>2, <3>1
    <3>2. CASE outbox # <<>>
      <4>1. PICK m \in Answers : Told = Append(heard, m)
        BY <2>2, <3>2
      <4>2. /\ DOMAIN Told = 1..(Len(heard) + 1) /\ Len(Told) = Len(heard) + 1
            /\ Len(heard) \in Nat /\ DOMAIN heard = 1..Len(heard)
        BY <2>2, <4>1
      <4>3. i \in 1..(Len(heard) + 1) /\ i # Len(heard) + 1
        BY <4>2
      <4>4. Told[i] = heard[i]
        BY <2>2, <4>1, <4>3, AppendFacts
      <4>5. i # Len(Told) /\ i \in DOMAIN Told
        BY <4>2, <4>3
      <4> QED
        BY <4>4, <4>5
    <3> QED
      BY <3>1, <3>2
  <2>4. /\ Told[i].topic = TopicOf(step) /\ Told[i].file = FileOf(step)
        /\ Told[i].kind = "header" <=> i = 1
        /\ Told[i].kind = "tailer" => i = Len(Told)
    BY <2>1, <2>3 DEF Flow, Shape
  <2>5. heard[i].kind = "tailer" => i = Len(heard)
    BY <2>2, <2>3, <2>4
  <2> QED
    BY <2>3, <2>4, <2>5
<1> QED
  BY <1>1, TypesKept, FlowKept, PTL

\* A download answered with ACK after an upload answered with ACK, whose hash the script finds
\* valid, is of the compressed form of that upload (main.c:304, mqtt_pub.c:247): a beginning of
\* it, and the whole unless a read failed (mqtt_pub.c:257).
THEOREM DownloadsWhole == ASSUME Punctual PROVE Spec => []GetWhole
<1>1. Types /\ FlowInv => GetWhole
  <2> SUFFICES ASSUME Types, FlowInv, step = "get", Acked("put"), Acked("get"), HeardValid,
                      ~Interrupted
               PROVE  /\ Got \in Beginnings(Compressed(runs))
                      /\ "flash" \notin faults => Got = Compressed(runs)
    BY DEF GetWhole
  <2>1. Flow
    BY DEF FlowInv
  <2>2. client # "send" /\ heard # <<>> /\ heard[1].content = <<"ACK">>
    BY <2>1 DEF Flow, Past
  <2>3. PICK hash : hash = heard[Len(heard)].content
    OBVIOUS
  <2>4. /\ heard[Len(heard)].kind = "tailer" /\ DOMAIN HeardBlocks = DOMAIN hash
        /\ \A i \in DOMAIN HeardBlocks : HeardBlocks[i].content[1] = hash[i]
    BY <2>3 DEF HeardValid
  <2>5. /\ heard \in Seq(Answers) /\ Len(heard) \in DOMAIN heard /\ Len(heard) \in Nat
        /\ 1 \in DOMAIN heard /\ heard[Len(heard)] \in Answers
    <3>1. heard \in Seq(Answers) /\ Len(heard) \in Nat /\ Len(heard) # 0
      BY <2>2 DEF Types, HostTypes
    <3> QED
      BY <3>1
  <2>6. outbox = <<>> /\ Told = heard
    <3>1. CASE outbox = <<>>
      BY <2>1, <3>1, ToldFacts DEF Flow, Single
    <3>2. CASE outbox # <<>>
      <4>1. PICK m \in Answers : Told = Append(heard, m)
        BY <2>1, <3>2, ToldFacts DEF Flow, Single
      <4>2. Len(heard) \in DOMAIN Told /\ Told[Len(heard)] = heard[Len(heard)]
            /\ Len(Told) = Len(heard) + 1
        BY <2>5, <4>1
      <4>3. Len(heard) = Len(Told)
        BY <2>1, <2>2, <2>4, <4>2 DEF Flow, Shape
      <4> QED
        BY <2>5, <4>2, <4>3
    <3> QED
      BY <3>1, <3>2
  <2>7. Digest(hash) /\ pub = "loop"
    BY <2>1, <2>2, <2>3, <2>4, <2>5, <2>6 DEF Flow, Download, Shape
  <2>8. ~InSubscribe /\ main \in {"receive", "forward"}
    BY <2>1, <2>2 DEF Flow, Single, Compression, InSubscribe
  <2>9. flash["br"] = Compressed(runs)
    BY <2>1, <2>8 DEF Flow, Compression, Accepted, Promised, Compressing, MainGone
  <2>10. Compressed(runs) # Absent
    <3>1. runs \in Nat /\ Blocks \in Nat
      BY ConstantsAssumption DEF Types, HostTypes
    <3>2. \A i \in 1..Blocks : <<runs, i>> \in Nat \X Nat
      BY <3>1
    <3>3. Compressed(runs) \in Seq(Nat \X Nat)
      BY <3>1, <3>2 DEF Compressed
    <3> QED
      BY <3>3, ConstantsAssumption
  <2>11. /\ hash \in Beginnings(Compressed(runs))
         /\ "flash" \notin faults => hash = Compressed(runs)
    BY <2>7, <2>9, <2>10 DEF Content, Digest
  <2>12. Got = hash
    <3>1. hash \in Seq(Items)
      BY <2>3, <2>5 DEF Answers
    <3>2. [i \in DOMAIN hash |-> hash[i]] = hash
      BY <3>1
    <3> QED
      BY <2>4, <3>2 DEF Got
  <2> QED
    BY <2>11, <2>12
<1> QED
  BY <1>1, TypesKept, FlowKept, PTL

\* A script that was told of both deletions leaves neither file, once PUB is done
\* (mqtt_pub.c:341, the unlink after the ACK).
THEOREM DeletionsDone == ASSUME Punctual PROVE Spec => []DeletedIsGone
<1>1. Types /\ FlowInv => DeletedIsGone
  <2> SUFFICES ASSUME Types, FlowInv, Acked("del_src"), Acked("del_br"), PubIdle, faults = {}
               PROVE  \A f \in Files : flash[f] = Absent
    BY DEF DeletedIsGone
  <2>1. Flow
    BY DEF FlowInv, Interrupted
  <2>2. Promised("del_src") /\ Promised("del_br") /\ pub = "loop"
    BY DEF Promised, PubIdle
  <2>3. flash[FileOf("del_src")] = Absent /\ flash[FileOf("del_br")] = Absent
    BY <2>1, <2>2 DEF Flow, Deletion
  <2> QED
    BY <2>3, SubjectTypes DEF Files
<1> QED
  BY <1>1, TypesKept, FlowKept, PTL

\* Only wait_for and a restart end a wait.
LEMMA WaitEnds ==
  ASSUME [Next]_vars, ~PowerLoss, ~Panic, waiting, ~waiting'
  PROVE  WaitFor
<1>1. ~UNCHANGED waiting
  OBVIOUS
<1>2. Next
  BY <1>1 DEF vars
<1>3. ~Host /\ ~Main
  BY <1>1 DEF Host, AskNext, UploadDamaged, AskList, Ask, Answered, TimesOut, RunAgain, GoOn, Main,
          MainReceive, Forward, CompressStarts, CompressEnds, Succeeds, Fails
<1>4. ~Mqtt
  BY <1>1 DEF Mqtt, Connect, Puback, Disconnect, Unreachable, Expire
<1>5. ~Take /\ ~Open /\ ~EndOfFile /\ ~EndOfList /\ ~Delete
  BY <1>1 DEF Take, Open, EndOfFile, EndOfList, Delete
<1>6. ~SendHeader /\ ~SendBlock /\ ~SendEntry /\ ~SendTailer
  BY DEF SendHeader, SendBlock, SendEntry, SendTailer, Publish
<1> QED
  BY <1>2, <1>3, <1>4, <1>5, <1>6 DEF Next, Pub

\* Without interruptions wait_for ends when the message before it is acknowledged
\* (mqtt_pub.c:111), and not on another event.
THEOREM WaitsProperly == ASSUME Punctual PROVE Spec => WaitsForPublished
<1>1. Types /\ FlowInv /\ [Next]_vars => [waiting /\ ~waiting' /\ ~Interrupted' => outbox = <<>>]_vars
  <2> SUFFICES ASSUME Types, FlowInv, [Next]_vars, waiting, ~waiting', ~Interrupted'
               PROVE  outbox = <<>>
    OBVIOUS
  <2>1. ~Interrupted
    BY FaultsGrow DEF Interrupted
  <2>2. Flow
    BY <2>1 DEF FlowInv
  <2>3. outbox = <<>> \/ publishQ = <<>>
    BY <2>2 DEF Flow, Paced
  <2>4. WaitFor
    BY <2>2, NoOther, WaitEnds
  <2> QED
    BY <2>3, <2>4 DEF WaitFor, Wakes
<1> QED
  BY <1>1, TypesKept, FlowKept, PTL DEF Spec, WaitsForPublished

-----------------------------------------------------------------------------
(* What wait_for takes.                                                     *)

\* Nothing interrupts, and a file that a download found is still there when it is opened.
Smooth == ~Interrupted /\ (pub = "get" => flash["br"] # Absent)

\* The connection stays, since nothing but an upload, the codec and its task can fail.
LEMMA NoInterruption ==
  ASSUME Faults \subseteq {"upload", "codec", "memory", "early"}, Types, Flow, Smooth, [Next]_vars
  PROVE  ~Interrupted' /\ ~PowerLoss /\ ~Panic /\ ~Disconnect
<1>1. ~PowerLoss /\ ~Disconnect
  BY DEF PowerLoss, Disconnect
<1>2. ~Panic
  <2> SUFFICES ASSUME Panic PROVE FALSE
    OBVIOUS
  <2>1. pub = "get" /\ flash[File] = Absent
    BY DEF Panic
  <2>2. File = "br"
    BY <2>1, SubjectTypes DEF File, Flow, Answering
  <2> QED
    BY <2>1, <2>2 DEF Smooth
<1>3. UNCHANGED history \/ \E f \in Faults : Fault(f)
  <2>1. CASE Host
    BY <2>1 DEF Host, AskNext, UploadDamaged, AskList, Answered, TimesOut, RunAgain, GoOn, Fault
  <2>2. CASE Mqtt
    BY <1>1, <2>2 DEF Mqtt, Connect, Puback, Unreachable, Expire
  <2>3. CASE Main
    BY <2>3 DEF Main, MainReceive, Forward, CompressStarts, CompressEnds, Succeeds, Fails, Fault
  <2>4. CASE Pub /\ ~SendHeader
    BY <1>2, <2>4 DEF Pub, Take, WaitFor, Open, SendBlock, EndOfFile, SendEntry, EndOfList,
                      Delete, SendTailer, Fault
  <2>5. CASE SendHeader
    <3>1. PICK ok \in BOOLEAN :
            CASE buf.kind = "put"  -> ok = buf.ok /\ UNCHANGED history
              [] buf.kind = "list" -> IF ok THEN UNCHANGED history ELSE Fault("flash")
              [] OTHER -> ok = (flash[File] # Absent) /\ UNCHANGED history
      BY <2>5 DEF SendHeader
    <3>2. UNCHANGED history \/ Fault("flash")
      <4>1. CASE buf.kind = "put"
        BY <3>1, <4>1
      <4>2. CASE buf.kind = "list"
        BY <3>1, <4>2
      <4>3. CASE buf.kind \notin {"put", "list"}
        BY <3>1, <4>3
      <4> QED
        BY <4>1, <4>2, <4>3
    <3> QED
      BY <3>2 DEF Fault
  <2>6. CASE UNCHANGED vars
    BY <2>6 DEF vars
  <2> QED
    BY <1>1, <2>1, <2>2, <2>3, <2>4, <2>5, <2>6 DEF Next
<1>4. faults' \subseteq faults \cup {"upload", "codec", "memory", "early"}
  BY <1>3 DEF history, Fault
<1> QED
  BY <1>1, <1>2, <1>4 DEF Smooth, Interrupted

\* The file that a download found stays until it is opened: nobody compresses or deletes
\* while PUB answers a GET.
LEMMA StepSmooth ==
  ASSUME Faults \subseteq {"upload", "codec", "memory", "early"}, Types, Flow, Smooth, [Next]_vars
  PROVE  Smooth'
<1>1. ~Interrupted' /\ ~PowerLoss /\ ~Panic /\ ~Disconnect
  BY NoInterruption
<1> SUFFICES ASSUME pub' = "get" PROVE flash'["br"] # Absent
  BY <1>1 DEF Smooth
<1>2. DOMAIN flash = {"src", "br"}
  BY DEF Types, FlashTypes, Files
<1>3. CASE SendHeader
  <2>1. PICK ok \in BOOLEAN :
         /\ CASE buf.kind = "put"  -> ok = buf.ok /\ UNCHANGED history
              [] buf.kind = "list" -> IF ok THEN UNCHANGED history ELSE Fault("flash")
              [] OTHER -> ok = (flash[File] # Absent) /\ UNCHANGED history
         /\ pub' = IF ~ok \/ buf.kind = "put" THEN "tailer" ELSE buf.kind
    BY <1>3 DEF SendHeader
  <2>2. ok = TRUE /\ buf.kind = "get"
    BY <2>1
  <2>3. flash[File] # Absent /\ File = "br"
    BY <2>1, <2>2, SubjectTypes DEF File
  <2> QED
    BY <1>3, <2>3 DEF SendHeader
<1>4. CASE ~SendHeader
  <2>1. pub = "get"
    <3>1. CASE Host
      BY <3>1 DEF Host, AskNext, UploadDamaged, AskList, Ask, Answered, TimesOut, RunAgain, GoOn
    <3>2. CASE Mqtt
      BY <1>1, <3>2 DEF Mqtt, Connect, Puback, Unreachable, Expire
    <3>3. CASE Main
      BY <3>3 DEF Main, MainReceive, Forward, CompressStarts, CompressEnds, Succeeds, Fails
    <3>4. CASE Pub
      <4>1. Take => pub' \in {"loop", "header", "deleted"}
        BY DEF Take
      <4> QED
        BY <1>1, <1>4, <3>4, <4>1 DEF Pub, WaitFor, Open, SendBlock, EndOfFile, SendEntry, EndOfList,
                    Delete, SendTailer
    <3>5. CASE UNCHANGED vars
      BY <3>5 DEF vars
    <3> QED
      BY <1>1, <3>1, <3>2, <3>3, <3>4, <3>5 DEF Next
  <2>2. ~Compressing /\ client = "wait"
    <3>1. client = "wait" /\ step = "get" /\ ~PubIdle
      BY <2>1 DEF Flow, Answering, PubIdle
    <3>2. ~InSubscribe
      BY <3>1 DEF Flow, Single
    <3> QED
      BY <3>1, <3>2 DEF Flow, Compression
  <2>3. flash' = flash
    <3>1. CASE Host
      BY <2>2, <3>1 DEF Host, AskNext, UploadDamaged, AskList, Ask, Answered, TimesOut, RunAgain, GoOn
    <3>2. CASE Mqtt
      BY <1>1, <3>2 DEF Mqtt, Connect, Puback, Unreachable, Expire
    <3>3. CASE Main
      BY <2>2, <3>3 DEF Main, MainReceive, Forward, CompressStarts, CompressEnds, Succeeds, Fails, Compressing
    <3>4. CASE Pub
      BY <1>1, <1>4, <2>1, <3>4 DEF Pub, Take, WaitFor, Open, SendBlock, EndOfFile, SendEntry, EndOfList,
                  Delete, SendTailer
    <3>5. CASE UNCHANGED vars
      BY <3>5 DEF vars
    <3> QED
      BY <1>1, <3>1, <3>2, <3>3, <3>4, <3>5 DEF Next
  <2> QED
    BY <2>1, <2>3 DEF Smooth
<1> QED
  BY <1>3, <1>4

\* When only uploads, the codec and its task fail and each request waits for the answer before it to
\* end, wait_for never takes a request (mqtt_pub.c:95): it is the overlap of two requests
\* alone that has one swallowed.
THEOREM NothingSwallowed ==
  ASSUME Punctual, Faults \subseteq {"upload", "codec", "memory", "early"}
  PROVE  Spec => WaitTakesNoRequest
<1>1. Init => Smooth
  BY DEF Init, Smooth, Interrupted
<1>2. Types /\ FlowInv /\ Smooth /\ [Next]_vars => Smooth'
  BY StepSmooth DEF FlowInv, Smooth
<1>3. Types /\ FlowInv /\ Smooth /\ [Next]_vars
        => [waiting /\ ~waiting' => Head(publishQ).kind \notin Requests]_vars
  <2> SUFFICES ASSUME Types, FlowInv, Smooth, [Next]_vars, waiting, ~waiting'
               PROVE  Head(publishQ).kind \notin Requests
    OBVIOUS
  <2>1. Flow
    BY DEF FlowInv, Smooth
  <2>2. WaitFor
    BY <2>1, NoInterruption, WaitEnds
  <2>3. publishQ # <<>>
    BY <2>2 DEF WaitFor, Wakes
  <2>4. publishQ[1].kind = "PUBLISHED" /\ Head(publishQ) = publishQ[1]
    BY <2>1, <2>3, LastOne DEF Flow, Paced, Single, Types, QueueTypes
  <2> QED
    BY <2>4, EntryTypes
<1> QED
  BY <1>1, <1>2, <1>3, TypesKept, FlowKept, PTL DEF Spec, WaitTakesNoRequest

=============================================================================
