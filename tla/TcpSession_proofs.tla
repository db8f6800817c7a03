-------------------------- MODULE TcpSession_proofs --------------------------
(***************************************************************************)
(* Proofs about the tcp-server example: its types, and what a run of the   *)
(* client script may rely on. The invariant says how far the two sides can *)
(* be apart: a request or an answer is under way, or an acknowledgement    *)
(* with the request behind it, and the server is where the step of the     *)
(* script allows; the rest is carried along this: the upload, block by     *)
(* block; the compressed file; the deletions; the FILE objects.            *)
(***************************************************************************)
EXTENDS TcpSession, SequenceTheorems, TLAPS

Alive == client \in {"send", "wait"}

Answer(kind) == client = "wait" /\ toClient # <<>> /\ toClient[1].kind = kind

\* The two queues carry messages; a block comes alone.
Requests == [kind : Kinds, content : Seq(Blocks)]

Responses == [kind : PacketKinds \cup {"OK", "NG"}, content : Seq(Blocks)]

Contents ==
  /\ toServer \in Seq(Requests) /\ toClient \in Seq(Responses)
  /\ \A i \in DOMAIN toServer :
       toServer[i].kind = "data" => Len(toServer[i].content) = 1

-----------------------------------------------------------------------------
\* The server by itself: the stream of an upload, the reading of a download.
ServerInv ==
  /\ fileOpen =>
       /\ path = "src" /\ flash["src"] # Absent /\ handles > 0
       /\ server \in {"put", "command", "close", "accept"}
       /\ step \in {"put", "header", "data", "tailer"}
  /\ server = "put" => path = "src"
  /\ server \in {"packet", "ack"} =>
       /\ path = "br" /\ flash["br"] # Absent
       /\ position <= Len(flash["br"])
       /\ context = SubSeq(flash["br"], 1, position)
       /\ packet = "header" => position = 0
       /\ packet = "data"   => position < Len(flash["br"]) /\ handles > 0
       /\ packet = "tailer" => position = Len(flash["br"]) \/ "flash" \in faults

\* The steps of the script at which the server can be where it is.
Behind ==
  /\ server = "put"      => step \in {"put", "header", "data", "tailer"}
  /\ server \in {"compress", "stuck"} => step \in {"compress", "get"}
  /\ server = "packet"   => step \in {"get", "receive"}
  /\ server = "ack"      => step \in {"get", "receive", "del_src"}
  /\ server = "unlink"   => step \in IF path = "src" THEN {"del_src", "del_br"} ELSE {"del_br"}

\* What is under way to the server: the request of the step, an acknowledgement, or
\* both.
Request == Len(toServer) = 1 /\ toServer[1].kind = step

AckOnly == Len(toServer) = 1 /\ toServer[1].kind = "ack"

AckAndRequest ==
  /\ step = "del_src" /\ Len(toServer) = 2
  /\ toServer[1].kind = "ack" /\ toServer[2].kind = "del_src"

Line ==
  /\ \/ toServer = <<>>
     \/ step # "receive" /\ Request
     \/ /\ AckOnly \/ AckAndRequest
        /\ server = "ack" /\ step \in {"receive", "del_src"}
        /\ step = "del_src" => packet = "tailer"
  /\ client = "send" =>
       /\ toClient = <<>> /\ server # "packet" /\ step # "receive"
       /\ toServer = <<>> \/ AckOnly
  /\ client = "wait" /\ toClient # <<>> => toServer = <<>>

\* What the server may still send before it hears from the script; a get is answered
\* twice.
Room ==
  /\ Len(toClient) \in 0..2
  /\ server = "packet" \/ toServer # <<>> => Len(toClient) \in 0..1
  /\ Len(toServer) = 2 \/ (Request /\ step = "get") => toClient = <<>>
  /\ server = "packet" => toServer = <<>>

\* A beginning of the compressed file, and all of it unless a read failed.
Came(s) == s \in Prefixes(flash["br"]) /\ ("flash" \in faults \/ s = flash["br"])

\* What is under way to the script while it waits.
Replies ==
  /\ client = "wait" /\ step = "receive" =>
       /\ Len(toClient) \in 0..1
       /\ toClient # <<>> => toClient[1].kind \in PacketKinds
       /\ toClient # <<>> /\ toClient[1].kind = "tailer" => Came(toClient[1].content)
  /\ client = "wait" /\ step # "receive" /\ toClient # <<>> =>
       /\ toClient[1].kind \in {"OK", "NG"}
       /\ Len(toClient) = 2 => step = "get" /\ toClient[1].kind = "OK" /\ toClient[2].kind = "header"

\* The two ends of the connection.
Ends ==
  /\ conn \in {"none", "open", "half", "silent", "dropped", "closed"}
  /\ conn = "none" => client = "none"
  /\ client = "none" => conn = "none" /\ server = "accept" /\ toServer = <<>> /\ toClient = <<>>
  /\ conn = "open" => Alive /\ server # "accept"
  /\ conn = "half" =>
       Alive /\ server = "accept" /\ toServer = <<>> /\ handles = held /\ "restart" \in faults
  /\ conn = "silent" => ~Alive
  /\ Gone /\ Alive => toServer = <<>>
  /\ conn = "dropped" => toClient = <<>>
  /\ conn = "closed" /\ Alive => server = "accept" /\ (toClient # <<>> => step = "compress")
  /\ client = "done" => conn = "closed" /\ step = "del_br" /\ toServer = <<>>

\* Where the server is with a download, and with a compression, while both sides are
\* connected.
Paired ==
  conn = "open" =>
    /\ server = "packet" =>
         /\ toServer = <<>>
         /\ \/ step = "get" /\ Answer("OK") /\ Len(toClient) = 1 /\ packet = "header"
            \/ step = "receive" /\ toClient = <<>>
    /\ Len(toClient) = 2 => server = "ack" /\ packet = "header"
    /\ step = "receive" /\ toClient # <<>> => server = "ack" /\ toClient[1].kind = packet
    /\ server \in {"compress", "close", "stuck"} =>
         (step = "compress" /\ Answer("OK")) \/ (step = "get" /\ toClient = <<>>)

-----------------------------------------------------------------------------
Uploaded == "close" \in faults \/ flash["src"] = file

Converted == "close" \in faults \/ made = file

\* An OK, and where the server is when it is under way.
Answered ==
  Answer("OK") =>
    /\ step = "tailer"  => Uploaded /\ ~fileOpen /\ server \in {"command", "accept"}
    /\ step = "get"     => Converted /\ server \in {"packet", "ack", "accept"}
    /\ step = "del_src" => server \in {"unlink", "command", "accept"}
    /\ step = "del_br"  => server \in {"unlink", "command", "accept"}

\* How far the script has come with its file.
Progress ==
  /\ step \in {"put", "header"} => sent = 0
  /\ step = "data" /\ client = "send" => sent < Len(file)
  /\ step = "tailer" => sent = Len(file)

\* Blocks that the server has taken. It has them all, or a block that looked like a
\* header made it begin again.
Taken == IF step = "data" /\ toServer # <<>> THEN sent - 1 ELSE sent

Whole ==
  /\ context = SubSeq(file, 1, Taken) /\ flash["src"] = context
  /\ handles = held + 1

\* The server is in put_file with its file open.
Uploading ==
  \/ step = "header" /\ toClient # <<>>
  \/ step = "data"
  \/ step = "tailer" /\ toClient = <<>>

\* A block that looked like a tailer held the right digest: put_file is over, and what
\* the script still sends is no command.
CutShort == server = "command" /\ ~fileOpen /\ step \in {"data", "tailer"}

Upload ==
  conn = "open" /\ ~Answer("NG") =>
    /\ step = "put" /\ toClient = <<>> => server = "command" /\ handles = held
    /\ (step = "put" /\ toClient # <<>>) \/ (step = "header" /\ toClient = <<>>) =>
         server = "put" /\ ~fileOpen /\ handles = held
    /\ Uploading =>
         \/ server = "put" /\ fileOpen /\ (Whole \/ Len(context) < Taken)
         \/ CutShort
    /\ step = "data" /\ toServer # <<>> =>
         sent > 0 /\ toServer[1].content = <<file[sent]>>
    /\ step = "tailer" /\ toServer # <<>> => toServer[1].content = file

\* Which file is on flash, and which one the compressed file was made of.
Copies ==
  /\ Alive /\ step \in {"compress", "get"} => Uploaded
  /\ step \in {"receive", "del_src"} => Converted
  /\ conn = "open" /\ server \notin {"compress", "close", "stuck"} =>
       (step = "get" \/ (step = "compress" /\ Answer("OK")) => Converted)
  /\ valid /\ step = "del_src" => Came(got)

AfterUpload ==
  \/ step = "tailer" /\ toClient # <<>>
  \/ step \in {"compress", "get", "receive", "del_src", "del_br"}

\* After the upload every stream is closed that was opened.
Balance ==
  /\ conn = "open" /\ ~Answer("NG") /\ AfterUpload =>
       handles = held + IF server \in {"packet", "ack"} /\ packet = "data" THEN 1 ELSE 0
  /\ client = "done" =>
       server \in {"unlink", "command", "close", "accept"} /\ handles = held

\* What is deleted when, if nothing fails.
Deletions ==
  faults \cap {"flash", "restart"} = {} /\ (conn = "open" \/ client = "done") =>
    /\ (step = "del_src" /\ Answer("OK")) \/ step = "del_br" =>
         flash["src"] = Absent \/ (server = "unlink" /\ path = "src")
    /\ (step = "del_br" /\ Answer("OK")) \/ client = "done" =>
         /\ flash["src"] = Absent
         /\ flash["br"] = Absent \/ (server = "unlink" /\ path = "br")

SessionInv ==
  /\ Contents /\ ScriptType /\ ServerType /\ StorageType
  /\ ServerInv /\ Behind /\ Line /\ Room /\ Replies /\ Ends /\ Paired
  /\ Answered /\ Progress /\ Upload /\ Copies /\ Balance /\ Deletions

-----------------------------------------------------------------------------
(* Queues.                                                                  *)

\* A queue is empty when its length is 0.
LEMMA QueueEmpty ==
  ASSUME NEW S, NEW s \in Seq(S)
  PROVE  Len(s) \in Nat /\ DOMAIN s = 1..Len(s) /\ (s = <<>> <=> Len(s) = 0)
OBVIOUS

\* The first entry of a queue, and what is behind it.
LEMMA QueueHead ==
  ASSUME NEW S, NEW s \in Seq(S), s # <<>>
  PROVE  /\ Head(s) = s[1] /\ s[1] \in S /\ Len(s) \in Nat \ {0} /\ DOMAIN s = 1..Len(s)
         /\ Tail(s) \in Seq(S) /\ Len(Tail(s)) = Len(s) - 1
         /\ Tail(s) = <<>> <=> Len(s) = 1
         /\ Len(s) = 2 => Tail(s)[1] = s[2]
<1>1. Len(s) \in Nat \ {0} /\ DOMAIN s = 1..Len(s)
  OBVIOUS
<1>2. Head(s) = s[1] /\ s[1] \in S
  BY <1>1
<1>3. Tail(s) \in Seq(S) /\ Len(Tail(s)) = Len(s) - 1
  BY <1>1
<1>4. Tail(s) = <<>> <=> Len(Tail(s)) = 0
  BY <1>3, QueueEmpty
<1>5. Tail(s) = <<>> <=> Len(s) = 1
  BY <1>1, <1>3, <1>4
<1>6. Len(s) = 2 => Tail(s)[1] = s[2]
  OBVIOUS
<1> QED
  BY <1>1, <1>2, <1>3, <1>5, <1>6

\* A queue with one entry more.
LEMMA QueueAppend ==
  ASSUME NEW S, NEW s \in Seq(S), NEW m \in S
  PROVE  /\ Append(s, m) \in Seq(S) /\ Append(s, m) # <<>>
         /\ Len(Append(s, m)) = Len(s) + 1
         /\ s = <<>> => Append(s, m)[1] = m
         /\ Len(s) = 1 => Append(s, m)[1] = s[1] /\ Append(s, m)[2] = m
OBVIOUS

\* What is sent in either direction.
LEMMA MessageType ==
  ASSUME NEW k, NEW c \in Seq(Blocks)
  PROVE  /\ k \in Kinds => Message(k, c) \in Requests
         /\ k \in PacketKinds \cup {"OK", "NG"} => Message(k, c) \in Responses
         /\ Message(k, c).kind = k /\ Message(k, c).content = c
BY DEF Message, Requests, Responses

\* A bound on what is under way.
LEMMA AtMostTwo ==
  ASSUME NEW n \in Nat, n = 0 \/ n = 1 \/ n = 2
  PROVE  n <= 2
OBVIOUS

\* The invariant holds the types of the runs.
LEMMA InvTypes == SessionInv => TypeOK
<1> SUFFICES ASSUME SessionInv PROVE NetType
  BY DEF SessionInv, TypeOK
<1>1. /\ toServer \in Seq(Requests) /\ toClient \in Seq(Responses)
      /\ conn \in {"none", "open", "half", "silent", "dropped", "closed"}
  BY DEF SessionInv, Contents, Ends
<1>2. ASSUME NEW i \in DOMAIN toServer PROVE toServer[i].kind \in Kinds
  <2>1. toServer[i] \in Requests
    BY <1>1
  <2> QED
    BY <2>1 DEF Requests
<1>3. ASSUME NEW i \in DOMAIN toClient
      PROVE  toClient[i].kind \in PacketKinds \cup {"OK", "NG"}
  <2>1. toClient[i] \in Responses
    BY <1>1
  <2> QED
    BY <2>1 DEF Responses
<1>4. Len(toServer) \in Nat /\ Len(toClient) \in Nat /\ (toServer = <<>> => Len(toServer) = 0)
  BY <1>1, QueueEmpty
<1>5. Len(toServer) <= 2
  <2>1. Len(toServer) = 0 \/ Len(toServer) = 1 \/ Len(toServer) = 2
    BY <1>4 DEF SessionInv, Line, Request, AckOnly, AckAndRequest
  <2> QED
    BY <1>4, <2>1, AtMostTwo
<1>6. Len(toClient) <= 2
  <2>1. Len(toClient) = 0 \/ Len(toClient) = 1 \/ Len(toClient) = 2
    BY DEF SessionInv, Room
  <2> QED
    BY <1>4, <2>1, AtMostTwo
<1> QED
  BY <1>1, <1>2, <1>3, <1>5, <1>6 DEF NetType

\* A request of the script is alone under way, and the script waits with no answer.
LEMMA Asked ==
  ASSUME SessionInv, toServer # <<>>, Head(toServer).kind # "ack"
  PROVE  /\ Head(toServer) = toServer[1] /\ Tail(toServer) = <<>> /\ Len(toServer) = 1
         /\ toServer[1].kind = step /\ step # "receive" /\ Request
         /\ client # "send" /\ (client = "wait" => toClient = <<>>)
<1>1. toServer \in Seq(Requests)
  BY DEF SessionInv, Contents
<1>2. Head(toServer) = toServer[1] /\ (Tail(toServer) = <<>> <=> Len(toServer) = 1)
  BY <1>1, QueueHead
<1>3. step # "receive" /\ Request
  BY <1>2 DEF SessionInv, Line, AckOnly, AckAndRequest
<1>4. client # "send" /\ (client = "wait" => toClient = <<>>)
  BY <1>2 DEF SessionInv, Line, AckOnly
<1> QED
  BY <1>2, <1>3, <1>4 DEF Request

\* A run begins when the last is over and the server is back in accept.
LEMMA StartInv ==
  ASSUME SessionInv, Start
  PROVE  SessionInv'
<1>1. /\ server = "accept" /\ conn' = "open" /\ toServer' = <<>> /\ toClient' = <<>>
      /\ server' = "command" /\ step' = "put" /\ client' = "send" /\ sent' = 0
      /\ got' = <<>> /\ valid' = FALSE /\ file' \in Seq(Blocks)
      /\ runs < MaxRuns /\ runs' = runs + 1 /\ faults' = {} /\ held' = handles
      /\ UNCHANGED <<path, fileOpen, context, position, packet, flash, handles, made>>
  BY ConstantsAssumption DEF Start, locals, storage
<1>2. Contents'
  BY <1>1 DEF SessionInv, Contents
<1>3. ScriptType'
  <2>1. 0 \in 0..Len(file') /\ <<>> \in Seq(Blocks) /\ FALSE \in BOOLEAN
    BY <1>1, QueueEmpty
  <2>2. sent' \in 0..Len(file') /\ got' \in Seq(Blocks) /\ valid' \in BOOLEAN
    BY <1>1, <2>1
  <2>3. step' \in Steps
    BY <1>1 DEF Steps
  <2> QED
    BY <1>1, <2>2, <2>3 DEF ScriptType
<1>4. ServerType'
  BY <1>1 DEF SessionInv, ServerType
<1>5. StorageType'
  BY <1>1, ConstantsAssumption DEF SessionInv, StorageType
<1>6. ServerInv'
  BY <1>1 DEF SessionInv, ServerInv
<1>7. Behind'
  BY <1>1 DEF SessionInv, Behind
<1>8. Line'
  BY <1>1 DEF SessionInv, Line, Request, AckOnly, AckAndRequest
<1>9. Room'
  BY <1>1 DEF SessionInv, Room, Request
<1>10. Replies'
  BY <1>1 DEF SessionInv, Replies, Came
<1>11. Ends'
  BY <1>1 DEF SessionInv, Ends, Alive, Gone
<1>12. Paired'
  BY <1>1 DEF SessionInv, Paired, Answer
<1>13. Answered'
  BY <1>1 DEF SessionInv, Answered, Answer, Uploaded, Converted
<1>14. Progress'
  BY <1>1 DEF SessionInv, Progress
<1>15. Upload'
  BY <1>1 DEF SessionInv, Upload, CutShort, Answer, Uploading, Whole, Taken
<1>16. Copies'
  BY <1>1 DEF SessionInv, Copies, Came, Alive, Answer, Uploaded, Converted
<1>17. Balance'
  BY <1>1 DEF SessionInv, Balance, Answer, AfterUpload
<1>18. Deletions'
  BY <1>1 DEF SessionInv, Deletions, Answer
<1> QED
  BY <1>2, <1>3, <1>4, <1>5, <1>6, <1>7, <1>8, <1>9, <1>10, <1>11, <1>12, <1>13, <1>14, <1>15, <1>16, <1>17, <1>18 DEF SessionInv

\* What the script sends is the message of its step.
LEMMA OutgoingType ==
  ASSUME ScriptType, Progress, client = "send", step # "receive"
  PROVE  /\ Outgoing \in Requests /\ Outgoing.kind = step
         /\ step = "data" => sent < Len(file) /\ Outgoing.content = <<file[sent + 1]>>
                              /\ Len(Outgoing.content) = 1
         /\ step = "tailer" => Outgoing.content = file
<1>1. step \in Kinds /\ file \in Seq(Blocks) /\ sent \in Nat
  BY QueueEmpty DEF ScriptType, Steps, Kinds
<1>2. CASE step = "data"
  <2>1. sent < Len(file) /\ file[sent + 1] \in Blocks
    BY <1>1, <1>2, QueueEmpty DEF Progress
  <2>2. Outgoing = Message("data", <<file[sent + 1]>>) /\ <<file[sent + 1]>> \in Seq(Blocks)
    BY <1>2, <2>1 DEF Outgoing
  <2> QED
    <3>1. PICK b : b = <<file[sent + 1]>>
      OBVIOUS
    <3>2. b \in Seq(Blocks) /\ Len(b) = 1 /\ Outgoing = Message("data", b)
      BY <2>1, <2>2, <3>1
    <3> QED
      BY <1>1, <1>2, <2>1, <3>1, <3>2, MessageType
<1>3. CASE step = "tailer"
  BY <1>1, <1>3, MessageType DEF Outgoing
<1>4. CASE step \notin {"data", "tailer"}
  <2>1. Outgoing = Message(step, <<>>) /\ <<>> \in Seq(Blocks)
    BY <1>4 DEF Outgoing
  <2> QED
    BY <1>1, <1>4, <2>1, MessageType
<1> QED
  BY <1>2, <1>3, <1>4

\* What is sent into a connection that one end has left reaches nobody.
LEMMA SendGoneInv ==
  ASSUME SessionInv, SendRequest, conn # "open"
  PROVE  SessionInv'
<1>1. /\ client = "send" /\ client' \in {"wait", "exited"}
      /\ toServer' = toServer /\ conn # "open"
      /\ conn' = (IF conn = "half" THEN "dropped" ELSE conn)
      /\ sent' = (IF step = "data" THEN sent + 1 ELSE sent)
      /\ UNCHANGED <<toClient, step, file, got, valid, server, path, fileOpen, context,
                     position, packet, flash, handles, runs, faults, held, made>>
  BY DEF SendRequest, Transmit, locals, storage, history
<1>2. toClient = <<>> /\ toClient' = <<>>
  BY <1>1 DEF SessionInv, Line
<1>3. Contents'
  BY <1>1, <1>2 DEF SessionInv, Contents
<1>4. ScriptType'
  <2>1. sent \in Nat /\ Len(file) \in Nat /\ sent \in 0..Len(file)
    BY QueueEmpty DEF SessionInv, ScriptType
  <2>2. step = "data" => sent < Len(file)
    BY <1>1 DEF SessionInv, Progress
  <2>3. sent' \in 0..Len(file)
    BY <1>1, <2>1, <2>2
  <2> QED
    BY <1>1, <2>3 DEF SessionInv, ScriptType
<1>5. ServerType'
  BY <1>1, <1>2 DEF SessionInv, ServerType
<1>6. StorageType'
  BY <1>1, <1>2 DEF SessionInv, StorageType
<1>7. ServerInv'
  BY <1>1, <1>2 DEF SessionInv, ServerInv
<1>8. Behind'
  BY <1>1, <1>2 DEF SessionInv, Behind
<1>9. Line'
  BY <1>1, <1>2 DEF SessionInv, Line, Request, AckOnly, AckAndRequest
<1>10. Room'
  BY <1>1, <1>2 DEF SessionInv, Room, Request
<1>11. Replies'
  BY <1>1, <1>2 DEF SessionInv, Replies, Came
<1>12. Ends'
  BY <1>1, <1>2 DEF SessionInv, Ends, Alive, Gone
<1>13. Paired'
  BY <1>1, <1>2 DEF SessionInv, Paired, Answer
<1>14. Answered'
  BY <1>1, <1>2 DEF SessionInv, Answered, Answer, Uploaded, Converted
<1>15. Progress'
  BY <1>1, <1>2 DEF SessionInv, Progress
<1>16. Upload'
  BY <1>1, <1>2 DEF SessionInv, Upload, CutShort, Answer, Uploading, Whole, Taken
<1>17. Copies'
  BY <1>1, <1>2 DEF SessionInv, Copies, Came, Alive, Answer, Uploaded, Converted
<1>18. Balance'
  BY <1>1, <1>2 DEF SessionInv, Balance, Answer, AfterUpload
<1>19. Deletions'
  BY <1>1, <1>2 DEF SessionInv, Deletions, Answer
<1> QED
  BY <1>3, <1>4, <1>5, <1>6, <1>7, <1>8, <1>9, <1>10, <1>11, <1>12, <1>13, <1>14, <1>15, <1>16, <1>17, <1>18, <1>19 DEF SessionInv

\* A request goes out when none is under way.
LEMMA SendOpenInv ==
  ASSUME SessionInv, SendRequest, conn = "open"
  PROVE  SessionInv'
<1>1. /\ client = "send" /\ client' = "wait" /\ conn = "open" /\ conn' = "open"
      /\ toServer' = Append(toServer, Outgoing)
      /\ sent' = (IF step = "data" THEN sent + 1 ELSE sent)
      /\ UNCHANGED <<toClient, step, file, got, valid, server, path, fileOpen, context,
                     position, packet, flash, handles, runs, faults, held, made>>
  BY DEF SendRequest, Transmit, Gone, locals, storage, history
<1>2. toClient = <<>> /\ toClient' = <<>> /\ step # "receive" /\ server # "packet"
  BY <1>1 DEF SessionInv, Line
<1>3. /\ Outgoing \in Requests /\ Outgoing.kind = step
      /\ step = "data" => sent < Len(file) /\ Outgoing.content = <<file[sent + 1]>>
                           /\ Len(Outgoing.content) = 1
      /\ step = "tailer" => Outgoing.content = file
  BY <1>1, <1>2, OutgoingType DEF SessionInv
<1>4. /\ toServer \in Seq(Requests) /\ toServer' \in Seq(Requests) /\ toServer' # <<>>
      /\ Len(toServer') = Len(toServer) + 1
      /\ toServer = <<>> => Len(toServer) = 0 /\ toServer'[1] = Outgoing
      /\ Len(toServer) = 1 => toServer'[1] = toServer[1] /\ toServer'[2] = Outgoing
  BY <1>1, <1>3, QueueAppend, QueueEmpty DEF SessionInv, Contents
<1>5. toServer = <<>> \/ (AckOnly /\ step = "del_src" /\ server = "ack" /\ packet = "tailer")
  BY <1>1, <1>2 DEF SessionInv, Line, AckOnly, Request, AckAndRequest, Steps, ScriptType
<1>6. Contents'
  BY <1>1, <1>2, <1>3, <1>4, <1>5 DEF SessionInv, Contents
<1>7. ScriptType'
  BY <1>1, <1>2, <1>3, <1>4, <1>5 DEF SessionInv, ScriptType
<1>8. ServerType'
  BY <1>1, <1>2, <1>3, <1>4, <1>5 DEF SessionInv, ServerType
<1>9. StorageType'
  BY <1>1, <1>2, <1>3, <1>4, <1>5 DEF SessionInv, StorageType
<1>10. ServerInv'
  BY <1>1, <1>2, <1>3, <1>4, <1>5 DEF SessionInv, ServerInv
<1>11. Behind'
  BY <1>1, <1>2, <1>3, <1>4, <1>5 DEF SessionInv, Behind
<1>12. Line'
  BY <1>1, <1>2, <1>3, <1>4, <1>5 DEF SessionInv, Line, Request, AckOnly, AckAndRequest
<1>13. Room'
  BY <1>1, <1>2, <1>3, <1>4, <1>5 DEF SessionInv, Room, Request
<1>14. Replies'
  BY <1>1, <1>2, <1>3, <1>4, <1>5 DEF SessionInv, Replies, Came
<1>15. Ends'
  BY <1>1, <1>2, <1>3, <1>4, <1>5 DEF SessionInv, Ends, Alive, Gone
<1>16. Paired'
  BY <1>1, <1>2, <1>3, <1>4, <1>5 DEF SessionInv, Paired, Answer
<1>17. Answered'
  BY <1>1, <1>2, <1>3, <1>4, <1>5 DEF SessionInv, Answered, Answer, Uploaded, Converted
<1>18. Progress'
  BY <1>1, <1>2, <1>3, <1>4, <1>5 DEF SessionInv, Progress
<1>19. Upload'
  <2>1. sent \in Nat
    BY DEF SessionInv, ScriptType
  <2>2. Taken' = Taken
    BY <1>1, <1>4, <1>5, <2>1 DEF Taken
  <2>3. Whole' <=> Whole
    BY <1>1, <2>2 DEF Whole
  <2>4. step = "data" => sent' > 0 /\ toServer'[1].content = <<file[sent']>>
    BY <1>1, <1>3, <1>4, <1>5, <2>1
  <2>5. step = "tailer" => toServer'[1].content = file
    BY <1>3, <1>4, <1>5
  <2> QED
    BY <1>1, <1>2, <2>2, <2>3, <2>4, <2>5 DEF SessionInv, Upload, CutShort, Answer, Uploading
<1>20. Copies'
  BY <1>1, <1>2, <1>3, <1>4, <1>5 DEF SessionInv, Copies, Came, Alive, Answer, Uploaded, Converted
<1>21. Balance'
  BY <1>1, <1>2, <1>3, <1>4, <1>5 DEF SessionInv, Balance, Answer, AfterUpload
<1>22. Deletions'
  BY <1>1, <1>2, <1>3, <1>4, <1>5 DEF SessionInv, Deletions, Answer
<1> QED
  BY <1>6, <1>7, <1>8, <1>9, <1>10, <1>11, <1>12, <1>13, <1>14, <1>15, <1>16, <1>17, <1>18, <1>19, <1>20, <1>21, <1>22 DEF SessionInv

\* A script that leaves takes its socket with it; what it sent may arrive.
LEMMA LeaveInv ==
  ASSUME SessionInv, NEW how \in {"exited", "crashed"}, Leave(how),
         toServer' \in {toServer, <<>>}, Alive,
         (UNCHANGED history) \/ Fault("interrupt")
  PROVE  SessionInv'
<1>1. /\ toServer' \in {toServer, <<>>} /\ client' = how /\ conn' = "closed" /\ toClient' = <<>>
      /\ UNCHANGED <<step, file, sent, got, valid, server, path, fileOpen, context,
                     position, packet, flash, handles>>
  BY DEF Leave, locals, storage
<1>2. UNCHANGED <<runs, held, made>> /\ faults \subseteq faults' /\ faults' \subseteq AllFaults
  <2>1. faults \subseteq AllFaults
    BY DEF SessionInv, StorageType
  <2> QED
    BY <2>1 DEF history, Fault, Happens, AllFaults
<1>3. <<>> \in Seq(Requests) /\ <<>> \in Seq(Responses) /\ DOMAIN <<>> = {}
  OBVIOUS
<1>4. Contents'
  BY <1>1, <1>2, <1>3 DEF SessionInv, Contents
<1>5. ScriptType'
  BY <1>1, <1>2, <1>3 DEF SessionInv, ScriptType
<1>6. ServerType'
  BY <1>1, <1>2, <1>3 DEF SessionInv, ServerType
<1>7. StorageType'
  BY <1>1, <1>2, <1>3 DEF SessionInv, StorageType
<1>8. ServerInv'
  BY <1>1, <1>2, <1>3 DEF SessionInv, ServerInv
<1>9. Behind'
  BY <1>1, <1>2, <1>3 DEF SessionInv, Behind
<1>10. Line'
  BY <1>1, <1>2, <1>3 DEF SessionInv, Line, Request, AckOnly, AckAndRequest
<1>11. Room'
  BY <1>1, <1>2, <1>3 DEF SessionInv, Room, Request
<1>12. Replies'
  BY <1>1, <1>2, <1>3 DEF SessionInv, Replies, Came
<1>13. Ends'
  BY <1>1, <1>2, <1>3 DEF SessionInv, Ends, Alive, Gone
<1>14. Paired'
  BY <1>1, <1>2, <1>3 DEF SessionInv, Paired, Answer
<1>15. Answered'
  BY <1>1, <1>2, <1>3 DEF SessionInv, Answered, Answer, Uploaded, Converted
<1>16. Progress'
  BY <1>1, <1>2, <1>3 DEF SessionInv, Progress
<1>17. Upload'
  BY <1>1, <1>2, <1>3 DEF SessionInv, Upload, CutShort, Answer, Uploading, Whole, Taken
<1>18. Copies'
  BY <1>1, <1>2, <1>3 DEF SessionInv, Copies, Came, Alive, Answer, Uploaded, Converted
<1>19. Balance'
  BY <1>1, <1>2, <1>3 DEF SessionInv, Balance, Answer, AfterUpload
<1>20. Deletions'
  BY <1>1, <1>2, <1>3 DEF SessionInv, Deletions, Answer
<1> QED
  BY <1>4, <1>5, <1>6, <1>7, <1>8, <1>9, <1>10, <1>11, <1>12, <1>13, <1>14, <1>15, <1>16, <1>17, <1>18, <1>19, <1>20 DEF SessionInv

\* A reset takes everything that is under way.
LEMMA DropInv ==
  ASSUME SessionInv, Drop
  PROVE  SessionInv'
<1>1. /\ conn = "open" /\ conn' = "dropped" /\ toServer' = <<>> /\ toClient' = <<>>
      /\ UNCHANGED <<step, client, file, sent, got, valid, server, path, fileOpen, context,
                     position, packet, flash, handles>>
  BY DEF Drop, script, locals, storage
<1>2. UNCHANGED <<runs, held, made>> /\ faults \subseteq faults' /\ faults' \subseteq AllFaults
  <2>1. faults \subseteq AllFaults
    BY DEF SessionInv, StorageType
  <2> QED
    BY <2>1 DEF Drop, Fault, Happens, AllFaults
<1>3. <<>> \in Seq(Requests) /\ <<>> \in Seq(Responses) /\ DOMAIN <<>> = {}
  OBVIOUS
<1>4. Contents'
  BY <1>1, <1>2, <1>3 DEF SessionInv, Contents
<1>5. ScriptType'
  BY <1>1, <1>2, <1>3 DEF SessionInv, ScriptType
<1>6. ServerType'
  BY <1>1, <1>2, <1>3 DEF SessionInv, ServerType
<1>7. StorageType'
  BY <1>1, <1>2, <1>3 DEF SessionInv, StorageType
<1>8. ServerInv'
  BY <1>1, <1>2, <1>3 DEF SessionInv, ServerInv
<1>9. Behind'
  BY <1>1, <1>2, <1>3 DEF SessionInv, Behind
<1>10. Line'
  BY <1>1, <1>2, <1>3 DEF SessionInv, Line, Request, AckOnly, AckAndRequest
<1>11. Room'
  BY <1>1, <1>2, <1>3 DEF SessionInv, Room, Request
<1>12. Replies'
  BY <1>1, <1>2, <1>3 DEF SessionInv, Replies, Came
<1>13. Ends'
  BY <1>1, <1>2, <1>3 DEF SessionInv, Ends, Alive, Gone
<1>14. Paired'
  BY <1>1, <1>2, <1>3 DEF SessionInv, Paired, Answer
<1>15. Answered'
  BY <1>1, <1>2, <1>3 DEF SessionInv, Answered, Answer, Uploaded, Converted
<1>16. Progress'
  BY <1>1, <1>2, <1>3 DEF SessionInv, Progress
<1>17. Upload'
  BY <1>1, <1>2, <1>3 DEF SessionInv, Upload, CutShort, Answer, Uploading, Whole, Taken
<1>18. Copies'
  BY <1>1, <1>2, <1>3 DEF SessionInv, Copies, Came, Alive, Answer, Uploaded, Converted
<1>19. Balance'
  BY <1>1, <1>2, <1>3 DEF SessionInv, Balance, Answer, AfterUpload
<1>20. Deletions'
  BY <1>1, <1>2, <1>3 DEF SessionInv, Deletions, Answer
<1> QED
  BY <1>4, <1>5, <1>6, <1>7, <1>8, <1>9, <1>10, <1>11, <1>12, <1>13, <1>14, <1>15, <1>16, <1>17, <1>18, <1>19, <1>20 DEF SessionInv

\* A host that is gone leaves the server with what it sent.
LEMMA VanishInv ==
  ASSUME SessionInv, Vanish
  PROVE  SessionInv'
<1>1. /\ conn = "open" /\ conn' = "silent" /\ client' \in {"exited", "deaf"}
      /\ toServer' \in {toServer, <<>>} /\ toClient' \in {toClient, <<>>}
      /\ UNCHANGED <<step, file, sent, got, valid, server, path, fileOpen, context,
                     position, packet, flash, handles>>
  BY DEF Vanish, locals, storage
<1>2. UNCHANGED <<runs, held, made>> /\ faults \subseteq faults' /\ faults' \subseteq AllFaults
  <2>1. faults \subseteq AllFaults
    BY DEF SessionInv, StorageType
  <2> QED
    BY <2>1 DEF Vanish, Fault, Happens, AllFaults
<1>3. <<>> \in Seq(Requests) /\ <<>> \in Seq(Responses) /\ DOMAIN <<>> = {}
  OBVIOUS
<1>4. Contents'
  BY <1>1, <1>2, <1>3 DEF SessionInv, Contents
<1>5. ScriptType'
  BY <1>1, <1>2, <1>3 DEF SessionInv, ScriptType
<1>6. ServerType'
  BY <1>1, <1>2, <1>3 DEF SessionInv, ServerType
<1>7. StorageType'
  BY <1>1, <1>2, <1>3 DEF SessionInv, StorageType
<1>8. ServerInv'
  BY <1>1, <1>2, <1>3 DEF SessionInv, ServerInv
<1>9. Behind'
  BY <1>1, <1>2, <1>3 DEF SessionInv, Behind
<1>10. Line'
  BY <1>1, <1>2, <1>3 DEF SessionInv, Line, Request, AckOnly, AckAndRequest
<1>11. Room'
  BY <1>1, <1>2, <1>3 DEF SessionInv, Room, Request
<1>12. Replies'
  BY <1>1, <1>2, <1>3 DEF SessionInv, Replies, Came
<1>13. Ends'
  BY <1>1, <1>2, <1>3 DEF SessionInv, Ends, Alive, Gone
<1>14. Paired'
  BY <1>1, <1>2, <1>3 DEF SessionInv, Paired, Answer
<1>15. Answered'
  BY <1>1, <1>2, <1>3 DEF SessionInv, Answered, Answer, Uploaded, Converted
<1>16. Progress'
  BY <1>1, <1>2, <1>3 DEF SessionInv, Progress
<1>17. Upload'
  BY <1>1, <1>2, <1>3 DEF SessionInv, Upload, CutShort, Answer, Uploading, Whole, Taken
<1>18. Copies'
  BY <1>1, <1>2, <1>3 DEF SessionInv, Copies, Came, Alive, Answer, Uploaded, Converted
<1>19. Balance'
  BY <1>1, <1>2, <1>3 DEF SessionInv, Balance, Answer, AfterUpload
<1>20. Deletions'
  BY <1>1, <1>2, <1>3 DEF SessionInv, Deletions, Answer
<1> QED
  BY <1>4, <1>5, <1>6, <1>7, <1>8, <1>9, <1>10, <1>11, <1>12, <1>13, <1>14, <1>15, <1>16, <1>17, <1>18, <1>19, <1>20 DEF SessionInv

\* A script that nobody hears any more is ended.
LEMMA InterruptDeafInv ==
  ASSUME SessionInv, InterruptDeaf
  PROVE  SessionInv'
<1>1. /\ client = "deaf" /\ client' = "exited"
      /\ UNCHANGED <<conn, toServer, toClient, step, file, sent, got, valid, server, path,
                     fileOpen, context, position, packet, flash, handles>>
  BY DEF InterruptDeaf, net, locals, storage
<1>2. UNCHANGED <<runs, held, made>> /\ faults \subseteq faults' /\ faults' \subseteq AllFaults
  <2>1. faults \subseteq AllFaults
    BY DEF SessionInv, StorageType
  <2> QED
    BY <2>1 DEF InterruptDeaf, Fault, Happens, AllFaults
<1>3. Contents'
  BY <1>1, <1>2 DEF SessionInv, Contents
<1>4. ScriptType'
  BY <1>1, <1>2 DEF SessionInv, ScriptType
<1>5. ServerType'
  BY <1>1, <1>2 DEF SessionInv, ServerType
<1>6. StorageType'
  BY <1>1, <1>2 DEF SessionInv, StorageType
<1>7. ServerInv'
  BY <1>1, <1>2 DEF SessionInv, ServerInv
<1>8. Behind'
  BY <1>1, <1>2 DEF SessionInv, Behind
<1>9. Line'
  BY <1>1, <1>2 DEF SessionInv, Line, Request, AckOnly, AckAndRequest
<1>10. Room'
  BY <1>1, <1>2 DEF SessionInv, Room, Request
<1>11. Replies'
  BY <1>1, <1>2 DEF SessionInv, Replies, Came
<1>12. Ends'
  BY <1>1, <1>2 DEF SessionInv, Ends, Alive, Gone
<1>13. Paired'
  BY <1>1, <1>2 DEF SessionInv, Paired, Answer
<1>14. Answered'
  BY <1>1, <1>2 DEF SessionInv, Answered, Answer, Uploaded, Converted
<1>15. Progress'
  BY <1>1, <1>2 DEF SessionInv, Progress
<1>16. Upload'
  BY <1>1, <1>2 DEF SessionInv, Upload, CutShort, Answer, Uploading, Whole, Taken
<1>17. Copies'
  BY <1>1, <1>2 DEF SessionInv, Copies, Came, Alive, Answer, Uploaded, Converted
<1>18. Balance'
  BY <1>1, <1>2 DEF SessionInv, Balance, Answer, AfterUpload
<1>19. Deletions'
  BY <1>1, <1>2 DEF SessionInv, Deletions, Answer
<1> QED
  BY <1>3, <1>4, <1>5, <1>6, <1>7, <1>8, <1>9, <1>10, <1>11, <1>12, <1>13, <1>14, <1>15, <1>16, <1>17, <1>18, <1>19 DEF SessionInv

\* TCP tells the server in the end.
LEMMA GiveUpInv ==
  ASSUME SessionInv, GiveUp
  PROVE  SessionInv'
<1>1. /\ conn = "silent" /\ conn' = "dropped" /\ toClient' = <<>>
      /\ UNCHANGED <<toServer, step, client, file, sent, got, valid, server, path, fileOpen,
                     context, position, packet, flash, handles, runs, faults, held, made>>
  BY DEF GiveUp, script, locals, storage, history
<1>2. <<>> \in Seq(Responses)
  OBVIOUS
<1>3. Contents'
  BY <1>1, <1>2 DEF SessionInv, Contents
<1>4. ScriptType'
  BY <1>1, <1>2 DEF SessionInv, ScriptType
<1>5. ServerType'
  BY <1>1, <1>2 DEF SessionInv, ServerType
<1>6. StorageType'
  BY <1>1, <1>2 DEF SessionInv, StorageType
<1>7. ServerInv'
  BY <1>1, <1>2 DEF SessionInv, ServerInv
<1>8. Behind'
  BY <1>1, <1>2 DEF SessionInv, Behind
<1>9. Line'
  BY <1>1, <1>2 DEF SessionInv, Line, Request, AckOnly, AckAndRequest
<1>10. Room'
  BY <1>1, <1>2 DEF SessionInv, Room, Request
<1>11. Replies'
  BY <1>1, <1>2 DEF SessionInv, Replies, Came
<1>12. Ends'
  BY <1>1, <1>2 DEF SessionInv, Ends, Alive, Gone
<1>13. Paired'
  BY <1>1, <1>2 DEF SessionInv, Paired, Answer
<1>14. Answered'
  BY <1>1, <1>2 DEF SessionInv, Answered, Answer, Uploaded, Converted
<1>15. Progress'
  BY <1>1, <1>2 DEF SessionInv, Progress
<1>16. Upload'
  BY <1>1, <1>2 DEF SessionInv, Upload, CutShort, Answer, Uploading, Whole, Taken
<1>17. Copies'
  BY <1>1, <1>2 DEF SessionInv, Copies, Came, Alive, Answer, Uploaded, Converted
<1>18. Balance'
  BY <1>1, <1>2 DEF SessionInv, Balance, Answer, AfterUpload
<1>19. Deletions'
  BY <1>1, <1>2 DEF SessionInv, Deletions, Answer
<1> QED
  BY <1>3, <1>4, <1>5, <1>6, <1>7, <1>8, <1>9, <1>10, <1>11, <1>12, <1>13, <1>14, <1>15, <1>16, <1>17, <1>18, <1>19 DEF SessionInv

\* An OK takes the script to its next step, where the server already is.
LEMMA ReceiveOKInv ==
  ASSUME SessionInv, ReceiveOK
  PROVE  SessionInv'
<1>1. /\ client = "wait" /\ step # "receive" /\ toClient # <<>> /\ toClient[1].kind = "OK"
      /\ toClient' = Tail(toClient)
      /\ UNCHANGED <<toServer, file, sent, got, valid, server, path, fileOpen, context,
                     position, packet, flash, handles, runs, faults, held, made>>
  BY QueueHead DEF ReceiveOK, SessionInv, Contents, locals, storage, history
<1>2. Answer("OK") /\ ~Answer("NG") /\ toServer = <<>>
  BY <1>1 DEF Answer, SessionInv, Line
<1>3. /\ conn \in {"open", "half", "closed"}
      /\ conn = "closed" => step = "compress" /\ server = "accept"
      /\ conn = "half" => server = "accept"
  BY <1>1 DEF SessionInv, Ends, Alive
<1>4. /\ toClient' \in Seq(Responses) /\ Len(toClient) \in {1, 2}
      /\ step # "get" => toClient' = <<>>
      /\ Len(toClient) = 1 => toClient' = <<>>
      /\ Len(toClient') \in 0..1 /\ (toClient' # <<>> => Len(toClient) = 2)
      /\ Len(toClient) = 2 => Len(toClient') = 1 /\ toClient'[1].kind = "header"
  <2>1. toClient \in Seq(Responses)
    BY DEF SessionInv, Contents
  <2>2. Len(toClient) \in {1, 2}
    BY <1>1, <2>1, QueueHead DEF SessionInv, Room
  <2>3. Len(toClient) = 2 => step = "get" /\ toClient[2].kind = "header"
    BY <1>1 DEF SessionInv, Replies, Came
  <2> QED
    BY <1>1, <2>1, <2>2, <2>3, QueueHead
<1>5. /\ step = "put" => step' = "header" /\ client' = "send"
      /\ step \in {"header", "data"} => /\ client' = "send"
                                       /\ step' = IF sent < Len(file) THEN "data" ELSE "tailer"
      /\ step = "tailer" => step' = "compress" /\ client' = "send"
      /\ step = "compress" => step' = "get" /\ client' = "send"
      /\ step = "get" => step' = "receive" /\ client' = "wait"
      /\ step = "del_src" => step' = "del_br" /\ client' = "send"
      /\ step = "del_br" => step' = "del_br" /\ client' = "done" /\ conn' = "closed"
      /\ step # "del_br" => conn' = conn
      /\ step \in {"put", "header", "data", "tailer", "compress", "get", "del_src", "del_br"}
      /\ step' \in Steps
  <2>1. step \in {"put", "header", "data", "tailer", "compress", "get", "del_src", "del_br"}
    BY <1>1 DEF SessionInv, ScriptType, Steps
  <2>2. step' = NextStep
    BY DEF ReceiveOK
  <2>3. step \in {"header", "data"} => step' = IF sent < Len(file) THEN "data" ELSE "tailer"
    BY <2>2 DEF NextStep
  <2>4. /\ step = "put" => step' = "header"
        /\ step = "tailer" => step' = "compress"
        /\ step = "compress" => step' = "get"
        /\ step = "get" => step' = "receive"
        /\ step = "del_src" => step' = "del_br"
        /\ step = "del_br" => step' = "del_br"
    BY <2>2 DEF NextStep
  <2>5. step' \in Steps
    BY <1>1, <2>1, <2>3, <2>4 DEF Steps
  <2> QED
    BY <2>1, <2>3, <2>4, <2>5 DEF ReceiveOK
<1>6. /\ step = "tailer"  => Uploaded /\ ~fileOpen /\ server \in {"command", "accept"}
      /\ step = "get"     => Converted /\ server \in {"packet", "ack", "accept"}
      /\ step = "del_src" => server \in {"unlink", "command", "accept"}
      /\ step = "del_br"  => server \in {"unlink", "command", "accept"}
  BY <1>2 DEF SessionInv, Answered
<1>7. /\ Len(file) \in Nat /\ sent \in 0..Len(file)
      /\ ~(sent < Len(file)) => sent = Len(file)
  BY QueueEmpty DEF SessionInv, ScriptType
<1>8. Contents'
  BY <1>1, <1>2, <1>3, <1>4, <1>5, <1>6, <1>7 DEF SessionInv, Contents
<1>9. ScriptType'
  BY <1>1, <1>2, <1>3, <1>4, <1>5, <1>6, <1>7 DEF SessionInv, ScriptType
<1>10. ServerType'
  BY <1>1, <1>2, <1>3, <1>4, <1>5, <1>6, <1>7 DEF SessionInv, ServerType
<1>11. StorageType'
  BY <1>1, <1>2, <1>3, <1>4, <1>5, <1>6, <1>7 DEF SessionInv, StorageType
<1>12. ServerInv'
  BY <1>1, <1>2, <1>3, <1>4, <1>5, <1>6, <1>7 DEF SessionInv, ServerInv
<1>13. Behind'
  BY <1>1, <1>2, <1>3, <1>4, <1>5, <1>6, <1>7 DEF SessionInv, Behind
<1>14. Line'
  BY <1>1, <1>2, <1>4, <1>5 DEF SessionInv, Line, Behind
<1>15. Room'
  BY <1>1, <1>2, <1>3, <1>4, <1>5, <1>6, <1>7 DEF SessionInv, Room, Request
<1>16. Replies'
  BY <1>1, <1>4, <1>5 DEF SessionInv, Replies, Came, PacketKinds
<1>17. Ends'
  BY <1>1, <1>2, <1>3, <1>4, <1>5, <1>6, <1>7 DEF SessionInv, Ends, Alive, Gone
<1>18. Paired'
  <2> SUFFICES ASSUME conn' = "open" PROVE Paired'
    BY DEF Paired
  <2>1. conn = "open" /\ step # "del_br" /\ conn' = conn
    BY <1>3, <1>5
  <2>2. server = "packet" => step = "get" /\ Len(toClient) = 1
    BY <1>1, <2>1 DEF SessionInv, Paired
  <2>3. Len(toClient) = 2 => server = "ack" /\ packet = "header"
    BY <2>1 DEF SessionInv, Paired
  <2>4. server \in {"compress", "close", "stuck"} => step = "compress"
    BY <1>1, <2>1 DEF SessionInv, Paired
  <2>5. Len(toClient') # 2
    BY <1>4
  <2>6. server' = "packet" => /\ toServer' = <<>>
                             /\ step' = "receive" /\ toClient' = <<>>
    BY <1>1, <1>2, <1>4, <1>5, <2>2
  <2>7. step' = "receive" /\ toClient' # <<>> =>
          server' = "ack" /\ toClient'[1].kind = packet'
    BY <1>1, <1>4, <2>3
  <2>8. server' \in {"compress", "close", "stuck"} => step' = "get" /\ toClient' = <<>>
    BY <1>1, <1>4, <1>5, <2>4
  <2> QED
    BY <2>5, <2>6, <2>7, <2>8 DEF Paired
<1>19. Answered'
  BY <1>1, <1>2, <1>3, <1>4, <1>5, <1>6, <1>7 DEF SessionInv, Answered, Answer, Uploaded, Converted
<1>20. Progress'
  BY <1>1, <1>2, <1>3, <1>4, <1>5, <1>6, <1>7 DEF SessionInv, Progress
<1>21. Upload'
  BY <1>1, <1>2, <1>3, <1>4, <1>5, <1>6, <1>7 DEF SessionInv, Upload, CutShort, Answer, Uploading, Whole, Taken
<1>22. Copies'
  BY <1>1, <1>2, <1>3, <1>4, <1>5, <1>6, <1>7 DEF SessionInv, Copies, Came, Alive, Answer, Uploaded, Converted
<1>23. Balance'
  <2>1. handles \in Nat /\ held \in Nat
    BY DEF SessionInv, StorageType
  <2>2. (conn = "half" => handles = held) /\ client # "done"
    BY <1>1 DEF SessionInv, Ends
  <2> QED
    BY <1>1, <1>2, <1>3, <1>4, <1>5, <1>6, <2>1, <2>2 DEF SessionInv, Balance, AfterUpload
<1>24. Deletions'
  <2>1. (conn = "half" => "restart" \in faults) /\ client # "done"
    BY <1>1 DEF SessionInv, Ends
  <2> QED
    BY <1>1, <1>2, <1>3, <1>4, <1>5, <1>6, <2>1 DEF SessionInv, Deletions, Answer
<1> QED
  BY <1>8, <1>9, <1>10, <1>11, <1>12, <1>13, <1>14, <1>15, <1>16, <1>17, <1>18, <1>19, <1>20, <1>21, <1>22, <1>23, <1>24 DEF SessionInv

\* A packet is acknowledged; the last one tells whether the file is whole.
LEMMA ReceivePacketInv ==
  ASSUME SessionInv, ReceivePacket
  PROVE  SessionInv'
<1>1. /\ client = "wait" /\ step = "receive" /\ toClient # <<>>
      /\ got' = (IF Head(toClient).kind = "data" THEN got \o Head(toClient).content ELSE got)
      /\ valid' => Head(toClient).kind = "tailer" /\ Head(toClient).content = got
      /\ valid' \in BOOLEAN
      /\ Head(toClient).kind = "tailer" => client' = "send" /\ step' = "del_src"
      /\ Head(toClient).kind # "tailer" => client' = client /\ step' = step
      /\ toClient' = Tail(toClient)
      /\ Transmit(Message("ack", <<>>))
      /\ UNCHANGED <<file, sent, server, path, fileOpen, context,
                     position, packet, flash, handles, runs, faults, held, made>>
  BY DEF ReceivePacket, locals, storage, history
<1>2. PICK m : m = toClient[1]
  OBVIOUS
<1>3. /\ Head(toClient) = m /\ m \in Responses /\ m.content \in Seq(Blocks)
      /\ Len(toClient) = 1 /\ toClient' = <<>>
  <2>1. toClient \in Seq(Responses) /\ Len(toClient) \in 0..1
    BY <1>1 DEF SessionInv, Contents, Replies
  <2>2. Len(toClient) = 1
    BY <1>1, <2>1, QueueHead
  <2> QED
    <3>1. m \in Responses /\ Head(toClient) = m /\ toClient' = <<>>
      BY <1>1, <1>2, <2>1, <2>2, QueueHead
    <3> QED
      BY <2>2, <3>1 DEF Responses
<1>4. toServer = <<>> /\ conn \in {"open", "half"} /\ (conn = "half" => server = "accept")
  BY <1>1 DEF SessionInv, Line, Ends, Alive
<1>5. conn = "open" => server = "ack" /\ m.kind = packet
  BY <1>1, <1>2 DEF SessionInv, Paired
<1>6. m.kind = "tailer" => Came(m.content)
  BY <1>1, <1>2 DEF SessionInv, Replies
<1>7. /\ conn = "half" => toServer' = <<>> /\ conn' = "dropped"
      /\ conn = "open" => /\ conn' = conn /\ Len(toServer') = 1 /\ toServer' # <<>>
                          /\ toServer'[1].kind = "ack" /\ toServer' \in Seq(Requests)
  <2>1. Message("ack", <<>>) \in Requests /\ Message("ack", <<>>).kind = "ack"
    <3>1. <<>> \in Seq(Blocks) /\ "ack" \in Kinds
      BY DEF Kinds
    <3> QED
      BY <3>1, MessageType
  <2> QED
    BY <1>1, <1>4, <2>1 DEF Transmit
<1>8. /\ DOMAIN <<>> = {} /\ Len(<<>>) = 0
      /\ <<>> \in Seq(Requests) /\ <<>> \in Seq(Responses)
  OBVIOUS
<1>9. m.kind \in PacketKinds /\ ~Answer("NG")
  BY <1>1, <1>2 DEF SessionInv, Replies, Came, Answer, PacketKinds
<1>10. Contents'
  <2>1. \A i \in DOMAIN toServer' : toServer'[i].kind # "data"
    BY <1>4, <1>7, <1>8, QueueEmpty
  <2> QED
    BY <1>3, <1>4, <1>7, <1>8, <2>1 DEF Contents
<1>11. ScriptType'
  <2>1. got \in Seq(Blocks) /\ got \o m.content \in Seq(Blocks)
    BY <1>3 DEF SessionInv, ScriptType
  <2>2. got' \in Seq(Blocks) /\ step' \in Steps
    BY <1>1, <1>3, <2>1 DEF Steps
  <2> QED
    BY <1>1, <1>3, <2>2 DEF SessionInv, ScriptType
<1>12. ServerType'
  BY <1>1, <1>2, <1>3, <1>4, <1>5, <1>6, <1>7, <1>8, <1>9 DEF SessionInv, ServerType
<1>13. StorageType'
  BY <1>1, <1>2, <1>3, <1>4, <1>5, <1>6, <1>7, <1>8, <1>9 DEF SessionInv, StorageType
<1>14. ServerInv'
  BY <1>1, <1>2, <1>3, <1>4, <1>5, <1>6, <1>7, <1>8, <1>9 DEF SessionInv, ServerInv
<1>15. Behind'
  BY <1>1, <1>2, <1>3, <1>4, <1>5, <1>6, <1>7, <1>8, <1>9 DEF SessionInv, Behind
<1>16. Line'
  BY <1>1, <1>2, <1>3, <1>4, <1>5, <1>6, <1>7, <1>8, <1>9 DEF SessionInv, Line, Request, AckOnly, AckAndRequest
<1>17. Room'
  BY <1>1, <1>2, <1>3, <1>4, <1>5, <1>6, <1>7, <1>8, <1>9 DEF SessionInv, Room, Request
<1>18. Replies'
  BY <1>1, <1>2, <1>3, <1>4, <1>5, <1>6, <1>7, <1>8, <1>9 DEF SessionInv, Replies, Came
<1>19. Ends'
  BY <1>1, <1>2, <1>3, <1>4, <1>5, <1>6, <1>7, <1>8, <1>9 DEF SessionInv, Ends, Alive, Gone
<1>20. Paired'
  <2>1. Len(toClient') # 2
    BY <1>3, <1>8
  <2>2. conn' = "open" => server' = "ack"
    BY <1>1, <1>4, <1>5, <1>7
  <2> QED
    BY <1>3, <2>1, <2>2 DEF Paired
<1>21. Answered'
  BY <1>1, <1>2, <1>3, <1>4, <1>5, <1>6, <1>7, <1>8, <1>9 DEF SessionInv, Answered, Answer, Uploaded, Converted
<1>22. Progress'
  BY <1>1, <1>2, <1>3, <1>4, <1>5, <1>6, <1>7, <1>8, <1>9 DEF SessionInv, Progress
<1>23. Upload'
  BY <1>1, <1>2, <1>3, <1>4, <1>5, <1>6, <1>7, <1>8, <1>9 DEF SessionInv, Upload, CutShort, Answer, Uploading, Whole, Taken
<1>24. Copies'
  <2>1. valid' => Came(got)'
    <3>1. valid' => Came(got) /\ got' = got
      BY <1>1, <1>3, <1>6
    <3> QED
      BY <1>1, <3>1 DEF Came
  <2> QED
    BY <1>1, <1>3, <1>4, <1>5, <1>7, <2>1 DEF SessionInv, Copies, Alive, Answer, Uploaded, Converted
<1>25. Balance'
  BY <1>1, <1>2, <1>3, <1>4, <1>5, <1>6, <1>7, <1>8, <1>9 DEF SessionInv, Balance, Answer, AfterUpload
<1>26. Deletions'
  BY <1>1, <1>2, <1>3, <1>4, <1>5, <1>6, <1>7, <1>8, <1>9 DEF SessionInv, Deletions, Answer
<1> QED
  BY <1>10, <1>11, <1>12, <1>13, <1>14, <1>15, <1>16, <1>17, <1>18, <1>19, <1>20, <1>21, <1>22, <1>23, <1>24, <1>25, <1>26 DEF SessionInv


-----------------------------------------------------------------------------
(* The server.                                                              *)

\* The answer to a request reaches the script that waits for it, or there is none
\* any more.
LEMMA AnswerEffect ==
  ASSUME SessionInv, server # "accept", toServer # <<>>, Head(toServer).kind # "ack",
         NEW k \in {"OK", "NG"}, NEW n, NEW f, Reply(k, n, f),
         toServer' = Tail(toServer), UNCHANGED <<conn, client, step>>
  PROVE  /\ toServer' = <<>> /\ toServer' \in Seq(Requests) /\ server' \in {n, f}
         /\ Len(toServer) = 1 /\ toServer[1].kind = step /\ step # "receive"
         /\ client \notin {"none", "send", "done"}
         /\ toClient' \in Seq(Responses) /\ Len(toClient') \in 0..2
         /\ toClient = <<>> => Len(toClient') \in 0..1
         /\ conn \in {"open", "silent", "dropped", "closed"}
         /\ conn = "open" =>
              /\ client = "wait" /\ toClient = <<>> /\ server' = n
              /\ toClient' # <<>> /\ Len(toClient') = 1 /\ toClient'[1].kind = k
         /\ conn # "open" => ~Alive
         /\ conn = "dropped" => toClient' = <<>>
<1>1. /\ Tail(toServer) = <<>> /\ Len(toServer) = 1 /\ toServer[1].kind = step
      /\ step # "receive" /\ Request /\ client # "send"
      /\ client = "wait" => toClient = <<>>
  BY Asked
<1>2. /\ conn \in {"open", "silent", "dropped", "closed"}
      /\ conn = "open" => client = "wait"
      /\ conn # "open" => ~Alive
      /\ conn = "dropped" => toClient = <<>>
      /\ client \notin {"none", "done"}
  BY <1>1 DEF SessionInv, Ends, Gone, Alive
<1>3. /\ Gone => server' \in {n, f} /\ toClient' = toClient
      /\ ~Gone => server' = n /\ toClient' = Append(toClient, Message(k, <<>>))
  BY DEF Reply, Send
<1>4. PICK m : m = Message(k, <<>>)
  OBVIOUS
<1>5. m \in Responses /\ m.kind = k
  <2>1. <<>> \in Seq(Blocks) /\ k \in PacketKinds \cup {"OK", "NG"}
    OBVIOUS
  <2> QED
    BY <1>4, <2>1, MessageType
<1>6. /\ toClient \in Seq(Responses) /\ Len(toClient) \in 0..1
      /\ toClient = <<>> <=> Len(toClient) = 0
  BY QueueEmpty DEF SessionInv, Contents, Room
<1>7. /\ toClient' \in Seq(Responses) /\ Len(toClient') \in 0..2
      /\ toClient = <<>> => Len(toClient') \in 0..1
      /\ ~Gone /\ toClient = <<>> =>
           toClient' # <<>> /\ Len(toClient') = 1 /\ toClient'[1].kind = k
  <2>1. CASE Gone
    BY <2>1, <1>3, <1>6
  <2>2. CASE ~Gone
    BY <2>2, <1>3, <1>4, <1>5, <1>6, QueueAppend
  <2> QED
    BY <2>1, <2>2
<1>8. toServer' = <<>> /\ toServer' \in Seq(Requests)
  <2>1. <<>> \in Seq(Requests)
    OBVIOUS
  <2> QED
    BY <1>1, <2>1
<1> QED
  BY <1>1, <1>2, <1>3, <1>7, <1>8 DEF Gone

\* A command is answered; OK means that the file is there, and the server goes to carry it out.
LEMMA CommandInv ==
  ASSUME SessionInv, NEW kind \in {"put", "get", "compress", "del_src", "del_br"}, NEW branch,
         kind = "put" => branch = "put", kind = "get" => branch = "packet",
         kind = "compress" => branch = "compress",
         kind \in {"del_src", "del_br"} => branch = "unlink",
         Command(kind, branch)
  PROVE  SessionInv'
<1>1. PICK k \in {"OK", "NG"} :
        /\ Reply(k, IF k = "OK" THEN branch ELSE "command", "close")
        /\ k = "OK" => kind = "put" \/ flash[path'] # Absent
  BY DEF Command
<1>2. /\ server = "command" /\ toServer # <<>> /\ Head(toServer).kind = kind
      /\ toServer' = Tail(toServer)
      /\ path' = (IF kind \in {"get", "del_br"} THEN "br" ELSE "src")
      /\ fileOpen' = FALSE /\ context' = <<>> /\ position' = 0 /\ packet' = "header"
      /\ UNCHANGED <<conn, step, client, file, sent, got, valid, flash, handles,
                     runs, faults, held, made>>
  BY DEF Command, Received, PathOf, script, storage, history
<1>3. /\ toServer' = <<>> /\ toServer' \in Seq(Requests)
      /\ server' \in {IF k = "OK" THEN branch ELSE "command", "close"}
      /\ Len(toServer) = 1 /\ toServer[1].kind = step
      /\ client \notin {"none", "send", "done"}
      /\ toClient' \in Seq(Responses) /\ Len(toClient') \in 0..2
      /\ toClient = <<>> => Len(toClient') \in 0..1
      /\ conn \in {"open", "silent", "dropped", "closed"}
      /\ conn = "open" =>
           /\ client = "wait" /\ toClient = <<>>
           /\ server' = IF k = "OK" THEN branch ELSE "command"
           /\ toClient' # <<>> /\ Len(toClient') = 1 /\ toClient'[1].kind = k
      /\ conn # "open" => ~Alive
      /\ conn = "dropped" => toClient' = <<>>
  BY <1>1, <1>2, AnswerEffect
<1>4. /\ step = kind
      /\ kind = "put" => branch = "put"
      /\ kind = "get" => branch = "packet"
      /\ kind = "compress" => branch = "compress"
      /\ kind \in {"del_src", "del_br"} => branch = "unlink"
      /\ kind \in {"put", "get", "compress", "del_src", "del_br"}
  <2>1. toServer \in Seq(Requests)
    BY DEF SessionInv, Contents
  <2>2. Head(toServer) = toServer[1]
    BY <1>2, <2>1, QueueHead
  <2> QED
    BY <1>2, <1>3, <2>2
<1>5. client # "wait" => ~Alive
  BY <1>3 DEF Alive
<1>6. Len(toClient') = 2 => conn # "open"
  BY <1>3
<1>7. DOMAIN <<>> = {} /\ Len(<<>>) = 0 /\ <<>> \in Seq(Blocks)
  OBVIOUS
<1>8. client = "wait" => conn = "open"
  BY <1>3 DEF Alive
<1>9. Contents'
  BY <1>1, <1>2, <1>3, <1>4, <1>5, <1>6, <1>7, <1>8 DEF SessionInv, Contents
<1>10. ScriptType'
  BY <1>1, <1>2, <1>3, <1>4, <1>5, <1>6, <1>7, <1>8 DEF SessionInv, ScriptType
<1>11. ServerType'
  <2>1. server' \in {"put", "packet", "compress", "unlink", "command", "close"}
    BY <1>3, <1>4
  <2>2. path' \in Paths /\ packet' \in PacketKinds /\ fileOpen' \in BOOLEAN
    BY <1>2 DEF Paths, PacketKinds
  <2>3. context' \in Seq(Blocks) /\ position' \in Nat
    BY <1>2, <1>7
  <2> QED
    BY <2>1, <2>2, <2>3 DEF ServerType
<1>12. StorageType'
  BY <1>1, <1>2, <1>3, <1>4, <1>5, <1>6, <1>7, <1>8 DEF SessionInv, StorageType
<1>13. ServerInv'
  BY <1>1, <1>2, <1>3, <1>4, <1>5, <1>6, <1>7, <1>8 DEF SessionInv, ServerInv
<1>14. Behind'
  BY <1>1, <1>2, <1>3, <1>4, <1>5, <1>6, <1>7, <1>8 DEF SessionInv, Behind
<1>15. Line'
  BY <1>1, <1>2, <1>3, <1>4, <1>5, <1>6, <1>7, <1>8 DEF SessionInv, Line, Request, AckOnly, AckAndRequest
<1>16. Room'
  <2>1. server' = "packet" => Len(toClient') \in 0..1
    <3>1. server' = "packet" => step = "get"
      BY <1>1, <1>3, <1>4
    <3>2. step = "get" => toClient = <<>>
      BY <1>3 DEF SessionInv, Room, Request
    <3> QED
      BY <1>3, <3>1, <3>2
  <2>2. Len(toServer') = 0 /\ ~(Len(toServer') = 2) /\ ~Request'
    BY <1>3, <1>7 DEF Request
  <2> QED
    BY <1>3, <2>1, <2>2 DEF Room
<1>17. Replies'
  BY <1>1, <1>2, <1>3, <1>4, <1>5, <1>6, <1>7, <1>8 DEF SessionInv, Replies, Came
<1>18. Ends'
  BY <1>1, <1>2, <1>3, <1>4, <1>5, <1>6, <1>7, <1>8 DEF SessionInv, Ends, Alive, Gone
<1>19. Paired'
  BY <1>1, <1>2, <1>3, <1>4, <1>5, <1>6, <1>7, <1>8 DEF SessionInv, Paired, Answer
<1>20. Answered'
  <2> SUFFICES ASSUME Answer("OK")' PROVE Answered'
    BY DEF Answered
  <2>1. conn = "open" /\ k = "OK"
    BY <1>1, <1>2, <1>3, <1>8 DEF Answer
  <2>2. server' = branch
    BY <1>3, <2>1
  <2>3. step = "get" => Converted
    BY <1>2, <2>1 DEF SessionInv, Copies, Came
  <2> QED
    BY <1>2, <1>4, <2>2, <2>3 DEF Answered, Converted
<1>21. Progress'
  BY <1>1, <1>2, <1>3, <1>4, <1>5, <1>6, <1>7, <1>8 DEF SessionInv, Progress
<1>22. Upload'
  BY <1>1, <1>2, <1>3, <1>4, <1>5, <1>6, <1>7, <1>8 DEF SessionInv, Upload, CutShort, Answer, Uploading, Whole, Taken
<1>23. Copies'
  BY <1>1, <1>2, <1>3, <1>4, <1>5, <1>6, <1>7, <1>8 DEF SessionInv, Copies, Came, Alive, Answer, Uploaded, Converted
<1>24. Balance'
  BY <1>1, <1>2, <1>3, <1>4, <1>5, <1>6, <1>7, <1>8 DEF SessionInv, Balance, Answer, AfterUpload
<1>25. Deletions'
  BY <1>1, <1>2, <1>3, <1>4, <1>5, <1>6, <1>7, <1>8 DEF SessionInv, Deletions, Answer
<1> QED
  BY <1>9, <1>10, <1>11, <1>12, <1>13, <1>14, <1>15, <1>16, <1>17, <1>18, <1>19, <1>20, <1>21, <1>22, <1>23, <1>24, <1>25 DEF SessionInv

\* What put_file gets, and where both sides are: with the put already answered, the
\* server holds the file open, or waits for the header.
LEMMA PutEffect ==
  ASSUME SessionInv, Put
  PROVE  /\ server = "put" /\ path = "src" /\ toServer # <<>> /\ toServer' = Tail(toServer)
         /\ toServer[1] \in Requests /\ Head(toServer) = toServer[1]
         /\ toServer[1].kind = step /\ step # "receive" /\ step \in {"put", "header", "data", "tailer"}
         /\ Head(toServer).kind # "ack"
         /\ toServer[1].content \in Seq(Blocks)
         /\ step = "data" => Len(toServer[1].content) = 1
         /\ UNCHANGED <<conn, step, client, file, sent, got, valid, path, position, packet>>
<1>1. /\ server = "put" /\ toServer # <<>> /\ toServer' = Tail(toServer)
      /\ UNCHANGED <<conn, step, client, file, sent, got, valid, path, position, packet>>
  BY DEF Put, script
<1>2. /\ path = "src" /\ step \in {"put", "header", "data", "tailer"}
  BY <1>1 DEF SessionInv, ServerInv, Behind
<1>3. toServer \in Seq(Requests)
  BY DEF SessionInv, Contents
<1>4. /\ toServer[1] \in Requests /\ Head(toServer) = toServer[1]
      /\ 1 \in DOMAIN toServer
  BY <1>1, <1>3, QueueHead
<1>5. toServer[1].kind = step /\ Head(toServer).kind # "ack"
  BY <1>1, <1>2, <1>4 DEF SessionInv, Line, Request
<1>6. toServer[1].content \in Seq(Blocks)
  BY <1>4 DEF Requests
<1>7. step = "data" => Len(toServer[1].content) = 1
  BY <1>4, <1>5 DEF SessionInv, Contents
<1> QED
  BY <1>1, <1>2, <1>4, <1>5, <1>6, <1>7


\* A header that cannot be served is refused.
LEMMA PutHeaderFailsInv ==
  ASSUME SessionInv, PutHeaderFails
  PROVE  SessionInv'
<1>1. /\ server = "put" /\ path = "src" /\ toServer' = Tail(toServer) /\ toServer # <<>>
      /\ toServer[1].kind = step /\ step \in {"put", "header", "data", "tailer"}
      /\ Head(toServer) = toServer[1] /\ Head(toServer).kind # "ack"
      /\ toServer[1].content \in Seq(Blocks)
      /\ step = "data" => Len(toServer[1].content) = 1
      /\ UNCHANGED <<conn, step, client, file, sent, got, valid, path, position, packet>>
  BY PutEffect DEF PutHeaderFails
<1>2. /\ toServer' = <<>> /\ toServer' \in Seq(Requests)
      /\ server' \in {"put", "command"}
      /\ client \notin {"none", "send", "done"}
      /\ toClient' \in Seq(Responses) /\ Len(toClient') \in 0..2
      /\ toClient = <<>> => Len(toClient') \in 0..1
      /\ conn \in {"open", "silent", "dropped", "closed"}
      /\ conn = "open" =>
           /\ client = "wait" /\ toClient = <<>> /\ server' = "put"
           /\ toClient' # <<>> /\ Len(toClient') = 1 /\ toClient'[1].kind = "NG"
      /\ conn # "open" => ~Alive
      /\ conn = "dropped" => toClient' = <<>>
  <2>1. /\ server # "accept" /\ "OK" \in {"OK", "NG"} /\ "NG" \in {"OK", "NG"}
        /\ UNCHANGED <<conn, client, step>> /\ Reply("NG", "put", "command")
    BY <1>1 DEF PutHeaderFails
  <2> QED
    BY <1>1, <2>1, AnswerEffect
<1>3. /\ client # "wait" => ~Alive
      /\ client = "wait" => conn = "open"
      /\ Len(toClient') = 2 => conn # "open"
  <2>1. (client # "wait" => ~Alive) /\ (client = "wait" => conn = "open")
    BY <1>2 DEF Alive
  <2>2. Len(toClient') = 2 => conn # "open"
    BY <1>2
  <2> QED
    BY <2>1, <2>2
<1>4. DOMAIN <<>> = {} /\ Len(<<>>) = 0 /\ <<>> \in Seq(Blocks)
  OBVIOUS
<1>5. /\ faults' \subseteq AllFaults /\ faults \subseteq faults'
      /\ UNCHANGED <<runs, held, made, fileOpen, context, flash, handles>>
  BY DEF PutHeaderFails, Fault, Happens, AllFaults, storage, history, SessionInv, StorageType
<1>6. Contents'
  BY <1>1, <1>2, <1>3, <1>4, <1>5 DEF SessionInv, Contents
<1>7. ScriptType'
  BY <1>1, <1>2, <1>3, <1>4, <1>5 DEF SessionInv, ScriptType
<1>8. ServerType'
  BY <1>1, <1>2, <1>3, <1>4, <1>5 DEF SessionInv, ServerType
<1>9. StorageType'
  BY <1>1, <1>2, <1>3, <1>4, <1>5 DEF SessionInv, StorageType
<1>10. ServerInv'
  BY <1>1, <1>2, <1>3, <1>4, <1>5 DEF SessionInv, ServerInv
<1>11. Behind'
  BY <1>1, <1>2, <1>3, <1>4, <1>5 DEF SessionInv, Behind
<1>12. Line'
  BY <1>1, <1>2, <1>3 DEF Line
<1>13. Room'
  <2>1. server' # "packet" /\ ~(Len(toServer') = 2) /\ ~Request'
    BY <1>2, <1>4 DEF Request
  <2> QED
    BY <1>2, <2>1 DEF Room
<1>14. Replies'
  BY <1>1, <1>2, <1>3, <1>4, <1>5 DEF SessionInv, Replies, Came
<1>15. Ends'
  BY <1>1, <1>2, <1>3, <1>4, <1>5 DEF SessionInv, Ends, Alive, Gone
<1>16. Paired'
  BY <1>1, <1>2, <1>3, <1>4, <1>5 DEF SessionInv, Paired, Answer
<1>17. Answered'
  BY <1>1, <1>2, <1>3, <1>4, <1>5 DEF SessionInv, Answered, Answer, Uploaded, Converted
<1>18. Progress'
  BY <1>1, <1>2, <1>3, <1>4, <1>5 DEF SessionInv, Progress
<1>19. Upload'
  <2>1. conn' = "open" => Answer("NG")'
    BY <1>1, <1>2 DEF Answer
  <2> QED
    BY <2>1 DEF Upload
<1>20. Copies'
  BY <1>1, <1>2, <1>3, <1>4, <1>5 DEF SessionInv, Copies, Came, Alive, Answer, Uploaded, Converted
<1>21. Balance'
  <2>1. (conn' = "open" => Answer("NG")') /\ client' # "done"
    BY <1>1, <1>2 DEF Answer
  <2> QED
    BY <2>1 DEF Balance
<1>22. Deletions'
  BY <1>1, <1>2, <1>3, <1>4, <1>5 DEF SessionInv, Deletions, Answer
<1> QED
  BY <1>6, <1>7, <1>8, <1>9, <1>10, <1>11, <1>12, <1>13, <1>14, <1>15, <1>16, <1>17, <1>18, <1>19, <1>20, <1>21, <1>22 DEF SessionInv

\* A block that cannot be written is refused.
LEMMA PutDataFailsInv ==
  ASSUME SessionInv, PutDataFails
  PROVE  SessionInv'
<1>1. /\ server = "put" /\ path = "src" /\ toServer' = Tail(toServer) /\ toServer # <<>>
      /\ toServer[1].kind = step /\ step \in {"put", "header", "data", "tailer"}
      /\ Head(toServer) = toServer[1] /\ Head(toServer).kind # "ack"
      /\ toServer[1].content \in Seq(Blocks)
      /\ step = "data" => Len(toServer[1].content) = 1
      /\ UNCHANGED <<conn, step, client, file, sent, got, valid, path, position, packet>>
  BY PutEffect DEF PutDataFails
<1>2. /\ toServer' = <<>> /\ toServer' \in Seq(Requests)
      /\ server' \in {"put", "command"}
      /\ client \notin {"none", "send", "done"}
      /\ toClient' \in Seq(Responses) /\ Len(toClient') \in 0..2
      /\ toClient = <<>> => Len(toClient') \in 0..1
      /\ conn \in {"open", "silent", "dropped", "closed"}
      /\ conn = "open" =>
           /\ client = "wait" /\ toClient = <<>> /\ server' = "put"
           /\ toClient' # <<>> /\ Len(toClient') = 1 /\ toClient'[1].kind = "NG"
      /\ conn # "open" => ~Alive
      /\ conn = "dropped" => toClient' = <<>>
  <2>1. /\ server # "accept" /\ "OK" \in {"OK", "NG"} /\ "NG" \in {"OK", "NG"}
        /\ UNCHANGED <<conn, client, step>> /\ Reply("NG", "put", "command")
    BY <1>1 DEF PutDataFails
  <2> QED
    BY <1>1, <2>1, AnswerEffect
<1>3. /\ client # "wait" => ~Alive
      /\ client = "wait" => conn = "open"
      /\ Len(toClient') = 2 => conn # "open"
  <2>1. (client # "wait" => ~Alive) /\ (client = "wait" => conn = "open")
    BY <1>2 DEF Alive
  <2>2. Len(toClient') = 2 => conn # "open"
    BY <1>2
  <2> QED
    BY <2>1, <2>2
<1>4. DOMAIN <<>> = {} /\ Len(<<>>) = 0 /\ <<>> \in Seq(Blocks)
  OBVIOUS
<1>5. /\ faults' \subseteq AllFaults /\ faults \subseteq faults'
      /\ UNCHANGED <<runs, held, made, fileOpen, context, flash, handles>>
  BY DEF PutDataFails, Fault, Happens, AllFaults, storage, history, SessionInv, StorageType
<1>6. Contents'
  BY <1>1, <1>2, <1>3, <1>4, <1>5 DEF SessionInv, Contents
<1>7. ScriptType'
  BY <1>1, <1>2, <1>3, <1>4, <1>5 DEF SessionInv, ScriptType
<1>8. ServerType'
  BY <1>1, <1>2, <1>3, <1>4, <1>5 DEF SessionInv, ServerType
<1>9. StorageType'
  BY <1>1, <1>2, <1>3, <1>4, <1>5 DEF SessionInv, StorageType
<1>10. ServerInv'
  BY <1>1, <1>2, <1>3, <1>4, <1>5 DEF SessionInv, ServerInv
<1>11. Behind'
  BY <1>1, <1>2, <1>3, <1>4, <1>5 DEF SessionInv, Behind
<1>12. Line'
  BY <1>1, <1>2, <1>3 DEF Line
<1>13. Room'
  <2>1. server' # "packet" /\ ~(Len(toServer') = 2) /\ ~Request'
    BY <1>2, <1>4 DEF Request
  <2> QED
    BY <1>2, <2>1 DEF Room
<1>14. Replies'
  BY <1>1, <1>2, <1>3, <1>4, <1>5 DEF SessionInv, Replies, Came
<1>15. Ends'
  BY <1>1, <1>2, <1>3, <1>4, <1>5 DEF SessionInv, Ends, Alive, Gone
<1>16. Paired'
  BY <1>1, <1>2, <1>3, <1>4, <1>5 DEF SessionInv, Paired, Answer
<1>17. Answered'
  BY <1>1, <1>2, <1>3, <1>4, <1>5 DEF SessionInv, Answered, Answer, Uploaded, Converted
<1>18. Progress'
  BY <1>1, <1>2, <1>3, <1>4, <1>5 DEF SessionInv, Progress
<1>19. Upload'
  <2>1. conn' = "open" => Answer("NG")'
    BY <1>1, <1>2 DEF Answer
  <2> QED
    BY <2>1 DEF Upload
<1>20. Copies'
  BY <1>1, <1>2, <1>3, <1>4, <1>5 DEF SessionInv, Copies, Came, Alive, Answer, Uploaded, Converted
<1>21. Balance'
  <2>1. (conn' = "open" => Answer("NG")') /\ client' # "done"
    BY <1>1, <1>2 DEF Answer
  <2> QED
    BY <2>1 DEF Balance
<1>22. Deletions'
  BY <1>1, <1>2, <1>3, <1>4, <1>5 DEF SessionInv, Deletions, Answer
<1> QED
  BY <1>6, <1>7, <1>8, <1>9, <1>10, <1>11, <1>12, <1>13, <1>14, <1>15, <1>16, <1>17, <1>18, <1>19, <1>20, <1>21, <1>22 DEF SessionInv

\* A header opens the file: put_file begins, or begins again.
LEMMA PutHeaderInv ==
  ASSUME SessionInv, PutHeader
  PROVE  SessionInv'
<1>1. /\ server = "put" /\ path = "src" /\ toServer' = Tail(toServer) /\ toServer # <<>>
      /\ toServer[1].kind = step /\ step \in {"put", "header", "data", "tailer"}
      /\ Head(toServer) = toServer[1] /\ Head(toServer).kind # "ack"
      /\ toServer[1].content \in Seq(Blocks)
      /\ step = "data" => Len(toServer[1].content) = 1
      /\ UNCHANGED <<conn, step, client, file, sent, got, valid, path, position, packet>>
  BY PutEffect DEF PutHeader
<1>2. /\ toServer' = <<>> /\ toServer' \in Seq(Requests)
      /\ server' \in {"put", "command"}
      /\ client \notin {"none", "send", "done"}
      /\ toClient' \in Seq(Responses) /\ Len(toClient') \in 0..2
      /\ toClient = <<>> => Len(toClient') \in 0..1
      /\ conn \in {"open", "silent", "dropped", "closed"}
      /\ conn = "open" =>
           /\ client = "wait" /\ toClient = <<>> /\ server' = "put"
           /\ toClient' # <<>> /\ Len(toClient') = 1 /\ toClient'[1].kind = "OK"
      /\ conn # "open" => ~Alive
      /\ conn = "dropped" => toClient' = <<>>
  <2>1. /\ server # "accept" /\ "OK" \in {"OK", "NG"} /\ "NG" \in {"OK", "NG"}
        /\ UNCHANGED <<conn, client, step>> /\ Reply("OK", "put", "command")
    BY <1>1 DEF PutHeader
  <2> QED
    BY <1>1, <2>1, AnswerEffect
<1>3. /\ client # "wait" => ~Alive
      /\ client = "wait" => conn = "open"
      /\ Len(toClient') = 2 => conn # "open"
  <2>1. (client # "wait" => ~Alive) /\ (client = "wait" => conn = "open")
    BY <1>2 DEF Alive
  <2>2. Len(toClient') = 2 => conn # "open"
    BY <1>2
  <2> QED
    BY <2>1, <2>2
<1>4. DOMAIN <<>> = {} /\ Len(<<>>) = 0 /\ <<>> \in Seq(Blocks)
  OBVIOUS
<1>5. /\ handles \in 0..MaxFiles /\ handles < MaxFiles /\ handles' = handles + 1
      /\ MaxFiles \in Nat /\ flash \in [Paths -> Seq(Blocks) \cup {Absent}]
      /\ held \in 0..MaxFiles
  BY ConstantsAssumption DEF PutHeader, CanOpen, SessionInv, StorageType
<1>6. /\ fileOpen' = TRUE /\ context' = <<>> /\ UNCHANGED <<runs, faults, held, made>>
      /\ step = "header" \/ step = "data"
  BY <1>1 DEF PutHeader, IsHeader, Incoming, history
<1>7. /\ flash' \in [Paths -> Seq(Blocks) \cup {Absent}]
      /\ flash'["src"] = <<>> /\ flash'["br"] = flash["br"] /\ <<>> # Absent
  <2>1. flash' = [flash EXCEPT !["src"] = <<>>]
    BY <1>1 DEF PutHeader
  <2> QED
    BY <1>4, <1>5, <2>1, ConstantsAssumption DEF Paths
<1>8. handles' \in 0..MaxFiles /\ handles' > 0
  BY <1>5
<1>9. Contents'
  BY <1>1, <1>2, <1>3, <1>4, <1>5, <1>6, <1>7, <1>8 DEF SessionInv, Contents
<1>10. ScriptType'
  BY <1>1, <1>2, <1>3, <1>4, <1>5, <1>6, <1>7, <1>8 DEF SessionInv, ScriptType
<1>11. ServerType'
  <2>1. server' \in {"put", "command"} /\ fileOpen' \in BOOLEAN
    BY <1>2, <1>6
  <2> QED
    BY <1>1, <1>4, <1>6, <2>1 DEF SessionInv, ServerType
<1>12. StorageType'
  BY <1>5, <1>6, <1>7, <1>8 DEF SessionInv, StorageType
<1>13. ServerInv'
  <2>1. server' \in {"put", "command"}
    BY <1>2
  <2> QED
    BY <1>1, <1>4, <1>6, <1>7, <1>8, <2>1 DEF SessionInv, ServerInv
<1>14. Behind'
  BY <1>1, <1>2, <1>3, <1>4, <1>5, <1>6, <1>7, <1>8 DEF SessionInv, Behind
<1>15. Line'
  BY <1>1, <1>2, <1>3 DEF Line
<1>16. Room'
  <2>1. server' # "packet" /\ ~(Len(toServer') = 2) /\ ~Request'
    BY <1>2, <1>4 DEF Request
  <2> QED
    BY <1>2, <2>1 DEF Room
<1>17. Replies'
  BY <1>1, <1>2, <1>3, <1>4, <1>5, <1>6, <1>7, <1>8 DEF SessionInv, Replies, Came
<1>18. Ends'
  BY <1>1, <1>2, <1>3, <1>4, <1>5, <1>6, <1>7, <1>8 DEF SessionInv, Ends, Alive, Gone
<1>19. Paired'
  BY <1>1, <1>2, <1>3, <1>4, <1>5, <1>6, <1>7, <1>8 DEF SessionInv, Paired, Answer
<1>20. Answered'
  BY <1>1, <1>2, <1>3, <1>4, <1>5, <1>6, <1>7, <1>8 DEF SessionInv, Answered, Answer, Uploaded, Converted
<1>21. Progress'
  BY <1>1, <1>2, <1>3, <1>4, <1>5, <1>6, <1>7, <1>8 DEF SessionInv, Progress
<1>22. Upload'
  <2> SUFFICES ASSUME conn' = "open" PROVE Upload'
    BY DEF Upload
  <2>1. /\ conn = "open" /\ ~Answer("NG") /\ client = "wait" /\ toClient = <<>>
        /\ server' = "put" /\ toClient' # <<>>
    BY <1>1, <1>2 DEF Answer
  <2>2. step = "header" => handles = held /\ sent = 0
    BY <2>1 DEF SessionInv, Upload, CutShort, Progress
  <2>3. step = "data" => sent > 0
    BY <1>1, <2>1 DEF SessionInv, Upload, CutShort
  <2>4. file \in Seq(Blocks) /\ sent \in Nat
    BY QueueEmpty DEF SessionInv, ScriptType
  <2>5. Taken' = sent
    BY <1>1, <1>2 DEF Taken
  <2>6. step = "header" => Whole'
    <3>1. SubSeq(file, 1, 0) = <<>>
      BY <2>4
    <3> QED
      BY <1>1, <1>5, <1>6, <1>7, <2>2, <2>5, <3>1 DEF Whole
  <2>7. step = "data" => Len(context') < Taken'
    BY <1>4, <1>6, <2>3, <2>4, <2>5
  <2> QED
    BY <1>1, <1>2, <1>6, <2>1, <2>6, <2>7 DEF Upload
<1>23. Copies'
  BY <1>1, <1>2, <1>3, <1>4, <1>5, <1>6, <1>7, <1>8 DEF SessionInv, Copies, Came, Alive, Answer, Uploaded, Converted
<1>24. Balance'
  BY <1>1, <1>2, <1>3, <1>4, <1>5, <1>6, <1>7, <1>8 DEF SessionInv, Balance, Answer, AfterUpload
<1>25. Deletions'
  BY <1>1, <1>2, <1>3, <1>4, <1>5, <1>6, <1>7, <1>8 DEF SessionInv, Deletions, Answer
<1> QED
  BY <1>9, <1>10, <1>11, <1>12, <1>13, <1>14, <1>15, <1>16, <1>17, <1>18, <1>19, <1>20, <1>21, <1>22, <1>23, <1>24, <1>25 DEF SessionInv

\* One block more of the file.
LEMMA NextBlock ==
  ASSUME NEW S, NEW s \in Seq(S), NEW i \in Nat, i < Len(s)
  PROVE  /\ SubSeq(s, 1, i) \in Seq(S) /\ Len(SubSeq(s, 1, i)) = i
         /\ s[i + 1] \in S
         /\ Append(SubSeq(s, 1, i), s[i + 1]) = SubSeq(s, 1, i + 1)
         /\ SubSeq(s, 1, i) \o <<s[i + 1]>> = SubSeq(s, 1, i + 1)
<1>1. Len(s) \in Nat /\ SubSeq(s, 1, i) \in Seq(S) /\ Len(SubSeq(s, 1, i)) = i /\ s[i + 1] \in S
  OBVIOUS
<1>2. Append(SubSeq(s, 1, i), s[i + 1]) = SubSeq(s, 1, i + 1)
  BY <1>1
<1>3. SubSeq(s, 1, i) \o <<s[i + 1]>> = SubSeq(s, 1, i + 1)
  <2>1. SubSeq(s, 1, i) \o <<s[i + 1]>> = Append(SubSeq(s, 1, i), s[i + 1])
    BY <1>1
  <2> QED
    BY <1>2, <2>1
<1> QED
  BY <1>1, <1>2, <1>3

\* A sequence with one element more.
LEMMA OneBlock ==
  ASSUME NEW S, NEW s \in Seq(S), NEW c \in Seq(S), Len(c) = 1
  PROVE  s \o c \in Seq(S) /\ Len(s \o c) = Len(s) + 1
<1>1. s \o c \in Seq(S) /\ Len(s) \in Nat /\ Len(s \o c) = Len(s) + Len(c)
  BY ConcatProperties, LenProperties
<1> QED
  BY <1>1

\* A block is written to the open file, and counted in its hash.
LEMMA PutDataOpenInv ==
  ASSUME SessionInv, PutData, fileOpen
  PROVE  SessionInv'
<1>1. /\ server = "put" /\ path = "src" /\ toServer' = Tail(toServer) /\ toServer # <<>>
      /\ toServer[1].kind = step /\ step \in {"put", "header", "data", "tailer"}
      /\ Head(toServer) = toServer[1] /\ Head(toServer).kind # "ack"
      /\ toServer[1].content \in Seq(Blocks)
      /\ step = "data" => Len(toServer[1].content) = 1
      /\ UNCHANGED <<conn, step, client, file, sent, got, valid, path, position, packet>>
  BY PutEffect DEF PutData
<1>2. /\ toServer' = <<>> /\ toServer' \in Seq(Requests)
      /\ server' \in {"put", "command"}
      /\ client \notin {"none", "send", "done"}
      /\ toClient' \in Seq(Responses) /\ Len(toClient') \in 0..2
      /\ toClient = <<>> => Len(toClient') \in 0..1
      /\ conn \in {"open", "silent", "dropped", "closed"}
      /\ conn = "open" =>
           /\ client = "wait" /\ toClient = <<>> /\ server' = "put"
           /\ toClient' # <<>> /\ Len(toClient') = 1 /\ toClient'[1].kind = "OK"
      /\ conn # "open" => ~Alive
      /\ conn = "dropped" => toClient' = <<>>
  <2>1. /\ server # "accept" /\ "OK" \in {"OK", "NG"} /\ "NG" \in {"OK", "NG"}
        /\ UNCHANGED <<conn, client, step>> /\ Reply("OK", "put", "command")
    BY <1>1 DEF PutData
  <2> QED
    BY <1>1, <2>1, AnswerEffect
<1>3. /\ client # "wait" => ~Alive
      /\ client = "wait" => conn = "open"
      /\ Len(toClient') = 2 => conn # "open"
  <2>1. (client # "wait" => ~Alive) /\ (client = "wait" => conn = "open")
    BY <1>2 DEF Alive
  <2>2. Len(toClient') = 2 => conn # "open"
    BY <1>2
  <2> QED
    BY <2>1, <2>2
<1>4. DOMAIN <<>> = {} /\ Len(<<>>) = 0 /\ <<>> \in Seq(Blocks)
  OBVIOUS
<1>5. PICK c : c = toServer[1].content
  OBVIOUS
<1>6. /\ step = "data" /\ c \in Seq(Blocks) /\ Len(c) = 1
      /\ context' = context \o c /\ flash' = [flash EXCEPT !["src"] = @ \o c]
      /\ UNCHANGED <<fileOpen, handles, runs, faults, held, made>>
  BY <1>1, <1>5 DEF PutData, Incoming, IsTailer, history
<1>7. /\ flash \in [Paths -> Seq(Blocks) \cup {Absent}] /\ flash["src"] \in Seq(Blocks)
      /\ context \in Seq(Blocks) /\ handles > 0
  BY ConstantsAssumption DEF SessionInv, StorageType, ServerType, ServerInv, Paths
<1>8. /\ flash' \in [Paths -> Seq(Blocks) \cup {Absent}]
      /\ flash'["src"] = flash["src"] \o c /\ flash'["src"] # Absent
      /\ flash'["br"] = flash["br"]
  <2>1. flash["src"] \o c \in Seq(Blocks)
    BY <1>6, <1>7
  <2> QED
    BY <1>6, <1>7, <2>1, ConstantsAssumption DEF Paths
<1>9. context' \in Seq(Blocks) /\ Len(context') = Len(context) + 1
  BY <1>6, <1>7, OneBlock
<1>10. server' \in {"put", "command"}
  BY <1>2
<1>11. Contents'
  BY <1>1, <1>2, <1>3, <1>4, <1>5, <1>6, <1>7, <1>8, <1>9, <1>10 DEF SessionInv, Contents
<1>12. ScriptType'
  BY <1>1, <1>2, <1>3, <1>4, <1>5, <1>6, <1>7, <1>8, <1>9, <1>10 DEF SessionInv, ScriptType
<1>13. ServerType'
  BY <1>1, <1>6, <1>9, <1>10 DEF SessionInv, ServerType
<1>14. StorageType'
  BY <1>6, <1>8 DEF SessionInv, StorageType
<1>15. ServerInv'
  BY <1>1, <1>6, <1>7, <1>8, <1>9, <1>10 DEF SessionInv, ServerInv
<1>16. Behind'
  BY <1>1, <1>6, <1>10 DEF Behind
<1>17. Line'
  BY <1>1, <1>2, <1>3 DEF Line
<1>18. Room'
  <2>1. server' # "packet" /\ ~(Len(toServer') = 2) /\ ~Request'
    BY <1>2, <1>4 DEF Request
  <2> QED
    BY <1>2, <2>1 DEF Room
<1>19. Replies'
  BY <1>1, <1>2, <1>3, <1>4, <1>5, <1>6, <1>7, <1>8, <1>9, <1>10 DEF SessionInv, Replies, Came
<1>20. Ends'
  BY <1>1, <1>2, <1>3, <1>4, <1>5, <1>6, <1>7, <1>8, <1>9, <1>10 DEF SessionInv, Ends, Alive, Gone
<1>21. Paired'
  BY <1>1, <1>2, <1>3, <1>4, <1>5, <1>6, <1>7, <1>8, <1>9, <1>10 DEF SessionInv, Paired, Answer
<1>22. Answered'
  BY <1>1, <1>2, <1>3, <1>4, <1>5, <1>6, <1>7, <1>8, <1>9, <1>10 DEF SessionInv, Answered, Answer, Uploaded, Converted
<1>23. Progress'
  BY <1>1, <1>2, <1>3, <1>4, <1>5, <1>6, <1>7, <1>8, <1>9, <1>10 DEF SessionInv, Progress
<1>24. Upload'
  <2> SUFFICES ASSUME conn' = "open" PROVE Upload'
    BY DEF Upload
  <2>1. /\ conn = "open" /\ ~Answer("NG") /\ client = "wait" /\ toClient = <<>>
        /\ server' = "put" /\ toClient' # <<>> /\ toServer' = <<>> /\ toServer # <<>>
    BY <1>1, <1>2 DEF Answer
  <2>2. sent > 0 /\ c = <<file[sent]>> /\ (Whole \/ Len(context) < Taken)
    BY <1>1, <1>5, <1>6, <2>1 DEF SessionInv, Upload, CutShort, Uploading
  <2>3. file \in Seq(Blocks) /\ sent \in Nat /\ sent <= Len(file) /\ Len(file) \in Nat
    BY QueueEmpty DEF SessionInv, ScriptType
  <2>4. Taken' = sent /\ Taken = sent - 1
    BY <1>1, <1>6, <2>1 DEF Taken
  <2>5. CASE Whole
    <3>1. context = SubSeq(file, 1, sent - 1) /\ flash["src"] = context /\ handles = held + 1
      BY <2>4, <2>5 DEF Whole
    <3>2. context' = SubSeq(file, 1, sent)
      <4>1. sent - 1 \in Nat /\ sent - 1 < Len(file) /\ (sent - 1) + 1 = sent
        BY <2>2, <2>3
      <4> QED
        BY <1>6, <2>2, <2>3, <3>1, <4>1, NextBlock
    <3>3. Whole'
      BY <1>1, <1>6, <1>8, <2>4, <3>1, <3>2 DEF Whole
    <3> QED
      BY <1>1, <1>6, <2>1, <3>3 DEF Upload, SessionInv
  <2>6. CASE Len(context) < Taken
    <3>1. Len(context) \in Nat
      BY <1>7, QueueEmpty
    <3>2. Len(context') < Taken'
      BY <1>9, <2>3, <2>4, <2>6, <3>1
    <3> QED
      BY <1>1, <1>6, <2>1, <3>2 DEF Upload, SessionInv
  <2> QED
    BY <2>2, <2>5, <2>6
<1>25. Copies'
  BY <1>1, <1>2, <1>3, <1>4, <1>5, <1>6, <1>7, <1>8, <1>9, <1>10 DEF SessionInv, Copies, Came, Alive, Answer, Uploaded, Converted
<1>26. Balance'
  BY <1>1, <1>2, <1>3, <1>4, <1>5, <1>6, <1>7, <1>8, <1>9, <1>10 DEF SessionInv, Balance, Answer, AfterUpload
<1>27. Deletions'
  BY <1>1, <1>2, <1>3, <1>4, <1>5, <1>6, <1>7, <1>8, <1>9, <1>10 DEF SessionInv, Deletions, Answer
<1> QED
  BY <1>11, <1>12, <1>13, <1>14, <1>15, <1>16, <1>17, <1>18, <1>19, <1>20, <1>21, <1>22, <1>23, <1>24, <1>25, <1>26, <1>27 DEF SessionInv

\* Without an open file a block is dropped; the script is gone by then.
LEMMA PutDataClosedInv ==
  ASSUME SessionInv, PutData, ~fileOpen
  PROVE  SessionInv'
<1>1. /\ server = "put" /\ path = "src" /\ toServer' = Tail(toServer) /\ toServer # <<>>
      /\ toServer[1].kind = step /\ step \in {"put", "header", "data", "tailer"}
      /\ Head(toServer) = toServer[1] /\ Head(toServer).kind # "ack"
      /\ toServer[1].content \in Seq(Blocks)
      /\ step = "data" => Len(toServer[1].content) = 1
      /\ UNCHANGED <<conn, step, client, file, sent, got, valid, path, position, packet>>
  BY PutEffect DEF PutData
<1>2. /\ UNCHANGED <<flash, context, server, toClient, fileOpen, handles, runs, faults, held, made>>
      /\ step = "data"
  BY <1>1 DEF PutData, Incoming, history
<1>3. /\ toServer' = <<>> /\ toServer' \in Seq(Requests) /\ Len(toServer) = 1
  <2>1. Tail(toServer) = <<>> /\ Len(toServer) = 1 /\ <<>> \in Seq(Requests)
    BY <1>1, Asked
  <2> QED
    BY <1>1, <2>1
<1>4. DOMAIN <<>> = {} /\ Len(<<>>) = 0
  OBVIOUS
<1>5. ~Alive /\ client \notin {"send", "wait", "none", "done"} /\ conn # "open"
  <2>1. client = "wait" => toClient = <<>>
    BY <1>1, Asked
  <2>2. ~(conn = "open")
    BY <1>1, <1>2, <2>1 DEF SessionInv, Upload, CutShort, Uploading, Answer, Ends, Alive
  <2>3. ~(Gone /\ Alive) /\ conn \notin {"none", "half"}
    BY <1>1 DEF SessionInv, Ends
  <2> QED
    BY <1>1, <2>2, <2>3 DEF SessionInv, Ends, Gone, Alive
<1>6. Contents'
  BY <1>1, <1>2, <1>3, <1>4, <1>5 DEF SessionInv, Contents
<1>7. ScriptType'
  BY <1>1, <1>2, <1>3, <1>4, <1>5 DEF SessionInv, ScriptType
<1>8. ServerType'
  BY <1>1, <1>2, <1>3, <1>4, <1>5 DEF SessionInv, ServerType
<1>9. StorageType'
  BY <1>1, <1>2, <1>3, <1>4, <1>5 DEF SessionInv, StorageType
<1>10. ServerInv'
  BY <1>1, <1>2, <1>3, <1>4, <1>5 DEF SessionInv, ServerInv
<1>11. Behind'
  BY <1>1, <1>2, <1>3, <1>4, <1>5 DEF SessionInv, Behind
<1>12. Line'
  BY <1>1, <1>3, <1>5 DEF Line
<1>13. Room'
  <2>1. server' # "packet" /\ ~(Len(toServer') = 2) /\ ~Request'
    <3>1. Len(toServer') = 0
      BY <1>3, <1>4
    <3>2. server' = "put"
      BY <1>1, <1>2
    <3> QED
      BY <3>1, <3>2 DEF Request
  <2> QED
    BY <1>2, <1>3, <2>1 DEF SessionInv, Room
<1>14. Replies'
  BY <1>1, <1>2, <1>3, <1>4, <1>5 DEF SessionInv, Replies, Came
<1>15. Ends'
  BY <1>1, <1>2, <1>3, <1>4, <1>5 DEF SessionInv, Ends, Alive, Gone
<1>16. Paired'
  BY <1>1, <1>2, <1>3, <1>4, <1>5 DEF SessionInv, Paired, Answer
<1>17. Answered'
  BY <1>1, <1>2, <1>3, <1>4, <1>5 DEF SessionInv, Answered, Answer, Uploaded, Converted
<1>18. Progress'
  BY <1>1, <1>2, <1>3, <1>4, <1>5 DEF SessionInv, Progress
<1>19. Upload'
  BY <1>1, <1>2, <1>3, <1>4, <1>5 DEF SessionInv, Upload, CutShort, Answer, Uploading, Whole, Taken
<1>20. Copies'
  BY <1>1, <1>2, <1>3, <1>4, <1>5 DEF SessionInv, Copies, Came, Alive, Answer, Uploaded, Converted
<1>21. Balance'
  BY <1>1, <1>2, <1>3, <1>4, <1>5 DEF SessionInv, Balance, Answer, AfterUpload
<1>22. Deletions'
  BY <1>1, <1>2, <1>3, <1>4, <1>5 DEF SessionInv, Deletions, Answer
<1> QED
  BY <1>6, <1>7, <1>8, <1>9, <1>10, <1>11, <1>12, <1>13, <1>14, <1>15, <1>16, <1>17, <1>18, <1>19, <1>20, <1>21, <1>22 DEF SessionInv

\* The tailer ends put_file. Its hash matches only if every block was written.
LEMMA PutTailerInv ==
  ASSUME SessionInv, PutTailer
  PROVE  SessionInv'
<1>1. /\ server = "put" /\ path = "src" /\ toServer' = Tail(toServer) /\ toServer # <<>>
      /\ toServer[1].kind = step /\ step \in {"put", "header", "data", "tailer"}
      /\ Head(toServer) = toServer[1] /\ Head(toServer).kind # "ack"
      /\ toServer[1].content \in Seq(Blocks)
      /\ step = "data" => Len(toServer[1].content) = 1
      /\ UNCHANGED <<conn, step, client, file, sent, got, valid, path, position, packet>>
  BY PutEffect DEF PutTailer
<1>2. PICK k : k = IF HashMatches THEN "OK" ELSE "NG"
  OBVIOUS
<1>3. k \in {"OK", "NG"} /\ Reply(k, "command", "command")
  BY <1>2 DEF PutTailer
<1>4. /\ toServer' = <<>> /\ toServer' \in Seq(Requests)
      /\ server' \in {"command", "command"}
      /\ client \notin {"none", "send", "done"}
      /\ toClient' \in Seq(Responses) /\ Len(toClient') \in 0..2
      /\ toClient = <<>> => Len(toClient') \in 0..1
      /\ conn \in {"open", "silent", "dropped", "closed"}
      /\ conn = "open" =>
           /\ client = "wait" /\ toClient = <<>> /\ server' = "command"
           /\ toClient' # <<>> /\ Len(toClient') = 1 /\ toClient'[1].kind = k
      /\ conn # "open" => ~Alive
      /\ conn = "dropped" => toClient' = <<>>
  <2>1. server # "accept" /\ UNCHANGED <<conn, client, step>>
    BY <1>1
  <2> QED
    BY <1>1, <1>3, <2>1, AnswerEffect
<1>5. /\ client # "wait" => ~Alive
      /\ client = "wait" => conn = "open"
      /\ Len(toClient') = 2 => conn # "open"
  <2>1. (client # "wait" => ~Alive) /\ (client = "wait" => conn = "open")
    BY <1>4 DEF Alive
  <2>2. Len(toClient') = 2 => conn # "open"
    BY <1>4
  <2> QED
    BY <2>1, <2>2
<1>6. DOMAIN <<>> = {} /\ Len(<<>>) = 0 /\ <<>> \in Seq(Blocks)
  OBVIOUS
<1>7. /\ flash \in [Paths -> Seq(Blocks) \cup {Absent}] /\ context \in Seq(Blocks)
      /\ handles \in 0..MaxFiles /\ MaxFiles \in Nat /\ held \in 0..MaxFiles
      /\ fileOpen => handles > 0 /\ flash["src"] # Absent /\ flash["src"] \in Seq(Blocks)
      /\ fileOpen \in BOOLEAN
  BY <1>1, ConstantsAssumption DEF SessionInv, StorageType, ServerType, ServerInv, Paths
<1>8. /\ handles' = (IF fileOpen THEN handles - 1 ELSE handles)
      /\ handles' \in 0..MaxFiles
      /\ fileOpen' = FALSE /\ context' = context
      /\ UNCHANGED <<runs, held, made>>
  <2>1. /\ handles' = (IF fileOpen THEN handles - 1 ELSE handles)
        /\ fileOpen' = FALSE /\ context' = context /\ UNCHANGED <<runs, held, made>>
    BY DEF PutTailer, Closed, Fault, Happens, AllFaults, history
  <2> QED
    BY <1>7, <2>1
<1>9. /\ flash' \in [Paths -> Seq(Blocks) \cup {Absent}]
      /\ flash'["br"] = flash["br"]
      /\ flash' = flash \/ "close" \in faults'
      /\ faults \subseteq faults' /\ faults' \subseteq AllFaults
  <2>1. CASE UNCHANGED <<flash, history>>
    BY <1>7, <2>1 DEF history, SessionInv, StorageType
  <2>2. CASE /\ fileOpen /\ flash[path] # <<>> /\ Fault("close")
             /\ flash' = [flash EXCEPT ![path] = SubSeq(@, 1, Len(@) - 1)]
    <3>1. flash' = [flash EXCEPT !["src"] = SubSeq(flash["src"], 1, Len(flash["src"]) - 1)]
      BY <1>1, <2>2
    <3>2. SubSeq(flash["src"], 1, Len(flash["src"]) - 1) \in Seq(Blocks)
      <4>1. Len(flash["src"]) \in Nat \ {0}
        BY <1>1, <1>7, <2>2, QueueEmpty
      <4> QED
        BY <1>7, <2>2, <4>1
    <3>3. faults \subseteq faults' /\ faults' \subseteq AllFaults /\ "close" \in faults'
      BY <2>2 DEF Fault, Happens, AllFaults, SessionInv, StorageType
    <3> QED
      BY <1>7, <3>1, <3>2, <3>3 DEF Paths
  <2> QED
    BY <2>1, <2>2 DEF PutTailer
<1>10. /\ server' = "command"
       /\ step \in {"tailer", "data"}
  BY <1>1, <1>4 DEF PutTailer, IsTailer, Incoming
<1>11. conn = "open" /\ k = "OK" =>
         /\ fileOpen /\ ~Answer("NG")
         /\ step = "tailer" => flash["src"] = file /\ handles = held + 1
  <2> SUFFICES ASSUME conn = "open", k = "OK"
               PROVE  /\ fileOpen
                      /\ step = "tailer" => flash["src"] = file /\ handles = held + 1
    BY <1>4 DEF Answer
  <2>1. fileOpen
    BY <1>1, <1>2 DEF HashMatches
  <2>2. ASSUME step = "tailer" PROVE flash["src"] = file /\ handles = held + 1
    <3>1. toServer[1].content = context
      BY <1>1, <1>2, <2>2 DEF HashMatches, DigestOf, Incoming
    <3>2. ~Answer("NG") /\ toClient = <<>> /\ sent = Len(file)
      BY <1>4, <2>2 DEF Answer, SessionInv, Progress
    <3>3. toServer[1].content = file /\ (Whole \/ Len(context) < Taken)
      BY <1>1, <2>2, <3>2 DEF SessionInv, Upload, CutShort, Uploading
    <3>4. Taken = Len(file) /\ Len(file) \in Nat
      BY <2>2, <3>2, QueueEmpty DEF Taken, SessionInv, ScriptType
    <3>5. Whole
      BY <3>1, <3>3, <3>4
    <3> QED
      BY <3>1, <3>3, <3>5 DEF Whole
  <2> QED
    BY <2>1, <2>2
<1>12. ~Answer("OK") /\ (conn' = "open" /\ k = "NG" => Answer("NG")') /\ client' # "done"
  BY <1>1, <1>3, <1>4, <1>5 DEF Answer
<1>13. Contents'
  BY <1>1, <1>2, <1>3, <1>4, <1>5, <1>6, <1>7, <1>8, <1>9, <1>10, <1>11, <1>12 DEF SessionInv, Contents
<1>14. ScriptType'
  BY <1>1, <1>2, <1>3, <1>4, <1>5, <1>6, <1>7, <1>8, <1>9, <1>10, <1>11, <1>12 DEF SessionInv, ScriptType
<1>15. ServerType'
  BY <1>1, <1>7, <1>8, <1>10 DEF SessionInv, ServerType
<1>16. StorageType'
  BY <1>8, <1>9 DEF SessionInv, StorageType
<1>17. ServerInv'
  BY <1>1, <1>8, <1>10 DEF ServerInv
<1>18. Behind'
  BY <1>10 DEF Behind
<1>19. Line'
  BY <1>1, <1>4, <1>5, <1>10 DEF Line
<1>20. Room'
  <2>1. server' # "packet" /\ ~(Len(toServer') = 2) /\ ~Request'
    BY <1>4, <1>6, <1>10 DEF Request
  <2> QED
    BY <1>4, <2>1 DEF Room
<1>21. Replies'
  BY <1>1, <1>3, <1>4, <1>5, <1>10 DEF Replies
<1>22. Ends'
  BY <1>1, <1>4, <1>5, <1>8, <1>9, <1>10 DEF SessionInv, Ends, Gone, Alive
<1>23. Paired'
  <2>1. Len(toClient') = 2 => conn' # "open"
    BY <1>1, <1>5
  <2> QED
    BY <1>1, <1>10, <2>1 DEF Paired
<1>24. Answered'
  <2> SUFFICES ASSUME Answer("OK")' PROVE Answered'
    BY DEF Answered
  <2>1. conn = "open" /\ k = "OK"
    BY <1>1, <1>3, <1>4, <1>5 DEF Answer
  <2> QED
    BY <1>1, <1>8, <1>9, <1>10, <1>11, <2>1 DEF Answered, Uploaded
<1>25. Progress'
  BY <1>1 DEF SessionInv, Progress
<1>26. Upload'
  <2>1. CASE conn' = "open" /\ k = "OK"
    BY <1>1, <1>4, <1>8, <1>10, <2>1 DEF Upload, Uploading, CutShort
  <2> QED
    BY <1>3, <1>12, <2>1 DEF Upload
<1>27. Copies'
  BY <1>1, <1>8, <1>9, <1>10 DEF SessionInv, Copies, Came, Converted
<1>28. Balance'
  <2>1. CASE conn' = "open" /\ k = "OK" /\ step = "tailer"
    <3>1. handles' = held'
      BY <1>1, <1>7, <1>8, <1>11, <2>1
    <3>2. handles' = held' + IF server' \in {"packet", "ack"} /\ packet' = "data" THEN 1 ELSE 0
      <4>1. held' \in Nat /\ held' = held' + 0
        BY <1>7, <1>8
      <4>2. ~(server' \in {"packet", "ack"})
        BY <1>10
      <4> QED
        BY <3>1, <4>1, <4>2
    <3> QED
      BY <1>12, <3>2 DEF Balance
  <2>2. CASE step = "data"
    BY <1>1, <1>12, <2>2 DEF Balance, AfterUpload
  <2> QED
    BY <1>3, <1>10, <1>12, <2>1, <2>2 DEF Balance
<1>29. Deletions'
  BY <1>1, <1>10, <1>12 DEF Deletions
<1> QED
  BY <1>13, <1>14, <1>15, <1>16, <1>17, <1>18, <1>19, <1>20, <1>21, <1>22, <1>23, <1>24, <1>25, <1>26, <1>27, <1>28, <1>29 DEF SessionInv

\* The server notices that nobody is there any more.
LEMMA LossInv ==
  ASSUME SessionInv, ConnectionClosed \/ PutLost \/ AckLost
  PROVE  SessionInv'
<1>1. /\ server \in {"command", "put", "ack"} /\ toServer = <<>> /\ Gone
      /\ server' \in {"close", "command"}
      /\ UNCHANGED <<conn, toServer, toClient, step, client, file, sent, got, valid, path,
                     fileOpen, context, position, packet, flash, handles, runs, faults, held, made>>
  BY DEF ConnectionClosed, PutLost, AckLost, AfterLoss, Lost, net, script, locals, storage, history
<1>2. conn \in {"dropped", "closed"} /\ conn' # "open" /\ (toClient = <<>> \/ client # "wait")
  BY <1>1 DEF Gone, SessionInv, Ends, Alive
<1>3. ~Answer("OK") /\ ~Answer("OK")' /\ client # "none" /\ Len(toServer) = 0
  BY <1>1, <1>2, QueueEmpty DEF Answer, SessionInv, Ends, Contents
<1>4. Contents'
  BY <1>1, <1>2, <1>3 DEF SessionInv, Contents
<1>5. ScriptType'
  BY <1>1, <1>2, <1>3 DEF SessionInv, ScriptType
<1>6. ServerType'
  BY <1>1, <1>2, <1>3 DEF SessionInv, ServerType
<1>7. StorageType'
  BY <1>1, <1>2, <1>3 DEF SessionInv, StorageType
<1>8. ServerInv'
  BY <1>1, <1>2, <1>3 DEF SessionInv, ServerInv
<1>9. Behind'
  BY <1>1, <1>2, <1>3 DEF SessionInv, Behind
<1>10. Line'
  BY <1>1, <1>2, <1>3 DEF SessionInv, Line, Request, AckOnly, AckAndRequest
<1>11. Room'
  BY <1>1, <1>2, <1>3 DEF SessionInv, Room, Request
<1>12. Replies'
  BY <1>1, <1>2, <1>3 DEF SessionInv, Replies, Came
<1>13. Ends'
  BY <1>1, <1>2, <1>3 DEF SessionInv, Ends, Alive, Gone
<1>14. Paired'
  BY <1>1, <1>2, <1>3 DEF SessionInv, Paired, Answer
<1>15. Answered'
  BY <1>1, <1>2, <1>3 DEF SessionInv, Answered, Answer, Uploaded, Converted
<1>16. Progress'
  BY <1>1, <1>2, <1>3 DEF SessionInv, Progress
<1>17. Upload'
  BY <1>1, <1>2, <1>3 DEF SessionInv, Upload, CutShort, Answer, Uploading, Whole, Taken
<1>18. Copies'
  BY <1>1, <1>2, <1>3 DEF SessionInv, Copies, Came, Alive, Answer, Uploaded, Converted
<1>19. Balance'
  BY <1>1, <1>2, <1>3 DEF SessionInv, Balance, Answer, AfterUpload
<1>20. Deletions'
  BY <1>1, <1>2, <1>3 DEF SessionInv, Deletions, Answer
<1> QED
  BY <1>4, <1>5, <1>6, <1>7, <1>8, <1>9, <1>10, <1>11, <1>12, <1>13, <1>14, <1>15, <1>16, <1>17, <1>18, <1>19, <1>20 DEF SessionInv

\* The server closes its socket and goes back to accept.
LEMMA CloseInv ==
  ASSUME SessionInv, Close
  PROVE  SessionInv'
<1>1. /\ server = "close" /\ server' = "accept" /\ conn' = "closed" /\ toServer' = <<>>
      /\ UNCHANGED <<toClient, step, client, file, sent, got, valid, path,
                     fileOpen, context, position, packet, flash, handles, runs, faults, held, made>>
  BY DEF Close, script, locals, storage, history
<1>2. conn \in {"open", "silent", "dropped", "closed"} /\ client # "none"
  BY <1>1 DEF SessionInv, Ends
<1>3. Alive /\ toClient # <<>> => step = "compress"
  BY <1>1, <1>2 DEF SessionInv, Ends, Paired, Gone
<1>4. Answer("OK") => step = "compress"
  BY <1>3 DEF Answer, Alive
<1>5. /\ <<>> \in Seq(Requests) /\ Len(<<>>) = 0 /\ DOMAIN <<>> = {}
      /\ toServer' \in Seq(Requests) /\ Len(toServer') = 0
  BY <1>1
<1>6. Answer("OK")' => Answer("OK")
  BY <1>1 DEF Answer
<1>7. Contents'
  BY <1>1, <1>2, <1>3, <1>4, <1>5, <1>6 DEF SessionInv, Contents
<1>8. ScriptType'
  BY <1>1, <1>2, <1>3, <1>4, <1>5, <1>6 DEF SessionInv, ScriptType
<1>9. ServerType'
  BY <1>1, <1>2, <1>3, <1>4, <1>5, <1>6 DEF SessionInv, ServerType
<1>10. StorageType'
  BY <1>1, <1>2, <1>3, <1>4, <1>5, <1>6 DEF SessionInv, StorageType
<1>11. ServerInv'
  BY <1>1, <1>2, <1>3, <1>4, <1>5, <1>6 DEF SessionInv, ServerInv
<1>12. Behind'
  BY <1>1, <1>2, <1>3, <1>4, <1>5, <1>6 DEF SessionInv, Behind
<1>13. Line'
  BY <1>1, <1>2, <1>3, <1>4, <1>5, <1>6 DEF SessionInv, Line, Request, AckOnly, AckAndRequest
<1>14. Room'
  BY <1>1, <1>2, <1>3, <1>4, <1>5, <1>6 DEF SessionInv, Room, Request
<1>15. Replies'
  BY <1>1, <1>2, <1>3, <1>4, <1>5, <1>6 DEF SessionInv, Replies, Came
<1>16. Ends'
  BY <1>1, <1>2, <1>3, <1>4, <1>5, <1>6 DEF SessionInv, Ends, Alive, Gone
<1>17. Paired'
  BY <1>1, <1>2, <1>3, <1>4, <1>5, <1>6 DEF SessionInv, Paired, Answer
<1>18. Answered'
  BY <1>1, <1>2, <1>3, <1>4, <1>5, <1>6 DEF SessionInv, Answered, Answer, Uploaded, Converted
<1>19. Progress'
  BY <1>1, <1>2, <1>3, <1>4, <1>5, <1>6 DEF SessionInv, Progress
<1>20. Upload'
  BY <1>1, <1>2, <1>3, <1>4, <1>5, <1>6 DEF SessionInv, Upload, CutShort, Answer, Uploading, Whole, Taken
<1>21. Copies'
  BY <1>1, <1>2, <1>3, <1>4, <1>5, <1>6 DEF SessionInv, Copies, Came, Alive, Answer, Uploaded, Converted
<1>22. Balance'
  BY <1>1, <1>2, <1>3, <1>4, <1>5, <1>6 DEF SessionInv, Balance, Answer, AfterUpload
<1>23. Deletions'
  BY <1>1, <1>2, <1>3, <1>4, <1>5, <1>6 DEF SessionInv, Deletions, Answer
<1> QED
  BY <1>7, <1>8, <1>9, <1>10, <1>11, <1>12, <1>13, <1>14, <1>15, <1>16, <1>17, <1>18, <1>19, <1>20, <1>21, <1>22, <1>23 DEF SessionInv

\* The file of the command is deleted, unless unlink fails.
LEMMA UnlinkInv ==
  ASSUME SessionInv, Unlink
  PROVE  SessionInv'
<1>1. /\ server = "unlink" /\ server' = "command"
      /\ UNCHANGED <<conn, toServer, toClient, step, client, file, sent, got, valid, path,
                     fileOpen, context, position, packet, handles, runs, held, made>>
      /\ faults \subseteq faults' /\ faults' \subseteq AllFaults
      /\ flash' = [flash EXCEPT ![path] = Absent] \/ ("flash" \in faults' /\ flash' = flash)
  BY DEF Unlink, Fault, Happens, AllFaults, net, script, locals, history, SessionInv, StorageType
<1>2. /\ ~fileOpen /\ path \in Paths /\ step \in {"del_src", "del_br"}
      /\ path # "src" => step = "del_br"
  BY <1>1 DEF SessionInv, ServerInv, ServerType, Behind
<1>3. /\ flash' \in [Paths -> Seq(Blocks) \cup {Absent}]
      /\ path = "src" => flash'["br"] = flash["br"]
      /\ path = "br" => flash'["src"] = flash["src"]
      /\ flash'[path] = Absent \/ "flash" \in faults'
  BY <1>1, <1>2 DEF SessionInv, StorageType, Paths
<1>4. path \in {"src", "br"} /\ (faults' \cap {"flash", "restart"} = {} =>
        faults \cap {"flash", "restart"} = {} /\ flash'[path] = Absent)
  BY <1>1, <1>2, <1>3 DEF Paths
<1>5. (Answer("OK")' <=> Answer("OK")) /\ (Answer("NG")' <=> Answer("NG"))
  BY <1>1 DEF Answer
<1>6. Contents'
  BY <1>1, <1>2, <1>3, <1>4, <1>5 DEF SessionInv, Contents
<1>7. ScriptType'
  BY <1>1, <1>2, <1>3, <1>4, <1>5 DEF SessionInv, ScriptType
<1>8. ServerType'
  BY <1>1, <1>2, <1>3, <1>4, <1>5 DEF SessionInv, ServerType
<1>9. StorageType'
  BY <1>1, <1>2, <1>3, <1>4, <1>5 DEF SessionInv, StorageType
<1>10. ServerInv'
  BY <1>1, <1>2, <1>3, <1>4, <1>5 DEF SessionInv, ServerInv
<1>11. Behind'
  BY <1>1, <1>2, <1>3, <1>4, <1>5 DEF SessionInv, Behind
<1>12. Line'
  BY <1>1, <1>2, <1>3, <1>4, <1>5 DEF SessionInv, Line, Request, AckOnly, AckAndRequest
<1>13. Room'
  BY <1>1, <1>2, <1>3, <1>4, <1>5 DEF SessionInv, Room, Request
<1>14. Replies'
  BY <1>1, <1>2, <1>3, <1>4, <1>5 DEF SessionInv, Replies, Came
<1>15. Ends'
  BY <1>1, <1>2, <1>3, <1>4, <1>5 DEF SessionInv, Ends, Alive, Gone
<1>16. Paired'
  BY <1>1, <1>2, <1>3, <1>4, <1>5 DEF SessionInv, Paired, Answer
<1>17. Answered'
  BY <1>1, <1>2, <1>3, <1>4, <1>5 DEF SessionInv, Answered, Answer, Uploaded, Converted
<1>18. Progress'
  BY <1>1, <1>2, <1>3, <1>4, <1>5 DEF SessionInv, Progress
<1>19. Upload'
  BY <1>1, <1>2, <1>3, <1>4, <1>5 DEF SessionInv, Upload, CutShort, Answer, Uploading, Whole, Taken
<1>20. Copies'
  BY <1>1, <1>2, <1>3, <1>4, <1>5 DEF SessionInv, Copies, Came, Alive, Answer, Uploaded, Converted
<1>21. Balance'
  BY <1>1, <1>2, <1>3, <1>4, <1>5 DEF SessionInv, Balance, Answer, AfterUpload
<1>22. Deletions'
  BY <1>1, <1>2, <1>3, <1>4, <1>5 DEF SessionInv, Deletions, Answer
<1> QED
  BY <1>6, <1>7, <1>8, <1>9, <1>10, <1>11, <1>12, <1>13, <1>14, <1>15, <1>16, <1>17, <1>18, <1>19, <1>20, <1>21, <1>22 DEF SessionInv

\* comp_task makes the compressed file of the one on flash, or fails.
LEMMA CompressInv ==
  ASSUME SessionInv, Compress
  PROVE  SessionInv'
<1>1. /\ server = "compress"
      /\ UNCHANGED <<conn, toServer, toClient, step, client, file, sent, got, valid, path,
                     fileOpen, context, position, packet, handles, runs, held>>
  BY DEF Compress, CodecSucceeds, CodecFails, NoTask, Fault, Happens, net, script, locals,
         history
<1>2. /\ flash \in [Paths -> Seq(Blocks) \cup {Absent}] /\ faults \subseteq AllFaults
      /\ Compressed \subseteq Seq(Blocks) /\ made \in Seq(Blocks) \cup {Absent}
  BY ConstantsAssumption DEF SessionInv, StorageType
<1>3. /\ flash' \in [Paths -> Seq(Blocks) \cup {Absent}]
      /\ flash'["src"] = flash["src"]
      /\ faults \subseteq faults' /\ faults' \subseteq AllFaults
      /\ server' \in {"command", "close", "stuck"}
      /\ server' = "command" => made' = flash["src"]
      /\ made' \in {flash["src"], made, Absent}
  <2>1. CASE CodecSucceeds
    <3>1. PICK c \in Compressed : flash' = [flash EXCEPT !["br"] = c]
      BY <2>1 DEF CodecSucceeds
    <3>2. /\ made' = flash["src"] /\ server' \in {"command", "stuck"}
          /\ faults \subseteq faults' /\ faults' \subseteq AllFaults
      BY <1>2, <2>1 DEF CodecSucceeds, Happens, AllFaults
    <3> QED
      BY <1>2, <3>1, <3>2 DEF Paths
  <2>2. CASE CodecFails
    <3>1. /\ server' = "close" /\ made' \in {made, Absent}
          /\ faults \subseteq faults' /\ faults' \subseteq AllFaults
      BY <1>2, <2>2 DEF CodecFails, AfterFailure, Fault, Happens, AllFaults, history
    <3>2. \/ flash' \in {flash, [flash EXCEPT !["br"] = Absent]}
          \/ \E c \in Compressed : \E p \in Prefixes(c) : flash' = [flash EXCEPT !["br"] = p]
      BY <2>2 DEF CodecFails
    <3>3. CASE flash' \in {flash, [flash EXCEPT !["br"] = Absent]}
      BY <1>2, <3>1, <3>3 DEF Paths
    <3>4. CASE \E c \in Compressed : \E p \in Prefixes(c) : flash' = [flash EXCEPT !["br"] = p]
      <4>1. PICK c \in Compressed : \E p \in Prefixes(c) : flash' = [flash EXCEPT !["br"] = p]
        BY <3>4
      <4>2. PICK p \in Prefixes(c) : flash' = [flash EXCEPT !["br"] = p]
        BY <4>1
      <4>3. PICK n \in 0..Len(c) : p = SubSeq(c, 1, n)
        BY <4>2 DEF Prefixes
      <4>4. c \in Seq(Blocks) /\ p \in Seq(Blocks)
        BY <1>2, <4>3
      <4> QED
        BY <1>2, <3>1, <4>2, <4>4 DEF Paths
    <3> QED
      BY <3>2, <3>3, <3>4
  <2>3. CASE NoTask
    BY <1>2, <2>3 DEF NoTask, Fault, Happens, AllFaults
  <2> QED
    BY <2>1, <2>2, <2>3 DEF Compress
<1>4. /\ ~fileOpen /\ step \in {"compress", "get"} /\ ~(Answer("OK") /\ step = "get")
      /\ client # "done" /\ path \in Paths
  BY <1>1 DEF SessionInv, ServerInv, Behind, Answered, Balance, ServerType
<1>5. made' \in Seq(Blocks) \cup {Absent}
  BY <1>2, <1>3 DEF Paths
<1>6. /\ Alive => Uploaded
      /\ conn = "open" => Alive
  BY <1>4 DEF SessionInv, Copies, Came, Ends
<1>7. (Answer("OK")' <=> Answer("OK")) /\ (Answer("NG")' <=> Answer("NG"))
  BY <1>1 DEF Answer
<1>8. Contents'
  BY <1>1, <1>2, <1>3, <1>4, <1>5, <1>6, <1>7 DEF SessionInv, Contents
<1>9. ScriptType'
  BY <1>1, <1>2, <1>3, <1>4, <1>5, <1>6, <1>7 DEF SessionInv, ScriptType
<1>10. ServerType'
  BY <1>1, <1>2, <1>3, <1>4, <1>5, <1>6, <1>7 DEF SessionInv, ServerType
<1>11. StorageType'
  BY <1>1, <1>2, <1>3, <1>4, <1>5, <1>6, <1>7 DEF SessionInv, StorageType
<1>12. ServerInv'
  BY <1>1, <1>2, <1>3, <1>4, <1>5, <1>6, <1>7 DEF SessionInv, ServerInv
<1>13. Behind'
  BY <1>1, <1>2, <1>3, <1>4, <1>5, <1>6, <1>7 DEF SessionInv, Behind
<1>14. Line'
  BY <1>1, <1>2, <1>3, <1>4, <1>5, <1>6, <1>7 DEF SessionInv, Line, Request, AckOnly, AckAndRequest
<1>15. Room'
  BY <1>1, <1>2, <1>3, <1>4, <1>5, <1>6, <1>7 DEF SessionInv, Room, Request
<1>16. Replies'
  BY <1>1, <1>2, <1>3, <1>4, <1>5, <1>6, <1>7 DEF SessionInv, Replies, Came
<1>17. Ends'
  BY <1>1, <1>2, <1>3, <1>4, <1>5, <1>6, <1>7 DEF SessionInv, Ends, Alive, Gone
<1>18. Paired'
  BY <1>1, <1>2, <1>3, <1>4, <1>5, <1>6, <1>7 DEF SessionInv, Paired, Answer
<1>19. Answered'
  BY <1>1, <1>2, <1>3, <1>4, <1>5, <1>6, <1>7 DEF SessionInv, Answered, Answer, Uploaded, Converted
<1>20. Progress'
  BY <1>1, <1>2, <1>3, <1>4, <1>5, <1>6, <1>7 DEF SessionInv, Progress
<1>21. Upload'
  BY <1>1, <1>2, <1>3, <1>4, <1>5, <1>6, <1>7 DEF SessionInv, Upload, CutShort, Answer, Uploading, Whole, Taken
<1>22. Copies'
  BY <1>1, <1>2, <1>3, <1>4, <1>5, <1>6, <1>7 DEF SessionInv, Copies, Came, Alive, Answer, Uploaded, Converted
<1>23. Balance'
  BY <1>1, <1>2, <1>3, <1>4, <1>5, <1>6, <1>7 DEF SessionInv, Balance, Answer, AfterUpload
<1>24. Deletions'
  BY <1>1, <1>2, <1>3, <1>4, <1>5, <1>6, <1>7 DEF SessionInv, Deletions, Answer
<1> QED
  BY <1>8, <1>9, <1>10, <1>11, <1>12, <1>13, <1>14, <1>15, <1>16, <1>17, <1>18, <1>19, <1>20, <1>21, <1>22, <1>23, <1>24 DEF SessionInv

\* get_file sends its next packet, the last with the hash of what it sent.
LEMMA SendPacketInv ==
  ASSUME SessionInv, SendPacket
  PROVE  SessionInv'
<1>1. /\ server = "packet" /\ server' \in {"ack", "command"}
      /\ UNCHANGED <<conn, toServer, step, client, file, sent, got, valid, path, flash,
                     fileOpen, context, position, packet, handles, runs, faults, held, made>>
      /\ Gone => toClient' = toClient
      /\ ~Gone => server' = "ack" /\ toClient' = Append(toClient, Packet)
  BY DEF SendPacket, Send, script, locals, storage, history
<1>2. /\ path = "br" /\ flash["br"] # Absent /\ flash["br"] \in Seq(Blocks)
      /\ position <= Len(flash["br"]) /\ context = SubSeq(flash["br"], 1, position)
      /\ packet = "header" => position = 0
      /\ packet = "data" => position < Len(flash["br"]) /\ handles > 0
      /\ packet = "tailer" => position = Len(flash["br"]) \/ "flash" \in faults
      /\ packet \in PacketKinds /\ position \in Nat /\ context \in Seq(Blocks)
      /\ ~fileOpen /\ step \in {"get", "receive"} /\ toServer = <<>>
      /\ Len(toServer) = 0 /\ ~Request
      /\ client \notin {"none", "send", "done"}
  <2>1. flash["br"] \in Seq(Blocks) \cup {Absent} /\ Len(<<>>) = 0
    BY DEF SessionInv, StorageType, Paths
  <2> QED
    BY <1>1, <2>1 DEF SessionInv, ServerInv, ServerType, Behind, Line, Ends, Balance, Room, Request
<1>3. PICK p : p = Packet
  OBVIOUS
<1>4. /\ p \in Responses /\ p.kind = packet
      /\ packet = "tailer" => Came(p.content)
  <2>1. CASE packet = "data"
    <3>1. flash["br"][position + 1] \in Blocks
      BY <1>2, <2>1, NextBlock
    <3>2. p = Message("data", <<flash["br"][position + 1]>>)
      BY <1>2, <1>3, <2>1 DEF Packet
    <3>3. <<flash["br"][position + 1]>> \in Seq(Blocks)
      BY <3>1
    <3> QED
      BY <2>1, <3>2, <3>3, MessageType DEF PacketKinds
  <2>2. CASE packet = "tailer"
    <3>1. p = Message("tailer", context)
      BY <1>3, <2>2 DEF Packet
    <3>2. Came(context)
      <4>1. SubSeq(flash["br"], 1, Len(flash["br"])) = flash["br"] /\ Len(flash["br"]) \in Nat
        BY <1>2
      <4>2. position \in 0..Len(flash["br"])
        BY <1>2, <4>1
      <4>3. context \in Prefixes(flash["br"])
        BY <1>2, <4>2 DEF Prefixes
      <4> QED
        BY <1>2, <2>2, <4>1, <4>3 DEF Came
    <3>3. p \in Responses /\ p.kind = "tailer" /\ p.content = context
      BY <1>2, <3>1, MessageType DEF PacketKinds
    <3> QED
      BY <2>2, <3>2, <3>3
  <2>3. CASE packet = "header"
    <3>1. p = Message("header", <<>>) /\ <<>> \in Seq(Blocks)
      BY <1>3, <2>3 DEF Packet
    <3> QED
      BY <2>3, <3>1, MessageType DEF PacketKinds
  <2> QED
    BY <1>2, <2>1, <2>2, <2>3 DEF PacketKinds
<1>5. /\ toClient \in Seq(Responses) /\ Len(toClient) \in 0..1
      /\ toClient = <<>> <=> Len(toClient) = 0
      /\ toClient' \in Seq(Responses) /\ Len(toClient') \in 0..2
      /\ ~Gone => /\ toClient' # <<>> /\ Len(toClient') = Len(toClient) + 1
                  /\ toClient = <<>> => toClient'[1] = p
                  /\ Len(toClient) = 1 => toClient'[1] = toClient[1] /\ toClient'[2] = p
  <2>1. /\ toClient \in Seq(Responses) /\ Len(toClient) \in 0..1
        /\ toClient = <<>> <=> Len(toClient) = 0
    BY <1>1, QueueEmpty DEF SessionInv, Contents, Room
  <2>2. CASE Gone
    BY <1>1, <2>1, <2>2
  <2>3. CASE ~Gone
    BY <1>1, <1>3, <1>4, <2>1, <2>3, QueueAppend
  <2> QED
    BY <2>1, <2>2, <2>3
<1>6. /\ client = "wait" => conn = "open" \/ toClient' = <<>>
      /\ conn \in {"open", "silent", "dropped", "closed"}
      /\ conn = "open" => client = "wait" /\ ~Gone
      /\ Gone => ~(conn = "open")
      /\ conn = "dropped" => toClient' = <<>>
      /\ conn = "closed" => ~Alive
  BY <1>1, <1>2 DEF SessionInv, Ends, Alive, Gone
<1>7. conn = "open" =>
        \/ /\ step = "get" /\ toClient # <<>> /\ Len(toClient) = 1 /\ toClient[1].kind = "OK"
           /\ packet = "header" /\ Len(toClient') = 2
           /\ toClient'[1].kind = "OK" /\ toClient'[2].kind = "header"
        \/ /\ step = "receive" /\ toClient = <<>> /\ Len(toClient') = 1
           /\ toClient'[1].kind = packet
           /\ packet = "tailer" => Came(toClient'[1].content)
  BY <1>1, <1>4, <1>5, <1>6 DEF SessionInv, Paired, Answer
<1>8. /\ (Answer("NG")' => Answer("NG"))
      /\ (Answer("OK")' => Answer("OK") /\ step = "get" /\ conn = "open")
  <2>1. client' = "wait" /\ toClient' # <<>> => conn = "open" /\ client = "wait"
    BY <1>1, <1>6
  <2> QED
    BY <1>1, <1>2, <1>7, <2>1 DEF Answer, PacketKinds
<1>9. Contents'
  BY <1>1, <1>2, <1>3, <1>4, <1>5, <1>6, <1>7, <1>8 DEF SessionInv, Contents
<1>10. ScriptType'
  BY <1>1, <1>2, <1>3, <1>4, <1>5, <1>6, <1>7, <1>8 DEF SessionInv, ScriptType
<1>11. ServerType'
  BY <1>1, <1>2, <1>3, <1>4, <1>5, <1>6, <1>7, <1>8 DEF SessionInv, ServerType
<1>12. StorageType'
  BY <1>1, <1>2, <1>3, <1>4, <1>5, <1>6, <1>7, <1>8 DEF SessionInv, StorageType
<1>13. ServerInv'
  BY <1>1, <1>2, <1>3, <1>4, <1>5, <1>6, <1>7, <1>8 DEF SessionInv, ServerInv
<1>14. Behind'
  BY <1>1, <1>2, <1>3, <1>4, <1>5, <1>6, <1>7, <1>8 DEF SessionInv, Behind
<1>15. Line'
  BY <1>1, <1>2, <1>3, <1>4, <1>5, <1>6, <1>7, <1>8 DEF SessionInv, Line, Request, AckOnly, AckAndRequest
<1>16. Room'
  BY <1>1, <1>2, <1>3, <1>4, <1>5, <1>6, <1>7, <1>8 DEF SessionInv, Room, Request
<1>17. Replies'
  BY <1>1, <1>2, <1>3, <1>4, <1>5, <1>6, <1>7, <1>8 DEF SessionInv, Replies, Came
<1>18. Ends'
  BY <1>1, <1>2, <1>3, <1>4, <1>5, <1>6, <1>7, <1>8 DEF SessionInv, Ends, Alive, Gone
<1>19. Paired'
  <2> SUFFICES ASSUME conn' = "open" PROVE Paired'
    BY DEF Paired
  <2>1. conn = "open" /\ server' = "ack"
    BY <1>1, <1>6
  <2>2. Len(toClient') = 2 => packet' = "header"
    BY <1>1, <1>7, <2>1
  <2>3. step' = "receive" => toClient'[1].kind = packet'
    BY <1>1, <1>7, <2>1
  <2> QED
    BY <2>1, <2>2, <2>3 DEF Paired
<1>20. Answered'
  BY <1>1, <1>2, <1>3, <1>4, <1>5, <1>6, <1>7, <1>8 DEF SessionInv, Answered, Answer, Uploaded, Converted
<1>21. Progress'
  BY <1>1, <1>2, <1>3, <1>4, <1>5, <1>6, <1>7, <1>8 DEF SessionInv, Progress
<1>22. Upload'
  BY <1>1, <1>2, <1>3, <1>4, <1>5, <1>6, <1>7, <1>8 DEF SessionInv, Upload, CutShort, Answer, Uploading, Whole, Taken
<1>23. Copies'
  BY <1>1, <1>2, <1>3, <1>4, <1>5, <1>6, <1>7, <1>8 DEF SessionInv, Copies, Came, Alive, Answer, Uploaded, Converted
<1>24. Balance'
  BY <1>1, <1>2, <1>3, <1>4, <1>5, <1>6, <1>7, <1>8 DEF SessionInv, Balance, Answer, AfterUpload
<1>25. Deletions'
  BY <1>1, <1>2, <1>3, <1>4, <1>5, <1>6, <1>7, <1>8 DEF SessionInv, Deletions, Answer
<1> QED
  BY <1>9, <1>10, <1>11, <1>12, <1>13, <1>14, <1>15, <1>16, <1>17, <1>18, <1>19, <1>20, <1>21, <1>22, <1>23, <1>24, <1>25 DEF SessionInv

\* The next block is read, or the end of the file, where it is closed.
LEMMA AckDataInv ==
  ASSUME SessionInv, AckData
  PROVE  SessionInv'
<1>1. /\ server = "ack" /\ toServer # <<>> /\ packet = "data"
      /\ toServer' = Tail(toServer) /\ toServer \in Seq(Requests)
      /\ Head(toServer).kind = "ack"
      /\ UNCHANGED <<conn, toClient, step, client, file, sent, got, valid, path,
                     fileOpen, flash, runs, held, made>>
  BY DEF AckData, Read, Received, Fault, Happens, AllFaults, script, storage, locals, history, SessionInv, Contents
<1>2. toServer[1].kind = "ack"
  BY <1>1, QueueHead
<1>3. /\ path = "br" /\ flash["br"] # Absent /\ flash["br"] \in Seq(Blocks)
      /\ position <= Len(flash["br"]) /\ context = SubSeq(flash["br"], 1, position)
      /\ packet = "header" => position = 0
      /\ packet = "data" => position < Len(flash["br"]) /\ handles > 0
      /\ packet = "tailer" => position = Len(flash["br"]) \/ "flash" \in faults
      /\ position \in Nat /\ context \in Seq(Blocks) /\ Len(flash["br"]) \in Nat
      /\ ~fileOpen
      /\ handles \in 0..MaxFiles /\ held \in 0..MaxFiles /\ MaxFiles \in Nat
  <2>1. flash["br"] \in Seq(Blocks) \cup {Absent}
    BY DEF SessionInv, StorageType, Paths
  <2>2. flash["br"] # Absent => Len(flash["br"]) \in Nat
    BY <2>1, QueueEmpty
  <2> QED
    BY <1>1, <2>1, <2>2, ConstantsAssumption DEF SessionInv, ServerInv, ServerType, StorageType
<1>4. /\ step = "receive" /\ toServer' = <<>> /\ Len(toServer') = 0
      /\ toServer' \in Seq(Requests) /\ ~Request' /\ DOMAIN toServer' = {}
      /\ client \notin {"none", "send", "done"}
      /\ client = "wait" => toClient = <<>>
  <2>1. AckOnly /\ step = "receive"
    <3>1. step \notin {"del_src"} /\ ~(Request /\ step # "receive") /\ toServer # <<>>
      BY <1>1, <1>2 DEF SessionInv, Line, Request, AckOnly, AckAndRequest, ScriptType, Steps
    <3> QED
      BY <1>1, <3>1 DEF SessionInv, Line, AckAndRequest
  <2>2. toServer' = <<>> /\ <<>> \in Seq(Requests) /\ Len(<<>>) = 0 /\ DOMAIN <<>> = {}
    BY <1>1, <2>1, QueueHead DEF AckOnly
  <2>3. client \notin {"none", "send", "done"} /\ (client = "wait" => toClient = <<>>)
    BY <1>1, <2>1 DEF SessionInv, Line, Ends
  <2> QED
    BY <2>1, <2>2, <2>3 DEF Request
<1>5. /\ ~Answer("OK") /\ ~Answer("NG") /\ Len(toClient) \in 0..1
      /\ toClient \in Seq(Responses)
      /\ ~Answer("OK")' /\ ~Answer("NG")'
  BY <1>1, <1>4 DEF Answer, SessionInv, Room, Contents
<1>6. conn = "open" => /\ Alive /\ client = "wait" /\ toClient = <<>>
                       /\ handles = held + IF packet = "data" THEN 1 ELSE 0
  BY <1>1, <1>4, <1>5 DEF SessionInv, Ends, Alive, Balance, AfterUpload
<1>7. /\ position' = position + 1 /\ server' = "packet"
      /\ faults \subseteq faults' /\ faults' \subseteq AllFaults
      /\ position' \in Nat /\ position' <= Len(flash["br"])
      /\ context' = SubSeq(flash["br"], 1, position') /\ context' \in Seq(Blocks)
  <2>1. /\ position' = position + 1 /\ server' = "packet"
        /\ faults \subseteq faults' /\ faults' \subseteq AllFaults
    BY DEF AckData, Advanced, Read, Fault, Happens, AllFaults, history, SessionInv, StorageType
  <2>2. context' = Append(context, flash["br"][position + 1])
    BY <1>3 DEF AckData
  <2>3. position < Len(flash["br"])
    BY <1>1, <1>3
  <2>4. context' = SubSeq(flash["br"], 1, position + 1)
    BY <1>3, <2>2, <2>3, NextBlock
  <2>5. position + 1 \in Nat /\ position + 1 <= Len(flash["br"])
    BY <1>3, <2>3
  <2>6. SubSeq(flash["br"], 1, position + 1) \in Seq(Blocks)
    BY <1>3, <2>5
  <2> QED
    BY <2>1, <2>4, <2>5, <2>6
<1>8. /\ packet' \in {"tailer", "data"} /\ packet' \in PacketKinds /\ server' = "packet"
      /\ packet' = "tailer" => position' = Len(flash["br"]) \/ "flash" \in faults'
      /\ handles' = IF packet' = "tailer" THEN handles - 1 ELSE handles
      /\ handles' \in 0..MaxFiles
      /\ packet' = "data" => position' < Len(flash["br"]) /\ handles' > 0
  <2>1. /\ \/ packet' = IF position' = Len(flash["br"]) THEN "tailer" ELSE "data"
           \/ packet' = "tailer" /\ "flash" \in faults'
        /\ handles' = IF packet' = "tailer" THEN handles - 1 ELSE handles
    BY <1>3 DEF AckData, Read, AtEnd, Closed, Fault, Happens
  <2> QED
    BY <1>1, <1>3, <1>7, <2>1 DEF PacketKinds
<1>9. Contents'
  BY <1>1, <1>4 DEF SessionInv, Contents
<1>10. ScriptType'
  BY <1>1, <1>2, <1>3, <1>4, <1>5, <1>6, <1>7, <1>8 DEF SessionInv, ScriptType
<1>11. ServerType'
  BY <1>1, <1>2, <1>3, <1>4, <1>5, <1>6, <1>7, <1>8 DEF SessionInv, ServerType
<1>12. StorageType'
  BY <1>1, <1>2, <1>3, <1>4, <1>5, <1>6, <1>7, <1>8 DEF SessionInv, StorageType
<1>13. ServerInv'
  BY <1>1, <1>2, <1>3, <1>4, <1>5, <1>6, <1>7, <1>8 DEF SessionInv, ServerInv
<1>14. Behind'
  BY <1>1, <1>2, <1>3, <1>4, <1>5, <1>6, <1>7, <1>8 DEF SessionInv, Behind
<1>15. Line'
  BY <1>1, <1>2, <1>3, <1>4, <1>5, <1>6, <1>7, <1>8 DEF SessionInv, Line, Request, AckOnly, AckAndRequest
<1>16. Room'
  <2>1. ~(Len(toServer') = 2) /\ ~Request'
    BY <1>4
  <2>2. Len(toClient') \in 0..2 /\ Len(toClient') \in 0..1
    BY <1>1, <1>5
  <2> QED
    BY <1>4, <2>1, <2>2 DEF Room
<1>17. Replies'
  BY <1>1, <1>2, <1>3, <1>4, <1>5, <1>6, <1>7, <1>8 DEF SessionInv, Replies, Came
<1>18. Ends'
  BY <1>1, <1>2, <1>3, <1>4, <1>5, <1>6, <1>7, <1>8 DEF SessionInv, Ends, Alive, Gone
<1>19. Paired'
  BY <1>1, <1>4, <1>6, <1>8 DEF Paired
<1>20. Answered'
  BY <1>5 DEF Answered
<1>21. Progress'
  BY <1>1, <1>2, <1>3, <1>4, <1>5, <1>6, <1>7, <1>8 DEF SessionInv, Progress
<1>22. Upload'
  BY <1>1, <1>4 DEF Upload, Uploading
<1>23. Copies'
  BY <1>1, <1>2, <1>3, <1>4, <1>5, <1>6, <1>7, <1>8 DEF SessionInv, Copies, Came, Alive, Answer, Uploaded, Converted
<1>24. Balance'
  BY <1>1, <1>3, <1>4, <1>6, <1>7, <1>8 DEF Balance
<1>25. Deletions'
  BY <1>1, <1>2, <1>3, <1>4, <1>5, <1>6, <1>7, <1>8 DEF SessionInv, Deletions, Answer
<1> QED
  BY <1>9, <1>10, <1>11, <1>12, <1>13, <1>14, <1>15, <1>16, <1>17, <1>18, <1>19, <1>20, <1>21, <1>22, <1>23, <1>24, <1>25 DEF SessionInv

\* The acknowledgement of the last packet ends get_file; a request may be behind it.
LEMMA AckTailerInv ==
  ASSUME SessionInv, AckTailer
  PROVE  SessionInv'
<1>1. /\ server = "ack" /\ toServer # <<>> /\ packet = "tailer"
      /\ toServer' = Tail(toServer) /\ toServer \in Seq(Requests)
      /\ Head(toServer).kind = "ack"
      /\ UNCHANGED <<conn, toClient, step, client, file, sent, got, valid, path,
                     fileOpen, flash, runs, held, made>>
  BY DEF AckTailer, Received, Fault, Happens, AllFaults, script, storage, locals, history, SessionInv, Contents
<1>2. toServer[1].kind = "ack"
  BY <1>1, QueueHead
<1>3. /\ path = "br" /\ flash["br"] # Absent /\ flash["br"] \in Seq(Blocks)
      /\ position <= Len(flash["br"]) /\ context = SubSeq(flash["br"], 1, position)
      /\ packet = "header" => position = 0
      /\ packet = "data" => position < Len(flash["br"]) /\ handles > 0
      /\ packet = "tailer" => position = Len(flash["br"]) \/ "flash" \in faults
      /\ position \in Nat /\ context \in Seq(Blocks) /\ Len(flash["br"]) \in Nat
      /\ ~fileOpen
      /\ handles \in 0..MaxFiles /\ held \in 0..MaxFiles /\ MaxFiles \in Nat
  <2>1. flash["br"] \in Seq(Blocks) \cup {Absent}
    BY DEF SessionInv, StorageType, Paths
  <2>2. flash["br"] # Absent => Len(flash["br"]) \in Nat
    BY <2>1, QueueEmpty
  <2> QED
    BY <1>1, <2>1, <2>2, ConstantsAssumption DEF SessionInv, ServerInv, ServerType, StorageType
<1>4. /\ UNCHANGED <<context, position, packet, handles, faults>>
      /\ server' = "command"
  BY DEF AckTailer, locals, storage, history
<1>5. /\ step \in {"receive", "del_src"} /\ (AckOnly \/ AckAndRequest)
      /\ client \notin {"none", "done"}
      /\ client = "wait" => toClient = <<>>
      /\ client = "send" => toClient = <<>>
      /\ conn = "open" => toClient = <<>>
  <2>1. ~(Request /\ step # "receive")
    BY <1>2 DEF Request, SessionInv, ScriptType, Steps
  <2>2. step \in {"receive", "del_src"} /\ (AckOnly \/ AckAndRequest)
    BY <1>1, <2>1 DEF SessionInv, Line
  <2>3. client \notin {"none", "done"} /\ (conn = "open" => client \in {"send", "wait"})
    BY <1>1 DEF SessionInv, Ends, Alive
  <2>4. (client = "wait" => toClient = <<>>) /\ (client = "send" => toClient = <<>>)
    BY <1>1 DEF SessionInv, Line
  <2> QED
    BY <2>2, <2>3, <2>4
<1>6. /\ toServer' \in Seq(Requests) /\ toServer' = <<>> <=> Len(toServer') = 0
      /\ AckOnly => toServer' = <<>>
      /\ AckAndRequest => Len(toServer') = 1 /\ toServer'[1].kind = "del_src" /\ client # "send"
      /\ Len(toServer') \in 0..1 /\ DOMAIN toServer' = 1..Len(toServer')
  <2>1. /\ Len(Tail(toServer)) = Len(toServer) - 1 /\ Tail(toServer) \in Seq(Requests)
        /\ Len(toServer) = 2 => Tail(toServer)[1] = toServer[2]
    BY <1>1, QueueHead
  <2>2. toServer' = <<>> <=> Len(toServer') = 0
    BY <1>1, <2>1, QueueEmpty
  <2>3. DOMAIN toServer' = 1..Len(toServer')
    BY <1>1, <2>1, QueueEmpty
  <2>4. AckAndRequest => client # "send"
    BY <1>1 DEF SessionInv, Line, AckOnly, AckAndRequest
  <2> QED
    BY <1>1, <1>5, <2>1, <2>2, <2>3, <2>4 DEF AckOnly, AckAndRequest
<1>7. Len(toClient) \in 0..1 /\ (Len(toServer) = 2 => toClient = <<>>) /\ toClient \in Seq(Responses)
  BY <1>1 DEF SessionInv, Room, Contents
<1>8. ~Answer("OK") /\ ~Answer("NG") /\ ~Answer("OK")' /\ ~Answer("NG")'
  BY <1>1, <1>5 DEF Answer
<1>9. Contents'
  BY <1>1, <1>2, <1>3, <1>4, <1>5, <1>6, <1>7, <1>8 DEF SessionInv, Contents
<1>10. ScriptType'
  BY <1>1, <1>2, <1>3, <1>4, <1>5, <1>6, <1>7, <1>8 DEF SessionInv, ScriptType
<1>11. ServerType'
  BY <1>1, <1>2, <1>3, <1>4, <1>5, <1>6, <1>7, <1>8 DEF SessionInv, ServerType
<1>12. StorageType'
  BY <1>1, <1>2, <1>3, <1>4, <1>5, <1>6, <1>7, <1>8 DEF SessionInv, StorageType
<1>13. ServerInv'
  BY <1>1, <1>2, <1>3, <1>4, <1>5, <1>6, <1>7, <1>8 DEF SessionInv, ServerInv
<1>14. Behind'
  BY <1>1, <1>2, <1>3, <1>4, <1>5, <1>6, <1>7, <1>8 DEF SessionInv, Behind
<1>15. Line'
  BY <1>1, <1>2, <1>3, <1>4, <1>5, <1>6, <1>7, <1>8 DEF SessionInv, Line, Request, AckOnly, AckAndRequest
<1>16. Room'
  <2>1. ~(Len(toServer') = 2) /\ ~(step' = "get")
    <3>1. Len(toServer') # 2
      <4>1. PICK n : n = Len(toServer')
        OBVIOUS
      <4>2. n \in 0..1
        BY <1>6, <4>1
      <4> QED
        BY <4>1, <4>2
    <3>2. step' # "get"
      BY <1>1, <1>5
    <3> QED
      BY <3>1, <3>2
  <2>2. Len(toClient') \in 0..2 /\ Len(toClient') \in 0..1
    BY <1>1, <1>7
  <2> QED
    BY <1>4, <2>1, <2>2 DEF Room
<1>17. Replies'
  BY <1>1, <1>2, <1>3, <1>4, <1>5, <1>6, <1>7, <1>8 DEF SessionInv, Replies, Came
<1>18. Ends'
  BY <1>1, <1>2, <1>3, <1>4, <1>5, <1>6, <1>7, <1>8 DEF SessionInv, Ends, Alive, Gone
<1>19. Paired'
  <2> SUFFICES ASSUME conn' = "open" PROVE Paired'
    BY DEF Paired
  <2>1. toClient' = <<>> /\ server' = "command"
    BY <1>1, <1>4, <1>5
  <2>2. Len(toClient') = 0
    BY <2>1
  <2>3. Len(toClient') # 2
    BY <2>2
  <2> QED
    BY <2>1, <2>3 DEF Paired
<1>20. Answered'
  BY <1>1, <1>2, <1>3, <1>4, <1>5, <1>6, <1>7, <1>8 DEF SessionInv, Answered, Answer, Uploaded, Converted
<1>21. Progress'
  BY <1>1, <1>2, <1>3, <1>4, <1>5, <1>6, <1>7, <1>8 DEF SessionInv, Progress
<1>22. Upload'
  BY <1>1, <1>2, <1>3, <1>4, <1>5, <1>6, <1>7, <1>8 DEF SessionInv, Upload, CutShort, Answer, Uploading, Whole, Taken
<1>23. Copies'
  BY <1>1, <1>2, <1>3, <1>4, <1>5, <1>6, <1>7, <1>8 DEF SessionInv, Copies, Came, Alive, Answer, Uploaded, Converted
<1>24. Balance'
  BY <1>1, <1>2, <1>3, <1>4, <1>5, <1>6, <1>7, <1>8 DEF SessionInv, Balance, Answer, AfterUpload
<1>25. Deletions'
  BY <1>1, <1>2, <1>3, <1>4, <1>5, <1>6, <1>7, <1>8 DEF SessionInv, Deletions, Answer
<1> QED
  BY <1>9, <1>10, <1>11, <1>12, <1>13, <1>14, <1>15, <1>16, <1>17, <1>18, <1>19, <1>20, <1>21, <1>22, <1>23, <1>24, <1>25 DEF SessionInv

\* get_file opens the file and reads its first block, unless fopen fails.
LEMMA AckHeaderInv ==
  ASSUME SessionInv, AckHeader
  PROVE  SessionInv'
<1>1. /\ server = "ack" /\ toServer # <<>> /\ packet = "header"
      /\ toServer' = Tail(toServer) /\ toServer \in Seq(Requests)
      /\ Head(toServer).kind = "ack"
      /\ UNCHANGED <<conn, toClient, step, client, file, sent, got, valid, path,
                     fileOpen, flash, runs, held, made>>
  BY DEF AckHeader, Read, Received, Fault, Happens, AllFaults, script, storage, locals, history, SessionInv, Contents
<1>2. toServer[1].kind = "ack"
  BY <1>1, QueueHead
<1>3. /\ path = "br" /\ flash["br"] # Absent /\ flash["br"] \in Seq(Blocks)
      /\ position <= Len(flash["br"]) /\ context = SubSeq(flash["br"], 1, position)
      /\ packet = "header" => position = 0
      /\ packet = "data" => position < Len(flash["br"]) /\ handles > 0
      /\ packet = "tailer" => position = Len(flash["br"]) \/ "flash" \in faults
      /\ position \in Nat /\ context \in Seq(Blocks) /\ Len(flash["br"]) \in Nat
      /\ ~fileOpen
      /\ handles \in 0..MaxFiles /\ held \in 0..MaxFiles /\ MaxFiles \in Nat
  <2>1. flash["br"] \in Seq(Blocks) \cup {Absent}
    BY DEF SessionInv, StorageType, Paths
  <2>2. flash["br"] # Absent => Len(flash["br"]) \in Nat
    BY <2>1, QueueEmpty
  <2> QED
    BY <1>1, <2>1, <2>2, ConstantsAssumption DEF SessionInv, ServerInv, ServerType, StorageType
<1>4. /\ step = "receive" /\ toServer' = <<>> /\ Len(toServer') = 0
      /\ toServer' \in Seq(Requests) /\ ~Request' /\ DOMAIN toServer' = {}
      /\ client \notin {"none", "send", "done"}
      /\ client = "wait" => toClient = <<>>
  <2>1. AckOnly /\ step = "receive"
    <3>1. step \notin {"del_src"} /\ ~(Request /\ step # "receive") /\ toServer # <<>>
      BY <1>1, <1>2 DEF SessionInv, Line, Request, AckOnly, AckAndRequest, ScriptType, Steps
    <3> QED
      BY <1>1, <3>1 DEF SessionInv, Line, AckAndRequest
  <2>2. toServer' = <<>> /\ <<>> \in Seq(Requests) /\ Len(<<>>) = 0 /\ DOMAIN <<>> = {}
    BY <1>1, <2>1, QueueHead DEF AckOnly
  <2>3. client \notin {"none", "send", "done"} /\ (client = "wait" => toClient = <<>>)
    BY <1>1, <2>1 DEF SessionInv, Line, Ends
  <2> QED
    BY <2>1, <2>2, <2>3 DEF Request
<1>5. /\ ~Answer("OK") /\ ~Answer("NG") /\ Len(toClient) \in 0..1
      /\ toClient \in Seq(Responses)
      /\ ~Answer("OK")' /\ ~Answer("NG")'
  BY <1>1, <1>4 DEF Answer, SessionInv, Room, Contents
<1>6. conn = "open" => /\ Alive /\ client = "wait" /\ toClient = <<>>
                       /\ handles = held + IF packet = "data" THEN 1 ELSE 0
  BY <1>1, <1>4, <1>5 DEF SessionInv, Ends, Alive, Balance, AfterUpload
<1>7. /\ position' = position /\ context' = context
      /\ position' \in Nat /\ position' <= Len(flash["br"]) /\ position = 0
      /\ faults \subseteq faults' /\ faults' \subseteq AllFaults
      /\ context' = SubSeq(flash["br"], 1, position') /\ context' \in Seq(Blocks)
  <2>1. position' = position /\ context' = context
    BY DEF AckHeader
  <2>2. faults \subseteq faults' /\ faults' \subseteq AllFaults
    BY DEF AckHeader, Read, Fault, Happens, AllFaults, history, SessionInv, StorageType
  <2> QED
    BY <1>1, <1>3, <2>1, <2>2
<1>8. /\ server' \in {"packet", "command"} /\ packet' \in PacketKinds
      /\ handles' \in 0..MaxFiles
      /\ server' = "packet" =>
           /\ packet' \in {"tailer", "data"}
           /\ packet' = "tailer" => position' = Len(flash["br"]) \/ "flash" \in faults'
           /\ handles' = IF packet' = "tailer" THEN handles ELSE handles + 1
           /\ packet' = "data" => position' < Len(flash["br"]) /\ handles' > 0
      /\ server' = "command" => packet' = packet /\ handles' = handles
  <2>1. CASE /\ handles < MaxFiles /\ server' = "packet"
             /\ \/ packet' = IF 0 = Len(flash["br"]) THEN "tailer" ELSE "data"
                \/ packet' = "tailer" /\ "flash" \in faults'
             /\ handles' = IF packet' = "tailer" THEN handles ELSE handles + 1
    BY <1>1, <1>3, <1>7, <2>1 DEF PacketKinds
  <2>2. CASE server' = "command" /\ packet' = packet /\ handles' = handles
    BY <1>1, <1>3, <2>2 DEF PacketKinds
  <2> QED
    BY <1>3, <2>1, <2>2 DEF AckHeader, CanOpen, Read, AtEnd, Fault, Happens
<1>9. Contents'
  BY <1>1, <1>4 DEF SessionInv, Contents
<1>10. ScriptType'
  BY <1>1, <1>2, <1>3, <1>4, <1>5, <1>6, <1>7, <1>8 DEF SessionInv, ScriptType
<1>11. ServerType'
  BY <1>1, <1>2, <1>3, <1>4, <1>5, <1>6, <1>7, <1>8 DEF SessionInv, ServerType
<1>12. StorageType'
  BY <1>1, <1>2, <1>3, <1>4, <1>5, <1>6, <1>7, <1>8 DEF SessionInv, StorageType
<1>13. ServerInv'
  BY <1>1, <1>2, <1>3, <1>4, <1>5, <1>6, <1>7, <1>8 DEF SessionInv, ServerInv
<1>14. Behind'
  BY <1>1, <1>2, <1>3, <1>4, <1>5, <1>6, <1>7, <1>8 DEF SessionInv, Behind
<1>15. Line'
  BY <1>1, <1>2, <1>3, <1>4, <1>5, <1>6, <1>7, <1>8 DEF SessionInv, Line, Request, AckOnly, AckAndRequest
<1>16. Room'
  <2>1. ~(Len(toServer') = 2) /\ ~Request'
    BY <1>4
  <2>2. Len(toClient') \in 0..2 /\ Len(toClient') \in 0..1
    BY <1>1, <1>5
  <2> QED
    BY <1>4, <2>1, <2>2 DEF Room
<1>17. Replies'
  BY <1>1, <1>2, <1>3, <1>4, <1>5, <1>6, <1>7, <1>8 DEF SessionInv, Replies, Came
<1>18. Ends'
  BY <1>1, <1>2, <1>3, <1>4, <1>5, <1>6, <1>7, <1>8 DEF SessionInv, Ends, Alive, Gone
<1>19. Paired'
  BY <1>1, <1>4, <1>6, <1>8 DEF Paired
<1>20. Answered'
  BY <1>5 DEF Answered
<1>21. Progress'
  BY <1>1, <1>2, <1>3, <1>4, <1>5, <1>6, <1>7, <1>8 DEF SessionInv, Progress
<1>22. Upload'
  BY <1>1, <1>4 DEF Upload, Uploading
<1>23. Copies'
  BY <1>1, <1>2, <1>3, <1>4, <1>5, <1>6, <1>7, <1>8 DEF SessionInv, Copies, Came, Alive, Answer, Uploaded, Converted
<1>24. Balance'
  BY <1>1, <1>3, <1>4, <1>6, <1>7, <1>8 DEF Balance
<1>25. Deletions'
  BY <1>1, <1>2, <1>3, <1>4, <1>5, <1>6, <1>7, <1>8 DEF SessionInv, Deletions, Answer
<1> QED
  BY <1>9, <1>10, <1>11, <1>12, <1>13, <1>14, <1>15, <1>16, <1>17, <1>18, <1>19, <1>20, <1>21, <1>22, <1>23, <1>24, <1>25 DEF SessionInv

\* What is no command is the rest of an upload that was cut short.
LEMMA IgnoreInv ==
  ASSUME SessionInv, Ignore
  PROVE  SessionInv'
<1>1. /\ server = "command" /\ toServer # <<>> /\ toServer' = Tail(toServer)
      /\ Head(toServer).kind \notin CommandKinds
      /\ UNCHANGED <<conn, toClient, step, client, file, sent, got, valid, server, path,
                     fileOpen, context, position, packet, flash, handles, runs, faults,
                     held, made>>
  BY DEF Ignore, Unknown, script, locals, storage, history
<1>2. Head(toServer).kind # "ack"
  <2>1. toServer[1].kind # "ack"
    BY <1>1 DEF SessionInv, Line, Request, AckOnly, AckAndRequest, ScriptType, Steps
  <2> QED
    BY <1>1, <2>1, QueueHead DEF SessionInv, Contents
<1>3. /\ toServer' = <<>> /\ Len(toServer) = 1 /\ toServer[1].kind = step
      /\ step # "receive" /\ step \in {"header", "data", "tailer"}
      /\ client # "send" /\ (client = "wait" => toClient = <<>>)
  <2>1. /\ Head(toServer) = toServer[1] /\ Tail(toServer) = <<>> /\ Len(toServer) = 1
        /\ toServer[1].kind = step /\ step # "receive"
        /\ client # "send" /\ (client = "wait" => toClient = <<>>)
    BY <1>1, <1>2, Asked
  <2>2. step \in Steps /\ step \notin CommandKinds
    BY <1>1, <2>1 DEF SessionInv, ScriptType
  <2> QED
    BY <1>1, <2>1, <2>2 DEF Steps, CommandKinds
<1>4. <<>> \in Seq(Requests) /\ Len(<<>>) = 0 /\ DOMAIN <<>> = {}
  OBVIOUS
<1>5. conn = "open" => client = "wait" /\ step \in {"data", "tailer"} /\ CutShort
  <2>1. conn = "open" => client = "wait" /\ toClient = <<>>
    BY <1>3 DEF SessionInv, Ends, Alive
  <2> QED
    BY <1>1, <1>3, <2>1 DEF SessionInv, Upload, Answer, Uploading
<1>6. Contents'
  BY <1>1, <1>3, <1>4, <1>5 DEF SessionInv, Contents
<1>7. ScriptType'
  BY <1>1, <1>3, <1>4, <1>5 DEF SessionInv, ScriptType
<1>8. ServerType'
  BY <1>1, <1>3, <1>4, <1>5 DEF SessionInv, ServerType
<1>9. StorageType'
  BY <1>1, <1>3, <1>4, <1>5 DEF SessionInv, StorageType
<1>10. ServerInv'
  BY <1>1, <1>3, <1>4, <1>5 DEF SessionInv, ServerInv
<1>11. Behind'
  BY <1>1, <1>3, <1>4, <1>5 DEF SessionInv, Behind
<1>12. Line'
  BY <1>1, <1>3, <1>4, <1>5 DEF SessionInv, Line, Request, AckOnly, AckAndRequest
<1>13. Room'
  BY <1>1, <1>3, <1>4, <1>5 DEF SessionInv, Room, Request
<1>14. Replies'
  BY <1>1, <1>3, <1>4, <1>5 DEF SessionInv, Replies, Came
<1>15. Ends'
  BY <1>1, <1>3, <1>4, <1>5 DEF SessionInv, Ends, Alive, Gone
<1>16. Paired'
  BY <1>1, <1>3, <1>4, <1>5 DEF SessionInv, Paired, Answer
<1>17. Answered'
  BY <1>1, <1>3, <1>4, <1>5 DEF SessionInv, Answered, Answer, Uploaded, Converted
<1>18. Progress'
  BY <1>1, <1>3, <1>4, <1>5 DEF SessionInv, Progress
<1>19. Upload'
  BY <1>1, <1>3, <1>4, <1>5 DEF SessionInv, Upload, CutShort, Answer, Uploading, Whole, Taken
<1>20. Copies'
  BY <1>1, <1>3, <1>4, <1>5 DEF SessionInv, Copies, Came, Alive, Answer, Uploaded, Converted
<1>21. Balance'
  BY <1>1, <1>3, <1>4, <1>5 DEF SessionInv, Balance, Answer, AfterUpload
<1>22. Deletions'
  BY <1>1, <1>3, <1>4, <1>5 DEF SessionInv, Deletions, Answer
<1> QED
  BY <1>6, <1>7, <1>8, <1>9, <1>10, <1>11, <1>12, <1>13, <1>14, <1>15, <1>16, <1>17, <1>18, <1>19, <1>20, <1>21, <1>22 DEF SessionInv

-----------------------------------------------------------------------------
\* A restart cuts the file that is being written, and touches no other.
LEMMA LeftEffect ==
  ASSUME SessionInv, NEW left \in LeftOnFlash
  PROVE  /\ left \in [Paths -> Seq(Blocks) \cup {Absent}]
         /\ server # "compress" => left["br"] = flash["br"]
         /\ ~fileOpen => left["src"] = flash["src"]
<1>1. /\ flash \in [Paths -> Seq(Blocks) \cup {Absent}] /\ fileOpen \in BOOLEAN
      /\ path \in Paths /\ Compressed \subseteq Seq(Blocks)
      /\ fileOpen => path = "src" /\ flash["src"] \in Seq(Blocks) /\ server # "compress"
  BY ConstantsAssumption DEF SessionInv, StorageType, ServerType, ServerInv, Paths
<1>2. ASSUME NEW s \in Seq(Blocks), NEW p \in Prefixes(s)
      PROVE  p \in Seq(Blocks)
  <2>1. PICK n \in 0..Len(s) : p = SubSeq(s, 1, n)
    BY DEF Prefixes
  <2> QED
    BY <2>1
<1>3. CASE server = "compress"
  <2>1. PICK p \in UNION {Prefixes(c) : c \in Compressed} : left = [flash EXCEPT !["br"] = p]
    <3>1. ~fileOpen
      BY <1>1, <1>3
    <3> QED
      BY <1>3, <3>1 DEF LeftOnFlash
  <2>2. p \in Seq(Blocks)
    BY <1>1, <1>2
  <2>3. ~fileOpen => left["src"] = flash["src"]
    BY <1>1, <2>1 DEF Paths
  <2> QED
    BY <1>1, <1>3, <2>1, <2>2, <2>3
<1>4. CASE fileOpen
  <2>1. PICK p \in Prefixes(flash["src"]) : left = [flash EXCEPT !["src"] = p]
    BY <1>1, <1>4 DEF LeftOnFlash
  <2>2. p \in Seq(Blocks)
    BY <1>1, <1>2, <1>4
  <2> QED
    BY <1>1, <1>4, <2>1, <2>2 DEF Paths
<1>5. CASE server # "compress" /\ ~fileOpen
  <2>1. left = flash
    BY <1>5 DEF LeftOnFlash
  <2> QED
    BY <1>1, <2>1
<1> QED
  BY <1>3, <1>4, <1>5

\* The chip restarts: every stream and every connection of the server is gone.
LEMMA RebootInv ==
  ASSUME SessionInv, Reboot
  PROVE  SessionInv'
<1>1. /\ faults \subseteq faults' /\ faults' \subseteq AllFaults /\ "restart" \in faults'
      /\ server' = "accept" /\ handles' = 0 /\ held' = 0
      /\ path' = "src" /\ fileOpen' = FALSE /\ context' = <<>> /\ position' = 0
      /\ packet' = "header" /\ toServer' = <<>> /\ toClient' \in {toClient, <<>>}
      /\ UNCHANGED <<step, client, file, sent, got, valid, runs>>
  BY DEF Reboot, script, SessionInv, StorageType, AllFaults
<1>2. /\ flash' \in [Paths -> Seq(Blocks) \cup {Absent}]
      /\ server # "compress" => flash'["br"] = flash["br"] /\ made' = made
      /\ ~fileOpen => flash'["src"] = flash["src"]
      /\ made' \in Seq(Blocks) \cup {Absent}
  <2>1. /\ flash \in [Paths -> Seq(Blocks) \cup {Absent}]
        /\ made \in Seq(Blocks) \cup {Absent}
    BY DEF SessionInv, StorageType
  <2>2. CASE flash' \in LeftOnFlash /\ made' = IF server = "compress" THEN Absent ELSE made
    BY <2>1, <2>2, LeftEffect
  <2>3. CASE flash' = flash /\ made' = made
    BY <2>1, <2>3
  <2> QED
    BY <2>2, <2>3 DEF Reboot
<1>3. /\ conn = "open" => conn' = "half"
      /\ conn = "silent" => conn' = "closed"
      /\ conn \notin {"open", "silent"} => conn' = conn
      /\ conn \in {"none", "open", "half", "silent", "dropped", "closed"}
  BY DEF Reboot, SessionInv, Ends
<1>4. /\ fileOpen => step \in {"put", "header", "data", "tailer"}
      /\ server = "compress" => step \in {"compress", "get"}
  BY DEF SessionInv, ServerInv, Behind
<1>5. /\ <<>> \in Seq(Requests) /\ <<>> \in Seq(Responses) /\ Len(<<>>) = 0 /\ DOMAIN <<>> = {}
      /\ <<>> \in Seq(Blocks) /\ toServer' \in Seq(Requests) /\ Len(toServer') = 0
  BY <1>1
<1>6. /\ Answer("OK")' => Answer("OK") /\ toClient' = toClient
      /\ toClient' # <<>> => toClient' = toClient
  BY <1>1 DEF Answer
<1>7. Answer("OK") => /\ step = "tailer" => ~fileOpen
                      /\ step = "get" => server # "compress"
  BY DEF SessionInv, Answered
<1>8. Contents'
  BY <1>1, <1>2, <1>3, <1>4, <1>5, <1>6, <1>7 DEF SessionInv, Contents
<1>9. ScriptType'
  BY <1>1, <1>2, <1>3, <1>4, <1>5, <1>6, <1>7 DEF SessionInv, ScriptType
<1>10. ServerType'
  <2>1. fileOpen' \in BOOLEAN /\ path' \in Paths /\ packet' \in PacketKinds /\ position' \in Nat
    BY <1>1 DEF Paths, PacketKinds
  <2> QED
    BY <1>1, <1>5, <2>1 DEF ServerType
<1>11. StorageType'
  <2>1. handles' \in 0..MaxFiles /\ held' \in 0..MaxFiles
    BY <1>1, ConstantsAssumption
  <2> QED
    BY <1>1, <1>2, <2>1 DEF SessionInv, StorageType
<1>12. ServerInv'
  BY <1>1, <1>2, <1>3, <1>4, <1>5, <1>6, <1>7 DEF SessionInv, ServerInv
<1>13. Behind'
  BY <1>1, <1>2, <1>3, <1>4, <1>5, <1>6, <1>7 DEF SessionInv, Behind
<1>14. Line'
  BY <1>1, <1>2, <1>3, <1>4, <1>5, <1>6, <1>7 DEF SessionInv, Line, Request, AckOnly, AckAndRequest
<1>15. Room'
  BY <1>1, <1>2, <1>3, <1>4, <1>5, <1>6, <1>7 DEF SessionInv, Room, Request
<1>16. Replies'
  BY <1>1, <1>2, <1>3, <1>4, <1>5, <1>6, <1>7 DEF SessionInv, Replies, Came
<1>17. Ends'
  BY <1>1, <1>2, <1>3, <1>4, <1>5, <1>6, <1>7 DEF SessionInv, Ends, Alive, Gone
<1>18. Paired'
  BY <1>1, <1>2, <1>3, <1>4, <1>5, <1>6, <1>7 DEF SessionInv, Paired, Answer
<1>19. Answered'
  BY <1>1, <1>2, <1>3, <1>4, <1>5, <1>6, <1>7 DEF SessionInv, Answered, Answer, Uploaded, Converted
<1>20. Progress'
  BY <1>1, <1>2, <1>3, <1>4, <1>5, <1>6, <1>7 DEF SessionInv, Progress
<1>21. Upload'
  BY <1>1, <1>2, <1>3, <1>4, <1>5, <1>6, <1>7 DEF SessionInv, Upload, CutShort, Answer, Uploading, Whole, Taken
<1>22. Copies'
  BY <1>1, <1>2, <1>3, <1>4, <1>5, <1>6, <1>7 DEF SessionInv, Copies, Came, Alive, Answer, Uploaded, Converted
<1>23. Balance'
  BY <1>1, <1>2, <1>3, <1>4, <1>5, <1>6, <1>7 DEF SessionInv, Balance, Answer, AfterUpload
<1>24. Deletions'
  BY <1>1, <1>2, <1>3, <1>4, <1>5, <1>6, <1>7 DEF SessionInv, Deletions, Answer
<1> QED
  BY <1>8, <1>9, <1>10, <1>11, <1>12, <1>13, <1>14, <1>15, <1>16, <1>17, <1>18, <1>19, <1>20, <1>21, <1>22, <1>23, <1>24 DEF SessionInv

\* The script is started for the first time.
LEMMA InitSession == Init => SessionInv
<1> SUFFICES ASSUME Init PROVE SessionInv
  OBVIOUS
<1>1. /\ conn = "none" /\ toServer = <<>> /\ toClient = <<>>
      /\ step = "put" /\ client = "none" /\ file = <<>> /\ sent = 0 /\ got = <<>>
      /\ valid = FALSE /\ server = "accept" /\ path = "src" /\ fileOpen = FALSE
      /\ context = <<>> /\ position = 0 /\ packet = "header"
      /\ flash = [p \in Paths |-> Absent] /\ handles = 0
      /\ runs = 0 /\ faults = {} /\ held = 0 /\ made = Absent
  BY DEF Init
<1>2. /\ <<>> \in Seq(Requests) /\ <<>> \in Seq(Responses) /\ <<>> \in Seq(Blocks)
      /\ Len(<<>>) = 0 /\ DOMAIN <<>> = {} /\ MaxFiles \in Nat /\ MaxRuns \in Nat
  BY ConstantsAssumption
<1>3. ScriptType
  <2>1. sent \in 0..Len(file)
    <3>1. Len(file) = 0
      BY <1>1, <1>2
    <3> QED
      BY <1>1, <3>1
  <2>2. valid \in BOOLEAN
    BY <1>1
  <2> QED
    BY <1>1, <1>2, <2>1, <2>2 DEF ScriptType, Steps
<1>4. ServerType
  <2>1. fileOpen \in BOOLEAN /\ path \in Paths /\ packet \in PacketKinds /\ position \in Nat
    BY <1>1 DEF Paths, PacketKinds
  <2> QED
    BY <1>1, <1>2, <2>1 DEF ServerType
<1>5. Line /\ Room /\ Replies
  <2>1. Len(toClient) \in 0..2 /\ ~Request
    BY <1>1, <1>2 DEF Request
  <2>2. Line /\ Replies
    BY <1>1 DEF Line, Replies
  <2>3. Room
    BY <1>1, <1>2, <2>1 DEF Room
  <2> QED
    BY <2>2, <2>3
<1>6. StorageType
  BY <1>1, <1>2 DEF StorageType
<1>7. Contents /\ ServerInv /\ Behind
  BY <1>1, <1>2 DEF Contents, ServerInv, Behind
<1>8. Ends /\ Paired /\ Answered /\ Progress
  BY <1>1 DEF Ends, Gone, Alive, Paired, Answered, Answer, Progress
<1>9. Upload /\ Copies /\ Balance /\ Deletions
  BY <1>1 DEF Upload, Copies, Alive, Balance, Deletions, Answer
<1> QED
  BY <1>3, <1>4, <1>5, <1>6, <1>7, <1>8, <1>9 DEF SessionInv

-----------------------------------------------------------------------------
\* What the script does keeps the invariant.
LEMMA ScriptInv ==
  ASSUME SessionInv, Script \/ Interrupt \/ InterruptDeaf
  PROVE  SessionInv'
<1>1. CASE SendRequest
  BY <1>1, SendGoneInv, SendOpenInv
<1>2. CASE ReceiveOK
  BY <1>2, ReceiveOKInv
<1>3. CASE Quit
  <2>1. /\ "exited" \in {"exited", "crashed"} /\ Leave("exited")
        /\ toServer' \in {toServer, <<>>} /\ Alive /\ UNCHANGED history
    BY <1>3 DEF Quit, Alive
  <2> QED
    BY <2>1, LeaveInv
<1>4. CASE Crash
  <2>1. /\ "crashed" \in {"exited", "crashed"} /\ Leave("crashed")
        /\ toServer' \in {toServer, <<>>} /\ Alive /\ UNCHANGED history
    BY <1>4 DEF Crash, Alive
  <2> QED
    BY <2>1, LeaveInv
<1>5. CASE ReceivePacket
  BY <1>5, ReceivePacketInv
<1>6. CASE Interrupt
  <2>1. /\ "exited" \in {"exited", "crashed"} /\ Leave("exited")
        /\ toServer' \in {toServer, <<>>} /\ Fault("interrupt")
    BY <1>6 DEF Interrupt
  <2>2. Alive
    BY <1>6 DEF Interrupt, Alive
  <2> QED
    BY <2>1, <2>2, LeaveInv
<1>7. CASE InterruptDeaf
  BY <1>7, InterruptDeafInv
<1> QED
  BY <1>1, <1>2, <1>3, <1>4, <1>5, <1>6, <1>7 DEF Script

\* What the server does keeps the invariant.
LEMMA ServerStepInv ==
  ASSUME SessionInv, Server
  PROVE  SessionInv'
<1>1. CASE Commands
  <2>1. CASE Command("put", "put")
    BY <2>1, CommandInv
  <2>2. CASE Command("get", "packet")
    BY <2>2, CommandInv
  <2>3. CASE Command("compress", "compress")
    BY <2>3, CommandInv
  <2>4. CASE Command("del_src", "unlink")
    BY <2>4, CommandInv
  <2>5. CASE Command("del_br", "unlink")
    BY <2>5, CommandInv
  <2> QED
    BY <1>1, <2>1, <2>2, <2>3, <2>4, <2>5 DEF Commands
<1>2. CASE ConnectionClosed \/ PutLost \/ AckLost
  BY <1>2, LossInv
<1>3. CASE Close
  BY <1>3, CloseInv
<1>4. CASE Unlink
  BY <1>4, UnlinkInv
<1>5. CASE Compress
  BY <1>5, CompressInv
<1>6. CASE PutHeader
  BY <1>6, PutHeaderInv
<1>7. CASE PutHeaderFails
  BY <1>7, PutHeaderFailsInv
<1>8. CASE PutTailer
  BY <1>8, PutTailerInv
<1>9. CASE PutData
  BY <1>9, PutDataOpenInv, PutDataClosedInv
<1>10. CASE PutDataFails
  BY <1>10, PutDataFailsInv
<1>11. CASE SendPacket
  BY <1>11, SendPacketInv
<1>12. CASE AckHeader
  BY <1>12, AckHeaderInv
<1>13. CASE AckData
  BY <1>13, AckDataInv
<1>14. CASE AckTailer
  BY <1>14, AckTailerInv
<1>15. CASE Ignore
  BY <1>15, IgnoreInv
<1>16. CASE Panic
  BY <1>16, RebootInv DEF Panic
<1> QED
  BY <1>1, <1>2, <1>3, <1>4, <1>5, <1>6, <1>7, <1>8, <1>9, <1>10, <1>11, <1>12,
     <1>13, <1>14, <1>15, <1>16 DEF Server, PutFile, GetFile

\* Every step of either side, of the network or of the chip keeps the two sides as
\* far apart as SessionInv allows, and no further.
LEMMA StepInv == SessionInv /\ [Next]_vars => SessionInv'
<1> SUFFICES ASSUME SessionInv, [Next]_vars PROVE SessionInv'
  OBVIOUS
<1>1. CASE Start
  BY <1>1, StartInv
<1>2. CASE Script \/ Interrupt \/ InterruptDeaf
  BY <1>2, ScriptInv
<1>3. CASE Drop
  BY <1>3, DropInv
<1>4. CASE Vanish
  BY <1>4, VanishInv
<1>5. CASE GiveUp
  BY <1>5, GiveUpInv
<1>6. CASE Server
  BY <1>6, ServerStepInv
<1>7. CASE Restart
  BY <1>7, RebootInv DEF Restart
<1>8. CASE UNCHANGED vars
  <2>1. UNCHANGED <<conn, toServer, toClient, step, client, file, sent, got, valid, server,
                    path, fileOpen, context, position, packet, flash, handles, runs,
                    faults, held, made>>
    BY <1>8 DEF vars, net, script, locals, storage, history
  <2>2. (Contents /\ ScriptType /\ ServerType /\ StorageType)'
    BY <2>1 DEF SessionInv, Contents, ScriptType, ServerType, StorageType
  <2>3. (ServerInv /\ Behind /\ Line /\ Room /\ Replies)'
    BY <2>1 DEF SessionInv, ServerInv, Behind, Line, Request, AckOnly, AckAndRequest, Room,
                Replies, Came
  <2>4. (Ends /\ Paired)'
    BY <2>1 DEF SessionInv, Ends, Alive, Gone, Paired, Answer
  <2>5. (Answered /\ Progress)'
    BY <2>1 DEF SessionInv, Answered, Answer, Uploaded, Converted, Progress
  <2>6. Upload'
    BY <2>1 DEF SessionInv, Upload, CutShort, Answer, Uploading, Whole, Taken
  <2>7. (Copies /\ Balance /\ Deletions)'
    BY <2>1 DEF SessionInv, Copies, Came, Alive, Answer, Uploaded, Converted, Balance,
                AfterUpload, Deletions
  <2> QED
    BY <2>2, <2>3, <2>4, <2>5, <2>6, <2>7 DEF SessionInv
<1> QED
  BY <1>1, <1>2, <1>3, <1>4, <1>5, <1>6, <1>7, <1>8 DEF Next

-----------------------------------------------------------------------------
\* The messages of tcp_server.c and tcp-client.py and the states of both sides agree
\* in every run, whatever is lost, cut short or restarted: an upload that a block
\* which looks like a tailer ends, and a download that a failing fread ends, included.
THEOREM SessionKept == Spec => []SessionInv
BY InitSession, StepInv, PTL DEF Spec

\* At most one request is under way, behind at most one acknowledgement; neither side
\* leaves its states, and the server never holds more FILE objects than the mount
\* allows, although put_file and get_file leave streams open when the peer is lost.
THEOREM TypeCorrect == Spec => []TypeOK
BY InvTypes, SessionKept, PTL

\* OK for the tailer means that flash holds the script's file: blocks that look like
\* a header or a tailer, which put_file takes for one, even with the right MD5 in
\* them, make the upload fail or leave the script without an answer, and never
\* succeed with another content. Only an fclose that fails unseen can.
THEOREM UploadsSound == Spec => []UploadSound
<1>1. SessionInv => UploadSound
  BY DEF SessionInv, Copies, Came, Alive, Uploaded, UploadSound
<1> QED
  BY <1>1, SessionKept, PTL

\* The script's "valid hash" is about a beginning of the compressed file, and all of
\* it unless a read failed; and this is the compressed form of the file of this run:
\* never one that an earlier run left on flash, although the answer to compress goes
\* out before comp_task runs, nor a part that a restart left.
THEOREM DownloadsSound == Spec => []DownloadSound
<1>1. SessionInv => DownloadSound
  BY DEF SessionInv, Copies, Came, Converted, DownloadSound
<1> QED
  BY <1>1, SessionKept, PTL

\* A script that comes to its end leaves no FILE object open and no file behind,
\* unless unlink failed or the chip restarted after the OK and before unlink.
THEOREM RunsLeaveNothing == Spec => []DoneLeavesNothing
<1>1. SessionInv => DoneLeavesNothing
  <2> SUFFICES ASSUME SessionInv, client = "done", server = "accept"
               PROVE  /\ handles = held
                      /\ faults \cap {"flash", "restart"} = {} => flash = [p \in Paths |-> Absent]
    BY DEF DoneLeavesNothing
  <2>1. handles = held
    BY DEF SessionInv, Balance
  <2>2. ASSUME faults \cap {"flash", "restart"} = {}
        PROVE  flash = [p \in Paths |-> Absent]
    <3>1. flash["src"] = Absent /\ flash["br"] = Absent
      BY <2>2 DEF SessionInv, Deletions
    <3>2. flash \in [Paths -> Seq(Blocks) \cup {Absent}]
      BY DEF SessionInv, StorageType
    <3> QED
      BY <3>1, <3>2 DEF Paths
  <2> QED
    BY <2>1, <2>2
<1> QED
  BY <1>1, SessionKept, PTL

=============================================================================
