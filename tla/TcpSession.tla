---------------------------- MODULE TcpSession ----------------------------
(***************************************************************************)
(* The tcp-server example: the server task of tcp-server/main/tcp_server.c *)
(* and the client script tcp-server/tcp-client.py, which uploads a file,   *)
(* has it compressed, fetches the compressed file and deletes both.        *)
(*                                                                         *)
(* The script sends a request and waits for two bytes of answer; while it  *)
(* downloads, the server sends a packet and waits for two bytes. A message *)
(* stands for its length and its body. Files are sequences of blocks and   *)
(* an MD5 is the sequence it was computed from.                            *)
(***************************************************************************)
EXTENDS Naturals, Sequences

CONSTANTS
  Blocks,      \* what a block of a file can contain
  HeaderLike, TailerLike,  \* blocks whose text begins with "header", "tailer"
  DigestIn,    \* the MD5 that stands in a tailer-like block
  Undecodable, \* blocks of 128 bytes that are not UTF-8 text
  Files,       \* contents of the files uploaded
  Compressed,  \* what the codec makes of them
  Absent,      \* no such file
  MaxFiles,    \* max_files of the SPIFFS mount
  MaxRuns,     \* bound: runs of the client script
  Faults       \* what may go wrong, see AllFaults

\* The connection is reset; the chip restarts; the host is gone without a word; the
\* user ends the script; an operation on flash fails; fclose loses data; the codec
\* task reports a failure, is not created, or is done before the server waits for it.
AllFaults == {"drop", "restart", "vanish", "interrupt", "flash", "close", "codec",
              "memory", "early"}

ASSUME ConstantsAssumption ==
  /\ HeaderLike \cup TailerLike \cup Undecodable \subseteq Blocks
  /\ HeaderLike \cap TailerLike = {}
  /\ DigestIn \in [TailerLike -> Seq(Blocks)]
  /\ Files \subseteq Seq(Blocks) /\ Compressed \subseteq Seq(Blocks)
  /\ Absent \notin Seq(Blocks)
  /\ MaxFiles \in Nat \ {0} /\ MaxRuns \in Nat
  /\ Faults \subseteq AllFaults

VARIABLES
  \* the connection, which may be left at one end only: "half" at the script's,
  \* "silent" at the server's; the messages under way in each direction
  conn, toServer, toClient,
  \* the script: the request it is at, whether it sends or waits, its file, how
  \* much of it is sent, what it received, whether it found the hash valid
  step, client, file, sent, got, valid,
  \* the server: where it is, the path of the command, the locals of put_file and
  \* get_file
  server, path, fileOpen, context, position, packet,
  \* flash, open FILE objects
  flash, handles,
  \* history: runs so far, faults of this run, handles in use when it began; the
  \* file that "br", if it is there, is the whole compressed form of
  runs, faults, held, made

net     == <<conn, toServer, toClient>>
script  == <<step, client, file, sent, got, valid>>
locals  == <<path, fileOpen, context, position, packet>>
storage == <<flash, handles>>
history == <<runs, faults, held, made>>
vars == <<net, script, server, locals, storage, history>>

-----------------------------------------------------------------------------
Paths == {"src", "br"}
Steps == {"put", "header", "data", "tailer", "compress", "get", "receive",
          "del_src", "del_br"}
PacketKinds == {"header", "data", "tailer"}

Message(kind, content) == [kind |-> kind, content |-> content]

Init ==
  /\ conn = "none" /\ toServer = <<>> /\ toClient = <<>>
  /\ step = "put" /\ client = "none" /\ file = <<>> /\ sent = 0 /\ got = <<>>
  /\ valid = FALSE
  /\ server = "accept" /\ path = "src" /\ fileOpen = FALSE /\ context = <<>>
  /\ position = 0 /\ packet = "header"
  /\ flash = [p \in Paths |-> Absent] /\ handles = 0
  /\ runs = 0 /\ faults = {} /\ held = 0 /\ made = Absent

Happens(f) == f \in Faults /\ faults' = faults \cup {f} /\ UNCHANGED <<runs, held>>

Fault(f) == Happens(f) /\ UNCHANGED made

-----------------------------------------------------------------------------
(* The script.                                                              *)

Ended == client \in {"none", "done", "exited", "crashed"}

\* The script is run again once the server is back in accept.
Start ==
  /\ Ended /\ server = "accept" /\ runs < MaxRuns
  /\ runs' = runs + 1 /\ faults' = {} /\ held' = handles
  /\ conn' = "open" /\ toServer' = <<>> /\ toClient' = <<>>
  /\ server' = "command"
  /\ file' \in Files
  /\ step' = "put" /\ client' = "send" /\ sent' = 0 /\ got' = <<>> /\ valid' = FALSE
  /\ UNCHANGED <<locals, storage, made>>

\* The message of a step: a block of the file with "data", its MD5 with "tailer".
Outgoing ==
  CASE step = "data"   -> Message("data", <<file[sent + 1]>>)
    [] step = "tailer" -> Message("tailer", file)
    [] OTHER           -> Message(step, <<>>)

\* Both ends of the connection know that it is over.
Gone == conn \in {"dropped", "closed"}

\* What the script sends, if anybody is there. A restarted chip answers with a reset.
Transmit(m) ==
  /\ toServer' = IF conn = "open" THEN Append(toServer, m) ELSE toServer
  /\ conn' = IF conn = "half" THEN "dropped" ELSE conn

\* A send into a connection that is gone is accepted or raises an exception.
SendRequest ==
  /\ client = "send"
  /\ Transmit(Outgoing)
  /\ client' \in IF Gone THEN {"wait", "exited"} ELSE {"wait"}
  /\ sent' = IF step = "data" THEN sent + 1 ELSE sent
  /\ UNCHANGED <<toClient, step, file, got, valid, server, locals, storage, history>>

\* What main and put_file do after an OK.
NextStep ==
  CASE step = "put"      -> "header"
    [] step \in {"header", "data"} ->
         IF sent < Len(file) THEN "data" ELSE "tailer"
    [] step = "tailer"   -> "compress"
    [] step = "compress" -> "get"
    [] step = "get"      -> "receive"
    [] step = "del_src"  -> "del_br"
    [] OTHER             -> step

ReceiveOK ==
  /\ client = "wait" /\ step # "receive"
  /\ toClient # <<>> /\ Head(toClient).kind = "OK"
  /\ toClient' = Tail(toClient)
  /\ step' = NextStep
  /\ client' = CASE step = "get"    -> "wait"
                 [] step = "del_br" -> "done"
                 [] OTHER           -> "send"
  /\ conn' = IF step = "del_br" THEN "closed" ELSE conn
  /\ UNCHANGED <<toServer, file, sent, got, valid, server, locals, storage, history>>

\* The script ends before its time, and its socket with it.
Leave(how) ==
  /\ client' = how /\ conn' = "closed" /\ toClient' = <<>>
  /\ UNCHANGED <<step, file, sent, got, valid, server, locals, storage>>

\* Mutant: an empty answer is not seen as the end of the connection.
KeepWaiting == FALSE

NoAnswer == toClient = <<>> /\ Gone

\* Any other answer: sys.exit. The end of the connection: sys.exit or an exception.
Quit ==
  /\ client = "wait"
  /\ \/ toClient # <<>> /\ Head(toClient).kind = "NG"
     \/ NoAnswer
  /\ Leave("exited") /\ toServer' = <<>> /\ UNCHANGED history

\* process_message decodes every packet of 128 bytes as UTF-8 text. No block of a
\* compressed file is text that begins with "header,," or "tailer,,".
CannotDecode(m) == m.kind = "data" /\ m.content[1] \in Undecodable

Crash ==
  /\ client = "wait" /\ step = "receive"
  /\ toClient # <<>> /\ CannotDecode(Head(toClient))
  /\ Leave("crashed") /\ toServer' = <<>> /\ UNCHANGED history

\* Ctrl-C, at any time: what was sent arrives, or the reset overtakes it.
Interrupt ==
  /\ client \in {"send", "wait"} /\ Fault("interrupt")
  /\ Leave("exited") /\ toServer' \in {toServer, <<>>}

\* Ctrl-C where the network is lost: the server is not told.
InterruptDeaf ==
  /\ client = "deaf" /\ Fault("interrupt")
  /\ client' = "exited"
  /\ UNCHANGED <<net, step, file, sent, got, valid, server, locals, storage>>

\* get_file of the script, one packet. The last one carries the server's MD5.
ReceivePacket ==
  /\ client = "wait" /\ step = "receive" /\ toClient # <<>>
  /\ LET m == Head(toClient)
     IN  /\ ~CannotDecode(m)
         /\ got' = IF m.kind = "data" THEN got \o m.content ELSE got
         /\ valid' = (m.kind = "tailer" /\ m.content = got)
         /\ IF m.kind = "tailer" THEN client' = "send" /\ step' = "del_src"
                                 ELSE UNCHANGED <<client, step>>
  /\ toClient' = Tail(toClient)
  /\ Transmit(Message("ack", <<>>))
  /\ UNCHANGED <<file, sent, server, locals, storage, history>>

Script == SendRequest \/ ReceiveOK \/ Quit \/ Crash \/ ReceivePacket

\* The connection is reset with everything under way.
Drop ==
  /\ conn = "open" /\ Fault("drop")
  /\ conn' = "dropped" /\ toServer' = <<>> /\ toClient' = <<>>
  /\ UNCHANGED <<script, server, locals, storage>>

\* The host loses its power or its network. What the server sent may be acknowledged.
\* Without a network the script is told only if it still has something to send; one
\* that waits in recv waits for ever.
Vanish ==
  /\ conn = "open" /\ Fault("vanish")
  /\ conn' = "silent"
  /\ \/ /\ client' = "exited"
        /\ toServer' \in {toServer, <<>>} /\ toClient' \in {toClient, <<>>}
     \/ /\ client = "wait" /\ client' = "deaf"
        /\ UNCHANGED <<toServer, toClient>>
  /\ UNCHANGED <<step, file, sent, got, valid, server, locals, storage>>

\* TCP gives up a connection over which nothing is acknowledged.
GiveUp ==
  /\ conn = "silent" /\ toClient # <<>>
  /\ conn' = "dropped" /\ toClient' = <<>>
  /\ UNCHANGED <<toServer, script, server, locals, storage, history>>

-----------------------------------------------------------------------------
(* The server.                                                              *)

Received(kind) == toServer # <<>> /\ Head(toServer).kind = kind

\* receive_socket or recv fails.
Lost == toServer = <<>> /\ Gone

\* send into a connection that is gone succeeds or fails.
Send(m, next, failed) ==
  IF Gone THEN server' \in {next, failed} /\ UNCHANGED toClient
          ELSE server' = next /\ toClient' = Append(toClient, m)

Reply(kind, next, failed) == Send(Message(kind, <<>>), next, failed)

PathOf(kind) == IF kind \in {"get", "del_br"} THEN "br" ELSE "src"

\* receive_command. put_file needs no file; the others are refused without one.
\* OK goes out before the command is carried out.
Command(kind, branch) ==
  /\ server = "command" /\ Received(kind)
  /\ toServer' = Tail(toServer)
  /\ path' = PathOf(kind)
  /\ IF kind = "put" \/ flash[path'] # Absent THEN Reply("OK", branch, "close")
                                              ELSE Reply("NG", "command", "close")
  /\ fileOpen' = FALSE /\ context' = <<>> /\ position' = 0 /\ packet' = "header"
  /\ UNCHANGED <<conn, script, storage, history>>

Commands ==
  \/ Command("put", "put") \/ Command("get", "packet")
  \/ Command("compress", "compress")
  \/ Command("del_src", "unlink") \/ Command("del_br", "unlink")

CommandKinds == {"put", "get", "compress", "del_src", "del_br"}

\* Mutant: the loop goes on when the peer is gone.
KeepReceiving == "command"

\* Where receive_command goes when it receives nothing.
AfterLoss == "close"

ConnectionClosed ==
  /\ server = "command" /\ Lost
  /\ server' = AfterLoss
  /\ UNCHANGED <<net, script, locals, storage, history>>

Close ==
  /\ server = "close" /\ server' = "accept"
  /\ conn' = "closed" /\ toServer' = <<>>
  /\ UNCHANGED <<toClient, script, locals, storage, history>>

Unlink ==
  /\ server = "unlink" /\ server' = "command"
  /\ \/ flash' = [flash EXCEPT ![path] = Absent] /\ UNCHANGED history
     \/ Fault("flash") /\ UNCHANGED flash
  /\ UNCHANGED <<net, script, locals, handles>>

\* Mutant: the result of the compression is not looked at.
ResultIgnored == "command"

\* Where a failed compression, whose OK is long out, takes the session.
AfterFailure == "close"

Prefixes(s) == {SubSeq(s, 1, n) : n \in 0..Len(s)}

\* comp_task opens both files. A success is notified with the value 0, which does
\* not end a wait that has yet to begin.
CodecSucceeds ==
  /\ handles + 2 <= MaxFiles
  /\ \E c \in Compressed : flash' = [flash EXCEPT !["br"] = c]
  /\ made' = flash["src"]
  /\ \/ server' = "command" /\ UNCHANGED <<runs, faults, held>>
     \/ server' = "stuck" /\ Happens("early")

\* The output is not touched, or removed; a failing fclose or unlink leaves a part.
CodecFails ==
  /\ server' = AfterFailure
  /\ \/ handles + 2 > MaxFiles /\ UNCHANGED <<flash, history>>
     \/ /\ Fault("codec")
        /\ flash' \in {flash, [flash EXCEPT !["br"] = Absent]}
     \/ /\ handles + 2 <= MaxFiles
        /\ Happens("close") \/ Happens("flash")
        /\ \E c \in Compressed : \E p \in Prefixes(c) : flash' = [flash EXCEPT !["br"] = p]
        /\ made' = Absent

\* xTaskCreate fails, and nobody looks: the server waits for a task that is not there.
NoTask == Fault("memory") /\ server' = "stuck" /\ UNCHANGED flash

Compress ==
  /\ server = "compress"
  /\ CodecSucceeds \/ CodecFails \/ NoTask
  /\ UNCHANGED <<net, script, locals, handles>>

-----------------------------------------------------------------------------
(* put_file: what the text of a message begins with decides, whatever was   *)
(* meant by it.                                                             *)

IsHeader(m) == m.kind = "header" \/ (m.kind = "data" /\ m.content[1] \in HeaderLike)
IsTailer(m) == m.kind = "tailer" \/ (m.kind = "data" /\ m.content[1] \in TailerLike)

Incoming == Head(toServer)

Put ==
  /\ server = "put" /\ toServer # <<>>
  /\ toServer' = Tail(toServer)
  /\ UNCHANGED <<conn, script, path, position, packet>>

\* Mutant: one stream too many.
OneTooMany == handles <= MaxFiles

CanOpen == handles < MaxFiles

\* fopen "wb" truncates. A stream that is open already is forgotten.
PutHeader ==
  /\ Put /\ IsHeader(Incoming) /\ CanOpen
  /\ handles' = handles + 1
  /\ flash' = [flash EXCEPT ![path] = <<>>]
  /\ fileOpen' = TRUE /\ context' = <<>>
  /\ Reply("OK", "put", "command")
  /\ UNCHANGED history

PutHeaderFails ==
  /\ Put /\ IsHeader(Incoming)
  /\ \/ ~CanOpen /\ UNCHANGED history
     \/ Fault("flash")
  /\ Reply("NG", "put", "command")
  /\ UNCHANGED <<fileOpen, context, storage>>

\* Mutant: a tailer is accepted whatever its hash.
HashIgnored == fileOpen

\* The MD5 of a tailer; a block that looks like one holds it in the same place.
DigestOf(m) == IF m.kind = "tailer" THEN m.content ELSE DigestIn[m.content[1]]

HashMatches == fileOpen /\ DigestOf(Incoming) = context

\* Mutant: the stream of an upload is not closed.
StreamKept(n) == n

Closed(n) == n - 1

\* The last message of put_file, which returns even when the answer is not sent.
PutTailer ==
  /\ Put /\ IsTailer(Incoming)
  /\ handles' = IF fileOpen THEN Closed(handles) ELSE handles
  /\ \/ UNCHANGED <<flash, history>>
     \/ /\ fileOpen /\ flash[path] # <<>> /\ Fault("close")
        /\ flash' = [flash EXCEPT ![path] = SubSeq(@, 1, Len(@) - 1)]
  /\ fileOpen' = FALSE /\ UNCHANGED context
  /\ Reply(IF HashMatches THEN "OK" ELSE "NG", "command", "command")

\* Without an open file a block is dropped, and nothing is answered.
PutData ==
  /\ Put /\ Incoming.kind = "data" /\ ~IsHeader(Incoming) /\ ~IsTailer(Incoming)
  /\ IF fileOpen
       THEN /\ flash' = [flash EXCEPT ![path] = @ \o Incoming.content]
            /\ context' = context \o Incoming.content
            /\ Reply("OK", "put", "command")
       ELSE UNCHANGED <<flash, context, server, toClient>>
  /\ UNCHANGED <<fileOpen, handles, history>>

PutDataFails ==
  /\ Put /\ Incoming.kind = "data" /\ ~IsHeader(Incoming) /\ ~IsTailer(Incoming)
  /\ fileOpen /\ Fault("flash")
  /\ Reply("NG", "put", "command")
  /\ UNCHANGED <<fileOpen, context, storage>>

\* The stream stays open.
PutLost ==
  /\ server = "put" /\ Lost
  /\ server' = "command"
  /\ UNCHANGED <<net, script, locals, storage, history>>

PutFile == PutHeader \/ PutHeaderFails \/ PutTailer \/ PutData \/ PutDataFails
             \/ PutLost

-----------------------------------------------------------------------------
(* get_file: a header, the blocks and a tailer, each acknowledged.          *)

\* The packet to send: the tailer carries the MD5 of what was sent.
Packet ==
  CASE packet = "data"   -> Message("data", <<flash[path][position + 1]>>)
    [] packet = "tailer" -> Message("tailer", context)
    [] OTHER             -> Message("header", <<>>)

SendPacket ==
  /\ server = "packet"
  /\ Send(Packet, "ack", "command")
  /\ UNCHANGED <<conn, toServer, script, locals, storage, history>>

\* fread: the next block, or nothing at the end of the file.
AtEnd(from) == from = Len(flash[path])

\* A read that fails returns nothing either, and is taken for the end.
Read(from) ==
  \/ packet' = (IF AtEnd(from) THEN "tailer" ELSE "data") /\ UNCHANGED history
  \/ packet' = "tailer" /\ Fault("flash")

\* Mutant: the reader moves on by two blocks.
SkipsABlock == IF position + 2 > Len(flash[path]) THEN position + 1 ELSE position + 2

Advanced == position + 1

\* get_file opens the file after the header packet is acknowledged, and closes it
\* before the tailer.
AckHeader ==
  /\ server = "ack" /\ Received("ack") /\ packet = "header"
  /\ toServer' = Tail(toServer)
  /\ \/ /\ CanOpen
        /\ Read(0) /\ server' = "packet"
        /\ handles' = IF packet' = "tailer" THEN handles ELSE handles + 1
     \/ /\ Fault("flash")
        /\ server' = "command" /\ UNCHANGED <<packet, handles>>
  /\ UNCHANGED <<conn, toClient, script, path, fileOpen, context, position, flash>>

AckData ==
  /\ server = "ack" /\ Received("ack") /\ packet = "data"
  /\ toServer' = Tail(toServer)
  /\ context' = Append(context, flash[path][position + 1])
  /\ position' = Advanced
  /\ Read(position') /\ server' = "packet"
  /\ handles' = IF packet' = "tailer" THEN Closed(handles) ELSE handles
  /\ UNCHANGED <<conn, toClient, script, path, fileOpen, flash>>

AckTailer ==
  /\ server = "ack" /\ Received("ack") /\ packet = "tailer"
  /\ toServer' = Tail(toServer)
  /\ server' = "command"
  /\ UNCHANGED <<conn, toClient, script, locals, storage, history>>

\* get_file returns without fclose.
AckLost ==
  /\ server = "ack" /\ Lost
  /\ server' = "command"
  /\ UNCHANGED <<net, script, locals, storage, history>>

GetFile == SendPacket \/ AckHeader \/ AckData \/ AckTailer \/ AckLost

-----------------------------------------------------------------------------
(* A restart of the chip, at most one in a run.                             *)

\* What a file being written is cut to: an upload, or the output of the codec.
LeftOnFlash ==
  CASE server = "compress" -> {[flash EXCEPT !["br"] = p] :
                                 p \in UNION {Prefixes(c) : c \in Compressed}}
    [] fileOpen            -> {[flash EXCEPT ![path] = p] : p \in Prefixes(flash[path])}
    [] OTHER               -> {flash}

\* Open streams are gone. The script is not told; what was sent to it may arrive.
Reboot ==
  /\ faults' = faults \cup {"restart"}
  /\ server' = "accept" /\ handles' = 0 /\ held' = 0
  /\ path' = "src" /\ fileOpen' = FALSE /\ context' = <<>> /\ position' = 0
  /\ packet' = "header"
  /\ \/ flash' \in LeftOnFlash /\ made' = IF server = "compress" THEN Absent ELSE made
     \/ UNCHANGED <<flash, made>>
  /\ conn' = CASE conn = "open"   -> "half"
               [] conn = "silent" -> "closed"
               [] OTHER           -> conn
  /\ toServer' = <<>> /\ toClient' \in {toClient, <<>>}
  /\ UNCHANGED <<script, runs>>

Restart == "restart" \in Faults \ faults /\ Reboot

-----------------------------------------------------------------------------
(* receive_command, with what is no command.                                *)

\* A message that no command takes: the rest of an upload that ended before its time.
Unknown ==
  server = "command" /\ toServer # <<>> /\ Head(toServer).kind \notin CommandKinds

\* It is dropped, and nothing is answered.
Ignore ==
  /\ Unknown
  /\ toServer' = Tail(toServer)
  /\ UNCHANGED <<conn, toClient, script, server, locals, storage, history>>

\* What is behind its comma has been copied into filepath first: without a comma, or
\* with more than filepath holds, the chip may panic.
Panic == Unknown /\ Reboot

Server == Commands \/ Ignore \/ Panic \/ ConnectionClosed \/ Close \/ Unlink
            \/ Compress \/ PutFile \/ GetFile

Next == Start \/ Script \/ Interrupt \/ InterruptDeaf \/ Drop \/ Vanish \/ GiveUp
          \/ Server \/ Restart

\* The server task and the script run on their own machines and are never starved;
\* TCP's retransmission timer runs out.
Spec == Init /\ [][Next]_vars /\ WF_vars(Script) /\ WF_vars(Server) /\ WF_vars(GiveUp)

-----------------------------------------------------------------------------
(* Properties.                                                              *)

Kinds == {"put", "header", "data", "tailer", "compress", "get", "del_src",
          "del_br", "ack"}

NetType ==
  /\ conn \in {"none", "open", "half", "silent", "dropped", "closed"}
  /\ Len(toServer) <= 2 /\ Len(toClient) <= 2
  /\ \A i \in DOMAIN toServer : toServer[i].kind \in Kinds
  /\ \A i \in DOMAIN toClient : toClient[i].kind \in PacketKinds \cup {"OK", "NG"}

ScriptType ==
  /\ step \in Steps
  /\ client \in {"none", "send", "wait", "deaf", "done", "exited", "crashed"}
  /\ file \in Seq(Blocks) /\ sent \in 0..Len(file) /\ got \in Seq(Blocks)
  /\ valid \in BOOLEAN

ServerType ==
  /\ server \in {"accept", "command", "close", "unlink", "compress", "stuck", "put",
                 "packet", "ack"}
  /\ path \in Paths /\ fileOpen \in BOOLEAN /\ context \in Seq(Blocks)
  /\ position \in Nat /\ packet \in PacketKinds

StorageType ==
  /\ flash \in [Paths -> Seq(Blocks) \cup {Absent}]
  /\ handles \in 0..MaxFiles
  /\ runs \in 0..MaxRuns /\ faults \subseteq AllFaults /\ held \in 0..MaxFiles
  /\ made \in Seq(Blocks) \cup {Absent}

\* At most one request is under way, behind an acknowledgement, and both sides keep
\* to their states; the number of open FILE objects stays within what the mount
\* allows.
TypeOK == NetType /\ ScriptType /\ ServerType /\ StorageType

\* A script that goes on to compress knows its file to be on flash, block for
\* block, whatever the blocks look like and whatever earlier runs left behind;
\* only a failing fclose, which nobody looks at, makes that untrue.
UploadSound ==
  step = "compress" /\ client = "send" /\ "close" \notin faults
    => flash["src"] = file

\* The script's "valid hash" means that what it received is a beginning of the
\* compressed file, and all of it unless a read failed; and that this is the
\* compressed form of the file it sent: never what an earlier run left, although OK
\* is sent before the compression is tried, nor the part a restart left of one.
DownloadSound ==
  valid /\ step = "del_src" =>
    /\ got \in Prefixes(flash["br"])
    /\ "flash" \notin faults => got = flash["br"]
    /\ "close" \notin faults => made = file

\* A run that reached its end leaves the device as it found it: no FILE object is left
\* open by it, and both files are gone, unless unlink fails or the chip restarts before
\* it, the OK for the deletion being out.
DoneLeavesNothing ==
  client = "done" /\ server = "accept" =>
    /\ handles = held
    /\ faults \cap {"flash", "restart"} = {} => flash = [p \in Paths |-> Absent]

\* However a session ends, the server comes back to accept the next one, unless it
\* waits for a codec task for ever. recv has no time-out: a host that is gone is
\* noticed only if it owes an acknowledgement.
ServerReturns ==
  Gone \/ (conn = "silent" /\ toClient # <<>>) ~> server \in {"accept", "stuck"}

\* Both sides wait for the other one: get_file without its file returns silently, and
\* nothing answers what is no command.
BothWait ==
  /\ conn = "open" /\ client = "wait" /\ server = "command"
  /\ toServer = <<>> /\ toClient = <<>>

\* recv of the script has no time-out: the chip has restarted, or the network is lost.
NobodyThere == client = "deaf" \/ (client = "wait" /\ conn = "half")

\* A run of the script ends, in success or not, unless it comes to a state in which it
\* waits for what cannot come.
RunEnds == client = "send" ~> Ended \/ server = "stuck" \/ BothWait \/ NobodyThere

\* tcp-server/README.md: the script sends the file and receives the compressed
\* one. A run without a fault of its own is never cut short.
SmoothRun == faults = {} => client \notin {"exited", "crashed"}

=============================================================================
