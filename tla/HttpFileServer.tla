--------------------------- MODULE HttpFileServer ---------------------------
(***************************************************************************)
(* The http-server example (http-server/main/file_server.c): one task, that*)
(* of esp_http_server, takes the requests of all clients one at a time and *)
(* runs a handler to its end: list, download, upload, delete or compress.  *)
(* Files are kept in two partitions, /data for what was uploaded and /zip  *)
(* for what was compressed. Before that, and again after a restart, the    *)
(* chip joins the network (WifiStation) and app_main mounts both.          *)
(*                                                                         *)
(* A name is the sequence of its parts, <<"a", ".br", ".txt">> for         *)
(* a.br.txt; <<>> stands for a path that ends in a slash. The file of an   *)
(* upload is the request it came with and how many blocks of it are there. *)
(***************************************************************************)
EXTENDS Naturals, Sequences, WifiStation

CONSTANTS
  Clients,      \* who sends requests
  None,         \* no client, no request, no answer
  Names,        \* names a client may choose for an upload
  Sizes,        \* sizes of uploads, in blocks
  Absent,       \* no such file
  Part,         \* what an interrupted compression leaves
  MaxName,      \* parts in the longest name that fits FILE_PATH_MAX
  MaxSize,      \* MAX_FILE_SIZE, in blocks
  MaxRequests,  \* bound: requests sent
  Faults        \* bound: sets of faults that may happen together, see AllFaults

\* The chip restarts; a client goes away, sends nothing more, or does not read in
\* time; fopen, fread, fwrite or a mount fails; fclose cannot write what is buffered;
\* unlink fails; the codec fails; its task cannot be created, or is done before the
\* server waits for it.
AllFaults == {"restart", "gone", "stall", "slow", "flash", "close", "unlink", "codec",
              "memory", "early"}

WithExtension(n) == Append(n, ".br")

\* Paths a client may ask for, one of them too long, and those the server may use.
LongName == [i \in 1..MaxName + 1 |-> "a"]

Asked == Names \cup {WithExtension(n) : n \in Names} \cup {<<>>, LongName}

\* Paths of pages that are part of the program, used unless such a file is kept.
BuiltIn == {<<"index", ".html">>, <<"favicon", ".ico">>}

Paths == Asked \cup {WithExtension(n) : n \in Asked} \cup BuiltIn

\* strstr: anywhere in the name.
ContainsExtension(n) == \E i \in DOMAIN n : n[i] = ".br"

Kinds == {"get", "upload", "delete", "compress"}

\* What a client may ask for. A file of /data is the upload it came with and how much of
\* it is there; a file of /zip is the file it was made of, and is sent in one block.
Requested == [kind : Kinds, name : Asked \cup BuiltIn, size : Nat, id : Nat]

Stored(upload, have) == [of |-> upload, have |-> have]
Compressed(file) == [of |-> file, have |-> 1]

Uploaded == [of : Requested, have : Nat]

ASSUME ConstantsAssumption ==
  /\ MaxName \in Nat /\ MaxSize \in Nat \ {0} /\ MaxRequests \in Nat
  /\ Names \subseteq Seq(STRING) /\ Sizes \subseteq Nat
  /\ None \notin Clients /\ Faults \subseteq SUBSET AllFaults

\* The values that stand for no file and for a part of one are no files.
ASSUME ValuesAssumption ==
  /\ Absent # Part
  /\ \A v \in {Absent, Part} :
       v \notin Requested /\ v \notin Uploaded /\ v \notin [of : Uploaded, have : {1}]

VARIABLES
  data, zip,   \* the partitions: the file of each name
  \* the server: the client it works for, where the handler is, blocks received of
  \* an upload or sent of a download
  handler, phase, position,
  request,     \* what each client waits for
  \* the last answer: the request, a status, and for a download the file and how much
  \* of it was sent
  answer,
  requests, faults  \* history: requests sent, faults so far

flash   == <<data, zip>>
server  == <<handler, phase, position>>
clients == <<request, answer>>
history == <<requests, faults>>
serverVars == <<flash, server, clients, history>>
vars == <<serverVars, station>>

-----------------------------------------------------------------------------
Request(kind, name, size) ==
  [kind |-> kind, name |-> name, size |-> size, id |-> requests]

Init ==
  /\ requests = 0 /\ faults = {}
  /\ data = [n \in Paths |-> Absent] /\ zip = [n \in Paths |-> Absent]
  /\ StationInit /\ handler = None /\ phase = "boot" /\ position = 0
  /\ request = [c \in Clients |-> None] /\ answer = None

Faulty(kinds) ==
  /\ faults' = faults \cup kinds
  /\ \E together \in Faults : faults' \subseteq together
  /\ UNCHANGED requests

Fault(f) == Faulty({f})

\* The request the handler works on; the name in it.
Req == request[handler]
Name == Req.name

\* The file stat and fopen find for a download: in /zip if the name says so.
Selected(n) == IF ContainsExtension(n) THEN zip[n] ELSE data[n]

-----------------------------------------------------------------------------
(* Clients and the server's main loop.                                      *)

Ask(c) ==
  /\ phase # "boot" /\ WifiAddressed
  /\ request[c] = None /\ requests < MaxRequests
  /\ \E kind \in Kinds, n \in Asked \cup BuiltIn, size \in Sizes \cup {0} :
       /\ n \in BuiltIn => kind = "get"
       /\ IF kind = "upload" /\ n \in Names THEN size \in Sizes ELSE size = 0
       /\ request' = [request EXCEPT ![c] = Request(kind, n, size)]
  /\ requests' = requests + 1
  /\ UNCHANGED <<flash, server, answer, faults>>

\* httpd takes one request and calls its handler.
Accept(c) ==
  /\ phase = "idle" /\ request[c] # None
  /\ handler' = c /\ phase' = request[c].kind /\ answer' = None
  /\ UNCHANGED <<flash, position, request, history>>

\* The handler answers and returns, or goes on.
Return(s, file) ==
  /\ answer' = [to |-> Req, status |-> s, file |-> file, have |-> position]
  /\ request' = [request EXCEPT ![handler] = None]
  /\ phase' = "idle" /\ handler' = None /\ position' = 0

Answer(s) == Return(s, Absent)

Continue(p) == phase' = p /\ UNCHANGED <<handler, position, clients>>

\* Everything but flash starts over. What is on flash of an upload is a part of it. A
\* start-up has nothing to lose.
PowerLoss ==
  /\ phase # "boot" /\ Fault("restart")
  /\ IF phase \in {"receive", "stalled"}
       THEN \E k \in 0..position : data' = [data EXCEPT ![Name] = Stored(Req, k)]
       ELSE UNCHANGED data
  /\ StationRestart /\ phase' = "boot" /\ handler' = None /\ position' = 0
  /\ request' = [c \in Clients |-> None] /\ answer' = None
  /\ UNCHANGED zip

-----------------------------------------------------------------------------
(* app_main.                                                                *)

StartUp == StationNext /\ UNCHANGED serverVars

\* mountSPIFFS formats a partition that a loss of power has left unfit to be mounted;
\* the other one keeps its files.
Mounted(partition) ==
  \/ partition' = partition
  \/ "restart" \in faults /\ partition' = [n \in Paths |-> Absent]

\* ESP_ERROR_CHECK restarts the chip if a partition cannot be formatted either.
Mount ==
  /\ phase = "boot" /\ StationUp
  /\ \/ /\ phase' = "idle" /\ Mounted(data) /\ Mounted(zip)
        /\ UNCHANGED <<station, history>>
     \/ StationRestart /\ Fault("flash") /\ UNCHANGED <<phase, flash>>
  /\ UNCHANGED <<handler, position, clients>>

-----------------------------------------------------------------------------
(* Refusals that several handlers begin with.                               *)

\* get_path_from_uri returns NULL; the path ends in a slash.
TooLong == Len(Name) > MaxName
NoName == Name = <<>>

Refuse ==
  /\ \/ phase \in Kinds /\ TooLong /\ Answer("500")
     \/ phase \in Kinds \ {"get"} /\ NoName /\ Answer("500")
     \/ phase \in {"delete", "compress"} /\ ~NoName /\ ~TooLong /\ data[Name] = Absent
          /\ Answer("400")
  /\ UNCHANGED <<flash, history>>

-----------------------------------------------------------------------------
(* download_get_handler.                                                    *)

\* http_resp_dir_html.
List ==
  /\ phase = "get" /\ NoName /\ ~TooLong
  /\ \/ Answer("200") /\ UNCHANGED history
     \/ Answer("404") /\ Fault("flash")
  /\ UNCHANGED flash

NotFound ==
  /\ phase = "get" /\ ~NoName /\ ~TooLong /\ Selected(Name) = Absent
  /\ Answer(CASE Name = <<"index", ".html">>  -> "307"
           [] Name = <<"favicon", ".ico">> -> "200"
           [] OTHER                        -> "404")
  /\ UNCHANGED <<flash, history>>

Open ==
  /\ phase = "get" /\ ~NoName /\ ~TooLong /\ Selected(Name) # Absent
  /\ \/ Continue("send") /\ UNCHANGED history
     \/ Answer("500") /\ Fault("flash")
  /\ UNCHANGED flash

\* Blocks of the file that is sent.
Length(file) == IF file = Part THEN 0 ELSE file.have

SendChunk ==
  /\ phase = "send" /\ position < Length(Selected(Name))
  /\ position' = position + 1
  /\ UNCHANGED <<flash, handler, phase, clients, history>>

\* The empty chunk tells the client that the download is complete.
Complete == Return("200", Selected(Name))

\* Mutant: fread is not repeated until it returns nothing.
OneChunk == position = 1 \/ Length(Selected(Name)) = 0

EndOfFile == position = Length(Selected(Name))

\* fread returns nothing at the end of the file, and also when it fails before.
Finish ==
  /\ phase = "send"
  /\ \/ EndOfFile /\ UNCHANGED history
     \/ position < Length(Selected(Name)) /\ Fault("flash")
  /\ Complete
  /\ UNCHANGED flash

\* A chunk is not sent. The empty chunk follows all the same; if the client is only
\* slow, it arrives.
SendFails ==
  /\ phase = "send" /\ position < Length(Selected(Name))
  /\ \/ Fault("slow") /\ Complete
     \/ Fault("gone") /\ Answer("lost")
  /\ UNCHANGED flash

Get == List \/ NotFound \/ Open \/ SendChunk \/ Finish \/ SendFails

-----------------------------------------------------------------------------
(* upload_post_handler.                                                     *)

\* Mutant: a second upload of the same name is let in.
NotReceived == FALSE

Exists == data[Name] # Absent

\* Mutant: the limit is one block too high.
LimitOffByOne == Req.size > MaxSize + 1

TooLarge == Req.size > MaxSize

BadUpload ==
  /\ phase = "upload" /\ ~NoName /\ ~TooLong
  /\ Exists \/ TooLarge
  /\ Answer("400")
  /\ UNCHANGED <<flash, history>>

Create ==
  /\ phase = "upload" /\ ~NoName /\ ~TooLong /\ ~Exists /\ ~TooLarge
  /\ \/ /\ data' = [data EXCEPT ![Name] = Stored(Req, 0)]
        /\ Continue("receive") /\ UNCHANGED history
     \/ Fault("flash") /\ Answer("500") /\ UNCHANGED data
  /\ UNCHANGED zip

\* httpd_req_recv and fwrite.
Receive ==
  /\ phase = "receive" /\ position < Req.size
  /\ position' = position + 1
  /\ data' = [data EXCEPT ![Name] = Stored(Req, position + 1)]
  /\ UNCHANGED <<zip, handler, phase, clients, history>>

\* The client sends nothing for a while, or for ever: recv times out and is repeated.
Stall ==
  /\ phase = "receive" /\ position < Req.size
  /\ Continue("stalled") /\ Fault("stall")
  /\ UNCHANGED flash

Resume ==
  /\ phase = "stalled" /\ Continue("receive")
  /\ UNCHANGED <<flash, history>>

\* Mutant: the unfinished file is closed and kept.
Kept == data[Name]

Unlinked == Absent

\* Mutant: every failure of recv is taken for a timeout.
Retried == Continue("stalled")

Abandoned == Answer("lost")

\* The results of unlink are nowhere looked at: a file may stay.
Unlink(f) ==
  \/ Fault(f) /\ data' = [data EXCEPT ![Name] = Unlinked]
  \/ Faulty({f, "unlink"}) /\ UNCHANGED data

\* recv fails, or fwrite: fclose, unlink.
ReceiveFails ==
  /\ phase \in {"receive", "stalled"} /\ position < Req.size
  /\ \/ Unlink("gone") /\ Abandoned
     \/ phase = "receive" /\ Unlink("flash") /\ Answer("500")
  /\ UNCHANGED zip

\* fclose writes what fwrite left in the buffer; its result is not looked at.
EndUpload ==
  /\ phase = "receive" /\ position = Req.size
  /\ Answer("303")
  /\ \/ UNCHANGED <<data, history>>
     \/ /\ Fault("close") /\ position > 0
        /\ data' = [data EXCEPT ![Name] = Stored(Req, position - 1)]
  /\ UNCHANGED zip

Upload == BadUpload \/ Create \/ Receive \/ Stall \/ Resume \/ ReceiveFails \/ EndUpload

-----------------------------------------------------------------------------
(* delete_post_handler.                                                     *)

DeleteSource ==
  /\ phase = "delete" /\ ~NoName /\ ~TooLong /\ data[Name] # Absent
  /\ Continue("unlink")
  /\ \/ data' = [data EXCEPT ![Name] = Absent] /\ UNCHANGED history
     \/ Fault("unlink") /\ UNCHANGED data
  /\ UNCHANGED zip

\* Mutant: the compressed file is looked for without its extension.
SameName == Name

CompPath == WithExtension(Name)

DeleteCompressed ==
  /\ phase = "unlink"
  /\ Answer("303")
  /\ \/ zip' = [zip EXCEPT ![CompPath] = Absent] /\ UNCHANGED history
     \/ zip[CompPath] # Absent /\ Fault("unlink") /\ UNCHANGED zip
  /\ UNCHANGED data

Delete == DeleteSource \/ DeleteCompressed

-----------------------------------------------------------------------------
(* compress_post_handler and comp_task.                                     *)

DstPath == WithExtension(Name)

\* xTaskCreate, then ulTaskNotifyTake: without a task nobody notifies.
Compress ==
  /\ phase = "compress" /\ ~NoName /\ ~TooLong /\ data[Name] # Absent
  /\ \/ Continue("codec") /\ UNCHANGED history
     \/ Continue("hung") /\ Fault("memory")
  /\ UNCHANGED flash

\* The codec truncates its output at once, or fails before that.
CodecOpens ==
  /\ phase = "codec"
  /\ \/ /\ Continue("coding") /\ UNCHANGED history
        /\ zip' = [zip EXCEPT ![DstPath] = Part]
     \/ Fault("codec") /\ Answer("303") /\ UNCHANGED zip
  /\ UNCHANGED data

\* Mutant: the output is not removed.
OutputKept == Part

\* What comp_task leaves when it fails.
Discarded == Absent

\* The result is logged, and the answer is the same. Success is notified as the
\* value 0, which does not release a server that waits only later.
CodecSucceeds ==
  /\ zip' = [zip EXCEPT ![DstPath] = Compressed(data[Name])]
  /\ \/ Answer("303") /\ UNCHANGED history
     \/ Continue("hung") /\ Fault("early")

\* A failing fclose or unlink leaves a part.
CodecFails ==
  /\ Answer("303")
  /\ \/ zip' = [zip EXCEPT ![DstPath] = Discarded] /\ Fault("codec")
     \/ UNCHANGED zip /\ (Fault("close") \/ Faulty({"codec", "unlink"}))

CodecEnds == phase = "coding" /\ (CodecSucceeds \/ CodecFails) /\ UNCHANGED data

CompressFile == Compress \/ CodecOpens \/ CodecEnds

-----------------------------------------------------------------------------
Handler == UNCHANGED station /\ (Refuse \/ Get \/ Upload \/ Delete \/ CompressFile)

Serve(c) == UNCHANGED station /\ Accept(c)

Next ==
  \/ StartUp \/ Mount \/ Handler \/ PowerLoss
  \/ \E c \in Clients : Serve(c) \/ (UNCHANGED station /\ Ask(c))

Booting(A) == A /\ UNCHANGED serverVars

\* The httpd task runs, the codec ends, and a client that has not stalled sends what
\* it announced; every socket with a request is served in turn. During the start-up
\* app_main runs, the event loop or the radio goes on, and an attempt to join the access
\* point that is made over and over succeeds at last.
Spec ==
  /\ Init /\ [][Next]_vars
  /\ WF_vars(Handler /\ phase # "stalled")
  /\ \A c \in Clients : WF_vars(Serve(c))
  /\ WF_vars(Booting(StationMain) \/ Mount)
  /\ WF_vars(Booting(StationHandler \/ AccessPoint)) /\ SF_vars(Booting(ApGivesAddress))

-----------------------------------------------------------------------------
(* Properties.                                                              *)

Phases == Kinds \cup {"boot", "idle", "send", "receive", "stalled", "unlink", "codec", "coding",
                     "hung"}
Statuses == {"lost", "200", "303", "307", "400", "404", "500"}

\* Each file of /data is a part of an upload of its name that was small enough, /zip
\* holds nothing but results of the codec, and the server is at a point of the code.
TypeOK ==
  /\ \A n \in Paths :
       /\ data[n] # Absent => /\ data[n].of.name = n /\ data[n].of.size <= MaxSize
                              /\ data[n].have \in 0..data[n].of.size
       /\ zip[n] \notin {Absent, Part} => zip[n] = Compressed(zip[n].of)
  /\ handler \in Clients \cup {None} /\ phase \in Phases /\ position \in 0..MaxSize
  /\ StationTypeOK
  /\ IF phase \in {"boot", "idle"} THEN handler = None ELSE request[handler] # None
  /\ answer # None => answer.status \in Statuses
  /\ requests \in 0..MaxRequests /\ faults \subseteq AllFaults

WholeUpload(file) == file.have = file.of.size

\* file_server.c:567-580, 628-645: unless the chip restarted or flash failed without
\* the handlers noticing, a compressed file is there only beside its source, and is
\* the compressed form of all of it. A name that is used again never shows the
\* compressed form of the file that had it before.
CompressedMatches ==
  phase = "idle" /\ faults \cap {"restart", "unlink", "close"} = {} =>
    \A n \in Asked : zip[WithExtension(n)] # Absent =>
      /\ data[n] # Absent /\ WholeUpload(data[n])
      /\ zip[WithExtension(n)] = Compressed(data[n])

\* file_server.c:490: however an upload ends, no unfinished file stays, unless the
\* chip restarted or fclose or unlink failed.
NoUnfinishedFile ==
  faults \cap {"restart", "close", "unlink"} = {} =>
    \A n \in Paths :
      \/ data[n] = Absent \/ WholeUpload(data[n])
      \/ phase \in {"receive", "stalled"} /\ Name = n

\* file_server.c:443: an upload never replaces another; the name must be deleted first.
NeverReplaced ==
  [][\A n \in Paths : data[n] # Absent /\ data'[n] # Absent
                        => data'[n].of = data[n].of]_vars

\* A download that a client takes for complete is of a file that was uploaded, in full,
\* under the name it asked for, or of the compressed form of such a file, unless the
\* chip restarted or fclose or unlink failed; and it is all of that file, unless fread
\* failed or the client was slow.
DownloadSound ==
  answer # None /\ answer.file # Absent /\ faults \cap {"restart", "unlink", "close"} = {} =>
    LET n == answer.to.name
        f == answer.file
    IN  /\ f # Part /\ answer.have <= f.have
        /\ faults \cap {"slow", "flash"} = {} => answer.have = f.have
        /\ IF ContainsExtension(n)
             THEN WithExtension(f.of.of.name) = n /\ WholeUpload(f.of)
             ELSE f.of.name = n /\ WholeUpload(f)

\* The store a client sees: an upload is kept from its answer on, a compressed form
\* once the codec is done, and both are gone when the deletion has begun.
Uploading(n) == phase \in {"receive", "stalled"} /\ Name = n
Unsettled(n) == phase \in {"unlink", "coding"} /\ Name = n

StoredUpload(n) ==
  IF data[n] = Absent \/ Uploading(n) THEN Absent
  ELSE IF WholeUpload(data[n]) THEN data[n].of ELSE Part

CompressedUpload(n) ==
  LET z == zip[WithExtension(n)]
  IN  IF z = Absent \/ Unsettled(n) THEN Absent
      ELSE IF data[n] # Absent /\ z = Compressed(data[n]) THEN StoredUpload(n) ELSE Part

UploadsOf(n) ==
  [kind : {"upload"}, name : {n}, size : {s \in Sizes \cup {0} : s <= MaxSize},
   id : 0..MaxRequests]

Store == INSTANCE FileStore WITH
  Names      <- Asked,
  Uploads    <- [n \in Asked |-> UploadsOf(n)],
  stored     <- [n \in Asked |-> StoredUpload(n)],
  compressed <- [n \in Asked |-> CompressedUpload(n)],
  damaged    <- faults \cap {"restart", "unlink", "close"} # {}

\* Requests of several clients, each made of many steps on two partitions, look like
\* single steps on one store: no upload is seen in part, none appears, changes or
\* goes without a request of its own, and nothing of a deleted file meets a later one
\* of its name.
ActsAsStore == Store!Spec

\* main.c:144-163, 238: the server is started, however often the access point refuses
\* or is lost, since the chip restarts after the last retry.
ServerComesUp == phase = "boot" ~> (phase # "boot" \/ "flash" \in faults)

\* main.c:47, Kconfig.projbuild:19: the start-up gives up only when the first attempt
\* and MaxRetry more have failed, none of them having brought an address.
GivesUpAfterRetries ==
  [][station.stage = "waiting" /\ station'.stage = "init"
       => station.failures = MaxRetry + 1]_vars

\* Every request is answered or its connection ends, whatever the other clients do,
\* except in two states that no request leaves: a client stalls in the middle of its
\* upload, or the server waits for a notification that does not come.
NobodyServed ==
  \/ phase = "stalled" /\ "stall" \in faults
  \/ phase = "hung" /\ faults \cap {"memory", "early"} # {}

EveryRequestAnswered ==
  \A c \in Clients : request[c] # None ~> (request[c] = None \/ NobodyServed)

\* file_server.c:313: a download is answered with 404 only if no such file is kept.
KeptIsServed ==
  answer # None =>
    LET n == answer.to.name
    IN  answer.to.kind = "get" /\ n # <<>> /\ answer.status = "404"
          => data[n] = Absent /\ zip[n] = Absent

=============================================================================
