----------------------- MODULE HttpFileServer_proofs -----------------------
(***************************************************************************)
(* What holds of the http-server example at every moment, for any clients, *)
(* names, sizes and limits and any of the faults.                          *)
(*                                                                         *)
(* The inductive invariant has a part for the partitions, one for the      *)
(* server, one for what is known of the files as long as no fault went     *)
(* unnoticed, and one for the station. Lemmas on what most steps have in   *)
(* common come first, then one for the steps of each handler.              *)
(***************************************************************************)
EXTENDS HttpFileServer, WifiStation_proofs

\* A file of /data is a part of an upload of its name; a file of /zip is the output of
\* the codec.
Files ==
  /\ data \in [Paths -> {Absent} \cup Uploaded]
  /\ zip \in [Paths -> {Absent, Part} \cup [of : Uploaded, have : {1}]]
  /\ \A n \in Paths : data[n] # Absent =>
       /\ data[n].of.name = n /\ data[n].of.size <= MaxSize
       /\ data[n].have <= data[n].of.size

\* Only a download asks for a page of the program.
Requests ==
  /\ request \in [Clients -> {None} \cup Requested]
  /\ \A c \in Clients : request[c] # None =>
       /\ request[c].kind # "get" => request[c].name \in Asked
       /\ request[c].size \in Sizes \cup {0} /\ request[c].id <= MaxRequests
  /\ requests \in 0..MaxRequests /\ faults \subseteq AllFaults
  /\ answer # None => answer.status \in Statuses

\* Where a handler is, what it was asked, and what it knows of its file there.
Working == phase \notin {"boot", "idle"}

Task ==
  /\ phase \in Phases
  /\ IF Working THEN handler \in Clients /\ request[handler] # None ELSE handler = None
  /\ phase \in Kinds => Req.kind = phase
  /\ phase \notin {"send", "receive", "stalled"} => position = 0

Sending == phase = "send" =>
  /\ Req.kind = "get" /\ Selected(Name) # Absent
  /\ position \in 0..Length(Selected(Name))

Receiving == phase \in {"receive", "stalled"} =>
  /\ Req.kind = "upload" /\ Req.size <= MaxSize /\ position \in 0..Req.size
  /\ data[Name] = Stored(Req, position)

Deleting == phase = "unlink" =>
  Req.kind = "delete" /\ (data[Name] = Absent \/ "unlink" \in faults)

Compressing == phase \in {"codec", "coding", "hung"} =>
  /\ Req.kind = "compress" /\ data[Name] # Absent
  /\ phase = "coding" => zip[DstPath] = Part

Server == Task /\ Sending /\ Receiving /\ Deleting /\ Compressing

\* No fault has changed a file without the server's noticing.
Intact == faults \cap {"restart", "unlink", "close"} = {}

\* fclose or unlink has left what should not be there.
Spoiled == faults \cap {"close", "unlink"} # {}

Coding(n) == phase = "coding" /\ Name = n
Unlinking(n) == phase = "unlink" /\ Name = n

\* A compressed file is beside the whole upload it was made of, but for the moments in
\* which a handler replaces or removes it.
Beside == Intact =>
  \A n \in Asked : zip[WithExtension(n)] # Absent =>
    \/ /\ data[n] # Absent /\ WholeUpload(data[n]) /\ ~Uploading(n)
       /\ zip[WithExtension(n)] = Compressed(data[n])
    \/ Coding(n) \/ Unlinking(n)

\* Under whatever name it is asked for, a compressed file is of that name, and whole.
Outputs == Intact =>
  \A k \in Paths :
    /\ zip[k] = Part => \E n \in Asked : WithExtension(n) = k /\ Coding(n)
    /\ zip[k] \notin {Absent, Part} =>
         WithExtension(zip[k].of.of.name) = k /\ WholeUpload(zip[k].of)

Joined == StationInv /\ (phase # "boot" => StationUp)

Inv == /\ Files /\ Requests /\ Server /\ NoUnfinishedFile /\ Beside /\ Outputs
       /\ DownloadSound /\ Joined

-----------------------------------------------------------------------------
(* Names.                                                                   *)

\* Every name that is asked for, and its compressed name, is a path of the model, and
\* two names have different compressed names.
LEMMA NamesAndPaths ==
  /\ Asked \subseteq Paths /\ BuiltIn \subseteq Paths
  /\ \A n \in Asked : WithExtension(n) \in Paths
  /\ \A m, n \in Asked : WithExtension(m) = WithExtension(n) => m = n
<1> DEFINE W == STRING \cup {"a", ".br"}
<1>1. \A n \in Seq(W) : WithExtension(n) \in Seq(W)
  <2>1. ".br" \in W
    OBVIOUS
  <2> HIDE DEF W
  <2> QED
    BY <2>1 DEF WithExtension
<1>2. LongName \in Seq(W)
  <2>1. "a" \in W /\ MaxName + 1 \in Nat
    BY ConstantsAssumption
  <2>2. \A x \in W : \A n \in Nat : [i \in 1..n |-> x] \in Seq(W)
    OBVIOUS
  <2> HIDE DEF W
  <2> QED
    BY <2>1, <2>2 DEF LongName
<1>3. Asked \subseteq Seq(W)
  <2>1. STRING \subseteq W
    OBVIOUS
  <2> HIDE DEF W
  <2>2. \A n \in Seq(STRING) : n \in Seq(W)
    BY <2>1, SeqMonotonic
  <2> QED
    BY <1>1, <1>2, <2>2, EmptySeq, ConstantsAssumption DEF Asked
<1>4. ASSUME NEW m \in Seq(W), NEW n \in Seq(W), WithExtension(m) = WithExtension(n)
      PROVE  m = n
  <2> HIDE DEF W
  <2>1. Len(m) = Len(n)
    BY <1>4 DEF WithExtension
  <2>2. \A i \in 1..Len(m) : m[i] = n[i]
    BY <1>4, <2>1 DEF WithExtension
  <2> QED
    BY <2>1, <2>2, SeqEqual
<1> QED
  BY <1>3, <1>4 DEF Paths

-----------------------------------------------------------------------------
(* What steps have in common.                                               *)

\* A request at work is one that a client can send.
LEMMA AtWork ==
  ASSUME Requests, Task, Working
  PROVE  /\ handler \in Clients /\ Req \in Requested /\ Name \in Paths
         /\ Req.kind # "get" => Name \in Asked
         /\ Req.size \in Sizes \cup {0} /\ Req.size \in Nat /\ Req.id <= MaxRequests
<1>1. handler \in Clients /\ Req # None
  BY DEF Task, Req
<1>2. Req \in Requested
  BY <1>1 DEF Requests, Req
<1>3. Req.name \in Asked \cup BuiltIn /\ Req.size \in Nat
  BY <1>2 DEF Requested
<1> QED
  BY <1>1, <1>2, <1>3, NamesAndPaths DEF Requests, Req, Name

\* Faults add up.
Grows == /\ faults \subseteq faults' /\ faults' \subseteq AllFaults
         /\ requests' = requests

\* What has failed is not forgotten by a step of the handlers.
LEMMA FaultsAddUp ==
  ASSUME Requests
  PROVE  /\ UNCHANGED history => Grows
         /\ \A kinds : Faulty(kinds) => Grows /\ kinds \subseteq faults'
         /\ \A f : Fault(f) => Grows /\ f \in faults'
BY ConstantsAssumption DEF Requests, Grows, Fault, Faulty, history

\* A handler that returns leaves the server idle.
LEMMA Returns ==
  ASSUME Requests, Task, Working, Grows, NEW s \in Statuses, NEW f, Return(s, f)
  PROVE  Requests' /\ Server' /\ phase' = "idle"
<1>1. phase' = "idle" /\ handler' = None /\ position' = 0
  BY DEF Return
<1>2. handler \in Clients /\ request' = [request EXCEPT ![handler] = None]
  BY AtWork DEF Return
<1>3. request' \in [Clients -> {None} \cup Requested]
  BY <1>2 DEF Requests
<1>4. answer'.status = s
  BY DEF Return
<1>5. Requests'
  BY <1>2, <1>3, <1>4 DEF Requests, Grows
<1>6. Task'
  BY <1>1 DEF Task, Working, Phases, Kinds
<1> QED
  BY <1>1, <1>5, <1>6 DEF Server, Sending, Receiving, Deleting, Compressing

\* A step that leaves the files alone and comes no nearer to changing one.
LEMMA Undisturbed ==
  ASSUME Files, NoUnfinishedFile, Beside, Outputs, UNCHANGED flash, faults \subseteq faults',
         \A n \in Paths : Uploading(n)' <=> Uploading(n),
         \A n \in Paths : Coding(n)' <=> Coding(n),
         \A n \in Paths : Unlinking(n)' <=> Unlinking(n)
  PROVE  Files' /\ NoUnfinishedFile' /\ Beside' /\ Outputs'
<1> USE DEF flash
<1>1. Files'
  BY DEF Files
<1>2. NoUnfinishedFile'
  BY DEF NoUnfinishedFile, Uploading, WholeUpload
<1>3. Beside'
  BY NamesAndPaths DEF Beside, Intact, WholeUpload, Compressed
<1>4. Outputs'
  BY NamesAndPaths DEF Outputs, Intact, WholeUpload
<1> QED
  BY <1>1, <1>2, <1>3, <1>4

\* In particular one that neither begins nor ends in a phase that changes files.
LEMMA Aside ==
  ASSUME Files, NoUnfinishedFile, Beside, Outputs, UNCHANGED flash, faults \subseteq faults',
         phase \notin {"receive", "stalled", "coding", "unlink"},
         phase' \notin {"receive", "stalled", "coding", "unlink"}
  PROVE  Files' /\ NoUnfinishedFile' /\ Beside' /\ Outputs'
BY Undisturbed DEF Uploading, Coding, Unlinking

\* Only the answer to a download carries a file.
LEMMA Answered ==
  ASSUME DownloadSound, faults \subseteq faults',
         answer' \in {answer, None} \/ (answer'.file = Absent)
  PROVE  DownloadSound'
BY DEF DownloadSound, WholeUpload

\* A handler that answers without a file, before it has changed any.
LEMMA Answers ==
  ASSUME Inv, Working, phase \notin {"receive", "stalled", "coding", "unlink"},
         Grows, UNCHANGED <<flash, station>>, NEW s \in Statuses, Answer(s)
  PROVE  Inv'
<1>1. Requests' /\ Server' /\ phase' = "idle"
  BY Returns DEF Inv, Server, Answer
<1>2. Files' /\ NoUnfinishedFile' /\ Beside' /\ Outputs'
  BY <1>1, Aside DEF Inv, Grows
<1>3. DownloadSound'
  BY Answered DEF Inv, Grows, Answer, Return
<1>4. Joined'
  BY DEF Inv, Joined, Working, StationInv, Stations, Retries, Caught, Outside, StationUp
<1> QED
  BY <1>1, <1>2, <1>3, <1>4 DEF Inv

\* A handler that goes on.
LEMMA GoesOn ==
  ASSUME Requests, Task, Working, Grows, NEW p, Continue(p)
  PROVE  /\ Requests' /\ Req' = Req /\ Name' = Name /\ position' = position
         /\ handler' = handler /\ request' = request /\ answer' = answer /\ phase' = p
BY DEF Continue, clients, Requests, Grows, Req, Name

\* A file that a download finds has at most as many blocks as an upload may have.
LEMMA Lengths ==
  ASSUME Files, NEW n \in Paths, Selected(n) # Absent
  PROVE  /\ Length(Selected(n)) \in 0..MaxSize
         /\ ~ContainsExtension(n) => data[n] \in Uploaded /\ data[n] # Part
<1>1. CASE ContainsExtension(n)
  BY <1>1, ConstantsAssumption DEF Selected, Length, Files
<1>2. CASE ~ContainsExtension(n)
  <2>1. data[n] \in Uploaded /\ data[n] # Part /\ data[n].of.size <= MaxSize
                             /\ data[n].have <= data[n].of.size
    BY <1>2, ValuesAssumption DEF Selected, Files
  <2>2. data[n].have \in Nat /\ data[n].of.size \in Nat
    BY <2>1 DEF Uploaded, Requested
  <2> QED
    BY <1>2, <2>1, <2>2, ConstantsAssumption DEF Selected, Length
<1> QED
  BY <1>1, <1>2

-----------------------------------------------------------------------------
(* The steps of the handlers.                                               *)

\* A chip that boots with empty partitions.
LEMMA InitInv == Init => Inv
<1> SUFFICES ASSUME Init PROVE Inv
  OBVIOUS
<1>1. Files
  BY DEF Init, Files
<1>2. Requests
  BY ConstantsAssumption DEF Init, Requests
<1>3. Server
  BY DEF Init, Server, Task, Working, Phases, Kinds, Sending, Receiving, Deleting, Compressing
<1>4. NoUnfinishedFile /\ Beside /\ Outputs
  BY NamesAndPaths, ValuesAssumption DEF Init, NoUnfinishedFile, Beside, Outputs
<1>5. DownloadSound /\ Joined
  BY StationBegins DEF Init, DownloadSound, Joined
<1> QED
  BY <1>1, <1>2, <1>3, <1>4, <1>5 DEF Inv

\* A request that is answered with an error before anything is touched.
LEMMA RefuseInv == Inv /\ Refuse /\ UNCHANGED station => Inv'
<1> SUFFICES ASSUME Inv, Refuse, UNCHANGED station PROVE Inv'
  OBVIOUS
<1>1. phase \in Kinds
  BY DEF Refuse, Kinds
<1>2. Working /\ phase \notin {"receive", "stalled", "coding", "unlink"}
  BY <1>1 DEF Working, Kinds
<1>3. Grows /\ UNCHANGED flash /\ \E s \in {"400", "500"} : Answer(s)
  BY FaultsAddUp DEF Refuse, Inv
<1> QED
  BY <1>2, <1>3, Answers DEF Statuses

\* download_get_handler changes no file. What it answers with is all of the file it
\* selected, since nothing changes a file while it sends one.
LEMMA GetInv == Inv /\ Get /\ UNCHANGED station => Inv'
<1> SUFFICES ASSUME Inv, Get, UNCHANGED station PROVE Inv'
  OBVIOUS
<1>1. phase \in {"get", "send"} /\ UNCHANGED flash
  BY DEF Get, List, NotFound, Open, SendChunk, Finish, SendFails, flash
<1>2. Working /\ phase \notin {"receive", "stalled", "coding", "unlink"}
  BY <1>1 DEF Working
<1>3. /\ Requests /\ Task /\ Working /\ Req \in Requested /\ Name \in Paths
      /\ handler \in Clients /\ Req # None
  BY <1>2, AtWork DEF Inv, Server, Task, Req
<1>4. Grows
  BY <1>3, FaultsAddUp DEF Get, List, NotFound, Open, SendChunk, Finish, SendFails, history
<1>5. Joined'
  BY <1>2 DEF Inv, Joined, Working, StationInv, Stations, Retries, Caught, Outside, StationUp
<1>6. ASSUME NEW s \in Statuses, Answer(s) PROVE Inv'
  BY <1>1, <1>2, <1>4, <1>6, Answers
<1>7. ASSUME phase' = "send" PROVE Files' /\ NoUnfinishedFile' /\ Beside' /\ Outputs'
  BY <1>1, <1>2, <1>4, <1>7, Aside DEF Inv, Grows
<1>8. CASE List
  BY <1>6, <1>8 DEF List, Statuses
<1>9. CASE NotFound
  BY <1>6, <1>9 DEF NotFound, Statuses
<1>10. CASE Open
  <2>1. CASE Answer("500")
    BY <1>6, <2>1 DEF Statuses
  <2>2. CASE Continue("send")
    <3>1. /\ Requests' /\ Req' = Req /\ Name' = Name /\ phase' = "send"
          /\ position' = position /\ handler' = handler /\ request' = request /\ answer' = answer
      BY <1>3, <1>4, <2>2, GoesOn
    <3>2. Req.kind = "get" /\ position = 0
      BY <1>10 DEF Open, Inv, Server, Task, Kinds
    <3>3. Task'
      BY <1>3, <3>1 DEF Task, Working, Phases, Kinds
    <3>4. Sending'
      <4>1. Selected(Name) # Absent /\ 0 \in 0..Length(Selected(Name))
        BY <1>3, <1>10, Lengths DEF Open, Inv
      <4>2. \A n : Selected(n)' = Selected(n)
        BY <1>1 DEF Selected, flash
      <4> QED
        BY <3>1, <3>2, <4>1, <4>2 DEF Sending
    <3>5. Server'
      BY <3>1, <3>3, <3>4 DEF Server, Receiving, Deleting, Compressing
    <3>6. DownloadSound'
      BY <1>4, <3>1, Answered DEF Inv, Grows
    <3> QED
      BY <1>5, <1>7, <3>1, <3>5, <3>6 DEF Inv
  <2> QED
    BY <1>10, <2>1, <2>2 DEF Open
<1>11. ASSUME phase = "send"
       PROVE  /\ Req.kind = "get" /\ Selected(Name) # Absent
              /\ position \in 0..Length(Selected(Name)) /\ Length(Selected(Name)) \in 0..MaxSize
  BY <1>3, <1>11, Lengths DEF Inv, Server, Sending
<1>12. CASE SendChunk
  <2>1. /\ phase = "send" /\ phase' = "send" /\ position' = position + 1
        /\ position < Length(Selected(Name))
        /\ Req' = Req /\ Name' = Name /\ handler' = handler /\ request' = request /\ answer' = answer
    BY <1>12 DEF SendChunk, Req, Name, clients
  <2>2. Requests'
    BY <1>4, <2>1 DEF Inv, Requests, Grows
  <2>3. Task'
    BY <1>3, <2>1 DEF Task, Working, Phases, Kinds
  <2>4. Sending'
    <3>1. \A n : Selected(n)' = Selected(n)
      BY <1>1 DEF Selected, flash
    <3>2. position + 1 \in 0..Length(Selected(Name))
      BY <1>11, <2>1
    <3> QED
      BY <1>11, <2>1, <3>1, <3>2 DEF Sending
  <2>5. Server'
    BY <2>1, <2>3, <2>4 DEF Server, Receiving, Deleting, Compressing
  <2>6. DownloadSound'
    BY <1>4, <2>1, Answered DEF Inv, Grows
  <2> QED
    BY <1>5, <1>7, <2>1, <2>2, <2>5, <2>6 DEF Inv
<1>13. ASSUME phase = "send", Complete,
              EndOfFile \/ faults' \cap {"slow", "flash"} # {}
       PROVE  Inv'
  <2>1. Return("200", Selected(Name))
    BY <1>13 DEF Complete
  <2>2. Requests' /\ Server' /\ phase' = "idle"
    BY <1>3, <1>4, <2>1, Returns DEF Statuses
  <2>3. Files' /\ NoUnfinishedFile' /\ Beside' /\ Outputs'
    BY <1>1, <1>2, <1>4, <2>2, Aside DEF Inv, Grows
  <2>4. DownloadSound'
    <3>1. SUFFICES ASSUME faults' \cap {"restart", "unlink", "close"} = {}
                   PROVE  LET f == Selected(Name)
                          IN  /\ f # Part /\ position <= f.have
                              /\ faults' \cap {"slow", "flash"} = {} => position = f.have
                              /\ IF ContainsExtension(Name)
                                   THEN WithExtension(f.of.of.name) = Name /\ WholeUpload(f.of)
                                   ELSE f.of.name = Name /\ WholeUpload(f)
      <4>1. answer'.to.name = Name /\ answer'.file = Selected(Name) /\ answer'.have = position
        BY <2>1 DEF Return, Name
      <4> QED
        BY <4>1 DEF DownloadSound, WholeUpload
    <3>2. faults \cap {"restart", "unlink", "close"} = {} /\ Intact
      BY <1>4, <3>1 DEF Grows, Intact
    <3>3. /\ Selected(Name) # Absent /\ position <= Length(Selected(Name))
          /\ faults' \cap {"slow", "flash"} = {} => position = Length(Selected(Name))
      BY <1>11, <1>13 DEF EndOfFile
    <3>4. CASE ContainsExtension(Name)
      <4>1. Selected(Name) = zip[Name] /\ zip[Name] # Absent
        BY <3>3, <3>4 DEF Selected
      <4>2. zip[Name] # Part
        BY <1>3, <1>13, <3>2 DEF Inv, Outputs, Coding
      <4>3. WithExtension(zip[Name].of.of.name) = Name /\ WholeUpload(zip[Name].of)
        BY <1>3, <3>2, <4>1, <4>2 DEF Inv, Outputs
      <4> QED
        BY <3>3, <3>4, <4>1, <4>2, <4>3 DEF Length
    <3>5. CASE ~ContainsExtension(Name)
      <4>1. Selected(Name) = data[Name] /\ data[Name] # Absent /\ data[Name] # Part
        BY <1>3, <3>3, <3>5, Lengths DEF Selected, Inv
      <4>2. data[Name].of.name = Name
        BY <1>3, <4>1 DEF Inv, Files
      <4>3. WholeUpload(data[Name])
        BY <1>3, <1>13, <3>2, <4>1 DEF Inv, NoUnfinishedFile
      <4> QED
        BY <3>3, <3>5, <4>1, <4>2, <4>3 DEF Length
    <3> QED
      BY <3>4, <3>5
  <2> QED
    BY <1>5, <2>2, <2>3, <2>4 DEF Inv
<1>14. CASE Finish
  BY <1>3, <1>13, <1>14, FaultsAddUp DEF Finish
<1>15. CASE SendFails
  <2>1. CASE Fault("slow") /\ Complete
    BY <1>3, <1>13, <1>15, <2>1, FaultsAddUp DEF SendFails
  <2>2. CASE Answer("lost")
    BY <1>6, <2>2 DEF Statuses
  <2> QED
    BY <1>15, <2>1, <2>2 DEF SendFails
<1> QED
  BY <1>8, <1>9, <1>10, <1>12, <1>14, <1>15 DEF Get

\* A step that changes nothing but the file of one upload, which has no compressed form
\* yet, and leaves it whole unless the upload goes on.
LEMMA Writes ==
  ASSUME Files, NoUnfinishedFile, Beside, Outputs, NEW n \in Asked, NEW v,
         faults \subseteq faults', zip' = zip, data' = [data EXCEPT ![n] = v],
         v \in {Absent} \cup Uploaded,
         v # Absent => v.of.name = n /\ v.of.size <= MaxSize /\ v.have <= v.of.size,
         Intact => zip[WithExtension(n)] = Absent,
         v = Absent \/ WholeUpload(v) \/ Uploading(n)' \/ Spoiled',
         \A m \in Paths : m # n => ~Uploading(m) /\ ~Uploading(m)',
         \A m \in Paths : ~Coding(m) /\ ~Coding(m)' /\ ~Unlinking(m)
  PROVE  Files' /\ NoUnfinishedFile' /\ Beside' /\ Outputs'
<1>1. n \in Paths
  BY NamesAndPaths
<1>2. data'[n] = v /\ \A m \in Paths : m # n => data'[m] = data[m]
  BY <1>1 DEF Files
<1>3. Files'
  BY <1>1, <1>2 DEF Files
<1>4. NoUnfinishedFile'
  BY <1>2 DEF NoUnfinishedFile, Uploading, WholeUpload, Spoiled
<1>5. Beside'
  <2> SUFFICES ASSUME Intact', NEW m \in Asked, zip'[WithExtension(m)] # Absent
               PROVE  /\ data'[m] # Absent /\ WholeUpload(data'[m]) /\ ~Uploading(m)'
                      /\ zip'[WithExtension(m)] = Compressed(data'[m])
    BY DEF Beside, WholeUpload, Compressed
  <2>1. Intact
    BY DEF Intact
  <2>2. m # n /\ m \in Paths
    BY <2>1, NamesAndPaths
  <2> QED
    BY <1>2, <2>1, <2>2 DEF Beside
<1>6. Outputs'
  BY NamesAndPaths DEF Outputs, Intact, WholeUpload
<1> QED
  BY <1>3, <1>4, <1>5, <1>6

\* upload_post_handler changes no file but that of its own upload, and leaves it whole or
\* takes it away again.
LEMMA UploadInv == Inv /\ Upload /\ UNCHANGED station => Inv'
<1> SUFFICES ASSUME Inv, Upload, UNCHANGED station PROVE Inv'
  OBVIOUS
<1>1. phase \in {"upload", "receive", "stalled"} /\ Working
  BY DEF Upload, BadUpload, Create, Receive, Stall, Resume, ReceiveFails, EndUpload, Working
<1>2. /\ Requests /\ Task /\ Req \in Requested /\ Name \in Paths /\ handler \in Clients
      /\ Req # None /\ Req.size \in Nat
  BY <1>1, AtWork DEF Inv, Server, Task, Req
<1>3. Req.kind = "upload" /\ Name \in Asked
  BY <1>1, <1>2, AtWork DEF Inv, Server, Task, Receiving, Kinds
<1>4. Grows
  BY <1>2, FaultsAddUp DEF Upload, BadUpload, Create, Receive, Stall, Resume, ReceiveFails, Unlink, EndUpload,
     history
<1>5. Joined'
  BY <1>1 DEF Inv, Joined, Working, StationInv, Stations, Retries, Caught, Outside, StationUp
<1>6. ASSUME phase \in {"receive", "stalled"}
      PROVE  /\ Req.size <= MaxSize /\ position \in 0..Req.size
             /\ data[Name] = Stored(Req, position)
             /\ Intact => zip[WithExtension(Name)] = Absent
  BY <1>3, <1>6 DEF Inv, Server, Receiving, Beside, Uploading, Coding, Unlinking
<1>7. \A m \in Paths : /\ ~Coding(m) /\ ~Unlinking(m) /\ (m # Name => ~Uploading(m))
  BY <1>1 DEF Coding, Unlinking, Uploading
<1>8. \A k \in Nat : k <= Req.size =>
        /\ Stored(Req, k) \in Uploaded /\ Stored(Req, k) # Absent
        /\ Stored(Req, k).of = Req /\ Stored(Req, k).have = k
  BY <1>2, ValuesAssumption DEF Stored, Uploaded
<1>9. Req.name = Name
  BY DEF Name
<1>10. CASE BadUpload
  BY <1>1, <1>4, <1>10, Answers DEF BadUpload, Statuses
<1>11. ASSUME NEW v \in {Absent} \cup Uploaded, zip' = zip, data' = [data EXCEPT ![Name] = v],
              v # Absent => v.of = Req /\ Req.size <= MaxSize /\ v.have <= Req.size,
              Intact => zip[WithExtension(Name)] = Absent,
              phase' \in {"receive", "idle"}, phase' = "receive" => Name' = Name,
              v = Absent \/ v.have = Req.size \/ phase' = "receive" \/ Spoiled'
       PROVE  Files' /\ NoUnfinishedFile' /\ Beside' /\ Outputs'
  <2>1. PICK n \in Asked : n = Name
    BY <1>3
  <2>2. \A m \in Paths : ~Coding(m)' /\ (m # n => ~Uploading(m)')
    BY <1>11, <2>1 DEF Coding, Uploading
  <2>3. v = Absent \/ WholeUpload(v) \/ Uploading(n)' \/ Spoiled'
    BY <1>11, <2>1 DEF WholeUpload, Uploading
  <2>4. v # Absent => v.of.name = n /\ v.of.size <= MaxSize /\ v.have <= v.of.size
    BY <1>9, <1>11, <2>1
  <2>5. data' = [data EXCEPT ![n] = v] /\ (Intact => zip[WithExtension(n)] = Absent)
    BY <1>11, <2>1
  <2> QED
    BY <1>4, <1>7, <1>11, <2>1, <2>2, <2>3, <2>4, <2>5, Writes DEF Inv, Grows
<1>12. ASSUME NEW k \in 0..Req.size, Req.size <= MaxSize, data' = [data EXCEPT ![Name] = Stored(Req, k)],
              zip' = zip, phase' = "receive", position' = k, UNCHANGED <<handler, clients>>,
              Intact => zip[WithExtension(Name)] = Absent
       PROVE  Inv'
  <2>1. Req' = Req /\ Name' = Name
    BY <1>12 DEF Req, Name, clients
  <2>2. k \in Nat /\ k <= Req.size
    BY <1>2
  <2>3. Files' /\ NoUnfinishedFile' /\ Beside' /\ Outputs'
    BY <1>8, <1>11, <1>12, <2>1, <2>2
  <2>4. Requests' /\ DownloadSound'
    BY <1>2, <1>4, <1>12, Answered DEF Inv, Requests, Grows, clients
  <2>5. data'[Name] = Stored(Req, k)
    BY <1>2, <1>12 DEF Inv, Files
  <2>6. Task'
    BY <1>2, <1>12, <2>1 DEF Task, Working, Phases, Kinds, Req
  <2>7. Receiving'
    BY <1>3, <1>12, <2>1, <2>5 DEF Receiving, Stored
  <2>8. Server'
    BY <1>12, <2>6, <2>7 DEF Server, Sending, Deleting, Compressing
  <2> QED
    BY <1>5, <2>3, <2>4, <2>8 DEF Inv
<1>13. ASSUME NEW s \in Statuses, Answer(s), zip' = zip, NEW v \in {Absent} \cup Uploaded,
              data' = [data EXCEPT ![Name] = v], phase \in {"receive", "stalled"},
              v # Absent => v.of = Req /\ v.have <= Req.size,
              v = Absent \/ v.have = Req.size \/ Spoiled'
       PROVE  Inv'
  <2>1. Requests' /\ Server' /\ phase' = "idle"
    BY <1>1, <1>2, <1>4, <1>13, Returns DEF Answer
  <2>2. Files' /\ NoUnfinishedFile' /\ Beside' /\ Outputs'
    BY <1>6, <1>11, <1>13, <2>1
  <2>3. DownloadSound'
    BY <1>4, <1>13, Answered DEF Inv, Grows, Answer, Return
  <2> QED
    BY <1>5, <2>1, <2>2, <2>3 DEF Inv
<1>14. CASE Create
  <2>1. CASE Answer("500") /\ UNCHANGED data
    BY <1>1, <1>4, <1>14, <2>1, Answers DEF Create, Statuses, flash
  <2>2. CASE data' = [data EXCEPT ![Name] = Stored(Req, 0)] /\ Continue("receive")
    <3>1. Req.size <= MaxSize /\ data[Name] = Absent /\ position = 0 /\ zip' = zip
      BY <1>2, <1>14, ConstantsAssumption DEF Create, TooLarge, Exists, Task, Inv
    <3>2. Intact => zip[WithExtension(Name)] = Absent
      BY <1>2, <1>3, <1>7, <3>1 DEF Inv, Beside
    <3>3. 0 \in 0..Req.size /\ phase' = "receive" /\ position' = 0 /\ UNCHANGED <<handler, clients>>
      BY <1>2, <2>2, <3>1 DEF Continue
    <3> QED
      BY <1>12, <2>2, <3>1, <3>2, <3>3
  <2> QED
    BY <1>14, <2>1, <2>2 DEF Create
<1>15. CASE Receive
  <2>1. position + 1 \in 0..Req.size
    BY <1>2, <1>6, <1>15 DEF Receive
  <2> QED
    BY <1>6, <1>12, <1>15, <2>1 DEF Receive
<1>16. ASSUME phase \in {"receive", "stalled"}, NEW p \in {"receive", "stalled"}, Continue(p), UNCHANGED flash
       PROVE  Inv'
  <2>1. /\ Requests' /\ Req' = Req /\ Name' = Name /\ phase' = p
        /\ position' = position /\ handler' = handler /\ request' = request /\ answer' = answer
    BY <1>1, <1>2, <1>4, <1>16, GoesOn
  <2>2. Files' /\ NoUnfinishedFile' /\ Beside' /\ Outputs'
    <3>1. \A m \in Paths : Uploading(m)' <=> Uploading(m)
      BY <1>16, <2>1, Zenon DEF Uploading
    <3>2. \A m \in Paths : ~Coding(m)' /\ ~Unlinking(m)'
      BY <1>16, <2>1 DEF Coding, Unlinking
    <3> QED
      BY <1>4, <1>7, <1>16, <3>1, <3>2, Undisturbed DEF Inv, Grows
  <2>3. Task'
    BY <1>2, <1>16, <2>1 DEF Task, Working, Phases, Kinds, Req
  <2>4. Receiving'
    BY <1>3, <1>6, <1>16, <2>1 DEF Receiving, flash, Stored
  <2>5. Server'
    BY <1>16, <2>1, <2>3, <2>4 DEF Server, Sending, Deleting, Compressing
  <2>6. DownloadSound'
    BY <1>4, <2>1, Answered DEF Inv, Grows
  <2> QED
    BY <1>5, <2>1, <2>2, <2>5, <2>6 DEF Inv
<1>17. CASE Stall
  BY <1>16, <1>17 DEF Stall
<1>18. CASE Resume
  BY <1>16, <1>18 DEF Resume
<1>19. CASE ReceiveFails
  <2>1. Answer("lost") \/ Answer("500")
    BY <1>19 DEF ReceiveFails, Abandoned
  <2>2. zip' = zip /\ phase \in {"receive", "stalled"}
    BY <1>19 DEF ReceiveFails
  <2>3. CASE data' = [data EXCEPT ![Name] = Absent]
    BY <1>13, <2>1, <2>2, <2>3 DEF Statuses
  <2>4. CASE UNCHANGED data /\ "unlink" \in faults'
    <3>1. data[Name] = Stored(Req, position) /\ position <= Req.size /\ position \in Nat
      BY <1>2, <1>6, <2>2
    <3>2. data' = [data EXCEPT ![Name] = Stored(Req, position)] /\ Spoiled'
      BY <2>4, <3>1 DEF Inv, Files, Spoiled
    <3> QED
      BY <1>8, <1>13, <2>1, <2>2, <3>1, <3>2 DEF Statuses
  <2>5. \A f : Unlink(f) => \/ data' = [data EXCEPT ![Name] = Absent]
                            \/ UNCHANGED data /\ "unlink" \in faults'
    BY <1>2, FaultsAddUp DEF Unlink, Unlinked
  <2> QED
    BY <1>19, <2>3, <2>4, <2>5 DEF ReceiveFails
<1>20. CASE EndUpload
  <2>1. phase = "receive" /\ position = Req.size /\ Answer("303") /\ zip' = zip
    BY <1>20 DEF EndUpload
  <2>2. data[Name] = Stored(Req, Req.size)
    BY <1>6, <2>1
  <2>3. CASE UNCHANGED data
    <3>1. data' = [data EXCEPT ![Name] = Stored(Req, Req.size)]
      BY <2>2, <2>3 DEF Inv, Files
    <3>2. Req.size <= Req.size /\ "303" \in Statuses
      BY <1>2 DEF Statuses
    <3>3. Stored(Req, Req.size) \in Uploaded /\ Stored(Req, Req.size).of = Req
                                            /\ Stored(Req, Req.size).have = Req.size
      BY <1>2, <1>8, <3>2
    <3> QED
      BY <1>13, <2>1, <3>1, <3>2, <3>3
  <2>4. CASE Fault("close") /\ position > 0 /\ data' = [data EXCEPT ![Name] = Stored(Req, position - 1)]
    <3>1. Spoiled'
      BY <1>2, <2>4, FaultsAddUp DEF Spoiled
    <3>2. position - 1 \in Nat /\ position - 1 <= Req.size
      BY <1>2, <2>1, <2>4
    <3> QED
      BY <1>8, <1>13, <2>1, <2>4, <3>1, <3>2 DEF Statuses
  <2> QED
    BY <1>20, <2>3, <2>4 DEF EndUpload
<1> QED
  BY <1>10, <1>14, <1>15, <1>17, <1>18, <1>19, <1>20 DEF Upload

\* delete_post_handler takes the file away first, and its compressed form next.
LEMMA DeleteInv == Inv /\ Delete /\ UNCHANGED station => Inv'
<1> SUFFICES ASSUME Inv, Delete, UNCHANGED station PROVE Inv'
  OBVIOUS
<1>1. phase \in {"delete", "unlink"} /\ Working
  BY DEF Delete, DeleteSource, DeleteCompressed, Working
<1>2. /\ Requests /\ Task /\ Req \in Requested /\ Name \in Paths /\ handler \in Clients /\ Req # None
  BY <1>1, AtWork DEF Inv, Server, Task, Req
<1>3. Req.kind = "delete" /\ Name \in Asked
  BY <1>1, <1>2, AtWork DEF Inv, Server, Task, Deleting, Kinds
<1>4. Grows
  BY <1>2, FaultsAddUp DEF Delete, DeleteSource, DeleteCompressed, history
<1>5. Joined'
  BY <1>1 DEF Inv, Joined, Working, StationInv, Stations, Retries, Caught, Outside, StationUp
<1>6. \A m \in Paths : ~Coding(m) /\ ~Uploading(m)
  BY <1>1 DEF Coding, Uploading
<1>7. CASE DeleteSource
  <2>1. Continue("unlink") /\ phase = "delete" /\ zip' = zip
    BY <1>7 DEF DeleteSource
  <2>2. /\ Requests' /\ Req' = Req /\ Name' = Name /\ phase' = "unlink"
        /\ position' = position /\ handler' = handler /\ request' = request /\ answer' = answer
    BY <1>1, <1>2, <1>4, <2>1, GoesOn
  <2>3. data'[Name] = Absent \/ "unlink" \in faults'
    BY <1>2, <1>7, FaultsAddUp DEF DeleteSource, Inv, Files
  <2>4. \A m \in Paths : data'[m] \in {data[m], Absent} /\ (m # Name => data'[m] = data[m])
    BY <1>2, <1>7 DEF DeleteSource, Inv, Files
  <2>5. \A m \in Paths : ~Coding(m)' /\ ~Uploading(m)'
    BY <2>2 DEF Coding, Uploading
  <2>6. Files'
    BY <1>2, <1>7, <2>1 DEF DeleteSource, Inv, Files
  <2>7. NoUnfinishedFile'
    BY <1>4, <1>6, <2>4, <2>5 DEF Inv, NoUnfinishedFile, Uploading, WholeUpload, Grows
  <2>8. Beside'
    <3> SUFFICES ASSUME Intact', NEW m \in Asked, zip'[WithExtension(m)] # Absent, ~Unlinking(m)'
                 PROVE  /\ data'[m] # Absent /\ WholeUpload(data'[m]) /\ ~Uploading(m)'
                        /\ zip'[WithExtension(m)] = Compressed(data'[m])
      BY DEF Beside, WholeUpload, Compressed
    <3>1. Intact /\ m \in Paths /\ m # Name
      BY <1>4, <2>2, NamesAndPaths DEF Intact, Grows, Unlinking
    <3>2. ~Unlinking(m)
      BY <2>1 DEF Unlinking
    <3> QED
      BY <1>6, <2>1, <2>4, <2>5, <3>1, <3>2 DEF Inv, Beside
  <2>9. Outputs'
    BY <1>4, <1>6, <2>1, NamesAndPaths DEF Inv, Outputs, Intact, WholeUpload, Grows
  <2>10. Task'
    BY <1>2, <2>1, <2>2 DEF Task, Working, Phases, Kinds, Req
  <2>11. Server'
    BY <1>3, <2>2, <2>3, <2>10 DEF Server, Sending, Receiving, Deleting, Compressing
  <2>12. DownloadSound'
    BY <1>4, <2>2, Answered DEF Inv, Grows
  <2> QED
    BY <1>5, <2>2, <2>6, <2>7, <2>8, <2>9, <2>11, <2>12 DEF Inv
<1>8. CASE DeleteCompressed
  <2>1. Answer("303") /\ phase = "unlink" /\ data' = data
    BY <1>8 DEF DeleteCompressed
  <2>2. Requests' /\ Server' /\ phase' = "idle"
    BY <1>1, <1>2, <1>4, <2>1, Returns DEF Answer, Statuses
  <2>3. WithExtension(Name) \in Paths
    BY <1>3, NamesAndPaths
  <2>4. /\ \A k \in Paths : /\ zip'[k] \in {zip[k], Absent}
                            /\ k # WithExtension(Name) => zip'[k] = zip[k]
        /\ zip'[WithExtension(Name)] = Absent \/ "unlink" \in faults'
    BY <1>2, <1>8, <2>3, FaultsAddUp DEF DeleteCompressed, CompPath, Inv, Files
  <2>5. \A m \in Paths : ~Coding(m)' /\ ~Uploading(m)' /\ ~Unlinking(m)'
    BY <2>2 DEF Coding, Uploading, Unlinking
  <2>6. Files'
    BY <1>8, <2>1, <2>3 DEF DeleteCompressed, CompPath, Inv, Files
  <2>7. NoUnfinishedFile'
    BY <1>4, <1>6, <2>1, <2>5 DEF Inv, NoUnfinishedFile, Uploading, WholeUpload, Grows
  <2>8. Beside'
    <3> SUFFICES ASSUME Intact', NEW m \in Asked, zip'[WithExtension(m)] # Absent
                 PROVE  /\ data'[m] # Absent /\ WholeUpload(data'[m]) /\ ~Uploading(m)'
                        /\ zip'[WithExtension(m)] = Compressed(data'[m])
      BY DEF Beside, WholeUpload, Compressed
    <3>1. Intact /\ m \in Paths /\ WithExtension(m) \in Paths
      BY <1>4, NamesAndPaths DEF Intact, Grows
    <3>2. zip'[WithExtension(Name)] = Absent
      BY <2>4 DEF Intact
    <3>3. zip'[WithExtension(m)] = zip[WithExtension(m)] /\ ~Unlinking(m)
      BY <2>4, <3>1, <3>2 DEF Unlinking
    <3> QED
      BY <1>6, <2>1, <2>5, <3>1, <3>3 DEF Inv, Beside
  <2>9. Outputs'
    BY <1>4, <1>6, <2>4, NamesAndPaths, ValuesAssumption DEF Inv, Outputs, Intact, WholeUpload, Grows
  <2>10. DownloadSound'
    BY <1>4, <2>1, Answered DEF Inv, Grows, Answer, Return
  <2> QED
    BY <1>5, <2>2, <2>6, <2>7, <2>8, <2>9, <2>10 DEF Inv
<1> QED
  BY <1>7, <1>8 DEF Delete

\* compress_post_handler and comp_task change no file but the compressed form of one that
\* is whole, since no upload is under way.
LEMMA CompressInv == Inv /\ CompressFile /\ UNCHANGED station => Inv'
<1> SUFFICES ASSUME Inv, CompressFile, UNCHANGED station PROVE Inv'
  OBVIOUS
<1>1. phase \in {"compress", "codec", "coding"} /\ Working
  BY DEF CompressFile, Compress, CodecOpens, CodecEnds, Working
<1>2. /\ Requests /\ Task /\ Req \in Requested /\ Name \in Paths /\ handler \in Clients /\ Req # None
  BY <1>1, AtWork DEF Inv, Server, Task, Req
<1>3. Req.kind = "compress" /\ Name \in Asked
  BY <1>1, <1>2, AtWork DEF Inv, Server, Task, Compressing, Kinds
<1>4. Grows /\ data' = data
  BY <1>2, FaultsAddUp DEF CompressFile, Compress, CodecOpens, CodecEnds, CodecSucceeds, CodecFails, history, flash
<1>5. Joined'
  BY <1>1 DEF Inv, Joined, Working, StationInv, Stations, Retries, Caught, Outside, StationUp
<1>6. data[Name] # Absent
  BY <1>1 DEF Inv, Server, Compressing, CompressFile, Compress, CodecOpens, CodecEnds
<1>7. data[Name] \in Uploaded /\ data[Name].of.name = Name
  BY <1>2, <1>6 DEF Inv, Files
<1>8. WithExtension(Name) \in Paths
  BY <1>3, NamesAndPaths
<1>9. \A m \in Paths : ~Unlinking(m) /\ ~Uploading(m)
  BY <1>1 DEF Unlinking, Uploading
<1>10. ASSUME NEW p \in {"codec", "coding", "hung"}, Continue(p),
              p = "coding" => zip' = [zip EXCEPT ![WithExtension(Name)] = Part]
       PROVE  Requests' /\ Server' /\ DownloadSound'
  <2>1. /\ Requests' /\ Req' = Req /\ Name' = Name /\ phase' = p
        /\ position' = position /\ handler' = handler /\ request' = request /\ answer' = answer
    BY <1>1, <1>2, <1>4, <1>10, GoesOn
  <2>2. Task'
    BY <1>1, <1>2, <1>10, <2>1 DEF Task, Working, Phases, Kinds, Req
  <2>3. Compressing'
    BY <1>3, <1>4, <1>6, <1>8, <1>10, <2>1 DEF Compressing, DstPath, Inv, Files
  <2>4. Server'
    BY <1>10, <2>1, <2>2, <2>3 DEF Server, Sending, Receiving, Deleting
  <2>5. DownloadSound'
    BY <1>4, <2>1, Answered DEF Inv, Grows
  <2> QED
    BY <2>1, <2>4, <2>5
<1>11. ASSUME NEW v \in {Absent, Part} \cup [of : Uploaded, have : {1}],
              zip' = [zip EXCEPT ![WithExtension(Name)] = v],
              phase' \in {"coding", "hung", "idle"}, phase' = "coding" => Name' = Name,
              \/ v = Absent \/ v = Compressed(data[Name])
              \/ v = Part /\ phase' = "coding"
              \/ Spoiled'
       PROVE  Files' /\ NoUnfinishedFile' /\ Beside' /\ Outputs'
  <2>1. /\ zip'[WithExtension(Name)] = v
        /\ \A k \in Paths : k # WithExtension(Name) => zip'[k] = zip[k]
    BY <1>8, <1>11 DEF Inv, Files
  <2>2. \A m \in Paths : ~Uploading(m)' /\ ~Unlinking(m)' /\ (m # Name => ~Coding(m) /\ ~Coding(m)')
    BY <1>11 DEF Coding, Uploading, Unlinking
  <2>3. Files'
    BY <1>4, <1>8, <1>11 DEF Inv, Files
  <2>4. NoUnfinishedFile'
    BY <1>4, <1>9, <2>2 DEF Inv, NoUnfinishedFile, Uploading, WholeUpload, Grows
  <2>5. Intact' => Intact /\ WholeUpload(data[Name])
    BY <1>2, <1>4, <1>6, <1>9 DEF Intact, Grows, Inv, NoUnfinishedFile, Uploading
  <2>6. Beside'
    <3> SUFFICES ASSUME Intact', NEW m \in Asked, zip'[WithExtension(m)] # Absent, ~Coding(m)'
                 PROVE  /\ data'[m] # Absent /\ WholeUpload(data'[m]) /\ ~Uploading(m)'
                        /\ zip'[WithExtension(m)] = Compressed(data'[m])
      BY DEF Beside, WholeUpload, Compressed
    <3>1. m \in Paths /\ WithExtension(m) \in Paths /\ Intact
      BY <2>5, NamesAndPaths
    <3>2. CASE m = Name
      <4>1. v = Compressed(data[Name])
        BY <1>11, <2>1, <3>2 DEF Intact, Spoiled, Coding
      <4> QED
        BY <1>4, <1>6, <2>1, <2>2, <2>5, <3>1, <3>2, <4>1
    <3>3. CASE m # Name
      <4>1. zip'[WithExtension(m)] = zip[WithExtension(m)]
        BY <1>3, <2>1, <3>1, <3>3, NamesAndPaths
      <4> QED
        BY <1>4, <1>9, <2>2, <3>1, <3>3, <4>1 DEF Inv, Beside
    <3> QED
      BY <3>2, <3>3
  <2>7. Outputs'
    <3> SUFFICES ASSUME Intact', NEW k \in Paths
                 PROVE  /\ zip'[k] = Part => \E n \in Asked : WithExtension(n) = k /\ Coding(n)'
                        /\ zip'[k] \notin {Absent, Part} =>
                             WithExtension(zip'[k].of.of.name) = k /\ WholeUpload(zip'[k].of)
      BY DEF Outputs, WholeUpload
    <3>1. CASE k = WithExtension(Name)
      <4>1. CASE v = Compressed(data[Name])
        <5>1. v.of = data[Name] /\ v # Part
          BY <1>7, <4>1, ValuesAssumption DEF Compressed
        <5> QED
          BY <1>7, <2>1, <2>5, <3>1, <5>1
      <4>2. CASE v # Compressed(data[Name])
        BY <1>3, <1>11, <2>1, <3>1, <4>2, ValuesAssumption DEF Intact, Spoiled, Coding
      <4> QED
        BY <4>1, <4>2
    <3>2. CASE k # WithExtension(Name)
      <4>1. zip'[k] = zip[k] /\ Intact
        BY <2>1, <2>5, <3>2
      <4>2. \A n \in Asked : WithExtension(n) = k => ~Coding(n)
        BY <3>2 DEF Coding
      <4> QED
        BY <4>1, <4>2 DEF Inv, Outputs
    <3> QED
      BY <3>1, <3>2
  <2> QED
    BY <2>3, <2>4, <2>6, <2>7
<1>12. CASE Compress
  <2>1. PICK p \in {"codec", "hung"} : Continue(p)
    BY <1>12 DEF Compress
  <2>2. UNCHANGED flash /\ phase = "compress" /\ phase' = p
    BY <1>12, <2>1 DEF Compress, Continue
  <2>3. Files' /\ NoUnfinishedFile' /\ Beside' /\ Outputs'
    BY <1>4, <2>1, <2>2, Aside DEF Inv, Grows
  <2> QED
    BY <1>5, <1>10, <2>1, <2>3 DEF Inv
<1>13. CASE CodecOpens
  <2>1. CASE Continue("coding") /\ zip' = [zip EXCEPT ![DstPath] = Part]
    <3>1. phase' = "coding" /\ Name' = Name
      BY <2>1 DEF Continue, clients, Name, Req
    <3> QED
      BY <1>5, <1>10, <1>11, <2>1, <3>1 DEF Inv, DstPath
  <2>2. CASE Answer("303") /\ UNCHANGED zip
    BY <1>1, <1>4, <1>13, <2>2, Answers DEF CodecOpens, Statuses, flash
  <2> QED
    BY <1>13, <2>1, <2>2 DEF CodecOpens
<1>14. CASE CodecEnds
  <2>1. /\ phase = "coding" /\ zip[WithExtension(Name)] = Part
        /\ Answer("303") \/ Continue("hung")
    <3>1. phase = "coding" /\ zip[WithExtension(Name)] = Part
      BY <1>14 DEF CodecEnds, Inv, Server, Compressing, DstPath
    <3>2. Answer("303") \/ Continue("hung")
      BY <1>14 DEF CodecEnds, CodecSucceeds, CodecFails
    <3> QED
      BY <3>1, <3>2
  <2>2. Requests' /\ Server' /\ phase' \in {"idle", "hung"} /\ DownloadSound'
    <3>1. CASE Answer("303")
      <4>1. Requests' /\ Server' /\ phase' = "idle"
        BY <1>1, <1>2, <1>4, <3>1, Returns DEF Answer, Statuses
      <4>2. DownloadSound'
        BY <1>4, <3>1, Answered DEF Inv, Grows, Answer, Return
      <4> QED
        BY <4>1, <4>2
    <3>2. CASE Continue("hung")
      BY <1>10, <3>2 DEF Continue
    <3> QED
      BY <2>1, <3>1, <3>2
  <2>4. Compressed(data[Name]) \in [of : Uploaded, have : {1}]
    BY <1>7 DEF Compressed
  <2>5. CASE zip' = [zip EXCEPT ![DstPath] = Compressed(data[Name])]
    BY <1>5, <1>11, <2>2, <2>4, <2>5 DEF Inv, DstPath
  <2>6. CASE zip' = [zip EXCEPT ![DstPath] = Discarded]
    BY <1>5, <1>11, <2>2, <2>6 DEF Inv, DstPath, Discarded
  <2>7. CASE UNCHANGED zip /\ (Fault("close") \/ Faulty({"codec", "unlink"}))
    <3>1. zip' = [zip EXCEPT ![WithExtension(Name)] = Part] /\ Spoiled'
      BY <1>2, <2>1, <2>7, FaultsAddUp DEF Inv, Files, Spoiled
    <3> QED
      BY <1>5, <1>11, <2>2, <3>1 DEF Inv
  <2> QED
    BY <1>14, <2>5, <2>6, <2>7 DEF CodecEnds, CodecSucceeds, CodecFails
<1> QED
  BY <1>12, <1>13, <1>14 DEF CompressFile

-----------------------------------------------------------------------------
(* The steps of the clients, of the main loop and of the start-up.          *)

\* A request begins.
LEMMA AskInv == ASSUME Inv, NEW c \in Clients, Ask(c), UNCHANGED station PROVE Inv'
<1>1. PICK kind \in Kinds, n \in Asked \cup BuiltIn, size \in Sizes \cup {0} :
        /\ n \in BuiltIn => kind = "get"
        /\ request' = [request EXCEPT ![c] = Request(kind, n, size)]
  BY DEF Ask
<1>2. /\ phase # "boot" /\ request[c] = None /\ requests < MaxRequests
      /\ requests' = requests + 1 /\ UNCHANGED <<flash, server, answer, faults>>
  BY DEF Ask
<1>3. requests \in Nat /\ request \in [Clients -> {None} \cup Requested]
  BY DEF Inv, Requests
<1>4. Request(kind, n, size) \in Requested
  BY <1>3, ConstantsAssumption DEF Request, Requested
<1>5. Requests'
  <2>1. request' \in [Clients -> {None} \cup Requested]
    BY <1>1, <1>3, <1>4
  <2>2. Request(kind, n, size).kind = kind /\ Request(kind, n, size).name = n
        /\ Request(kind, n, size).size = size /\ Request(kind, n, size).id = requests
    BY DEF Request
  <2>3. ASSUME NEW d \in Clients, request'[d] # None
        PROVE  /\ request'[d].kind # "get" => request'[d].name \in Asked
               /\ request'[d].size \in Sizes \cup {0} /\ request'[d].id <= MaxRequests
    <3>1. CASE d = c
      BY <1>1, <1>2, <1>3, <2>2, <3>1, ConstantsAssumption
    <3>2. CASE d # c
      BY <1>1, <1>3, <2>3, <3>2 DEF Inv, Requests
    <3> QED
      BY <3>1, <3>2
  <2> QED
    BY <1>2, <1>3, <2>1, <2>3, ConstantsAssumption DEF Inv, Requests
<1>6. Working => Req' = Req /\ Name' = Name
  BY <1>1, <1>2, <1>3 DEF Inv, Server, Task, Req, Name, server
<1>7. \A n2 : Selected(n2)' = Selected(n2)
  BY <1>2 DEF Selected, flash
<1>8. Task'
  BY <1>2, <1>6 DEF Inv, Server, Task, server, Working, Req, Kinds, Phases
<1>9. Server'
  BY <1>2, <1>6, <1>7, <1>8 DEF Inv, Server, Sending, Receiving, Deleting, Compressing, DstPath, server, flash,
     Working, Stored
<1>10. Files' /\ NoUnfinishedFile' /\ Beside' /\ Outputs'
  <2>1. \A m \in Paths : /\ Uploading(m)' <=> Uploading(m)
    BY <1>2, <1>6 DEF Uploading, server, Working
  <2>2. \A m \in Paths : Coding(m)' <=> Coding(m)
    BY <1>2, <1>6 DEF Coding, server, Working
  <2>3. \A m \in Paths : Unlinking(m)' <=> Unlinking(m)
    BY <1>2, <1>6 DEF Unlinking, server, Working
  <2> QED
    BY <1>2, <2>1, <2>2, <2>3, Undisturbed DEF Inv
<1>11. DownloadSound' /\ Joined'
  BY <1>2, Answered DEF Inv, Joined, StationInv, Stations, Retries, Caught, Outside, StationUp, server
<1> QED
  BY <1>5, <1>9, <1>10, <1>11 DEF Inv

\* The server takes a request.
LEMMA ServeInv == ASSUME Inv, NEW c \in Clients, Serve(c) PROVE Inv'
<1>1. /\ phase = "idle" /\ request[c] # None /\ handler' = c /\ phase' = request[c].kind
      /\ answer' = None /\ UNCHANGED <<flash, position, request, history, station>>
  BY DEF Serve, Accept
<1>2. request[c] \in Requested /\ request[c].kind \in Kinds
  BY <1>1 DEF Inv, Requests, Requested
<1>3. Requests' /\ DownloadSound'
  BY <1>1, Answered DEF Inv, Requests, history
<1>4. Task'
  BY <1>1, <1>2 DEF Inv, Server, Task, Working, Req, Kinds, Phases
<1>5. Server'
  BY <1>1, <1>2, <1>4 DEF Server, Sending, Receiving, Deleting, Compressing, Kinds
<1>6. Files' /\ NoUnfinishedFile' /\ Beside' /\ Outputs'
  BY <1>1, <1>2, Aside DEF Inv, Kinds, history
<1>7. Joined'
  BY <1>1 DEF Inv, Joined, StationInv, Stations, Retries, Caught, Outside, StationUp
<1> QED
  BY <1>3, <1>5, <1>6, <1>7 DEF Inv

\* The station goes on, during the start-up or after it.
LEMMA StartUpInv == Inv /\ StartUp => Inv'
<1> SUFFICES ASSUME Inv, StartUp PROVE Inv'
  OBVIOUS
<1>1. StationNext /\ UNCHANGED <<flash, server, clients, history>>
  BY DEF StartUp, serverVars
<1>2. StationInv' /\ (StationUp => StationUp')
  <2>1. StationInv'
    BY <1>1, StationSteps DEF Inv, Joined
  <2>2. StationUp => StationUp'
    BY <1>1 DEF StationNext, StationMain, WifiStart, StationStarted, StationAborts, StationHandler,
       OnStationStart, OnStationDisconnected, OnStationGotIp, StationEvent, AccessPoint, ApGivesAddress,
       ApFails, ApDoes, StationUp, Inv, Joined, StationInv, Stations
  <2> QED
    BY <2>1, <2>2
<1>3. Joined'
  BY <1>1, <1>2 DEF Inv, Joined, server
<1>4. Req' = Req /\ Name' = Name
  BY <1>1 DEF Req, Name, clients, server
<1>5. \A n : Selected(n)' = Selected(n)
  BY <1>1 DEF Selected, flash
<1>6. Requests'
  BY <1>1 DEF Inv, Requests, clients, history
<1>7. Server'
  BY <1>1, <1>4, <1>5 DEF Inv, Server, Task, Working, Sending, Receiving, Deleting, Compressing, DstPath, server,
     flash, clients, history, Req, Stored
<1>8. Files' /\ NoUnfinishedFile' /\ Beside' /\ Outputs'
  <2>1. \A m \in Paths : Uploading(m)' <=> Uploading(m)
    BY <1>1, <1>4 DEF Uploading, server
  <2>2. \A m \in Paths : Coding(m)' <=> Coding(m)
    BY <1>1, <1>4 DEF Coding, server
  <2>3. \A m \in Paths : Unlinking(m)' <=> Unlinking(m)
    BY <1>1, <1>4 DEF Unlinking, server
  <2> QED
    BY <1>1, <2>1, <2>2, <2>3, Undisturbed DEF Inv, history
<1>9. DownloadSound'
  BY <1>1, Answered DEF Inv, clients, history
<1> QED
  BY <1>3, <1>6, <1>7, <1>8, <1>9 DEF Inv

\* A start-up that ends, with a partition formatted if power was lost before, or fails.
LEMMA MountInv == Inv /\ Mount => Inv'
<1> SUFFICES ASSUME Inv, Mount PROVE Inv'
  OBVIOUS
<1>1. phase = "boot" /\ handler = None /\ position = 0 /\ UNCHANGED <<handler, position, clients>>
  BY DEF Mount, Inv, Server, Task, Working
<1>2. CASE StationRestart /\ Fault("flash") /\ UNCHANGED <<phase, flash>>
  <2>1. Grows
    BY <1>2, FaultsAddUp DEF Inv
  <2>2. Requests' /\ DownloadSound'
    BY <1>1, <2>1, Answered DEF Inv, Requests, Grows, clients
  <2>3. Server'
    BY <1>1, <1>2 DEF Server, Task, Working, Phases, Kinds, Sending, Receiving, Deleting, Compressing
  <2>4. Files' /\ NoUnfinishedFile' /\ Beside' /\ Outputs'
    BY <1>1, <1>2, <2>1, Aside DEF Inv, Grows
  <2>5. Joined'
    BY <1>1, <1>2, StationBegins DEF Joined
  <2> QED
    BY <2>2, <2>3, <2>4, <2>5 DEF Inv
<1>3. CASE phase' = "idle" /\ Mounted(data) /\ Mounted(zip) /\ StationUp /\ UNCHANGED <<station, history>>
  <2>1. Requests' /\ DownloadSound'
    BY <1>1, <1>3, Answered DEF Inv, Requests, clients, history
  <2>2. Server'
    BY <1>1, <1>3 DEF Server, Task, Working, Phases, Kinds, Sending, Receiving, Deleting, Compressing
  <2>3. Files'
    BY <1>3 DEF Mounted, Inv, Files
  <2>4. NoUnfinishedFile' /\ Beside' /\ Outputs'
    <3>1. CASE UNCHANGED flash
      BY <1>1, <1>3, <3>1, Aside DEF Inv, history
    <3>2. CASE "restart" \in faults
      BY <1>3, <3>2 DEF NoUnfinishedFile, Beside, Outputs, Intact, history
    <3> QED
      BY <1>3, <3>1, <3>2 DEF Mounted, flash
  <2>5. Joined'
    BY <1>3 DEF Inv, Joined, StationInv, Stations, Retries, Caught, Outside, StationUp
  <2> QED
    BY <2>1, <2>2, <2>3, <2>4, <2>5 DEF Inv
<1> QED
  BY <1>2, <1>3 DEF Mount

\* Power is lost: what is left of an upload is a part of it.
LEMMA PowerLossInv == Inv /\ PowerLoss => Inv'
<1> SUFFICES ASSUME Inv, PowerLoss PROVE Inv'
  OBVIOUS
<1>1. /\ StationRestart /\ phase' = "boot" /\ handler' = None /\ position' = 0
      /\ request' = [c \in Clients |-> None] /\ answer' = None /\ zip' = zip /\ Fault("restart")
  BY DEF PowerLoss
<1>2. Grows /\ "restart" \in faults'
  BY <1>1, FaultsAddUp DEF Inv
<1>3. Requests' /\ DownloadSound'
  BY <1>1, <1>2, Answered DEF Inv, Requests, Grows
<1>4. Server'
  BY <1>1 DEF Server, Task, Working, Phases, Kinds, Sending, Receiving, Deleting, Compressing
<1>5. Files'
  <2>1. CASE UNCHANGED data
    BY <1>1, <2>1 DEF Inv, Files
  <2>2. ASSUME phase \in {"receive", "stalled"}, NEW k \in 0..position, data' = [data EXCEPT ![Name] = Stored(Req, k)]
        PROVE  Files'
    <3>1. Req \in Requested /\ Name \in Paths /\ Req.size \in Nat
      BY <2>2, AtWork DEF Inv, Server, Working
    <3>2. Req.size <= MaxSize /\ position \in 0..Req.size /\ Req.name = Name
      BY <2>2 DEF Inv, Server, Receiving, Name
    <3>3. k \in Nat /\ k <= Req.size
      BY <3>1, <3>2
    <3>4. Stored(Req, k) \in Uploaded /\ Stored(Req, k).of = Req /\ Stored(Req, k).have = k
      BY <3>1, <3>3 DEF Stored, Uploaded
    <3> QED
      BY <1>1, <2>2, <3>1, <3>2, <3>3, <3>4 DEF Inv, Files
  <2> QED
    BY <2>1, <2>2 DEF PowerLoss
<1>6. NoUnfinishedFile' /\ Beside' /\ Outputs'
  BY <1>2 DEF NoUnfinishedFile, Beside, Outputs, Intact
<1>7. Joined'
  BY <1>1, StationBegins DEF Joined
<1> QED
  BY <1>3, <1>4, <1>5, <1>6, <1>7 DEF Inv

\* Every step of the start-up, the handlers, the clients and the power supply keeps the invariant.
LEMMA NextInv == Inv /\ [Next]_vars => Inv'
<1> SUFFICES ASSUME Inv, [Next]_vars PROVE Inv'
  OBVIOUS
<1>1. ASSUME UNCHANGED vars PROVE Inv'
  BY <1>1
  DEF vars, serverVars, flash, server, clients, history, Inv, Files, Requests, Server, Task, Working, Sending,
      Receiving, Deleting, Compressing, NoUnfinishedFile, Beside, Outputs, DownloadSound, Joined, StationInv,
      Stations, Retries, Caught, Outside, StationUp, Req, Name, Selected, Uploading, Coding, Unlinking, Intact,
      DstPath, Length, WholeUpload, Stored, Compressed
<1>2. CASE Handler
  BY <1>2, RefuseInv, GetInv, UploadInv, DeleteInv, CompressInv DEF Handler
<1> QED
  BY <1>1, <1>2, StartUpInv, MountInv, PowerLossInv, ServeInv, AskInv DEF Next

\* The handlers of file_server.c, in any order of requests and with any failure: what is on
\* the two partitions fits the handler at work, the uploads that were made and the start-up.
THEOREM Invariance == Spec => []Inv
  BY InitInv, NextInv, PTL DEF Spec

-----------------------------------------------------------------------------
(* What follows from the invariant.                                         *)

\* Each file of /data is a part of an upload of its name that was small enough, /zip holds
\* nothing but results of the codec, and the server is at a point of the code with a
\* position that the limit bounds (file_server.c:443-516).
THEOREM TypeCorrect == Spec => []TypeOK
<1>1. Inv => TypeOK
  <2> SUFFICES ASSUME Inv PROVE TypeOK
    OBVIOUS
  <2>1. ASSUME NEW n \in Paths
        PROVE  /\ data[n] # Absent => /\ data[n].of.name = n /\ data[n].of.size <= MaxSize
                                      /\ data[n].have \in 0..data[n].of.size
               /\ zip[n] \notin {Absent, Part} => zip[n] = Compressed(zip[n].of)
    <3>1. data[n] # Absent => data[n].have \in Nat /\ data[n].of.size \in Nat
      BY DEF Inv, Files, Uploaded, Requested
    <3>2. zip[n] \notin {Absent, Part} => zip[n] = Compressed(zip[n].of)
      BY DEF Inv, Files, Compressed
    <3> QED
      BY <3>1, <3>2 DEF Inv, Files
  <2>2. position \in 0..MaxSize
    <3>1. CASE phase = "send"
      <4>1. Selected(Name) # Absent /\ Name \in Paths /\ position \in 0..Length(Selected(Name))
        BY <3>1, AtWork DEF Inv, Server, Sending, Working
      <4> QED
        BY <4>1, Lengths, ConstantsAssumption DEF Inv
    <3>2. CASE phase \in {"receive", "stalled"}
      <4>1. Req.size \in Nat /\ Req.size <= MaxSize /\ position \in 0..Req.size
        BY <3>2, AtWork DEF Inv, Server, Receiving, Working
      <4> QED
        BY <4>1, ConstantsAssumption
    <3> QED
      BY <3>1, <3>2, ConstantsAssumption DEF Inv, Server, Task
  <2>3. /\ handler \in Clients \cup {None} /\ phase \in Phases
        /\ IF phase \in {"boot", "idle"} THEN handler = None ELSE request[handler] # None
    BY DEF Inv, Server, Task, Working
  <2>4. StationTypeOK
    BY StationTyped DEF Inv, Joined
  <2> QED
    BY <2>1, <2>2, <2>3, <2>4 DEF TypeOK, Inv, Requests
<1> QED
  BY <1>1, Invariance, PTL

\* However an upload ends, and whatever else happens to the server, no unfinished file
\* stays, unless the chip restarts or fclose or unlink fails (file_server.c:490-506).
THEOREM UploadsEndWhole == Spec => []NoUnfinishedFile
<1>1. Inv => NoUnfinishedFile
  BY DEF Inv
<1> QED
  BY <1>1, Invariance, PTL

\* A compressed file is there only beside its source, and is the compressed form of all
\* of it, unless the chip restarts or unlink or fclose fails
\* (file_server.c:567-580, 628-645).
THEOREM CompressedBesideSource == Spec => []CompressedMatches
<1>1. Inv => CompressedMatches
  BY DEF Inv, Beside, CompressedMatches, Intact, Coding, Unlinking
<1> QED
  BY <1>1, Invariance, PTL

\* A download that a client takes for complete comes from a file that was uploaded in full
\* under its name, or from the compressed form of one, unless the chip restarts or fclose or
\* unlink fails; and it is all of it, unless fread fails or the client is slow
\* (file_server.c:314-414).
THEOREM DownloadsSound == Spec => []DownloadSound
<1>1. Inv => DownloadSound
  BY DEF Inv
<1> QED
  BY <1>1, Invariance, PTL

\* What a step does to /data.
LEMMA DataSteps ==
  ASSUME Inv, Next
  PROVE  \/ UNCHANGED data
         \/ data' = [n \in Paths |-> Absent] /\ "restart" \in faults'
         \/ \E v : /\ data' = [data EXCEPT ![Name] = v]
                   /\ v = Absent \/ data[Name] = Absent \/ v.of = data[Name].of
<1>1. CASE Create
  BY <1>1 DEF Create, Exists
<1>2. ASSUME phase \in {"receive", "stalled"}, NEW k, data' = [data EXCEPT ![Name] = Stored(Req, k)]
      PROVE  \E v : /\ data' = [data EXCEPT ![Name] = v]
                    /\ v = Absent \/ data[Name] = Absent \/ v.of = data[Name].of
  <2>1. data[Name].of = Req /\ Stored(Req, k).of = Req
    BY <1>2 DEF Inv, Server, Receiving, Stored
  <2> QED
    BY <1>2, <2>1
<1>3. CASE Receive
  BY <1>2, <1>3 DEF Receive
<1>4. CASE EndUpload
  BY <1>2, <1>4 DEF EndUpload
<1>5. CASE ReceiveFails
  BY <1>5 DEF ReceiveFails, Unlink, Unlinked
<1>6. CASE DeleteSource
  BY <1>6 DEF DeleteSource
<1>7. CASE PowerLoss
  BY <1>2, <1>7 DEF PowerLoss
<1>8. CASE Mount
  BY <1>8, FaultsAddUp DEF Mount, Mounted, flash, history, Inv, Grows
<1>9. CASE StartUp \/ \E c \in Clients : Serve(c) \/ Ask(c)
  BY <1>9 DEF StartUp, serverVars, flash, Serve, Accept, Ask
<1>10. CASE Refuse \/ Get \/ BadUpload \/ Stall \/ Resume \/ DeleteCompressed \/ CompressFile
  BY <1>10 DEF Refuse, Get, List, NotFound, Open, SendChunk, Finish, SendFails, BadUpload, Stall, Resume,
     DeleteCompressed, CompressFile, Compress, CodecOpens, CodecEnds, flash
<1> QED
  BY <1>1, <1>3, <1>4, <1>5, <1>6, <1>7, <1>8, <1>9, <1>10 DEF Next, Handler, Upload, Delete

\* An upload never replaces another: the name must be deleted first (file_server.c:443).
THEOREM NothingReplaced == Spec => NeverReplaced
<1>1. ASSUME Inv, [Next]_vars, NEW n \in Paths, data[n] # Absent, data'[n] # Absent
      PROVE  data'[n].of = data[n].of
  <2>1. CASE UNCHANGED vars
    BY <2>1 DEF vars, serverVars, flash
  <2>2. CASE Next
    BY <1>1, <2>2, DataSteps DEF Inv, Files
  <2> QED
    BY <1>1, <2>1, <2>2
<1>2. Inv /\ [Next]_vars =>
        [\A n \in Paths : data[n] # Absent /\ data'[n] # Absent => data'[n].of = data[n].of]_vars
  BY <1>1
<1> QED
  BY <1>2, Invariance, PTL DEF Spec, NeverReplaced

\* The start-up gives up only when the first attempt and MaxRetry more have failed, none
\* of them having brought an address (main.c:47).
THEOREM RetriesUsed == Spec => GivesUpAfterRetries
<1>1. ASSUME Inv, [Next]_vars, station.stage = "waiting", station'.stage = "init"
      PROVE  station.failures = MaxRetry + 1
  <2>1. phase = "boot" /\ ~StationUp
    BY <1>1 DEF Inv, Joined, StationUp
  <2>2. station' # station
    BY <1>1
  <2>3. StationNext
    BY <1>1, <2>1, <2>2 DEF Next, vars, Mount, Handler, PowerLoss, Serve, StartUp
  <2> QED
    BY <1>1, <2>3, StationGivesUp DEF Inv, Joined
<1>2. Inv /\ [Next]_vars =>
        [station.stage = "waiting" /\ station'.stage = "init" => station.failures = MaxRetry + 1]_vars
  BY <1>1
<1> QED
  BY <1>2, Invariance, PTL DEF Spec, GivesUpAfterRetries

=============================================================================
