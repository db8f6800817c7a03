-------------------------- MODULE HttpStore_proofs --------------------------
(***************************************************************************)
(* The http-server example implements FileStore: every step of a handler   *)
(* is one step on the store that its clients see, or none.                 *)
(*                                                                         *)
(* The proof follows two facts of each name, whether the store shows no    *)
(* upload and whether it shows no compressed form. A step changes them for *)
(* the name of the request at work only, and four kinds of step do: the    *)
(* end of an upload, the removal of a source, the codec's start and its    *)
(* end.                                                                    *)
(***************************************************************************)
EXTENDS HttpFileServer_proofs

NoUpload(n) == data[n] = Absent \/ Uploading(n)
NoOutput(n) == zip[WithExtension(n)] = Absent \/ Unsettled(n)

\* What the store shows of each name, as long as it is intact.
Shows ==
  \A n \in Asked :
    /\ StoredUpload(n) = IF NoUpload(n) THEN Absent ELSE data[n].of
    /\ CompressedUpload(n) = IF NoOutput(n) THEN Absent ELSE data[n].of
    /\ ~NoUpload(n) => data[n] # Absent /\ data[n].of # Absent
    /\ ~NoOutput(n) => ~NoUpload(n)

\* The refinement mapping shows the upload that the file of a name is of, while there is no
\* other handler at work on the name.
LEMMA Shown == Inv /\ Intact => Shows
<1> SUFFICES ASSUME Inv, Intact, NEW n \in Asked
             PROVE  /\ StoredUpload(n) = IF NoUpload(n) THEN Absent ELSE data[n].of
                    /\ CompressedUpload(n) = IF NoOutput(n) THEN Absent ELSE data[n].of
                    /\ ~NoUpload(n) => data[n] # Absent /\ data[n].of # Absent
                    /\ ~NoOutput(n) => ~NoUpload(n)
  BY DEF Shows
<1>1. n \in Paths /\ WithExtension(n) \in Paths
  BY NamesAndPaths
<1>2. ~NoUpload(n) => data[n] # Absent /\ data[n].of # Absent /\ WholeUpload(data[n])
  BY <1>1, ValuesAssumption DEF NoUpload, Inv, Files, Uploaded, NoUnfinishedFile, Intact, Uploading
<1>3. StoredUpload(n) = IF NoUpload(n) THEN Absent ELSE data[n].of
  <2>1. CASE NoUpload(n)
    BY <2>1 DEF StoredUpload, NoUpload
  <2>2. CASE ~NoUpload(n)
    BY <1>2, <2>2 DEF StoredUpload, NoUpload
  <2> QED
    BY <2>1, <2>2
<1>4. ~NoOutput(n) => /\ ~NoUpload(n) /\ zip[WithExtension(n)] = Compressed(data[n])
                      /\ zip[WithExtension(n)] # Part
  <2> SUFFICES ASSUME ~NoOutput(n)
               PROVE  /\ ~NoUpload(n) /\ zip[WithExtension(n)] = Compressed(data[n])
                      /\ zip[WithExtension(n)] # Part
    OBVIOUS
  <2>1. zip[WithExtension(n)] # Absent /\ ~Coding(n) /\ ~Unlinking(n)
    BY DEF NoOutput, Unsettled, Coding, Unlinking
  <2>2. /\ data[n] # Absent /\ ~Uploading(n)
        /\ zip[WithExtension(n)] = Compressed(data[n])
    BY <2>1 DEF Inv, Beside
  <2>3. Compressed(data[n]) # Part
    BY <1>1, <2>2, ValuesAssumption DEF Inv, Files, Compressed
  <2> QED
    BY <2>2, <2>3 DEF NoUpload
<1>5. CompressedUpload(n) = IF NoOutput(n) THEN Absent ELSE data[n].of
  <2>1. CASE NoOutput(n)
    BY <2>1 DEF CompressedUpload, NoOutput
  <2>2. CASE ~NoOutput(n)
    <3>1. CompressedUpload(n) = StoredUpload(n)
      BY <1>2, <1>4, <2>2 DEF CompressedUpload, NoOutput
    <3> QED
      BY <1>3, <1>4, <2>2, <3>1
  <2> QED
    BY <2>1, <2>2
<1> QED
  BY <1>2, <1>3, <1>4, <1>5

Same(n) == (NoUpload(n)' <=> NoUpload(n)) /\ (NoOutput(n)' <=> NoOutput(n))

\* Steps that change neither a file nor the phase in which one changes.
LEMMA SameAside ==
  ASSUME UNCHANGED flash, phase \notin {"receive", "stalled", "coding", "unlink"},
         phase' \notin {"receive", "stalled", "coding", "unlink"}
  PROVE  \A n \in Asked : Same(n)
BY DEF Same, NoUpload, NoOutput, Uploading, Unsettled, flash

\* A step within a handler that leaves flash alone shows nothing new.
LEMMA SamePhase ==
  ASSUME UNCHANGED flash, \/ phase' = phase \/ {phase, phase'} \subseteq {"receive", "stalled"},
         Working => Name' = Name
  PROVE  \A n \in Asked : Same(n)
BY DEF Same, NoUpload, NoOutput, Uploading, Unsettled, flash, Working

\* What a step changes of the names, unless it ends the promise.
Ends(n)     == NoUpload(n) /\ NoOutput(n) /\ ~NoUpload(n)' /\ NoOutput(n)' /\ data'[n].of \in UploadsOf(n)
Removes(n)  == ~NoUpload(n) /\ NoUpload(n)' /\ NoOutput(n)'
Discards(n) == (NoUpload(n)' <=> NoUpload(n)) /\ NoOutput(n)'
Makes(n)    == ~NoUpload(n) /\ ~NoUpload(n)' /\ NoOutput(n)

\* upload_post_handler shows its file when it ends, and no compressed form with it.
LEMMA UploadShows ==
  ASSUME Inv, Upload, Intact'
  PROVE  \/ \A n \in Asked : Same(n)
         \/ \E n \in Asked : Ends(n) /\ \A m \in Asked \ {n} : Same(m)
<1>1. phase \in {"upload", "receive", "stalled"} /\ Working
  BY DEF Upload, BadUpload, Create, Receive, Stall, Resume, ReceiveFails, Unlink, EndUpload, Working
<1>2. /\ handler \in Clients /\ Req \in Requested /\ Name \in Paths /\ Name \in Asked
      /\ Req.size \in Sizes \cup {0} /\ Req.size \in Nat /\ Req.id <= MaxRequests /\ Req.kind = "upload"
  BY <1>1, AtWork DEF Inv, Server, Task, Receiving, Kinds
<1>3. zip' = zip /\ \A m \in Paths : m # Name => data'[m] = data[m]
  BY <1>2 DEF Upload, BadUpload, Create, Receive, Stall, Resume, ReceiveFails, Unlink, EndUpload, flash, Inv, Files
<1>4. phase' = "idle" \/ Name' = Name
  BY DEF Upload, BadUpload, Create, Receive, Stall, Resume, ReceiveFails, Unlink, EndUpload, Answer, Abandoned, Return,
     Continue, clients, Name, Req
<1>5. phase' \in {"idle", "receive", "stalled"}
  BY DEF Upload, BadUpload, Create, Receive, Stall, Resume, ReceiveFails, Unlink, EndUpload, Answer, Abandoned, Return,
     Continue
<1>6. \A n \in Asked : ~Unsettled(n) /\ ~Unsettled(n)'
  BY <1>1, <1>5 DEF Unsettled
<1>7. \A n \in Asked : NoOutput(n)' <=> NoOutput(n)
  BY <1>3, <1>6 DEF NoOutput
<1>8. \A n \in Asked : n # Name => Same(n)
  BY <1>1, <1>3, <1>4, <1>5, <1>7, NamesAndPaths DEF Same, NoUpload, Uploading
<1>9. CASE EndUpload
  <2>1. phase = "receive" /\ position = Req.size /\ phase' = "idle" /\ UNCHANGED data
    BY <1>9 DEF EndUpload, Answer, Return, Intact, Fault, Faulty
  <2>2. data[Name] = Stored(Req, Req.size)
    BY <2>1 DEF Inv, Server, Receiving
  <2>3. data[Name] # Absent
    BY <1>2, <2>2, ValuesAssumption DEF Stored, Uploaded
  <2>4. PICK n \in Asked : n = Name
    BY <1>2
  <2>5. NoUpload(n) /\ ~NoUpload(n)'
    BY <2>1, <2>3, <2>4 DEF NoUpload, Uploading
  <2>6. Intact
    BY <1>2, <1>9, FaultsAddUp DEF EndUpload, Intact, Fault, Faulty, history
  <2>7. zip[WithExtension(n)] = Absent
    BY <2>1, <2>4, <2>6 DEF Inv, Beside, Uploading, Coding, Unlinking
  <2>8. NoOutput(n) /\ NoOutput(n)'
    BY <1>7, <2>7 DEF NoOutput
  <2>9. data'[n].of \in UploadsOf(n)
    <3>1. data'[n].of = Req /\ Req.name = n /\ Req.size <= MaxSize
      BY <2>1, <2>2, <2>4 DEF Stored, Name, Inv, Server, Receiving
    <3>2. Req.id \in 0..MaxRequests
      BY <1>2, ConstantsAssumption DEF Requested
    <3> QED
      BY <1>2, <3>1, <3>2 DEF UploadsOf, Requested
  <2> QED
    BY <1>8, <2>4, <2>5, <2>8, <2>9 DEF Ends
<1>10. CASE ~EndUpload
  <2>1. PICK n \in Asked : n = Name
    BY <1>2
  <2>2. CASE BadUpload \/ (Create /\ UNCHANGED data)
    <3>1. NoUpload(n)' <=> NoUpload(n)
      BY <2>1, <2>2 DEF BadUpload, Create, flash, NoUpload, Uploading, Answer, Return, Continue, Name, Req, clients,
         Exists
    <3> QED
      BY <1>7, <1>8, <2>1, <3>1 DEF Same
  <2>3. CASE Create /\ phase' = "receive"
    <3>1. NoUpload(n)' /\ NoUpload(n)
      BY <1>4, <2>1, <2>3 DEF Create, NoUpload, Uploading, Exists
    <3> QED
      BY <1>7, <1>8, <2>1, <3>1 DEF Same
  <2>4. CASE Receive \/ Stall \/ Resume
    <3>1. phase \in {"receive", "stalled"} /\ phase' \in {"receive", "stalled"}
      BY <2>4 DEF Receive, Stall, Resume, Continue
    <3>2. NoUpload(n)' /\ NoUpload(n)
      BY <1>4, <2>1, <3>1 DEF NoUpload, Uploading
    <3> QED
      BY <1>7, <1>8, <2>1, <3>2 DEF Same
  <2>5. CASE ReceiveFails
    <3>1. phase \in {"receive", "stalled"} /\ data'[Name] = Absent
      <4>1. "unlink" \notin faults'
        BY DEF Intact
      <4>2. \A f : Unlink(f) => data' = [data EXCEPT ![Name] = Absent]
        BY <4>1 DEF Unlink, Unlinked, Faulty
      <4> QED
        BY <1>2, <2>5, <4>2 DEF ReceiveFails, Inv, Files
    <3>2. NoUpload(n)' /\ NoUpload(n)
      BY <2>1, <3>1 DEF NoUpload, Uploading
    <3> QED
      BY <1>7, <1>8, <2>1, <3>2 DEF Same
  <2> QED
    BY <1>10, <2>2, <2>3, <2>4, <2>5 DEF Upload, Create, Continue
<1> QED
  BY <1>9, <1>10

\* delete_post_handler removes both files for the client in its first step.
LEMMA DeleteShows ==
  ASSUME Inv, Delete, Intact'
  PROVE  \/ \A n \in Asked : Same(n)
         \/ \E n \in Asked : Removes(n) /\ \A m \in Asked \ {n} : Same(m)
<1>1. phase \in {"delete", "unlink"} /\ Working
  BY DEF Delete, DeleteSource, DeleteCompressed, Working
<1>2. Name \in Paths /\ Name \in Asked
  BY <1>1, AtWork DEF Inv, Server, Task, Deleting, Kinds
<1>3. PICK n \in Asked : n = Name
  BY <1>2
<1>4. CASE DeleteSource
  <2>1. phase = "delete" /\ phase' = "unlink" /\ Name' = Name /\ zip' = zip /\ data[Name] # Absent
    BY <1>4 DEF DeleteSource, Continue, clients, Name, Req
  <2>2. data' = [data EXCEPT ![Name] = Absent]
    BY <1>4 DEF DeleteSource, Fault, Faulty, Intact
  <2>3. data'[Name] = Absent /\ \A m \in Paths : m # Name => data'[m] = data[m]
    BY <1>2, <2>2 DEF Inv, Files
  <2>4. Removes(n)
    BY <1>3, <2>1, <2>3 DEF Removes, NoUpload, NoOutput, Uploading, Unsettled
  <2>5. \A m \in Asked \ {n} : Same(m)
    BY <1>3, <2>1, <2>3, NamesAndPaths DEF Same, NoUpload, NoOutput, Uploading, Unsettled
  <2> QED
    BY <2>4, <2>5
<1>5. CASE DeleteCompressed
  <2>1. phase = "unlink" /\ phase' = "idle" /\ data' = data
    BY <1>5 DEF DeleteCompressed, Answer, Return
  <2>2. zip' = [zip EXCEPT ![WithExtension(Name)] = Absent]
    BY <1>5 DEF DeleteCompressed, CompPath, Fault, Faulty, Intact
  <2>3. zip'[WithExtension(n)] = Absent
        /\ \A m \in Asked \ {n} : zip'[WithExtension(m)] = zip[WithExtension(m)]
    BY <1>3, <2>2, NamesAndPaths DEF Inv, Files
  <2>4. Same(n)
    BY <1>3, <2>1, <2>3 DEF Same, NoUpload, NoOutput, Uploading, Unsettled
  <2>5. \A m \in Asked \ {n} : Same(m)
    BY <1>3, <2>1, <2>3 DEF Same, NoUpload, NoOutput, Uploading, Unsettled
  <2> QED
    BY <2>4, <2>5
<1> QED
  BY <1>4, <1>5 DEF Delete

\* compress_post_handler hides the compressed form while the codec writes it.
LEMMA CompressShows ==
  ASSUME Inv, CompressFile, Intact'
  PROVE  \/ \A n \in Asked : Same(n)
         \/ \E n \in Asked : (Discards(n) \/ Makes(n)) /\ \A m \in Asked \ {n} : Same(m)
<1>1. phase \in {"compress", "codec", "coding"} /\ Working
  BY DEF CompressFile, Compress, CodecOpens, CodecEnds, CodecSucceeds, CodecFails, Working
<1>2. Name \in Paths /\ Name \in Asked
  BY <1>1, AtWork DEF Inv, Server, Task, Compressing, Kinds
<1>3. PICK n \in Asked : n = Name
  BY <1>2
<1>4. CASE Compress \/ (CodecOpens /\ Answer("303") /\ UNCHANGED zip)
  BY <1>4, SameAside DEF Compress, CodecOpens, Continue, Answer, Return, flash
<1>5. ASSUME NEW v, zip' = [zip EXCEPT ![WithExtension(n)] = v]
      PROVE  \A m \in Asked \ {n} : zip'[WithExtension(m)] = zip[WithExtension(m)]
  BY <1>5, NamesAndPaths DEF Inv, Files
<1>6. CASE CodecOpens /\ Continue("coding") /\ zip' = [zip EXCEPT ![DstPath] = Part]
  <2>1. phase = "codec" /\ phase' = "coding" /\ Name' = Name /\ data' = data
    BY <1>6 DEF CodecOpens, Continue, clients, Name, Req
  <2>2. \A m \in Asked \ {n} : zip'[WithExtension(m)] = zip[WithExtension(m)]
    BY <1>3, <1>5, <1>6 DEF DstPath
  <2>3. Discards(n)
    BY <1>3, <2>1 DEF Discards, NoUpload, NoOutput, Uploading, Unsettled
  <2>4. \A m \in Asked \ {n} : Same(m)
    BY <1>3, <2>1, <2>2 DEF Same, NoUpload, NoOutput, Uploading, Unsettled
  <2> QED
    BY <2>3, <2>4
<1>7. CASE CodecEnds
  <2>1. /\ phase = "coding" /\ phase' \in {"idle", "hung"}
        /\ data' = data /\ data[Name] # Absent
    <3>1. phase = "coding" /\ data' = data /\ data[Name] # Absent
      BY <1>7 DEF CodecEnds, Inv, Server, Compressing
    <3>2. phase' \in {"idle", "hung"}
      BY <1>7 DEF CodecEnds, CodecSucceeds, CodecFails, Answer, Return, Continue
    <3> QED
      BY <3>1, <3>2
  <2>2. PICK v : zip' = [zip EXCEPT ![WithExtension(n)] = v]
    BY <1>3, <1>7 DEF CodecEnds, CodecSucceeds, CodecFails, DstPath, Fault, Faulty, Intact
  <2>3. \A m \in Asked \ {n} : zip'[WithExtension(m)] = zip[WithExtension(m)]
    BY <1>5, <2>2
  <2>4. Makes(n)
    BY <1>3, <2>1 DEF Makes, NoUpload, NoOutput, Uploading, Unsettled
  <2>5. \A m \in Asked \ {n} : Same(m)
    BY <1>3, <2>1, <2>3 DEF Same, NoUpload, NoOutput, Uploading, Unsettled
  <2> QED
    BY <2>4, <2>5
<1> QED
  BY <1>4, <1>6, <1>7 DEF CompressFile, CodecOpens

\* The other steps show nothing.
LEMMA OthersShow ==
  ASSUME Inv, Next, Intact', ~(Upload \/ Delete \/ CompressFile)
  PROVE  \A n \in Asked : Same(n)
<1>1. CASE Refuse
  BY <1>1, SameAside DEF Refuse, Answer, Return, Kinds
<1>2. CASE Get
  BY <1>2, SameAside DEF Get, List, NotFound, Open, SendChunk, Finish, SendFails, Complete, Answer, Return, Continue,
     flash
<1>3. CASE StartUp
  BY <1>3, SamePhase DEF StartUp, serverVars, server, clients, Name, Req
<1>4. CASE Mount
  BY <1>4, SameAside DEF Mount, Mounted, Intact, history, flash, Fault, Faulty
<1>5. CASE PowerLoss
  BY <1>5 DEF PowerLoss, Fault, Faulty, Intact
<1>6. ASSUME NEW c \in Clients, Serve(c) PROVE \A n \in Asked : Same(n)
  <2>1. phase = "idle" /\ phase' \in Kinds /\ UNCHANGED flash
    BY <1>6 DEF Serve, Accept, Inv, Requests, Requested
  <2> QED
    BY <2>1, SameAside DEF Kinds
<1>7. ASSUME NEW c \in Clients, Ask(c) PROVE \A n \in Asked : Same(n)
  <2>1. UNCHANGED <<flash, server>> /\ request[c] = None
    BY <1>7 DEF Ask
  <2>2. Working => Name' = Name
    BY <1>7, <2>1 DEF Ask, Inv, Server, Task, Requests, Name, Req, server
  <2> QED
    BY <2>1, <2>2, SamePhase DEF server
<1> QED
  BY <1>1, <1>2, <1>3, <1>4, <1>5, <1>6, <1>7 DEF Next, Handler

-----------------------------------------------------------------------------
(* The steps of the store.                                                  *)

\* As long as the store is intact, a step of the server is a step of the store or shows nothing.
LEMMA StoreSteps ==
  ASSUME Inv, Inv', Next, Intact'
  PROVE  [Store!Serve]_(Store!vars)
<1>1. Intact /\ Shows
  <2>1. Intact
    BY FaultsAddUp DEF Intact, Next, StartUp, serverVars, Mount, history, Handler, Refuse, Get, List, NotFound, Open, SendChunk, Finish,
       SendFails, Upload, BadUpload, Create, Receive, Stall, Resume, ReceiveFails, Unlink, EndUpload, Delete, DeleteSource,
       DeleteCompressed, CompressFile, Compress, CodecOpens, CodecEnds, CodecSucceeds, CodecFails, PowerLoss, Serve, Accept, Ask, Inv, Grows
  <2> QED
    BY <2>1, Shown
<1>2. Shows'
  <2>1. (Inv /\ Intact => Shows)'
    BY Shown, PTL
  <2> QED
    BY <2>1
<1>3. ASSUME NEW n \in Asked, Same(n)
      PROVE  StoredUpload(n)' = StoredUpload(n) /\ CompressedUpload(n)' = CompressedUpload(n)
  <2>1. data[n] # Absent /\ data'[n] # Absent => data'[n].of = data[n].of
    BY DataSteps, NamesAndPaths DEF Inv, Files
  <2> QED
    BY <1>1, <1>2, <1>3, <2>1 DEF Shows, Same, NoUpload
<1>4. /\ faults \cap {"restart", "unlink", "close"} = {}
      /\ faults' \cap {"restart", "unlink", "close"} = {}
  BY <1>1 DEF Intact
<1>5. CASE \A n \in Asked : Same(n)
  <2>1. \A n \in Asked : StoredUpload(n)' = StoredUpload(n) /\ CompressedUpload(n)' = CompressedUpload(n)
    BY <1>3, <1>5
  <2> QED
    BY <1>4, <2>1 DEF Store!vars
<1>6. ASSUME NEW n \in Asked, \A m \in Asked \ {n} : Same(m),
             Ends(n) \/ Removes(n) \/ Discards(n) \/ Makes(n)
      PROVE  [Store!Serve]_(Store!vars)
  <2>1. \A m \in Asked \ {n} : /\ StoredUpload(m)' = StoredUpload(m)
                               /\ CompressedUpload(m)' = CompressedUpload(m)
    BY <1>3, <1>6
  <2>2. CASE Ends(n)
    <3>1. Store!Put(n)
      BY <1>1, <1>2, <2>1, <2>2 DEF Store!Put, Ends, Shows
    <3> QED
      BY <1>4, <3>1 DEF Store!Serve
  <2>3. CASE Removes(n)
    <3>1. Store!Remove(n)
      BY <1>1, <1>2, <2>1, <2>3 DEF Store!Remove, Removes, Shows
    <3> QED
      BY <1>4, <3>1 DEF Store!Serve
  <2>4. data[n] # Absent /\ data'[n] # Absent => data'[n].of = data[n].of
    BY DataSteps, NamesAndPaths DEF Inv, Files
  <2>5. CASE Discards(n)
    <3>1. StoredUpload(n)' = StoredUpload(n) /\ CompressedUpload(n)' = Absent
      BY <1>1, <1>2, <2>4, <2>5 DEF Discards, Shows, NoUpload
    <3>2. CASE NoOutput(n)
      <4>1. \A m \in Asked : StoredUpload(m)' = StoredUpload(m) /\ CompressedUpload(m)' = CompressedUpload(m)
        BY <1>1, <2>1, <3>1, <3>2 DEF Shows
      <4> QED
        BY <1>4, <4>1 DEF Store!vars
    <3>3. CASE ~NoOutput(n)
      <4>1. Store!Discard(n)
        BY <1>1, <2>1, <3>1, <3>3 DEF Store!Discard, Shows
      <4> QED
        BY <1>4, <4>1 DEF Store!Serve
    <3> QED
      BY <3>2, <3>3
  <2>6. CASE Makes(n)
    <3>1. /\ StoredUpload(n)' = StoredUpload(n) /\ StoredUpload(n) # Absent
          /\ CompressedUpload(n) = Absent
          /\ CompressedUpload(n)' \in {Absent, StoredUpload(n)}
      BY <1>1, <1>2, <2>4, <2>6 DEF Makes, Shows
    <3>2. CASE CompressedUpload(n)' = Absent
      <4>1. \A m \in Asked : StoredUpload(m)' = StoredUpload(m) /\ CompressedUpload(m)' = CompressedUpload(m)
        BY <2>1, <3>1, <3>2
      <4> QED
        BY <1>4, <4>1 DEF Store!vars
    <3>3. CASE CompressedUpload(n)' = StoredUpload(n)
      <4>1. Store!Compress(n)
        BY <2>1, <3>1, <3>3 DEF Store!Compress
      <4> QED
        BY <1>4, <4>1 DEF Store!Serve
    <3> QED
      BY <3>1, <3>2, <3>3
  <2> QED
    BY <1>6, <2>2, <2>3, <2>5, <2>6
<1> QED
  BY <1>5, <1>6, UploadShows, DeleteShows, CompressShows, OthersShow

\* Requests of several clients, each made of many steps on two partitions, look like single
\* steps on one store (file_server.c:305-645), until the chip restarts or unlink or fclose
\* fails.
THEOREM Implements == Spec => ActsAsStore
<1>1. Init => Store!Init
  BY NamesAndPaths DEF Init, Store!Init, StoredUpload, CompressedUpload
<1>2. ASSUME Inv, Inv', [Next]_vars PROVE [Store!Next]_(Store!vars)
  <2>1. CASE UNCHANGED vars
    <3>1. \A n \in Asked : StoredUpload(n)' = StoredUpload(n) /\ CompressedUpload(n)' = CompressedUpload(n)
      BY <2>1 DEF vars, serverVars, flash, server, clients, StoredUpload, CompressedUpload, Uploading, Unsettled,
         WholeUpload, Compressed, Name, Req
    <3> QED
      BY <2>1, <3>1 DEF Store!vars, vars, serverVars, history
  <2>2. CASE Next /\ Intact'
    BY <1>2, <2>2, StoreSteps DEF Store!Next
  <2>3. CASE ~Intact'
    BY <2>3 DEF Store!Next, Store!Damage, Intact
  <2> QED
    BY <1>2, <2>1, <2>2, <2>3
<1>3. Inv /\ Inv' /\ [Next]_vars => [Store!Next]_(Store!vars)
  BY <1>2
<1> QED
  BY <1>1, <1>3, Invariance, PTL DEF Spec, ActsAsStore, Store!Spec

=============================================================================
