------------------------- MODULE BrotliTask_proofs -------------------------
(***************************************************************************)
(* Proofs about BrotliTask: for a buffer, a source and an output of any    *)
(* size, the counters stay within the buffers, no byte is lost or repeated,*)
(* success means all of the output of all of the source, and every exit    *)
(* gives everything back.                                                  *)
(***************************************************************************)
EXTENDS BrotliTask, TLAPS

\* What is held and what there is on flash, by the point the task is at.
Stages ==
  /\ parent = "create" => pc = "none"
  /\ pc \in {"none", "malloc", "create", "open"} =>
       /\ ~fin /\ ~fout /\ dst # "new" /\ result = 0 /\ ~is_eof
       /\ available_in = 0 /\ next_out = 0 /\ verdict = "more_input"
  /\ pc \in {"none", "malloc"} => ~buffer /\ ~instance
  /\ pc = "create" => ~instance
  /\ pc \in {"loop", "code", "provide", "flush"} =>
       fout /\ dst = "new" /\ result = 0
  /\ pc = "close" => (fout <=> dst = "new")
  /\ pc = "close" /\ result = 0 => fout
  /\ pc = "provide" => next_out # 0

\* The encoder is told of the end only when all is read; the decoder asks for
\* input only when its buffer is empty.
Reads ==
  /\ is_eof => position = size
  /\ mode = "decomp" /\ pc = "loop" /\ verdict = "more_input" => available_in = 0

\* What the codec did when it says that the stream is finished, and that only then
\* the last write is made.
Ends ==
  /\ pc = "flush" => verdict = "finished"
  /\ verdict = "finished" =>
       /\ pc \in {"provide", "flush", "close", "notify", "deleted"}
       /\ produced = outSize
       /\ consumed = (IF mode = "comp" THEN size ELSE stream)

\* The output is all of what the source stands for.
Complete ==
  /\ verdict = "finished" /\ written = outSize /\ consumed = size
  /\ mode = "decomp" => stream = size

\* When the files are about to be closed, the result says whether that is so.
Closing == pc = "close" => (result = 0 <=> Complete)

Exit == NothingHeld /\ SuccessIsWhole /\ FailureLeavesNoPart

\* The parent is told nothing but the result, and not before there is one.
Told ==
  /\ notifyValue # 0 => pc = "deleted" /\ notifyValue = result
  /\ parent = "returned" => pc = "deleted" /\ returned = result

CallInv ==
  /\ TypeOK /\ Accounting /\ Stages /\ Reads /\ Ends /\ Closing
  /\ Exit /\ Told

-----------------------------------------------------------------------------
\* A call begins in the invariant.
LEMMA InitInv == Init => CallInv
<1> SUFFICES ASSUME Init PROVE CallInv
  OBVIOUS
<1> USE ConstantsAssumption DEF Init, call, context, source, codec, resources,
       output, caller
<1>1. TypeOK
  <2>1. /\ is_eof \in BOOLEAN /\ feof \in BOOLEAN /\ fin \in BOOLEAN
        /\ fout \in BOOLEAN /\ buffer \in BOOLEAN /\ instance \in BOOLEAN
        /\ closeFailed \in BOOLEAN /\ unlinkFailed \in BOOLEAN
    OBVIOUS
  <2>2. /\ result \in {0, -1, -2} /\ notifyValue \in {0, -1, -2}
        /\ returned \in {0, -1, -2}
    OBVIOUS
  <2>3. size \in 0..MaxIn /\ stream \in 1..(MaxIn + 1) /\ outSize \in 0..MaxOut
    OBVIOUS
  <2>4. /\ available_in \in 0..Buf /\ available_out \in 0..Buf /\ next_out \in 0..Buf
        /\ position \in 0..size /\ consumed \in Nat /\ produced \in Nat
        /\ written \in Nat
    BY <2>3
  <2>5. /\ mode \in {"comp", "decomp"} /\ pc \in PCs
        /\ verdict \in {"more_input", "more_output", "finished", "error"}
        /\ dst \in {"none", "old", "new"}
        /\ parent \in {"create", "take", "waiting", "returned"}
    BY DEF PCs
  <2> QED
    BY <2>1, <2>2, <2>3, <2>4, <2>5 DEF TypeOK
<1>2. Accounting
  BY DEF Accounting
<1>3. Stages /\ Reads /\ Ends /\ Closing
  BY DEF Stages, Reads, Ends, Closing
<1>4. Exit /\ Told
  BY DEF Told, Exit, NothingHeld, SuccessIsWhole, FailureLeavesNoPart, Finished
<1> QED
  BY <1>1, <1>2, <1>3, <1>4 DEF CallInv

\* The points at which the loop may fail.
Working == {"loop", "code", "provide", "flush"}

\* The last write fails only if there is something to write.
FailsAt(where) == Fail(where) /\ (where = "flush" => next_out # 0)

\* The steps of the system; the errors of the loops are all one.
LEMMA StepCases ==
  ASSUME [Next]_vars
  PROVE  \/ CreateTask \/ NotifyTake
         \/ Malloc \/ CreateInstance \/ OpenFiles \/ OpenFails
         \/ CompressRead \/ Encode \/ DecompressRead \/ Decode
         \/ ProvideOutput \/ FlushOutput
         \/ \E where \in Working : FailsAt(where)
         \/ \E flushed, unlinked \in BOOLEAN : CloseFiles(flushed, unlinked)
         \/ Notify \/ UNCHANGED vars
<1>1. ASSUME Reject PROVE \E where \in Working : FailsAt(where)
  BY <1>1 DEF Reject, Working, FailsAt
<1>2. ASSUME IOFails PROVE \E where \in Working : FailsAt(where)
  BY <1>2 DEF IOFails, Working, FailsAt
<1> QED
  BY <1>1, <1>2 DEF Next, Task

\* The counters stay within the buffers.
LEMMA StepType == TypeOK /\ Accounting /\ Stages /\ [Next]_vars => TypeOK'
<1> SUFFICES ASSUME TypeOK /\ Accounting /\ Stages, [Next]_vars PROVE TypeOK'
  OBVIOUS
<1> USE ConstantsAssumption DEF TypeOK, PCs, Accounting, Stages, call,
       context, source, codec, resources, output, caller
<1>1. CASE CreateTask
  BY <1>1 DEF CreateTask
<1>2. CASE NotifyTake
  BY <1>2 DEF NotifyTake
<1>3. CASE Malloc
  <2>1. result' \in {0, -1, -2} /\ pc' \in PCs /\ buffer' \in BOOLEAN
    BY <1>3 DEF Malloc, NoMemory
  <2>2. UNCHANGED <<call, context, source, codec, fin, fout, instance, output, caller>>
    BY <1>3 DEF Malloc
  <2> QED
    BY <2>1, <2>2 DEF call, context, source, codec, output, caller
<1>4. CASE CreateInstance
  <2>1. result' \in {0, -1, -2} /\ pc' \in PCs
    BY <1>4 DEF CreateInstance
  <2>3. instance' \in BOOLEAN /\ buffer' \in BOOLEAN
    BY <1>4 DEF CreateInstance
  <2>2. UNCHANGED <<call, context, source, codec, fin, fout, output, caller>>
    BY <1>4 DEF CreateInstance
  <2> QED
    BY <2>1, <2>2, <2>3 DEF call, context, source, codec, output, caller
<1>5. CASE OpenFiles
  BY <1>5 DEF OpenFiles
<1>6. CASE OpenFails
  BY <1>6 DEF OpenFails
<1>7. CASE CompressRead
  BY <1>7 DEF CompressRead, NeedsRead, ProvideInput, ReadsPastEnd, Lesser
<1>8. CASE Encode
  BY <1>8 DEF Encode, NeedsRead, Transfer
<1>9. CASE DecompressRead
  BY <1>9 DEF DecompressRead, ProvideInput, ReadsPastEnd, Lesser
<1>10. CASE Decode
  BY <1>10 DEF Decode, Transfer
<1>11. CASE ProvideOutput
  BY <1>11 DEF ProvideOutput, WriteOutput, RewindOutput
<1>12. CASE FlushOutput
  BY <1>12 DEF FlushOutput, WriteOutput, RewindOutput, ExtraInput
<1>13. CASE \E where \in Working : FailsAt(where)
  BY <1>13 DEF FailsAt, Fail, Working
<1>14. CASE \E flushed, unlinked \in BOOLEAN : CloseFiles(flushed, unlinked)
  <2> PICK flushed \in BOOLEAN, unlinked \in BOOLEAN :
            CloseFiles(flushed, unlinked)
    BY <1>14
  <2>1. result' \in {0, -1, -2} /\ closeFailed' \in BOOLEAN /\ unlinkFailed' \in BOOLEAN
    BY DEF CloseFiles, CloseResult, RemoveOutput, TriesUnlink
  <2>2. dst' \in {"none", "old", "new"} /\ pc' \in PCs
    BY DEF CloseFiles, CloseResult, RemoveOutput, TriesUnlink
  <2>3. ~fin' /\ ~fout' /\ ~instance' /\ fin' \in BOOLEAN /\ fout' \in BOOLEAN
        /\ instance' \in BOOLEAN /\ buffer' \in BOOLEAN
    BY DEF CloseFiles, InputStaysOpen
  <2>4. UNCHANGED <<call, context, source, codec, written, caller>>
    BY DEF CloseFiles, CloseResult, RemoveOutput, TriesUnlink
  <2> QED
    BY <2>1, <2>2, <2>3, <2>4 DEF call, context, source, codec, caller
<1>15. CASE Notify
  BY <1>15 DEF Notify
<1>16. CASE UNCHANGED vars
  BY <1>16 DEF vars
<1> QED
  BY StepCases, <1>1, <1>2, <1>3, <1>4, <1>5, <1>6, <1>7, <1>8, <1>9, <1>10,
     <1>11, <1>12, <1>13, <1>14, <1>15, <1>16

\* No byte is lost or repeated.
LEMMA StepAccounting ==
  TypeOK /\ Accounting /\ Stages /\ Reads /\ [Next]_vars => Accounting'
<1> SUFFICES ASSUME TypeOK /\ Accounting /\ Stages /\ Reads, [Next]_vars
             PROVE  Accounting'
  OBVIOUS
<1> USE ConstantsAssumption DEF TypeOK, PCs, Accounting, Stages, Reads, call,
       context, source, codec, resources, output, caller
<1>1. CASE CreateTask
  BY <1>1 DEF CreateTask
<1>2. CASE NotifyTake
  BY <1>2 DEF NotifyTake
<1>3. CASE Malloc
  BY <1>3 DEF Malloc, NoMemory
<1>4. CASE CreateInstance
  BY <1>4 DEF CreateInstance
<1>5. CASE OpenFiles
  BY <1>5 DEF OpenFiles
<1>6. CASE OpenFails
  BY <1>6 DEF OpenFails
<1>7. CASE CompressRead
  BY <1>7 DEF CompressRead, NeedsRead, ProvideInput, ReadsPastEnd, Lesser
<1>8. CASE Encode
  BY <1>8 DEF Encode, NeedsRead, Transfer
<1>9. CASE DecompressRead
  <2>1. available_in = 0
    BY <1>9 DEF DecompressRead, Reads
  <2> QED
    BY <1>9, <2>1 DEF DecompressRead, ProvideInput, Lesser
<1>10. CASE Decode
  BY <1>10 DEF Decode, Transfer
<1>11. CASE ProvideOutput
  BY <1>11 DEF ProvideOutput, WriteOutput, RewindOutput
<1>12. CASE FlushOutput
  BY <1>12 DEF FlushOutput, WriteOutput, RewindOutput, ExtraInput
<1>13. CASE \E where \in Working : FailsAt(where)
  BY <1>13 DEF FailsAt, Fail, Working
<1>14. CASE \E flushed, unlinked \in BOOLEAN : CloseFiles(flushed, unlinked)
  BY <1>14 DEF CloseFiles, CloseResult, RemoveOutput, TriesUnlink, InputStaysOpen
<1>15. CASE Notify
  BY <1>15 DEF Notify
<1>16. CASE UNCHANGED vars
  BY <1>16 DEF vars
<1> QED
  BY StepCases, <1>1, <1>2, <1>3, <1>4, <1>5, <1>6, <1>7, <1>8, <1>9, <1>10,
     <1>11, <1>12, <1>13, <1>14, <1>15, <1>16

\* What is held at each point.
LEMMA StepStages == TypeOK /\ Accounting /\ Stages /\ [Next]_vars => Stages'
<1> SUFFICES ASSUME TypeOK /\ Accounting /\ Stages, [Next]_vars PROVE Stages'
  OBVIOUS
<1> USE ConstantsAssumption DEF TypeOK, PCs, Accounting, Stages, call,
       context, source, codec, resources, output, caller
<1>1. CASE CreateTask
  BY <1>1 DEF CreateTask
<1>2. CASE NotifyTake
  BY <1>2 DEF NotifyTake
<1>3. CASE Malloc
  BY <1>3 DEF Malloc, NoMemory
<1>4. CASE CreateInstance
  BY <1>4 DEF CreateInstance
<1>5. CASE OpenFiles
  BY <1>5 DEF OpenFiles
<1>6. CASE OpenFails
  BY <1>6 DEF OpenFails
<1>7. CASE CompressRead
  BY <1>7 DEF CompressRead, NeedsRead, ProvideInput, ReadsPastEnd, Lesser
<1>8. CASE Encode
  BY <1>8 DEF Encode, NeedsRead, Transfer
<1>9. CASE DecompressRead
  BY <1>9 DEF DecompressRead, ProvideInput, ReadsPastEnd, Lesser
<1>10. CASE Decode
  BY <1>10 DEF Decode, Transfer
<1>11. CASE ProvideOutput
  BY <1>11 DEF ProvideOutput, WriteOutput, RewindOutput
<1>12. CASE FlushOutput
  BY <1>12 DEF FlushOutput, WriteOutput, RewindOutput, ExtraInput
<1>13. CASE \E where \in Working : FailsAt(where)
  BY <1>13 DEF FailsAt, Fail, Working
<1>14. CASE \E flushed, unlinked \in BOOLEAN : CloseFiles(flushed, unlinked)
  BY <1>14 DEF CloseFiles, CloseResult, RemoveOutput, TriesUnlink, InputStaysOpen
<1>15. CASE Notify
  BY <1>15 DEF Notify
<1>16. CASE UNCHANGED vars
  BY <1>16 DEF vars
<1> QED
  BY StepCases, <1>1, <1>2, <1>3, <1>4, <1>5, <1>6, <1>7, <1>8, <1>9, <1>10,
     <1>11, <1>12, <1>13, <1>14, <1>15, <1>16

\* The end of the source is noticed when it is reached, not before.
LEMMA StepReads ==
  TypeOK /\ Accounting /\ Stages /\ Reads /\ [Next]_vars => Reads'
<1> SUFFICES ASSUME TypeOK /\ Accounting /\ Stages /\ Reads, [Next]_vars
             PROVE  Reads'
  OBVIOUS
<1> USE ConstantsAssumption DEF TypeOK, PCs, Accounting, Stages, Reads, call,
       context, source, codec, resources, output, caller
<1>1. CASE CreateTask
  BY <1>1 DEF CreateTask
<1>2. CASE NotifyTake
  BY <1>2 DEF NotifyTake
<1>3. CASE Malloc
  BY <1>3 DEF Malloc, NoMemory
<1>4. CASE CreateInstance
  BY <1>4 DEF CreateInstance
<1>5. CASE OpenFiles
  BY <1>5 DEF OpenFiles
<1>6. CASE OpenFails
  BY <1>6 DEF OpenFails
<1>7. CASE CompressRead
  BY <1>7 DEF CompressRead, NeedsRead, ProvideInput, ReadsPastEnd, Lesser
<1>8. CASE Encode
  BY <1>8 DEF Encode, NeedsRead, Transfer
<1>9. CASE DecompressRead
  BY <1>9 DEF DecompressRead, ProvideInput, ReadsPastEnd, Lesser
<1>10. CASE Decode
  BY <1>10 DEF Decode, Transfer
<1>11. CASE ProvideOutput
  BY <1>11 DEF ProvideOutput, WriteOutput, RewindOutput
<1>12. CASE FlushOutput
  BY <1>12 DEF FlushOutput, WriteOutput, RewindOutput, ExtraInput
<1>13. CASE \E where \in Working : FailsAt(where)
  BY <1>13 DEF FailsAt, Fail, Working
<1>14. CASE \E flushed, unlinked \in BOOLEAN : CloseFiles(flushed, unlinked)
  BY <1>14 DEF CloseFiles, CloseResult, RemoveOutput, TriesUnlink, InputStaysOpen
<1>15. CASE Notify
  BY <1>15 DEF Notify
<1>16. CASE UNCHANGED vars
  BY <1>16 DEF vars
<1> QED
  BY StepCases, <1>1, <1>2, <1>3, <1>4, <1>5, <1>6, <1>7, <1>8, <1>9, <1>10,
     <1>11, <1>12, <1>13, <1>14, <1>15, <1>16

\* The codec finishes with all of the stream read and produced.
LEMMA StepEnds ==
  TypeOK /\ Accounting /\ Stages /\ Reads /\ Ends /\ [Next]_vars => Ends'
<1> SUFFICES ASSUME TypeOK /\ Accounting /\ Stages /\ Reads /\ Ends, [Next]_vars
             PROVE  Ends'
  OBVIOUS
<1> USE ConstantsAssumption DEF TypeOK, PCs, Accounting, Stages, Reads, Ends,
       call, context, source, codec, resources, output, caller
<1>1. CASE CreateTask
  BY <1>1 DEF CreateTask
<1>2. CASE NotifyTake
  BY <1>2 DEF NotifyTake
<1>3. CASE Malloc
  BY <1>3 DEF Malloc, NoMemory
<1>4. CASE CreateInstance
  BY <1>4 DEF CreateInstance
<1>5. CASE OpenFiles
  BY <1>5 DEF OpenFiles
<1>6. CASE OpenFails
  BY <1>6 DEF OpenFails
<1>7. CASE CompressRead
  BY <1>7 DEF CompressRead, NeedsRead, ProvideInput, ReadsPastEnd, Lesser
<1>8. CASE Encode
  BY <1>8 DEF Encode, NeedsRead, Transfer
<1>9. CASE DecompressRead
  BY <1>9 DEF DecompressRead, ProvideInput, ReadsPastEnd, Lesser
<1>10. CASE Decode
  BY <1>10 DEF Decode, Transfer
<1>11. CASE ProvideOutput
  <2>1. UNCHANGED <<call, source, codec>> /\ pc = "provide"
    BY <1>11 DEF ProvideOutput, WriteOutput
  <2>2. verdict = "finished" => pc' = "flush"
    BY <1>11 DEF ProvideOutput
  <2>3. verdict # "finished" => pc' # "flush"
    BY <1>11 DEF ProvideOutput
  <2> QED
    BY <2>1, <2>2, <2>3 DEF call, source, codec
<1>12. CASE FlushOutput
  BY <1>12 DEF FlushOutput, WriteOutput, RewindOutput, ExtraInput
<1>13. CASE \E where \in Working : FailsAt(where)
  BY <1>13 DEF FailsAt, Fail, Working
<1>14. CASE \E flushed, unlinked \in BOOLEAN : CloseFiles(flushed, unlinked)
  BY <1>14 DEF CloseFiles, CloseResult, RemoveOutput, TriesUnlink, InputStaysOpen
<1>15. CASE Notify
  BY <1>15 DEF Notify
<1>16. CASE UNCHANGED vars
  BY <1>16 DEF vars
<1> QED
  BY StepCases, <1>1, <1>2, <1>3, <1>4, <1>5, <1>6, <1>7, <1>8, <1>9, <1>10,
     <1>11, <1>12, <1>13, <1>14, <1>15, <1>16

\* After the last write of a good call all of the output is written.
LEMMA StepClosing ==
  TypeOK /\ Accounting /\ Stages /\ Reads /\ Ends /\ Closing /\ [Next]_vars => Closing'
<1> SUFFICES ASSUME TypeOK /\ Accounting /\ Stages /\ Reads /\ Ends /\ Closing, [Next]_vars
             PROVE  Closing'
  OBVIOUS
<1> USE ConstantsAssumption DEF TypeOK, PCs, Accounting, Stages, Reads, Ends,
       Closing, Complete, call, context, source, codec, resources, output, caller
<1>1. CASE CreateTask
  BY <1>1 DEF CreateTask
<1>2. CASE NotifyTake
  BY <1>2 DEF NotifyTake
<1>3. CASE Malloc
  BY <1>3 DEF Malloc, NoMemory
<1>4. CASE CreateInstance
  BY <1>4 DEF CreateInstance
<1>5. CASE OpenFiles
  BY <1>5 DEF OpenFiles
<1>6. CASE OpenFails
  BY <1>6 DEF OpenFails
<1>7. CASE CompressRead
  BY <1>7 DEF CompressRead, NeedsRead, ProvideInput, ReadsPastEnd, Lesser
<1>8. CASE Encode
  BY <1>8 DEF Encode, NeedsRead, Transfer
<1>9. CASE DecompressRead
  BY <1>9 DEF DecompressRead, ProvideInput, ReadsPastEnd, Lesser
<1>10. CASE Decode
  BY <1>10 DEF Decode, Transfer
<1>11. CASE ProvideOutput
  BY <1>11 DEF ProvideOutput, WriteOutput, RewindOutput
<1>12. CASE FlushOutput
  BY <1>12 DEF FlushOutput, WriteOutput, RewindOutput, ExtraInput
<1>13. CASE \E where \in Working : FailsAt(where)
  BY <1>13 DEF FailsAt, Fail, Working
<1>14. CASE \E flushed, unlinked \in BOOLEAN : CloseFiles(flushed, unlinked)
  BY <1>14 DEF CloseFiles, CloseResult, RemoveOutput, TriesUnlink, InputStaysOpen
<1>15. CASE Notify
  BY <1>15 DEF Notify
<1>16. CASE UNCHANGED vars
  BY <1>16 DEF vars
<1> QED
  BY StepCases, <1>1, <1>2, <1>3, <1>4, <1>5, <1>6, <1>7, <1>8, <1>9, <1>10,
     <1>11, <1>12, <1>13, <1>14, <1>15, <1>16

\* What a finished call leaves behind.
LEMMA StepExit ==
  TypeOK /\ Accounting /\ Stages /\ Closing /\ Exit /\ [Next]_vars => Exit'
<1> SUFFICES ASSUME TypeOK /\ Accounting /\ Stages /\ Closing /\ Exit, [Next]_vars
             PROVE  Exit'
  OBVIOUS
<1> USE ConstantsAssumption DEF TypeOK, PCs, Accounting, Stages, Closing, Complete,
       Exit, Finished, NothingHeld, SuccessIsWhole, FailureLeavesNoPart, call,
       context, source, codec, resources, output, caller
<1>1. CASE CreateTask
  BY <1>1 DEF CreateTask
<1>2. CASE NotifyTake
  BY <1>2 DEF NotifyTake
<1>3. CASE Malloc
  BY <1>3 DEF Malloc, NoMemory
<1>4. CASE CreateInstance
  BY <1>4 DEF CreateInstance
<1>5. CASE OpenFiles
  BY <1>5 DEF OpenFiles
<1>6. CASE OpenFails
  BY <1>6 DEF OpenFails
<1>7. CASE CompressRead
  BY <1>7 DEF CompressRead, NeedsRead, ProvideInput, ReadsPastEnd, Lesser
<1>8. CASE Encode
  BY <1>8 DEF Encode, NeedsRead, Transfer
<1>9. CASE DecompressRead
  BY <1>9 DEF DecompressRead, ProvideInput, ReadsPastEnd, Lesser
<1>10. CASE Decode
  BY <1>10 DEF Decode, Transfer
<1>11. CASE ProvideOutput
  BY <1>11 DEF ProvideOutput, WriteOutput, RewindOutput
<1>12. CASE FlushOutput
  BY <1>12 DEF FlushOutput, WriteOutput, RewindOutput, ExtraInput
<1>13. CASE \E where \in Working : FailsAt(where)
  BY <1>13 DEF FailsAt, Fail, Working
<1>14. CASE \E flushed, unlinked \in BOOLEAN : CloseFiles(flushed, unlinked)
  BY <1>14 DEF CloseFiles, CloseResult, RemoveOutput, TriesUnlink, InputStaysOpen
<1>15. CASE Notify
  BY <1>15 DEF Notify
<1>16. CASE UNCHANGED vars
  BY <1>16 DEF vars
<1> QED
  BY StepCases, <1>1, <1>2, <1>3, <1>4, <1>5, <1>6, <1>7, <1>8, <1>9, <1>10,
     <1>11, <1>12, <1>13, <1>14, <1>15, <1>16

\* What the parent is told.
LEMMA StepTold == TypeOK /\ Stages /\ Told /\ [Next]_vars => Told'
<1> SUFFICES ASSUME TypeOK /\ Stages /\ Told, [Next]_vars PROVE Told'
  OBVIOUS
<1> USE ConstantsAssumption DEF TypeOK, PCs, Stages, Told, call, context,
       source, codec, resources, output, caller
<1>1. CASE CreateTask
  BY <1>1 DEF CreateTask
<1>2. CASE NotifyTake
  BY <1>2 DEF NotifyTake
<1>3. CASE Malloc
  BY <1>3 DEF Malloc, NoMemory
<1>4. CASE CreateInstance
  BY <1>4 DEF CreateInstance
<1>5. CASE OpenFiles
  BY <1>5 DEF OpenFiles
<1>6. CASE OpenFails
  BY <1>6 DEF OpenFails
<1>7. CASE CompressRead
  BY <1>7 DEF CompressRead, NeedsRead, ProvideInput, ReadsPastEnd, Lesser
<1>8. CASE Encode
  BY <1>8 DEF Encode, NeedsRead, Transfer
<1>9. CASE DecompressRead
  BY <1>9 DEF DecompressRead, ProvideInput, ReadsPastEnd, Lesser
<1>10. CASE Decode
  BY <1>10 DEF Decode, Transfer
<1>11. CASE ProvideOutput
  BY <1>11 DEF ProvideOutput, WriteOutput, RewindOutput
<1>12. CASE FlushOutput
  BY <1>12 DEF FlushOutput, WriteOutput, RewindOutput, ExtraInput
<1>13. CASE \E where \in Working : FailsAt(where)
  BY <1>13 DEF FailsAt, Fail, Working
<1>14. CASE \E flushed, unlinked \in BOOLEAN : CloseFiles(flushed, unlinked)
  BY <1>14 DEF CloseFiles, CloseResult, RemoveOutput, TriesUnlink, InputStaysOpen
<1>15. CASE Notify
  BY <1>15 DEF Notify
<1>16. CASE UNCHANGED vars
  BY <1>16 DEF vars
<1> QED
  BY StepCases, <1>1, <1>2, <1>3, <1>4, <1>5, <1>6, <1>7, <1>8, <1>9, <1>10,
     <1>11, <1>12, <1>13, <1>14, <1>15, <1>16

\* The invariant is inductive.
LEMMA StepInv == CallInv /\ [Next]_vars => CallInv'
  BY StepType, StepAccounting, StepStages, StepReads, StepEnds, StepClosing,
     StepExit, StepTold DEF CallInv

-----------------------------------------------------------------------------
\* The invariant of a call, for buffers, sources and outputs of any size.
LEMMA CallInvariant == Spec => []CallInv
<1>1. Init => CallInv
  BY InitInv
<1>2. CallInv /\ [Next]_vars => CallInv'
  BY StepInv
<1> QED
  BY <1>1, <1>2, PTL DEF Spec

\* No counter of Context leaves its buffer (brotli.c:206-252), and every step of the
\* call stays in the types of its C objects.
THEOREM TypeCorrect == Spec => []TypeOK
<1>1. CallInv => TypeOK
  BY DEF CallInv
<1> QED
  BY <1>1, CallInvariant, PTL

\* Across refills of the input buffer and flushes of the output buffer every byte read
\* is given to the codec once, and every byte it produced is written once
\* (brotli.c:206-252).
THEOREM BytesAreAccounted == Spec => []Accounting
<1>1. CallInv => Accounting
  BY DEF CallInv
<1> QED
  BY <1>1, CallInvariant, PTL

\* A call that reports success (brotli.c:660) has written all of the output, of a
\* source that was read to its end and was exactly one stream.
THEOREM SuccessMeansWhole == Spec => []SuccessIsWhole
<1>1. CallInv => SuccessIsWhole
  BY DEF CallInv, Exit
<1> QED
  BY <1>1, CallInvariant, PTL

\* However a call ends, both streams, the buffer and the codec are given back
\* (brotli.c:385-404).
THEOREM NothingIsHeld == Spec => []NothingHeld
<1>1. CallInv => NothingHeld
  BY DEF CallInv, Exit
<1> QED
  BY <1>1, CallInvariant, PTL

\* A call that fails leaves no part of an output, unless fclose or unlink failed
\* (brotli.c:385-404).
THEOREM FailuresLeaveNothing == Spec => []FailureLeavesNoPart
<1>1. CallInv => FailureLeavesNoPart
  BY DEF CallInv, Exit
<1> QED
  BY <1>1, CallInvariant, PTL

-----------------------------------------------------------------------------
\* A call that has not begun is idle.
LEMMA InitPromise == Init => Call!Init
  BY DEF Init, Call!Init, Finished

\* Each step of the task is a step of CodecCall or changes nothing the caller sees.
LEMMA StepPromise == CallInv /\ [Next]_vars => [Call!Next]_Call!vars
<1> SUFFICES ASSUME CallInv, [Next]_vars PROVE [Call!Next]_Call!vars
  OBVIOUS
<1> USE DEF CallInv, TypeOK, PCs, Stages, Finished, Whole, Told, Call!vars,
       call, context, source, codec, resources, output, caller
<1>1. ASSUME CreateTask PROVE Call!Begin \/ UNCHANGED Call!vars
  BY <1>1 DEF CreateTask, Call!Begin
<1>2. ASSUME NotifyTake PROVE Call!Tell \/ UNCHANGED Call!vars
  BY <1>2 DEF NotifyTake, Call!Tell
<1>3. ASSUME Malloc PROVE Call!Fail \/ UNCHANGED Call!vars
  BY <1>3 DEF Malloc, NoMemory, Call!Fail
<1>4. ASSUME CreateInstance PROVE Call!Fail \/ UNCHANGED Call!vars
  BY <1>4 DEF CreateInstance, Call!Fail
<1>5. ASSUME OpenFiles PROVE Call!Truncate
  BY <1>5 DEF OpenFiles, Call!Truncate
<1>6. ASSUME OpenFails PROVE UNCHANGED Call!vars
  BY <1>6 DEF OpenFails
<1>7. ASSUME CompressRead PROVE UNCHANGED Call!vars
  BY <1>7 DEF CompressRead, NeedsRead, ProvideInput, ReadsPastEnd, Lesser
<1>8. ASSUME Encode PROVE UNCHANGED Call!vars
  BY <1>8 DEF Encode, NeedsRead, Transfer
<1>9. ASSUME DecompressRead PROVE UNCHANGED Call!vars
  BY <1>9 DEF DecompressRead, ProvideInput, ReadsPastEnd, Lesser
<1>10. ASSUME Decode PROVE UNCHANGED Call!vars
  BY <1>10 DEF Decode, Transfer
<1>11. ASSUME ProvideOutput PROVE UNCHANGED Call!vars
  BY <1>11 DEF ProvideOutput, WriteOutput, RewindOutput
<1>12. ASSUME FlushOutput PROVE UNCHANGED Call!vars
  BY <1>12 DEF FlushOutput, WriteOutput, RewindOutput, ExtraInput
<1>13. ASSUME \E where \in Working : FailsAt(where) PROVE UNCHANGED Call!vars
  BY <1>13 DEF FailsAt, Fail, Working
<1>14. ASSUME \E flushed, unlinked \in BOOLEAN : CloseFiles(flushed, unlinked)
       PROVE Call!Succeed \/ Call!Fail
  <2> PICK flushed \in BOOLEAN, unlinked \in BOOLEAN :
            CloseFiles(flushed, unlinked)
    BY <1>14
  <2>1. /\ pc = "close" /\ pc' = "notify" /\ closeFailed' = ~flushed
        /\ dst' = (IF fout /\ result # 0 /\ unlinked THEN "none" ELSE dst)
        /\ (~unlinked => fout /\ result # 0) /\ UNCHANGED verdict
        /\ result' = (IF flushed THEN result ELSE -2)
        /\ UNCHANGED <<written, consumed, size, outSize, stream, mode, parent>>
    BY DEF CloseFiles, CloseResult, RemoveOutput, TriesUnlink, call, codec, caller
  <2>2. CASE flushed /\ result = 0
    <3>1. dst = "new" /\ Whole'
      BY <2>1, <2>2 DEF Closing, Complete, Whole, Finished
    <3> QED
      BY <2>1, <2>2, <3>1 DEF Call!Succeed, Whole, Finished, Told
  <2>3. CASE ~(flushed /\ result = 0)
    <3>1. result' # 0
      BY <2>1, <2>3
    <3>2. dst' = "none" \/ (dst' = dst /\ (dst = "new" => ~Whole'))
      BY <2>1, <2>3 DEF Closing, Complete, Whole
    <3> QED
      BY <2>1, <3>1, <3>2 DEF Call!Fail, Whole, Finished, Told
  <2> QED
    BY <2>2, <2>3
<1>15. ASSUME Notify PROVE Call!Tell \/ UNCHANGED Call!vars
  BY <1>15 DEF Notify, Call!Tell
<1>16. ASSUME UNCHANGED vars PROVE UNCHANGED Call!vars
  BY <1>16 DEF vars
<1> QED
  BY StepCases, <1>1, <1>2, <1>3, <1>4, <1>5, <1>6, <1>7, <1>8, <1>9, <1>10,
     <1>11, <1>12, <1>13, <1>14, <1>15, <1>16 DEF Call!Next

\* A call of a codec task is a CodecCall: it truncates its output at most once, ends
\* once, and the parent is told the outcome that flash shows. That it ends is left
\* to the runs.
THEOREM TaskKeepsPromise == Spec => Call!Safe
<1>1. Init => Call!Init
  BY InitPromise
<1>2. CallInv /\ [Next]_vars => [Call!Next]_Call!vars
  BY StepPromise
<1> QED
  BY <1>1, <1>2, CallInvariant, PTL DEF Spec, Call!Safe

=============================================================================
