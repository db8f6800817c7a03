---------------------------- MODULE BrotliTask ----------------------------
(***************************************************************************)
(* One call of comp_task or decomp_task (main/brotli.c, the same file in   *)
(* all four examples) by a parent task that blocks in ulTaskNotifyTake     *)
(* until the codec task notifies it of the result.                         *)
(*                                                                         *)
(* Bytes are counted, not represented: a file is its length, and the n-th  *)
(* byte written is the n-th byte the codec produced as long as every byte  *)
(* produced is written once (Accounting). The Brotli library is external:  *)
(* it may stop for want of input or of room for output in any of the ways  *)
(* its interface allows, and it may fail.                                  *)
(***************************************************************************)
EXTENDS Integers

CONSTANTS
  Buf,     \* kFileBufferSize
  MaxIn,   \* bound: length of the source file
  MaxOut,  \* bound: length of the whole output
  Prompt   \* TRUE: the parent blocks before the codec task can finish

ASSUME ConstantsAssumption ==
  /\ Buf \in Nat \ {0} /\ MaxIn \in Nat /\ MaxOut \in Nat \ {0}
  /\ Prompt \in BOOLEAN

VARIABLES
  \* the call: which task, and the source file: its length, how many bytes of it
  \* form the Brotli stream (decompression), and the length of the output
  mode, size, stream, outSize,
  \* the task and the fields of Context it works with; result is also the task's
  pc, available_in, available_out, next_out, is_eof, result,
  \* the source stream, the codec
  position, feof, consumed, produced, verdict,
  \* resources held, the destination file
  fin, fout, buffer, instance, dst, written, closeFailed, unlinkFailed,
  \* the parent and its notification value
  parent, notifyValue, returned

call      == <<mode, size, stream, outSize>>
context   == <<available_in, available_out, next_out, is_eof>>
source    == <<position, feof>>
codec     == <<consumed, produced, verdict>>
resources == <<fin, fout, buffer, instance>>
output    == <<dst, written, closeFailed, unlinkFailed>>
caller    == <<parent, notifyValue, returned>>
vars == <<call, pc, context, result, source, codec, resources, output, caller>>

-----------------------------------------------------------------------------
Lesser(a, b) == IF a < b THEN a ELSE b

\* A source of any length; a stream that ends before, at or after its end (extra
\* input, well formed, truncated); a destination that may exist from before.
Init ==
  /\ mode \in {"comp", "decomp"}
  /\ size \in 0..MaxIn /\ stream \in 1..(MaxIn + 1) /\ outSize \in 0..MaxOut
  /\ mode = "comp" => stream = 1 /\ outSize > 0
  /\ pc = "none" /\ result = 0
  /\ available_in = 0 /\ available_out = 0 /\ next_out = 0 /\ is_eof = FALSE
  /\ position = 0 /\ feof = FALSE
  /\ consumed = 0 /\ produced = 0 /\ verdict = "more_input"
  /\ fin = FALSE /\ fout = FALSE /\ buffer = FALSE /\ instance = FALSE
  /\ dst \in {"none", "old"} /\ written = 0
  /\ closeFailed = FALSE /\ unlinkFailed = FALSE
  /\ parent = "create" /\ notifyValue = 0 /\ returned = 0

-----------------------------------------------------------------------------
(* The parent: xTaskCreate, whose result is ignored, and ulTaskNotifyTake.  *)

CreateTask ==
  /\ parent = "create" /\ parent' = "take"
  /\ pc' \in {"malloc", "none"}
  /\ UNCHANGED <<call, context, result, source, codec, resources, output,
                 notifyValue, returned>>

\* A value other than 0 is taken at once; with 0 the parent blocks until the
\* next notification, even if one with the value 0 came before.
NotifyTake ==
  /\ parent = "take"
  /\ parent' = IF notifyValue = 0 THEN "waiting" ELSE "returned"
  /\ returned' = notifyValue
  /\ notifyValue' = 0
  /\ UNCHANGED <<call, pc, context, result, source, codec, resources, output>>

\* The end of the task: xTaskNotify with eSetValueWithOverwrite.
Notify ==
  /\ pc = "notify" /\ pc' = "deleted"
  /\ Prompt => parent = "waiting"
  /\ IF parent = "waiting"
       THEN parent' = "returned" /\ returned' = result /\ UNCHANGED notifyValue
       ELSE notifyValue' = result /\ UNCHANGED <<parent, returned>>
  /\ UNCHANGED <<call, context, result, source, codec, resources, output>>

-----------------------------------------------------------------------------
(* CompressFiles and DecompressFiles: allocate, open, run, close.           *)

\* Mutant: the task ends without a notification.
SilentEnd == "deleted"

\* Where the task goes on when malloc fails.
NoMemory == "notify"

Malloc ==
  /\ pc = "malloc"
  /\ \/ buffer' = TRUE /\ pc' = "create" /\ UNCHANGED result
     \/ result' = -1 /\ pc' = NoMemory /\ UNCHANGED buffer
  /\ UNCHANGED <<call, context, source, codec, fin, fout, instance, output,
                 caller>>

\* Without a codec instance the function returns before it opens a file.
CreateInstance ==
  /\ pc = "create"
  /\ \/ instance' = TRUE /\ pc' = "open" /\ UNCHANGED <<result, buffer>>
     \/ result' = -2 /\ pc' = "notify" /\ buffer' = FALSE /\ UNCHANGED instance
  /\ UNCHANGED <<call, context, source, codec, fin, fout, output, caller>>

\* OpenFiles, then InitializeBuffers: the output file is truncated at once.
OpenFiles ==
  /\ pc = "open" /\ pc' = "loop"
  /\ fin' = TRUE /\ fout' = TRUE /\ dst' = "new"
  /\ available_out' = Buf
  /\ UNCHANGED <<call, available_in, next_out, is_eof, result, source, codec,
                 buffer, instance, written, closeFailed, unlinkFailed, caller>>

OpenFails ==
  /\ pc = "open" /\ pc' = "close" /\ result' = -2
  /\ fin' \in BOOLEAN
  /\ UNCHANGED <<call, context, source, codec, fout, buffer, instance, output,
                 caller>>

\* Any "return BROTLI_FALSE" of the loop.
Fail(where) ==
  /\ pc = where /\ pc' = "close" /\ result' = -2
  /\ UNCHANGED <<call, context, source, codec, resources, output, caller>>

\* Mutant: the output is removed only when fclose fails.
RemoveOnCloseFailure(flushed) == ~flushed

\* rm_output is computed before the files are closed.
RemoveOutput(flushed) == result # 0

\* Mutant: the input is closed only together with an output.
CloseBoth == fin /\ ~fout

\* Both streams are closed, each if it is open.
InputStaysOpen == FALSE

\* Mutant: a failing fclose is not looked at.
CloseIgnored(flushed) == result

\* A failing fclose makes the call fail.
CloseResult(flushed) == IF flushed THEN result ELSE -2

\* unlink is called, and may fail: its result is not looked at.
TriesUnlink(flushed) == fout /\ RemoveOutput(flushed)

\* The instance is destroyed; CloseFiles; the buffer is freed. When fclose
\* fails without an earlier error, or unlink fails, the output stays where it is.
CloseFiles(flushed, unlinked) ==
  /\ pc = "close" /\ pc' = "notify"
  /\ fin' = InputStaysOpen /\ fout' = FALSE /\ instance' = FALSE /\ buffer' = FALSE
  /\ ~flushed => fout
  /\ ~unlinked => TriesUnlink(flushed)
  /\ closeFailed' = ~flushed /\ unlinkFailed' = ~unlinked
  /\ dst' = IF TriesUnlink(flushed) /\ unlinked THEN "none" ELSE dst
  /\ result' = CloseResult(flushed)
  /\ UNCHANGED <<call, context, source, codec, written, caller>>

-----------------------------------------------------------------------------
(* The buffers.                                                             *)

\* fread sets feof only when it comes back short.
ReadsPastEnd(n) == n < Buf

ProvideInput ==
  /\ LET n == Lesser(Buf, size - position)
     IN  /\ position' = position + n
         /\ available_in' = n
         /\ feof' = ReadsPastEnd(n)
  /\ UNCHANGED <<call, available_out, next_out, result, codec, resources,
                 output, caller>>

\* Mutant: what the buffer held stays in it.
KeepOutput == next_out

\* next_out = output, after a write.
RewindOutput == 0

WriteOutput ==
  /\ written' = written + next_out
  /\ next_out' = RewindOutput
  /\ UNCHANGED <<call, available_in, is_eof, source, codec, resources, dst,
                 closeFailed, unlinkFailed, caller>>

\* The codec takes some input and gives some output.
Transfer(i, o) ==
  /\ available_in' = available_in - i /\ consumed' = consumed + i
  /\ available_out' = available_out - o /\ produced' = produced + o
  /\ next_out' = next_out + o
  /\ UNCHANGED <<call, is_eof, result, source, resources, output, caller>>

-----------------------------------------------------------------------------
(* The loop of CompressFile.                                                *)

NeedsRead == available_in = 0 /\ ~is_eof

CompressRead ==
  /\ mode = "comp" /\ pc = "loop" /\ NeedsRead
  /\ pc' = "code"
  /\ ProvideInput
  /\ is_eof' = feof'

\* BrotliEncoderCompressStream: PROCESS stops when the input is used up or the
\* output is full; FINISH when the stream is complete or the output is full.
\* The last byte of the stream comes out of FINISH.
Encode ==
  /\ mode = "comp"
  /\ pc = "code" \/ (pc = "loop" /\ ~NeedsRead)
  /\ \E i \in 0..available_in, o \in 0..available_out :
       /\ produced + o <= (IF is_eof /\ i = available_in THEN outSize
                                                        ELSE outSize - 1)
       /\ \/ o = available_out
          \/ i = available_in /\ (is_eof => produced + o = outSize)
       /\ Transfer(i, o)
  /\ verdict' = IF is_eof /\ available_in' = 0 /\ produced' = outSize
                THEN "finished" ELSE verdict
  /\ pc' = IF available_out' = 0 THEN "provide"
           ELSE IF verdict' = "finished" THEN "flush" ELSE "loop"

-----------------------------------------------------------------------------
(* The loop of DecompressFile: what to do depends on the last verdict.      *)

DecompressRead ==
  /\ mode = "decomp" /\ pc = "loop" /\ verdict = "more_input" /\ ~feof
  /\ pc' = "code"
  /\ ProvideInput
  /\ UNCHANGED is_eof

\* "truncated input", or a stream that is no Brotli stream.
Reject ==
  /\ mode = "decomp"
  /\ verdict = "error" \/ (verdict = "more_input" /\ feof)
  /\ Fail("loop")

\* BrotliDecoderDecompressStream: stops at the end of the stream, for want of
\* input (all of it is used), for want of room (all of it is used), or on an error.
Decode ==
  /\ mode = "decomp" /\ pc = "code"
  /\ \E i \in 0..available_in, o \in 0..available_out :
       /\ consumed + i <= stream /\ produced + o <= outSize
       /\ Transfer(i, o)
  /\ \/ verdict' = "finished" /\ consumed' = stream /\ produced' = outSize
     \/ verdict' = "more_input" /\ available_in' = 0 /\ consumed' < stream
     \/ verdict' = "more_output" /\ available_out' = 0 /\ produced' < outSize
     \/ verdict' = "error"
  /\ pc' = CASE verdict' = "finished"    -> "flush"
             [] verdict' = "more_output" -> "provide"
             [] OTHER                    -> "loop"

-----------------------------------------------------------------------------
(* Output.                                                                  *)

ProvideOutput ==
  /\ pc = "provide"
  /\ WriteOutput
  /\ available_out' = Buf
  /\ pc' = IF verdict = "finished" THEN "flush"
           ELSE IF mode = "decomp" THEN "code" ELSE "loop"
  /\ UNCHANGED result

\* Mutant: only the bytes read so far are looked at.
NoLookAhead == available_in # 0

\* Bytes after the stream: in the buffer, or one more from fgetc.
ExtraInput == available_in # 0 \/ position < size

\* The last write. Decompression then rejects extra input.
FlushOutput ==
  /\ pc = "flush" /\ pc' = "close"
  /\ WriteOutput
  /\ available_out' = 0
  /\ result' = IF mode = "decomp" /\ ExtraInput THEN -2 ELSE result

\* fread, the codec or fwrite fails; with nothing to write no fwrite is made.
IOFails ==
  \/ (mode = "decomp" => verdict = "more_input" /\ ~feof) /\ Fail("loop")
  \/ mode = "comp" /\ Fail("code")
  \/ Fail("provide")
  \/ next_out # 0 /\ Fail("flush")

Task ==
  \/ Malloc \/ CreateInstance \/ OpenFiles \/ OpenFails
  \/ CompressRead \/ Encode \/ DecompressRead \/ Reject \/ Decode
  \/ ProvideOutput \/ FlushOutput \/ IOFails
  \/ \E flushed, unlinked \in BOOLEAN : CloseFiles(flushed, unlinked)
  \/ Notify

Next == CreateTask \/ NotifyTake \/ Task

\* Both tasks are ready whenever they can run, and the scheduler is preemptive.
Spec == Init /\ [][Next]_vars /\ WF_vars(NotifyTake) /\ WF_vars(Task)

-----------------------------------------------------------------------------
(* Properties.                                                              *)

PCs == {"none", "malloc", "create", "open", "loop", "code", "provide", "flush",
        "close", "notify", "deleted"}

\* The counters of Context stay within its two buffers, and every flag and
\* control point is one of those of the code.
TypeOK ==
  /\ mode \in {"comp", "decomp"} /\ pc \in PCs /\ result \in {0, -1, -2}
  /\ size \in 0..MaxIn /\ stream \in 1..(MaxIn + 1) /\ outSize \in 0..MaxOut
  /\ available_in \in 0..Buf /\ available_out \in 0..Buf /\ next_out \in 0..Buf
  /\ is_eof \in BOOLEAN /\ feof \in BOOLEAN
  /\ position \in 0..size /\ consumed \in Nat /\ produced \in Nat
  /\ verdict \in {"more_input", "more_output", "finished", "error"}
  /\ fin \in BOOLEAN /\ fout \in BOOLEAN /\ buffer \in BOOLEAN
  /\ instance \in BOOLEAN /\ closeFailed \in BOOLEAN /\ unlinkFailed \in BOOLEAN
  /\ dst \in {"none", "old", "new"} /\ written \in Nat
  /\ parent \in {"create", "take", "waiting", "returned"}
  /\ notifyValue \in {0, -1, -2} /\ returned \in {0, -1, -2}

\* Every byte read is consumed once and every byte produced is written once,
\* across refills of the input buffer and flushes of the output buffer; while
\* the loop runs the two ends of the output buffer agree.
Accounting ==
  /\ position = consumed + available_in
  /\ produced = written + next_out
  /\ pc \in {"loop", "code"} => available_out = Buf - next_out

Finished == pc \in {"notify", "deleted"}

\* Result 0 means the destination is the whole output of the whole source: a
\* source cut short, or with bytes after its stream, is never accepted.
SuccessIsWhole ==
  Finished /\ result = 0 =>
    /\ dst = "new" /\ written = outSize
    /\ consumed = size /\ (mode = "decomp" => stream = size)

\* A call that fails leaves no half-written destination, except when fclose failed
\* or the file could not be removed.
FailureLeavesNoPart ==
  Finished /\ result # 0 /\ ~closeFailed /\ ~unlinkFailed => dst \in {"none", "old"}

\* Whatever the exit, both streams, the buffer and the codec are given back.
NothingHeld == Finished => ~fin /\ ~fout /\ ~buffer /\ ~instance

\* A codec task that was created releases its parent, with its own result.
CallReturns == pc = "malloc" ~> (parent = "returned" /\ returned = result)

-----------------------------------------------------------------------------
(* The promise to the caller, see CodecCall.                                *)

\* The codec said that the stream is complete, the destination is all of the output
\* and was closed without a failure.
Whole ==
  /\ Finished /\ dst = "new" /\ ~closeFailed /\ verdict = "finished"
  /\ written = outSize /\ consumed = size
  /\ mode = "decomp" => stream = size

Call == INSTANCE CodecCall WITH
  state <- IF pc = "none" THEN "idle"
           ELSE IF ~Finished THEN "running"
           ELSE IF result = 0 THEN "succeeded" ELSE "failed",
  destination <- IF dst # "new" THEN dst
                 ELSE IF Whole THEN "whole" ELSE "part",
  told <- IF parent # "returned" THEN "nothing"
          ELSE IF returned = 0 THEN "succeeded" ELSE "failed"

\* main/brotli.c keeps that promise: a call that has begun truncates its output at
\* most once, ends once, and the parent is told the outcome that flash shows.
KeepsPromise == Call!Spec

=============================================================================
