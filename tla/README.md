# A TLA+ model of esp-idf-brotli

esp-idf-brotli shows how to compress and decompress files with Brotli on an
ESP32. It is four firmware examples (`spiffs`, `mqtt`, `tcp-server`,
`http-server`) that share one file, `main/brotli.c`, and two host scripts that
upload a file, have it compressed and fetch the result. This directory holds
TLA+ modules of the parts that have state and concurrency, TLC configurations
that check them, and TLAPS proofs of their safety properties.

    tlc -config MC_sub_paced.cfg MC_MqttSub      (any run below)
    tlapm MqttSub_proofs.tla                     (and the other *_proofs.tla)

The runs, the lines each definition stands for and the list of hazards are in
`PROJECT.json`.

## 1. The system

| Component | State | Operations | Talks to |
|---|---|---|---|
| SUB task, `mqtt/main/mqtt_sub.c` | the mailbox `mqttBuf` (event, topic, data), a notification; locals `filename`, `filepath`, `file`, `fileOpen`, MD5 context | event handler (library's task); header, block, tailer of an upload; GET, LIST, DELETE | main task, by `xQueueSubscribe`; flash |
| main task, `mqtt/main/main.c` | the two queues | forward a request to PUB; compress an accepted upload | SUB, PUB, codec task |
| PUB task, `mqtt/main/mqtt_pub.c` | `queueBuf`, stream and MD5 of a GET | event handler (posts to its own queue), `wait_for`, answers to PUT, GET, LIST, DELETE | host, by MQTT; flash |
| host script, `mqtt/mqtt-file.py` | `wait_flag`, `run_flag`, received blocks | upload, download, delete, list | broker |
| codec tasks, `main/brotli.c` | `Context`: two buffers with their counters, two streams, the codec's state | `comp_task`, `decomp_task` | parent task, by a notification; flash |
| `spiffs/main/main.c` | none | one compression, one decompression | codec tasks |
| TCP server, `tcp-server/main/tcp_server.c` | the session, `fileOpen`, stream, MD5 context | accept, `receive_command`, `put_file`, `get_file`, `del_file`, `compress` | client; codec task; flash |
| client script, `tcp-server/tcp-client.py` | position in a fixed list of requests, received packets | the same requests from the other end | server |
| HTTP server, `http-server/main/file_server.c` | two partitions, `/data` and `/zip`; the handler in progress | list, download, upload, delete, compress | browsers; codec task; flash |
| start-up, `event_handler` and `wifi_init_sta` of the networked `main.c` | `s_retry_num`, an event group of two bits | join the access point, retry, give up; mount | Wi-Fi driver; `app_main` |

What is hard here:

* *Shared memory without a lock.* SUB's event handler writes `mqttBuf` in the
  task of esp-mqtt while SUB reads it, more than once per message.
* *One queue for two purposes.* PUB's queue carries requests from the main
  task and PUBLISHED events from PUB's own handler; `wait_for` takes the next
  entry, whichever it is.
* *In-band framing.* MQTT uploads use QoS 0 and separate topics without a
  number, and know a header or tailer by a length of 128 bytes, which the last
  block of a file may have, and six letters; the TCP protocol knows them by the
  first six bytes of any message, file contents included.
* *A wake-up with the value 0.* A codec task reports success to its parent
  with a notification whose value is 0, which `ulTaskNotifyTake` does not
  distinguish from no notification.
* *Partial failure.* `fopen`, `fread`, `fwrite`, `fclose`, `unlink`, the codec
  and `xTaskCreate` can each fail between two steps of an operation; `fclose`
  is the one whose result is ignored nearly everywhere. Ignored as well: the
  results of `unlink` and `xTaskCreate`, and the difference between the end of
  a file and an error of `fread`.
* *Answers ahead of deeds.* The TCP server sends OK for a compression or a
  deletion before it tries it; a failure or a restart in between is not told.
* *Nobody watches the clock.* `recv` has no time-out at either end of the TCP
  example, and no task joins a lost access point again.
* *Limits.* Four open files per mount, queues that give up after ten ticks,
  files whose length is a multiple of the buffer.

What correctness means, per component:

* SUB: an acknowledged upload is what the host sent; a request names what the
  host named; no stream leaks.
* PUB and main: every request gets one answer, its own; a download after an
  upload is the new compressed file, all of it.
* Codec: no byte lost or repeated; success only for all of a source that is
  exactly one stream; nothing half-written or held on a failure; the parent is
  released.
* TCP: a client that goes on knows its file to be stored; a valid download is
  the compressed file; a finished run leaves nothing; the server comes back.
* HTTP: a compressed file belongs to the source beside it; no unfinished
  upload stays; an upload never replaces another; requests are answered.
* Start-up: the chip gives up after the configured number of retries, and by
  restarting comes up in the end.

## 2. The modules

| Module | Models | EXTENDS |
|---|---|---|
| `MqttSub` | SUB, its handler, the uploading host | |
| `MqttSub_proofs` | the types of `MqttSub`, and its acknowledgements | `MqttSub`, `TLAPS` |
| `MqttOrder_proofs` | its requests, and whole uploads | `MqttSub_proofs` |
| `CodecCall` | what a caller of a codec task may rely on (abstract) | |
| `BrotliTask` | one call of a codec task and its parent; implements `CodecCall` | |
| `BrotliTask_proofs` | the theorems about `BrotliTask` | `BrotliTask`, `TLAPS` |
| `MqttPub` | main task, PUB, its handler, the requesting host | |
| `MqttPub_proofs` | the theorems about `MqttPub` | `MqttPub`, `TLAPS` |
| `TcpSession` | TCP server and client script | |
| `TcpSession_proofs` | the theorems about `TcpSession` | `TcpSession`, `TLAPS` |
| `FileStore` | what a client of the HTTP server may rely on (abstract) | |
| `WifiStation` | joining the access point: `event_handler`, `wifi_init_sta` | |
| `WifiStation_proofs` | the invariant of the start-up, as lemmas | `WifiStation`, `TLAPS` |
| `HttpFileServer` | all handlers of the HTTP server, its start-up, several clients; implements `FileStore` | `WifiStation` |
| `HttpFileServer_proofs` | the theorems about `HttpFileServer` | `HttpFileServer`, `WifiStation_proofs` |
| `HttpStore_proofs` | that it implements `FileStore` | `HttpFileServer_proofs` |
| `MC_*` | model values, files, symmetry for TLC | the module named |

Each networked example is a program of its own; nothing connects them except
`brotli.c`. They call it in the same way: create the task, wait for the
notification, read the result. `BrotliTask` models that call in detail.
`MqttPub`, `TcpSession` and `HttpFileServer` contain it as one step (or two,
when something can happen in between) whose outcomes are those of `CodecCall`:
the whole output, or a failure that leaves the old file, no file or, when
`fclose` or `unlink` failed, a part. `BrotliTask` is shown to have no others.
What it shows of the notification is taken over as well: in the three servers
a success may be notified too early (the fault `early`) and the task may not
have been created (`memory`); both leave the caller waiting for ever. `MqttSub` and `MqttPub` meet
at `xQueueSubscribe`: `MqttSub` checks what is put in, `MqttPub` starts from a
correct entry.

### MqttSub

The mailbox is `event_id, topic, data_len, data, notified`. The handler's
`MQTT_EVENT_DATA` case is the sequence `Receive`, `CopyTopic`, `CopyLength`,
`CopyData`, `Give`: three stores another task can see between, then
`xTaskNotifyGive`. SUB's loop is one action from each use of the mailbox or of
flash to the next: the take, the dispatch on the event, then on the topic, and
for an upload `open`; `write`, then `hash`; `close`. SUB reads the mailbox
anew in each of them, as the code does, never a copy. `send` is the
`xQueueSend` that gives up on a full queue. A block of a file is one value of
`Chunks`; a digest is the sequence of blocks it was computed from, which takes
MD5 to be injective; `Garbled` is what a reader sees of two messages mixed.
`fwrite` and `fclose` may fail; `torn` remembers that one did.

SUB tells the messages of an upload apart by `process_message`: a length of 128
bytes and the first six letters. The host reads the file in blocks of 512
bytes, so that only the last can have 128 (`Blocks128`). `HeaderLike` and
`TailerLike` are the blocks that pass the test; `NameIn` and `DigestIn` are
what SUB finds in them. `claimed` collects the digests that stand in blocks of
the host's files.

The host publishes header, blocks and tailer, may give up an upload, and may
ask for a file or a deletion. QoS 0 delivery may lose any message. The
library's other events (SUBSCRIBED, PUBLISHED, DISCONNECTED, ERROR) overwrite
`event_id` as line 55 does.

`Paced` is the assumption that a message arrives only when SUB has dealt with
the one before. `mqtt-file.py` publishes a message, waits for the broker's
acknowledgement and polls every 0.25 s, which usually gives SUB that time.
Nothing in the firmware ensures it: a write that makes SPIFFS collect garbage
takes longer, and the network delivers messages in bunches. So the paced runs
say what the program does when its timing holds, and `sub_overlap` what
happens when it does not.

### BrotliTask

Bytes are counted. `CompressRead`, `Encode`, `DecompressRead`, `Decode`,
`ProvideOutput` and `FlushOutput` keep `available_in`, `available_out`,
`next_out` and `is_eof` as `Context` does. The library may stop for want of
input or room in every way its interface allows. `Init` chooses the task, the
length of the source, where its stream ends (before, at or after the file) and the length of the output. A destination may exist from before.
The `unlink` that should remove a failed output may fail. Options that `init_context` fixes to one
value are left out, with the branches they close.

`CodecCall` says the same from outside: a call begins, truncates the
destination at most once, succeeds with all of it or fails, and tells its
caller which. `Call` in `BrotliTask` is the refinement mapping: the state is
read off `pc` and `result`, the destination counts as `whole` only if every
byte is written, the source is exactly used up and no `fclose` failed, and what
the caller was told is what `ulTaskNotifyTake` returned. `result` and flash are
thus independent in the mapping, and a success reported for a part would be a
step `CodecCall` does not have.

### TcpSession

The script is a list of nine steps; for each it sends and then waits for two
bytes, or exits. `sys.exit` and an uncaught exception are the states `exited`
and `crashed`. The server is at `accept`, `command`, `put`, or in an
operation; `put_file` decides by the contents of a message whether it is a
header, a block or a tailer. Blocks can look like a header, look like a tailer
and hold a digest (`DigestIn`), or be 128 bytes that are not UTF-8. When such a
block ends an upload early, the rest of it reaches `receive_command`, which
answers nothing (`Ignore`) or makes a path of it that may be too long
(`Panic`). `fread` that fails is taken for the end of the file (`Read`). The files exist across runs, and so do the
open streams in `handles`.

A connection can end at one side only. After `Restart` of the chip it is
`half`: the script does not know, waits for ever if it was in `recv`, and is
told by a reset if it sends. After `Vanish` of the host it is `silent`: the
server learns of it only when TCP gives up retransmitting something
(`GiveUp`). The host may be gone altogether, or have lost only its network:
then the script, if it was in `recv`, waits for ever (`deaf`). `stuck` is the
server that waits for a codec task that notifies it no more. `Interrupt` is Ctrl-C, where the operating system closes the
socket. A restart cuts a file that is being written to some prefix
(`LeftOnFlash`). The history variable `made` remembers what the compressed
file is the compressed form of, so that a stale one can be told from the one
asked for.

### MqttPub

`subscribeQ` and `publishQ` are the queues. PUB's control points are those of
its answers, and `waiting` says that it is in `wait_for`, from which any entry
releases it. `outbox` is the MQTT client's store of unacknowledged messages,
which it sends again after a reconnection. The host hears every message of the
topics it subscribed to and stops waiting at a header or a tailer as
`on_message` does. A last block of 128 bytes that is not UTF-8 (`Unreadable`)
ends the thread that hears: the script is `dead`, and run again. `fread` that
fails ends a GET as the end of the file does. When the access point is lost (`joined`) nobody joins it
again: each attempt of esp-mqtt to connect ends in a DISCONNECTED event, which
ends PUB if its loop takes it and is lost if `wait_for` does. The main task
forwards, compresses, and deletes itself when the codec reports a failure; it
is `stuck` when there is no codec task to wait for, or none any more.

### HttpFileServer

esp_http_server serves one request at a time in one task: a handler is a
sequence of actions with `phase` between them where it touches flash, the
socket or the codec, and only the clients and the power supply act in
between. `/data` and `/zip` are functions from names to files. A name is the
sequence of its parts, so that `strstr(filename, ".br")` and the test for a
trailing slash can be expressed, and is as long as it has parts.

A fault is one of ten kinds, and `Faults` is the set of those sets of kinds
that may occur in one behaviour. `unlink` may fail wherever it is called, after
a failed upload and a failed compression included. `fread` that fails in the
middle of a download ends it, and the client takes it for complete. `hung` is
the server that waits for a notification that does not come.

Before the server there is `app_main`: it joins the network and mounts the
partitions, `Mount`, which may format one of them after a restart. The
server starts in phase `boot` and goes back to it at a loss of power.

`FileStore` is the same from outside: a name holds an upload and perhaps its
compressed form, and a request changes one name in one step. `Store` in
`HttpFileServer` is the refinement mapping: an upload under way is hidden,
a compressed form counts only when it is the whole one of the file beside it,
and while a deletion or a compression is under way its name has none. After a
restart, or a failure of `unlink` or `fclose`, which no handler looks at, the
abstract store is `damaged` and promises nothing more.

### WifiStation

The driver's events wait in `events`; `event_handler` takes them in the event
loop's task, counts retries in `s_retry_num` and sets one of two bits, on which
`wifi_init_sta` waits in `app_main`'s. A failure is handed to
`ESP_ERROR_CHECK`, which restarts the chip. The code is the same in `mqtt`,
`tcp-server` and `http-server` and is composed with the last; `failures` is a
history variable.

## 3. What the runs show

| Run | Question | Result |
|---|---|---|
| `sub_paced` | is an acknowledged upload the one sent, with losses, abandoned uploads, reconnections and failing flash? | holds |
| `sub_overlap` | the same, when a message arrives during the work on another | `AckSound` violated |
| `sub_full` | is an acknowledged upload on flash even when `fclose` fails? | `AckDurable` violated |
| `comp_task` | one codec call, every failure, sizes around the buffer | holds |
| `comp_lost_wakeup` | does the call return if the codec task is quick? | `CallReturns` violated |
| `tcp_session` | two runs of the script with resets, restarts, vanished and deaf hosts, interrupts and failures of flash, codec, task creation and notification | holds |
| `tcp_inband` | any file contents, no fault | `SmoothRun` violated |
| `tcp_leak` | six runs, lost connections in earlier ones | `SmoothRun` violated |
| `pub_serial` | two runs, one request at a time, loss of connection or access point, restart, failing flash, codec, task creation and notification, a block that cannot be decoded | holds |
| `pub_swallow` | does `wait_for` wait for PUBLISHED? | `WaitTakesNoRequest` violated |
| `http_server` | start-up, two clients, three requests, ten kinds of faults | holds |
| `http_kept` | is every kept file served? | `KeptIsServed` violated |

### The properties that hold

* `MqttSub`: `AckSound` (an ACK means the file held an upload the host
  completed, or what a digest inside one of its files was computed from,
  however messages were lost or uploads mixed), `OrderlyAnswer`
  (with nothing lost and no block that looks like a header or tailer, the
  answer names the right file and is positive unless a write failed), `RequestFaithful` (GET and DELETE never take the name of
  another message), `NoHandleLeak`.
* `BrotliTask`: `Accounting`, `SuccessIsWhole`, `FailureLeavesNoPart`,
  `NothingHeld`, `CallReturns`, and `KeepsPromise`, which is `CodecCall!Spec`
  with its fairness.
* `TcpSession`: `UploadSound`; `DownloadSound` (a valid download is of the
  compressed form of the file sent in this run, although OK precedes the
  compression, and all of it unless a read failed); `DoneLeavesNothing`; `ServerReturns`; `RunEnds`.
* `MqttPub`: `GetWhole`, `OneAnswer`, `DeletedIsGone`, `WaitsForPublished`,
  `EveryRequestAnswered`, and `LossEndsPub`: PUB does not wait for ever for an
  acknowledgement that cannot come.
* `HttpFileServer`: `CompressedMatches`, `NoUnfinishedFile`, `NeverReplaced`,
  `DownloadSound`, `EveryRequestAnswered`, and `ActsAsStore`, which is
  `FileStore!Spec`. For the start-up: `ServerComesUp` and
  `GivesUpAfterRetries`.

A property names in its own statement the faults it does not survive. These
exemptions are results too: dropping one gives a counterexample.

* `AckSound` allows a digest that stands in a block, `OrderlyAnswer` and
  `NoHandleLeak` speak of traffic without blocks that look like a header or a
  tailer.
* `UploadSound` needs `fclose` not to fail.
* `FailureLeavesNoPart`, `NoUnfinishedFile` and `CompressedMatches` need
  `fclose` and `unlink` to succeed, since nobody looks at the result of the
  latter; the last two also need the chip not to restart.
* The downloads are whole unless a read failed; over HTTP also unless the client
  is slow.
* `RunEnds` leaves out three states: `stuck`; `BothWait`, after `get_file` has
  returned silently or a block has ended an upload; and `NobodyThere`, a script
  in `recv` when the chip restarts or its network is lost.
* `ServerReturns` leaves out a host that vanishes while it owes nothing, and
  `stuck`.
* `DoneLeavesNothing` does not survive a restart between the OK for a deletion
  and `unlink`, nor a failing `unlink`.
* `GetWhole` fails after a restart during compression, which leaves a part that
  is later sent with a valid hash.
* `DeletedIsGone` speaks of runs without a fault: a restart between the ACK and
  `unlink`, or a failing `unlink`, leaves the file.
* `EveryRequestAnswered` (MQTT) ends with an interruption, with a block that the
  script cannot decode (`dead`), and with the main task at the first failing
  compression; that of the HTTP server ends when a
  client stalls, or the server waits for a codec task that is not there.
* `ServerComesUp` needs partitions that can be formatted.

### The disagreements

1. `sub_overlap` - `mqtt_sub.c:285`, "File copied OK - valid hash". The block is
   written from the mailbox at line 302 and hashed from it at line 308.
   The next message arriving in between, the hash is valid and the file is not.
2. `sub_full` - the same comment. The result of `fclose` (line 264) is ignored:
   on a full partition the last block is missing from an acknowledged file.
3. `comp_lost_wakeup` - `spiffs/README.md:31` shows `comp_result=0`. The value 0
   of success does not wake a parent that reaches `ulTaskNotifyTake` later.
   `xTaskCreate` gives the codec task the parent's priority and no core: it may
   run on the other core at once, or the parent may lose the processor before
   line 120. The order is possible, though a compression usually takes far
   longer than the parent needs.
4. `tcp_inband` - a block beginning with `header` or `tailer` cuts an upload
   short; a last packet of 128 bytes that is not UTF-8 ends the script.
5. `tcp_leak` - `put_file` and `get_file` leave the stream open when the
   connection is lost; `max_files` is 4.
6. `pub_swallow` - `mqtt_pub.c:111`, "wait MQTT_EVENT_PUBLISHED". A request
   waiting in the queue is taken instead and never answered.
7. `http_kept` - `file_server.c:313`, "Handler to download a file kept on the
   server". A name with `.br` in it is stored in `/data` and looked up in
   `/zip`. `b.br.txt` is listed and answered with 404; `a.br` is not even listed,
   since the list skips names that end in `.br`.

What follows is visible in the model and has no run of its own; each is an
exemption of a property above, or a counterexample when it is dropped:

* A last block of 128 bytes that begins with `tailer` and holds the digest of the
  blocks before it ends an MQTT upload, which is acknowledged without that
  block (`mqtt_sub.c:128`). One that looks like a header opens a second stream
  over the first (250). Over TCP both sides then wait for ever: the message after
  the OK is no command, and nobody answers it (`tcp_server.c:386`).
* `fread` returns 0 at the end of a file and when it fails. The digest of a part
  is found valid (`tcp_server.c:306`, `mqtt_pub.c:255`), and the empty chunk
  completes a part over HTTP (`file_server.c:386`).
* The empty chunk also follows a chunk that was not sent in time
  (`file_server.c:393`, "Abort sending file"), and ends the response instead.
* "File deleted successfully" (`file_server.c:588`) whatever `unlink` returned.
* A last block of 128 bytes that is not UTF-8 raises an exception in paho's
  thread (`mqtt-file.py:60`): the download does not come to its end.
* `Kconfig.projbuild:19` of the examples says that the maximum of retries is there
  "to avoid station reconnecting to the AP unlimited when the AP is really
  inexistent". The start-up does give up after it (`GivesUpAfterRetries`), but by
  way of `ESP_ERROR_CHECK` (`http-server/main/main.c:238`), so the chip restarts
  and tries again without end.

### Bounds

| Run | Bounds | Why they are enough |
|---|---|---|
| `sub_paced` | 2 names, 3 blocks: a plain one, one that looks like a header, one that looks like a tailer with the digest of a plain block; uploads of 2 blocks, 6 events, 2 open files, queue of 1 | an upload takes 3 to 4 events, so another can be begun, lost or asked for in the middle of it; a queue of 1 is full at the second request; 2 streams make one leak visible. Contents differ by length |
| `sub_overlap`, `sub_full` | 1 block, 5 events | one upload and one extra message |
| `comp_task` | buffer of 2, source and output up to 5 | empty, less than a buffer, exact multiples, and one more than two; every position of the stream's end relative to a buffer |
| `tcp_session` | files of 0 to 2 blocks, 2 runs, 4 streams, every set of faults in a run, 1 restart in each | the second run meets what the first left; header, block and tailer in every order the contents allow |
| `tcp_inband` | files of 0 to 2 blocks, 1 run, no fault | one block that is not what it looks like |
| `tcp_leak` | 6 runs | more than the 4 streams of `tcp-server/main/main.c:152` |
| `pub_serial` | 2 blocks, queues of 2, 2 runs, 1 list, 1 loss or restart, every set of other faults, the first upload's last block not decodable | the second run meets the files of the first, whether that came to its end or not; an answer has header, two blocks and tailer |
| `pub_swallow` | queue of 10 (`main.c`), 1 run, no fault | the smallest overlap of two requests |
| `http_server` | 2 clients, 3 requests, sizes within and above the limit, 1 kind of fault at a time, or one of `gone`, `flash`, `codec` with `unlink`, 1 retry | a first attempt, a retry and giving up, each also after an address was lost; upload, compress, and delete or a second upload of one name, with a failure anywhere |
| `http_kept` | 1 client, 3 requests | upload and download of each kind of name |

Actions stop at the bounds (`MaxEvents`, `MaxRuns`, `MaxLists`, `MaxLosses`,
`MaxRequests`), faults stay within `Faults`, and tasks of the program end by design, so every
configuration sets `CHECK_DEADLOCK FALSE`; that nobody waits for ever is the
matter of the liveness properties.

### Fairness

* `MqttSub`: none. Only safety is claimed; SUB may be arbitrarily slow.
* `BrotliTask`: weak fairness of the codec task and of the parent's
  `ulTaskNotifyTake`. Both are ready whenever enabled and FreeRTOS shares the
  processor among ready tasks of one priority. `Prompt` is the assumption that
  the parent blocks before the codec task ends; `comp_lost_wakeup` drops it.
* `TcpSession`: weak fairness of server and script, on their own machines, and
  of TCP's giving up (a timer); resets may happen and need not.
* `MqttPub`: weak fairness of both tasks, of the broker's acknowledgement, of
  the reconnection esp-mqtt makes by itself, whether it can succeed or not,
  and of the script's polling loop. `Punctual` says that requests come one at a time.
* `HttpFileServer`: weak fairness of the handler unless its client stalls, and
  of accepting each client: the server's `select` loop visits all sockets.
  During the start-up, weak fairness of `app_main` and of event loop and radio
  together, which are tasks of their own, and strong fairness of the access
  point: it may refuse many attempts, but not all of infinitely many. Without
  it `ServerComesUp` would be a claim about the neighbourhood.

No fairness is put on faults or on sending another request.

## 4. What is proved

Every safety property of the passing runs, invariant or action property, is a
theorem, and so is the safety part of both refinements. The runs show them on
small instances, the theorems for all values of the constants: any number of
names, blocks, clients, runs and faults, any length of queues, files and
buffers.

| Theorem | States | In |
|---|---|---|
| `TypeCorrect` | `[]TypeOK` | one for each component that has a run |
| `AcksAreSound` | `[]AckSound`, if `Paced` | `MqttSub_proofs` |
| `RequestsAreFaithful` | `[]RequestFaithful`, if `Paced` | `MqttOrder_proofs` |
| `NoHandleLeaks`, `OrderlyAnswers` | `[]NoHandleLeak`, `[]OrderlyAnswer` | `MqttOrder_proofs` |
| `BytesAreAccounted`, `SuccessMeansWhole`, `NothingIsHeld`, `FailuresLeaveNothing` | `[]Accounting`, `[]SuccessIsWhole`, `[]NothingHeld`, `[]FailureLeavesNoPart` | `BrotliTask_proofs` |
| `TaskKeepsPromise` | `Call!Safe`, the safety part of `KeepsPromise` | `BrotliTask_proofs` |
| `UploadsSound`, `DownloadsSound`, `RunsLeaveNothing` | `[]UploadSound`, `[]DownloadSound`, `[]DoneLeavesNothing` | `TcpSession_proofs` |
| `OneAnswerOnly`, `DownloadsWhole`, `DeletionsDone`, `WaitsProperly` | `[]OneAnswer`, `[]GetWhole`, `[]DeletedIsGone`, `WaitsForPublished`, if `Punctual` | `MqttPub_proofs` |
| `NothingSwallowed` | `WaitTakesNoRequest`, if `Punctual` and nothing fails but uploads, the codec and the start and end of its task | `MqttPub_proofs` |
| `UploadsEndWhole`, `CompressedBesideSource`, `DownloadsSound`, `NothingReplaced`, `RetriesUsed` | `[]NoUnfinishedFile`, `[]CompressedMatches`, `[]DownloadSound`, `NeverReplaced`, `GivesUpAfterRetries` | `HttpFileServer_proofs` |
| `Implements` | `ActsAsStore` | `HttpStore_proofs` |

Each component has one inductive invariant, checked by TLC on the instance of
its run before it was proved; the properties follow from it. The proof that a
step keeps it takes `Next` apart by action, and under an action has one step
for each part of the invariant.

### Assumptions

Every module assumes of its constants that limits are numbers and that the
values that stand for "no file" are no files. What is more than that:

* `MqttSub`: the model values are distinct. `Paced`, for two of the theorems,
  is needed and not merely convenient: `sub_overlap` shows `AckSound` fail
  without it. `TypeCorrect`, `NoHandleLeaks` and `OrderlyAnswers` do not use it.
  Blocks of 128 bytes are in all theorems; the last two speak of traffic in
  which none is taken for a header or a tailer.
* `MqttPub`: `Punctual`, for all but `TypeCorrect`. `pub_swallow` shows what
  happens without it, and `NothingSwallowed` that nothing else makes `wait_for`
  take a request as long as connection, chip and flash hold. It also says that the
  script does not time out before an answer. `MaxRuns` is at
  least 1: the script runs.
* `HttpFileServer`: `MaxSize` is positive (the code's limit is 200 KB), and
  `ValuesAssumption`: `Absent` and `Part` are neither requests nor files.
* `TcpSession`: `ConstantsAssumption` only; files may be empty, and blocks may
  look like a header, look like a tailer with any digest, or not be text.

### SUB

* `TypeOK` is not inductive: a file's stream must be counted in `handles` to
  keep it above zero when the stream is closed, and `Streams` says so.
* `AckInv`, for `AckSound`, is
  - `Exclusive`: while the handler is copying, SUB waits and has no
    notification pending. This is where `Paced` is used, and it makes the
    two reads of the mailbox agree;
  - `FileIsHashed`: while an upload is open and not torn, the file holds what
    the MD5 context has seen (between `write` and `hash`, that and the block
    in the mailbox);
  - `DigestsKnown`: a digest in a tailer, or in what looks like one, under way
    or in `md5`, is the one of an upload the host completed or stands in a block
    of one of its files;
  - `AckSound` itself, which follows at `close`: equal digests, hence equal
    blocks.
* `RequestInv`, for `RequestFaithful`, adds that the mailbox is `Mirrored`: what
  the handler has copied so far agrees with the event it copies.
* `OrderInv`, for the other two, does not use `Paced` but `orderly`, the history
  variable that notes a loss, an upload given up, a message that found SUB
  at work, or a block that looks like a header or a tailer. A message changes the host's state when it is published
  and SUB's when it is dealt with; in between, the message on its way accounts
  for the difference (`Expected`), and before and after there is none
  (`Settled`). From the first message on there is therefore always one sentence
  that relates `host.sent`, the file, `context` and `handles`.

### Codec tasks

`CallInv` adds to `TypeOK`, `Accounting` and the properties of a finished call

* `Stages`: what is held, and what is on flash, at each point of the task;
* `Reads`: `is_eof` is set only when all of the source is read, and the
  decoder asks for input only when its buffer is empty. Without it a refill
  could overwrite input not yet consumed;
* `Ends`: a finished codec has produced all and consumed its stream;
* `Closing`: so the last write of a good call completes the output, and the
  test for extra input leaves only sources that are one stream;
* `Told`: a notification is pending or taken only with the task's result.

Under `CallInv` each step is a step of `CodecCall` or a stutter.

### TCP

`SessionInv` has 17 parts. `Paired`, `Line`, `Room` and `Replies` tie what is
under way in either direction to the positions of script and server, for each
way in which the connection can be half gone; `Answered` and `Progress` tie the
acknowledgements the script has had to what the server did for them; `Balance`
counts the open streams, those that are never closed included; `Deletions`
keeps apart the files of this run and of earlier ones.

`UploadSound` is the subtle one, because `put_file` takes blocks for headers
and tailers. `Upload` says what saves it. A block that looks like a tailer is never in
`context`: its digest is compared, and NG ends the script. After an OK
`put_file` is over (`CutShort`): nobody answers what the script sends next, so
that it never gets as far as `compress`. A block that looks like a header starts
the digest again, and from then on `context` is shorter than what the script has sent, so
the digest in the real tailer cannot match. `DownloadSound` uses
`Copies`: what the compressed file is the compressed form of, from before the
OK of a compression to the end of the download.

### PUB

`Types` and `Flow`. `Types` holds whatever happens. `Flow` holds until an
interruption (`FlowInv`), and follows the one request and the one message
that are under way:

* `Single`, `Connected`, `Paced`: where the request is, between `subscribeQ`, the
  main task, `publishQ` and PUB; that PUB waits for one message, whose
  acknowledgement is outstanding or in the queue;
* `Answering`: the request PUB answers is the script's, or the one before it
  when the script had heard enough (the header of a PUT or DELETE) and PUB has
  its tailer yet to send;
* `Shape`: what was heard and what is under way (`Told`) are one answer;
* `Past`: an ACK belongs to a step the script has come through;
* `Compression`: from the header of a PUT to the end of the compression the
  script has got no further than posting its GET, which the main task has not
  taken: that the main task is busy is what keeps the GET from being
  answered with a part;
* `Download`: the digest under way is that of what was read, and at the tailer
  of a beginning of the file, the whole of it unless a read failed;
* `Deletion`: a deletion that is acknowledged is done, or is PUB's next step.

### HTTP

`Inv` relates the two partitions to the handler at work: what an upload,
download, deletion or compression has done so far (`Server`), what every
other name holds (`NoUnfinishedFile`, `Beside`, `Outputs`), and the
start-up (`Joined`, from `WifiStation_proofs`). `Beside` and `Outputs` name the
moments at which a compressed file need not fit its source: a compression or
a deletion of that very name is under way. `CompressedMatches` follows.

For `Implements`, `Shows` says what the mapping yields under `Inv`. Each step of
a handler then leaves all names as they were (`Same`), or changes what is
shown of its own name in one of four ways (`Ends` of an upload, `Removes`,
`Discards`, `Makes`), each a step of `FileStore`. Most steps show nothing; which
one shows, the last write of an upload for instance, is what the proof settles.

### What the proofs changed in the models

* `StoredUpload` and `CompressedUpload` were `CASE` expressions with overlapping
  arms. TLC takes the first that applies, the prover may take none for granted;
  they are conditionals now.
* `HeardValid` compares the domains of two sequences rather than their lengths:
  the same thing, but the prover knows nothing about the length of `SelectSeq`.
* Two assumptions on constants became necessary, see above.

### Only model-checked

* Liveness: `CallReturns` and the fairness part of `KeepsPromise`, `ServerReturns`,
  `RunEnds`, `EveryRequestAnswered`, `LossEndsPub`, `ServerComesUp`. The prover does
  not treat fairness or ENABLED.
* The disagreements are behaviours, found by TLC.
* What holds after an interruption in `MqttPub` beyond `Types`.

## 5. What is not modelled

* The Brotli library, esp-mqtt, esp_http_server, lwIP, SPIFFS, the broker and
  paho: external, represented by what the code relies on.
* mDNS, static addresses, directory listings on the log: library calls and
  output that change nothing in the modelled state. `TcpSession` and `MqttPub`
  take the start-up after a restart, which `HttpFileServer` models, to succeed
  and to find the partition fit to be mounted.
* The upload page: a client of `HttpFileServer`; its own checks are repeated
  by the server. The HTML of the list.
* `python/compress.py` and `decompress.py`: one library call each.
* The window size and size hint of the encoder, which depend on an
  uninitialised `input_file_length`: any value gives a valid stream of some
  length, which is open in the model.
* The paho thread in the host script as a thread of its own; after an exception
  in it the library sends nothing more, so the script ends at its next request.
* `stat` that fails for another reason than that there is no such file
  (`file_server.c:443`, `mqtt_pub.c:225`, `tcp_server.c:395`).
* The contents of look-alike blocks beyond what section 2 says: SUB finds a name
  of at most 63 bytes in a header and a digest in a tailer, and no block of 128
  bytes of a compressed file is text that begins with `header,,` or `tailer,,`.
* A compressed file that is cut in the middle of a block: a part ends where a
  block does.
* The loss of a TCP connection in the middle of a packet: both ends treat it as
  one between packets, except that `get_file` of the script would loop if an
  orderly close came there (`tcp-client.py:177`), for which the server would have
  to send a length and not the body.

## 6. Plan

Done: `MqttSub` with its proofs first, since it has the hardest concurrency;
then `BrotliTask` with `CodecCall` and its proofs, which the three servers
rely on; `TcpSession`, `MqttPub`, `HttpFileServer`; then the faults at both ends
of a TCP connection, the start-up over Wi-Fi, the loss of the access point, and
`FileStore` with its refinement; then the proofs of all safety properties; then reads, `unlink`, the creation of
tasks and notifications that fail, and blocks that look like what they are not.

Next, in this order:

1. As `NothingSwallowed` does for `pub_swallow`, say what the other disagreements
   come down to: `SmoothRun` for blocks that look like nothing else and a
   connection that holds, `AckDurable` while `fclose` does not fail, `KeptIsServed`
   for names without `.br`.
2. An invariant of `MqttPub` that survives an interruption: what a host may still
   rely on after a reconnection.
