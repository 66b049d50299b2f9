# ArgusSDK agent: TLA+ models and proofs

Argus is an agent that observes which AI services an endpoint talks to, turns
the observations into signals and sends them to SIEM outputs.  It is a set of
small concurrent parts: collectors that fill a channel, a loop that empties it,
a dispatcher with a worker pool, a write-ahead log for what the dispatcher
refuses, connectors, an identity it may obtain only once, and a start and a
shutdown that have to put these together and take them apart in the right
order.  This project models these parts in TLA+, checks them with TLC and proves
with TLAPS every safety property the passing runs check, the two refinements
included, for all values of the constants.

- [Inventory](#inventory) of the system
- [Modules](#modules) and how they correspond to the code
- [Runs](#runs), bounds and fairness
- [What the models show about the code](#what-the-models-show-about-the-code)
- [Proofs](#proofs)
- [Limits](#limits)
- [What is left](#what-is-left)

Run `tlc -config WalConcurrent.cfg MCWalBuffer` (and likewise for the other
configurations).  The proofs are in the modules `...Proofs`, one for each
component that keeps state; `tlapm WalBufferProofs.tla` checks one of them.

## Inventory

```
 OS events ─▶ EUC OS collector ─obs─▶ euc.Collector ─┐
 gRPC apps ─▶ LLM ingest server ────────────────────┴─▶ ingestCh ─▶ ingestLoop
                                                                      │ Enqueue
                     deliver() = Enqueue ◀── drain loop, Flush        ▼
                            │                      ▲            Dispatcher.queue
                            ▼                      │                  │ workers
                       Dispatcher.queue     WAL segment files         ▼
                                                   ▲            connectors ─▶ SIEM
                                                   └─ Buffer.Write ◀─ Enqueue refused
```

| Component | State | Operations | What is hard | What makes it correct | Module |
|---|---|---|---|---|---|
| Buffer, `internal/buffer` | segment files with a status byte per record, open segment, `segPath`, `segMu`, `closed`, two metrics | `Write` (append, rotate, evict), `drainLoop`/`drainOnce`, `Flush`, `Close`, `New` | draining and deleting without the lock; `Flush` and the drain loop overlap; unsynced marks; failing I/O; crash; a budget enforced under the lock | nothing acknowledged is lost silently; oldest first; `Write` returns | `WalBuffer`, `SignalLog` |
| Dispatcher, `internal/connector` | bounded queue, worker pool, one context, counters | `Enqueue`, `worker`, `process`, `Close`, `Stats` | Go's random `select`; count after send; draining with a cancelled context; a `Send` that hangs | each job in one place; complete fan-out; truthful counters; `Close` processes what was queued | `Dispatcher` |
| Agent pipeline, `internal/agent/agent.go` | `ingestCh`, `ingestDone`, the two contexts | `ingestLoop`, `deliver`, `stop` | order of the steps of `stop`; both hand-over paths refuse; outputs hang | at-least-once; no loss before the dispatcher closes; `stop` returns | `AgentPipeline` |
| Agent lifecycle, Windows service, LLM ingest, observability server | fields filled step by step by `start`, readiness, the once of `Close` | `Start`, `Stop`, `start`'s failure paths, `IngestBatch`, `fanOut` | `Stop` during `Start`; calls in flight; collectors that outlive `Close` and send on a closed channel | readiness is truthful; acknowledged means handed over; `stop` returns | `AgentLifecycle` |
| Identity, registration, secrets store | one encrypted file, its temporary twin, a one-time install token, the credential | `resolveIdentity`, `Register`, `RefreshCredential`, `SaveIdentity`, `ReplaceCredential`, `SaveSecrets` | crash or failed save after a registration; load-modify-save without a lock; the order of write, sync and rename | the file stays whole; the identity is stable; the token is not wasted; the credential is the server's | `Identity` |
| EUC collector with its three OS collectors, reload | watch lists, dedup maps, kernel handles | event readers, samplers, `Close`, `UpdateWatchList` | degradation half way; marks shared by a sampler and a reader; polls that stall on a full channel | only what is watched, not too often, again and again while it lasts; `Close` releases | `EucCollector` |
| Output connectors and their factory | configuration, connection | `Build`, `New`, `Connect`, `Send` of five types | chunks; partial acceptance; a broken stream; defaults and spelling of options | an acknowledgement tells what arrived | `OutputConnector` |
| OCSF mapper; dry run and validator | none | `Map`, `MapBatch`; `LoadSignals`, `Run` | defaults; which context fills which field; indices into shortened lists | the dry run foretells what is sent | `OcsfMapper`, `DryRun` |
| Connector config watcher | events of the directory, the last configuration applied | `NewWatcher`, `Start`, `Close` | reads later than the event, in the middle of a save; dropped events | what is saved is applied in the end | `ConfigWatcher` |
| Batch identifiers | last millisecond, random bytes, 16-bit sequence | `NewBatchID` | sequence wrap, clock steps back | unique and ordered | — |

`PROJECT.json` lists the components with their sources and status, and every
hazard with its line and the properties that cover it.

## Modules

| Module | Content |
|---|---|
| `SignalLog` | abstract specification: a log from which batches come out at least once, oldest first, and are given up, oldest first, only for space |
| `WalBuffer` | the buffer, step by step; `ImplementsLog` states that it refines `SignalLog` |
| `Dispatcher` | queue, workers, fan-out, `Close` |
| `AgentPipeline` | `EXTENDS Dispatcher`, `INSTANCE SignalLog`: ingest loop, fallback to the log, drain func, `stop` |
| `AgentLifecycle` | `Start` and `stop` step by step, `Run` and the Windows service, the gRPC server and its calls, `fanOut` |
| `SecretsRegister` | abstract specification: the state file as a register of one map, written whole |
| `Identity` | resolving, registering and refreshing over the secrets file, call by call to the file system; `ImplementsRegister` states that it refines `SecretsRegister` |
| `EucCollector` | the collectors of the three platforms, watch lists, suppression of repeats |
| `OcsfMapper`, `DryRun` | pure operators: the mapping, and what the dry run reports |
| `ConfigWatcher` | the watcher of the connectors file against editors and the event queue |
| `OutputConnector` | `EXTENDS DryRun`: one output of any type from configuration to `Send` |
| `WalBufferProofs` | types and the lock; the inductive invariant and what follows from it; `WalBuffer` implements `SignalLog` |
| `DispatcherProofs` | the inductive invariant of `Dispatcher` and what follows from it |
| `AgentPipelineProofs` | `EXTENDS DispatcherProofs`: the inductive invariant of `AgentPipeline` and what follows from it |
| `AgentLifecycleProofs` | the inductive invariant of `AgentLifecycle` and what follows from it |
| `IdentityProofs` | the inductive invariant of `Identity` and what follows from it; `Identity` implements `SecretsRegister` |
| `EucCollectorProofs` | the inductive invariant of `EucCollector` and what follows from it |
| `OutputConnectorProofs` | the arithmetic of chunks, the inductive invariant of `OutputConnector` and what follows from it; lemmas about flattened lists, the mapper and the dry run |
| `ConfigWatcherProofs` | the inductive invariant of `ConfigWatcher` and what follows from it |
| `MC...` | instances for TLC: symmetry sets, target lists, inputs (`ConfigWatcher` is checked as it is) |

Two compositions matter.  The pipeline uses the log through `SignalLog` and not
through `WalBuffer`: what the buffer provides is shown about `WalBuffer`, and
the states of both together would be out of TLC's reach.  The lifecycle has the
buffer and the dispatcher as flags (running, closed), because its questions are
about who may use what when; the pipeline has their data paths.

In every module a definition that nothing uses and that stands just before one
with the same parameters (`AnyListed` before `Oldest`) is the latter with a
plausible slip in it, for the mutation runs.

### WalBuffer

A state variable stands for each field the code keeps (`closed`, `segMu`, `seg`,
`segPath`, `segSeq`), for the directory (`linked`) and the contents of the files
(`segs`), and for the local variables of the goroutines (`wpc`, `wbatch`,
`victim` for `Write`; `dpc`, `todo`, `active`, `cur`, `pos` for `drainOnce`).
`tried`, `written`, `acked`, `delivered`, `evicted` and `sent` are history.

| Code | Action |
|---|---|
| `Write` up to `segMu.Lock` | `WriteBegin` |
| `Lock`, `openSegment` when there is none | `WriteLock` |
| `appendRecord` | `AppendRecord`, `AppendFails` (nothing written, torn, not synced) |
| rotation | `Rotate` |
| `enforceTotal` | `CountVictim`, `EvictVictim`, `WriteReturns` |
| `drainOnce` | `ListSegments`, `ReadActive`, `NextSegment`, `Deliver`, `MarkConsumed`, `AbortPass`, `ReadFails`, `StreamEnd`, `RemoveDrained`, `EndPass` |
| `drainLoop`, `Flush` around it | `EndPass`, `DrainerReturns` |
| the agent | `Cancel`, `FlushBegin`, `Close` |
| the world | `Tick`, `Restart` (crash, power loss, or a new process) |

`enforceTotal` runs with `segMu` held and takes several steps because drainers
do not take the lock to read, mark and delete.  `Rotate` is one step: `Write`
holds the lock throughout, and a drainer can only notice the new file by listing
the directory and the new path through `segMu`.  `AppendRecord` is one step too:
a drainer that reads a record whose payload is still missing takes it for the
end of the segment.  `drainOnce` opens, streams, syncs and counts in that order
without a lock; `NextSegment`, `StreamEnd` and `RemoveDrained` are the points at
which a change by `Write` or by the other drainer makes a difference.

`Faults` says which calls may fail, each of them at any time: `open`, `append`
and `sync` of `Write`; `mark`, the status byte of `markConsumedAt`; `reopen`, the
open of a listed segment in `drainOnce`, which then skips it and goes on to newer
ones (`buffer.go:309-313`); `read`, a listing, a size or a read of
`streamRecords`; `count`, `countLiveRecords`, which counts up to the first error
and reports none.

A record carries what its status byte and the state of the page cache say:
`live`, `marked` (0xFF, not synced), `consumed` (0xFF, synced), `torn` (header
complete, payload not).  `Restart` makes any set of marked records live again,
since nothing orders their way to the disk, and may leave the record that was
being appended torn.  Records that were appended are synced before `Write` goes
on, so that a crash takes none of them.

Abstractions: a batch is an identifier; all records have size one, so that
limits are numbers of records; the encoding is left out, except that a torn
record hides what follows it in its segment; the clock counts seconds and does
not step back; backoff is the freedom of the drain loop to wait.

### Dispatcher

`EnqueueSend`/`EnqueueCount`/`EnqueueRefuse` are the `select` of `Enqueue` and
the counter after it.  A worker is in its `select`, in the draining loop inside
its `ctx.Done` case, or gone (`wpc`); `wjob`/`wnext` are `process`'s job and
place in the target list.  `BeginSend`/`EndSend` let `Close` fall in the middle
of a `Send`, `SendCancelled` is a `Send` that is called with a context already
done.  `CloseEnd` covers both cases of `Close`'s last `select`.  The counter
`dropped` is kept although no code raises it, see below.

### AgentPipeline

`Collect` is a collector's send on `ingestCh`; `Receive`, `Dispatch`, `Divert`,
`NextBatch`, `LoopReturns` are `ingestLoop`, one job per configured group of
outputs; `Pick`, `Redeliver`, `RedeliverFails` are a drainer with `deliver()` as
its callback; `StopBegin`, `StopFlush`, `FlushEnds`, `StopDispatcher`,
`StopEnds` are `stop()`.  The dispatcher's steps are conjoined as they are.
`picked` is the part of `drainOnce` that matters here, the record read and not
yet handed over.

### AgentLifecycle

`starting` and `stopping` are the places of the two threads in `start` and
`stop`; each step of either is an action, and each failure of `start` an
alternative of its step.  `agent` holds the fields of `Agent` as far as they
exist, with the state of what they point to; they have no lock, and the actions
read and write them where the code does.  `config.service` chooses the driver:
`Run` calls `stop` after `Start` has returned, the Windows service passes on a
request at any time.  `RpcArrive`, `RpcSend`, `RpcGone` are a call of
`IngestBatch` with its `select`; `GracefulStop` waits for those; `FanTake`,
`FanSend`, `FanExit` are `fanOut`.  A send on the closed channel sets `panic`,
which ends the process.  `overlap` and `missed` are history, so that a property
can except a stop that overlaps `Start`.

### Identity

`pc` has one thread for `start` and one for each caller of `RefreshCredential`.
The file system is modelled as far as `SaveSecrets` depends on it: names point
to inodes (`path`, `tmp`), an open descriptor keeps its inode (`fd`), `synced`
says whose content a power loss keeps, `old` what the name may be again after
one.  `OpenTmp`, `WriteTmp`, `SyncTmp`, `RenameTmp`, `Chmod` are the calls, each
with its failure.  The server is external: it uses up the token, issues numbered
credentials, and its reply may be lost or blank.  `Exit`, `PowerLoss` and
`Restart` may come at any step; the configuration may be edited in between.

`SecretsRegister` is what all of this is for: a map that is replaced as a whole.
It takes an identity when it has none (`SaveIdentity`), a refresh changes the
credential alone (`ReplaceCredential`), and a power loss brings back a map the
register has held since it was last written out (`WriteBack`, `PowerLoss`).  After `TwoSaves`
nothing is promised.  In `Identity` its value is the content of the inode that
`path` names, absent read as blank and empty as damaged, and its earlier values
are `old`.

### ConfigWatcher

`ConfigWatcher` has the editor, the event queue and the loop of `Start`, whose
steps are `Receive`, `Load` (the file as it is by then), `OnChange` and
`Return`.  What the file holds is a version and how much of it is there;
`missed` records that an event was dropped or a read failed.  Nothing in the
program creates a `Watcher`: the model takes a caller that loads the file after
`NewWatcher`.

### EucCollector

`StartLinux` and `StartWindows` cover every way their event source may come up
or fail, which never fails `Start`.  `LinuxEvent`, `WindowsEvent`, `DnsEvent`
are the decoders with their different ideas of what is local; `PollBegin`,
`Examine`, `SamplerSend`, `PollEnd` are a poll of the connection table, row by
row, each row with its suppression windows.  Time is counted in polls, and a
mark is stored as its age.  `MatchHost` is written out over sequences of
characters, because it is about where labels begin.  `early` and `last` are
history: whether a key was observed again within its window.

### OutputConnector, OcsfMapper, DryRun

`Build` turns a `FactoryInput` into a configuration, with `decodeExtra`'s way of
matching keys and each `New`'s defaults; `Connect` checks it and, for three
types, asks the server.  `SendBegin`, `SkipChunk`, `SendChunk`, `WriteBroken`,
`SendEnd` are `Send`: an answer is one of the ways a request can end, and the
server takes any part of a chunk, in order, that the answer permits.
`AnswerLost` is what the Kafka client does within `ProduceSync`
(`kafka/connector.go:243`): the broker has taken a part of the request, its
answer is lost, and the client sends again.  With `acks=all` the writes are
idempotent and the broker takes nothing twice; for every other `acks` the code
disables that (`kafka/connector.go:131-138`, `Resends` in the model), and
`received` then holds a copy for each time the broker took a record.  No other
output repeats a request: `net/http` does not replay a `POST` that it has
written, and gRPC sends again only what the server has not processed.  Of a
signal's encodings the model keeps the fields by which they tell signals apart;
severities and names of ECS and CEF are left out.  `Map` follows
`layerToClassUID` and the field fillers over contexts that are objects, other
JSON, broken or empty; `Run` is the dry run over entries of a file with
`applyBatchDefaults` and the three validations, with the index bookkeeping that
ties an error to its signal.

## Runs

Eleven runs pass.  Each property has a mutant: the same run with one definition
replaced by a plausible slip, under which TLC finds the property violated.

| Run | Instance | Question |
|---|---|---|
| `wal_concurrent` | 3 batches, 2 writers, 2 drainers, segments of one record (a second one rotates), budget of two, open files not removable, failing fsyncs and short counts | Can any interleaving of writes, eviction, the drain loop, `Flush` and `Close` lose, reorder or repeat? |
| `wal_restart` | 3 batches, 1 writer, segments of up to three records, budget of two, one restart at any step, clock of two seconds | Does a crash or a power loss lose or reorder anything?  Is the invariant of the proofs an invariant? |
| `wal_faults` | 2 batches, failing opens, appends and marks of the buffer, failing opens and reads of the drainers, one restart, a budget of one | How far does damage spread when calls to the file system fail?  Is what is proved for every fault an invariant? |
| `wal_live` | 2 batches, 1 writer, fairness | Is every acknowledged batch drained in the end, does `Write` return? |
| `disp_concurrent` | 3 jobs with different target lists, 2 producers, 2 workers, a queue of two, one connector that fails, one that ignores its context, one that is not registered | Is a job ever duplicated or forgotten, is fan-out complete, do the counters tell the truth, what does `Close` guarantee, is a queued job processed in the end? |
| `pipe_safe` | 2 batches, 2 groups, 1 worker, queue and channel of one, `Buffer.Write` may fail, one output may hang | Where is each job until the dispatcher is closed, what does a finished `Flush` mean, is a refused job attempted in the end, does `stop` return? |
| `identity` | 2 callers of `RefreshCredential` beside `start`, 3 credentials, 2 starts, one kind of fault out of eight in each behaviour | Can a crash, a fault or an edited configuration damage the file, change the identity, waste the token, or leave a credential the server no longer takes? |
| `lifecycle` | every configuration of service, gRPC, Unix socket and observability; 2 outputs, 2 calls, 2 observations, a channel of one | Is readiness truthful, who can send on the closed channel, is what was acknowledged kept, does `stop` return? |
| `collectors` | all three platforms, a table of three rows (a listener on a watched port, a host from the list, a loopback connection), names and a watched endpoint in several spellings, dots at their end included, a window of two polls, a sampler that stalls | Is only what is watched observed, never too early again, and again and again while it lasts?  What does `Close` release? |
| `outputs` | 25 configurations of the five types, right and wrong, 2 workers, 2 sends, batches with unmappable signals, 2 faults (a lost answer of the Kafka client is one) | What does a delivered acknowledgement mean, what a failed one, do faults linger, does the dry run foretell what is sent? |
| `watcher` | 2 saves of every kind, an event queue of three, a read that may fail, fairness | Has a watcher that is idle applied the file as it is?  Does it settle? |

Bounds.  `SegMax = 1` makes the second record of a segment rotate, so that three
batches make a rotation, a second segment and, with `TotalMax = 2`, an eviction
while a drainer is inside the victim; two writers contend for `segMu`.  In
`wal_restart` a segment takes two records, and a third before it rotates, so that
a crash can lose a mark in the middle of a file and tear the record at its end.  One
restart is enough to meet old segments, and a second process's drain passes are
complete ones.  `MaxSeq` is never what stops a writer where there are no failing
opens.  Fsync and count failures are in `wal_concurrent` and the others in
`wal_faults`, since all at once are too many states, and since a read that fails
together with a short count breaks `DamageContained` (below).  A queue of one or two is full, empty and in between.  Two workers and
two producers are the least that can overtake each other.  `Sources` of two
leaves one batch to meet the queue that the other filled.  In `Identity` a first
start and one after it is what an identity has to survive; three credentials
are a registration and a refresh by each caller; `MaxFaults` bounds the kinds of
fault and not how often one strikes.  In `AgentLifecycle` a channel of one makes
every sender wait; a call and an observation more than fit are there.  In
`EucCollector` a window of two polls has an age inside, at and beyond its edge,
and `MaxStall = 1` puts the mark of a stalled poll at another age than its
reading.  In `OutputConnector` a limit of two cuts the longest batch into three
chunks, the last of them short, and two faults let one strike either send;
`FewToRepeat` keeps the batches that the Kafka client may repeat to three signals,
which it can repeat in part, in whole and twice.  In
`ConfigWatcher` three events are one more than a save by rename queues, so that
the queue overflows.

Fairness.  `WF` for every goroutine that can run.  `SF` stands for a `select`
that does not avoid one of its ready cases for ever (`DrainerReturns`,
`SeeCancel`, `EventSend`, `SamplerSend`, `Return` of the watcher), for `sync.Mutex`, which hands itself
to a waiter that starves (`WriteLock`, `ReadActive`), for an output that accepts
again and again what it is offered again and again (`Deliver`, `Redeliver`), for
a connection table that can be read again and again (`PollBegin`, against
`PollFails`), and for the deadline of `Flush` in `stop()` (`FlushEnds`), a timer
that fires.  In `WalBuffer` this deadline is not needed.  There is none for
`WriteBegin`, `Cancel`, `CloseBegin`, `StopBegin`, `StopRequest`, `RpcArrive`,
`RpcGone`, `FanTake`: nothing obliges a caller; and none for `EndSend` of a
connector that ignores its context.  `EventuallyProcessed` and
`EventuallyAttempted` therefore hold unless such an output hangs for good
(`Hung`), and their runs go without symmetry.  A call in flight gets through
(`RpcSend`) only because `ingestLoop` goes on receiving.

What the runs show.

- `NoSilentLoss` holds through every interleaving and restart, which rests on
  two facts of the code: `drainOnce` reads the active path *after* listing the
  directory, so that a segment in its list that is not the active one is closed
  for good; and names increase.
- `ImplementsLog`: two overlapping drainers, lost marks and evictions never
  bring a batch out before an older one, as long as the drainers can open and
  read the segments they list.  `NoSecondHandover` holds within a
  process because a drainer marks before it moves on, so that a batch comes out
  at most twice per process, once per drainer.
- `DamageInv` with failing opens, appends, marks and reads, and with drainers
  that skip segments: its `DamageContained` says that only batches appended
  behind a torn record are hidden, and only those of the same segment.
- `AckIsTruthful`: "delivered" means once and in order, but at least once from a
  Kafka client without idempotent writes, for which repeated records are
  acknowledged like any others.  Without that exception TLC finds the repetition.
- `NoLossBeforeClose` accounts for each job of each batch a collector has handed
  over: it waits in `ingestCh` or at `ingestLoop`, is in the queue or with a
  worker, is live in the log, has reached each of its targets (or that target's
  `Send` failed), or its `Write` returned an error, which `agent.go:574` drops.
- `CredentialCurrent` speaks of file and memory: a failing `chmod`, the last
  call of `SaveSecrets`, leaves the file right and the memory behind.
- `FlushedMeansEmpty`, `StopComesBack`: a `Flush` that returns nil has emptied
  the log for good, and `stop` returns with an output that hangs for ever.
- `ImplementsRegister` holds over crash, power loss and failing calls as long as
  two saves do not overlap: the file is always whole, no save replaces an
  identity, and a refresh that read the map earlier writes back the identity
  that is in the file.  Two saves that overlap share the temporary file and can damage
  the state file, or put back what they read before the other's rename, which is
  why the register promises nothing from then on.
- `TokenNotWasted` names what can spend an install token in vain: a crash
  between the reply and the rename, a fault of the disk, a reply that does not
  arrive or is blank.
- `OnlyFanOutPanics`: under `Run` the one goroutine that can send on the closed
  channel is `fanOut`, for which `Close` of the EUC collector does not wait.
- `NoEarlyRepeat` holds on Linux and Darwin for a sampler held up by a full
  channel, since both map and mark use the time the poll began.
- `FaultsDoNotLinger` has one exception, a syslog stream: nothing dials again
  after a write has failed, so that every later `Send` fails.

`RestartGap = 1`: names are unique across processes only because two processes
never share a second.  The systemd unit waits `RestartSec=5`
(`packaging/systemd/argus-agent.service:13`).  With a gap of zero `FreshNames`
fails: `segSeq` restarts at zero, `segmentPath` (`wal.go:235-240`) hands out a
name that exists, and the new process appends to the old segment.

## What the models show about the code

One run expects a violation: it checks what the release notes promise, and the
code does not keep.

| Run | What happens |
|---|---|
| `pipe_stop` | A job that a full queue refused is in the log.  The drain func hands it back to the queue (`agent.go:609-612`) and it counts as consumed (`buffer.go:325`), before any `Send`.  `Flush` sees nothing live and returns nil (`agent.go:654`), `Close` (`agent.go:664`) cancels the context every `Send` uses (`connector.go:291`) and returns nil in time.  The job is neither delivered nor in the log. |

`AtLeastOnce` is about a stop that reports no error (`CleanStop`), no output
fails in that instance, and only jobs that were in the log count: what is lost in
the trace was persisted, then consumed, then cancelled.  `CHANGELOG.md:81-83`
says "signals are persisted to a write-ahead log during output outages and
drained in order on reconnect ... Survives agent restarts (at-least-once
delivery)."  In the shortest trace the drain loop hands the record back while
`Flush` runs; `Flush` itself may as well.

Met on the way, and written into the models as the code has it:

Buffer and dispatcher
- A write that fails between header and payload (`wal.go:98`) leaves a torn
  record in a segment that stays open.  The next `Write` appends behind it and
  is acknowledged, and no reader gets past the torn record.
- A segment that `drainOnce` cannot open is skipped (`buffer.go:309-313`): its
  records stay, but newer ones are delivered before them, so that "in order" of
  the release notes holds only while the drainers can open and read what they
  list.  A listing that fails makes `Flush` return nil with live records
  (`buffer.go:389`).
- `countLiveRecords` stops at the first error and reports what it has counted
  (`wal.go:191-203`).  When `streamRecords` has stopped at an unreadable payload
  as well, `drainOnce` removes a segment with live records (`buffer.go:347-349`).
  With `count` added to the faults of `wal_faults` TLC finds `DamageContained`
  violated in ten states.
- With a budget of one segment, when the rotation cannot open a new file,
  `segPath` still names the full one, which `enforceTotal` (`buffer.go:218`)
  neither evicts nor gives up on: it spins with `segMu` held.
- After an append or fsync that fails, `Write` returns before the eviction, so
  that the budget may be exceeded (`buffer.go:186`); `Close` does not stop the
  drain loop (`buffer.go:418`), which may go on until its context is done.
- `Enqueue` on a closed dispatcher may take the send case of its `select`
  (`connector.go:250`) after the last worker is gone: the job stays in the
  queue.  Nothing raises the `dropped` counter (`connector.go:254-258`).
- A `Send` that fails (`connector.go:294`) is counted; the batch is not written
  to the log, which retries only what a full queue refused.
- `attempt` is counted before the wait is computed (`buffer.go:273`): the first
  wait is twice `BackoffBase`, which `buffer.go:66` calls the initial one.

Lifecycle
- The Windows service may run `stop` while `Start` is still going on: `start`
  may make `ingestCh` after `stop` has looked for it, and `stop` then waits for
  a loop nobody ends (`missed` in the model), or may bring up a server after its
  `Close`.
- Under any driver `fanOut` may find the channel closed and panic.

Watcher
- A save that truncates the file and then writes it may be read in between
  (`config.go:137`).  An empty file, or one cut at the end of an entry, parses:
  `onChange` gets a zero-value or partial configuration, which `config.go:63-65`
  says cannot happen.  `CaughtUp` and `Settles` say that the end of the save
  puts it right.
- That the event queue overflowed is only logged (`config.go:152`), and a read
  that fails is not tried again: the configuration stays as it was until the
  next change (`missed` in the model).

Identity and outputs
- `RefreshCredential` has no caller in the program; its load-modify-save is not
  locked.
- The agent passes a CA and no client certificate to its outputs
  (`agent.go:281-285`), and the credential of `argusxdr` comes from the output's
  own `auth` alone.
- `decodeExtra` (`kafka/connector.go:50` and its siblings) matches Go field
  names, so that snake-case keys such as `required_acks` and `max_batch_events`
  are dropped without an error.
- `argusxdr` drops `RejectedCount` of a response; after `Connect` nothing calls
  `Connect`, `Health` or `Close` of a connector again, and `HealthCheck` of the
  registry has no caller.
- A hot reload changes `Collector.watch`, which no collector reads
  (`euc.go:30-31` calls the lists hot-reloadable), and stores the raw lists
  without catalog and default ports.

## Proofs

Nothing is assumed about the numbers of writers, batches, segments, jobs,
workers, outputs, calls, callers, names or chunks, nor about budgets, windows
and restarts.  What is assumed of the constants is named in the module that
declares them: `BufferAssumption`, positive limits with a segment no larger than
the budget, and a `None` that is no segment and no writer; `DispatcherAssumption`,
a positive capacity and target lists over the connectors; `PipelineAssumption`,
a job for each pair of a batch and a configured group of outputs;
`LifecycleAssumption`, a positive capacity, and calls and observations that are
different things and no states of `fanOut`; `IdentityAssumption`, finitely many
callers and at least one start; `EucAssumption`, names that are sequences of
characters and a `Lower` that neither takes nor makes a dot; `OutputAssumption`,
integers as limits and sequences as batches; `WatcherAssumption`, a queue that
holds an event.

| Theorem | Statement | Assumes besides |
|---|---|---|
| `TypeCorrect`, `LockCorrect` | `Spec => []TypeOK`, `Spec => []LockInv` | — |
| `DamageStaysContained` | `Spec => []DamageContained` | `Spaced`, counts do not fall short |
| `DamageCorrect` | `Spec => []DamageInv` | `Spaced` |
| `OpenSegmentKept`, `NamesFresh` | `Spec => []OpenSegmentLinked`, `Spec => FreshNames` | `Spaced` |
| `HandedOverOnce` | `Spec => NoSecondHandover` | `Spaced`, marks do not fail |
| `NothingLost` | `Spec => []NoSilentLoss` | `Reliable` |
| `BufferCorrect` | `Spec => []BufferInv` | `Reliable` |
| `LogImplemented` | `Spec => ImplementsLog` | `Reliable`, `DrainersSee` |
| `DispatcherCorrect` | `Spec => []DispatcherInv` | — |
| `CountersAgree` | `Spec => []Accounting` | `DistinctTargets` |
| `JobsInOnePlace`, `FanOutIsComplete` | `Spec => []OnePlace`, `Spec => []FanOutComplete` | — |
| `CloseDrains` | `Spec => []CloseProcessesEarly` | `Workers # {}` |
| `PipelineCorrect` | `PipelineSpec => []PipelineInv` | — |
| `NothingLostBeforeClose` | `PipelineSpec => []NoLossBeforeClose` | — |
| `FlushEmptiesTheLog` | `PipelineSpec => []FlushedMeansEmpty` | — |
| `AgentCloseDrains` | `PipelineSpec => []CloseProcessesEarly` | `Workers # {}` |
| `LogNeverInTheWay` | `PipelineSpec => []LogReady` | — |
| `LifecycleCorrect` | `Spec => []LifecycleInv` | — |
| `ReadyCorrect`, `OnlyFanOutCorrect`, `AckedCorrect` | `Spec => []ReadyIsTruthful`, `[]OnlyFanOutPanics`, `[]AckedIsKept` | — |
| `IdentityCorrect` | `Spec => []IdentityInv` | — |
| `FileWhole`, `IdentityKept`, `TokenKept` | `Spec => []FileIsWhole`, `[]IdentityStable`, `[]TokenNotWasted` | — |
| `CredentialKept` | `Spec => []CredentialCurrent` | — |
| `RegisterImplemented` | `Spec => ImplementsRegister` | — |
| `EucCorrect` | `Spec => []EucInv` | — |
| `OnlyWatchedObserved`, `RepeatsAreSuppressed` | `Spec => []OnlyWatched`, `Spec => []NoEarlyRepeat` | — |
| `ClosedStaysClosed` | `Spec => [](closed => handles \cap KernelHandles = {})` | — |
| `OutputCorrect` | `Spec => []OutputInv` | — |
| `AckHonest`, `FailureStops`, `FaultsEnd` | `Spec => []AckIsTruthful`, `[]FailureEndsTheBatch`, `[]FaultsDoNotLinger` | — |
| `DocumentsFaithful`, `DryRunForetells` | `Spec => []DocInv`, `Spec => []DryRunPredicts` | — |
| `MapConforms` | of the mapper: one event for a signal with a known layer, which breaks no rule but the two named below | — |
| `PartsHaveAnOrder` | of `InOrder`: for a finite set of positions it is an increasing sequence of exactly that set | — |
| `WatcherCorrect`, `WatcherCatchesUp` | `Spec => []WatcherInv`, `Spec => []CaughtUp` | — |

### Buffer

`Spaced` says that a restart takes a second or longer; `Reliable` says in
addition that a failing append leaves no part of a record behind and that
`countLiveRecords` sees the whole file.  Opens, fsyncs, marks, listings and the
reads of the drainers may fail under both.  `DrainersSee` says that a drainer can
open and read what it has listed: without it a pass goes on to newer segments
past live records, so that the order of deliveries is claimed only with it
(`PassInv` is a part of `SequenceInv` under that condition, and `LogImplemented`
assumes it).  Without `Spaced` `FreshNames` is false, without `Reliable`
`NoSilentLoss`.

`TypeOK` is not inductive: that a `Write` in its critical section appends to a
segment, and that a drainer's cursor is one, is `LockInv`/`CursorInv`; the three
together are, with every fault and any restart.  `DamageInv` joins to these what
no fault of `FaultKinds` disturbs:

- `OpenSegmentLinked`, the open segment is in the directory;
- `NameInv`, the next name is newer than every segment in the directory, in a
  drainer's list or held open.  Otherwise a new segment might be one that a
  drainer has listed earlier and takes for deletable;
- `DrainInv`, a drainer that has read the active path holds no other segment
  that is open, marks only what was delivered, and removes only what has no live
  record;
- `MarkInv`, marks follow deliveries;
- `DamageContained` (where `countLiveRecords` sees the whole file), stated for every batch that was appended, and not only for
  those acknowledged: it has been delivered, was evicted, can be read, or is
  behind a torn record of its segment;
- `WriterInv`, a batch on its way into the log is not in it yet, and on its way
  once, and `UniqueInv`, a batch is whole in one record at most;
- `SentInv`, if marks do not fail: what a drainer has handed over in this
  process is live nowhere but in the record it is about to mark.  A drainer that
  begins to hand a record over has just found it live, so that it cannot be one
  it has handed over before: that is `NoSecondHandover`.

Eviction and deletion keep `DamageContained` because what they remove is
consumed or goes into `evicted`; a lost mark turns a delivered record live,
which costs nothing; an append in a segment that is not the open one is
impossible by `LockInv`.  A torn record may be appended behind, and that is all
it does.

With `Reliable`, `BufferInv` adds `TornInv`, a torn record is the last of a
segment that is not open, so that nothing is behind it and `DamageContained`
becomes `SafeInv`, hence `NoSilentLoss`.  It also adds the order of things,
`SequenceInv`, on which `LogImplemented` rests:

- `NewestInv`, the segment that `segPath` names is newer than every other in the
  directory or in a drainer's list (from `NameInv`, when it is opened);
- `OrderInv`, segments in the order of their names, and records in the order of
  their places, hold the batches in the order in which they were appended;
- `PassInv`, if the drainers can open and read what they list: when a drainer works on a segment, what it can read in older
  segments of the directory, and in its own before the read position, is
  delivered.  It is what a pass that stops at its first refused record, a
  listing in the order of names and a mark after each delivery bring about
  together;
- `VictimInv`, the segment `enforceTotal` has chosen is the oldest.

Of the abstract steps, the append of a record is a `Store` (`WriterInv`).  An
accepted record is a `Deliver`: an older batch that is neither delivered nor
evicted would still be readable (`SafeInv`), in an older segment or an earlier
place (`OrderInv`), and so be delivered (`PassInv`).  An eviction is a `Drop` of
what is lost with the victim, of which by `OrderInv` and `VictimInv` nothing
older is left elsewhere.  Every other step, a crash and restart included, leaves
`written`, `delivered` and `evicted` as they are.

`wal_faults` checks `DamageInv`, `wal_restart` all of `BufferInv` with TLC.

### Dispatcher

`CoreInv` joins to the type invariant, `OnePlace` and `FanOutComplete`

- `WorkerInv`, a worker leaves its `select` only with the context done, leaves
  its loop without a job and with no early job in the queue, and is inside
  `Send` only for a target of its job;
- `ProgressInv`, the targets that `process` has gone past were tried: `Send` has
  ended for each of them that is registered;
- `CloseInv`, what was queued before `Close` was offered and not refused, and a
  `Close` that returned nil finds every worker gone.

`CloseDrains` needs a worker, since `Close` of a pool without one returns at
once.  `DispatcherInv` adds the books.  `Accounting` compares each counter with
the size of a set, so that its proof has to know that a set grows by one
element: the sets are finite (`FiniteInv`), and a `Send` that ends was not
counted before.  The latter is `OnceInv`: nothing has been sent of a job that no
worker has taken, and of one that is with a worker nothing from the current
target on.  It is false for a target list that names a connector twice, and so
is `Accounting`, which the proof brought out; `DistinctTargets` excludes that.
The code does too: the agent takes its target lists from the registry's
connectors, and `Register` (`connector.go:98-117`) refuses a name that is there.
`disp_concurrent` checks `DispatcherInv` with TLC.

### Pipeline

`OnePlace`, and with it `CoreInv`, is false in the agent: the drain loop and
`Flush` may both have picked a record, so that its job is queued twice or is in
the queue although it is done.  `PipelineInv` therefore has parts of its own and
reuses the dispatcher's lemmas only where they do not depend on it:

- `BatchInv`, a batch waits in `ingestCh` once or is the one `ingestLoop` works
  on, and what it has dealt with is exactly the rest.  So no job is written to
  the log twice, which is the guard of `SignalLog`'s `Store`;
- `PlaceInv`, a job dealt with is in the queue, with a worker, done, live in the
  log, or its `Write` failed; one that the log counts as consumed is with the
  dispatcher or done;
- `SendInv`, until `Close` a worker has got to every target it has passed, and a
  job that is done has reached all of its own;
- `ExitInv`, a worker that has gone left the jobs from before `Close` with the
  others or done;
- `StopInv`, `stop` is past `ingestLoop` only when the loop is gone and nothing
  waits, a log that `Flush` has emptied stays empty, and the record a drainer
  has picked stays the oldest that is live.

`NoLossBeforeClose` joins the first three; `FlushedMeansEmpty` follows from
`StopInv` and `PlaceInv`; `LogReady` says that the log never refuses what the
agent does, so that no guard of the abstract log hides a step the code takes.
`pipe_safe` checks `PipelineInv` with TLC.

### Lifecycle

`LifecycleInv` joins to the type invariant, `OnlyFanOutPanics` and `AckedIsKept`

- `StartInv`, what exists when `Start` is at a step: outputs, then dispatcher,
  buffer, observability, collectors, channel, server.  It holds whatever `stop`
  does in the meantime, since `stop` never takes a field back to nothing;
- `ReadyInv`, readiness is set last and taken back first, and until `stop` has
  gone past that nothing of what `Start` made has been undone;
- `StopInv`, a `stop` that does not overlap `Start` goes past the collectors
  only when `GracefulStop` is over, hence without a call in flight; the channel
  is closed after that.  It is what `OnlyFanOutPanics` rests on;
- `ChanInv`, the loop exits with the channel closed and empty, and only
  `missed` lets `stop` go on beside an open channel, on which `AckedIsKept`
  rests.

`ReadyIsTruthful` follows from the first two.  `lifecycle` checks `LifecycleInv`
with TLC.

### Identity

`IdentityInv` joins to the type invariant five parts, each under the condition
it holds under:

- `SaveInv`, while no two saves have overlapped: one thread at most is between
  `OpenFile` and `Rename`; the temporary file holds what it has written so far,
  synced before the rename; the state file is another inode, whole and synced,
  and so is whatever a power loss may bring back.  `FileIsWhole` follows;
- `StoreInv`, under the same condition and under every fault: between reading
  the map and the rename, a start that saves finds no identity in the file, a
  caller finds the identity it has read, and no map, in the file or in what a
  power loss may bring back, has a credential without an identity;
- `DecidingInv`, without an overlap and a fault that touches the file: a start
  registers or saves only while the file has no identity, and once the file has
  one it is that of the running agent, of every refresh under way and of the
  last start.  `IdentityStable` follows;
- `TokenInv`, without a crash in the window besides: once the token is used, the
  file has an identity or `start` is between the reply and the rename with it.
  `TokenNotWasted` follows;
- `CredInv`, under the same condition and for an agent that registers: the file
  has the credential the server takes, or a thread that holds it is on its way
  to the rename.  A thread in that window with an older one is behind another
  that has read the file but not opened it for writing; when the second of them
  opens it, that is an overlap.  The memory agrees with the file, or a caller is
  between rename and return.  `CredentialCurrent` follows.

Type correctness needs that `OpenTmp` finds a free inode: the threads hold at
most one each and the state file one, so one is left of `Cardinality(Procs) + 2` when
there is no temporary file (`InodeLeft`, with `FiniteSetTheorems`).  `identity`
checks `IdentityInv` with TLC.

`RegisterImplemented` rests on `SaveInv` and `StoreInv`.  The rename is the one
step that writes the register: that of a start is `SaveIdentity`, since
`StoreInv` finds the file blank, and that of a caller is `ReplaceCredential`,
since the map it writes differs from the one in the file in the credential at
most.  What it writes is whole by `SaveInv`.  The step that writes the directory
back is `WriteBack`, a power loss is `PowerLoss`, and an `OpenTmp` that meets
another save is `TwoSaves`.  From then on every step is `Unspecified`, which
`TypeOK` suffices for.  Every other step, an `OpenTmp` that truncates a left-over temporary
file and every failing call included, is a stutter: none touches the inode that
`path` names.

### Collectors

`EucInv` joins to the type invariant and the two properties

- `MarkInv`, a key (a port, an address, a name in lower case) was last observed
  when it was marked, unless the mark has been swept, and then the window has
  passed, counted from the poll under way.  So a key that the code finds
  unmarked, or marked long enough ago, was not observed within the window, and
  the delay of a sampler that a full channel holds up is on the right side of
  it;
- `HandleInv`, nothing is open before `Start`, a platform holds only what it
  opens, and after `Close` the context is done, so that nothing is opened again.

`OnlyWatched` is about names: what `Matches` accepts by comparing the ends of
two strings lies at or below the entry at the boundary of a label.  The lemmas
say what `TrimDot`, `ToLower` and their composition do to such a suffix.  The
first attempt failed for a good reason: for an entry with a dot at its end
(`api.example.com.`) the property used to compare with the entry as written, and
the code normalises both.  The property now normalises the entry, and the
instance has such an entry.  `collectors` checks `EucInv` with TLC.

### Outputs

`OutputInv` joins to types, `ConnInv` (nothing is sent before `Connect`; only a
stream breaks, and stays broken) and `FaultsDoNotLinger` an invariant of each
`Send`, `SendInv`.  With `c` the length of a chunk, the positions up to `k * c`
have been passed when `k` chunks have.  What the server holds is increasing, can
be encoded, was not rejected, and is from the chunks passed, plus the one that
failed; and of what has been passed it holds or has rejected all, if it promises
anything.  A step appends positions beyond `k * c`, which keeps the order.  For a
client that repeats (`Resends`) the order is not claimed, and what the server
holds may be from the chunk in work at any time.  At
the end the chunks cover the batch since the number of chunks is rounded up
(`CeilDivCovers`, the one fact about division), whatever the limit, negative
and absent ones included.

A server takes a part of a request in the order of the request.  `Next` offers
`SendChunk` and `AnswerLost` the sequence `InOrder(taken)` for every part `taken`
of the request: the element with `n - 1` smaller ones is the n-th.
`PartsHaveAnOrder` says that this is an increasing sequence of exactly `taken`, so
that the guards hide no answer.  That an increasing sequence exists is an
induction on the size of the set, in which the least element goes first; that
the ranks are its places is counting.

`DryRunPredicts` needs `DocInv` besides: what the server holds of a signal is
the encoding of that very signal, and nothing but the XDR server rejects any.
With `SendInv` this makes the server's copy the list of the encodings of the
signals that have one, in order, or the same set where the client repeats.  The dry run's list is `FlattenSeq` over one
list per signal, empty or of one event (`MapSingle`).  `FlattenChosen` says
that flattening such lists is listing the values of those that are not empty, in
increasing order of position, so that the two agree, and the signals reported as unmapped are
the rest.  `FlattenSeq` is a recursive function, and what it returns takes an
induction; the library's induction theorems have an operator as parameter.  The
induction here is over a set of natural numbers instead: a nonempty set of naturals has
a least element (`LeastElement`), so that one with 0 that is closed under
successor is all of them (`NatSetInduction`).

`MapConforms` is about the schema: whatever contexts a signal has, if its layer
is known `Map` yields one event whose class, category and activity agree and
that has every field its class requires.  Of the rules for all events it can
break that of the time, when the signal has none, and of the rules of its class
that of the id, in the layers whose events take it from the signal.

`OutputInv` and `DocInv` are no properties of the run `outputs`; with them added to
`INVARIANTS` of `Outputs.cfg` TLC confirms them there.

### Watcher

`WatcherInv` says where a change of the file is: in the queue as an event, about
to be read, read and about to be applied, or applied.  It rests on each change's
queueing an event that `Start` reacts to (`EditorKeeps`), and on reading the
file after taking the event (`ReceiveKeeps`).  `CaughtUp`, which `watcher`
checks, follows.

### Only model-checked

- Liveness under fairness, which is out of reach of the prover:
  `EventuallyDrained`, `WriteComesBack`, `EventuallyProcessed`,
  `EventuallyAttempted`, `StopComesBack`, `StopReturns`, `StaysReported`,
  `CloseReleases`, `Settles`.

No invariant and no action property of the runs is left to TLC alone.  What
`pipe_stop` violates is a promise of the release notes and has no theorem.

## Limits

Not modelled: generated code and test clients, and batch identifiers
(`ulid.go`), a mutex around a clock reading and a 16-bit counter on whose order
no other component relies.  Of modelled components: in `WalBuffer`, a clock that
steps back, and the length of backoff waits; in `AgentPipeline`, a crash (the buffer's
part of it is in `WalBuffer`) and eviction, since the log has space to spare; in
`Dispatcher`, chunks: a `Send` arrives as a whole or not at all (its parts are
in `OutputConnector`); in `Identity`, the encryption, which is whole, torn or
absent; in `EucCollector`, what eBPF, ETW and the socket table report, which is
any row or event; in `OutputConnector`, `Health` and `Close`, the escaping of
CEF and everything about wire formats that the properties do not tell apart; in
`DryRun`, files that cannot be read and the printing of the report.  Growth of
`dnsSeen` (`windows.go:228`) is listed as a hazard without a property: there is
no bound to state.

## What is left

1. `AgentPipeline` with crash and restart, which means a log that may bring
   records back, and a proof that the pipeline's use of `SignalLog` implements
   the promise of at-least-once up to `stop`.
2. `WalBuffer` with a clock that steps back over a restart, and what its names
   are worth then; batch identifiers and the length of backoff waits, where a
   clock that steps back and an overflow matter too.
3. An abstract specification of an output, one signal at a time, that
   `OutputConnector` implements.
