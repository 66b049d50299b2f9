--------------------------- MODULE AgentPipeline ---------------------------
(***************************************************************************)
(* The way of a signal batch through the agent (internal/agent): ingestCh, *)
(* ingestLoop, the dispatcher, the write-ahead log a refused batch falls   *)
(* back to, the drain func that feeds it to the dispatcher again, and the  *)
(* steps of stop().  The dispatcher is module Dispatcher; the log is what  *)
(* WalBuffer is shown to implement, SignalLog, with space to spare.        *)
(*                                                                         *)
(* A batch read from ingestCh becomes one job for each group of outputs    *)
(* (native and OCSF) that is configured.  A job is <<batch, group>>.       *)
(***************************************************************************)
EXTENDS Dispatcher

CONSTANTS
  Sources,        \* what collectors hand over
  Groups,         \* the groups with targets, in the order ingestLoop serves them
  IngestCap,      \* capacity of ingestCh
  WalMayFail      \* TRUE: Buffer.Write may return an error

ASSUME PipelineAssumption ==
  /\ IngestCap \in Nat \ {0} /\ WalMayFail \in BOOLEAN
  /\ Groups \in Seq(Range(Groups)) /\ \A i, k \in DOMAIN Groups : Groups[i] = Groups[k] => i = k
  /\ Jobs = Sources \X Range(Groups) /\ None \notin Sources
  /\ Producers = {"ingest", "loop", "flush"}

VARIABLES
  phase,          \* how far stop() has come
  ingestCh,       \* Agent.ingestCh
  produced,       \* history: batches collectors have sent on ingestCh
  base, group,    \* ingestLoop: its batch and the index of the next group
  loopUp,         \* ingestLoop has not returned
  wal, drained,   \* records in the log; those marked consumed
  picked,         \* the record each drainer is about to hand to deliver()
  loopCtx,        \* the context of the drain loop is done
  flushed,        \* how Flush returned
  received,       \* history: jobs ingestLoop has dealt with
  unlogged        \* history: jobs whose Write to the log failed

pipeVars == <<phase, ingestCh, produced, base, group, loopUp, wal, drained, picked,
              loopCtx, flushed, received, unlogged>>
allVars == <<vars, pipeVars>>
DrainProcs == {"loop", "flush"}

Log == INSTANCE SignalLog WITH Batches <- Jobs, log <- wal, delivered <- drained,
                               dropped <- {}

PipelineInit ==
  /\ Init /\ Log!Init
  /\ phase = "run" /\ ingestCh = <<>> /\ produced = {}
  /\ base = None /\ group = 1 /\ loopUp = TRUE
  /\ picked = [d \in DrainProcs |-> 0]
  /\ loopCtx = FALSE /\ flushed = "no" /\ received = {} /\ unlogged = {}

-----------------------------------------------------------------------------
(* A collector sends a batch on ingestCh; it waits while that is full.     *)
RoomInChannel == Len(ingestCh) < IngestCap
Collect(b) ==
  /\ phase = "run" /\ b \notin produced /\ RoomInChannel
  /\ ingestCh' = Append(ingestCh, b) /\ produced' = produced \cup {b}
  /\ UNCHANGED <<vars, phase, base, group, loopUp, wal, drained, picked, loopCtx,
                 flushed, received, unlogged>>

(* ingestLoop.                                                             *)
Receive ==
  /\ loopUp /\ base = None /\ ingestCh # <<>>
  /\ base' = Head(ingestCh) /\ group' = 1 /\ ingestCh' = Tail(ingestCh)
  /\ UNCHANGED <<vars, phase, produced, loopUp, wal, drained, picked, loopCtx,
                 flushed, received, unlogged>>

InGroup == base # None /\ group <= Len(Groups)
JobOfFirstGroup == <<base, Groups[1]>>
Job == <<base, Groups[group]>>
GroupServed ==
  /\ received' = received \cup {Job}
  /\ group' = group + 1
  /\ UNCHANGED <<phase, ingestCh, produced, base, loopUp, picked, loopCtx, flushed>>

(* The group's job is enqueued ...                                         *)
Dispatch ==
  /\ InGroup /\ EnqueueSend("ingest", Job)
  /\ GroupServed /\ UNCHANGED <<wal, drained, unlogged>>

(* ... or refused and written to the buffer, whose error is ignored.       *)
NotBuffered == UNCHANGED <<wal, drained, unlogged>>
Buffered ==
  \/ Log!Store(Job) /\ UNCHANGED unlogged
  \/ WalMayFail /\ unlogged' = unlogged \cup {Job} /\ UNCHANGED <<wal, drained>>
Divert ==
  /\ InGroup /\ EnqueueRefuse("ingest", Job)
  /\ GroupServed /\ Buffered

NextBatch ==
  /\ base # None /\ group > Len(Groups) /\ "ingest" \notin counting
  /\ base' = None
  /\ UNCHANGED <<vars, phase, ingestCh, produced, group, loopUp, wal, drained, picked,
                 loopCtx, flushed, received, unlogged>>

LoopReturns ==
  /\ loopUp /\ phase = "ch closed" /\ base = None /\ ingestCh = <<>>
  /\ loopUp' = FALSE
  /\ UNCHANGED <<vars, phase, ingestCh, produced, base, group, wal, drained, picked,
                 loopCtx, flushed, received, unlogged>>

-----------------------------------------------------------------------------
(* The drain loop and Flush: the oldest live record is read, after a look  *)
(* at the context, and handed to deliver(), which enqueues it again; the   *)
(* record is marked consumed when that succeeds and tried again later when *)
(* the queue is full.                                                      *)
Running(d) == IF d = "loop" THEN ~loopCtx ELSE phase = "flush" /\ flushed = "no"
Live == {i \in DOMAIN wal : wal[i] \notin drained}
Pick(d) ==
  /\ Running(d) /\ picked[d] = 0 /\ d \notin counting
  /\ \E i \in Live : (\A j \in Live : i <= j) /\ picked' = [picked EXCEPT ![d] = i]
  /\ UNCHANGED <<vars, phase, ingestCh, produced, base, group, loopUp, wal, drained,
                 loopCtx, flushed, received, unlogged>>

Consumed(i) == Log!Deliver(i)
PutBack(d) ==
  /\ picked' = [picked EXCEPT ![d] = 0]
  /\ UNCHANGED <<phase, ingestCh, produced, base, group, loopUp, loopCtx, flushed, received, unlogged>>
Redeliver(d) ==
  /\ picked[d] # 0 /\ EnqueueSend(d, wal[picked[d]])
  /\ Consumed(picked[d])
  /\ PutBack(d)
ConsumedAnyway(i) == Log!Deliver(i)
KeptLive(i) == UNCHANGED <<wal, drained>>
RedeliverFails(d) ==
  /\ picked[d] # 0 /\ EnqueueRefuse(d, wal[picked[d]])
  /\ KeptLive(picked[d])
  /\ PutBack(d)

-----------------------------------------------------------------------------
(* stop(): cancel, close the collectors and ingestCh, ...                  *)
StopBegin ==
  /\ phase = "run"
  /\ phase' = "ch closed" /\ loopCtx' = TRUE
  /\ UNCHANGED <<vars, ingestCh, produced, base, group, loopUp, wal, drained, picked, flushed,
                 received, unlogged>>

(* ... wait for ingestLoop, ...                                            *)
WaitNotAtAll == TRUE
IngestLoopGone == ~loopUp
StopFlush ==
  /\ phase = "ch closed" /\ IngestLoopGone
  /\ phase' = "flush"
  /\ UNCHANGED <<vars, ingestCh, produced, base, group, loopUp, wal, drained, picked,
                 loopCtx, flushed, received, unlogged>>

(* ... flush the buffer, for shutdownTimeout at most, ...                  *)
FlushEnds ==
  /\ phase = "flush" /\ flushed = "no" /\ picked["flush"] = 0 /\ "flush" \notin counting
  /\ \/ Live = {} /\ flushed' = "all"
     \/ flushed' = "deadline"
  /\ UNCHANGED <<vars, phase, ingestCh, produced, base, group, loopUp, wal, drained, picked,
                 loopCtx, received, unlogged>>

(* ... and close the dispatcher.                                           *)
StopDispatcher ==
  /\ phase = "flush" /\ flushed # "no" /\ CloseBegin
  /\ phase' = "closing"
  /\ UNCHANGED <<ingestCh, produced, base, group, loopUp, wal, drained, picked, loopCtx,
                 flushed, received, unlogged>>
StopEnds ==
  /\ phase = "closing" /\ CloseEnd
  /\ phase' = "stopped"
  /\ UNCHANGED <<ingestCh, produced, base, group, loopUp, wal, drained, picked, loopCtx,
                 flushed, received, unlogged>>

(* The dispatcher's own steps.                                             *)
DispatcherStep ==
  /\ \/ \E p \in Producers : EnqueueCount(p)
     \/ \E w \in Workers : WorkerStep(w)
  /\ UNCHANGED pipeVars

AgentStopped == phase = "stopped" /\ UNCHANGED allVars

IngestStep == Receive \/ Dispatch \/ Divert \/ NextBatch \/ LoopReturns
DrainStep(d) == Pick(d) \/ Redeliver(d) \/ RedeliverFails(d)
StopStep == StopFlush \/ FlushEnds \/ StopDispatcher \/ StopEnds
PipelineNext ==
  \/ \E b \in Sources : Collect(b)
  \/ IngestStep
  \/ \E d \in DrainProcs : DrainStep(d)
  \/ StopBegin \/ StopStep \/ DispatcherStep \/ AgentStopped
PipelineSpec == PipelineInit /\ [][PipelineNext]_allVars

-----------------------------------------------------------------------------
(* Type invariant of the agent's own state.                                *)
PipelineTypeOK ==
  /\ phase \in {"run", "ch closed", "flush", "closing", "stopped"}
  /\ ingestCh \in Seq(Sources) /\ Len(ingestCh) <= IngestCap /\ produced \subseteq Sources
  /\ base \in Sources \cup {None} /\ group \in 1 .. Len(Groups) + 1
  /\ loopUp \in BOOLEAN /\ loopCtx \in BOOLEAN /\ flushed \in {"no", "all", "deadline"}
  /\ wal \in Seq(Jobs) /\ drained \subseteq Jobs
  /\ received \subseteq Jobs /\ unlogged \subseteq Jobs
  /\ picked \in [DrainProcs -> {0} \cup DOMAIN wal]

(* Until stop() closes the dispatcher, every job of every batch a collector*)
(* handed over is still on its way to ingestLoop's Enqueue, in the queue,  *)
(* with a worker, live in the log, or was sent to all its targets, unless  *)
(* its Write returned an error.  A target has it, or its own Send failed.  *)
InMemory == Range(queue) \cup {wjob[w] : w \in Workers}
Reached(j, c) == <<j, c>> \in arrived \/ (c \in MayFail /\ outcome[j][c] = "failed")
AtTargets(j) == \A c \in Range(TargetsOf[j]) \cap Registered : Reached(j, c)
InLog(j) == j \in Range(wal) \ drained
Waiting(j) ==
  \/ j[1] \in Range(ingestCh)
  \/ base # None /\ \E i \in group .. Len(Groups) : j = <<base, Groups[i]>>
NoLossBeforeClose ==
  ~cancelled => \A j \in Jobs : j[1] \in produced =>
    Waiting(j) \/ j \in InMemory \/ AtTargets(j) \/ InLog(j) \/ j \in unlogged

(* When Flush has returned nil, each job that was ever diverted to the log *)
(* is with the dispatcher or done, and no later Write adds another.        *)
FlushedMeansEmpty ==
  flushed = "all" => \A j \in Range(wal) : j \in InMemory \cup done

(* The inductive invariant of the proofs.  Batches: what ingestLoop has    *)
(* dealt with and what it has still to deal with are apart and complete,   *)
(* so that it writes no job to the log twice.                              *)
BatchInv ==
  /\ \A i, k \in DOMAIN ingestCh : ingestCh[i] = ingestCh[k] => i = k
  /\ Range(ingestCh) \subseteq produced /\ base \in produced \cup {None}
  /\ base \notin Range(ingestCh)
  /\ \A j \in Jobs : j \in received <=> j[1] \in produced /\ ~Waiting(j)
  /\ Range(wal) \subseteq received

(* Jobs: each one dealt with has a place, and what the dispatcher was given*)
(* it keeps until it is done.                                              *)
Placed == InMemory \cup done
PlaceInv ==
  /\ received \subseteq Placed \cup (Range(wal) \ drained) \cup unlogged
  /\ drained \subseteq Placed \cap Range(wal)
  /\ early \subseteq Placed

(* Sends: before Close, a worker has got to every target it has passed.    *)
PastReached(w) ==
  \A i \in 1 .. wnext[w] - 1 :
    /\ wjob[w] # None /\ i <= Len(TargetsOf[wjob[w]])
    /\ TargetsOf[wjob[w]][i] \in Registered
    => Reached(wjob[w], TargetsOf[wjob[w]][i])
SendInv ==
  /\ \A w \in sending : wjob[w] # None /\ wnext[w] <= Len(TargetsOf[wjob[w]])
  /\ ~cancelled => (\A j \in done : AtTargets(j)) /\ (\A w \in Workers : PastReached(w))

(* Close: a worker that has gone left the jobs from before Close with the  *)
(* others or done.                                                         *)
ExitInv ==
  /\ \A w \in Workers :
       /\ wpc[w] # "select" => cancelled
       /\ wpc[w] = "exited" => wjob[w] = None /\ early \subseteq done \cup {wjob[v] : v \in Workers}
  /\ closing = "closed" => \A w \in Workers : wpc[w] = "exited"

(* stop(): the log that Flush has emptied stays empty, and the record a    *)
(* drainer has picked is still the oldest that is live.                    *)
PickedOldest(d) == \A i \in 1 .. picked[d] - 1 : wal[i] \in drained
StopInv ==
  /\ phase \notin {"run", "ch closed"} => ~loopUp
  /\ ~loopUp => base = None /\ ingestCh = <<>> /\ phase # "run"
  /\ flushed # "no" => ~loopUp
  /\ flushed = "all" => Range(wal) \subseteq drained
  /\ \A d \in DrainProcs : PickedOldest(d)
PipelineInv ==
  TypeOK /\ PipelineTypeOK /\ BatchInv /\ PlaceInv /\ SendInv /\ ExitInv /\ StopInv

(* Jobs refused by the dispatcher are not forgotten: they come back from   *)
(* the log while the agent runs, unless their Write failed or an output    *)
(* hangs for good.                                                         *)
EventuallyAttempted ==
  []<>~Hung => \A j \in Jobs :
    j \in received ~> (j \in done \cup unlogged \/ phase # "run")

(* stop() comes back, although a worker may hang in Send and the log may   *)
(* not be drained.                                                         *)
StopComesBack == phase # "run" ~> phase = "stopped"

PipelineFairness ==
  /\ Fairness
  /\ WF_allVars(IngestStep) /\ WF_allVars(\E p \in Producers : EnqueueCount(p) /\ UNCHANGED pipeVars)
  /\ \A d \in DrainProcs : WF_allVars(DrainStep(d)) /\ SF_allVars(Redeliver(d))
  /\ WF_allVars(StopStep) /\ SF_allVars(FlushEnds)
PipelineFairSpec == PipelineSpec /\ PipelineFairness

(* A stop in which all goes well: Flush returns nil and Close finds every  *)
(* worker gone, in time.  A job that was in the log has then reached its   *)
(* targets, or is still in the log for the next start.                     *)
CleanStop == phase = "stopped" /\ flushed = "all" /\ closing = "closed"
AtLeastOnce == CleanStop => \A j \in Range(wal) : AtTargets(j) \/ InLog(j)
=============================================================================
