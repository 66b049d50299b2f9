----------------------------- MODULE Dispatcher -----------------------------
(***************************************************************************)
(* The Dispatcher of internal/connector: a bounded queue of delivery jobs, *)
(* a fixed pool of workers that send each job to its targets one after the *)
(* other, and Close, which cancels the context the workers and their sends *)
(* share and waits for the workers, but not for ever.                      *)
(*                                                                         *)
(* A job stands for its batch.  A Send takes two steps, so that Close may  *)
(* fall between them; what it sends in chunks counts as one arrival.       *)
(* The registry is filled before the dispatcher is created and stays as it *)
(* is.  As in WalBuffer, an unused definition before one with the same     *)
(* parameters is that definition with a slip, for the mutation runs.       *)
(***************************************************************************)
EXTENDS Integers, Sequences, FiniteSets, SequencesExt

CONSTANTS
  Jobs, Producers, Workers,
  Connectors,     \* names a job may list as targets
  Registered,     \* those that ConnectorRegistry.Get finds
  TargetsOf,      \* DispatchJob.Targets of each job
  Capacity,       \* DispatchConfig.QueueCapacity
  MayFail,        \* connectors whose Send may fail for a reason of its own
  CtxBlind,       \* connectors whose Send ignores its context (syslog)
  None

ASSUME DispatcherAssumption ==
  /\ Capacity \in Nat \ {0}
  /\ Registered \subseteq Connectors
  /\ TargetsOf \in [Jobs -> Seq(Connectors)]
  /\ MayFail \subseteq Connectors /\ CtxBlind \subseteq Connectors
  /\ None \notin Jobs

VARIABLES
  queue,          \* Dispatcher.queue
  cancelled,      \* Dispatcher.ctx is done
  closing,        \* where the call of Close is
  counting,       \* producers that have sent their job but not yet counted it
  wpc,            \* each worker: its select, the drain loop in it, or exited
  wjob, wnext,    \* its job and the index of the next target
  sending,        \* workers inside Send
  accepted, delivered, failed, dropped,    \* the counters of Stats
  offered,        \* history: jobs Enqueue was called with
  early,          \* history: jobs in the queue before Close cancelled the context
  refused,        \* history: jobs Enqueue returned an error for
  done,           \* history: jobs process has returned from
  outcome,        \* history: how the Send of a job to a connector ended
  arrived         \* history: what connectors have passed on to their backend

vars == <<queue, cancelled, closing, counting, wpc, wjob, wnext, sending, accepted,
          delivered, failed, dropped, offered, early, refused, done, outcome, arrived>>
workerVars == <<wpc, wjob, wnext, sending>>

Init ==
  /\ queue = <<>> /\ cancelled = FALSE /\ closing = "open" /\ counting = {}
  /\ wpc = [w \in Workers |-> "select"]
  /\ wjob = [w \in Workers |-> None] /\ wnext = [w \in Workers |-> 1]
  /\ sending = {}
  /\ accepted = 0 /\ delivered = 0 /\ failed = 0 /\ dropped = 0
  /\ offered = {} /\ early = {} /\ refused = {} /\ done = {}
  /\ outcome = [j \in Jobs |-> [c \in Connectors |-> "none"]]
  /\ arrived = {}

-----------------------------------------------------------------------------
(* Enqueue: a select over the send, the done context and a default.  When  *)
(* the queue has room and the context is done, either is taken.            *)
HasRoom == Len(queue) < Capacity
EnqueueSend(p, j) ==
  /\ p \notin counting /\ HasRoom
  /\ queue' = Append(queue, j)
  /\ counting' = counting \cup {p}
  /\ early' = IF cancelled THEN early ELSE early \cup {j}
  /\ offered' = offered \cup {j}
  /\ UNCHANGED <<cancelled, closing, workerVars, accepted, delivered, failed, dropped,
                 refused, done, outcome, arrived>>

(* The accepted counter is raised after the send.                          *)
EnqueueCount(p) ==
  /\ p \in counting
  /\ counting' = counting \ {p}
  /\ accepted' = accepted + 1
  /\ UNCHANGED <<queue, cancelled, closing, workerVars, delivered, failed, dropped,
                 offered, early, refused, done, outcome, arrived>>

EnqueueRefuse(p, j) ==
  /\ p \notin counting /\ (cancelled \/ Len(queue) = Capacity)
  /\ offered' = offered \cup {j} /\ refused' = refused \cup {j}
  /\ UNCHANGED <<queue, cancelled, closing, counting, workerVars, accepted, delivered,
                 failed, dropped, early, done, outcome, arrived>>

-----------------------------------------------------------------------------
(* worker.                                                                 *)
Idle(w) == wpc[w] # "exited" /\ wjob[w] = None

JobStaysQueued == queue
JobTakenOut == Tail(queue)
TakeJob(w) ==
  /\ Idle(w) /\ queue # <<>>
  /\ wjob' = [wjob EXCEPT ![w] = Head(queue)]
  /\ wnext' = [wnext EXCEPT ![w] = 1]
  /\ queue' = JobTakenOut
  /\ UNCHANGED <<cancelled, closing, counting, wpc, sending, accepted, delivered, failed,
                 dropped, offered, early, refused, done, outcome, arrived>>

(* The worker's select sees the done context and turns to draining.        *)
SeeCancel(w) ==
  /\ Idle(w) /\ wpc[w] = "select" /\ cancelled
  /\ wpc' = [wpc EXCEPT ![w] = "drain"]
  /\ UNCHANGED <<queue, cancelled, closing, counting, wjob, wnext, sending, accepted,
                 delivered, failed, dropped, offered, early, refused, done, outcome, arrived>>

ExitAtOnce(w) == Idle(w) /\ wpc[w] = "drain"
MayExit(w) == Idle(w) /\ wpc[w] = "drain" /\ queue = <<>>
WorkerExit(w) ==
  /\ MayExit(w)
  /\ wpc' = [wpc EXCEPT ![w] = "exited"]
  /\ UNCHANGED <<queue, cancelled, closing, counting, wjob, wnext, sending, accepted,
                 delivered, failed, dropped, offered, early, refused, done, outcome, arrived>>

(* process: the targets in turn.  One that is not registered is skipped.   *)
AtTarget(w) == wjob[w] # None /\ w \notin sending /\ wnext[w] <= Len(TargetsOf[wjob[w]])
Target(w) == TargetsOf[wjob[w]][wnext[w]]
NextTarget(w) == [wnext EXCEPT ![w] = @ + 1]
SkipTheRest(w) == [wnext EXCEPT ![w] = Len(TargetsOf[wjob[w]]) + 1]
AfterFailure(w) == NextTarget(w)

SkipTarget(w) ==
  /\ AtTarget(w) /\ Target(w) \notin Registered
  /\ wnext' = NextTarget(w)
  /\ UNCHANGED <<queue, cancelled, closing, counting, wpc, wjob, sending, accepted, delivered,
                 failed, dropped, offered, early, refused, done, outcome, arrived>>

BeginSend(w) ==
  /\ AtTarget(w) /\ Target(w) \in Registered
  /\ cancelled => Target(w) \in CtxBlind
  /\ sending' = sending \cup {w}
  /\ UNCHANGED <<queue, cancelled, closing, counting, wpc, wjob, wnext, accepted, delivered,
                 failed, dropped, offered, early, refused, done, outcome, arrived>>

Outcome(w, r) == outcome' = [outcome EXCEPT ![wjob[w]][Target(w)] = r]
SendCountedAsDelivered(w, ok) == delivered' = delivered + 1 /\ UNCHANGED failed
SendCounted(w, ok) ==
  IF ok THEN delivered' = delivered + 1 /\ UNCHANGED failed
        ELSE failed' = failed + 1 /\ UNCHANGED delivered

(* Send was called with a context that is done already.                    *)
SendCancelled(w) ==
  /\ AtTarget(w) /\ Target(w) \in Registered \ CtxBlind /\ cancelled
  /\ Outcome(w, "failed") /\ SendCounted(w, FALSE)
  /\ wnext' = AfterFailure(w)
  /\ UNCHANGED <<queue, cancelled, closing, counting, wpc, wjob, sending, accepted,
                 dropped, offered, early, refused, done, arrived>>

(* Send returns.  It fails on its own account, or because its context ends *)
(* while it runs; in either case the backend may have got the batch.       *)
EndSend(w) ==
  /\ w \in sending
  /\ \/ /\ Outcome(w, "ok") /\ SendCounted(w, TRUE)
        /\ arrived' = arrived \cup {<<wjob[w], Target(w)>>}
        /\ wnext' = NextTarget(w)
     \/ /\ Target(w) \in MayFail \/ (cancelled /\ Target(w) \notin CtxBlind)
        /\ Outcome(w, "failed") /\ SendCounted(w, FALSE)
        /\ arrived' \in {arrived, arrived \cup {<<wjob[w], Target(w)>>}}
        /\ wnext' = AfterFailure(w)
  /\ sending' = sending \ {w}
  /\ UNCHANGED <<queue, cancelled, closing, counting, wpc, wjob, accepted, dropped,
                 offered, early, refused, done>>

ProcessReturns(w) ==
  /\ wjob[w] # None /\ w \notin sending /\ wnext[w] > Len(TargetsOf[wjob[w]])
  /\ done' = done \cup {wjob[w]}
  /\ wjob' = [wjob EXCEPT ![w] = None]
  /\ UNCHANGED <<queue, cancelled, closing, counting, wpc, wnext, sending, accepted, delivered,
                 failed, dropped, offered, early, refused, outcome, arrived>>

-----------------------------------------------------------------------------
(* Close, once: cancel, then wait for the workers or ShutdownTimeout.      *)
CancelFirst == TRUE
CloseBegin ==
  /\ closing = "open"
  /\ closing' = "waiting" /\ cancelled' = CancelFirst
  /\ UNCHANGED <<queue, counting, workerVars, accepted, delivered, failed, dropped,
                 offered, early, refused, done, outcome, arrived>>

CloseWithoutTimeout ==
  /\ closing = "waiting" /\ \A w \in Workers : wpc[w] = "exited"
  /\ closing' = "closed"
  /\ UNCHANGED <<queue, cancelled, counting, workerVars, accepted, delivered, failed, dropped,
                 offered, early, refused, done, outcome, arrived>>
CloseEnd ==
  /\ closing = "waiting"
  /\ \/ (\A w \in Workers : wpc[w] = "exited") /\ closing' = "closed"
     \/ closing' = "timed out"
  /\ UNCHANGED <<queue, cancelled, counting, workerVars, accepted, delivered, failed, dropped,
                 offered, early, refused, done, outcome, arrived>>

Terminated ==
  /\ offered = Jobs /\ counting = {} /\ closing \in {"closed", "timed out"}
  /\ \A w \in Workers : wpc[w] = "exited"
  /\ UNCHANGED vars

Enqueue(p) == EnqueueCount(p) \/ \E j \in Jobs \ offered : EnqueueSend(p, j) \/ EnqueueRefuse(p, j)
WorkerStep(w) ==
  \/ TakeJob(w) \/ SeeCancel(w) \/ WorkerExit(w) \/ SkipTarget(w) \/ BeginSend(w)
  \/ SendCancelled(w) \/ EndSend(w) \/ ProcessReturns(w)
Next ==
  \/ \E p \in Producers : Enqueue(p)
  \/ \E w \in Workers : WorkerStep(w)
  \/ CloseBegin \/ CloseEnd \/ Terminated
Spec == Init /\ [][Next]_vars

-----------------------------------------------------------------------------
(* Type invariant of the Dispatcher's state.                               *)
TypeOK ==
  /\ queue \in Seq(Jobs) /\ Len(queue) <= Capacity
  /\ cancelled \in BOOLEAN /\ closing \in {"open", "waiting", "closed", "timed out"}
  /\ counting \subseteq Producers /\ sending \subseteq Workers
  /\ wpc \in [Workers -> {"select", "drain", "exited"}]
  /\ wjob \in [Workers -> Jobs \cup {None}] /\ wnext \in [Workers -> Nat \ {0}]
  /\ accepted \in Nat /\ delivered \in Nat /\ failed \in Nat /\ dropped \in Nat
  /\ offered \subseteq Jobs /\ early \subseteq Jobs /\ refused \subseteq Jobs /\ done \subseteq Jobs
  /\ outcome \in [Jobs -> [Connectors -> {"none", "ok", "failed"}]]
  /\ arrived \subseteq Jobs \X Connectors

(* A job that got past Enqueue is in exactly one place: once in the queue, *)
(* with one worker, or done.                                               *)
Held(w) == {wjob[w]} \ {None}
OnePlace ==
  /\ \A i, k \in DOMAIN queue : queue[i] = queue[k] => i = k
  /\ \A w, v \in Workers : wjob[w] # None /\ wjob[w] = wjob[v] => w = v
  /\ \A w \in Workers : Held(w) \cap (Range(queue) \cup done) = {}
  /\ Range(queue) \cap done = {}
  /\ offered \ refused = Range(queue) \cup done \cup UNION {Held(w) : w \in Workers}

(* The counters agree with what happened, whatever the interleaving of     *)
(* Enqueue's send and its counter with the workers: jobs accepted, or sent *)
(* and about to be counted, are those queued, in work or done, and each    *)
(* Send is counted once.                                                   *)
Ended(r) == {jc \in Jobs \X Connectors : outcome[jc[1]][jc[2]] = r}
Accounting ==
  /\ accepted + Cardinality(counting) = Cardinality(offered \ refused)
  /\ delivered = Cardinality(Ended("ok")) /\ failed = Cardinality(Ended("failed"))

(* Fan-out is complete and independent of failures: when process returns,  *)
(* Send has ended for every registered target, also those after one that   *)
(* failed.                                                                 *)
FanOutComplete ==
  \A j \in done : \A c \in Range(TargetsOf[j]) \cap Registered : outcome[j][c] # "none"

(* When Close returns nil, all jobs enqueued before it have been processed *)
(* by a worker: no worker leaves while one of them is still queued.        *)
CloseProcessesEarly == closing = "closed" => early \subseteq done

(* The inductive invariant of the proofs.  A worker drains only after the  *)
(* cancel and leaves only when no job from before it is queued, and no     *)
(* such job is queued again; what a worker has passed in its target list   *)
(* has been tried.                                                         *)
WorkerInv ==
  \A w \in Workers :
    /\ wpc[w] # "select" => cancelled
    /\ wpc[w] = "exited" => wjob[w] = None /\ early \cap Range(queue) = {}
    /\ w \in sending => wjob[w] # None /\ wnext[w] <= Len(TargetsOf[wjob[w]])
Tried(j, i) == TargetsOf[j][i] \in Registered => outcome[j][TargetsOf[j][i]] # "none"
PastTried(w) ==
  \A i \in 1 .. wnext[w] - 1 :
    wjob[w] # None /\ i <= Len(TargetsOf[wjob[w]]) => Tried(wjob[w], i)
ProgressInv == \A w \in Workers : PastTried(w)
CloseInv ==
  /\ early \subseteq offered \ refused
  /\ refused \subseteq offered
  /\ closing = "closed" => \A w \in Workers : wpc[w] = "exited"
CoreInv ==
  TypeOK /\ OnePlace /\ FanOutComplete /\ WorkerInv /\ ProgressInv /\ CloseInv

(* What the counters rest on: no Send is repeated.  Nothing has been sent  *)
(* of a job before a worker has it, nor to the targets still ahead of that *)
(* worker, if the list names each once (as ConnectorRegistry.Register,     *)
(* which refuses a second connector of the same name, makes it do).        *)
DistinctTargets == \A j \in Jobs : IsInjective(TargetsOf[j])
Untouched(j) == \A c \in Connectors : outcome[j][c] = "none"
NotYetSent(w) ==
  \A i \in DOMAIN TargetsOf[wjob[w]] :
    i >= wnext[w] => outcome[wjob[w]][TargetsOf[wjob[w]][i]] = "none"
OnceInv ==
  /\ \A j \in Jobs \ done : Untouched(j) \/ \E w \in Workers : wjob[w] = j
  /\ \A w \in Workers : wjob[w] # None => NotYetSent(w)
FiniteInv ==
  IsFiniteSet(counting) /\ IsFiniteSet(offered) /\ \A r \in {"ok", "failed"} : IsFiniteSet(Ended(r))
DispatcherInv == CoreInv /\ FiniteInv /\ (DistinctTargets => OnceInv /\ Accounting)

-----------------------------------------------------------------------------
(* Workers run, and a Send ends when its connector heeds the context with  *)
(* its timeout; one that does not may hang.  Close comes, and its          *)
(* ShutdownTimeout strikes.                                                *)
Fairness ==
  /\ \A w \in Workers :
       /\ WF_vars(TakeJob(w) \/ SkipTarget(w) \/ BeginSend(w) \/ SendCancelled(w) \/ ProcessReturns(w))
       /\ WF_vars(w \in sending /\ Target(w) \notin CtxBlind /\ EndSend(w))
       /\ SF_vars(SeeCancel(w)) /\ WF_vars(WorkerExit(w))
  /\ WF_vars(CloseEnd)
FairSpec == Spec /\ Fairness

(* Every job that is queued is processed although jobs ahead of it fail or *)
(* time out, unless an output that does not heed its context hangs for     *)
(* good.                                                                   *)
Hung == \E w \in sending : Target(w) \in CtxBlind
EventuallyProcessed == []<>~Hung => \A j \in Jobs : j \in early ~> j \in done
=============================================================================
