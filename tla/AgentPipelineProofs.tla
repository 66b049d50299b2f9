------------------------ MODULE AgentPipelineProofs ------------------------
(***************************************************************************)
(* Proofs about AgentPipeline, for any batches, groups, workers, connectors*)
(* and queue lengths.  The same job may be in the dispatcher twice here    *)
(* (the drain loop and Flush may both hand it over), so that CoreInv       *)
(* does not hold; what its steps keep in the pipeline is proved anew.      *)
(***************************************************************************)
EXTENDS AgentPipeline, DispatcherProofs

(* What the dispatcher's steps need and keep.                              *)
DispatcherPart == TypeOK /\ SendInv /\ ExitInv /\ early \subseteq Placed
StayPlaced == \A j \in Jobs : j \in Placed => j \in Placed'

-----------------------------------------------------------------------------
(* What each part depends on.                                              *)
LEMMA SendPartKept ==
  SendInv /\ UNCHANGED <<sending, wjob, wnext, cancelled, done, arrived, outcome>> => SendInv'
BY DEF SendInv, PastReached, AtTargets, Reached

LEMMA ExitPartKept ==
  ExitInv /\ UNCHANGED <<wpc, cancelled, wjob, early, done, closing>> => ExitInv'
BY DEF ExitInv

LEMMA PlacedKept == UNCHANGED <<queue, wjob, done>> => Placed' = Placed
BY DEF Placed, InMemory

-----------------------------------------------------------------------------
(* Enqueue.                                                                *)
LEMMA EnqueueSendPart ==
  ASSUME DispatcherPart, NEW p \in Producers, NEW j \in Jobs, EnqueueSend(p, j)
  PROVE  DispatcherPart' /\ Placed' = Placed \cup {j}
<1>1. /\ queue' = Append(queue, j) /\ Len(queue) < Capacity /\ queue \in Seq(Jobs)
      /\ UNCHANGED <<cancelled, closing, wpc, wjob, wnext, sending, accepted, delivered, failed,
                     dropped, refused, done, outcome, arrived>>
      BY DEF DispatcherPart, TypeOK, EnqueueSend, HasRoom, workerVars
<1>2. queue' \in Seq(Jobs) /\ Len(queue') = Len(queue) + 1 /\ Range(queue') = Range(queue) \cup {j}
      BY <1>1, AppendQueue
<1>3. Placed' = Placed \cup {j}
      BY <1>1, <1>2 DEF Placed, InMemory
<1>4. TypeOK'
  <2>1. Len(queue') <= Capacity
    <3>1. Len(queue) \in Nat /\ Capacity \in Nat
          BY Lengths DEF DispatcherPart
    <3> QED BY ONLY <3>1, <1>1, <1>2
  <2>2. offered' \subseteq Jobs /\ early' \subseteq Jobs /\ counting' \subseteq Producers
        BY DEF DispatcherPart, TypeOK, EnqueueSend
  <2> QED BY <1>1, <1>2, <2>1, <2>2 DEF DispatcherPart, TypeOK
<1>5. early' \subseteq Placed'
      BY <1>3 DEF DispatcherPart, EnqueueSend
<1>6. ExitInv'
  <2>1. ASSUME NEW w \in Workers, wpc[w] = "exited" PROVE early' = early
        BY <2>1 DEF DispatcherPart, ExitInv, EnqueueSend
  <2> QED BY <1>1, <2>1 DEF DispatcherPart, ExitInv
<1>7. SendInv'
      BY <1>1, SendPartKept DEF DispatcherPart
<1> QED BY <1>3, <1>4, <1>5, <1>6, <1>7 DEF DispatcherPart

LEMMA EnqueueCountPart ==
  ASSUME DispatcherPart, NEW p \in Producers, EnqueueCount(p)
  PROVE  DispatcherPart' /\ Placed' = Placed
<1>1. UNCHANGED <<queue, cancelled, closing, wpc, wjob, wnext, sending, delivered, failed,
                  dropped, offered, early, refused, done, outcome, arrived>>
      BY DEF EnqueueCount, workerVars
<1>2. accepted' \in Nat /\ counting' \subseteq Producers
  <2>1. accepted \in Nat /\ counting \subseteq Producers
        BY DEF DispatcherPart, TypeOK
  <2> QED BY <2>1 DEF EnqueueCount
<1>3. TypeOK'
      BY <1>1, <1>2 DEF DispatcherPart, TypeOK
<1> QED BY <1>1, <1>3, SendPartKept, ExitPartKept, PlacedKept DEF DispatcherPart

LEMMA EnqueueRefusePart ==
  ASSUME DispatcherPart, NEW p \in Producers, NEW j \in Jobs, EnqueueRefuse(p, j)
  PROVE  DispatcherPart' /\ Placed' = Placed
<1>1. UNCHANGED <<queue, cancelled, closing, counting, wpc, wjob, wnext, sending, accepted,
                  delivered, failed, dropped, early, done, outcome, arrived>>
      BY DEF EnqueueRefuse, workerVars
<1>2. offered' \subseteq Jobs /\ refused' \subseteq Jobs
      BY DEF DispatcherPart, TypeOK, EnqueueRefuse
<1>3. TypeOK'
      BY <1>1, <1>2 DEF DispatcherPart, TypeOK
<1> QED BY <1>1, <1>3, SendPartKept, ExitPartKept, PlacedKept DEF DispatcherPart

-----------------------------------------------------------------------------
(* worker.                                                                 *)
LEMMA TakeJobPart ==
  ASSUME DispatcherPart, NEW w \in Workers, TakeJob(w)
  PROVE  DispatcherPart' /\ StayPlaced
<1> DEFINE h == Head(queue)
<1>1. /\ queue' = Tail(queue) /\ queue # <<>> /\ queue \in Seq(Jobs)
      /\ wjob' = [wjob EXCEPT ![w] = h] /\ wnext' = [wnext EXCEPT ![w] = 1]
      /\ wjob[w] = None /\ wpc[w] # "exited" /\ wjob \in [Workers -> Jobs \cup {None}]
      /\ wnext \in [Workers -> Nat \ {0}]
      BY DEF DispatcherPart, TypeOK, TakeJob, JobTakenOut, Idle
<1>2. UNCHANGED <<cancelled, closing, counting, wpc, sending, accepted, delivered, failed,
                  dropped, offered, early, refused, done, outcome, arrived>>
      BY DEF TakeJob
<1>3. /\ queue' \in Seq(Jobs) /\ Len(queue') = Len(queue) - 1 /\ h \in Jobs
      /\ Range(queue) = Range(queue') \cup {h}
      BY <1>1, TailQueue
<1> HIDE DEF h
<1>4. /\ wjob'[w] = h /\ wnext'[w] = 1
      /\ \A v \in Workers \ {w} : wjob'[v] = wjob[v] /\ wnext'[v] = wnext[v]
      BY <1>1
<1>5. TypeOK'
  <2>1. Len(queue') <= Capacity
    <3>1. Len(queue) \in Nat /\ Capacity \in Nat /\ Len(queue) <= Capacity
          BY Lengths DEF DispatcherPart
    <3> QED BY ONLY <3>1, <1>3
  <2>2. wjob' \in [Workers -> Jobs \cup {None}] /\ wnext' \in [Workers -> Nat \ {0}]
        BY <1>1, <1>3
  <2> QED BY <1>2, <1>3, <2>1, <2>2 DEF DispatcherPart, TypeOK
<1>6. None \notin Jobs
      BY DispatcherAssumption
<1>7. StayPlaced
  <2>1. ASSUME NEW j \in Jobs, j \in Placed PROVE j \in Placed'
    <3>1. CASE j \in Range(queue) \cup done
          BY <1>2, <1>3, <1>4, <3>1 DEF Placed, InMemory
    <3>2. ASSUME NEW v \in Workers, wjob[v] = j PROVE j \in Placed'
          BY <1>1, <1>4, <1>6, <2>1, <3>2 DEF Placed, InMemory
    <3> QED BY <2>1, <3>1, <3>2 DEF Placed, InMemory
  <2> QED BY <2>1 DEF StayPlaced
<1>8. early' \subseteq Placed'
      BY <1>2, <1>7 DEF DispatcherPart, TypeOK, StayPlaced
<1>9. ExitInv'
  <2>1. ASSUME NEW v \in Workers, wpc[v] = "exited"
        PROVE  wjob'[v] = None /\ early \subseteq done \cup {wjob'[u] : u \in Workers}
    <3>1. wjob[v] = None /\ early \subseteq done \cup {wjob[u] : u \in Workers} /\ v # w
          BY <1>1, <2>1 DEF DispatcherPart, ExitInv
    <3>2. \A u \in Workers : wjob[u] # None => wjob'[u] = wjob[u]
          BY <1>1, <1>4
    <3>3. None \notin early
          BY <1>6 DEF DispatcherPart, TypeOK
    <3> QED BY <1>4, <3>1, <3>2, <3>3
  <2> QED BY <1>2, <2>1 DEF DispatcherPart, ExitInv
<1>10. SendInv'
  <2>1. w \notin sending
        BY <1>1 DEF DispatcherPart, SendInv
  <2>2. \A v \in sending' : wjob'[v] # None /\ wnext'[v] <= Len(TargetsOf[wjob'[v]])
    <3> TAKE v \in sending'
    <3>1. v \in sending /\ v \in Workers \ {w}
          BY <1>2, <2>1 DEF DispatcherPart, TypeOK
    <3> QED BY <1>4, <3>1 DEF DispatcherPart, SendInv
  <2>3. \A v \in Workers : PastReached(v) => PastReached(v)'
        BY <1>2, <1>4 DEF PastReached, Reached
  <2>4. \A j \in done : AtTargets(j) => AtTargets(j)'
        BY <1>2 DEF AtTargets, Reached
  <2> QED BY <1>2, <2>2, <2>3, <2>4 DEF DispatcherPart, SendInv
<1> QED BY <1>5, <1>7, <1>8, <1>9, <1>10 DEF DispatcherPart

LEMMA SeeCancelPart ==
  ASSUME DispatcherPart, NEW w \in Workers, SeeCancel(w)
  PROVE  DispatcherPart' /\ Placed' = Placed
<1>1. /\ UNCHANGED <<queue, cancelled, closing, counting, wjob, wnext, sending, accepted,
                     delivered, failed, dropped, offered, early, refused, done, outcome, arrived>>
      /\ cancelled /\ wpc[w] = "select"
      /\ wpc' = [wpc EXCEPT ![w] = "drain"]
      BY DEF SeeCancel
<1>2. wpc \in [Workers -> {"select", "drain", "exited"}]
      BY DEF DispatcherPart, TypeOK
<1>3. TypeOK'
  <2>1. wpc' \in [Workers -> {"select", "drain", "exited"}]
        BY <1>1, <1>2
  <2> QED BY <1>1, <2>1 DEF DispatcherPart, TypeOK
<1>4. \A v \in Workers : wpc'[v] = "exited" <=> wpc[v] = "exited"
      BY <1>1, <1>2
<1>5. ExitInv'
      BY <1>1, <1>4 DEF DispatcherPart, ExitInv
<1> QED BY <1>1, <1>3, <1>5, SendPartKept, PlacedKept DEF DispatcherPart

LEMMA WorkerExitPart ==
  ASSUME DispatcherPart, NEW w \in Workers, WorkerExit(w)
  PROVE  DispatcherPart' /\ Placed' = Placed
<1>1. /\ UNCHANGED <<queue, cancelled, closing, counting, wjob, wnext, sending, accepted,
                     delivered, failed, dropped, offered, early, refused, done, outcome, arrived>>
      /\ queue = <<>> /\ wjob[w] = None /\ wpc[w] = "drain"
      /\ wpc' = [wpc EXCEPT ![w] = "exited"]
      BY DEF WorkerExit, MayExit, Idle
<1>2. wpc \in [Workers -> {"select", "drain", "exited"}]
      BY DEF DispatcherPart, TypeOK
<1>3. wpc' \in [Workers -> {"select", "drain", "exited"}]
      /\ wpc'[w] = "exited" /\ \A v \in Workers \ {w} : wpc'[v] = wpc[v]
      BY <1>1, <1>2
<1>4. TypeOK'
      BY <1>1, <1>3 DEF DispatcherPart, TypeOK
<1>5. Range(queue) = {}
      BY <1>1 DEF Range
<1>6. early \subseteq done \cup {wjob[v] : v \in Workers}
      BY <1>5 DEF DispatcherPart, Placed, InMemory
<1>7. ExitInv'
  <2>1. ASSUME NEW v \in Workers
        PROVE  /\ wpc'[v] # "select" => cancelled
               /\ wpc'[v] = "exited"
                    => wjob[v] = None /\ early \subseteq done \cup {wjob[u] : u \in Workers}
        BY <1>1, <1>3, <1>6 DEF DispatcherPart, ExitInv
  <2>2. closing = "closed" => \A v \in Workers : wpc'[v] = "exited"
        BY <1>3 DEF DispatcherPart, ExitInv
  <2> QED BY <1>1, <2>1, <2>2 DEF ExitInv
<1> QED BY <1>1, <1>4, <1>7, SendPartKept, PlacedKept DEF DispatcherPart

(* What has been reached stays reached, whatever the next Send brings.     *)
LEMMA ReachedStays ==
  ASSUME TypeOK, NEW w \in Workers, wjob[w] \in Jobs, Target(w) \in Connectors,
         NEW r \in {"ok", "failed"}, Outcome(w, r), arrived \subseteq arrived',
         r = "ok" => <<wjob[w], Target(w)>> \in arrived',
         NEW j \in Jobs, NEW c \in Connectors, Reached(j, c)
  PROVE  Reached(j, c)'
<1>1. outcome \in [Jobs -> [Connectors -> {"none", "ok", "failed"}]]
      BY DEF TypeOK
<1>2. outcome' = [outcome EXCEPT ![wjob[w]][Target(w)] = r]
      BY DEF Outcome
<1> HIDE DEF Target
<1>3. CASE j = wjob[w] /\ c = Target(w)
  <2>1. outcome'[j][c] = r
        BY <1>1, <1>2, <1>3
  <2> QED BY <1>3, <2>1 DEF Reached
<1>4. CASE ~(j = wjob[w] /\ c = Target(w))
  <2>1. outcome'[j][c] = outcome[j][c]
        BY <1>1, <1>2, <1>4
  <2> QED BY <2>1 DEF Reached
<1> QED BY <1>3, <1>4

(* A worker goes on to its next target, having got to this one or having   *)
(* no need to, while what was reached stays so.                            *)
LEMMA AdvanceSends ==
  ASSUME TypeOK, SendInv, NEW w \in Workers,
         wjob[w] # None, wnext[w] <= Len(TargetsOf[wjob[w]]),
         UNCHANGED <<wjob, done, cancelled>>, wnext' = NextTarget(w), sending' = sending \ {w},
         \A i \in Jobs, d \in Connectors : Reached(i, d) => Reached(i, d)',
         NEW j \in Jobs, NEW c \in Connectors, j = wjob[w], c = Target(w),
         ~cancelled /\ c \in Registered => Reached(j, c)'
  PROVE  wnext' \in [Workers -> Nat \ {0}] /\ SendInv'
<1>1. /\ wnext \in [Workers -> Nat \ {0}] /\ wjob \in [Workers -> Jobs \cup {None}]
      /\ done \subseteq Jobs
      BY DEF TypeOK
<1>2. /\ wnext' \in [Workers -> Nat \ {0}] /\ wnext'[w] = wnext[w] + 1
      /\ \A v \in Workers \ {w} : wnext'[v] = wnext[v]
      BY <1>1 DEF NextTarget
<1>3. \A x \in Jobs : TargetsOf[x] \in Seq(Connectors)
      BY DispatcherAssumption
<1>4. \A x \in Jobs : \A i \in 1 .. Len(TargetsOf[x]) : TargetsOf[x][i] \in Connectors
      BY <1>3
<1>5. ASSUME NEW v \in Workers, ~cancelled PROVE PastReached(v)'
  <2> SUFFICES ASSUME NEW i \in 1 .. wnext'[v] - 1, NEW x \in Jobs, NEW d \in Connectors,
                      x = wjob[v], i <= Len(TargetsOf[x]), d = TargetsOf[x][i], d \in Registered
               PROVE  Reached(x, d)'
    <3>1. ASSUME NEW i \in 1 .. wnext'[v] - 1, wjob[v] # None, i <= Len(TargetsOf[wjob[v]])
          PROVE  wjob[v] \in Jobs /\ TargetsOf[wjob[v]][i] \in Connectors
          BY <1>1, <1>2, <1>3, <1>4, <3>1
    <3> QED BY <3>1 DEF PastReached
  <2>1. wnext[v] \in Nat \ {0} /\ i \in Nat \ {0} /\ x # None
        BY <1>1, <1>2, DispatcherAssumption
  <2>2. CASE v = w /\ i = wnext[w]
    <3>1. x = j /\ d = c
          BY <2>2 DEF Target
    <3> QED BY <1>5, <3>1
  <2>3. CASE ~(v = w /\ i = wnext[w])
    <3>1. i \in 1 .. wnext[v] - 1
          BY <1>2, <2>1, <2>3
    <3>2. Reached(x, d)
          BY <1>5, <2>1, <3>1 DEF SendInv, PastReached
    <3> QED BY <3>2
  <2> QED BY <2>2, <2>3
<1>6. ASSUME NEW x \in done, ~cancelled PROVE AtTargets(x)'
  <2>1. AtTargets(x) /\ x \in Jobs
        BY <1>1, <1>6 DEF SendInv
  <2> QED BY <2>1, DispatcherAssumption DEF AtTargets
<1>7. \A v \in sending' : wjob'[v] # None /\ wnext'[v] <= Len(TargetsOf[wjob'[v]])
  <2> TAKE v \in sending'
  <2>1. v \in sending /\ v \in Workers \ {w}
        BY DEF TypeOK
  <2> QED BY <1>2, <2>1 DEF SendInv
<1> QED BY <1>2, <1>5, <1>6, <1>7 DEF SendInv

LEMMA SkipTargetPart ==
  ASSUME DispatcherPart, NEW w \in Workers, SkipTarget(w)
  PROVE  DispatcherPart' /\ Placed' = Placed
<1>1. /\ wjob[w] # None /\ w \notin sending /\ wnext[w] <= Len(TargetsOf[wjob[w]])
      /\ Target(w) \notin Registered /\ wnext' = NextTarget(w)
      BY DEF SkipTarget, AtTarget
<1>2. UNCHANGED <<queue, cancelled, closing, counting, wpc, wjob, sending, accepted, delivered,
                  failed, dropped, offered, early, refused, done, outcome, arrived>>
      BY DEF SkipTarget
<1>3. wnext' \in [Workers -> Nat \ {0}] /\ SendInv'
  <2> DEFINE i == wjob[w]
             d == Target(w)
  <2>1. \A j \in Jobs, c \in Connectors : Reached(j, c) => Reached(j, c)'
        BY <1>2 DEF Reached
  <2>2. sending' = sending \ {w} /\ TypeOK /\ SendInv
        BY <1>1, <1>2 DEF DispatcherPart
  <2>3. i \in Jobs /\ d \in Connectors /\ d \notin Registered
        BY <1>1, <2>2, AtTargetFacts
  <2> HIDE DEF i, d
  <2>4. i = wjob[w] /\ d = Target(w)
        BY DEF i, d
  <2> QED BY <1>1, <1>2, <2>1, <2>2, <2>3, <2>4, AdvanceSends
<1>4. TypeOK'
      BY <1>2, <1>3 DEF DispatcherPart, TypeOK
<1> QED BY <1>2, <1>3, <1>4, ExitPartKept, PlacedKept DEF DispatcherPart

LEMMA BeginSendPart ==
  ASSUME DispatcherPart, NEW w \in Workers, BeginSend(w)
  PROVE  DispatcherPart' /\ Placed' = Placed
<1>1. /\ wjob[w] # None /\ wnext[w] <= Len(TargetsOf[wjob[w]]) /\ sending' = sending \cup {w}
      /\ UNCHANGED <<queue, cancelled, closing, counting, wpc, wjob, wnext, accepted, delivered,
                     failed, dropped, offered, early, refused, done, outcome, arrived>>
      BY DEF BeginSend, AtTarget
<1>2. TypeOK'
      BY <1>1 DEF DispatcherPart, TypeOK
<1>3. SendInv'
      BY <1>1 DEF DispatcherPart, SendInv, PastReached, AtTargets, Reached
<1> QED BY <1>1, <1>2, <1>3, ExitPartKept, PlacedKept DEF DispatcherPart

(* A Send that has ended, in either way: while the context is not done it  *)
(* has got through, or failed on its own account.                          *)
LEMMA SendEndsPart ==
  ASSUME DispatcherPart, NEW w \in Workers, NEW r \in {"ok", "failed"},
         wjob[w] # None, wnext[w] <= Len(TargetsOf[wjob[w]]),
         Outcome(w, r), wnext' = NextTarget(w), sending' = sending \ {w},
         NEW j, NEW c, j = wjob[w], c = Target(w),
         arrived' \in {arrived, arrived \cup {<<j, c>>}},
         r = "ok" => <<j, c>> \in arrived',
         r = "failed" => Target(w) \in MayFail \/ cancelled,
         delivered' \in Nat, failed' \in Nat,
         UNCHANGED <<queue, cancelled, closing, counting, wpc, wjob, accepted, dropped,
                     offered, early, refused, done>>
  PROVE  DispatcherPart' /\ Placed' = Placed
<1>1. TypeOK /\ SendInv /\ wjob[w] \in Jobs /\ Target(w) \in Connectors
      BY AtTargetFacts DEF DispatcherPart
<1>2. outcome' \in [Jobs -> [Connectors -> {"none", "ok", "failed"}]]
      BY <1>1, OutcomeSet
<1>3. outcome'[j][c] = r
  <2>1. outcome \in [Jobs -> [Connectors -> {"none", "ok", "failed"}]]
        /\ outcome' = [outcome EXCEPT ![j][c] = r] /\ j \in Jobs /\ c \in Connectors
        BY <1>1 DEF TypeOK, Outcome
  <2> QED BY <2>1
<1>4. arrived \subseteq arrived' /\ arrived' \subseteq Jobs \X Connectors
  <2>1. arrived \subseteq Jobs \X Connectors /\ j \in Jobs /\ c \in Connectors
        BY <1>1 DEF TypeOK
  <2> QED BY <2>1
<1>5. \A i \in Jobs, d \in Connectors : Reached(i, d) => Reached(i, d)'
      BY <1>1, <1>4, ReachedStays
<1>6. ~cancelled /\ c \in Registered => Reached(j, c)'
      BY <1>3 DEF Reached
<1>7. wnext' \in [Workers -> Nat \ {0}] /\ SendInv'
      BY <1>1, <1>5, <1>6, AdvanceSends
<1>8. TypeOK'
      BY <1>1, <1>2, <1>4, <1>7 DEF TypeOK
<1> QED BY <1>7, <1>8, ExitPartKept, PlacedKept DEF DispatcherPart

LEMMA CountedPart ==
  ASSUME DispatcherPart, NEW w \in Workers, NEW ok \in BOOLEAN, SendCounted(w, ok)
  PROVE  delivered' \in Nat /\ failed' \in Nat
<1>1. delivered \in Nat /\ failed \in Nat
      BY DEF DispatcherPart, TypeOK
<1> QED BY <1>1 DEF SendCounted

LEMMA SendCancelledPart ==
  ASSUME DispatcherPart, NEW w \in Workers, SendCancelled(w)
  PROVE  DispatcherPart' /\ Placed' = Placed
<1>1. /\ wjob[w] # None /\ wnext[w] <= Len(TargetsOf[wjob[w]]) /\ w \notin sending
      /\ Outcome(w, "failed") /\ SendCounted(w, FALSE) /\ wnext' = NextTarget(w) /\ cancelled
      BY DEF SendCancelled, AtTarget, AfterFailure
<1>2. UNCHANGED <<queue, cancelled, closing, counting, wpc, wjob, sending, accepted,
                  dropped, offered, early, refused, done, arrived>>
      BY DEF SendCancelled
<1>3. delivered' \in Nat /\ failed' \in Nat
      BY <1>1, CountedPart
<1>4. sending' = sending \ {w} /\ arrived' \in {arrived, arrived \cup {<<wjob[w], Target(w)>>}}
      BY <1>1, <1>2
<1> QED BY <1>1, <1>2, <1>3, <1>4, SendEndsPart

LEMMA EndSendPart ==
  ASSUME DispatcherPart, NEW w \in Workers, EndSend(w)
  PROVE  DispatcherPart' /\ Placed' = Placed
<1>1. /\ wjob[w] # None /\ wnext[w] <= Len(TargetsOf[wjob[w]])
      /\ sending' = sending \ {w} /\ wnext' = NextTarget(w)
      BY DEF EndSend, DispatcherPart, SendInv, AfterFailure
<1>2. UNCHANGED <<queue, cancelled, closing, counting, wpc, wjob, accepted, dropped,
                  offered, early, refused, done>>
      BY DEF EndSend
<1>3. PICK r \in {"ok", "failed"}, ok \in BOOLEAN :
        /\ Outcome(w, r) /\ SendCounted(w, ok)
        /\ arrived' \in {arrived, arrived \cup {<<wjob[w], Target(w)>>}}
        /\ r = "ok" => <<wjob[w], Target(w)>> \in arrived'
        /\ r = "failed" => Target(w) \in MayFail \/ cancelled
      BY DEF EndSend
<1>4. delivered' \in Nat /\ failed' \in Nat
      BY <1>3, CountedPart
<1> QED BY <1>1, <1>2, <1>3, <1>4, SendEndsPart

LEMMA ProcessReturnsPart ==
  ASSUME DispatcherPart, NEW w \in Workers, ProcessReturns(w)
  PROVE  DispatcherPart' /\ StayPlaced
<1> DEFINE j == wjob[w]
<1>1. /\ j \in Jobs /\ j # None /\ wjob \in [Workers -> Jobs \cup {None}] /\ w \notin sending
      /\ wjob' = [wjob EXCEPT ![w] = None] /\ done' = done \cup {j}
      BY DEF DispatcherPart, ProcessReturns, TypeOK
<1>2. UNCHANGED <<queue, cancelled, closing, counting, wpc, wnext, sending, accepted, delivered,
                  failed, dropped, offered, early, refused, outcome, arrived>>
      BY DEF ProcessReturns
<1>3. wjob'[w] = None /\ \A v \in Workers \ {w} : wjob'[v] = wjob[v]
      BY <1>1
<1>4. TypeOK'
  <2>1. wjob' \in [Workers -> Jobs \cup {None}] /\ done' \subseteq Jobs
        BY <1>1 DEF DispatcherPart, TypeOK
  <2> QED BY <1>2, <2>1 DEF DispatcherPart, TypeOK
<1>5. \A i \in Jobs : i \in done \cup {wjob[v] : v \in Workers}
                        => i \in done' \cup {wjob'[v] : v \in Workers}
      BY <1>1, <1>3
<1>6. StayPlaced
      BY <1>2, <1>5 DEF StayPlaced, Placed, InMemory
<1>7. early' \subseteq Placed'
      BY <1>2, <1>6 DEF DispatcherPart, TypeOK, StayPlaced
<1>8. ExitInv'
  <2>1. ASSUME NEW v \in Workers, wpc[v] = "exited"
        PROVE  wjob'[v] = None /\ early \subseteq done' \cup {wjob'[u] : u \in Workers}
    <3>1. wjob[v] = None /\ early \subseteq done \cup {wjob[u] : u \in Workers} /\ v # w
          BY <1>1, <2>1 DEF DispatcherPart, ExitInv
    <3>2. early \subseteq Jobs
          BY DEF DispatcherPart, TypeOK
    <3> QED BY <1>3, <1>5, <3>1, <3>2
  <2> QED BY <1>2, <2>1 DEF DispatcherPart, ExitInv
<1>9. SendInv'
  <2>1. \A v \in sending' : wjob'[v] # None /\ wnext'[v] <= Len(TargetsOf[wjob'[v]])
        BY <1>1, <1>2, <1>3 DEF DispatcherPart, SendInv, TypeOK
  <2>2. ASSUME ~cancelled PROVE AtTargets(j)
    <3> SUFFICES ASSUME NEW c \in Range(TargetsOf[j]) \cap Registered PROVE Reached(j, c)
        BY DEF AtTargets
    <3>1. TargetsOf[j] \in Seq(Connectors)
          BY <1>1, DispatcherAssumption
    <3>2. PICK i \in DOMAIN TargetsOf[j] : c = TargetsOf[j][i]
          BY DEF Range
    <3>3. i \in 1 .. wnext[w] - 1 /\ i <= Len(TargetsOf[j])
      <4>1. wnext[w] \in Nat \ {0} /\ wnext[w] > Len(TargetsOf[j])
            BY DEF DispatcherPart, ProcessReturns, TypeOK
      <4>2. i \in Nat \ {0} /\ i <= Len(TargetsOf[j]) /\ Len(TargetsOf[j]) \in Nat
            BY <3>1, <3>2
      <4> QED BY ONLY <4>1, <4>2
    <3> QED BY <1>1, <2>2, <3>2, <3>3 DEF DispatcherPart, SendInv, PastReached
  <2>3. ASSUME NEW v \in Workers, PastReached(v) PROVE PastReached(v)'
        BY <1>2, <1>3, <2>3 DEF PastReached, Reached
  <2>4. \A i \in Jobs : AtTargets(i)' <=> AtTargets(i)
        BY <1>2 DEF AtTargets, Reached
  <2> QED BY <1>1, <1>2, <2>1, <2>2, <2>3, <2>4 DEF DispatcherPart, TypeOK, SendInv
<1> QED BY <1>4, <1>6, <1>7, <1>8, <1>9 DEF DispatcherPart

(* Any step of a worker.                                                   *)
LEMMA WorkerStepPart ==
  ASSUME DispatcherPart, NEW w \in Workers, WorkerStep(w)
  PROVE  DispatcherPart' /\ StayPlaced
BY TakeJobPart, SeeCancelPart, WorkerExitPart, SkipTargetPart, BeginSendPart, SendCancelledPart,
   EndSendPart, ProcessReturnsPart DEF WorkerStep, StayPlaced

-----------------------------------------------------------------------------
(* Close.                                                                  *)
LEMMA CloseBeginPart ==
  ASSUME DispatcherPart, CloseBegin
  PROVE  DispatcherPart' /\ Placed' = Placed
<1>1. /\ cancelled' = TRUE /\ closing' = "waiting"
      /\ UNCHANGED <<queue, counting, wpc, wjob, wnext, sending, accepted, delivered, failed,
                     dropped, offered, early, refused, done, outcome, arrived>>
      BY DEF CloseBegin, CancelFirst, workerVars
<1>2. TypeOK' /\ SendInv' /\ ExitInv'
      BY <1>1 DEF DispatcherPart, TypeOK, SendInv, ExitInv
<1> QED BY <1>1, <1>2, PlacedKept DEF DispatcherPart

LEMMA CloseEndPart ==
  ASSUME DispatcherPart, CloseEnd
  PROVE  DispatcherPart' /\ Placed' = Placed
<1>1. UNCHANGED <<queue, cancelled, counting, wpc, wjob, wnext, sending, accepted, delivered,
                  failed, dropped, offered, early, refused, done, outcome, arrived>>
      BY DEF CloseEnd, workerVars
<1>2. closing' \in {"closed", "timed out"}
      /\ (closing' = "closed" => \A w \in Workers : wpc[w] = "exited")
      BY DEF CloseEnd
<1>3. TypeOK' /\ ExitInv'
      BY <1>1, <1>2 DEF DispatcherPart, TypeOK, ExitInv
<1> QED BY <1>1, <1>3, SendPartKept, PlacedKept DEF DispatcherPart

LEMMA DispatcherStutters ==
  ASSUME DispatcherPart, UNCHANGED vars
  PROVE  DispatcherPart' /\ Placed' = Placed
<1>1. TypeOK'
      BY DEF DispatcherPart, TypeOK, vars
<1> QED BY <1>1, SendPartKept, ExitPartKept, PlacedKept DEF DispatcherPart, vars

-----------------------------------------------------------------------------
(* The agent.  What its own parts depend on.                               *)
LEMMA JobFacts ==
  /\ \A j \in Jobs : j[1] \in Sources /\ j[2] \in Range(Groups) /\ j = <<j[1], j[2]>>
  /\ \A b \in Sources, i \in 1 .. Len(Groups) : <<b, Groups[i]>> \in Jobs
  /\ Len(Groups) \in Nat /\ DOMAIN Groups = 1 .. Len(Groups) /\ None \notin Sources
<1>1. Jobs = Sources \X Range(Groups) /\ Groups \in Seq(Range(Groups)) /\ None \notin Sources
      BY PipelineAssumption
<1>2. Len(Groups) \in Nat /\ DOMAIN Groups = 1 .. Len(Groups)
      BY <1>1
<1>3. \A i \in 1 .. Len(Groups) : Groups[i] \in Range(Groups)
      BY <1>2 DEF Range
<1> QED BY <1>1, <1>2, <1>3

LEMMA BatchKept ==
  BatchInv /\ UNCHANGED <<ingestCh, produced, base, group, wal, received>> => BatchInv'
BY DEF BatchInv, Waiting

LEMMA StopKept ==
  StopInv /\ UNCHANGED <<phase, loopUp, base, ingestCh, flushed, wal, drained, picked>> => StopInv'
<1> SUFFICES ASSUME StopInv,
                    UNCHANGED <<phase, loopUp, base, ingestCh, flushed, wal, drained, picked>>
             PROVE  StopInv'
    OBVIOUS
<1>1. \A d \in DrainProcs : PickedOldest(d)'
      BY DEF PickedOldest, StopInv
<1>2. flushed' = "all" => Range(wal') \subseteq drained'
      BY DEF StopInv
<1>3. /\ phase' \notin {"run", "ch closed"} => ~loopUp'
      /\ ~loopUp' => base' = None /\ phase' # "run"
      /\ flushed' # "no" => ~loopUp'
      BY DEF StopInv
<1>4. ~loopUp' => ingestCh' = <<>>
      BY DEF StopInv
<1> QED BY <1>1, <1>2, <1>3, <1>4 DEF StopInv

(* While ingestLoop is up, only the log and the drainers matter to StopInv.*)
LEMMA StopUp ==
  ASSUME StopInv, loopUp, UNCHANGED <<phase, loopUp, flushed, wal, drained, picked>>
  PROVE  StopInv'
<1>1. \A d \in DrainProcs : PickedOldest(d)'
      BY DEF PickedOldest, StopInv
<1>2. /\ loopUp' /\ flushed' = "no"
      /\ phase' \in {"run", "ch closed"}
      BY DEF StopInv
<1> QED BY <1>1, <1>2 DEF StopInv

LEMMA ChannelLength ==
  PipelineTypeOK => Len(ingestCh) \in Nat /\ Len(ingestCh) <= IngestCap /\ IngestCap \in Nat
<1> SUFFICES ASSUME PipelineTypeOK
             PROVE  Len(ingestCh) \in Nat /\ Len(ingestCh) <= IngestCap /\ IngestCap \in Nat
    OBVIOUS
<1>1. ingestCh \in Seq(Sources) /\ Len(ingestCh) <= IngestCap
      BY DEF PipelineTypeOK
<1>2. Len(ingestCh) \in Nat
      BY <1>1
<1>3. IngestCap \in Nat
      BY PipelineAssumption
<1> QED BY <1>1, <1>2, <1>3

LEMMA PipelineTypeKept ==
  PipelineTypeOK /\ UNCHANGED pipeVars => PipelineTypeOK'
BY DEF PipelineTypeOK, pipeVars, DrainProcs

LEMMA PlaceKept ==
  TypeOK /\ PipelineTypeOK /\ PlaceInv /\ StayPlaced /\ early' \subseteq Placed'
    /\ UNCHANGED <<received, wal, drained, unlogged>> => PlaceInv'
BY DEF PlaceInv, TypeOK, PipelineTypeOK, StayPlaced

LEMMA PartOfInv == PipelineInv => DispatcherPart
BY DEF PipelineInv, PlaceInv, DispatcherPart

(* A step in which the dispatcher is left alone or keeps its part.         *)
LEMMA QuietStep ==
  ASSUME PipelineInv, DispatcherPart', StayPlaced, PipelineTypeOK', BatchInv', StopInv',
         UNCHANGED <<received, wal, drained, unlogged>>
  PROVE  PipelineInv'
BY PlaceKept DEF PipelineInv, DispatcherPart

LEMMA AgentStep ==
  ASSUME PipelineInv, UNCHANGED vars, PipelineTypeOK', BatchInv', StopInv',
         UNCHANGED <<received, wal, drained, unlogged>>
  PROVE  PipelineInv'
<1>1. DispatcherPart' /\ Placed' = Placed
      BY PartOfInv, DispatcherStutters
<1> QED BY <1>1, QuietStep DEF StayPlaced

LEMMA PipelineInitInv == PipelineInit => PipelineInv
<1> SUFFICES ASSUME PipelineInit PROVE PipelineInv
    OBVIOUS
<1>1. CoreInv
      BY InitInv DEF PipelineInit
<1>2. /\ queue = <<>> /\ early = {} /\ done = {} /\ closing = "open" /\ cancelled = FALSE
      /\ sending = {} /\ wpc = [w \in Workers |-> "select"] /\ wnext = [w \in Workers |-> 1]
      BY DEF PipelineInit, Init
<1>3. /\ wal = <<>> /\ drained = {} /\ phase = "run" /\ ingestCh = <<>> /\ produced = {}
      /\ base = None /\ group = 1 /\ loopUp = TRUE /\ loopCtx = FALSE /\ flushed = "no"
      /\ picked = [d \in DrainProcs |-> 0] /\ received = {} /\ unlogged = {}
      BY DEF PipelineInit, Log!Init
<1>4. DOMAIN ingestCh = {} /\ Range(ingestCh) = {} /\ DOMAIN wal = {} /\ Range(wal) = {}
      BY <1>3 DEF Range
<1>5. PipelineTypeOK
  <2>1. ingestCh \in Seq(Sources) /\ Len(ingestCh) = 0 /\ wal \in Seq(Jobs)
        BY <1>3
  <2>2. IngestCap \in Nat /\ Len(ingestCh) <= IngestCap
        BY <2>1, PipelineAssumption
  <2>3. group \in 1 .. Len(Groups) + 1
        BY <1>3, JobFacts
  <2>4. picked \in [DrainProcs -> {0} \cup DOMAIN wal]
        BY <1>3
  <2> QED BY <1>3, <2>1, <2>2, <2>3, <2>4 DEF PipelineTypeOK
<1>6. BatchInv
      BY <1>3, <1>4 DEF BatchInv
<1>7. PlaceInv
      BY <1>2, <1>3 DEF PlaceInv
<1>8. SendInv /\ ExitInv
      BY <1>2 DEF SendInv, ExitInv, PastReached
<1>9. StopInv
  <2>1. \A d \in DrainProcs : 1 .. picked[d] - 1 = {}
        BY <1>3
  <2> QED BY <1>3, <2>1 DEF StopInv, PickedOldest
<1> QED BY <1>1, <1>5, <1>6, <1>7, <1>8, <1>9 DEF CoreInv, PipelineInv

-----------------------------------------------------------------------------
(* Collectors and ingestLoop.                                              *)
LEMMA CollectInv ==
  ASSUME PipelineInv, NEW b \in Sources, Collect(b)
  PROVE  PipelineInv'
<1>1. /\ PipelineTypeOK /\ BatchInv /\ StopInv
      /\ phase = "run" /\ b \notin produced /\ Len(ingestCh) < IngestCap
      /\ ingestCh' = Append(ingestCh, b) /\ produced' = produced \cup {b}
      /\ UNCHANGED <<vars, phase, base, group, loopUp, wal, drained, picked, loopCtx, flushed,
                     received, unlogged>>
      BY DEF PipelineInv, Collect, RoomInChannel
<1>2. b \notin Range(ingestCh) /\ base # b
  <2>1. b # None
        BY JobFacts
  <2> QED BY <1>1, <2>1 DEF BatchInv
<1>3. /\ ingestCh' \in Seq(Sources) /\ Len(ingestCh') = Len(ingestCh) + 1
      /\ Range(ingestCh') = Range(ingestCh) \cup {b}
      /\ \A i, k \in DOMAIN ingestCh' : ingestCh'[i] = ingestCh'[k] => i = k
      BY <1>1, <1>2, AppendElements DEF PipelineTypeOK, BatchInv
<1>4. PipelineTypeOK'
  <2>1. Len(ingestCh') <= IngestCap
    <3>1. Len(ingestCh) \in Nat /\ IngestCap \in Nat
          BY <1>1, ChannelLength
    <3> QED BY ONLY <1>1, <1>3, <3>1
  <2> QED BY <1>1, <1>3, <2>1 DEF PipelineTypeOK, DrainProcs
<1>5. BatchInv'
  <2>1. \A j \in Jobs : Waiting(j)' <=> Waiting(j) \/ j[1] = b
        BY <1>1, <1>3 DEF Waiting
  <2>2. \A j \in Jobs : j \in received' <=> j[1] \in produced' /\ ~Waiting(j)'
        BY <1>1, <2>1 DEF BatchInv
  <2> QED BY <1>1, <1>2, <1>3, <2>2 DEF BatchInv
<1>6. StopInv'
  <2>1. loopUp
        BY <1>1 DEF StopInv
  <2> QED BY <1>1, <2>1, StopUp
<1> QED BY <1>1, <1>4, <1>5, <1>6, AgentStep

LEMMA ReceiveInv ==
  ASSUME PipelineInv, Receive
  PROVE  PipelineInv'
<1>1. /\ PipelineTypeOK /\ BatchInv /\ StopInv /\ loopUp /\ base = None /\ ingestCh # <<>>
      /\ base' = Head(ingestCh) /\ group' = 1 /\ ingestCh' = Tail(ingestCh)
      /\ UNCHANGED <<vars, phase, produced, loopUp, wal, drained, picked, loopCtx, flushed,
                     received, unlogged>>
      BY DEF PipelineInv, Receive
<1>2. /\ ingestCh' \in Seq(Sources) /\ Len(ingestCh') = Len(ingestCh) - 1 /\ base' \in Sources
      /\ Range(ingestCh) = Range(ingestCh') \cup {base'} /\ base' \notin Range(ingestCh')
      /\ \A i, k \in DOMAIN ingestCh' : ingestCh'[i] = ingestCh'[k] => i = k
      BY <1>1, TailElements DEF PipelineTypeOK, BatchInv
<1>3. PipelineTypeOK'
  <2>1. Len(ingestCh') <= IngestCap
    <3>1. Len(ingestCh) \in Nat /\ IngestCap \in Nat /\ Len(ingestCh) <= IngestCap
          BY <1>1, ChannelLength
    <3> QED BY ONLY <1>2, <3>1
  <2>2. group' \in 1 .. Len(Groups) + 1
        BY <1>1, JobFacts
  <2> QED BY <1>1, <1>2, <2>1, <2>2 DEF PipelineTypeOK, DrainProcs
<1>4. BatchInv'
  <2>1. ASSUME NEW j \in Jobs PROVE Waiting(j)' <=> Waiting(j)
    <3>1. Waiting(j) <=> j[1] \in Range(ingestCh)
          BY <1>1 DEF Waiting
    <3>2. base' # None
          BY <1>2, JobFacts
    <3>3. Waiting(j)' <=> j[1] \in Range(ingestCh') \/ \E i \in 1 .. Len(Groups) : j = <<base', Groups[i]>>
          BY <1>1, <3>2 DEF Waiting
    <3>4. (\E i \in 1 .. Len(Groups) : j = <<base', Groups[i]>>) <=> j[1] = base'
      <4>1. PICK i \in DOMAIN Groups : j[2] = Groups[i]
            BY JobFacts DEF Range
      <4> QED BY <4>1, JobFacts
    <3> QED BY <1>2, <3>1, <3>3, <3>4
  <2>2. \A j \in Jobs : j \in received' <=> j[1] \in produced' /\ ~Waiting(j)'
        BY <1>1, <2>1 DEF BatchInv
  <2>3. base' \in produced
        BY <1>1, <1>2 DEF BatchInv
  <2> QED BY <1>1, <1>2, <2>2, <2>3 DEF BatchInv
<1>5. StopInv'
      BY <1>1, StopUp
<1> QED BY <1>1, <1>3, <1>4, <1>5, AgentStep

(* A group is served: its job is dealt with, for the first time.           *)
LEMMA ServedOnce ==
  ASSUME PipelineTypeOK, BatchInv, InGroup
  PROVE  Job \in Jobs /\ Job \notin received /\ group \in 1 .. Len(Groups) /\ base \in Sources
<1>1. group \in 1 .. Len(Groups) /\ base \in Sources /\ base # None
  <2>1. base # None /\ group <= Len(Groups)
        BY DEF InGroup
  <2>2. group \in 1 .. Len(Groups) + 1 /\ base \in Sources \cup {None}
        BY DEF PipelineTypeOK
  <2>3. Len(Groups) \in Nat
        BY JobFacts
  <2>4. group \in 1 .. Len(Groups)
        BY <2>1, <2>2, <2>3
  <2> QED BY <2>1, <2>2, <2>4
<1>2. Job \in Jobs
      BY <1>1, JobFacts DEF Job
<1>3. Waiting(Job)
      BY <1>1, JobFacts DEF Waiting, Job
<1> QED BY <1>1, <1>2, <1>3 DEF BatchInv

LEMMA GroupServedBatch ==
  ASSUME PipelineTypeOK, BatchInv, InGroup, GroupServed, Range(wal') \subseteq Range(wal) \cup {Job}
  PROVE  BatchInv'
<1>1. /\ received' = received \cup {Job} /\ group' = group + 1
      /\ UNCHANGED <<ingestCh, produced, base>>
      BY DEF GroupServed
<1>2. /\ Job \in Jobs /\ group \in 1 .. Len(Groups) /\ base \in Sources /\ base # None
      BY ServedOnce DEF InGroup
<1>3. ASSUME NEW j \in Jobs PROVE Waiting(j)' <=> Waiting(j) /\ j # Job
  <2>1. Waiting(j)' <=> j[1] \in Range(ingestCh)
                         \/ \E i \in group + 1 .. Len(Groups) : j = <<base, Groups[i]>>
        BY <1>1, <1>2 DEF Waiting
  <2>2. Job[1] = base /\ base \notin Range(ingestCh)
        BY DEF Job, BatchInv
  <2>3. \A i \in group + 1 .. Len(Groups) : i \in DOMAIN Groups /\ group \in DOMAIN Groups /\ i # group
        BY <1>2, JobFacts
  <2>4. \A i \in group + 1 .. Len(Groups) : Groups[i] # Groups[group]
        BY <2>3, PipelineAssumption
  <2>5. \A i \in group + 1 .. Len(Groups) : <<base, Groups[i]>> # Job
        BY <2>4 DEF Job
  <2>6. \A i \in group .. Len(Groups) : i = group \/ i \in group + 1 .. Len(Groups)
        BY <1>2, JobFacts
  <2>7. \A i \in group + 1 .. Len(Groups) : i \in group .. Len(Groups)
        BY <1>2, JobFacts
  <2>8. Waiting(j) <=> j[1] \in Range(ingestCh) \/ \E i \in group .. Len(Groups) : j = <<base, Groups[i]>>
        BY <1>2 DEF Waiting
  <2> QED BY <2>1, <2>2, <2>5, <2>6, <2>7, <2>8 DEF Job
<1>4. \A j \in Jobs : j \in received' <=> j[1] \in produced' /\ ~Waiting(j)'
  <2>1. Job[1] \in produced
        BY <1>2 DEF Job, BatchInv
  <2> QED BY <1>1, <1>3, <2>1 DEF BatchInv
<1> QED BY <1>1, <1>4 DEF BatchInv

LEMMA GroupServedType ==
  ASSUME PipelineTypeOK, BatchInv, InGroup, GroupServed,
         wal' \in Seq(Jobs), DOMAIN wal \subseteq DOMAIN wal', drained' = drained,
         unlogged' \subseteq unlogged \cup {Job}
  PROVE  PipelineTypeOK'
<1>1. /\ received' = received \cup {Job} /\ group' = group + 1
      /\ UNCHANGED <<phase, ingestCh, produced, base, loopUp, picked, loopCtx, flushed>>
      BY DEF GroupServed
<1>2. Job \in Jobs /\ group \in 1 .. Len(Groups) /\ Len(Groups) \in Nat
      BY ServedOnce, JobFacts
<1>3. group' \in 1 .. Len(Groups) + 1
      BY <1>1, <1>2
<1>4. received' \subseteq Jobs /\ unlogged' \subseteq Jobs
      BY <1>1, <1>2 DEF PipelineTypeOK
<1>5. picked' \in [DrainProcs -> {0} \cup DOMAIN wal']
  <2>1. picked \in [DrainProcs -> {0} \cup DOMAIN wal]
        BY DEF PipelineTypeOK
  <2>2. picked' = picked
        BY <1>1
  <2> QED BY <2>1, <2>2
<1> QED BY <1>1, <1>3, <1>4, <1>5 DEF PipelineTypeOK

LEMMA IngestIsProducer == "ingest" \in Producers /\ DrainProcs \subseteq Producers
BY PipelineAssumption DEF DrainProcs

LEMMA DispatchInv ==
  ASSUME PipelineInv, Dispatch
  PROVE  PipelineInv'
<1>1. /\ PipelineTypeOK /\ BatchInv /\ StopInv /\ PlaceInv /\ InGroup /\ GroupServed
      /\ EnqueueSend("ingest", Job) /\ UNCHANGED <<wal, drained, unlogged>>
      BY DEF PipelineInv, Dispatch
<1>2. Job \in Jobs
      BY <1>1, ServedOnce
<1>3. DispatcherPart' /\ Placed' = Placed \cup {Job}
      BY <1>1, <1>2, PartOfInv, IngestIsProducer, EnqueueSendPart
<1>4. BatchInv'
      BY <1>1, GroupServedBatch
<1>5. PipelineTypeOK'
      BY <1>1, GroupServedType DEF PipelineTypeOK
<1>6. StopInv'
  <2>1. loopUp
        BY <1>1 DEF StopInv, InGroup
  <2>2. UNCHANGED <<phase, loopUp, flushed, picked>>
        BY <1>1 DEF GroupServed
  <2> QED BY <1>1, <2>1, <2>2, StopUp
<1>7. PlaceInv'
  <2>1. received' = received \cup {Job}
        BY <1>1 DEF GroupServed
  <2> QED BY <1>1, <1>3, <2>1 DEF PlaceInv, DispatcherPart
<1> QED BY <1>3, <1>4, <1>5, <1>6, <1>7 DEF PipelineInv, DispatcherPart

LEMMA DivertInv ==
  ASSUME PipelineInv, Divert
  PROVE  PipelineInv'
<1>1. /\ PipelineTypeOK /\ BatchInv /\ StopInv /\ PlaceInv /\ InGroup /\ GroupServed
      /\ EnqueueRefuse("ingest", Job) /\ Buffered
      BY DEF PipelineInv, Divert
<1>2. Job \in Jobs /\ wal \in Seq(Jobs) /\ received' = received \cup {Job}
      BY <1>1, ServedOnce DEF PipelineTypeOK, GroupServed
<1>3. DispatcherPart' /\ Placed' = Placed
      BY <1>1, <1>2, PartOfInv, IngestIsProducer, EnqueueRefusePart
<1>4. loopUp /\ UNCHANGED <<phase, loopUp, flushed, picked>>
      BY <1>1 DEF StopInv, InGroup, GroupServed
<1>5. CASE Log!Store(Job) /\ UNCHANGED unlogged
  <2>1. Job \notin Range(wal) /\ wal' = Append(wal, Job) /\ drained' = drained
        BY <1>5 DEF Log!Store, Log!Stored, Range
  <2>2. wal' \in Seq(Jobs) /\ Len(wal') = Len(wal) + 1 /\ Range(wal') = Range(wal) \cup {Job}
        BY <1>2, <2>1, AppendQueue
  <2>3. DOMAIN wal \subseteq DOMAIN wal' /\ \A i \in DOMAIN wal : wal'[i] = wal[i]
        BY <1>2, <2>1
  <2>4. BatchInv' /\ PipelineTypeOK'
        BY <1>1, <1>5, <2>1, <2>2, <2>3, GroupServedBatch, GroupServedType
  <2>5. PlaceInv'
    <3>1. Job \notin drained
          BY <1>1, <2>1 DEF PlaceInv
    <3>2. received' \subseteq Placed' \cup (Range(wal') \ drained') \cup unlogged'
          BY <1>1, <1>2, <1>3, <1>5, <2>1, <2>2, <3>1 DEF PlaceInv
    <3>3. drained' \subseteq Placed' \cap Range(wal')
          BY <1>1, <1>3, <2>1, <2>2 DEF PlaceInv
    <3> QED BY <1>3, <3>2, <3>3 DEF PlaceInv, DispatcherPart
  <2>6. StopInv'
    <3>1. ASSUME NEW d \in DrainProcs PROVE PickedOldest(d)'
      <4>1. picked[d] = 0 \/ picked[d] \in DOMAIN wal
            BY <1>1 DEF PipelineTypeOK
      <4>2. \A i \in 1 .. picked[d] - 1 : i \in DOMAIN wal
            BY <1>2, <4>1
      <4> QED BY <1>1, <1>4, <2>1, <2>3, <4>2 DEF StopInv, PickedOldest
    <3>2. loopUp' /\ flushed' = "no" /\ phase' \in {"run", "ch closed"}
          BY <1>1, <1>4 DEF StopInv, PipelineTypeOK
    <3> QED BY <3>1, <3>2 DEF StopInv
  <2> QED BY <1>3, <2>4, <2>5, <2>6 DEF PipelineInv, DispatcherPart
<1>6. CASE unlogged' = unlogged \cup {Job} /\ UNCHANGED <<wal, drained>>
  <2>1. BatchInv' /\ PipelineTypeOK'
        BY <1>1, <1>2, <1>6, GroupServedBatch, GroupServedType
  <2>2. PlaceInv'
        BY <1>1, <1>2, <1>3, <1>6 DEF PlaceInv, DispatcherPart
  <2>3. StopInv'
        BY <1>1, <1>4, <1>6, StopUp
  <2> QED BY <1>3, <2>1, <2>2, <2>3 DEF PipelineInv, DispatcherPart
<1> QED BY <1>1, <1>5, <1>6 DEF Buffered

LEMMA NextBatchInv ==
  ASSUME PipelineInv, NextBatch
  PROVE  PipelineInv'
<1>1. /\ PipelineTypeOK /\ BatchInv /\ StopInv /\ base # None /\ group > Len(Groups) /\ base' = None
      /\ UNCHANGED <<vars, phase, ingestCh, produced, group, loopUp, wal, drained, picked, loopCtx,
                     flushed, received, unlogged>>
      BY DEF PipelineInv, NextBatch
<1>2. PipelineTypeOK'
      BY <1>1 DEF PipelineTypeOK, DrainProcs
<1>3. BatchInv'
  <2>1. group .. Len(Groups) = {}
    <3>1. group \in 1 .. Len(Groups) + 1 /\ Len(Groups) \in Nat
          BY <1>1, JobFacts DEF PipelineTypeOK
    <3> QED BY <1>1, <3>1
  <2>2. \A j \in Jobs : Waiting(j)' <=> Waiting(j)
        BY <1>1, <2>1 DEF Waiting
  <2>3. None \notin Range(ingestCh)
        BY <1>1, JobFacts DEF BatchInv, PipelineTypeOK
  <2> QED BY <1>1, <2>2, <2>3 DEF BatchInv
<1>4. StopInv'
  <2>1. loopUp
        BY <1>1 DEF StopInv
  <2> QED BY <1>1, <2>1, StopUp
<1> QED BY <1>1, <1>2, <1>3, <1>4, AgentStep

LEMMA LoopReturnsInv ==
  ASSUME PipelineInv, LoopReturns
  PROVE  PipelineInv'
<1>1. /\ PipelineTypeOK /\ BatchInv /\ StopInv /\ loopUp /\ phase = "ch closed" /\ base = None
      /\ ingestCh = <<>> /\ loopUp' = FALSE
      /\ UNCHANGED <<vars, phase, ingestCh, produced, base, group, wal, drained, picked, loopCtx,
                     flushed, received, unlogged>>
      BY DEF PipelineInv, LoopReturns
<1>2. PipelineTypeOK'
      BY <1>1 DEF PipelineTypeOK, DrainProcs
<1>3. BatchInv'
      BY <1>1, BatchKept
<1>4. StopInv'
  <2>1. \A d \in DrainProcs : PickedOldest(d)'
        BY <1>1 DEF StopInv, PickedOldest
  <2>2. flushed' = "no" /\ base' = None /\ phase' = "ch closed" /\ ingestCh' = <<>>
        BY <1>1 DEF StopInv
  <2> QED BY <2>1, <2>2 DEF StopInv
<1> QED BY <1>1, <1>2, <1>3, <1>4, AgentStep

-----------------------------------------------------------------------------
(* The drain loop and Flush.                                               *)
LEMMA LiveOrDrained ==
  ASSUME NEW i \in DOMAIN wal, i \notin Live
  PROVE  wal[i] \in drained
BY DEF Live

LEMMA PickInv ==
  ASSUME PipelineInv, NEW d \in DrainProcs, Pick(d)
  PROVE  PipelineInv'
<1>1. PICK i \in Live : (\A j \in Live : i <= j) /\ picked' = [picked EXCEPT ![d] = i]
      BY DEF Pick
<1>2. /\ PipelineTypeOK /\ BatchInv /\ StopInv
      /\ UNCHANGED <<vars, phase, ingestCh, produced, base, group, loopUp, wal, drained, loopCtx,
                     flushed, received, unlogged>>
      BY DEF PipelineInv, Pick
<1>3. /\ i \in DOMAIN wal /\ wal \in Seq(Jobs) /\ picked \in [DrainProcs -> {0} \cup DOMAIN wal]
      BY <1>1, <1>2 DEF PipelineTypeOK, Live
<1>4. /\ picked' \in [DrainProcs -> {0} \cup DOMAIN wal] /\ picked'[d] = i
      /\ \A e \in DrainProcs \ {d} : picked'[e] = picked[e]
      BY <1>1, <1>3
<1>5. PipelineTypeOK'
      BY <1>2, <1>4 DEF PipelineTypeOK
<1>6. BatchInv'
      BY <1>2, BatchKept
<1>7. \A e \in DrainProcs : PickedOldest(e)'
  <2>1. ASSUME NEW k \in 1 .. i - 1 PROVE wal[k] \in drained
    <3>1. k \in DOMAIN wal /\ ~(i <= k)
          BY <1>3
    <3>2. k \notin Live
          BY <1>1, <3>1
    <3> QED BY <3>1, <3>2, LiveOrDrained
  <2>2. PickedOldest(d)'
        BY <1>2, <1>4, <2>1 DEF PickedOldest
  <2>3. ASSUME NEW e \in DrainProcs \ {d} PROVE PickedOldest(e)'
        BY <1>2, <1>4 DEF PickedOldest, StopInv
  <2> QED BY <2>2, <2>3
<1>8. StopInv'
  <2>1. /\ phase' \notin {"run", "ch closed"} => ~loopUp'
        /\ ~loopUp' => base' = None /\ phase' # "run"
        /\ flushed' # "no" => ~loopUp'
        BY <1>2 DEF StopInv
  <2>2. ~loopUp' => ingestCh' = <<>>
        BY <1>2 DEF StopInv
  <2>3. flushed' = "all" => Range(wal') \subseteq drained'
        BY <1>2 DEF StopInv
  <2> QED BY <1>7, <2>1, <2>2, <2>3 DEF StopInv
<1> QED BY <1>2, <1>5, <1>6, <1>8, AgentStep

(* The record a drainer has in hand is put back or consumed.               *)
LEMMA PutBackType ==
  ASSUME PipelineInv, NEW d \in DrainProcs, PutBack(d), UNCHANGED wal, drained \subseteq drained',
         drained' \subseteq Jobs
  PROVE  PipelineTypeOK' /\ BatchInv' /\ StopInv'
<1>1. /\ PipelineTypeOK /\ BatchInv /\ StopInv /\ picked' = [picked EXCEPT ![d] = 0]
      /\ UNCHANGED <<phase, ingestCh, produced, base, group, loopUp, loopCtx, flushed, received,
                     unlogged>>
      BY DEF PipelineInv, PutBack
<1>2. picked \in [DrainProcs -> {0} \cup DOMAIN wal]
      BY <1>1 DEF PipelineTypeOK
<1>3. /\ picked' \in [DrainProcs -> {0} \cup DOMAIN wal'] /\ picked'[d] = 0
      /\ \A e \in DrainProcs \ {d} : picked'[e] = picked[e]
      BY <1>1, <1>2
<1>4. PipelineTypeOK'
      BY <1>1, <1>3 DEF PipelineTypeOK
<1>5. BatchInv'
      BY <1>1, BatchKept
<1>6. \A e \in DrainProcs : PickedOldest(e)'
  <2>1. ASSUME NEW e \in DrainProcs PROVE \A i \in 1 .. picked'[e] - 1 : i \in 1 .. picked[e] - 1
    <3>1. CASE e = d
          BY <1>3, <3>1
    <3>2. CASE e # d
          BY <1>3, <3>2
    <3> QED BY <3>1, <3>2
  <2> QED BY <1>1, <2>1 DEF PickedOldest, StopInv
<1>7. StopInv'
  <2>1. /\ phase' \notin {"run", "ch closed"} => ~loopUp'
        /\ ~loopUp' => base' = None /\ phase' # "run"
        /\ flushed' # "no" => ~loopUp'
        BY <1>1 DEF StopInv
  <2>2. ~loopUp' => ingestCh' = <<>>
        BY <1>1 DEF StopInv
  <2>3. flushed' = "all" => Range(wal') \subseteq drained'
    <3>1. Range(wal') = Range(wal)
          OBVIOUS
    <3> QED BY <1>1, <3>1 DEF StopInv
  <2> QED BY <1>6, <2>1, <2>2, <2>3 DEF StopInv
<1> QED BY <1>4, <1>5, <1>7

LEMMA RedeliverInv ==
  ASSUME PipelineInv, NEW d \in DrainProcs, Redeliver(d)
  PROVE  PipelineInv'
<1> DEFINE j == wal[picked[d]]
<1>1. /\ picked[d] # 0 /\ EnqueueSend(d, j) /\ PutBack(d) /\ wal' = wal /\ drained' = drained \cup {j}
      BY DEF Redeliver, Consumed, Log!Deliver
<1>2. j \in Jobs /\ j \in Range(wal)
  <2>1. wal \in Seq(Jobs) /\ picked[d] \in DOMAIN wal
        BY <1>1 DEF PipelineInv, PipelineTypeOK
  <2> QED BY <2>1 DEF Range
<1> HIDE DEF j
<1>3. DispatcherPart' /\ Placed' = Placed \cup {j}
      BY <1>1, <1>2, PartOfInv, IngestIsProducer, EnqueueSendPart
<1>4. PipelineTypeOK' /\ BatchInv' /\ StopInv'
  <2>1. drained' \subseteq Jobs
        BY <1>1, <1>2 DEF PipelineInv, PipelineTypeOK
  <2> QED BY <1>1, <2>1, PutBackType
<1>5. PlaceInv'
  <2>1. UNCHANGED <<received, unlogged>> /\ Range(wal') = Range(wal)
        BY <1>1 DEF PutBack
  <2>2. PlaceInv
        BY DEF PipelineInv
  <2>3. received' \subseteq Placed' \cup (Range(wal') \ drained') \cup unlogged'
        BY <1>1, <1>3, <2>1, <2>2 DEF PlaceInv
  <2>4. drained' \subseteq Placed' \cap Range(wal')
        BY <1>1, <1>2, <1>3, <2>1, <2>2 DEF PlaceInv
  <2> QED BY <1>3, <2>3, <2>4 DEF PlaceInv, DispatcherPart
<1> QED BY <1>3, <1>4, <1>5 DEF PipelineInv, DispatcherPart

LEMMA RedeliverFailsInv ==
  ASSUME PipelineInv, NEW d \in DrainProcs, RedeliverFails(d)
  PROVE  PipelineInv'
<1> DEFINE j == wal[picked[d]]
<1>1. /\ picked[d] # 0 /\ EnqueueRefuse(d, j) /\ PutBack(d) /\ UNCHANGED <<wal, drained>>
      BY DEF RedeliverFails, KeptLive
<1>2. j \in Jobs
  <2>1. wal \in Seq(Jobs) /\ picked[d] \in DOMAIN wal
        BY <1>1 DEF PipelineInv, PipelineTypeOK
  <2> QED BY <2>1
<1> HIDE DEF j
<1>3. DispatcherPart' /\ Placed' = Placed
      BY <1>1, <1>2, PartOfInv, IngestIsProducer, EnqueueRefusePart
<1>4. PipelineTypeOK' /\ BatchInv' /\ StopInv'
      BY <1>1, PutBackType DEF PipelineInv, PipelineTypeOK
<1> QED BY <1>1, <1>3, <1>4, QuietStep DEF StayPlaced, PutBack

-----------------------------------------------------------------------------
(* stop().  Each step moves phase on, once ingestLoop is gone, or flushed. *)
LEMMA StopMoves ==
  ASSUME StopInv, UNCHANGED <<loopUp, base, ingestCh, wal, drained, picked>>, phase' # "run",
         phase' \notin {"run", "ch closed"} => ~loopUp,
         flushed' = flushed \/ ~loopUp,
         flushed' = "all" => flushed = "all" \/ Live = {}
  PROVE  StopInv'
<1>1. \A d \in DrainProcs : PickedOldest(d)'
      BY DEF PickedOldest, StopInv
<1>2. /\ phase' \notin {"run", "ch closed"} => ~loopUp'
      /\ ~loopUp' => base' = None /\ phase' # "run"
      /\ flushed' # "no" => ~loopUp'
      BY DEF StopInv
<1>3. ~loopUp' => ingestCh' = <<>>
      BY DEF StopInv
<1>4. flushed' = "all" => Range(wal') \subseteq drained'
  <2>1. Live = {} => Range(wal) \subseteq drained
        BY DEF Live, Range
  <2> QED BY <2>1 DEF StopInv
<1> QED BY <1>1, <1>2, <1>3, <1>4 DEF StopInv

LEMMA StopBeginInv ==
  ASSUME PipelineInv, StopBegin
  PROVE  PipelineInv'
<1>1. /\ PipelineTypeOK /\ BatchInv /\ StopInv /\ phase' = "ch closed" /\ loopCtx' = TRUE
      /\ UNCHANGED <<vars, ingestCh, produced, base, group, loopUp, wal, drained, picked, flushed,
                     received, unlogged>>
      BY DEF PipelineInv, StopBegin
<1>2. PipelineTypeOK'
      BY <1>1 DEF PipelineTypeOK, DrainProcs
<1>3. BatchInv' /\ StopInv'
      BY <1>1, BatchKept, StopMoves
<1> QED BY <1>1, <1>2, <1>3, AgentStep

LEMMA StopFlushInv ==
  ASSUME PipelineInv, StopFlush
  PROVE  PipelineInv'
<1>1. /\ PipelineTypeOK /\ BatchInv /\ StopInv /\ ~loopUp /\ phase' = "flush"
      /\ UNCHANGED <<vars, ingestCh, produced, base, group, loopUp, wal, drained, picked, loopCtx,
                     flushed, received, unlogged>>
      BY DEF PipelineInv, StopFlush, IngestLoopGone
<1>2. PipelineTypeOK'
      BY <1>1 DEF PipelineTypeOK, DrainProcs
<1>3. BatchInv' /\ StopInv'
      BY <1>1, BatchKept, StopMoves
<1> QED BY <1>1, <1>2, <1>3, AgentStep

LEMMA FlushEndsInv ==
  ASSUME PipelineInv, FlushEnds
  PROVE  PipelineInv'
<1>1. /\ PipelineTypeOK /\ BatchInv /\ StopInv /\ phase = "flush"
      /\ (Live = {} /\ flushed' = "all") \/ flushed' = "deadline"
      /\ UNCHANGED <<vars, phase, ingestCh, produced, base, group, loopUp, wal, drained, picked,
                     loopCtx, received, unlogged>>
      BY DEF PipelineInv, FlushEnds
<1>2. PipelineTypeOK'
      BY <1>1 DEF PipelineTypeOK, DrainProcs
<1>3. BatchInv'
      BY <1>1, BatchKept
<1>4. StopInv'
  <2>1. ~loopUp /\ phase' = "flush"
        BY <1>1 DEF StopInv
  <2> QED BY <1>1, <2>1, StopMoves
<1> QED BY <1>1, <1>2, <1>3, <1>4, AgentStep

(* The two steps around the dispatcher's Close.                            *)
LEMMA StopCloseInv ==
  ASSUME PipelineInv, phase \notin {"run", "ch closed"}, phase' \in {"closing", "stopped"},
         CloseBegin \/ CloseEnd,
         UNCHANGED <<ingestCh, produced, base, group, loopUp, wal, drained, picked, loopCtx, flushed,
                     received, unlogged>>
  PROVE  PipelineInv'
<1>1. PipelineTypeOK /\ BatchInv /\ StopInv /\ DispatcherPart
      BY PartOfInv DEF PipelineInv
<1>2. DispatcherPart' /\ Placed' = Placed
      BY <1>1, CloseBeginPart, CloseEndPart
<1>3. PipelineTypeOK'
      BY <1>1 DEF PipelineTypeOK, DrainProcs
<1>4. BatchInv'
      BY <1>1, BatchKept
<1>5. StopInv'
  <2>1. ~loopUp
        BY <1>1 DEF StopInv
  <2> QED BY <1>1, <2>1, StopMoves
<1> QED BY <1>2, <1>3, <1>4, <1>5, QuietStep DEF StayPlaced

-----------------------------------------------------------------------------
LEMMA DispatcherStepInv ==
  ASSUME PipelineInv, DispatcherStep
  PROVE  PipelineInv'
<1>1. UNCHANGED pipeVars /\ DispatcherPart
      BY PartOfInv DEF DispatcherStep
<1>2. DispatcherPart' /\ StayPlaced
  <2>1. ASSUME NEW p \in Producers, EnqueueCount(p) PROVE DispatcherPart' /\ StayPlaced
        BY <1>1, <2>1, EnqueueCountPart DEF StayPlaced
  <2> QED BY <1>1, <2>1, WorkerStepPart DEF DispatcherStep
<1>3. PipelineTypeOK' /\ BatchInv' /\ StopInv'
      BY <1>1, PipelineTypeKept, BatchKept, StopKept DEF PipelineInv, pipeVars
<1> QED BY <1>1, <1>2, <1>3, QuietStep DEF pipeVars

LEMMA PipelineStutters == PipelineInv /\ UNCHANGED allVars => PipelineInv'
<1> SUFFICES ASSUME PipelineInv, UNCHANGED allVars PROVE PipelineInv'
    OBVIOUS
<1>1. UNCHANGED vars /\ UNCHANGED pipeVars
      BY DEF allVars
<1>2. PipelineTypeOK' /\ BatchInv' /\ StopInv'
      BY <1>1, PipelineTypeKept, BatchKept, StopKept DEF PipelineInv, pipeVars
<1> QED BY <1>1, <1>2, AgentStep DEF pipeVars

LEMMA PipelineStepInv == PipelineInv /\ [PipelineNext]_allVars => PipelineInv'
<1> SUFFICES ASSUME PipelineInv, [PipelineNext]_allVars PROVE PipelineInv'
    OBVIOUS
<1>1. ASSUME NEW b \in Sources, Collect(b) PROVE PipelineInv'
      BY <1>1, CollectInv
<1>2. CASE IngestStep
      BY <1>2, ReceiveInv, DispatchInv, DivertInv, NextBatchInv, LoopReturnsInv DEF IngestStep
<1>3. ASSUME NEW d \in DrainProcs, DrainStep(d) PROVE PipelineInv'
      BY <1>3, PickInv, RedeliverInv, RedeliverFailsInv DEF DrainStep
<1>4. CASE StopBegin
      BY <1>4, StopBeginInv
<1>5. CASE StopStep
  <2>1. CASE StopDispatcher
        BY <2>1, StopCloseInv DEF StopDispatcher
  <2>2. CASE StopEnds
        BY <2>2, StopCloseInv DEF StopEnds
  <2> QED BY <1>5, <2>1, <2>2, StopFlushInv, FlushEndsInv DEF StopStep
<1>6. CASE DispatcherStep
      BY <1>6, DispatcherStepInv
<1>7. CASE AgentStopped \/ UNCHANGED allVars
      BY <1>7, PipelineStutters DEF AgentStopped
<1> QED BY <1>1, <1>2, <1>3, <1>4, <1>5, <1>6, <1>7 DEF PipelineNext

(* The invariant of AgentPipeline, for any instance.                       *)
THEOREM PipelineCorrect == PipelineSpec => []PipelineInv
<1> QED BY PipelineInitInv, PipelineStepInv, PTL DEF PipelineSpec

(* Until stop() closes the dispatcher no batch that a collector handed over*)
(* is lost between ingestCh, ingestLoop, the queue, the workers and the    *)
(* log, unless the Write of one of its jobs returned an error, which       *)
(* ingestLoop drops.                                                       *)
THEOREM NothingLostBeforeClose == PipelineSpec => []NoLossBeforeClose
<1>1. PipelineInv => NoLossBeforeClose
  <2> SUFFICES ASSUME PipelineInv, ~cancelled, NEW j \in Jobs, j[1] \in produced, ~Waiting(j)
               PROVE  j \in InMemory \/ AtTargets(j) \/ InLog(j) \/ j \in unlogged
      BY DEF NoLossBeforeClose
  <2>1. j \in received
        BY DEF PipelineInv, BatchInv
  <2>2. j \in InMemory \/ j \in done \/ InLog(j) \/ j \in unlogged
        BY <2>1 DEF PipelineInv, PlaceInv, Placed, InLog
  <2>3. j \in done => AtTargets(j)
        BY DEF PipelineInv, SendInv
  <2> QED BY <2>2, <2>3
<1> QED BY <1>1, PipelineCorrect, PTL

(* When Flush has returned nil, every job that was ever diverted to the log*)
(* is with the dispatcher or done, and none is diverted any more.          *)
THEOREM FlushEmptiesTheLog == PipelineSpec => []FlushedMeansEmpty
<1>1. PipelineInv => FlushedMeansEmpty
  <2> SUFFICES ASSUME PipelineInv, flushed = "all", NEW j \in Range(wal)
               PROVE  j \in InMemory \cup done
      BY DEF FlushedMeansEmpty
  <2>1. j \in drained
        BY DEF PipelineInv, StopInv
  <2> QED BY <2>1 DEF PipelineInv, PlaceInv, Placed
<1> QED BY <1>1, PipelineCorrect, PTL

(* In the agent, too, a Close that returns nil has had every job processed *)
(* that was queued before it, those that came back from the log included,  *)
(* although a job may be queued twice there.                               *)
THEOREM AgentCloseDrains == ASSUME Workers # {} PROVE PipelineSpec => []CloseProcessesEarly
<1>1. PipelineInv => CloseProcessesEarly
  <2> SUFFICES ASSUME PipelineInv, closing = "closed" PROVE early \subseteq done
      BY DEF CloseProcessesEarly
  <2>1. \A w \in Workers : wpc[w] = "exited"
        BY DEF PipelineInv, ExitInv
  <2>2. /\ \A w \in Workers : wjob[w] = None
        /\ early \subseteq done \cup {wjob[w] : w \in Workers}
        BY <2>1 DEF PipelineInv, ExitInv
  <2>3. None \notin early
        BY DispatcherAssumption DEF PipelineInv, TypeOK
  <2> QED BY <2>2, <2>3
<1> QED BY <1>1, PipelineCorrect, PTL

(* The log is used as SignalLog allows: whenever ingestLoop diverts a job  *)
(* it is not stored yet, and whenever a drainer hands a record over all    *)
(* older ones are consumed.  No step waits for a guard of SignalLog.       *)
LogReady ==
  /\ InGroup => Job \notin Log!Stored
  /\ \A d \in DrainProcs : picked[d] # 0 => \A i \in 1 .. picked[d] - 1 : Log!Settled(i)
THEOREM LogNeverInTheWay == PipelineSpec => []LogReady
<1>1. PipelineInv => LogReady
  <2> SUFFICES ASSUME PipelineInv PROVE LogReady
      OBVIOUS
  <2>1. InGroup => Job \notin Log!Stored
    <3>1. InGroup => Job \notin received
          BY ServedOnce DEF PipelineInv
    <3>2. Range(wal) \subseteq received
          BY DEF PipelineInv, BatchInv
    <3> QED BY <3>1, <3>2 DEF Log!Stored, Range
  <2>2. \A d \in DrainProcs : \A i \in 1 .. picked[d] - 1 : Log!Settled(i)
        BY DEF PipelineInv, StopInv, PickedOldest, Log!Settled
  <2> QED BY <2>1, <2>2 DEF LogReady
<1> QED BY <1>1, PipelineCorrect, PTL
=============================================================================
