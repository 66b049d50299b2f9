-------------------------- MODULE DispatcherProofs --------------------------
(***************************************************************************)
(* Proofs about Dispatcher, for any number of jobs, producers, workers and *)
(* connectors, and any queue capacity.                                     *)
(***************************************************************************)
EXTENDS Dispatcher, FiniteSetTheorems, TLAPS

-----------------------------------------------------------------------------
(* A queue as a sequence: what Append and Tail do to its elements.         *)
LEMMA AppendElements ==
  ASSUME NEW S, NEW q \in Seq(S), NEW j \in S
  PROVE  /\ Append(q, j) \in Seq(S) /\ Len(Append(q, j)) = Len(q) + 1
         /\ Range(Append(q, j)) = Range(q) \cup {j}
         /\ j \notin Range(q) /\ (\A i, k \in DOMAIN q : q[i] = q[k] => i = k)
              => \A i, k \in DOMAIN Append(q, j) : Append(q, j)[i] = Append(q, j)[k] => i = k
<1> DEFINE r == Append(q, j)
<1>1. /\ r \in Seq(S) /\ Len(r) = Len(q) + 1 /\ r[Len(q) + 1] = j
      /\ \A i \in 1 .. Len(q) : r[i] = q[i]
      /\ DOMAIN q = 1 .. Len(q) /\ DOMAIN r = 1 .. Len(q) + 1 /\ Len(q) \in Nat
      OBVIOUS
<1> HIDE DEF r
<1>2. Range(r) = Range(q) \cup {j}
  <2>1. \A x \in Range(r) : x \in Range(q) \cup {j}
        BY <1>1 DEF Range
  <2>2. \A x \in Range(q) \cup {j} : x \in Range(r)
        BY <1>1 DEF Range
  <2> QED BY <2>1, <2>2
<1>3. ASSUME j \notin Range(q), \A i, k \in DOMAIN q : q[i] = q[k] => i = k,
             NEW i \in DOMAIN r, NEW k \in DOMAIN r, r[i] = r[k]
      PROVE  i = k
      BY <1>1, <1>3 DEF Range
<1> QED BY <1>1, <1>2, <1>3 DEF r

LEMMA TailElements ==
  ASSUME NEW S, NEW q \in Seq(S), q # <<>>
  PROVE  /\ Tail(q) \in Seq(S) /\ Len(Tail(q)) = Len(q) - 1 /\ Head(q) \in S
         /\ Range(q) = Range(Tail(q)) \cup {Head(q)}
         /\ (\A i, k \in DOMAIN q : q[i] = q[k] => i = k)
              => /\ Head(q) \notin Range(Tail(q))
                 /\ \A i, k \in DOMAIN Tail(q) : Tail(q)[i] = Tail(q)[k] => i = k
<1> DEFINE t == Tail(q)
           n == Len(q)
<1>1. /\ n \in Nat /\ n > 0 /\ DOMAIN q = 1 .. n /\ Head(q) = q[1] /\ q[1] \in S
      /\ t \in Seq(S) /\ Len(t) = n - 1 /\ DOMAIN t = 1 .. n - 1
      /\ \A i \in 1 .. n - 1 : t[i] = q[i + 1]
      OBVIOUS
<1> HIDE DEF t, n
<1>2. Range(q) = Range(t) \cup {q[1]}
  <2>1. \A i \in 2 .. n : i - 1 \in 1 .. n - 1 /\ q[i] = t[i - 1]
        BY <1>1
  <2>2. ASSUME NEW i \in DOMAIN q PROVE q[i] \in Range(t) \cup {q[1]}
    <3>1. CASE i = 1
          BY <3>1
    <3>2. CASE i # 1
      <4>1. i - 1 \in DOMAIN t /\ q[i] = t[i - 1]
            BY <1>1, <2>1, <3>2
      <4> QED BY <4>1 DEF Range
    <3> QED BY <3>1, <3>2
  <2>3. \A x \in Range(t) \cup {q[1]} : x \in Range(q)
        BY <1>1 DEF Range
  <2> QED BY <2>2, <2>3 DEF Range
<1>3. ASSUME \A i, k \in DOMAIN q : q[i] = q[k] => i = k
      PROVE  q[1] \notin Range(t) /\ \A i, k \in DOMAIN t : t[i] = t[k] => i = k
  <2>1. ASSUME NEW i \in DOMAIN t, NEW k \in DOMAIN t, t[i] = t[k] PROVE i = k
    <3>1. i + 1 \in DOMAIN q /\ k + 1 \in DOMAIN q /\ q[i + 1] = q[k + 1]
          BY <1>1, <2>1
    <3>2. i + 1 = k + 1
          BY <1>3, <3>1
    <3> QED BY <1>1, <3>2
  <2>2. \A i \in DOMAIN t : q[1] # t[i]
    <3> TAKE i \in DOMAIN t
    <3>1. 1 \in DOMAIN q /\ i + 1 \in DOMAIN q /\ i + 1 # 1 /\ t[i] = q[i + 1]
          BY <1>1
    <3> QED BY <1>3, <3>1
  <2> QED BY <2>1, <2>2 DEF Range
<1> QED BY <1>1, <1>2, <1>3 DEF t, n

LEMMA AppendQueue ==
  ASSUME NEW q \in Seq(Jobs), NEW j \in Jobs
  PROVE  /\ Append(q, j) \in Seq(Jobs) /\ Len(Append(q, j)) = Len(q) + 1
         /\ Range(Append(q, j)) = Range(q) \cup {j}
         /\ j \notin Range(q) /\ (\A i, k \in DOMAIN q : q[i] = q[k] => i = k)
              => \A i, k \in DOMAIN Append(q, j) : Append(q, j)[i] = Append(q, j)[k] => i = k
BY AppendElements

LEMMA TailQueue ==
  ASSUME NEW q \in Seq(Jobs), q # <<>>
  PROVE  /\ Tail(q) \in Seq(Jobs) /\ Len(Tail(q)) = Len(q) - 1 /\ Head(q) \in Jobs
         /\ Range(q) = Range(Tail(q)) \cup {Head(q)}
         /\ (\A i, k \in DOMAIN q : q[i] = q[k] => i = k)
              => /\ Head(q) \notin Range(Tail(q))
                 /\ \A i, k \in DOMAIN Tail(q) : Tail(q)[i] = Tail(q)[k] => i = k
BY TailElements

LEMMA Lengths == TypeOK => Len(queue) \in Nat /\ Len(queue) <= Capacity /\ Capacity \in Nat
<1> SUFFICES ASSUME TypeOK PROVE Len(queue) \in Nat /\ Len(queue) <= Capacity /\ Capacity \in Nat
    OBVIOUS
<1>1. queue \in Seq(Jobs) /\ Len(queue) <= Capacity
      BY DEF TypeOK
<1>2. Len(queue) \in Nat
      BY <1>1
<1>3. Capacity \in Nat
      BY DispatcherAssumption
<1> QED BY <1>1, <1>2, <1>3

-----------------------------------------------------------------------------
(* What each part of the invariant depends on.                             *)
LEMMA OnePlaceKept ==
  OnePlace /\ UNCHANGED <<queue, wjob, done, offered, refused>> => OnePlace'
BY DEF OnePlace, Held

LEMMA FanOutKept ==
  FanOutComplete /\ UNCHANGED <<done, outcome>> => FanOutComplete'
BY DEF FanOutComplete

LEMMA WorkerKept ==
  WorkerInv /\ UNCHANGED <<wpc, cancelled, wjob, wnext, early, queue, sending>> => WorkerInv'
BY DEF WorkerInv

LEMMA ProgressKept ==
  ProgressInv /\ UNCHANGED <<wnext, wjob, outcome>> => ProgressInv'
BY DEF ProgressInv, PastTried, Tried

LEMMA CloseKept ==
  CloseInv /\ UNCHANGED <<early, offered, refused, closing, wpc>> => CloseInv'
BY DEF CloseInv

LEMMA InitInv == Init => CoreInv
<1> SUFFICES ASSUME Init PROVE CoreInv
    OBVIOUS
<1>1. queue = <<>> /\ Len(queue) = 0 /\ DOMAIN queue = {} /\ queue \in Seq(Jobs) /\ Range(queue) = {}
      BY DEF Init, Range
<1>2. TypeOK
  <2>1. /\ wjob \in [Workers -> Jobs \cup {None}] /\ wnext \in [Workers -> Nat \ {0}]
        /\ wpc \in [Workers -> {"select", "drain", "exited"}]
        /\ outcome \in [Jobs -> [Connectors -> {"none", "ok", "failed"}]]
        BY DEF Init
  <2>2. /\ queue \in Seq(Jobs) /\ Len(queue) <= Capacity
        BY <1>1, DispatcherAssumption
  <2>3. /\ cancelled \in BOOLEAN /\ closing \in {"open", "waiting", "closed", "timed out"}
        /\ accepted \in Nat /\ delivered \in Nat /\ failed \in Nat /\ dropped \in Nat
        BY DEF Init
  <2>4. /\ counting \subseteq Producers /\ sending \subseteq Workers
        /\ offered \subseteq Jobs /\ early \subseteq Jobs /\ refused \subseteq Jobs
        /\ done \subseteq Jobs /\ arrived \subseteq Jobs \X Connectors
        BY DEF Init
  <2> QED BY <2>1, <2>2, <2>3, <2>4 DEF TypeOK
<1>3. OnePlace
  <2>1. \A w \in Workers : wjob[w] = None /\ Held(w) = {}
        BY DEF Init, Held
  <2> QED BY <1>1, <2>1 DEF Init, OnePlace
<1>4. FanOutComplete /\ WorkerInv /\ CloseInv
      BY DEF Init, FanOutComplete, WorkerInv, CloseInv
<1>5. ProgressInv
      BY DEF Init, ProgressInv, PastTried
<1> QED BY <1>2, <1>3, <1>4, <1>5 DEF CoreInv

-----------------------------------------------------------------------------
(* Enqueue.                                                                *)
LEMMA EnqueueSendInv ==
  ASSUME CoreInv, NEW p \in Producers, NEW j \in Jobs \ offered, EnqueueSend(p, j)
  PROVE  CoreInv'
<1>1. /\ TypeOK /\ OnePlace /\ FanOutComplete /\ WorkerInv /\ ProgressInv /\ CloseInv
      BY DEF CoreInv
<1>2. /\ queue' \in Seq(Jobs) /\ Len(queue') = Len(queue) + 1
      /\ Range(queue') = Range(queue) \cup {j}
      BY <1>1, AppendQueue DEF EnqueueSend, TypeOK
<1>3. TypeOK'
  <2>1. Len(queue') <= Capacity
    <3>1. Len(queue) \in Nat /\ Capacity \in Nat /\ Len(queue) < Capacity
          BY <1>1, Lengths DEF EnqueueSend, HasRoom
    <3> QED BY ONLY <3>1, <1>2
  <2> QED BY <1>1, <1>2, <2>1 DEF EnqueueSend, TypeOK, workerVars
<1>4. OnePlace'
  <2>1. j \notin Range(queue) /\ j \notin done /\ \A w \in Workers : j \notin Held(w)
        BY <1>1 DEF OnePlace, CloseInv
  <2>2. \A w \in Workers : Held(w)' = Held(w)
        BY DEF EnqueueSend, workerVars, Held
  <2>3. \A i, k \in DOMAIN queue' : queue'[i] = queue'[k] => i = k
        BY <1>1, <2>1, AppendQueue DEF EnqueueSend, TypeOK, OnePlace
  <2>4. j \notin refused
        BY <1>1 DEF CloseInv
  <2>5. (offered \ refused)' = (offered \ refused) \cup {j}
        BY <2>4 DEF EnqueueSend
  <2>6. (UNION {Held(w) : w \in Workers})' = UNION {Held(w) : w \in Workers}
        BY <2>2
  <2>7. \A w \in Workers : Held(w)' \cap (Range(queue') \cup done') = {}
        BY <1>1, <1>2, <2>1, <2>2 DEF OnePlace, EnqueueSend
  <2>8. Range(queue') \cap done' = {}
        BY <1>1, <1>2, <2>1 DEF OnePlace, EnqueueSend
  <2>9. (offered \ refused)' = Range(queue') \cup done' \cup (UNION {Held(w) : w \in Workers})'
        BY <1>1, <1>2, <2>5, <2>6 DEF OnePlace, EnqueueSend
  <2>10. \A w, v \in Workers : wjob'[w] # None /\ wjob'[w] = wjob'[v] => w = v
        BY <1>1 DEF OnePlace, EnqueueSend, workerVars
  <2> QED BY <2>3, <2>7, <2>8, <2>9, <2>10 DEF OnePlace
<1>5. WorkerInv'
  <2>1. ASSUME NEW w \in Workers, wpc[w] = "exited" PROVE early' \cap Range(queue') = {}
        BY <1>1, <1>2, <2>1 DEF WorkerInv, CloseInv, EnqueueSend
  <2> QED BY <1>1, <2>1 DEF WorkerInv, EnqueueSend, workerVars
<1>6. CloseInv'
      BY <1>1 DEF CloseInv, EnqueueSend, workerVars
<1>7. FanOutComplete' /\ ProgressInv'
      BY <1>1, FanOutKept, ProgressKept DEF EnqueueSend, workerVars
<1> QED BY <1>3, <1>4, <1>5, <1>6, <1>7 DEF CoreInv

LEMMA EnqueueCountInv ==
  ASSUME CoreInv, NEW p \in Producers, EnqueueCount(p)
  PROVE  CoreInv'
<1>1. TypeOK'
  <2>1. TypeOK /\ UNCHANGED <<queue, cancelled, closing, wpc, wjob, wnext, sending, delivered,
                  failed, dropped, offered, early, refused, done, outcome, arrived>>
        BY DEF CoreInv, EnqueueCount, workerVars
  <2>2. accepted \in Nat /\ counting \subseteq Producers
        BY <2>1 DEF TypeOK
  <2>3. accepted' \in Nat /\ counting' \subseteq Producers
        BY <2>2 DEF EnqueueCount
  <2> QED BY <2>1, <2>3 DEF TypeOK
<1> QED BY <1>1, OnePlaceKept, FanOutKept, WorkerKept, ProgressKept, CloseKept
        DEF CoreInv, EnqueueCount, workerVars

LEMMA EnqueueRefuseInv ==
  ASSUME CoreInv, NEW p \in Producers, NEW j \in Jobs \ offered, EnqueueRefuse(p, j)
  PROVE  CoreInv'
<1>1. /\ TypeOK /\ OnePlace /\ FanOutComplete /\ WorkerInv /\ ProgressInv /\ CloseInv
      BY DEF CoreInv
<1>2. TypeOK'
      BY <1>1 DEF TypeOK, EnqueueRefuse, workerVars
<1>3. OnePlace'
  <2>1. (offered \ refused)' = offered \ refused
        BY <1>1 DEF EnqueueRefuse, CloseInv
  <2>2. \A w \in Workers : Held(w)' = Held(w)
        BY DEF EnqueueRefuse, workerVars, Held
  <2>3. (UNION {Held(w) : w \in Workers})' = UNION {Held(w) : w \in Workers}
        BY <2>2
  <2> QED BY <1>1, <2>1, <2>2, <2>3 DEF OnePlace, EnqueueRefuse, workerVars
<1>4. CloseInv'
  <2>1. j \notin early
        BY <1>1 DEF CloseInv
  <2> QED BY <1>1, <2>1 DEF CloseInv, EnqueueRefuse, workerVars
<1> QED BY <1>1, <1>2, <1>3, <1>4, FanOutKept, WorkerKept, ProgressKept
        DEF CoreInv, EnqueueRefuse, workerVars

-----------------------------------------------------------------------------
(* worker.                                                                 *)
LEMMA TakeJobInv ==
  ASSUME CoreInv, NEW w \in Workers, TakeJob(w)
  PROVE  CoreInv'
<1>1. /\ TypeOK /\ OnePlace /\ FanOutComplete /\ WorkerInv /\ ProgressInv /\ CloseInv
      BY DEF CoreInv
<1> DEFINE h == Head(queue)
<1>2. /\ queue' = Tail(queue) /\ queue # <<>> /\ queue \in Seq(Jobs)
      /\ wjob' = [wjob EXCEPT ![w] = h] /\ wnext' = [wnext EXCEPT ![w] = 1]
      /\ wjob[w] = None /\ wpc[w] # "exited" /\ wjob \in [Workers -> Jobs \cup {None}]
      /\ wnext \in [Workers -> Nat \ {0}]
      BY <1>1 DEF TakeJob, JobTakenOut, Idle, TypeOK
<1>3. /\ queue' \in Seq(Jobs) /\ Len(queue') = Len(queue) - 1 /\ h \in Jobs
      /\ Range(queue) = Range(queue') \cup {h} /\ h \notin Range(queue')
      /\ \A i, k \in DOMAIN queue' : queue'[i] = queue'[k] => i = k
      BY <1>1, <1>2, TailQueue DEF OnePlace
<1> HIDE DEF h
<1>4. h # None
      BY <1>3, DispatcherAssumption
<1>5. TypeOK'
  <2>1. Len(queue') <= Capacity
    <3>1. Len(queue) \in Nat /\ Capacity \in Nat /\ Len(queue) <= Capacity
          BY <1>1, Lengths
    <3> QED BY ONLY <3>1, <1>3
  <2>2. wjob' \in [Workers -> Jobs \cup {None}] /\ wnext' \in [Workers -> Nat \ {0}]
        BY <1>2, <1>3
  <2> QED BY <1>1, <1>3, <2>1, <2>2 DEF TypeOK, TakeJob
<1>6. OnePlace'
  <2>1. /\ Held(w) = {} /\ Held(w)' = {h}
        /\ \A v \in Workers \ {w} : Held(v)' = Held(v)
        BY <1>2, <1>4 DEF Held
  <2>2. \A v \in Workers : h \notin Held(v)
        BY <1>1, <1>3 DEF OnePlace
  <2>3. \A v, u \in Workers : wjob'[v] # None /\ wjob'[v] = wjob'[u] => v = u
        BY <1>1, <1>2, <1>4, <2>2 DEF OnePlace, Held
  <2>4. (UNION {Held(v) : v \in Workers})' = (UNION {Held(v) : v \in Workers}) \cup {h}
        BY <2>1
  <2>5. UNCHANGED <<offered, refused, done>>
        BY DEF TakeJob
  <2>6. h \notin done
        BY <1>1, <1>3 DEF OnePlace
  <2>7. \A v \in Workers : Held(v)' \cap (Range(queue') \cup done') = {}
        BY <1>1, <1>3, <2>1, <2>5, <2>6 DEF OnePlace
  <2>8. Range(queue') \cap done' = {}
        BY <1>1, <1>3, <2>5 DEF OnePlace
  <2>9. (offered \ refused)' = Range(queue') \cup done' \cup (UNION {Held(v) : v \in Workers})'
        BY <1>1, <1>3, <2>4, <2>5 DEF OnePlace
  <2> QED BY <1>3, <2>3, <2>7, <2>8, <2>9 DEF OnePlace
<1>7. WorkerInv'
  <2>1. w \notin sending
        BY <1>1, <1>2 DEF WorkerInv
  <2>2. Range(queue') \subseteq Range(queue)
        BY <1>3
  <2>3. UNCHANGED <<wpc, cancelled, early, sending>>
        BY DEF TakeJob
  <2>4. ASSUME NEW v \in Workers
        PROVE  /\ wpc'[v] # "select" => cancelled'
               /\ wpc'[v] = "exited" => wjob'[v] = None /\ early' \cap Range(queue') = {}
               /\ v \in sending' => wjob'[v] # None /\ wnext'[v] <= Len(TargetsOf[wjob'[v]])
    <3>1. CASE v = w
          BY <1>1, <1>2, <2>1, <2>3, <3>1 DEF WorkerInv
    <3>2. CASE v # w
      <4>1. wjob'[v] = wjob[v] /\ wnext'[v] = wnext[v]
            BY <1>2, <3>2
      <4> QED BY <1>1, <2>2, <2>3, <4>1 DEF WorkerInv
    <3> QED BY <3>1, <3>2
  <2> QED BY <2>4 DEF WorkerInv
<1>8. ProgressInv'
  <2>1. ASSUME NEW v \in Workers PROVE PastTried(v)'
    <3>1. CASE v = w
      <4>1. wnext'[v] = 1
            BY <1>2, <3>1
      <4> QED BY <4>1 DEF PastTried
    <3>2. CASE v # w
      <4>1. wjob'[v] = wjob[v] /\ wnext'[v] = wnext[v] /\ outcome' = outcome
            BY <1>2, <3>2 DEF TakeJob
      <4>2. PastTried(v)
            BY <1>1 DEF ProgressInv
      <4> QED BY <4>1, <4>2 DEF PastTried, Tried
    <3> QED BY <3>1, <3>2
  <2> QED BY <2>1 DEF ProgressInv
<1>9. FanOutComplete' /\ CloseInv'
      BY <1>1, FanOutKept, CloseKept DEF TakeJob
<1> QED BY <1>5, <1>6, <1>7, <1>8, <1>9 DEF CoreInv

LEMMA SeeCancelInv ==
  ASSUME CoreInv, NEW w \in Workers, SeeCancel(w)
  PROVE  CoreInv'
<1>1. /\ TypeOK /\ OnePlace /\ FanOutComplete /\ WorkerInv /\ ProgressInv /\ CloseInv
      BY DEF CoreInv
<1>2. TypeOK'
      BY <1>1 DEF TypeOK, SeeCancel
<1>3. WorkerInv' /\ CloseInv'
      BY <1>1 DEF WorkerInv, CloseInv, SeeCancel, TypeOK
<1> QED BY <1>1, <1>2, <1>3, OnePlaceKept, FanOutKept, ProgressKept DEF CoreInv, SeeCancel

LEMMA WorkerExitInv ==
  ASSUME CoreInv, NEW w \in Workers, WorkerExit(w)
  PROVE  CoreInv'
<1>1. /\ TypeOK /\ OnePlace /\ FanOutComplete /\ WorkerInv /\ ProgressInv /\ CloseInv
      BY DEF CoreInv
<1>2. TypeOK'
      BY <1>1 DEF TypeOK, WorkerExit
<1>3. WorkerInv'
  <2>1. Range(queue) = {}
        BY DEF WorkerExit, MayExit, Range
  <2>2. wjob[w] = None /\ wpc[w] = "drain"
        BY DEF WorkerExit, MayExit, Idle
  <2> QED BY <1>1, <2>1, <2>2 DEF WorkerInv, WorkerExit, TypeOK
<1>4. CloseInv'
      BY <1>1 DEF CloseInv, WorkerExit, TypeOK
<1> QED BY <1>1, <1>2, <1>3, <1>4, OnePlaceKept, FanOutKept, ProgressKept DEF CoreInv, WorkerExit

-----------------------------------------------------------------------------
(* process.  A step past a target whose Send has ended, or that is not     *)
(* registered, keeps what is known of the targets.                         *)
LEMMA AtTargetFacts ==
  ASSUME TypeOK, NEW w \in Workers, wjob[w] # None, wnext[w] <= Len(TargetsOf[wjob[w]])
  PROVE  /\ wjob[w] \in Jobs /\ TargetsOf[wjob[w]] \in Seq(Connectors)
         /\ wnext[w] \in DOMAIN TargetsOf[wjob[w]] /\ Target(w) \in Connectors
<1>1. wjob[w] \in Jobs /\ wnext[w] \in Nat \ {0}
      BY DEF TypeOK
<1>2. TargetsOf[wjob[w]] \in Seq(Connectors)
      BY <1>1, DispatcherAssumption
<1>3. wnext[w] \in DOMAIN TargetsOf[wjob[w]]
      BY <1>1, <1>2
<1> QED BY <1>1, <1>2, <1>3 DEF Target

LEMMA OutcomeSet ==
  ASSUME TypeOK, NEW w \in Workers, wjob[w] \in Jobs, Target(w) \in Connectors,
         NEW r \in {"ok", "failed"}, Outcome(w, r)
  PROVE  /\ outcome' \in [Jobs -> [Connectors -> {"none", "ok", "failed"}]]
         /\ outcome'[wjob[w]][Target(w)] # "none"
         /\ \A j \in Jobs, c \in Connectors : outcome[j][c] # "none" => outcome'[j][c] # "none"
<1>1. outcome \in [Jobs -> [Connectors -> {"none", "ok", "failed"}]]
      BY DEF TypeOK
<1>2. outcome' = [outcome EXCEPT ![wjob[w]][Target(w)] = r]
      BY DEF Outcome
<1> HIDE DEF Target
<1> QED BY <1>1, <1>2

LEMMA Advance ==
  ASSUME TypeOK, ProgressInv, FanOutComplete, NEW w \in Workers,
         wjob[w] # None, wnext[w] <= Len(TargetsOf[wjob[w]]),
         UNCHANGED <<wjob, done>>, wnext' = NextTarget(w),
         \A j \in Jobs, c \in Connectors : outcome[j][c] # "none" => outcome'[j][c] # "none",
         Target(w) \in Registered => outcome'[wjob[w]][Target(w)] # "none"
  PROVE  /\ wnext' \in [Workers -> Nat \ {0}]
         /\ \A v \in Workers \ {w} : wnext'[v] = wnext[v]
         /\ ProgressInv' /\ FanOutComplete'
<1>1. /\ wnext \in [Workers -> Nat \ {0}] /\ wjob \in [Workers -> Jobs \cup {None}]
      /\ done \subseteq Jobs
      BY DEF TypeOK
<1>2. /\ wnext' \in [Workers -> Nat \ {0}] /\ wnext'[w] = wnext[w] + 1
      /\ \A v \in Workers \ {w} : wnext'[v] = wnext[v]
      BY <1>1 DEF NextTarget
<1>3. \A j \in Jobs : TargetsOf[j] \in Seq(Connectors)
      BY DispatcherAssumption
<1>4. ASSUME NEW j \in Jobs, NEW i \in DOMAIN TargetsOf[j], Tried(j, i)
      PROVE  Tried(j, i)'
  <2>1. TargetsOf[j][i] \in Connectors
        BY <1>3
  <2> QED BY <1>4, <2>1 DEF Tried
<1>5. ASSUME NEW v \in Workers PROVE PastTried(v)'
  <2> SUFFICES ASSUME NEW i \in 1 .. wnext'[v] - 1, wjob[v] # None, i <= Len(TargetsOf[wjob[v]])
               PROVE  TargetsOf[wjob[v]][i] \in Registered
                        => outcome'[wjob[v]][TargetsOf[wjob[v]][i]] # "none"
      BY DEF PastTried, Tried
  <2>1. wjob[v] \in Jobs /\ wnext[v] \in Nat \ {0} /\ i \in Nat \ {0}
        BY <1>1, <1>2
  <2>2. i \in DOMAIN TargetsOf[wjob[v]]
        BY <1>3, <2>1
  <2>3. CASE v = w /\ i = wnext[w]
        BY <2>3 DEF Target
  <2>4. CASE ~(v = w /\ i = wnext[w])
    <3>1. i \in 1 .. wnext[v] - 1
          BY <1>2, <2>1, <2>4
    <3>2. Tried(wjob[v], i)
          BY <3>1 DEF ProgressInv, PastTried
    <3>3. TargetsOf[wjob[v]][i] \in Connectors
          BY <1>3, <2>1, <2>2
    <3> QED BY <2>1, <3>2, <3>3 DEF Tried
  <2> QED BY <2>3, <2>4
<1>6. FanOutComplete'
      BY <1>1, DispatcherAssumption DEF FanOutComplete
<1> QED BY <1>2, <1>5, <1>6 DEF ProgressInv

LEMMA WorkerAdvances ==
  ASSUME WorkerInv, NEW w \in Workers, w \notin sending', sending' \subseteq sending,
         \A v \in Workers \ {w} : wnext'[v] = wnext[v],
         UNCHANGED <<wpc, cancelled, wjob, early, queue>>
  PROVE  WorkerInv'
BY DEF WorkerInv

LEMMA SkipTargetInv ==
  ASSUME CoreInv, NEW w \in Workers, SkipTarget(w)
  PROVE  CoreInv'
<1>1. /\ TypeOK /\ OnePlace /\ FanOutComplete /\ WorkerInv /\ ProgressInv /\ CloseInv
      BY DEF CoreInv
<1>2. /\ wjob[w] # None /\ w \notin sending /\ wnext[w] <= Len(TargetsOf[wjob[w]])
      /\ Target(w) \notin Registered /\ wnext' = NextTarget(w)
      BY DEF SkipTarget, AtTarget
<1>3. UNCHANGED <<queue, cancelled, closing, counting, wpc, wjob, sending, accepted, delivered,
                  failed, dropped, offered, early, refused, done, outcome, arrived>>
      BY DEF SkipTarget
<1>4. /\ wnext' \in [Workers -> Nat \ {0}] /\ \A v \in Workers \ {w} : wnext'[v] = wnext[v]
      /\ ProgressInv' /\ FanOutComplete'
      BY <1>1, <1>2, <1>3, Advance
<1>5. TypeOK'
      BY <1>1, <1>3, <1>4 DEF TypeOK
<1>6. WorkerInv'
      BY <1>1, <1>2, <1>3, <1>4, WorkerAdvances
<1> QED BY <1>1, <1>3, <1>4, <1>5, <1>6, OnePlaceKept, CloseKept DEF CoreInv

LEMMA BeginSendInv ==
  ASSUME CoreInv, NEW w \in Workers, BeginSend(w)
  PROVE  CoreInv'
<1>1. /\ TypeOK /\ OnePlace /\ FanOutComplete /\ WorkerInv /\ ProgressInv /\ CloseInv
      BY DEF CoreInv
<1>2. wjob[w] # None /\ wnext[w] <= Len(TargetsOf[wjob[w]])
      BY DEF BeginSend, AtTarget
<1>3. TypeOK'
      BY <1>1 DEF TypeOK, BeginSend
<1>4. WorkerInv'
      BY <1>1, <1>2 DEF WorkerInv, BeginSend
<1> QED BY <1>1, <1>3, <1>4, OnePlaceKept, FanOutKept, ProgressKept, CloseKept
        DEF CoreInv, BeginSend

(* A Send that has ended, in either way.                                   *)
LEMMA SendEnds ==
  ASSUME CoreInv, NEW w \in Workers, NEW r \in {"ok", "failed"},
         wjob[w] # None, wnext[w] <= Len(TargetsOf[wjob[w]]),
         Outcome(w, r), wnext' = NextTarget(w), sending' = sending \ {w},
         delivered' \in Nat, failed' \in Nat, arrived' \subseteq Jobs \X Connectors,
         UNCHANGED <<queue, cancelled, closing, counting, wpc, wjob, accepted, dropped,
                     offered, early, refused, done>>
  PROVE  CoreInv'
<1>1. /\ TypeOK /\ OnePlace /\ FanOutComplete /\ WorkerInv /\ ProgressInv /\ CloseInv
      BY DEF CoreInv
<1>2. wjob[w] \in Jobs /\ Target(w) \in Connectors
      BY <1>1, AtTargetFacts
<1>3. /\ outcome' \in [Jobs -> [Connectors -> {"none", "ok", "failed"}]]
      /\ outcome'[wjob[w]][Target(w)] # "none"
      /\ \A j \in Jobs, c \in Connectors : outcome[j][c] # "none" => outcome'[j][c] # "none"
      BY <1>1, <1>2, OutcomeSet
<1>4. /\ wnext' \in [Workers -> Nat \ {0}] /\ \A v \in Workers \ {w} : wnext'[v] = wnext[v]
      /\ ProgressInv' /\ FanOutComplete'
      BY <1>1, <1>3, Advance
<1>5. TypeOK'
      BY <1>1, <1>3, <1>4 DEF TypeOK
<1>6. WorkerInv'
      BY <1>1, <1>4, WorkerAdvances
<1> QED BY <1>1, <1>4, <1>5, <1>6, OnePlaceKept, CloseKept DEF CoreInv

LEMMA Counted ==
  ASSUME CoreInv, NEW w \in Workers, NEW ok \in BOOLEAN, SendCounted(w, ok)
  PROVE  delivered' \in Nat /\ failed' \in Nat
<1>1. delivered \in Nat /\ failed \in Nat
      BY DEF CoreInv, TypeOK
<1> QED BY <1>1 DEF SendCounted

LEMMA SendCancelledInv ==
  ASSUME CoreInv, NEW w \in Workers, SendCancelled(w)
  PROVE  CoreInv'
<1>1. /\ wjob[w] # None /\ wnext[w] <= Len(TargetsOf[wjob[w]]) /\ w \notin sending
      /\ Outcome(w, "failed") /\ SendCounted(w, FALSE) /\ wnext' = NextTarget(w)
      BY DEF SendCancelled, AtTarget, AfterFailure
<1>2. UNCHANGED <<queue, cancelled, closing, counting, wpc, wjob, sending, accepted,
                  dropped, offered, early, refused, done, arrived>>
      BY DEF SendCancelled
<1>3. delivered' \in Nat /\ failed' \in Nat
      BY <1>1, Counted
<1>4. sending' = sending \ {w} /\ arrived' \subseteq Jobs \X Connectors
      BY <1>1, <1>2 DEF CoreInv, TypeOK
<1> QED BY <1>1, <1>2, <1>3, <1>4, SendEnds

LEMMA EndSendInv ==
  ASSUME CoreInv, NEW w \in Workers, EndSend(w)
  PROVE  CoreInv'
<1>1. /\ wjob[w] # None /\ wnext[w] <= Len(TargetsOf[wjob[w]])
      /\ sending' = sending \ {w} /\ wnext' = NextTarget(w)
      BY DEF EndSend, CoreInv, WorkerInv, AfterFailure
<1>2. UNCHANGED <<queue, cancelled, closing, counting, wpc, wjob, accepted, dropped,
                  offered, early, refused, done>>
      BY DEF EndSend
<1>3. PICK r \in {"ok", "failed"}, ok \in BOOLEAN : Outcome(w, r) /\ SendCounted(w, ok)
      BY DEF EndSend
<1>4. wjob[w] \in Jobs /\ Target(w) \in Connectors
      BY <1>1, AtTargetFacts DEF CoreInv
<1>5. arrived' \subseteq Jobs \X Connectors
  <2>1. arrived \subseteq Jobs \X Connectors
        BY DEF CoreInv, TypeOK
  <2>2. arrived' \in {arrived, arrived \cup {<<wjob[w], Target(w)>>}}
        BY DEF EndSend
  <2> QED BY <1>4, <2>1, <2>2
<1>6. delivered' \in Nat /\ failed' \in Nat
      BY <1>3, Counted
<1> QED BY <1>1, <1>2, <1>3, <1>5, <1>6, SendEnds

LEMMA ProcessReturnsInv ==
  ASSUME CoreInv, NEW w \in Workers, ProcessReturns(w)
  PROVE  CoreInv'
<1>1. /\ TypeOK /\ OnePlace /\ FanOutComplete /\ WorkerInv /\ ProgressInv /\ CloseInv
      BY DEF CoreInv
<1> DEFINE j == wjob[w]
<1>2. /\ j \in Jobs /\ j # None /\ wjob \in [Workers -> Jobs \cup {None}]
      /\ wjob' = [wjob EXCEPT ![w] = None] /\ done' = done \cup {j}
      BY <1>1 DEF ProcessReturns, TypeOK
<1>3. UNCHANGED <<queue, cancelled, closing, counting, wpc, wnext, sending, accepted, delivered,
                  failed, dropped, offered, early, refused, outcome, arrived>>
      BY DEF ProcessReturns
<1>4. wjob'[w] = None /\ \A v \in Workers \ {w} : wjob'[v] = wjob[v]
      BY <1>2
<1>5. TypeOK'
  <2>1. wjob' \in [Workers -> Jobs \cup {None}] /\ done' \subseteq Jobs
        BY <1>1, <1>2 DEF TypeOK
  <2> QED BY <1>1, <1>3, <2>1 DEF TypeOK
<1>6. OnePlace'
  <2>1. /\ Held(w) = {j} /\ Held(w)' = {}
        /\ \A v \in Workers \ {w} : Held(v)' = Held(v) /\ j \notin Held(v)
        BY <1>1, <1>2, <1>4 DEF Held, OnePlace
  <2>2. j \notin Range(queue)
        BY <1>1, <2>1 DEF OnePlace
  <2>3. (UNION {Held(v) : v \in Workers})' \cup {j} = UNION {Held(v) : v \in Workers}
        BY <2>1
  <2>4. \A v \in Workers : Held(v)' \cap (Range(queue') \cup done') = {}
        BY <1>1, <1>2, <1>3, <2>1 DEF OnePlace
  <2>5. Range(queue') \cap done' = {}
        BY <1>1, <1>2, <1>3, <2>2 DEF OnePlace
  <2>6. (offered \ refused)' = Range(queue') \cup done' \cup (UNION {Held(v) : v \in Workers})'
        BY <1>1, <1>2, <1>3, <2>3 DEF OnePlace
  <2>7. \A u, v \in Workers : wjob'[u] # None /\ wjob'[u] = wjob'[v] => u = v
        BY <1>1, <1>4 DEF OnePlace
  <2>8. \A i, k \in DOMAIN queue' : queue'[i] = queue'[k] => i = k
        BY <1>1, <1>3 DEF OnePlace
  <2> QED BY <2>4, <2>5, <2>6, <2>7, <2>8 DEF OnePlace
<1>7. FanOutComplete'
  <2>1. ASSUME NEW c \in Range(TargetsOf[j]) \cap Registered PROVE outcome[j][c] # "none"
    <3>1. TargetsOf[j] \in Seq(Connectors)
          BY <1>2, DispatcherAssumption
    <3>2. PICK i \in DOMAIN TargetsOf[j] : c = TargetsOf[j][i]
          BY DEF Range
    <3>3. i \in 1 .. wnext[w] - 1 /\ i <= Len(TargetsOf[j])
      <4>1. wnext[w] \in Nat \ {0} /\ wnext[w] > Len(TargetsOf[j])
            BY <1>1 DEF ProcessReturns, TypeOK
      <4>2. i \in Nat \ {0} /\ i <= Len(TargetsOf[j]) /\ Len(TargetsOf[j]) \in Nat
            BY <3>1, <3>2
      <4> QED BY ONLY <4>1, <4>2
    <3> QED BY <1>1, <1>2, <3>2, <3>3 DEF ProgressInv, PastTried, Tried
  <2> QED BY <1>1, <1>2, <1>3, <2>1 DEF FanOutComplete
<1>8. WorkerInv'
  <2>1. w \notin sending
        BY DEF ProcessReturns
  <2> QED BY <1>1, <1>3, <1>4, <2>1 DEF WorkerInv
<1>9. ProgressInv'
      BY <1>1, <1>3, <1>4 DEF ProgressInv, PastTried, Tried
<1>10. CloseInv'
      BY <1>1, <1>3, CloseKept
<1> QED BY <1>5, <1>6, <1>7, <1>8, <1>9, <1>10 DEF CoreInv

-----------------------------------------------------------------------------
(* Close.                                                                  *)
LEMMA CloseBeginInv ==
  ASSUME CoreInv, CloseBegin
  PROVE  CoreInv'
<1>1. /\ TypeOK /\ OnePlace /\ FanOutComplete /\ WorkerInv /\ ProgressInv /\ CloseInv
      BY DEF CoreInv
<1>2. /\ cancelled' = TRUE /\ closing' = "waiting"
      /\ UNCHANGED <<queue, counting, wpc, wjob, wnext, sending, accepted, delivered, failed,
                     dropped, offered, early, refused, done, outcome, arrived>>
      BY DEF CloseBegin, CancelFirst, workerVars
<1>3. TypeOK' /\ WorkerInv' /\ CloseInv'
      BY <1>1, <1>2 DEF TypeOK, WorkerInv, CloseInv
<1> QED BY <1>1, <1>2, <1>3, OnePlaceKept, FanOutKept, ProgressKept DEF CoreInv

LEMMA CloseEndInv ==
  ASSUME CoreInv, CloseEnd
  PROVE  CoreInv'
<1>1. /\ TypeOK /\ OnePlace /\ FanOutComplete /\ WorkerInv /\ ProgressInv /\ CloseInv
      BY DEF CoreInv
<1>2. UNCHANGED <<queue, cancelled, counting, wpc, wjob, wnext, sending, accepted, delivered,
                  failed, dropped, offered, early, refused, done, outcome, arrived>>
      BY DEF CloseEnd, workerVars
<1>3. closing' \in {"closed", "timed out"}
      /\ (closing' = "closed" => \A w \in Workers : wpc[w] = "exited")
      BY DEF CloseEnd
<1>4. TypeOK' /\ CloseInv'
      BY <1>1, <1>2, <1>3 DEF TypeOK, CloseInv
<1> QED BY <1>1, <1>2, <1>4, OnePlaceKept, FanOutKept, WorkerKept, ProgressKept DEF CoreInv

LEMMA StutterInv == CoreInv /\ UNCHANGED vars => CoreInv'
<1> SUFFICES ASSUME CoreInv, UNCHANGED vars PROVE CoreInv'
    OBVIOUS
<1>1. TypeOK'
      BY DEF CoreInv, TypeOK, vars
<1> QED BY <1>1, OnePlaceKept, FanOutKept, WorkerKept, ProgressKept, CloseKept DEF CoreInv, vars

LEMMA StepInv == CoreInv /\ [Next]_vars => CoreInv'
<1> SUFFICES ASSUME CoreInv, [Next]_vars PROVE CoreInv'
    OBVIOUS
<1>1. ASSUME NEW p \in Producers, Enqueue(p) PROVE CoreInv'
      BY <1>1, EnqueueSendInv, EnqueueCountInv, EnqueueRefuseInv DEF Enqueue
<1>2. ASSUME NEW w \in Workers, WorkerStep(w) PROVE CoreInv'
      BY <1>2, TakeJobInv, SeeCancelInv, WorkerExitInv, SkipTargetInv, BeginSendInv,
         SendCancelledInv, EndSendInv, ProcessReturnsInv DEF WorkerStep
<1>3. CASE CloseBegin
      BY <1>3, CloseBeginInv
<1>4. CASE CloseEnd
      BY <1>4, CloseEndInv
<1>5. CASE Terminated
      BY <1>5, StutterInv DEF Terminated
<1>6. CASE UNCHANGED vars
      BY <1>6, StutterInv
<1> QED BY <1>1, <1>2, <1>3, <1>4, <1>5, <1>6 DEF Next

-----------------------------------------------------------------------------
(* The counters.  What each step does to the sets they count.              *)
LEMMA EndedSame == ASSUME UNCHANGED outcome PROVE \A r : Ended(r)' = Ended(r)
BY DEF Ended

LEMMA UntouchedSame == ASSUME UNCHANGED outcome PROVE \A j : Untouched(j)' <=> Untouched(j)
BY DEF Untouched

LEMMA NotYetSentSame ==
  ASSUME NEW w \in Workers, wjob'[w] = wjob[w], wnext'[w] = wnext[w], UNCHANGED outcome
  PROVE  NotYetSent(w)' <=> NotYetSent(w)
BY DEF NotYetSent

Books == FiniteInv /\ (DistinctTargets => OnceInv /\ Accounting)

LEMMA OnceKept ==
  ASSUME OnceInv, UNCHANGED <<done, wjob, wnext, outcome>>
  PROVE  OnceInv'
<1>1. \A j \in Jobs \ done' : Untouched(j)' \/ \E w \in Workers : wjob'[w] = j
      BY UntouchedSame DEF OnceInv
<1>2. ASSUME NEW w \in Workers, wjob'[w] # None PROVE NotYetSent(w)'
  <2>1. wjob'[w] = wjob[w] /\ wnext'[w] = wnext[w]
        OBVIOUS
  <2>2. NotYetSent(w)
        BY <1>2, <2>1 DEF OnceInv
  <2> QED BY <2>1, <2>2, NotYetSentSame
<1> QED BY <1>1, <1>2 DEF OnceInv

LEMMA FiniteKept ==
  ASSUME FiniteInv, UNCHANGED <<counting, offered, outcome>>
  PROVE  FiniteInv'
BY EndedSame DEF FiniteInv

LEMMA AccountingKept ==
  ASSUME Accounting, UNCHANGED <<counting, offered, refused, outcome, accepted, delivered, failed>>
  PROVE  Accounting'
BY EndedSame DEF Accounting

LEMMA BooksKept ==
  ASSUME Books, UNCHANGED <<counting, offered, refused, outcome, accepted, delivered, failed,
                            done, wjob, wnext>>
  PROVE  Books'
BY OnceKept, FiniteKept, AccountingKept DEF Books

(* The counters' half of Accounting, when only Enqueue moves.              *)
LEMMA EnqueueBooks ==
  ASSUME CoreInv, Books, UNCHANGED <<outcome, delivered, failed, done, wjob, wnext>>,
         IsFiniteSet(counting'), IsFiniteSet(offered'),
         accepted + Cardinality(counting) = Cardinality(offered \ refused)
           => accepted' + Cardinality(counting') = Cardinality(offered' \ refused')
  PROVE  Books'
<1>1. FiniteInv'
      BY EndedSame DEF Books, FiniteInv
<1>2. ASSUME DistinctTargets PROVE OnceInv' /\ Accounting'
      BY <1>2, OnceKept, EndedSame DEF Books, Accounting
<1> QED BY <1>1, <1>2 DEF Books

LEMMA EnqueueSendBooks ==
  ASSUME CoreInv, Books, NEW p \in Producers, NEW j \in Jobs \ offered, EnqueueSend(p, j)
  PROVE  Books'
<1>1. /\ IsFiniteSet(counting) /\ IsFiniteSet(offered) /\ p \notin counting
      /\ counting' = counting \cup {p} /\ offered' = offered \cup {j}
      /\ UNCHANGED <<refused, accepted, outcome, delivered, failed, done, wjob, wnext>>
      BY DEF Books, FiniteInv, EnqueueSend, workerVars
<1>2. j \notin refused /\ accepted \in Nat
      BY DEF CoreInv, CloseInv, TypeOK
<1>3. IsFiniteSet(offered \ refused)
      BY <1>1, FS_Subset
<1>4. /\ IsFiniteSet(counting') /\ Cardinality(counting') = Cardinality(counting) + 1
      /\ Cardinality(counting) \in Nat
      BY <1>1, FS_AddElement, FS_CardinalityType
<1>5. IsFiniteSet(offered')
      BY <1>1, FS_AddElement
<1>6. offered' \ refused' = (offered \ refused) \cup {j}
      BY <1>1, <1>2
<1>7. /\ Cardinality(offered' \ refused') = Cardinality(offered \ refused) + 1
      /\ Cardinality(offered \ refused) \in Nat
      BY <1>3, <1>6, FS_AddElement, FS_CardinalityType
<1>8. accepted + Cardinality(counting) = Cardinality(offered \ refused)
        => accepted' + Cardinality(counting') = Cardinality(offered' \ refused')
      BY <1>1, <1>2, <1>4, <1>7
<1> QED BY <1>1, <1>4, <1>5, <1>8, EnqueueBooks

LEMMA EnqueueCountBooks ==
  ASSUME CoreInv, Books, NEW p \in Producers, EnqueueCount(p)
  PROVE  Books'
<1>1. /\ IsFiniteSet(counting) /\ IsFiniteSet(offered) /\ p \in counting
      /\ counting' = counting \ {p} /\ accepted' = accepted + 1
      /\ UNCHANGED <<refused, offered, outcome, delivered, failed, done, wjob, wnext>>
      BY DEF Books, FiniteInv, EnqueueCount, workerVars
<1>2. accepted \in Nat
      BY DEF CoreInv, TypeOK
<1>3. /\ IsFiniteSet(counting') /\ Cardinality(counting') = Cardinality(counting) - 1
      /\ Cardinality(counting) \in Nat
      BY <1>1, FS_RemoveElement, FS_CardinalityType
<1>4. accepted + Cardinality(counting) = Cardinality(offered \ refused)
        => accepted' + Cardinality(counting') = Cardinality(offered' \ refused')
      BY <1>1, <1>2, <1>3
<1> QED BY <1>1, <1>3, <1>4, EnqueueBooks

LEMMA EnqueueRefuseBooks ==
  ASSUME CoreInv, Books, NEW p \in Producers, NEW j \in Jobs \ offered, EnqueueRefuse(p, j)
  PROVE  Books'
<1>1. /\ IsFiniteSet(offered) /\ IsFiniteSet(counting) /\ offered' = offered \cup {j}
      /\ refused' = refused \cup {j}
      /\ UNCHANGED <<counting, accepted, outcome, delivered, failed, done, wjob, wnext>>
      BY DEF Books, FiniteInv, EnqueueRefuse, workerVars
<1>2. offered' \ refused' = offered \ refused
      BY <1>1
<1>3. IsFiniteSet(offered')
      BY <1>1, FS_AddElement
<1> QED BY <1>1, <1>2, <1>3, EnqueueBooks

(* A worker's steps around its Sends.                                      *)
LEMMA TakeJobBooks ==
  ASSUME CoreInv, Books, NEW w \in Workers, TakeJob(w)
  PROVE  Books'
<1> DEFINE h == Head(queue)
<1>1. /\ TypeOK /\ OnePlace
      /\ UNCHANGED <<counting, offered, refused, outcome, accepted, delivered, failed, done>>
      BY DEF CoreInv, TakeJob
<1>2. /\ h \in Jobs /\ h \in Range(queue)
  <2>1. queue \in Seq(Jobs) /\ queue # <<>>
        BY <1>1 DEF TakeJob, TypeOK
  <2> QED BY <2>1, TailQueue
<1>3. /\ wjob'[w] = h /\ wjob[w] = None
      /\ \A v \in Workers \ {w} : wjob'[v] = wjob[v] /\ wnext'[v] = wnext[v]
      BY <1>1 DEF TakeJob, Idle, TypeOK
<1> HIDE DEF h
<1>4. h # None /\ h \notin done /\ \A v \in Workers : wjob[v] # h
      BY <1>1, <1>2, DispatcherAssumption DEF OnePlace, Held
<1>5. ASSUME OnceInv PROVE OnceInv'
  <2>1. Untouched(h)
        BY <1>2, <1>4, <1>5 DEF OnceInv
  <2>2. ASSUME NEW j \in Jobs \ done PROVE Untouched(j)' \/ \E v \in Workers : wjob'[v] = j
    <3>1. CASE Untouched(j)
          BY <1>1, <3>1, UntouchedSame
    <3>2. ASSUME NEW v \in Workers, wjob[v] = j PROVE \E u \in Workers : wjob'[u] = j
      <4>1. v # w
            BY <1>3, <3>2, DispatcherAssumption
      <4> QED BY <1>3, <3>2, <4>1
    <3> QED BY <1>5, <3>1, <3>2 DEF OnceInv
  <2>3. NotYetSent(w)'
    <3>1. \A i \in DOMAIN TargetsOf[h] : TargetsOf[h][i] \in Connectors
          BY <1>2, DispatcherAssumption
    <3> QED BY <1>1, <1>3, <2>1, <3>1 DEF NotYetSent, Untouched
  <2>4. ASSUME NEW v \in Workers, wjob'[v] # None PROVE NotYetSent(v)'
    <3>1. CASE v = w
          BY <2>3, <3>1
    <3>2. CASE v # w
      <4>1. wjob'[v] = wjob[v] /\ wnext'[v] = wnext[v]
            BY <1>3, <3>2
      <4>2. NotYetSent(v)
            BY <1>5, <2>4, <4>1 DEF OnceInv
      <4> QED BY <1>1, <4>1, <4>2, NotYetSentSame
    <3> QED BY <3>1, <3>2
  <2> QED BY <1>1, <2>2, <2>4 DEF OnceInv
<1> QED BY <1>1, <1>5, FiniteKept, AccountingKept DEF Books

LEMMA ProcessReturnsBooks ==
  ASSUME CoreInv, Books, NEW w \in Workers, ProcessReturns(w)
  PROVE  Books'
<1>1. /\ TypeOK /\ done' = done \cup {wjob[w]}
      /\ UNCHANGED <<counting, offered, refused, outcome, accepted, delivered, failed, wnext>>
      BY DEF CoreInv, ProcessReturns
<1>2. wjob'[w] = None /\ \A v \in Workers \ {w} : wjob'[v] = wjob[v]
      BY <1>1 DEF ProcessReturns, TypeOK
<1>3. ASSUME OnceInv PROVE OnceInv'
  <2>1. ASSUME NEW j \in Jobs \ done' PROVE Untouched(j)' \/ \E v \in Workers : wjob'[v] = j
    <3>1. CASE Untouched(j)
          BY <1>1, <3>1, UntouchedSame
    <3>2. ASSUME NEW v \in Workers, wjob[v] = j PROVE \E u \in Workers : wjob'[u] = j
      <4>1. v # w
            BY <1>1, <2>1, <3>2
      <4> QED BY <1>2, <3>2, <4>1
    <3> QED BY <1>1, <1>3, <2>1, <3>1, <3>2 DEF OnceInv
  <2>2. ASSUME NEW v \in Workers, wjob'[v] # None PROVE NotYetSent(v)'
    <3>1. wjob'[v] = wjob[v] /\ wnext'[v] = wnext[v]
          BY <1>1, <1>2, <2>2
    <3>2. NotYetSent(v)
          BY <1>3, <2>2, <3>1 DEF OnceInv
    <3> QED BY <1>1, <3>1, <3>2, NotYetSentSame
  <2> QED BY <2>1, <2>2 DEF OnceInv
<1> QED BY <1>1, <1>3, FiniteKept, AccountingKept DEF Books

LEMMA SkipTargetBooks ==
  ASSUME CoreInv, Books, NEW w \in Workers, SkipTarget(w)
  PROVE  Books'
<1>1. /\ TypeOK /\ wnext' = NextTarget(w)
      /\ UNCHANGED <<counting, offered, refused, outcome, accepted, delivered, failed, done, wjob>>
      BY DEF CoreInv, SkipTarget
<1>2. \A v \in Workers : wnext[v] \in Nat /\ wnext'[v] \in Nat /\ wnext'[v] >= wnext[v]
  <2>1. /\ wnext \in [Workers -> Nat \ {0}] /\ wnext' = [wnext EXCEPT ![w] = wnext[w] + 1]
        BY <1>1 DEF TypeOK, NextTarget
  <2> QED BY <2>1
<1>3. ASSUME OnceInv PROVE OnceInv'
  <2>1. \A j \in Jobs \ done' : Untouched(j)' \/ \E v \in Workers : wjob'[v] = j
        BY <1>1, <1>3, UntouchedSame DEF OnceInv
  <2>2. ASSUME NEW v \in Workers, wjob[v] # None PROVE NotYetSent(v)'
    <3>1. NotYetSent(v)
          BY <1>3, <2>2 DEF OnceInv
    <3>2. \A i \in DOMAIN TargetsOf[wjob[v]] : i >= wnext'[v] => i >= wnext[v]
      <4>1. wjob[v] \in Jobs
            BY <1>1, <2>2 DEF TypeOK
      <4>2. DOMAIN TargetsOf[wjob[v]] \subseteq Nat
            BY <4>1, DispatcherAssumption
      <4> QED BY <1>2, <4>2
    <3> QED BY <1>1, <3>1, <3>2 DEF NotYetSent
  <2> QED BY <1>1, <2>1, <2>2 DEF OnceInv
<1> QED BY <1>1, <1>3, FiniteKept, AccountingKept DEF Books

(* A Send ends: one more Send of that kind, of a pair not counted before.  *)
LEMMA OutcomeEnded ==
  ASSUME TypeOK, NEW w \in Workers, wjob[w] \in Jobs, Target(w) \in Connectors,
         outcome[wjob[w]][Target(w)] = "none", NEW r \in {"ok", "failed"}, Outcome(w, r)
  PROVE  /\ <<wjob[w], Target(w)>> \notin Ended(r)
         /\ Ended(r)' = Ended(r) \cup {<<wjob[w], Target(w)>>}
         /\ \A s \in {"ok", "failed"} \ {r} : Ended(s)' = Ended(s)
<1> DEFINE j == wjob[w]
           c == Target(w)
<1>1. outcome \in [Jobs -> [Connectors -> {"none", "ok", "failed"}]]
      BY DEF TypeOK
<1>2. /\ outcome'[j][c] = r
      /\ \A k \in Jobs, d \in Connectors : <<k, d>> # <<j, c>> => outcome'[k][d] = outcome[k][d]
      BY <1>1 DEF Outcome
<1> HIDE DEF j, c
<1>3. /\ <<j, c>> \notin Ended(r)
      /\ Ended(r)' = Ended(r) \cup {<<j, c>>}
      /\ \A s \in {"ok", "failed"} \ {r} : Ended(s)' = Ended(s)
      BY <1>2 DEF Ended, j, c
<1> QED BY <1>3 DEF j, c

LEMMA OutcomeElsewhere ==
  ASSUME TypeOK, NEW w \in Workers, wjob[w] \in Jobs, Target(w) \in Connectors,
         NEW r \in {"ok", "failed"}, Outcome(w, r)
  PROVE  /\ \A s : Ended(s)' \subseteq Ended(s) \cup {<<wjob[w], Target(w)>>}
         /\ \A k \in Jobs \ {wjob[w]}, d \in Connectors : outcome'[k][d] = outcome[k][d]
         /\ \A d \in Connectors \ {Target(w)} : outcome'[wjob[w]][d] = outcome[wjob[w]][d]
<1> DEFINE j == wjob[w]
           c == Target(w)
<1>1. outcome \in [Jobs -> [Connectors -> {"none", "ok", "failed"}]]
      BY DEF TypeOK
<1>2. \A k \in Jobs, d \in Connectors : <<k, d>> # <<j, c>> => outcome'[k][d] = outcome[k][d]
      BY <1>1 DEF Outcome
<1> HIDE DEF j, c
<1>3. /\ \A s : Ended(s)' \subseteq Ended(s) \cup {<<j, c>>}
      /\ \A k \in Jobs \ {j}, d \in Connectors : outcome'[k][d] = outcome[k][d]
      /\ \A d \in Connectors \ {c} : outcome'[j][d] = outcome[j][d]
      BY <1>2 DEF Ended, j
<1> QED BY <1>3 DEF j, c

LEMMA SendOnce ==
  ASSUME CoreInv, OnceInv, DistinctTargets, NEW w \in Workers, NEW r \in {"ok", "failed"},
         wjob[w] # None, wnext[w] <= Len(TargetsOf[wjob[w]]),
         Outcome(w, r), wnext' = NextTarget(w), UNCHANGED <<done, wjob>>
  PROVE  outcome[wjob[w]][Target(w)] = "none" /\ OnceInv'
<1>1. /\ TypeOK /\ OnePlace
      /\ wjob[w] \in Jobs /\ TargetsOf[wjob[w]] \in Seq(Connectors)
      /\ wnext[w] \in DOMAIN TargetsOf[wjob[w]] /\ Target(w) \in Connectors
      BY AtTargetFacts DEF CoreInv
<1>2. wnext[w] \in Nat /\ wnext'[w] = wnext[w] + 1 /\ \A v \in Workers \ {w} : wnext'[v] = wnext[v]
      BY <1>1 DEF TypeOK, NextTarget
<1>3. /\ \A k \in Jobs \ {wjob[w]}, d \in Connectors : outcome'[k][d] = outcome[k][d]
      /\ \A d \in Connectors \ {Target(w)} : outcome'[wjob[w]][d] = outcome[wjob[w]][d]
      BY <1>1, OutcomeElsewhere
<1>4. outcome[wjob[w]][Target(w)] = "none"
      BY <1>1, <1>2 DEF OnceInv, NotYetSent, Target
<1>5. ASSUME NEW k \in Jobs \ done PROVE Untouched(k)' \/ \E v \in Workers : wjob'[v] = k
  <2>1. CASE k = wjob[w]
        BY <2>1
  <2>2. CASE k # wjob[w]
        BY <1>3, <2>2 DEF OnceInv, Untouched
  <2> QED BY <2>1, <2>2
<1>6. NotYetSent(w)'
  <2> SUFFICES ASSUME NEW i \in DOMAIN TargetsOf[wjob[w]], i >= wnext'[w]
               PROVE  outcome'[wjob[w]][TargetsOf[wjob[w]][i]] = "none"
      BY DEF NotYetSent
  <2>1. i \in Nat /\ TargetsOf[wjob[w]][i] \in Connectors
        BY <1>1
  <2>2. i # wnext[w] /\ i >= wnext[w]
        BY <1>2, <2>1
  <2>3. TargetsOf[wjob[w]][i] # Target(w)
        BY <1>1, <2>2 DEF DistinctTargets, IsInjective, Target
  <2>4. outcome[wjob[w]][TargetsOf[wjob[w]][i]] = "none"
        BY <2>2 DEF OnceInv, NotYetSent
  <2> QED BY <1>3, <2>1, <2>3, <2>4
<1>7. ASSUME NEW v \in Workers \ {w}, wjob[v] # None PROVE NotYetSent(v)'
  <2>1. wjob[v] \in Jobs /\ wjob[v] # wjob[w] /\ wnext'[v] = wnext[v]
        BY <1>1, <1>2, <1>7 DEF TypeOK, OnePlace
  <2>2. \A i \in DOMAIN TargetsOf[wjob[v]] : TargetsOf[wjob[v]][i] \in Connectors
        BY <2>1, DispatcherAssumption
  <2>3. NotYetSent(v)
        BY <1>7 DEF OnceInv
  <2> QED BY <1>3, <2>1, <2>2, <2>3 DEF NotYetSent
<1>8. OnceInv'
      BY <1>5, <1>6, <1>7 DEF OnceInv
<1> QED BY <1>4, <1>8

LEMMA SendBooks ==
  ASSUME CoreInv, Books, NEW w \in Workers, NEW ok \in BOOLEAN,
         wjob[w] # None, wnext[w] <= Len(TargetsOf[wjob[w]]),
         Outcome(w, IF ok THEN "ok" ELSE "failed"), SendCounted(w, ok), wnext' = NextTarget(w),
         UNCHANGED <<counting, offered, refused, accepted, done, wjob>>
  PROVE  Books'
<1> DEFINE r == IF ok THEN "ok" ELSE "failed"
           pair == <<wjob[w], Target(w)>>
<1>1. /\ TypeOK /\ wjob[w] \in Jobs /\ Target(w) \in Connectors
      /\ r \in {"ok", "failed"} /\ Outcome(w, r)
      BY AtTargetFacts DEF CoreInv
<1>2. /\ IsFiniteSet(counting) /\ IsFiniteSet(offered)
      /\ IsFiniteSet(Ended("ok")) /\ IsFiniteSet(Ended("failed"))
      BY DEF Books, FiniteInv
<1>3. \A s : Ended(s)' \subseteq Ended(s) \cup {pair}
      BY <1>1, OutcomeElsewhere
<1> HIDE DEF pair
<1>4. FiniteInv'
  <2>1. ASSUME NEW s \in {"ok", "failed"} PROVE IsFiniteSet(Ended(s)')
    <3>1. IsFiniteSet(Ended(s) \cup {pair})
          BY <1>2, FS_AddElement
    <3> QED BY <1>3, <3>1, FS_Subset
  <2> QED BY <1>2, <2>1 DEF FiniteInv
<1>5. ASSUME DistinctTargets PROVE OnceInv' /\ Accounting'
  <2>1. OnceInv /\ Accounting
        BY <1>5 DEF Books
  <2>2. outcome[wjob[w]][Target(w)] = "none" /\ OnceInv'
        BY <1>1, <1>5, <2>1, SendOnce
  <2>3. /\ pair \notin Ended(r) /\ Ended(r)' = Ended(r) \cup {pair}
        /\ \A s \in {"ok", "failed"} \ {r} : Ended(s)' = Ended(s)
        BY <1>1, <2>2, OutcomeEnded DEF pair
  <2>4. /\ delivered \in Nat /\ failed \in Nat
        /\ Cardinality(Ended("ok")) \in Nat /\ Cardinality(Ended("failed")) \in Nat
        BY <1>1, <1>2, FS_CardinalityType DEF TypeOK
  <2>5. delivered' = Cardinality(Ended("ok")') /\ failed' = Cardinality(Ended("failed")')
    <3>1. CASE ok
      <4>1. Cardinality(Ended("ok")') = Cardinality(Ended("ok")) + 1 /\ Ended("failed")' = Ended("failed")
            BY <1>2, <2>3, <3>1, FS_AddElement
      <4> QED BY <2>1, <3>1, <4>1 DEF SendCounted, Accounting
    <3>2. CASE ~ok
      <4>1. Cardinality(Ended("failed")') = Cardinality(Ended("failed")) + 1 /\ Ended("ok")' = Ended("ok")
            BY <1>2, <2>3, <3>2, FS_AddElement
      <4> QED BY <2>1, <3>2, <4>1 DEF SendCounted, Accounting
    <3> QED BY <3>1, <3>2
  <2> QED BY <2>1, <2>2, <2>5 DEF Accounting
<1> QED BY <1>4, <1>5 DEF Books

LEMMA SendCancelledBooks ==
  ASSUME CoreInv, Books, NEW w \in Workers, SendCancelled(w)
  PROVE  Books'
<1>1. /\ wjob[w] # None /\ wnext[w] <= Len(TargetsOf[wjob[w]])
      /\ Outcome(w, "failed") /\ SendCounted(w, FALSE) /\ wnext' = NextTarget(w)
      /\ UNCHANGED <<counting, offered, refused, accepted, done, wjob>>
      BY DEF SendCancelled, AtTarget, AfterFailure
<1> QED BY <1>1, SendBooks

LEMMA EndSendBooks ==
  ASSUME CoreInv, Books, NEW w \in Workers, EndSend(w)
  PROVE  Books'
<1>1. /\ wjob[w] # None /\ wnext[w] <= Len(TargetsOf[wjob[w]]) /\ wnext' = NextTarget(w)
      /\ UNCHANGED <<counting, offered, refused, accepted, done, wjob>>
      BY DEF EndSend, CoreInv, WorkerInv, AfterFailure
<1>2. PICK ok \in BOOLEAN : Outcome(w, IF ok THEN "ok" ELSE "failed") /\ SendCounted(w, ok)
      BY DEF EndSend
<1> QED BY <1>1, <1>2, SendBooks

LEMMA InitBooks == Init => Books
<1> SUFFICES ASSUME Init PROVE Books
    OBVIOUS
<1>1. /\ offered = {} /\ refused = {} /\ counting = {} /\ accepted = 0 /\ delivered = 0 /\ failed = 0
      /\ \A w \in Workers : wjob[w] = None
      /\ \A j \in Jobs, c \in Connectors : outcome[j][c] = "none"
      BY DEF Init
<1>2. Ended("ok") = {} /\ Ended("failed") = {} /\ offered \ refused = {}
      BY <1>1 DEF Ended
<1>3. IsFiniteSet({}) /\ Cardinality({}) = 0
      BY FS_EmptySet
<1>4. FiniteInv
      BY <1>1, <1>2, <1>3 DEF FiniteInv
<1>5. Accounting
      BY <1>1, <1>2, <1>3 DEF Accounting
<1>6. OnceInv
      BY <1>1 DEF OnceInv, Untouched
<1> QED BY <1>4, <1>5, <1>6 DEF Books

LEMMA StepBooks == CoreInv /\ Books /\ [Next]_vars => Books'
<1> SUFFICES ASSUME CoreInv, Books, [Next]_vars PROVE Books'
    OBVIOUS
<1>1. ASSUME NEW p \in Producers, Enqueue(p) PROVE Books'
      BY <1>1, EnqueueSendBooks, EnqueueCountBooks, EnqueueRefuseBooks DEF Enqueue
<1>2. ASSUME NEW w \in Workers, SeeCancel(w) \/ WorkerExit(w) \/ BeginSend(w) PROVE Books'
  <2>1. UNCHANGED <<counting, offered, refused, outcome, accepted, delivered, failed, done, wjob, wnext>>
        BY <1>2 DEF SeeCancel, WorkerExit, BeginSend
  <2> QED BY <2>1, BooksKept
<1>3. ASSUME NEW w \in Workers, WorkerStep(w) PROVE Books'
      BY <1>2, <1>3, TakeJobBooks, SkipTargetBooks, SendCancelledBooks, EndSendBooks,
         ProcessReturnsBooks DEF WorkerStep
<1>4. ASSUME CloseBegin \/ CloseEnd \/ UNCHANGED vars PROVE Books'
  <2>1. UNCHANGED <<counting, offered, refused, outcome, accepted, delivered, failed, done, wjob, wnext>>
        BY <1>4 DEF CloseBegin, CloseEnd, workerVars, vars
  <2> QED BY <2>1, BooksKept
<1> QED BY <1>1, <1>3, <1>4 DEF Next, Terminated

LEMMA CoreCorrect == Spec => []CoreInv
<1> QED BY InitInv, StepInv, PTL DEF Spec

(* The invariant of Dispatcher, for any instance.                          *)
THEOREM DispatcherCorrect == Spec => []DispatcherInv
<1>1. Spec => []Books
      BY CoreCorrect, InitBooks, StepBooks, PTL DEF Spec
<1>2. CoreInv /\ Books => DispatcherInv
      BY DEF Books, DispatcherInv
<1> QED BY <1>1, <1>2, CoreCorrect, PTL

(* The counters of Stats agree with what happened, at any moment between   *)
(* Enqueue's send and its count and whatever the workers do, if no target  *)
(* list names a connector twice.                                           *)
THEOREM CountersAgree == ASSUME DistinctTargets PROVE Spec => []Accounting
<1>1. DispatcherInv => Accounting
      BY DEF DispatcherInv
<1> QED BY <1>1, DispatcherCorrect, PTL

(* A job Enqueue has accepted is in the queue, with one worker, or done,   *)
(* and only once: the workers neither lose nor repeat it.                  *)
THEOREM JobsInOnePlace == Spec => []OnePlace
<1>1. CoreInv => OnePlace
      BY DEF CoreInv
<1> QED BY <1>1, CoreCorrect, PTL

(* When process returns, Send has ended for every registered target,       *)
(* whatever failed before it.                                              *)
THEOREM FanOutIsComplete == Spec => []FanOutComplete
<1>1. CoreInv => FanOutComplete
      BY DEF CoreInv
<1> QED BY <1>1, CoreCorrect, PTL

(* Close that returns nil leaves no job unprocessed that was queued before *)
(* it was called, if there is a worker at all.                             *)
THEOREM CloseDrains == ASSUME Workers # {} PROVE Spec => []CloseProcessesEarly
<1>1. CoreInv => CloseProcessesEarly
  <2> SUFFICES ASSUME CoreInv, closing = "closed" PROVE early \subseteq done
      BY DEF CloseProcessesEarly
  <2>1. \A w \in Workers : wpc[w] = "exited"
        BY DEF CoreInv, CloseInv
  <2>2. \A w \in Workers : Held(w) = {} /\ early \cap Range(queue) = {}
        BY <2>1 DEF CoreInv, WorkerInv, Held
  <2>3. early \subseteq Range(queue) \cup done \cup UNION {Held(w) : w \in Workers}
        BY DEF CoreInv, CloseInv, OnePlace
  <2> QED BY <2>2, <2>3
<1> QED BY <1>1, CoreCorrect, PTL
=============================================================================
