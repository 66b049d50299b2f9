------------------------ MODULE ConfigWatcherProofs ------------------------
(***************************************************************************)
(* Proofs about ConfigWatcher, for any number of saves and any length of   *)
(* the kernel's queue.                                                     *)
(***************************************************************************)
EXTENDS ConfigWatcher, TLAPS

-----------------------------------------------------------------------------
(* What queueing does to the queue: it stays a queue of events, and a      *)
(* change is in it unless the watcher is closed or an event was dropped.   *)
LEMMA QueueTypes ==
  ASSUME events \in Seq(Events), missed \in BOOLEAN, NEW new \in Seq(Events), Queue(new)
  PROVE  events' \in Seq(Events) /\ missed' \in BOOLEAN
<1> DEFINE all == events \o new
           kept == SubSeq(all, 1, MaxQueue)
<1>1. all \in Seq(Events) /\ Len(all) \in Nat
      OBVIOUS
<1>2. Len(all) > MaxQueue => Append(kept, "overflow") \in Seq(Events)
  <2>1. ASSUME Len(all) > MaxQueue PROVE kept \in Seq(Events)
        BY <1>1, <2>1, WatcherAssumption
  <2> QED BY <2>1 DEF Events
<1>3. \/ events' = events \/ events' = all
      \/ ~(Len(all) <= MaxQueue) /\ events' = Append(kept, "overflow")
      BY DEF Queue
<1>4. ~(Len(all) <= MaxQueue) => Len(all) > MaxQueue
      BY <1>1, WatcherAssumption
<1>5. missed' \in BOOLEAN
      BY DEF Queue
<1> QED BY <1>1, <1>2, <1>3, <1>4, <1>5

LEMMA QueueHolds ==
  ASSUME events \in Seq(Events), NEW new \in Seq(Events), Queue(new), ~Closed, ~missed',
         missed \in BOOLEAN
  PROVE  /\ ~missed /\ Len(events) \in Nat
         /\ Len(events') = Len(events) + Len(new)
         /\ \A i \in 1 .. Len(events) : events'[i] = events[i]
         /\ \A i \in 1 .. Len(new) : events'[Len(events) + i] = new[i]
<1>1. events' = events \o new /\ ~missed
      BY DEF Queue
<1> QED BY <1>1

(* A change of the file that is queued is on its way, and what was on its  *)
(* way still is.                                                           *)
LEMMA ChangeQueued ==
  ASSUME TypeOK, NEW new \in Seq(Events), Queue(new), ~Closed, ~missed',
         NEW i \in 1 .. Len(new), new[i] \in Changes
  PROVE  OnItsWay'
<1>1. events'[Len(events) + i] \in Changes /\ Len(events) + i \in 1 .. Len(events')
      BY QueueHolds DEF TypeOK
<1> QED BY <1>1 DEF OnItsWay

LEMMA StillOnItsWay ==
  ASSUME TypeOK, OnItsWay, NEW new \in Seq(Events), Queue(new), ~Closed, ~missed',
         UNCHANGED <<file, pc, cfg>>
  PROVE  OnItsWay'
<1>1. CASE \E i \in 1 .. Len(events) : events[i] \in Changes
  <2>1. PICK i \in 1 .. Len(events) : events[i] \in Changes
        BY <1>1
  <2>2. events'[i] \in Changes /\ i \in 1 .. Len(events')
        BY <2>1, QueueHolds DEF TypeOK
  <2> QED BY <2>2 DEF OnItsWay
<1> QED BY <1>1 DEF OnItsWay

-----------------------------------------------------------------------------
LEMMA InitWatcher == Init => WatcherInv
<1>1. ASSUME Init PROVE TypeOK
  <2>1. file \in Content
        BY <1>1, WatcherAssumption DEF Init, Content, Parts
  <2>2. events \in Seq(Events)
        BY <1>1 DEF Init
  <2> QED BY <1>1, <2>1, <2>2 DEF Init, TypeOK
<1> QED BY <1>1 DEF Init, WatcherInv

(* Every change that an editor makes of the file queues an event of it.    *)
LEMMA EditorKeeps == WatcherInv /\ Editor => WatcherInv'
<1> SUFFICES ASSUME WatcherInv, Editor PROVE WatcherInv'
    OBVIOUS
<1>t. TypeOK /\ UNCHANGED watcher
      BY DEF WatcherInv, Editor, Truncate, WriteSome, WriteRest, TakeAway, RenameOver
<1>1. PICK new \in Seq(Events) :
        /\ Queue(new) /\ \E i \in 1 .. Len(new) : new[i] \in Changes
  <2>1. \A e \in Changes : /\ <<e>> \in Seq(Events)
                           /\ Len(<<e>>) = 1 /\ <<e>>[1] \in Changes
        BY DEF Events
  <2>2. Renamed \in Seq(Events) /\ Len(Renamed) = 2 /\ Renamed[2] \in Changes
        BY DEF Renamed, Events, Changes
  <2>3. Queue(Renamed) \/ \E e \in Changes : Queue(<<e>>)
        BY DEF Editor, Truncate, WriteSome, WriteRest, TakeAway, RenameOver, Changes
  <2>4. CASE Queue(Renamed)
        BY <2>2, <2>4
  <2>5. ASSUME NEW e \in Changes, Queue(<<e>>)
        PROVE  \E new \in Seq(Events) :
                 Queue(new) /\ \E i \in 1 .. Len(new) : new[i] \in Changes
    <3>1. /\ <<e>> \in Seq(Events) /\ 1 \in 1 .. Len(<<e>>)
          /\ <<e>>[1] \in Changes
          BY <2>1
    <3>2. Queue(<<e>>) /\ \E i \in 1 .. Len(<<e>>) : <<e>>[i] \in Changes
          BY <2>5, <3>1
    <3> QED BY <3>1, <3>2
  <2> QED BY <2>3, <2>4, <2>5
<1>2. file' \in Content /\ save' \in {"nothing", "rest", "new"}
  <2>1. file \in Content /\ file.v \in Nat
        BY <1>t, WatcherAssumption DEF TypeOK, Content
  <2>2. \A k \in Parts : [file EXCEPT !.part = k] \in Content
        BY <2>1 DEF Content
  <2>3. file.v < MaxSaves => \A k \in Parts : [v |-> file.v + 1, part |-> k] \in Content
        BY <2>1, WatcherAssumption DEF Content
  <2>4. CASE Truncate
        BY <2>3, <2>4 DEF Truncate, Parts
  <2>5. CASE WriteSome
        BY <1>t, <2>2, <2>5 DEF WriteSome, Parts, TypeOK
  <2>6. CASE WriteRest
        BY <2>2, <2>6 DEF WriteRest, Parts
  <2>7. CASE TakeAway
        BY <1>t, <2>2, <2>7 DEF TakeAway, Parts, TypeOK
  <2>8. CASE RenameOver
        BY <2>3, <2>8 DEF RenameOver, NewContent, Parts
  <2> QED BY <2>4, <2>5, <2>6, <2>7, <2>8 DEF Editor
<1>3. TypeOK'
      BY <1>t, <1>1, <1>2, QueueTypes DEF TypeOK, watcher
<1>4. ASSUME ~missed', ~Ended' PROVE OnItsWay'
  <2>1. CASE Closed
        BY <1>t, <1>4, <2>1 DEF Closed, Ended, watcher, WatcherInv
  <2>2. CASE ~Closed
        BY <1>t, <1>1, <1>4, <2>2, ChangeQueued
  <2> QED BY <2>1, <2>2
<1>5. (pc = "done" => Ended)'
      BY <1>t DEF WatcherInv, watcher, Ended
<1> QED BY <1>3, <1>4, <1>5 DEF WatcherInv

LEMMA UnrelatedKeeps == WatcherInv /\ Unrelated => WatcherInv'
<1> SUFFICES ASSUME WatcherInv, Unrelated PROVE WatcherInv'
    OBVIOUS
<1>1. PICK e \in {"sibling", "chmod"} : Queue(<<e>>)
      BY DEF Unrelated
<1>2. TypeOK /\ <<e>> \in Seq(Events) /\ UNCHANGED <<file, save, watcher>>
      BY DEF WatcherInv, Unrelated, Events
<1>3. TypeOK'
      BY <1>1, <1>2, QueueTypes DEF TypeOK, watcher
<1>4. ASSUME ~missed', ~Ended', Parses(file)' 
      PROVE  (applied = file /\ pc # "call")' \/ OnItsWay'
  <2>1. ~Ended /\ ~Closed /\ UNCHANGED <<file, pc, cfg, applied>>
        BY <1>2, <1>4 DEF WatcherInv, Ended, Closed, watcher
  <2>2. ~missed
        BY <1>1, <1>2, <1>4, <2>1, QueueHolds DEF TypeOK
  <2>3. (applied = file /\ pc # "call") \/ OnItsWay
        BY <1>4, <2>1, <2>2 DEF WatcherInv, Parses
  <2> QED BY <1>1, <1>2, <1>4, <2>1, <2>3, StillOnItsWay
<1>5. (pc = "done" => Ended)'
      BY <1>2 DEF WatcherInv, watcher, Ended
<1> QED BY <1>3, <1>4, <1>5 DEF WatcherInv

(* The loop of Start: the change it takes out of the queue it reads, and   *)
(* what it has read it hands over.                                         *)
LEMMA ReceiveKeeps == WatcherInv /\ Receive => WatcherInv'
<1> SUFFICES ASSUME WatcherInv, Receive PROVE WatcherInv'
    OBVIOUS
<1>1. /\ TypeOK /\ events \in Seq(Events) /\ events # <<>> /\ pc = "select"
      /\ events' = Tail(events) /\ pc' \in {"select", "read"}
      /\ UNCHANGED <<file, save, cfg, applied, cancelled, closing, missed>>
      BY DEF WatcherInv, TypeOK, Receive, environment
<1>2. TypeOK'
  <2>1. events' \in Seq(Events)
        BY <1>1
  <2> QED BY <1>1, <2>1 DEF TypeOK
<1>3. ASSUME NEW i \in 1 .. Len(events), events[i] \in Changes PROVE OnItsWay'
  <2>1. CASE i = 1
    <3>1. Reloads(Head(events))
          BY <1>1, <1>3, <2>1 DEF Reloads
    <3> QED BY <3>1 DEF Receive, OnItsWay
  <2>2. CASE i # 1
    <3>1. i - 1 \in 1 .. Len(events') /\ events'[i - 1] = events[i]
          BY <1>1, <1>3, <2>2
    <3> QED BY <1>3, <3>1 DEF OnItsWay
  <2> QED BY <2>1, <2>2
<1>4. OnItsWay => OnItsWay'
      BY <1>1, <1>3 DEF OnItsWay
<1> QED BY <1>1, <1>2, <1>4 DEF WatcherInv, Ended, Parses

LEMMA LoadKeeps == WatcherInv /\ Load => WatcherInv'
<1> SUFFICES ASSUME WatcherInv, Load PROVE WatcherInv'
    OBVIOUS
<1>1. /\ TypeOK /\ UNCHANGED <<file, save, events, applied, cancelled, closing>>
      /\ pc' \in {"select", "call"}
      BY DEF WatcherInv, Load, environment, AfterError
<1>2. cfg' \in Content /\ missed' \in BOOLEAN
      BY <1>1 DEF Load, TypeOK
<1>3. TypeOK'
      BY <1>1, <1>2 DEF TypeOK
<1>4. Parses(file)' /\ ~missed' => pc' = "call" /\ cfg' = file'
      BY <1>1 DEF Load, Parses
<1> QED BY <1>1, <1>3, <1>4 DEF WatcherInv, OnItsWay

LEMMA OnChangeKeeps == WatcherInv /\ OnChange => WatcherInv'
<1> SUFFICES ASSUME WatcherInv, OnChange PROVE WatcherInv'
    OBVIOUS
<1>1. /\ TypeOK /\ pc = "call" /\ pc' = "select" /\ applied' = cfg
      /\ UNCHANGED <<file, save, events, cfg, cancelled, closing, missed>>
      BY DEF WatcherInv, OnChange, environment
<1>2. TypeOK'
      BY <1>1 DEF TypeOK
<1>3. CASE cfg = file
      BY <1>1, <1>2, <1>3 DEF WatcherInv, Ended
<1>4. CASE cfg # file
      BY <1>1, <1>2, <1>4 DEF WatcherInv, Ended, Parses, OnItsWay
<1> QED BY <1>3, <1>4

(* The remaining steps leave file and queue, or end the watcher.           *)
LEMMA OthersKeep ==
  WatcherInv /\ (Start \/ Return \/ Cancel \/ Close \/ UNCHANGED vars) => WatcherInv'
<1>1. ASSUME WatcherInv, Start PROVE WatcherInv'
      BY <1>1 DEF Start, environment, WatcherInv, TypeOK, OnItsWay, Parses, Ended
<1>2. ASSUME WatcherInv, Return PROVE WatcherInv'
  <2>1. events' \in Seq(Events)
        BY <1>2 DEF Return
  <2> QED BY <1>2, <2>1 DEF Return, MayReturn, environment, WatcherInv, TypeOK, Ended
<1>3. ASSUME WatcherInv, Cancel \/ Close PROVE WatcherInv'
      BY <1>3 DEF Cancel, Close, environment, WatcherInv, TypeOK, Ended
<1>4. ASSUME WatcherInv, UNCHANGED vars PROVE WatcherInv'
      BY <1>4 DEF vars, WatcherInv, TypeOK, OnItsWay, Parses, Ended
<1> QED BY <1>1, <1>2, <1>3, <1>4

-----------------------------------------------------------------------------
(* WatcherInv holds throughout, however the file is saved.                 *)
THEOREM WatcherCorrect == Spec => []WatcherInv
<1>1. WatcherInv /\ [Next]_vars => WatcherInv'
      BY EditorKeeps, UnrelatedKeeps, ReceiveKeeps, LoadKeeps, OnChangeKeeps, OthersKeep
         DEF Next, Loop
<1> QED BY InitWatcher, <1>1, PTL DEF Spec

(* config.go:53-60: a watcher with nothing left to receive has applied the *)
(* file as it is, if it parses, no event was dropped and no read failed.   *)
THEOREM WatcherCatchesUp == Spec => []CaughtUp
<1>1. WatcherInv => CaughtUp
      BY DEF WatcherInv, CaughtUp, OnItsWay
<1> QED BY WatcherCorrect, <1>1, PTL
=============================================================================
