--------------------------- MODULE WalBufferProofs ---------------------------
(***************************************************************************)
(* Proofs about WalBuffer for every value of its constants, in three       *)
(* parts: types and the lock; what is lost, damaged or handed over twice;  *)
(* and that the buffer implements SignalLog.                               *)
(***************************************************************************)
EXTENDS WalBuffer, SequenceTheorems, FiniteSetTheorems, TLAPS

(* What typing needs besides the types: a Write past its lock has a batch  *)
(* and an open segment, a drainer at work has a segment.                   *)
TypeInv == TypeOK /\ LockInv /\ CursorInv

LEMMA NamesType == \A n \in Names : n[1] \in 0 .. MaxTime /\ n[2] \in 1 .. MaxSeq
BY DEF Names

LEMMA NoneFresh == None \notin Names /\ None \notin Writers
BY BufferAssumption

LEMMA InitTypeInv == Init => TypeInv
<1> SUFFICES ASSUME Init PROVE TypeInv
    OBVIOUS
<1>1. TypeOK
  <2>1. segSeq \in 0 .. MaxSeq /\ now \in 0 .. MaxTime
        BY BufferAssumption DEF Init
  <2>2. segs \in [Names -> Seq(Frame)]
        BY DEF Init
  <2>3. dpc \in [Drainers -> {"off", "wait", "active", "next", "stream", "mark", "remove", "done"}]
        BY DEF Init, Drainers
  <2>4. victim \in [seg : Names \cup {None}, live : Nat]
        BY DEF Init
  <2>5. written \in Seq(Batches)
        BY DEF Init
  <2>6. /\ closed \in BOOLEAN /\ segMu \in Writers \cup {None}
        /\ seg \in Names \cup {None} /\ segPath \in Names \cup {None}
        /\ linked \in SUBSET Names
        BY DEF Init
  <2>7. /\ wpc \in [Writers -> {"idle", "lock", "append", "rotate", "enforce", "evict"}]
        /\ wbatch \in [Writers -> Batches \cup {None}]
        BY DEF Init
  <2>8. /\ todo \in [Drainers -> SUBSET Names]
        /\ active \in [Drainers -> Names \cup {None}] /\ cur \in [Drainers -> Names \cup {None}]
        /\ pos \in [Drainers -> Nat \ {0}]
        BY DEF Init
  <2>9. sent \in [Drainers -> SUBSET Batches]
        BY DEF Init
  <2>10. /\ countBatches \in Nat /\ countDropped \in Nat /\ cancelled \in SUBSET Drainers
         /\ tried \in SUBSET Batches /\ acked \in SUBSET Batches
         /\ delivered \in SUBSET Batches /\ evicted \in SUBSET Batches
        BY DEF Init
  <2> QED BY ONLY <2>1, <2>2, <2>3, <2>4, <2>5, <2>6, <2>7, <2>8, <2>9, <2>10 DEF TypeOK
<1>2. LockInv
      BY NoneFresh DEF Init, LockInv, InWrite
<1>3. CursorInv
      BY DEF Init, CursorInv, Drainers
<1> QED BY <1>1, <1>2, <1>3 DEF TypeInv

LEMMA NextNameType == TypeOK /\ segSeq < MaxSeq => NextName \in Names /\ segSeq + 1 \in 0 .. MaxSeq
BY BufferAssumption DEF TypeOK, NextName, Names

LEMMA OpenNewType ==
  TypeOK /\ OpenNew => /\ seg' \in Names /\ segPath' = seg' /\ segSeq' \in 0 .. MaxSeq
                       /\ segs' \in [Names -> Seq(Frame)] /\ linked' \in SUBSET Names
BY NextNameType DEF OpenNew, TypeOK

LEMMA OpenFailsType ==
  TypeOK /\ OpenFails => /\ seg' = None /\ segPath' = segPath /\ segSeq' \in 0 .. MaxSeq
                         /\ segs' = segs /\ linked' = linked
BY NextNameType DEF OpenFails, TypeOK

(* A record appended to the open segment: the others keep their places.    *)
LEMMA AppendedType ==
  ASSUME TypeOK, seg \in Names, NEW w \in Writers, wbatch[w] \in Batches,
         NEW st \in {"live", "torn"}
  PROVE  /\ Appended(w, st) \in [Names -> Seq(Frame)]
         /\ \A m \in Names \ {seg} : Appended(w, st)[m] = segs[m]
         /\ Len(Appended(w, st)[seg]) = Len(segs[seg]) + 1
         /\ \A i \in DOMAIN segs[seg] : Appended(w, st)[seg][i] = segs[seg][i]
         /\ Appended(w, st)[seg][Len(segs[seg]) + 1] = [batch |-> wbatch[w], st |-> st]
<1> DEFINE r == [batch |-> wbatch[w], st |-> st]
           s == segs[seg]
           t == Append(s, r)
<1>1. r \in Frame /\ s \in Seq(Frame) /\ segs \in [Names -> Seq(Frame)]
      BY DEF TypeOK, Frame
<1> HIDE DEF r
<1>2. /\ t \in Seq(Frame) /\ Len(t) = Len(s) + 1 /\ t[Len(s) + 1] = r
      /\ \A i \in DOMAIN s : t[i] = s[i]
      BY <1>1
<1>3. Appended(w, st) = [segs EXCEPT ![seg] = t]
      BY DEF Appended, r
<1> QED BY <1>1, <1>2, <1>3 DEF r

LEMMA SeqOfLength ==
  ASSUME NEW S, NEW n \in Nat, NEW s \in [1 .. n -> S]
  PROVE  s \in Seq(S) /\ DOMAIN s = 1 .. n /\ Len(s) = n
BY SeqDef

LEMMA SyncedType ==
  ASSUME TypeOK, NEW n \in Names
  PROVE  /\ Synced(n) \in [Names -> Seq(Frame)]
         /\ \A m \in Names : DOMAIN Synced(n)[m] = DOMAIN segs[m] /\ Len(Synced(n)[m]) = Len(segs[m])
         /\ \A m \in Names : \A i \in DOMAIN segs[m] :
              Synced(n)[m][i] = IF m = n /\ segs[m][i].st = "marked"
                                THEN [segs[m][i] EXCEPT !.st = "consumed"] ELSE segs[m][i]
<1> DEFINE s == segs[n]
           t == [i \in DOMAIN s |->
                   IF s[i].st = "marked" THEN [s[i] EXCEPT !.st = "consumed"] ELSE s[i]]
<1>1. s \in Seq(Frame) /\ segs \in [Names -> Seq(Frame)]
      BY DEF TypeOK
<1>2. DOMAIN s = 1 .. Len(s) /\ Len(s) \in Nat /\ \A i \in DOMAIN s : s[i] \in Frame
      BY <1>1
<1>3. \A i \in DOMAIN s : t[i] \in Frame
      BY <1>2 DEF Frame
<1>4. t \in Seq(Frame) /\ DOMAIN t = DOMAIN s /\ Len(t) = Len(s)
  <2>1. t \in [1 .. Len(s) -> Frame]
        BY <1>2, <1>3
  <2> QED BY <2>1, <1>2, SeqOfLength
<1>5. Synced(n) = [segs EXCEPT ![n] = t]
      BY DEF Synced
<1> HIDE DEF t
<1>6. Synced(n) \in [Names -> Seq(Frame)] /\ Synced(n)[n] = t
       /\ \A m \in Names \ {n} : Synced(n)[m] = segs[m]
      BY <1>1, <1>4, <1>5
<1>7. \A i \in DOMAIN s : t[i] = IF s[i].st = "marked" THEN [s[i] EXCEPT !.st = "consumed"] ELSE s[i]
      BY DEF t
<1> QED BY <1>4, <1>6, <1>7

(* What a power loss makes of a segment: every record keeps its place and  *)
(* its batch, and only marks change.                                       *)
LEMMA PowerLossType ==
  ASSUME TypeOK, NEW R, NEW n \in Names
  PROVE  /\ AfterPowerLoss(R, n) \in Seq(Frame)
         /\ Len(AfterPowerLoss(R, n)) = Len(segs[n])
         /\ \A i \in DOMAIN segs[n] :
              /\ AfterPowerLoss(R, n)[i].batch = segs[n][i].batch
              /\ AfterPowerLoss(R, n)[i].st =
                   IF segs[n][i].st = "marked"
                   THEN IF <<n, i>> \in R THEN "live" ELSE "consumed"
                   ELSE segs[n][i].st
<1> DEFINE s == segs[n]
           t == AfterPowerLoss(R, n)
<1>1. DOMAIN s = 1 .. Len(s) /\ Len(s) \in Nat /\ \A i \in DOMAIN s : s[i] \in Frame
      BY DEF TypeOK
<1>2. DOMAIN t = DOMAIN s
      BY DEF AfterPowerLoss
<1>3. \A i \in DOMAIN s :
        t[i] = IF s[i].st = "marked"
               THEN [s[i] EXCEPT !.st = IF <<n, i>> \in R THEN "live" ELSE "consumed"]
               ELSE s[i]
      BY DEF AfterPowerLoss
<1>4. \A i \in DOMAIN s :
        /\ t[i] \in Frame
        /\ t[i].batch = s[i].batch
        /\ t[i].st = IF s[i].st = "marked"
                     THEN IF <<n, i>> \in R THEN "live" ELSE "consumed"
                     ELSE s[i].st
      BY <1>1, <1>3 DEF Frame
<1>5. t \in [1 .. Len(s) -> Frame]
  <2>1. t = [i \in DOMAIN s |-> t[i]]
        BY DEF AfterPowerLoss
  <2> QED BY <1>1, <1>4, <2>1
<1>6. t \in Seq(Frame) /\ Len(t) = Len(s)
      BY <1>1, <1>5, SeqOfLength
<1> QED BY <1>4, <1>6

(* One status byte set.                                                    *)
LEMMA MarkedType ==
  ASSUME TypeOK, NEW n \in Names, NEW p
  PROVE  /\ Marked(n, p) \in [Names -> Seq(Frame)]
         /\ \A m \in Names : /\ DOMAIN Marked(n, p)[m] = DOMAIN segs[m]
                             /\ Len(Marked(n, p)[m]) = Len(segs[m])
         /\ \A m \in Names : \A i \in DOMAIN segs[m] :
              /\ Marked(n, p)[m][i].batch = segs[m][i].batch
              /\ Marked(n, p)[m][i].st = IF m = n /\ i = p /\ segs[m][i].st = "live"
                                        THEN "marked" ELSE segs[m][i].st
<1> DEFINE s == segs[n]
           t == [s EXCEPT ![p].st = IF @ = "live" THEN "marked" ELSE @]
<1>1. segs \in [Names -> Seq(Frame)] /\ DOMAIN s = 1 .. Len(s) /\ Len(s) \in Nat
      /\ \A m \in Names : \A i \in DOMAIN segs[m] : segs[m][i] \in Frame
      BY DEF TypeOK
<1>2. \A i \in DOMAIN s : /\ t[i] \in Frame
                          /\ t[i].batch = s[i].batch
                          /\ t[i].st = IF i = p /\ s[i].st = "live" THEN "marked" ELSE s[i].st
      BY <1>1 DEF Frame
<1>3. t \in [1 .. Len(s) -> Frame]
      BY <1>1, <1>2
<1>4. t \in Seq(Frame) /\ Len(t) = Len(s) /\ DOMAIN t = DOMAIN s
      BY <1>1, <1>3, SeqOfLength
<1>5. Marked(n, p) = [segs EXCEPT ![n] = t]
      BY DEF Marked
<1> HIDE DEF t
<1>6. Marked(n, p) \in [Names -> Seq(Frame)] /\ Marked(n, p)[n] = t
       /\ \A m \in Names \ {n} : Marked(n, p)[m] = segs[m]
      BY <1>1, <1>4, <1>5
<1> QED BY <1>2, <1>4, <1>6

(* Write's steps.                                                          *)
LEMMA WriteBeginType ==
  ASSUME TypeInv, NEW w \in Writers, NEW b \in Batches, WriteBegin(w, b)
  PROVE  TypeInv'
<1> USE DEF WriteBegin, procVars, drainVars
<1>1. TypeOK'
      BY DEF TypeInv, TypeOK
<1>2. LockInv'
      BY DEF TypeInv, TypeOK, LockInv, InWrite
<1>3. CursorInv'
      BY DEF TypeInv, CursorInv
<1> QED BY <1>1, <1>2, <1>3 DEF TypeInv

LEMMA WriteLockType ==
  ASSUME TypeInv, NEW w \in Writers, WriteLock(w)
  PROVE  TypeInv'
<1> USE DEF WriteLock, drainVars, history
<1>1. TypeOK'
      BY OpenNewType, OpenFailsType DEF TypeInv, TypeOK
<1>2. LockInv'
      BY NoneFresh, OpenNewType, OpenFailsType DEF TypeInv, TypeOK, LockInv, InWrite
<1>3. CursorInv'
      BY DEF TypeInv, CursorInv
<1> QED BY <1>1, <1>2, <1>3 DEF TypeInv

LEMMA AppendRecordType ==
  ASSUME TypeInv, NEW w \in Writers, AppendRecord(w)
  PROVE  TypeInv'
<1> USE DEF AppendRecord, procVars, drainVars
<1>1. seg \in Names /\ wbatch[w] \in Batches
      BY DEF TypeInv, TypeOK, LockInv
<1>2. segs' \in [Names -> Seq(Frame)]
      BY <1>1, AppendedType DEF TypeInv
<1>3. TypeOK'
      BY <1>1, <1>2 DEF TypeInv, TypeOK
<1>4. LockInv'
      BY DEF TypeInv, TypeOK, LockInv, InWrite
<1>5. CursorInv'
      BY DEF TypeInv, CursorInv
<1> QED BY <1>3, <1>4, <1>5 DEF TypeInv

LEMMA AppendFailsType ==
  ASSUME TypeInv, NEW w \in Writers, AppendFails(w)
  PROVE  TypeInv'
<1> USE DEF AppendFails, drainVars
<1>1. seg \in Names /\ wbatch[w] \in Batches
      BY DEF TypeInv, TypeOK, LockInv
<1>2. TypeOK'
  <2>1. segs' = segs \/ \E st \in {"live", "torn"} : segs' = Appended(w, st)
        OBVIOUS
  <2>2. segs' \in [Names -> Seq(Frame)]
    <3>1. segs \in [Names -> Seq(Frame)]
          BY DEF TypeInv, TypeOK
    <3>2. \A st \in {"live", "torn"} : Appended(w, st) \in [Names -> Seq(Frame)]
          BY <1>1, AppendedType DEF TypeInv
    <3> QED BY ONLY <2>1, <3>1, <3>2
  <2>3. written' \in Seq(Batches)
    <3>1. written' = written \/ written' = Append(written, wbatch[w])
          OBVIOUS
    <3>2. written \in Seq(Batches)
          BY DEF TypeInv, TypeOK
    <3> QED BY ONLY <1>1, <3>1, <3>2
  <2> QED BY <2>2, <2>3 DEF TypeInv, TypeOK
<1>3. LockInv'
      BY NoneFresh DEF TypeInv, TypeOK, LockInv, InWrite
<1>4. CursorInv'
      BY DEF TypeInv, CursorInv
<1> QED BY <1>2, <1>3, <1>4 DEF TypeInv

LEMMA RotateType ==
  ASSUME TypeInv, NEW w \in Writers, Rotate(w)
  PROVE  TypeInv'
<1> USE DEF Rotate, drainVars, history
<1>1. TypeOK'
      BY OpenNewType, OpenFailsType DEF TypeInv, TypeOK
<1>2. LockInv'
      BY OpenNewType, OpenFailsType DEF TypeInv, TypeOK, LockInv, InWrite
<1>3. CursorInv'
      BY DEF TypeInv, CursorInv
<1> QED BY <1>1, <1>2, <1>3 DEF TypeInv

LEMMA WriteReturnsType ==
  ASSUME TypeInv, NEW w \in Writers, WriteReturns(w)
  PROVE  TypeInv'
<1> USE DEF WriteReturns, drainVars
<1>1. TypeOK'
      BY DEF TypeInv, TypeOK, LockInv
<1>2. LockInv'
      BY NoneFresh DEF TypeInv, TypeOK, LockInv, InWrite
<1>3. CursorInv'
      BY DEF TypeInv, CursorInv
<1> QED BY <1>1, <1>2, <1>3 DEF TypeInv

LEMMA DropCountType == TypeOK => \A n \in Names : DropCount(n) \in Nat
<1> SUFFICES ASSUME TypeOK, NEW n \in Names PROVE DropCount(n) \in Nat
    OBVIOUS
<1>1. DOMAIN segs[n] = 1 .. Len(segs[n]) /\ Len(segs[n]) \in Nat
      BY DEF TypeOK
<1>2. IsFiniteSet(DOMAIN segs[n])
      BY <1>1, FS_Interval
<1>3. LiveRecords(n) \subseteq DOMAIN segs[n]
      BY DEF LiveRecords
<1> QED BY <1>2, <1>3, FS_Subset, FS_CardinalityType DEF DropCount

LEMMA CountVictimType ==
  ASSUME TypeInv, NEW w \in Writers, CountVictim(w)
  PROVE  TypeInv'
<1> USE DEF CountVictim, procVars, drainVars, history
<1>1. PICK n \in Evictable : \E k \in Counted(n) : victim' = [seg |-> n, live |-> k]
      OBVIOUS
<1>2. n \in Names /\ n # segPath /\ Counted(n) \subseteq Nat
      BY DropCountType DEF Evictable, Counted, TypeInv, TypeOK
<1>3. TypeOK'
      BY <1>1, <1>2 DEF TypeInv, TypeOK
<1>4. LockInv'
      BY <1>1, <1>2 DEF TypeInv, TypeOK, LockInv, InWrite
<1>5. CursorInv'
      BY DEF TypeInv, CursorInv
<1> QED BY <1>3, <1>4, <1>5 DEF TypeInv

LEMMA LostType ==
  ASSUME TypeOK, NEW n \in Names PROVE Lost(n) \subseteq Batches
<1>1. \A i \in DOMAIN segs[n] : segs[n][i] \in Frame
      BY DEF TypeOK
<1> QED BY <1>1 DEF Lost, Frame

LEMMA EvictVictimType ==
  ASSUME TypeInv, NEW w \in Writers, EvictVictim(w)
  PROVE  TypeInv'
<1> USE DEF EvictVictim, procVars, drainVars
<1>1. victim.seg \in Names /\ Lost(victim.seg) \subseteq Batches
      BY LostType DEF TypeInv, LockInv
<1>2. TypeOK'
      BY <1>1 DEF TypeInv, TypeOK
<1>3. LockInv'
      BY DEF TypeInv, TypeOK, LockInv, InWrite
<1>4. CursorInv'
      BY DEF TypeInv, CursorInv
<1> QED BY <1>2, <1>3, <1>4 DEF TypeInv

(* The drainers' steps leave the Writes alone.                             *)
LEMMA DrainKeepsLock == LockInv /\ UNCHANGED DrainStutter => LockInv'
BY DEF LockInv, InWrite, DrainStutter, procVars, writeVars

LEMMA DrainStepType ==
  ASSUME TypeInv, NEW d \in Drainers, DrainStep(d)
  PROVE  TypeInv'
<1> USE DEF DrainStutter, procVars, writeVars, Goto
<1>1. ASSUME ListSegments(d) PROVE TypeInv'
      BY <1>1, DrainKeepsLock DEF ListSegments, TypeInv, TypeOK, CursorInv
<1>2. ASSUME ReadActive(d) PROVE TypeInv'
      BY <1>2, DrainKeepsLock DEF ReadActive, TypeInv, TypeOK, CursorInv
<1>3. ASSUME NextSegment(d) PROVE TypeInv'
  <2>1. TypeOK'
    <3>1. TypeOK
          BY DEF TypeInv
    <3>2. PICK n \in todo[d] :
            /\ todo' = [todo EXCEPT ![d] = @ \ {n}]
            /\ \/ cur' = [cur EXCEPT ![d] = n] /\ dpc' = [dpc EXCEPT ![d] = "stream"]
               \/ UNCHANGED <<cur, dpc>>
          BY <1>3 DEF NextSegment
    <3>3. todo' \in [Drainers -> SUBSET Names]
          BY <3>1, <3>2 DEF TypeOK
    <3>4. cur' \in [Drainers -> Names \cup {None}]
      <4>1. n \in Names /\ cur \in [Drainers -> Names \cup {None}]
            BY <3>1 DEF TypeOK
      <4> QED BY ONLY <3>2, <4>1
    <3>5. dpc' \in [Drainers -> {"off", "wait", "active", "next", "stream", "mark", "remove", "done"}]
          BY <3>1, <3>2 DEF TypeOK
    <3>6. pos' \in [Drainers -> Nat \ {0}]
          BY <1>3, <3>1 DEF NextSegment, TypeOK
    <3> QED BY <1>3, <3>1, <3>3, <3>4, <3>5, <3>6 DEF NextSegment, TypeOK
  <2>2. CursorInv'
        BY <1>3 DEF NextSegment, TypeInv, TypeOK, CursorInv
  <2> QED BY <1>3, <2>1, <2>2, DrainKeepsLock DEF NextSegment, TypeInv
<1>4. ASSUME Deliver(d) PROVE TypeInv'
  <2>1. PICK i \in Ahead(d) :
          /\ delivered' = delivered \cup {segs[cur[d]][i].batch}
          /\ sent' = [sent EXCEPT ![d] = @ \cup {segs[cur[d]][i].batch}]
          /\ pos' = [pos EXCEPT ![d] = i]
        BY <1>4 DEF Deliver
  <2>2. cur[d] \in Names /\ i \in DOMAIN segs[cur[d]]
        BY <1>4 DEF Deliver, Ahead, TypeInv, CursorInv
  <2>3. segs[cur[d]][i] \in Frame /\ i \in Nat \ {0}
        BY <2>2 DEF TypeInv, TypeOK
  <2>4. TypeOK'
    <3>1. TypeOK /\ segs[cur[d]][i].batch \in Batches
          BY <2>3 DEF TypeInv, Frame
    <3>2. /\ delivered' \in SUBSET Batches /\ sent' \in [Drainers -> SUBSET Batches]
          /\ pos' \in [Drainers -> Nat \ {0}]
          BY <2>1, <2>3, <3>1 DEF TypeOK
    <3>3. dpc' \in [Drainers -> {"off", "wait", "active", "next", "stream", "mark", "remove", "done"}]
          BY <1>4, <3>1 DEF Deliver, TypeOK
    <3> QED BY <1>4, <3>1, <3>2, <3>3 DEF Deliver, TypeOK
  <2>5. CursorInv'
        BY <1>4, <2>2 DEF Deliver, TypeInv, TypeOK, CursorInv
  <2> QED BY <1>4, <2>4, <2>5, DrainKeepsLock DEF Deliver, TypeInv
<1>5. ASSUME MarkConsumed(d) PROVE TypeInv'
  <2>1. cur[d] \in Names
        BY <1>5 DEF MarkConsumed, TypeInv, CursorInv
  <2>2. segs' \in [Names -> Seq(Frame)]
        BY <1>5, <2>1, MarkedType DEF MarkConsumed, TypeInv, TypeOK
  <2>3. TypeOK'
    <3>1. TypeOK
          BY DEF TypeInv
    <3>2. /\ pos' \in [Drainers -> Nat \ {0}]
          /\ dpc' \in [Drainers -> {"off", "wait", "active", "next", "stream", "mark", "remove", "done"}]
          BY <1>5, <3>1 DEF MarkConsumed, TypeOK
    <3> QED BY <1>5, <2>2, <3>1, <3>2 DEF MarkConsumed, TypeOK
  <2>4. CursorInv'
        BY <1>5, <2>1 DEF MarkConsumed, TypeInv, TypeOK, CursorInv
  <2> QED BY <1>5, <2>3, <2>4, DrainKeepsLock DEF MarkConsumed, TypeInv
<1>6. ASSUME AbortPass(d) \/ StreamEnd(d) \/ ReadFails(d) PROVE TypeInv'
  <2> USE DEF AbortPass, StreamEnd, ReadFails
  <2>1. dpc[d] = "stream" => cur[d] \in Names
        BY DEF TypeInv, CursorInv
  <2>2. segs' \in [Names -> Seq(Frame)]
        BY <1>6, <2>1, SyncedType DEF TypeInv, TypeOK
  <2>3. \E l \in {"done", "wait", "remove", "next"} :
          dpc' = [dpc EXCEPT ![d] = l] /\ (l = "remove" => dpc[d] = "stream")
        BY <1>6 DEF AfterAbort, AfterStream
  <2>4. TypeOK'
        BY <1>6, <2>2, <2>3 DEF TypeInv, TypeOK
  <2>5. CursorInv'
        BY <1>6, <2>1, <2>3 DEF TypeInv, TypeOK, CursorInv
  <2> QED BY <1>6, <2>4, <2>5, DrainKeepsLock DEF TypeInv
<1>7. ASSUME RemoveDrained(d) PROVE TypeInv'
      BY <1>7, DrainKeepsLock DEF RemoveDrained, TypeInv, TypeOK, CursorInv
<1>8. ASSUME EndPass(d) PROVE TypeInv'
  <2>1. dpc' = [dpc EXCEPT ![d] = "done"] \/ dpc' = [dpc EXCEPT ![d] = "wait"]
        BY <1>8 DEF EndPass
  <2> QED BY <1>8, <2>1, DrainKeepsLock DEF EndPass, TypeInv, TypeOK, CursorInv
<1>9. ASSUME DrainerReturns(d) PROVE TypeInv'
      BY <1>9, DrainKeepsLock DEF DrainerReturns, TypeInv, TypeOK, CursorInv
<1> QED BY <1>1, <1>2, <1>3, <1>4, <1>5, <1>6, <1>7, <1>8, <1>9 DEF DrainStep

(* The agent's steps.                                                      *)
LEMMA AgentStepType ==
  ASSUME TypeInv, FlushBegin \/ Close \/ Tick \/ \E d \in Drainers : Cancel(d)
  PROVE  TypeInv'
<1>1. ASSUME NEW d \in Drainers, Cancel(d) PROVE TypeInv'
      BY <1>1, DrainKeepsLock
         DEF Cancel, DrainStutter, procVars, writeVars, TypeInv, TypeOK, CursorInv
<1>2. ASSUME FlushBegin PROVE TypeInv'
      BY <1>2, DrainKeepsLock
         DEF FlushBegin, Goto, DrainStutter, procVars, writeVars, TypeInv, TypeOK, CursorInv
<1>3. ASSUME Close PROVE TypeInv'
  <2> USE <1>3 DEF Close, drainVars, writeVars, history
  <2>1. TypeOK'
        BY DEF TypeInv, TypeOK
  <2>2. LockInv'
        BY NoneFresh DEF TypeInv, TypeOK, LockInv, InWrite
  <2>3. CursorInv'
        BY DEF TypeInv, CursorInv
  <2> QED BY <2>1, <2>2, <2>3 DEF TypeInv
<1>4. ASSUME Tick PROVE TypeInv'
  <2> USE <1>4 DEF Tick, procVars, drainVars, writeVars, history
  <2>1. TypeOK'
        BY BufferAssumption DEF TypeInv, TypeOK
  <2>2. LockInv' /\ CursorInv'
        BY DEF TypeInv, LockInv, InWrite, CursorInv
  <2> QED BY <2>1, <2>2 DEF TypeInv
<1> QED BY <1>1, <1>2, <1>3, <1>4

LEMMA RestartType ==
  ASSUME TypeInv, Restart
  PROVE  TypeInv'
<1>1. PICK R \in SUBSET Unsynced, tail \in TornTail(seg) :
        segs' = [n \in Names |-> AfterPowerLoss(R, n) \o (IF n = seg THEN tail ELSE <<>>)]
      BY DEF Restart
<1>2. tail \in Seq(Frame)
  <2>1. CASE tail = <<>>
        BY <2>1
  <2>2. CASE tail # <<>>
    <3>1. PICK w \in Writers : wpc[w] = "append" /\ tail = <<[batch |-> wbatch[w], st |-> "torn"]>>
          BY <2>2 DEF TornTail
    <3>2. [batch |-> wbatch[w], st |-> "torn"] \in Frame
          BY <3>1 DEF Frame, TypeInv, LockInv
    <3> QED BY <3>1, <3>2
  <2> QED BY <2>1, <2>2
<1>3. \A n \in Names : segs'[n] \in Seq(Frame)
  <2> TAKE n \in Names
  <2>1. AfterPowerLoss(R, n) \in Seq(Frame)
        BY PowerLossType DEF TypeInv
  <2>2. (IF n = seg THEN tail ELSE <<>>) \in Seq(Frame)
        BY <1>2
  <2> QED BY <1>1, <2>1, <2>2, ConcatProperties
<1>4. segs' \in [Names -> Seq(Frame)]
      BY <1>1, <1>3
<1>5. segSeq' \in 0 .. MaxSeq /\ now' \in 0 .. MaxTime
      BY BufferAssumption DEF Restart, TypeInv, TypeOK
<1>6. TypeOK'
  <2> USE DEF Restart
  <2>1. /\ wpc' \in [Writers -> {"idle", "lock", "append", "rotate", "enforce", "evict"}]
        /\ wbatch' \in [Writers -> Batches \cup {None}]
        /\ victim' \in [seg : Names \cup {None}, live : Nat]
        OBVIOUS
  <2>2. /\ dpc' \in [Drainers -> {"off", "wait", "active", "next", "stream", "mark", "remove", "done"}]
        /\ todo' \in [Drainers -> SUBSET Names]
        /\ active' \in [Drainers -> Names \cup {None}] /\ cur' \in [Drainers -> Names \cup {None}]
        /\ pos' \in [Drainers -> Nat \ {0}] /\ sent' \in [Drainers -> SUBSET Batches]
        OBVIOUS
  <2>3. /\ closed' \in BOOLEAN /\ segMu' \in Writers \cup {None}
        /\ seg' \in Names \cup {None} /\ segPath' \in Names \cup {None}
        /\ linked' \in SUBSET Names /\ cancelled' \in SUBSET Drainers
        /\ countBatches' \in Nat /\ countDropped' \in Nat
        BY DEF TypeInv, TypeOK
  <2>4. /\ tried' \in SUBSET Batches /\ acked' \in SUBSET Batches /\ written' \in Seq(Batches)
        /\ delivered' \in SUBSET Batches /\ evicted' \in SUBSET Batches
        BY DEF TypeInv, TypeOK
  <2> QED BY <1>4, <1>5, <2>1, <2>2, <2>3, <2>4 DEF TypeOK
<1>7. LockInv' /\ CursorInv'
      BY NoneFresh DEF Restart, LockInv, InWrite, CursorInv, Drainers
<1> QED BY <1>6, <1>7 DEF TypeInv

LEMMA StutterType == TypeInv /\ UNCHANGED vars => TypeInv'
BY DEF vars, procVars, writeVars, drainVars, history, TypeInv, TypeOK, LockInv, InWrite, CursorInv

LEMMA TypeInvStep == TypeInv /\ [Next]_vars => TypeInv'
<1> SUFFICES ASSUME TypeInv, [Next]_vars PROVE TypeInv'
    OBVIOUS
<1>1. ASSUME NEW w \in Writers, NEW b \in Batches, WriteBegin(w, b) PROVE TypeInv'
      BY <1>1, WriteBeginType
<1>2. ASSUME NEW w \in Writers, WriteStep(w) PROVE TypeInv'
      BY <1>2, WriteLockType, AppendRecordType, AppendFailsType, RotateType,
         WriteReturnsType, CountVictimType, EvictVictimType DEF WriteStep
<1>3. ASSUME NEW d \in Drainers, DrainStep(d) PROVE TypeInv'
      BY <1>3, DrainStepType
<1>4. CASE FlushBegin \/ Close \/ Tick \/ \E d \in Drainers : Cancel(d)
      BY <1>4, AgentStepType
<1>5. CASE Restart
      BY <1>5, RestartType
<1>6. CASE Terminated \/ UNCHANGED vars
      BY <1>6, StutterType DEF Terminated
<1> QED BY <1>1, <1>2, <1>3, <1>4, <1>5, <1>6 DEF Next

(* The state of the buffer stays well typed, whatever faults the file      *)
(* system shows and however close together restarts come.                  *)
THEOREM TypeCorrect == Spec => []TypeOK
<1>1. Spec => []TypeInv
      BY InitTypeInv, TypeInvStep, PTL DEF Spec
<1>2. TypeInv => TypeOK
      BY DEF TypeInv
<1> QED BY <1>1, <1>2, PTL

(* Exactly the Write in its critical section holds segMu, it appends to an *)
(* open segment, which segPath names, and evicts another one.              *)
THEOREM LockCorrect == Spec => []LockInv
<1>1. Spec => []TypeInv
      BY InitTypeInv, TypeInvStep, PTL DEF Spec
<1>2. TypeInv => LockInv
      BY DEF TypeInv
<1> QED BY <1>1, <1>2, PTL

-----------------------------------------------------------------------------
(* Part two: the buffer loses nothing it has acknowledged.                 *)

(* What the results rest on: a restart takes a second or longer, and, for  *)
(* those about what is lost, a failing append leaves no part of a record   *)
(* behind and countLiveRecords sees the whole file.  Opens, fsyncs, marks, *)
(* listings and reads may fail.                                            *)
Spaced == RestartGap >= 1
Reliable == Spaced /\ "append" \notin Faults /\ "count" \notin Faults

LogInv ==
  /\ OpenSegmentLinked /\ NameInv /\ DrainInv /\ MarkInv
  /\ "count" \notin Faults => DamageContained
Inv == TypeInv /\ LogInv

LEMMA InitLogInv == Init => LogInv
<1> SUFFICES ASSUME Init PROVE LogInv
    OBVIOUS
<1>1. OpenSegmentLinked
      BY DEF Init, OpenSegmentLinked
<1>2. NameInv
  <2>1. Used = {}
        BY DEF Init, Used, Known, Held, Drainers
  <2> QED BY <2>1 DEF NameInv
<1>3. DrainInv /\ MarkInv
      BY DEF Init, DrainInv, DrainOK, Drainers, MarkInv
<1>4. DamageContained
      BY DEF Init, DamageContained, Recorded, Stored
<1> QED BY <1>1, <1>2, <1>3, <1>4 DEF LogInv

-----------------------------------------------------------------------------
(* How each part of the invariant survives a step.                         *)

LEMMA HeldNames == TypeInv => /\ \A d \in Drainers : Held(d) \subseteq Names
                              /\ Known \subseteq Names /\ Used \subseteq Names
BY DEF TypeInv, TypeOK, CursorInv, Held, Known, Used

(* Names stay new when time and the counter only grow.                     *)
LEMMA NameKept ==
  ASSUME TypeInv, TypeInv', NameInv, Used' \subseteq Used, segSeq' >= segSeq, now' >= now
  PROVE  NameInv'
<1> SUFFICES ASSUME NEW n \in Used' PROVE n[1] <= now' /\ (n[2] <= segSeq' \/ n[1] < now')
    BY DEF NameInv
<1>1. n \in Used /\ n \in Names
      BY HeldNames
<1>2. n[1] <= now /\ (n[2] <= segSeq \/ n[1] < now)
      BY <1>1 DEF NameInv
<1>3. now \in Int /\ now' \in Int /\ segSeq \in Int /\ segSeq' \in Int
      BY BufferAssumption DEF TypeInv, TypeOK
<1>4. n[1] \in Int /\ n[2] \in Int
      BY <1>1, NamesType
<1> QED BY <1>2, <1>3, <1>4

(* A drainer that does not move, while the segment it deals with keeps     *)
(* its records and does not become the open one.                           *)
LEMMA DrainKept ==
  ASSUME TypeInv, NEW d \in Drainers, DrainOK(d),
         dpc'[d] = dpc[d], todo'[d] = todo[d], active'[d] = active[d],
         cur'[d] = cur[d], pos'[d] = pos[d],
         seg' = seg \/ seg' \notin Held(d),
         delivered \subseteq delivered',
         dpc[d] = "mark" => /\ pos[d] \in DOMAIN segs'[cur[d]]
                            /\ segs'[cur[d]][pos[d]].batch = segs[cur[d]][pos[d]].batch,
         dpc[d] = "remove" => LiveRecords(cur[d])' \subseteq LiveRecords(cur[d])
  PROVE  DrainOK(d)'
<1>1. Held(d)' = Held(d)
      BY DEF Held
<1>2. LiveRecords(cur[d])' = {i \in DOMAIN segs'[cur[d]] : segs'[cur[d]][i].st \in {"live", "torn"}}
      BY DEF LiveRecords
<1> QED BY <1>1, <1>2 DEF DrainOK, LiveRecords

(* No record goes, or loses its batch, or is damaged or repaired.          *)
RecordsKept ==
  \A n \in Names : \A i \in DOMAIN segs[n] :
    /\ i \in DOMAIN segs'[n] /\ segs'[n][i].batch = segs[n][i].batch
    /\ segs'[n][i].st = "torn" <=> segs[n][i].st = "torn"

(* Every recorded batch that could be read still can, or is accounted for. *)
LEMMA DamageKept ==
  ASSUME DamageContained, delivered \subseteq delivered', evicted \subseteq evicted',
         \A n \in linked : \A i \in DOMAIN segs[n] : Readable(n, i) =>
           \/ segs[n][i].batch \in delivered' \cup evicted'
           \/ n \in linked' /\ Readable(n, i)' /\ segs'[n][i].batch = segs[n][i].batch,
         RecordsKept,
         \A b \in Recorded' : b \in Recorded \cup OnDisk' \cup BehindTorn'
  PROVE  DamageContained'
<1>1. \A b \in OnDisk : b \in delivered' \cup evicted' \cup OnDisk'
  <2> SUFFICES ASSUME NEW b \in OnDisk, b \notin delivered' \cup evicted'
               PROVE  b \in OnDisk'
      OBVIOUS
  <2>1. PICK n \in linked : \E i \in DOMAIN segs[n] : Readable(n, i) /\ segs[n][i].batch = b
        BY DEF OnDisk
  <2> PICK i \in DOMAIN segs[n] : Readable(n, i) /\ segs[n][i].batch = b
      BY <2>1
  <2>2. n \in linked' /\ Readable(n, i)' /\ segs'[n][i].batch = b
        BY <2>1
  <2>3. i \in DOMAIN segs'[n] /\ b \in Batches
        BY <2>2 DEF Readable, OnDisk
  <2> QED BY <2>2, <2>3 DEF OnDisk
<1>2. BehindTorn \subseteq BehindTorn'
  <2> SUFFICES ASSUME NEW b \in BehindTorn PROVE b \in BehindTorn'
      OBVIOUS
  <2>1. PICK n \in Names : \E i, j \in DOMAIN segs[n] :
          segs[n][i].batch = b /\ j < i /\ segs[n][j].st = "torn"
        BY DEF BehindTorn
  <2> PICK i \in DOMAIN segs[n], j \in DOMAIN segs[n] :
          segs[n][i].batch = b /\ j < i /\ segs[n][j].st = "torn"
      BY <2>1
  <2>2. /\ i \in DOMAIN segs'[n] /\ segs'[n][i].batch = b
        /\ j \in DOMAIN segs'[n] /\ segs'[n][j].st = "torn" /\ b \in Batches
        BY <2>1 DEF RecordsKept, BehindTorn
  <2> QED BY <2>1, <2>2 DEF BehindTorn
<1> QED BY <1>1, <1>2 DEF DamageContained

-----------------------------------------------------------------------------
(* A step that touches no segment, no drainer and no accounting, and may   *)
(* close the open segment.                                                 *)
LEMMA QuietStep ==
  ASSUME Inv, TypeInv', UNCHANGED <<segs, linked, drainVars, delivered, evicted>>,
         seg' \in {seg, None}, segSeq' >= segSeq, now' >= now, Recorded' \subseteq Recorded
  PROVE  LogInv'
<1> USE DEF drainVars
<1>1. OpenSegmentLinked'
      BY DEF Inv, LogInv, OpenSegmentLinked
<1>2. Used' = Used
      BY DEF Used, Known, Held
<1>3. NameInv'
      BY <1>2, NameKept DEF Inv, LogInv
<1>4. DrainInv'
  <2> SUFFICES ASSUME NEW d \in Drainers PROVE DrainOK(d)'
      BY DEF DrainInv
  <2>1. Held(d) \subseteq Names /\ DrainOK(d)
        BY HeldNames DEF Inv, LogInv, DrainInv
  <2>2. LiveRecords(cur[d])' = LiveRecords(cur[d])
        BY DEF LiveRecords
  <2>3. dpc[d] = "mark" => pos[d] \in DOMAIN segs[cur[d]]
        BY <2>1 DEF DrainOK
  <2> QED BY <2>1, <2>2, <2>3, NoneFresh, DrainKept DEF Inv
<1>5. MarkInv'
      BY DEF Inv, LogInv, MarkInv
<1>6. ASSUME "count" \notin Faults PROVE DamageContained'
  <2> USE <1>6
  <2>1. \A n \in linked : \A i \in DOMAIN segs[n] : Readable(n, i) => Readable(n, i)'
        BY DEF Readable
  <2> QED BY <2>1, DamageKept DEF Inv, LogInv, RecordsKept
<1> QED BY <1>1, <1>3, <1>4, <1>5, <1>6 DEF LogInv

(* A new segment gets a name that was never used, and the file is empty.   *)
LEMMA FreshName ==
  ASSUME Inv, OpenNew
  PROVE  NextName \in Names /\ NextName \notin Used /\ UNCHANGED segs
<1>1. NextName \in Names
      BY NextNameType DEF OpenNew, Inv, TypeInv
<1>2. NextName[1] = now /\ NextName[2] = segSeq + 1 /\ now \in Int /\ segSeq \in Int
      BY DEF NextName, Inv, TypeInv, TypeOK
<1>3. NextName \notin Used
      BY <1>2 DEF Inv, LogInv, NameInv
<1>4. segs[NextName] \in Seq(Frame) /\ ~(Len(segs[NextName]) > 0) /\ NextName \notin linked
      BY <1>1, <1>3 DEF Used, Known, Inv, TypeInv, TypeOK
<1>5. segs[NextName] = <<>>
      BY <1>4, EmptySeq, LenProperties
<1> QED BY <1>1, <1>3, <1>4, <1>5 DEF OpenNew, Inv, TypeInv, TypeOK

(* A step that opens a new segment.                                        *)
LEMMA OpenStep ==
  ASSUME Inv, TypeInv', OpenNew, UNCHANGED <<drainVars, now, delivered, evicted>>,
         Recorded' \subseteq Recorded
  PROVE  LogInv'
<1> USE DEF drainVars
<1>1. NextName \in Names /\ NextName \notin Used /\ segs' = segs
      BY FreshName
<1>2. seg' = NextName /\ linked' = linked \cup {NextName} /\ NextName \notin linked
      /\ \A d \in Drainers : NextName \notin Held(d)
      BY <1>1 DEF OpenNew, Known, Used
<1>5. OpenSegmentLinked'
      BY <1>2 DEF OpenSegmentLinked
<1>6. NameInv'
  <2> SUFFICES ASSUME NEW n \in Used'
               PROVE  n[1] <= now' /\ (n[2] <= segSeq' \/ n[1] < now')
      BY DEF NameInv
  <2>1. now \in Int /\ segSeq \in Int /\ now' = now /\ segSeq' = segSeq + 1
        BY DEF Inv, TypeInv, TypeOK, OpenNew
  <2>2. n \in Used \/ n = NextName
        BY <1>1, <1>2 DEF Used, Known, Held
  <2>3. CASE n = NextName
        BY <2>1, <2>3 DEF NextName
  <2>4. CASE n \in Used
    <3>1. n[1] \in Int /\ n[2] \in Int
          BY <2>4, HeldNames, NamesType DEF Inv
    <3>2. n[1] <= now /\ (n[2] <= segSeq \/ n[1] < now)
          BY <2>4 DEF Inv, LogInv, NameInv
    <3> QED BY <2>1, <3>1, <3>2
  <2> QED BY <2>2, <2>3, <2>4
<1>7. DrainInv'
  <2> SUFFICES ASSUME NEW d \in Drainers PROVE DrainOK(d)'
      BY DEF DrainInv
  <2>1. DrainOK(d)
        BY DEF Inv, LogInv, DrainInv
  <2>2. LiveRecords(cur[d])' = LiveRecords(cur[d])
        BY <1>1 DEF LiveRecords
  <2>3. dpc[d] = "mark" => pos[d] \in DOMAIN segs[cur[d]]
        BY <2>1 DEF DrainOK
  <2> QED BY <1>1, <1>2, <2>1, <2>2, <2>3, DrainKept DEF Inv
<1>8. MarkInv'
      BY <1>1 DEF Inv, LogInv, MarkInv
<1>9. ASSUME "count" \notin Faults PROVE DamageContained'
  <2> USE <1>9
  <2>1. \A n \in linked : \A i \in DOMAIN segs[n] : Readable(n, i) => Readable(n, i)'
        BY <1>1 DEF Readable
  <2> QED BY <1>1, <1>2, <2>1, DamageKept DEF Inv, LogInv, RecordsKept
<1> QED BY <1>5, <1>6, <1>7, <1>8, <1>9 DEF LogInv

(* A step that appends a record, whole or cut short, to the open segment.  *)
LEMMA AppendStep ==
  ASSUME Inv, TypeInv', NEW w \in Writers, wpc[w] = "append",
         NEW st \in {"live", "torn"}, segs' = Appended(w, st),
         UNCHANGED <<seg, segSeq, now, linked, drainVars, delivered, evicted>>,
         Recorded' \subseteq Recorded \cup IF st = "live" THEN {wbatch[w]} ELSE {}
  PROVE  LogInv'
<1> USE DEF drainVars
<1> DEFINE last == Len(segs[seg]) + 1
<1>1. seg \in linked /\ seg \in Names /\ wbatch[w] \in Batches /\ segs[seg] \in Seq(Frame)
      /\ segs' \in [Names -> Seq(Frame)] /\ segs \in [Names -> Seq(Frame)]
      BY DEF Inv, LogInv, OpenSegmentLinked, TypeInv, TypeOK, LockInv
<1>2. /\ \A m \in Names \ {seg} : segs'[m] = segs[m]
      /\ Len(segs'[seg]) = last
      /\ \A i \in DOMAIN segs[seg] : segs'[seg][i] = segs[seg][i]
      /\ segs'[seg][last] = [batch |-> wbatch[w], st |-> st]
      BY <1>1, AppendedType DEF Inv, TypeInv
<1>3. /\ DOMAIN segs[seg] = 1 .. Len(segs[seg]) /\ Len(segs[seg]) \in Nat
      /\ DOMAIN segs'[seg] = 1 .. last
      BY <1>1, <1>2
<1>5. \A n \in Names : \A i \in DOMAIN segs[n] :
        i \in DOMAIN segs'[n] /\ segs'[n][i] = segs[n][i]
      BY <1>2, <1>3
<1>6. OpenSegmentLinked' /\ NameInv'
  <2>1. Used' \subseteq Used
    <3>1. Known' = Known /\ seg \in Known
          BY <1>1 DEF Known, Held
    <3>2. \A n \in Names \ {seg} : Len(segs'[n]) = Len(segs[n])
          BY <1>2
    <3> QED BY <3>1, <3>2 DEF Used
  <2>2. now' >= now /\ segSeq' >= segSeq
        BY DEF Inv, TypeInv, TypeOK
  <2> QED BY <2>1, <2>2, NameKept DEF Inv, LogInv, OpenSegmentLinked
<1>7. DrainInv'
  <2> SUFFICES ASSUME NEW d \in Drainers PROVE DrainOK(d)'
      BY DEF DrainInv
  <2>1. DrainOK(d)
        BY DEF Inv, LogInv, DrainInv
  <2>2. dpc[d] = "mark" => /\ pos[d] \in DOMAIN segs'[cur[d]]
                           /\ segs'[cur[d]][pos[d]].batch = segs[cur[d]][pos[d]].batch
        BY <1>5, <2>1 DEF DrainOK, Inv, TypeInv, CursorInv
  <2>3. dpc[d] = "remove" => LiveRecords(cur[d])' \subseteq LiveRecords(cur[d])
    <3> SUFFICES ASSUME dpc[d] = "remove" PROVE segs'[cur[d]] = segs[cur[d]]
        BY DEF LiveRecords
    <3>1. cur[d] \in Held(d) \ {active[d]} /\ cur[d] \in Names
          BY <2>1 DEF Held, DrainOK, Inv, TypeInv, CursorInv
    <3>2. cur[d] # seg
          BY <2>1, <3>1 DEF DrainOK
    <3> QED BY <1>2, <3>1, <3>2
  <2> QED BY <2>1, <2>2, <2>3, DrainKept DEF Inv
<1>8. MarkInv'
  <2> SUFFICES ASSUME NEW n \in Names, NEW i \in DOMAIN segs'[n],
                      segs'[n][i].st \in {"marked", "consumed"}
               PROVE  segs'[n][i].batch \in delivered'
      BY DEF MarkInv
  <2>1. CASE n # seg
        BY <1>2, <2>1 DEF Inv, LogInv, MarkInv
  <2>2. CASE n = seg
    <3>1. i # last
          BY <1>2, <2>2
    <3>2. i \in DOMAIN segs[seg]
          BY <1>3, <2>2, <3>1
    <3> QED BY <1>1, <1>2, <2>2, <3>2 DEF Inv, LogInv, MarkInv
  <2> QED BY <2>1, <2>2
<1>9. ASSUME "count" \notin Faults PROVE DamageContained'
  <2> USE <1>9
  <2>1. \A n \in linked : \A i \in DOMAIN segs[n] :
          Readable(n, i) => Readable(n, i)' /\ segs'[n][i].batch = segs[n][i].batch
    <3> SUFFICES ASSUME NEW n \in linked, NEW i \in DOMAIN segs[n], Readable(n, i)
                 PROVE  Readable(n, i)' /\ segs'[n][i].batch = segs[n][i].batch
        OBVIOUS
    <3>1. n \in Names /\ \A j \in 1 .. i : j \in DOMAIN segs[n]
          BY <1>1 DEF Inv, TypeInv, TypeOK
    <3> QED BY <1>5, <3>1 DEF Readable
  <2>2. RecordsKept
        BY <1>5 DEF RecordsKept
  <2>3. ASSUME st = "live" PROVE wbatch[w] \in OnDisk' \cup BehindTorn'
    <3>1. PICK i \in Nat : i = last
          BY <1>3
    <3>2. /\ i \in DOMAIN segs'[seg] /\ segs'[seg][i].batch = wbatch[w]
          /\ segs'[seg][i].st = "live"
          BY <1>2, <1>3, <2>3, <3>1
    <3>3. CASE \A j \in 1 .. i : segs'[seg][j].st # "torn"
      <4>1. Readable(seg, i)'
            BY <3>2, <3>3 DEF Readable
      <4> QED BY <1>1, <3>2, <4>1 DEF OnDisk
    <3>4. ASSUME NEW j \in 1 .. i, segs'[seg][j].st = "torn" PROVE wbatch[w] \in BehindTorn'
      <4>1. j \in DOMAIN segs'[seg] /\ j # i
            BY <1>3, <3>1, <3>2, <3>4
      <4>2. j < i
            BY <3>1, <4>1
      <4> QED BY <1>1, <3>2, <3>4, <4>1, <4>2 DEF BehindTorn
    <3> QED BY <3>3, <3>4
  <2> QED BY <2>1, <2>2, <2>3, DamageKept DEF Inv, LogInv
<1> QED BY <1>6, <1>7, <1>8, <1>9 DEF LogInv

LEMMA EvictStep ==
  ASSUME Inv, TypeInv', NEW w \in Writers, EvictVictim(w)
  PROVE  LogInv'
<1> USE DEF EvictVictim, procVars, drainVars
<1>1. victim.seg # segPath /\ linked' \in {linked, linked \ {victim.seg}}
      BY DEF Inv, TypeInv, LockInv
<1>2. OpenSegmentLinked'
      BY <1>1 DEF Inv, TypeInv, LockInv, LogInv, OpenSegmentLinked
<1>3. NameInv'
  <2>1. Used' \subseteq Used
        BY <1>1 DEF Used, Known, Held
  <2>2. now' >= now /\ segSeq' >= segSeq
        BY DEF Inv, TypeInv, TypeOK
  <2> QED BY <2>1, <2>2, NameKept DEF Inv, LogInv
<1>4. DrainInv' /\ MarkInv'
      BY DEF Inv, LogInv, DrainInv, DrainOK, Held, LiveRecords, MarkInv
<1>5. ASSUME "count" \notin Faults PROVE DamageContained'
  <2> USE <1>5
  <2>1. Recorded' = Recorded
    <3>1. {v \in Writers : wpc'[v] \in {"rotate", "enforce", "evict"}}
           = {v \in Writers : wpc[v] \in {"rotate", "enforce", "evict"}}
          BY DEF Inv, TypeInv, TypeOK
    <3> QED BY <3>1 DEF Recorded, Stored
  <2>2. ASSUME NEW n \in linked, NEW i \in DOMAIN segs[n], Readable(n, i)
        PROVE  \/ segs[n][i].batch \in delivered' \cup evicted'
               \/ n \in linked' /\ Readable(n, i)' /\ segs'[n][i].batch = segs[n][i].batch
    <3>1. CASE n \in linked'
          BY <2>2, <3>1 DEF Readable
    <3>2. CASE n \notin linked'
      <4>1. n = victim.seg /\ evicted' = evicted \cup Lost(n)
            BY <3>2
      <4>2. segs[n][i].batch \in Lost(n) \cup delivered
            BY <2>2 DEF Lost
      <4> QED BY <4>1, <4>2
    <3> QED BY <3>1, <3>2
  <2> QED BY <2>1, <2>2, DamageKept DEF Inv, LogInv, RecordsKept
<1> QED BY <1>2, <1>3, <1>4, <1>5 DEF LogInv

-----------------------------------------------------------------------------
(* What a drainer may do to the segments: set status bytes of delivered    *)
(* records, sync them, and remove a segment without live records that is   *)
(* not the open one.                                                       *)
Aged ==
  \A n \in Names : /\ DOMAIN segs'[n] = DOMAIN segs[n] /\ Len(segs'[n]) = Len(segs[n])
                   /\ \A i \in DOMAIN segs[n] :
                        /\ segs'[n][i].batch = segs[n][i].batch
                        /\ \/ segs'[n][i].st = segs[n][i].st
                           \/ /\ segs[n][i].st = "live" /\ segs'[n][i].st = "marked"
                              /\ segs[n][i].batch \in delivered
                           \/ segs[n][i].st = "marked" /\ segs'[n][i].st = "consumed"
Trimmed ==
  /\ linked' \subseteq linked
  /\ \A n \in linked \ linked' : n # seg /\ ("count" \notin Faults => LiveRecords(n) = {})

LEMMA DrainerStep ==
  ASSUME Inv, TypeInv', NEW d \in Drainers, UNCHANGED DrainStutter, Aged, Trimmed,
         delivered \subseteq delivered', Held(d)' \subseteq Known, DrainOK(d)',
         \A e \in Drainers \ {d} :
           /\ dpc'[e] = dpc[e] /\ todo'[e] = todo[e] /\ active'[e] = active[e]
           /\ cur'[e] = cur[e] /\ pos'[e] = pos[e]
  PROVE  LogInv'
<1> USE DEF DrainStutter, procVars, writeVars
<1>1. OpenSegmentLinked'
  <2>1. seg # None => seg \in linked
        BY DEF Inv, LogInv, OpenSegmentLinked
  <2> QED BY <2>1 DEF Trimmed, OpenSegmentLinked
<1>2. NameInv'
  <2>1. \A e \in Drainers : Held(e)' \subseteq Known
        BY DEF Held, Known
  <2>2. Used' \subseteq Used
        BY <2>1 DEF Used, Known, Trimmed, Aged
  <2>3. now' >= now /\ segSeq' >= segSeq
        BY DEF Inv, TypeInv, TypeOK
  <2> QED BY <2>2, <2>3, NameKept DEF Inv, LogInv
<1>3. DrainInv'
  <2> SUFFICES ASSUME NEW e \in Drainers \ {d} PROVE DrainOK(e)'
      BY DEF DrainInv
  <2>1. DrainOK(e)
        BY DEF Inv, LogInv, DrainInv
  <2>2. dpc[e] \in {"mark", "remove"} => cur[e] \in Names
        BY DEF Inv, TypeInv, CursorInv
  <2>3. dpc[e] = "mark" => /\ pos[e] \in DOMAIN segs'[cur[e]]
                           /\ segs'[cur[e]][pos[e]].batch = segs[cur[e]][pos[e]].batch
        BY <2>1, <2>2 DEF DrainOK, Aged
  <2>4. dpc[e] = "remove" => LiveRecords(cur[e])' \subseteq LiveRecords(cur[e])
        BY <2>2 DEF LiveRecords, Aged
  <2> QED BY <2>1, <2>3, <2>4, DrainKept DEF Inv
<1>4. MarkInv'
  <2> SUFFICES ASSUME NEW n \in Names, NEW i \in DOMAIN segs'[n],
                      segs'[n][i].st \in {"marked", "consumed"}
               PROVE  segs'[n][i].batch \in delivered'
      BY DEF MarkInv
  <2>1. segs[n][i].st \in {"marked", "consumed"} => segs[n][i].batch \in delivered
        BY DEF Aged, Inv, LogInv, MarkInv
  <2> QED BY <2>1 DEF Aged
<1>5. ASSUME "count" \notin Faults PROVE DamageContained'
  <2> USE <1>5
  <2>1. Recorded' = Recorded
        BY DEF Recorded, Stored
  <2>2. ASSUME NEW n \in linked, NEW i \in DOMAIN segs[n], Readable(n, i)
        PROVE  \/ segs[n][i].batch \in delivered' \cup evicted'
               \/ n \in linked' /\ Readable(n, i)' /\ segs'[n][i].batch = segs[n][i].batch
    <3>1. n \in linked' /\ n \in Names
          BY <2>2 DEF Trimmed, Readable, LiveRecords, Inv, TypeInv, TypeOK
    <3>2. CASE segs'[n][i].st = "live"
      <4>1. \A j \in 1 .. i : j \in DOMAIN segs[n]
            BY <3>1 DEF Inv, TypeInv, TypeOK
      <4>2. \A j \in 1 .. i : segs'[n][j].st # "torn"
            BY <2>2, <3>1, <4>1 DEF Aged, Readable
      <4> QED BY <3>1, <3>2, <4>2 DEF Aged, Readable
    <3>3. CASE segs'[n][i].st # "live"
          BY <2>2, <3>1, <3>3 DEF Aged, Readable
    <3> QED BY <3>2, <3>3
  <2>3. RecordsKept
        BY DEF RecordsKept, Aged
  <2> QED BY <2>1, <2>2, <2>3, DamageKept DEF Inv, LogInv
<1> QED BY <1>1, <1>2, <1>3, <1>4, <1>5 DEF LogInv

LEMMA UnchangedAges == TypeOK /\ segs' = segs => Aged
BY DEF Aged

LEMMA SyncAges == ASSUME TypeOK, NEW n \in Names, segs' = Synced(n) PROVE Aged
<1>1. \A m \in Names : \A i \in DOMAIN segs[m] : segs[m][i] \in Frame
      BY DEF TypeOK
<1>2. \A m \in Names : \A i \in DOMAIN segs[m] :
        /\ segs'[m][i].batch = segs[m][i].batch
        /\ \/ segs'[m][i].st = segs[m][i].st
           \/ segs[m][i].st = "marked" /\ segs'[m][i].st = "consumed"
  <2> TAKE m \in Names
  <2> TAKE i \in DOMAIN segs[m]
  <2>1. segs'[m][i] = IF m = n /\ segs[m][i].st = "marked"
                      THEN [segs[m][i] EXCEPT !.st = "consumed"] ELSE segs[m][i]
        BY SyncedType
  <2>2. /\ [segs[m][i] EXCEPT !.st = "consumed"].batch = segs[m][i].batch
        /\ [segs[m][i] EXCEPT !.st = "consumed"].st = "consumed"
        BY <1>1 DEF Frame
  <2> QED BY <2>1, <2>2
<1>3. \A m \in Names : DOMAIN segs'[m] = DOMAIN segs[m] /\ Len(segs'[m]) = Len(segs[m])
      BY SyncedType
<1> QED BY <1>2, <1>3 DEF Aged

LEMMA MarkAges ==
  ASSUME TypeOK, NEW n \in Names, NEW p, segs[n][p].batch \in delivered, segs' = Marked(n, p)
  PROVE  Aged
BY MarkedType DEF Aged

LEMMA DrainAges ==
  ASSUME Inv, NEW d \in Drainers, DrainStep(d)
  PROVE  Aged
<1>1. TypeOK /\ (dpc[d] \in {"stream", "mark", "remove"} => cur[d] \in Names)
      BY DEF Inv, TypeInv, CursorInv
<1>2. CASE UNCHANGED segs
      BY <1>1, <1>2, UnchangedAges
<1>3. CASE MarkConsumed(d)
  <2>1. segs[cur[d]][pos[d]].batch \in delivered
        BY <1>3 DEF MarkConsumed, Inv, LogInv, DrainInv, DrainOK
  <2> QED BY <1>1, <1>3, <2>1, MarkAges, UnchangedAges DEF MarkConsumed
<1>4. CASE AbortPass(d) \/ StreamEnd(d) \/ ReadFails(d)
      BY <1>1, <1>4, SyncAges, UnchangedAges DEF AbortPass, StreamEnd, ReadFails
<1> QED BY <1>2, <1>3, <1>4 DEF DrainStep, ListSegments, ReadActive, NextSegment, Deliver,
           RemoveDrained, EndPass, DrainerReturns

(* The steps of a drainer that change no segment.                          *)
LEMMA PlainDrainStep ==
  ASSUME Inv, TypeInv', NEW d \in Drainers, UNCHANGED <<DrainStutter, segs, linked>>,
         delivered \subseteq delivered', Held(d)' \subseteq Known, DrainOK(d)',
         \A e \in Drainers \ {d} :
           /\ dpc'[e] = dpc[e] /\ todo'[e] = todo[e] /\ active'[e] = active[e]
           /\ cur'[e] = cur[e] /\ pos'[e] = pos[e]
  PROVE  LogInv'
<1>1. Aged /\ Trimmed
      BY UnchangedAges DEF Trimmed, Inv, TypeInv
<1> QED BY <1>1, DrainerStep

LEMMA DrainStepKeepsLog ==
  ASSUME Inv, TypeInv', NEW d \in Drainers, DrainStep(d)
  PROVE  LogInv'
<1> USE DEF DrainStutter, Goto
<1>1. TypeOK /\ DrainOK(d) /\ Held(d) \subseteq Known
      BY DEF Inv, TypeInv, LogInv, DrainInv, Known
<1>2. ASSUME ListSegments(d) PROVE LogInv'
  <2>1. Held(d)' \subseteq Known
        BY <1>1, <1>2 DEF ListSegments, Held, Known, TypeOK
  <2>2. DrainOK(d)'
        BY <1>1, <1>2 DEF ListSegments, DrainOK, Held, TypeOK
  <2> QED BY <1>1, <1>2, <2>1, <2>2, PlainDrainStep DEF ListSegments, TypeOK
<1>3. ASSUME ReadActive(d) PROVE LogInv'
  <2>1. Held(d)' \subseteq Known
        BY <1>1, <1>3 DEF ReadActive, Held, Known, TypeOK
  <2>2. DrainOK(d)'
    <3>1. Held(d)' = todo[d] /\ dpc'[d] = "next" /\ active'[d] = segPath /\ seg' = seg
          BY <1>1, <1>3 DEF ReadActive, Held, TypeOK, procVars
    <3>2. None \notin todo[d] /\ (seg # None => seg = segPath)
          BY <1>1, NoneFresh DEF TypeOK, Inv, TypeInv, LockInv
    <3> QED BY <3>1, <3>2 DEF DrainOK
  <2> QED BY <1>1, <1>3, <2>1, <2>2, PlainDrainStep DEF ReadActive, TypeOK
<1>4. ASSUME NextSegment(d) PROVE LogInv'
  <2>1. Held(d)' \subseteq Held(d) /\ dpc'[d] \in {"next", "stream"} /\ active'[d] = active[d] /\ seg' = seg
        BY <1>1, <1>4 DEF NextSegment, Held, TypeOK, procVars
  <2>2. DrainOK(d)'
        BY <1>1, <1>4, <2>1 DEF NextSegment, DrainOK
  <2> QED BY <1>1, <1>4, <2>1, <2>2, PlainDrainStep DEF NextSegment, TypeOK
<1>5. ASSUME Deliver(d) PROVE LogInv'
  <2>1. PICK i \in Ahead(d) : delivered' = delivered \cup {segs[cur[d]][i].batch}
                             /\ pos' = [pos EXCEPT ![d] = i]
        BY <1>5 DEF Deliver
  <2>2. Held(d)' = Held(d)
        BY <1>1, <1>5 DEF Deliver, Held, TypeOK
  <2>3. DrainOK(d)'
    <3>1. dpc'[d] = "mark" /\ pos'[d] = i /\ i \in DOMAIN segs[cur[d]]
          /\ segs' = segs /\ cur' = cur /\ active' = active /\ seg' = seg
          BY <1>1, <1>5, <2>1 DEF Deliver, Ahead, TypeOK, procVars
    <3> QED BY <1>1, <1>5, <2>1, <2>2, <3>1 DEF DrainOK, Deliver
  <2> QED BY <1>1, <1>5, <2>1, <2>2, <2>3, PlainDrainStep DEF Deliver, TypeOK
<1>6. ASSUME MarkConsumed(d) PROVE LogInv'
  <2>1. Held(d)' = Held(d) /\ dpc'[d] = "stream"
        BY <1>1, <1>6 DEF MarkConsumed, Held, TypeOK
  <2>2. cur[d] \in Names /\ segs[cur[d]][pos[d]].batch \in delivered
        BY <1>1, <1>6 DEF MarkConsumed, DrainOK, Inv, TypeInv, CursorInv
  <2>3. Aged
        BY <1>1, <1>6, <2>2, MarkAges, UnchangedAges DEF MarkConsumed
  <2>4. Trimmed
        BY <1>6 DEF MarkConsumed, Trimmed
  <2>5. DrainOK(d)'
        BY <1>1, <1>6, <2>1 DEF MarkConsumed, DrainOK, procVars
  <2> QED BY <1>1, <1>6, <2>1, <2>3, <2>4, <2>5, DrainerStep DEF MarkConsumed, TypeOK
<1>7. ASSUME AbortPass(d) \/ ReadFails(d) PROVE LogInv'
  <2> USE DEF AbortPass, ReadFails
  <2>1. Held(d)' \subseteq Held(d) /\ dpc'[d] \in {"done", "wait"}
        BY <1>1, <1>7 DEF AfterAbort, Held, TypeOK
  <2>2. Aged
        BY <1>7, DrainAges DEF DrainStep
  <2>3. Trimmed
        BY <1>7 DEF Trimmed
  <2>4. DrainOK(d)'
        BY <2>1 DEF DrainOK
  <2> QED BY <1>1, <1>7, <2>1, <2>2, <2>3, <2>4, DrainerStep DEF TypeOK
<1>8. ASSUME StreamEnd(d) PROVE LogInv'
  <2>1. cur[d] \in Names
        BY <1>8 DEF StreamEnd, Inv, TypeInv, CursorInv
  <2>2. Held(d)' \subseteq Held(d) /\ dpc'[d] \in {"remove", "next"}
        BY <1>1, <1>8 DEF StreamEnd, AfterStream, Held, TypeOK
  <2>3. Aged
        BY <1>1, <1>8, <2>1, SyncAges DEF StreamEnd
  <2>4. Trimmed
        BY <1>8 DEF StreamEnd, Trimmed
  <2>5. LiveRecords(cur[d])' \subseteq LiveRecords(cur[d])
        BY <1>8, <2>1, <2>3 DEF StreamEnd, LiveRecords, Aged
  <2>6. dpc'[d] = "remove" =>
          cur[d] # active[d] /\ ("count" \notin Faults => LiveRecords(cur[d]) = {})
        BY <1>1, <1>8 DEF StreamEnd, AfterStream, Drained, TypeOK
  <2>7. DrainOK(d)'
        BY <1>1, <1>8, <2>2, <2>5, <2>6 DEF StreamEnd, DrainOK, procVars
  <2> QED BY <1>1, <1>8, <2>2, <2>3, <2>4, <2>7, DrainerStep DEF StreamEnd, TypeOK
<1>9. ASSUME RemoveDrained(d) PROVE LogInv'
  <2>1. Held(d)' \subseteq Held(d) /\ dpc'[d] = "next"
        BY <1>1, <1>9 DEF RemoveDrained, Held, TypeOK
  <2>2. cur[d] # seg /\ ("count" \notin Faults => LiveRecords(cur[d]) = {})
        BY <1>1, <1>9 DEF RemoveDrained, DrainOK, Held
  <2>3. Aged
        BY <1>1, <1>9, UnchangedAges DEF RemoveDrained
  <2>4. Trimmed
        BY <1>9, <2>2 DEF RemoveDrained, Trimmed
  <2>5. DrainOK(d)'
        BY <1>1, <1>9, <2>1 DEF RemoveDrained, DrainOK, procVars
  <2> QED BY <1>1, <1>9, <2>1, <2>3, <2>4, <2>5, DrainerStep DEF RemoveDrained, TypeOK
<1>10. ASSUME EndPass(d) \/ DrainerReturns(d) PROVE LogInv'
  <2>1. Held(d)' \subseteq Held(d) /\ dpc'[d] \in {"wait", "done"}
        BY <1>1, <1>10 DEF EndPass, DrainerReturns, Held, TypeOK
  <2>2. DrainOK(d)'
        BY <2>1 DEF DrainOK
  <2> QED BY <1>1, <1>10, <2>1, <2>2, PlainDrainStep DEF EndPass, DrainerReturns, TypeOK
<1> QED BY <1>2, <1>3, <1>4, <1>5, <1>6, <1>7, <1>8, <1>9, <1>10 DEF DrainStep

-----------------------------------------------------------------------------
LEMMA WriteKeepsLog ==
  ASSUME Inv, TypeInv', NEW w \in Writers, WriteStep(w)
  PROVE  LogInv'
<1>1. TypeOK /\ now \in Int /\ segSeq \in Int
  <2>1. TypeOK
        BY DEF Inv, TypeInv
  <2> QED BY <2>1, BufferAssumption DEF TypeOK
<1>2. ASSUME WriteLock(w) PROVE LogInv'
  <2> USE DEF WriteLock, drainVars, history
  <2>1. Recorded' = Recorded
    <3>1. {v \in Writers : wpc'[v] \in {"rotate", "enforce", "evict"}}
           = {v \in Writers : wpc[v] \in {"rotate", "enforce", "evict"}}
          BY <1>1, <1>2 DEF TypeOK
    <3> QED BY <1>2, <3>1 DEF Recorded, Stored
  <2>2. CASE OpenNew
        BY <1>2, <2>1, <2>2, OpenStep
  <2>3. CASE UNCHANGED <<seg, segSeq, linked, segs>>
        BY <1>1, <1>2, <2>1, <2>3, QuietStep
  <2>4. CASE OpenFails
    <3>1. seg' = None /\ segSeq' = segSeq + 1 /\ segs' = segs /\ linked' = linked /\ seg = None
          BY <1>2, <2>4 DEF OpenFails, OpenNew
    <3> QED BY <1>1, <1>2, <2>1, <3>1, QuietStep
  <2> QED BY <1>2, <2>2, <2>3, <2>4
<1>3. ASSUME AppendRecord(w) \/ AppendFails(w) PROVE LogInv'
  <2> USE DEF AppendRecord, AppendFails, procVars, drainVars
  <2>1. {v \in Writers : wpc'[v] \in {"rotate", "enforce", "evict"}}
         \subseteq {v \in Writers : wpc[v] \in {"rotate", "enforce", "evict"}} \cup {w}
        BY <1>1, <1>3 DEF TypeOK
  <2>2. CASE segs' = Appended(w, "live")
    <3>1. Recorded' \subseteq Recorded \cup {wbatch[w]}
          BY <1>3, <2>1 DEF Recorded, Stored
    <3> QED BY <1>3, <2>2, <3>1, AppendStep
  <2>3. CASE AppendFails(w) /\ UNCHANGED written /\ segs' \in {segs, Appended(w, "torn")}
    <3>1. wpc'[w] = "idle"
          BY <1>1, <2>3 DEF TypeOK
    <3>2. {v \in Writers : wpc'[v] \in {"rotate", "enforce", "evict"}}
           \subseteq {v \in Writers : wpc[v] \in {"rotate", "enforce", "evict"}}
          BY <2>1, <3>1
    <3>3. Recorded' \subseteq Recorded
          BY <2>3, <3>2 DEF Recorded, Stored
    <3>4. CASE segs' = segs
          BY <1>1, <2>3, <3>3, <3>4, QuietStep
    <3>5. CASE segs' = Appended(w, "torn")
          BY <2>3, <3>3, <3>5, AppendStep
    <3> QED BY <2>3, <3>4, <3>5
  <2> QED BY <1>3, <2>2, <2>3
<1>4. ASSUME Rotate(w) PROVE LogInv'
  <2> USE DEF Rotate, drainVars, history
  <2>1. Recorded' \subseteq Recorded
    <3>1. {v \in Writers : wpc'[v] \in {"rotate", "enforce", "evict"}}
           = {v \in Writers : wpc[v] \in {"rotate", "enforce", "evict"}}
          BY <1>1, <1>4 DEF TypeOK
    <3> QED BY <1>4, <3>1 DEF Recorded, Stored
  <2>2. CASE OpenNew
        BY <1>4, <2>1, <2>2, OpenStep
  <2>3. CASE UNCHANGED <<seg, segSeq, linked, segs>>
        BY <1>1, <1>4, <2>1, <2>3, QuietStep
  <2>4. CASE OpenFails
    <3>1. seg' = None /\ segSeq' = segSeq + 1 /\ segs' = segs /\ linked' = linked
          BY <2>4 DEF OpenFails
    <3> QED BY <1>1, <1>4, <2>1, <3>1, QuietStep
  <2> QED BY <1>4, <2>2, <2>3, <2>4
<1>5. ASSUME WriteReturns(w) PROVE LogInv'
  <2>1. Recorded' \subseteq Recorded
    <3>1. {v \in Writers : wpc'[v] \in {"rotate", "enforce", "evict"}}
           \subseteq {v \in Writers : wpc[v] \in {"rotate", "enforce", "evict"}}
          /\ wbatch[w] \in Recorded
          BY <1>1, <1>5 DEF WriteReturns, TypeOK, Recorded, Stored
    <3> QED BY <1>5, <3>1 DEF WriteReturns, Recorded, Stored
  <2> QED BY <1>1, <1>5, <2>1, QuietStep DEF WriteReturns, drainVars
<1>6. ASSUME CountVictim(w) PROVE LogInv'
  <2>1. Recorded' \subseteq Recorded
    <3>1. {v \in Writers : wpc'[v] \in {"rotate", "enforce", "evict"}}
           = {v \in Writers : wpc[v] \in {"rotate", "enforce", "evict"}}
          BY <1>1, <1>6 DEF CountVictim, TypeOK
    <3> QED BY <1>6, <3>1 DEF CountVictim, Recorded, Stored, history
  <2> QED BY <1>1, <1>6, <2>1, QuietStep DEF CountVictim, procVars, drainVars, history
<1>7. ASSUME EvictVictim(w) PROVE LogInv'
      BY <1>7, EvictStep
<1> QED BY <1>2, <1>3, <1>4, <1>5, <1>6, <1>7 DEF WriteStep

LEMMA AgentKeepsLog ==
  ASSUME Inv, TypeInv',
         FlushBegin \/ Close \/ Tick \/ (\E d \in Drainers : Cancel(d)) \/ UNCHANGED vars
         \/ (\E w \in Writers, b \in Batches : WriteBegin(w, b))
  PROVE  LogInv'
<1>1. TypeOK /\ now \in Int /\ segSeq \in Int
  <2>1. TypeOK
        BY DEF Inv, TypeInv
  <2> QED BY <2>1, BufferAssumption DEF TypeOK
<1>2. ASSUME NEW d \in Drainers, Cancel(d) PROVE LogInv'
  <2>1. DrainOK(d) /\ Held(d) \subseteq Known
        BY DEF Inv, LogInv, DrainInv, Known
  <2>2. Held(d)' \subseteq Known /\ DrainOK(d)'
        BY <1>2, <2>1 DEF Cancel, Held, DrainOK, LiveRecords, DrainStutter, procVars
  <2> QED BY <1>1, <1>2, <2>2, PlainDrainStep DEF Cancel
<1>3. ASSUME FlushBegin PROVE LogInv'
  <2>1. "flush" \in Drainers /\ dpc["flush"] = "off" /\ dpc' = [dpc EXCEPT !["flush"] = "wait"]
        BY <1>3 DEF FlushBegin, Goto, Drainers
  <2>2. Held("flush")' \subseteq Known /\ DrainOK("flush")'
        BY <1>1, <1>3, <2>1 DEF FlushBegin, Held, Known, DrainOK, TypeOK
  <2> QED BY <1>1, <1>3, <2>1, <2>2, PlainDrainStep DEF FlushBegin, TypeOK
<1>4. ASSUME Close PROVE LogInv'
      BY <1>1, <1>4, QuietStep DEF Close, drainVars, writeVars, history, Recorded, Stored
<1>5. ASSUME Tick PROVE LogInv'
      BY <1>1, <1>5, QuietStep DEF Tick, procVars, drainVars, writeVars, history, Recorded, Stored
<1>6. ASSUME UNCHANGED vars PROVE LogInv'
      BY <1>1, <1>6, QuietStep DEF vars, procVars, drainVars, writeVars, history, Recorded, Stored
<1>7. ASSUME NEW w \in Writers, NEW b \in Batches, WriteBegin(w, b) PROVE LogInv'
  <2>1. Recorded' \subseteq Recorded
    <3>1. \A v \in Writers : wpc'[v] \in {"rotate", "enforce", "evict"} =>
            wpc[v] \in {"rotate", "enforce", "evict"} /\ wbatch'[v] = wbatch[v]
          BY <1>1, <1>7 DEF WriteBegin, TypeOK
    <3> QED BY <1>7, <3>1 DEF WriteBegin, Recorded, Stored
  <2> QED BY <1>1, <1>7, <2>1, QuietStep DEF WriteBegin, procVars, drainVars
<1> QED BY <1>2, <1>3, <1>4, <1>5, <1>6, <1>7

LEMMA ConcatShort ==
  ASSUME NEW S, NEW s \in Seq(S), NEW more \in Seq(S), Len(more) <= 1
  PROVE  \A i \in DOMAIN (s \o more) \ DOMAIN s :
           (s \o more)[i] = more[1] /\ i = Len(s \o more) /\ 1 \in DOMAIN more
<1>1. /\ s \o more \in Seq(S) /\ Len(s \o more) = Len(s) + Len(more)
      /\ \A i \in 1 .. Len(s) + Len(more) :
           (s \o more)[i] = IF i <= Len(s) THEN s[i] ELSE more[i - Len(s)]
      BY ConcatProperties
<1>2. /\ DOMAIN s = 1 .. Len(s) /\ DOMAIN more = 1 .. Len(more)
      /\ DOMAIN (s \o more) = 1 .. Len(s) + Len(more)
      BY <1>1, LenProperties
<1> DEFINE a == Len(s)
           b == Len(more)
<1>3. a \in Nat /\ b \in Nat /\ b <= 1
      BY LenProperties
<1> HIDE DEF a, b
<1> SUFFICES ASSUME NEW i \in (1 .. a + b) \ (1 .. a)
             PROVE  b = 1 /\ i = a + 1
    BY <1>1, <1>2, <1>3 DEF a, b
<1> QED BY <1>3

(* What a restart finds on disk: every record of before, some marks lost   *)
(* or synced, and possibly a torn record at the end of the open segment.   *)
LEMMA RestartSegs ==
  ASSUME TypeInv, Restart, NEW n \in Names
  PROVE  /\ segs'[n] \in Seq(Frame) /\ segs[n] \in Seq(Frame)
         /\ Len(segs'[n]) >= Len(segs[n])
         /\ n # seg => Len(segs'[n]) = Len(segs[n])
         /\ \A i \in DOMAIN segs[n] :
              /\ segs'[n][i].batch = segs[n][i].batch
              /\ \/ segs'[n][i].st = segs[n][i].st
                 \/ segs[n][i].st = "marked" /\ segs'[n][i].st \in {"live", "consumed"}
         /\ \A i \in DOMAIN segs'[n] \ DOMAIN segs[n] :
              segs'[n][i].st = "torn" /\ i = Len(segs'[n])
<1>1. PICK R \in SUBSET Unsynced, tail \in TornTail(seg) :
        segs' = [m \in Names |-> AfterPowerLoss(R, m) \o (IF m = seg THEN tail ELSE <<>>)]
      BY DEF Restart
<1>2. PICK more \in Seq(Frame) :
        /\ segs'[n] = AfterPowerLoss(R, n) \o more
        /\ n # seg => more = <<>>
        /\ Len(more) <= 1 /\ \A i \in DOMAIN more : more[i].st = "torn"
  <2>1. CASE n # seg \/ tail = <<>>
    <3>1. <<>> \in Seq(Frame) /\ Len(<<>>) <= 1 /\ DOMAIN <<>> = {}
          OBVIOUS
    <3>2. segs'[n] = AfterPowerLoss(R, n) \o <<>>
          BY <1>1, <2>1
    <3> QED BY <3>1, <3>2
  <2>2. CASE n = seg /\ tail # <<>>
    <3>1. PICK w \in Writers : wpc[w] = "append" /\ tail = <<[batch |-> wbatch[w], st |-> "torn"]>>
          BY <2>2 DEF TornTail
    <3>2. [batch |-> wbatch[w], st |-> "torn"] \in Frame
          BY <3>1 DEF Frame, TypeInv, LockInv
    <3>3. tail \in Seq(Frame) /\ Len(tail) = 1 /\ DOMAIN tail = {1} /\ tail[1].st = "torn"
          BY <3>1, <3>2
    <3>4. segs'[n] = AfterPowerLoss(R, n) \o tail
          BY <1>1, <2>2
    <3>5. Len(tail) <= 1 /\ \A i \in DOMAIN tail : tail[i].st = "torn"
      <4>1. \A i \in DOMAIN tail : i = 1
            BY <3>3
      <4> QED BY <3>3, <4>1
    <3> QED BY <2>2, <3>3, <3>4, <3>5
  <2> QED BY <2>1, <2>2
<1>3. TypeOK /\ segs[n] \in Seq(Frame)
  <2>1. TypeOK
        BY DEF TypeInv
  <2> QED BY <2>1 DEF TypeOK
<1> DEFINE s == segs[n]
           t == AfterPowerLoss(R, n)
<1>4. t \in Seq(Frame) /\ Len(t) = Len(s)
      BY <1>3, PowerLossType
<1>5. \A i \in DOMAIN s :
        /\ t[i].batch = s[i].batch
        /\ t[i].st = s[i].st \/ (s[i].st = "marked" /\ t[i].st \in {"live", "consumed"})
  <2> TAKE i \in DOMAIN s
  <2>1. /\ t[i].batch = s[i].batch
        /\ t[i].st = IF s[i].st = "marked"
                     THEN IF <<n, i>> \in R THEN "live" ELSE "consumed"
                     ELSE s[i].st
        BY <1>3, PowerLossType
  <2> QED BY ONLY <2>1
<1> DEFINE u == t \o more
<1> HIDE DEF s, t
<1>6. /\ u \in Seq(Frame) /\ Len(u) = Len(t) + Len(more)
      /\ \A i \in 1 .. Len(t) + Len(more) : u[i] = IF i <= Len(t) THEN t[i] ELSE more[i - Len(t)]
      BY <1>4, ConcatProperties
<1>7. s \in Seq(Frame) /\ DOMAIN s = 1 .. Len(s) /\ Len(s) \in Nat
      BY <1>3 DEF s
<1>8. Len(more) \in {0, 1} /\ DOMAIN more = 1 .. Len(more)
  <2>1. Len(more) \in Nat /\ DOMAIN more = 1 .. Len(more)
        BY LenProperties
  <2>2. Len(more) <= 1
        BY <1>2
  <2> QED BY <2>1, <2>2
<1>9. DOMAIN u = 1 .. Len(u)
      BY <1>6
<1>10. \A i \in DOMAIN s : u[i] = t[i]
      BY <1>4, <1>6, <1>7, <1>8
<1>11. \A i \in DOMAIN u \ DOMAIN s : u[i] = more[1] /\ i = Len(u) /\ 1 \in DOMAIN more
      BY <1>2, <1>4, <1>7, ConcatShort
<1> HIDE DEF u
<1>12. n # seg => Len(u) = Len(s)
      BY <1>2, <1>4, <1>6, <1>7
<1>13. segs'[n] = u /\ segs[n] = s
      BY <1>2 DEF u, t, s
<1> QED BY <1>2, <1>4, <1>5, <1>6, <1>7, <1>8, <1>10, <1>11, <1>12, <1>13

LEMMA RestartKeepsLog ==
  ASSUME Inv, TypeInv', Spaced, Restart
  PROVE  LogInv'
<1>1. TypeOK /\ TypeInv /\ seg' = None /\ linked' = linked /\ delivered' = delivered
      /\ evicted' = evicted /\ acked' = acked
      BY DEF Inv, TypeInv, Restart
<1>2. \A d \in Drainers : dpc'[d] \in {"wait", "off"} /\ todo'[d] = {}
      BY DEF Restart
<1>3. OpenSegmentLinked' /\ DrainInv'
      BY <1>1, <1>2 DEF OpenSegmentLinked, DrainInv, DrainOK
<1>4. NameInv'
  <2> SUFFICES ASSUME NEW n \in Used' PROVE n[1] <= now' /\ n[1] < now'
      BY DEF NameInv
  <2>1. n \in Used
    <3>1. n \in Known \/ (n \in Names /\ Len(segs'[n]) > 0)
          BY <1>1, <1>2 DEF Used, Known, Held
    <3>2. CASE n \in Names /\ n # seg
          BY <1>1, <3>1, <3>2, RestartSegs DEF Used
    <3>3. CASE n = seg
          BY <1>1, <3>1, <3>3, NoneFresh DEF Inv, LogInv, OpenSegmentLinked, Used, Known
    <3> QED BY <3>1, <3>2, <3>3 DEF Used
  <2>2. n[1] <= now /\ n[1] \in Int
        BY <2>1, HeldNames, NamesType DEF Inv, LogInv, NameInv
  <2>3. now \in Int /\ now' \in Int /\ now' > now
        BY <1>1, BufferAssumption DEF Restart, Spaced, TypeOK
  <2> QED BY <2>2, <2>3
<1>6. MarkInv'
  <2> SUFFICES ASSUME NEW n \in Names, NEW i \in DOMAIN segs'[n],
                      segs'[n][i].st \in {"marked", "consumed"}
               PROVE  segs'[n][i].batch \in delivered'
      BY DEF MarkInv
  <2>1. i \in DOMAIN segs[n]
        BY <1>1, RestartSegs
  <2>2. segs[n][i].st \in {"marked", "consumed"} => segs[n][i].batch \in delivered
        BY <2>1 DEF Inv, LogInv, MarkInv
  <2> QED BY <1>1, <2>1, <2>2, RestartSegs
<1>7. ASSUME "count" \notin Faults PROVE DamageContained'
  <2> USE <1>7
  <2>1. Recorded' \subseteq Recorded
    <3>1. {v \in Writers : wpc'[v] \in {"rotate", "enforce", "evict"}} = {}
          BY DEF Restart
    <3>2. written' = written
          BY DEF Restart
    <3> QED BY <1>1, <3>1, <3>2 DEF Recorded, Stored
  <2>2. ASSUME NEW n \in linked, NEW i \in DOMAIN segs[n], Readable(n, i)
        PROVE  n \in linked' /\ Readable(n, i)' /\ segs'[n][i].batch = segs[n][i].batch
    <3>1. n \in Names /\ segs[n] \in Seq(Frame)
          BY <1>1 DEF TypeOK
    <3>2. segs'[n] \in Seq(Frame) /\ Len(segs'[n]) >= Len(segs[n])
          BY <1>1, <3>1, RestartSegs
    <3>3. i \in DOMAIN segs'[n] /\ \A j \in 1 .. i : j \in DOMAIN segs[n]
          BY <3>1, <3>2
    <3>4. segs'[n][i].st = "live" /\ segs'[n][i].batch = segs[n][i].batch
          BY <1>1, <2>2, <3>1, RestartSegs DEF Readable
    <3>5. \A j \in 1 .. i : segs'[n][j].st # "torn"
          BY <1>1, <2>2, <3>1, <3>3, RestartSegs DEF Readable
    <3> QED BY <1>1, <3>3, <3>4, <3>5 DEF Readable
  <2>3. RecordsKept
    <3> SUFFICES ASSUME NEW n \in Names, NEW i \in DOMAIN segs[n]
                 PROVE  /\ i \in DOMAIN segs'[n] /\ segs'[n][i].batch = segs[n][i].batch
                        /\ segs'[n][i].st = "torn" <=> segs[n][i].st = "torn"
        BY DEF RecordsKept
    <3>1. i \in DOMAIN segs'[n]
      <4>1. /\ segs[n] \in Seq(Frame) /\ segs'[n] \in Seq(Frame)
            /\ Len(segs'[n]) >= Len(segs[n])
            BY <1>1, RestartSegs
      <4> QED BY <4>1
    <3> QED BY <1>1, <3>1, RestartSegs
  <2> QED BY <1>1, <2>1, <2>2, <2>3, DamageKept DEF Inv, LogInv
<1> QED BY <1>3, <1>4, <1>6, <1>7 DEF LogInv

LEMMA InvStep == ASSUME Spaced PROVE Inv /\ [Next]_vars => Inv'
<1> SUFFICES ASSUME Inv, [Next]_vars PROVE LogInv' /\ TypeInv'
    BY DEF Inv
<1>1. TypeInv'
      BY TypeInvStep DEF Inv
<1>2. ASSUME NEW w \in Writers, WriteStep(w) PROVE LogInv'
      BY <1>1, <1>2, WriteKeepsLog
<1>3. ASSUME NEW d \in Drainers, DrainStep(d) PROVE LogInv'
      BY <1>1, <1>3, DrainStepKeepsLog
<1>4. CASE Restart
      BY <1>1, <1>4, RestartKeepsLog
<1>5. CASE \/ FlushBegin \/ Close \/ Tick \/ (\E d \in Drainers : Cancel(d)) \/ UNCHANGED vars
           \/ (\E w \in Writers, b \in Batches : WriteBegin(w, b))
      BY <1>1, <1>5, AgentKeepsLog
<1>6. LogInv'
      BY <1>2, <1>3, <1>4, <1>5 DEF Next, Terminated
<1> QED BY <1>1, <1>6

LEMMA InvCorrect == ASSUME Spaced PROVE Spec => []Inv
<1>1. Init => Inv
      BY InitTypeInv, InitLogInv DEF Inv
<1>2. Inv /\ [Next]_vars => Inv'
      BY InvStep
<1> QED BY <1>1, <1>2, PTL DEF Spec

(* Whatever opens, appends, fsyncs, marks, listings and reads fail, as long*)
(* as countLiveRecords sees the whole file: a record cut short hides what  *)
(* was appended behind it to the same segment, and nothing else.           *)
THEOREM DamageStaysContained ==
  ASSUME Spaced, "count" \notin Faults PROVE Spec => []DamageContained
<1>1. Inv => DamageContained
      BY DEF Inv, LogInv
<1> QED BY <1>1, InvCorrect, PTL

-----------------------------------------------------------------------------
(* Where no append fails, a torn record is the last of its segment.        *)
LEMMA TornStep ==
  ASSUME Inv, TypeInv', TornInv, [Next]_vars, "append" \notin Faults
  PROVE  TornInv'
<1> SUFFICES ASSUME NEW n \in Names, NEW i \in DOMAIN segs'[n], segs'[n][i].st = "torn"
             PROVE  i = Len(segs'[n]) /\ n # seg'
    BY DEF TornInv
<1>1. ASSUME UNCHANGED segs, seg' \in {seg, None}
      PROVE  i = Len(segs'[n]) /\ n # seg'
      BY <1>1, NoneFresh DEF TornInv
<1>2. ASSUME OpenNew PROVE i = Len(segs'[n]) /\ n # seg'
  <2>1. n # NextName /\ segs' = segs /\ seg' = NextName
    <3>1. NextName \in Names /\ NextName \notin Used /\ segs' = segs
          BY <1>2, FreshName
    <3>2. segs[n] \in Seq(Frame) /\ i \in DOMAIN segs[n]
          BY <3>1 DEF Inv, TypeInv, TypeOK
    <3>3. Len(segs[n]) > 0
          BY <3>2
    <3> QED BY <1>2, <3>1, <3>3 DEF OpenNew, Used
  <2> QED BY <2>1 DEF TornInv
<1>3. ASSUME Aged, seg' = seg PROVE i = Len(segs'[n]) /\ n # seg'
      BY <1>3 DEF Aged, TornInv
<1>4. ASSUME NEW w \in Writers, WriteStep(w) PROVE i = Len(segs'[n]) /\ n # seg'
  <2>1. CASE WriteLock(w) \/ Rotate(w)
        BY <1>1, <1>2, <2>1 DEF WriteLock, Rotate, OpenFails
  <2>2. CASE AppendRecord(w) \/ AppendFails(w)
    <3>1. /\ segs' = Appended(w, "live") /\ wpc[w] = "append" /\ seg' = seg
          BY <2>2 DEF AppendRecord, AppendFails, procVars
    <3>2. seg \in Names /\ segs[seg] \in Seq(Frame) /\ wbatch[w] \in Batches
          BY <3>1 DEF Inv, TypeInv, TypeOK, LockInv
    <3>3. segs'[seg] \in Seq(Frame)
          BY <3>2 DEF TypeInv, TypeOK
    <3>4. /\ \A m \in Names \ {seg} : segs'[m] = segs[m]
          /\ Len(segs'[seg]) = Len(segs[seg]) + 1
          /\ \A j \in DOMAIN segs[seg] : segs'[seg][j] = segs[seg][j]
          /\ segs'[seg][Len(segs[seg]) + 1] = [batch |-> wbatch[w], st |-> "live"]
          BY <3>1, <3>2, AppendedType DEF Inv, TypeInv
    <3>5. n # seg
      <4> SUFFICES ASSUME n = seg PROVE FALSE
          OBVIOUS
      <4>1. i # Len(segs[seg]) + 1
            BY <3>4
      <4>2. i \in DOMAIN segs[seg]
            BY <3>2, <3>3, <3>4, <4>1
      <4> QED BY <3>2, <3>4, <4>2 DEF TornInv
    <3> QED BY <3>1, <3>4, <3>5 DEF TornInv
  <2>3. CASE WriteReturns(w) \/ CountVictim(w) \/ EvictVictim(w)
        BY <1>1, <2>3 DEF WriteReturns, CountVictim, EvictVictim, procVars
  <2> QED BY <1>4, <2>1, <2>2, <2>3 DEF WriteStep
<1>5. ASSUME NEW d \in Drainers, DrainStep(d) PROVE i = Len(segs'[n]) /\ n # seg'
  <2>1. Aged
        BY <1>5, DrainAges
  <2>2. seg' = seg
        BY <1>5 DEF DrainStep, ListSegments, ReadActive, NextSegment, Deliver, MarkConsumed,
           AbortPass, ReadFails, StreamEnd, RemoveDrained, EndPass, DrainerReturns, DrainStutter,
           procVars
  <2> QED BY <1>3, <2>1, <2>2
<1>6. CASE Restart
  <2>1. seg' = None /\ TypeInv
        BY <1>6 DEF Restart, Inv
  <2>2. CASE i \in DOMAIN segs[n]
    <3>1. segs[n][i].st = "torn"
          BY <1>6, <2>1, <2>2, RestartSegs
    <3>2. i = Len(segs[n]) /\ n # seg
          BY <2>2, <3>1 DEF TornInv
    <3> QED BY <1>6, <2>1, <3>2, RestartSegs, NoneFresh
  <2>3. CASE i \notin DOMAIN segs[n]
        BY <1>6, <2>1, <2>3, RestartSegs, NoneFresh
  <2> QED BY <2>2, <2>3
<1>7. CASE FlushBegin \/ Close \/ Tick \/ (\E d \in Drainers : Cancel(d)) \/ UNCHANGED vars
      BY <1>1, <1>7 DEF FlushBegin, Close, Tick, Cancel, DrainStutter, procVars, vars
<1>8. CASE \E w \in Writers, b \in Batches : WriteBegin(w, b)
      BY <1>1, <1>8 DEF WriteBegin, procVars
<1> QED BY <1>4, <1>5, <1>6, <1>7, <1>8 DEF Next, Terminated

LEMMA TornCorrect == ASSUME Reliable PROVE Spec => [](Inv /\ TornInv)
<1>1. Init => TornInv
      BY DEF Init, TornInv
<1>2. Inv /\ TornInv /\ [Next]_vars => TornInv'
  <2> SUFFICES ASSUME Inv, TornInv, [Next]_vars PROVE TornInv'
      OBVIOUS
  <2>1. TypeInv'
        BY TypeInvStep DEF Inv
  <2> QED BY <2>1, TornStep DEF Reliable
<1>3. Spec => []Inv
      BY InvCorrect DEF Reliable
<1> QED BY <1>1, <1>2, <1>3, PTL DEF Spec

LEMMA NothingBehind == TypeOK /\ TornInv => BehindTorn = {}
<1> SUFFICES ASSUME TypeOK, TornInv, NEW n \in Names, NEW i \in DOMAIN segs[n],
                    NEW j \in DOMAIN segs[n], j < i, segs[n][j].st = "torn"
             PROVE  FALSE
    BY DEF BehindTorn
<1>1. segs[n] \in Seq(Frame) /\ j = Len(segs[n])
      BY DEF TypeOK, TornInv
<1> QED BY <1>1

LEMMA Safe == "count" \notin Faults /\ Inv /\ TornInv => SafeInv
BY NothingBehind DEF Inv, TypeInv, LogInv, DamageContained, SafeInv

(* Write acknowledges, enforceTotal evicts, two drainers deliver, mark and *)
(* delete without the lock, the process crashes at any step: a batch whose *)
(* Write returned nil was delivered or evicted, or can still be read.      *)
THEOREM NothingLost == ASSUME Reliable PROVE Spec => []NoSilentLoss
<1>1. Inv /\ TornInv => NoSilentLoss
      BY Safe DEF Reliable, SafeInv, Recorded, NoSilentLoss
<1> QED BY <1>1, TornCorrect, PTL

(* drainOnce lists the directory first and reads the active path after, so *)
(* it never deletes the segment Write appends to.                          *)
THEOREM OpenSegmentKept == ASSUME Spaced PROVE Spec => []OpenSegmentLinked
<1>1. Inv => OpenSegmentLinked
      BY DEF Inv, LogInv
<1> QED BY <1>1, InvCorrect, PTL

LEMMA OpenIsFresh == Inv /\ OpenNew => seg' \notin linked
BY FreshName DEF OpenNew, Used, Known

(* With a second between two processes, every segment a process opens is a *)
(* file of its own: none is appended to by two processes.                  *)
THEOREM NamesFresh == ASSUME Spaced PROVE Spec => FreshNames
<1>1. Inv /\ [Next]_vars => [segSeq' > segSeq /\ seg' # None => seg' \notin linked]_vars
  <2> DEFINE Fresh == segSeq' > segSeq /\ seg' # None => seg' \notin linked
  <2> SUFFICES ASSUME Inv, Next PROVE Fresh
      OBVIOUS
  <2>1. segSeq \in Int /\ segSeq >= 0
        BY DEF Inv, TypeInv, TypeOK
  <2>2. segSeq' = segSeq \/ segSeq' = 0 => Fresh
        BY <2>1
  <2>3. ASSUME NEW w \in Writers, WriteStep(w) PROVE Fresh
        BY <2>2, <2>3, OpenIsFresh
           DEF WriteStep, WriteLock, AppendRecord, AppendFails, Rotate, WriteReturns,
               CountVictim, EvictVictim, OpenFails, procVars
  <2>4. ASSUME NEW d \in Drainers, DrainStep(d) \/ Cancel(d) PROVE Fresh
        BY <2>2, <2>4
           DEF DrainStep, ListSegments, ReadActive, NextSegment, Deliver, MarkConsumed, AbortPass,
               ReadFails, StreamEnd, RemoveDrained, EndPass, DrainerReturns, Cancel,
               DrainStutter, procVars
  <2>5. CASE FlushBegin \/ Close \/ Tick \/ Restart \/ Terminated
        BY <2>2, <2>5
           DEF FlushBegin, Close, Tick, Restart, Terminated, DrainStutter, vars, procVars
  <2>6. CASE \E w \in Writers, b \in Batches : WriteBegin(w, b)
        BY <2>2, <2>6 DEF WriteBegin, procVars
  <2> HIDE DEF Fresh
  <2> QED BY <2>3, <2>4, <2>5, <2>6 DEF Next
<1> QED BY <1>1, InvCorrect, PTL DEF Spec, FreshNames

-----------------------------------------------------------------------------
(* Where each batch is, and what each drainer has handed over.             *)
HandInv == WriterInv /\ UniqueInv /\ ("mark" \notin Faults => SentInv)

LEMMA AppendWritten ==
  ASSUME NEW b \in Batches, written \in Seq(Batches), written' = Append(written, b)
  PROVE  /\ Stored' = Stored \cup {b}
         /\ DOMAIN written' = DOMAIN written \cup {Len(written) + 1}
         /\ \A k \in DOMAIN written : written'[k] = written[k] /\ k < Len(written) + 1
         /\ written'[Len(written) + 1] = b
<1>1. /\ DOMAIN written = 1 .. Len(written) /\ Len(written) \in Nat
      /\ DOMAIN written' = 1 .. Len(written) + 1
      /\ \A k \in 1 .. Len(written) : written'[k] = written[k]
      /\ written'[Len(written) + 1] = b
      OBVIOUS
<1>2. DOMAIN written' = DOMAIN written \cup {Len(written) + 1}
      BY <1>1
<1>3. \A k \in DOMAIN written : written'[k] = written[k] /\ k < Len(written) + 1
      BY <1>1
<1> QED BY <1>1, <1>2, <1>3 DEF Stored

LEMMA WriterKept ==
  ASSUME WriterInv, tried \subseteq tried', written' = written,
         \A w \in Writers : Pending(w)' => Pending(w) /\ wbatch'[w] = wbatch[w]
  PROVE  WriterInv'
BY DEF WriterInv, Stored

LEMMA WriterStep ==
  ASSUME TypeInv, WriterInv, [Next]_vars
  PROVE  WriterInv'
<1>1. /\ wpc \in [Writers -> {"idle", "lock", "append", "rotate", "enforce", "evict"}]
      /\ wbatch \in [Writers -> Batches \cup {None}] /\ written \in Seq(Batches)
      BY DEF TypeInv, TypeOK
<1>2. ASSUME UNCHANGED <<tried, written, wbatch>>, \A v \in Writers : Pending(v)' => Pending(v)
      PROVE  WriterInv'
      BY <1>2, WriterKept
<1>3. ASSUME NEW w \in Writers, WriteStep(w), ~AppendRecord(w), ~AppendFails(w) PROVE WriterInv'
  <2>1. UNCHANGED <<tried, written, wbatch>>
        BY <1>3 DEF WriteStep, WriteLock, Rotate, WriteReturns, CountVictim, EvictVictim, history
  <2>2. \/ wpc[w] = "lock"
        \/ \E l \in {"idle", "enforce", "evict"} : wpc' = [wpc EXCEPT ![w] = l]
        BY <1>3 DEF WriteStep, WriteLock, Rotate, WriteReturns, CountVictim, EvictVictim
  <2>3. \E l : wpc' = [wpc EXCEPT ![w] = l]
        BY <1>3 DEF WriteStep, WriteLock, Rotate, WriteReturns, CountVictim, EvictVictim
  <2>4. \A v \in Writers : Pending(v)' => Pending(v)
        BY <1>1, <2>2, <2>3 DEF Pending
  <2> QED BY <1>2, <2>1, <2>4
<1>4. ASSUME NEW w \in Writers, AppendRecord(w) \/ AppendFails(w) PROVE WriterInv'
  <2>1. /\ UNCHANGED <<tried, wbatch>> /\ Pending(w)
        /\ \E l \in {"rotate", "idle"} : wpc' = [wpc EXCEPT ![w] = l]
        BY <1>4 DEF AppendRecord, AppendFails, Pending
  <2>2. \A v \in Writers : Pending(v)' => Pending(v) /\ v # w
        BY <1>1, <2>1 DEF Pending
  <2>3. CASE UNCHANGED written
        BY <1>2, <2>1, <2>2, <2>3
  <2>4. CASE written' = Append(written, wbatch[w])
    <3>1. wbatch[w] \in tried \ Stored /\ wbatch[w] \in Batches
          BY <2>1 DEF WriterInv, Pending, TypeInv, LockInv
    <3>2. Stored' = Stored \cup {wbatch[w]}
          BY <1>1, <2>4, <3>1, AppendWritten
    <3>3. \A v \in Writers : Pending(v)' => wbatch[v] # wbatch[w]
          BY <2>1, <2>2 DEF WriterInv
    <3> QED BY <2>1, <2>2, <3>1, <3>2, <3>3 DEF WriterInv
  <2> QED BY <1>4, <2>3, <2>4 DEF AppendRecord, AppendFails
<1>5. ASSUME NEW w \in Writers, NEW b \in Batches, WriteBegin(w, b) PROVE WriterInv'
  <2> USE DEF WriteBegin
  <2>1. /\ wbatch'[w] = b /\ wpc'[w] = "lock" /\ b \notin tried /\ tried' = tried \cup {b}
        /\ \A v \in Writers \ {w} : wbatch'[v] = wbatch[v] /\ wpc'[v] = wpc[v]
        BY <1>1, <1>5
  <2>2. Stored' = Stored
        BY <1>5 DEF Stored
  <2>3. \A v \in Writers \ {w} : Pending(v)' => Pending(v) /\ wbatch'[v] = wbatch[v]
        BY <2>1 DEF Pending
  <2>4. \A v \in Writers \ {w} : Pending(v)' => wbatch'[v] \in tried \ Stored
        BY <2>3 DEF WriterInv
  <2>5. b \in tried' \ Stored'
        BY <2>1, <2>2 DEF WriterInv
  <2>6. \A v \in Writers : Pending(v)' => wbatch'[v] \in tried' \ Stored'
        BY <2>1, <2>2, <2>4, <2>5
  <2>7. ASSUME NEW x \in Writers, NEW v \in Writers, Pending(x)', Pending(v)', x # v
        PROVE  wbatch'[x] # wbatch'[v]
        BY <2>1, <2>3, <2>4, <2>7 DEF WriterInv
  <2>8. Stored' \subseteq tried'
        BY <2>1, <2>2 DEF WriterInv
  <2> QED BY <2>6, <2>7, <2>8 DEF WriterInv
<1>6. ASSUME \/ (\E d \in Drainers : DrainStep(d) \/ Cancel(d))
             \/ FlushBegin \/ Close \/ Tick \/ UNCHANGED vars
      PROVE  WriterInv'
  <2>1. UNCHANGED <<tried, written, wbatch, wpc>>
        BY <1>6 DEF DrainStep, ListSegments, ReadActive, NextSegment, Deliver, MarkConsumed,
           AbortPass, ReadFails, StreamEnd, RemoveDrained, EndPass, DrainerReturns,
           DrainStutter, Cancel,
           FlushBegin, Close, Tick, vars, writeVars, history
  <2> QED BY <1>2, <2>1 DEF Pending
<1>7. CASE Restart
  <2>1. /\ UNCHANGED <<tried, written>> /\ \A w \in Writers : ~Pending(w)'
        BY <1>7 DEF Restart, Pending
  <2> QED BY <2>1, WriterKept
<1> QED BY <1>3, <1>4, <1>5, <1>6, <1>7 DEF Next, Terminated

(* No whole record appears and no live one, and none changes its batch.    *)
NoneAppears ==
  \A n \in Names : \A i \in DOMAIN segs'[n] :
    Whole(n, i)' =>
      /\ i \in DOMAIN segs[n] /\ Whole(n, i) /\ segs'[n][i].batch = segs[n][i].batch
      /\ segs'[n][i].st = "live" => segs[n][i].st = "live"

LEMMA UniqueKept ==
  ASSUME UniqueInv, Stored \subseteq Stored',
         \A n \in Names : \A i \in DOMAIN segs'[n] : Whole(n, i)' =>
           i \in DOMAIN segs[n] /\ Whole(n, i) /\ segs'[n][i].batch = segs[n][i].batch
  PROVE  UniqueInv'
BY DEF UniqueInv

LEMMA SentKept ==
  ASSUME NEW d \in Drainers, SentOK(d), sent'[d] = sent[d], Stored \subseteq Stored', NoneAppears,
         dpc[d] = "mark" => dpc'[d] = "mark" /\ cur'[d] = cur[d] /\ pos'[d] = pos[d]
  PROVE  SentOK(d)'
<1> SUFFICES ASSUME NEW n \in Names, NEW i \in DOMAIN segs'[n],
                    segs'[n][i].st = "live", segs'[n][i].batch \in sent[d]
             PROVE  dpc'[d] = "mark" /\ n = cur'[d] /\ i = pos'[d]
    BY DEF SentOK
<1>1. Whole(n, i)'
      BY DEF Whole
<1>2. i \in DOMAIN segs[n] /\ segs[n][i].st = "live" /\ segs[n][i].batch \in sent[d]
      BY <1>1 DEF NoneAppears
<1> QED BY <1>2 DEF SentOK

LEMMA QuietHands ==
  ASSUME HandInv, WriterInv', NoneAppears, UNCHANGED written,
         \A d \in Drainers :
           /\ sent'[d] = sent[d]
           /\ dpc[d] = "mark" => dpc'[d] = "mark" /\ cur'[d] = cur[d] /\ pos'[d] = pos[d]
  PROVE  HandInv'
<1>1. Stored' = Stored
      BY DEF Stored
<1>2. UniqueInv'
      BY <1>1, UniqueKept DEF HandInv, NoneAppears
<1>3. "mark" \notin Faults => SentInv'
      BY <1>1, SentKept DEF HandInv, SentInv
<1> QED BY <1>2, <1>3 DEF HandInv

LEMMA AppendHands ==
  ASSUME TypeInv, HandInv, WriterInv', NEW w \in Writers, AppendRecord(w) \/ AppendFails(w)
  PROVE  HandInv'
<1> USE DEF AppendRecord, AppendFails, procVars, drainVars
<1>1. /\ seg \in Names /\ wbatch[w] \in Batches /\ wbatch[w] \notin Stored
      /\ segs \in [Names -> Seq(Frame)] /\ written \in Seq(Batches)
      BY DEF TypeInv, TypeOK, LockInv, HandInv, WriterInv, Pending
<1>2. \A d \in Drainers : sent'[d] = sent[d] /\ dpc'[d] = dpc[d] /\ cur'[d] = cur[d] /\ pos'[d] = pos[d]
      OBVIOUS
<1>3. CASE UNCHANGED <<segs, written>>
  <2>1. NoneAppears
        BY <1>3 DEF NoneAppears, Whole
  <2> QED BY <1>2, <1>3, <2>1, QuietHands
<1>4. ASSUME NEW st \in {"live", "torn"}, segs' = Appended(w, st),
             written' = IF st = "live" THEN Append(written, wbatch[w]) ELSE written
      PROVE  HandInv'
  <2> DEFINE last == Len(segs[seg]) + 1
  <2>1. /\ \A m \in Names \ {seg} : segs'[m] = segs[m]
        /\ Len(segs'[seg]) = last /\ segs'[seg] \in Seq(Frame)
        /\ \A i \in DOMAIN segs[seg] : segs'[seg][i] = segs[seg][i]
        /\ segs'[seg][last] = [batch |-> wbatch[w], st |-> st]
    <3>1. segs' \in [Names -> Seq(Frame)]
          BY <1>1, <1>4, AppendedType DEF TypeInv
    <3> QED BY <1>1, <1>4, <3>1, AppendedType DEF TypeInv
  <2>2. ASSUME NEW n \in Names, NEW i \in DOMAIN segs'[n]
        PROVE  \/ n = seg /\ i = last
               \/ i \in DOMAIN segs[n] /\ segs'[n][i] = segs[n][i]
        BY <1>1, <2>1, <2>2
  <2>3. Stored \subseteq Stored' /\ (st = "live" => Stored' = Stored \cup {wbatch[w]})
        BY <1>1, <1>4, AppendWritten DEF Stored
  <2> HIDE DEF last
  <2>4. ASSUME NEW n \in Names, NEW i \in DOMAIN segs'[n], Whole(n, i)'
        PROVE  \/ n = seg /\ i = last /\ st = "live" /\ segs'[n][i].batch = wbatch[w]
               \/ /\ i \in DOMAIN segs[n] /\ Whole(n, i) /\ segs'[n][i] = segs[n][i]
                  /\ segs[n][i].batch \in Stored
    <3>1. CASE n = seg /\ i = last
          BY <2>1, <2>4, <3>1 DEF Whole
    <3>2. CASE i \in DOMAIN segs[n] /\ segs'[n][i] = segs[n][i]
      <4>1. Whole(n, i)
            BY <2>4, <3>2 DEF Whole
      <4> QED BY <3>2, <4>1 DEF HandInv, UniqueInv
    <3> QED BY <2>2, <3>1, <3>2
  <2>5. UniqueInv'
    <3> SUFFICES ASSUME NEW m \in Names, NEW n \in Names, NEW i \in DOMAIN segs'[m],
                        NEW j \in DOMAIN segs'[n], Whole(m, i)'
                 PROVE  /\ segs'[m][i].batch \in Stored'
                        /\ Whole(n, j)' /\ segs'[m][i].batch = segs'[n][j].batch => m = n /\ i = j
        BY DEF UniqueInv
    <3>1. segs'[m][i].batch \in Stored'
          BY <2>3, <2>4
    <3>2. ASSUME Whole(n, j)', segs'[m][i].batch = segs'[n][j].batch PROVE m = n /\ i = j
      <4>1. CASE m = seg /\ i = last /\ segs'[m][i].batch = wbatch[w]
            BY <1>1, <2>4, <3>2, <4>1
      <4>2. CASE /\ i \in DOMAIN segs[m] /\ Whole(m, i) /\ segs'[m][i] = segs[m][i]
                 /\ segs[m][i].batch \in Stored
        <5>1. /\ j \in DOMAIN segs[n] /\ Whole(n, j) /\ segs'[n][j] = segs[n][j]
              BY <1>1, <2>4, <3>2, <4>2
        <5> QED BY <3>2, <4>2, <5>1 DEF HandInv, UniqueInv
      <4> QED BY <2>4, <4>1, <4>2
    <3> QED BY <3>1, <3>2
  <2>6. ASSUME "mark" \notin Faults, NEW d \in Drainers PROVE SentOK(d)'
    <3>1. SentOK(d) /\ sent[d] \subseteq Stored
          BY <2>6 DEF HandInv, SentInv, SentOK
    <3> SUFFICES ASSUME NEW n \in Names, NEW i \in DOMAIN segs'[n],
                        segs'[n][i].st = "live", segs'[n][i].batch \in sent[d]
                 PROVE  dpc[d] = "mark" /\ n = cur[d] /\ i = pos[d]
        BY <1>2, <2>3, <3>1 DEF SentOK
    <3>2. Whole(n, i)' /\ segs'[n][i].batch # wbatch[w]
          BY <1>1, <3>1 DEF Whole
    <3>3. i \in DOMAIN segs[n] /\ segs'[n][i] = segs[n][i]
          BY <2>4, <3>2
    <3> QED BY <3>1, <3>3 DEF SentOK
  <2> QED BY <2>5, <2>6 DEF HandInv, SentInv
<1> QED BY <1>3, <1>4

LEMMA DrainHands ==
  ASSUME Inv, HandInv, WriterInv', NEW d \in Drainers, DrainStep(d)
  PROVE  HandInv'
<1>1. /\ UNCHANGED written /\ Stored' = Stored /\ TypeOK
      BY DEF DrainStep, ListSegments, ReadActive, NextSegment, Deliver, MarkConsumed, AbortPass,
         ReadFails, StreamEnd, RemoveDrained, EndPass, DrainerReturns, DrainStutter, Stored,
         Inv, TypeInv
<1>2. NoneAppears
  <2>1. Aged
        BY DrainAges
  <2> QED BY <2>1 DEF Aged, NoneAppears, Whole
<1>3. \A e \in Drainers \ {d} :
        sent'[e] = sent[e] /\ dpc'[e] = dpc[e] /\ cur'[e] = cur[e] /\ pos'[e] = pos[e]
      BY <1>1 DEF DrainStep, ListSegments, ReadActive, NextSegment, Deliver, MarkConsumed, AbortPass,
         ReadFails, StreamEnd, RemoveDrained, EndPass, DrainerReturns, DrainStutter, Goto, TypeOK
<1>4. UniqueInv'
      BY <1>1, <1>2, UniqueKept DEF HandInv, NoneAppears
<1>5. ASSUME "mark" \notin Faults PROVE SentOK(d)'
  <2>1. SentOK(d)
        BY <1>5 DEF HandInv, SentInv
  <2>2. CASE Deliver(d)
    <3>1. PICK p \in Ahead(d) :
            /\ pos' = [pos EXCEPT ![d] = p]
            /\ sent' = [sent EXCEPT ![d] = @ \cup {segs[cur[d]][p].batch}]
          BY <2>2 DEF Deliver
    <3>2. /\ dpc[d] = "stream" /\ dpc'[d] = "mark" /\ pos'[d] = p /\ cur'[d] = cur[d]
          /\ segs' = segs /\ sent'[d] = sent[d] \cup {segs[cur[d]][p].batch} /\ cur[d] \in Names
          BY <1>1, <2>2, <3>1 DEF Deliver, Goto, TypeOK, Inv, TypeInv, CursorInv
    <3>3. p \in DOMAIN segs[cur[d]] /\ Whole(cur[d], p)
          BY <3>1 DEF Ahead, Readable, Whole
    <3>4. segs[cur[d]][p].batch \in Stored
          BY <3>2, <3>3 DEF HandInv, UniqueInv
    <3>5. ASSUME NEW n \in Names, NEW i \in DOMAIN segs[n],
                 segs[n][i].st = "live", segs[n][i].batch \in sent'[d]
          PROVE  n = cur[d] /\ i = p
      <4>1. Whole(n, i) /\ segs[n][i].batch \notin sent[d]
            BY <2>1, <3>2, <3>5 DEF Whole, SentOK
      <4> QED BY <3>2, <3>3, <3>5, <4>1 DEF HandInv, UniqueInv
    <3> QED BY <1>1, <2>1, <3>2, <3>4, <3>5 DEF SentOK
  <2>3. CASE MarkConsumed(d)
    <3>1. /\ dpc[d] = "mark" /\ sent' = sent /\ segs' = Marked(cur[d], pos[d]) /\ cur[d] \in Names
          BY <1>5, <2>3 DEF MarkConsumed, Inv, TypeInv, CursorInv
    <3>2. pos[d] \in DOMAIN segs[cur[d]]
          BY <3>1 DEF Inv, LogInv, DrainInv, DrainOK
    <3>3. segs'[cur[d]][pos[d]].st # "live"
          BY <1>1, <3>1, <3>2, MarkedType
    <3>4. ASSUME NEW n \in Names, NEW i \in DOMAIN segs'[n],
                 segs'[n][i].st = "live", segs'[n][i].batch \in sent[d]
          PROVE  FALSE
      <4>1. i \in DOMAIN segs[n] /\ segs[n][i].st = "live" /\ segs[n][i].batch \in sent[d]
            BY <1>2, <3>4 DEF NoneAppears, Whole
      <4>2. n = cur[d] /\ i = pos[d]
            BY <2>1, <4>1 DEF SentOK
      <4> QED BY <3>3, <3>4, <4>2
    <3> QED BY <1>1, <2>1, <3>1, <3>4 DEF SentOK
  <2>4. CASE ~Deliver(d) /\ ~MarkConsumed(d)
    <3>1. dpc[d] # "mark" /\ sent' = sent
          BY <2>4 DEF DrainStep, ListSegments, ReadActive, NextSegment, AbortPass,
             ReadFails, StreamEnd, RemoveDrained, EndPass, DrainerReturns
    <3> QED BY <1>1, <1>2, <2>1, <3>1, SentKept
  <2> QED BY <2>2, <2>3, <2>4
<1>6. ASSUME "mark" \notin Faults, NEW e \in Drainers \ {d} PROVE SentOK(e)'
      BY <1>1, <1>2, <1>3, <1>6, SentKept DEF HandInv, SentInv
<1> QED BY <1>4, <1>5, <1>6 DEF HandInv, SentInv

LEMMA HandStep ==
  ASSUME Inv, HandInv, [Next]_vars
  PROVE  HandInv'
<1>1. WriterInv'
      BY WriterStep DEF Inv, HandInv
<1>2. ASSUME UNCHANGED <<segs, written, sent, cur, pos>>,
             \A d \in Drainers : dpc[d] = "mark" => dpc'[d] = "mark"
      PROVE  HandInv'
  <2>1. NoneAppears
        BY <1>2 DEF NoneAppears, Whole
  <2> QED BY <1>1, <1>2, <2>1, QuietHands
<1>3. ASSUME NEW w \in Writers, WriteStep(w) PROVE HandInv'
  <2>1. CASE AppendRecord(w) \/ AppendFails(w)
        BY <1>1, <2>1, AppendHands DEF Inv
  <2>2. CASE ~AppendRecord(w) /\ ~AppendFails(w)
    <3>1. UNCHANGED <<written, sent, cur, pos, dpc>> /\ (UNCHANGED segs \/ OpenNew)
          BY <1>3, <2>2 DEF WriteStep, WriteLock, Rotate, OpenFails, WriteReturns, CountVictim,
             EvictVictim, history, drainVars
    <3> QED BY <1>2, <3>1, FreshName
  <2> QED BY <2>1, <2>2
<1>4. ASSUME NEW d \in Drainers, DrainStep(d) PROVE HandInv'
      BY <1>1, <1>4, DrainHands
<1>5. CASE Restart
  <2>1. TypeInv /\ UNCHANGED written /\ \A d \in Drainers : sent'[d] = {}
        BY <1>5 DEF Restart, Inv
  <2>2. Stored' = Stored
        BY <2>1 DEF Stored
  <2>3. \A n \in Names : \A i \in DOMAIN segs'[n] : Whole(n, i)' =>
           i \in DOMAIN segs[n] /\ Whole(n, i) /\ segs'[n][i].batch = segs[n][i].batch
    <3> SUFFICES ASSUME NEW n \in Names, NEW i \in DOMAIN segs'[n], Whole(n, i)'
                 PROVE  i \in DOMAIN segs[n] /\ Whole(n, i) /\ segs'[n][i].batch = segs[n][i].batch
        OBVIOUS
    <3>1. i \in DOMAIN segs[n]
          BY <1>5, <2>1, RestartSegs DEF Whole
    <3>2. segs[n][i].st # "torn" /\ segs'[n][i].batch = segs[n][i].batch
          BY <1>5, <2>1, <3>1, RestartSegs DEF Whole
    <3> QED BY <3>1, <3>2 DEF Whole
  <2>4. UniqueInv'
        BY <2>2, <2>3, UniqueKept DEF HandInv
  <2>5. SentInv'
        BY <2>1 DEF SentInv, SentOK
  <2> QED BY <1>1, <2>4, <2>5 DEF HandInv
<1>6. CASE \/ FlushBegin \/ Close \/ Tick \/ (\E d \in Drainers : Cancel(d)) \/ UNCHANGED vars
           \/ (\E w \in Writers, b \in Batches : WriteBegin(w, b))
  <2>1. UNCHANGED <<segs, written, sent, cur, pos>>
        BY <1>6 DEF FlushBegin, Close, Tick, Cancel, WriteBegin, DrainStutter, drainVars, history, vars
  <2>2. \A d \in Drainers : dpc[d] = "mark" => dpc'[d] = "mark"
        BY <1>6 DEF FlushBegin, Close, Tick, Cancel, WriteBegin, drainVars, vars, Goto, Inv, TypeInv, TypeOK
  <2> QED BY <1>2, <2>1, <2>2
<1> QED BY <1>3, <1>4, <1>5, <1>6 DEF Next, Terminated

LEMMA HandsCorrect == ASSUME Spaced PROVE Spec => [](Inv /\ HandInv)
<1>1. Init => HandInv
  <2> SUFFICES ASSUME Init PROVE HandInv
      OBVIOUS
  <2>1. /\ Stored = {} /\ \A w \in Writers : ~Pending(w)
        BY DEF Init, Stored, Pending
  <2>2. \A n \in Names : DOMAIN segs[n] = {}
        BY DEF Init
  <2>3. \A d \in Drainers : sent[d] = {}
        BY DEF Init
  <2> QED BY <2>1, <2>2, <2>3 DEF HandInv, WriterInv, UniqueInv, SentInv, SentOK
<1>2. Inv /\ HandInv /\ [Next]_vars => HandInv'
      BY HandStep
<1> QED BY <1>1, <1>2, InvCorrect, PTL DEF Spec

(* The invariant the runs check under every fault.                         *)
THEOREM DamageCorrect == ASSUME Spaced PROVE Spec => []DamageInv
<1>1. Inv /\ HandInv => DamageInv
      BY DEF Inv, TypeInv, LogInv, HandInv, DamageInv
<1> QED BY <1>1, HandsCorrect, PTL

(* Unless writing the status byte fails, no drainer offers the same batch  *)
(* to the callback twice in one process, however drainLoop and Flush       *)
(* overlap and however often their passes fail and begin again.            *)
THEOREM HandedOverOnce ==
  ASSUME Spaced, "mark" \notin Faults
  PROVE  Spec => NoSecondHandover
<1> DEFINE Once == \A d \in Drainers :
              dpc[d] = "stream" /\ dpc'[d] = "mark" => segs[cur[d]][pos'[d]].batch \notin sent[d]
<1>1. Inv /\ HandInv /\ [Next]_vars => [Once]_vars
  <2> SUFFICES ASSUME Inv, HandInv, Next, NEW d \in Drainers, dpc[d] = "stream", dpc'[d] = "mark"
               PROVE  segs[cur[d]][pos'[d]].batch \notin sent[d]
      OBVIOUS
  <2>1. Deliver(d)
    <3>1. dpc \in [Drainers -> {"off", "wait", "active", "next", "stream", "mark", "remove", "done"}]
          BY DEF Inv, TypeInv, TypeOK
    <3>2. PICK e \in Drainers : DrainStep(e)
          BY <3>1 DEF Next, WriteStep, WriteBegin, WriteLock, AppendRecord, AppendFails, Rotate,
             WriteReturns, CountVictim, EvictVictim, Cancel, FlushBegin, Close, Tick, Restart,
             Terminated, Goto, drainVars, vars
    <3>3. e = d
          BY <3>1, <3>2 DEF DrainStep, ListSegments, ReadActive, NextSegment, Deliver, MarkConsumed,
             AbortPass, ReadFails, StreamEnd, RemoveDrained, EndPass, DrainerReturns, Goto
    <3>4. ~(\/ ListSegments(d) \/ ReadActive(d) \/ NextSegment(d) \/ MarkConsumed(d)
            \/ RemoveDrained(d) \/ EndPass(d) \/ DrainerReturns(d))
          BY DEF ListSegments, ReadActive, NextSegment, MarkConsumed, RemoveDrained, EndPass,
             DrainerReturns
    <3>5. ~AbortPass(d) /\ ~ReadFails(d)
          BY <3>1 DEF AbortPass, ReadFails, AfterAbort, Goto
    <3>6. ~StreamEnd(d)
          BY <3>1 DEF StreamEnd, AfterStream, Goto
    <3> QED BY <3>2, <3>3, <3>4, <3>5, <3>6 DEF DrainStep
  <2>2. PICK p \in Ahead(d) : pos' = [pos EXCEPT ![d] = p]
        BY <2>1 DEF Deliver
  <2>3. pos'[d] = p /\ cur[d] \in Names
        BY <2>2 DEF Inv, TypeInv, TypeOK, CursorInv
  <2>4. p \in DOMAIN segs[cur[d]] /\ segs[cur[d]][p].st = "live"
        BY <2>2 DEF Ahead, Readable
  <2> QED BY <2>3, <2>4 DEF HandInv, SentInv, SentOK
<1> QED BY <1>1, HandsCorrect, PTL DEF Spec, NoSecondHandover

-----------------------------------------------------------------------------
(* Part three: the buffer implements SignalLog.  Batches are handed over   *)
(* for the first time in the order in which they were appended, and only   *)
(* the oldest are evicted.                                                 *)

FullInv == Inv /\ HandInv /\ TornInv /\ SequenceInv

LEMMA OlderIsStrict ==
  ASSUME NEW m \in Names, NEW n \in Names, Older(m, n)
  PROVE  m # n /\ ~Older(n, m)
<1>1. m[1] \in Int /\ m[2] \in Int /\ n[1] \in Int /\ n[2] \in Int
      BY NamesType
<1> QED BY <1>1 DEF Older

LEMMA FreshIsNewest ==
  ASSUME Inv, OpenNew
  PROVE  /\ NextName \in Names /\ NextName \notin Known
         /\ \A n \in Known : Older(n, NextName)
<1>1. NextName \in Names
      BY NextNameType DEF OpenNew, Inv, TypeInv
<1>2. NextName[1] = now /\ NextName[2] = segSeq + 1 /\ now \in Int /\ segSeq \in Int
      BY DEF NextName, Inv, TypeInv, TypeOK
<1>3. ASSUME NEW n \in Known PROVE Older(n, NextName)
  <2>1. n[1] \in Int /\ n[2] \in Int
        BY HeldNames, NamesType DEF Inv
  <2>2. NameInv /\ n \in Used
        BY DEF Inv, LogInv, Used
  <2>3. n[1] <= now /\ (n[2] <= segSeq \/ n[1] < now)
        BY <2>2 DEF NameInv
  <2>4. n[1] < now \/ (n[1] = now /\ n[2] < segSeq + 1)
        BY ONLY <1>2, <2>1, <2>3
  <2> QED BY <1>2, <2>4 DEF Older
<1> QED BY <1>1, <1>3, OlderIsStrict

-----------------------------------------------------------------------------
(* How each part of the invariant survives a step.                         *)

LEMMA NewestKept ==
  ASSUME NewestInv, Known' \subseteq Known, segPath' \in {segPath, None}
  PROVE  NewestInv'
BY DEF NewestInv

(* No whole record appears in a known segment, and none changes its batch. *)
NoNewRecords ==
  \A n \in Known' : \A i \in DOMAIN segs'[n] : Whole(n, i)' =>
    n \in Known /\ Whole(n, i) /\ segs'[n][i].batch = segs[n][i].batch

LEMMA OrderKept ==
  ASSUME OrderInv, NoNewRecords, written' = written
  PROVE  OrderInv'
<1>1. Stored' = Stored
      BY DEF Stored
<1>2. ASSUME NEW n \in Known', NEW i \in DOMAIN segs'[n], Whole(n, i)'
      PROVE  segs'[n][i].batch \in Stored'
  <2>1. n \in Known /\ Whole(n, i) /\ segs'[n][i].batch = segs[n][i].batch
        BY <1>2 DEF NoNewRecords
  <2> QED BY <1>1, <2>1 DEF OrderInv, Whole
<1>3. ASSUME NEW m \in Known', NEW n \in Known',
             NEW i \in DOMAIN segs'[m], NEW j \in DOMAIN segs'[n],
             NEW k \in DOMAIN written', NEW l \in DOMAIN written',
             Whole(m, i)', segs'[m][i].batch = written'[k],
             Whole(n, j)', segs'[n][j].batch = written'[l], k < l
      PROVE  Older(m, n) \/ (m = n /\ i < j)
  <2>1. m \in Known /\ Whole(m, i) /\ segs'[m][i].batch = segs[m][i].batch
        BY <1>3 DEF NoNewRecords
  <2>2. n \in Known /\ Whole(n, j) /\ segs'[n][j].batch = segs[n][j].batch
        BY <1>3 DEF NoNewRecords
  <2>3. i \in DOMAIN segs[m] /\ j \in DOMAIN segs[n]
        BY <2>1, <2>2 DEF Whole
  <2> QED BY <1>3, <2>1, <2>2, <2>3 DEF OrderInv
<1> QED BY <1>2, <1>3 DEF OrderInv

LEMMA VictimKept ==
  ASSUME VictimInv, linked' \subseteq linked, victim' = victim,
         \A w \in Writers : wpc'[w] = "evict" => wpc[w] = "evict"
  PROVE  VictimInv'
BY DEF VictimInv

(* No record of a segment becomes readable.                                *)
NoNewReadable(n) ==
  \A i \in DOMAIN segs'[n] : Readable(n, i)' =>
    Readable(n, i) /\ segs'[n][i].batch = segs[n][i].batch

(* A drainer that does not move, while no older segment than those it has  *)
(* before it gets a record to read, nor the part it has passed of its own. *)
LEMMA PassKept ==
  ASSUME NEW d \in Drainers, PassOK(d), delivered \subseteq delivered',
         dpc'[d] = dpc[d], todo'[d] = todo[d], cur'[d] = cur[d], pos'[d] = pos[d],
         \A m \in linked' \ Held(d) :
           (m \in linked /\ NoNewReadable(m)) \/ \A t \in Held(d) : ~Older(m, t),
         dpc[d] \in {"stream", "mark"} =>
           \A i \in DOMAIN segs[cur[d]] :
             /\ i \in DOMAIN segs'[cur[d]]
             /\ Readable(cur[d], i)' =>
                  Readable(cur[d], i) /\ segs'[cur[d]][i].batch = segs[cur[d]][i].batch
  PROVE  PassOK(d)'
<1>1. Held(d)' = Held(d) /\ Working(d)' = Working(d)
      BY DEF Held, Working
<1>2. ASSUME Working(d), NEW m \in linked' \ Held(d), NEW t \in Held(d), Older(m, t)
      PROVE  AllDelivered(m)'
  <2>1. m \in linked /\ NoNewReadable(m)
        BY <1>2
  <2>2. AllDelivered(m)
        BY <1>2, <2>1 DEF PassOK
  <2>3. ASSUME NEW i \in DOMAIN segs'[m], Readable(m, i)'
        PROVE  segs'[m][i].batch \in delivered'
    <3>1. Readable(m, i) /\ segs'[m][i].batch = segs[m][i].batch
          BY <2>1, <2>3 DEF NoNewReadable
    <3> QED BY <2>2, <3>1 DEF AllDelivered, Readable
  <2> QED BY <2>3 DEF AllDelivered
<1>3. dpc'[d] \in {"stream", "mark", "remove"} => \A t \in todo'[d] : Older(cur'[d], t)
      BY DEF PassOK
<1>4. ASSUME dpc[d] \in {"stream", "mark"}, NEW i \in 1 .. pos[d] - 1
      PROVE  /\ i \in DOMAIN segs'[cur'[d]]
             /\ Readable(cur[d], i)' => segs'[cur'[d]][i].batch \in delivered'
      BY <1>4 DEF PassOK
<1> QED BY <1>1, <1>2, <1>3, <1>4 DEF PassOK

-----------------------------------------------------------------------------
(* A step that changes no segment and no drainer, and may remove files.    *)
LEMMA QuietSequence ==
  ASSUME FullInv, UNCHANGED <<segs, drainVars, delivered, written>>, linked' \subseteq linked,
         segPath' \in {segPath, None}, VictimInv'
  PROVE  SequenceInv'
<1> USE DEF drainVars
<1>1. Known' \subseteq Known
      BY DEF Known, Held
<1>2. NewestInv'
      BY <1>1, NewestKept DEF FullInv, SequenceInv
<1>3. OrderInv'
  <2>1. NoNewRecords
        BY <1>1 DEF NoNewRecords, Whole
  <2> QED BY <2>1, OrderKept DEF FullInv, SequenceInv
<1>4. ASSUME DrainersSee PROVE PassInv'
  <2> SUFFICES ASSUME NEW d \in Drainers PROVE PassOK(d)'
      BY DEF PassInv
  <2>1. \A m \in linked' : m \in linked /\ NoNewReadable(m)
        BY DEF NoNewReadable, Readable
  <2>2. PassOK(d)
        BY <1>4 DEF FullInv, SequenceInv, PassInv
  <2>3. \A i : Readable(cur[d], i)' => Readable(cur[d], i)
        BY DEF Readable
  <2> QED BY <2>1, <2>2, <2>3, PassKept
<1> QED BY <1>2, <1>3, <1>4 DEF SequenceInv

(* A step that opens a new segment, the newest.                            *)
LEMMA OpenSequence ==
  ASSUME FullInv, OpenNew, UNCHANGED <<drainVars, delivered, written>>,
         \A w \in Writers : wpc'[w] # "evict"
  PROVE  SequenceInv'
<1> USE DEF drainVars
<1>1. /\ NextName \in Names /\ NextName \notin Known
      /\ \A n \in Known : Older(n, NextName)
      BY FreshIsNewest DEF FullInv
<1>2. /\ linked' = linked \cup {NextName} /\ segPath' = NextName
      /\ segs' = [segs EXCEPT ![NextName] = <<>>] /\ segs \in [Names -> Seq(Frame)]
      BY <1>1 DEF OpenNew, Known, FullInv, Inv, TypeInv, TypeOK
<1>3. /\ DOMAIN segs'[NextName] = {}
      /\ \A n \in Names \ {NextName} : segs'[n] = segs[n]
      BY <1>1, <1>2
<1>4. Known' = Known \cup {NextName} /\ \A d \in Drainers : Held(d)' = Held(d)
      BY <1>2 DEF Known, Held
<1>5. Known \subseteq Names /\ \A d \in Drainers : Held(d) \subseteq Known
      BY HeldNames DEF FullInv, Inv, Known
<1>6. NewestInv'
      BY <1>1, <1>2, <1>4 DEF NewestInv
<1>7. OrderInv'
  <2>1. NoNewRecords
        BY <1>1, <1>3, <1>4, <1>5 DEF NoNewRecords, Whole
  <2> QED BY <2>1, OrderKept DEF FullInv, SequenceInv
<1>8. ASSUME DrainersSee PROVE PassInv'
  <2> SUFFICES ASSUME NEW d \in Drainers PROVE PassOK(d)'
      BY DEF PassInv
  <2>1. \A m \in linked' :
          (m \in linked /\ NoNewReadable(m)) \/ \A t \in Held(d) : ~Older(m, t)
    <3>1. \A m \in linked : NoNewReadable(m)
      <4>1. \A m \in linked : segs'[m] = segs[m]
            BY <1>1, <1>3, <1>5 DEF Known
      <4> QED BY <4>1 DEF NoNewReadable, Readable
    <3>2. \A t \in Held(d) : ~Older(NextName, t)
          BY <1>1, <1>5, OlderIsStrict
    <3> QED BY <1>2, <3>1, <3>2
  <2>2. PassOK(d)
        BY <1>8 DEF FullInv, SequenceInv, PassInv
  <2>3. dpc[d] \in {"stream", "mark"} => segs'[cur[d]] = segs[cur[d]]
    <3>1. dpc[d] \in {"stream", "mark"} => cur[d] \in Held(d)
          BY DEF Held
    <3> QED BY <1>1, <1>3, <1>5, <3>1
  <2>4. dpc[d] \in {"stream", "mark"} => \A i : Readable(cur[d], i)' => Readable(cur[d], i)
        BY <2>3 DEF Readable
  <2> QED BY <2>1, <2>2, <2>3, <2>4, PassKept
<1>9. VictimInv'
      BY DEF VictimInv
<1> QED BY <1>6, <1>7, <1>8, <1>9 DEF SequenceInv

(* A step of a drainer: records age, files may go.                         *)
LEMMA AgedReadable ==
  ASSUME TypeOK, Aged, NEW n \in Names
  PROVE  NoNewReadable(n)
<1> SUFFICES ASSUME NEW i \in DOMAIN segs'[n], Readable(n, i)'
             PROVE  Readable(n, i) /\ segs'[n][i].batch = segs[n][i].batch
    BY DEF NoNewReadable
<1>1. i \in DOMAIN segs[n] /\ \A j \in 1 .. i : j \in DOMAIN segs[n]
      BY DEF Aged, TypeOK
<1>2. segs[n][i].st = "live" /\ segs'[n][i].batch = segs[n][i].batch
      BY <1>1 DEF Aged, Readable
<1>3. \A j \in 1 .. i : segs[n][j].st # "torn"
      BY <1>1 DEF Aged, Readable
<1> QED BY <1>1, <1>2, <1>3 DEF Readable

LEMMA DrainerSequence ==
  ASSUME FullInv, NEW d \in Drainers, UNCHANGED DrainStutter, Aged, linked' \subseteq linked,
         delivered \subseteq delivered', Held(d)' \subseteq Known, DrainersSee => PassOK(d)',
         \A e \in Drainers \ {d} :
           dpc'[e] = dpc[e] /\ todo'[e] = todo[e] /\ cur'[e] = cur[e] /\ pos'[e] = pos[e]
  PROVE  SequenceInv'
<1> USE DEF DrainStutter, procVars, writeVars
<1>1. TypeOK /\ linked \subseteq Names
      BY DEF FullInv, Inv, TypeInv, TypeOK
<1>2. Known' \subseteq Known
  <2>1. \A e \in Drainers : Held(e)' \subseteq Known
        BY DEF Held, Known
  <2> QED BY <2>1 DEF Known
<1>4. NewestInv'
      BY <1>2, NewestKept DEF FullInv, SequenceInv
<1>5. OrderInv'
  <2>1. NoNewRecords
        BY <1>2, HeldNames DEF NoNewRecords, Whole, Aged, FullInv, Inv
  <2> QED BY <2>1, OrderKept DEF FullInv, SequenceInv
<1>6. ASSUME DrainersSee PROVE PassInv'
  <2> SUFFICES ASSUME NEW e \in Drainers \ {d} PROVE PassOK(e)'
      BY <1>6 DEF PassInv
  <2>1. \A m \in linked' : m \in linked /\ NoNewReadable(m)
        BY <1>1, AgedReadable
  <2>2. PassOK(e)
        BY <1>6 DEF FullInv, SequenceInv, PassInv
  <2>3. dpc[e] \in {"stream", "mark"} => cur[e] \in Names
        BY DEF FullInv, Inv, TypeInv, CursorInv
  <2>4. dpc[e] \in {"stream", "mark"} =>
          \A i \in DOMAIN segs[cur[e]] :
             /\ i \in DOMAIN segs'[cur[e]]
             /\ Readable(cur[e], i)' =>
                  Readable(cur[e], i) /\ segs'[cur[e]][i].batch = segs[cur[e]][i].batch
    <3> SUFFICES ASSUME dpc[e] \in {"stream", "mark"}, NEW i \in DOMAIN segs[cur[e]]
                 PROVE  /\ i \in DOMAIN segs'[cur[e]]
                        /\ Readable(cur[e], i)' =>
                             Readable(cur[e], i) /\ segs'[cur[e]][i].batch = segs[cur[e]][i].batch
        OBVIOUS
    <3>1. i \in DOMAIN segs'[cur[e]] /\ NoNewReadable(cur[e])
          BY <1>1, <2>3, AgedReadable DEF Aged
    <3> QED BY <3>1 DEF NoNewReadable, Readable
  <2> QED BY <2>1, <2>2, <2>4, PassKept
<1>7. VictimInv'
      BY VictimKept DEF FullInv, SequenceInv
<1> QED BY <1>4, <1>5, <1>6, <1>7 DEF SequenceInv

(* A step that appends a whole record to the open segment.                 *)
LEMMA AppendSequence ==
  ASSUME FullInv, TypeInv', NEW w \in Writers, wpc[w] = "append", segs' = Appended(w, "live"),
         written' = Append(written, wbatch[w]),
         UNCHANGED <<seg, segPath, linked, drainVars, delivered, tried, wbatch>>,
         wpc'[w] \in {"rotate", "idle"}, \A v \in Writers \ {w} : wpc'[v] = wpc[v]
  PROVE  SequenceInv'
<1> USE DEF drainVars
<1> DEFINE last == Len(segs[seg]) + 1
<1>1. /\ seg \in linked /\ seg \in Names /\ seg = segPath /\ segMu = w
      /\ wbatch[w] \in Batches /\ written \in Seq(Batches)
      /\ segs[seg] \in Seq(Frame) /\ segs' \in [Names -> Seq(Frame)]
      BY DEF FullInv, Inv, LogInv, OpenSegmentLinked, TypeInv, TypeOK, LockInv, InWrite
<1>2. /\ \A m \in Names \ {seg} : segs'[m] = segs[m]
      /\ Len(segs'[seg]) = last
      /\ \A i \in DOMAIN segs[seg] : segs'[seg][i] = segs[seg][i]
      /\ segs'[seg][last] = [batch |-> wbatch[w], st |-> "live"]
      BY <1>1, AppendedType DEF FullInv, Inv, TypeInv
<1>3. /\ DOMAIN segs[seg] = 1 .. Len(segs[seg]) /\ Len(segs[seg]) \in Nat
      /\ DOMAIN segs'[seg] = 1 .. last
      BY <1>1, <1>2
<1>4. /\ Known' = Known /\ Known \subseteq Names /\ \A d \in Drainers : Held(d) \subseteq Known
      /\ \A n \in Known : n = seg \/ Older(n, seg)
  <2>1. Known' = Known /\ \A d \in Drainers : Held(d) \subseteq Known
        BY DEF Known, Held
  <2>2. Known \subseteq Names
        BY HeldNames DEF FullInv, Inv
  <2>3. \A n \in Known : n = seg \/ Older(n, seg)
        BY <1>1, NoneFresh DEF FullInv, SequenceInv, NewestInv
  <2> QED BY <2>1, <2>2, <2>3
<1>5. /\ Stored' = Stored \cup {wbatch[w]} /\ wbatch[w] \in tried /\ wbatch[w] \notin Stored
      /\ DOMAIN written' = DOMAIN written \cup {Len(written) + 1}
      /\ \A k \in DOMAIN written : written'[k] = written[k] /\ k < Len(written) + 1
      /\ written'[Len(written) + 1] = wbatch[w]
  <2>1. wbatch[w] \in tried /\ wbatch[w] \notin Stored
        BY DEF FullInv, HandInv, WriterInv, Pending
  <2> QED BY <1>1, <2>1, AppendWritten
<1>7. NewestInv'
      BY <1>4, NewestKept DEF FullInv, SequenceInv
<1>8. OrderInv'
  <2>1. ASSUME NEW n \in Known, NEW i \in DOMAIN segs'[n], Whole(n, i)'
        PROVE  \/ n = seg /\ i = last /\ segs'[n][i].batch = wbatch[w]
               \/ /\ Whole(n, i) /\ i \in DOMAIN segs[n] /\ segs'[n][i] = segs[n][i]
                  /\ segs[n][i].batch \in Stored /\ (n = seg => i < last)
    <3>1. CASE n = seg /\ i = last
          BY <1>2, <3>1
    <3>2. CASE n # seg \/ i # last
      <4>1. i \in DOMAIN segs[n] /\ segs'[n][i] = segs[n][i] /\ (n = seg => i < last)
        <5>1. CASE n # seg
              BY <1>2, <1>4, <5>1
        <5>2. CASE n = seg
          <6>1. i \in 1 .. Len(segs[seg]) /\ i < last
                BY <1>3, <3>2, <5>2
          <6> QED BY <1>2, <1>3, <5>2, <6>1
        <5> QED BY <5>1, <5>2
      <4>2. Whole(n, i)
            BY <2>1, <4>1 DEF Whole
      <4> QED BY <4>1, <4>2 DEF FullInv, SequenceInv, OrderInv
    <3> QED BY <3>1, <3>2
  <2>2. ASSUME NEW n \in Known', NEW i \in DOMAIN segs'[n], Whole(n, i)'
        PROVE  segs'[n][i].batch \in Stored'
        BY <1>4, <1>5, <2>1, <2>2
  <2>3. ASSUME NEW m \in Known', NEW n \in Known',
               NEW i \in DOMAIN segs'[m], NEW j \in DOMAIN segs'[n],
               NEW k \in DOMAIN written', NEW l \in DOMAIN written',
               Whole(m, i)', segs'[m][i].batch = written'[k],
               Whole(n, j)', segs'[n][j].batch = written'[l], k < l
        PROVE  Older(m, n) \/ (m = n /\ i < j)
    <3>1. k \in DOMAIN written
      <4>1. k # Len(written) + 1
        <5>1. l <= Len(written) + 1 /\ l \in Nat /\ Len(written) \in Nat /\ k \in Nat
              BY <1>1, <1>5
        <5> QED BY <2>3, <5>1
      <4> QED BY <1>5, <4>1
    <3>2. written'[k] = written[k] /\ written[k] \in Stored /\ written[k] # wbatch[w]
          BY <1>5, <3>1 DEF Stored
    <3>3. /\ Whole(m, i) /\ i \in DOMAIN segs[m] /\ segs[m][i].batch = written[k]
          /\ m \in Known /\ (m = seg => i < last)
          BY <1>4, <2>1, <2>3, <3>2
    <3>4. CASE l = Len(written) + 1
      <4>1. n = seg /\ j = last
            BY <1>4, <1>5, <2>1, <2>3, <3>4
      <4> QED BY <1>4, <3>3, <4>1
    <3>5. CASE l # Len(written) + 1
      <4>1. l \in DOMAIN written /\ written'[l] = written[l] /\ written[l] # wbatch[w]
            BY <1>5, <3>5 DEF Stored
      <4>2. /\ Whole(n, j) /\ j \in DOMAIN segs[n] /\ segs[n][j].batch = written[l]
            /\ n \in Known
            BY <1>4, <2>1, <2>3, <4>1
      <4> QED BY <2>3, <3>1, <3>3, <4>1, <4>2 DEF FullInv, SequenceInv, OrderInv
    <3> QED BY <3>4, <3>5
  <2> QED BY <2>2, <2>3 DEF OrderInv
<1>9. ASSUME DrainersSee PROVE PassInv'
  <2> SUFFICES ASSUME NEW d \in Drainers PROVE PassOK(d)'
      BY DEF PassInv
  <2>1. PassOK(d)
        BY <1>9 DEF FullInv, SequenceInv, PassInv
  <2>2. ASSUME NEW m \in linked' \ Held(d)
        PROVE  (m \in linked /\ NoNewReadable(m)) \/ \A t \in Held(d) : ~Older(m, t)
    <3>1. CASE m # seg
      <4>1. m \in linked /\ segs'[m] = segs[m]
            BY <1>2, <1>4, <3>1 DEF Known
      <4> QED BY <4>1 DEF NoNewReadable, Readable
    <3>2. CASE m = seg
          BY <1>1, <1>4, <3>2, OlderIsStrict
    <3> QED BY <3>1, <3>2
  <2>3. ASSUME dpc[d] \in {"stream", "mark"}, NEW i \in DOMAIN segs[cur[d]]
        PROVE  /\ i \in DOMAIN segs'[cur[d]]
               /\ Readable(cur[d], i)' =>
                    Readable(cur[d], i) /\ segs'[cur[d]][i].batch = segs[cur[d]][i].batch
    <3>1. cur[d] \in Names /\ segs[cur[d]] \in Seq(Frame)
          BY <2>3 DEF FullInv, Inv, TypeInv, TypeOK, CursorInv
    <3>2. \A j \in DOMAIN segs[cur[d]] :
            j \in DOMAIN segs'[cur[d]] /\ segs'[cur[d]][j] = segs[cur[d]][j]
      <4>1. \A j \in DOMAIN segs[seg] : j \in DOMAIN segs'[seg]
            BY <1>3
      <4>2. CASE cur[d] = seg
            BY <1>2, <4>1, <4>2
      <4>3. CASE cur[d] # seg
            BY <1>2, <3>1, <4>3
      <4> QED BY <4>2, <4>3
    <3>3. \A j \in 1 .. i : j \in DOMAIN segs[cur[d]]
          BY <2>3, <3>1
    <3> QED BY <2>3, <3>2, <3>3 DEF Readable
  <2> QED BY <2>1, <2>2, <2>3, PassKept
<1>10. VictimInv'
  <2>1. \A v \in Writers : wpc'[v] # "evict"
        BY <1>1 DEF FullInv, Inv, TypeInv, LockInv, InWrite
  <2> QED BY <2>1 DEF VictimInv
<1> QED BY <1>7, <1>8, <1>9, <1>10 DEF SequenceInv

LEMMA RestartSequence ==
  ASSUME FullInv, Restart
  PROVE  SequenceInv'
<1>1. /\ TypeInv /\ linked' = linked /\ written' = written /\ tried' = tried /\ segPath' = None
      /\ \A w \in Writers : wpc'[w] = "idle"
      /\ \A d \in Drainers : dpc'[d] \in {"wait", "off"} /\ todo'[d] = {}
      BY DEF Restart, FullInv, Inv
<1>2. Known' \subseteq Known /\ Known \subseteq Names
      BY <1>1, HeldNames DEF Known, Held
<1>4. NewestInv' /\ VictimInv' /\ PassInv'
      BY <1>1 DEF NewestInv, VictimInv, PassInv, PassOK, Working
<1>5. OrderInv'
  <2>1. ASSUME NEW n \in Known', NEW i \in DOMAIN segs'[n], Whole(n, i)'
        PROVE  n \in Known /\ Whole(n, i) /\ segs'[n][i].batch = segs[n][i].batch
    <3>1. i \in DOMAIN segs[n]
          BY <1>1, <1>2, <2>1, RestartSegs DEF Whole
    <3>2. segs[n][i].st # "torn" /\ segs'[n][i].batch = segs[n][i].batch
          BY <1>1, <1>2, <2>1, <3>1, RestartSegs DEF Whole
    <3> QED BY <1>2, <3>1, <3>2 DEF Whole
  <2>2. NoNewRecords
        BY <2>1 DEF NoNewRecords
  <2> QED BY <1>1, <2>2, OrderKept DEF FullInv, SequenceInv
<1> QED BY <1>4, <1>5 DEF SequenceInv

-----------------------------------------------------------------------------
LEMMA InitSequence == Init => SequenceInv
<1> SUFFICES ASSUME Init PROVE SequenceInv
    OBVIOUS
<1>1. linked = {} /\ written = <<>> /\ segPath = None /\ \A w \in Writers : wpc[w] = "idle"
      BY DEF Init
<1>2. \A d \in Drainers : dpc[d] \in {"wait", "off"} /\ todo[d] = {}
      BY DEF Init
<1>3. Known = {} /\ Stored = {}
      BY <1>1, <1>2 DEF Known, Held, Stored
<1> QED BY <1>1, <1>2, <1>3
        DEF SequenceInv, NewestInv, OrderInv, PassInv, PassOK, Working, VictimInv

LEMMA WriteKeepsSequence ==
  ASSUME FullInv, TypeInv', Reliable, NEW w \in Writers, WriteStep(w)
  PROVE  SequenceInv'
<1>1. /\ wpc \in [Writers -> {"idle", "lock", "append", "rotate", "enforce", "evict"}]
      /\ linked \subseteq Names /\ LockInv
      BY DEF FullInv, Inv, TypeInv, TypeOK
<1>2. \A v \in Writers \ {w} : wpc'[v] = wpc[v] /\ ~InWrite(v)
  <2>1. \E l : wpc' = [wpc EXCEPT ![w] = l]
        BY DEF WriteStep, WriteLock, AppendRecord, AppendFails, Rotate, WriteReturns,
               CountVictim, EvictVictim
  <2>2. segMu = None \/ InWrite(w)
        BY DEF WriteStep, WriteLock, AppendRecord, AppendFails, Rotate, WriteReturns,
               CountVictim, EvictVictim, InWrite
  <2>3. \A v \in Writers \ {w} : ~InWrite(v)
        BY <1>1, <2>2, NoneFresh DEF LockInv
  <2>4. \A v \in Writers \ {w} : wpc'[v] = wpc[v]
        BY <1>1, <2>1
  <2> QED BY <2>3, <2>4
<1>3. ASSUME wpc'[w] # "evict"
      PROVE  VictimInv' /\ \A v \in Writers : wpc'[v] # "evict"
      BY <1>2, <1>3 DEF VictimInv, InWrite
<1>5. ASSUME WriteLock(w) PROVE SequenceInv'
  <2> USE DEF WriteLock, drainVars, history
  <2>1. wpc'[w] \in {"append", "idle"} /\ wpc[w] = "lock"
        BY <1>1, <1>5
  <2>3. CASE OpenNew
        BY <1>3, <1>5, <2>1, <2>3, OpenSequence
  <2>4. CASE UNCHANGED <<segPath, linked, segs>>
        BY <1>3, <1>5, <2>1, <2>4, QuietSequence
  <2> QED BY <1>5, <2>3, <2>4 DEF OpenFails
<1>6. ASSUME AppendRecord(w) \/ AppendFails(w) PROVE SequenceInv'
  <2>1. segs' = Appended(w, "live") /\ wpc[w] = "append" /\ written' = Append(written, wbatch[w])
        BY <1>6 DEF AppendRecord, AppendFails, Reliable
  <2>2. wpc'[w] \in {"rotate", "idle"}
        BY <1>1, <1>6 DEF AppendRecord, AppendFails
  <2> QED BY <1>2, <1>6, <2>1, <2>2, AppendSequence
          DEF AppendRecord, AppendFails, procVars, drainVars
<1>7. ASSUME Rotate(w) PROVE SequenceInv'
  <2> USE DEF Rotate, drainVars, history
  <2>1. wpc'[w] = "enforce"
        BY <1>1, <1>7
  <2>3. CASE OpenNew
        BY <1>3, <1>7, <2>1, <2>3, OpenSequence
  <2>4. CASE UNCHANGED <<segPath, linked, segs>>
        BY <1>3, <1>7, <2>1, <2>4, QuietSequence
  <2> QED BY <1>7, <2>3, <2>4 DEF OpenFails
<1>8. ASSUME WriteReturns(w) \/ EvictVictim(w) PROVE SequenceInv'
  <2> USE DEF WriteReturns, EvictVictim, drainVars, procVars
  <2>1. wpc'[w] \in {"idle", "enforce"}
        BY <1>1, <1>8
  <2>2. VictimInv'
        BY <1>3, <1>8, <2>1
  <2>3. linked' \subseteq linked
        BY <1>8
  <2> QED BY <1>8, <2>2, <2>3, QuietSequence
<1>9. ASSUME CountVictim(w) PROVE SequenceInv'
  <2> USE DEF CountVictim, drainVars, procVars, history
  <2>1. wpc'[w] = "evict" /\ linked' = linked /\ segPath' = segPath
        BY <1>1, <1>9
  <2>3. PICK n \in Evictable : Oldest(n, Evictable) /\ victim'.seg = n
        BY <1>9
  <2>4. \A m \in linked : m = n \/ Older(n, m)
    <3> SUFFICES ASSUME NEW m \in linked, m # n PROVE Older(n, m)
        OBVIOUS
    <3>1. CASE m \in Evictable
          BY <2>3, <3>1 DEF Oldest
    <3>2. CASE m = segPath
      <4>1. segPath # None /\ n \in Known /\ n # segPath
            BY <1>1, <2>3, <3>2, NoneFresh DEF Evictable, Known
      <4> QED BY <3>2, <4>1 DEF FullInv, SequenceInv, NewestInv
    <3> QED BY <3>1, <3>2 DEF Evictable
  <2>5. VictimInv'
        BY <2>1, <2>3, <2>4 DEF VictimInv
  <2> QED BY <1>9, <2>1, <2>5, QuietSequence
<1> QED BY <1>5, <1>6, <1>7, <1>8, <1>9 DEF WriteStep

-----------------------------------------------------------------------------
(* The drainers.                                                           *)

Behind(d) == \A m \in linked \ Held(d), t \in Held(d) : Older(m, t) => AllDelivered(m)

(* A pass that goes on, leaving a segment only when nothing is left in it. *)
LEMMA BehindKept ==
  ASSUME FullInv, DrainersSee, NEW d \in Drainers, Working(d), Aged, linked' \subseteq linked,
         delivered \subseteq delivered', Held(d)' \subseteq Held(d),
         \A m \in linked' \cap (Held(d) \ Held(d)') : AllDelivered(m)'
  PROVE  Behind(d)'
<1>1. TypeOK /\ linked \subseteq Names /\ PassOK(d)
      BY DEF FullInv, Inv, TypeInv, TypeOK, SequenceInv, PassInv
<1>2. ASSUME NEW m \in linked' \ Held(d)', NEW t \in Held(d)', Older(m, t)
      PROVE  AllDelivered(m)'
  <2>1. CASE m \in Held(d)
        BY <1>2, <2>1
  <2>2. CASE m \notin Held(d)
    <3>1. AllDelivered(m) /\ m \in Names
          BY <1>1, <1>2, <2>2 DEF PassOK
    <3>2. NoNewReadable(m)
          BY <1>1, <3>1, AgedReadable
    <3>3. ASSUME NEW i \in DOMAIN segs'[m], Readable(m, i)'
          PROVE  segs'[m][i].batch \in delivered'
      <4>1. Readable(m, i) /\ segs'[m][i].batch = segs[m][i].batch
            BY <3>2, <3>3 DEF NoNewReadable
      <4> QED BY <3>1, <4>1 DEF AllDelivered, Readable
    <3> QED BY <3>3 DEF AllDelivered
  <2> QED BY <2>1, <2>2
<1> QED BY <1>2 DEF Behind

(* A drainer that opens and reads what it has listed.                      *)
LEMMA SeeingDrainer ==
  ASSUME Reliable, DrainersSee, FullInv, NEW d \in Drainers, DrainStep(d)
  PROVE  SequenceInv'
<1> USE DEF DrainStutter, Goto
<1>1. /\ TypeOK /\ DrainOK(d) /\ PassOK(d) /\ Held(d) \subseteq Known
      /\ linked \subseteq Known /\ linked \subseteq Names
      BY DEF FullInv, Inv, TypeInv, TypeOK, LogInv, DrainInv, Known, SequenceInv, PassInv
<1>2. dpc[d] \in {"stream", "mark", "remove"} => cur[d] \in Names /\ segs[cur[d]] \in Seq(Frame)
      BY <1>1 DEF FullInv, Inv, TypeInv, CursorInv, TypeOK
<1>3. ASSUME dpc'[d] \in {"off", "wait", "done"} PROVE PassOK(d)'
      BY <1>3 DEF PassOK, Working
<1>4. ASSUME Behind(d)', dpc'[d] \in {"active", "next"} PROVE PassOK(d)'
      BY <1>4 DEF PassOK, Behind
<1>5. ASSUME ListSegments(d) PROVE SequenceInv'
  <2>1. /\ dpc'[d] \in {"active", "next"} /\ Held(d)' = linked /\ Aged
        /\ linked' = linked
        BY <1>1, <1>5, UnchangedAges DEF ListSegments, Held, TypeOK
  <2>2. PassOK(d)'
        BY <1>4, <2>1 DEF Behind
  <2> QED BY <1>1, <1>5, <2>1, <2>2, DrainerSequence DEF ListSegments, TypeOK
<1>6. ASSUME ReadActive(d) PROVE SequenceInv'
  <2>1. /\ dpc'[d] = "next" /\ Held(d)' = Held(d) /\ Aged /\ Working(d)
        /\ linked' = linked /\ delivered' = delivered
        BY <1>1, <1>6, UnchangedAges DEF ReadActive, Held, TypeOK, Working
  <2>2. PassOK(d)'
        BY <1>4, <2>1, BehindKept
  <2> QED BY <1>1, <1>6, <2>1, <2>2, DrainerSequence DEF ReadActive, TypeOK
<1>7. ASSUME NextSegment(d) PROVE SequenceInv'
  <2>1. PICK n \in todo[d] :
          /\ Oldest(n, todo[d]) /\ todo' = [todo EXCEPT ![d] = @ \ {n}]
          /\ \/ n \in linked /\ cur' = [cur EXCEPT ![d] = n] /\ dpc' = [dpc EXCEPT ![d] = "stream"]
             \/ n \notin linked /\ UNCHANGED <<cur, dpc>>
        BY <1>7 DEF NextSegment, DrainersSee
  <2>2. /\ dpc[d] = "next" /\ Held(d) = todo[d] /\ pos'[d] = 1 /\ Working(d)
        /\ todo'[d] = todo[d] \ {n}
        /\ linked' = linked /\ segs' = segs /\ delivered' = delivered /\ Aged
        BY <1>1, <1>7, <2>1, UnchangedAges DEF NextSegment, Held, Working, TypeOK
  <2>3. CASE n \in linked
    <3>1. Held(d)' = Held(d) /\ dpc'[d] = "stream" /\ cur'[d] = n
          BY <1>1, <2>1, <2>2, <2>3 DEF Held, TypeOK
    <3>2. Behind(d)'
          BY <2>2, <3>1, BehindKept
    <3>3. PassOK(d)'
      <4>1. \A t \in todo'[d] : Older(cur'[d], t)
            BY <2>1, <2>2, <3>1 DEF Oldest
      <4>2. 1 .. pos'[d] - 1 = {}
            BY <2>2
      <4> QED BY <3>2, <4>1, <4>2 DEF PassOK, Behind
    <3> QED BY <1>1, <1>7, <2>1, <2>2, <3>1, <3>3, DrainerSequence DEF NextSegment, TypeOK
  <2>4. CASE n \notin linked
    <3>1. Held(d)' = Held(d) \ {n} /\ dpc'[d] = "next"
          BY <2>1, <2>2, <2>4 DEF Held
    <3>2. PassOK(d)'
          BY <1>4, <2>2, <2>4, <3>1, BehindKept
    <3> QED BY <1>1, <1>7, <2>1, <2>2, <3>1, <3>2, DrainerSequence DEF NextSegment, TypeOK
  <2> QED BY <2>3, <2>4
<1>8. ASSUME Deliver(d) PROVE SequenceInv'
  <2>1. PICK p \in Ahead(d) :
          /\ \A j \in Ahead(d) : p <= j
          /\ delivered' = delivered \cup {segs[cur[d]][p].batch}
          /\ pos' = [pos EXCEPT ![d] = p]
        BY <1>8 DEF Deliver
  <2>2. /\ dpc[d] = "stream" /\ dpc'[d] = "mark" /\ Held(d)' = Held(d) /\ Working(d)
        /\ pos'[d] = p /\ cur'[d] = cur[d] /\ todo'[d] = todo[d]
        /\ linked' = linked /\ segs' = segs /\ cur' = cur /\ Aged
        BY <1>1, <1>8, <2>1, UnchangedAges DEF Deliver, Held, Working, TypeOK
  <2>3. Behind(d)'
        BY <2>1, <2>2, BehindKept
  <2>4. ASSUME NEW i \in 1 .. pos'[d] - 1
        PROVE  /\ i \in DOMAIN segs[cur[d]]
               /\ Readable(cur[d], i) => segs[cur[d]][i].batch \in delivered
    <3>1. /\ p \in DOMAIN segs[cur[d]] /\ p \in Nat /\ i \in Nat /\ i < p /\ i >= 1
          /\ pos[d] \in Nat
          BY <1>1, <1>2, <2>1, <2>2, <2>4 DEF Ahead, TypeOK
    <3>2. i \in DOMAIN segs[cur[d]]
          BY <1>2, <2>2, <3>1
    <3>3. CASE i < pos[d]
      <4>1. i \in 1 .. pos[d] - 1
            BY <3>1, <3>3
      <4> QED BY <1>1, <2>2, <4>1 DEF PassOK
    <3>4. CASE ~(i < pos[d])
      <4>1. i \notin Ahead(d) /\ i >= pos[d]
            BY <2>1, <3>1, <3>4
      <4> QED BY <3>2, <4>1 DEF Ahead
    <3> QED BY <3>3, <3>4
  <2>5. PassOK(d)'
    <3>1. \A i \in 1 .. pos'[d] - 1 :
            /\ i \in DOMAIN segs'[cur'[d]]
            /\ Readable(cur[d], i)' => segs'[cur'[d]][i].batch \in delivered'
          BY <2>1, <2>2, <2>4 DEF Readable
    <3> QED BY <1>1, <2>2, <2>3, <3>1 DEF PassOK, Behind
  <2> QED BY <1>1, <1>8, <2>1, <2>2, <2>5, DrainerSequence DEF Deliver, TypeOK
<1>9. ASSUME MarkConsumed(d) PROVE SequenceInv'
  <2>1. /\ dpc[d] = "mark" /\ dpc'[d] = "stream" /\ Held(d)' = Held(d) /\ Working(d)
        /\ pos'[d] = pos[d] + 1 /\ cur' = cur /\ todo' = todo
        /\ linked' = linked /\ delivered' = delivered /\ pos[d] \in Nat \ {0}
        BY <1>1, <1>9 DEF MarkConsumed, Held, Working, TypeOK
  <2>2. pos[d] \in DOMAIN segs[cur[d]] /\ segs[cur[d]][pos[d]].batch \in delivered
        BY <1>1, <2>1 DEF DrainOK
  <2>3. Aged /\ NoNewReadable(cur[d])
    <3>1. Aged
          BY <1>1, <1>2, <1>9, <2>1, <2>2, MarkAges, UnchangedAges DEF MarkConsumed
    <3> QED BY <1>1, <1>2, <2>1, <3>1, AgedReadable
  <2>4. Behind(d)'
        BY <2>1, <2>3, BehindKept
  <2>5. ASSUME NEW i \in 1 .. pos'[d] - 1
        PROVE  /\ i \in DOMAIN segs'[cur'[d]]
               /\ Readable(cur[d], i)' => segs'[cur'[d]][i].batch \in delivered'
    <3>1. i \in DOMAIN segs[cur[d]] /\ (Readable(cur[d], i) => segs[cur[d]][i].batch \in delivered)
      <4>1. i = pos[d] \/ i \in 1 .. pos[d] - 1
            BY <2>1, <2>5
      <4> QED BY <1>1, <2>1, <2>2, <4>1 DEF PassOK
    <3>2. i \in DOMAIN segs'[cur[d]] /\ segs'[cur[d]][i].batch = segs[cur[d]][i].batch
          BY <1>2, <2>1, <2>3, <3>1 DEF Aged
    <3>3. Readable(cur[d], i)' => Readable(cur[d], i)
          BY <2>1, <2>3, <3>2 DEF NoNewReadable, Readable
    <3> QED BY <2>1, <3>1, <3>2, <3>3
  <2>6. PassOK(d)'
        BY <1>1, <2>1, <2>4, <2>5 DEF PassOK, Behind
  <2> QED BY <1>1, <1>9, <2>1, <2>3, <2>6, DrainerSequence DEF MarkConsumed, TypeOK
<1>10. ASSUME AbortPass(d) PROVE SequenceInv'
  <2>1. Held(d)' \subseteq Held(d) /\ dpc'[d] \in {"done", "wait"} /\ Aged
        BY <1>1, <1>2, <1>10, SyncAges DEF AbortPass, AfterAbort, Held, TypeOK
  <2>2. PassOK(d)'
        BY <1>3, <2>1
  <2> QED BY <1>1, <1>10, <2>1, <2>2, DrainerSequence DEF AbortPass, TypeOK
<1>11. ASSUME StreamEnd(d) PROVE SequenceInv'
  <2>1. /\ dpc[d] = "stream" /\ Ahead(d) = {} /\ Working(d) /\ Held(d) = todo[d] \cup {cur[d]}
        /\ cur' = cur /\ todo' = todo /\ linked' = linked /\ delivered' = delivered
        /\ dpc'[d] \in {"next", "remove"}
        /\ Held(d)' = IF dpc'[d] = "remove" THEN Held(d) ELSE todo[d]
        BY <1>1, <1>11 DEF StreamEnd, AfterStream, DrainersSee, Held, Working, TypeOK
  <2>2. Aged /\ NoNewReadable(cur[d])
    <3>1. Aged
          BY <1>1, <1>2, <1>11, <2>1, SyncAges DEF StreamEnd
    <3> QED BY <1>1, <1>2, <2>1, <3>1, AgedReadable
  <2>3. ASSUME NEW i \in DOMAIN segs[cur[d]], Readable(cur[d], i)
        PROVE  segs[cur[d]][i].batch \in delivered
    <3>1. i \in Nat /\ i >= 1 /\ pos[d] \in Nat
          BY <1>1, <1>2, <2>1 DEF TypeOK
    <3>2. i < pos[d]
          BY <2>1, <2>3, <3>1 DEF Ahead
    <3>3. i \in 1 .. pos[d] - 1
          BY <3>1, <3>2
    <3> QED BY <1>1, <2>1, <2>3, <3>3 DEF PassOK
  <2>4. \A m : m = cur[d] => AllDelivered(m)'
        BY <2>1, <2>2, <2>3 DEF NoNewReadable, AllDelivered, Readable
  <2>5. Behind(d)'
        BY <2>1, <2>2, <2>4, BehindKept
  <2>6. PassOK(d)'
        BY <1>1, <2>1, <2>5 DEF PassOK, Behind
  <2>7. Held(d)' \subseteq Known
        BY <1>1, <2>1
  <2> QED BY <1>1, <1>11, <2>2, <2>6, <2>7, DrainerSequence DEF StreamEnd, TypeOK
<1>12. ASSUME RemoveDrained(d) PROVE SequenceInv'
  <2>1. /\ dpc[d] = "remove" /\ dpc'[d] = "next" /\ Working(d)
        /\ Held(d) = todo[d] \cup {cur[d]} /\ Held(d)' = todo[d] /\ LiveRecords(cur[d]) = {}
        /\ linked' \subseteq linked /\ segs' = segs /\ delivered' = delivered /\ Aged
        BY <1>1, <1>12, UnchangedAges DEF RemoveDrained, Held, Working, TypeOK, DrainOK, Reliable
  <2>2. \A m : m = cur[d] => AllDelivered(m)'
        BY <2>1 DEF LiveRecords, AllDelivered, Readable
  <2>3. Behind(d)'
        BY <2>1, <2>2, BehindKept
  <2>4. PassOK(d)'
        BY <1>4, <2>1, <2>3
  <2> QED BY <1>1, <1>12, <2>1, <2>4, DrainerSequence DEF RemoveDrained, TypeOK
<1>13. ASSUME EndPass(d) \/ DrainerReturns(d) PROVE SequenceInv'
  <2>1. Held(d)' \subseteq Held(d) /\ dpc'[d] \in {"wait", "done"} /\ Aged
        BY <1>1, <1>13, UnchangedAges DEF EndPass, DrainerReturns, Held, TypeOK
  <2>2. PassOK(d)'
        BY <1>3, <2>1
  <2> QED BY <1>1, <1>13, <2>1, <2>2, DrainerSequence DEF EndPass, DrainerReturns, TypeOK
<1>14. ~ReadFails(d)
      BY DEF ReadFails, DrainersSee
<1> QED BY <1>5, <1>6, <1>7, <1>8, <1>9, <1>10, <1>11, <1>12, <1>13, <1>14 DEF DrainStep

(* One that may skip segments keeps the order of names and records, not    *)
(* that of its deliveries.                                                 *)
LEMMA DrainStepKeepsSequence ==
  ASSUME Reliable, FullInv, NEW d \in Drainers, DrainStep(d)
  PROVE  SequenceInv'
<1> USE DEF DrainStep, ListSegments, ReadActive, NextSegment, Deliver, MarkConsumed, AbortPass,
            ReadFails, StreamEnd, RemoveDrained, EndPass, DrainerReturns, DrainStutter, Goto
<1>1. CASE DrainersSee
      BY <1>1, SeeingDrainer
<1>2. CASE ~DrainersSee
  <2>1. TypeOK /\ Held(d) \subseteq Known /\ linked \subseteq Known
        BY DEF FullInv, Inv, TypeInv, Known
  <2>2. UNCHANGED DrainStutter /\ linked' \subseteq linked /\ delivered \subseteq delivered'
        OBVIOUS
  <2>3. \A e \in Drainers \ {d} :
          dpc'[e] = dpc[e] /\ todo'[e] = todo[e] /\ cur'[e] = cur[e] /\ pos'[e] = pos[e]
        BY <2>1 DEF TypeOK
  <2>4. Held(d)' \subseteq Known
        BY <2>1 DEF AfterAbort, AfterStream, Held, TypeOK
  <2>5. Aged
        BY DrainAges DEF FullInv
  <2> QED BY <1>2, <2>2, <2>3, <2>4, <2>5, DrainerSequence
<1> QED BY <1>1, <1>2

-----------------------------------------------------------------------------
LEMMA AgentKeepsSequence ==
  ASSUME FullInv,
         FlushBegin \/ Close \/ Tick \/ (\E d \in Drainers : Cancel(d)) \/ UNCHANGED vars
         \/ (\E w \in Writers, b \in Batches : WriteBegin(w, b))
  PROVE  SequenceInv'
<1> USE DEF DrainStutter, procVars, writeVars, drainVars, history
<1>1. UNCHANGED segs => Aged
      BY UnchangedAges DEF FullInv, Inv, TypeInv
<1>2. TypeOK /\ SequenceInv
      BY DEF FullInv, Inv, TypeInv
<1>3. ASSUME NEW d \in Drainers, Cancel(d) PROVE SequenceInv'
  <2>1. (DrainersSee => PassOK(d)) /\ Held(d) \subseteq Known
        BY <1>2 DEF SequenceInv, PassInv, Known
  <2>2. (DrainersSee => PassOK(d)') /\ Held(d)' \subseteq Known
        BY <1>3, <2>1 DEF Cancel, PassOK, Held, Working, AllDelivered, Readable
  <2> QED BY <1>1, <1>3, <2>2, DrainerSequence DEF Cancel
<1>4. ASSUME FlushBegin PROVE SequenceInv'
  <2>1. /\ "flush" \in Drainers /\ dpc["flush"] = "off" /\ dpc'["flush"] = "wait"
        /\ \A e \in Drainers \ {"flush"} : dpc'[e] = dpc[e]
        BY <1>2, <1>4 DEF FlushBegin, Goto, Drainers, TypeOK
  <2>2. PassOK("flush")' /\ Held("flush")' \subseteq Known
        BY <1>4, <2>1 DEF FlushBegin, PassOK, Held, Working, Known
  <2> QED BY <1>1, <1>4, <2>1, <2>2, DrainerSequence DEF FlushBegin
<1>5. ASSUME Close \/ Tick \/ UNCHANGED vars PROVE SequenceInv'
  <2>1. UNCHANGED <<segs, drainVars, delivered, written, linked, segPath, tried, wpc, wbatch, victim>>
        BY <1>5 DEF Close, Tick, vars
  <2>2. VictimInv'
        BY <1>2, <2>1, VictimKept DEF SequenceInv
  <2> QED BY <2>1, <2>2, QuietSequence
<1>6. ASSUME NEW w \in Writers, NEW b \in Batches, WriteBegin(w, b) PROVE SequenceInv'
  <2> USE DEF WriteBegin
  <2>1. /\ wbatch'[w] = b /\ wpc'[w] = "lock" /\ b \notin tried /\ tried' = tried \cup {b}
        /\ \A v \in Writers \ {w} : wbatch'[v] = wbatch[v] /\ wpc'[v] = wpc[v]
        BY <1>2, <1>6 DEF TypeOK
  <2>3. VictimInv'
        BY <1>2, <1>6, <2>1, VictimKept DEF SequenceInv
  <2> QED BY <1>6, <2>3, QuietSequence
<1> QED BY <1>3, <1>4, <1>5, <1>6

LEMMA FullStep == ASSUME Reliable PROVE FullInv /\ [Next]_vars => FullInv'
<1> SUFFICES ASSUME FullInv, [Next]_vars PROVE Inv' /\ HandInv' /\ TornInv' /\ SequenceInv'
    BY DEF FullInv
<1>0. Inv /\ HandInv /\ TornInv /\ Spaced /\ "append" \notin Faults
      BY DEF FullInv, Reliable
<1>1. Inv' /\ TypeInv'
  <2>1. Inv'
        BY <1>0, InvStep
  <2> QED BY <2>1 DEF Inv
<1>2. ASSUME NEW w \in Writers, WriteStep(w) PROVE SequenceInv'
      BY <1>1, <1>2, WriteKeepsSequence
<1>3. ASSUME NEW d \in Drainers, DrainStep(d) PROVE SequenceInv'
      BY <1>3, DrainStepKeepsSequence
<1>4. ASSUME Restart PROVE SequenceInv'
      BY <1>1, <1>4, RestartSequence
<1>5. ASSUME \/ FlushBegin \/ Close \/ Tick \/ (\E d \in Drainers : Cancel(d)) \/ UNCHANGED vars
             \/ (\E w \in Writers, b \in Batches : WriteBegin(w, b))
      PROVE  SequenceInv'
      BY <1>1, <1>5, AgentKeepsSequence
<1>6. HandInv'
      BY <1>0, HandStep
<1>7. TornInv'
      BY <1>0, <1>1, TornStep
<1> QED BY <1>1, <1>2, <1>3, <1>4, <1>5, <1>6, <1>7 DEF Next, Terminated

LEMMA FullCorrect == ASSUME Reliable PROVE Spec => []FullInv
<1>1. Init => SequenceInv
      BY InitSequence
<1>2. FullInv /\ [Next]_vars => FullInv'
      BY FullStep
<1>3. Spec => [](Inv /\ HandInv) /\ [](Inv /\ TornInv)
      BY HandsCorrect, TornCorrect DEF Reliable
<1>4. Inv /\ HandInv /\ TornInv /\ SequenceInv <=> FullInv
      BY DEF FullInv
<1> QED BY <1>1, <1>2, <1>3, <1>4, PTL DEF Spec

(* The invariant the runs check on small instances: who holds segMu, which *)
(* names are new, what each drainer may rely on, where every record is and *)
(* in which order.                                                         *)
THEOREM BufferCorrect == ASSUME Reliable PROVE Spec => []BufferInv
<1>1. FullInv => BufferInv
      BY Safe DEF Reliable, FullInv, Inv, TypeInv, LogInv, HandInv, DamageInv, BufferInv
<1> QED BY <1>1, FullCorrect, PTL

-----------------------------------------------------------------------------
(* The steps of the buffer as steps of SignalLog.                          *)

(* A batch in the log is delivered, evicted, or in a segment of the        *)
(* directory.                                                              *)
LEMMA StoredSettled ==
  ASSUME Reliable, FullInv, NEW k \in DOMAIN written, written[k] \notin delivered \cup evicted
  PROVE  \E m \in linked : \E i \in DOMAIN segs[m] :
           Readable(m, i) /\ segs[m][i].batch = written[k]
<1>1. written[k] \in Recorded
      BY DEF Recorded, Stored
<1> QED BY <1>1, Safe DEF Reliable, FullInv, SafeInv, OnDisk

LEMMA DeliverImplements ==
  ASSUME Reliable, DrainersSee, FullInv, NEW d \in Drainers, Deliver(d)
  PROVE  \E l \in DOMAIN written : Log!Deliver(l)
<1>1. /\ TypeOK /\ PassOK(d) /\ dpc[d] = "stream" /\ cur[d] \in Names
      /\ cur[d] \in Held(d) /\ Held(d) = todo[d] \cup {cur[d]}
      BY DEF FullInv, Inv, TypeInv, CursorInv, SequenceInv, PassInv, Deliver, Held
<1>2. /\ Known \subseteq Names /\ linked \subseteq Known /\ Held(d) \subseteq Known
      BY HeldNames DEF FullInv, Inv, Known
<1>3. PICK p \in Ahead(d) :
        /\ \A j \in Ahead(d) : p <= j
        /\ delivered' = delivered \cup {segs[cur[d]][p].batch}
      BY DEF Deliver
<1>4. p \in DOMAIN segs[cur[d]] /\ Whole(cur[d], p)
      BY <1>3 DEF Ahead, Readable, Whole
<1>5. segs[cur[d]][p].batch \in Stored
      BY <1>1, <1>2, <1>4 DEF FullInv, SequenceInv, OrderInv
<1>6. PICK l \in DOMAIN written : written[l] = segs[cur[d]][p].batch
      BY <1>5 DEF Stored
<1>7. ASSUME NEW k \in 1 .. l - 1, written[k] \notin delivered \cup evicted
      PROVE  FALSE
  <2>1. k \in DOMAIN written /\ k < l
    <3>1. written \in Seq(Batches)
          BY <1>1 DEF TypeOK
    <3> QED BY <1>7, <3>1
  <2> PICK m \in linked : \E i \in DOMAIN segs[m] : Readable(m, i) /\ segs[m][i].batch = written[k]
      BY <1>7, <2>1, StoredSettled
  <2>2. PICK i \in DOMAIN segs[m] : Readable(m, i) /\ segs[m][i].batch = written[k]
        OBVIOUS
  <2>3. Whole(m, i) /\ m \in Names
        BY <1>2, <2>2 DEF Readable, Whole
  <2>4. Older(m, cur[d]) \/ (m = cur[d] /\ i < p)
        BY <1>1, <1>2, <1>4, <1>6, <2>1, <2>2, <2>3 DEF FullInv, SequenceInv, OrderInv
  <2>5. CASE Older(m, cur[d])
    <3>1. m # cur[d] /\ m \notin todo[d]
          BY <1>1, <2>3, <2>5, OlderIsStrict DEF PassOK
    <3>2. AllDelivered(m)
          BY <1>1, <2>2, <2>5, <3>1 DEF PassOK, Working
    <3> QED BY <1>7, <2>2, <3>2 DEF AllDelivered
  <2>6. CASE m = cur[d] /\ i < p
    <3>1. i \in Nat /\ i >= 1 /\ p \in Nat /\ pos[d] \in Nat
      <4>1. segs[cur[d]] \in Seq(Frame) /\ pos[d] \in Nat
            BY <1>1 DEF TypeOK
      <4>2. i \in DOMAIN segs[cur[d]]
            BY <2>6
      <4> QED BY ONLY <1>4, <4>1, <4>2
    <3>2. i \notin Ahead(d)
          BY <1>3, <2>6, <3>1
    <3>3. i < pos[d]
          BY <2>2, <2>6, <3>1, <3>2 DEF Ahead
    <3>4. i \in 1 .. pos[d] - 1
          BY <3>1, <3>3
    <3> QED BY <1>1, <1>7, <2>2, <2>6, <3>4 DEF PassOK
  <2> QED BY <2>4, <2>5, <2>6
<1>8. UNCHANGED <<written, evicted>>
      BY DEF Deliver, DrainStutter
<1> QED BY <1>3, <1>6, <1>7, <1>8 DEF Log!Deliver, Log!Settled

LEMMA EvictImplements ==
  ASSUME Reliable, FullInv, NEW w \in Writers, EvictVictim(w)
  PROVE  \/ UNCHANGED <<written, delivered, evicted>>
         \/ \E I \in SUBSET DOMAIN written : Log!Drop(I)
<1> DEFINE v == victim.seg
           I == {k \in DOMAIN written : written[k] \in Lost(v)}
<1>1. UNCHANGED <<written, delivered>>
      BY DEF EvictVictim
<1>2. CASE CanRemove(v) /\ evicted' = evicted \cup Lost(v)
  <2>1. /\ v \in linked /\ linked \subseteq Known /\ Known \subseteq Names
        /\ \A m \in linked : m = v \/ Older(v, m)
        BY <1>2, HeldNames
           DEF CanRemove, Known, EvictVictim, FullInv, Inv, SequenceInv, VictimInv
  <2>2. ASSUME NEW b \in Lost(v)
        PROVE  \E i \in DOMAIN segs[v] : Whole(v, i) /\ segs[v][i].batch = b /\ b \in Stored
    <3>1. PICK i \in DOMAIN segs[v] : Readable(v, i) /\ segs[v][i].batch = b
          BY <2>2 DEF Lost
    <3>2. Whole(v, i)
          BY <3>1 DEF Readable, Whole
    <3> QED BY <2>1, <3>1, <3>2 DEF FullInv, SequenceInv, OrderInv
  <2>3. Lost(v) = {written[i] : i \in I} \ delivered
    <3>1. Lost(v) \subseteq Stored /\ Lost(v) \cap delivered = {}
          BY <2>2 DEF Lost
    <3> QED BY <3>1 DEF Stored
  <2>4. ASSUME NEW l \in I, NEW k \in 1 .. l - 1
        PROVE  written[k] \in delivered \cup evicted \/ k \in I
    <3> SUFFICES ASSUME written[k] \notin delivered \cup evicted PROVE k \in I
        OBVIOUS
    <3>1. k \in DOMAIN written /\ k < l
      <4>1. written \in Seq(Batches) /\ l \in DOMAIN written
            BY <2>4 DEF FullInv, Inv, TypeInv, TypeOK
      <4> QED BY <2>4, <4>1
    <3> PICK m \in linked : \E i \in DOMAIN segs[m] : Readable(m, i) /\ segs[m][i].batch = written[k]
        BY <3>1, StoredSettled
    <3>2. PICK i \in DOMAIN segs[m] : Readable(m, i) /\ segs[m][i].batch = written[k]
          OBVIOUS
    <3>3. PICK j \in DOMAIN segs[v] : Whole(v, j) /\ segs[v][j].batch = written[l]
          BY <2>2, <2>4
    <3>4. Whole(m, i) /\ m \in Names /\ v \in Names
          BY <2>1, <3>2 DEF Readable, Whole
    <3>5. Older(m, v) \/ m = v
          BY <2>1, <2>4, <3>1, <3>2, <3>3, <3>4 DEF FullInv, SequenceInv, OrderInv
    <3>6. m = v
          BY <2>1, <3>4, <3>5, OlderIsStrict
    <3> QED BY <3>1, <3>2, <3>6 DEF Lost
  <2>5. I \in SUBSET DOMAIN written
        OBVIOUS
  <2> HIDE DEF I, v
  <2> QED BY <1>1, <1>2, <2>3, <2>4, <2>5 DEF Log!Drop, Log!Settled
<1>3. CASE UNCHANGED evicted
      BY <1>1, <1>3
<1> QED BY <1>2, <1>3 DEF EvictVictim

LEMMA StepImplements ==
  ASSUME Reliable, DrainersSee
  PROVE  FullInv /\ [Next]_vars => [Log!Next]_(Log!logVars)
<1> DEFINE Still == UNCHANGED <<written, delivered, evicted>>
<1> SUFFICES ASSUME FullInv, [Next]_vars PROVE Log!Next \/ Still
    BY DEF Log!logVars
<1>1. ASSUME NEW w \in Writers, WriteStep(w) PROVE Log!Next \/ Still
  <2>1. CASE AppendRecord(w) \/ AppendFails(w)
    <3>1. /\ wpc[w] = "append" /\ written' = Append(written, wbatch[w])
          /\ UNCHANGED <<delivered, evicted>>
          BY <2>1 DEF AppendRecord, AppendFails, Reliable
    <3>2. wbatch[w] \in Batches /\ wbatch[w] \notin Stored
          BY <3>1 DEF FullInv, Inv, TypeInv, LockInv, HandInv, WriterInv, Pending
    <3>3. Log!Store(wbatch[w])
          BY <3>1, <3>2 DEF Log!Store, Log!Stored, Stored
    <3> QED BY <3>2, <3>3 DEF Log!Next
  <2>2. CASE EvictVictim(w)
        BY <2>2, EvictImplements DEF Log!Next
  <2>3. CASE WriteLock(w) \/ Rotate(w) \/ WriteReturns(w) \/ CountVictim(w)
        BY <2>3 DEF WriteLock, Rotate, WriteReturns, CountVictim, history
  <2> QED BY <1>1, <2>1, <2>2, <2>3 DEF WriteStep
<1>2. ASSUME NEW d \in Drainers, DrainStep(d) PROVE Log!Next \/ Still
  <2>1. CASE Deliver(d)
        BY <2>1, DeliverImplements DEF Log!Next
  <2>2. CASE ~Deliver(d)
        BY <1>2, <2>2 DEF DrainStep, ListSegments, ReadActive, NextSegment, MarkConsumed,
           AbortPass, ReadFails, StreamEnd, RemoveDrained, EndPass, DrainerReturns, DrainStutter
  <2> QED BY <2>1, <2>2
<1>3. CASE \/ FlushBegin \/ Close \/ Tick \/ Restart \/ UNCHANGED vars
           \/ (\E d \in Drainers : Cancel(d))
           \/ (\E w \in Writers, b \in Batches : WriteBegin(w, b))
      BY <1>3 DEF FlushBegin, Close, Tick, Restart, Cancel, WriteBegin, DrainStutter, vars, history
<1> HIDE DEF Still
<1> QED BY <1>1, <1>2, <1>3 DEF Next, Terminated

(* The buffer implements SignalLog as long as drainOnce can open and read  *)
(* what it has listed: through every interleaving of Write, enforceTotal,  *)
(* drainLoop and Flush, failing opens and fsyncs of Write, failing marks,  *)
(* crashes and restarts, batches reach the drain callback for the first    *)
(* time in the order in which they were appended, and only the oldest are  *)
(* evicted.                                                                *)
THEOREM LogImplemented ==
  ASSUME Reliable, DrainersSee PROVE Spec => ImplementsLog
<1>1. Init => Log!Init
      BY DEF Init, Log!Init
<1>2. FullInv /\ [Next]_vars => [Log!Next]_(Log!logVars)
      BY StepImplements
<1> QED BY <1>1, <1>2, FullCorrect, PTL DEF Spec, ImplementsLog, Log!Spec
=============================================================================
