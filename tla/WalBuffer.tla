------------------------------ MODULE WalBuffer ------------------------------
(***************************************************************************)
(* The local signal buffer of internal/buffer: a write-ahead log of        *)
(* numbered segment files, written by Write under segMu and drained,       *)
(* without that lock, by the background drain loop and by Flush.  The      *)
(* module follows the code step by step wherever another goroutine, a      *)
(* crash or a power loss can come in between.                              *)
(*                                                                         *)
(* Abstractions.  A batch is an identifier written once; a record has size *)
(* one, so segMaxBytes and totalMaxBytes are numbers of records; a file    *)
(* offset is the index of a record.  A record whose payload was cut short  *)
(* ("torn") ends what a reader of that segment can decode.  The wall clock *)
(* never runs backwards.                                                   *)
(*                                                                         *)
(* A definition that comes just before another with the same parameters    *)
(* and is used by none (AnyListed before Oldest, say) is the latter with a *)
(* plausible slip in it; the mutation runs put it in the other's place.    *)
(***************************************************************************)
EXTENDS Integers, Sequences, FiniteSets, FiniteSetsExt

CONSTANTS
  Batches,        \* what is written; every batch is written at most once
  Writers,        \* goroutines that call Write
  SegMax,         \* Buffer.segMaxBytes, in records
  TotalMax,       \* Buffer.totalMaxBytes, in records
  MaxTime,        \* bound on the wall clock, in seconds
  MaxSeq,         \* bound on segSeq, the per-process segment counter
  RestartGap,     \* seconds a restart takes at least (RestartSec of the unit)
  Faults,         \* I/O calls that may fail, out of FaultKinds
  LockedFiles,    \* TRUE where an open file cannot be removed (Windows)
  None            \* no segment (a nil *walSegment, an empty path), no owner

Drainers == {"loop", "flush"}    \* the goroutine of drainLoop, the call of Flush
FaultKinds == {"open", "append", "sync", "mark",    \* of Write, and markConsumedAt
               "reopen",    \* drainOnce opens a listed segment
               "read",      \* listing, sizes, the reads of streamRecords
               "count"}     \* countLiveRecords, which counts up to the first error
Names == (0 .. MaxTime) \X (1 .. MaxSeq)    \* wal-<unix>-<seq>.seg

ASSUME BufferAssumption ==
  /\ SegMax \in Nat \ {0} /\ TotalMax \in Nat \ {0} /\ SegMax <= TotalMax
  /\ MaxTime \in Nat /\ MaxSeq \in Nat /\ RestartGap \in Nat
  /\ Faults \subseteq FaultKinds
  /\ LockedFiles \in BOOLEAN
  /\ None \notin Names \cup Writers

VARIABLES
  closed,         \* Buffer.closed
  segMu,          \* the Write that holds Buffer.segMu, or None
  seg,            \* Buffer.seg: the segment open for appending
  segPath,        \* Buffer.segPath: the segment taken to be the active one
  segSeq,         \* segSeq: how many names segmentPath has handed out
  now,            \* time.Now().Unix()
  segs,           \* the records of every segment file, in file order
  linked,         \* the segment files that are in the directory
  wpc, wbatch,    \* where each Write is, and its batch
  victim,         \* the segment enforceTotal is about to remove, its live count
  dpc,            \* where each drainer is
  todo,           \* the listed segments drainOnce has still to visit
  active,         \* activePath as drainOnce read it
  cur, pos,       \* the segment being streamed and the next record to read
  cancelled,      \* the contexts of the drainers that are done
  countBatches, countDropped,    \* the metrics
  tried, written, acked,         \* history: Writes begun, records appended, Writes returned nil
  delivered, evicted,            \* history: accepted by the drain callback, removed undelivered
  sent                           \* history: what each drainer delivered in this process

procVars == <<closed, segMu, seg, segPath, segSeq>>
writeVars == <<wpc, wbatch, victim>>
drainVars == <<dpc, todo, active, cur, pos, cancelled>>
history == <<tried, written, acked, delivered, evicted, sent>>
vars == <<procVars, now, segs, linked, writeVars, drainVars,
          countBatches, countDropped, history>>

Frame == [batch : Batches, st : {"live", "marked", "consumed", "torn"}]
OlderBySeqOnly(m, n) == m[2] < n[2] \/ (m[2] = n[2] /\ m[1] < n[1])
Older(m, n) == m[1] < n[1] \/ (m[1] = n[1] /\ m[2] < n[2])
AnyListed(n, S) == n \in S
Oldest(n, S) == n \in S /\ \A m \in S \ {n} : Older(n, m)

(* "live" and "torn" both carry status byte 0x00; 0xFF is "marked" until   *)
(* the file is synced and "consumed" afterwards.                           *)
LiveRecords(n) == {i \in DOMAIN segs[n] : segs[n][i].st \in {"live", "torn"}}

(* What streamRecords still hands to its callback: decodable live records  *)
(* from the read position on.                                              *)
ReadableEvenIfConsumed(n, i) ==
  i \in DOMAIN segs[n] /\ \A j \in 1 .. i : segs[n][j].st # "torn"
Readable(n, i) ==
  /\ i \in DOMAIN segs[n]
  /\ segs[n][i].st = "live"
  /\ \A j \in 1 .. i : segs[n][j].st # "torn"
Ahead(d) == {i \in DOMAIN segs[cur[d]] : i >= pos[d] /\ Readable(cur[d], i)}

SegmentSize(n) == Len(segs[n])
TotalSize == MapThenSumSet(SegmentSize, linked)

OpenedAndLeaked(d, n) == dpc[d] # "off" /\ cur[d] = n
HasOpen(d, n) == dpc[d] \in {"stream", "mark"} /\ cur[d] = n
CanRemove(n) ==
  /\ n \in linked
  /\ LockedFiles => \A d \in Drainers : ~HasOpen(d, n)

Init ==
  /\ closed = FALSE /\ segMu = None /\ seg = None /\ segPath = None /\ segSeq = 0
  /\ now = 0
  /\ segs = [n \in Names |-> <<>>] /\ linked = {}
  /\ wpc = [w \in Writers |-> "idle"] /\ wbatch = [w \in Writers |-> None]
  /\ victim = [seg |-> None, live |-> 0]
  /\ dpc = [d \in Drainers |-> IF d = "loop" THEN "wait" ELSE "off"]
  /\ todo = [d \in Drainers |-> {}] /\ active = [d \in Drainers |-> None]
  /\ cur = [d \in Drainers |-> None] /\ pos = [d \in Drainers |-> 1]
  /\ cancelled = {}
  /\ countBatches = 0 /\ countDropped = 0
  /\ tried = {} /\ written = <<>> /\ acked = {} /\ delivered = {} /\ evicted = {}
  /\ sent = [d \in Drainers |-> {}]

-----------------------------------------------------------------------------
(* Write.                                                                  *)

(* The closed check, made before segMu is taken.  A Write on a closed      *)
(* buffer returns an error and changes nothing.                            *)
WriteBegin(w, b) ==
  /\ wpc[w] = "idle" /\ ~closed /\ b \notin tried
  /\ tried' = tried \cup {b}
  /\ wpc' = [wpc EXCEPT ![w] = "lock"]
  /\ wbatch' = [wbatch EXCEPT ![w] = b]
  /\ UNCHANGED <<procVars, now, segs, linked, victim, drainVars, countBatches,
                 countDropped, written, acked, delivered, evicted, sent>>

(* segmentPath and openSegment: the file is created, or reopened for       *)
(* appending when a file of that name is already there.                    *)
NameBeforeIncrement == <<now, segSeq>>
NameWithoutTime == <<0, segSeq + 1>>
NextName == <<now, segSeq + 1>>
OpenNew ==
  /\ segSeq < MaxSeq
  /\ segSeq' = segSeq + 1
  /\ seg' = NextName /\ segPath' = NextName
  /\ linked' = linked \cup {NextName}
  /\ segs' = IF NextName \in linked THEN segs ELSE [segs EXCEPT ![NextName] = <<>>]
OpenErrorIgnored ==
  /\ "open" \in Faults
  /\ segSeq < MaxSeq
  /\ segSeq' = segSeq + 1
  /\ seg' = NextName /\ segPath' = NextName
  /\ UNCHANGED <<linked, segs>>
OpenFails ==
  /\ "open" \in Faults
  /\ segSeq < MaxSeq
  /\ segSeq' = segSeq + 1
  /\ seg' = None
  /\ UNCHANGED <<segPath, linked, segs>>

(* Write takes segMu and opens the active segment when there is none.      *)
WriteLock(w) ==
  /\ wpc[w] = "lock" /\ segMu = None
  /\ \/ /\ seg # None
        /\ segMu' = w /\ wpc' = [wpc EXCEPT ![w] = "append"]
        /\ UNCHANGED <<seg, segPath, segSeq, linked, segs>>
     \/ /\ seg = None /\ OpenNew
        /\ segMu' = w /\ wpc' = [wpc EXCEPT ![w] = "append"]
     \/ /\ seg = None /\ OpenFails
        /\ wpc' = [wpc EXCEPT ![w] = "idle"]
        /\ UNCHANGED segMu
  /\ UNCHANGED <<closed, now, wbatch, victim, drainVars, countBatches,
                 countDropped, history>>

Appended(w, st) ==
  [segs EXCEPT ![seg] = Append(@, [batch |-> wbatch[w], st |-> st])]

(* appendRecord: header, payload and fsync.  A drainer that meets the      *)
(* record half written stops in front of it, as it would have done before. *)
AppendRecord(w) ==
  /\ wpc[w] = "append"
  /\ segs' = Appended(w, "live")
  /\ written' = Append(written, wbatch[w])
  /\ countBatches' = countBatches + 1
  /\ wpc' = [wpc EXCEPT ![w] = "rotate"]
  /\ UNCHANGED <<procVars, now, linked, wbatch, victim, drainVars, countDropped,
                 tried, acked, delivered, evicted, sent>>

(* appendRecord fails: before a byte is written, after the header but not  *)
(* the whole payload, or in the fsync of a record that is complete.  The   *)
(* segment stays open and Write returns an error.                          *)
AppendFails(w) ==
  /\ wpc[w] = "append"
  /\ \/ "append" \in Faults /\ UNCHANGED <<segs, written>>
     \/ /\ "append" \in Faults
        /\ segs' = Appended(w, "torn")
        /\ UNCHANGED written
     \/ /\ "sync" \in Faults
        /\ segs' = Appended(w, "live")
        /\ written' = Append(written, wbatch[w])
  /\ segMu' = None /\ wpc' = [wpc EXCEPT ![w] = "idle"]
  /\ UNCHANGED <<closed, seg, segPath, segSeq, now, linked, wbatch, victim, drainVars,
                 countBatches, countDropped, tried, acked, delivered, evicted, sent>>

(* Rotation, left out when the size cannot be read.  When the new segment  *)
(* cannot be opened there is no active segment but segPath still names the *)
(* old one.                                                                *)
Rotate(w) ==
  /\ wpc[w] = "rotate"
  /\ \/ /\ SegmentSize(segPath) <= SegMax \/ "read" \in Faults
        /\ UNCHANGED <<seg, segPath, segSeq, linked, segs>>
     \/ SegmentSize(segPath) > SegMax /\ OpenNew
     \/ SegmentSize(segPath) > SegMax /\ OpenFails
  /\ wpc' = [wpc EXCEPT ![w] = "enforce"]
  /\ UNCHANGED <<closed, segMu, now, wbatch, victim, drainVars, countBatches,
                 countDropped, history>>

(* enforceTotal returns, within budget or because the directory cannot be  *)
(* read, and Write with it: the batch is acknowledged.                     *)
WriteReturns(w) ==
  /\ wpc[w] = "enforce" /\ (TotalSize <= TotalMax \/ "read" \in Faults)
  /\ acked' = acked \cup {wbatch[w]}
  /\ segMu' = None /\ wpc' = [wpc EXCEPT ![w] = "idle"]
  /\ UNCHANGED <<closed, seg, segPath, segSeq, now, segs, linked, wbatch, victim,
                 drainVars, countBatches, countDropped, tried, written, delivered,
                 evicted, sent>>

(* enforceTotal over budget: the live records of the oldest segment other  *)
(* than the active one are counted ...  With no such segment the loop of   *)
(* enforceTotal spins, holding segMu: no step.                             *)
Evictable == linked \ {segPath}
DropCount(n) == Cardinality(LiveRecords(n))
Counted(n) == IF "count" \in Faults THEN 0 .. DropCount(n) ELSE {DropCount(n)}
CountVictim(w) ==
  /\ wpc[w] = "enforce" /\ TotalSize > TotalMax
  /\ \E n \in Evictable : \E k \in Counted(n) :
       /\ Oldest(n, Evictable)
       /\ victim' = [seg |-> n, live |-> k]
  /\ wpc' = [wpc EXCEPT ![w] = "evict"]
  /\ UNCHANGED <<procVars, now, segs, linked, wbatch, drainVars, countBatches,
                 countDropped, history>>

(* ... and then the segment is removed and the count added to the drops,   *)
(* unless the removal fails; either way the loop goes round again.         *)
Lost(n) == {segs[n][i].batch : i \in {j \in DOMAIN segs[n] : Readable(n, j)}} \ delivered
EvictVictim(w) ==
  /\ wpc[w] = "evict"
  /\ \/ /\ CanRemove(victim.seg)
        /\ linked' = linked \ {victim.seg}
        /\ countDropped' = countDropped + victim.live
        /\ evicted' = evicted \cup Lost(victim.seg)
     \/ /\ ~CanRemove(victim.seg)
        /\ UNCHANGED <<linked, countDropped, evicted>>
  /\ wpc' = [wpc EXCEPT ![w] = "enforce"]
  /\ UNCHANGED <<procVars, now, segs, wbatch, victim, drainVars, countBatches,
                 tried, written, acked, delivered, sent>>

-----------------------------------------------------------------------------
(* drainOnce, run by drainLoop on its ticker and by Flush in its loop.     *)

(* fsync of the segment a drainer has marked records in, before it closes  *)
(* its handles.                                                            *)
Synced(n) ==
  [segs EXCEPT ![n] = [i \in DOMAIN @ |->
     IF @[i].st = "marked" THEN [@[i] EXCEPT !.st = "consumed"] ELSE @[i]]]

Goto(d, l) == dpc' = [dpc EXCEPT ![d] = l]
DrainStutter == <<procVars, now, writeVars, countBatches, countDropped, tried,
                  written, acked, evicted>>

(* A pass begins with the listing of the directory.  drainLoop may take a  *)
(* tick that is due although its context is done; Flush looks at its       *)
(* context first.                                                          *)
ListSegments(d) ==
  /\ dpc[d] = "wait" /\ (d = "flush" => d \notin cancelled)
  /\ todo' = [todo EXCEPT ![d] = linked]
  /\ Goto(d, IF linked = {} THEN "next" ELSE "active")
  /\ UNCHANGED <<DrainStutter, segs, linked, active, cur, pos, cancelled, delivered, sent>>

(* The active path is read, under segMu, after the listing.                *)
ReadActive(d) ==
  /\ dpc[d] = "active" /\ segMu = None
  /\ active' = [active EXCEPT ![d] = segPath]
  /\ Goto(d, "next")
  /\ UNCHANGED <<DrainStutter, segs, linked, todo, cur, pos, cancelled, delivered, sent>>

(* The oldest segment of the listing is opened; one that cannot be opened, *)
(* because it has been removed in the meantime or for any other reason, is *)
(* skipped, and the pass goes on to newer ones.                            *)
NextSegment(d) ==
  /\ dpc[d] = "next"
  /\ \E n \in todo[d] :
       /\ Oldest(n, todo[d])
       /\ todo' = [todo EXCEPT ![d] = @ \ {n}]
       /\ \/ n \in linked /\ cur' = [cur EXCEPT ![d] = n] /\ Goto(d, "stream")
          \/ (n \notin linked \/ "reopen" \in Faults) /\ UNCHANGED <<cur, dpc>>
  /\ pos' = [pos EXCEPT ![d] = 1]
  /\ UNCHANGED <<DrainStutter, segs, linked, active, cancelled, delivered, sent>>

(* The next live record goes to the drain callback, which accepts it.      *)
Deliver(d) ==
  /\ dpc[d] = "stream" /\ d \notin cancelled
  /\ \E i \in Ahead(d) :
       /\ \A j \in Ahead(d) : i <= j
       /\ delivered' = delivered \cup {segs[cur[d]][i].batch}
       /\ sent' = [sent EXCEPT ![d] = @ \cup {segs[cur[d]][i].batch}]
       /\ pos' = [pos EXCEPT ![d] = i]
  /\ Goto(d, "mark")
  /\ UNCHANGED <<DrainStutter, segs, linked, todo, active, cur, cancelled>>

(* markConsumedAt: one status byte, not synced; its error is ignored.      *)
Marked(n, i) == [segs EXCEPT ![n][i].st = IF @ = "live" THEN "marked" ELSE @]
MarkConsumed(d) ==
  /\ dpc[d] = "mark"
  /\ \/ segs' = Marked(cur[d], pos[d])
     \/ "mark" \in Faults /\ UNCHANGED segs
  /\ pos' = [pos EXCEPT ![d] = @ + 1]
  /\ Goto(d, "stream")
  /\ UNCHANGED <<DrainStutter, linked, todo, active, cur, cancelled, delivered, sent>>

(* The drain callback refuses the record, or the drainer's context is done *)
(* before it is offered: the pass ends with an error.                      *)
GiveUp(d) == "done"
AfterAbort(d) == IF d \in cancelled THEN "done" ELSE "wait"
AbortPass(d) ==
  /\ dpc[d] = "stream" /\ Ahead(d) # {}
  /\ segs' = Synced(cur[d])
  /\ Goto(d, AfterAbort(d))
  /\ UNCHANGED <<DrainStutter, linked, todo, active, cur, pos, cancelled, delivered, sent>>

(* The directory cannot be listed, or the segment not read on: the pass    *)
(* ends with an error, on which drainLoop backs off and Flush gives up.    *)
ReadFails(d) ==
  /\ "read" \in Faults
  /\ \/ dpc[d] = "wait" /\ (d = "flush" => d \notin cancelled) /\ UNCHANGED segs
     \/ dpc[d] = "stream" /\ segs' = Synced(cur[d])
  /\ Goto(d, IF d = "flush" THEN "done" ELSE AfterAbort(d))
  /\ UNCHANGED <<DrainStutter, linked, todo, active, cur, pos, cancelled, delivered, sent>>

(* The stream has reached its end, or a payload it cannot read, which it   *)
(* takes for the end: sync, close, and see whether a segment that is not   *)
(* the active one has no live record left.                                 *)
DrainedEvenIfActive(d) == LiveRecords(cur[d]) = {}
Drained(d) == cur[d] # active[d] /\ LiveRecords(cur[d]) = {}
AfterStream(d) ==
  IF "count" \in Faults /\ cur[d] # active[d] THEN {"remove", "next"}
  ELSE {IF Drained(d) THEN "remove" ELSE "next"}
StreamEnd(d) ==
  /\ dpc[d] = "stream" /\ (Ahead(d) = {} \/ "read" \in Faults)
  /\ segs' = Synced(cur[d])
  /\ \E l \in AfterStream(d) : Goto(d, l)
  /\ UNCHANGED <<DrainStutter, linked, todo, active, cur, pos, cancelled, delivered, sent>>

RemoveDrained(d) ==
  /\ dpc[d] = "remove"
  /\ linked' = IF CanRemove(cur[d]) THEN linked \ {cur[d]} ELSE linked
  /\ Goto(d, "next")
  /\ UNCHANGED <<DrainStutter, segs, todo, active, cur, pos, cancelled, delivered, sent>>

(* A pass is over without an error.  Flush returns when it sees no segment *)
(* that holds a live record, and starts the next pass at once otherwise.   *)
(* It ignores the errors of this last look.                                *)
NothingLive == \A n \in linked : LiveRecords(n) = {}
EndPass(d) ==
  /\ dpc[d] = "next" /\ todo[d] = {}
  /\ \/ /\ d = "flush" /\ (NothingLive \/ Faults \cap {"read", "count"} # {})
        /\ Goto(d, "done")
     \/ ~(d = "flush" /\ NothingLive) /\ Goto(d, "wait")
  /\ UNCHANGED <<DrainStutter, segs, linked, todo, active, cur, pos, cancelled, delivered, sent>>

(* Between two passes a drainer whose context is done returns.             *)
DrainerReturns(d) ==
  /\ dpc[d] = "wait" /\ d \in cancelled
  /\ Goto(d, "done")
  /\ UNCHANGED <<DrainStutter, segs, linked, todo, active, cur, pos, cancelled, delivered, sent>>

-----------------------------------------------------------------------------
(* The agent around the buffer: stop() cancels the context of the drain    *)
(* loop, calls Flush with a deadline, then Close, and waits for the drain  *)
(* loop in none of these steps.                                            *)
Cancel(d) ==
  /\ d = "flush" => dpc[d] # "off"
  /\ cancelled' = cancelled \cup {d}
  /\ UNCHANGED <<DrainStutter, segs, linked, dpc, todo, active, cur, pos, delivered, sent>>

FlushBegin ==
  /\ dpc["flush"] = "off" /\ "loop" \in cancelled
  /\ Goto("flush", "wait")
  /\ UNCHANGED <<DrainStutter, segs, linked, todo, active, cur, pos, cancelled, delivered, sent>>

Close ==
  /\ dpc["flush"] = "done" /\ ~closed /\ segMu = None
  /\ closed' = TRUE /\ seg' = None
  /\ UNCHANGED <<segMu, segPath, segSeq, now, segs, linked, writeVars, drainVars,
                 countBatches, countDropped, history>>

Tick ==
  /\ now < MaxTime
  /\ now' = now + 1
  /\ UNCHANGED <<procVars, segs, linked, writeVars, drainVars, countBatches,
                 countDropped, history>>

(* The process ends, by a signal, a crash or a power loss, and is started  *)
(* again at a later second.  Everything in memory is lost.  A record that  *)
(* was being appended may be left torn, and every mark that was not synced *)
(* may have been lost with the page cache.                                 *)
Unsynced == {r \in linked \X (1 .. Cardinality(Batches)) :
               r[2] \in DOMAIN segs[r[1]] /\ segs[r[1]][r[2]].st = "marked"}
AfterPowerLoss(R, n) ==
  [i \in DOMAIN segs[n] |->
     IF segs[n][i].st = "marked"
     THEN [segs[n][i] EXCEPT !.st = IF <<n, i>> \in R THEN "live" ELSE "consumed"]
     ELSE segs[n][i]]
TornTail(n) ==
  {<<>>} \cup {<<[batch |-> wbatch[w], st |-> "torn"]>> : w \in {v \in Writers : wpc[v] = "append" /\ seg = n}}

Restart ==
  /\ \E t \in now + RestartGap .. MaxTime : now' = t
  /\ \E R \in SUBSET Unsynced, tail \in TornTail(seg) :
       segs' = [n \in Names |->
                  AfterPowerLoss(R, n) \o (IF n = seg THEN tail ELSE <<>>)]
  /\ closed' = FALSE /\ segMu' = None /\ seg' = None /\ segPath' = None /\ segSeq' = 0
  /\ wpc' = [w \in Writers |-> "idle"] /\ wbatch' = [w \in Writers |-> None]
  /\ victim' = [seg |-> None, live |-> 0]
  /\ dpc' = [d \in Drainers |-> IF d = "loop" THEN "wait" ELSE "off"]
  /\ todo' = [d \in Drainers |-> {}] /\ active' = [d \in Drainers |-> None]
  /\ cur' = [d \in Drainers |-> None] /\ pos' = [d \in Drainers |-> 1]
  /\ cancelled' = {}
  /\ countBatches' = 0 /\ countDropped' = 0
  /\ sent' = [d \in Drainers |-> {}]
  /\ UNCHANGED <<linked, tried, written, acked, delivered, evicted>>

Terminated ==
  /\ closed /\ \A d \in Drainers : dpc[d] = "done"
  /\ \A w \in Writers : wpc[w] = "idle"
  /\ UNCHANGED vars

WriteStep(w) ==
  \/ WriteLock(w) \/ AppendRecord(w) \/ AppendFails(w) \/ Rotate(w)
  \/ WriteReturns(w) \/ CountVictim(w) \/ EvictVictim(w)
DrainStep(d) ==
  \/ ListSegments(d) \/ ReadActive(d) \/ NextSegment(d) \/ Deliver(d)
  \/ MarkConsumed(d) \/ AbortPass(d) \/ ReadFails(d) \/ StreamEnd(d)
  \/ RemoveDrained(d) \/ EndPass(d) \/ DrainerReturns(d)
Next ==
  \/ \E w \in Writers, b \in Batches : WriteBegin(w, b)
  \/ \E w \in Writers : WriteStep(w)
  \/ \E d \in Drainers : DrainStep(d) \/ Cancel(d)
  \/ FlushBegin \/ Close \/ Tick \/ Restart \/ Terminated

Spec == Init /\ [][Next]_vars

-----------------------------------------------------------------------------
(* Type invariant of the buffer's state (Buffer, walSegment, drainOnce's   *)
(* local variables).                                                       *)
TypeOK ==
  /\ closed \in BOOLEAN
  /\ segMu \in Writers \cup {None}
  /\ seg \in Names \cup {None} /\ segPath \in Names \cup {None}
  /\ segSeq \in 0 .. MaxSeq /\ now \in 0 .. MaxTime
  /\ segs \in [Names -> Seq(Frame)] /\ linked \in SUBSET Names
  /\ wpc \in [Writers -> {"idle", "lock", "append", "rotate", "enforce", "evict"}]
  /\ wbatch \in [Writers -> Batches \cup {None}]
  /\ victim \in [seg : Names \cup {None}, live : Nat]
  /\ dpc \in [Drainers -> {"off", "wait", "active", "next", "stream", "mark", "remove", "done"}]
  /\ todo \in [Drainers -> SUBSET Names]
  /\ active \in [Drainers -> Names \cup {None}] /\ cur \in [Drainers -> Names \cup {None}]
  /\ pos \in [Drainers -> Nat \ {0}]
  /\ cancelled \in SUBSET Drainers
  /\ countBatches \in Nat /\ countDropped \in Nat
  /\ tried \in SUBSET Batches /\ acked \in SUBSET Batches
  /\ delivered \in SUBSET Batches /\ evicted \in SUBSET Batches
  /\ written \in Seq(Batches)
  /\ sent \in [Drainers -> SUBSET Batches]

(* A batch whose Write returned nil has been accepted by the drain         *)
(* callback, or was evicted for space, or can still be read from a segment *)
(* in the directory: no interleaving of Write, enforceTotal and the two    *)
(* drainers, and no crash or restart, loses it silently.                   *)
OnDisk == {b \in Batches : \E n \in linked : \E i \in DOMAIN segs[n] :
                              Readable(n, i) /\ segs[n][i].batch = b}
NoSilentLoss == acked \subseteq delivered \cup evicted \cup OnDisk

(* The segment Write appends to is never deleted under it: drainOnce       *)
(* deletes segments without holding segMu, on the strength of a listing    *)
(* and an active path read before.                                         *)
OpenSegmentLinked == seg # None => seg \in linked

(* Segments a drainer still means to visit or is visiting.                 *)
Held(d) == todo[d] \cup (IF dpc[d] \in {"stream", "mark", "remove"} THEN {cur[d]} ELSE {})
Known == linked \cup UNION {Held(d) : d \in Drainers}
InWrite(w) == wpc[w] \in {"append", "rotate", "enforce", "evict"}
Stored == {written[k] : k \in DOMAIN written}
Recorded == acked \cup Stored
            \cup {wbatch[w] : w \in {v \in Writers : wpc[v] \in {"rotate", "enforce", "evict"}}}

(* When appends fail as well, what a record cut short hides from every     *)
(* reader is no more than what was appended after it to the same segment.  *)
(* (Not so where countLiveRecords falls short: drainOnce then removes what *)
(* it has not read.)                                                       *)
BehindTorn == {b \in Batches : \E n \in Names : \E i, j \in DOMAIN segs[n] :
                                 segs[n][i].batch = b /\ j < i /\ segs[n][j].st = "torn"}
DamageContained == Recorded \subseteq delivered \cup evicted \cup OnDisk \cup BehindTorn

(* The parts of the inductive invariants.                                  *)

(* segMu is held by the Write that is in its critical section, which       *)
(* appends to an open segment that segPath names and evicts another.       *)
LockInv ==
  /\ \A w \in Writers : InWrite(w) <=> segMu = w
  /\ \A w \in Writers : wpc[w] \in {"append", "rotate"} => seg # None
  /\ \A w \in Writers : wpc[w] # "idle" => wbatch[w] \in Batches
  /\ \A w \in Writers : wpc[w] = "evict" => victim.seg \in Names /\ victim.seg # segPath
  /\ seg # None => seg = segPath
CursorInv == \A d \in Drainers : dpc[d] \in {"stream", "mark", "remove"} => cur[d] \in Names

(* The next name is new, now and after a restart: no name ever used is from*)
(* a later second, and one from this second has a smaller number.          *)
Used == Known \cup {n \in Names : Len(segs[n]) > 0}
NameInv == \A n \in Used : n[1] <= now /\ (n[2] <= segSeq \/ n[1] < now)

(* A drainer takes no segment for deletable that Write may append to.      *)
DrainOK(d) ==
  /\ dpc[d] \in {"next", "stream", "mark", "remove"} => seg \notin Held(d) \ {active[d]}
  /\ dpc[d] = "mark" => /\ pos[d] \in DOMAIN segs[cur[d]]
                        /\ segs[cur[d]][pos[d]].batch \in delivered
  /\ dpc[d] = "remove" =>
       /\ cur[d] # active[d]
       /\ "count" \notin Faults => LiveRecords(cur[d]) = {}
DrainInv == \A d \in Drainers : DrainOK(d)

(* Marks follow deliveries.  Where no append fails a torn record ends its  *)
(* segment, which is not the open one, and hides nothing.                  *)
MarkInv ==
  \A n \in Names : \A i \in DOMAIN segs[n] :
    segs[n][i].st \in {"marked", "consumed"} => segs[n][i].batch \in delivered
TornInv ==
  \A n \in Names : \A i \in DOMAIN segs[n] :
    segs[n][i].st = "torn" => i = Len(segs[n]) /\ n # seg

SafeInv == Recorded \subseteq delivered \cup evicted \cup OnDisk

(* A batch on its way into the log is not in it, and on its way once.      *)
Pending(w) == wpc[w] \in {"lock", "append"}
WriterInv ==
  /\ Stored \subseteq tried
  /\ \A w \in Writers : Pending(w) => wbatch[w] \in tried \ Stored
  /\ \A v, w \in Writers : Pending(v) /\ Pending(w) /\ v # w => wbatch[v] # wbatch[w]

(* A batch is whole in one record at most; what a drainer has handed over  *)
(* is nowhere live but in the record it is about to mark.                  *)
Whole(n, i) == i \in DOMAIN segs[n] /\ segs[n][i].st # "torn"
UniqueInv ==
  \A m \in Names : \A i \in DOMAIN segs[m] :
    Whole(m, i) =>
      /\ segs[m][i].batch \in Stored
      /\ \A n \in Names : \A j \in DOMAIN segs[n] :
           Whole(n, j) /\ segs[m][i].batch = segs[n][j].batch => m = n /\ i = j
SentOK(d) ==
  /\ sent[d] \subseteq Stored
  /\ \A n \in Names : \A i \in DOMAIN segs[n] :
       segs[n][i].st = "live" /\ segs[n][i].batch \in sent[d] =>
         dpc[d] = "mark" /\ n = cur[d] /\ i = pos[d]
SentInv == \A d \in Drainers : SentOK(d)

(* Segments in the order of their names hold the batches in the order in   *)
(* which they were appended, the segment segPath names the last of them.   *)
NewestInv == segPath # None => \A n \in Known : n = segPath \/ Older(n, segPath)
OrderInv ==
  /\ \A n \in Known : \A i \in DOMAIN segs[n] : Whole(n, i) => segs[n][i].batch \in Stored
  /\ \A m, n \in Known : \A i \in DOMAIN segs[m], j \in DOMAIN segs[n] :
       Whole(m, i) /\ Whole(n, j) =>
         \A k, l \in DOMAIN written :
           k < l /\ segs[m][i].batch = written[k] /\ segs[n][j].batch = written[l]
           => Older(m, n) \/ (m = n /\ i < j)

(* What a pass has left behind it, in older segments and before pos, is    *)
(* delivered; what enforceTotal is about to evict is the oldest there is.  *)
Working(d) == dpc[d] \in {"active", "next", "stream", "mark", "remove"}
AllDelivered(n) ==
  \A i \in DOMAIN segs[n] : Readable(n, i) => segs[n][i].batch \in delivered
PassOK(d) ==
  /\ Working(d) =>
       \A m \in linked \ Held(d), t \in Held(d) : Older(m, t) => AllDelivered(m)
  /\ dpc[d] \in {"stream", "mark", "remove"} => \A t \in todo[d] : Older(cur[d], t)
  /\ dpc[d] \in {"stream", "mark"} =>
       \A i \in 1 .. pos[d] - 1 :
         /\ i \in DOMAIN segs[cur[d]]
         /\ Readable(cur[d], i) => segs[cur[d]][i].batch \in delivered
PassInv == \A d \in Drainers : PassOK(d)
VictimInv ==
  \A w \in Writers : wpc[w] = "evict" =>
    \A m \in linked : m = victim.seg \/ Older(victim.seg, m)

(* A drainer that skips a segment, or leaves one before its end, goes on   *)
(* to newer ones past live records.                                        *)
DrainersSee == Faults \cap {"reopen", "read"} = {}
SequenceInv == NewestInv /\ OrderInv /\ (DrainersSee => PassInv) /\ VictimInv

(* The inductive invariant under every fault, and with what is added to it *)
(* where no append fails: behind NoSilentLoss and ImplementsLog.           *)
DamageInv ==
  /\ LockInv /\ CursorInv /\ OpenSegmentLinked /\ NameInv /\ DrainInv /\ MarkInv
  /\ ("count" \notin Faults => DamageContained)
  /\ WriterInv /\ UniqueInv /\ ("mark" \notin Faults => SentInv)
BufferInv == DamageInv /\ TornInv /\ SafeInv /\ SequenceInv

(* The buffer implements SignalLog: across rotations, failed passes, two   *)
(* drainers at work at once, crashes and restarts, batches reach the drain *)
(* callback for the first time in the order in which they were appended,   *)
(* and eviction gives up only the oldest.                                  *)
Log == INSTANCE SignalLog WITH log <- written, dropped <- evicted
ImplementsLog == Log!Spec

(* Within one process no drainer hands the same batch to the callback      *)
(* twice: with drainLoop and Flush overlapping at shutdown a batch is      *)
(* delivered at most twice per process lifetime.                           *)
NoSecondHandover ==
  [][\A d \in Drainers :
       dpc[d] = "stream" /\ dpc'[d] = "mark" =>
         segs[cur[d]][pos'[d]].batch \notin sent[d]]_vars

(* Every directory entry a process opens for a new segment is a new file.  *)
FreshNames == [][segSeq' > segSeq /\ seg' # None => seg' \notin linked]_vars

-----------------------------------------------------------------------------
(* Fairness.  Runnable goroutines run, sync.Mutex does not starve a        *)
(* waiter, the select of drainLoop between a due tick and a done context   *)
(* is random, and the output accepts again and again what it is offered    *)
(* again and again.  Nothing obliges a caller to Write or the agent to     *)
(* stop, and the deadline of Flush need not strike.                        *)
Fairness ==
  /\ \A w \in Writers : SF_vars(WriteLock(w)) /\ WF_vars(WriteStep(w))
  /\ \A d \in Drainers :
       /\ WF_vars(DrainStep(d)) /\ SF_vars(ReadActive(d))
       /\ SF_vars(Deliver(d)) /\ SF_vars(DrainerReturns(d))
FairSpec == Spec /\ Fairness

(* An acknowledged batch is delivered, or evicted, unless the agent is     *)
(* being stopped: no failed pass, skipped segment or backoff strands it.   *)
EventuallyDrained ==
  \A b \in Batches :
    (b \in acked) ~> (b \in delivered \cup evicted \/ "loop" \in cancelled)

(* Write comes back although it evicts in a loop under segMu and a file a  *)
(* drainer holds open cannot be removed.                                   *)
WriteComesBack == \A w \in Writers : wpc[w] = "append" ~> wpc[w] = "idle"
=============================================================================
