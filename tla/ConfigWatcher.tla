--------------------------- MODULE ConfigWatcher ---------------------------
(***************************************************************************)
(* The Watcher of internal/connector: it watches the directory of the      *)
(* connectors file and, for each event of that file, reads the file as it  *)
(* is by then and hands what it parsed to onChange.                        *)
(*                                                                         *)
(* The editors and fsnotify are external.  A save truncates the file and   *)
(* writes it in two parts, or renames a finished file over it, perhaps     *)
(* after moving the old one away; each change queues its events, and the   *)
(* kernel drops events when its queue is full and says so with an error.   *)
(* What the file holds is a version of the configuration and how much of   *)
(* it is there: an empty file and one cut at the end of an entry both      *)
(* parse, one that is cut elsewhere or mistyped does not.                  *)
(*                                                                         *)
(* Init is the state after NewWatcher, with a caller that has loaded the   *)
(* file since.                                                             *)
(*                                                                         *)
(* An unused definition before one with the same parameters is that        *)
(* definition with a slip, for the mutation runs.                          *)
(***************************************************************************)
EXTENDS Naturals, Sequences

CONSTANTS
  MaxSaves,   \* bound: versions of the file
  MaxQueue    \* the length of the kernel's event queue

ASSUME WatcherAssumption == MaxSaves \in Nat /\ MaxQueue \in Nat \ {0}

Parts == {"none", "zero", "prefix", "broken", "whole"}
Content == [v : 0 .. MaxSaves, part : Parts]
Changes == {"write", "create", "rename", "remove"}
Events == Changes \cup {"chmod", "sibling", "overflow"}

VARIABLES
  file,       \* the file at path
  save,       \* what the editor has yet to do: "nothing" "rest" "new"
  events,     \* events of the directory that Start has not received
  pc, cfg,    \* Start: its step, what it has parsed
  applied,    \* the configuration onChange was called with last
  cancelled, closing,   \* ctx is cancelled; Close was called
  missed      \* history: the queue was full, or the file could not be read

vars == <<file, save, events, pc, cfg, applied, cancelled, closing, missed>>

Init ==
  /\ file = [v |-> 0, part |-> "whole"] /\ save = "nothing" /\ events = <<>>
  /\ pc = "off" /\ cfg = file /\ applied = file
  /\ cancelled = FALSE /\ closing = FALSE /\ missed = FALSE

-----------------------------------------------------------------------------
(* Nothing is queued once the fsnotify watcher is closed, by Close or by   *)
(* the deferred call of Start.                                             *)
Closed == closing \/ pc = "done"
Queue(new) ==
  IF Closed THEN UNCHANGED <<events, missed>>
  ELSE IF Len(events \o new) <= MaxQueue
  THEN events' = events \o new /\ UNCHANGED missed
  ELSE /\ events' = IF Len(events) > MaxQueue THEN events
                    ELSE Append(SubSeq(events \o new, 1, MaxQueue), "overflow")
       /\ missed' = TRUE

watcher == <<pc, cfg, applied, cancelled, closing>>
Exists == file.part # "none"
NewContent == {[v |-> file.v + 1, part |-> k] : k \in {"whole", "broken"}}

Truncate ==
  /\ save = "nothing" /\ file.v < MaxSaves
  /\ file' = [v |-> file.v + 1, part |-> "zero"] /\ save' = "rest"
  /\ Queue(IF Exists THEN <<"write">> ELSE <<"create">>)
  /\ UNCHANGED watcher
WriteSome ==
  /\ save = "rest" /\ file.part = "zero"
  /\ file' \in {[file EXCEPT !.part = k] : k \in {"prefix", "broken"}}
  /\ Queue(<<"write">>) /\ UNCHANGED <<save, watcher>>
WriteRest ==
  /\ save = "rest"
  /\ file' \in {[file EXCEPT !.part = k] : k \in {"whole", "broken"}} /\ save' = "nothing"
  /\ Queue(<<"write">>) /\ UNCHANGED watcher
TakeAway ==
  /\ save = "nothing" /\ Exists
  /\ file' = [file EXCEPT !.part = "none"]
  /\ \/ save' = "new" /\ Queue(<<"rename">>)
     \/ save' = save /\ Queue(<<"remove">>)
  /\ UNCHANGED watcher
FollowsTheInode == <<"sibling">>
Renamed == <<"sibling", "create">>
RenameOver ==
  /\ save \in {"nothing", "new"} /\ file.v < MaxSaves
  /\ file' \in NewContent /\ save' = "nothing"
  /\ Queue(Renamed) /\ UNCHANGED watcher
Unrelated ==
  /\ \E e \in {"sibling", "chmod"} : Queue(<<e>>)
  /\ UNCHANGED <<file, save, watcher>>
Editor == Truncate \/ WriteSome \/ WriteRest \/ TakeAway \/ RenameOver

-----------------------------------------------------------------------------
environment == <<file, save>>
Start ==
  /\ pc = "off" /\ pc' = "select"
  /\ UNCHANGED <<environment, events, cfg, applied, cancelled, closing, missed>>

(* An event of another file, a chmod and an error are passed over.         *)
Reloads(e) == e \in Changes
Receive ==
  /\ pc = "select" /\ events # <<>>
  /\ events' = Tail(events)
  /\ pc' = IF Reloads(Head(events)) THEN "read" ELSE pc
  /\ UNCHANGED <<environment, cfg, applied, cancelled, closing, missed>>

(* LoadConnectorsConfig: the file as it is now, not as it was at the event.*)
Parses(f) == f.part \in {"zero", "prefix", "whole"}
GivesUp == "done"
AfterError == "select"
Load ==
  /\ pc = "read"
  /\ \/ Parses(file) /\ cfg' = file /\ pc' = "call" /\ UNCHANGED missed
     \/ ~Parses(file) /\ pc' = AfterError /\ UNCHANGED <<cfg, missed>>
     \/ pc' = AfterError /\ missed' = TRUE /\ UNCHANGED cfg      \* read error
  /\ UNCHANGED <<environment, events, applied, cancelled, closing>>

OnChange ==
  /\ pc = "call"
  /\ applied' = cfg /\ pc' = "select"
  /\ UNCHANGED <<environment, events, cfg, cancelled, closing, missed>>

(* Start returns with its context, or when the Events channel is closed.   *)
MayReturn == cancelled \/ closing
Return ==
  /\ pc = "select" /\ MayReturn
  /\ pc' = "done" /\ events' = <<>>
  /\ UNCHANGED <<environment, cfg, applied, cancelled, closing, missed>>

Cancel ==
  /\ ~cancelled /\ cancelled' = TRUE
  /\ UNCHANGED <<environment, events, pc, cfg, applied, closing, missed>>
Close ==
  /\ ~closing /\ closing' = TRUE
  /\ UNCHANGED <<environment, events, pc, cfg, applied, cancelled, missed>>

Loop == Receive \/ Load \/ OnChange
Next == Editor \/ Unrelated \/ Start \/ Loop \/ Return \/ Cancel \/ Close

(* Select chooses at random among what is ready, so Return is not passed   *)
(* over for ever.                                                          *)
Spec == /\ Init /\ [][Next]_vars
        /\ WF_vars(Start) /\ WF_vars(Loop) /\ SF_vars(Return)

-----------------------------------------------------------------------------
TypeOK ==
  /\ file \in Content /\ save \in {"nothing", "rest", "new"} /\ events \in Seq(Events)
  /\ pc \in {"off", "select", "read", "call", "done"}
  /\ cfg \in Content /\ applied \in Content
  /\ cancelled \in BOOLEAN /\ closing \in BOOLEAN /\ missed \in BOOLEAN

Ended == cancelled \/ closing
(* A change of the file is on its way as an event, being read, or being    *)
(* handed over.                                                            *)
OnItsWay ==
  \/ \E i \in 1 .. Len(events) : events[i] \in Changes
  \/ pc = "read"
  \/ pc = "call" /\ cfg = file
WatcherInv ==
  /\ TypeOK /\ (pc = "done" => Ended)
  /\ Parses(file) /\ ~missed /\ ~Ended => (applied = file /\ pc # "call") \/ OnItsWay

(* config.go:53-60: however the file is saved, a watcher that has nothing  *)
(* left to receive has applied the file as it is, unless the file does not *)
(* parse.  It reads at a later time than the event, so that the last event *)
(* of a save finds the save complete.                                      *)
CaughtUp ==
  pc = "select" /\ events = <<>> /\ Parses(file) /\ ~missed /\ ~Ended
    => applied = file

(* config.go:115-118: what is whole and stays is applied in the end, over  *)
(* saves that did not parse and files that were away for a moment.         *)
Settled == save = "nothing" /\ file.part = "whole"
Settles ==
  <>[](Settled /\ ~missed /\ ~Ended) => <>[](applied = file)
=============================================================================
