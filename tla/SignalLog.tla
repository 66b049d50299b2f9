----------------------------- MODULE SignalLog -----------------------------
(***************************************************************************)
(* What the local signal buffer promises (the package comment of           *)
(* internal/buffer and the release notes): signals are kept in a log and   *)
(* come out of it at least once and oldest first; only when space runs out *)
(* are signals given up, again oldest first.  Delivering a signal again is *)
(* a stuttering step.                                                      *)
(***************************************************************************)
EXTENDS Naturals, Sequences

CONSTANT Batches

VARIABLES log,          \* the batches stored, in the order they were stored
          delivered,    \* the batches the consumer has accepted
          dropped       \* the batches given up for space

logVars == <<log, delivered, dropped>>

Stored == {log[i] : i \in DOMAIN log}
Settled(i) == log[i] \in delivered \cup dropped

Init == log = <<>> /\ delivered = {} /\ dropped = {}

Store(b) ==
  /\ b \notin Stored
  /\ log' = Append(log, b)
  /\ UNCHANGED <<delivered, dropped>>

(* A batch comes out only when every older one has come out or is gone.    *)
Deliver(i) ==
  /\ \A j \in 1 .. i - 1 : Settled(j)
  /\ delivered' = delivered \cup {log[i]}
  /\ UNCHANGED <<log, dropped>>

(* A set of batches is given up: nothing older than one of them is left.   *)
Drop(I) ==
  /\ \A i \in I : \A j \in 1 .. i - 1 : Settled(j) \/ j \in I
  /\ dropped' = dropped \cup ({log[i] : i \in I} \ delivered)
  /\ UNCHANGED <<log, delivered>>

Next ==
  \/ \E b \in Batches : Store(b)
  \/ \E i \in DOMAIN log : Deliver(i)
  \/ \E I \in SUBSET DOMAIN log : Drop(I)

Spec == Init /\ [][Next]_logVars
=============================================================================
