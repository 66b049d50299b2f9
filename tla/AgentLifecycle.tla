--------------------------- MODULE AgentLifecycle ---------------------------
(***************************************************************************)
(* How the agent comes up and goes down: Start and stop of internal/agent, *)
(* the observability server, the gRPC collector of internal/collector/llm  *)
(* with the calls it serves, the fanOut goroutine of the EUC collector,    *)
(* and the two drivers: Agent.Run, which stops what it has started, and    *)
(* the Windows service, whose Stop may come while Start still runs in its  *)
(* goroutine.                                                              *)
(*                                                                         *)
(* The fields both threads use have no lock; each step here reads and      *)
(* writes them in memory order.  What ingestLoop, buffer and dispatcher do *)
(* with a batch is in AgentPipeline; here they run or do not.  A panic of  *)
(* any goroutine ends the process.  An unused definition before one with   *)
(* the same parameters is that definition with a slip, for the mutation    *)
(* runs.                                                                   *)
(***************************************************************************)
EXTENDS Integers, FiniteSets

CONSTANTS
  Outputs,        \* how many outputs are configured
  Rpcs,           \* calls of IngestBatch that clients make
  Observations,   \* what the OS collector sees
  IngestCap       \* capacity of ingestCh (256)

ASSUME LifecycleAssumption ==
  /\ Outputs \in Nat /\ IngestCap \in Nat \ {0}
  /\ Rpcs \cap Observations = {} /\ Observations \cap {"none", "idle", "exited"} = {}

VARIABLES
  config,         \* run as a service; gRPC, Unix socket, observability configured
  starting,       \* the step of Start
  stopping,       \* the step of stop
  agent,          \* the fields of Agent, and the state of what they point to
  ctx,            \* the lifecycle context: "none", "live", "done"
  rpc,            \* each call: "idle", "sending", "acked", "gone", "refused"
  fan,            \* fanOut: "none", "idle", "exited" or the observation it holds
  chan, handled,  \* batches in ingestCh; those ingestLoop has received
  panic,          \* the goroutine that sent on a closed channel, or "no"
  overlap,        \* history: stop was called while Start ran
  missed          \* history: stop found no ingestCh while Start ran

vars == <<config, starting, stopping, agent, ctx, rpc, fan, chan, handled, panic,
          overlap, missed>>

Unset == [obs |-> "none", ready |-> FALSE, connected |-> 0, dispatcher |-> "none",
          buffer |-> "none", collectors |-> {}, closing |-> {}, llm |-> "none",
          once |-> "new", ch |-> "none", loop |-> "none"]

Init ==
  /\ config \in [service : BOOLEAN, grpc : BOOLEAN, unix : BOOLEAN, obs : BOOLEAN]
  /\ starting = "begin" /\ stopping = "no" /\ agent = Unset /\ ctx = "none"
  /\ rpc = [r \in Rpcs |-> "idle"] /\ fan = "none" /\ chan = {} /\ handled = {}
  /\ panic = "no" /\ overlap = FALSE /\ missed = FALSE

traffic == <<rpc, fan, chan, handled, panic>>
history == <<overlap, missed>>

-----------------------------------------------------------------------------
(* Start.  Every failure but one leaves through the cancel of Start alone. *)
Fail == starting' = "failed" /\ ctx' = "done"
StartUnchanged == UNCHANGED <<config, stopping, traffic, history>>

Begin ==
  /\ starting = "begin"
  /\ starting' = "identity" /\ ctx' = "live"
  /\ UNCHANGED agent /\ StartUnchanged

ResolveIdentity ==
  /\ starting = "identity"
  /\ \/ starting' = "outputs" /\ UNCHANGED ctx
     \/ Fail
  /\ UNCHANGED agent /\ StartUnchanged

(* Build, Connect and Register of the outputs in turn.                     *)
ConnectOutput ==
  /\ starting = "outputs" /\ Outputs > 0 /\ agent.connected < Outputs
  /\ \/ agent' = [agent EXCEPT !.connected = @ + 1] /\ UNCHANGED <<starting, ctx>>
     \/ Fail /\ UNCHANGED agent
  /\ StartUnchanged

OutputsDone ==
  /\ starting = "outputs" /\ agent.connected = Outputs
  /\ IF Outputs = 0 THEN Fail ELSE starting' = "dispatcher" /\ UNCHANGED ctx
  /\ UNCHANGED agent /\ StartUnchanged

CreateDispatcher ==
  /\ starting = "dispatcher"
  /\ agent' = [agent EXCEPT !.dispatcher = "running"]
  /\ starting' = "buffer"
  /\ UNCHANGED ctx /\ StartUnchanged

StartBuffer ==
  /\ starting = "buffer"
  /\ agent' = [agent EXCEPT !.buffer = "open"]
  /\ \/ starting' = (IF config.obs THEN "obs" ELSE "collectors") /\ UNCHANGED ctx
     \/ Fail
  /\ StartUnchanged

InitiallyReady == TRUE
NotReady == FALSE
MakeObs ==
  /\ starting = "obs"
  /\ agent' = [agent EXCEPT !.obs = "made", !.ready = NotReady]
  /\ starting' = "listen"
  /\ UNCHANGED ctx /\ StartUnchanged

(* Serve gives the listener back at once when Shutdown has come first.     *)
ListenObs ==
  /\ starting = "listen"
  /\ \/ /\ agent' = [agent EXCEPT !.obs = IF @ = "made" THEN "listening" ELSE @]
        /\ starting' = "collectors" /\ UNCHANGED ctx
     \/ Fail /\ UNCHANGED agent
  /\ StartUnchanged

BuildCollectors ==
  /\ starting = "collectors"
  /\ agent' = [agent EXCEPT !.collectors = (IF config.grpc THEN {"llm"} ELSE {}) \cup {"euc"}]
  /\ starting' = "ingest"
  /\ UNCHANGED ctx /\ StartUnchanged

StartIngestLoop ==
  /\ starting = "ingest"
  /\ agent' = [agent EXCEPT !.ch = "open", !.loop = "running"]
  /\ starting' = (IF config.grpc THEN "llm" ELSE "euc")
  /\ UNCHANGED ctx /\ StartUnchanged

(* The server of the gRPC collector exists before its second listener: if  *)
(* that fails, the first stays bound and nobody serves it.                 *)
StartLlm ==
  /\ starting = "llm"
  /\ \/ /\ agent' = [agent EXCEPT !.llm = "serving"]
        /\ starting' = "euc" /\ UNCHANGED ctx
     \/ Fail /\ UNCHANGED agent
     \/ config.unix /\ Fail /\ agent' = [agent EXCEPT !.llm = "half"]
  /\ StartUnchanged

StartEuc ==
  /\ starting = "euc"
  /\ \/ fan' = "idle" /\ starting' = "ready" /\ UNCHANGED ctx
     \/ Fail /\ UNCHANGED fan
  /\ UNCHANGED <<config, stopping, agent, rpc, chan, handled, panic, history>>

SetReady ==
  /\ starting = "ready"
  /\ agent' = [agent EXCEPT !.ready = config.obs]
  /\ starting' = "up"
  /\ UNCHANGED ctx /\ StartUnchanged

-----------------------------------------------------------------------------
(* stop, in the order of its steps.                                        *)
StopUnchanged == UNCHANGED <<config, starting, traffic>>
Running == starting \notin {"up", "failed"}

(* Run stops what has started; the service passes on a request at any time.*)
StopRequest ==
  /\ stopping = "no"
  /\ config.service \/ starting = "up"
  /\ stopping' = "obs" /\ overlap' = Running
  /\ UNCHANGED <<agent, ctx, missed>> /\ StopUnchanged

StopObs ==
  /\ stopping = "obs"
  /\ agent' = IF agent.obs = "none" THEN agent
              ELSE [agent EXCEPT !.ready = FALSE, !.obs = "shut"]
  /\ stopping' = "cancel"
  /\ UNCHANGED <<ctx, history>> /\ StopUnchanged

CancelContext ==
  /\ stopping = "cancel"
  /\ ctx' = IF ctx = "none" THEN ctx ELSE "done"
  /\ stopping' = "list"
  /\ UNCHANGED <<agent, history>> /\ StopUnchanged

ListCollectors ==
  /\ stopping = "list"
  /\ agent' = [agent EXCEPT !.closing = agent.collectors]
  /\ stopping' = "collectors"
  /\ UNCHANGED <<ctx, history>> /\ StopUnchanged

(* Collector.Close: once; a second caller waits for the first.  A Close    *)
(* before Start finds no server and uses the once up.                      *)
NotAwaited == {}
InFlight == {r \in Rpcs : rpc[r] = "sending"}
ClosedInBackground == [agent EXCEPT !.once = "done"]
CloseOnce ==
  [agent EXCEPT !.once = IF @ # "new" THEN @
                         ELSE IF agent.llm = "none" THEN "done" ELSE "busy"]

CloseLlm ==
  /\ stopping = "collectors" /\ "llm" \in agent.closing
  /\ IF agent.once = "done"
     THEN agent' = [agent EXCEPT !.closing = @ \ {"llm"}]
     ELSE agent.once = "new" /\ agent' = CloseOnce
  /\ UNCHANGED <<stopping, ctx, history>> /\ StopUnchanged

CloseEuc ==
  /\ stopping = "collectors" /\ agent.closing = {"euc"}
  /\ agent' = [agent EXCEPT !.closing = {}]
  /\ UNCHANGED <<stopping, ctx, history>> /\ StopUnchanged

ChannelLeftOpen == agent.ch
ChannelClosed == IF agent.ch = "none" THEN "none" ELSE "closed"
CloseChannel ==
  /\ stopping = "collectors" /\ agent.closing = {}
  /\ agent' = [agent EXCEPT !.ch = ChannelClosed]
  /\ missed' = (Running /\ agent.ch = "none")
  /\ stopping' = "wait"
  /\ UNCHANGED <<ctx, overlap>> /\ StopUnchanged

LoopGone == agent.loop # "running"
WaitForLoop ==
  /\ stopping = "wait" /\ LoopGone
  /\ stopping' = "flush"
  /\ UNCHANGED <<agent, ctx, history>> /\ StopUnchanged

FlushBuffer ==
  /\ stopping = "flush"
  /\ agent' = [agent EXCEPT !.buffer = IF @ = "none" THEN @ ELSE "closed"]
  /\ stopping' = "dispatcher"
  /\ UNCHANGED <<ctx, history>> /\ StopUnchanged

CloseDispatcher ==
  /\ stopping = "dispatcher"
  /\ agent' = [agent EXCEPT !.dispatcher = IF @ = "none" THEN @ ELSE "closed"]
  /\ stopping' = "done"
  /\ UNCHANGED <<ctx, history>> /\ StopUnchanged

-----------------------------------------------------------------------------
(* The goroutines that live between the two.                               *)
GoUnchanged == UNCHANGED <<config, starting, stopping, ctx, history>>

(* The gRPC collector closes itself when the context is done.              *)
LlmSeesDone ==
  /\ agent.llm = "serving" /\ ctx = "done" /\ agent.once = "new"
  /\ agent' = CloseOnce
  /\ UNCHANGED traffic /\ GoUnchanged

(* GracefulStop returns when the calls in flight have.                     *)
GracefulStop ==
  /\ agent.once = "busy" /\ InFlight = {}
  /\ agent' = [agent EXCEPT !.once = "done", !.llm = IF @ = "half" THEN @ ELSE "stopped"]
  /\ UNCHANGED traffic /\ GoUnchanged

(* IngestBatch: a call whose signals are all rejected is acknowledged at   *)
(* once; one whose client has gone is answered to nobody.                  *)
RpcArrive(r) ==
  /\ agent.llm = "serving" /\ agent.once # "busy" /\ rpc[r] = "idle"
  /\ \E next \in {"sending", "refused"} : rpc' = [rpc EXCEPT ![r] = next]
  /\ UNCHANGED <<agent, fan, chan, handled, panic>> /\ GoUnchanged

(* A send on the channel: it takes room, and panics when it is closed.     *)
HasRoom == Cardinality(chan) < IngestCap
SendTo(item, sender) ==
  \/ /\ agent.ch = "open" /\ HasRoom
     /\ chan' = chan \cup {item} /\ UNCHANGED panic
  \/ agent.ch = "closed" /\ panic' = sender /\ UNCHANGED chan

SendOrDrop(r) ==
  SendTo(r, "rpc") \/ (agent.ch = "open" /\ ~HasRoom /\ UNCHANGED <<chan, panic>>)
SendBatch(r) == SendTo(r, "rpc")
RpcSend(r) ==
  /\ rpc[r] = "sending" /\ SendBatch(r)
  /\ rpc' = [rpc EXCEPT ![r] = "acked"]
  /\ UNCHANGED <<agent, fan, handled>> /\ GoUnchanged

RpcGone(r) ==
  /\ rpc[r] = "sending"
  /\ rpc' = [rpc EXCEPT ![r] = "gone"]
  /\ UNCHANGED <<agent, fan, chan, handled, panic>> /\ GoUnchanged

(* fanOut: each select may take either branch when both are ready.         *)
FanTake(o) ==
  /\ fan = "idle" /\ o \notin chan \cup handled
  /\ fan' = o
  /\ UNCHANGED <<agent, rpc, chan, handled, panic>> /\ GoUnchanged

FanSend ==
  /\ fan \in Observations /\ SendTo(fan, "fanOut")
  /\ fan' = "idle"
  /\ UNCHANGED <<agent, rpc, handled>> /\ GoUnchanged

FanExit ==
  /\ fan \in Observations \cup {"idle"} /\ ctx = "done"
  /\ fan' = "exited"
  /\ UNCHANGED <<agent, rpc, chan, handled, panic>> /\ GoUnchanged

LoopReceive(item) ==
  /\ agent.loop = "running" /\ item \in chan
  /\ chan' = chan \ {item} /\ handled' = handled \cup {item}
  /\ UNCHANGED <<agent, rpc, fan, panic>> /\ GoUnchanged

LoopExit ==
  /\ agent.loop = "running" /\ agent.ch = "closed" /\ chan = {}
  /\ agent' = [agent EXCEPT !.loop = "exited"]
  /\ UNCHANGED traffic /\ GoUnchanged

-----------------------------------------------------------------------------
StartStep ==
  \/ Begin \/ ResolveIdentity \/ ConnectOutput \/ OutputsDone \/ CreateDispatcher
  \/ StartBuffer \/ MakeObs \/ ListenObs \/ BuildCollectors \/ StartIngestLoop
  \/ StartLlm \/ StartEuc \/ SetReady
StopStep ==
  \/ StopObs \/ CancelContext \/ ListCollectors \/ CloseLlm \/ CloseEuc
  \/ CloseChannel \/ WaitForLoop \/ FlushBuffer \/ CloseDispatcher
Background ==
  \/ LlmSeesDone \/ GracefulStop
  \/ \E r \in Rpcs : RpcSend(r)
  \/ FanSend \/ FanExit
  \/ \E item \in Rpcs \cup Observations : LoopReceive(item)
  \/ LoopExit
Outside ==
  \/ StopRequest
  \/ \E r \in Rpcs : RpcArrive(r) \/ RpcGone(r)
  \/ \E o \in Observations : FanTake(o)

(* The process ends with a panic, with a failed Start outside the service, *)
(* and when stop has returned.                                             *)
Alive == panic = "no" /\ stopping # "done" /\ (config.service \/ starting # "failed")
Next == Alive /\ (StartStep \/ StopStep \/ Background \/ Outside)

Spec == Init /\ [][Next]_vars

(* Every goroutine that can go on does.                                    *)
FairSpec ==
  /\ Spec
  /\ WF_vars(Alive /\ StartStep) /\ WF_vars(Alive /\ StopStep)
  /\ WF_vars(Alive /\ (LlmSeesDone \/ GracefulStop))
  /\ \A r \in Rpcs : WF_vars(Alive /\ RpcSend(r))
  /\ \A item \in Rpcs \cup Observations : WF_vars(Alive /\ LoopReceive(item))
  /\ WF_vars(Alive /\ LoopExit)

-----------------------------------------------------------------------------
Starts == {"begin", "identity", "outputs", "dispatcher", "buffer", "obs", "listen",
           "collectors", "ingest", "llm", "euc", "ready", "up", "failed"}
Stops == {"no", "obs", "cancel", "list", "collectors", "wait", "flush", "dispatcher", "done"}
Agents ==
  [obs : {"none", "made", "listening", "shut"}, ready : BOOLEAN, connected : 0 .. Outputs,
   dispatcher : {"none", "running", "closed"}, buffer : {"none", "open", "closed"},
   collectors : SUBSET {"llm", "euc"}, closing : SUBSET {"llm", "euc"},
   llm : {"none", "half", "serving", "stopped"}, once : {"new", "busy", "done"},
   ch : {"none", "open", "closed"}, loop : {"none", "running", "exited"}]
TypeOK ==
  /\ config \in [service : BOOLEAN, grpc : BOOLEAN, unix : BOOLEAN, obs : BOOLEAN]
  /\ starting \in Starts /\ stopping \in Stops
  /\ agent \in Agents
  /\ ctx \in {"none", "live", "done"}
  /\ rpc \in [Rpcs -> {"idle", "sending", "acked", "gone", "refused"}]
  /\ fan \in {"none", "idle", "exited"} \cup Observations
  /\ chan \subseteq Rpcs \cup Observations /\ handled \subseteq Rpcs \cup Observations
  /\ IsFiniteSet(chan) /\ Cardinality(chan) <= IngestCap
  /\ panic \in {"no", "rpc", "fanOut"} /\ overlap \in BOOLEAN /\ missed \in BOOLEAN

(* observability.go:86-98: /readyz answers 200 only while every output is  *)
(* connected, the collectors, the loop and the dispatcher run and nobody   *)
(* has begun to shut them down; a stop that overlaps Start is excepted.    *)
ReadyIsTruthful ==
  agent.obs = "listening" /\ agent.ready /\ ~overlap =>
    /\ agent.connected = Outputs /\ Outputs > 0 /\ ctx = "live"
    /\ agent.dispatcher = "running" /\ agent.buffer = "open"
    /\ agent.loop = "running" /\ agent.ch = "open" /\ fan # "none"
    /\ config.grpc => agent.llm = "serving"

(* agent.go:635-646: stop closes the collectors before the channel, so     *)
(* that no gRPC call sends on a closed channel.  The one goroutine that    *)
(* can is fanOut, which Close does not wait for; in the service also a     *)
(* call to a server that came up after its Close.                          *)
OnlyFanOutPanics == panic = "rpc" => overlap

(* llm.go:132-146: a batch acknowledged to its client is in the channel or *)
(* has reached the ingest loop, and once stop goes on to the flush nothing *)
(* acknowledged is left behind in the channel.                             *)
AckedIsKept ==
  /\ \A r \in Rpcs : rpc[r] = "acked" /\ panic = "no" => r \in chan \cup handled
  /\ stopping \in {"flush", "dispatcher", "done"} /\ ~missed => chan = {}

(* The invariant of Start and stop, which makes TypeOK, ReadyIsTruthful,   *)
(* OnlyFanOutPanics and AckedIsKept inductive: what is there when Start is *)
(* at a step, what is still there until stop begins, what a stop that came *)
(* after Start has closed, and what can be in the channel.                 *)
Early == stopping \in {"no", "obs"}
FromUp == {"up"}
FromReady == {"ready"} \cup FromUp
FromEuc == {"euc"} \cup FromReady
FromLlm == {"llm"} \cup FromEuc
FromIngest == {"ingest"} \cup FromLlm
FromListen == {"listen", "collectors"} \cup FromIngest
FromObs == {"obs"} \cup FromListen
FromBuffer == {"buffer"} \cup FromObs
FromDispatcher == {"dispatcher"} \cup FromBuffer
StartInv ==
  /\ starting \in FromDispatcher => agent.connected = Outputs /\ Outputs > 0
  /\ starting \in FromListen /\ config.obs => agent.obs # "none"
  /\ starting \in FromIngest => ("llm" \in agent.collectors <=> config.grpc)
  /\ starting \in Starts \ (FromLlm \cup {"failed"}) => agent.ch = "none"
  /\ starting \in Starts \ (FromEuc \cup {"failed"}) => agent.llm = "none"
  /\ starting = "begin" => ctx = "none"
  /\ starting = "llm" => config.grpc
  /\ agent.ch = "none" <=> agent.loop = "none"
  /\ agent.llm # "none" => "llm" \in agent.collectors
ReadyInv ==
  /\ agent.ready => starting = "up" /\ config.obs
  /\ agent.ready /\ ~overlap => Early
  /\ Early =>
       /\ starting \notin {"begin", "failed"} => ctx = "live"
       /\ starting # "failed" => agent.once = "new"
       /\ starting \in FromBuffer => agent.dispatcher = "running"
       /\ starting \in FromObs => agent.buffer = "open"
       /\ starting \in FromLlm => agent.ch = "open" /\ agent.loop = "running"
       /\ starting \in FromEuc /\ config.grpc => agent.llm = "serving"
       /\ starting \in FromReady => fan # "none"
StopInv ==
  /\ IF stopping = "no" THEN ~overlap ELSE ~overlap => ~Running
  /\ agent.once = "busy" => agent.llm # "none"
  /\ stopping \notin {"no", "obs", "cancel", "list"} /\ ~overlap
     /\ "llm" \in agent.collectors \ agent.closing => agent.once = "done"
  /\ agent.llm = "none" /\ agent.once # "new" => stopping # "no"
  /\ agent.once = "done" /\ ~overlap => agent.llm # "serving" /\ InFlight = {}
  /\ agent.llm \in {"none", "half"} => InFlight = {}
  /\ agent.ch = "closed" =>
       stopping \in {"wait", "flush", "dispatcher", "done"} /\ agent.closing = {}
ChanInv ==
  /\ agent.ch = "none" => chan = {}
  /\ agent.loop = "exited" => agent.ch = "closed" /\ chan = {}
  /\ stopping \in {"wait", "flush", "dispatcher", "done"} /\ ~missed =>
       agent.ch = "closed" \/ (agent.ch = "none" /\ ~Running)
LifecycleInv ==
  TypeOK /\ StartInv /\ ReadyInv /\ StopInv /\ ChanInv /\ OnlyFanOutPanics /\ AckedIsKept

(* service_windows.go:46-48 and agent.go:209-211, a graceful stop: stop    *)
(* returns, whatever calls are in flight and however full the channel is.  *)
(* It can hang only when Start makes the channel after stop has looked.    *)
StopReturns == (stopping = "obs") ~> (stopping = "done" \/ panic # "no" \/ missed)
=============================================================================
