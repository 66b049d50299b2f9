------------------------ MODULE AgentLifecycleProofs ------------------------
(***************************************************************************)
(* Proofs about AgentLifecycle, for any number of outputs, calls and       *)
(* observations, and any capacity of ingestCh.  LifecycleInv is inductive; *)
(* one step per action shows it.                                           *)
(***************************************************************************)
EXTENDS AgentLifecycle, FiniteSetTheorems, TLAPS

-----------------------------------------------------------------------------
(* What a send and a receive do to the channel.                            *)
LEMMA RoomAfterSend ==
  ASSUME TypeOK, HasRoom, NEW item
  PROVE  IsFiniteSet(chan \cup {item}) /\ Cardinality(chan \cup {item}) <= IngestCap
<1>1. IsFiniteSet(chan \cup {item})
      BY FS_AddElement DEF TypeOK
<1>2. /\ Cardinality(chan) \in Nat
      /\ \/ Cardinality(chan \cup {item}) = Cardinality(chan)
         \/ Cardinality(chan \cup {item}) = Cardinality(chan) + 1
      BY FS_AddElement, FS_CardinalityType DEF TypeOK
<1> QED BY <1>1, <1>2, LifecycleAssumption DEF TypeOK, HasRoom

LEMMA RoomAfterReceive ==
  ASSUME TypeOK, NEW item
  PROVE  IsFiniteSet(chan \ {item}) /\ Cardinality(chan \ {item}) <= IngestCap
<1>1. /\ IsFiniteSet(chan \ {item}) /\ Cardinality(chan \ {item}) \in Nat
      /\ Cardinality(chan) \in Nat /\ Cardinality(chan \ {item}) <= Cardinality(chan)
      BY FS_Subset, FS_CardinalityType DEF TypeOK
<1> QED BY <1>1, LifecycleAssumption DEF TypeOK

(* A send leaves the channel, and the record of a panic, of their types.   *)
LEMMA SendKeepsTypes ==
  ASSUME TypeOK, NEW item \in Rpcs \cup Observations, NEW sender \in {"rpc", "fanOut"},
         SendTo(item, sender)
  PROVE  /\ chan' \subseteq Rpcs \cup Observations /\ panic' \in {"no", "rpc", "fanOut"}
         /\ IsFiniteSet(chan') /\ Cardinality(chan') <= IngestCap
<1>1. CASE HasRoom /\ chan' = chan \cup {item} /\ UNCHANGED panic
      BY <1>1, RoomAfterSend DEF TypeOK
<1>2. CASE panic' = sender /\ UNCHANGED chan
      BY <1>2 DEF TypeOK
<1> QED BY <1>1, <1>2 DEF SendTo

-----------------------------------------------------------------------------
(* Each step of Start keeps it. *)
LEMMA StartKeeps ==
  ASSUME LifecycleInv, Alive, StartStep
  PROVE  LifecycleInv'
<1> USE LifecycleAssumption
    DEF FromUp, FromReady, FromEuc, FromLlm, FromIngest, FromListen, FromObs,
        FromBuffer, FromDispatcher, Early, Running, InFlight, Starts, Stops
<1>1. ASSUME Begin PROVE LifecycleInv'
      BY <1>1 DEF Begin, StartUnchanged, traffic, history, LifecycleInv, TypeOK, Agents,
         StartInv, ReadyInv, StopInv, ChanInv, OnlyFanOutPanics, AckedIsKept
<1>2. ASSUME ResolveIdentity PROVE LifecycleInv'
      BY <1>2 DEF ResolveIdentity, StartUnchanged, traffic, history, Fail, LifecycleInv,
         TypeOK, Agents, StartInv, ReadyInv, StopInv, ChanInv, OnlyFanOutPanics,
         AckedIsKept
<1>3. ASSUME ConnectOutput PROVE LifecycleInv'
  <2>a. agent' \in Agents
        BY <1>3 DEF ConnectOutput, StartUnchanged, traffic, history, Fail, LifecycleInv,
           TypeOK, Agents
  <2>1. TypeOK'
        BY <1>3, <2>a DEF ConnectOutput, StartUnchanged, traffic, history, Fail,
           LifecycleInv, TypeOK
  <2>2. StartInv'
        BY <1>3 DEF ConnectOutput, StartUnchanged, traffic, history, Fail, LifecycleInv,
           TypeOK, Agents, StartInv
  <2>3. ReadyInv'
        BY <1>3 DEF ConnectOutput, StartUnchanged, traffic, history, Fail, LifecycleInv,
           TypeOK, Agents, StartInv, ReadyInv, StopInv
  <2>4. StopInv'
        BY <1>3 DEF ConnectOutput, StartUnchanged, traffic, history, Fail, LifecycleInv,
           TypeOK, Agents, StartInv, ReadyInv, StopInv
  <2>5. ChanInv'
        BY <1>3 DEF ConnectOutput, StartUnchanged, traffic, history, Fail, LifecycleInv,
           TypeOK, Agents, StartInv, StopInv, ChanInv
  <2>6. OnlyFanOutPanics'
        BY <1>3 DEF ConnectOutput, StartUnchanged, traffic, history, Fail, LifecycleInv,
           TypeOK, Agents, StartInv, StopInv, OnlyFanOutPanics
  <2>7. AckedIsKept'
        BY <1>3 DEF ConnectOutput, StartUnchanged, traffic, history, Fail, LifecycleInv,
           TypeOK, Agents, StartInv, ChanInv, AckedIsKept
  <2> QED BY <2>1, <2>2, <2>3, <2>4, <2>5, <2>6, <2>7 DEF LifecycleInv
<1>4. ASSUME OutputsDone PROVE LifecycleInv'
      BY <1>4 DEF OutputsDone, StartUnchanged, traffic, history, Fail, LifecycleInv,
         TypeOK, Agents, StartInv, ReadyInv, StopInv, ChanInv, OnlyFanOutPanics,
         AckedIsKept
<1>5. ASSUME CreateDispatcher PROVE LifecycleInv'
      BY <1>5 DEF CreateDispatcher, StartUnchanged, traffic, history, LifecycleInv, TypeOK,
         Agents, StartInv, ReadyInv, StopInv, ChanInv, OnlyFanOutPanics, AckedIsKept
<1>6. ASSUME StartBuffer PROVE LifecycleInv'
      BY <1>6 DEF StartBuffer, StartUnchanged, traffic, history, Fail, LifecycleInv,
         TypeOK, Agents, StartInv, ReadyInv, StopInv, ChanInv, OnlyFanOutPanics,
         AckedIsKept
<1>7. ASSUME MakeObs PROVE LifecycleInv'
  <2>a. agent' \in Agents
        BY <1>7 DEF MakeObs, StartUnchanged, traffic, history, NotReady, LifecycleInv,
           TypeOK, Agents
  <2>1. TypeOK'
        BY <1>7, <2>a DEF MakeObs, StartUnchanged, traffic, history, NotReady,
           LifecycleInv, TypeOK
  <2>2. StartInv'
        BY <1>7 DEF MakeObs, StartUnchanged, traffic, history, NotReady, LifecycleInv,
           TypeOK, Agents, StartInv
  <2>3. ReadyInv'
        BY <1>7 DEF MakeObs, StartUnchanged, traffic, history, NotReady, LifecycleInv,
           TypeOK, Agents, StartInv, ReadyInv, StopInv
  <2>4. StopInv'
        BY <1>7 DEF MakeObs, StartUnchanged, traffic, history, NotReady, LifecycleInv,
           TypeOK, Agents, StartInv, ReadyInv, StopInv
  <2>5. ChanInv'
        BY <1>7 DEF MakeObs, StartUnchanged, traffic, history, NotReady, LifecycleInv,
           TypeOK, Agents, StartInv, StopInv, ChanInv
  <2>6. OnlyFanOutPanics'
        BY <1>7 DEF MakeObs, StartUnchanged, traffic, history, NotReady, LifecycleInv,
           TypeOK, Agents, StartInv, StopInv, OnlyFanOutPanics
  <2>7. AckedIsKept'
        BY <1>7 DEF MakeObs, StartUnchanged, traffic, history, NotReady, LifecycleInv,
           TypeOK, Agents, StartInv, ChanInv, AckedIsKept
  <2> QED BY <2>1, <2>2, <2>3, <2>4, <2>5, <2>6, <2>7 DEF LifecycleInv
<1>8. ASSUME ListenObs PROVE LifecycleInv'
      BY <1>8 DEF ListenObs, StartUnchanged, traffic, history, Fail, LifecycleInv, TypeOK,
         Agents, StartInv, ReadyInv, StopInv, ChanInv, OnlyFanOutPanics, AckedIsKept
<1>9. ASSUME BuildCollectors PROVE LifecycleInv'
      BY <1>9 DEF BuildCollectors, StartUnchanged, traffic, history, LifecycleInv, TypeOK,
         Agents, StartInv, ReadyInv, StopInv, ChanInv, OnlyFanOutPanics, AckedIsKept
<1>10. ASSUME StartIngestLoop PROVE LifecycleInv'
  <2>a. agent' \in Agents
    <3> DEFINE a == [agent EXCEPT !.ch = "open"]
    <3>1. a \in Agents /\ agent' = [a EXCEPT !.loop = "running"]
          BY <1>10 DEF StartIngestLoop, LifecycleInv, TypeOK, Agents
    <3> HIDE DEF a
    <3> QED BY <3>1 DEF Agents
  <2>1. TypeOK'
        BY <1>10, <2>a DEF StartIngestLoop, StartUnchanged, traffic, history, LifecycleInv,
           TypeOK
  <2>2. StartInv'
        BY <1>10 DEF StartIngestLoop, StartUnchanged, traffic, history, LifecycleInv,
           TypeOK, Agents, StartInv
  <2>3. ReadyInv'
        BY <1>10 DEF StartIngestLoop, StartUnchanged, traffic, history, LifecycleInv,
           TypeOK, Agents, StartInv, ReadyInv, StopInv
  <2>4. StopInv'
        BY <1>10 DEF StartIngestLoop, StartUnchanged, traffic, history, LifecycleInv,
           TypeOK, Agents, StartInv, ReadyInv, StopInv
  <2>5. ChanInv'
        BY <1>10 DEF StartIngestLoop, StartUnchanged, traffic, history, LifecycleInv,
           TypeOK, Agents, StartInv, StopInv, ChanInv
  <2>6. OnlyFanOutPanics'
        BY <1>10 DEF StartIngestLoop, StartUnchanged, traffic, history, LifecycleInv,
           TypeOK, Agents, StartInv, StopInv, OnlyFanOutPanics
  <2>7. AckedIsKept'
        BY <1>10 DEF StartIngestLoop, StartUnchanged, traffic, history, LifecycleInv,
           TypeOK, Agents, StartInv, ChanInv, AckedIsKept
  <2> QED BY <2>1, <2>2, <2>3, <2>4, <2>5, <2>6, <2>7 DEF LifecycleInv
<1>11. ASSUME StartLlm PROVE LifecycleInv'
      BY <1>11 DEF StartLlm, StartUnchanged, traffic, history, Fail, LifecycleInv, TypeOK,
         Agents, StartInv, ReadyInv, StopInv, ChanInv, OnlyFanOutPanics, AckedIsKept
<1>12. ASSUME StartEuc PROVE LifecycleInv'
      BY <1>12 DEF StartEuc, history, Fail, LifecycleInv, TypeOK, Agents, StartInv,
         ReadyInv, StopInv, ChanInv, OnlyFanOutPanics, AckedIsKept
<1>13. ASSUME SetReady PROVE LifecycleInv'
      BY <1>13 DEF SetReady, StartUnchanged, traffic, history, LifecycleInv, TypeOK,
         Agents, StartInv, ReadyInv, StopInv, ChanInv, OnlyFanOutPanics, AckedIsKept
<1> QED BY <1>1, <1>2, <1>3, <1>4, <1>5, <1>6, <1>7, <1>8, <1>9, <1>10, <1>11, <1>12, <1>13 DEF
   StartStep

(* Each step of stop keeps it. *)
LEMMA StopKeeps ==
  ASSUME LifecycleInv, Alive, StopStep
  PROVE  LifecycleInv'
<1> USE LifecycleAssumption
    DEF FromUp, FromReady, FromEuc, FromLlm, FromIngest, FromListen, FromObs,
        FromBuffer, FromDispatcher, Early, Running, InFlight, Starts, Stops
<1>1. ASSUME StopObs PROVE LifecycleInv'
  <2>a. agent' \in Agents
        BY <1>1 DEF StopObs, StopUnchanged, traffic, history, LifecycleInv, TypeOK, Agents
  <2>1. TypeOK'
        BY <1>1, <2>a DEF StopObs, StopUnchanged, traffic, history, LifecycleInv, TypeOK
  <2>2. StartInv'
        BY <1>1 DEF StopObs, StopUnchanged, traffic, history, LifecycleInv, TypeOK, Agents,
           StartInv
  <2>3. ReadyInv'
        BY <1>1 DEF StopObs, StopUnchanged, traffic, history, LifecycleInv, TypeOK, Agents,
           StartInv, ReadyInv, StopInv
  <2>4. StopInv'
        BY <1>1 DEF StopObs, StopUnchanged, traffic, history, LifecycleInv, TypeOK, Agents,
           StartInv, ReadyInv, StopInv
  <2>5. ChanInv'
        BY <1>1 DEF StopObs, StopUnchanged, traffic, history, LifecycleInv, TypeOK, Agents,
           StartInv, StopInv, ChanInv
  <2>6. OnlyFanOutPanics'
        BY <1>1 DEF StopObs, StopUnchanged, traffic, history, LifecycleInv, TypeOK, Agents,
           StartInv, StopInv, OnlyFanOutPanics
  <2>7. AckedIsKept'
        BY <1>1 DEF StopObs, StopUnchanged, traffic, history, LifecycleInv, TypeOK, Agents,
           StartInv, ChanInv, AckedIsKept
  <2> QED BY <2>1, <2>2, <2>3, <2>4, <2>5, <2>6, <2>7 DEF LifecycleInv
<1>2. ASSUME CancelContext PROVE LifecycleInv'
      BY <1>2 DEF CancelContext, StopUnchanged, traffic, history, LifecycleInv, TypeOK,
         Agents, StartInv, ReadyInv, StopInv, ChanInv, OnlyFanOutPanics, AckedIsKept
<1>3. ASSUME ListCollectors PROVE LifecycleInv'
      BY <1>3 DEF ListCollectors, StopUnchanged, traffic, history, LifecycleInv, TypeOK,
         Agents, StartInv, ReadyInv, StopInv, ChanInv, OnlyFanOutPanics, AckedIsKept
<1>4. ASSUME CloseLlm PROVE LifecycleInv'
      BY <1>4 DEF CloseLlm, StopUnchanged, traffic, history, CloseOnce, LifecycleInv,
         TypeOK, Agents, StartInv, ReadyInv, StopInv, ChanInv, OnlyFanOutPanics,
         AckedIsKept
<1>5. ASSUME CloseEuc PROVE LifecycleInv'
      BY <1>5 DEF CloseEuc, StopUnchanged, traffic, history, LifecycleInv, TypeOK, Agents,
         StartInv, ReadyInv, StopInv, ChanInv, OnlyFanOutPanics, AckedIsKept
<1>6. ASSUME CloseChannel PROVE LifecycleInv'
      BY <1>6 DEF CloseChannel, StopUnchanged, traffic, ChannelClosed, LifecycleInv,
         TypeOK, Agents, StartInv, ReadyInv, StopInv, ChanInv, OnlyFanOutPanics,
         AckedIsKept
<1>7. ASSUME WaitForLoop PROVE LifecycleInv'
      BY <1>7 DEF WaitForLoop, StopUnchanged, traffic, history, LoopGone, LifecycleInv,
         TypeOK, Agents, StartInv, ReadyInv, StopInv, ChanInv, OnlyFanOutPanics,
         AckedIsKept
<1>8. ASSUME FlushBuffer PROVE LifecycleInv'
      BY <1>8 DEF FlushBuffer, StopUnchanged, traffic, history, LifecycleInv, TypeOK,
         Agents, StartInv, ReadyInv, StopInv, ChanInv, OnlyFanOutPanics, AckedIsKept
<1>9. ASSUME CloseDispatcher PROVE LifecycleInv'
      BY <1>9 DEF CloseDispatcher, StopUnchanged, traffic, history, LifecycleInv, TypeOK,
         Agents, StartInv, ReadyInv, StopInv, ChanInv, OnlyFanOutPanics, AckedIsKept
<1> QED BY <1>1, <1>2, <1>3, <1>4, <1>5, <1>6, <1>7, <1>8, <1>9 DEF StopStep

(* So does each step of the goroutines between the two ... *)
LEMMA BackgroundKeeps ==
  ASSUME LifecycleInv, Alive, Background
  PROVE  LifecycleInv'
<1> USE LifecycleAssumption
    DEF FromUp, FromReady, FromEuc, FromLlm, FromIngest, FromListen, FromObs,
        FromBuffer, FromDispatcher, Early, Running, InFlight, Starts, Stops
<1>1. ASSUME LlmSeesDone PROVE LifecycleInv'
      BY <1>1 DEF LlmSeesDone, GoUnchanged, history, traffic, CloseOnce, LifecycleInv,
         TypeOK, Agents, StartInv, ReadyInv, StopInv, ChanInv, OnlyFanOutPanics,
         AckedIsKept
<1>2. ASSUME GracefulStop PROVE LifecycleInv'
  <2>a. agent' \in Agents
    <3> DEFINE a == [agent EXCEPT !.once = "done"]
    <3>1. a \in Agents /\ a.llm = agent.llm
          BY DEF LifecycleInv, TypeOK, Agents
    <3>2. agent' = [a EXCEPT !.llm = IF @ = "half" THEN @ ELSE "stopped"]
          BY <1>2, <3>1 DEF GracefulStop
    <3> HIDE DEF a
    <3> QED BY <3>1, <3>2 DEF Agents
  <2>1. TypeOK'
        BY <1>2, <2>a DEF GracefulStop, GoUnchanged, history, traffic, LifecycleInv, TypeOK
  <2>2. StartInv'
        BY <1>2 DEF GracefulStop, GoUnchanged, history, traffic, LifecycleInv, TypeOK,
           Agents, StartInv, StopInv
  <2>3. ReadyInv'
        BY <1>2 DEF GracefulStop, GoUnchanged, history, traffic, LifecycleInv, TypeOK,
           Agents, StartInv, ReadyInv, StopInv
  <2>4. StopInv'
        BY <1>2 DEF GracefulStop, GoUnchanged, history, traffic, LifecycleInv, TypeOK,
           Agents, StartInv, ReadyInv, StopInv
  <2>5. ChanInv'
        BY <1>2 DEF GracefulStop, GoUnchanged, history, traffic, LifecycleInv, TypeOK,
           Agents, StartInv, StopInv, ChanInv
  <2>6. OnlyFanOutPanics'
        BY <1>2 DEF GracefulStop, GoUnchanged, history, traffic, LifecycleInv, TypeOK,
           Agents, StartInv, StopInv, OnlyFanOutPanics
  <2>7. AckedIsKept'
        BY <1>2 DEF GracefulStop, GoUnchanged, history, traffic, LifecycleInv, TypeOK,
           Agents, StartInv, ChanInv, AckedIsKept
  <2> QED BY <2>1, <2>2, <2>3, <2>4, <2>5, <2>6, <2>7 DEF LifecycleInv
<1>3. ASSUME NEW r \in Rpcs, RpcSend(r) PROVE LifecycleInv'
  <2>1. TypeOK'
    <3>1. /\ chan' \subseteq Rpcs \cup Observations /\ panic' \in {"no", "rpc", "fanOut"}
          /\ IsFiniteSet(chan') /\ Cardinality(chan') <= IngestCap
          BY <1>3, SendKeepsTypes DEF RpcSend, SendBatch, LifecycleInv
    <3> QED BY <1>3, <3>1 DEF RpcSend, GoUnchanged, history, LifecycleInv, TypeOK
  <2>2. StartInv'
        BY <1>3 DEF RpcSend, GoUnchanged, history, SendTo, SendBatch, LifecycleInv, TypeOK,
           Agents, StartInv
  <2>3. ReadyInv'
        BY <1>3 DEF RpcSend, GoUnchanged, history, SendTo, SendBatch, LifecycleInv, TypeOK,
           Agents, StartInv, ReadyInv, StopInv
  <2>4. StopInv'
        BY <1>3 DEF RpcSend, GoUnchanged, history, SendTo, SendBatch, LifecycleInv, TypeOK,
           Agents, StartInv, ReadyInv, StopInv
  <2>5. ChanInv'
        BY <1>3 DEF RpcSend, GoUnchanged, history, SendTo, SendBatch, LifecycleInv, TypeOK,
           Agents, StartInv, StopInv, ChanInv
  <2>6. OnlyFanOutPanics'
        BY <1>3 DEF RpcSend, GoUnchanged, history, SendTo, SendBatch, LifecycleInv, TypeOK,
           Agents, StartInv, StopInv, OnlyFanOutPanics
  <2>7. AckedIsKept'
        BY <1>3 DEF RpcSend, GoUnchanged, history, SendTo, SendBatch, LifecycleInv, TypeOK,
           Agents, StartInv, ChanInv, AckedIsKept
  <2> QED BY <2>1, <2>2, <2>3, <2>4, <2>5, <2>6, <2>7 DEF LifecycleInv
<1>4. ASSUME FanSend PROVE LifecycleInv'
  <2>1. TypeOK'
    <3>1. /\ chan' \subseteq Rpcs \cup Observations /\ panic' \in {"no", "rpc", "fanOut"}
          /\ IsFiniteSet(chan') /\ Cardinality(chan') <= IngestCap
          BY <1>4, SendKeepsTypes DEF FanSend, LifecycleInv
    <3> QED BY <1>4, <3>1 DEF FanSend, GoUnchanged, history, LifecycleInv, TypeOK
  <2>2. StartInv'
        BY <1>4 DEF FanSend, GoUnchanged, history, SendTo, LifecycleInv, TypeOK, Agents,
           StartInv
  <2>3. ReadyInv'
        BY <1>4 DEF FanSend, GoUnchanged, history, SendTo, LifecycleInv, TypeOK, Agents,
           StartInv, ReadyInv, StopInv
  <2>4. StopInv'
        BY <1>4 DEF FanSend, GoUnchanged, history, SendTo, LifecycleInv, TypeOK, Agents,
           StartInv, ReadyInv, StopInv
  <2>5. ChanInv'
        BY <1>4 DEF FanSend, GoUnchanged, history, SendTo, LifecycleInv, TypeOK, Agents,
           StartInv, StopInv, ChanInv
  <2>6. OnlyFanOutPanics'
        BY <1>4 DEF FanSend, GoUnchanged, history, SendTo, LifecycleInv, TypeOK, Agents,
           StartInv, StopInv, OnlyFanOutPanics
  <2>7. AckedIsKept'
        BY <1>4 DEF FanSend, GoUnchanged, history, SendTo, LifecycleInv, TypeOK, Agents,
           StartInv, ChanInv, AckedIsKept
  <2> QED BY <2>1, <2>2, <2>3, <2>4, <2>5, <2>6, <2>7 DEF LifecycleInv
<1>5. ASSUME FanExit PROVE LifecycleInv'
      BY <1>5 DEF FanExit, GoUnchanged, history, LifecycleInv, TypeOK, Agents, StartInv,
         ReadyInv, StopInv, ChanInv, OnlyFanOutPanics, AckedIsKept
<1>6. ASSUME NEW item \in Rpcs \cup Observations, LoopReceive(item) PROVE LifecycleInv'
  <2>1. TypeOK'
    <3>1. IsFiniteSet(chan') /\ Cardinality(chan') <= IngestCap
          BY <1>6, RoomAfterReceive DEF LoopReceive, LifecycleInv
    <3> QED BY <1>6, <3>1 DEF LoopReceive, GoUnchanged, history, LifecycleInv, TypeOK
  <2>2. StartInv'
        BY <1>6 DEF LoopReceive, GoUnchanged, history, LifecycleInv, TypeOK, Agents,
           StartInv
  <2>3. ReadyInv'
        BY <1>6 DEF LoopReceive, GoUnchanged, history, LifecycleInv, TypeOK, Agents,
           StartInv, ReadyInv, StopInv
  <2>4. StopInv'
        BY <1>6 DEF LoopReceive, GoUnchanged, history, LifecycleInv, TypeOK, Agents,
           StartInv, ReadyInv, StopInv
  <2>5. ChanInv'
        BY <1>6 DEF LoopReceive, GoUnchanged, history, LifecycleInv, TypeOK, Agents,
           StartInv, StopInv, ChanInv
  <2>6. OnlyFanOutPanics'
        BY <1>6 DEF LoopReceive, GoUnchanged, history, LifecycleInv, TypeOK, Agents,
           StartInv, StopInv, OnlyFanOutPanics
  <2>7. AckedIsKept'
        BY <1>6 DEF LoopReceive, GoUnchanged, history, LifecycleInv, TypeOK, Agents,
           StartInv, ChanInv, AckedIsKept
  <2> QED BY <2>1, <2>2, <2>3, <2>4, <2>5, <2>6, <2>7 DEF LifecycleInv
<1>7. ASSUME LoopExit PROVE LifecycleInv'
      BY <1>7 DEF LoopExit, GoUnchanged, history, traffic, LifecycleInv, TypeOK, Agents,
         StartInv, ReadyInv, StopInv, ChanInv, OnlyFanOutPanics, AckedIsKept
<1> QED BY <1>1, <1>2, <1>3, <1>4, <1>5, <1>6, <1>7 DEF Background

(* ... and each of the clients, the OS and whoever asks for the stop. *)
LEMMA OutsideKeeps ==
  ASSUME LifecycleInv, Alive, Outside
  PROVE  LifecycleInv'
<1> USE LifecycleAssumption
    DEF FromUp, FromReady, FromEuc, FromLlm, FromIngest, FromListen, FromObs,
        FromBuffer, FromDispatcher, Early, Running, InFlight, Starts, Stops
<1>1. ASSUME StopRequest PROVE LifecycleInv'
  <2>a. agent' \in Agents
        BY <1>1 DEF StopRequest, StopUnchanged, traffic, LifecycleInv, TypeOK, Agents
  <2>1. TypeOK'
        BY <1>1, <2>a DEF StopRequest, StopUnchanged, traffic, LifecycleInv, TypeOK
  <2>2. StartInv'
        BY <1>1 DEF StopRequest, StopUnchanged, traffic, LifecycleInv, TypeOK, Agents,
           StartInv
  <2>3. ReadyInv'
        BY <1>1 DEF StopRequest, StopUnchanged, traffic, LifecycleInv, TypeOK, Agents,
           StartInv, ReadyInv, StopInv
  <2>4. StopInv'
    <3>1. stopping' = "obs" /\ UNCHANGED <<agent, rpc, starting>> /\ (~overlap' => ~Running)
          BY <1>1 DEF StopRequest, StopUnchanged, traffic
    <3> QED BY <1>1, <3>1 DEF StopRequest, LifecycleInv, TypeOK, Agents, ReadyInv, StopInv
  <2>5. ChanInv'
        BY <1>1 DEF StopRequest, StopUnchanged, traffic, LifecycleInv, TypeOK, Agents,
           StartInv, StopInv, ChanInv
  <2>6. OnlyFanOutPanics'
    <3>1. panic' = "no"
          BY <1>1 DEF StopRequest, StopUnchanged, traffic, Alive
    <3> QED BY <3>1 DEF OnlyFanOutPanics
  <2>7. AckedIsKept'
        BY <1>1 DEF StopRequest, StopUnchanged, traffic, LifecycleInv, TypeOK, Agents,
           StartInv, ChanInv, AckedIsKept
  <2> QED BY <2>1, <2>2, <2>3, <2>4, <2>5, <2>6, <2>7 DEF LifecycleInv
<1>2. ASSUME NEW r \in Rpcs, RpcArrive(r) PROVE LifecycleInv'
      BY <1>2 DEF RpcArrive, GoUnchanged, history, LifecycleInv, TypeOK, Agents, StartInv,
         ReadyInv, StopInv, ChanInv, OnlyFanOutPanics, AckedIsKept
<1>3. ASSUME NEW r \in Rpcs, RpcGone(r) PROVE LifecycleInv'
      BY <1>3 DEF RpcGone, GoUnchanged, history, LifecycleInv, TypeOK, Agents, StartInv,
         ReadyInv, StopInv, ChanInv, OnlyFanOutPanics, AckedIsKept
<1>4. ASSUME NEW o \in Observations, FanTake(o) PROVE LifecycleInv'
  <2>a. agent' \in Agents
        BY <1>4 DEF FanTake, GoUnchanged, history, LifecycleInv, TypeOK, Agents
  <2>1. TypeOK'
        BY <1>4, <2>a DEF FanTake, GoUnchanged, history, LifecycleInv, TypeOK
  <2>2. StartInv'
        BY <1>4 DEF FanTake, GoUnchanged, history, LifecycleInv, TypeOK, Agents, StartInv
  <2>3. ReadyInv'
        BY <1>4 DEF FanTake, GoUnchanged, history, LifecycleInv, TypeOK, Agents, StartInv,
           ReadyInv, StopInv
  <2>4. StopInv'
        BY <1>4 DEF FanTake, GoUnchanged, history, LifecycleInv, TypeOK, Agents, StartInv,
           ReadyInv, StopInv
  <2>5. ChanInv'
        BY <1>4 DEF FanTake, GoUnchanged, history, LifecycleInv, TypeOK, Agents, StartInv,
           StopInv, ChanInv
  <2>6. OnlyFanOutPanics'
        BY <1>4 DEF FanTake, GoUnchanged, history, LifecycleInv, TypeOK, Agents, StartInv,
           StopInv, OnlyFanOutPanics
  <2>7. AckedIsKept'
        BY <1>4 DEF FanTake, GoUnchanged, history, LifecycleInv, TypeOK, Agents, StartInv,
           ChanInv, AckedIsKept
  <2> QED BY <2>1, <2>2, <2>3, <2>4, <2>5, <2>6, <2>7 DEF LifecycleInv
<1> QED BY <1>1, <1>2, <1>3, <1>4 DEF Outside

LEMMA InitLifecycle == Init => LifecycleInv
<1> SUFFICES ASSUME Init PROVE LifecycleInv
    OBVIOUS
<1>1. IsFiniteSet(chan) /\ Cardinality(chan) = 0
      BY FS_EmptySet DEF Init
<1>2. agent \in Agents
      BY LifecycleAssumption DEF Init, Unset, Agents
<1>3. TypeOK
  <2>1. starting \in Starts /\ stopping \in Stops
        BY DEF Init, Starts, Stops
  <2>2. rpc \in [Rpcs -> {"idle", "sending", "acked", "gone", "refused"}]
        BY DEF Init
  <2>3. Cardinality(chan) <= IngestCap
        BY <1>1, LifecycleAssumption
  <2> QED BY <1>1, <1>2, <2>1, <2>2, <2>3 DEF Init, TypeOK
<1>4. StartInv /\ ReadyInv
      BY DEF Init, Unset, StartInv, ReadyInv, Early, Starts, FromUp, FromReady, FromEuc, FromLlm,
         FromIngest, FromListen, FromObs, FromBuffer, FromDispatcher
<1>5. StopInv /\ ChanInv
      BY DEF Init, Unset, StopInv, ChanInv, InFlight, Running
<1>6. OnlyFanOutPanics /\ AckedIsKept
      BY DEF Init, OnlyFanOutPanics, AckedIsKept
<1> QED BY <1>3, <1>4, <1>5, <1>6 DEF LifecycleInv

LEMMA StutterLifecycle == LifecycleInv /\ UNCHANGED vars => LifecycleInv'
<1> SUFFICES ASSUME LifecycleInv, UNCHANGED vars PROVE LifecycleInv'
    OBVIOUS
<1>1. TypeOK' /\ StartInv' /\ ReadyInv'
      BY DEF LifecycleInv, vars, TypeOK, StartInv, ReadyInv, Early
<1>2. StopInv' /\ ChanInv' /\ OnlyFanOutPanics' /\ AckedIsKept'
      BY DEF LifecycleInv, vars, StopInv, ChanInv, OnlyFanOutPanics, AckedIsKept, InFlight, Running
<1> QED BY <1>1, <1>2 DEF LifecycleInv

(* LifecycleInv holds throughout: agent.go's Start and stop, in whatever   *)
(* order their steps and those of the goroutines come.                     *)
THEOREM LifecycleCorrect == Spec => []LifecycleInv
<1>1. LifecycleInv /\ [Next]_vars => LifecycleInv'
  <2> SUFFICES ASSUME LifecycleInv, [Next]_vars PROVE LifecycleInv'
      OBVIOUS
  <2>1. CASE Next
        BY <2>1, StartKeeps, StopKeeps, BackgroundKeeps, OutsideKeeps DEF Next
  <2>2. CASE UNCHANGED vars
        BY <2>2, StutterLifecycle
  <2> QED BY <2>1, <2>2
<1> QED BY InitLifecycle, <1>1, PTL DEF Spec

(* observability.go:86-98: while /readyz answers 200, and no stop overlaps *)
(* Start, all outputs are connected and nothing has begun to shut down.    *)
THEOREM ReadyCorrect == Spec => []ReadyIsTruthful
<1>1. LifecycleInv => ReadyIsTruthful
      BY DEF LifecycleInv, ReadyIsTruthful, TypeOK, Agents, StartInv, ReadyInv, Early, FromUp,
         FromReady, FromEuc, FromLlm, FromIngest, FromListen, FromObs, FromBuffer, FromDispatcher
<1> QED BY LifecycleCorrect, <1>1, PTL

(* agent.go:635-646: after a Start that was over when stop began, no gRPC  *)
(* call ever sends on the closed channel.                                  *)
THEOREM OnlyFanOutCorrect == Spec => []OnlyFanOutPanics
<1>1. LifecycleInv => OnlyFanOutPanics
      BY DEF LifecycleInv
<1> QED BY LifecycleCorrect, <1>1, PTL

(* llm.go:132-146: what IngestBatch has acknowledged is in the channel or  *)
(* received, and nothing of it is in the channel when stop flushes.        *)
THEOREM AckedCorrect == Spec => []AckedIsKept
<1>1. LifecycleInv => AckedIsKept
      BY DEF LifecycleInv
<1> QED BY LifecycleCorrect, <1>1, PTL
=============================================================================
