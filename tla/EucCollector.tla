---------------------------- MODULE EucCollector ----------------------------
(***************************************************************************)
(* The EUC collector of internal/collector/euc: for each platform a source *)
(* of events (eBPF probes on Linux, ETW on Windows, none on Darwin) that   *)
(* may be missing, a sampler that polls the connection table, the windows  *)
(* in which repeats are suppressed, the channel both fill, and the watch   *)
(* lists from configuration, catalog and reload.                           *)
(*                                                                         *)
(* Time is in polls of the sampler; what is stored is the age of a mark.   *)
(* A host is a sequence of characters, since the match is about where its  *)
(* labels begin; upper case is in the function Lower.  An unused           *)
(* definition before one with the same parameters is that definition with  *)
(* a slip, for the mutation runs.                                          *)
(***************************************************************************)
EXTENDS Integers, Sequences, FiniteSets, SequencesExt

CONSTANTS
  Platforms,      \* of "linux", "windows", "darwin"
  Conns,          \* rows of the connection table
  Names,          \* names that programs look up
  Lower,          \* the lower case of the characters that have one
  Catalog, DefaultPorts,  \* defaultAIEndpoints, defaultLocalInferencePorts
  Configs,        \* contents of ingest.euc in the configuration file
  Capacity,       \* of the observation channel (256)
  TTL,            \* dedupeTTL, localDedupeTTL, dnsDedupTTL, in polls
  MaxStall        \* bound: polls missed while the sampler waits for room

ASSUME EucAssumption ==
  /\ Platforms \subseteq {"linux", "windows", "darwin"}
  /\ Capacity \in Nat \ {0} /\ TTL \in Nat \ {0} /\ MaxStall \in Nat
  /\ \A c \in Conns : c.remote \in Seq(STRING)
  /\ Names \subseteq Seq(STRING) /\ Catalog \subseteq Seq(STRING)
  /\ \A c \in Configs : c.endpoints \subseteq Seq(STRING)
  /\ \A x \in DOMAIN Lower : Lower[x] \in STRING /\ "." \notin {x, Lower[x]}

VARIABLES
  platform,
  cfg,            \* the lists the OS collector was made with
  watch,          \* Collector.watch
  handles,        \* what is open in the kernel
  reader,         \* readLoop or the ETW consumer: "none", "reading", "exited", or
                  \*   "sending" what is in
  event,
  sampler,        \* "off", "waiting" for its ticker, "sampling", "exited"
  due,            \* the ticker has fired
  scan, burst,    \* rows still to look at; addresses reported in this poll
  hold,           \* observations the sampler has yet to send
  stall,          \* age of the poll under way
  seen,           \* ages of the marks in dedup, dnsSeen, seen; Never when absent
  last, early,    \* history: age of the last observation of a key; one came too soon
  obs,            \* the observation channel
  ctx, closed     \* the context is done; Close has been called

source == <<handles, reader, event>>
sampling == <<sampler, scan, burst, hold, stall>>
marks == <<seen, last, early>>
lists == <<platform, cfg, watch>>
vars == <<lists, source, sampling, due, marks, obs, ctx, closed>>

-----------------------------------------------------------------------------
(* normalizeHost and matchHost.                                            *)
LowerCase(h) == [i \in DOMAIN h |-> IF h[i] \in DOMAIN Lower THEN Lower[h[i]] ELSE h[i]]
TrimDot(h) == IF h # <<>> /\ Last(h) = "." THEN Front(h) ELSE h
Normalize(h) == TrimDot(LowerCase(h))

EndsIn(h, e) == IsSuffix(e, h)
Matches(h, e) == h = e \/ IsSuffix(<<".">> \o e, h)
MatchHost(host, endpoints) ==
  /\ Normalize(host) # <<>>
  /\ \E e \in endpoints : Normalize(e) # <<>> /\ Matches(Normalize(host), Normalize(e))

(* MergeAIEndpoints, and the lists start makes of the configuration.       *)
MergeAIEndpoints(extra) == {LowerCase(h) : h \in Catalog \cup extra} \ {<<>>}
Effective(c) == [endpoints |-> MergeAIEndpoints(c.endpoints),
                 ports |-> IF c.ports = {} THEN DefaultPorts ELSE c.ports]
Watched(port) == port \in cfg.ports

(* What is suppressed: a local port, a remote address, a name looked up.   *)
PortKey(p) == <<"port", p>>
HostKey(h) == <<"host", h>>
KeyAsQueried(n) == HostKey(TrimDot(n))
DnsKey(n) == HostKey(LowerCase(TrimDot(n)))
Keys == {PortKey(c.lport) : c \in Conns} \cup {HostKey(c.remote) : c \in Conns}
        \cup {HostKey(TrimDot(n)) : n \in Names} \cup {DnsKey(n) : n \in Names}
Never == -1
MaxAge == TTL + MaxStall + 1

Local(p) == [local |-> TRUE, port |-> p, host |-> <<>>]
Remote(h, p) == [local |-> FALSE, port |-> p, host |-> h]

Nothing == Local(0)

Init ==
  /\ platform \in Platforms
  /\ cfg \in {Effective(c) : c \in Configs} /\ watch = cfg
  /\ handles = {} /\ reader = "none" /\ event = Nothing
  /\ sampler = "off" /\ due = FALSE /\ scan = {} /\ burst = {}
  /\ hold = <<>> /\ stall = 0
  /\ seen = [k \in Keys |-> Never] /\ last = seen /\ early = FALSE
  /\ obs = <<>> /\ ctx = "live" /\ closed = FALSE

-----------------------------------------------------------------------------
(* Start never fails.  Without the probes, without the ring or without the *)
(* session it goes on with the sampler alone.                              *)
Started ==
  /\ sampler = "off" /\ ctx = "live" /\ sampler' = "waiting"
  /\ UNCHANGED <<lists, event, scan, burst, hold, stall, due, marks, obs, ctx, closed>>

Degraded(opened) == {}
StartLinux ==
  /\ platform = "linux" /\ Started
  /\ \E loaded, ring \in BOOLEAN, probes \in SUBSET {"kp4", "kp6"} :
       IF loaded /\ ring /\ probes # {}
       THEN handles' = {"objs", "ring"} \cup probes /\ reader' = "reading"
       ELSE /\ handles' = Degraded(IF loaded THEN {"objs"} \cup probes ELSE {})
            /\ reader' = reader

(* When EnableProvider has started the session and then fails, the session *)
(* is left to the next start.                                              *)
StartWindows ==
  /\ platform = "windows" /\ Started
  /\ \/ \E dns \in SUBSET {"dns"} :
          handles' = {"session", "consumer"} \cup dns /\ reader' = "reading"
     \/ handles' \in {{}, {"session"}} /\ UNCHANGED reader

StartDarwin == platform = "darwin" /\ Started /\ UNCHANGED <<handles, reader>>

-----------------------------------------------------------------------------
(* The source of events.                                                   *)
EventUnchanged ==
  UNCHANGED <<lists, handles, sampling, due, obs, ctx, closed>>
Handle(o) == reader' = "sending" /\ event' = o

(* decodeEvent: the remote host first, then the remote port.               *)
LinuxEvent(c) ==
  /\ platform = "linux" /\ reader = "reading" /\ "ring" \in handles
  /\ IF MatchHost(c.remote, cfg.endpoints) THEN Handle(Remote(c.remote, c.rport))
     ELSE IF Watched(c.rport) THEN Handle(Local(c.rport))
     ELSE /\ reader' = (IF ctx = "done" THEN "exited" ELSE "reading")
          /\ UNCHANGED event
  /\ UNCHANGED marks /\ EventUnchanged

(* handleNetworkEvent: what makes it local is the local port.              *)
WindowsEvent(c) ==
  /\ platform = "windows" /\ reader = "reading" /\ "consumer" \in handles
  /\ MatchHost(c.remote, cfg.endpoints) \/ Watched(c.lport)
  /\ Handle(IF Watched(c.lport) THEN Local(c.lport) ELSE Remote(c.remote, c.lport))
  /\ UNCHANGED marks /\ EventUnchanged

(* A mark at an age, with the history of when the key was last observed.   *)
NotSeen(k, age) == seen[k] = Never \/ seen[k] - age >= TTL
Mark(fresh, true, age) ==
  /\ seen' = [k \in Keys |-> IF k \in fresh THEN age ELSE seen[k]]
  /\ last' = [k \in Keys |-> IF k \in true THEN age ELSE last[k]]
  /\ early' = (early \/ \E k \in true : last[k] # Never /\ last[k] - age < TTL)

DnsEvent(n) ==
  /\ platform = "windows" /\ reader = "reading" /\ {"consumer", "dns"} \subseteq handles
  /\ MatchHost(TrimDot(n), cfg.endpoints) /\ NotSeen(DnsKey(n), 0)
  /\ Mark({DnsKey(n)}, {HostKey(Normalize(n))}, 0)
  /\ Handle(Remote(TrimDot(n), 0))
  /\ EventUnchanged

HasRoom == Len(obs) < Capacity
EventSend ==
  /\ reader = "sending" /\ HasRoom
  /\ obs' = Append(obs, event) /\ event' = Nothing
  /\ reader' = IF platform = "linux" /\ ctx = "done" THEN "exited" ELSE "reading"
  /\ UNCHANGED <<lists, handles, sampling, due, marks, ctx, closed>>

ReaderExit ==
  /\ \/ reader = "sending" /\ ctx = "done"
     \/ reader = "reading" /\ handles \cap {"ring", "consumer"} = {}
  /\ reader' = "exited" /\ event' = Nothing
  /\ UNCHANGED marks /\ EventUnchanged

-----------------------------------------------------------------------------
(* The sampler.                                                            *)
SamplerUnchanged == UNCHANGED <<lists, source, ctx, closed>>

(* The linux map drops what is older than the window, the darwin map also  *)
(* what is as old; dnsSeen is never trimmed.                               *)
ExpiredTooSoon(age) == platform # "windows" /\ age >= TTL - 1
Expired(age) ==
  CASE platform = "linux" -> age > TTL [] platform = "darwin" -> age >= TTL [] OTHER -> FALSE
PollBegin ==
  /\ sampler = "waiting" /\ due /\ due' = FALSE
  /\ sampler' = "sampling" /\ scan' \in SUBSET Conns /\ burst' = {} /\ stall' = 0
  /\ seen' = [k \in Keys |-> IF Expired(seen[k]) THEN Never ELSE seen[k]]
  /\ UNCHANGED <<hold, last, early, obs>> /\ SamplerUnchanged

(* The read of the connection table fails: nothing until the next tick.    *)
PollFails ==
  /\ sampler = "waiting" /\ due /\ due' = FALSE
  /\ UNCHANGED <<sampling, marks, obs>> /\ SamplerUnchanged

(* One row of the table: the keys it is of interest for.                   *)
OfInterest(c) ==
  LET atPort == IF Watched(c.lport) THEN {PortKey(c.lport)} ELSE {}
      atHost == IF ~c.listen /\ MatchHost(c.remote, cfg.endpoints)
                THEN {HostKey(c.remote)} ELSE {}
  IN IF platform = "darwin"
     THEN atHost \cup (IF c.listen \/ c.loop THEN atPort ELSE {})
     ELSE atPort

Fresh(c) ==
  IF platform = "windows"
  THEN IF <<c.laddr, c.lport>> \in burst THEN {} ELSE OfInterest(c)
  ELSE {k \in OfInterest(c) : NotSeen(k, stall)}
AllOfInterest(c) == OfInterest(c)
Marked(c) == Fresh(c)

Examine(c) ==
  /\ sampler = "sampling" /\ hold = <<>> /\ c \in scan
  /\ scan' = scan \ {c}
  /\ burst' = burst \cup (IF Watched(c.lport) THEN {<<c.laddr, c.lport>>} ELSE {})
  /\ hold' = (IF HostKey(c.remote) \in Fresh(c) THEN <<Remote(c.remote, 0)>> ELSE <<>>)
             \o (IF PortKey(c.lport) \in Fresh(c) THEN <<Local(c.lport)>> ELSE <<>>)
  /\ IF platform = "windows" THEN UNCHANGED marks ELSE Mark(Marked(c), Fresh(c), stall)
  /\ UNCHANGED <<sampler, stall, due, obs>> /\ SamplerUnchanged

SamplerSend ==
  /\ hold # <<>> /\ HasRoom
  /\ obs' = Append(obs, Head(hold)) /\ hold' = Tail(hold)
  /\ UNCHANGED <<sampler, scan, burst, stall, due, marks>> /\ SamplerUnchanged

PollEnd ==
  /\ sampler = "sampling" /\ hold = <<>> /\ scan = {}
  /\ sampler' = "waiting" /\ stall' = 0 /\ burst' = {}
  /\ UNCHANGED <<scan, hold, due, marks, obs>> /\ SamplerUnchanged

SamplerExit ==
  /\ ctx = "done" /\ (sampler = "waiting" \/ hold # <<>>)
  /\ sampler' = "exited" /\ hold' = <<>> /\ scan' = {} /\ stall' = 0 /\ burst' = {}
  /\ UNCHANGED <<due, marks, obs>> /\ SamplerUnchanged

-----------------------------------------------------------------------------
(* fanOut takes observations as long as the context lives (what it does    *)
(* with them and how it ends is in AgentLifecycle).                        *)
FanOut ==
  /\ ctx = "live" /\ obs # <<>> /\ obs' = Tail(obs)
  /\ UNCHANGED <<lists, source, sampling, due, marks, ctx, closed>>

(* reloadConfig: the raw lists of the file, and only for Collector.watch.  *)
Reload ==
  /\ ctx = "live" /\ \E c \in Configs : watch' = c
  /\ UNCHANGED <<platform, cfg, source, sampling, due, marks, obs, ctx, closed>>

Cancel ==
  /\ ctx = "live" /\ sampler # "off" /\ ctx' = "done"
  /\ UNCHANGED <<lists, source, sampling, due, marks, obs, closed>>

ProbesOnly == handles \ {"kp4", "kp6", "objs"}
AllClosed == handles \ {"ring", "kp4", "kp6", "objs"}
Close ==
  /\ ctx = "done" /\ ~closed
  /\ closed' = TRUE /\ handles' = AllClosed
  /\ UNCHANGED <<lists, reader, event, sampling, due, marks, obs, ctx>>

(* The goroutine startETW leaves behind stops consumer and session.        *)
StopEtw ==
  /\ ctx = "done" /\ "consumer" \in handles /\ handles' = {}
  /\ UNCHANGED <<lists, reader, event, sampling, due, marks, obs, ctx, closed>>

(* Time.                                                                   *)
Older(age) == IF age = Never \/ age = MaxAge THEN age ELSE age + 1
Tick ==
  /\ ctx = "live" /\ sampler \in {"waiting", "sampling"}
  /\ sampler = "sampling" => stall < MaxStall
  /\ stall' = IF sampler = "sampling" THEN stall + 1 ELSE 0
  /\ due' = TRUE
  /\ seen' = [k \in Keys |-> Older(seen[k])] /\ last' = [k \in Keys |-> Older(last[k])]
  /\ UNCHANGED <<lists, source, sampler, scan, burst, hold, early, obs, ctx, closed>>

-----------------------------------------------------------------------------
Start == StartLinux \/ StartWindows \/ StartDarwin
Poll == PollBegin \/ (\E c \in Conns : Examine(c)) \/ SamplerSend \/ PollEnd
Next ==
  \/ Start \/ EventSend \/ ReaderExit \/ StopEtw
  \/ \E c \in Conns : LinuxEvent(c) \/ WindowsEvent(c)
  \/ \E n \in Names : DnsEvent(n)
  \/ Poll \/ PollFails \/ SamplerExit
  \/ FanOut \/ Reload \/ Cancel \/ Close \/ Tick

Spec == Init /\ [][Next]_vars

(* Goroutines that can go on do, time passes, the table can be read again  *)
(* and again, and stop closes what it has cancelled.                       *)
FairSpec ==
  /\ Spec
  /\ WF_vars(Start) /\ SF_vars(PollBegin) /\ WF_vars(Poll) /\ SF_vars(SamplerSend)
  /\ WF_vars(FanOut) /\ SF_vars(EventSend) /\ WF_vars(Tick) /\ WF_vars(ReaderExit)
  /\ WF_vars(SamplerExit) /\ WF_vars(Close) /\ WF_vars(StopEtw)

-----------------------------------------------------------------------------
InFlight == Range(obs) \cup Range(hold) \cup (IF reader = "sending" THEN {event} ELSE {})

Ports == {0} \cup {c.lport : c \in Conns} \cup {c.rport : c \in Conns}
Hosts == {<<>>} \cup {c.remote : c \in Conns} \cup {TrimDot(n) : n \in Names}
Observations == [local : BOOLEAN, port : Ports, host : Hosts]
TypeOK ==
  /\ platform \in Platforms /\ cfg \in {Effective(c) : c \in Configs}
  /\ watch \in Configs \cup {Effective(c) : c \in Configs}
  /\ handles \subseteq {"objs", "ring", "kp4", "kp6", "session", "consumer", "dns"}
  /\ reader \in {"none", "reading", "sending", "exited"}
  /\ sampler \in {"off", "waiting", "sampling", "exited"}
  /\ scan \subseteq Conns /\ stall \in 0 .. MaxStall
  /\ event \in Observations /\ hold \in Seq(Observations)
  /\ obs \in Seq(Observations) /\ Len(obs) <= Capacity
  /\ seen \in [Keys -> -1 .. MaxAge] /\ last \in [Keys -> -1 .. MaxAge]
  /\ due \in BOOLEAN /\ early \in BOOLEAN /\ ctx \in {"live", "done"} /\ closed \in BOOLEAN

(* netcommon.go:30-35: whatever the platform and the path, what is observed*)
(* is on a watched port, or its name is a watched domain or lies below one *)
(* at the boundary of a label ("notopenai.com" is not "openai.com").  The  *)
(* lists are those of start: what a reload stores (reload.go:35) no        *)
(* collector reads, although euc.go:30-31 calls them hot-reloadable.       *)
Below(h, e) ==
  \E i \in 0 .. Len(h) : /\ SubSeq(h, i + 1, Len(h)) = e
                         /\ i = 0 \/ h[i] = "."
OfWatched(o) ==
  IF o.local THEN o.port \in cfg.ports
  ELSE \E e \in cfg.endpoints : Normalize(e) # <<>> /\ Below(Normalize(o.host), Normalize(e))
OnlyWatched == \A o \in InFlight : OfWatched(o)

(* linux.go:58-61, darwin.go:40-43, windows.go:68-70: no port, address or  *)
(* name, however it is spelled, is observed twice within the window, even  *)
(* while the sampler is held up (the windows sampler has no window).       *)
NoEarlyRepeat == ~early

(* The inductive invariant of the proofs.  A key was last observed when it *)
(* was marked, unless the mark is gone, and then the window has passed,    *)
(* counted from the poll under way.  A key never marked was never observed.*)
MarkOK(k) == seen[k] = last[k] \/ (seen[k] = Never /\ last[k] - stall >= TTL)
MarkInv == \A k \in Keys : MarkOK(k)

(* Before Start nothing is open; a platform opens only what it has; what   *)
(* Close has closed is not opened again.                                   *)
KernelHandles == {"objs", "ring", "kp4", "kp6"}
HandleInv ==
  /\ sampler = "off" => handles = {} /\ reader = "none"
  /\ closed => ctx = "done" /\ handles \cap KernelHandles = {}
  /\ ctx = "done" => sampler # "off"
  /\ handles \subseteq (CASE platform = "linux" -> KernelHandles
                          [] platform = "windows" -> {"session", "consumer", "dns"}
                          [] platform = "darwin" -> {})
EucInv == TypeOK /\ OnlyWatched /\ NoEarlyRepeat /\ MarkInv /\ HandleInv

(* linux.go:58-61 and 276-280: a local runtime that stays up is reported   *)
(* again and again, whether or not the event source could be started.      *)
StillThere(c) == PollBegin => c \in scan'
Sampled(c) == platform # "darwin" \/ c.listen \/ c.loop
StaysReported ==
  \A c \in Conns :
    ([](ctx = "live" /\ Sampled(c) /\ Watched(c.lport)) /\ <>[][StillThere(c)]_vars)
      => []<>(Local(c.lport) \in Range(hold))

(* linux.go:351-378: after Close every goroutine ends and nothing is left  *)
(* open in the kernel, but for a session that EnableProvider started.      *)
CloseReleases ==
  closed ~> (/\ handles \subseteq (IF platform = "windows" THEN {"session"} ELSE {})
             /\ reader \in {"none", "exited"} /\ sampler = "exited")
=============================================================================
