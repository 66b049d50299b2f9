--------------------------- MODULE OutputConnector ---------------------------
(***************************************************************************)
(* One configured output: factory.Build and the New of its package, its    *)
(* Connect, and Send of argusxdr, splunk, elastic, kafka and syslog, which *)
(* the dispatcher's workers call side by side.  A Send works through its   *)
(* chunks, one request each (syslog: one write for each signal), and stops *)
(* at the first that fails.  The servers and networks are external.        *)
(*                                                                         *)
(* Nothing in the program calls Connect again, Close or Health, so they    *)
(* are not actions.  Send before Connect does not happen either: a start   *)
(* whose Connect fails is abandoned.                                       *)
(*                                                                         *)
(* An unused definition before one with the same parameters is that        *)
(* definition with a slip, for the mutation runs.                          *)
(***************************************************************************)
EXTENDS DryRun, FiniteSetsExt

CONSTANTS
  Workers,
  Inputs,       \* the FactoryInputs considered
  Batches,      \* the batches considered: sequences of signals
  MaxSends,     \* bound: calls of Send
  MaxFaults     \* bound: answers other than "ok"

ASSUME OutputAssumption ==
  /\ MaxSends \in Nat /\ MaxFaults \in Nat
  /\ \A in \in Inputs : in.extra.number \in Int
  /\ \A batch \in Batches : batch \in Seq(ToSet(batch))

Types == {"argusxdr", "splunk_hec", "elastic", "kafka", "syslog"}

VARIABLES
  input, cfg,   \* the FactoryInput, and the typed Config made of it
  conn,         \* "unbuilt" "built" "up" "broken" "failed"
  job,          \* each worker's Send: its batch, the chunks it has passed
  received,     \* history: what the server took of it, every copy, in its order
  rejected,     \* history: positions it answered for with a rejection
  healthy,      \* history: each of its answers was "ok"
  result,       \* "none" "busy" "delivered" "failed": the Send and its ack
  sends, faults

sendVars == <<job, received, rejected, healthy, result, sends>>
vars == <<input, cfg, conn, sendVars, faults>>

Unbuilt == [limit |-> 0, acks |-> 1, transport |-> ""]
Idle == [batch |-> << >>, next |-> 0]
Init ==
  /\ input \in Inputs /\ cfg = Unbuilt /\ conn = "unbuilt"
  /\ job = [w \in Workers |-> Idle]
  /\ received = [w \in Workers |-> << >>] /\ rejected = [w \in Workers |-> {}]
  /\ healthy = [w \in Workers |-> TRUE] /\ result = [w \in Workers |-> "none"]
  /\ sends = 0 /\ faults = 0

-----------------------------------------------------------------------------
(* decodeExtra matches a key to the Go field of that name, in any case.    *)
(* The snake_case spelling of a field matches none and is dropped.  Text   *)
(* that is no number is an error for a number's field.                     *)
Matches(extra) == extra.key = "field"
Decodes(extra) == Matches(extra) => extra.numeric
Decoded(extra, unset) == IF Matches(extra) THEN extra.number ELSE unset

(* The Build functions and the defaults of each New.                       *)
OrDefault(n, default) == IF n = 0 THEN default ELSE n
Limit(in) ==
  LET n == Decoded(in.extra, 0)
  IN CASE in.type = "splunk_hec" -> OrDefault(n, 1000)
       [] in.type = "elastic" -> OrDefault(n, 500)
       [] OTHER -> n
Acks(in) == IF in.type = "kafka" THEN Decoded(in.extra, 1) ELSE 1
Build ==
  /\ conn = "unbuilt"
  /\ IF input.type \in Types /\ Decodes(input.extra)
     THEN /\ cfg' = [limit |-> Limit(input), acks |-> Acks(input),
                     transport |-> IF input.transport = "" THEN "udp" ELSE input.transport]
          /\ conn' = "built"
     ELSE cfg' = cfg /\ conn' = "failed"
  /\ UNCHANGED <<input, sendVars, faults>>

(* NewTLSConfig.  The agent passes a CA and never a client certificate.    *)
UsesTls ==
  CASE input.type \in {"splunk_hec", "elastic"} -> TRUE
    [] input.type = "syslog" -> cfg.transport = "tls"
    [] OTHER -> input.tls
TlsBuilds == UsesTls => input.ca # "bad"

(* What Connect asks of the configuration, and of the server: splunk and   *)
(* elastic want an HTTP 200, syslog dials; gRPC and Kafka connect lazily.  *)
Configured ==
  /\ input.endpoint
  /\ input.type \in {"splunk_hec", "elastic"} => input.secret
  /\ input.type = "kafka" => input.sasl \in {"", "PLAIN", "SCRAM-SHA-256", "SCRAM-SHA-512"}
  /\ TlsBuilds
AnySyslog == input.type = "syslog"
Streams == input.type = "syslog" /\ cfg.transport \in {"tcp", "tls"}
AsksServer == Streams \/ input.type \in {"splunk_hec", "elastic"}
Connect ==
  /\ conn = "built"
  /\ \/ conn' = (IF Configured THEN "up" ELSE "failed") /\ faults' = faults
     \/ /\ Configured /\ AsksServer /\ faults < MaxFaults
        /\ conn' = "failed" /\ faults' = faults + 1
  /\ UNCHANGED <<input, cfg, sendVars>>

-----------------------------------------------------------------------------
(* The chunks of a batch of n signals, numbered from 0.                    *)
CeilDiv(n, d) == (n + d - 1) \div d
ChunkSize(n) ==
  CASE input.type = "argusxdr" -> IF cfg.limit <= 0 THEN 500 ELSE cfg.limit
    [] input.type \in {"splunk_hec", "elastic"} ->
         IF cfg.limit > 0 /\ cfg.limit < n THEN cfg.limit ELSE n
    [] input.type = "kafka" -> n
    [] input.type = "syslog" -> 1
Chunks(n) ==
  IF n > 0 THEN CeilDiv(n, ChunkSize(n)) ELSE IF input.type = "syslog" THEN 0 ELSE 1
Chunk(n, k) == k * ChunkSize(n) + 1 .. Min({(k + 1) * ChunkSize(n), n})

(* What is on the wire for one signal: the fields by which ocsfToECS,      *)
(* buildCEF and toProtoSignal tell signals apart.                          *)
OcsfToECS(ev) == [time |-> ev.time, code |-> ev.class, category |-> ev.category, uid |-> ev.uid]
BuildCEF(s) == [id |-> s.id, layer |-> s.layer, app |-> s.app]
ToProtoSignal(s) == [id |-> s.id, layer |-> s.layer, time |-> s.time, ctx |-> s.ctx]
Encode(type, s) ==
  CASE type = "argusxdr" -> <<ToProtoSignal(s)>>
    [] type = "syslog" -> <<BuildCEF(s)>>
    [] type = "elastic" /\ Map(s) # << >> -> <<OcsfToECS(Map(s)[1])>>
    [] OTHER -> Map(s)
Payload(batch, k) ==
  {i \in Chunk(Len(batch), k) : Encode(input.type, batch[i]) # << >>}

(* The answer to a request: the transport failed, the body broke off, an   *)
(* HTTP status out of 2xx, a body that does not parse, a Splunk code or    *)
(* the Elastic errors flag.  The server may have taken some of the request *)
(* all the same, an Elastic bulk for instance.                             *)
Answers ==
  CASE input.type = "splunk_hec" -> {"ok", "transport", "unread", "status", "unparseable", "code"}
    [] input.type = "elastic" -> {"ok", "transport", "unread", "status", "unparseable", "errors"}
    [] OTHER -> {"ok", "transport"}
FlagIgnored(answer) == answer \in {"transport", "unread", "status", "unparseable"}
IsError(answer) == answer \in {"transport", "unread", "status", "unparseable", "code", "errors"}

(* An "ok" promises that all was taken, except that the XDR server may     *)
(* reject signals and count them in its ack, that a Kafka broker without   *)
(* acks and the peer of a socket promise nothing.  What it takes of one    *)
(* request it takes in the order of the request.  Idempotent writes are on *)
(* for acks=all only: for the other acks the Kafka client itself repeats   *)
(* what it has no answer for, and the broker may take that once more.      *)
Promises == input.type # "syslog" /\ (input.type = "kafka" => cfg.acks # 0)
Took(answer, sent, taken) ==
  taken \subseteq sent /\ (answer = "ok" /\ Promises /\ input.type # "argusxdr" => taken = sent)
Resends == input.type = "kafka" /\ cfg.acks # -1
Increasing(s) == \A m, n \in DOMAIN s : m < n => s[m] < s[n]
Nth(S, n) == CHOOSE x \in S : Cardinality({y \in S : y < x}) = n - 1
InOrder(S) == [n \in 1 .. Cardinality(S) |-> Nth(S, n)]

-----------------------------------------------------------------------------
NothingSent(w) == [received EXCEPT ![w] = << >>]
SendBegin(w, batch) ==
  /\ conn \in {"up", "broken"} /\ result[w] # "busy" /\ sends < MaxSends
  /\ job' = [job EXCEPT ![w] = [batch |-> batch, next |-> 0]]
  /\ received' = NothingSent(w) /\ rejected' = [rejected EXCEPT ![w] = {}]
  /\ healthy' = [healthy EXCEPT ![w] = TRUE] /\ result' = [result EXCEPT ![w] = "busy"]
  /\ sends' = sends + 1
  /\ UNCHANGED <<input, cfg, conn, faults>>

(* The loop over the chunks.                                               *)
HasChunk(w) == result[w] = "busy" /\ job[w].next < Chunks(Len(job[w].batch))
Sent(w) == Payload(job[w].batch, job[w].next)
NextChunk(w) == job' = [job EXCEPT ![w].next = @ + 1]
CarriesOn(w) == NextChunk(w) /\ result' = result
PressesOn(w) == NextChunk(w) /\ result' = [result EXCEPT ![w] = "failed"]
Aborts(w) == job' = job /\ result' = [result EXCEPT ![w] = "failed"]

(* sendChunk with nothing to send: no request.  argusxdr sends regardless. *)
SkipChunk(w) ==
  /\ HasChunk(w) /\ Sent(w) = {} /\ input.type # "argusxdr"
  /\ NextChunk(w)
  /\ UNCHANGED <<input, cfg, conn, received, rejected, healthy, result, sends, faults>>

Documents(w, order) ==
  [n \in DOMAIN order |->
     [i |-> order[n], doc |-> Encode(input.type, job[w].batch[order[n]])[1]]]
Positions(w) == [n \in DOMAIN received[w] |-> received[w][n].i]
Held(w) == ToSet(Positions(w))
Arrives(w, order) ==
  /\ order \in Seq(Sent(w)) /\ Increasing(order)
  /\ received' = [received EXCEPT ![w] = @ \o Documents(w, order)]
SendChunk(w, answer, order) ==
  /\ conn = "up" /\ (Sent(w) # {} \/ input.type = "argusxdr")
  /\ answer \in Answers /\ Took(answer, Sent(w), ToSet(order) \cup (Held(w) \cap Sent(w)))
  /\ Arrives(w, order)
  /\ rejected' = [rejected EXCEPT ![w] = IF answer = "ok" /\ Promises
                                         THEN @ \cup (Sent(w) \ (ToSet(order) \cup Held(w)))
                                         ELSE @]
  /\ IF IsError(answer) THEN Aborts(w) ELSE CarriesOn(w)
  /\ faults' = faults + (IF answer = "ok" THEN 0 ELSE 1) /\ faults' <= MaxFaults
  /\ healthy' = [healthy EXCEPT ![w] = @ /\ answer = "ok"]
  /\ conn' = IF Streams /\ answer # "ok" THEN "broken" ELSE "up"
  /\ UNCHANGED <<input, cfg, sends>>

(* Within ProduceSync the broker takes records and its answer is lost; the *)
(* client repeats them, at the latest with the request that SendChunk is.  *)
AnswerLost(w, order) ==
  /\ conn = "up" /\ Resends /\ order # << >>
  /\ Arrives(w, order)
  /\ faults < MaxFaults /\ faults' = faults + 1
  /\ UNCHANGED <<input, cfg, conn, job, rejected, healthy, result, sends>>

(* A write to a stream that has failed fails: Connect dials once.          *)
WriteBroken(w) ==
  /\ HasChunk(w) /\ conn = "broken"
  /\ Aborts(w)
  /\ UNCHANGED <<input, cfg, conn, received, rejected, healthy, sends, faults>>

SendEnd(w) ==
  /\ result[w] = "busy" /\ ~HasChunk(w)
  /\ result' = [result EXCEPT ![w] = "delivered"]
  /\ UNCHANGED <<input, cfg, conn, job, received, rejected, healthy, sends, faults>>

Next ==
  \/ Build \/ Connect
  \/ \E w \in Workers :
       \/ \E batch \in Batches : SendBegin(w, batch)
       \/ SkipChunk(w) \/ WriteBroken(w) \/ SendEnd(w)
       \/ /\ HasChunk(w)
          /\ \E taken \in SUBSET Sent(w) :
               \/ \E answer \in Answers : SendChunk(w, answer, InOrder(taken))
               \/ AnswerLost(w, InOrder(taken))
Spec == Init /\ [][Next]_vars

-----------------------------------------------------------------------------
Encodable(w) == {i \in DOMAIN job[w].batch : Encode(input.type, job[w].batch[i]) # << >>}

(* A delivered ack from an output whose server promises anything means     *)
(* that the server has each signal that can be encoded, or has rejected it *)
(* (connector.go of each output, "delivered" on full success): once and in *)
(* the order of the batch, but from the Kafka client without idempotent    *)
(* writes (kafka/connector.go:131-138) at least once.                      *)
AckIsTruthful ==
  \A w \in Workers : result[w] = "delivered" /\ Promises =>
    /\ Held(w) = Encodable(w) \ rejected[w]
    /\ Resends \/ Increasing(Positions(w))

(* A Send that fails has gone no further than the chunk that failed: the   *)
(* chunks before it are with the server and none of those after it.        *)
FailureEndsTheBatch ==
  \A w \in Workers : result[w] = "failed" =>
    LET n == Len(job[w].batch)
        Before == UNION {Chunk(n, k) : k \in 0 .. job[w].next - 1}
    IN /\ Held(w) \subseteq Before \cup Chunk(n, job[w].next)
       /\ Promises => (Before \cap Encodable(w)) \ rejected[w] \subseteq Held(w)

(* A fault fails the Send it happens in and no other, with one exception:  *)
(* a syslog stream that broke, which nothing dials again.                  *)
FaultsDoNotLinger ==
  \A w \in Workers : result[w] = "failed" /\ healthy[w] =>
    input.type = "syslog" /\ cfg.transport \in {"tcp", "tls"} /\ conn = "broken"

(* The inductive invariant.  n is the length of the batch in work and c    *)
(* that of a chunk; chunk k holds the positions k*c+1 .. (k+1)*c.          *)
Signals == UNION {ToSet(batch) : batch \in Batches}
Encoded == {p \in Inputs \X Signals : Encode(p[1].type, p[2]) # << >>}
Document == [i : Nat, doc : {Encode(p[1].type, p[2])[1] : p \in Encoded}]
TypeOK ==
  /\ input \in Inputs /\ cfg.limit \in Int
  /\ conn \in {"unbuilt", "built", "up", "broken", "failed"}
  /\ job \in [Workers -> [batch : Batches \cup {<< >>}, next : Nat]]
  /\ received \in [Workers -> Seq(Document)]
  /\ rejected \in [Workers -> SUBSET Nat]
  /\ healthy \in [Workers -> BOOLEAN]
  /\ result \in [Workers -> {"none", "busy", "delivered", "failed"}]

(* No Send before Connect; only a stream breaks, and it stays broken.      *)
ConnInv ==
  /\ conn \in {"built", "up", "broken"} => input.type \in Types
  /\ conn \notin {"up", "broken"} => \A w \in Workers : result[w] = "none"
  /\ conn = "broken" => Streams

(* What the server holds is from the chunks passed (and the one that       *)
(* failed, or that is being repeated), and unless it promises nothing it   *)
(* has these or rejected them.                                             *)
PassedUpTo(w) == job[w].next * ChunkSize(Len(job[w].batch))
Passed(w) == UNION {Chunk(Len(job[w].batch), k) : k \in 0 .. job[w].next - 1}
InWork(w) == Chunk(Len(job[w].batch), job[w].next)
SendInv(w) ==
  /\ Resends \/ Increasing(Positions(w))
  /\ Held(w) \subseteq Encodable(w) \ rejected[w]
  /\ \A i \in rejected[w] : i <= PassedUpTo(w)
  /\ Held(w) \subseteq Passed(w) \cup (IF result[w] = "failed" \/ Resends THEN InWork(w) ELSE {})
  /\ Promises => \A i \in Encodable(w) : i <= PassedUpTo(w) => i \in Held(w) \cup rejected[w]
  /\ result[w] = "delivered" => ~(job[w].next < Chunks(Len(job[w].batch)))
OutputInv ==
  /\ TypeOK /\ ConnInv /\ FaultsDoNotLinger
  /\ \A w \in Workers : result[w] # "none" => SendInv(w)

(* What the server holds of a signal is that signal encoded; no server but *)
(* the XDR server rejects any.                                             *)
DocInv ==
  \A w \in Workers : result[w] # "none" =>
    /\ \A n \in DOMAIN received[w] :
         received[w][n].doc = Encode(input.type, job[w].batch[received[w][n].i])[1]
    /\ input.type # "argusxdr" => rejected[w] = {}

(* What the dry run writes for a batch is what a delivering OCSF output    *)
(* has sent of it (in that order, once each, unless the client repeats),   *)
(* and the signals whose mapping it reports as failed are those that are   *)
(* missing.                                                                *)
OcsfOutput == input.type \in {"splunk_hec", "elastic", "kafka"}
DryRunPredicts ==
  \A w \in Workers : result[w] = "delivered" /\ OcsfOutput /\ Promises =>
    LET report == Run(job[w].batch)
        Doc(ev) == IF input.type = "elastic" THEN OcsfToECS(ev) ELSE ev
        written == [n \in DOMAIN report.ocsfFile |-> Doc(report.ocsfFile[n])]
        sent == [n \in DOMAIN received[w] |-> received[w][n].doc]
    IN /\ IF Resends THEN ToSet(sent) = ToSet(written) ELSE sent = written
       /\ DOMAIN job[w].batch \ Held(w)
            = {e.index : e \in {x \in report.errors : x.field = "mapper"}}
=============================================================================
