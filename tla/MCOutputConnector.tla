-------------------------- MODULE MCOutputConnector --------------------------
(* Instances of OutputConnector for TLC: every type of output with chunks   *)
(* of two signals, no limit and a limit written the wrong way, the ways     *)
(* Build and Connect refuse, and batches that hold unmappable signals.      *)
EXTENDS OutputConnector, TLC

Unset == [key |-> "none", number |-> 0, numeric |-> TRUE]
Number(n) == [key |-> "field", number |-> n, numeric |-> TRUE]
Snake(n) == [key |-> "snake", number |-> n, numeric |-> TRUE]
NoNumber == [key |-> "field", number |-> 0, numeric |-> FALSE]

Input(type, extra) ==
  [type |-> type, endpoint |-> TRUE, secret |-> TRUE, extra |-> extra, transport |-> "",
   sasl |-> "", tls |-> FALSE, ca |-> "none"]
Chunked == {"argusxdr", "splunk_hec", "elastic"}
MCInputs ==
  {Input(t, e) : t \in Chunked, e \in {Number(2), Snake(2)}}
  \cup {Input("splunk_hec", Number(-1)), Input("elastic", Unset), Input("argusxdr", NoNumber)}
  \cup {Input("kafka", e) : e \in {Unset, Number(0), Number(-1), Snake(0)}}
  \cup {[Input("syslog", Unset) EXCEPT !.transport = t] : t \in {"", "tcp", "tls"}}
  \cup {[Input("kafka", Unset) EXCEPT !.sasl = "GSSAPI"], Input("webhook", Unset)}
  \cup {[Input(t, Unset) EXCEPT !.endpoint = FALSE] : t \in Types}
  \cup {[Input("splunk_hec", Unset) EXCEPT !.secret = FALSE]}
  \cup {[Input("kafka", Unset) EXCEPT !.tls = TRUE, !.ca = "bad"]}

Ctx(form, keys) == [form |-> form, keys |-> keys]
Entry(id, layer, severity, stamp, ctx) ==
  [id |-> id, layer |-> layer, severity |-> severity, stamp |-> stamp, app |-> "", ctx |-> ctx]
NoCtx == Ctx("empty", << >>)
Visit == Ctx("object", [target |-> [t |-> "string", v |-> "/v1"], path |-> [t |-> "string", v |-> "/v2"],
                        status_code |-> [t |-> "number", v |-> 503]])
Index == Ctx("object", [vector_index |-> [t |-> "string", v |-> "kb"]])
Files ==
  {<< >>, <<Entry("s1", 12, 1, "later", NoCtx)>>,
   <<Entry("s1", 9, 4, "later", Visit), Entry("s2", 0, 2, "absent", NoCtx), Entry("s3", 6, 5, "bad", NoCtx)>>,
   <<Entry("", 6, 0, "zero", Ctx("broken", << >>)), Entry("s2", 7, 3, "epoch", Index),
     Entry("s3", 8, 1, "later", NoCtx), Entry("s4", 10, 2, "later", Index), Entry("s5", 1, 2, "later", NoCtx)>>}
MCBatches == {LoadSignals(f, "app") : f \in Files}

(* Bound: what the Kafka client may repeat are batches of at most three.   *)
FewToRepeat == Resends => \A w \in Workers : Len(job[w].batch) <= 3
Symmetric == Permutations(Workers)
=============================================================================
