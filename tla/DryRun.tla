------------------------------- MODULE DryRun -------------------------------
(***************************************************************************)
(* internal/dryrun: the offline pipeline that reads signals from a file,   *)
(* validates them, maps them and writes what the outputs would be sent.    *)
(* A failure to read or write a file ends the run and is not modelled.     *)
(*                                                                         *)
(* An entry of the file is a signal with a stamp for its time: "absent",    *)
(* "bad" (no RFC 3339 text), "zero" (year 1), "epoch" or "later".          *)
(* An unused definition before one with the same parameters is that        *)
(* definition with a slip, for the mutation runs.                          *)
(***************************************************************************)
EXTENDS OcsfMapper, FiniteSets

Now == 9            \* the clock while the file is read
YearOne == -1       \* time.Time{}: before 1970
Epoch == 0          \* 1970-01-01T00:00:00Z

(* LoadSignals and applyBatchDefaults (env and SDK version as app).        *)
LoadSignal(entry) ==
  [id |-> entry.id, layer |-> entry.layer, severity |-> entry.severity, app |-> entry.app,
   ctx |-> entry.ctx, time |-> IF entry.stamp \in {"absent", "bad"} THEN Now
                               ELSE IF entry.stamp = "zero" THEN YearOne
                               ELSE IF entry.stamp = "epoch" THEN Epoch ELSE 5]
ApplyDefaults(s, app) == [s EXCEPT !.app = IF @ = "" THEN app ELSE @]
LoadSignals(file, app) ==
  [i \in DOMAIN file |-> ApplyDefaults(LoadSignal(file[i]), app)]

(* validateProto: the fields of one signal it reports.                     *)
ProtoErrors(s) ==
  {f \in {"signal_id", "layer", "severity", "timestamp", "context_json"} :
     CASE f = "signal_id" -> s.id = ""
       [] f = "layer" -> s.layer \notin Layers
       [] f = "severity" -> s.severity \notin Severities
       [] f = "timestamp" -> s.time = YearOne
       [] f = "context_json" -> s.ctx.form = "broken"}

(* validateOCSFStructural: what a class requires, and the rest.            *)
RequiredFields(class) ==
  CASE class = HTTPActivity -> {"request", "response", "dst"}
    [] class = DetectionFinding -> {"finding"}
    [] class = APIActivity -> {"api"}
    [] class \in {MemoryActivity, ModuleActivity} -> {"device"}
    [] OTHER -> {}
StructuralErrors(ev) ==
  {f \in {"type", "category", "time", "severity", "version", "vendor", "uid"} :
     CASE f = "type" -> ev.type # ev.class * 100 + ev.activity
       [] f = "category" -> ev.category = 0
       [] f = "time" -> ev.time = 0
       [] f = "severity" -> ev.severity = 0
       [] f = "version" -> ev.version # "1.3.0"
       [] f = "vendor" -> ev.vendor = ""
       [] f = "uid" -> "finding" \in DOMAIN ev.fields /\ ev.fields.finding.uid = ""}
  \cup (RequiredFields(ev.class) \ DOMAIN ev.fields)

(* validateOCSFSchema: the ranges of schema/ocsf_base_event.json; every    *)
(* field it requires is always written.                                    *)
SchemaErrors(ev) ==
  {f \in {"class", "category", "activity", "type", "severity", "version", "vendor"} :
     CASE f = "class" -> ev.class < 1000
       [] f = "category" -> ev.category < 1
       [] f = "activity" -> ev.activity < 0
       [] f = "type" -> ev.type < 100000
       [] f = "severity" -> ev.severity \notin 1 .. 6
       [] f = "version" -> ev.version # "1.3.0"
       [] f = "vendor" -> ev.vendor = ""}

(* Run: the nil-padded list has one entry for each signal.                 *)
Compacted(signals) ==
  [i \in DOMAIN signals |-> IF i <= Len(MapBatch(signals)) THEN <<MapBatch(signals)[i]>> ELSE << >>]
Padded(signals) == [i \in DOMAIN signals |-> Map(signals[i])]

Error(i, signals, stage, f) == [index |-> i, id |-> signals[i].id, stage |-> stage, field |-> f]
Run(signals) ==
  LET events == Padded(signals)
      OfEvent(Check(_), stage) ==
        UNION {{Error(i, signals, stage, f) : f \in Check(events[i][1])}
                 : i \in {j \in DOMAIN events : events[j] # << >>}}
      proto == UNION {{Error(i, signals, "proto", f) : f \in ProtoErrors(signals[i])}
                        : i \in DOMAIN signals}
      mapper == {Error(i, signals, "ocsf_schema", "mapper")
                   : i \in {j \in DOMAIN signals : events[j] = << >>}}
      ocsf == OfEvent(StructuralErrors, "ocsf_structural") \cup OfEvent(SchemaErrors, "ocsf_schema")
      Failed(errs) == {e.index : e \in errs}
  IN [total |-> Len(signals),
      protoValid |-> Cardinality(DOMAIN signals \ Failed(proto)),
      ocsfValid |-> Cardinality(DOMAIN signals \ Failed(mapper \cup ocsf)),
      errors |-> proto \cup mapper \cup ocsf,
      protoFile |-> signals,
      ocsfFile |-> FlattenSeq(events)]
=============================================================================
