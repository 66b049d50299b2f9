----------------------------- MODULE OcsfMapper -----------------------------
(***************************************************************************)
(* internal/ocsf: what the mapper makes of a signal.                       *)
(*                                                                         *)
(* A signal is a record [id, layer, severity, time, app, ctx].  Times are  *)
(* Unix milliseconds.  ctx stands for ContextJSON: form says whether it is *)
(* "empty", "broken" JSON, JSON that is no object ("other") or an "object" *)
(* whose keys are a function to values [t, v], t the JSON type.  Product   *)
(* names, trace ids, the host name and the mapper's clock are constant     *)
(* text and left out.  A Go result with an error is <<>>, one without it   *)
(* <<value>>, which makes a list of results the sequence of their values.  *)
(***************************************************************************)
EXTENDS Integers, Sequences, SequencesExt

Layers == 1 .. 11   \* L1Hardware .. L10Application, LDecision
Severities == 1 .. 5

MemoryActivity == 1004
ModuleActivity == 1005
ProcessActivity == 1007
DetectionFinding == 2004
HTTPActivity == 4002
WebResourcesActivity == 6001
APIActivity == 6003
DatastoreActivity == 6005

(* layerToClassUID, layerToActivityID, classMetaMap.                       *)
ClassOf == <<MemoryActivity, ModuleActivity, APIActivity, MemoryActivity, APIActivity,
             DetectionFinding, DatastoreActivity, APIActivity, HTTPActivity,
             WebResourcesActivity, DetectionFinding>>
ActivityOf == <<7, 1, 2, 7, 2, 1, 4, 99, 6, 2, 1>>
CategoryOf(class) ==
  CASE class \in {MemoryActivity, ModuleActivity, ProcessActivity} -> 1
    [] class = DetectionFinding -> 2
    [] class = HTTPActivity -> 4
    [] class \in {WebResourcesActivity, APIActivity, DatastoreActivity} -> 6

LayerServiceName(layer) ==
  CASE layer = 3 -> "tokenizer" [] layer = 5 -> "output-decoder"
    [] layer = 8 -> "agent-orchestrator" [] OTHER -> "argus-sdk"

(* extractCtx: anything but an object yields no keys.  Text(s, k) is the   *)
(* non-empty string under key k, "" where there is none.                   *)
Keys(s) == IF s.ctx.form = "object" THEN s.ctx.keys ELSE << >>
Has(s, k, type) == k \in DOMAIN Keys(s) /\ Keys(s)[k].t = type
Text(s, k) == IF Has(s, k, "string") THEN Keys(s)[k].v ELSE ""
FirstText(s, ks) == SelectSeq([i \in 1 .. Len(ks) |-> Text(s, ks[i])], LAMBDA x : x # "")
Or(texts, default) == IF texts = << >> THEN default ELSE Head(texts)

(* populateClassFields: the objects of the event that are not nil, as a    *)
(* record.  action 1 is Allowed; nothing in the context overrides it.      *)
ClassFields(s, class) ==
  CASE class \in {MemoryActivity, ModuleActivity, ProcessActivity} ->
         [device |-> "virtual", action |-> 1]
    [] class = DetectionFinding ->
         [finding |-> [uid |-> s.id, analytic |-> IF s.layer = 6 THEN 4 ELSE 1], action |-> 1]
    [] class = HTTPActivity ->
         [request |-> [url |-> Or(FirstText(s, <<"url", "target", "path">>), ""),
                       method |-> Or(FirstText(s, <<"method">>), "POST")],
          response |-> IF Has(s, "status_code", "number") THEN Keys(s)["status_code"].v ELSE 200,
          dst |-> s.app]
    [] class = APIActivity -> [api |-> LayerServiceName(s.layer), src |-> s.app]
    [] class = DatastoreActivity ->
         IF Text(s, "vector_index") = "" THEN [src |-> s.app]
         ELSE [src |-> s.app, databucket |-> Text(s, "vector_index")]
    [] class = WebResourcesActivity ->
         IF Text(s, "resource_url") = "" THEN << >> ELSE [web |-> Text(s, "resource_url")]
    [] OTHER -> << >>

(* Map: an error for an unknown layer only.                                *)
Map(s) ==
  IF s.layer \notin Layers THEN << >>
  ELSE LET class == ClassOf[s.layer]
           activity == ActivityOf[s.layer]
       IN <<[class |-> class, category |-> CategoryOf(class),
             activity |-> activity, activityName |-> IF activity = 99 THEN "Other" ELSE "",
             type |-> class * 100 + activity, time |-> s.time,
             severity |-> IF s.severity \in Severities THEN s.severity ELSE 1,
             version |-> "1.3.0", vendor |-> "Argus", uid |-> s.id, layer |-> s.layer,
             raw |-> s.ctx.form \in {"object", "other"},
             fields |-> ClassFields(s, class)]>>

(* MapBatch: the events of the signals that map, closed up.                *)
MapBatch(signals) == FlattenSeq([i \in DOMAIN signals |-> Map(signals[i])])
=============================================================================
