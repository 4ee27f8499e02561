--------------------------- MODULE ExaminerConfig ---------------------------
(***************************************************************************)
(* ParseConfiguration of src/parse_config.c: a configuration file as the   *)
(* sequence of tests, copies and assignments the parser makes, and the     *)
(* settings it leaves behind when it accepts the file.                     *)
(***************************************************************************)
EXTENDS PluginCalls, JsonObject

GlobalKeys ==
  {"name", "max_iterations", "max_time", "use_processes", "cuda_device",
   "base_result_directory", "pin_cpus", "do_warmup", "benchmarks", "comment",
   "sync_every_iteration"}

BenchmarkKeys ==
  {"filename", "log_name", "label", "thread_count", "block_count", "data_size",
   "additional_info", "max_iterations", "max_time", "terminator", "release_time",
   "cpu_core", "stream_priority", "mps_thread_percentage", "comment", "sm_mask"}

\* A key passes when it begins like a valid one: strncmp stops at its length.
VerifyConfigKeys(o, valid) == \A k \in Keys(o) : \E v \in valid : IsPrefix(v, k)

UseDefaultCpuCore == -1

\* A test whose result the configuration decides.
Judge(ok, fail) == IF ok THEN Call("pass", "none", "none", {}, 0, fail) ELSE Refuse(fail)

\* A NULL pointer is dereferenced.
Null == Call("null", "none", "none", {}, 0, <<>>)

\* A number, or an array of one to three: of an array the parser looks at the
\* first entry only, and takes it for every dimension.
PositiveNumber(e) == e.json = "number" /\ e.value > 0
IsDim3OrInt(e) ==
  \/ PositiveNumber(e)
  \/ e.json = "array" /\ Len(e.value) \in 1..3 /\ PositiveNumber(e.value[1])
ParseDim3OrInt(o, k, fail) ==
  IF k \notin Keys(o) THEN Null ELSE Judge(IsDim3OrInt(o.value[k]), fail)
Dim3(e) ==
  IF e.json = "number" THEN <<e.value, 1, 1>>
  ELSE [i \in 1..3 |-> IF i <= Len(e.value) THEN e.value[1].value ELSE 1]

\* strdup of a string that may be absent.
CopyOptional(o, k, r, fail) ==
  <<Judge(Optional(o, k, "string"), fail)>>
  \o (IF k \in Keys(o) THEN <<Get(r, fail)>> ELSE <<>>)

IsTrue(o, k) == Required(o, k, "boolean") /\ Item(o, k)

\* The strings the entries of the benchmark list own, and their release.
Strings == <<"filename", "log_name", "additional_info", "label">>
FreeStrings(n) ==
  FlattenSeq([i \in 1..n |-> [s \in 1..4 |-> Numbered(Strings[s], i)]])

\* One entry of the list; sync_every_iteration forbids an own iteration limit.
ParseBenchmark(b, i, smctrl, fail) ==
  <<Judge(VerifyConfigKeys(b, BenchmarkKeys), fail),
    Judge(Required(b, "filename", "string"), fail),
    Get(Numbered("filename", i), fail)>>
  \o CopyOptional(b, "log_name", Numbered("log_name", i), fail)
  \o CopyOptional(b, "label", Numbered("label", i), fail)
  \o <<Judge(/\ Optional(b, "mps_thread_percentage", "number")
             /\ ItemOr(b, "mps_thread_percentage", 100) \in 1..100, fail),
       ParseDim3OrInt(b, "thread_count", fail),
       ParseDim3OrInt(b, "block_count", fail),
       Judge(Required(b, "data_size", "number"), fail),
       Judge("sm_mask" \in Keys(b) => smctrl /\ b.value["sm_mask"].json = "string", fail)>>
  \o (IF "additional_info" \in Keys(b)
        THEN <<Get(Numbered("additional_info", i), fail)>> ELSE <<>>)
  \o <<Judge(Optional(b, "max_iterations", "number"), fail)>>
  \o (IF "max_iterations" \in Keys(b)
        THEN <<Call("unless_sync", "none", "none", {}, 0, fail)>> ELSE <<>>)
  \o <<Judge(/\ Optional(b, "max_time", "number")
             /\ Optional(b, "terminator", "boolean")
             /\ Optional(b, "release_time", "number")
             /\ Optional(b, "cpu_core", "number")
             /\ Optional(b, "stream_priority", "number"), fail)>>

Benchmarks(d) == Item(d, "benchmarks")

ParseBenchmarkList(d, smctrl, fail) ==
  LET bs == Benchmarks(d)
      ErrorCleanup == FreeStrings(Len(bs)) \o <<"benchmarks">> \o fail
  IN  <<Get("benchmarks", fail)>>
      \o FlattenSeq([i \in DOMAIN bs |-> ParseBenchmark(bs[i], i, smctrl, ErrorCleanup)])

ParseErrorCleanup == <<"base_result_directory", "scenario_name", "global_config", "root">>

\* The settings before sync_every_iteration.
GlobalSettings(d, fail) ==
  <<Judge(VerifyConfigKeys(d, GlobalKeys), fail),
    Judge(Required(d, "max_iterations", "number") /\ Item(d, "max_iterations") >= 0, fail),
    Judge(Required(d, "max_time", "number") /\ Optional(d, "use_processes", "boolean"), fail),
    Judge(Required(d, "cuda_device", "number") /\ Required(d, "name", "string"), fail),
    Get("scenario_name", fail),
    Judge(Optional(d, "base_result_directory", "string"), fail),
    Get("base_result_directory", fail),
    Judge(Optional(d, "pin_cpus", "boolean"), fail)>>

SyncSetting(d, fail) ==
  <<Judge(Optional(d, "sync_every_iteration", "boolean"), fail),
    Call(IF IsTrue(d, "sync_every_iteration") THEN "sync" ELSE "pass", "none", "none", {}, 0, fail)>>

\* The list of benchmarks, if there is one.
ListSetting(d, smctrl, fail) ==
  IF Required(d, "benchmarks", "array") /\ Benchmarks(d) # <<>>
    THEN ParseBenchmarkList(d, smctrl, fail) ELSE <<Refuse(fail)>>

\* Mutant: the benchmarks are parsed before the setting they are tested against.
SettingsSyncLast(d, smctrl, fail) ==
  GlobalSettings(d, fail) \o ListSetting(d, smctrl, fail) \o SyncSetting(d, fail)

\* sync_every_iteration is read before the benchmarks that it restricts.
Settings(d, smctrl, fail) ==
  GlobalSettings(d, fail) \o SyncSetting(d, fail)
  \o <<Judge(Optional(d, "do_warmup", "boolean"), fail)>>
  \o ListSetting(d, smctrl, fail)

\* The whole of ParseConfiguration; the caller makes the releases of fail.
ParseConfiguration(d, smctrl, fail) ==
  <<Get("global_config", fail)>>
  \o IF d.json # "object" THEN <<Refuse(<<"global_config">> \o fail)>>
     ELSE <<Get("root", <<"global_config">> \o fail)>>
          \o Settings(d, smctrl, ParseErrorCleanup \o fail) \o <<Put("root")>>

FreeGlobalConfiguration(n) ==
  FreeStrings(n) \o <<"benchmarks", "base_result_directory", "scenario_name", "global_config">>
=============================================================================
