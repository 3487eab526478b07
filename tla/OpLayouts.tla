------------------------------ MODULE OpLayouts ------------------------------
(***************************************************************************)
(* The layout of operations on the wire, as nix-wire knows it: once for    *)
(* skipping arguments and once for reading them (protocol.rs), once for    *)
(* writing them (script/serialize.rs), and likewise for results.  The      *)
(* tables were written by hand, one operation at a time; nothing in the    *)
(* code makes them agree.                                                  *)
(*                                                                         *)
(* A stream is a sequence of fields.  A field is one u64, string, string   *)
(* set or framed blob; a u64 that steers the parser (an operation, a       *)
(* stderr code, a count or flag) is its own value.  In a message all       *)
(* counts and flags have the value n.  Versions are minors of 1.x.         *)
(***************************************************************************)
EXTENDS Naturals, Sequences

\* A count or flag, as a field of its own.
Counts == 0..2
Num(n) == <<"zero", "one", "two">>[n + 1]

\* Vec<T> or a map: a count and that many times l; an optional: a flag and l.
Times(n, l) == <<Num(n)>> \o [i \in 1..(n * Len(l)) |-> l[((i - 1) % Len(l)) + 1]]
Given(n, l) == <<Num(n)>> \o (IF n # 0 THEN l ELSE <<>>)
Since(v, first, l) == IF v >= first THEN l ELSE <<>>
U64s(k) == [i \in 1..k |-> "u64"]

PathOps == {"IsValidPath", "QueryReferrers", "QueryDeriver",
  "QueryDerivationOutputs", "QueryDerivationOutputNames",
  "QueryDerivationOutputMap", "QueryValidDerivers", "QueryPathInfo",
  "EnsurePath", "AddTempRoot", "NarFromPath"}
StringOps == {"AddIndirectRoot", "QueryPathFromHashPart"}
NoArgOps == {"SyncWithGC", "FindRoots", "QueryAllValidPaths", "OptimiseStore"}
ComplexOps == {"BuildDerivation", "AddToStoreNar"}
OtherOps == {"QueryValidPaths", "QuerySubstitutablePaths", "SetOptions",
  "AddToStore", "AddMultipleToStore", "AddBuildLog", "BuildPaths",
  "BuildPathsWithResults", "QueryMissing", "QuerySubstitutablePathInfo",
  "QuerySubstitutablePathInfos", "CollectGarbage", "VerifyStore",
  "AddPermRoot", "AddSignatures", "RegisterDrvOutput", "QueryRealisation",
  "AddTextToStore"}
Ops == PathOps \cup StringOps \cup NoArgOps \cup ComplexOps \cup OtherOps

\* op_has_client_framed_data.
FramedOps == {"AddToStore", "AddToStoreNar", "AddMultipleToStore", "AddBuildLog"}

-----------------------------------------------------------------------------
(* Arguments.                                                              *)

\* What skip_op_args consumes: the fields in front of framed data; nothing for
\* the operations it calls too complex.
SkipOpArgs(op, v, n) ==
  CASE op \in PathOps \cup StringOps -> <<"str">>
    [] op = "QueryValidPaths" -> <<"set">> \o Since(v, 27, <<"u64">>)
    [] op \in {"QuerySubstitutablePaths", "QueryMissing",
               "QuerySubstitutablePathInfos"} -> <<"set">>
    [] op = "SetOptions" ->
         U64s(10) \o Since(v, 10, <<"u64">>) \o Since(v, 12, <<"u64">>)
                  \o Since(v, 12, Times(n, <<"str", "str">>))
    [] op = "AddToStore" ->
         IF v >= 25 THEN <<"str", "str", "set", "u64">>
                    ELSE <<"str", "u64", "u64", "str">>
    [] op \in {"AddMultipleToStore", "VerifyStore"} -> <<"u64", "u64">>
    [] op \in {"AddBuildLog", "QuerySubstitutablePathInfo",
               "RegisterDrvOutput", "QueryRealisation"} -> <<"str">>
    [] op \in {"BuildPaths", "BuildPathsWithResults"} -> <<"set", "u64">>
    [] op = "CollectGarbage" -> <<"u64", "set", "u64", "u64">> \o U64s(3)
    [] op = "AddPermRoot" -> <<"str", "str">>
    [] op = "AddSignatures" -> <<"str", "set">>
    [] op = "AddTextToStore" -> <<"str", "str", "set">>
    [] OTHER -> <<>>   \* NoArgOps, ComplexOps

\* read_op_args returns None, with nothing consumed.
ReadsRaw(op, v) == op \in ComplexOps \/ (op = "AddToStore" /\ v < 25)

\* What read_op_args consumes otherwise: the framed data too, in any version.
ReadOpArgs(op, v, n) ==
  CASE op \in PathOps \cup StringOps -> <<"str">>
    [] op = "QueryValidPaths" -> <<"set">> \o Since(v, 27, <<"u64">>)
    [] op = "QuerySubstitutablePaths" -> <<"set">>
    [] op = "SetOptions" ->
         U64s(10) \o Since(v, 10, <<"u64">>) \o Since(v, 12, <<"u64">>)
                  \o Since(v, 12, Times(n, <<"str", "str">>))
    [] op = "AddToStore" -> <<"str", "str", "set", "u64", "framed">>
    [] op = "AddMultipleToStore" -> <<"u64", "u64", "framed">>
    [] op = "AddBuildLog" -> <<"str", "framed">>
    [] op \in {"BuildPaths", "BuildPathsWithResults"} -> <<"set", "u64">>
    [] op \in {"QueryMissing", "QuerySubstitutablePathInfos"} -> <<"set">>
    [] op \in {"QuerySubstitutablePathInfo", "RegisterDrvOutput",
               "QueryRealisation"} -> <<"str">>
    [] op = "CollectGarbage" -> <<"u64", "set", "u64", "u64">> \o U64s(3)
    [] op = "VerifyStore" -> <<"u64", "u64">>
    [] op = "AddPermRoot" -> <<"str", "str">>
    [] op = "AddSignatures" -> <<"str", "set">>
    [] op = "AddTextToStore" -> <<"str", "str", "set">>
    [] OTHER -> <<>>   \* NoArgOps

\* What serialize_op_args writes for the OpCall of op, whose shape depends on
\* the operation only (OpCall::RawBytes apart).
SerializeOpArgs(op, v, n) ==
  CASE op \in PathOps \cup StringOps \cup {"RegisterDrvOutput",
               "QueryRealisation", "QuerySubstitutablePathInfo"} -> <<"str">>
    [] op \in {"QuerySubstitutablePaths", "QueryMissing",
               "QuerySubstitutablePathInfos"} -> <<"set">>
    [] op = "QueryValidPaths" -> <<"set">> \o Since(v, 27, <<"u64">>)
    [] op \in {"BuildPaths", "BuildPathsWithResults"} -> <<"set", "u64">>
    [] op = "SetOptions" ->
         U64s(10) \o Since(v, 10, <<"u64">>) \o Since(v, 12, <<"u64">>)
                  \o Since(v, 12, Times(n, <<"str", "str">>))
    [] op = "CollectGarbage" -> <<"u64", "set", "u64", "u64">> \o U64s(3)
    [] op = "VerifyStore" -> <<"u64", "u64">>
    [] op = "AddPermRoot" -> <<"str", "str">>
    [] op = "AddSignatures" -> <<"str", "set">>
    [] op = "AddTextToStore" -> <<"str", "str", "set">>
    [] op = "AddToStore" -> <<"str", "str", "set", "u64", "framed">>
    [] op = "AddMultipleToStore" -> <<"u64", "u64", "framed">>
    [] op = "AddBuildLog" -> <<"str", "framed">>
    [] OTHER -> <<>>   \* NoArgOps

-----------------------------------------------------------------------------
(* Results.                                                                *)

ValidPathInfo(v) ==
  <<"str", "str", "set", "u64", "u64">> \o Since(v, 16, <<"u64", "set", "str">>)

BuildResult(v, n) ==
  <<"u64", "str">> \o Since(v, 29, U64s(4))
    \o Since(v, 37, Given(n, <<"u64">>) \o Given(n, <<"u64">>))
    \o Since(v, 28, Times(n, <<"str", "str">>))

StoreSetOps == {"QueryReferrers", "QueryAllValidPaths", "QueryValidDerivers",
  "QuerySubstitutablePaths", "QueryValidPaths", "QueryDerivationOutputs",
  "QueryDerivationOutputNames"}
NoResultOps == {"SetOptions", "RegisterDrvOutput", "AddMultipleToStore",
  "AddToStoreNar"}
U64ResultOps == {"IsValidPath", "VerifyStore", "AddTempRoot", "AddIndirectRoot",
  "EnsurePath", "SyncWithGC", "OptimiseStore", "AddSignatures", "AddBuildLog"}

\* What skip_daemon_result consumes after STDERR_LAST.
SkipDaemonResult(op, v, n) ==
  CASE op \in U64ResultOps \cup {"BuildPaths"} -> <<"u64">>
    [] op \in {"AddPermRoot", "AddTextToStore", "QueryDeriver",
               "QueryPathFromHashPart"} -> <<"str">>
    [] op = "AddToStore" ->
         IF v >= 25 THEN <<"str">> \o ValidPathInfo(v) ELSE <<"str">>
    [] op = "NarFromPath" -> Since(v, 23, <<"framed">>)
    [] op \in StoreSetOps \cup {"QueryRealisation"} -> <<"set">>
    [] op \in {"QueryDerivationOutputMap", "FindRoots"} ->
         Times(n, <<"str", "str">>)
    [] op = "QueryPathInfo" -> Given(n, ValidPathInfo(v))
    [] op = "CollectGarbage" -> U64s(3)
    [] op = "QuerySubstitutablePathInfo" ->
         Given(n, <<"str", "set", "u64", "u64">>)
    [] op = "QuerySubstitutablePathInfos" ->
         Times(n, <<"str", "str", "set", "u64", "u64">>)
    [] op = "QueryMissing" -> <<"set", "set", "set", "u64", "u64">>
    [] op = "BuildDerivation" -> BuildResult(v, n)
    [] op = "BuildPathsWithResults" -> Times(n, <<"str">> \o BuildResult(v, n))
    [] OTHER -> <<>>   \* NoResultOps

\* What read_daemon_result reads.
ReadDaemonResult(op, v, n) ==
  CASE op \in U64ResultOps \cup {"BuildPaths"} -> <<"u64">>
    [] op \in {"AddPermRoot", "AddTextToStore", "QueryDeriver",
               "QueryPathFromHashPart"} -> <<"str">>
    [] op = "AddToStore" ->
         IF v >= 25 THEN <<"str">> \o ValidPathInfo(v) ELSE <<"str">>
    [] op = "NarFromPath" -> Since(v, 23, <<"framed">>)
    [] op \in StoreSetOps \cup {"QueryRealisation"} -> <<"set">>
    [] op \in {"QueryDerivationOutputMap", "FindRoots"} ->
         Times(n, <<"str", "str">>)
    [] op = "QueryPathInfo" -> Given(n, ValidPathInfo(v))
    [] op = "CollectGarbage" -> U64s(3)
    [] op = "QuerySubstitutablePathInfo" ->
         Given(n, <<"str", "set", "u64", "u64">>)
    [] op = "QuerySubstitutablePathInfos" ->
         Times(n, <<"str", "str", "set", "u64", "u64">>)
    [] op = "QueryMissing" -> <<"set", "set", "set", "u64", "u64">>
    [] op = "BuildDerivation" -> BuildResult(v, n)
    [] op = "BuildPathsWithResults" -> Times(n, <<"str">> \o BuildResult(v, n))
    [] OTHER -> <<>>   \* NoResultOps

-----------------------------------------------------------------------------
(* The stderr loop.                                                        *)

Messages == {"STDERR_NEXT", "STDERR_WRITE", "STDERR_READ", "STDERR_STOP_ACTIVITY",
             "STDERR_START_ACTIVITY", "STDERR_RESULT"}
Terminals == {"STDERR_LAST", "STDERR_ERROR"}

\* A typed field of an activity; 0 stands for a number, and anything else for
\* a string, of which n is.
ActivityFields(n) ==
  Times(n, IF n = 2 THEN <<"one", "str">> ELSE <<"zero", "u64">>)

\* skip_stderr_payload, for a code that does not end the loop.
SkipStderrPayload(code, n) ==
  CASE code \in {"STDERR_NEXT", "STDERR_WRITE"} -> <<"str">>
    [] code \in {"STDERR_READ", "STDERR_STOP_ACTIVITY"} -> <<"u64">>
    [] code = "STDERR_START_ACTIVITY" ->
         U64s(3) \o <<"str">> \o ActivityFields(n) \o <<"u64">>
    [] code = "STDERR_RESULT" -> U64s(2) \o ActivityFields(n)

\* What read_stderr_with_error reads after STDERR_ERROR.
ErrorInfo(n) == <<"str", "u64", "str", "str">> \o Given(n, <<"str", "u64", "u64">>)
=============================================================================
