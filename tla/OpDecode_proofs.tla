---------------------------- MODULE OpDecode_proofs ----------------------------
(***************************************************************************)
(* The four loops stay in step with what they read, for every session and  *)
(* every cut.  Three things make it so.  Layouts of one kind that differ   *)
(* are told apart by a field that both have (Alike), so that of all layouts *)
(* a read may meet only the one that was written fits, whole or in part.   *)
(* The streams carry the calls one behind the other (Carries), also if     *)
(* they were cut.  And between any two reads a loop stands, in each stream, *)
(* at a place that follows from the call in hand (PlaceInv), or where that *)
(* stream ends.                                                            *)
(***************************************************************************)
EXTENDS OpDecode, SequenceTheorems, TLAPS

-----------------------------------------------------------------------------
(* Operations.                                                             *)

\* t is s with one more field behind it.
IsWith(t, s, field) ==
  /\ Len(t) = Len(s) + 1
  /\ \A i \in 1..Len(s) : t[i] = s[i]
  /\ t[Len(t)] = field

\* Skipping and reading the result of an operation (skip_daemon_result,
\* read_daemon_result) consume the same fields in every version, so that decode,
\* stats and replay stay where decompile would be.
THEOREM ResultsAgree ==
  ASSUME NEW o \in Ops, NEW v \in Nat, NEW n \in Counts
  PROVE  SkipDaemonResult(o, v, n) = ReadDaemonResult(o, v, n)
<1>1. CASE o = "IsValidPath"
  BY <1>1, Zenon DEF SkipDaemonResult, ReadDaemonResult
<1>2. CASE o = "QueryReferrers"
  BY <1>2, Zenon DEF SkipDaemonResult, ReadDaemonResult
<1>3. CASE o = "QueryDeriver"
  BY <1>3, Zenon DEF SkipDaemonResult, ReadDaemonResult
<1>4. CASE o = "QueryDerivationOutputs"
  BY <1>4, Zenon DEF SkipDaemonResult, ReadDaemonResult
<1>5. CASE o = "QueryDerivationOutputNames"
  BY <1>5, Zenon DEF SkipDaemonResult, ReadDaemonResult
<1>6. CASE o = "QueryDerivationOutputMap"
  BY <1>6, Zenon DEF SkipDaemonResult, ReadDaemonResult
<1>7. CASE o = "QueryValidDerivers"
  BY <1>7, Zenon DEF SkipDaemonResult, ReadDaemonResult
<1>8. CASE o = "QueryPathInfo"
  BY <1>8, Zenon DEF SkipDaemonResult, ReadDaemonResult
<1>9. CASE o = "EnsurePath"
  BY <1>9, Zenon DEF SkipDaemonResult, ReadDaemonResult
<1>10. CASE o = "AddTempRoot"
  BY <1>10, Zenon DEF SkipDaemonResult, ReadDaemonResult
<1>11. CASE o = "NarFromPath"
  BY <1>11, Zenon DEF SkipDaemonResult, ReadDaemonResult
<1>12. CASE o = "AddIndirectRoot"
  BY <1>12, Zenon DEF SkipDaemonResult, ReadDaemonResult
<1>13. CASE o = "QueryPathFromHashPart"
  BY <1>13, Zenon DEF SkipDaemonResult, ReadDaemonResult
<1>14. CASE o = "SyncWithGC"
  BY <1>14, Zenon DEF SkipDaemonResult, ReadDaemonResult
<1>15. CASE o = "FindRoots"
  BY <1>15, Zenon DEF SkipDaemonResult, ReadDaemonResult
<1>16. CASE o = "QueryAllValidPaths"
  BY <1>16, Zenon DEF SkipDaemonResult, ReadDaemonResult
<1>17. CASE o = "OptimiseStore"
  BY <1>17, Zenon DEF SkipDaemonResult, ReadDaemonResult
<1>18. CASE o = "BuildDerivation"
  BY <1>18, Zenon DEF SkipDaemonResult, ReadDaemonResult
<1>19. CASE o = "AddToStoreNar"
  BY <1>19, Zenon DEF SkipDaemonResult, ReadDaemonResult
<1>20. CASE o = "QueryValidPaths"
  BY <1>20, Zenon DEF SkipDaemonResult, ReadDaemonResult
<1>21. CASE o = "QuerySubstitutablePaths"
  BY <1>21, Zenon DEF SkipDaemonResult, ReadDaemonResult
<1>22. CASE o = "SetOptions"
  BY <1>22, Zenon DEF SkipDaemonResult, ReadDaemonResult
<1>23. CASE o = "AddToStore"
  BY <1>23, Zenon DEF SkipDaemonResult, ReadDaemonResult
<1>24. CASE o = "AddMultipleToStore"
  BY <1>24, Zenon DEF SkipDaemonResult, ReadDaemonResult
<1>25. CASE o = "AddBuildLog"
  BY <1>25, Zenon DEF SkipDaemonResult, ReadDaemonResult
<1>26. CASE o = "BuildPaths"
  BY <1>26, Zenon DEF SkipDaemonResult, ReadDaemonResult
<1>27. CASE o = "BuildPathsWithResults"
  BY <1>27, Zenon DEF SkipDaemonResult, ReadDaemonResult
<1>28. CASE o = "QueryMissing"
  BY <1>28, Zenon DEF SkipDaemonResult, ReadDaemonResult
<1>29. CASE o = "QuerySubstitutablePathInfo"
  BY <1>29, Zenon DEF SkipDaemonResult, ReadDaemonResult
<1>30. CASE o = "QuerySubstitutablePathInfos"
  BY <1>30, Zenon DEF SkipDaemonResult, ReadDaemonResult
<1>31. CASE o = "CollectGarbage"
  BY <1>31, Zenon DEF SkipDaemonResult, ReadDaemonResult
<1>32. CASE o = "VerifyStore"
  BY <1>32, Zenon DEF SkipDaemonResult, ReadDaemonResult
<1>33. CASE o = "AddPermRoot"
  BY <1>33, Zenon DEF SkipDaemonResult, ReadDaemonResult
<1>34. CASE o = "AddSignatures"
  BY <1>34, Zenon DEF SkipDaemonResult, ReadDaemonResult
<1>35. CASE o = "RegisterDrvOutput"
  BY <1>35, Zenon DEF SkipDaemonResult, ReadDaemonResult
<1>36. CASE o = "QueryRealisation"
  BY <1>36, Zenon DEF SkipDaemonResult, ReadDaemonResult
<1>37. CASE o = "AddTextToStore"
  BY <1>37, Zenon DEF SkipDaemonResult, ReadDaemonResult
<1> QED
  BY <1>1, <1>2, <1>3, <1>4, <1>5, <1>6, <1>7, <1>8, <1>9, <1>10, <1>11,
     <1>12, <1>13, <1>14, <1>15, <1>16, <1>17, <1>18, <1>19, <1>20, <1>21,
     <1>22, <1>23, <1>24, <1>25, <1>26, <1>27, <1>28, <1>29, <1>30, <1>31,
     <1>32, <1>33, <1>34, <1>35, <1>36, <1>37 DEF Ops, PathOps, StringOps,
     NoArgOps, ComplexOps, OtherOps

\* What a script is packed or run as (serialize_op_args) is what decompile reads
\* back (read_op_args), for every operation it can read in that version.
THEOREM WrittenIsRead ==
  ASSUME NEW o \in Ops, NEW v \in Nat, NEW n \in Counts, ~ReadsRaw(o, v)
  PROVE  SerializeOpArgs(o, v, n) = ReadOpArgs(o, v, n)
<1>1. CASE o = "IsValidPath"
  BY <1>1, Zenon DEF SerializeOpArgs, ReadOpArgs, PathOps, StringOps
<1>2. CASE o = "QueryReferrers"
  BY <1>2, Zenon DEF SerializeOpArgs, ReadOpArgs, PathOps, StringOps
<1>3. CASE o = "QueryDeriver"
  BY <1>3, Zenon DEF SerializeOpArgs, ReadOpArgs, PathOps, StringOps
<1>4. CASE o = "QueryDerivationOutputs"
  BY <1>4, Zenon DEF SerializeOpArgs, ReadOpArgs, PathOps, StringOps
<1>5. CASE o = "QueryDerivationOutputNames"
  BY <1>5, Zenon DEF SerializeOpArgs, ReadOpArgs, PathOps, StringOps
<1>6. CASE o = "QueryDerivationOutputMap"
  BY <1>6, Zenon DEF SerializeOpArgs, ReadOpArgs, PathOps, StringOps
<1>7. CASE o = "QueryValidDerivers"
  BY <1>7, Zenon DEF SerializeOpArgs, ReadOpArgs, PathOps, StringOps
<1>8. CASE o = "QueryPathInfo"
  BY <1>8, Zenon DEF SerializeOpArgs, ReadOpArgs, PathOps, StringOps
<1>9. CASE o = "EnsurePath"
  BY <1>9, Zenon DEF SerializeOpArgs, ReadOpArgs, PathOps, StringOps
<1>10. CASE o = "AddTempRoot"
  BY <1>10, Zenon DEF SerializeOpArgs, ReadOpArgs, PathOps, StringOps
<1>11. CASE o = "NarFromPath"
  BY <1>11, Zenon DEF SerializeOpArgs, ReadOpArgs, PathOps, StringOps
<1>12. CASE o = "AddIndirectRoot"
  BY <1>12, Zenon DEF SerializeOpArgs, ReadOpArgs, PathOps, StringOps
<1>13. CASE o = "QueryPathFromHashPart"
  BY <1>13, Zenon DEF SerializeOpArgs, ReadOpArgs, PathOps, StringOps
<1>14. CASE o = "SyncWithGC"
  BY <1>14, Zenon DEF SerializeOpArgs, ReadOpArgs, PathOps, StringOps
<1>15. CASE o = "FindRoots"
  BY <1>15, Zenon DEF SerializeOpArgs, ReadOpArgs, PathOps, StringOps
<1>16. CASE o = "QueryAllValidPaths"
  BY <1>16, Zenon DEF SerializeOpArgs, ReadOpArgs, PathOps, StringOps
<1>17. CASE o = "OptimiseStore"
  BY <1>17, Zenon DEF SerializeOpArgs, ReadOpArgs, PathOps, StringOps
<1>18. CASE o = "QueryValidPaths"
  BY <1>18, Zenon DEF SerializeOpArgs, ReadOpArgs, PathOps, StringOps
<1>19. CASE o = "QuerySubstitutablePaths"
  BY <1>19, Zenon DEF SerializeOpArgs, ReadOpArgs, PathOps, StringOps
<1>20. CASE o = "SetOptions"
  BY <1>20, Zenon DEF SerializeOpArgs, ReadOpArgs, PathOps, StringOps
<1>21. CASE o = "AddToStore"
  BY <1>21, Zenon DEF SerializeOpArgs, ReadOpArgs, PathOps, StringOps
<1>22. CASE o = "AddMultipleToStore"
  BY <1>22, Zenon DEF SerializeOpArgs, ReadOpArgs, PathOps, StringOps
<1>23. CASE o = "AddBuildLog"
  BY <1>23, Zenon DEF SerializeOpArgs, ReadOpArgs, PathOps, StringOps
<1>24. CASE o = "BuildPaths"
  BY <1>24, Zenon DEF SerializeOpArgs, ReadOpArgs, PathOps, StringOps
<1>25. CASE o = "BuildPathsWithResults"
  BY <1>25, Zenon DEF SerializeOpArgs, ReadOpArgs, PathOps, StringOps
<1>26. CASE o = "QueryMissing"
  BY <1>26, Zenon DEF SerializeOpArgs, ReadOpArgs, PathOps, StringOps
<1>27. CASE o = "QuerySubstitutablePathInfo"
  BY <1>27, Zenon DEF SerializeOpArgs, ReadOpArgs, PathOps, StringOps
<1>28. CASE o = "QuerySubstitutablePathInfos"
  BY <1>28, Zenon DEF SerializeOpArgs, ReadOpArgs, PathOps, StringOps
<1>29. CASE o = "CollectGarbage"
  BY <1>29, Zenon DEF SerializeOpArgs, ReadOpArgs, PathOps, StringOps
<1>30. CASE o = "VerifyStore"
  BY <1>30, Zenon DEF SerializeOpArgs, ReadOpArgs, PathOps, StringOps
<1>31. CASE o = "AddPermRoot"
  BY <1>31, Zenon DEF SerializeOpArgs, ReadOpArgs, PathOps, StringOps
<1>32. CASE o = "AddSignatures"
  BY <1>32, Zenon DEF SerializeOpArgs, ReadOpArgs, PathOps, StringOps
<1>33. CASE o = "RegisterDrvOutput"
  BY <1>33, Zenon DEF SerializeOpArgs, ReadOpArgs, PathOps, StringOps
<1>34. CASE o = "QueryRealisation"
  BY <1>34, Zenon DEF SerializeOpArgs, ReadOpArgs, PathOps, StringOps
<1>35. CASE o = "AddTextToStore"
  BY <1>35, Zenon DEF SerializeOpArgs, ReadOpArgs, PathOps, StringOps
<1> QED
  BY <1>1, <1>2, <1>3, <1>4, <1>5, <1>6, <1>7, <1>8, <1>9, <1>10, <1>11,
     <1>12, <1>13, <1>14, <1>15, <1>16, <1>17, <1>18, <1>19, <1>20, <1>21,
     <1>22, <1>23, <1>24, <1>25, <1>26, <1>27, <1>28, <1>29, <1>30, <1>31,
     <1>32, <1>33, <1>34, <1>35 DEF ReadsRaw, Ops, PathOps, StringOps,
     NoArgOps, ComplexOps, OtherOps

\* Skipping the arguments of an operation without framed data takes the same
\* fields as reading them (skip_op_args, read_op_args), in every version.
THEOREM SkippedIsRead ==
  ASSUME NEW o \in Ops \ (FramedOps \cup ComplexOps), NEW v \in Nat, NEW n \in Counts
  PROVE  SkipOpArgs(o, v, n) = ReadOpArgs(o, v, n)
<1>1. CASE o = "IsValidPath"
  BY <1>1, Zenon DEF SkipOpArgs, ReadOpArgs, PathOps, StringOps
<1>2. CASE o = "QueryReferrers"
  BY <1>2, Zenon DEF SkipOpArgs, ReadOpArgs, PathOps, StringOps
<1>3. CASE o = "QueryDeriver"
  BY <1>3, Zenon DEF SkipOpArgs, ReadOpArgs, PathOps, StringOps
<1>4. CASE o = "QueryDerivationOutputs"
  BY <1>4, Zenon DEF SkipOpArgs, ReadOpArgs, PathOps, StringOps
<1>5. CASE o = "QueryDerivationOutputNames"
  BY <1>5, Zenon DEF SkipOpArgs, ReadOpArgs, PathOps, StringOps
<1>6. CASE o = "QueryDerivationOutputMap"
  BY <1>6, Zenon DEF SkipOpArgs, ReadOpArgs, PathOps, StringOps
<1>7. CASE o = "QueryValidDerivers"
  BY <1>7, Zenon DEF SkipOpArgs, ReadOpArgs, PathOps, StringOps
<1>8. CASE o = "QueryPathInfo"
  BY <1>8, Zenon DEF SkipOpArgs, ReadOpArgs, PathOps, StringOps
<1>9. CASE o = "EnsurePath"
  BY <1>9, Zenon DEF SkipOpArgs, ReadOpArgs, PathOps, StringOps
<1>10. CASE o = "AddTempRoot"
  BY <1>10, Zenon DEF SkipOpArgs, ReadOpArgs, PathOps, StringOps
<1>11. CASE o = "NarFromPath"
  BY <1>11, Zenon DEF SkipOpArgs, ReadOpArgs, PathOps, StringOps
<1>12. CASE o = "AddIndirectRoot"
  BY <1>12, Zenon DEF SkipOpArgs, ReadOpArgs, PathOps, StringOps
<1>13. CASE o = "QueryPathFromHashPart"
  BY <1>13, Zenon DEF SkipOpArgs, ReadOpArgs, PathOps, StringOps
<1>14. CASE o = "SyncWithGC"
  BY <1>14, Zenon DEF SkipOpArgs, ReadOpArgs, PathOps, StringOps
<1>15. CASE o = "FindRoots"
  BY <1>15, Zenon DEF SkipOpArgs, ReadOpArgs, PathOps, StringOps
<1>16. CASE o = "QueryAllValidPaths"
  BY <1>16, Zenon DEF SkipOpArgs, ReadOpArgs, PathOps, StringOps
<1>17. CASE o = "OptimiseStore"
  BY <1>17, Zenon DEF SkipOpArgs, ReadOpArgs, PathOps, StringOps
<1>18. CASE o = "QueryValidPaths"
  BY <1>18, Zenon DEF SkipOpArgs, ReadOpArgs, PathOps, StringOps
<1>19. CASE o = "QuerySubstitutablePaths"
  BY <1>19, Zenon DEF SkipOpArgs, ReadOpArgs, PathOps, StringOps
<1>20. CASE o = "SetOptions"
  BY <1>20, Zenon DEF SkipOpArgs, ReadOpArgs, PathOps, StringOps
<1>21. CASE o = "BuildPaths"
  BY <1>21, Zenon DEF SkipOpArgs, ReadOpArgs, PathOps, StringOps
<1>22. CASE o = "BuildPathsWithResults"
  BY <1>22, Zenon DEF SkipOpArgs, ReadOpArgs, PathOps, StringOps
<1>23. CASE o = "QueryMissing"
  BY <1>23, Zenon DEF SkipOpArgs, ReadOpArgs, PathOps, StringOps
<1>24. CASE o = "QuerySubstitutablePathInfo"
  BY <1>24, Zenon DEF SkipOpArgs, ReadOpArgs, PathOps, StringOps
<1>25. CASE o = "QuerySubstitutablePathInfos"
  BY <1>25, Zenon DEF SkipOpArgs, ReadOpArgs, PathOps, StringOps
<1>26. CASE o = "CollectGarbage"
  BY <1>26, Zenon DEF SkipOpArgs, ReadOpArgs, PathOps, StringOps
<1>27. CASE o = "VerifyStore"
  BY <1>27, Zenon DEF SkipOpArgs, ReadOpArgs, PathOps, StringOps
<1>28. CASE o = "AddPermRoot"
  BY <1>28, Zenon DEF SkipOpArgs, ReadOpArgs, PathOps, StringOps
<1>29. CASE o = "AddSignatures"
  BY <1>29, Zenon DEF SkipOpArgs, ReadOpArgs, PathOps, StringOps
<1>30. CASE o = "RegisterDrvOutput"
  BY <1>30, Zenon DEF SkipOpArgs, ReadOpArgs, PathOps, StringOps
<1>31. CASE o = "QueryRealisation"
  BY <1>31, Zenon DEF SkipOpArgs, ReadOpArgs, PathOps, StringOps
<1>32. CASE o = "AddTextToStore"
  BY <1>32, Zenon DEF SkipOpArgs, ReadOpArgs, PathOps, StringOps
<1> QED
  BY <1>1, <1>2, <1>3, <1>4, <1>5, <1>6, <1>7, <1>8, <1>9, <1>10, <1>11,
     <1>12, <1>13, <1>14, <1>15, <1>16, <1>17, <1>18, <1>19, <1>20, <1>21,
     <1>22, <1>23, <1>24, <1>25, <1>26, <1>27, <1>28, <1>29, <1>30, <1>31,
     <1>32 DEF FramedOps, Ops, PathOps, StringOps, NoArgOps, ComplexOps,
     OtherOps

\* Where there is framed data, reading takes what skipping takes, and the data:
\* the loops that skip are right to skip one blob after skip_op_args.
THEOREM FramedComesLast ==
  ASSUME NEW o \in FramedOps, NEW v \in Nat, NEW n \in Counts, ~ReadsRaw(o, v)
  PROVE  IsWith(ReadOpArgs(o, v, n), SkipOpArgs(o, v, n), "framed")
<1>1. CASE o = "AddToStore"
  <2>1. v >= 25
    BY <1>1 DEF ReadsRaw
  <2>2. SkipOpArgs(o, v, n) = <<"str", "str", "set", "u64">>
    BY <1>1, <2>1, Zenon DEF SkipOpArgs, PathOps, StringOps
  <2>3. ReadOpArgs(o, v, n) = <<"str", "str", "set", "u64", "framed">>
    BY <1>1, Zenon DEF ReadOpArgs, PathOps, StringOps
  <2> QED
    BY <2>2, <2>3 DEF IsWith
<1>2. CASE o = "AddMultipleToStore"
  <2>1. SkipOpArgs(o, v, n) = <<"u64", "u64">>
    BY <1>2, Zenon DEF SkipOpArgs, PathOps, StringOps
  <2>2. ReadOpArgs(o, v, n) = <<"u64", "u64", "framed">>
    BY <1>2, Zenon DEF ReadOpArgs, PathOps, StringOps
  <2> QED
    BY <2>1, <2>2 DEF IsWith
<1>3. CASE o = "AddBuildLog"
  <2>1. SkipOpArgs(o, v, n) = <<"str">>
    BY <1>3, Zenon DEF SkipOpArgs, PathOps, StringOps
  <2>2. ReadOpArgs(o, v, n) = <<"str", "framed">>
    BY <1>3, Zenon DEF ReadOpArgs, PathOps, StringOps
  <2> QED
    BY <2>1, <2>2 DEF IsWith
<1> QED
  BY <1>1, <1>2, <1>3 DEF FramedOps, ReadsRaw, ComplexOps

-----------------------------------------------------------------------------
(* The handshake.                                                          *)

\* Two versions between which no gate of the client's handshake lies.
SameHandshake(v, w) ==
  /\ HasFeatures(v) = HasFeatures(w)
  /\ HasCpuAffinity(v) = HasCpuAffinity(w)
  /\ HasReserveSpace(v) = HasReserveSpace(w)

\* Reading the daemon's side of a live handshake (parse_daemon_handshake) and of
\* a recorded one (parse_handshake) consumes the same.
THEOREM DaemonsAreReadAlike ==
  \A v \in Nat : ParseHandshakeDaemon(v) = ParseDaemonHandshake(v)
BY DEF ParseHandshakeDaemon, ParseDaemonHandshake

\* A client without affinity (its flag is zero and nothing follows it) says just
\* what serialize_client_handshake writes.
LEMMA NoAffinity ==
  \A v \in Nat : SerializeClientHandshake(v) = ParseHandshakeClient(v, 0)
<1>1. Given(0, <<"u64">>) = <<Num(0)>> \o <<>>
  BY DEF Given
<1>2. <<Num(0)>> \o <<>> = <<Num(0)>>
  OBVIOUS
<1> QED
  BY <1>1, <1>2, Zenon DEF SerializeClientHandshake, ParseHandshakeClient

\* Lengths add up when sequences are joined.
LEMMA JoinedLength ==
  ASSUME NEW S, NEW s \in Seq(S), NEW t \in Seq(S)
  PROVE  s \o t \in Seq(S) /\ Len(s \o t) = Len(s) + Len(t)
OBVIOUS

\* One field, which is there if a gate g is open.
LEMMA GatedLength ==
  ASSUME NEW S, NEW x \in S, NEW g \in BOOLEAN
  PROVE  /\ (IF g THEN <<x>> ELSE <<>>) \in Seq(S)
         /\ Len(IF g THEN <<x>> ELSE <<>>) = (IF g THEN 1 ELSE 0)
<1>1. <<x>> \in Seq(S) /\ Len(<<x>>) = 1
  OBVIOUS
<1>2. <<>> \in Seq(S) /\ Len(<<>>) = 0
  OBVIOUS
<1>3. CASE g
  BY <1>1, <1>3, Zenon
<1>4. CASE ~g
  <2>1. (IF g THEN <<x>> ELSE <<>>) = <<>> /\ (IF g THEN 1 ELSE 0) = 0
    BY <1>4, Zenon
  <2> QED
    BY <1>2, <2>1
<1> QED
  BY <1>3, <1>4, Zenon

\* How long the client's side is: two fields and one for each gate that is open.
LEMMA HandshakeLength ==
  ASSUME NEW v \in Nat
  PROVE  Len(SerializeClientHandshake(v)) =
           2 + (IF HasFeatures(v) THEN 1 ELSE 0)
             + (IF HasCpuAffinity(v) THEN 1 ELSE 0)
             + (IF HasReserveSpace(v) THEN 1 ELSE 0)
<1> DEFINE f == IF HasFeatures(v) THEN <<"set">> ELSE <<>>
           a == IF HasCpuAffinity(v) THEN <<Num(0)>> ELSE <<>>
           r == IF HasReserveSpace(v) THEN <<"u64">> ELSE <<>>
           h == <<"WORKER_MAGIC_1", "u64">>
           Field == {"WORKER_MAGIC_1", "u64", "set", Num(0)}
<1>1. HasFeatures(v) \in BOOLEAN /\ HasCpuAffinity(v) \in BOOLEAN
        /\ HasReserveSpace(v) \in BOOLEAN
  BY DEF HasFeatures, HasCpuAffinity, HasReserveSpace
<1>2. "set" \in Field /\ Num(0) \in Field /\ "u64" \in Field
  OBVIOUS
<1>3. f \in Seq(Field) /\ Len(f) = (IF HasFeatures(v) THEN 1 ELSE 0)
  BY <1>1, <1>2, GatedLength, Zenon
<1>4. a \in Seq(Field) /\ Len(a) = (IF HasCpuAffinity(v) THEN 1 ELSE 0)
  BY <1>1, <1>2, GatedLength, Zenon
<1>5. r \in Seq(Field) /\ Len(r) = (IF HasReserveSpace(v) THEN 1 ELSE 0)
  BY <1>1, <1>2, GatedLength, Zenon
<1>6. h \in Seq(Field) /\ Len(h) = 2
  OBVIOUS
<1>7. SerializeClientHandshake(v) = ((h \o f) \o a) \o r
  BY Zenon DEF SerializeClientHandshake
<1> HIDE DEF f, a, r, h, Field
<1>8. (h \o f) \in Seq(Field) /\ Len(h \o f) = Len(h) + Len(f)
  BY <1>3, <1>6, JoinedLength, Zenon
<1>9. ((h \o f) \o a) \in Seq(Field)
        /\ Len((h \o f) \o a) = Len(h \o f) + Len(a)
  BY <1>4, <1>8, JoinedLength, Zenon
<1>10. Len(((h \o f) \o a) \o r) = Len((h \o f) \o a) + Len(r)
  BY <1>5, <1>9, JoinedLength, Zenon
<1> QED
  BY <1>3, <1>4, <1>5, <1>6, <1>7, <1>8, <1>9, <1>10

\* The gates open one after the other, so the length k tells which are open.
LengthTells(v, k) ==
  /\ HasFeatures(v) <=> k = 5
  /\ HasCpuAffinity(v) <=> k \in {4, 5}
  /\ HasReserveSpace(v) <=> k \in {3, 4, 5}

LEMMA OpenGates ==
  ASSUME NEW v \in Nat
  PROVE  LengthTells(v, Len(SerializeClientHandshake(v)))
<1> DEFINE k == Len(SerializeClientHandshake(v))
<1>1. k = 2 + (IF HasFeatures(v) THEN 1 ELSE 0)
            + (IF HasCpuAffinity(v) THEN 1 ELSE 0)
            + (IF HasReserveSpace(v) THEN 1 ELSE 0)
  BY HandshakeLength
<1> HIDE DEF k
<1>2. CASE v >= 38
  <2>1. HasFeatures(v) /\ HasCpuAffinity(v) /\ HasReserveSpace(v)
    BY <1>2 DEF HasFeatures, HasCpuAffinity, HasReserveSpace
  <2> QED
    BY <1>1, <2>1 DEF LengthTells, k
<1>3. CASE v >= 14 /\ v < 38
  <2>1. ~HasFeatures(v) /\ HasCpuAffinity(v) /\ HasReserveSpace(v)
    BY <1>3 DEF HasFeatures, HasCpuAffinity, HasReserveSpace
  <2> QED
    BY <1>1, <2>1 DEF LengthTells, k
<1>4. CASE v >= 11 /\ v < 14
  <2>1. ~HasFeatures(v) /\ ~HasCpuAffinity(v) /\ HasReserveSpace(v)
    BY <1>4 DEF HasFeatures, HasCpuAffinity, HasReserveSpace
  <2> QED
    BY <1>1, <2>1 DEF LengthTells, k
<1>5. CASE v < 11
  <2>1. ~HasFeatures(v) /\ ~HasCpuAffinity(v) /\ ~HasReserveSpace(v)
    BY <1>5 DEF HasFeatures, HasCpuAffinity, HasReserveSpace
  <2> QED
    BY <1>1, <2>1 DEF LengthTells, k
<1> QED
  BY <1>2, <1>3, <1>4, <1>5

\* A daemon that negotiates w reads a script written for v (serialize_script) as
\* it was meant exactly if no gate of the handshake lies between the two.
THEOREM UnderstoodIffSameGates ==
  ASSUME NEW v \in Nat, NEW w \in Nat
  PROVE  SerializeClientHandshake(v) = ParseHandshakeClient(w, 0)
           <=> SameHandshake(v, w)
<1>1. ParseHandshakeClient(w, 0) = SerializeClientHandshake(w)
  BY NoAffinity
<1>2. ASSUME SameHandshake(v, w)
      PROVE  SerializeClientHandshake(v) = SerializeClientHandshake(w)
  BY <1>2, Zenon DEF SameHandshake, SerializeClientHandshake
<1>3. ASSUME SerializeClientHandshake(v) = SerializeClientHandshake(w)
      PROVE  SameHandshake(v, w)
  <2>1. Len(SerializeClientHandshake(v)) = Len(SerializeClientHandshake(w))
    BY <1>3
  <2>2. /\ LengthTells(v, Len(SerializeClientHandshake(v)))
        /\ LengthTells(w, Len(SerializeClientHandshake(w)))
    BY OpenGates
  <2>3. HasFeatures(v) = HasFeatures(w) /\ HasCpuAffinity(v) = HasCpuAffinity(w)
          /\ HasReserveSpace(v) = HasReserveSpace(w)
    BY <2>1, <2>2
       DEF LengthTells, HasFeatures, HasCpuAffinity, HasReserveSpace
  <2> QED
    BY <2>3 DEF SameHandshake
<1> QED
  BY <1>1, <1>2, <1>3

\* Any daemon that is not older than the script understands how it opens.
THEOREM NewerDaemonsUnderstand ==
  ASSUME NEW ours \in Nat, NEW theirs \in Nat, ours <= theirs
  PROVE  SerializeClientHandshake(ours)
           = ParseHandshakeClient(Negotiated(ours, theirs), 0)
BY NoAffinity DEF Negotiated

\* serialize_op_args writes the same for any two versions from 1.27 on.
THEOREM RequestsAreWrittenAlike ==
  ASSUME NEW o \in Ops, NEW n \in Counts,
         NEW v \in Nat, NEW w \in Nat, v >= 27, w >= 27
  PROVE  SerializeOpArgs(o, v, n) = SerializeOpArgs(o, w, n)
<1>1. \A l : Since(v, 27, l) = Since(w, 27, l)
  BY DEF Since
<1>2. \A l : Since(v, 10, l) = Since(w, 10, l)
  BY DEF Since
<1>3. \A l : Since(v, 12, l) = Since(w, 12, l)
  BY DEF Since
<1> QED
  BY <1>1, <1>2, <1>3, Zenon DEF SerializeOpArgs

-----------------------------------------------------------------------------
(* Layouts that a reader tells apart, or that are the same.                *)

\* What streams are made of.
Field == {"str", "u64", "set", "framed", "zero", "one", "two", "WORKER_MAGIC_1",
          "WORKER_MAGIC_2", "Unknown"} \cup Ops \cup Messages \cup Terminals

\* Reading w where a was written fails at some field that both have.
TellApart(w, a) == \E i \in 1..Len(a) : i <= Len(w) /\ ~Accepts(w[i], a[i])

\* Two layouts that are the same or told apart by a field of theirs.
Alike(w, a) ==
  /\ w \in Seq(Field) /\ a \in Seq(Field)
  /\ w = a \/ TellApart(w, a)

Cat(s, t) == s \o t

\* Sequences joined, with what is where.
LEMMA Joined ==
  ASSUME NEW S, NEW s \in Seq(S), NEW t \in Seq(S)
  PROVE  /\ Cat(s, t) \in Seq(S) /\ Len(s) \in Nat /\ Len(t) \in Nat
         /\ Len(Cat(s, t)) = Len(s) + Len(t)
         /\ \A i \in 1..Len(s) : Cat(s, t)[i] = s[i]
         /\ \A i \in (Len(s) + 1)..(Len(s) + Len(t)) : Cat(s, t)[i] = t[i - Len(s)]
BY ConcatProperties, LenProperties DEF Cat

\* Layouts joined of layouts that are alike.
LEMMA AlikeJoined ==
  ASSUME NEW w, NEW a, NEW r, NEW s, Alike(w, a), Alike(r, s)
  PROVE  Alike(w \o r, a \o s)
<1>1. /\ w \in Seq(Field) /\ a \in Seq(Field) /\ r \in Seq(Field) /\ s \in Seq(Field)
      /\ w = a \/ TellApart(w, a)
      /\ r = s \/ TellApart(r, s)
  BY DEF Alike
<1>2. /\ Cat(w, r) \in Seq(Field) /\ Len(w) \in Nat /\ Len(r) \in Nat
      /\ Len(Cat(w, r)) = Len(w) + Len(r)
      /\ \A i \in 1..Len(w) : Cat(w, r)[i] = w[i]
      /\ \A i \in (Len(w) + 1)..(Len(w) + Len(r)) : Cat(w, r)[i] = r[i - Len(w)]
  BY <1>1, Joined
<1>3. /\ Cat(a, s) \in Seq(Field) /\ Len(a) \in Nat /\ Len(s) \in Nat
      /\ Len(Cat(a, s)) = Len(a) + Len(s)
      /\ \A i \in 1..Len(a) : Cat(a, s)[i] = a[i]
      /\ \A i \in (Len(a) + 1)..(Len(a) + Len(s)) : Cat(a, s)[i] = s[i - Len(a)]
  BY <1>1, Joined
<1>4. CASE w = a /\ r = s
  BY <1>2, <1>3, <1>4, Zenon DEF Alike, Cat
<1>5. CASE TellApart(w, a)
  <2>1. PICK i \in 1..Len(a) : i <= Len(w) /\ ~Accepts(w[i], a[i])
    BY <1>5 DEF TellApart
  <2>2. i \in 1..Len(w) /\ i \in 1..Len(Cat(a, s)) /\ i <= Len(Cat(w, r))
    BY <1>2, <1>3, <2>1
  <2>3. ~Accepts(Cat(w, r)[i], Cat(a, s)[i])
    BY <1>2, <1>3, <2>1, <2>2
  <2>4. TellApart(Cat(w, r), Cat(a, s))
    BY <2>2, <2>3 DEF TellApart
  <2> QED
    BY <1>2, <1>3, <2>4, Zenon DEF Alike, Cat
<1>6. CASE w = a /\ TellApart(r, s)
  <2>1. PICK i \in 1..Len(s) : i <= Len(r) /\ ~Accepts(r[i], s[i])
    BY <1>6 DEF TellApart
  <2> DEFINE j == Len(a) + i
  <2>2. /\ Len(w) = Len(a) /\ j - Len(a) = i
        /\ j \in (Len(a) + 1)..(Len(a) + Len(s)) /\ j \in (Len(w) + 1)..(Len(w) + Len(r))
        /\ j \in 1..Len(Cat(a, s)) /\ j <= Len(Cat(w, r))
    BY <1>2, <1>3, <1>6, <2>1
  <2> HIDE DEF j
  <2>3. Cat(w, r)[j] = r[i] /\ Cat(a, s)[j] = s[i]
    BY <1>2, <1>3, <2>2
  <2>4. TellApart(Cat(w, r), Cat(a, s))
    BY <2>1, <2>2, <2>3 DEF TellApart
  <2> QED
    BY <1>2, <1>3, <2>4, Zenon DEF Alike, Cat
<1> QED
  BY <1>1, <1>4, <1>5, <1>6

\* The fields of layouts.
LEMMA Fields ==
  /\ "str" \in Field /\ "u64" \in Field /\ "set" \in Field /\ "framed" \in Field
  /\ "WORKER_MAGIC_1" \in Field /\ "WORKER_MAGIC_2" \in Field
  /\ \A n \in Counts : Num(n) \in Field
  /\ Ops \cup {"Unknown"} \cup Messages \cup Terminals \subseteq Field
<1>1. /\ Num(0) = "zero" /\ Num(1) = "one" /\ Num(2) = "two"
      /\ \A n \in Counts : n = 0 \/ n = 1 \/ n = 2
  BY DEF Counts, Num
<1>2. {"zero", "one", "two"} \subseteq Field
  BY DEF Field
<1> HIDE DEF Num
<1>3. \A n \in Counts : Num(n) \in Field
  BY <1>1, <1>2
<1> QED
  BY <1>3 DEF Field

\* A layout is like itself.
LEMMA AlikeSelf ==
  ASSUME NEW a \in Seq(Field)
  PROVE  Alike(a, a)
BY DEF Alike

\* Numbers that layouts depend on are told apart.
LEMMA AlikeNum ==
  ASSUME NEW m \in Counts, NEW n \in Counts
  PROVE  /\ Alike(<<Num(m)>>, <<Num(n)>>)
         /\ m # n => TellApart(<<Num(m)>>, <<Num(n)>>)
<1>1. /\ Num(m) \in Field /\ Num(n) \in Field
      /\ m # n => ~Accepts(Num(m), Num(n))
  <2>1. /\ Num(0) = "zero" /\ Num(1) = "one" /\ Num(2) = "two"
        /\ m \in {0, 1, 2} /\ n \in {0, 1, 2}
    BY DEF Counts, Num
  <2> HIDE DEF Num
  <2>2. Num(m) \in {"zero", "one", "two"} /\ Num(n) \in {"zero", "one", "two"}
    BY <2>1
  <2>3. m # n => Num(m) # Num(n)
    BY <2>1
  <2>4. Num(m) \in Field /\ Num(n) \in Field
    BY Fields
  <2>5. Num(m) # "u64"
    BY <2>2
  <2>6. m # n => ~Accepts(Num(m), Num(n))
    BY <2>3, <2>5 DEF Accepts
  <2> QED
    BY <2>4, <2>6
<1> HIDE DEF Num
<1>2. /\ <<Num(m)>> \in Seq(Field) /\ <<Num(n)>> \in Seq(Field)
      /\ Len(<<Num(m)>>) = 1 /\ Len(<<Num(n)>>) = 1
      /\ <<Num(m)>>[1] = Num(m) /\ <<Num(n)>>[1] = Num(n)
  BY <1>1
<1>3. m # n => TellApart(<<Num(m)>>, <<Num(n)>>)
  BY <1>1, <1>2 DEF TellApart
<1> QED
  BY <1>2, <1>3 DEF Alike

\* A count that differs tells what follows it apart.
LEMMA AlikeCounted ==
  ASSUME NEW m \in Counts, NEW n \in Counts, NEW r \in Seq(Field), NEW s \in Seq(Field),
         m = n => Alike(r, s)
  PROVE  Alike(<<Num(m)>> \o r, <<Num(n)>> \o s)
<1>1. CASE m = n
  BY <1>1, AlikeNum, AlikeJoined
<1>2. CASE m # n
  <2> DEFINE x == <<Num(m)>>
             y == <<Num(n)>>
  <2>1. x \in Seq(Field) /\ y \in Seq(Field) /\ TellApart(x, y)
    BY <1>2, AlikeNum DEF Alike
  <2> HIDE DEF x, y
  <2>2. PICK i \in 1..Len(y) : i <= Len(x) /\ ~Accepts(x[i], y[i])
    BY <2>1 DEF TellApart
  <2>3. /\ Cat(x, r) \in Seq(Field) /\ Len(x) \in Nat /\ Len(r) \in Nat
        /\ Len(Cat(x, r)) = Len(x) + Len(r) /\ \A k \in 1..Len(x) : Cat(x, r)[k] = x[k]
    BY <2>1, Joined
  <2>4. /\ Cat(y, s) \in Seq(Field) /\ Len(y) \in Nat /\ Len(s) \in Nat
        /\ Len(Cat(y, s)) = Len(y) + Len(s) /\ \A k \in 1..Len(y) : Cat(y, s)[k] = y[k]
    BY <2>1, Joined
  <2>5. i \in 1..Len(x) /\ i \in 1..Len(Cat(y, s)) /\ i <= Len(Cat(x, r))
    BY <2>2, <2>3, <2>4
  <2>6. TellApart(Cat(x, r), Cat(y, s))
    BY <2>2, <2>3, <2>4, <2>5 DEF TellApart
  <2> QED
    BY <2>3, <2>4, <2>6, Zenon DEF Alike, Cat, x, y
<1> QED
  BY <1>1, <1>2

\* Layouts behind a flag are alike if the flag is in front of them.
LEMMA AlikeGiven ==
  ASSUME NEW m \in Counts, NEW n \in Counts, NEW l, NEW k, Alike(l, k)
  PROVE  Alike(Given(m, l), Given(n, k))
<1> DEFINE r == IF m # 0 THEN l ELSE <<>>
           s == IF n # 0 THEN k ELSE <<>>
<1>1. l \in Seq(Field) /\ k \in Seq(Field) /\ <<>> \in Seq(Field)
  BY DEF Alike
<1>2. r \in Seq(Field) /\ s \in Seq(Field)
  BY <1>1
<1>3. m = n => Alike(r, s)
  BY <1>1, AlikeSelf
<1> HIDE DEF r, s
<1>4. Alike(<<Num(m)>> \o r, <<Num(n)>> \o s)
  BY <1>2, <1>3, AlikeCounted
<1> QED
  BY <1>4, Zenon DEF Given, r, s

\* Layouts that a version adds.
LEMMA AlikeSince ==
  ASSUME NEW v \in Nat, NEW first \in Nat, NEW l, NEW k, Alike(l, k)
  PROVE  Alike(Since(v, first, l), Since(v, first, k))
<1>1. Alike(<<>>, <<>>)
  BY AlikeSelf, EmptySeq
<1> QED
  BY <1>1 DEF Since

\* That many times a sequence is a sequence.
LEMMA TimesAreFields ==
  ASSUME NEW n \in Counts, NEW l \in Seq(Field), Len(l) # 0
  PROVE  [i \in 1..(n * Len(l)) |-> l[((i - 1) % Len(l)) + 1]] \in Seq(Field)
<1>1. Len(l) \in Nat \ {0} /\ n \in Nat
  BY LenProperties DEF Counts
<1>2. n * Len(l) \in Nat
  BY <1>1
<1>3. ASSUME NEW i \in 1..(n * Len(l))
      PROVE  l[((i - 1) % Len(l)) + 1] \in Field
  <2>1. i - 1 \in Int
    BY <1>1, <1>2
  <2>2. ((i - 1) % Len(l)) \in 0..(Len(l) - 1)
    BY <1>1, <2>1
  <2>3. ((i - 1) % Len(l)) + 1 \in 1..Len(l)
    BY <1>1, <2>2
  <2> QED
    BY <2>3, ElementOfSeq
<1> DEFINE f == [i \in 1..(n * Len(l)) |-> l[((i - 1) % Len(l)) + 1]]
<1>4. f \in [1..(n * Len(l)) -> Field]
  BY <1>3
<1> HIDE DEF f
<1>5. f \in Seq(Field)
  BY <1>2, <1>4, SeqDef
<1> QED
  BY <1>5 DEF f

\* Repetitions are alike if a different number of them has been told apart.
LEMMA AlikeTimes ==
  ASSUME NEW m \in Counts, NEW n \in Counts, NEW l \in Seq(Field), NEW k \in Seq(Field),
         Len(l) # 0, Len(k) # 0, m = n => l = k
  PROVE  Alike(Times(m, l), Times(n, k))
<1> DEFINE r == [i \in 1..(m * Len(l)) |-> l[((i - 1) % Len(l)) + 1]]
           s == [i \in 1..(n * Len(k)) |-> k[((i - 1) % Len(k)) + 1]]
<1>1. r \in Seq(Field) /\ s \in Seq(Field)
  BY TimesAreFields
<1>2. m = n => r = s
  OBVIOUS
<1> HIDE DEF r, s
<1>3. m = n => Alike(r, s)
  BY <1>1, <1>2, AlikeSelf
<1>4. Alike(<<Num(m)>> \o r, <<Num(n)>> \o s)
  BY <1>1, <1>3, AlikeCounted
<1> QED
  BY <1>4, Zenon DEF Times, r, s

\* The layouts in which nothing is counted.
LEMMA AlikePlain ==
  /\ Alike(<<>>, <<>>) /\ Alike(<<"str">>, <<"str">>) /\ Alike(<<"set">>, <<"set">>)
  /\ Alike(<<"u64">>, <<"u64">>) /\ Alike(<<"framed">>, <<"framed">>)
  /\ Alike(<<"u64", "u64">>, <<"u64", "u64">>)
  /\ Alike(<<"u64", "str">>, <<"u64", "str">>)
  /\ Alike(<<"str", "str">>, <<"str", "str">>)
  /\ Alike(<<"str", "set">>, <<"str", "set">>)
  /\ Alike(<<"set", "u64">>, <<"set", "u64">>)
  /\ Alike(<<"str", "framed">>, <<"str", "framed">>)
  /\ Alike(<<"str", "str", "set">>, <<"str", "str", "set">>)
  /\ Alike(<<"u64", "set", "str">>, <<"u64", "set", "str">>)
  /\ Alike(<<"str", "u64", "u64">>, <<"str", "u64", "u64">>)
  /\ Alike(<<"u64", "u64", "framed">>, <<"u64", "u64", "framed">>)
  /\ Alike(<<"str", "u64", "u64", "str">>, <<"str", "u64", "u64", "str">>)
  /\ Alike(<<"str", "u64", "str", "str">>, <<"str", "u64", "str", "str">>)
  /\ Alike(<<"str", "str", "set", "u64">>, <<"str", "str", "set", "u64">>)
  /\ Alike(<<"u64", "set", "u64", "u64">>, <<"u64", "set", "u64", "u64">>)
  /\ Alike(<<"str", "set", "u64", "u64">>, <<"str", "set", "u64", "u64">>)
  /\ Alike(<<"str", "str", "set", "u64", "u64">>, <<"str", "str", "set", "u64", "u64">>)
  /\ Alike(<<"str", "str", "set", "u64", "framed">>, <<"str", "str", "set", "u64", "framed">>)
  /\ Alike(<<"set", "set", "set", "u64", "u64">>, <<"set", "set", "set", "u64", "u64">>)
<1>1. "str" \in Field /\ "u64" \in Field /\ "set" \in Field /\ "framed" \in Field
  BY Fields
<1> QED
  BY <1>1 DEF Alike

\* A row of numbers.
LEMMA AlikeU64s ==
  ASSUME NEW k \in Nat
  PROVE  Alike(U64s(k), U64s(k))
<1>1. U64s(k) \in [1..k -> Field]
  BY Fields DEF U64s
<1>2. U64s(k) \in Seq(Field)
  BY <1>1, SeqDef
<1> QED
  BY <1>2, AlikeSelf

\* The arguments of SetOptions have one count, behind eleven or twelve numbers.
LEMMA AlikeOptions ==
  ASSUME NEW v \in Nat, NEW m \in Counts, NEW n \in Counts
  PROVE  Alike(U64s(10) \o Since(v, 10, <<"u64">>) \o Since(v, 12, <<"u64">>)
                 \o Since(v, 12, Times(m, <<"str", "str">>)),
               U64s(10) \o Since(v, 10, <<"u64">>) \o Since(v, 12, <<"u64">>)
                 \o Since(v, 12, Times(n, <<"str", "str">>)))
<1>1. Alike(U64s(10), U64s(10))
  BY AlikeU64s
<1>2. Alike(Since(v, 10, <<"u64">>), Since(v, 10, <<"u64">>))
        /\ Alike(Since(v, 12, <<"u64">>), Since(v, 12, <<"u64">>))
  BY AlikePlain, AlikeSince
<1>3. <<"str", "str">> \in Seq(Field) /\ Len(<<"str", "str">>) # 0
  BY Fields
<1>4. Alike(Times(m, <<"str", "str">>), Times(n, <<"str", "str">>))
  BY <1>3, AlikeTimes
<1>5. Alike(Since(v, 12, Times(m, <<"str", "str">>)),
            Since(v, 12, Times(n, <<"str", "str">>)))
  BY <1>4, AlikeSince
<1> QED
  BY <1>1, <1>2, <1>5, AlikeJoined, Zenon

\* Skipping arguments.
LEMMA AlikeSkipOpArgs ==
  ASSUME NEW o, NEW v \in Nat, NEW m \in Counts, NEW n \in Counts
  PROVE  Alike(SkipOpArgs(o, v, m), SkipOpArgs(o, v, n))
<1>1. Alike(<<"set">> \o Since(v, 27, <<"u64">>), <<"set">> \o Since(v, 27, <<"u64">>))
  BY AlikePlain, AlikeSince, AlikeJoined
<1>2. Alike(<<"u64", "set", "u64", "u64">> \o U64s(3), <<"u64", "set", "u64", "u64">> \o U64s(3))
  BY AlikePlain, AlikeU64s, AlikeJoined
<1> QED
  BY <1>1, <1>2, AlikeOptions, AlikePlain, SMTT(30) DEF SkipOpArgs

\* Reading arguments.
LEMMA AlikeReadOpArgs ==
  ASSUME NEW o, NEW v \in Nat, NEW m \in Counts, NEW n \in Counts
  PROVE  Alike(ReadOpArgs(o, v, m), ReadOpArgs(o, v, n))
<1>1. Alike(<<"set">> \o Since(v, 27, <<"u64">>), <<"set">> \o Since(v, 27, <<"u64">>))
  BY AlikePlain, AlikeSince, AlikeJoined
<1>2. Alike(<<"u64", "set", "u64", "u64">> \o U64s(3), <<"u64", "set", "u64", "u64">> \o U64s(3))
  BY AlikePlain, AlikeU64s, AlikeJoined
<1> QED
  BY <1>1, <1>2, AlikeOptions, AlikePlain, SMTT(30) DEF ReadOpArgs

\* What comes back of a path and of a build.
LEMMA AlikeValidPathInfo ==
  ASSUME NEW v \in Nat
  PROVE  Alike(ValidPathInfo(v), ValidPathInfo(v))
<1>1. Alike(Since(v, 16, <<"u64", "set", "str">>), Since(v, 16, <<"u64", "set", "str">>))
  BY AlikePlain, AlikeSince
<1> QED
  BY <1>1, AlikePlain, AlikeJoined, Zenon DEF ValidPathInfo

\* The result of a build, in any version.
LEMMA AlikeBuildResult ==
  ASSUME NEW v \in Nat, NEW m \in Counts, NEW n \in Counts
  PROVE  Alike(BuildResult(v, m), BuildResult(v, n))
<1>1. <<"str", "str">> \in Seq(Field) /\ Len(<<"str", "str">>) # 0
  BY Fields
<1>2. Alike(Times(m, <<"str", "str">>), Times(n, <<"str", "str">>))
  BY <1>1, AlikeTimes
<1>3. Alike(Since(v, 28, Times(m, <<"str", "str">>)),
            Since(v, 28, Times(n, <<"str", "str">>)))
  BY <1>2, AlikeSince
<1>4. Alike(Since(v, 29, U64s(4)), Since(v, 29, U64s(4)))
  BY AlikeU64s, AlikeSince
<1>5. Alike(Given(m, <<"u64">>), Given(n, <<"u64">>))
  BY AlikePlain, AlikeGiven
<1>6. Alike(Given(m, <<"u64">>) \o Given(m, <<"u64">>), Given(n, <<"u64">>) \o Given(n, <<"u64">>))
  BY <1>5, AlikeJoined
<1>7. Alike(Since(v, 37, Given(m, <<"u64">>) \o Given(m, <<"u64">>)),
            Since(v, 37, Given(n, <<"u64">>) \o Given(n, <<"u64">>)))
  BY <1>6, AlikeSince
<1> QED
  BY <1>3, <1>4, <1>7, AlikePlain, AlikeJoined, Zenon DEF BuildResult

\* Reading results.
LEMMA AlikeReadDaemonResult ==
  ASSUME NEW o, NEW v \in Nat, NEW m \in Counts, NEW n \in Counts
  PROVE  Alike(ReadDaemonResult(o, v, m), ReadDaemonResult(o, v, n))
<1>1. Alike(<<"str">> \o ValidPathInfo(v), <<"str">> \o ValidPathInfo(v))
  BY AlikePlain, AlikeValidPathInfo, AlikeJoined
<1>2. Alike(Since(v, 23, <<"framed">>), Since(v, 23, <<"framed">>))
  BY AlikePlain, AlikeSince
<1>3. /\ <<"str", "str">> \in Seq(Field) /\ Len(<<"str", "str">>) # 0
      /\ <<"str", "str", "set", "u64", "u64">> \in Seq(Field)
      /\ Len(<<"str", "str", "set", "u64", "u64">>) # 0
  BY Fields
<1>4. Alike(Times(m, <<"str", "str">>), Times(n, <<"str", "str">>))
  BY <1>3, AlikeTimes
<1>5. Alike(Times(m, <<"str", "str", "set", "u64", "u64">>),
            Times(n, <<"str", "str", "set", "u64", "u64">>))
  BY <1>3, AlikeTimes
<1>6. Alike(Given(m, ValidPathInfo(v)), Given(n, ValidPathInfo(v)))
  BY AlikeValidPathInfo, AlikeGiven
<1>7. Alike(Given(m, <<"str", "set", "u64", "u64">>), Given(n, <<"str", "set", "u64", "u64">>))
  BY AlikePlain, AlikeGiven
<1>8. Alike(BuildResult(v, m), BuildResult(v, n))
  BY AlikeBuildResult
<1>9. Alike(Times(m, <<"str">> \o BuildResult(v, m)), Times(n, <<"str">> \o BuildResult(v, n)))
  <2> DEFINE l == <<"str">> \o BuildResult(v, m)
             k == <<"str">> \o BuildResult(v, n)
  <2>1. Alike(l, k)
    BY <1>8, AlikePlain, AlikeJoined
  <2>2. l \in Seq(Field) /\ k \in Seq(Field)
    BY <2>1 DEF Alike
  <2>3. BuildResult(v, m) \in Seq(Field) /\ BuildResult(v, n) \in Seq(Field)
    BY <1>8 DEF Alike
  <2>4. <<"str">> \in Seq(Field) /\ Len(<<"str">>) = 1
    BY Fields
  <2>5. Len(l) # 0 /\ Len(k) # 0
    BY <2>3, <2>4, ConcatProperties, LenProperties
  <2>6. m = n => l = k
    OBVIOUS
  <2> HIDE DEF l, k
  <2>7. Alike(Times(m, l), Times(n, k))
    BY <2>2, <2>5, <2>6, AlikeTimes
  <2> QED
    BY <2>7 DEF l, k
<1>10. Alike(U64s(3), U64s(3))
  BY AlikeU64s
<1> QED
  BY <1>1, <1>2, <1>4, <1>5, <1>6, <1>7, <1>8, <1>9, <1>10, AlikePlain, SMTT(30)
     DEF ReadDaemonResult

\* Skipping results.
LEMMA AlikeSkipDaemonResult ==
  ASSUME NEW o \in Ops, NEW v \in Nat, NEW m \in Counts, NEW n \in Counts
  PROVE  Alike(SkipDaemonResult(o, v, m), SkipDaemonResult(o, v, n))
BY AlikeReadDaemonResult, ResultsAgree

\* The payloads of messages.
LEMMA AlikePayload ==
  ASSUME NEW code \in Messages, NEW m \in Counts, NEW n \in Counts
  PROVE  Alike(SkipStderrPayload(code, m), SkipStderrPayload(code, n))
<1> DEFINE l(x) == IF x = 2 THEN <<"one", "str">> ELSE <<"zero", "u64">>
<1>1. \A x : l(x) \in Seq(Field) /\ Len(l(x)) # 0
  <2>1. "one" \in Field /\ "str" \in Field /\ "zero" \in Field /\ "u64" \in Field
    BY DEF Field
  <2> QED
    BY <2>1
<1> HIDE DEF l
<1>2. Alike(Times(m, l(m)), Times(n, l(n)))
  BY <1>1, AlikeTimes
<1>3. Alike(ActivityFields(m), ActivityFields(n))
  BY <1>2, Zenon DEF ActivityFields, l
<1>4. Alike(U64s(3), U64s(3)) /\ Alike(U64s(2), U64s(2))
  BY AlikeU64s
<1>5. Alike(U64s(3) \o <<"str">>, U64s(3) \o <<"str">>)
  BY <1>4, AlikePlain, AlikeJoined
<1>6. Alike(U64s(3) \o <<"str">> \o ActivityFields(m), U64s(3) \o <<"str">> \o ActivityFields(n))
  BY <1>3, <1>5, AlikeJoined
<1>7. Alike(U64s(3) \o <<"str">> \o ActivityFields(m) \o <<"u64">>,
            U64s(3) \o <<"str">> \o ActivityFields(n) \o <<"u64">>)
  BY <1>6, AlikePlain, AlikeJoined
<1>8. Alike(U64s(2) \o ActivityFields(m), U64s(2) \o ActivityFields(n))
  BY <1>3, <1>4, AlikeJoined
<1> QED
  BY <1>7, <1>8, AlikePlain, SMTT(30) DEF SkipStderrPayload, Messages

\* Reading messages of the stderr loop.
LEMMA AlikeMessage ==
  ASSUME NEW code \in Messages, NEW m \in Counts, NEW n \in Counts
  PROVE  Alike(<<code>> \o SkipStderrPayload(code, m), <<code>> \o SkipStderrPayload(code, n))
<1>1. code \in Field
  BY Fields
<1>2. Alike(<<code>>, <<code>>)
  BY <1>1 DEF Alike
<1> QED
  BY <1>2, AlikePayload, AlikeJoined

\* Reading what follows STDERR_ERROR.
LEMMA AlikeErrorInfo ==
  ASSUME NEW m \in Counts, NEW n \in Counts
  PROVE  Alike(ErrorInfo(m), ErrorInfo(n))
<1>1. Alike(Given(m, <<"str", "u64", "u64">>), Given(n, <<"str", "u64", "u64">>))
  BY AlikePlain, AlikeGiven
<1> QED
  BY <1>1, AlikePlain, AlikeJoined, Zenon DEF ErrorInfo

\* Reading the handshake.
LEMMA AlikeHandshakeClient ==
  ASSUME NEW v \in Nat, NEW m \in Counts, NEW n \in Counts
  PROVE  Alike(ParseHandshakeClient(v, m), ParseHandshakeClient(v, n))
<1>1. Alike(<<"WORKER_MAGIC_1", "u64">>, <<"WORKER_MAGIC_1", "u64">>)
  BY Fields DEF Alike
<1>2. Alike(IF HasFeatures(v) THEN <<"set">> ELSE <<>>, IF HasFeatures(v) THEN <<"set">> ELSE <<>>)
  BY AlikePlain, Zenon
<1>3. Alike(Given(m, <<"u64">>), Given(n, <<"u64">>))
  BY AlikePlain, AlikeGiven
<1>4. Alike(IF HasCpuAffinity(v) THEN Given(m, <<"u64">>) ELSE <<>>,
            IF HasCpuAffinity(v) THEN Given(n, <<"u64">>) ELSE <<>>)
  BY <1>3, AlikePlain, Zenon
<1>5. Alike(IF HasReserveSpace(v) THEN <<"u64">> ELSE <<>>,
            IF HasReserveSpace(v) THEN <<"u64">> ELSE <<>>)
  BY AlikePlain, Zenon
<1> QED
  BY <1>1, <1>2, <1>4, <1>5, AlikeJoined, Zenon DEF ParseHandshakeClient

\* What the daemon says in the handshake is one layout in each version.
LEMMA AlikeHandshakeDaemon ==
  ASSUME NEW v \in Nat
  PROVE  Alike(ParseHandshakeDaemon(v), ParseHandshakeDaemon(v))
<1>1. "STDERR_LAST" \in Field
  BY Fields DEF Terminals
<1>2. /\ Alike(<<"WORKER_MAGIC_2", "u64">>, <<"WORKER_MAGIC_2", "u64">>)
      /\ Alike(<<"STDERR_LAST">>, <<"STDERR_LAST">>)
  BY <1>1, Fields DEF Alike
<1>3. Alike(IF HasFeatures(v) THEN <<"set">> ELSE <<>>, IF HasFeatures(v) THEN <<"set">> ELSE <<>>)
  BY AlikePlain, Zenon
<1>4. Alike(Since(v, 33, <<"str">>), Since(v, 33, <<"str">>))
        /\ Alike(Since(v, 35, <<"u64">>), Since(v, 35, <<"u64">>))
  BY AlikePlain, AlikeSince
<1> QED
  BY <1>2, <1>3, <1>4, AlikeJoined, Zenon DEF ParseHandshakeDaemon

-----------------------------------------------------------------------------
(* Reading a layout from a stream.                                         *)

\* The stream has part behind its place n, as far as it goes.
Holds(stream, n, part) ==
  \A i \in 1..Len(part) : n + i <= Len(stream) => stream[n + i] = part[i]

\* Reading a stream from a place p on (FromClient, FromDaemon).
ReadsOn(stream, p, layouts, there, where, next, onError) ==
  \/ \E w \in Whole(layouts, Rest(stream, p)) : there = p + Len(w) /\ where = next
  \/ /\ Whole(layouts, Rest(stream, p)) = {} /\ Short(layouts, Rest(stream, p)) # {}
     /\ there = Len(stream) /\ where = onError
  \/ /\ Whole(layouts, Rest(stream, p)) = {} /\ Short(layouts, Rest(stream, p)) = {}
     /\ where = "astray" /\ there = p

\* What is left of a stream behind a place.
LEMMA RestIs ==
  ASSUME NEW s \in Seq(Field), NEW p \in 0..Len(s)
  PROVE  /\ Len(s) \in Nat /\ Len(Rest(s, p)) = Len(s) - p
         /\ \A i \in 1..(Len(s) - p) : Rest(s, p)[i] = s[p + i]
<1>1. Len(s) \in Nat /\ p \in Nat /\ p <= Len(s)
  BY LenProperties
<1>2. \A i \in (p + 1)..Len(s) : s[i] \in Field
  BY <1>1, ElementOfSeq
<1>3. /\ Len(Rest(s, p)) = IF p + 1 <= Len(s) THEN Len(s) - (p + 1) + 1 ELSE 0
      /\ \A i \in 1..(Len(s) - (p + 1) + 1) : Rest(s, p)[i] = s[(p + 1) + i - 1]
  BY <1>1, <1>2, SubSeqProperties DEF Rest
<1>4. Len(Rest(s, p)) = Len(s) - p
  BY <1>1, <1>3
<1>5. ASSUME NEW i \in 1..(Len(s) - p)
      PROVE  Rest(s, p)[i] = s[p + i]
  <2>1. i \in 1..(Len(s) - (p + 1) + 1) /\ (p + 1) + i - 1 = p + i
    BY <1>1
  <2> QED
    BY <1>3, <2>1
<1> QED
  BY <1>1, <1>4, <1>5

\* Wherever a read ends, it is in the stream.
LEMMA ReadingStays ==
  ASSUME NEW s \in Seq(Field), NEW p \in 0..Len(s), NEW W \in SUBSET Seq(Field),
         NEW there, NEW where, NEW next, NEW onError,
         ReadsOn(s, p, W, there, where, next, onError)
  PROVE  there \in 0..Len(s) /\ there >= p /\ where \in {next, onError, "astray"}
<1>1. Len(s) \in Nat /\ Len(Rest(s, p)) = Len(s) - p
  BY RestIs
<1>2. CASE \E w \in Whole(W, Rest(s, p)) : there = p + Len(w) /\ where = next
  <2>1. PICK w \in Whole(W, Rest(s, p)) : there = p + Len(w) /\ where = next
    BY <1>2
  <2>2. w \in Seq(Field) /\ Len(w) <= Len(Rest(s, p))
    BY <2>1 DEF Whole
  <2>3. Len(w) \in Nat
    BY <2>2, LenProperties
  <2> QED
    BY <1>1, <2>1, <2>2, <2>3
<1>3. CASE there = Len(s) /\ where = onError
  BY <1>1, <1>3
<1>4. CASE where = "astray" /\ there = p
  BY <1>1, <1>4
<1> QED
  BY <1>2, <1>3, <1>4 DEF ReadsOn

\* Of layouts alike one that the fields r begin with, that one alone fits them.
LEMMA OneFits ==
  ASSUME NEW r, Len(r) \in Nat, NEW W, NEW a \in W, \A w \in W : Alike(w, a),
         \A i \in 1..Len(a) : i <= Len(r) => r[i] = a[i]
  PROVE  /\ Len(a) <= Len(r) => Whole(W, r) = {a}
         /\ Len(a) > Len(r) => Whole(W, r) = {} /\ a \in Short(W, r)
<1>1. a \in Seq(Field) /\ Len(a) \in Nat
  BY LenProperties DEF Alike
<1>2. Fits(a, r)
  <2>1. \A f : Accepts(f, f)
    BY DEF Accepts
  <2> QED
    BY <2>1 DEF Fits
<1>3. ASSUME NEW w \in W, Fits(w, r), Len(w) <= Len(r)
      PROVE  w = a
  <2>1. w \in Seq(Field) /\ Len(w) \in Nat
    BY LenProperties DEF Alike
  <2> SUFFICES ASSUME TellApart(w, a)
               PROVE  FALSE
    BY DEF Alike
  <2>2. PICK i \in 1..Len(a) : i <= Len(w) /\ ~Accepts(w[i], a[i])
    BY DEF TellApart
  <2>3. i \in 1..Len(w) /\ i <= Len(r)
    BY <1>1, <1>3, <2>1, <2>2
  <2>4. Accepts(w[i], r[i])
    BY <1>3, <2>3 DEF Fits
  <2> QED
    BY <2>2, <2>3, <2>4
<1>4. CASE Len(a) <= Len(r)
  <2>1. Whole(W, r) = {a}
    BY <1>2, <1>3, <1>4 DEF Whole
  <2> QED
    BY <1>1, <1>4, <2>1
<1>5. CASE Len(a) > Len(r)
  <2>1. Whole(W, r) = {}
    <3> SUFFICES ASSUME NEW w \in W, Fits(w, r), Len(w) <= Len(r)
                 PROVE  FALSE
      BY DEF Whole
    <3>1. w = a
      BY <1>3
    <3> QED
      BY <1>1, <1>5, <3>1
  <2>2. a \in Short(W, r)
    BY <1>2, <1>5 DEF Short
  <2> QED
    BY <1>1, <1>5, <2>1, <2>2
<1> QED
  BY <1>1, <1>4, <1>5

\* A read for layouts, one of which is in the stream and alike all of them, takes
\* that one, or what there is of it.
LEMMA ReadingFits ==
  ASSUME NEW s \in Seq(Field), NEW x \in Nat, NEW W, NEW a \in W,
         \A w \in W : Alike(w, a), Holds(s, x, a),
         NEW there, NEW where, NEW next, NEW onError,
         ReadsOn(s, Least(x, Len(s)), W, there, where, next, onError)
  PROVE  /\ there = Least(x + Len(a), Len(s))
         /\ \/ where = next
            \/ where = onError /\ x + Len(a) > Len(s)
<1> DEFINE p == Least(x, Len(s))
           r == Rest(s, p)
<1>1. Len(s) \in Nat /\ p \in 0..Len(s) /\ (x <= Len(s) => p = x) /\ (x > Len(s) => p = Len(s))
  BY LenProperties DEF Least
<1>2. /\ Len(r) = Len(s) - p
      /\ \A i \in 1..(Len(s) - p) : r[i] = s[p + i]
  BY <1>1, RestIs
<1>3. a \in Seq(Field) /\ Len(a) \in Nat
  BY LenProperties DEF Alike
<1>r. ReadsOn(s, p, W, there, where, next, onError)
  OBVIOUS
<1> HIDE DEF p, r
<1>4. \A i \in 1..Len(a) : i <= Len(r) => r[i] = a[i]
  <2> SUFFICES ASSUME NEW i \in 1..Len(a), i <= Len(r)
               PROVE  r[i] = a[i]
    OBVIOUS
  <2>1. x <= Len(s) /\ p = x /\ x + i <= Len(s) /\ i \in 1..(Len(s) - p)
    BY <1>1, <1>2, <1>3
  <2>2. s[x + i] = a[i]
    BY <1>3, <2>1 DEF Holds
  <2> QED
    BY <1>2, <2>1, <2>2
<1>5. Len(r) \in Nat
  BY <1>1, <1>2
<1>6. /\ Len(a) <= Len(r) => Whole(W, r) = {a}
      /\ Len(a) > Len(r) => Whole(W, r) = {} /\ a \in Short(W, r)
  BY <1>4, <1>5, OneFits
<1>7. CASE Len(a) <= Len(r)
  <2>2. there = p + Len(a) /\ where = next
    BY <1>r, <1>6, <1>7 DEF ReadsOn, r
  <2>3. p + Len(a) = Least(x + Len(a), Len(s))
    <3>1. CASE x <= Len(s)
      <4>1. p = x /\ x + Len(a) <= Len(s)
        BY <1>1, <1>2, <1>3, <1>7, <3>1
      <4> QED
        BY <4>1 DEF Least
    <3>2. CASE x > Len(s)
      <4>1. p = Len(s) /\ Len(a) = 0
        BY <1>1, <1>2, <1>3, <1>7, <3>2
      <4> QED
        BY <1>1, <3>2, <4>1 DEF Least
    <3> QED
      BY <1>1, <3>1, <3>2
  <2> QED
    BY <2>2, <2>3
<1>8. CASE Len(a) > Len(r)
  <2>3. there = Len(s) /\ where = onError
    BY <1>r, <1>6, <1>8 DEF ReadsOn, r
  <2>4. x + Len(a) > Len(s) /\ Least(x + Len(a), Len(s)) = Len(s)
    BY <1>1, <1>2, <1>3, <1>8 DEF Least
  <2> QED
    BY <2>3, <2>4
<1> QED
  BY <1>1, <1>2, <1>3, <1>7, <1>8

\* A stream that has two parts has the one and behind it the other.
LEMMA HoldsParts ==
  ASSUME NEW s \in Seq(Field), NEW x \in Nat, NEW a \in Seq(Field), NEW b \in Seq(Field),
         Holds(s, x, Cat(a, b))
  PROVE  Holds(s, x, a) /\ Holds(s, x + Len(a), b)
<1>1. /\ Len(a) \in Nat /\ Len(b) \in Nat
      /\ Len(Cat(a, b)) = Len(a) + Len(b)
      /\ \A i \in 1..Len(a) : Cat(a, b)[i] = a[i]
      /\ \A i \in (Len(a) + 1)..(Len(a) + Len(b)) : Cat(a, b)[i] = b[i - Len(a)]
  BY Joined
<1>2. Holds(s, x, a)
  <2> SUFFICES ASSUME NEW i \in 1..Len(a), x + i <= Len(s)
               PROVE  s[x + i] = a[i]
    BY DEF Holds
  <2>1. i \in 1..Len(Cat(a, b))
    BY <1>1
  <2> QED
    BY <1>1, <2>1 DEF Holds
<1>3. Holds(s, x + Len(a), b)
  <2> SUFFICES ASSUME NEW i \in 1..Len(b), (x + Len(a)) + i <= Len(s)
               PROVE  s[(x + Len(a)) + i] = b[i]
    BY DEF Holds
  <2> DEFINE j == Len(a) + i
  <2>1. /\ j \in 1..Len(Cat(a, b)) /\ j \in (Len(a) + 1)..(Len(a) + Len(b))
        /\ j - Len(a) = i /\ x + j = (x + Len(a)) + i
    BY <1>1
  <2> HIDE DEF j
  <2>2. s[x + j] = Cat(a, b)[j]
    BY <2>1 DEF Holds
  <2>3. Cat(a, b)[j] = b[i]
    BY <1>1, <2>1
  <2> QED
    BY <2>1, <2>2, <2>3
<1> QED
  BY <1>2, <1>3

-----------------------------------------------------------------------------
(* Calls.                                                                  *)

\* The fields of a call.
LEMMA CallFields ==
  ASSUME NEW c \in CallType
  PROVE  /\ c.op \in Ops \cup {"Unknown"} /\ c.n \in Counts
         /\ c.message \in Messages \cup {"none"} /\ c.answer \in Terminals
BY DEF CallType, Answers

\* A framed operation that can be read: what is skipped and one frame.
LEMMA FramedArguments ==
  ASSUME NEW c \in CallType, c.op \in FramedOps \ ComplexOps, NEW v \in Nat, v >= 23
  PROVE  Arguments(v, c) = SkipOpArgs(c.op, v, c.n) \o <<"framed">>
<1>1. c.op \in Ops /\ c.n \in Counts /\ c.op \notin ComplexOps \cup {"Unknown"}
  BY CallFields DEF FramedOps, ComplexOps, Ops, OtherOps
<1>2. CASE c.op = "AddToStore" /\ v < 25
  <2>1. SkipOpArgs(c.op, v, c.n) = <<"str", "u64", "u64", "str">>
    <3>1. ~(v >= 25)
      BY <1>2
    <3> QED
      BY <1>2, <3>1, Zenon DEF SkipOpArgs, PathOps, StringOps
  <2>2. Since(v, 23, <<"framed">>) = <<"framed">>
    BY DEF Since
  <2> QED
    BY <1>1, <1>2, <2>1, <2>2, Zenon DEF Arguments
<1>3. CASE ~(c.op = "AddToStore" /\ v < 25)
  <2>1. ~ReadsRaw(c.op, v)
    BY <1>1, <1>3 DEF ReadsRaw
  <2>2. Arguments(v, c) = SerializeOpArgs(c.op, v, c.n)
    BY <1>1, <1>3, Zenon DEF Arguments
  <2>3. SerializeOpArgs(c.op, v, c.n) = ReadOpArgs(c.op, v, c.n)
    BY <1>1, <2>1, WrittenIsRead
  <2>4. IsWith(ReadOpArgs(c.op, v, c.n), SkipOpArgs(c.op, v, c.n), "framed")
    BY <1>1, <2>1, FramedComesLast
  <2> DEFINE t == ReadOpArgs(c.op, v, c.n)
             s == SkipOpArgs(c.op, v, c.n)
  <2>5. t \in Seq(Field) /\ s \in Seq(Field) /\ "framed" \in Field
    BY <1>1, AlikeReadOpArgs, AlikeSkipOpArgs, Fields DEF Alike
  <2>6. Len(t) = Len(s) + 1 /\ (\A i \in 1..Len(s) : t[i] = s[i]) /\ t[Len(t)] = "framed"
    BY <2>4 DEF IsWith
  <2> HIDE DEF t, s
  <2>7. t = Append(s, "framed")
    <3>1. /\ Append(s, "framed") \in Seq(Field) /\ Len(Append(s, "framed")) = Len(s) + 1
          /\ \A i \in 1..Len(s) : Append(s, "framed")[i] = s[i]
          /\ Append(s, "framed")[Len(s) + 1] = "framed"
      BY <2>5, AppendProperties
    <3>2. Len(s) \in Nat
      BY <2>5, LenProperties
    <3>3. \A i \in 1..Len(t) : t[i] = Append(s, "framed")[i]
      BY <2>6, <3>1, <3>2
    <3> QED
      BY <2>5, <2>6, <3>1, <3>3, SeqEqual
  <2>8. Append(s, "framed") = s \o <<"framed">>
    BY <2>5, AppendIsConcat
  <2> QED
    BY <2>2, <2>3, <2>7, <2>8 DEF t, s
<1> QED
  BY <1>2, <1>3

\* One that is not framed: just what is skipped.
LEMMA PlainArguments ==
  ASSUME NEW c \in CallType, c.op \notin FramedOps \cup ComplexOps \cup {"Unknown"}, NEW v \in Nat
  PROVE  Arguments(v, c) = SkipOpArgs(c.op, v, c.n)
<1>1. c.op \in Ops \ (FramedOps \cup ComplexOps) /\ c.n \in Counts /\ c.op # "AddToStore"
  BY CallFields DEF FramedOps
<1>2. ~ReadsRaw(c.op, v)
  BY <1>1 DEF ReadsRaw
<1>3. Arguments(v, c) = SerializeOpArgs(c.op, v, c.n)
  BY <1>1, Zenon DEF Arguments
<1> QED
  BY <1>1, <1>2, <1>3, WrittenIsRead, SkippedIsRead

\* One that decompile reads: just what it reads.
LEMMA ReadArguments ==
  ASSUME NEW c \in CallType, c.op \notin ComplexOps \cup {"Unknown"}, NEW v \in Nat,
         ~ReadsRaw(c.op, v)
  PROVE  Arguments(v, c) = ReadOpArgs(c.op, v, c.n)
<1>1. c.op \in Ops /\ c.n \in Counts /\ ~(c.op = "AddToStore" /\ v < 25)
  BY CallFields DEF ReadsRaw
<1>2. Arguments(v, c) = SerializeOpArgs(c.op, v, c.n)
  BY <1>1, Zenon DEF Arguments
<1> QED
  BY <1>1, <1>2, WrittenIsRead

\* Their lengths only.
LEMMA JoinedSize ==
  ASSUME NEW S, NEW s \in Seq(S), NEW t \in Seq(S)
  PROVE  /\ Cat(s, t) \in Seq(S) /\ Len(s) \in Nat /\ Len(t) \in Nat
         /\ Len(Cat(s, t)) = Len(s) + Len(t)
BY Joined

\* One field and a sequence of them.
LEMMA OneAhead ==
  ASSUME NEW f \in Field, NEW s \in Seq(Field)
  PROVE  /\ <<f>> \in Seq(Field) /\ Cat(<<f>>, s) \in Seq(Field)
         /\ Len(<<f>>) = 1 /\ Len(s) \in Nat /\ Len(Cat(<<f>>, s)) = Len(s) + 1
<1> DEFINE x == <<f>>
<1>1. x \in Seq(Field) /\ Len(x) = 1
  OBVIOUS
<1> HIDE DEF x
<1>2. Cat(x, s) \in Seq(Field) /\ Len(Cat(x, s)) = Len(x) + Len(s) /\ Len(s) \in Nat
  BY <1>1, Joined
<1>3. Len(Cat(x, s)) = Len(s) + 1
  BY <1>1, <1>2
<1> QED
  BY <1>1, <1>2, <1>3 DEF x

\* What a call puts into the streams begins with its operation, and has its answer
\* behind what was raised.
LEMMA CallParts ==
  ASSUME NEW c \in CallType, NEW v \in Nat, Framed(v, c)
  PROVE  /\ Arguments(v, c) \in Seq(Field) /\ <<c.op>> \in Seq(Field)
         /\ Request(v, c) \in Seq(Field) /\ Request(v, c) = Cat(<<c.op>>, Arguments(v, c))
         /\ Len(Request(v, c)) = Len(Arguments(v, c)) + 1
         /\ Raised(c) \in Seq(Field) /\ <<c.answer>> \in Seq(Field)
         /\ Outcome(v, c) \in Seq(Field)
         /\ Answer(v, c) \in Seq(Field)
         /\ Answer(v, c) = Cat(Raised(c), Cat(<<c.answer>>, Outcome(v, c)))
         /\ Len(Answer(v, c)) = Len(Raised(c)) + 1 + Len(Outcome(v, c))
<1>1. /\ c.op \in Ops \cup {"Unknown"} /\ c.n \in Counts
      /\ c.message \in Messages \cup {"none"} /\ c.answer \in Terminals
  BY CallFields
<1>2. c.op \in Field /\ c.answer \in Field
  BY <1>1, Fields
<1>4. Arguments(v, c) \in Seq(Field)
  <2>1. CASE c.op \in ComplexOps \cup {"Unknown"}
    <3>1. Arguments(v, c) = <<"str">>
      BY <2>1, Zenon DEF Arguments, ComplexOps
    <3> QED
      BY <3>1, Fields
  <2>2. CASE c.op \notin FramedOps \cup ComplexOps \cup {"Unknown"}
    BY <1>1, <2>2, PlainArguments, AlikeSkipOpArgs DEF Alike
  <2>3. CASE c.op \in FramedOps \ ComplexOps
    <3>1. v >= 23
      BY <2>3 DEF Framed
    <3>2. Alike(<<"framed">>, <<"framed">>)
      BY AlikePlain
    <3>3. Alike(SkipOpArgs(c.op, v, c.n), SkipOpArgs(c.op, v, c.n))
      BY <1>1, AlikeSkipOpArgs
    <3>4. Alike(SkipOpArgs(c.op, v, c.n) \o <<"framed">>, SkipOpArgs(c.op, v, c.n) \o <<"framed">>)
      BY <3>2, <3>3, AlikeJoined
    <3> QED
      BY <2>3, <3>1, <3>4, FramedArguments DEF Alike
  <2> QED
    BY <2>1, <2>2, <2>3
<1>5. Raised(c) \in Seq(Field)
  <2>1. c.message # "none" => c.message \in Messages
    BY <1>1
  <2>2. c.message # "none" => <<c.message>> \o SkipStderrPayload(c.message, c.n) \in Seq(Field)
    BY <1>1, <2>1, AlikeMessage DEF Alike
  <2> QED
    BY <2>2, EmptySeq, Zenon DEF Raised
<1>6. Outcome(v, c) \in Seq(Field)
  <2>1. ErrorInfo(c.n) \in Seq(Field)
    BY <1>1, AlikeErrorInfo DEF Alike
  <2>2. ReadDaemonResult(c.op, v, c.n) \in Seq(Field) /\ <<"str">> \in Seq(Field)
    BY <1>1, AlikeReadDaemonResult, AlikePlain DEF Alike
  <2> QED
    BY <2>1, <2>2, Zenon DEF Outcome
<1> DEFINE u == Cat(<<c.answer>>, Outcome(v, c))
<1>7. u \in Seq(Field) /\ <<c.answer>> \in Seq(Field) /\ Len(u) = Len(Outcome(v, c)) + 1
        /\ Len(Outcome(v, c)) \in Nat
  BY <1>2, <1>6, OneAhead
<1>8. Request(v, c) = Cat(<<c.op>>, Arguments(v, c)) /\ Answer(v, c) = Cat(Raised(c), u)
  BY Zenon DEF Request, Answer, Cat
<1> HIDE DEF u
<1>9. /\ Request(v, c) \in Seq(Field) /\ <<c.op>> \in Seq(Field)
      /\ Len(Request(v, c)) = Len(Arguments(v, c)) + 1
  BY <1>2, <1>4, <1>8, OneAhead
<1>10. /\ Answer(v, c) \in Seq(Field) /\ Len(Raised(c)) \in Nat
       /\ Len(Answer(v, c)) = Len(Raised(c)) + Len(u)
  BY <1>5, <1>7, <1>8, JoinedSize
<1>11. Len(Answer(v, c)) = Len(Raised(c)) + 1 + Len(Outcome(v, c))
  BY <1>7, <1>10
<1> QED
  BY <1>4, <1>5, <1>6, <1>7, <1>8, <1>9, <1>10, <1>11, Zenon DEF u

-----------------------------------------------------------------------------
(* Streams that carry calls.                                               *)

\* The calls that can be made at version v, and what each puts into the streams.
Sayable(v) == {c \in CallType : Framed(v, c)}
RequestOf(v) == [c \in Sayable(v) |-> Request(v, c)]
AnswerOf(v) == [c \in Sayable(v) |-> Answer(v, c)]

Rising(ends) == \A j \in 1..Len(ends) : \A i \in 1..(j - 1) : ends[i] < ends[j]

\* Stream s carries the parts of calls cs one after the other, as their ends e
\* say, and goes on to the last of them unless it was cut.
Carries(s, e, cs, Part) ==
  /\ s \in Seq(Field) /\ e \in Seq(Nat) /\ Len(e) = Len(cs) + 1
  /\ Rising(e)
  /\ \A k \in 1..Len(cs) : /\ Holds(s, e[k], Part[cs[k]])
                           /\ e[k + 1] = e[k] + Len(Part[cs[k]])
  /\ Len(s) <= e[Len(cs) + 1]

\* Each part has at least one field.
Parts(C) == {P \in [C -> Seq(Field)] : \A c \in C : Len(P[c]) > 0}

\* What a call puts into a stream is a sequence of fields, and not empty.
LEMMA PartsOfCalls ==
  ASSUME NEW v \in Nat
  PROVE  RequestOf(v) \in Parts(Sayable(v)) /\ AnswerOf(v) \in Parts(Sayable(v))
<1>1. ASSUME NEW c \in Sayable(v)
      PROVE  /\ Request(v, c) \in Seq(Field) /\ Len(Request(v, c)) > 0
             /\ Answer(v, c) \in Seq(Field) /\ Len(Answer(v, c)) > 0
  <2>1. c \in CallType /\ Framed(v, c)
    BY DEF Sayable
  <2>2. /\ Request(v, c) \in Seq(Field) /\ Len(Request(v, c)) = Len(Arguments(v, c)) + 1
        /\ Arguments(v, c) \in Seq(Field)
    BY <2>1, CallParts
  <2>3. /\ Answer(v, c) \in Seq(Field)
        /\ Len(Answer(v, c)) = Len(Raised(c)) + 1 + Len(Outcome(v, c))
        /\ Raised(c) \in Seq(Field) /\ Outcome(v, c) \in Seq(Field)
    BY <2>1, CallParts
  <2>4. Len(Arguments(v, c)) \in Nat /\ Len(Raised(c)) \in Nat /\ Len(Outcome(v, c)) \in Nat
    BY <2>2, <2>3, LenProperties
  <2> QED
    BY <2>2, <2>3, <2>4
<1> QED
  BY <1>1 DEF Parts, RequestOf, AnswerOf

\* Ends are in order.
LEMMA EndsRise ==
  ASSUME NEW s, NEW e, NEW C, NEW P, NEW cs \in Seq(C), Carries(s, e, cs, P)
  PROVE  /\ Len(cs) \in Nat /\ Len(s) \in Nat
         /\ \A k \in 1..(Len(cs) + 1) : e[k] \in Nat
         /\ \A k \in 1..(Len(cs) + 1) : \A i \in 1..(k - 1) : e[i] < e[k]
         /\ Len(s) <= e[Len(cs) + 1]
<1>1. Len(cs) \in Nat /\ Len(s) \in Nat /\ Len(e) = Len(cs) + 1
  BY LenProperties DEF Carries
<1>2. \A k \in 1..(Len(cs) + 1) : e[k] \in Nat
  BY <1>1, ElementOfSeq DEF Carries
<1> QED
  BY <1>1, <1>2 DEF Carries, Rising

\* A call that is added at the end of a stream.
LEMMA CarriesMore ==
  ASSUME NEW C, NEW P \in Parts(C), NEW cs \in Seq(C), NEW c \in C,
         NEW s, NEW e, Carries(s, e, cs, P), Len(s) = e[Len(cs) + 1]
  PROVE  /\ Carries(Cat(s, P[c]), Append(e, Len(Cat(s, P[c]))), Append(cs, c), P)
         /\ Len(Append(cs, c)) = Len(cs) + 1
         /\ Append(e, Len(Cat(s, P[c])))[Len(Append(cs, c)) + 1] = Len(Cat(s, P[c]))
         /\ \A k \in 1..Len(e) : Append(e, Len(Cat(s, P[c])))[k] = e[k]
         /\ \A i \in 1..Len(s) : Cat(s, P[c])[i] = s[i]
<1> DEFINE p == P[c]
           t == Cat(s, p)
           f == Append(e, Len(t))
           ds == Append(cs, c)
           n == Len(cs)
<1>1. p \in Seq(Field) /\ Len(p) > 0 /\ s \in Seq(Field)
  BY DEF Parts, Carries
<1>2. /\ t \in Seq(Field) /\ Len(s) \in Nat /\ Len(p) \in Nat /\ Len(t) = Len(s) + Len(p)
      /\ \A i \in 1..Len(s) : t[i] = s[i]
      /\ \A i \in (Len(s) + 1)..(Len(s) + Len(p)) : t[i] = p[i - Len(s)]
  <2> HIDE DEF p
  <2> QED
    BY <1>1, Joined
<1>3. /\ n \in Nat /\ Len(ds) = n + 1 /\ ds[n + 1] = c /\ \A k \in 1..n : ds[k] = cs[k]
  BY AppendProperties, LenProperties
<1>4. /\ Len(e) = n + 1 /\ Len(s) <= e[n + 1] /\ e[n + 1] = Len(s)
      /\ \A k \in 1..(n + 1) : e[k] \in Nat
      /\ \A k \in 1..(n + 1) : \A i \in 1..(k - 1) : e[i] < e[k]
  BY EndsRise DEF Carries
<1>5. /\ f \in Seq(Nat) /\ Len(f) = n + 2 /\ f[n + 2] = Len(t)
      /\ \A k \in 1..(n + 1) : f[k] = e[k]
  <2>1. Len(t) \in Nat /\ e \in Seq(Nat)
    BY <1>2 DEF Carries
  <2> HIDE DEF t
  <2> QED
    BY <1>3, <1>4, <2>1, AppendProperties
<1>6. \A k \in 1..n : Holds(s, e[k], P[cs[k]]) /\ e[k + 1] = e[k] + Len(P[cs[k]])
  BY DEF Carries
<1>7. \A k \in 1..n : P[cs[k]] \in Seq(Field) /\ Len(P[cs[k]]) \in Nat
  BY ElementOfSeq, LenProperties DEF Parts
<1> HIDE DEF p, t, f, ds, n
<1>8. Rising(f)
  <2> SUFFICES ASSUME NEW k \in 1..(n + 2), NEW i \in 1..(k - 1)
               PROVE  f[i] < f[k]
    BY <1>3, <1>5 DEF Rising
  <2>1. CASE k <= n + 1
    BY <1>3, <1>4, <1>5, <2>1
  <2>2. CASE k = n + 2
    <3>1. f[i] = e[i] /\ e[i] \in Nat /\ i \in 1..(n + 1)
      BY <1>3, <1>4, <1>5, <2>2
    <3>2. e[i] <= e[n + 1]
      <4>1. i = n + 1 \/ i \in 1..((n + 1) - 1)
        BY <1>3, <3>1
      <4>2. n + 1 \in 1..(n + 1)
        BY <1>3
      <4> QED
        BY <1>4, <4>1, <4>2
    <3> QED
      BY <1>1, <1>2, <1>4, <1>5, <2>2, <3>1, <3>2
  <2> QED
    BY <1>3, <2>1, <2>2
<1>9. ASSUME NEW k \in 1..(n + 1)
      PROVE  Holds(t, f[k], P[ds[k]]) /\ f[k + 1] = f[k] + Len(P[ds[k]])
  <2>1. CASE k \in 1..n
    <3>1. /\ ds[k] = cs[k] /\ f[k] = e[k] /\ f[k + 1] = e[k + 1] /\ e[k] \in Nat
          /\ e[k + 1] \in Nat /\ k + 1 \in 1..(n + 1)
      BY <1>3, <1>4, <1>5, <2>1
    <3>2. Holds(s, e[k], P[cs[k]]) /\ e[k + 1] = e[k] + Len(P[cs[k]])
            /\ Len(P[cs[k]]) \in Nat
      BY <1>6, <1>7, <2>1
    <3>3. e[k + 1] <= Len(s)
      <4>1. k + 1 = n + 1 \/ k + 1 \in 1..((n + 1) - 1)
        BY <1>3, <3>1
      <4>2. n + 1 \in 1..(n + 1)
        BY <1>3
      <4> QED
        BY <1>4, <3>1, <4>1, <4>2
    <3>4. Holds(t, e[k], P[cs[k]])
      <4> SUFFICES ASSUME NEW i \in 1..Len(P[cs[k]])
                   PROVE  t[e[k] + i] = P[cs[k]][i]
        BY DEF Holds
      <4>0. i \in Nat /\ i > 0 /\ i <= Len(P[cs[k]])
        BY <3>2
      <4> DEFINE x == e[k]
                 m == Len(P[cs[k]])
                 y == e[k + 1]
      <4>1. x + i \in 1..Len(s) /\ x + i <= Len(s)
        <5>1. x \in Nat /\ y = x + m /\ m \in Nat /\ y <= Len(s) /\ Len(s) \in Nat /\ i <= m
          BY <1>2, <3>1, <3>2, <3>3, <4>0
        <5> HIDE DEF x, m, y
        <5> QED
          BY <4>0, <5>1
      <4> QED
        BY <1>2, <3>2, <4>1 DEF Holds
    <3> QED
      BY <3>1, <3>2, <3>4
  <2>2. CASE k = n + 1
    <3>1. ds[k] = c /\ f[k] = Len(s) /\ f[k + 1] = Len(t) /\ P[ds[k]] = p
      BY <1>3, <1>4, <1>5, <2>2 DEF p
    <3>2. Holds(t, Len(s), p)
      <4> SUFFICES ASSUME NEW i \in 1..Len(p)
                   PROVE  t[Len(s) + i] = p[i]
        BY DEF Holds
      <4>1. /\ Len(s) + i \in (Len(s) + 1)..(Len(s) + Len(p))
            /\ (Len(s) + i) - Len(s) = i
        BY <1>2
      <4> QED
        BY <1>2, <4>1
    <3> QED
      BY <1>2, <3>1, <3>2
  <2> QED
    BY <1>3, <2>1, <2>2
<1>10. Carries(t, f, ds, P)
  <2>1. Len(t) <= f[Len(ds) + 1] /\ Len(f) = Len(ds) + 1 /\ f[Len(ds) + 1] = Len(t)
    BY <1>2, <1>3, <1>5
  <2> QED
    BY <1>2, <1>3, <1>5, <1>8, <1>9, <2>1 DEF Carries
<1>11. Len(ds) = n + 1 /\ f[Len(ds) + 1] = Len(t) /\ \A k \in 1..Len(e) : f[k] = e[k]
  BY <1>3, <1>4, <1>5
<1> QED
  BY <1>2, <1>10, <1>11 DEF p, t, f, ds, n

\* A stream that is cut.
LEMMA CarriesCut ==
  ASSUME NEW C, NEW P \in Parts(C), NEW cs \in Seq(C),
         NEW s, NEW e, Carries(s, e, cs, P), NEW i \in 0..Len(s)
  PROVE  /\ Carries(SubSeq(s, 1, i), e, cs, P)
         /\ Len(SubSeq(s, 1, i)) = i
         /\ \A j \in 1..i : SubSeq(s, 1, i)[j] = s[j]
<1> DEFINE t == SubSeq(s, 1, i)
<1>1. s \in Seq(Field) /\ Len(s) \in Nat /\ i \in Nat /\ i <= Len(s)
  BY LenProperties DEF Carries
<1>2. t \in Seq(Field) /\ Len(t) = i /\ \A j \in 1..i : t[j] = s[j]
  <2>1. \A j \in 1..i : s[j] \in Field
    BY <1>1, ElementOfSeq
  <2>2. /\ t \in Seq(Field)
        /\ Len(t) = IF 1 <= i THEN i - 1 + 1 ELSE 0
        /\ \A j \in 1..(i - 1 + 1) : t[j] = s[1 + j - 1]
    BY <1>1, <2>1, SubSeqProperties
  <2>3. Len(t) = i
    BY <1>1, <2>2
  <2>4. ASSUME NEW j \in 1..i
        PROVE  t[j] = s[j]
    <3>1. j \in 1..(i - 1 + 1) /\ 1 + j - 1 = j
      BY <1>1
    <3> QED
      BY <2>2, <3>1
  <2> QED
    BY <2>2, <2>3, <2>4
<1> HIDE DEF t
<1>3. /\ Len(cs) \in Nat /\ \A k \in 1..(Len(cs) + 1) : e[k] \in Nat
      /\ Len(s) <= e[Len(cs) + 1]
  BY EndsRise
<1>4. ASSUME NEW k \in 1..Len(cs)
      PROVE  Holds(t, e[k], P[cs[k]])
  <2>1. Holds(s, e[k], P[cs[k]]) /\ P[cs[k]] \in Seq(Field) /\ e[k] \in Nat
    BY <1>3, ElementOfSeq DEF Carries, Parts
  <2> SUFFICES ASSUME NEW j \in 1..Len(P[cs[k]]), e[k] + j <= Len(t)
               PROVE  t[e[k] + j] = P[cs[k]][j]
    BY DEF Holds
  <2>2. e[k] + j \in 1..i /\ e[k] + j <= Len(s)
    BY <1>1, <1>2, <2>1, LenProperties
  <2> QED
    BY <1>2, <2>1, <2>2 DEF Holds
<1>5. Len(t) <= e[Len(cs) + 1]
  BY <1>1, <1>2, <1>3
<1>6. Carries(t, e, cs, P)
  BY <1>2, <1>4, <1>5 DEF Carries
<1> QED
  BY <1>2, <1>6 DEF t

\* Where a call's operation and arguments are.
LEMMA RequestAt ==
  ASSUME NEW v \in Nat, NEW s, NEW e, NEW cs \in Seq(Sayable(v)),
         Carries(s, e, cs, RequestOf(v)), NEW k \in 1..Len(cs)
  PROVE  /\ cs[k] \in CallType /\ Framed(v, cs[k])
         /\ e[k] \in Nat /\ Len(Arguments(v, cs[k])) \in Nat
         /\ Arguments(v, cs[k]) \in Seq(Field)
         /\ e[k + 1] = e[k] + 1 + Len(Arguments(v, cs[k]))
         /\ e[k] < Len(s) => s[e[k] + 1] = cs[k].op
         /\ Holds(s, e[k] + 1, Arguments(v, cs[k]))
<1> DEFINE c == cs[k]
           n == e[k]
           a == Arguments(v, c)
           x == <<c.op>>
<1>1. c \in Sayable(v) /\ c \in CallType /\ Framed(v, c)
  BY ElementOfSeq DEF Sayable
<1>2. n \in Nat /\ Len(s) \in Nat /\ s \in Seq(Field)
  BY EndsRise DEF Carries
<1>3. Holds(s, n, Request(v, c)) /\ e[k + 1] = n + Len(Request(v, c))
  BY <1>1 DEF Carries, RequestOf
<1>4. /\ a \in Seq(Field) /\ x \in Seq(Field)
      /\ Request(v, c) = Cat(x, a) /\ Len(Request(v, c)) = Len(a) + 1
  BY <1>1, CallParts
<1>5. Len(x) = 1 /\ x[1] = c.op
  OBVIOUS
<1> HIDE DEF c, n, a, x
<1>6. Holds(s, n, x) /\ Holds(s, n + Len(x), a)
  BY <1>2, <1>3, <1>4, HoldsParts
<1>7. Len(a) \in Nat
  BY <1>4, LenProperties
<1>8. n < Len(s) => s[n + 1] = c.op
  BY <1>2, <1>5, <1>6 DEF Holds
<1>9. Holds(s, n + 1, a) /\ e[k + 1] = n + 1 + Len(a)
  BY <1>2, <1>3, <1>4, <1>5, <1>6, <1>7
<1> QED
  BY <1>1, <1>2, <1>4, <1>7, <1>8, <1>9 DEF c, n, a

\* What is raised, and where it is.
LEMMA RaisedParts ==
  ASSUME NEW c \in CallType
  PROVE  /\ c.message = "none" => Raised(c) = <<>> /\ Len(Raised(c)) = 0
         /\ c.message # "none" =>
              /\ Raised(c) = <<c.message>> \o SkipStderrPayload(c.message, c.n)
              /\ c.message \in Messages /\ Len(Raised(c)) > 0 /\ Raised(c)[1] = c.message
         /\ Len(Raised(c)) > 0 => Raised(c)[1] \in Messages
<1>1. c.message \in Messages \cup {"none"} /\ c.n \in Counts
  BY CallFields
<1>2. CASE c.message = "none"
  <2>1. Raised(c) = <<>>
    BY <1>2 DEF Raised
  <2>2. Len(Raised(c)) = 0
    BY <2>1
  <2> HIDE DEF Raised
  <2>3. ~(Len(Raised(c)) > 0)
    BY <2>2
  <2> QED
    BY <1>2, <2>1, <2>2, <2>3
<1>3. CASE c.message # "none"
  <2> DEFINE m == <<c.message>>
             p == SkipStderrPayload(c.message, c.n)
  <2>1. Raised(c) = Cat(m, p)
    BY <1>3, Zenon DEF Raised, Cat
  <2>2. c.message \in Messages /\ c.message \in Field
    BY <1>1, <1>3, Fields
  <2>3. m \in Seq(Field) /\ Len(m) = 1 /\ m[1] = c.message
    BY <2>2
  <2>4. p \in Seq(Field)
    BY <1>1, <2>2, AlikePayload DEF Alike
  <2> HIDE DEF m, p
  <2>5. /\ Len(p) \in Nat /\ Len(Cat(m, p)) = Len(m) + Len(p)
        /\ \A i \in 1..Len(m) : Cat(m, p)[i] = m[i]
    BY <2>3, <2>4, Joined
  <2>6. Len(Cat(m, p)) > 0 /\ Cat(m, p)[1] = m[1]
    BY <2>3, <2>5
  <2> QED
    BY <1>3, <2>1, <2>2, <2>3, <2>6 DEF m, p, Cat
<1> QED
  BY <1>2, <1>3

\* Where a call's answer is, and what is raised in front of it.
LEMMA AnswerAt ==
  ASSUME NEW v \in Nat, NEW s, NEW e, NEW cs \in Seq(Sayable(v)),
         Carries(s, e, cs, AnswerOf(v)), NEW k \in 1..Len(cs)
  PROVE  /\ cs[k] \in CallType /\ Framed(v, cs[k])
         /\ e[k] \in Nat /\ Len(Raised(cs[k])) \in Nat
         /\ Len(Outcome(v, cs[k])) \in Nat
         /\ e[k + 1] = e[k] + Len(Raised(cs[k])) + 1 + Len(Outcome(v, cs[k]))
         /\ Holds(s, e[k], Raised(cs[k]))
         /\ Len(Raised(cs[k])) > 0 /\ e[k] < Len(s) => s[e[k] + 1] \in Messages
         /\ e[k] + Len(Raised(cs[k])) < Len(s) =>
              s[e[k] + Len(Raised(cs[k])) + 1] = cs[k].answer
         /\ Holds(s, e[k] + Len(Raised(cs[k])) + 1, Outcome(v, cs[k]))
<1> DEFINE c == cs[k]
           n == e[k]
           r == Raised(c)
           x == <<c.answer>>
           o == Outcome(v, c)
<1>1. c \in Sayable(v) /\ c \in CallType /\ Framed(v, c)
  BY ElementOfSeq DEF Sayable
<1>2. n \in Nat /\ Len(s) \in Nat /\ s \in Seq(Field)
  BY EndsRise DEF Carries
<1>3. Holds(s, n, Answer(v, c)) /\ e[k + 1] = n + Len(Answer(v, c))
  BY <1>1 DEF Carries, AnswerOf
<1>4. /\ r \in Seq(Field) /\ x \in Seq(Field) /\ o \in Seq(Field)
      /\ Answer(v, c) = Cat(r, Cat(x, o)) /\ Len(Answer(v, c)) = Len(r) + 1 + Len(o)
  BY <1>1, CallParts
<1>5. Len(x) = 1 /\ x[1] = c.answer
  OBVIOUS
<1>6. Len(r) > 0 => r[1] \in Messages
  BY <1>1, RaisedParts
<1> HIDE DEF c, n, r, x, o
<1>7. Cat(x, o) \in Seq(Field) /\ Len(r) \in Nat /\ Len(o) \in Nat
  BY <1>4, JoinedSize, LenProperties
<1>8. Holds(s, n, r) /\ Holds(s, n + Len(r), Cat(x, o))
  BY <1>2, <1>3, <1>4, <1>7, HoldsParts
<1>9. n + Len(r) \in Nat
  BY <1>2, <1>7
<1>10. Holds(s, n + Len(r), x) /\ Holds(s, (n + Len(r)) + Len(x), o)
  BY <1>2, <1>4, <1>8, <1>9, HoldsParts
<1>11. Len(r) > 0 /\ n < Len(s) => s[n + 1] \in Messages
  <2> SUFFICES ASSUME Len(r) > 0, n < Len(s)
               PROVE  s[n + 1] \in Messages
    OBVIOUS
  <2>1. 1 \in 1..Len(r) /\ n + 1 <= Len(s)
    BY <1>2, <1>7
  <2>2. s[n + 1] = r[1]
    BY <1>8, <2>1 DEF Holds
  <2> QED
    BY <1>6, <2>2
<1>12. n + Len(r) < Len(s) => s[n + Len(r) + 1] = c.answer
  <2> SUFFICES ASSUME n + Len(r) < Len(s)
               PROVE  s[n + Len(r) + 1] = c.answer
    OBVIOUS
  <2>1. 1 \in 1..Len(x) /\ (n + Len(r)) + 1 <= Len(s)
    BY <1>2, <1>5, <1>9
  <2> QED
    BY <1>5, <1>10, <2>1 DEF Holds
<1>13. Holds(s, n + Len(r) + 1, o)
  BY <1>5, <1>10
<1> QED
  BY <1>1, <1>2, <1>3, <1>4, <1>7, <1>8, <1>11, <1>12, <1>13 DEF c, n, r, o

-----------------------------------------------------------------------------
(* The invariant.                                                          *)

InHand == Loop \ {"op"}
Here == Len(listed) + 1
Hand == calls[Here]

\* A loop r understands call c, and the calls of cs up to the n-th.
Understands(r, c) ==
  /\ c.op \notin ComplexOps \cup {"Unknown"}
  /\ c.answer = "STDERR_LAST" \/ r = "decompile"
UnderstoodTo(r, cs, n) == \A i \in 1..n : i <= Len(cs) => Understands(r, cs[i])

\* The streams have the calls, all of them unless the recording was cut.
StreamInv ==
  /\ calls \in Seq(Sayable(Spoken)) /\ todo \in Seq(Sayable(Spoken))
  /\ Carries(client, cends, calls, RequestOf(Spoken))
  /\ Carries(daemon, dends, calls, AnswerOf(Spoken))
  /\ ~cut => /\ Len(client) = cends[Len(calls) + 1]
             /\ Len(daemon) = dends[Len(calls) + 1]

\* They begin with the handshake, of the version that the loops find in it.
GreetInv ==
  /\ pc = "greeting" => calls = <<>>
  /\ pc # "greeting" =>
       /\ Holds(client, 0, ParseHandshakeClient(Spoken, offers.affinity))
       /\ cends[1] = Len(ParseHandshakeClient(Spoken, offers.affinity))
       /\ Holds(daemon, 0, ParseHandshakeDaemon(Spoken))
       /\ dends[1] = Len(ParseHandshakeDaemon(Spoken))
  /\ pc \in {"greeting", "session"} => ~cut
  /\ pc \in {"greeting", "session", "handshake"} => cpos = 0 /\ dpos = 0 /\ listed = <<>>
  /\ pc \in Loop => version = Spoken

\* Between two calls.
OpInv ==
  pc = "op" /\ UnderstoodTo(reader, calls, Len(listed)) =>
    /\ Len(listed) <= Len(calls)
    /\ cpos = Least(cends[Here], Len(client))
    /\ dpos = Least(dends[Here], Len(daemon))

\* Within a call, at p: how much of either side has been consumed, to c and d.
PlacedAt(p, c, d) ==
  /\ p = "args" => c = cends[Here] + 1
  /\ p = "framed" =>
       /\ c = Least(cends[Here] + 1 + Len(SkipOpArgs(op, Spoken, Hand.n)), Len(client))
       /\ reader = "decompile" => ReadsRaw(op, Spoken)
  /\ p \in {"stderr", "error", "result"} => c = Least(cends[Here + 1], Len(client))
  /\ p \in {"args", "framed"} => d = Least(dends[Here], Len(daemon))
  /\ p = "stderr" =>
       d \in {Least(dends[Here], Len(daemon)),
              Least(dends[Here] + Len(Raised(Hand)), Len(daemon))}
  /\ p = "error" => reader = "decompile" /\ Hand.answer = "STDERR_ERROR"
  /\ p = "result" => Hand.answer = "STDERR_LAST"
  /\ p \in {"error", "result"} => d = dends[Here] + Len(Raised(Hand)) + 1
Placed == PlacedAt(pc, cpos, dpos)

HandInv ==
  /\ pc \in InHand /\ UnderstoodTo(reader, calls, Here) =>
       Here <= Len(calls) /\ op = Hand.op /\ Placed
  /\ pc = "astray" => ~UnderstoodTo(reader, calls, Here)

\* What is listed.  Where an end is missing the daemon's stream ends in front of
\* it, so that all behind it lack theirs.
ListedInv ==
  UnderstoodTo(reader, calls, Len(listed)) =>
    /\ Len(listed) <= Len(calls)
    /\ \A i \in 1..Len(listed) :
         /\ listed[i][1] = calls[i].op
         /\ \/ listed[i][2] = calls[i].answer
            \/ /\ cut /\ Len(daemon) <= dends[i + 1]
               /\ \A j \in i..Len(listed) : listed[j][2] = "none"

EndInv ==
  ~cut /\ UnderstoodTo(reader, calls, Len(calls)) =>
    pc # "failed" /\ (pc = "done" => Len(listed) = Len(calls))

\* stats has no unknown operation in hand, and has listed none.
KnownInv ==
  reader = "stats" =>
    /\ \A m \in 1..Len(listed) :
         UnderstoodTo(reader, calls, m - 1) => m <= Len(calls) /\ calls[m].op # "Unknown"
    /\ pc \in InHand \cup {"astray"} /\ UnderstoodTo(reader, calls, Len(listed)) =>
         Here <= Len(calls) /\ Hand.op # "Unknown"

PlaceInv == OpInv /\ HandInv /\ ListedInv /\ EndInv /\ KnownInv
IInv == TypeOK /\ StreamInv /\ GreetInv /\ PlaceInv

-----------------------------------------------------------------------------

\* The version of the session, as the loops compute it.
LEMMA SpokenIs ==
  ASSUME TypeOK
  PROVE  Spoken \in Nat /\ Negotiated(offers.client, offers.server) = Spoken
BY DEF TypeOK, Spoken, Least, Negotiated

\* The streams are what they were while they are read.
LEMMA StreamsStay ==
  ASSUME TypeOK, StreamInv, GreetInv, UNCHANGED <<session, client, daemon, cut>>,
         pc \notin {"greeting", "session"}, pc' \in Loop \cup Ended,
         pc' \in Loop => version' = Spoken
  PROVE  StreamInv' /\ GreetInv'
<1>1. /\ calls' = calls /\ todo' = todo /\ cends' = cends /\ dends' = dends
      /\ client' = client /\ daemon' = daemon /\ cut' = cut /\ offers' = offers
  BY DEF session
<1>2. Spoken' = Spoken
  BY <1>1 DEF Spoken
<1>3. StreamInv'
  <2>1. /\ calls' \in Seq(Sayable(Spoken')) /\ todo' \in Seq(Sayable(Spoken'))
        /\ Carries(client', cends', calls', RequestOf(Spoken'))
        /\ Carries(daemon', dends', calls', AnswerOf(Spoken'))
    BY <1>1, <1>2 DEF StreamInv
  <2>2. ~cut' => /\ Len(client') = cends'[Len(calls') + 1]
                 /\ Len(daemon') = dends'[Len(calls') + 1]
    BY <1>1, SMT DEF StreamInv, TypeOK
  <2> QED
    BY <2>1, <2>2, Zenon DEF StreamInv
<1>4. pc' \notin {"greeting", "session", "handshake"} /\ pc # "greeting"
  BY DEF Loop, Ended
<1> QED
  BY <1>1, <1>2, <1>3, <1>4, Zenon DEF GreetInv

\* A call that is understood, in the streams and in hand.
LEMMA HandFacts ==
  ASSUME IInv, pc \in InHand, UnderstoodTo(reader, calls, Here)
  PROVE  /\ Here \in 1..Len(calls) /\ Len(listed) \in Nat
         /\ Hand \in CallType /\ Framed(Spoken, Hand) /\ Understands(reader, Hand)
         /\ op = Hand.op /\ op \in Ops \ ComplexOps /\ Hand.n \in Counts
         /\ version = Spoken /\ Spoken \in Nat /\ Placed
         /\ client \in Seq(Field) /\ daemon \in Seq(Field)
         /\ Len(client) \in Nat /\ Len(daemon) \in Nat
<1>1. /\ calls \in Seq(Sayable(Spoken)) /\ Spoken \in Nat
      /\ client \in Seq(Field) /\ daemon \in Seq(Field)
  BY SpokenIs DEF IInv, StreamInv, Carries
<1>2. Len(listed) \in Nat /\ Len(calls) \in Nat /\ Len(client) \in Nat /\ Len(daemon) \in Nat
  BY <1>1, LenProperties DEF IInv, TypeOK
<1>3. Here <= Len(calls) /\ op = Hand.op /\ Placed
  BY DEF IInv, PlaceInv, HandInv
<1>4. Here \in 1..Len(calls)
  BY <1>2, <1>3 DEF Here
<1>5. Hand \in Sayable(Spoken)
  BY <1>1, <1>4, ElementOfSeq DEF Hand
<1>6. Hand \in CallType /\ Framed(Spoken, Hand)
  BY <1>5 DEF Sayable
<1>7. Understands(reader, Hand)
  BY <1>2, <1>4 DEF UnderstoodTo, Hand, Here
<1>8. Hand.op \in Ops \cup {"Unknown"} /\ Hand.n \in Counts
  BY <1>6, CallFields
<1>9. op \in Ops \ ComplexOps
  BY <1>3, <1>7, <1>8 DEF Understands
<1>10. version = Spoken
  BY DEF IInv, GreetInv, InHand
<1> QED
  BY <1>1, <1>2, <1>3, <1>4, <1>6, <1>7, <1>8, <1>9, <1>10

\* Where it ends, if the recording is whole.
LEMMA EndsAhead ==
  ASSUME IInv, NEW k \in 1..Len(calls)
  PROVE  /\ cends[k] \in Nat /\ cends[k + 1] \in Nat /\ dends[k] \in Nat /\ dends[k + 1] \in Nat
         /\ ~cut => cends[k + 1] <= Len(client) /\ dends[k + 1] <= Len(daemon)
         /\ \A i \in 1..(k - 1) : dends[i + 1] <= dends[k]
<1>1. /\ calls \in Seq(Sayable(Spoken))
      /\ Carries(client, cends, calls, RequestOf(Spoken))
      /\ Carries(daemon, dends, calls, AnswerOf(Spoken))
  BY DEF IInv, StreamInv
<1>2. /\ Len(calls) \in Nat
      /\ \A i \in 1..(Len(calls) + 1) : cends[i] \in Nat
      /\ \A i \in 1..(Len(calls) + 1) : \A j \in 1..(i - 1) : cends[j] < cends[i]
  BY <1>1, EndsRise
<1>3. /\ \A i \in 1..(Len(calls) + 1) : dends[i] \in Nat
      /\ \A i \in 1..(Len(calls) + 1) : \A j \in 1..(i - 1) : dends[j] < dends[i]
  BY <1>1, EndsRise
<1>4. /\ k \in 1..(Len(calls) + 1) /\ k + 1 \in 1..(Len(calls) + 1)
      /\ Len(calls) + 1 \in 1..(Len(calls) + 1)
      /\ k + 1 = Len(calls) + 1 \/ k + 1 \in 1..((Len(calls) + 1) - 1)
  BY <1>2
<1>5. cends[k + 1] <= cends[Len(calls) + 1] /\ dends[k + 1] <= dends[Len(calls) + 1]
  BY <1>2, <1>3, <1>4
<1>6. ASSUME NEW i \in 1..(k - 1)
      PROVE  dends[i + 1] <= dends[k]
  <2>1. i + 1 = k \/ i + 1 \in 1..(k - 1)
    BY <1>2
  <2> QED
    BY <1>3, <1>4, <2>1
<1>7. ~cut => /\ Len(client) = cends[Len(calls) + 1]
              /\ Len(daemon) = dends[Len(calls) + 1]
  BY DEF IInv, StreamInv
<1> QED
  BY <1>2, <1>3, <1>4, <1>5, <1>6, <1>7

-----------------------------------------------------------------------------
(* One turn of a loop.                                                     *)

\* Understanding more is understanding less.
LEMMA UnderstoodLess ==
  ASSUME NEW r, NEW cs, NEW n \in Nat, NEW m \in Nat, m <= n, UnderstoodTo(r, cs, n)
  PROVE  UnderstoodTo(r, cs, m)
BY DEF UnderstoodTo

\* Where all calls are understood, they are up to any place.
LEMMA AllIsTo ==
  ASSUME NEW r, NEW cs, Len(cs) \in Nat, UnderstoodTo(r, cs, Len(cs)), NEW n
  PROVE  UnderstoodTo(r, cs, n)
<1> SUFFICES ASSUME NEW i \in 1..n, i <= Len(cs)
             PROVE  Understands(r, cs[i])
  BY DEF UnderstoodTo
<1>1. i \in 1..Len(cs)
  OBVIOUS
<1> QED
  BY <1>1 DEF UnderstoodTo

\* A turn leaves the call in hand, or ends early at a cut.
GoesOn ==
  \/ pc' \in InHand /\ Placed'
  \/ pc' \in {"done", "failed"} /\ cut

\* Such a turn keeps all that is said of places and lists.
LEMMA StaysInHand ==
  ASSUME IInv, pc \in InHand, UNCHANGED <<session, client, daemon, cut, reader, op, listed>>,
         pc' \in InHand \cup Ended,
         UnderstoodTo(reader, calls, Here) => GoesOn
  PROVE  PlaceInv'
<1>1. /\ calls' = calls /\ cends' = cends /\ dends' = dends /\ client' = client
      /\ daemon' = daemon /\ reader' = reader /\ listed' = listed /\ op' = op
      /\ cut' = cut
  BY DEF session
<1>3. Here' = Here /\ Hand' = Hand
  BY <1>1 DEF Here, Hand
<1>4. pc' # "op" /\ ("astray" \notin InHand) /\ "done" \notin InHand /\ "failed" \notin InHand
  BY DEF InHand, Loop, Ended
<1>5. OpInv'
  BY <1>4 DEF OpInv
<1>6. HandInv'
  <2>1. HandInv
    BY DEF IInv, PlaceInv
  <2>2. ASSUME pc' \in InHand, UnderstoodTo(reader', calls', Here')
        PROVE  Here' <= Len(calls') /\ op' = Hand'.op /\ Placed'
    <3>1. UnderstoodTo(reader, calls, Here)
      BY <1>1, <1>3, <2>2
    <3>2. Placed'
      BY <1>4, <2>2, <3>1 DEF GoesOn
    <3>3. Here <= Len(calls) /\ op = Hand.op
      BY <2>1, <3>1 DEF HandInv
    <3> QED
      BY <1>1, <1>3, <3>2, <3>3
  <2>3. ASSUME pc' = "astray", UnderstoodTo(reader', calls', Here')
        PROVE  FALSE
    BY <1>1, <1>3, <1>4, <2>3 DEF GoesOn
  <2> QED
    BY <2>2, <2>3 DEF HandInv
<1>7. ListedInv'
  BY <1>1, SMT DEF IInv, PlaceInv, ListedInv, TypeOK
<1>8. EndInv'
  <2> SUFFICES ASSUME ~cut', UnderstoodTo(reader', calls', Len(calls')),
                      pc' = "failed" \/ pc' = "done"
               PROVE  FALSE
    BY Zenon DEF EndInv
  <2>1. UnderstoodTo(reader, calls, Len(calls)) /\ Len(calls) \in Nat
    BY <1>1, LenProperties DEF IInv, TypeOK
  <2>2. UnderstoodTo(reader, calls, Here)
    BY <2>1, AllIsTo
  <2>3. ~cut
    <3>1. ASSUME cut
          PROVE  cut'
      BY <1>1, <3>1, Zenon
    <3> QED
      BY <3>1, Zenon
  <2>4. pc' \notin InHand
    BY <1>4
  <2> QED
    BY <2>2, <2>3, <2>4, Zenon DEF GoesOn
<1>9. KnownInv'
  <2>1. KnownInv
    BY DEF IInv, PlaceInv
  <2> QED
    BY <1>1, <1>3, <2>1 DEF KnownInv
<1> QED
  BY <1>5, <1>6, <1>7, <1>8, <1>9 DEF PlaceInv

\* A turn that lists the call in hand.
LEMMA ListsCall ==
  ASSUME IInv, pc \in InHand, UNCHANGED <<session, client, daemon, cut, reader, op>>,
         NEW end, listed' = Append(listed, <<NamedAs, end>>), pc' = "op",
         end \in Terminals \cup {"none"},
         UnderstoodTo(reader, calls, Here) => /\ cpos' = Least(cends[Here + 1], Len(client))
                               /\ dpos' = Least(dends[Here + 1], Len(daemon))
                               /\ \/ end = Hand.answer /\ dends[Here] < Len(daemon)
                                  \/ end = "none" /\ Len(daemon) < dends[Here + 1]
  PROVE  PlaceInv'
<1>1. /\ calls' = calls /\ cends' = cends /\ dends' = dends /\ client' = client
      /\ daemon' = daemon /\ reader' = reader /\ op' = op /\ cut' = cut
  BY DEF session
<1> DEFINE T == (Ops \cup {"Unknown"}) \X (Terminals \cup {"none"})
<1>3. listed \in Seq(T) /\ <<NamedAs, end>> \in T
  BY DEF IInv, TypeOK, NamedAs, Ops, PathOps
<1>4. /\ Len(listed) \in Nat /\ Len(listed') = Len(listed) + 1
      /\ \A i \in 1..Len(listed) : listed'[i] = listed[i]
      /\ listed'[Here] = <<NamedAs, end>>
  <2> HIDE DEF T
  <2> QED
    BY <1>3, AppendProperties, LenProperties DEF Here
<1>5. Len(listed') = Here /\ Here' = Here + 1 /\ Here \in Nat
  BY <1>4 DEF Here
<1>6. ASSUME UnderstoodTo(reader, calls, Here)
      PROVE  Here <= Len(calls) /\ op = Hand.op /\ NamedAs = op
  <2>1. /\ op \in Ops \ ComplexOps /\ Here \in 1..Len(calls)
        /\ op = Hand.op /\ Understands(reader, Hand)
    BY <1>6, HandFacts
  <2>2. op # "Unknown"
    BY <2>1 DEF Understands
  <2> QED
    BY <2>1, <2>2 DEF NamedAs
<1>7. OpInv'
  <2> SUFFICES ASSUME UnderstoodTo(reader', calls', Len(listed'))
               PROVE  /\ Len(listed') <= Len(calls')
                      /\ cpos' = Least(cends'[Here'], Len(client'))
                      /\ dpos' = Least(dends'[Here'], Len(daemon'))
    BY DEF OpInv
  <2>1. UnderstoodTo(reader, calls, Here)
    BY <1>1, <1>5
  <2> QED
    BY <1>1, <1>5, <1>6, <2>1
<1>8. HandInv'
  BY DEF HandInv, InHand
<1>9. ListedInv'
  <2> SUFFICES ASSUME UnderstoodTo(reader', calls', Len(listed')), NEW i \in 1..Len(listed')
               PROVE  /\ Len(listed') <= Len(calls')
                      /\ listed'[i][1] = calls'[i].op
                      /\ \/ listed'[i][2] = calls'[i].answer
                         \/ /\ cut' /\ Len(daemon') <= dends'[i + 1]
                            /\ \A j \in i..Len(listed') : listed'[j][2] = "none"
    BY <1>1, <1>5, <1>6, Zenon DEF ListedInv
  <2>1. UnderstoodTo(reader, calls, Here) /\ UnderstoodTo(reader, calls, Len(listed))
    BY <1>1, <1>4, <1>5, UnderstoodLess
  <2>2. Here \in 1..Len(calls) /\ op = Hand.op /\ NamedAs = op
    BY <1>4, <1>5, <1>6, <2>1
  <2>3. /\ ~cut => dends[Here + 1] <= Len(daemon)
        /\ \A j \in 1..(Here - 1) : dends[j + 1] <= dends[Here]
        /\ dends[Here] \in Nat /\ dends[Here + 1] \in Nat
    BY <2>2, EndsAhead
  <2>4. Len(daemon) \in Nat
    BY <2>1, HandFacts
  <2>5. CASE i = Here
    <3>1. listed'[i][1] = calls[i].op /\ listed'[i][2] = end
      BY <1>4, <2>2, <2>5 DEF Hand
    <3>2. CASE end = Hand.answer
      BY <1>1, <1>5, <2>2, <2>5, <3>1, <3>2 DEF Hand
    <3>3. CASE end = "none" /\ Len(daemon) < dends[Here + 1]
      <4>1. cut
        BY <2>3, <2>4, <3>3
      <4>2. Len(daemon) <= dends[i + 1]
        BY <2>3, <2>4, <2>5, <3>3
      <4>3. \A j \in i..Len(listed') : listed'[j][2] = "none"
        BY <1>5, <2>5, <3>1, <3>3
      <4>4. /\ Len(listed') <= Len(calls') /\ listed'[i][1] = calls'[i].op
            /\ Len(daemon') <= dends'[i + 1]
        BY <1>1, <1>5, <2>2, <3>1, <4>2
      <4>5. cut'
        BY <1>1, <4>1, Zenon
      <4> QED
        BY <4>3, <4>4, <4>5, Zenon
    <3> QED
      BY <2>1, <3>2, <3>3
  <2>6. CASE i # Here
    <3>1. i \in 1..Len(listed) /\ i \in 1..(Here - 1) /\ listed'[i] = listed[i]
      BY <1>4, <1>5, <2>6 DEF Here
    <3>2. /\ listed[i][1] = calls[i].op
          /\ \/ listed[i][2] = calls[i].answer
             \/ /\ cut /\ Len(daemon) <= dends[i + 1]
                /\ \A j \in i..Len(listed) : listed[j][2] = "none"
      BY <2>1, <3>1, Zenon DEF IInv, PlaceInv, ListedInv
    <3>3. CASE listed[i][2] = calls[i].answer
      BY <1>1, <1>5, <2>2, <3>1, <3>2, <3>3
    <3>4. CASE /\ cut /\ Len(daemon) <= dends[i + 1]
               /\ \A j \in i..Len(listed) : listed[j][2] = "none"
      <4>1. Len(daemon) <= dends[Here]
        <5>1. dends[i + 1] \in Nat
          BY <2>2, <3>1, EndsAhead
        <5> QED
          BY <2>3, <2>4, <3>1, <3>4, <5>1
      <4>2. end = "none"
        BY <2>1, <2>3, <2>4, <4>1
      <4>3. ASSUME NEW j \in i..Len(listed')
            PROVE  listed'[j][2] = "none"
        <5>1. CASE j = Here
          BY <1>4, <4>2, <5>1
        <5>2. CASE j # Here
          <6>1. j \in i..Len(listed) /\ j \in 1..Len(listed)
            BY <1>4, <1>5, <3>1, <5>2 DEF Here
          <6> QED
            BY <1>4, <3>4, <6>1
        <5> QED
          BY <5>1, <5>2
      <4>4. /\ Len(listed') <= Len(calls') /\ listed'[i][1] = calls'[i].op
            /\ Len(daemon') <= dends'[i + 1]
        BY <1>1, <1>5, <2>2, <3>1, <3>2, <3>4
      <4>5. cut'
        <5>1. cut
          BY <3>4, Zenon
        <5> QED
          BY <1>1, <5>1, Zenon
      <4> QED
        BY <4>3, <4>4, <4>5, Zenon
    <3> QED
      BY <3>2, <3>3, <3>4, Zenon
  <2> QED
    BY <2>5, <2>6
<1>10. EndInv'
  BY DEF EndInv
<1>11. KnownInv'
  <2>1. KnownInv
    BY DEF IInv, PlaceInv
  <2> SUFFICES ASSUME reader' = "stats", NEW m \in 1..Len(listed'),
                      UnderstoodTo(reader', calls', m - 1)
               PROVE  m <= Len(calls') /\ calls'[m].op # "Unknown"
    BY DEF KnownInv, InHand
  <2>2. CASE m = Here
    <3>1. UnderstoodTo(reader, calls, Len(listed))
      BY <1>1, <1>4, <2>2 DEF Here
    <3> QED
      BY <1>1, <2>1, <2>2, <3>1 DEF KnownInv, Hand
  <2>3. CASE m # Here
    <3>1. m \in 1..Len(listed) /\ UnderstoodTo(reader, calls, m - 1)
      BY <1>1, <1>4, <1>5, <2>3 DEF Here
    <3> QED
      BY <1>1, <2>1, <3>1 DEF KnownInv
  <2> QED
    BY <2>2, <2>3
<1> QED
  BY <1>7, <1>8, <1>9, <1>10, <1>11 DEF PlaceInv

\* Reading leaves the session as it is, and stays in the streams.
LEMMA TypesStay ==
  ASSUME TypeOK, UNCHANGED <<session, client, daemon, cut, reader>>,
         pc' \in Loop \cup Ended,
         version' \in {version, Negotiated(offers.client, offers.server)},
         cpos' \in 0..Len(client), dpos' \in 0..Len(daemon),
         op' \in Ops \cup {"Unknown"},
         listed' \in Seq((Ops \cup {"Unknown"}) \X (Terminals \cup {"none"}))
  PROVE  TypeOK'
<1>1. /\ calls' = calls /\ todo' = todo /\ cends' = cends /\ dends' = dends
      /\ client' = client /\ daemon' = daemon /\ cut' = cut /\ offers' = offers
      /\ mayCut' = mayCut /\ reader' = reader
  BY DEF session
<1>2. version' \in {0, Negotiated(offers.client, offers.server)}
  BY DEF TypeOK
<1> QED
  BY <1>1, <1>2 DEF TypeOK

\* A turn of a loop that has a call in hand: what is left to show of it.
LEMMA TurnStays ==
  ASSUME IInv, pc \in InHand,
         UNCHANGED <<session, client, daemon, cut, reader, version, op>>,
         pc' \in Loop \cup Ended,
         cpos' \in 0..Len(client), dpos' \in 0..Len(daemon),
         \/ UNCHANGED listed
         \/ \E end \in Terminals \cup {"none"} : listed' = Append(listed, <<NamedAs, end>>),
         PlaceInv'
  PROVE  IInv'
<1>1. TypeOK /\ StreamInv /\ GreetInv
  BY DEF IInv
<1>2. /\ version' = version /\ op' = op /\ op \in Ops \cup {"Unknown"}
      /\ listed \in Seq((Ops \cup {"Unknown"}) \X (Terminals \cup {"none"}))
  BY <1>1 DEF TypeOK
<1>3. listed' \in Seq((Ops \cup {"Unknown"}) \X (Terminals \cup {"none"}))
  <2>1. "IsValidPath" \in Ops
    BY DEF Ops, PathOps
  <2> DEFINE T == (Ops \cup {"Unknown"}) \X (Terminals \cup {"none"})
  <2>2. \A end \in Terminals \cup {"none"} : <<NamedAs, end>> \in T
    BY <1>2, <2>1 DEF NamedAs
  <2>3. listed \in Seq(T)
    BY <1>2
  <2> HIDE DEF T
  <2>4. ASSUME NEW end \in Terminals \cup {"none"}, listed' = Append(listed, <<NamedAs, end>>)
        PROVE  listed' \in Seq(T)
    BY <2>2, <2>3, <2>4, AppendProperties
  <2>5. listed' \in Seq(T)
    BY <2>3, <2>4
  <2> QED
    BY <2>5 DEF T
<1>4. TypeOK'
  BY <1>1, <1>2, <1>3, TypesStay
<1>5. pc \notin {"greeting", "session"} /\ pc \in Loop
  BY DEF InHand, Loop
<1>6. version = Spoken
  BY <1>1, <1>5 DEF GreetInv
<1>7. StreamInv' /\ GreetInv'
  BY <1>1, <1>2, <1>5, <1>6, StreamsStay
<1> QED
  BY <1>4, <1>7 DEF IInv

\* What can come of an error.
LEMMA OnErrorIs ==
  ASSUME TypeOK, NEW place, NEW next
  PROVE  /\ OnError(place, next) \in {next, "done", "failed"}
         /\ OnError("args", next) \in {next, "done"} \/ reader = "decompile"
         /\ reader = "decompile" =>
              OnError(place, next) = IF place = "result" THEN next ELSE "failed"
         /\ OnError("stderr", next) \in {"done", "failed"}
         /\ OnError("error", next) \in {next, "done", "failed"}
         /\ OnError("result", next) \in {next, "done"}
BY DecodeAssumption
   DEF TypeOK, OnError, DecodeOnError, ReplayOnError, StatsOnError, DecompileOnError

\* The version that a loop has found is a number.
LEMMA VersionIs ==
  ASSUME TypeOK
  PROVE  version \in Nat
BY DEF TypeOK, Negotiated

\* The layouts of a read are sequences of fields, and alike.
LEMMA LayoutsAre ==
  ASSUME NEW v \in Nat, NEW o
  PROVE  /\ {ReadOpArgs(o, v, n) : n \in Counts} \in SUBSET Seq(Field)
         /\ {SkipOpArgs(o, v, n) : n \in Counts} \in SUBSET Seq(Field)
         /\ {ReadDaemonResult(o, v, n) : n \in Counts} \in SUBSET Seq(Field)
         /\ o \in Ops => {SkipDaemonResult(o, v, n) : n \in Counts} \in SUBSET Seq(Field)
         /\ {ErrorInfo(n) : n \in Counts} \in SUBSET Seq(Field)
         /\ o \in Messages =>
              {<<o>> \o SkipStderrPayload(o, n) : n \in Counts} \in SUBSET Seq(Field)
         /\ {<<"framed">>} \in SUBSET Seq(Field)
<1>1. \A n \in Counts : ReadOpArgs(o, v, n) \in Seq(Field)
  BY AlikeReadOpArgs DEF Alike
<1>2. \A n \in Counts : SkipOpArgs(o, v, n) \in Seq(Field)
  BY AlikeSkipOpArgs DEF Alike
<1>3. \A n \in Counts : ReadDaemonResult(o, v, n) \in Seq(Field)
  BY AlikeReadDaemonResult DEF Alike
<1>4. o \in Ops => \A n \in Counts : SkipDaemonResult(o, v, n) \in Seq(Field)
  BY AlikeSkipDaemonResult DEF Alike
<1>5. \A n \in Counts : ErrorInfo(n) \in Seq(Field)
  BY AlikeErrorInfo DEF Alike
<1>6. o \in Messages => \A n \in Counts : <<o>> \o SkipStderrPayload(o, n) \in Seq(Field)
  BY AlikeMessage DEF Alike
<1>7. <<"framed">> \in Seq(Field)
  BY AlikePlain DEF Alike
<1> QED
  BY <1>1, <1>2, <1>3, <1>4, <1>5, <1>6, <1>7, Zenon

\* The streams behind a call in hand.
LEMMA HandRequest ==
  ASSUME IInv, pc \in InHand, UnderstoodTo(reader, calls, Here)
  PROVE  /\ cends[Here] \in Nat /\ Len(Arguments(Spoken, Hand)) \in Nat
         /\ Arguments(Spoken, Hand) \in Seq(Field)
         /\ cends[Here + 1] = cends[Here] + 1 + Len(Arguments(Spoken, Hand))
         /\ Holds(client, cends[Here] + 1, Arguments(Spoken, Hand))
         /\ cends[Here + 1] \in Nat /\ (~cut => cends[Here + 1] <= Len(client))
<1>1. Here \in 1..Len(calls) /\ Spoken \in Nat
  BY HandFacts
<1>2. calls \in Seq(Sayable(Spoken)) /\ Carries(client, cends, calls, RequestOf(Spoken))
  BY DEF IInv, StreamInv
<1>3. cends[Here + 1] \in Nat /\ (~cut => cends[Here + 1] <= Len(client))
  BY <1>1, EndsAhead
<1>4. /\ cends[Here] \in Nat /\ Len(Arguments(Spoken, calls[Here])) \in Nat
      /\ Arguments(Spoken, calls[Here]) \in Seq(Field)
      /\ cends[Here + 1] = cends[Here] + 1 + Len(Arguments(Spoken, calls[Here]))
      /\ Holds(client, cends[Here] + 1, Arguments(Spoken, calls[Here]))
  BY <1>1, <1>2, RequestAt
<1> QED
  BY <1>3, <1>4, Zenon DEF Hand

\* And what the daemon answers to it: messages, an end, and what comes with it.
LEMMA HandAnswer ==
  ASSUME IInv, pc \in InHand, UnderstoodTo(reader, calls, Here)
  PROVE  /\ dends[Here] \in Nat /\ Len(Raised(Hand)) \in Nat
         /\ Len(Outcome(Spoken, Hand)) \in Nat
         /\ dends[Here + 1] = dends[Here] + Len(Raised(Hand)) + 1 + Len(Outcome(Spoken, Hand))
         /\ Holds(daemon, dends[Here], Raised(Hand))
         /\ Len(Raised(Hand)) > 0 /\ dends[Here] < Len(daemon) =>
              daemon[dends[Here] + 1] \in Messages
         /\ dends[Here] + Len(Raised(Hand)) < Len(daemon) =>
              daemon[dends[Here] + Len(Raised(Hand)) + 1] = Hand.answer
         /\ Holds(daemon, dends[Here] + Len(Raised(Hand)) + 1, Outcome(Spoken, Hand))
         /\ dends[Here + 1] \in Nat /\ (~cut => dends[Here + 1] <= Len(daemon))
<1>1. Here \in 1..Len(calls) /\ Spoken \in Nat
  BY HandFacts
<1>2. calls \in Seq(Sayable(Spoken)) /\ Carries(daemon, dends, calls, AnswerOf(Spoken))
  BY DEF IInv, StreamInv
<1>3. dends[Here + 1] \in Nat /\ (~cut => dends[Here + 1] <= Len(daemon))
  BY <1>1, EndsAhead
<1> DEFINE c == calls[Here]
<1>4. /\ dends[Here] \in Nat /\ Len(Raised(c)) \in Nat
      /\ Len(Outcome(Spoken, c)) \in Nat
      /\ dends[Here + 1] = dends[Here] + Len(Raised(c)) + 1 + Len(Outcome(Spoken, c))
      /\ Holds(daemon, dends[Here], Raised(c))
      /\ Len(Raised(c)) > 0 /\ dends[Here] < Len(daemon) => daemon[dends[Here] + 1] \in Messages
      /\ dends[Here] + Len(Raised(c)) < Len(daemon) =>
           daemon[dends[Here] + Len(Raised(c)) + 1] = c.answer
      /\ Holds(daemon, dends[Here] + Len(Raised(c)) + 1, Outcome(Spoken, c))
  BY <1>1, <1>2, AnswerAt
<1> QED
  BY <1>3, <1>4, Zenon DEF Hand

-----------------------------------------------------------------------------
(* The turns that read what the client sent.                               *)

\* What has not changed need not be looked at twice.
LEMMA PlacedThen ==
  ASSUME UNCHANGED <<session, client, daemon, reader, op, listed>>,
         PlacedAt(pc', cpos', dpos')
  PROVE  Placed'
<1>1. /\ calls' = calls /\ cends' = cends /\ dends' = dends /\ client' = client
      /\ daemon' = daemon /\ reader' = reader /\ listed' = listed /\ op' = op
      /\ offers' = offers
  BY DEF session
<1>2. Here' = Here /\ Hand' = Hand /\ Spoken' = Spoken
  BY <1>1 DEF Here, Hand, Spoken
<1> QED
  BY <1>1, <1>2 DEF Placed, PlacedAt

\* Before arguments and answers are read.
LEMMA InTheStreams ==
  ASSUME IInv
  PROVE  /\ client \in Seq(Field) /\ daemon \in Seq(Field)
         /\ Len(client) \in Nat /\ Len(daemon) \in Nat
         /\ cpos \in 0..Len(client) /\ dpos \in 0..Len(daemon)
         /\ version \in Nat /\ op \in Ops \cup {"Unknown"}
<1>1. client \in Seq(Field) /\ daemon \in Seq(Field)
  BY DEF IInv, StreamInv, Carries
<1>2. cpos \in 0..Len(client) /\ dpos \in 0..Len(daemon) /\ op \in Ops \cup {"Unknown"}
  BY DEF IInv, TypeOK
<1>3. version \in Nat
  BY VersionIs DEF IInv
<1> QED
  BY <1>1, <1>2, <1>3, LenProperties

\* What is skipped of the arguments is what they begin with, and all of them unless
\* a frame follows.
LEMMA SkippedAhead ==
  ASSUME NEW c \in CallType, NEW v \in Nat, Framed(v, c), c.op \in Ops \ ComplexOps,
         NEW s \in Seq(Field), NEW x \in Nat, Holds(s, x, Arguments(v, c)),
         SkipOpArgs(c.op, v, c.n) \in Seq(Field)
  PROVE  /\ Holds(s, x, SkipOpArgs(c.op, v, c.n))
         /\ x + Len(SkipOpArgs(c.op, v, c.n)) <= x + Len(Arguments(v, c))
         /\ IF c.op \in FramedOps
              THEN /\ v >= 23 /\ Holds(s, x + Len(SkipOpArgs(c.op, v, c.n)), <<"framed">>)
                   /\ Len(Arguments(v, c)) = Len(SkipOpArgs(c.op, v, c.n)) + 1
              ELSE Len(Arguments(v, c)) = Len(SkipOpArgs(c.op, v, c.n))
<1> DEFINE a == SkipOpArgs(c.op, v, c.n)
<1>1. a \in Seq(Field) /\ Len(a) \in Nat
  BY LenProperties
<1>2. CASE c.op \in FramedOps
  <2> DEFINE f == <<"framed">>
  <2>1. v >= 23
    BY <1>2 DEF Framed
  <2>2. Arguments(v, c) = Cat(a, f)
    BY <1>2, <2>1, FramedArguments DEF Cat
  <2>3. f \in Seq(Field) /\ Len(f) = 1
    BY AlikePlain DEF Alike
  <2> HIDE DEF a, f
  <2>4. Holds(s, x, a) /\ Holds(s, x + Len(a), f) /\ Len(Cat(a, f)) = Len(a) + Len(f)
    BY <1>1, <2>2, <2>3, HoldsParts, JoinedSize
  <2>5. Len(Arguments(v, c)) = Len(a) + 1 /\ x + Len(a) <= x + Len(Arguments(v, c))
    BY <1>1, <2>2, <2>3, <2>4
  <2> QED
    BY <1>2, <2>1, <2>4, <2>5, Zenon DEF a, f
<1>3. CASE c.op \notin FramedOps
  <2>1. c.op \notin FramedOps \cup ComplexOps \cup {"Unknown"}
    BY <1>3 DEF Ops, PathOps, StringOps, NoArgOps, ComplexOps, OtherOps
  <2>2. Arguments(v, c) = a
    BY <2>1, PlainArguments
  <2> HIDE DEF a
  <2>3. x + Len(a) <= x + Len(Arguments(v, c))
    BY <1>1, <2>2
  <2> QED
    BY <1>3, <2>2, <2>3 DEF a
<1> QED
  BY <1>2, <1>3

\* decompile reads arguments, the others skip them.
LEMMA ArgsStep ==
  ASSUME IInv, ReadArgs
  PROVE  IInv'
<1> DEFINE R == {ReadOpArgs(op, version, n) : n \in Counts}
           S == {SkipOpArgs(op, version, n) : n \in Counts}
           err == IF reader = "decompile" THEN "framed" ELSE OnError("args", "framed")
<1>1. /\ pc = "args" /\ pc \in InHand /\ version' = version /\ dpos' = dpos
      /\ UNCHANGED <<session, client, daemon, cut, reader, op, listed>>
  BY DEF ReadArgs, InHand, Loop
<1>2. CASE reader = "decompile" /\ ~ReadsRaw(op, version)
  <2>1. ReadsOn(client, cpos, R, cpos', pc', "stderr", OnError("args", "stderr"))
    BY <1>2 DEF ReadArgs, FromClient, Layouts, ReadsOn
  <2>2. OnError("args", "stderr") = "failed"
    BY <1>2, OnErrorIs DEF IInv
  <2>3. R \in SUBSET Seq(Field)
    BY InTheStreams, LayoutsAre
  <2> HIDE DEF R
  <2>4. cpos' \in 0..Len(client) /\ pc' \in {"stderr", "failed", "astray"}
    BY <2>1, <2>2, <2>3, InTheStreams, ReadingStays
  <2>5. ASSUME UnderstoodTo(reader, calls, Here)
        PROVE  GoesOn
    <3> DEFINE a == ReadOpArgs(op, version, Hand.n)
               x == cends[Here] + 1
    <3>1. /\ Hand \in CallType /\ Understands(reader, Hand) /\ op = Hand.op
          /\ Hand.n \in Counts /\ version = Spoken /\ Spoken \in Nat /\ Placed
      BY <1>1, <2>5, HandFacts
    <3>2. a = Arguments(Spoken, Hand)
      BY <1>2, <3>1, ReadArguments DEF Understands
    <3>3. /\ x \in Nat /\ Len(a) \in Nat /\ cends[Here + 1] = x + Len(a) /\ Holds(client, x, a)
          /\ cends[Here + 1] \in Nat /\ (~cut => cends[Here + 1] <= Len(client))
      BY <1>1, <2>5, <3>2, HandRequest
    <3>4. a \in R /\ \A w \in R : Alike(w, a)
      BY <3>1, AlikeReadOpArgs DEF R
    <3>5. cpos = x /\ cpos = Least(x, Len(client)) /\ dpos = Least(dends[Here], Len(daemon))
      <4>1. cpos = x /\ dpos = Least(dends[Here], Len(daemon))
        BY <1>1, <3>1 DEF Placed, PlacedAt
      <4> HIDE DEF x
      <4> QED
        BY <4>1, InTheStreams DEF Least
    <3> HIDE DEF a, x
    <3>6. /\ cpos' = Least(x + Len(a), Len(client))
          /\ pc' = "stderr" \/ (pc' = "failed" /\ x + Len(a) > Len(client))
      <4>1. ReadsOn(client, Least(x, Len(client)), R, cpos', pc', "stderr", "failed")
        BY <2>1, <2>2, <3>5
      <4>2. /\ client \in Seq(Field) /\ x \in Nat /\ Holds(client, x, a)
            /\ a \in R /\ \A w \in R : Alike(w, a)
        BY <3>3, <3>4, InTheStreams
      <4> QED
        BY <4>1, <4>2, ReadingFits
    <3>7. CASE pc' = "stderr"
      <4>1. PlacedAt(pc', cpos', dpos')
        BY <1>1, <3>3, <3>5, <3>6, <3>7 DEF PlacedAt
      <4>2. Placed'
        BY <1>1, <4>1, PlacedThen
      <4> QED
        BY <3>7, <4>2 DEF InHand, Loop, GoesOn
    <3>8. CASE pc' = "failed" /\ x + Len(a) > Len(client)
      <4>1. cut
        BY <3>3, <3>8, InTheStreams
      <4> QED
        BY <3>8, <4>1, Zenon DEF GoesOn
    <3> QED
      BY <3>6, <3>7, <3>8
  <2>6. pc' \in InHand \cup Ended /\ pc' \in Loop \cup Ended
    BY <2>4 DEF InHand, Loop, Ended
  <2>7. PlaceInv'
    BY <1>1, <2>5, <2>6, StaysInHand
  <2> QED
    BY <1>1, <2>4, <2>6, <2>7, InTheStreams, TurnStays
<1>3. CASE ~(reader = "decompile" /\ ~ReadsRaw(op, version))
  <2>1. ReadsOn(client, cpos, S, cpos', pc', "framed", err)
    BY <1>3 DEF ReadArgs, FromClient, Layouts, ReadsOn
  <2>2. err \in {"framed", "done"}
    BY OnErrorIs DEF IInv
  <2>3. S \in SUBSET Seq(Field)
    BY InTheStreams, LayoutsAre
  <2> HIDE DEF S, err
  <2>4. cpos' \in 0..Len(client) /\ pc' \in {"framed", "done", "astray"}
    BY <2>1, <2>2, <2>3, InTheStreams, ReadingStays
  <2>5. ASSUME UnderstoodTo(reader, calls, Here)
        PROVE  GoesOn
    <3> DEFINE a == SkipOpArgs(op, version, Hand.n)
               x == cends[Here] + 1
    <3>1. /\ Hand \in CallType /\ Understands(reader, Hand) /\ op = Hand.op
          /\ Hand.n \in Counts /\ version = Spoken /\ Spoken \in Nat /\ Placed
          /\ Framed(Spoken, Hand) /\ op \in Ops \ ComplexOps
      BY <1>1, <2>5, HandFacts
    <3>2. a \in S /\ \A w \in S : Alike(w, a)
      BY <3>1, AlikeSkipOpArgs DEF S
    <3>3. /\ x \in Nat /\ cends[Here + 1] = x + Len(Arguments(Spoken, Hand))
          /\ Holds(client, x, Arguments(Spoken, Hand))
          /\ cends[Here + 1] \in Nat /\ (~cut => cends[Here + 1] <= Len(client))
      BY <1>1, <2>5, HandRequest
    <3>4. a \in Seq(Field) /\ Len(a) \in Nat
      BY <3>2, LenProperties DEF Alike
    <3>5. Holds(client, x, a) /\ x + Len(a) <= cends[Here + 1]
      <4>1. a = SkipOpArgs(Hand.op, Spoken, Hand.n) /\ Hand.op \in Ops \ ComplexOps
        BY <3>1
      <4> HIDE DEF a, x
      <4> QED
        BY <3>1, <3>3, <3>4, <4>1, InTheStreams, SkippedAhead
    <3>6. cpos = x /\ cpos = Least(x, Len(client)) /\ dpos = Least(dends[Here], Len(daemon))
      <4>1. cpos = x /\ dpos = Least(dends[Here], Len(daemon))
        BY <1>1, <3>1 DEF Placed, PlacedAt
      <4> HIDE DEF x
      <4> QED
        BY <4>1, InTheStreams DEF Least
    <3>7. a = SkipOpArgs(op, Spoken, Hand.n)
      BY <3>1
    <3> HIDE DEF a
    <3>8. /\ cpos' = Least(x + Len(a), Len(client))
          /\ pc' = "framed" \/ (pc' = "done" /\ x + Len(a) > Len(client))
      <4> HIDE DEF x
      <4>1. ReadsOn(client, Least(x, Len(client)), S, cpos', pc', "framed", err)
        BY <2>1, <3>6
      <4>2. /\ client \in Seq(Field) /\ x \in Nat /\ Holds(client, x, a)
            /\ a \in S /\ \A w \in S : Alike(w, a)
        BY <3>2, <3>3, <3>5, InTheStreams
      <4>3. /\ cpos' = Least(x + Len(a), Len(client))
            /\ pc' = "framed" \/ (pc' = err /\ x + Len(a) > Len(client))
        BY <4>1, <4>2, ReadingFits
      <4> QED
        BY <2>2, <4>3
    <3>9. CASE pc' = "framed"
      <4>1. reader = "decompile" => ReadsRaw(op, Spoken)
        BY <1>3, <3>1
      <4>2. PlacedAt(pc', cpos', dpos')
        BY <1>1, <3>6, <3>7, <3>8, <3>9, <4>1 DEF PlacedAt
      <4>3. Placed'
        BY <1>1, <4>2, PlacedThen
      <4> QED
        BY <3>9, <4>3 DEF InHand, Loop, GoesOn
    <3>10. CASE pc' = "done" /\ x + Len(a) > Len(client)
      <4>1. cut
        <5> HIDE DEF x
        <5> QED
          BY <3>3, <3>4, <3>5, <3>10, InTheStreams
      <4> QED
        BY <3>10, <4>1, Zenon DEF GoesOn
    <3> QED
      BY <3>8, <3>9, <3>10
  <2>6. pc' \in InHand \cup Ended /\ pc' \in Loop \cup Ended
    BY <2>4 DEF InHand, Loop, Ended
  <2>7. PlaceInv'
    BY <1>1, <2>5, <2>6, StaysInHand
  <2> QED
    BY <1>1, <2>4, <2>6, <2>7, InTheStreams, TurnStays
<1> QED
  BY <1>2, <1>3

\* Reading a frame that is there.
LEMMA FrameFits ==
  ASSUME NEW s \in Seq(Field), NEW x \in Nat, Holds(s, x, <<"framed">>),
         NEW there, NEW where, NEW next, NEW onError,
         ReadsOn(s, Least(x, Len(s)), {<<"framed">>}, there, where, next, onError)
  PROVE  /\ there = Least(x + 1, Len(s))
         /\ \/ where = next
            \/ where = onError /\ x + 1 > Len(s)
<1> DEFINE f == <<"framed">>
           W == {f}
<1>1. f \in W /\ (\A w \in W : Alike(w, f)) /\ Holds(s, x, f)
  BY AlikePlain
<1>2. ReadsOn(s, Least(x, Len(s)), W, there, where, next, onError)
  OBVIOUS
<1>3. Len(f) = 1
  OBVIOUS
<1> HIDE DEF f, W
<1>4. /\ there = Least(x + Len(f), Len(s))
      /\ where = next \/ (where = onError /\ x + Len(f) > Len(s))
  BY <1>1, <1>2, ReadingFits
<1> QED
  BY <1>3, <1>4

\* A framed operation has its data behind its arguments.
LEMMA FramedStep ==
  ASSUME IInv, ReadFramed
  PROVE  IInv'
<1> DEFINE W == {<<"framed">>}
           err == OnError("framed", "stderr")
<1>1. /\ pc = "framed" /\ pc \in InHand /\ version' = version /\ dpos' = dpos
      /\ UNCHANGED <<session, client, daemon, cut, reader, op, listed>>
  BY DEF ReadFramed, InHand, Loop
<1>2. \/ /\ version >= 23 /\ op \in FramedOps
         /\ ReadsOn(client, cpos, W, cpos', pc', "stderr", err)
      \/ /\ ~(version >= 23 /\ op \in FramedOps)
         /\ pc' = "stderr" /\ cpos' = cpos
  BY DEF ReadFramed, FromClient, ReadsOn
<1>3. err \in {"stderr", "done", "failed"} /\ W \in SUBSET Seq(Field)
  BY OnErrorIs, InTheStreams, LayoutsAre DEF IInv
<1> HIDE DEF W, err
<1>4. cpos' \in 0..Len(client) /\ pc' \in {"stderr", "done", "failed", "astray"}
  <2>1. CASE ReadsOn(client, cpos, W, cpos', pc', "stderr", err)
    BY <1>3, <2>1, InTheStreams, ReadingStays
  <2> QED
    BY <1>2, <2>1, InTheStreams
<1>5. ASSUME UnderstoodTo(reader, calls, Here)
      PROVE  GoesOn
  <2> DEFINE a == SkipOpArgs(op, Spoken, Hand.n)
             f == <<"framed">>
             y == cends[Here] + 1
             x == y + Len(a)
  <2>1. /\ Hand \in CallType /\ op = Hand.op /\ Hand.n \in Counts
        /\ version = Spoken /\ Spoken \in Nat /\ Placed
        /\ Framed(Spoken, Hand) /\ op \in Ops \ ComplexOps
    BY <1>1, <1>5, HandFacts
  <2>2. /\ y \in Nat /\ cends[Here + 1] = y + Len(Arguments(Spoken, Hand))
        /\ Holds(client, y, Arguments(Spoken, Hand))
        /\ cends[Here + 1] \in Nat /\ (~cut => cends[Here + 1] <= Len(client))
    BY <1>1, <1>5, HandRequest
  <2>3. a \in Seq(Field) /\ Len(a) \in Nat
    BY <2>1, AlikeSkipOpArgs, LenProperties DEF Alike
  <2>4. IF op \in FramedOps
          THEN /\ Spoken >= 23 /\ Holds(client, x, f)
               /\ Len(Arguments(Spoken, Hand)) = Len(a) + 1
          ELSE Len(Arguments(Spoken, Hand)) = Len(a)
    <3>1. a = SkipOpArgs(Hand.op, Spoken, Hand.n) /\ Hand.op \in Ops \ ComplexOps
      BY <2>1
    <3> HIDE DEF a, y
    <3> QED
      BY <2>1, <2>2, <2>3, <3>1, InTheStreams, SkippedAhead
  <2>5. cpos = Least(x, Len(client)) /\ dpos = Least(dends[Here], Len(daemon))
    BY <1>1, <2>1 DEF Placed, PlacedAt
  <2>6. ASSUME pc' = "stderr", cpos' = Least(cends[Here + 1], Len(client))
        PROVE  GoesOn
    <3>1. PlacedAt(pc', cpos', dpos')
      BY <1>1, <2>5, <2>6 DEF PlacedAt
    <3>2. Placed'
      BY <1>1, <3>1, PlacedThen
    <3> QED
      BY <2>6, <3>2 DEF InHand, Loop, GoesOn
  <2> HIDE DEF a, y
  <2>7. CASE version >= 23 /\ op \in FramedOps
    <3>1. x \in Nat /\ Holds(client, x, f) /\ x + 1 = cends[Here + 1]
      BY <2>2, <2>3, <2>4, <2>7
    <3>2. ReadsOn(client, Least(x, Len(client)), W, cpos', pc', "stderr", err)
      BY <1>2, <2>5, <2>7
    <3>3. /\ cpos' = Least(x + 1, Len(client))
          /\ pc' = "stderr" \/ (pc' = err /\ x + 1 > Len(client))
      <4>1. client \in Seq(Field) /\ x \in Nat /\ Holds(client, x, <<"framed">>)
        BY <3>1, InTheStreams
      <4>2. ReadsOn(client, Least(x, Len(client)), {<<"framed">>}, cpos', pc', "stderr", err)
        BY <3>2 DEF W
      <4> HIDE DEF x
      <4> QED
        BY <4>1, <4>2, FrameFits
    <3>5. cpos' = Least(cends[Here + 1], Len(client))
      BY <3>1, <3>3
    <3>6. CASE pc' \in {"done", "failed"} /\ x + 1 > Len(client)
      <4>1. cut
        BY <2>2, <3>1, <3>6, InTheStreams
      <4> QED
        BY <3>6, <4>1, Zenon DEF GoesOn
    <3> QED
      BY <1>3, <2>6, <3>3, <3>5, <3>6
  <2>8. CASE ~(version >= 23 /\ op \in FramedOps)
    <3>1. op \notin FramedOps
      BY <2>1, <2>4, <2>8
    <3>2. cends[Here + 1] = x
      BY <2>2, <2>4, <3>1
    <3> QED
      BY <1>2, <2>5, <2>6, <2>8, <3>2
  <2> QED
    BY <2>7, <2>8
<1>6. pc' \in InHand \cup Ended /\ pc' \in Loop \cup Ended
  BY <1>4 DEF InHand, Loop, Ended
<1>7. PlaceInv'
  BY <1>1, <1>5, <1>6, StaysInHand
<1> QED
  BY <1>1, <1>4, <1>6, <1>7, InTheStreams, TurnStays

\* A message from the daemon, with its payload.
LEMMA MessageStep ==
  ASSUME IInv, ReadMessage
  PROVE  IInv'
<1> DEFINE code == daemon[dpos + 1]
           W == {<<code>> \o SkipStderrPayload(code, n) : n \in Counts}
           err == OnError("stderr", "stderr")
<1>1. /\ pc = "stderr" /\ pc \in InHand /\ version' = version /\ cpos' = cpos
      /\ UNCHANGED <<session, client, daemon, cut, reader, op, listed>>
      /\ dpos < Len(daemon) /\ code \in Messages
  BY DEF ReadMessage, InHand, Loop
<1>2. ReadsOn(daemon, dpos, W, dpos', pc', "stderr", err)
  BY DEF ReadMessage, FromDaemon, Layouts, ReadsOn
<1>3. err \in {"done", "failed"} /\ W \in SUBSET Seq(Field)
  <2>1. err \in {"done", "failed"}
    BY OnErrorIs DEF IInv
  <2> HIDE DEF code
  <2>2. W \in SUBSET Seq(Field)
    BY <1>1, InTheStreams, LayoutsAre
  <2> QED
    BY <2>1, <2>2
<1> HIDE DEF W, err
<1>4. dpos' \in 0..Len(daemon) /\ pc' \in {"stderr", "done", "failed", "astray"}
  BY <1>2, <1>3, InTheStreams, ReadingStays
<1>5. ASSUME UnderstoodTo(reader, calls, Here)
      PROVE  GoesOn
  <2> DEFINE a == Raised(Hand)
             x == dends[Here]
  <2>1. Hand \in CallType /\ Placed /\ Hand.n \in Counts
    BY <1>1, <1>5, HandFacts
  <2>2. /\ x \in Nat /\ Len(a) \in Nat /\ Holds(daemon, x, a)
        /\ Len(Outcome(Spoken, Hand)) \in Nat
        /\ dends[Here + 1] = x + Len(a) + 1 + Len(Outcome(Spoken, Hand))
        /\ x + Len(a) < Len(daemon) => daemon[x + Len(a) + 1] = Hand.answer
        /\ ~cut => dends[Here + 1] <= Len(daemon)
    BY <1>1, <1>5, HandAnswer
  <2>3. /\ cpos = Least(cends[Here + 1], Len(client))
        /\ dpos \in {Least(x, Len(daemon)), Least(x + Len(a), Len(daemon))}
    BY <1>1, <2>1 DEF Placed, PlacedAt
  <2>4. Hand.answer \notin Messages /\ Hand.message \in Messages \cup {"none"}
    BY <2>1, CallFields DEF Messages, Terminals
  <2>5. /\ Hand.message = "none" => Len(a) = 0
        /\ Hand.message # "none" =>
             /\ a = <<Hand.message>> \o SkipStderrPayload(Hand.message, Hand.n)
             /\ Hand.message \in Messages /\ Len(a) > 0 /\ a[1] = Hand.message
    BY <2>1, RaisedParts
  <2> HIDE DEF a, x
  <2>6. dpos = x /\ Len(a) # 0
    <3>1. dpos # x + Len(a)
      BY <1>1, <2>2, <2>4
    <3> QED
      BY <1>1, <2>2, <2>3, <3>1, InTheStreams DEF Least
  <2>7. code = Hand.message
    <3>1. 1 \in 1..Len(a) /\ x + 1 <= Len(daemon)
      BY <1>1, <2>2, <2>6, InTheStreams
    <3> QED
      BY <2>2, <2>5, <2>6, <3>1 DEF Holds
  <2>8. a = <<code>> \o SkipStderrPayload(code, Hand.n)
    BY <1>1, <2>5, <2>6, <2>7
  <2>9. a \in W /\ \A w \in W : Alike(w, a)
    BY <1>1, <2>1, <2>8, AlikeMessage DEF W
  <2>10. ReadsOn(daemon, Least(x, Len(daemon)), W, dpos', pc', "stderr", err)
    <3>1. Least(x, Len(daemon)) = dpos
      BY <1>1, <2>2, <2>6, InTheStreams DEF Least
    <3> QED
      BY <1>2, <3>1
  <2>11. /\ dpos' = Least(x + Len(a), Len(daemon))
         /\ pc' = "stderr" \/ (pc' = err /\ x + Len(a) > Len(daemon))
    BY <2>2, <2>9, <2>10, InTheStreams, ReadingFits
  <2>12. CASE pc' = "stderr"
    <3>1. PlacedAt(pc', cpos', dpos')
      BY <1>1, <2>3, <2>11, <2>12 DEF PlacedAt, x, a
    <3>2. Placed'
      BY <1>1, <3>1, PlacedThen
    <3> QED
      BY <2>12, <3>2 DEF InHand, Loop, GoesOn
  <2>13. CASE pc' \in {"done", "failed"} /\ x + Len(a) > Len(daemon)
    <3>1. cut
      BY <2>2, <2>13, InTheStreams
    <3> QED
      BY <2>13, <3>1, Zenon DEF GoesOn
  <2> QED
    BY <1>3, <2>11, <2>12, <2>13
<1>6. pc' \in InHand \cup Ended /\ pc' \in Loop \cup Ended
  BY <1>4 DEF InHand, Loop, Ended
<1>7. PlaceInv'
  BY <1>1, <1>5, <1>6, StaysInHand
<1> QED
  BY <1>1, <1>4, <1>6, <1>7, InTheStreams, TurnStays

-----------------------------------------------------------------------------
(* And those that read what the daemon sent.                               *)

\* In the stderr loop of a call: what is next in the daemon's stream.
LEMMA AtStderr ==
  ASSUME IInv, pc = "stderr", UnderstoodTo(reader, calls, Here)
  PROVE  /\ cpos = Least(cends[Here + 1], Len(client))
         /\ dends[Here] \in Nat /\ Len(Raised(Hand)) \in Nat /\ dends[Here + 1] \in Nat
         /\ dends[Here] + Len(Raised(Hand)) < dends[Here + 1]
         /\ dpos < Len(daemon) =>
              \/ daemon[dpos + 1] \in Messages
              \/ /\ dpos = dends[Here] + Len(Raised(Hand))
                 /\ daemon[dpos + 1] = Hand.answer
         /\ ~(dpos < Len(daemon)) => /\ dpos = Len(daemon)
                                     /\ Len(daemon) < dends[Here + 1]
<1> DEFINE x == dends[Here]
           r == Len(Raised(Hand))
<1>1. pc \in InHand
  BY DEF InHand, Loop
<1>2. /\ x \in Nat /\ r \in Nat /\ Len(Outcome(Spoken, Hand)) \in Nat
      /\ dends[Here + 1] = x + r + 1 + Len(Outcome(Spoken, Hand))
      /\ r > 0 /\ x < Len(daemon) => daemon[x + 1] \in Messages
      /\ x + r < Len(daemon) => daemon[x + r + 1] = Hand.answer
  BY <1>1, HandAnswer
<1>3. /\ cpos = Least(cends[Here + 1], Len(client))
      /\ dpos \in {Least(x, Len(daemon)), Least(x + r, Len(daemon))}
  BY <1>1, HandFacts DEF Placed, PlacedAt
<1>4. Len(daemon) \in Nat /\ dpos \in 0..Len(daemon)
  BY InTheStreams
<1> HIDE DEF x, r
<1>5. ASSUME dpos < Len(daemon)
      PROVE  \/ daemon[dpos + 1] \in Messages
             \/ dpos = x + r /\ daemon[dpos + 1] = Hand.answer
  <2>1. (dpos = x /\ x < Len(daemon)) \/ (dpos = x + r /\ x + r < Len(daemon))
    BY <1>2, <1>3, <1>4, <1>5 DEF Least
  <2>2. CASE dpos = x + r /\ x + r < Len(daemon)
    BY <1>2, <2>2
  <2>3. CASE dpos = x /\ x < Len(daemon) /\ r > 0
    BY <1>2, <2>3
  <2>4. r = 0 => x = x + r
    BY <1>2
  <2> QED
    BY <1>2, <2>1, <2>2, <2>3, <2>4
<1>6. ASSUME ~(dpos < Len(daemon))
      PROVE  dpos = Len(daemon) /\ Len(daemon) < dends[Here + 1]
  BY <1>2, <1>3, <1>4, <1>6 DEF Least
<1>7. x + r < dends[Here + 1] /\ dends[Here + 1] \in Nat
  BY <1>2
<1> QED
  BY <1>2, <1>3, <1>5, <1>6, <1>7 DEF x, r

\* The end of the messages.
LEMMA TerminalStep ==
  ASSUME IInv, ReadTerminal
  PROVE  IInv'
<1>1. /\ pc = "stderr" /\ pc \in InHand /\ version' = version /\ cpos' = cpos
      /\ UNCHANGED <<session, client, daemon, cut, reader, op>>
  BY DEF ReadTerminal, InHand, Loop
<1>2. \/ /\ dpos < Len(daemon) /\ daemon[dpos + 1] = "STDERR_LAST"
         /\ dpos' = dpos + 1 /\ pc' = "result" /\ listed' = listed
      \/ /\ dpos < Len(daemon) /\ daemon[dpos + 1] = "STDERR_ERROR"
         /\ dpos' = dpos + 1 /\ reader = "decompile" /\ pc' = "error" /\ listed' = listed
      \/ /\ dpos < Len(daemon) /\ daemon[dpos + 1] = "STDERR_ERROR"
         /\ dpos' = dpos + 1 /\ reader # "decompile" /\ pc' = "op"
         /\ listed' = Append(listed, <<NamedAs, "STDERR_ERROR">>)
      \/ /\ dpos < Len(daemon) => daemon[dpos + 1] \notin Messages \cup Terminals
         /\ dpos' = dpos /\ pc' = "op"
         /\ listed' = Append(listed, <<NamedAs, "none">>)
  BY DEF ReadTerminal, List
<1>3. dpos' \in 0..Len(daemon) /\ pc' \in {"result", "error", "op"}
  BY <1>2, InTheStreams
<1>4. pc' \in Loop \cup Ended /\ (pc' # "op" => pc' \in InHand \cup Ended)
  BY <1>3 DEF InHand, Loop
<1>5. "STDERR_LAST" \notin Messages /\ "STDERR_ERROR" \notin Messages
        /\ "STDERR_ERROR" \in Terminals
  BY DEF Messages, Terminals
<1>6. ASSUME pc' \in {"result", "error"}, listed' = listed, dpos' = dpos + 1,
             dpos < Len(daemon), daemon[dpos + 1] \notin Messages,
             pc' = "result" => daemon[dpos + 1] = "STDERR_LAST",
             pc' = "error" => reader = "decompile" /\ daemon[dpos + 1] = "STDERR_ERROR"
      PROVE  PlaceInv'
  <2>1. ASSUME UnderstoodTo(reader, calls, Here)
        PROVE  GoesOn
    <3>1. /\ cpos = Least(cends[Here + 1], Len(client))
          /\ dpos = dends[Here] + Len(Raised(Hand)) /\ daemon[dpos + 1] = Hand.answer
      BY <1>1, <1>6, <2>1, AtStderr
    <3>2. PlacedAt(pc', cpos', dpos')
      BY <1>1, <1>6, <3>1 DEF PlacedAt
    <3>3. Placed'
      BY <1>1, <1>6, <3>2, PlacedThen
    <3> QED
      BY <1>6, <3>3 DEF InHand, Loop, GoesOn
  <2>2. pc' \in InHand \cup Ended
    BY <1>6 DEF InHand, Loop
  <2> QED
    BY <1>1, <1>6, <2>1, <2>2, StaysInHand
<1>7. ASSUME pc' = "op", dpos' = dpos, listed' = Append(listed, <<NamedAs, "none">>),
             dpos < Len(daemon) => daemon[dpos + 1] \notin Messages \cup Terminals
      PROVE  PlaceInv'
  <2>1. ASSUME UnderstoodTo(reader, calls, Here)
        PROVE  /\ cpos' = Least(cends[Here + 1], Len(client))
               /\ dpos' = Least(dends[Here + 1], Len(daemon))
               /\ Len(daemon) < dends[Here + 1]
    <3>1. Hand.answer \in Terminals
      BY <1>1, <2>1, HandFacts, CallFields
    <3>2. /\ cpos = Least(cends[Here + 1], Len(client))
          /\ dpos = Len(daemon) /\ Len(daemon) < dends[Here + 1] /\ dends[Here + 1] \in Nat
      BY <1>1, <1>7, <2>1, <3>1, AtStderr
    <3> QED
      BY <1>1, <1>7, <3>2, InTheStreams DEF Least
  <2> QED
    BY <1>1, <1>7, <2>1, ListsCall
<1>8. ASSUME pc' = "op", reader # "decompile", dpos < Len(daemon),
             daemon[dpos + 1] = "STDERR_ERROR",
             listed' = Append(listed, <<NamedAs, "STDERR_ERROR">>)
      PROVE  PlaceInv'
  <2>1. ASSUME UnderstoodTo(reader, calls, Here)
        PROVE  FALSE
    <3>1. Understands(reader, Hand)
      BY <1>1, <2>1, HandFacts
    <3>2. Hand.answer = "STDERR_ERROR"
      BY <1>1, <1>5, <1>8, <2>1, AtStderr
    <3> QED
      BY <1>8, <3>1, <3>2 DEF Understands
  <2> QED
    BY <1>1, <1>5, <1>8, <2>1, ListsCall
<1>9. PlaceInv'
  BY <1>2, <1>5, <1>6, <1>7, <1>8
<1>10. \/ listed' = listed
       \/ \E end \in Terminals \cup {"none"} : listed' = Append(listed, <<NamedAs, end>>)
  BY <1>2, <1>5
<1> QED
  BY <1>1, <1>3, <1>4, <1>9, <1>10, InTheStreams, TurnStays

\* Reading what comes with an end: it is listed, or the stream was cut.
LEMMA OutcomeRead ==
  ASSUME IInv, pc \in {"error", "result"}, NEW W, NEW err, err \in {"op", "done", "failed"},
         UNCHANGED <<session, client, daemon, cut, reader, op, cpos>>,
         ReadsOn(daemon, dpos, W, dpos', pc', "op", err),
         W \in SUBSET Seq(Field),
         NEW end \in Terminals,
         IF pc' = "op" THEN List(end) ELSE listed' = listed,
         UnderstoodTo(reader, calls, Here) =>
           /\ end = Hand.answer /\ Outcome(Spoken, Hand) \in W
           /\ \A w \in W : Alike(w, Outcome(Spoken, Hand))
  PROVE  PlaceInv' /\ dpos' \in 0..Len(daemon) /\ pc' \in {"op", "done", "failed", "astray"}
<1>1. pc \in InHand
  BY DEF InHand, Loop
<1>2. dpos' \in 0..Len(daemon) /\ pc' \in {"op", "done", "failed", "astray"}
  BY InTheStreams, ReadingStays
<1> DEFINE o == Outcome(Spoken, Hand)
           x == dends[Here] + Len(Raised(Hand)) + 1
<1>3. ASSUME UnderstoodTo(reader, calls, Here)
      PROVE  /\ cpos' = Least(cends[Here + 1], Len(client))
             /\ dpos' = Least(dends[Here + 1], Len(daemon))
             /\ dends[Here] < Len(daemon)
             /\ pc' = "op" \/ (pc' \in {"done", "failed"} /\ ~(dends[Here + 1] <= Len(daemon)))
  <2>1. /\ cpos = Least(cends[Here + 1], Len(client)) /\ dpos = x
    BY <1>1, <1>3, HandFacts DEF Placed, PlacedAt
  <2>2. /\ dends[Here] \in Nat /\ Len(Raised(Hand)) \in Nat /\ Len(o) \in Nat
        /\ dends[Here + 1] = x + Len(o) /\ Holds(daemon, x, o)
    BY <1>1, <1>3, HandAnswer
  <2>3. x \in Nat /\ dends[Here] < x /\ dpos \in 0..Len(daemon) /\ Len(daemon) \in Nat
          /\ daemon \in Seq(Field)
    BY <2>2, InTheStreams
  <2>4. o \in W /\ \A w \in W : Alike(w, o)
    BY <1>3
  <2> HIDE DEF o, x
  <2>5. Least(x, Len(daemon)) = dpos /\ dends[Here] < Len(daemon)
    BY <2>1, <2>2, <2>3 DEF Least
  <2>6. ReadsOn(daemon, Least(x, Len(daemon)), W, dpos', pc', "op", err)
    BY <2>5
  <2>7. /\ dpos' = Least(x + Len(o), Len(daemon))
        /\ pc' = "op" \/ (pc' = err /\ x + Len(o) > Len(daemon))
    BY <2>2, <2>3, <2>4, <2>6, ReadingFits
  <2> QED
    BY <2>1, <2>2, <2>3, <2>5, <2>7
<1>4. CASE pc' = "op"
  <2>1. listed' = Append(listed, <<NamedAs, end>>)
    BY <1>4 DEF List
  <2> QED
    BY <1>1, <1>2, <1>3, <1>4, <2>1, ListsCall
<1>5. CASE pc' # "op"
  <2>1. listed' = listed
    BY <1>5
  <2>2. ASSUME UnderstoodTo(reader, calls, Here)
        PROVE  GoesOn
    <3>1. ~cut => dends[Here + 1] <= Len(daemon)
      BY <1>1, <2>2, HandAnswer
    <3>2. pc' \in {"done", "failed"} /\ ~(dends[Here + 1] <= Len(daemon))
      BY <1>3, <1>5, <2>2
    <3> QED
      BY <3>1, <3>2, Zenon DEF GoesOn
  <2>3. pc' \in InHand \cup Ended
    BY <1>2, <1>5 DEF Ended
  <2>4. PlaceInv'
    BY <1>1, <2>1, <2>2, <2>3, StaysInHand
  <2> QED
    BY <1>2, <2>4
<1> QED
  BY <1>4, <1>5

\* decompile reads what comes with an error.
LEMMA ErrorStep ==
  ASSUME IInv, ReadErrorInfo
  PROVE  IInv'
<1> DEFINE W == {ErrorInfo(n) : n \in Counts}
           err == OnError("error", "op")
<1>1. /\ pc = "error" /\ pc \in InHand /\ pc \in {"error", "result"}
      /\ version' = version /\ cpos' = cpos
      /\ UNCHANGED <<session, client, daemon, cut, reader, op>>
      /\ IF pc' = "op" THEN List("STDERR_ERROR") ELSE listed' = listed
  BY DEF ReadErrorInfo, InHand, Loop
<1>2. ReadsOn(daemon, dpos, W, dpos', pc', "op", err)
  BY DEF ReadErrorInfo, FromDaemon, Layouts, ReadsOn
<1>3. err \in {"op", "done", "failed"} /\ W \in SUBSET Seq(Field)
  BY OnErrorIs, InTheStreams, LayoutsAre DEF IInv
<1>4. "STDERR_ERROR" \in Terminals
  BY DEF Terminals
<1>5. ASSUME UnderstoodTo(reader, calls, Here)
      PROVE  /\ "STDERR_ERROR" = Hand.answer /\ Outcome(Spoken, Hand) \in W
             /\ \A w \in W : Alike(w, Outcome(Spoken, Hand))
  <2>1. Hand \in CallType /\ Hand.n \in Counts /\ Hand.answer = "STDERR_ERROR"
    BY <1>1, <1>5, HandFacts DEF Placed, PlacedAt
  <2>2. Outcome(Spoken, Hand) = ErrorInfo(Hand.n)
    BY <2>1 DEF Outcome
  <2> QED
    BY <2>1, <2>2, AlikeErrorInfo
<1> HIDE DEF W, err
<1>6. PlaceInv' /\ dpos' \in 0..Len(daemon) /\ pc' \in {"op", "done", "failed", "astray"}
  BY <1>1, <1>2, <1>3, <1>4, <1>5, OutcomeRead
<1>7. pc' \in Loop \cup Ended
  BY <1>6 DEF Loop, Ended
<1>8. \/ listed' = listed
      \/ \E end \in Terminals \cup {"none"} : listed' = Append(listed, <<NamedAs, end>>)
  BY <1>1, <1>4 DEF List
<1> QED
  BY <1>1, <1>6, <1>7, <1>8, InTheStreams, TurnStays

\* A result, of an operation that is known.
LEMMA ResultStep ==
  ASSUME IInv, ReadResult
  PROVE  IInv'
<1> DEFINE R == {ReadDaemonResult(op, version, n) : n \in Counts}
           S == {SkipDaemonResult(op, version, n) : n \in Counts}
           err == OnError("result", "op")
<1>1. /\ pc = "result" /\ pc \in InHand /\ pc \in {"error", "result"}
      /\ version' = version /\ cpos' = cpos
      /\ UNCHANGED <<session, client, daemon, cut, reader, op>>
      /\ IF pc' = "op" THEN List("STDERR_LAST") ELSE listed' = listed
  BY DEF ReadResult, InHand, Loop
<1>2. \/ op = "Unknown" /\ pc' = "op" /\ dpos' = dpos
      \/ op # "Unknown" /\ ReadsOn(daemon, dpos, R, dpos', pc', "op", err)
      \/ op # "Unknown" /\ ReadsOn(daemon, dpos, S, dpos', pc', "op", err)
  BY DEF ReadResult, FromDaemon, Layouts, ReadsOn
<1>3. op # "Unknown" => op \in Ops
  BY InTheStreams
<1>4. /\ err \in {"op", "done", "failed"} /\ R \in SUBSET Seq(Field)
      /\ op # "Unknown" => S \in SUBSET Seq(Field)
  <2>1. TypeOK /\ version \in Nat
    BY InTheStreams DEF IInv
  <2>2. err \in {"op", "done", "failed"}
    BY <2>1, OnErrorIs
  <2>3. R \in SUBSET Seq(Field)
    BY <2>1, LayoutsAre
  <2>4. op \in Ops => S \in SUBSET Seq(Field)
    BY <2>1, LayoutsAre
  <2> QED
    BY <1>3, <2>2, <2>3, <2>4
<1>5. "STDERR_LAST" \in Terminals
  BY DEF Terminals
<1>6. ASSUME UnderstoodTo(reader, calls, Here)
      PROVE  /\ op # "Unknown" /\ "STDERR_LAST" = Hand.answer
             /\ Outcome(Spoken, Hand) \in R /\ Outcome(Spoken, Hand) \in S
             /\ \A w \in R \cup S : Alike(w, Outcome(Spoken, Hand))
  <2>1. /\ Hand \in CallType /\ Hand.n \in Counts /\ Hand.answer = "STDERR_LAST"
        /\ op = Hand.op /\ op \in Ops \ ComplexOps /\ version = Spoken /\ Spoken \in Nat
        /\ Understands(reader, Hand)
    BY <1>1, <1>6, HandFacts DEF Placed, PlacedAt
  <2>2. op # "Unknown"
    BY <2>1 DEF Understands
  <2>3. Outcome(Spoken, Hand) = ReadDaemonResult(op, version, Hand.n)
    BY <2>1, <2>2, Zenon DEF Outcome
  <2>4. SkipDaemonResult(op, version, Hand.n) = ReadDaemonResult(op, version, Hand.n)
    BY <2>1, ResultsAgree
  <2>5. \A n \in Counts :
          Alike(ReadDaemonResult(op, version, n), ReadDaemonResult(op, version, Hand.n))
    BY <2>1, AlikeReadDaemonResult
  <2>6. \A n \in Counts :
          Alike(SkipDaemonResult(op, version, n), SkipDaemonResult(op, version, Hand.n))
    BY <2>1, AlikeSkipDaemonResult
  <2> QED
    BY <2>1, <2>2, <2>3, <2>4, <2>5, <2>6
<1> HIDE DEF R, S, err
<1>7. PlaceInv' /\ dpos' \in 0..Len(daemon) /\ pc' \in {"op", "done", "failed", "astray"}
  <2>1. CASE op = "Unknown" /\ pc' = "op" /\ dpos' = dpos
    <3>1. ~UnderstoodTo(reader, calls, Here)
      BY <1>6, <2>1
    <3>2. listed' = Append(listed, <<NamedAs, "STDERR_LAST">>)
      BY <1>1, <2>1 DEF List
    <3>3. PlaceInv'
      BY <1>1, <1>5, <2>1, <3>1, <3>2, ListsCall
    <3> QED
      BY <2>1, <3>3, InTheStreams
  <2>2. CASE op # "Unknown" /\ ReadsOn(daemon, dpos, R, dpos', pc', "op", err)
    BY <1>1, <1>4, <1>5, <1>6, <2>2, OutcomeRead
  <2>3. CASE op # "Unknown" /\ ReadsOn(daemon, dpos, S, dpos', pc', "op", err)
    BY <1>1, <1>4, <1>5, <1>6, <2>3, OutcomeRead
  <2> QED
    BY <1>2, <2>1, <2>2, <2>3
<1>8. pc' \in Loop \cup Ended
  BY <1>7 DEF Loop, Ended
<1>9. \/ listed' = listed
      \/ \E end \in Terminals \cup {"none"} : listed' = Append(listed, <<NamedAs, end>>)
  BY <1>1, <1>5 DEF List
<1> QED
  BY <1>1, <1>7, <1>8, <1>9, InTheStreams, TurnStays

\* The next operation begins where the last call ends, in both streams.
LEMMA OpCodeStep ==
  ASSUME IInv, ReadOpCode
  PROVE  IInv'
<1> DEFINE code == client[cpos + 1]
           N == Len(listed)
<1>1. /\ pc = "op" /\ version' = version /\ dpos' = dpos
      /\ UNCHANGED <<session, client, daemon, cut, reader, listed>>
  BY DEF ReadOpCode
<1>2. \/ cpos = Len(client) /\ pc' = "done" /\ cpos' = cpos /\ op' = op
      \/ /\ cpos < Len(client) /\ code \in Ops \cup {"Unknown"}
         /\ op' = code /\ cpos' = cpos + 1
         /\ pc' = IF op' # "Unknown" THEN "args"
                  ELSE IF reader = "stats" THEN "done" ELSE "stderr"
      \/ /\ cpos < Len(client) /\ code \notin Ops \cup {"Unknown"}
         /\ pc' = "astray" /\ cpos' = cpos /\ op' = op
  BY DEF ReadOpCode
<1> HIDE DEF code
<1>3. /\ cpos' \in 0..Len(client) /\ op' \in Ops \cup {"Unknown"}
      /\ pc' \in {"args", "stderr", "done", "astray"}
  BY <1>2, InTheStreams
<1>4. TypeOK /\ StreamInv /\ GreetInv /\ PlaceInv
  BY DEF IInv
<1>5. pc' \in Loop \cup Ended /\ pc \in Loop /\ pc \notin {"greeting", "session"}
  BY <1>1, <1>3 DEF Loop, Ended
<1>6. TypeOK'
  <2>1. listed' \in Seq((Ops \cup {"Unknown"}) \X (Terminals \cup {"none"}))
    BY <1>1, <1>4 DEF TypeOK
  <2> QED
    BY <1>1, <1>3, <1>4, <1>5, <2>1, InTheStreams, TypesStay
<1>7. StreamInv' /\ GreetInv'
  <2>1. version = Spoken
    BY <1>4, <1>5 DEF GreetInv
  <2> QED
    BY <1>1, <1>4, <1>5, <2>1, StreamsStay
<1>8. /\ calls' = calls /\ cends' = cends /\ dends' = dends /\ client' = client
      /\ daemon' = daemon /\ reader' = reader /\ listed' = listed /\ cut' = cut
      /\ offers' = offers
  BY <1>1 DEF session
<1>9. Here' = Here /\ Hand' = Hand /\ Spoken' = Spoken
  BY <1>8 DEF Here, Hand, Spoken
<1>10. /\ calls \in Seq(Sayable(Spoken)) /\ Spoken \in Nat
       /\ Carries(client, cends, calls, RequestOf(Spoken))
       /\ N \in Nat /\ Here = N + 1
  BY <1>4, SpokenIs, LenProperties DEF StreamInv, TypeOK, Here
<1>11. /\ Len(calls) \in Nat /\ Len(client) \in Nat
       /\ \A k \in 1..(Len(calls) + 1) : cends[k] \in Nat
       /\ \A k \in 1..(Len(calls) + 1) : \A i \in 1..(k - 1) : cends[i] < cends[k]
       /\ Len(client) <= cends[Len(calls) + 1]
  BY <1>10, EndsRise
<1>12. ASSUME UnderstoodTo(reader, calls, N)
       PROVE  /\ N <= Len(calls) /\ cpos = Least(cends[Here], Len(client))
              /\ dpos = Least(dends[Here], Len(daemon))
              /\ Here \in 1..(Len(calls) + 1) /\ cends[Here] \in Nat
  <2>1. /\ N <= Len(calls) /\ cpos = Least(cends[Here], Len(client))
        /\ dpos = Least(dends[Here], Len(daemon))
    BY <1>1, <1>4, <1>12 DEF PlaceInv, OpInv
  <2>2. Here \in 1..(Len(calls) + 1)
    BY <1>10, <1>11, <2>1
  <2> QED
    BY <1>11, <2>1, <2>2
<1>13. ASSUME UnderstoodTo(reader, calls, N), cpos < Len(client)
       PROVE  /\ Here \in 1..Len(calls) /\ cpos = cends[Here] /\ code = Hand.op
              /\ Hand.op \in Ops \cup {"Unknown"}
  <2>1. cpos = cends[Here] /\ cends[Here] < Len(client)
    BY <1>11, <1>12, <1>13 DEF Least
  <2>2. Here \in 1..(Len(calls) + 1)
    BY <1>12, <1>13
  <2>3. Here \in 1..Len(calls)
    BY <1>11, <2>1, <2>2
  <2>4. calls[Here] \in CallType /\ client[cends[Here] + 1] = calls[Here].op
    BY <1>10, <2>1, <2>3, RequestAt
  <2>5. calls[Here].op \in Ops \cup {"Unknown"}
    BY <2>4, CallFields
  <2> QED
    BY <2>1, <2>3, <2>4, <2>5 DEF Hand, code
<1>14. UnderstoodTo(reader, calls, Here) => UnderstoodTo(reader, calls, N)
  BY <1>10, UnderstoodLess
<1>15. OpInv'
  BY <1>3 DEF OpInv
<1>16. HandInv'
  <2>1. ASSUME pc' \in InHand, UnderstoodTo(reader, calls, Here)
        PROVE  Here <= Len(calls) /\ op' = Hand.op /\ Placed'
    <3>1. UnderstoodTo(reader, calls, N)
      BY <1>14, <2>1
    <3>2. pc' \in {"args", "stderr"}
      BY <1>3, <2>1 DEF InHand, Loop
    <3>3. /\ cpos < Len(client) /\ op' = code /\ cpos' = cpos + 1
          /\ pc' = "stderr" => op' = "Unknown"
      BY <1>2, <3>2
    <3>4. Here \in 1..Len(calls) /\ cpos = cends[Here] /\ op' = Hand.op
      BY <1>13, <3>1, <3>3
    <3>5. Understands(reader, Hand)
      BY <1>11, <2>1, <3>4, <1>10 DEF UnderstoodTo, Hand
    <3>6. pc' = "args"
      BY <3>2, <3>3, <3>4, <3>5 DEF Understands
    <3>7. cpos' = cends'[Here'] + 1 /\ dpos' = Least(dends'[Here'], Len(daemon'))
      BY <1>1, <1>8, <1>9, <1>12, <3>1, <3>3, <3>4
    <3>8. Placed'
      BY <3>6, <3>7 DEF Placed, PlacedAt
    <3> QED
      BY <1>11, <3>4, <3>8
  <2>2. ASSUME pc' = "astray", UnderstoodTo(reader, calls, Here)
        PROVE  FALSE
    BY <1>2, <1>13, <1>14, <2>2
  <2> QED
    BY <1>8, <1>9, <2>1, <2>2 DEF HandInv
<1>17. ListedInv'
  BY <1>8, <1>4, SMT DEF PlaceInv, ListedInv, TypeOK
<1>18. EndInv'
  <2> SUFFICES ASSUME ~cut', UnderstoodTo(reader', calls', Len(calls')),
                      pc' = "failed" \/ pc' = "done"
               PROVE  pc' # "failed" /\ Len(listed') = Len(calls')
    BY Zenon DEF EndInv
  <2>1. ~cut
    <3>1. ASSUME cut
          PROVE  cut'
      BY <1>8, <3>1, Zenon
    <3> QED
      BY <3>1, Zenon
  <2>2. Len(client) = cends[Len(calls) + 1]
    BY <1>4, <2>1, Zenon DEF StreamInv
  <2>3. UnderstoodTo(reader, calls, Len(calls))
    BY <1>8
  <2>4. UnderstoodTo(reader, calls, N) /\ UnderstoodTo(reader, calls, Here)
    BY <1>11, <2>3, AllIsTo
  <2>5. pc' = "done"
    BY <1>3
  <2>6. CASE cpos = Len(client)
    <3>1. cends[Len(calls) + 1] <= cends[Here]
      BY <1>11, <1>12, <2>2, <2>4, <2>6 DEF Least
    <3>2. Here = Len(calls) + 1 \/ Here \in 1..((Len(calls) + 1) - 1)
      BY <1>11, <1>12, <2>4
    <3>3. Len(calls) + 1 \in 1..(Len(calls) + 1)
      BY <1>11
    <3>4. Here = Len(calls) + 1
      BY <1>11, <1>12, <2>4, <3>1, <3>2, <3>3
    <3> QED
      BY <1>8, <1>10, <1>11, <2>5, <3>4
  <2>7. CASE cpos # Len(client)
    <3>1. cpos < Len(client) /\ op' = code /\ op' = "Unknown"
      BY <1>2, <2>5, <2>7
    <3>2. Here \in 1..Len(calls) /\ Hand.op = "Unknown"
      BY <1>13, <2>4, <3>1
    <3>3. Understands(reader, Hand)
      BY <1>11, <2>4, <3>2, <1>10 DEF UnderstoodTo, Hand
    <3> QED
      BY <3>2, <3>3 DEF Understands
  <2> QED
    BY <2>6, <2>7
<1>19. KnownInv'
  <2>1. KnownInv
    BY <1>4 DEF PlaceInv
  <2>2. ASSUME reader = "stats", pc' \in InHand \cup {"astray"}, UnderstoodTo(reader, calls, N)
        PROVE  Here <= Len(calls) /\ Hand.op # "Unknown"
    <3>1. pc' \in {"args", "stderr", "astray"}
      BY <1>3, <2>2 DEF InHand, Loop
    <3>2. cpos < Len(client)
      BY <1>2, <3>1
    <3>3. Here \in 1..Len(calls) /\ code = Hand.op /\ code \in Ops \cup {"Unknown"}
      BY <1>13, <2>2, <3>2
    <3>4. code # "Unknown"
      BY <1>2, <2>2, <3>1, <3>3
    <3> QED
      BY <1>11, <3>3, <3>4
  <2> QED
    BY <1>8, <1>9, <2>1, <2>2 DEF KnownInv
<1> QED
  BY <1>6, <1>7, <1>15, <1>16, <1>17, <1>18, <1>19 DEF IInv, PlaceInv

-----------------------------------------------------------------------------
(* The session.                                                            *)

\* Before the first turn of a loop, nothing is in hand and nothing is listed.
LEMMA NothingListed ==
  ASSUME listed' = <<>>, Len(calls') \in Nat,
         pc' \in {"greeting", "session", "handshake"}
  PROVE  PlaceInv'
<1>1. pc' \notin InHand \cup {"op", "astray", "done", "failed"}
  BY DEF InHand, Loop
<1>2. Len(listed') = 0 /\ 1..0 = {}
  OBVIOUS
<1>3. OpInv' /\ HandInv' /\ EndInv'
  BY <1>1, Zenon DEF OpInv, HandInv, EndInv
<1>4. ListedInv'
  BY <1>2 DEF ListedInv
<1>5. KnownInv'
  BY <1>1, <1>2 DEF KnownInv
<1> QED
  BY <1>3, <1>4, <1>5 DEF PlaceInv

\* Where there is nothing yet.
LEMMA CarriesNothing ==
  ASSUME NEW s \in Seq(Field), NEW P
  PROVE  Carries(s, <<Len(s)>>, <<>>, P) /\ Len(s) \in Nat
<1> DEFINE n == Len(s)
<1>1. n \in Nat
  BY LenProperties
<1> HIDE DEF n
<1>2. <<n>> \in Seq(Nat) /\ Len(<<n>>) = 1 /\ <<n>>[1] = n
  BY <1>1
<1>3. Rising(<<n>>)
  BY <1>2 DEF Rising
<1>4. /\ Len(<<>>) = 0 /\ n <= n
  BY <1>1
<1>5. Carries(s, <<n>>, <<>>, P)
  BY <1>2, <1>3, <1>4 DEF Carries, n
<1> QED
  BY <1>1, <1>5 DEF n

\* A session that can be recorded.
LEMMA CallsAreSayable ==
  ASSUME NEW s \in Sessions
  PROVE  s.calls \in Seq(Sayable(Least(s.offers.client, s.offers.server)))
<1> DEFINE v == Least(s.offers.client, s.offers.server)
<1>1. /\ s.calls \in Seq(CallType)
      /\ \A k \in 1..Len(s.calls) : Framed(v, s.calls[k])
  BY DecodeAssumption
<1> HIDE DEF v
<1>2. \A k \in 1..Len(s.calls) : s.calls[k] \in Sayable(v)
  BY <1>1, ElementOfSeq DEF Sayable
<1>3. s.calls \in Seq(Sayable(v))
  BY <1>1, <1>2, SeqDef, IsASeq
<1> QED
  BY <1>3 DEF v

\* It holds before the session begins.
LEMMA InitInv == Init => IInv
<1> SUFFICES ASSUME Init
             PROVE  IInv
  OBVIOUS
<1>1. PICK s \in Sessions : offers = s.offers /\ mayCut = s.mayCut /\ todo = s.calls
  BY DEF Init
<1>2. /\ calls = <<>> /\ client = <<>> /\ daemon = <<>> /\ cends = <<0>> /\ dends = <<0>>
      /\ cut = FALSE /\ pc = "greeting" /\ version = 0 /\ cpos = 0 /\ dpos = 0
      /\ op = "Unknown" /\ listed = <<>> /\ reader \in Readers
  BY DEF Init
<1>3. TypeOK
  <2> DEFINE T == (Ops \cup {"Unknown"}) \X (Terminals \cup {"none"})
  <2>1. /\ s.offers \in [client : Nat, server : Nat, affinity : Counts]
        /\ s.mayCut \in BOOLEAN /\ s.calls \in Seq(CallType)
    BY DecodeAssumption
  <2>2. mayCut \in BOOLEAN /\ cut \in BOOLEAN
    BY <1>1, <1>2, <2>1, Zenon
  <2>3. calls \in Seq(CallType) /\ listed \in Seq(T)
    <3> HIDE DEF T
    <3> QED
      BY <1>2
  <2>4. Len(cends) = Len(calls) + 1 /\ Len(dends) = Len(calls) + 1
    BY <1>2
  <2>5. cpos \in 0..Len(client) /\ dpos \in 0..Len(daemon)
    BY <1>2
  <2> QED
    BY <1>1, <1>2, <2>1, <2>2, <2>3, <2>4, <2>5, Zenon DEF TypeOK
<1>4. StreamInv
  <2>1. todo \in Seq(Sayable(Spoken)) /\ calls \in Seq(Sayable(Spoken))
    BY <1>1, <1>2, CallsAreSayable DEF Spoken
  <2>2. <<>> \in Seq(Field) /\ Len(<<>>) = 0
    OBVIOUS
  <2>3. \A P : Carries(<<>>, <<0>>, <<>>, P)
    BY <2>2, CarriesNothing
  <2>4. Len(client) = cends[Len(calls) + 1] /\ Len(daemon) = dends[Len(calls) + 1]
    BY <1>2
  <2> QED
    BY <1>2, <2>1, <2>3, <2>4 DEF StreamInv
<1>5. GreetInv
  BY <1>2 DEF GreetInv, Loop
<1>6. PlaceInv
  <2>1. Len(listed) = 0 /\ 1..0 = {} /\ Len(calls) = 0
    BY <1>2
  <2>2. pc \notin InHand \cup {"op", "astray", "done", "failed"}
    BY <1>2 DEF InHand, Loop
  <2>3. OpInv /\ HandInv /\ EndInv
    BY <2>2, Zenon DEF OpInv, HandInv, EndInv
  <2>4. ListedInv /\ KnownInv
    BY <2>1, <2>2 DEF ListedInv, KnownInv
  <2> QED
    BY <2>3, <2>4 DEF PlaceInv
<1> QED
  BY <1>3, <1>4, <1>5, <1>6 DEF IInv

\* The handshake is the first that is in the streams.
LEMMA GreetStep ==
  ASSUME IInv, Greet
  PROVE  IInv'
<1> DEFINE a == ParseHandshakeClient(Spoken, offers.affinity)
           b == ParseHandshakeDaemon(Spoken)
<1>1. TypeOK /\ StreamInv /\ GreetInv /\ Spoken \in Nat /\ offers.affinity \in Counts
  BY SpokenIs DEF IInv, TypeOK
<1>2. /\ pc = "greeting" /\ pc' = "session"
      /\ client' = a /\ daemon' = b
      /\ cends' = <<Len(client')>> /\ dends' = <<Len(daemon')>>
      /\ UNCHANGED <<offers, mayCut, todo, calls, cut, reader, version, cpos, dpos, op, listed>>
  BY <1>1, NoAffinity, DaemonsAreReadAlike DEF Greet
<1>3. a \in Seq(Field) /\ b \in Seq(Field)
  BY <1>1, AlikeHandshakeClient, AlikeHandshakeDaemon DEF Alike
<1>4. Spoken' = Spoken
  BY <1>2 DEF Spoken
<1>5. calls = <<>> /\ ~cut /\ cpos = 0 /\ dpos = 0 /\ listed = <<>>
  BY <1>1, <1>2 DEF GreetInv
<1>5a. ParseHandshakeClient(Spoken', offers'.affinity) = a /\ ParseHandshakeDaemon(Spoken') = b
  BY <1>2, <1>4
<1> HIDE DEF a, b
<1>6. ~cut'
  BY <1>2, <1>5, Zenon
<1>7. /\ Len(client') \in Nat /\ Len(daemon') \in Nat
      /\ \A P : Carries(client', cends', <<>>, P)
      /\ \A P : Carries(daemon', dends', <<>>, P)
  BY <1>2, <1>3, CarriesNothing
<1>8. Len(calls') = 0 /\ calls' = <<>> /\ cends'[1] = Len(a) /\ dends'[1] = Len(b)
      /\ Len(cends') = 1 /\ Len(dends') = 1
  BY <1>2, <1>5
<1>9. TypeOK'
  BY <1>1, <1>2, <1>5, <1>7, <1>8 DEF TypeOK
<1>10. StreamInv'
  <2>1. todo' \in Seq(Sayable(Spoken')) /\ calls' \in Seq(Sayable(Spoken'))
    BY <1>1, <1>2, <1>4 DEF StreamInv
  <2>2. Len(client') = cends'[Len(calls') + 1] /\ Len(daemon') = dends'[Len(calls') + 1]
    BY <1>2, <1>8
  <2> QED
    BY <1>7, <1>8, <2>1, <2>2 DEF StreamInv
<1>11. GreetInv'
  <2>1. Holds(client', 0, a) /\ Holds(daemon', 0, b)
    <3>1. Len(a) \in Nat /\ Len(b) \in Nat
      BY <1>3, LenProperties
    <3> QED
      BY <1>2, <3>1 DEF Holds
  <2>2. pc' # "greeting" /\ pc' \notin Loop
    BY <1>2 DEF Loop
  <2>3. cpos' = 0 /\ dpos' = 0 /\ listed' = <<>>
    BY <1>2, <1>5
  <2> QED
    BY <1>5a, <1>6, <1>8, <2>1, <2>2, <2>3, Zenon DEF GreetInv
<1>12. PlaceInv'
  BY <1>2, <1>5, <1>8, NothingListed
<1> QED
  BY <1>9, <1>10, <1>11, <1>12 DEF IInv

\* The handshake ends where the first call begins, which is in a stream that is whole.
LEMMA HandshakeFirst ==
  ASSUME calls \in Seq(Sayable(Spoken)),
         Carries(client, cends, calls, RequestOf(Spoken)),
         Carries(daemon, dends, calls, AnswerOf(Spoken))
  PROVE  /\ Len(client) = cends[Len(calls) + 1] => cends[1] <= Len(client)
         /\ Len(daemon) = dends[Len(calls) + 1] => dends[1] <= Len(daemon)
<1>1. /\ Len(calls) \in Nat
      /\ \A i \in 1..(Len(calls) + 1) : cends[i] \in Nat
      /\ \A i \in 1..(Len(calls) + 1) : \A j \in 1..(i - 1) : cends[j] < cends[i]
  BY EndsRise
<1>2. /\ \A i \in 1..(Len(calls) + 1) : dends[i] \in Nat
      /\ \A i \in 1..(Len(calls) + 1) : \A j \in 1..(i - 1) : dends[j] < dends[i]
  BY EndsRise
<1>3. /\ 1 \in 1..(Len(calls) + 1) /\ Len(calls) + 1 \in 1..(Len(calls) + 1)
      /\ Len(calls) + 1 = 1 \/ 1 \in 1..((Len(calls) + 1) - 1)
  BY <1>1
<1> QED
  BY <1>1, <1>2, <1>3

\* A stream that grows keeps the handshake it begins with.
LEMMA GreetingStays ==
  ASSUME GreetInv, TypeOK, Spoken \in Nat, pc = "session", pc' = "session", Spoken' = Spoken,
         offers' = offers, ~cut', cpos' = cpos, dpos' = dpos, listed' = listed,
         calls \in Seq(Sayable(Spoken)),
         Carries(client, cends, calls, RequestOf(Spoken)),
         Carries(daemon, dends, calls, AnswerOf(Spoken)),
         Len(client) = cends[Len(calls) + 1], Len(daemon) = dends[Len(calls) + 1],
         \A k \in 1..Len(cends) : cends'[k] = cends[k],
         \A k \in 1..Len(dends) : dends'[k] = dends[k],
         \A i \in 1..Len(client) : client'[i] = client[i],
         \A i \in 1..Len(daemon) : daemon'[i] = daemon[i]
  PROVE  GreetInv'
<1> DEFINE a == ParseHandshakeClient(Spoken, offers.affinity)
           b == ParseHandshakeDaemon(Spoken)
<1>1. Holds(client, 0, a) /\ cends[1] = Len(a) /\ Holds(daemon, 0, b) /\ dends[1] = Len(b)
  BY DEF GreetInv
<1>2. a \in Seq(Field) /\ b \in Seq(Field)
  <2>1. offers.affinity \in Counts
    BY DEF TypeOK
  <2> QED
    BY <2>1, AlikeHandshakeClient, AlikeHandshakeDaemon DEF Alike
<1>3. ParseHandshakeClient(Spoken', offers'.affinity) = a /\ ParseHandshakeDaemon(Spoken') = b
  OBVIOUS
<1> HIDE DEF a, b
<1>4. Len(a) <= Len(client) /\ Len(b) <= Len(daemon)
  BY <1>1, HandshakeFirst
<1>5. /\ Len(cends) = Len(calls) + 1 /\ Len(dends) = Len(calls) + 1 /\ Len(calls) \in Nat
      /\ Len(a) \in Nat /\ Len(b) \in Nat /\ Len(client) \in Nat /\ Len(daemon) \in Nat
  BY <1>2, LenProperties DEF Carries
<1>6. cends'[1] = Len(a) /\ dends'[1] = Len(b)
  BY <1>1, <1>5
<1>7. ASSUME NEW i \in 1..Len(a)
      PROVE  client'[0 + i] = a[i]
  BY <1>1, <1>4, <1>5 DEF Holds
<1>8. ASSUME NEW i \in 1..Len(b)
      PROVE  daemon'[0 + i] = b[i]
  BY <1>1, <1>4, <1>5 DEF Holds
<1>9. Holds(client', 0, a) /\ Holds(daemon', 0, b)
  BY <1>7, <1>8 DEF Holds
<1>10. /\ pc' \notin Loop \cup {"greeting"}
       /\ cpos' = 0 /\ dpos' = 0 /\ listed' = <<>>
  BY DEF GreetInv, Loop
<1> QED
  BY <1>3, <1>6, <1>9, <1>10, Zenon DEF GreetInv

\* A call adds its two sides to the streams.
LEMMA CallStep ==
  ASSUME IInv, Call
  PROVE  IInv'
<1> DEFINE c == Head(todo)
           P == RequestOf(Spoken)
           A == AnswerOf(Spoken)
<1>1. TypeOK /\ StreamInv /\ GreetInv /\ Spoken \in Nat
  BY SpokenIs DEF IInv
<1>2. /\ pc = "session" /\ pc' = "session" /\ todo # <<>>
      /\ calls' = Append(calls, c) /\ todo' = Tail(todo)
      /\ client' = Cat(client, Request(Spoken, c))
      /\ daemon' = Cat(daemon, Answer(Spoken, c))
      /\ cends' = Append(cends, Len(client')) /\ dends' = Append(dends, Len(daemon'))
      /\ UNCHANGED <<offers, mayCut, cut, reader, version, cpos, dpos, op, listed>>
  BY DEF Call, Cat
<1>3. Spoken' = Spoken
  BY <1>2 DEF Spoken
<1>4. ~cut /\ cpos = 0 /\ dpos = 0 /\ listed = <<>>
  BY <1>1, <1>2 DEF GreetInv
<1>5. ~cut'
  BY <1>2, <1>4, Zenon
<1>6. /\ todo \in Seq(Sayable(Spoken)) /\ calls \in Seq(Sayable(Spoken))
      /\ Carries(client, cends, calls, P) /\ Carries(daemon, dends, calls, A)
      /\ Len(client) = cends[Len(calls) + 1] /\ Len(daemon) = dends[Len(calls) + 1]
  BY <1>1, <1>4 DEF StreamInv
<1>7. c \in Sayable(Spoken) /\ todo' \in Seq(Sayable(Spoken))
  BY <1>2, <1>6, HeadTailProperties
<1>8. P \in Parts(Sayable(Spoken)) /\ A \in Parts(Sayable(Spoken))
  BY <1>1, PartsOfCalls
<1>9. Request(Spoken, c) = P[c] /\ Answer(Spoken, c) = A[c]
  BY <1>7 DEF RequestOf, AnswerOf
<1>10. /\ c \in CallType /\ todo' \in Seq(CallType)
       /\ calls' \in Seq(Sayable(Spoken)) /\ calls' \in Seq(CallType)
  <2>1. Sayable(Spoken) \subseteq CallType
    BY DEF Sayable
  <2>2. c \in CallType /\ calls \in Seq(CallType) /\ todo \in Seq(CallType)
    BY <1>1, <1>7, <2>1 DEF TypeOK
  <2> HIDE DEF c
  <2> QED
    BY <1>2, <1>6, <1>7, <2>2, AppendProperties, HeadTailProperties
<1> HIDE DEF c, P, A
<1>11. /\ Carries(client', cends', calls', P)
       /\ Len(calls') = Len(calls) + 1
       /\ cends'[Len(calls') + 1] = Len(client')
       /\ \A k \in 1..Len(cends) : cends'[k] = cends[k]
       /\ \A i \in 1..Len(client) : client'[i] = client[i]
  <2> DEFINE t == Cat(client, P[c])
             e == Append(cends, Len(t))
             cs == Append(calls, c)
  <2>1. client' = t /\ cends' = e /\ calls' = cs
    BY <1>2, <1>9
  <2>2. Carries(t, e, cs, P)
    BY <1>6, <1>7, <1>8, CarriesMore
  <2>3. \A k \in 1..Len(cends) : e[k] = cends[k]
    BY <1>6, <1>7, <1>8, CarriesMore
  <2>4. \A i \in 1..Len(client) : t[i] = client[i]
    BY <1>6, <1>7, <1>8, CarriesMore
  <2>5. Len(cs) = Len(calls) + 1 /\ Len(calls) \in Nat
    BY <1>6, <1>7, AppendProperties, LenProperties
  <2>6. t \in Seq(Field) /\ cends \in Seq(Nat) /\ Len(cends) = Len(calls) + 1
    BY <1>6, <2>2 DEF Carries
  <2> HIDE DEF t, cs
  <2>7. e[Len(cs) + 1] = Len(t)
    BY <2>5, <2>6, AppendProperties, LenProperties
  <2> HIDE DEF e
  <2> QED
    BY <2>1, <2>2, <2>3, <2>4, <2>5, <2>7
<1>12. /\ Carries(daemon', dends', calls', A)
       /\ dends'[Len(calls') + 1] = Len(daemon')
       /\ \A k \in 1..Len(dends) : dends'[k] = dends[k]
       /\ \A i \in 1..Len(daemon) : daemon'[i] = daemon[i]
  <2> DEFINE t == Cat(daemon, A[c])
             e == Append(dends, Len(t))
             cs == Append(calls, c)
  <2>1. daemon' = t /\ dends' = e /\ calls' = cs
    BY <1>2, <1>9
  <2>2. Carries(t, e, cs, A)
    BY <1>6, <1>7, <1>8, CarriesMore
  <2>3. \A k \in 1..Len(dends) : e[k] = dends[k]
    BY <1>6, <1>7, <1>8, CarriesMore
  <2>4. \A i \in 1..Len(daemon) : t[i] = daemon[i]
    BY <1>6, <1>7, <1>8, CarriesMore
  <2>5. Len(cs) = Len(calls) + 1 /\ Len(calls) \in Nat
    BY <1>6, <1>7, AppendProperties, LenProperties
  <2>6. t \in Seq(Field) /\ dends \in Seq(Nat) /\ Len(dends) = Len(calls) + 1
    BY <1>6, <2>2 DEF Carries
  <2> HIDE DEF t, cs
  <2>7. e[Len(cs) + 1] = Len(t)
    BY <2>5, <2>6, AppendProperties, LenProperties
  <2> HIDE DEF e
  <2> QED
    BY <2>1, <2>2, <2>3, <2>4, <2>5, <2>7
<1>13. StreamInv'
  <2>1. /\ Carries(client', cends', calls', RequestOf(Spoken'))
        /\ Carries(daemon', dends', calls', AnswerOf(Spoken'))
    BY <1>3, <1>11, <1>12 DEF P, A
  <2> QED
    BY <1>3, <1>7, <1>10, <1>11, <1>12, <2>1 DEF StreamInv
<1>14. GreetInv'
  <2>1. /\ Carries(client, cends, calls, RequestOf(Spoken))
        /\ Carries(daemon, dends, calls, AnswerOf(Spoken))
    BY <1>6 DEF P, A
  <2>2. offers' = offers /\ cpos' = cpos /\ dpos' = dpos /\ listed' = listed
    BY <1>2
  <2> QED
    BY <1>1, <1>2, <1>3, <1>5, <1>6, <1>11, <1>12, <2>1, <2>2, GreetingStays
<1>15. TypeOK'
  <2>1. Len(cends') = Len(calls') + 1 /\ Len(dends') = Len(calls') + 1
    BY <1>11, <1>12 DEF Carries
  <2>2. client' \in Seq(Field) /\ daemon' \in Seq(Field)
    BY <1>11, <1>12 DEF Carries
  <2>3. cpos' \in 0..Len(client') /\ dpos' \in 0..Len(daemon')
    BY <1>2, <1>4, <2>2, LenProperties
  <2>4. /\ offers' = offers /\ mayCut' = mayCut /\ cut' = cut /\ reader' = reader
        /\ version' = version /\ op' = op /\ listed' = listed
    BY <1>2
  <2> QED
    BY <1>1, <1>2, <1>10, <2>1, <2>3, <2>4, Zenon DEF TypeOK
<1>16. PlaceInv'
  <2>1. Len(calls') \in Nat
    BY <1>10, LenProperties
  <2> QED
    BY <1>2, <1>4, <2>1, NothingListed
<1> QED
  BY <1>13, <1>14, <1>15, <1>16 DEF IInv

\* A recording that is opened has all of the calls, or their beginning.
LEMMA OpenStep ==
  ASSUME IInv, Open
  PROVE  IInv'
<1> DEFINE P == RequestOf(Spoken)
           A == AnswerOf(Spoken)
<1>1. TypeOK /\ StreamInv /\ GreetInv /\ Spoken \in Nat
  BY SpokenIs DEF IInv
<1>2. /\ pc = "session" /\ pc' = "handshake"
      /\ UNCHANGED <<session, reader, version, cpos, dpos, op, listed>>
      /\ \/ client' = client /\ daemon' = daemon /\ cut' = cut
         \/ /\ cut' = TRUE
            /\ \E i \in 0..Len(client), j \in 0..Len(daemon) :
                 client' = SubSeq(client, 1, i) /\ daemon' = SubSeq(daemon, 1, j)
  BY Zenon DEF Open
<1>3. /\ calls' = calls /\ todo' = todo /\ cends' = cends /\ dends' = dends
      /\ offers' = offers /\ mayCut' = mayCut
  BY <1>2 DEF session
<1>4. Spoken' = Spoken
  BY <1>3 DEF Spoken
<1>5. ~cut /\ cpos = 0 /\ dpos = 0 /\ listed = <<>>
  BY <1>1, <1>2 DEF GreetInv
<1>6. /\ todo \in Seq(Sayable(Spoken)) /\ calls \in Seq(Sayable(Spoken))
      /\ Carries(client, cends, calls, P) /\ Carries(daemon, dends, calls, A)
      /\ Len(client) = cends[Len(calls) + 1] /\ Len(daemon) = dends[Len(calls) + 1]
  BY <1>1, <1>5 DEF StreamInv
<1>7. P \in Parts(Sayable(Spoken)) /\ A \in Parts(Sayable(Spoken))
  BY <1>1, PartsOfCalls
<1> HIDE DEF P, A
<1>8. /\ Carries(client', cends, calls, P) /\ Carries(daemon', dends, calls, A)
      /\ Len(client') \in Nat /\ Len(client') <= Len(client)
      /\ Len(daemon') \in Nat /\ Len(daemon') <= Len(daemon)
      /\ \A i \in 1..Len(client') : client'[i] = client[i]
      /\ \A i \in 1..Len(daemon') : daemon'[i] = daemon[i]
  <2>1. Len(client) \in Nat /\ Len(daemon) \in Nat
    BY <1>6, LenProperties DEF Carries
  <2>2. CASE client' = client /\ daemon' = daemon
    BY <1>6, <2>1, <2>2
  <2>3. CASE \E i \in 0..Len(client), j \in 0..Len(daemon) :
                 client' = SubSeq(client, 1, i) /\ daemon' = SubSeq(daemon, 1, j)
    <3>1. PICK i \in 0..Len(client), j \in 0..Len(daemon) :
            client' = SubSeq(client, 1, i) /\ daemon' = SubSeq(daemon, 1, j)
      BY <2>3
    <3>2. /\ Carries(client', cends, calls, P) /\ Len(client') = i
          /\ \A k \in 1..i : client'[k] = client[k]
      BY <1>6, <1>7, <3>1, CarriesCut
    <3>3. /\ Carries(daemon', dends, calls, A) /\ Len(daemon') = j
          /\ \A k \in 1..j : daemon'[k] = daemon[k]
      BY <1>6, <1>7, <3>1, CarriesCut
    <3> QED
      BY <2>1, <3>2, <3>3
  <2> QED
    BY <1>2, <2>2, <2>3
<1>9. StreamInv'
  <2>1. /\ Carries(client', cends', calls', RequestOf(Spoken'))
        /\ Carries(daemon', dends', calls', AnswerOf(Spoken'))
    BY <1>3, <1>4, <1>8 DEF P, A
  <2>2. ASSUME ~cut'
        PROVE  client' = client /\ daemon' = daemon
    BY <1>2, <2>2, Zenon
  <2>3. ~cut' => /\ Len(client') = cends'[Len(calls') + 1]
                 /\ Len(daemon') = dends'[Len(calls') + 1]
    <3>1. ASSUME client' = client, daemon' = daemon
          PROVE  /\ Len(client') = cends'[Len(calls') + 1]
                 /\ Len(daemon') = dends'[Len(calls') + 1]
      BY <1>3, <1>6, <3>1
    <3> QED
      BY <2>2, <3>1, Zenon
  <2>4. calls' \in Seq(Sayable(Spoken')) /\ todo' \in Seq(Sayable(Spoken'))
    BY <1>3, <1>4, <1>6
  <2> QED
    BY <2>1, <2>3, <2>4, Zenon DEF StreamInv
<1>10. GreetInv'
  <2> DEFINE a == ParseHandshakeClient(Spoken, offers.affinity)
             b == ParseHandshakeDaemon(Spoken)
  <2>1. Holds(client, 0, a) /\ cends[1] = Len(a) /\ Holds(daemon, 0, b) /\ dends[1] = Len(b)
    BY <1>1, <1>2 DEF GreetInv
  <2>2. a \in Seq(Field) /\ b \in Seq(Field)
    <3>1. offers.affinity \in Counts
      BY <1>1 DEF TypeOK
    <3> QED
      BY <1>1, <3>1, AlikeHandshakeClient, AlikeHandshakeDaemon DEF Alike
  <2>2a. /\ ParseHandshakeClient(Spoken', offers'.affinity) = a
         /\ ParseHandshakeDaemon(Spoken') = b
    BY <1>3, <1>4
  <2> HIDE DEF a, b
  <2>3. Len(a) \in Nat /\ Len(b) \in Nat /\ Len(client) \in Nat /\ Len(daemon) \in Nat
    BY <1>6, <2>2, LenProperties DEF Carries
  <2>4. Holds(client', 0, a) /\ Holds(daemon', 0, b)
    BY <1>8, <2>1, <2>3 DEF Holds
  <2>5. /\ pc' \notin Loop \cup {"greeting", "session"}
        /\ cpos' = 0 /\ dpos' = 0 /\ listed' = <<>>
    BY <1>2, <1>5 DEF Loop
  <2>6. cends'[1] = Len(a) /\ dends'[1] = Len(b)
    BY <1>3, <2>1
  <2> QED
    BY <2>2a, <2>4, <2>5, <2>6, Zenon DEF GreetInv
<1>11. TypeOK'
  <2>1. cpos' \in 0..Len(client') /\ dpos' \in 0..Len(daemon')
    BY <1>2, <1>5, <1>8
  <2>2. cut' \in BOOLEAN
    BY <1>1, <1>2, Zenon DEF TypeOK
  <2> QED
    BY <1>1, <1>2, <1>3, <2>1, <2>2, Zenon DEF TypeOK
<1>12. PlaceInv'
  <2>1. Len(calls') \in Nat
    BY <1>3, <1>6, LenProperties
  <2> QED
    BY <1>2, <1>5, <2>1, NothingListed
<1> QED
  BY <1>9, <1>10, <1>11, <1>12 DEF IInv

-----------------------------------------------------------------------------
(* The handshake, and all of it together.                                  *)

\* A stream that begins with a: one layout of the handshake fits it, as far as it goes.
LEMMA HandshakeFits ==
  ASSUME NEW s \in Seq(Field), NEW W, NEW a \in W, \A w \in W : Alike(w, a), Holds(s, 0, a)
  PROVE  /\ Len(a) \in Nat /\ Len(s) \in Nat
         /\ Len(a) <= Len(s) => Whole(W, s) = {a}
         /\ Len(a) > Len(s) => Whole(W, s) = {} /\ a \in Short(W, s)
<1>1. Len(a) \in Nat /\ Len(s) \in Nat
  BY LenProperties DEF Alike
<1>2. \A i \in 1..Len(a) : i <= Len(s) => s[i] = a[i]
  <2> SUFFICES ASSUME NEW i \in 1..Len(a), i <= Len(s)
               PROVE  s[i] = a[i]
    OBVIOUS
  <2>1. 0 + i = i
    BY <1>1
  <2> QED
    BY <2>1 DEF Holds
<1> QED
  BY <1>1, <1>2, OneFits

\* The loops find the version that is spoken, and the first call.
LEMMA HandshakeStep ==
  ASSUME IInv, ReadHandshake
  PROVE  IInv'
<1> DEFINE a == ParseHandshakeClient(Spoken, offers.affinity)
           b == ParseHandshakeDaemon(Spoken)
           cs == {ParseHandshakeClient(Spoken, n) : n \in Counts}
           ds == {b}
<1>1. /\ TypeOK /\ StreamInv /\ GreetInv /\ Spoken \in Nat
      /\ Negotiated(offers.client, offers.server) = Spoken
  BY SpokenIs DEF IInv
<1>2. /\ pc = "handshake" /\ version' = Spoken
      /\ UNCHANGED <<session, client, daemon, cut, reader, op, listed>>
  BY <1>1 DEF ReadHandshake
<1>3. \/ \E c \in Whole(cs, client), d \in Whole(ds, daemon) :
           cpos' = Len(c) /\ dpos' = Len(d) /\ pc' = "op"
      \/ /\ Whole(cs, client) = {} \/ Whole(ds, daemon) = {}
         /\ pc' = IF Short(cs, client) \cup Short(ds, daemon) # {}
                    THEN "failed" ELSE "astray"
         /\ cpos' = cpos /\ dpos' = dpos
  BY <1>2 DEF ReadHandshake, Layouts
<1>4. offers.affinity \in Counts
  BY <1>1 DEF TypeOK
<1>5. a \in cs /\ \A w \in cs : Alike(w, a)
  BY <1>1, <1>4, AlikeHandshakeClient
<1>6. b \in ds /\ \A w \in ds : Alike(w, b)
  BY <1>1, AlikeHandshakeDaemon
<1>7. /\ Holds(client, 0, a) /\ cends[1] = Len(a)
      /\ Holds(daemon, 0, b) /\ dends[1] = Len(b)
      /\ cpos = 0 /\ dpos = 0 /\ listed = <<>>
  BY <1>1, <1>2 DEF GreetInv
<1>8. client \in Seq(Field) /\ daemon \in Seq(Field)
  BY <1>1 DEF StreamInv, Carries
<1> HIDE DEF a, b, cs, ds
<1>9. /\ Len(a) \in Nat /\ Len(client) \in Nat
      /\ Len(a) <= Len(client) => Whole(cs, client) = {a}
      /\ Len(a) > Len(client) => Whole(cs, client) = {} /\ a \in Short(cs, client)
  BY <1>5, <1>7, <1>8, HandshakeFits
<1>10. /\ Len(b) \in Nat /\ Len(daemon) \in Nat
       /\ Len(b) <= Len(daemon) => Whole(ds, daemon) = {b}
       /\ Len(b) > Len(daemon) => Whole(ds, daemon) = {} /\ b \in Short(ds, daemon)
  BY <1>6, <1>7, <1>8, HandshakeFits
<1>11. \/ /\ Len(a) <= Len(client) /\ Len(b) <= Len(daemon)
          /\ cpos' = Len(a) /\ dpos' = Len(b) /\ pc' = "op"
       \/ /\ Len(a) > Len(client) \/ Len(b) > Len(daemon)
          /\ cpos' = 0 /\ dpos' = 0 /\ pc' = "failed"
  BY <1>3, <1>7, <1>9, <1>10
<1>12. /\ calls' = calls /\ cends' = cends /\ dends' = dends /\ client' = client
       /\ daemon' = daemon /\ reader' = reader /\ listed' = listed /\ cut' = cut
  BY <1>2 DEF session
<1>13. pc' \in Loop \cup Ended /\ pc \notin {"greeting", "session"}
  BY <1>2, <1>11 DEF Loop, Ended
<1>14. TypeOK'
  <2>1. cpos' \in 0..Len(client) /\ dpos' \in 0..Len(daemon)
    BY <1>9, <1>10, <1>11
  <2>2. /\ op' \in Ops \cup {"Unknown"}
        /\ listed' \in Seq((Ops \cup {"Unknown"}) \X (Terminals \cup {"none"}))
    BY <1>1, <1>2 DEF TypeOK
  <2> QED
    BY <1>1, <1>2, <1>13, <2>1, <2>2, TypesStay
<1>15. StreamInv' /\ GreetInv'
  BY <1>1, <1>2, <1>13, StreamsStay
<1>16. Len(listed') = 0 /\ 1..0 = {} /\ Len(calls) \in Nat
  BY <1>1, <1>2, <1>7, LenProperties DEF TypeOK
<1>17. pc' \notin InHand \cup {"astray", "done"}
  BY <1>11 DEF InHand, Loop
<1>18. OpInv'
  <2>1. pc' = "op" => /\ cpos' = Least(cends[1], Len(client))
                      /\ dpos' = Least(dends[1], Len(daemon))
    BY <1>7, <1>11 DEF Least
  <2>2. Here' = 1
    BY <1>16 DEF Here
  <2> QED
    BY <1>12, <1>16, <2>1, <2>2 DEF OpInv
<1>19. HandInv' /\ ListedInv' /\ KnownInv'
  BY <1>12, <1>16, <1>17 DEF HandInv, ListedInv, KnownInv
<1>20. EndInv'
  <2>1. ASSUME pc' = "failed", ~cut
        PROVE  FALSE
    <3>1. /\ Len(client) = cends[Len(calls) + 1] /\ Len(daemon) = dends[Len(calls) + 1]
          /\ calls \in Seq(Sayable(Spoken))
          /\ Carries(client, cends, calls, RequestOf(Spoken))
          /\ Carries(daemon, dends, calls, AnswerOf(Spoken))
      BY <1>1, <2>1 DEF StreamInv
    <3>2. cends[1] <= Len(client) /\ dends[1] <= Len(daemon)
      BY <3>1, HandshakeFirst
    <3> QED
      BY <1>7, <1>9, <1>10, <1>11, <2>1, <3>2
  <2>2. ~cut' => ~cut
    BY <1>12, Zenon
  <2>3. pc' # "done"
    BY <1>17
  <2> QED
    BY <2>1, <2>2, <2>3, Zenon DEF EndInv
<1> QED
  BY <1>14, <1>15, <1>18, <1>19, <1>20 DEF IInv, PlaceInv

\* A step that changes nothing.
LEMMA NothingStep ==
  ASSUME IInv, UNCHANGED vars
  PROVE  IInv'
<1>1. /\ offers' = offers /\ mayCut' = mayCut /\ todo' = todo /\ calls' = calls
      /\ cends' = cends /\ dends' = dends /\ client' = client /\ daemon' = daemon
      /\ cut' = cut /\ reader' = reader /\ version' = version /\ pc' = pc
      /\ cpos' = cpos /\ dpos' = dpos /\ op' = op /\ listed' = listed
  BY DEF vars, session
<1>2. Here' = Here /\ Hand' = Hand /\ Spoken' = Spoken
  BY <1>1 DEF Here, Hand, Spoken
<1>3. TypeOK'
  BY <1>1, Zenon DEF IInv, TypeOK
<1>4. StreamInv'
  BY <1>1, <1>2, Zenon DEF IInv, StreamInv
<1>5. GreetInv'
  BY <1>1, <1>2, Zenon DEF IInv, GreetInv
<1>6. OpInv' /\ EndInv' /\ ListedInv' /\ KnownInv'
  BY <1>1, <1>2, Zenon DEF IInv, PlaceInv, OpInv, EndInv, ListedInv, KnownInv
<1>7. HandInv'
  <2>1. Placed' = Placed
    BY <1>1, <1>2 DEF Placed, PlacedAt
  <2> QED
    BY <1>1, <1>2, <2>1, Zenon DEF IInv, PlaceInv, HandInv
<1> QED
  BY <1>3, <1>4, <1>5, <1>6, <1>7 DEF IInv, PlaceInv

\* What the streams hold, and where in them a loop stands, in every state.
THEOREM DecodeInvariant == Spec => []IInv
<1>1. Init => IInv
  BY InitInv
<1>2. IInv /\ [Next]_vars => IInv'
  BY GreetStep, CallStep, OpenStep, HandshakeStep, OpCodeStep, ArgsStep, FramedStep,
     MessageStep, TerminalStep, ErrorStep, ResultStep, NothingStep, Zenon DEF Next, Read
<1> QED
  BY <1>1, <1>2, PTL DEF Spec

\* Types, and that positions stay inside of the streams.
THEOREM DecodeTypes == Spec => []TypeOK
<1>1. IInv => TypeOK
  BY DEF IInv
<1> QED
  BY <1>1, DecodeInvariant, PTL

\* Calls that are all understood are so up to any of them.
LEMMA UnderstoodAll ==
  ASSUME IInv, AllUnderstood
  PROVE  /\ UnderstoodTo(reader, calls, Len(calls)) /\ Len(calls) \in Nat
         /\ \A n : UnderstoodTo(reader, calls, n)
<1>1. Len(calls) \in Nat
  BY LenProperties DEF IInv, TypeOK
<1>2. UnderstoodTo(reader, calls, Len(calls))
  BY DEF AllUnderstood, Understood, UnderstoodTo, Understands
<1> QED
  BY <1>1, <1>2, AllIsTo

\* As long as calls are understood, no loop takes one kind of field for another,
\* whenever it looks for an operation both positions are at the same call.
THEOREM LoopsStayInStep == Spec => []StaysInStep
<1>1. ASSUME IInv
      PROVE  StaysInStep
  <2> SUFFICES ASSUME AllUnderstood
               PROVE  InStep
    BY DEF StaysInStep
  <2>1. /\ UnderstoodTo(reader, calls, Here) /\ UnderstoodTo(reader, calls, Len(listed))
        /\ OpInv /\ HandInv
    BY <1>1, UnderstoodAll DEF IInv, PlaceInv
  <2> QED
    BY <2>1 DEF InStep, OpInv, HandInv, Here
<1> QED
  BY <1>1, DecodeInvariant, PTL

\* What decode, stats, replay and decompile find are the calls of the session in
\* order, with their own ends or, behind a cut, with none.
THEOREM OnlyCallsAreListed == Spec => []ListedHappened
<1>1. ASSUME IInv
      PROVE  ListedHappened
  <2> SUFFICES ASSUME AllUnderstood
               PROVE  /\ Len(listed) <= Len(calls)
                      /\ \A k \in 1..Len(listed) :
                           /\ listed[k][1] = calls[k].op
                           /\ \/ listed[k][2] = calls[k].answer
                              \/ /\ cut
                                 /\ \A i \in k..Len(listed) : listed[i][2] = "none"
    BY Zenon DEF ListedHappened
  <2>1. UnderstoodTo(reader, calls, Len(listed)) /\ ListedInv
    BY <1>1, UnderstoodAll DEF IInv, PlaceInv
  <2> QED
    BY <2>1, Zenon DEF ListedInv
<1> QED
  BY <1>1, DecodeInvariant, PTL

\* A recording that was not cut is read to its last call, and no loop fails on it.
THEOREM WholeRecordingsAreListed == Spec => []WholeIsListed
<1>1. ASSUME IInv
      PROVE  WholeIsListed
  <2> SUFFICES ASSUME AllUnderstood, ~cut
               PROVE  /\ pc # "failed"
                      /\ pc = "done" => Len(listed) = Len(calls)
                      /\ \A k \in 1..Len(listed) : listed[k][2] = calls[k].answer
    BY Zenon DEF WholeIsListed
  <2>1. /\ UnderstoodTo(reader, calls, Len(listed)) /\ UnderstoodTo(reader, calls, Len(calls))
        /\ ListedInv /\ EndInv
    BY <1>1, UnderstoodAll DEF IInv, PlaceInv
  <2>2. pc # "failed" /\ (pc = "done" => Len(listed) = Len(calls))
    BY <2>1, Zenon DEF EndInv
  <2>3. \A k \in 1..Len(listed) : listed[k][2] = calls[k].answer
    BY <2>1, Zenon DEF ListedInv
  <2> QED
    BY <2>2, <2>3
<1> QED
  BY <1>1, DecodeInvariant, PTL

\* stats lists nothing from the first operation on that it does not know.
THEOREM StatsStopsAtUnknown == Spec => []UnknownStopsStats
<1>1. ASSUME IInv
      PROVE  UnknownStopsStats
  <2> SUFFICES ASSUME NEW k \in 1..Len(calls), reader = "stats", calls[k].op = "Unknown",
                      \A i \in 1..(k - 1) : Understood(calls[i])
               PROVE  Len(listed) < k /\ pc # "astray"
    BY DEF UnknownStopsStats
  <2>1. KnownInv /\ HandInv
    BY <1>1 DEF IInv, PlaceInv
  <2>2. Len(calls) \in Nat /\ Len(listed) \in Nat /\ k \in Nat /\ k > 0
    BY <1>1, LenProperties DEF IInv, TypeOK
  <2>3. UnderstoodTo(reader, calls, k - 1)
    BY DEF UnderstoodTo, Understood, Understands
  <2>4. Len(listed) < k
    <3>1. k \in 1..Len(listed) => FALSE
      BY <2>1, <2>3 DEF KnownInv
    <3> QED
      BY <2>2, <3>1
  <2>5. pc # "astray"
    <3> SUFFICES ASSUME pc = "astray"
                 PROVE  FALSE
      OBVIOUS
    <3>1. UnderstoodTo(reader, calls, Len(listed))
      BY <2>2, <2>3, <2>4, UnderstoodLess
    <3>2. Here <= Len(calls) /\ Hand.op # "Unknown"
      BY <2>1, <3>1 DEF KnownInv
    <3>3. ~UnderstoodTo(reader, calls, Here)
      BY <2>1 DEF HandInv
    <3>4. Here # k
      BY <3>2 DEF Hand
    <3>5. Here <= k - 1
      BY <2>2, <2>4, <3>4 DEF Here
    <3>6. UnderstoodTo(reader, calls, Here)
      <4>1. Here \in Nat /\ k - 1 \in Nat
        BY <2>2 DEF Here
      <4> QED
        BY <2>3, <3>5, <4>1, UnderstoodLess
    <3> QED
      BY <3>3, <3>6
  <2> QED
    BY <2>4, <2>5
<1> QED
  BY <1>1, DecodeInvariant, PTL
=============================================================================
