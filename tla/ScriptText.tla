------------------------------- MODULE ScriptText -------------------------------
(***************************************************************************)
(* The text of a .nwscript: how script/format.rs writes a request, and how *)
(* script/parse.rs reads it back.  A text is a sequence of tokens.  A token *)
(* is one character where the two disagree about characters, and a whole    *)
(* word (an operation, a key, a number, hex digits) where they do not.      *)
(* Escapes \r and \t are left out; they are treated like \n.                *)
(***************************************************************************)
EXTENDS OpLayouts, SequencesExt

BS == "\\"
QT == "\""
NL == "\n"
SP == " "
COMMA == ","
OPEN == "{"
CLOSE == "}"

\* Option<T>: None, or Some(x).
None == <<>>
Some(x) == <<x>>

\* f, and g where f is not defined.
Extended(f, g) ==
  [k \in DOMAIN f \cup DOMAIN g |-> IF k \in DOMAIN f THEN f[k] ELSE g[k]]

-----------------------------------------------------------------------------
(* What the code takes from the standard library for strings.              *)

Index(s, t) == SelectInSeq(s, LAMBDA x : x = t)
Before(s, i) == SubSeq(s, 1, i - 1)
After(s, i) == SubSeq(s, i + 1, Len(s))
StartsWith(s, t) == s # <<>> /\ s[1] = t
Mentions(s, t) == \E i \in DOMAIN s : s[i] = t

\* splitn(2, c): what is before the first c, and what is behind it.
Upto(s, c) == IF Mentions(s, c) THEN Before(s, Index(s, c)) ELSE s
Beyond(s, c) == IF Mentions(s, c) THEN After(s, Index(s, c)) ELSE <<>>

Trim(s) ==
  LET ink == {i \in DOMAIN s : s[i] # SP}
  IN  IF ink = {} THEN <<>>
      ELSE SubSeq(s, CHOOSE i \in ink : \A j \in ink : i <= j,
                     CHOOSE i \in ink : \A j \in ink : j <= i)

Split(s, c) ==
  LET Part(k) == {i \in DOMAIN s : s[i] # c /\ Cardinality({j \in 1..i : s[j] = c}) = k}
  IN  IF ~Mentions(s, c) THEN <<s>>
      ELSE [k \in 1..(Cardinality({i \in DOMAIN s : s[i] = c}) + 1) |->
              LET part == Part(k - 1)
              IN  IF part = {} THEN <<>> ELSE SubSeq(s, Min(part), Max(part))]

Join(ss, sep) ==
  FlattenSeq([i \in DOMAIN ss |-> IF i = 1 THEN ss[i] ELSE sep \o ss[i]])

\* replace() of one character by several, and of a backslash and c by one.
Put(s, c, new) ==
  FlattenSeq([i \in DOMAIN s |-> IF s[i] = c THEN new ELSE <<s[i]>>])
Undo(s, c, new) ==
  LET from[i \in 1..(Len(s) + 1)] ==
        IF i > Len(s) THEN <<>>
        ELSE IF i < Len(s) /\ s[i] = BS /\ s[i + 1] = c THEN <<new>> \o from[i + 2]
        ELSE <<s[i]>> \o from[i + 1]
  IN  from[1]

-----------------------------------------------------------------------------
(* Values.                                                                 *)

\* Wrong: the backslashes of escaped quotes are escaped again.
EscapeQuotesFirst(s) == Put(Put(Put(s, QT, <<BS, QT>>), BS, <<BS, BS>>), NL, <<BS, "n">>)

Escape(s) == Put(Put(Put(s, BS, <<BS, BS>>), QT, <<BS, QT>>), NL, <<BS, "n">>)

Unquote(s) ==
  IF Len(s) >= 2 /\ s[1] = QT /\ s[Len(s)] = QT
    THEN Undo(Undo(Undo(SubSeq(s, 2, Len(s) - 1), "n", NL), QT, QT), BS, BS)
    ELSE s

Quoted(s) == <<QT>> \o s \o <<QT>>

FormatSet(paths) ==
  IF paths = <<>> THEN <<OPEN, SP, CLOSE>>
  ELSE <<OPEN, SP>> \o Join(paths, <<COMMA, SP>>) \o <<SP, CLOSE>>

\* What is between the braces, item by item.
Items(inner) ==
  IF inner = <<>> THEN <<>>
  ELSE LET parts == Split(inner, COMMA) IN [i \in DOMAIN parts |-> Trim(parts[i])]

\* parse_inline_path_set, and the rest of its line.
SetIsClosed(s) == StartsWith(s, OPEN) => Mentions(s, CLOSE)
ParseSet(s) ==
  IF StartsWith(s, OPEN) THEN Items(Trim(SubSeq(s, 2, Index(s, CLOSE) - 1)))
  ELSE IF s = <<>> THEN <<>> ELSE <<s>>
BehindSet(s) == IF StartsWith(s, OPEN) THEN Trim(After(s, Index(s, CLOSE))) ELSE <<>>

Filled(ss) == FlattenSeq([i \in DOMAIN ss |-> IF ss[i] = <<>> THEN <<>> ELSE <<ss[i]>>])
ParseFeatures(s) ==
  IF s # <<>> /\ s[1] = OPEN /\ s[Len(s)] = CLOSE
    THEN Filled(Items(Trim(SubSeq(s, 2, Len(s) - 1))))
    ELSE Filled(Split(s, SP))

Numbers == {"0", "1", "7"}
ParseNumber(s) == IF \E n \in Numbers : s = <<n>> THEN s[1] ELSE "0"

\* "name" = "value": both end at their first quote.
Assignment(s) == Split(s, QT)
IsAssignment(s) ==
  LET p == Assignment(s)
  IN  Len(p) >= 5 /\ p[1] = <<>> /\ Trim(p[3]) = <<"=">>
ParseAssignment(s) == <<Assignment(s)[2], Assignment(s)[4]>>

\* Framed data: bytes, or the file they are in.
Inline(bytes) == [inFile |-> FALSE, of |-> bytes]
FileRef(name) == [inFile |-> TRUE, of |-> name]
FormatData(data) ==
  IF data.inFile THEN <<"@file:", data.of>> ELSE <<"x", QT, data.of, QT>>
DataIsKnown(s) == s # <<>> /\ s[1] \in {"x", "@file:"}
ParseData(s) == IF s[1] = "x" THEN Inline(s[3]) ELSE FileRef(s[2])

-----------------------------------------------------------------------------
(* Calls: an operation, the variant of OpCall it is kept in, and the fields *)
(* of that variant.                                                         *)

\* decompile_streams: read_op_args, or what stands in for it.
ReadVariant(op, v) ==
  CASE op = "Unknown" -> "RawBytes"
    [] ReadsRaw(op, v) -> "RawBytes"
    [] op \in PathOps -> "SinglePath"
    [] op \in StringOps -> "SingleString"
    [] op \in NoArgOps -> "NoArgs"
    [] op = "QueryValidPaths" -> "PathSetFlag"
    [] op \in {"BuildPaths", "BuildPathsWithResults"} -> "PathSetMode"
    [] op \in {"QuerySubstitutablePaths", "QueryMissing"} -> "PathSet"
    [] OTHER -> op

\* parse_op_line.
ParseVariant(op) ==
  CASE op \in ComplexOps -> "RawBytes"
    [] op \in PathOps -> "SinglePath"
    [] op \in StringOps -> "SingleString"
    [] op \in NoArgOps -> "NoArgs"
    [] op = "QueryValidPaths" -> "PathSetFlag"
    [] op \in {"BuildPaths", "BuildPathsWithResults"} -> "PathSetMode"
    [] op \in {"QuerySubstitutablePaths", "QueryMissing"} -> "PathSet"
    [] OTHER -> op

\* An operation without a name is given one.
NameOf(op) == IF op = "Unknown" THEN "IsValidPath" ELSE op

\* What format_entry writes behind the name of the operation.
FormatHead(c) ==
  LET a == c.args
  IN  CASE c.variant \in {"SinglePath", "AddBuildLog", "QuerySubstitutablePathInfo"} ->
             <<SP>> \o a.path
        [] c.variant \in {"SingleString", "RegisterDrvOutput", "QueryRealisation"} ->
             <<SP>> \o a.value
        [] c.variant \in {"PathSet", "QuerySubstitutablePathInfos"} ->
             <<SP>> \o FormatSet(a.paths)
        [] c.variant = "PathSetFlag" ->
             <<SP>> \o FormatSet(a.paths)
               \o (IF a.substitute THEN <<SP, "substitute">> ELSE <<>>)
        [] c.variant = "PathSetMode" -> <<SP>> \o FormatSet(a.paths) \o <<SP, a.mode>>
        [] c.variant = "AddPermRoot" -> <<SP>> \o a.path \o <<SP>> \o a.gc_root
        [] c.variant = "AddSignatures" -> <<SP>> \o a.path \o <<SP>> \o FormatSet(a.sigs)
        [] OTHER -> <<>>

OptionKeys == <<"keep_failed", "keep_going", "try_fallback", "verbosity",
  "max_build_jobs", "max_silent_time", "use_build_hook", "verbose_build",
  "log_type", "print_build_trace", "build_cores", "use_substitutes">>

\* The lines below it: keys in the order they are written, and how.
FormatKeys(variant) ==
  CASE variant = "SetOptions" ->
         [i \in DOMAIN OptionKeys |-> <<OptionKeys[i], "number">>]
           \o << <<"overrides", "assignments">> >>
    [] variant = "CollectGarbage" ->
         << <<"action", "number">>, <<"paths", "set">>,
            <<"ignore_liveness", "number">>, <<"max_freed", "number">> >>
    [] variant = "VerifyStore" -> << <<"check_contents", "flag">>, <<"repair", "flag">> >>
    [] variant = "AddTextToStore" ->
         << <<"suffix", "quoted">>, <<"text", "escaped">>, <<"refs", "set">> >>
    [] variant = "AddToStore" ->
         << <<"name", "quoted">>, <<"cam_str", "quoted">>, <<"refs", "set">>,
            <<"repair", "flag">>, <<"data", "data">> >>
    [] variant = "AddMultipleToStore" ->
         << <<"repair", "flag">>, <<"dont_check_sigs", "flag">>, <<"data", "data">> >>
    [] variant = "AddBuildLog" -> << <<"data", "data">> >>
    [] OTHER -> <<>>

FormatValue(how, x) ==
  CASE how = "number" -> <<x>>
    [] how = "flag" -> <<IF x THEN "1" ELSE "0">>
    [] how = "set" -> FormatSet(x)
    [] how = "quoted" -> Quoted(x)
    [] how = "escaped" -> Quoted(Escape(x))
    [] how = "data" -> FormatData(x)
    [] how = "assignments" -> <<"count">>

FormatField(key, how, x) ==
  << <<SP, SP, key, ":", SP>> \o FormatValue(how, x) >>
    \o IF how # "assignments" THEN <<>>
       ELSE [i \in DOMAIN x |-> <<SP, SP, SP, SP>> \o Quoted(x[i][1])
                                  \o <<SP, "=", SP>> \o Quoted(x[i][2])]

FormatCall(c) ==
  << <<NameOf(c.op)>> \o FormatHead(c) >>
    \o FlattenSeq([i \in DOMAIN FormatKeys(c.variant) |->
         LET f == FormatKeys(c.variant)[i] IN FormatField(f[1], f[2], c.args[f[1]])])

\* The keys each parse_* function looks for, and what it makes of them.
ParseKeys(op) ==
  CASE op = "SetOptions" ->
         Extended([k \in Range(OptionKeys) |-> "number"], [overrides |-> "assignments"])
    [] op = "CollectGarbage" ->
         [action |-> "number", paths |-> "set", ignore_liveness |-> "number",
          max_freed |-> "number"]
    [] op = "VerifyStore" -> [check_contents |-> "flag", repair |-> "flag"]
    [] op = "AddTextToStore" -> [suffix |-> "quoted", text |-> "quoted", refs |-> "set"]
    [] op = "AddToStore" ->
         [name |-> "quoted", cam_str |-> "quoted", refs |-> "set", repair |-> "flag",
          data |-> "data"]
    [] op = "AddMultipleToStore" ->
         [repair |-> "flag", dont_check_sigs |-> "flag", data |-> "data"]
    [] op = "AddBuildLog" -> [data |-> "data"]
    [] OTHER -> <<>>

\* What a key that is not there counts as.
Missing(how) ==
  CASE how = "number" -> "0"
    [] how = "flag" -> FALSE
    [] how = "data" -> Inline("empty")
    [] OTHER -> <<>>

ValueIsBad(how, s) ==
  \/ how = "set" /\ ~SetIsClosed(s)
  \/ how = "data" /\ ~DataIsKnown(s)

ParseValue(how, s) ==
  CASE how = "number" -> ParseNumber(s)
    [] how = "flag" -> s # <<"0">>
    [] how = "set" -> ParseSet(s)
    [] how = "quoted" -> Unquote(s)
    [] how = "data" -> ParseData(s)

\* What parse_op_line makes of the arguments on the operation's own line.
SetOps == {"QueryValidPaths", "BuildPaths", "BuildPathsWithResults",
  "QuerySubstitutablePaths", "QueryMissing", "QuerySubstitutablePathInfos"}
HeadIsBad(op, a) ==
  \/ op \in SetOps /\ ~SetIsClosed(a)
  \/ op = "AddSignatures" /\ ~SetIsClosed(Trim(Beyond(a, SP)))

ParseHead(op, a) ==
  CASE op \in PathOps \cup {"AddBuildLog", "QuerySubstitutablePathInfo"} -> [path |-> a]
    [] op \in StringOps \cup {"RegisterDrvOutput", "QueryRealisation"} -> [value |-> a]
    [] op = "QueryValidPaths" ->
         [paths |-> ParseSet(a), substitute |-> BehindSet(a) = <<"substitute">>]
    [] op \in {"BuildPaths", "BuildPathsWithResults"} ->
         [paths |-> ParseSet(a),
          mode |-> IF BehindSet(a) = <<>> THEN "normal" ELSE BehindSet(a)[1]]
    [] op \in {"QuerySubstitutablePaths", "QueryMissing", "QuerySubstitutablePathInfos"} ->
         [paths |-> ParseSet(a)]
    [] op = "AddPermRoot" -> [path |-> Upto(a, SP), gc_root |-> Beyond(a, SP)]
    [] op = "AddSignatures" ->
         [path |-> Upto(a, SP), sigs |-> ParseSet(Trim(Beyond(a, SP)))]
    [] OTHER -> <<>>

ParseCall(op, a) ==
  [op |-> op, variant |-> ParseVariant(op),
   args |-> Extended(ParseHead(op, a),
                     [k \in DOMAIN ParseKeys(op) |-> Missing(ParseKeys(op)[k])])]
=============================================================================
