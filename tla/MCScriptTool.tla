----------------------------- MODULE MCScriptTool -----------------------------
(* Values of ScriptTool's constants for TLC.                               *)
EXTENDS ScriptTool

\* int(float("%.3f" % (us / 1000)) * 1e6) < 1000 * us, of those that occur here.
SomeFallShort == {1001, 1003}

\* Strings of what the text gives a meaning, beside letters.
Chars == {"a", "n", BS, QT, NL, COMMA, CLOSE, SP}
Strings(n) == SeqOf(Chars, n)
A == <<"a">>

Quiet == [terminal |-> "Last", count |-> "1", error |-> None, result |-> None]
Answer(r) == [Quiet EXCEPT !.count = "7", !.result = Some(r)]
Failure(s) == [Quiet EXCEPT !.terminal = "Error", !.error = Some(s)]
Entry(at, op, v, args, resp) ==
  [at |-> at, op |-> op, variant |-> ReadVariant(op, v), args |-> args, response |-> resp]
Session(v, es) ==
  [version |-> v, features |-> <<A>>, daemon |-> Some(A), trust |-> Some("trusted"),
   server_features |-> <<A>>, entries |-> es, edits |-> {}, dir |-> FALSE]

\* The fields of each variant, by the values they have.
Kinds(variant) ==
  CASE variant \in {"SinglePath", "QuerySubstitutablePathInfo"} -> [path |-> "str"]
    [] variant \in {"SingleString", "RegisterDrvOutput", "QueryRealisation"} ->
         [value |-> "str"]
    [] variant \in {"PathSet", "QuerySubstitutablePathInfos"} -> [paths |-> "set"]
    [] variant = "PathSetFlag" -> [paths |-> "set", substitute |-> "flag"]
    [] variant = "PathSetMode" -> [paths |-> "set", mode |-> "mode"]
    [] variant = "AddPermRoot" -> [path |-> "str", gc_root |-> "str"]
    [] variant = "AddSignatures" -> [path |-> "str", sigs |-> "set"]
    [] variant = "SetOptions" ->
         [k \in Range(OptionKeys) |-> "num"] @@ [overrides |-> "pairs"]
    [] variant = "CollectGarbage" -> [action |-> "num", paths |-> "set",
                                      ignore_liveness |-> "num", max_freed |-> "num"]
    [] variant = "VerifyStore" -> [check_contents |-> "flag", repair |-> "flag"]
    [] variant = "AddTextToStore" -> [suffix |-> "str", text |-> "long", refs |-> "set"]
    [] variant = "AddToStore" -> [name |-> "str", cam_str |-> "str", refs |-> "set",
                                  repair |-> "flag", data |-> "data"]
    [] variant = "AddMultipleToStore" ->
         [repair |-> "flag", dont_check_sigs |-> "flag", data |-> "data"]
    [] variant = "AddBuildLog" -> [path |-> "str", data |-> "data"]
    [] OTHER -> <<>>

Values(kind) ==
  CASE kind = "str" -> Strings(2) \cup {<<NL, SP, SP>>}
    [] kind = "long" -> Strings(3)
    [] kind = "set" -> {<<>>} \cup {<<x>> : x \in Strings(2)} \cup {<<A, x>> : x \in Strings(1)}
    [] kind = "pairs" -> {<<>>} \cup {<< <<x, A>> >> : x \in Strings(2)}
                           \cup {<< <<A, A>>, <<A, x>> >> : x \in Strings(2)}
    [] kind = "num" -> Numbers
    [] kind = "mode" -> {"normal", "repair"}
    [] kind = "flag" -> BOOLEAN
    [] kind = "data" -> {Inline("small"), Inline("large")}
Ordinary(kind) ==
  CASE kind \in {"str", "long"} -> A
    [] kind = "set" -> <<A, A>>
    [] kind = "pairs" -> << <<A, A>> >>
    [] kind = "num" -> "7"
    [] kind = "mode" -> "repair"
    [] kind = "flag" -> TRUE
    [] kind = "data" -> Inline("large")

OrdinaryArgs(op, v) ==
  LET kinds == Kinds(ReadVariant(op, v)) IN [k \in DOMAIN kinds |-> Ordinary(kinds[k])]
ArgsOf(op, v) ==
  {OrdinaryArgs(op, v)}
    \cup UNION {{[OrdinaryArgs(op, v) EXCEPT ![k] = x] : x \in Values(Kinds(ReadVariant(op, v))[k])} :
                  k \in DOMAIN Kinds(ReadVariant(op, v))}

\* Each operation, with each value in one of its fields.
EachCall ==
  {Session(38, <<Entry(0, op, 38, a, Quiet)>>) : <<op, a>> \in
     UNION {{<<op, a>> : a \in ArgsOf(op, 38)} : op \in Ops}}
    \cup {Session(24, <<Entry(0, "AddToStore", 24, <<>>, Quiet)>>),
          Session(38, <<Entry(0, "Unknown", 38, <<>>, Quiet)>>)}

Call(at, op, resp) == Entry(at, op, 38, OrdinaryArgs(op, 38), resp)

\* Each string where a comment or the preamble has one.
EachNote ==
  {Session(38, <<Call(0, "VerifyStore", r), Call(0, "IsValidPath", Quiet)>>) :
     r \in {Failure(x) : x \in Strings(2)}
             \cup {Answer([variant |-> "Str", of |-> x]) : x \in Strings(2)}
             \cup {Answer([variant |-> "StringSet", of |-> <<x>>]) : x \in Strings(1)}}
    \cup {[Session(38, <<>>) EXCEPT !.features = <<x>>] : x \in Strings(2)}
    \cup {[Session(9, <<>>) EXCEPT !.daemon = Some(x), !.trust = None] : x \in Strings(2)}
    \cup {[Session(38, <<>>) EXCEPT !.server_features = <<A, x>>] : x \in Strings(2)}

\* Each result there is, made into an expectation line by line.
Info(variant, given) ==
  [variant |-> variant,
   of |-> [valid |-> given, deriver |-> IF given THEN Some(A) ELSE None,
           narHash |-> IF given THEN Some(A) ELSE None,
           references |-> IF given THEN Some(<<A, A>>) ELSE None,
           narSize |-> IF given THEN Some("7") ELSE None,
           downloadSize |-> IF given THEN Some("1") ELSE None]]
Results ==
  {Info(i, g) : i \in {"PathInfo", "SubstitutablePathInfo"}, g \in BOOLEAN}
    \cup {[variant |-> "PathInfo", of |-> [Info("PathInfo", TRUE).of EXCEPT !.deriver = Some(<<>>)]],
          [variant |-> "U64", of |-> "1"], [variant |-> "Str", of |-> A],
          [variant |-> "StringSet", of |-> <<A>>], [variant |-> "StringSet", of |-> <<>>],
          [variant |-> "StringMap", of |-> << <<A, A>> >>], [variant |-> "Nothing", of |-> <<>>],
          [variant |-> "Framed", of |-> <<>>], [variant |-> "CollectGarbage", of |-> "7"],
          [variant |-> "Missing", of |-> [willBuild |-> <<A>>, willSubstitute |-> <<>>,
             unknown |-> <<A, A>>, downloadSize |-> "1", narSize |-> "7"]]}
Asked ==
  {[Session(38, <<Call(0, "IsValidPath", r), Call(0, "VerifyStore", Quiet)>>) EXCEPT
      !.edits = {"converted"}] :
     r \in {Answer(x) : x \in Results} \cup {Failure(<<"a", SP, "n">>), Failure(<<"a", SP>>)}}
    \cup {[Session(38, <<>>) EXCEPT !.edits = {"converted"}, !.server_features = <<>>],
          [Session(38, <<>>) EXCEPT !.edits = {"converted"}, !.daemon = Some(<<SP, "a">>)]}

\* Sessions of several operations, to insert lines, leave times out, and write files.
Several ==
  {[Session(38, [k \in DOMAIN ops |-> Call(times[k], ops[k], Failure(A))]) EXCEPT
      !.edits = {"inserted", "cut", "untimed"}, !.dir = TRUE] :
     ops \in {<<"SetOptions", "AddToStore", "AddBuildLog">>,
              <<"AddMultipleToStore", "CollectGarbage", "AddTextToStore">>,
              <<"AddToStoreNar", "VerifyStore", "QueryMissing">>},
     times \in {<<0, 999600, 1000600>>, <<1000600, 1001400, 3000000>>,
                <<1002000, 1002700, 1003400>>}}

AllScripts == EachCall \cup EachNote \cup Asked \cup Several
=============================================================================
