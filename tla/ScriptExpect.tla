------------------------------ MODULE ScriptExpect ------------------------------
(***************************************************************************)
(* The daemon's answers in a .nwscript: the comments unpack leaves behind a *)
(* request (script/format.rs), the expectations a user writes instead       *)
(* (script/parse.rs), and their evaluation (script/expect.rs).  Matchers    *)
(* other than Exact are left out: regular expressions, and numbers compared *)
(* by the hand of the user.                                                 *)
(***************************************************************************)
EXTENDS ScriptText

\* A response: [terminal, count, error, result]; error and result are options.
\* A result: [variant, of], of being a value or a record of options.

\* The comments of format_result_comment: <<what follows "result", its text>>.
Field(name, text) == <<<<".", name>>, text>>
Maybe(opt, F(_)) == IF opt = None THEN <<>> ELSE <<F(opt[1])>>
GivenField(name, opt, Text(_)) == Maybe(opt, LAMBDA x : Field(name, Text(x)))
Self(x) == x
Flag(x) == <<IF x THEN "1" ELSE "0">>
Word(x) == <<x>>

FormatResult(r) ==
  CASE r.variant = "U64" -> << <<None, Word(r.of)>> >>
    [] r.variant = "Str" -> << <<None, r.of>> >>
    [] r.variant = "StringSet" -> << <<None, FormatSet(r.of)>> >>
    [] r.variant = "StringMap" ->
         <<Field("count", <<"count">>)>>
           \o [i \in DOMAIN r.of |-> <<None, Quoted(r.of[i][1]) \o <<SP, "=", SP>>
                                             \o Quoted(r.of[i][2])>>]
    [] r.variant = "Nothing" -> <<>>
    [] r.variant = "Framed" -> << <<None, <<"framed", SP, "7", SP, "bytes">>>> >>
    [] r.variant = "CollectGarbage" -> <<Field("bytes_freed", Word(r.of))>>
    [] r.variant = "PathInfo" ->
         <<Field("valid", Flag(r.of.valid))>>
           \o (IF r.of.deriver = Some(<<>>) THEN <<>>
               ELSE GivenField("deriver", r.of.deriver, Self))
           \o GivenField("narHash", r.of.narHash, Self)
           \o GivenField("references", r.of.references, FormatSet)
           \o GivenField("narSize", r.of.narSize, Word)
    [] r.variant = "SubstitutablePathInfo" ->
         <<Field("valid", Flag(r.of.valid))>>
           \o GivenField("deriver", r.of.deriver, Self)
           \o GivenField("downloadSize", r.of.downloadSize, Word)
           \o GivenField("narSize", r.of.narSize, Word)
    [] r.variant = "Missing" ->
         <<Field("willBuild", FormatSet(r.of.willBuild)),
           Field("willSubstitute", FormatSet(r.of.willSubstitute)),
           Field("unknown", FormatSet(r.of.unknown)),
           Field("downloadSize", Word(r.of.downloadSize)),
           Field("narSize", Word(r.of.narSize))>>

Comment(subject, text) == <<SP, SP, "#", SP>> \o subject \o <<":", SP>> \o text

FormatResponse(resp) ==
  <<Comment(<<"response">>, <<resp.terminal>>)>>
    \o (IF resp.count = "0" \/ resp.count = "1" THEN <<>>
        ELSE <<Comment(<<"stderr.count">>, <<resp.count>>)>>)
    \o (IF resp.error = None THEN <<>> ELSE <<Comment(<<"error">>, resp.error[1])>>)
    \o (IF resp.result = None THEN <<>>
        ELSE LET fs == FormatResult(resp.result[1])
             IN  [i \in DOMAIN fs |-> Comment(<<"result">> \o fs[i][1], fs[i][2])])

-----------------------------------------------------------------------------

\* A user turns a comment into an expectation.  That on the response is called
\* by no name.
IsComment(text) == StartsWith(Trim(text), "#")
Converted(text) ==
  LET indent == Before(text, Index(text, "#"))
      about == Trim(After(text, Index(text, "#")))
  IN  indent \o <<"expect">>
        \o (IF StartsWith(about, "response") THEN Tail(about) ELSE <<SP>> \o about)
IsConvertible(text) ==
  /\ IsComment(text)
  /\ LET about == Trim(After(text, Index(text, "#")))
     IN  /\ about # <<>> /\ Mentions(about, ":")
         /\ about[1] \in {"response", "stderr.count", "error", "result",
                          "daemon", "trust", "server_features"}

\* parse_expect: [about, field, want], or None.
ParseExpect(s) ==
  LET rest == Trim(Tail(s))
      want == Trim(Beyond(rest, ":"))
      to == Trim(Upto(rest, ":"))
      Of(about, field) == Some([about |-> about, field |-> field, want |-> want])
  IN  IF ~StartsWith(s, "expect") \/ ~Mentions(rest, ":") THEN None
      ELSE CASE to = <<>> -> Of("terminal", None)
             [] to \in {<<"stderr.count">>, <<"error">>, <<"result">>, <<"daemon">>,
                        <<"trust">>, <<"server_features">>} -> Of(to[1], None)
             [] Len(to) = 3 /\ to[1] = "result" /\ to[2] = "." -> Of("result", Some(to[3]))
             [] OTHER -> None

\* Wrong: one size is taken for the other.
MissingSizeSwapped(m, size) == IF size = "narSize" THEN m.downloadSize ELSE m.narSize

MissingSize(m, size) == IF size = "narSize" THEN m.narSize ELSE m.downloadSize

\* extract_result_value: the text of a field, or None.
Extract(r, field) ==
  LET Text(opt, T(_)) == IF opt = None THEN None ELSE Some(T(opt[1]))
      List(ss) == <<"[">> \o Join(ss, <<COMMA, SP>>) \o <<"]">>
      Is(variant, f) == r.variant = variant /\ field = f
  IN  CASE Is("U64", None) -> Some(Word(r.of))
        [] Is("Str", None) -> Some(r.of)
        [] Is("StringSet", None) -> Some(List(r.of))
        [] Is("CollectGarbage", Some("bytes_freed")) -> Some(Word(r.of))
        [] Is("PathInfo", Some("valid")) -> Some(Flag(r.of.valid))
        [] Is("PathInfo", Some("deriver")) -> r.of.deriver
        [] Is("PathInfo", Some("narHash")) -> r.of.narHash
        [] Is("PathInfo", Some("narSize")) -> Text(r.of.narSize, Word)
        [] Is("PathInfo", Some("references")) -> Text(r.of.references, List)
        [] Is("SubstitutablePathInfo", Some("valid")) -> Some(Flag(r.of.valid))
        [] Is("SubstitutablePathInfo", Some("downloadSize")) -> Text(r.of.downloadSize, Word)
        [] Is("SubstitutablePathInfo", Some("narSize")) -> Text(r.of.narSize, Word)
        [] Is("Missing", Some("downloadSize")) \/ Is("Missing", Some("narSize")) ->
             Some(Word(MissingSize(r.of, field[1])))
        [] OTHER -> None

\* evaluate_expect, behind an operation.
Passes(x, resp) ==
  CASE x.about = "terminal" -> x.want = <<resp.terminal>>
    [] x.about = "stderr.count" -> x.want = <<resp.count>>
    [] x.about = "error" -> resp.error = Some(x.want)
    [] x.about = "result" ->
         resp.result # None /\ Extract(resp.result[1], x.field) = Some(x.want)
    [] OTHER -> FALSE

\* evaluate_handshake_expect, in the preamble.
PassesHandshake(x, p) ==
  CASE x.about = "daemon" ->
         x.want = IF p.daemon = None THEN <<"unknown">> ELSE p.daemon[1]
    [] x.about = "trust" -> x.want = <<IF p.trust = None THEN "unknown" ELSE p.trust[1]>>
    [] x.about = "server_features" ->
         x.want = <<OPEN, SP>> \o Join(p.server_features, <<COMMA, SP>>) \o <<SP, CLOSE>>
    [] OTHER -> FALSE
=============================================================================
