------------------------------- MODULE ScriptTool -------------------------------
(***************************************************************************)
(* nix-wire-script: unpack writes a recorded session as a text, its user    *)
(* may edit a line, and pack or run parses it line by line and turns it     *)
(* into a recording or requests again (script.rs, script/parse.rs).  The    *)
(* parser keeps a position, which the functions it is made of move on, and  *)
(* each of them decides for itself which lines are its own.                 *)
(*                                                                         *)
(* Times are nanoseconds.  The @...ms in front of a line is kept beside it. *)
(***************************************************************************)
EXTENDS ScriptExpect

CONSTANTS
  Scripts,     \* what decompile_streams may have made of a recording
  FallsShort   \* the microseconds whose product with 1e-3 and 1e6 in floating
               \* point is less than the whole number of nanoseconds

ASSUME FallsShort \subseteq Nat

VARIABLES
  script,      \* the decompiled recording
  text,        \* the lines of the .nwscript
  files,       \* the data files written beside it
  edit,        \* what its user has changed
  pc,          \* which part of the tool is at work
  pos,         \* next line to parse
  preamble,    \* parsed preamble
  entry,       \* the entry that is being parsed
  overriding,  \* parse_set_options is below its overrides
  entries,     \* parsed entries
  turns,       \* turns of the parser's loops so far
  offsets      \* times of the records that were packed

parser == <<pos, preamble, entry, overriding, entries>>
vars == <<script, text, files, edit, pc, parser, turns, offsets>>

Parts == {"preamble", "top", "args", "tail"}
NoEntry == [at |-> None, op |-> "Unknown", variant |-> "RawBytes", args |-> <<>>,
            expects |-> <<>>]

TypeOK ==
  /\ edit \in {"none"} \cup script.edits
  /\ pc \in {"unpack", "edit", "pack", "done", "failed"} \cup Parts
  /\ pos \in 1..(Len(text) + 1)
  /\ overriding \in BOOLEAN
  /\ entry.op \in Ops \cup {"Unknown"}
  /\ Len(entries) <= Len(text)
  /\ Len(offsets) <= Len(entries)

Init ==
  /\ script \in Scripts
  /\ text = <<>> /\ files = <<>> /\ edit = "none"
  /\ pc = "unpack" /\ pos = 1
  /\ preamble = [version |-> 38, features |-> <<>>, daemon |-> None, trust |-> None,
                 server_features |-> None, expects |-> <<>>]
  /\ entry = NoEntry /\ overriding = FALSE /\ entries = <<>>
  /\ turns = 0 /\ offsets = <<>>

-----------------------------------------------------------------------------
(* unpack.                                                                 *)

\* {ms:.3}
Micros(ns) == (ns + 500) \div 1000

\* A value with a newline in it ends its line.
Lines(at, s) ==
  LET pieces == Split(s, NL)
  IN  [i \in DOMAIN pieces |-> [at |-> IF i = 1 THEN at ELSE None, text |-> pieces[i]]]
Untimed(ss) == FlattenSeq([i \in DOMAIN ss |-> Lines(None, ss[i])])

FormatPreamble(s) ==
  Untimed(
    << <<"#", SP, "nwscript">>,
       <<"protocol", ":", SP, "1", ".", ToString(s.version)>>,
       <<"features", ":", SP>> \o FormatSet(s.features) >>
    \o Maybe(s.daemon, LAMBDA x : <<"#", SP, "daemon", ":", SP>> \o x)
    \o Maybe(s.trust, LAMBDA x : <<"#", SP, "trust", ":", SP, x>>)
    \o << <<"#", SP, "server_features", ":", SP>> \o FormatSet(s.server_features),
          <<"---">> >>)

FormatEntry(e) ==
  LET call == FormatCall(e)
  IN  <<[at |-> None, text |-> <<>>]>>
        \o Lines(Some(Micros(e.at)), call[1]) \o Untimed(Tail(call))
        \o Untimed(FormatResponse(e.response))

\* Data above --inline-threshold goes to a file, if there is a directory and the
\* file can be written; files are numbered as they are.
FileNames == <<"0000.bin", "0001.bin", "0002.bin">>
IsLarge(e) == "data" \in DOMAIN e.args /\ e.args.data.of = "large"
FileOf(k, W) == FileNames[Cardinality({j \in W : j <= k})]
WithFile(e, name) == [e EXCEPT !.args.data = FileRef(name)]

\* What decompile_streams makes: calls in the shape of their variant, which is that
\* the parser makes of the operation unless its arguments were kept raw, with the
\* times of their first bytes, which do not go back.  FileNames is long enough.
Words == STRING \ {SP, NL}
IsOption(x, S) == x = None \/ (x = Some(x[1]) /\ x[1] \in S)

IsValue(how, x) ==
  CASE how = "number" -> x \in Numbers
    [] how = "flag" -> x \in BOOLEAN
    [] how = "set" -> x \in Seq(Seq(STRING))
    [] how \in {"quoted", "escaped"} -> x \in Seq(STRING)
    [] how = "data" -> x \in [inFile : {FALSE}, of : Words]
    [] how = "assignments" -> x \in Seq(Seq(STRING) \X Seq(STRING))
IsHeadValue(key, x) ==
  CASE key \in {"path", "value", "gc_root"} -> x \in Seq(STRING)
    [] key \in {"paths", "sigs"} -> x \in Seq(Seq(STRING))
    [] key = "substitute" -> x \in BOOLEAN
    [] key = "mode" -> x \in Words

IsCall(c, v) ==
  /\ c.op \in Ops \cup {"Unknown"} /\ c.variant = ReadVariant(c.op, v)
  /\ c.variant = ParseVariant(c.op) =>
       /\ DOMAIN c.args = DOMAIN ParseCall(c.op, <<>>).args
       /\ \A key \in DOMAIN ParseHead(c.op, <<>>) : IsHeadValue(key, c.args[key])
       /\ \A i \in DOMAIN FormatKeys(c.variant) :
            IsValue(FormatKeys(c.variant)[i][2], c.args[FormatKeys(c.variant)[i][1]])
  /\ c.variant # ParseVariant(c.op) => c.args = <<>>

IsResult(r) ==
  CASE r.variant \in {"U64", "CollectGarbage"} -> r.of \in STRING
    [] r.variant = "Str" -> r.of \in Seq(STRING)
    [] r.variant = "StringSet" -> r.of \in Seq(Seq(STRING))
    [] r.variant = "StringMap" -> r.of \in Seq(Seq(STRING) \X Seq(STRING))
    [] r.variant \in {"PathInfo", "SubstitutablePathInfo"} ->
         /\ r.of.valid \in BOOLEAN /\ IsOption(r.of.deriver, Seq(STRING))
         /\ IsOption(r.of.narHash, Seq(STRING)) /\ IsOption(r.of.references, Seq(Seq(STRING)))
         /\ IsOption(r.of.narSize, STRING) /\ IsOption(r.of.downloadSize, STRING)
    [] r.variant = "Missing" ->
         /\ {r.of.willBuild, r.of.willSubstitute, r.of.unknown} \subseteq Seq(Seq(STRING))
         /\ {r.of.downloadSize, r.of.narSize} \subseteq STRING
    [] OTHER -> r.variant \in {"Nothing", "Framed"}
IsResponse(resp) ==
  /\ {resp.terminal, resp.count} \subseteq STRING /\ IsOption(resp.error, Seq(STRING))
  /\ resp.result = None \/ IsResult(resp.result[1])

ASSUME ScriptsAssumption ==
  \A s \in Scripts :
    /\ s.version \in 0..255 /\ ToString(s.version) \notin {SP, ".", NL}
    /\ \A v \in 0..255 : ToString(v) = ToString(s.version) => v = s.version
    /\ {s.features, s.server_features} \subseteq Seq(Seq(STRING))
    /\ IsOption(s.daemon, Seq(STRING)) /\ IsOption(s.trust, STRING)
    /\ s.entries \in Seq(Range(s.entries))
    /\ \A k \in DOMAIN s.entries :
         LET e == s.entries[k]
         IN  /\ DOMAIN e = {"at", "op", "variant", "args", "response"}
             /\ IsCall(e, s.version) /\ IsResponse(e.response)
             /\ e.at \in Nat /\ (k > 1 => s.entries[k - 1].at <= e.at)
    /\ Cardinality({k \in DOMAIN s.entries : IsLarge(s.entries[k])}) <= Len(FileNames)

Unpack ==
  /\ pc = "unpack"
  /\ \E W \in SUBSET {k \in DOMAIN script.entries : script.dir /\ IsLarge(script.entries[k])} :
       /\ files' = [f \in {FileOf(k, W) : k \in W} |-> "large"]
       /\ text' = FormatPreamble(script)
                    \o FlattenSeq([k \in DOMAIN script.entries |-> FormatEntry(
                         IF k \in W THEN WithFile(script.entries[k], FileOf(k, W))
                                    ELSE script.entries[k])])
  /\ pc' = "edit"
  /\ UNCHANGED <<script, edit, parser, turns, offsets>>

-----------------------------------------------------------------------------
(* Its user.                                                               *)

\* A comment, or an expectation there is not.
Inserted == {<<>>, <<"#", SP, "a">>, <<SP, SP, "#", SP, "a">>,
             <<"#", SP, "nwscript">>, <<SP, SP, "expect", SP, "a", ":">>}

Insert ==
  /\ pc = "edit" /\ "inserted" \in script.edits
  /\ \E i \in 1..(Len(text) + 1), t \in Inserted :
       text' = InsertAt(text, i, [at |-> None, text |-> t])
  /\ edit' = "inserted" /\ pc' = "preamble"
  /\ UNCHANGED <<script, files, parser, turns, offsets>>

\* docs/nwscript-format.md, "Workflow"
Convert ==
  /\ pc = "edit" /\ "converted" \in script.edits
  /\ \E i \in DOMAIN text :
       /\ IsConvertible(text[i].text)
       /\ text' = [text EXCEPT ![i].text = Converted(@)]
  /\ edit' = "converted" /\ pc' = "preamble"
  /\ UNCHANGED <<script, files, parser, turns, offsets>>

\* Operations may come without a time.
Untime ==
  /\ pc = "edit" /\ "untimed" \in script.edits
  /\ \E I \in SUBSET {i \in DOMAIN text : text[i].at # None} :
       text' = [i \in DOMAIN text |-> IF i \in I THEN [text[i] EXCEPT !.at = None] ELSE text[i]]
  /\ edit' = "untimed" /\ pc' = "preamble"
  /\ UNCHANGED <<script, files, parser, turns, offsets>>

\* The text was not written to its end.
Cut ==
  /\ pc = "edit" /\ "cut" \in script.edits
  /\ \E i \in 0..(Len(text) - 1) : text' = SubSeq(text, 1, i)
  /\ edit' = "cut" /\ pc' = "preamble"
  /\ UNCHANGED <<script, files, parser, turns, offsets>>

LeaveAlone ==
  /\ pc = "edit"
  /\ pc' = "preamble"
  /\ UNCHANGED <<script, text, files, edit, parser, turns, offsets>>

-----------------------------------------------------------------------------
(* parse_script.                                                           *)

AtEnd == pos > Len(text)
Line == Trim(text[pos].text)
IsBlank == text[pos].at = None /\ Line = <<>>
IsNote == text[pos].at = None /\ StartsWith(Line, "#")
IsHeader == IsPrefix(<<"#", SP, "nwscript">>, Line)
IsExpect == text[pos].at = None /\ StartsWith(Line, "expect")
IsIndented ==
  LET s == text[pos].text
  IN  text[pos].at = None /\ Len(s) >= 2 /\ s[1] = SP /\ s[2] = SP
About == Trim(Upto(Line, ":"))
Value == Trim(Beyond(Line, ":"))

\* Wrong: the line is not counted, or counted by two functions.
SkipNothing == pos' = pos
SkipTwice == pos' = pos + 2

Skip == pos' = pos + 1
Fail == pc' = "failed" /\ UNCHANGED parser

\* parse_version_str
ParseVersion(s) ==
  LET p == Split(s, ".")
  IN  IF Len(p) = 2 /\ \E v \in 0..255 : p[2] = <<ToString(v)>>
        THEN CHOOSE v \in 0..255 : p[2] = <<ToString(v)>>
        ELSE preamble.version

\* The note of the preamble that is kept, if this is one.
ReadNote ==
  LET s == Trim(Tail(Line))
      x == Trim(Beyond(s, ":"))
  IN  CASE Upto(s, ":") = <<"daemon">> -> [preamble EXCEPT !.daemon = Some(x)]
        [] Upto(s, ":") = <<"trust">> -> [preamble EXCEPT !.trust = Some(x)]
        [] Upto(s, ":") = <<"server_features">> ->
             [preamble EXCEPT !.server_features = Some(ParseFeatures(x))]
        [] OTHER -> preamble

ParsePreamble ==
  /\ pc = "preamble"
  /\ \/ AtEnd /\ pc' = "top" /\ UNCHANGED parser
     \/ ~AtEnd /\ IsBlank /\ Skip /\ UNCHANGED <<pc, preamble, entry, overriding, entries>>
     \/ /\ ~AtEnd /\ Line = <<"---">>
        /\ pc' = "top" /\ Skip
        /\ UNCHANGED <<preamble, entry, overriding, entries>>
     \/ /\ ~AtEnd /\ IsNote
        /\ preamble' = ReadNote /\ Skip
        /\ UNCHANGED <<pc, entry, overriding, entries>>
     \/ /\ ~AtEnd /\ About = <<"protocol">>
        /\ preamble' = [preamble EXCEPT !.version = ParseVersion(Value)] /\ Skip
        /\ UNCHANGED <<pc, entry, overriding, entries>>
     \/ /\ ~AtEnd /\ About = <<"features">>
        /\ preamble' = [preamble EXCEPT !.features = ParseFeatures(Value)] /\ Skip
        /\ UNCHANGED <<pc, entry, overriding, entries>>
     \/ /\ ~AtEnd /\ IsExpect /\ ParseExpect(Line) # None
        /\ preamble' = [preamble EXCEPT !.expects = @ \o ParseExpect(Line)] /\ Skip
        /\ UNCHANGED <<pc, entry, overriding, entries>>
     \/ /\ ~AtEnd /\ ~IsBlank /\ ~IsNote /\ Line # <<"---">>
        /\ About \notin {<<"protocol">>, <<"features">>}
        /\ (IsExpect => ParseExpect(Line) = None)
        /\ Fail
  /\ UNCHANGED <<script, text, files, edit, offsets>>

\* The line begins with the name of an operation.
OpOf == Upto(Line, SP)
Names(o) == OpOf = <<o>>
NewEntry(o) ==
  LET call == ParseCall(o, Trim(Beyond(Line, SP)))
  IN  [at |-> text[pos].at, op |-> o, variant |-> call.variant, args |-> call.args,
       expects |-> <<>>]

\* Wrong: what is no operation is skipped.
ParseTopLenient ==
  /\ pc = "top"
  /\ \/ AtEnd /\ pc' = "pack" /\ UNCHANGED parser
     \/ /\ ~AtEnd /\ ~\E o \in Ops : Names(o)
        /\ Skip /\ UNCHANGED <<pc, preamble, entry, overriding, entries>>
     \/ /\ ~AtEnd
        /\ \E o \in Ops :
             /\ Names(o)
             /\ entry' = NewEntry(o)
             /\ pc' = IF o \in ComplexOps \/ ParseKeys(o) # <<>> THEN "args" ELSE "tail"
        /\ Skip /\ UNCHANGED <<preamble, overriding, entries>>
  /\ UNCHANGED <<script, text, files, edit, offsets>>

\* A turn of the loop of parse_script, with parse_entry up to its arguments.
ParseTop ==
  /\ pc = "top"
  /\ \/ AtEnd /\ pc' = "pack" /\ UNCHANGED parser
     \/ /\ ~AtEnd /\ (IsBlank \/ (IsNote /\ ~IsHeader))
        /\ Skip /\ UNCHANGED <<pc, preamble, entry, overriding, entries>>
     \/ /\ ~AtEnd
        /\ \E o \in Ops :
             /\ Names(o) /\ ~HeadIsBad(o, Trim(Beyond(Line, SP)))
             /\ entry' = NewEntry(o)
             /\ pc' = IF o \in ComplexOps \/ ParseKeys(o) # <<>> THEN "args" ELSE "tail"
        /\ Skip /\ UNCHANGED <<preamble, overriding, entries>>
     \/ /\ ~AtEnd /\ ~IsBlank /\ (IsNote => IsHeader)
        /\ \A o \in Ops : Names(o) => HeadIsBad(o, Trim(Beyond(Line, SP)))
        /\ Fail
  /\ UNCHANGED <<script, text, files, edit, offsets>>

\* parse_set_options, parse_collect_garbage, ..., parse_raw_hex: line by line,
\* up to a line that cannot be theirs.
IsTheirs == ~AtEnd /\ IsIndented /\ ~(IsBlank \/ IsNote \/ IsExpect)
Key == IF Mentions(Line, ":") /\ Len(About) = 1 /\ About[1] \in DOMAIN ParseKeys(entry.op)
         THEN About[1] ELSE "none"
How == ParseKeys(entry.op)[Key]

ParseArgs ==
  /\ pc = "args"
  /\ \/ /\ ~IsTheirs
        /\ pc' = "tail" /\ overriding' = FALSE
        /\ UNCHANGED <<pos, preamble, entry, entries>>
     \/ /\ IsTheirs /\ overriding /\ StartsWith(Line, QT)
        /\ entry' = IF IsAssignment(Line)
                      THEN [entry EXCEPT !.args.overrides = Append(@, ParseAssignment(Line))]
                      ELSE entry
        /\ Skip /\ UNCHANGED <<pc, preamble, overriding, entries>>
     \/ /\ IsTheirs /\ ~(overriding /\ StartsWith(Line, QT))
        /\ Key = "overrides"
        /\ overriding' = TRUE
        /\ Skip /\ UNCHANGED <<pc, preamble, entry, entries>>
     \/ /\ IsTheirs /\ ~(overriding /\ StartsWith(Line, QT))
        /\ Key = "none"
        /\ overriding' = FALSE
        /\ Skip /\ UNCHANGED <<pc, preamble, entry, entries>>
     \/ /\ IsTheirs /\ Key \notin {"none", "overrides"} /\ ~ValueIsBad(How, Value)
        /\ entry' = [entry EXCEPT !.args[Key] = ParseValue(How, Value)]
        /\ overriding' = FALSE
        /\ pc' = IF entry.op = "AddBuildLog" THEN "tail" ELSE "args"
        /\ Skip /\ UNCHANGED <<preamble, entries>>
     \/ IsTheirs /\ Key \notin {"none", "overrides"} /\ ValueIsBad(How, Value) /\ Fail
  /\ UNCHANGED <<script, text, files, edit, offsets>>

\* The rest of parse_entry.
ParseTail ==
  /\ pc = "tail"
  /\ \/ /\ ~AtEnd /\ IsIndented /\ (IsBlank \/ IsNote)
        /\ Skip /\ UNCHANGED <<pc, entry, entries>>
     \/ /\ ~AtEnd /\ IsIndented /\ IsExpect /\ ParseExpect(Line) # None
        /\ entry' = [entry EXCEPT !.expects = @ \o ParseExpect(Line)]
        /\ Skip /\ UNCHANGED <<pc, entries>>
     \/ /\ ~AtEnd /\ IsIndented /\ IsExpect /\ ParseExpect(Line) = None
        /\ pc' = "failed" /\ UNCHANGED <<pos, entry, entries>>
     \/ /\ ~(~AtEnd /\ IsIndented /\ (IsBlank \/ IsNote \/ IsExpect))
        /\ entries' = Append(entries, entry)
        /\ pc' = "top" /\ UNCHANGED <<pos, entry>>
  /\ UNCHANGED <<script, text, files, edit, preamble, overriding, offsets>>

-----------------------------------------------------------------------------
(* pack.                                                                   *)

Ms == 1000000

\* (ms * 1e6) as u64, of a time that was read from three decimals.
Nanos(us) == IF us \in FallsShort THEN 1000 * us - 1 ELSE 1000 * us

Packed == Len(offsets)
NextDefault == IF offsets = <<>> THEN Ms ELSE offsets[Packed] + Ms

\* Wrong: the time in the text is taken for the distance to the last operation.
PackDistances ==
  /\ pc = "pack"
  /\ \/ /\ Packed < Len(entries)
        /\ LET at == entries[Packed + 1].at
           IN  offsets' = Append(offsets, IF at = None THEN NextDefault
                                          ELSE NextDefault - Ms + Nanos(at[1]))
        /\ UNCHANGED pc
     \/ /\ Packed = Len(entries)
        /\ pc' = "done" /\ UNCHANGED offsets
  /\ UNCHANGED <<script, text, files, edit, parser, turns>>

\* A record for each entry.
Pack ==
  /\ pc = "pack"
  /\ \/ /\ Packed < Len(entries)
        /\ LET at == entries[Packed + 1].at
           IN  offsets' = Append(offsets, IF at = None THEN NextDefault ELSE Nanos(at[1]))
        /\ UNCHANGED pc
     \/ /\ Packed = Len(entries)
        /\ pc' = "done" /\ UNCHANGED offsets
  /\ UNCHANGED <<script, text, files, edit, parser, turns>>

-----------------------------------------------------------------------------

Edit == Insert \/ Convert \/ Untime \/ Cut \/ LeaveAlone
Parse == (ParsePreamble \/ ParseTop \/ ParseArgs \/ ParseTail) /\ turns' = turns + 1
Exit == pc \in {"done", "failed"} /\ UNCHANGED vars
Next == Unpack \/ Edit \/ Parse \/ Pack \/ Exit

Spec == Init /\ [][Next]_vars

-----------------------------------------------------------------------------
(* What the text can carry, first of what decompile_streams has kept.      *)

OneLine(s) == ~Mentions(s, NL)
Whole(s) == OneLine(s) /\ Trim(s) = s
NoBackslashBefore(s, cs) == ~\E i \in 1..(Len(s) - 1) : s[i] = BS /\ s[i + 1] \in cs
SetSurvives(ss) ==
  /\ ss # << <<>> >>
  /\ \A i \in DOMAIN ss : Whole(ss[i]) /\ ~Mentions(ss[i], COMMA) /\ ~Mentions(ss[i], CLOSE)

Survives(how, x) ==
  CASE how = "set" -> SetSurvives(x)
    [] how = "quoted" -> OneLine(x) /\ NoBackslashBefore(x, {"n", QT, BS})
    [] how = "escaped" -> NoBackslashBefore(x, {"n"})
    [] how = "assignments" -> \A i \in DOMAIN x, j \in 1..2 :
                                 OneLine(x[i][j]) /\ ~Mentions(x[i][j], QT)
    [] OTHER -> TRUE

HeadSurvives(c) ==
  LET a == c.args
      word(s) == OneLine(s) /\ ~Mentions(s, SP) /\ s # <<>>
  IN  CASE c.variant \in {"SinglePath", "AddBuildLog", "QuerySubstitutablePathInfo"} ->
             Whole(a.path)
        [] c.variant \in {"SingleString", "RegisterDrvOutput", "QueryRealisation"} ->
             Whole(a.value)
        [] c.variant \in {"PathSet", "PathSetFlag", "PathSetMode",
                          "QuerySubstitutablePathInfos"} -> SetSurvives(a.paths)
        [] c.variant = "AddPermRoot" ->
             \/ a.path = <<>> /\ a.gc_root = <<>>
             \/ word(a.path) /\ OneLine(a.gc_root) /\ Trim(<<"a">> \o a.gc_root) = <<"a">> \o a.gc_root
        [] c.variant = "AddSignatures" -> word(a.path) /\ SetSurvives(a.sigs)
        [] OTHER -> TRUE

\* What follows a newline in a comment is a line of its own, and no comment.
NoteSurvives(s) == \A i \in 2..Len(Split(s, NL)) : Trim(Split(s, NL)[i]) = <<>>

\* What decompile_streams made of a request is found again.
Legible(e) ==
  /\ e.variant = ParseVariant(e.op) /\ HeadSurvives(e)
  /\ \A i \in DOMAIN FormatKeys(e.variant) :
       LET f == FormatKeys(e.variant)[i] IN Survives(f[2], e.args[f[1]])
  /\ \A i \in DOMAIN FormatResponse(e.response) : NoteSurvives(FormatResponse(e.response)[i])

PreambleLegible ==
  /\ \A i \in DOMAIN script.features :
       LET f == script.features[i] IN f # <<>> /\ Whole(f) /\ ~Mentions(f, COMMA)
  /\ script.daemon = None \/ NoteSurvives(script.daemon[1])
  /\ NoteSurvives(FormatSet(script.server_features))

AllLegible == PreambleLegible /\ \A k \in DOMAIN script.entries : Legible(script.entries[k])

\* The arguments that were recorded with a request.  Of those of BuildDerivation and
\* AddToStoreNar, of AddToStore before 1.25 and of an unknown operation the call has
\* no byte: its data is empty.
Sent(e) == IF e.variant = "RawBytes" THEN [bytes |-> "not kept"] ELSE e.args

\* The text can carry a session if decompile_streams has kept all of it.
AllCarried ==
  AllLegible /\ \A k \in DOMAIN script.entries : Sent(script.entries[k]) = script.entries[k].args

Resolved(args) ==
  [k \in DOMAIN args |->
     IF k # "data" THEN args[k] ELSE IF args.data.inFile THEN files[args.data.of] ELSE args.data.of]
SameCall(c, d) ==
  c.op = d.op /\ c.variant = d.variant /\ Resolved(c.args) = Resolved(d.args)
SameCalls(n) == \A k \in 1..n : SameCall(entries[k], script.entries[k])
SameRequest(c, d) == c.op = d.op /\ Resolved(c.args) = Resolved(Sent(d))
SameHandshake ==
  /\ preamble.version = script.version /\ preamble.features = script.features
  /\ Len(entries) = Len(script.entries)

\* What was unpacked is what is packed; what was recorded is.
SameScript == SameHandshake /\ SameCalls(Len(entries))
SameSession ==
  SameHandshake /\ \A k \in DOMAIN entries : SameRequest(entries[k], script.entries[k])

\* Unpacking and packing gives the requests that were recorded exactly if the
\* text can carry them: escapes are made and undone, sets, pairs and words are
\* found again, data comes back from its file, and each line is claimed by the
\* function it was written for.  The rest is an error or another request: that of
\* a BuildDerivation or AddToStoreNar is packed without its arguments.
TextCarries ==
  pc \in {"done", "failed"} /\ edit = "none" =>
    ((pc = "done" /\ SameSession) <=> AllCarried)

\* A comment or an empty line, wherever it is put, is ignored or an error: it never
\* makes a function stop early without the rest being noticed.  Neither a time that
\* is left out nor a comment made into an expectation changes what was unpacked.  A
\* text that ends early gives the operations up to there, the last of them perhaps
\* without some of its arguments.
EditsNeverAlter ==
  AllLegible /\ pc = "done" =>
    /\ edit # "cut" => SameScript
    /\ edit = "cut" => Len(entries) <= Len(script.entries) /\ SameCalls(Len(entries) - 1)

\* A comment made into an expectation passes when the answer is the same, unless
\* it is one that is printed in another way than it is compared.
Unextracted == {<<"PathInfo", "references">>, <<"Missing", "willBuild">>,
          <<"Missing", "willSubstitute">>, <<"Missing", "unknown">>,
          <<"SubstitutablePathInfo", "deriver">>, <<"StringMap", "count">>}
Comparable(x, resp) ==
  CASE x.about = "error" -> Whole(resp.error[1])
    [] x.about = "result" ->
         LET r == resp.result[1]
         IN  IF x.field = None THEN r.variant = "U64" \/ (r.variant = "Str" /\ Whole(r.of))
                               ELSE <<r.variant, x.field[1]>> \notin Unextracted
    [] OTHER -> TRUE
ComparableHandshake(x) ==
  CASE x.about = "server_features" -> script.server_features # <<>>
    [] x.about = "daemon" -> Whole(script.daemon[1])
    [] OTHER -> TRUE
ConvertedHolds ==
  edit = "converted" /\ AllLegible /\ pc = "done" =>
    /\ \A i \in DOMAIN preamble.expects :
         PassesHandshake(preamble.expects[i], script) <=> ComparableHandshake(preamble.expects[i])
    /\ \A k \in DOMAIN entries : \A i \in DOMAIN entries[k].expects :
         LET x == entries[k].expects[i]
             resp == script.entries[k].response
         IN  Passes(x, resp) <=> Comparable(x, resp)

\* Through rounding and floating point, times in a packed recording are within a
\* microsecond of those of the session and do not go back, except after an
\* operation whose time was left out.
TimesKeepOrder ==
  offsets # <<>> /\ AllLegible =>
    \A k \in 1..Packed :
      LET at == entries[k].at
      IN  /\ at # None => offsets[k] \in (script.entries[k].at - 501)..(script.entries[k].at + 500)
          /\ (k > 1 /\ (at = None \/ entries[k - 1].at # None)) => offsets[k - 1] <= offsets[k]

\* The functions of the parser share one position: each line is passed by exactly
\* one of them, and none waits for another to pass it.  With no state but the last
\* ones without a step, every text is parsed to its end.
ParsingEnds == turns <= 3 * Len(text) + 2
=============================================================================
