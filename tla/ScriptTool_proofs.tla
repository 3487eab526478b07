---- MODULE ScriptTool_proofs ----
(***************************************************************************)
(* Every script can be written and parsed: all that unpack writes are      *)
(* lists of lines, whatever was recorded, and the parser of such a text    *)
(* ends.  Its four functions share a position and none of them sees the    *)
(* others' loops; what bounds their turns is that a turn either passes a   *)
(* line, or hands on to a function further down, or finishes an entry, and *)
(* an entry has at least one line.                                         *)
(*                                                                         *)
(* What is parsed is what was unpacked, if its text is legible.  The       *)
(* lines of the calls make a plan; the text is that plan with blank lines, *)
(* notes and expectations woven into it, and every edit but cutting it     *)
(* short leaves it so.  The invariant of the parser relates how much of    *)
(* the plan is behind it to the operations it has read and to the one it   *)
(* is reading.                                                             *)
(***************************************************************************)
EXTENDS ScriptText_proofs, SequenceTheorems, FiniteSetTheorems, TLAPS

\* The entries as they are written, those of W with their data in a file.
Large == {k \in DOMAIN script.entries : script.dir /\ IsLarge(script.entries[k])}
Written(W, k) ==
  IF k \in W THEN WithFile(script.entries[k], FileOf(k, W)) ELSE script.entries[k]
IsWritable(e) == (IsSentCall(e) \/ IsRawCall(e)) /\ IsResponse(e.response) /\ e.at \in Nat

LEMMA EntriesAre ==
  ASSUME script \in Scripts
  PROVE  /\ Len(script.entries) \in Nat /\ DOMAIN script.entries = 1..Len(script.entries)
         /\ \A k \in DOMAIN script.entries :
              /\ IsCall(script.entries[k], script.version) /\ IsWritable(script.entries[k])
              /\ {"args", "op", "variant", "at", "response"} \subseteq DOMAIN script.entries[k]
<1> DEFINE es == script.entries
<1>1. /\ es \in Seq(Range(es))
      /\ \A k \in DOMAIN es :
           /\ DOMAIN es[k] = {"at", "op", "variant", "args", "response"}
           /\ IsCall(es[k], script.version) /\ IsResponse(es[k].response) /\ es[k].at \in Nat
  BY ScriptsAssumption
<1>2. Len(es) \in Nat /\ DOMAIN es = 1..Len(es)
  BY <1>1, LenProperties
<1>3. \A k \in DOMAIN es : IsWritable(es[k])
  BY <1>1, CallCases DEF IsWritable
<1> QED
  BY <1>1, <1>2, <1>3

\* The files are numbered with the names there are.
LEMMA FileIsNamed ==
  ASSUME script \in Scripts, NEW W \in SUBSET Large, NEW k \in W
  PROVE  \E i \in DOMAIN FileNames : FileOf(k, W) = FileNames[i]
<1> DEFINE es == script.entries
           L == {j \in DOMAIN es : IsLarge(es[j])}
           upto == {j \in W : j <= k}
<1>1. Cardinality(L) <= Len(FileNames) /\ Len(es) \in Nat /\ DOMAIN es = 1..Len(es)
  BY EntriesAre, ScriptsAssumption
<1>2. IsFiniteSet(L) /\ upto \subseteq L /\ k \in upto
  <2>1. IsFiniteSet(1..Len(es))
    BY <1>1, FS_Interval
  <2>2. IsFiniteSet(L)
    BY <1>1, <2>1, FS_Subset
  <2> QED
    BY <1>1, <2>2 DEF Large
<1> HIDE DEF L
<1>3. Cardinality(upto) \in 1..3
  <2>1. Len(FileNames) = 3
    BY DEF FileNames
  <2>2. IsFiniteSet(upto) /\ Cardinality(upto) <= Cardinality(L)
    BY <1>2, FS_Subset
  <2>3. Cardinality(upto) \in Nat /\ Cardinality(L) \in Nat
    BY <1>2, <2>2, FS_CardinalityType
  <2>4. Cardinality(upto) # 0
    BY <1>2, <2>2, FS_EmptySet
  <2>5. Cardinality(L) <= 3
    BY <1>1, <2>1
  <2> QED
    BY <2>2, <2>3, <2>4, <2>5
<1>4. Cardinality(upto) \in DOMAIN FileNames
  BY <1>3 DEF FileNames
<1>5. FileOf(k, W) = FileNames[Cardinality(upto)]
  BY DEF FileOf
<1> QED
  BY <1>4, <1>5

\* An entry that is written is the one that was recorded, but for where its data is.
LEMMA WrittenIs ==
  ASSUME script \in Scripts, NEW W \in SUBSET Large, NEW k \in DOMAIN script.entries,
         NEW e, e = script.entries[k], NEW w, w = Written(W, k)
  PROVE  /\ IsWritable(w) /\ (IsSentCall(e) => IsSentCall(w))
         /\ w.op = e.op /\ w.variant = e.variant /\ w.at = e.at /\ w.response = e.response
         /\ DOMAIN w.args = DOMAIN e.args
         /\ \A key \in DOMAIN e.args : key # "data" \/ k \notin W => w.args[key] = e.args[key]
         /\ k \in W => IsLarge(e) /\ w.args["data"] = FileRef(FileOf(k, W)) /\ "data" \notin HeadKeys(e.op)
<1>1. IsCall(e, script.version) /\ IsWritable(e) /\ {"args", "op", "variant", "at", "response"} \subseteq DOMAIN e
  BY EntriesAre
<1>2. CASE k \notin W
  <2>1. w = e
    BY <1>2 DEF Written
  <2> QED
    BY <1>1, <1>2, <2>1
<1>3. CASE k \in W
  <2>1. IsLarge(e)
    BY <1>3 DEF Large
  <2>2. PICK i \in DOMAIN FileNames : FileOf(k, W) = FileNames[i]
    BY <1>3, FileIsNamed
  <2>3. w = WithFile(e, FileNames[i])
    BY <1>3, <2>2 DEF Written
  <2>4. /\ IsSentCall(w) /\ w.op = e.op /\ w.variant = e.variant
        /\ w.at = e.at /\ w.response = e.response
        /\ DOMAIN w.args = DOMAIN e.args /\ w.args["data"] = FileRef(FileNames[i])
        /\ \A key \in DOMAIN e.args : key # "data" => w.args[key] = e.args[key]
        /\ "data" \notin HeadKeys(e.op)
    BY <1>1, <2>1, <2>3, WithFileIs
  <2>5. IsWritable(w)
    BY <1>1, <2>4 DEF IsWritable
  <2> QED
    BY <1>3, <2>1, <2>2, <2>4, <2>5
<1> QED
  BY <1>2, <1>3

EntryTexts(W) == [k \in DOMAIN script.entries |-> FormatEntry(Written(W, k))]

LEMMA EntryTextsAre ==
  ASSUME script \in Scripts, NEW W \in SUBSET Large, NEW f, f = EntryTexts(W)
  PROVE  /\ IsLines(f) /\ Len(f) = Len(script.entries) /\ Len(f) \in Nat
         /\ \A k \in 1..Len(f) : f[k] = FormatEntry(Written(W, k))
<1>1. Len(script.entries) \in Nat /\ DOMAIN script.entries = 1..Len(script.entries)
  BY EntriesAre
<1>2. f = [k \in 1..Len(script.entries) |-> f[k]]
  BY <1>1 DEF EntryTexts
<1>3. IsList(f) /\ Len(f) = Len(script.entries)
  BY <1>1, <1>2, ListMade
<1>4. \A k \in 1..Len(f) : f[k] = FormatEntry(Written(W, k))
  BY <1>1, <1>3 DEF EntryTexts
<1>5. ASSUME NEW k \in 1..Len(f)
      PROVE  IsList(f[k])
  <2>1. PICK w : w = Written(W, k)
    OBVIOUS
  <2>2. IsWritable(w)
    BY <1>1, <1>3, <2>1, WrittenIs
  <2>3. IsList(FormatEntry(w))
    BY <2>2, EntryIsList DEF IsWritable
  <2> QED
    BY <1>4, <2>1, <2>3
<1> QED
  BY <1>1, <1>3, <1>4, <1>5 DEF IsLines

UnpackedWith(W) ==
  /\ files' = [f \in {FileOf(k, W) : k \in W} |-> "large"]
  /\ text' = FormatPreamble(script) \o FlattenSeq(EntryTexts(W))

LEMMA UnpackWrites ==
  ASSUME Unpack
  PROVE  \E W \in SUBSET Large : UnpackedWith(W)
BY DEF Unpack, UnpackedWith, EntryTexts, Written, Large

\* unpack writes a list of lines, whichever files it could write.
LEMMA UnpackWritesAList ==
  ASSUME script \in Scripts, Unpack
  PROVE  IsList(text')
<1>1. PICK W \in SUBSET Large : UnpackedWith(W)
  BY UnpackWrites
<1>2. PICK f, p : f = EntryTexts(W) /\ p = FormatPreamble(script)
  OBVIOUS
<1>3. IsList(FlattenSeq(f))
  BY <1>2, EntryTextsAre, FlattenIsList
<1>4. IsList(p)
  BY <1>2, PreambleIsList
<1>5. text' = p \o FlattenSeq(f)
  BY <1>1, <1>2 DEF UnpackedWith
<1> QED
  BY <1>3, <1>4, <1>5, ListConcat

-----------------------------------------------------------------------------
(* The parser.                                                             *)

\* Turns that a function may have taken beyond lines and entries.
Spare == IF pc = "preamble" THEN 0 ELSE IF pc \in {"top", "args"} THEN 1 ELSE 2

InEntry == IF pc \in {"args", "tail"} THEN 1 ELSE 0

\* Parsing has not begun.
Untouched == pos = 1 /\ entries = <<>> /\ turns = 0

\* Every entry has passed a line, and turns are lines passed, two for each entry
\* and the spare ones; a failure is one more.
Progressed ==
  /\ pos <= Len(text) + 1
  /\ Len(entries) + InEntry <= pos - 1
  /\ IF pc = "failed" THEN turns <= 3 * Len(text) + 2
                      ELSE turns <= (pos - 1) + 2 * Len(entries) + Spare

Shapes ==
  /\ script \in Scripts /\ edit \in {"none"} \cup script.edits
  /\ IsList(text) /\ IsList(entries) /\ IsList(offsets)
  /\ pc \in {"unpack", "edit", "pack", "done", "failed"} \cup Parts
  /\ pos \in Nat \ {0}
  /\ overriding \in BOOLEAN
  /\ turns \in Nat

\* The entry under way keeps the name of its operation.
NamedOp == "op" \in DOMAIN entry /\ entry.op \in Ops \cup {"Unknown"}

IInv ==
  /\ Shapes /\ NamedOp
  /\ pc \in {"unpack", "edit"} => Untouched
  /\ pc \notin {"unpack", "edit"} => Progressed
  /\ Len(offsets) <= Len(entries)

\* The lengths are numbers.
LEMMA ListLength ==
  ASSUME Shapes
  PROVE  Len(text) \in Nat /\ Len(entries) \in Nat /\ Len(offsets) \in Nat
BY ListFacts DEF Shapes

\* A list with one more is a list.
LEMMA ListAppended ==
  ASSUME NEW s, NEW x, IsList(s)
  PROVE  IsList(Append(s, x)) /\ Len(Append(s, x)) = Len(s) + 1
<1>1. PICK S : s \in Seq(S)
  BY DEF IsList
<1>2. s \in Seq(S \cup {x})
  BY <1>1
<1> QED
  BY <1>2, AppendProperties DEF IsList

\* Nothing is parsed at the start.
LEMMA InitOk == Init => IInv
<1> SUFFICES ASSUME Init
             PROVE  IInv
  OBVIOUS
<1>1. /\ script \in Scripts /\ text = <<>> /\ edit = "none" /\ pc = "unpack" /\ pos = 1
      /\ overriding = FALSE /\ entries = <<>> /\ turns = 0 /\ offsets = <<>>
  BY DEF Init
<1>4. IsList(text) /\ IsList(entries) /\ IsList(offsets)
  BY <1>1, EmptyIsList
<1>5. Shapes
  <2>1. edit \in {"none"} \cup script.edits
    BY <1>1
  <2>2. pos \in Nat \ {0} /\ turns \in Nat /\ overriding \in BOOLEAN
    <3>1. pos = 1 /\ turns = 0
      BY <1>1
    <3>2. pos \in Nat \ {0} /\ turns \in Nat
      BY <3>1
    <3> QED
      BY <1>1, <3>2
  <2>3. pc \in {"unpack", "edit", "pack", "done", "failed"} \cup Parts
    BY <1>1
  <2> QED
    BY <1>1, <1>4, <2>1, <2>2, <2>3, Zenon DEF Shapes
<1>6. Untouched
  BY <1>1 DEF Untouched
<1>2. NamedOp
  BY DEF Init, NamedOp, NoEntry
<1>3. Len(offsets) <= Len(entries)
  BY EmptyIsList DEF Init
<1> QED
  BY <1>1, <1>2, <1>3, <1>5, <1>6 DEF IInv

\* The user leaves a text with lines.
LEMMA EditedIsList ==
  ASSUME IsList(text), Edit
  PROVE  IsList(text')
<1>1. PICK S : text \in Seq(S)
  BY DEF IsList
<1>2. Len(text) \in Nat /\ DOMAIN text = 1..Len(text)
  BY ListFacts
<1>3. CASE Insert
  <2>1. PICK i \in 1..(Len(text) + 1), t \in Inserted :
          text' = InsertAt(text, i, [at |-> None, text |-> t])
    BY <1>3 DEF Insert
  <2> DEFINE x == [at |-> None, text |-> t]
             S1 == S \cup {x}
  <2>2. text' = SubSeq(text, 1, i - 1) \o <<x>> \o SubSeq(text, i, Len(text))
    BY <2>1 DEF InsertAt
  <2> HIDE DEF x
  <2>3. \A j \in 1..Len(text) : text[j] \in S1
    BY <1>1
  <2>4. /\ \A j \in 1..(i - 1) : text[j] \in S1
        /\ \A j \in i..Len(text) : text[j] \in S1
        /\ i \in Int /\ i - 1 \in Int /\ Len(text) \in Int /\ 1 \in Int
    <3> HIDE DEF S1
    <3> QED
      BY <1>2, <2>3
  <2>5. SubSeq(text, 1, i - 1) \in Seq(S1) /\ SubSeq(text, i, Len(text)) \in Seq(S1)
    <3> HIDE DEF S1
    <3> QED
      BY <2>4, SubSeqProperties
  <2>6. IsList(SubSeq(text, 1, i - 1)) /\ IsList(SubSeq(text, i, Len(text))) /\ IsList(<<x>>)
    <3> HIDE DEF S1
    <3> QED
      BY <2>5, TuplesAreLists DEF IsList
  <2> QED
    BY <2>2, <2>6, ListConcat
<1>4. CASE Convert
  <2>1. PICK i \in DOMAIN text : text' = [text EXCEPT ![i].text = Converted(@)]
    BY <1>4 DEF Convert
  <2>2. text' = [j \in 1..Len(text) |-> text'[j]]
    BY <1>2, <2>1
  <2> QED
    BY <1>2, <2>2, ListMade
<1>5. CASE Untime
  <2>1. PICK I \in SUBSET {i \in DOMAIN text : text[i].at # None} :
          text' = [i \in DOMAIN text |-> IF i \in I THEN [text[i] EXCEPT !.at = None] ELSE text[i]]
    BY <1>5 DEF Untime
  <2>2. text' = [j \in 1..Len(text) |-> text'[j]]
    BY <1>2, <2>1
  <2> QED
    BY <1>2, <2>2, ListMade
<1>6. CASE Cut
  <2>1. PICK i \in 0..(Len(text) - 1) : text' = SubSeq(text, 1, i)
    BY <1>6 DEF Cut
  <2>2. \A j \in 1..i : text[j] \in S
    BY <1>1, <1>2
  <2>3. SubSeq(text, 1, i) \in Seq(S)
    BY <2>2, SubSeqProperties
  <2> QED
    BY <2>1, <2>3 DEF IsList
<1>7. CASE LeaveAlone
  BY <1>7 DEF LeaveAlone
<1> QED
  BY <1>3, <1>4, <1>5, <1>6, <1>7 DEF Edit

\* Before the parser starts there is nothing to lose; it starts on any text.
LEMMA EditOk ==
  ASSUME IInv, Unpack \/ Edit
  PROVE  IInv'
<1>1. /\ pc \in {"unpack", "edit"} /\ pc' \in {"edit", "preamble"}
      /\ UNCHANGED <<script, pos, entry, overriding, entries, turns, offsets>>
  BY DEF Unpack, Edit, Insert, Convert, Untime, Cut, LeaveAlone, parser
<1>2. Untouched /\ Untouched'
  BY <1>1 DEF IInv, Untouched
<1>3. IsList(text')
  BY UnpackWritesAList, EditedIsList DEF IInv, Shapes
<1>4. edit' \in {"none"} \cup script'.edits
  BY <1>1 DEF IInv, Shapes, Unpack, Edit, Insert, Convert, Untime, Cut, LeaveAlone
<1>5. Shapes'
  BY <1>1, <1>3, <1>4 DEF IInv, Shapes, Parts
<1>6. ASSUME pc' = "preamble"
      PROVE  Progressed'
  <2>1. Len(entries') = 0
    BY <1>2, EmptyIsList DEF Untouched
  <2>2. InEntry' = 0 /\ Spare' = 0
    BY <1>6 DEF InEntry, Spare
  <2>3. Len(text') \in Nat
    BY <1>3, ListFacts
  <2> QED
    BY <1>2, <1>6, <2>1, <2>2, <2>3 DEF Progressed, Untouched
<1> QED
  BY <1>1, <1>2, <1>5, <1>6 DEF IInv, NamedOp

\* What a turn may do to position and entries.
PassesLine(next) == pos <= Len(text) /\ pos' = pos + 1 /\ entries' = entries /\ pc' \in next
HandsOn(next) == pos' = pos /\ entries' = entries /\ pc' = next
Finishes == pos' = pos /\ entries' = Append(entries, entry) /\ pc' = "top"
Fails == pos' = pos /\ entries' = entries /\ pc' = "failed"

\* What a turn of each of the functions does to them.
LEMMA TurnsDo ==
  ASSUME Parse, Len(text) \in Nat, pos \in Nat
  PROVE  \/ pc = "preamble" /\ (PassesLine({"preamble", "top"}) \/ HandsOn("top") \/ (Fails /\ pos <= Len(text)))
         \/ pc = "top" /\ (PassesLine({"top", "args", "tail"}) \/ HandsOn("pack") \/ (Fails /\ pos <= Len(text)))
         \/ pc = "args" /\ (PassesLine({"args", "tail"}) \/ HandsOn("tail") \/ Fails)
         \/ pc = "tail" /\ (PassesLine({"tail"}) \/ Finishes \/ Fails)
<1>0. AtEnd \/ pos <= Len(text)
  BY DEF AtEnd
<1>1. CASE ParsePreamble
  BY <1>0, <1>1, Zenon
     DEF ParsePreamble, PassesLine, HandsOn, Fails, Skip, Fail, parser
<1>2. CASE ParseTop
  BY <1>0, <1>2, Zenon DEF ParseTop, PassesLine, HandsOn, Fails, Skip, Fail, parser
<1>3. CASE ParseArgs
  BY <1>0, <1>3, Zenon
     DEF ParseArgs, PassesLine, HandsOn, Fails, Skip, Fail, IsTheirs, parser
<1>4. CASE ParseTail
  BY <1>0, <1>4, Zenon DEF ParseTail, PassesLine, Finishes, Fails, Skip
<1> QED
  BY <1>1, <1>2, <1>3, <1>4 DEF Parse

\* No turn takes its name from the entry.
LEMMA EntryStaysNamed ==
  ASSUME NamedOp, overriding \in BOOLEAN, Parse
  PROVE  NamedOp' /\ overriding' \in BOOLEAN
<1>1. CASE ParsePreamble
  BY <1>1, Zenon DEF ParsePreamble, Fail, parser, NamedOp
<1>2. CASE ParseTop
  <2>1. overriding' = overriding
    BY <1>2, Zenon DEF ParseTop, Fail, parser
  <2>2. entry' = entry \/ \E o \in Ops : entry' = NewEntry(o)
    BY <1>2, Zenon DEF ParseTop, Fail, parser
  <2>3. CASE entry' = entry
    BY <2>1, <2>3 DEF NamedOp
  <2>4. ASSUME NEW o \in Ops, entry' = NewEntry(o)
        PROVE  NamedOp'
    <3>1. entry'.op = o /\ "op" \in DOMAIN entry'
      BY <2>4 DEF NewEntry
    <3> QED
      BY <3>1 DEF NamedOp
  <2> QED
    BY <2>1, <2>2, <2>3, <2>4
<1>3. CASE ParseArgs
  <2>1. overriding' \in BOOLEAN
    BY <1>3, Zenon DEF ParseArgs, Fail, parser
  <2>2. \/ entry' = entry
        \/ entry' = [entry EXCEPT !.args.overrides = Append(@, ParseAssignment(Line))]
        \/ entry' = [entry EXCEPT !.args[Key] = ParseValue(How, Value)]
    BY <1>3, Zenon DEF ParseArgs, Fail, parser
  <2>3. DOMAIN entry' = DOMAIN entry /\ entry'.op = entry.op
    BY <2>2 DEF NamedOp
  <2> QED
    BY <2>1, <2>3 DEF NamedOp
<1>4. CASE ParseTail
  <2>1. overriding' = overriding
    BY <1>4 DEF ParseTail
  <2>2. entry' = entry \/ entry' = [entry EXCEPT !.expects = @ \o ParseExpect(Line)]
    BY <1>4, Zenon DEF ParseTail
  <2>3. DOMAIN entry' = DOMAIN entry /\ entry'.op = entry.op
    BY <2>2 DEF NamedOp
  <2> QED
    BY <2>1, <2>3 DEF NamedOp
<1> QED
  BY <1>1, <1>2, <1>3, <1>4 DEF Parse

\* A turn keeps the invariant.
LEMMA ParseOk ==
  ASSUME IInv, Parse
  PROVE  IInv'
<1>1. /\ UNCHANGED <<script, text, edit, offsets>>
      /\ turns' = turns + 1 /\ pc \in Parts
  BY DEF Parse, ParsePreamble, ParseTop, ParseArgs, ParseTail, Parts
<1>2. /\ pc' \in Parts \cup {"pack", "failed"} /\ pos' \in {pos, pos + 1}
      /\ entries' = entries \/ entries' = Append(entries, entry)
  <2>1. CASE ParsePreamble
    BY <2>1, Zenon DEF ParsePreamble, Skip, Fail, parser, Parts
  <2>2. CASE ParseTop
    BY <2>2, Zenon DEF ParseTop, Skip, Fail, parser, Parts
  <2>3. CASE ParseArgs
    BY <2>3, Zenon DEF ParseArgs, Skip, Fail, parser, Parts
  <2>4. CASE ParseTail
    BY <2>4, Zenon DEF ParseTail, Skip, Parts
  <2> QED
    BY <2>1, <2>2, <2>3, <2>4 DEF Parse
<1>3. NamedOp' /\ overriding' \in BOOLEAN
  BY EntryStaysNamed DEF IInv, Shapes
<1>4. /\ IsList(Append(entries, entry)) /\ Len(Append(entries, entry)) = Len(entries) + 1
      /\ Len(entries) \in Nat /\ Len(text) \in Nat /\ Len(offsets) \in Nat
  BY ListAppended, ListLength DEF IInv, Shapes
<1>5. Shapes'
  <2>1. IsList(entries')
    BY <1>2, <1>4 DEF IInv, Shapes
  <2>2. pos' \in Nat \ {0} /\ turns' \in Nat
    BY <1>1, <1>2 DEF IInv, Shapes
  <2>3. pc' \in {"unpack", "edit", "pack", "done", "failed"} \cup Parts
    BY <1>2
  <2>4. script' \in Scripts /\ edit' \in {"none"} \cup script'.edits /\ IsList(text') /\ IsList(offsets')
    BY <1>1 DEF IInv, Shapes
  <2> QED
    BY <1>3, <2>1, <2>2, <2>3, <2>4 DEF Shapes
<1>6. Progressed'
  <2>1. Progressed /\ pos \in Nat /\ turns \in Nat
    BY <1>1 DEF IInv, Shapes, Parts
  <2>2. CASE pc = "preamble"
    <3>1. PassesLine({"preamble", "top"}) \/ HandsOn("top") \/ (Fails /\ pos <= Len(text))
      BY <1>4, <2>1, <2>2, TurnsDo
    <3>2. CASE PassesLine({"preamble", "top"})
      BY <1>1, <1>4, <2>1, <2>2, <3>2 DEF Progressed, InEntry, Spare, PassesLine
    <3>3. CASE HandsOn("top")
      BY <1>1, <1>4, <2>1, <2>2, <3>3 DEF Progressed, InEntry, Spare, HandsOn
    <3>4. CASE Fails /\ pos <= Len(text)
      BY <1>1, <1>4, <2>1, <2>2, <3>4 DEF Progressed, InEntry, Spare, Fails
    <3> QED
      BY <3>1, <3>2, <3>3, <3>4
  <2>3. CASE pc = "top"
    <3>1. PassesLine({"top", "args", "tail"}) \/ HandsOn("pack") \/ (Fails /\ pos <= Len(text))
      BY <1>4, <2>1, <2>3, TurnsDo
    <3>2. CASE PassesLine({"top", "args", "tail"})
      BY <1>1, <1>4, <2>1, <2>3, <3>2 DEF Progressed, InEntry, Spare, PassesLine
    <3>3. CASE HandsOn("pack")
      BY <1>1, <1>4, <2>1, <2>3, <3>3 DEF Progressed, InEntry, Spare, HandsOn
    <3>4. CASE Fails /\ pos <= Len(text)
      BY <1>1, <1>4, <2>1, <2>3, <3>4 DEF Progressed, InEntry, Spare, Fails
    <3> QED
      BY <3>1, <3>2, <3>3, <3>4
  <2>4. CASE pc = "args"
    <3>1. PassesLine({"args", "tail"}) \/ HandsOn("tail") \/ Fails
      BY <1>4, <2>1, <2>4, TurnsDo
    <3>2. CASE PassesLine({"args", "tail"})
      BY <1>1, <1>4, <2>1, <2>4, <3>2 DEF Progressed, InEntry, Spare, PassesLine
    <3>3. CASE HandsOn("tail")
      BY <1>1, <1>4, <2>1, <2>4, <3>3 DEF Progressed, InEntry, Spare, HandsOn
    <3>4. CASE Fails
      BY <1>1, <1>4, <2>1, <2>4, <3>4 DEF Progressed, InEntry, Spare, Fails
    <3> QED
      BY <3>1, <3>2, <3>3, <3>4
  <2>5. CASE pc = "tail"
    <3>1. PassesLine({"tail"}) \/ Finishes \/ Fails
      BY <1>4, <2>1, <2>5, TurnsDo
    <3>2. CASE PassesLine({"tail"})
      BY <1>1, <1>4, <2>1, <2>5, <3>2 DEF Progressed, InEntry, Spare, PassesLine
    <3>3. CASE Finishes
      BY <1>1, <1>4, <2>1, <2>5, <3>3 DEF Progressed, InEntry, Spare, Finishes
    <3>4. CASE Fails
      BY <1>1, <1>4, <2>1, <2>5, <3>4 DEF Progressed, InEntry, Spare, Fails
    <3> QED
      BY <3>1, <3>2, <3>3, <3>4
  <2> QED
    BY <1>1, <2>2, <2>3, <2>4, <2>5 DEF Parts
<1>7. Len(offsets') <= Len(entries')
  <2>1. Len(offsets) <= Len(entries)
    BY DEF IInv
  <2> QED
    BY <1>1, <1>2, <1>4, <2>1
<1> QED
  BY <1>1, <1>2, <1>3, <1>5, <1>6, <1>7 DEF IInv, Parts

\* pack lists times for the entries it was given.
LEMMA PackOk ==
  ASSUME IInv, Pack
  PROVE  IInv'
<1>1. /\ pc = "pack" /\ pc' \in {"pack", "done"}
      /\ UNCHANGED <<script, text, edit, pos, entry, overriding, entries, turns>>
  BY DEF Pack, parser
<1>2. \/ offsets' = offsets
      \/ Len(offsets) < Len(entries) /\ \E x : offsets' = Append(offsets, x)
  BY Zenon DEF Pack, Packed
<1>3. IsList(offsets') /\ Len(offsets') <= Len(entries)
  <2>1. CASE offsets' = offsets
    BY <2>1 DEF IInv, Shapes
  <2>2. ASSUME Len(offsets) < Len(entries), NEW x, offsets' = Append(offsets, x)
        PROVE  IsList(offsets') /\ Len(offsets') <= Len(entries)
    <3>1. IsList(offsets') /\ Len(offsets') = Len(offsets) + 1
      BY <2>2, ListAppended DEF IInv, Shapes
    <3>2. Len(offsets) \in Nat /\ Len(entries) \in Nat
      BY ListLength DEF IInv
    <3> QED
      BY <2>2, <3>1, <3>2
  <2> QED
    BY <1>2, <2>1, <2>2
<1>4. Shapes'
  BY <1>1, <1>3 DEF IInv, Shapes
<1>5. Progressed'
  <2>1. Progressed
    BY <1>1 DEF IInv
  <2> QED
    BY <1>1, <2>1 DEF Progressed, InEntry, Spare
<1> QED
  BY <1>1, <1>3, <1>4, <1>5 DEF IInv, NamedOp

\* Nor does a stutter break it.
LEMMA StutterOk ==
  ASSUME IInv, UNCHANGED vars
  PROVE  IInv'
BY DEF IInv, Shapes, NamedOp, Untouched, Progressed, InEntry, Spare, vars, parser

\* The invariant holds in every script, whatever was recorded and however its
\* text was edited.
THEOREM ParserInvariant == Spec => []IInv
<1>1. IInv /\ [Next]_vars => IInv'
  BY EditOk, ParseOk, PackOk, StutterOk DEF Next, Exit
<1> QED
  BY <1>1, InitOk, PTL DEF Spec

\* Every variable has its type, in particular the position, which the four functions
\* of the parser share, stays within the text: what indexes a line is in bounds.
THEOREM ScriptTypes == Spec => []TypeOK
<1>1. IInv => TypeOK
  <2> SUFFICES ASSUME IInv
               PROVE  TypeOK
    OBVIOUS
  <2>1. Len(text) \in Nat /\ Len(entries) \in Nat /\ Len(offsets) \in Nat
    BY ListLength DEF IInv
  <2>2. pos \in 1..(Len(text) + 1) /\ Len(entries) <= Len(text)
    <3>1. CASE pc \in {"unpack", "edit"}
      BY <2>1, <3>1, EmptyIsList DEF IInv, Untouched
    <3>2. CASE pc \notin {"unpack", "edit"}
      BY <2>1, <3>2 DEF IInv, Shapes, Progressed, InEntry
    <3> QED
      BY <3>1, <3>2
  <2> QED
    BY <2>1, <2>2 DEF IInv, Shapes, NamedOp, TypeOK
<1> QED
  BY <1>1, ParserInvariant, PTL

\* The parser (parse_script) takes at most three turns for each line and two more,
\* for every recording and edit.  That it does not wait for ever on the way is left
\* to TLC, which finds a step in every state but the last ones.
THEOREM ParserEnds == Spec => []ParsingEnds
<1>1. IInv => ParsingEnds
  <2> SUFFICES ASSUME IInv
               PROVE  ParsingEnds
    OBVIOUS
  <2>1. Len(text) \in Nat /\ Len(entries) \in Nat
    BY ListLength DEF IInv
  <2>2. CASE pc \in {"unpack", "edit"}
    BY <2>1, <2>2 DEF IInv, Untouched, ParsingEnds
  <2>3. CASE pc \notin {"unpack", "edit"}
    BY <2>1, <2>3 DEF IInv, Shapes, Progressed, InEntry, Spare, ParsingEnds
  <2> QED
    BY <2>2, <2>3
<1> QED
  BY <1>1, ParserInvariant, PTL

\* While the parser is at work no entry comes from nothing: each has a line of its own.
THEOREM EntriesHaveLines == Spec => [](pc \in Parts => Len(entries) < pos)
<1>1. IInv => (pc \in Parts => Len(entries) < pos)
  <2> SUFFICES ASSUME IInv, pc \in Parts
               PROVE  Len(entries) < pos
    OBVIOUS
  <2>1. Len(entries) \in Nat
    BY ListLength DEF IInv
  <2> QED
    BY <2>1 DEF IInv, Shapes, Progressed, InEntry, Parts
<1> QED
  BY <1>1, ParserInvariant, PTL

-----------------------------------------------------------------------------
(* The operation's own line is read back.                                  *)

\* A set, and what stands behind it on its line.
LEMMA SetFollowed ==
  ASSUME NEW ss, IsLines(ss), SetSurvives(ss), NEW t, IsList(t), ~Mentions(t, NL),
         NEW s, s = Cat(FormatSet(ss), t)
  PROVE  /\ IsList(s) /\ ~Mentions(s, NL) /\ s # <<>> /\ s[1] = OPEN
         /\ SetIsClosed(s) /\ ParseSet(s) = ss /\ BehindSet(s) = Trim(t)
<1>1. PICK body : SetBody(ss, body) /\ ~Mentions(body, CLOSE) /\ ~Mentions(body, NL)
  BY SetCarried
<1>2. IsList(s) /\ s # <<>> /\ s[1] = OPEN /\ ParseSet(s) = ss /\ BehindSet(s) = Trim(t)
  BY <1>1, ParseSetBack
<1>3. PICK f : f = FormatSet(ss)
  OBVIOUS
<1>4. Solid(f)
  BY <1>1, <1>3, SetIsSolid
<1>5. IsList(f) /\ ~Mentions(f, NL)
  BY <1>4 DEF Solid, Tight
<1>6. ~Mentions(s, NL)
  BY <1>3, <1>5, CatMentions
<1>7. Mentions(f, CLOSE)
  <2>1. IsList(body) /\ f = Onto(OPEN, Cat(body, One(CLOSE)))
    BY <1>1, <1>3 DEF SetBody
  <2>2. IsList(f) /\ f # <<>> /\ f[Len(f)] = CLOSE
    BY <2>1, BetweenIs
  <2>3. Len(f) \in 1..Len(f) /\ DOMAIN f = 1..Len(f)
    BY <2>2, ListFacts
  <2> QED
    BY <2>2, <2>3 DEF Mentions
<1>8. Mentions(s, CLOSE)
  <2>1. PICK j \in 1..Len(f) : f[j] = CLOSE
    BY <1>5, <1>7, ListFacts DEF Mentions
  <2>2. s[j] = CLOSE /\ j \in 1..Len(s) /\ DOMAIN s = 1..Len(s)
    BY <1>2, <1>3, <1>5, <2>1, CatIs, ListFacts
  <2> QED
    BY <2>2 DEF Mentions
<1> QED
  BY <1>2, <1>6, <1>8 DEF SetIsClosed

\* Which operations parse_op_line expects a set of.
LEMMA SetsAreExpected ==
  ASSUME NEW op \in Ops
  PROVE  /\ op \in SetOps => ParseVariant(op) \in SetHeads \cup {"PathSetFlag", "PathSetMode"}
         /\ op = "AddSignatures" => ParseVariant(op) = "AddSignatures"
<1>1. op \in SetOps \cup {"AddSignatures"} =>
        op \notin PathOps \cup StringOps \cup NoArgOps \cup ComplexOps
  BY KindsDisjoint DEF Special
<1> QED
  BY <1>1 DEF ParseVariant, SetOps, SetHeads

\* What the parser makes of the rest of such a line.
Reads(c, a) ==
  ~HeadIsBad(c.op, a) /\ \A key \in HeadKeys(c.op) : ParseHead(c.op, a)[key] = c.args[key]
HeadText(c, rest) ==
  IsList(rest) /\ ~Mentions(rest, NL) /\ FormatHead(c) = Onto(SP, rest) /\ Reads(c, Trim(rest))
HeadSays(c) == (\E rest : HeadText(c, rest)) \/ (FormatHead(c) = <<>> /\ Reads(c, <<>>))

LEMMA OntoIsCat ==
  ASSUME NEW x, NEW s, IsList(s)
  PROVE  <<x>> \o s = Onto(x, s)
BY DEF Onto, Cat, One

LEMMA WholePathReads ==
  ASSUME NEW c, IsSentCall(c), HeadSurvives(c), c.variant \in PathHeads
  PROVE  HeadSays(c)
<1> DEFINE x == c.args.path
<1>1. HeadKeys(c.op) = {"path"}
  BY HeadKeysAre DEF IsSentCall, HeadTable, PathHeads, ValueHeads, SetHeads, BareHeads
<1>2. IsList(x)
  BY <1>1, StringsAreList DEF IsSentCall, IsHeadValue
<1>3. Whole(x) /\ FormatHead(c) = <<SP>> \o x
  BY DEF HeadSurvives, FormatHead, PathHeads
<1>4. \A a : ParseHead(c.op, a) = [path |-> a]
  BY HeadClasses DEF IsSentCall, HeadReads, PathHeads, ValueHeads, SetHeads, BareHeads
<1>5. c.op \notin SetOps /\ c.op # "AddSignatures"
  BY SetsAreExpected DEF IsSentCall, PathHeads, SetHeads
<1>6. Reads(c, x)
  <2>1. ~HeadIsBad(c.op, x)
    BY <1>5, Zenon DEF HeadIsBad
  <2>2. PICK h : h = [path |-> x]
    OBVIOUS
  <2>3. ParseHead(c.op, x) = h /\ h["path"] = c.args["path"]
    BY <1>4, <2>2
  <2> QED
    BY <1>1, <2>1, <2>3 DEF Reads
<1>7. FormatHead(c) = Onto(SP, x) /\ Trim(x) = x /\ ~Mentions(x, NL)
  BY <1>2, <1>3, OntoIsCat DEF Whole, OneLine
<1> HIDE DEF x
<1> QED
  BY <1>2, <1>6, <1>7 DEF HeadSays, HeadText

LEMMA WholeValueReads ==
  ASSUME NEW c, IsSentCall(c), HeadSurvives(c), c.variant \in ValueHeads
  PROVE  HeadSays(c)
<1> DEFINE x == c.args.value
<1>1. HeadKeys(c.op) = {"value"}
  BY HeadKeysAre DEF IsSentCall, HeadTable, PathHeads, ValueHeads, SetHeads, BareHeads
<1>2. IsList(x)
  BY <1>1, StringsAreList DEF IsSentCall, IsHeadValue
<1>3. Whole(x) /\ FormatHead(c) = <<SP>> \o x
  BY DEF HeadSurvives, FormatHead, ValueHeads
<1>4. \A a : ParseHead(c.op, a) = [value |-> a]
  BY HeadClasses DEF IsSentCall, HeadReads, PathHeads, ValueHeads, SetHeads, BareHeads
<1>5. c.op \notin SetOps /\ c.op # "AddSignatures"
  BY SetsAreExpected DEF IsSentCall, ValueHeads, SetHeads
<1>6. Reads(c, x)
  <2>1. ~HeadIsBad(c.op, x)
    BY <1>5, Zenon DEF HeadIsBad
  <2>2. PICK h : h = [value |-> x]
    OBVIOUS
  <2>3. ParseHead(c.op, x) = h /\ h["value"] = c.args["value"]
    BY <1>4, <2>2
  <2> QED
    BY <1>1, <2>1, <2>3 DEF Reads
<1>7. FormatHead(c) = Onto(SP, x) /\ Trim(x) = x /\ ~Mentions(x, NL)
  BY <1>2, <1>3, OntoIsCat DEF Whole, OneLine
<1> HIDE DEF x
<1> QED
  BY <1>2, <1>6, <1>7 DEF HeadSays, HeadText

\* A set with nothing behind it, or one word.
LEMMA SetIsTight ==
  ASSUME NEW ss, IsLines(ss), SetSurvives(ss)
  PROVE  /\ Tight(FormatSet(ss)) /\ Cat(FormatSet(ss), <<>>) = FormatSet(ss)
         /\ \A x : x # SP => Tight(Cat(FormatSet(ss), <<SP, x>>))
<1>1. PICK body : SetBody(ss, body) /\ ~Mentions(body, NL)
  BY SetCarried
<1>2. PICK f : f = FormatSet(ss)
  OBVIOUS
<1>3. Tight(f) /\ f # <<>> /\ IsList(f)
  BY <1>1, <1>2, SetIsSolid DEF Solid, Tight
<1>4. Cat(f, <<>>) = f
  BY <1>3, CatEmpty
<1>5. ASSUME NEW x, x # SP
      PROVE  Tight(Cat(f, <<SP, x>>))
  <2>1. <<SP, x>> = Cat(One(SP), One(x))
    BY DEF Cat, One
  <2>2. IsList(One(SP)) /\ IsList(One(x)) /\ Tight(One(x)) /\ One(x) # <<>>
    BY <1>5, OneIs, OneTight
  <2>3. Cat(f, <<SP, x>>) = Cat(Cat(f, One(SP)), One(x))
    BY <1>3, <2>1, <2>2, CatAssociates
  <2>4. PICK b : b = Cat(f, One(SP))
    OBVIOUS
  <2>5. IsList(b) /\ b[1] = f[1] /\ f[1] # SP
    <3>1. 1 \in 1..Len(f)
      BY <1>3, ListFacts
    <3> QED
      BY <1>3, <2>2, <2>4, <3>1, CatIs DEF Tight
  <2> QED
    BY <2>2, <2>3, <2>4, <2>5, TightBehind
<1> QED
  BY <1>2, <1>3, <1>4, <1>5

\* The words that may stand behind a set.
LEMMA WordsBehind ==
  /\ \A x : IsList(<<SP, x>>) /\ (x # NL => ~Mentions(<<SP, x>>, NL))
  /\ \A x : x # SP => Trim(<<SP, x>>) = <<x>>
<1>1. \A x : <<SP, x>> = Onto(SP, One(x))
  BY DEF Onto, Cat, One
<1>2. \A x : IsList(One(x)) /\ <<x>> = One(x)
  BY OneIs DEF One
<1>3. \A x : x # NL => ~Mentions(Onto(SP, One(x)), NL)
  <2>1. SP # NL
    BY Tokens
  <2> QED
    BY <1>2, <2>1, OneMentions, OntoMentions
<1>4. \A x : IsList(Onto(SP, One(x))) /\ (x # SP => Trim(Onto(SP, One(x))) = One(x))
  BY <1>2, TrimSpace, OneTight
<1> QED
  BY <1>1, <1>2, <1>3, <1>4

\* What is said of a set and the text behind it.
SetText(c, ss, t) ==
  LET s == Cat(FormatSet(ss), t)
  IN  /\ HeadText(c, s) <=> Reads(c, s)
      /\ SetIsClosed(s) /\ ParseSet(s) = ss /\ BehindSet(s) = Trim(t)

LEMMA SetTextIs ==
  ASSUME NEW c, NEW ss, IsLines(ss), SetSurvives(ss), NEW t,
         t = <<>> \/ \E x : x \notin {SP, NL} /\ t = <<SP, x>>,
         FormatHead(c) = (<<SP>> \o FormatSet(ss)) \o t
  PROVE  SetText(c, ss, t)
<1>1. PICK f, s : f = FormatSet(ss) /\ s = Cat(f, t)
  OBVIOUS
<1>2. IsList(t) /\ ~Mentions(t, NL)
  BY EmptyIsList, EmptyMentions, WordsBehind
<1>3. /\ IsList(s) /\ ~Mentions(s, NL) /\ SetIsClosed(s) /\ ParseSet(s) = ss
      /\ BehindSet(s) = Trim(t)
  BY <1>1, <1>2, SetFollowed
<1>4. Tight(s) /\ IsList(f)
  BY <1>1, SetIsTight DEF Tight
<1>5. Trim(s) = s
  BY <1>3, <1>4, TrimTight
<1>6. FormatHead(c) = Onto(SP, s)
  <2>1. <<SP>> \o f = Cat(One(SP), f) /\ IsList(One(SP))
    BY OneIs DEF Cat, One
  <2>2. FormatHead(c) = Cat(Cat(One(SP), f), t)
    BY <1>1, <2>1 DEF Cat
  <2> QED
    BY <1>1, <1>2, <1>4, <2>1, <2>2, CatAssociates DEF Onto
<1> QED
  BY <1>1, <1>3, <1>5, <1>6 DEF SetText, HeadText

LEMMA SetReads ==
  ASSUME NEW c, IsSentCall(c), HeadSurvives(c), c.variant \in SetHeads
  PROVE  HeadSays(c)
<1> DEFINE x == c.args.paths
<1>1. HeadKeys(c.op) = {"paths"}
  BY HeadKeysAre DEF IsSentCall, HeadTable, PathHeads, ValueHeads, SetHeads, BareHeads
<1>2. IsLines(x)
  BY <1>1, StringsAreList DEF IsSentCall, IsHeadValue
<1>3. SetSurvives(x) /\ FormatHead(c) = <<SP>> \o FormatSet(x)
  BY DEF HeadSurvives, FormatHead, SetHeads
<1>4. \A a : ParseHead(c.op, a) = [paths |-> ParseSet(a)]
  BY HeadClasses DEF IsSentCall, HeadReads, PathHeads, ValueHeads, SetHeads, BareHeads
<1>5. c.op # "AddSignatures"
  BY SetsAreExpected DEF IsSentCall, SetHeads
<1> HIDE DEF x
<1>6. SetText(c, x, <<>>)
  <2>1. PICK f, g, e : f = FormatSet(x) /\ g = <<SP>> \o f /\ e = <<>>
    OBVIOUS
  <2>2. IsList(g)
    BY <1>2, <2>1, SetIsList, TuplesAreLists, ListConcat
  <2>3. g \o e = g
    BY <2>1, <2>2, CatEmpty DEF Cat
  <2> QED
    BY <1>2, <1>3, <2>1, <2>3, SetTextIs
<1>7. PICK s : s = Cat(FormatSet(x), <<>>)
  OBVIOUS
<1>8. (HeadText(c, s) <=> Reads(c, s)) /\ SetIsClosed(s) /\ ParseSet(s) = x
  BY <1>6, <1>7 DEF SetText
<1>9. Reads(c, s)
  <2>1. ~HeadIsBad(c.op, s)
    BY <1>5, <1>8, Zenon DEF HeadIsBad
  <2>2. PICK h : h = [paths |-> x]
    OBVIOUS
  <2>3. ParseHead(c.op, s) = h /\ h["paths"] = c.args["paths"]
    BY <1>4, <1>8, <2>2 DEF x
  <2> QED
    BY <1>1, <2>1, <2>3 DEF Reads
<1> QED
  BY <1>8, <1>9 DEF HeadSays

LEMMA SetAndFlagRead ==
  ASSUME NEW c, IsSentCall(c), HeadSurvives(c), c.variant = "PathSetFlag"
  PROVE  HeadSays(c)
<1> DEFINE x == c.args.paths
           y == c.args.substitute
           t == IF y THEN <<SP, "substitute">> ELSE <<>>
<1>1. HeadKeys(c.op) = {"paths", "substitute"}
  BY HeadKeysAre DEF IsSentCall, HeadTable, PathHeads, ValueHeads, SetHeads, BareHeads
<1>2. IsLines(x) /\ y \in BOOLEAN
  BY <1>1, StringsAreList DEF IsSentCall, IsHeadValue
<1>3. SetSurvives(x) /\ FormatHead(c) = (<<SP>> \o FormatSet(x)) \o t
  BY DEF HeadSurvives, FormatHead
<1>4. \A a : ParseHead(c.op, a) = [paths |-> ParseSet(a), substitute |-> BehindSet(a) = <<"substitute">>]
  BY HeadClasses DEF IsSentCall, HeadReads, PathHeads, ValueHeads, SetHeads, BareHeads
<1>5. c.op # "AddSignatures"
  BY SetsAreExpected DEF IsSentCall
<1>6. "substitute" \notin {SP, NL}
  BY Zenon DEF SP, NL
<1>7. t = <<>> \/ \E z : z \notin {SP, NL} /\ t = <<SP, z>>
  BY <1>6
<1>8. (Trim(t) = <<"substitute">>) = y
  <2>1. CASE y
    <3>1. t = <<SP, "substitute">>
      BY <2>1
    <3> QED
      BY <1>6, <2>1, <3>1, WordsBehind
  <2>2. CASE ~y
    <3>1. t = <<>>
      BY <2>2
    <3>2. Trim(<<>>) = <<>>
      BY BlankOnes, TrimBlank
    <3> QED
      BY <1>2, <2>2, <3>1, <3>2
  <2> QED
    BY <2>1, <2>2
<1> HIDE DEF x, y, t
<1>9. SetText(c, x, t)
  BY <1>2, <1>3, <1>7, SetTextIs
<1>10. PICK s : s = Cat(FormatSet(x), t)
  OBVIOUS
<1>11. /\ (HeadText(c, s) <=> Reads(c, s)) /\ SetIsClosed(s) /\ ParseSet(s) = x
       /\ BehindSet(s) = Trim(t)
  BY <1>9, <1>10 DEF SetText
<1>12. Reads(c, s)
  <2>1. ~HeadIsBad(c.op, s)
    BY <1>5, <1>11, Zenon DEF HeadIsBad
  <2>2. PICK b, h : b = (BehindSet(s) = <<"substitute">>) /\ h = [paths |-> x, substitute |-> b]
    OBVIOUS
  <2>3. ParseHead(c.op, s) = h /\ h["paths"] = x /\ h["substitute"] = b
    BY <1>4, <1>11, <2>2
  <2>4. b = y
    BY <1>8, <1>11, <2>2
  <2> QED
    BY <1>1, <2>1, <2>3, <2>4 DEF Reads, x, y
<1> QED
  BY <1>11, <1>12 DEF HeadSays

LEMMA SetAndModeRead ==
  ASSUME NEW c, IsSentCall(c), HeadSurvives(c), c.variant = "PathSetMode"
  PROVE  HeadSays(c)
<1> DEFINE x == c.args.paths
           y == c.args.mode
           t == <<SP, y>>
<1>1. HeadKeys(c.op) = {"paths", "mode"}
  BY HeadKeysAre DEF IsSentCall, HeadTable, PathHeads, ValueHeads, SetHeads, BareHeads
<1>2. IsLines(x) /\ y \notin {SP, NL}
  BY <1>1, StringsAreList DEF IsSentCall, IsHeadValue, Words
<1>3. SetSurvives(x) /\ FormatHead(c) = (<<SP>> \o FormatSet(x)) \o t
  BY DEF HeadSurvives, FormatHead
<1>4. \A a : ParseHead(c.op, a) =
        [paths |-> ParseSet(a), mode |-> IF BehindSet(a) = <<>> THEN "normal" ELSE BehindSet(a)[1]]
  BY HeadClasses DEF IsSentCall, HeadReads, PathHeads, ValueHeads, SetHeads, BareHeads
<1>5. c.op # "AddSignatures"
  BY SetsAreExpected DEF IsSentCall
<1>7. t = <<>> \/ \E z : z \notin {SP, NL} /\ t = <<SP, z>>
  BY <1>2
<1>8. Trim(t) = <<y>>
  BY <1>2, WordsBehind
<1> HIDE DEF x, y, t
<1>9. SetText(c, x, t)
  BY <1>2, <1>3, <1>7, SetTextIs
<1>10. PICK s : s = Cat(FormatSet(x), t)
  OBVIOUS
<1>11. /\ (HeadText(c, s) <=> Reads(c, s)) /\ SetIsClosed(s) /\ ParseSet(s) = x
       /\ BehindSet(s) = Trim(t)
  BY <1>9, <1>10 DEF SetText
<1>12. Reads(c, s)
  <2>1. ~HeadIsBad(c.op, s)
    BY <1>5, <1>11, Zenon DEF HeadIsBad
  <2>2. PICK b, h : /\ b = (IF BehindSet(s) = <<>> THEN "normal" ELSE BehindSet(s)[1])
                    /\ h = [paths |-> x, mode |-> b]
    OBVIOUS
  <2>3. ParseHead(c.op, s) = h /\ h["paths"] = x /\ h["mode"] = b
    BY <1>4, <1>11, <2>2
  <2>4. b = y
    BY <1>8, <1>11, <2>2
  <2> QED
    BY <1>1, <2>1, <2>3, <2>4 DEF Reads, x, y
<1> QED
  BY <1>11, <1>12 DEF HeadSays

LEMMA BareReads ==
  ASSUME NEW c, IsSentCall(c), c.variant \in BareHeads
  PROVE  HeadSays(c)
<1>1. HeadKeys(c.op) = {}
  BY HeadKeysAre DEF IsSentCall, HeadTable, PathHeads, ValueHeads, SetHeads, BareHeads
<1>2. FormatHead(c) = <<>>
  BY DEF FormatHead, BareHeads
<1>3. c.op \notin SetOps /\ c.op # "AddSignatures"
  BY SetsAreExpected DEF IsSentCall, SetHeads, BareHeads
<1>4. ~HeadIsBad(c.op, <<>>)
  BY <1>3, Zenon DEF HeadIsBad
<1> QED
  BY <1>1, <1>2, <1>4 DEF HeadSays, Reads

\* Two texts with a space between them, of which the first is a word.
LEMMA WordsApart ==
  ASSUME NEW a, NEW b, IsList(a), IsList(b), a # <<>>, ~Mentions(a, SP), ~Mentions(a, NL),
         ~Mentions(b, NL), b # <<>> => b[Len(b)] # SP, NEW s, s = Around(a, SP, b)
  PROVE  /\ IsList(s) /\ ~Mentions(s, NL)
         /\ Upto(Trim(s), SP) = a /\ Beyond(Trim(s), SP) = b
<1>1. IsList(One(SP)) /\ ~Mentions(One(SP), NL)
  BY OneIs, OneMentions, Tokens
<1>2. IsList(Cat(One(SP), b)) /\ ~Mentions(Cat(One(SP), b), NL)
  BY <1>1, CatIs, CatMentions
<1>3. IsList(s) /\ ~Mentions(s, NL)
  BY <1>2, CatIs, CatMentions DEF Around
<1>4. a[1] # SP /\ a[Len(a)] # SP /\ Tight(a)
  <2>1. 1 \in DOMAIN a /\ Len(a) \in DOMAIN a
    BY ListFacts
  <2> QED
    BY <2>1 DEF Mentions, Tight
<1>5. CASE b = <<>>
  <2>1. s = Cat(<<>>, Cat(a, One(SP)))
    BY <1>1, <1>5, CatEmpty, CatIs DEF Around
  <2>2. Trim(s) = a
    <3>1. Blank(<<>>) /\ Blank(One(SP))
      BY BlankOnes
    <3>2. Trim(Cat(<<>>, Cat(a, One(SP)))) = Trim(a)
      BY <3>1, TrimPads
    <3> QED
      BY <1>4, <2>1, <3>2, TrimTight
  <2> QED
    BY <1>3, <1>5, <2>2 DEF Upto, Beyond
<1>6. CASE b # <<>>
  <2>1. Tight(s)
    <3>1. PICK p : p = Cat(a, One(SP))
      OBVIOUS
    <3>2. s = Cat(p, b) /\ IsList(p)
      BY <1>1, <3>1, CatAssociates, CatIs DEF Around
    <3>3. s # <<>> /\ s[1] = a[1] /\ s[Len(s)] = b[Len(b)]
      <4>1. 1 \in 1..Len(a) /\ Len(b) \in 1..Len(b) /\ Len(a) \in Nat /\ Len(b) \in Nat
        BY <1>6, ListFacts
      <4>2. s[1] = a[1] /\ Len(s) = Len(a) + Len(Cat(One(SP), b)) /\ Len(Cat(One(SP), b)) \in Nat
        BY <1>2, <4>1, CatIs DEF Around
      <4>3. Len(p) \in Nat /\ Len(s) = Len(p) + Len(b) /\ s[Len(p) + Len(b)] = b[Len(b)]
        BY <3>2, <4>1, CatIs
      <4>4. Len(s) # 0
        BY <4>1, <4>3
      <4> QED
        BY <4>2, <4>3, <4>4, TupleLengths
    <3> QED
      BY <1>3, <1>4, <1>6, <3>3 DEF Tight
  <2>2. Trim(s) = s
    BY <1>3, <2>1, TrimTight
  <2>3. Upto(s, SP) = a /\ Beyond(s, SP) = b
    BY CutAt
  <2> QED
    BY <1>3, <2>2, <2>3
<1> QED
  BY <1>3, <1>5, <1>6

LEMMA PairText ==
  ASSUME NEW c, NEW a, NEW b, IsList(a), IsList(b),
         FormatHead(c) = ((<<SP>> \o a) \o <<SP>>) \o b
  PROVE  FormatHead(c) = Onto(SP, Around(a, SP, b))
<1>1. PICK z : z = One(SP)
  OBVIOUS
<1>2. IsList(z) /\ z = <<SP>>
  BY <1>1, OneIs DEF One
<1>3. FormatHead(c) = Cat(Cat(Cat(z, a), z), b)
  BY <1>2 DEF Cat
<1>4. IsList(Cat(z, a)) /\ IsList(Cat(z, b))
  BY <1>2, CatIs
<1>5. Cat(Cat(Cat(z, a), z), b) = Cat(Cat(z, a), Cat(z, b))
  BY <1>2, <1>4, CatAssociates
<1>6. Cat(Cat(z, a), Cat(z, b)) = Cat(z, Cat(a, Cat(z, b)))
  BY <1>2, <1>4, CatAssociates
<1> QED
  BY <1>1, <1>3, <1>5, <1>6 DEF Onto, Around

LEMMA PermRootReads ==
  ASSUME NEW c, IsSentCall(c), HeadSurvives(c), c.variant = "AddPermRoot"
  PROVE  HeadSays(c)
<1> DEFINE x == c.args.path
           y == c.args.gc_root
<1>1. HeadKeys(c.op) = {"path", "gc_root"}
  BY HeadKeysAre DEF IsSentCall, HeadTable, PathHeads, ValueHeads, SetHeads, BareHeads
<1>2. IsList(x) /\ IsList(y)
  BY <1>1, StringsAreList DEF IsSentCall, IsHeadValue
<1>3. /\ FormatHead(c) = ((<<SP>> \o x) \o <<SP>>) \o y
      /\ \/ x = <<>> /\ y = <<>>
         \/ /\ ~Mentions(x, NL) /\ ~Mentions(x, SP) /\ x # <<>> /\ ~Mentions(y, NL)
            /\ Trim(<<"a">> \o y) = <<"a">> \o y
  BY DEF HeadSurvives, FormatHead, OneLine
<1>4. \A a : ParseHead(c.op, a) = [path |-> Upto(a, SP), gc_root |-> Beyond(a, SP)]
  BY HeadClasses DEF IsSentCall, HeadReads, PathHeads, ValueHeads, SetHeads, BareHeads
<1>5. c.op \notin SetOps /\ c.op # "AddSignatures"
  BY SetsAreExpected DEF IsSentCall, SetHeads
<1>6. ASSUME NEW a, Upto(a, SP) = x, Beyond(a, SP) = y
      PROVE  Reads(c, a)
  <2>1. ~HeadIsBad(c.op, a)
    BY <1>5, Zenon DEF HeadIsBad
  <2>2. PICK h : h = [path |-> x, gc_root |-> y]
    OBVIOUS
  <2>3. ParseHead(c.op, a) = h /\ h["path"] = c.args["path"] /\ h["gc_root"] = c.args["gc_root"]
    BY <1>4, <1>6, <2>2
  <2> QED
    BY <1>1, <2>1, <2>3 DEF Reads
<1> HIDE DEF x, y
<1>7. PICK s : s = Around(x, SP, y)
  OBVIOUS
<1>8. FormatHead(c) = Onto(SP, s)
  BY <1>2, <1>3, <1>7, PairText
<1>9. CASE x = <<>> /\ y = <<>>
  <2>1. s = One(SP)
    BY <1>7, <1>9, OneIs, CatEmpty, EmptyIsList DEF Around
  <2>2. Trim(s) = <<>> /\ IsList(s) /\ ~Mentions(s, NL)
    BY <2>1, BlankOnes, TrimBlank, OneIs, OneMentions, Tokens
  <2>3. Upto(<<>>, SP) = <<>> /\ Beyond(<<>>, SP) = <<>>
    BY EmptyMentions DEF Upto, Beyond
  <2> QED
    BY <1>6, <1>8, <1>9, <2>2, <2>3 DEF HeadSays, HeadText
<1>10. CASE ~(x = <<>> /\ y = <<>>)
  <2>1. /\ ~Mentions(x, NL) /\ ~Mentions(x, SP) /\ x # <<>> /\ ~Mentions(y, NL)
        /\ Trim(<<"a">> \o y) = <<"a">> \o y
    BY <1>3, <1>10
  <2>2. y # <<>> => y[Len(y)] # SP
    <3> SUFFICES ASSUME y # <<>>
                 PROVE  y[Len(y)] # SP
      OBVIOUS
    <3>1. PICK z, u : z = One("a") /\ u = Cat(z, y)
      OBVIOUS
    <3>2. IsList(z) /\ Len(z) = 1 /\ z = <<"a">>
      BY <3>1, OneIs DEF One
    <3>3. Trim(u) = u
      BY <2>1, <3>1, <3>2 DEF Cat
    <3>4. Len(y) \in Nat /\ Len(y) # 0 /\ Len(y) \in 1..Len(y)
      BY <1>2, ListFacts
    <3>5. IsList(u) /\ Len(u) = 1 + Len(y) /\ u[1 + Len(y)] = y[Len(y)]
      <4>1. IsList(z) /\ IsList(y)
        BY <1>2, <3>2
      <4>2. /\ IsList(u) /\ Len(u) = Len(z) + Len(y)
            /\ \A j \in 1..Len(y) : u[Len(z) + j] = y[j]
        BY <3>1, <4>1, CatIs
      <4> QED
        BY <3>2, <3>4, <4>2
    <3>6. Tight(u) /\ u # <<>>
      BY <3>3, <3>4, <3>5, TrimTight, TupleLengths
    <3> QED
      BY <3>5, <3>6 DEF Tight
  <2>3. IsList(s) /\ ~Mentions(s, NL) /\ Upto(Trim(s), SP) = x /\ Beyond(Trim(s), SP) = y
    BY <1>2, <1>7, <2>1, <2>2, WordsApart
  <2> QED
    BY <1>6, <1>8, <2>3 DEF HeadSays, HeadText
<1> QED
  BY <1>9, <1>10

LEMMA SignaturesRead ==
  ASSUME NEW c, IsSentCall(c), HeadSurvives(c), c.variant = "AddSignatures"
  PROVE  HeadSays(c)
<1> DEFINE x == c.args.path
           y == c.args.sigs
<1>1. HeadKeys(c.op) = {"path", "sigs"}
  BY HeadKeysAre DEF IsSentCall, HeadTable, PathHeads, ValueHeads, SetHeads, BareHeads
<1>2. IsList(x) /\ IsLines(y)
  BY <1>1, StringsAreList DEF IsSentCall, IsHeadValue
<1>3. /\ FormatHead(c) = ((<<SP>> \o x) \o <<SP>>) \o FormatSet(y)
      /\ ~Mentions(x, NL) /\ ~Mentions(x, SP) /\ x # <<>> /\ SetSurvives(y)
  BY DEF HeadSurvives, FormatHead, OneLine
<1>4. \A a : ParseHead(c.op, a) = [path |-> Upto(a, SP), sigs |-> ParseSet(Trim(Beyond(a, SP)))]
  BY HeadClasses DEF IsSentCall, HeadReads, PathHeads, ValueHeads, SetHeads, BareHeads
<1>5. c.op \notin SetOps
  BY SetsAreExpected DEF IsSentCall, SetHeads
<1> HIDE DEF x, y
<1>6. PICK f, s : f = FormatSet(y) /\ s = Around(x, SP, f)
  OBVIOUS
<1>7. Tight(f) /\ Cat(f, <<>>) = f
  BY <1>2, <1>3, <1>6, SetIsTight
<1>8. IsList(f) /\ ~Mentions(f, NL) /\ f # <<>> /\ SetIsClosed(f) /\ ParseSet(f) = y
  <2>1. PICK e : e = <<>>
    OBVIOUS
  <2>2. IsList(e) /\ ~Mentions(e, NL) /\ f = Cat(FormatSet(y), e)
    BY <1>6, <1>7, <2>1, EmptyIsList, EmptyMentions
  <2> QED
    BY <1>2, <1>3, <2>2, SetFollowed
<1>9. FormatHead(c) = Onto(SP, s)
  BY <1>2, <1>3, <1>6, <1>8, PairText
<1>10. IsList(s) /\ ~Mentions(s, NL) /\ Upto(Trim(s), SP) = x /\ Beyond(Trim(s), SP) = f
  BY <1>2, <1>3, <1>6, <1>7, <1>8, WordsApart DEF Tight
<1>11. Trim(f) = f
  BY <1>7, <1>8, TrimTight
<1>12. Reads(c, Trim(s))
  <2>1. ~HeadIsBad(c.op, Trim(s))
    BY <1>5, <1>8, <1>10, <1>11, Zenon DEF HeadIsBad
  <2>2. PICK h : h = [path |-> x, sigs |-> y]
    OBVIOUS
  <2>3. ParseHead(c.op, Trim(s)) = h /\ h["path"] = x /\ h["sigs"] = y
    BY <1>4, <1>8, <1>10, <1>11, <2>2
  <2> QED
    BY <1>1, <2>1, <2>3 DEF Reads, x, y
<1> QED
  BY <1>9, <1>10, <1>12 DEF HeadSays, HeadText

\* The line of an operation is its own, and what parse_op_line makes of it are the
\* arguments that were written there.
HeadBacks(c, u) ==
  LET s == Trim(u)
  IN  /\ IsList(u) /\ ~Mentions(u, NL) /\ u # <<>> /\ u[1] = c.op
      /\ IsList(s) /\ s # <<>> /\ s[1] = c.op /\ Upto(s, SP) = <<c.op>>
      /\ Reads(c, Trim(Beyond(s, SP)))

LEMMA OpsAreWords == \A op \in Ops : op \notin {SP, NL, QT, "#", "expect", "---", "nwscript"}
BY DEF Ops, PathOps, StringOps, NoArgOps, ComplexOps, OtherOps, SP, NL, QT

\* The line a call starts with, written by format_call and read by parse_op_line, gives
\* its operation and the values on it back, of any length.
THEOREM HeadBack ==
  ASSUME NEW c, IsSentCall(c), HeadSurvives(c)
  PROVE  HeadBacks(c, Onto(c.op, FormatHead(c)))
<1>1. HeadSays(c)
  <2>1. \/ c.variant \in PathHeads \/ c.variant \in ValueHeads \/ c.variant \in SetHeads
        \/ c.variant \in {"PathSetFlag", "PathSetMode", "AddPermRoot", "AddSignatures"}
        \/ c.variant \in BareHeads
    BY HeadKeysAre DEF IsSentCall, HeadTable
  <2> QED
    BY <2>1, WholePathReads, WholeValueReads, SetReads, SetAndFlagRead, SetAndModeRead,
       PermRootReads, SignaturesRead, BareReads
<1>2. PICK op : op = c.op
  OBVIOUS
<1>3. op # SP /\ op # NL
  BY <1>2, OpsAreWords DEF IsSentCall
<1>4. ASSUME NEW rest, HeadText(c, rest)
      PROVE  HeadBacks(c, Onto(op, FormatHead(c)))
  <2>1. PICK u : u = HeadOf(op, rest)
    OBVIOUS
  <2>2. /\ IsList(u) /\ u[1] = op /\ u # <<>> /\ IsList(Trim(u)) /\ Trim(u) # <<>>
        /\ Trim(u)[1] = op /\ Upto(Trim(u), SP) = <<op>> /\ Trim(Beyond(Trim(u), SP)) = Trim(rest)
    BY <1>3, <1>4, <2>1, HeadLine DEF HeadText
  <2>3. u = Onto(op, Onto(SP, rest)) /\ FormatHead(c) = Onto(SP, rest)
    BY <1>4, <2>1 DEF HeadText, HeadOf
  <2>4. ~Mentions(u, NL)
    <3>1. IsList(rest) /\ ~Mentions(rest, NL) /\ SP # NL
      BY <1>4, Tokens DEF HeadText
    <3>2. ~Mentions(Onto(SP, rest), NL) /\ IsList(Onto(SP, rest))
      BY <3>1, OntoMentions, TrimSpace
    <3> QED
      BY <1>3, <2>3, <3>2, OntoMentions
  <2>5. Reads(c, Trim(rest))
    BY <1>4 DEF HeadText
  <2> QED
    BY <1>2, <2>2, <2>3, <2>4, <2>5 DEF HeadBacks
<1>5. ASSUME FormatHead(c) = <<>>, Reads(c, <<>>)
      PROVE  HeadBacks(c, Onto(op, FormatHead(c)))
  <2>1. PICK u : u = One(op)
    OBVIOUS
  <2>2. /\ IsList(u) /\ u[1] = op /\ u # <<>> /\ IsList(Trim(u)) /\ Trim(u) # <<>>
        /\ Trim(u)[1] = op /\ Upto(Trim(u), SP) = <<op>> /\ Trim(Beyond(Trim(u), SP)) = <<>>
    BY <1>3, <2>1, BareHead
  <2>3. u = Onto(op, FormatHead(c))
    BY <1>5, <2>1, OneIs, CatEmpty DEF Onto
  <2>4. ~Mentions(u, NL)
    BY <1>3, <2>1, OneMentions
  <2> QED
    BY <1>2, <1>5, <2>2, <2>3, <2>4 DEF HeadBacks
<1> QED
  BY <1>1, <1>2, <1>4, <1>5 DEF HeadSays

-----------------------------------------------------------------------------
(* What each line is taken for.                                            *)

\* What is in front of a colon or a space begins like the line.
LEMMA UptoBegins ==
  ASSUME NEW s, IsList(s), s # <<>>, NEW c, s[1] # c
  PROVE  IsList(Upto(s, c)) /\ Upto(s, c) # <<>> /\ Upto(s, c)[1] = s[1]
<1>1. CASE ~Mentions(s, c)
  BY <1>1 DEF Upto
<1>2. CASE Mentions(s, c)
  <2>1. PICK a, b : IsList(a) /\ IsList(b) /\ ~Mentions(a, c) /\ s = Around(a, c, b)
    BY <1>2, FirstMention
  <2>2. Upto(s, c) = a
    BY <2>1, CutAt
  <2>3. a # <<>>
    <3> SUFFICES ASSUME a = <<>>
                 PROVE  FALSE
      OBVIOUS
    <3>1. Len(a) = 0
      BY <2>1, TupleLengths
    <3>2. s[0 + 1] = c
      BY <2>1, <3>1, AroundIs
    <3> QED
      BY <3>2
  <2>4. 1 \in 1..Len(a)
    BY <2>1, <2>3, ListFacts
  <2>5. s[1] = a[1]
    BY <2>1, <2>4, AroundIs
  <2> QED
    BY <2>1, <2>2, <2>3, <2>5
<1> QED
  BY <1>1, <1>2

LEMMA TrimStarts ==
  ASSUME NEW s, IsList(s), s # <<>>, s[1] # SP
  PROVE  IsList(Trim(s)) /\ Trim(s) # <<>> /\ Trim(s)[1] = s[1]
<1>1. 1 \in 1..Len(s) /\ \A i \in 1..(1 - 1) : s[i] = SP
  BY ListFacts
<1> QED
  BY <1>1, TrimBegins

LEMMA AboutBegins ==
  ASSUME NEW s, IsList(s), s # <<>>, s[1] \notin {SP, ":"}
  PROVE  Trim(Upto(s, ":")) # <<>> /\ Trim(Upto(s, ":"))[1] = s[1]
<1>1. PICK x : x = ":"
  OBVIOUS
<1>2. PICK a : a = Upto(s, x)
  OBVIOUS
<1>3. IsList(a) /\ a # <<>> /\ a[1] = s[1]
  BY <1>1, <1>2, UptoBegins
<1>4. Trim(a) # <<>> /\ Trim(a)[1] = a[1]
  BY <1>3, TrimStarts
<1> QED
  BY <1>1, <1>2, <1>3, <1>4

\* Only a line that begins with an operation names it.
LEMMA NamesNone ==
  ASSUME NEW s, IsList(s), s # <<>>, s[1] # SP, NEW o, Upto(s, SP) = <<o>>
  PROVE  s[1] = o
<1>1. Upto(s, SP)[1] = s[1]
  BY UptoBegins
<1> QED
  BY <1>1, TupleLengths

\* Two spaces in front.
Indented(u, s) ==
  /\ IsList(u) /\ Len(u) >= 2 /\ u[1] = SP /\ u[2] = SP /\ ~Mentions(u, NL)
  /\ IsList(s) /\ Trim(u) = s /\ s # <<>> /\ s[1] # SP

LEMMA IndentedIs ==
  ASSUME NEW s, Tight(s), s # <<>>, ~Mentions(s, NL), NEW u, u = Onto(SP, Onto(SP, s))
  PROVE  Indented(u, s)
<1>1. IsList(s) /\ Trim(s) = s /\ s[1] # SP
  BY TrimTight DEF Tight
<1>2. PICK t : t = Onto(SP, s)
  OBVIOUS
<1>3. IsList(t) /\ Trim(t) = s
  BY <1>1, <1>2, TrimSpace
<1>4. IsList(u) /\ Trim(u) = s
  BY <1>2, <1>3, TrimSpace
<1>5. SP # NL
  BY Tokens
<1>6. ~Mentions(t, NL) /\ ~Mentions(u, NL)
  BY <1>1, <1>2, <1>3, <1>5, OntoMentions
<1>7. Len(u) >= 2 /\ u[1] = SP /\ u[2] = SP
  <2>1. PICK n \in Nat : n = Len(s) /\ n # 0
    BY <1>1, ListFacts
  <2>2. Len(t) = 1 + n /\ t[1] = SP
    BY <1>1, <1>2, <2>1, OntoIs
  <2>3. Len(u) = 1 + Len(t) /\ u[1] = SP /\ (\A i \in 1..Len(t) : u[1 + i] = t[i])
    BY <1>2, <1>3, OntoIs
  <2>4. 1 \in 1..Len(t) /\ 1 + 1 = 2
    BY <2>1, <2>2
  <2>5. u[1 + 1] = SP
    BY <2>2, <2>3, <2>4
  <2> QED
    BY <2>1, <2>2, <2>3, <2>4, <2>5
<1> QED
  BY <1>1, <1>4, <1>6, <1>7 DEF Indented

\* A field below an operation.
FieldShows(c, i, u) ==
  LET s == Trim(u)
  IN  /\ Indented(u, s) /\ s[1] = KeyOf(c, i) /\ Mentions(s, ":")
      /\ Trim(Upto(s, ":")) = <<KeyOf(c, i)>>
      /\ Trim(Beyond(s, ":")) = FormatValue(HowOf(c, i), ValueOf(c, i))

LEMMA FieldShown ==
  ASSUME NEW c, IsSentCall(c), NEW i \in 1..Fields(c), Survives(HowOf(c, i), ValueOf(c, i))
  PROVE  FieldShows(c, i, FieldLine(KeyOf(c, i), HowOf(c, i), ValueOf(c, i)))
<1>1. PICK key, how, x : key = KeyOf(c, i) /\ how = HowOf(c, i) /\ x = ValueOf(c, i)
  OBVIOUS
<1>2. how \in Hows /\ key \notin {SP, QT, NL, ":"}
  BY <1>1, KeysOf DEF IsSentCall, KeysMatch, KeyOf, HowOf, Fields
<1>3. IsSentValue(how, x) /\ Survives(how, x)
  BY <1>1 DEF IsSentCall
<1>4. PICK v : v = FormatValue(how, x)
  OBVIOUS
<1>5. Tight(v) /\ v # <<>> /\ ~Mentions(v, NL) /\ IsList(v)
  BY <1>2, <1>3, <1>4, ValueIsSolid DEF Solid, Tight
<1>6. PICK s, u : s = Keyed(key, v) /\ u = Onto(SP, Onto(SP, s))
  OBVIOUS
<1>7. /\ IsList(s) /\ Tight(s) /\ s # <<>> /\ s[1] = key /\ Mentions(s, ":")
      /\ Trim(Upto(s, ":")) = One(key) /\ Trim(Beyond(s, ":")) = v
  BY <1>2, <1>5, <1>6, KeyedLine
<1>8. ~Mentions(s, NL)
  <2>1. PICK y : y = ":"
    OBVIOUS
  <2>2. y # NL /\ SP # NL /\ key # NL
    BY <1>2, <2>1, Tokens
  <2>3. PICK t : t = Onto(SP, v)
    OBVIOUS
  <2>4. IsList(t) /\ ~Mentions(t, NL)
    BY <1>5, <2>2, <2>3, OntoMentions, TrimSpace
  <2>5. PICK w : w = Onto(y, t)
    OBVIOUS
  <2>6. IsList(w) /\ ~Mentions(w, NL)
    BY <2>2, <2>4, <2>5, OntoMentions, OntoIs
  <2>7. s = Onto(key, w)
    BY <1>6, <2>1, <2>3, <2>5 DEF Keyed
  <2> QED
    BY <2>2, <2>6, <2>7, OntoMentions
<1>9. Indented(u, s)
  BY <1>6, <1>7, <1>8, IndentedIs
<1>10. Trim(u) = s
  BY <1>9 DEF Indented
<1>11. u = FieldLine(key, how, x)
  BY <1>4, <1>6 DEF FieldLine
<1> QED
  BY <1>1, <1>4, <1>7, <1>9, <1>10, <1>11 DEF FieldShows, One

\* A pair below SetOptions.
AssignShows(p, u) ==
  LET s == Trim(u)
  IN  Indented(u, s) /\ s[1] = QT /\ IsAssignment(s) /\ ParseAssignment(s) = p

LEMMA AssignShown ==
  ASSUME NEW a, NEW b, IsList(a), IsList(b), ~Mentions(a, QT), ~Mentions(b, QT),
         ~Mentions(a, NL), ~Mentions(b, NL), NEW p, p = <<a, b>>
  PROVE  AssignShows(p, AssignLine(p))
<1>1. p[1] = a /\ p[2] = b
  OBVIOUS
<1>2. PICK q, r, x : q = Quoted(a) /\ r = Quoted(b) /\ x = "="
  OBVIOUS
<1>3. IsList(q) /\ IsList(r) /\ ~Mentions(q, NL) /\ ~Mentions(r, NL)
  <2>1. /\ q = Onto(QT, Cat(a, One(QT))) /\ r = Onto(QT, Cat(b, One(QT)))
    BY <1>2, QuotedIs
  <2>2. QT # NL
    BY Tokens
  <2> QED
    BY <2>1, <2>2, BetweenIs
<1>4. PICK m : m = Onto(SP, Onto(x, Onto(SP, r)))
  OBVIOUS
<1>5. IsList(m) /\ ~Mentions(m, NL)
  <2>1. SP # NL /\ x # NL
    BY <1>2, Tokens
  <2>2. PICK y : y = Onto(SP, r)
    OBVIOUS
  <2>3. IsList(y) /\ ~Mentions(y, NL)
    BY <1>3, <2>1, <2>2, OntoMentions, TrimSpace
  <2>4. PICK z : z = Onto(x, y)
    OBVIOUS
  <2>5. IsList(z) /\ ~Mentions(z, NL)
    BY <2>1, <2>3, <2>4, OntoMentions, OntoIs
  <2>6. m = Onto(SP, z)
    BY <1>4, <2>2, <2>4
  <2> QED
    BY <2>1, <2>5, <2>6, OntoMentions, TrimSpace
<1>6. PICK s : s = Cat(q, m)
  OBVIOUS
<1>7. ~Mentions(s, NL)
  BY <1>3, <1>5, <1>6, CatMentions
<1>8. s = Cat(Quoted(a), Onto(SP, Onto("=", Onto(SP, Quoted(b)))))
  BY <1>2, <1>4, <1>6
<1>9. /\ IsList(s) /\ s # <<>> /\ s[1] = QT /\ Tight(s)
      /\ IsAssignment(s) /\ ParseAssignment(s) = <<a, b>>
  BY <1>8, AssignmentBack
<1>10. PICK t : t = Onto(SP, Onto(SP, s))
  OBVIOUS
<1>11. Indented(t, s)
  BY <1>7, <1>9, <1>10, IndentedIs
<1>12. AssignLine(p) = Onto(SP, Onto(SP, t))
  BY <1>1, <1>8, <1>10 DEF AssignLine
<1>13. PICK u : u = AssignLine(p)
  OBVIOUS
<1>14. Indented(u, s)
  <2>1. IsList(t) /\ ~Mentions(t, NL) /\ t # <<>> /\ Trim(t) = s /\ Len(t) \in Nat /\ Len(t) >= 2
    BY <1>11, ListFacts, TupleLengths DEF Indented
  <2>2. PICK y : y = Onto(SP, t)
    OBVIOUS
  <2>3. IsList(y) /\ Trim(y) = s /\ ~Mentions(y, NL) /\ Len(y) = 1 + Len(t) /\ y[1] = SP
    BY <2>1, <2>2, TrimSpace, OntoMentions, OntoIs, Tokens
  <2>4. IsList(u) /\ Trim(u) = s /\ ~Mentions(u, NL) /\ Len(u) = 1 + Len(y) /\ u[1] = SP
    BY <1>12, <1>13, <2>2, <2>3, TrimSpace, OntoMentions, OntoIs, Tokens
  <2>5. u[1 + 1] = y[1] /\ 1 + 1 = 2
    <3>1. 1 \in 1..Len(y)
      BY <2>1, <2>3
    <3>2. \A i \in 1..Len(y) : u[1 + i] = y[i]
      BY <1>12, <1>13, <2>2, <2>3, OntoIs
    <3> QED
      BY <3>1, <3>2
  <2>6. Len(u) >= 2 /\ u[2] = SP
    BY <2>1, <2>3, <2>4, <2>5
  <2> QED
    BY <1>11, <2>4, <2>6 DEF Indented
<1>15. Trim(u) = s
  BY <1>14 DEF Indented
<1> QED
  BY <1>9, <1>13, <1>14, <1>15 DEF AssignShows

-----------------------------------------------------------------------------
(* A text made of given lines, with others in between.                     *)

\* A line that no function takes anything from.
IsGap(l) ==
  /\ DOMAIN l = {"at", "text"} /\ l.at = None /\ IsList(l.text)
  /\ Trim(l.text) = <<>> \/ Trim(l.text)[1] \in {"#", "expect"}
\* One that is blank or a note wherever it is; a header is none below the preamble.
Hash(l) == Trim(l.text) = <<>> \/ Trim(l.text)[1] = "#"
Titled(s) == Len(s) >= 3 /\ s[3] = "nwscript"
Quiet(l) == Hash(l) /\ ~Titled(Trim(l.text))
Gaps(t) == IsList(t) /\ \A i \in 1..Len(t) : IsGap(t[i]) /\ Quiet(t[i])
\* A line as it was written, perhaps without its time.
Matches(l, b) == DOMAIN l = {"at", "text"} /\ l.text = b.text /\ l.at \in {None, b.at}

\* n[i] of the given lines are among the first i.
WovenBy(t, b, n) ==
  /\ IsList(t) /\ IsList(b) /\ n[0] = 0
  /\ \A i \in 0..Len(t) : n[i] \in 0..Len(b)
  /\ \A i \in 1..Len(t) : \/ n[i] = n[i - 1] /\ IsGap(t[i])
                          \/ n[i] = n[i - 1] + 1 /\ Matches(t[i], b[n[i]])
\* None of the others is in front of a line that is indented, and none is a header
\* but of the first h.
Loose(b) == Len(b) = 0 \/ b[1].text[1] # SP
Snug(t, b, n, h) ==
  \A i \in 1..Len(t) : n[i] = n[i - 1] =>
    /\ n[i] = Len(b) \/ b[n[i] + 1].text[1] # SP
    /\ Quiet(t[i]) \/ (i <= h /\ n[i] = 0 /\ Hash(t[i]))
Woven(t, b, h) ==
  \E n : WovenBy(t, b, n) /\ n[Len(t)] = Len(b) /\ Snug(t, b, n, h) /\ Loose(b)

LEMMA GapsAreWoven ==
  ASSUME NEW t, Gaps(t)
  PROVE  Woven(t, <<>>, 0)
<1>1. PICK n : n = [i \in 0..Len(t) |-> 0]
  OBVIOUS
<1>2. IsList(t) /\ Len(t) \in Nat /\ IsList(<<>>) /\ Len(<<>>) = 0
  BY ListFacts, EmptyIsList DEF Gaps
<1>3. \A i \in 0..Len(t) : n[i] = 0 /\ n[i] \in 0..Len(<<>>)
  BY <1>1, <1>2
<1>4. ASSUME NEW i \in 1..Len(t)
      PROVE  n[i] = n[i - 1] /\ IsGap(t[i])
  <2>1. i \in 0..Len(t) /\ i - 1 \in 0..Len(t)
    BY <1>2
  <2> QED
    BY <1>3, <2>1 DEF Gaps
<1>5. 0 \in 0..Len(t) /\ Len(t) \in 0..Len(t)
  BY <1>2
<1>6. WovenBy(t, <<>>, n)
  BY <1>2, <1>3, <1>4, <1>5 DEF WovenBy
<1>7. Snug(t, <<>>, n, 0)
  <2>1. \A i \in 1..Len(t) : n[i] = Len(<<>>)
    <3>1. \A i \in 1..Len(t) : i \in 0..Len(t)
      BY <1>2
    <3> QED
      BY <1>2, <1>3, <3>1
  <2> QED
    BY <2>1 DEF Snug, Gaps
<1> QED
  BY <1>2, <1>3, <1>5, <1>6, <1>7 DEF Woven, Loose

LEMMA LinesAreWoven ==
  ASSUME NEW t, NEW b, IsList(t), IsList(b), Len(t) = Len(b),
         \A i \in 1..Len(t) : Matches(t[i], b[i]), Loose(b)
  PROVE  Woven(t, b, 0)
<1>1. PICK n : n = [i \in 0..Len(t) |-> i]
  OBVIOUS
<1>2. Len(t) \in Nat
  BY ListFacts
<1>3. \A i \in 0..Len(t) : n[i] = i /\ n[i] \in 0..Len(b)
  BY <1>1, <1>2
<1>4. ASSUME NEW i \in 1..Len(t)
      PROVE  n[i] = n[i - 1] + 1 /\ Matches(t[i], b[n[i]])
  <2>1. i \in 0..Len(t) /\ i - 1 \in 0..Len(t) /\ (i - 1) + 1 = i
    BY <1>2
  <2> QED
    BY <1>3, <2>1
<1>5. 0 \in 0..Len(t) /\ Len(t) \in 0..Len(t)
  BY <1>2
<1>6. WovenBy(t, b, n)
  BY <1>3, <1>4, <1>5 DEF WovenBy
<1>7. Snug(t, b, n, 0)
  <2>1. \A i \in 1..Len(t) : n[i] # n[i - 1]
    <3>1. \A i \in 1..Len(t) : i \in 0..Len(t) /\ i - 1 \in 0..Len(t) /\ i - 1 # i
      BY <1>2
    <3> QED
      BY <1>3, <3>1
  <2> QED
    BY <2>1 DEF Snug
<1> QED
  BY <1>3, <1>5, <1>6, <1>7 DEF Woven

LEMMA WovenConcat ==
  ASSUME NEW s, NEW a, NEW t, NEW b, NEW h \in Nat, Woven(s, a, h), Woven(t, b, 0)
  PROVE  Woven(s \o t, a \o b, h)
<1>1. PICK m, n : /\ WovenBy(s, a, m) /\ m[Len(s)] = Len(a) /\ Snug(s, a, m, h)
                  /\ WovenBy(t, b, n) /\ n[Len(t)] = Len(b) /\ Snug(t, b, n, 0)
                  /\ Loose(a) /\ Loose(b)
  BY DEF Woven
<1>2. IsList(s) /\ IsList(a) /\ IsList(t) /\ IsList(b)
  BY <1>1 DEF WovenBy
<1>3. PICK S \in Nat, T \in Nat, A \in Nat, B \in Nat :
        S = Len(s) /\ T = Len(t) /\ A = Len(a) /\ B = Len(b)
  BY <1>2, ListFacts
<1>4. PICK u, c : u = s \o t /\ c = a \o b
  OBVIOUS
<1>5. /\ IsList(u) /\ Len(u) = S + T
      /\ (\A j \in 1..S : u[j] = s[j]) /\ (\A j \in 1..T : u[S + j] = t[j])
  BY <1>2, <1>3, <1>4, ConcatAt
<1>6. /\ IsList(c) /\ Len(c) = A + B
      /\ (\A j \in 1..A : c[j] = a[j]) /\ (\A j \in 1..B : c[A + j] = b[j])
  BY <1>2, <1>3, <1>4, ConcatAt
<1>7. /\ m[0] = 0 /\ m[S] = A /\ (\A i \in 0..S : m[i] \in 0..A)
      /\ \A i \in 1..S : \/ m[i] = m[i - 1] /\ IsGap(s[i])
                         \/ m[i] = m[i - 1] + 1 /\ Matches(s[i], a[m[i]])
  BY <1>1, <1>3 DEF WovenBy
<1>8. /\ n[0] = 0 /\ n[T] = B /\ (\A i \in 0..T : n[i] \in 0..B)
      /\ \A i \in 1..T : \/ n[i] = n[i - 1] /\ IsGap(t[i])
                         \/ n[i] = n[i - 1] + 1 /\ Matches(t[i], b[n[i]])
  BY <1>1, <1>3 DEF WovenBy
<1>9. PICK k : k = [i \in 0..(S + T) |-> IF i <= S THEN m[i] ELSE A + n[i - S]]
  OBVIOUS
<1>10. /\ \A i \in 0..S : k[i] = m[i]
       /\ \A i \in 0..T : k[S + i] = A + n[i]
  <2>1. \A i \in 0..S : k[i] = m[i]
    BY <1>9
  <2>2. ASSUME NEW i \in 0..T
        PROVE  k[S + i] = A + n[i]
    <3>1. CASE i = 0
      <4>1. k[S] = m[S] /\ S + i = S
        BY <2>1, <3>1
      <4> QED
        BY <1>7, <1>8, <3>1, <4>1
    <3>2. CASE i # 0
      <4>1. S + i \in 0..(S + T) /\ ~(S + i <= S) /\ (S + i) - S = i
        BY <3>2
      <4> QED
        BY <1>9, <4>1
    <3> QED
      BY <3>1, <3>2
  <2> QED
    BY <2>1, <2>2
<1>11. k[0] = 0 /\ k[S + T] = A + B
  <2>1. 0 \in 0..S /\ T \in 0..T
    OBVIOUS
  <2> QED
    BY <1>7, <1>8, <1>10, <2>1
<1>12. \A i \in 0..(S + T) : k[i] \in 0..(A + B)
  <2> SUFFICES ASSUME NEW i \in 0..(S + T)
               PROVE  k[i] \in 0..(A + B)
    OBVIOUS
  <2>1. CASE i <= S
    <3>1. i \in 0..S
      BY <2>1
    <3>2. k[i] \in 0..A
      BY <1>7, <1>10, <3>1
    <3> QED
      BY <3>2
  <2>2. CASE ~(i <= S)
    <3>1. i - S \in 0..T /\ S + (i - S) = i
      BY <2>2
    <3>2. k[i] = A + n[i - S] /\ n[i - S] \in 0..B
      BY <1>8, <1>10, <3>1
    <3> QED
      BY <3>2
  <2> QED
    BY <2>1, <2>2
<1>13. ASSUME NEW i \in 1..(S + T)
       PROVE  \/ k[i] = k[i - 1] /\ IsGap(u[i])
              \/ k[i] = k[i - 1] + 1 /\ Matches(u[i], c[k[i]])
  <2>1. CASE i <= S
    <3>1. i \in 0..S /\ i - 1 \in 0..S /\ i \in 1..S
      BY <2>1
    <3>2. k[i] = m[i] /\ k[i - 1] = m[i - 1] /\ u[i] = s[i] /\ m[i] \in 0..A /\ m[i - 1] \in 0..A
      BY <1>5, <1>7, <1>10, <3>1
    <3>3. CASE m[i] = m[i - 1] /\ IsGap(s[i])
      BY <3>2, <3>3
    <3>4. CASE m[i] = m[i - 1] + 1 /\ Matches(s[i], a[m[i]])
      <4>1. m[i] \in 1..A
        BY <3>2, <3>4
      <4>2. c[m[i]] = a[m[i]]
        BY <1>6, <4>1
      <4> QED
        BY <3>2, <3>4, <4>2
    <3> QED
      BY <1>7, <3>1, <3>3, <3>4
  <2>2. CASE ~(i <= S)
    <3>1. PICK j : j = i - S
      OBVIOUS
    <3>2. j \in 0..T /\ j - 1 \in 0..T /\ j \in 1..T /\ S + j = i /\ S + (j - 1) = i - 1
      BY <2>2, <3>1
    <3>3. /\ k[i] = A + n[j] /\ k[i - 1] = A + n[j - 1] /\ u[i] = t[j]
          /\ n[j] \in 0..B /\ n[j - 1] \in 0..B
      BY <1>5, <1>8, <1>10, <3>2
    <3>4. CASE n[j] = n[j - 1] /\ IsGap(t[j])
      BY <3>3, <3>4
    <3>5. CASE n[j] = n[j - 1] + 1 /\ Matches(t[j], b[n[j]])
      <4>1. n[j] \in 1..B
        BY <3>3, <3>5
      <4>2. c[A + n[j]] = b[n[j]]
        BY <1>6, <4>1
      <4>3. A + n[j] = (A + n[j - 1]) + 1
        BY <3>3, <3>5
      <4> QED
        BY <3>3, <3>5, <4>2, <4>3
    <3> QED
      BY <1>8, <3>2, <3>4, <3>5
  <2> QED
    BY <2>1, <2>2
<1>14. WovenBy(u, c, k)
  BY <1>5, <1>6, <1>11, <1>12, <1>13 DEF WovenBy
<1>15. Loose(c)
  <2>1. CASE A = 0 /\ B = 0
    BY <1>6, <2>1 DEF Loose
  <2>2. CASE A = 0 /\ B # 0
    <3>1. 1 \in 1..B /\ A + 1 = 1
      BY <2>2
    <3>2. c[1] = b[1]
      BY <1>6, <3>1
    <3> QED
      BY <1>1, <1>3, <2>2, <3>2 DEF Loose
  <2>3. CASE A # 0
    <3>1. 1 \in 1..A
      BY <2>3
    <3>2. c[1] = a[1]
      BY <1>6, <3>1
    <3> QED
      BY <1>1, <1>3, <2>3, <3>2 DEF Loose
  <2> QED
    BY <2>1, <2>2, <2>3
<1>16. ASSUME NEW i \in 1..(S + T), k[i] = k[i - 1]
       PROVE  /\ k[i] = A + B \/ c[k[i] + 1].text[1] # SP
              /\ Quiet(u[i]) \/ (i <= h /\ k[i] = 0 /\ Hash(u[i]))
  <2>1. CASE i <= S
    <3>1. i \in 0..S /\ i - 1 \in 0..S /\ i \in 1..S
      BY <2>1
    <3>2. k[i] = m[i] /\ k[i - 1] = m[i - 1] /\ u[i] = s[i] /\ m[i] \in 0..A
      BY <1>5, <1>7, <1>10, <3>1
    <3>3. /\ m[i] = A \/ a[m[i] + 1].text[1] # SP
          /\ Quiet(s[i]) \/ (i <= h /\ m[i] = 0 /\ Hash(s[i]))
      BY <1>1, <1>3, <1>16, <3>1, <3>2 DEF Snug
    <3>4. CASE m[i] = A
      <4>1. CASE B = 0
        BY <3>2, <3>3, <3>4, <4>1
      <4>2. CASE B # 0
        <5>1. 1 \in 1..B
          BY <4>2
        <5>2. c[A + 1] = b[1] /\ b[1].text[1] # SP
          BY <1>1, <1>3, <1>6, <4>2, <5>1 DEF Loose
        <5> QED
          BY <3>2, <3>3, <3>4, <5>2
      <4> QED
        BY <4>1, <4>2
    <3>5. CASE m[i] # A
      <4>1. m[i] + 1 \in 1..A
        BY <3>2, <3>5
      <4>2. c[m[i] + 1] = a[m[i] + 1]
        BY <1>6, <4>1
      <4> QED
        BY <3>2, <3>3, <3>5, <4>2
    <3> QED
      BY <3>4, <3>5
  <2>2. CASE ~(i <= S)
    <3>1. PICK j : j = i - S
      OBVIOUS
    <3>2. j \in 0..T /\ j - 1 \in 0..T /\ j \in 1..T /\ S + j = i /\ S + (j - 1) = i - 1
      BY <2>2, <3>1
    <3>3. /\ k[i] = A + n[j] /\ k[i - 1] = A + n[j - 1] /\ u[i] = t[j]
          /\ n[j] \in 0..B /\ n[j - 1] \in 0..B
      BY <1>5, <1>8, <1>10, <3>2
    <3>4. n[j] = n[j - 1]
      <4>1. A + n[j] = A + n[j - 1]
        BY <1>16, <3>3
      <4> QED
        BY <3>3, <4>1
    <3>5. (n[j] = B \/ b[n[j] + 1].text[1] # SP) /\ Quiet(t[j])
      <4>1. ~(j <= 0)
        BY <3>2
      <4> QED
        BY <1>1, <1>3, <3>2, <3>4, <4>1 DEF Snug
    <3>6. CASE n[j] = B
      BY <3>3, <3>5, <3>6
    <3>7. CASE n[j] # B
      <4>1. n[j] + 1 \in 1..B /\ A + (n[j] + 1) = (A + n[j]) + 1
        BY <3>3, <3>7
      <4>2. c[(A + n[j]) + 1] = b[n[j] + 1]
        BY <1>6, <4>1
      <4> QED
        BY <3>3, <3>5, <3>7, <4>2
    <3> QED
      BY <3>6, <3>7
  <2> QED
    BY <2>1, <2>2
<1>17. Snug(u, c, k, h)
  BY <1>5, <1>6, <1>16 DEF Snug
<1> QED
  BY <1>4, <1>5, <1>6, <1>11, <1>14, <1>15, <1>17 DEF Woven

LEMMA NothingIsWoven == Woven(<<>>, <<>>, 0)
<1>1. IsList(<<>>) /\ Len(<<>>) = 0
  BY EmptyIsList
<1>2. Gaps(<<>>)
  BY <1>1 DEF Gaps
<1> QED
  BY <1>2, GapsAreWoven

LEMMA FlattenWoven ==
  ASSUME NEW ts, NEW bs, IsLines(ts), IsLines(bs), Len(ts) = Len(bs),
         \A k \in 1..Len(ts) : Woven(ts[k], bs[k], 0)
  PROVE  Woven(FlattenSeq(ts), FlattenSeq(bs), 0)
<1>1. PICK g : MadeOf(ts, g) /\ FlattenSeq(ts) = g[Len(ts)]
  BY FlattenByParts
<1>2. PICK h : MadeOf(bs, h) /\ FlattenSeq(bs) = h[Len(bs)]
  BY FlattenByParts
<1>3. PICK n \in Nat : n = Len(ts)
  BY ListFacts DEF IsLines
<1>4. g[0] = <<>> /\ h[0] = <<>>
  BY <1>1, <1>2 DEF MadeOf
<1> DEFINE G == {m \in 0..n : Woven(g[m], h[m], 0)}
<1>5. 0 \in G
  BY <1>4, NothingIsWoven
<1>6. ASSUME NEW m \in 0..(n - 1), m \in G
      PROVE  m + 1 \in G
  <2>1. PICK k : k = m + 1
    OBVIOUS
  <2>2. k \in 1..n /\ k - 1 = m /\ k \in 0..n
    BY <2>1
  <2>3. g[k] = g[m] \o ts[k] /\ h[k] = h[m] \o bs[k]
    BY <1>1, <1>2, <1>3, <2>2 DEF MadeOf
  <2>4. Woven(g[m], h[m], 0) /\ Woven(ts[k], bs[k], 0)
    BY <1>3, <1>6, <2>2
  <2>5. Woven(g[m] \o ts[k], h[m] \o bs[k], 0)
    BY <2>4, WovenConcat
  <2> QED
    BY <2>1, <2>2, <2>3, <2>5
<1>7. \A m \in 0..n : m \in G
  <2> HIDE DEF G
  <2> QED
    BY <1>5, <1>6, Induction
<1>8. n \in G
  BY <1>7
<1> QED
  BY <1>1, <1>2, <1>3, <1>8

-----------------------------------------------------------------------------
(* Lists of strings as lines.                                              *)

LineOf(at, u) == [at |-> at, text |-> u]

\* The lines of a string.
LEMMA LinesAre ==
  ASSUME NEW at, NEW s, IsList(s), NEW p, p = Split(s, NL)
  PROVE  /\ IsList(Lines(at, s)) /\ Len(Lines(at, s)) = Len(p) /\ Len(p) \in Nat \ {0}
         /\ Lines(at, s)[1] = LineOf(at, p[1])
         /\ \A i \in 2..Len(p) : Lines(at, s)[i] = LineOf(None, p[i])
<1>1. IsLines(p) /\ IsList(p) /\ Len(p) \in Nat \ {0} /\ DOMAIN p = 1..Len(p)
  BY SplitMakesLines, ListFacts DEF IsLines
<1>2. PICK n \in Nat : n = Len(p)
  BY <1>1
<1>3. Lines(at, s) = [i \in 1..n |-> [at |-> IF i = 1 THEN at ELSE None, text |-> p[i]]]
  BY <1>1, <1>2 DEF Lines
<1>4. IsList(Lines(at, s)) /\ Len(Lines(at, s)) = n
  BY <1>3, ListMade
<1>5. 1 \in 1..n
  BY <1>1, <1>2
<1>6. Lines(at, s)[1] = LineOf(at, p[1])
  BY <1>3, <1>5 DEF LineOf
<1>7. \A i \in 2..n : Lines(at, s)[i] = LineOf(None, p[i])
  <2> SUFFICES ASSUME NEW i \in 2..n
               PROVE  Lines(at, s)[i] = LineOf(None, p[i])
    OBVIOUS
  <2>1. i \in 1..n /\ i # 1
    BY <1>2
  <2> QED
    BY <1>3, <2>1 DEF LineOf
<1> QED
  BY <1>1, <1>2, <1>4, <1>6, <1>7

LEMMA OneLineIs ==
  ASSUME NEW at, NEW s, IsList(s), ~Mentions(s, NL)
  PROVE  Lines(at, s) = <<LineOf(at, s)>>
<1>1. Split(s, NL) = <<s>>
  BY SplitIs
<1>2. PICK p : p = Split(s, NL)
  OBVIOUS
<1>3. Len(p) = 1 /\ p[1] = s
  BY <1>1, <1>2, TupleFacts
<1>4. PICK t : t = Lines(at, s)
  OBVIOUS
<1>5. IsList(t) /\ Len(t) = 1 /\ t[1] = LineOf(at, s)
  BY <1>2, <1>3, <1>4, LinesAre
<1>6. PICK b : b = <<LineOf(at, s)>>
  OBVIOUS
<1>7. IsList(b) /\ Len(b) = 1 /\ b[1] = LineOf(at, s)
  BY <1>6, TupleLengths, TupleFacts
<1>8. \A i \in 1..Len(t) : t[i] = b[i]
  BY <1>5, <1>7
<1> QED
  BY <1>4, <1>5, <1>6, <1>7, <1>8, ListsEqual

\* What is flattened can be flattened in two parts.
LEMMA FlattenConcat ==
  ASSUME NEW a, NEW b, IsLines(a), IsLines(b)
  PROVE  FlattenSeq(a \o b) = FlattenSeq(a) \o FlattenSeq(b)
<1>1. PICK f : f = a \o b
  OBVIOUS
<1>2. PICK A \in Nat, B \in Nat : A = Len(a) /\ B = Len(b)
  BY ListFacts DEF IsLines
<1>3. /\ IsLines(f) /\ Len(f) = A + B
      /\ (\A j \in 1..A : f[j] = a[j]) /\ (\A j \in 1..B : f[A + j] = b[j])
  BY <1>1, <1>2, LinesConcat, ConcatAt DEF IsLines
<1>4. PICK g : MadeOf(f, g) /\ FlattenSeq(f) = g[A + B]
  BY <1>3, FlattenByParts
<1>5. PICK h : MadeOf(a, h) /\ FlattenSeq(a) = h[A]
  BY <1>2, FlattenByParts
<1>6. PICK k : MadeOf(b, k) /\ FlattenSeq(b) = k[B]
  BY <1>2, FlattenByParts
<1>7. /\ g[0] = <<>> /\ h[0] = <<>> /\ k[0] = <<>>
      /\ \A i \in 1..(A + B) : g[i] = g[i - 1] \o f[i]
      /\ \A i \in 1..A : h[i] = h[i - 1] \o a[i]
      /\ \A i \in 1..B : k[i] = k[i - 1] \o b[i]
      /\ \A i \in 0..A : IsList(h[i])
      /\ \A i \in 0..B : IsList(k[i])
  BY <1>2, <1>3, <1>4, <1>5, <1>6 DEF MadeOf
<1>8. \A m \in 0..A : g[m] = h[m]
  <2> DEFINE G == {m \in 0..A : g[m] = h[m]}
  <2>1. 0 \in G
    BY <1>7
  <2>2. ASSUME NEW m \in 0..(A - 1), m \in G
        PROVE  m + 1 \in G
    <3>1. PICK i : i = m + 1
      OBVIOUS
    <3>2. i \in 1..A /\ i \in 1..(A + B) /\ i - 1 = m /\ i \in 0..A
      BY <3>1
    <3>3. g[i] = g[m] \o f[i] /\ h[i] = h[m] \o a[i] /\ f[i] = a[i]
      BY <1>3, <1>7, <3>2
    <3>4. g[m] = h[m]
      BY <2>2
    <3>5. g[i] = h[i]
      BY <3>3, <3>4
    <3> QED
      BY <3>1, <3>2, <3>5
  <2>3. \A m \in 0..A : m \in G
    <3> HIDE DEF G
    <3> QED
      BY <2>1, <2>2, Induction
  <2> QED
    BY <2>3
<1>9. \A m \in 0..B : g[A + m] = h[A] \o k[m]
  <2> DEFINE G == {m \in 0..B : g[A + m] = h[A] \o k[m]}
  <2>1. 0 \in G
    <3>1. IsList(h[A]) /\ g[A] = h[A] /\ A + 0 = A
      BY <1>7, <1>8
    <3>2. PICK x : x = h[A]
      OBVIOUS
    <3>3. x \o <<>> = x
      BY <3>1, <3>2, EmptyIsList
    <3>4. g[A + 0] = h[A] \o k[0]
      BY <1>7, <3>1, <3>2, <3>3, Zenon
    <3>5. 0 \in 0..B
      OBVIOUS
    <3> QED
      BY <3>4, <3>5, Zenon
  <2>2. ASSUME NEW m \in 0..(B - 1), m \in G
        PROVE  m + 1 \in G
    <3>1. PICK i : i = m + 1
      OBVIOUS
    <3>2. PICK n : n = A + i
      OBVIOUS
    <3>3. /\ i \in 1..B /\ i - 1 = m /\ i \in 0..B /\ m \in 0..B
          /\ n \in 1..(A + B) /\ n - 1 = A + m
      BY <3>1, <3>2
    <3>4. g[n] = g[A + m] \o f[n] /\ k[i] = k[m] \o b[i] /\ f[n] = b[i]
      BY <1>3, <1>7, <3>2, <3>3
    <3>5. g[A + m] = h[A] \o k[m]
      BY <2>2
    <3>6. PICK x, y, z : x = h[A] /\ y = k[m] /\ z = b[i]
      OBVIOUS
    <3>7. IsList(x) /\ IsList(y) /\ IsList(z)
      <4>1. A \in 0..A
        OBVIOUS
      <4> QED
        BY <1>2, <1>7, <3>3, <3>6, <4>1 DEF IsLines
    <3>8. (x \o y) \o z = x \o (y \o z)
      BY <3>7, ConcatAssociates
    <3>9. g[n] = (x \o y) \o z /\ h[A] \o k[i] = x \o (y \o z)
      BY <3>4, <3>5, <3>6, Zenon
    <3>10. g[n] = h[A] \o k[i]
      BY <3>8, <3>9, Zenon
    <3> QED
      BY <3>1, <3>2, <3>3, <3>10
  <2>3. \A m \in 0..B : m \in G
    <3> HIDE DEF G
    <3> QED
      BY <2>1, <2>2, Induction
  <2> QED
    BY <2>3
<1>10. g[A + B] = h[A] \o k[B]
  <2>1. B \in 0..B
    OBVIOUS
  <2> QED
    BY <1>9, <2>1
<1> QED
  BY <1>1, <1>4, <1>5, <1>6, <1>10, Zenon

LEMMA FlattenOne ==
  ASSUME NEW s, IsList(s)
  PROVE  FlattenSeq(<<s>>) = s
<1>1. PICK f : f = <<s>>
  OBVIOUS
<1>2. IsLines(f) /\ Len(f) = 1 /\ f[1] = s
  <2>1. IsList(f) /\ Len(f) = 1 /\ f[1] = s
    BY <1>1, TupleLengths, TupleFacts
  <2> QED
    BY <2>1 DEF IsLines
<1>3. PICK g : MadeOf(f, g) /\ FlattenSeq(f) = g[1]
  BY <1>2, FlattenByParts
<1>4. g[0] = <<>> /\ g[1] = g[0] \o f[1]
  <2>1. g[0] = <<>> /\ g[1] = g[1 - 1] \o f[1]
    BY <1>2, <1>3 DEF MadeOf
  <2>2. 1 - 1 = 0
    OBVIOUS
  <2> QED
    BY <2>1, <2>2
<1>5. <<>> \o s = s
  BY EmptyIsList
<1> QED
  BY <1>1, <1>2, <1>3, <1>4, <1>5

\* The lines of several strings.
LEMMA UntimedIs ==
  ASSUME NEW ss, IsLines(ss), NEW n, n = Len(ss)
  PROVE  \E f : /\ IsLines(f) /\ Len(f) = n /\ n \in Nat /\ Untimed(ss) = FlattenSeq(f)
                /\ \A i \in 1..n : f[i] = Lines(None, ss[i])
<1>1. n \in Nat /\ DOMAIN ss = 1..n /\ \A i \in 1..n : IsList(ss[i])
  BY ListFacts DEF IsLines
<1>2. PICK f : f = [i \in 1..n |-> Lines(None, ss[i])]
  OBVIOUS
<1>3. Untimed(ss) = FlattenSeq(f)
  BY <1>1, <1>2 DEF Untimed
<1>4. \A i \in 1..n : f[i] = Lines(None, ss[i])
  BY <1>2
<1>5. IsList(f) /\ Len(f) = n
  <2>1. f = [i \in 1..n |-> f[i]]
    BY <1>2
  <2> QED
    BY <1>1, <2>1, ListMade
<1>6. \A i \in 1..n : IsList(f[i])
  BY <1>1, <1>4, LinesAreList
<1> QED
  BY <1>1, <1>3, <1>4, <1>5, <1>6 DEF IsLines

LEMMA UntimedConcat ==
  ASSUME NEW a, NEW b, IsLines(a), IsLines(b)
  PROVE  Untimed(a \o b) = Untimed(a) \o Untimed(b)
<1>1. PICK u : u = a \o b
  OBVIOUS
<1>2. PICK A \in Nat, B \in Nat : A = Len(a) /\ B = Len(b)
  BY ListFacts DEF IsLines
<1>3. /\ IsLines(u) /\ Len(u) = A + B
      /\ (\A j \in 1..A : u[j] = a[j]) /\ (\A j \in 1..B : u[A + j] = b[j])
  BY <1>1, <1>2, LinesConcat, ConcatAt DEF IsLines
<1>4. PICK f : /\ IsLines(f) /\ Len(f) = A /\ Untimed(a) = FlattenSeq(f)
               /\ \A i \in 1..A : f[i] = Lines(None, a[i])
  BY <1>2, UntimedIs
<1>5. PICK h : /\ IsLines(h) /\ Len(h) = B /\ Untimed(b) = FlattenSeq(h)
               /\ \A i \in 1..B : h[i] = Lines(None, b[i])
  BY <1>2, UntimedIs
<1>6. PICK g : /\ IsLines(g) /\ Len(g) = A + B /\ Untimed(u) = FlattenSeq(g)
               /\ \A i \in 1..(A + B) : g[i] = Lines(None, u[i])
  BY <1>3, UntimedIs
<1>7. PICK k : k = f \o h
  OBVIOUS
<1>8. /\ IsList(k) /\ Len(k) = A + B
      /\ (\A j \in 1..A : k[j] = f[j]) /\ (\A j \in 1..B : k[A + j] = h[j])
  <2>1. IsList(f) /\ IsList(h)
    BY <1>4, <1>5 DEF IsLines
  <2>2. Len(f) = A /\ Len(h) = B
    BY <1>4, <1>5
  <2>3. /\ IsList(f \o h) /\ Len(f \o h) = Len(f) + Len(h)
        /\ \A j \in 1..Len(f) : (f \o h)[j] = f[j]
        /\ \A j \in 1..Len(h) : (f \o h)[Len(f) + j] = h[j]
    BY <2>1, ConcatAt
  <2> QED
    BY <1>7, <2>2, <2>3
<1>9. ASSUME NEW i \in 1..(A + B)
      PROVE  g[i] = k[i]
  <2>1. CASE i \in 1..A
    <3>1. g[i] = Lines(None, a[i]) /\ k[i] = Lines(None, a[i])
      BY <1>3, <1>4, <1>6, <1>8, <2>1
    <3> QED
      BY <3>1
  <2>2. CASE i \notin 1..A
    <3>1. PICK j \in 1..B : i = A + j
      <4>1. i - A \in 1..B /\ i = A + (i - A)
        BY <2>2
      <4> QED
        BY <4>1
    <3>2. g[i] = Lines(None, b[j]) /\ k[i] = Lines(None, b[j])
      BY <1>3, <1>5, <1>6, <1>8, <3>1
    <3> QED
      BY <3>2
  <2> QED
    BY <2>1, <2>2
<1>10. g = k
  BY <1>6, <1>8, <1>9, ListsEqual DEF IsLines
<1>11. FlattenSeq(k) = FlattenSeq(f) \o FlattenSeq(h)
  BY <1>4, <1>5, <1>7, FlattenConcat
<1> QED
  BY <1>1, <1>4, <1>5, <1>6, <1>10, <1>11, Zenon

LEMMA UntimedOne ==
  ASSUME NEW s, IsList(s)
  PROVE  Untimed(<<s>>) = Lines(None, s)
<1>1. PICK ss : ss = <<s>>
  OBVIOUS
<1>2. IsLines(ss) /\ Len(ss) = 1 /\ ss[1] = s
  <2>1. IsList(ss) /\ Len(ss) = 1 /\ ss[1] = s
    BY <1>1, TupleLengths, TupleFacts
  <2> QED
    BY <2>1 DEF IsLines
<1>3. PICK f : /\ IsLines(f) /\ Len(f) = 1 /\ Untimed(ss) = FlattenSeq(f)
               /\ \A i \in 1..1 : f[i] = Lines(None, ss[i])
  <2>1. PICK n : n = Len(ss)
    OBVIOUS
  <2>2. PICK f : /\ IsLines(f) /\ Len(f) = n /\ Untimed(ss) = FlattenSeq(f)
                 /\ \A i \in 1..n : f[i] = Lines(None, ss[i])
    <3>1. IsLines(ss)
      BY <1>2
    <3> QED
      BY <2>1, <3>1, UntimedIs
  <2> QED
    BY <1>2, <2>1, <2>2
<1>4. f[1] = Lines(None, s) /\ IsList(Lines(None, s))
  BY <1>2, <1>3, LinesAreList
<1>5. PICK t : t = Lines(None, s)
  OBVIOUS
<1>6. IsList(<<t>>) /\ Len(<<t>>) = 1 /\ <<t>>[1] = t
  BY TupleLengths, TupleFacts
<1>7. f = <<t>>
  <2>1. IsList(f) /\ Len(f) = 1 /\ f[1] = t
    BY <1>3, <1>4, <1>5 DEF IsLines
  <2>2. \A i \in 1..Len(f) : f[i] = <<t>>[i]
    BY <1>6, <2>1
  <2>3. PICK b : b = <<t>>
    OBVIOUS
  <2>4. f = b
    BY <1>6, <2>1, <2>2, <2>3, ListsEqual
  <2> QED
    BY <2>3, <2>4
<1>8. FlattenSeq(<<t>>) = t
  BY <1>4, <1>5, FlattenOne
<1> QED
  BY <1>1, <1>3, <1>5, <1>7, <1>8

\* Strings without a newline are their lines.
LEMMA UntimedOneLines ==
  ASSUME NEW ss, IsLines(ss), NEW n, n = Len(ss), \A i \in 1..n : ~Mentions(ss[i], NL)
  PROVE  /\ IsList(Untimed(ss)) /\ Len(Untimed(ss)) = n
         /\ \A i \in 1..n : Untimed(ss)[i] = LineOf(None, ss[i])
<1>1. PICK f : /\ IsLines(f) /\ Len(f) = n /\ n \in Nat /\ Untimed(ss) = FlattenSeq(f)
               /\ \A i \in 1..n : f[i] = Lines(None, ss[i])
  BY UntimedIs
<1>2. PICK t : t = [i \in 1..n |-> LineOf(None, ss[i])]
  OBVIOUS
<1>3. IsList(t) /\ Len(t) = n /\ DOMAIN t = 1..n
  <2>1. t = [i \in 1..n |-> t[i]]
    BY <1>2
  <2> QED
    BY <1>1, <2>1, ListMade
<1>4. PICK r : r = Singles(t)
  OBVIOUS
<1>5. IsLines(r) /\ Len(r) = n /\ FlattenSeq(r) = t
  BY <1>3, <1>4, SinglesFlattened
<1>6. ASSUME NEW i \in 1..n
      PROVE  f[i] = r[i]
  <2>1. r[i] = <<t[i]>>
    BY <1>3, <1>4 DEF Singles
  <2>2. t[i] = LineOf(None, ss[i])
    BY <1>2
  <2>3. IsList(ss[i]) /\ ~Mentions(ss[i], NL)
    BY DEF IsLines
  <2>4. Lines(None, ss[i]) = <<LineOf(None, ss[i])>>
    BY <2>3, OneLineIs
  <2> QED
    BY <1>1, <2>1, <2>2, <2>4
<1>7. f = r
  BY <1>1, <1>5, <1>6, ListsEqual DEF IsLines
<1>8. Untimed(ss) = t
  BY <1>1, <1>5, <1>7
<1> QED
  BY <1>2, <1>3, <1>8

-----------------------------------------------------------------------------
(* Comments are lines between the others.                                  *)

\* A comment has begun, and not that of a header.
Hashed(p) ==
  /\ IsList(p) /\ ~Mentions(p, NL)
  /\ \E a \in 1..Len(p) : /\ p[a] = "#" /\ \A i \in 1..(a - 1) : p[i] = SP
                         /\ a + 2 <= Len(p) /\ p[a + 2] # "nwscript"

LEMMA TrimContinues ==
  ASSUME NEW s, IsList(s), NEW a \in 1..Len(s), s[a] # SP, \A i \in 1..(a - 1) : s[i] = SP,
         NEW j \in 1..Len(Trim(s))
  PROVE  Trim(s)[j] = s[a + j - 1]
<1>1. Len(s) \in Nat
  BY ListFacts
<1>2. ~\A i \in 1..Len(s) : s[i] = SP
  OBVIOUS
<1>3. PICK c, b : Ink(s, c, b)
  BY <1>2, TrimCases
<1>4. /\ c \in 1..Len(s) /\ b \in 1..Len(s) /\ c <= b /\ s[c] # SP
      /\ \A i \in 1..Len(s) : i < c \/ i > b => s[i] = SP
  BY <1>3 DEF Ink
<1>5. c = a
  BY <1>1, <1>4
<1>6. PICK t : t = SubSeq(s, c, b)
  OBVIOUS
<1>7. Len(t) = b - c + 1 /\ \A i \in 1..(b - c + 1) : t[i] = s[c + i - 1]
  <2>1. c \in 1..(Len(s) + 1) /\ b \in 0..Len(s)
    BY <1>1, <1>4
  <2>2. /\ Len(t) = IF c <= b THEN b - c + 1 ELSE 0
        /\ \A i \in 1..(b - c + 1) : t[i] = s[c + i - 1]
    BY <1>6, <2>1, PieceOf
  <2> QED
    BY <1>4, <2>2
<1>8. Trim(s) = t
  BY <1>3, <1>6, TrimIs
<1>9. j \in 1..(b - c + 1)
  BY <1>7, <1>8
<1> QED
  BY <1>5, <1>7, <1>8, <1>9

LEMMA HashedBegins ==
  ASSUME NEW p, Hashed(p), NEW x, IsList(x), NEW s, s = Cat(p, x)
  PROVE  IsList(s) /\ Trim(s) # <<>> /\ Trim(s)[1] = "#" /\ ~Titled(Trim(s))
<1>1. PICK a \in 1..Len(p) : /\ p[a] = "#" /\ \A i \in 1..(a - 1) : p[i] = SP
                             /\ a + 2 <= Len(p) /\ p[a + 2] # "nwscript"
  BY DEF Hashed
<1>2. /\ IsList(s) /\ Len(s) = Len(p) + Len(x) /\ Len(p) \in Nat /\ Len(x) \in Nat
      /\ \A j \in 1..Len(p) : s[j] = p[j]
  BY CatIs DEF Hashed
<1>3. s[a] = "#" /\ a \in 1..Len(s)
  BY <1>1, <1>2
<1>4. \A i \in 1..(a - 1) : s[i] = SP
  <2>1. \A i \in 1..(a - 1) : i \in 1..Len(p)
    BY <1>2
  <2> QED
    BY <1>1, <1>2, <2>1
<1>5. s[a] # SP
  BY <1>3 DEF SP
<1>6. Trim(s) # <<>> /\ Trim(s)[1] = s[a] /\ IsList(Trim(s))
  BY <1>2, <1>3, <1>4, <1>5, TrimBegins
<1>7. PICK t : t = Trim(s)
  OBVIOUS
<1>8. ASSUME Titled(t)
      PROVE  FALSE
  <2>1. Len(t) >= 3 /\ t[3] = "nwscript" /\ Len(t) \in Nat
    BY <1>6, <1>7, <1>8, ListFacts DEF Titled
  <2>2. 3 \in 1..Len(t) /\ a + 3 - 1 = a + 2 /\ a + 2 \in 1..Len(p)
    BY <1>1, <1>2, <2>1
  <2>3. t[3] = s[a + 3 - 1]
    BY <1>2, <1>3, <1>4, <1>5, <1>7, <2>2, TrimContinues
  <2>4. t[3] = p[a + 2]
    BY <1>2, <2>2, <2>3
  <2> QED
    BY <1>1, <2>1, <2>4
<1> QED
  BY <1>2, <1>3, <1>6, <1>7, <1>8

LEMMA GapIs ==
  ASSUME NEW u, IsList(u), Trim(u) = <<>> \/ Trim(u)[1] \in {"#", "expect"}
  PROVE  IsGap(LineOf(None, u))
<1>1. PICK l : l = [at |-> None, text |-> u]
  OBVIOUS
<1>2. DOMAIN l = {"at", "text"} /\ l.at = None /\ l.text = u
  BY <1>1
<1>3. IsGap(l)
  BY <1>2 DEF IsGap
<1> QED
  BY <1>1, <1>3 DEF LineOf

\* A line for Gaps.
IsNoteLine(l) == IsGap(l) /\ Quiet(l)

LEMMA NoteLineIs ==
  ASSUME NEW u, IsList(u), Trim(u) = <<>> \/ (Trim(u)[1] = "#" /\ ~Titled(Trim(u)))
  PROVE  IsNoteLine(LineOf(None, u))
<1>1. IsGap(LineOf(None, u))
  <2>1. Trim(u) = <<>> \/ Trim(u)[1] \in {"#", "expect"}
    OBVIOUS
  <2> QED
    BY <2>1, GapIs
<1>2. ~Titled(Trim(u))
  <2>1. CASE Trim(u) = <<>>
    <3>1. Len(<<>>) = 0
      BY EmptyIsList
    <3>2. ~(Len(<<>>) >= 3)
      BY <3>1
    <3> QED
      BY <2>1, <3>2 DEF Titled
  <2> QED
    BY <2>1
<1>3. PICK l : l = [at |-> None, text |-> u]
  OBVIOUS
<1>4. l.text = u
  BY <1>3
<1>5. Quiet(l)
  BY <1>2, <1>4 DEF Quiet, Hash
<1> QED
  BY <1>1, <1>3, <1>5 DEF LineOf, IsNoteLine

LEMMA GapsAre ==
  ASSUME NEW t
  PROVE  Gaps(t) <=> IsList(t) /\ \A i \in 1..Len(t) : IsNoteLine(t[i])
BY DEF Gaps, IsNoteLine

LEMMA NoteGaps ==
  ASSUME NEW p, Hashed(p), NEW x, IsList(x), NoteSurvives(x), NEW u, u = Cat(p, x)
  PROVE  Gaps(Lines(None, u))
<1>1. PICK q, r : q = Split(u, NL) /\ r = Split(x, NL)
  OBVIOUS
<1>2. IsList(p) /\ ~Mentions(p, NL) /\ IsList(u)
  BY CatIs DEF Hashed
<1>3. /\ IsLines(q) /\ IsLines(r) /\ IsList(q) /\ IsList(r)
      /\ Len(q) \in Nat \ {0} /\ Len(r) \in Nat \ {0}
  BY <1>1, <1>2, SplitMakesLines DEF IsLines
<1>4. Len(q) = Len(r) /\ q[1] = Cat(p, r[1]) /\ \A i \in 2..Len(r) : q[i] = r[i]
  BY <1>1, <1>2, SplitPrefix
<1>5. \A i \in 2..Len(r) : Trim(r[i]) = <<>>
  BY <1>1 DEF NoteSurvives
<1>6. IsList(r[1]) /\ 1 \in 1..Len(r)
  BY <1>3 DEF IsLines
<1>7. PICK t : t = Lines(None, u)
  OBVIOUS
<1>8. /\ IsList(t) /\ Len(t) = Len(q) /\ t[1] = LineOf(None, q[1])
      /\ \A i \in 2..Len(q) : t[i] = LineOf(None, q[i])
  BY <1>1, <1>2, <1>7, LinesAre
<1>9. IsNoteLine(t[1])
  <2>1. IsList(q[1]) /\ Trim(q[1])[1] = "#" /\ ~Titled(Trim(q[1]))
    BY <1>4, <1>6, HashedBegins
  <2> QED
    BY <1>8, <2>1, NoteLineIs
<1>10. ASSUME NEW i \in 2..Len(q)
       PROVE  IsNoteLine(t[i])
  <2>1. i \in 1..Len(q) /\ i \in 2..Len(r)
    BY <1>3, <1>4
  <2>2. IsList(q[i]) /\ Trim(q[i]) = <<>>
    BY <1>3, <1>4, <1>5, <2>1 DEF IsLines
  <2>3. t[i] = LineOf(None, q[i])
    BY <1>8
  <2> QED
    BY <2>2, <2>3, NoteLineIs
<1>11. \A i \in 1..Len(t) : IsNoteLine(t[i])
  <2> SUFFICES ASSUME NEW i \in 1..Len(t)
               PROVE  IsNoteLine(t[i])
    OBVIOUS
  <2>1. i = 1 \/ i \in 2..Len(q)
    BY <1>3, <1>8
  <2> QED
    BY <1>9, <1>10, <2>1
<1> QED
  BY <1>7, <1>8, <1>11, GapsAre

LEMMA NoteOfRest ==
  ASSUME NEW p, NEW x, IsList(p), IsList(x), ~Mentions(p, NL), NoteSurvives(Cat(p, x))
  PROVE  NoteSurvives(x)
<1>1. PICK q, r : q = Split(Cat(p, x), NL) /\ r = Split(x, NL)
  OBVIOUS
<1>2. Len(q) = Len(r) /\ \A i \in 2..Len(r) : q[i] = r[i]
  BY <1>1, SplitPrefix
<1>3. \A i \in 2..Len(q) : Trim(q[i]) = <<>>
  BY <1>1 DEF NoteSurvives
<1>4. \A i \in 2..Len(r) : Trim(r[i]) = <<>>
  BY <1>2, <1>3
<1> QED
  BY <1>1, <1>4 DEF NoteSurvives

LEMMA WordSurvives ==
  ASSUME NEW x
  PROVE  NoteSurvives(One(x)) /\ IsList(One(x))
<1>1. IsList(One(x)) /\ IsList(<<>>)
  BY OneIs, EmptyIsList
<1>2. CASE x = NL
  <2>1. One(x) = Onto(NL, <<>>)
    BY <1>1, <1>2, CatEmpty DEF Onto
  <2>2. Around(<<>>, NL, <<>>) = Onto(NL, <<>>)
    BY <1>1, AroundEmpty
  <2>3. PICK u, r : u = Around(<<>>, NL, <<>>) /\ r = Split(<<>>, NL)
    OBVIOUS
  <2>4. Split(u, NL) = Onto(<<>>, r)
    <3>1. ~Mentions(<<>>, NL)
      BY EmptyMentions
    <3> QED
      BY <1>1, <2>3, <3>1, SplitOnto
  <2>5. r = One(<<>>) /\ IsList(r) /\ Len(r) = 1 /\ r[1] = <<>>
    BY <2>3, SplitEmpty, OneIs
  <2>6. PICK q : q = Onto(<<>>, r)
    OBVIOUS
  <2>7. Len(q) = 1 + Len(r) /\ \A j \in 1..Len(r) : q[1 + j] = r[j]
    BY <2>5, <2>6, OntoIs
  <2>8. Len(q) = 2 /\ q[2] = <<>>
    <3>1. 1 \in 1..Len(r) /\ 1 + 1 = 2
      BY <2>5
    <3> QED
      BY <2>5, <2>7, <3>1
  <2>9. Trim(<<>>) = <<>>
    BY BlankOnes, TrimBlank
  <2>10. Split(One(x), NL) = q
    BY <2>1, <2>2, <2>3, <2>4, <2>6
  <2>11. \A i \in 2..Len(q) : i = 2
    BY <2>8
  <2>12. \A i \in 2..Len(q) : Trim(q[i]) = <<>>
    BY <2>8, <2>9, <2>11
  <2>13. NoteSurvives(One(x))
    BY <2>10, <2>12 DEF NoteSurvives
  <2> QED
    BY <1>1, <2>13
<1>3. CASE x # NL
  <2>1. ~Mentions(One(x), NL)
    BY <1>3, OneMentions
  <2>2. Split(One(x), NL) = <<One(x)>>
    BY <1>1, <2>1, SplitIs
  <2>3. PICK q : q = Split(One(x), NL)
    OBVIOUS
  <2>4. Len(q) = 1
    BY <2>2, <2>3, TupleFacts
  <2>5. \A i \in 2..Len(q) : Trim(q[i]) = <<>>
    BY <2>4
  <2> QED
    BY <1>1, <2>3, <2>5 DEF NoteSurvives
<1> QED
  BY <1>2, <1>3

LEMMA GapsConcat ==
  ASSUME NEW s, NEW t, Gaps(s), Gaps(t)
  PROVE  Gaps(s \o t)
<1>1. PICK u : u = s \o t
  OBVIOUS
<1>2. /\ IsList(u) /\ Len(u) = Len(s) + Len(t) /\ Len(s) \in Nat /\ Len(t) \in Nat
      /\ (\A j \in 1..Len(s) : u[j] = s[j]) /\ \A j \in 1..Len(t) : u[Len(s) + j] = t[j]
  BY <1>1, GapsAre, ConcatAt
<1>3. ASSUME NEW i \in 1..Len(u)
      PROVE  IsNoteLine(u[i])
  <2>1. CASE i <= Len(s)
    <3>1. i \in 1..Len(s)
      BY <2>1
    <3> QED
      BY <1>2, <3>1, GapsAre
  <2>2. CASE ~(i <= Len(s))
    <3>1. PICK j \in 1..Len(t) : i = Len(s) + j
      <4>1. i - Len(s) \in 1..Len(t) /\ i = Len(s) + (i - Len(s))
        BY <1>2, <2>2
      <4> QED
        BY <4>1
    <3> QED
      BY <1>2, <3>1, GapsAre
  <2> QED
    BY <2>1, <2>2
<1> QED
  BY <1>1, <1>2, <1>3, GapsAre

LEMMA FlattenGaps ==
  ASSUME NEW f, IsLines(f), \A k \in 1..Len(f) : Gaps(f[k])
  PROVE  Gaps(FlattenSeq(f))
<1>1. PICK n \in Nat : n = Len(f)
  BY ListFacts DEF IsLines
<1>2. PICK g : MadeOf(f, g) /\ FlattenSeq(f) = g[n]
  BY <1>1, FlattenByParts
<1>3. g[0] = <<>> /\ \A i \in 1..n : g[i] = g[i - 1] \o f[i]
  BY <1>1, <1>2 DEF MadeOf
<1> DEFINE G == {k \in 0..n : Gaps(g[k])}
<1>4. 0 \in G
  <2>1. IsList(<<>>) /\ Len(<<>>) = 0
    BY EmptyIsList
  <2>2. Gaps(<<>>)
    BY <2>1 DEF Gaps
  <2> QED
    BY <1>3, <2>2
<1>5. ASSUME NEW m \in 0..(n - 1), m \in G
      PROVE  m + 1 \in G
  <2>1. PICK k : k = m + 1
    OBVIOUS
  <2>2. k \in 1..n /\ k - 1 = m /\ k \in 0..n
    BY <2>1
  <2>3. g[k] = g[m] \o f[k]
    BY <1>3, <2>2
  <2>4. Gaps(g[m]) /\ Gaps(f[k])
    BY <1>1, <1>5, <2>2
  <2>5. Gaps(g[m] \o f[k])
    BY <2>4, GapsConcat
  <2> QED
    BY <2>1, <2>2, <2>3, <2>5
<1>6. \A m \in 0..n : m \in G
  <2> HIDE DEF G
  <2> QED
    BY <1>4, <1>5, Induction
<1>7. n \in G
  BY <1>6
<1> QED
  BY <1>2, <1>7

LEMMA HashBegins ==
  ASSUME NEW p, IsList(p), p[1] = "#", ~Mentions(p, NL), Len(p) >= 3, p[3] # "nwscript"
  PROVE  Hashed(p)
<1>1. Len(p) \in Nat
  BY ListFacts
<1>2. 1 \in 1..Len(p) /\ 1 + 2 <= Len(p) /\ p[1 + 2] # "nwscript" /\ \A i \in 1..(1 - 1) : p[i] = SP
  BY <1>1
<1> QED
  BY <1>2 DEF Hashed

\* How a comment on a response begins.
Opening(w) == Onto(SP, Onto(SP, Onto("#", Onto(SP, One(w)))))

LEMMA RemarkHash ==
  ASSUME NEW w, w # NL, w # "nwscript"
  PROVE  Hashed(Opening(w)) /\ IsList(Opening(w))
<1>1. PICK h : h = "#"
  OBVIOUS
<1>2. h # NL /\ SP # NL
  BY <1>1, Tokens
<1>3. PICK e : e = One(w)
  OBVIOUS
<1>4. IsList(e) /\ Len(e) = 1 /\ e[1] = w /\ ~Mentions(e, NL)
  BY <1>3, OneIs, OneMentions
<1>5. PICK d : d = Onto(SP, e)
  OBVIOUS
<1>6. IsList(d) /\ Len(d) = 2 /\ d[2] = w /\ ~Mentions(d, NL)
  <2>1. IsList(d) /\ Len(d) = 1 + Len(e) /\ \A j \in 1..Len(e) : d[1 + j] = e[j]
    <3>1. IsList(e)
      BY <1>4
    <3> QED
      BY <1>5, <3>1, OntoIs
  <2>2. d[1 + 1] = e[1]
    BY <1>4, <2>1
  <2>3. ~Mentions(d, NL)
    <3>1. IsList(e) /\ ~Mentions(e, NL)
      BY <1>4
    <3> QED
      BY <1>2, <1>5, <3>1, OntoMentions
  <2> QED
    BY <1>4, <2>1, <2>2, <2>3
<1>7. PICK c : c = Onto(h, d)
  OBVIOUS
<1>8. IsList(c) /\ Len(c) = 3 /\ c[1] = h /\ c[3] = w /\ ~Mentions(c, NL)
  <2>1. IsList(c) /\ Len(c) = 1 + Len(d) /\ c[1] = h /\ \A j \in 1..Len(d) : c[1 + j] = d[j]
    <3>1. IsList(d)
      BY <1>6
    <3> QED
      BY <1>7, <3>1, OntoIs
  <2>2. c[1 + 2] = d[2]
    BY <1>6, <2>1
  <2>3. ~Mentions(c, NL)
    <3>1. IsList(d) /\ ~Mentions(d, NL)
      BY <1>6
    <3> QED
      BY <1>2, <1>7, <3>1, OntoMentions
  <2> QED
    BY <1>6, <2>1, <2>2, <2>3
<1>9. PICK a : a = Onto(SP, c)
  OBVIOUS
<1>10. IsList(a) /\ Len(a) = 4 /\ a[1] = SP /\ a[2] = h /\ a[4] = w /\ ~Mentions(a, NL)
  <2>1. IsList(a) /\ Len(a) = 1 + Len(c) /\ a[1] = SP /\ \A j \in 1..Len(c) : a[1 + j] = c[j]
    <3>1. IsList(c)
      BY <1>8
    <3> QED
      BY <1>9, <3>1, OntoIs
  <2>2. a[1 + 3] = c[3] /\ a[1 + 1] = c[1]
    BY <1>8, <2>1
  <2>3. ~Mentions(a, NL)
    <3>1. IsList(c) /\ ~Mentions(c, NL)
      BY <1>8
    <3> QED
      BY <1>2, <1>9, <3>1, OntoMentions
  <2> QED
    BY <1>8, <2>1, <2>2, <2>3
<1>11. PICK b : b = Onto(SP, a)
  OBVIOUS
<1>12. /\ IsList(b) /\ Len(b) = 5 /\ b[1] = SP /\ b[2] = SP /\ b[3] = h /\ b[5] = w
       /\ ~Mentions(b, NL)
  <2>1. IsList(b) /\ Len(b) = 1 + Len(a) /\ b[1] = SP /\ \A j \in 1..Len(a) : b[1 + j] = a[j]
    <3>1. IsList(a)
      BY <1>10
    <3> QED
      BY <1>11, <3>1, OntoIs
  <2>2. b[1 + 1] = a[1] /\ b[1 + 2] = a[2] /\ b[1 + 4] = a[4]
    BY <1>10, <2>1
  <2>3. ~Mentions(b, NL)
    <3>1. IsList(a) /\ ~Mentions(a, NL)
      BY <1>10
    <3> QED
      BY <1>2, <1>11, <3>1, OntoMentions
  <2> QED
    BY <1>10, <2>1, <2>2, <2>3
<1>13. /\ \A i \in 1..(3 - 1) : b[i] = SP
       /\ 3 \in 1..Len(b) /\ 3 + 2 <= Len(b) /\ b[3 + 2] # "nwscript"
  BY <1>12
<1>14. Hashed(b)
  BY <1>1, <1>12, <1>13 DEF Hashed
<1> QED
  BY <1>1, <1>3, <1>5, <1>7, <1>9, <1>11, <1>12, <1>14 DEF Opening

LEMMA OpeningContinues ==
  ASSUME NEW w, NEW t, IsList(t)
  PROVE  Cat(Opening(w), t) = Onto(SP, Onto(SP, Onto("#", Onto(SP, Onto(w, t)))))
<1>1. ASSUME NEW x, NEW s, IsList(s)
      PROVE  IsList(Onto(x, s)) /\ Cat(Onto(x, s), t) = Onto(x, Cat(s, t))
  BY <1>1, OneIs, OntoIs, CatAssociates DEF Onto
<1>2. PICK e, d, c, a : e = One(w) /\ d = Onto(SP, e) /\ c = Onto("#", d) /\ a = Onto(SP, c)
  OBVIOUS
<1>3. IsList(e) /\ Cat(e, t) = Onto(w, t)
  BY <1>2, OneIs DEF Onto
<1>4. IsList(d) /\ Cat(d, t) = Onto(SP, Cat(e, t))
  BY <1>1, <1>2, <1>3
<1>5. IsList(c) /\ Cat(c, t) = Onto("#", Cat(d, t))
  BY <1>1, <1>2, <1>4
<1>6. IsList(a) /\ Cat(a, t) = Onto(SP, Cat(c, t))
  BY <1>1, <1>2, <1>5
<1>7. Cat(Onto(SP, a), t) = Onto(SP, Cat(a, t))
  BY <1>1, <1>6
<1>8. Opening(w) = Onto(SP, a)
  BY <1>2 DEF Opening
<1> QED
  BY <1>3, <1>4, <1>5, <1>6, <1>7, <1>8

LEMMA RemarksAreGaps ==
  ASSUME NEW ss, Remarks(ss), \A i \in 1..Len(ss) : NoteSurvives(ss[i])
  PROVE  Gaps(Untimed(ss)) /\ IsLines(ss)
<1>1. PICK n : n = Len(ss)
  OBVIOUS
<1>2. IsLines(ss)
  BY RemarkIsList DEF Remarks, IsLines
<1>3. PICK f : /\ IsLines(f) /\ Len(f) = n /\ Untimed(ss) = FlattenSeq(f)
               /\ \A i \in 1..n : f[i] = Lines(None, ss[i])
  BY <1>1, <1>2, UntimedIs
<1>4. ASSUME NEW i \in 1..n
      PROVE  Gaps(f[i])
  <2>1. PICK w, t : /\ IsList(t) /\ w \notin {NL, "nwscript"}
                    /\ ss[i] = Onto(SP, Onto(SP, Onto("#", Onto(SP, Onto(w, t)))))
    BY <1>1 DEF Remarks, IsRemark
  <2>2. PICK p : p = Opening(w)
    OBVIOUS
  <2>3. Hashed(p) /\ IsList(p) /\ ~Mentions(p, NL)
    <3>1. w # NL /\ w # "nwscript"
      BY <2>1
    <3>2. Hashed(p)
      BY <2>2, <3>1, RemarkHash
    <3> QED
      BY <3>2 DEF Hashed
  <2>4. ss[i] = Cat(p, t)
    BY <2>1, <2>2, OpeningContinues
  <2>5. NoteSurvives(Cat(p, t))
    BY <1>1, <2>4
  <2>6. NoteSurvives(t)
    BY <2>1, <2>3, <2>5, NoteOfRest
  <2>7. Gaps(Lines(None, ss[i]))
    BY <2>1, <2>3, <2>4, <2>6, NoteGaps
  <2> QED
    BY <1>3, <2>7
<1>5. Gaps(FlattenSeq(f))
  BY <1>3, <1>4, FlattenGaps
<1> QED
  BY <1>2, <1>3, <1>5

-----------------------------------------------------------------------------
(* Calls that survive.                                                     *)

IsCarriedCall(c) ==
  /\ IsSentCall(c) /\ HeadSurvives(c)
  /\ \A i \in 1..Fields(c) : Survives(HowOf(c, i), ValueOf(c, i))

LEMMA CarriedIsSent ==
  ASSUME NEW c, NEW v, IsCall(c, v), c.variant = ParseVariant(c.op)
  PROVE  IsSentCall(c)
<1>1. c.op \in Ops \cup {"Unknown"}
  BY DEF IsCall
<1>2. SUFFICES ASSUME IsRawCall(c)
               PROVE  IsSentCall(c)
  BY CallCases
<1>3. c.variant = "RawBytes"
  BY <1>2 DEF IsRawCall
<1>4. ParseVariant(c.op) = "RawBytes"
  BY <1>3
<1>5. c.op \in Ops
  <2> SUFFICES ASSUME c.op \notin Ops
               PROVE  FALSE
    OBVIOUS
  <2>1. c.op = "Unknown" /\ "Unknown" \in Special
    BY <1>1 DEF Special
  <2>2. c.op \notin PathOps \cup StringOps \cup NoArgOps \cup ComplexOps
    BY <2>1, KindsDisjoint
  <2>3. ParseVariant(c.op) = "Unknown"
    BY <2>1, <2>2 DEF ParseVariant
  <2> QED
    BY <1>4, <2>3
<1>6. c.variant = ParseVariant(c.op)
  BY <1>3, <1>4
<1>7. DOMAIN c.args = HeadKeys(c.op) \cup DOMAIN ParseKeys(c.op)
  <2>1. DOMAIN c.args = DOMAIN ParseCall(c.op, <<>>).args
    BY <1>6 DEF IsCall
  <2>2. PICK h, ks : h = ParseHead(c.op, <<>>) /\ ks = [k \in DOMAIN ParseKeys(c.op) |-> Missing(ParseKeys(c.op)[k])]
    OBVIOUS
  <2>3. ParseCall(c.op, <<>>).args = Extended(h, ks)
    BY <2>2 DEF ParseCall
  <2>4. DOMAIN Extended(h, ks) = DOMAIN h \cup DOMAIN ks
    BY DEF Extended
  <2>5. DOMAIN ks = DOMAIN ParseKeys(c.op)
    BY <2>2
  <2> QED
    BY <2>1, <2>2, <2>3, <2>4, <2>5 DEF HeadKeys
<1>8. \A key \in HeadKeys(c.op) : IsHeadValue(key, c.args[key])
  BY <1>6 DEF IsCall, HeadKeys
<1>9. \A i \in 1..Fields(c) : IsSentValue(HowOf(c, i), ValueOf(c, i))
  <2>1. KeysMatch(c.op, FormatKeys(c.variant), ParseKeys(c.op))
    BY <1>5, <1>6, KeysOf
  <2>2. DOMAIN FormatKeys(c.variant) = 1..Fields(c)
    BY <2>1, ListFacts DEF KeysMatch, Fields
  <2>3. \A i \in DOMAIN FormatKeys(c.variant) : IsValue(HowOf(c, i), ValueOf(c, i))
    BY <1>6 DEF IsCall, HowOf, ValueOf, KeyOf
  <2> QED
    BY <2>2, <2>3 DEF IsSentValue
<1> QED
  BY <1>5, <1>6, <1>7, <1>8, <1>9 DEF IsSentCall

LEMMA SameHeadSurvives ==
  ASSUME NEW e, NEW w, IsSentCall(e), w.op = e.op, w.variant = e.variant,
         \A key \in HeadKeys(e.op) : w.args[key] = e.args[key], HeadSurvives(e)
  PROVE  HeadSurvives(w)
<1>1. HeadTable(e.variant, HeadKeys(e.op)) /\ e.variant = w.variant
  BY HeadKeysAre DEF IsSentCall
<1>2. CASE e.variant \in PathHeads /\ HeadKeys(e.op) = {"path"}
  BY <1>2 DEF HeadSurvives, PathHeads
<1>3. CASE e.variant \in ValueHeads /\ HeadKeys(e.op) = {"value"}
  BY <1>3 DEF HeadSurvives, ValueHeads
<1>4. CASE e.variant \in SetHeads /\ HeadKeys(e.op) = {"paths"}
  <2>1. w.args["paths"] = e.args["paths"]
    BY <1>4
  <2>2. PICK x : x = e.args["paths"]
    OBVIOUS
  <2>3. SetSurvives(x)
    BY <1>4, <2>2 DEF HeadSurvives, SetHeads
  <2> QED
    BY <1>4, <2>1, <2>2, <2>3 DEF HeadSurvives, SetHeads
<1>5. CASE e.variant = "PathSetFlag" /\ HeadKeys(e.op) = {"paths", "substitute"}
  <2>1. w.args["paths"] = e.args["paths"]
    BY <1>5
  <2>2. PICK x : x = e.args["paths"]
    OBVIOUS
  <2>3. SetSurvives(x)
    BY <1>5, <2>2 DEF HeadSurvives
  <2> QED
    BY <1>5, <2>1, <2>2, <2>3 DEF HeadSurvives
<1>6. CASE e.variant = "PathSetMode" /\ HeadKeys(e.op) = {"paths", "mode"}
  <2>1. w.args["paths"] = e.args["paths"]
    BY <1>6
  <2>2. PICK x : x = e.args["paths"]
    OBVIOUS
  <2>3. SetSurvives(x)
    BY <1>6, <2>2 DEF HeadSurvives
  <2> QED
    BY <1>6, <2>1, <2>2, <2>3 DEF HeadSurvives
<1>7. CASE e.variant = "AddPermRoot" /\ HeadKeys(e.op) = {"path", "gc_root"}
  <2>1. w.args["path"] = e.args["path"] /\ w.args["gc_root"] = e.args["gc_root"]
    BY <1>7
  <2> QED
    BY <1>7, <2>1 DEF HeadSurvives
<1>8. CASE e.variant = "AddSignatures" /\ HeadKeys(e.op) = {"path", "sigs"}
  <2>1. w.args["path"] = e.args["path"] /\ w.args["sigs"] = e.args["sigs"]
    BY <1>8
  <2>2. PICK x, y : x = e.args["sigs"] /\ y = e.args["path"]
    OBVIOUS
  <2>3. SetSurvives(x) /\ OneLine(y) /\ ~Mentions(y, SP) /\ y # <<>>
    BY <1>8, <2>2 DEF HeadSurvives
  <2> QED
    BY <1>8, <2>1, <2>2, <2>3 DEF HeadSurvives
<1>9. CASE e.variant \in BareHeads
  BY <1>9 DEF HeadSurvives, BareHeads
<1> QED
  BY <1>1, <1>2, <1>3, <1>4, <1>5, <1>6, <1>7, <1>8, <1>9 DEF HeadTable

\* A call whose data is in a file survives if it does with its data.
LEMMA WrittenIsCarried ==
  ASSUME script \in Scripts, NEW W \in SUBSET Large, NEW k \in DOMAIN script.entries,
         Legible(script.entries[k])
  PROVE  IsCarriedCall(Written(W, k))
<1>1. PICK e, w : e = script.entries[k] /\ w = Written(W, k)
  OBVIOUS
<1>2. Legible(e) /\ IsCall(e, script.version)
  BY <1>1, EntriesAre
<1>3. HeadSurvives(e) /\ IsSentCall(e)
  BY <1>2, CarriedIsSent DEF Legible
<1>4. /\ IsSentCall(w) /\ w.op = e.op /\ w.variant = e.variant
      /\ DOMAIN w.args = DOMAIN e.args
      /\ \A key \in DOMAIN e.args : key # "data" \/ k \notin W => w.args[key] = e.args[key]
      /\ k \in W => "data" \notin HeadKeys(e.op)
  BY <1>1, <1>3, WrittenIs
<1>5. e.op \in Ops /\ e.variant = ParseVariant(e.op) /\ DOMAIN e.args = HeadKeys(e.op) \cup DOMAIN ParseKeys(e.op)
  BY <1>3 DEF IsSentCall
<1>6. HeadSurvives(w)
  <2>1. \A key \in HeadKeys(e.op) : w.args[key] = e.args[key]
    BY <1>4, <1>5
  <2> QED
    BY <1>3, <1>4, <2>1, SameHeadSurvives
<1>7. KeysMatch(e.op, FormatKeys(e.variant), ParseKeys(e.op))
  BY <1>5, KeysOf
<1>8. Fields(w) = Fields(e) /\ \A i : KeyOf(w, i) = KeyOf(e, i) /\ HowOf(w, i) = HowOf(e, i)
  BY <1>4 DEF Fields, KeyOf, HowOf
<1>9. /\ DOMAIN FormatKeys(e.variant) = 1..Fields(e)
      /\ \A i \in 1..Fields(e) :
           /\ HowOf(e, i) = "data" <=> KeyOf(e, i) = "data"
           /\ KeyOf(e, i) \in DOMAIN ParseKeys(e.op)
  BY <1>7, ListFacts DEF KeysMatch, Fields, KeyOf, HowOf
<1>10. \A i \in 1..Fields(e) : Survives(HowOf(e, i), ValueOf(e, i))
  BY <1>2, <1>9 DEF Legible, HowOf, ValueOf, KeyOf
<1>11. ASSUME NEW i \in 1..Fields(w)
       PROVE  Survives(HowOf(w, i), ValueOf(w, i))
  <2>1. CASE HowOf(e, i) = "data"
    <3>1. HowOf(w, i) = "data"
      BY <1>8, <2>1
    <3> QED
      BY <3>1 DEF Survives
  <2>2. CASE HowOf(e, i) # "data"
    <3>1. KeyOf(e, i) # "data" /\ KeyOf(e, i) \in DOMAIN e.args
      BY <1>5, <1>8, <1>9, <2>2
    <3>2. ValueOf(w, i) = ValueOf(e, i)
      BY <1>4, <1>8, <3>1 DEF ValueOf
    <3>3. i \in 1..Fields(e)
      BY <1>8
    <3> QED
      BY <1>8, <1>10, <3>2, <3>3
  <2> QED
    BY <2>1, <2>2
<1> QED
  BY <1>1, <1>4, <1>6, <1>11 DEF IsCarriedCall

\* A line that is neither empty nor a comment nor an expectation.
Firm(u) ==
  /\ IsList(u) /\ ~Mentions(u, NL)
  /\ Trim(u) # <<>> /\ IsList(Trim(u)) /\ Trim(u)[1] \notin {"#", "expect", SP}

CallShown(c, u) ==
  /\ IsLines(u) /\ IsList(u) /\ Len(u) = (1 + Fields(c)) + Len(Overrides(c))
  /\ Fields(c) \in 0..13 /\ Len(Overrides(c)) \in Nat
  /\ Len(Overrides(c)) # 0 => c.op = "SetOptions" /\ Fields(c) = 13
  /\ HeadBacks(c, u[1])
  /\ \A i \in 1..Fields(c) : FieldShows(c, i, u[1 + i])
  /\ \A j \in 1..Len(Overrides(c)) : AssignShows(Overrides(c)[j], u[14 + j])
  /\ \A i \in 1..Len(u) : Firm(u[i])

LEMMA KeysAreFirm ==
  ASSUME NEW c, IsSentCall(c), NEW i \in 1..Fields(c)
  PROVE  KeyOf(c, i) \notin {"#", "expect", SP, QT, NL} \cup Ops
BY KeysOf DEF IsSentCall, KeysMatch, KeyOf, Fields

LEMMA CallShows ==
  ASSUME NEW c, IsCarriedCall(c), NEW u, u = FormatCall(c)
  PROVE  CallShown(c, u)
<1>1. IsSentCall(c) /\ HeadSurvives(c) /\ c.op \in Ops
  BY DEF IsCarriedCall, IsSentCall
<1>2. CallLines(c, u)
  BY <1>1, CallLaidOut
<1>3. /\ Fields(c) \in 0..13
      /\ \A i \in 1..Fields(c) : HowOf(c, i) \in Hows
      /\ c.op = "SetOptions" => /\ Fields(c) = 13 /\ KeyOf(c, 13) = "overrides"
                                /\ HowOf(c, 13) = "assignments"
      /\ Overrides(c) \in Seq(Seq(STRING) \X Seq(STRING))
  BY <1>1, OverridesLast
<1>4. PICK ov : ov = Overrides(c)
  OBVIOUS
<1>5. Len(ov) \in Nat /\ (Len(ov) # 0 => c.op = "SetOptions") /\ DOMAIN ov = 1..Len(ov)
  <2>1. Len(ov) \in Nat /\ DOMAIN ov = 1..Len(ov)
    BY <1>3, <1>4
  <2>2. c.op # "SetOptions" => Len(ov) = 0
    BY <1>4, EmptyIsList DEF Overrides
  <2> QED
    BY <2>1, <2>2
<1>6. HeadBacks(c, u[1])
  BY <1>1, <1>2, HeadBack DEF CallLines
<1>7. \A i \in 1..Fields(c) : FieldShows(c, i, u[1 + i])
  BY <1>1, <1>2, FieldShown DEF CallLines, IsCarriedCall
<1>8. ASSUME NEW j \in 1..Len(ov)
      PROVE  AssignShows(ov[j], u[14 + j])
  <2>1. c.op = "SetOptions" /\ 13 \in 1..Fields(c)
    <3>1. c.op = "SetOptions"
      BY <1>5
    <3> QED
      BY <1>3, <3>1
  <2>2. ValueOf(c, 13) = ov /\ HowOf(c, 13) = "assignments"
    BY <1>3, <1>4, <2>1 DEF ValueOf, Overrides
  <2>3. Survives("assignments", ov)
    BY <2>1, <2>2 DEF IsCarriedCall
  <2>4. PICK a \in Seq(STRING), b \in Seq(STRING) : ov[j] = <<a, b>>
    BY <1>3, <1>4
  <2>5. IsList(a) /\ IsList(b)
    BY <2>4, StringsAreList
  <2>6. \A m \in 1..2 : OneLine(ov[j][m]) /\ ~Mentions(ov[j][m], QT)
    BY <1>5, <2>3 DEF Survives
  <2>7. ov[j][1] = a /\ ov[j][2] = b
    BY <2>4
  <2>8. 1 \in 1..2 /\ 2 \in 1..2
    OBVIOUS
  <2>9. ~Mentions(a, NL) /\ ~Mentions(a, QT) /\ ~Mentions(b, NL) /\ ~Mentions(b, QT)
    BY <2>6, <2>7, <2>8, Zenon DEF OneLine
  <2>10. PICK p : p = ov[j]
    OBVIOUS
  <2>11. AssignShows(p, AssignLine(p))
    BY <2>4, <2>5, <2>9, <2>10, AssignShown
  <2>12. u[14 + j] = AssignLine(ov[j])
    BY <1>2, <1>4 DEF CallLines
  <2> QED
    BY <2>10, <2>11, <2>12
<1>9. ASSUME NEW n \in 1..Len(u)
      PROVE  Firm(u[n])
  <2>1. Len(u) = (1 + Fields(c)) + Len(ov)
    BY <1>2, <1>4 DEF CallLines
  <2>2. PICK x : x = u[n]
    OBVIOUS
  <2>3. CASE n = 1
    <3>1. c.op \notin {SP, "#", "expect"}
      BY <1>1, OpsAreWords
    <3> QED
      BY <1>6, <2>3, <3>1 DEF HeadBacks, Firm
  <2>4. CASE n \in 2..(1 + Fields(c))
    <3>1. PICK i \in 1..Fields(c) : n = 1 + i
      <4>1. n - 1 \in 1..Fields(c) /\ n = 1 + (n - 1)
        BY <1>3, <2>4
      <4> QED
        BY <4>1
    <3>2. FieldShows(c, i, x)
      BY <1>7, <2>2, <3>1
    <3>3. KeyOf(c, i) \notin {"#", "expect", SP}
      BY <1>1, KeysAreFirm
    <3> QED
      BY <2>2, <3>2, <3>3 DEF FieldShows, Indented, Firm
  <2>5. CASE n \notin 1..(1 + Fields(c))
    <3>1. Len(ov) # 0
      BY <1>3, <1>5, <2>1, <2>5
    <3>2. Fields(c) = 13
      BY <1>3, <1>5, <3>1
    <3>3. PICK j \in 1..Len(ov) : n = 14 + j
      <4>1. n - 14 \in 1..Len(ov) /\ n = 14 + (n - 14)
        BY <1>5, <2>1, <2>5, <3>2
      <4> QED
        BY <4>1
    <3>4. AssignShows(ov[j], x)
      BY <1>8, <2>2, <3>3
    <3>5. QT \notin {"#", "expect", SP}
      BY DEF QT, SP
    <3> QED
      BY <2>2, <3>4, <3>5 DEF AssignShows, Indented, Firm
  <2>6. n = 1 \/ n \in 2..(1 + Fields(c)) \/ n \notin 1..(1 + Fields(c))
    BY <1>3
  <2> QED
    BY <2>3, <2>4, <2>5, <2>6
<1>10. IsLines(u) /\ IsList(u) /\ Len(u) = (1 + Fields(c)) + Len(ov)
  BY <1>2, <1>4 DEF CallLines, IsLines
<1> QED
  BY <1>3, <1>4, <1>5, <1>6, <1>7, <1>8, <1>9, <1>10 DEF CallShown

-----------------------------------------------------------------------------
(* What the text is made of.                                               *)

\* The lines of a call, of which the first has its time.
Block(c) ==
  [j \in 1..Len(FormatCall(c)) |->
    LineOf(IF j = 1 THEN Some(Micros(c.at)) ELSE None, FormatCall(c)[j])]

LEMMA LineMatches ==
  ASSUME NEW at, NEW u
  PROVE  /\ Matches(LineOf(at, u), LineOf(at, u))
         /\ LineOf(at, u).text = u /\ LineOf(at, u).at = at
BY DEF Matches, LineOf

LEMMA BlankLineIsGap == Gaps(<<[at |-> None, text |-> <<>>]>>)
<1>1. PICK l : l = [at |-> None, text |-> <<>>]
  OBVIOUS
<1>2. l = LineOf(None, <<>>)
  BY <1>1 DEF LineOf
<1>3. Trim(<<>>) = <<>> /\ IsList(<<>>)
  BY BlankOnes, TrimBlank, EmptyIsList
<1>4. IsNoteLine(l)
  BY <1>2, <1>3, NoteLineIs
<1>5. PICK t : t = <<l>>
  OBVIOUS
<1>6. IsList(t) /\ Len(t) = 1 /\ t[1] = l
  BY <1>5, TupleLengths, TupleFacts
<1>7. \A i \in 1..Len(t) : IsNoteLine(t[i])
  BY <1>4, <1>6
<1> QED
  BY <1>1, <1>5, <1>6, <1>7, GapsAre

LEMMA BlockIs ==
  ASSUME NEW c, NEW u, u = FormatCall(c), IsList(u), NEW n, n = Len(u)
  PROVE  /\ IsList(Block(c)) /\ Len(Block(c)) = n /\ n \in Nat
         /\ n >= 1 => Block(c)[1] = LineOf(Some(Micros(c.at)), u[1])
         /\ \A j \in 2..n : Block(c)[j] = LineOf(None, u[j])
<1>1. n \in Nat
  BY ListFacts
<1>2. Block(c) = [j \in 1..n |-> LineOf(IF j = 1 THEN Some(Micros(c.at)) ELSE None, u[j])]
  BY DEF Block
<1>3. PICK b : b = Block(c)
  OBVIOUS
<1>4. IsList(b) /\ Len(b) = n
  <2>1. b = [j \in 1..n |-> b[j]]
    BY <1>2, <1>3
  <2> QED
    BY <1>1, <2>1, ListMade
<1>5. n >= 1 => b[1] = LineOf(Some(Micros(c.at)), u[1])
  BY <1>1, <1>2, <1>3
<1>6. ASSUME NEW j \in 2..n
      PROVE  b[j] = LineOf(None, u[j])
  <2>1. j \in 1..n /\ j # 1
    BY <1>1
  <2> QED
    BY <1>2, <1>3, <2>1
<1> QED
  BY <1>1, <1>3, <1>4, <1>5, <1>6

LEMMA EntryWoven ==
  ASSUME NEW c, IsCarriedCall(c), IsResponse(c.response),
         \A i \in 1..Len(FormatResponse(c.response)) : NoteSurvives(FormatResponse(c.response)[i])
  PROVE  Woven(FormatEntry(c), Block(c), 0)
<1>1. PICK call : call = FormatCall(c)
  OBVIOUS
<1>2. CallShown(c, call)
  BY <1>1, CallShows
<1>3. PICK n \in Nat \ {0} : n = Len(call)
  BY <1>2 DEF CallShown
<1>4. IsLines(call) /\ IsList(call) /\ \A i \in 1..n : IsList(call[i]) /\ ~Mentions(call[i], NL)
  BY <1>2, <1>3 DEF CallShown, Firm
<1>5. PICK tail : tail = Tail(call)
  OBVIOUS
<1>6. IsLines(tail) /\ Len(tail) = n - 1 /\ \A i \in 1..(n - 1) : tail[i] = call[i + 1]
  <2>1. call \in Seq(Range(call)) /\ call # <<>>
    <3>1. call \in Seq(Range(call))
      BY <1>4, ListFacts
    <3>2. call = <<>> => Len(call) = 0
      BY EmptyIsList
    <3> QED
      BY <1>3, <3>1, <3>2
  <2>2. tail \in Seq(Range(call)) /\ Len(tail) = Len(call) - 1
        /\ \A i \in 1..Len(tail) : tail[i] = call[i + 1]
    BY <1>5, <2>1, HeadTailProperties
  <2>3. \A i \in 1..(n - 1) : i + 1 \in 1..n
    OBVIOUS
  <2>4. \A i \in 1..Len(tail) : IsList(tail[i])
    BY <1>3, <1>4, <2>2, <2>3
  <2> QED
    BY <1>3, <2>2, <2>4 DEF IsLines, IsList
<1>7. PICK a, b, t, r :
        /\ a = <<[at |-> None, text |-> <<>>]>>
        /\ b = Lines(Some(Micros(c.at)), call[1])
        /\ t = Untimed(tail) /\ r = Untimed(FormatResponse(c.response))
  OBVIOUS
<1>8. FormatEntry(c) = ((a \o b) \o t) \o r
  BY <1>1, <1>5, <1>7 DEF FormatEntry
<1>9. Gaps(a)
  BY <1>7, BlankLineIsGap
<1>10. Gaps(r)
  BY <1>7, ResponseIsRemarks, RemarksAreGaps
<1>11. PICK l : l = LineOf(Some(Micros(c.at)), call[1])
  OBVIOUS
<1>12. IsList(b) /\ Len(b) = 1 /\ b[1] = l
  <2>1. 1 \in 1..n
    OBVIOUS
  <2>2. IsList(call[1]) /\ ~Mentions(call[1], NL)
    BY <1>4, <2>1
  <2>3. b = <<l>>
    BY <1>7, <1>11, <2>2, OneLineIs
  <2>4. PICK z : z = <<l>>
    OBVIOUS
  <2>5. IsList(z) /\ Len(z) = 1 /\ z[1] = l
    BY <2>4, TupleLengths, TupleFacts
  <2> QED
    BY <2>3, <2>4, <2>5
<1>13. IsList(t) /\ Len(t) = n - 1 /\ \A i \in 1..(n - 1) : t[i] = LineOf(None, call[i + 1])
  <2>1. \A i \in 1..(n - 1) : ~Mentions(tail[i], NL)
    <3>1. \A i \in 1..(n - 1) : i + 1 \in 1..n
      OBVIOUS
    <3> QED
      BY <1>4, <1>6, <3>1
  <2>2. PICK k : k = n - 1
    OBVIOUS
  <2>3. /\ IsList(t) /\ Len(t) = k /\ \A i \in 1..k : t[i] = LineOf(None, tail[i])
    BY <1>6, <1>7, <2>1, <2>2, UntimedOneLines
  <2> QED
    BY <1>6, <2>2, <2>3
<1>14. PICK u : u = b \o t
  OBVIOUS
<1>15. /\ IsList(u) /\ Len(u) = n /\ u[1] = l
       /\ \A i \in 2..n : u[i] = LineOf(None, call[i])
  <2>1. /\ IsList(u) /\ Len(u) = Len(b) + Len(t)
        /\ (\A j \in 1..Len(b) : u[j] = b[j]) /\ \A j \in 1..Len(t) : u[Len(b) + j] = t[j]
    <3>1. IsList(b) /\ IsList(t)
      BY <1>12, <1>13
    <3> QED
      BY <1>14, <3>1, ConcatAt
  <2>2. Len(u) = n /\ u[1] = l
    BY <1>12, <1>13, <2>1
  <2>3. ASSUME NEW i \in 2..n
        PROVE  u[i] = LineOf(None, call[i])
    <3>1. PICK j : j = i - 1
      OBVIOUS
    <3>2. j \in 1..(n - 1) /\ i = 1 + j /\ j + 1 = i
      BY <3>1
    <3>3. u[i] = t[j] /\ t[j] = LineOf(None, call[i])
      BY <1>12, <1>13, <2>1, <3>2
    <3> QED
      BY <3>3
  <2> QED
    BY <2>1, <2>2, <2>3
<1>16. u = Block(c)
  <2>1. PICK k : k = Block(c)
    OBVIOUS
  <2>2. /\ IsList(k) /\ Len(k) = n /\ k[1] = l
        /\ \A i \in 2..n : k[i] = LineOf(None, call[i])
    <3>1. n >= 1
      OBVIOUS
    <3> QED
      BY <1>1, <1>3, <1>4, <1>11, <2>1, <3>1, BlockIs
  <2>3. \A i \in 1..Len(u) : u[i] = k[i]
    <3>1. \A i \in 1..n : i = 1 \/ i \in 2..n
      OBVIOUS
    <3> QED
      BY <1>15, <2>2, <3>1
  <2>4. u = k
    BY <1>15, <2>2, <2>3, ListsEqual
  <2> QED
    BY <2>1, <2>4
<1>17. Woven(u, u, 0)
  <2>1. \A i \in 1..Len(u) : Matches(u[i], u[i])
    <3>1. Matches(l, l)
      BY <1>11, LineMatches
    <3>2. \A i \in 1..n : i = 1 \/ i \in 2..n
      OBVIOUS
    <3> QED
      BY <1>15, <3>1, <3>2, LineMatches
  <2>2. Loose(u)
    <3>1. call[1][1] = c.op
      BY <1>2 DEF CallShown, HeadBacks
    <3>2. c.op # SP
      BY OpsAreWords DEF IsCarriedCall, IsSentCall
    <3>3. u[1].text = call[1]
      BY <1>11, <1>15, LineMatches
    <3> QED
      BY <3>1, <3>2, <3>3 DEF Loose
  <2> QED
    BY <1>15, <2>1, <2>2, LinesAreWoven
<1>18. Woven(a, <<>>, 0) /\ Woven(r, <<>>, 0)
  BY <1>9, <1>10, GapsAreWoven
<1>19. PICK o : o = <<>>
  OBVIOUS
<1>20. o \o u = u /\ u \o o = u
  BY <1>15, <1>19, EmptyIsList
<1>21. PICK au : au = a \o u
  OBVIOUS
<1>22. Woven(au, u, 0)
  <2>1. Woven(a \o u, o \o u, 0)
    <3>1. Woven(a, o, 0) /\ 0 \in Nat
      BY <1>18, <1>19
    <3> QED
      BY <1>17, <3>1, WovenConcat
  <2> QED
    BY <1>20, <1>21, <2>1, Zenon
<1>23. Woven(au \o r, u, 0)
  <2>1. Woven(au \o r, u \o o, 0)
    <3>1. Woven(r, o, 0) /\ 0 \in Nat
      BY <1>18, <1>19
    <3> QED
      BY <1>22, <3>1, WovenConcat
  <2> QED
    BY <1>20, <2>1, Zenon
<1>24. (a \o b) \o t = au
  <2>1. IsList(a) /\ IsList(b) /\ IsList(t)
    BY <1>9, <1>12, <1>13 DEF Gaps
  <2>2. (a \o b) \o t = a \o (b \o t)
    BY <2>1, ConcatAssociates
  <2> QED
    BY <1>14, <1>21, <2>2
<1> QED
  BY <1>8, <1>16, <1>23, <1>24, Zenon

-----------------------------------------------------------------------------
(* The preamble.                                                           *)

Version == <<"1", ".", ToString(script.version)>>
VersionLine == Keyed("protocol", Version)
FeaturesLine == Keyed("features", FormatSet(script.features))
PreambleLines ==
  <<LineOf(None, VersionLine)>> \o <<LineOf(None, FeaturesLine)>> \o <<LineOf(None, <<"---">>)>>

LEMMA VersionIs ==
  ASSUME script \in Scripts
  PROVE  /\ Tight(Version) /\ Version # <<>> /\ ~Mentions(Version, NL) /\ ParseVersion(Version) = script.version
<1>1. PICK x, one, dot : x = ToString(script.version) /\ one = "1" /\ dot = "."
  OBVIOUS
<1>2. /\ script.version \in 0..255 /\ x \notin {SP, ".", NL}
      /\ \A v \in 0..255 : ToString(v) = x => v = script.version
  BY <1>1, ScriptsAssumption
<1>3. /\ one \notin {SP, NL} /\ dot \notin {SP, NL} /\ one # dot /\ x # dot
  BY <1>1, <1>2, Tokens
<1>4. PICK v : v = <<one, dot, x>>
  OBVIOUS
<1>5. v = Version
  BY <1>1, <1>4 DEF Version
<1>6. IsList(<<>>) /\ IsList(One(x)) /\ IsList(One(one))
  BY EmptyIsList, OneIs
<1>7. PICK xs : xs = One(x)
  OBVIOUS
<1>8. v = Onto(one, Onto(dot, xs)) /\ IsList(v)
  <2>1. <<one, dot, x>> \o <<>> = Onto(one, Onto(dot, Onto(x, <<>>)))
        /\ IsList(Onto(one, Onto(dot, Onto(x, <<>>))))
    BY <1>6, TripleOnto
  <2>2. IsList(<<one, dot, x>>)
    BY TupleLengths
  <2>3. <<one, dot, x>> \o <<>> = v
    BY <1>4, <2>2, EmptyIsList
  <2>4. Onto(x, <<>>) = One(x)
    BY <1>6, CatEmpty DEF Onto
  <2> QED
    BY <1>7, <2>1, <2>3, <2>4
<1>9. v = Around(One(one), dot, xs)
  BY <1>8 DEF Around, Onto
<1>10. /\ Len(v) = 3 /\ v[1] = one /\ v[3] = x
  BY <1>4
<1>11. Tight(v) /\ v # <<>>
  <2>1. v # <<>>
    BY <1>10
  <2>2. v[1] # SP /\ v[Len(v)] # SP
    BY <1>2, <1>3, <1>10
  <2> QED
    BY <1>8, <2>1, <2>2 DEF Tight
<1>12. ~Mentions(v, NL)
  <2>1. ~Mentions(xs, NL)
    BY <1>2, <1>7, OneMentions
  <2>2. PICK y : y = Onto(dot, xs)
    OBVIOUS
  <2>3. IsList(y) /\ ~Mentions(y, NL)
    BY <1>3, <1>6, <1>7, <2>1, <2>2, OntoMentions, OntoIs
  <2> QED
    BY <1>3, <1>8, <2>2, <2>3, OntoMentions
<1>13. PICK p : p = Split(v, ".")
  OBVIOUS
<1>14. p = Onto(One(one), One(xs))
  <2>1. ~Mentions(One(one), dot) /\ ~Mentions(xs, dot)
    BY <1>3, <1>7, OneMentions
  <2>2. PICK r : r = Split(xs, dot)
    OBVIOUS
  <2>3. Split(v, dot) = Onto(One(one), r)
    BY <1>6, <1>7, <1>9, <2>1, <2>2, SplitOnto
  <2>4. r = <<xs>>
    BY <1>6, <1>7, <2>1, <2>2, SplitIs
  <2>5. r = One(xs)
    BY <2>4 DEF One
  <2> QED
    BY <1>1, <1>13, <2>3, <2>5
<1>15. Len(p) = 2 /\ p[2] = <<x>>
  <2>1. PICK r : r = One(xs)
    OBVIOUS
  <2>2. IsList(r) /\ Len(r) = 1 /\ r[1] = xs
    BY <2>1, OneIs
  <2>3. p = Onto(One(one), r)
    BY <1>14, <2>1
  <2>4. Len(p) = 1 + Len(r) /\ \A j \in 1..Len(r) : p[1 + j] = r[j]
    <3>1. IsList(r)
      BY <2>2
    <3> QED
      BY <2>3, <3>1, OntoIs
  <2>5. 1 \in 1..Len(r) /\ 1 + 1 = 2
    BY <2>2
  <2>6. Len(p) = 2 /\ p[2] = xs
    BY <2>2, <2>4, <2>5
  <2> QED
    BY <1>7, <2>6 DEF One
<1>16. \A w : p[2] = <<ToString(w)>> <=> ToString(w) = x
  BY <1>15
<1>17. script.version \in 0..255 /\ p[2] = <<ToString(script.version)>>
  BY <1>1, <1>2, <1>15
<1>18. \A w \in 0..255 : p[2] = <<ToString(w)>> => w = script.version
  BY <1>2, <1>16
<1>19. (CHOOSE w \in 0..255 : p[2] = <<ToString(w)>>) = script.version
  BY <1>17, <1>18, Zenon
<1>20. ParseVersion(v) = script.version
  BY <1>13, <1>15, <1>17, <1>19, Zenon DEF ParseVersion
<1> QED
  BY <1>5, <1>11, <1>12, <1>20

LEMMA FeaturesAre ==
  ASSUME script \in Scripts, PreambleLegible, NEW f, f = FormatSet(script.features)
  PROVE  Tight(f) /\ f # <<>> /\ ~Mentions(f, NL) /\ ParseFeatures(f) = script.features
<1>1. PICK ss : ss = script.features
  OBVIOUS
<1>2. ss \in Seq(Seq(STRING))
  BY <1>1, ScriptsAssumption
<1>3. IsLines(ss) /\ IsList(ss) /\ DOMAIN ss = 1..Len(ss)
  BY <1>2, StringsAreList, ListFacts DEF IsLines
<1>4. \A i \in 1..Len(ss) : ss[i] # <<>> /\ Whole(ss[i]) /\ ~Mentions(ss[i], COMMA)
  BY <1>1, <1>3 DEF PreambleLegible
<1>5. ss # << <<>> >>
  <2>1. PICK e : e = << <<>> >>
    OBVIOUS
  <2>2. Len(e) = 1 /\ e[1] = <<>>
    BY <2>1, TupleFacts
  <2> SUFFICES ASSUME ss = e
               PROVE  FALSE
    BY <2>1
  <2>3. 1 \in 1..Len(ss)
    BY <2>2
  <2>4. ss[1] # <<>>
    BY <1>4, <2>3
  <2> QED
    BY <2>2, <2>4
<1>6. Listable(ss)
  BY <1>4, <1>5 DEF Listable, Without, Whole
<1>7. PICK body : SetBody(ss, body)
  BY <1>3, <1>6, SetShape
<1>8. ~Mentions(body, NL)
  <2>1. Without(ss, NL)
    BY <1>4 DEF Without, Whole, OneLine
  <2>2. NL \notin {SP, COMMA}
    BY Tokens
  <2> QED
    BY <1>7, <2>1, <2>2 DEF SetBody
<1>9. Solid(f)
  BY <1>1, <1>7, <1>8, SetIsSolid
<1>10. ParseFeatures(f) = ss
  BY <1>1, <1>3, <1>4, <1>7, ParseFeaturesBack
<1> QED
  BY <1>1, <1>9, <1>10 DEF Solid

\* The three lines of the preamble, as the parser sees them.
PreambleSays(u, key, value) ==
  /\ Firm(u) /\ Trim(u)[1] = key /\ Trim(u) # <<"---">>
  /\ Trim(Upto(Trim(u), ":")) = <<key>> /\ Trim(Beyond(Trim(u), ":")) = value

LEMMA KeyedSays ==
  ASSUME NEW key, key \in {"protocol", "features"}, NEW v, Tight(v), v # <<>>, ~Mentions(v, NL),
         NEW u, u = Keyed(key, v)
  PROVE  PreambleSays(u, key, v)
<1>1. key \notin {SP, NL, ":", "#", "expect", "---"}
  <2>1. key \notin {SP, NL}
    BY Tokens
  <2> QED
    BY <2>1
<1>2. /\ IsList(u) /\ Tight(u) /\ u # <<>> /\ u[1] = key
      /\ Trim(Upto(u, ":")) = One(key) /\ Trim(Beyond(u, ":")) = v
  BY <1>1, KeyedLine
<1>3. Trim(u) = u
  BY <1>2, TrimTight
<1>4. ~Mentions(u, NL)
  <2>1. PICK y : y = ":"
    OBVIOUS
  <2>2. y # NL /\ SP # NL
    BY <2>1, Tokens
  <2>3. PICK t, w : t = Onto(SP, v) /\ w = Onto(y, t)
    OBVIOUS
  <2>4. IsList(v) /\ IsList(t) /\ ~Mentions(t, NL)
    BY <2>2, <2>3, OntoMentions, TrimSpace DEF Tight
  <2>5. IsList(w) /\ ~Mentions(w, NL)
    BY <2>2, <2>3, <2>4, OntoMentions, OntoIs
  <2>6. u = Onto(key, w)
    BY <2>1, <2>3 DEF Keyed
  <2> QED
    BY <1>1, <2>5, <2>6, OntoMentions
<1>5. u # <<"---">>
  <2>1. <<"---">>[1] = "---"
    OBVIOUS
  <2> QED
    BY <1>1, <1>2, <2>1
<1>6. Firm(u)
  BY <1>1, <1>2, <1>3, <1>4 DEF Firm
<1> QED
  BY <1>2, <1>3, <1>5, <1>6 DEF PreambleSays, One

LEMMA RuleIs ==
  /\ Firm(<<"---">>) /\ Trim(<<"---">>) = <<"---">>
<1>1. PICK d : d = "---"
  OBVIOUS
<1>2. d \notin {SP, NL, "#", "expect"}
  <2>1. d \notin {SP, NL}
    BY <1>1, Tokens
  <2> QED
    BY <1>1, <2>1
<1>3. Tight(One(d)) /\ Trim(One(d)) = One(d) /\ One(d) # <<>> /\ IsList(One(d)) /\ One(d)[1] = d
  BY <1>2, OneTight, OneIs
<1>4. ~Mentions(One(d), NL)
  BY <1>2, OneMentions
<1>5. PICK u : u = One(d)
  OBVIOUS
<1>6. Firm(u)
  BY <1>2, <1>3, <1>4, <1>5 DEF Firm
<1> QED
  BY <1>1, <1>3, <1>5, <1>6 DEF One

-----------------------------------------------------------------------------

LEMMA NotesAreGaps ==
  ASSUME NEW ss, IsLines(ss), \A i \in 1..Len(ss) : Gaps(Lines(None, ss[i]))
  PROVE  Gaps(Untimed(ss))
<1>1. PICK n : n = Len(ss)
  OBVIOUS
<1>2. PICK f : /\ IsLines(f) /\ Len(f) = n /\ Untimed(ss) = FlattenSeq(f)
               /\ \A i \in 1..n : f[i] = Lines(None, ss[i])
  BY <1>1, UntimedIs
<1>3. \A i \in 1..Len(f) : Gaps(f[i])
  BY <1>1, <1>2
<1> QED
  BY <1>2, <1>3, FlattenGaps

LEMMA OptionIsLines ==
  ASSUME NEW opt, NEW ss, opt = None => ss = <<>>,
         opt # None => \E u : ss = <<u>> /\ IsList(u) /\ Gaps(Lines(None, u))
  PROVE  IsLines(ss) /\ Gaps(Untimed(ss))
<1>1. CASE opt = None
  <2>1. IsList(ss) /\ Len(ss) = 0
    BY <1>1, EmptyIsList
  <2>2. IsLines(ss)
    BY <2>1 DEF IsLines
  <2>3. \A i \in 1..Len(ss) : Gaps(Lines(None, ss[i]))
    BY <2>1
  <2> QED
    BY <2>2, <2>3, NotesAreGaps
<1>2. CASE opt # None
  <2>1. PICK u : ss = <<u>> /\ IsList(u) /\ Gaps(Lines(None, u))
    BY <1>2
  <2>2. IsList(ss) /\ Len(ss) = 1 /\ ss[1] = u
    BY <2>1, TupleLengths, TupleFacts
  <2>3. IsLines(ss)
    BY <2>1, <2>2 DEF IsLines
  <2>4. \A i \in 1..Len(ss) : Gaps(Lines(None, ss[i]))
    BY <2>1, <2>2
  <2> QED
    BY <2>3, <2>4, NotesAreGaps
<1> QED
  BY <1>1, <1>2

LEMMA HashWords ==
  ASSUME NEW a, NEW b, a # NL, b # NL, a # "nwscript"
  PROVE  /\ Hashed(<<"#", SP, a>>) /\ Hashed(<<"#", SP, a, b, SP>>)
         /\ IsList(<<"#", SP, a>>) /\ IsList(<<"#", SP, a, b, SP>>)
<1>1. PICK h : h = "#"
  OBVIOUS
<1>2. h # NL /\ SP # NL
  BY <1>1, Tokens
<1>3. PICK p, q : p = <<h, SP, a>> /\ q = <<h, SP, a, b, SP>>
  OBVIOUS
<1>4. /\ IsList(p) /\ Len(p) = 3 /\ p[1] = h /\ p[2] = SP /\ p[3] = a /\ DOMAIN p = 1..3 /\ p # <<>>
  <2>1. IsList(p) /\ Len(p) = 3
    BY <1>3, TupleLengths
  <2>2. DOMAIN p = 1..3
    BY <2>1, ListFacts
  <2> QED
    BY <1>3, <2>1, <2>2
<1>5. /\ IsList(q) /\ Len(q) = 5 /\ q[1] = h /\ q[2] = SP /\ q[3] = a /\ q[4] = b /\ q[5] = SP
      /\ DOMAIN q = 1..5 /\ q # <<>>
  <2>1. IsList(q) /\ Len(q) = 5
    BY <1>3, TupleLengths
  <2>2. DOMAIN q = 1..5
    BY <2>1, ListFacts
  <2> QED
    BY <1>3, <2>1, <2>2
<1>6. ~Mentions(p, NL) /\ ~Mentions(q, NL)
  <2>1. \A i \in 1..3 : p[i] # NL
    BY <1>2, <1>4
  <2>2. \A i \in 1..5 : q[i] # NL
    BY <1>2, <1>5
  <2> QED
    BY <1>4, <1>5, <2>1, <2>2 DEF Mentions
<1>7. Hashed(p) /\ Hashed(q)
  <2>1. Len(p) >= 3 /\ Len(q) >= 3
    BY <1>4, <1>5
  <2> QED
    BY <1>1, <1>4, <1>5, <1>6, <2>1, HashBegins
<1> QED
  BY <1>1, <1>3, <1>4, <1>5, <1>7

LEMMA NotedGaps ==
  ASSUME NEW p, Hashed(p), NEW x, IsList(x), NoteSurvives(x)
  PROVE  IsList(p \o x) /\ Gaps(Lines(None, p \o x))
<1>1. PICK u : u = Cat(p, x)
  OBVIOUS
<1>2. IsList(p)
  BY DEF Hashed
<1>3. IsList(u)
  BY <1>1, <1>2, CatIs
<1>4. Gaps(Lines(None, u))
  BY <1>1, NoteGaps
<1> QED
  BY <1>1, <1>3, <1>4 DEF Cat

LEMMA NothingSurvives == NoteSurvives(<<>>)
<1>1. PICK q : q = Split(<<>>, NL)
  OBVIOUS
<1>2. Len(q) = 1
  BY <1>1, SplitEmpty, OneIs
<1>3. \A i \in 2..Len(q) : Trim(q[i]) = <<>>
  BY <1>2
<1> QED
  BY <1>1, <1>3 DEF NoteSurvives

LEMMA OneIsWoven ==
  ASSUME NEW u, Firm(u), u[1] # SP
  PROVE  Woven(Lines(None, u), <<LineOf(None, u)>>, 0)
<1>1. PICK l, t : l = LineOf(None, u) /\ t = <<l>>
  OBVIOUS
<1>2. Lines(None, u) = t
  BY <1>1, OneLineIs DEF Firm
<1>3. IsList(t) /\ Len(t) = 1 /\ t[1] = l
  BY <1>1, TupleLengths, TupleFacts
<1>4. Matches(l, l)
  BY <1>1, LineMatches
<1>5. \A i \in 1..Len(t) : Matches(t[i], t[i])
  BY <1>3, <1>4
<1>6. Woven(t, t, 0)
  <2>1. Loose(t)
    BY <1>1, <1>3, LineMatches DEF Loose
  <2> QED
    BY <1>3, <1>5, <2>1, LinesAreWoven
<1> QED
  BY <1>1, <1>2, <1>6

\* The header is a note that no function may meet but the first.
LEMMA HeaderIsWoven ==
  ASSUME NEW u, u = <<"#", SP, "nwscript">>
  PROVE  Woven(Lines(None, u), <<>>, 1)
<1>1. PICK h, w : h = "#" /\ w = "nwscript"
  OBVIOUS
<1>2. h # SP /\ h # NL /\ w # SP /\ w # NL /\ SP # NL
  BY <1>1, Tokens DEF SP, NL
<1>3. IsList(u) /\ Len(u) = 3 /\ u[1] = h /\ u[2] = SP /\ u[3] = w
  <2>1. u = <<h, SP, w>>
    BY <1>1
  <2> QED
    BY <2>1, TupleLengths
<1>4. Tight(u) /\ u # <<>>
  <2>1. u # <<>>
    BY <1>3, EmptyIsList
  <2> QED
    BY <1>2, <1>3, <2>1 DEF Tight
<1>5. ~Mentions(u, NL)
  <2>1. DOMAIN u = 1..3
    BY <1>3, ListFacts
  <2>2. \A i \in 1..3 : i = 1 \/ i = 2 \/ i = 3
    OBVIOUS
  <2> QED
    BY <1>2, <1>3, <2>1, <2>2 DEF Mentions
<1>6. Trim(u) = u
  BY <1>3, <1>4, TrimTight
<1>7. PICK l, t : l = LineOf(None, u) /\ t = Lines(None, u)
  OBVIOUS
<1>8. IsList(t) /\ Len(t) = 1 /\ t[1] = l
  <2>1. t = <<l>>
    BY <1>3, <1>5, <1>7, OneLineIs
  <2> QED
    BY <2>1, TupleLengths, TupleFacts
<1>9. IsGap(l) /\ Hash(l)
  <2>1. Trim(u)[1] = "#" /\ Trim(u)[1] \in {"#", "expect"}
    BY <1>1, <1>3, <1>6
  <2>2. IsGap(l)
    BY <1>3, <1>7, <2>1, GapIs
  <2>3. l.text = u
    BY <1>7, LineMatches
  <2> QED
    BY <2>1, <2>2, <2>3 DEF Hash
<1>10. PICK n : n = [i \in 0..1 |-> 0]
  OBVIOUS
<1>11. n[0] = 0 /\ n[1] = 0
  BY <1>10
<1>12. IsList(<<>>) /\ Len(<<>>) = 0
  BY EmptyIsList
<1>13. \A i \in 1..Len(t) : i = 1 /\ i - 1 = 0
  BY <1>8
<1>14. \A i \in 0..Len(t) : n[i] = 0
  BY <1>8, <1>10
<1>15. WovenBy(t, <<>>, n)
  <2>1. \A i \in 0..Len(t) : n[i] \in 0..Len(<<>>)
    BY <1>12, <1>14
  <2>2. \A i \in 1..Len(t) : n[i] = n[i - 1] /\ IsGap(t[i])
    BY <1>8, <1>9, <1>11, <1>13
  <2> QED
    BY <1>8, <1>11, <1>12, <2>1, <2>2 DEF WovenBy
<1>16. Snug(t, <<>>, n, 1)
  <2>1. \A i \in 1..Len(t) : n[i] = Len(<<>>) /\ i <= 1 /\ n[i] = 0 /\ Hash(t[i])
    BY <1>8, <1>9, <1>11, <1>12, <1>13
  <2> QED
    BY <2>1 DEF Snug
<1>17. n[Len(t)] = Len(<<>>)
  BY <1>8, <1>11, <1>12
<1>18. Loose(<<>>)
  BY <1>12 DEF Loose
<1> QED
  BY <1>7, <1>15, <1>16, <1>17, <1>18 DEF Woven

LEMMA TupleConcats ==
  ASSUME NEW a, NEW b, NEW c
  PROVE  <<a, b>> = <<a>> \o <<b>> /\ <<a, b, c>> = (<<a>> \o <<b>>) \o <<c>>
<1>1. <<a>> \o <<b>> = <<a, b>>
  BY PairConcat
<1>2. <<a, b>> \o <<c>> = <<a, b, c>>
  <2>1. PICK x, y, z : x = <<a, b>> /\ y = <<c>> /\ z = <<a, b, c>>
    OBVIOUS
  <2>2. /\ IsList(x) /\ Len(x) = 2 /\ x[1] = a /\ x[2] = b
        /\ IsList(y) /\ Len(y) = 1 /\ y[1] = c
        /\ IsList(z) /\ Len(z) = 3 /\ z[1] = a /\ z[2] = b /\ z[3] = c
    BY <2>1, TupleLengths
  <2>3. PICK u : u = x \o y
    OBVIOUS
  <2>4. /\ IsList(u) /\ Len(u) = Len(x) + Len(y)
        /\ (\A j \in 1..Len(x) : u[j] = x[j]) /\ \A j \in 1..Len(y) : u[Len(x) + j] = y[j]
    <3>1. IsList(x) /\ IsList(y)
      BY <2>2
    <3> QED
      BY <2>3, <3>1, ConcatAt
  <2>5. Len(u) = 3 /\ u[1] = a /\ u[2] = b
    BY <2>2, <2>4
  <2>6. u[3] = c
    <3>1. 1 \in 1..Len(y) /\ 2 + 1 = 3
      BY <2>2
    <3> QED
      BY <2>2, <2>4, <3>1
  <2>7. \A i \in 1..Len(u) : u[i] = z[i]
    <3>1. \A i \in 1..3 : i = 1 \/ i = 2 \/ i = 3
      OBVIOUS
    <3> QED
      BY <2>2, <2>5, <2>6, <3>1
  <2>8. u = z
    BY <2>2, <2>4, <2>5, <2>7, ListsEqual
  <2> QED
    BY <2>1, <2>3, <2>8
<1>3. (<<a>> \o <<b>>) \o <<c>> = <<a, b, c>>
  <2>1. PICK x, y : x = <<a>> \o <<b>> /\ y = <<a, b>>
    OBVIOUS
  <2>2. x = y /\ y \o <<c>> = <<a, b, c>>
    BY <1>1, <1>2, <2>1
  <2> QED
    BY <2>1, <2>2, Zenon
<1> QED
  BY <1>1, <1>3

-----------------------------------------------------------------------------

LEMMA SixConcat ==
  ASSUME NEW a, NEW b, NEW c, NEW d, NEW e, NEW f
  PROVE  <<a, b, c, d, e, f>> = <<a, b, c>> \o <<d, e, f>>
<1>1. PICK x, y, z : x = <<a, b, c>> /\ y = <<d, e, f>> /\ z = <<a, b, c, d, e, f>>
  OBVIOUS
<1>2. /\ IsList(x) /\ Len(x) = 3 /\ x[1] = a /\ x[2] = b /\ x[3] = c
      /\ IsList(y) /\ Len(y) = 3 /\ y[1] = d /\ y[2] = e /\ y[3] = f
  BY <1>1, TupleLengths
<1>3. /\ IsList(z) /\ Len(z) = 6 /\ z[1] = a /\ z[2] = b /\ z[3] = c
      /\ z[4] = d /\ z[5] = e /\ z[6] = f
  BY <1>1, TuplesAreLists
<1>4. PICK u : u = x \o y
  OBVIOUS
<1>5. /\ IsList(u) /\ Len(u) = Len(x) + Len(y)
      /\ (\A j \in 1..Len(x) : u[j] = x[j]) /\ \A j \in 1..Len(y) : u[Len(x) + j] = y[j]
  <2>1. IsList(x) /\ IsList(y)
    BY <1>2
  <2> QED
    BY <1>4, <2>1, ConcatAt
<1>6. Len(u) = 6 /\ u[1] = a /\ u[2] = b /\ u[3] = c
  BY <1>2, <1>5
<1>7. u[4] = d /\ u[5] = e /\ u[6] = f
  <2>1. 1 \in 1..Len(y) /\ 2 \in 1..Len(y) /\ 3 \in 1..Len(y) /\ 3 + 1 = 4 /\ 3 + 2 = 5 /\ 3 + 3 = 6
    BY <1>2
  <2> QED
    BY <1>2, <1>5, <2>1
<1>8. \A i \in 1..Len(u) : u[i] = z[i]
  <2>1. \A i \in 1..6 : i = 1 \/ i = 2 \/ i = 3 \/ i = 4 \/ i = 5 \/ i = 6
    OBVIOUS
  <2> QED
    BY <1>3, <1>6, <1>7, <2>1
<1>9. u = z
  BY <1>3, <1>5, <1>6, <1>8, ListsEqual
<1> QED
  BY <1>1, <1>4, <1>9

LEMMA KeyedIs ==
  ASSUME NEW key, NEW v, IsList(v)
  PROVE  <<key, ":", SP>> \o v = Keyed(key, v)
BY TripleOnto DEF Keyed

LEMMA KeyedBegins ==
  ASSUME NEW key, NEW v, IsList(v)
  PROVE  Keyed(key, v)[1] = key
<1>1. PICK a, b : b = Onto(SP, v) /\ a = Onto(":", b)
  OBVIOUS
<1>2. IsList(b)
  BY <1>1, OntoIs
<1>3. IsList(a)
  BY <1>1, <1>2, OntoIs
<1>4. Onto(key, a)[1] = key
  BY <1>3, OntoIs
<1> QED
  BY <1>1, <1>4 DEF Keyed

LEMMA PreambleSpeaks ==
  ASSUME script \in Scripts, PreambleLegible
  PROVE  /\ PreambleSays(VersionLine, "protocol", Version)
         /\ PreambleSays(FeaturesLine, "features", FormatSet(script.features))
         /\ Firm(VersionLine) /\ Firm(FeaturesLine) /\ Firm(<<"---">>)
<1>1. PreambleSays(VersionLine, "protocol", Version)
  BY VersionIs, KeyedSays DEF VersionLine
<1>2. PreambleSays(FeaturesLine, "features", FormatSet(script.features))
  <2>1. PICK f : f = FormatSet(script.features)
    OBVIOUS
  <2>2. Tight(f) /\ f # <<>> /\ ~Mentions(f, NL)
    BY <2>1, FeaturesAre
  <2>3. PICK key : key = "features"
    OBVIOUS
  <2>4. PreambleSays(Keyed(key, f), key, f)
    BY <2>2, <2>3, KeyedSays
  <2> QED
    BY <2>1, <2>3, <2>4 DEF FeaturesLine
<1> QED
  BY <1>1, <1>2, RuleIs DEF PreambleSays

LEMMA PreambleLinesAre ==
  /\ IsList(PreambleLines) /\ Len(PreambleLines) = 3
  /\ PreambleLines[1] = LineOf(None, VersionLine)
  /\ PreambleLines[2] = LineOf(None, FeaturesLine)
  /\ PreambleLines[3] = LineOf(None, <<"---">>)
<1>1. PICK a, b, c : /\ a = LineOf(None, VersionLine) /\ b = LineOf(None, FeaturesLine)
                     /\ c = LineOf(None, <<"---">>)
  OBVIOUS
<1>2. PreambleLines = (<<a>> \o <<b>>) \o <<c>>
  BY <1>1 DEF PreambleLines
<1>3. PreambleLines = <<a, b, c>>
  BY <1>2, TupleConcats
<1>4. PICK t : t = <<a, b, c>>
  OBVIOUS
<1>5. IsList(t) /\ Len(t) = 3 /\ t[1] = a /\ t[2] = b /\ t[3] = c
  BY <1>4, TupleLengths
<1> QED
  BY <1>1, <1>3, <1>4, <1>5

LEMMA PreambleWoven ==
  ASSUME script \in Scripts, PreambleLegible
  PROVE  Woven(FormatPreamble(script), PreambleLines, 1)
<1>1. PICK l1, l2, l3, d, t, l6, l7, server :
        /\ l1 = <<"#", SP, "nwscript">>
        /\ l2 = <<"protocol", ":", SP, "1", ".", ToString(script.version)>>
        /\ l3 = <<"features", ":", SP>> \o FormatSet(script.features)
        /\ d = Maybe(script.daemon, LAMBDA x : <<"#", SP, "daemon", ":", SP>> \o x)
        /\ t = Maybe(script.trust, LAMBDA x : <<"#", SP, "trust", ":", SP, x>>)
        /\ l6 = <<"#", SP, "server_features", ":", SP>> \o FormatSet(script.server_features)
        /\ l7 = <<"---">>
        /\ server = FormatSet(script.server_features)
  OBVIOUS
<1>2. FormatPreamble(script) = Untimed(((<<l1, l2, l3>> \o d) \o t) \o <<l6, l7>>)
  BY <1>1 DEF FormatPreamble
<1>3. /\ {script.features, script.server_features} \subseteq Seq(Seq(STRING))
      /\ IsOption(script.daemon, Seq(STRING))
  BY ScriptsAssumption
<1>4. IsList(FormatSet(script.features)) /\ IsList(server)
  BY <1>1, <1>3, StringsAreList, SetIsList
<1>5. /\ "daemon" # "nwscript" /\ "trust" # "nwscript" /\ "server_features" # "nwscript"
      /\ "daemon" # NL /\ "trust" # NL /\ "server_features" # NL
      /\ ":" # NL
  BY Tokens DEF NL
<1>6. /\ l2 = VersionLine /\ l3 = FeaturesLine
      /\ Firm(l2) /\ Firm(l3) /\ Firm(l7)
  <2>1. l2 = <<"protocol", ":", SP>> \o Version
    <3>1. PICK h, c, one, dot, v : /\ h = "protocol" /\ c = ":" /\ one = "1" /\ dot = "."
                                   /\ v = ToString(script.version)
      OBVIOUS
    <3>2. <<h, c, SP, one, dot, v>> = <<h, c, SP>> \o <<one, dot, v>>
      BY SixConcat
    <3>3. Version = <<one, dot, v>>
      BY <3>1 DEF Version
    <3>4. l2 = <<h, c, SP, one, dot, v>>
      BY <1>1, <3>1
    <3>5. l2 = <<h, c, SP>> \o Version
      BY <3>2, <3>3, <3>4, Zenon
    <3> QED
      BY <3>1, <3>5
  <2>2. IsList(Version)
    BY VersionIs DEF Tight
  <2>3. l2 = VersionLine
    BY <2>1, <2>2, KeyedIs DEF VersionLine
  <2>4. l3 = FeaturesLine
    BY <1>1, <1>4, KeyedIs DEF FeaturesLine
  <2> QED
    BY <1>1, <2>3, <2>4, PreambleSpeaks
<1>7. IsList(l1) /\ IsList(l2) /\ IsList(l3) /\ IsList(l7)
  BY <1>1, <1>6, TupleLengths DEF Firm
<1>8. Woven(Lines(None, l1), <<>>, 1) /\ l2[1] # SP /\ l3[1] # SP /\ l7[1] # SP
  <2>1. Woven(Lines(None, l1), <<>>, 1)
    BY <1>1, HeaderIsWoven
  <2>2. l2[1] = "protocol" /\ l3[1] = "features"
    <3>1. IsList(Version) /\ IsList(FormatSet(script.features))
      BY <1>4, VersionIs DEF Tight
    <3> QED
      BY <1>6, <3>1, KeyedBegins DEF VersionLine, FeaturesLine
  <2>3. l7[1] = "---"
    BY <1>1
  <2> QED
    BY <2>1, <2>2, <2>3 DEF SP
<1>9. IsLines(d) /\ Gaps(Untimed(d))
  <2>1. script.daemon = None => d = <<>>
    BY <1>1 DEF Maybe
  <2>2. ASSUME script.daemon # None
        PROVE  \E u : d = <<u>> /\ IsList(u) /\ Gaps(Lines(None, u))
    <3>1. PICK x, p : x = script.daemon[1] /\ p = <<"#", SP, "daemon", ":", SP>>
      OBVIOUS
    <3>2. d = <<p \o x>>
      BY <1>1, <2>2, <3>1 DEF Maybe
    <3>3. IsList(x) /\ NoteSurvives(x)
      BY <1>3, <2>2, <3>1, OptionList, StringsAreList DEF PreambleLegible
    <3>4. Hashed(p)
      BY <1>5, <3>1, HashWords
    <3>5. IsList(p \o x) /\ Gaps(Lines(None, p \o x))
      BY <3>3, <3>4, NotedGaps
    <3> QED
      BY <3>2, <3>5
  <2> QED
    BY <2>1, <2>2, OptionIsLines
<1>10. IsLines(t) /\ Gaps(Untimed(t))
  <2>1. script.trust = None => t = <<>>
    BY <1>1 DEF Maybe
  <2>2. ASSUME script.trust # None
        PROVE  \E u : t = <<u>> /\ IsList(u) /\ Gaps(Lines(None, u))
    <3>1. PICK w, p, x : w = script.trust[1] /\ p = <<"#", SP, "trust", ":", SP>> /\ x = One(w)
      OBVIOUS
    <3>2. t = << <<"#", SP, "trust", ":", SP, w>> >>
      BY <1>1, <2>2, <3>1 DEF Maybe
    <3>3. IsList(x) /\ NoteSurvives(x)
      BY <3>1, WordSurvives
    <3>4. Hashed(p) /\ IsList(p)
      BY <1>5, <3>1, HashWords
    <3>5. IsList(p \o x) /\ Gaps(Lines(None, p \o x))
      BY <3>3, <3>4, NotedGaps
    <3>6. p \o x = <<"#", SP, "trust", ":", SP, w>>
      <4>1. PICK y, z : y = p \o x /\ z = <<"#", SP, "trust", ":", SP, w>>
        OBVIOUS
      <4>2. PICK h, k, c : h = "#" /\ k = "trust" /\ c = ":"
        OBVIOUS
      <4>3. IsList(p) /\ Len(p) = 5 /\ p[1] = h /\ p[2] = SP /\ p[3] = k /\ p[4] = c /\ p[5] = SP
        <5>1. p = <<h, SP, k, c, SP>>
          BY <3>1, <4>2
        <5> QED
          BY <5>1, TupleLengths
      <4>4. /\ IsList(z) /\ Len(z) = 6 /\ z[1] = h /\ z[2] = SP /\ z[3] = k /\ z[4] = c
            /\ z[5] = SP /\ z[6] = w
        <5>1. z = <<h, SP, k, c, SP, w>>
          BY <4>1, <4>2
        <5> QED
          BY <5>1, TuplesAreLists
      <4>5. IsList(x) /\ Len(x) = 1 /\ x[1] = w
        BY <3>1, OneIs
      <4>6. /\ IsList(y) /\ Len(y) = Len(p) + Len(x)
            /\ (\A j \in 1..Len(p) : y[j] = p[j]) /\ \A j \in 1..Len(x) : y[Len(p) + j] = x[j]
        <5>1. IsList(p) /\ IsList(x)
          BY <4>3, <4>5
        <5> QED
          BY <4>1, <5>1, ConcatAt
      <4>7. Len(y) = 6 /\ y[1] = h /\ y[2] = SP /\ y[3] = k /\ y[4] = c /\ y[5] = SP
        BY <4>3, <4>5, <4>6
      <4>8. y[6] = w
        <5>1. 1 \in 1..Len(x) /\ 5 + 1 = 6
          BY <4>5
        <5> QED
          BY <4>3, <4>5, <4>6, <5>1
      <4>9. \A i \in 1..Len(y) : y[i] = z[i]
        <5>1. \A i \in 1..6 : i = 1 \/ i = 2 \/ i = 3 \/ i = 4 \/ i = 5 \/ i = 6
          OBVIOUS
        <5> QED
          BY <4>4, <4>7, <4>8, <5>1
      <4>10. y = z
        BY <4>4, <4>6, <4>7, <4>9, ListsEqual
      <4> QED
        BY <4>1, <4>10
    <3> QED
      BY <3>2, <3>5, <3>6
  <2> QED
    BY <2>1, <2>2, OptionIsLines
<1>11. IsList(l6) /\ Gaps(Lines(None, l6))
  <2>1. NoteSurvives(server)
    BY <1>1 DEF PreambleLegible
  <2>2. PICK p : p = <<"#", SP, "server_features", ":", SP>>
    OBVIOUS
  <2>3. Hashed(p)
    BY <1>5, <2>2, HashWords
  <2>4. IsList(p \o server) /\ Gaps(Lines(None, p \o server))
    BY <1>4, <2>1, <2>3, NotedGaps
  <2>5. l6 = p \o server
    BY <1>1, <2>2
  <2> QED
    BY <2>4, <2>5
<1>12. PICK a, e, a1, a2, a3, a12, e1, e2 :
         /\ a = <<l1, l2, l3>> /\ e = <<l6, l7>>
         /\ a1 = <<l1>> /\ a2 = <<l2>> /\ a3 = <<l3>> /\ e1 = <<l6>> /\ e2 = <<l7>>
         /\ a12 = a1 \o a2
  OBVIOUS
<1>13. a = a12 \o a3 /\ e = e1 \o e2
  <2>1. a = (<<l1>> \o <<l2>>) \o <<l3>>
    BY <1>12, TupleConcats, Zenon
  <2>2. e = <<l6>> \o <<l7>>
    BY <1>12, TupleConcats, Zenon
  <2> QED
    BY <1>12, <2>1, <2>2, Zenon
<1>14. IsLines(a1) /\ IsLines(a2) /\ IsLines(a3) /\ IsLines(e1) /\ IsLines(e2)
  BY <1>7, <1>11, <1>12, OneLineIsLines
<1>15. IsLines(a12)
  BY <1>12, <1>14, LinesConcat
<1>16. IsLines(a) /\ IsLines(e)
  BY <1>13, <1>14, <1>15, LinesConcat
<1>17. PICK ad, adt, all : ad = a \o d /\ adt = ad \o t /\ all = adt \o e
  OBVIOUS
<1>18. IsLines(ad) /\ IsLines(adt)
  <2>1. IsLines(ad)
    BY <1>9, <1>16, <1>17, LinesConcat
  <2> QED
    BY <1>10, <1>17, <2>1, LinesConcat
<1>19. /\ Untimed(all) = Untimed(adt) \o Untimed(e)
       /\ Untimed(adt) = Untimed(ad) \o Untimed(t)
       /\ Untimed(ad) = Untimed(a) \o Untimed(d)
       /\ Untimed(a) = Untimed(a12) \o Untimed(a3)
       /\ Untimed(a12) = Untimed(a1) \o Untimed(a2)
       /\ Untimed(e) = Untimed(e1) \o Untimed(e2)
  <2>1. Untimed(all) = Untimed(adt) \o Untimed(e)
    BY <1>16, <1>17, <1>18, UntimedConcat
  <2>2. Untimed(adt) = Untimed(ad) \o Untimed(t)
    BY <1>10, <1>17, <1>18, UntimedConcat
  <2>3. Untimed(ad) = Untimed(a) \o Untimed(d)
    BY <1>9, <1>16, <1>17, UntimedConcat
  <2>4. Untimed(a) = Untimed(a12) \o Untimed(a3)
    BY <1>13, <1>14, <1>15, UntimedConcat
  <2>5. Untimed(a12) = Untimed(a1) \o Untimed(a2)
    BY <1>12, <1>14, UntimedConcat
  <2>6. Untimed(e) = Untimed(e1) \o Untimed(e2)
    BY <1>13, <1>14, UntimedConcat
  <2> QED
    BY <2>1, <2>2, <2>3, <2>4, <2>5, <2>6
<1>20. PICK p1, p2, p3 : /\ p1 = <<LineOf(None, l2)>> /\ p2 = <<LineOf(None, l3)>>
                         /\ p3 = <<LineOf(None, l7)>>
  OBVIOUS
<1>21. IsList(p1) /\ IsList(p2) /\ IsList(p3)
  BY <1>20, TupleLengths
<1>22. Woven(Untimed(a1), <<>>, 1) /\ Woven(Untimed(a2), p1, 0) /\ Woven(Untimed(a3), p2, 0)
  <2>1. Untimed(a1) = Lines(None, l1) /\ Untimed(a2) = Lines(None, l2) /\ Untimed(a3) = Lines(None, l3)
    BY <1>7, <1>12, UntimedOne
  <2>2. Woven(Lines(None, l2), p1, 0)
    BY <1>6, <1>8, <1>20, OneIsWoven
  <2>3. Woven(Lines(None, l3), p2, 0)
    BY <1>6, <1>8, <1>20, OneIsWoven
  <2> QED
    BY <1>8, <2>1, <2>2, <2>3, Zenon
<1>23. Woven(Untimed(e1), <<>>, 0) /\ Woven(Untimed(e2), p3, 0)
  <2>1. Untimed(e1) = Lines(None, l6) /\ Untimed(e2) = Lines(None, l7)
    BY <1>7, <1>11, <1>12, UntimedOne
  <2>2. Woven(Lines(None, l6), <<>>, 0)
    BY <1>11, GapsAreWoven
  <2>3. Woven(Lines(None, l7), p3, 0)
    BY <1>6, <1>8, <1>20, OneIsWoven
  <2> QED
    BY <2>1, <2>2, <2>3, Zenon
<1>24. Woven(Untimed(d), <<>>, 0) /\ Woven(Untimed(t), <<>>, 0)
  BY <1>9, <1>10, GapsAreWoven
<1>25. Woven(Untimed(a12), p1, 1)
  <2>1. Woven(Untimed(a1) \o Untimed(a2), <<>> \o p1, 1)
    BY <1>22, WovenConcat
  <2>2. <<>> \o p1 = p1
    BY <1>21, EmptyIsList
  <2> QED
    BY <1>19, <2>1, <2>2, Zenon
<1>26. PICK p12 : p12 = p1 \o p2
  OBVIOUS
<1>27. Woven(Untimed(a), p12, 1) /\ IsList(p12)
  <2>1. Woven(Untimed(a12) \o Untimed(a3), p1 \o p2, 1)
    BY <1>22, <1>25, WovenConcat
  <2>2. IsList(p12)
    BY <1>21, <1>26, ListConcat
  <2> QED
    BY <1>19, <1>26, <2>1, <2>2, Zenon
<1>28. p12 \o <<>> = p12
  BY <1>27, EmptyIsList
<1>29. Woven(Untimed(ad), p12, 1)
  <2>1. Woven(Untimed(a) \o Untimed(d), p12 \o <<>>, 1)
    BY <1>24, <1>27, WovenConcat
  <2> QED
    BY <1>19, <1>28, <2>1, Zenon
<1>30. Woven(Untimed(adt), p12, 1)
  <2>1. Woven(Untimed(ad) \o Untimed(t), p12 \o <<>>, 1)
    BY <1>24, <1>29, WovenConcat
  <2> QED
    BY <1>19, <1>28, <2>1, Zenon
<1>31. Woven(Untimed(e), p3, 0)
  <2>1. Woven(Untimed(e1) \o Untimed(e2), <<>> \o p3, 0)
    BY <1>23, WovenConcat
  <2>2. <<>> \o p3 = p3
    BY <1>21, EmptyIsList
  <2> QED
    BY <1>19, <2>1, <2>2, Zenon
<1>32. Woven(Untimed(all), p12 \o p3, 1)
  <2>1. Woven(Untimed(adt) \o Untimed(e), p12 \o p3, 1)
    BY <1>30, <1>31, WovenConcat
  <2> QED
    BY <1>19, <2>1, Zenon
<1>33. p12 \o p3 = PreambleLines
  BY <1>1, <1>6, <1>20, <1>26 DEF PreambleLines
<1>34. FormatPreamble(script) = Untimed(all)
  BY <1>2, <1>12, <1>17
<1> QED
  BY <1>32, <1>33, <1>34, Zenon

-----------------------------------------------------------------------------
(* The lines of the whole text that the parser takes something from.       *)

Blocks(W) == [k \in DOMAIN script.entries |-> Block(Written(W, k))]
Plan(W) == PreambleLines \o FlattenSeq(Blocks(W))
Size(W, k) == Len(FormatCall(Written(W, k)))
Total == Len(script.entries)

\* off[k] of them are those of the preamble and of the first k calls.
Offsets(W, plan, off) ==
  /\ plan = Plan(W) /\ IsList(plan) /\ Total \in Nat
  /\ off[0] = 3 /\ off[Total] = Len(plan)
  /\ \A k \in 0..Total : off[k] \in Nat /\ off[k] >= 3 /\ off[k] <= Len(plan)
  /\ \A i \in 1..3 : plan[i] = PreambleLines[i]
  /\ \A k \in 1..Total :
       /\ Size(W, k) \in Nat \ {0} /\ off[k] = off[k - 1] + Size(W, k)
       /\ \A j \in 1..Size(W, k) : plan[off[k - 1] + j] = Block(Written(W, k))[j]

LEMMA SizeIs ==
  ASSUME script \in Scripts, AllLegible, NEW W \in SUBSET Large, NEW k \in 1..Total
  PROVE  /\ IsCarriedCall(Written(W, k)) /\ IsList(FormatCall(Written(W, k)))
         /\ Size(W, k) \in Nat \ {0} /\ IsList(Block(Written(W, k)))
         /\ Len(Block(Written(W, k))) = Size(W, k)
         /\ CallShown(Written(W, k), FormatCall(Written(W, k)))
<1>1. k \in DOMAIN script.entries
  BY EntriesAre DEF Total
<1>2. Legible(script.entries[k])
  BY <1>1 DEF AllLegible
<1>3. PICK w, u : w = Written(W, k) /\ u = FormatCall(w)
  OBVIOUS
<1>4. IsCarriedCall(w)
  BY <1>1, <1>2, <1>3, WrittenIsCarried
<1>5. CallShown(w, u)
  BY <1>3, <1>4, CallShows
<1>6. IsList(u) /\ Len(u) \in Nat \ {0}
  BY <1>5 DEF CallShown
<1>7. IsList(Block(w)) /\ Len(Block(w)) = Len(u)
  BY <1>3, <1>6, BlockIs
<1> QED
  BY <1>3, <1>4, <1>5, <1>6, <1>7 DEF Size

LEMMA BlocksAre ==
  ASSUME script \in Scripts, AllLegible, NEW W \in SUBSET Large, NEW b, b = Blocks(W)
  PROVE  /\ IsLines(b) /\ Len(b) = Total /\ Total \in Nat
         /\ \A k \in 1..Total : b[k] = Block(Written(W, k))
<1>1. Total \in Nat /\ DOMAIN script.entries = 1..Total
  BY EntriesAre DEF Total
<1>2. b = [k \in 1..Total |-> Block(Written(W, k))]
  BY <1>1 DEF Blocks
<1>3. b = [k \in 1..Total |-> b[k]]
  BY <1>2
<1>4. IsList(b) /\ Len(b) = Total
  BY <1>1, <1>3, ListMade
<1>5. \A k \in 1..Total : b[k] = Block(Written(W, k))
  BY <1>2
<1>6. \A k \in 1..Total : IsList(b[k])
  BY <1>5, SizeIs
<1> QED
  BY <1>1, <1>4, <1>5, <1>6 DEF IsLines

LEMMA PlanIs ==
  ASSUME script \in Scripts, AllLegible, NEW W \in SUBSET Large
  PROVE  \E off : Offsets(W, Plan(W), off)
<1>1. PICK b, plan, pre : b = Blocks(W) /\ plan = Plan(W) /\ pre = PreambleLines
  OBVIOUS
<1>2. PICK n \in Nat : n = Total
  BY <1>1, BlocksAre
<1>3. IsLines(b) /\ Len(b) = n /\ \A k \in 1..n : b[k] = Block(Written(W, k))
  BY <1>1, <1>2, BlocksAre
<1>4. PICK g : MadeOf(b, g) /\ FlattenSeq(b) = g[n]
  BY <1>3, FlattenByParts
<1>5. plan = pre \o g[n] /\ IsList(pre) /\ Len(pre) = 3
  BY <1>1, <1>4, PreambleLinesAre DEF Plan
<1>6. /\ g[0] = <<>> /\ (\A i \in 1..n : g[i] = g[i - 1] \o b[i])
      /\ \A i \in 0..n : IsList(g[i]) /\ Len(g[i]) \in Nat
  BY <1>3, <1>4 DEF MadeOf
<1>7. PICK r : r = g[n]
  OBVIOUS
<1>8. IsList(r) /\ Len(r) \in Nat
  <2>1. n \in 0..n
    OBVIOUS
  <2> QED
    BY <1>6, <1>7, <2>1
<1>9. /\ IsList(plan) /\ Len(plan) = 3 + Len(r)
      /\ (\A j \in 1..3 : plan[j] = pre[j]) /\ \A j \in 1..Len(r) : plan[3 + j] = r[j]
  <2>1. IsList(pre) /\ IsList(r)
    BY <1>5, <1>8
  <2>2. plan = pre \o r
    BY <1>5, <1>7
  <2>3. /\ IsList(plan) /\ Len(plan) = Len(pre) + Len(r)
        /\ (\A j \in 1..Len(pre) : plan[j] = pre[j]) /\ \A j \in 1..Len(r) : plan[Len(pre) + j] = r[j]
    BY <2>1, <2>2, ConcatAt
  <2> QED
    BY <1>5, <2>3
<1>10. PICK off : off = [k \in 0..n |-> 3 + Len(g[k])]
  OBVIOUS
<1>11. \A k \in 0..n : off[k] = 3 + Len(g[k])
  BY <1>10
<1>12. off[0] = 3 /\ off[n] = Len(plan)
  <2>1. 0 \in 0..n /\ n \in 0..n /\ Len(g[0]) = 0
    BY <1>6, EmptyIsList
  <2> QED
    BY <1>7, <1>9, <1>11, <2>1
<1>13. ASSUME NEW k \in 0..n
       PROVE  off[k] \in Nat /\ off[k] >= 3 /\ off[k] <= Len(plan)
  <2>1. off[k] = 3 + Len(g[k]) /\ Len(g[k]) \in Nat
    BY <1>6, <1>11
  <2>2. Len(g[k]) <= Len(r)
    BY <1>3, <1>4, <1>7, PartsPlaced
  <2> QED
    BY <1>8, <1>9, <2>1, <2>2
<1>14. ASSUME NEW k \in 1..n
       PROVE  /\ Size(W, k) \in Nat \ {0} /\ off[k] = off[k - 1] + Size(W, k)
              /\ \A j \in 1..Size(W, k) : plan[off[k - 1] + j] = Block(Written(W, k))[j]
  <2>1. PICK m : m = k - 1
    OBVIOUS
  <2>2. m \in 0..n /\ k \in 0..n /\ k = m + 1
    BY <2>1
  <2>3. PICK s : s = Size(W, k)
    OBVIOUS
  <2>4. s \in Nat \ {0} /\ IsList(b[k]) /\ Len(b[k]) = s
    BY <1>2, <1>3, <2>3, SizeIs
  <2>5. PICK x, y : x = g[m] /\ y = b[k]
    OBVIOUS
  <2>6. g[k] = x \o y /\ IsList(x) /\ IsList(y)
    BY <1>6, <2>1, <2>2, <2>4, <2>5
  <2>7. Len(g[k]) = Len(x) + Len(y) /\ Len(x) \in Nat
    BY <2>6, ConcatAt
  <2>8. off[k] = 3 + Len(g[k]) /\ off[m] = 3 + Len(x)
    BY <1>11, <2>2, <2>5
  <2>9. Placed(r, Len(x), Len(g[k]), y)
    BY <1>3, <1>4, <1>7, <2>1, <2>5, PartAt
  <2>10. ASSUME NEW j \in 1..s
         PROVE  plan[off[m] + j] = y[j]
    <3>1. j \in 1..Len(y) /\ Len(g[k]) <= Len(r) /\ r[Len(x) + j] = y[j]
      BY <2>4, <2>5, <2>9 DEF Placed
    <3>2. Len(x) + j \in 1..Len(r)
      BY <1>8, <2>4, <2>5, <2>7, <3>1
    <3>3. plan[3 + (Len(x) + j)] = r[Len(x) + j]
      BY <1>9, <3>2
    <3>4. off[m] + j = 3 + (Len(x) + j)
      BY <2>7, <2>8
    <3> QED
      BY <3>1, <3>3, <3>4
  <2>11. off[k] = off[m] + s
    BY <2>4, <2>5, <2>7, <2>8
  <2>12. y = Block(Written(W, k))
    BY <1>3, <2>5
  <2> QED
    BY <2>1, <2>3, <2>4, <2>10, <2>11, <2>12
<1>15. Offsets(W, plan, off)
  BY <1>1, <1>2, <1>9, <1>12, <1>13, <1>14 DEF Offsets
<1> QED
  BY <1>1, <1>15

LEMMA WrittenAnswers ==
  ASSUME script \in Scripts, NEW W \in SUBSET Large, NEW k \in DOMAIN script.entries
  PROVE  IsWritable(Written(W, k)) /\ Written(W, k).response = script.entries[k].response
<1>1. PICK e, w : e = script.entries[k] /\ w = Written(W, k)
  OBVIOUS
<1>2. IsWritable(w) /\ w.response = e.response
  BY <1>1, WrittenIs
<1> QED
  BY <1>1, <1>2

\* What unpack has written is made of these lines.
LEMMA TextWoven ==
  ASSUME script \in Scripts, AllLegible, NEW W \in SUBSET Large
  PROVE  Woven(FormatPreamble(script) \o FlattenSeq(EntryTexts(W)), Plan(W), 1)
<1>1. PICK f, b : f = EntryTexts(W) /\ b = Blocks(W)
  OBVIOUS
<1>2. IsLines(f) /\ Len(f) = Total /\ \A k \in 1..Total : f[k] = FormatEntry(Written(W, k))
  BY <1>1, EntryTextsAre DEF Total
<1>3. IsLines(b) /\ Len(b) = Total /\ Total \in Nat /\ \A k \in 1..Total : b[k] = Block(Written(W, k))
  BY <1>1, BlocksAre
<1>4. ASSUME NEW k \in 1..Total
      PROVE  Woven(f[k], b[k], 0)
  <2>1. PICK w, e : w = Written(W, k) /\ e = script.entries[k]
    OBVIOUS
  <2>2. k \in DOMAIN script.entries
    BY EntriesAre DEF Total
  <2>3. IsCarriedCall(w)
    BY <2>1, SizeIs
  <2>4. IsWritable(w) /\ w.response = e.response
    BY <2>1, <2>2, WrittenAnswers
  <2>5. Legible(e)
    BY <2>1, <2>2 DEF AllLegible
  <2>6. IsResponse(w.response)
    BY <2>4 DEF IsWritable
  <2>7. \A i \in 1..Len(FormatResponse(w.response)) : NoteSurvives(FormatResponse(w.response)[i])
    <3>1. PICK r : r = FormatResponse(w.response)
      OBVIOUS
    <3>2. DOMAIN r = 1..Len(r)
      BY <2>6, <3>1, ResponseIsLines, ListFacts DEF IsLines
    <3>3. \A i \in DOMAIN r : NoteSurvives(r[i])
      BY <2>4, <2>5, <3>1 DEF Legible
    <3> QED
      BY <3>1, <3>2, <3>3
  <2>8. Woven(FormatEntry(w), Block(w), 0)
    BY <2>3, <2>6, <2>7, EntryWoven
  <2> QED
    BY <1>2, <1>3, <2>1, <2>8
<1>5. Woven(FlattenSeq(f), FlattenSeq(b), 0)
  BY <1>2, <1>3, <1>4, FlattenWoven
<1>6. Woven(FormatPreamble(script), PreambleLines, 1)
  BY PreambleWoven DEF AllLegible
<1>7. Woven(FormatPreamble(script) \o FlattenSeq(f), PreambleLines \o FlattenSeq(b), 1)
  BY <1>5, <1>6, WovenConcat
<1> QED
  BY <1>1, <1>7 DEF Plan

-----------------------------------------------------------------------------
(* What its user does leaves it so.                                        *)

LEMMA PlaceOf ==
  ASSUME NEW W, NEW plan, NEW off, Offsets(W, plan, off), NEW c \in 1..Len(plan)
  PROVE  c \in 1..3 \/ \E k \in 1..Total : \E j \in 1..Size(W, k) : c = off[k - 1] + j
<1>1. PICK n \in Nat : n = Total
  BY DEF Offsets
<1> DEFINE Here == \E k \in 1..n : \E j \in 1..Size(W, k) : c = off[k - 1] + j
           G == {m \in 0..n : c <= off[m] => c \in 1..3 \/ Here}
<1>2. 0 \in G
  BY DEF Offsets
<1>3. ASSUME NEW m \in 0..(n - 1), m \in G
      PROVE  m + 1 \in G
  <2>1. PICK k : k = m + 1
    OBVIOUS
  <2>2. k \in 1..n /\ k - 1 = m /\ k \in 0..n /\ m \in 0..n
    BY <2>1
  <2>3. /\ off[m] \in Nat /\ off[k] \in Nat /\ Size(W, k) \in Nat \ {0}
        /\ off[k] = off[m] + Size(W, k)
    BY <1>1, <2>2 DEF Offsets
  <2>4. CASE c <= off[m]
    BY <1>3, <2>1, <2>2, <2>4
  <2>5. CASE ~(c <= off[m]) /\ c <= off[k]
    <3>1. PICK j : j = c - off[m]
      OBVIOUS
    <3>2. j \in 1..Size(W, k) /\ c = off[m] + j
      BY <2>3, <2>5, <3>1
    <3>3. c = off[k - 1] + j
      BY <2>2, <3>2
    <3>4. Here
      BY <2>2, <3>2, <3>3
    <3> QED
      BY <2>1, <2>2, <3>4
  <2>6. CASE ~(c <= off[k])
    BY <2>1, <2>2, <2>6
  <2> QED
    BY <2>4, <2>5, <2>6
<1>4. \A m \in 0..n : m \in G
  <2> HIDE DEF G
  <2> QED
    BY <1>2, <1>3, Induction
<1>5. n \in G /\ c <= off[n]
  <2>1. n \in G
    BY <1>4
  <2>2. off[n] = Len(plan)
    BY <1>1 DEF Offsets
  <2> QED
    BY <2>1, <2>2
<1> QED
  BY <1>1, <1>5

\* None of these lines is empty, a comment or an expectation.
LEMMA PlanIsFirm ==
  ASSUME script \in Scripts, AllLegible, NEW W \in SUBSET Large,
         NEW plan, NEW off, Offsets(W, plan, off), NEW c \in 1..Len(plan)
  PROVE  Firm(plan[c].text)
<1>1. CASE c \in 1..3
  <2>1. PreambleLegible
    BY DEF AllLegible
  <2>2. Firm(VersionLine) /\ Firm(FeaturesLine) /\ Firm(<<"---">>)
    BY <2>1, PreambleSpeaks
  <2>3. plan[c] = PreambleLines[c]
    BY <1>1 DEF Offsets
  <2>4. PICK d : d = <<"---">>
    OBVIOUS
  <2>5. /\ PreambleLines[1].text = VersionLine /\ PreambleLines[2].text = FeaturesLine
        /\ PreambleLines[3].text = d
    BY <2>4, PreambleLinesAre, LineMatches
  <2>6. c = 1 \/ c = 2 \/ c = 3
    BY <1>1
  <2> QED
    BY <2>2, <2>3, <2>4, <2>5, <2>6
<1>2. ASSUME NEW k \in 1..Total, NEW j \in 1..Size(W, k), c = off[k - 1] + j
      PROVE  Firm(plan[c].text)
  <2>1. PICK w, u, b : w = Written(W, k) /\ u = FormatCall(w) /\ b = Block(w)
    OBVIOUS
  <2>2. plan[c] = b[j]
    BY <1>2, <2>1 DEF Offsets
  <2>3. IsList(u) /\ Size(W, k) = Len(u) /\ Len(u) \in Nat \ {0} /\ CallShown(w, u)
    BY <2>1, SizeIs DEF Size
  <2>4. b[j].text = u[j]
    <3>1. /\ Len(u) >= 1 => b[1] = LineOf(Some(Micros(w.at)), u[1])
          /\ \A i \in 2..Len(u) : b[i] = LineOf(None, u[i])
      BY <2>1, <2>3, BlockIs
    <3>2. j = 1 \/ j \in 2..Len(u)
      BY <2>3
    <3>3. Len(u) >= 1
      BY <2>3
    <3> QED
      BY <3>1, <3>2, <3>3, LineMatches
  <2>5. Firm(u[j])
    BY <2>3 DEF CallShown
  <2> QED
    BY <2>2, <2>4, <2>5
<1> QED
  BY <1>1, <1>2, PlaceOf

LEMMA WovenPointwise ==
  ASSUME NEW t, NEW b, NEW n, WovenBy(t, b, n), NEW u, IsList(u), Len(u) = Len(t),
         \A i \in 1..Len(t) :
           /\ IsGap(t[i]) => IsGap(u[i])
           /\ \A c \in 1..Len(b) : Matches(t[i], b[c]) => Matches(u[i], b[c])
  PROVE  WovenBy(u, b, n)
<1>1. PICK T \in Nat, B \in Nat : T = Len(t) /\ B = Len(b)
  BY ListFacts DEF WovenBy
<1>2. /\ IsList(b) /\ n[0] = 0 /\ (\A i \in 0..T : n[i] \in 0..B)
      /\ \A i \in 1..T : \/ n[i] = n[i - 1] /\ IsGap(t[i])
                         \/ n[i] = n[i - 1] + 1 /\ Matches(t[i], b[n[i]])
  BY <1>1 DEF WovenBy
<1>3. ASSUME NEW i \in 1..T
      PROVE  \/ n[i] = n[i - 1] /\ IsGap(u[i])
             \/ n[i] = n[i - 1] + 1 /\ Matches(u[i], b[n[i]])
  <2>1. CASE n[i] = n[i - 1] /\ IsGap(t[i])
    BY <1>1, <2>1
  <2>2. CASE n[i] = n[i - 1] + 1 /\ Matches(t[i], b[n[i]])
    <3>1. i \in 0..T /\ i - 1 \in 0..T
      OBVIOUS
    <3>2. n[i] \in 1..B
      BY <1>2, <2>2, <3>1
    <3> QED
      BY <1>1, <2>2, <3>2
  <2> QED
    BY <1>2, <2>1, <2>2
<1> QED
  BY <1>1, <1>2, <1>3 DEF WovenBy

\* A line put in between.
LEMMA InsertedIs ==
  ASSUME NEW t, IsList(t), NEW i \in 1..(Len(t) + 1), NEW x, NEW u, u = InsertAt(t, i, x)
  PROVE  /\ IsList(u) /\ Len(u) = Len(t) + 1 /\ Len(t) \in Nat /\ u[i] = x
         /\ \A j \in 1..(i - 1) : u[j] = t[j]
         /\ \A j \in i..Len(t) : u[j + 1] = t[j]
<1>1. PICK n \in Nat : n = Len(t)
  BY ListFacts
<1>2. PICK a, b, o : a = SubSeq(t, 1, i - 1) /\ b = SubSeq(t, i, Len(t)) /\ o = <<x>>
  OBVIOUS
<1>3. IsList(a) /\ Len(a) = i - 1 /\ \A j \in 1..(i - 1) : a[j] = t[j]
  <2>1. 1 \in 1..(Len(t) + 1) /\ i - 1 \in 0..Len(t)
    BY <1>1
  <2>2. PICK e : e = i - 1
    OBVIOUS
  <2>3. /\ IsList(SubSeq(t, 1, e)) /\ Len(SubSeq(t, 1, e)) = IF 1 <= e THEN e - 1 + 1 ELSE 0
        /\ \A j \in 1..(e - 1 + 1) : SubSeq(t, 1, e)[j] = t[1 + j - 1]
    BY <2>1, <2>2, PieceOf
  <2>4. e \in Nat /\ e - 1 + 1 = e /\ \A j \in 1..e : 1 + j - 1 = j
    BY <1>1, <2>2
  <2> QED
    BY <1>2, <2>2, <2>3, <2>4
<1>4. IsList(b) /\ Len(b) = n - i + 1 /\ \A j \in 1..(n - i + 1) : b[j] = t[i + j - 1]
  <2>1. i \in 1..(Len(t) + 1) /\ Len(t) \in 0..Len(t)
    BY <1>1
  <2>2. /\ IsList(b) /\ Len(b) = IF i <= n THEN n - i + 1 ELSE 0
        /\ \A j \in 1..(n - i + 1) : b[j] = t[i + j - 1]
    BY <1>1, <1>2, <2>1, PieceOf
  <2> QED
    BY <1>1, <2>2
<1>5. IsList(o) /\ Len(o) = 1 /\ o[1] = x
  BY <1>2, TupleLengths, TupleFacts
<1>6. PICK ao : ao = a \o o
  OBVIOUS
<1>7. /\ IsList(ao) /\ Len(ao) = Len(a) + Len(o)
      /\ (\A j \in 1..Len(a) : ao[j] = a[j]) /\ \A j \in 1..Len(o) : ao[Len(a) + j] = o[j]
  <2>1. IsList(a) /\ IsList(o)
    BY <1>3, <1>5
  <2> QED
    BY <1>6, <2>1, ConcatAt
<1>8. /\ Len(ao) = i /\ ao[i] = x /\ \A j \in 1..(i - 1) : ao[j] = t[j]
  <2>1. Len(ao) = i
    BY <1>1, <1>3, <1>5, <1>7
  <2>2. 1 \in 1..Len(o) /\ (i - 1) + 1 = i
    BY <1>1, <1>5
  <2>3. ao[i] = x
    BY <1>3, <1>5, <1>7, <2>2
  <2> QED
    BY <1>3, <1>7, <2>1, <2>3
<1>9. u = ao \o b
  BY <1>2, <1>6 DEF InsertAt
<1>10. /\ IsList(u) /\ Len(u) = Len(ao) + Len(b)
       /\ (\A j \in 1..Len(ao) : u[j] = ao[j]) /\ \A j \in 1..Len(b) : u[Len(ao) + j] = b[j]
  <2>1. IsList(ao) /\ IsList(b)
    BY <1>4, <1>7
  <2> QED
    BY <1>9, <2>1, ConcatAt
<1>11. Len(u) = n + 1 /\ u[i] = x /\ \A j \in 1..(i - 1) : u[j] = t[j]
  <2>1. i \in 1..Len(ao) /\ \A j \in 1..(i - 1) : j \in 1..Len(ao)
    BY <1>1, <1>8
  <2> QED
    BY <1>1, <1>4, <1>8, <1>10, <2>1
<1>12. ASSUME NEW j \in i..n
       PROVE  u[j + 1] = t[j]
  <2>1. PICK d : d = j - i + 1
    OBVIOUS
  <2>2. d \in 1..(n - i + 1) /\ i + d = j + 1 /\ i + d - 1 = j
    BY <1>1, <2>1
  <2>3. u[i + d] = b[d] /\ b[d] = t[i + d - 1]
    BY <1>4, <1>8, <1>10, <2>2
  <2> QED
    BY <2>2, <2>3
<1> QED
  BY <1>1, <1>10, <1>11, <1>12

LEMMA InsertWoven ==
  ASSUME NEW t, NEW b, NEW n, WovenBy(t, b, n), NEW i \in 1..(Len(t) + 1), NEW x, IsGap(x),
         NEW u, u = InsertAt(t, i, x)
  PROVE  \E m : WovenBy(u, b, m) /\ m[Len(u)] = n[Len(t)]
<1>1. PICK T \in Nat, B \in Nat : T = Len(t) /\ B = Len(b)
  BY ListFacts DEF WovenBy
<1>2. /\ IsList(t) /\ IsList(b) /\ n[0] = 0 /\ (\A k \in 0..T : n[k] \in 0..B)
      /\ \A k \in 1..T : \/ n[k] = n[k - 1] /\ IsGap(t[k])
                         \/ n[k] = n[k - 1] + 1 /\ Matches(t[k], b[n[k]])
  BY <1>1 DEF WovenBy
<1>3. /\ IsList(u) /\ Len(u) = T + 1 /\ u[i] = x
      /\ (\A j \in 1..(i - 1) : u[j] = t[j]) /\ \A j \in i..T : u[j + 1] = t[j]
  BY <1>1, <1>2, InsertedIs
<1>4. PICK m : m = [k \in 0..(T + 1) |-> IF k < i THEN n[k] ELSE n[k - 1]]
  OBVIOUS
<1>5. (\A k \in 0..(i - 1) : m[k] = n[k]) /\ \A k \in i..(T + 1) : m[k] = n[k - 1]
  <2>1. \A k \in 0..(i - 1) : k \in 0..(T + 1) /\ k < i
    BY <1>1
  <2>2. \A k \in i..(T + 1) : k \in 0..(T + 1) /\ ~(k < i)
    BY <1>1
  <2> QED
    BY <1>4, <2>1, <2>2
<1>6. m[0] = 0 /\ m[T + 1] = n[T]
  <2>1. 0 \in 0..(i - 1) /\ T + 1 \in i..(T + 1) /\ (T + 1) - 1 = T
    BY <1>1
  <2> QED
    BY <1>2, <1>5, <2>1
<1>7. ASSUME NEW k \in 0..(T + 1)
      PROVE  m[k] \in 0..B
  <2>1. CASE k < i
    <3>1. k \in 0..(i - 1) /\ k \in 0..T
      BY <1>1, <2>1
    <3> QED
      BY <1>2, <1>5, <3>1
  <2>2. CASE ~(k < i)
    <3>1. k \in i..(T + 1) /\ k - 1 \in 0..T
      BY <1>1, <2>2
    <3> QED
      BY <1>2, <1>5, <3>1
  <2> QED
    BY <2>1, <2>2
<1>8. ASSUME NEW k \in 1..(T + 1)
      PROVE  \/ m[k] = m[k - 1] /\ IsGap(u[k])
             \/ m[k] = m[k - 1] + 1 /\ Matches(u[k], b[m[k]])
  <2>1. CASE k < i
    <3>1. k \in 0..(i - 1) /\ k - 1 \in 0..(i - 1) /\ k \in 1..(i - 1) /\ k \in 1..T
      BY <1>1, <2>1
    <3>2. m[k] = n[k] /\ m[k - 1] = n[k - 1] /\ u[k] = t[k]
      BY <1>3, <1>5, <3>1
    <3> QED
      BY <1>2, <3>1, <3>2
  <2>2. CASE k = i
    <3>1. k \in i..(T + 1) /\ k - 1 \in 0..(i - 1)
      BY <1>1, <2>2
    <3>2. m[k] = n[k - 1] /\ m[k - 1] = n[k - 1] /\ u[k] = x
      BY <1>3, <1>5, <2>2, <3>1
    <3> QED
      BY <3>2
  <2>3. CASE k > i
    <3>1. PICK j : j = k - 1
      OBVIOUS
    <3>2. j \in i..T /\ j \in 1..T /\ k = j + 1 /\ k \in i..(T + 1) /\ j \in i..(T + 1)
      BY <1>1, <2>3, <3>1
    <3>3. m[k] = n[j] /\ m[j] = n[j - 1] /\ u[k] = t[j]
      BY <1>3, <1>5, <3>1, <3>2
    <3> QED
      BY <1>2, <3>1, <3>2, <3>3
  <2> QED
    BY <1>1, <2>1, <2>2, <2>3
<1>9. WovenBy(u, b, m)
  BY <1>1, <1>2, <1>3, <1>6, <1>7, <1>8 DEF WovenBy
<1> QED
  BY <1>1, <1>3, <1>6, <1>9

-----------------------------------------------------------------------------

LEMMA ThirdBegins ==
  ASSUME NEW u, IsList(u), Len(u) >= 3, u[1] = SP, u[2] = SP, u[3] # SP
  PROVE  Trim(u) # <<>> /\ Trim(u)[1] = u[3]
<1>1. Len(u) \in Nat
  BY ListFacts
<1>2. 3 \in 1..Len(u) /\ \A i \in 1..(3 - 1) : u[i] = SP
  <2>1. \A i \in 1..(3 - 1) : i = 1 \/ i = 2
    OBVIOUS
  <2> QED
    BY <1>1, <2>1
<1>3. PICK a : a = 3
  OBVIOUS
<1>4. Trim(u) # <<>> /\ Trim(u)[1] = u[a]
  BY <1>2, <1>3, TrimBegins
<1> QED
  BY <1>3, <1>4

LEMMA InsertedAreGaps ==
  ASSUME NEW u \in Inserted
  PROVE  IsGap(LineOf(None, u))
<1>1. PICK h, x : h = "#" /\ x = "expect"
  OBVIOUS
<1>2. h # SP /\ x # SP
  BY <1>1 DEF SP
<1>3. CASE u = <<>>
  <2>1. IsList(u) /\ Trim(u) = <<>>
    BY <1>3, BlankOnes, TrimBlank, EmptyIsList
  <2> QED
    BY <2>1, GapIs
<1>4. CASE \E a : u = <<h, SP, a>>
  <2>1. IsList(u) /\ Len(u) = 3 /\ u[1] = h
    BY <1>4, TupleLengths
  <2>2. u # <<>>
    BY <2>1, EmptyIsList
  <2>3. Trim(u)[1] = h
    BY <1>2, <2>1, <2>2, TrimStarts
  <2>4. Trim(u)[1] \in {"#", "expect"}
    BY <1>1, <2>3
  <2> QED
    BY <2>1, <2>4, GapIs
<1>5. CASE u = <<SP, SP, h, SP, "a">>
  <2>1. PICK a : a = "a"
    OBVIOUS
  <2>2. u = <<SP, SP, h, SP, a>>
    BY <1>5, <2>1
  <2>3. IsList(u) /\ Len(u) = 5 /\ u[1] = SP /\ u[2] = SP /\ u[3] = h
    BY <2>2, TupleLengths
  <2>4. Trim(u)[1] = h
    <3>1. Len(u) >= 3 /\ u[3] # SP
      BY <1>2, <2>3
    <3> QED
      BY <2>3, <3>1, ThirdBegins
  <2>5. Trim(u)[1] \in {"#", "expect"}
    BY <1>1, <2>4
  <2> QED
    BY <2>3, <2>5, GapIs
<1>6. CASE u = <<SP, SP, x, SP, "a", ":">>
  <2>1. PICK a, c : a = "a" /\ c = ":"
    OBVIOUS
  <2>2. u = <<SP, SP, x, SP, a, c>>
    BY <1>6, <2>1
  <2>3. IsList(u) /\ Len(u) = 6 /\ u[1] = SP /\ u[2] = SP /\ u[3] = x
    BY <2>2, TuplesAreLists
  <2>4. Trim(u)[1] = x
    <3>1. Len(u) >= 3 /\ u[3] # SP
      BY <1>2, <2>3
    <3> QED
      BY <2>3, <3>1, ThirdBegins
  <2>5. Trim(u)[1] \in {"#", "expect"}
    BY <1>1, <2>4
  <2> QED
    BY <2>3, <2>5, GapIs
<1>7. \/ u = <<>> \/ u = <<h, SP, "a">> \/ u = <<SP, SP, h, SP, "a">>
      \/ u = <<h, SP, "nwscript">> \/ u = <<SP, SP, x, SP, "a", ":">>
  BY <1>1 DEF Inserted
<1> QED
  BY <1>3, <1>4, <1>5, <1>6, <1>7

\* A comment made into an expectation is one.
LEMMA ConvertedIsGap ==
  ASSUME NEW u, IsList(u), IsConvertible(u)
  PROVE  /\ IsList(Converted(u)) /\ Trim(Converted(u)) # <<>>
         /\ Trim(Converted(u))[1] = "expect"
<1>1. PICK h, x : h = "#" /\ x = "expect"
  OBVIOUS
<1>2. h # SP /\ x # SP
  BY <1>1 DEF SP
<1>3. Trim(u) # <<>> /\ Trim(u)[1] = h
  BY <1>1 DEF IsConvertible, IsComment, StartsWith
<1>4. PICK a, b : Ink(u, a, b)
  BY <1>3, TrimCases
<1>5. /\ a \in 1..Len(u) /\ b \in 1..Len(u) /\ a <= b /\ Len(u) \in Nat
      /\ \A i \in 1..Len(u) : i < a \/ i > b => u[i] = SP
  BY <1>4, ListFacts DEF Ink
<1>6. u[a] = h
  <2>1. Trim(u) = SubSeq(u, a, b)
    BY <1>4, TrimIs
  <2>2. SubSeq(u, a, b)[1] = u[a]
    <3>1. a \in 1..(Len(u) + 1) /\ b \in 0..Len(u)
      BY <1>5
    <3>2. \A i \in 1..(b - a + 1) : SubSeq(u, a, b)[i] = u[a + i - 1]
      BY <3>1, PieceOf
    <3>3. 1 \in 1..(b - a + 1) /\ a + 1 - 1 = a
      BY <1>5
    <3>4. SubSeq(u, a, b)[1] = u[a + 1 - 1]
      BY <3>2, <3>3
    <3> QED
      BY <3>3, <3>4
  <2> QED
    BY <1>3, <2>1, <2>2
<1>7. \A i \in 1..(a - 1) : u[i] = SP
  <2>1. \A i \in 1..(a - 1) : i \in 1..Len(u) /\ i < a
    BY <1>5
  <2> QED
    BY <1>5, <2>1
<1>8. Index(u, h) = a
  <2>1. \A i \in 1..(a - 1) : u[i] # h
    BY <1>2, <1>7
  <2> QED
    BY <1>5, <1>6, <2>1, IndexIs
<1>9. PICK indent, about, rest, e :
        /\ indent = SubSeq(u, 1, a - 1) /\ about = Trim(SubSeq(u, a + 1, Len(u)))
        /\ rest = (IF StartsWith(about, "response") THEN Tail(about) ELSE <<SP>> \o about)
        /\ e = <<x>>
  OBVIOUS
<1>10. Before(u, Index(u, "#")) = indent /\ Trim(After(u, Index(u, "#"))) = about
  BY <1>1, <1>8, <1>9 DEF Before, After
<1>11. Converted(u) = (indent \o e) \o rest
  BY <1>1, <1>9, <1>10 DEF Converted
<1>12. IsList(indent) /\ Len(indent) = a - 1 /\ \A i \in 1..(a - 1) : indent[i] = SP
  <2>1. /\ IsList(SubSeq(u, 1, a - 1)) /\ Len(SubSeq(u, 1, a - 1)) = a - 1
        /\ \A i \in 1..(a - 1) : SubSeq(u, 1, a - 1)[i] = u[i]
    BY <1>5, CutHere
  <2> QED
    BY <1>7, <1>9, <2>1
<1>13. IsList(about)
  <2>1. IsList(SubSeq(u, a + 1, Len(u)))
    BY <1>5, CutHere
  <2> QED
    BY <1>9, <2>1, TrimDecomposes
<1>14. IsList(rest)
  <2>1. CASE StartsWith(about, "response")
    <3>1. about # <<>>
      BY <2>1 DEF StartsWith
    <3>2. about \in Seq(Range(about))
      BY <1>13, ListFacts
    <3>3. Tail(about) \in Seq(Range(about))
      BY <3>1, <3>2, HeadTailProperties
    <3> QED
      BY <1>9, <2>1, <3>3 DEF IsList
  <2>2. CASE ~StartsWith(about, "response")
    BY <1>9, <1>13, <2>2, OneOnto
  <2> QED
    BY <2>1, <2>2
<1>15. PICK s : s = indent \o e
  OBVIOUS
<1>16. IsList(s) /\ Len(s) = a /\ s[a] = x /\ \A i \in 1..(a - 1) : s[i] = SP
  <2>1. IsList(e) /\ Len(e) = 1 /\ e[1] = x
    BY <1>9, TupleLengths, TupleFacts
  <2>2. /\ IsList(s) /\ Len(s) = Len(indent) + Len(e)
        /\ (\A j \in 1..Len(indent) : s[j] = indent[j]) /\ \A j \in 1..Len(e) : s[Len(indent) + j] = e[j]
    <3>1. IsList(indent) /\ IsList(e)
      BY <1>12, <2>1
    <3> QED
      BY <1>15, <3>1, ConcatAt
  <2>3. 1 \in 1..Len(e) /\ (a - 1) + 1 = a
    BY <1>5, <2>1
  <2>4. Len(s) = a /\ s[a] = x
    BY <1>5, <1>12, <2>1, <2>2, <2>3
  <2> QED
    BY <1>12, <2>2, <2>4
<1>17. PICK c : c = s \o rest
  OBVIOUS
<1>18. /\ IsList(c) /\ Len(c) = Len(s) + Len(rest) /\ Len(rest) \in Nat
       /\ \A j \in 1..Len(s) : c[j] = s[j]
  <2>1. IsList(s) /\ IsList(rest)
    BY <1>14, <1>16
  <2> QED
    BY <1>17, <2>1, ConcatAt
<1>19. a \in 1..Len(c) /\ c[a] = x /\ \A i \in 1..(a - 1) : c[i] = SP
  <2>1. \A i \in 1..(a - 1) : i \in 1..Len(s)
    BY <1>5, <1>16
  <2>2. a \in 1..Len(s)
    BY <1>5, <1>16
  <2> QED
    BY <1>5, <1>16, <1>18, <2>1, <2>2
<1>20. c[a] # SP
  BY <1>2, <1>19
<1>21. Trim(c) # <<>> /\ Trim(c)[1] = x
  BY <1>18, <1>19, <1>20, TrimBegins
<1> QED
  BY <1>1, <1>11, <1>15, <1>17, <1>18, <1>21

\* What is left of the text when its end is missing.
LEMMA CutWoven ==
  ASSUME NEW t, NEW b, NEW n, WovenBy(t, b, n), NEW i \in 0..Len(t), NEW u, u = SubSeq(t, 1, i)
  PROVE  WovenBy(u, b, n)
<1>1. Len(t) \in Nat /\ IsList(t)
  BY ListFacts DEF WovenBy
<1>2. 1 \in 1..(Len(t) + 1)
  BY <1>1
<1>3. /\ IsList(u) /\ Len(u) = IF 1 <= i THEN i - 1 + 1 ELSE 0
      /\ \A j \in 1..(i - 1 + 1) : u[j] = t[1 + j - 1]
  BY <1>1, <1>2, PieceOf
<1>4. i - 1 + 1 = i /\ i \in Nat /\ \A j \in 1..i : 1 + j - 1 = j
  BY <1>1
<1>5. Len(u) = i /\ \A j \in 1..i : u[j] = t[j]
  BY <1>3, <1>4
<1>6. (\A j \in 0..i : j \in 0..Len(t)) /\ \A j \in 1..i : j \in 1..Len(t)
  BY <1>1, <1>4
<1> QED
  BY <1>3, <1>5, <1>6 DEF WovenBy

-----------------------------------------------------------------------------

KeepsLines(plan) ==
  \E m : WovenBy(text', plan, m) /\ (edit' # "cut" => m[Len(text')] = Len(plan))

LEMMA InsertKeepsLines ==
  ASSUME NEW plan, NEW n, WovenBy(text, plan, n), n[Len(text)] = Len(plan), Insert
  PROVE  KeepsLines(plan)
<1>1. PICK i \in 1..(Len(text) + 1), u \in Inserted : text' = InsertAt(text, i, [at |-> None, text |-> u])
  BY DEF Insert
<1>2. PICK x : x = LineOf(None, u)
  OBVIOUS
<1>3. IsGap(x)
  BY <1>2, InsertedAreGaps
<1>4. text' = InsertAt(text, i, x)
  BY <1>1, <1>2 DEF LineOf
<1>5. PICK t : t = text'
  OBVIOUS
<1>6. t = InsertAt(text, i, x)
  BY <1>4, <1>5
<1>7. \E m : WovenBy(t, plan, m) /\ m[Len(t)] = n[Len(text)]
  BY <1>3, <1>6, InsertWoven
<1> QED
  BY <1>5, <1>7 DEF KeepsLines

\* A line with another text or another time.
LEMMA LineChanged ==
  ASSUME NEW l, DOMAIN l = {"at", "text"}, NEW u,
         NEW x, x = [l EXCEPT !.text = u], NEW y, y = [l EXCEPT !.at = None]
  PROVE  /\ DOMAIN x = {"at", "text"} /\ x.text = u /\ x.at = l.at
         /\ DOMAIN y = {"at", "text"} /\ y.text = l.text /\ y.at = None
  OBVIOUS

LEMMA ConvertKeepsLines ==
  ASSUME NEW plan, NEW n, WovenBy(text, plan, n), n[Len(text)] = Len(plan),
         \A c \in 1..Len(plan) : Firm(plan[c].text), Convert
  PROVE  KeepsLines(plan)
<1>1. PICK i \in DOMAIN text : /\ IsConvertible(text[i].text)
                               /\ text' = [text EXCEPT ![i].text = Converted(@)]
  BY DEF Convert
<1>2. PICK x : x = [text[i] EXCEPT !.text = Converted(text[i].text)]
  OBVIOUS
<1>3. PICK t : t = text'
  OBVIOUS
<1>4. t = [text EXCEPT ![i] = x]
  BY <1>1, <1>2, <1>3
<1>5. IsList(text) /\ Len(text) \in Nat /\ DOMAIN text = 1..Len(text)
  BY ListFacts DEF WovenBy
<1>6. /\ IsList(t) /\ Len(t) = Len(text) /\ t[i] = x
      /\ \A j \in 1..Len(text) : j # i => t[j] = text[j]
  <2>1. PICK T \in Nat : T = Len(text)
    BY <1>5
  <2>2. t = [j \in 1..T |-> t[j]]
    BY <1>4, <1>5, <2>1
  <2>3. IsList(t) /\ Len(t) = T
    BY <2>2, ListMade
  <2>4. t[i] = x /\ \A j \in 1..Len(text) : j # i => t[j] = text[j]
    BY <1>4, <1>5
  <2> QED
    BY <2>1, <2>3, <2>4
<1>7. Trim(text[i].text) # <<>> /\ Trim(text[i].text)[1] = "#"
  BY <1>1 DEF IsConvertible, IsComment, StartsWith
<1>8. ASSUME NEW j \in 1..Len(text)
      PROVE  /\ IsGap(text[j]) => IsGap(t[j])
             /\ \A c \in 1..Len(plan) : Matches(text[j], plan[c]) => Matches(t[j], plan[c])
  <2>1. CASE j # i
    BY <1>6, <2>1
  <2>2. CASE j = i
    <3>1. ASSUME NEW c \in 1..Len(plan), Matches(text[j], plan[c])
          PROVE  FALSE
      <4>1. Firm(text[i].text)
        BY <2>2, <3>1 DEF Matches
      <4> QED
        BY <1>7, <4>1 DEF Firm
    <3>2. ASSUME IsGap(text[i])
          PROVE  IsGap(x)
      <4>1. DOMAIN text[i] = {"at", "text"} /\ text[i].at = None /\ IsList(text[i].text)
        BY <3>2 DEF IsGap
      <4>2. PICK l, u : l = text[i] /\ u = Converted(text[i].text)
        OBVIOUS
      <4>3. DOMAIN x = {"at", "text"} /\ x.text = u /\ x.at = None
        BY <1>2, <4>1, <4>2
      <4>4. IsList(u) /\ Trim(u)[1] = "expect"
        BY <1>1, <4>1, <4>2, ConvertedIsGap
      <4> QED
        BY <4>3, <4>4 DEF IsGap
    <3> QED
      BY <1>6, <2>2, <3>1, <3>2
  <2> QED
    BY <2>1, <2>2
<1>9. WovenBy(t, plan, n)
  BY <1>6, <1>8, WovenPointwise
<1> QED
  BY <1>3, <1>6, <1>9 DEF KeepsLines

LEMMA UntimeKeepsLines ==
  ASSUME NEW plan, NEW n, WovenBy(text, plan, n), n[Len(text)] = Len(plan), Untime
  PROVE  KeepsLines(plan)
<1>1. PICK I \in SUBSET {i \in DOMAIN text : text[i].at # None} :
        text' = [i \in DOMAIN text |-> IF i \in I THEN [text[i] EXCEPT !.at = None] ELSE text[i]]
  BY DEF Untime
<1>2. PICK t : t = text'
  OBVIOUS
<1>3. PICK T \in Nat : T = Len(text) /\ DOMAIN text = 1..T
  BY ListFacts DEF WovenBy
<1>4. t = [j \in 1..T |-> t[j]]
  BY <1>1, <1>2, <1>3
<1>5. IsList(t) /\ Len(t) = T
  BY <1>4, ListMade
<1>6. \A j \in 1..T : t[j] = IF j \in I THEN [text[j] EXCEPT !.at = None] ELSE text[j]
  BY <1>1, <1>2, <1>3
<1>7. ASSUME NEW j \in 1..T
      PROVE  /\ IsGap(text[j]) => IsGap(t[j])
             /\ \A c \in 1..Len(plan) : Matches(text[j], plan[c]) => Matches(t[j], plan[c])
  <2>1. CASE j \notin I
    BY <1>6, <2>1
  <2>2. CASE j \in I
    <3>1. t[j] = [text[j] EXCEPT !.at = None] /\ text[j].at # None
      BY <1>1, <1>6, <2>2
    <3>2. ~IsGap(text[j])
      BY <3>1 DEF IsGap
    <3>3. ASSUME NEW c \in 1..Len(plan), Matches(text[j], plan[c])
          PROVE  Matches(t[j], plan[c])
      <4>1. DOMAIN text[j] = {"at", "text"}
        BY <3>3 DEF Matches
      <4>2. DOMAIN t[j] = {"at", "text"} /\ t[j].text = text[j].text /\ t[j].at = None
        BY <3>1, <4>1
      <4> QED
        BY <3>3, <4>2 DEF Matches
    <3> QED
      BY <3>2, <3>3
  <2> QED
    BY <2>1, <2>2
<1>8. WovenBy(t, plan, n)
  BY <1>3, <1>5, <1>7, WovenPointwise
<1> QED
  BY <1>2, <1>3, <1>5, <1>8 DEF KeepsLines

\* No edit of the user's puts other lines in the place of those the parser takes
\* something from, and only a text that is cut lacks any.
LEMMA EditWoven ==
  ASSUME NEW plan, NEW n, WovenBy(text, plan, n), n[Len(text)] = Len(plan),
         \A c \in 1..Len(plan) : Firm(plan[c].text), Edit
  PROVE  KeepsLines(plan)
<1>1. CASE Insert
  BY <1>1, InsertKeepsLines
<1>2. CASE Convert
  BY <1>2, ConvertKeepsLines
<1>3. CASE Untime
  BY <1>3, UntimeKeepsLines
<1>4. CASE Cut
  <2>1. PICK i \in 0..(Len(text) - 1) : text' = SubSeq(text, 1, i)
    BY <1>4 DEF Cut
  <2>2. Len(text) \in Nat /\ i \in 0..Len(text)
    BY <2>1, ListFacts DEF WovenBy
  <2>3. WovenBy(text', plan, n)
    BY <2>1, <2>2, CutWoven
  <2>4. edit' = "cut"
    BY <1>4 DEF Cut
  <2> QED
    BY <2>3, <2>4 DEF KeepsLines
<1>5. CASE LeaveAlone
  <2>1. text' = text
    BY <1>5 DEF LeaveAlone
  <2> QED
    BY <2>1 DEF KeepsLines
<1> QED
  BY <1>1, <1>2, <1>3, <1>4, <1>5 DEF Edit

-----------------------------------------------------------------------------
(* What the parser has made of the first lines of a call.                  *)

EntryIs(e, w) ==
  /\ e.op = w.op /\ e.variant = w.variant /\ DOMAIN e.args = DOMAIN w.args
  /\ \A key \in DOMAIN w.args : e.args[key] = w.args[key]

OverridesAre(o, all, j) ==
  /\ IsList(o) /\ Len(o) = IF j >= 14 THEN j - 14 ELSE 0
  /\ \A i \in 1..Len(o) : o[i] = all[i]

Absorbed(e, w, j) ==
  /\ DOMAIN e = {"at", "op", "variant", "args", "expects"}
  /\ e.op = w.op /\ e.variant = w.variant /\ DOMAIN e.args = DOMAIN w.args
  /\ \A key \in HeadKeys(w.op) : e.args[key] = w.args[key]
  /\ \A i \in 1..Fields(w) :
       i < j /\ HowOf(w, i) # "assignments" => e.args[KeyOf(w, i)] = ValueOf(w, i)
  /\ w.op = "SetOptions" => OverridesAre(e.args["overrides"], Overrides(w), j)

\* The keys of a call are those of its fields, each once.
LEMMA KeysOfCall ==
  ASSUME NEW w, IsSentCall(w)
  PROVE  /\ \A key \in DOMAIN w.args : key \in HeadKeys(w.op) \/ \E i \in 1..Fields(w) : KeyOf(w, i) = key
         /\ \A i \in 1..Fields(w) : /\ KeyOf(w, i) \in DOMAIN w.args /\ KeyOf(w, i) \in DOMAIN ParseKeys(w.op)
                                    /\ KeyOf(w, i) \notin HeadKeys(w.op) /\ KeyOf(w, i) # "none"
                                    /\ ParseKeys(w.op)[KeyOf(w, i)] = TakenAs(HowOf(w, i))
                                    /\ HowOf(w, i) \in Hows
                                    /\ (HowOf(w, i) = "assignments" <=> KeyOf(w, i) = "overrides")
         /\ \A i, j \in 1..Fields(w) : KeyOf(w, i) = KeyOf(w, j) => i = j
         /\ Fields(w) \in 0..13 /\ (w.op = "AddBuildLog" => Fields(w) = 1)
         /\ \A key \in DOMAIN ParseKeys(w.op) : key # QT
<1>1. PICK op, ks, table : op = w.op /\ ks = FormatKeys(w.variant) /\ table = ParseKeys(w.op)
  OBVIOUS
<1>2. op \in Ops /\ KeysMatch(op, ks, table)
  BY <1>1, KeysOf DEF IsSentCall
<1>3. Fields(w) = Len(ks) /\ \A i : KeyOf(w, i) = ks[i][1] /\ HowOf(w, i) = ks[i][2]
  BY <1>1 DEF Fields, KeyOf, HowOf
<1>4. DOMAIN w.args = HeadKeys(op) \cup DOMAIN table
  BY <1>1 DEF IsSentCall
<1>5. PICK n : n = Len(ks)
  OBVIOUS
<1>6. /\ n \in 0..13
      /\ \A i \in 1..n :
           /\ ks[i][2] \in Hows
           /\ ks[i][1] \in DOMAIN table /\ table[ks[i][1]] = TakenAs(ks[i][2])
           /\ (ks[i][2] = "assignments" <=> ks[i][1] = "overrides")
           /\ ks[i][1] \notin HeadKeys(op)
           /\ ks[i][1] # "none" /\ ks[i][1] # QT
           /\ \A j \in 1..n : ks[i][1] = ks[j][1] => i = j
      /\ \A key \in DOMAIN table : \E i \in 1..n : ks[i][1] = key
      /\ op = "AddBuildLog" => n = 1
  BY <1>2, <1>5 DEF KeysMatch
<1>7. \A key \in DOMAIN table : key # QT
  BY <1>6
<1>8. \A key \in DOMAIN w.args : key \in HeadKeys(w.op) \/ \E i \in 1..Fields(w) : KeyOf(w, i) = key
  BY <1>1, <1>3, <1>4, <1>5, <1>6
<1>9. /\ \A i \in 1..Fields(w) : /\ KeyOf(w, i) \in DOMAIN w.args /\ KeyOf(w, i) \in DOMAIN ParseKeys(w.op)
                                    /\ KeyOf(w, i) \notin HeadKeys(w.op) /\ KeyOf(w, i) # "none"
                                    /\ ParseKeys(w.op)[KeyOf(w, i)] = TakenAs(HowOf(w, i))
                                    /\ HowOf(w, i) \in Hows
                                    /\ (HowOf(w, i) = "assignments" <=> KeyOf(w, i) = "overrides")
  <2> SUFFICES ASSUME NEW i \in 1..Fields(w)
               PROVE  /\ KeyOf(w, i) \in DOMAIN w.args /\ KeyOf(w, i) \in DOMAIN ParseKeys(w.op)
                      /\ KeyOf(w, i) \notin HeadKeys(w.op) /\ KeyOf(w, i) # "none"
                      /\ ParseKeys(w.op)[KeyOf(w, i)] = TakenAs(HowOf(w, i))
                      /\ HowOf(w, i) \in Hows
                      /\ (HowOf(w, i) = "assignments" <=> KeyOf(w, i) = "overrides")
    OBVIOUS
  <2>1. i \in 1..n /\ KeyOf(w, i) = ks[i][1] /\ HowOf(w, i) = ks[i][2]
    BY <1>3, <1>5
  <2>2. PICK k, h : k = ks[i][1] /\ h = ks[i][2]
    OBVIOUS
  <2>3. /\ h \in Hows /\ k \in DOMAIN table /\ table[k] = TakenAs(h)
        /\ (h = "assignments" <=> k = "overrides") /\ k \notin HeadKeys(op) /\ k # "none"
    BY <1>6, <2>1, <2>2
  <2> QED
    BY <1>1, <1>4, <2>1, <2>2, <2>3
<1>10. ASSUME NEW i \in 1..Fields(w), NEW j \in 1..Fields(w), KeyOf(w, i) = KeyOf(w, j)
       PROVE  i = j
  <2>1. i \in 1..n /\ j \in 1..n /\ ks[i][1] = ks[j][1]
    BY <1>3, <1>5, <1>10
  <2> QED
    BY <1>6, <2>1
<1> QED
  BY <1>1, <1>3, <1>5, <1>6, <1>7, <1>8, <1>9, <1>10

\* After its last line all of it.
LEMMA AllAbsorbed ==
  ASSUME NEW w, IsSentCall(w), NEW n, n = (1 + Fields(w)) + Len(Overrides(w)),
         NEW e, Absorbed(e, w, n)
  PROVE  EntryIs(e, w)
<1>1. PICK f \in 0..13 : f = Fields(w)
  BY KeysOfCall
<1>2. PICK o : o = Overrides(w)
  OBVIOUS
<1>3. IsList(o) /\ Len(o) \in Nat
  <2>1. IsList(o)
    BY <1>2, OverridesLast, StringsAreList
  <2> QED
    BY <2>1, ListFacts
<1>4. /\ e.op = w.op /\ e.variant = w.variant /\ DOMAIN e.args = DOMAIN w.args
      /\ \A key \in HeadKeys(w.op) : e.args[key] = w.args[key]
      /\ \A i \in 1..f : i < n /\ HowOf(w, i) # "assignments" => e.args[KeyOf(w, i)] = w.args[KeyOf(w, i)]
      /\ w.op = "SetOptions" => OverridesAre(e.args["overrides"], o, n)
  BY <1>1, <1>2 DEF Absorbed, ValueOf
<1>5. \A i \in 1..f : i < n
  BY <1>1, <1>2, <1>3
<1>6. ASSUME NEW key \in DOMAIN w.args
      PROVE  e.args[key] = w.args[key]
  <2>1. CASE key \in HeadKeys(w.op)
    BY <1>4, <2>1
  <2>2. ASSUME NEW i \in 1..f, KeyOf(w, i) = key, HowOf(w, i) # "assignments"
        PROVE  e.args[key] = w.args[key]
    BY <1>4, <1>5, <2>2
  <2>3. ASSUME NEW i \in 1..f, KeyOf(w, i) = key, HowOf(w, i) = "assignments"
        PROVE  e.args[key] = w.args[key]
    <3>1. w.op = "SetOptions" /\ f = 13 /\ key = "overrides"
      BY <1>1, <2>3, OverridesLast
    <3>2. o = w.args["overrides"]
      BY <1>2, <3>1 DEF Overrides
    <3>3. PICK g : g = e.args["overrides"]
      OBVIOUS
    <3>4. n = 14 + Len(o)
      BY <1>1, <1>2, <1>3, <3>1
    <3>5. IsList(g) /\ Len(g) = Len(o) /\ \A k \in 1..Len(g) : g[k] = o[k]
      <4>1. OverridesAre(g, o, n)
        BY <1>4, <3>1, <3>3
      <4>2. n >= 14 /\ n - 14 = Len(o)
        BY <1>3, <3>4
      <4> QED
        BY <4>1, <4>2 DEF OverridesAre
    <3>6. g = o
      BY <1>3, <3>5, ListsEqual
    <3> QED
      BY <3>1, <3>2, <3>3, <3>6
  <2> QED
    BY <1>1, <2>1, <2>2, <2>3, KeysOfCall
<1> QED
  BY <1>4, <1>6 DEF EntryIs

\* On its own line those that are there.
LEMMA HeadDomain ==
  ASSUME NEW op \in Ops, NEW a
  PROVE  DOMAIN ParseHead(op, a) = HeadKeys(op)
<1>1. HeadReads(op, ParseVariant(op))
  BY HeadClasses
<1>2. PICK b : b = <<>>
  OBVIOUS
<1>3. HeadKeys(op) = DOMAIN ParseHead(op, b)
  BY <1>2 DEF HeadKeys
<1>4. DOMAIN ParseHead(op, a) = DOMAIN ParseHead(op, b)
  BY <1>1 DEF HeadReads
<1> QED
  BY <1>3, <1>4

LEMMA HeadAbsorbed ==
  ASSUME NEW w, IsSentCall(w), NEW a, Reads(w, a), NEW call, call = ParseCall(w.op, a), NEW at,
         NEW e, e = [at |-> at, op |-> w.op, variant |-> call.variant, args |-> call.args, expects |-> <<>>]
  PROVE  Absorbed(e, w, 1) /\ e.at = at
<1>1. PICK op, head, keys, x : op = w.op /\ head = ParseHead(op, a) /\ keys = ParseKeys(op) /\ x = <<>>
  OBVIOUS
<1>2. op \in Ops /\ w.variant = ParseVariant(op) /\ DOMAIN w.args = HeadKeys(op) \cup DOMAIN keys
  BY <1>1 DEF IsSentCall
<1>3. PICK miss : miss = [k \in DOMAIN keys |-> Missing(keys[k])]
  OBVIOUS
<1>4. call.variant = ParseVariant(op) /\ call.args = Extended(head, miss)
  BY <1>1, <1>3 DEF ParseCall
<1>5. DOMAIN head = HeadKeys(op)
  BY <1>1, <1>2, HeadDomain
<1>6. PICK args : args = Extended(head, miss)
  OBVIOUS
<1>7. /\ DOMAIN args = DOMAIN head \cup DOMAIN keys
      /\ \A k \in DOMAIN head : args[k] = head[k]
      /\ \A k \in DOMAIN keys : k \notin DOMAIN head => args[k] = Missing(keys[k])
  BY <1>3, <1>6 DEF Extended
<1>8. /\ DOMAIN e = {"at", "op", "variant", "args", "expects"} /\ e.at = at
      /\ e.op = op /\ e.variant = call.variant /\ e.args = args
  BY <1>1, <1>4, <1>6
<1>9. \A key \in HeadKeys(op) : args[key] = w.args[key]
  BY <1>1, <1>5, <1>7 DEF Reads
<1>10. \A i \in 1..Fields(w) : ~(i < 1)
  <2>1. Fields(w) \in 0..13
    BY KeysOfCall
  <2> QED
    BY <2>1
<1>11. ASSUME op = "SetOptions"
       PROVE  OverridesAre(args["overrides"], Overrides(w), 1)
  <2>1. PICK i : i \in 1..Fields(w) /\ KeyOf(w, i) = "overrides" /\ HowOf(w, i) = "assignments"
    <3>1. Fields(w) = 13 /\ KeyOf(w, 13) = "overrides" /\ HowOf(w, 13) = "assignments"
      BY <1>1, <1>11, OverridesLast
    <3>2. 13 \in 1..Fields(w)
      BY <3>1
    <3> QED
      BY <3>1, <3>2
  <2>2. /\ "overrides" \in DOMAIN keys /\ "overrides" \notin HeadKeys(op)
        /\ keys["overrides"] = TakenAs("assignments")
    BY <1>1, <2>1, KeysOfCall
  <2>3. Missing("assignments") = x /\ TakenAs("assignments") = "assignments"
    BY <1>1 DEF Missing, TakenAs
  <2>4. args["overrides"] = x
    BY <1>5, <1>7, <2>2, <2>3
  <2>5. IsList(x) /\ Len(x) = 0
    BY <1>1, EmptyIsList
  <2> QED
    BY <2>4, <2>5 DEF OverridesAre
<1> QED
  BY <1>1, <1>2, <1>4, <1>5, <1>7, <1>8, <1>9, <1>10, <1>11 DEF Absorbed

\* On each of the next lines one more.
LEMMA FieldAbsorbed ==
  ASSUME NEW w, IsSentCall(w), NEW j \in 1..Fields(w), HowOf(w, j) # "assignments",
         NEW e, Absorbed(e, w, j), NEW key, key = KeyOf(w, j), NEW x, x = ValueOf(w, j),
         NEW f, f = [e EXCEPT !.args[key] = x]
  PROVE  Absorbed(f, w, j + 1) /\ f.at = e.at
<1>1. PICK args : args = [e.args EXCEPT ![key] = x]
  OBVIOUS
<1>2. f = [e EXCEPT !.args = args]
  BY <1>1
<1>3. DOMAIN e = {"at", "op", "variant", "args", "expects"} /\ DOMAIN e.args = DOMAIN w.args
  BY DEF Absorbed
<1>4. /\ DOMAIN f = {"at", "op", "variant", "args", "expects"} /\ f.args = args
      /\ f.op = e.op /\ f.variant = e.variant /\ f.at = e.at
  BY <1>2, <1>3
<1>5. key \in DOMAIN w.args /\ key \notin HeadKeys(w.op) /\ key # "overrides"
  BY KeysOfCall
<1>6. DOMAIN args = DOMAIN w.args /\ args[key] = x /\ \A k \in DOMAIN w.args : k # key => args[k] = e.args[k]
  BY <1>1, <1>3, <1>5
<1>7. HeadKeys(w.op) \subseteq DOMAIN w.args
  BY DEF IsSentCall
<1>8. \A k \in HeadKeys(w.op) : args[k] = w.args[k]
  BY <1>5, <1>6, <1>7 DEF Absorbed
<1>9. Fields(w) \in 0..13
  BY KeysOfCall
<1>10. ASSUME NEW i \in 1..Fields(w), i < j + 1, HowOf(w, i) # "assignments"
       PROVE  args[KeyOf(w, i)] = ValueOf(w, i)
  <2>1. CASE i = j
    BY <1>6, <2>1
  <2>2. CASE i # j
    <3>1. i < j
      BY <1>9, <1>10, <2>2
    <3>2. e.args[KeyOf(w, i)] = ValueOf(w, i)
      BY <1>10, <3>1 DEF Absorbed
    <3>3. KeyOf(w, i) # key /\ KeyOf(w, i) \in DOMAIN w.args
      BY <2>2, KeysOfCall
    <3> QED
      BY <1>6, <3>2, <3>3
  <2> QED
    BY <2>1, <2>2
<1>11. ASSUME w.op = "SetOptions"
       PROVE  OverridesAre(args["overrides"], Overrides(w), j + 1)
  <2>1. OverridesAre(e.args["overrides"], Overrides(w), j)
    BY <1>11 DEF Absorbed
  <2>2. Fields(w) = 13 /\ KeyOf(w, 13) = "overrides" /\ HowOf(w, 13) = "assignments"
    BY <1>11, OverridesLast
  <2>3. ~(j >= 14) /\ (j + 1 >= 14 => j + 1 = 14)
    BY <2>2
  <2>4. "overrides" \in DOMAIN w.args
    <3>1. 13 \in 1..Fields(w)
      BY <2>2
    <3> QED
      BY <2>2, <3>1, KeysOfCall
  <2>5. args["overrides"] = e.args["overrides"]
    BY <1>5, <1>6, <2>4
  <2> QED
    BY <2>1, <2>3, <2>5 DEF OverridesAre
<1> QED
  BY <1>3, <1>4, <1>6, <1>8, <1>10, <1>11 DEF Absorbed

LEMMA OverridesBegin ==
  ASSUME NEW w, IsSentCall(w), NEW j \in 1..Fields(w), HowOf(w, j) = "assignments",
         NEW e, Absorbed(e, w, j)
  PROVE  Absorbed(e, w, j + 1) /\ j = 13
<1>1. j = 13 /\ Fields(w) = 13
  BY OverridesLast
<1>2. ASSUME NEW i \in 1..Fields(w), i < j + 1, HowOf(w, i) # "assignments"
      PROVE  e.args[KeyOf(w, i)] = ValueOf(w, i)
  <2>1. i # j
    BY <1>2
  <2>2. i < j
    BY <1>1, <1>2, <2>1
  <2> QED
    BY <1>2, <2>2 DEF Absorbed
<1>3. ASSUME w.op = "SetOptions"
      PROVE  OverridesAre(e.args["overrides"], Overrides(w), j + 1)
  <2>1. OverridesAre(e.args["overrides"], Overrides(w), j)
    BY <1>3 DEF Absorbed
  <2> QED
    BY <1>1, <2>1 DEF OverridesAre
<1> QED
  BY <1>1, <1>2, <1>3 DEF Absorbed

LEMMA AssignAbsorbed ==
  ASSUME NEW w, IsSentCall(w), w.op = "SetOptions", NEW m \in 1..Len(Overrides(w)), NEW j, j = 13 + m,
         NEW e, Absorbed(e, w, j), NEW p, p = Overrides(w)[m],
         NEW f, f = [e EXCEPT !.args.overrides = Append(@, p)]
  PROVE  Absorbed(f, w, j + 1) /\ f.at = e.at
<1>1. PICK o, g, key : o = e.args["overrides"] /\ g = Append(o, p) /\ key = "overrides"
  OBVIOUS
<1>2. PICK args : args = [e.args EXCEPT ![key] = g]
  OBVIOUS
<1>3. f = [e EXCEPT !.args = args]
  BY <1>1, <1>2
<1>4. DOMAIN e = {"at", "op", "variant", "args", "expects"} /\ DOMAIN e.args = DOMAIN w.args
  BY DEF Absorbed
<1>5. /\ DOMAIN f = {"at", "op", "variant", "args", "expects"} /\ f.args = args
      /\ f.op = e.op /\ f.variant = e.variant /\ f.at = e.at
  BY <1>3, <1>4
<1>6. Fields(w) = 13 /\ KeyOf(w, 13) = key /\ HowOf(w, 13) = "assignments"
  BY <1>1, OverridesLast
<1>7. key \in DOMAIN w.args /\ key \notin HeadKeys(w.op)
  <2>1. 13 \in 1..Fields(w)
    BY <1>6
  <2> QED
    BY <1>6, <2>1, KeysOfCall
<1>8. DOMAIN args = DOMAIN w.args /\ args[key] = g /\ \A k \in DOMAIN w.args : k # key => args[k] = e.args[k]
  BY <1>2, <1>4, <1>7
<1>9. HeadKeys(w.op) \subseteq DOMAIN w.args
  BY DEF IsSentCall
<1>10. \A k \in HeadKeys(w.op) : args[k] = w.args[k]
  BY <1>7, <1>8, <1>9 DEF Absorbed
<1>11. ASSUME NEW i \in 1..Fields(w), i < j + 1, HowOf(w, i) # "assignments"
       PROVE  args[KeyOf(w, i)] = ValueOf(w, i)
  <2>1. i # 13
    BY <1>6, <1>11
  <2>2. Len(Overrides(w)) \in Nat
    BY OverridesLast, StringsAreList, ListFacts
  <2>3. i < j
    BY <1>6, <2>1, <2>2
  <2>4. e.args[KeyOf(w, i)] = ValueOf(w, i)
    BY <1>11, <2>3 DEF Absorbed
  <2>5. KeyOf(w, i) # key /\ KeyOf(w, i) \in DOMAIN w.args
    <3>1. 13 \in 1..Fields(w)
      BY <1>6
    <3> QED
      BY <1>6, <2>1, <3>1, KeysOfCall
  <2> QED
    BY <1>8, <2>4, <2>5
<1>12. OverridesAre(g, Overrides(w), j + 1)
  <2>1. OverridesAre(o, Overrides(w), j)
    BY <1>1 DEF Absorbed
  <2>2. Len(Overrides(w)) \in Nat
    BY OverridesLast, StringsAreList, ListFacts
  <2>3. PICK k : k = m - 1
    OBVIOUS
  <2>4. k \in Nat /\ j >= 14 /\ j - 14 = k /\ j + 1 >= 14 /\ (j + 1) - 14 = m /\ k + 1 = m
    BY <2>2, <2>3
  <2>5. IsList(o) /\ Len(o) = k /\ \A i \in 1..k : o[i] = Overrides(w)[i]
    BY <2>1, <2>4 DEF OverridesAre
  <2>6. IsList(g) /\ Len(g) = k + 1
    BY <1>1, <2>5, ListAppended
  <2>7. g[k + 1] = p /\ \A i \in 1..k : g[i] = o[i]
    <3>1. PICK S : o \in Seq(S)
      BY <2>5 DEF IsList
    <3> QED
      BY <1>1, <2>5, <3>1
  <2>8. ASSUME NEW i \in 1..m
        PROVE  g[i] = Overrides(w)[i]
    <3>1. i \in 1..k \/ i = m
      BY <2>4
    <3> QED
      BY <2>4, <2>5, <2>7, <3>1
  <2> QED
    BY <2>4, <2>6, <2>8 DEF OverridesAre
<1> QED
  BY <1>1, <1>4, <1>5, <1>8, <1>10, <1>11, <1>12 DEF Absorbed

-----------------------------------------------------------------------------
(* The line that the parser is at.                                         *)

World(W, plan, off, n) ==
  /\ script \in Scripts /\ AllLegible /\ W \in SUBSET Large
  /\ files = [f \in {FileOf(k, W) : k \in W} |-> "large"]
  /\ Offsets(W, plan, off) /\ WovenBy(text, plan, n)
  /\ edit # "cut" => n[Len(text)] = Len(plan)
  /\ edit = "none" => Snug(text, plan, n, 1)

InText == pos \in Nat \ {0} /\ pos <= Len(text) + 1

IsNext(plan, n, c) ==
  /\ ~AtEnd /\ c \in 0..Len(plan)
  /\ \/ n[pos] = c /\ IsGap(text[pos])
     \/ n[pos] = c + 1 /\ c + 1 \in 1..Len(plan) /\ Matches(text[pos], plan[c + 1])
IsLast(plan, c) == AtEnd /\ c \in 0..Len(plan) /\ (edit # "cut" => c = Len(plan))

LEMMA LineHere ==
  ASSUME NEW W, NEW plan, NEW off, NEW n, World(W, plan, off, n), InText,
         NEW c, c = n[pos - 1]
  PROVE  (IsNext(plan, n, c) \/ IsLast(plan, c)) /\ c \in 0..Len(plan) /\ Len(plan) \in Nat
<1>1. WovenBy(text, plan, n)
  BY DEF World
<1>2. PICK T \in Nat, B \in Nat : T = Len(text) /\ B = Len(plan)
  BY <1>1, ListFacts DEF WovenBy
<1>3. /\ \A i \in 0..T : n[i] \in 0..B
      /\ \A i \in 1..T : \/ n[i] = n[i - 1] /\ IsGap(text[i])
                         \/ n[i] = n[i - 1] + 1 /\ Matches(text[i], plan[n[i]])
  BY <1>1, <1>2 DEF WovenBy
<1>4. pos - 1 \in 0..T
  BY <1>2 DEF InText
<1>5. c \in 0..B
  BY <1>3, <1>4
<1>6. CASE AtEnd
  <2>1. pos - 1 = T
    BY <1>2, <1>4, <1>6 DEF AtEnd, InText
  <2>2. n[pos - 1] = n[T]
    BY <2>1
  <2> QED
    BY <1>2, <1>5, <1>6, <2>2 DEF IsLast, World
<1>7. CASE ~AtEnd
  <2>1. pos \in 1..T /\ pos \in 0..T
    BY <1>2, <1>7 DEF AtEnd, InText
  <2>2. n[pos] \in 0..B
    BY <1>3, <2>1
  <2>3. \/ n[pos] = c /\ IsGap(text[pos])
        \/ n[pos] = c + 1 /\ Matches(text[pos], plan[n[pos]])
    BY <1>3, <2>1
  <2>4. CASE n[pos] = c /\ IsGap(text[pos])
    BY <1>2, <1>5, <1>7, <2>4 DEF IsNext
  <2>5. CASE n[pos] = c + 1 /\ Matches(text[pos], plan[n[pos]])
    <3>1. c + 1 \in 1..B
      BY <1>5, <2>2, <2>5
    <3> QED
      BY <1>2, <1>5, <1>7, <2>5, <3>1 DEF IsNext
  <2> QED
    BY <1>2, <1>5, <2>3, <2>4, <2>5
<1> QED
  BY <1>2, <1>5, <1>6, <1>7

\* A line in between.
LEMMA GapHere ==
  ASSUME IsGap(text[pos])
  PROVE  /\ text[pos].at = None /\ IsList(Line) /\ (IsBlank \/ IsNote \/ IsExpect)
         /\ Line # <<"---">> /\ About \notin {<<"protocol">>, <<"features">>}
         /\ \A o \in Ops : ~Names(o)
<1>1. PICK s : s = Line
  OBVIOUS
<1>2. text[pos].at = None /\ IsList(text[pos].text) /\ (s = <<>> \/ s[1] \in {"#", "expect"})
  BY <1>1 DEF IsGap, Line
<1>3. IsList(s) /\ Tight(s)
  BY <1>1, <1>2, TrimDecomposes DEF Line
<1>4. CASE s = <<>>
  <2>1. IsBlank
    BY <1>1, <1>2, <1>4 DEF IsBlank
  <2>2. s # <<"---">>
    BY <1>4, TupleFacts, EmptyIsList
  <2>3. Upto(s, ":") = s /\ Upto(s, SP) = s
    BY <1>4, EmptyMentions DEF Upto
  <2>4. Trim(Upto(s, ":")) = <<>>
    BY <1>4, <2>3, BlankOnes, TrimBlank
  <2>5. \A x : <<x>> # <<>>
    BY TupleFacts, EmptyIsList
  <2>6. About = <<>> /\ OpOf = <<>>
    BY <1>1, <1>4, <2>3, <2>4 DEF About, OpOf
  <2> QED
    BY <1>1, <1>2, <1>3, <2>1, <2>2, <2>5, <2>6 DEF Names
<1>5. CASE s # <<>>
  <2>1. PICK h, x, d, p, f : h = "#" /\ x = "expect" /\ d = "---" /\ p = "protocol" /\ f = "features"
    OBVIOUS
  <2>2. s[1] = h \/ s[1] = x
    BY <1>2, <1>5, <2>1
  <2>3. d \notin {h, x} /\ p \notin {h, x} /\ f \notin {h, x} /\ h \notin {SP, ":"} /\ x \notin {SP, ":"}
    BY <2>1 DEF SP
  <2>4. IsNote \/ IsExpect
    BY <1>1, <1>2, <1>5, <2>1, <2>2 DEF IsNote, IsExpect, StartsWith
  <2>5. s # <<d>>
    BY <2>2, <2>3, TupleFacts
  <2>6. Trim(Upto(s, ":"))[1] = s[1]
    BY <1>3, <1>5, <2>2, <2>3, AboutBegins
  <2>7. About # <<p>> /\ About # <<f>>
    BY <1>1, <2>2, <2>3, <2>6, TupleFacts DEF About
  <2>8. ASSUME NEW o \in Ops, Names(o)
        PROVE  FALSE
    <3>1. s[1] = o
      <4>1. s[1] # SP /\ Upto(s, SP) = <<o>>
        BY <1>1, <2>2, <2>3, <2>8 DEF Names, OpOf
      <4> QED
        BY <1>3, <1>5, <4>1, NamesNone
    <3> QED
      BY <2>1, <2>2, <2>8, <3>1, OpsAreWords
  <2> QED
    BY <1>1, <1>2, <1>3, <2>1, <2>4, <2>5, <2>7, <2>8
<1> QED
  BY <1>4, <1>5

\* A line of the plan.
LEMMA FirmHere ==
  ASSUME Firm(text[pos].text)
  PROVE  /\ IsList(Line) /\ Line # <<>> /\ Line[1] \notin {"#", "expect", SP}
         /\ ~IsBlank /\ ~IsNote /\ ~IsExpect
  BY DEF Firm, Line, IsBlank, IsNote, IsExpect, StartsWith

LEMMA PlannedIsFirm ==
  ASSUME NEW W, NEW plan, NEW off, NEW n, World(W, plan, off, n), NEW c \in 1..Len(plan),
         Matches(text[pos], plan[c])
  PROVE  Firm(text[pos].text)
<1>1. Firm(plan[c].text)
  BY PlanIsFirm DEF World
<1> QED
  BY <1>1 DEF Matches

LEMMA PreambleHere ==
  ASSUME NEW W, NEW plan, NEW off, NEW n, World(W, plan, off, n), NEW c \in 0..2,
         Matches(text[pos], plan[c + 1])
  PROVE  /\ c = 0 => PreambleSays(text[pos].text, "protocol", Version)
         /\ c = 1 => PreambleSays(text[pos].text, "features", FormatSet(script.features))
         /\ c = 2 => Line = <<"---">>
<1>1. PICK d, p, f : d = <<"---">> /\ p = "protocol" /\ f = "features"
  OBVIOUS
<1>2. /\ PreambleSays(VersionLine, p, Version)
      /\ PreambleSays(FeaturesLine, f, FormatSet(script.features)) /\ Trim(d) = d
  BY <1>1, PreambleSpeaks, RuleIs DEF World, AllLegible
<1>3. /\ PreambleLines[1].text = VersionLine /\ PreambleLines[2].text = FeaturesLine
      /\ PreambleLines[3].text = d
  BY <1>1, PreambleLinesAre, LineMatches
<1>4. \A i \in 1..3 : plan[i] = PreambleLines[i]
  BY DEF World, Offsets
<1>5. text[pos].text = plan[c + 1].text
  BY DEF Matches
<1>6. CASE c = 0
  <2>1. c + 1 = 1 /\ 1 \in 1..3
    BY <1>6
  <2>2. text[pos].text = VersionLine
    BY <1>3, <1>4, <1>5, <2>1
  <2> QED
    BY <1>1, <1>2, <1>6, <2>2
<1>7. CASE c = 1
  <2>1. c + 1 = 2 /\ 2 \in 1..3
    BY <1>7
  <2>2. text[pos].text = FeaturesLine
    BY <1>3, <1>4, <1>5, <2>1
  <2> QED
    BY <1>1, <1>2, <1>7, <2>2
<1>8. CASE c = 2
  <2>1. c + 1 = 3 /\ 3 \in 1..3
    BY <1>8
  <2>2. text[pos].text = d
    BY <1>3, <1>4, <1>5, <2>1
  <2> QED
    BY <1>1, <1>2, <1>8, <2>2 DEF Line
<1> QED
  BY <1>6, <1>7, <1>8

\* The first line of a call, and the others.
LEMMA CallHere ==
  ASSUME NEW W, NEW plan, NEW off, NEW n, World(W, plan, off, n), NEW k \in 1..Total,
         NEW w, w = Written(W, k), NEW j \in 1..Size(W, k), NEW c, c = off[k - 1] + j,
         Matches(text[pos], plan[c])
  PROVE  /\ text[pos].text = FormatCall(w)[j]
         /\ text[pos].at \in {None, IF j = 1 THEN Some(Micros(w.at)) ELSE None}
<1>1. PICK u, b : u = FormatCall(w) /\ b = Block(w)
  OBVIOUS
<1>2. plan[c] = b[j]
  BY <1>1 DEF World, Offsets
<1>3. script \in Scripts /\ AllLegible /\ W \in SUBSET Large
  BY DEF World
<1>4. IsList(u) /\ Size(W, k) = Len(u) /\ Len(u) \in Nat
  BY <1>1, <1>3, SizeIs DEF Size
<1>5. /\ Len(u) >= 1 => b[1] = LineOf(Some(Micros(w.at)), u[1])
      /\ \A i \in 2..Len(u) : b[i] = LineOf(None, u[i])
  BY <1>1, <1>4, BlockIs
<1>6. text[pos].text = b[j].text /\ text[pos].at \in {None, b[j].at}
  BY <1>2 DEF Matches
<1>7. CASE j = 1
  <2>1. b[j] = LineOf(Some(Micros(w.at)), u[j])
    BY <1>4, <1>5, <1>7
  <2> QED
    BY <1>1, <1>6, <1>7, <2>1, LineMatches
<1>8. CASE j # 1
  <2>1. j \in 2..Len(u)
    BY <1>4, <1>8
  <2>2. b[j] = LineOf(None, u[j])
    BY <1>5, <2>1
  <2> QED
    BY <1>1, <1>6, <1>8, <2>2, LineMatches
<1> QED
  BY <1>7, <1>8

LEMMA WrittenCall ==
  ASSUME NEW W, NEW plan, NEW off, NEW n, World(W, plan, off, n), NEW k \in 1..Total,
         NEW w, w = Written(W, k)
  PROVE  /\ IsCarriedCall(w) /\ IsSentCall(w) /\ CallShown(w, FormatCall(w))
         /\ Size(W, k) \in Nat \ {0} /\ Size(W, k) = (1 + Fields(w)) + Len(Overrides(w))
         /\ Size(W, k) = Len(FormatCall(w)) /\ Len(Overrides(w)) \in Nat /\ Fields(w) \in 0..13
         /\ off[k] = off[k - 1] + Size(W, k) /\ off[k - 1] \in Nat /\ off[k] \in Nat
         /\ off[k - 1] >= 3 /\ off[k] <= Len(plan) /\ Total \in Nat
<1>1. script \in Scripts /\ AllLegible /\ W \in SUBSET Large
  BY DEF World
<1>2. /\ IsCarriedCall(w) /\ CallShown(w, FormatCall(w)) /\ Size(W, k) \in Nat \ {0}
      /\ Size(W, k) = Len(FormatCall(w))
  BY <1>1, SizeIs DEF Size
<1>3. PICK t \in Nat : t = Total
  BY DEF World, Offsets
<1>4. k - 1 \in 0..t /\ k \in 0..t /\ k \in 1..t
  BY <1>3
<1>5. off[k] = off[k - 1] + Size(W, k)
  BY DEF World, Offsets
<1>6. off[k - 1] \in Nat /\ off[k - 1] >= 3 /\ off[k] \in Nat /\ off[k] <= Len(plan)
  BY <1>3, <1>4 DEF World, Offsets
<1>7. Len(FormatCall(w)) = (1 + Fields(w)) + Len(Overrides(w)) /\ Len(Overrides(w)) \in Nat /\ Fields(w) \in 0..13
  BY <1>2 DEF CallShown
<1> QED
  BY <1>2, <1>3, <1>5, <1>6, <1>7 DEF IsCarriedCall

LEMMA HeadHere ==
  ASSUME NEW W, NEW plan, NEW off, NEW n, World(W, plan, off, n), NEW k \in 1..Total,
         NEW w, w = Written(W, k), NEW c, c = off[k - 1],
         Matches(text[pos], plan[c + 1])
  PROVE  HeadBacks(w, text[pos].text) /\ text[pos].at \in {None, Some(Micros(w.at))}
<1>1. Size(W, k) \in Nat \ {0} /\ CallShown(w, FormatCall(w))
  BY WrittenCall
<1>2. PICK j, d : j = 1 /\ d = c + j
  OBVIOUS
<1>3. j \in 1..Size(W, k)
  BY <1>1, <1>2
<1>4. Matches(text[pos], plan[d]) /\ d = off[k - 1] + j
  BY <1>2
<1>5. text[pos].text = FormatCall(w)[j] /\ text[pos].at \in {None, IF j = 1 THEN Some(Micros(w.at)) ELSE None}
  BY <1>3, <1>4, CallHere
<1>6. HeadBacks(w, FormatCall(w)[1])
  BY <1>1 DEF CallShown
<1> QED
  BY <1>2, <1>5, <1>6

LEMMA BelowHere ==
  ASSUME NEW W, NEW plan, NEW off, NEW n, World(W, plan, off, n), NEW k \in 1..Total,
         NEW w, w = Written(W, k), NEW j \in 1..Size(W, k), j # Size(W, k),
         NEW c, c = off[k - 1] + j, Matches(text[pos], plan[c + 1])
  PROVE  /\ text[pos].at = None
         /\ \/ j \in 1..Fields(w) /\ FieldShows(w, j, text[pos].text)
            \/ \E m \in 1..Len(Overrides(w)) : /\ w.op = "SetOptions" /\ j = 13 + m
                                               /\ AssignShows(Overrides(w)[m], text[pos].text)
<1>1. PICK u : u = FormatCall(w)
  OBVIOUS
<1>2. /\ Size(W, k) \in Nat \ {0} /\ CallShown(w, u) /\ Size(W, k) = (1 + Fields(w)) + Len(Overrides(w))
      /\ Fields(w) \in 0..13 /\ Len(Overrides(w)) \in Nat /\ off[k - 1] \in Nat
  BY <1>1, WrittenCall
<1>3. PICK i, d : i = j + 1 /\ d = c + 1
  OBVIOUS
<1>4. i \in 1..Size(W, k) /\ d = off[k - 1] + i /\ i # 1
  BY <1>2, <1>3
<1>5. Matches(text[pos], plan[d])
  BY <1>3
<1>6. text[pos].text = u[i] /\ text[pos].at \in {None, IF i = 1 THEN Some(Micros(w.at)) ELSE None}
  BY <1>1, <1>4, <1>5, CallHere
<1>7. CASE j <= Fields(w)
  <2>1. j \in 1..Fields(w) /\ i = 1 + j
    BY <1>2, <1>3, <1>7
  <2>2. FieldShows(w, j, u[1 + j])
    BY <1>2, <2>1 DEF CallShown
  <2> QED
    BY <1>4, <1>6, <2>1, <2>2
<1>8. CASE ~(j <= Fields(w))
  <2>1. Len(Overrides(w)) # 0
    <3>1. PICK z \in Nat, f \in 0..13, l \in Nat : z = Size(W, k) /\ f = Fields(w) /\ l = Len(Overrides(w))
      BY <1>2
    <3>2. z = (1 + f) + l /\ j \in 1..z /\ j # z /\ ~(j <= f)
      BY <1>2, <1>8, <3>1
    <3> QED
      BY <3>1, <3>2
  <2>2. w.op = "SetOptions" /\ Fields(w) = 13
    BY <1>2, <2>1 DEF CallShown
  <2>3. PICK m : m = j - 13
    OBVIOUS
  <2>4. m \in 1..Len(Overrides(w)) /\ j = 13 + m /\ i = 14 + m
    <3>1. PICK z \in Nat, l \in Nat : z = Size(W, k) /\ l = Len(Overrides(w))
      BY <1>2
    <3>2. z = 14 + l /\ j \in 1..z /\ j # z /\ ~(j <= 13)
      BY <1>2, <1>8, <2>2, <3>1
    <3> QED
      BY <1>3, <2>3, <3>1, <3>2
  <2>5. AssignShows(Overrides(w)[m], u[14 + m])
    BY <1>2, <2>4 DEF CallShown
  <2> QED
    BY <1>4, <1>6, <2>2, <2>4, <2>5
<1> QED
  BY <1>7, <1>8

-----------------------------------------------------------------------------
(* What has been read so far.                                              *)

Ready == preamble.version = script.version /\ preamble.features = script.features
Entered(W, m) == \A i \in 1..m : EntryIs(entries[i], Written(W, i))
Timely(e, w) == e.at \in {None, Some(Micros(w.at))}
Timed(W) == /\ Len(entries) <= Total /\ IsList(entries)
            /\ \A i \in 1..Len(entries) : Timely(entries[i], Written(W, i))

AtPreamble(c) ==
  /\ c \in 0..2 /\ entries = <<>> /\ {"version", "features"} \subseteq DOMAIN preamble
  /\ c >= 1 => preamble.version = script.version
  /\ c >= 2 => preamble.features = script.features

\* Behind an operation, or in the middle of one.
AtTop(W, off, c) ==
  /\ Timed(W)
  /\ \/ Ready /\ Entered(W, Len(entries)) /\ c = off[Len(entries)]
     \/ /\ Ready /\ Entered(W, Len(entries) - 1)
        /\ \E k \in 1..Total : \E j \in 1..Size(W, k) :
             k = Len(entries) /\ c = off[k - 1] + j /\ j # Size(W, k)
     \/ AtEnd /\ c < 3 /\ entries = <<>>

InCall(W, off, c, k, j) ==
  /\ Ready /\ Timed(W) /\ Entered(W, k - 1)
  /\ k = Len(entries) + 1 /\ c = off[k - 1] + j
AtArgs(W, off, c) ==
  \E k \in 1..Total : \E j \in 1..Size(W, k) :
    /\ InCall(W, off, c, k, j)
    /\ Absorbed(entry, Written(W, k), j) /\ Timely(entry, Written(W, k))
    /\ j >= 14 /\ entry.op = "SetOptions" => overriding
AtTail(W, off, c) ==
  \E k \in 1..Total : \E j \in 1..Size(W, k) :
    /\ InCall(W, off, c, k, j)
    /\ DOMAIN entry = {"at", "op", "variant", "args", "expects"} /\ Timely(entry, Written(W, k))
    /\ j = Size(W, k) => EntryIs(entry, Written(W, k))

AtPack(W) ==
  /\ Timed(W) /\ Entered(W, Len(entries) - 1)
  /\ edit # "cut" => Ready /\ Len(entries) = Total /\ Entered(W, Total)

Told(W, off, c) ==
  /\ pc = "preamble" => AtPreamble(c)
  /\ pc = "top" => AtTop(W, off, c)
  /\ pc = "args" => AtArgs(W, off, c)
  /\ pc = "tail" => AtTail(W, off, c)
  /\ pc \in {"pack", "done"} => AtPack(W)

LEMMA ScriptStays ==
  ASSUME script' = script
  PROVE  /\ AllLegible' = AllLegible /\ Large' = Large /\ Total' = Total
         /\ PreambleLines' = PreambleLines
         /\ \A W : \A k : Written(W, k)' = Written(W, k)
<1>1. AllLegible' = AllLegible
  BY DEF AllLegible, PreambleLegible
<1>2. Large' = Large
  BY DEF Large
<1>3. Total' = Total
  BY DEF Total
<1>4. PreambleLines' = PreambleLines
  BY DEF PreambleLines, VersionLine, FeaturesLine, Version
<1>5. \A W : \A k : Written(W, k)' = Written(W, k)
  BY DEF Written
<1> QED
  BY <1>1, <1>2, <1>3, <1>4, <1>5

LEMMA PlanStays ==
  ASSUME script' = script, NEW W
  PROVE  Plan(W)' = Plan(W) /\ \A k : Size(W, k)' = Size(W, k)
<1>1. Blocks(W)' = Blocks(W)
  BY DEF Blocks, Written
<1>2. Plan(W)' = Plan(W)
  BY <1>1, ScriptStays DEF Plan
<1>3. \A k : Size(W, k)' = Size(W, k)
  BY DEF Size, Written
<1> QED
  BY <1>2, <1>3

LEMMA WorldStays ==
  ASSUME NEW W, NEW plan, NEW off, NEW n, World(W, plan, off, n),
         UNCHANGED <<script, text, files, edit>>
  PROVE  World(W, plan, off, n)'
<1>1. script' = script /\ text' = text /\ files' = files /\ edit' = edit
  OBVIOUS
<1>2. Offsets(W, plan, off)'
  <2>1. /\ Plan(W)' = Plan(W) /\ Total' = Total /\ PreambleLines' = PreambleLines
        /\ (\A k : Size(W, k)' = Size(W, k)) /\ \A k : Written(W, k)' = Written(W, k)
    BY <1>1, ScriptStays, PlanStays
  <2>2. Offsets(W, plan, off)
    BY DEF World
  <2> QED
    BY <2>1, <2>2 DEF Offsets
<1>3. AllLegible' /\ W \in SUBSET Large'
  BY <1>1, ScriptStays DEF World
<1> QED
  BY <1>1, <1>2, <1>3 DEF World

(* The preamble.                                                           *)

LEMMA RestOfOperators ==
  ASSUME script' = script, NEW W
  PROVE  /\ entries' = entries /\ preamble' = preamble =>
              /\ Ready' = Ready /\ Timed(W)' = Timed(W)
              /\ \A m : Entered(W, m)' = Entered(W, m)
         /\ entries' = entries => Timed(W)' = Timed(W) /\ \A m : Entered(W, m)' = Entered(W, m)
<1>1. Total' = Total /\ \A k : Written(W, k)' = Written(W, k)
  BY ScriptStays
<1>2. entries' = entries => Timed(W)' = Timed(W)
  BY <1>1 DEF Timed, Timely
<1>3. entries' = entries => \A m : Entered(W, m)' = Entered(W, m)
  BY <1>1 DEF Entered
<1>4. preamble' = preamble => Ready' = Ready
  BY DEF Ready
<1> QED
  BY <1>2, <1>3, <1>4

LEMMA PreambleAt ==
  ASSUME NEW u, NEW key, NEW value, PreambleSays(u, key, value), text[pos].text = u,
         key \in {"protocol", "features"}
  PROVE  /\ ~IsBlank /\ ~IsNote /\ ~IsExpect /\ Line # <<"---">>
         /\ About = <<key>> /\ Value = value
<1>1. PICK s : s = Trim(u)
  OBVIOUS
<1>2. Line = s
  BY <1>1 DEF Line
<1>3. /\ Firm(u) /\ s # <<"---">>
      /\ Trim(Upto(s, ":")) = <<key>> /\ Trim(Beyond(s, ":")) = value
  BY <1>1 DEF PreambleSays
<1> QED
  BY <1>2, <1>3, FirmHere DEF About, Value

LEMMA NoteKeepsPreamble ==
  ASSUME {"version", "features"} \subseteq DOMAIN preamble, NEW p, p = ReadNote
  PROVE  /\ {"version", "features"} \subseteq DOMAIN p
         /\ p.version = preamble.version /\ p.features = preamble.features
<1>1. PICK s, x : s = Trim(Tail(Line)) /\ x = Trim(Beyond(s, ":"))
  OBVIOUS
<1>2. PICK o, f : o = Some(x) /\ f = Some(ParseFeatures(x))
  OBVIOUS
<1>3. \/ p = [preamble EXCEPT !.daemon = o] \/ p = [preamble EXCEPT !.trust = o]
      \/ p = [preamble EXCEPT !.server_features = f] \/ p = preamble
  <2>1. \/ Upto(s, ":") = <<"daemon">> \/ Upto(s, ":") = <<"trust">>
        \/ Upto(s, ":") = <<"server_features">>
        \/ Upto(s, ":") \notin {<<"daemon">>, <<"trust">>, <<"server_features">>}
    OBVIOUS
  <2> QED
    BY <1>1, <1>2, <2>1 DEF ReadNote
<1>4. "daemon" \notin {"version", "features"} /\ "trust" \notin {"version", "features"}
      /\ "server_features" \notin {"version", "features"}
  OBVIOUS
<1> QED
  BY <1>3, <1>4

-----------------------------------------------------------------------------

LEMMA NothingEntered ==
  ASSUME entries = <<>>, Total \in Nat, NEW W
  PROVE  Timed(W) /\ Len(entries) = 0 /\ Entered(W, 0) /\ Entered(W, Len(entries) - 1)
<1>1. IsList(entries) /\ Len(entries) = 0
  BY EmptyIsList
<1>2. PICK z : z = Len(entries)
  OBVIOUS
<1>3. \A i \in 1..z : FALSE
  BY <1>1, <1>2
<1>4. z <= Total
  BY <1>1, <1>2
<1>5. Timed(W)
  BY <1>1, <1>2, <1>3, <1>4 DEF Timed
<1>6. Entered(W, 0) /\ Entered(W, z - 1)
  <2>1. z - 1 = -1 /\ \A i \in 1..(-1) : FALSE
    BY <1>1, <1>2
  <2> QED
    BY <2>1 DEF Entered
<1> QED
  BY <1>1, <1>2, <1>5, <1>6

LEMMA StaysInPreamble ==
  ASSUME NEW W, NEW off, NEW c, NEW d, pc' = "preamble", script' = script,
         AtPreamble(c), entries' = entries, {"version", "features"} \subseteq DOMAIN preamble',
         d \in 0..2,
         d >= 1 => preamble'.version = script.version,
         d >= 2 => preamble'.features = script.features
  PROVE  Told(W, off, d)'
<1>1. AtPreamble(d)'
  BY DEF AtPreamble
<1> QED
  BY <1>1 DEF Told

LEMMA PreambleEnds ==
  ASSUME NEW W, NEW plan, NEW off, NEW n, World(W, plan, off, n), NEW c, AtPreamble(c),
         pc' = "top", UNCHANGED <<script, text, preamble, entries>>, NEW d,
         (AtEnd /\ pos' = pos /\ d = c) \/ (c = 2 /\ d = 3)
  PROVE  Told(W, off, d)'
<1>1. c \in 0..2 /\ entries = <<>> /\ (c = 2 => Ready)
  BY DEF AtPreamble, Ready
<1>2. Total \in Nat /\ off[0] = 3
  BY DEF World, Offsets
<1>3. Timed(W) /\ Len(entries) = 0 /\ Entered(W, 0)
  BY <1>1, <1>2, NothingEntered
<1>4. /\ Timed(W)' = Timed(W) /\ Ready' = Ready /\ \A m : Entered(W, m)' = Entered(W, m)
  BY RestOfOperators
<1>5. Timed(W)' /\ Len(entries)' = 0 /\ Entered(W, 0)' /\ (c = 2 => Ready')
  BY <1>1, <1>3, <1>4
<1>6. CASE AtEnd /\ pos' = pos /\ d = c
  <2>1. AtEnd'
    BY <1>6 DEF AtEnd
  <2>2. d < 3 /\ entries' = <<>>
    BY <1>1, <1>6
  <2>3. AtTop(W, off, d)'
    BY <1>5, <2>1, <2>2 DEF AtTop
  <2> QED
    BY <2>3 DEF Told
<1>7. CASE c = 2 /\ d = 3
  <2>1. Entered(W, Len(entries))' /\ d = off[Len(entries)]'
    BY <1>2, <1>5, <1>7
  <2>2. AtTop(W, off, d)'
    BY <1>5, <1>7, <2>1 DEF AtTop
  <2> QED
    BY <2>2 DEF Told
<1> QED
  BY <1>6, <1>7

LEMMA PreambleTold ==
  ASSUME NEW W, NEW plan, NEW off, NEW n, World(W, plan, off, n), InText,
         NEW c, c = n[pos - 1], AtPreamble(c), ParsePreamble, NEW d, d = n[pos' - 1]
  PROVE  Told(W, off, d)'
<1>1. (IsNext(plan, n, c) \/ IsLast(plan, c)) /\ Len(plan) \in Nat
  BY LineHere
<1>2. /\ c \in 0..2 /\ entries = <<>> /\ {"version", "features"} \subseteq DOMAIN preamble
      /\ (c >= 1 => preamble.version = script.version)
      /\ (c >= 2 => preamble.features = script.features)
  BY DEF AtPreamble
<1>3. UNCHANGED <<script, text, files, edit, offsets>>
  BY DEF ParsePreamble
<1>4. CASE pc' = "failed"
  BY <1>4 DEF Told
<1>5. CASE AtEnd
  <2>1. pc' = "top" /\ UNCHANGED parser
    BY <1>5 DEF ParsePreamble
  <2>2. pos' = pos /\ preamble' = preamble /\ entries' = entries /\ d = c
    BY <2>1 DEF parser
  <2> QED
    BY <1>3, <1>5, <2>1, <2>2, PreambleEnds
<1>6. CASE ~AtEnd /\ n[pos] = c /\ IsGap(text[pos]) /\ pc' # "failed"
  <2>1. Line # <<"---">> /\ About \notin {<<"protocol">>, <<"features">>}
    BY <1>6, GapHere
  <2>2. /\ pos' = pos + 1 /\ pc' = pc /\ entries' = entries /\ pc = "preamble"
        /\ \/ preamble' = preamble \/ preamble' = ReadNote
           \/ preamble' = [preamble EXCEPT !.expects = preamble.expects \o ParseExpect(Line)]
    BY <1>6, <2>1 DEF ParsePreamble, Skip, Fail
  <2>3. d = c
    <3>1. pos' - 1 = pos
      BY <2>2 DEF InText
    <3> QED
      BY <1>6, <3>1
  <2>4. /\ {"version", "features"} \subseteq DOMAIN preamble'
        /\ preamble'.version = preamble.version /\ preamble'.features = preamble.features
    <3>1. CASE preamble' = ReadNote
      BY <1>2, <3>1, NoteKeepsPreamble
    <3>2. CASE preamble' = preamble
      BY <1>2, <3>2
    <3>3. CASE preamble' = [preamble EXCEPT !.expects = preamble.expects \o ParseExpect(Line)]
      <4>1. PICK x : x = preamble.expects \o ParseExpect(Line)
        OBVIOUS
      <4>2. preamble' = [preamble EXCEPT !.expects = x]
        BY <3>3, <4>1
      <4> QED
        BY <1>2, <4>2
    <3> QED
      BY <2>2, <3>1, <3>2, <3>3
  <2> QED
    BY <1>2, <1>3, <2>2, <2>3, <2>4, StaysInPreamble
<1>7. CASE ~AtEnd /\ n[pos] = c + 1 /\ Matches(text[pos], plan[c + 1]) /\ pc' # "failed"
  <2>1. /\ c = 0 => PreambleSays(text[pos].text, "protocol", Version)
        /\ c = 1 => PreambleSays(text[pos].text, "features", FormatSet(script.features))
        /\ c = 2 => Line = <<"---">>
    BY <1>2, <1>7, PreambleHere
  <2>2. c + 1 \in 1..Len(plan)
    <3>1. Len(plan) >= 3
      <4>1. PICK t \in Nat : t = Total
        BY DEF World, Offsets
      <4>2. 0 \in 0..t
        OBVIOUS
      <4> QED
        BY <4>1, <4>2 DEF World, Offsets
    <3> QED
      BY <1>1, <1>2, <3>1
  <2>3. Firm(text[pos].text)
    BY <1>7, <2>2, PlannedIsFirm
  <2>4. /\ IsList(Line) /\ Line # <<>> /\ Line[1] \notin {"#", "expect", SP}
        /\ ~IsBlank /\ ~IsNote /\ ~IsExpect
    BY <2>3, FirmHere
  <2>5. script \in Scripts /\ PreambleLegible
    BY DEF World, AllLegible
  <2>6. ASSUME pos' = pos + 1
        PROVE  d = c + 1
    <3>1. pos' - 1 = pos
      BY <2>6 DEF InText
    <3> QED
      BY <1>7, <3>1
  <2>7. CASE c = 2
    <3>1. ~(About \in {<<"protocol">>, <<"features">>})
      <4>1. PICK m, p, f : m = "---" /\ p = "protocol" /\ f = "features"
        OBVIOUS
      <4>2. m \notin {SP, ":", p, f}
        BY <4>1 DEF SP
      <4>3. Line = <<m>> /\ Line[1] = m
        BY <2>1, <2>7, <4>1, TupleFacts
      <4>4. Trim(Upto(Line, ":"))[1] = m
        BY <2>4, <4>2, <4>3, AboutBegins
      <4> QED
        BY <4>1, <4>2, <4>4, TupleFacts DEF About
    <3>2. /\ pc' = "top" /\ pos' = pos + 1 /\ preamble' = preamble /\ entries' = entries
      BY <1>7, <2>4, <3>1 DEF ParsePreamble, Skip, Fail
    <3>3. d = 3
      BY <2>6, <2>7, <3>2
    <3> QED
      BY <1>3, <2>7, <3>2, <3>3, PreambleEnds
  <2>8. CASE c = 0
    <3>1. /\ Line # <<"---">> /\ About = <<"protocol">> /\ Value = Version
      BY <2>1, <2>8, PreambleAt
    <3>2. <<"protocol">> # <<"features">>
      OBVIOUS
    <3>3. /\ pc' = pc /\ pc = "preamble" /\ pos' = pos + 1 /\ entries' = entries
          /\ preamble' = [preamble EXCEPT !.version = ParseVersion(Value)]
      BY <1>7, <2>4, <3>1, <3>2 DEF ParsePreamble, Skip, Fail
    <3>4. ParseVersion(Version) = script.version
      BY <2>5, VersionIs
    <3>5. PICK v : v = script.version
      OBVIOUS
    <3>6. preamble' = [preamble EXCEPT !.version = v]
      BY <3>1, <3>3, <3>4, <3>5
    <3>7. {"version", "features"} \subseteq DOMAIN preamble' /\ preamble'.version = v
      BY <1>2, <3>6
    <3>8. d = 1
      BY <2>6, <2>8, <3>3
    <3> QED
      BY <1>3, <3>3, <3>5, <3>7, <3>8, StaysInPreamble
  <2>9. CASE c = 1
    <3>1. /\ Line # <<"---">> /\ About = <<"features">> /\ Value = FormatSet(script.features)
      BY <2>1, <2>9, PreambleAt
    <3>2. <<"protocol">> # <<"features">>
      OBVIOUS
    <3>3. /\ pc' = pc /\ pc = "preamble" /\ pos' = pos + 1 /\ entries' = entries
          /\ preamble' = [preamble EXCEPT !.features = ParseFeatures(Value)]
      BY <1>7, <2>4, <3>1, <3>2 DEF ParsePreamble, Skip, Fail
    <3>4. ParseFeatures(FormatSet(script.features)) = script.features
      BY <2>5, FeaturesAre
    <3>5. PICK v : v = script.features
      OBVIOUS
    <3>6. preamble' = [preamble EXCEPT !.features = v]
      BY <3>1, <3>3, <3>4, <3>5
    <3>7. /\ {"version", "features"} \subseteq DOMAIN preamble' /\ preamble'.features = v
          /\ preamble'.version = preamble.version
      BY <1>2, <3>6
    <3>8. d = 2 /\ preamble.version = script.version
      BY <1>2, <2>6, <2>9, <3>3
    <3> QED
      BY <1>3, <3>3, <3>5, <3>7, <3>8, StaysInPreamble
  <2> QED
    BY <1>2, <2>7, <2>8, <2>9
<1> QED
  BY <1>1, <1>4, <1>5, <1>6, <1>7 DEF IsNext, IsLast

-----------------------------------------------------------------------------
(* Calls, from their first line to the next.                               *)

LEMMA ArgsTold ==
  ASSUME NEW W, NEW off, NEW k \in 1..Total, NEW j \in 1..Size(W, k), NEW d, NEW w, w = Written(W, k),
         Ready, Timed(W), Entered(W, k - 1), k = Len(entries) + 1, d = off[k - 1] + j,
         UNCHANGED <<script, preamble, entries>>, pc' = "args",
         Absorbed(entry', w, j), Timely(entry', w), j >= 14 /\ entry'.op = "SetOptions" => overriding'
  PROVE  Told(W, off, d)'
<1>1. /\ Timed(W)' /\ Ready' /\ Entered(W, k - 1)'
  BY RestOfOperators
<1>2. Total' = Total /\ Size(W, k)' = Size(W, k) /\ Written(W, k)' = w
  BY ScriptStays, PlanStays
<1>3. InCall(W, off, d, k, j)'
  BY <1>1 DEF InCall
<1>4. Absorbed(entry, Written(W, k), j)' /\ Timely(entry, Written(W, k))'
  BY <1>2
<1>5. AtArgs(W, off, d)'
  BY <1>2, <1>3, <1>4 DEF AtArgs
<1> QED
  BY <1>5 DEF Told

LEMMA TailTold ==
  ASSUME NEW W, NEW off, NEW k \in 1..Total, NEW j \in 1..Size(W, k), NEW d, NEW w, w = Written(W, k),
         Ready, Timed(W), Entered(W, k - 1), k = Len(entries) + 1, d = off[k - 1] + j,
         UNCHANGED <<script, preamble, entries>>, pc' = "tail",
         DOMAIN entry' = {"at", "op", "variant", "args", "expects"}, Timely(entry', w),
         j = Size(W, k) => EntryIs(entry', w)
  PROVE  Told(W, off, d)'
<1>1. /\ Timed(W)' /\ Ready' /\ Entered(W, k - 1)'
  BY RestOfOperators
<1>2. Total' = Total /\ Size(W, k)' = Size(W, k) /\ Written(W, k)' = w
  BY ScriptStays, PlanStays
<1>3. InCall(W, off, d, k, j)'
  BY <1>1 DEF InCall
<1>4. Timely(entry, Written(W, k))' /\ (j = Size(W, k)' => EntryIs(entry, Written(W, k))')
  BY <1>2
<1>5. AtTail(W, off, d)'
  BY <1>2, <1>3, <1>4 DEF AtTail
<1> QED
  BY <1>5 DEF Told

\* The lines that are not the first of a call name no operation.
LEMMA BelowNamesNone ==
  ASSUME NEW w, IsSentCall(w), NEW j,
         \/ j \in 1..Fields(w) /\ FieldShows(w, j, text[pos].text)
         \/ \E m \in 1..Len(Overrides(w)) : AssignShows(Overrides(w)[m], text[pos].text)
  PROVE  \A o \in Ops : ~Names(o)
<1>1. PICK s : s = Line
  OBVIOUS
<1>2. IsList(s) /\ s # <<>> /\ s[1] # SP /\ s[1] \notin Ops
  <2>1. CASE j \in 1..Fields(w) /\ FieldShows(w, j, text[pos].text)
    <3>1. Indented(text[pos].text, s) /\ s[1] = KeyOf(w, j)
      BY <1>1, <2>1 DEF FieldShows, Line
    <3>2. KeyOf(w, j) \notin Ops
      BY <2>1, KeysAreFirm
    <3> QED
      BY <3>1, <3>2 DEF Indented
  <2>2. CASE \E m \in 1..Len(Overrides(w)) : AssignShows(Overrides(w)[m], text[pos].text)
    <3>1. Indented(text[pos].text, s) /\ s[1] = QT
      BY <1>1, <2>2 DEF AssignShows, Line
    <3> QED
      BY <3>1, OpsAreWords DEF Indented
  <2> QED
    BY <2>1, <2>2
<1>3. ASSUME NEW o \in Ops, Names(o)
      PROVE  FALSE
  <2>1. Upto(s, SP) = <<o>>
    BY <1>1, <1>3 DEF Names, OpOf
  <2>2. s[1] = o
    BY <1>2, <2>1, NamesNone
  <2> QED
    BY <1>2, <2>2
<1> QED
  BY <1>3

LEMMA TopSkips ==
  ASSUME NEW W, NEW plan, NEW off, NEW n, World(W, plan, off, n), NEW c, AtTop(W, off, c), ~AtEnd,
         pc' = "top", UNCHANGED <<script, preamble, entries>>
  PROVE  Told(W, off, c)'
<1>1. /\ Timed(W)' = Timed(W) /\ Ready' = Ready /\ \A m : Entered(W, m)' = Entered(W, m)
  BY RestOfOperators
<1>2. Total' = Total /\ \A k : Size(W, k)' = Size(W, k)
  BY ScriptStays, PlanStays
<1>3. Timed(W)'
  BY <1>1 DEF AtTop
<1>4. CASE Ready /\ Entered(W, Len(entries)) /\ c = off[Len(entries)]
  <2>1. Ready' /\ Entered(W, Len(entries))' /\ c = off[Len(entries)]'
    BY <1>1, <1>4
  <2>2. AtTop(W, off, c)'
    BY <1>3, <2>1 DEF AtTop
  <2> QED
    BY <2>2 DEF Told
<1>5. ASSUME Ready, Entered(W, Len(entries) - 1), NEW k \in 1..Total, NEW j \in 1..Size(W, k),
             k = Len(entries), c = off[k - 1] + j, j # Size(W, k)
      PROVE  Told(W, off, c)'
  <2>1. Ready' /\ Entered(W, Len(entries) - 1)'
    BY <1>1, <1>5
  <2>2. k = Len(entries)' /\ k \in 1..Total' /\ j \in 1..Size(W, k)' /\ j # Size(W, k)'
    BY <1>2, <1>5
  <2>3. AtTop(W, off, c)'
    BY <1>3, <1>5, <2>1, <2>2 DEF AtTop
  <2> QED
    BY <2>3 DEF Told
<1> QED
  BY <1>4, <1>5 DEF AtTop

LEMMA TopEnds ==
  ASSUME NEW W, NEW plan, NEW off, NEW n, World(W, plan, off, n), NEW c, AtTop(W, off, c),
         IsLast(plan, c), Len(plan) \in Nat, pc' = "pack", UNCHANGED <<script, edit, preamble, entries>>
  PROVE  Told(W, off, c)'
<1>1. PICK t \in Nat : t = Total
  BY DEF World, Offsets
<1>2. Timed(W) /\ Len(entries) \in Nat /\ Len(entries) <= t
  BY <1>1, ListFacts DEF AtTop, Timed
<1>3. PICK z \in Nat : z = Len(entries)
  BY <1>2
<1>4. /\ off[t] = Len(plan) /\ off[0] = 3
      /\ \A k \in 0..t : off[k] \in Nat /\ off[k] >= 3 /\ off[k] <= Len(plan)
      /\ \A k \in 1..t : Size(W, k) \in Nat \ {0} /\ off[k] = off[k - 1] + Size(W, k)
  BY <1>1 DEF World, Offsets
<1>5. /\ Entered(W, z - 1)
      /\ edit # "cut" => Ready /\ z = t /\ Entered(W, z)
  <2>1. CASE Ready /\ Entered(W, z) /\ c = off[z]
    <3>1. Entered(W, z - 1)
      BY <1>3, <2>1 DEF Entered
    <3>2. ASSUME edit # "cut"
          PROVE  z = t
      <4>1. off[z] = Len(plan)
        BY <2>1, <3>2 DEF IsLast
      <4>2. CASE z # t
        <5>1. PICK k : k = z + 1
          OBVIOUS
        <5>2. k \in 1..t /\ k \in 0..t /\ k - 1 = z
          BY <1>2, <1>3, <4>2, <5>1
        <5>3. off[k] = off[z] + Size(W, k) /\ Size(W, k) \in Nat \ {0} /\ off[k] <= Len(plan)
          BY <1>4, <5>2
        <5>4. FALSE
          BY <4>1, <5>3
        <5> QED
          BY <5>4
      <4> QED
        BY <4>2
    <3> QED
      BY <2>1, <3>1, <3>2
  <2>2. ASSUME Entered(W, z - 1), NEW k \in 1..t, NEW j \in 1..Size(W, k),
               c = off[k - 1] + j, j # Size(W, k)
        PROVE  edit = "cut"
    <3>1. k \in 0..t /\ k - 1 \in 0..t
      OBVIOUS
    <3>2. off[k] = off[k - 1] + Size(W, k) /\ off[k] <= Len(plan) /\ off[k - 1] \in Nat /\ Size(W, k) \in Nat
      BY <1>4, <3>1
    <3>3. PICK a \in Nat, y \in Nat, l \in Nat : a = off[k - 1] /\ y = Size(W, k) /\ l = Len(plan)
      BY <3>2
    <3>4. j \in 1..y /\ j # y /\ c = a + j /\ a + y <= l
      BY <2>2, <3>2, <3>3
    <3>5. c # l
      BY <3>3, <3>4
    <3> QED
      BY <3>3, <3>5 DEF IsLast
  <2>3. CASE AtEnd /\ c < 3 /\ entries = <<>>
    <3>1. edit = "cut"
      <4>1. 0 \in 0..t
        OBVIOUS
      <4>2. 3 <= Len(plan)
        BY <1>4, <4>1
      <4> QED
        BY <2>3, <4>2 DEF IsLast
    <3>2. Entered(W, z - 1)
      BY <1>1, <1>3, <2>3, NothingEntered
    <3> QED
      BY <3>1, <3>2
  <2> QED
    BY <1>1, <1>3, <2>1, <2>2, <2>3 DEF AtTop
<1>6. /\ Timed(W)' = Timed(W) /\ Ready' = Ready /\ (\A m : Entered(W, m)' = Entered(W, m)) /\ Total' = Total
  BY RestOfOperators, ScriptStays
<1>7. AtPack(W)'
  <2>1. Timed(W)' /\ Entered(W, Len(entries) - 1)'
    BY <1>2, <1>3, <1>5, <1>6
  <2>2. edit' # "cut" => Ready' /\ Len(entries)' = Total' /\ Entered(W, Total)'
    BY <1>1, <1>3, <1>5, <1>6
  <2> QED
    BY <2>1, <2>2 DEF AtPack
<1> QED
  BY <1>7 DEF Told

-----------------------------------------------------------------------------

\* An operation without lines below its own.
LEMMA OneLineCall ==
  ASSUME NEW w, IsCarriedCall(w), w.op \in ComplexOps \/ ParseKeys(w.op) = <<>>
  PROVE  Fields(w) = 0 /\ Overrides(w) = <<>>
<1>1. PICK op, ks, table : op = w.op /\ ks = FormatKeys(w.variant) /\ table = ParseKeys(w.op)
  OBVIOUS
<1>2. IsSentCall(w)
  BY DEF IsCarriedCall
<1>3. op \in Ops /\ KeysMatch(op, ks, table)
  BY <1>1, <1>2, KeysOf DEF IsSentCall
<1>4. PICK x : x = <<>>
  OBVIOUS
<1>5. Len(x) = 0 /\ DOMAIN x = {}
  <2>1. IsList(x) /\ Len(x) = 0
    BY <1>4, EmptyIsList
  <2>2. DOMAIN x = 1..Len(x)
    BY <2>1, ListFacts
  <2> QED
    BY <2>1, <2>2
<1>6. Len(ks) = 0
  <2>1. CASE op \in ComplexOps
    BY <1>3, <1>4, <1>5, <2>1 DEF KeysMatch
  <2>2. CASE table = x
    <3>1. /\ Len(ks) \in 0..13 /\ \A i \in 1..Len(ks) : ks[i][1] \in DOMAIN table
      BY <1>3 DEF KeysMatch
    <3>2. \A i \in 1..Len(ks) : FALSE
      BY <1>5, <2>2, <3>1
    <3> QED
      BY <3>1, <3>2
  <2> QED
    BY <1>1, <1>4, <2>1, <2>2
<1>7. Fields(w) = 0
  BY <1>1, <1>6 DEF Fields
<1>8. w.op # "SetOptions"
  BY <1>2, <1>7, OverridesLast
<1> QED
  BY <1>7, <1>8 DEF Overrides

LEMMA BeginsCall ==
  ASSUME NEW W, NEW plan, NEW off, NEW n, World(W, plan, off, n), NEW k \in 1..Total,
         Ready, Timed(W), Entered(W, k - 1), k = Len(entries) + 1,
         Matches(text[pos], plan[off[k - 1] + 1]), ParseTop, ~AtEnd, pc' # "failed",
         NEW d, d = off[k - 1] + 1, off[k - 1] + 1 \in 1..Len(plan)
  PROVE  Told(W, off, d)' /\ pos' = pos + 1
<1>1. PICK w, u, j : w = Written(W, k) /\ u = text[pos].text /\ j = 1
  OBVIOUS
<1>2. HeadBacks(w, u) /\ text[pos].at \in {None, Some(Micros(w.at))}
  BY <1>1, HeadHere
<1>3. /\ IsCarriedCall(w) /\ IsSentCall(w) /\ Size(W, k) \in Nat \ {0}
      /\ Size(W, k) = (1 + Fields(w)) + Len(Overrides(w))
  BY <1>1, WrittenCall
<1>4. PICK a : a = Trim(Beyond(Line, SP))
  OBVIOUS
<1>5. OpOf = <<w.op>> /\ Reads(w, a)
  BY <1>1, <1>2, <1>4 DEF HeadBacks, OpOf, Line
<1>6. ~IsBlank /\ ~IsNote
  <2>1. Firm(text[pos].text)
    BY PlannedIsFirm
  <2> QED
    BY <2>1, FirmHere
<1>7. \A o : Names(o) => o = w.op
  BY <1>5, TupleFacts DEF Names
<1>8. w.op \in Ops /\ Names(w.op) /\ ~HeadIsBad(w.op, a)
  BY <1>3, <1>5 DEF IsSentCall, Names, Reads
<1>9. /\ entry' = NewEntry(w.op) /\ pos' = pos + 1
      /\ pc' = (IF w.op \in ComplexOps \/ ParseKeys(w.op) # <<>> THEN "args" ELSE "tail")
      /\ UNCHANGED <<script, text, files, edit, preamble, overriding, entries>>
  BY <1>4, <1>6, <1>7, <1>8 DEF ParseTop, Skip, Fail
<1>10. PICK at, call : at = text[pos].at /\ call = ParseCall(w.op, a)
  OBVIOUS
<1>11. PICK e : e = [at |-> at, op |-> w.op, variant |-> call.variant, args |-> call.args, expects |-> <<>>]
  OBVIOUS
<1>12. entry' = e
  BY <1>4, <1>9, <1>10, <1>11 DEF NewEntry
<1>13. Absorbed(e, w, 1) /\ e.at = at
  BY <1>3, <1>5, <1>10, <1>11, HeadAbsorbed
<1>14. Timely(e, w)
  BY <1>2, <1>10, <1>13 DEF Timely
<1>15. j \in 1..Size(W, k) /\ ~(j >= 14)
  BY <1>1, <1>3
<1>16. CASE pc' = "args"
  BY <1>1, <1>9, <1>12, <1>13, <1>14, <1>15, <1>16, ArgsTold
<1>17. CASE pc' = "tail"
  <2>1. Fields(w) = 0 /\ Overrides(w) = <<>>
    <3>1. w.op \in ComplexOps \/ ParseKeys(w.op) = <<>>
      BY <1>9, <1>17
    <3> QED
      BY <1>3, <3>1, OneLineCall
  <2>2. Size(W, k) = 1
    BY <1>3, <2>1, EmptyIsList
  <2>3. EntryIs(e, w)
    BY <1>3, <1>13, <2>2, AllAbsorbed
  <2>4. DOMAIN e = {"at", "op", "variant", "args", "expects"}
    BY <1>13 DEF Absorbed
  <2> QED
    BY <1>1, <1>9, <1>12, <1>14, <1>15, <1>17, <2>3, <2>4, TailTold
<1> QED
  BY <1>9, <1>16, <1>17

LEMMA TopTold ==
  ASSUME NEW W, NEW plan, NEW off, NEW n, World(W, plan, off, n), InText, pc = "top",
         NEW c, c = n[pos - 1], AtTop(W, off, c), ParseTop, NEW d, d = n[pos' - 1]
  PROVE  Told(W, off, d)'
<1>1. (IsNext(plan, n, c) \/ IsLast(plan, c)) /\ Len(plan) \in Nat /\ c \in 0..Len(plan)
  BY LineHere
<1>2. UNCHANGED <<script, text, files, edit, offsets>>
  BY DEF ParseTop
<1>3. CASE pc' = "failed"
  BY <1>3 DEF Told
<1>4. CASE AtEnd
  <2>1. pc' = "pack" /\ UNCHANGED parser
    BY <1>4 DEF ParseTop
  <2>2. pos' = pos /\ preamble' = preamble /\ entries' = entries /\ d = c
    BY <2>1 DEF parser
  <2>3. IsLast(plan, c)
    BY <1>1, <1>4 DEF IsNext
  <2> QED
    BY <1>1, <1>2, <2>1, <2>2, <2>3, TopEnds
<1>5. CASE ~AtEnd /\ n[pos] = c /\ IsGap(text[pos]) /\ pc' # "failed"
  <2>1. \A o \in Ops : ~Names(o)
    BY <1>5, GapHere
  <2>2. pc' = "top" /\ pos' = pos + 1 /\ preamble' = preamble /\ entries' = entries
    BY <1>5, <2>1 DEF ParseTop, Skip, Fail
  <2>3. d = c
    <3>1. pos' - 1 = pos
      BY <2>2 DEF InText
    <3> QED
      BY <1>5, <3>1
  <2> QED
    BY <1>2, <1>5, <2>2, <2>3, TopSkips
<1>6. CASE /\ ~AtEnd /\ n[pos] = c + 1 /\ c + 1 \in 1..Len(plan) /\ Matches(text[pos], plan[c + 1])
           /\ pc' # "failed"
  <2>1. Timed(W)
    BY DEF AtTop
  <2>2. PICK t \in Nat, z \in Nat : t = Total /\ z = Len(entries) /\ z <= t
    <3>1. Total \in Nat
      BY DEF World, Offsets
    <3>2. Len(entries) \in Nat /\ Len(entries) <= Total
      BY <2>1, ListFacts DEF Timed
    <3> QED
      BY <3>1, <3>2
  <2>3. CASE Ready /\ Entered(W, z) /\ c = off[z]
    <3>1. z # t
      <4>1. off[t] = Len(plan)
        BY <2>2 DEF World, Offsets
      <4> QED
        BY <1>1, <1>6, <2>3, <4>1
    <3>2. PICK k : k = z + 1
      OBVIOUS
    <3>3. k \in 1..Total /\ k - 1 = z
      BY <2>2, <3>1, <3>2
    <3>4. PICK b : b = c + 1
      OBVIOUS
    <3>5. Told(W, off, b)' /\ pos' = pos + 1
      <4>1. c = off[k - 1] /\ Entered(W, k - 1) /\ k = Len(entries) + 1
        BY <2>2, <2>3, <3>2, <3>3
      <4> QED
        BY <1>6, <2>1, <2>3, <3>3, <3>4, <4>1, BeginsCall
    <3>6. d = b
      <4>1. pos' - 1 = pos
        BY <3>5 DEF InText
      <4> QED
        BY <1>6, <3>4, <4>1
    <3> QED
      BY <3>5, <3>6
  <2>4. ASSUME NEW k \in 1..Total, NEW j \in 1..Size(W, k), j # Size(W, k), c = off[k - 1] + j
        PROVE  FALSE
    <3>1. PICK w : w = Written(W, k)
      OBVIOUS
    <3>2. IsSentCall(w)
      BY <3>1, WrittenCall
    <3>3. \/ j \in 1..Fields(w) /\ FieldShows(w, j, text[pos].text)
          \/ \E m \in 1..Len(Overrides(w)) : AssignShows(Overrides(w)[m], text[pos].text)
      BY <1>6, <2>4, <3>1, BelowHere
    <3>4. \A o \in Ops : ~Names(o)
      BY <3>2, <3>3, BelowNamesNone
    <3>5. ~IsBlank /\ ~IsNote
      <4>1. Firm(text[pos].text)
        BY <1>6, PlannedIsFirm
      <4> QED
        BY <4>1, FirmHere
    <3> QED
      BY <1>6, <3>4, <3>5 DEF ParseTop, Fail
  <2> QED
    BY <1>6, <2>2, <2>3, <2>4 DEF AtTop
<1> QED
  BY <1>1, <1>3, <1>4, <1>5, <1>6 DEF IsNext, IsLast

-----------------------------------------------------------------------------

\* The line behind the last one of a call is not indented.
LEMMA BehindCall ==
  ASSUME NEW W, NEW plan, NEW off, NEW n, World(W, plan, off, n), NEW k \in 1..Total,
         off[k] + 1 \in 1..Len(plan), Len(plan) \in Nat, Matches(text[pos], plan[off[k] + 1])
  PROVE  ~IsIndented
<1>1. PICK t \in Nat : t = Total /\ off[t] = Len(plan) /\ k \in 1..t
  BY DEF World, Offsets
<1>2. k # t
  BY <1>1
<1>3. PICK m : m = k + 1
  OBVIOUS
<1>4. m \in 1..Total /\ m - 1 = k
  BY <1>1, <1>2, <1>3
<1>5. PICK w : w = Written(W, m)
  OBVIOUS
<1>6. IsSentCall(w)
  BY <1>4, <1>5, WrittenCall
<1>7. HeadBacks(w, text[pos].text)
  <2>1. off[k] = off[m - 1]
    BY <1>4
  <2>2. PICK c : c = off[k]
    OBVIOUS
  <2>3. c = off[m - 1] /\ Matches(text[pos], plan[c + 1])
    BY <2>1, <2>2
  <2> QED
    BY <1>4, <1>5, <2>3, HeadHere
<1>8. text[pos].text[1] # SP
  BY <1>6, <1>7, OpsAreWords DEF HeadBacks, IsSentCall
<1> QED
  BY <1>8 DEF IsIndented

\* A field is read, and kept under its key.
LEMMA FieldRead ==
  ASSUME NEW w, IsCarriedCall(w), NEW j \in 1..Fields(w), FieldShows(w, j, text[pos].text),
         entry.op = w.op
  PROVE  /\ ~StartsWith(Line, QT) /\ Key = KeyOf(w, j) /\ Key # "none"
         /\ (Key = "overrides" <=> HowOf(w, j) = "assignments")
         /\ Key # "overrides" => ParseValue(How, Value) = ValueOf(w, j)
         /\ How = TakenAs(HowOf(w, j)) /\ Value = FormatValue(HowOf(w, j), ValueOf(w, j))
<1>1. PICK s : s = Line
  OBVIOUS
<1>2. IsSentCall(w)
  BY DEF IsCarriedCall
<1>3. /\ Indented(text[pos].text, s) /\ s[1] = KeyOf(w, j) /\ Mentions(s, ":")
      /\ Trim(Upto(s, ":")) = <<KeyOf(w, j)>>
      /\ Trim(Beyond(s, ":")) = FormatValue(HowOf(w, j), ValueOf(w, j))
  BY <1>1 DEF FieldShows, Line
<1>4. KeyOf(w, j) # QT
  BY <1>2, KeysAreFirm
<1>5. ~StartsWith(Line, QT)
  BY <1>1, <1>3, <1>4 DEF StartsWith
<1>6. About = <<KeyOf(w, j)>> /\ Value = FormatValue(HowOf(w, j), ValueOf(w, j))
  BY <1>1, <1>3 DEF About, Value
<1>7. /\ KeyOf(w, j) \in DOMAIN ParseKeys(w.op) /\ KeyOf(w, j) # "none"
      /\ ParseKeys(w.op)[KeyOf(w, j)] = TakenAs(HowOf(w, j)) /\ HowOf(w, j) \in Hows
      /\ (HowOf(w, j) = "assignments" <=> KeyOf(w, j) = "overrides")
  BY <1>2, KeysOfCall
<1>8. Key = KeyOf(w, j)
  <2>1. Len(About) = 1 /\ About[1] = KeyOf(w, j)
    BY <1>6, TupleFacts
  <2> QED
    BY <1>1, <1>3, <1>7, <2>1 DEF Key
<1>9. How = TakenAs(HowOf(w, j))
  BY <1>7, <1>8 DEF How
<1>10. ASSUME Key # "overrides"
       PROVE  ParseValue(How, Value) = ValueOf(w, j)
  <2>1. IsSentValue(HowOf(w, j), ValueOf(w, j)) /\ Survives(HowOf(w, j), ValueOf(w, j))
    BY <1>2 DEF IsCarriedCall, IsSentCall
  <2>2. HowOf(w, j) # "assignments"
    BY <1>7, <1>8, <1>10
  <2>3. ParseValue(TakenAs(HowOf(w, j)), FormatValue(HowOf(w, j), ValueOf(w, j))) = ValueOf(w, j)
    BY <1>7, <2>1, <2>2, ValueBack
  <2> QED
    BY <1>6, <1>9, <2>3
<1> QED
  BY <1>5, <1>6, <1>7, <1>8, <1>9, <1>10

LEMMA AssignRead ==
  ASSUME NEW w, IsSentCall(w), entry.op = w.op, NEW p, AssignShows(p, text[pos].text)
  PROVE  /\ StartsWith(Line, QT) /\ Key = "none"
         /\ IsAssignment(Line) /\ ParseAssignment(Line) = p
<1>1. PICK s : s = Line
  OBVIOUS
<1>2. /\ Indented(text[pos].text, s) /\ s[1] = QT /\ IsAssignment(s) /\ ParseAssignment(s) = p
  BY <1>1 DEF AssignShows, Line
<1>3. IsList(s) /\ s # <<>>
  BY <1>2 DEF Indented
<1>4. StartsWith(s, QT)
  BY <1>2, <1>3 DEF StartsWith
<1>5. Key = "none"
  <2>1. QT \notin {SP, ":"}
    BY DEF QT, SP
  <2>2. Trim(Upto(s, ":"))[1] = QT
    BY <1>2, <1>3, <2>1, AboutBegins
  <2>3. About[1] = QT
    BY <1>1, <2>2 DEF About
  <2>4. QT \notin DOMAIN ParseKeys(entry.op)
    BY KeysOfCall
  <2> QED
    BY <2>3, <2>4 DEF Key
<1> QED
  BY <1>1, <1>2, <1>4, <1>5

\* A line below the operation's is taken in.
LEMMA TakesLine ==
  ASSUME NEW W, NEW plan, NEW off, NEW n, World(W, plan, off, n), NEW k \in 1..Total,
         NEW w, w = Written(W, k), NEW j \in 1..Size(W, k), j # Size(W, k),
         NEW c, InCall(W, off, c, k, j), Absorbed(entry, w, j), Timely(entry, w),
         j >= 14 /\ entry.op = "SetOptions" => overriding,
         Matches(text[pos], plan[c + 1]), ParseArgs, IsTheirs, pc' # "failed",
         NEW d, d = c + 1
  PROVE  Told(W, off, d)' /\ pos' = pos + 1
<1>1. /\ Ready /\ Timed(W) /\ Entered(W, k - 1) /\ k = Len(entries) + 1 /\ c = off[k - 1] + j
  BY DEF InCall
<1>2. /\ IsCarriedCall(w) /\ IsSentCall(w) /\ Size(W, k) \in Nat \ {0} /\ Len(Overrides(w)) \in Nat
      /\ Size(W, k) = (1 + Fields(w)) + Len(Overrides(w)) /\ off[k - 1] \in Nat /\ Fields(w) \in 0..13
  BY WrittenCall
<1>3. PICK i : i = j + 1
  OBVIOUS
<1>4. i \in 1..Size(W, k) /\ d = off[k - 1] + i
  BY <1>1, <1>2, <1>3
<1>5. \/ j \in 1..Fields(w) /\ FieldShows(w, j, text[pos].text)
      \/ \E m \in 1..Len(Overrides(w)) : /\ w.op = "SetOptions" /\ j = 13 + m
                                         /\ AssignShows(Overrides(w)[m], text[pos].text)
  BY <1>1, BelowHere
<1>6. entry.op = w.op /\ DOMAIN entry = {"at", "op", "variant", "args", "expects"}
  BY DEF Absorbed
<1>7. UNCHANGED <<script, text, files, edit, offsets>>
  BY DEF ParseArgs
<1>8. CASE j \in 1..Fields(w) /\ FieldShows(w, j, text[pos].text)
  <2>1. /\ ~StartsWith(Line, QT) /\ Key = KeyOf(w, j) /\ Key # "none"
        /\ (Key = "overrides" <=> HowOf(w, j) = "assignments")
        /\ Key # "overrides" => ParseValue(How, Value) = ValueOf(w, j)
    BY <1>2, <1>6, <1>8, FieldRead
  <2>2. CASE Key = "overrides"
    <3>1. /\ overriding' = TRUE /\ pos' = pos + 1 /\ pc' = pc /\ pc = "args"
          /\ preamble' = preamble /\ entry' = entry /\ entries' = entries
      BY <2>1, <2>2 DEF ParseArgs, Skip, Fail
    <3>2. Absorbed(entry, w, i)
      BY <1>2, <1>3, <1>8, <2>1, <2>2, OverridesBegin
    <3> QED
      BY <1>1, <1>4, <1>7, <3>1, <3>2, ArgsTold
  <2>3. CASE Key # "overrides"
    <3>1. /\ entry' = [entry EXCEPT !.args[Key] = ParseValue(How, Value)]
          /\ pos' = pos + 1 /\ pc' = (IF entry.op = "AddBuildLog" THEN "tail" ELSE "args")
          /\ preamble' = preamble /\ entries' = entries
      BY <2>1, <2>3 DEF ParseArgs, Skip, Fail
    <3>2. PICK key, x : key = Key /\ x = ParseValue(How, Value)
      OBVIOUS
    <3>3. PICK e : e = [entry EXCEPT !.args[key] = x]
      OBVIOUS
    <3>4. entry' = e
      BY <3>1, <3>2, <3>3
    <3>5. HowOf(w, j) # "assignments" /\ key = KeyOf(w, j) /\ x = ValueOf(w, j)
      BY <2>1, <2>3, <3>2
    <3>6. Absorbed(e, w, j + 1) /\ e.at = entry.at
      BY <1>2, <1>8, <3>3, <3>5, FieldAbsorbed
    <3>7. Absorbed(e, w, i) /\ Timely(e, w)
      BY <1>3, <3>6 DEF Timely
    <3>8. e.op = w.op /\ DOMAIN e = {"at", "op", "variant", "args", "expects"}
      BY <3>7 DEF Absorbed
    <3>9. CASE entry.op = "AddBuildLog"
      <4>1. Fields(w) = 1 /\ Overrides(w) = <<>>
        <5>1. w.op = "AddBuildLog"
          BY <1>6, <3>9
        <5>2. "AddBuildLog" # "SetOptions"
          OBVIOUS
        <5> QED
          BY <1>2, <5>1, <5>2, KeysOfCall DEF Overrides
      <4>2. Len(Overrides(w)) = 0
        BY <4>1, EmptyIsList
      <4>3. Size(W, k) = i
        BY <1>2, <1>3, <1>8, <4>1, <4>2
      <4>4. EntryIs(e, w)
        BY <1>2, <3>7, <4>3, AllAbsorbed
      <4>5. pc' = "tail"
        BY <3>1, <3>9
      <4>6. /\ DOMAIN entry' = {"at", "op", "variant", "args", "expects"} /\ Timely(entry', w)
            /\ i = Size(W, k) => EntryIs(entry', w)
        BY <3>4, <3>7, <3>8, <4>4
      <4>7. UNCHANGED <<script, preamble, entries>>
        BY <1>7, <3>1
      <4>8. Told(W, off, d)'
        BY <1>1, <1>4, <4>5, <4>6, <4>7, TailTold
      <4> QED
        BY <3>1, <4>8
    <3>10. CASE entry.op # "AddBuildLog"
      <4>1. ~(i >= 14 /\ e.op = "SetOptions")
        <5>1. ASSUME w.op = "SetOptions"
              PROVE  ~(i >= 14)
          <6>1. Fields(w) = 13 /\ HowOf(w, 13) = "assignments"
            BY <1>2, <5>1, OverridesLast
          <6>2. j # 13
            BY <3>5, <6>1
          <6> QED
            BY <1>3, <1>8, <6>1, <6>2
        <5> QED
          BY <3>8, <5>1
      <4>2. pc' = "args"
        BY <3>1, <3>10
      <4> QED
        BY <1>1, <1>4, <1>7, <3>1, <3>4, <3>7, <4>1, <4>2, ArgsTold
    <3> QED
      BY <3>1, <3>9, <3>10
  <2> QED
    BY <2>2, <2>3
<1>9. ASSUME NEW m \in 1..Len(Overrides(w)), w.op = "SetOptions", j = 13 + m,
             AssignShows(Overrides(w)[m], text[pos].text)
      PROVE  Told(W, off, d)' /\ pos' = pos + 1
  <2>1. PICK p : p = Overrides(w)[m]
    OBVIOUS
  <2>2. StartsWith(Line, QT) /\ Key = "none" /\ IsAssignment(Line) /\ ParseAssignment(Line) = p
    BY <1>2, <1>6, <1>9, <2>1, AssignRead
  <2>3. overriding
    BY <1>2, <1>6, <1>9
  <2>4. /\ entry' = [entry EXCEPT !.args.overrides = Append(@, ParseAssignment(Line))]
        /\ pos' = pos + 1 /\ pc' = pc /\ pc = "args"
        /\ preamble' = preamble /\ overriding' = overriding /\ entries' = entries
    BY <2>2, <2>3 DEF ParseArgs, Skip, Fail
  <2>5. PICK e : e = [entry EXCEPT !.args.overrides = Append(@, p)]
    OBVIOUS
  <2>6. entry' = e
    BY <2>2, <2>4, <2>5
  <2>7. Absorbed(e, w, j + 1) /\ e.at = entry.at
    BY <1>2, <1>9, <2>1, <2>5, AssignAbsorbed
  <2>8. Absorbed(e, w, i) /\ Timely(e, w)
    BY <1>3, <2>7 DEF Timely
  <2> QED
    BY <1>1, <1>4, <1>7, <2>3, <2>4, <2>6, <2>8, ArgsTold
<1> QED
  BY <1>5, <1>8, <1>9

LEMMA ArgsStep ==
  ASSUME NEW W, NEW plan, NEW off, NEW n, World(W, plan, off, n), InText, pc = "args",
         NEW c, c = n[pos - 1], AtArgs(W, off, c), ParseArgs, NEW d, d = n[pos' - 1]
  PROVE  Told(W, off, d)'
<1>1. (IsNext(plan, n, c) \/ IsLast(plan, c)) /\ Len(plan) \in Nat /\ c \in 0..Len(plan)
  BY LineHere
<1>2. PICK k \in 1..Total : \E j \in 1..Size(W, k) :
        /\ InCall(W, off, c, k, j)
        /\ Absorbed(entry, Written(W, k), j) /\ Timely(entry, Written(W, k))
        /\ j >= 14 /\ entry.op = "SetOptions" => overriding
  BY DEF AtArgs
<1>3. PICK w : w = Written(W, k)
  OBVIOUS
<1>4. PICK j \in 1..Size(W, k) :
        /\ InCall(W, off, c, k, j) /\ Absorbed(entry, w, j) /\ Timely(entry, w)
        /\ j >= 14 /\ entry.op = "SetOptions" => overriding
  BY <1>2, <1>3
<1>5. /\ IsSentCall(w) /\ Size(W, k) \in Nat \ {0} /\ off[k] = off[k - 1] + Size(W, k) /\ off[k - 1] \in Nat
      /\ Size(W, k) = (1 + Fields(w)) + Len(Overrides(w))
  BY <1>3, WrittenCall
<1>6. /\ Ready /\ Timed(W) /\ Entered(W, k - 1) /\ k = Len(entries) + 1 /\ c = off[k - 1] + j
  BY <1>4 DEF InCall
<1>7. UNCHANGED <<script, text, files, edit, offsets>>
  BY DEF ParseArgs
<1>8. CASE pc' = "failed"
  BY <1>8 DEF Told
<1>9. CASE ~IsTheirs
  <2>1. pc' = "tail" /\ pos' = pos /\ preamble' = preamble /\ entry' = entry /\ entries' = entries
    BY <1>9 DEF ParseArgs
  <2>2. d = c
    BY <2>1
  <2>3. DOMAIN entry = {"at", "op", "variant", "args", "expects"}
    BY <1>4 DEF Absorbed
  <2>4. j = Size(W, k) => EntryIs(entry, w)
    BY <1>4, <1>5, AllAbsorbed
  <2> QED
    BY <1>3, <1>4, <1>6, <1>7, <2>1, <2>2, <2>3, <2>4, TailTold
<1>10. CASE IsTheirs /\ pc' # "failed"
  <2>1. ~AtEnd /\ IsIndented /\ ~(IsBlank \/ IsNote \/ IsExpect)
    BY <1>10 DEF IsTheirs
  <2>2. ~IsGap(text[pos])
    BY <2>1, GapHere
  <2>3. n[pos] = c + 1 /\ c + 1 \in 1..Len(plan) /\ Matches(text[pos], plan[c + 1])
    BY <1>1, <2>1, <2>2 DEF IsNext, IsLast
  <2>4. j # Size(W, k)
    <3>1. ASSUME j = Size(W, k)
          PROVE  FALSE
      <4>1. c = off[k]
        BY <1>5, <1>6, <3>1
      <4>2. off[k] + 1 \in 1..Len(plan) /\ Matches(text[pos], plan[off[k] + 1])
        BY <2>3, <4>1
      <4> QED
        BY <1>1, <2>1, <4>2, BehindCall
    <3> QED
      BY <3>1
  <2>5. PICK b : b = c + 1
    OBVIOUS
  <2>6. Told(W, off, b)' /\ pos' = pos + 1
    BY <1>3, <1>4, <1>10, <2>3, <2>4, <2>5, TakesLine
  <2>7. d = b
    <3>1. pos' - 1 = pos
      BY <2>6 DEF InText
    <3> QED
      BY <2>3, <2>5, <3>1
  <2> QED
    BY <2>6, <2>7
<1> QED
  BY <1>8, <1>9, <1>10

-----------------------------------------------------------------------------
(* The end of an operation, and packing.                                   *)

Appended(s, x) == Append(s, x)

LEMMA AppendedIs ==
  ASSUME NEW s, IsList(s), NEW x, NEW t, t = Appended(s, x), NEW k, k = Len(s) + 1
  PROVE  IsList(t) /\ Len(t) = k /\ Len(s) \in Nat /\ t[k] = x /\ \A i \in 1..Len(s) : t[i] = s[i]
<1>1. PICK S : s \in Seq(S)
  BY DEF IsList
<1>2. IsList(t) /\ Len(t) = Len(s) + 1
  BY ListAppended DEF Appended
<1> QED
  BY <1>1, <1>2 DEF Appended

LEMMA CallEnds ==
  ASSUME NEW W, NEW plan, NEW off, NEW n, World(W, plan, off, n), NEW c,
         NEW k \in 1..Total, NEW j \in 1..Size(W, k), InCall(W, off, c, k, j),
         NEW w, w = Written(W, k), Timely(entry, w), j = Size(W, k) => EntryIs(entry, w),
         pc' = "top", entries' = Append(entries, entry), UNCHANGED <<script, preamble>>
  PROVE  Told(W, off, c)'
<1>1. /\ Ready /\ Timed(W) /\ Entered(W, k - 1) /\ k = Len(entries) + 1 /\ c = off[k - 1] + j
  BY DEF InCall
<1>2. off[k] = off[k - 1] + Size(W, k) /\ Total \in Nat
  BY WrittenCall
<1>3. PICK s, t : s = entries /\ t = Append(s, entry)
  OBVIOUS
<1>4. IsList(s) /\ \A i \in 1..Len(s) : Timely(s[i], Written(W, i))
  BY <1>1, <1>3 DEF Timed
<1>5. /\ IsList(t) /\ Len(t) = k /\ Len(s) \in Nat /\ k - 1 = Len(s) /\ t[k] = entry
      /\ \A i \in 1..(k - 1) : t[i] = s[i]
  <2>1. PICK e : e = entry
    OBVIOUS
  <2>2. IsList(s) /\ t = Appended(s, e) /\ k = Len(s) + 1
    BY <1>1, <1>3, <1>4, <2>1 DEF Appended
  <2>3. IsList(t) /\ Len(t) = k /\ Len(s) \in Nat /\ t[k] = e /\ \A i \in 1..Len(s) : t[i] = s[i]
    BY <2>2, AppendedIs
  <2>4. k - 1 = Len(s)
    BY <2>2, <2>3
  <2> QED
    BY <2>1, <2>3, <2>4
<1>6. /\ Total' = Total /\ (\A i : Written(W, i)' = Written(W, i)) /\ \A i : Size(W, i)' = Size(W, i)
  BY ScriptStays, PlanStays
<1>7. entries' = t /\ preamble' = preamble
  BY <1>3
<1>8. \A i \in 1..k : Timely(t[i], Written(W, i))
  <2> SUFFICES ASSUME NEW i \in 1..k
               PROVE  Timely(t[i], Written(W, i))
    OBVIOUS
  <2>1. i = k \/ i \in 1..(k - 1)
    BY <1>2
  <2> QED
    BY <1>4, <1>5, <2>1
<1>9. Timed(W)'
  <2>1. k <= Total
    BY <1>2
  <2>2. \A i \in 1..k : Timely(entries[i], Written(W, i))'
    BY <1>6, <1>7, <1>8 DEF Timely
  <2> QED
    BY <1>5, <1>6, <1>7, <2>1, <2>2 DEF Timed
<1>10. \A i \in 1..(k - 1) : EntryIs(t[i], Written(W, i))
  BY <1>1, <1>3, <1>5 DEF Entered
<1>11. Entered(W, k - 1)'
  BY <1>6, <1>7, <1>10 DEF Entered
<1>12. Ready'
  BY <1>1, <1>7 DEF Ready
<1>13. Len(entries)' = k
  BY <1>5, <1>7
<1>14. CASE j = Size(W, k)
  <2>1. \A i \in 1..k : EntryIs(t[i], Written(W, i))
    <3> SUFFICES ASSUME NEW i \in 1..k
                 PROVE  EntryIs(t[i], Written(W, i))
      OBVIOUS
    <3>1. i = k \/ i \in 1..(k - 1)
      BY <1>2
    <3> QED
      BY <1>5, <1>10, <1>14, <3>1
  <2>2. Entered(W, k)'
    BY <1>6, <1>7, <2>1 DEF Entered
  <2>3. c = off[k]
    BY <1>1, <1>2, <1>14
  <2>4. AtTop(W, off, c)'
    BY <1>9, <1>12, <1>13, <2>2, <2>3 DEF AtTop
  <2> QED
    BY <2>4 DEF Told
<1>15. CASE j # Size(W, k)
  <2>1. AtTop(W, off, c)'
    BY <1>1, <1>6, <1>9, <1>11, <1>12, <1>13, <1>15 DEF AtTop
  <2> QED
    BY <2>1 DEF Told
<1> QED
  BY <1>14, <1>15

LEMMA TailStep ==
  ASSUME NEW W, NEW plan, NEW off, NEW n, World(W, plan, off, n), InText, pc = "tail",
         NEW c, c = n[pos - 1], AtTail(W, off, c), ParseTail, NEW d, d = n[pos' - 1]
  PROVE  Told(W, off, d)'
<1>1. (IsNext(plan, n, c) \/ IsLast(plan, c)) /\ Len(plan) \in Nat /\ c \in 0..Len(plan)
  BY LineHere
<1>2. PICK k \in 1..Total : \E j \in 1..Size(W, k) :
        /\ InCall(W, off, c, k, j)
        /\ DOMAIN entry = {"at", "op", "variant", "args", "expects"} /\ Timely(entry, Written(W, k))
        /\ j = Size(W, k) => EntryIs(entry, Written(W, k))
  BY DEF AtTail
<1>3. PICK w : w = Written(W, k)
  OBVIOUS
<1>4. PICK j \in 1..Size(W, k) :
        /\ InCall(W, off, c, k, j)
        /\ DOMAIN entry = {"at", "op", "variant", "args", "expects"} /\ Timely(entry, w)
        /\ j = Size(W, k) => EntryIs(entry, w)
  BY <1>2, <1>3
<1>5. /\ Ready /\ Timed(W) /\ Entered(W, k - 1) /\ k = Len(entries) + 1 /\ c = off[k - 1] + j
  BY <1>4 DEF InCall
<1>6. UNCHANGED <<script, text, files, edit, preamble>>
  BY DEF ParseTail
<1>7. CASE pc' = "failed"
  BY <1>7 DEF Told
<1>8. CASE pos' = pos /\ entries' = Append(entries, entry) /\ pc' = "top"
  <2>1. d = c
    BY <1>8
  <2> QED
    BY <1>3, <1>4, <1>6, <1>8, <2>1, CallEnds
<1>9. CASE /\ ~AtEnd /\ (IsBlank \/ IsNote \/ IsExpect)
           /\ pos' = pos + 1 /\ pc' = "tail" /\ entries' = entries
           /\ \/ entry' = entry
              \/ entry' = [entry EXCEPT !.expects = entry.expects \o ParseExpect(Line)]
  <2>1. ~(c + 1 \in 1..Len(plan) /\ Matches(text[pos], plan[c + 1]))
    <3>1. ASSUME c + 1 \in 1..Len(plan), Matches(text[pos], plan[c + 1])
          PROVE  FALSE
      <4>1. Firm(text[pos].text)
        BY <3>1, PlannedIsFirm
      <4> QED
        BY <1>9, <4>1, FirmHere
    <3> QED
      BY <3>1
  <2>2. n[pos] = c
    BY <1>1, <1>9, <2>1 DEF IsNext, IsLast
  <2>3. d = c
    <3>1. pos' - 1 = pos
      BY <1>9 DEF InText
    <3> QED
      BY <2>2, <3>1
  <2>4. PICK x : x = entry.expects \o ParseExpect(Line)
    OBVIOUS
  <2>5. /\ DOMAIN entry' = {"at", "op", "variant", "args", "expects"}
        /\ entry'.at = entry.at /\ entry'.op = entry.op /\ entry'.variant = entry.variant
        /\ entry'.args = entry.args
    <3>1. CASE entry' = entry
      BY <1>4, <3>1
    <3>2. CASE entry' = [entry EXCEPT !.expects = x]
      BY <1>4, <3>2
    <3> QED
      BY <1>9, <2>4, <3>1, <3>2
  <2>6. Timely(entry', w) /\ (j = Size(W, k) => EntryIs(entry', w))
    BY <1>4, <2>5 DEF Timely, EntryIs
  <2> QED
    BY <1>3, <1>5, <1>6, <1>9, <2>3, <2>5, <2>6, TailTold
<1> QED
  <2>1. \/ /\ ~AtEnd /\ IsIndented /\ (IsBlank \/ IsNote)
           /\ Skip /\ UNCHANGED <<pc, entry, entries>>
        \/ /\ ~AtEnd /\ IsIndented /\ IsExpect /\ ParseExpect(Line) # None
           /\ entry' = [entry EXCEPT !.expects = @ \o ParseExpect(Line)]
           /\ Skip /\ UNCHANGED <<pc, entries>>
        \/ pc' = "failed"
        \/ /\ entries' = Append(entries, entry)
           /\ pc' = "top" /\ UNCHANGED <<pos, entry>>
    BY DEF ParseTail
  <2> QED
    BY <1>7, <1>8, <1>9, <2>1 DEF Skip

LEMMA PackTold ==
  ASSUME NEW W, NEW off, NEW c, Told(W, off, c), script' = script, edit' = edit, preamble' = preamble, entries' = entries,
         pc \in {"pack", "done"}, pc' \in {"pack", "done"}
  PROVE  Told(W, off, c)'
<1>1. AtPack(W)
  BY DEF Told
<1>2. /\ Timed(W)' = Timed(W) /\ Ready' = Ready /\ (\A m : Entered(W, m)' = Entered(W, m)) /\ Total' = Total
  BY RestOfOperators, ScriptStays
<1>3. AtPack(W)'
  BY <1>1, <1>2 DEF AtPack
<1>4. pc' \notin {"preamble", "top", "args", "tail"}
  BY Zenon
<1> QED
  BY <1>3, <1>4 DEF Told

-----------------------------------------------------------------------------

Clocked ==
  \A k \in 1..Len(offsets) :
    /\ offsets[k] \in Int
    /\ entries[k].at # None => offsets[k] = Nanos(entries[k].at[1])
    /\ entries[k].at = None /\ k > 1 => offsets[k] = offsets[k - 1] + Ms

LEMMA WrittenAt ==
  ASSUME script \in Scripts, NEW W \in SUBSET Large, NEW k \in DOMAIN script.entries
  PROVE  Written(W, k).at = script.entries[k].at /\ script.entries[k].at \in Nat
<1>1. PICK w, e : w = Written(W, k) /\ e = script.entries[k]
  OBVIOUS
<1>2. IsWritable(e)
  BY <1>1, EntriesAre
<1>3. w.at = e.at
  BY <1>1, WrittenIs
<1> QED
  BY <1>1, <1>2, <1>3 DEF IsWritable

\* The time of an operation that has been read.
LEMMA TimeIs ==
  ASSUME script \in Scripts, NEW W \in SUBSET Large, Timed(W), NEW k \in 1..Len(entries)
  PROVE  /\ k \in DOMAIN script.entries /\ script.entries[k].at \in Nat
         /\ entries[k].at \in {None, Some(Micros(script.entries[k].at))}
<1>1. Len(script.entries) \in Nat /\ DOMAIN script.entries = 1..Len(script.entries)
  BY EntriesAre
<1>2. IsList(entries) /\ Len(entries) <= Len(script.entries)
  BY DEF Timed, Total
<1>3. k \in DOMAIN script.entries
  BY <1>1, <1>2, ListFacts
<1>4. Timely(entries[k], Written(W, k))
  BY DEF Timed
<1>5. Written(W, k).at = script.entries[k].at /\ script.entries[k].at \in Nat
  BY <1>3, WrittenAt
<1> QED
  BY <1>3, <1>4, <1>5 DEF Timely

LEMMA NanosAre ==
  ASSUME NEW a \in Nat, NEW at, at = Some(Micros(a))
  PROVE  at # None /\ at[1] = Micros(a) /\ Nanos(at[1]) \in (a - 500)..(a + 500) /\ Nanos(at[1]) \in Int
<1>1. at[1] = Micros(a) /\ at # None
  <2>1. PICK x : x = Micros(a)
    OBVIOUS
  <2>2. at = <<x>>
    BY <2>1 DEF Some
  <2> QED
    BY <2>1, <2>2, TupleFacts, EmptyIsList DEF None
<1>2. Nanos(Micros(a)) \in (a - 500)..(a + 500)
  BY RoundingIsClose
<1> QED
  BY <1>1, <1>2

LEMMA PackClocks ==
  ASSUME script \in Scripts, NEW W \in SUBSET Large, Timed(W), Clocked, Pack,
         IsList(offsets), Len(offsets) <= Len(entries)
  PROVE  Clocked'
<1>1. entries' = entries
  BY DEF Pack, parser
<1>2. CASE offsets' = offsets
  BY <1>1, <1>2 DEF Clocked
<1>3. CASE Packed < Len(entries)
  <2>0. PICK o : o = offsets
    OBVIOUS
  <2>1. PICK z \in Nat : o = offsets /\ z = Len(offsets)
    BY <2>0, ListFacts
  <2>2. PICK k : k = z + 1
    OBVIOUS
  <2>3. Len(entries) \in Nat
    BY ListFacts DEF Timed
  <2>4. k \in 1..Len(entries) /\ k - 1 = z
    BY <1>3, <2>1, <2>2, <2>3 DEF Packed
  <2>5. PICK at, a : at = entries[k].at /\ a = script.entries[k].at
    OBVIOUS
  <2>6. a \in Nat /\ at \in {None, Some(Micros(a))}
    BY <2>4, <2>5, TimeIs
  <2>7. PICK x : x = IF at = None THEN NextDefault ELSE Nanos(at[1])
    OBVIOUS
  <2>8. offsets' = Appended(o, x)
    <3>1. offsets' = Append(offsets, IF entries[Packed + 1].at = None THEN NextDefault
                                     ELSE Nanos(entries[Packed + 1].at[1]))
      BY <1>3 DEF Pack
    <3>2. Packed + 1 = k
      BY <2>1, <2>2 DEF Packed
    <3> QED
      BY <2>1, <2>5, <2>7, <3>1, <3>2 DEF Appended
  <2>9. PICK p : p = offsets'
    OBVIOUS
  <2>10. IsList(p) /\ Len(p) = k /\ p[k] = x /\ \A i \in 1..z : p[i] = o[i]
    <3>1. IsList(o) /\ p = Appended(o, x) /\ k = Len(o) + 1
      BY <2>1, <2>2, <2>8, <2>9
    <3> QED
      BY <2>1, <3>1, AppendedIs
  <2>11. at # None => x = Nanos(at[1]) /\ x \in Int
    BY <2>6, <2>7, NanosAre
  <2>12. ASSUME at = None
         PROVE  x \in Int /\ (k > 1 => x = o[z] + Ms)
    <3>1. x = NextDefault
      BY <2>7, <2>12
    <3>2. CASE offsets = <<>>
      <4>1. z = 0
        BY <2>1, <3>2, EmptyIsList
      <4>2. x = Ms
        BY <3>1, <3>2 DEF NextDefault
      <4> QED
        BY <2>2, <4>1, <4>2 DEF Ms
    <3>3. CASE offsets # <<>>
      <4>1. z # 0
        <5>1. ASSUME z = 0
              PROVE  FALSE
          <6>1. PICK e : e = <<>>
            OBVIOUS
          <6>2. IsList(e) /\ Len(e) = 0
            BY <6>1, EmptyIsList
          <6>3. IsList(o) /\ Len(o) = Len(e) /\ \A i \in 1..Len(o) : o[i] = e[i]
            BY <2>1, <5>1, <6>2
          <6>4. o = e
            BY <6>2, <6>3, ListsEqual
          <6> QED
            BY <2>1, <3>3, <6>1, <6>4
        <5> QED
          BY <5>1
      <4>2. z \in 1..Len(offsets)
        BY <2>1, <4>1
      <4>3. x = o[z] + Ms
        BY <2>1, <3>1, <3>3 DEF NextDefault, Packed
      <4>4. o[z] \in Int
        BY <2>1, <4>2 DEF Clocked
      <4> QED
        BY <4>3, <4>4 DEF Ms
    <3> QED
      BY <3>2, <3>3
  <2>13. ASSUME NEW i \in 1..k
         PROVE  /\ p[i] \in Int
                /\ entries[i].at # None => p[i] = Nanos(entries[i].at[1])
                /\ entries[i].at = None /\ i > 1 => p[i] = p[i - 1] + Ms
    <3>1. CASE i = k
      <4>1. i > 1 => p[z] = o[z] /\ i - 1 = z
        BY <2>2, <2>10, <3>1
      <4> QED
        BY <2>5, <2>10, <2>11, <2>12, <3>1, <4>1
    <3>2. CASE i # k
      <4>1. i \in 1..z /\ (i > 1 => i - 1 \in 1..z)
        BY <2>2, <3>2
      <4>2. p[i] = o[i] /\ (i > 1 => p[i - 1] = o[i - 1])
        BY <2>10, <4>1
      <4>3. /\ o[i] \in Int
            /\ entries[i].at # None => o[i] = Nanos(entries[i].at[1])
            /\ entries[i].at = None /\ i > 1 => o[i] = o[i - 1] + Ms
        BY <2>1, <4>1 DEF Clocked
      <4> QED
        BY <4>2, <4>3
    <3> QED
      BY <3>1, <3>2
  <2> QED
    BY <1>1, <2>9, <2>10, <2>13 DEF Clocked
<1> QED
  BY <1>2, <1>3 DEF Pack

-----------------------------------------------------------------------------
(* A text that was left alone has no line that is out of place.            *)

\* It is read to its end, each operation to its last line.
Smooth(off, c) ==
  /\ pc # "failed"
  /\ pc = "top" => c = off[Len(entries)]
  /\ pc = "tail" => c = off[Len(entries) + 1]
Sound(off, c) == edit = "none" => Smooth(off, c)

\* A line in between, and the one of the plan that is next.
LEMMA GapBetween ==
  ASSUME NEW W, NEW plan, NEW off, NEW n, World(W, plan, off, n), InText, edit = "none", ~AtEnd,
         NEW c, c = n[pos - 1], n[pos] = c, IsGap(text[pos])
  PROVE  /\ c = Len(plan) \/ plan[c + 1].text[1] # SP
         /\ IsBlank \/ IsNote
         /\ ~IsExpect
         /\ c # 0 => IsBlank \/ (IsNote /\ ~IsHeader)
<1>1. Snug(text, plan, n, 1) /\ Len(text) \in Nat
  BY ListFacts DEF World, WovenBy
<1>2. pos \in 1..Len(text)
  BY <1>1 DEF InText, AtEnd
<1>3. /\ c = Len(plan) \/ plan[c + 1].text[1] # SP
      /\ Quiet(text[pos]) \/ (c = 0 /\ Hash(text[pos]))
  BY <1>1, <1>2 DEF Snug
<1>4. PICK s, l : s = Line /\ l = text[pos]
  OBVIOUS
<1>5. Hash(l) /\ (c # 0 => ~Titled(s)) /\ l.at = None /\ IsList(s)
  BY <1>3, <1>4, GapHere DEF Quiet, Line
<1>6. s = <<>> \/ s[1] = "#"
  BY <1>4, <1>5 DEF Hash, Line
<1>7. IsBlank \/ IsNote
  BY <1>4, <1>5, <1>6 DEF IsBlank, IsNote, StartsWith
<1>8. ~IsExpect
  <2>1. PICK h, x : h = "#" /\ x = "expect" /\ h # x
    OBVIOUS
  <2> QED
    BY <1>4, <1>6, <2>1 DEF IsExpect, StartsWith
<1>9. ASSUME IsHeader
      PROVE  Titled(s)
  <2>1. PICK a, b : a = "#" /\ b = "nwscript"
    OBVIOUS
  <2>2. PICK h : h = <<a, SP, b>>
    OBVIOUS
  <2>3. IsList(h) /\ Len(h) = 3 /\ h[3] = b
    BY <2>2, TupleLengths
  <2>4. Len(h) <= Len(s) /\ SubSeq(h, 1, Len(h)) = SubSeq(s, 1, Len(h))
    BY <1>4, <1>9, <2>1, <2>2 DEF IsHeader, IsPrefix
  <2>5. Len(s) \in Nat /\ Len(s) >= 3
    BY <1>5, <2>3, <2>4, ListFacts
  <2>6. SubSeq(h, 1, 3)[3] = h[3] /\ SubSeq(s, 1, 3)[3] = s[3]
    <3>1. \A t : IsList(t) /\ Len(t) >= 3 => SubSeq(t, 1, 3)[3] = t[3]
      BY ListFacts, SubSeqProperties DEF IsList
    <3> QED
      BY <1>5, <2>3, <2>5, <3>1
  <2>7. s[3] = b
    BY <2>3, <2>4, <2>6
  <2> QED
    BY <2>1, <2>5, <2>7 DEF Titled
<1>10. c # 0 => IsBlank \/ (IsNote /\ ~IsHeader)
  BY <1>5, <1>7, <1>9
<1> QED
  BY <1>3, <1>7, <1>8, <1>10, Zenon

LEMMA PlanIsLong ==
  ASSUME NEW W, NEW plan, NEW off, NEW n, World(W, plan, off, n)
  PROVE  /\ Len(plan) \in Nat /\ Len(plan) >= 3 /\ Total \in Nat /\ off[0] = 3
         /\ \A k \in 0..Total : off[k] \in Nat /\ off[k] >= 3 /\ off[k] <= Len(plan)
<1>1. PICK t \in Nat : t = Total
  BY DEF World, Offsets
<1>2. 0 \in 0..t
  OBVIOUS
<1>3. Len(plan) \in Nat
  BY ListFacts DEF World, Offsets
<1> QED
  BY <1>1, <1>2, <1>3 DEF World, Offsets

LEMMA PreambleGoesOn ==
  ASSUME NEW W, NEW plan, NEW off, NEW n, World(W, plan, off, n), InText, edit = "none",
         NEW c, c = n[pos - 1], AtPreamble(c), ParsePreamble, NEW d, d = n[pos' - 1]
  PROVE  Sound(off, d)'
<1>1. (IsNext(plan, n, c) \/ IsLast(plan, c)) /\ Len(plan) \in Nat /\ Len(plan) >= 3 /\ off[0] = 3
  BY LineHere, PlanIsLong
<1>2. c \in 0..2 /\ entries = <<>> /\ Len(entries) = 0
  BY EmptyIsList DEF AtPreamble
<1>3. IsNext(plan, n, c) /\ ~AtEnd
  BY <1>1, <1>2 DEF IsLast, IsNext
<1>4. PICK m, p, f : m = "---" /\ p = "protocol" /\ f = "features"
  OBVIOUS
<1>5. CASE n[pos] = c /\ IsGap(text[pos])
  <2>1. Line # <<"---">> /\ About \notin {<<"protocol">>, <<"features">>}
    BY <1>5, GapHere
  <2>2. IsBlank \/ IsNote
    BY <1>3, <1>5, GapBetween
  <2>3. pc' = "preamble"
    BY <1>3, <2>1, <2>2 DEF ParsePreamble
  <2> QED
    BY <2>3 DEF Sound, Smooth
<1>6. CASE n[pos] = c + 1 /\ c + 1 \in 1..Len(plan) /\ Matches(text[pos], plan[c + 1])
  <2>1. ~IsBlank /\ ~IsNote /\ ~IsExpect
    <3>1. Firm(text[pos].text)
      BY <1>6, PlannedIsFirm
    <3> QED
      BY <3>1, FirmHere
  <2>2. CASE c = 2
    <3>1. Line = <<m>>
      BY <1>4, <1>6, <2>2, PreambleHere
    <3>2. pc' \in {"preamble", "top"} /\ entries' = entries
          /\ (pc' = "top" => pos' = pos + 1)
      BY <1>3, <1>4, <2>1, <3>1 DEF ParsePreamble, Skip
    <3>3. pc' = "top" => d = 3
      <4>1. pos' = pos + 1 => pos' - 1 = pos
        BY DEF InText
      <4> QED
        BY <1>6, <2>2, <3>2, <4>1
    <3> QED
      BY <1>1, <1>2, <3>2, <3>3 DEF Sound, Smooth
  <2>3. CASE c \in 0..1
    <3>1. Line # <<m>> /\ About \in {<<p>>, <<f>>}
      <4>1. CASE c = 0
        <5>1. PreambleSays(text[pos].text, p, Version)
          BY <1>4, <1>6, <4>1, PreambleHere
        <5> QED
          BY <1>4, <5>1, PreambleAt
      <4>2. CASE c = 1
        <5>1. PreambleSays(text[pos].text, f, FormatSet(script.features))
          BY <1>4, <1>6, <4>2, PreambleHere
        <5> QED
          BY <1>4, <5>1, PreambleAt
      <4> QED
        BY <2>3, <4>1, <4>2
    <3>2. pc' = "preamble"
      BY <1>3, <1>4, <2>1, <3>1 DEF ParsePreamble
    <3> QED
      BY <3>2 DEF Sound, Smooth
  <2> QED
    BY <1>2, <2>2, <2>3
<1> QED
  BY <1>3, <1>5, <1>6 DEF IsNext

LEMMA TopGoesOn ==
  ASSUME NEW W, NEW plan, NEW off, NEW n, World(W, plan, off, n), InText, edit = "none",
         NEW c, c = n[pos - 1], AtTop(W, off, c), c = off[Len(entries)],
         ParseTop, NEW d, d = n[pos' - 1]
  PROVE  Sound(off, d)'
<1>1. (IsNext(plan, n, c) \/ IsLast(plan, c)) /\ Len(plan) \in Nat
  BY LineHere
<1>2. PICK t \in Nat, z \in Nat : t = Total /\ z = Len(entries) /\ z <= t
  <2>1. Total \in Nat
    BY PlanIsLong
  <2>2. Len(entries) \in Nat /\ Len(entries) <= Total
    BY ListFacts DEF AtTop, Timed
  <2> QED
    BY <2>1, <2>2
<1>3. c # 0 /\ off[t] = Len(plan)
  <2>1. z \in 0..t
    BY <1>2
  <2>2. off[z] >= 3 /\ off[z] \in Nat
    BY <1>2, <2>1, PlanIsLong
  <2> QED
    BY <1>2, <2>2 DEF World, Offsets
<1>4. CASE AtEnd
  <2>1. pc' = "pack"
    BY <1>4 DEF ParseTop
  <2> QED
    BY <2>1 DEF Sound, Smooth
<1>5. CASE ~AtEnd /\ n[pos] = c /\ IsGap(text[pos])
  <2>1. \A o \in Ops : ~Names(o)
    BY <1>5, GapHere
  <2>2. IsBlank \/ (IsNote /\ ~IsHeader)
    BY <1>3, <1>5, GapBetween
  <2>3. pc' = "top" /\ pos' = pos + 1 /\ entries' = entries
    BY <1>5, <2>1, <2>2 DEF ParseTop, Skip
  <2>4. d = c
    <3>1. pos' - 1 = pos
      BY <2>3 DEF InText
    <3> QED
      BY <1>5, <3>1
  <2> QED
    BY <2>3, <2>4 DEF Sound, Smooth
<1>6. CASE ~AtEnd /\ n[pos] = c + 1 /\ c + 1 \in 1..Len(plan) /\ Matches(text[pos], plan[c + 1])
  <2>1. z # t
    BY <1>1, <1>2, <1>3, <1>6
  <2>2. PICK k : k = z + 1
    OBVIOUS
  <2>3. k \in 1..Total /\ k - 1 = z /\ c = off[k - 1]
    BY <1>2, <2>1, <2>2
  <2>4. PICK w, a, op : w = Written(W, k) /\ a = Trim(Beyond(Line, SP)) /\ op = w.op
    OBVIOUS
  <2>5. HeadBacks(w, text[pos].text)
    BY <1>6, <2>3, <2>4, HeadHere
  <2>6. /\ IsCarriedCall(w) /\ IsSentCall(w) /\ Size(W, k) \in Nat \ {0}
        /\ Size(W, k) = (1 + Fields(w)) + Len(Overrides(w)) /\ off[k] = off[k - 1] + Size(W, k)
    BY <2>3, <2>4, WrittenCall
  <2>7. OpOf = <<op>> /\ Reads(w, a)
    BY <2>4, <2>5 DEF HeadBacks, OpOf, Line
  <2>8. ~IsBlank /\ ~IsNote
    <3>1. Firm(text[pos].text)
      BY <1>6, PlannedIsFirm
    <3> QED
      BY <3>1, FirmHere
  <2>9. \A o : Names(o) => o = op
    BY <2>7, TupleFacts DEF Names
  <2>10. op \in Ops /\ Names(op) /\ ~HeadIsBad(op, a)
    BY <2>4, <2>6, <2>7 DEF IsSentCall, Names, Reads
  <2>11. /\ pos' = pos + 1 /\ entries' = entries
         /\ pc' = (IF op \in ComplexOps \/ ParseKeys(op) # <<>> THEN "args" ELSE "tail")
    BY <1>6, <2>4, <2>8, <2>9, <2>10 DEF ParseTop, Skip, Fail
  <2>12. d = c + 1
    <3>1. pos' - 1 = pos
      BY <2>11 DEF InText
    <3> QED
      BY <1>6, <3>1
  <2>13. CASE pc' = "args"
    BY <2>13 DEF Sound, Smooth
  <2>14. CASE pc' = "tail"
    <3>1. Fields(w) = 0 /\ Overrides(w) = <<>>
      <4>1. ParseKeys(w.op) = <<>>
        BY <2>4, <2>11, <2>14
      <4> QED
        BY <2>6, <4>1, OneLineCall
    <3>2. Size(W, k) = 1
      BY <2>6, <3>1, EmptyIsList
    <3>3. d = off[k]
      BY <2>3, <2>6, <2>12, <3>2
    <3>4. Len(entries') + 1 = k
      BY <1>2, <2>2, <2>11
    <3> QED
      BY <2>14, <3>3, <3>4 DEF Sound, Smooth
  <2> QED
    BY <2>11, <2>13, <2>14
<1> QED
  BY <1>1, <1>4, <1>5, <1>6 DEF IsNext, IsLast

\* What was written is not taken for bad.
LEMMA ValueIsGood ==
  ASSUME NEW how \in Hows, NEW x, IsSentValue(how, x), Survives(how, x)
  PROVE  ~ValueIsBad(TakenAs(how), FormatValue(how, x))
<1>1. CASE how = "set"
  <2>1. IsLines(x) /\ SetSurvives(x)
    BY <1>1, TypedAreLines DEF IsSentValue, IsValue, Survives
  <2>2. Cat(FormatSet(x), <<>>) = FormatSet(x)
    <3>1. PICK body : SetBody(x, body)
      BY <2>1, SetCarried
    <3> QED
      BY <2>1, <3>1, SetIsList, CatEmpty
  <2>3. SetIsClosed(FormatSet(x))
    <3>1. PICK e : e = <<>>
      OBVIOUS
    <3>2. IsList(e) /\ ~Mentions(e, NL)
      BY <3>1, EmptyIsList, EmptyMentions
    <3> QED
      BY <2>1, <2>2, <3>1, <3>2, SetFollowed
  <2>4. FormatValue(how, x) = FormatSet(x) /\ TakenAs(how) = "set"
    BY <1>1 DEF FormatValue, TakenAs
  <2> QED
    BY <2>3, <2>4 DEF ValueIsBad
<1>2. CASE how = "data"
  <2>1. TakenAs(how) = "data" /\ FormatValue(how, x) = FormatData(x)
    BY <1>2 DEF TakenAs, FormatValue
  <2>2. DataIsKnown(FormatData(x))
    <3>1. PICK o, f : o = "x" /\ f = "@file:"
      OBVIOUS
    <3>2. PICK y : y = FormatData(x)
      OBVIOUS
    <3>3. y = <<f, x.of>> \/ y = <<o, QT, x.of, QT>>
      BY <3>1, <3>2 DEF FormatData
    <3>4. (y[1] = f \/ y[1] = o) /\ IsList(y) /\ Len(y) # 0
      BY <3>3, TupleLengths
    <3>5. y # <<>>
      BY <3>4, EmptyIsList
    <3> QED
      BY <3>1, <3>2, <3>4, <3>5 DEF DataIsKnown
  <2> QED
    BY <2>1, <2>2 DEF ValueIsBad
<1>3. CASE how \notin {"set", "data"}
  <2>1. TakenAs(how) \notin {"set", "data"}
    BY <1>3 DEF TakenAs
  <2> QED
    BY <2>1 DEF ValueIsBad
<1> QED
  BY <1>1, <1>2, <1>3

\* The lines of a call but its first are indented.
LEMMA PlanBelow ==
  ASSUME NEW W, NEW plan, NEW off, NEW n, World(W, plan, off, n), NEW k \in 1..Total,
         NEW j \in 1..Size(W, k), j # Size(W, k), NEW c, c = off[k - 1] + j
  PROVE  plan[c + 1].text[1] = SP /\ c # Len(plan) /\ c # 0
<1>1. PICK w, u, b : w = Written(W, k) /\ u = FormatCall(w) /\ b = Block(w)
  OBVIOUS
<1>2. /\ CallShown(w, u) /\ Size(W, k) \in Nat \ {0} /\ Size(W, k) = (1 + Fields(w)) + Len(Overrides(w))
      /\ Fields(w) \in 0..13 /\ Len(Overrides(w)) \in Nat /\ Size(W, k) = Len(u)
      /\ off[k] = off[k - 1] + Size(W, k) /\ off[k - 1] \in Nat /\ off[k] <= Len(plan) /\ off[k] \in Nat
  BY <1>1, WrittenCall
<1>3. PICK z \in Nat, i \in Int : z = Size(W, k) /\ i = j + 1
  BY <1>2
<1>4. i \in 1..z /\ i \in 2..z /\ j \in 1..z /\ j # z
  BY <1>3
<1>5. c # Len(plan) /\ c # 0
  <2>1. PICK a \in Nat, l \in Int : a = off[k - 1] /\ l = Len(plan) /\ off[k] = a + z
    BY <1>2, <1>3, PlanIsLong
  <2>2. l \in Nat /\ a + z <= l /\ c = a + j
    BY <1>2, <2>1, PlanIsLong
  <2> QED
    BY <1>4, <2>1, <2>2
<1>6. plan[c + 1] = b[i]
  <2>1. plan[off[k - 1] + i] = b[i]
    BY <1>1, <1>3, <1>4 DEF World, Offsets
  <2>2. c + 1 = off[k - 1] + i
    <3>1. PICK a \in Nat : a = off[k - 1]
      BY <1>2
    <3>2. c = a + j /\ j \in Nat /\ i = j + 1
      BY <1>3, <1>4, <3>1
    <3> QED
      BY <3>1, <3>2
  <2> QED
    BY <2>1, <2>2
<1>7. b[i].text = u[i]
  <2>1. IsList(u)
    BY <1>2 DEF CallShown
  <2>2. b[i] = LineOf(None, u[i])
    BY <1>1, <1>2, <1>3, <1>4, <2>1, BlockIs
  <2> QED
    BY <2>2, LineMatches
<1>8. u[i][1] = SP
  <2>1. CASE j <= Fields(w)
    <3>1. j \in 1..Fields(w) /\ i = 1 + j
      BY <1>2, <1>3, <1>4, <2>1
    <3> QED
      BY <1>2, <3>1 DEF CallShown, FieldShows, Indented
  <2>2. CASE ~(j <= Fields(w))
    <3>1. PICK l \in Nat, f \in 0..13 : l = Len(Overrides(w)) /\ f = Fields(w)
      BY <1>2
    <3>2. z = (1 + f) + l /\ ~(j <= f)
      BY <1>2, <1>3, <2>2, <3>1
    <3>3. l # 0
      BY <1>4, <3>1, <3>2
    <3>4. f = 13
      BY <1>2, <3>1, <3>3 DEF CallShown
    <3>5. PICK m : m = j - 13
      OBVIOUS
    <3>6. m \in 1..l /\ i = 14 + m
      BY <1>3, <1>4, <3>1, <3>2, <3>4, <3>5
    <3> QED
      BY <1>2, <3>1, <3>6 DEF CallShown, AssignShows, Indented
  <2> QED
    BY <2>1, <2>2
<1> QED
  BY <1>5, <1>6, <1>7, <1>8

LEMMA ArgsGoOn ==
  ASSUME NEW W, NEW plan, NEW off, NEW n, World(W, plan, off, n), InText, edit = "none",
         NEW c, c = n[pos - 1], AtArgs(W, off, c), ParseArgs, NEW d, d = n[pos' - 1]
  PROVE  Sound(off, d)'
<1>1. (IsNext(plan, n, c) \/ IsLast(plan, c)) /\ Len(plan) \in Nat
  BY LineHere
<1>2. PICK k \in 1..Total : \E j \in 1..Size(W, k) :
        InCall(W, off, c, k, j) /\ Absorbed(entry, Written(W, k), j)
  BY DEF AtArgs
<1>3. PICK w : w = Written(W, k)
  OBVIOUS
<1>4. PICK j \in 1..Size(W, k) : InCall(W, off, c, k, j) /\ Absorbed(entry, w, j)
  BY <1>2, <1>3
<1>5. /\ IsCarriedCall(w) /\ IsSentCall(w) /\ Size(W, k) \in Nat \ {0} /\ off[k] = off[k - 1] + Size(W, k)
      /\ off[k - 1] \in Nat /\ Size(W, k) = (1 + Fields(w)) + Len(Overrides(w))
  BY <1>3, WrittenCall
<1>6. k = Len(entries) + 1 /\ c = off[k - 1] + j
  BY <1>4 DEF InCall
<1>7. entry.op = w.op
  BY <1>4 DEF Absorbed
<1>8. j # Size(W, k) => plan[c + 1].text[1] = SP /\ c # Len(plan) /\ c # 0
  BY <1>6, PlanBelow
<1>9. ASSUME n[pos] = c + 1, Matches(text[pos], plan[c + 1]), c + 1 \in 1..Len(plan), j # Size(W, k)
      PROVE  /\ IsIndented /\ ~IsBlank /\ ~IsNote /\ ~IsExpect
             /\ \/ j \in 1..Fields(w) /\ FieldShows(w, j, text[pos].text)
                \/ \E m \in 1..Len(Overrides(w)) : AssignShows(Overrides(w)[m], text[pos].text)
  <2>1. /\ text[pos].at = None
        /\ \/ j \in 1..Fields(w) /\ FieldShows(w, j, text[pos].text)
           \/ \E m \in 1..Len(Overrides(w)) : AssignShows(Overrides(w)[m], text[pos].text)
    BY <1>3, <1>6, <1>9, BelowHere
  <2>2. \E s : Indented(text[pos].text, s)
    BY <2>1 DEF FieldShows, AssignShows
  <2>3. IsIndented
    BY <2>1, <2>2 DEF Indented, IsIndented
  <2>4. Firm(text[pos].text)
    BY <1>9, PlannedIsFirm
  <2> QED
    BY <2>1, <2>3, <2>4, FirmHere
<1>10. CASE ~IsTheirs
  <2>1. pc' = "tail" /\ pos' = pos /\ entries' = entries
    BY <1>10 DEF ParseArgs
  <2>2. d = c /\ Len(entries') + 1 = k
    BY <1>6, <2>1
  <2>3. j = Size(W, k)
    <3>1. ASSUME j # Size(W, k)
          PROVE  FALSE
      <4>1. IsNext(plan, n, c) /\ ~AtEnd
        BY <1>1, <1>8, <3>1 DEF IsLast, IsNext
      <4>2. ~(n[pos] = c /\ IsGap(text[pos]))
        BY <1>8, <3>1, <4>1, GapBetween
      <4>3. n[pos] = c + 1 /\ c + 1 \in 1..Len(plan) /\ Matches(text[pos], plan[c + 1])
        BY <4>1, <4>2 DEF IsNext
      <4> QED
        BY <1>9, <1>10, <3>1, <4>1, <4>3 DEF IsTheirs
    <3> QED
      BY <3>1
  <2> QED
    BY <1>5, <1>6, <2>1, <2>2, <2>3 DEF Sound, Smooth
<1>11. CASE IsTheirs
  <2>1. ~AtEnd /\ IsIndented /\ ~(IsBlank \/ IsNote \/ IsExpect)
    BY <1>11 DEF IsTheirs
  <2>2. n[pos] = c + 1 /\ c + 1 \in 1..Len(plan) /\ Matches(text[pos], plan[c + 1])
    <3>1. ~IsGap(text[pos])
      BY <2>1, GapHere
    <3> QED
      BY <1>1, <2>1, <3>1 DEF IsNext, IsLast
  <2>3. j # Size(W, k)
    <3>1. ASSUME j = Size(W, k)
          PROVE  FALSE
      <4>1. c = off[k]
        BY <1>5, <1>6, <3>1
      <4>2. off[k] + 1 \in 1..Len(plan) /\ Matches(text[pos], plan[off[k] + 1])
        BY <2>2, <4>1
      <4> QED
        BY <1>1, <2>1, <4>2, BehindCall
    <3> QED
      BY <3>1
  <2>4. \/ j \in 1..Fields(w) /\ FieldShows(w, j, text[pos].text)
        \/ \E m \in 1..Len(Overrides(w)) : AssignShows(Overrides(w)[m], text[pos].text)
    BY <1>9, <2>2, <2>3
  <2>5. CASE \E m \in 1..Len(Overrides(w)) : AssignShows(Overrides(w)[m], text[pos].text)
    <3>1. Key = "none"
      BY <1>5, <1>7, <2>5, AssignRead
    <3>2. pc' = pc /\ pc = "args"
      BY <1>11, <3>1 DEF ParseArgs
    <3> QED
      BY <3>2 DEF Sound, Smooth
  <2>6. CASE j \in 1..Fields(w) /\ FieldShows(w, j, text[pos].text)
    <3>1. /\ ~StartsWith(Line, QT) /\ Key # "none"
          /\ How = TakenAs(HowOf(w, j)) /\ Value = FormatValue(HowOf(w, j), ValueOf(w, j))
      BY <1>5, <1>7, <2>6, FieldRead
    <3>2. ~ValueIsBad(How, Value)
      <4>1. HowOf(w, j) \in Hows /\ IsSentValue(HowOf(w, j), ValueOf(w, j)) /\ Survives(HowOf(w, j), ValueOf(w, j))
        BY <1>5, <2>6, OverridesLast DEF IsCarriedCall, IsSentCall
      <4>2. ~ValueIsBad(TakenAs(HowOf(w, j)), FormatValue(HowOf(w, j), ValueOf(w, j)))
        BY <4>1, ValueIsGood
      <4> QED
        BY <3>1, <4>2
    <3>3. \/ pc' = "args"
          \/ pc' = "tail" /\ entry.op = "AddBuildLog" /\ pos' = pos + 1 /\ entries' = entries
      BY <1>11, <3>1, <3>2 DEF ParseArgs, Skip
    <3>4. CASE pc' = "args"
      BY <3>4 DEF Sound, Smooth
    <3>5. CASE pc' = "tail" /\ entry.op = "AddBuildLog" /\ pos' = pos + 1 /\ entries' = entries
      <4>1. Fields(w) = 1 /\ Overrides(w) = <<>>
        <5>1. w.op = "AddBuildLog"
          BY <1>7, <3>5
        <5>2. "AddBuildLog" # "SetOptions"
          OBVIOUS
        <5> QED
          BY <1>5, <5>1, <5>2, KeysOfCall DEF Overrides
      <4>2. Len(Overrides(w)) = 0
        BY <4>1, EmptyIsList
      <4>3. Size(W, k) = j + 1
        BY <1>5, <2>6, <4>1, <4>2
      <4>4. d = c + 1
        <5>1. pos' - 1 = pos
          BY <3>5 DEF InText
        <5> QED
          BY <2>2, <5>1
      <4>5. d = off[k]
        BY <1>5, <1>6, <4>3, <4>4
      <4>6. Len(entries') + 1 = k
        BY <1>6, <3>5
      <4> QED
        BY <3>5, <4>5, <4>6 DEF Sound, Smooth
    <3> QED
      BY <3>3, <3>4, <3>5
  <2> QED
    BY <2>4, <2>5, <2>6
<1> QED
  BY <1>10, <1>11

LEMMA TailGoesOn ==
  ASSUME NEW W, NEW plan, NEW off, NEW n, World(W, plan, off, n), InText, edit = "none",
         NEW c, c = n[pos - 1], c = off[Len(entries) + 1], IsList(entries),
         ParseTail, NEW d, d = n[pos' - 1]
  PROVE  Sound(off, d)'
<1>1. IsNext(plan, n, c) \/ IsLast(plan, c)
  BY LineHere
<1>2. ASSUME ~AtEnd
      PROVE  /\ ~IsExpect
             /\ IsBlank \/ IsNote => n[pos] = c
  <2>1. CASE n[pos] = c /\ IsGap(text[pos])
    BY <1>2, <2>1, GapBetween
  <2>2. CASE c + 1 \in 1..Len(plan) /\ Matches(text[pos], plan[c + 1])
    <3>1. Firm(text[pos].text)
      BY <2>2, PlannedIsFirm
    <3> QED
      BY <3>1, FirmHere
  <2> QED
    BY <1>1, <1>2, <2>1, <2>2 DEF IsNext, IsLast
<1>3. \/ pc' = "tail" /\ pos' = pos + 1 /\ entries' = entries /\ n[pos] = c
      \/ pc' = "top" /\ pos' = pos /\ entries' = Append(entries, entry)
  BY <1>2 DEF ParseTail, Skip
<1>4. CASE pc' = "tail" /\ pos' = pos + 1 /\ entries' = entries /\ n[pos] = c
  <2>1. pos' - 1 = pos
    BY <1>4 DEF InText
  <2> QED
    BY <1>4, <2>1 DEF Sound, Smooth
<1>5. CASE pc' = "top" /\ pos' = pos /\ entries' = Append(entries, entry)
  <2>1. Len(entries') = Len(entries) + 1
    BY <1>5, ListAppended
  <2> QED
    BY <1>5, <2>1 DEF Sound, Smooth
<1> QED
  BY <1>3, <1>4, <1>5

-----------------------------------------------------------------------------
(* The invariant of unpacking, editing, parsing and packing.               *)

Retold ==
  \E W, plan, off, n : World(W, plan, off, n) /\ Told(W, off, n[pos - 1]) /\ Sound(off, n[pos - 1])
Unread ==
  /\ pos = 1 /\ entries = <<>> /\ edit = "none"
  /\ {"version", "features"} \subseteq DOMAIN preamble

TInv ==
  /\ pc \in {"unpack", "edit"} => Unread
  /\ pc \notin {"pack", "done"} => offsets = <<>>
  /\ AllLegible => (pc # "unpack" => Retold) /\ Clocked

LEMMA WorldChanges ==
  ASSUME script' = script, script \in Scripts, AllLegible, NEW W \in SUBSET Large,
         NEW plan, NEW off, NEW n, Offsets(W, plan, off),
         files' = [f \in {FileOf(k, W) : k \in W} |-> "large"], WovenBy(text', plan, n),
         edit' # "cut" => n[Len(text')] = Len(plan), edit' = "none" => Snug(text', plan, n, 1)
  PROVE  World(W, plan, off, n)'
<1>1. Offsets(W, plan, off)'
  <2>1. /\ Plan(W)' = Plan(W) /\ Total' = Total /\ PreambleLines' = PreambleLines
        /\ (\A k : Size(W, k)' = Size(W, k)) /\ \A k : Written(W, k)' = Written(W, k)
    BY ScriptStays, PlanStays
  <2> QED
    BY <2>1 DEF Offsets
<1>2. AllLegible' /\ W \in SUBSET Large'
  BY ScriptStays
<1> QED
  BY <1>1, <1>2 DEF World

LEMMA NoClock ==
  ASSUME offsets = <<>>
  PROVE  Clocked
<1>1. PICK z : z = Len(offsets)
  OBVIOUS
<1>2. z = 0
  BY <1>1, EmptyIsList
<1>3. \A k \in 1..z : FALSE
  BY <1>2
<1> QED
  BY <1>1, <1>3 DEF Clocked

LEMMA InitTold == Init => TInv
<1> SUFFICES ASSUME Init
             PROVE  TInv
  OBVIOUS
<1>1. pc = "unpack" /\ offsets = <<>> /\ entries = <<>> /\ pos = 1 /\ edit = "none"
  BY DEF Init
<1>2. {"version", "features"} \subseteq DOMAIN preamble
  <2>1. PICK x, y : x = None /\ y = <<>>
    OBVIOUS
  <2>2. preamble = [version |-> 38, features |-> y, daemon |-> x, trust |-> x,
                    server_features |-> x, expects |-> y]
    BY <2>1 DEF Init
  <2> QED
    BY <2>2
<1>3. Clocked
  BY <1>1, NoClock
<1> QED
  BY <1>1, <1>2, <1>3 DEF TInv, Unread

LEMMA UnpackRetells ==
  ASSUME script \in Scripts, edit = "none", AllLegible, Unpack
  PROVE  Retold'
<1>1. PICK W \in SUBSET Large : UnpackedWith(W)
  BY UnpackWrites
<1>2. PICK plan : plan = Plan(W)
  OBVIOUS
<1>3. PICK off : Offsets(W, plan, off)
  BY <1>2, PlanIs
<1>4. Woven(text', plan, 1)
  BY <1>1, <1>2, TextWoven DEF UnpackedWith
<1>5. PICK n : WovenBy(text', plan, n) /\ n[Len(text')] = Len(plan) /\ Snug(text', plan, n, 1)
  BY <1>4 DEF Woven
<1>6. script' = script /\ pc' = "edit" /\ files' = [f \in {FileOf(k, W) : k \in W} |-> "large"]
  BY <1>1 DEF Unpack, UnpackedWith
<1>7. World(W, plan, off, n)'
  BY <1>3, <1>5, <1>6, WorldChanges
<1>8. Told(W, off, n[pos - 1])' /\ Sound(off, n[pos - 1])'
  BY <1>6 DEF Told, Sound, Smooth
<1> QED
  BY <1>7, <1>8 DEF Retold

LEMMA EditRetells ==
  ASSUME Unread, AllLegible, Retold, Edit
  PROVE  Retold'
<1>1. PICK W, plan, off, n : World(W, plan, off, n)
  BY DEF Retold
<1>2. \A c \in 1..Len(plan) : Firm(plan[c].text)
  BY <1>1, PlanIsFirm DEF World
<1>3. WovenBy(text, plan, n) /\ n[Len(text)] = Len(plan)
  <2>1. edit # "cut"
    BY DEF Unread
  <2> QED
    BY <1>1, <2>1 DEF World
<1>4. KeepsLines(plan)
  BY <1>2, <1>3, EditWoven
<1>5. PICK m : /\ WovenBy(text', plan, m) /\ (edit' # "cut" => m[Len(text')] = Len(plan))
               /\ edit' = "none" => Snug(text', plan, m, 1)
  <2>1. CASE LeaveAlone
    <3>1. text' = text /\ edit' = "none" /\ edit = "none"
      BY <2>1 DEF LeaveAlone, Unread
    <3>2. Snug(text, plan, n, 1)
      BY <1>1, <3>1 DEF World
    <3> QED
      BY <1>3, <3>1, <3>2
  <2>2. CASE ~LeaveAlone
    <3>1. edit' # "none"
      BY <2>2 DEF Edit, Insert, Convert, Untime, Cut
    <3> QED
      BY <1>4, <3>1 DEF KeepsLines
  <2> QED
    BY <2>1, <2>2
<1>6. script' = script /\ files' = files /\ UNCHANGED parser /\ pc' = "preamble"
  BY DEF Edit, Insert, Convert, Untime, Cut, LeaveAlone
<1>7. World(W, plan, off, m)'
  <2>1. /\ script \in Scripts /\ W \in SUBSET Large /\ Offsets(W, plan, off)
        /\ files' = [f \in {FileOf(k, W) : k \in W} |-> "large"]
    BY <1>1, <1>6 DEF World
  <2> QED
    BY <1>5, <1>6, <2>1, WorldChanges
<1>8. pos' - 1 = 0 /\ m[0] = 0
  <2>1. pos' = 1
    BY <1>6 DEF Unread, parser
  <2> QED
    BY <1>5, <2>1 DEF WovenBy
<1>9. AtPreamble(0)'
  <2>1. entries' = <<>> /\ {"version", "features"} \subseteq DOMAIN preamble'
    BY <1>6 DEF Unread, parser
  <2> QED
    BY <2>1 DEF AtPreamble
<1>10. Told(W, off, 0)'
  BY <1>6, <1>9 DEF Told
<1>11. Told(W, off, m[pos - 1])' /\ Sound(off, m[pos - 1])'
  BY <1>6, <1>8, <1>10 DEF Sound, Smooth
<1> QED
  BY <1>7, <1>11 DEF Retold

LEMMA ParseRetells ==
  ASSUME Retold, InText, Parse
  PROVE  Retold'
<1>1. PICK W, plan, off, n : /\ World(W, plan, off, n)
                             /\ Told(W, off, n[pos - 1]) /\ Sound(off, n[pos - 1])
  BY DEF Retold
<1>2. PICK c, d : c = n[pos - 1] /\ d = n[pos' - 1]
  OBVIOUS
<1>3. UNCHANGED <<script, text, files, edit>>
  BY DEF Parse, ParsePreamble, ParseTop, ParseArgs, ParseTail
<1>4. edit # "none" => Sound(off, d)'
  BY <1>3 DEF Sound
<1>5. Told(W, off, d)' /\ Sound(off, d)'
  <2>1. CASE ParsePreamble
    <3>1. AtPreamble(c)
      BY <1>1, <1>2, <2>1 DEF ParsePreamble, Told
    <3> QED
      BY <1>1, <1>2, <1>4, <2>1, <3>1, PreambleTold, PreambleGoesOn
  <2>2. CASE ParseTop
    <3>1. AtTop(W, off, c) /\ pc = "top"
      BY <1>1, <1>2, <2>2 DEF ParseTop, Told
    <3>2. edit = "none" => c = off[Len(entries)]
      BY <1>1, <1>2, <3>1 DEF Sound, Smooth
    <3> QED
      BY <1>1, <1>2, <1>4, <2>2, <3>1, <3>2, TopTold, TopGoesOn
  <2>3. CASE ParseArgs
    <3>1. AtArgs(W, off, c) /\ pc = "args"
      BY <1>1, <1>2, <2>3 DEF ParseArgs, Told
    <3> QED
      BY <1>1, <1>2, <1>4, <2>3, <3>1, ArgsStep, ArgsGoOn
  <2>4. CASE ParseTail
    <3>1. AtTail(W, off, c) /\ pc = "tail"
      BY <1>1, <1>2, <2>4 DEF ParseTail, Told
    <3>2. IsList(entries)
      BY <3>1 DEF AtTail, InCall, Timed
    <3>3. edit = "none" => c = off[Len(entries) + 1]
      BY <1>1, <1>2, <3>1 DEF Sound, Smooth
    <3> QED
      BY <1>1, <1>2, <1>4, <2>4, <3>1, <3>2, <3>3, TailStep, TailGoesOn
  <2> QED
    BY <2>1, <2>2, <2>3, <2>4 DEF Parse
<1>6. World(W, plan, off, n)'
  BY <1>1, <1>3, WorldStays
<1>7. Told(W, off, n[pos - 1])' /\ Sound(off, n[pos - 1])'
  BY <1>2, <1>5
<1> QED
  BY <1>6, <1>7 DEF Retold

LEMMA PackRetells ==
  ASSUME Retold, Pack
  PROVE  Retold'
<1>1. PICK W, plan, off, n : World(W, plan, off, n) /\ Told(W, off, n[pos - 1])
  BY DEF Retold
<1>2. /\ UNCHANGED <<script, text, files, edit>> /\ UNCHANGED parser
      /\ pc \in {"pack", "done"} /\ pc' \in {"pack", "done"}
  BY DEF Pack
<1>3. pos' = pos /\ preamble' = preamble /\ entries' = entries
  BY <1>2 DEF parser
<1>4. PICK c : c = n[pos - 1]
  OBVIOUS
<1>5. Told(W, off, c)'
  BY <1>1, <1>2, <1>3, <1>4, PackTold
<1>6. World(W, plan, off, n)'
  BY <1>1, <1>2, WorldStays
<1>7. Told(W, off, n[pos - 1])' /\ Sound(off, n[pos - 1])'
  BY <1>2, <1>3, <1>4, <1>5 DEF Sound, Smooth
<1> QED
  BY <1>6, <1>7 DEF Retold

LEMMA PackKeepsClock ==
  ASSUME IInv, AllLegible, Retold, Clocked, Pack
  PROVE  Clocked'
<1>1. PICK W, plan, off, n : World(W, plan, off, n) /\ Told(W, off, n[pos - 1])
  BY DEF Retold
<1>2. pc = "pack"
  BY DEF Pack
<1>3. Timed(W) /\ script \in Scripts /\ W \in SUBSET Large
  BY <1>1, <1>2 DEF Told, AtPack, World
<1>4. IsList(offsets) /\ Len(offsets) <= Len(entries)
  BY DEF IInv, Shapes
<1> QED
  BY <1>3, <1>4, PackClocks

LEMMA NothingTold ==
  ASSUME TInv, UNCHANGED vars
  PROVE  TInv'
<1>1. /\ UNCHANGED <<script, text, files, edit>> /\ pc' = pc /\ offsets' = offsets
      /\ pos' = pos /\ preamble' = preamble /\ entries' = entries /\ entry' = entry
      /\ overriding' = overriding
  BY DEF vars, parser
<1>2. AllLegible' = AllLegible
  BY <1>1, ScriptStays
<1>3. Clocked' = Clocked
  BY <1>1 DEF Clocked
<1>4. Unread' = Unread
  BY <1>1 DEF Unread
<1>5. ASSUME Retold
      PROVE  Retold'
  <2>1. PICK W, plan, off, n : /\ World(W, plan, off, n)
                               /\ Told(W, off, n[pos - 1]) /\ Sound(off, n[pos - 1])
    BY <1>5 DEF Retold
  <2>2. World(W, plan, off, n)'
    BY <1>1, <2>1, WorldStays
  <2>3. PICK c : c = n[pos - 1]
    OBVIOUS
  <2>4. /\ Timed(W)' = Timed(W) /\ Ready' = Ready /\ (\A m : Entered(W, m)' = Entered(W, m))
        /\ Total' = Total /\ (\A k : Written(W, k)' = Written(W, k))
        /\ \A k : Size(W, k)' = Size(W, k)
    BY <1>1, RestOfOperators, ScriptStays, PlanStays
  <2>5. AtPack(W)' = AtPack(W)
    BY <1>1, <2>4 DEF AtPack
  <2>6. AtPreamble(c)' = AtPreamble(c)
    BY <1>1 DEF AtPreamble
  <2>7. AtTop(W, off, c)' = AtTop(W, off, c)
    <3>1. AtEnd' = AtEnd
      BY <1>1 DEF AtEnd
    <3> QED
      BY <1>1, <2>4, <3>1 DEF AtTop
  <2>8. \A k, j : InCall(W, off, c, k, j)' = InCall(W, off, c, k, j)
    BY <1>1, <2>4 DEF InCall
  <2>9. \A k : Timely(entry, Written(W, k))' = Timely(entry, Written(W, k))
    BY <1>1, <2>4 DEF Timely
  <2>10. AtArgs(W, off, c)' = AtArgs(W, off, c)
    BY <1>1, <2>4, <2>8, <2>9 DEF AtArgs
  <2>11. AtTail(W, off, c)' = AtTail(W, off, c)
    BY <1>1, <2>4, <2>8, <2>9 DEF AtTail
  <2>12. Told(W, off, c)'
    BY <1>1, <2>1, <2>3, <2>5, <2>6, <2>7, <2>10, <2>11 DEF Told
  <2>13. Sound(off, c)'
    BY <1>1, <2>1, <2>3 DEF Sound, Smooth
  <2> QED
    BY <1>1, <2>2, <2>3, <2>12, <2>13 DEF Retold
<1> QED
  BY <1>1, <1>2, <1>3, <1>4, <1>5 DEF TInv

LEMMA NextTold ==
  ASSUME IInv, TInv, [Next]_vars
  PROVE  TInv'
<1>1. CASE Unpack
  <2>1. /\ pc = "unpack" /\ pc' = "edit" /\ script' = script /\ edit' = edit /\ offsets' = offsets
        /\ UNCHANGED parser
    BY <1>1 DEF Unpack
  <2>2. Unread /\ offsets = <<>>
    BY <2>1 DEF TInv
  <2>3. Unread'
    BY <2>1, <2>2 DEF Unread, parser
  <2>4. offsets' = <<>> /\ Clocked'
    <3>1. offsets' = <<>>
      BY <2>1, <2>2
    <3>2. (offsets = <<>>)' => Clocked'
      BY NoClock, PTL
    <3> QED
      BY <3>1, <3>2
  <2>5. AllLegible' = AllLegible
    BY <2>1, ScriptStays
  <2>6. AllLegible => Retold'
    BY <1>1, <2>2, UnpackRetells DEF IInv, Shapes, Unread
  <2> QED
    BY <2>1, <2>3, <2>4, <2>5, <2>6 DEF TInv
<1>2. CASE Edit
  <2>1. /\ pc = "edit" /\ pc' = "preamble" /\ script' = script /\ offsets' = offsets
        /\ UNCHANGED parser
    BY <1>2 DEF Edit, Insert, Convert, Untime, Cut, LeaveAlone
  <2>2. Unread /\ offsets = <<>>
    BY <2>1 DEF TInv
  <2>3. offsets' = <<>> /\ Clocked'
    <3>1. offsets' = <<>>
      BY <2>1, <2>2
    <3>2. (offsets = <<>>)' => Clocked'
      BY NoClock, PTL
    <3> QED
      BY <3>1, <3>2
  <2>4. AllLegible' = AllLegible
    BY <2>1, ScriptStays
  <2>5. AllLegible => Retold'
    <3>1. AllLegible => Retold
      BY <2>1 DEF TInv
    <3> QED
      BY <1>2, <2>2, <3>1, EditRetells
  <2>6. pc' \notin {"unpack", "edit"}
    BY <2>1
  <2> QED
    BY <2>3, <2>4, <2>5, <2>6 DEF TInv
<1>3. CASE Parse
  <2>1. /\ pc \in Parts /\ script' = script /\ offsets' = offsets
        /\ pc' \in {"pack", "failed"} \cup Parts
    BY <1>3 DEF Parse, ParsePreamble, ParseTop, ParseArgs, ParseTail, Parts, Fail
  <2>2. pc \notin {"unpack", "edit", "pack", "done"} /\ pc' \notin {"unpack", "edit"}
    BY <2>1 DEF Parts
  <2>3. offsets' = <<>> /\ Clocked'
    <3>1. offsets' = <<>>
      BY <2>1, <2>2 DEF TInv
    <3>2. (offsets = <<>>)' => Clocked'
      BY NoClock, PTL
    <3> QED
      BY <3>1, <3>2
  <2>4. AllLegible' = AllLegible
    BY <2>1, ScriptStays
  <2>5. AllLegible => Retold'
    <3>1. AllLegible => Retold
      BY <2>2 DEF TInv
    <3>2. InText
      BY <2>2 DEF IInv, Shapes, Progressed, InText
    <3> QED
      BY <1>3, <3>1, <3>2, ParseRetells
  <2> QED
    BY <2>2, <2>3, <2>4, <2>5 DEF TInv
<1>4. CASE Pack
  <2>1. pc = "pack" /\ pc' \in {"pack", "done"} /\ script' = script
    BY <1>4 DEF Pack
  <2>2. AllLegible' = AllLegible
    BY <2>1, ScriptStays
  <2>3. AllLegible => Retold' /\ Clocked'
    <3>1. AllLegible => Retold /\ Clocked
      BY <2>1 DEF TInv
    <3> QED
      BY <1>4, <3>1, PackRetells, PackKeepsClock
  <2>4. pc' \notin {"unpack", "edit"}
    BY <2>1
  <2> QED
    BY <2>1, <2>2, <2>3, <2>4 DEF TInv
<1>5. CASE UNCHANGED vars
  BY <1>5, NothingTold
<1> QED
  BY <1>1, <1>2, <1>3, <1>4, <1>5 DEF Next, Exit

\* What the parser is told of a text that can carry the session: a part of the plan
\* behind it, the operations of that part, and their times.
THEOREM TextInvariant == Spec => []TInv
<1>1. Init => TInv
  BY InitTold
<1>2. IInv /\ TInv /\ [Next]_vars => TInv'
  BY NextTold
<1> QED
  BY <1>1, <1>2, ParserInvariant, PTL DEF Spec

-----------------------------------------------------------------------------
(* What the text gives back.                                               *)

\* Data that was recorded is no file.
LEMMA DataIsInline ==
  ASSUME script \in Scripts, NEW k \in Large, NEW e, e = script.entries[k]
  PROVE  e.args["data"].inFile = FALSE /\ e.args["data"].of = "large" /\ "data" \in DOMAIN e.args
<1>1. k \in DOMAIN script.entries /\ IsLarge(e)
  BY DEF Large
<1>2. "data" \in DOMAIN e.args /\ e.args["data"].of = "large"
  BY <1>1 DEF IsLarge
<1>3. IsCall(e, script.version)
  BY <1>1, EntriesAre
<1>4. IsSentCall(e)
  <2>1. DOMAIN <<>> = {}
    OBVIOUS
  <2>2. e.args # <<>>
    BY <1>2, <2>1
  <2> QED
    BY <1>3, <2>2, CallCases
<1>5. PICK op, ks, table : op = e.op /\ ks = FormatKeys(e.variant) /\ table = ParseKeys(op)
  OBVIOUS
<1>6. op \in Ops /\ e.variant = ParseVariant(op) /\ HeadTable(ParseVariant(op), HeadKeys(op))
  BY <1>4, <1>5, HeadKeysAre DEF IsSentCall
<1>7. "data" \notin HeadKeys(op)
  BY <1>6 DEF HeadTable
<1>8. PICK i \in 1..Fields(e) : KeyOf(e, i) = "data"
  BY <1>2, <1>4, <1>5, <1>7, KeysOfCall
<1>9. KeysMatch(op, ks, table)
  BY <1>5, <1>6, KeysOf
<1>10. IsList(ks) /\ i \in 1..Len(ks) /\ ks[i][1] = "data"
  BY <1>5, <1>8, <1>9 DEF KeysMatch, Fields, KeyOf
<1>11. i \in DOMAIN ks /\ ks[i][2] = "data"
  BY <1>9, <1>10, ListFacts DEF KeysMatch
<1>12. IsValue(ks[i][2], e.args[ks[i][1]])
  BY <1>3, <1>5, <1>6, <1>11 DEF IsCall
<1>13. IsValue("data", e.args["data"])
  BY <1>10, <1>11, <1>12
<1>14. e.args["data"] \in [inFile : {FALSE}, of : Words]
  BY <1>13 DEF IsValue
<1> QED
  BY <1>2, <1>14

LEMMA CallReturns ==
  ASSUME NEW W, NEW plan, NEW off, NEW n, World(W, plan, off, n),
         NEW k \in 1..Total, NEW e, e = entries[k], EntryIs(e, Written(W, k))
  PROVE  SameCall(e, script.entries[k])
<1>1. /\ script \in Scripts /\ W \in SUBSET Large
      /\ files = [f \in {FileOf(j, W) : j \in W} |-> "large"]
  BY DEF World
<1>2. k \in DOMAIN script.entries
  BY <1>1, EntriesAre DEF Total
<1>3. PICK d, w : d = script.entries[k] /\ w = Written(W, k)
  OBVIOUS
<1>4. /\ w.op = d.op /\ w.variant = d.variant /\ DOMAIN w.args = DOMAIN d.args
      /\ \A key \in DOMAIN d.args : key # "data" \/ k \notin W => w.args[key] = d.args[key]
      /\ k \in W => w.args["data"] = FileRef(FileOf(k, W))
  BY <1>1, <1>2, <1>3, WrittenIs
<1>5. /\ e.op = w.op /\ e.variant = w.variant /\ DOMAIN e.args = DOMAIN w.args
      /\ \A key \in DOMAIN w.args : e.args[key] = w.args[key]
  BY <1>3 DEF EntryIs
<1>6. PICK A, B : A = e.args /\ B = d.args
  OBVIOUS
<1>7. DOMAIN A = DOMAIN B /\ \A key \in DOMAIN B : key # "data" \/ k \notin W => A[key] = B[key]
  BY <1>4, <1>5, <1>6
<1>8. PICK a, b : /\ a = IF A["data"].inFile THEN files[A["data"].of] ELSE A["data"].of
                  /\ b = IF B["data"].inFile THEN files[B["data"].of] ELSE B["data"].of
  OBVIOUS
<1>9. "data" \in DOMAIN B => a = b
  <2>1. CASE k \notin W
    BY <1>7, <1>8, <2>1
  <2>2. CASE k \in W
    <3>1. k \in Large
      BY <1>1, <2>2
    <3>2. B["data"].inFile = FALSE /\ B["data"].of = "large" /\ "data" \in DOMAIN B
      BY <1>1, <1>3, <1>6, <3>1, DataIsInline
    <3>3. b = "large"
      BY <1>8, <3>2
    <3>4. PICK f : f = FileOf(k, W)
      OBVIOUS
    <3>5. A["data"] = FileRef(f)
      BY <1>4, <1>5, <1>6, <2>2, <3>2, <3>4
    <3>6. A["data"].inFile /\ A["data"].of = f
      BY <3>5 DEF FileRef
    <3>7. f \in {FileOf(j, W) : j \in W}
      BY <2>2, <3>4
    <3>8. files[f] = "large"
      BY <1>1, <3>7
    <3> QED
      BY <1>8, <3>3, <3>6, <3>8
  <2> QED
    BY <2>1, <2>2
<1>10. Resolved(A) = Resolved(B)
  <2>1. Resolved(A) = [key \in DOMAIN A |-> IF key # "data" THEN A[key] ELSE a]
    BY <1>8 DEF Resolved
  <2>2. Resolved(B) = [key \in DOMAIN B |-> IF key # "data" THEN B[key] ELSE b]
    BY <1>8 DEF Resolved
  <2>3. ASSUME NEW key \in DOMAIN B
        PROVE  (IF key # "data" THEN A[key] ELSE a) = (IF key # "data" THEN B[key] ELSE b)
    BY <1>7, <1>9, <2>3
  <2> QED
    BY <1>7, <2>1, <2>2, <2>3
<1> QED
  BY <1>3, <1>4, <1>5, <1>6, <1>10 DEF SameCall

LEMMA TextGives ==
  ASSUME TInv, AllLegible, pc = "done"
  PROVE  /\ edit # "cut" => SameScript
         /\ edit = "cut" => Len(entries) <= Len(script.entries) /\ SameCalls(Len(entries) - 1)
<1>1. PICK W, plan, off, n : World(W, plan, off, n) /\ Told(W, off, n[pos - 1])
  BY DEF TInv, Retold
<1>2. AtPack(W)
  BY <1>1 DEF Told
<1>3. IsList(entries) /\ Len(entries) \in Nat /\ Len(entries) <= Total /\ Entered(W, Len(entries) - 1)
  BY <1>2, ListFacts DEF AtPack, Timed
<1>4. Total \in Nat /\ Total = Len(script.entries)
  BY <1>1, EntriesAre DEF World, Total
<1>5. ASSUME NEW m, m \in Int, m <= Total, Entered(W, m)
      PROVE  SameCalls(m)
  <2> SUFFICES ASSUME NEW k \in 1..m
               PROVE  SameCall(entries[k], script.entries[k])
    BY DEF SameCalls
  <2>1. k \in 1..Total
    BY <1>4, <1>5
  <2>2. EntryIs(entries[k], Written(W, k))
    BY <1>5 DEF Entered
  <2> QED
    BY <1>1, <2>1, <2>2, CallReturns
<1>6. SameCalls(Len(entries) - 1)
  BY <1>3, <1>4, <1>5
<1>7. ASSUME edit # "cut"
      PROVE  SameScript
  <2>1. Ready /\ Len(entries) = Total /\ Entered(W, Total)
    BY <1>2, <1>7 DEF AtPack
  <2>2. SameCalls(Total)
    BY <1>4, <1>5, <2>1
  <2> QED
    BY <1>4, <2>1, <2>2 DEF SameScript, SameHandshake, Ready
<1> QED
  BY <1>3, <1>4, <1>6, <1>7

LEMMA TimesComeBack ==
  ASSUME TInv, IInv, AllLegible, offsets # <<>>
  PROVE  \A k \in 1..Packed :
           LET at == entries[k].at
           IN  /\ at # None => offsets[k] \in (script.entries[k].at - 501)..(script.entries[k].at + 500)
               /\ (k > 1 /\ (at = None \/ entries[k - 1].at # None)) => offsets[k - 1] <= offsets[k]
<1>1. pc \in {"pack", "done"} /\ Retold /\ Clocked
  BY DEF TInv
<1>2. PICK W, plan, off, n : World(W, plan, off, n) /\ Told(W, off, n[pos - 1])
  BY <1>1 DEF Retold
<1>3. Timed(W) /\ script \in Scripts /\ W \in SUBSET Large
  BY <1>1, <1>2 DEF Told, AtPack, World
<1>4. PICK T \in Nat, N \in Nat : T = Len(entries) /\ N = Packed /\ N <= T
  <2>1. Len(entries) \in Nat /\ Len(offsets) \in Nat /\ Len(offsets) <= Len(entries)
    BY ListLength DEF IInv
  <2> QED
    BY <2>1 DEF Packed
<1>5. ASSUME NEW i \in 1..N
      PROVE  /\ i \in DOMAIN script.entries /\ script.entries[i].at \in Nat
             /\ entries[i].at # None => offsets[i] = Nanos(Micros(script.entries[i].at))
             /\ entries[i].at # None => offsets[i] \in (script.entries[i].at - 500)..(script.entries[i].at + 500)
             /\ offsets[i] \in Int
  <2>1. PICK a, at : a = script.entries[i].at /\ at = entries[i].at
    OBVIOUS
  <2>2. i \in DOMAIN script.entries /\ a \in Nat /\ at \in {None, Some(Micros(a))}
    <3>1. i \in 1..Len(entries)
      BY <1>4
    <3> QED
      BY <1>3, <2>1, <3>1, TimeIs
  <2>3. offsets[i] \in Int /\ (at # None => offsets[i] = Nanos(at[1]))
    BY <1>1, <1>4, <2>1 DEF Clocked, Packed
  <2>4. ASSUME at # None
        PROVE  at[1] = Micros(a) /\ Nanos(at[1]) \in (a - 500)..(a + 500)
    BY <2>2, <2>4, NanosAre
  <2> QED
    BY <2>1, <2>2, <2>3, <2>4
<1>6. ASSUME NEW i \in 1..N, i > 1, entries[i].at = None \/ entries[i - 1].at # None
      PROVE  offsets[i - 1] <= offsets[i]
  <2>1. PICK h \in 1..N : h = i - 1
    BY <1>4, <1>6
  <2>2. PICK x \in Int, y \in Int : x = offsets[h] /\ y = offsets[i]
    BY <1>5, <2>1
  <2>3. CASE entries[i].at = None
    <3>1. i \in 1..Len(offsets)
      BY <1>4 DEF Packed
    <3>2. offsets[i] = offsets[i - 1] + Ms
      BY <1>1, <1>6, <2>3, <3>1 DEF Clocked
    <3>3. y = x + Ms
      BY <2>1, <2>2, <3>2
    <3>4. x <= y
      BY <3>3 DEF Ms
    <3> QED
      BY <2>1, <2>2, <3>4
  <2>4. CASE entries[i].at # None
    <3>1. PICK a \in Nat, b \in Nat : a = script.entries[h].at /\ b = script.entries[i].at
      BY <1>5
    <3>2. entries[h].at # None
      BY <1>6, <2>1, <2>4
    <3>3. x = Nanos(Micros(a)) /\ y = Nanos(Micros(b))
      BY <1>5, <2>2, <2>4, <3>1, <3>2
    <3>4. a <= b
      <4>1. script.entries[i - 1].at <= script.entries[i].at
        <5>1. i \in DOMAIN script.entries
          BY <1>5
        <5> QED
          BY <1>3, <1>6, <5>1, ScriptsAssumption
      <4> QED
        BY <2>1, <3>1, <4>1
    <3>5. Nanos(Micros(a)) <= Nanos(Micros(b))
      BY <3>4, RoundingIsClose
    <3> QED
      BY <2>1, <2>2, <3>3, <3>5
  <2> QED
    BY <2>3, <2>4
<1>7. ASSUME NEW i \in 1..N, entries[i].at # None
      PROVE  offsets[i] \in (script.entries[i].at - 501)..(script.entries[i].at + 500)
  <2>1. PICK a \in Nat, y \in Int : a = script.entries[i].at /\ y = offsets[i] /\ y \in (a - 500)..(a + 500)
    BY <1>5, <1>7
  <2>2. a - 500 <= y /\ y <= a + 500
    BY <2>1
  <2>3. a - 501 <= y
    BY <2>2
  <2>4. y \in (a - 501)..(a + 500)
    BY <2>2, <2>3
  <2> QED
    BY <2>1, <2>4
<1> QED
  BY <1>4, <1>6, <1>7

-----------------------------------------------------------------------------

\* No comment, empty line, expectation or missing time, wherever its user puts it
\* or leaves it out, changes a request that pack and run make of the text; of a text
\* that ends early, all but the last operation are those that were unpacked.
THEOREM EditsAreIgnored == Spec => []EditsNeverAlter
<1>1. IInv /\ TInv => EditsNeverAlter
  BY TextGives DEF EditsNeverAlter
<1> QED
  BY <1>1, ParserInvariant, TextInvariant, PTL

\* The times that pack writes into a recording are within half a microsecond of
\* those of the session and do not go back, unless the time of the operation before
\* was left out.
THEOREM TimesStay == Spec => []TimesKeepOrder
<1>1. IInv /\ TInv => TimesKeepOrder
  BY TimesComeBack DEF TimesKeepOrder
<1> QED
  BY <1>1, ParserInvariant, TextInvariant, PTL

\* A session that the text can carry comes back from it, whatever its operations and
\* its values are and whatever else is in its responses: if the text is left alone,
\* the parser finds no fault in it, and pack and run have the version, the features
\* and the requests that were recorded, with all of their arguments.  It is what
\* TextCarries says of such a session; that no other comes back, as one with a
\* BuildDerivation or AddToStoreNar, whose arguments were not kept, is checked only.
THEOREM UneditedReturns ==
  Spec => [](pc \in {"done", "failed"} /\ edit = "none" /\ AllCarried => pc = "done" /\ SameSession)
<1>1. ASSUME TInv, AllCarried, edit = "none"
      PROVE  pc # "failed" /\ (pc = "done" => SameSession)
  <2>0. AllLegible
    BY <1>1 DEF AllCarried
  <2>1. ASSUME pc = "done"
        PROVE  SameSession
    <3>1. SameScript
      BY <1>1, <2>0, <2>1, TextGives
    <3>2. ASSUME NEW k \in DOMAIN entries
          PROVE  SameRequest(entries[k], script.entries[k])
      <4>1. Len(entries) = Len(script.entries) /\ SameCall(entries[k], script.entries[k])
        BY <3>1 DEF SameScript, SameHandshake, SameCalls
      <4>2. Sent(script.entries[k]) = script.entries[k].args
        BY <1>1, <4>1 DEF AllCarried
      <4> QED
        BY <4>1, <4>2 DEF SameCall, SameRequest
    <3> QED
      BY <3>1, <3>2 DEF SameScript, SameSession
  <2>2. ASSUME pc = "failed"
        PROVE  FALSE
    <3>1. Retold
      BY <2>0, <1>1, <2>2 DEF TInv
    <3> QED
      BY <1>1, <2>2, <3>1 DEF Retold, Sound, Smooth
  <2> QED
    BY <2>1, <2>2
<1>2. TInv => (pc \in {"done", "failed"} /\ edit = "none" /\ AllCarried => pc = "done" /\ SameSession)
  BY <1>1
<1> QED
  BY <1>2, TextInvariant, PTL
====
