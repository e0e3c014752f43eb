--------------------------------- MODULE Yaml ---------------------------------
(***************************************************************************)
(* The reader of YAML contracts (src/toolbox/yaml.ts): a line is its indent *)
(* and its characters, an element each; the document is written here in one *)
(* of several layouts and then read.  The types of plain scalars (numbers,  *)
(* booleans) are left out: a plain scalar is null or text.                  *)
(***************************************************************************)
EXTENDS Integers, SequencesExt, FiniteSetsExt, Functions

CONSTANTS
  Files,  \* values written
  SecondFiles, \* values written after another, in the same file
  Layouts     \* how they are written

VARIABLES
  written,    \* the values written in one file, and their layout
  read        \* what was read of it: a value, Failed or NotRead

yamlVars == <<written, read>>

Nothing == [type |-> "null"]
TextValue(text) == [type |-> "text", text |-> text]
Sequence(items) == [type |-> "list", items |-> items]
Mapping(fields) == [type |-> "map", fields |-> fields]
Anchor == [type |-> "anchor"]
Failed == [type |-> "failed"]
NotRead == [type |-> "unread"]

Line(indent, content) == [indent |-> indent, content |-> content]
StartsWith(text, c) == text # <<>> /\ Head(text) = c
EndsWith(text, c) == text # <<>> /\ Last(text) = c
Trimmed(text) ==
  LET kept == {i \in DOMAIN text : text[i] # " "} IN IF kept = {} THEN <<>> ELSE SubSeq(text, Min(kept), Max(kept))

Ordered(positions) == SelectSeq([i \in 1..Max(positions \cup {0}) |-> i], LAMBDA i : i \in positions)

\* the quote open before each character, and after the last one
QuoteBefore(text) ==
  LET next(quote, c) ==
        CASE quote = "escaped" -> "\""
          [] quote = "\"" -> IF c = "\\" THEN "escaped" ELSE IF c = "\"" THEN "none" ELSE "\""
          [] quote = "'" -> IF c = "'" THEN "none" ELSE "'"
          [] OTHER -> IF c \in {"\"", "'"} THEN c ELSE "none"
  IN FoldLeft(LAMBDA quotes, c : Append(quotes, next(Last(quotes), c)), <<"none">>, text)

OpenQuote(text) == Last(QuoteBefore(text)) # "none"

\* the characters that are one of these, outside quotes
Plain(text, chars) == LET quote == QuoteBefore(text) IN {i \in DOMAIN text : text[i] \in chars /\ quote[i] = "none"}

\* those outside collections in line too
AtDepth0(text, char) ==
  LET opens == Plain(text, {"{", "["})
      closes == Plain(text, {"}", "]"})
      before(S, i) == Cardinality({j \in S : j < i})
  IN {i \in Plain(text, {char}) : before(opens, i) = before(closes, i)}

\* from a # outside quotes, at the start or after a space
StripComment(raw) ==
  LET hashes == {i \in Plain(raw, {"#"}) : i = 1 \/ raw[i - 1] = " "}
  IN IF hashes = {} THEN raw ELSE SubSeq(raw, 1, Min(hashes) - 1)

\* JSON.parse of a text in double quotes: \" and \\ are the escapes
Unescaped(text) ==
  LET quote == QuoteBefore(text)
      body == Ordered({i \in 2..(Len(text) - 1) : ~(quote[i] = "\"" /\ text[i] = "\\")})
      closed == ~OpenQuote(text) /\ \A i \in 2..Len(text) : quote[i] # "none" /\ (quote[i] = "escaped" => text[i] \in {"\"", "\\"})
  IN IF closed THEN TextValue([k \in DOMAIN body |-> text[body[k]]]) ELSE Failed

\* replaceAll of '' by '
Undoubled(text) ==
  FoldLeft(LAMBDA done, c : IF c = "'" /\ EndsWith(done.text, "'") /\ done.single THEN [text |-> done.text, single |-> FALSE] ELSE [text |-> Append(done.text, c), single |-> c = "'"],
           [text |-> <<>>, single |-> FALSE], text).text

Scalar(raw) ==
  LET text == Trimmed(raw) IN
  CASE text \in {<<>>, <<"~">>} -> Nothing
    [] StartsWith(text, "&") -> Failed
    [] StartsWith(text, "\"") -> IF EndsWith(text, "\"") /\ Len(text) >= 2 THEN Unescaped(text) ELSE Failed
    [] StartsWith(text, "'") -> IF EndsWith(text, "'") /\ Len(text) >= 2 THEN TextValue(Undoubled(SubSeq(text, 2, Len(text) - 1))) ELSE Failed
    [] OTHER -> TextValue(text)

\* the pieces between the separators, the last one dropped when blank
Pieces(text, ends) == [k \in DOMAIN ends |-> SubSeq(text, IF k = 1 THEN 1 ELSE ends[k - 1] + 1, ends[k] - 1)]
WithoutBlankEnd(parts) == IF Trimmed(Last(parts)) = <<>> THEN Front(parts) ELSE parts
SplitFlow(body) == WithoutBlankEnd(Pieces(body, Ordered(AtDepth0(body, ",") \cup {Len(body) + 1})))

\* <<>> when no key is found, or the key and what follows it
SplitAt(content, colons) ==
  IF colons = {} THEN <<>> ELSE <<SubSeq(content, 1, Min(colons) - 1), SubSeq(content, Min(colons) + 1, Len(content))>>
SplitKey(content) == SplitAt(content, {i \in AtDepth0(content, ":") : i = Len(content) \/ content[i + 1] = " "})

\* String(scalar(key))
KeyOf(scalar) == IF scalar.type = "text" THEN scalar.text ELSE <<"n", "u", "l", "l">>

Inner(text) == Trimmed(SubSeq(text, 2, Len(text) - 1))
PartsOf(text) == IF Inner(text) = <<>> THEN <<>> ELSE SplitFlow(Inner(text))
Bracketed(text, bracket) == EndsWith(text, bracket) /\ ~OpenQuote(Inner(text))

AllRead(items) == IF Failed \in ToSet(items) THEN Failed ELSE Sequence(items)

\* of the entries of one key the last counts
Mapped(keys, values) ==
  IF Failed \in ToSet(keys) \cup ToSet(values) THEN Failed
  ELSE Mapping([key \in {KeyOf(k) : k \in ToSet(keys)} |-> values[Max({i \in DOMAIN keys : KeyOf(keys[i]) = key})]])

\* an entry without a key fails
MappedEntries(entries, values) ==
  IF <<>> \in ToSet(entries) THEN Failed ELSE Mapped([k \in DOMAIN entries |-> Scalar(entries[k][1])], values)

EntriesOf(text) == LET parts == PartsOf(text) IN [k \in DOMAIN parts |-> SplitKey(Trimmed(parts[k]))]

\* the values of a collection in line; an entry without a key has none
RECURSIVE ParseValue(_)
ParseParts(text) ==
  IF StartsWith(text, "[") THEN PartsOf(text) ELSE LET entries == EntriesOf(text) IN [k \in DOMAIN entries |-> IF entries[k] = <<>> THEN <<>> ELSE entries[k][2]]
ParseTrimmed(text, values) ==
  IF StartsWith(text, "[") THEN IF Bracketed(text, "]") THEN AllRead(values) ELSE Failed
  ELSE IF StartsWith(text, "{") THEN IF Bracketed(text, "}") THEN MappedEntries(EntriesOf(text), values) ELSE Failed
  ELSE Scalar(text)
ParseAll(parts) == [k \in DOMAIN parts |-> ParseValue(parts[k])]
ParseValue(raw) ==
  LET text == Trimmed(raw) IN ParseTrimmed(text, IF StartsWith(text, "[") \/ StartsWith(text, "{") THEN ParseAll(ParseParts(text)) ELSE <<>>)

Result(value, rest) == [value |-> value, rest |-> rest]
Failure == Result(Failed, <<>>)
IsItem(line) == line.content = <<"-">> \/ IsPrefix(<<"-", " ">>, line.content)
Markers == {<<c>> : c \in {"|", ">"}} \cup {<<c, chomp>> : c \in {"|", ">"}, chomp \in {"-", "+"}}

\* a block ends at the first line that is not deeper than its key; it keeps
\* the indent its lines have beyond the first one's
ReadBlockScalar(marker, lines, parentIndent) ==
  LET out == {i \in DOMAIN lines : lines[i].indent <= parentIndent}
      n == IF out = {} THEN Len(lines) ELSE Min(out) - 1
      entry(i) == [k \in 1..Max({0, lines[i].indent - lines[1].indent}) |-> " "] \o lines[i].content
      joined == FoldLeft(LAMBDA text, i : IF i = 1 THEN entry(i) ELSE Append(text, IF Head(marker) = ">" THEN " " ELSE "\n") \o entry(i), <<>>, [i \in 1..n |-> i])
  IN Result(TextValue(IF Len(marker) = 2 THEN joined ELSE Append(joined, "\n")), SubSeq(lines, n + 1, Len(lines)))

NoChild == -1

\* a plausible bug: a sequence must be deeper than the key that holds it
DeeperOnly(lines, parentIndent) ==
  IF lines = <<>> \/ Head(lines).indent <= parentIndent THEN NoChild ELSE Head(lines).indent

\* the children: what is indented below, or a sequence in the column of its key
ChildIndent(lines, parentIndent) ==
  IF lines = <<>> THEN NoChild
  ELSE IF Head(lines).indent > parentIndent \/ (Head(lines).indent = parentIndent /\ IsItem(Head(lines))) THEN Head(lines).indent ELSE NoChild

Entered(sofar, inList, key, value) ==
  IF inList THEN Sequence(IF sofar = Nothing THEN <<value>> ELSE Append(sofar.items, value))
  ELSE LET fields == IF sofar = Nothing THEN <<>> ELSE sofar.fields
       IN Mapping([k \in DOMAIN fields \cup {key} |-> IF k = key THEN value ELSE fields[k]])

RECURSIVE ParseBlock(_, _, _)

\* what an entry holds; "- key: value" opens a mapping two columns after its dash
ParseRest(rest, lines, indent, opens) ==
  IF opens THEN ParseBlock(<<Line(indent + 2, rest)>> \o lines, indent + 2, Nothing)
  ELSE IF rest = <<>> THEN IF ChildIndent(lines, indent) = NoChild THEN Result(Nothing, lines) ELSE ParseBlock(lines, ChildIndent(lines, indent), Nothing)
  ELSE IF rest \in Markers THEN ReadBlockScalar(rest, lines, indent)
  ELSE Result(ParseValue(rest), lines)

ParseItem(inline, lines, indent) == ParseRest(inline, lines, indent, SplitKey(inline) # <<>>)

ParseOthers(child, indent, sofar, inList, key) ==
  IF child.value = Failed THEN Failure ELSE ParseBlock(child.rest, indent, Entered(sofar, inList, key, child.value))

\* a line of a sequence, or of a mapping, and then the others
ParseLine(lines, split, indent, sofar, inList) ==
  IF inList
  THEN IF ~IsItem(Head(lines)) THEN Result(sofar, lines)
       ELSE ParseOthers(ParseItem(Trimmed(Tail(Head(lines).content)), Tail(lines), indent), indent, sofar, TRUE, <<>>)
  ELSE IF split = <<>> THEN IF IsPrefix(<<"-", " ">>, Head(lines).content) THEN Result(sofar, lines) ELSE Failure
  ELSE IF Scalar(split[1]) = Failed THEN Failure
  ELSE ParseOthers(ParseRest(Trimmed(split[2]), Tail(lines), indent, FALSE), indent, sofar, FALSE, KeyOf(Scalar(split[1])))

ParseBlock(lines, indent, sofar) ==
  IF lines = <<>> \/ Head(lines).indent # indent THEN Result(sofar, lines)
  ELSE ParseLine(lines, SplitKey(Head(lines).content), indent, sofar, IF sofar = Nothing THEN IsItem(Head(lines)) ELSE sofar.type = "list")

Separators == {<<"-", "-", "-">>, <<".", ".", ".">>}

\* comments, separators of documents and blank lines are dropped first
Useful(source) ==
  SelectSeq([i \in DOMAIN source |-> Line(source[i].indent, Trimmed(StripComment(source[i].content)))], LAMBDA l : l.content \notin Separators \cup {<<>>})

\* what is left over has an indent nobody expects
Whole(result) == IF result.rest # <<>> THEN Failed ELSE result.value
ParseLines(lines) == IF lines = <<>> THEN Failed ELSE Whole(ParseBlock(lines, Head(lines).indent, Nothing))
ParseYaml(source) == ParseLines(Useful(source))

-----------------------------------------------------------------------------

\* How a document is written: the reference the reader is held against.
\* A layout is [quote, inFlow, column, dashed, commented]: the quote of texts
\* that need one, whether inner collections are in line, whether a sequence
\* stays in the column of its key, whether a mapping starts after the dash, and
\* whether each line ends in a comment
Doubled(text, c, by) == FlattenSeq([i \in DOMAIN text |-> IF text[i] = c THEN by ELSE <<text[i]>>])

Quoted(text, quote) ==
  IF text # <<>> /\ ToSet(text) \subseteq {"x", "y"} THEN text
  ELSE IF quote = "'" THEN <<"'">> \o Doubled(text, "'", <<"'", "'">>) \o <<"'">>
  ELSE <<"\"">> \o Doubled(Doubled(text, "\\", <<"\\", "\\">>), "\"", <<"\\", "\"">>) \o <<"\"">>

IsLeaf(v) == v.type \in {"null", "text", "anchor"}
IsBlock(v) == v.type = "text" /\ "\n" \in ToSet(v.text)
Keys(v) == SetToSeq(DOMAIN v.fields)

RECURSIVE InLine(_, _)
InLine(v, quote) ==
  LET joined(parts) == FlattenSeq([i \in DOMAIN parts |-> IF i = 1 THEN parts[i] ELSE <<",", " ">> \o parts[i]]) IN
  CASE v.type = "null" -> <<"~">>
    [] v.type = "anchor" -> <<"&", "x">>
    [] v.type = "text" -> Quoted(v.text, quote)
    [] v.type = "list" -> <<"[">> \o joined([i \in DOMAIN v.items |-> InLine(v.items[i], quote)]) \o <<"]">>
    [] v.type = "map" -> <<"{">> \o joined([i \in DOMAIN Keys(v) |-> Quoted(Keys(v)[i], quote) \o <<":", " ">> \o InLine(v.fields[Keys(v)[i]], quote)]) \o <<"}">>

InnerLine(v, layout) ==
  (IsLeaf(v) /\ ~IsBlock(v)) \/ (layout.inFlow /\ ~IsBlock(v)) \/ (v.type = "list" /\ v.items = <<>>) \/ (v.type = "map" /\ DOMAIN v.fields = {})

\* the lines of a text with line breaks, the last break the block's own
BlockLines(text) ==
  LET body == IF EndsWith(text, "\n") THEN Front(text) ELSE text
      ends == Ordered({i \in DOMAIN body : body[i] = "\n"} \cup {Len(body) + 1})
  IN [k \in DOMAIN ends |-> SubSeq(body, IF k = 1 THEN 1 ELSE ends[k - 1] + 1, ends[k] - 1)]

Indented(text, indent) ==
  LET first == Min({i \in DOMAIN text : text[i] # " "}) IN Line(indent + first - 1, SubSeq(text, first, Len(text)))

RECURSIVE Emit(_, _, _)
Emit(v, indent, layout) ==
  LET ended(text) == IF layout.commented THEN text \o <<" ", "#", " ", "'">> ELSE text
      after(opening, inner, under) ==  \* what follows a key or a dash
        IF IsBlock(inner) THEN <<Line(indent, ended(opening \o (IF EndsWith(inner.text, "\n") THEN <<" ", "|">> ELSE <<" ", "|", "-">>)))>>
                               \o [k \in DOMAIN BlockLines(inner.text) |-> Indented(BlockLines(inner.text)[k], indent + 2)]
        ELSE IF InnerLine(inner, layout) THEN <<Line(indent, ended(opening \o <<" ">> \o InLine(inner, layout.quote)))>>
        ELSE <<Line(indent, ended(opening))>> \o Emit(inner, under, layout)
      field(key) ==
        LET inner == v.fields[key]
            opening == Append(Quoted(key, layout.quote), ":")
        IN IF inner = Nothing THEN <<Line(indent, ended(opening))>>
           ELSE after(opening, inner, IF inner.type = "list" /\ layout.column THEN indent ELSE indent + 2)
      item(inner) ==
        LET lines == Emit(inner, indent + 2, layout) IN
        IF inner.type = "map" /\ layout.dashed /\ ~InnerLine(inner, layout)
        THEN <<Line(indent, <<"-", " ">> \o Head(lines).content)>> \o Tail(lines)
        ELSE after(<<"-">>, inner, indent + 2)
  IN IF v.type = "list" THEN FlattenSeq([i \in DOMAIN v.items |-> item(v.items[i])])
     ELSE FlattenSeq([i \in DOMAIN Keys(v) |-> field(Keys(v)[i])])

\* the values of a file, one document each, in one layout
Emitted(file) ==
  FlattenSeq([i \in DOMAIN file.documents |-> IF i = 1 THEN Emit(file.documents[i], 0, file.layout) ELSE <<Line(0, <<"-", "-", "-">>)>> \o Emit(file.documents[i], 0, file.layout)])

YamlInit ==
  /\ \E layout \in Layouts, d \in Files, more \in {<<>>} \cup {<<e>> : e \in SecondFiles} :
       written = [documents |-> <<d>> \o more, layout |-> layout]
  /\ read = NotRead

Read ==
  /\ read = NotRead
  /\ read' = ParseYaml(Emitted(written))
  /\ UNCHANGED written

YamlNext == Read

YamlSpec == YamlInit /\ [][YamlNext]_yamlVars

RECURSIVE HasAnchor(_)
HasAnchor(v) ==
  v = Anchor \/ (v.type = "list" /\ \E x \in ToSet(v.items) : HasAnchor(x)) \/ (v.type = "map" /\ \E x \in Range(v.fields) : HasAnchor(x))

\* A contract is the same document however it is laid out (the comment at
\* yaml.ts 9-13): what is read is the value that was written, and a document
\* with an anchor anywhere in it is refused, never returned by halves.  It is
\* said of files of one document, whose blocks have no blank, comment or
\* separator line and whose empty items are written ~.
ReadsWhatIsWritten ==
  read # NotRead /\ Len(written.documents) = 1 =>
    read = IF HasAnchor(written.documents[1]) THEN Failed ELSE written.documents[1]

\* What the reader does not cover, several documents in a file among it, fails
\* with a message (yaml.ts 11-13).
RefusesWhatItDoesNotCover ==
  read # NotRead /\ Len(written.documents) > 1 => read = Failed

=============================================================================
