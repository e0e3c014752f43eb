------------------------------ MODULE JsonTools ------------------------------
(***************************************************************************)
(* The JSON diff (src/toolbox/json-diff.ts) and the JSON Schema validator  *)
(* (src/toolbox/json-schema.ts) of the toolbox.  In the diff a value is a  *)
(* record of its kind: null, a number, a list of items or a function of    *)
(* fields; strings and booleans are leaves as numbers are.  A path is the  *)
(* sequence of its segments, a rule the segments it was written with.  In  *)
(* the validator a schema is a record of its keywords, [always |-> b]      *)
(* where the text has true or false; numbers are counted in halves, a      *)
(* string is its length and the expressions it fits, an object has the     *)
(* order its fields are written in besides.  The message of a violation is *)
(* left out, its keyword and the field it is about are kept.               *)
(***************************************************************************)
EXTENDS Integers, FiniteSetsExt, SequencesExt

CONSTANTS
  Documents,    \* JSON values compared
  Rules,       \* sets of rules of fields to ignore
  Cases,        \* pairs of a document of schemas (its "#" is the root) and an instance
  FORMATS,      \* formats the validator knows
  Readable,     \* expressions that compile
  MAX_DEPTH     \* 64 in the code

VARIABLES
  before, after,  \* the two documents
  ignore,         \* the rules
  entries,        \* differences found
  skipped,        \* paths the rules discarded
  diffed          \* has the diff run?

diffVars == <<before, after, ignore, entries, skipped, diffed>>

Null == [kind |-> "null"]
Number(n) == [kind |-> "number", num |-> n]
List(items) == [kind |-> "array", items |-> items]
Object(fields) == [kind |-> "object", fields |-> fields]

Key(k) == [key |-> k]
Index(i) == [index |-> i]
AnyIndex == [index |-> -1]

\* a rule of one name matches the last property, any other the end of the path,
\* from a property on: one that starts with an index never matches
SegmentMatches(part, segment) == part = segment \/ (part = AnyIndex /\ DOMAIN segment = {"index"})
RuleMatches(rule, path) ==
  /\ Len(rule) <= Len(path) /\ DOMAIN rule[1] = {"key"}
  /\ \A i \in DOMAIN rule : SegmentMatches(rule[i], path[Len(path) - Len(rule) + i])

IsIgnored(rules, path) == \E rule \in rules : RuleMatches(rule, path)

Entry(path, kind) == [path |-> path, kind |-> kind]

Fields(v) == DOMAIN v.fields

\* a plausible bug: only as many items as the first document has are compared
FirstIndices(left, right) == DOMAIN left.items

Indices(left, right) == DOMAIN left.items \cup DOMAIN right.items

\* walk, as the set of entries and the set of paths ignored
RECURSIVE Walk(_, _, _, _)
Walk(rules, path, left, right) ==
  LET none == [entries |-> {}, ignored |-> {}]
      found(p, kind) == [entries |-> {Entry(p, kind)}, ignored |-> {}]
      all(results) == [entries |-> UNION {r.entries : r \in results}, ignored |-> UNION {r.ignored : r \in results}]
      one(p, inLeft, inRight, Inner(_)) ==
        IF IsIgnored(rules, p) THEN [entries |-> {}, ignored |-> {p}]
        ELSE IF inLeft /\ ~inRight THEN found(p, "removed")
        ELSE IF inRight /\ ~inLeft THEN found(p, "added") ELSE Inner(p)
  IN IF left.kind # right.kind THEN found(path, "type_changed")
     ELSE IF left.kind = "object"
     THEN all({one(Append(path, Key(k)), k \in Fields(left), k \in Fields(right),
                   LAMBDA p : Walk(rules, p, left.fields[k], right.fields[k])) : k \in Fields(left) \cup Fields(right)})
     ELSE IF left.kind = "array"
     THEN all({one(Append(path, Index(i)), i \in DOMAIN left.items, i \in DOMAIN right.items,
                   LAMBDA p : Walk(rules, p, left.items[i], right.items[i])) : i \in Indices(left, right)})
     ELSE IF left = right THEN none ELSE found(path, "changed")

DiffInit ==
  /\ before \in Documents /\ after \in Documents /\ ignore \in Rules
  /\ entries = {} /\ skipped = {} /\ diffed = FALSE

DiffJson ==
  /\ ~diffed
  /\ LET result == Walk(ignore, <<>>, before, after) IN entries' = result.entries /\ skipped' = result.ignored
  /\ diffed' = TRUE
  /\ UNCHANGED <<before, after, ignore>>

DiffNext == DiffJson

DiffSpec == DiffInit /\ [][DiffNext]_diffVars

-----------------------------------------------------------------------------

\* the value at a path, one of its own segments at a time
At(v, path) == FoldLeft(LAMBDA u, s : IF DOMAIN s = {"key"} THEN u.fields[s.key] ELSE u.items[s.index], v, path)

KindAt(path) == {e.kind : e \in {f \in entries : f.path = path}}

\* the document before with what the entries say done to it
RECURSIVE Patched(_, _)
Patched(path, v) ==
  IF KindAt(path) \cap {"added", "changed", "type_changed"} # {} THEN At(after, path)
  ELSE IF v.kind = "object"
  THEN LET child(k) == Append(path, Key(k))
           came == {e.path[Len(e.path)].key : e \in {f \in entries : f.kind = "added" /\ Len(f.path) = Len(path) + 1 /\ SubSeq(f.path, 1, Len(path)) = path}}
           stay == {k \in Fields(v) : "removed" \notin KindAt(child(k))}
       IN Object([k \in came \cup stay |-> Patched(child(k), IF k \in stay THEN v.fields[k] ELSE Null)])
  ELSE IF v.kind = "array"
  THEN LET child(i) == Append(path, Index(i))
           last == CHOOSE n \in 0..(Len(v.items) + Cardinality(entries)) :
                     \A i \in 1..(Len(v.items) + Cardinality(entries)) :
                       i <= n <=> (i \in DOMAIN v.items /\ "removed" \notin KindAt(child(i))) \/ "added" \in KindAt(child(i))
       IN List([i \in 1..last |-> Patched(child(i), IF i \in DOMAIN v.items THEN v.items[i] ELSE Null)])
  ELSE v

\* without rules the entries are all there is to say: doing them to the first
\* document gives the second, and equal documents have none (json-diff.ts 108-176)
EntriesTellTheDifference == diffed /\ ignore = {} => Patched(<<>>, before) = after /\ (before = after => entries = {})

\* a rule takes away what is at or below a path it matches and nothing else,
\* and the diff the other way round finds the same with the sides changed
SidesChanged(kind) == CASE kind = "added" -> "removed" [] kind = "removed" -> "added" [] OTHER -> kind
RulesOnlyTakeAway ==
  diffed => LET back  == Walk(ignore, <<>>, after, before)
                whole == Walk({}, <<>>, before, after)
                hidden(e) == \E n \in 1..Len(e.path) : IsIgnored(ignore, SubSeq(e.path, 1, n))
            IN /\ entries = {Entry(e.path, SidesChanged(e.kind)) : e \in back.entries} /\ skipped = back.ignored
               /\ entries = {e \in whole.entries : ~hidden(e)}

DiffIsSound == EntriesTellTheDifference /\ RulesOnlyTakeAway

-----------------------------------------------------------------------------
VARIABLES
  document, instance,
  violations, unsupported,
  cut,        \* was a reference left unfollowed?
  loose,      \* was something judged otherwise than its draft says?
  judged

schemaVars == <<document, instance, violations, unsupported, cut, loose, judged>>

SUPPORTED == {"type", "enum", "const", "required", "properties", "patternProperties", "additionalProperties", "minProperties", "maxProperties",
              "prefixItems", "items", "minItems", "maxItems", "uniqueItems", "contains", "minLength", "maxLength", "pattern", "format",
              "minimum", "maximum", "exclusiveMinimum", "exclusiveMaximum", "multipleOf", "allOf", "anyOf", "oneOf", "not", "nullable", "ref", "always"}

Has(s, keyword) == keyword \in DOMAIN s

\* matchesType: an integer is a number of no fraction
MatchesType(v, expected) == v.kind = expected \/ (expected = "integer" /\ v.kind = "number" /\ v.num % 2 = 0)

Passed == [bad |-> {}, odd |-> {}, cut |-> FALSE, loose |-> FALSE]
Refused(path, keyword) == [Passed EXCEPT !.bad = {<<path, keyword>>}]
Odd(what) == [Passed EXCEPT !.odd = {what}]
Loosely(condition) == [Passed EXCEPT !.loose = condition]
When(condition, result) == IF condition THEN result ELSE Passed
Together(results) ==
  [bad |-> UNION {r.bad : r \in results}, odd |-> UNION {r.odd : r \in results},
   cut |-> \E r \in results : r.cut, loose |-> \E r \in results : r.loose]
\* a branch of anyOf, oneOf, not and contains keeps its violations to itself
Isolated(results) == [Together(results) EXCEPT !.bad = {}]
Fits(result) == result.bad = {}

\* sameValue and the keys of uniqueItems: the texts of JSON.stringify, with the fields
\* in the order the value has them
SameText(v, w) == v = w

\* the value whatever the order of the fields
RECURSIVE Unordered(_)
Unordered(v) ==
  CASE v.kind = "object" -> Object([k \in DOMAIN v.fields |-> Unordered(v.fields[k])])
    [] v.kind = "array" -> List([i \in DOMAIN v.items |-> Unordered(v.items[i])])
    [] OTHER -> v

\* equal, and told apart by their texts
OrderTells(v, w) == Unordered(v) = Unordered(w) /\ ~SameText(v, w)

\* validateString, validateNumber
StringRules(s, v, path) ==
  Together({
    When(Has(s, "minLength") /\ v.length < s.minLength, Refused(path, "minLength")),
    When(Has(s, "maxLength") /\ v.length > s.maxLength, Refused(path, "maxLength")),
    When(Has(s, "pattern"), IF s.pattern \notin Readable THEN Odd("pattern") ELSE When(s.pattern \notin v.fits, Refused(path, "pattern"))),
    When(Has(s, "format"), IF s.format \notin FORMATS THEN Odd("format") ELSE When(s.format \notin v.fits, Refused(path, "format")))})

NumberRules(s, v, path) ==
  Together({
    When(Has(s, "minimum") /\ v.num < s.minimum, Refused(path, "minimum")),
    When(Has(s, "maximum") /\ v.num > s.maximum, Refused(path, "maximum")),
    When(Has(s, "exclusiveMinimum") /\ v.num <= s.exclusiveMinimum, Refused(path, "exclusiveMinimum")),
    When(Has(s, "exclusiveMaximum") /\ v.num >= s.exclusiveMaximum, Refused(path, "exclusiveMaximum")),
    When(Has(s, "multipleOf") /\ s.multipleOf > 0 /\ v.num % s.multipleOf # 0, Refused(path, "multipleOf"))})

\* validateObject: what a field has to fit, each as a schema of its own
SchemasOfField(s, k) ==
  LET declared == {s.properties[k] : x \in {y \in {1} : Has(s, "properties") /\ k \in DOMAIN s.properties}}
      matching == {s.patternProperties[p] : p \in {q \in (IF Has(s, "patternProperties") THEN DOMAIN s.patternProperties ELSE {}) : k \in q}}
  IN IF declared \cup matching # {} THEN declared \cup matching
     ELSE {s.additionalProperties : x \in {y \in {1} : Has(s, "additionalProperties")}}

ObjectRules(s, v, path) ==
  LET size == Cardinality(DOMAIN v.fields) IN
  Together({
    Together({Refused(Append(path, k), "required") : k \in (IF Has(s, "required") THEN s.required ELSE {}) \ DOMAIN v.fields}),
    When(Has(s, "minProperties") /\ size < s.minProperties, Refused(path, "minProperties")),
    When(Has(s, "maxProperties") /\ size > s.maxProperties, Refused(path, "maxProperties"))})

\* validateArray: the schema of an item, if any
SchemaOfItem(s, i) ==
  IF Has(s, "prefixItems") /\ i \in DOMAIN s.prefixItems THEN {s.prefixItems[i]}
  ELSE IF Has(s, "items") THEN {s.items} ELSE {}

ArrayRules(s, v, path) ==
  Together({
    When(Has(s, "minItems") /\ Len(v.items) < s.minItems, Refused(path, "minItems")),
    When(Has(s, "maxItems") /\ Len(v.items) > s.maxItems, Refused(path, "maxItems")),
    Together({Refused(Append(path, ToString(i)), "uniqueItems") :
                i \in {j \in DOMAIN v.items : Has(s, "uniqueItems") /\ s.uniqueItems /\ \E h \in 1..(j - 1) : SameText(v.items[h], v.items[j])}}),
    Loosely(Has(s, "uniqueItems") /\ \E i, j \in DOMAIN v.items : OrderTells(v.items[i], v.items[j]))})

RECURSIVE Node(_, _, _, _, _)

\* a plausible bug: oneOf is content with one alternative or more
AtLeastOne(fit) == fit >= 1

ExactlyOne(fit) == fit = 1

\* validateCombinators
Combined(s, v, path, refs, depth) ==
  LET branch(b) == Node(b, v, path, refs, depth + 1)
      branches(keyword) == IF Has(s, keyword) THEN {branch(b) : b \in ToSet(s[keyword])} ELSE {}
      fitting(keyword) == Cardinality({i \in DOMAIN s[keyword] : Fits(branch(s[keyword][i]))})
  IN Together({
       Together(branches("allOf")),
       Isolated(branches("anyOf") \cup branches("oneOf") \cup (IF Has(s, "not") THEN {branch(s.not)} ELSE {})),
       When(Has(s, "anyOf") /\ s.anyOf # <<>> /\ fitting("anyOf") = 0, Refused(path, "anyOf")),
       When(Has(s, "oneOf") /\ s.oneOf # <<>> /\ ~ExactlyOne(fitting("oneOf")), Refused(path, "oneOf")),
       When(Has(s, "not") /\ Fits(branch(s.not)), Refused(path, "not"))})

\* the fields of an object, the items of an array; contains stops at the first
\* item that fits
Inside(s, v, path, refs, depth) ==
  LET item(b, i) == Node(b, v.items[i], Append(path, ToString(i)), refs, depth + 1)
      first == CHOOSE i \in 1..(Len(v.items) + 1) :
                 /\ i = Len(v.items) + 1 \/ Fits(item(s.contains, i))
                 /\ \A h \in 1..(i - 1) : ~Fits(item(s.contains, h))
  IN CASE v.kind = "object" ->
            Together({ObjectRules(s, v, path)} \cup
                     UNION {{Node(b, v.fields[k], Append(path, k), refs, depth + 1) : b \in SchemasOfField(s, k)} : k \in DOMAIN v.fields})
       [] v.kind = "array" ->
            Together({ArrayRules(s, v, path)} \cup UNION {{item(b, i) : b \in SchemaOfItem(s, i)} : i \in DOMAIN v.items} \cup
                     (IF Has(s, "contains")
                      THEN {Isolated({item(s.contains, i) : i \in 1..(IF first > Len(v.items) THEN Len(v.items) ELSE first)}),
                            When(first > Len(v.items), Refused(path, "contains"))}
                      ELSE {}))
       [] v.kind = "string" -> StringRules(s, v, path)
       [] v.kind = "number" -> NumberRules(s, v, path)
       [] OTHER -> Passed

\* validateNode; refs are the references in use on the way here.  What stands beside a
\* reference is not looked at.
Node(s, v, path, refs, depth) ==
  IF depth > MAX_DEPTH THEN Odd("depth")
  ELSE IF Has(s, "always") THEN When(~s.always, Refused(path, "false"))
  ELSE IF Has(s, "ref")
  THEN IF s.ref \in refs THEN [Passed EXCEPT !.cut = TRUE]
       ELSE IF s.ref \notin DOMAIN document THEN Odd("ref")
       ELSE Together({Node(document[s.ref], v, path, refs \cup {s.ref}, depth + 1), Loosely(DOMAIN s # {"ref"})})
  ELSE Together({
         Together({Odd(keyword) : keyword \in DOMAIN s \ SUPPORTED}),
         IF Has(s, "nullable") /\ s.nullable /\ v.kind = "null" THEN Passed
         ELSE IF Has(s, "type") /\ ~\E t \in s.type : MatchesType(v, t) THEN Refused(path, "type")
         ELSE Together({
                When(Has(s, "enum") /\ ~\E w \in s.enum : SameText(w, v), Refused(path, "enum")),
                When(Has(s, "const") /\ ~SameText(s.const, v), Refused(path, "const")),
                Loosely(\E w \in (IF Has(s, "enum") THEN s.enum ELSE {}) \cup (IF Has(s, "const") THEN {s.const} ELSE {}) : OrderTells(w, v)),
                Inside(s, v, path, refs, depth),
                Combined(s, v, path, refs, depth)})})

SchemaInit ==
  /\ \E c \in Cases : document = c[1] /\ instance = c[2]
  /\ violations = {} /\ unsupported = {} /\ cut = FALSE /\ loose = FALSE /\ judged = FALSE

ValidateJsonSchema ==
  /\ ~judged /\ judged' = TRUE
  /\ LET result == Node(document["#"], instance, <<>>, {}, 0)
     IN violations' = result.bad /\ unsupported' = result.odd /\ cut' = result.cut /\ loose' = result.loose
  /\ UNCHANGED <<document, instance>>

SchemaNext == ValidateJsonSchema

SchemaSpec == SchemaInit /\ [][SchemaNext]_schemaVars

-----------------------------------------------------------------------------

\* what the keywords mean, one value at a time: no paths, no lists of
\* violations, no early return
RECURSIVE Satisfies(_, _, _)

SatisfiesHere(s, v) ==
  /\ Has(s, "type") => \E t \in s.type : MatchesType(v, t)
  /\ Has(s, "enum") => \E w \in s.enum : Unordered(w) = Unordered(v)
  /\ Has(s, "const") => Unordered(v) = Unordered(s.const)
  /\ v.kind = "string" => /\ Has(s, "minLength") => s.minLength <= v.length
                          /\ Has(s, "maxLength") => v.length <= s.maxLength
                          /\ Has(s, "pattern") => s.pattern \in v.fits
                          /\ Has(s, "format") => s.format \in v.fits
  /\ v.kind = "number" => /\ Has(s, "minimum") => s.minimum <= v.num
                          /\ Has(s, "maximum") => v.num <= s.maximum
                          /\ Has(s, "exclusiveMinimum") => s.exclusiveMinimum < v.num
                          /\ Has(s, "exclusiveMaximum") => v.num < s.exclusiveMaximum
                          /\ Has(s, "multipleOf") => \E q \in -10..10 : v.num = q * s.multipleOf
  /\ v.kind = "object" => /\ Has(s, "required") => s.required \subseteq DOMAIN v.fields
                          /\ Has(s, "minProperties") => s.minProperties <= Cardinality(DOMAIN v.fields)
                          /\ Has(s, "maxProperties") => Cardinality(DOMAIN v.fields) <= s.maxProperties
  /\ v.kind = "array" => /\ Has(s, "minItems") => s.minItems <= Len(v.items)
                         /\ Has(s, "maxItems") => Len(v.items) <= s.maxItems
                         /\ Has(s, "uniqueItems") /\ s.uniqueItems => Cardinality({Unordered(w) : w \in ToSet(v.items)}) = Len(v.items)

\* met holds the references already taken for this very value
Satisfies(s, v, met) ==
  CASE Has(s, "always") -> s.always
    [] Has(s, "ref") ->
         /\ s.ref \in met \/ Satisfies(document[s.ref], v, met \cup {s.ref})
         /\ DOMAIN s = {"ref"} \/ Satisfies([keyword \in DOMAIN s \ {"ref"} |-> s[keyword]], v, met)
    [] Has(s, "nullable") /\ s.nullable /\ v.kind = "null" -> TRUE
    [] OTHER ->
         /\ SatisfiesHere(s, v)
         /\ v.kind = "object" => \A k \in DOMAIN v.fields : \A b \in SchemasOfField(s, k) : Satisfies(b, v.fields[k], {})
         /\ v.kind = "array" => /\ \A i \in DOMAIN v.items : \A b \in SchemaOfItem(s, i) : Satisfies(b, v.items[i], {})
                                /\ Has(s, "contains") => \E i \in DOMAIN v.items : Satisfies(s.contains, v.items[i], {})
         /\ Has(s, "allOf") => \A b \in ToSet(s.allOf) : Satisfies(b, v, met)
         /\ Has(s, "anyOf") /\ s.anyOf # <<>> => \E b \in ToSet(s.anyOf) : Satisfies(b, v, met)
         /\ Has(s, "oneOf") /\ s.oneOf # <<>> => Cardinality({i \in DOMAIN s.oneOf : Satisfies(s.oneOf[i], v, met)}) = 1
         /\ Has(s, "not") => ~Satisfies(s.not, v, met)

\* When nothing was left out, the verdict is the schema's: there is a violation
\* exactly when the instance does not satisfy it (json-schema.ts 186-420).  The
\* reference is draft 2020-12, in which what stands beside a $ref counts and
\* the order of fields does not: the verdicts those two change are not claimed.
VerdictIsTheSchemas == judged /\ unsupported = {} /\ ~cut /\ ~loose => (violations = {} <=> Satisfies(document["#"], instance, {}))

\* What the validator does not check it says aloud (json-schema.ts 11-12): an
\* instance approved with nothing listed as unsupported satisfies the schema.
NoSilentApproval == judged /\ unsupported = {} /\ violations = {} => Satisfies(document["#"], instance, {})

=============================================================================
