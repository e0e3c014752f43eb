------------------------------- MODULE MCPages -------------------------------
(***************************************************************************)
(* What runs in the browser: the pages, each with the server it talks to,  *)
(* and the algorithms of the toolbox, each on every one of the small       *)
(* inputs below and held against a reference definition.  They share no    *)
(* variable, so one of them, the focus, takes all the steps of a           *)
(* behaviour.  Where one may start in several states the others wait in    *)
(* one of them.                                                            *)
(***************************************************************************)
EXTENDS CaseDesign, JsonTools, OpenApiDiff, Yaml, Curl, OpenPages

CONSTANT Algorithms \* those of the toolbox that are run

VARIABLE focus \* the one that is run, or used, now

SeqsUpTo(n, S) == UNION {[1..k -> S] : k \in 0..n}
FieldsOver(names, S) == UNION {[few -> S] : few \in SUBSET names}

-----------------------------------------------------------------------------
\* two JSON documents, with one level of nesting, and rules of each form
MCBounds == -3..4
MCFirstDate == -2

JsonLeaves == {Null, Number(0), Number(1)}
JsonFlat == JsonLeaves \cup {Object(f) : f \in FieldsOver({"a", "b"}, JsonLeaves)} \cup {List(s) : s \in SeqsUpTo(2, {Null, Number(0)})}
MCDocuments == JsonFlat \cup {Object("a" :> v) : v \in JsonFlat} \cup {List(<<v>>) : v \in JsonFlat}
MCRules == {{}, {<<Key("a")>>}, {<<Key("a"), Key("b")>>}, {<<Key("a"), AnyIndex>>, <<AnyIndex, Key("a")>>}}

-----------------------------------------------------------------------------
\* a schema of each keyword, each in one of each that holds schemas, references
\* that meet themselves, on values of each type
vNum(n) == [kind |-> "number", num |-> n]
vStr(n, fits) == [kind |-> "string", length |-> n, fits |-> fits]
vOrdered(names, f) == [kind |-> "object", fields |-> f, order |-> names]
vObj(f) == vOrdered(SelectSeq(<<"a", "b">>, LAMBDA k : k \in DOMAIN f), f)
vBoth == "a" :> vNum(4) @@ "b" :> vStr(1, {"word"})
vArr(s) == [kind |-> "array", items |-> s]

SimpleValues == {[kind |-> "null"], [kind |-> "boolean"], vNum(1), vNum(4), vStr(1, {"word"}), vStr(3, {"email"})}
MCValues ==
  SimpleValues
  \cup {vObj(f) : f \in FieldsOver({"a", "b"}, {vNum(4), vStr(1, {"word"})})}
  \cup {vArr(s) : s \in SeqsUpTo(2, {vNum(4), vStr(1, {"word"})})}
  \cup {vOrdered(<<"b", "a">>, vBoth), vArr(<<vObj(vBoth), vOrdered(<<"b", "a">>, vBoth)>>), vArr(<<vObj(vBoth), vObj(vBoth)>>)}
  \cup {vObj("a" :> vObj("a" :> v)) : v \in SimpleValues} \cup {vObj("a" :> vObj("a" :> vNum(1) @@ "b" :> vStr(1, {"word"})) @@ "b" :> vNum(4))}

OneKeyword ==
  {[always |-> TRUE], [always |-> FALSE], [type |-> {"string"}], [type |-> {"integer", "object"}], [type |-> {"string"}, nullable |-> TRUE],
   [enum |-> {vNum(4), vObj(<<>>)}], [const |-> vNum(1)], [const |-> vObj(vBoth)], [enum |-> {vOrdered(<<"b", "a">>, vBoth)}], [minimum |-> 2], [maximum |-> 1], [exclusiveMinimum |-> 1], [exclusiveMaximum |-> 4],
   [multipleOf |-> 2], [minLength |-> 2], [maxLength |-> 1], [pattern |-> "word"], [pattern |-> "broken"], [format |-> "email"],
   [format |-> "colour"], [odd |-> 1]}
InnerSchemas == {[type |-> {"number"}], [type |-> {"string"}, minLength |-> 2], [const |-> vNum(4)]}

Holding(s) ==
  {[properties |-> "a" :> s], [properties |-> "b" :> s, additionalProperties |-> [always |-> FALSE]], [patternProperties |-> {"a", "b"} :> s],
   [properties |-> "a" :> s, patternProperties |-> {"a"} :> [minimum |-> 2], additionalProperties |-> s], [additionalProperties |-> s],
   [items |-> s], [prefixItems |-> <<s>>, items |-> [type |-> {"string"}]], [contains |-> s], [not |-> s],
   [properties |-> "a" :> [properties |-> "a" :> [properties |-> "a" :> s]]]}
Counting ==
  {[required |-> {"a"}], [minProperties |-> 1], [maxProperties |-> 1], [minItems |-> 1], [maxItems |-> 1], [uniqueItems |-> TRUE], [uniqueItems |-> FALSE]}
Combining == UNION {{[anyOf |-> <<s, t>>], [oneOf |-> <<s, t>>], [allOf |-> <<s, t>>]} : s, t \in InnerSchemas \cup {[always |-> TRUE]}}

Referring ==
  {"#" :> [ref |-> "n"] @@ "n" :> s : s \in InnerSchemas} \cup {"#" :> [ref |-> "n", minimum |-> 2] @@ "n" :> [type |-> {"number"}]}
  \cup {"#" :> [ref |-> "missing"], "#" :> [ref |-> "#"], "#" :> [allOf |-> <<[ref |-> "n"], [ref |-> "n"]>>] @@ "n" :> [type |-> {"number"}],
        "#" :> [properties |-> "a" :> [ref |-> "#"] @@ "b" :> [type |-> {"number"}]],
        "#" :> [ref |-> "n"] @@ "n" :> [properties |-> "a" :> [ref |-> "n"] @@ "b" :> [type |-> {"number"}]]}

MCCases ==
  ({"#" :> s : s \in OneKeyword \cup UNION {Holding(s) : s \in InnerSchemas} \cup Counting \cup Combining} \cup Referring) \X MCValues

\* a tree of any depth
MCTrees == {"#" :> [ref |-> "n"] @@ "n" :> [properties |-> "a" :> [ref |-> "n"] @@ "b" :> [type |-> {"number"}]]} \X MCValues

-----------------------------------------------------------------------------
\* pairs of contracts with a difference of each kind
str == [type |-> "string"]
num == [type |-> "number"]
enumOf(S) == [type |-> "string", enum |-> S]
obj(f, R) == [type |-> "object", properties |-> f, required |-> R]
arr(s) == [type |-> "array", items |-> s]

Enums == {enumOf({"x"}), enumOf({"x", "y"})}
Objects == UNION {{obj(f, R) : f \in [S -> {str, num}], R \in SUBSET S} : S \in SUBSET {"a", "b"}}
WithEnum == {obj("a" :> e, {"a"}) : e \in Enums}
Kinds == {str, num, arr(str), arr(num), [ref |-> "S"], obj("a" :> [ref |-> "S"], {})}
SchemaPairs ==
  (Enums \X Enums) \cup (Objects \X Objects) \cup (WithEnum \X WithEnum) \cup ({arr(e) : e \in Enums} \X {arr(e) : e \in Enums}) \cup (Kinds \X Kinds)
  \cup ({arr(obj("a" :> str, {}))} \X {arr(obj("a" :> str, {"a"})), arr(obj(<<>>, {}))})

Plainly == [parameters |-> <<>>, body |-> <<>>, responses |-> "200" :> str, security |-> -1, deprecated |-> FALSE]
Param(place, req, s) == [place |-> place, name |-> "p", required |-> req, schema |-> s]
ParamLists ==
  {<<>>} \cup {<<Param("query", r, s)>> : r \in BOOLEAN, s \in {str, num}}
  \cup {<<Param("query", r, str), Param("header", FALSE, s)>> : r \in BOOLEAN, s \in {str, num}}
BodyLists == {<<>>} \cup {<<[required |-> r, schema |-> s]>> : r \in BOOLEAN, s \in {str, num}}
Answering == {[st \in S |-> str] : S \in SUBSET {"200", "404", "default"}}

OperationPairs ==
  {<<[Plainly EXCEPT !.parameters = p], [Plainly EXCEPT !.parameters = q]>> : p, q \in ParamLists}
  \cup {<<[Plainly EXCEPT !.body = p], [Plainly EXCEPT !.body = q]>> : p, q \in BodyLists}
  \cup {<<[Plainly EXCEPT !.body = <<[required |-> TRUE, schema |-> p[1]]>>], [Plainly EXCEPT !.body = <<[required |-> TRUE, schema |-> p[2]]>>]>> : p \in SchemaPairs}
  \cup {<<[Plainly EXCEPT !.responses = "200" :> p[1]], [Plainly EXCEPT !.responses = "200" :> p[2]]>> : p \in SchemaPairs}
  \cup {<<[Plainly EXCEPT !.responses = p], [Plainly EXCEPT !.responses = q]>> : p, q \in Answering}
  \cup {<<[Plainly EXCEPT !.security = m, !.deprecated = d], [Plainly EXCEPT !.security = n, !.deprecated = e]>> : m, n \in -1..1, d, e \in BOOLEAN}

ContractOf(operation, s) == [paths |-> "/r" :> ("get" :> operation), schemas |-> "S" :> s]
Shapes ==
  {[paths |-> [r \in DOMAIN routes |-> [m \in routes[r] |-> Plainly]], schemas |-> "S" :> str] : routes \in FieldsOver({"/r", "/s"}, SUBSET {"get", "put"})}
MCContracts == {<<ContractOf(p[1], s), ContractOf(p[2], t)>> : p \in OperationPairs, s, t \in {str, num}} \cup (Shapes \X Shapes)

-----------------------------------------------------------------------------
\* YAML documents of two levels, their texts chosen for what has a meaning in YAML
YamlTexts ==
  {<<>>, <<"x">>, <<"x", " ", "y">>, <<" ", "x">>, <<"'">>, <<"'", "'">>, <<"\"">>, <<"\\">>, <<"\\", "\"">>, <<":", " ">>, <<"x", ":", "y">>, <<"#">>,
   <<" ", "#">>, <<"-", " ", "x">>, <<"&", "x">>, <<"[", "x">>, <<"}", ",">>, <<"|">>, <<"~">>}
YamlBlocks == {<<"x", "\n">>, <<"x", "\n", "y">>, <<"x", "\n", " ", "y", "\n">>, <<"x", ":", " ", "y", "\n", "-", " ", "x", "\n">>}
YamlFew ==
  {Nothing, TextValue(<<"x">>), TextValue(<<"x", "\n", " ", "y", "\n">>), TextValue(<<":", " ", "'">>), Anchor, Sequence(<<>>), Mapping(<<>>)}
TwoKeys == {<<"x">>, <<"y", ":", " ", "'">>}
MapsOf(S) == {Mapping(f) : f \in FieldsOver(TwoKeys, S) \ {<<>>}}
ListsOf(S) == {Sequence(s) : s \in SeqsUpTo(2, S) \ {<<>>}}
YamlNested == MapsOf({Nothing, TextValue(<<"x">>)}) \cup ListsOf({TextValue(<<"x">>), TextValue(<<":", " ", "'">>)}) \cup {Sequence(<<Anchor>>)}

MCFiles ==
  {Mapping(<<"x">> :> TextValue(t)) : t \in YamlTexts \cup YamlBlocks} \cup {Sequence(<<TextValue(t)>>) : t \in YamlTexts \cup YamlBlocks}
  \cup {Mapping(t :> Nothing) : t \in YamlTexts \ {<<>>}}
  \cup MapsOf(YamlFew) \cup ListsOf(YamlFew)
  \cup {Mapping(<<"x">> :> v @@ <<"y">> :> w) : v \in YamlNested, w \in {Nothing, Sequence(<<TextValue(<<"x">>)>>)}}
  \cup {Sequence(<<v, w>>) : v \in YamlNested, w \in YamlNested}
MCSecondFiles == {Mapping(<<"y">> :> TextValue(<<"x">>)), Sequence(<<TextValue(<<"x">>)>>)}
MCLayouts == [quote : {"'", "\""}, inFlow : BOOLEAN, column : BOOLEAN, dashed : BOOLEAN, commented : BOOLEAN]

-----------------------------------------------------------------------------
\* commands: their arguments by the characters a shell gives a meaning to, and
\* their options by what they do
CurlTexts ==
  {<<>>, <<"x">>, <<"x", " ", "y">>, <<"'">>, <<"x", "'", "'">>, <<"\"", "x">>, <<"\\">>, <<"\\", "x">>, <<"\\", "\"">>, <<"$", "x">>, <<"^">>, <<"^", "x">>,
   <<" ", "^", " ">>}
MCTokens == {<<s>> : s \in CurlTexts} \cup (CurlTexts \X CurlTexts)

Part(name, value) == [name |-> name, value |-> value]
MCCurlOptions ==
  {[flag |-> "-X", method |-> "PUT"], [flag |-> "-I"], [flag |-> "-G"], [flag |-> "--json", data |-> Part("c", "1")],
   [flag |-> "-d", data |-> Part("a", "1")], [flag |-> "-H", header |-> Header("authorization", "Bearer", "s1")],
   [flag |-> "-H", header |-> Header("x-api-key", Absence, "s2")], [flag |-> "-H", header |-> Header("content-type", Absence, "text")],
   [flag |-> "-b", cookie |-> "s3"], [flag |-> "-u", user |-> "s4"], [flag |-> "--url", url |-> [base |-> "u1", query |-> <<>>]],
   [flag |-> "url", url |-> [base |-> "u2", query |-> <<Part("b", "2")>>]],
   [flag |-> "url", url |-> [base |-> "u3", query |-> <<Part("b", "2"), Part("b", "3")>>]], [flag |-> "-s"]}

-----------------------------------------------------------------------------
\* the algorithms share no variable: one of them is run, and each of the others
\* waits in one state of its own
AlgorithmsInit ==
  /\ IF focus = "pairwise" THEN PairwiseInit
     ELSE PairwiseRefused
  /\ IF focus = "boundary values" THEN BoundaryInit
     ELSE limits = [type |-> "integer", minimum |-> 0, maximum |-> 0, step |-> 1] /\ points = <<>> /\ byPosition = <<>> /\ cases = <<>> /\ casesDone = FALSE
  /\ IF focus = "json diff" THEN DiffInit
     ELSE before = Null /\ after = Null /\ ignore = {} /\ entries = {} /\ skipped = {} /\ diffed = FALSE
  /\ IF focus = "json schema" THEN SchemaInit
     ELSE document = "#" :> [always |-> TRUE] /\ instance = Null /\ violations = {} /\ unsupported = {} /\ cut = FALSE /\ loose = FALSE /\ judged = FALSE
  /\ IF focus = "openapi diff" THEN ContractInit
     ELSE left = ContractOf(Plainly, str) /\ right = left /\ changes = {} /\ compared = FALSE
  /\ IF focus = "yaml" THEN YamlInit ELSE written = <<>> /\ read = NotRead
  /\ IF focus = "curl" THEN CurlInit ELSE line = <<>> /\ options = <<>> /\ split = <<>> /\ request = NoRequest /\ code = <<>>

OtherAlgorithmsWait ==
  /\ UNCHANGED focus
  /\ IF focus = "pairwise" THEN TRUE ELSE UNCHANGED pairVars
  /\ IF focus = "boundary values" THEN TRUE ELSE UNCHANGED boundaryVars
  /\ IF focus = "json diff" THEN TRUE ELSE UNCHANGED diffVars
  /\ IF focus = "json schema" THEN TRUE ELSE UNCHANGED schemaVars
  /\ IF focus = "openapi diff" THEN TRUE ELSE UNCHANGED contractVars
  /\ IF focus = "yaml" THEN TRUE ELSE UNCHANGED yamlVars
  /\ IF focus = "curl" THEN TRUE ELSE UNCHANGED curlVars

ToolboxNext ==
  \/ focus = "pairwise" /\ PairwiseNext /\ OtherAlgorithmsWait
  \/ focus = "boundary values" /\ BoundaryNext /\ OtherAlgorithmsWait
  \/ focus = "json diff" /\ DiffNext /\ OtherAlgorithmsWait
  \/ focus = "json schema" /\ SchemaNext /\ OtherAlgorithmsWait
  \/ focus = "openapi diff" /\ ContractNext /\ OtherAlgorithmsWait
  \/ focus = "yaml" /\ YamlNext /\ OtherAlgorithmsWait
  \/ focus = "curl" /\ CurlNext /\ OtherAlgorithmsWait

-----------------------------------------------------------------------------
MCAccountPage == {"reports", "quality", "alerts"}

PagesInit ==
  /\ focus \in Algorithms \cup Pages
  /\ OpenPagesInit
  /\ focus # "scanner" => remoteScan[Reopened] = "running"
  /\ focus # "account pages" => thePage = "reports" /\ chosen = CHOOSE f \in PageFilter : TRUE
  /\ focus # "dashboard page" => ~signedIn
  /\ focus # "entry page" => ~sessionOpen /\ offer = [login |-> TRUE, reset |-> TRUE, link |-> FALSE]
  /\ AlgorithmsInit

\* Bound: a file is read before the first request is sent, and a second one is
\* sent where nothing was pushed or read.  All a send does to what is saved is
\* to forget which saved request is being edited, as ClearRequest does.
SendsApart ==
  /\ importing' # NoFile => sends' = 0
  /\ sends' > 1 => flightsSent' = 0

PagesNext ==
  \/ ToolboxNext /\ UNCHANGED openPagesVars
  \/ PageMoves(focus) /\ SendsApart /\ OtherAlgorithmsWait

PagesSpec == PagesInit /\ [][PagesNext]_<<focus, pairVars, boundaryVars, diffVars, schemaVars, contractVars, yamlVars, curlVars, openPagesVars>>

-----------------------------------------------------------------------------
(***************************************************************************)
(* The verdicts of the toolbox are those of a reference definition: the    *)
(* entries of a diff rebuild the second document (json-diff.ts), a schema  *)
(* is violated exactly by what does not satisfy it (json-schema.ts), and a *)
(* contract breaks exactly when a caller of today notices                  *)
(* (openapi-diff.ts).                                                      *)
(***************************************************************************)
ComparisonsAreSound ==
  CASE focus = "json diff" -> DiffIsSound [] focus = "json schema" -> VerdictIsTheSchemas [] focus = "openapi diff" -> VerdictIsTheCallers
    [] OTHER -> TRUE

(***************************************************************************)
(* What is read of a text is what was written in it: a YAML contract in    *)
(* each of the layouts written here (yaml.ts; its plain scalars are words  *)
(* without special characters), a command in any quoting, and the code of  *)
(* each client sends what the command sends without a credential in it          *)
(* (curl.ts).                                                              *)
(***************************************************************************)
TextsAreReadAsWritten == (focus = "yaml" => ReadsWhatIsWritten) /\ (focus = "curl" => TranslationsAreFaithful)

(***************************************************************************)
(* What a schema demands and the validator does not check is said aloud    *)
(* (json-schema.ts 11-12): an instance called valid, with nothing listed   *)
(* as unsupported, satisfies the schema.                                   *)
(***************************************************************************)
ApprovedMeansChecked == focus = "json schema" => NoSilentApproval
=============================================================================
