----------------------------- MODULE OpenApiDiff -----------------------------
(***************************************************************************)
(* The contract diff of the toolbox (src/toolbox/openapi-diff.ts): two     *)
(* OpenAPI documents and the impact of each change between them.  A        *)
(* document is [paths, schemas]: a function of routes to functions of      *)
(* methods to operations, and the schemas its references name.             *)
(***************************************************************************)
EXTENDS Integers, FiniteSetsExt, SequencesExt

CONSTANTS
  Contracts,        \* pairs of documents compared
  MAX_SCHEMA_DEPTH, \* 24 in the code
  MaxReferences     \* references of references followed, 8 in the code

VARIABLES left, right, changes, compared

contractVars == <<left, right, changes, compared>>

Absent == "absent"
Impacts == {"breaking", "addition", "note"}
Change(impact, where, what) == [impact |-> impact, where |-> where, what |-> what]
Whether(condition, set) == IF condition THEN set ELSE {}

\* schemas: [type], with enum, [type, properties, required], [type, items], [ref]
Keyword(s, k, otherwise) == IF k \in DOMAIN s THEN s[k] ELSE otherwise
RequiredNames(s) == Keyword(s, "required", {})
Properties(s) == Keyword(s, "properties", <<>>)

\* a local reference is followed, one that names nothing is left as it is
RECURSIVE Resolve(_, _, _)
Resolve(s, schemas, depth) ==
  IF depth > MaxReferences \/ "ref" \notin DOMAIN s \/ s.ref \notin DOMAIN schemas THEN s
  ELSE Resolve(schemas[s.ref], schemas, depth + 1)

\* a plausible bug: what a response newly promises is held against it as what a
\* request newly demands is
SameForBoth(direction, request, response) == request

\* the side of the contract decides the impact
ByDirection(direction, request, response) == IF direction = "request" THEN request ELSE response

RECURSIVE DiffSchema(_, _, _, _, _, _)
DiffSchema(before, after, direction, where, field, depth) ==
  LET l == Resolve(before, left.schemas, 0)
      r == Resolve(after, right.schemas, 0)
      say(impact, what) == {Change(impact, where, <<what, field>>)}
      by(request, response, what) == say(ByDirection(direction, request, response), what)
      lp == Properties(l)
      rp == Properties(r)
      typed(s) == "type" \in DOMAIN s
      listed(s) == "enum" \in DOMAIN s
      deeper(b, a, name) == DiffSchema(b, a, direction, where, Append(field, name), depth + 1)
  IN IF depth > MAX_SCHEMA_DEPTH THEN {} ELSE
     Whether(typed(l) /\ typed(r) /\ Keyword(l, "type", Absent) # Keyword(r, "type", Absent), say("breaking", "type"))
     \cup Whether(Keyword(l, "format", Absent) # Keyword(r, "format", Absent), say("note", "format"))
     \cup Whether(listed(l) /\ listed(r),
            Whether(Keyword(l, "enum", {}) \ Keyword(r, "enum", {}) # {}, by("breaking", "note", "values removed"))
            \cup Whether(Keyword(r, "enum", {}) \ Keyword(l, "enum", {}) # {}, by("addition", "breaking", "values added")))
     \cup Whether(DOMAIN lp \ DOMAIN rp # {}, by("note", "breaking", "property removed"))
     \cup Whether((DOMAIN rp \ DOMAIN lp) \cap RequiredNames(r) # {}, by("breaking", "addition", "required property added"))
     \cup Whether((DOMAIN rp \ DOMAIN lp) \ RequiredNames(r) # {}, say("addition", "property added"))
     \cup Whether((RequiredNames(r) \ RequiredNames(l)) \cap DOMAIN lp # {}, by("breaking", "addition", "now required"))
     \cup Whether((RequiredNames(l) \ RequiredNames(r)) \cap DOMAIN rp # {}, by("note", "breaking", "no longer required"))
     \cup UNION {deeper(lp[k], rp[k], k) : k \in DOMAIN lp \cap DOMAIN rp}
     \cup Whether({"items"} \subseteq DOMAIN l \cap DOMAIN r,
            DiffSchema(Keyword(l, "items", l), Keyword(r, "items", r), direction, where, Append(field, "[]"), depth + 1))

\* parametersOf: the last of a place and name counts
ParametersOf(operation) ==
  {p \in ToSet(operation.parameters) : \E i \in DOMAIN operation.parameters :
     operation.parameters[i] = p /\ \A j \in DOMAIN operation.parameters : j > i => <<operation.parameters[j].place, operation.parameters[j].name>> # <<p.place, p.name>>}
SameParameter(p, ps) == {q \in ps : q.place = p.place /\ q.name = p.name}

\* of the parameters of one name only the first is compared schema by schema:
\* seen is keyed by the name alone
FirstOfName(p, operation, known) ==
  LET firsts == {i \in DOMAIN operation.parameters : operation.parameters[i].name = p.name /\ SameParameter(operation.parameters[i], known) # {}}
  IN \E i \in firsts : (\A j \in firsts : i <= j) /\ SameParameter(operation.parameters[i], {p}) # {}

DiffParameters(before, after, where) ==
  LET ls == ParametersOf(before)
      rs == ParametersOf(after)
      say(impact, what) == {Change(impact, where, <<what, <<>>>>)}
  IN UNION {LET was == SameParameter(p, ls) IN
              IF was = {} THEN say(IF p.required THEN "breaking" ELSE "addition", "parameter added")
              ELSE UNION {Whether(~q.required /\ p.required, say("breaking", "parameter now required"))
                          \cup Whether(q.required /\ ~p.required, say("note", "parameter no longer required"))
                          \cup Whether(FirstOfName(p, after, ls), DiffSchema(q.schema, p.schema, "request", where, <<p.name>>, 0)) : q \in was}
            : p \in rs}
     \cup UNION {say(IF p.required THEN "breaking" ELSE "note", "parameter removed") : p \in {q \in ls : SameParameter(q, rs) = {}}}

\* a body is absent, or [required, schema]; a schema may be absent too
DiffBody(before, after, where) ==
  LET b == before.body
      a == after.body
      say(impact, what) == {Change(impact, where, <<what, <<>>>>)}
  IN IF b = <<>> /\ a = <<>> THEN {}
     ELSE IF b = <<>> THEN Whether(a[1].required, say("breaking", "body added"))
     ELSE IF a = <<>> THEN say("note", "body removed")
     ELSE Whether(~b[1].required /\ a[1].required, say("breaking", "body now required"))
          \cup DiffSchema(b[1].schema, a[1].schema, "request", where, <<"body">>, 0)

Successes == {"200", "default"}

DiffResponses(before, after, where) ==
  LET b == before.responses
      a == after.responses
  IN UNION {IF st \in DOMAIN a THEN DiffSchema(b[st], a[st], "response", where, <<st>>, 0)
            ELSE {Change(IF st \in Successes THEN "breaking" ELSE "note", where, <<"response removed", <<st>>>>)} : st \in DOMAIN b}
     \cup {Change("addition", where, <<"response added", <<st>>>>) : st \in DOMAIN a \ DOMAIN b}

\* security: undeclared (-1), or how many are asked for
DiffOperation(before, after, where) ==
  DiffParameters(before, after, where) \cup DiffBody(before, after, where) \cup DiffResponses(before, after, where)
  \cup Whether(before.security <= 0 /\ after.security > 0, {Change("breaking", where, <<"security", <<>>>>)})
  \cup Whether(~before.deprecated /\ after.deprecated, {Change("note", where, <<"deprecated", <<>>>>)})

DiffMethods(route) ==
  LET b == left.paths[route]
      a == right.paths[route]
  IN UNION {IF m \in DOMAIN a THEN DiffOperation(b[m], a[m], <<m, route>>) ELSE {Change("breaking", <<m, route>>, <<"operation removed", <<>>>>)} : m \in DOMAIN b}
     \cup {Change("addition", <<m, route>>, <<"operation added", <<>>>>) : m \in DOMAIN a \ DOMAIN b}

ContractInit ==
  /\ \E c \in Contracts : left = c[1] /\ right = c[2]
  /\ changes = {} /\ compared = FALSE

\* two documents without a path are refused
DiffOpenApi ==
  /\ ~compared /\ compared' = TRUE
  /\ DOMAIN left.paths \cup DOMAIN right.paths # {}
  /\ changes' = UNION {IF route \in DOMAIN right.paths THEN DiffMethods(route) ELSE {Change("breaking", <<route>>, <<"path removed", <<>>>>)} : route \in DOMAIN left.paths}
                \cup {Change("addition", <<route>>, <<"path added", <<>>>>) : route \in DOMAIN right.paths \ DOMAIN left.paths}
  /\ UNCHANGED <<left, right>>

ContractNext == DiffOpenApi

ContractSpec == ContractInit /\ [][ContractNext]_contractVars

Breaking == \E c \in changes : c.impact = "breaking"

-----------------------------------------------------------------------------

\* the values a side of the contract may send: strings of a small alphabet,
\* objects of declared properties, lists of at most one item
Letters == {"x", "y", "z"}

RECURSIVE Sendable(_, _)
Sendable(s, schemas) ==
  LET t == Resolve(s, schemas, 0) IN
  CASE t.type = "object" ->
         UNION {{[type |-> "object", fields |-> f] :
                   f \in {g \in [names -> UNION {Sendable(t.properties[k], schemas) : k \in names}] : \A k \in names : g[k] \in Sendable(t.properties[k], schemas)}}
                : names \in {n \in SUBSET DOMAIN Properties(t) : RequiredNames(t) \cap DOMAIN Properties(t) \subseteq n}}
    [] t.type = "array" -> {[type |-> "array", items |-> <<>>]} \cup {[type |-> "array", items |-> <<v>>] : v \in Sendable(t.items, schemas)}
    [] OTHER -> {[type |-> t.type, value |-> v] : v \in Keyword(t, "enum", Letters)}

\* does the other side take it?  It ignores properties it does not declare
RECURSIVE Taken(_, _, _)
Taken(v, s, schemas) ==
  LET t == Resolve(s, schemas, 0) IN
  /\ v.type = t.type
  /\ CASE t.type = "object" -> /\ RequiredNames(t) \cap DOMAIN Properties(t) \subseteq DOMAIN v.fields
                               /\ \A k \in DOMAIN v.fields \cap DOMAIN Properties(t) : Taken(v.fields[k], t.properties[k], schemas)
       [] t.type = "array" -> \A x \in ToSet(v.items) : Taken(x, t.items, schemas)
       [] OTHER -> v.value \in Keyword(t, "enum", Letters)

\* what callers send today would be refused
Rejected(b, a) == \E v \in Sendable(b, left.schemas) : ~Taken(v, a, right.schemas)
\* what servers will send cannot be read, or lacks for good what is read today
RECURSIVE Lost(_, _)
Lost(b, a) ==
  LET l == Resolve(b, left.schemas, 0)
      r == Resolve(a, right.schemas, 0)
  IN /\ l.type = r.type
     /\ \/ DOMAIN Properties(l) \ DOMAIN Properties(r) # {}
        \/ \E k \in DOMAIN Properties(l) \cap DOMAIN Properties(r) : Lost(l.properties[k], r.properties[k])
        \/ l.type = "array" /\ Lost(l.items, r.items)
Unreadable(b, a) == (\E v \in Sendable(a, right.schemas) : ~Taken(v, b, left.schemas)) \/ Lost(b, a)

OperationBreaks(b, a) ==
  LET ls == ParametersOf(b)
      rs == ParametersOf(a)
  IN \/ \E p \in rs : p.required /\ \A q \in SameParameter(p, ls) : ~q.required
     \/ \E p \in rs : \E q \in SameParameter(p, ls) : Rejected(q.schema, p.schema)
     \/ \E q \in ls : q.required /\ SameParameter(q, rs) = {}
     \/ a.body # <<>> /\ a.body[1].required /\ (b.body = <<>> \/ ~b.body[1].required)
     \/ a.body # <<>> /\ b.body # <<>> /\ Rejected(b.body[1].schema, a.body[1].schema)
     \/ \E st \in DOMAIN b.responses \cap Successes : st \notin DOMAIN a.responses
     \/ \E st \in DOMAIN b.responses \cap DOMAIN a.responses : Unreadable(b.responses[st], a.responses[st])
     \/ b.security <= 0 /\ a.security > 0

Breaks ==
  \E route \in DOMAIN left.paths :
    \/ route \notin DOMAIN right.paths
    \/ \E m \in DOMAIN left.paths[route] :
         m \notin DOMAIN right.paths[route] \/ OperationBreaks(left.paths[route][m], right.paths[route][m])

\* no operation has two parameters of one name, in different places
NamesApart ==
  \A route \in DOMAIN right.paths : \A m \in DOMAIN right.paths[route] :
    LET ps == ParametersOf(right.paths[route][m]) IN \A p, q \in ps : p.name = q.name => p = q

\* The verdict is not symmetric (docs/qa-toolbox.md 172-185): a contract is
\* called breaking exactly when it has a call that was accepted and now is not,
\* or an answer that today's callers cannot read or miss something in; and
\* nothing is reported of a contract compared with itself.  This is said of
\* documents whose types and lists of values are declared on both sides or on
\* neither, that require only properties they declare, and of operations whose
\* parameters have names apart.
VerdictIsTheCallers ==
  compared => /\ NamesApart => (Breaking <=> Breaks)
              /\ left = right => changes = {}

=============================================================================
