--------------------------------- MODULE Curl ---------------------------------
(***************************************************************************)
(* The cURL converter (src/toolbox/curl.ts): a command is split as a shell  *)
(* would, its options are read one by one and the request is translated    *)
(* for a test client.  The characters of a command matter to the splitting *)
(* only; the options are read from values.                                 *)
(***************************************************************************)
EXTENDS Integers, SequencesExt, FiniteSetsExt

CONSTANTS
  Tokens,      \* sequences of arguments written as a command line
  CurlOptions, \* options a command may have
  MaxOptions   \* bound: options of one command

ASSUME CurlAssumption == MaxOptions \in Nat

VARIABLES
  line,     \* the arguments written, and how they are quoted and separated
  split,    \* the arguments the tokenizer finds
  options,  \* options not read yet
  request,  \* what was read of the command
  code      \* the translations

curlVars == <<line, split, options, request, code>>

Absence == "none"
CURL_TARGETS == {"playwright", "cypress", "fetch", "axios", "python", "rest-assured"}

-----------------------------------------------------------------------------

\* tokenizeShellCommand, a character at a time: pending is a backslash or a
\* caret whose character comes next
Reading == [tokens |-> <<>>, current |-> <<>>, started |-> FALSE, quote |-> Absence, pending |-> Absence]

Taking(r, c) == [r EXCEPT !.current = Append(@, c), !.started = TRUE, !.pending = Absence]
Ending(r) == IF r.started THEN [r EXCEPT !.tokens = Append(@, r.current), !.current = <<>>, !.started = FALSE] ELSE r

\* in double quotes a backslash is kept unless one of these follows
Escaped(r, c) ==
  CASE c = "\n" -> [r EXCEPT !.pending = Absence]
    [] r.quote = Absence \/ c \in {"\"", "\\", "$"} -> Taking(r, c)
    [] OTHER -> Taking(Taking(r, "\\"), c)

Unquoted(r, c) ==
  CASE c = "\\" -> [r EXCEPT !.pending = "\\"]
    [] c \in {"'", "\""} -> [r EXCEPT !.quote = c, !.started = TRUE]
    [] c \in {" ", "\n"} -> Ending(r)
    [] c = "^" -> [r EXCEPT !.pending = "^"]
    [] OTHER -> Taking(r, c)

\* a caret is dropped before a line break only
AfterCaret(r, c) == Unquoted(IF c = "\n" THEN [r EXCEPT !.pending = Absence] ELSE Taking(r, "^"), c)

ReadCharacter(r, c) ==
  CASE r.pending = "\\" -> Escaped(r, c)
    [] r.pending = "^" -> AfterCaret(r, c)
    [] r.quote = Absence -> Unquoted(r, c)
    [] c = r.quote -> [r EXCEPT !.quote = Absence]
    [] r.quote = "\"" /\ c = "\\" -> [r EXCEPT !.pending = "\\"]
    [] OTHER -> Taking(r, c)

LastCharacters(r) == Ending(IF r.pending = "^" THEN Taking(r, "^") ELSE r).tokens
TokenizeShellCommand(command) == LastCharacters(FoldLeft(ReadCharacter, Reading, command))

Styles == {"single", "double", "bare"}
\* how a shell's user, and the browser's "Copy as cURL", write an argument
EachAs(text, chars, by(_)) == FlattenSeq([i \in DOMAIN text |-> IF text[i] \in chars THEN by(text[i]) ELSE <<text[i]>>])
Backslashed(c) == <<"\\", c>>
WrittenAs(text, style) ==
  CASE style = "single" \/ text = <<>> -> <<"'">> \o EachAs(text, {"'"}, LAMBDA c : <<"'", "\\", "'", "'">>) \o <<"'">>
    [] style = "double" -> <<"\"">> \o EachAs(text, {"\"", "\\", "$"}, Backslashed) \o <<"\"">>
    [] style = "bare" -> EachAs(text, {"'", "\"", "\\", " ", "$", "^"}, Backslashed)

CommandLine(l) ==
  FlattenSeq([i \in DOMAIN l.arguments |-> (IF i = 1 THEN <<>> ELSE l.separator) \o WrittenAs(l.arguments[i], IF i = 1 THEN l.first ELSE l.others)])

-----------------------------------------------------------------------------

\* a header is [name, scheme, value], the scheme of a credential apart
SECRET_HEADERS == {"authorization", "proxy-authorization", "cookie", "x-api-key", "api-key", "x-auth-token", "x-access-token", "x-csrf-token"}
IsSecretHeader(h) == h.name \in SECRET_HEADERS

Header(name, scheme, value) == [name |-> name, scheme |-> scheme, value |-> value, variable |-> Absence]
FromEnvironment(name, scheme, variable) == [name |-> name, scheme |-> scheme, value |-> Absence, variable |-> variable]
NoRequest ==
  [method |-> Absence, url |-> <<>>, query |-> <<>>, headers |-> <<>>, data |-> <<>>, basicAuth |-> Absence, forceGet |-> FALSE, json |-> FALSE, resolved |-> FALSE]

CurlInit ==
  /\ \/ /\ \E l \in [arguments : Tokens, separator : {<<" ">>, <<" ", "\\", "\n", " ">>, <<" ", "^", "\n">>}, first : Styles, others : Styles] : line = <<l>>
        /\ options = <<>>
     \/ /\ line = <<>>
        /\ options \in UNION {[1..n -> CurlOptions] : n \in 0..MaxOptions}
  /\ split = <<>> /\ request = NoRequest /\ code = <<>>

Tokenize ==
  /\ line # <<>> /\ split = <<>>
  /\ split' = <<TokenizeShellCommand(CommandLine(line[1]))>>
  /\ UNCHANGED <<line, options, request, code>>

\* an option of the command; the last method counts, the first bare address and
\* the last --url
With(r, o) ==
  CASE o.flag = "-X" -> [r EXCEPT !.method = o.method]
    [] o.flag = "-I" -> [r EXCEPT !.method = "HEAD"]
    [] o.flag = "-G" -> [r EXCEPT !.forceGet = TRUE]
    [] o.flag = "--json" -> [r EXCEPT !.json = TRUE, !.data = Append(@, o.data)]
    [] o.flag = "-d" -> [r EXCEPT !.data = Append(@, o.data)]
    [] o.flag = "-H" -> [r EXCEPT !.headers = Append(@, o.header)]
    [] o.flag = "-b" -> [r EXCEPT !.headers = Append(@, Header("cookie", Absence, o.cookie))]
    [] o.flag = "-u" -> [r EXCEPT !.basicAuth = o.user]
    [] o.flag = "--url" -> [r EXCEPT !.url = <<o.url>>]
    [] o.flag = "url" -> IF r.url = <<>> THEN [r EXCEPT !.url = <<o.url>>] ELSE r
    [] OTHER -> r

ReadOption ==
  /\ options # <<>>
  /\ options' = Tail(options)
  /\ request' = With(request, Head(options))
  /\ UNCHANGED <<line, split, code>>

\* the end of parseCurl; an address is [base, query], a command without one is
\* refused, and -G moves the data to the query
Resolved(r) ==
  [r EXCEPT !.method = IF @ # Absence THEN @ ELSE IF r.data # <<>> /\ ~r.forceGet THEN "POST" ELSE "GET",
            !.url = @[1].base,
            !.query = r.url[1].query \o (IF r.forceGet THEN r.data ELSE <<>>),
            !.data = IF r.forceGet THEN <<>> ELSE @,
            !.headers = IF r.json /\ \A h \in ToSet(@) : h.name # "content-type" THEN Append(@, Header("content-type", Absence, "json")) ELSE @,
            !.resolved = TRUE]

ParseCurl ==
  /\ line = <<>> /\ options = <<>> /\ ~request.resolved /\ request.url # <<>>
  /\ request' = Resolved(request)
  /\ UNCHANGED <<line, split, options, code>>

\* a plausible bug: only a credential with a scheme is taken out of the code
SchemedOnly(h) == IF IsSecretHeader(h) /\ h.scheme # Absence THEN FromEnvironment(h.name, h.scheme, h.name) ELSE h

\* a credential becomes the scheme and a variable of the environment
CodeHeader(h) == IF IsSecretHeader(h) THEN FromEnvironment(h.name, h.scheme, h.name) ELSE h

CodeHeaders(r) ==
  [i \in DOMAIN r.headers |-> CodeHeader(r.headers[i])]
  \o (IF r.basicAuth # Absence /\ \A h \in ToSet(r.headers) : h.name # "authorization" THEN <<FromEnvironment("authorization", "Basic", "basic")>> ELSE <<>>)

\* an object of the language keeps the last entry of each name
LastOfEachName(entries) ==
  LET last == SelectSeq([i \in DOMAIN entries |-> i], LAMBDA i : \A j \in DOMAIN entries : j > i => entries[j].name # entries[i].name)
  IN [k \in DOMAIN last |-> entries[last[k]]]

\* playwright, cypress, axios and python have objects of parameters; fetch has
\* them in the address, rest-assured a call of each
CodeFor(target, r) ==
  [method |-> r.method, url |-> r.url, body |-> r.data,
   query |-> IF target \in {"fetch", "rest-assured"} THEN r.query ELSE LastOfEachName(r.query),
   headers |-> IF target = "rest-assured" THEN CodeHeaders(r) ELSE LastOfEachName(CodeHeaders(r))]

\* the screen shows the request with its credentials masked
Masked(r) ==
  [headers |-> [i \in DOMAIN r.headers |-> IF IsSecretHeader(r.headers[i]) THEN Header(r.headers[i].name, r.headers[i].scheme, "masked") ELSE r.headers[i]],
   basicAuth |-> IF r.basicAuth = Absence THEN Absence ELSE "masked"]

ConvertCurl ==
  /\ request.resolved /\ code = <<>>
  /\ code' = [target \in CURL_TARGETS |-> CodeFor(target, request)]
  /\ UNCHANGED <<line, split, options, request>>

CurlNext == Tokenize \/ ReadOption \/ ParseCurl \/ ConvertCurl

CurlSpec == CurlInit /\ [][CurlNext]_curlVars

-----------------------------------------------------------------------------

Credentials == {h.value : h \in {g \in ToSet(request.headers) : IsSecretHeader(g)}} \cup ({request.basicAuth} \ {Absence})

\* what a translation sends once its variables hold the credentials
Environment(variable) ==
  IF variable = "basic" THEN request.basicAuth
  ELSE LET of == {i \in DOMAIN request.headers : request.headers[i].name = variable} IN request.headers[Max(of)].value
SentHeaders(c) == {Header(h.name, h.scheme, IF h.variable # Absence THEN Environment(h.variable) ELSE h.value) : h \in ToSet(c.headers)}

\* what the command sends: its headers, and the one -u stands for
CommandHeaders ==
  ToSet(request.headers)
  \cup (IF request.basicAuth # Absence /\ \A h \in ToSet(request.headers) : h.name # "authorization" THEN {Header("authorization", "Basic", request.basicAuth)} ELSE {})

NamedOnce(entries) == \A i, j \in DOMAIN entries : i # j => entries[i].name # entries[j].name

\* No credential is written in code or shown (the comments at curl.ts 8-10 and
\* docs/qa-toolbox.md 120-122).
NoSecretInCode ==
  code # <<>> =>
    /\ \A target \in CURL_TARGETS : \A h \in ToSet(code[target].headers) : h.value \notin Credentials
    /\ \A h \in ToSet(Masked(request).headers) : h.value \notin Credentials

\* Whatever way a command is quoted and continued over lines, the arguments
\* found are the ones written (the comment at curl.ts 74-79); no credential is
\* in the code of any client; and every client sends what the command sends,
\* the parameters -G moved among it (curl.ts 259-261), when no parameter and
\* no header is given twice.
TranslationsAreFaithful ==
  /\ split # <<>> => split[1] = line[1].arguments
  /\ NoSecretInCode
  /\ code # <<>> /\ NamedOnce(request.query) /\ NamedOnce(request.headers) =>
       \A target \in CURL_TARGETS :
         LET c == code[target] IN
         c.method = request.method /\ c.query = request.query /\ c.body = request.data /\ SentHeaders(c) = CommandHeaders

\* The code of every client sends every parameter of the command: to leave one
\* out is the same path with another result (curl.ts 259-261).
NoParameterIsLost ==
  code # <<>> => \A target \in CURL_TARGETS : ToSet(code[target].query) = ToSet(request.query)

=============================================================================
