------------------------------ MODULE CacheKeys ------------------------------
(***************************************************************************)
(* How the cache tells values apart (src/src/cache/): the key of a @Cached  *)
(* call is made of its serialized arguments, and the ETag with which        *)
(* ConditionalCacheInterceptor answers 304 of the serialized body.          *)
(*                                                                          *)
(* A JavaScript value is a scalar with its type and text, an array, an      *)
(* object, or one that JSON.stringify refuses ("odd": a bigint or a cycle). *)
(* JSON texts are the trees they stand for; sha1 is taken to be injective.  *)
(***************************************************************************)
EXTENDS Integers, SequencesExt, TLC

CONSTANTS
  Scalars,   \* scalar values
  FieldNames,\* names of fields
  Bodies,    \* bodies that the handler of one route returns
  MaxBodies  \* bound on the changes of the body

VARIABLES
  body,      \* what the handler returns now
  copy,      \* the response the client keeps, with its ETag
  shown,     \* history: what the handler returned to the client's last request
  changes    \* history: changes of the body

responseVars == <<body, copy, shown, changes>>

Scalar(type, text) == [type |-> type, text |-> text]
Null == Scalar("null", "null")
Undefined == Scalar("undefined", "undefined")
NaN == Scalar("number", "NaN")
Array(items) == [type |-> "array", items |-> items]
Object(fields) == [type |-> "object", fields |-> fields]
Odd == [type: {"odd"}, of: {"bigint", "object"}]

\* Scalars, and arrays and objects of up to two of them.
Composites ==
  {Array(items) : items \in SeqOf(Scalars, 2)}
    \union {Object(fields) : fields \in UNION {[names -> Scalars] : names \in
                {n \in SUBSET FieldNames : Cardinality(n) <= 2}}}
Values == Scalars \union Composites

-----------------------------------------------------------------------------
(* JSON.stringify after normalizeForSerialization, or alone *)

NoText == [json |-> "none"]
JsonScalar(type, text) == [json |-> type, text |-> text]
JsonObject(fields) == [json |-> "object", fields |-> fields]
JsonNull == JsonScalar("null", "null")

\* Defect: scalars are not tagged.
TaggedDatesOnly(type, text) ==
  IF type = "Date" THEN JsonObject("__type" :> JsonScalar("string", type) @@ "value" :> text)
                   ELSE text

\* { __type, value }
Tagged(type, text) == JsonObject("__type" :> JsonScalar("string", type) @@ "value" :> text)

\* A date is its ISO string, and NaN is null.
ScalarText(v) ==
  IF v = NaN THEN JsonNull ELSE JsonScalar(IF v.type = "Date" THEN "string" ELSE v.type, v.text)

\* A field that is undefined is left out, an element becomes null.
RECURSIVE Stringify(_, _)
Stringify(v, normalized) ==
  CASE v = Undefined -> NoText
    [] v = Null -> JsonNull
    [] v.type = "array" ->
         LET texts == [i \in DOMAIN v.items |-> Stringify(v.items[i], normalized)]
         IN [json |-> "array",
             items |-> [i \in DOMAIN texts |-> IF texts[i] = NoText THEN JsonNull ELSE texts[i]]]
    [] v.type = "object" ->
         LET kept == {f \in DOMAIN v.fields : v.fields[f] # Undefined}
         IN JsonObject([f \in kept |-> Stringify(v.fields[f], normalized)])
    [] OTHER -> IF normalized THEN Tagged(v.type, ScalarText(v)) ELSE ScalarText(v)

\* What a refused value becomes names its type only.
SerializeArg(v) ==
  IF v \in Odd
    THEN JsonObject("__type" :> JsonScalar("string", "unserializable")
                      @@ "value" :> JsonScalar("string", v.of))
    ELSE Stringify(v, TRUE)

\* The texts are joined by colons, and nothing is appended when nothing results.
CacheKey(args) ==
  LET texts == [i \in DOMAIN args |-> SerializeArg(args[i])]
  IN IF texts = <<NoText>> THEN <<>> ELSE texts

CreateETag(v) == Stringify(v, TRUE)

\* What the client gets of a body.
Wire(v) == Stringify(v, FALSE)

-----------------------------------------------------------------------------
(* ConditionalCacheInterceptor *)

NoETag == [json |-> "none"]
Response(v) == [body |-> Wire(v), etag |-> IF v \in {Null, Undefined} THEN NoETag ELSE CreateETag(v)]

ResponsesInit ==
  /\ body \in Bodies
  /\ copy = [body |-> NoText, etag |-> NoETag]
  /\ shown = Undefined
  /\ changes = 0

\* The client sends the ETag it has, or nothing, as If-None-Match.
Intercept(conditional) ==
  /\ copy' = IF body \notin {Null, Undefined} /\ conditional /\ copy.etag = CreateETag(body)
               THEN copy   \* 304
               ELSE Response(body)
  /\ shown' = body
  /\ UNCHANGED <<body, changes>>

BodyChanges ==
  /\ changes < MaxBodies
  /\ body' \in Bodies \ {body}
  /\ changes' = changes + 1
  /\ UNCHANGED <<copy, shown>>

ResponsesNext == (\E conditional \in BOOLEAN : Intercept(conditional)) \/ BodyChanges

ResponsesSpec == ResponsesInit /\ [][ResponsesNext]_responseVars

-----------------------------------------------------------------------------
(* Properties *)

\* Nothing of these is lost on the way to JSON.
Lossless(v) ==
  LET parts == CASE v.type = "array" -> Range(v.items)
                 [] v.type = "object" -> Range(v.fields)
                 [] OTHER -> {v}
  IN parts \intersect {Undefined, NaN} = {}

\* Two calls share a key only if their arguments are the same, or differ in what
\* JSON does not keep: a number, its text, a date and its text "never collide", and
\* what is refused does not collide "with a normalised object", though all refused
\* arguments of a type do (serializeArg, cacheKey).
KeysTellApart ==
  /\ \A v, w \in Values :
       CacheKey(<<v>>) = CacheKey(<<w>>) => Wire(v) = Wire(w) /\ (Lossless(v) /\ Lossless(w) => v = w)
  /\ \A v \in Values, w \in Odd : CacheKey(<<v>>) # CacheKey(<<w>>)

\* After a request the client has what the handler returned to it, also when it
\* was told 304 and whatever was returned in between ("returns 304 Not Modified
\* when the client sends a matching If-None-Match").
NotModifiedRight == shown # Undefined => copy.body = Wire(shown)

\* Equal keys and equal ETags mean equal values.
CacheTellsApart == KeysTellApart /\ NotModifiedRight
=============================================================================
