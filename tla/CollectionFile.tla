----------------------------- MODULE CollectionFile -----------------------------
(***************************************************************************)
(* A collection as its file holds it and as the program holds it: what     *)
(* collections.ParseCollection makes of a Postman file and what            *)
(* collections.Snapshot and persist.MarshalRequest write of it             *)
(* (internal/ui/collections, internal/persist/marshal.go,                  *)
(* internal/model/collection_easyjson.go).                                 *)
(*                                                                         *)
(* A JSON value is a record whose one field names its kind: str, num,      *)
(* bool, null, arr (a sequence of values) or obj (a function from names to *)
(* values).  The two repairs of a text, SanitizeText and TrimSpace, are    *)
(* given as the texts they change; the others they leave as they are.      *)
(***************************************************************************)
EXTENDS Integers, Sequences, SequencesExt, TLC

CONSTANTS Sanitized,   \* a text with what utils.SanitizeText removes |-> without it
          Trimmed,     \* a text with blanks around it |-> without them
          HeaderOrder, \* the header names in the order of sort.Strings
          URLParts     \* an absolute URL |-> the members of its Postman object

SanitizeText(s) == IF s \in DOMAIN Sanitized THEN Sanitized[s] ELSE s
TrimSpace(s) == IF s \in DOMAIN Trimmed THEN Trimmed[s] ELSE s

Str(s) == [str |-> s]
Bool(b) == [bool |-> b]
Arr(s) == [arr |-> s]
Object(f) == [obj |-> f]
NullJ == [null |-> TRUE]

IsStr(j) == "str" \in DOMAIN j
IsArr(j) == "arr" \in DOMAIN j
IsObj(j) == "obj" \in DOMAIN j
IsNull(j) == "null" \in DOMAIN j
ObjOrNull(j) == IsObj(j) \/ IsNull(j)

\* The decoder leaves a Go string, map or slice as it was, empty, on null and on a
\* value of another kind.
Text(j) == IF IsStr(j) THEN j.str ELSE ""
Fields(j) == IF IsObj(j) THEN j.obj ELSE <<>>
Items(j) == IF IsArr(j) THEN j.arr ELSE <<>>
At(f, k) == IF k \in DOMAIN f THEN f[k] ELSE NullJ
Clean(j) == SanitizeText(Text(j))
Without(f, K) == [k \in DOMAIN f \ K |-> f[k]]

-----------------------------------------------------------------------------
(* The rows of a body.  Their decoder is the generated one: it matches the *)
(* names in any case, and a row with a member of the wrong kind makes the  *)
(* whole array unreadable.                                                 *)

RowMembers(j) ==
    LET lower == [Key |-> "key", Value |-> "value", Disabled |-> "disabled", Type |-> "type",
                  Src |-> "src"]
        f == Fields(j)
        named(k) == {n \in DOMAIN f : n = k \/ (n \in DOMAIN lower /\ lower[n] = k)}
    IN  [k \in {k \in {"key", "value", "disabled", "type", "src"} : named(k) # {}} |->
            f[CHOOSE n \in named(k) : TRUE]]

TextOrNull(m, k) == k \in DOMAIN m => IsStr(m[k]) \/ IsNull(m[k])
FlagOrNull(m, k) == k \in DOMAIN m => "bool" \in DOMAIN m[k] \/ IsNull(m[k])
Flag(m, k) == k \in DOMAIN m /\ "bool" \in DOMAIN m[k] /\ m[k].bool

ReadableKV(j) ==
    LET m == RowMembers(j)
    IN  ObjOrNull(j) /\ TextOrNull(m, "key") /\ TextOrNull(m, "value") /\ FlagOrNull(m, "disabled")

DecodeKV(j) ==
    LET m == RowMembers(j)
    IN  [key |-> Text(At(m, "key")), value |-> Text(At(m, "value")), disabled |-> Flag(m, "disabled")]

ReadableFormPart(j) == ReadableKV(j) /\ TextOrNull(RowMembers(j), "type")

\* The path of a file is a string or the first string of a list.
FormPartSrcPath(src) ==
    LET texts == SelectSeq(Items(src), LAMBDA e : Text(e) # "")
    IN  IF IsStr(src) THEN src.str ELSE IF texts = <<>> THEN "" ELSE Text(texts[1])

DecodeFormPart(j) ==
    LET m == RowMembers(j)
    IN  DecodeKV(j) @@ [file |-> Text(At(m, "type")) = "file",
                        src |-> FormPartSrcPath(At(m, "src"))]

ReadableBodyFile(j) == ObjOrNull(j) /\ TextOrNull(RowMembers(j), "src")
DecodeBodyFile(j) == Text(At(RowMembers(j), "src"))

Mapped(F(_), s) == [i \in DOMAIN s |-> F(s[i])]

ReadableRows(j, Readable(_)) ==
    IsNull(j) \/ (IsArr(j) /\ \A i \in DOMAIN j.arr : Readable(j.arr[i]))

RowsOf(j, Readable(_), Decode(_)) ==
    IF ReadableRows(j, Readable) THEN [i \in DOMAIN Items(j) |-> Decode(Items(j)[i])] ELSE <<>>

-----------------------------------------------------------------------------
(* A request.                                                              *)

BodyTypes == {"none", "raw", "formdata", "urlencoded", "file"}

BodyTypeFromMode(s) ==
    CASE s \in {"", "none"} -> "none"
      [] s \in {"formdata", "form-data"} -> "formdata"
      [] s \in {"urlencoded", "x-www-form-urlencoded"} -> "urlencoded"
      [] s \in {"file", "binary"} -> "file"
      [] OTHER -> "raw"

NoAuth == [type |-> "", token |-> "", username |-> "", password |-> ""]

EmptyRequest(name) ==
    [name |-> name, method |-> "GET", url |-> "", rawURL |-> NullJ, headers |-> <<>>,
     rawHeaders |-> NullJ, body |-> "", bodyType |-> "none", form |-> <<>>, urlencoded |-> <<>>,
     binary |-> "", auth |-> NoAuth, cookies |-> <<>>, extras |-> <<>>, bodyExtras |-> <<>>,
     examples |-> <<>>]

ParseURL(j) ==
    IF IsObj(j) THEN [url |-> Clean(At(j.obj, "raw")), rawURL |-> j]
    ELSE [url |-> Clean(j), rawURL |-> NullJ]

\* A disabled header is not held, and a later one of the same name takes its place.
ParseHeaderArray(j) ==
    LET name(h) == TrimSpace(Clean(At(Fields(h), "key")))
        held == SelectSeq(Items(j), LAMBDA h : ~Flag(Fields(h), "disabled") /\ name(h) # "")
        last(n) == CHOOSE i \in DOMAIN held :
                      name(held[i]) = n /\ \A k \in DOMAIN held : name(held[k]) = n => k <= i
    IN  IF ReadableRows(j, ObjOrNull)
        THEN [rawHeaders |-> j,
              headers |-> [n \in {name(held[i]) : i \in DOMAIN held} |->
                             TrimSpace(Clean(At(Fields(held[last(n)]), "value")))]]
        ELSE [rawHeaders |-> NullJ, headers |-> <<>>]

\* A parameter is a row of a list (v2.1) or a member of an object (v2.0).
AuthParamValue(j, key) ==
    LET rows == SelectSeq(Items(j), LAMBDA r : Text(At(Fields(r), "key")) = key)
    IN  CASE ReadableRows(j, ObjOrNull) -> IF rows = <<>> THEN "" ELSE Clean(At(Fields(rows[1]), "value"))
          [] IsObj(j) -> Clean(At(j.obj, key))
          [] OTHER -> ""

KnownAuth(j) == Text(At(Fields(j), "type")) \in {"noauth", "bearer", "basic"}

ParseAuth(j) ==
    LET f == Fields(j)
    IN  CASE Text(f["type"]) = "noauth" -> NoAuth
          [] Text(f["type"]) = "bearer" ->
                [NoAuth EXCEPT !.type = "bearer", !.token = AuthParamValue(At(f, "bearer"), "token")]
          [] Text(f["type"]) = "basic" ->
                [NoAuth EXCEPT !.type = "basic",
                               !.username = AuthParamValue(At(f, "basic"), "username"),
                               !.password = AuthParamValue(At(f, "basic"), "password")]

ParseCookies(j) ==
    LET rows == RowsOf(j, ReadableKV, DecodeKV)
        held == SelectSeq(rows, LAMBDA r : TrimSpace(SanitizeText(r.key)) # "")
    IN  [i \in DOMAIN held |-> [key |-> TrimSpace(SanitizeText(held[i].key)),
                                value |-> SanitizeText(held[i].value)]]

URLEncodedRow(r) ==
    [key |-> TrimSpace(SanitizeText(r.key)), value |-> SanitizeText(r.value), disabled |-> r.disabled]

FormRow(r) ==
    URLEncodedRow(r) @@ [file |-> r.file, path |-> IF r.file THEN r.src ELSE ""]

BodyMode(f, body, urlencoded, form, binary) ==
    CASE "mode" \in DOMAIN f -> Text(f["mode"])
      [] body # "" -> "raw"
      [] urlencoded # <<>> -> "urlencoded"
      [] form # <<>> -> "formdata"
      [] binary # "" -> "file"
      [] OTHER -> ""

BodyOf(f, body, urlencoded, form, binary) ==
    [body |-> body, urlencoded |-> urlencoded, form |-> form, binary |-> binary,
     bodyType |-> BodyTypeFromMode(BodyMode(f, body, urlencoded, form, binary)),
     bodyExtras |-> Without(f, {"mode", "raw", "urlencoded", "formdata", "file"})]

ParseBodyFields(f) ==
    BodyOf(f, Clean(At(f, "raw")),
           Mapped(URLEncodedRow, RowsOf(At(f, "urlencoded"), ReadableKV, DecodeKV)),
           Mapped(FormRow, RowsOf(At(f, "formdata"), ReadableFormPart, DecodeFormPart)),
           IF ReadableBodyFile(At(f, "file")) THEN SanitizeText(DecodeBodyFile(At(f, "file"))) ELSE "")

ParseBody(j) == ParseBodyFields(Fields(j))

RequestMembers == {"method", "url", "header", "body", "auth", "_rete_cookies"}

RequestRest(f, method, known) ==
    [method |-> IF method = "" THEN "GET" ELSE SanitizeText(method),
     auth |-> IF known THEN ParseAuth(At(f, "auth")) ELSE NoAuth,
     cookies |-> ParseCookies(At(f, "_rete_cookies")),
     extras |-> Without(f, IF known THEN RequestMembers ELSE RequestMembers \ {"auth"})]

ParseRequestFields(f) ==
    ParseBody(At(f, "body")) @@ ParseURL(At(f, "url")) @@ ParseHeaderArray(At(f, "header")) @@
    RequestRest(f, Text(At(f, "method")), "auth" \in DOMAIN f /\ KnownAuth(At(f, "auth")))

\* A request written as a string is the URL of a GET.
ParseRequest(j, name) ==
    IF IsStr(j) THEN [EmptyRequest(name) EXCEPT !.url = Clean(j)]
    ELSE ParseRequestFields(Fields(j)) @@ EmptyRequest(name)

IsRequest(j) == IsObj(j) \/ Text(j) # ""

-----------------------------------------------------------------------------
(* The items of a collection.  An example saved by another program among   *)
(* the items is kept aside and written after the others.                   *)

IsExampleItem(j) ==
    LET f == Fields(j)
    IN  \/ DOMAIN f \cap {"originalRequest", "_postman_previewlanguage", "responseTime"} # {}
        \/ Text(At(f, "_apidog_type")) \in {"example", "case", "apicase"}
        \/ {"code", "body"} \subseteq DOMAIN f

\* The name of an example without one is made of its code; the code stands for it here.
ExampleOf(f, name, original, code) ==
    [name |-> IF name = "" THEN <<"Example", code>> ELSE <<name>>,
     request |-> IF IsRequest(original) THEN ParseRequest(original, name)
                 ELSE [EmptyRequest(name) EXCEPT !.method = ""],
     status |-> Clean(At(f, "status")), code |-> code, respBody |-> Clean(At(f, "body"))]

ParseExample(f) ==
    ExampleOf(f, Clean(At(f, "name")), At(f, "originalRequest"),
              IF "num" \in DOMAIN At(f, "code") THEN f["code"].num ELSE 0)

\* The answers that were saved, and the examples that stand among the items.
ParseExamples(f) ==
    LET Read(j) == ParseExample(Fields(j))
    IN  Mapped(Read, SelectSeq(Items(At(f, "response")) \o
                               SelectSeq(Items(At(f, "item")), IsExampleItem), IsObj))

NoRequest == [none |-> TRUE]

\* The items are read as they are; a null is a list without any.
ReadableItems(j) == IsArr(j) \/ IsNull(j)

RECURSIVE ParseItem(_), ParseItems(_)

ParseItems(items) ==
    [kids |-> Mapped(ParseItem, SelectSeq(items, LAMBDA j : ~IsExampleItem(j) /\ ObjOrNull(j))),
     skipped |-> SelectSeq(items, IsExampleItem)]

RequestGiven(f) == ~IsNull(At(f, "request"))
IsFolder(f) == ~RequestGiven(f) /\ ReadableItems(At(f, "item")) /\ "item" \in DOMAIN f

WithExamples(r, f) == IF r = NoRequest THEN r ELSE [r EXCEPT !.examples = ParseExamples(f)]

ItemRequest(f, name) ==
    IF RequestGiven(f) /\ IsRequest(f["request"]) THEN ParseRequest(f["request"], name)
    ELSE IF ~IsFolder(f) /\ "request" \in DOMAIN f THEN EmptyRequest(name)
    ELSE NoRequest

ItemOf(f, name, request, items) ==
    [name |-> name, folder |-> request = NoRequest, request |-> request,
     kids |-> items.kids, skipped |-> items.skipped,
     extras |-> Without(f, {"name", "request"} \cup (IF RequestGiven(f) THEN {} ELSE {"item"}))]

ParseItemFields(f) ==
    ItemOf(f, Clean(At(f, "name")), WithExamples(ItemRequest(f, Clean(At(f, "name"))), f),
           IF IsFolder(f) THEN ParseItems(Items(f["item"])) ELSE [kids |-> <<>>, skipped |-> <<>>])

\* A null is read as an object without members, which makes it a folder without a name.
ParseItem(j) == ParseItemFields(Fields(j))

NameOr(name, default) == IF name = "" THEN default ELSE name

CollectionOf(f, info, name) ==
    [name |-> name,
     infoExtras |-> Without(Fields(info), {"name"}),
     topExtras |-> Without(f, {"item"} \cup (IF ObjOrNull(info) THEN {"info"} ELSE {})),
     root |-> [name |-> name, folder |-> TRUE, request |-> NoRequest, extras |-> <<>>] @@
              ParseItems(Items(At(f, "item")))]

ParseCollectionFields(f) ==
    CollectionOf(f, At(f, "info"),
                 NameOr(Clean(At(Fields(At(f, "info")), "name")), "Imported Collection"))

ParseCollection(j) == ParseCollectionFields(Fields(j))

\* Neither a name nor an item: not a collection.
IsCollection(j) ==
    /\ IsObj(j) /\ Fields(j) # <<>>
    /\ Clean(At(Fields(At(Fields(j), "info")), "name")) # "" \/ Items(At(Fields(j), "item")) # <<>>

-----------------------------------------------------------------------------
(* What is written.                                                        *)

\* An untouched URL is written as it was read; of an edited one the members are made anew.
SyncURLObject(j, url) ==
    LET parts == {"raw", "protocol", "host", "port", "path", "query", "hash"}
    IN  IF At(j.obj, "raw") = Str(url) THEN j
        ELSE Object((IF url \in DOMAIN URLParts THEN URLParts[url] ELSE <<>>) @@
                    [raw |-> Str(url)] @@ Without(j.obj, parts))

MarshalRow(key, value) == Object([key |-> Str(key), value |-> Str(value)])

MarshalAuth(a) ==
    LET row(k, v) == Object([key |-> Str(k), value |-> Str(v), type |-> Str("string")])
    IN  IF a.type = "bearer"
        THEN Object([type |-> Str("bearer"), bearer |-> Arr(<<row("token", a.token)>>)])
        ELSE Object([type |-> Str("basic"),
                     basic |-> Arr(<<row("username", a.username), row("password", a.password)>>)])

\* The headers are written as they were read or last saved.
MarshalHeaders(r) ==
    LET names == SelectSeq(HeaderOrder, LAMBDA n : n \in DOMAIN r.headers)
    IN  IF IsArr(r.rawHeaders) THEN r.rawHeaders
        ELSE Arr([i \in DOMAIN names |-> MarshalRow(names[i], r.headers[names[i]])])

Disabled(row) == IF row.disabled THEN [disabled |-> Bool(TRUE)] ELSE <<>>

MarshalURLEncodedRow(row) ==
    Object(Disabled(row) @@ [key |-> Str(row.key), value |-> Str(row.value)])

MarshalFormRow(row) ==
    Object(Disabled(row) @@ [key |-> Str(row.key)] @@
           (IF ~row.file THEN [type |-> Str("text"), value |-> Str(row.value)]
            ELSE IF row.path = "" THEN [type |-> Str("file")]
            ELSE [type |-> Str("file"), src |-> Str(row.path)]))

Keyed(rows) == SelectSeq(rows, LAMBDA row : row.key # "")

\* Only the part of the body that its mode sends is written, and no row without a key.
MarshalBody(r) ==
    LET rows(s, Row(_)) == Arr([i \in DOMAIN Keyed(s) |-> Row(Keyed(s)[i])])
        part == CASE r.bodyType = "raw" /\ r.body # "" -> [raw |-> Str(r.body)]
                  [] r.bodyType = "urlencoded" ->
                        [urlencoded |-> rows(r.urlencoded, MarshalURLEncodedRow)]
                  [] r.bodyType = "formdata" -> [formdata |-> rows(r.form, MarshalFormRow)]
                  [] r.bodyType = "file" /\ r.binary # "" ->
                        [file |-> Object([src |-> Str(r.binary)])]
                  [] OTHER -> <<>>
    IN  Object(part @@ [mode |-> Str(r.bodyType)] @@ r.bodyExtras)

MarshalCookies(cookies) ==
    Arr([i \in DOMAIN Keyed(cookies) |-> MarshalRow(Keyed(cookies)[i].key, Keyed(cookies)[i].value)])

MarshalRequest(r) ==
    LET url == IF IsObj(r.rawURL) THEN SyncURLObject(r.rawURL, r.url) ELSE Str(r.url)
        auth == IF r.auth.type = "" THEN <<>> ELSE [auth |-> MarshalAuth(r.auth)]
        cookies == IF r.cookies = <<>> THEN <<>> ELSE [_rete_cookies |-> MarshalCookies(r.cookies)]
    IN  Object([method |-> Str(r.method), url |-> url, header |-> MarshalHeaders(r),
                body |-> MarshalBody(r)] @@ auth @@ cookies @@ Without(r.extras, {"_rete_cookies"}))

RECURSIVE MarshalNode(_, _)

MarshalItems(nodes, n) ==
    Arr([i \in DOMAIN nodes[n].kids |-> MarshalNode(nodes, nodes[n].kids[i])] \o nodes[n].skipped)

\* nodes: the nodes of the program by their identity.
MarshalNode(nodes, n) ==
    LET node == nodes[n]
        content == CASE node.folder -> [item |-> MarshalItems(nodes, n)]
                     [] ~node.folder /\ node.request # NoRequest ->
                           [request |-> MarshalRequest(node.request)]
                     [] OTHER -> <<>>
    IN  Object([name |-> Str(node.name)] @@ content @@ node.extras)

CollectionObject(nodes, col) ==
    Object([info |-> Object([name |-> Str(col.name)] @@ col.infoExtras),
            item |-> MarshalItems(nodes, col.root)] @@ col.topExtras)
=============================================================================
