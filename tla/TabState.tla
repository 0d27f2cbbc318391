------------------------------- MODULE TabState -------------------------------
(***************************************************************************)
(* A request tab as data: how it is made, read from the state file and     *)
(* written to it, opened from a node of a collection, compared with that   *)
(* node and saved into it (internal/ui/workspace: tab.go, tabstate.go,     *)
(* reqtabs.go, layoutprefs.go; openRequestInTab of internal/ui/app.go).    *)
(*                                                                         *)
(* A tab has the fields of a tab of the state file (StateFile) and         *)
(*   linked   the node it was opened from,                                 *)
(*   isDirty  its dot, due: a check of the dot is due when it is laid out, *)
(*   resized  whether the user gave its headers a height.                  *)
(* A row of headers is generated when "auto" holds the key and the value   *)
(* the program gave it.  Ratios are hundredths.  SetText of an editor      *)
(* queues a change event that makes the check due.                         *)
(***************************************************************************)
EXTENDS Integers, Sequences, FiniteSets, SequencesExt, TLC

CONSTANTS Null, Missing, Empty, Broken,
          Sanitized, Trimmed, HeaderOrder, URLParts,
          DefaultMethod, DefaultSplitRatio, UserAgent,   \* of the settings
          JSONBodies,  \* the body texts that begin as JSON does
          HeaderFold,  \* a header name |-> the one it equals but for its case
          NoNode

SF == INSTANCE StateFile
CF == INSTANCE CollectionFile

Methods == [websocket |-> "WS", graphql |-> "GRAPHQL"]

NewRequestTab(title) ==
    [SF!NoTab EXCEPT !.title = title,
                     !.method = IF DefaultMethod = "" THEN "GET" ELSE DefaultMethod,
                     !.split_ratio = IF DefaultSplitRatio \in 20..80 THEN DefaultSplitRatio ELSE 50,
                     !.vstack_ratio = 50, !.body_type = "raw", !.req_wrap_enabled = TRUE,
                     !.auth = SF!NoAuth] @@
    [linked |-> NoNode, isDirty |-> FALSE, due |-> FALSE, resized |-> FALSE]

HeaderItem(k, v) == [key |-> k, value |-> v, auto |-> <<>>]
Generated(h) == h.auto # <<>>
UserHeaders(tab) == SelectSeq(tab.headers, LAMBDA h : ~Generated(h))

AuthTypeKnown(type) == IF type \in {"bearer", "basic"} THEN type ELSE ""

Keyed(rows) == SelectSeq(rows, LAMBDA r : r.key # "")

\* The two generated headers appear in any order, which nothing reads; it is fixed here.
SystemHeaders(tab) ==
    LET content == CASE tab.body_type = "urlencoded" -> "application/x-www-form-urlencoded"
                     [] tab.body_type = "file" -> "application/octet-stream"
                     [] tab.body_type = "raw" /\ tab.body \in JSONBodies -> "application/json"
                     [] OTHER -> "text/plain"
    IN  <<HeaderItem("User-Agent", UserAgent)>> \o
        (IF tab.body_type \in {"none", "formdata"} THEN <<>>
         ELSE <<HeaderItem("Content-Type", content)>>)

\* A generated row the user has edited is theirs; a name they give is not generated.
UpdateSystemHeaders(tab) ==
    LET fold(k) == IF k \in DOMAIN HeaderFold THEN HeaderFold[k] ELSE k
        rows == [i \in DOMAIN tab.headers |->
                    LET h == tab.headers[i]
                    IN  IF Generated(h) /\ h.auto # <<h.key, h.value>> THEN [h EXCEPT !.auto = <<>>]
                        ELSE h]
        given == {fold(rows[i].key) : i \in {i \in DOMAIN rows : ~Generated(rows[i])}}
        system == SelectSeq(SystemHeaders(tab), LAMBDA s : s.key \notin given)
        value(k) == system[CHOOSE i \in DOMAIN system : system[i].key = k].value
        names(s) == {s[i].key : i \in DOMAIN s}
        kept == SelectSeq(rows, LAMBDA h : Generated(h) => h.key \in names(system))
        fresh == [i \in DOMAIN kept |->
                     LET h == kept[i]
                     IN  IF Generated(h) THEN [h EXCEPT !.value = value(h.key),
                                                        !.auto = <<h.key, value(h.key)>>]
                         ELSE h]
        held == names(SelectSeq(kept, Generated))
        added == SelectSeq(system, LAMBDA s : s.key \notin held)
    IN  [tab EXCEPT !.headers = fresh \o [i \in DOMAIN added |->
                       [added[i] EXCEPT !.auto = <<added[i].key, added[i].value>>]]]

-----------------------------------------------------------------------------
(* The state file.                                                         *)

OpcodeFromString(s) == IF s \in {"BIN", "binary"} THEN "BIN" ELSE "TEXT"

NewWS == [SF!NoWS EXCEPT !.offer_deflate = TRUE, !.split_ratio = 40, !.composer_ratio = 50,
                         !.proto_cmd = "0", !.proto_seq = "0", !.proto_opcode = "0"]

Positive(new, old) == IF new > 0 THEN new ELSE old
Given(new, old) == IF new # "" THEN new ELSE old

WSFromState(w) ==
    [w EXCEPT !.split_ratio = Positive(@, NewWS.split_ratio),
              !.composer_ratio = Positive(@, NewWS.composer_ratio),
              !.proto_cmd = Given(@, "0"), !.proto_seq = Given(@, "0"),
              !.proto_opcode = Given(@, "0"),
              !.saved_sends = [i \in DOMAIN @ |-> [@[i] EXCEPT !.opcode = OpcodeFromString(@)]]]

GQLFromState(q) == [q EXCEPT !.vars_split_ratio = Positive(@, 60)]

AuthFromState(a) == IF a = Null THEN SF!NoAuth ELSE [a EXCEPT !.type = AuthTypeKnown(@)]

\* The flag of a row that is off is not in the file.
RowFromState(r) == [key |-> r.key, value |-> r.value, disabled |-> FALSE]
PartFromState(p) ==
    [key |-> p.key, value |-> p.value, file |-> p.kind = "file", path |-> p.file_path,
     disabled |-> FALSE]

TabFromState(ts) ==
    LET new == NewRequestTab(IF ts.title = "" THEN "New request" ELSE ts.title)
        method == IF ts.kind \in DOMAIN Methods THEN Methods[ts.kind] ELSE ts.method
        each(s, F(_)) == [i \in DOMAIN s |-> F(s[i])]
        kept == {"url", "body", "headers_expanded", "headers_abs_height", "layout_mode",
                 "req_collapsed", "resp_collapsed", "req_ratio_saved", "resp_ratio_saved",
                 "collection_id", "node_path", "binary_path", "cookies"}
        read ==
            [method |-> IF method = "" THEN "GET" ELSE method,
             headers |-> each(ts.headers, LAMBDA h : HeaderItem(h.key, h.value)),
             split_ratio |-> Positive(ts.split_ratio, new.split_ratio),
             vstack_ratio |-> Positive(ts.vstack_ratio, new.vstack_ratio),
             header_split_ratio |-> IF ts.header_split_ratio >= 1 THEN ts.header_split_ratio ELSE 0,
             req_wrap_enabled |-> IF ts.req_wrap_enabled = Null THEN TRUE ELSE ts.req_wrap_enabled,
             body_type |-> CF!BodyTypeFromMode(ts.body_type),
             form_parts |-> each(ts.form_parts, PartFromState),
             url_encoded |-> each(ts.url_encoded, RowFromState),
             auth |-> AuthFromState(ts.auth),
             ws |-> IF ts.ws = Null THEN Null ELSE WSFromState(ts.ws),
             gql |-> IF ts.gql = Null THEN Null ELSE GQLFromState(ts.gql),
             due |-> TRUE]
    IN  UpdateSystemHeaders(read @@ [k \in kept |-> ts[k]] @@ new)

\* colID, path: the collection of the linked node and where the node is in it.
StateFromTab(tab, colID, path) ==
    LET kinds == {k \in DOMAIN Methods : Methods[k] = tab.method}
        subprotocols == IF tab.ws = Null THEN <<>>
                        ELSE SelectSeq([i \in DOMAIN tab.ws.subprotocols |->
                                           CF!TrimSpace(tab.ws.subprotocols[i])],
                                       LAMBDA s : s # "")
        pairs(s) == [i \in DOMAIN s |-> [key |-> s[i].key, value |-> s[i].value]]
        part(p) == [key |-> p.key, kind |-> IF p.file THEN "file" ELSE "text", value |-> p.value,
                    file_path |-> p.path]
        written ==
            [kind |-> IF kinds = {} THEN "" ELSE CHOOSE k \in kinds : TRUE,
             headers |-> pairs(Keyed(UserHeaders(tab))),
             form_parts |-> [i \in DOMAIN tab.form_parts |-> part(tab.form_parts[i])],
             url_encoded |-> pairs(tab.url_encoded),
             cookies |-> Keyed(tab.cookies),
             auth |-> IF tab.auth.type = "" THEN Null ELSE tab.auth,
             ws |-> IF tab.ws = Null THEN Null ELSE [tab.ws EXCEPT !.subprotocols = subprotocols],
             collection_id |-> colID, node_path |-> path]
    IN  [k \in DOMAIN SF!NoTab |-> IF k \in DOMAIN written THEN written[k] ELSE tab[k]]

-----------------------------------------------------------------------------
(* The node of a tab.                                                      *)

OpenedTab(name, node, req) ==
    LET names == SetToSeq(DOMAIN req.headers)
        opened == [method |-> req.method, url |-> req.url, body |-> req.body,
                   body_type |-> req.bodyType,
                   headers |-> [i \in DOMAIN names |-> HeaderItem(names[i], req.headers[names[i]])],
                   form_parts |-> req.form, url_encoded |-> req.urlencoded,
                   binary_path |-> req.binary,
                   auth |-> [req.auth EXCEPT !.type = AuthTypeKnown(@)],
                   cookies |-> req.cookies, linked |-> node, due |-> TRUE]
    IN  UpdateSystemHeaders(opened @@ NewRequestTab(name))

\* What of a tab its node is to hold.
Holds(tab) ==
    LET rows == Keyed(UserHeaders(tab))
    IN  [method |-> tab.method, url |-> tab.url, body |-> tab.body, bodyType |-> tab.body_type,
         binary |-> tab.binary_path, auth |-> tab.auth, cookies |-> Keyed(tab.cookies),
         form |-> Keyed(tab.form_parts), urlencoded |-> Keyed(tab.url_encoded),
         headers |-> [k \in {rows[i].key : i \in DOMAIN rows} |->
                         rows[CHOOSE i \in DOMAIN rows :
                                  rows[i].key = k /\ \A j \in DOMAIN rows : rows[j].key = k => j <= i].value]]

CheckDirty(tab, req) ==
    LET held == Holds(tab)
        rows == Keyed(UserHeaders(tab))
    IN  \/ \E k \in {"method", "url", "body", "bodyType", "binary", "auth", "cookies", "form",
                     "urlencoded"} : held[k] # req[k]
        \/ Len(rows) # Cardinality(DOMAIN req.headers)
        \/ \E i \in DOMAIN rows : rows[i].key \notin DOMAIN req.headers
                                  \/ req.headers[rows[i].key] # rows[i].value

\* The headers are written anew: one the collection held disabled is gone.
SaveToCollection(tab, req) ==
    LET rows == Keyed(UserHeaders(tab))
    IN  [name |-> tab.title,
         rawHeaders |-> CF!Arr([i \in DOMAIN rows |-> CF!MarshalRow(rows[i].key, rows[i].value)])] @@
        Holds(tab) @@ req

-----------------------------------------------------------------------------
(* The layout the tabs share.                                              *)

SharedKeys ==
    {"split_ratio", "vstack_ratio", "layout_mode", "header_split_ratio", "req_collapsed",
     "resp_collapsed", "req_ratio_saved", "resp_ratio_saved"}
SharedWSKeys ==
    {"headers_collapsed", "compose_collapsed", "messages_collapsed", "compose_saved_ratio",
     "msgs_saved_ratio"}
RatioKeys == {"split_ratio", "composer_ratio"}

NoLayout == [k \in {} |-> Null]

Layout(tab) == [k \in SharedKeys |-> tab[k]]

MergeLayoutPrefs(tab, prefs) ==
    LET ws == IF tab.ws = Null THEN <<>>
              ELSE [k \in SharedWSKeys \cup {k \in RatioKeys : tab.ws[k] > 0} |-> tab.ws[k]]
        height == IF tab.resized THEN [headers_abs_height |-> tab.headers_abs_height] ELSE <<>>
        gql == IF tab.gql # Null /\ tab.gql.vars_split_ratio > 0
               THEN [vars_split_ratio |-> tab.gql.vars_split_ratio] ELSE <<>>
        old == IF prefs = NoLayout
               THEN [ws |-> [k \in SharedWSKeys |-> SF!NoWS[k]], gql |-> <<>>] ELSE prefs
    IN  [ws |-> ws @@ old.ws, gql |-> gql @@ old.gql] @@ height @@ Layout(tab) @@ old

ApplyLayoutPrefs(tab, prefs) ==
    LET zero == {k \in {"split_ratio", "vstack_ratio"} : prefs[k] <= 0}
        shared == [k \in SharedKeys \ zero |-> prefs[k]]
        height == IF "headers_abs_height" \in DOMAIN prefs /\ prefs.headers_abs_height > 0
                  THEN [headers_abs_height |-> prefs.headers_abs_height, resized |-> TRUE] ELSE <<>>
        ws == IF tab.ws = Null THEN Null ELSE prefs.ws @@ tab.ws
        gql == IF tab.gql = Null THEN Null ELSE prefs.gql @@ tab.gql
    IN  IF prefs = NoLayout THEN tab
        ELSE [ws |-> ws, gql |-> gql] @@ height @@ shared @@ tab
=============================================================================
