------------------------------- MODULE StateFile -------------------------------
(***************************************************************************)
(* The state file of the program, state.json: what its generated coder     *)
(* writes of a structure and what its decoder makes of a file              *)
(* (internal/persist/state_easyjson.go, internal/model/settings_easyjson.go*)
(* and internal/persist/state.go).                                         *)
(*                                                                         *)
(* A structure is a function from the names its fields have in the file.   *)
(* A JSON object is a pair of functions from names to values: the members  *)
(* whose name is spelled exactly as the field, and the others that differ  *)
(* from it in the case of their letters, in a file somebody edited.  A map *)
(* from names of the user (themes, collections) is a function from them.   *)
(***************************************************************************)
EXTENDS Integers, Sequences

CONSTANTS Null,      \* the null of JSON, and a nil pointer
          Missing,   \* no file
          Empty,     \* a file of blanks
          Broken     \* a file that is not the JSON of this structure

\* The fields of f, and those of g that f does not have.
f ++ g == [x \in DOMAIN f \cup DOMAIN g |-> IF x \in DOMAIN f THEN f[x] ELSE g[x]]

Obj(f) == [exact |-> f, other |-> <<>>]

\* A member whose name is spelled exactly is taken by the first switch of the decoder,
\* any other by the second one.
Members(j) == j.exact ++ j.other

\* Null and absence leave a scalar, a map or a structure as it was.
Scalars(m, K, old) ==
    [k \in K |-> IF k \in DOMAIN m /\ m[k] # Null THEN m[k] ELSE old[k]]

Part(m, k, old, Decode(_)) == IF k \in DOMAIN m /\ m[k] # Null THEN Decode(m[k]) ELSE old

Each(Code(_), s) == [i \in DOMAIN s |-> Code(s[i])]

\* Null makes a list nil, and so does it with a pointer.
List(m, k, old, Decode(_)) ==
    IF k \notin DOMAIN m THEN old ELSE IF m[k] = Null THEN <<>> ELSE Each(Decode, m[k])

Pointer(m, k, old, Decode(_)) ==
    IF k \notin DOMAIN m THEN old ELSE IF m[k] = Null THEN Null ELSE Decode(m[k])

Same(x) == x

\* What is written of the fields in K: a field with omitempty is left out when zero.
Kept(v, K, zero) == [k \in {x \in K : x \in DOMAIN zero => v[x] # zero[x]} |-> v[k]]

Zeros(bools, ints, strings, lists) ==
    [k \in bools \cup ints \cup strings \cup lists |->
        IF k \in bools THEN FALSE
        ELSE IF k \in ints THEN 0
        ELSE IF k \in strings THEN ""
        ELSE <<>>]

-----------------------------------------------------------------------------
(* The settings.                                                           *)

ThemeColorKeys ==
    {"bg", "bg_dark", "bg_field", "bg_menu", "bg_popup", "bg_hover", "bg_secondary",
     "bg_load_more", "bg_drag_holder", "bg_drag_ghost", "border", "border_light", "fg",
     "fg_muted", "fg_dim", "fg_hint", "fg_disabled", "white", "accent", "accent_hover",
     "accent_dim", "accent_fg", "danger", "danger_fg", "cancel", "close_hover",
     "scroll_thumb", "var_found", "var_missing", "divider_light"}

SyntaxColorKeys ==
    {"plain", "string", "number", "bool", "null", "key", "punctuation", "operator",
     "keyword", "type", "comment", "bracket0", "bracket1", "bracket2"}

\* An override is the function of the colors it sets; every color is omitted when empty.
OverrideFrom(j, K) ==
    LET m == IF j = Null THEN <<>> ELSE Members(j)
        set == {k \in DOMAIN m \cap K : m[k] \notin {Null, ""}}
    IN  [k \in set |-> m[k]]

DecodeThemeOverride(j) == OverrideFrom(j, ThemeColorKeys)
DecodeSyntaxOverride(j) == OverrideFrom(j, SyntaxColorKeys)

EncodeThemeOverride(ov) == Obj(ov)
EncodeSyntaxOverride(ov) == Obj(ov)

HeaderKeys == {"key", "value"}
EmptyHeader == [k \in HeaderKeys |-> ""]
DecodeHeader(j) == IF j = Null THEN EmptyHeader ELSE Scalars(Members(j), HeaderKeys, EmptyHeader)
EncodeHeader(h) == Obj(Kept(h, HeaderKeys, <<>>))

CustomThemeKeys == {"id", "name", "based_on"}

DecodeCustomTheme(j) ==
    LET m == Members(j)
    IN  Scalars(m, CustomThemeKeys, [k \in CustomThemeKeys |-> ""]) ++
        [palette |-> Part(m, "palette", <<>>, DecodeThemeOverride),
         syntax |-> Part(m, "syntax", <<>>, DecodeSyntaxOverride)]

EncodeCustomTheme(c) ==
    Obj(Kept(c, CustomThemeKeys, [based_on |-> ""]) ++
        [palette |-> EncodeThemeOverride(c.palette), syntax |-> EncodeSyntaxOverride(c.syntax)])

AppearanceKeys ==
    {"theme", "ui_text_size", "body_text_size", "hide_tab_bar", "hide_sidebar", "ui_scale",
     "compact_menus", "limit_tab_rows", "max_tab_rows"}

HTTPKeys ==
    {"request_timeout_sec", "connect_timeout_sec", "tls_handshake_timeout_sec",
     "idle_conn_timeout_sec", "user_agent", "default_method", "follow_redirects",
     "max_redirects", "verify_ssl", "keep_alive", "disable_http2", "cookie_jar_enabled",
     "send_connection_close", "default_accept_encoding", "max_conns_per_host", "proxy"}

ViewKeys ==
    {"json_indent_spaces", "wrap_lines_default", "preview_max_mb", "syntax_highlight_max_mb",
     "response_body_padding", "default_split_ratio", "auto_format_json",
     "auto_format_json_request", "strip_json_comments", "trim_trailing_whitespace",
     "bracket_pair_colorization", "stack_breakpoint_dp", "default_sidebar_width_px",
     "restore_tabs_on_startup", "select_env_on_edit", "sticky_max_lines"}

ThemeMapKeys == {"syntax_overrides", "theme_overrides", "custom_themes"}

SettingsKeys == AppearanceKeys \cup HTTPKeys \cup ViewKeys \cup {"default_headers"} \cup ThemeMapKeys

DecodeAppearance(m, old) == Scalars(m, AppearanceKeys, old)

DecodeHTTP(m, old) ==
    Scalars(m, HTTPKeys, old) ++
    [default_headers |-> List(m, "default_headers", old.default_headers, DecodeHeader)]

DecodeView(m, old) == Scalars(m, ViewKeys, old)

\* A map in the file replaces the old one as a whole.
DecodeThemeMaps(m, old) ==
    LET Syntax(o) == Each(DecodeSyntaxOverride, o)
        Palettes(o) == Each(DecodeThemeOverride, o)
    IN  [syntax_overrides |-> Part(m, "syntax_overrides", old.syntax_overrides, Syntax),
         theme_overrides |-> Part(m, "theme_overrides", old.theme_overrides, Palettes),
         custom_themes |-> List(m, "custom_themes", old.custom_themes, DecodeCustomTheme)]

DecodeSettingsFrom(m, old) ==
    DecodeAppearance(m, old) ++ DecodeHTTP(m, old) ++ DecodeView(m, old) ++ DecodeThemeMaps(m, old)

DecodeSettings(j, old) == DecodeSettingsFrom(Members(j), old)

EncodeFront(s) ==
    Kept(s, AppearanceKeys \cup HTTPKeys, <<>>) ++
    [default_headers |-> IF s.default_headers = <<>> THEN Null
                         ELSE Each(EncodeHeader, s.default_headers)]

EncodeBack(s) ==
    Kept(s, ViewKeys, [default_sidebar_width_px |-> 0, sticky_max_lines |-> 0]) ++
    Kept([syntax_overrides |-> Each(EncodeSyntaxOverride, s.syntax_overrides),
          theme_overrides |-> Each(EncodeThemeOverride, s.theme_overrides),
          custom_themes |-> Each(EncodeCustomTheme, s.custom_themes)],
         ThemeMapKeys, Zeros({}, {}, {}, ThemeMapKeys))

EncodeSettings(s) == Obj(EncodeFront(s) ++ EncodeBack(s))

-----------------------------------------------------------------------------
(* A tab.                                                                  *)

PairList(m, k, old) == List(m, k, old, DecodeHeader)
Pairs(s) == Each(EncodeHeader, s)

SavedSendKeys == {"name", "opcode", "text"}
NoSend == [k \in SavedSendKeys |-> ""]
DecodeSavedSend(j) == IF j = Null THEN NoSend ELSE Scalars(Members(j), SavedSendKeys, NoSend)
EncodeSavedSend(x) == Obj(Kept(x, SavedSendKeys, NoSend))

WSFlags ==
    {"options_expanded", "offer_deflate", "use_msgpack_proto", "insecure_skip_verify",
     "use_rete_ca", "headers_collapsed", "compose_collapsed", "messages_collapsed"}
WSNumbers ==
    {"subprotos_abs_height", "split_ratio", "composer_ratio", "compose_saved_ratio",
     "msgs_saved_ratio"}
WSTexts == {"proto_cmd", "proto_seq", "proto_opcode"}
WSLists == {"subprotocols", "saved_sends"}
WSKeys == WSFlags \cup WSNumbers \cup WSTexts

NoWS == Zeros(WSFlags, WSNumbers, WSTexts, WSLists)

DecodeWS(j) ==
    LET m == Members(j)
    IN  Scalars(m, WSKeys, NoWS) ++
        [subprotocols |-> List(m, "subprotocols", <<>>, Same),
         saved_sends |-> List(m, "saved_sends", <<>>, DecodeSavedSend)]

EncodeWS(w) ==
    Obj(Kept([w EXCEPT !.saved_sends = Each(EncodeSavedSend, @)], WSKeys \cup WSLists, NoWS))

GQLKeys == {"query", "variables", "vars_split_ratio"}
NoGQL == Zeros({}, {"vars_split_ratio"}, {"query", "variables"}, {})
DecodeGQL(j) == Scalars(Members(j), GQLKeys, NoGQL)
EncodeGQL(q) == Obj(Kept(q, GQLKeys, NoGQL))

FormPartKeys == {"key", "kind", "value", "file_path"}
NoFormPart == [k \in FormPartKeys |-> ""]
DecodeFormPart(j) == IF j = Null THEN NoFormPart ELSE Scalars(Members(j), FormPartKeys, NoFormPart)
EncodeFormPart(x) == Obj(Kept(x, FormPartKeys, [value |-> "", file_path |-> ""]))

AuthKeys == {"type", "token", "username", "password"}
NoAuth == [k \in AuthKeys |-> ""]
DecodeAuth(j) == Scalars(Members(j), AuthKeys, NoAuth)
EncodeAuth(a) == Obj(Kept(a, AuthKeys, NoAuth))

TabFlags == {"headers_expanded", "req_collapsed", "resp_collapsed"}
TabNumbers ==
    {"headers_abs_height", "split_ratio", "vstack_ratio", "layout_mode", "header_split_ratio",
     "req_ratio_saved", "resp_ratio_saved"}
TabFrontKeys == {"kind", "title", "method", "url", "body"} \cup TabFlags \cup TabNumbers
TabMiddleKeys == {"collection_id", "body_type", "binary_path"}

NoTab ==
    Zeros(TabFlags, TabNumbers,
          {"kind", "title", "method", "url", "body"} \cup TabMiddleKeys,
          {"headers", "node_path", "form_parts", "url_encoded", "cookies"}) ++
    [req_wrap_enabled |-> Null, auth |-> Null, ws |-> Null, gql |-> Null]

DecodeTabFront(m) ==
    Scalars(m, TabFrontKeys, NoTab) ++ [headers |-> PairList(m, "headers", <<>>)]

DecodeTabMiddle(m) ==
    Scalars(m, TabMiddleKeys, NoTab) ++
    [req_wrap_enabled |-> Pointer(m, "req_wrap_enabled", Null, Same),
     node_path |-> List(m, "node_path", <<>>, Same),
     form_parts |-> List(m, "form_parts", <<>>, DecodeFormPart),
     url_encoded |-> PairList(m, "url_encoded", <<>>)]

DecodeTabBack(m) ==
    [auth |-> Pointer(m, "auth", Null, DecodeAuth),
     cookies |-> PairList(m, "cookies", <<>>),
     ws |-> Pointer(m, "ws", Null, DecodeWS),
     gql |-> Pointer(m, "gql", Null, DecodeGQL)]

DecodeTabFrom(m) == DecodeTabFront(m) ++ DecodeTabMiddle(m) ++ DecodeTabBack(m)
DecodeTab(j) == IF j = Null THEN NoTab ELSE DecodeTabFrom(Members(j))

\* Of the fields written here title, method, url, body, headers and split_ratio are
\* written even when zero.
EncodeTabFront(t) ==
    Kept([t EXCEPT !.headers = Pairs(@)], TabFrontKeys \cup {"headers"},
         [k \in {"kind"} \cup TabFlags \cup (TabNumbers \ {"split_ratio"}) |-> NoTab[k]])

TabBackKeys ==
    TabMiddleKeys \cup {"req_wrap_enabled", "node_path", "form_parts", "url_encoded", "auth",
                        "cookies", "ws", "gql"}

EncodeTabBack(t) ==
    Kept([t EXCEPT !.form_parts = Each(EncodeFormPart, @), !.url_encoded = Pairs(@),
                   !.cookies = Pairs(@),
                   !.auth = IF @ = Null THEN Null ELSE EncodeAuth(@),
                   !.ws = IF @ = Null THEN Null ELSE EncodeWS(@),
                   !.gql = IF @ = Null THEN Null ELSE EncodeGQL(@)],
         TabBackKeys, NoTab)

EncodeTab(t) == Obj(EncodeTabFront(t) ++ EncodeTabBack(t))

-----------------------------------------------------------------------------
(* The file.                                                               *)

SidebarNumbers ==
    {"active_idx", "sidebar_width_px", "sidebar_env_height_px", "sidebar_scripts_height_px"}
SidebarTexts == {"active_env_id", "sidebar_section"}
WindowNumbers == {"window_width_dp", "window_height_dp"}
Orders == {"env_ids_order", "collection_ids_order"}
Spoilers == {"cols_expanded", "envs_expanded", "scripts_expanded"}
WindowPlace == {"window_x_px", "window_y_px"}

NoState ==
    Zeros({}, SidebarNumbers \cup WindowNumbers, SidebarTexts \cup {"window_mode"},
          Orders \cup {"tabs", "collection_expanded"}) ++
    [k \in Spoilers \cup WindowPlace \cup {"settings"} |-> Null]

SidebarKeys == SidebarNumbers \cup SidebarTexts

DecodeSidebar(m, defaults) ==
    LET Settings(j) == DecodeSettings(j, defaults)
        Paths(o) == Each(LAMBDA p : IF p = Null THEN <<>> ELSE p, o)
    IN  Scalars(m, SidebarKeys, NoState) ++
        [tabs |-> List(m, "tabs", <<>>, DecodeTab),
         settings |-> Pointer(m, "settings", defaults, Settings),
         env_ids_order |-> List(m, "env_ids_order", <<>>, Same),
         collection_ids_order |-> List(m, "collection_ids_order", <<>>, Same),
         collection_expanded |-> Part(m, "collection_expanded", <<>>, Paths)]

DecodeWindow(m) ==
    Scalars(m, WindowNumbers \cup {"window_mode"}, NoState) ++
    [k \in Spoilers \cup WindowPlace |-> Pointer(m, k, Null, Same)]

DecodeMembers(m, defaults) == DecodeSidebar(m, defaults) ++ DecodeWindow(m)
DecodeState(j, defaults) == DecodeMembers(Members(j), defaults)

StateKeys ==
    SidebarKeys \cup Orders \cup Spoilers \cup WindowNumbers \cup WindowPlace \cup
    {"tabs", "settings", "collection_expanded", "window_mode"}

Always == {"tabs", "active_idx", "active_env_id", "sidebar_width_px", "sidebar_env_height_px"}

EncodeState(v) ==
    Obj(Kept([v EXCEPT !.tabs = Each(EncodeTab, @),
                       !.settings = IF @ = Null THEN Null ELSE EncodeSettings(@)],
             StateKeys, [k \in StateKeys \ Always |-> NoState[k]]))

\* What is left out leaves the defaults, and so does a file that cannot be read.
WithSettings(state, defaults) ==
    IF state.settings = Null THEN [state EXCEPT !.settings = defaults] ELSE state

LoadWithRaw(file, defaults) ==
    IF file \in {Missing, Empty, Broken}
    THEN [NoState EXCEPT !.settings = defaults]
    ELSE WithSettings(DecodeState(file, defaults), defaults)

\* A file in the wrong form is set aside under another name.
SetAside(file) == IF file = Broken THEN Missing ELSE file
=============================================================================
