-------------------------------- MODULE Settings -------------------------------
(***************************************************************************)
(* The settings page (internal/ui/settings) and what it acts on: the       *)
(* settings of the window, the variables and the HTTP client the rest of   *)
(* the program reads them from, the colors, and the state file.            *)
(*                                                                         *)
(* Every frame of the open page handles the user's event on a draft and,   *)
(* if something changed, copies switches and texts into the draft, puts it *)
(* in place of the settings, applies it and asks for a save.  Ratios and   *)
(* the scale are in hundredths.  A color is a text; the built-in theme t   *)
(* has the color t everywhere.                                             *)
(***************************************************************************)
EXTENDS StateFile, SequencesExt, FiniteSetsExt

CONSTANTS
    Registry,       \* the built-in themes
    Hexes,          \* colors the user enters
    Garbled,        \* a text that is no color
    Colors,         \* bound: the colors of the theme the user touches
    Tokens,         \* bound: the colors of the syntax the user touches
    Agents,         \* texts for the user agent
    Proxies,        \* texts for the proxy
    HeaderTexts,    \* texts for the default headers: lines <<key, value>>
    Names,          \* names for themes
    NewIDs,         \* the random IDs of new themes, by the change that makes them
    Typed,          \* numbers typed into a field
    Touched,        \* bound: the switches and numbers the user touches
    Picks,        \* bound: the methods and encodings the user picks
    Files,          \* state files the program may find
    MaxEdits        \* bound: the user's changes

ASSUME SettingsAssumption ==
    /\ "dark" \in Registry
    /\ Colors \subseteq ThemeColorKeys
    /\ Tokens \subseteq SyntaxColorKeys
    /\ Touched \subseteq SettingsKeys
    /\ "" \notin Names
    /\ "" \notin {NewIDs[n] : n \in 0..MaxEdits} \cup Registry \cup Hexes \cup {Garbled}
    /\ Null \notin {NewIDs[n] : n \in 0..MaxEdits} \cup Registry \cup Hexes \cup {Garbled}
    /\ Null \notin Agents \cup Proxies \cup Names
    /\ Typed \subseteq Int
    /\ MaxEdits \in Nat

VARIABLES
    settings,    \* ui.Settings
    runtime,     \* what settings.Apply set: variables, colors, the HTTP client
    hideSaved,   \* sidebarHideSaved, or Null when it is not set
    section,     \* SidebarSection
    open,        \* SettingsOpen
    ed,          \* SettingsState, the editor, or Null
    saveNeeded,  \* a save was asked for
    file,        \* state.json
    edits        \* changes made so far

vars == <<settings, runtime, hideSaved, section, open, ed, saveNeeded, file, edits>>

-----------------------------------------------------------------------------
(* Tables.                                                                 *)

DefaultAgent == "Mozilla"
Methods == {"GET", "POST", "PUT", "DELETE", "HEAD", "PATCH", "OPTIONS", "QUERY"}
Encodings ==
    {"", "identity", "gzip", "deflate", "br", "zstd", "gzip, deflate", "gzip, deflate, br, zstd"}

DefaultSettings ==
    [theme |-> "dark", ui_text_size |-> 14, body_text_size |-> 13, hide_tab_bar |-> FALSE,
     hide_sidebar |-> FALSE, ui_scale |-> 100, compact_menus |-> FALSE, limit_tab_rows |-> TRUE,
     max_tab_rows |-> 3, request_timeout_sec |-> 0, connect_timeout_sec |-> 0,
     tls_handshake_timeout_sec |-> 0, idle_conn_timeout_sec |-> 0, user_agent |-> DefaultAgent,
     default_method |-> "GET", follow_redirects |-> TRUE, max_redirects |-> 10,
     verify_ssl |-> TRUE, keep_alive |-> TRUE, disable_http2 |-> FALSE,
     cookie_jar_enabled |-> FALSE, send_connection_close |-> FALSE,
     default_accept_encoding |-> "gzip", max_conns_per_host |-> 0, proxy |-> "",
     default_headers |-> <<>>, json_indent_spaces |-> 2, wrap_lines_default |-> FALSE,
     preview_max_mb |-> 100, syntax_highlight_max_mb |-> 100, response_body_padding |-> 4,
     default_split_ratio |-> 50, auto_format_json |-> TRUE, auto_format_json_request |-> FALSE,
     strip_json_comments |-> TRUE, trim_trailing_whitespace |-> FALSE,
     bracket_pair_colorization |-> TRUE, stack_breakpoint_dp |-> 700,
     default_sidebar_width_px |-> 250, restore_tabs_on_startup |-> TRUE,
     select_env_on_edit |-> TRUE, sticky_max_lines |-> 5, syntax_overrides |-> <<>>,
     theme_overrides |-> <<>>, custom_themes |-> <<>>]

\* Of every number the least and the greatest value its field and its buttons allow.
Limits ==
    [ui_text_size |-> <<10, 28>>, body_text_size |-> <<10, 28>>, ui_scale |-> <<75, 200>>,
     response_body_padding |-> <<0, 32>>, default_split_ratio |-> <<20, 80>>,
     stack_breakpoint_dp |-> <<0, 2000>>, request_timeout_sec |-> <<0, 3600>>,
     connect_timeout_sec |-> <<0, 600>>, tls_handshake_timeout_sec |-> <<0, 600>>,
     idle_conn_timeout_sec |-> <<0, 3600>>, max_redirects |-> <<0, 50>>,
     max_conns_per_host |-> <<0, 10000>>, default_sidebar_width_px |-> <<160, 1000>>,
     sticky_max_lines |-> <<1, 12>>, max_tab_rows |-> <<1, 10>>,
     json_indent_spaces |-> <<0, 8>>, preview_max_mb |-> <<1, 500>>,
     syntax_highlight_max_mb |-> <<1, 500>>]

Numbers == DOMAIN Limits

Texts == {"theme", "user_agent", "default_method", "default_accept_encoding", "proxy"}
Others == Texts \cup {"default_headers"} \cup ThemeMapKeys

\* The rest are the switches of the page.
Switches == SettingsKeys \ (Numbers \cup Others)

-----------------------------------------------------------------------------
(* Settings as the decoder leaves them: every field has a value of its     *)
(* type, and a theme of the user has an ID, as all have that were made here. *)

IsMap(f) == f = [x \in DOMAIN f |-> f[x]]
IsList(s) == s \in Seq({s[i] : i \in DOMAIN s})

IsHeader(h) == IsMap(h) /\ DOMAIN h = HeaderKeys /\ \A k \in HeaderKeys : h[k] # Null
AreHeaders(hs) == IsList(hs) /\ \A i \in DOMAIN hs : IsHeader(hs[i])
AreLines(ls) == IsList(ls) /\ \A i \in DOMAIN ls : ls[i][1] # Null /\ ls[i][2] # Null

IsOverride(ov, K) == IsMap(ov) /\ DOMAIN ov \subseteq K /\ \A k \in DOMAIN ov : ov[k] \notin {Null, ""}
AreOverrides(all, K) == IsMap(all) /\ \A t \in DOMAIN all : IsOverride(all[t], K)

IsCustomTheme(c) ==
    /\ IsMap(c) /\ DOMAIN c = CustomThemeKeys \cup {"palette", "syntax"}
    /\ \A k \in CustomThemeKeys : c[k] # Null
    /\ c.id # ""
    /\ IsOverride(c.palette, ThemeColorKeys) /\ IsOverride(c.syntax, SyntaxColorKeys)

AreThemes(customs) == IsList(customs) /\ \A i \in DOMAIN customs : IsCustomTheme(customs[i])

WellTyped(s) ==
    /\ IsMap(s) /\ DOMAIN s = SettingsKeys
    /\ \A k \in Switches : s[k] \in BOOLEAN
    /\ \A k \in Numbers : s[k] \in Int
    /\ \A k \in Texts : s[k] # Null
    /\ AreHeaders(s.default_headers)
    /\ AreOverrides(s.syntax_overrides, SyntaxColorKeys)
    /\ AreOverrides(s.theme_overrides, ThemeColorKeys)
    /\ AreThemes(s.custom_themes)

ASSUME NullAssumption ==
    /\ Null \notin BOOLEAN \cup Int \cup Methods \cup Encodings
    /\ Null \notin {"", "gzip, deflate, br"} \cup {DefaultSettings[k] : k \in Texts}

ASSUME FilesAssumption == \A f \in Files : WellTyped(LoadWithRaw(f, DefaultSettings).settings)
ASSUME LinesAssumption == \A ls \in HeaderTexts : AreLines(ls)

-----------------------------------------------------------------------------
(* Arithmetic of the fields.                                               *)

Max2(a, b) == IF a > b THEN a ELSE b
Min2(a, b) == IF a < b THEN a ELSE b
Clamped(k, v) == Max2(Limits[k][1], Min2(v, Limits[k][2]))

timeoutStep(v) == IF v < 10 THEN 1 ELSE IF v < 60 THEN 5 ELSE IF v < 300 THEN 30 ELSE 60
connsStep(v) == IF v < 10 THEN 1 ELSE IF v < 100 THEN 10 ELSE IF v < 1000 THEN 50 ELSE 100

StepOf(k, v) ==
    CASE k \in {"ui_scale", "default_split_ratio"} -> 5
      [] k \in {"request_timeout_sec", "idle_conn_timeout_sec"} -> timeoutStep(v)
      [] k = "max_conns_per_host" -> connsStep(v)
      [] k = "default_sidebar_width_px" -> 10
      [] k = "stack_breakpoint_dp" -> 50
      [] OTHER -> 1

Down(k, v) ==
    IF k = "stack_breakpoint_dp" /\ v <= 400 THEN 0 ELSE Clamped(k, v - StepOf(k, v))

Up(k, v) ==
    IF k = "stack_breakpoint_dp" /\ v = 0 THEN 400 ELSE Clamped(k, v + StepOf(k, v))

-----------------------------------------------------------------------------
(* Sanitize: what a number, a method or a theme out of place becomes.      *)

\* What replaces a value below the least one.
TooSmall(k, v) ==
    CASE k \in {"ui_text_size", "body_text_size", "default_split_ratio", "preview_max_mb",
                "syntax_highlight_max_mb", "json_indent_spaces"} -> DefaultSettings[k]
      [] k \in {"ui_scale", "max_tab_rows", "sticky_max_lines"} /\ v = 0 -> DefaultSettings[k]
      [] k = "ui_scale" /\ v < 0 -> DefaultSettings[k]
      [] k = "default_sidebar_width_px" /\ v <= 0 -> 0
      [] OTHER -> Limits[k][1]

\* Mutant: numbers too small are taken as they are.
SaneFromAbove(k, v) ==
    IF k = "stack_breakpoint_dp" /\ v \in 1..399 THEN 400 ELSE Min2(v, Limits[k][2])

SaneNumber(k, v) ==
    IF k = "stack_breakpoint_dp" /\ v \in 1..399 THEN 400
    ELSE IF v < Limits[k][1] THEN TooSmall(k, v)
    ELSE Min2(v, Limits[k][2])

IsValidID(id, customs) == id \in Registry \/ \E i \in DOMAIN customs : customs[i].id = id

Sanitize(s) ==
    [k \in SettingsKeys |->
        CASE k = "theme" -> IF IsValidID(s.theme, s.custom_themes) THEN s.theme ELSE "dark"
          [] k \in Numbers -> SaneNumber(k, s[k])
          [] k = "default_accept_encoding" ->
                 IF s[k] \in Encodings \cup {"gzip, deflate, br"} THEN s[k] ELSE "gzip"
          [] k = "user_agent" -> IF s[k] = "" THEN DefaultAgent ELSE s[k]
          [] k = "default_method" -> IF s[k] \in Methods THEN s[k] ELSE "GET"
          [] OTHER -> s[k]]

-----------------------------------------------------------------------------
(* Apply: what the rest of the program sees.                               *)

IsColor(c) == c \in Hexes \cup Registry

ApplyOverride(p, ov) == [k \in DOMAIN p |-> IF k \in DOMAIN ov /\ IsColor(ov[k]) THEN ov[k] ELSE p[k]]

Plain(t, K) == [k \in K |-> IF t \in Registry THEN t ELSE "dark"]

\* The colors K of theme id; own is the field of a custom theme that has them.
PaletteFor(id, customs, K, own) ==
    LET I == {i \in DOMAIN customs : customs[i].id = id}
    IN  IF id \in Registry \/ I = {} THEN Plain(id, K)
        ELSE LET c == customs[Min(I)] IN ApplyOverride(Plain(c.based_on, K), c[own])

Overridden(s, K, own, overrides) ==
    LET p == PaletteFor(s.theme, s.custom_themes, K, own)
    IN  IF s.theme \in DOMAIN overrides THEN ApplyOverride(p, overrides[s.theme]) ELSE p

RuntimeKeys ==
    {"compact_menus", "body_text_size", "ui_text_size", "user_agent", "default_headers",
     "json_indent_spaces", "preview_max_mb", "syntax_highlight_max_mb", "response_body_padding",
     "default_method", "default_split_ratio", "auto_format_json", "auto_format_json_request",
     "strip_json_comments", "trim_trailing_whitespace", "send_connection_close",
     "default_accept_encoding", "bracket_pair_colorization", "stack_breakpoint_dp"}

\* A number that is zero leaves what the library does by default.
OrLibrary(n) == IF n > 0 THEN n ELSE "library"

\* Mutant: every client gets a new cookie jar.
ClientWithNewJar(s, jar) ==
    [verify |-> s.verify_ssl, keepAlive |-> s.keep_alive, maxConns |-> s.max_conns_per_host,
     http2 |-> ~s.disable_http2, connect |-> OrLibrary(s.connect_timeout_sec),
     tls |-> OrLibrary(s.tls_handshake_timeout_sec), idle |-> OrLibrary(s.idle_conn_timeout_sec),
     proxy |-> IF s.proxy \in Proxies \ {Garbled} THEN s.proxy ELSE "",
     timeout |-> s.request_timeout_sec,
     jar |-> IF s.cookie_jar_enabled THEN edits + 1 ELSE 0,
     redirects |-> IF ~s.follow_redirects THEN 0 ELSE OrLibrary(s.max_redirects)]

\* jar is the cookie jar of the client before, 0 if it has none.  A proxy that is no URL
\* is ignored.
buildHTTPClient(s, jar) ==
    [verify |-> s.verify_ssl, keepAlive |-> s.keep_alive, maxConns |-> s.max_conns_per_host,
     http2 |-> ~s.disable_http2, connect |-> OrLibrary(s.connect_timeout_sec),
     tls |-> OrLibrary(s.tls_handshake_timeout_sec), idle |-> OrLibrary(s.idle_conn_timeout_sec),
     proxy |-> IF s.proxy \in Proxies \ {Garbled} THEN s.proxy ELSE "",
     timeout |-> s.request_timeout_sec,
     jar |-> IF ~s.cookie_jar_enabled THEN 0 ELSE IF jar = 0 THEN edits + 1 ELSE jar,
     redirects |-> IF ~s.follow_redirects THEN 0 ELSE OrLibrary(s.max_redirects)]

Apply(s, jar) ==
    [vars |-> [k \in RuntimeKeys |-> s[k]],
     palette |-> Overridden(s, ThemeColorKeys, "palette", s.theme_overrides),
     syntax |-> Overridden(s, SyntaxColorKeys, "syntax", s.syntax_overrides),
     client |-> buildHTTPClient(s, jar)]

-----------------------------------------------------------------------------
(* The editor.                                                             *)

NoPicker == [kind |-> "none", idx |-> "none", color |-> "none"]

\* The color a row of the page shows, which the picker opens with.
ThemeRowColor(d, i) == Overridden(d, ThemeColorKeys, "palette", d.theme_overrides)[i]
SyntaxRowColor(d, i) == Overridden(d, SyntaxColorKeys, "syntax", d.syntax_overrides)[i]

\* The square and the strip of the picker set its color.
Dragged(picker, c) == [picker EXCEPT !.color = c]

\* The elements of a list that are in a set, in their order.
Selected(s, S) ==
    LET upTo[n \in 0..Len(s)] ==
            IF n = 0 THEN <<>> ELSE IF s[n] \in S THEN Append(upTo[n - 1], s[n]) ELSE upTo[n - 1]
    IN  upTo[Len(s)]

Named(hs) == Selected(hs, {h \in ToSet(hs) : h.key # ""})

\* A line without a key, or a comment, is no header.
textToHeaders(t) ==
    LET lines == Selected(t, {l \in ToSet(t) : l[1] # ""})
    IN  [i \in DOMAIN lines |-> [key |-> lines[i][1], value |-> lines[i][2]]]

headersToText(hs) ==
    [i \in DOMAIN Named(hs) |-> <<Named(hs)[i].key, Named(hs)[i].value>>]

OverrideOf(overrides, t) == IF t \in DOMAIN overrides THEN overrides[t] ELSE <<>>

NewEditor(s) ==
    [draft |-> s,
     switch |-> [k \in Switches |-> s[k]],
     agent |-> s.user_agent, proxy |-> s.proxy, headers |-> headersToText(s.default_headers),
     rows |-> [syntax |-> <<>>, theme |-> <<>>], of |-> [syntax |-> "", theme |-> ""],
     picker |-> NoPicker, dialog |-> FALSE, base |-> ""]

Overrides(d, kind) == IF kind = "syntax" THEN d.syntax_overrides ELSE d.theme_overrides

\* The rows of the colors show the overrides of the theme of the draft.
SyncEditors(e) ==
    [e EXCEPT !.rows = [kind \in {"syntax", "theme"} |->
                           IF e.of[kind] = e.draft.theme THEN @[kind]
                           ELSE OverrideOf(Overrides(e.draft, kind), e.draft.theme)],
              !.of = [kind \in {"syntax", "theme"} |-> e.draft.theme]]

\* The draft with the switches and the texts of the page.
Gathered(e) ==
    Sanitize([k \in SettingsKeys |->
        CASE k \in Switches -> e.switch[k]
          [] k = "user_agent" -> e.agent
          [] k = "proxy" -> e.proxy
          [] k = "default_headers" -> textToHeaders(e.headers)
          [] OTHER -> e.draft[k]])

Put(f, k, v) == [x \in {k} |-> v] ++ f

\* Set the color i of the draft's theme; an override without colors is removed.
PutOverride(d, kind, i, text) ==
    LET old == OverrideOf(Overrides(d, kind), d.theme)
        put == IF text = "" THEN [k \in DOMAIN old \ {i} |-> old[k]] ELSE Put(old, i, text)
        all == Overrides(d, kind)
        new == IF put = <<>> THEN [t \in DOMAIN all \ {d.theme} |-> all[t]]
               ELSE Put(all, d.theme, put)
    IN  IF kind = "syntax" THEN [d EXCEPT !.syntax_overrides = new]
        ELSE [d EXCEPT !.theme_overrides = new]

PutRow(row, i, text) ==
    IF text = "" THEN [k \in DOMAIN row \ {i} |-> row[k]] ELSE Put(row, i, text)

WithColor(e, kind, i, text) ==
    [e EXCEPT !.draft = PutOverride(@, kind, i, text), !.rows[kind] = PutRow(@, i, text)]

-----------------------------------------------------------------------------
(* The page.                                                               *)

\* The controls on the four pages.  Which page is shown is left out: the user may
\* change it at any time and nothing depends on it.
AppearanceControls ==
    {"theme", "theme_overrides", "syntax_overrides", "custom_themes", "hide_tab_bar",
     "hide_sidebar", "compact_menus", "limit_tab_rows", "max_tab_rows",
     "restore_tabs_on_startup", "select_env_on_edit"}

SizesControls ==
    {"ui_text_size", "body_text_size", "ui_scale", "response_body_padding",
     "default_split_ratio", "stack_breakpoint_dp", "default_sidebar_width_px",
     "sticky_max_lines"}

HTTPControls ==
    {"request_timeout_sec", "connect_timeout_sec", "tls_handshake_timeout_sec",
     "idle_conn_timeout_sec", "default_method", "user_agent", "follow_redirects",
     "max_redirects", "verify_ssl", "keep_alive", "disable_http2", "cookie_jar_enabled",
     "send_connection_close", "max_conns_per_host", "default_accept_encoding", "proxy",
     "default_headers"}

AdvancedControls ==
    {"json_indent_spaces", "preview_max_mb", "syntax_highlight_max_mb", "wrap_lines_default",
     "auto_format_json", "auto_format_json_request", "strip_json_comments",
     "trim_trailing_whitespace", "bracket_pair_colorization"}

Controls == AppearanceControls \cup SizesControls \cup HTTPControls \cup AdvancedControls

\* The tiles of the themes: the built-in ones and the user's, which can be deleted.
ThemeTiles == Registry \cup {ed.draft.custom_themes[i].id : i \in DOMAIN ed.draft.custom_themes}

\* A new theme can be based on a built-in one, or on the theme in use.
BaseTiles == Registry

Page == open /\ ed # Null
MayEdit == Page /\ edits < MaxEdits
Elsewhere == UNCHANGED <<hideSaved, section, open, file>>

\* The end of Update when something changed.
Changed(e) ==
    LET synced == SyncEditors(e)
        d == Gathered(synced)
    IN  /\ ed' = [synced EXCEPT !.draft = d]
        /\ settings' = d
        /\ runtime' = Apply(d, runtime.client.jar)
        /\ saveNeeded' = TRUE
        /\ edits' = edits + 1
        /\ Elsewhere

\* ... and when nothing did.
Shown(e) ==
    /\ ed' = SyncEditors(e)
    /\ UNCHANGED <<settings, runtime, saveNeeded, edits>>
    /\ Elsewhere

WithDraft(k, v) == [ed EXCEPT !.draft[k] = v]

Switch(k) == MayEdit /\ Changed([ed EXCEPT !.switch[k] = ~@])

\* A button of the stack breakpoint counts as a change even at its end.
Step(k, v) ==
    /\ MayEdit
    /\ v # ed.draft[k] \/ k = "stack_breakpoint_dp"
    /\ Changed(WithDraft(k, v))

\* A number typed into a field, committed by Enter or by leaving the field.
Commit(k, v) ==
    LET c == IF k = "stack_breakpoint_dp" /\ Clamped(k, v) \in 1..399 THEN 400 ELSE Clamped(k, v)
    IN  /\ MayEdit
        /\ Clamped(k, v) # ed.draft[k]
        /\ Changed(WithDraft(k, c))

PickMethod(m) == MayEdit /\ ed.draft.default_method # m /\ Changed(WithDraft("default_method", m))

PickEncoding(c) ==
    /\ MayEdit
    /\ ed.draft.default_accept_encoding # c
    /\ Changed(WithDraft("default_accept_encoding", c))

EditText ==
    /\ MayEdit
    /\ \/ \E t \in Agents \ {ed.agent} : Changed([ed EXCEPT !.agent = t])
       \/ \E t \in Proxies \ {ed.proxy} : Changed([ed EXCEPT !.proxy = t])
       \/ \E t \in HeaderTexts \ {ed.headers} : Changed([ed EXCEPT !.headers = t])

\* Tiles of the built-in and of the custom themes.
PickTheme(t) ==
    /\ MayEdit
    /\ ed.draft.theme # t
    /\ Changed([ed EXCEPT !.draft.theme = t, !.picker = NoPicker])

\* The overrides of the deleted theme stay, and so does an open color picker.
DeleteCustomTheme(i) ==
    /\ MayEdit
    /\ LET c == ed.draft.custom_themes
           rest == SubSeq(c, 1, i - 1) \o SubSeq(c, i + 1, Len(c))
       IN  Changed([ed EXCEPT !.draft.custom_themes = rest,
                              !.draft.theme = IF @ = c[i].id THEN "dark" ELSE @])

\* The button toggles the dialog; opening it takes the theme as the base.
NewThemeDialog ==
    /\ Page
    /\ Shown([ed EXCEPT !.dialog = ~@, !.base = IF ed.dialog THEN @ ELSE ed.draft.theme])

PickBase(t) == Page /\ ed.dialog /\ ed.base # t /\ Shown([ed EXCEPT !.base = t])

CancelTheme == Page /\ ed.dialog /\ Shown([ed EXCEPT !.dialog = FALSE])

CreateTheme(name) ==
    LET base == IF ed.base = "" THEN "dark" ELSE ed.base
        customs == ed.draft.custom_themes
        new == [id |-> NewIDs[edits], name |-> name, based_on |-> base,
                palette |-> PaletteFor(base, customs, ThemeColorKeys, "palette"),
                syntax |-> PaletteFor(base, customs, SyntaxColorKeys, "syntax")]
    IN  /\ MayEdit
        /\ ed.dialog
        /\ Changed([ed EXCEPT !.draft.custom_themes = Append(@, new), !.draft.theme = new.id,
                              !.dialog = FALSE, !.picker = NoPicker])

RowText(e, kind, i) == IF i \in DOMAIN e.rows[kind] THEN e.rows[kind][i] ELSE ""

\* A color typed into its row, as a color or not.
TypeColor(kind, i, text) ==
    /\ MayEdit
    /\ RowText(ed, kind, i) # text
    /\ Changed(WithColor(ed, kind, i, text))

IsOn(picker, kind, i) == picker.kind = kind /\ picker.idx = i

ResetColor(kind, i) ==
    /\ MayEdit
    /\ Changed([WithColor(ed, kind, i, "") EXCEPT !.picker = IF IsOn(@, kind, i) THEN NoPicker ELSE @])

\* The swatch of a color opens the picker on it, or closes it.
Swatch(kind, i) ==
    LET color == IF kind = "syntax" THEN SyntaxRowColor(ed.draft, i) ELSE ThemeRowColor(ed.draft, i)
    IN  /\ MayEdit
        /\ Changed([ed EXCEPT !.picker = IF IsOn(@, kind, i) THEN NoPicker
                                         ELSE [kind |-> kind, idx |-> i, color |-> color]])

\* Dragging in the picker writes the color into the row it was opened on.
DragPicker(c) ==
    LET kind == ed.picker.kind
        i == ed.picker.idx
        dragged == [ed EXCEPT !.picker = Dragged(@, c)]
    IN  /\ MayEdit
        /\ ed.picker # NoPicker
        /\ ed.picker.color # c
        /\ IF RowText(ed, kind, i) = c THEN Shown(dragged)
           ELSE Changed(WithColor(dragged, kind, i, c))

\* Its button closes it and counts as a change; a press beside it does not.
ClosePicker ==
    /\ ed # Null
    /\ ed.picker # NoPicker
    /\ \/ MayEdit /\ Changed([ed EXCEPT !.picker = NoPicker])
       \/ Page /\ Shown([ed EXCEPT !.picker = NoPicker])

ResetAllColors(kind) ==
    /\ MayEdit
    /\ LET all == Overrides(ed.draft, kind)
           rest == [t \in DOMAIN all \ {ed.draft.theme} |-> all[t]]
           cleared == [ed EXCEPT !.rows[kind] = <<>>]
       IN  Changed(IF kind = "syntax" THEN [cleared EXCEPT !.draft.syntax_overrides = rest]
                   ELSE [cleared EXCEPT !.draft.theme_overrides = rest])

\* Mutant: the rows of the colors are not emptied.
ResetKeepsRows ==
    /\ MayEdit
    /\ Changed([NewEditor(DefaultSettings) EXCEPT
                   !.rows = ed.rows, !.of = [syntax |-> "dark", theme |-> "dark"], !.base = ed.base])

Reset == MayEdit /\ Changed([NewEditor(DefaultSettings) EXCEPT !.base = ed.base])

-----------------------------------------------------------------------------
(* The window around it.                                                   *)

\* The button in the title bar.  Closing the page with it keeps the editor.
ToggleSettings ==
    /\ open' = ~open
    /\ ed' = IF open THEN ed ELSE SyncEditors(IF ed = Null THEN NewEditor(settings) ELSE ed)
    /\ UNCHANGED <<settings, runtime, hideSaved, section, saveNeeded, file, edits>>

Back ==
    /\ Page
    /\ open' = FALSE
    /\ ed' = Null
    /\ UNCHANGED <<settings, runtime, hideSaved, section, saveNeeded, file, edits>>

ToggleSidebar ==
    /\ ~open
    /\ edits < MaxEdits
    /\ section # "har"
    /\ settings' = [settings EXCEPT !.hide_sidebar = ~@]
    /\ saveNeeded' = TRUE
    /\ edits' = edits + 1
    /\ UNCHANGED <<runtime, hideSaved, section, open, ed, file>>

\* The HAR viewer hides the sidebar and gives it back.
SetSidebarSection(id) ==
    /\ ~open
    /\ edits < MaxEdits
    /\ section # id
    /\ IF id = "har"
       THEN hideSaved' = settings.hide_sidebar /\ settings' = [settings EXCEPT !.hide_sidebar = TRUE]
       ELSE IF section = "har" /\ hideSaved # Null
       THEN hideSaved' = Null /\ settings' = [settings EXCEPT !.hide_sidebar = hideSaved]
       ELSE UNCHANGED <<hideSaved, settings>>
    /\ section' = id
    /\ saveNeeded' = TRUE
    /\ edits' = edits + 1
    /\ UNCHANGED <<runtime, open, ed, file>>

\* The settings as they are without the HAR viewer.
Undone == IF hideSaved = Null THEN settings ELSE [settings EXCEPT !.hide_sidebar = hideSaved]

\* buildStateSnapshot, as far as it is about the settings.
Snapshot == EncodeState([NoState EXCEPT !.settings = Undone, !.sidebar_section = section])

Save ==
    /\ saveNeeded
    /\ file' = Snapshot
    /\ saveNeeded' = FALSE
    /\ UNCHANGED <<settings, runtime, hideSaved, section, open, ed, edits>>

Sections == {"requests", "flows", "mitm", "har"}

Loaded(f) == Sanitize(LoadWithRaw(f, DefaultSettings).settings)

SectionOf(s) == IF s \in {"flows", "requests", "har"} THEN s ELSE "requests"

\* Old files have a setting that is no longer known: they are written anew.
HasOldKey(f) ==
    /\ f \notin {Missing, Empty, Broken}
    /\ LET m == Members(f)
       IN  "settings" \in DOMAIN m /\ m.settings # Null /\ "mono_font" \in DOMAIN m.settings.exact

\* loadState, as far as it is about the settings, once the file f is found.
StartedIn(s, sec) ==
    [settings |-> IF sec = "har" THEN [s EXCEPT !.hide_sidebar = TRUE] ELSE s,
     hideSaved |-> IF sec = "har" THEN s.hide_sidebar ELSE Null,
     runtime |-> Apply(s, 0),
     section |-> sec]

StartedWith(state) == StartedIn(Sanitize(state.settings), SectionOf(state.sidebar_section))
Started(f) == StartedWith(LoadWithRaw(f, DefaultSettings))

\* The program ends, having saved or by a crash, and is started again.
Restart ==
    \E start \in {Started(file)} :
        /\ settings' = start.settings
        /\ runtime' = start.runtime
        /\ hideSaved' = start.hideSaved
        /\ section' = start.section
        /\ saveNeeded' = HasOldKey(file)
        /\ open' = FALSE
        /\ ed' = Null
        /\ file' = SetAside(file)
        /\ UNCHANGED edits

Init ==
    /\ edits = 0
    /\ \E f \in Files : \E start \in {Started(f)} :
        /\ settings = start.settings
        /\ runtime = start.runtime
        /\ hideSaved = start.hideSaved
        /\ section = start.section
        /\ saveNeeded = HasOldKey(f)
        /\ open = FALSE
        /\ ed = Null
        /\ file = SetAside(f)

-----------------------------------------------------------------------------

EditNumber ==
    \E k \in Numbers \cap Controls \cap Touched :
        \/ Step(k, Down(k, ed.draft[k]))
        \/ Step(k, Up(k, ed.draft[k]))
        \/ \E v \in Typed : Commit(k, v)

EditTheme ==
    \/ Page /\ \E t \in ThemeTiles : PickTheme(t)
    \/ Page /\ \E i \in DOMAIN ed.draft.custom_themes : DeleteCustomTheme(i)
    \/ \E t \in BaseTiles : PickBase(t)
    \/ NewThemeDialog
    \/ CancelTheme
    \/ \E name \in Names : CreateTheme(name)

EditColor(kind, I) ==
    \/ \E i \in I :
           \/ ResetColor(kind, i)
           \/ Swatch(kind, i)
           \/ \E c \in Hexes \cup {Garbled, ""} : TypeColor(kind, i, c)
    \/ ResetAllColors(kind)

Next ==
    \/ ToggleSettings
    \/ Back
    \/ \E k \in Switches \cap Controls \cap Touched : Switch(k)
    \/ EditNumber
    \/ \E m \in Methods \cap Picks : PickMethod(m)
    \/ \E c \in Encodings \cap Picks : PickEncoding(c)
    \/ EditText
    \/ EditTheme
    \/ EditColor("syntax", Tokens)
    \/ EditColor("theme", Colors)
    \/ \E c \in Hexes : DragPicker(c)
    \/ ClosePicker
    \/ Reset
    \/ ToggleSidebar
    \/ \E id \in Sections : SetSidebarSection(id)
    \/ Save
    \/ Restart

Spec == Init /\ [][Next]_vars

-----------------------------------------------------------------------------
(* Properties.                                                             *)

\* The settings are in order wherever they come from: numbers within their limits, the
\* theme and the method known.
InOrder(s) ==
    /\ DOMAIN s = SettingsKeys
    /\ \A k \in Switches : s[k] \in BOOLEAN
    /\ \A k \in Numbers :
           s[k] \in Limits[k][1]..Limits[k][2] \cup (IF k = "default_sidebar_width_px" THEN {0} ELSE {})
    /\ s.default_method \in Methods
    /\ IsValidID(s.theme, s.custom_themes)
    /\ s.user_agent # ""

TypeOK ==
    /\ InOrder(settings)
    /\ hideSaved # Null => hideSaved \in BOOLEAN
    /\ section \in Sections
    /\ open \in BOOLEAN
    /\ open => ed # Null
    /\ ed # Null => InOrder(ed.draft)
    /\ saveNeeded \in BOOLEAN
    /\ edits \in 0..MaxEdits

\* A width of 0 exists only in a file edited by hand; it is left out when written and
\* becomes the default.
WidthOf(s) == IF s.default_sidebar_width_px = 0 THEN 250 ELSE s.default_sidebar_width_px

\* What the state file gives back is what was set: no field, override or theme gets lost
\* or changed by leaving out zeros, by null, by the defaults a file is read into or by the
\* HAR viewer, which hides the sidebar only while it is shown.
SurvivesRestart ==
    ~saveNeeded =>
        /\ [Loaded(file) EXCEPT !.default_sidebar_width_px = 0] =
               [Undone EXCEPT !.default_sidebar_width_px = 0]
        /\ WidthOf(Loaded(file)) = WidthOf(Undone)

\* As long as the page is open its draft is what is set, so that the next change of
\* anything cannot bring back an older value; its rows show the overrides of the theme in
\* use, so that the next color is put where it is shown.  The sidebar switch is exempt: an
\* editor that the title bar kept does not see the sidebar being toggled behind it.
DraftIsCurrent ==
    open =>
        /\ \A k \in SettingsKeys \ {"hide_sidebar"} : ed.draft[k] = settings[k]
        /\ \A k \in Switches \ {"hide_sidebar"} : ed.switch[k] = settings[k]
        /\ textToHeaders(ed.headers) = Named(settings.default_headers)
        /\ \A kind \in {"syntax", "theme"} :
               ed.rows[kind] = OverrideOf(Overrides(settings, kind), settings.theme)

\* The colors, the variables and the client in use are those of the settings.
RuntimeMatches ==
    /\ [runtime EXCEPT !.client.jar = 0] = [Apply(settings, 0) EXCEPT !.client.jar = 0]
    /\ runtime.client.jar # 0 <=> settings.cookie_jar_enabled

\* The file, the page, the settings and what runs by them agree after every step.
InStep == SurvivesRestart /\ DraftIsCurrent /\ RuntimeMatches

\* The cookies outlive every change of the settings but switching them off.
JarKept ==
    [][runtime.client.jar # 0 /\ settings'.cookie_jar_enabled /\ ~Restart
        => runtime'.client.jar = runtime.client.jar]_vars
=============================================================================
